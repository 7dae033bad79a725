-------------------------- MODULE PipelineLifecycle --------------------------
(***************************************************************************)
(* What the orchestrator promises about the pipeline of a project, with no *)
(* locks, tables or processes: one workflow at a time, which moves along   *)
(* VALID_TRANSITIONS one atomic step after the other and is retried a      *)
(* bounded number of times.  The promise ends with the first event that    *)
(* takes the lock away from a call that holds it, or that changes the      *)
(* record behind such a call's back (breakdown).                           *)
(***************************************************************************)
EXTENDS Naturals, PipelineStates

CONSTANT MaxRetries

VARIABLES
    run,        \* the workflow, 0 before the first
    phase,      \* its state, "none" before the first
    retries,    \* how often it was retried
    sound       \* no breakdown yet

lifecycle == <<run, phase, retries, sound>>

Init == run = 0 /\ phase = "none" /\ retries = 0 /\ sound = TRUE

\* A new workflow replaces none but a finished one.
Start ==
    /\ phase \in {"none"} \cup TERMINAL_STATES
    /\ phase' = "idle"
    /\ run' # run
    /\ retries' = 0

Move ==
    /\ phase \in PipelineState
    /\ phase' \in VALID_TRANSITIONS[phase]
    /\ UNCHANGED <<run, retries>>

Retry ==
    /\ retries < MaxRetries
    /\ retries' = retries + 1
    /\ UNCHANGED <<run, phase>>

\* Nothing is kept for ever.
Forget ==
    /\ phase \in PipelineState
    /\ run' = 0 /\ phase' = "none" /\ retries' = 0

Promised == sound /\ sound' /\ (Start \/ Move \/ Retry \/ Forget)

Breakdown == sound' = FALSE

Next == Promised \/ Breakdown

Spec == Init /\ [][Next]_lifecycle
=============================================================================
