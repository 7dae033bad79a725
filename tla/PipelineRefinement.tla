------------------------- MODULE PipelineRefinement -------------------------
(***************************************************************************)
(* PipelineStateMachine implements PipelineLifecycle: the Redis record is  *)
(* the pipeline, and every step that changes it is a step the lifecycle    *)
(* allows, as long as the locking holds.                                   *)
(***************************************************************************)
EXTENDS PipelineStateMachine

Lifecycle == INSTANCE PipelineLifecycle WITH
    run <- ctx.wf, phase <- ctx.state, retries <- ctx.retry, sound <- clean

\* The pipeline in Redis lives the life PipelineLifecycle describes.
ImplementsLifecycle == Lifecycle!Spec

-----------------------------------------------------------------------------
(* The inductive invariant behind the theorems of PipelineProofs *)

\* A callback about a job knows the phase of that job.
CallbackHasPhase ==
    \A p \in Procs : req[p].op \in {"complete", "fallback"}
                        => req[p].phase \in Phase

\* What is about to be written was validated against what was loaded.
Validated(p) ==
    /\ view[p].state \in PipelineState
    /\ \/ /\ req[p].op = "fail"
          /\ view[p].retry < MaxRetries
       \/ /\ req[p].op # "fail"
          /\ req[p].target \in VALID_TRANSITIONS[view[p].state]
WritesAreValidated ==
    \A p \in Procs : pc[p] \in {"write", "audit", "enter"} => Validated(p)

\* The latest row ends where c stands; a workflow without a row is IDLE.
EndsAt(c) == IF audit.wf = c.wf THEN audit.new = c.state ELSE c.state = "idle"

\* The lock key covers whoever is inside, one call at a time.
LockCovers ==
    /\ \A p \in Procs : Inside(p) => lock
    /\ MutualExclusion

\* Record and history in every stage of an update.
RecordInStep ==
    /\ \A p \in Procs : pc[p] = "write" => view[p] = ctx
    /\ \A p \in Procs : pc[p] = "audit" => ctx = Updated(p) /\ EndsAt(view[p])
    /\ (\A p \in Procs : pc[p] # "audit") => ctx.state = None \/ EndsAt(ctx)

\* The workflow of a start that has not written its context yet is new.
FreshWorkflows ==
    /\ ctx.wf <= spent["start"]
    /\ audit.wf <= spent["start"]
    /\ \A p \in Procs : pc[p] = "create" =>
          /\ 0 < req[p].wf /\ req[p].wf <= spent["start"]
          /\ ctx.wf # req[p].wf
          /\ audit.wf # req[p].wf
          /\ \A q \in Procs \ {p} : pc[q] = "create" => req[q].wf # req[p].wf

InductiveInvariant ==
    /\ TypeOK
    /\ CallbackHasPhase
    /\ WritesAreValidated
    /\ clean => LockCovers /\ RecordInStep /\ FreshWorkflows

-----------------------------------------------------------------------------
(* What is inductive on top of it unless the coordinator queues a handoff *)

\* The workflow of a pipeline that is recorded has been started.
WorkflowKnown == ctx.state # None => ctx.wf > 0

\* p was called back about a job of the phase the pipeline is in, and what it
\* will ask transition() for is allowed there.
Attends(p) ==
    /\ pc[p] \in {"wait", "load", "write", "handover"}
    /\ req[p].phase = ctx.state
    /\ \/ req[p].op = "fail"
       \/ /\ req[p].op \in {"complete", "fallback", "exhausted"}
          /\ req[p].target \in VALID_TRANSITIONS[ctx.state]

\* p has moved the pipeline to the phase it is in and will queue its job.
Enters(p) ==
    /\ pc[p] \in {"audit", "enter"}
    /\ view[p].wf > 0
    /\ Updated(p).state = ctx.state

\* Somebody sees to the phase the pipeline is in: a job, the callback of one
\* that ended, or the call that will queue one.
PhaseAttended ==
    (spent["fault"] = 0 /\ ctx.state \in Phase)
        => \/ \E w \in Workflow : queue[w][ctx.state] > 0
           \/ \E p \in Procs : Attends(p) \/ Enters(p)

AttendedInvariant ==
    /\ InductiveInvariant
    /\ clean => WorkflowKnown /\ PhaseAttended
=============================================================================
