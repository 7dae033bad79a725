------------------------------ MODULE PhaseJobs ------------------------------
(***************************************************************************)
(* What the agent queue promises the pipeline, with no rows, workers or    *)
(* attempts: a job that was added owes the pipeline one verdict.  It may   *)
(* be lost on the way, and it may be given out again once, after which it  *)
(* owes another; but the verdict that all attempts have failed is the last *)
(* one.  PipelineStateMachine has its callbacks under these rules.         *)
(***************************************************************************)
EXTENDS Sequences

CONSTANTS Jobs, Verdict

VARIABLES
    added,  \* the jobs that were added
    owed,   \* the jobs that owe a verdict
    again,  \* the jobs that were given out again
    told    \* what the pipeline was told of each job

phaseJobs == <<added, owed, again, told>>

Init ==
    /\ added = {} /\ owed = {} /\ again = {}
    /\ told = [j \in Jobs |-> <<>>]

Add(j) ==
    /\ j \notin added
    /\ added' = added \cup {j}
    /\ owed' = owed \cup {j}
    /\ UNCHANGED <<again, told>>

Tell(j, v) ==
    /\ j \in owed
    /\ owed' = owed \ {j}
    /\ told' = [told EXCEPT ![j] = Append(@, v)]
    /\ UNCHANGED <<added, again>>

\* The worker of j died and was not seen to have told.
GiveAgain(j) ==
    /\ j \in added \ again
    /\ \A i \in DOMAIN told[j] : told[j][i] # "failed"
    /\ again' = again \cup {j}
    /\ owed' = owed \cup {j}
    /\ UNCHANGED <<added, told>>

\* Jobs are cancelled, or lost by a fault.
Lose ==
    /\ owed' \subseteq owed
    /\ UNCHANGED <<added, again, told>>

Next ==
    \/ \E j \in Jobs : Add(j) \/ GiveAgain(j) \/ \E v \in Verdict : Tell(j, v)
    \/ Lose

Spec == Init /\ [][Next]_phaseJobs
=============================================================================
