---------------------------- MODULE MCExecutors ----------------------------
EXTENDS PhaseExecutors, TLC

CONSTANTS j1, other

Ids == Jobs \X (1 .. MaxRuns) \cup Others
OtherIds == {<<other, 1>>}

\* A job of any agent, either with two incidents or with another session that
\* competes for the limit.
Starts == UNION {{[agent |-> j1 :> a, others |-> {}, incidents |-> 2],
                  [agent |-> j1 :> a, others |-> Others, incidents |-> 0]} :
                    a \in {"planner", "dev", "qa", "devops"}}
=============================================================================
