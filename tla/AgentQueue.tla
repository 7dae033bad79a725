----------------------------- MODULE AgentQueue -----------------------------
(***************************************************************************)
(* The agent-tasks queue: AgentQueueService (the row of a job and the Bull  *)
(* job behind it, cancellation) and AgentJobProcessor (what a worker does   *)
(* around the handler of a pipeline job, and the failed event).             *)
(*                                                                         *)
(* A job has two records that no transaction ties together: its row in     *)
(* PostgreSQL and its job in Bull, which decides what runs.  Bull is        *)
(* external and modelled by what the code relies on: a waiting job is given *)
(* to one worker, a job that throws is tried again until Attempts, and a    *)
(* job whose worker died is given out once more, but not twice.             *)
(*                                                                         *)
(* Left out: priorities, back-off times, jobs that are not of a pipeline,   *)
(* the attempts column and getters.                                         *)
(***************************************************************************)
EXTENDS Integers, Sequences

CONSTANTS
    Jobs,       \* the jobs that may be added
    Attempts    \* attempts of a Bull job

ASSUME QueueAssumption == Attempts \in Nat \ {0}

VARIABLES
    adding,     \* where addJob is
    row,        \* the status column of the job's row
    bullIds,    \* jobs whose row has a bullJobId
    bull,       \* the state of the Bull job
    made,       \* attemptsMade of the Bull job
    stalls,     \* how often the Bull job was found without a worker
    work,       \* where the worker's process() is
    result,     \* what the handler returned to it
    late,       \* failed attempts whose onFailed has not updated the row yet
    telling,    \* jobs whose onFailed is about to call onPhaseFailed
    told,       \* what the pipeline state machine was told, call by call
    cancel,     \* where cancelJob is
    muddled,    \* history: jobs whose row was written out of turn
    dropped     \* history: jobs the pipeline will not hear of, and why not

records == <<row, bullIds, bull, made, stalls>>
workerVars == <<work, result, late, telling, told>>
queueHistory == <<muddled, dropped>>
queueVars == <<adding, records, workerVars, cancel, queueHistory>>

Verdict == {"ok", "notok", "failed"}

QueueTypeOK ==
    /\ adding \in [Jobs -> {"idle", "enqueue", "save", "done"}]
    /\ row \in [Jobs -> {"none", "PENDING", "PROCESSING", "COMPLETED",
                         "FAILED", "RETRYING"}]
    /\ bullIds \subseteq Jobs
    /\ bull \in [Jobs -> {"none", "waiting", "active", "completed", "failed",
                          "removed"}]
    /\ made \in [Jobs -> 0 .. Attempts]
    /\ stalls \in [Jobs -> Nat]
    /\ work \in [Jobs -> {"idle", "mark", "run", "complete", "notify", "return"}]
    /\ result \in [Jobs -> {"none", "ok", "notok"}]
    /\ late \in [Jobs -> SUBSET (0 .. Attempts)]
    /\ telling \subseteq Jobs
    /\ told \in [Jobs -> Seq(Verdict)]
    /\ cancel \in [Jobs -> {"idle", "remove", "mark", "done"}]
    /\ muddled \subseteq Jobs
    /\ dropped \subseteq Jobs

QueueInit ==
    /\ adding = [j \in Jobs |-> "idle"]
    /\ row = [j \in Jobs |-> "none"]
    /\ bullIds = {}
    /\ bull = [j \in Jobs |-> "none"]
    /\ made = [j \in Jobs |-> 0]
    /\ stalls = [j \in Jobs |-> 0]
    /\ work = [j \in Jobs |-> "idle"]
    /\ result = [j \in Jobs |-> "none"]
    /\ late = [j \in Jobs |-> {}]
    /\ telling = {}
    /\ told = [j \in Jobs |-> <<>>]
    /\ cancel = [j \in Jobs |-> "idle"]
    /\ muddled = {}
    /\ dropped = {}

-----------------------------------------------------------------------------
(* History *)

\* A status that says how the job ended is overwritten out of turn.
Spoil(j) ==
    muddled' = IF row[j] \in {"COMPLETED", "FAILED"} THEN muddled \cup {j}
                                                    ELSE muddled

-----------------------------------------------------------------------------
(* addJob, called by onStateEnter of the pipeline state machine *)

\* The row is created.
AddJob(j) ==
    /\ adding[j] = "idle"
    /\ adding' = [adding EXCEPT ![j] = "enqueue"]
    /\ row' = [row EXCEPT ![j] = "PENDING"]
    /\ UNCHANGED <<bullIds, bull, made, stalls, workerVars, cancel, queueHistory>>

Enqueue(j) ==
    /\ adding[j] = "enqueue"
    /\ adding' = [adding EXCEPT ![j] = "save"]
    /\ bull' = [bull EXCEPT ![j] = "waiting"]
    /\ UNCHANGED <<row, bullIds, made, stalls, workerVars, cancel, queueHistory>>

\* Redis does not answer: addJob throws and leaves a PENDING row behind.
EnqueueFails(j) ==
    /\ adding[j] = "enqueue"
    /\ adding' = [adding EXCEPT ![j] = "done"]
    /\ dropped' = dropped \cup {j}
    /\ UNCHANGED <<records, workerVars, cancel, muddled>>

\* save() compares the entity with the row: it adds the bullJobId and sets the
\* status back to the entity's PENDING if a worker has changed it.
SaveBullId(j) ==
    /\ adding[j] = "save"
    /\ adding' = [adding EXCEPT ![j] = "done"]
    /\ bullIds' = bullIds \cup {j}
    /\ row' = [row EXCEPT ![j] = "PENDING"]
    /\ Spoil(j)
    /\ UNCHANGED <<bull, made, stalls, workerVars, cancel, dropped>>

-----------------------------------------------------------------------------
(* process() of the worker *)

\* Bull gives the job to a worker.
Take(j) ==
    /\ bull[j] = "waiting"
    /\ work[j] = "idle"
    /\ bull' = [bull EXCEPT ![j] = "active"]
    /\ work' = [work EXCEPT ![j] = "mark"]
    /\ UNCHANGED <<adding, row, bullIds, made, stalls, result, late, telling, told,
                   cancel, queueHistory>>

MarkProcessing(j) ==
    /\ work[j] = "mark"
    /\ row' = [row EXCEPT ![j] = "PROCESSING"]
    /\ work' = [work EXCEPT ![j] = "run"]
    /\ UNCHANGED <<adding, bullIds, bull, made, stalls, result, late, telling, told,
                   cancel, queueHistory>>

\* One attempt too many.
ThrowsBug(j) ==
    /\ made' = [made EXCEPT ![j] = @ + 1]
    /\ bull' = [bull EXCEPT ![j] = IF made[j] < Attempts THEN "waiting"
                                                        ELSE "failed"]
    /\ late' = [late EXCEPT ![j] = @ \cup {made[j] + 1}]
    /\ work' = [work EXCEPT ![j] = "idle"]
    /\ result' = [result EXCEPT ![j] = "none"]
    /\ UNCHANGED <<adding, row, bullIds, stalls, telling, told, cancel,
                   queueHistory>>

\* The attempt ends with an exception: Bull counts it, tries again or gives
\* up, and emits the failed event.
Throws(j) ==
    /\ made' = [made EXCEPT ![j] = @ + 1]
    /\ bull' = [bull EXCEPT ![j] = IF made[j] + 1 < Attempts THEN "waiting"
                                                            ELSE "failed"]
    /\ late' = [late EXCEPT ![j] = @ \cup {made[j] + 1}]
    /\ work' = [work EXCEPT ![j] = "idle"]
    /\ result' = [result EXCEPT ![j] = "none"]
    /\ UNCHANGED <<adding, row, bullIds, stalls, telling, told, cancel,
                   queueHistory>>

\* The update to PROCESSING is outside the try.
MarkFails(j) ==
    /\ work[j] = "mark"
    /\ Throws(j)

HandlerThrows(j) ==
    /\ work[j] = "run"
    /\ Throws(j)

\* The handler returns: every executor turns its own failures into a result.
HandlerReturns(j, r) ==
    /\ work[j] = "run"
    /\ work' = [work EXCEPT ![j] = "complete"]
    /\ result' = [result EXCEPT ![j] = r]
    /\ UNCHANGED <<adding, records, late, telling, told, cancel, queueHistory>>

MarkCompleted(j) ==
    /\ work[j] = "complete"
    /\ row' = [row EXCEPT ![j] = "COMPLETED"]
    /\ work' = [work EXCEPT ![j] = "notify"]
    /\ UNCHANGED <<adding, bullIds, bull, made, stalls, result, late, telling,
                   told, cancel, queueHistory>>

\* The update to COMPLETED is inside the try: the phase counts as failed and
\* is executed again.
MarkCompletedFails(j) ==
    /\ work[j] = "complete"
    /\ Throws(j)

\* What onPhaseComplete throws fails the attempt.
NotifyBug(j) ==
    /\ work[j] = "notify"
    /\ told' = [told EXCEPT ![j] = Append(@, result[j])]
    /\ made' = [made EXCEPT ![j] = @ + 1]
    /\ bull' = [bull EXCEPT ![j] = IF made[j] + 1 < Attempts THEN "waiting"
                                                            ELSE "failed"]
    /\ late' = [late EXCEPT ![j] = @ \cup {made[j] + 1}]
    /\ work' = [work EXCEPT ![j] = "idle"]
    /\ result' = [result EXCEPT ![j] = "none"]
    /\ UNCHANGED <<adding, row, bullIds, stalls, telling, cancel, queueHistory>>

\* onPhaseComplete with the result; whatever it throws is swallowed.
Notify(j) ==
    /\ work[j] = "notify"
    /\ told' = [told EXCEPT ![j] = Append(@, result[j])]
    /\ work' = [work EXCEPT ![j] = "return"]
    /\ UNCHANGED <<adding, records, result, late, telling, cancel, queueHistory>>

\* process() returns and Bull completes the job.
Return(j) ==
    /\ work[j] = "return"
    /\ work' = [work EXCEPT ![j] = "idle"]
    /\ bull' = [bull EXCEPT ![j] = "completed"]
    /\ UNCHANGED <<adding, row, bullIds, made, stalls, result, late, telling,
                   told, cancel, queueHistory>>

-----------------------------------------------------------------------------
(* onFailed, which nothing waits for: the next attempt may be under way *)

\* The last attempt is taken for one of several.
RecordFailureBug(j, a) ==
    /\ a \in late[j]
    /\ late' = [late EXCEPT ![j] = @ \ {a}]
    /\ row' = [row EXCEPT ![j] = IF a > Attempts THEN "FAILED" ELSE "RETRYING"]
    /\ telling' = IF a > Attempts THEN telling \cup {j} ELSE telling
    /\ Spoil(j)
    /\ UNCHANGED <<adding, bullIds, bull, made, stalls, work, result, told, cancel,
                   dropped>>

\* The row is updated and the pipeline is not told.
ForgottenCallBug(j, a) ==
    /\ a \in late[j]
    /\ late' = [late EXCEPT ![j] = @ \ {a}]
    /\ row' = [row EXCEPT ![j] = IF a >= Attempts THEN "FAILED" ELSE "RETRYING"]
    /\ Spoil(j)
    /\ UNCHANGED <<adding, bullIds, bull, made, stalls, work, result, telling, told,
                   cancel, dropped>>

\* Every failed attempt is told, not the last one only.
EveryFailureBug(j, a) ==
    /\ a \in late[j]
    /\ late' = [late EXCEPT ![j] = @ \ {a}]
    /\ row' = [row EXCEPT ![j] = IF a >= Attempts THEN "FAILED" ELSE "RETRYING"]
    /\ telling' = telling \cup {j}
    /\ Spoil(j)
    /\ UNCHANGED <<adding, bullIds, bull, made, stalls, work, result, told, cancel,
                   dropped>>

RecordFailure(j, a) ==
    /\ a \in late[j]
    /\ late' = [late EXCEPT ![j] = @ \ {a}]
    /\ row' = [row EXCEPT ![j] = IF a >= Attempts THEN "FAILED" ELSE "RETRYING"]
    /\ telling' = IF a >= Attempts THEN telling \cup {j} ELSE telling
    /\ Spoil(j)
    /\ UNCHANGED <<adding, bullIds, bull, made, stalls, work, result, told, cancel,
                   dropped>>

\* The update of the row fails: onFailed throws and the pipeline is not told.
RecordFails(j, a) ==
    /\ a \in late[j]
    /\ late' = [late EXCEPT ![j] = @ \ {a}]
    /\ dropped' = IF a >= Attempts THEN dropped \cup {j} ELSE dropped
    /\ UNCHANGED <<adding, records, work, result, telling, told, cancel, muddled>>

TellFailure(j) ==
    /\ j \in telling
    /\ telling' = telling \ {j}
    /\ told' = [told EXCEPT ![j] = Append(@, "failed")]
    /\ UNCHANGED <<adding, records, work, result, late, cancel, queueHistory>>

-----------------------------------------------------------------------------
(* cancelJob of the controller and of the service *)

\* The row is read: a final status is a conflict, a missing bullJobId means
\* that Bull is not asked.
Cancel(j) ==
    /\ cancel[j] = "idle"
    /\ row[j] \notin {"none", "COMPLETED", "FAILED"}
    /\ cancel' = [cancel EXCEPT ![j] = IF j \in bullIds THEN "remove" ELSE "mark"]
    /\ UNCHANGED <<adding, records, workerVars, queueHistory>>

\* Bull removes the job unless a worker has it; its refusal is swallowed.
RemoveBullJob(j) ==
    /\ cancel[j] = "remove"
    /\ cancel' = [cancel EXCEPT ![j] = "mark"]
    /\ bull' = [bull EXCEPT ![j] = IF @ = "active" THEN @ ELSE "removed"]
    /\ UNCHANGED <<adding, row, bullIds, made, stalls, workerVars, queueHistory>>

MarkCancelled(j) ==
    /\ cancel[j] = "mark"
    /\ cancel' = [cancel EXCEPT ![j] = "done"]
    /\ row' = [row EXCEPT ![j] = "FAILED"]
    /\ muddled' = IF bull[j] = "removed" THEN muddled ELSE muddled \cup {j}
    /\ UNCHANGED <<adding, bullIds, bull, made, stalls, workerVars, dropped>>

-----------------------------------------------------------------------------
(* Crash and redelivery *)

\* The instance dies with its workers, events and requests.
LoseWorkers ==
    /\ adding' = [j \in Jobs |-> IF adding[j] = "idle" THEN "idle" ELSE "done"]
    /\ work' = [j \in Jobs |-> "idle"]
    /\ result' = [j \in Jobs |-> "none"]
    /\ late' = [j \in Jobs |-> {}]
    /\ telling' = {}
    /\ cancel' = [j \in Jobs |-> IF cancel[j] = "idle" THEN "idle" ELSE "done"]
    /\ dropped' = dropped
            \cup {j \in Jobs : \/ adding[j] = "enqueue"
                               \/ \E a \in late[j] : a >= Attempts
                               \/ j \in telling}
    /\ UNCHANGED <<records, told, muddled>>

\* Bull finds an active job without a worker: it waits again the first time
\* and fails the second, with the failed event but without counting an
\* attempt, so that onFailed takes it for an attempt of several.
Redeliver(j) ==
    /\ bull[j] = "active"
    /\ work[j] = "idle"
    /\ stalls' = [stalls EXCEPT ![j] = @ + 1]
    /\ IF stalls[j] = 0
       THEN /\ bull' = [bull EXCEPT ![j] = "waiting"]
            /\ UNCHANGED <<late, dropped>>
       ELSE /\ bull' = [bull EXCEPT ![j] = "failed"]
            /\ late' = [late EXCEPT ![j] = @ \cup {made[j]}]
            /\ dropped' = dropped \cup {j}
    /\ UNCHANGED <<adding, row, bullIds, made, work, result, telling, told, cancel,
                   muddled>>

-----------------------------------------------------------------------------
(* Properties *)

\* The pipeline is told the end of a phase at most once, and once more only
\* for a job that was told and then given out again because the worker died.
OneVerdict == \A j \in Jobs : Len(told[j]) <= 1 + stalls[j]

\* The end of a job and its row agree: once nothing is on its way for the job,
\* a completed job's row says COMPLETED and the pipeline has a result, and the
\* row of a job that used up its attempts says FAILED and the pipeline was told
\* so last, unless the row was written out of turn (by a late bullJobId, a
\* late onFailed, a cancellation) or the end of the job was lost by a fault.
Quiet(j) ==
    /\ adding[j] = "done"
    /\ work[j] = "idle"
    /\ late[j] = {}
    /\ j \notin telling
    /\ cancel[j] \in {"idle", "done"}

RowTellsTheEnd ==
    \A j \in Jobs \ (muddled \cup dropped) : Quiet(j) =>
        /\ bull[j] = "completed" => row[j] = "COMPLETED" /\ told[j] # <<>>
        /\ bull[j] = "failed" => /\ row[j] = "FAILED"
                                 /\ told[j] # <<>>
                                 /\ told[j][Len(told[j])] = "failed"

\* A job that is in Bull's hands ends: the pipeline hears of it, or it was
\* removed by a cancellation, or it was lost by a fault that nothing repairs.
Settled(j) == told[j] # <<>> \/ bull[j] = "removed" \/ j \in dropped

JobsSettle == \A j \in Jobs : bull[j] = "waiting" ~> Settled(j)

-----------------------------------------------------------------------------
(* What the pipeline is promised *)

\* A verdict on j is on its way: j is being added, waits or is at work, or its
\* last attempt has failed and onFailed has not told so yet.
Owes(j) ==
    \/ adding[j] = "enqueue"
    \/ bull[j] = "waiting"
    \/ work[j] \in {"mark", "run", "complete", "notify"}
    \/ Attempts \in late[j]
    \/ j \in telling

Promise == INSTANCE PhaseJobs WITH
    added <- {j \in Jobs : adding[j] # "idle"},
    owed <- {j \in Jobs : Owes(j)},
    again <- {j \in Jobs : stalls[j] > 0}

\* The queue keeps the rules of PhaseJobs: each verdict the pipeline hears was
\* owed, a second one only after the job was given out again, and none comes
\* after the failure of all attempts.
ImplementsPhaseJobs == Promise!Spec
=============================================================================
