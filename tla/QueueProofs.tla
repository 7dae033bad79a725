---------------------------- MODULE QueueProofs ----------------------------
(***************************************************************************)
(* What the steps of AgentQueue preserve, for every set of jobs and every  *)
(* number of attempts.  ExecutorProofs builds the theorems of the composed *)
(* specification on these lemmas.                                          *)
(***************************************************************************)
EXTENDS AgentQueue, SequenceTheorems, TLAPS

\* The failure of the last attempt is on its way to the pipeline or there.
GaveUp(j) ==
    \/ Attempts \in late[j]
    \/ j \in telling
    \/ \E i \in DOMAIN told[j] : told[j][i] = "failed"

\* Where a job may stand.  Until Bull has given a job up no failure of its
\* last attempt is on its way, a result is the business of the worker that
\* has it or of a job that is over, and the pipeline is owed a verdict only
\* as long as it was told no more than once for every stall.
Owed(j) ==
    \/ bull[j] \in {"none", "waiting"}
    \/ work[j] \in {"mark", "run", "complete", "notify"}
    \/ Attempts \in late[j]
    \/ j \in telling

JobFine(j) ==
    /\ work[j] # "idle" => bull[j] = "active"
    /\ bull[j] \in {"none", "waiting", "active"} => made[j] < Attempts
    /\ GaveUp(j) => bull[j] \in {"failed", "removed"}
    /\ result[j] # "none" => \/ work[j] \in {"complete", "notify", "return"}
                             \/ bull[j] \in {"completed", "removed"}
    /\ work[j] \in {"complete", "notify"} => result[j] # "none"
    /\ adding[j] \in {"idle", "enqueue"} => bull[j] = "none"
    /\ j \in bullIds => adding[j] = "done"
    /\ cancel[j] = "remove" => j \in bullIds
    /\ Len(told[j]) <= 1 + stalls[j]
    /\ Owed(j) => Len(told[j]) <= stalls[j]
    /\ ~(Attempts \in late[j] /\ j \in telling)

\* The row and the pipeline on the way to the end of a job.
Answered(j) == told[j] # <<>> /\ told[j][Len(told[j])] = "failed"

RowFine(j) ==
    j \notin muddled \cup dropped =>
        /\ work[j] \in {"notify", "return"} => row[j] = "COMPLETED"
        /\ work[j] = "return" => told[j] # <<>>
        /\ bull[j] = "completed" => row[j] = "COMPLETED" /\ told[j] # <<>>
        /\ bull[j] = "failed" =>
              Attempts \in late[j] \/ (row[j] = "FAILED" /\ (j \in telling \/ Answered(j)))

QueueFine ==
    /\ QueueTypeOK
    /\ \A j \in Jobs : JobFine(j) /\ RowFine(j)

\* What a step that is not the executor's of job k leaves to it.
ToldOk(k) == \E i \in DOMAIN told[k] : told[k][i] = "ok"

LeftAlone(k) ==
    /\ work[k] = "run" => work'[k] = "run"
    /\ result'[k] \in {result[k], "none"}
    /\ ToldOk(k)' => ToldOk(k) \/ result[k] = "ok"

Proper == QueueFine' /\ \A k \in Jobs : LeftAlone(k)

-----------------------------------------------------------------------------
(* addJob *)

LEMMA QueueInitFine ==
    ASSUME QueueInit, Attempts \in Nat \ {0}
    PROVE  QueueFine
<1>1. QueueTypeOK
  BY DEF QueueInit, QueueTypeOK, Verdict
<1>2. ASSUME NEW j \in Jobs PROVE JobFine(j)
  <2>1. told[j] = <<>> /\ stalls[j] = 0 /\ Len(told[j]) = 0
    BY DEF QueueInit
  <2> QED BY <2>1 DEF QueueInit, JobFine, GaveUp, Owed
<1>3. \A j \in Jobs : RowFine(j)
  BY DEF QueueInit, RowFine
<1> QED BY <1>1, <1>2, <1>3 DEF QueueFine

LEMMA AddJobProper ==
    ASSUME QueueFine, Attempts \in Nat, NEW j \in Jobs, AddJob(j)
    PROVE  Proper
<1>1. QueueTypeOK'
  BY DEF QueueFine, QueueTypeOK, AddJob, workerVars, queueHistory
<1>2. \A k \in Jobs : JobFine(k)'
  BY DEF QueueFine, QueueTypeOK, JobFine, GaveUp, Owed, AddJob, workerVars, queueHistory
<1>3. \A k \in Jobs : RowFine(k)'
  BY DEF QueueFine, QueueTypeOK, JobFine, RowFine, Answered, AddJob, workerVars, queueHistory
<1>4. \A k \in Jobs : LeftAlone(k)
  BY DEF LeftAlone, ToldOk, AddJob, workerVars
<1> QED BY <1>1, <1>2, <1>3, <1>4 DEF Proper, QueueFine

LEMMA EnqueueProper ==
    ASSUME QueueFine, Attempts \in Nat, NEW j \in Jobs, Enqueue(j)
    PROVE  Proper
<1>1. QueueTypeOK'
  BY DEF QueueFine, QueueTypeOK, Enqueue, workerVars, queueHistory
<1>2. \A k \in Jobs : JobFine(k)'
  BY DEF QueueFine, QueueTypeOK, JobFine, GaveUp, Owed, Enqueue, workerVars, queueHistory
<1>3. \A k \in Jobs : RowFine(k)'
  BY DEF QueueFine, QueueTypeOK, JobFine, RowFine, Answered, Enqueue, workerVars, queueHistory
<1>4. \A k \in Jobs : LeftAlone(k)
  BY DEF LeftAlone, ToldOk, Enqueue, workerVars
<1> QED BY <1>1, <1>2, <1>3, <1>4 DEF Proper, QueueFine

LEMMA EnqueueFailsProper ==
    ASSUME QueueFine, Attempts \in Nat, NEW j \in Jobs, EnqueueFails(j)
    PROVE  Proper
<1>1. QueueTypeOK'
  BY DEF QueueFine, QueueTypeOK, EnqueueFails, records, workerVars
<1>2. \A k \in Jobs : JobFine(k)'
  BY DEF QueueFine, QueueTypeOK, JobFine, GaveUp, Owed, EnqueueFails, records, workerVars
<1>3. \A k \in Jobs : RowFine(k)'
  BY DEF QueueFine, RowFine, Answered, EnqueueFails, records, workerVars
<1>4. \A k \in Jobs : LeftAlone(k)
  BY DEF LeftAlone, ToldOk, EnqueueFails, workerVars
<1> QED BY <1>1, <1>2, <1>3, <1>4 DEF Proper, QueueFine

LEMMA SaveBullIdProper ==
    ASSUME QueueFine, Attempts \in Nat, NEW j \in Jobs, SaveBullId(j)
    PROVE  Proper
<1>1. QueueTypeOK'
  BY DEF QueueFine, QueueTypeOK, SaveBullId, Spoil, workerVars
<1>2. \A k \in Jobs : JobFine(k)'
  BY DEF QueueFine, QueueTypeOK, JobFine, GaveUp, Owed, SaveBullId, workerVars
<1>3. \A k \in Jobs : RowFine(k)'
  BY DEF QueueFine, QueueTypeOK, RowFine, Answered, SaveBullId, Spoil, workerVars
<1>4. \A k \in Jobs : LeftAlone(k)
  BY DEF LeftAlone, ToldOk, SaveBullId, workerVars
<1> QED BY <1>1, <1>2, <1>3, <1>4 DEF Proper, QueueFine

-----------------------------------------------------------------------------
(* process() *)

LEMMA TakeProper ==
    ASSUME QueueFine, Attempts \in Nat, NEW j \in Jobs, Take(j)
    PROVE  Proper
<1>1. QueueTypeOK'
  BY DEF QueueFine, QueueTypeOK, Take, queueHistory
<1>2. \A k \in Jobs : JobFine(k)'
  BY DEF QueueFine, QueueTypeOK, JobFine, GaveUp, Owed, Take, queueHistory
<1>3. \A k \in Jobs : RowFine(k)'
  BY DEF QueueFine, QueueTypeOK, RowFine, Answered, Take, queueHistory
<1>4. \A k \in Jobs : LeftAlone(k)
  BY DEF QueueFine, QueueTypeOK, LeftAlone, ToldOk, Take
<1> QED BY <1>1, <1>2, <1>3, <1>4 DEF Proper, QueueFine

LEMMA MarkProcessingProper ==
    ASSUME QueueFine, Attempts \in Nat, NEW j \in Jobs, MarkProcessing(j)
    PROVE  Proper
<1>1. QueueTypeOK'
  BY DEF QueueFine, QueueTypeOK, MarkProcessing, queueHistory
<1>2. \A k \in Jobs : JobFine(k)'
  BY DEF QueueFine, QueueTypeOK, JobFine, GaveUp, Owed, MarkProcessing, queueHistory
<1>3. ASSUME NEW k \in Jobs PROVE RowFine(k)'
  <2>1. CASE k = j
    <3>1. bull[j] = "active" /\ bull' = bull
      BY DEF QueueFine, JobFine, MarkProcessing
    <3> QED BY <2>1, <3>1 DEF QueueFine, QueueTypeOK, RowFine, MarkProcessing
  <2>2. CASE k # j
    BY <2>2 DEF QueueFine, QueueTypeOK, RowFine, Answered, MarkProcessing, queueHistory
  <2> QED BY <2>1, <2>2
<1>4. \A k \in Jobs : LeftAlone(k)
  BY DEF QueueFine, QueueTypeOK, LeftAlone, ToldOk, MarkProcessing
<1> QED BY <1>1, <1>2, <1>3, <1>4 DEF Proper, QueueFine

\* An attempt that throws is the last one exactly if the failed event says so.
LEMMA ThrowsFine ==
    ASSUME QueueFine, Attempts \in Nat, NEW j \in Jobs, Throws(j),
           work[j] \in {"mark", "run", "complete"}
    PROVE  /\ QueueFine'
           /\ work'[j] = "idle" /\ result'[j] = "none" /\ told' = told
           /\ \A k \in Jobs \ {j} : LeftAlone(k)
<1>1. bull[j] = "active" /\ made[j] < Attempts /\ j \notin telling
      /\ Attempts \notin late[j] /\ Len(told[j]) <= stalls[j]
  BY DEF QueueFine, JobFine, GaveUp, Owed
<1>2. made[j] \in Nat /\ made[j] + 1 \in 0 .. Attempts
  BY <1>1 DEF QueueFine, QueueTypeOK
<1>3. QueueTypeOK'
  BY <1>2 DEF QueueFine, QueueTypeOK, Throws, queueHistory
<1>4. \A k \in Jobs : JobFine(k)'
  BY <1>1, <1>2 DEF QueueFine, QueueTypeOK, JobFine, GaveUp, Owed, Throws, queueHistory
<1>5. \A k \in Jobs : RowFine(k)'
  BY <1>1, <1>2 DEF QueueFine, QueueTypeOK, RowFine, Answered, Throws, queueHistory
<1>6. \A k \in Jobs \ {j} : LeftAlone(k)
  BY DEF QueueFine, QueueTypeOK, LeftAlone, ToldOk, Throws
<1> QED BY <1>3, <1>4, <1>5, <1>6 DEF QueueFine, QueueTypeOK, Throws

LEMMA MarkFailsProper ==
    ASSUME QueueFine, Attempts \in Nat, NEW j \in Jobs,
           MarkFails(j) \/ MarkCompletedFails(j)
    PROVE  Proper
<1>1. Throws(j) /\ work[j] \in {"mark", "complete"}
  BY DEF MarkFails, MarkCompletedFails
<1>2. /\ QueueFine'
      /\ work'[j] = "idle" /\ result'[j] = "none" /\ told' = told
      /\ \A k \in Jobs \ {j} : LeftAlone(k)
  BY <1>1, ThrowsFine
<1>3. LeftAlone(j)
  BY <1>1, <1>2 DEF LeftAlone, ToldOk
<1> QED BY <1>2, <1>3 DEF Proper

LEMMA HandlerThrowsFine ==
    ASSUME QueueFine, Attempts \in Nat, NEW j \in Jobs, HandlerThrows(j)
    PROVE  /\ QueueFine'
           /\ work'[j] = "idle" /\ result'[j] = "none" /\ told' = told
           /\ \A k \in Jobs \ {j} : LeftAlone(k)
BY ThrowsFine DEF HandlerThrows

LEMMA HandlerReturnsFine ==
    ASSUME QueueFine, Attempts \in Nat, NEW j \in Jobs,
           NEW r \in {"ok", "notok"}, HandlerReturns(j, r)
    PROVE  /\ QueueFine'
           /\ work'[j] = "complete" /\ result'[j] = r /\ told' = told
           /\ \A k \in Jobs \ {j} : LeftAlone(k)
<1>1. QueueTypeOK'
  BY DEF QueueFine, QueueTypeOK, HandlerReturns, records, queueHistory
<1>2. \A k \in Jobs : JobFine(k)'
  BY DEF QueueFine, QueueTypeOK, JobFine, GaveUp, Owed, HandlerReturns, records, queueHistory
<1>3. \A k \in Jobs : RowFine(k)'
  BY DEF QueueFine, QueueTypeOK, JobFine, RowFine, Answered, HandlerReturns, records, queueHistory
<1>4. \A k \in Jobs \ {j} : LeftAlone(k)
  BY DEF QueueFine, QueueTypeOK, LeftAlone, ToldOk, HandlerReturns
<1> QED BY <1>1, <1>2, <1>3, <1>4 DEF QueueFine, QueueTypeOK, HandlerReturns

LEMMA MarkCompletedProper ==
    ASSUME QueueFine, Attempts \in Nat, NEW j \in Jobs, MarkCompleted(j)
    PROVE  Proper
<1>1. QueueTypeOK'
  BY DEF QueueFine, QueueTypeOK, MarkCompleted, queueHistory
<1>2. \A k \in Jobs : JobFine(k)'
  BY DEF QueueFine, QueueTypeOK, JobFine, GaveUp, Owed, MarkCompleted, queueHistory
<1>3. ASSUME NEW k \in Jobs PROVE RowFine(k)'
  <2>1. CASE k = j
    <3>1. bull[j] = "active" /\ bull' = bull
      BY DEF QueueFine, JobFine, MarkCompleted
    <3> QED BY <2>1, <3>1 DEF QueueFine, QueueTypeOK, RowFine, MarkCompleted
  <2>2. CASE k # j
    BY <2>2 DEF QueueFine, QueueTypeOK, RowFine, Answered, MarkCompleted, queueHistory
  <2> QED BY <2>1, <2>2
<1>4. \A k \in Jobs : LeftAlone(k)
  BY DEF QueueFine, QueueTypeOK, LeftAlone, ToldOk, MarkCompleted
<1> QED BY <1>1, <1>2, <1>3, <1>4 DEF Proper, QueueFine

\* A verdict more makes the list longer by one and ends it.
LEMMA OneMore ==
    ASSUME NEW s \in Seq(Verdict), NEW v \in Verdict
    PROVE  /\ Append(s, v) \in Seq(Verdict)
           /\ Append(s, v) # <<>>
           /\ Len(s) \in Nat
           /\ Len(Append(s, v)) = Len(s) + 1
           /\ Append(s, v)[Len(Append(s, v))] = v
           /\ \A i \in DOMAIN Append(s, v) : \/ i \in DOMAIN s /\ Append(s, v)[i] = s[i]
                                             \/ Append(s, v)[i] = v
<1>1. /\ Append(s, v) \in Seq(Verdict) /\ Append(s, v) # <<>>
      /\ Len(Append(s, v)) = Len(s) + 1
      /\ \A i \in 1 .. Len(s) : Append(s, v)[i] = s[i]
      /\ Append(s, v)[Len(s) + 1] = v
  BY AppendProperties
<1>2. Len(s) \in Nat /\ DOMAIN s = 1 .. Len(s)
      /\ DOMAIN Append(s, v) = 1 .. Len(Append(s, v))
  BY <1>1, LenProperties
<1>3. ASSUME NEW i \in DOMAIN Append(s, v)
      PROVE  i \in DOMAIN s \/ i = Len(s) + 1
  BY <1>1, <1>2
<1> QED BY <1>1, <1>2, <1>3

LEMMA NotifyProper ==
    ASSUME QueueFine, Attempts \in Nat, NEW j \in Jobs, Notify(j)
    PROVE  Proper
<1>1. /\ work[j] = "notify" /\ bull[j] = "active" /\ result[j] \in Verdict \ {"failed"}
      /\ \A i \in DOMAIN told[j] : told[j][i] # "failed"
      /\ told[j] \in Seq(Verdict) /\ Len(told[j]) <= stalls[j] /\ stalls[j] \in Nat
      /\ Attempts \notin late[j] /\ j \notin telling
  BY DEF QueueFine, QueueTypeOK, JobFine, GaveUp, Owed, Notify, Verdict
<1>2. /\ told'[j] \in Seq(Verdict) /\ told'[j] # <<>>
      /\ Len(told'[j]) <= 1 + stalls[j]
      /\ ToldOk(j)' => ToldOk(j) \/ result[j] = "ok"
      /\ \A i \in DOMAIN told'[j] : told'[j][i] # "failed"
  <2>1. told'[j] = Append(told[j], result[j])
    BY DEF QueueFine, QueueTypeOK, Notify
  <2>2. /\ told'[j] \in Seq(Verdict) /\ told'[j] # <<>>
        /\ Len(told[j]) \in Nat /\ Len(told'[j]) = Len(told[j]) + 1
        /\ \A i \in DOMAIN told'[j] : \/ i \in DOMAIN told[j] /\ told'[j][i] = told[j][i]
                                      \/ told'[j][i] = result[j]
    BY <1>1, <2>1, OneMore
  <2>3. Len(told'[j]) <= 1 + stalls[j]
    BY <1>1, <2>2
  <2>4. ToldOk(j)' => ToldOk(j) \/ result[j] = "ok"
    BY <2>2 DEF ToldOk
  <2>5. \A i \in DOMAIN told'[j] : told'[j][i] # "failed"
    BY <1>1, <2>2
  <2> QED BY <2>2, <2>3, <2>4, <2>5
<1>3. \A k \in Jobs : k # j => told'[k] = told[k]
  BY DEF QueueFine, QueueTypeOK, Notify
<1>4. told' \in [Jobs -> Seq(Verdict)]
  BY <1>2, <1>3 DEF QueueFine, QueueTypeOK, Notify
<1>5. QueueTypeOK'
  BY <1>4 DEF QueueFine, QueueTypeOK, Notify, records, queueHistory
<1>6. \A k \in Jobs : JobFine(k)'
  BY <1>1, <1>2, <1>3 DEF QueueFine, QueueTypeOK, JobFine, GaveUp, Owed, Notify, records, queueHistory
<1>7. \A k \in Jobs : RowFine(k)'
  BY <1>1, <1>2, <1>3 DEF QueueFine, QueueTypeOK, RowFine, Answered, Notify, records, queueHistory
<1>8. \A k \in Jobs : LeftAlone(k)
  BY <1>2, <1>3 DEF QueueFine, QueueTypeOK, LeftAlone, ToldOk, Notify
<1> QED BY <1>5, <1>6, <1>7, <1>8 DEF Proper, QueueFine

LEMMA ReturnProper ==
    ASSUME QueueFine, Attempts \in Nat, NEW j \in Jobs, Return(j)
    PROVE  Proper
<1>1. QueueTypeOK'
  BY DEF QueueFine, QueueTypeOK, Return, queueHistory
<1>2. \A k \in Jobs : JobFine(k)'
  BY DEF QueueFine, QueueTypeOK, JobFine, GaveUp, Owed, Return, queueHistory
<1>3. \A k \in Jobs : RowFine(k)'
  BY DEF QueueFine, QueueTypeOK, RowFine, Answered, Return, queueHistory
<1>4. \A k \in Jobs : LeftAlone(k)
  BY DEF QueueFine, QueueTypeOK, LeftAlone, ToldOk, Return
<1> QED BY <1>1, <1>2, <1>3, <1>4 DEF Proper, QueueFine

-----------------------------------------------------------------------------
(* onFailed *)

LEMMA RecordFailureProper ==
    ASSUME QueueFine, Attempts \in Nat, NEW j \in Jobs, NEW a \in late[j],
           RecordFailure(j, a)
    PROVE  Proper
<1>1. a \in 0 .. Attempts
  BY DEF QueueFine, QueueTypeOK
<1>2. a >= Attempts => a = Attempts
  BY <1>1
<1>3. QueueTypeOK'
  BY DEF QueueFine, QueueTypeOK, RecordFailure, Spoil
<1>4. \A k \in Jobs : JobFine(k)'
  BY <1>1, <1>2 DEF QueueFine, QueueTypeOK, JobFine, GaveUp, Owed, RecordFailure
<1>5. \A k \in Jobs : RowFine(k)'
  BY <1>1, <1>2 DEF QueueFine, QueueTypeOK, RowFine, Answered, RecordFailure, Spoil
<1>6. \A k \in Jobs : LeftAlone(k)
  BY DEF LeftAlone, ToldOk, RecordFailure
<1> QED BY <1>3, <1>4, <1>5, <1>6 DEF Proper, QueueFine

LEMMA RecordFailsProper ==
    ASSUME QueueFine, Attempts \in Nat, NEW j \in Jobs, NEW a \in late[j],
           RecordFails(j, a)
    PROVE  Proper
<1>1. a \in 0 .. Attempts
  BY DEF QueueFine, QueueTypeOK
<1>2. a >= Attempts => a = Attempts
  BY <1>1
<1>3. QueueTypeOK'
  BY DEF QueueFine, QueueTypeOK, RecordFails, records
<1>4. \A k \in Jobs : JobFine(k)'
  BY DEF QueueFine, QueueTypeOK, JobFine, GaveUp, Owed, RecordFails, records
<1>5. \A k \in Jobs : RowFine(k)'
  BY <1>1, <1>2 DEF QueueFine, QueueTypeOK, RowFine, Answered, RecordFails, records
<1>6. \A k \in Jobs : LeftAlone(k)
  BY DEF LeftAlone, ToldOk, RecordFails
<1> QED BY <1>3, <1>4, <1>5, <1>6 DEF Proper, QueueFine

LEMMA TellFailureProper ==
    ASSUME QueueFine, Attempts \in Nat, NEW j \in Jobs, TellFailure(j)
    PROVE  Proper
<1>1. /\ j \in telling /\ told[j] \in Seq(Verdict) /\ stalls[j] \in Nat
      /\ Len(told[j]) <= stalls[j] /\ Attempts \notin late[j]
      /\ bull[j] \in {"failed", "removed"} /\ work[j] = "idle"
  BY DEF QueueFine, QueueTypeOK, JobFine, GaveUp, Owed, TellFailure
<1>2. /\ told'[j] \in Seq(Verdict) /\ Answered(j)'
      /\ Len(told'[j]) <= 1 + stalls[j]
      /\ ToldOk(j)' => ToldOk(j)
  <2>1. told'[j] = Append(told[j], "failed") /\ "failed" \in Verdict
    BY DEF QueueFine, QueueTypeOK, TellFailure, Verdict
  <2> QED BY <1>1, <2>1, OneMore DEF ToldOk, Answered
<1>3. \A k \in Jobs : k # j => told'[k] = told[k]
  BY DEF QueueFine, QueueTypeOK, TellFailure
<1>4. told' \in [Jobs -> Seq(Verdict)]
  BY <1>2, <1>3 DEF QueueFine, QueueTypeOK, TellFailure
<1>5. QueueTypeOK'
  BY <1>4 DEF QueueFine, QueueTypeOK, TellFailure, records, queueHistory
<1>6. \A k \in Jobs : JobFine(k)'
  BY <1>1, <1>2, <1>3 DEF QueueFine, QueueTypeOK, JobFine, GaveUp, Owed, TellFailure, records, queueHistory
<1>7. \A k \in Jobs : RowFine(k)'
  BY <1>1, <1>2, <1>3 DEF QueueFine, QueueTypeOK, RowFine, Answered, TellFailure, records, queueHistory
<1>8. \A k \in Jobs : LeftAlone(k)
  BY <1>2, <1>3 DEF QueueFine, QueueTypeOK, LeftAlone, ToldOk, TellFailure
<1> QED BY <1>5, <1>6, <1>7, <1>8 DEF Proper, QueueFine

-----------------------------------------------------------------------------
(* cancelJob, crashes *)

LEMMA CancelProper ==
    ASSUME QueueFine, Attempts \in Nat, NEW j \in Jobs, Cancel(j)
    PROVE  Proper
<1>1. QueueTypeOK'
  BY DEF QueueFine, QueueTypeOK, Cancel, records, workerVars, queueHistory
<1>2. \A k \in Jobs : JobFine(k)'
  BY DEF QueueFine, QueueTypeOK, JobFine, GaveUp, Owed, Cancel, records, workerVars, queueHistory
<1>3. \A k \in Jobs : RowFine(k)'
  BY DEF QueueFine, RowFine, Answered, Cancel, records, workerVars, queueHistory
<1>4. \A k \in Jobs : LeftAlone(k)
  BY DEF LeftAlone, ToldOk, Cancel, workerVars
<1> QED BY <1>1, <1>2, <1>3, <1>4 DEF Proper, QueueFine

LEMMA RemoveBullJobProper ==
    ASSUME QueueFine, Attempts \in Nat, NEW j \in Jobs, RemoveBullJob(j)
    PROVE  Proper
<1>1. QueueTypeOK'
  BY DEF QueueFine, QueueTypeOK, RemoveBullJob, workerVars, queueHistory
<1>2. \A k \in Jobs : JobFine(k)'
  BY DEF QueueFine, QueueTypeOK, JobFine, GaveUp, Owed, RemoveBullJob, workerVars, queueHistory
<1>3. \A k \in Jobs : RowFine(k)'
  BY DEF QueueFine, QueueTypeOK, RowFine, Answered, RemoveBullJob, workerVars, queueHistory
<1>4. \A k \in Jobs : LeftAlone(k)
  BY DEF LeftAlone, ToldOk, RemoveBullJob, workerVars
<1> QED BY <1>1, <1>2, <1>3, <1>4 DEF Proper, QueueFine

LEMMA MarkCancelledProper ==
    ASSUME QueueFine, Attempts \in Nat, NEW j \in Jobs, MarkCancelled(j)
    PROVE  Proper
<1>1. QueueTypeOK'
  BY DEF QueueFine, QueueTypeOK, MarkCancelled, workerVars
<1>2. \A k \in Jobs : JobFine(k)'
  BY DEF QueueFine, QueueTypeOK, JobFine, GaveUp, Owed, MarkCancelled, workerVars
<1>3. \A k \in Jobs : RowFine(k)'
  <2>1. work[j] # "idle" => bull[j] = "active"
    BY DEF QueueFine, JobFine
  <2> QED BY <2>1 DEF QueueFine, QueueTypeOK, RowFine, Answered, MarkCancelled, workerVars
<1>4. \A k \in Jobs : LeftAlone(k)
  BY DEF LeftAlone, ToldOk, MarkCancelled, workerVars
<1> QED BY <1>1, <1>2, <1>3, <1>4 DEF Proper, QueueFine

LEMMA RedeliverProper ==
    ASSUME QueueFine, Attempts \in Nat, NEW j \in Jobs, Redeliver(j)
    PROVE  Proper
<1>1. /\ bull[j] = "active" /\ work[j] = "idle" /\ made[j] < Attempts
      /\ made[j] \in 0 .. Attempts /\ stalls[j] \in Nat /\ Len(told[j]) <= 1 + stalls[j]
      /\ Len(told[j]) \in Nat
  BY LenProperties DEF QueueFine, QueueTypeOK, JobFine, Redeliver
<1>2. QueueTypeOK'
  <2>1. stalls' \in [Jobs -> Nat]
    BY <1>1 DEF QueueFine, QueueTypeOK, Redeliver
  <2>2. PICK b \in {"waiting", "failed"} : bull' = [bull EXCEPT ![j] = b]
    BY DEF Redeliver
  <2>3. bull' \in [Jobs -> {"none", "waiting", "active", "completed", "failed", "removed"}]
    BY <2>2 DEF QueueFine, QueueTypeOK
  <2>4. late[j] \cup {made[j]} \in SUBSET (0 .. Attempts)
    BY <1>1 DEF QueueFine, QueueTypeOK
  <2>5. late' \in [Jobs -> SUBSET (0 .. Attempts)]
    <3>1. CASE stalls[j] = 0
      BY <3>1 DEF QueueFine, QueueTypeOK, Redeliver
    <3>2. CASE stalls[j] # 0
      <4>1. late' = [late EXCEPT ![j] = late[j] \cup {made[j]}]
        BY <3>2 DEF Redeliver
      <4> QED BY <2>4, <4>1 DEF QueueFine, QueueTypeOK
    <3> QED BY <3>1, <3>2
  <2>6. dropped' \subseteq Jobs
    BY DEF QueueFine, QueueTypeOK, Redeliver
  <2> QED BY <2>1, <2>3, <2>5, <2>6 DEF QueueFine, QueueTypeOK, Redeliver
<1>3. \A k \in Jobs : JobFine(k)'
  BY <1>1 DEF QueueFine, QueueTypeOK, JobFine, GaveUp, Owed, Redeliver
<1>4. \A k \in Jobs : RowFine(k)'
  BY <1>1 DEF QueueFine, QueueTypeOK, RowFine, Answered, Redeliver
<1>5. \A k \in Jobs : LeftAlone(k)
  BY DEF LeftAlone, ToldOk, Redeliver
<1> QED BY <1>2, <1>3, <1>4, <1>5 DEF Proper, QueueFine

\* What dies with the instance is a verdict that is dropped.
LEMMA LoseWorkersFine ==
    ASSUME QueueFine, Attempts \in Nat, LoseWorkers
    PROVE  QueueFine' /\ told' = told /\ result' = [j \in Jobs |-> "none"]
<1>1. QueueTypeOK'
  BY DEF QueueFine, QueueTypeOK, LoseWorkers, records
<1>2. \A k \in Jobs : JobFine(k)'
  BY DEF QueueFine, QueueTypeOK, JobFine, GaveUp, Owed, LoseWorkers, records
<1>3. \A k \in Jobs : RowFine(k)'
  BY DEF QueueFine, QueueTypeOK, RowFine, Answered, LoseWorkers, records
<1> QED BY <1>1, <1>2, <1>3 DEF QueueFine, LoseWorkers

LEMMA QueueRests ==
    ASSUME QueueFine, UNCHANGED queueVars
    PROVE  Proper
<1>1. QueueTypeOK'
  BY DEF QueueFine, QueueTypeOK, queueVars, records, workerVars, queueHistory
<1>2. \A k \in Jobs : JobFine(k)'
  BY DEF QueueFine, JobFine, GaveUp, Owed, queueVars, records, workerVars, queueHistory
<1>3. \A k \in Jobs : RowFine(k)'
  BY DEF QueueFine, RowFine, Answered, queueVars, records, workerVars, queueHistory
<1>4. \A k \in Jobs : LeftAlone(k)
  BY DEF LeftAlone, ToldOk, queueVars, workerVars
<1> QED BY <1>1, <1>2, <1>3, <1>4 DEF Proper, QueueFine

-----------------------------------------------------------------------------
(* What follows from it *)

LEMMA VerdictsCounted ==
    ASSUME QueueFine
    PROVE  OneVerdict
BY DEF QueueFine, JobFine, OneVerdict

LEMMA RowsAgree ==
    ASSUME QueueFine
    PROVE  RowTellsTheEnd
<1> SUFFICES ASSUME NEW j \in Jobs \ (muddled \cup dropped), Quiet(j)
             PROVE  /\ bull[j] = "completed" => row[j] = "COMPLETED" /\ told[j] # <<>>
                    /\ bull[j] = "failed" => row[j] = "FAILED" /\ Answered(j)
  BY DEF RowTellsTheEnd, Answered
<1> QED BY DEF QueueFine, RowFine, Quiet

-----------------------------------------------------------------------------
(* What the pipeline is promised *)

\* What tells nothing, and owes no more than before, is a loss or nothing.
NoNews ==
    /\ told' = told
    /\ \A k \in Jobs :
          /\ Owes(k)' => Owes(k)
          /\ (adding'[k] = "idle") <=> (adding[k] = "idle")
          /\ (stalls'[k] > 0) <=> (stalls[k] > 0)

LEMMA NoNewsKept ==
    ASSUME NoNews
    PROVE  Promise!Next
BY DEF NoNews, Promise!Next, Promise!Lose

LEMMA PromiseInit ==
    ASSUME QueueInit, Attempts \in Nat
    PROVE  Promise!Init
BY DEF QueueInit, Owes, Promise!Init

LEMMA AddJobKept ==
    ASSUME QueueFine, NEW j \in Jobs, AddJob(j)
    PROVE  Promise!Next
<1>1. Promise!Add(j)
  BY DEF QueueFine, QueueTypeOK, AddJob, records, workerVars, Owes, Promise!Add
<1> QED BY <1>1 DEF Promise!Next

LEMMA EnqueueKept ==
    ASSUME QueueFine, NEW j \in Jobs, Enqueue(j) \/ EnqueueFails(j) \/ SaveBullId(j)
    PROVE  Promise!Next
<1>1. NoNews
  BY DEF QueueFine, QueueTypeOK, Enqueue, EnqueueFails, SaveBullId, records, workerVars,
         Owes, NoNews
<1> QED BY <1>1, NoNewsKept

LEMMA ProcessKept ==
    ASSUME QueueFine, NEW j \in Jobs,
           Take(j) \/ MarkProcessing(j) \/ MarkCompleted(j) \/ Return(j)
    PROVE  Promise!Next
<1>1. NoNews
  BY DEF QueueFine, QueueTypeOK, Take, MarkProcessing, MarkCompleted, Return, Owes, NoNews
<1> QED BY <1>1, NoNewsKept

LEMMA ThrowsKept ==
    ASSUME QueueFine, Attempts \in Nat, NEW j \in Jobs, Throws(j),
           work[j] \in {"mark", "run", "complete"}
    PROVE  Promise!Next
<1>1. NoNews
  BY DEF QueueFine, QueueTypeOK, Throws, Owes, NoNews
<1> QED BY <1>1, NoNewsKept

LEMMA HandlerReturnsKept ==
    ASSUME QueueFine, NEW j \in Jobs, NEW r \in {"ok", "notok"}, HandlerReturns(j, r)
    PROVE  Promise!Next
<1>1. NoNews
  BY DEF QueueFine, QueueTypeOK, HandlerReturns, records, Owes, NoNews
<1> QED BY <1>1, NoNewsKept

LEMMA NotifyKept ==
    ASSUME QueueFine, NEW j \in Jobs, Notify(j)
    PROVE  Promise!Next
<1>1. /\ work[j] = "notify" /\ bull[j] = "active" /\ result[j] \in Verdict
      /\ ~GaveUp(j) /\ adding[j] \notin {"idle", "enqueue"}
  BY DEF QueueFine, QueueTypeOK, JobFine, Notify, Verdict
<1>2. Promise!Tell(j, result[j])
  BY <1>1 DEF QueueFine, QueueTypeOK, Notify, records, Owes, GaveUp, Promise!Tell
<1> QED BY <1>1, <1>2 DEF Promise!Next

LEMMA TellFailureKept ==
    ASSUME QueueFine, NEW j \in Jobs, TellFailure(j)
    PROVE  Promise!Next
<1>1. /\ j \in telling /\ bull[j] \in {"failed", "removed"} /\ work[j] = "idle"
      /\ Attempts \notin late[j] /\ adding[j] \notin {"idle", "enqueue"}
  BY DEF QueueFine, QueueTypeOK, JobFine, GaveUp, TellFailure
<1>2. Promise!Tell(j, "failed")
  BY <1>1 DEF QueueFine, QueueTypeOK, TellFailure, records, Owes, Promise!Tell
<1> QED BY <1>2 DEF Promise!Next, Verdict

LEMMA OnFailedKept ==
    ASSUME QueueFine, Attempts \in Nat, NEW j \in Jobs, NEW a \in late[j],
           RecordFailure(j, a) \/ RecordFails(j, a)
    PROVE  Promise!Next
<1>1. a \in 0 .. Attempts /\ (a >= Attempts => a = Attempts)
  BY DEF QueueFine, QueueTypeOK
<1>2. NoNews
  <2>1. CASE RecordFailure(j, a)
    BY <1>1, <2>1 DEF QueueFine, QueueTypeOK, RecordFailure, Owes, NoNews
  <2>2. CASE RecordFails(j, a)
    BY <2>2 DEF QueueFine, QueueTypeOK, RecordFails, records, Owes, NoNews
  <2> QED BY <2>1, <2>2
<1> QED BY <1>2, NoNewsKept

LEMMA CancelKept ==
    ASSUME QueueFine, NEW j \in Jobs, Cancel(j) \/ RemoveBullJob(j) \/ MarkCancelled(j)
    PROVE  Promise!Next
<1>1. NoNews
  BY DEF QueueFine, QueueTypeOK, Cancel, RemoveBullJob, MarkCancelled, records, workerVars,
         Owes, NoNews
<1> QED BY <1>1, NoNewsKept

LEMMA RedeliverKept ==
    ASSUME QueueFine, Attempts \in Nat, NEW j \in Jobs, Redeliver(j)
    PROVE  Promise!Next
<1>1. /\ bull[j] = "active" /\ work[j] = "idle" /\ made[j] < Attempts
      /\ ~GaveUp(j) /\ adding[j] # "idle" /\ stalls[j] \in Nat
  BY DEF QueueFine, QueueTypeOK, JobFine, Redeliver
<1>2. CASE stalls[j] = 0
  <2>1. Promise!GiveAgain(j)
    BY <1>1, <1>2 DEF QueueFine, QueueTypeOK, Redeliver, Owes, GaveUp, Promise!GiveAgain
  <2> QED BY <2>1 DEF Promise!Next
<1>3. CASE stalls[j] # 0
  <2>1. NoNews
    BY <1>1, <1>3 DEF QueueFine, QueueTypeOK, Redeliver, Owes, NoNews
  <2> QED BY <2>1, NoNewsKept
<1> QED BY <1>2, <1>3

LEMMA LoseWorkersKept ==
    ASSUME QueueFine, LoseWorkers
    PROVE  Promise!Next
<1>1. NoNews
  BY DEF QueueFine, QueueTypeOK, LoseWorkers, records, Owes, NoNews
<1> QED BY <1>1, NoNewsKept

LEMMA PromiseRests ==
    ASSUME UNCHANGED queueVars
    PROVE  Promise!Next
<1>1. NoNews
  BY DEF queueVars, records, workerVars, Owes, NoNews
<1> QED BY <1>1, NoNewsKept
=============================================================================
