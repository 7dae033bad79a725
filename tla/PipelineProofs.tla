--------------------------- MODULE PipelineProofs ---------------------------
(***************************************************************************)
(* Theorems about PipelineStateMachine, for every set of processes, every  *)
(* retry limit and every combination of faults.                            *)
(***************************************************************************)
EXTENDS PipelineRefinement, TLAPS

-----------------------------------------------------------------------------
(* The tables *)

\* The transitions lead from states to states, the phases to states.
LEMMA TablesTyped ==
    /\ \A s \in PipelineState : VALID_TRANSITIONS[s] \subseteq PipelineState
    /\ \A ph \in Phase : PHASE_PROGRESSION[ph] \in PipelineState
    /\ Phase \subseteq PipelineState
  BY DEF VALID_TRANSITIONS, PHASE_PROGRESSION, PipelineState, Phase

\* The null records are records of their types.
LEMMA NullsTyped == NoContext \in Context /\ NoRow \in Row /\ NoRequest \in Request
  BY ConstantsAssumption
     DEF NoContext, NoRow, NoRequest, Context, Row, Request, None,
         StateOrNone, WorkflowOrNone

-----------------------------------------------------------------------------
(* Types *)

\* What p writes is a context, and the row it saves a row.
LEMMA UpdateTyped ==
    ASSUME TypeOK, NEW p \in Procs, Validated(p)
    PROVE  Updated(p) \in Context /\ RowOf(p) \in Row
  <1>1. view[p] \in Context /\ req[p] \in Request
    BY DEF TypeOK
  <1>2. CASE req[p].op = "fail"
    <2>1. view[p].retry + 1 \in 0 .. MaxRetries
      BY <1>1, <1>2, ConstantsAssumption DEF Validated, Context
    <2>2. QED
      BY <1>1, <1>2, <2>1 DEF Updated, RowOf, Context, Row
  <1>3. CASE req[p].op # "fail"
    BY <1>1, <1>3 DEF Updated, RowOf, Context, Row, Request
  <1>4. QED
    BY <1>2, <1>3

\* Changing a count of the table, if it is there, leaves a table of counts.
LEMMA QueueTyped ==
    ASSUME queue \in [Workflow -> [Phase -> Nat]], NEW w, NEW ph,
           AddJob(w, ph) \/ TakeJob(w, ph)
    PROVE  queue' \in [Workflow -> [Phase -> Nat]]
  <1>1. ASSUME NEW n, queue' = [queue EXCEPT ![w][ph] = n],
               w \in Workflow /\ ph \in Phase => n \in Nat
        PROVE  queue' \in [Workflow -> [Phase -> Nat]]
    <2>1. CASE w \in Workflow
      <3>1. [queue[w] EXCEPT ![ph] = n] \in [Phase -> Nat]
        BY <1>1, <2>1
      <3>2. QED
        BY <1>1, <2>1, <3>1
    <2>2. CASE w \notin Workflow
      BY <1>1, <2>2
    <2>3. QED
      BY <2>1, <2>2
  <1>2. w \in Workflow /\ ph \in Phase => queue[w][ph] \in Nat
    OBVIOUS
  <1>3. CASE AddJob(w, ph)
    <2>1. w \in Workflow /\ ph \in Phase => queue[w][ph] + 1 \in Nat
      BY <1>2
    <2>2. QED
      BY <1>1, <1>3, <2>1 DEF AddJob
  <1>4. CASE TakeJob(w, ph)
    <2>1. w \in Workflow /\ ph \in Phase => queue[w][ph] - 1 \in Nat
      BY <1>2, <1>4 DEF TakeJob
    <2>2. QED
      BY <1>1, <1>4, <2>1 DEF TakeJob
  <1>5. QED
    BY <1>3, <1>4

\* Spending stays within the bounds.
LEMMA SpendTyped ==
    ASSUME spent \in [Kind -> Nat], spent["start"] <= MaxStarts,
           NEW k \in Kind, Spend(k)
    PROVE  /\ spent' \in [Kind -> Nat]
           /\ spent'["start"] <= MaxStarts
           /\ spent'["start"] >= spent["start"]
           /\ k = "start" => spent'["start"] = spent["start"] + 1
           /\ k # "start" => spent'["start"] = spent["start"]
  BY ConstantsAssumption DEF Spend, Kind, Bound

\* The words of the code are of their types.
LEMMA WordsTyped ==
    /\ {"start", "pause", "resume", "complete", "fallback", "fail",
        "exhausted", "stale"} \subseteq Op
    /\ {"idle", "planning", "implementing", "qa", "deploying", "complete",
        "failed", "paused", None} \subseteq StateOrNone
    /\ 0 \in WorkflowOrNone
  BY ConstantsAssumption DEF Op, StateOrNone, PipelineState, WorkflowOrNone

\* How a call ends leaves the processes typed.
LEMMA LeaveTyped ==
    ASSUME TypeOK, NEW p \in Procs, Leave(p)
    PROVE  /\ pc' \in [Procs -> PC]
           /\ req' \in [Procs -> Request]
           /\ view' \in [Procs -> Context]
  BY NullsTyped DEF TypeOK, Leave, PC

LEMMA ThrowTyped ==
    ASSUME TypeOK, CallbackHasPhase, NEW p \in Procs, Throw(p)
    PROVE  /\ pc' \in [Procs -> PC]
           /\ req' \in [Procs -> Request]
           /\ view' \in [Procs -> Context]
  <1>1. CASE req[p].op # "complete"
    BY <1>1, LeaveTyped DEF Throw
  <1>2. CASE req[p].op = "complete"
    <2>1. PHASE_PROGRESSION[req[p].phase] \in StateOrNone
      BY <1>2, TablesTyped DEF CallbackHasPhase, StateOrNone
    <2>2. [req[p] EXCEPT !.op = "fallback",
                         !.target = PHASE_PROGRESSION[req[p].phase],
                         !.pausedFrom = None] \in Request
      BY <2>1 DEF TypeOK, Request, Op, StateOrNone
    <2>3. /\ pc' = [pc EXCEPT ![p] = "wait"]
          /\ req' = [req EXCEPT ![p] =
                        [req[p] EXCEPT !.op = "fallback",
                                       !.target = PHASE_PROGRESSION[req[p].phase],
                                       !.pausedFrom = None]]
          /\ view' = [view EXCEPT ![p] = NoContext]
      BY <1>2 DEF Throw, GoTo, TypeOK
    <2>4. pc' \in [Procs -> PC]
      BY <2>3 DEF TypeOK, PC
    <2>5. req' \in [Procs -> Request]
      BY <2>2, <2>3 DEF TypeOK
    <2>6. view' \in [Procs -> Context]
      BY <2>3, NullsTyped DEF TypeOK
    <2>7. QED
      BY <2>4, <2>5, <2>6
  <1>3. QED
    BY <1>1, <1>2

\* Every step keeps the types.
LEMMA TypesKept ==
    ASSUME TypeOK, CallbackHasPhase, WritesAreValidated, [Next]_vars
    PROVE  TypeOK'
  <1> USE DEF TypeOK
  <1>1. ASSUME NEW p \in Procs, StartPipeline(p) PROVE TypeOK'
    <2>1. /\ spent' \in [Kind -> Nat]
          /\ spent'["start"] <= MaxStarts
          /\ spent'["start"] = spent["start"] + 1
      BY <1>1, SpendTyped DEF StartPipeline, Kind
    <2>2. spent["start"] + 1 \in WorkflowOrNone
      BY <2>1, ConstantsAssumption DEF WorkflowOrNone, Kind
    <2>3. req'[p] = [op |-> "start", target |-> "planning", pausedFrom |-> None,
                     wf |-> spent["start"] + 1, phase |-> None]
      BY <1>1 DEF StartPipeline, NoRequest
    <2>4. req'[p] \in Request
      BY <2>2, <2>3, WordsTyped DEF Request
    <2>5. QED
      BY <1>1, <2>1, <2>4 DEF StartPipeline, GoTo, PC
  <1>2. ASSUME NEW p \in Procs, PausePipeline(p) PROVE TypeOK'
    <2>1. spent' \in [Kind -> Nat] /\ spent'["start"] <= MaxStarts
      BY <1>2, SpendTyped DEF PausePipeline, Kind
    <2>2. req'[p] \in Request
      BY <1>2, NullsTyped
         DEF PausePipeline, Request, NoRequest, Op, StateOrNone, PipelineState,
             Context
    <2>3. QED
      BY <1>2, <2>1, <2>2 DEF PausePipeline, GoTo, PC
  <1>3. ASSUME NEW p \in Procs, ResumePipeline(p) PROVE TypeOK'
    <2>1. spent' \in [Kind -> Nat] /\ spent'["start"] <= MaxStarts
      BY <1>3, SpendTyped DEF ResumePipeline, Kind
    <2>2. ResumeState \in StateOrNone
      BY DEF ResumeState, Context, StateOrNone, PipelineState
    <2>3. PICK target \in StateOrNone :
            req'[p] = [NoRequest EXCEPT !.op = "resume", !.target = target]
      BY <1>3, <2>2 DEF ResumePipeline
    <2>4. req'[p] \in Request
      BY <2>3, NullsTyped, WordsTyped DEF Request
    <2>5. QED
      BY <1>3, <2>1, <2>4 DEF ResumePipeline, GoTo, PC
  <1>4. ASSUME NEW p \in Procs, RecoverScan(p) PROVE TypeOK'
    <2>1. spent' \in [Kind -> Nat] /\ spent'["start"] <= MaxStarts
      BY <1>4, SpendTyped DEF RecoverScan, Kind
    <2>2. [NoRequest EXCEPT !.op = "stale", !.target = "failed"] \in Request
      BY NullsTyped, WordsTyped DEF Request
    <2>3. QED
      BY <1>4, <2>1, <2>2 DEF RecoverScan, GoTo, PC
  <1>5. ASSUME NEW p \in Procs, CreateContext(p) PROVE TypeOK'
    <2>1. ctx' \in Context
      BY <1>5, NullsTyped
         DEF CreateContext, Context, StateOrNone, PipelineState, Request
    <2>2. QED
      BY <1>5, <2>1 DEF CreateContext, GoTo, PC
  <1>6. ASSUME NEW p \in Procs, AcquireLock(p) PROVE TypeOK'
    BY <1>6 DEF AcquireLock, GoTo, PC
  <1>7. ASSUME NEW p \in Procs, LockTimeout(p) PROVE TypeOK'
    <2>1. spent' \in [Kind -> Nat] /\ spent'["start"] <= MaxStarts
      BY <1>7, SpendTyped DEF LockTimeout, Fails, Kind
    <2>2. QED
      BY <1>7, <2>1, ThrowTyped DEF LockTimeout
  <1>8. ASSUME NEW p \in Procs, LoadState(p) PROVE TypeOK'
    BY <1>8 DEF LoadState, GoTo, PC
  <1>9. ASSUME NEW p \in Procs, LoadFailed(p) PROVE TypeOK'
    <2>1. [req[p] EXCEPT !.op = "exhausted", !.target = "failed"] \in Request
      BY DEF Request, Op, StateOrNone, PipelineState
    <2>2. QED
      BY <1>9, <2>1 DEF LoadFailed, GoTo, PC
  <1>10. ASSUME NEW p \in Procs, HandoverLock(p) PROVE TypeOK'
    BY <1>10 DEF HandoverLock, DeleteLock, GoTo, PC
  <1>11. ASSUME NEW p \in Procs, WriteState(p) PROVE TypeOK'
    <2>1. Updated(p) \in Context
      BY <1>11, UpdateTyped DEF WriteState, WritesAreValidated
    <2>2. QED
      BY <1>11, <2>1 DEF WriteState, GoTo, PC
  <1>12. ASSUME NEW p \in Procs, SaveHistory(p) PROVE TypeOK'
    <2>1. RowOf(p) \in Row
      BY <1>12, UpdateTyped DEF SaveHistory, WritesAreValidated
    <2>2. QED
      BY <1>12, <2>1 DEF SaveHistory, GoTo, PC
  <1>13. ASSUME NEW p \in Procs, SaveHistoryFails(p) PROVE TypeOK'
    <2>1. spent' \in [Kind -> Nat] /\ spent'["start"] <= MaxStarts
      BY <1>13, SpendTyped DEF SaveHistoryFails, Fails, Kind
    <2>2. QED
      BY <1>13, <2>1 DEF SaveHistoryFails, GoTo, PC
  <1>14. ASSUME NEW p \in Procs, EnterState(p) PROVE TypeOK'
    <2>1. queue' \in [Workflow -> [Phase -> Nat]]
      BY <1>14, QueueTyped DEF EnterState
    <2>2. QED
      BY <1>14, <2>1 DEF EnterState, GoTo, PC
  <1>15. ASSUME NEW p \in Procs, EnterStateFails(p) PROVE TypeOK'
    <2>1. spent' \in [Kind -> Nat] /\ spent'["start"] <= MaxStarts
      BY <1>15, SpendTyped DEF EnterStateFails, Fails, Kind
    <2>2. QED
      BY <1>15, <2>1 DEF EnterStateFails, GoTo, PC
  <1>16. ASSUME NEW p \in Procs, ReleaseLock(p) PROVE TypeOK'
    BY <1>16, LeaveTyped DEF ReleaseLock, DeleteLock
  <1>17. ASSUME NEW p \in Procs, AbortTransition(p) PROVE TypeOK'
    BY <1>17, ThrowTyped DEF AbortTransition, DeleteLock
  <1>18. ASSUME NEW p \in Procs, ReleaseAgain(p) PROVE TypeOK'
    BY <1>18 DEF ReleaseAgain, DeleteLock, GoTo, PC
  <1>19. ASSUME NEW p \in Procs, CompareHistory(p) PROVE TypeOK'
    <2>1. [view[p] EXCEPT !.state = audit.new] \in Context
      BY DEF Context, Row
    <2>2. QED
      BY <1>19, <2>1, NullsTyped DEF CompareHistory, GoTo, PC
  <1>20. ASSUME NEW p \in Procs, RepairState(p) PROVE TypeOK'
    BY <1>20, NullsTyped DEF RepairState, GoTo, PC
  <1>21. ASSUME NEW p \in Procs, ListLocks(p) \/ CheckOrphan(p) PROVE TypeOK'
    BY <1>21 DEF ListLocks, CheckOrphan, GoTo, PC
  <1>22. ASSUME NEW p \in Procs, ForceRelease(p) PROVE TypeOK'
    BY <1>22 DEF ForceRelease, DeleteLock, GoTo, PC
  <1>23. ASSUME NEW p \in Procs, Crash(p) PROVE TypeOK'
    <2>1. spent' \in [Kind -> Nat] /\ spent'["start"] <= MaxStarts
      BY <1>23, SpendTyped DEF Crash, Fails, Kind
    <2>2. queue' \in [Workflow -> [Phase -> Nat]]
      BY <1>23, QueueTyped DEF Crash
    <2>3. QED
      BY <1>23, <2>1, <2>2, NullsTyped DEF Crash, GoTo, PC
  <1>24. ASSUME NEW p \in Procs, NEW w \in Workflow, NEW ph \in Phase,
                Callback(p, w, ph)
         PROVE  TypeOK'
    <2>1. queue' \in [Workflow -> [Phase -> Nat]]
      BY <1>24, QueueTyped DEF Callback, PhaseComplete, HandoffQueued, PhaseFailed
    <2>2. w \in WorkflowOrNone /\ PHASE_PROGRESSION[ph] \in StateOrNone
      BY TablesTyped, ConstantsAssumption DEF Workflow, WorkflowOrNone, StateOrNone
    <2>3. CASE PhaseComplete(p, w, ph)
      <3>1. PICK op \in Op, target \in StateOrNone, from \in StateOrNone :
                req'[p] = [op |-> op, target |-> target,
                           pausedFrom |-> from, wf |-> w, phase |-> ph]
        <4>1. p \in DOMAIN req
          OBVIOUS
        <4>2. CASE req'[p] = [NoRequest EXCEPT
                         !.op = "complete", !.wf = w, !.phase = ph,
                         !.target = PHASE_PROGRESSION[ph]]
          BY <2>2, <4>2, WordsTyped DEF NoRequest
        <4>3. CASE req'[p] = [NoRequest EXCEPT
                         !.op = "complete", !.wf = w, !.phase = ph,
                         !.target = "implementing"]
          BY <4>3, WordsTyped DEF NoRequest
        <4>4. CASE req'[p] = [NoRequest EXCEPT
                         !.op = "complete", !.wf = w, !.phase = ph,
                         !.target = "paused", !.pausedFrom = "qa"]
          BY <4>4, WordsTyped DEF NoRequest
        <4>5. CASE req'[p] = [NoRequest EXCEPT
                         !.op = "fallback", !.wf = w, !.phase = ph,
                         !.target = PHASE_PROGRESSION[ph]]
          BY <2>2, <4>5, WordsTyped DEF NoRequest
        <4>6. QED
          BY <2>3, <4>1, <4>2, <4>3, <4>4, <4>5 DEF PhaseComplete
      <3>2. req'[p] \in Request
        BY <2>2, <3>1, WordsTyped DEF Request
      <3>3. QED
        BY <2>1, <2>3, <3>2 DEF PhaseComplete, GoTo, PC
    <2>4. CASE HandoffQueued(p, w, ph)
      BY <2>1, <2>4 DEF HandoffQueued
    <2>5. CASE PhaseFailed(p, w, ph)
      <3>1. req'[p] \in Request
        BY <2>2, <2>5, NullsTyped
           DEF PhaseFailed, Request, NoRequest, Op, StateOrNone
      <3>2. QED
        BY <2>1, <2>5, <3>1 DEF PhaseFailed, GoTo, PC
    <2>6. QED
      BY <1>24, <2>3, <2>4, <2>5 DEF Callback
  <1>25. CASE AbandonedLockExpires
    BY <1>25 DEF AbandonedLockExpires
  <1>26. CASE HeldLockExpires
    <2>1. spent' \in [Kind -> Nat] /\ spent'["start"] <= MaxStarts
      BY <1>26, SpendTyped DEF HeldLockExpires, Fails, Kind
    <2>2. QED
      BY <1>26, <2>1 DEF HeldLockExpires
  <1>27. CASE RecordExpires
    <2>1. spent' \in [Kind -> Nat] /\ spent'["start"] <= MaxStarts
      BY <1>27, SpendTyped DEF RecordExpires, Fails, Kind
    <2>2. QED
      BY <1>27, <2>1, NullsTyped DEF RecordExpires
  <1>28. CASE UNCHANGED vars
    BY <1>28 DEF vars
  <1>29. CASE QueueStep
    <2>1. ASSUME NEW w, NEW ph, NEW k \in {"stall", "fault"}, Spend(k),
                 AddJob(w, ph) \/ TakeJob(w, ph),
                 UNCHANGED <<ctx, lock, audit, pc, req, view, clean>>
          PROVE  TypeOK'
      <3>1. spent' \in [Kind -> Nat] /\ spent'["start"] <= MaxStarts
        BY <2>1, SpendTyped DEF Kind
      <3>2. queue' \in [Workflow -> [Phase -> Nat]]
        BY <2>1, QueueTyped
      <3>3. QED
        BY <2>1, <3>1, <3>2
    <2>2. QED
      BY <1>29, <2>1 DEF QueueStep, JobStalls, LoseJob, Fails
  <1>30. QED
    BY <1>1, <1>2, <1>3, <1>4, <1>5, <1>6, <1>7, <1>8, <1>9, <1>10, <1>11,
       <1>12, <1>13, <1>14, <1>15, <1>16, <1>17, <1>18, <1>19, <1>20, <1>21,
       <1>22, <1>23, <1>24, <1>25, <1>26, <1>27, <1>28, <1>29
       DEF Next, Call, Step

-----------------------------------------------------------------------------
(* One process moves at a time *)

\* p takes a step.
Acts(p) ==
    \/ Call(p) \/ Step(p) \/ Crash(p)
    \/ \E w \in Workflow, ph \in Phase : Callback(p, w, ph)

\* q does not move.
Still(q) == pc'[q] = pc[q] /\ req'[q] = req[q] /\ view'[q] = view[q]

\* A process that takes a step leaves the others where they are.
LEMMA OthersStill ==
    ASSUME TypeOK, NEW p \in Procs, Acts(p), NEW q \in Procs \ {p}
    PROVE  Still(q)
  <1> USE DEF TypeOK, Still, GoTo
  <1>1. CASE Call(p)
    BY <1>1 DEF Call, StartPipeline, PausePipeline, ResumePipeline, RecoverScan
  <1>2. CASE CreateContext(p) \/ AcquireLock(p) \/ LoadState(p) \/ LoadFailed(p)
    BY <1>2 DEF CreateContext, AcquireLock, LoadState, LoadFailed
  <1>3. CASE HandoverLock(p) \/ WriteState(p) \/ SaveHistory(p)
                \/ SaveHistoryFails(p) \/ EnterState(p) \/ EnterStateFails(p)
    BY <1>3 DEF HandoverLock, WriteState, SaveHistory, SaveHistoryFails,
                EnterState, EnterStateFails
  <1>4. CASE LockTimeout(p) \/ ReleaseLock(p) \/ AbortTransition(p)
    BY <1>4 DEF LockTimeout, ReleaseLock, AbortTransition, Throw, Leave
  <1>5. CASE ReleaseAgain(p) \/ CompareHistory(p) \/ RepairState(p)
                \/ ListLocks(p) \/ CheckOrphan(p) \/ ForceRelease(p)
    BY <1>5 DEF ReleaseAgain, CompareHistory, RepairState, ListLocks,
                CheckOrphan, ForceRelease
  <1>6. CASE Crash(p)
    BY <1>6 DEF Crash
  <1>7. ASSUME NEW w \in Workflow, NEW ph \in Phase, Callback(p, w, ph)
        PROVE  Still(q)
    BY <1>7 DEF Callback, PhaseComplete, HandoffQueued, PhaseFailed
  <1>8. QED
    BY <1>1, <1>2, <1>3, <1>4, <1>5, <1>6, <1>7 DEF Acts, Step

\* An expiry, or what becomes of a job in the queue, moves nobody.
LEMMA ExpiryStill ==
    ASSUME AbandonedLockExpires \/ HeldLockExpires \/ RecordExpires
               \/ QueueStep \/ UNCHANGED vars
    PROVE  /\ audit' = audit /\ pc' = pc /\ req' = req /\ view' = view
           /\ ctx' = ctx \/ RecordExpires
  BY DEF AbandonedLockExpires, HeldLockExpires, RecordExpires, QueueStep,
         JobStalls, LoseJob, vars

\* What becomes of a job in the queue touches nothing but the queue.
LEMMA QueueStepQuiet ==
    ASSUME TypeOK, QueueStep
    PROVE  /\ UNCHANGED <<ctx, lock, audit, pc, req, view, clean>>
           /\ spent'["start"] = spent["start"]
  BY SpendTyped DEF QueueStep, JobStalls, LoseJob, Fails, TypeOK, Kind

\* Who steps, and what an update is for a process that stands still.
LEMMA NextActs ==
    [Next]_vars => \/ \E p \in Procs : Acts(p)
                   \/ AbandonedLockExpires
                   \/ HeldLockExpires
                   \/ RecordExpires
                   \/ QueueStep
                   \/ UNCHANGED vars
  BY DEF Next, Acts

LEMMA StillUpdates ==
    ASSUME NEW q \in Procs, req'[q] = req[q], view'[q] = view[q]
    PROVE  /\ Updated(q)' = Updated(q)
           /\ Validated(q)' <=> Validated(q)
           /\ RowOf(q)' = RowOf(q)
  BY DEF Updated, Validated, RowOf

-----------------------------------------------------------------------------
(* Callbacks and validation *)

\* No step forgets the phase of a callback.
LEMMA CallbackHasPhaseKept ==
    ASSUME TypeOK, CallbackHasPhase, [Next]_vars
    PROVE  CallbackHasPhase'
  <1> USE DEF TypeOK
  <1>1. SUFFICES ASSUME NEW q \in Procs, req'[q].op \in {"complete", "fallback"}
                 PROVE  req'[q].phase \in Phase
    BY DEF CallbackHasPhase
  <1>2. CASE req'[q] = req[q]
    BY <1>1, <1>2 DEF CallbackHasPhase
  <1>3. ASSUME NEW p \in Procs, Acts(p), p = q, req'[q] # req[q]
        PROVE  req'[q].phase \in Phase
    <2>1. CASE Call(p)
      BY <1>1, <1>3, <2>1
         DEF Call, StartPipeline, PausePipeline, ResumePipeline, RecoverScan,
             NoRequest
    <2>2. CASE LoadFailed(p)
      BY <1>1, <1>3, <2>2 DEF LoadFailed, Request
    <2>3. CASE LockTimeout(p) \/ AbortTransition(p) \/ ReleaseLock(p)
      <3>1. CASE Leave(p)
        BY <1>1, <1>3, <3>1 DEF Leave, NoRequest, None
      <3>2. CASE Throw(p)
        BY <1>1, <1>3, <3>1, <3>2 DEF Throw, Request, CallbackHasPhase
      <3>3. QED
        BY <2>3, <3>1, <3>2 DEF LockTimeout, AbortTransition, ReleaseLock
    <2>4. CASE Crash(p)
      BY <1>1, <1>3, <2>4 DEF Crash, NoRequest, None
    <2>5. ASSUME NEW w \in Workflow, NEW ph \in Phase, Callback(p, w, ph)
          PROVE  req'[q].phase \in Phase
      BY <1>1, <1>3, <2>5
         DEF Callback, PhaseComplete, HandoffQueued, PhaseFailed, NoRequest
    <2>6. CASE UNCHANGED req
      BY <1>3, <2>6
    <2>7. QED
      BY <1>3, <2>1, <2>2, <2>3, <2>4, <2>5, <2>6
         DEF Acts, Step, CreateContext, AcquireLock, LoadState, HandoverLock,
             WriteState, SaveHistory, SaveHistoryFails, EnterState,
             EnterStateFails, ReleaseAgain, CompareHistory, RepairState,
             ListLocks, CheckOrphan, ForceRelease
  <1>4. QED
    BY <1>2, <1>3, NextActs, OthersStill, ExpiryStill DEF Still

\* Only the two loads lead to a write, and they validate it.
LEMMA WritesAreValidatedKept ==
    ASSUME TypeOK, WritesAreValidated, [Next]_vars
    PROVE  WritesAreValidated'
  <1> USE DEF TypeOK
  <1>1. SUFFICES ASSUME NEW q \in Procs, pc'[q] \in {"write", "audit", "enter"}
                 PROVE  Validated(q)'
    BY DEF WritesAreValidated
  <1>2. CASE Still(q)
    BY <1>1, <1>2, StillUpdates DEF Still, WritesAreValidated
  <1>3. ASSUME NEW p \in Procs, Acts(p), p = q
        PROVE  Validated(q)'
    <2>1. CASE LoadState(p)
      BY <1>1, <1>3, <2>1
         DEF LoadState, Allowed, GoTo, Validated, Context, StateOrNone
    <2>2. CASE LoadFailed(p)
      BY <1>1, <1>3, <2>2
         DEF LoadFailed, MayRetry, GoTo, Validated, Context, StateOrNone
    <2>3. CASE WriteState(p) \/ SaveHistory(p)
      BY <1>3, <2>3, StillUpdates DEF WriteState, SaveHistory, WritesAreValidated
    <2>4. CASE Call(p)
      BY <1>1, <1>3, <2>4
         DEF Call, StartPipeline, PausePipeline, ResumePipeline, RecoverScan, GoTo
    <2>5. CASE LockTimeout(p) \/ AbortTransition(p) \/ ReleaseLock(p) \/ Crash(p)
      BY <1>1, <1>3, <2>5
         DEF LockTimeout, AbortTransition, ReleaseLock, Crash, Throw, Leave, GoTo
    <2>6. ASSUME NEW w \in Workflow, NEW ph \in Phase, Callback(p, w, ph)
          PROVE  Still(q) \/ pc'[q] = "wait"
      BY <1>3, <2>6
         DEF Callback, PhaseComplete, HandoffQueued, PhaseFailed, GoTo, Still
    <2>7. CASE CreateContext(p) \/ AcquireLock(p) \/ HandoverLock(p)
                  \/ SaveHistoryFails(p) \/ EnterState(p) \/ EnterStateFails(p)
      BY <1>1, <1>3, <2>7
         DEF CreateContext, AcquireLock, HandoverLock, SaveHistoryFails,
             EnterState, EnterStateFails, GoTo
    <2>8. CASE ReleaseAgain(p) \/ CompareHistory(p) \/ RepairState(p)
                  \/ ListLocks(p) \/ CheckOrphan(p) \/ ForceRelease(p)
      BY <1>1, <1>3, <2>8
         DEF ReleaseAgain, CompareHistory, RepairState, ListLocks,
             CheckOrphan, ForceRelease, GoTo
    <2>9. QED
      BY <1>1, <1>2, <1>3, <2>1, <2>2, <2>3, <2>4, <2>5, <2>6, <2>7, <2>8
         DEF Acts, Step
  <1>4. QED
    BY <1>2, <1>3, NextActs, OthersStill, ExpiryStill DEF Still

-----------------------------------------------------------------------------
(* The lock *)

\* Once the locking has broken down it stays so.
LEMMA CleanIsPast ==
    ASSUME TypeOK, [Next]_vars, clean'
    PROVE  clean
  <1>1. ASSUME NEW p \in Procs, Acts(p) PROVE clean
    <2>1. CASE Call(p) \/ Crash(p)
      BY <2>1
         DEF Call, StartPipeline, PausePipeline, ResumePipeline, RecoverScan, Crash
    <2>2. CASE \E w \in Workflow, ph \in Phase : Callback(p, w, ph)
      BY <2>2 DEF Callback, PhaseComplete, HandoffQueued, PhaseFailed
    <2>3. CASE Step(p)
      BY <2>3
         DEF Step, CreateContext, AcquireLock, LockTimeout, LoadState, LoadFailed,
             HandoverLock, WriteState, SaveHistory, SaveHistoryFails, EnterState,
             EnterStateFails, ReleaseLock, AbortTransition, ReleaseAgain,
             CompareHistory, RepairState, ListLocks, CheckOrphan, ForceRelease,
             DeleteLock
    <2>4. QED
      BY <1>1, <2>1, <2>2, <2>3 DEF Acts
  <1>2. QED
    BY <1>1, NextActs, QueueStepQuiet
       DEF AbandonedLockExpires, HeldLockExpires, RecordExpires, vars

\* A step that touches no lock key lets nobody in; one that deletes the key
\* lets the process out; AcquireLock alone lets a process in.
LEMMA LockSteps ==
    ASSUME TypeOK, NEW p \in Procs, Acts(p), clean'
    PROVE  \/ lock' = lock /\ (Inside(p)' => Inside(p))
           \/ lock' = FALSE /\ ~OtherInside(p) /\ ~Inside(p)'
           \/ ~lock /\ lock' = TRUE
  <1> USE DEF TypeOK, GoTo, Inside
  <1>1. CASE Call(p)
    BY <1>1 DEF Call, StartPipeline, PausePipeline, ResumePipeline, RecoverScan
  <1>2. CASE CreateContext(p) \/ LoadState(p) \/ LoadFailed(p) \/ WriteState(p)
                \/ SaveHistory(p) \/ EnterState(p) \/ EnterStateFails(p)
    BY <1>2 DEF CreateContext, LoadState, LoadFailed, WriteState, SaveHistory,
                EnterState, EnterStateFails
  <1>3. CASE SaveHistoryFails(p) \/ RepairState(p)
    BY <1>3 DEF SaveHistoryFails, RepairState
  <1>4. CASE AcquireLock(p)
    BY <1>4 DEF AcquireLock
  <1>5. CASE HandoverLock(p) \/ ReleaseAgain(p) \/ ForceRelease(p)
    BY <1>5 DEF HandoverLock, ReleaseAgain, ForceRelease, DeleteLock
  <1>6. CASE ReleaseLock(p) \/ AbortTransition(p)
    BY <1>6 DEF ReleaseLock, AbortTransition, DeleteLock, Throw, Leave
  <1>7. CASE LockTimeout(p)
    BY <1>7 DEF LockTimeout, Throw, Leave
  <1>8. CASE CompareHistory(p) \/ ListLocks(p) \/ CheckOrphan(p) \/ Crash(p)
    BY <1>8 DEF CompareHistory, ListLocks, CheckOrphan, Crash
  <1>9. ASSUME NEW w \in Workflow, NEW ph \in Phase, Callback(p, w, ph)
        PROVE  lock' = lock /\ (Inside(p)' => Inside(p))
    BY <1>9 DEF Callback, PhaseComplete, HandoffQueued, PhaseFailed
  <1>10. QED
    BY <1>1, <1>2, <1>3, <1>4, <1>5, <1>6, <1>7, <1>8, <1>9 DEF Acts, Step

\* While it is clean, the lock key covers one process at a time.
LEMMA LockCoversKept ==
    ASSUME TypeOK, LockCovers, [Next]_vars, clean'
    PROVE  LockCovers'
  <1>1. ASSUME NEW p \in Procs, Acts(p) PROVE LockCovers'
    <2>1. \A q \in Procs \ {p} : Inside(q)' <=> Inside(q)
      BY <1>1, OthersStill DEF Still, Inside
    <2>2. CASE lock' = lock /\ (Inside(p)' => Inside(p))
      BY <2>1, <2>2 DEF LockCovers, MutualExclusion
    <2>3. CASE lock' = FALSE /\ ~OtherInside(p) /\ ~Inside(p)'
      BY <2>1, <2>3 DEF LockCovers, MutualExclusion, OtherInside
    <2>4. CASE ~lock /\ lock' = TRUE
      BY <2>1, <2>4 DEF LockCovers, MutualExclusion
    <2>5. QED
      BY <1>1, <2>2, <2>3, <2>4, LockSteps
  <1>2. CASE AbandonedLockExpires
    BY <1>2 DEF AbandonedLockExpires, LockCovers, MutualExclusion, Inside
  <1>3. CASE HeldLockExpires
    BY <1>3 DEF HeldLockExpires
  <1>4. CASE RecordExpires \/ QueueStep \/ UNCHANGED vars
    <2>1. lock' = lock /\ pc' = pc
      BY <1>4, QueueStepQuiet DEF RecordExpires, vars
    <2>2. QED
      BY <2>1 DEF LockCovers, MutualExclusion, Inside
  <1>5. QED
    BY <1>1, <1>2, <1>3, <1>4, NextActs

-----------------------------------------------------------------------------
(* The record and the history *)

\* p does not touch the record or the history and is not about to.
Quiet(p) ==
    /\ ctx' = ctx /\ audit' = audit
    /\ pc[p] # "audit" /\ pc'[p] \notin {"write", "audit"}

\* p is about to write what it has just loaded.
Loads(p) ==
    /\ ctx' = ctx /\ audit' = audit
    /\ pc[p] # "audit" /\ pc'[p] = "write" /\ view'[p] = ctx'

\* As long as it is clean, every step is quiet but the two loads and the
\* three writes.
LEMMA RecordSteps ==
    ASSUME TypeOK, NEW p \in Procs, Acts(p), clean'
    PROVE  Quiet(p) \/ Loads(p) \/ CreateContext(p) \/ WriteState(p)
               \/ SaveHistory(p)
  <1> USE DEF TypeOK, GoTo, Quiet, Loads
  <1>1. CASE Call(p)
    BY <1>1 DEF Call, StartPipeline, PausePipeline, ResumePipeline, RecoverScan
  <1>2. CASE AcquireLock(p) \/ EnterState(p) \/ EnterStateFails(p)
    BY <1>2 DEF AcquireLock, EnterState, EnterStateFails
  <1>3. CASE SaveHistoryFails(p) \/ RepairState(p)
    BY <1>3 DEF SaveHistoryFails, RepairState
  <1>4. CASE LoadState(p) \/ LoadFailed(p)
    BY <1>4 DEF LoadState, LoadFailed
  <1>5. CASE HandoverLock(p) \/ ReleaseAgain(p) \/ ForceRelease(p)
    BY <1>5 DEF HandoverLock, ReleaseAgain, ForceRelease
  <1>6. CASE ReleaseLock(p) \/ AbortTransition(p) \/ LockTimeout(p)
    BY <1>6 DEF ReleaseLock, AbortTransition, LockTimeout, Throw, Leave
  <1>7. CASE CompareHistory(p) \/ ListLocks(p) \/ CheckOrphan(p) \/ Crash(p)
    BY <1>7 DEF CompareHistory, ListLocks, CheckOrphan, Crash
  <1>8. ASSUME NEW w \in Workflow, NEW ph \in Phase, Callback(p, w, ph)
        PROVE  Quiet(p)
    BY <1>8 DEF Callback, PhaseComplete, HandoffQueued, PhaseFailed
  <1>9. QED
    BY <1>1, <1>2, <1>3, <1>4, <1>5, <1>6, <1>7, <1>8 DEF Acts, Step

\* While it is clean, nobody else is between load and history.
LEMMA AloneInside ==
    ASSUME LockCovers, NEW p \in Procs, Inside(p), NEW q \in Procs \ {p}
    PROVE  pc[q] \notin {"write", "audit"}
  BY DEF LockCovers, MutualExclusion, Inside

\* While it is clean, record and history stay in step.
LEMMA RecordInStepKept ==
    ASSUME TypeOK, WritesAreValidated, LockCovers, RecordInStep,
           FreshWorkflows, [Next]_vars, clean'
    PROVE  RecordInStep'
  <1> USE DEF TypeOK
  <1>1. ASSUME NEW p \in Procs, Acts(p) PROVE RecordInStep'
    <2>1. \A q \in Procs \ {p} : Still(q)
      BY <1>1, OthersStill
    <2>2. CASE Quiet(p)
      <3>1. \A q \in Procs : pc'[q] = "write" => view'[q] = ctx'
        BY <2>1, <2>2 DEF Quiet, Still, RecordInStep
      <3>2. \A q \in Procs : pc'[q] = "audit" => ctx' = Updated(q)' /\ EndsAt(view[q])'
        BY <2>1, <2>2, StillUpdates DEF Quiet, Still, RecordInStep, EndsAt
      <3>3. (\A q \in Procs : pc'[q] # "audit") => \A q \in Procs : pc[q] # "audit"
        BY <2>1, <2>2 DEF Quiet, Still
      <3>4. QED
        BY <2>2, <3>1, <3>2, <3>3 DEF Quiet, RecordInStep, EndsAt
    <2>3. CASE Loads(p)
      <3>1. \A q \in Procs : pc'[q] = "write" => view'[q] = ctx'
        BY <2>1, <2>3 DEF Loads, Still, RecordInStep
      <3>2. \A q \in Procs : pc'[q] = "audit" => ctx' = Updated(q)' /\ EndsAt(view[q])'
        BY <2>1, <2>3, StillUpdates DEF Loads, Still, RecordInStep, EndsAt
      <3>3. (\A q \in Procs : pc'[q] # "audit") => \A q \in Procs : pc[q] # "audit"
        BY <2>1, <2>3 DEF Loads, Still
      <3>4. QED
        BY <2>3, <3>1, <3>2, <3>3 DEF Loads, RecordInStep, EndsAt
    <2>4. CASE CreateContext(p)
      <3>1. \A q \in Procs : pc'[q] \notin {"write", "audit"}
        BY <2>1, <2>4 DEF CreateContext, MidUpdate, GoTo, Still
      <3>2. EndsAt(ctx)'
        <4>1. audit'.wf # ctx'.wf /\ ctx'.state = "idle"
          BY <2>4 DEF CreateContext, FreshWorkflows, NoContext
        <4>2. QED
          BY <4>1 DEF EndsAt
      <3>3. QED
        BY <3>1, <3>2 DEF RecordInStep
    <2>5. CASE WriteState(p)
      <3>1. /\ view[p] = ctx /\ view'[p] = ctx /\ req'[p] = req[p]
            /\ ctx' = Updated(p) /\ audit' = audit /\ pc'[p] = "audit"
            /\ Inside(p)
        BY <2>5 DEF WriteState, RecordInStep, GoTo, Inside
      <3>2. \A q \in Procs \ {p} : pc[q] \notin {"write", "audit"}
        BY <3>1, AloneInside
      <3>3. EndsAt(view[p])'
        <4>1. ctx.state # None
          BY <2>5, <3>1
             DEF WriteState, WritesAreValidated, Validated, PipelineState, None
        <4>2. EndsAt(ctx)
          BY <2>5, <3>2, <4>1 DEF RecordInStep, WriteState
        <4>3. QED
          BY <3>1, <4>2 DEF EndsAt
      <3>4. ctx' = Updated(p)'
        BY <3>1, StillUpdates
      <3>5. QED
        BY <2>1, <3>1, <3>2, <3>3, <3>4 DEF RecordInStep, Still
    <2>6. CASE SaveHistory(p)
      <3>1. /\ ctx = Updated(p) /\ ctx' = ctx /\ audit' = RowOf(p)
            /\ pc'[p] = "enter" /\ Inside(p)
        BY <2>6 DEF SaveHistory, RecordInStep, GoTo, Inside
      <3>2. \A q \in Procs : pc'[q] \notin {"write", "audit"}
        BY <2>1, <3>1, AloneInside DEF Still
      <3>3. EndsAt(ctx)'
        <4>1. Updated(p).wf = view[p].wf
          BY DEF Updated, Context
        <4>2. audit'.wf = ctx'.wf /\ audit'.new = ctx'.state
          BY <3>1, <4>1 DEF RowOf
        <4>3. QED
          BY <4>2 DEF EndsAt
      <3>4. QED
        BY <3>2, <3>3 DEF RecordInStep
    <2>7. QED
      BY <1>1, <2>2, <2>3, <2>4, <2>5, <2>6, RecordSteps
  <1>2. CASE AbandonedLockExpires \/ HeldLockExpires \/ QueueStep \/ UNCHANGED vars
    <2>1. ctx' = ctx /\ audit' = audit /\ pc' = pc /\ req' = req /\ view' = view
      BY <1>2, QueueStepQuiet DEF AbandonedLockExpires, HeldLockExpires, vars
    <2>2. QED
      BY <2>1 DEF RecordInStep, EndsAt, Updated
  <1>3. CASE RecordExpires
    BY <1>3 DEF RecordExpires, RecordInStep, NoContext
  <1>4. QED
    BY <1>1, <1>2, <1>3, NextActs

\* Only a start takes a number for a workflow, and it takes a new one.
LEMMA StartSteps ==
    ASSUME TypeOK, NEW p \in Procs, Acts(p)
    PROVE  /\ spent'["start"] \in Nat
           /\ \/ StartPipeline(p) /\ spent'["start"] = spent["start"] + 1
              \/ pc'[p] # "create" /\ spent'["start"] = spent["start"]
              \/ Still(p) /\ spent'["start"] = spent["start"]
  <1> USE DEF TypeOK, GoTo
  <1>1. CASE StartPipeline(p)
    BY <1>1, SpendTyped DEF StartPipeline, Kind
  <1>2. ASSUME NEW k \in Kind \ {"start"}, Spend(k)
        PROVE  spent'["start"] = spent["start"]
    BY <1>2, SpendTyped
  <1>3. CASE PausePipeline(p) \/ ResumePipeline(p) \/ RecoverScan(p)
    BY <1>2, <1>3 DEF PausePipeline, ResumePipeline, RecoverScan, Kind
  <1>4. CASE LockTimeout(p) \/ SaveHistoryFails(p) \/ EnterStateFails(p) \/ Crash(p)
    BY <1>2, <1>4 DEF LockTimeout, SaveHistoryFails, EnterStateFails, Crash,
                      Fails, Throw, Leave, Kind
  <1>5. CASE CreateContext(p) \/ AcquireLock(p) \/ LoadState(p) \/ LoadFailed(p)
                \/ HandoverLock(p) \/ WriteState(p) \/ SaveHistory(p)
                \/ EnterState(p)
    BY <1>5 DEF CreateContext, AcquireLock, LoadState, LoadFailed, HandoverLock,
                WriteState, SaveHistory, EnterState, Kind
  <1>6. CASE ReleaseLock(p) \/ AbortTransition(p)
    BY <1>6 DEF ReleaseLock, AbortTransition, Throw, Leave, Kind
  <1>7. CASE ReleaseAgain(p) \/ CompareHistory(p) \/ RepairState(p)
                \/ ListLocks(p) \/ CheckOrphan(p) \/ ForceRelease(p)
    BY <1>7 DEF ReleaseAgain, CompareHistory, RepairState, ListLocks,
                CheckOrphan, ForceRelease, Kind
  <1>8. ASSUME NEW w \in Workflow, NEW ph \in Phase, Callback(p, w, ph)
        PROVE  spent' = spent /\ (Still(p) \/ pc'[p] = "wait")
    BY <1>8 DEF Callback, PhaseComplete, HandoffQueued, PhaseFailed, Still
  <1>9. QED
    BY <1>1, <1>3, <1>4, <1>5, <1>6, <1>7, <1>8 DEF Acts, Call, Step, Kind

\* While it is clean, workflows that wait to be created are new.
LEMMA FreshWorkflowsKept ==
    ASSUME TypeOK, TypeOK', WritesAreValidated, LockCovers, RecordInStep,
           FreshWorkflows, [Next]_vars, clean'
    PROVE  FreshWorkflows'
  <1> USE DEF TypeOK
  <1>1. ASSUME NEW p \in Procs, Acts(p) PROVE FreshWorkflows'
    <2>1. \A q \in Procs \ {p} : Still(q)
      BY <1>1, OthersStill
    <2>2. /\ ctx.wf \in Nat /\ audit.wf \in Nat /\ spent["start"] \in Nat
          /\ \A q \in Procs : req[q].wf \in Nat
      BY ConstantsAssumption DEF Context, Row, Request, WorkflowOrNone, Kind
    <2>3. CASE StartPipeline(p)
      <3>1. /\ ctx' = ctx /\ audit' = audit /\ req'[p].wf = spent["start"] + 1
            /\ spent'["start"] = spent["start"] + 1
        BY <2>3, SpendTyped DEF StartPipeline, NoRequest, Kind
      <3>2. QED
        BY <2>1, <2>2, <3>1 DEF FreshWorkflows, Still
    <2>4. CASE CreateContext(p)
      <3>1. /\ ctx'.wf = req[p].wf /\ audit' = audit /\ pc[p] = "create"
            /\ pc'[p] = "wait" /\ spent' = spent
        BY <2>4 DEF CreateContext, GoTo, NoContext
      <3>2. QED
        BY <2>1, <2>2, <3>1 DEF FreshWorkflows, Still
    <2>5. CASE /\ ctx'.wf = ctx.wf /\ audit'.wf \in {audit.wf, ctx.wf}
               /\ spent'["start"] = spent["start"]
               /\ pc'[p] # "create" \/ Still(p)
      <3> HIDE DEF TypeOK
      <3>1. ctx'.wf <= spent'["start"] /\ audit'.wf <= spent'["start"]
        BY <2>5 DEF FreshWorkflows
      <3>2. \A q \in Procs : pc'[q] = "create" => Still(q) /\ pc[q] = "create"
        BY <2>1, <2>5 DEF Still
      <3>3. ASSUME NEW q \in Procs, pc'[q] = "create"
            PROVE  /\ 0 < req'[q].wf /\ req'[q].wf <= spent'["start"]
                   /\ ctx'.wf # req'[q].wf /\ audit'.wf # req'[q].wf
        BY <2>5, <3>2, <3>3 DEF FreshWorkflows, Still
      <3>4. ASSUME NEW q \in Procs, pc'[q] = "create",
                   NEW r \in Procs \ {q}, pc'[r] = "create"
            PROVE  req'[r].wf # req'[q].wf
        BY <3>2, <3>4 DEF FreshWorkflows, Still
      <3>5. QED
        BY <3>1, <3>3, <3>4 DEF FreshWorkflows
    <2>6. CASE Quiet(p) \/ Loads(p)
      <3>1. /\ ctx'.wf = ctx.wf /\ audit'.wf = audit.wf
        BY <2>6 DEF Quiet, Loads
      <3>2. \/ StartPipeline(p)
            \/ pc'[p] # "create" /\ spent'["start"] = spent["start"]
            \/ Still(p) /\ spent'["start"] = spent["start"]
        BY <1>1, StartSteps
      <3>3. QED
        BY <2>3, <2>5, <3>1, <3>2
    <2>7. CASE WriteState(p)
      <3>1. ctx'.wf = ctx.wf /\ audit' = audit /\ pc'[p] = "audit" /\ spent' = spent
        BY <2>7 DEF WriteState, RecordInStep, Updated, Context, GoTo
      <3>2. QED
        BY <2>5, <3>1
    <2>8. CASE SaveHistory(p)
      <3>1. /\ ctx' = ctx /\ audit'.wf = ctx.wf /\ pc'[p] = "enter"
            /\ spent' = spent
        <4>1. Updated(p).wf = view[p].wf
          BY DEF Updated, Context
        <4>2. QED
          BY <2>8, <4>1 DEF SaveHistory, RecordInStep, RowOf, GoTo
      <3>2. QED
        BY <2>5, <3>1
    <2>9. QED
      BY <1>1, <2>4, <2>6, <2>7, <2>8, RecordSteps
  <1>2. CASE AbandonedLockExpires \/ HeldLockExpires \/ RecordExpires
                 \/ QueueStep \/ UNCHANGED vars
    <2>1. spent'["start"] = spent["start"]
      BY <1>2, SpendTyped, QueueStepQuiet
         DEF AbandonedLockExpires, HeldLockExpires, RecordExpires, vars, Fails,
             Kind
    <2>2. CASE ctx' = ctx
      BY <1>2, <2>1, <2>2, ExpiryStill DEF FreshWorkflows
    <2>3. CASE RecordExpires
      <3>1. pc' = pc /\ audit' = audit /\ ctx'.wf = 0 /\ \A q \in Procs : pc[q] = "idle"
        BY <2>3 DEF RecordExpires, NoContext
      <3>2. 0 <= spent["start"]
        BY DEF Kind
      <3>3. QED
        BY <2>1, <3>1, <3>2 DEF FreshWorkflows
    <2>4. QED
      BY <1>2, <2>2, <2>3, ExpiryStill
  <1>3. QED
    BY <1>1, <1>2, NextActs

-----------------------------------------------------------------------------
(* No phase without somebody who sees to it *)

\* A fault leaves a trace, and no step wipes it out.
LEMMA FaultsCount ==
    ASSUME TypeOK, [Next]_vars, spent'["fault"] = 0
    PROVE  spent["fault"] = 0 /\ \A fault \in Fault : ~Fails(fault)
  <1>1. spent \in [Kind -> Nat] /\ spent["fault"] \in Nat
    BY DEF TypeOK, Kind
  <1>2. ASSUME NEW fault, Fails(fault) PROVE FALSE
    <2>1. spent'["fault"] = spent["fault"] + 1
      BY <1>1, <1>2 DEF Fails, Spend, Kind
    <2>2. QED
      BY <1>1, <2>1
  <1>3. ASSUME NEW k \in Kind \ {"fault"}, Spend(k) PROVE spent["fault"] = 0
    BY <1>1, <1>3 DEF Spend, Kind
  <1>4. ASSUME NEW p \in Procs, Acts(p) PROVE spent["fault"] = 0
    <2>1. CASE Call(p)
      BY <1>3, <2>1
         DEF Call, StartPipeline, PausePipeline, ResumePipeline, RecoverScan, Kind
    <2>2. CASE Crash(p)
      BY <1>2, <2>2 DEF Crash
    <2>3. CASE Step(p)
      BY <1>2, <2>3
         DEF Step, CreateContext, AcquireLock, LockTimeout, LoadState, LoadFailed,
             HandoverLock, WriteState, SaveHistory, SaveHistoryFails, EnterState,
             EnterStateFails, ReleaseLock, AbortTransition, ReleaseAgain,
             CompareHistory, RepairState, ListLocks, CheckOrphan, ForceRelease
    <2>4. ASSUME NEW w \in Workflow, NEW ph \in Phase, Callback(p, w, ph)
          PROVE  spent["fault"] = 0
      BY <2>4 DEF Callback, PhaseComplete, HandoffQueued, PhaseFailed
    <2>5. QED
      BY <1>4, <2>1, <2>2, <2>3, <2>4 DEF Acts
  <1>5. CASE QueueStep
    BY <1>2, <1>3, <1>5 DEF QueueStep, JobStalls, LoseJob, Kind
  <1>6. QED
    BY <1>2, <1>4, <1>5, NextActs
       DEF AbandonedLockExpires, HeldLockExpires, RecordExpires, vars

\* Every phase may fail, and may be followed by the next one; QA may also be
\* rejected or escalated.
LEMMA VerdictsAllowed ==
    \A ph \in Phase :
        /\ "failed" \in VALID_TRANSITIONS[ph]
        /\ PHASE_PROGRESSION[ph] \in VALID_TRANSITIONS[ph]
        /\ ph = "qa" => {"implementing", "paused"} \subseteq VALID_TRANSITIONS[ph]
  BY DEF Phase, VALID_TRANSITIONS, PHASE_PROGRESSION

\* The callback of a job of the present phase sees to the phase.
LEMMA CallbackAttends ==
    ASSUME TypeOK, "queued" \notin HandoffAnswers,
           NEW p \in Procs, NEW w \in Workflow, NEW ph \in Phase,
           Callback(p, w, ph)
    PROVE  /\ ctx' = ctx
           /\ \A v \in Workflow, s \in Phase :
                  v # w \/ s # ph => queue'[v][s] = queue[v][s]
           /\ ph = ctx.state => Attends(p)'
  <1> USE DEF TypeOK
  <1>1. ctx' = ctx /\ TakeJob(w, ph) /\ pc' = [pc EXCEPT ![p] = "wait"]
    BY DEF Callback, PhaseComplete, HandoffQueued, PhaseFailed, GoTo
  <1>2. \A v \in Workflow, s \in Phase :
            v # w \/ s # ph => queue'[v][s] = queue[v][s]
    <2> SUFFICES ASSUME NEW v \in Workflow, NEW s \in Phase, v # w \/ s # ph
                 PROVE  queue'[v][s] = queue[v][s]
      OBVIOUS
    <2>1. queue' = [queue EXCEPT ![w][ph] = queue[w][ph] - 1]
      BY <1>1 DEF TakeJob
    <2>2. QED
      BY <2>1
  <1>3. ASSUME ph = ctx.state PROVE Attends(p)'
    <2>1. /\ req'[p].phase = ph
          /\ \/ req'[p].op = "fail"
             \/ /\ req'[p].op \in {"complete", "fallback"}
                /\ \/ req'[p].target = PHASE_PROGRESSION[ph]
                   \/ ph = "qa" /\ req'[p].target \in {"implementing", "paused"}
      BY DEF Callback, PhaseComplete, HandoffQueued, PhaseFailed, NoRequest
    <2>2. \/ req'[p].op = "fail"
          \/ /\ req'[p].op \in {"complete", "fallback"}
             /\ req'[p].target \in VALID_TRANSITIONS[ph]
      BY <2>1, VerdictsAllowed
    <2>3. QED
      BY <1>1, <1>3, <2>1, <2>2 DEF Attends
  <1>4. QED
    BY <1>1, <1>2, <1>3

\* Who sees to the phase goes on doing so until the record is written.
LEMMA AttendantStays ==
    ASSUME TypeOK, ctx.state \in Phase, \A fault \in Fault : ~Fails(fault),
           NEW p \in Procs, Acts(p), Attends(p), ctx' = ctx
    PROVE  Attends(p)' \/ WriteState(p)
  <1> USE DEF TypeOK, GoTo
  <1>1. CASE AcquireLock(p) \/ HandoverLock(p)
    BY <1>1 DEF AcquireLock, HandoverLock, Attends
  <1>2. CASE LoadState(p)
    <2>1. Allowed(ctx, req[p].target)
      BY <1>2 DEF LoadState, Attends, Allowed, Phase, None
    <2>2. QED
      BY <1>2, <2>1 DEF LoadState, Attends
  <1>3. CASE LoadFailed(p)
    <2>1. ctx.state # None
      BY DEF Phase, None
    <2>2. CASE MayRetry(ctx)
      BY <1>3, <2>1, <2>2 DEF LoadFailed, Attends
    <2>3. CASE ~MayRetry(ctx)
      <3>1. /\ pc'[p] = "handover"
            /\ req'[p].phase = req[p].phase
            /\ req'[p].op = "exhausted" /\ req'[p].target = "failed"
        BY <1>3, <2>1, <2>3 DEF LoadFailed, Request
      <3>2. QED
        BY <3>1, VerdictsAllowed DEF Attends
    <2>4. QED
      BY <2>2, <2>3
  <1>4. CASE LockTimeout(p) \/ SaveHistoryFails(p) \/ EnterStateFails(p) \/ Crash(p)
    BY <1>4 DEF LockTimeout, SaveHistoryFails, EnterStateFails, Crash, Fault
  <1>5. CASE Call(p)
    BY <1>5 DEF Call, StartPipeline, PausePipeline, ResumePipeline, RecoverScan,
                Attends
  <1>6. ASSUME NEW w \in Workflow, NEW ph \in Phase, Callback(p, w, ph)
        PROVE  FALSE
    BY <1>6 DEF Callback, PhaseComplete, HandoffQueued, PhaseFailed, Attends
  <1>7. QED
    BY <1>1, <1>2, <1>3, <1>4, <1>5, <1>6
       DEF Acts, Step, CreateContext, SaveHistory, EnterState, ReleaseLock,
           AbortTransition, ReleaseAgain, CompareHistory, RepairState, ListLocks,
           CheckOrphan, ForceRelease, Attends

\* Who has moved the pipeline into a phase queues the job of the phase.
LEMMA EntrantStays ==
    ASSUME TypeOK, ctx.state \in Phase, \A fault \in Fault : ~Fails(fault),
           NEW p \in Procs, Acts(p), Enters(p), ctx' = ctx
    PROVE  Enters(p)' \/ \E w \in Workflow : queue'[w][ctx.state] > 0
  <1> USE DEF TypeOK, GoTo
  <1>1. CASE SaveHistory(p)
    BY <1>1, StillUpdates DEF SaveHistory, Enters
  <1>2. CASE EnterState(p)
    <2>1. view[p].wf \in Workflow
      BY ConstantsAssumption DEF Enters, Context, WorkflowOrNone, Workflow
    <2>2. queue' = [queue EXCEPT ![view[p].wf][ctx.state]
                                = queue[view[p].wf][ctx.state] + 1]
      BY <1>2 DEF EnterState, Enters, AddJob
    <2>3. queue[view[p].wf][ctx.state] \in Nat
      BY <2>1
    <2>4. queue'[view[p].wf][ctx.state] = queue[view[p].wf][ctx.state] + 1
      BY <2>1, <2>2
    <2>5. queue'[view[p].wf][ctx.state] > 0
      BY <2>3, <2>4
    <2>6. QED
      BY <2>1, <2>5
  <1>3. CASE LockTimeout(p) \/ SaveHistoryFails(p) \/ EnterStateFails(p) \/ Crash(p)
    BY <1>3 DEF LockTimeout, SaveHistoryFails, EnterStateFails, Crash, Fault
  <1>4. CASE Call(p)
    BY <1>4 DEF Call, StartPipeline, PausePipeline, ResumePipeline, RecoverScan,
                Enters
  <1>5. ASSUME NEW w \in Workflow, NEW ph \in Phase, Callback(p, w, ph)
        PROVE  FALSE
    BY <1>5 DEF Callback, PhaseComplete, HandoffQueued, PhaseFailed, Enters
  <1>6. QED
    BY <1>1, <1>2, <1>3, <1>4, <1>5
       DEF Acts, Step, CreateContext, AcquireLock, LoadState, LoadFailed,
           HandoverLock, WriteState, ReleaseLock, AbortTransition, ReleaseAgain,
           CompareHistory, RepairState, ListLocks, CheckOrphan, ForceRelease,
           Enters

\* Queueing a job removes none.
LEMMA AddJobKeeps ==
    ASSUME TypeOK, NEW v, NEW s, AddJob(v, s), NEW w \in Workflow,
           NEW ph \in Phase, queue[w][ph] > 0
    PROVE  queue'[w][ph] > 0
  <1>1. queue \in [Workflow -> [Phase -> Nat]] /\ queue[w][ph] \in Nat
    BY DEF TypeOK
  <1>2. queue' = [queue EXCEPT ![v][s] = queue[v][s] + 1]
    BY DEF AddJob
  <1>3. CASE v = w /\ s = ph
    <2>1. queue'[w][ph] = queue[w][ph] + 1
      BY <1>1, <1>2, <1>3
    <2>2. QED
      BY <1>1, <2>1
  <1>4. CASE v # w \/ s # ph
    <2>1. queue'[w][ph] = queue[w][ph]
      BY <1>1, <1>2, <1>4
    <2>2. QED
      BY <2>1
  <1>5. QED
    BY <1>3, <1>4

\* Of what processes do, only callbacks take jobs away.
LEMMA JobsStay ==
    ASSUME TypeOK, \A fault \in Fault : ~Fails(fault), NEW p \in Procs,
           Call(p) \/ Step(p) \/ Crash(p), NEW w \in Workflow, NEW ph \in Phase,
           queue[w][ph] > 0
    PROVE  queue'[w][ph] > 0
  <1>1. CASE EnterState(p)
    BY <1>1, AddJobKeeps DEF EnterState
  <1>2. CASE Crash(p)
    BY <1>2 DEF Crash, Fault
  <1>3. CASE Call(p)
    BY <1>3 DEF Call, StartPipeline, PausePipeline, ResumePipeline, RecoverScan
  <1>4. QED
    BY <1>1, <1>2, <1>3
       DEF Step, CreateContext, AcquireLock, LockTimeout, LoadState, LoadFailed,
           HandoverLock, WriteState, SaveHistory, SaveHistoryFails,
           EnterStateFails, ReleaseLock, AbortTransition, ReleaseAgain,
           CompareHistory, RepairState, ListLocks, CheckOrphan, ForceRelease

\* Who writes the record enters the phase it leads to.
LEMMA WriterEnters ==
    ASSUME TypeOK, WritesAreValidated, RecordInStep, WorkflowKnown,
           NEW p \in Procs, WriteState(p)
    PROVE  Enters(p)' /\ ctx'.wf = ctx.wf /\ ctx.state # None
  <1>1. /\ view[p] = ctx /\ view' = view /\ req' = req
        /\ ctx' = Updated(p) /\ pc'[p] = "audit"
    BY DEF WriteState, RecordInStep, GoTo, TypeOK
  <1>2. ctx.state # None
    BY <1>1 DEF WriteState, WritesAreValidated, Validated, PipelineState, None
  <1>3. Updated(p)' = Updated(p)
    BY <1>1, StillUpdates
  <1>4. ctx'.wf = ctx.wf
    BY <1>1 DEF Updated, TypeOK, Context
  <1>5. QED
    BY <1>1, <1>2, <1>3, <1>4 DEF Enters, WorkflowKnown

\* While it is clean, a recorded pipeline has a workflow.
LEMMA WorkflowKnownKept ==
    ASSUME TypeOK, WritesAreValidated, RecordInStep, FreshWorkflows,
           WorkflowKnown, [Next]_vars, clean'
    PROVE  WorkflowKnown'
  <1>1. CASE ctx' = ctx
    BY <1>1 DEF WorkflowKnown
  <1>2. ASSUME NEW p \in Procs, CreateContext(p) PROVE WorkflowKnown'
    BY <1>2 DEF CreateContext, FreshWorkflows, WorkflowKnown, NoContext
  <1>3. ASSUME NEW p \in Procs, WriteState(p) PROVE WorkflowKnown'
    BY <1>3, WriterEnters DEF WorkflowKnown
  <1>4. CASE RecordExpires
    BY <1>4 DEF RecordExpires, WorkflowKnown, NoContext
  <1>5. ASSUME NEW p \in Procs, Acts(p)
        PROVE  ctx' = ctx \/ CreateContext(p) \/ WriteState(p)
    BY <1>5, RecordSteps DEF Quiet, Loads, SaveHistory
  <1>6. QED
    BY <1>1, <1>2, <1>3, <1>4, <1>5, NextActs, ExpiryStill

\* While it is clean, the phase the pipeline is in is seen to.
LEMMA PhaseAttendedKept ==
    ASSUME TypeOK, WritesAreValidated, RecordInStep, WorkflowKnown,
           PhaseAttended, "queued" \notin HandoffAnswers, [Next]_vars, clean'
    PROVE  PhaseAttended'
  <1>1. SUFFICES ASSUME spent'["fault"] = 0, ctx'.state \in Phase
                 PROVE  \/ \E w \in Workflow : queue'[w][ctx'.state] > 0
                        \/ \E q \in Procs : Attends(q)' \/ Enters(q)'
    BY DEF PhaseAttended
  <1>2. spent["fault"] = 0 /\ \A fault \in Fault : ~Fails(fault)
    BY <1>1, FaultsCount
  <1>3. ASSUME NEW p \in Procs, WriteState(p) PROVE Enters(p)'
    BY <1>3, WriterEnters
  <1>4. ASSUME NEW p \in Procs, CreateContext(p) PROVE FALSE
    BY <1>1, <1>4 DEF CreateContext, NoContext, Phase
  <1>5. ASSUME NEW p \in Procs, Acts(p), ctx' = ctx, ~WriteState(p)
        PROVE  \/ \E w \in Workflow : queue'[w][ctx'.state] > 0
               \/ \E q \in Procs : Attends(q)' \/ Enters(q)'
    <2>1. \/ \E w \in Workflow : queue[w][ctx.state] > 0
          \/ \E q \in Procs : Attends(q) \/ Enters(q)
      BY <1>1, <1>2, <1>5 DEF PhaseAttended
    <2>2. ASSUME NEW w \in Workflow, queue[w][ctx.state] > 0
          PROVE  queue'[w][ctx.state] > 0 \/ Attends(p)'
      <3>1. CASE Call(p) \/ Step(p) \/ Crash(p)
        BY <1>1, <1>2, <1>5, <2>2, <3>1, JobsStay
      <3>2. ASSUME NEW v \in Workflow, NEW ph \in Phase, Callback(p, v, ph)
            PROVE  queue'[w][ctx.state] > 0 \/ Attends(p)'
        BY <1>1, <1>5, <2>2, <3>2, CallbackAttends
      <3>3. QED
        BY <1>5, <3>1, <3>2 DEF Acts
    <2>3. ASSUME NEW q \in Procs \ {p}, Attends(q) \/ Enters(q)
          PROVE  Attends(q)' \/ Enters(q)'
      <3>1. Still(q)
        BY <1>5, OthersStill
      <3>2. QED
        BY <1>5, <2>3, <3>1, StillUpdates DEF Still, Attends, Enters
    <2>4. Attends(p) => Attends(p)'
      BY <1>1, <1>2, <1>5, AttendantStays
    <2>5. Enters(p) => Enters(p)' \/ \E w \in Workflow : queue'[w][ctx.state] > 0
      BY <1>1, <1>2, <1>5, EntrantStays
    <2>6. QED
      BY <1>5, <2>1, <2>2, <2>3, <2>4, <2>5
  <1>6. ASSUME NEW p \in Procs, Acts(p)
        PROVE  ctx' = ctx \/ CreateContext(p) \/ WriteState(p)
    BY <1>6, RecordSteps DEF Quiet, Loads, SaveHistory
  <1>7. CASE AbandonedLockExpires \/ UNCHANGED vars
    <2>1. /\ ctx' = ctx /\ pc' = pc /\ req' = req /\ view' = view
          /\ queue' = queue
      BY <1>7 DEF AbandonedLockExpires, vars
    <2>2. \A q \in Procs : Updated(q)' = Updated(q)
      BY <2>1, StillUpdates
    <2>3. QED
      BY <1>1, <1>2, <2>1, <2>2 DEF PhaseAttended, Attends, Enters
  <1>8. CASE QueueStep
    <2>1. PICK r \in Procs : JobStalls(r)
      BY <1>2, <1>8 DEF QueueStep, LoseJob, Fault
    <2>2. /\ ctx' = ctx /\ pc' = pc /\ req' = req /\ view' = view
          /\ AddJob(req[r].wf, req[r].phase)
      BY <2>1 DEF JobStalls
    <2>3. \A w \in Workflow : queue[w][ctx.state] > 0
                               => queue'[w][ctx.state] > 0
      BY <1>1, <2>2, AddJobKeeps
    <2>4. \A q \in Procs : Updated(q)' = Updated(q)
      BY <2>2, StillUpdates
    <2>5. QED
      BY <1>1, <1>2, <2>2, <2>3, <2>4 DEF PhaseAttended, Attends, Enters
  <1>9. ~HeldLockExpires /\ ~RecordExpires
    BY <1>2 DEF HeldLockExpires, RecordExpires, Fault
  <1>10. QED
    BY <1>3, <1>4, <1>5, <1>6, <1>7, <1>8, <1>9, NextActs

-----------------------------------------------------------------------------
(* The theorems *)

\* The strengthening of the safety properties is inductive.
THEOREM Inductive == Spec => []InductiveInvariant
  <1>1. Init => InductiveInvariant
    <2> SUFFICES ASSUME Init PROVE InductiveInvariant
      OBVIOUS
    <2>1. TypeOK
      <3>1. ctx \in Context /\ audit \in Row
        BY NullsTyped DEF Init
      <3>2. req \in [Procs -> Request] /\ view \in [Procs -> Context]
        BY NullsTyped DEF Init
      <3>3. queue \in [Workflow -> [Phase -> Nat]]
        BY DEF Init
      <3>4. pc \in [Procs -> PC] /\ lock \in BOOLEAN /\ clean \in BOOLEAN
        BY DEF Init, PC
      <3>5. spent \in [Kind -> Nat] /\ spent["start"] <= MaxStarts
        BY ConstantsAssumption DEF Init, Kind
      <3>6. QED
        BY <3>1, <3>2, <3>3, <3>4, <3>5 DEF TypeOK
    <2>2. CallbackHasPhase
      BY DEF Init, CallbackHasPhase, NoRequest, None
    <2>3. WritesAreValidated
      BY DEF Init, WritesAreValidated
    <2>4. LockCovers
      BY DEF Init, LockCovers, MutualExclusion, Inside
    <2>5. RecordInStep
      BY DEF Init, RecordInStep, NoContext
    <2>6. FreshWorkflows
      BY DEF Init, FreshWorkflows, NoContext, NoRow, Kind
    <2>7. QED
      BY <2>1, <2>2, <2>3, <2>4, <2>5, <2>6 DEF InductiveInvariant
  <1>2. InductiveInvariant /\ [Next]_vars => InductiveInvariant'
    <2> SUFFICES ASSUME InductiveInvariant, [Next]_vars
                 PROVE  InductiveInvariant'
      OBVIOUS
    <2>1. TypeOK /\ CallbackHasPhase /\ WritesAreValidated
      BY DEF InductiveInvariant
    <2>2. TypeOK'
      BY <2>1, TypesKept
    <2>3. CallbackHasPhase'
      BY <2>1, CallbackHasPhaseKept
    <2>4. WritesAreValidated'
      BY <2>1, WritesAreValidatedKept
    <2>5. ASSUME clean' PROVE (LockCovers /\ RecordInStep /\ FreshWorkflows)'
      <3>1. LockCovers /\ RecordInStep /\ FreshWorkflows
        BY <2>1, <2>5, CleanIsPast DEF InductiveInvariant
      <3>2. QED
        BY <2>1, <2>2, <2>5, <3>1, LockCoversKept, RecordInStepKept,
           FreshWorkflowsKept
    <2>6. QED
      BY <2>2, <2>3, <2>4, <2>5 DEF InductiveInvariant
  <1>3. QED
    BY <1>1, <1>2, PTL DEF Spec

\* Every variable keeps its type, whatever faults strike.
THEOREM TypeCorrect == Spec => []TypeOK
  <1>1. InductiveInvariant => TypeOK
    BY DEF InductiveInvariant
  <1>2. QED
    BY <1>1, Inductive, PTL

\* As long as no lock key is deleted under its holder, two calls never run
\* between acquireLock and releaseLock at once.
THEOREM Exclusive == Spec => []ExclusiveWhileClean
  <1>1. InductiveInvariant => ExclusiveWhileClean
    BY DEF InductiveInvariant, ExclusiveWhileClean, LockCovers
  <1>2. QED
    BY <1>1, Inductive, PTL

\* As long as the locking holds, transition() and onPhaseFailed() write over
\* the record they read.
THEOREM NothingLost == Spec => []NoLostUpdate
  <1>1. InductiveInvariant => NoLostUpdate
    BY DEF InductiveInvariant, NoLostUpdate, RecordInStep
  <1>2. QED
    BY <1>1, Inductive, PTL

\* As long as the locking holds, the history table and Redis agree between
\* updates.
THEOREM HistoryAgrees == Spec => []AuditAgrees
  <1>1. InductiveInvariant => AuditAgrees
    BY DEF InductiveInvariant, AuditAgrees, RecordInStep, EndsAt
  <1>2. QED
    BY <1>1, Inductive, PTL

\* As long as the locking holds, each row of the history continues where the
\* row before it ended.
THEOREM HistoryIsAPath == Spec => AuditIsAPath
  <1>1. InductiveInvariant /\ [Next]_vars => [clean' => RowContinues]_audit
    <2> SUFFICES ASSUME InductiveInvariant, [Next]_vars, clean', audit' # audit
                 PROVE  RowContinues
      OBVIOUS
    <2>1. TypeOK /\ clean /\ RecordInStep
      BY CleanIsPast DEF InductiveInvariant
    <2>2. PICK p \in Procs : SaveHistory(p)
      <3>1. ASSUME NEW p \in Procs, Acts(p) PROVE SaveHistory(p)
        BY <2>1, <3>1, RecordSteps
           DEF Quiet, Loads, CreateContext, WriteState
      <3>2. QED
        BY <2>1, <3>1, NextActs, ExpiryStill
    <2>3. audit' = RowOf(p) /\ EndsAt(view[p])
      BY <2>1, <2>2 DEF SaveHistory, RecordInStep
    <2>4. QED
      BY <2>3 DEF RowOf, EndsAt, RowContinues
  <1>2. QED
    BY <1>1, Inductive, PTL DEF Spec, AuditIsAPath

\* The lifecycle reads the same tables.
LEMMA SameTables ==
    /\ Lifecycle!PipelineState = PipelineState
    /\ Lifecycle!TERMINAL_STATES = TERMINAL_STATES
    /\ Lifecycle!VALID_TRANSITIONS = VALID_TRANSITIONS
  BY DEF Lifecycle!PipelineState, Lifecycle!TERMINAL_STATES,
         Lifecycle!VALID_TRANSITIONS, PipelineState, TERMINAL_STATES,
         VALID_TRANSITIONS

\* As long as the locking holds, the record in Redis lives the life of
\* PipelineLifecycle: workflows replace none but finished ones, states follow
\* VALID_TRANSITIONS, retries are counted and bounded.
THEOREM Refinement == Spec => ImplementsLifecycle
  <1>1. Init => Lifecycle!Init
    BY DEF Init, Lifecycle!Init, NoContext, None
  <1>2. InductiveInvariant /\ InductiveInvariant' /\ [Next]_vars
            => [Lifecycle!Next]_(Lifecycle!lifecycle)
    <2> SUFFICES ASSUME InductiveInvariant, InductiveInvariant', [Next]_vars
                 PROVE  Lifecycle!Next \/ UNCHANGED Lifecycle!lifecycle
      OBVIOUS
    <2>1. TypeOK /\ TypeOK' /\ WritesAreValidated
      BY DEF InductiveInvariant
    <2>2. CASE ~clean'
      BY <2>1, <2>2 DEF TypeOK, Lifecycle!Next, Lifecycle!Breakdown
    <2>3. CASE clean'
      <3>1. clean /\ RecordInStep /\ FreshWorkflows
        BY <2>1, <2>3, CleanIsPast DEF InductiveInvariant
      <3>2. CASE ctx' = ctx
        BY <2>1, <2>3, <3>1, <3>2 DEF TypeOK, Lifecycle!lifecycle
      <3>3. ASSUME NEW p \in Procs, CreateContext(p)
            PROVE  Lifecycle!Promised
        <4>1. Vacant(ctx)
          BY <2>3, <3>3 DEF CreateContext
        <4>2. ctx'.state = "idle" /\ ctx'.wf # ctx.wf /\ ctx'.retry = 0
          BY <3>1, <3>3 DEF CreateContext, FreshWorkflows, NoContext
        <4>3. Lifecycle!Start
          <5>1. ctx.state \in {"none"} \cup Lifecycle!TERMINAL_STATES
            BY <4>1, SameTables DEF Vacant, None
          <5>2. QED
            BY <4>2, <5>1 DEF Lifecycle!Start
        <4>4. QED
          BY <2>3, <3>1, <4>3 DEF Lifecycle!Promised
      <3>4. ASSUME NEW p \in Procs, WriteState(p)
            PROVE  Lifecycle!Promised
        <4>1. ctx' = Updated(p) /\ view[p] = ctx /\ Validated(p) /\ ctx \in Context
          BY <2>1, <3>1, <3>4
             DEF WriteState, RecordInStep, WritesAreValidated, TypeOK
        <4>2. req[p].op = "fail" => Lifecycle!Retry
          BY <4>1 DEF Updated, Validated, Context, Lifecycle!Retry
        <4>3. req[p].op # "fail" => Lifecycle!Move
          <5>1. SUFFICES ASSUME req[p].op # "fail" PROVE Lifecycle!Move
            OBVIOUS
          <5>2. /\ ctx'.state = req[p].target
                /\ ctx'.wf = ctx.wf /\ ctx'.retry = ctx.retry
            BY <4>1, <5>1 DEF Updated, Context
          <5>3. /\ ctx.state \in Lifecycle!PipelineState
                /\ ctx'.state \in Lifecycle!VALID_TRANSITIONS[ctx.state]
            BY <4>1, <5>1, <5>2, SameTables DEF Validated
          <5>4. QED
            BY <5>2, <5>3 DEF Lifecycle!Move
        <4>4. QED
          BY <2>3, <3>1, <4>2, <4>3 DEF Lifecycle!Promised
      <3>5. ASSUME NEW p \in Procs, Acts(p), ctx' # ctx
            PROVE  CreateContext(p) \/ WriteState(p)
        BY <2>1, <2>3, <3>5, RecordSteps DEF Quiet, Loads, SaveHistory
      <3>6. ASSUME RecordExpires PROVE Lifecycle!Promised
        <4>1. ctx.state \in Lifecycle!PipelineState
          BY <2>1, <3>6, SameTables
             DEF RecordExpires, TypeOK, Context, StateOrNone
        <4>2. ctx'.wf = 0 /\ ctx'.state = "none" /\ ctx'.retry = 0
          BY <3>6 DEF RecordExpires, NoContext, None
        <4>3. Lifecycle!Forget
          BY <4>1, <4>2 DEF Lifecycle!Forget
        <4>4. QED
          BY <2>3, <3>1, <4>3 DEF Lifecycle!Promised
      <3>7. QED
        BY <3>2, <3>3, <3>4, <3>5, <3>6, NextActs, ExpiryStill
           DEF Lifecycle!Next
    <2>4. QED
      BY <2>2, <2>3
  <1>3. QED
    BY <1>1, <1>2, Inductive, PTL DEF Spec, ImplementsLifecycle, Lifecycle!Spec
\* Unless the coordinator queues a handoff, a pipeline whose locking holds and
\* that met no fault is never stranded: when nobody is at work on it, the phase
\* it is in has a job.
THEOREM NothingStranded ==
    ASSUME "queued" \notin HandoffAnswers
    PROVE  Spec => []NoStrandedPhase
  <1>1. Init => AttendedInvariant \/ ~InductiveInvariant
    BY DEF Init, AttendedInvariant, WorkflowKnown, PhaseAttended, NoContext,
           Phase, None
  <1>2. AttendedInvariant /\ [Next]_vars /\ InductiveInvariant'
            => AttendedInvariant'
    <2> SUFFICES ASSUME AttendedInvariant, [Next]_vars, InductiveInvariant', clean'
                 PROVE  (WorkflowKnown /\ PhaseAttended)'
      BY DEF AttendedInvariant
    <2>1. TypeOK /\ WritesAreValidated
      BY DEF AttendedInvariant, InductiveInvariant
    <2>2. clean
      BY <2>1, CleanIsPast
    <2>3. RecordInStep /\ FreshWorkflows /\ WorkflowKnown /\ PhaseAttended
      BY <2>2 DEF AttendedInvariant, InductiveInvariant
    <2>4. QED
      BY <2>1, <2>3, WorkflowKnownKept, PhaseAttendedKept
  <1>3. AttendedInvariant => NoStrandedPhase
    BY DEF AttendedInvariant, NoStrandedPhase, PhaseAttended, Attends, Enters
  <1>4. QED
    BY <1>1, <1>2, <1>3, Inductive, PTL DEF Spec
=============================================================================
