------------------------ MODULE PipelineStateMachine ------------------------
(***************************************************************************)
(* The orchestrator's state machine for the pipeline of ONE project        *)
(* (PipelineStateMachineService, PipelineStateStore and                    *)
(* PipelineRecoveryService): every key, lock and row it touches belongs to *)
(* a single project, so projects do not interact here.                     *)
(*                                                                         *)
(* A process is one asynchronous call on some API instance: a user request *)
(* to start, pause or resume, a callback of the job processor, or the      *)
(* recovery scan of an instance that boots.  An action is the code between *)
(* two awaits, so calls interleave where the Redis, PostgreSQL and queue   *)
(* round trips let them.  Processes share                                  *)
(*   ctx    the Redis record pipeline:state:<project>,                     *)
(*   lock   the Redis key pipeline:lock:<project> (no owner is stored),    *)
(*   audit  the latest row of the history table, the only one code reads,  *)
(*   queue  the phase jobs that are queued or being worked on.             *)
(*                                                                         *)
(* Left out: activeAgentId/Type and the story (never compared here), the   *)
(* events (emitted by transition(), read by no code modelled here),        *)
(* timestamps (a pipeline's age is a choice of the recovery scan), the     *)
(* contents of metadata but for pausedFrom, and a disconnected Redis.      *)
(***************************************************************************)
EXTENDS Naturals, PipelineStates

CONSTANTS
    Procs,          \* the asynchronous calls that may be in flight at once
    MaxRetries,     \* context.maxRetries, 3 in startPipeline
    MaxStarts,      \* bound: accepted start requests
    MaxPauses,      \* bound: accepted pause requests
    MaxResumes,     \* bound: accepted resume requests
    MaxScans,       \* bound: instances that boot and scan
    MaxStalls,      \* bound: jobs that Bull takes for stalled
    MaxFaults,      \* bound: faults, of the kinds in Faults
    HandoffAnswers, \* what the HandoffCoordinator may answer to a callback
    Faults          \* what may go wrong around the code

Answer == {"handoff", "queued", "rejected", "escalated", "error"}

\* expiry  : a lock outlives its 30 s TTL while its holder still works
\* timeout : a caller polls a held lock for 5 s and gives up
\* crash   : an instance dies between two awaits
\* audit   : saving a history row throws
\* enqueue : addJob throws, which onStateEnter swallows
\* forget  : the record outlives its TTL, 30 days, or 7 once it is over
\* lose    : a job is cancelled, or dies with the worker that was to report it
Fault == {"expiry", "timeout", "crash", "audit", "enqueue", "forget", "lose"}

ASSUME ConstantsAssumption ==
    /\ MaxRetries \in Nat
    /\ MaxStarts \in Nat
    /\ MaxPauses \in Nat
    /\ MaxResumes \in Nat
    /\ MaxScans \in Nat
    /\ MaxStalls \in Nat
    /\ MaxFaults \in Nat
    /\ HandoffAnswers \subseteq Answer
    /\ Faults \subseteq Fault

VARIABLES
    ctx,        \* the pipeline context in Redis, NoContext if there is none
    lock,       \* TRUE while the lock key exists
    audit,      \* the latest row of pipeline_state_history
    queue,      \* queue[w][ph]: outstanding jobs for phase ph of workflow w
    pc,         \* where each process is
    req,        \* what each process was asked to do
    view,       \* the context a process loaded and has not let go of
    spent,      \* how much of each bound is used up
    clean       \* history variable: FALSE once the locking broke down

vars == <<ctx, lock, audit, queue, pc, req, view, spent, clean>>

-----------------------------------------------------------------------------
(* Types and null records *)

None == "none"
StateOrNone == PipelineState \cup {None}
Workflow == 1 .. MaxStarts
WorkflowOrNone == 0 .. MaxStarts

Context == [wf : WorkflowOrNone, state : StateOrNone, prev : StateOrNone,
            retry : 0 .. MaxRetries, pausedFrom : StateOrNone]
NoContext == [wf |-> 0, state |-> None, prev |-> None,
              retry |-> 0, pausedFrom |-> None]

Row == [wf : WorkflowOrNone, prev : StateOrNone, new : StateOrNone]
NoRow == [wf |-> 0, prev |-> None, new |-> None]

\* start, pause, resume : user requests        complete, fail : job callbacks
\* fallback  : the second transition of onPhaseComplete, after an error
\* exhausted : the transition to FAILED of onPhaseFailed
\* stale     : the transition to FAILED of the recovery scan
Op == {"start", "pause", "resume", "complete", "fallback",
       "fail", "exhausted", "stale"}

\* target and pausedFrom are what transition() is called with; wf is the
\* workflow of a start or of the job called back about, phase that job's.
Request == [op : Op \cup {None}, target : StateOrNone, pausedFrom : StateOrNone,
            wf : WorkflowOrNone, phase : Phase \cup {None}]
NoRequest == [op |-> None, target |-> None, pausedFrom |-> None,
              wf |-> 0, phase |-> None]

PC == {"idle",                                              \* no call
       "create",                                            \* startPipeline
       "wait", "load", "write", "audit", "enter", "release", "abort",
       "handover", "rerelease",                             \* onPhaseFailed
       "compare", "repair", "listlocks", "orphan", "force"} \* recovery

\* What is bounded, and by what.
Kind == {"start", "pause", "resume", "scan", "stall", "fault"}
Bound == [start |-> MaxStarts, pause |-> MaxPauses, resume |-> MaxResumes,
          scan |-> MaxScans, stall |-> MaxStalls, fault |-> MaxFaults]

TypeOK ==
    /\ ctx \in Context
    /\ lock \in BOOLEAN
    /\ audit \in Row
    /\ queue \in [Workflow -> [Phase -> Nat]]
    /\ pc \in [Procs -> PC]
    /\ req \in [Procs -> Request]
    /\ view \in [Procs -> Context]
    /\ spent \in [Kind -> Nat]
    /\ spent["start"] <= MaxStarts
    /\ clean \in BOOLEAN

Init ==
    /\ ctx = NoContext
    /\ lock = FALSE
    /\ audit = NoRow
    /\ queue = [w \in Workflow |-> [ph \in Phase |-> 0]]
    /\ pc = [p \in Procs |-> "idle"]
    /\ req = [p \in Procs |-> NoRequest]
    /\ view = [p \in Procs |-> NoContext]
    /\ spent = [k \in Kind |-> 0]
    /\ clean = TRUE

-----------------------------------------------------------------------------
(* Helpers *)

\* Operators named ...Bug are not part of the specification.  Each is the
\* definition below it with a mistake a programmer could make, and is there to
\* show which property would notice.

\* A paused pipeline is taken for one that is over.
VacantBug(c) == c.state \in {None, "paused"} \cup TERMINAL_STATES

\* No pipeline is active: none is recorded, or the recorded one is over.
Vacant(c) == c.state \in {None} \cup TERMINAL_STATES

\* The steps that run between acquireLock and releaseLock.
Inside(p) == pc[p] \in {"load", "write", "audit", "enter",
                        "release", "abort", "handover"}

\* Some other process is between acquiring and releasing the lock.
OtherInside(p) == \E q \in Procs \ {p} : Inside(q)

\* Some process has acted on ctx and not yet brought the rest in line.
MidUpdate == \E q \in Procs : pc[q] \in {"write", "audit"}

GoTo(p, label) == pc' = [pc EXCEPT ![p] = label]

Spend(k) ==
    /\ spent[k] < Bound[k]
    /\ spent' = [spent EXCEPT ![k] = @ + 1]

Fails(fault) == fault \in Faults /\ Spend("fault")

AddJob(w, ph) == queue' = [queue EXCEPT ![w][ph] = @ + 1]

TakeJob(w, ph) ==
    /\ queue[w][ph] > 0
    /\ queue' = [queue EXCEPT ![w][ph] = @ - 1]

\* The call is over: it returns, or its error reaches a caller that only
\* logs it.  Two callers go on after transition(): onPhaseFailed runs its own
\* finally block, the recovery scan looks for orphaned locks.
Leave(p) ==
    /\ pc' = [pc EXCEPT ![p] = CASE req[p].op = "exhausted" -> "rerelease"
                                 [] req[p].op = "stale"     -> "listlocks"
                                 [] OTHER                   -> "idle"]
    /\ req' = [req EXCEPT ![p] = NoRequest]
    /\ view' = [view EXCEPT ![p] = NoContext]

\* transition() throws.  onPhaseComplete catches whatever was thrown and calls
\* transition() once more, for the phase's regular successor.
Throw(p) ==
    \/ /\ req[p].op = "complete"
       /\ GoTo(p, "wait")
       /\ req' = [req EXCEPT ![p].op = "fallback",
                             ![p].target = PHASE_PROGRESSION[req[p].phase],
                             ![p].pausedFrom = None]
       /\ view' = [view EXCEPT ![p] = NoContext]
    \/ /\ req[p].op # "complete"
       /\ Leave(p)

\* releaseLock: DEL, whoever set the key.
DeleteLock(p) ==
    /\ lock' = FALSE
    /\ clean' = (clean /\ ~OtherInside(p))

\* A retry is not counted.
UncountedBug(p) ==
    IF req[p].op = "fail"
    THEN view[p]
    ELSE [view[p] EXCEPT !.prev = view[p].state,
                         !.state = req[p].target,
                         !.pausedFrom = IF req[p].pausedFrom = None
                                        THEN @ ELSE req[p].pausedFrom]

\* A transition starts counting retries anew.
RecountedBug(p) ==
    IF req[p].op = "fail"
    THEN [view[p] EXCEPT !.retry = @ + 1]
    ELSE [view[p] EXCEPT !.prev = view[p].state,
                         !.state = req[p].target,
                         !.retry = 0]

\* The context that p writes: transition() moves the state and merges
\* pausedFrom into the metadata, onPhaseFailed counts a retry.
Updated(p) ==
    IF req[p].op = "fail"
    THEN [view[p] EXCEPT !.retry = @ + 1]
    ELSE [view[p] EXCEPT !.prev = view[p].state,
                         !.state = req[p].target,
                         !.pausedFrom = IF req[p].pausedFrom = None
                                        THEN @ ELSE req[p].pausedFrom]

-----------------------------------------------------------------------------
(* Calls: what happens before the lock *)

\* startPipeline: the check for an active pipeline.
StartPipeline(p) ==
    /\ pc[p] = "idle"
    /\ Vacant(ctx)
    /\ Spend("start")
    /\ GoTo(p, "create")
    /\ req' = [req EXCEPT ![p] = [NoRequest EXCEPT
                    !.op = "start", !.target = "planning",
                    !.wf = spent["start"] + 1]]
    /\ UNCHANGED <<ctx, lock, audit, queue, view, clean>>

\* startPipeline: setState of the new IDLE context, with no lock held.
CreateContext(p) ==
    /\ pc[p] = "create"
    /\ ctx' = [NoContext EXCEPT !.wf = req[p].wf, !.state = "idle"]
    /\ clean' = (clean /\ Vacant(ctx) /\ ~MidUpdate)
    /\ GoTo(p, "wait")
    /\ UNCHANGED <<lock, audit, queue, req, view, spent>>

\* pausePipeline: the pre-flight read, whose state goes into pausedFrom.
PausePipeline(p) ==
    /\ pc[p] = "idle"
    /\ ctx.state \notin {None, "paused"}
    /\ Spend("pause")
    /\ GoTo(p, "wait")
    /\ req' = [req EXCEPT ![p] = [NoRequest EXCEPT
                    !.op = "pause", !.target = "paused",
                    !.pausedFrom = ctx.state]]
    /\ UNCHANGED <<ctx, lock, audit, queue, view, clean>>

ResumeState ==
    CASE ctx.pausedFrom # None -> ctx.pausedFrom
      [] ctx.pausedFrom = None /\ ctx.prev # None -> ctx.prev
      [] OTHER -> "planning"

\* resumePipeline: the pre-flight read, which decides where to resume.
ResumePipeline(p) ==
    /\ pc[p] = "idle"
    /\ ctx.state = "paused"
    /\ Spend("resume")
    /\ GoTo(p, "wait")
    /\ req' = [req EXCEPT ![p] = [NoRequest EXCEPT
                    !.op = "resume", !.target = ResumeState]]
    /\ UNCHANGED <<ctx, lock, audit, queue, view, clean>>

\* A job ends well and the processor calls onPhaseComplete: the coordinator is
\* asked, before any lock, what to do.  A handoff moves to the next phase; a
\* rejection by QA goes back to implementing, or to PAUSED once the limit of
\* rejections is reached.  If the coordinator throws, whatever the verdict was,
\* the fallback moves on to the regular successor.  Without a record nobody is
\* asked.
PhaseComplete(p, w, ph) ==
    /\ pc[p] = "idle"
    /\ TakeJob(w, ph)
    /\ GoTo(p, "wait")
    /\ \/ /\ "handoff" \in HandoffAnswers
          /\ req' = [req EXCEPT ![p] = [NoRequest EXCEPT
                         !.op = "complete", !.wf = w, !.phase = ph,
                         !.target = PHASE_PROGRESSION[ph]]]
       \/ /\ ctx.state # None
          /\ ph = "qa" /\ "rejected" \in HandoffAnswers
          /\ req' = [req EXCEPT ![p] = [NoRequest EXCEPT
                         !.op = "complete", !.wf = w, !.phase = ph,
                         !.target = "implementing"]]
       \/ /\ ctx.state # None
          /\ ph = "qa" /\ "escalated" \in HandoffAnswers
          /\ req' = [req EXCEPT ![p] = [NoRequest EXCEPT
                         !.op = "complete", !.wf = w, !.phase = ph,
                         !.target = "paused", !.pausedFrom = "qa"]]
       \/ /\ "error" \in HandoffAnswers
          /\ req' = [req EXCEPT ![p] = [NoRequest EXCEPT
                         !.op = "fallback", !.wf = w, !.phase = ph,
                         !.target = PHASE_PROGRESSION[ph]]]
    /\ UNCHANGED <<ctx, lock, audit, view, spent, clean>>

\* onPhaseComplete, early return: the coordinator queued the handoff, the job
\* is done and the pipeline stays where it is.
HandoffQueued(p, w, ph) ==
    /\ pc[p] = "idle"
    /\ "queued" \in HandoffAnswers
    /\ ctx.state # None
    /\ TakeJob(w, ph)
    /\ UNCHANGED <<ctx, lock, audit, pc, req, view, spent, clean>>

\* A job fails for the last time and the processor calls onPhaseFailed.
PhaseFailed(p, w, ph) ==
    /\ pc[p] = "idle"
    /\ TakeJob(w, ph)
    /\ GoTo(p, "wait")
    /\ req' = [req EXCEPT ![p] = [NoRequest EXCEPT
                    !.op = "fail", !.wf = w, !.phase = ph]]
    /\ UNCHANGED <<ctx, lock, audit, view, spent, clean>>

-----------------------------------------------------------------------------
(* transition() and onPhaseFailed(): the steps under the lock *)

\* SET without NX.
AcquireBug(p) ==
    /\ pc[p] = "wait"
    /\ lock' = TRUE
    /\ GoTo(p, "load")
    /\ UNCHANGED <<ctx, audit, queue, req, view, spent, clean>>

\* acquireLockWithRetry: SET NX finds no key.
AcquireLock(p) ==
    /\ pc[p] = "wait"
    /\ ~lock
    /\ lock' = TRUE
    /\ GoTo(p, "load")
    /\ UNCHANGED <<ctx, audit, queue, req, view, spent, clean>>

\* acquireLockWithRetry: five seconds of polling a held lock.  transition()
\* throws PipelineLockError; onPhaseFailed returns.
LockTimeout(p) ==
    /\ pc[p] = "wait"
    /\ lock
    /\ Fails("timeout")
    /\ Throw(p)
    /\ UNCHANGED <<ctx, lock, audit, queue, clean>>

Allowed(c, target) ==
    c.state # None /\ target \in VALID_TRANSITIONS[c.state]

\* transition(): load the state, refuse what is absent or not allowed.
LoadState(p) ==
    /\ pc[p] = "load"
    /\ req[p].op # "fail"
    /\ \/ /\ Allowed(ctx, req[p].target)
          /\ view' = [view EXCEPT ![p] = ctx]
          /\ GoTo(p, "write")
       \/ /\ ~Allowed(ctx, req[p].target)
          /\ UNCHANGED view
          /\ GoTo(p, "abort")
    /\ UNCHANGED <<ctx, lock, audit, queue, req, spent, clean>>

\* One retry too many.
MayRetryBug(c) == c.retry <= MaxRetries

MayRetry(c) == c.retry < MaxRetries

\* onPhaseFailed: load the state and decide between retry and failure.  The
\* failure branch gives the lock back and calls transition(FAILED).
LoadFailed(p) ==
    /\ pc[p] = "load"
    /\ req[p].op = "fail"
    /\ \/ /\ ctx.state = None
          /\ GoTo(p, "abort")
          /\ UNCHANGED <<req, view>>
       \/ /\ ctx.state # None
          /\ MayRetry(ctx)
          /\ view' = [view EXCEPT ![p] = ctx]
          /\ GoTo(p, "write")
          /\ UNCHANGED req
       \/ /\ ctx.state # None
          /\ ~MayRetry(ctx)
          /\ req' = [req EXCEPT ![p].op = "exhausted", ![p].target = "failed"]
          /\ GoTo(p, "handover")
          /\ UNCHANGED view
    /\ UNCHANGED <<ctx, lock, audit, queue, spent, clean>>

\* transition(FAILED) does its work without taking the lock again.
HandoverBug(p) ==
    /\ pc[p] = "handover"
    /\ DeleteLock(p)
    /\ GoTo(p, "load")
    /\ UNCHANGED <<ctx, audit, queue, req, view, spent>>

\* onPhaseFailed gives the lock back before it calls transition(FAILED).
HandoverLock(p) ==
    /\ pc[p] = "handover"
    /\ DeleteLock(p)
    /\ GoTo(p, "wait")
    /\ UNCHANGED <<ctx, audit, queue, req, view, spent>>

WriteState(p) ==
    /\ pc[p] = "write"
    /\ ctx' = Updated(p)
    /\ GoTo(p, "audit")
    /\ UNCHANGED <<lock, audit, queue, req, view, spent, clean>>

\* A retry is recorded as the failure it makes up for.
RetryRowBug(p) ==
    [wf |-> view[p].wf, prev |-> view[p].state,
     new |-> IF req[p].op = "fail" THEN "failed" ELSE Updated(p).state]

\* The row leads from the state before the one that is left.
StaleRowBug(p) ==
    [wf |-> view[p].wf, prev |-> view[p].prev, new |-> Updated(p).state]

\* The row p saves.
RowOf(p) ==
    [wf |-> view[p].wf, prev |-> view[p].state, new |-> Updated(p).state]

SaveHistory(p) ==
    /\ pc[p] = "audit"
    /\ audit' = RowOf(p)
    /\ GoTo(p, "enter")
    /\ UNCHANGED <<ctx, lock, queue, req, view, spent, clean>>

SaveHistoryFails(p) ==
    /\ pc[p] = "audit"
    /\ Fails("audit")
    /\ GoTo(p, "abort")
    /\ clean' = FALSE
    /\ UNCHANGED <<ctx, lock, audit, queue, req, view>>

\* The job of a paused phase is taken to be still there when it resumes.
EnterBug(p) ==
    /\ pc[p] = "enter"
    /\ GoTo(p, "release")
    /\ LET entered == Updated(p).state
       IN  \/ /\ entered \in Phase /\ view[p].state # "paused"
              /\ AddJob(view[p].wf, entered)
           \/ /\ entered \notin Phase \/ view[p].state = "paused"
              /\ UNCHANGED queue
    /\ UNCHANGED <<ctx, lock, audit, req, view, spent, clean>>

\* onStateEnter: a phase gets a job for its agent.
EnterState(p) ==
    /\ pc[p] = "enter"
    /\ GoTo(p, "release")
    /\ LET entered == Updated(p).state
       IN  \/ entered \in Phase /\ AddJob(view[p].wf, entered)
           \/ entered \notin Phase /\ UNCHANGED queue
    /\ UNCHANGED <<ctx, lock, audit, req, view, spent, clean>>

\* onStateEnter: addJob throws, the error is logged and the transition counts
\* as done.
EnterStateFails(p) ==
    /\ pc[p] = "enter"
    /\ Updated(p).state \in Phase
    /\ Fails("enqueue")
    /\ GoTo(p, "release")
    /\ UNCHANGED <<ctx, lock, audit, queue, req, view, clean>>

\* The finally block after a transition or a retry that worked.
ReleaseLock(p) ==
    /\ pc[p] = "release"
    /\ DeleteLock(p)
    /\ Leave(p)
    /\ UNCHANGED <<ctx, audit, queue, spent>>

\* The finally block on the way out of an error.
AbortTransition(p) ==
    /\ pc[p] = "abort"
    /\ DeleteLock(p)
    /\ Throw(p)
    /\ UNCHANGED <<ctx, audit, queue, spent>>

\* The finally block of onPhaseFailed, reached after transition(FAILED) has
\* released the lock, or failed to get it.
ReleaseAgain(p) ==
    /\ pc[p] = "rerelease"
    /\ DeleteLock(p)
    /\ GoTo(p, "idle")
    /\ UNCHANGED <<ctx, audit, queue, req, view, spent>>

-----------------------------------------------------------------------------
(* PipelineRecoveryService: the scan of an instance that boots *)

\* recoverActivePipelines: an active pipeline is failed if it is two hours
\* old, and otherwise compared with the history table.
RecoverScan(p) ==
    /\ pc[p] = "idle"
    /\ Spend("scan")
    /\ \/ /\ ~Vacant(ctx)
          /\ req' = [req EXCEPT ![p] = [NoRequest EXCEPT
                          !.op = "stale", !.target = "failed"]]
          /\ GoTo(p, "wait")
          /\ UNCHANGED view
       \/ /\ ~Vacant(ctx)
          /\ view' = [view EXCEPT ![p] = ctx]
          /\ GoTo(p, "compare")
          /\ UNCHANGED req
       \/ /\ Vacant(ctx)
          /\ GoTo(p, "listlocks")
          /\ UNCHANGED <<req, view>>
    /\ UNCHANGED <<ctx, lock, audit, queue, clean>>

\* reconcileWithDatabase: the latest row of the project, of any workflow.
CompareHistory(p) ==
    /\ pc[p] = "compare"
    /\ \/ /\ audit # NoRow /\ audit.new # view[p].state
          /\ view' = [view EXCEPT ![p].state = audit.new]
          /\ GoTo(p, "repair")
       \/ /\ audit = NoRow \/ audit.new = view[p].state
          /\ view' = [view EXCEPT ![p] = NoContext]
          /\ GoTo(p, "listlocks")
    /\ UNCHANGED <<ctx, lock, audit, queue, req, spent, clean>>

\* reconcileWithDatabase: the whole context is written back, with no lock.
RepairState(p) ==
    /\ pc[p] = "repair"
    /\ ctx' = view[p]
    /\ view' = [view EXCEPT ![p] = NoContext]
    /\ GoTo(p, "listlocks")
    /\ clean' = FALSE
    /\ UNCHANGED <<lock, audit, queue, req, spent>>

\* releaseOrphanedLocks, in its three round trips: list the lock keys ...
ListLocks(p) ==
    /\ pc[p] = "listlocks"
    /\ GoTo(p, IF lock THEN "orphan" ELSE "idle")
    /\ UNCHANGED <<ctx, lock, audit, queue, req, view, spent, clean>>

\* ... look at the pipeline of a key ...
CheckOrphan(p) ==
    /\ pc[p] = "orphan"
    /\ GoTo(p, IF Vacant(ctx) THEN "force" ELSE "idle")
    /\ UNCHANGED <<ctx, lock, audit, queue, req, view, spent, clean>>

\* ... and delete the key of a pipeline that is absent or over.
ForceRelease(p) ==
    /\ pc[p] = "force"
    /\ DeleteLock(p)
    /\ GoTo(p, "idle")
    /\ UNCHANGED <<ctx, audit, queue, req, view, spent>>

-----------------------------------------------------------------------------
(* The environment *)

\* SET without PX: nothing drops the key.
ExpiryBug == FALSE

\* Redis drops the lock key after its TTL: the holder died ...
AbandonedLockExpires ==
    /\ lock
    /\ \A p \in Procs : ~Inside(p)
    /\ lock' = FALSE
    /\ UNCHANGED <<ctx, audit, queue, pc, req, view, spent, clean>>

\* ... or is still at work.
HeldLockExpires ==
    /\ lock
    /\ \E p \in Procs : Inside(p)
    /\ Fails("expiry")
    /\ lock' = FALSE
    /\ clean' = FALSE
    /\ UNCHANGED <<ctx, audit, queue, pc, req, view>>

\* Redis drops the record after its TTL; no call takes that long.
RecordExpires ==
    /\ ctx.state # None
    /\ \A p \in Procs : pc[p] = "idle"
    /\ Fails("forget")
    /\ ctx' = NoContext
    /\ UNCHANGED <<lock, audit, queue, pc, req, view, clean>>

\* The instance that runs p dies: p's locals are gone, the lock key, the
\* record and the rows stay.  Bull finds a job whose callback had not returned
\* stalled and delivers it again; a failure callback runs after the job is
\* marked failed and is lost.
Crash(p) ==
    /\ Fails("crash")
    /\ pc[p] # "idle"
    /\ IF req[p].op \in {"complete", "fallback"}
       THEN AddJob(req[p].wf, req[p].phase)
       ELSE UNCHANGED queue
    /\ GoTo(p, "idle")
    /\ req' = [req EXCEPT ![p] = NoRequest]
    /\ view' = [view EXCEPT ![p] = NoContext]
    /\ clean' = (clean /\ pc[p] # "audit")
    /\ UNCHANGED <<ctx, lock, audit>>

\* Bull takes a job for stalled whose completion is being reported: another
\* worker runs it as well and will report it once more, whatever the pipeline
\* has come to by then.
JobStalls(p) ==
    /\ req[p].op \in {"complete", "fallback"}
    /\ Spend("stall")
    /\ AddJob(req[p].wf, req[p].phase)
    /\ UNCHANGED <<ctx, lock, audit, pc, req, view, clean>>

\* Nobody will hear of a job again.
LoseJob(w, ph) ==
    /\ Fails("lose")
    /\ TakeJob(w, ph)
    /\ UNCHANGED <<ctx, lock, audit, pc, req, view, clean>>

-----------------------------------------------------------------------------
(* Specification *)

Call(p) == StartPipeline(p) \/ PausePipeline(p) \/ ResumePipeline(p)
               \/ RecoverScan(p)

Callback(p, w, ph) ==
    PhaseComplete(p, w, ph) \/ HandoffQueued(p, w, ph) \/ PhaseFailed(p, w, ph)

Step(p) ==
    \/ CreateContext(p)
    \/ AcquireLock(p)
    \/ LockTimeout(p)
    \/ LoadState(p)
    \/ LoadFailed(p)
    \/ HandoverLock(p)
    \/ WriteState(p)
    \/ SaveHistory(p)
    \/ SaveHistoryFails(p)
    \/ EnterState(p)
    \/ EnterStateFails(p)
    \/ ReleaseLock(p)
    \/ AbortTransition(p)
    \/ ReleaseAgain(p)
    \/ CompareHistory(p)
    \/ RepairState(p)
    \/ ListLocks(p)
    \/ CheckOrphan(p)
    \/ ForceRelease(p)

QueueStep ==
    \/ \E p \in Procs : JobStalls(p)
    \/ \E w \in Workflow, ph \in Phase : LoseJob(w, ph)

Next ==
    \/ \E p \in Procs : Call(p) \/ Step(p) \/ Crash(p)
    \/ \E p \in Procs, w \in Workflow, ph \in Phase : Callback(p, w, ph)
    \/ QueueStep
    \/ AbandonedLockExpires
    \/ HeldLockExpires
    \/ RecordExpires

Spec == Init /\ [][Next]_vars

\* A call that awaits goes on, a job that is queued ends one way or the other
\* (its agent's session is bounded in time, its attempts in number), and Redis
\* honours the TTL of a key.  Nobody has to request anything.
Fairness ==
    /\ \A p \in Procs : WF_vars(Step(p))
    /\ \A w \in Workflow, ph \in Phase :
           WF_vars(\E p \in Procs : Callback(p, w, ph))
    /\ WF_vars(AbandonedLockExpires)

FairSpec == Spec /\ Fairness
-----------------------------------------------------------------------------
(* Properties *)

\* Two calls never run between acquireLock and releaseLock at once: what the
\* per-project lock is for.  The code does not keep it (ReleaseAgain).
MutualExclusion ==
    \A p, q \in Procs : Inside(p) /\ Inside(q) => p = q

\* As long as no key was deleted under its holder, the lock excludes.
ExclusiveWhileClean == clean => MutualExclusion

\* As long as nothing broke the locking, a call that is about to write the
\* record has the record as it is: no update is lost in
\* load-modify-store of transition() and onPhaseFailed().
NoLostUpdate ==
    clean => \A p \in Procs : pc[p] = "write" => view[p] = ctx

\* As long as nothing broke the locking, the history table and Redis agree
\* whenever no call is between its two writes, so that recovery, which takes
\* the table for the truth, would change nothing.
AuditAgrees ==
    (clean /\ ctx.state \notin {None, "idle"} /\ \A p \in Procs : pc[p] # "audit")
        => audit.wf = ctx.wf /\ audit.new = ctx.state

\* The rows of a workflow form a path that starts in IDLE: each continues
\* where the one before it ended.
RowContinues ==
    IF audit'.wf = audit.wf THEN audit'.prev = audit.new
                            ELSE audit'.prev = "idle"
AuditIsAPath == [][clean' => RowContinues]_audit

\* Everybody is done and no fault has struck: a pipeline that is in a phase has
\* a job that will finish the phase.
NoStrandedPhase ==
    (/\ clean /\ spent["fault"] = 0
     /\ \A p \in Procs : pc[p] = "idle"
     /\ ctx.state \in Phase)
        => \E w \in Workflow : queue[w][ctx.state] > 0

\* The lock key does not outlive its holder for good, whatever crashes.
LockIsFreed == lock ~> ~lock

\* Unless a fault strikes, a pipeline that reached a phase comes to an end or
\* to a pause: jobs, retries and handovers do not go round in circles, and no
\* two calls wait for each other.
PhasesEnd ==
    [](spent["fault"] = 0)
        => (ctx.state \in Phase ~> ctx.state \in TERMINAL_STATES \cup {"paused"})

-----------------------------------------------------------------------------
(* What the comments of the code promise and the code does not keep *)

\* pausePipeline "stores the current state in metadata so it can be restored
\* on resume".
ResumeRestores == ctx.state = "paused" => ResumeState = ctx.prev

\* startPipeline "throws ConflictException if a pipeline is already active for
\* the project": the record of an active pipeline is never replaced by that of
\* another workflow.
NeverReplacesActive == [][ctx'.wf # ctx.wf => Vacant(ctx)]_ctx

\* recoverActivePipelines: "if stateEnteredAt < 2 hours ago: recover (keep
\* state)": a young pipeline that is active is still active after its scan.
RecoveryKeepsActive ==
    [][\A p \in Procs : (pc[p] = "repair" /\ pc'[p] = "listlocks" /\ ~Vacant(ctx))
           => ~Vacant(ctx')]_vars
=============================================================================
