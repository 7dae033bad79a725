-------------------------- MODULE FailureRecovery --------------------------
(***************************************************************************)
(* Failure detection and recovery: AgentFailureDetectorService, which      *)
(* turns what is seen of a session into failures, SessionHealthMonitor-    *)
(* Service, which notices silence, CheckpointService, and PipelineFailure- *)
(* RecoveryService, whose handler answers each failure on its own: it      *)
(* recovers from a checkpoint until the retries of the project are used    *)
(* up, and then pauses the pipeline for the user.                          *)
(*                                                                         *)
(* A handler runs up to its first await inside the event that raises the   *)
(* failure, and gives way at each await.  It reads the retries first and   *)
(* writes them last.  Nothing but the end of the process stops it: Redis-  *)
(* Service logs a failed command and answers as if nothing was stored.     *)
(*                                                                         *)
(* The sessions are those of one project and one story; what no one has    *)
(* registered fails in the name of a project "unknown".  The pipeline is   *)
(* reduced to running, paused and failed (PipelineStateMachine has the     *)
(* rest).  The tiers of a recovery differ in what they record only, and    *)
(* are not told apart; nor are the entries of the history.                 *)
(***************************************************************************)
EXTENDS Integers, Sequences, FiniteSets, FiniteSetsExt

CONSTANTS
    Sessions,           \* CLI sessions, each started once
    MaxRetries,         \* DEFAULT_MAX_RECOVERY_RETRIES
    ApiErrorThreshold,  \* API_ERROR_THRESHOLD
    LoopThreshold,      \* FILE_MODIFICATION_LOOP_THRESHOLD
    Scenarios           \* what may happen in a behaviour

Kind == {"crash", "api", "rate", "loop", "stuck", "timeout"}

\* Bounds: the kinds of failures and how many of them, checkpoints, overrides
\* of the user, and faults.
Scenario == [kinds : SUBSET Kind, failures : Nat, checkpoints : Nat,
             overrides : Nat, faults : Nat]

ASSUME RecoveryAssumption ==
    /\ MaxRetries \in Nat
    /\ ApiErrorThreshold \in Nat \ {0}
    /\ LoopThreshold \in Nat \ {0}
    /\ \A sc \in Scenarios : sc \in Scenario

VARIABLES
    scenario,   \* the scenario of this behaviour
    alive,      \* "new", "running" or "ended": the processes
    session,    \* what detector and monitor keep of each session
    failures,   \* the failures, with the state of their handlers
    retries,    \* retryTracking
    pipeline,   \* the pipeline of the project
    commits,    \* the checkpoints of each session, of the story, and in writing
    override,   \* handleManualOverride in progress
    calls,      \* overrides so far
    faults,     \* faults so far
    recovered,  \* history: automatic recoveries since the retries were reset
    overlap,    \* history: the retries were used by two at a time
    mixed,      \* history: two checkpoints were written at a time
    unreported  \* history: sessions whose present silence nobody reported

history == <<recovered, overlap, mixed, unreported>>
vars == <<scenario, alive, session, failures, retries, pipeline, commits, override,
          calls, faults, history>>

Projects == {"project", "unknown"}

\* registered, timer, errors, mods : MonitoredAgentSession (of one file)
\* watched, silent, noticed        : MonitoredSession (stallEmitted)
Tracked == [registered : BOOLEAN, timer : BOOLEAN,
            errors : 0 .. ApiErrorThreshold - 1, mods : Nat,
            watched : BOOLEAN, silent : BOOLEAN, noticed : BOOLEAN]
Untracked == [registered |-> FALSE, timer |-> FALSE, errors |-> 0, mods |-> 0,
              watched |-> FALSE, silent |-> FALSE, noticed |-> FALSE]

\* tried : the retries as the handler read them
\* used  : the checkpoint it found (0: none)
\* known : history: the checkpoint it ought at least to find
\* blind : history: Redis failed the read that could have found it
Failure == [session : Sessions, project : Projects, kind : Kind,
            pc : {"delay", "session", "story", "record", "pause", "note",
                  "done", "aborted"},
            tried : Nat, active : BOOLEAN, escalated : BOOLEAN,
            used : Nat, known : Nat, blind : BOOLEAN]

\* own    : the newest member of each session's sorted set
\* story  : the story's key
\* kept   : the newest checkpoint of each session that is written in full
\* writing: the checkpoint each session has added to its set only
\* made   : checkpoints so far
Commits == [own : [Sessions -> Nat], story : Nat, kept : [Sessions -> Nat],
            writing : [Sessions -> Nat], made : Nat]

TypeOK ==
    /\ scenario \in Scenarios
    /\ alive \in [Sessions -> {"new", "running", "ended"}]
    /\ session \in [Sessions -> Tracked]
    /\ failures \in Seq(Failure)
    /\ Len(failures) <= scenario.failures
    /\ retries \in [Projects -> Nat]
    /\ pipeline \in {"running", "paused", "failed"}
    /\ commits \in Commits
    /\ override \in [pc : {"idle", "act", "finish"}, failure : Nat,
                     action : {"none", "terminate", "provide_guidance"}]
    /\ calls \in 0 .. scenario.overrides
    /\ faults \in 0 .. scenario.faults
    /\ recovered \in [Projects -> Nat]
    /\ overlap \in [Projects -> BOOLEAN]
    /\ mixed \in BOOLEAN
    /\ unreported \subseteq Sessions

NoOverride == [pc |-> "idle", failure |-> 0, action |-> "none"]

Init ==
    /\ scenario \in Scenarios
    /\ alive = [s \in Sessions |-> "new"]
    /\ session = [s \in Sessions |-> Untracked]
    /\ failures = <<>>
    /\ retries = [p \in Projects |-> 0]
    /\ pipeline = "running"
    /\ commits = [own |-> [s \in Sessions |-> 0], story |-> 0,
                  kept |-> [s \in Sessions |-> 0],
                  writing |-> [s \in Sessions |-> 0], made |-> 0]
    /\ override = NoOverride
    /\ calls = 0
    /\ faults = 0
    /\ recovered = [p \in Projects |-> 0]
    /\ overlap = [p \in Projects |-> FALSE]
    /\ mixed = FALSE
    /\ unreported = {}

-----------------------------------------------------------------------------
(* Failures *)

InFlight(n) == failures[n].pc \notin {"done", "aborted"}
Handled(p) == \E n \in DOMAIN failures : failures[n].project = p /\ InFlight(n)

\* Failures still to come that nothing can keep from coming.
Room(k) ==
    /\ k \in scenario.kinds
    /\ Len(failures) + Cardinality({s \in Sessions : session[s].silent
                                                     /\ ~session[s].noticed})
         < scenario.failures

\* What the handler of a failure with these retries does first.
FirstStep(kind, tried) ==
    CASE kind = "loop" -> "session"
      [] kind = "rate" -> "delay"
      [] OTHER -> IF tried >= MaxRetries THEN "pause" ELSE "session"

\* One more fault.
Fault == faults < scenario.faults /\ faults' = faults + 1

\* What is written in full for the session, or else for the story, which is
\* "unknown" to a failure of project "unknown".
Newest(s, p) ==
    CASE commits.own[s] > 0 -> commits.kept[s]
      [] commits.own[s] = 0 /\ p = "project" -> Max({commits.kept[t] : t \in Sessions})
      [] OTHER -> 0

\* retryFromCheckpoint and contextRefreshRetry up to their first await: the
\* session is no longer watched, and its process killed.
Recover(s, entry, p, kind) ==
    /\ session' = [session EXCEPT ![s] = [entry EXCEPT !.watched = FALSE,
                                                      !.silent = FALSE,
                                                      !.noticed = FALSE]]
    /\ alive' = [alive EXCEPT ![s] = "ended"]
    /\ unreported' = unreported \ {s}
    /\ recovered' = IF kind = "loop" THEN recovered
                    ELSE [recovered EXCEPT ![p] = @ + 1]

\* createFailure, and the handler up to its first await.  entry is what is
\* kept of the session by then, now what has become of its process.
Create(s, kind, entry, now) ==
    LET p == IF entry.registered THEN "project" ELSE "unknown"
        first == FirstStep(kind, retries[p])
    IN
    /\ failures' = Append(failures,
           [session |-> s, project |-> p, kind |-> kind, pc |-> first,
            tried |-> retries[p], active |-> TRUE, escalated |-> FALSE,
            used |-> 0, known |-> Newest(s, p), blind |-> FALSE])
    /\ overlap' = [overlap EXCEPT ![p] = @ \/ Handled(p)]
    /\ IF first = "session"
       THEN Recover(s, entry, p, kind)
       ELSE /\ session' = [session EXCEPT ![s] = entry]
            /\ alive' = [alive EXCEPT ![s] = now]
            /\ unreported' = IF entry.noticed THEN unreported \ {s} ELSE unreported
            /\ UNCHANGED recovered
    /\ UNCHANGED <<scenario, retries, pipeline, commits, override, calls, faults,
                   mixed>>

\* Only what is kept of session s changes.
Keep(s, entry) ==
    /\ session' = [session EXCEPT ![s] = entry]
    /\ UNCHANGED <<scenario, alive, failures, retries, pipeline, commits, override,
                   calls, faults, recovered, overlap, mixed>>

-----------------------------------------------------------------------------
(* What happens to a session *)

\* An executor starts a session and has it watched; the detector is told of it
\* or is not.
Start(s) ==
    /\ alive[s] = "new"
    /\ alive' = [alive EXCEPT ![s] = "running"]
    /\ \E known \in BOOLEAN :
          session' = [session EXCEPT ![s] = [Untracked EXCEPT !.registered = known,
                                                              !.timer = known,
                                                              !.watched = TRUE]]
    /\ UNCHANGED <<scenario, failures, retries, pipeline, commits, override, calls,
                   faults, history>>

\* It ends well: the exit code 0 is no failure, and the session is unregistered.
Succeed(s) ==
    /\ alive[s] = "running"
    /\ alive' = [alive EXCEPT ![s] = "ended"]
    /\ session' = [session EXCEPT ![s] = Untracked]
    /\ unreported' = unreported \ {s}
    /\ UNCHANGED <<scenario, failures, retries, pipeline, commits, override, calls,
                   faults, recovered, overlap, mixed>>

\* handleProcessExit: a registered session stays registered.
ProcessExit(s) ==
    /\ Room("crash")
    /\ alive[s] = "running"
    /\ Create(s, "crash", session[s], "ended")

\* The executor, which waited for the exit, has it watched no longer.
StopMonitoring(s) ==
    /\ alive[s] = "ended"
    /\ session[s].watched
    /\ unreported' = unreported \ {s}
    /\ Keep(s, [session[s] EXCEPT !.watched = FALSE, !.silent = FALSE,
                                  !.noticed = FALSE])

\* The count is left to the recovery.
ApiErrorBug(s, kind) ==
    /\ Room(kind)
    /\ alive[s] = "running"
    /\ session[s].registered
    /\ IF session[s].errors + 1 < ApiErrorThreshold
       THEN Keep(s, [session[s] EXCEPT !.errors = @ + 1]) /\ UNCHANGED unreported
       ELSE Create(s, kind, [session[s] EXCEPT !.errors = @ + 1], alive[s])

\* handleApiError: the count starts again before the failure is raised.
ApiError(s, kind) ==
    /\ Room(kind)
    /\ alive[s] = "running"
    /\ session[s].registered
    /\ IF session[s].errors + 1 < ApiErrorThreshold
       THEN Keep(s, [session[s] EXCEPT !.errors = @ + 1]) /\ UNCHANGED unreported
       ELSE Create(s, kind, [session[s] EXCEPT !.errors = 0], alive[s])

ApiSuccess(s) ==
    /\ alive[s] = "running"
    /\ session[s].errors > 0
    /\ Keep(s, [session[s] EXCEPT !.errors = 0])
    /\ UNCHANGED unreported

\* handleFileModification: the count goes on after the failure, so that each
\* further modification fails again.
Modify(s) ==
    /\ Room("loop")
    /\ alive[s] = "running"
    /\ session[s].registered
    /\ LET entry == [session[s] EXCEPT !.mods = @ + 1] IN
       IF entry.mods < LoopThreshold
       THEN Keep(s, entry) /\ UNCHANGED unreported
       ELSE Create(s, "loop", entry, alive[s])

TestsPass(s) ==
    /\ alive[s] = "running"
    /\ session[s].mods > 0
    /\ Keep(s, [session[s] EXCEPT !.mods = 0])
    /\ UNCHANGED unreported

\* The last output is longer ago than STALL_THRESHOLD_MS.
FallSilent(s) ==
    /\ Room("stuck")
    /\ alive[s] = "running"
    /\ session[s].watched
    /\ ~session[s].silent
    /\ unreported' = unreported \cup {s}
    /\ Keep(s, [session[s] EXCEPT !.silent = TRUE])

\* The session that spoke again would not be noticed a second time.
ResumedBug(entry) == [entry EXCEPT !.silent = FALSE]

Resumed(entry) == [entry EXCEPT !.silent = FALSE, !.noticed = FALSE]

RecordActivity(s) ==
    /\ alive[s] = "running"
    /\ session[s].watched
    /\ session[s].silent
    /\ unreported' = unreported \ {s}
    /\ Keep(s, Resumed(session[s]))

\* checkHealth and handleSessionStalled: a silence is reported once.
CheckHealth(s) ==
    LET entry == [session[s] EXCEPT !.noticed = TRUE] IN
    /\ session[s].watched
    /\ session[s].silent
    /\ ~session[s].noticed
    /\ IF entry.registered
       THEN Create(s, "stuck", entry, alive[s])
       ELSE Keep(s, entry) /\ unreported' = unreported \ {s}

\* onSessionTimeout: the timer of a session that is registered, recovered or
\* not.
TimerFires(s) ==
    /\ Room("timeout")
    /\ session[s].timer
    /\ Create(s, "timeout", [session[s] EXCEPT !.timer = FALSE], alive[s])

-----------------------------------------------------------------------------
(* Checkpoints *)

\* createCheckpoint: into the sorted set of the session, or Redis fails ...
AddCheckpoint(s) ==
    LET c == commits.made + 1 IN
    /\ commits.made < scenario.checkpoints
    /\ alive[s] = "running"
    /\ commits.writing[s] = 0
    /\ \/ /\ commits' = [commits EXCEPT !.made = c, !.own[s] = c, !.writing[s] = c]
          /\ UNCHANGED faults
       \/ /\ commits' = [commits EXCEPT !.made = c, !.writing[s] = c]
          /\ Fault
    /\ mixed' = (mixed \/ \E t \in Sessions : commits.writing[t] > 0)
    /\ UNCHANGED <<scenario, alive, session, failures, retries, pipeline, override,
                   calls, recovered, overlap, unreported>>

\* It is written in full if the session's set has it as well.
Written(s, story) ==
    [commits EXCEPT !.story = story, !.writing[s] = 0,
                    !.kept[s] = IF commits.own[s] = commits.writing[s]
                                THEN commits.writing[s] ELSE @]

\* The story keeps the first checkpoint it had.
SetStoryCheckpointBug(s) ==
    /\ commits.writing[s] > 0
    /\ \/ /\ commits' = Written(s, IF commits.story = 0 THEN commits.writing[s]
                                     ELSE commits.story)
          /\ UNCHANGED faults
       \/ /\ commits' = [commits EXCEPT !.writing[s] = 0]
          /\ Fault
    /\ UNCHANGED <<scenario, alive, session, failures, retries, pipeline, override,
                   calls, history>>

\* ... and then into the story's key, or Redis fails.
SetStoryCheckpoint(s) ==
    /\ commits.writing[s] > 0
    /\ \/ /\ commits' = Written(s, commits.writing[s])
          /\ UNCHANGED faults
       \/ /\ commits' = [commits EXCEPT !.writing[s] = 0]
          /\ Fault
    /\ UNCHANGED <<scenario, alive, session, failures, retries, pipeline, override,
                   calls, history>>

-----------------------------------------------------------------------------
(* The handler of failure n *)

\* The failure and its handler change, and nothing else but for the retries.
Handle(n, failure) ==
    /\ failures' = [failures EXCEPT ![n] = failure]
    /\ UNCHANGED <<scenario, pipeline, commits, override, calls, mixed>>

\* The delay of a rate limit is over; the retries are those from before it.
DelayEnds(n) ==
    LET f == failures[n] IN
    /\ f.pc = "delay"
    /\ IF f.tried >= MaxRetries
       THEN /\ Handle(n, [f EXCEPT !.pc = "pause"])
            /\ UNCHANGED <<alive, session, recovered, unreported>>
       ELSE /\ Handle(n, [f EXCEPT !.pc = "session"])
            /\ Recover(f.session, session[f.session], f.project, f.kind)
    /\ UNCHANGED <<retries, faults, overlap>>

\* getLatestCheckpoint
FindSessionCheckpoint(n) ==
    LET f == failures[n]
        found == commits.own[f.session]
    IN
    /\ f.pc = "session"
    /\ Handle(n, [f EXCEPT !.used = found, !.pc = IF found > 0 THEN "record" ELSE "story"])
    /\ UNCHANGED <<alive, session, retries, faults, recovered, overlap, unreported>>

\* getLatestStoryCheckpoint: no checkpoint is kept for the story "unknown".
FindStoryCheckpoint(n) ==
    LET f == failures[n]
        found == IF f.project = "unknown" THEN 0 ELSE commits.story
    IN
    /\ f.pc = "story"
    /\ Handle(n, [f EXCEPT !.used = found, !.pc = "record"])
    /\ UNCHANGED <<alive, session, retries, faults, recovered, overlap, unreported>>

\* Redis fails (zrangebyscore answers [], get null), or the entry cannot be
\* parsed: either counts as no checkpoint.
\* What is known of the session is also found for the story, unless the story
\* is "unknown".
LookupFails(n) ==
    LET f == failures[n]
        last == IF f.project = "unknown" THEN "session" ELSE "story"
    IN
    /\ f.pc \in {"session", "story"}
    /\ Fault
    /\ Handle(n, [f EXCEPT !.pc = IF @ = "session" THEN "story" ELSE "record",
                           !.blind = @ \/ f.pc = last])
    /\ UNCHANGED <<alive, session, retries, recovered, overlap, unreported>>

\* A recovery is not counted as a retry.
CountedBug(f) == IF f.escalated THEN [retries EXCEPT ![f.project] = f.tried + 1] ELSE retries

Counted(f) == [retries EXCEPT ![f.project] = f.tried + 1]

\* A failure that stays when its session had no checkpoint.
ResolvedBug(f) == [f EXCEPT !.pc = "done", !.active = (f.used = 0)]

\* The recovery is in the history: the failure is resolved, whatever becomes of
\* the session that is to follow.
Resolved(f) == [f EXCEPT !.pc = "done", !.active = FALSE]

EndRecovery(n) ==
    /\ failures[n].pc = "record"
    /\ Handle(n, Resolved(failures[n]))
    /\ retries' = Counted(failures[n])
    /\ UNCHANGED <<alive, session, faults, recovered, overlap, unreported>>

\* escalateToUser: a pause that fails is only logged.
Pause(n) ==
    /\ failures[n].pc = "pause"
    /\ failures' = [failures EXCEPT ![n].pc = "note"]
    /\ \/ /\ failures[n].project = "project" /\ pipeline = "running"
          /\ pipeline' = "paused"
          /\ UNCHANGED faults
       \/ /\ failures[n].project = "unknown" \/ pipeline # "running"
          /\ UNCHANGED <<pipeline, faults>>
       \/ Fault /\ UNCHANGED pipeline
    /\ UNCHANGED <<scenario, alive, session, retries, commits, override, calls, history>>

EndEscalation(n) ==
    LET f == [failures[n] EXCEPT !.pc = "done", !.escalated = TRUE] IN
    /\ failures[n].pc = "note"
    /\ Handle(n, f)
    /\ retries' = Counted(f)
    /\ UNCHANGED <<alive, session, faults, recovered, overlap, unreported>>

HandlerStep(n) ==
    \/ DelayEnds(n)
    \/ FindSessionCheckpoint(n) \/ FindStoryCheckpoint(n) \/ EndRecovery(n)
    \/ Pause(n) \/ EndEscalation(n)

-----------------------------------------------------------------------------
(* handleManualOverride *)

\* The failure is resolved and the project starts afresh; a handler in flight
\* will write the old retries over it.
Reset(n) ==
    LET p == failures[n].project IN
    /\ failures' = [failures EXCEPT ![n].active = FALSE]
    /\ retries' = [retries EXCEPT ![p] = 0]
    /\ recovered' = [recovered EXCEPT ![p] = 0]
    /\ overlap' = [overlap EXCEPT ![p] = Handled(p)]

Reassign(n) ==
    /\ calls < scenario.overrides
    /\ failures[n].active
    /\ calls' = calls + 1
    /\ Reset(n)
    /\ UNCHANGED <<scenario, alive, session, pipeline, commits, override, faults, mixed,
                   unreported>>

\* One override at a time waits for the pipeline.
BeginOverride(n, action) ==
    /\ calls < scenario.overrides
    /\ failures[n].active
    /\ override = NoOverride
    /\ calls' = calls + 1
    /\ override' = [pc |-> "act", failure |-> n, action |-> action]
    /\ UNCHANGED <<scenario, alive, session, failures, retries, pipeline, commits,
                   faults, history>>

\* PAUSED and FAILED have no transition to FAILED, and only PAUSED is resumed:
\* otherwise the override throws.
Act ==
    LET terminate == override.action = "terminate"
        allowed == /\ failures[override.failure].project = "project"
                   /\ pipeline = IF terminate THEN "running" ELSE "paused"
    IN
    /\ override.pc = "act"
    /\ IF allowed
       THEN /\ pipeline' = IF terminate THEN "failed" ELSE "running"
            /\ override' = [override EXCEPT !.pc = "finish"]
       ELSE override' = NoOverride /\ UNCHANGED pipeline
    /\ UNCHANGED <<scenario, alive, session, failures, retries, commits, calls, faults,
                   history>>

\* A termination leaves the retries as they are.
EndOverride ==
    LET n == override.failure IN
    /\ override.pc = "finish"
    /\ override' = NoOverride
    /\ IF override.action = "terminate"
       THEN /\ failures' = [failures EXCEPT ![n].active = FALSE]
            /\ UNCHANGED <<retries, recovered, overlap>>
       ELSE Reset(n)
    /\ UNCHANGED <<scenario, alive, session, pipeline, commits, calls, faults, mixed,
                   unreported>>

-----------------------------------------------------------------------------
(* The user of the pipeline, and the end of the process *)

ResumeOrRestart ==
    /\ pipeline # "running"
    /\ pipeline' = "running"
    /\ UNCHANGED <<scenario, alive, session, failures, retries, commits, override,
                   calls, faults, history>>

\* What detector, monitor and recovery know is in memory; checkpoints are not.
Restart ==
    /\ Fault
    /\ alive' = [s \in Sessions |-> IF alive[s] = "running" THEN "ended" ELSE alive[s]]
    /\ session' = [s \in Sessions |-> Untracked]
    /\ failures' = [n \in DOMAIN failures |->
           [failures[n] EXCEPT !.pc = IF InFlight(n) THEN "aborted" ELSE @,
                               !.active = FALSE]]
    /\ retries' = [p \in Projects |-> 0]
    /\ commits' = [commits EXCEPT !.writing = [s \in Sessions |-> 0]]
    /\ override' = NoOverride
    /\ recovered' = [p \in Projects |-> 0]
    /\ overlap' = [p \in Projects |-> FALSE]
    /\ unreported' = {}
    /\ UNCHANGED <<scenario, pipeline, calls, mixed>>

Stop ==
    /\ \A s \in Sessions : alive[s] = "ended" /\ ~session[s].watched
    /\ \A n \in DOMAIN failures : ~InFlight(n)
    /\ UNCHANGED vars

SessionStep(s) ==
    \/ Start(s) \/ Succeed(s) \/ ProcessExit(s) \/ StopMonitoring(s)
    \/ ApiError(s, "api") \/ ApiError(s, "rate") \/ ApiSuccess(s)
    \/ Modify(s) \/ TestsPass(s)
    \/ FallSilent(s) \/ RecordActivity(s) \/ CheckHealth(s) \/ TimerFires(s)
    \/ AddCheckpoint(s) \/ SetStoryCheckpoint(s)

Next ==
    \/ \E s \in Sessions : SessionStep(s)
    \/ \E n \in DOMAIN failures :
          \/ HandlerStep(n) \/ LookupFails(n) \/ Reassign(n)
          \/ \E action \in {"terminate", "provide_guidance"} : BeginOverride(n, action)
    \/ Act \/ EndOverride
    \/ ResumeOrRestart
    \/ Restart
    \/ Stop

Spec == Init /\ [][Next]_vars

\* The event loop goes on with every handler; the heartbeat of a watched session
\* ticks.
Fairness ==
    /\ WF_vars(\E n \in DOMAIN failures : HandlerStep(n))
    /\ \A s \in Sessions : WF_vars(CheckHealth(s))

FairSpec == Spec /\ Fairness

-----------------------------------------------------------------------------
(* Properties *)

\* A project is recovered automatically MaxRetries times before the user is
\* asked, whatever fails meanwhile: as long as its failures, and the user's
\* resets, come one at a time.  Loops are recovered without end.
RecoveriesBounded ==
    \A p \in Projects : ~overlap[p] => recovered[p] <= MaxRetries

\* A recovery (retryFromCheckpoint) finds no checkpoint older than the one its
\* session had written in full when it failed, or than the story's newest if the
\* session had none: a crash, or a write that Redis loses, between the two writes
\* of a checkpoint does no harm, nor does a failed read of the session's as long
\* as the story's is left.  Excused are checkpoints written two at a time, the
\* story of a session nobody registered, and the failed read of the last key.
CheckpointIsNewest ==
    \A n \in DOMAIN failures :
       (failures[n].pc = "record" /\ ~mixed /\ ~failures[n].blind)
          => failures[n].used >= failures[n].known

\* A silence that is still to be reported is one that the next heartbeat reports
\* (checkHealth): the session is watched, and the flag against a second report
\* of the same silence is not left from an earlier one.
SilenceIsNoticeable ==
    \A s \in unreported :
       session[s].watched /\ session[s].silent /\ ~session[s].noticed

\* Each silence of a watched session is reported, or ends: a session that spoke
\* again is noticed again.
SilenceIsReported ==
    \A s \in Sessions : (s \in unreported) ~> (s \notin unreported)

\* Every failure is resolved or escalated in the end, whatever reads or pauses
\* fail; a restart forgets it.
EveryFailureAnswered ==
    <>[](\A n \in DOMAIN failures : ~failures[n].active \/ failures[n].escalated)

=============================================================================
