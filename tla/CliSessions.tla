---------------------------- MODULE CliSessions ----------------------------
(***************************************************************************)
(* CLISessionLifecycleService of one instance, with the buffer of          *)
(* CLIOutputStreamService and the executors' waitForSessionCompletion:     *)
(* CLI processes are spawned up to a limit, are killed by a timer or by a  *)
(* caller, and tell the one that waits for them how they ended.            *)
(*                                                                         *)
(* A session id is drawn afresh for every spawn.  terminateSession has no  *)
(* await that gives way before it is done (the clean-up of the workspace   *)
(* is synchronous), and the caller of spawnSession listens before the      *)
(* process can report anything, so both are single steps.                  *)
(*                                                                         *)
(* Left out: contents of prompts and output, the health monitor's events,  *)
(* the archive of finished sessions, and finished sessions that stay in    *)
(* activeSessions, except that they are not counted.                       *)
(***************************************************************************)
EXTENDS Integers, FiniteSets

CONSTANTS
    Sessions,       \* session ids
    MaxConcurrent   \* maxConcurrentSessions

ASSUME SessionsAssumption == MaxConcurrent \in Nat \ {0}

VARIABLES
    spawning,   \* calls of spawnSession between the check and the spawn
    active,     \* the keys of activeSessions
    status,     \* the status of a session that is or was in activeSessions
    proc,       \* the operating system's view of the session's process
    timer,      \* sessions whose timeout is armed
    waiter,     \* the promise of waitForSessionCompletion: its exit code
    printed,    \* the results block in the session's output buffer
    peak        \* history: the most calls that were spawning at once

sessionVars == <<spawning, active, status, proc, timer, waiter, printed, peak>>

SessionStatus == {"none", "RUNNING", "COMPLETED", "FAILED", "TERMINATED"}

SessionTypeOK ==
    /\ spawning \subseteq Sessions
    /\ active \subseteq Sessions
    /\ timer \subseteq Sessions
    /\ status \in [Sessions -> SessionStatus]
    /\ proc \in [Sessions -> {"none", "alive", "killed", "gone"}]
    /\ waiter \in [Sessions -> {"none", "waiting", "zero", "nonzero", "null"}]
    /\ printed \in [Sessions -> {"nothing", "passed", "failed"}]
    /\ peak \in Nat

SessionInit ==
    /\ spawning = {}
    /\ active = {}
    /\ timer = {}
    /\ status = [s \in Sessions |-> "none"]
    /\ proc = [s \in Sessions |-> "none"]
    /\ waiter = [s \in Sessions |-> "none"]
    /\ printed = [s \in Sessions |-> "nothing"]
    /\ peak = 0

-----------------------------------------------------------------------------
(* spawnSession *)

\* getActiveSessionCount counts the sessions that RUN.
Running == {s \in active : status[s] = "RUNNING"}

Fresh(s) == s \notin spawning /\ status[s] = "none" /\ proc[s] = "none"

\* Only the calls that are on their way are counted.
AdmitBug(s) ==
    /\ Fresh(s)
    /\ Cardinality(spawning) < MaxConcurrent
    /\ spawning' = spawning \cup {s}
    /\ peak' = IF Cardinality(spawning') > peak THEN Cardinality(spawning')
                                                ELSE peak
    /\ UNCHANGED <<active, status, proc, timer, waiter, printed>>

\* The limit is checked and the preparations begin: workspace, Git author,
\* session config.
Admit(s) ==
    /\ Fresh(s)
    /\ Cardinality(Running) < MaxConcurrent
    /\ spawning' = spawning \cup {s}
    /\ peak' = IF Cardinality(spawning') > peak THEN Cardinality(spawning')
                                                ELSE peak
    /\ UNCHANGED <<active, status, proc, timer, waiter, printed>>

\* The limit is reached: spawnSession throws.
Refuse ==
    /\ Cardinality(Running) >= MaxConcurrent
    /\ UNCHANGED sessionVars

\* A preparation fails or the config is not valid: spawnSession throws.
SetupFails(s) ==
    /\ s \in spawning
    /\ spawning' = spawning \ {s}
    /\ UNCHANGED <<active, status, proc, timer, waiter, printed, peak>>

\* The process is spawned and registered, its timer is armed, and the caller
\* starts to stream its output and to wait for it.
Launch(s) ==
    /\ s \in spawning
    /\ spawning' = spawning \ {s}
    /\ active' = active \cup {s}
    /\ status' = [status EXCEPT ![s] = "RUNNING"]
    /\ proc' = [proc EXCEPT ![s] = "alive"]
    /\ timer' = timer \cup {s}
    /\ waiter' = [waiter EXCEPT ![s] = "waiting"]
    /\ UNCHANGED <<printed, peak>>

-----------------------------------------------------------------------------
(* The end of a session *)

\* terminateSession: kill the process, TERMINATED, out of activeSessions.  The
\* timer stays armed.  A session that is not in activeSessions is left alone.
Terminate(s) ==
    IF s \in active
    THEN /\ active' = active \ {s}
         /\ status' = [status EXCEPT ![s] = "TERMINATED"]
         /\ proc' = [proc EXCEPT ![s] = IF @ = "alive" THEN "killed" ELSE @]
    ELSE UNCHANGED <<active, status, proc>>

\* The session's timer: what still runs is terminated.
TimesOut(s) ==
    /\ s \in timer
    /\ timer' = timer \ {s}
    /\ IF s \in Running THEN Terminate(s)
                        ELSE UNCHANGED <<active, status, proc>>
    /\ UNCHANGED <<spawning, waiter, printed, peak>>

\* A listener resolves the promise if it is still waiting.
Heard(s, code) ==
    waiter' = IF waiter[s] = "waiting" THEN [waiter EXCEPT ![s] = code]
                                       ELSE waiter

\* The exit handler forgets to set the status.
ExitBug(s, ok) ==
    /\ proc[s] \in {"alive", "killed"}
    /\ proc' = [proc EXCEPT ![s] = "gone"]
    /\ timer' = timer \ {s}
    /\ IF status[s] = "none" \/ (~ok /\ status[s] = "TERMINATED")
       THEN UNCHANGED waiter
       ELSE Heard(s, IF ok THEN "zero" ELSE "nonzero")
    /\ UNCHANGED <<spawning, active, status, printed, peak>>

\* The exit handler reports nothing but a clean exit.
SilentExitBug(s, ok) ==
    /\ proc[s] \in {"alive", "killed"}
    /\ proc' = [proc EXCEPT ![s] = "gone"]
    /\ timer' = timer \ {s}
    /\ status' = IF status[s] = "none" THEN status
                 ELSE [status EXCEPT ![s] = IF ok THEN "COMPLETED" ELSE "FAILED"]
    /\ IF ok /\ status[s] # "none" THEN Heard(s, "zero") ELSE UNCHANGED waiter
    /\ UNCHANGED <<spawning, active, printed, peak>>

\* The exit handler, and the error handler of a process that could not be
\* started.  Exit code 0 is COMPLETED even after a kill; any other end is
\* FAILED unless the session was terminated, which nobody is told.  The
\* process of an instance that crashed has no handler any more.
ProcessExits(s, ok) ==
    /\ proc[s] \in {"alive", "killed"}
    /\ proc' = [proc EXCEPT ![s] = "gone"]
    /\ timer' = timer \ {s}
    /\ IF status[s] = "none" \/ (~ok /\ status[s] = "TERMINATED")
       THEN UNCHANGED <<status, waiter>>
       ELSE /\ status' = [status EXCEPT ![s] = IF ok THEN "COMPLETED"
                                                     ELSE "FAILED"]
            /\ Heard(s, IF ok THEN "zero" ELSE "nonzero")
    /\ UNCHANGED <<spawning, active, printed, peak>>

\* onOutput: the session's results reach the output buffer.  Nothing calls
\* onOutput as the program stands; its comment says that the stdout handler
\* does.
OnOutput(s, report) ==
    /\ proc[s] = "alive"
    /\ waiter[s] = "waiting"
    /\ printed[s] = "nothing"
    /\ printed' = [printed EXCEPT ![s] = report]
    /\ UNCHANGED <<spawning, active, status, proc, timer, waiter, peak>>

\* waitForSessionCompletion of the executors gives up after four hours, which
\* no session timer exceeds: the timer was armed first and has fired.
SafetyTimeout(s) ==
    /\ waiter[s] = "waiting"
    /\ s \notin timer
    /\ waiter' = [waiter EXCEPT ![s] = "null"]
    /\ UNCHANGED <<spawning, active, status, proc, timer, printed, peak>>

\* The session goes on behind the smoke test's back.
SmokeTimeoutBug(s) ==
    /\ waiter[s] = "waiting"
    /\ waiter' = [waiter EXCEPT ![s] = "null"]
    /\ UNCHANGED <<spawning, active, status, proc, timer, printed, peak>>

\* That of the smoke test gives up after five minutes and terminates the
\* session.
SmokeTimeout(s) ==
    /\ waiter[s] = "waiting"
    /\ waiter' = [waiter EXCEPT ![s] = "null"]
    /\ Terminate(s)
    /\ UNCHANGED <<spawning, timer, printed, peak>>

\* The instance crashes: its memory is gone, the processes go on.
LoseSessions ==
    /\ spawning' = {}
    /\ active' = {}
    /\ timer' = {}
    /\ status' = [s \in Sessions |-> "none"]
    /\ waiter' = [s \in Sessions |-> "none"]
    /\ UNCHANGED <<proc, printed, peak>>

SessionNext ==
    \/ \E s \in Sessions : \/ Admit(s) \/ SetupFails(s) \/ Launch(s)
                           \/ TimesOut(s) \/ SafetyTimeout(s) \/ SmokeTimeout(s)
                           \/ \E ok \in BOOLEAN : ProcessExits(s, ok)
                           \/ \E r \in {"passed", "failed"} : OnOutput(s, r)
    \/ LoseSessions

-----------------------------------------------------------------------------
(* Properties *)

\* The limit is checked before several awaits and the session is counted
\* after them: the sessions that run exceed MaxConcurrent by no more than the
\* calls that were on their way at once, less one, and not at all if spawns
\* never overlapped.
LimitKept == Cardinality(Running) + Cardinality(spawning) <= MaxConcurrent - 1 + peak

\* What the limit counts is what runs: a session is RUNNING exactly while its
\* process lives, unless the instance that spawned it has crashed.
CountedIsAlive ==
    \A s \in Sessions : status[s] # "none" =>
        (status[s] = "RUNNING" <=> proc[s] = "alive")

\* Only a killed session leaves its caller waiting: the exit of any other
\* process has resolved the promise.
WaitsForSomeone ==
    \A s \in Sessions :
        waiter[s] = "waiting" => \/ proc[s] = "alive" /\ s \in timer
                                 \/ status[s] = "TERMINATED"
=============================================================================
