# A verification of the DevOS pipeline orchestrator

DevOS drives software projects through a pipeline of agent phases: a planner, a
developer, a QA and a DevOps agent each get a job, and when a job ends the
orchestrator moves the project's pipeline on.  This directory holds a TLA+ model
of that orchestrator, from the request that starts a pipeline down to the agent
processes, and of the synchronisation of its stories with Linear and Jira, the
TLC runs that check it on small instances, and proofs that TLAPS checks for instances
of every size.

    tlc -config pipeline_faults.cfg MCPipeline.tla
    tlc -config phase_jobs.cfg MCExecutors.tla
    tlc -config issue_sync.cfg MCIssueSync.tla
    tlapm ExecutorProofs.tla

Paths below are relative to `src/modules/orchestrator/services/` of the
repository unless they say otherwise.

## 1. Inventory

### The core: the pipeline orchestrator

| component | state it keeps | operations | what is hard | what makes it correct |
|---|---|---|---|---|
| **state machine** `pipeline-state-machine` | none of its own: a record in Redis, rows in PostgreSQL, jobs in Bull | `startPipeline`, `pausePipeline`, `resumePipeline` (requests), `onPhaseComplete`, `onPhaseFailed` (callbacks), `transition` | every `await` lets other calls and other instances in; checks before the lock; retries; fallback after errors | one pipeline at a time, only valid transitions, no lost update, bounded retries, a phase always has a job |
| **state store** `pipeline-state-store` | `pipeline:state:<project>`, `pipeline:lock:<project>` | get, set with TTL, SET NX EX, DEL | the lock has no owner and a TTL | the lock excludes |
| **recovery** `pipeline-recovery` | none | one scan per boot: fail what is stale, reconcile with the history, release orphaned locks | runs beside live traffic of other instances, writes without the lock | changes nothing that is in order |
| **job queue** `agent-queue` | Bull queue, `agent_jobs` rows | `addJob`, `cancelJob`, `process`, `onFailed` | attempts, stalled jobs, cancellation of a running job, the row and Bull's job updated apart | one verdict per job, the row tells how the job ended |
| **job handler** `pipeline-job-handler`, **executors** (planner, dev, qa, devops) | the script of a phase: workspace, session, git, pull request, deployment | run the agent of a phase | steps that fail half way, answers that are lost, executions that are repeated | what is reported as done is done, a bad deployment is undone |
| **CLI sessions** `cli-session-lifecycle`, `cli-output-stream` | map of sessions, timers, output buffers | spawn, terminate, time out, exit | exit, timeout and termination race, the limit is checked before several awaits | limit kept, what counts is what runs, whoever waits is answered |
| **failure detection and recovery** `agent-failure-detector`, `session-health-monitor`, `pipeline-failure-recovery`, `checkpoint` | sessions watched, failures, retry counts in memory, checkpoints in Redis | detect, retry from a checkpoint, refresh, escalate, override | handlers of the same project overlap; retries are read first and written last | recoveries bounded, newest checkpoint, every failure answered |
| **handoff coordination** `handoff-coordinator`, `-queue`, `coordination-rules-engine` | queue of handoffs (sorted set), active counts, history | hand over, queue, reject, escalate | read then remove; what is queued must be taken up | no handoff lost or doubled, a bounded number of QA rounds |
| **story dependencies** `story-dependency-manager` | dependency lists, reverse index, status per story | add, complete, ask for blockers | check then act, two writes per addition | no cycles, every unblocked story announced |
| **issue synchronisation** `../../integrations/linear`, `jira` | a sync item per story, a lock per story and one per issue, a Bull queue | push, webhook, resolve, link, unlink | pushes, echoes and webhooks cross; two locks for one row, or none; attempts and snapshots out of order | what is shown as synchronised agrees, one issue per story |

They interact like this.  A request or a callback changes the record under the
lock, writes a history row, and on entering a phase adds a job.  The job processor
runs the job through the job handler, an executor and a CLI session, and calls
`onPhaseComplete` or, after the last attempt, `onPhaseFailed`.  Before it moves on,
`onPhaseComplete` asks the handoff coordinator, which asks the dependency manager
and the rules.  Failure detection listens to session events, and failure recovery
pauses and resumes the pipeline.  The issue synchronisation shares the stories with
the pipeline and nothing else.

### The rest of the repository

The other modules (authentication, workspaces, billing, notifications, usage, SSO,
sprints, stories and so on) are listed in `PROJECT.json` with the reason each is
left out.  Most store single rows, aggregate them or call external services: of the
198,000 lines of the implementation the larger part are controllers, DTOs,
queries and clients whose only state is a row that one statement writes.  A model of
such code would restate it.  The models here cover the code where steps of several
actors meet, which is a small share of the lines.  The protocols outside the
orchestrator that would still be worth a module (token rotation, spend caps,
provisioning with its rollback, federated sessions, invitations) are named as such
in `PROJECT.json`.

## 2. What is modelled

| module | content |
|---|---|
| `PipelineStates` | the enum of states, `VALID_TRANSITIONS`, `PHASE_PROGRESSION`, the phases with an agent |
| `PipelineStateMachine` | the pipeline of one project: state machine, state store, recovery, and of the queue what the pipeline sees |
| `PipelineLifecycle` | the abstract promise: one workflow at a time, moving atomically along valid transitions, with bounded retries |
| `PipelineRefinement` | the refinement mapping and the inductive invariant |
| `MCPipeline` | symmetry for TLC |
| `PipelineProofs` | the theorems about the pipeline and their proofs |
| `StoryDependencies` | which stories of a workspace wait for which, and its inductive invariant |
| `StoryGraph` | the abstract promise of the dependency manager: edges, completions and announcements, each in one step and never a cycle |
| `MCStories`, `StoryProofs` | the instance for TLC, the theorems |
| `CliSessions` | the sessions of an instance: limit, processes, timers, those who wait |
| `AgentQueue` | the jobs of the phases: rows, Bull's jobs, workers, cancellation, the verdict the pipeline hears |
| `PhaseJobs` | the abstract promise of the queue to the pipeline: a job owes one verdict, a second one if it was given out again, and none after the failure of all attempts |
| `PhaseExecutors` | composes the two: what a worker does with a job, by the script of its agent |
| `MCExecutors`, `SessionProofs`, `QueueProofs`, `ExecutorProofs` | the instance for TLC, the lemmas about each part, the theorems |
| `FailureRecovery` | detector, health monitor, checkpoints and the handlers of failures |
| `MCRecovery`, `RecoveryProofs` | the same for it |
| `IssueSync` | a story and its issue in Linear or Jira |
| `MCIssueSync`, `SyncProofs` | the same for it |
| `AgreementProofs` | the theorem about `SyncedAgree`, on top of `SyncProofs` |

All keys, locks and rows of the core belong to one project, so one project is
modelled; the keys of the story dependencies belong to one workspace, those of the
issue synchronisation to one story.  `PhaseExecutors` has the jobs of several projects,
which share the session limit.  The models meet in few places, and each takes the
other's part as a choice: `PipelineStateMachine` lets a queued job end once, well or
badly, be given out again or be lost, and `PhaseExecutors` says when that is so
(`OneVerdict`, `OkMeansDone`, `JobsSettle`, and the refinement `ImplementsPhaseJobs`).  `FailureRecovery` reduces the pipeline to running, paused and failed.

### The pipeline: state

* `ctx` is the Redis record: workflow, state, previous state, retry counter and
  `metadata.pausedFrom`, the only piece of metadata the state machine reads back.
* `lock` is TRUE while the lock key exists.  The key has no owner, so neither has
  the variable.
* `audit` is the latest row of `pipeline_state_history`; the code reads no other.
* `queue[w][ph]` counts the jobs of a workflow's phase that are queued or running.
* `pc`, `req`, `view` are the locals of each call in flight: where it is, what it
  was asked to do, the context it loaded.
* `spent` counts what is bounded.  `clean` is a history variable, described below.

### The pipeline: actions

An action is the code between two awaits.

| action | code |
|---|---|
| `StartPipeline`, `CreateContext` | `startPipeline`: the check for an active pipeline; the write of the IDLE context, with no lock |
| `PausePipeline`, `ResumePipeline` | the reads before the lock, which decide `pausedFrom` and where to resume |
| `PhaseComplete`, `HandoffQueued` | `onPhaseComplete` up to its call of `transition` |
| `PhaseFailed`, `LoadFailed` | `onPhaseFailed`: retry or, when retries are used up, failure |
| `AcquireLock`, `LockTimeout` | `acquireLockWithRetry`: SET NX, or five seconds of a held lock |
| `LoadState`, `WriteState`, `SaveHistory`, `EnterState`, `ReleaseLock`, `AbortTransition` | `transition`, await by await; `WriteState` to `ReleaseLock` are also the retry branch of `onPhaseFailed` |
| `HandoverLock`, `ReleaseAgain` | the failure branch of `onPhaseFailed`: it releases the lock, calls `transition(FAILED)`, and releases the lock once more in its `finally` |
| `RecoverScan`, `CompareHistory`, `RepairState`, `ListLocks`, `CheckOrphan`, `ForceRelease` | `PipelineRecoveryService`, in its round trips |
| `JobStalls`, `LoseJob` | what else the queue may do to a job: give it out twice, or never report it |
| `Throw`, `Leave` (operators) | who catches an error: `onPhaseComplete` calls `transition` again for the regular successor; `onPhaseFailed` and recovery have work left; all others just end |

Faults, each chosen by the constant `Faults` and limited by `MaxFaults`: a lock
expires under its holder, a caller times out on a held lock, an instance crashes
between two awaits, the save of a row throws, `addJob` throws, the record itself
reaches its TTL, a job is cancelled or dies with the worker that was to report it.  A crash loses the locals of the call and leaves the lock and the
record.  Bull delivers the job again if the call was a completion callback, since
`process` had not returned; a failure callback runs after the job is marked failed
and is lost.  Bull may also take a job for stalled that is at work, and then its
completion is reported twice; that is no fault but is bounded by `MaxStalls`.

So the queue of the pipeline may do whatever `PhaseJobs` allows: its `Add` is `AddJob` of
`EnterState`, its `Tell` a callback, its `GiveAgain` is `JobStalls` (and the redelivery
in `Crash`), its `Lose` is `LoseJob`, and a failure callback that crashes.  It allows more
than `PhaseJobs`, which gives a job out again only once.  A job is doubled while its
completion is being reported; were it doubled while it runs, the two reports would come
in the same orders.

### The history variable `clean`

The lock is not safe: the code deletes it when it is not its holder, and two places
write the record without it.  `clean` becomes FALSE at the step at which the locking
breaks down: a key is deleted or expires while another call is inside
(`DeleteLock`, `HeldLockExpires`); `CreateContext` writes over an active pipeline
or in the middle of an update; recovery writes (`RepairState`); or the two writes of
an update are torn apart (`SaveHistoryFails`, `Crash`).  The properties that read
"as long as nothing broke the locking" have `clean` as their premise.  The premise is
no formality: in most behaviours nothing breaks, whatever the interleaving, and every
such property has a mutant of the code that violates it with `clean` still TRUE.
The violation runs show how the code breaks the locking by itself.

### The answers of the coordinator

`HandoffAnswers` is a constant because the answer is decided outside the core.  As
the repository is wired today `activeAgentType` is never set, so that
`processHandoff` finds no rule and answers `success: false, queued: false`, and
`onPhaseComplete` transitions anyway: "handoff".  "rejected" and "escalated" need a QA
verdict in the job's result, which `pipeline-job-handler` drops.  The model
includes all answers the state machine is written for.

### The story dependencies

`deps`, `rdeps` and `done` are the three kinds of Redis keys.  A process is one call
of `addDependency` (`AddDependency`, `Visit`, `LoadDependencies`, `StoreDependencies`,
`LoadReverse`, `StoreReverse`) or of `markStoryComplete` (`MarkComplete`, then
`FindDependents` or the scan `ScanKeys`, `ScanKey`, `ScanEnds`, then `PickDependent` and
`CheckStatus` for each dependent, then `FinishCompletion`), an action from one Redis
command to the next.  Keys are read in any order where the code follows the
order of a list.  Faults: an instance crashes, a key expires (30 days), or a Redis
command fails, which `RedisService` swallows: a write is lost, a read finds
nothing (`RedisFails`, `RedisFailsAt`).

There is no lock at all, so the properties say under what premises the code is
right.  Three history variables carry them: `alone` (no two additions overlapped so
far), `apart` (no addition overlapped a completion) and, among the bounds in
`spent`, the number of faults (`Answered`: no failed command, `NoFault`: none at
all).  What happens beyond the premises is a finding or a hazard: two additions that
overlap make a cycle (`stories_cycle_violation`) or lose an edge; a completion in the
middle of an addition misses the dependent.  Completions may overlap each other
freely, and additions may follow completions in any order.  The history variable
`owed` has the stories that some completion should announce: those whose last
incomplete dependency it is.  The refinement of `StoryGraph` reads the graph from `deps`,
the completions from `done` and what is due from `owed`; all steps that touch only the
index or the locals of a call are stutters, and the promise ends with the premises
(`sound <- Calm`).  `addDependency` has no caller outside
the tests yet; `markStoryComplete` is called when a DevOps phase ends.

### Sessions, queue and executors

A phase's job goes through three services, and so do the modules.

| module | action | code |
|---|---|---|
| `CliSessions` | `Admit`, `Refuse` | `spawnSession`: the limit is read |
| | `SetupFails`, `Launch` | what follows after its awaits: workspace and configuration, or the spawn, the entry in the map and the timer |
| | `TimesOut`, `Terminate` | the timer, which terminates the session; `terminateSession` |
| | `ProcessExits` | the exit handler, with its exit code, and the listener of `waitForSessionCompletion` |
| | `OnOutput`, `SafetyTimeout`, `SmokeTimeout` | the output of a smoke test; the timers of those who wait |
| | `LoseSessions` | a crash: the memory is gone, the processes go on |
| `AgentQueue` | `AddJob`, `Enqueue`, `EnqueueFails`, `SaveBullId` | `addJob`: the row, the job of Bull, the row again |
| | `Take`, `MarkProcessing`, `MarkFails`, `Throws`, `MarkCompleted`, `MarkCompletedFails`, `Notify`, `Return` | `process`: attempt by attempt, with the callback of the pipeline |
| | `RecordFailure`, `RecordFails`, `TellFailure` | `onFailed`, an event that may come late |
| | `Cancel`, `RemoveBullJob`, `MarkCancelled` | `cancelJob` |
| | `LoseWorkers`, `Redeliver` | a crash, and the job that Bull takes for stalled |
| `PhaseExecutors` | `Begin`, `PrepareWorkspace`, `CreateBranch` | `handlePipelineJob` and the beginning of each executor |
| | `Spawn`, `SpawnFails`, `SpawnSucceeds`, `GiveUp`, `SessionEnds`, `SmokeTestEnds` | a session as its executor sees it |
| | `Commit`, `Push`, `CreatePullRequest`, `Check`, `Review` | planner, dev and qa after the session |
| | `Merge`, `DetectPlatform`, `Trigger`, `Monitor`, `Rollback`, `PlatformEnds` | devops |

An executor is a script: `at[j]` is its position.  What an agent writes, what GitHub or
the platform answers and whether the answer arrives is a choice; what the step has done
outside (`outside`, `deployed`) stays, whatever becomes of the execution, and the next
attempt finds it.  `outside` and `deployed` say what is so in the world, and
`supervised` and `undone` what the executor knows and has asked for.

### Failures and their recovery

Each failure is an entry of `failures` with the state of its handler (`pc`).  What the
detector and the monitor keep of a session is `session`; `retries` is the map of
`PipelineFailureRecoveryService`, `commits` the checkpoints in Redis.

| action | code |
|---|---|
| `Start`, `Succeed`, `ProcessExit`, `StopMonitoring` | a session begins and ends, registered with the detector or not |
| `ApiError`, `ApiSuccess`, `Modify`, `TestsPass` | the counts of the detector, with their thresholds |
| `FallSilent`, `RecordActivity`, `CheckHealth` | the heartbeat of the monitor, and the event it emits once per silence |
| `TimerFires` | the timer the detector has set for a registered session |
| `AddCheckpoint`, `SetStoryCheckpoint` | the two writes of `createCheckpoint`, each of which Redis may lose |
| `Create`, `Recover` (operators) | `createFailure` with the handler up to its first await, which is still part of the event |
| `DelayEnds`, `FindSessionCheckpoint`, `FindStoryCheckpoint`, `EndRecovery` | a recovery; a failure of an unregistered session (project "unknown") has no story to look under |
| `LookupFails` | a read that Redis fails or an entry that does not parse: taken for no checkpoint, and the recovery goes on |
| `Pause`, `EndEscalation` | the escalation to the user, with a pause that fails |
| `Reassign`, `BeginOverride`, `Act`, `EndOverride` | `handleManualOverride` |
| `ResumeOrRestart`, `Restart` | the user of the pipeline; the end of the process, which forgets all but the checkpoints |

`RedisService` catches the errors of its commands: a read then answers `null` or `[]`, a
write returns as if it had been done.  The other calls of a handler are caught where they are
made, so that only the end of the process stops one half way.  `known` is the checkpoint that
a recovery ought at least to find, fixed when the failure comes: of the session, or else of
the story, and nothing for an unregistered session without checkpoints of its own.
`blind` says that the read failed which could have found it.

### The issue synchronisation

A call is a push (`Acquire` to `Release`), a resolution (`Resolve` to `Settle`), a link
(`CheckLink`, `Link`) or an unlink (`Unlink`), step by step from one request or query to
the next.  Every change of an issue is appended to `hooks` as a job with the snapshot the
tracker reported (`Change`), its own echoes included; Bull gives out any waiting job, so
that jobs of one issue overtake each other, and gives a failed one again up to `Tries`
times (`TakeHook` to `HookEnd`).  Linear takes text and status at once, Jira the status by
a transition that may be missing (`PlaceIssue`, `MoveIssue`, `ShiftIssue`).  Sync items
have an `id`: `save()` of a row that was removed meanwhile inserts it again, and is
refused if another has taken its place (`Save`, `Refused`).  Incidents: a request fails
with or without effect, the answer to a create is lost, a job fails, a webhook does
not arrive, a crash, a lock that expires under its owner.

`dirty` says that the story has something that no push has carried, which is the
user's business or that of a retry; `excuse` collects what may keep story and issue apart for
good, each at the step at which it happens.

### Left out

*Pipeline*: events and lifecycle events; agent and story fields; timestamps (how old a
pipeline is is a choice of the scan); metadata other than `pausedFrom`; a Redis or PostgreSQL
that is unreachable on a read or on the write of the record.  *Queue, sessions and
executors*: progress events, the archive of sessions, the contents of prompts and
output, clean-up of files.  *Recovery*: the difference between the tiers, which record
different things and act alike; the expiry of checkpoints after seven days.  *Synchronisation*: one-way integrations, mappings that
are not one to one, set-up, OAuth, rate limits, deleted stories and issues.

### Not modelled, and why

* **The handoff queue and the limits of the coordinator.**  Nothing outside the tests
  sets `activeAgentType`, takes a handoff from the queue or frees a slot: they have no
  behaviour in the program.  The coordinator's answers are a constant of
  `PipelineStateMachine`; the answer "queued" is left out of the instance, since a story
  that gets it waits for something that nothing in the program does.
* **Workspace manager and branch manager**: file system and git; the order of their calls
  is in `PhaseExecutors`.
* **All that is outside orchestrator, queue and issue synchronisation**: see the end of
  section 1.

### What the models show that is not claimed

Some things the models do follow from the code and are not wanted.  They are not
properties, since they do not hold; `PROJECT.json` has them under `hazards`.

* `onOutput` of `cli-output-stream` has no caller, so that as the program is wired the
  smoke tests see no report, and every deployment with smoke tests is rolled back after
  their timeout.  `PhaseExecutors` has `OnOutput` as the comments intend it.
* `registerSession`, `handleProcessExit`, `createCheckpoint` and the rest of the detector's
  inputs have no caller outside tests either.  `FailureRecovery` is what the services do
  when they are called as intended.
* A recovery kills the process and asks for nobody to spawn another; the executor that
  waits for the killed session waits for its safety timeout of four hours.
* The timer of a session that was recovered stays armed and fails it again.
* A user cannot terminate what was escalated: the escalation has paused the pipeline, and
  PAUSED may not move to FAILED.
* An edit of a story that was not pushed yet is overwritten by the next webhook, without a
  conflict.  `story.changed`, which should trigger the push, is emitted by nothing: only
  a retry or a full sync pushes.
* A story that is unlinked while a push is under way is linked again.
* A webhook of Linear is processed with the first active integration, whichever workspace
  it came from.

## 3. What is checked

The pipeline runs have two calls in flight (`Procs`), the least number that interleaves.  The
races here are between one call and another: every property concerns one step of
one call against what some other call did before.  `MaxRetries` is 1 (3 in the code) or
0: both branches of the retry decision are taken.  Deadlock checking is off in the
pipeline, story and phase runs because the system stops when the bounds are used up
and all jobs are done; the other two have an action `Stop` that says when it may.

| run | bounds | properties |
|---|---|---|
| `pipeline_faults` | 1 workflow, 1 retry, 1 pause, 1 resume, 1 fault of any of seven kinds, every answer (5.2M states, about 100 s) | `TypeOK`, `ExclusiveWhileClean`, `NoLostUpdate`, `AuditAgrees`, `AuditIsAPath`, `ImplementsLifecycle` |
| `pipeline_recovery` | 2 workflows, 1 resume, 1 boot scan, no faults (5.4M states, about 60 s) | `NoStrandedPhase`, `ImplementsLifecycle` |
| `pipeline_liveness` | 1 workflow, 1 retry, 1 job given out twice, 1 crash, fairness (146k states) | `LockIsFreed`, `PhasesEnd` |
| `stories` | 3 stories, 2 calls at once, 3 additions, 2 completions, 1 fault (2.9M states, about 50 s) | `TypeOK`, `NoCycleAlone`, `IndexAgrees`, `NobodyForgotten`, `OnlyUnblockedAnnounced`, `ImplementsStoryGraph` |
| `phase_jobs` | 1 job of any agent, 2 attempts, 3 sessions, limit 1, and 2 incidents or a rival session (791k states, about 70 s) | `TypeOK`, `LimitKept`, `CountedIsAlive`, `WaitsForSomeone`, `EveryAgentIsAwaited`, `OneVerdict`, `RowTellsTheEnd`, `OkMeansDone`, `BadDeploymentIsUndone`, `JobsSettle`, `ImplementsPhaseJobs` |
| `failure_recovery` | 2 sessions, 2 retries, thresholds of 2, 8 scenarios of 2 to 4 failures with checkpoints, overrides and faults (560k states, about 70 s) | `TypeOK`, `RecoveriesBounded`, `CheckpointIsNewest`, `SilenceIsNoticeable`, `SilenceIsReported`, `EveryFailureAnswered` |
| `issue_sync` | 2 calls, 2 attempts, Linear and Jira, linked or not, at most 1 edit and 1 incident (1.1M states, about 55 s) | `TypeOK`, `SyncedAgree`, `OneIssue`, `EveryWebhookSettles` |

The pipeline:

* `ExclusiveWhileClean`: the lock excludes until it is broken.
* `NoLostUpdate`: what a call is about to write it has loaded as it is; load, modify and
  store under the lock lose nothing.
* `AuditAgrees`: the history and the record agree whenever no call is between its two
  writes, so a boot scan has nothing to repair, in any order of calls.
* `AuditIsAPath`: the rows of a workflow join up.
* `ImplementsLifecycle`: the detailed machine implements `PipelineLifecycle`.
* `NoStrandedPhase`: when all is quiet and no fault has struck, a pipeline in a phase
  has a job that will end it.  Without the answer "queued", which strands a phase.
* `LockIsFreed`, `PhasesEnd`: see fairness.

The stories:

* `NoCycleAlone`: the breadth-first search is a sufficient check for cycles when
  additions come one at a time, whatever completes, crashes or expires.  Three
  stories are the least that have a cycle the direct dependencies do not show.
* `IndexAgrees`: the reverse index is the inverse of the dependencies between additions.
* `NobodyForgotten`: of completions at the same time, at least one announces each story
  they unblock: each writes its own status before it reads the others'.  Two
  completions and one dependent of both are the race.
* `OnlyUnblockedAnnounced`: the statuses, read one after the other, add up.
* `ImplementsStoryGraph`: the calls implement the atomic steps of `StoryGraph`.  It adds to
  the others that an addition adds its edge and loses none, that no dependency comes while
  an announcement is due, and what may change at all.

The jobs of the phases:

* `LimitKept`: the sessions exceed the limit by no more than the calls that were on
  their way at once, which is what the code can keep: it checks before several awaits.
* `CountedIsAlive`: exit, timeout and termination, in any order, leave what is counted
  against the limit equal to what lives.
* `WaitsForSomeone`, `EveryAgentIsAwaited`: no wait without a process or timer that ends it,
  no agent in a workspace whose executor has gone on.
* `OneVerdict`: retries, stalled jobs, cancellations and late `failed` events give the
  pipeline one verdict, and one more only for each stall.  `PipelineStateMachine`
  relies on this: its callbacks are not idempotent.
* `RowTellsTheEnd`: the row agrees with Bull in the end, unless it was written out of
  turn (`muddled`: the second save of `addJob`, a late `onFailed`, a cancellation)
  or an update failed or was lost (`dropped`).  Without either exception TLC finds a
  counterexample.
* `OkMeansDone`: over all executions of a job, one that is repeated after a crash
  included: it must not touch what an earlier one reported as done.
* `BadDeploymentIsUndone`: an execution that has the id of its deployment rolls it back
  on every way to a bad end.
* `ImplementsPhaseJobs`: rows, attempts, late events and workers implement `PhaseJobs`: each
  verdict was owed when it came.  `OneVerdict` counts verdicts; this says when they may come.
* `JobsSettle`: see fairness.

One job is enough for what concerns the job; the rival session stands for all others,
which a job meets in the session limit only.  A second job is proved about (section 4)
and not run.

Failures:

* `RecoveriesBounded`: automatic recoveries do not go on for ever.  It needs its premise
  that failures and resets of a project come one at a time: two handlers that read the same count
  write it once.  No fault is in the bound: a recovery that found nothing counts as well.
* `CheckpointIsNewest`: a recovery does not go back further than it has to, whether the
  process ends or Redis fails between the two writes of a checkpoint, and although the read
  of the session's checkpoints may fail: what is written in full is under the story's key
  too.  Three things are excused, and are a hazard each.  Checkpoints written two at a time
  (`mixed`; it would need a third session to fail).  The failed read of the last key the
  checkpoint could be under (`blind`): the code takes it for no checkpoint.  And a session that
  nobody registered: its failure carries the ids `'unknown'`, so that the story's
  checkpoint is out of its reach, and the property asks for its own checkpoints only.
  Without `blind`, or without the exception for "unknown", TLC finds a counterexample.
* `SilenceIsNoticeable`, `SilenceIsReported`: the flag that keeps a stall from being reported
  twice does not keep the next one from being reported.  The first says so of each state
  (the heartbeat finds the silence), the second that it comes to it.
* `EveryFailureAnswered`: no handler leaves a failure open, whatever else fails meanwhile;
  a restart forgets the failures.

The bounds give two handlers of one project, the third failure that exceeds the
retries, and in each scenario a pair of kinds that can disturb each other (a
crash and the timer of the same session, a rate limit whose delay a crash overtakes).

Issues:

* `SyncedAgree`: the two-lock scheme with its echoes and conflicts comes to agreement,
  except for the excuses.  Each is needed: TLC finds a counterexample to `SyncedAgree`
  in this instance if "missed", "reordered", "crossed" or "unread" is dropped, and to
  `OneIssue` without "expired".  "revived" takes four or five calls, see section 4.
* `OneIssue`: counts what may cause a second issue; nothing else does.
* `EveryWebhookSettles`: locks that a crash left behind delay webhooks and do not block them.

The instance has the echo of a push, an edit and one incident at once, which
every branch of both trackers and every excuse but "revived" needs.  Larger ones (an edit and an
incident on a linked Jira issue, 2.3M states; on an unlinked Linear issue, 5.9M; two
edits, 4.2M) showed nothing new for the invariants.

**Fairness.**  *Pipeline*: weak fairness of each call's steps: a Node promise chain goes on.
Weak fairness of the callbacks: a queued job ends well or badly, which is `JobsSettle`.
Weak fairness of the expiry of an abandoned lock: Redis honours the TTL.  No fairness
for requests, scans or faults.  `PhasesEnd` starts from a phase, not from any active
state: IDLE may be left for ever after a failed start.  It counts a pause as an end, since a
paused pipeline waits for its user; that run has a job given out twice in place of a pause,
because the second report is what may take a pipeline back.  `PhasesEnd` is
about behaviours without a crash, `LockIsFreed` about all.

*Jobs*: weak fairness of each executor (`Execute`), of the queue for each job (`Serve`: Bull
gives out waiting and stalled jobs) and of the timeout of each session.  Nothing is assumed of
the CLI processes, the platform or the users: an agent that never ends is killed, a
deployment that never ends is given up.  *Failures*: weak fairness of the handlers taken
together (an event loop runs what is ready, and delays and I/O come to an end) and of
the heartbeat of each session.  *Issues*: weak fairness of the jobs taken together: Bull is
not idle while it has jobs.  Every attempt takes boundedly many steps, so no stronger
assumption is needed for each job to end.

The other five runs check what a comment in the code says and TLC finds violated
within a few steps.

| run | comment | what happens |
|---|---|---|
| `pipeline_lock_violation` | "Release lock if we still hold it (only for the retry path)" | `onPhaseFailed` deletes the key again after `transition(FAILED)` released it; by then another call holds it, and a third gets in |
| `pipeline_start_violation` | "@throws ConflictException if a pipeline is already active for the project" | two starts pass the check; the second replaces the first one's running pipeline |
| `pipeline_pause_violation` | "Stores the current state in metadata so it can be restored on resume" | the phase ends between the read and the lock; the pipeline would resume to the phase before |
| `pipeline_recovery_violation` | "If stateEnteredAt < 2 hours ago: recover (keep state)" | a pipeline that was just started is compared with the last row of the previous one and becomes finished |
| `stories_cycle_violation` | "Checks for circular dependencies before storing" | two additions each find no cycle and store one: both stories wait for ever |

Operators named `...Bug` are mistakes a programmer could make, one beside the definition
it would replace.  Each property is violated when the mistake listed for it under
`mutants` in `PROJECT.json` is put in.

## 4. What is proved

Each proof module has a theorem `Inductive` (`Spec => []InductiveInvariant`) on which the
others rest.  The only assumptions are those on the constants, which the modules state
and the runs evaluate: bounds are natural numbers, sets of kinds have known members.  No
constant set is assumed to be finite.  `NothingStranded` has one more, which its run
satisfies: the coordinator never answers "queued".  With that answer the property is
false, since the code puts nothing into the queue that the answer speaks of (see "Not modelled,
and why").

| module | theorem | statement |
|---|---|---|
| `PipelineProofs` | `TypeCorrect` | `Spec => []TypeOK` |
| | `Exclusive` | `Spec => []ExclusiveWhileClean` |
| | `NothingLost` | `Spec => []NoLostUpdate` |
| | `HistoryAgrees` | `Spec => []AuditAgrees` |
| | `HistoryIsAPath` | `Spec => AuditIsAPath` |
| | `NothingStranded` | `Spec => []NoStrandedPhase`, if `"queued" \notin HandoffAnswers` |
| | `Refinement` | `Spec => ImplementsLifecycle` |
| `StoryProofs` | `TypeCorrect` | `Spec => []TypeOK` |
| | `NoCycles` | `Spec => []NoCycleAlone` |
| | `SomeoneGoesOn` | `Spec => []SomeoneCanGoOn`: the incomplete stories never all wait for each other |
| | `IndexCorrect` | `Spec => []IndexAgrees` |
| | `EveryoneIsAnnounced` | `Spec => []NobodyForgotten` |
| | `OnlyUnblocked` | `Spec => OnlyUnblockedAnnounced` |
| | `Implements` | `Spec => ImplementsStoryGraph` |
| `ExecutorProofs` | `TypeCorrect` | `Spec => []TypeOK` |
| | `LimitIsKept` | `Spec => []LimitKept` |
| | `CountedIsRunning` | `Spec => []CountedIsAlive` |
| | `WaitsAreFounded` | `Spec => []WaitsForSomeone` |
| | `OneVerdictEach` | `Spec => []OneVerdict` |
| | `RowsTellTheEnd` | `Spec => []RowTellsTheEnd` |
| | `AgentsAreAwaited` | `Spec => []EveryAgentIsAwaited` |
| | `OkIsDone` | `Spec => []OkMeansDone` |
| | `BadIsUndone` | `Spec => []BadDeploymentIsUndone` |
| | `PromiseIsKept` | `Spec => ImplementsPhaseJobs` |
| `RecoveryProofs` | `TypeCorrect` | `Spec => []TypeOK` |
| | `RecoveryIsBounded` | `Spec => []RecoveriesBounded` |
| | `NewestIsFound` | `Spec => []CheckpointIsNewest` |
| | `SilenceIsSeen` | `Spec => []SilenceIsNoticeable` |
| `SyncProofs` | `TypeCorrect` | `Spec => []TypeOK` |
| | `IssueIsOne` | `Spec => []OneIssue` |
| `AgreementProofs` | `Agree` | `Spec => []SyncedAgree` |

**The pipeline.**  None of the properties is inductive by itself.  That the lock excludes
needs that whoever is inside is covered by the key (`LockCovers`).  That a view is current
needs exclusion, and that nothing but the holder writes the record while `clean`.
That history and record agree needs both, at every stage of an update
(`RecordInStep`): before the write the view is the record, between the two writes the
record is what the view becomes and the last row still ends at the view, afterwards
the row ends at the record.  A new workflow must not be taken for an old one, so
`FreshWorkflows` says that the numbers of starts in flight are distinct and occur
neither in the record nor in the history.  The retry counter stays within its type
because the decision to retry is still valid when the write happens
(`WritesAreValidated`).  `InductiveInvariant` joins these.  That no phase is stranded
needs more (`PhaseAttended`): a phase that has no job has a callback that was made about
it and will be let through (`Attends`), or a call that has entered it and has yet to queue
the job (`Enters`).  A callback stays allowed because only the holder of the lock changes the
state, and whoever changes it enters the new phase; that nothing fails on the way is
the premise about faults.  Jobs that Bull gives out twice are not among these faults: the
theorem covers any number of them.  The refinement follows
action by action: only `CreateContext`, `WriteState`, `RepairState` and
`RecordExpires` change the record, and each is a lifecycle step or a breakdown.

**The stories.**  "No cycle" is stated without paths: among any stories there is one that
depends on none of them (`Acyclic`); for finitely many stories that is the same.  It
makes the proof a matter of sets.  The search keeps that what it has visited leads only
to what it has visited or has in its queue (`SearchIsSound`); when the queue is empty
the visited stories are closed under dependency, contain the one end of the new edge
and not the other, and then the edge makes no cycle (`SafeEdge`).  The index lacks at
any moment just the edge that is being indexed (`IndexInStep`).  A story that is owed
an announcement and has not got it is unblocked, and some call will still come to ask
about it (`OwedIsPending`): a completion that finds a dependency incomplete is not the
one that is responsible, since what is owed has none.  `Implements` goes through the
calls: `StoreDependencies` is `Depend`, `MarkComplete` is `Complete`, the reading of the
last status is `Announce` (`ExamineImplements`), and all else is a stutter or a breakdown.  That
nothing is due when an edge is stored (`NothingDue`) is `OwedIsPending` read backwards: who
would announce it is a completion, and none overlaps an addition.

**The jobs.**  The proof follows the composition.  `SessionProofs` says of each session
what goes together (`Consistent`: an id that is spawning has left no trace, a session
that runs is in the map, an exit code comes from a process that is gone) and counts
them (`Counted`: the sessions that are counted are finitely many, whatever `Sessions`
is).  `QueueProofs` says where a job may stand (`JobFine`): until Bull is done with a
job, no failure of its last attempt is on its way, and a verdict is owed (`Owed`) only
as long as no more were given than the job has stalled; `RowFine` is `RowTellsTheEnd`
on the way to the end.  Their lemmas say what each step of one part leaves to the others
(`Sound`, `Proper`, `LeftAlone`), so that `ExecutorProofs` need not look inside.  There
`Fits(j, p)` says what each position of a script presupposes: a smoke test, that the
deployment is live; a commit, that a session came to its end.  `OkMeansDone` also has to
survive later executions of a job that was told "ok" and then taken for stalled.  It
does because GitHub merges once: no execution of a phase that was reported as done gets
past `Merge`, so none touches the deployment.  For the refinement (`PromiseIsKept`) a verdict is owed as long
as something may still give one (`Owes`: the job is being added, waits or is at work, or its
last failure is on its way to `onFailed`); that it is not given out again after the failure
of its last attempt is the part of `JobFine` about `GaveUp`.

**Recovery.**  `Settled`: between two handlers of a project, what was recovered is in the
retries.  Within one handler (`Accounted`) the recovery it
has begun is still to be counted, and was begun with a retry left.  The checkpoints: what
is written in full for a session is no newer than its set and, as long as checkpoints
are written one at a time, no newer than the story's key (`StoryIsNewest`).  So a handler that
has still to look (`WillFindOne`) will find in its session's set, if there is one, no less
than what was there when its failure came, and so it will under the story's key if it can
look there: after a failed first read a registered session loses nothing, and an
unregistered one is `blind`.  The types
rest on `Bounded`: the sessions whose silence nobody has noticed are finitely many and leave
room for a failure each.  That the heartbeat finds each of them (`SilenceInStep`) needs that
a flag is set only in a silence, and that a session which was not started is not watched:
a handler that fails for another reason meanwhile leaves flag and silence as they are.

**The issue.**  At most one call goes by the lock of the story, and then the key exists
(`OneHolder`), as long as no lock expires under its owner.  `Paid` is the account: an
issue that is being made, or for which no item was written, is covered by an unlink or
an incident.

For `SyncedAgree` the quiet end says nothing about how it was reached, so the
invariant (`Agreement`) speaks of every moment: as long as nothing excuses it, a story that is
shown as synchronised, or may yet be (`Owing`), has something no push has carried, or is
the same as its issue, or something is under way (`Agrees`): a webhook that will write the
story or fail (`Open`), or a call that will send the story as it is now, or will find that the
item it has read was replaced, or will say what failed (`Bound`).  Around it: the numbers
of sync items tell who has read the present one (`Numbered`), all of these mean the same
issue (`TiedToOne`), the last webhook of an issue shows it as it is and its webhooks are
worked off in their order (`InOrder`), and what a resolution has fetched is the issue
or has a webhook coming (`Fetched`).  TLC has checked `AgreementInvariant` on the instance
of `issue_sync`.

The attempt showed what two calls cannot: an earlier form of the property, without
"revived" and with "crossed" at webhooks only, is false.  Links, unlinks and resolutions take no
lock, and with four or five calls

* a push creates an issue, the story is linked to that issue meanwhile, the webhook of the
  creation is worked off, the story is unlinked, linked to another issue, a webhook of
  which is written into the story, and unlinked again; then the push inserts its item as synchronised, and
  no webhook is left to show the difference;
* a resolution saves, in the same way, a row that was replaced, and whose replacement was removed;
* a push has read the story; a webhook replaces it, and the story is linked to another issue that
  happens to be what the push has read: the push changes nothing there, no webhook comes,
  and the item is saved as synchronised;
* a resolution whose item was replaced writes its issue over the story, and then throws.

The first two are now the excuse "revived", the third is "crossed", the last leaves the
story `dirty`.  The code marks none of them: the item shows "synchronised".

**Left to TLC.**  All liveness (`LockIsFreed`, `PhasesEnd`, `JobsSettle`,
`SilenceIsReported`, `EveryFailureAnswered`, `EveryWebhookSettles`), which is out of the
prover's reach.  Every other property of the passing runs is a theorem.

## 5. What is left

1. The correspondence of `PipelineStateMachine` with `PhaseJobs`, which section 2 argues step by
   step, as a formal composition of the two.
2. One of the protocols outside the orchestrator.

The hazards without a property in `PROJECT.json` are those that the code cannot meet as
it is wired, or does not withstand.
