--------------------------- MODULE PhaseExecutors ---------------------------
(***************************************************************************)
(* What a worker does for the job of a phase: PipelineJobHandler and the   *)
(* executors of the four agents (planner, dev, qa, devops), between the    *)
(* queue (AgentQueue) and the CLI sessions (CliSessions), with what they   *)
(* leave behind outside: pushed branches, pull requests, deployments.      *)
(*                                                                         *)
(* An executor is a script.  Every step that can fail turns into the       *)
(* result notok, except the preparation of the workspace, which throws.    *)
(* Neighbouring steps that only read, or only touch the workspace, are one *)
(* step here.  The jobs are those of different projects: what one merges   *)
(* or deploys no other job sees.                                           *)
(*                                                                         *)
(* GitHub and the deployment platform are external.                        *)
(*                                                                         *)
(* Left out: the executors' results other than success, progress events,   *)
(* incident reports, the QA verdict (which the handler drops), and the     *)
(* generic branch of handlePipelineJob, which no agent type reaches.       *)
(***************************************************************************)
EXTENDS AgentQueue, CliSessions

CONSTANTS
    Others,     \* sessions of jobs and callers that are not modelled
    MaxRuns,    \* bound: sessions spawned for a job
    Scenarios   \* how a behaviour may start and what may happen to it

\* agent     : the agent of each job
\* others    : the sessions of others that compete for the limit
\* incidents : bound on crashes, failed updates and cancellations
Scenario == [agent : [Jobs -> {"planner", "dev", "qa", "devops"}],
             others : SUBSET Others,
             incidents : Nat]

ASSUME ExecutorsAssumption ==
    /\ MaxRuns \in Nat
    /\ Sessions = (Jobs \X (1 .. MaxRuns)) \cup Others
    /\ Others \cap (Jobs \X (1 .. MaxRuns)) = {}
    /\ \A sc \in Scenarios : sc \in Scenario

VARIABLES
    scenario,   \* the scenario of this behaviour
    at,         \* where the executor is
    runs,       \* sessions spawned for the job so far
    outside,    \* what the job has done to the repository
    deployed,   \* the platform's view of the job's deployment
    supervised, \* jobs whose latest execution has the id of a deployment
    undone,     \* jobs for whose deployment a rollback was asked
    incidents   \* crashes, failed updates and cancellations so far

outsideVars == <<outside, deployed>>
executorVars == <<scenario, at, runs, outside, deployed, supervised, undone, incidents>>
vars == <<queueVars, sessionVars, executorVars>>

Step == {"off", "prepare", "branch", "spawn", "spawning", "wait", "commit",
         "push", "pr", "checks", "review", "merge", "detect", "trigger",
         "monitor", "rollback"}

TypeOK ==
    /\ QueueTypeOK
    /\ SessionTypeOK
    /\ scenario \in Scenarios
    /\ at \in [Jobs -> Step]
    /\ runs \in [Jobs -> 0 .. MaxRuns]
    /\ outside \in [Jobs -> SUBSET {"pushed", "pr", "reviewed", "merged"}]
    /\ deployed \in [Jobs -> {"none", "building", "live", "broken", "reverted"}]
    /\ supervised \subseteq Jobs
    /\ undone \subseteq Jobs
    /\ incidents \in 0 .. scenario.incidents

Init ==
    /\ QueueInit
    /\ SessionInit
    /\ scenario \in Scenarios
    /\ at = [j \in Jobs |-> "off"]
    /\ runs = [j \in Jobs |-> 0]
    /\ outside = [j \in Jobs |-> {}]
    /\ deployed = [j \in Jobs |-> "none"]
    /\ supervised = {}
    /\ undone = {}
    /\ incidents = 0

-----------------------------------------------------------------------------
(* Helpers *)

Agent(j) == scenario.agent[j]

\* The session of the execution that is under way.
Session(j) == <<j, runs[j]>>

GoTo(j, step) == at' = [at EXCEPT ![j] = step]

Do(j, deed) == outside' = [outside EXCEPT ![j] = @ \cup {deed}]

\* The executor returns, and with it the handler.
Ends(j, r) ==
    /\ GoTo(j, "off")
    /\ HandlerReturns(j, r)

\* The step goes on to the next or ends the script.
NextOrFail(j, next) ==
    \/ GoTo(j, next) /\ UNCHANGED queueVars
    \/ Ends(j, "notok")

\* No session can be had, or its wait was cut short: the smoke test has then
\* failed, any other script has.
NoSession(j) ==
    IF Agent(j) = "devops" THEN GoTo(j, "rollback") /\ UNCHANGED queueVars
                           ELSE Ends(j, "notok")

Quietly == UNCHANGED <<scenario, runs, outsideVars, supervised, undone, incidents>>

-----------------------------------------------------------------------------
(* The steps all agents share *)

\* handlePipelineJob is entered with the processor's switch.
Begin(j) ==
    /\ MarkProcessing(j)
    /\ GoTo(j, "prepare")
    /\ supervised' = supervised \ {j}
    /\ UNCHANGED <<sessionVars, scenario, runs, outsideVars, undone, incidents>>

\* prepareWorkspace, the one step whose failure Bull hears of.
PrepareWorkspace(j) ==
    /\ at[j] = "prepare"
    /\ \/ /\ GoTo(j, CASE Agent(j) \in {"dev", "qa"} -> "branch"
                       [] Agent(j) = "planner" -> "spawn"
                       [] Agent(j) = "devops" -> "merge")
          /\ UNCHANGED queueVars
       \/ /\ GoTo(j, "off")
          /\ HandlerThrows(j)
    /\ UNCHANGED sessionVars
    /\ Quietly

\* createFeatureBranch of dev and qa.
CreateBranch(j) ==
    /\ at[j] = "branch"
    /\ NextOrFail(j, "spawn")
    /\ UNCHANGED sessionVars
    /\ Quietly

\* spawnSession is called and passes the limit.
Spawn(j) ==
    /\ at[j] = "spawn"
    /\ runs[j] < MaxRuns
    /\ runs' = [runs EXCEPT ![j] = @ + 1]
    /\ Admit(<<j, runs'[j]>>)
    /\ GoTo(j, "spawning")
    /\ UNCHANGED <<queueVars, scenario, outsideVars, supervised, undone, incidents>>

\* It is refused, or fails later on.
SpawnFails(j) ==
    /\ \/ at[j] = "spawn" /\ Refuse
       \/ at[j] = "spawning" /\ SetupFails(Session(j))
    /\ NoSession(j)
    /\ Quietly

SpawnSucceeds(j) ==
    /\ at[j] = "spawning"
    /\ Launch(Session(j))
    /\ GoTo(j, "wait")
    /\ UNCHANGED queueVars
    /\ Quietly

\* The wait ends or is given up.
GiveUp(j) ==
    /\ at[j] = "wait"
    /\ IF Agent(j) = "devops" THEN SmokeTimeout(Session(j))
                              ELSE SafetyTimeout(Session(j))
    /\ UNCHANGED <<queueVars, at>>
    /\ Quietly

Code(j) == waiter[Session(j)]

\* The session of planner, dev or qa has ended.  stopStreaming may throw.
SessionEnds(j) ==
    /\ at[j] = "wait"
    /\ Agent(j) # "devops"
    /\ Code(j) # "waiting"
    /\ IF Code(j) = "zero"
       THEN NextOrFail(j, IF Agent(j) = "qa" THEN "checks" ELSE "commit")
       ELSE Ends(j, "notok")
    /\ UNCHANGED sessionVars
    /\ Quietly

-----------------------------------------------------------------------------
(* planner and dev *)

\* dev: test results, then the latest commit.  planner: the documents are
\* validated, staged and committed; nothing to commit is a success.
Commit(j) ==
    /\ at[j] = "commit"
    /\ \/ NextOrFail(j, "push")
       \/ Agent(j) = "planner" /\ Ends(j, "ok")
    /\ UNCHANGED sessionVars
    /\ Quietly

\* pushBranch of dev, pushToRemote of planner; the answer may be lost.
Push(j) ==
    /\ at[j] = "push"
    /\ \/ /\ Do(j, "pushed")
          /\ IF Agent(j) = "planner"
             THEN Ends(j, "ok")
             ELSE GoTo(j, "pr") /\ UNCHANGED queueVars
       \/ /\ Do(j, "pushed") \/ UNCHANGED outside
          /\ Ends(j, "notok")
    /\ UNCHANGED <<sessionVars, scenario, runs, deployed, supervised, undone, incidents>>

\* createPullRequest finds the one that is there already.
CreatePullRequest(j) ==
    /\ at[j] = "pr"
    /\ \/ Do(j, "pr") /\ Ends(j, "ok")
       \/ /\ Do(j, "pr") \/ UNCHANGED outside
          /\ Ends(j, "notok")
    /\ UNCHANGED <<sessionVars, scenario, runs, deployed, supervised, undone, incidents>>

-----------------------------------------------------------------------------
(* qa *)

\* Tests, lint, types, audit and secrets, acceptance criteria, report.
Check(j) ==
    /\ at[j] = "checks"
    /\ NextOrFail(j, "review")
    /\ UNCHANGED sessionVars
    /\ Quietly

\* submitPRReview swallows its errors: the phase ends well either way.
Review(j) ==
    /\ at[j] = "review"
    /\ \/ Do(j, "reviewed") \/ UNCHANGED outside
    /\ Ends(j, "ok")
    /\ UNCHANGED <<sessionVars, scenario, runs, deployed, supervised, undone, incidents>>

-----------------------------------------------------------------------------
(* devops *)

\* mergePullRequest.  GitHub refuses to merge what is merged, and its answer
\* may be lost.
Merge(j) ==
    /\ at[j] = "merge"
    /\ \/ /\ "merged" \notin outside[j]
          /\ Do(j, "merged")
          /\ NextOrFail(j, "detect")
       \/ Ends(j, "notok") /\ UNCHANGED outside
    /\ UNCHANGED <<sessionVars, scenario, runs, deployed, supervised, undone, incidents>>

\* detectPlatform, which finds none if the integrations do not answer.
DetectPlatform(j) ==
    /\ at[j] = "detect"
    /\ NextOrFail(j, "trigger")
    /\ UNCHANGED sessionVars
    /\ Quietly

\* triggerDeployment.  If its answer is lost the platform deploys and the
\* executor has no id to ask for or to roll back.
Trigger(j) ==
    /\ at[j] = "trigger"
    /\ \/ /\ deployed' = [deployed EXCEPT ![j] = "building"]
          /\ supervised' = supervised \cup {j}
          /\ GoTo(j, "monitor")
          /\ UNCHANGED queueVars
       \/ /\ \/ deployed' = [deployed EXCEPT ![j] = "building"]
             \/ UNCHANGED deployed
          /\ Ends(j, "notok")
          /\ UNCHANGED supervised
    /\ UNCHANGED <<sessionVars, scenario, runs, outside, undone, incidents>>

\* A deployment that does not end in time is left to itself.
MonitorBug(j) ==
    /\ at[j] = "monitor"
    /\ \/ /\ deployed[j] = "live"
          /\ GoTo(j, "spawn") /\ UNCHANGED queueVars
       \/ /\ deployed[j] = "broken"
          /\ GoTo(j, "rollback") /\ UNCHANGED queueVars
       \/ /\ deployed[j] = "building"
          /\ Ends(j, "notok")
    /\ UNCHANGED sessionVars
    /\ Quietly

\* waitForDeployment polls until the deployment ends or ten minutes are over;
\* a poll that fails only costs time.
Monitor(j) ==
    /\ at[j] = "monitor"
    /\ GoTo(j, "rollback") \/ (deployed[j] = "live" /\ GoTo(j, "spawn"))
    /\ UNCHANGED <<queueVars, sessionVars>>
    /\ Quietly

\* A report that could not be found counts as passed.
SmokePassedBug(j) == Code(j) # "nonzero" /\ printed[Session(j)] # "failed"

\* runSmokeTests reads the report from the output buffer: without one the
\* tests have failed.  An exit code other than 0 fails them; none at all, the
\* time-out, does not.
SmokePassed(j) == Code(j) # "nonzero" /\ printed[Session(j)] = "passed"

SmokeTestEnds(j) ==
    /\ at[j] = "wait"
    /\ Agent(j) = "devops"
    /\ Code(j) # "waiting"
    /\ \/ SmokePassed(j) /\ Ends(j, "ok")
       \/ GoTo(j, "rollback") /\ UNCHANGED queueVars
    /\ UNCHANGED sessionVars
    /\ Quietly

\* performRollback, which catches all errors: it may do nothing.
Rollback(j) ==
    /\ at[j] = "rollback"
    /\ undone' = undone \cup {j}
    /\ \/ deployed' = [deployed EXCEPT ![j] = "reverted"] \/ UNCHANGED deployed
    /\ Ends(j, "notok")
    /\ UNCHANGED <<sessionVars, scenario, runs, outside, supervised, incidents>>

\* The platform ends a deployment, whoever watches.
PlatformEnds(j) ==
    /\ deployed[j] = "building"
    /\ \E end \in {"live", "broken"} : deployed' = [deployed EXCEPT ![j] = end]
    /\ UNCHANGED <<queueVars, sessionVars, scenario, at, runs, outside, supervised,
                   undone, incidents>>

-----------------------------------------------------------------------------
(* The system *)

Execute(j) ==
    \/ Begin(j) \/ PrepareWorkspace(j) \/ CreateBranch(j)
    \/ Spawn(j) \/ SpawnFails(j) \/ SpawnSucceeds(j) \/ GiveUp(j) \/ SessionEnds(j)
    \/ Commit(j) \/ Push(j) \/ CreatePullRequest(j)
    \/ Check(j) \/ Review(j)
    \/ Merge(j) \/ DetectPlatform(j) \/ Trigger(j) \/ Monitor(j)
    \/ SmokeTestEnds(j) \/ Rollback(j)

\* The steps of the queue that do not concern the executor.
Serve(j) ==
    /\ \/ Enqueue(j) \/ SaveBullId(j)
       \/ Take(j) \/ MarkCompleted(j) \/ Notify(j) \/ Return(j)
       \/ Redeliver(j)
       \/ \E a \in late[j] : RecordFailure(j, a)
       \/ TellFailure(j)
    /\ UNCHANGED <<sessionVars, executorVars>>

\* The pipeline enters a phase; a cancellation goes on.
Request(j) ==
    /\ AddJob(j) \/ RemoveBullJob(j) \/ MarkCancelled(j)
    /\ UNCHANGED <<sessionVars, executorVars>>

\* The CLI processes and the timers of their sessions.
SessionRuns(s) ==
    /\ TimesOut(s) \/ \E ok \in BOOLEAN : ProcessExits(s, ok)
    /\ UNCHANGED <<queueVars, executorVars>>

\* The results of a smoke test are printed.
Report(j) ==
    /\ Agent(j) = "devops"
    /\ \E r \in {"passed", "failed"} : runs[j] > 0 /\ OnOutput(Session(j), r)
    /\ UNCHANGED <<queueVars, executorVars>>

\* The sessions of others compete for the limit.
OtherSession(s) ==
    /\ Admit(s) \/ SetupFails(s) \/ Launch(s) \/ SafetyTimeout(s)
    /\ UNCHANGED <<queueVars, executorVars>>

\* An update of the database or the call of Redis fails.
StoreFails(j) ==
    /\ \/ EnqueueFails(j) \/ MarkFails(j) \/ MarkCompletedFails(j)
       \/ \E a \in late[j] : RecordFails(j, a)
    /\ UNCHANGED <<sessionVars, at, supervised>>

UserCancels(j) ==
    /\ Cancel(j)
    /\ UNCHANGED <<sessionVars, at, supervised>>

\* The instance dies and starts again.
Crash ==
    /\ LoseWorkers
    /\ LoseSessions
    /\ at' = [j \in Jobs |-> "off"]
    /\ supervised' = {}

Incident ==
    /\ incidents < scenario.incidents
    /\ incidents' = incidents + 1
    /\ Crash \/ \E j \in Jobs : StoreFails(j) \/ UserCancels(j)
    /\ UNCHANGED <<scenario, runs, outsideVars, undone>>

Next ==
    \/ \E j \in Jobs : \/ Execute(j) \/ Serve(j) \/ Request(j)
                       \/ Report(j) \/ PlatformEnds(j)
    \/ \E s \in Sessions : SessionRuns(s)
    \/ \E s \in scenario.others : OtherSession(s)
    \/ Incident

Spec == Init /\ [][Next]_vars

\* What a live instance does sooner or later: it goes on with what it has
\* begun, Bull gives out waiting and stalled jobs, timers fire.  Nothing is
\* assumed of the CLI processes, the platform or the users.
Fairness ==
    /\ \A j \in Jobs : WF_vars(Execute(j)) /\ WF_vars(Serve(j))
    /\ \A s \in Sessions :
          WF_vars(TimesOut(s) /\ UNCHANGED <<queueVars, executorVars>>)

FairSpec == Spec /\ Fairness

-----------------------------------------------------------------------------
(* Properties *)

\* Every session that runs has an executor that waits for it, and is the only
\* one of its job: no time-out, refusal or failure leaves an agent running in
\* a workspace behind the executor's back.
EveryAgentIsAwaited ==
    \A s \in Sessions \ Others : status[s] = "RUNNING" =>
        /\ at[s[1]] = "wait"
        /\ s = Session(s[1])
        /\ waiter[s] = "waiting"

\* A phase of which the pipeline was told that it went well has done its work:
\* its session came to an end, dev has pushed and opened a pull request, devops
\* has merged, and the deployment is up, was seen to pass the smoke tests and
\* was not rolled back.
OkMeansDone ==
    \A j \in Jobs : (\E i \in DOMAIN told[j] : told[j][i] = "ok") =>
        /\ Agent(j) # "devops" => \E r \in 1 .. runs[j] : proc[<<j, r>>] = "gone"
        /\ Agent(j) = "dev" => {"pushed", "pr"} \subseteq outside[j]
        /\ Agent(j) = "devops" =>
              /\ "merged" \in outside[j]
              /\ deployed[j] = "live"
              /\ j \notin undone
              /\ \E r \in 1 .. runs[j] : printed[<<j, r>>] = "passed"

\* An execution that has triggered a deployment, knows its id and does not end
\* well has asked for its rollback.
BadDeploymentIsUndone ==
    \A j \in supervised : result[j] = "notok" => j \in undone
=============================================================================
