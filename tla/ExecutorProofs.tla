--------------------------- MODULE ExecutorProofs ---------------------------
(***************************************************************************)
(* Theorems about PhaseExecutors with its queue and its sessions, for any  *)
(* number of jobs, attempts, sessions, competing sessions and incidents.   *)
(***************************************************************************)
EXTENDS PhaseExecutors, QueueProofs, SessionProofs

\* The work of a phase is done, as OkMeansDone asks for it.
Done(j) ==
    /\ Agent(j) # "devops" => \E r \in 1 .. runs[j] : proc[<<j, r>>] = "gone"
    /\ Agent(j) = "dev" => {"pushed", "pr"} \subseteq outside[j]
    /\ Agent(j) = "devops" =>
          /\ "merged" \in outside[j]
          /\ deployed[j] = "live"
          /\ j \notin undone
          /\ \E r \in 1 .. runs[j] : printed[<<j, r>>] = "passed"

\* The steps after a session that ended well, and those of a smoke test.
Ended == {"commit", "push", "pr", "checks", "review"}

Testing(j, p) == Agent(j) = "devops" /\ p \in {"spawn", "spawning", "wait"}

AfterMerge(j, p) == p \in {"detect", "trigger", "monitor", "rollback"} \/ Testing(j, p)

\* What must be so for the executor of j to be at p: whose step it is, and
\* what the steps before it have left behind.  A pull request is merged once,
\* so a phase that was reported as done is not deployed again.
Fits(j, p) ==
    /\ p = "branch" => Agent(j) \in {"dev", "qa"}
    /\ p \in {"commit", "push"} => Agent(j) \in {"planner", "dev"}
    /\ p = "pr" => Agent(j) = "dev" /\ "pushed" \in outside[j]
    /\ p \in {"checks", "review"} => Agent(j) = "qa"
    /\ p \in {"merge", "detect", "trigger", "monitor", "rollback"} => Agent(j) = "devops"
    /\ p \in {"spawning", "wait"} \cup Ended => runs[j] \in 1 .. MaxRuns
    /\ p \in Ended => proc[Session(j)] = "gone"
    /\ AfterMerge(j, p) => "merged" \in outside[j] /\ j \notin undone
    /\ Testing(j, p) => deployed[j] = "live"
    /\ j \in supervised => p \in {"off", "monitor", "rollback"} \/ Testing(j, p)
    /\ ToldOk(j) /\ Agent(j) = "devops" => p \in {"off", "prepare", "merge"}

Awaited(j) ==
    \A r \in 1 .. MaxRuns : status[<<j, r>>] = "RUNNING" =>
        at[j] = "wait" /\ r = runs[j] /\ waiter[<<j, r>>] = "waiting"

ScriptFine(j) ==
    /\ at[j] # "off" => work[j] = "run"
    /\ Fits(j, at[j])
    /\ j \in undone => "merged" \in outside[j]
    /\ j \in supervised /\ result[j] = "notok" => j \in undone
    /\ ToldOk(j) \/ result[j] = "ok" => Done(j)
    /\ Awaited(j)

ExecutorTypeOK ==
    /\ scenario \in Scenarios
    /\ at \in [Jobs -> Step]
    /\ runs \in [Jobs -> 0 .. MaxRuns]
    /\ outside \in [Jobs -> SUBSET {"pushed", "pr", "reviewed", "merged"}]
    /\ deployed \in [Jobs -> {"none", "building", "live", "broken", "reverted"}]
    /\ supervised \subseteq Jobs
    /\ undone \subseteq Jobs
    /\ incidents \in 0 .. scenario.incidents

InductiveInvariant ==
    /\ ExecutorTypeOK
    /\ QueueFine
    /\ SessionsFine
    /\ \A j \in Jobs : ScriptFine(j)

-----------------------------------------------------------------------------
(* Helpers *)

\* The sessions of jobs are sessions, and none of them is another's.
LEMMA JobSessions ==
    /\ MaxRuns \in Nat /\ Attempts \in Nat \ {0} /\ MaxConcurrent \in Nat \ {0}
    /\ \A j \in Jobs, r \in 1 .. MaxRuns : <<j, r>> \in Sessions \ Others
    /\ \A s \in Sessions \ Others : \E j \in Jobs, r \in 1 .. MaxRuns : s = <<j, r>>
    /\ Others \subseteq Sessions
    /\ \A sc \in Scenarios : sc.others \subseteq Others /\ sc.incidents \in Nat
                             /\ sc.agent \in [Jobs -> {"planner", "dev", "qa", "devops"}]
BY ExecutorsAssumption, QueueAssumption, SessionsAssumption DEF Scenario

\* An executor at work has a worker and no result yet.
LEMMA OnDuty ==
    ASSUME InductiveInvariant, NEW j \in Jobs, at[j] # "off"
    PROVE  work[j] = "run" /\ result[j] = "none" /\ bull[j] = "active"
BY DEF InductiveInvariant, ScriptFine, QueueFine, JobFine

\* What is done stays done as long as the deployment is left alone.
LEMMA DoneLasts ==
    ASSUME InductiveInvariant, NEW j \in Jobs, Done(j), Lasting, scenario' = scenario,
           runs'[j] \in 0 .. MaxRuns, runs[j] <= runs'[j],
           outside[j] \subseteq outside'[j],
           Agent(j) = "devops" => /\ deployed[j] = "live" => deployed'[j] = "live"
                                  /\ j \in undone' => j \in undone
    PROVE  Done(j)'
<1>1. Agent(j)' = Agent(j)
  BY DEF Agent
<1>2. runs[j] \in 0 .. MaxRuns /\ MaxRuns \in Nat
  BY JobSessions DEF InductiveInvariant, ExecutorTypeOK
<1>3. \A r \in 1 .. runs[j] : r \in 1 .. runs'[j] /\ r \in 1 .. MaxRuns
  BY <1>2
<1>4. \A r \in 1 .. runs[j] : <<j, r>> \in Sessions
  BY <1>3, JobSessions
<1>5. ASSUME Agent(j) # "devops" PROVE \E r \in 1 .. runs'[j] : proc'[<<j, r>>] = "gone"
  BY <1>3, <1>4, <1>5 DEF Done, Lasting
<1>6. ASSUME Agent(j) = "devops" PROVE \E r \in 1 .. runs'[j] : printed'[<<j, r>>] = "passed"
  BY <1>3, <1>4, <1>6 DEF Done, Lasting
<1>7. ASSUME Agent(j) = "dev" PROVE {"pushed", "pr"} \subseteq outside'[j]
  BY <1>7 DEF Done
<1>8. ASSUME Agent(j) = "devops"
      PROVE  "merged" \in outside'[j] /\ deployed'[j] = "live" /\ j \notin undone'
  BY <1>8 DEF Done
<1> QED BY <1>1, <1>5, <1>6, <1>7, <1>8 DEF Done

\* No step of another is felt by the executor of k.
Kept(k) ==
    /\ at'[k] = at[k]
    /\ runs'[k] = runs[k]
    /\ outside'[k] = outside[k]
    /\ deployed[k] = "live" => deployed'[k] = "live"
    /\ k \in supervised' <=> k \in supervised
    /\ k \in undone' <=> k \in undone
    /\ LeftAlone(k)
    /\ \A r \in 1 .. MaxRuns : NotStarted(<<k, r>>)

LEMMA KeptFine ==
    ASSUME InductiveInvariant, NEW k \in Jobs, Kept(k), Lasting, scenario' = scenario
    PROVE  ScriptFine(k)'
<1>1. ScriptFine(k) /\ Agent(k)' = Agent(k) /\ Session(k)' = Session(k)
  BY DEF InductiveInvariant, Agent, Session, Kept
<1>2. at[k] # "off" => work[k] = "run" /\ result[k] = "none"
  BY OnDuty
<1>3. ASSUME runs[k] \in 1 .. MaxRuns, proc[Session(k)] = "gone"
      PROVE  proc'[Session(k)] = "gone"
  BY <1>3, JobSessions DEF Session, Lasting
<1>4. ToldOk(k)' => ToldOk(k) \/ (result[k] = "ok" /\ at[k] = "off")
  BY <1>2 DEF Kept, LeftAlone
<1>5. Fits(k, at[k])'
  BY <1>1, <1>3, <1>4 DEF ScriptFine, Fits, Testing, AfterMerge, Ended, Kept
<1>6. ToldOk(k)' \/ result'[k] = "ok" => Done(k)'
  <2>1. ToldOk(k)' \/ result'[k] = "ok" => Done(k)
    BY <1>1, <1>4 DEF ScriptFine, Kept, LeftAlone
  <2>2. runs'[k] = runs[k] /\ runs[k] \in 0 .. MaxRuns /\ runs[k] <= runs[k]
    BY JobSessions DEF Kept, InductiveInvariant, ExecutorTypeOK
  <2> QED BY <2>1, <2>2, DoneLasts DEF Kept
<1>7. Awaited(k)'
  BY <1>1 DEF ScriptFine, Awaited, Kept, NotStarted
<1>8. at'[k] # "off" => work'[k] = "run"
  BY <1>1 DEF ScriptFine, Kept, LeftAlone
<1>9. k \in undone' => "merged" \in outside'[k]
  BY <1>1 DEF ScriptFine, Kept
<1>10. k \in supervised' /\ result'[k] = "notok" => k \in undone'
  BY <1>1 DEF ScriptFine, Kept, LeftAlone
<1> QED BY <1>5, <1>6, <1>7, <1>8, <1>9, <1>10 DEF ScriptFine

\* A step that no executor takes.
LEMMA NobodysStep ==
    ASSUME InductiveInvariant, QueueFine', SessionsFine', Lasting,
           \A k \in Jobs : LeftAlone(k),
           \A k \in Jobs, r \in 1 .. MaxRuns : NotStarted(<<k, r>>),
           UNCHANGED <<scenario, at, runs, outside, supervised, undone>>,
           deployed' \in [Jobs -> {"none", "building", "live", "broken", "reverted"}],
           \A k \in Jobs : deployed[k] = "live" => deployed'[k] = "live",
           incidents' \in 0 .. scenario.incidents
    PROVE  InductiveInvariant'
<1>1. \A k \in Jobs : ScriptFine(k)'
  BY KeptFine DEF Kept
<1>2. ExecutorTypeOK'
  BY DEF InductiveInvariant, ExecutorTypeOK
<1> QED BY <1>1, <1>2 DEF InductiveInvariant

\* A step of the executor of j.
LEMMA OwnStep ==
    ASSUME InductiveInvariant, NEW j \in Jobs, NEW step \in Step, GoTo(j, step),
           QueueFine', SessionsFine', Lasting,
           \A k \in Jobs \ {j} : LeftAlone(k),
           \A k \in Jobs \ {j}, r \in 1 .. MaxRuns : NotStarted(<<k, r>>),
           UNCHANGED <<scenario, incidents>>,
           runs' \in [Jobs -> 0 .. MaxRuns],
           outside' \in [Jobs -> SUBSET {"pushed", "pr", "reviewed", "merged"}],
           deployed' \in [Jobs -> {"none", "building", "live", "broken", "reverted"}],
           supervised' \subseteq Jobs, undone' \subseteq Jobs,
           \A k \in Jobs \ {j} : /\ runs'[k] = runs[k]
                                 /\ outside'[k] = outside[k]
                                 /\ deployed'[k] = deployed[k]
                                 /\ k \in supervised' <=> k \in supervised
                                 /\ k \in undone' <=> k \in undone,
           ScriptFine(j)'
    PROVE  InductiveInvariant'
<1>1. ASSUME NEW k \in Jobs \ {j} PROVE ScriptFine(k)'
  <2>1. at'[k] = at[k]
    BY DEF GoTo, InductiveInvariant, ExecutorTypeOK
  <2> QED BY <2>1, KeptFine DEF Kept
<1>2. \A k \in Jobs : ScriptFine(k)'
  BY <1>1
<1>3. ExecutorTypeOK'
  BY DEF InductiveInvariant, ExecutorTypeOK, GoTo
<1> QED BY <1>2, <1>3 DEF InductiveInvariant

\* The ways in which an executor leaves the queue: as it is, with a result, or
\* with an exception.
LEMMA QueueSide ==
    ASSUME InductiveInvariant, NEW j \in Jobs,
           \/ UNCHANGED queueVars
           \/ HandlerThrows(j)
           \/ \E r \in {"ok", "notok"} : HandlerReturns(j, r)
    PROVE  /\ QueueFine'
           /\ ToldOk(j)' <=> ToldOk(j)
           /\ \A k \in Jobs \ {j} : LeftAlone(k)
<1> USE JobSessions
<1>1. QueueFine
  BY DEF InductiveInvariant
<1>2. CASE UNCHANGED queueVars
  <2>1. QueueFine' /\ \A k \in Jobs : LeftAlone(k)
    BY <1>1, <1>2, QueueRests DEF Proper
  <2>2. told' = told
    BY <1>2 DEF queueVars, workerVars
  <2> QED BY <2>1, <2>2 DEF ToldOk
<1>3. CASE HandlerThrows(j)
  <2>1. QueueFine' /\ told' = told /\ \A k \in Jobs \ {j} : LeftAlone(k)
    BY <1>1, <1>3, HandlerThrowsFine
  <2> QED BY <2>1 DEF ToldOk
<1>4. CASE \E r \in {"ok", "notok"} : HandlerReturns(j, r)
  <2>1. PICK r \in {"ok", "notok"} : HandlerReturns(j, r)
    BY <1>4
  <2>2. QueueFine' /\ told' = told /\ \A k \in Jobs \ {j} : LeftAlone(k)
    BY <1>1, <2>1, HandlerReturnsFine
  <2> QED BY <2>2 DEF ToldOk
<1> QED BY <1>2, <1>3, <1>4

\* While the executor does not wait for it, no session of the job runs, and
\* none will after a step that starts none.
Idle(j) == \A r \in 1 .. MaxRuns : status[<<j, r>>] # "RUNNING"

LEMMA NoneRuns ==
    ASSUME InductiveInvariant, NEW j \in Jobs, Sound,
           at[j] # "wait" \/ waiter[Session(j)] # "waiting"
    PROVE  Idle(j) /\ Idle(j)' /\ Awaited(j)'
<1>1. Idle(j)
  BY DEF InductiveInvariant, ScriptFine, Awaited, Idle, Session
<1>2. Idle(j)'
  BY <1>1, JobSessions DEF Idle, Sound, NotStarted
<1> QED BY <1>1, <1>2 DEF Idle, Awaited

\* The executor goes on to a step that fits, and changes nothing else.
LEMMA GoesOn ==
    ASSUME InductiveInvariant, NEW j \in Jobs, NEW step \in Step, step # "off",
           at[j] # "off", at[j] # "wait" \/ waiter[Session(j)] # "waiting",
           GoTo(j, step), UNCHANGED queueVars, Quietly, Sound, Fits(j, step)
    PROVE  InductiveInvariant'
<1>1. /\ QueueFine' /\ (ToldOk(j)' <=> ToldOk(j))
      /\ \A k \in Jobs \ {j} : LeftAlone(k)
  BY QueueSide
<1>2. SessionsFine' /\ Lasting /\ \A s \in Sessions : NotStarted(s)
  BY DEF Sound
<1>3. \A k \in Jobs, r \in 1 .. MaxRuns : NotStarted(<<k, r>>)
  BY <1>2, JobSessions
<1>4. /\ UNCHANGED <<scenario, runs, outside, deployed, supervised, undone, incidents>>
      /\ at'[j] = step
  BY DEF Quietly, outsideVars, GoTo, InductiveInvariant, ExecutorTypeOK
<1>5. Agent(j)' = Agent(j) /\ Session(j)' = Session(j)
  BY <1>4 DEF Agent, Session
<1>6. work'[j] = "run" /\ result'[j] = "none" /\ result[j] = "none"
  BY OnDuty DEF queueVars, workerVars
<1>7. ASSUME runs[j] \in 1 .. MaxRuns, proc[Session(j)] = "gone"
      PROVE  proc'[Session(j)] = "gone"
  BY <1>2, <1>7, JobSessions DEF Session, Lasting
<1>8. Fits(j, at[j])'
  BY <1>1, <1>4, <1>5, <1>7 DEF Fits, Testing, AfterMerge, Ended
<1>9. ToldOk(j)' => Done(j)'
  <2>1. ToldOk(j) => Done(j)
    BY DEF InductiveInvariant, ScriptFine
  <2>2. runs'[j] = runs[j] /\ runs[j] \in 0 .. MaxRuns /\ runs[j] <= runs[j]
    BY <1>4, JobSessions DEF InductiveInvariant, ExecutorTypeOK
  <2> QED BY <1>1, <1>2, <1>4, <2>1, <2>2, DoneLasts
<1>10. j \in undone' => "merged" \in outside'[j]
  BY <1>4 DEF InductiveInvariant, ScriptFine
<1>11. ScriptFine(j)'
  BY <1>4, <1>6, <1>8, <1>9, <1>10, NoneRuns DEF ScriptFine
<1> QED BY <1>1, <1>2, <1>3, <1>4, <1>11, OwnStep DEF InductiveInvariant, ExecutorTypeOK

\* The executor ends: with the work done, or without a deployment to undo.
LEMMA Stops ==
    ASSUME InductiveInvariant, NEW j \in Jobs, NEW r \in {"ok", "notok"},
           at[j] # "off", at[j] # "wait" \/ waiter[Session(j)] # "waiting",
           Ends(j, r), Quietly, Sound,
           r = "ok" => Done(j), r = "notok" => j \notin supervised
    PROVE  InductiveInvariant'
<1>1. HandlerReturns(j, r) /\ GoTo(j, "off") /\ "off" \in Step
  BY DEF Ends, Step
<1>2. /\ QueueFine' /\ (ToldOk(j)' <=> ToldOk(j))
      /\ \A k \in Jobs \ {j} : LeftAlone(k)
  BY <1>1, QueueSide
<1>3. result'[j] = r
  BY <1>1, HandlerReturnsFine, JobSessions DEF InductiveInvariant
<1>4. SessionsFine' /\ Lasting /\ \A s \in Sessions : NotStarted(s)
  BY DEF Sound
<1>5. \A k \in Jobs, n \in 1 .. MaxRuns : NotStarted(<<k, n>>)
  BY <1>4, JobSessions
<1>6. /\ UNCHANGED <<scenario, runs, outside, deployed, supervised, undone, incidents>>
      /\ at'[j] = "off"
  BY <1>1 DEF Quietly, outsideVars, GoTo, InductiveInvariant, ExecutorTypeOK
<1>7. Fits(j, at[j])'
  BY <1>6 DEF Fits, Testing, AfterMerge, Ended
<1>8. ToldOk(j)' \/ result'[j] = "ok" => Done(j)'
  <2>1. ToldOk(j)' \/ result'[j] = "ok" => Done(j)
    BY <1>2, <1>3 DEF InductiveInvariant, ScriptFine
  <2>2. runs'[j] = runs[j] /\ runs[j] \in 0 .. MaxRuns /\ runs[j] <= runs[j]
    BY <1>6, JobSessions DEF InductiveInvariant, ExecutorTypeOK
  <2> QED BY <1>4, <1>6, <2>1, <2>2, DoneLasts
<1>9. j \in undone' => "merged" \in outside'[j]
  BY <1>6 DEF InductiveInvariant, ScriptFine
<1>10. ScriptFine(j)'
  BY <1>3, <1>6, <1>7, <1>8, <1>9, NoneRuns DEF ScriptFine
<1> QED BY <1>1, <1>2, <1>4, <1>5, <1>6, <1>10, OwnStep DEF InductiveInvariant, ExecutorTypeOK

-----------------------------------------------------------------------------
(* The steps all agents share *)

LEMMA SessionsStay ==
    ASSUME InductiveInvariant, UNCHANGED sessionVars
    PROVE  Sound
BY SessionsRest, JobSessions DEF InductiveInvariant

\* What is known where the executor is.
LEMMA Here ==
    ASSUME InductiveInvariant, NEW j \in Jobs
    PROVE  /\ Fits(j, at[j])
           /\ Agent(j) \in {"planner", "dev", "qa", "devops"}
           /\ at[j] \in Step
<1>1. scenario \in Scenarios /\ at \in [Jobs -> Step] /\ ScriptFine(j)
  BY DEF InductiveInvariant, ExecutorTypeOK
<1>2. scenario.agent \in [Jobs -> {"planner", "dev", "qa", "devops"}]
  BY <1>1, JobSessions
<1> QED BY <1>1, <1>2 DEF ScriptFine, Agent

LEMMA BeginFine ==
    ASSUME InductiveInvariant, NEW j \in Jobs, Begin(j)
    PROVE  InductiveInvariant'
<1>1. /\ MarkProcessing(j) /\ GoTo(j, "prepare") /\ supervised' = supervised \ {j}
      /\ UNCHANGED <<scenario, runs, outside, deployed, undone, incidents>>
      /\ UNCHANGED sessionVars /\ "prepare" \in Step
  BY DEF Begin, outsideVars, Step
<1>2. QueueFine' /\ \A k \in Jobs : LeftAlone(k)
  BY <1>1, MarkProcessingProper, JobSessions DEF InductiveInvariant, Proper
<1>3. Sound
  BY <1>1, SessionsStay
<1>4. /\ SessionsFine' /\ Lasting
      /\ \A k \in Jobs, r \in 1 .. MaxRuns : NotStarted(<<k, r>>)
  BY <1>3, JobSessions DEF Sound
<1>5. work[j] = "mark" /\ work'[j] = "run" /\ result'[j] = result[j]
      /\ told' = told /\ bull[j] = "active"
  BY <1>1 DEF MarkProcessing, InductiveInvariant, QueueFine, QueueTypeOK, JobFine
<1>6. at[j] = "off" /\ at'[j] = "prepare" /\ j \notin supervised'
  BY <1>1, <1>5 DEF GoTo, InductiveInvariant, ExecutorTypeOK, ScriptFine
<1>7. result[j] = "none"
  BY <1>5 DEF InductiveInvariant, QueueFine, JobFine
<1>8. Fits(j, at[j])'
  BY <1>6 DEF Fits, Testing, AfterMerge, Ended
<1>9. ToldOk(j)' => Done(j)'
  <2>1. ToldOk(j)' => Done(j)
    BY <1>5 DEF InductiveInvariant, ScriptFine, ToldOk
  <2>2. runs'[j] = runs[j] /\ runs[j] \in 0 .. MaxRuns /\ runs[j] <= runs[j]
    BY <1>1, JobSessions DEF InductiveInvariant, ExecutorTypeOK
  <2> QED BY <1>1, <1>4, <2>1, <2>2, DoneLasts
<1>10. j \in undone' => "merged" \in outside'[j]
  BY <1>1 DEF InductiveInvariant, ScriptFine
<1>11. ScriptFine(j)'
  BY <1>3, <1>5, <1>6, <1>7, <1>8, <1>9, <1>10, NoneRuns DEF ScriptFine
<1> QED BY <1>1, <1>2, <1>4, <1>11, OwnStep DEF InductiveInvariant, ExecutorTypeOK

LEMMA PrepareWorkspaceFine ==
    ASSUME InductiveInvariant, NEW j \in Jobs, PrepareWorkspace(j)
    PROVE  InductiveInvariant'
<1>1. at[j] = "prepare" /\ UNCHANGED sessionVars /\ Quietly
  BY DEF PrepareWorkspace
<1>2. Sound
  BY <1>1, SessionsStay
<1>3. Fits(j, "prepare") /\ Agent(j) \in {"planner", "dev", "qa", "devops"}
  BY <1>1, Here
<1>4. j \notin supervised
  BY <1>3 DEF Fits, Testing
<1>5. CASE UNCHANGED queueVars /\ \E step \in {"branch", "spawn", "merge"} :
             /\ GoTo(j, step)
             /\ step = "branch" => Agent(j) \in {"dev", "qa"}
             /\ step = "spawn" => Agent(j) = "planner"
             /\ step = "merge" => Agent(j) = "devops"
  <2>1. PICK step \in {"branch", "spawn", "merge"} :
          /\ GoTo(j, step)
          /\ step = "branch" => Agent(j) \in {"dev", "qa"}
          /\ step = "spawn" => Agent(j) = "planner"
          /\ step = "merge" => Agent(j) = "devops"
    BY <1>5
  <2>2. Fits(j, step) /\ step \in Step /\ step # "off"
    BY <2>1, <1>3, <1>4 DEF Fits, Testing, AfterMerge, Ended, Step
  <2> QED BY <1>1, <1>2, <1>5, <2>1, <2>2, GoesOn
<1>6. CASE GoTo(j, "off") /\ HandlerThrows(j)
  <2>1. /\ QueueFine' /\ (ToldOk(j)' <=> ToldOk(j))
        /\ \A k \in Jobs \ {j} : LeftAlone(k)
    BY <1>6, QueueSide
  <2>2. result'[j] = "none"
    BY <1>6, HandlerThrowsFine, JobSessions DEF InductiveInvariant
  <2>3. /\ SessionsFine' /\ Lasting
        /\ \A k \in Jobs, r \in 1 .. MaxRuns : NotStarted(<<k, r>>)
    BY <1>2, JobSessions DEF Sound
  <2>4. /\ UNCHANGED <<scenario, runs, outside, deployed, supervised, undone, incidents>>
        /\ at'[j] = "off" /\ "off" \in Step
    BY <1>1, <1>6 DEF Quietly, outsideVars, GoTo, InductiveInvariant, ExecutorTypeOK, Step
  <2>5. Fits(j, at[j])'
    BY <2>4 DEF Fits, Testing, AfterMerge, Ended
  <2>6. ToldOk(j)' => Done(j)'
    <3>1. ToldOk(j) => Done(j)
      BY DEF InductiveInvariant, ScriptFine
    <3>2. runs'[j] = runs[j] /\ runs[j] \in 0 .. MaxRuns /\ runs[j] <= runs[j]
      BY <2>4, JobSessions DEF InductiveInvariant, ExecutorTypeOK
    <3> QED BY <2>1, <2>3, <2>4, <3>1, <3>2, DoneLasts
  <2>7. j \in undone' => "merged" \in outside'[j]
    BY <2>4 DEF InductiveInvariant, ScriptFine
  <2>8. ScriptFine(j)'
    BY <1>1, <1>2, <2>2, <2>4, <2>5, <2>6, <2>7, NoneRuns DEF ScriptFine
  <2> QED BY <1>6, <2>1, <2>3, <2>4, <2>8, OwnStep DEF InductiveInvariant, ExecutorTypeOK
<1> QED BY <1>3, <1>5, <1>6 DEF PrepareWorkspace

\* A step that only reads goes on to the next, which must fit, or fails.
LEMMA NextOrFailFine ==
    ASSUME InductiveInvariant, NEW j \in Jobs, NEW next \in Step \ {"off"},
           at[j] # "off", at[j] # "wait" \/ waiter[Session(j)] # "waiting",
           NextOrFail(j, next), Quietly, Sound, Fits(j, next), j \notin supervised
    PROVE  InductiveInvariant'
<1>1. CASE GoTo(j, next) /\ UNCHANGED queueVars
  BY <1>1, GoesOn
<1>2. CASE Ends(j, "notok")
  BY <1>2, Stops
<1> QED BY <1>1, <1>2 DEF NextOrFail

LEMMA CreateBranchFine ==
    ASSUME InductiveInvariant, NEW j \in Jobs, CreateBranch(j)
    PROVE  InductiveInvariant'
<1>1. at[j] = "branch" /\ NextOrFail(j, "spawn") /\ Quietly /\ Sound
  BY SessionsStay DEF CreateBranch
<1>2. Fits(j, "branch")
  BY <1>1, Here
<1>3. j \notin supervised /\ Fits(j, "spawn") /\ "spawn" \in Step \ {"off"}
  BY <1>2 DEF Fits, Testing, AfterMerge, Ended, Step
<1> QED BY <1>1, <1>3, NextOrFailFine

\* Without a session a smoke test is followed by a rollback.
LEMMA NoSessionFine ==
    ASSUME InductiveInvariant, NEW j \in Jobs, at[j] \in {"spawn", "spawning"},
           NoSession(j), Quietly, Sound
    PROVE  InductiveInvariant'
<1>1. Fits(j, at[j])
  BY Here
<1>2. CASE Agent(j) = "devops"
  <2>1. GoTo(j, "rollback") /\ UNCHANGED queueVars
    BY <1>2 DEF NoSession
  <2>2. Fits(j, "rollback") /\ "rollback" \in Step
    BY <1>1, <1>2 DEF Fits, Testing, AfterMerge, Ended, Step
  <2> QED BY <2>1, <2>2, GoesOn
<1>3. CASE Agent(j) # "devops"
  <2>1. Ends(j, "notok") /\ j \notin supervised
    BY <1>1, <1>3 DEF NoSession, Fits, Testing
  <2> QED BY <2>1, Stops
<1> QED BY <1>2, <1>3

LEMMA SpawnFailsFine ==
    ASSUME InductiveInvariant, NEW j \in Jobs, SpawnFails(j)
    PROVE  InductiveInvariant'
<1>1. at[j] \in {"spawn", "spawning"} /\ NoSession(j) /\ Quietly
  BY DEF SpawnFails
<1>2. Sound
  <2>1. CASE at[j] = "spawn" /\ Refuse
    BY <2>1, SessionsStay DEF Refuse
  <2>2. CASE at[j] = "spawning" /\ SetupFails(Session(j))
    <3>1. runs[j] \in 1 .. MaxRuns
      BY <2>2, Here DEF Fits
    <3> QED BY <2>2, <3>1, JobSessions, SetupFailsSound DEF Session, InductiveInvariant
  <2> QED BY <2>1, <2>2 DEF SpawnFails
<1> QED BY <1>1, <1>2, NoSessionFine

LEMMA SpawnFine ==
    ASSUME InductiveInvariant, NEW j \in Jobs, Spawn(j)
    PROVE  InductiveInvariant'
<1>1. /\ at[j] = "spawn" /\ runs[j] < MaxRuns
      /\ runs' = [runs EXCEPT ![j] = @ + 1]
      /\ Admit(<<j, runs'[j]>>) /\ GoTo(j, "spawning") /\ "spawning" \in Step
      /\ UNCHANGED queueVars
      /\ UNCHANGED <<scenario, outside, deployed, supervised, undone, incidents>>
  BY DEF Spawn, outsideVars, Step
<1>2. runs[j] \in 0 .. MaxRuns /\ runs \in [Jobs -> 0 .. MaxRuns] /\ MaxRuns \in Nat
  BY JobSessions DEF InductiveInvariant, ExecutorTypeOK
<1>3. runs'[j] = runs[j] + 1 /\ runs'[j] \in 1 .. MaxRuns
  BY <1>1, <1>2
<1>4. runs' \in [Jobs -> 0 .. MaxRuns] /\ \A k \in Jobs \ {j} : runs'[k] = runs[k]
  BY <1>1, <1>2, <1>3
<1>5. Sound
  BY <1>1, <1>3, JobSessions, AdmitSound DEF InductiveInvariant
<1>6. /\ SessionsFine' /\ Lasting
      /\ \A k \in Jobs, r \in 1 .. MaxRuns : NotStarted(<<k, r>>)
  BY <1>5, JobSessions DEF Sound
<1>7. /\ QueueFine' /\ (ToldOk(j)' <=> ToldOk(j))
      /\ \A k \in Jobs \ {j} : LeftAlone(k)
  BY <1>1, QueueSide
<1>8. at'[j] = "spawning"
  BY <1>1 DEF GoTo, InductiveInvariant, ExecutorTypeOK
<1>9. work'[j] = "run" /\ result'[j] = "none"
  BY <1>1, OnDuty DEF queueVars, workerVars
<1>10. Fits(j, "spawn")
  BY <1>1, Here
<1>11. Agent(j)' = Agent(j)
  BY <1>1 DEF Agent
<1>12. Fits(j, at[j])'
  BY <1>1, <1>3, <1>7, <1>8, <1>10, <1>11 DEF Fits, Testing, AfterMerge, Ended
<1>13. ToldOk(j)' => Done(j)'
  <2>1. ToldOk(j) => Done(j)
    BY DEF InductiveInvariant, ScriptFine
  <2>2. runs'[j] \in 0 .. MaxRuns /\ runs[j] <= runs'[j]
    BY <1>2, <1>3
  <2> QED BY <1>1, <1>6, <1>7, <2>1, <2>2, DoneLasts
<1>14. j \in undone' => "merged" \in outside'[j]
  BY <1>1 DEF InductiveInvariant, ScriptFine
<1>15. ScriptFine(j)'
  BY <1>1, <1>5, <1>8, <1>9, <1>12, <1>13, <1>14, NoneRuns DEF ScriptFine
<1> QED BY <1>1, <1>4, <1>6, <1>7, <1>15, OwnStep DEF InductiveInvariant, ExecutorTypeOK

\* The session that is launched is the one its executor begins to wait for.
LEMMA SpawnSucceedsFine ==
    ASSUME InductiveInvariant, NEW j \in Jobs, SpawnSucceeds(j)
    PROVE  InductiveInvariant'
<1>1. /\ at[j] = "spawning" /\ Launch(Session(j)) /\ GoTo(j, "wait") /\ "wait" \in Step
      /\ UNCHANGED queueVars
      /\ UNCHANGED <<scenario, runs, outside, deployed, supervised, undone, incidents>>
  BY DEF SpawnSucceeds, Quietly, outsideVars, Step
<1>2. Fits(j, "spawning")
  BY <1>1, Here
<1>3. runs[j] \in 1 .. MaxRuns /\ Session(j) \in Sessions
  BY <1>2, JobSessions DEF Fits, Session
<1>4. /\ SessionsFine' /\ Lasting
      /\ \A t \in Sessions \ {Session(j)} : NotStarted(t)
  BY <1>1, <1>3, JobSessions, LaunchSound DEF InductiveInvariant
<1>5. \A k \in Jobs \ {j}, r \in 1 .. MaxRuns : NotStarted(<<k, r>>)
  BY <1>4, JobSessions DEF Session
<1>6. /\ QueueFine' /\ (ToldOk(j)' <=> ToldOk(j))
      /\ \A k \in Jobs \ {j} : LeftAlone(k)
  BY <1>1, QueueSide
<1>7. at'[j] = "wait"
  BY <1>1 DEF GoTo, InductiveInvariant, ExecutorTypeOK
<1>8. work'[j] = "run" /\ result'[j] = "none"
  BY <1>1, OnDuty DEF queueVars, workerVars
<1>9. Agent(j)' = Agent(j)
  BY <1>1 DEF Agent
<1>10. Fits(j, at[j])'
  BY <1>1, <1>2, <1>6, <1>7, <1>9 DEF Fits, Testing, AfterMerge, Ended
<1>11. ToldOk(j)' => Done(j)'
  <2>1. ToldOk(j) => Done(j)
    BY DEF InductiveInvariant, ScriptFine
  <2>2. runs'[j] = runs[j] /\ runs[j] \in 0 .. MaxRuns /\ runs[j] <= runs[j]
    BY <1>1, JobSessions DEF InductiveInvariant, ExecutorTypeOK
  <2> QED BY <1>1, <1>4, <1>6, <2>1, <2>2, DoneLasts
<1>12. Awaited(j)'
  <2> SUFFICES ASSUME NEW r \in 1 .. MaxRuns, status'[<<j, r>>] = "RUNNING"
               PROVE  at'[j] = "wait" /\ r = runs'[j] /\ waiter'[<<j, r>>] = "waiting"
    BY DEF Awaited
  <2>1. r = runs[j]
    <3>1. status[<<j, r>>] # "RUNNING"
      BY <1>1 DEF InductiveInvariant, ScriptFine, Awaited
    <3>2. ASSUME r # runs[j] PROVE NotStarted(<<j, r>>)
      BY <1>4, <3>2, JobSessions DEF Session
    <3> QED BY <3>1, <3>2 DEF NotStarted
  <2>2. waiter'[Session(j)] = "waiting"
    BY <1>1, <1>3 DEF Launch, InductiveInvariant, SessionsFine, SessionTypeOK
  <2> QED BY <1>1, <1>7, <2>1, <2>2 DEF Session
<1>13. j \in undone' => "merged" \in outside'[j]
  BY <1>1 DEF InductiveInvariant, ScriptFine
<1>14. ScriptFine(j)'
  BY <1>7, <1>8, <1>10, <1>11, <1>12, <1>13 DEF ScriptFine
<1> QED BY <1>1, <1>4, <1>5, <1>6, <1>14, OwnStep DEF InductiveInvariant, ExecutorTypeOK

\* A wait that is given up leaves the executor where it is, and no session.
LEMMA GiveUpFine ==
    ASSUME InductiveInvariant, NEW j \in Jobs, GiveUp(j)
    PROVE  InductiveInvariant'
<1>1. /\ at[j] = "wait" /\ UNCHANGED queueVars
      /\ SmokeTimeout(Session(j)) \/ SafetyTimeout(Session(j))
      /\ UNCHANGED <<scenario, at, runs, outside, deployed, supervised, undone, incidents>>
  BY DEF GiveUp, Quietly, outsideVars
<1>2. Session(j) \in Sessions
  BY <1>1, Here, JobSessions DEF Fits, Session
<1>3. Sound
  BY <1>1, <1>2, JobSessions, SafetyTimeoutSound, SmokeTimeoutSound DEF InductiveInvariant
<1>4. QueueFine' /\ \A k \in Jobs : LeftAlone(k)
  BY <1>1, QueueRests DEF InductiveInvariant, Proper
<1>5. /\ SessionsFine' /\ Lasting
      /\ \A k \in Jobs, r \in 1 .. MaxRuns : NotStarted(<<k, r>>)
  BY <1>3, JobSessions DEF Sound
<1> QED BY <1>1, <1>4, <1>5, NobodysStep DEF InductiveInvariant, ExecutorTypeOK

LEMMA SessionEndsFine ==
    ASSUME InductiveInvariant, NEW j \in Jobs, SessionEnds(j)
    PROVE  InductiveInvariant'
<1>1. /\ at[j] = "wait" /\ Agent(j) # "devops" /\ waiter[Session(j)] # "waiting"
      /\ Quietly /\ Sound
  BY SessionsStay DEF SessionEnds, Code
<1>2. Fits(j, "wait") /\ Agent(j) \in {"planner", "dev", "qa", "devops"}
  BY <1>1, Here
<1>3. runs[j] \in 1 .. MaxRuns /\ Session(j) \in Sessions /\ j \notin supervised
  BY <1>1, <1>2, JobSessions DEF Fits, Session, Testing
<1>4. CASE waiter[Session(j)] = "zero"
  <2>1. PICK next \in {"checks", "commit"} :
          /\ NextOrFail(j, next)
          /\ next = "checks" => Agent(j) = "qa"
          /\ next = "commit" => Agent(j) \in {"planner", "dev"}
    BY <1>1, <1>2, <1>4 DEF SessionEnds, Code
  <2>2. proc[Session(j)] = "gone"
    BY <1>3, <1>4 DEF InductiveInvariant, SessionsFine, Consistent
  <2>3. Fits(j, next) /\ next \in Step \ {"off"}
    BY <1>1, <1>2, <1>3, <2>1, <2>2 DEF Fits, Testing, AfterMerge, Ended, Step
  <2> QED BY <1>1, <1>3, <2>1, <2>3, NextOrFailFine
<1>5. CASE waiter[Session(j)] # "zero"
  <2>1. Ends(j, "notok")
    BY <1>5 DEF SessionEnds, Code
  <2> QED BY <1>1, <1>3, <2>1, Stops
<1> QED BY <1>4, <1>5

-----------------------------------------------------------------------------
(* Steps that are seen outside *)

\* The executor does something to the repository, or fails to, and goes on or
\* ends.
LEMMA Acts ==
    ASSUME InductiveInvariant, NEW j \in Jobs, NEW step \in Step,
           NEW deed \in {"pushed", "pr", "reviewed", "merged"},
           at[j] \notin {"off", "wait"}, GoTo(j, step),
           Do(j, deed) \/ UNCHANGED outside,
           UNCHANGED <<scenario, runs, deployed, supervised, undone, incidents>>,
           UNCHANGED sessionVars,
           \/ step # "off" /\ UNCHANGED queueVars /\ Fits(j, step)'
           \/ step = "off" /\ HandlerReturns(j, "ok") /\ Done(j)'
           \/ step = "off" /\ HandlerReturns(j, "notok") /\ j \notin supervised
    PROVE  InductiveInvariant'
<1>1. /\ QueueFine' /\ (ToldOk(j)' <=> ToldOk(j))
      /\ \A k \in Jobs \ {j} : LeftAlone(k)
  BY QueueSide
<1>2. Sound
  BY SessionsStay
<1>3. /\ SessionsFine' /\ Lasting
      /\ \A k \in Jobs, r \in 1 .. MaxRuns : NotStarted(<<k, r>>)
  BY <1>2, JobSessions DEF Sound
<1>4. /\ outside' \in [Jobs -> SUBSET {"pushed", "pr", "reviewed", "merged"}]
      /\ outside[j] \subseteq outside'[j]
      /\ \A k \in Jobs \ {j} : outside'[k] = outside[k]
  BY DEF Do, InductiveInvariant, ExecutorTypeOK
<1>5. at'[j] = step
  BY DEF GoTo, InductiveInvariant, ExecutorTypeOK
<1>6. \/ step # "off" /\ work'[j] = "run" /\ result'[j] = "none" /\ Fits(j, step)'
      \/ step = "off" /\ result'[j] = "ok" /\ Done(j)'
      \/ step = "off" /\ result'[j] = "notok" /\ j \notin supervised
  <2>1. CASE step # "off" /\ UNCHANGED queueVars /\ Fits(j, step)'
    BY <2>1, OnDuty DEF queueVars, workerVars
  <2>2. CASE step = "off" /\ HandlerReturns(j, "ok") /\ Done(j)'
    BY <2>2, HandlerReturnsFine, JobSessions DEF InductiveInvariant
  <2>3. CASE step = "off" /\ HandlerReturns(j, "notok") /\ j \notin supervised
    BY <2>3, HandlerReturnsFine, JobSessions DEF InductiveInvariant
  <2> QED BY <2>1, <2>2, <2>3
<1>7. Fits(j, at[j])'
  <2>1. CASE step # "off"
    BY <1>5, <1>6, <2>1 DEF Fits
  <2>2. CASE step = "off"
    BY <1>5, <2>2 DEF Fits, Testing, AfterMerge, Ended
  <2> QED BY <2>1, <2>2
<1>8. ToldOk(j)' => Done(j)'
  <2>1. ToldOk(j) => Done(j)
    BY DEF InductiveInvariant, ScriptFine
  <2>2. runs'[j] = runs[j] /\ runs[j] \in 0 .. MaxRuns /\ runs[j] <= runs[j]
    BY JobSessions DEF InductiveInvariant, ExecutorTypeOK
  <2> QED BY <1>1, <1>3, <1>4, <2>1, <2>2, DoneLasts
<1>9. j \in undone' => "merged" \in outside'[j]
  BY <1>4 DEF InductiveInvariant, ScriptFine
<1>10. ScriptFine(j)'
  BY <1>2, <1>5, <1>6, <1>7, <1>8, <1>9, NoneRuns DEF ScriptFine
<1> QED BY <1>1, <1>3, <1>4, <1>10, OwnStep DEF InductiveInvariant, ExecutorTypeOK

\* A session of the job came to its end.
LEMMA SessionIsOver ==
    ASSUME InductiveInvariant, NEW j \in Jobs, at[j] \in Ended,
           UNCHANGED <<scenario, runs>>, UNCHANGED sessionVars
    PROVE  /\ runs'[j] \in 1 .. MaxRuns
           /\ proc'[Session(j)'] = "gone"
           /\ \E r \in 1 .. runs'[j] : proc'[<<j, r>>] = "gone"
           /\ j \notin supervised
<1>1. Fits(j, at[j])
  BY Here
<1>2. runs[j] \in 1 .. MaxRuns /\ proc[<<j, runs[j]>>] = "gone"
  BY <1>1 DEF Fits, Session
<1>3. runs' = runs /\ proc' = proc /\ runs[j] \in 1 .. runs[j]
  BY <1>2, JobSessions DEF sessionVars
<1>4. j \notin supervised
  BY <1>1 DEF Fits, Testing, Ended
<1> QED BY <1>2, <1>3, <1>4 DEF Session

LEMMA CommitFine ==
    ASSUME InductiveInvariant, NEW j \in Jobs, Commit(j)
    PROVE  InductiveInvariant'
<1>1. at[j] = "commit" /\ UNCHANGED sessionVars /\ Quietly /\ Sound
  BY SessionsStay DEF Commit
<1>2. Fits(j, "commit")
  BY <1>1, Here
<1>3. Fits(j, "push") /\ "push" \in Step \ {"off"} /\ j \notin supervised
  BY <1>2 DEF Fits, Testing, AfterMerge, Ended, Step
<1>4. CASE NextOrFail(j, "push")
  BY <1>1, <1>3, <1>4, NextOrFailFine
<1>5. CASE Agent(j) = "planner" /\ Ends(j, "ok")
  <2>1. runs[j] \in 1 .. MaxRuns /\ proc[<<j, runs[j]>>] = "gone"
    BY <1>2 DEF Fits, Ended, Session
  <2>2. Done(j)
    BY <1>5, <2>1, JobSessions DEF Done
  <2> QED BY <1>1, <1>5, <2>2, Stops
<1> QED BY <1>4, <1>5 DEF Commit

LEMMA PushFine ==
    ASSUME InductiveInvariant, NEW j \in Jobs, Push(j)
    PROVE  InductiveInvariant'
<1>1. /\ at[j] = "push" /\ UNCHANGED sessionVars
      /\ UNCHANGED <<scenario, runs, deployed, supervised, undone, incidents>>
  BY DEF Push
<1>2. Fits(j, "push") /\ Agent(j)' = Agent(j)
  BY <1>1, Here DEF Agent
<1>3. /\ runs'[j] \in 1 .. MaxRuns /\ proc'[Session(j)'] = "gone"
      /\ \E r \in 1 .. runs'[j] : proc'[<<j, r>>] = "gone"
      /\ j \notin supervised
  BY <1>1, SessionIsOver DEF Ended
<1>4. CASE Agent(j) = "planner" /\ Do(j, "pushed") /\ Ends(j, "ok")
  <2>1. Done(j)'
    BY <1>2, <1>3, <1>4 DEF Done
  <2> QED BY <1>1, <1>4, <2>1, Acts DEF Ends, Step
<1>5. CASE Agent(j) # "planner" /\ Do(j, "pushed") /\ GoTo(j, "pr") /\ UNCHANGED queueVars
  <2>1. "pushed" \in outside'[j]
    BY <1>5 DEF Do, InductiveInvariant, ExecutorTypeOK
  <2>2. (ToldOk(j)' <=> ToldOk(j)) /\ supervised' = supervised
    BY <1>1, <1>5, QueueSide
  <2>3. Fits(j, "pr")'
    BY <1>2, <1>3, <1>5, <2>1, <2>2 DEF Fits, Testing, AfterMerge, Ended
  <2> QED BY <1>1, <1>5, <2>3, Acts DEF Step
<1>6. CASE (Do(j, "pushed") \/ UNCHANGED outside) /\ Ends(j, "notok")
  BY <1>1, <1>3, <1>6, Acts DEF Ends, Step
<1> QED BY <1>4, <1>5, <1>6 DEF Push

LEMMA CreatePullRequestFine ==
    ASSUME InductiveInvariant, NEW j \in Jobs, CreatePullRequest(j)
    PROVE  InductiveInvariant'
<1>1. /\ at[j] = "pr" /\ UNCHANGED sessionVars
      /\ UNCHANGED <<scenario, runs, deployed, supervised, undone, incidents>>
  BY DEF CreatePullRequest
<1>2. Agent(j) = "dev" /\ "pushed" \in outside[j] /\ Agent(j)' = Agent(j)
  BY <1>1, Here DEF Fits, Agent
<1>3. /\ \E r \in 1 .. runs'[j] : proc'[<<j, r>>] = "gone"
      /\ j \notin supervised
  BY <1>1, SessionIsOver DEF Ended
<1>4. CASE Do(j, "pr") /\ Ends(j, "ok")
  <2>1. {"pushed", "pr"} \subseteq outside'[j]
    BY <1>2, <1>4 DEF Do, InductiveInvariant, ExecutorTypeOK
  <2>2. Done(j)'
    BY <1>2, <1>3, <2>1 DEF Done
  <2> QED BY <1>1, <1>4, <2>2, Acts DEF Ends, Step
<1>5. CASE (Do(j, "pr") \/ UNCHANGED outside) /\ Ends(j, "notok")
  BY <1>1, <1>3, <1>5, Acts DEF Ends, Step
<1> QED BY <1>4, <1>5 DEF CreatePullRequest

LEMMA CheckFine ==
    ASSUME InductiveInvariant, NEW j \in Jobs, Check(j)
    PROVE  InductiveInvariant'
<1>1. at[j] = "checks" /\ NextOrFail(j, "review") /\ Quietly /\ Sound
  BY SessionsStay DEF Check
<1>2. Fits(j, "checks")
  BY <1>1, Here
<1>3. Fits(j, "review") /\ "review" \in Step \ {"off"} /\ j \notin supervised
  BY <1>2 DEF Fits, Testing, AfterMerge, Ended, Step
<1> QED BY <1>1, <1>3, NextOrFailFine

LEMMA ReviewFine ==
    ASSUME InductiveInvariant, NEW j \in Jobs, Review(j)
    PROVE  InductiveInvariant'
<1>1. /\ at[j] = "review" /\ UNCHANGED sessionVars /\ Ends(j, "ok")
      /\ Do(j, "reviewed") \/ UNCHANGED outside
      /\ UNCHANGED <<scenario, runs, deployed, supervised, undone, incidents>>
  BY DEF Review
<1>2. Agent(j) = "qa" /\ Agent(j)' = Agent(j)
  BY <1>1, Here DEF Fits, Agent
<1>3. \E r \in 1 .. runs'[j] : proc'[<<j, r>>] = "gone"
  BY <1>1, SessionIsOver DEF Ended
<1>4. Done(j)'
  BY <1>2, <1>3 DEF Done
<1> QED BY <1>1, <1>4, Acts DEF Ends, Step

-----------------------------------------------------------------------------
(* devops *)

\* GitHub merges once: no phase that was reported as done gets past this step.
LEMMA MergeFine ==
    ASSUME InductiveInvariant, NEW j \in Jobs, Merge(j)
    PROVE  InductiveInvariant'
<1>1. /\ at[j] = "merge" /\ UNCHANGED sessionVars
      /\ UNCHANGED <<scenario, runs, deployed, supervised, undone, incidents>>
  BY DEF Merge
<1>2. Fits(j, "merge") /\ Agent(j)' = Agent(j)
  BY <1>1, Here DEF Agent
<1>3. j \notin supervised /\ Agent(j) = "devops"
  BY <1>2 DEF Fits, Testing
<1>4. CASE "merged" \notin outside[j] /\ Do(j, "merged") /\ GoTo(j, "detect")
           /\ UNCHANGED queueVars
  <2>1. "merged" \in outside'[j]
    BY <1>4 DEF Do, InductiveInvariant, ExecutorTypeOK
  <2>2. j \notin undone /\ ~ToldOk(j)
    BY <1>3, <1>4 DEF InductiveInvariant, ScriptFine, Done
  <2>3. ~ToldOk(j)'
    BY <1>1, <1>4, <2>2, QueueSide
  <2>4. Fits(j, "detect")'
    BY <1>1, <1>2, <1>3, <2>1, <2>2, <2>3 DEF Fits, Testing, AfterMerge, Ended
  <2> QED BY <1>1, <1>4, <2>4, Acts DEF Step
<1>5. CASE (Do(j, "merged") \/ UNCHANGED outside) /\ Ends(j, "notok")
  BY <1>1, <1>3, <1>5, Acts DEF Ends, Step
<1> QED BY <1>4, <1>5 DEF Merge, NextOrFail

LEMMA DetectPlatformFine ==
    ASSUME InductiveInvariant, NEW j \in Jobs, DetectPlatform(j)
    PROVE  InductiveInvariant'
<1>1. at[j] = "detect" /\ NextOrFail(j, "trigger") /\ Quietly /\ Sound
  BY SessionsStay DEF DetectPlatform
<1>2. Fits(j, "detect")
  BY <1>1, Here
<1>3. Fits(j, "trigger") /\ "trigger" \in Step \ {"off"} /\ j \notin supervised
  BY <1>2 DEF Fits, Testing, AfterMerge, Ended, Step
<1> QED BY <1>1, <1>3, NextOrFailFine

\* A devops phase before its rollback or its end has not been reported as done.
LEMMA NotToldYet ==
    ASSUME InductiveInvariant, NEW j \in Jobs,
           at[j] \in {"detect", "trigger", "monitor", "rollback"}
    PROVE  /\ Agent(j) = "devops" /\ ~ToldOk(j)
           /\ "merged" \in outside[j] /\ j \notin undone
BY Here DEF Fits, AfterMerge

LEMMA TriggerFine ==
    ASSUME InductiveInvariant, NEW j \in Jobs, Trigger(j)
    PROVE  InductiveInvariant'
<1>1. /\ at[j] = "trigger" /\ UNCHANGED sessionVars
      /\ UNCHANGED <<scenario, runs, outside, undone, incidents>>
  BY DEF Trigger
<1>2. /\ Agent(j) = "devops" /\ ~ToldOk(j) /\ Agent(j)' = Agent(j)
      /\ "merged" \in outside[j] /\ j \notin undone
  BY <1>1, NotToldYet DEF Agent
<1>3. j \notin supervised
  BY <1>1, Here DEF Fits, Testing
<1>4. Sound
  BY <1>1, SessionsStay
<1>5. /\ SessionsFine' /\ Lasting
      /\ \A k \in Jobs, r \in 1 .. MaxRuns : NotStarted(<<k, r>>)
  BY <1>4, JobSessions DEF Sound
<1>6. /\ deployed' \in [Jobs -> {"none", "building", "live", "broken", "reverted"}]
      /\ \A k \in Jobs \ {j} : deployed'[k] = deployed[k]
  BY DEF Trigger, InductiveInvariant, ExecutorTypeOK
<1>7. CASE supervised' = supervised \cup {j} /\ GoTo(j, "monitor") /\ UNCHANGED queueVars
  <2>1. /\ QueueFine' /\ (ToldOk(j)' <=> ToldOk(j))
        /\ \A k \in Jobs \ {j} : LeftAlone(k)
    BY <1>7, QueueSide
  <2>2. at'[j] = "monitor" /\ work'[j] = "run" /\ result'[j] = "none" /\ "monitor" \in Step
    BY <1>1, <1>7, OnDuty DEF GoTo, InductiveInvariant, ExecutorTypeOK, queueVars, workerVars, Step
  <2>3. Fits(j, at[j])'
    BY <1>1, <1>2, <2>1, <2>2 DEF Fits, Testing, AfterMerge, Ended
  <2>4. ScriptFine(j)'
    BY <1>1, <1>2, <1>4, <2>1, <2>2, <2>3, NoneRuns DEF ScriptFine
  <2>5. supervised' \subseteq Jobs /\ \A k \in Jobs \ {j} : k \in supervised' <=> k \in supervised
    BY <1>7 DEF InductiveInvariant, ExecutorTypeOK
  <2> QED BY <1>1, <1>5, <1>6, <1>7, <2>1, <2>2, <2>4, <2>5, OwnStep
          DEF InductiveInvariant, ExecutorTypeOK
<1>8. CASE Ends(j, "notok") /\ UNCHANGED supervised
  <2>1. HandlerReturns(j, "notok") /\ GoTo(j, "off")
    BY <1>8 DEF Ends
  <2>2. /\ QueueFine' /\ (ToldOk(j)' <=> ToldOk(j))
        /\ \A k \in Jobs \ {j} : LeftAlone(k)
    BY <2>1, QueueSide
  <2>3. at'[j] = "off" /\ "off" \in Step /\ result'[j] = "notok"
    BY <2>1, HandlerReturnsFine, JobSessions DEF GoTo, InductiveInvariant, ExecutorTypeOK, Step
  <2>4. Fits(j, at[j])'
    BY <2>3 DEF Fits, Testing, AfterMerge, Ended
  <2>5. ScriptFine(j)'
    BY <1>1, <1>2, <1>3, <1>4, <1>8, <2>2, <2>3, <2>4, NoneRuns DEF ScriptFine
  <2> QED BY <1>1, <1>5, <1>6, <1>8, <2>1, <2>2, <2>3, <2>5, OwnStep
          DEF InductiveInvariant, ExecutorTypeOK
<1> QED BY <1>7, <1>8 DEF Trigger

LEMMA MonitorFine ==
    ASSUME InductiveInvariant, NEW j \in Jobs, Monitor(j)
    PROVE  InductiveInvariant'
<1>1. at[j] = "monitor" /\ UNCHANGED queueVars /\ Quietly /\ Sound
  BY SessionsStay DEF Monitor
<1>2. Fits(j, "monitor")
  BY <1>1, Here
<1>3. CASE GoTo(j, "rollback")
  <2>1. Fits(j, "rollback") /\ "rollback" \in Step
    BY <1>2 DEF Fits, Testing, AfterMerge, Ended, Step
  <2> QED BY <1>1, <1>3, <2>1, GoesOn
<1>4. CASE deployed[j] = "live" /\ GoTo(j, "spawn")
  <2>1. Fits(j, "spawn") /\ "spawn" \in Step
    BY <1>2, <1>4 DEF Fits, Testing, AfterMerge, Ended, Step
  <2> QED BY <1>1, <1>4, <2>1, GoesOn
<1> QED BY <1>3, <1>4 DEF Monitor

LEMMA SmokeTestEndsFine ==
    ASSUME InductiveInvariant, NEW j \in Jobs, SmokeTestEnds(j)
    PROVE  InductiveInvariant'
<1>1. /\ at[j] = "wait" /\ Agent(j) = "devops" /\ waiter[Session(j)] # "waiting"
      /\ Quietly /\ Sound
  BY SessionsStay DEF SmokeTestEnds, Code
<1>2. Fits(j, "wait")
  BY <1>1, Here
<1>3. CASE SmokePassed(j) /\ Ends(j, "ok")
  <2>1. runs[j] \in 1 .. MaxRuns /\ printed[<<j, runs[j]>>] = "passed"
    BY <1>2, <1>3 DEF Fits, SmokePassed, Session
  <2>2. runs[j] \in 1 .. runs[j]
    BY <2>1, JobSessions
  <2>3. Done(j)
    BY <1>1, <1>2, <2>1, <2>2 DEF Done, Fits, Testing, AfterMerge
  <2> QED BY <1>1, <1>3, <2>3, Stops
<1>4. CASE GoTo(j, "rollback") /\ UNCHANGED queueVars
  <2>1. Fits(j, "rollback") /\ "rollback" \in Step
    BY <1>1, <1>2 DEF Fits, Testing, AfterMerge, Ended, Step
  <2> QED BY <1>1, <1>4, <2>1, GoesOn
<1> QED BY <1>3, <1>4 DEF SmokeTestEnds

LEMMA RollbackFine ==
    ASSUME InductiveInvariant, NEW j \in Jobs, Rollback(j)
    PROVE  InductiveInvariant'
<1>1. /\ at[j] = "rollback" /\ UNCHANGED sessionVars
      /\ undone' = undone \cup {j} /\ GoTo(j, "off") /\ HandlerReturns(j, "notok")
      /\ UNCHANGED <<scenario, runs, outside, supervised, incidents>>
  BY DEF Rollback, Ends
<1>2. Agent(j) = "devops" /\ ~ToldOk(j) /\ "merged" \in outside[j]
  BY <1>1, NotToldYet
<1>3. Sound
  BY <1>1, SessionsStay
<1>4. /\ SessionsFine' /\ Lasting
      /\ \A k \in Jobs, r \in 1 .. MaxRuns : NotStarted(<<k, r>>)
  BY <1>3, JobSessions DEF Sound
<1>5. /\ deployed' \in [Jobs -> {"none", "building", "live", "broken", "reverted"}]
      /\ \A k \in Jobs \ {j} : deployed'[k] = deployed[k]
  BY DEF Rollback, InductiveInvariant, ExecutorTypeOK
<1>6. /\ QueueFine' /\ (ToldOk(j)' <=> ToldOk(j))
      /\ \A k \in Jobs \ {j} : LeftAlone(k)
  BY <1>1, QueueSide
<1>7. at'[j] = "off" /\ "off" \in Step /\ result'[j] = "notok"
  BY <1>1, HandlerReturnsFine, JobSessions DEF GoTo, InductiveInvariant, ExecutorTypeOK, Step
<1>8. Fits(j, at[j])'
  BY <1>7 DEF Fits, Testing, AfterMerge, Ended
<1>9. ScriptFine(j)'
  BY <1>1, <1>2, <1>3, <1>6, <1>7, <1>8, NoneRuns DEF ScriptFine
<1>10. undone' \subseteq Jobs /\ \A k \in Jobs \ {j} : k \in undone' <=> k \in undone
  BY <1>1 DEF InductiveInvariant, ExecutorTypeOK
<1> QED BY <1>1, <1>4, <1>5, <1>6, <1>7, <1>9, <1>10, OwnStep
        DEF InductiveInvariant, ExecutorTypeOK

-----------------------------------------------------------------------------
(* The system *)

LEMMA ExecuteFine ==
    ASSUME InductiveInvariant, NEW j \in Jobs, Execute(j)
    PROVE  InductiveInvariant'
<1>1. CASE Begin(j) \/ PrepareWorkspace(j) \/ CreateBranch(j)
  BY <1>1, BeginFine, PrepareWorkspaceFine, CreateBranchFine
<1>2. CASE Spawn(j) \/ SpawnFails(j) \/ SpawnSucceeds(j) \/ GiveUp(j) \/ SessionEnds(j)
  BY <1>2, SpawnFine, SpawnFailsFine, SpawnSucceedsFine, GiveUpFine, SessionEndsFine
<1>3. CASE Commit(j) \/ Push(j) \/ CreatePullRequest(j) \/ Check(j) \/ Review(j)
  BY <1>3, CommitFine, PushFine, CreatePullRequestFine, CheckFine, ReviewFine
<1>4. CASE Merge(j) \/ DetectPlatform(j) \/ Trigger(j) \/ Monitor(j)
  BY <1>4, MergeFine, DetectPlatformFine, TriggerFine, MonitorFine
<1>5. CASE SmokeTestEnds(j) \/ Rollback(j)
  BY <1>5, SmokeTestEndsFine, RollbackFine
<1> QED BY <1>1, <1>2, <1>3, <1>4, <1>5 DEF Execute

\* The queue moves and nothing else does.
LEMMA QueueMoves ==
    ASSUME InductiveInvariant, Proper, UNCHANGED sessionVars,
           UNCHANGED <<scenario, at, runs, outside, deployed, supervised, undone>>,
           incidents' \in 0 .. scenario.incidents
    PROVE  InductiveInvariant'
<1>1. Sound
  BY SessionsStay
<1>2. /\ SessionsFine' /\ Lasting
      /\ \A k \in Jobs, r \in 1 .. MaxRuns : NotStarted(<<k, r>>)
  BY <1>1, JobSessions DEF Sound
<1> QED BY <1>2, NobodysStep DEF Proper, InductiveInvariant, ExecutorTypeOK

\* The sessions move and nothing else does.
LEMMA SessionsMove ==
    ASSUME InductiveInvariant, SessionsFine', Lasting,
           \A k \in Jobs, r \in 1 .. MaxRuns : NotStarted(<<k, r>>),
           UNCHANGED <<queueVars, executorVars>>
    PROVE  InductiveInvariant'
<1>1. QueueFine' /\ \A k \in Jobs : LeftAlone(k)
  BY QueueRests DEF InductiveInvariant, Proper
<1>2. UNCHANGED <<scenario, at, runs, outside, deployed, supervised, undone, incidents>>
  BY DEF executorVars
<1> QED BY <1>1, <1>2, NobodysStep DEF InductiveInvariant, ExecutorTypeOK

LEMMA ServeFine ==
    ASSUME InductiveInvariant, NEW j \in Jobs, Serve(j)
    PROVE  InductiveInvariant'
<1>1. QueueFine /\ Attempts \in Nat
  BY JobSessions DEF InductiveInvariant
<1>2. CASE Enqueue(j) \/ SaveBullId(j) \/ Take(j) \/ MarkCompleted(j)
  <2>1. Proper
    BY <1>1, <1>2, EnqueueProper, SaveBullIdProper, TakeProper, MarkCompletedProper
  <2> QED BY <2>1, QueueMoves DEF Serve, executorVars, outsideVars, InductiveInvariant, ExecutorTypeOK
<1>3. CASE Notify(j) \/ Return(j) \/ Redeliver(j) \/ TellFailure(j)
  <2>1. Proper
    BY <1>1, <1>3, NotifyProper, ReturnProper, RedeliverProper, TellFailureProper
  <2> QED BY <2>1, QueueMoves DEF Serve, executorVars, outsideVars, InductiveInvariant, ExecutorTypeOK
<1>4. CASE \E a \in late[j] : RecordFailure(j, a)
  <2>1. Proper
    BY <1>1, <1>4, RecordFailureProper
  <2> QED BY <2>1, QueueMoves DEF Serve, executorVars, outsideVars, InductiveInvariant, ExecutorTypeOK
<1> QED BY <1>2, <1>3, <1>4 DEF Serve

LEMMA RequestFine ==
    ASSUME InductiveInvariant, NEW j \in Jobs, Request(j)
    PROVE  InductiveInvariant'
<1>1. QueueFine /\ Attempts \in Nat
  BY JobSessions DEF InductiveInvariant
<1>2. Proper
  BY <1>1, AddJobProper, RemoveBullJobProper, MarkCancelledProper DEF Request
<1> QED BY <1>2, QueueMoves DEF Request, executorVars, outsideVars, InductiveInvariant, ExecutorTypeOK

LEMMA SessionRunsFine ==
    ASSUME InductiveInvariant, NEW s \in Sessions, SessionRuns(s)
    PROVE  InductiveInvariant'
<1>1. Sound
  BY JobSessions, TimesOutSound, ProcessExitsSound DEF SessionRuns, InductiveInvariant
<1>2. /\ SessionsFine' /\ Lasting
      /\ \A k \in Jobs, r \in 1 .. MaxRuns : NotStarted(<<k, r>>)
  BY <1>1, JobSessions DEF Sound
<1> QED BY <1>2, SessionsMove DEF SessionRuns

LEMMA ReportFine ==
    ASSUME InductiveInvariant, NEW j \in Jobs, Report(j)
    PROVE  InductiveInvariant'
<1>1. PICK r \in {"passed", "failed"} : runs[j] > 0 /\ OnOutput(Session(j), r)
  BY DEF Report
<1>2. runs[j] \in 1 .. MaxRuns
  BY <1>1, JobSessions DEF InductiveInvariant, ExecutorTypeOK
<1>3. Session(j) \in Sessions
  BY <1>2, JobSessions DEF Session
<1>4. Sound
  BY <1>1, <1>3, JobSessions, OnOutputSound DEF InductiveInvariant
<1>5. /\ SessionsFine' /\ Lasting
      /\ \A k \in Jobs, n \in 1 .. MaxRuns : NotStarted(<<k, n>>)
  BY <1>4, JobSessions DEF Sound
<1> QED BY <1>5, SessionsMove DEF Report

LEMMA PlatformEndsFine ==
    ASSUME InductiveInvariant, NEW j \in Jobs, PlatformEnds(j)
    PROVE  InductiveInvariant'
<1>1. /\ deployed[j] = "building"
      /\ UNCHANGED queueVars /\ UNCHANGED sessionVars
      /\ UNCHANGED <<scenario, at, runs, outside, supervised, undone, incidents>>
  BY DEF PlatformEnds
<1>2. PICK end \in {"live", "broken"} : deployed' = [deployed EXCEPT ![j] = end]
  BY DEF PlatformEnds
<1>3. /\ deployed' \in [Jobs -> {"none", "building", "live", "broken", "reverted"}]
      /\ \A k \in Jobs : deployed[k] = "live" => deployed'[k] = "live"
  BY <1>1, <1>2 DEF InductiveInvariant, ExecutorTypeOK
<1>4. QueueFine' /\ \A k \in Jobs : LeftAlone(k)
  BY <1>1, QueueRests DEF InductiveInvariant, Proper
<1>5. Sound
  BY <1>1, SessionsStay
<1>6. /\ SessionsFine' /\ Lasting
      /\ \A k \in Jobs, r \in 1 .. MaxRuns : NotStarted(<<k, r>>)
  BY <1>5, JobSessions DEF Sound
<1> QED BY <1>1, <1>3, <1>4, <1>6, NobodysStep DEF InductiveInvariant, ExecutorTypeOK

LEMMA OtherSessionFine ==
    ASSUME InductiveInvariant, NEW s \in scenario.others, OtherSession(s)
    PROVE  InductiveInvariant'
<1>1. s \in Others /\ s \in Sessions
  BY JobSessions DEF InductiveInvariant, ExecutorTypeOK
<1>2. SessionsFine /\ MaxConcurrent \in Nat
  BY JobSessions DEF InductiveInvariant
<1>3. CASE Launch(s)
  <2>1. SessionsFine' /\ Lasting /\ \A t \in Sessions \ {s} : NotStarted(t)
    BY <1>1, <1>2, <1>3, LaunchSound
  <2>2. ASSUME NEW k \in Jobs, NEW r \in 1 .. MaxRuns
        PROVE  NotStarted(<<k, r>>)
    <3>1. <<k, r>> \in Sessions \ Others
      BY JobSessions
    <3>2. <<k, r>> \in Sessions \ {s}
      BY <1>1, <3>1
    <3> QED BY <2>1, <3>2
  <2> QED BY <2>1, <2>2, SessionsMove DEF OtherSession
<1>4. CASE Admit(s) \/ SetupFails(s) \/ SafetyTimeout(s)
  <2>1. Sound
    BY <1>1, <1>2, <1>4, AdmitSound, SetupFailsSound, SafetyTimeoutSound
  <2>2. /\ SessionsFine' /\ Lasting
        /\ \A k \in Jobs, r \in 1 .. MaxRuns : NotStarted(<<k, r>>)
    BY <2>1, JobSessions DEF Sound
  <2> QED BY <2>2, SessionsMove DEF OtherSession
<1> QED BY <1>3, <1>4 DEF OtherSession

\* After a crash nothing of the job is left but what is outside and what the
\* pipeline was told.
LEMMA CrashFine ==
    ASSUME InductiveInvariant, Crash, incidents' \in 0 .. scenario.incidents,
           UNCHANGED <<scenario, runs, outsideVars, undone>>
    PROVE  InductiveInvariant'
<1>1. QueueFine' /\ told' = told /\ result' = [j \in Jobs |-> "none"]
  BY LoseWorkersFine, JobSessions DEF Crash, InductiveInvariant
<1>2. Sound
  BY LoseSessionsSound, JobSessions DEF Crash, InductiveInvariant
<1>3. SessionsFine' /\ Lasting
  BY <1>2 DEF Sound
<1>4. /\ at' = [j \in Jobs |-> "off"] /\ supervised' = {}
      /\ status' = [s \in Sessions |-> "none"]
      /\ UNCHANGED <<scenario, runs, outside, deployed, undone>>
  BY DEF Crash, LoseSessions, outsideVars
<1>5. ASSUME NEW j \in Jobs PROVE ScriptFine(j)'
  <2>1. at'[j] = "off" /\ result'[j] = "none"
    BY <1>1, <1>4
  <2>2. Fits(j, at[j])'
    BY <2>1 DEF Fits, Testing, AfterMerge, Ended
  <2>3. Awaited(j)'
    BY <1>4, JobSessions DEF Awaited
  <2>4. ToldOk(j)' => Done(j)'
    <3>1. ToldOk(j)' => Done(j)
      BY <1>1 DEF InductiveInvariant, ScriptFine, ToldOk
    <3>2. runs'[j] = runs[j] /\ runs[j] \in 0 .. MaxRuns /\ runs[j] <= runs[j]
      BY <1>4, JobSessions DEF InductiveInvariant, ExecutorTypeOK
    <3> QED BY <1>3, <1>4, <3>1, <3>2, DoneLasts
  <2>5. j \in undone' => "merged" \in outside'[j]
    BY <1>4 DEF InductiveInvariant, ScriptFine
  <2> QED BY <2>1, <2>2, <2>3, <2>4, <2>5 DEF ScriptFine
<1>6. ExecutorTypeOK'
  BY <1>4 DEF InductiveInvariant, ExecutorTypeOK, Step
<1> QED BY <1>1, <1>3, <1>5, <1>6 DEF InductiveInvariant

LEMMA IncidentFine ==
    ASSUME InductiveInvariant, Incident
    PROVE  InductiveInvariant'
<1>1. /\ incidents' \in 0 .. scenario.incidents
      /\ UNCHANGED <<scenario, runs, outsideVars, undone>>
  BY JobSessions DEF Incident, InductiveInvariant, ExecutorTypeOK
<1>2. QueueFine /\ Attempts \in Nat
  BY JobSessions DEF InductiveInvariant
<1>3. CASE Crash
  BY <1>1, <1>3, CrashFine
<1>4. CASE \E j \in Jobs : StoreFails(j)
  <2>1. PICK j \in Jobs : StoreFails(j)
    BY <1>4
  <2>2. Proper
    BY <1>2, <2>1, EnqueueFailsProper, MarkFailsProper, RecordFailsProper DEF StoreFails
  <2> QED BY <1>1, <2>1, <2>2, QueueMoves DEF StoreFails, outsideVars
<1>5. CASE \E j \in Jobs : UserCancels(j)
  <2>1. PICK j \in Jobs : UserCancels(j)
    BY <1>5
  <2>2. Proper
    BY <1>2, <2>1, CancelProper DEF UserCancels
  <2> QED BY <1>1, <2>1, <2>2, QueueMoves DEF UserCancels, outsideVars
<1> QED BY <1>3, <1>4, <1>5 DEF Incident

LEMMA InvariantInit == Init => InductiveInvariant
<1> SUFFICES ASSUME Init PROVE InductiveInvariant
  OBVIOUS
<1>1. QueueFine
  BY QueueInitFine, JobSessions DEF Init
<1>2. SessionsFine
  BY SessionInitFine, JobSessions DEF Init
<1>3. ExecutorTypeOK
  BY JobSessions DEF Init, ExecutorTypeOK, Step
<1>4. ASSUME NEW j \in Jobs PROVE ScriptFine(j)
  <2>1. at[j] = "off" /\ result[j] = "none" /\ told[j] = <<>>
    BY DEF Init, QueueInit
  <2>2. Fits(j, at[j])
    BY <2>1 DEF Fits, Testing, AfterMerge, Ended
  <2>3. ~ToldOk(j)
    BY <2>1 DEF ToldOk
  <2>4. Awaited(j)
    BY JobSessions DEF Init, SessionInit, Awaited
  <2> QED BY <2>1, <2>2, <2>3, <2>4 DEF ScriptFine, Init
<1> QED BY <1>1, <1>2, <1>3, <1>4 DEF InductiveInvariant

LEMMA InvariantStep == InductiveInvariant /\ [Next]_vars => InductiveInvariant'
<1> SUFFICES ASSUME InductiveInvariant, [Next]_vars
             PROVE  InductiveInvariant'
  OBVIOUS
<1>1. ASSUME NEW j \in Jobs, Execute(j) \/ Serve(j) \/ Request(j)
      PROVE  InductiveInvariant'
  BY <1>1, ExecuteFine, ServeFine, RequestFine
<1>2. ASSUME NEW j \in Jobs, Report(j) \/ PlatformEnds(j)
      PROVE  InductiveInvariant'
  BY <1>2, ReportFine, PlatformEndsFine
<1>3. ASSUME NEW s \in Sessions, SessionRuns(s)
      PROVE  InductiveInvariant'
  BY <1>3, SessionRunsFine
<1>4. ASSUME NEW s \in scenario.others, OtherSession(s)
      PROVE  InductiveInvariant'
  BY <1>4, OtherSessionFine
<1>5. CASE Incident
  BY <1>5, IncidentFine
<1>6. CASE UNCHANGED vars
  <2>1. Proper
    BY <1>6, QueueRests DEF vars, InductiveInvariant
  <2>2. /\ UNCHANGED sessionVars
        /\ UNCHANGED <<scenario, at, runs, outside, deployed, supervised, undone, incidents>>
    BY <1>6 DEF vars, executorVars, outsideVars
  <2> QED BY <2>1, <2>2, QueueMoves DEF InductiveInvariant, ExecutorTypeOK
<1> QED BY <1>1, <1>2, <1>3, <1>4, <1>5, <1>6 DEF Next

-----------------------------------------------------------------------------
(* What the pipeline is promised *)

\* To the queue an executor is a handler that is entered, returns or throws.
LEMMA ExecutorHandles ==
    ASSUME NEW j \in Jobs, Execute(j)
    PROVE  \/ UNCHANGED queueVars
           \/ MarkProcessing(j)
           \/ HandlerThrows(j)
           \/ \E r \in {"ok", "notok"} : HandlerReturns(j, r)
<1>1. CASE Begin(j) \/ PrepareWorkspace(j) \/ CreateBranch(j)
  BY <1>1 DEF Begin, PrepareWorkspace, CreateBranch, NextOrFail, Ends
<1>2. CASE Spawn(j) \/ SpawnFails(j) \/ SpawnSucceeds(j) \/ GiveUp(j) \/ SessionEnds(j)
  BY <1>2 DEF Spawn, SpawnFails, SpawnSucceeds, GiveUp, SessionEnds, NoSession, NextOrFail, Ends
<1>3. CASE Commit(j) \/ Push(j) \/ CreatePullRequest(j) \/ Check(j) \/ Review(j)
  BY <1>3 DEF Commit, Push, CreatePullRequest, Check, Review, NextOrFail, Ends
<1>4. CASE Merge(j) \/ DetectPlatform(j) \/ Trigger(j) \/ Monitor(j)
  BY <1>4 DEF Merge, DetectPlatform, Trigger, Monitor, NextOrFail, Ends
<1>5. CASE SmokeTestEnds(j) \/ Rollback(j)
  BY <1>5 DEF SmokeTestEnds, Rollback, Ends
<1> QED BY <1>1, <1>2, <1>3, <1>4, <1>5 DEF Execute

LEMMA ExecuteKept ==
    ASSUME InductiveInvariant, NEW j \in Jobs, Execute(j)
    PROVE  Promise!Next
<1>1. QueueFine /\ Attempts \in Nat
  BY JobSessions DEF InductiveInvariant
<1>2. CASE UNCHANGED queueVars
  BY <1>2, PromiseRests
<1>3. CASE MarkProcessing(j)
  BY <1>1, <1>3, ProcessKept
<1>4. CASE HandlerThrows(j)
  BY <1>1, <1>4, ThrowsKept DEF HandlerThrows
<1>5. CASE \E r \in {"ok", "notok"} : HandlerReturns(j, r)
  BY <1>1, <1>5, HandlerReturnsKept
<1> QED BY <1>2, <1>3, <1>4, <1>5, ExecutorHandles

LEMMA ServeKept ==
    ASSUME InductiveInvariant, NEW j \in Jobs, Serve(j) \/ Request(j)
    PROVE  Promise!Next
<1>1. QueueFine /\ Attempts \in Nat
  BY JobSessions DEF InductiveInvariant
<1>2. CASE Enqueue(j) \/ SaveBullId(j) \/ AddJob(j)
  BY <1>1, <1>2, EnqueueKept, AddJobKept
<1>3. CASE Take(j) \/ MarkCompleted(j) \/ Return(j)
  BY <1>1, <1>3, ProcessKept
<1>4. CASE Notify(j) \/ TellFailure(j) \/ Redeliver(j)
  BY <1>1, <1>4, NotifyKept, TellFailureKept, RedeliverKept
<1>5. CASE \E a \in late[j] : RecordFailure(j, a)
  BY <1>1, <1>5, OnFailedKept
<1>6. CASE RemoveBullJob(j) \/ MarkCancelled(j)
  BY <1>1, <1>6, CancelKept
<1> QED BY <1>2, <1>3, <1>4, <1>5, <1>6 DEF Serve, Request

LEMMA IncidentKept ==
    ASSUME InductiveInvariant, Incident
    PROVE  Promise!Next
<1>1. QueueFine /\ Attempts \in Nat
  BY JobSessions DEF InductiveInvariant
<1>2. CASE Crash
  BY <1>1, <1>2, LoseWorkersKept DEF Crash
<1>3. ASSUME NEW j \in Jobs, StoreFails(j)
      PROVE  Promise!Next
  <2>1. CASE EnqueueFails(j)
    BY <1>1, <2>1, EnqueueKept
  <2>2. CASE MarkFails(j) \/ MarkCompletedFails(j)
    BY <1>1, <2>2, ThrowsKept DEF MarkFails, MarkCompletedFails
  <2>3. CASE \E a \in late[j] : RecordFails(j, a)
    BY <1>1, <2>3, OnFailedKept
  <2> QED BY <1>3, <2>1, <2>2, <2>3 DEF StoreFails
<1>4. ASSUME NEW j \in Jobs, UserCancels(j)
      PROVE  Promise!Next
  BY <1>1, <1>4, CancelKept DEF UserCancels
<1> QED BY <1>2, <1>3, <1>4 DEF Incident

LEMMA PromiseStep ==
    ASSUME InductiveInvariant, [Next]_vars
    PROVE  Promise!Next
<1>1. ASSUME NEW j \in Jobs, Execute(j) \/ Serve(j) \/ Request(j)
      PROVE  Promise!Next
  BY <1>1, ExecuteKept, ServeKept
<1>2. CASE \/ \E j \in Jobs : Report(j) \/ PlatformEnds(j)
           \/ \E s \in Sessions : SessionRuns(s)
           \/ \E s \in scenario.others : OtherSession(s)
           \/ UNCHANGED vars
  <2>1. UNCHANGED queueVars
    BY <1>2 DEF Report, PlatformEnds, SessionRuns, OtherSession, vars
  <2> QED BY <2>1, PromiseRests
<1>3. CASE Incident
  BY <1>3, IncidentKept
<1> QED BY <1>1, <1>2, <1>3 DEF Next

-----------------------------------------------------------------------------
(* The theorems *)

\* The strengthening holds in every reachable state.
THEOREM Inductive == Spec => []InductiveInvariant
BY InvariantInit, InvariantStep, PTL DEF Spec

\* Every variable of the queue, the sessions and the executors keeps its type.
THEOREM TypeCorrect == Spec => []TypeOK
<1>1. InductiveInvariant => TypeOK
  BY DEF InductiveInvariant, ExecutorTypeOK, QueueFine, SessionsFine, TypeOK
<1> QED BY <1>1, Inductive, PTL

\* However many calls of spawnSession overlap, the sessions that run exceed
\* maxConcurrentSessions by no more than the calls that were on their way at
\* once, less one.
THEOREM LimitIsKept == Spec => []LimitKept
<1>1. InductiveInvariant => LimitKept
  BY DEF InductiveInvariant, SessionsFine, Counted
<1> QED BY <1>1, Inductive, PTL

\* A session is RUNNING exactly while its process lives, whatever timers,
\* exits and kills come in which order, unless its instance has crashed.
THEOREM CountedIsRunning == Spec => []CountedIsAlive
<1>1. InductiveInvariant => CountedIsAlive
  BY DEF InductiveInvariant, SessionsFine, Consistent, CountedIsAlive
<1> QED BY <1>1, Inductive, PTL

\* waitForSessionCompletion waits for a process that lives under an armed
\* timer, or for a session that was killed.
THEOREM WaitsAreFounded == Spec => []WaitsForSomeone
<1>1. InductiveInvariant => WaitsForSomeone
  BY DEF InductiveInvariant, SessionsFine, Consistent, WaitsForSomeone
<1> QED BY <1>1, Inductive, PTL

\* The pipeline gets at most one verdict per phase and one more for each time
\* the job was given out again, however attempts, failed events, cancellations
\* and crashes interleave.
THEOREM OneVerdictEach == Spec => []OneVerdict
<1>1. InductiveInvariant => OneVerdict
  BY VerdictsCounted DEF InductiveInvariant
<1> QED BY <1>1, Inductive, PTL

\* The row of a job and its end in Bull agree once the job is quiet, unless the
\* row was written out of turn or the end was lost by a fault.
THEOREM RowsTellTheEnd == Spec => []RowTellsTheEnd
<1>1. InductiveInvariant => RowTellsTheEnd
  BY RowsAgree DEF InductiveInvariant
<1> QED BY <1>1, Inductive, PTL

\* No session of a job runs behind its executor's back, and no two of one job.
THEOREM AgentsAreAwaited == Spec => []EveryAgentIsAwaited
<1>1. InductiveInvariant => EveryAgentIsAwaited
  <2> SUFFICES ASSUME InductiveInvariant, NEW s \in Sessions \ Others, status[s] = "RUNNING"
               PROVE  at[s[1]] = "wait" /\ s = Session(s[1]) /\ waiter[s] = "waiting"
    BY DEF EveryAgentIsAwaited
  <2>1. PICK j \in Jobs, r \in 1 .. MaxRuns : s = <<j, r>>
    BY JobSessions
  <2>2. s[1] = j /\ at[j] = "wait" /\ r = runs[j] /\ waiter[s] = "waiting"
    BY <2>1 DEF InductiveInvariant, ScriptFine, Awaited
  <2> QED BY <2>1, <2>2 DEF Session
<1> QED BY <1>1, Inductive, PTL

\* What the pipeline was told went well is done, also after executions that
\* were repeated and whatever the later ones did.
THEOREM OkIsDone == Spec => []OkMeansDone
<1>1. InductiveInvariant => OkMeansDone
  <2> SUFFICES ASSUME InductiveInvariant, NEW j \in Jobs, ToldOk(j)
               PROVE  Done(j)
    BY DEF OkMeansDone, ToldOk, Done
  <2> QED BY DEF InductiveInvariant, ScriptFine
<1> QED BY <1>1, Inductive, PTL

\* An execution that knows the id of a deployment and ends badly has asked for
\* its rollback.
THEOREM BadIsUndone == Spec => []BadDeploymentIsUndone
<1>1. InductiveInvariant => BadDeploymentIsUndone
  BY DEF InductiveInvariant, ExecutorTypeOK, ScriptFine, BadDeploymentIsUndone
<1> QED BY <1>1, Inductive, PTL

\* The queue with its workers, executors and faults implements PhaseJobs: what
\* the pipeline hears of a job it was owed, twice at most, and nothing after
\* the failure of all attempts.
THEOREM PromiseIsKept == Spec => ImplementsPhaseJobs
<1>1. Init => Promise!Init
  BY PromiseInit, JobSessions DEF Init
<1>2. InductiveInvariant /\ [Next]_vars => [Promise!Next]_(Promise!phaseJobs)
  BY PromiseStep
<1> QED BY <1>1, <1>2, Inductive, PTL DEF Spec, ImplementsPhaseJobs, Promise!Spec
=============================================================================
