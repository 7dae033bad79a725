--------------------------- MODULE SessionProofs ---------------------------
(***************************************************************************)
(* What the steps of CliSessions preserve, for every set of sessions and   *)
(* every limit.  ExecutorProofs builds the theorems of the composed        *)
(* specification on these lemmas.                                          *)
(***************************************************************************)
EXTENDS CliSessions, FiniteSetTheorems, TLAPS

\* The sessions that are counted are finitely many, and LimitKept with the
\* calls that are spawning, of which there were never more than peak.
Counted ==
    /\ IsFiniteSet(active)
    /\ IsFiniteSet(spawning)
    /\ Cardinality(spawning) <= peak
    /\ LimitKept

\* What is known of one session.  An id that is spawning or unknown has left
\* no trace in the instance, a session that runs is in activeSessions, and who
\* has an exit code has it from a process that is gone.
Consistent(s) ==
    /\ s \in spawning => status[s] = "none" /\ proc[s] = "none"
    /\ status[s] = "none" => s \notin active /\ s \notin timer /\ waiter[s] = "none"
    /\ status[s] # "none" => (status[s] = "RUNNING" <=> proc[s] = "alive")
    /\ status[s] = "RUNNING" => s \in active
    /\ waiter[s] = "waiting" => \/ proc[s] = "alive" /\ s \in timer
                                \/ status[s] = "TERMINATED"
    /\ waiter[s] \in {"zero", "nonzero"} => proc[s] = "gone"

SessionsFine ==
    /\ SessionTypeOK
    /\ Counted
    /\ \A s \in Sessions : Consistent(s)

\* A process that is gone stays gone and a report stays printed.
Lasting ==
    \A s \in Sessions : /\ proc[s] = "gone" => proc'[s] = "gone"
                        /\ printed[s] = "passed" => printed'[s] = "passed"

\* Session s runs after the step only if it ran before, and who waited for it
\* still does.
NotStarted(s) ==
    status'[s] = "RUNNING" =>
        /\ status[s] = "RUNNING"
        /\ waiter[s] = "waiting" => waiter'[s] = "waiting"

\* What a step other than the launch of s does.
Sound == SessionsFine' /\ Lasting /\ \A s \in Sessions : NotStarted(s)

-----------------------------------------------------------------------------
(* The limit *)

\* Fewer sessions run and fewer calls spawn: the limit is kept.
LEMMA FewerCounted ==
    ASSUME SessionsFine, MaxConcurrent \in Nat,
           active' \subseteq active, spawning' \subseteq spawning,
           Running' \subseteq Running, peak' = peak
    PROVE  Counted'
<1>1. /\ IsFiniteSet(active) /\ IsFiniteSet(spawning) /\ peak \in Nat
      /\ Cardinality(spawning) <= peak
      /\ Cardinality(Running) + Cardinality(spawning) <= MaxConcurrent - 1 + peak
  BY DEF SessionsFine, Counted, LimitKept, SessionTypeOK
<1>2. Running \subseteq active
  BY DEF Running
<1>3. IsFiniteSet(Running)
  BY <1>1, <1>2, FS_Subset
<1>4. IsFiniteSet(active') /\ IsFiniteSet(spawning')
  BY <1>1, FS_Subset
<1>5. /\ Cardinality(spawning') \in Nat /\ Cardinality(spawning) \in Nat
      /\ Cardinality(spawning') <= Cardinality(spawning)
  BY <1>1, <1>4, FS_Subset, FS_CardinalityType
<1>6. IsFiniteSet(Running')
  BY <1>3, FS_Subset
<1>7. /\ Cardinality(Running') \in Nat /\ Cardinality(Running) \in Nat
      /\ Cardinality(Running') <= Cardinality(Running)
  BY <1>3, <1>6, FS_Subset, FS_CardinalityType
<1>8. Cardinality(Running') + Cardinality(spawning') <= MaxConcurrent - 1 + peak'
  BY <1>1, <1>5, <1>7
<1> QED BY <1>1, <1>4, <1>5, <1>8 DEF Counted, LimitKept

\* A call that passes the check is counted by peak.
LEMMA AdmitCounted ==
    ASSUME SessionsFine, MaxConcurrent \in Nat, NEW s \in Sessions, Admit(s)
    PROVE  Counted'
<1>1. /\ IsFiniteSet(active) /\ IsFiniteSet(spawning) /\ peak \in Nat
  BY DEF SessionsFine, Counted, SessionTypeOK
<1>2. Running \subseteq active
  BY DEF Running
<1>3. IsFiniteSet(Running)
  BY <1>1, <1>2, FS_Subset
<1>4. spawning' = spawning \cup {s} /\ active' = active /\ status' = status
  BY DEF Admit
<1>5. IsFiniteSet(spawning')
  BY <1>1, <1>4, FS_AddElement
<1>6. Cardinality(spawning') \in Nat /\ Cardinality(Running) \in Nat
  BY <1>3, <1>5, FS_CardinalityType
<1>7. Running' = Running
  BY <1>4 DEF Running
<1>8. Cardinality(Running) < MaxConcurrent
  BY DEF Admit
<1>9. peak' = IF Cardinality(spawning') > peak THEN Cardinality(spawning') ELSE peak
  BY DEF Admit
<1>10. Cardinality(spawning') <= peak' /\ peak' \in Nat
  BY <1>1, <1>6, <1>9
<1>11. Cardinality(Running) + Cardinality(spawning') <= MaxConcurrent - 1 + peak'
  BY <1>6, <1>8, <1>10
<1> QED BY <1>1, <1>4, <1>5, <1>7, <1>10, <1>11 DEF Counted, LimitKept

\* A session that is registered was spawning before.
LEMMA LaunchCounted ==
    ASSUME SessionsFine, MaxConcurrent \in Nat, NEW s \in Sessions, Launch(s)
    PROVE  Counted'
<1>1. /\ IsFiniteSet(active) /\ IsFiniteSet(spawning) /\ peak \in Nat
      /\ Cardinality(spawning) <= peak
      /\ Cardinality(Running) + Cardinality(spawning) <= MaxConcurrent - 1 + peak
      /\ status \in [Sessions -> SessionStatus]
  BY DEF SessionsFine, Counted, LimitKept, SessionTypeOK
<1>2. /\ s \in spawning
      /\ spawning' = spawning \ {s} /\ active' = active \cup {s}
      /\ status' = [status EXCEPT ![s] = "RUNNING"] /\ peak' = peak
  BY DEF Launch
<1>3. Running \subseteq active /\ Running' \subseteq Running \cup {s}
  BY <1>1, <1>2 DEF Running
<1>4. IsFiniteSet(Running)
  BY <1>1, <1>3, FS_Subset
<1>5. IsFiniteSet(active')
  BY <1>1, <1>2, FS_AddElement
<1>6. /\ IsFiniteSet(spawning')
      /\ Cardinality(spawning') = Cardinality(spawning) - 1
  BY <1>1, <1>2, FS_RemoveElement
<1>7. /\ IsFiniteSet(Running \cup {s})
      /\ \/ Cardinality(Running \cup {s}) = Cardinality(Running)
         \/ Cardinality(Running \cup {s}) = Cardinality(Running) + 1
  BY <1>4, FS_AddElement
<1>8. /\ IsFiniteSet(Running')
      /\ Cardinality(Running') <= Cardinality(Running \cup {s})
  BY <1>3, <1>7, FS_Subset
<1>9. /\ Cardinality(spawning) \in Nat /\ Cardinality(spawning') \in Nat
      /\ Cardinality(Running) \in Nat /\ Cardinality(Running') \in Nat
  BY <1>1, <1>4, <1>6, <1>8, FS_CardinalityType
<1>10. Cardinality(Running') <= Cardinality(Running) + 1
  BY <1>7, <1>8, <1>9
<1>11. Cardinality(Running') + Cardinality(spawning') <= MaxConcurrent - 1 + peak'
  BY <1>1, <1>2, <1>6, <1>9, <1>10
<1> QED BY <1>1, <1>2, <1>5, <1>6, <1>9, <1>11 DEF Counted, LimitKept

-----------------------------------------------------------------------------
(* The actions *)

LEMMA SessionInitFine ==
    ASSUME SessionInit, MaxConcurrent \in Nat \ {0}
    PROVE  SessionsFine
<1>1. SessionTypeOK
  BY DEF SessionInit, SessionTypeOK, SessionStatus
<1>2. active = {} /\ spawning = {} /\ Running = {} /\ peak = 0
  BY DEF SessionInit, Running
<1>3. Counted
  BY <1>2, FS_EmptySet DEF Counted, LimitKept
<1>4. \A s \in Sessions : Consistent(s)
  BY DEF SessionInit, Consistent
<1> QED BY <1>1, <1>3, <1>4 DEF SessionsFine

LEMMA AdmitSound ==
    ASSUME SessionsFine, MaxConcurrent \in Nat, NEW s \in Sessions, Admit(s)
    PROVE  Sound
<1>1. Counted'
  BY AdmitCounted
<1>2. IsFiniteSet(spawning')
  BY <1>1 DEF Counted
<1>3. Cardinality(spawning') \in Nat
  BY <1>2, FS_CardinalityType
<1>4. SessionTypeOK'
  BY <1>3 DEF SessionsFine, SessionTypeOK, Admit
<1>5. \A t \in Sessions : Consistent(t)'
  BY DEF SessionsFine, Consistent, Admit, Fresh
<1> QED BY <1>1, <1>4, <1>5 DEF Sound, SessionsFine, Lasting, NotStarted, Admit

LEMMA SetupFailsSound ==
    ASSUME SessionsFine, MaxConcurrent \in Nat, NEW s \in Sessions, SetupFails(s)
    PROVE  Sound
<1>1. /\ spawning' \subseteq spawning
      /\ UNCHANGED <<active, status, proc, timer, waiter, printed, peak>>
  BY DEF SetupFails
<1>2. Counted'
  BY <1>1, FewerCounted DEF Running
<1>3. SessionTypeOK'
  BY <1>1 DEF SessionsFine, SessionTypeOK
<1>4. \A t \in Sessions : Consistent(t)'
  BY <1>1 DEF SessionsFine, Consistent
<1> QED BY <1>1, <1>2, <1>3, <1>4 DEF Sound, SessionsFine, Lasting, NotStarted

\* The launch of s starts no other session.
LEMMA LaunchSound ==
    ASSUME SessionsFine, MaxConcurrent \in Nat, NEW s \in Sessions, Launch(s)
    PROVE  /\ SessionsFine' /\ Lasting
           /\ \A t \in Sessions \ {s} : NotStarted(t)
<1>1. Counted'
  BY LaunchCounted
<1>2. SessionTypeOK'
  BY DEF SessionsFine, SessionTypeOK, SessionStatus, Launch
<1>3. \A t \in Sessions : Consistent(t)'
  BY DEF SessionsFine, SessionTypeOK, Consistent, Launch
<1>4. Lasting
  BY DEF SessionsFine, SessionTypeOK, Consistent, Lasting, Launch
<1>5. \A t \in Sessions \ {s} : NotStarted(t)
  BY DEF SessionsFine, SessionTypeOK, NotStarted, Launch
<1> QED BY <1>1, <1>2, <1>3, <1>4, <1>5 DEF SessionsFine

LEMMA TimesOutSound ==
    ASSUME SessionsFine, MaxConcurrent \in Nat, NEW s \in Sessions, TimesOut(s)
    PROVE  Sound
<1>1. /\ spawning' = spawning /\ peak' = peak /\ active' \subseteq active
      /\ Running' \subseteq Running
  BY DEF SessionsFine, SessionTypeOK, TimesOut, Terminate, Running
<1>2. Counted'
  BY <1>1, FewerCounted
<1>3. SessionTypeOK'
  BY DEF SessionsFine, SessionTypeOK, SessionStatus, TimesOut, Terminate, Running
<1>4. \A t \in Sessions : Consistent(t)'
  BY DEF SessionsFine, SessionTypeOK, Consistent, TimesOut, Terminate, Running
<1>5. Lasting /\ \A t \in Sessions : NotStarted(t)
  BY DEF SessionsFine, SessionTypeOK, Lasting, NotStarted, TimesOut, Terminate, Running
<1> QED BY <1>2, <1>3, <1>4, <1>5 DEF Sound, SessionsFine

LEMMA ProcessExitsSound ==
    ASSUME SessionsFine, MaxConcurrent \in Nat, NEW s \in Sessions,
           NEW ok \in BOOLEAN, ProcessExits(s, ok)
    PROVE  Sound
<1>1. /\ spawning' = spawning /\ peak' = peak /\ active' = active
      /\ printed' = printed /\ timer' = timer \ {s}
      /\ proc[s] \in {"alive", "killed"}
      /\ proc' = [proc EXCEPT ![s] = "gone"]
  BY DEF ProcessExits
<1>2. PICK st \in {"COMPLETED", "FAILED"}, code \in {"zero", "nonzero"} :
        IF status[s] = "none" \/ (~ok /\ status[s] = "TERMINATED")
        THEN UNCHANGED <<status, waiter>>
        ELSE status' = [status EXCEPT ![s] = st] /\ Heard(s, code)
  <2>1. CASE ok
    BY <2>1 DEF ProcessExits
  <2>2. CASE ~ok
    BY <2>2 DEF ProcessExits
  <2> QED BY <2>1, <2>2
<1>3. Running' \subseteq Running
  BY <1>1, <1>2 DEF SessionsFine, SessionTypeOK, Running
<1>4. Counted'
  BY <1>1, <1>3, FewerCounted
<1>5. SessionTypeOK'
  BY <1>1, <1>2 DEF SessionsFine, SessionTypeOK, SessionStatus, Heard
<1>6. \A t \in Sessions : Consistent(t)'
  BY <1>1, <1>2 DEF SessionsFine, SessionTypeOK, Consistent, Heard
<1>7. Lasting /\ \A t \in Sessions : NotStarted(t)
  BY <1>1, <1>2 DEF SessionsFine, SessionTypeOK, Lasting, NotStarted, Heard, Consistent
<1> QED BY <1>4, <1>5, <1>6, <1>7 DEF Sound, SessionsFine

LEMMA OnOutputSound ==
    ASSUME SessionsFine, MaxConcurrent \in Nat, NEW s \in Sessions,
           NEW r \in {"passed", "failed"}, OnOutput(s, r)
    PROVE  Sound
<1>1. /\ printed[s] = "nothing"
      /\ printed' = [printed EXCEPT ![s] = r]
      /\ UNCHANGED <<spawning, active, status, proc, timer, waiter, peak>>
  BY DEF OnOutput
<1>2. Counted'
  BY <1>1, FewerCounted DEF Running
<1>3. SessionTypeOK'
  BY <1>1 DEF SessionsFine, SessionTypeOK
<1>4. \A t \in Sessions : Consistent(t)'
  BY <1>1 DEF SessionsFine, Consistent
<1>5. Lasting /\ \A t \in Sessions : NotStarted(t)
  BY <1>1 DEF SessionsFine, SessionTypeOK, Lasting, NotStarted
<1> QED BY <1>2, <1>3, <1>4, <1>5 DEF Sound, SessionsFine

LEMMA SafetyTimeoutSound ==
    ASSUME SessionsFine, MaxConcurrent \in Nat, NEW s \in Sessions, SafetyTimeout(s)
    PROVE  Sound
<1>1. /\ waiter[s] = "waiting" /\ s \notin timer
      /\ waiter' = [waiter EXCEPT ![s] = "null"]
      /\ UNCHANGED <<spawning, active, status, proc, timer, printed, peak>>
  BY DEF SafetyTimeout
<1>2. Counted'
  BY <1>1, FewerCounted DEF Running
<1>3. SessionTypeOK'
  BY <1>1 DEF SessionsFine, SessionTypeOK
<1>4. \A t \in Sessions : Consistent(t)'
  BY <1>1 DEF SessionsFine, SessionTypeOK, Consistent
<1>5. Lasting /\ \A t \in Sessions : NotStarted(t)
  BY <1>1 DEF SessionsFine, SessionTypeOK, Consistent, Lasting, NotStarted
<1> QED BY <1>2, <1>3, <1>4, <1>5 DEF Sound, SessionsFine

LEMMA SmokeTimeoutSound ==
    ASSUME SessionsFine, MaxConcurrent \in Nat, NEW s \in Sessions, SmokeTimeout(s)
    PROVE  Sound
<1>1. /\ spawning' = spawning /\ peak' = peak /\ active' \subseteq active
      /\ Running' \subseteq Running
  BY DEF SessionsFine, SessionTypeOK, SmokeTimeout, Terminate, Running
<1>2. Counted'
  BY <1>1, FewerCounted
<1>3. SessionTypeOK'
  BY DEF SessionsFine, SessionTypeOK, SessionStatus, SmokeTimeout, Terminate
<1>4. \A t \in Sessions : Consistent(t)'
  BY DEF SessionsFine, SessionTypeOK, Consistent, SmokeTimeout, Terminate
<1>5. Lasting /\ \A t \in Sessions : NotStarted(t)
  BY DEF SessionsFine, SessionTypeOK, Consistent, Lasting, NotStarted, SmokeTimeout, Terminate
<1> QED BY <1>2, <1>3, <1>4, <1>5 DEF Sound, SessionsFine

LEMMA LoseSessionsSound ==
    ASSUME SessionsFine, MaxConcurrent \in Nat, LoseSessions
    PROVE  Sound
<1>1. /\ spawning' = {} /\ active' = {} /\ timer' = {}
      /\ status' = [t \in Sessions |-> "none"]
      /\ waiter' = [t \in Sessions |-> "none"]
      /\ UNCHANGED <<proc, printed, peak>>
  BY DEF LoseSessions
<1>2. Running' = {}
  BY <1>1 DEF Running
<1>3. Counted'
  BY <1>1, <1>2, FewerCounted
<1>4. SessionTypeOK'
  BY <1>1 DEF SessionsFine, SessionTypeOK, SessionStatus
<1>5. \A t \in Sessions : Consistent(t)'
  BY <1>1 DEF SessionsFine, Consistent
<1>6. Lasting /\ \A t \in Sessions : NotStarted(t)
  BY <1>1 DEF Lasting, NotStarted
<1> QED BY <1>3, <1>4, <1>5, <1>6 DEF Sound, SessionsFine

LEMMA SessionsRest ==
    ASSUME SessionsFine, MaxConcurrent \in Nat, UNCHANGED sessionVars
    PROVE  Sound
<1>1. UNCHANGED <<spawning, active, status, proc, timer, waiter, printed, peak>>
  BY DEF sessionVars
<1>2. Counted'
  BY <1>1, FewerCounted DEF Running
<1>3. SessionTypeOK'
  BY <1>1 DEF SessionsFine, SessionTypeOK
<1>4. \A t \in Sessions : Consistent(t)'
  BY <1>1 DEF SessionsFine, Consistent
<1> QED BY <1>1, <1>2, <1>3, <1>4 DEF Sound, SessionsFine, Lasting, NotStarted
=============================================================================
