--------------------------- MODULE RecoveryProofs ---------------------------
(***************************************************************************)
(* Theorems about FailureRecovery, for every set of sessions, every number *)
(* of retries, and any number of failures, checkpoints, overrides and      *)
(* faults.                                                                 *)
(***************************************************************************)
EXTENDS FailureRecovery, FiniteSetTheorems, WellFoundedInduction, TLAPS

\* What is numbered comes after what it follows.
Numbered ==
    /\ commits.story <= commits.made
    /\ \A s \in Sessions :
          /\ commits.own[s] <= commits.made
          /\ commits.kept[s] <= commits.own[s]
          /\ commits.writing[s] <= commits.made

Override == [pc : {"idle", "act", "finish"}, failure : Nat,
             action : {"none", "terminate", "provide_guidance"}]

Typed ==
    /\ failures \in Seq(Failure)
    /\ retries \in [Projects -> Nat]
    /\ recovered \in [Projects -> Nat]
    /\ overlap \in [Projects -> BOOLEAN]
    /\ faults \in Nat
    /\ commits \in Commits
    /\ mixed \in BOOLEAN
    /\ override \in Override
    /\ override.pc # "idle" => override.failure \in DOMAIN failures
    /\ Numbered

\* The handlers of a project come one at a time.
OneAtATime ==
    \A p \in Projects : ~overlap[p] =>
       \A m, n \in DOMAIN failures :
          (failures[m].project = p /\ InFlight(m) /\ failures[n].project = p /\ InFlight(n))
             => m = n

\* A handler that has begun a recovery which counts.
Recovering(n) == failures[n].kind # "loop" /\ failures[n].pc \in {"session", "story", "record"}

\* Each recovery is in the retries.
Settled(p) == recovered[p] <= retries[p] /\ recovered[p] <= MaxRetries

\* So it is between two handlers; within one, the recovery it has begun is
\* still to be counted, and was begun with a retry left.
Accounted ==
    \A p \in Projects : ~overlap[p] =>
       /\ ~Handled(p) => Settled(p)
       /\ \A n \in DOMAIN failures :
             (failures[n].project = p /\ InFlight(n)) =>
                /\ failures[n].tried = retries[p]
                /\ ~Recovering(n) => Settled(p)
                /\ Recovering(n) => /\ recovered[p] <= retries[p] + 1
                                    /\ failures[n].tried < MaxRetries

\* As long as checkpoints are written one at a time, the story has the newest
\* that is written in full.
StoryIsNewest ==
    ~mixed =>
       /\ \A s \in Sessions : commits.kept[s] <= commits.story
       /\ \A s \in Sessions : commits.writing[s] > 0 => commits.writing[s] = commits.made
       /\ \A s, t \in Sessions : commits.writing[s] > 0 /\ commits.writing[t] > 0 => s = t

\* A handler has found the checkpoint that it ought to find, or will: in the set
\* of its session, or under the story's key, where a failure of the project finds
\* it even if the first read fails, and one of no project finds nothing.
WillFindOne(f) ==
    /\ f.known <= commits.made
    /\ f.pc \in {"delay", "session"} =>
          /\ commits.own[f.session] > 0 => f.known <= commits.own[f.session]
          /\ f.project = "unknown" => commits.own[f.session] > 0 \/ f.known = 0
    /\ f.pc \in {"delay", "session", "story"} /\ f.project = "project" =>
          f.known <= commits.story
    /\ f.pc = "story" /\ f.project = "unknown" /\ ~f.blind => f.known = 0
    /\ f.pc = "record" /\ ~f.blind => f.used >= f.known
WillFind == ~mixed => \A n \in DOMAIN failures : WillFindOne(failures[n])

InductiveInvariant == Typed /\ OneAtATime /\ Accounted /\ StoryIsNewest /\ WillFind

\* Silences that have not been noticed yet.
Unnoticed(entry) == entry.silent /\ ~entry.noticed
Untold == {s \in Sessions : session[s].silent /\ ~session[s].noticed}

\* What is bounded: each silence that is still to be noticed has its failure put
\* aside, so that the heartbeat needs no bound of its own.
Bounded ==
    /\ scenario \in Scenarios
    /\ alive \in [Sessions -> {"new", "running", "ended"}]
    /\ session \in [Sessions -> Tracked]
    /\ pipeline \in {"running", "paused", "failed"}
    /\ calls \in 0 .. scenario.overrides
    /\ faults <= scenario.faults
    /\ unreported \subseteq Sessions
    /\ IsFiniteSet(Untold)
    /\ Len(failures) + Cardinality(Untold) <= scenario.failures

\* What goes together in the memory of the health monitor: open says that the
\* present silence of the session was not reported, now what its process is.
Noticeable(entry, open, now) ==
    /\ open => entry.watched /\ entry.silent /\ ~entry.noticed
    /\ entry.noticed => entry.silent
    /\ now = "new" => ~entry.watched
SilenceInStep == \A s \in Sessions : Noticeable(session[s], s \in unreported, alive[s])

-----------------------------------------------------------------------------
(* The newest checkpoint *)

\* A set of numbers has a least one.
LEMMA Least ==
    ASSUME NEW T \in SUBSET Nat, T # {}
    PROVE  \E x \in T : \A y \in T : x <= y
  <1> DEFINE R == {ss \in Nat \X Nat : ss[1] < ss[2]}
  <1>1. IsWellFoundedOn(R, Nat)
    BY NatLessThanWellFounded, Zenon DEF OpToRel
  <1>2. \A x, y \in Nat : y < x => <<y, x>> \in R
    OBVIOUS
  <1> HIDE DEF R
  <1>3. PICK x \in T : \A y \in T : <<y, x>> \notin R
    BY <1>1, WFMin
  <1>4. ASSUME NEW y \in T
        PROVE  x <= y
    <2>1. x \in Nat /\ y \in Nat /\ ~(y < x)
      BY <1>2, <1>3
    <2>2. QED
      BY <2>1
  <1>5. QED
    BY <1>4

\* What is written in full for a session, or for the story, is one of the
\* checkpoints of the story, and no other is newer.
LEMMA NewestIsOne ==
    ASSUME Typed, NEW s \in Sessions, NEW p \in Projects
    PROVE  /\ Newest(s, p) \in Nat /\ Newest(s, p) <= commits.made
           /\ commits.own[s] > 0 => Newest(s, p) = commits.kept[s]
           /\ commits.own[s] = 0 =>
                 IF p = "unknown" THEN Newest(s, p) = 0
                 ELSE \E t \in Sessions : Newest(s, p) = commits.kept[t]
  <1> DEFINE K == {commits.kept[t] : t \in Sessions}
             D == {commits.made - k : k \in K}
  <1>1. /\ commits.made \in Nat /\ commits.own[s] \in Nat
        /\ \A t \in Sessions : commits.kept[t] \in Nat /\ commits.kept[t] <= commits.made
    BY DEF Typed, Commits, Numbered
  <1>2. D \in SUBSET Nat /\ D # {}
    <2>1. \A k \in K : commits.made - k \in Nat
      BY <1>1
    <2>2. commits.kept[s] \in K
      OBVIOUS
    <2>3. QED
      BY <2>1, <2>2
  <1>3. PICK d \in D : \A e \in D : d <= e
    BY <1>2, Least
  <1>4. PICK k \in K : d = commits.made - k
    OBVIOUS
  <1>5. ASSUME NEW j \in K
        PROVE  k >= j
    <2>1. commits.made - j \in D
      OBVIOUS
    <2>2. commits.made - k <= commits.made - j
      BY <1>3, <1>4, <2>1
    <2>3. k \in Nat /\ j \in Nat
      BY <1>1
    <2>4. QED
      BY <1>1, <2>2, <2>3
  <1>6. Max(K) \in K
    BY <1>5 DEF Max
  <1>7. PICK u \in Sessions : Max(K) = commits.kept[u]
    BY <1>6
  <1> HIDE DEF K, D
  <1>8. CASE commits.own[s] > 0
    BY <1>1, <1>8 DEF Newest
  <1>9. CASE commits.own[s] = 0 /\ p = "project"
    <2>1. Newest(s, p) = Max(K)
      BY <1>9 DEF Newest, K
    <2>2. QED
      BY <1>1, <1>7, <1>9, <2>1
  <1>10. CASE commits.own[s] = 0 /\ p = "unknown"
    BY <1>1, <1>10 DEF Newest
  <1>11. QED
    BY <1>1, <1>8, <1>9, <1>10 DEF Projects

-----------------------------------------------------------------------------
(* The steps that matter *)

\* A failure that is raised.
LEMMA CreateEffect ==
    ASSUME Typed, NEW s \in Sessions, NEW kind \in Kind, NEW entry, NEW now,
           Create(s, kind, entry, now)
    PROVE  \E p \in Projects, f \in Failure :
              /\ failures' = Append(failures, f)
              /\ f.project = p /\ f.session = s /\ f.kind = kind /\ f.tried = retries[p]
              /\ f.known = Newest(s, p) /\ f.pc = FirstStep(kind, retries[p])
              /\ overlap' = [overlap EXCEPT ![p] = @ \/ Handled(p)]
              /\ recovered' = IF f.pc = "session" /\ kind # "loop"
                              THEN [recovered EXCEPT ![p] = @ + 1] ELSE recovered
              /\ UNCHANGED <<retries, commits, override, faults, mixed>>
  <1> DEFINE p == IF entry.registered THEN "project" ELSE "unknown"
             first == FirstStep(kind, retries[p])
             f == [session |-> s, project |-> p, kind |-> kind, pc |-> first,
                   tried |-> retries[p], active |-> TRUE, escalated |-> FALSE,
                   used |-> 0, known |-> Newest(s, p), blind |-> FALSE]
  <1>1. p \in Projects /\ retries[p] \in Nat
    BY DEF Projects, Typed
  <1>2. first \in {"delay", "session", "pause"} /\ Newest(s, p) \in Nat
    BY <1>1, NewestIsOne DEF FirstStep
  <1>3. f \in Failure
    BY <1>1, <1>2 DEF Failure
  <1>4. /\ failures' = Append(failures, f)
        /\ overlap' = [overlap EXCEPT ![p] = @ \/ Handled(p)]
        /\ UNCHANGED <<retries, commits, override, faults, mixed>>
    BY DEF Create
  <1>5. recovered' = IF first = "session" /\ kind # "loop"
                     THEN [recovered EXCEPT ![p] = @ + 1] ELSE recovered
    BY DEF Create, Recover
  <1>6. QED
    BY <1>1, <1>3, <1>4, <1>5

\* A step of a session raises a failure or is about a checkpoint, or none of
\* this is touched.
LEMMA SessionEffect ==
    ASSUME NEW s \in Sessions, SessionStep(s)
    PROVE  \/ \E kind \in Kind : \E entry, now : Create(s, kind, entry, now)
           \/ AddCheckpoint(s) \/ SetStoryCheckpoint(s)
           \/ UNCHANGED <<failures, retries, recovered, overlap, commits, override, faults,
                          mixed>>
  <1>1. CASE ProcessExit(s) \/ TimerFires(s)
    BY <1>1, Zenon DEF ProcessExit, TimerFires, Kind
  <1>2. CASE ApiError(s, "api") \/ ApiError(s, "rate")
    BY <1>2 DEF ApiError, Keep, Kind
  <1>3. CASE Modify(s)
    BY <1>3 DEF Modify, Keep, Kind
  <1>4. CASE CheckHealth(s)
    BY <1>4 DEF CheckHealth, Keep, Kind
  <1>5. CASE StopMonitoring(s) \/ ApiSuccess(s) \/ TestsPass(s) \/ FallSilent(s)
             \/ RecordActivity(s)
    BY <1>5 DEF StopMonitoring, ApiSuccess, TestsPass, FallSilent, RecordActivity, Keep
  <1>6. CASE Start(s) \/ Succeed(s)
    BY <1>6 DEF Start, Succeed, history
  <1>7. QED
    BY <1>1, <1>2, <1>3, <1>4, <1>5, <1>6 DEF SessionStep

LEMMA FailureTyped ==
    ASSUME Typed, NEW n \in DOMAIN failures
    PROVE  failures[n] \in Failure
  BY DEF Typed

\* One failure changes.
LEMMA OneChanges ==
    ASSUME Typed, NEW n \in DOMAIN failures, NEW f \in Failure,
           failures' = [failures EXCEPT ![n] = f]
    PROVE  /\ failures' \in Seq(Failure) /\ DOMAIN failures' = DOMAIN failures
           /\ failures'[n] = f
           /\ \A m \in DOMAIN failures : m # n => failures'[m] = failures[m]
  BY DEF Typed

\* What adds no failure, begins no recovery and ends none leaves the account.
LEMMA AccountStays ==
    ASSUME Typed, OneAtATime, Accounted, DOMAIN failures' = DOMAIN failures,
           \A n \in DOMAIN failures :
              /\ failures'[n].project = failures[n].project
              /\ failures'[n].kind = failures[n].kind
              /\ failures'[n].tried = failures[n].tried
              /\ InFlight(n)' = InFlight(n) /\ Recovering(n)' = Recovering(n),
           UNCHANGED <<retries, recovered, overlap>>
    PROVE  OneAtATime' /\ Accounted'
  <1>1. OneAtATime'
    BY DEF OneAtATime
  <1>2. \A p \in Projects : Settled(p)' = Settled(p) /\ Handled(p)' = Handled(p)
    BY DEF Settled, Handled
  <1>3. Accounted'
    BY <1>2 DEF Accounted
  <1>4. QED
    BY <1>1, <1>3

\* What writes no checkpoint leaves those that will be found, if the handlers
\* that look for them do not change, or begin to look.
LEMMA FindingStays ==
    ASSUME StoryIsNewest, WillFind, DOMAIN failures' = DOMAIN failures,
           \A n \in DOMAIN failures :
              /\ failures'[n].session = failures[n].session
              /\ failures'[n].project = failures[n].project
              /\ failures'[n].known = failures[n].known
              /\ failures'[n].blind = failures[n].blind
              /\ \/ failures'[n].pc = failures[n].pc /\ failures'[n].used = failures[n].used
                 \/ failures'[n].pc \in {"pause", "note", "done", "aborted"}
                 \/ failures'[n].pc = "session" /\ failures[n].pc = "delay",
           UNCHANGED <<commits, mixed>>
    PROVE  StoryIsNewest' /\ WillFind'
  <1>1. StoryIsNewest'
    BY DEF StoryIsNewest
  <1>2. WillFind'
    BY DEF WillFind, WillFindOne
  <1>3. QED
    BY <1>1, <1>2

\* The end of a handler, in a recovery or not.
LEMMA HandlerEnds ==
    ASSUME Typed, OneAtATime, Accounted, NEW n \in DOMAIN failures, InFlight(n),
           failures'[n].pc \in {"done", "aborted"}, DOMAIN failures' = DOMAIN failures,
           failures'[n].project = failures[n].project,
           \A m \in DOMAIN failures : m # n => failures'[m] = failures[m],
           UNCHANGED <<recovered, overlap>>,
           retries' = [retries EXCEPT ![failures[n].project] = failures[n].tried + 1]
    PROVE  OneAtATime' /\ Accounted'
  <1> DEFINE q == failures[n].project
  <1>1. q \in Projects /\ failures[n].tried \in Nat
    BY FailureTyped DEF Failure
  <1>2. \A m \in DOMAIN failures : m # n => InFlight(m)' = InFlight(m)
    BY DEF InFlight
  <1>3. ~InFlight(n)'
    BY DEF InFlight
  <1>4. OneAtATime'
    BY <1>2, <1>3 DEF OneAtATime
  <1>5. \A p \in Projects : recovered[p] \in Nat /\ retries[p] \in Nat /\ faults \in Nat
    BY DEF Typed
  <1>6. ASSUME ~overlap[q]
        PROVE  Settled(q)' /\ ~Handled(q)'
    <2>1. failures[n].tried = retries[q]
      BY <1>1, <1>6 DEF Accounted
    <2>2. \A m \in DOMAIN failures : m # n /\ failures[m].project = q => ~InFlight(m)
      BY <1>1, <1>6 DEF OneAtATime
    <2>3. ~Handled(q)'
      BY <1>2, <1>3, <2>2 DEF Handled
    <2>4. retries'[q] = retries[q] + 1 /\ recovered'[q] = recovered[q]
      BY <1>1, <2>1 DEF Typed
    <2>5. CASE Recovering(n)
      <3>1. recovered[q] <= retries[q] + 1 /\ retries[q] < MaxRetries
        BY <1>1, <1>6, <2>1, <2>5 DEF Accounted
      <3>2. QED
        BY <1>1, <1>5, <2>3, <2>4, <3>1, RecoveryAssumption DEF Settled
    <2>6. CASE ~Recovering(n)
      <3>1. Settled(q)
        BY <1>1, <1>6, <2>6 DEF Accounted
      <3>2. QED
        BY <1>1, <1>5, <2>3, <2>4, <3>1, RecoveryAssumption DEF Settled
    <2>7. QED
      BY <2>5, <2>6
  <1>7. ASSUME NEW p \in Projects, p # q, ~overlap[p]
        PROVE  /\ ~Handled(p)' => Settled(p)'
               /\ \A m \in DOMAIN failures :
                     (failures'[m].project = p /\ InFlight(m)') =>
                        /\ failures'[m].tried = retries'[p]
                        /\ ~Recovering(m)' => Settled(p)'
                        /\ Recovering(m)' => /\ recovered'[p] <= retries'[p] + 1
                                             /\ failures'[m].tried < MaxRetries
    <2>1. retries'[p] = retries[p] /\ recovered'[p] = recovered[p]
      BY <1>5, <1>7 DEF Typed
    <2>2. Settled(p) => Settled(p)'
      BY <2>1 DEF Settled
    <2>3. \A m \in DOMAIN failures : m # n => Recovering(m)' = Recovering(m)
      BY DEF Recovering
    <2>4. Handled(p)' = Handled(p)
      BY <1>2, <1>3, <1>7 DEF Handled
    <2>5. recovered[p] <= retries[p] + 1 => recovered'[p] <= retries'[p] + 1
      BY <1>5, <2>1
    <2>6. QED
      BY <1>2, <1>3, <1>7, <2>1, <2>2, <2>3, <2>4, <2>5 DEF Accounted
  <1>8. Accounted'
    BY <1>1, <1>6, <1>7 DEF Accounted, Handled
  <1>9. QED
    BY <1>4, <1>8

-----------------------------------------------------------------------------
(* Each step keeps the invariant *)

LEMMA CreateKeeps ==
    ASSUME InductiveInvariant, NEW s \in Sessions, NEW kind \in Kind, NEW entry, NEW now,
           Create(s, kind, entry, now)
    PROVE  InductiveInvariant'
  <1>0. Typed /\ OneAtATime /\ Accounted /\ StoryIsNewest /\ WillFind
    BY DEF InductiveInvariant
  <1>1. PICK q \in Projects, f \in Failure :
              /\ failures' = Append(failures, f)
              /\ f.project = q /\ f.session = s /\ f.kind = kind /\ f.tried = retries[q]
              /\ f.known = Newest(s, q) /\ f.pc = FirstStep(kind, retries[q])
              /\ overlap' = [overlap EXCEPT ![q] = @ \/ Handled(q)]
              /\ recovered' = IF f.pc = "session" /\ kind # "loop"
                              THEN [recovered EXCEPT ![q] = @ + 1] ELSE recovered
              /\ UNCHANGED <<retries, commits, override, faults, mixed>>
    BY <1>0, CreateEffect
  <1>2. failures \in Seq(Failure) /\ Len(failures) \in Nat /\ DOMAIN failures = 1 .. Len(failures)
    BY <1>0 DEF Typed
  <1> PICK N \in Nat : N = Len(failures) + 1
    BY <1>2
  <1>3. /\ failures' \in Seq(Failure) /\ DOMAIN failures' = 1 .. N
        /\ failures'[N] = f /\ \A n \in DOMAIN failures : failures'[n] = failures[n]
    BY <1>1, <1>2
  <1>4. DOMAIN failures' = DOMAIN failures \cup {N} /\ N \notin DOMAIN failures
    BY <1>2, <1>3
  <1>5. /\ \A p \in Projects : recovered[p] \in Nat /\ retries[p] \in Nat /\ faults \in Nat
        /\ overlap \in [Projects -> BOOLEAN] /\ recovered \in [Projects -> Nat]
    BY <1>0 DEF Typed
  <1>6. Typed'
    <2>1. recovered' \in [Projects -> Nat] /\ overlap' \in [Projects -> BOOLEAN]
      BY <1>1, <1>5
    <2>2. Numbered'
      BY <1>0, <1>1 DEF Typed, Numbered
    <2>3. QED
      BY <1>0, <1>1, <1>3, <1>4, <2>1, <2>2 DEF Typed
  <1>7. \A n \in DOMAIN failures : InFlight(n)' = InFlight(n) /\ Recovering(n)' = Recovering(n)
    BY <1>3 DEF InFlight, Recovering
  <1>8. ~overlap'[q] => /\ ~overlap[q] /\ ~Handled(q)
                        /\ \A n \in DOMAIN failures : failures[n].project = q => ~InFlight(n)
    BY <1>1, <1>5 DEF Handled
  <1>9. OneAtATime'
    <2> SUFFICES ASSUME NEW p \in Projects, ~overlap'[p],
                        NEW m \in DOMAIN failures', NEW n \in DOMAIN failures',
                        failures'[m].project = p, InFlight(m)',
                        failures'[n].project = p, InFlight(n)'
                 PROVE  m = n
      BY DEF OneAtATime
    <2>1. CASE p = q
      BY <1>1, <1>3, <1>4, <1>7, <1>8, <2>1
    <2>2. CASE p # q
      <3>1. ~overlap[p] /\ m \in DOMAIN failures /\ n \in DOMAIN failures
        BY <1>1, <1>3, <1>4, <1>5, <2>2
      <3>2. QED
        BY <1>0, <1>3, <1>7, <3>1 DEF OneAtATime
    <2>3. QED
      BY <2>1, <2>2
  <1>10. Accounted'
    <2>1. ASSUME NEW p \in Projects, p # q, ~overlap'[p]
          PROVE  /\ ~Handled(p)' => Settled(p)'
                 /\ \A n \in DOMAIN failures' :
                       (failures'[n].project = p /\ InFlight(n)') =>
                          /\ failures'[n].tried = retries'[p]
                          /\ ~Recovering(n)' => Settled(p)'
                          /\ Recovering(n)' => /\ recovered'[p] <= retries'[p] + 1
                                               /\ failures'[n].tried < MaxRetries
      <3>1. ~overlap[p] /\ recovered'[p] = recovered[p]
        BY <1>1, <1>5, <2>1
      <3>2. Handled(p)' = Handled(p)
        BY <1>1, <1>3, <1>4, <1>7, <2>1 DEF Handled
      <3>3. Settled(p)' = Settled(p)
        BY <1>1, <3>1 DEF Settled
      <3>4. \A n \in DOMAIN failures' : failures'[n].project = p => n \in DOMAIN failures
        BY <1>1, <1>3, <1>4, <2>1
      <3>5. QED
        BY <1>0, <1>1, <1>3, <1>7, <3>1, <3>2, <3>3, <3>4 DEF Accounted
    <2>2. ASSUME ~overlap'[q]
          PROVE  /\ ~Handled(q)' => Settled(q)'
                 /\ \A n \in DOMAIN failures' :
                       (failures'[n].project = q /\ InFlight(n)') =>
                          /\ failures'[n].tried = retries'[q]
                          /\ ~Recovering(n)' => Settled(q)'
                          /\ Recovering(n)' => /\ recovered'[q] <= retries'[q] + 1
                                               /\ failures'[n].tried < MaxRetries
      <3>1. Settled(q)
        BY <1>0, <1>8, <2>2 DEF Accounted
      <3>2. \A n \in DOMAIN failures' : failures'[n].project = q /\ InFlight(n)' => n = N
        BY <1>3, <1>4, <1>7, <1>8, <2>2
      <3>3. f.pc \in {"delay", "session", "pause"}
        BY <1>1 DEF FirstStep
      <3>4. Handled(q)'
        BY <1>1, <1>3, <1>4, <3>3 DEF Handled, InFlight
      <3>5. CASE Recovering(N)'
        <4>1. f.pc = "session" /\ kind # "loop"
          BY <1>1, <1>3, <3>3, <3>5 DEF Recovering
        <4>2. recovered'[q] = recovered[q] + 1
          BY <1>1, <1>5, <4>1
        <4>3. recovered'[q] <= retries'[q] + 1
          BY <1>1, <1>5, <3>1, <4>2 DEF Settled
        <4>4. f.tried < MaxRetries
          BY <1>1, <1>5, <4>1, RecoveryAssumption DEF FirstStep
        <4>5. QED
          BY <1>1, <1>3, <3>2, <3>4, <3>5, <4>3, <4>4
      <3>6. CASE ~Recovering(N)'
        <4>1. ~(f.pc = "session" /\ kind # "loop")
          BY <1>1, <1>3, <3>6 DEF Recovering
        <4>2. Settled(q)'
          BY <1>1, <3>1, <4>1 DEF Settled
        <4>3. QED
          BY <1>1, <1>3, <3>2, <3>4, <3>6, <4>2
      <3>7. QED
        BY <3>5, <3>6
    <2>3. QED
      BY <2>1, <2>2 DEF Accounted
  <1>11. StoryIsNewest'
    BY <1>0, <1>1 DEF StoryIsNewest
  <1>12. WillFind'
    <2>1. /\ f.known <= commits.made /\ (commits.own[s] > 0 => f.known <= commits.own[s])
          /\ q = "unknown" /\ commits.own[s] = 0 => f.known = 0
      BY <1>0, <1>1, NewestIsOne DEF Typed, Numbered
    <2>2. ~mixed /\ q = "project" => f.known <= commits.story
      <3>1. commits.own[s] \in Nat
        BY <1>0 DEF Typed, Commits
      <3>2. QED
        BY <1>0, <1>1, <3>1, NewestIsOne DEF StoryIsNewest
    <2>3. f.pc \in {"delay", "session", "pause"} /\ commits.own[s] \in Nat
      BY <1>0, <1>1 DEF FirstStep, Typed, Commits
    <2>4. ~mixed => WillFindOne(f)
      BY <1>1, <2>1, <2>2, <2>3 DEF WillFindOne
    <2>5. commits' = commits /\ mixed' = mixed
      BY <1>1
    <2>6. \A g : WillFindOne(g)' = WillFindOne(g)
      BY <2>5 DEF WillFindOne
    <2>7. QED
      BY <1>0, <1>3, <1>4, <2>4, <2>5 DEF WillFind, WillFindOne
  <1>13. QED
    BY <1>6, <1>9, <1>10, <1>11, <1>12 DEF InductiveInvariant

\* Newer checkpoints do not keep a handler from finding what it ought to find.
LEMMA FindingGrows ==
    ASSUME Typed, WillFind, UNCHANGED failures, commits' \in Commits, ~mixed' => ~mixed,
           commits'.made >= commits.made, ~mixed' => commits'.story >= commits.story,
           \A s \in Sessions : \/ commits'.own[s] = commits.own[s]
                              \/ commits'.own[s] > commits.made
    PROVE  WillFind'
  <1> SUFFICES ASSUME ~mixed', NEW n \in DOMAIN failures
               PROVE  WillFindOne(failures[n])'
    BY DEF WillFind
  <1> DEFINE f == failures[n]
  <1>1. f \in Failure /\ f.session \in Sessions /\ f.known \in Nat /\ f.used \in Nat
    BY FailureTyped DEF Failure
  <1>2. WillFindOne(f)
    BY DEF WillFind
  <1>3. /\ commits.made \in Nat /\ commits.story \in Nat /\ commits.own[f.session] \in Nat
        /\ commits'.made \in Nat /\ commits'.story \in Nat
        /\ commits'.own[f.session] \in Nat
    BY <1>1 DEF Typed, Commits
  <1>4. failures' = failures
    OBVIOUS
  <1> HIDE DEF f
  <1>5. WillFindOne(f)'
    BY <1>1, <1>2, <1>3, <1>4 DEF WillFindOne, f
  <1>6. QED
    BY <1>5 DEF f

LEMMA CheckpointKeeps ==
    ASSUME InductiveInvariant, NEW s \in Sessions, AddCheckpoint(s) \/ SetStoryCheckpoint(s)
    PROVE  InductiveInvariant'
  <1>0. Typed /\ OneAtATime /\ Accounted /\ StoryIsNewest /\ WillFind
    BY DEF InductiveInvariant
  <1>1. /\ UNCHANGED <<failures, retries, recovered, overlap, override>>
        /\ faults' \in {faults, faults + 1}
    BY DEF AddCheckpoint, SetStoryCheckpoint, Fault, history
  <1>2. OneAtATime' /\ Accounted'
    BY <1>0, <1>1, AccountStays DEF Typed, InFlight, Recovering
  <1>3. /\ commits \in Commits /\ commits.made \in Nat /\ commits.story \in Nat
        /\ \A t \in Sessions : /\ commits.own[t] \in Nat /\ commits.kept[t] \in Nat
                               /\ commits.writing[t] \in Nat
    BY <1>0 DEF Typed, Commits
  <1>4. ASSUME commits' \in Commits, Numbered', mixed' \in BOOLEAN
        PROVE  Typed'
    BY <1>0, <1>1, <1>4 DEF Typed
  <1>5. CASE AddCheckpoint(s)
    <2> DEFINE c == commits.made + 1
    <2>1. /\ \/ commits' = [commits EXCEPT !.made = c, !.own[s] = c, !.writing[s] = c]
             \/ commits' = [commits EXCEPT !.made = c, !.writing[s] = c]
          /\ commits.writing[s] = 0
          /\ mixed' = (mixed \/ \E t \in Sessions : commits.writing[t] > 0)
      BY <1>5 DEF AddCheckpoint
    <2>2. c \in Nat /\ c > commits.made /\ c > 0
      BY <1>3
    <2> HIDE DEF c
    <2>3. /\ commits' \in Commits /\ commits'.made = c /\ commits'.story = commits.story
          /\ commits'.kept = commits.kept
          /\ \/ commits'.own = [commits.own EXCEPT ![s] = c]
             \/ commits'.own = commits.own
          /\ commits'.writing = [commits.writing EXCEPT ![s] = c]
      BY <1>3, <2>1, <2>2 DEF Commits
    <2>4. \A t \in Sessions :
             /\ commits'.own[t] = commits.own[t] \/ commits'.own[t] = c
             /\ commits'.writing[t] = IF t = s THEN c ELSE commits.writing[t]
      BY <1>3, <2>3 DEF Commits
    <2>5. Numbered'
      BY <1>0, <1>3, <2>2, <2>3, <2>4 DEF Typed, Numbered
    <2>6. mixed' \in BOOLEAN /\ (~mixed' => ~mixed)
      BY <1>0, <2>1 DEF Typed
    <2>7. StoryIsNewest'
      BY <1>0, <1>3, <2>1, <2>2, <2>3, <2>4 DEF StoryIsNewest
    <2>8. WillFind'
      <3>1. commits'.made >= commits.made /\ commits'.story >= commits.story
        BY <1>3, <2>2, <2>3
      <3>2. \A t \in Sessions : \/ commits'.own[t] = commits.own[t]
                                \/ commits'.own[t] > commits.made
        BY <2>2, <2>4
      <3>3. QED
        BY <1>0, <1>1, <2>3, <2>6, <3>1, <3>2, FindingGrows
    <2>9. QED
      BY <1>2, <1>4, <2>3, <2>5, <2>6, <2>7, <2>8 DEF InductiveInvariant
  <1>6. CASE SetStoryCheckpoint(s)
    <2> DEFINE c == commits.writing[s]
    <2>1. /\ c > 0 /\ mixed' = mixed
          /\ commits' = Written(s, c) \/ commits' = [commits EXCEPT !.writing[s] = 0]
      BY <1>6 DEF SetStoryCheckpoint, history
    <2>2. c \in Nat /\ c <= commits.made
      BY <1>0, <1>3 DEF Typed, Numbered
    <2>3. /\ commits' \in Commits /\ commits'.made = commits.made
          /\ commits'.own = commits.own
          /\ commits'.writing = [commits.writing EXCEPT ![s] = 0]
          /\ \/ /\ commits'.story = c
                /\ \/ commits'.kept = [commits.kept EXCEPT ![s] = c] /\ commits.own[s] = c
                   \/ commits'.kept = commits.kept
             \/ commits'.story = commits.story /\ commits'.kept = commits.kept
      <3> DEFINE w == [commits.writing EXCEPT ![s] = 0]
                 k == [commits.kept EXCEPT ![s] = c]
      <3>1. commits.writing \in [Sessions -> Nat] /\ commits.kept \in [Sessions -> Nat]
        BY <1>3 DEF Commits
      <3>2. c = commits.writing[s]
        OBVIOUS
      <3> HIDE DEF c
      <3>3. w \in [Sessions -> Nat] /\ k \in [Sessions -> Nat]
        BY <2>2, <3>1
      <3>4. CASE commits' = [commits EXCEPT !.writing[s] = 0]
        BY <1>3, <3>3, <3>4 DEF Commits
      <3>5. CASE commits' = Written(s, c) /\ commits.own[s] = c
        <4>1. commits' = [commits EXCEPT !.story = c, !.writing = w, !.kept = k]
          BY <1>3, <3>2, <3>5 DEF Written, Commits
        <4> HIDE DEF w, k
        <4>2. commits' \in Commits /\ commits'.made = commits.made /\ commits'.own = commits.own
              /\ commits'.writing = w /\ commits'.story = c /\ commits'.kept = k
          BY <1>3, <2>2, <3>3, <4>1 DEF Commits
        <4>3. QED
          BY <3>5, <4>2 DEF w, k
      <3>6. CASE commits' = Written(s, c) /\ commits.own[s] # c
        <4>1. [commits.kept EXCEPT ![s] = commits.kept[s]] = commits.kept
          BY <3>1
        <4>2. commits' = [commits EXCEPT !.story = c, !.writing = w]
          BY <1>3, <3>2, <3>6, <4>1 DEF Written, Commits
        <4> HIDE DEF w, k
        <4>3. commits' \in Commits /\ commits'.made = commits.made /\ commits'.own = commits.own
              /\ commits'.writing = w /\ commits'.story = c /\ commits'.kept = commits.kept
          BY <1>3, <2>2, <3>3, <4>2 DEF Commits
        <4>4. QED
          BY <4>3 DEF w
      <3>7. QED
        BY <2>1, <3>4, <3>5, <3>6
    <2>4. \A t \in Sessions :
             /\ commits'.writing[t] = IF t = s THEN 0 ELSE commits.writing[t]
             /\ \/ commits'.kept[t] = commits.kept[t]
                \/ commits'.story = c /\ commits.own[t] = c /\ commits'.kept[t] = c
      BY <1>3, <2>3 DEF Commits
    <2>5. ~mixed => c = commits.made
      BY <1>0, <2>1 DEF StoryIsNewest
    <2> HIDE DEF c
    <2>6. Numbered'
      BY <1>0, <1>3, <2>2, <2>3, <2>4 DEF Typed, Numbered
    <2>7. ~mixed => /\ commits.story <= commits'.story
                    /\ \A t \in Sessions : commits.kept[t] <= commits'.story
      <3>1. commits.story <= commits.made
        BY <1>0 DEF Typed, Numbered
      <3>2. ASSUME NEW t \in Sessions
            PROVE  commits.kept[t] <= commits.made
        <4>1. commits.kept[t] <= commits.own[t] /\ commits.own[t] <= commits.made
          BY <1>0 DEF Typed, Numbered
        <4>2. QED
          BY <1>3, <4>1
      <3>3. CASE commits'.story = c
        BY <2>5, <3>1, <3>2, <3>3
      <3>4. CASE commits'.story = commits.story
        BY <1>0, <1>3, <3>4 DEF StoryIsNewest
      <3>5. QED
        BY <2>3, <3>3, <3>4
    <2>8. StoryIsNewest'
      BY <1>0, <1>3, <2>1, <2>2, <2>3, <2>4, <2>7 DEF StoryIsNewest
    <2>9. WillFind'
      <3>1. commits'.made >= commits.made /\ (~mixed' => commits'.story >= commits.story)
        BY <1>3, <2>1, <2>3, <2>7 DEF Commits
      <3>2. QED
        BY <1>0, <1>1, <2>1, <2>3, <3>1, FindingGrows
    <2>10. mixed' \in BOOLEAN
      BY <1>0, <2>1 DEF Typed
    <2>11. QED
      BY <1>2, <1>4, <2>3, <2>6, <2>8, <2>9, <2>10 DEF InductiveInvariant
  <1>7. QED
    BY <1>5, <1>6

\* What touches neither failures nor their account nor checkpoints.
LEMMA RestKeeps ==
    ASSUME InductiveInvariant,
           UNCHANGED <<failures, retries, recovered, overlap, commits, faults, mixed>>,
           override' \in Override,
           override'.pc # "idle" => override'.failure \in DOMAIN failures
    PROVE  InductiveInvariant'
  BY DEF InductiveInvariant, Typed, Numbered, OneAtATime, Accounted, StoryIsNewest,
         WillFind, WillFindOne, Handled, InFlight, Recovering, Settled

LEMMA HandlerKeeps ==
    ASSUME InductiveInvariant, NEW n \in DOMAIN failures, HandlerStep(n) \/ LookupFails(n)
    PROVE  InductiveInvariant'
  <1>0. Typed /\ OneAtATime /\ Accounted /\ StoryIsNewest /\ WillFind
    BY DEF InductiveInvariant
  <1> DEFINE f == failures[n]
  <1>1. f \in Failure /\ f.project \in Projects /\ f.tried \in Nat /\ f.session \in Sessions
    BY <1>0, FailureTyped DEF Failure
  <1>2. /\ \A p \in Projects : recovered[p] \in Nat /\ retries[p] \in Nat
        /\ faults \in Nat /\ recovered \in [Projects -> Nat] /\ retries \in [Projects -> Nat]
    BY <1>0 DEF Typed
  <1>3. ASSUME NEW g \in Failure, failures' = [failures EXCEPT ![n] = g],
               retries' \in [Projects -> Nat], recovered' \in [Projects -> Nat],
               UNCHANGED <<overlap, commits, override, mixed>>, faults' \in Nat
        PROVE  Typed' /\ DOMAIN failures' = DOMAIN failures /\ failures'[n] = g
               /\ \A m \in DOMAIN failures : m # n => failures'[m] = failures[m]
    BY <1>0, <1>3, OneChanges DEF Typed, Numbered
  <1>4. ASSUME NEW g \in Failure, failures' = [failures EXCEPT ![n] = g],
               g.project = f.project, g.kind = f.kind, g.tried = f.tried,
               g.session = f.session, g.known = f.known, g.blind = f.blind,
               \/ f.pc = "delay" /\ g.pc = "pause"
               \/ f.pc = "pause" /\ g.pc = "note",
               UNCHANGED <<retries, recovered, overlap, commits, override, mixed>>,
               faults' \in Nat
        PROVE  InductiveInvariant'
    <2>1. /\ Typed' /\ DOMAIN failures' = DOMAIN failures /\ failures'[n] = g
          /\ \A m \in DOMAIN failures : m # n => failures'[m] = failures[m]
      BY <1>2, <1>3, <1>4
    <2>2. \A m \in DOMAIN failures :
              /\ failures'[m].project = failures[m].project
              /\ failures'[m].kind = failures[m].kind
              /\ failures'[m].tried = failures[m].tried
              /\ InFlight(m)' = InFlight(m) /\ Recovering(m)' = Recovering(m)
      BY <1>4, <2>1 DEF InFlight, Recovering
    <2>3. OneAtATime' /\ Accounted'
      BY <1>0, <1>4, <2>1, <2>2, AccountStays
    <2>4. StoryIsNewest' /\ WillFind'
      BY <1>0, <1>4, <2>1, FindingStays
    <2>5. QED
      BY <2>1, <2>3, <2>4 DEF InductiveInvariant
  <1>5. CASE DelayEnds(n)
    <2>1. CASE f.tried >= MaxRetries
      <3> DEFINE g == [f EXCEPT !.pc = "pause"]
      <3>1. g \in Failure /\ g.project = f.project /\ g.kind = f.kind /\ g.tried = f.tried
            /\ g.session = f.session /\ g.known = f.known /\ g.blind = f.blind
            /\ g.pc = "pause"
        BY <1>1 DEF Failure
      <3>2. /\ failures' = [failures EXCEPT ![n] = g] /\ f.pc = "delay"
            /\ UNCHANGED <<retries, recovered, overlap, commits, override, mixed, faults>>
        BY <1>5, <2>1 DEF DelayEnds, Handle
      <3> HIDE DEF g
      <3>3. faults' \in Nat
        BY <1>2, <3>2
      <3>4. QED
        BY <1>4, <3>1, <3>2, <3>3
    <2>2. CASE ~(f.tried >= MaxRetries)
      <3> DEFINE g == [f EXCEPT !.pc = "session"]
      <3>1. g \in Failure /\ g.project = f.project /\ g.kind = f.kind /\ g.tried = f.tried
            /\ g.session = f.session /\ g.known = f.known /\ g.blind = f.blind
            /\ g.pc = "session"
        BY <1>1 DEF Failure
      <3>2. /\ failures' = [failures EXCEPT ![n] = g] /\ f.pc = "delay"
            /\ recovered' = IF f.kind = "loop" THEN recovered
                            ELSE [recovered EXCEPT ![f.project] = @ + 1]
            /\ UNCHANGED <<retries, overlap, commits, override, mixed, faults>>
        BY <1>5, <2>2 DEF DelayEnds, Handle, Recover
      <3>3. f.tried < MaxRetries
        BY <1>1, <2>2, RecoveryAssumption
      <3> HIDE DEF g
      <3>4. recovered' \in [Projects -> Nat]
            /\ \A p \in Projects : recovered'[p] = IF p = f.project /\ f.kind # "loop"
                                                   THEN recovered[p] + 1 ELSE recovered[p]
        BY <1>1, <1>2, <3>2
      <3>5. /\ Typed' /\ DOMAIN failures' = DOMAIN failures /\ failures'[n] = g
            /\ \A m \in DOMAIN failures : m # n => failures'[m] = failures[m]
        BY <1>2, <1>3, <3>1, <3>2, <3>4
      <3>6. /\ \A m \in DOMAIN failures : InFlight(m)' = InFlight(m)
            /\ InFlight(n) /\ ~Recovering(n) /\ (Recovering(n)' <=> f.kind # "loop")
            /\ \A m \in DOMAIN failures : m # n => Recovering(m)' = Recovering(m)
        BY <3>1, <3>2, <3>5 DEF InFlight, Recovering
      <3>7. /\ \A m \in DOMAIN failures : failures'[m].project = failures[m].project
            /\ \A p \in Projects : Handled(p)' = Handled(p)
        BY <3>1, <3>5, <3>6 DEF Handled
      <3>8. OneAtATime'
        BY <1>0, <3>2, <3>5, <3>6, <3>7 DEF OneAtATime
      <3>9. ASSUME NEW p \in Projects, ~overlap[p]
            PROVE  /\ ~Handled(p)' => Settled(p)'
                   /\ \A m \in DOMAIN failures :
                         (failures'[m].project = p /\ InFlight(m)') =>
                            /\ failures'[m].tried = retries'[p]
                            /\ ~Recovering(m)' => Settled(p)'
                            /\ Recovering(m)' =>
                                  /\ recovered'[p] <= retries'[p] + 1
                                  /\ failures'[m].tried < MaxRetries
        <4>1. CASE p = f.project
          <5>1. Settled(p) /\ f.tried = retries[p] /\ Handled(p)
            BY <1>0, <3>6, <3>9, <4>1 DEF Accounted, Handled
          <5>2. \A m \in DOMAIN failures : failures[m].project = p /\ InFlight(m) => m = n
            BY <1>0, <3>6, <3>9, <4>1 DEF OneAtATime
          <5>3. Recovering(n)' => recovered'[p] <= retries'[p] + 1
            BY <1>2, <3>2, <3>4, <5>1 DEF Settled
          <5>4. ~Recovering(n)' => Settled(p)'
            BY <3>2, <3>4, <3>6, <5>1 DEF Settled
          <5>5. QED
            BY <3>1, <3>2, <3>3, <3>5, <3>6, <3>7, <5>1, <5>2, <5>3, <5>4
        <4>2. CASE p # f.project
          <5>1. recovered'[p] = recovered[p] /\ Settled(p)' = Settled(p)
            BY <3>2, <3>4, <4>2 DEF Settled
          <5>2. QED
            BY <1>0, <3>1, <3>2, <3>5, <3>6, <3>7, <3>9, <4>2, <5>1 DEF Accounted
        <4>3. QED
          BY <4>1, <4>2
      <3>10. Accounted'
        BY <3>2, <3>5, <3>9 DEF Accounted
      <3>11. StoryIsNewest' /\ WillFind'
        BY <1>0, <3>1, <3>2, <3>5, FindingStays
      <3>12. QED
        BY <3>5, <3>8, <3>10, <3>11 DEF InductiveInvariant
    <2>3. QED
      BY <2>1, <2>2
  <1>6. ASSUME NEW g \in Failure, failures' = [failures EXCEPT ![n] = g],
               g.project = f.project, g.kind = f.kind, g.tried = f.tried,
               g.session = f.session, g.known = f.known,
               f.pc \in {"session", "story"}, g.pc \in {"story", "record"},
               ~mixed => WillFindOne(g),
               UNCHANGED <<retries, recovered, overlap, commits, override, mixed>>,
               faults' \in Nat
        PROVE  InductiveInvariant'
    <2>1. /\ Typed' /\ DOMAIN failures' = DOMAIN failures /\ failures'[n] = g
          /\ \A m \in DOMAIN failures : m # n => failures'[m] = failures[m]
      BY <1>2, <1>3, <1>6
    <2>2. \A m \in DOMAIN failures :
              /\ failures'[m].project = failures[m].project
              /\ failures'[m].kind = failures[m].kind
              /\ failures'[m].tried = failures[m].tried
              /\ InFlight(m)' = InFlight(m) /\ Recovering(m)' = Recovering(m)
      BY <1>6, <2>1 DEF InFlight, Recovering
    <2>3. OneAtATime' /\ Accounted'
      BY <1>0, <1>6, <2>1, <2>2, AccountStays
    <2>4. StoryIsNewest'
      BY <1>0, <1>6 DEF StoryIsNewest
    <2>5. WillFind'
      BY <1>0, <1>6, <2>1 DEF WillFind, WillFindOne
    <2>6. QED
      BY <2>1, <2>3, <2>4, <2>5 DEF InductiveInvariant
  <1>7. /\ f.known \in Nat /\ f.used \in Nat /\ f.blind \in BOOLEAN
        /\ f.project \in {"project", "unknown"}
        /\ commits.own[f.session] \in Nat /\ commits.story \in Nat
        /\ ~mixed => WillFindOne(f)
    BY <1>0, <1>1 DEF Failure, Projects, Typed, Commits, WillFind
  <1>8. CASE FindSessionCheckpoint(n)
    <2> DEFINE found == commits.own[f.session]
               g == [f EXCEPT !.used = found, !.pc = IF found > 0 THEN "record" ELSE "story"]
    <2>1. /\ failures' = [failures EXCEPT ![n] = g] /\ f.pc = "session"
          /\ UNCHANGED <<retries, recovered, overlap, commits, override, mixed, faults>>
      BY <1>8 DEF FindSessionCheckpoint, Handle
    <2>2. g \in Failure /\ g.project = f.project /\ g.kind = f.kind /\ g.tried = f.tried
          /\ g.session = f.session /\ g.known = f.known /\ g.blind = f.blind
          /\ g.used = found /\ g.pc = (IF found > 0 THEN "record" ELSE "story")
      BY <1>1, <1>7 DEF Failure
    <2> HIDE DEF g
    <2>3. ~mixed => WillFindOne(g)
      BY <1>7, <2>1, <2>2 DEF WillFindOne
    <2>4. QED
      BY <1>2, <1>6, <2>1, <2>2, <2>3
  <1>9. CASE FindStoryCheckpoint(n)
    <2> DEFINE found == IF f.project = "unknown" THEN 0 ELSE commits.story
               g == [f EXCEPT !.used = found, !.pc = "record"]
    <2>1. /\ failures' = [failures EXCEPT ![n] = g] /\ f.pc = "story"
          /\ UNCHANGED <<retries, recovered, overlap, commits, override, mixed, faults>>
      BY <1>9 DEF FindStoryCheckpoint, Handle
    <2>2. found \in Nat
      BY <1>7
    <2> HIDE DEF found
    <2>3. g \in Failure /\ g.project = f.project /\ g.kind = f.kind /\ g.tried = f.tried
          /\ g.session = f.session /\ g.known = f.known /\ g.blind = f.blind
          /\ g.used = found /\ g.pc = "record"
      BY <1>1, <2>2 DEF Failure
    <2> HIDE DEF g
    <2>4. ~mixed => WillFindOne(g)
      BY <1>7, <2>1, <2>3 DEF WillFindOne, found
    <2>5. QED
      BY <1>2, <1>6, <2>1, <2>3, <2>4
  <1>10. CASE LookupFails(n)
    <2> DEFINE last == IF f.project = "unknown" THEN "session" ELSE "story"
               next == IF f.pc = "session" THEN "story" ELSE "record"
               g == [f EXCEPT !.pc = next, !.blind = f.blind \/ f.pc = last]
    <2>1. /\ failures' = [failures EXCEPT ![n] = g] /\ f.pc \in {"session", "story"}
          /\ faults' = faults + 1
          /\ UNCHANGED <<retries, recovered, overlap, commits, override, mixed>>
      BY <1>10 DEF LookupFails, Handle, Fault
    <2>2. g \in Failure /\ g.project = f.project /\ g.kind = f.kind /\ g.tried = f.tried
          /\ g.session = f.session /\ g.known = f.known /\ g.used = f.used
          /\ g.pc = next /\ (g.blind <=> f.blind \/ f.pc = last)
      BY <1>1, <1>7 DEF Failure
    <2> HIDE DEF g
    <2>3. ~mixed => WillFindOne(g)
      BY <1>7, <2>1, <2>2 DEF WillFindOne
    <2>4. faults' \in Nat /\ g.pc \in {"story", "record"}
      BY <1>2, <2>1, <2>2
    <2>5. QED
      BY <1>6, <2>1, <2>2, <2>3, <2>4
  <1>11. ASSUME NEW g \in Failure, failures' = [failures EXCEPT ![n] = g],
               g.project = f.project, g.session = f.session, g.known = f.known,
               g.blind = f.blind, InFlight(n), g.pc = "done",
               retries' = [retries EXCEPT ![f.project] = f.tried + 1],
               UNCHANGED <<recovered, overlap, commits, override, mixed, faults>>
        PROVE  InductiveInvariant'
    <2>1. retries' \in [Projects -> Nat]
      BY <1>1, <1>2, <1>11
    <2>2. /\ Typed' /\ DOMAIN failures' = DOMAIN failures /\ failures'[n] = g
          /\ \A m \in DOMAIN failures : m # n => failures'[m] = failures[m]
      BY <1>2, <1>3, <1>11, <2>1
    <2>3. OneAtATime' /\ Accounted'
      BY <1>0, <1>11, <2>2, HandlerEnds
    <2>4. StoryIsNewest' /\ WillFind'
      BY <1>0, <1>11, <2>2, FindingStays
    <2>5. QED
      BY <2>2, <2>3, <2>4 DEF InductiveInvariant
  <1>12. CASE EndRecovery(n)
    <2> DEFINE g == Resolved(f)
    <2>1. g \in Failure /\ g.project = f.project /\ g.session = f.session
          /\ g.known = f.known /\ g.blind = f.blind /\ g.pc = "done"
      BY <1>1 DEF Resolved, Failure
    <2>2. /\ failures' = [failures EXCEPT ![n] = g] /\ InFlight(n)
          /\ retries' = [retries EXCEPT ![f.project] = f.tried + 1]
          /\ UNCHANGED <<faults, recovered, overlap, commits, override, mixed>>
      BY <1>12 DEF EndRecovery, Handle, InFlight, Counted
    <2> HIDE DEF g
    <2>3. QED
      BY <1>2, <1>11, <2>1, <2>2
  <1>13. CASE EndEscalation(n)
    <2> DEFINE g == [f EXCEPT !.pc = "done", !.escalated = TRUE]
    <2>1. g \in Failure /\ g.project = f.project /\ g.session = f.session
          /\ g.known = f.known /\ g.blind = f.blind /\ g.pc = "done" /\ g.tried = f.tried
      BY <1>1 DEF Failure
    <2>2. /\ failures' = [failures EXCEPT ![n] = g] /\ InFlight(n)
          /\ retries' = [retries EXCEPT ![g.project] = g.tried + 1]
          /\ UNCHANGED <<faults, recovered, overlap, commits, override, mixed>>
      BY <1>13 DEF EndEscalation, Handle, InFlight, Counted
    <2> HIDE DEF g
    <2>3. QED
      BY <1>2, <1>11, <2>1, <2>2
  <1>14. CASE Pause(n)
    <2> DEFINE g == [f EXCEPT !.pc = "note"]
    <2>1. g \in Failure /\ g.project = f.project /\ g.kind = f.kind /\ g.tried = f.tried
          /\ g.session = f.session /\ g.known = f.known /\ g.blind = f.blind
          /\ g.pc = "note"
      BY <1>1 DEF Failure
    <2>2. /\ failures' = [failures EXCEPT ![n] = g] /\ f.pc = "pause"
          /\ UNCHANGED <<retries, recovered, overlap, commits, override, mixed>>
          /\ faults' \in {faults, faults + 1}
      BY <1>14 DEF Pause, Fault, history
    <2>3. faults' \in Nat
      BY <1>2, <2>2
    <2> HIDE DEF g
    <2>4. QED
      BY <1>4, <2>1, <2>2, <2>3
  <1>15. QED
    BY <1>5, <1>8, <1>9, <1>10, <1>12, <1>13, <1>14 DEF HandlerStep

\* The user resets the retries.
LEMMA ResetKeeps ==
    ASSUME InductiveInvariant, NEW n \in DOMAIN failures, Reset(n),
           override' \in Override,
           override'.pc # "idle" => override'.failure \in DOMAIN failures,
           UNCHANGED <<commits, faults, mixed>>
    PROVE  InductiveInvariant'
  <1>0. Typed /\ OneAtATime /\ Accounted /\ StoryIsNewest /\ WillFind
    BY DEF InductiveInvariant
  <1> PICK q \in Projects : q = failures[n].project
    BY <1>0, FailureTyped DEF Failure
  <1> DEFINE g == [failures[n] EXCEPT !.active = FALSE]
  <1>1. failures[n] \in Failure
    BY <1>0, FailureTyped
  <1>2. /\ g \in Failure /\ g.project = failures[n].project /\ g.pc = failures[n].pc
        /\ g.kind = failures[n].kind /\ g.tried = failures[n].tried
        /\ g.session = failures[n].session /\ g.known = failures[n].known
        /\ g.used = failures[n].used /\ g.blind = failures[n].blind
    BY <1>1 DEF Failure
  <1>3. failures' = [failures EXCEPT ![n] = g]
    BY DEF Reset
  <1> HIDE DEF g
  <1>4. /\ failures' \in Seq(Failure) /\ DOMAIN failures' = DOMAIN failures
        /\ \A m \in DOMAIN failures :
              /\ failures'[m].project = failures[m].project
              /\ failures'[m].pc = failures[m].pc /\ failures'[m].kind = failures[m].kind
              /\ failures'[m].tried = failures[m].tried
              /\ failures'[m].session = failures[m].session
              /\ failures'[m].known = failures[m].known
              /\ failures'[m].used = failures[m].used
              /\ failures'[m].blind = failures[m].blind
    BY <1>0, <1>2, <1>3, OneChanges
  <1>5. /\ retries' = [retries EXCEPT ![q] = 0] /\ recovered' = [recovered EXCEPT ![q] = 0]
        /\ overlap' = [overlap EXCEPT ![q] = Handled(q)]
    BY DEF Reset
  <1>6. /\ \A p \in Projects : recovered[p] \in Nat /\ retries[p] \in Nat
        /\ faults \in Nat /\ recovered \in [Projects -> Nat] /\ retries \in [Projects -> Nat]
        /\ overlap \in [Projects -> BOOLEAN] /\ Handled(q) \in BOOLEAN
    BY <1>0 DEF Typed, Handled
  <1>7. Typed'
    <2>1. /\ retries' \in [Projects -> Nat] /\ recovered' \in [Projects -> Nat]
          /\ overlap' \in [Projects -> BOOLEAN]
      BY <1>5, <1>6
    <2>2. QED
      BY <1>0, <1>4, <2>1 DEF Typed, Numbered
  <1>8. /\ \A m \in DOMAIN failures : InFlight(m)' = InFlight(m)
        /\ \A m \in DOMAIN failures : Recovering(m)' = Recovering(m)
        /\ \A p \in Projects : Handled(p)' = Handled(p)
    BY <1>4 DEF InFlight, Recovering, Handled
  <1>9. ~overlap'[q] => ~Handled(q)
    BY <1>5, <1>6
  <1>10. OneAtATime'
    <2> SUFFICES ASSUME NEW p \in Projects, ~overlap'[p],
                        NEW k \in DOMAIN failures, NEW m \in DOMAIN failures,
                        failures[k].project = p, InFlight(k),
                        failures[m].project = p, InFlight(m)
                 PROVE  k = m
      BY <1>4, <1>8 DEF OneAtATime
    <2>1. p # q
      BY <1>9 DEF Handled
    <2>2. ~overlap[p]
      BY <1>5, <1>6, <2>1
    <2>3. QED
      BY <1>0, <2>2 DEF OneAtATime
  <1>11. Settled(q)'
    BY <1>5, <1>6, RecoveryAssumption DEF Settled
  <1>12. ASSUME NEW p \in Projects, p # q
         PROVE  /\ overlap'[p] = overlap[p] /\ retries'[p] = retries[p]
                /\ recovered'[p] = recovered[p] /\ Settled(p)' = Settled(p)
    BY <1>5, <1>6, <1>12 DEF Settled
  <1>13. Accounted'
    <2>1. ASSUME NEW p \in Projects, ~overlap'[p], p # q
          PROVE  /\ ~Handled(p)' => Settled(p)'
                 /\ \A m \in DOMAIN failures :
                       (failures'[m].project = p /\ InFlight(m)') =>
                          /\ failures'[m].tried = retries'[p]
                          /\ ~Recovering(m)' => Settled(p)'
                          /\ Recovering(m)' => /\ recovered'[p] <= retries'[p] + 1
                                               /\ failures'[m].tried < MaxRetries
      BY <1>0, <1>4, <1>8, <1>12, <2>1 DEF Accounted
    <2>2. ~overlap'[q] =>
             \A m \in DOMAIN failures : ~(failures'[m].project = q /\ InFlight(m)')
      BY <1>4, <1>8, <1>9 DEF Handled
    <2>3. QED
      BY <1>4, <1>11, <2>1, <2>2 DEF Accounted
  <1>14. StoryIsNewest' /\ WillFind'
    BY <1>0, <1>4, FindingStays
  <1>15. QED
    BY <1>7, <1>10, <1>13, <1>14 DEF InductiveInvariant

\* The overrides.
LEMMA OverrideKeeps ==
    ASSUME InductiveInvariant,
           \/ Act \/ EndOverride
           \/ \E n \in DOMAIN failures : \/ Reassign(n)
                                         \/ \E action \in {"terminate", "provide_guidance"} :
                                               BeginOverride(n, action)
    PROVE  InductiveInvariant'
  <1>0. Typed
    BY DEF InductiveInvariant
  <1>1. CASE Act
    <2>1. /\ UNCHANGED <<failures, retries, recovered, overlap, commits, faults, mixed>>
          /\ override.pc = "act"
          /\ override' \in {[override EXCEPT !.pc = "finish"], NoOverride}
      BY <1>1 DEF Act, history
    <2>2. /\ override' \in Override
          /\ override'.pc # "idle" => override'.failure = override.failure
      BY <1>0, <2>1 DEF Typed, Override, NoOverride
    <2>3. QED
      BY <1>0, <2>1, <2>2, RestKeeps DEF Typed
  <1>2. CASE EndOverride
    <2>1. /\ override.failure \in DOMAIN failures /\ override'.pc = "idle"
          /\ override' \in Override
      BY <1>0, <1>2 DEF EndOverride, Typed, NoOverride, Override
    <2>2. CASE override.action = "terminate"
      <3> PICK n \in DOMAIN failures : n = override.failure
        BY <2>1
      <3> DEFINE g == [failures[n] EXCEPT !.active = FALSE]
      <3>1. /\ g \in Failure /\ g.project = failures[n].project /\ g.pc = failures[n].pc
            /\ g.kind = failures[n].kind /\ g.tried = failures[n].tried
            /\ g.session = failures[n].session /\ g.known = failures[n].known
            /\ g.used = failures[n].used /\ g.blind = failures[n].blind
        <4>1. failures[n] \in Failure
          BY <1>0, FailureTyped
        <4>2. QED
          BY <4>1 DEF Failure
      <3>2. /\ failures' = [failures EXCEPT ![n] = g]
            /\ UNCHANGED <<retries, recovered, overlap, commits, faults, mixed>>
        BY <1>2, <2>2 DEF EndOverride
      <3> HIDE DEF g
      <3>3. /\ failures' \in Seq(Failure) /\ DOMAIN failures' = DOMAIN failures
            /\ \A m \in DOMAIN failures :
                  /\ failures'[m].project = failures[m].project
                  /\ failures'[m].pc = failures[m].pc /\ failures'[m].kind = failures[m].kind
                  /\ failures'[m].tried = failures[m].tried
                  /\ failures'[m].session = failures[m].session
                  /\ failures'[m].known = failures[m].known
                  /\ failures'[m].used = failures[m].used
                  /\ failures'[m].blind = failures[m].blind
        BY <1>0, <3>1, <3>2, OneChanges
      <3>4. Typed'
        BY <1>0, <2>1, <3>2, <3>3 DEF Typed, Numbered
      <3>5. OneAtATime' /\ Accounted'
        <4>1. \A m \in DOMAIN failures :
                 InFlight(m)' = InFlight(m) /\ Recovering(m)' = Recovering(m)
          BY <3>3 DEF InFlight, Recovering
        <4>2. QED
          BY <1>0, <3>2, <3>3, <4>1, AccountStays DEF InductiveInvariant
      <3>6. StoryIsNewest' /\ WillFind'
        BY <3>2, <3>3, FindingStays DEF InductiveInvariant
      <3>7. QED
        BY <3>4, <3>5, <3>6 DEF InductiveInvariant
    <2>3. CASE override.action # "terminate"
      BY <1>2, <2>1, <2>3, ResetKeeps DEF EndOverride
    <2>4. QED
      BY <2>2, <2>3
  <1>3. ASSUME NEW n \in DOMAIN failures, Reassign(n)
        PROVE  InductiveInvariant'
    BY <1>0, <1>3, ResetKeeps DEF Reassign, Typed
  <1>4. ASSUME NEW n \in DOMAIN failures, NEW action \in {"terminate", "provide_guidance"},
               BeginOverride(n, action)
        PROVE  InductiveInvariant'
    <2>1. n \in Nat
      BY <1>0 DEF Typed
    <2>2. override' \in Override /\ override'.failure = n
      BY <1>4, <2>1 DEF BeginOverride, Override
    <2>3. QED
      BY <1>4, <2>2, RestKeeps DEF BeginOverride, history
  <1>5. QED
    BY <1>1, <1>2, <1>3, <1>4

\* The process ends: no handler is left, and what has been counted with it.
LEMMA RestartKeeps ==
    ASSUME InductiveInvariant, Restart
    PROVE  InductiveInvariant'
  <1>0. Typed /\ OneAtATime /\ Accounted /\ StoryIsNewest /\ WillFind
    BY DEF InductiveInvariant
  <1>1. /\ failures' = [n \in DOMAIN failures |->
               [failures[n] EXCEPT !.pc = IF InFlight(n) THEN "aborted" ELSE @,
                                   !.active = FALSE]]
        /\ retries' = [p \in Projects |-> 0] /\ recovered' = [p \in Projects |-> 0]
        /\ overlap' = [p \in Projects |-> FALSE]
        /\ commits' = [commits EXCEPT !.writing = [s \in Sessions |-> 0]]
        /\ override' = NoOverride /\ mixed' = mixed
    BY DEF Restart
  <1>f. faults' = faults + 1
    BY DEF Restart, Fault
  <1>m. mixed' = mixed
    BY DEF Restart
  <1>2. ASSUME NEW n \in DOMAIN failures
        PROVE  /\ failures'[n] \in Failure /\ ~InFlight(n)'
               /\ failures'[n].session = failures[n].session
               /\ failures'[n].known = failures[n].known
               /\ failures'[n].pc \in {"done", "aborted"}
    <2>1. failures[n] \in Failure
      BY <1>0, FailureTyped
    <2>2. /\ failures'[n] \in Failure
          /\ failures'[n].session = failures[n].session
          /\ failures'[n].known = failures[n].known
          /\ failures'[n].pc = IF InFlight(n) THEN "aborted" ELSE failures[n].pc
      BY <1>1, <2>1 DEF Failure
    <2>3. failures'[n].pc \in {"done", "aborted"}
      BY <2>2 DEF InFlight
    <2>4. QED
      BY <2>2, <2>3 DEF InFlight
  <1>3. failures' \in Seq(Failure) /\ DOMAIN failures' = DOMAIN failures
    <2>1. failures \in Seq(Failure) /\ DOMAIN failures = 1 .. Len(failures)
      BY <1>0 DEF Typed
    <2>2. failures' = [n \in 1 .. Len(failures) |-> failures'[n]]
      BY <1>1, <2>1
    <2>3. QED
      BY <1>2, <2>1, <2>2
  <1>4. /\ commits' \in Commits /\ commits'.made = commits.made
        /\ commits'.own = commits.own /\ commits'.kept = commits.kept
        /\ commits'.story = commits.story
        /\ \A s \in Sessions : commits'.writing[s] = 0
    BY <1>0, <1>1 DEF Typed, Commits
  <1>5. \A s \in Sessions : commits.own[s] \in Nat /\ commits.made \in Nat /\ 0 <= commits.made
    BY <1>0 DEF Typed, Commits
  <1>6. Typed'
    <2>1. /\ retries' \in [Projects -> Nat] /\ recovered' \in [Projects -> Nat]
          /\ overlap' \in [Projects -> BOOLEAN] /\ faults' \in Nat /\ mixed' \in BOOLEAN
          /\ override' \in Override /\ override'.pc = "idle"
      <3>1. faults' \in Nat /\ mixed' \in BOOLEAN
        BY <1>0, <1>f, <1>m DEF Typed
      <3>2. override' \in Override /\ override'.pc = "idle"
        BY <1>1 DEF NoOverride, Override
      <3>3. /\ retries' \in [Projects -> Nat] /\ recovered' \in [Projects -> Nat]
            /\ overlap' \in [Projects -> BOOLEAN]
        BY <1>1
      <3>4. QED
        BY <3>1, <3>2, <3>3
    <2>2. Numbered'
      BY <1>0, <1>4, <1>5 DEF Typed, Numbered
    <2>3. QED
      BY <1>3, <1>4, <2>1, <2>2 DEF Typed
  <1>7. OneAtATime' /\ Accounted'
    <2>1. ASSUME NEW p \in Projects
          PROVE  Settled(p)'
      <3>1. recovered'[p] = 0 /\ retries'[p] = 0
        BY <1>1
      <3>2. QED
        BY <3>1, RecoveryAssumption DEF Settled
    <2>2. QED
      BY <1>2, <1>3, <2>1 DEF OneAtATime, Accounted
  <1>8. StoryIsNewest'
    <2>1. \A s \in Sessions : ~(commits'.writing[s] > 0)
      BY <1>4
    <2>2. QED
      BY <1>0, <1>m, <1>4, <2>1 DEF StoryIsNewest
  <1>9. WillFind'
    BY <1>0, <1>m, <1>2, <1>3, <1>4 DEF WillFind, WillFindOne
  <1>10. QED
    BY <1>6, <1>7, <1>8, <1>9 DEF InductiveInvariant

-----------------------------------------------------------------------------
(* Types and bounds *)

LEMMA BoundsAreNumbers ==
    ASSUME Bounded
    PROVE  /\ scenario.failures \in Nat /\ scenario.overrides \in Nat
           /\ scenario.faults \in Nat
  <1>1. scenario \in Scenario
    BY RecoveryAssumption DEF Bounded
  <1>2. QED
    BY <1>1 DEF Scenario

LEMMA UntoldShrinks ==
    ASSUME Bounded, NEW T, T \subseteq Untold
    PROVE  /\ IsFiniteSet(T) /\ Cardinality(T) \in Nat /\ Cardinality(Untold) \in Nat
           /\ Cardinality(T) <= Cardinality(Untold)
  <1>1. IsFiniteSet(Untold)
    BY DEF Bounded
  <1>2. IsFiniteSet(T) /\ Cardinality(T) <= Cardinality(Untold)
    BY <1>1, FS_Subset
  <1>3. QED
    BY <1>1, <1>2, FS_CardinalityType

\* A step without a new failure, and without a new silence.
LEMMA BoundsStay ==
    ASSUME Typed, Typed', Bounded, DOMAIN failures' = DOMAIN failures,
           scenario' = scenario, alive' \in [Sessions -> {"new", "running", "ended"}],
           session' \in [Sessions -> Tracked], pipeline' \in {"running", "paused", "failed"},
           calls' \in 0 .. scenario.overrides, faults' <= scenario.faults,
           unreported' \subseteq Sessions, Untold' \subseteq Untold
    PROVE  Bounded'
  <1>1. /\ IsFiniteSet(Untold') /\ Cardinality(Untold') \in Nat
        /\ Cardinality(Untold) \in Nat /\ Cardinality(Untold') <= Cardinality(Untold)
    BY UntoldShrinks
  <1>2. Len(failures') = Len(failures) /\ Len(failures) \in Nat
    BY DEF Typed
  <1>3. Len(failures) + Cardinality(Untold) <= scenario.failures
    BY DEF Bounded
  <1>4. Len(failures') + Cardinality(Untold') <= scenario.failures
    BY <1>1, <1>2, <1>3, BoundsAreNumbers
  <1>5. QED
    BY <1>1, <1>4 DEF Bounded

\* What is kept of one session changes, and it does not fall silent.
LEMMA EntryChanges ==
    ASSUME Bounded, NEW s \in Sessions, NEW entry \in Tracked,
           session' = [session EXCEPT ![s] = entry],
           Unnoticed(entry) => Unnoticed(session[s])
    PROVE  /\ session' \in [Sessions -> Tracked] /\ Untold' \subseteq Untold
           /\ ~Unnoticed(entry) => s \notin Untold'
  <1>1. session \in [Sessions -> Tracked]
    BY DEF Bounded
  <1>2. /\ session'[s] = entry
        /\ \A t \in Sessions : t # s => session'[t] = session[t]
    BY <1>1
  <1>3. session' \in [Sessions -> Tracked]
    BY <1>1
  <1>4. QED
    BY <1>2, <1>3 DEF Untold, Unnoticed

\* A failure is raised: there was room for it, or its silence is now noticed.
LEMMA CreateInBounds ==
    ASSUME Typed, Typed', Bounded, NEW s \in Sessions, NEW kind \in Kind,
           NEW entry \in Tracked, NEW now \in {"new", "running", "ended"},
           Create(s, kind, entry, now),
           \/ /\ Len(failures) + Cardinality(Untold) < scenario.failures
              /\ Unnoticed(entry) => Unnoticed(session[s])
           \/ s \in Untold /\ ~Unnoticed(entry)
    PROVE  Bounded'
  <1> DEFINE cleared == [entry EXCEPT !.watched = FALSE, !.silent = FALSE, !.noticed = FALSE]
  <1>1. cleared \in Tracked /\ ~Unnoticed(cleared)
    BY DEF Tracked, Unnoticed
  <1>2. PICK e \in Tracked : /\ session' = [session EXCEPT ![s] = e]
                             /\ Unnoticed(e) => Unnoticed(entry)
    BY <1>1 DEF Create, Recover
  <1>3. /\ UNCHANGED <<scenario, pipeline, calls, faults>>
        /\ alive' = [alive EXCEPT ![s] = now] \/ alive' = [alive EXCEPT ![s] = "ended"]
        /\ unreported' \subseteq unreported
    BY DEF Create, Recover
  <1>4. alive' \in [Sessions -> {"new", "running", "ended"}] /\ unreported' \subseteq Sessions
    BY <1>3 DEF Bounded
  <1>5. Unnoticed(entry) => Unnoticed(session[s])
    OBVIOUS
  <1>6. /\ session' \in [Sessions -> Tracked] /\ Untold' \subseteq Untold
        /\ ~Unnoticed(e) => s \notin Untold'
    BY <1>2, <1>5, EntryChanges
  <1>7. Len(failures') = Len(failures) + 1 /\ Len(failures) \in Nat
    BY CreateEffect DEF Typed
  <1>8. /\ IsFiniteSet(Untold') /\ Cardinality(Untold') \in Nat
        /\ Cardinality(Untold) \in Nat /\ Cardinality(Untold') <= Cardinality(Untold)
    BY <1>6, UntoldShrinks
  <1>9. Len(failures) + Cardinality(Untold) <= scenario.failures /\ scenario.failures \in Nat
    BY BoundsAreNumbers DEF Bounded
  <1>10. Len(failures') + Cardinality(Untold') <= scenario.failures
    <2>1. CASE Len(failures) + Cardinality(Untold) < scenario.failures
      BY <1>7, <1>8, <1>9, <2>1
    <2>2. CASE s \in Untold /\ ~Unnoticed(entry)
      <3>1. Untold' \subseteq Untold \ {s}
        BY <1>2, <1>6, <2>2
      <3>2. IsFiniteSet(Untold)
        BY DEF Bounded
      <3>3. IsFiniteSet(Untold \ {s}) /\ Cardinality(Untold \ {s}) = Cardinality(Untold) - 1
        BY <2>2, <3>2, FS_RemoveElement
      <3>4. Cardinality(Untold') <= Cardinality(Untold \ {s})
        BY <3>1, <3>3, FS_Subset
      <3>5. QED
        BY <1>7, <1>8, <1>9, <3>3, <3>4
    <2>3. QED
      BY <2>1, <2>2
  <1>11. QED
    BY <1>3, <1>4, <1>6, <1>8, <1>10 DEF Bounded

\* The steps of a session.
LEMMA SessionInBounds ==
    ASSUME Typed, Typed', Bounded, NEW s \in Sessions, SessionStep(s)
    PROVE  Bounded'
  <1>1. /\ session[s] \in Tracked /\ alive[s] \in {"new", "running", "ended"}
        /\ alive \in [Sessions -> {"new", "running", "ended"}]
        /\ session \in [Sessions -> Tracked] /\ unreported \subseteq Sessions
        /\ pipeline \in {"running", "paused", "failed"}
        /\ calls \in 0 .. scenario.overrides /\ faults <= scenario.faults
        /\ ApiErrorThreshold \in Nat \ {0}
    BY RecoveryAssumption DEF Bounded
  <1>2. \A kind : Room(kind) => Len(failures) + Cardinality(Untold) < scenario.failures
    BY DEF Room, Untold
  <1>3. ASSUME NEW entry \in Tracked, Keep(s, entry), unreported' \subseteq Sessions,
               Unnoticed(entry) => Unnoticed(session[s])
        PROVE  Bounded'
    <2>1. session' \in [Sessions -> Tracked] /\ Untold' \subseteq Untold
      BY <1>3, EntryChanges DEF Keep
    <2>2. QED
      BY <1>1, <1>3, <2>1, BoundsStay DEF Keep
  <1>4. CASE ProcessExit(s)
    BY <1>1, <1>2, <1>4, CreateInBounds DEF ProcessExit, Kind
  <1>5. CASE TimerFires(s)
    <2> DEFINE entry == [session[s] EXCEPT !.timer = FALSE]
    <2>1. entry \in Tracked /\ (Unnoticed(entry) => Unnoticed(session[s]))
      BY <1>1 DEF Tracked, Unnoticed
    <2>2. QED
      BY <1>1, <1>2, <1>5, <2>1, CreateInBounds DEF TimerFires, Kind
  <1>6. ASSUME NEW kind \in {"api", "rate"}, ApiError(s, kind)
        PROVE  Bounded'
    <2> DEFINE more == [session[s] EXCEPT !.errors = @ + 1]
               none == [session[s] EXCEPT !.errors = 0]
    <2>1. none \in Tracked /\ (Unnoticed(none) => Unnoticed(session[s]))
      BY <1>1 DEF Tracked, Unnoticed
    <2>2. CASE session[s].errors + 1 < ApiErrorThreshold
      <3>1. more \in Tracked /\ (Unnoticed(more) => Unnoticed(session[s]))
        BY <1>1, <2>2 DEF Tracked, Unnoticed
      <3>2. Keep(s, more) /\ unreported' = unreported
        BY <1>6, <2>2 DEF ApiError
      <3> HIDE DEF more
      <3>3. QED
        BY <1>1, <1>3, <3>1, <3>2
    <2>3. CASE ~(session[s].errors + 1 < ApiErrorThreshold)
      <3>1. Create(s, kind, none, alive[s]) /\ Room(kind) /\ kind \in Kind
        BY <1>6, <2>3 DEF ApiError, Kind
      <3> HIDE DEF none
      <3>2. QED
        BY <1>1, <1>2, <2>1, <3>1, CreateInBounds
    <2>4. QED
      BY <2>2, <2>3
  <1>7. CASE Modify(s)
    <2> DEFINE entry == [session[s] EXCEPT !.mods = @ + 1]
    <2>1. entry \in Tracked /\ (Unnoticed(entry) => Unnoticed(session[s]))
      BY <1>1 DEF Tracked, Unnoticed
    <2>2. \/ Keep(s, entry) /\ unreported' = unreported
          \/ Create(s, "loop", entry, alive[s]) /\ Room("loop")
      BY <1>7 DEF Modify
    <2> HIDE DEF entry
    <2>3. QED
      BY <1>1, <1>2, <1>3, <2>1, <2>2, CreateInBounds DEF Kind
  <1>8. CASE CheckHealth(s)
    <2> DEFINE entry == [session[s] EXCEPT !.noticed = TRUE]
    <2>1. entry \in Tracked /\ ~Unnoticed(entry)
      BY <1>1 DEF Tracked, Unnoticed
    <2>2. s \in Untold
      BY <1>8 DEF CheckHealth, Untold
    <2>3. \/ Keep(s, entry) /\ unreported' = unreported \ {s}
          \/ Create(s, "stuck", entry, alive[s])
      BY <1>8 DEF CheckHealth
    <2> HIDE DEF entry
    <2>4. QED
      BY <1>1, <1>3, <2>1, <2>2, <2>3, CreateInBounds DEF Kind
  <1>9. CASE StopMonitoring(s) \/ ApiSuccess(s) \/ TestsPass(s) \/ RecordActivity(s)
    <2> DEFINE e1 == [session[s] EXCEPT !.watched = FALSE, !.silent = FALSE, !.noticed = FALSE]
               e2 == [session[s] EXCEPT !.errors = 0]
               e3 == [session[s] EXCEPT !.mods = 0]
               e4 == [session[s] EXCEPT !.silent = FALSE, !.noticed = FALSE]
    <2>1. \A e \in {e1, e2, e3, e4} :
             e \in Tracked /\ (Unnoticed(e) => Unnoticed(session[s]))
      <3>1. /\ e1 \in Tracked /\ ~Unnoticed(e1)
            /\ e4 \in Tracked /\ ~Unnoticed(e4)
        BY <1>1 DEF Tracked, Unnoticed
      <3>2. e2 \in Tracked /\ (Unnoticed(e2) => Unnoticed(session[s]))
        BY <1>1 DEF Tracked, Unnoticed
      <3>3. e3 \in Tracked /\ (Unnoticed(e3) => Unnoticed(session[s]))
        BY <1>1 DEF Tracked, Unnoticed
      <3> HIDE DEF e1, e2, e3, e4
      <3>4. QED
        BY <3>1, <3>2, <3>3
    <2>2. \E e \in {e1, e2, e3, e4} : Keep(s, e) /\ unreported' \subseteq unreported
      BY <1>9 DEF StopMonitoring, ApiSuccess, TestsPass, RecordActivity, Resumed
    <2> HIDE DEF e1, e2, e3, e4
    <2>3. QED
      BY <1>1, <1>3, <2>1, <2>2
  <1>10. CASE FallSilent(s)
    <2> DEFINE entry == [session[s] EXCEPT !.silent = TRUE]
    <2>1. /\ entry \in Tracked /\ session' = [session EXCEPT ![s] = entry]
          /\ unreported' = unreported \cup {s}
          /\ UNCHANGED <<scenario, alive, failures, pipeline, calls, faults>>
      BY <1>1, <1>10 DEF FallSilent, Keep, Tracked
    <2> HIDE DEF entry
    <2>2. Untold' \subseteq Untold \cup {s} /\ session' \in [Sessions -> Tracked]
      BY <1>1, <2>1 DEF Untold
    <2>3. IsFiniteSet(Untold) /\ Cardinality(Untold) \in Nat
      BY FS_CardinalityType DEF Bounded
    <2>4. /\ IsFiniteSet(Untold \cup {s})
          /\ Cardinality(Untold \cup {s}) <= Cardinality(Untold) + 1
      BY <2>3, FS_AddElement
    <2>5. IsFiniteSet(Untold') /\ Cardinality(Untold') <= Cardinality(Untold \cup {s})
      BY <2>2, <2>4, FS_Subset
    <2>6. Cardinality(Untold') \in Nat /\ Cardinality(Untold \cup {s}) \in Nat
      BY <2>4, <2>5, FS_CardinalityType
    <2>7. Len(failures) + Cardinality(Untold) < scenario.failures
      BY <1>2, <1>10 DEF FallSilent
    <2>8. Len(failures) \in Nat /\ scenario.failures \in Nat
      BY BoundsAreNumbers DEF Typed
    <2>9. Len(failures) + Cardinality(Untold') <= scenario.failures
      BY <2>3, <2>4, <2>5, <2>6, <2>7, <2>8
    <2>10. QED
      BY <1>1, <2>1, <2>2, <2>5, <2>9 DEF Bounded
  <1>11. CASE Start(s)
    <2>1. PICK known \in BOOLEAN :
             session' = [session EXCEPT ![s] = [Untracked EXCEPT !.registered = known,
                                                                 !.timer = known,
                                                                 !.watched = TRUE]]
      BY <1>11 DEF Start
    <2> DEFINE entry == [Untracked EXCEPT !.registered = known, !.timer = known,
                                          !.watched = TRUE]
    <2>2. entry \in Tracked /\ ~Unnoticed(entry)
      <3>1. 0 \in 0 .. ApiErrorThreshold - 1
        BY <1>1
      <3>2. CASE known = TRUE
        BY <3>1, <3>2 DEF Tracked, Untracked, Unnoticed
      <3>3. CASE known = FALSE
        BY <3>1, <3>3 DEF Tracked, Untracked, Unnoticed
      <3>4. QED
        BY <3>2, <3>3
    <2>3. session' = [session EXCEPT ![s] = entry]
      BY <2>1
    <2> HIDE DEF entry
    <2>4. session' \in [Sessions -> Tracked] /\ Untold' \subseteq Untold
      BY <2>2, <2>3, EntryChanges
    <2>5. QED
      BY <1>1, <1>11, <2>4, BoundsStay DEF Start, history
  <1>12. CASE Succeed(s)
    <2>1. Untracked \in Tracked /\ ~Unnoticed(Untracked)
      BY <1>1 DEF Tracked, Untracked, Unnoticed
    <2>2. session' \in [Sessions -> Tracked] /\ Untold' \subseteq Untold
      BY <1>12, <2>1, EntryChanges DEF Succeed
    <2>3. QED
      BY <1>1, <1>12, <2>2, BoundsStay DEF Succeed
  <1>13. CASE AddCheckpoint(s) \/ SetStoryCheckpoint(s)
    <2>1. UNCHANGED <<scenario, alive, session, failures, pipeline, calls, unreported>>
      BY <1>13 DEF AddCheckpoint, SetStoryCheckpoint, history
    <2>2. faults' = faults \/ Fault
      BY <1>13 DEF AddCheckpoint, SetStoryCheckpoint
    <2>3. faults' <= scenario.faults
      <3>1. faults \in Nat /\ scenario.faults \in Nat
        BY BoundsAreNumbers DEF Typed
      <3>2. QED
        BY <1>1, <2>2, <3>1 DEF Fault
    <2>4. Untold' = Untold
      BY <2>1 DEF Untold
    <2>5. QED
      BY <1>1, <2>1, <2>3, <2>4, BoundsStay
  <1>14. QED
    BY <1>4, <1>5, <1>6, <1>7, <1>8, <1>9, <1>10, <1>11, <1>12, <1>13 DEF SessionStep

\* All other steps raise no failure.
LEMMA OthersInBounds ==
    ASSUME Typed, Typed', Bounded,
           \/ Act \/ EndOverride \/ ResumeOrRestart \/ Restart
           \/ \E n \in DOMAIN failures :
                 \/ HandlerStep(n) \/ LookupFails(n) \/ Reassign(n)
                 \/ \E action \in {"terminate", "provide_guidance"} : BeginOverride(n, action)
    PROVE  Bounded'
  <1>1. /\ alive \in [Sessions -> {"new", "running", "ended"}]
        /\ session \in [Sessions -> Tracked] /\ unreported \subseteq Sessions
        /\ pipeline \in {"running", "paused", "failed"}
        /\ calls \in 0 .. scenario.overrides /\ faults <= scenario.faults /\ faults \in Nat
        /\ scenario.overrides \in Nat /\ scenario.faults \in Nat
    BY BoundsAreNumbers DEF Bounded, Typed
  <1>2. UNCHANGED session => Untold' = Untold
    BY DEF Untold
  <1>3. CASE Act
    BY <1>1, <1>2, <1>3, BoundsStay DEF Act, history
  <1>4. CASE EndOverride
    BY <1>1, <1>2, <1>4, BoundsStay DEF EndOverride, Reset
  <1>5. CASE ResumeOrRestart
    BY <1>1, <1>2, <1>5, BoundsStay DEF ResumeOrRestart, history
  <1>6. CASE Restart
    <2>1. Untracked \in Tracked
      BY RecoveryAssumption DEF Tracked, Untracked
    <2>2. session' \in [Sessions -> Tracked]
      BY <1>6, <2>1 DEF Restart
    <2>3. Untold' = {}
      BY <1>6 DEF Restart, Untold, Untracked
    <2>4. alive' \in [Sessions -> {"new", "running", "ended"}]
      BY <1>1, <1>6 DEF Restart
    <2>5. /\ scenario' = scenario /\ pipeline' = pipeline /\ calls' = calls
          /\ unreported' = {} /\ DOMAIN failures' = DOMAIN failures
      BY <1>6 DEF Restart
    <2>6. faults' <= scenario.faults
      <3>1. faults < scenario.faults /\ faults' = faults + 1
        BY <1>6 DEF Restart, Fault
      <3>2. QED
        BY <1>1, <3>1
    <2>7. QED
      BY <1>1, <2>2, <2>3, <2>4, <2>5, <2>6, BoundsStay
  <1>7. ASSUME NEW n \in DOMAIN failures, DelayEnds(n)
        PROVE  Bounded'
    <2>1. /\ UNCHANGED <<scenario, pipeline, calls, faults>>
          /\ DOMAIN failures' = DOMAIN failures
      BY <1>7 DEF DelayEnds, Handle
    <2>2. CASE failures[n].tried >= MaxRetries
      BY <1>1, <1>2, <1>7, <2>1, <2>2, BoundsStay DEF DelayEnds
    <2>3. CASE ~(failures[n].tried >= MaxRetries)
      <3>1. PICK s \in Sessions : s = failures[n].session
        BY FailureTyped DEF Failure
      <3> DEFINE e == [session[s] EXCEPT !.watched = FALSE, !.silent = FALSE, !.noticed = FALSE]
      <3>2. e \in Tracked /\ ~Unnoticed(e)
        BY <1>1 DEF Tracked, Unnoticed
      <3>3. /\ session' = [session EXCEPT ![s] = e]
            /\ alive' = [alive EXCEPT ![s] = "ended"]
            /\ unreported' = unreported \ {s}
        BY <1>7, <2>3, <3>1 DEF DelayEnds, Recover
      <3> HIDE DEF e
      <3>4. session' \in [Sessions -> Tracked] /\ Untold' \subseteq Untold
        BY <3>2, <3>3, EntryChanges
      <3>5. QED
        BY <1>1, <2>1, <3>3, <3>4, BoundsStay
    <2>4. QED
      BY <2>2, <2>3
  <1>8. ASSUME NEW n \in DOMAIN failures,
               \/ FindSessionCheckpoint(n) \/ FindStoryCheckpoint(n) \/ EndRecovery(n)
               \/ Pause(n) \/ EndEscalation(n) \/ LookupFails(n) \/ Reassign(n)
        PROVE  Bounded'
    <2>1. /\ UNCHANGED <<scenario, alive, session, unreported>>
          /\ DOMAIN failures' = DOMAIN failures
      BY <1>8 DEF FindSessionCheckpoint, FindStoryCheckpoint, EndRecovery, Pause, EndEscalation,
                  LookupFails, Reassign, Reset, Handle, history
    <2>2. CASE FindSessionCheckpoint(n) \/ FindStoryCheckpoint(n) \/ LookupFails(n)
      <3>1. UNCHANGED <<pipeline, calls>> /\ (faults' = faults \/ Fault)
        BY <2>2 DEF FindSessionCheckpoint, FindStoryCheckpoint, LookupFails, Handle
      <3>2. faults' <= scenario.faults
        BY <1>1, <3>1 DEF Fault
      <3>3. QED
        BY <1>1, <1>2, <2>1, <3>1, <3>2, BoundsStay
    <2>3. CASE EndRecovery(n) \/ Pause(n) \/ EndEscalation(n) \/ Reassign(n)
      <3>1. pipeline' \in {"running", "paused", "failed"}
        BY <1>1, <2>3 DEF EndRecovery, Pause, EndEscalation, Reassign, Handle
      <3>2. faults' <= scenario.faults
        BY <1>1, <2>3 DEF EndRecovery, Pause, EndEscalation, Reassign, Handle, Fault
      <3>3. calls' \in 0 .. scenario.overrides
        BY <1>1, <2>3 DEF EndRecovery, Pause, EndEscalation, Reassign, Handle
      <3>4. QED
        BY <1>1, <1>2, <2>1, <3>1, <3>2, <3>3, BoundsStay
    <2>4. QED
      BY <1>8, <2>2, <2>3
  <1>9. ASSUME NEW n \in DOMAIN failures, NEW action \in {"terminate", "provide_guidance"},
               BeginOverride(n, action)
        PROVE  Bounded'
    BY <1>1, <1>2, <1>9, BoundsStay DEF BeginOverride, history
  <1>10. QED
    BY <1>3, <1>4, <1>5, <1>6, <1>7, <1>8, <1>9 DEF HandlerStep

-----------------------------------------------------------------------------
(* Silences *)

\* Only the entry of session s changes.
LEMMA SilenceOfOne ==
    ASSUME session \in [Sessions -> Tracked], SilenceInStep, NEW s \in Sessions, NEW entry,
           session' = [session EXCEPT ![s] = entry],
           \A t \in Sessions \ {s} : /\ t \in unreported' => t \in unreported
                                     /\ alive'[t] = alive[t],
           Noticeable(entry, s \in unreported', alive'[s])
    PROVE  SilenceInStep'
  <1> SUFFICES ASSUME NEW t \in Sessions
               PROVE  Noticeable(session'[t], t \in unreported', alive'[t])
    BY DEF SilenceInStep
  <1>1. CASE t = s
    <2>1. session'[t] = entry
      BY <1>1
    <2>2. QED
      BY <1>1, <2>1
  <1>2. CASE t # s
    <2>1. session'[t] = session[t] /\ alive'[t] = alive[t]
      BY <1>2
    <2>2. QED
      BY <1>2, <2>1 DEF SilenceInStep, Noticeable
  <1>3. QED
    BY <1>1, <1>2

\* A failure is raised: its silence is reported, or the session is recovered,
\* or its silence is another matter.
LEMMA SilenceOfCreate ==
    ASSUME session \in [Sessions -> Tracked],
           alive \in [Sessions -> {"new", "running", "ended"}],
           SilenceInStep, NEW s \in Sessions, NEW kind, NEW entry \in Tracked,
           NEW now \in {"new", "running", "ended"}, Create(s, kind, entry, now),
           Noticeable(entry, s \in unreported /\ ~entry.noticed, now)
    PROVE  SilenceInStep'
  <1> DEFINE cleared == [entry EXCEPT !.watched = FALSE, !.silent = FALSE, !.noticed = FALSE]
  <1>1. ~cleared.watched /\ ~cleared.silent /\ ~cleared.noticed
    BY DEF Tracked
  <1>2. \/ /\ session' = [session EXCEPT ![s] = cleared]
           /\ alive' = [alive EXCEPT ![s] = "ended"]
           /\ unreported' = unreported \ {s}
        \/ /\ session' = [session EXCEPT ![s] = entry]
           /\ alive' = [alive EXCEPT ![s] = now]
           /\ unreported' = IF entry.noticed THEN unreported \ {s} ELSE unreported
    BY DEF Create, Recover
  <1>3. CASE /\ session' = [session EXCEPT ![s] = cleared]
             /\ alive' = [alive EXCEPT ![s] = "ended"]
             /\ unreported' = unreported \ {s}
    <2>1. Noticeable(cleared, s \in unreported', alive'[s])
      BY <1>1, <1>3 DEF Noticeable
    <2> HIDE DEF cleared
    <2>2. QED
      BY <1>3, <2>1, SilenceOfOne
  <1>4. CASE /\ session' = [session EXCEPT ![s] = entry]
             /\ alive' = [alive EXCEPT ![s] = now]
             /\ unreported' = IF entry.noticed THEN unreported \ {s} ELSE unreported
    <2>1. alive'[s] = now /\ (s \in unreported' => s \in unreported /\ ~entry.noticed)
      BY <1>4
    <2>2. Noticeable(entry, s \in unreported', alive'[s])
      BY <2>1 DEF Noticeable
    <2>3. QED
      BY <1>4, <2>2, SilenceOfOne
  <1>5. QED
    BY <1>2, <1>3, <1>4

\* The steps of a session.
LEMMA SilenceOfSession ==
    ASSUME session \in [Sessions -> Tracked],
           alive \in [Sessions -> {"new", "running", "ended"}],
           SilenceInStep, NEW s \in Sessions, SessionStep(s), session' \in [Sessions -> Tracked]
    PROVE  SilenceInStep'
  <1> DEFINE e == session[s]
             e1 == session'[s]
  <1>1. /\ e \in Tracked /\ e1 \in Tracked /\ alive[s] \in {"new", "running", "ended"}
        /\ Noticeable(e, s \in unreported, alive[s])
    BY DEF SilenceInStep
  <1>2. ASSUME NEW entry, Keep(s, entry), unreported' \ {s} \subseteq unreported,
               Noticeable(entry, s \in unreported', alive[s])
        PROVE  SilenceInStep'
    BY <1>2, SilenceOfOne DEF Keep
  <1> DEFINE Alike(f) == /\ f \in Tracked /\ f.watched = e.watched
                         /\ f.silent = e.silent /\ f.noticed = e.noticed
  <1>3. ASSUME NEW f, Alike(f), NEW kind, NEW now \in {"running", "ended", alive[s]},
               Create(s, kind, f, now)
        PROVE  SilenceInStep'
    <2>1. Noticeable(f, s \in unreported /\ ~f.noticed, now)
      BY <1>1, <1>3 DEF Noticeable
    <2>2. now \in {"new", "running", "ended"}
      BY <1>1
    <2>3. QED
      BY <1>3, <2>1, <2>2, SilenceOfCreate
  <1>4. ASSUME NEW f, Alike(f), Keep(s, f), unreported' = unreported
        PROVE  SilenceInStep'
    <2>1. Noticeable(f, s \in unreported', alive[s])
      BY <1>1, <1>4 DEF Noticeable
    <2>2. QED
      BY <1>2, <1>4, <2>1
  <1>5. Alike(e)
    BY <1>1
  <1>6. CASE ProcessExit(s)
    <2>1. Create(s, "crash", e, "ended")
      BY <1>6 DEF ProcessExit
    <2>2. QED
      BY <1>3, <1>5, <2>1
  <1>7. CASE TimerFires(s)
    <2> DEFINE f == [e EXCEPT !.timer = FALSE]
    <2>1. Alike(f) /\ Create(s, "timeout", f, alive[s])
      BY <1>1, <1>7 DEF TimerFires, Tracked
    <2>2. QED
      BY <1>3, <2>1
  <1>8. ASSUME NEW kind, ApiError(s, kind)
        PROVE  SilenceInStep'
    <2> DEFINE more == [e EXCEPT !.errors = @ + 1]
               none == [e EXCEPT !.errors = 0]
    <2>1. \/ Keep(s, more) /\ unreported' = unreported /\ session' = [session EXCEPT ![s] = more]
          \/ Create(s, kind, none, alive[s])
      BY <1>8 DEF ApiError, Keep
    <2>2. CASE Keep(s, more) /\ unreported' = unreported /\ session' = [session EXCEPT ![s] = more]
      <3>1. more = e1
        BY <2>2
      <3>2. Alike(more)
        BY <1>1, <3>1 DEF Tracked
      <3>3. QED
        BY <1>4, <2>2, <3>2
    <2>3. CASE Create(s, kind, none, alive[s])
      <3>1. Alike(none)
        BY <1>1, RecoveryAssumption DEF Tracked
      <3>2. QED
        BY <1>3, <2>3, <3>1
    <2>4. QED
      BY <2>1, <2>2, <2>3
  <1>9. CASE Modify(s)
    <2> DEFINE f == [e EXCEPT !.mods = @ + 1]
    <2>1. Alike(f)
      BY <1>1 DEF Tracked
    <2>2. (Keep(s, f) /\ unreported' = unreported) \/ Create(s, "loop", f, alive[s])
      BY <1>9 DEF Modify
    <2>3. QED
      BY <1>3, <1>4, <2>1, <2>2
  <1>10. CASE ApiSuccess(s)
    <2> DEFINE f == [e EXCEPT !.errors = 0]
    <2>1. Alike(f) /\ Keep(s, f) /\ unreported' = unreported
      BY <1>1, <1>10, RecoveryAssumption DEF Tracked, ApiSuccess
    <2>2. QED
      BY <1>4, <2>1
  <1>11. CASE TestsPass(s)
    <2> DEFINE f == [e EXCEPT !.mods = 0]
    <2>1. Alike(f) /\ Keep(s, f) /\ unreported' = unreported
      BY <1>1, <1>11 DEF Tracked, TestsPass
    <2>2. QED
      BY <1>4, <2>1
  <1>12. CASE FallSilent(s)
    <2> DEFINE f == [e EXCEPT !.silent = TRUE]
    <2>1. f.watched /\ f.silent /\ ~f.noticed /\ alive[s] # "new"
      BY <1>1, <1>12 DEF FallSilent, Tracked, Noticeable
    <2>2. Keep(s, f) /\ unreported' = unreported \cup {s}
      BY <1>12 DEF FallSilent
    <2>3. Noticeable(f, s \in unreported', alive[s])
      BY <2>1 DEF Noticeable
    <2> HIDE DEF f
    <2>4. QED
      BY <1>2, <2>2, <2>3
  <1>13. CASE StopMonitoring(s) \/ RecordActivity(s)
    <2> DEFINE f == [e EXCEPT !.watched = FALSE, !.silent = FALSE, !.noticed = FALSE]
               g == [e EXCEPT !.silent = FALSE, !.noticed = FALSE]
    <2>1. /\ ~f.watched /\ ~f.silent /\ ~f.noticed
          /\ ~g.silent /\ ~g.noticed /\ g.watched = e.watched
      BY <1>1 DEF Tracked
    <2>2. unreported' = unreported \ {s} /\ (Keep(s, f) \/ Keep(s, g))
      BY <1>13 DEF StopMonitoring, RecordActivity, Resumed
    <2>3. Noticeable(f, s \in unreported', alive[s]) /\ Noticeable(g, s \in unreported', alive[s])
      BY <1>1, <2>1, <2>2 DEF Noticeable
    <2> HIDE DEF f, g
    <2>4. QED
      BY <1>2, <2>2, <2>3
  <1>14. CASE CheckHealth(s)
    <2> DEFINE f == [e EXCEPT !.noticed = TRUE]
    <2>1. f \in Tracked /\ f.noticed /\ f.silent /\ f.watched = e.watched
      BY <1>1, <1>14 DEF Tracked, CheckHealth
    <2>2. \/ Create(s, "stuck", f, alive[s])
          \/ Keep(s, f) /\ unreported' = unreported \ {s}
      BY <1>14 DEF CheckHealth
    <2>3. Noticeable(f, FALSE, alive[s])
      BY <1>1, <2>1 DEF Noticeable
    <2>4. /\ Noticeable(f, s \in unreported /\ ~f.noticed, alive[s])
          /\ unreported' = unreported \ {s} => Noticeable(f, s \in unreported', alive[s])
      BY <2>1, <2>3 DEF Noticeable
    <2> HIDE DEF f
    <2>5. QED
      BY <1>1, <1>2, <2>1, <2>2, <2>4, SilenceOfCreate
  <1>15. CASE Start(s)
    <2>1. PICK known \in BOOLEAN :
             session' = [session EXCEPT ![s] = [Untracked EXCEPT !.registered = known,
                                                                 !.timer = known,
                                                                 !.watched = TRUE]]
      BY <1>15 DEF Start
    <2> DEFINE f == [Untracked EXCEPT !.registered = known, !.timer = known,
                                      !.watched = TRUE]
    <2>2. f.watched /\ ~f.silent /\ ~f.noticed
      BY DEF Untracked
    <2>3. /\ alive[s] = "new" /\ alive' = [alive EXCEPT ![s] = "running"]
          /\ unreported' = unreported
      BY <1>15 DEF Start, history
    <2>4. s \notin unreported' /\ alive'[s] = "running"
      BY <1>1, <2>3 DEF Noticeable
    <2>5. Noticeable(f, s \in unreported', alive'[s])
      BY <2>2, <2>4 DEF Noticeable
    <2>6. session' = [session EXCEPT ![s] = f]
      BY <2>1
    <2> HIDE DEF f
    <2>7. QED
      BY <2>3, <2>5, <2>6, SilenceOfOne
  <1>16. CASE Succeed(s)
    <2>1. /\ session' = [session EXCEPT ![s] = Untracked]
          /\ alive' = [alive EXCEPT ![s] = "ended"] /\ unreported' = unreported \ {s}
      BY <1>16 DEF Succeed
    <2>2. Noticeable(Untracked, s \in unreported', alive'[s])
      BY <2>1 DEF Noticeable, Untracked
    <2>3. QED
      BY <2>1, <2>2, SilenceOfOne
  <1>17. CASE AddCheckpoint(s) \/ SetStoryCheckpoint(s)
    <2>1. UNCHANGED <<alive, session, unreported>>
      BY <1>17 DEF AddCheckpoint, SetStoryCheckpoint, history
    <2>2. QED
      BY <2>1 DEF SilenceInStep, Noticeable
  <1>18. QED
    BY <1>6, <1>7, <1>8, <1>9, <1>10, <1>11, <1>12, <1>13, <1>14, <1>15, <1>16, <1>17
       DEF SessionStep

-----------------------------------------------------------------------------
(* Theorems *)

\* Types, the account of the recoveries and the order of the checkpoints are kept.
THEOREM Inductive == Spec => []InductiveInvariant
  <1>1. Init => InductiveInvariant
    <2> SUFFICES ASSUME Init
                 PROVE  InductiveInvariant
      OBVIOUS
    <2>1. Typed
      <3>1. /\ commits \in Commits /\ commits.story = 0 /\ commits.made = 0
            /\ \A s \in Sessions : /\ commits.own[s] = 0 /\ commits.kept[s] = 0
                                   /\ commits.writing[s] = 0
        BY DEF Init, Commits
      <3>2. Numbered
        BY <3>1 DEF Numbered
      <3>3. override \in Override /\ override.pc = "idle"
        BY DEF Init, NoOverride, Override
      <3>4. failures \in Seq(Failure) /\ faults \in Nat /\ mixed \in BOOLEAN
        <4>1. failures = <<>> /\ faults = 0
          BY DEF Init
        <4>2. mixed \in BOOLEAN
          BY Zenon DEF Init
        <4>3. failures \in Seq(Failure)
          BY <4>1
        <4>4. QED
          BY <4>1, <4>2, <4>3
      <3>5. /\ retries \in [Projects -> Nat] /\ recovered \in [Projects -> Nat]
            /\ overlap \in [Projects -> BOOLEAN]
        BY DEF Init
      <3>6. QED
        BY <3>1, <3>2, <3>3, <3>4, <3>5 DEF Typed
    <2>2. OneAtATime /\ Accounted
      BY RecoveryAssumption DEF Init, OneAtATime, Accounted, Settled
    <2>3. StoryIsNewest /\ WillFind
      BY DEF Init, StoryIsNewest, WillFind
    <2>4. QED
      BY <2>1, <2>2, <2>3 DEF InductiveInvariant
  <1>2. InductiveInvariant /\ [Next]_vars => InductiveInvariant'
    <2> SUFFICES ASSUME InductiveInvariant, [Next]_vars
                 PROVE  InductiveInvariant'
      OBVIOUS
    <2>1. Typed
      BY DEF InductiveInvariant
    <2>2. CASE UNCHANGED vars \/ Stop
      BY <2>1, <2>2, RestKeeps DEF vars, history, Stop, Typed
    <2>3. CASE ResumeOrRestart
      BY <2>1, <2>3, RestKeeps DEF ResumeOrRestart, history, Typed
    <2>4. ASSUME NEW s \in Sessions, SessionStep(s)
          PROVE  InductiveInvariant'
      <3>1. CASE \E kind \in Kind : \E entry, now : Create(s, kind, entry, now)
        BY <3>1, CreateKeeps
      <3>2. CASE AddCheckpoint(s) \/ SetStoryCheckpoint(s)
        BY <3>2, CheckpointKeeps
      <3>3. CASE UNCHANGED <<failures, retries, recovered, overlap, commits, override,
                             faults, mixed>>
        BY <2>1, <3>3, RestKeeps DEF Typed
      <3>4. QED
        BY <2>4, <3>1, <3>2, <3>3, SessionEffect
    <2>5. QED
      BY <2>2, <2>3, <2>4, HandlerKeeps, OverrideKeeps, RestartKeeps DEF Next
  <1>3. QED
    BY <1>1, <1>2, PTL DEF Spec

\* Every variable of FailureRecovery keeps its type, and no heartbeat raises a
\* failure too many: a silence has its failure put aside when it begins.
THEOREM TypeCorrect == Spec => []TypeOK
  <1>1. Init => Bounded
    <2> SUFFICES ASSUME Init
                 PROVE  Bounded
      OBVIOUS
    <2>1. scenario \in Scenario /\ scenario \in Scenarios
      BY RecoveryAssumption DEF Init
    <2>2. Untracked \in Tracked
      BY RecoveryAssumption DEF Tracked, Untracked
    <2>3. /\ alive \in [Sessions -> {"new", "running", "ended"}]
          /\ session \in [Sessions -> Tracked] /\ unreported \subseteq Sessions
          /\ pipeline \in {"running", "paused", "failed"} /\ calls = 0 /\ faults = 0
          /\ Len(failures) = 0
      BY <2>2 DEF Init
    <2>4. Untold = {}
      BY DEF Init, Untold, Untracked
    <2>5. IsFiniteSet(Untold) /\ Cardinality(Untold) = 0
      BY <2>4, FS_EmptySet
    <2>6. QED
      BY <2>1, <2>3, <2>5 DEF Bounded, Scenario
  <1>2. InductiveInvariant /\ InductiveInvariant' /\ Bounded /\ [Next]_vars => Bounded'
    <2> SUFFICES ASSUME Typed, Typed', Bounded, [Next]_vars
                 PROVE  Bounded'
      BY DEF InductiveInvariant
    <2>1. CASE UNCHANGED vars \/ Stop
      <3>1. UNCHANGED <<scenario, alive, session, failures, pipeline, calls, faults, unreported>>
        BY <2>1 DEF vars, history, Stop
      <3>2. Untold' = Untold
        BY <3>1 DEF Untold
      <3>3. QED
        BY <3>1, <3>2 DEF Bounded
    <2>2. QED
      BY <2>1, SessionInBounds, OthersInBounds DEF Next
  <1>3. InductiveInvariant /\ Bounded => TypeOK
    <2> SUFFICES ASSUME InductiveInvariant, Bounded
                 PROVE  TypeOK
      OBVIOUS
    <2>1. Cardinality(Untold) \in Nat /\ Len(failures) \in Nat
      BY UntoldShrinks DEF InductiveInvariant, Typed
    <2>2. Len(failures) <= scenario.failures
      BY <2>1, BoundsAreNumbers DEF Bounded
    <2>3. faults \in 0 .. scenario.faults
      BY BoundsAreNumbers DEF Bounded, InductiveInvariant, Typed
    <2>4. QED
      BY <2>2, <2>3 DEF Bounded, InductiveInvariant, Typed, TypeOK, Override
  <1>4. QED
    BY <1>1, <1>2, <1>3, Inductive, PTL DEF Spec

\* Whatever fails, and in whatever order: as long as the failures of a project
\* and the resets of the user come one at a time, it is recovered MaxRetries
\* times at most before the user is asked.
THEOREM RecoveryIsBounded == Spec => []RecoveriesBounded
  <1>1. InductiveInvariant => RecoveriesBounded
    <2> SUFFICES ASSUME InductiveInvariant, NEW p \in Projects, ~overlap[p]
                 PROVE  recovered[p] <= MaxRetries
      BY DEF RecoveriesBounded
    <2>1. recovered[p] \in Nat /\ retries[p] \in Nat /\ MaxRetries \in Nat
      BY RecoveryAssumption DEF InductiveInvariant, Typed
    <2>2. CASE Settled(p)
      BY <2>2 DEF Settled
    <2>3. CASE ~Settled(p)
      <3>1. Handled(p)
        BY <2>3 DEF InductiveInvariant, Accounted
      <3>2. PICK n \in DOMAIN failures : failures[n].project = p /\ InFlight(n)
        BY <3>1 DEF Handled
      <3>3. recovered[p] <= retries[p] + 1 /\ retries[p] < MaxRetries
        BY <2>3, <3>2 DEF InductiveInvariant, Accounted
      <3>4. QED
        BY <2>1, <3>3
    <2>4. QED
      BY <2>2, <2>3
  <1>2. QED
    BY <1>1, Inductive, PTL

\* A recovery finds no checkpoint that is older than what its session, or its
\* story, had in full when it failed: as long as checkpoints are written one at
\* a time, whatever writes are lost, whenever the process ends, and whichever
\* read fails that is not the last.  A failure of no project has no story.
THEOREM NewestIsFound == Spec => []CheckpointIsNewest
  <1>1. InductiveInvariant => CheckpointIsNewest
    BY DEF InductiveInvariant, WillFind, WillFindOne, CheckpointIsNewest
  <1>2. QED
    BY <1>1, Inductive, PTL

\* A silence that is still to be reported is one that the heartbeat reports: no
\* flag is left from an earlier silence, whatever has become of the session.
THEOREM SilenceIsSeen == Spec => []SilenceIsNoticeable
  <1>1. Init => SilenceInStep
    BY DEF Init, SilenceInStep, Noticeable, Untracked
  <1>2. TypeOK /\ TypeOK' /\ InductiveInvariant /\ SilenceInStep /\ [Next]_vars
           => SilenceInStep'
    <2> SUFFICES ASSUME TypeOK, TypeOK', InductiveInvariant, SilenceInStep, [Next]_vars
                 PROVE  SilenceInStep'
      OBVIOUS
    <2>1. /\ session \in [Sessions -> Tracked] /\ session' \in [Sessions -> Tracked]
          /\ alive \in [Sessions -> {"new", "running", "ended"}]
      BY DEF TypeOK
    <2>2. ASSUME NEW s \in Sessions, SessionStep(s) PROVE SilenceInStep'
      BY <2>1, <2>2, SilenceOfSession
    <2>3. CASE UNCHANGED <<alive, session, unreported>>
      BY <2>3 DEF SilenceInStep, Noticeable
    <2>4. CASE Restart
      <3>1. /\ session' = [s \in Sessions |-> Untracked] /\ unreported' = {}
        BY <2>4 DEF Restart
      <3>2. QED
        BY <3>1 DEF SilenceInStep, Noticeable, Untracked
    <2>5. ASSUME NEW n \in DOMAIN failures, DelayEnds(n) PROVE SilenceInStep'
      <3>1. CASE failures[n].tried >= MaxRetries
        BY <2>3, <2>5, <3>1 DEF DelayEnds
      <3>2. CASE ~(failures[n].tried >= MaxRetries)
        <4>1. PICK s \in Sessions : s = failures[n].session
          BY FailureTyped DEF Failure, InductiveInvariant
        <4> DEFINE f == [session[s] EXCEPT !.watched = FALSE, !.silent = FALSE,
                                           !.noticed = FALSE]
        <4>2. ~f.watched /\ ~f.silent /\ ~f.noticed
          BY <2>1 DEF Tracked
        <4>3. /\ session' = [session EXCEPT ![s] = f]
              /\ alive' = [alive EXCEPT ![s] = "ended"]
              /\ unreported' = unreported \ {s}
          BY <2>5, <3>2, <4>1 DEF DelayEnds, Recover
        <4>4. Noticeable(f, s \in unreported', alive'[s])
          BY <4>2, <4>3 DEF Noticeable
        <4> HIDE DEF f
        <4>5. QED
          BY <2>1, <4>3, <4>4, SilenceOfOne
      <3>3. QED
        BY <3>1, <3>2
    <2>6. ASSUME NEW n \in DOMAIN failures,
                 \/ HandlerStep(n) \/ LookupFails(n) \/ Reassign(n)
                 \/ \E action \in {"terminate", "provide_guidance"} :
                       BeginOverride(n, action)
          PROVE  DelayEnds(n) \/ UNCHANGED <<alive, session, unreported>>
      BY <2>6 DEF HandlerStep, FindSessionCheckpoint, FindStoryCheckpoint, EndRecovery, Pause,
                  EndEscalation, LookupFails, Reassign, BeginOverride, history
    <2>7. CASE Act \/ EndOverride \/ ResumeOrRestart \/ Stop \/ UNCHANGED vars
      BY <2>3, <2>7 DEF Act, EndOverride, ResumeOrRestart, Stop, vars, history
    <2>8. QED
      BY <2>2, <2>3, <2>4, <2>5, <2>6, <2>7 DEF Next
  <1>3. SilenceInStep /\ TypeOK => SilenceIsNoticeable
    BY DEF SilenceInStep, Noticeable, SilenceIsNoticeable, TypeOK
  <1>4. QED
    BY <1>1, <1>2, <1>3, Inductive, TypeCorrect, PTL DEF Spec
=============================================================================
