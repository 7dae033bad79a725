---------------------------- MODULE StoryProofs ----------------------------
(***************************************************************************)
(* Theorems about StoryDependencies, for every set of stories and calls    *)
(* and any number of additions, completions and faults.                    *)
(***************************************************************************)
EXTENDS StoryDependencies, TLAPS

-----------------------------------------------------------------------------
(* Graphs without cycles *)

\* Taking edges away makes no cycle.
LEMMA FewerEdges ==
    ASSUME NEW g, NEW h, Graph!Acyclic(g), \A s \in Stories : h[s] \subseteq g[s]
    PROVE  Graph!Acyclic(h)
  BY DEF Graph!Acyclic

\* The search is right: an edge from s to d makes no cycle if d is in a set
\* that no edge leaves and that s is not in.
LEMMA SafeEdge ==
    ASSUME NEW g \in [Stories -> SUBSET Stories], Graph!Acyclic(g),
           NEW s \in Stories, NEW d \in Stories, NEW V \in SUBSET Stories,
           d \in V, s \notin V, \A v \in V : g[v] \subseteq V
    PROVE  Graph!Acyclic([g EXCEPT ![s] = g[s] \cup {d}])
  <1> DEFINE h == [g EXCEPT ![s] = g[s] \cup {d}]
  <1> SUFFICES ASSUME NEW T \in SUBSET Stories, T # {}
               PROVE  \E t \in T : h[t] \cap T = {}
    BY DEF Graph!Acyclic
  <1>1. CASE T \cap V # {}
    <2>1. PICK t \in T \cap V : g[t] \cap (T \cap V) = {}
      BY <1>1 DEF Graph!Acyclic
    <2>2. h[t] = g[t] /\ g[t] \subseteq V
      BY <2>1
    <2>3. QED
      BY <2>1, <2>2
  <1>2. CASE T \cap V = {}
    <2>1. PICK t \in T : g[t] \cap T = {}
      BY DEF Graph!Acyclic
    <2>2. h[t] \subseteq g[t] \cup {d} /\ d \notin T
      BY <1>2
    <2>3. QED
      BY <2>1, <2>2
  <1>3. QED
    BY <1>1, <1>2

-----------------------------------------------------------------------------
(* Types *)

\* The bounds are numbers, a request spends one of them.
LEMMA SpendTyped ==
    ASSUME NEW k \in Kind, spent \in [Kind -> Nat], Spend(k)
    PROVE  spent' \in [Kind -> Nat]
  BY DEF Spend

LEMMA InitTyped == Init => TypeOK
  BY StoriesAssumption
     DEF Init, TypeOK, Locals, Blank, PC, Kind, Adding

\* Examining a dependent keeps the locals in their types.
LEMMA ExamineTyped ==
    ASSUME TypeOK, NEW p \in Procs, NEW t \in Stories,
           NEW rest \in SUBSET Stories, Examine(p, t, rest), Completing(p)
    PROVE  /\ pc' \in [Procs -> PC] /\ my' \in [Procs -> Locals]
           /\ announced' \subseteq Stories
           /\ \A q \in Procs :
                /\ q # p => pc'[q] = pc[q] /\ my'[q] = my[q]
                /\ q = p => /\ my'[q].story = my[q].story
                            /\ pc'[q] \in {"pick", "status"}
                            /\ pc'[q] = "status" => my'[q].other \in Stories
  BY DEF TypeOK, Examine, Locals, PC, GoTo, Completing

\* A call that is over leaves the locals in their types.
LEMMA ReturnTyped ==
    ASSUME TypeOK, NEW p \in Procs, Return(p)
    PROVE  /\ pc' \in [Procs -> PC] /\ my' \in [Procs -> Locals]
           /\ \A q \in Procs : \/ pc'[q] = "idle"
                               \/ pc'[q] = pc[q] /\ my'[q] = my[q]
  BY StoriesAssumption DEF TypeOK, Return, Blank, Locals, PC, GoTo

LEMMA StepTyped == TypeOK /\ [Next]_vars => TypeOK'
  <1> SUFFICES ASSUME TypeOK, [Next]_vars
               PROVE  TypeOK'
    OBVIOUS
  <1> USE DEF TypeOK
  <1>1. CASE UNCHANGED vars
    BY <1>1 DEF vars, store, history, Adding
  <1>2. ASSUME NEW p \in Procs, Step(p)
        PROVE  TypeOK'
    <2>1. CASE LoadDependencies(p)
      BY <2>1 DEF LoadDependencies, store, history, Locals, PC, GoTo, Adding
    <2>2. CASE StoreDependencies(p)
      BY <2>2 DEF StoreDependencies, store, history, Locals, PC, GoTo, Adding
    <2>3. CASE LoadReverse(p)
      BY <2>3 DEF LoadReverse, store, history, Locals, PC, GoTo, Adding
    <2>4. CASE StoreReverse(p)
      BY <2>4, ReturnTyped DEF StoreReverse, history, Locals, Adding
    <2>5. CASE FindDependents(p)
      <3>1. /\ pc[p] = "find" /\ my[p].story \in Stories
            /\ UNCHANGED <<store, announced, history, spent>>
        BY <2>5 DEF FindDependents
      <3>2. CASE rdeps[my[p].story] = {}
        <4>1. my' = my /\ pc' = [pc EXCEPT ![p] = "scankeys"]
          BY <2>5, <3>2 DEF FindDependents, GoTo
        <4>2. QED
          BY <3>1, <4>1 DEF store, history, PC, Adding
      <3>3. CASE rdeps[my[p].story] # {}
        <4>1. /\ my' = [my EXCEPT ![p].todo = rdeps[my[p].story]]
              /\ pc' = [pc EXCEPT ![p] = "pick"]
          BY <2>5, <3>3 DEF FindDependents, GoTo
        <4>2. my' \in [Procs -> Locals]
          BY <3>1, <4>1 DEF Locals
        <4>3. QED
          BY <3>1, <4>1, <4>2 DEF store, history, PC, Adding, Locals
      <3>4. QED
        BY <3>2, <3>3
    <2>6. CASE ScanKeys(p)
      BY <2>6 DEF ScanKeys, store, history, Locals, PC, GoTo, Adding
    <2>7. CASE ScanEnds(p)
      <3>1. my' \in [Procs -> Locals]
        <4>1. my[p] \in Locals /\ my[p].list \in SUBSET Stories
          BY DEF Locals
        <4>2. [my[p] EXCEPT !.todo = my[p].list, !.list = {}] \in Locals
          BY <4>1 DEF Locals
        <4>3. my' = [my EXCEPT ![p] = [my[p] EXCEPT !.todo = my[p].list, !.list = {}]]
          BY <2>7 DEF ScanEnds
        <4>4. QED
          BY <4>2, <4>3
      <3>2. QED
        BY <2>7, <3>1 DEF ScanEnds, store, history, PC, GoTo, Adding, Locals
    <2>8. CASE FinishCompletion(p)
      BY <2>8, ReturnTyped DEF FinishCompletion, store, history, Adding
    <2>9. CASE Crash(p)
      BY <2>9, ReturnTyped, SpendTyped DEF Crash, store, history, Adding, Kind
    <2>10. CASE RedisFails(p)
      <3>1. spent' \in [Kind -> Nat] /\ UNCHANGED <<store, announced, history>>
        BY <2>10, SpendTyped DEF RedisFails, Kind
      <3>2. CASE pc[p] = "storerev"
        BY <2>10, <3>1, <3>2, ReturnTyped DEF RedisFails, store, history, Adding
      <3>3. CASE pc[p] # "storerev"
        <4>1. /\ pc' \in [Procs -> PC] /\ my' \in [Procs -> Locals]
              /\ \A q \in Procs \ {p} : pc'[q] = pc[q] /\ my'[q] = my[q]
              /\ pc[p] # "idle" /\ my'[p].story = my[p].story
              /\ pc'[p] \in {"store", "loadrev", "storerev"}
                    => Adding(p) /\ my'[p].other = my[p].other
              /\ pc'[p] \notin {"visit", "status"}
          BY <2>10, <3>3, StoriesAssumption DEF RedisFails, Locals, PC, GoTo, Adding
        <4>2. QED
          BY <3>1, <4>1 DEF store, history, Adding
      <3>4. QED
        BY <3>2, <3>3
    <2>11. QED
      BY <1>2, <2>1, <2>2, <2>3, <2>4, <2>5, <2>6, <2>7, <2>8, <2>9, <2>10 DEF Step
  <1>3. ASSUME NEW p \in Procs, NEW s \in Stories, StoryStep(p, s)
        PROVE  TypeOK'
    <2>1. CASE Visit(p, s)
      <3>1. CASE s = my[p].story
        BY <2>1, <3>1, ReturnTyped DEF Visit, store, history, Adding
      <3>2. CASE s # my[p].story
        <4>1. /\ pc' = pc /\ pc[p] = "visit"
              /\ UNCHANGED <<deps, rdeps, done, announced, owed, alone, apart, spent>>
              /\ my' = [my EXCEPT
                    ![p].todo = (@ \cup deps[s]) \ (my[p].list \cup {s}),
                    ![p].list = @ \cup {s}]
          BY <2>1, <3>2 DEF Visit, store, history
        <4>2. my' \in [Procs -> Locals]
          BY <4>1 DEF Locals
        <4>3. \A q \in Procs : my'[q].story = my[q].story /\ my'[q].other = my[q].other
          BY <4>1 DEF Locals
        <4>4. \A q \in Procs : pc[q] = "visit" => my'[q].story \notin my'[q].list
          BY <4>1, <3>2 DEF Locals
        <4>5. QED
          BY <4>1, <4>2, <4>3, <4>4 DEF Adding
      <3>3. QED
        BY <3>1, <3>2
    <2>2. CASE MarkComplete(p, s)
      <3>1. spent' \in [Kind -> Nat] /\ done' \subseteq Stories
            /\ owed' \subseteq Stories /\ announced' \subseteq Stories
            /\ apart' \in BOOLEAN
        BY <2>2, SpendTyped DEF MarkComplete, WaitingFor, Kind
      <3>2. QED
        BY <2>2, <3>1, StoriesAssumption
           DEF MarkComplete, Locals, PC, GoTo, Adding, Blank
    <2>3. CASE ScanKey(p, s)
      <3>1. my' \in [Procs -> Locals]
            /\ \A q \in Procs : my'[q].story = my[q].story /\ my'[q].other = my[q].other
        <4>1. my \in [Procs -> Locals] /\ my[p].list \subseteq Stories
          BY DEF Locals
        <4>2. PICK found \in SUBSET Stories :
                 my' = [my EXCEPT ![p].todo = @ \ {s}, ![p].list = found]
          <5>1. CASE my[p].story \in deps[s]
            BY <2>3, <4>1, <5>1 DEF ScanKey
          <5>2. CASE my[p].story \notin deps[s]
            BY <2>3, <4>1, <5>2 DEF ScanKey
          <5>3. QED
            BY <5>1, <5>2
        <4>3. QED
          BY <4>1, <4>2 DEF Locals
      <3>2. \A q \in Procs : pc[q] = "visit" => my'[q].list = my[q].list
        BY <2>3 DEF ScanKey
      <3>3. QED
        BY <2>3, <3>1, <3>2 DEF ScanKey, store, history, Adding
    <2>4. CASE PickDependent(p, s)
      <3>1. Examine(p, s, deps[s]) /\ Completing(p) /\ deps[s] \in SUBSET Stories
        BY <2>4 DEF PickDependent, Completing
      <3>2. QED
        BY <2>4, <3>1, ExamineTyped DEF PickDependent, store, history, Adding, Completing
    <2>5. CASE CheckStatus(p, s)
      <3>1. CASE s \in done
        <4>1. /\ Examine(p, my[p].other, my[p].list \ {s}) /\ Completing(p)
              /\ my[p].list \ {s} \in SUBSET Stories /\ my[p].other \in Stories
          BY <2>5, <3>1 DEF CheckStatus, Completing, Locals
        <4>2. QED
          BY <2>5, <4>1, ExamineTyped DEF CheckStatus, store, history, Adding, Completing
      <3>2. CASE s \notin done
        BY <2>5, <3>2 DEF CheckStatus, store, history, Locals, PC, GoTo, Adding
      <3>3. QED
        BY <3>1, <3>2
    <2>6. CASE RedisFailsAt(p, s)
      <3>1. /\ spent' \in [Kind -> Nat] /\ apart' \in BOOLEAN
            /\ UNCHANGED <<store, owed, alone>>
        BY <2>6, SpendTyped DEF RedisFailsAt, Kind, Examine
      <3>2. CASE pc[p] = "visit"
        <4>1. /\ pc' = pc /\ announced' = announced /\ s # my[p].story
              /\ my' = [my EXCEPT ![p].todo = @ \ {s}, ![p].list = @ \cup {s}]
          BY <2>6, <3>2 DEF RedisFailsAt
        <4>2. /\ my' \in [Procs -> Locals]
              /\ \A q \in Procs \ {p} : my'[q] = my[q]
              /\ my'[p].story = my[p].story /\ my'[p].other = my[p].other
              /\ my'[p].list = my[p].list \cup {s}
          BY <4>1 DEF Locals
        <4>3. QED
          BY <3>1, <3>2, <4>1, <4>2 DEF store, Adding
      <3>3. CASE pc[p] = "scan"
        <4>1. /\ pc' = pc /\ announced' = announced
              /\ my' = [my EXCEPT ![p].todo = @ \ {s}]
          BY <2>6, <3>3 DEF RedisFailsAt
        <4>2. /\ my' \in [Procs -> Locals]
              /\ \A q \in Procs \ {p} : my'[q] = my[q]
              /\ my'[p].story = my[p].story
          BY <4>1 DEF Locals
        <4>3. QED
          BY <3>1, <3>3, <4>1, <4>2 DEF store, Adding
      <3>4. CASE pc[p] = "pick"
        <4>1. Examine(p, s, {}) /\ Completing(p) /\ {} \in SUBSET Stories
          BY <2>6, <3>4 DEF RedisFailsAt, Completing
        <4>2. QED
          BY <3>1, <3>4, <4>1, ExamineTyped DEF store, Adding, Completing
      <3>5. CASE pc[p] = "idle"
        <4>1. /\ announced' = announced
              /\ my' = [my EXCEPT ![p] = [Blank EXCEPT !.story = s]]
              /\ pc' = [pc EXCEPT ![p] = "find"]
          BY <2>6, <3>5 DEF RedisFailsAt, GoTo
        <4>2. QED
          BY <3>1, <4>1, StoriesAssumption DEF store, Locals, PC, Adding, Blank
      <3>6. QED
        BY <2>6, <3>2, <3>3, <3>4, <3>5 DEF RedisFailsAt
    <2>7. QED
      BY <1>3, <2>1, <2>2, <2>3, <2>4, <2>5, <2>6 DEF StoryStep
  <1>4. ASSUME NEW p \in Procs, NEW s \in Stories, NEW d \in Stories,
               AddDependency(p, s, d)
        PROVE  TypeOK'
    <2>1. spent' \in [Kind -> Nat] /\ alone' \in BOOLEAN /\ apart' \in BOOLEAN
      BY <1>4, SpendTyped DEF AddDependency, Kind
    <2>2. QED
      BY <1>4, <2>1, StoriesAssumption
         DEF AddDependency, store, Locals, PC, GoTo, Adding, Blank
  <1>5. ASSUME NEW s \in Stories, KeyExpires(s)
        PROVE  TypeOK'
    <2>1. spent' \in [Kind -> Nat]
      BY <1>5, SpendTyped DEF KeyExpires, Kind
    <2>2. QED
      BY <1>5, <2>1 DEF KeyExpires, history, Adding
  <1>6. QED
    BY <1>1, <1>2, <1>3, <1>4, <1>5 DEF Next

-----------------------------------------------------------------------------
(* The history variables only fall *)

\* A step spends what it spends: nothing is given back.
LEMMA SpendCounts ==
    ASSUME TypeOK, NEW k \in Kind, Spend(k)
    PROVE  /\ NoFault' => NoFault
           /\ Answered' => Answered
           /\ k \in {"fault", "outage"} => ~NoFault'
           /\ k = "outage" => ~Answered'
  BY DEF TypeOK, Spend, NoFault, Answered, Kind

Premises == /\ alone' => alone
            /\ apart' => apart
            /\ NoFault' => NoFault
            /\ Answered' => Answered

\* What broke the premises stays broken.
LEMMA HistoryFalls ==
    ASSUME TypeOK, [Next]_vars
    PROVE  Premises
  <1> USE DEF Premises
  <1>1. ASSUME UNCHANGED <<alone, apart, spent>>
        PROVE  Premises
    BY <1>1 DEF NoFault, Answered
  <1>2. CASE UNCHANGED vars
    BY <1>1, <1>2 DEF vars, history
  <1>3. ASSUME NEW p \in Procs, Step(p)
        PROVE  Premises
    <2>1. CASE Crash(p)
      BY <2>1, SpendCounts DEF Crash, history, Kind
    <2>2. CASE RedisFails(p)
      BY <2>2, SpendCounts DEF RedisFails, history, Kind
    <2>3. CASE \/ LoadDependencies(p) \/ StoreDependencies(p) \/ LoadReverse(p)
               \/ StoreReverse(p) \/ FindDependents(p) \/ ScanKeys(p)
               \/ ScanEnds(p) \/ FinishCompletion(p)
      BY <1>1, <2>3
         DEF LoadDependencies, StoreDependencies, LoadReverse, StoreReverse,
             FindDependents, ScanKeys, ScanEnds, FinishCompletion, history
    <2>4. QED
      BY <1>3, <2>1, <2>2, <2>3 DEF Step
  <1>4. ASSUME NEW p \in Procs, NEW s \in Stories, StoryStep(p, s)
        PROVE  Premises
    <2>1. CASE MarkComplete(p, s)
      <3>1. UNCHANGED alone /\ (apart' => apart) /\ Spend("complete")
        BY <2>1 DEF MarkComplete
      <3>2. QED
        BY <3>1, SpendCounts DEF Kind
    <2>2. CASE RedisFailsAt(p, s)
      <3>1. UNCHANGED alone /\ Spend("outage")
        BY <2>2 DEF RedisFailsAt
      <3>2. \/ apart' = apart
            \/ apart' = (apart /\ \A q \in Procs : ~Adding(q))
        BY <2>2 DEF RedisFailsAt
      <3>3. apart' => apart
        BY <3>2, Zenon
      <3>4. QED
        BY <3>1, <3>3, SpendCounts DEF Kind
    <2>3. CASE Visit(p, s) \/ ScanKey(p, s) \/ PickDependent(p, s) \/ CheckStatus(p, s)
      BY <1>1, <2>3 DEF Visit, ScanKey, PickDependent, CheckStatus, history
    <2>4. QED
      BY <1>4, <2>1, <2>2, <2>3 DEF StoryStep
  <1>5. ASSUME NEW p \in Procs, NEW s \in Stories, NEW d \in Stories,
               AddDependency(p, s, d)
        PROVE  Premises
    <2>1. (alone' => alone) /\ (apart' => apart) /\ Spend("add")
      BY <1>5 DEF AddDependency
    <2>2. QED
      BY <2>1, SpendCounts DEF Kind
  <1>6. ASSUME NEW s \in Stories, KeyExpires(s)
        PROVE  Premises
    BY <1>6, SpendCounts DEF KeyExpires, history, Kind
  <1>7. QED
    BY <1>2, <1>3, <1>4, <1>5, <1>6 DEF Next

-----------------------------------------------------------------------------
(* No cycles *)

SearchInvariant == OneAdder /\ NoCycle /\ SearchIsSound

\* A step that adds no edge and neither starts nor moves a search.
LEMMA QuietForSearch ==
    ASSUME TypeOK, TypeOK', SearchInvariant,
           \A s \in Stories : deps'[s] \subseteq deps[s],
           \A q \in Procs : Adding(q)' => Adding(q),
           \A q \in Procs : pc'[q] \in {"visit", "store"}
                               => pc'[q] = pc[q] /\ my'[q] = my[q]
    PROVE  SearchInvariant'
  <1>1. OneAdder'
    BY DEF SearchInvariant, OneAdder
  <1>2. NoCycle'
    BY FewerEdges DEF SearchInvariant, NoCycle
  <1>3. ASSUME NEW p \in Procs, pc'[p] = "visit"
        PROVE  /\ my'[p].other \in my'[p].list \cup my'[p].todo
               /\ \A v \in my'[p].list : deps'[v] \subseteq my'[p].list \cup my'[p].todo
    <2>1. pc[p] = "visit" /\ my'[p] = my[p] /\ my[p].list \subseteq Stories
      BY <1>3 DEF TypeOK, Locals
    <2>2. QED
      BY <2>1 DEF SearchInvariant, SearchIsSound
  <1>4. ASSUME NEW p \in Procs, pc'[p] = "store"
        PROVE  Graph!Acyclic([deps' EXCEPT ![my'[p].story] = my'[p].list \cup {my'[p].other}])
    <2> DEFINE before == [deps EXCEPT ![my[p].story] = my[p].list \cup {my[p].other}]
               after == [deps' EXCEPT ![my[p].story] = my[p].list \cup {my[p].other}]
    <2>1. pc[p] = "store" /\ my'[p] = my[p]
      BY <1>4
    <2>2. Graph!Acyclic(before)
      BY <2>1 DEF SearchInvariant, SearchIsSound
    <2>3. \A s \in Stories : after[s] \subseteq before[s]
      BY DEF TypeOK
    <2>4. Graph!Acyclic(after)
      BY <2>2, <2>3, FewerEdges
    <2>5. QED
      BY <2>1, <2>4
  <1>5. QED
    BY <1>1, <1>2, <1>3, <1>4 DEF SearchInvariant, SearchIsSound

\* The steps of a search and of what follows it.
LEMMA SearchPreserved ==
    ASSUME TypeOK, TypeOK', [Next]_vars, alone', Answered', SearchInvariant
    PROVE  SearchInvariant'
  <1>1. CASE UNCHANGED vars
    BY <1>1, QuietForSearch DEF vars, store, Adding
  <1>2. ASSUME NEW p \in Procs, Step(p)
        PROVE  SearchInvariant'
    <2>1. CASE LoadDependencies(p)
      <3> DEFINE V == my[p].list
                 s == my[p].story
                 d == my[p].other
      <3>1. /\ pc[p] = "visit" /\ my[p].todo = {} /\ deps' = deps
            /\ my' = [my EXCEPT ![p].list = deps[s]]
            /\ pc' = [pc EXCEPT ![p] = "store"]
        BY <2>1 DEF LoadDependencies, store, GoTo
      <3>2. /\ s \in Stories /\ d \in Stories /\ V \in SUBSET Stories
            /\ d \in V /\ s \notin V /\ \A v \in V : deps[v] \subseteq V
        BY <3>1 DEF TypeOK, Locals, Adding, SearchInvariant, SearchIsSound
      <3>3. Graph!Acyclic([deps EXCEPT ![s] = deps[s] \cup {d}])
        BY <3>2, SafeEdge DEF TypeOK, SearchInvariant, NoCycle
      <3>4. my'[p].story = s /\ my'[p].other = d /\ my'[p].list = deps[s]
        BY <3>1 DEF TypeOK, Locals
      <3>5. \A q \in Procs \ {p} : pc'[q] = pc[q] /\ my'[q] = my[q] /\ ~Adding(q)
        BY <3>1 DEF TypeOK, SearchInvariant, OneAdder, Adding
      <3>6. pc'[p] = "store"
        BY <3>1 DEF TypeOK
      <3>7. OneAdder' /\ NoCycle'
        BY <3>1, <3>5, <3>6 DEF SearchInvariant, OneAdder, NoCycle, Adding
      <3>8. SearchIsSound'
        BY <3>1, <3>3, <3>4, <3>5, <3>6 DEF SearchIsSound, Adding
      <3>9. QED
        BY <3>7, <3>8 DEF SearchInvariant
    <2>2. CASE StoreDependencies(p)
      <3>1. /\ pc[p] = "store" /\ my' = my
            /\ deps' = [deps EXCEPT ![my[p].story] = my[p].list \cup {my[p].other}]
            /\ pc' = [pc EXCEPT ![p] = "loadrev"]
        BY <2>2 DEF StoreDependencies, GoTo
      <3>2. NoCycle'
        BY <3>1 DEF NoCycle, SearchInvariant, SearchIsSound
      <3>3. \A q \in Procs \ {p} : pc'[q] = pc[q] /\ ~Adding(q)
        BY <3>1 DEF TypeOK, SearchInvariant, OneAdder, Adding
      <3>4. pc'[p] = "loadrev"
        BY <3>1 DEF TypeOK
      <3>5. OneAdder' /\ SearchIsSound'
        BY <3>3, <3>4 DEF OneAdder, SearchIsSound, Adding
      <3>6. QED
        BY <3>2, <3>5 DEF SearchInvariant
    <2>3. CASE \/ LoadReverse(p) \/ StoreReverse(p) \/ FindDependents(p)
               \/ ScanKeys(p) \/ ScanEnds(p) \/ FinishCompletion(p) \/ Crash(p)
      <3>1. deps' = deps
        BY <2>3 DEF LoadReverse, StoreReverse, FindDependents, ScanKeys, ScanEnds,
                    FinishCompletion, Crash, store
      <3>2. \A q \in Procs \ {p} : pc'[q] = pc[q] /\ my'[q] = my[q]
        BY <2>3 DEF TypeOK, LoadReverse, StoreReverse, FindDependents, ScanKeys,
                    ScanEnds, FinishCompletion, Crash, Return, GoTo
      <3>3. \/ pc'[p] \in {"idle", "scankeys", "scan", "pick"}
            \/ pc[p] = "loadrev" /\ pc'[p] = "storerev"
        BY <2>3 DEF TypeOK, LoadReverse, StoreReverse, FindDependents, ScanKeys,
                    ScanEnds, FinishCompletion, Crash, Return, GoTo
      <3>4. QED
        BY <3>1, <3>2, <3>3, QuietForSearch DEF Adding
    <2>4. CASE RedisFails(p)
      BY <2>4, SpendCounts DEF RedisFails, Kind
    <2>5. QED
      BY <1>2, <2>1, <2>2, <2>3, <2>4 DEF Step
  <1>3. ASSUME NEW p \in Procs, NEW t \in Stories, StoryStep(p, t)
        PROVE  SearchInvariant'
    <2>1. CASE Visit(p, t) /\ t # my[p].story
      <3>1. /\ pc[p] = "visit" /\ t \in my[p].todo /\ deps' = deps /\ pc' = pc
            /\ my' = [my EXCEPT
                  ![p].todo = (@ \cup deps[t]) \ (my[p].list \cup {t}),
                  ![p].list = @ \cup {t}]
        BY <2>1 DEF Visit, store
      <3>2. /\ my'[p].todo = (my[p].todo \cup deps[t]) \ (my[p].list \cup {t})
            /\ my'[p].list = my[p].list \cup {t}
            /\ my'[p].other = my[p].other
            /\ \A q \in Procs \ {p} : my'[q] = my[q] /\ ~Adding(q)
        BY <3>1 DEF TypeOK, Locals, SearchInvariant, OneAdder, Adding
      <3>3. /\ my[p].other \in my[p].list \cup my[p].todo
            /\ \A v \in my[p].list : deps[v] \subseteq my[p].list \cup my[p].todo
        BY <3>1 DEF SearchInvariant, SearchIsSound
      <3>4. /\ my'[p].other \in my'[p].list \cup my'[p].todo
            /\ \A v \in my'[p].list : deps[v] \subseteq my'[p].list \cup my'[p].todo
        BY <3>1, <3>2, <3>3
      <3>5. SearchIsSound'
        BY <3>1, <3>2, <3>4 DEF SearchIsSound, Adding
      <3>6. QED
        BY <3>1, <3>5 DEF SearchInvariant, OneAdder, NoCycle, Adding
    <2>2. CASE \/ (Visit(p, t) /\ t = my[p].story) \/ MarkComplete(p, t)
               \/ ScanKey(p, t) \/ PickDependent(p, t) \/ CheckStatus(p, t)
      <3>1. deps' = deps
        BY <2>2 DEF Visit, MarkComplete, ScanKey, PickDependent, CheckStatus, store
      <3>2. \A q \in Procs \ {p} : pc'[q] = pc[q] /\ my'[q] = my[q]
        BY <2>2 DEF TypeOK, Visit, MarkComplete, ScanKey, PickDependent,
                    CheckStatus, Examine, Return, GoTo
      <3>3. pc'[p] \in {"idle", "find", "scan", "pick", "status"}
        BY <2>2 DEF TypeOK, Visit, MarkComplete, ScanKey, PickDependent,
                    CheckStatus, Examine, Return, GoTo
      <3>4. QED
        BY <3>1, <3>2, <3>3, QuietForSearch DEF Adding
    <2>3. CASE RedisFailsAt(p, t)
      BY <2>3, SpendCounts DEF RedisFailsAt, Kind
    <2>4. QED
      BY <1>3, <2>1, <2>2, <2>3 DEF StoryStep
  <1>4. ASSUME NEW p \in Procs, NEW s \in Stories, NEW d \in Stories,
               AddDependency(p, s, d)
        PROVE  SearchInvariant'
    <2>1. /\ \A q \in Procs : ~Adding(q)
          /\ deps' = deps /\ pc' = [pc EXCEPT ![p] = "visit"]
          /\ my' = [my EXCEPT ![p] = [Blank EXCEPT !.story = s, !.other = d,
                                                   !.todo = {d}]]
      BY <1>4 DEF AddDependency, store, GoTo
    <2>2. /\ pc'[p] = "visit" /\ my'[p].other = d /\ my'[p].todo = {d}
          /\ my'[p].list = {}
          /\ \A q \in Procs \ {p} : pc'[q] = pc[q]
      BY <2>1 DEF TypeOK, Blank
    <2>3. OneAdder' /\ NoCycle' /\ SearchIsSound'
      BY <2>1, <2>2 DEF SearchInvariant, OneAdder, NoCycle, SearchIsSound, Adding
    <2>4. QED
      BY <2>3 DEF SearchInvariant
  <1>5. ASSUME NEW s \in Stories, KeyExpires(s)
        PROVE  SearchInvariant'
    <2>1. \A t \in Stories : deps'[t] \subseteq deps[t]
      BY <1>5 DEF TypeOK, KeyExpires
    <2>2. pc' = pc /\ my' = my
      BY <1>5 DEF KeyExpires
    <2>3. QED
      BY <2>1, <2>2, QuietForSearch DEF Adding
  <1>6. QED
    BY <1>1, <1>2, <1>3, <1>4, <1>5 DEF Next

-----------------------------------------------------------------------------
(* The reverse index *)

\* A step that leaves the keys alone and moves nobody who indexes.
LEMMA QuietForIndex ==
    ASSUME TypeOK, TypeOK', IndexInStep, deps' = deps, rdeps' = rdeps,
           \A q \in Procs : pc'[q] \in {"store", "loadrev", "storerev"}
                               => pc'[q] = pc[q] /\ my'[q] = my[q],
           \A q \in Procs : Indexing(q) => Indexing(q)'
    PROVE  IndexInStep'
  <1>1. \A q \in Procs : pc'[q] = "store" => my'[q].list = deps'[my'[q].story]
    BY DEF IndexInStep
  <1>2. \A q \in Procs : pc'[q] = "storerev" => my'[q].list = rdeps'[my'[q].other]
    BY DEF IndexInStep
  <1>3. \A q \in Procs : /\ Indexing(q)' <=> Indexing(q)
                         /\ Indexing(q) => my'[q] = my[q]
    BY DEF Indexing
  <1>4. QED
    BY <1>1, <1>2, <1>3 DEF IndexInStep

\* The steps of an addition that nobody disturbs.
LEMMA IndexPreserved ==
    ASSUME TypeOK, TypeOK', [Next]_vars, NoFault', OneAdder, IndexInStep
    PROVE  IndexInStep'
  <1>1. CASE UNCHANGED vars
    BY <1>1, QuietForIndex DEF vars, store, Indexing
  <1>2. ASSUME NEW p \in Procs, Step(p)
        PROVE  IndexInStep'
    <2> DEFINE s == my[p].story
               d == my[p].other
    <2>1. ASSUME Adding(p)
          PROVE  /\ s \in Stories /\ d \in Stories
                 /\ \A q \in Procs \ {p} : pc[q] \notin {"store", "loadrev", "storerev"}
      BY <2>1 DEF TypeOK, OneAdder, Adding
    <2>2. CASE LoadDependencies(p)
      <3>1. /\ pc[p] = "visit" /\ deps' = deps /\ rdeps' = rdeps
            /\ my'[p].list = deps[s] /\ my'[p].story = s
            /\ pc'[p] = "store" /\ \A q \in Procs \ {p} : pc'[q] = pc[q]
        BY <2>2 DEF TypeOK, Locals, LoadDependencies, store, GoTo
      <3>2. \A q \in Procs : ~Indexing(q) /\ ~Indexing(q)'
        BY <2>1, <3>1 DEF Adding, Indexing
      <3>3. QED
        BY <2>1, <3>1, <3>2 DEF IndexInStep, Adding
    <2>3. CASE StoreDependencies(p)
      <3>1. /\ pc[p] = "store" /\ rdeps' = rdeps /\ my' = my
            /\ deps' = [deps EXCEPT ![s] = my[p].list \cup {d}]
            /\ pc'[p] = "loadrev" /\ \A q \in Procs \ {p} : pc'[q] = pc[q]
        BY <2>3 DEF TypeOK, StoreDependencies, GoTo
      <3>2. \A q \in Procs : ~Indexing(q) /\ (Indexing(q)' <=> q = p)
        BY <2>1, <3>1 DEF Adding, Indexing
      <3>3. \A u, v \in Stories : v \in deps[u] <=> u \in rdeps[v]
        BY <3>2 DEF IndexInStep
      <3>4. my[p].list = deps[s]
        BY <3>1 DEF IndexInStep
      <3>5. \A u, v \in Stories :
               v \in deps'[u] <=> u \in rdeps[v] \/ (u = s /\ v = d)
        BY <2>1, <3>1, <3>3, <3>4 DEF TypeOK, Adding
      <3>6. QED
        BY <2>1, <3>1, <3>2, <3>5 DEF IndexInStep, Adding
    <2>4. CASE LoadReverse(p)
      <3>1. /\ pc[p] = "loadrev" /\ deps' = deps /\ rdeps' = rdeps
            /\ my'[p].list = rdeps[d] /\ my'[p].story = s /\ my'[p].other = d
            /\ \A q \in Procs \ {p} : my'[q] = my[q]
            /\ pc'[p] = "storerev" /\ \A q \in Procs \ {p} : pc'[q] = pc[q]
        BY <2>4 DEF TypeOK, Locals, LoadReverse, store, GoTo
      <3>2. \A q \in Procs : /\ Indexing(q)' <=> Indexing(q)
                             /\ my'[q].story = my[q].story
                             /\ my'[q].other = my[q].other
        BY <3>1 DEF Indexing
      <3>3. QED
        BY <2>1, <3>1, <3>2 DEF IndexInStep, Adding
    <2>5. CASE StoreReverse(p)
      <3>1. /\ pc[p] = "storerev" /\ deps' = deps
            /\ rdeps' = [rdeps EXCEPT ![d] = my[p].list \cup {s}]
            /\ pc'[p] = "idle" /\ \A q \in Procs \ {p} : pc'[q] = pc[q]
        BY <2>5 DEF TypeOK, StoreReverse, Return, GoTo
      <3>2. \A q \in Procs : ~Indexing(q)' /\ (Indexing(q) <=> q = p)
        BY <2>1, <3>1 DEF Adding, Indexing
      <3>3. \A u, v \in Stories :
               v \in deps[u] <=> u \in rdeps[v] \/ (u = s /\ v = d)
        BY <3>2 DEF IndexInStep
      <3>4. my[p].list = rdeps[d]
        BY <3>1 DEF IndexInStep
      <3>5. \A u, v \in Stories : v \in deps[u] <=> u \in rdeps'[v]
        BY <2>1, <3>1, <3>3, <3>4 DEF TypeOK, Adding
      <3>6. QED
        BY <2>1, <3>1, <3>2, <3>5 DEF IndexInStep, Adding
    <2>6. CASE FindDependents(p) \/ ScanKeys(p) \/ ScanEnds(p) \/ FinishCompletion(p)
      <3>1. /\ deps' = deps /\ rdeps' = rdeps /\ ~Indexing(p)
            /\ pc'[p] \in {"idle", "scankeys", "scan", "pick"}
            /\ \A q \in Procs \ {p} : pc'[q] = pc[q] /\ my'[q] = my[q]
        BY <2>6 DEF TypeOK, FindDependents, ScanKeys, ScanEnds, FinishCompletion,
                    Return, GoTo, store, Indexing
      <3>2. QED
        BY <3>1, QuietForIndex DEF Indexing
    <2>7. CASE Crash(p) \/ RedisFails(p)
      BY <2>7, SpendCounts DEF Crash, RedisFails, Kind
    <2>8. QED
      BY <1>2, <2>2, <2>3, <2>4, <2>5, <2>6, <2>7 DEF Step
  <1>3. ASSUME NEW p \in Procs, NEW t \in Stories, StoryStep(p, t)
        PROVE  IndexInStep'
    <2>1. CASE \/ Visit(p, t) \/ MarkComplete(p, t) \/ ScanKey(p, t)
               \/ PickDependent(p, t) \/ CheckStatus(p, t)
      <3>1. /\ deps' = deps /\ rdeps' = rdeps /\ ~Indexing(p)
        BY <2>1 DEF Visit, MarkComplete, ScanKey, PickDependent, CheckStatus,
                    store, Indexing
      <3>2. /\ pc'[p] \in {"idle", "visit", "find", "scan", "pick", "status"}
            /\ \A q \in Procs \ {p} : pc'[q] = pc[q] /\ my'[q] = my[q]
        BY <2>1 DEF TypeOK, Visit, MarkComplete, ScanKey, PickDependent,
                    CheckStatus, Examine, Return, GoTo
      <3>3. QED
        BY <3>1, <3>2, QuietForIndex DEF Indexing
    <2>2. CASE RedisFailsAt(p, t)
      BY <2>2, SpendCounts DEF RedisFailsAt, Kind
    <2>3. QED
      BY <1>3, <2>1, <2>2 DEF StoryStep
  <1>4. ASSUME NEW p \in Procs, NEW s \in Stories, NEW d \in Stories,
               AddDependency(p, s, d)
        PROVE  IndexInStep'
    <2>1. /\ deps' = deps /\ rdeps' = rdeps /\ ~Indexing(p) /\ pc'[p] = "visit"
          /\ \A q \in Procs \ {p} : pc'[q] = pc[q] /\ my'[q] = my[q]
      BY <1>4 DEF TypeOK, AddDependency, GoTo, store, Indexing
    <2>2. QED
      BY <2>1, QuietForIndex DEF Indexing
  <1>5. ASSUME NEW s \in Stories, KeyExpires(s)
        PROVE  IndexInStep'
    BY <1>5, SpendCounts DEF KeyExpires, Kind
  <1>6. QED
    BY <1>1, <1>2, <1>3, <1>4, <1>5 DEF Next

-----------------------------------------------------------------------------
(* Announcements *)

AnnounceInvariant == NoOverlap /\ OwedIsPending /\ StatusIsSound

\* A step while nothing completes: all that is owed has been announced.
LEMMA QuietForAnnouncements ==
    ASSUME AnnounceInvariant, owed' = owed, announced' = announced,
           \A q \in Procs : ~Completing(q) /\ ~Completing(q)'
    PROVE  AnnounceInvariant'
  <1>1. owed \subseteq announced
    BY DEF AnnounceInvariant, OwedIsPending, Pending, Completing
  <1>2. QED
    BY <1>1 DEF AnnounceInvariant, NoOverlap, OwedIsPending, StatusIsSound, Completing

\* A step of one completion that drops no dependent it has yet to ask about.
LEMMA OneCompletes ==
    ASSUME TypeOK, AnnounceInvariant, NEW p \in Procs, Completing(p),
           deps' = deps, done' = done, owed' = owed, announced \subseteq announced',
           \A q \in Procs \ {p} : pc'[q] = pc[q] /\ my'[q] = my[q],
           ~Adding(p)',
           \A t \in owed \ announced' : Pending(p, t) => Pending(p, t)',
           pc'[p] = "status"
               => /\ my'[p].list \subseteq deps[my'[p].other]
                  /\ deps[my'[p].other] \ my'[p].list \subseteq done
    PROVE  AnnounceInvariant'
  <1>1. NoOverlap'
    BY DEF AnnounceInvariant, NoOverlap, Adding
  <1>2. StatusIsSound'
    BY DEF AnnounceInvariant, StatusIsSound
  <1>3. ASSUME NEW t \in owed' \ announced'
        PROVE  deps'[t] \subseteq done' /\ \E q \in Procs : Pending(q, t)'
    <2>1. PICK q \in Procs : Pending(q, t)
      BY <1>3 DEF AnnounceInvariant, OwedIsPending
    <2>2. q # p => Pending(q, t)'
      BY <2>1 DEF Pending
    <2>3. Pending(q, t)'
      BY <1>3, <2>1, <2>2
    <2>4. QED
      BY <1>3, <2>3 DEF AnnounceInvariant, OwedIsPending
  <1>4. QED
    BY <1>1, <1>2, <1>3 DEF AnnounceInvariant, OwedIsPending

\* A call to Redis that fails, a crash and an expired key are faults.
LEMMA FaultsAreCounted ==
    ASSUME TypeOK, NoFault'
    PROVE  /\ \A p \in Procs : ~Crash(p) /\ ~RedisFails(p)
           /\ \A p \in Procs, t \in Stories : ~RedisFailsAt(p, t)
           /\ \A s \in Stories : ~KeyExpires(s)
  BY SpendCounts DEF Crash, RedisFails, RedisFailsAt, KeyExpires, Kind

LEMMA AnnouncePreserved ==
    ASSUME TypeOK, TypeOK', [Next]_vars, apart', NoFault', IndexInStep,
           AnnounceInvariant
    PROVE  AnnounceInvariant'
  <1>1. CASE UNCHANGED vars
    BY <1>1 DEF vars, store, history, AnnounceInvariant, NoOverlap, OwedIsPending,
                StatusIsSound, Pending, Adding, Completing
  <1>2. ASSUME NEW p \in Procs, Step(p)
        PROVE  AnnounceInvariant'
    <2>1. CASE LoadDependencies(p) \/ StoreDependencies(p) \/ LoadReverse(p) \/ StoreReverse(p)
      <3>1. /\ Adding(p) /\ owed' = owed /\ announced' = announced
            /\ pc'[p] \in {"store", "loadrev", "storerev", "idle"}
            /\ \A q \in Procs \ {p} : pc'[q] = pc[q]
        BY <2>1 DEF TypeOK, LoadDependencies, StoreDependencies, LoadReverse,
                    StoreReverse, Return, GoTo, history, Adding
      <3>2. QED
        BY <3>1, QuietForAnnouncements DEF AnnounceInvariant, NoOverlap, Completing
    <2>2. CASE FindDependents(p)
      <3>1. /\ pc[p] = "find" /\ deps' = deps /\ done' = done /\ owed' = owed
            /\ announced' = announced
            /\ \A q \in Procs \ {p} : pc'[q] = pc[q] /\ my'[q] = my[q]
        BY <2>2 DEF TypeOK, FindDependents, store, history, GoTo
      <3>2. \A t \in Stories : my[p].story \in deps[t] => t \in rdeps[my[p].story]
        BY <3>1 DEF TypeOK, AnnounceInvariant, NoOverlap, IndexInStep, Indexing,
                    Adding, Completing
      <3>3. \/ pc'[p] = "pick" /\ my'[p].todo = rdeps[my[p].story]
            \/ pc'[p] = "scankeys" /\ my' = my
        BY <2>2 DEF TypeOK, Locals, FindDependents, GoTo
      <3>4. \A t \in owed : Pending(p, t) => Pending(p, t)'
        BY <3>1, <3>2, <3>3 DEF TypeOK, Pending
      <3>5. QED
        BY <3>1, <3>3, <3>4, OneCompletes DEF Adding, Completing
    <2>3. CASE ScanKeys(p) \/ ScanEnds(p) \/ FinishCompletion(p)
      <3>1. /\ deps' = deps /\ done' = done /\ owed' = owed /\ announced' = announced
            /\ \A q \in Procs \ {p} : pc'[q] = pc[q] /\ my'[q] = my[q]
        BY <2>3 DEF TypeOK, ScanKeys, ScanEnds, FinishCompletion, Return, store,
                    history, GoTo
      <3>2. \/ /\ pc[p] = "scankeys" /\ pc'[p] = "scan" /\ my'[p].story = my[p].story
               /\ my'[p].todo = {t \in Stories : deps[t] # {}}
            \/ /\ pc[p] = "scan" /\ pc'[p] = "pick"
               /\ my[p].todo = {} /\ my'[p].todo = my[p].list
            \/ pc[p] = "pick" /\ pc'[p] = "idle" /\ my[p].todo = {}
        BY <2>3 DEF TypeOK, Locals, ScanKeys, ScanEnds, FinishCompletion, Return, GoTo
      <3>3. \A t \in owed : Pending(p, t) => Pending(p, t)'
        BY <3>1, <3>2 DEF TypeOK, Pending
      <3>4. QED
        BY <3>1, <3>2, <3>3, OneCompletes DEF Adding, Completing
    <2>4. QED
      BY <1>2, <2>1, <2>2, <2>3, FaultsAreCounted DEF Step
  <1>3. ASSUME NEW p \in Procs, NEW s \in Stories, StoryStep(p, s)
        PROVE  AnnounceInvariant'
    <2>1. CASE Visit(p, s)
      <3>1. /\ Adding(p) /\ owed' = owed /\ announced' = announced
            /\ pc'[p] \in {"visit", "idle"}
            /\ \A q \in Procs \ {p} : pc'[q] = pc[q]
        BY <2>1 DEF TypeOK, Visit, Return, GoTo, history, Adding
      <3>2. QED
        BY <3>1, QuietForAnnouncements DEF AnnounceInvariant, NoOverlap, Completing
    <2>2. CASE MarkComplete(p, s)
      <3>1. /\ pc[p] = "idle" /\ pc'[p] = "find" /\ my'[p].story = s
            /\ deps' = deps /\ done' = done \cup {s}
            /\ owed' = owed \cup WaitingFor(s)
            /\ announced' = announced \ WaitingFor(s)
            /\ \A q \in Procs \ {p} : pc'[q] = pc[q] /\ my'[q] = my[q]
        BY <2>2 DEF TypeOK, MarkComplete, Blank, GoTo
      <3>2. \A q \in Procs : ~Adding(q)
        BY <2>2 DEF MarkComplete
      <3>3. NoOverlap' /\ StatusIsSound'
        BY <3>1, <3>2 DEF AnnounceInvariant, NoOverlap, StatusIsSound, Adding
      <3>4. ASSUME NEW t \in owed' \ announced'
            PROVE  deps'[t] \subseteq done' /\ \E q \in Procs : Pending(q, t)'
        <4>1. CASE t \in WaitingFor(s)
          BY <3>1, <4>1 DEF WaitingFor, Pending
        <4>2. CASE t \notin WaitingFor(s)
          <5>1. t \in owed \ announced
            BY <3>1, <3>4, <4>2
          <5>2. PICK q \in Procs : Pending(q, t)
            BY <5>1 DEF AnnounceInvariant, OwedIsPending
          <5>3. q # p
            BY <3>1, <5>2 DEF Pending
          <5>4. Pending(q, t)'
            BY <3>1, <5>2, <5>3 DEF Pending
          <5>5. QED
            BY <3>1, <5>1, <5>4 DEF AnnounceInvariant, OwedIsPending
        <4>3. QED
          BY <4>1, <4>2
      <3>5. QED
        BY <3>3, <3>4 DEF AnnounceInvariant, OwedIsPending
    <2>3. CASE ScanKey(p, s)
      <3>1. /\ pc[p] = "scan" /\ pc' = pc
            /\ deps' = deps /\ done' = done /\ owed' = owed /\ announced' = announced
            /\ \A q \in Procs \ {p} : my'[q] = my[q]
        BY <2>3 DEF TypeOK, ScanKey, store, history
      <3>2. /\ my'[p].story = my[p].story /\ my'[p].todo = my[p].todo \ {s}
            /\ my'[p].list = IF my[p].story \in deps[s] THEN my[p].list \cup {s}
                                                        ELSE my[p].list
        BY <2>3 DEF TypeOK, Locals, ScanKey
      <3>3. \A t \in owed : Pending(p, t) => Pending(p, t)'
        BY <3>1, <3>2 DEF Pending
      <3>4. QED
        BY <3>1, <3>3, OneCompletes DEF Adding, Completing
    <2>4. CASE PickDependent(p, s)
      <3>1. /\ pc[p] = "pick" /\ s \in my[p].todo /\ Examine(p, s, deps[s])
            /\ deps' = deps /\ done' = done /\ owed' = owed
        BY <2>4 DEF PickDependent, store, history
      <3>2. /\ announced \subseteq announced' /\ pc'[p] \in {"pick", "status"}
            /\ my'[p].todo = my[p].todo \ {s}
            /\ pc'[p] = "pick" => s \in announced'
            /\ pc'[p] = "status" => my'[p].other = s /\ my'[p].list = deps[s]
            /\ \A q \in Procs \ {p} : pc'[q] = pc[q] /\ my'[q] = my[q]
        BY <3>1 DEF TypeOK, Locals, Examine, GoTo
      <3>3. \A t \in owed \ announced' : Pending(p, t) => Pending(p, t)'
        BY <3>1, <3>2 DEF Pending
      <3>4. QED
        BY <3>1, <3>2, <3>3, OneCompletes DEF Adding, Completing
    <2>5. CASE CheckStatus(p, s)
      <3> DEFINE t0 == my[p].other
      <3>1. /\ pc[p] = "status" /\ s \in my[p].list
            /\ deps' = deps /\ done' = done /\ owed' = owed
        BY <2>5 DEF CheckStatus, store, history
      <3>2. /\ my[p].list \subseteq deps[t0] /\ deps[t0] \ my[p].list \subseteq done
        BY <3>1 DEF AnnounceInvariant, StatusIsSound
      <3>3. CASE s \in done
        <4>1. Examine(p, t0, my[p].list \ {s})
          BY <2>5, <3>3 DEF CheckStatus
        <4>2. /\ announced \subseteq announced' /\ pc'[p] \in {"pick", "status"}
              /\ my'[p].todo = my[p].todo \ {t0}
              /\ pc'[p] = "pick" => t0 \in announced'
              /\ pc'[p] = "status" => my'[p].other = t0 /\ my'[p].list = my[p].list \ {s}
              /\ \A q \in Procs \ {p} : pc'[q] = pc[q] /\ my'[q] = my[q]
          BY <4>1 DEF TypeOK, Locals, Examine, GoTo
        <4>3. \A t \in owed \ announced' : Pending(p, t) => Pending(p, t)'
          BY <3>1, <4>2 DEF Pending
        <4>4. QED
          BY <3>1, <3>2, <3>3, <4>2, <4>3, OneCompletes DEF Adding, Completing
      <3>4. CASE s \notin done
        <4>1. /\ announced' = announced /\ pc'[p] = "pick"
              /\ my'[p].todo = my[p].todo
              /\ \A q \in Procs \ {p} : pc'[q] = pc[q] /\ my'[q] = my[q]
          BY <2>5, <3>4 DEF TypeOK, Locals, CheckStatus, GoTo
        <4>2. t0 \notin owed \ announced
          BY <3>1, <3>2, <3>4 DEF AnnounceInvariant, OwedIsPending
        <4>3. \A t \in owed \ announced' : Pending(p, t) => Pending(p, t)'
          BY <3>1, <4>1, <4>2 DEF Pending
        <4>4. QED
          BY <3>1, <4>1, <4>3, OneCompletes DEF Adding, Completing
      <3>5. QED
        BY <3>3, <3>4
    <2>6. QED
      BY <1>3, <2>1, <2>2, <2>3, <2>4, <2>5, FaultsAreCounted DEF StoryStep
  <1>4. ASSUME NEW p \in Procs, NEW s \in Stories, NEW d \in Stories,
               AddDependency(p, s, d)
        PROVE  AnnounceInvariant'
    <2>1. /\ owed' = owed /\ announced' = announced /\ pc'[p] = "visit"
          /\ \A q \in Procs \ {p} : pc'[q] = pc[q]
      BY <1>4 DEF TypeOK, AddDependency, GoTo
    <2>2. \A q \in Procs : ~Completing(q)
      BY <1>4 DEF AddDependency
    <2>3. QED
      BY <2>1, <2>2, QuietForAnnouncements DEF Completing
  <1>5. ASSUME NEW s \in Stories, KeyExpires(s)
        PROVE  AnnounceInvariant'
    BY <1>5, FaultsAreCounted
  <1>6. QED
    BY <1>1, <1>2, <1>3, <1>4, <1>5 DEF Next

-----------------------------------------------------------------------------
(* Theorems *)

LEMMA InitInvariant == Init => InductiveInvariant
  <1> SUFFICES ASSUME Init PROVE InductiveInvariant
    OBVIOUS
  <1>1. TypeOK
    BY InitTyped
  <1>2. NoCycle
    BY DEF Init, NoCycle, Graph!Acyclic
  <1>3. OneAdder /\ SearchIsSound /\ IndexInStep /\ NoOverlap /\ OwedIsPending /\ StatusIsSound
    BY DEF Init, OneAdder, SearchIsSound, IndexInStep, NoOverlap, OwedIsPending,
           StatusIsSound, Adding, Completing, Indexing
  <1>4. QED
    BY <1>1, <1>2, <1>3 DEF InductiveInvariant

LEMMA StepInvariant == InductiveInvariant /\ [Next]_vars => InductiveInvariant'
  <1> SUFFICES ASSUME InductiveInvariant, [Next]_vars
               PROVE  InductiveInvariant'
    OBVIOUS
  <1>1. TypeOK /\ TypeOK'
    BY StepTyped DEF InductiveInvariant
  <1>2. Premises
    BY <1>1, HistoryFalls
  <1>3. NoFault => Answered
    BY DEF NoFault
  <1>4. ASSUME alone', Answered'
        PROVE  (OneAdder /\ NoCycle /\ SearchIsSound)'
    <2>1. SearchInvariant
      BY <1>2, <1>4 DEF Premises, InductiveInvariant, SearchInvariant
    <2>2. QED
      BY <1>1, <1>4, <2>1, SearchPreserved DEF SearchInvariant
  <1>5. ASSUME alone', NoFault'
        PROVE  IndexInStep'
    <2>1. OneAdder /\ IndexInStep
      BY <1>2, <1>3, <1>5 DEF Premises, InductiveInvariant
    <2>2. QED
      BY <1>1, <1>5, <2>1, IndexPreserved
  <1>6. ASSUME Calm'
        PROVE  (NoOverlap /\ OwedIsPending /\ StatusIsSound)'
    <2>1. IndexInStep /\ AnnounceInvariant /\ apart' /\ NoFault'
      BY <1>2, <1>6 DEF Premises, Calm, InductiveInvariant, AnnounceInvariant
    <2>2. QED
      BY <1>1, <2>1, AnnouncePreserved DEF AnnounceInvariant
  <1>7. QED
    BY <1>1, <1>4, <1>5, <1>6 DEF InductiveInvariant

\* The invariant that all the properties follow from.
THEOREM Inductive == Spec => []InductiveInvariant
  BY InitInvariant, StepInvariant, PTL DEF Spec

\* Every variable and every local variable of a call keeps its type.
THEOREM TypeCorrect == Spec => []TypeOK
  <1>1. InductiveInvariant => TypeOK
    BY DEF InductiveInvariant
  <1>2. QED
    BY <1>1, Inductive, PTL

\* addDependency keeps the dependencies free of cycles, of any number of
\* stories, as long as no two additions overlap and Redis answers.
THEOREM NoCycles == Spec => []NoCycleAlone
  <1>1. InductiveInvariant => NoCycleAlone
    BY DEF InductiveInvariant, NoCycleAlone
  <1>2. QED
    BY <1>1, Inductive, PTL

\* The stories of a workspace never wait for each other without end: some
\* incomplete story has all it depends on.
THEOREM SomeoneGoesOn == Spec => []SomeoneCanGoOn
  <1>1. ASSUME InductiveInvariant, alone, Answered, done # Stories
        PROVE  \E s \in Stories \ done : deps[s] \subseteq done
    <2> DEFINE T == Stories \ done
    <2>1. T \in SUBSET Stories /\ T # {}
      BY <1>1 DEF InductiveInvariant, TypeOK
    <2>2. PICK s \in T : deps[s] \cap T = {}
      BY <1>1, <2>1 DEF InductiveInvariant, NoCycle, Graph!Acyclic
    <2>3. QED
      BY <1>1, <2>2 DEF InductiveInvariant, TypeOK
  <1>2. InductiveInvariant => SomeoneCanGoOn
    BY <1>1 DEF SomeoneCanGoOn
  <1>3. QED
    BY <1>2, Inductive, PTL

\* Between additions the reverse index holds exactly the dependencies.
THEOREM IndexCorrect == Spec => []IndexAgrees
  <1>1. InductiveInvariant => IndexAgrees
    BY DEF InductiveInvariant, IndexAgrees, IndexInStep, Indexing, Adding
  <1>2. QED
    BY <1>1, Inductive, PTL

\* However many completions run at once, each story that they unblock is
\* announced by one of them.
THEOREM EveryoneIsAnnounced == Spec => []NobodyForgotten
  <1>1. ASSUME InductiveInvariant, Calm, \A p \in Procs : pc[p] = "idle"
        PROVE  owed \subseteq announced
    <2>1. OwedIsPending
      BY <1>1 DEF InductiveInvariant
    <2>2. \A p \in Procs, t \in owed : ~Pending(p, t)
      BY <1>1 DEF Pending
    <2>3. QED
      BY <2>1, <2>2 DEF OwedIsPending
  <1>2. InductiveInvariant => NobodyForgotten
    BY <1>1 DEF NobodyForgotten
  <1>3. QED
    BY <1>2, Inductive, PTL

\* A completion announces no story that still waits for another.
THEOREM OnlyUnblocked == Spec => OnlyUnblockedAnnounced
  <1>1. ASSUME InductiveInvariant, [Next]_vars, Calm', announced' # announced,
               NEW t \in announced' \ announced
        PROVE  deps[t] \subseteq done
    <2>1. TypeOK /\ StatusIsSound /\ NoFault'
      BY <1>1, HistoryFalls DEF InductiveInvariant, Premises, Calm
    <2>2. PICK p \in Procs, s \in Stories : PickDependent(p, s) \/ CheckStatus(p, s)
      <3>1. ~UNCHANGED vars
        BY <1>1 DEF vars
      <3>2. ~\E s \in Stories : KeyExpires(s)
        BY <2>1, FaultsAreCounted
      <3>3. ~\E p \in Procs : Step(p)
        BY <1>1, <2>1, FaultsAreCounted
           DEF Step, LoadDependencies, StoreDependencies, LoadReverse, StoreReverse,
               FindDependents, ScanKeys, ScanEnds, FinishCompletion
      <3>4. ~\E p \in Procs, s, d \in Stories : AddDependency(p, s, d)
        BY <1>1 DEF AddDependency
      <3>5. PICK p \in Procs, s \in Stories : StoryStep(p, s)
        BY <1>1, <3>1, <3>2, <3>3, <3>4 DEF Next
      <3>6. ~Visit(p, s) /\ ~MarkComplete(p, s) /\ ~ScanKey(p, s) /\ ~RedisFailsAt(p, s)
        BY <1>1, <2>1, FaultsAreCounted DEF Visit, MarkComplete, ScanKey
      <3>7. QED
        BY <3>5, <3>6 DEF StoryStep
    <2>3. CASE PickDependent(p, s)
      BY <1>1, <2>3 DEF PickDependent, Examine
    <2>4. CASE CheckStatus(p, s)
      <3>1. /\ pc[p] = "status" /\ s \in my[p].list /\ s \in done
            /\ Examine(p, my[p].other, my[p].list \ {s})
        BY <1>1, <2>4 DEF CheckStatus
      <3>2. my[p].list \ {s} = {} /\ t = my[p].other
        BY <1>1, <3>1 DEF Examine
      <3>3. QED
        BY <2>1, <3>1, <3>2 DEF StatusIsSound
    <2>5. QED
      BY <2>2, <2>3, <2>4
  <1>2. InductiveInvariant /\ [Next]_vars
           => [Calm' => \A t \in announced' \ announced : deps[t] \subseteq done]_announced
    BY <1>1
  <1>3. QED
    BY <1>2, Inductive, PTL DEF OnlyUnblockedAnnounced, Spec

-----------------------------------------------------------------------------
(* The calls implement StoryGraph *)

\* While an addition is at work all that is owed has been announced.
LEMMA NothingDue ==
    ASSUME NoOverlap, OwedIsPending, NEW p \in Procs, Adding(p)
    PROVE  owed \ announced = {}
  <1>1. \A q \in Procs : ~Completing(q)
    BY DEF NoOverlap
  <1>2. \A q \in Procs, t \in owed : ~Pending(q, t)
    BY <1>1 DEF Pending, Completing
  <1>3. QED
    BY <1>2 DEF OwedIsPending

\* A step of the graph is a promised step as long as the premises hold.
LEMMA PromisedStep ==
    ASSUME Calm, Calm',
           \/ \E s, d \in Stories : Graph!Depend(s, d)
           \/ \E s \in Stories : Graph!Complete(s) \/ Graph!Announce(s)
    PROVE  Graph!Next
  BY DEF Graph!Next, Graph!Promised

\* Examining a dependent announces it or changes nothing of the graph.
LEMMA ExamineImplements ==
    ASSUME Calm, Calm', NEW p \in Procs, NEW t \in Stories, NEW rest,
           Examine(p, t, rest), rest = {} => deps[t] \subseteq done,
           deps' = deps, done' = done, owed' = owed
    PROVE  [Graph!Next]_Graph!storyGraph
  <1>1. CASE rest = {}
    <2>1. announced' = announced \cup {t}
      BY <1>1 DEF Examine
    <2>2. owed' \ announced' = (owed \ announced) \ {t}
      BY <2>1
    <2>3. Graph!Announce(t)
      BY <1>1, <2>1, <2>2 DEF Graph!Announce
    <2>4. QED
      BY <2>3, PromisedStep
  <1>2. CASE rest # {}
    <2>1. announced' = announced
      BY <1>2 DEF Examine
    <2>2. QED
      BY <2>1 DEF Graph!storyGraph
  <1>3. QED
    BY <1>1, <1>2

\* An undisturbed step of the calls is a step of the graph or changes nothing of it.
LEMMA StepImplements ==
    ASSUME InductiveInvariant, Next, Calm, Calm'
    PROVE  [Graph!Next]_Graph!storyGraph
  <1>1. /\ TypeOK /\ NoFault' /\ NoOverlap /\ OwedIsPending /\ StatusIsSound
        /\ NoCycle /\ SearchIsSound /\ IndexInStep
    BY DEF InductiveInvariant, Calm, NoFault
  <1>2. ASSUME UNCHANGED <<deps, done, announced, owed>>
        PROVE  UNCHANGED Graph!storyGraph
    BY <1>2 DEF Graph!storyGraph
  <1>3. ASSUME NEW p \in Procs, Step(p)
        PROVE  [Graph!Next]_Graph!storyGraph
    <2>1. CASE StoreDependencies(p)
      <3> DEFINE s == my[p].story
                 d == my[p].other
      <3>1. /\ pc[p] = "store" /\ s \in Stories /\ d \in Stories
            /\ deps' = [deps EXCEPT ![s] = my[p].list \cup {d}]
            /\ UNCHANGED <<done, announced, owed>>
        BY <1>1, <2>1 DEF TypeOK, StoreDependencies, Adding, history
      <3>2. my[p].list = deps[s]
        BY <1>1, <3>1 DEF IndexInStep
      <3>3. deps' = [deps EXCEPT ![s] = deps[s] \cup {d}]
        BY <3>1, <3>2
      <3>4. Graph!Acyclic(deps')
        BY <1>1, <3>1 DEF SearchIsSound
      <3>5. owed \ announced = {}
        BY <1>1, <3>1, NothingDue DEF Adding
      <3>6. Graph!Depend(s, d)
        BY <3>1, <3>3, <3>4, <3>5 DEF Graph!Depend
      <3>7. QED
        BY <3>1, <3>6, PromisedStep
    <2>2. CASE \/ LoadDependencies(p) \/ LoadReverse(p) \/ StoreReverse(p)
               \/ FindDependents(p) \/ ScanKeys(p) \/ ScanEnds(p) \/ FinishCompletion(p)
      BY <1>2, <2>2
         DEF LoadDependencies, LoadReverse, StoreReverse, FindDependents, ScanKeys,
             ScanEnds, FinishCompletion, store, history
    <2>3. QED
      BY <1>1, <1>3, <2>1, <2>2, FaultsAreCounted DEF Step
  <1>4. ASSUME NEW p \in Procs, NEW s \in Stories, StoryStep(p, s)
        PROVE  [Graph!Next]_Graph!storyGraph
    <2>1. CASE MarkComplete(p, s)
      <3>1. /\ done' = done \cup {s} /\ deps' = deps
            /\ owed' = owed \cup WaitingFor(s)
            /\ announced' = announced \ WaitingFor(s)
        BY <2>1 DEF MarkComplete
      <3>2. owed' \ announced' = (owed \ announced) \cup WaitingFor(s)
        BY <3>1
      <3>3. Graph!Unblocks(s) = WaitingFor(s)
        BY DEF Graph!Unblocks, WaitingFor
      <3>4. Graph!Complete(s)
        BY <3>1, <3>2, <3>3 DEF Graph!Complete
      <3>5. QED
        BY <3>4, PromisedStep
    <2>2. CASE PickDependent(p, s)
      <3>1. /\ Examine(p, s, deps[s])
            /\ deps' = deps /\ done' = done /\ owed' = owed
        BY <2>2 DEF PickDependent, store, history
      <3>2. QED
        BY <3>1, ExamineImplements
    <2>3. CASE CheckStatus(p, s)
      <3> DEFINE t == my[p].other
      <3>1. /\ pc[p] = "status" /\ t \in Stories
            /\ deps' = deps /\ done' = done /\ owed' = owed
        BY <1>1, <2>3 DEF TypeOK, CheckStatus, store, history
      <3>2. CASE s \in done
        <4>1. Examine(p, t, my[p].list \ {s})
          BY <2>3, <3>2 DEF CheckStatus
        <4>2. my[p].list \ {s} = {} => deps[t] \subseteq done
          BY <1>1, <3>1, <3>2 DEF StatusIsSound
        <4>3. QED
          BY <3>1, <4>1, <4>2, ExamineImplements
      <3>3. CASE s \notin done
        BY <1>2, <2>3, <3>1, <3>3 DEF CheckStatus
      <3>4. QED
        BY <3>2, <3>3
    <2>4. CASE Visit(p, s) \/ ScanKey(p, s)
      BY <1>2, <2>4 DEF Visit, ScanKey, store, history
    <2>5. QED
      BY <1>1, <1>4, <2>1, <2>2, <2>3, <2>4, FaultsAreCounted DEF StoryStep
  <1>5. ASSUME NEW p \in Procs, NEW s \in Stories, NEW d \in Stories,
               AddDependency(p, s, d)
        PROVE  [Graph!Next]_Graph!storyGraph
    BY <1>2, <1>5 DEF AddDependency, store
  <1>6. QED
    BY <1>1, <1>3, <1>4, <1>5, FaultsAreCounted DEF Next

\* The dependency manager implements StoryGraph: undisturbed, its reads, writes and
\* searches amount to a graph that grows edge by edge without a cycle, and to
\* announcements that are made when they are due.
THEOREM Implements == Spec => ImplementsStoryGraph
  <1>1. Init => Graph!Init
    BY DEF Init, Graph!Init, Calm, NoFault, Answered, Kind
  <1>2. ASSUME InductiveInvariant, [Next]_vars
        PROVE  [Graph!Next]_Graph!storyGraph
    <2>1. CASE UNCHANGED vars
      BY <2>1 DEF vars, store, history, Graph!storyGraph, Calm, NoFault, Answered
    <2>2. CASE Next /\ ~Calm'
      <3>1. Calm' = FALSE
        BY <2>2 DEF Calm, InductiveInvariant, TypeOK, NoFault, Answered
      <3>2. QED
        BY <3>1 DEF Graph!Next, Graph!Breakdown
    <2>3. CASE Next /\ Calm'
      <3>1. Calm
        BY <1>2, <2>3, HistoryFalls DEF InductiveInvariant, Premises, Calm
      <3>2. QED
        BY <1>2, <2>3, <3>1, StepImplements
    <2>4. QED
      BY <1>2, <2>1, <2>2, <2>3
  <1>3. QED
    BY <1>1, <1>2, Inductive, PTL DEF Spec, ImplementsStoryGraph, Graph!Spec
=============================================================================
