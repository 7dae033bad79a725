------------------------- MODULE StoryDependencies -------------------------
(***************************************************************************)
(* StoryDependencyManagerService: which stories of ONE workspace wait for  *)
(* which, kept in Redis under three keys per story,                        *)
(*   deps[s]   pipeline:deps, the stories s depends on,                    *)
(*   rdeps[s]  pipeline:reverse-deps, the stories that depend on s,        *)
(*   done      the stories with pipeline:story-status "complete".          *)
(* An absent key is an empty list.  The lists hold no story twice and their *)
(* order only decides in which order keys are read: they are sets, read in *)
(* any order.                                                              *)
(*                                                                         *)
(* There is no lock.  A process is one call of addDependency or of         *)
(* markStoryComplete, an action the code between two awaits.               *)
(*                                                                         *)
(* Left out: getBlockingStories and getDependencyGraph as calls of their   *)
(* own, which only read, and lists that do not parse.  addDependency has no *)
(* caller outside the tests yet; markStoryComplete is called by the        *)
(* handoff coordinator when the DevOps phase of a story ends.              *)
(***************************************************************************)
EXTENDS Naturals

CONSTANTS
    Stories,        \* the stories of the workspace
    NoStory,        \* no story
    Procs,          \* the calls that may be in flight at once
    MaxAdds,        \* bound: calls of addDependency
    MaxCompletions, \* bound: calls of markStoryComplete
    MaxFaults       \* bound: crashes, expired keys and failed calls to Redis

ASSUME StoriesAssumption ==
    /\ NoStory \notin Stories
    /\ MaxAdds \in Nat
    /\ MaxCompletions \in Nat
    /\ MaxFaults \in Nat

VARIABLES
    deps, rdeps, done,  \* the three kinds of keys
    announced,          \* stories a story_unblocked event was emitted for
    owed,               \* history: stories the last story they waited for
                        \* has unblocked
    pc,                 \* where each process is
    my,                 \* the local variables of each process
    alone,              \* history: no two additions overlapped so far
    apart,              \* history: no addition overlapped a completion
    spent               \* how much of each bound is used up

store == <<deps, rdeps, done>>
history == <<owed, alone, apart>>
vars == <<store, announced, history, pc, my, spent>>

PC == {"idle", "visit", "store", "loadrev", "storerev",    \* addDependency
       "find", "scankeys", "scan", "pick", "status"}       \* markStoryComplete

\* story : the story the call is about
\* other : the story it is to depend on; the dependent under examination
\* todo  : the queue of the search; the keys or dependents still to look at
\* list  : the visited stories; the list that was loaded; the dependents that
\*         were found; the dependencies whose status is not known yet
Locals == [story : Stories \cup {NoStory}, other : Stories \cup {NoStory},
           todo : SUBSET Stories, list : SUBSET Stories]
Blank == [story |-> NoStory, other |-> NoStory, todo |-> {}, list |-> {}]

Kind == {"add", "complete", "fault", "outage"}
Left == LET faults == MaxFaults - spent["fault"] - spent["outage"]
        IN  [add |-> MaxAdds - spent["add"],
             complete |-> MaxCompletions - spent["complete"],
             fault |-> faults, outage |-> faults]

Adding(p) == pc[p] \in {"visit", "store", "loadrev", "storerev"}
Completing(p) == pc[p] \in {"find", "scankeys", "scan", "pick", "status"}

\* A search never visits the story it is looking for.
TypeOK ==
    /\ deps \in [Stories -> SUBSET Stories]
    /\ rdeps \in [Stories -> SUBSET Stories]
    /\ done \subseteq Stories
    /\ announced \subseteq Stories
    /\ owed \subseteq Stories
    /\ pc \in [Procs -> PC]
    /\ my \in [Procs -> Locals]
    /\ alone \in BOOLEAN
    /\ apart \in BOOLEAN
    /\ spent \in [Kind -> Nat]
    /\ \A p \in Procs : /\ pc[p] # "idle" => my[p].story \in Stories
                        /\ Adding(p) => my[p].other \in Stories
                        /\ pc[p] = "status" => my[p].other \in Stories
                        /\ pc[p] = "visit" => my[p].story \notin my[p].list

Init ==
    /\ deps = [s \in Stories |-> {}]
    /\ rdeps = [s \in Stories |-> {}]
    /\ done = {}
    /\ announced = {}
    /\ owed = {}
    /\ pc = [p \in Procs |-> "idle"]
    /\ my = [p \in Procs |-> Blank]
    /\ alone = TRUE
    /\ apart = TRUE
    /\ spent = [k \in Kind |-> 0]

-----------------------------------------------------------------------------
(* Helpers *)

GoTo(p, label) == pc' = [pc EXCEPT ![p] = label]

Spend(k) ==
    /\ Left[k] > 0
    /\ spent' = [spent EXCEPT ![k] = @ + 1]

\* The call returns or throws.
Return(p) ==
    /\ GoTo(p, "idle")
    /\ my' = [my EXCEPT ![p] = Blank]

-----------------------------------------------------------------------------
(* addDependency: story is to depend on other *)

AddDependency(p, s, d) ==
    /\ pc[p] = "idle"
    /\ Spend("add")
    /\ GoTo(p, "visit")
    /\ my' = [my EXCEPT ![p] = [Blank EXCEPT !.story = s, !.other = d,
                                             !.todo = {d}]]
    /\ alone' = (alone /\ \A q \in Procs : ~Adding(q))
    /\ apart' = (apart /\ \A q \in Procs : ~Completing(q))
    /\ UNCHANGED <<store, announced, owed>>

\* The search for a cycle does not look where it has got to.
VisitBug(p, t) ==
    /\ pc[p] = "visit"
    /\ t \in my[p].todo
    /\ my' = [my EXCEPT ![p].todo = (@ \cup deps[t]) \ (my[p].list \cup {t}),
                        ![p].list = @ \cup {t}]
    /\ UNCHANGED <<pc, store, announced, history, spent>>

\* Only the direct dependencies of the other story are searched.
ShallowVisitBug(p, t) ==
    /\ pc[p] = "visit"
    /\ t \in my[p].todo
    /\ \/ /\ t = my[p].story
          /\ Return(p)
       \/ /\ t # my[p].story
          /\ my' = [my EXCEPT
                ![p].todo = (@ \cup (IF t = my[p].other THEN deps[t] ELSE {}))
                                \ (my[p].list \cup {t}),
                ![p].list = @ \cup {t}]
          /\ UNCHANGED pc
    /\ UNCHANGED <<store, announced, history, spent>>

\* wouldCreateCircle: the search goes on with one story of its queue.  If that
\* is the story that is to get a dependency the call throws.
Visit(p, t) ==
    /\ pc[p] = "visit"
    /\ t \in my[p].todo
    /\ \/ /\ t = my[p].story
          /\ Return(p)
       \/ /\ t # my[p].story
          /\ my' = [my EXCEPT
                ![p].todo = (@ \cup deps[t]) \ (my[p].list \cup {t}),
                ![p].list = @ \cup {t}]
          /\ UNCHANGED pc
    /\ UNCHANGED <<store, announced, history, spent>>

\* There would be no cycle: load the list of dependencies ...
LoadDependencies(p) ==
    /\ pc[p] = "visit"
    /\ my[p].todo = {}
    /\ my' = [my EXCEPT ![p].list = deps[my[p].story]]
    /\ GoTo(p, "store")
    /\ UNCHANGED <<store, announced, history, spent>>

\* The other story takes the place of the list.
StoreDependenciesBug(p) ==
    /\ pc[p] = "store"
    /\ deps' = [deps EXCEPT ![my[p].story] = {my[p].other}]
    /\ GoTo(p, "loadrev")
    /\ UNCHANGED <<rdeps, done, announced, history, my, spent>>

\* ... store it with the other story added ...
StoreDependencies(p) ==
    /\ pc[p] = "store"
    /\ deps' = [deps EXCEPT ![my[p].story] = my[p].list \cup {my[p].other}]
    /\ GoTo(p, "loadrev")
    /\ UNCHANGED <<rdeps, done, announced, history, my, spent>>

\* ... and the same for the reverse index.
LoadReverse(p) ==
    /\ pc[p] = "loadrev"
    /\ my' = [my EXCEPT ![p].list = rdeps[my[p].other]]
    /\ GoTo(p, "storerev")
    /\ UNCHANGED <<store, announced, history, spent>>

\* The reverse index is replaced and not extended.
StoreReverseBug(p) ==
    /\ pc[p] = "storerev"
    /\ rdeps' = [rdeps EXCEPT ![my[p].other] = {my[p].story}]
    /\ Return(p)
    /\ UNCHANGED <<deps, done, announced, history, spent>>

StoreReverse(p) ==
    /\ pc[p] = "storerev"
    /\ rdeps' = [rdeps EXCEPT ![my[p].other] = my[p].list \cup {my[p].story}]
    /\ Return(p)
    /\ UNCHANGED <<deps, done, announced, history, spent>>

-----------------------------------------------------------------------------
(* markStoryComplete *)

\* The stories that wait for s alone.
WaitingFor(s) ==
    {t \in Stories : s \in deps[t] \ done /\ deps[t] \subseteq done \cup {s}}

MarkComplete(p, s) ==
    /\ pc[p] = "idle"
    /\ Spend("complete")
    /\ done' = done \cup {s}
    /\ owed' = owed \cup WaitingFor(s)
    /\ announced' = announced \ WaitingFor(s)
    /\ GoTo(p, "find")
    /\ my' = [my EXCEPT ![p] = [Blank EXCEPT !.story = s]]
    /\ apart' = (apart /\ \A q \in Procs : ~Adding(q))
    /\ UNCHANGED <<deps, rdeps, alone>>

\* findDependentStories: the reverse index if it has an entry ...
FindDependents(p) ==
    /\ pc[p] = "find"
    /\ \/ /\ rdeps[my[p].story] # {}
          /\ my' = [my EXCEPT ![p].todo = rdeps[my[p].story]]
          /\ GoTo(p, "pick")
       \/ /\ rdeps[my[p].story] = {}
          /\ GoTo(p, "scankeys")
          /\ UNCHANGED my
    /\ UNCHANGED <<store, announced, history, spent>>

\* ... or else all keys with dependencies ...
ScanKeys(p) ==
    /\ pc[p] = "scankeys"
    /\ my' = [my EXCEPT ![p].todo = {t \in Stories : deps[t] # {}}]
    /\ GoTo(p, "scan")
    /\ UNCHANGED <<store, announced, history, spent>>

\* ... one after the other.
ScanKey(p, t) ==
    /\ pc[p] = "scan"
    /\ t \in my[p].todo
    /\ my' = [my EXCEPT
          ![p].todo = @ \ {t},
          ![p].list = IF my[p].story \in deps[t] THEN @ \cup {t} ELSE @]
    /\ UNCHANGED <<pc, store, announced, history, spent>>

ScanEnds(p) ==
    /\ pc[p] = "scan"
    /\ my[p].todo = {}
    /\ my' = [my EXCEPT ![p].todo = my[p].list, ![p].list = {}]
    /\ GoTo(p, "pick")
    /\ UNCHANGED <<store, announced, history, spent>>

\* The loop over the dependents ends with the first that is unblocked.
ExamineBug(p, t, rest) ==
    \/ /\ rest = {}
       /\ announced' = announced \cup {t}
       /\ Return(p)
    \/ /\ rest # {}
       /\ my' = [my EXCEPT ![p].todo = @ \ {t}, ![p].other = t, ![p].list = rest]
       /\ GoTo(p, "status")
       /\ UNCHANGED announced

\* No blocking story was found, and rest is left to ask for.  If nothing is
\* left, story_unblocked is emitted for t.
Examine(p, t, rest) ==
    \/ /\ rest = {}
       /\ announced' = announced \cup {t}
       /\ my' = [my EXCEPT ![p].todo = @ \ {t}, ![p].other = NoStory, ![p].list = {}]
       /\ GoTo(p, "pick")
    \/ /\ rest # {}
       /\ my' = [my EXCEPT ![p].todo = @ \ {t}, ![p].other = t, ![p].list = rest]
       /\ GoTo(p, "status")
       /\ UNCHANGED announced

\* getBlockingStories of the next dependent: its dependencies ...
PickDependent(p, t) ==
    /\ pc[p] = "pick"
    /\ t \in my[p].todo
    /\ Examine(p, t, deps[t])
    /\ UNCHANGED <<store, history, spent>>

\* One complete dependency will do.
CheckStatusBug(p, d) ==
    /\ pc[p] = "status"
    /\ d \in my[p].list
    /\ \/ d \in done /\ Examine(p, my[p].other, {})
       \/ /\ d \notin done
          /\ my' = [my EXCEPT ![p].other = NoStory, ![p].list = {}]
          /\ GoTo(p, "pick")
          /\ UNCHANGED announced
    /\ UNCHANGED <<store, history, spent>>

\* ... and the status of each.  With one that is not complete t is blocked; the
\* code asks for the others too, to no effect.
CheckStatus(p, d) ==
    /\ pc[p] = "status"
    /\ d \in my[p].list
    /\ \/ d \in done /\ Examine(p, my[p].other, my[p].list \ {d})
       \/ /\ d \notin done
          /\ my' = [my EXCEPT ![p].other = NoStory, ![p].list = {}]
          /\ GoTo(p, "pick")
          /\ UNCHANGED announced
    /\ UNCHANGED <<store, history, spent>>

FinishCompletion(p) ==
    /\ pc[p] = "pick"
    /\ my[p].todo = {}
    /\ Return(p)
    /\ UNCHANGED <<store, announced, history, spent>>

-----------------------------------------------------------------------------
(* The environment *)

\* The instance that runs p dies.
Crash(p) ==
    /\ pc[p] # "idle"
    /\ Spend("fault")
    /\ Return(p)
    /\ UNCHANGED <<store, announced, history>>

\* A key outlives its TTL.
KeyExpires(s) ==
    /\ Spend("fault")
    /\ \/ /\ deps[s] # {}
          /\ deps' = [deps EXCEPT ![s] = {}]
          /\ UNCHANGED <<rdeps, done>>
       \/ /\ rdeps[s] # {}
          /\ rdeps' = [rdeps EXCEPT ![s] = {}]
          /\ UNCHANGED <<deps, done>>
       \/ /\ s \in done
          /\ done' = done \ {s}
          /\ UNCHANGED <<deps, rdeps>>
    /\ UNCHANGED <<announced, history, pc, my>>

\* RedisService swallows the error of a failed call: what was to be written is
\* lost, what was to be read is taken for absent, and p goes on.
RedisFails(p) ==
    /\ Spend("outage")
    /\ \/ /\ pc[p] = "visit"
          /\ my[p].todo = {}
          /\ my' = [my EXCEPT ![p].list = {}]
          /\ GoTo(p, "store")
       \/ /\ pc[p] = "store"
          /\ GoTo(p, "loadrev")
          /\ UNCHANGED my
       \/ /\ pc[p] = "loadrev"
          /\ my' = [my EXCEPT ![p].list = {}]
          /\ GoTo(p, "storerev")
       \/ /\ pc[p] = "storerev"
          /\ Return(p)
       \/ /\ pc[p] = "find"
          /\ GoTo(p, "scankeys")
          /\ UNCHANGED my
       \/ /\ pc[p] = "scankeys"
          /\ GoTo(p, "scan")
          /\ UNCHANGED my
       \/ /\ pc[p] = "status"
          /\ my' = [my EXCEPT ![p].other = NoStory, ![p].list = {}]
          /\ GoTo(p, "pick")
    /\ UNCHANGED <<store, announced, history>>

\* The same where p reads or writes a key of t: in the search, in the scan, as a
\* dependent that is taken to have no dependencies, as a completed story that
\* is not marked.
RedisFailsAt(p, t) ==
    /\ Spend("outage")
    /\ \/ /\ pc[p] = "visit"
          /\ t \in my[p].todo \ {my[p].story}
          /\ my' = [my EXCEPT ![p].todo = @ \ {t}, ![p].list = @ \cup {t}]
          /\ UNCHANGED <<pc, announced, apart>>
       \/ /\ pc[p] = "scan"
          /\ t \in my[p].todo
          /\ my' = [my EXCEPT ![p].todo = @ \ {t}]
          /\ UNCHANGED <<pc, announced, apart>>
       \/ /\ pc[p] = "pick"
          /\ t \in my[p].todo
          /\ Examine(p, t, {})
          /\ UNCHANGED apart
       \/ /\ pc[p] = "idle"
          /\ my' = [my EXCEPT ![p] = [Blank EXCEPT !.story = t]]
          /\ GoTo(p, "find")
          /\ apart' = (apart /\ \A q \in Procs : ~Adding(q))
          /\ UNCHANGED announced
    /\ UNCHANGED <<store, owed, alone>>

-----------------------------------------------------------------------------
(* Specification *)

Step(p) ==
    \/ LoadDependencies(p)
    \/ StoreDependencies(p)
    \/ LoadReverse(p)
    \/ StoreReverse(p)
    \/ FindDependents(p)
    \/ ScanKeys(p)
    \/ ScanEnds(p)
    \/ FinishCompletion(p)
    \/ Crash(p)
    \/ RedisFails(p)

StoryStep(p, s) ==
    \/ Visit(p, s)
    \/ MarkComplete(p, s)
    \/ ScanKey(p, s)
    \/ PickDependent(p, s)
    \/ CheckStatus(p, s)
    \/ RedisFailsAt(p, s)

Next ==
    \/ \E p \in Procs : Step(p)
    \/ \E p \in Procs, s \in Stories : StoryStep(p, s)
    \/ \E p \in Procs, s, d \in Stories : AddDependency(p, s, d)
    \/ \E s \in Stories : KeyExpires(s)

Spec == Init /\ [][Next]_vars
-----------------------------------------------------------------------------
(* Properties *)

Answered == spent["outage"] = 0
NoFault == Answered /\ spent["fault"] = 0
Calm == alone /\ apart /\ NoFault

\* The keys in Redis are the graph, as long as nothing disturbs the calls.
Graph == INSTANCE StoryGraph WITH
    graph <- deps, complete <- done, due <- owed \ announced, sound <- Calm

\* The manager keeps the promise of StoryGraph: each addition, of three reads
\* and writes and a search, adds just its edge and loses no other, no search
\* lets a cycle pass, and the announcements a completion owes are made, each at
\* its time, whichever calls complete stories at once.
ImplementsStoryGraph == Graph!Spec

\* addDependency "checks for circular dependencies before storing": there is
\* never a cycle.  The code does not keep it (the check is not under a lock).
NoCycle == Graph!Acyclic(deps)

\* As long as dependencies are added one at a time and Redis answers there is
\* no cycle, whatever completes, crashes or expires meanwhile.
NoCycleAlone == alone /\ Answered => NoCycle

\* Unless everything is complete, some story can go on.
SomeoneCanGoOn ==
    alone /\ Answered /\ done # Stories
        => \E s \in Stories \ done : deps[s] \subseteq done

\* The reverse index is the inverse of the dependencies whenever no addition is
\* in progress, if they came one at a time and without faults.
IndexAgrees ==
    (alone /\ NoFault /\ \A p \in Procs : ~Adding(p))
        => \A s, d \in Stories : d \in deps[s] <=> s \in rdeps[d]

\* When stories that others wait for complete at the same time, at least one of
\* the calls finds each story that is unblocked by it: all are announced.
NobodyForgotten ==
    (Calm /\ \A p \in Procs : pc[p] = "idle") => owed \subseteq announced

\* A story that is announced has nothing to wait for.
OnlyUnblockedAnnounced ==
    [][Calm' => \A t \in announced' \ announced : deps[t] \subseteq done]_announced

-----------------------------------------------------------------------------
(* The inductive invariant behind the theorems of StoryProofs *)

Indexing(p) == pc[p] \in {"loadrev", "storerev"}

OneAdder == \A p, q \in Procs : Adding(p) /\ Adding(q) => p = q

\* What was visited leads only to what was visited or will be; what is about
\* to be stored makes no cycle.
SearchIsSound ==
    \A p \in Procs :
        /\ pc[p] = "visit" =>
              /\ my[p].other \in my[p].list \cup my[p].todo
              /\ \A v \in my[p].list : deps[v] \subseteq my[p].list \cup my[p].todo
        /\ pc[p] = "store" =>
              Graph!Acyclic([deps EXCEPT ![my[p].story] = my[p].list \cup {my[p].other}])

\* The reverse index lacks just the edge that is being indexed.
IndexInStep ==
    /\ \A p \in Procs : pc[p] = "store" => my[p].list = deps[my[p].story]
    /\ \A p \in Procs : pc[p] = "storerev" => my[p].list = rdeps[my[p].other]
    /\ \A s, d \in Stories :
          d \in deps[s] <=> \/ s \in rdeps[d]
                            \/ \E p \in Procs : /\ Indexing(p)
                                                /\ my[p].story = s
                                                /\ my[p].other = d

NoOverlap == \A p, q \in Procs : ~(Adding(p) /\ Completing(q))

\* p will come to ask whether t is unblocked, or is asking.
Pending(p, t) ==
    \/ pc[p] \in {"find", "scankeys"} /\ my[p].story \in deps[t]
    \/ pc[p] = "scan" /\ my[p].story \in deps[t] /\ t \in my[p].todo \cup my[p].list
    \/ pc[p] = "pick" /\ t \in my[p].todo
    \/ pc[p] = "status" /\ t \in my[p].todo \cup {my[p].other}

\* A story that is owed an announcement and has not got it is unblocked, and
\* some call will find out.
OwedIsPending ==
    \A t \in owed \ announced :
        /\ deps[t] \subseteq done
        /\ \E p \in Procs : Pending(p, t)

\* What getBlockingStories has asked for so far is complete.
StatusIsSound ==
    \A p \in Procs :
        pc[p] = "status" => /\ my[p].list \subseteq deps[my[p].other]
                            /\ deps[my[p].other] \ my[p].list \subseteq done

InductiveInvariant ==
    /\ TypeOK
    /\ alone /\ Answered => OneAdder /\ NoCycle /\ SearchIsSound
    /\ alone /\ NoFault => IndexInStep
    /\ Calm => NoOverlap /\ OwedIsPending /\ StatusIsSound
=============================================================================
