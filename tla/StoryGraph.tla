----------------------------- MODULE StoryGraph -----------------------------
(***************************************************************************)
(* What the dependency manager promises about the stories of a workspace,  *)
(* with no keys, no reverse index and no calls: a story gets dependencies  *)
(* one by one and never a cycle, a completion makes announcements due, and *)
(* the announcements are made one by one, of stories with nothing left to  *)
(* wait for, before the next dependency is added.  The promise ends with   *)
(* the first event that breaks its premises (breakdown).                   *)
(***************************************************************************)
CONSTANT Stories

VARIABLES
    graph,      \* the stories each story depends on
    complete,   \* the stories that are complete
    due,        \* the stories that were unblocked and not yet announced
    announced,  \* the stories that were announced
    sound       \* no breakdown yet

storyGraph == <<graph, complete, due, announced, sound>>

\* Among any stories there is one that depends on none of them.
Acyclic(g) == \A T \in SUBSET Stories : T # {} => \E s \in T : g[s] \cap T = {}

Init ==
    /\ graph = [s \in Stories |-> {}]
    /\ complete = {} /\ due = {} /\ announced = {}
    /\ sound = TRUE

Depend(s, d) ==
    /\ due = {}
    /\ graph' = [graph EXCEPT ![s] = @ \cup {d}]
    /\ Acyclic(graph')
    /\ UNCHANGED <<complete, due, announced>>

\* The stories that wait for s alone.
Unblocks(s) ==
    {t \in Stories : s \in graph[t] \ complete /\ graph[t] \subseteq complete \cup {s}}

Complete(s) ==
    /\ complete' = complete \cup {s}
    /\ due' = due \cup Unblocks(s)
    /\ announced' = announced \ Unblocks(s)
    /\ UNCHANGED graph

Announce(t) ==
    /\ graph[t] \subseteq complete
    /\ announced' = announced \cup {t}
    /\ due' = due \ {t}
    /\ UNCHANGED <<graph, complete>>

Promised ==
    /\ sound /\ sound'
    /\ \/ \E s, d \in Stories : Depend(s, d)
       \/ \E s \in Stories : Complete(s) \/ Announce(s)

Breakdown == sound' = FALSE

Next == Promised \/ Breakdown

Spec == Init /\ [][Next]_storyGraph
=============================================================================
