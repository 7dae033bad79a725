----------------------------- MODULE SyncProofs -----------------------------
(***************************************************************************)
(* Theorems about IssueSync, for every set of calls, every number of       *)
(* attempts and any number of edits and incidents.                         *)
(***************************************************************************)
EXTENDS IssueSync, TLAPS

\* A call that writes an item, or sends something to the issue of one.
Targets == {"place", "insert", "update", "move", "save", "conflict", "error", "link",
            "view", "send", "shift", "fetch", "write", "settle"}

\* Whatever is written or sent goes to an issue that exists.
IssuesExist ==
    /\ item # NoItem => item.issue \in DOMAIN issues
    /\ \A c \in Calls : call[c].pc \in Targets => call[c].item.issue \in DOMAIN issues
    /\ \A n \in DOMAIN hooks : hooks[n].issue \in DOMAIN issues
    /\ \A n \in DOMAIN hooks :
          hooks[n].pc \in {"conflict", "story", "save"}
             => hooks[n].item.issue = hooks[n].issue

Typed == TypeOK /\ IssuesExist

\* The lock of the story: one call at most goes by it, and its key exists.
OneHolder ==
    "expired" \notin excuse =>
       /\ \A c, d \in Calls : Holds(c) /\ Holds(d) => c = d
       /\ \A c \in Calls : Holds(c) => storyLock

\* An issue that is being made, or that no item was written for, is paid for
\* by an unlink or an incident.
Paid ==
    "expired" \notin excuse =>
       /\ \A c \in Calls : At(c, "create") => created <= unlinks + incidents
       /\ (item = NoItem /\ \A c \in Calls : ~At(c, "place") /\ ~At(c, "insert"))
             => created <= unlinks + incidents
       /\ created <= 1 + unlinks + incidents

InductiveInvariant == Typed /\ OneHolder /\ Paid

-----------------------------------------------------------------------------
(* Types *)

LEMMA InitTyped == Init => Typed
  <1> SUFFICES ASSUME Init
               PROVE  Typed
    OBVIOUS
  <1>1. NoContent \in Content /\ NoItem \in Item
    BY DEF NoContent, Content, NoItem, Item
  <1>2. Idle \in Call /\ Idle.pc = "idle"
    BY <1>1 DEF Idle, Call
  <1>3. item \in Item /\ item.issue \in {0, 1} /\ (item.issue = 0 => item = NoItem)
    BY <1>1 DEF Init, NoItem, Item
  <1>4. scenario.edits \in Nat /\ scenario.incidents \in Nat
    BY SyncAssumption DEF Init, Scenario
  <1>5. issues \in Seq(Content) /\ DOMAIN issues = {1} /\ hooks \in Seq(Hook)
        /\ DOMAIN hooks = {} /\ Len(hooks) = 0
    BY <1>1 DEF Init
  <1>6. TypeOK
    <2>1. call \in [Calls -> Call] /\ story \in Content
      BY <1>1, <1>2 DEF Init
    <2>2. issueLocks \subseteq DOMAIN issues /\ excuse = {}
      BY DEF Init
    <2>3. /\ edits \in 0 .. scenario.edits /\ incidents \in 0 .. scenario.incidents
          /\ \A n \in 1 .. Len(hooks) : hooks[n].tries < Tries \/ hooks[n].pc = "lost"
      BY <1>4, <1>5 DEF Init
    <2>4. QED
      BY <1>3, <1>5, <2>1, <2>2, <2>3 DEF Init, TypeOK
  <1>7. IssuesExist
    BY <1>2, <1>3, <1>5 DEF Init, IssuesExist, Targets
  <1>8. QED
    BY <1>6, <1>7 DEF Typed

\* What is sent is a content.
LEMMA SentTyped ==
    ASSUME NEW c \in Calls, call \in [Calls -> Call], NEW old \in Content
    PROVE  Sent(c, old) \in Content /\ Moved(c, old) \in Content
  BY DEF Sent, Moved, Call, Content, Field

\* A new job of a webhook.
LEMMA HookTyped ==
    ASSUME NEW i \in Nat, NEW content \in Content
    PROVE  [pc |-> "waiting", issue |-> i, content |-> content, item |-> NoItem,
            tries |-> 0] \in Hook
  BY DEF Hook, NoItem, Item

\* A change of an issue keeps issues and jobs in their types.
LEMMA ChangeTyped ==
    ASSUME Typed, NEW i \in DOMAIN issues, NEW content \in Content, Change(i, content)
    PROVE  /\ issues' \in Seq(Content) /\ hooks' \in Seq(Hook)
           /\ DOMAIN issues' = DOMAIN issues
           /\ \A n \in DOMAIN hooks' :
                 /\ hooks'[n].issue \in DOMAIN issues
                 /\ hooks'[n].tries < Tries \/ hooks'[n].pc = "lost"
                 /\ hooks'[n].pc \in {"conflict", "story", "save"}
                       => hooks'[n].item.issue = hooks'[n].issue
  <1> DEFINE new == [pc |-> "waiting", issue |-> i, content |-> content,
                     item |-> NoItem, tries |-> 0]
  <1>1. new \in Hook
    <2>1. i \in Nat
      BY DEF Typed, TypeOK
    <2>2. QED
      BY <2>1, HookTyped
  <1>2. issues' \in Seq(Content) /\ DOMAIN issues' = DOMAIN issues
    BY DEF Typed, TypeOK, Change
  <1>3. CASE content = issues[i]
    BY <1>2, <1>3 DEF Typed, TypeOK, IssuesExist, Change
  <1>4. CASE content # issues[i]
    <2>1. hooks' = Append(hooks, new) /\ hooks \in Seq(Hook)
      BY <1>4 DEF Typed, TypeOK, Change
    <2>2. hooks' \in Seq(Hook) /\ DOMAIN hooks' = 1 .. Len(hooks) + 1
      BY <1>1, <2>1
    <2>3. /\ \A n \in 1 .. Len(hooks) : hooks'[n] = hooks[n]
          /\ hooks'[Len(hooks) + 1] = new
      BY <2>1
    <2>4. new.issue = i /\ new.tries < Tries /\ new.pc = "waiting"
      BY SyncAssumption
    <2>5. QED
      BY <1>2, <2>1, <2>2, <2>3, <2>4 DEF Typed, TypeOK, IssuesExist
  <1>5. QED
    BY <1>3, <1>4

PCs == {"idle", "story", "item", "create", "release", "done"} \cup Targets

\* One call changes, its target being an issue if it will be used.
LEMMA CallTyped ==
    ASSUME Typed, NEW c \in Calls, NEW entry \in Call,
           entry.pc \in Targets => entry.item.issue \in DOMAIN issues,
           call' = [call EXCEPT ![c] = entry]
    PROVE  /\ call' \in [Calls -> Call]
           /\ \A d \in Calls : call'[d].pc \in Targets
                               => call'[d].item.issue \in DOMAIN issues
  BY DEF Typed, TypeOK, IssuesExist

LEMMA GoToTyped ==
    ASSUME Typed, NEW c \in Calls, NEW pc \in PCs, GoTo(c, pc),
           pc \in Targets => call[c].item.issue \in DOMAIN issues
    PROVE  /\ call' \in [Calls -> Call]
           /\ \A d \in Calls : call'[d].pc \in Targets
                               => call'[d].item.issue \in DOMAIN issues
  <1>1. Done \in Call /\ Done.pc \notin Targets
    BY DEF Done, Idle, NoContent, NoItem, Item, Content, Call, Targets
  <1>2. call[c] \in Call
    BY DEF Typed, TypeOK
  <1>3. [call[c] EXCEPT !.pc = pc] \in Call
    BY <1>2 DEF Call, PCs, Targets
  <1>4. QED
    BY <1>1, <1>2, <1>3, CallTyped DEF GoTo, Call

\* A row that is saved, or inserted.
LEMMA SaveTyped ==
    ASSUME Typed, NEW row \in Item, row.issue \in DOMAIN issues, item' = row \/ Save(row)
    PROVE  /\ item' \in Item
           /\ item' # NoItem => item'.issue \in DOMAIN issues
  BY DEF Save, Typed, TypeOK, IssuesExist

\* A row as it was read, with other values.
LEMMA RowTyped ==
    ASSUME NEW row \in Item, NEW tick \in BOOLEAN,
           NEW status \in {"synced", "conflict", "error"}, NEW last \in {"push", "pull"}
    PROVE  /\ [row EXCEPT !.later = tick, !.status = status, !.last = last] \in Item
           /\ [row EXCEPT !.later = tick, !.status = status] \in Item
           /\ [row EXCEPT !.status = status] \in Item
           /\ [row EXCEPT !.last = last] \in Item
           /\ [row EXCEPT !.later = tick, !.status = status, !.last = last].issue = row.issue
           /\ [row EXCEPT !.later = tick, !.status = status].issue = row.issue
           /\ [row EXCEPT !.status = status].issue = row.issue
           /\ [row EXCEPT !.last = last].issue = row.issue
  BY DEF Item

\* A new issue.
LEMMA NewIssueTyped ==
    ASSUME Typed, NEW c \in Calls, NewIssue(c)
    PROVE  /\ issues' \in Seq(Content) /\ hooks' \in Seq(Hook) /\ created' \in Nat
           /\ DOMAIN issues \subseteq DOMAIN issues' /\ Len(issues) + 1 \in DOMAIN issues'
           /\ \A n \in DOMAIN hooks' :
                 /\ hooks'[n].issue \in DOMAIN issues'
                 /\ hooks'[n].tries < Tries \/ hooks'[n].pc = "lost"
                 /\ hooks'[n].pc \in {"conflict", "story", "save"}
                       => hooks'[n].item.issue = hooks'[n].issue
  <1> DEFINE content == Sent(c, NoContent)
             new == [pc |-> "waiting", issue |-> Len(issues) + 1, content |-> content,
                     item |-> NoItem, tries |-> 0]
  <1>1. content \in Content
    BY SentTyped DEF Typed, TypeOK, NoContent, Content
  <1>2. issues \in Seq(Content) /\ hooks \in Seq(Hook) /\ created \in Nat
    BY DEF Typed, TypeOK
  <1>3. new \in Hook
    <2>1. Len(issues) + 1 \in Nat
      BY <1>2
    <2>2. QED
      BY <1>1, <2>1, HookTyped
  <1>4. issues' = Append(issues, content) /\ hooks' = Append(hooks, new)
        /\ created' = created + 1
    BY DEF NewIssue
  <1> HIDE DEF content
  <1>5. /\ issues' \in Seq(Content) /\ created' \in Nat
        /\ DOMAIN issues \subseteq DOMAIN issues' /\ Len(issues) + 1 \in DOMAIN issues'
    BY <1>1, <1>2, <1>4
  <1>6. /\ hooks' \in Seq(Hook) /\ DOMAIN hooks' = 1 .. Len(hooks) + 1
        /\ \A n \in 1 .. Len(hooks) : hooks'[n] = hooks[n]
        /\ hooks'[Len(hooks) + 1] = new
    BY <1>2, <1>3, <1>4
  <1>7. new.issue = Len(issues) + 1 /\ new.tries < Tries /\ new.pc = "waiting"
    BY SyncAssumption
  <1>8. DOMAIN hooks = 1 .. Len(hooks) /\ DOMAIN hooks' = 1 .. Len(hooks) + 1
    BY <1>2, <1>6
  <1>9. ASSUME NEW n \in 1 .. Len(hooks) + 1
        PROVE  /\ hooks'[n].issue \in DOMAIN issues'
               /\ hooks'[n].tries < Tries \/ hooks'[n].pc = "lost"
               /\ hooks'[n].pc \in {"conflict", "story", "save"}
                     => hooks'[n].item.issue = hooks'[n].issue
    <2>1. CASE n = Len(hooks) + 1
      BY <1>5, <1>6, <1>7, <2>1
    <2>2. CASE n # Len(hooks) + 1
      <3>1. n \in 1 .. Len(hooks)
        BY <1>2, <2>2
      <3>2. QED
        BY <1>5, <1>6, <1>8, <3>1 DEF Typed, TypeOK, IssuesExist
    <2>3. QED
      BY <2>1, <2>2
  <1>10. QED
    BY <1>5, <1>6, <1>8, <1>9

\* The jobs of webhooks are about issues that exist.
JobsFit(jobs) ==
    /\ jobs \in Seq(Hook)
    /\ \A n \in DOMAIN jobs :
          /\ jobs[n].issue \in DOMAIN issues
          /\ jobs[n].tries < Tries \/ jobs[n].pc = "lost"
          /\ jobs[n].pc \in {"conflict", "story", "save"}
                => jobs[n].item.issue = jobs[n].issue

\* One job changes.
LEMMA JobTyped ==
    ASSUME Typed, NEW n \in DOMAIN hooks, NEW job \in Hook,
           job.issue = hooks[n].issue, job.tries < Tries \/ job.pc = "lost",
           job.pc \in {"conflict", "story", "save"} => job.item.issue = job.issue,
           hooks' = [hooks EXCEPT ![n] = job]
    PROVE  JobsFit(hooks')
  <1>1. hooks \in Seq(Hook)
    BY DEF Typed, TypeOK
  <1>2. /\ hooks' \in Seq(Hook) /\ DOMAIN hooks' = DOMAIN hooks
        /\ \A m \in DOMAIN hooks : hooks'[m] = IF m = n THEN job ELSE hooks[m]
    BY <1>1
  <1>3. DOMAIN hooks = 1 .. Len(hooks)
    BY <1>1
  <1>4. QED
    BY <1>2, <1>3 DEF Typed, TypeOK, IssuesExist, JobsFit

\* A job that goes on, or fails.
LEMMA HookToTyped ==
    ASSUME Typed, NEW n \in DOMAIN hooks, hooks[n].pc # "lost",
           NEW pc \in {"item", "fail", "release", "lost"}, HookTo(n, pc) \/ Failed(n)
    PROVE  JobsFit(hooks')
  <1>1. hooks[n] \in Hook /\ hooks[n].tries < Tries
    <2>1. hooks \in Seq(Hook) /\ n \in 1 .. Len(hooks)
      BY DEF Typed, TypeOK
    <2>2. QED
      BY <2>1 DEF Typed, TypeOK
  <1>2. CASE HookTo(n, pc)
    <2> DEFINE job == [hooks[n] EXCEPT !.pc = pc]
    <2>1. /\ job \in Hook /\ job.issue = hooks[n].issue /\ job.tries < Tries
          /\ job.pc \notin {"conflict", "story", "save"}
      BY <1>1 DEF Hook
    <2>2. hooks' = [hooks EXCEPT ![n] = job]
      BY <1>2 DEF HookTo
    <2> HIDE DEF job
    <2>3. QED
      BY <2>1, <2>2, JobTyped
  <1>3. CASE Failed(n)
    <2> DEFINE gone == hooks[n].tries + 1 = Tries
               job == [hooks[n] EXCEPT !.pc = IF gone THEN "lost" ELSE "waiting",
                                       !.item = NoItem, !.tries = @ + 1]
    <2>1. /\ job \in Hook /\ job.issue = hooks[n].issue
          /\ job.pc = IF gone THEN "lost" ELSE "waiting"
          /\ job.tries = hooks[n].tries + 1
      <3>1. NoItem \in Item /\ hooks[n].tries + 1 \in Nat
        BY <1>1 DEF Hook, NoItem, Item
      <3>2. QED
        BY <1>1, <3>1 DEF Hook
    <2>2. job.tries < Tries \/ job.pc = "lost"
      BY <1>1, <2>1, SyncAssumption DEF Hook
    <2>3. hooks' = [hooks EXCEPT ![n] = job]
      BY <1>3 DEF Failed
    <2> HIDE DEF job
    <2>4. QED
      BY <2>1, <2>2, <2>3, JobTyped
  <1>4. QED
    BY <1>2, <1>3

-----------------------------------------------------------------------------

\* What a call sends is a content.
LEMMA ContentTyped ==
    ASSUME Typed, NEW c \in Calls, call[c].pc \in Targets
    PROVE  /\ Sent(c, issues[call[c].item.issue]) \in Content
           /\ Moved(c, issues[call[c].item.issue]) \in Content
  BY SentTyped DEF Typed, IssuesExist, TypeOK

\* A call that sends something to its issue.
LEMMA SendStepTyped ==
    ASSUME Typed, NEW c \in Calls, call[c].pc \in Targets,
           NEW content \in Content, Change(call[c].item.issue, content),
           NEW pc \in PCs, GoTo(c, pc), dirty' \in BOOLEAN,
           UNCHANGED <<scenario, story, item, storyLock, issueLocks, edits, ids,
                       created, unlinks, excuse>>, incidents' \in 0 .. scenario.incidents
    PROVE  Typed'
  <1>1. call[c].item.issue \in DOMAIN issues
    BY DEF Typed, IssuesExist
  <1>2. QED
    BY <1>1, ChangeTyped, GoToTyped DEF Typed, TypeOK, IssuesExist

\* A call that saves a row.
LEMMA SaveStepTyped ==
    ASSUME Typed, NEW c \in Calls, call[c].pc \in Targets,
           NEW row \in Item, row.issue = call[c].item.issue, Save(row),
           NEW pc \in {"error", "release", "done"}, GoTo(c, pc), dirty' \in BOOLEAN,
           GiveSaved(call[c].item),
           UNCHANGED <<scenario, story, issues, storyLock, issueLocks, hooks, edits,
                       ids, incidents, created, unlinks>>
    PROVE  Typed'
  <1>1. call[c].item.issue \in DOMAIN issues
    BY DEF Typed, IssuesExist
  <1>2. excuse' \subseteq excuse \cup {"revived"}
    BY DEF GiveSaved, Give
  <1>3. QED
    BY <1>1, <1>2, SaveTyped, GoToTyped DEF Typed, PCs, Targets, TypeOK, IssuesExist

\* A call that only goes on.
LEMMA GoStepTyped ==
    ASSUME Typed, NEW c \in Calls, NEW pc \in PCs, GoTo(c, pc),
           pc \in Targets => call[c].pc \in Targets,
           dirty' \in BOOLEAN, incidents' \in 0 .. scenario.incidents,
           excuse' = excuse \/ excuse' = excuse \cup {"unread"},
           UNCHANGED <<scenario, story, issues, item, storyLock, issueLocks, hooks, edits,
                       ids, created, unlinks>>
    PROVE  Typed'
  <1>1. pc \in Targets => call[c].item.issue \in DOMAIN issues
    BY DEF Typed, IssuesExist
  <1>2. QED
    BY <1>1, GoToTyped DEF Typed, TypeOK, IssuesExist

LEMMA PushTyped ==
    ASSUME Typed, NEW c \in Calls, Acquire(c) \/ Push(c)
    PROVE  Typed'
  <1> USE DEF Typed
  <1>1. CASE Acquire(c)
    BY <1>1, GoToTyped DEF Acquire, history, TypeOK, IssuesExist, PCs, Targets
  <1>2. CASE ReadStory(c)
    <2> DEFINE entry == [call[c] EXCEPT !.pc = "item", !.content = story]
    <2>1. entry \in Call /\ entry.pc = "item" /\ call' = [call EXCEPT ![c] = entry]
      BY <1>2 DEF ReadStory, TypeOK, Call
    <2> HIDE DEF entry
    <2>2. QED
      BY <1>2, <2>1, CallTyped DEF ReadStory, TypeOK, IssuesExist, Targets
  <1>3. CASE ReadItem(c)
    <2> DEFINE entry == [call[c] EXCEPT !.pc = IF item = NoItem THEN "create" ELSE "update",
                                        !.item = item]
    <2>1. /\ entry \in Call /\ entry.pc = (IF item = NoItem THEN "create" ELSE "update")
          /\ entry.item = item /\ call' = [call EXCEPT ![c] = entry]
      BY <1>3 DEF ReadItem, TypeOK, Call
    <2> HIDE DEF entry
    <2>2. QED
      BY <1>3, <2>1, CallTyped DEF ReadItem, history, TypeOK, IssuesExist, Targets
  <1>4. CASE CreateIssue(c)
    <2> DEFINE pc == IF Linear THEN "insert" ELSE "place"
               entry == [call[c] EXCEPT !.pc = pc, !.item.issue = Len(issues) + 1]
    <2>1. Len(issues) + 1 \in Nat /\ call[c] \in Call /\ call[c].item \in Item
      BY DEF TypeOK, Call
    <2>2. [call[c].item EXCEPT !.issue = Len(issues) + 1] \in Item
      BY <2>1 DEF Item
    <2>3. /\ entry \in Call /\ entry.item.issue = Len(issues) + 1
          /\ call' = [call EXCEPT ![c] = entry]
      BY <1>4, <2>1, <2>2 DEF CreateIssue, Call, Item
    <2> HIDE DEF entry
    <2>4. call' \in [Calls -> Call] /\ \A d \in Calls : d # c => call'[d] = call[d]
          /\ call'[c].item.issue = Len(issues) + 1
      BY <2>3 DEF TypeOK
    <2>5. NewIssue(c)
      BY <1>4 DEF CreateIssue
    <2>6. QED
      BY <1>4, <2>4, <2>5, NewIssueTyped DEF CreateIssue, TypeOK, IssuesExist
  <1>7. CASE PlaceIssue(c)
    <2>1. GoTo(c, "insert") /\ At(c, "place")
      BY <1>7 DEF PlaceIssue
    <2>2. call[c].item.issue \in DOMAIN issues
      BY <2>1 DEF At, IssuesExist, Targets
    <2>3. CASE Change(call[c].item.issue, Moved(c, issues[call[c].item.issue]))
               /\ UNCHANGED dirty
      BY <1>7, <2>1, <2>3, SendStepTyped, ContentTyped DEF PlaceIssue, At, PCs, Targets, TypeOK
    <2>4. CASE Undelivered /\ UNCHANGED <<issues, hooks>>
      BY <1>7, <2>1, <2>2, <2>4, GoToTyped
         DEF PlaceIssue, Undelivered, PCs, Targets, TypeOK, IssuesExist
    <2>5. QED
      BY <1>7, <2>3, <2>4 DEF PlaceIssue
  <1>8. CASE InsertItem(c)
    <2>1. GoTo(c, "release") /\ At(c, "insert") /\ call[c].item.issue \in DOMAIN issues
      BY <1>8 DEF InsertItem, IssuesExist, At, Targets
    <2>2. item' \in Item /\ (item' # NoItem => item'.issue \in DOMAIN issues)
          /\ ids' \in Nat /\ dirty' \in BOOLEAN /\ excuse' \subseteq excuse \cup {"revived"}
      <3>1. CASE item = NoItem
        <4>1. PICK tick \in BOOLEAN :
                 item' = [id |-> ids + 1, issue |-> call[c].item.issue,
                          later |-> tick, status |-> "synced", last |-> "push"]
          BY <1>8, <3>1 DEF InsertItem, Give
        <4>2. item' \in Item /\ item'.issue = call[c].item.issue
          BY <4>1 DEF TypeOK, Item, Call
        <4>3. QED
          BY <1>8, <2>1, <3>1, <4>2 DEF InsertItem, Give, TypeOK
      <3>2. CASE item # NoItem
        BY <1>8, <3>2 DEF InsertItem, Undelivered, TypeOK, IssuesExist
      <3>3. QED
        BY <3>1, <3>2
    <2>3. QED
      BY <1>8, <2>1, <2>2, GoToTyped DEF InsertItem, PCs, Targets, TypeOK, IssuesExist
  <1>9. CASE UpdateIssue(c)
    BY <1>9, SendStepTyped, ContentTyped DEF UpdateIssue, At, history, PCs, Targets, TypeOK
  <1>10. CASE MoveIssue(c)
    <2>1. At(c, "move") /\ call[c].item.issue \in DOMAIN issues
      BY <1>10 DEF MoveIssue, At, IssuesExist, Targets
    <2>2. CASE /\ Change(call[c].item.issue, Moved(c, issues[call[c].item.issue]))
               /\ GoTo(c, "save") /\ UNCHANGED dirty
      BY <1>10, <2>1, <2>2, SendStepTyped, ContentTyped DEF MoveIssue, At, PCs, Targets, TypeOK
    <2>3. CASE GoTo(c, "conflict") /\ Undelivered /\ UNCHANGED <<issues, hooks>>
      BY <1>10, <2>1, <2>3, GoToTyped
         DEF MoveIssue, Undelivered, PCs, Targets, TypeOK, IssuesExist
    <2>4. QED
      BY <1>10, <2>2, <2>3 DEF MoveIssue
  <1>12. call[c].item \in Item
    BY DEF TypeOK, Call
  <1>13. CASE SaveItem(c)
    <2>1. PICK tick \in BOOLEAN :
             Save([call[c].item EXCEPT !.later = tick, !.status = "synced", !.last = "push"])
      BY <1>13 DEF SaveItem
    <2>2. QED
      BY <1>12, <1>13, SaveStepTyped, <2>1, RowTyped DEF SaveItem, At, Targets, history, TypeOK
  <1>14. CASE MarkConflict(c)
    BY <1>12, <1>14, SaveStepTyped, RowTyped DEF MarkConflict, At, Targets, history, TypeOK
  <1>15. CASE MarkError(c)
    BY <1>12, <1>15, SaveStepTyped, RowTyped
       DEF MarkError, Undelivered, At, Targets, history, TypeOK
  <1>16. CASE Release(c)
    BY <1>16, GoToTyped DEF Release, history, TypeOK, IssuesExist, PCs, Targets
  <1>17. QED
    BY <1>1, <1>2, <1>3, <1>4, <1>7, <1>8, <1>9, <1>10, <1>13, <1>14, <1>15, <1>16
       DEF Push

LEMMA ResolveTyped ==
    ASSUME Typed, NEW c \in Calls,
           ResolveStep(c) \/ Resolve(c, "push") \/ Resolve(c, "pull")
    PROVE  Typed'
  <1> USE DEF Typed
  <1>1. ASSUME NEW side \in {"push", "pull"}, Resolve(c, side)
        PROVE  Typed'
    <2> DEFINE pc == IF side = "push" THEN "view" ELSE "fetch"
               row == [item EXCEPT !.last = side]
               entry == [call[c] EXCEPT !.pc = pc, !.item = row]
    <2>1. item # NoItem /\ item \in Item /\ item.issue \in DOMAIN issues
      BY <1>1 DEF Resolve, TypeOK, IssuesExist, NoItem
    <2>2. row \in Item /\ row.issue = item.issue
      BY <1>1, <2>1 DEF Item
    <2> HIDE DEF row
    <2>3. entry \in Call /\ entry.item = row
      BY <2>2 DEF TypeOK, Call
    <2>4. call' = [call EXCEPT ![c] = entry]
      BY <1>1 DEF Resolve, row
    <2> HIDE DEF entry
    <2>5. QED
      BY <1>1, <2>1, <2>2, <2>3, <2>4, CallTyped DEF Resolve, history, TypeOK, IssuesExist
  <1>2. CASE ViewStory(c)
    <2> DEFINE entry == [call[c] EXCEPT !.pc = "send", !.content = story]
    <2>1. /\ entry \in Call /\ entry.item = call[c].item
          /\ call' = [call EXCEPT ![c] = entry]
      BY <1>2 DEF ViewStory, TypeOK, Call
    <2>2. call[c].item.issue \in DOMAIN issues
      BY <1>2 DEF ViewStory, At, IssuesExist, Targets
    <2> HIDE DEF entry
    <2>3. QED
      BY <1>2, <2>1, <2>2, CallTyped DEF ViewStory, TypeOK, IssuesExist
  <1>3. CASE SendStory(c)
    BY <1>3, SendStepTyped, ContentTyped DEF SendStory, At, history, PCs, Targets, TypeOK
  <1>4. CASE ShiftIssue(c)
    <2>1. At(c, "shift") /\ GoTo(c, "settle")
      BY <1>4 DEF ShiftIssue
    <2>2. CASE Change(call[c].item.issue, Moved(c, issues[call[c].item.issue]))
               /\ UNCHANGED dirty
      BY <1>4, <2>1, <2>2, SendStepTyped, ContentTyped
         DEF ShiftIssue, At, PCs, Targets, TypeOK
    <2>3. CASE Undelivered /\ UNCHANGED <<issues, hooks>>
      BY <1>4, <2>1, <2>3, GoStepTyped DEF ShiftIssue, At, Undelivered, PCs, Targets, TypeOK
    <2>4. QED
      BY <1>4, <2>2, <2>3 DEF ShiftIssue
  <1>5. CASE FetchIssue(c)
    <2>1. call[c].item.issue \in DOMAIN issues
      BY <1>5 DEF FetchIssue, At, IssuesExist, Targets
    <2> DEFINE content == issues[call[c].item.issue]
               entry == [call[c] EXCEPT !.pc = "write", !.content = content]
    <2>2. content \in Content
      BY <2>1 DEF TypeOK
    <2>3. /\ entry \in Call /\ entry.item = call[c].item
          /\ call' = [call EXCEPT ![c] = entry]
      BY <1>5, <2>2 DEF FetchIssue, TypeOK, Call
    <2> HIDE DEF entry, content
    <2>4. QED
      BY <1>5, <2>1, <2>3, CallTyped DEF FetchIssue, history, TypeOK, IssuesExist
  <1>6. CASE OverwriteStory(c)
    <2>1. GoTo(c, "settle") /\ call[c].pc \in Targets /\ call[c] \in Call
      BY <1>6 DEF OverwriteStory, At, Targets, TypeOK
    <2>2. call[c].item.issue \in DOMAIN issues
      BY <2>1 DEF IssuesExist
    <2>3. story' \in Content
      BY <1>6, <2>1 DEF OverwriteStory, Call
    <2>4. QED
      BY <1>6, <2>1, <2>2, <2>3, GoToTyped
         DEF OverwriteStory, PCs, Targets, TypeOK, IssuesExist
  <1>7. CASE Settle(c)
    <2>1. call[c].item \in Item
      BY DEF TypeOK, Call
    <2>2. QED
      BY <1>7, <2>1, SaveStepTyped, RowTyped DEF Settle, Refused, At, Targets, TypeOK
  <1>8. QED
    BY <1>1, <1>2, <1>3, <1>4, <1>5, <1>6, <1>7 DEF ResolveStep

LEMMA LinkTyped ==
    ASSUME Typed, NEW c \in Calls,
           Link(c) \/ Unlink(c) \/ \E i \in DOMAIN issues : CheckLink(c, i)
    PROVE  Typed'
  <1> USE DEF Typed
  <1>1. ASSUME NEW i \in DOMAIN issues, CheckLink(c, i)
        PROVE  Typed'
    <2> DEFINE entry == [call[c] EXCEPT !.pc = "link", !.item.issue = i]
    <2>1. i \in Nat /\ call[c] \in Call /\ call[c].item \in Item
      BY DEF TypeOK, Call
    <2>2. [call[c].item EXCEPT !.issue = i] \in Item
      BY <2>1 DEF Item
    <2>3. /\ entry \in Call /\ entry.item.issue = i
          /\ call' = [call EXCEPT ![c] = entry]
      BY <1>1, <2>1, <2>2 DEF CheckLink, Call, Item
    <2> HIDE DEF entry
    <2>4. QED
      BY <1>1, <2>3, CallTyped DEF CheckLink, history, TypeOK, IssuesExist
  <1>2. CASE Link(c)
    <2>1. At(c, "link") /\ GoTo(c, "done") /\ call[c].item.issue \in DOMAIN issues
      BY <1>2 DEF Link, At, IssuesExist, Targets
    <2>2. item' \in Item /\ (item' # NoItem => item'.issue \in DOMAIN issues) /\ ids' \in Nat
          /\ excuse' \subseteq excuse \cup {"crossed"}
      <3>1. CASE item = NoItem
        <4>1. item' = [id |-> ids + 1, issue |-> call[c].item.issue, later |-> FALSE,
                       status |-> "synced", last |-> "none"]
          BY <1>2, <3>1 DEF Link, Give
        <4>2. item' \in Item /\ item'.issue = call[c].item.issue
          BY <4>1 DEF TypeOK, Item, Call
        <4>3. QED
          BY <1>2, <2>1, <3>1, <4>2 DEF Link, Give, TypeOK
      <3>2. CASE item # NoItem
        BY <1>2, <3>2 DEF Link, TypeOK, IssuesExist
      <3>3. QED
        BY <3>1, <3>2
    <2>3. QED
      BY <1>2, <2>1, <2>2, GoToTyped DEF Link, PCs, Targets, TypeOK, IssuesExist
  <1>3. CASE Unlink(c)
    <2>1. GoTo(c, "done") /\ item' = NoItem /\ unlinks' \in Nat
      BY <1>3 DEF Unlink, TypeOK
    <2>2. NoItem \in Item
      BY DEF NoItem, Item
    <2>3. QED
      BY <1>3, <2>1, <2>2, GoToTyped DEF Unlink, PCs, Targets, TypeOK, IssuesExist
  <1>4. QED
    BY <1>1, <1>2, <1>3

\* A step of the jobs.
LEMMA JobsStepTyped ==
    ASSUME Typed, JobsFit(hooks'), story' \in Content, item' \in Item,
           item' # NoItem => item'.issue \in DOMAIN issues,
           issueLocks' \subseteq DOMAIN issues, incidents' \in 0 .. scenario.incidents,
           excuse' \subseteq excuse \cup {"missed", "reordered", "crossed", "revived"},
           dirty' \in BOOLEAN,
           UNCHANGED <<scenario, issues, storyLock, call, edits, ids, created, unlinks>>
    PROVE  Typed'
  <1>1. \A n \in 1 .. Len(hooks') : hooks'[n].tries < Tries \/ hooks'[n].pc = "lost"
    BY DEF JobsFit
  <1>2. TypeOK'
    BY <1>1 DEF Typed, TypeOK, JobsFit
  <1>3. IssuesExist'
    BY DEF Typed, IssuesExist, JobsFit
  <1>4. QED
    BY <1>2, <1>3 DEF Typed

LEMMA JobStepTyped ==
    ASSUME Typed, NEW n \in DOMAIN hooks, HookStep(n) \/ HookFails(n) \/ HookMissed(n)
    PROVE  Typed'
  <1>1. /\ hooks[n] \in Hook /\ hooks[n].issue \in DOMAIN issues
        /\ hooks[n].tries < Tries \/ hooks[n].pc = "lost"
        /\ hooks[n].pc \in {"conflict", "story", "save"}
              => hooks[n].item.issue = hooks[n].issue
    <2>1. hooks \in Seq(Hook) /\ n \in 1 .. Len(hooks)
      BY DEF Typed, TypeOK
    <2>2. QED
      BY <2>1 DEF Typed, TypeOK, IssuesExist
  <1>2. hooks[n].item \in Item /\ hooks[n].content \in Content
    BY <1>1 DEF Hook
  <1>3. /\ story \in Content /\ item \in Item /\ issueLocks \subseteq DOMAIN issues
        /\ item # NoItem => item.issue \in DOMAIN issues
        /\ incidents \in 0 .. scenario.incidents /\ dirty \in BOOLEAN
    BY DEF Typed, TypeOK, IssuesExist
  <1>4. Failed(n) => excuse' \subseteq excuse \cup {"missed"}
    BY DEF Failed, Give
  <1>5. CASE TakeHook(n)
    <2>1. hooks[n].pc = "waiting"
      BY <1>5 DEF TakeHook
    <2>2. Failed(n) \/ HookTo(n, "item")
      BY <1>5 DEF TakeHook
    <2>3. JobsFit(hooks')
      BY <2>1, <2>2, HookToTyped
    <2>4. /\ issueLocks' \subseteq issueLocks \cup {hooks[n].issue}
          /\ excuse' \subseteq excuse \cup {"missed", "reordered"}
      BY <1>4, <1>5 DEF TakeHook, Give
    <2>5. QED
      BY <1>1, <1>3, <1>5, <2>3, <2>4, JobsStepTyped DEF TakeHook
  <1>6. CASE HookItem(n)
    <2> DEFINE pc == IF item.issue # hooks[n].issue THEN "fail"
                     ELSE IF item.later THEN "conflict" ELSE "story"
               job == [hooks[n] EXCEPT !.pc = pc, !.item = item]
    <2>1. /\ job \in Hook /\ job.issue = hooks[n].issue /\ job.tries = hooks[n].tries
          /\ job.item = item /\ job.pc = pc /\ hooks[n].pc # "lost"
      BY <1>1, <1>3, <1>6 DEF HookItem, Hook
    <2>2. hooks' = [hooks EXCEPT ![n] = job]
      BY <1>6 DEF HookItem
    <2>3. job.pc \in {"conflict", "story", "save"} => job.item.issue = job.issue
      BY <2>1
    <2> HIDE DEF job, pc
    <2>4. JobsFit(hooks')
      BY <1>1, <2>1, <2>2, <2>3, JobTyped
    <2>5. QED
      BY <1>3, <1>6, <2>4, JobsStepTyped DEF HookItem, history
  <1>7. CASE HookStory(n)
    <2> DEFINE job == [hooks[n] EXCEPT !.pc = "save"]
    <2>1. /\ job \in Hook /\ job.issue = hooks[n].issue /\ job.tries = hooks[n].tries
          /\ job.item = hooks[n].item /\ hooks[n].pc = "story"
      BY <1>1, <1>7 DEF HookStory, Hook
    <2>2. hooks' = [hooks EXCEPT ![n] = job]
      BY <1>7 DEF HookStory, HookTo
    <2> HIDE DEF job
    <2>3. JobsFit(hooks')
      BY <1>1, <2>1, <2>2, JobTyped
    <2>4. excuse' \subseteq excuse \cup {"crossed"}
      BY <1>7 DEF HookStory, Give
    <2>5. QED
      BY <1>2, <1>3, <1>7, <2>3, <2>4, JobsStepTyped DEF HookStory
  <1>8. ASSUME hooks[n].pc \in {"conflict", "save"}, NEW row \in Item,
               row.issue = hooks[n].item.issue, Save(row),
               NEW pc \in {"fail", "release"}, HookTo(n, pc),
               excuse' \subseteq excuse \cup {"crossed", "revived"},
               UNCHANGED <<scenario, story, issues, storyLock, issueLocks, call, edits,
                           ids, incidents, created, unlinks, dirty>>
        PROVE  Typed'
    <2>1. row.issue \in DOMAIN issues
      BY <1>1, <1>8
    <2>2. item' \in Item /\ (item' # NoItem => item'.issue \in DOMAIN issues)
      BY <1>8, <2>1, SaveTyped
    <2>3. JobsFit(hooks')
      BY <1>8, HookToTyped
    <2>4. QED
      BY <1>3, <1>8, <2>2, <2>3, JobsStepTyped
  <1>9. CASE HookConflict(n)
    <2>1. PICK pc \in {"fail", "release"} : HookTo(n, pc)
      BY <1>9 DEF HookConflict
    <2>2. excuse' \subseteq excuse \cup {"crossed", "revived"}
      BY <1>9 DEF HookConflict, Give
    <2>3. QED
      BY <1>2, <1>8, <1>9, <2>1, <2>2, RowTyped DEF HookConflict
  <1>10. CASE HookSave(n)
    <2>1. PICK pc \in {"fail", "release"} : HookTo(n, pc)
      BY <1>10 DEF HookSave
    <2>2. excuse' \subseteq excuse \cup {"revived"}
      BY <1>10 DEF HookSave, GiveSaved, Give
    <2>3. QED
      BY <1>2, <1>8, <1>10, <2>1, <2>2, RowTyped DEF HookSave
  <1>11. CASE HookEnd(n)
    <2>1. issueLocks' \subseteq issueLocks
      BY <1>11 DEF HookEnd
    <2>2. CASE hooks[n].pc = "release"
      <3> DEFINE job == [hooks[n] EXCEPT !.pc = "done", !.item = NoItem]
      <3>1. NoItem \in Item
        BY DEF NoItem, Item
      <3>2. /\ job \in Hook /\ job.issue = hooks[n].issue /\ job.tries = hooks[n].tries
            /\ job.pc = "done"
        BY <1>1, <3>1 DEF Hook
      <3>3. hooks' = [hooks EXCEPT ![n] = job] /\ excuse' = excuse
        BY <1>11, <2>2 DEF HookEnd, Give
      <3> HIDE DEF job
      <3>4. JobsFit(hooks')
        BY <1>1, <2>2, <3>2, <3>3, JobTyped
      <3>5. QED
        BY <1>3, <1>11, <2>1, <3>3, <3>4, JobsStepTyped DEF HookEnd
    <2>3. CASE hooks[n].pc = "fail"
      <3>1. Failed(n)
        BY <1>11, <2>3 DEF HookEnd
      <3>2. JobsFit(hooks')
        BY <2>3, <3>1, HookToTyped
      <3>3. QED
        BY <1>3, <1>4, <1>11, <2>1, <3>1, <3>2, JobsStepTyped DEF HookEnd
    <2>4. QED
      BY <1>11, <2>2, <2>3 DEF HookEnd
  <1>12. Incident => incidents' \in 0 .. scenario.incidents
    BY SyncAssumption DEF Typed, TypeOK, Scenario, Incident
  <1>13. CASE HookFails(n)
    <2>1. JobsFit(hooks')
      BY <1>13, HookToTyped DEF HookFails, Busy
    <2>2. QED
      BY <1>3, <1>12, <1>13, <2>1, JobsStepTyped DEF HookFails, history
  <1>14. CASE HookMissed(n)
    <2>1. JobsFit(hooks')
      BY <1>14, HookToTyped DEF HookMissed
    <2>2. excuse' \subseteq excuse \cup {"missed"}
      BY <1>14 DEF HookMissed, Give
    <2>3. QED
      BY <1>3, <1>12, <1>14, <2>1, <2>2, JobsStepTyped DEF HookMissed
  <1>15. QED
    BY <1>5, <1>6, <1>7, <1>9, <1>10, <1>11, <1>13, <1>14 DEF HookStep

LEMMA CallIncidentTyped ==
    ASSUME Typed, NEW c \in Calls, CreateAgain(c) \/ Fails(c) \/ FetchUnread(c)
    PROVE  Typed'
  <1> USE DEF Typed
  <1>1. incidents' \in 0 .. scenario.incidents
    <2>1. Incident
      BY DEF CreateAgain, Fails, FetchUnread
    <2>2. QED
      BY <2>1, SyncAssumption DEF TypeOK, Scenario, Incident
  <1>2. CASE CreateAgain(c)
    BY <1>1, <1>2, NewIssueTyped DEF CreateAgain, TypeOK, IssuesExist
  <1>3. CASE FetchUnread(c)
    BY <1>1, <1>3, GoStepTyped DEF FetchUnread, Give, At, PCs, Targets, TypeOK
  <1>4. CASE Fails(c)
    <2>1. PICK pc \in {"error", "release", "done"} :
             GoTo(c, pc) /\ (pc = "error" => call[c].pc \in Targets)
      BY <1>4 DEF Fails, Targets
    <2>2. pc \in PCs /\ (pc \in Targets => call[c].pc \in Targets)
      BY <2>1 DEF PCs, Targets
    <2>3. CASE UNCHANGED <<issues, hooks>>
      BY <1>1, <1>4, <2>1, <2>2, <2>3, GoStepTyped DEF Fails, Undelivered
    <2>4. CASE \/ call[c].pc \in {"update", "send"}
                  /\ Change(call[c].item.issue, Sent(c, issues[call[c].item.issue]))
               \/ call[c].pc \in {"place", "move", "shift"}
                  /\ Change(call[c].item.issue, Moved(c, issues[call[c].item.issue]))
      <3>1. call[c].pc \in Targets
        BY <2>4 DEF Targets
      <3>2. PICK content \in Content : Change(call[c].item.issue, content)
        BY <2>4, <3>1, ContentTyped
      <3>3. QED
        BY <1>1, <1>4, <2>1, <2>2, <3>1, <3>2, SendStepTyped DEF Fails, Undelivered
    <2>5. QED
      BY <1>4, <2>3, <2>4 DEF Fails
  <1>5. QED
    BY <1>2, <1>3, <1>4

LEMMA OutsideTyped ==
    ASSUME Typed,
           \/ \E f \in Field : EditStory(f) \/ \E i \in DOMAIN issues : EditIssue(i, f)
           \/ Crash \/ ExpireStoryLock \/ \E i \in DOMAIN issues : ExpireIssueLock(i)
    PROVE  Typed'
  <1> USE DEF Typed
  <1>1. scenario.edits \in Nat /\ scenario.incidents \in Nat
    BY SyncAssumption DEF TypeOK, Scenario
  <1>2. ASSUME NEW f \in Field, EditStory(f)
        PROVE  Typed'
    BY <1>1, <1>2 DEF EditStory, TypeOK, IssuesExist, Content
  <1>3. ASSUME NEW f \in Field, NEW i \in DOMAIN issues, EditIssue(i, f)
        PROVE  Typed'
    <2> DEFINE content == [issues[i] EXCEPT ![f] = edits + 1]
    <2>1. content \in Content /\ Change(i, content)
      BY <1>3 DEF EditIssue, TypeOK, Content
    <2> HIDE DEF content
    <2>2. QED
      BY <1>1, <1>3, <2>1, ChangeTyped DEF EditIssue, history, TypeOK, IssuesExist
  <1>4. CASE Crash
    <2>1. Done \in Call /\ Done.pc = "done" /\ NoItem \in Item
      BY DEF Done, Idle, NoContent, NoItem, Item, Content, Call
    <2>2. call' \in [Calls -> Call]
          /\ \A c \in Calls : call'[c].pc \in {"idle", "done"}
      BY <1>4, <2>1 DEF Crash, TypeOK
    <2>3. hooks \in Seq(Hook) /\ DOMAIN hooks = 1 .. Len(hooks)
      BY DEF TypeOK
    <2>4. ASSUME NEW n \in DOMAIN hooks
          PROVE  /\ hooks'[n] \in Hook /\ hooks'[n].issue = hooks[n].issue
                 /\ hooks'[n].tries = hooks[n].tries
                 /\ \/ hooks'[n] = hooks[n] /\ ~Busy(n)
                    \/ hooks'[n].pc = "waiting" /\ Busy(n)
      <3>1. hooks[n] \in Hook
        BY <2>3
      <3>2. QED
        BY <1>4, <2>1, <3>1 DEF Crash, Hook
    <2>5. hooks' \in Seq(Hook) /\ DOMAIN hooks' = DOMAIN hooks
      <3>1. hooks' = [n \in 1 .. Len(hooks) |-> hooks'[n]]
        BY <1>4, <2>3 DEF Crash
      <3>2. QED
        BY <2>3, <2>4, <3>1
    <2>6. /\ incidents' \in 0 .. scenario.incidents /\ dirty' \in BOOLEAN
          /\ UNCHANGED <<scenario, story, issues, item, storyLock, issueLocks, edits, ids,
                         created, unlinks, excuse>>
      <3>1. Incident /\ Undelivered
            /\ UNCHANGED <<scenario, story, issues, item, storyLock, issueLocks, edits,
                           ids, created, unlinks, excuse>>
        BY <1>4 DEF Crash
      <3>2. QED
        BY <1>1, <3>1 DEF Incident, Undelivered, TypeOK
    <2>7. TypeOK'
      <3>1. \A n \in 1 .. Len(hooks') : hooks'[n].tries < Tries \/ hooks'[n].pc = "lost"
        <4>1. Len(hooks') = Len(hooks) /\ DOMAIN hooks' = 1 .. Len(hooks)
          BY <2>3, <2>5
        <4>2. \A n \in 1 .. Len(hooks) : hooks[n].tries < Tries \/ hooks[n].pc = "lost"
          BY DEF TypeOK
        <4>3. QED
          BY <2>3, <2>4, <4>1, <4>2 DEF Busy
      <3>2. QED
        BY <2>2, <2>5, <2>6, <3>1 DEF TypeOK
    <2>8. IssuesExist'
      BY <2>2, <2>4, <2>5, <2>6 DEF IssuesExist, Targets
    <2>9. QED
      BY <2>7, <2>8
  <1>5. CASE ExpireStoryLock
    <2>1. incidents' \in 0 .. scenario.incidents /\ excuse' \subseteq excuse \cup {"expired"}
      BY <1>1, <1>5 DEF ExpireStoryLock, Incident, Give, TypeOK
    <2>2. QED
      BY <1>5, <2>1 DEF ExpireStoryLock, TypeOK, IssuesExist
  <1>6. ASSUME NEW i \in DOMAIN issues, ExpireIssueLock(i)
        PROVE  Typed'
    BY <1>1, <1>6 DEF ExpireIssueLock, Incident, history, TypeOK, IssuesExist
  <1>7. QED
    BY <1>2, <1>3, <1>4, <1>5, <1>6

LEMMA StepTyped == Typed /\ [Next]_vars => Typed'
  <1>1. Typed /\ UNCHANGED vars => Typed'
    BY DEF vars, history, Typed, TypeOK, IssuesExist
  <1>2. QED
    BY <1>1, PushTyped, ResolveTyped, LinkTyped, JobStepTyped, CallIncidentTyped,
       OutsideTyped
       DEF Next, CallStep, Stop

-----------------------------------------------------------------------------
(* The lock of the story *)

\* Where a call that changes has come to.
LEMMA GoToMoves ==
    ASSUME Typed, NEW c \in Calls, NEW pc, GoTo(c, pc)
    PROVE  /\ call'[c].pc = pc
           /\ \A d \in Calls : d # c => call'[d] = call[d]
  BY DEF Typed, TypeOK, GoTo, Done, Idle, Call

\* Excuses are not taken back.
LEMMA ExcusesStay == [Next]_vars => excuse \subseteq excuse'
  <1> SUFFICES ASSUME [Next]_vars
               PROVE  excuse \subseteq excuse'
    OBVIOUS
  <1>1. CASE UNCHANGED vars
    BY <1>1 DEF vars, history
  <1>2. ASSUME NEW c \in Calls,
               \/ Acquire(c) \/ CallStep(c) \/ Unlink(c)
               \/ \E side \in {"push", "pull"} : Resolve(c, side)
               \/ \E i \in DOMAIN issues : CheckLink(c, i)
               \/ CreateAgain(c) \/ Fails(c) \/ FetchUnread(c)
        PROVE  excuse \subseteq excuse'
    BY <1>2
       DEF Acquire, CallStep, Push, ReadStory, ReadItem, CreateIssue, PlaceIssue,
           InsertItem, UpdateIssue, MoveIssue, SaveItem, MarkConflict, MarkError, Release,
           ResolveStep, ViewStory, SendStory, ShiftIssue, FetchIssue, OverwriteStory,
           Settle, Link, Unlink, Resolve, CheckLink, CreateAgain, Fails, FetchUnread,
           Give, GiveSaved, history
  <1>3. ASSUME NEW n \in DOMAIN hooks, HookStep(n) \/ HookFails(n) \/ HookMissed(n)
        PROVE  excuse \subseteq excuse'
    BY <1>3
       DEF HookStep, TakeHook, HookItem, HookConflict, HookStory, HookSave, HookEnd,
           HookFails, HookMissed, Failed, Give, GiveSaved, history
  <1>4. CASE \/ \E f \in Field : EditStory(f) \/ \E i \in DOMAIN issues : EditIssue(i, f)
             \/ Crash \/ ExpireStoryLock \/ \E i \in DOMAIN issues : ExpireIssueLock(i)
    BY <1>4 DEF EditStory, EditIssue, Crash, ExpireStoryLock, ExpireIssueLock, Give, history
  <1>5. CASE Stop
    BY <1>5 DEF Stop, vars, history
  <1>6. QED
    BY <1>1, <1>2, <1>3, <1>4, <1>5 DEF Next

\* What neither takes nor gives back the lock makes no holder.
LEMMA NoNewHolder ==
    ASSUME Typed, [Next]_vars, \A c \in Calls : ~Acquire(c), \A c \in Calls : ~Release(c),
           ~ExpireStoryLock
    PROVE  /\ \A c \in Calls : Holds(c)' => Holds(c)
           /\ storyLock' = storyLock
  <1>1. CASE UNCHANGED vars
    BY <1>1 DEF vars, Holds
  <1>2. ASSUME NEW c \in Calls, CallStep(c) \/ CreateAgain(c) \/ Fails(c) \/ FetchUnread(c)
        PROVE  /\ storyLock' = storyLock /\ \A d \in Calls : d # c => call'[d] = call[d]
               /\ Holds(c)' => Holds(c)
    <2>1. CASE ReadStory(c) \/ ReadItem(c) \/ CreateIssue(c)
      BY <2>1 DEF Typed, TypeOK, ReadStory, ReadItem, CreateIssue, At, Holds, Call
    <2>2. CASE PlaceIssue(c) \/ InsertItem(c) \/ UpdateIssue(c) \/ MoveIssue(c)
      <3>1. PICK pc \in {"insert", "release", "save", "move", "conflict"} : GoTo(c, pc)
        BY <2>2 DEF PlaceIssue, InsertItem, UpdateIssue, MoveIssue
      <3>2. storyLock' = storyLock /\ Holds(c)
        BY <2>2 DEF PlaceIssue, InsertItem, UpdateIssue, MoveIssue, At, Holds, Give
      <3>3. QED
        BY <3>1, <3>2, GoToMoves
    <2>3. CASE SaveItem(c) \/ MarkConflict(c) \/ MarkError(c)
      BY <2>3, GoToMoves DEF SaveItem, MarkConflict, MarkError, At, Holds
    <2>4. CASE ViewStory(c) \/ FetchIssue(c)
      BY <2>4 DEF Typed, TypeOK, ViewStory, FetchIssue, At, Holds, Call
    <2>5. CASE SendStory(c) \/ ShiftIssue(c) \/ OverwriteStory(c) \/ Settle(c) \/ Link(c)
               \/ FetchUnread(c)
      <3>1. PICK pc \in {"settle", "shift", "done"} : GoTo(c, pc)
        BY <2>5 DEF SendStory, ShiftIssue, OverwriteStory, Settle, Link, FetchUnread
      <3>2. storyLock' = storyLock
        BY <2>5 DEF SendStory, ShiftIssue, OverwriteStory, Settle, Link, FetchUnread
      <3>3. QED
        BY <3>1, <3>2, GoToMoves DEF Holds
    <2>6. CASE CreateAgain(c)
      BY <2>6 DEF CreateAgain, Holds
    <2>7. CASE Fails(c)
      BY <2>7, GoToMoves DEF Fails, Holds
    <2>8. QED
      BY <1>2, <2>1, <2>2, <2>3, <2>4, <2>5, <2>6, <2>7 DEF CallStep, Push, ResolveStep
  <1>3. ASSUME NEW c \in Calls,
               \/ Unlink(c) \/ \E side \in {"push", "pull"} : Resolve(c, side)
               \/ \E i \in DOMAIN issues : CheckLink(c, i)
        PROVE  /\ storyLock' = storyLock /\ \A d \in Calls : d # c => call'[d] = call[d]
               /\ Holds(c)' => Holds(c)
    <2>1. CASE Unlink(c)
      BY <2>1, GoToMoves DEF Unlink, Holds
    <2>2. CASE \E side \in {"push", "pull"} : Resolve(c, side)
      BY <2>2 DEF Typed, TypeOK, Resolve, Holds, Call
    <2>3. CASE \E i \in DOMAIN issues : CheckLink(c, i)
      BY <2>3 DEF Typed, TypeOK, CheckLink, Holds, Call
    <2>4. QED
      BY <1>3, <2>1, <2>2, <2>3
  <1>4. ASSUME NEW n \in DOMAIN hooks, HookStep(n) \/ HookFails(n) \/ HookMissed(n)
        PROVE  UNCHANGED <<call, storyLock>>
    BY <1>4
       DEF HookStep, TakeHook, HookItem, HookConflict, HookStory, HookSave, HookEnd,
           HookFails, HookMissed
  <1>5. CASE \/ \E f \in Field : EditStory(f) \/ \E i \in DOMAIN issues : EditIssue(i, f)
             \/ Stop \/ \E i \in DOMAIN issues : ExpireIssueLock(i)
    BY <1>5 DEF EditStory, EditIssue, ExpireIssueLock, Stop, vars, Holds
  <1>6. CASE Crash
    BY <1>6 DEF Typed, TypeOK, Crash, Holds, Done, Idle
  <1>7. ASSUME NEW c \in Calls, Holds(c)' => Holds(c),
               \A d \in Calls : d # c => call'[d] = call[d]
        PROVE  \A d \in Calls : Holds(d)' => Holds(d)
    BY <1>7 DEF Holds
  <1>8. UNCHANGED call => \A c \in Calls : Holds(c)' => Holds(c)
    BY DEF Holds
  <1>9. QED
    BY <1>1, <1>2, <1>3, <1>4, <1>5, <1>6, <1>7, <1>8 DEF Next

LEMMA StepHeld == Typed /\ OneHolder /\ [Next]_vars => OneHolder'
  <1> SUFFICES ASSUME Typed, OneHolder, [Next]_vars, "expired" \notin excuse'
               PROVE  /\ \A c, d \in Calls : Holds(c)' /\ Holds(d)' => c = d
                      /\ \A c \in Calls : Holds(c)' => storyLock'
    BY DEF OneHolder
  <1>1. "expired" \notin excuse
    BY ExcusesStay
  <1>2. /\ \A c, d \in Calls : Holds(c) /\ Holds(d) => c = d
        /\ \A c \in Calls : Holds(c) => storyLock
    BY <1>1 DEF OneHolder
  <1>3. ASSUME NEW c \in Calls, Acquire(c)
        PROVE  /\ storyLock' /\ \A d \in Calls : d # c /\ Holds(d)' => Holds(d)
               /\ Holds(c)' => ~storyLock
    BY <1>3, GoToMoves DEF Acquire, Holds
  <1>4. ASSUME NEW c \in Calls, Release(c)
        PROVE  /\ Holds(c) /\ ~Holds(c)' /\ \A d \in Calls : d # c /\ Holds(d)' => Holds(d)
    BY <1>4, GoToMoves DEF Release, At, Holds
  <1>5. CASE ExpireStoryLock
    BY <1>5 DEF ExpireStoryLock, Give, Holds
  <1>6. QED
    BY <1>2, <1>3, <1>4, <1>5, NoNewHolder

-----------------------------------------------------------------------------
(* The issues that pushes create *)

\* A row that is saved is an item.
LEMMA SavedIsAnItem ==
    ASSUME Typed, NEW row, row # NoItem, Save(row)
    PROVE  item' = NoItem => item = NoItem
  BY DEF Save

\* What makes no issue and takes no item away leaves the account as it is.
LEMMA PaidStays ==
    ASSUME Typed, OneHolder, Paid, "expired" \notin excuse,
           created' = created, unlinks' = unlinks, incidents' \in {incidents, incidents + 1},
           item' = NoItem => item = NoItem,
           \A c \in Calls : At(c, "create")' => At(c, "create"),
           \/ \A c \in Calls : At(c, "place") \/ At(c, "insert")
                               => At(c, "place")' \/ At(c, "insert")' \/ item' # NoItem
           \/ incidents' = incidents + 1
    PROVE  Paid'
  <1>1. /\ created \in Nat /\ unlinks \in Nat /\ incidents \in Nat
        /\ created <= 1 + unlinks + incidents
    BY DEF Typed, TypeOK, Paid
  <1>2. created <= unlinks + incidents => created <= unlinks + incidents'
    <2>1. CASE incidents' = incidents
      BY <1>1, <2>1
    <2>2. CASE incidents' = incidents + 1
      BY <1>1, <2>2
    <2>3. QED
      BY <2>1, <2>2
  <1>3. created <= 1 + unlinks + incidents'
    <2>1. CASE incidents' = incidents
      BY <1>1, <2>1
    <2>2. CASE incidents' = incidents + 1
      BY <1>1, <2>2
    <2>3. QED
      BY <2>1, <2>2
  <1>4. ASSUME NEW c \in Calls, At(c, "create")
        PROVE  created <= unlinks + incidents
    BY <1>4 DEF Paid
  <1>5. ASSUME item' = NoItem, \A c \in Calls : ~At(c, "place")' /\ ~At(c, "insert")'
        PROVE  created <= unlinks + incidents'
    <2>1. CASE incidents' = incidents + 1
      BY <1>1, <2>1
    <2>2. CASE \A c \in Calls : ~At(c, "place") /\ ~At(c, "insert")
      <3>1. item = NoItem
        BY <1>5
      <3>2. created <= unlinks + incidents
        BY <2>2, <3>1 DEF Paid
      <3>3. QED
        BY <1>2, <3>2
    <2>3. QED
      BY <1>5, <2>1, <2>2 DEF At
  <1>6. QED
    <2>1. \A c \in Calls : At(c, "create")' => created <= unlinks + incidents'
      BY <1>2, <1>4
    <2>2. QED
      BY <1>3, <1>5, <2>1 DEF Paid

LEMMA StepPaid == Typed /\ OneHolder /\ Paid /\ [Next]_vars => Paid'
  <1> SUFFICES ASSUME Typed, OneHolder, Paid, [Next]_vars, "expired" \notin excuse'
               PROVE  Paid'
    BY DEF Paid
  <1>1. "expired" \notin excuse
    BY ExcusesStay
  <1>2. created \in Nat /\ unlinks \in Nat /\ incidents \in Nat
    BY DEF Typed, TypeOK
  <1>3. CASE UNCHANGED vars
    BY <1>3 DEF vars, history, Paid, At
  <1>4. ASSUME NEW c \in Calls, CallStep(c) \/ CreateAgain(c) \/ Fails(c)
        PROVE  Paid'
    <2>1. call \in [Calls -> Call] /\ call[c].item \in Item
      BY DEF Typed, TypeOK, Call
    <2>2. CASE ReadStory(c)
      BY <1>1, <2>1, <2>2, PaidStays DEF ReadStory, At, Call
    <2>3. CASE ReadItem(c)
      <3>1. /\ UNCHANGED <<created, unlinks, incidents, item, excuse>>
            /\ \A d \in Calls : d # c => call'[d] = call[d]
            /\ At(c, "item")
            /\ At(c, "create")' => item = NoItem
            /\ ~At(c, "place")' /\ ~At(c, "insert")'
        BY <2>1, <2>3 DEF ReadItem, history, At, Call
      <3>2. \A d \in Calls : d # c => ~Holds(d)
        BY <1>1, <3>1 DEF OneHolder, Holds, At
      <3>3. \A d \in Calls : d # c => ~At(d, "create")' /\ ~At(d, "place") /\ ~At(d, "insert")
        BY <3>1, <3>2 DEF Holds, At
      <3>4. QED
        BY <1>1, <3>1, <3>3 DEF Paid, At
    <2>4. CASE CreateIssue(c)
      <3>1. /\ created' = created + 1 /\ UNCHANGED <<unlinks, incidents, item>>
            /\ \A d \in Calls : d # c => call'[d] = call[d]
            /\ At(c, "create") /\ (At(c, "place")' \/ At(c, "insert")') /\ ~At(c, "create")'
        BY <2>1, <2>4 DEF CreateIssue, NewIssue, At, Call
      <3>2. \A d \in Calls : d # c => ~Holds(d)
        BY <1>1, <3>1 DEF OneHolder, Holds, At
      <3>3. \A d \in Calls : ~At(d, "create")'
        BY <3>1, <3>2 DEF Holds, At
      <3>4. QED
        BY <1>1, <1>2, <3>1, <3>3 DEF Paid
    <2>5. CASE PlaceIssue(c) \/ UpdateIssue(c) \/ MoveIssue(c)
      <3>1. UNCHANGED <<created, unlinks, incidents, item>>
        BY <2>5 DEF PlaceIssue, UpdateIssue, MoveIssue, history
      <3>2. PICK pc \in {"insert", "save", "move", "conflict"} :
               GoTo(c, pc) /\ (call[c].pc \in {"place", "insert"} => pc = "insert")
        BY <2>5 DEF PlaceIssue, UpdateIssue, MoveIssue, At
      <3>3. QED
        BY <1>1, <3>1, <3>2, GoToMoves, PaidStays DEF At
    <2>6. CASE InsertItem(c)
      <3>1. UNCHANGED <<created, unlinks, incidents>> /\ GoTo(c, "release")
        BY <2>6 DEF InsertItem
      <3>2. item' # NoItem
        <4>1. item # NoItem \/ item'.status = "synced"
          BY <2>6 DEF InsertItem, Give
        <4>2. item # NoItem => item' = item
          BY <2>6 DEF InsertItem
        <4>3. QED
          BY <4>1, <4>2 DEF NoItem
      <3>3. QED
        BY <1>1, <3>1, <3>2, GoToMoves, PaidStays DEF At
    <2>7. ASSUME NEW row, row # NoItem, Save(row), NEW pc \in {"error", "release", "done"},
                 GoTo(c, pc), ~At(c, "place"), ~At(c, "insert"),
                 UNCHANGED <<created, unlinks, incidents>>
          PROVE  Paid'
      BY <1>1, <2>7, GoToMoves, SavedIsAnItem, PaidStays DEF At
    <2>8. /\ \A tick : [call[c].item EXCEPT !.later = tick, !.status = "synced",
                                            !.last = "push"] # NoItem
          /\ [call[c].item EXCEPT !.status = "conflict"] # NoItem
          /\ [call[c].item EXCEPT !.status = "error"] # NoItem
          /\ [call[c].item EXCEPT !.later = FALSE, !.status = "synced"] # NoItem
      BY <2>1 DEF Item, NoItem
    <2>9. CASE SaveItem(c)
      BY <2>7, <2>8, <2>9 DEF SaveItem, At, history
    <2>10. CASE MarkConflict(c)
      BY <2>7, <2>8, <2>10 DEF MarkConflict, At, history
    <2>11. CASE MarkError(c)
      BY <2>7, <2>8, <2>11 DEF MarkError, At
    <2>12. CASE Settle(c)
      BY <2>7, <2>8, <2>12 DEF Settle, At, history
    <2>13. CASE Release(c) \/ SendStory(c) \/ ShiftIssue(c) \/ OverwriteStory(c)
      <3>1. UNCHANGED <<created, unlinks, incidents, item>>
        BY <2>13 DEF Release, SendStory, ShiftIssue, OverwriteStory, history
      <3>2. PICK pc \in {"done", "settle", "shift"} :
               GoTo(c, pc) /\ ~At(c, "place") /\ ~At(c, "insert")
        BY <2>13 DEF Release, SendStory, ShiftIssue, OverwriteStory, At
      <3>3. QED
        BY <1>1, <3>1, <3>2, GoToMoves, PaidStays DEF At
    <2>14. CASE ViewStory(c) \/ FetchIssue(c)
      BY <1>1, <2>1, <2>14, PaidStays DEF ViewStory, FetchIssue, At, Call, history
    <2>15. CASE Link(c)
      <3>1. UNCHANGED <<created, unlinks, incidents>> /\ GoTo(c, "done") /\ At(c, "link")
        BY <2>15 DEF Link
      <3>2. item' # NoItem
        <4>1. item # NoItem \/ item'.status = "synced"
          BY <2>15 DEF Link, Give
        <4>2. item # NoItem => item' = item
          BY <2>15 DEF Link
        <4>3. QED
          BY <4>1, <4>2 DEF NoItem
      <3>3. QED
        BY <1>1, <3>1, <3>2, GoToMoves, PaidStays DEF At
    <2>16. CASE CreateAgain(c)
      <3>1. /\ created' = created + 1 /\ incidents' = incidents + 1
            /\ UNCHANGED <<unlinks, call, item>>
        BY <2>16 DEF CreateAgain, NewIssue, Incident
      <3>2. QED
        BY <1>1, <1>2, <3>1 DEF Paid, At
    <2>17. CASE Fails(c)
      <3>1. incidents' = incidents + 1 /\ UNCHANGED <<created, unlinks, item>>
            /\ \E pc \in {"error", "release", "done"} : GoTo(c, pc)
        BY <2>17 DEF Fails, Incident
      <3>2. QED
        BY <1>1, <3>1, GoToMoves, PaidStays DEF At
    <2>18. QED
      BY <1>4, <2>2, <2>3, <2>4, <2>5, <2>6, <2>9, <2>10, <2>11, <2>12, <2>13, <2>14,
         <2>15, <2>16, <2>17
         DEF CallStep, Push, ResolveStep
  <1>5. ASSUME NEW c \in Calls, Acquire(c) \/ FetchUnread(c)
        PROVE  Paid'
    <2>1. /\ UNCHANGED <<created, unlinks, item>> /\ incidents' \in {incidents, incidents + 1}
          /\ \E pc \in {"done", "story", "settle"} : GoTo(c, pc)
          /\ ~At(c, "place") /\ ~At(c, "insert")
      BY <1>5 DEF Acquire, FetchUnread, Incident, At, history
    <2>2. QED
      BY <1>1, <2>1, GoToMoves, PaidStays DEF At
  <1>6. ASSUME NEW c \in Calls, Unlink(c)
        PROVE  Paid'
    <2>1. /\ UNCHANGED <<created, incidents>> /\ unlinks' = unlinks + 1
          /\ \A d \in Calls : At(d, "create")' => At(d, "create")
      BY <1>6, GoToMoves DEF Unlink, At
    <2>2. QED
      BY <1>1, <1>2, <2>1 DEF Paid
  <1>7. ASSUME NEW c \in Calls,
               \/ \E side \in {"push", "pull"} : Resolve(c, side)
               \/ \E i \in DOMAIN issues : CheckLink(c, i)
        PROVE  Paid'
    <2>1. call \in [Calls -> Call]
      BY DEF Typed, TypeOK
    <2>2. /\ UNCHANGED <<created, unlinks, incidents, item>>
          /\ \A d \in Calls : d # c => call'[d] = call[d]
          /\ ~At(c, "create")' /\ ~At(c, "place") /\ ~At(c, "insert")
      BY <1>7, <2>1 DEF Resolve, CheckLink, At, Call, history
    <2>3. QED
      BY <1>1, <2>2, PaidStays DEF At
  <1>8. ASSUME NEW n \in DOMAIN hooks, HookStep(n) \/ HookFails(n) \/ HookMissed(n)
        PROVE  Paid'
    <2>1. hooks[n].item \in Item
      <3>1. hooks \in Seq(Hook) /\ n \in 1 .. Len(hooks)
        BY DEF Typed, TypeOK
      <3>2. hooks[n] \in Hook
        BY <3>1
      <3>3. QED
        BY <3>2 DEF Hook
    <2>2. /\ [hooks[n].item EXCEPT !.status = "conflict"] # NoItem
          /\ [hooks[n].item EXCEPT !.later = FALSE, !.status = "synced",
                                   !.last = "pull"] # NoItem
      BY <2>1 DEF Item, NoItem
    <2>3. item' = NoItem => item = NoItem
      BY <1>8, <2>2, SavedIsAnItem
         DEF HookStep, TakeHook, HookItem, HookConflict, HookStory, HookSave, HookEnd,
             HookFails, HookMissed
    <2>4. UNCHANGED <<call, created, unlinks>> /\ incidents' \in {incidents, incidents + 1}
      BY <1>8
         DEF HookStep, TakeHook, HookItem, HookConflict, HookStory, HookSave, HookEnd,
             HookFails, HookMissed, Incident, history
    <2>5. QED
      BY <1>1, <2>3, <2>4, PaidStays DEF At
  <1>9. CASE \/ \E f \in Field : EditStory(f) \/ \E i \in DOMAIN issues : EditIssue(i, f)
             \/ Stop \/ ExpireStoryLock \/ \E i \in DOMAIN issues : ExpireIssueLock(i)
    <2>1. UNCHANGED <<call, item, created, unlinks>>
          /\ incidents' \in {incidents, incidents + 1}
      BY <1>9
         DEF EditStory, EditIssue, ExpireStoryLock, ExpireIssueLock, Stop, vars, Incident,
             history
    <2>2. QED
      BY <1>1, <2>1, PaidStays DEF At
  <1>10. CASE Crash
    <2>1. /\ UNCHANGED <<item, created, unlinks>> /\ incidents' = incidents + 1
          /\ \A c \in Calls : ~At(c, "create")'
      BY <1>10 DEF Typed, TypeOK, Crash, Incident, At, Done, Idle
    <2>2. QED
      BY <1>1, <2>1, PaidStays
  <1>11. QED
    BY <1>3, <1>4, <1>5, <1>6, <1>7, <1>8, <1>9, <1>10 DEF Next

-----------------------------------------------------------------------------
(* Theorems *)

\* The types, the issues that exist, the lock and the account are kept.
THEOREM Inductive == Spec => []InductiveInvariant
  <1>1. Init => InductiveInvariant
    <2>1. Init => OneHolder /\ Paid
      BY DEF Init, OneHolder, Paid, Holds, At, Idle
    <2>2. QED
      BY <2>1, InitTyped DEF InductiveInvariant
  <1>2. InductiveInvariant /\ [Next]_vars => InductiveInvariant'
    BY StepTyped, StepHeld, StepPaid DEF InductiveInvariant
  <1>3. QED
    BY <1>1, <1>2, PTL DEF Spec

\* The synchronisation keeps its types.
THEOREM TypeCorrect == Spec => []TypeOK
  <1>1. InductiveInvariant => TypeOK
    BY DEF InductiveInvariant, Typed
  <1>2. QED
    BY <1>1, Inductive, PTL

\* However many calls push a story at once, they never both create its issue.
THEOREM IssueIsOne == Spec => []OneIssue
  <1>1. InductiveInvariant => OneIssue
    BY DEF InductiveInvariant, Paid, OneIssue
  <1>2. QED
    BY <1>1, Inductive, PTL
=============================================================================
