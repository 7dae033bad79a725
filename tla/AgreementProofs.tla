-------------------------- MODULE AgreementProofs --------------------------
(***************************************************************************)
(* Story and issue agree in the end: the theorem about SyncedAgree, for    *)
(* every set of calls, every number of attempts and any number of edits    *)
(* and incidents.                                                          *)
(*                                                                         *)
(* The argument: as long as nothing excuses it, a story that is going to   *)
(* be shown as synchronised is the same as its issue, or something is      *)
(* still under way that will make it the same or say that it is not: a     *)
(* webhook of the queue, or a call that goes by what it has read.          *)
(***************************************************************************)
EXTENDS SyncProofs

\* Nothing excuses a difference.  (Locks that expire early do not.)
Good == excuse \subseteq {"expired"}

\* What has read an item and may yet save it.
Reads == {"update", "move", "save", "conflict", "error", "view", "send", "shift",
          "fetch", "write", "settle"}
Reader(c) == call[c].pc \in Reads
JobReads(n) == hooks[n].pc \in {"conflict", "story", "save"}

\* An item is numbered when it is inserted, and the present one, if there is
\* one, is the last.
Numbered ==
    /\ ids > 0
    /\ item = NoItem \/ item.id = ids
    /\ \A c \in Calls : Reader(c) => 0 < call[c].item.id /\ call[c].item.id <= ids
    /\ \A n \in DOMAIN hooks :
          JobReads(n) => 0 < hooks[n].item.id /\ hooks[n].item.id <= ids

\* The last item ties the story to issue i, for all who have read it.
Ties(i) ==
    \/ item.id = ids /\ item.issue = i
    \/ \E c \in Calls : Reader(c) /\ call[c].item.id = ids /\ call[c].item.issue = i
    \/ \E n \in DOMAIN hooks :
          JobReads(n) /\ hooks[n].item.id = ids /\ hooks[n].issue = i
TiedToOne == \A i, j \in DOMAIN issues : Ties(i) /\ Ties(j) => i = j

\* Nothing is lost; the webhooks of an issue are worked off in their order; and
\* the last of them shows the issue as it is.
InOrder ==
    /\ \A n \in DOMAIN hooks : hooks[n].pc # "lost"
    /\ \A m, n \in DOMAIN hooks :
          m < n /\ hooks[m].issue = hooks[n].issue /\ hooks[m].pc # "done"
             => hooks[n].pc = "waiting"
    /\ \A n \in DOMAIN hooks :
          \/ hooks[n].content = issues[hooks[n].issue]
          \/ \E m \in DOMAIN hooks : n < m /\ hooks[m].issue = hooks[n].issue

\* A webhook that will yet write the story, or fail.
Open(n) ==
    \/ hooks[n].pc \in {"waiting", "item", "conflict", "story", "fail"}
    \/ hooks[n].pc = "save" /\ hooks[n].item.id # ids
Opens == \E n \in DOMAIN hooks : Open(n)

\* A call that will yet send the story as it is, or find that the item it read
\* has been replaced, or say what failed.
Bound(c) ==
    \/ call[c].pc \in {"item", "create", "update", "send"} /\ call[c].content = story
    \/ /\ call[c].pc \in {"move", "shift"} /\ call[c].content = story
       /\ call[c].item.id = ids
       /\ issues[call[c].item.issue]["text"] = story["text"]
    \/ Reader(c) /\ call[c].pc # "view" /\ call[c].pc # "fetch" /\ call[c].item.id # ids
    \/ At(c, "error")
Bounds == \E c \in Calls : Bound(c)

\* The story is the same as issue i, or will be, or will not be shown as such.
Agrees(i) == dirty \/ story = issues[i] \/ Opens \/ Bounds

\* A call that may save the item as synchronised without another look.
Live(c) ==
    \/ At(c, "item")
    \/ call[c].pc \in {"update", "move", "save", "send", "shift", "settle"}
       /\ call[c].item.id = ids

\* The story is shown as synchronised, or will be.
Owing ==
    \/ item.status = "synced" /\ item.last # "none"
    \/ \E c \in Calls : Live(c)
    \/ \E n \in DOMAIN hooks : hooks[n].pc = "save" /\ hooks[n].item.id = ids
OwingAgrees == Owing => \A i \in DOMAIN issues : Ties(i) => Agrees(i)

\* The issue that a resolution is going to write over the story.
Fetched == \A c \in Calls :
    At(c, "write") /\ call[c].item.id = ids
       => Opens \/ call[c].content = issues[call[c].item.issue]

Agreement == Numbered /\ TiedToOne /\ InOrder /\ OwingAgrees /\ Fetched
AgreementInvariant == Typed /\ (Good => Agreement)

-----------------------------------------------------------------------------
(* What a step of a job does to the jobs *)

\* The others stay as they are.
OtherJobs(n) ==
    /\ DOMAIN hooks' = DOMAIN hooks
    /\ \A m \in DOMAIN hooks : m # n => hooks'[m] = hooks[m]
    /\ hooks'[n].issue = hooks[n].issue
    /\ hooks'[n].content = hooks[n].content

LEMMA HookToMoves ==
    ASSUME Typed, NEW n \in DOMAIN hooks, NEW pc, HookTo(n, pc)
    PROVE  /\ OtherJobs(n)
           /\ hooks'[n].pc = pc
           /\ hooks'[n].item = hooks[n].item
  <1>1. hooks \in Seq(Hook) /\ hooks[n] \in Hook
    BY DEF Typed, TypeOK
  <1>2. DOMAIN hooks' = DOMAIN hooks
        /\ \A m \in DOMAIN hooks : hooks'[m] = IF m = n THEN [hooks[n] EXCEPT !.pc = pc]
                                                        ELSE hooks[m]
    BY <1>1 DEF HookTo
  <1>3. QED
    BY <1>1, <1>2 DEF OtherJobs, Hook

\* A job that fails is given again, unless its webhook is missed.
LEMMA FailedMoves ==
    ASSUME Typed, NEW n \in DOMAIN hooks, Failed(n), Good'
    PROVE  /\ OtherJobs(n)
           /\ hooks'[n].pc = "waiting"
  <1>1. hooks \in Seq(Hook) /\ hooks[n] \in Hook
    BY DEF Typed, TypeOK
  <1>2. hooks[n].tries + 1 # Tries
    BY DEF Failed, Give, Good
  <1>3. DOMAIN hooks' = DOMAIN hooks
        /\ \A m \in DOMAIN hooks :
              hooks'[m] = IF m = n THEN [hooks[n] EXCEPT !.pc = "waiting", !.item = NoItem,
                                                         !.tries = @ + 1]
                                   ELSE hooks[m]
    BY <1>1, <1>2 DEF Failed
  <1>4. QED
    BY <1>1, <1>3 DEF OtherJobs, Hook

\* What a step of job n does, as long as nothing excuses it.
JobStep(n) == HookStep(n) \/ HookFails(n) \/ HookMissed(n)

LEMMA JobMoves ==
    ASSUME Typed, NEW n \in DOMAIN hooks, JobStep(n), Good'
    PROVE  /\ OtherJobs(n)
           /\ UNCHANGED <<issues, call, ids>>
           /\ \/ HookConflict(n) \/ HookStory(n) \/ HookSave(n)
              \/ /\ UNCHANGED <<story, item, dirty>>
                 /\ \/ hooks[n].pc = "waiting" /\ ~Overtakes(n) /\ hooks'[n].pc = "item"
                    \/ /\ hooks[n].pc = "item" /\ item.issue = hooks[n].issue
                       /\ hooks'[n].pc \in {"conflict", "story"} /\ hooks'[n].item = item
                    \/ Busy(n) /\ hooks'[n].pc = "fail"
                    \/ hooks[n].pc \in {"waiting", "fail"} /\ hooks'[n].pc = "waiting"
                    \/ hooks[n].pc = "release" /\ hooks'[n].pc = "done"
  <1>1. hooks \in Seq(Hook) /\ hooks[n] \in Hook
    BY DEF Typed, TypeOK
  <1>2. CASE TakeHook(n)
    <2>1. CASE hooks[n].issue \in issueLocks
      BY <1>2, <2>1, FailedMoves DEF TakeHook
    <2>2. CASE hooks[n].issue \notin issueLocks
      BY <1>2, <2>2, HookToMoves DEF TakeHook, Give, Good
    <2>3. QED
      BY <2>1, <2>2
  <1>3. CASE HookItem(n)
    <2>1. DOMAIN hooks' = DOMAIN hooks
          /\ \A m \in DOMAIN hooks : hooks'[m] =
                IF m = n THEN [hooks[n] EXCEPT !.pc = IF item.issue # hooks[n].issue THEN "fail"
                                                ELSE IF item.later THEN "conflict" ELSE "story",
                                               !.item = item]
                         ELSE hooks[m]
      BY <1>1, <1>3 DEF HookItem
    <2>2. OtherJobs(n)
      BY <1>1, <2>1 DEF OtherJobs, Hook
    <2>3. /\ hooks'[n].item = item
          /\ \/ hooks'[n].pc = "fail"
             \/ item.issue = hooks[n].issue /\ hooks'[n].pc \in {"conflict", "story"}
      BY <1>1, <2>1 DEF Hook
    <2>4. QED
      BY <1>3, <2>2, <2>3 DEF HookItem, Busy, history
  <1>4. CASE HookConflict(n) \/ HookStory(n) \/ HookSave(n)
    <2>1. \E pc : HookTo(n, pc)
      BY <1>4 DEF HookConflict, HookStory, HookSave
    <2>2. UNCHANGED <<issues, call, ids>>
      BY <1>4 DEF HookConflict, HookStory, HookSave
    <2>3. QED
      BY <1>4, <2>1, <2>2, HookToMoves
  <1>5. CASE HookEnd(n) /\ hooks[n].pc = "fail"
    BY <1>5, FailedMoves DEF HookEnd
  <1>6. CASE HookEnd(n) /\ hooks[n].pc = "release"
    <2>1. DOMAIN hooks' = DOMAIN hooks
          /\ \A m \in DOMAIN hooks : hooks'[m] =
                IF m = n THEN [hooks[n] EXCEPT !.pc = "done", !.item = NoItem] ELSE hooks[m]
      BY <1>1, <1>6 DEF HookEnd
    <2>2. OtherJobs(n) /\ hooks'[n].pc = "done"
      BY <1>1, <2>1 DEF OtherJobs, Hook
    <2>3. QED
      BY <1>6, <2>2 DEF HookEnd
  <1>7. CASE HookFails(n)
    BY <1>7, HookToMoves DEF HookFails, Busy, history
  <1>8. CASE HookMissed(n)
    BY <1>8 DEF HookMissed, Give, Good
  <1>9. QED
    BY <1>2, <1>3, <1>4, <1>5, <1>6, <1>7, <1>8 DEF JobStep, HookStep, HookEnd

-----------------------------------------------------------------------------
(* What a change of an issue does to the jobs *)

\* An issue has changed, or is new, and a job that shows it waits.
Reports ==
    /\ DOMAIN issues \subseteq DOMAIN issues'
    /\ \E i \in DOMAIN issues' :
          /\ hooks' = Append(hooks, [pc |-> "waiting", issue |-> i, content |-> issues'[i],
                                    item |-> NoItem, tries |-> 0])
          /\ \A j \in DOMAIN issues : j # i => issues'[j] = issues[j]

LEMMA ChangeReports ==
    ASSUME Typed, NEW i \in DOMAIN issues, NEW content, Change(i, content)
    PROVE  \/ UNCHANGED <<issues, hooks>> /\ content = issues[i]
           \/ Reports
  <1>1. issues \in Seq(Content)
    BY DEF Typed, TypeOK
  <1>2. CASE content = issues[i]
    <2>1. issues' = issues
      BY <1>1, <1>2 DEF Change
    <2>2. QED
      BY <1>2, <2>1 DEF Change
  <1>3. CASE content # issues[i]
    <2>1. /\ DOMAIN issues' = DOMAIN issues /\ issues'[i] = content
          /\ \A j \in DOMAIN issues : j # i => issues'[j] = issues[j]
      BY <1>1 DEF Change
    <2>2. QED
      BY <1>3, <2>1 DEF Change, Reports
  <1>4. QED
    BY <1>2, <1>3

LEMMA NewIssueReports ==
    ASSUME Typed, NEW c \in Calls, NewIssue(c)
    PROVE  Reports
  <1> DEFINE content == Sent(c, NoContent)
  <1>1. issues \in Seq(Content) /\ content \in Content
    BY SentTyped DEF Typed, TypeOK, NoContent, Content
  <1>2. issues' = Append(issues, content)
        /\ hooks' = Append(hooks, [pc |-> "waiting", issue |-> Len(issues) + 1,
                                  content |-> content, item |-> NoItem, tries |-> 0])
    BY DEF NewIssue
  <1> HIDE DEF content
  <1>3. /\ DOMAIN issues' = 1 .. Len(issues) + 1 /\ DOMAIN issues = 1 .. Len(issues)
        /\ issues'[Len(issues) + 1] = content
        /\ \A j \in DOMAIN issues : issues'[j] = issues[j]
    BY <1>1, <1>2
  <1>4. Len(issues) \in Nat
    BY <1>1
  <1>5. Len(issues) + 1 \in DOMAIN issues' /\ DOMAIN issues \subseteq DOMAIN issues'
    BY <1>3, <1>4
  <1>6. QED
    BY <1>2, <1>3, <1>5 DEF Reports

\* The jobs there were stay as they are.
LEMMA ReportsAppend ==
    ASSUME Typed, Reports
    PROVE  /\ \A n \in DOMAIN hooks : n \in DOMAIN hooks' /\ hooks'[n] = hooks[n]
           /\ \A n \in DOMAIN hooks' : n \in DOMAIN hooks \/ n = Len(hooks) + 1
           /\ Len(hooks) + 1 \in DOMAIN hooks'
           /\ \A n \in DOMAIN hooks : n < Len(hooks) + 1
           /\ LET new == hooks'[Len(hooks) + 1] IN
                 /\ new.pc = "waiting" /\ new.issue \in DOMAIN issues'
                 /\ new.content = issues'[new.issue]
                 /\ \A j \in DOMAIN issues : j # new.issue => issues'[j] = issues[j]
  <1>1. PICK i \in DOMAIN issues' :
           /\ hooks' = Append(hooks, [pc |-> "waiting", issue |-> i, content |-> issues'[i],
                                     item |-> NoItem, tries |-> 0])
           /\ \A j \in DOMAIN issues : j # i => issues'[j] = issues[j]
    BY DEF Reports
  <1>2. hooks \in Seq(Hook) /\ Len(hooks) \in Nat
    BY DEF Typed, TypeOK
  <1>3. /\ DOMAIN hooks' = 1 .. Len(hooks) + 1 /\ DOMAIN hooks = 1 .. Len(hooks)
        /\ \A n \in DOMAIN hooks : hooks'[n] = hooks[n]
        /\ hooks'[Len(hooks) + 1] = [pc |-> "waiting", issue |-> i, content |-> issues'[i],
                                    item |-> NoItem, tries |-> 0]
    BY <1>1, <1>2
  <1>4. QED
    BY <1>1, <1>2, <1>3

LEMMA ReportsOpen ==
    ASSUME Typed, Reports
    PROVE  Opens'
  BY ReportsAppend DEF Opens, Open

LEMMA ReportsInOrder ==
    ASSUME Typed, InOrder, Reports
    PROVE  InOrder'
  <1> DEFINE last == Len(hooks) + 1
  <1>1. /\ \A n \in DOMAIN hooks : n \in DOMAIN hooks' /\ hooks'[n] = hooks[n] /\ n < last
        /\ \A n \in DOMAIN hooks' : n \in DOMAIN hooks \/ n = last
        /\ last \in DOMAIN hooks' /\ hooks'[last].pc = "waiting"
        /\ hooks'[last].content = issues'[hooks'[last].issue]
        /\ \A j \in DOMAIN issues : j # hooks'[last].issue => issues'[j] = issues[j]
    BY ReportsAppend
  <1>2. \A n \in DOMAIN hooks : hooks[n].issue \in DOMAIN issues /\ ~(last < n)
    <2>1. \A n \in DOMAIN hooks : n \in Nat /\ last \in Nat
      BY DEF Typed, TypeOK
    <2>2. QED
      BY <1>1, <2>1 DEF Typed, IssuesExist
  <1> HIDE DEF last
  <1>3. \A n \in DOMAIN hooks' : hooks'[n].pc # "lost"
    BY <1>1 DEF InOrder
  <1>4. ASSUME NEW m \in DOMAIN hooks', NEW n \in DOMAIN hooks',
               m < n, hooks'[m].issue = hooks'[n].issue, hooks'[m].pc # "done"
        PROVE  hooks'[n].pc = "waiting"
    BY <1>1, <1>2, <1>4 DEF InOrder
  <1>5. ASSUME NEW n \in DOMAIN hooks'
        PROVE  \/ hooks'[n].content = issues'[hooks'[n].issue]
               \/ \E m \in DOMAIN hooks' : n < m /\ hooks'[m].issue = hooks'[n].issue
    <2>1. CASE n = last
      BY <1>1, <2>1
    <2>2. CASE n \in DOMAIN hooks /\ hooks[n].issue = hooks'[last].issue
      BY <1>1, <2>2
    <2>3. CASE n \in DOMAIN hooks /\ hooks[n].issue # hooks'[last].issue
      BY <1>1, <1>2, <2>3 DEF InOrder
    <2>4. QED
      BY <1>1, <2>1, <2>2, <2>3
  <1>6. QED
    BY <1>3, <1>4, <1>5 DEF InOrder

-----------------------------------------------------------------------------
(* The rows that were read *)

\* Whoever comes to read an item reads the present one.
ReadersKept == \A c \in Calls : Reader(c)' =>
    \/ Reader(c) /\ call'[c].item = call[c].item
    \/ item # NoItem /\ call'[c].item.id = item.id /\ call'[c].item.issue = item.issue
JobsKept == \A n \in DOMAIN hooks' : JobReads(n)' =>
    /\ n \in DOMAIN hooks /\ hooks'[n].issue = hooks[n].issue
    /\ \/ JobReads(n) /\ hooks'[n].item = hooks[n].item
       \/ item # NoItem /\ hooks'[n].item = item /\ item.issue = hooks[n].issue
\* The item stays, goes, is saved by one who has read it, or is a new one.
ItemKept ==
    \/ UNCHANGED ids /\ (item' = NoItem \/ item' = item)
    \/ UNCHANGED ids /\ item'.id = ids /\ Ties(item'.issue)
    \/ ids' = ids + 1 /\ item'.id = ids'

LEMMA NumbersTyped ==
    ASSUME Typed
    PROVE  /\ ids \in Nat /\ item \in Item /\ item.id \in Nat /\ NoItem.id = 0
           /\ \A c \in Calls : call[c] \in Call /\ call[c].item \in Item
                               /\ call[c].item.id \in Nat /\ call[c].content \in Content
           /\ \A n \in DOMAIN hooks : hooks[n] \in Hook /\ hooks[n].item \in Item
                                      /\ hooks[n].item.id \in Nat
  <1>1. hooks \in Seq(Hook) /\ call \in [Calls -> Call]
    BY DEF Typed, TypeOK
  <1>2. /\ \A c \in Calls : call[c] \in Call
        /\ \A n \in DOMAIN hooks : hooks[n] \in Hook
    BY <1>1
  <1>3. \A row \in Item : row.id \in Nat
    BY DEF Item
  <1>4. ids \in Nat /\ item \in Item /\ NoItem.id = 0
    BY DEF Typed, TypeOK, NoItem
  <1>5. \A entry \in Call : entry.item \in Item /\ entry.content \in Content
    BY DEF Call
  <1>6. \A job \in Hook : job.item \in Item
    BY DEF Hook
  <1>7. QED
    BY <1>2, <1>3, <1>4, <1>5, <1>6

LEMMA RowsKept ==
    ASSUME Typed, Typed', Numbered, TiedToOne, ReadersKept, JobsKept, ItemKept
    PROVE  /\ Numbered' /\ TiedToOne'
           /\ ids' = ids => \A i : Ties(i)' => Ties(i)
           /\ ids' # ids => ids' = ids + 1 /\ \A i : Ties(i)' => i = item'.issue
  <1>1. /\ ids \in Nat /\ ids' \in Nat /\ ids > 0 /\ NoItem.id = 0
        /\ ids' = ids \/ ids' = ids + 1
        /\ item = NoItem \/ item.id = ids
    BY NumbersTyped DEF Numbered, ItemKept, Typed, TypeOK
  <1>2. ASSUME NEW c \in Calls, Reader(c)'
        PROVE  /\ 0 < call'[c].item.id /\ call'[c].item.id <= ids
               /\ call'[c].item.id = ids => Ties(call'[c].item.issue)
    BY <1>1, <1>2 DEF ReadersKept, Numbered, Ties
  <1>3. ASSUME NEW n \in DOMAIN hooks', JobReads(n)'
        PROVE  /\ 0 < hooks'[n].item.id /\ hooks'[n].item.id <= ids
               /\ hooks'[n].item.id = ids => Ties(hooks'[n].issue)
    BY <1>1, <1>3 DEF JobsKept, Numbered, Ties
  <1>4. Numbered'
    <2>1. \A id \in Nat : id <= ids => id <= ids'
      BY <1>1
    <2>2. item' = NoItem \/ item'.id = ids'
      BY <1>1 DEF ItemKept
    <2>3. /\ \A c \in Calls : call'[c].item.id \in Nat
          /\ \A n \in DOMAIN hooks' : hooks'[n].item.id \in Nat
      <3>1. /\ call' \in [Calls -> Call] /\ hooks' \in Seq(Hook)
        BY DEF Typed, TypeOK
      <3>2. /\ \A c \in Calls : call'[c] \in Call
            /\ \A n \in DOMAIN hooks' : hooks'[n] \in Hook
        BY <3>1
      <3>3. QED
        BY <3>2 DEF Call, Hook, Item
    <2>4. ids' > 0
      BY <1>1
    <2>5. QED
      BY <1>2, <1>3, <2>1, <2>2, <2>3, <2>4 DEF Numbered
  <1>5. ASSUME ids' = ids, NEW i, Ties(i)'
        PROVE  Ties(i)
    <2>1. CASE item'.id = ids' /\ item'.issue = i
      BY <1>1, <1>5, <2>1 DEF ItemKept, Ties
    <2>2. ASSUME NEW c \in Calls, Reader(c)', call'[c].item.id = ids', call'[c].item.issue = i
          PROVE  Ties(i)
      BY <1>2, <1>5, <2>2
    <2>3. ASSUME NEW n \in DOMAIN hooks', JobReads(n)', hooks'[n].item.id = ids',
                 hooks'[n].issue = i
          PROVE  Ties(i)
      BY <1>3, <1>5, <2>3
    <2>4. QED
      BY <1>5, <2>1, <2>2, <2>3 DEF Ties
  <1>6. ASSUME ids' # ids
        PROVE  ids' = ids + 1 /\ \A i : Ties(i)' => i = item'.issue
    <2>1. ids' = ids + 1 /\ ~(ids' <= ids)
      BY <1>1, <1>6
    <2>2. QED
      BY <1>2, <1>3, <2>1 DEF Ties
  <1>7. TiedToOne'
    <2>1. \A i : Ties(i) => i \in DOMAIN issues
      BY <1>1, NumbersTyped DEF Ties, Typed, IssuesExist, Reader, Reads, Targets
    <2>2. QED
      BY <1>5, <1>6, <2>1 DEF TiedToOne
  <1>8. QED
    BY <1>4, <1>5, <1>6, <1>7

\* A save keeps the last item, or is refused.
LEMMA SaveKeeps ==
    ASSUME Typed, Numbered, NEW old \in Item, NEW row, row.id = old.id,
           row.issue = old.issue, 0 < old.id, old.id = ids => Ties(old.issue),
           ~Revives(old), Save(row), UNCHANGED ids
    PROVE  /\ ItemKept
           /\ old.id = ids => ~Refused(old) /\ item' = row
           /\ old.id # ids => Refused(old) /\ item' = item
  <1>1. /\ ids \in Nat /\ ids > 0 /\ NoItem.id = 0
        /\ item = NoItem \/ item.id = ids
    BY NumbersTyped DEF Numbered
  <1>2. CASE old.id = ids
    BY <1>1, <1>2 DEF Refused, Save, ItemKept
  <1>3. CASE old.id # ids
    BY <1>1, <1>3 DEF Refused, Revives, Save, ItemKept
  <1>4. QED
    BY <1>2, <1>3

-----------------------------------------------------------------------------
(* What a step of a call does to the rows and the jobs *)

CallAct(c) ==
    \/ Acquire(c) \/ CallStep(c) \/ Unlink(c)
    \/ \E side \in {"push", "pull"} : Resolve(c, side)
    \/ \E i \in DOMAIN issues : CheckLink(c, i)
    \/ CreateAgain(c) \/ Fails(c) \/ FetchUnread(c)

OthersStay(c) == \A d \in Calls : d # c => call'[d] = call[d]

LEMMA GoToRows ==
    ASSUME Typed, NEW c \in Calls, NEW pc, GoTo(c, pc), pc \in Reads => Reader(c)
    PROVE  /\ OthersStay(c) /\ ReadersKept /\ call'[c].pc = pc
           /\ pc # "done" => /\ call'[c].item = call[c].item
                             /\ call'[c].content = call[c].content
  <1>1. call \in [Calls -> Call]
    BY DEF Typed, TypeOK
  <1>2. OthersStay(c) /\ call'[c].pc = pc
    BY GoToMoves DEF OthersStay
  <1>3. pc # "done" => call'[c].item = call[c].item /\ call'[c].content = call[c].content
    BY <1>1 DEF GoTo, Call
  <1>4. ReadersKept
    BY <1>2, <1>3 DEF ReadersKept, OthersStay, Reader, Reads
  <1>5. QED
    BY <1>2, <1>3, <1>4

\* A call leaves the jobs alone, but for a report of a change.
LEMMA CallReports ==
    ASSUME Typed, NEW c \in Calls, CallAct(c)
    PROVE  UNCHANGED <<issues, hooks>> \/ Reports
  <1> DEFINE i == call[c].item.issue
  <1>1. ASSUME call[c].pc \in Targets, \E content : Change(i, content)
        PROVE  UNCHANGED <<issues, hooks>> \/ Reports
    BY <1>1, ChangeReports DEF Typed, IssuesExist
  <1>2. CASE CreateIssue(c) \/ CreateAgain(c)
    BY <1>2, NewIssueReports DEF CreateIssue, CreateAgain
  <1>3. CASE PlaceIssue(c) \/ UpdateIssue(c) \/ MoveIssue(c) \/ SendStory(c)
             \/ ShiftIssue(c)
    BY <1>1, <1>3
       DEF PlaceIssue, UpdateIssue, MoveIssue, SendStory, ShiftIssue, At, Targets
  <1>4. CASE Fails(c)
    BY <1>1, <1>4 DEF Fails, Targets
  <1>5. CASE \/ Acquire(c) \/ ReadStory(c) \/ ReadItem(c) \/ InsertItem(c) \/ SaveItem(c)
             \/ MarkConflict(c) \/ MarkError(c) \/ Release(c)
             \/ ViewStory(c) \/ FetchIssue(c) \/ OverwriteStory(c) \/ Settle(c)
             \/ Link(c) \/ Unlink(c) \/ \E side \in {"push", "pull"} : Resolve(c, side)
             \/ FetchUnread(c)
    BY <1>5
       DEF Acquire, ReadStory, ReadItem, InsertItem, SaveItem, MarkConflict, MarkError,
           Release, ViewStory, FetchIssue, OverwriteStory, Settle, Link, Unlink, Resolve,
           FetchUnread
  <1>6. CASE \E j \in DOMAIN issues : CheckLink(c, j)
    BY <1>6 DEF CheckLink
  <1>7. QED
    BY <1>2, <1>3, <1>4, <1>5, <1>6 DEF CallAct, CallStep, Push, ResolveStep

LEMMA ReportsJobs ==
    ASSUME Typed, UNCHANGED <<issues, hooks>> \/ Reports
    PROVE  /\ JobsKept
           /\ \A n \in DOMAIN hooks : n \in DOMAIN hooks' /\ hooks'[n] = hooks[n]
           /\ DOMAIN issues \subseteq DOMAIN issues'
           /\ InOrder => InOrder'
  <1>1. CASE UNCHANGED <<issues, hooks>>
    BY <1>1 DEF JobsKept, JobReads, InOrder
  <1>2. CASE Reports
    <2>1. /\ \A n \in DOMAIN hooks : n \in DOMAIN hooks' /\ hooks'[n] = hooks[n]
          /\ \A n \in DOMAIN hooks' : n \in DOMAIN hooks \/ hooks'[n].pc = "waiting"
      BY <1>2, ReportsAppend
    <2>2. QED
      BY <1>2, <2>1, ReportsInOrder DEF JobsKept, JobReads, Reports
  <1>3. QED
    BY <1>1, <1>2

\* A call reads the present item, and no other.
LEMMA CallReads ==
    ASSUME Typed, NEW c \in Calls, CallAct(c)
    PROVE  OthersStay(c) /\ ReadersKept
  <1>1. call \in [Calls -> Call] /\ call[c] \in Call
    BY DEF Typed, TypeOK
  <1>2. CASE ReadStory(c) \/ ViewStory(c) \/ FetchIssue(c)
    BY <1>1, <1>2
       DEF ReadStory, ViewStory, FetchIssue, At, Call, OthersStay, ReadersKept, Reader,
           Reads
  <1>3. CASE ReadItem(c)
    BY <1>1, <1>3 DEF ReadItem, At, Call, OthersStay, ReadersKept, Reader, Reads
  <1>4. CASE CreateIssue(c)
    BY <1>1, <1>4 DEF CreateIssue, Call, OthersStay, ReadersKept, Reader, Reads
  <1>5. ASSUME NEW side, Resolve(c, side)
        PROVE  OthersStay(c) /\ ReadersKept
    <2>1. item \in Item /\ item # NoItem
      BY <1>5 DEF Resolve, NoItem, Typed, TypeOK
    <2>2. [item EXCEPT !.last = side].id = item.id
          /\ [item EXCEPT !.last = side].issue = item.issue
      BY <2>1 DEF Item
    <2>3. /\ call'[c].item = [item EXCEPT !.last = side]
          /\ \A d \in Calls : d # c => call'[d] = call[d]
      BY <1>1, <1>5 DEF Resolve, Call
    <2>4. QED
      BY <2>1, <2>2, <2>3 DEF OthersStay, ReadersKept, Reader
  <1>6. CASE \E i \in DOMAIN issues : CheckLink(c, i)
    BY <1>1, <1>6 DEF CheckLink, Call, OthersStay, ReadersKept, Reader, Reads
  <1>7. ASSUME NEW pc, GoTo(c, pc), pc \in Reads => Reader(c)
        PROVE  OthersStay(c) /\ ReadersKept
    BY <1>7, GoToRows
  <1>8. CASE \/ UpdateIssue(c) \/ MoveIssue(c) \/ SaveItem(c) \/ MarkConflict(c)
             \/ SendStory(c) \/ ShiftIssue(c) \/ OverwriteStory(c) \/ FetchUnread(c)
    <2>1. Reader(c) /\ \E pc : GoTo(c, pc)
      BY <1>8
         DEF UpdateIssue, MoveIssue, SaveItem, MarkConflict, SendStory, ShiftIssue,
             OverwriteStory, FetchUnread, At, Reader, Reads
    <2>2. QED
      BY <1>7, <2>1
  <1>9. CASE \/ Acquire(c) \/ PlaceIssue(c) \/ InsertItem(c) \/ MarkError(c) \/ Release(c)
             \/ Settle(c) \/ Link(c) \/ Unlink(c)
    <2>1. \E pc : GoTo(c, pc) /\ pc \notin Reads
      BY <1>9
         DEF Acquire, PlaceIssue, InsertItem, MarkError, Release, Settle, Link, Unlink, Reads
    <2>2. QED
      BY <1>7, <2>1
  <1>10. CASE Fails(c)
    <2>1. PICK pc : GoTo(c, pc) /\ (pc \in Reads => Reader(c))
      BY <1>10 DEF Fails, Reader, Reads
    <2>2. QED
      BY <1>7, <2>1
  <1>11. CASE CreateAgain(c)
    BY <1>11 DEF CreateAgain, OthersStay, ReadersKept, Reader
  <1>12. QED
    BY <1>2, <1>3, <1>4, <1>5, <1>6, <1>8, <1>9, <1>10, <1>11
       DEF CallAct, CallStep, Push, ResolveStep

\* A row that is saved as it was read, but for what is no key.
SameRow(row, old) == row.id = old.id /\ row.issue = old.issue

LEMMA RowsSame ==
    ASSUME NEW old \in Item
    PROVE  /\ \A tick : SameRow([old EXCEPT !.later = tick, !.status = "synced",
                                            !.last = "push"], old)
           /\ SameRow([old EXCEPT !.status = "conflict"], old)
           /\ SameRow([old EXCEPT !.status = "error"], old)
           /\ SameRow([old EXCEPT !.later = FALSE, !.status = "synced"], old)
           /\ SameRow([old EXCEPT !.later = FALSE, !.status = "synced", !.last = "pull"],
                      old)
  BY DEF Item, SameRow

\* A call that saves what it has read.
LEMMA CallSaves ==
    ASSUME Typed, Numbered, Good', NEW c \in Calls, Reader(c), NEW row,
           SameRow(row, call[c].item), Save(row), GiveSaved(call[c].item), UNCHANGED ids
    PROVE  /\ ItemKept
           /\ call[c].item.id = ids => ~Refused(call[c].item) /\ item' = row
           /\ call[c].item.id # ids => Refused(call[c].item) /\ item' = item
  <1>1. ~Revives(call[c].item)
    BY DEF GiveSaved, Give, Good
  <1>2. call[c].item \in Item
    BY NumbersTyped
  <1>3. 0 < call[c].item.id /\ (call[c].item.id = ids => Ties(call[c].item.issue))
    BY DEF Numbered, Ties
  <1>4. QED
    BY <1>1, <1>2, <1>3, SaveKeeps DEF SameRow

LEMMA CallItems ==
    ASSUME Typed, Numbered, Good', NEW c \in Calls, CallAct(c)
    PROVE  ItemKept
  <1>1. call[c].item \in Item
    BY NumbersTyped
  <1>2. CASE SaveItem(c) \/ MarkConflict(c) \/ MarkError(c) \/ Settle(c)
    <2>1. PICK row : Save(row) /\ SameRow(row, call[c].item)
      BY <1>1, <1>2, RowsSame DEF SaveItem, MarkConflict, MarkError, Settle
    <2>2. Reader(c) /\ GiveSaved(call[c].item) /\ UNCHANGED ids
      BY <1>2 DEF SaveItem, MarkConflict, MarkError, Settle, At, Reader, Reads
    <2>3. QED
      BY <2>1, <2>2, CallSaves
  <1>3. CASE InsertItem(c) \/ Link(c) \/ Unlink(c)
    BY <1>3 DEF InsertItem, Link, Unlink, ItemKept
  <1>4. CASE \/ Acquire(c) \/ ReadStory(c) \/ ReadItem(c) \/ CreateIssue(c) \/ PlaceIssue(c)
             \/ UpdateIssue(c) \/ MoveIssue(c) \/ Release(c)
             \/ ViewStory(c) \/ SendStory(c) \/ ShiftIssue(c) \/ FetchIssue(c)
             \/ OverwriteStory(c) \/ \E side \in {"push", "pull"} : Resolve(c, side)
             \/ \E i \in DOMAIN issues : CheckLink(c, i)
             \/ CreateAgain(c) \/ Fails(c) \/ FetchUnread(c)
    BY <1>4
       DEF Acquire, ReadStory, ReadItem, CreateIssue, PlaceIssue, UpdateIssue, MoveIssue,
           Release, ViewStory, SendStory, ShiftIssue, FetchIssue, OverwriteStory, Resolve,
           CheckLink, CreateAgain, Fails, FetchUnread, ItemKept
  <1>5. QED
    BY <1>2, <1>3, <1>4 DEF CallAct, CallStep, Push, ResolveStep

-----------------------------------------------------------------------------
(* What a step of a job does to the rows *)

\* A job that saves what it has read.
LEMMA JobSaves ==
    ASSUME Typed, Numbered, Good', NEW n \in DOMAIN hooks,
           HookConflict(n) \/ HookSave(n)
    PROVE  /\ ItemKept
           /\ hooks[n].item.id = ids => /\ hooks'[n].pc = "release"
                                        /\ HookConflict(n) => item'.status = "conflict"
                                        /\ HookSave(n) => item'.issue = hooks[n].issue
           /\ hooks[n].item.id # ids => hooks'[n].pc = "fail"
           /\ HookConflict(n) => \A c \in Calls :
                 call[c].pc \in {"idle", "done", "release", "link"}
  <1> DEFINE old == hooks[n].item
  <1>1. old \in Item /\ hooks \in Seq(Hook)
    BY NumbersTyped DEF Typed, TypeOK
  <1>2. JobReads(n) /\ UNCHANGED ids
    BY DEF HookConflict, HookSave, JobReads
  <1>3. ~Revives(old) /\ (HookConflict(n) => ~Crossed)
    BY DEF HookConflict, HookSave, GiveSaved, Give, Good
  <1>4. 0 < old.id /\ (old.id = ids => Ties(old.issue))
    BY <1>2 DEF Numbered, Ties, Typed, IssuesExist, JobReads
  <1>5. PICK row : /\ Save(row) /\ SameRow(row, old)
                   /\ HookConflict(n) => row.status = "conflict"
    <2>1. [old EXCEPT !.status = "conflict"].status = "conflict"
      BY <1>1 DEF Item
    <2>2. CASE HookConflict(n)
      BY <1>1, <2>1, <2>2, RowsSame DEF HookConflict
    <2>3. CASE HookSave(n) /\ ~HookConflict(n)
      BY <1>1, <2>3, RowsSame DEF HookSave
    <2>4. QED
      BY <2>2, <2>3
  <1> HIDE DEF old
  <1>6. /\ ItemKept
        /\ old.id = ids => ~Refused(old) /\ item' = row
        /\ old.id # ids => Refused(old)
    BY <1>1, <1>2, <1>3, <1>4, <1>5, SaveKeeps DEF SameRow
  <1>7. hooks'[n].pc = IF Refused(old) THEN "fail" ELSE "release"
    BY HookToMoves DEF HookConflict, HookSave, old
  <1>8. old.issue = hooks[n].issue
    BY <1>2 DEF Typed, IssuesExist, JobReads, old
  <1>9. QED
    BY <1>3, <1>5, <1>6, <1>7, <1>8 DEF Crossed, SameRow, old

LEMMA JobRows ==
    ASSUME Typed, Numbered, Good', NEW n \in DOMAIN hooks, JobStep(n)
    PROVE  ReadersKept /\ JobsKept /\ ItemKept
  <1>1. OtherJobs(n) /\ UNCHANGED <<issues, call, ids>>
    BY JobMoves
  <1>2. ReadersKept
    BY <1>1 DEF ReadersKept, Reader
  <1>3. ASSUME JobReads(n)'
        PROVE  \/ JobReads(n) /\ hooks'[n].item = hooks[n].item
               \/ hooks'[n].item = item /\ item.issue = hooks[n].issue
    <2>1. CASE HookStory(n)
      BY <2>1, HookToMoves DEF HookStory, JobReads
    <2>2. CASE HookConflict(n) \/ HookSave(n)
      BY <1>3, <2>2, JobSaves DEF JobReads
    <2>3. QED
      BY <1>3, <2>1, <2>2, JobMoves DEF JobReads
  <1>4. item.issue = hooks[n].issue => item # NoItem
    BY DEF Typed, TypeOK, IssuesExist, NoItem
  <1>5. JobsKept
    BY <1>1, <1>3, <1>4 DEF JobsKept, JobReads, OtherJobs
  <1>6. ItemKept
    <2>1. CASE HookConflict(n) \/ HookSave(n)
      BY <2>1, JobSaves
    <2>2. CASE HookStory(n)
      BY <2>2 DEF HookStory, ItemKept
    <2>3. QED
      BY <1>1, <2>1, <2>2, JobMoves DEF ItemKept
  <1>7. QED
    BY <1>2, <1>5, <1>6

-----------------------------------------------------------------------------
(* Rows and jobs: every step *)

\* What neither is a step of a call nor one of a job.
Outside ==
    \/ \E f \in Field : EditStory(f) \/ \E i \in DOMAIN issues : EditIssue(i, f)
    \/ Crash
    \/ ExpireStoryLock
    \/ \E i \in DOMAIN issues : ExpireIssueLock(i)
    \/ UNCHANGED vars

LEMMA StepKinds ==
    ASSUME [Next]_vars
    PROVE  \/ \E c \in Calls : CallAct(c)
           \/ \E n \in DOMAIN hooks : JobStep(n)
           \/ Outside
  BY DEF Next, CallAct, JobStep, Outside, Stop

LEMMA CrashJobs ==
    ASSUME Typed, Crash
    PROVE  /\ DOMAIN hooks' = DOMAIN hooks
           /\ \A n \in DOMAIN hooks :
                 /\ hooks'[n].pc = IF Busy(n) THEN "waiting" ELSE hooks[n].pc
                 /\ hooks'[n].issue = hooks[n].issue
                 /\ hooks'[n].content = hooks[n].content
           /\ \A c \in Calls : call'[c].pc \in {"idle", "done"}
  <1>1. \A n \in DOMAIN hooks : hooks[n] \in Hook
    BY NumbersTyped
  <1>2. /\ DOMAIN hooks' = DOMAIN hooks
        /\ \A n \in DOMAIN hooks : hooks'[n] =
              IF Busy(n) THEN [hooks[n] EXCEPT !.pc = "waiting", !.item = NoItem]
              ELSE hooks[n]
    BY DEF Crash
  <1>3. \A n \in DOMAIN hooks :
           /\ hooks'[n].pc = IF Busy(n) THEN "waiting" ELSE hooks[n].pc
           /\ hooks'[n].issue = hooks[n].issue
           /\ hooks'[n].content = hooks[n].content
    BY <1>1, <1>2 DEF Hook
  <1>4. \A c \in Calls : call'[c].pc \in {"idle", "done"}
    BY DEF Crash, Done, Idle
  <1>5. QED
    BY <1>2, <1>3, <1>4

\* What is outside leaves the calls and the jobs alone, but for a crash.
LEMMA OutsideMoves ==
    ASSUME Typed, Outside
    PROVE  /\ UNCHANGED <<item, ids>>
           /\ \/ Crash
              \/ UNCHANGED call /\ (UNCHANGED <<issues, hooks>> \/ Reports)
  <1>1. CASE \E i \in DOMAIN issues, f \in Field : EditIssue(i, f)
    BY <1>1, ChangeReports DEF EditIssue
  <1>2. CASE \/ \E f \in Field : EditStory(f)
             \/ Crash \/ ExpireStoryLock \/ \E i \in DOMAIN issues : ExpireIssueLock(i)
             \/ UNCHANGED vars
    BY <1>2 DEF EditStory, Crash, ExpireStoryLock, ExpireIssueLock, vars
  <1>3. QED
    BY <1>1, <1>2 DEF Outside

LEMMA StepRows ==
    ASSUME Typed, Typed', Numbered, TiedToOne, Good', [Next]_vars
    PROVE  /\ Numbered' /\ TiedToOne'
           /\ ids' = ids => \A i : Ties(i)' => Ties(i)
           /\ ids' # ids => ids' = ids + 1 /\ \A i : Ties(i)' => i = item'.issue
  <1>1. ASSUME NEW c \in Calls, CallAct(c)
        PROVE  ReadersKept /\ JobsKept /\ ItemKept
    BY <1>1, CallReads, CallReports, ReportsJobs, CallItems
  <1>2. ASSUME NEW n \in DOMAIN hooks, JobStep(n)
        PROVE  ReadersKept /\ JobsKept /\ ItemKept
    BY <1>2, JobRows
  <1>3. CASE Outside /\ ~Crash
    <2>1. /\ UNCHANGED <<item, ids, call>>
          /\ UNCHANGED <<issues, hooks>> \/ Reports
      BY <1>3, OutsideMoves
    <2>2. ReadersKept /\ JobsKept /\ ItemKept
      BY <2>1, ReportsJobs DEF ReadersKept, Reader, ItemKept
    <2>3. QED
      BY <2>2, RowsKept
  <1>4. CASE Crash
    <2>1. UNCHANGED <<item, ids>>
      BY <1>4 DEF Crash
    <2>2. ReadersKept
      BY <1>4, CrashJobs DEF ReadersKept, Reader, Reads
    <2>3. \A n \in DOMAIN hooks : hooks'[n].pc = IF Busy(n) THEN "waiting" ELSE hooks[n].pc
      BY <1>4, CrashJobs
    <2>4. JobsKept
      BY <1>4, <2>3, CrashJobs DEF JobsKept, JobReads, Busy
    <2>5. ItemKept
      BY <2>1 DEF ItemKept
    <2>6. QED
      BY <2>2, <2>4, <2>5, RowsKept
  <1>5. QED
    BY <1>1, <1>2, <1>3, <1>4, StepKinds, RowsKept

LEMMA StepInOrder ==
    ASSUME Typed, InOrder, Good', [Next]_vars
    PROVE  InOrder'
  <1>1. ASSUME NEW c \in Calls, CallAct(c)
        PROVE  InOrder'
    BY <1>1, CallReports, ReportsJobs
  <1>2. ASSUME NEW n \in DOMAIN hooks, JobStep(n)
        PROVE  InOrder'
    <2>1. OtherJobs(n) /\ UNCHANGED issues
      BY <1>2, JobMoves
    <2>2. /\ hooks[n].pc \notin {"done", "lost"} /\ hooks'[n].pc # "lost"
          /\ hooks[n].pc = "waiting" => hooks'[n].pc = "waiting" \/ ~Overtakes(n)
      <3>1. CASE HookConflict(n) \/ HookStory(n) \/ HookSave(n)
        <4>1. hooks[n].pc \in {"conflict", "story", "save"}
              /\ \E pc \in {"fail", "release", "save"} : HookTo(n, pc)
          BY <3>1 DEF HookConflict, HookStory, HookSave
        <4>2. QED
          BY <4>1, HookToMoves
      <3>2. CASE ~(HookConflict(n) \/ HookStory(n) \/ HookSave(n))
        <4>1. \/ hooks[n].pc = "waiting" /\ ~Overtakes(n) /\ hooks'[n].pc = "item"
              \/ hooks[n].pc = "item" /\ hooks'[n].pc \in {"conflict", "story"}
              \/ Busy(n) /\ hooks'[n].pc = "fail"
              \/ hooks[n].pc \in {"waiting", "fail"} /\ hooks'[n].pc = "waiting"
              \/ hooks[n].pc = "release" /\ hooks'[n].pc = "done"
          BY <1>2, <3>2, JobMoves
        <4>2. QED
          BY <4>1 DEF Busy
      <3>3. QED
        BY <3>1, <3>2
    <2>3. ASSUME NEW k \in DOMAIN hooks, NEW m \in DOMAIN hooks,
                 k < m, hooks[k].issue = hooks[m].issue, hooks'[k].pc # "done"
          PROVE  hooks'[m].pc = "waiting"
      <3>1. hooks[k].pc # "done" /\ hooks[k].pc # "lost"
        BY <2>1, <2>2, <2>3 DEF OtherJobs, InOrder
      <3>2. hooks[m].pc = "waiting"
        BY <2>3, <3>1 DEF InOrder
      <3>3. CASE m = n
        <4>1. k \in 1 .. n - 1
          BY <2>3, <3>3 DEF Typed, TypeOK
        <4>2. Overtakes(n)
          BY <2>3, <3>1, <3>3, <4>1 DEF Overtakes
        <4>3. QED
          BY <2>2, <3>2, <3>3, <4>2
      <3>4. CASE m # n
        BY <2>1, <3>2, <3>4 DEF OtherJobs
      <3>5. QED
        BY <3>3, <3>4
    <2>4. \A m \in DOMAIN hooks : hooks'[m].issue = hooks[m].issue
                                  /\ hooks'[m].content = hooks[m].content
      BY <2>1 DEF OtherJobs
    <2>5. QED
      BY <2>1, <2>2, <2>3, <2>4 DEF InOrder, OtherJobs
  <1>3. CASE Outside /\ ~Crash
    BY <1>3, OutsideMoves, ReportsJobs
  <1>4. CASE Crash
    <2>1. UNCHANGED issues
      BY <1>4 DEF Crash
    <2>2. QED
      BY <1>4, <2>1, CrashJobs DEF InOrder, Busy
  <1>5. QED
    BY <1>1, <1>2, <1>3, <1>4, StepKinds

-----------------------------------------------------------------------------
(* What is under way stays under way *)

LEMMA OpenKept ==
    ASSUME Typed, Numbered, ids' \in {ids, ids + 1}, NEW n \in DOMAIN hooks, Open(n),
           hooks'[n] = hooks[n]
    PROVE  Open(n)'
  <1>1. JobReads(n) => hooks[n].item.id <= ids
    BY DEF Numbered
  <1>2. ids \in Nat /\ hooks[n].item.id \in Nat
    BY NumbersTyped
  <1>3. CASE hooks[n].pc = "save" /\ hooks[n].item.id # ids
    BY <1>1, <1>2, <1>3 DEF Open, JobReads
  <1>4. CASE hooks[n].pc \in {"waiting", "item", "conflict", "story", "fail"}
    BY <1>4 DEF Open
  <1>5. QED
    BY <1>3, <1>4 DEF Open

LEMMA OpensKept ==
    ASSUME Typed, Numbered, ids' \in {ids, ids + 1}, Opens,
           UNCHANGED <<issues, hooks>> \/ Reports
    PROVE  Opens'
  <1>1. PICK n \in DOMAIN hooks : Open(n)
    BY DEF Opens
  <1>2. n \in DOMAIN hooks' /\ hooks'[n] = hooks[n]
    BY ReportsJobs
  <1>3. QED
    BY <1>1, <1>2, OpenKept DEF Opens

\* A job that is not under way any more has written the story, has seen a
\* conflict, or was settled before.
LEMMA JobKinds ==
    ASSUME Typed, Numbered, Good', NEW n \in DOMAIN hooks, JobStep(n)
    PROVE  \/ Opens'
           \/ HookConflict(n) /\ hooks[n].item.id = ids
           \/ HookStory(n) /\ hooks[n].item.id = ids
           \/ /\ ~Open(n) /\ UNCHANGED <<story, dirty>>
              /\ Owing' => Owing
  <1>1. OtherJobs(n) /\ UNCHANGED <<issues, call, ids>>
    BY JobMoves
  <1>2. Open(n)' => Opens'
    BY <1>1 DEF Opens, OtherJobs
  <1>3. CASE HookConflict(n)
    BY <1>2, <1>3, JobSaves DEF Open
  <1>4. CASE HookStory(n)
    <2>1. hooks'[n].pc = "save" /\ hooks'[n].item = hooks[n].item
      BY <1>4, HookToMoves DEF HookStory
    <2>2. QED
      BY <1>1, <1>2, <1>4, <2>1 DEF Open
  <1>5. CASE HookSave(n) /\ hooks[n].item.id # ids
    BY <1>2, <1>5, JobSaves DEF Open
  <1>6. CASE HookSave(n) /\ hooks[n].item.id = ids
    BY <1>6 DEF HookSave, Open, Owing
  <1>7. CASE hooks[n].pc = "release" /\ hooks'[n].pc = "done" /\ UNCHANGED <<story, item, dirty>>
    <2>1. \A c \in Calls : Live(c)' => Live(c)
      BY <1>1 DEF Live, At
    <2>2. \A m \in DOMAIN hooks' :
             hooks'[m].pc = "save" => m \in DOMAIN hooks /\ hooks'[m] = hooks[m]
      BY <1>1, <1>7 DEF OtherJobs
    <2>3. QED
      BY <1>1, <1>7, <2>1, <2>2 DEF Open, Owing
  <1>8. CASE hooks'[n].pc \in {"item", "conflict", "story", "fail", "waiting"}
    BY <1>2, <1>8 DEF Open
  <1>9. QED
    BY <1>3, <1>4, <1>5, <1>6, <1>7, <1>8, JobMoves

LEMMA JobOpensKept ==
    ASSUME Typed, Numbered, Good', NEW n \in DOMAIN hooks, JobStep(n), Opens
    PROVE  \/ Opens'
           \/ HookConflict(n) /\ hooks[n].item.id = ids
           \/ HookStory(n) /\ hooks[n].item.id = ids
  <1>1. OtherJobs(n) /\ UNCHANGED <<issues, call, ids>>
    BY JobMoves
  <1>2. PICK m \in DOMAIN hooks : Open(m)
    BY DEF Opens
  <1>3. CASE m # n
    <2>1. m \in DOMAIN hooks' /\ hooks'[m] = hooks[m]
      BY <1>1, <1>3 DEF OtherJobs
    <2>2. QED
      BY <1>1, <1>2, <2>1, OpenKept DEF Opens
  <1>4. CASE m = n
    BY <1>2, <1>4, JobKinds
  <1>5. QED
    BY <1>3, <1>4

-----------------------------------------------------------------------------
(* What a resolution has fetched *)

LEMMA OnlyFetchWrites ==
    ASSUME Typed, NEW c \in Calls, CallAct(c), At(c, "write")'
    PROVE  FetchIssue(c)
  <1>1. call \in [Calls -> Call] /\ call[c] \in Call
    BY DEF Typed, TypeOK
  <1>2. ASSUME NEW pc, pc # "write", GoTo(c, pc)
        PROVE  FALSE
    BY <1>2, GoToMoves DEF At
  <1>3. CASE \/ Acquire(c) \/ PlaceIssue(c) \/ InsertItem(c) \/ UpdateIssue(c)
             \/ MoveIssue(c) \/ SaveItem(c) \/ MarkConflict(c) \/ MarkError(c) \/ Release(c)
             \/ SendStory(c) \/ ShiftIssue(c) \/ OverwriteStory(c) \/ Settle(c)
             \/ Link(c) \/ Unlink(c) \/ FetchUnread(c)
    <2>1. \E pc : pc # "write" /\ GoTo(c, pc)
      BY <1>3
         DEF Acquire, PlaceIssue, InsertItem, UpdateIssue, MoveIssue, SaveItem,
             MarkConflict, MarkError, Release, SendStory, ShiftIssue, OverwriteStory,
             Settle, Link, Unlink, FetchUnread
    <2>2. QED
      BY <1>2, <2>1
  <1>4. CASE Fails(c)
    <2>1. \E pc : pc # "write" /\ GoTo(c, pc)
      BY <1>4 DEF Fails
    <2>2. QED
      BY <1>2, <2>1
  <1>5. CASE ReadStory(c) \/ ReadItem(c) \/ CreateIssue(c) \/ ViewStory(c) \/ CreateAgain(c)
    BY <1>1, <1>5
       DEF ReadStory, ReadItem, CreateIssue, ViewStory, CreateAgain, At, Call
  <1>6. CASE \/ \E side \in {"push", "pull"} : Resolve(c, side)
             \/ \E i \in DOMAIN issues : CheckLink(c, i)
    BY <1>1, <1>6 DEF Resolve, CheckLink, At, Call
  <1>7. QED
    BY <1>3, <1>4, <1>5, <1>6 DEF CallAct, CallStep, Push, ResolveStep

LEMMA StepFetched ==
    ASSUME Typed, Typed', Numbered, TiedToOne, Fetched, Good', [Next]_vars
    PROVE  Fetched'
  <1> SUFFICES ASSUME NEW c \in Calls, At(c, "write")', call'[c].item.id = ids'
               PROVE  Opens' \/ call'[c].content = issues'[call'[c].item.issue]
    BY DEF Fetched
  <1>1. ids' \in {ids, ids + 1}
    BY StepRows
  <1>2. ASSUME call'[c] = call[c], UNCHANGED <<issues, hooks>> \/ Reports
        PROVE  Opens' \/ call'[c].content = issues'[call'[c].item.issue]
    <2>1. Reader(c) /\ call[c].item.id <= ids /\ ids \in Nat
      BY <1>2, NumbersTyped DEF At, Reader, Reads, Numbered
    <2>2. ids' = ids
      BY <1>1, <1>2, <2>1
    <2>3. Opens \/ call[c].content = issues[call[c].item.issue]
      BY <1>2, <2>2 DEF Fetched, At
    <2>4. QED
      BY <1>1, <1>2, <2>3, OpensKept, ReportsOpen
  <1>3. ASSUME NEW d \in Calls, CallAct(d)
        PROVE  Opens' \/ call'[c].content = issues'[call'[c].item.issue]
    <2>1. CASE d = c
      <3>1. FetchIssue(c)
        BY <1>3, <2>1, OnlyFetchWrites
      <3>2. QED
        BY <3>1 DEF FetchIssue, Typed, TypeOK, Call
    <2>2. CASE d # c
      BY <1>2, <1>3, <2>2, CallReads, CallReports DEF OthersStay
    <2>3. QED
      BY <2>1, <2>2
  <1>4. ASSUME NEW n \in DOMAIN hooks, JobStep(n)
        PROVE  Opens' \/ call'[c].content = issues'[call'[c].item.issue]
    <2>1. UNCHANGED <<issues, call, ids>>
      BY <1>4, JobMoves
    <2>2. ~HookConflict(n) /\ ~HookStory(n)
      BY <2>1, JobSaves DEF HookStory, Give, Good, At
    <2>3. Opens \/ call[c].content = issues[call[c].item.issue]
      BY <2>1 DEF Fetched, At
    <2>4. QED
      BY <1>4, <2>1, <2>2, <2>3, JobOpensKept
  <1>5. CASE Outside /\ ~Crash
    BY <1>2, <1>5, OutsideMoves
  <1>6. CASE Crash
    BY <1>6, CrashJobs DEF At
  <1>7. QED
    BY <1>3, <1>4, <1>5, <1>6, StepKinds

-----------------------------------------------------------------------------
(* Agreement: calls *)

LEMMA UnderWay ==
    ASSUME dirty' = TRUE \/ Opens' \/ Bounds'
    PROVE  OwingAgrees'
  BY DEF OwingAgrees, Agrees

\* A call that goes on, without a change of the story, the issues or the jobs.
LEMMA CallKeepsAgrees ==
    ASSUME OwingAgrees, NEW c \in Calls, OthersStay(c),
           UNCHANGED <<story, issues, hooks, ids>>, dirty => dirty',
           \A i : Ties(i)' => Ties(i),
           Live(c)' => Owing,
           item'.status = "synced" /\ item'.last # "none" => Owing,
           \A i \in DOMAIN issues :
              Ties(i) /\ Bound(c) => Bound(c)' \/ dirty' \/ story = issues[i]
    PROVE  OwingAgrees'
  <1>1. ASSUME NEW d \in Calls, d # c
        PROVE  (Live(d)' => Live(d)) /\ (Bound(d) => Bound(d)')
    BY <1>1 DEF OthersStay, Live, Bound, At, Reader
  <1>2. Owing' => Owing
    BY <1>1 DEF Owing
  <1>3. Opens => Opens'
    BY DEF Opens, Open
  <1>4. ASSUME NEW i \in DOMAIN issues, Ties(i), Agrees(i)
        PROVE  Agrees(i)'
    BY <1>1, <1>3, <1>4 DEF Agrees, Bounds
  <1>5. QED
    BY <1>2, <1>4 DEF OwingAgrees

LEMMA SameContent ==
    ASSUME NEW a \in Content, NEW b \in Content, a["text"] = b["text"],
           a["status"] = b["status"]
    PROVE  a = b
  BY DEF Content, Field

\* What is sent and changes nothing was there before.
LEMMA NothingNew ==
    ASSUME Typed, NEW c \in Calls, NEW old \in Content
    PROVE  /\ Sent(c, old) = old => /\ old["text"] = call[c].content["text"]
                                    /\ Linear => old = call[c].content
           /\ Moved(c, old) = old => old["status"] = call[c].content["status"]
  <1>1. call[c].content \in Content
    BY NumbersTyped
  <1>2. /\ [old EXCEPT !["text"] = call[c].content["text"]]["text"]
              = call[c].content["text"]
        /\ [old EXCEPT !["status"] = call[c].content["status"]]["status"]
              = call[c].content["status"]
    BY <1>1 DEF Content, Field
  <1>3. QED
    BY <1>2 DEF Sent, Moved

\* The issue has all that a call sends.
LEMMA SendKeeps ==
    ASSUME Typed, TiedToOne, OwingAgrees, NEW c \in Calls, call[c].pc \in {"update", "send"},
           NEW pc, GoTo(c, pc),
           pc \in (IF Linear THEN {"save", "settle"} ELSE {"move", "shift"}),
           Sent(c, issues[call[c].item.issue]) = issues[call[c].item.issue],
           UNCHANGED <<story, item, issues, hooks, ids, dirty>>,
           \A i : Ties(i)' => Ties(i)
    PROVE  OwingAgrees'
  <1> DEFINE i0 == call[c].item.issue
  <1>1. Reader(c) /\ i0 \in DOMAIN issues /\ issues[i0] \in Content
    BY DEF Reader, Reads, Typed, IssuesExist, Targets, TypeOK
  <1>2. /\ OthersStay(c) /\ call'[c].pc = pc /\ call'[c].item = call[c].item
        /\ call'[c].content = call[c].content
    BY <1>1, GoToRows
  <1>3. Live(c)' => Owing
    BY <1>2 DEF Live, At, Owing
  <1>4. /\ issues[i0]["text"] = call[c].content["text"]
        /\ Linear => issues[i0] = call[c].content
    BY <1>1, NothingNew
  <1>5. ASSUME NEW i \in DOMAIN issues, Ties(i), Bound(c)
        PROVE  Bound(c)' \/ story = issues[i]
    <2>1. CASE call[c].item.id # ids
      BY <1>2, <2>1 DEF Bound, Reader, Reads
    <2>2. CASE call[c].item.id = ids
      <3>1. call[c].content = story
        BY <1>5, <2>2 DEF Bound, At
      <3>2. i = i0
        BY <1>1, <1>5, <2>2 DEF TiedToOne, Ties
      <3>3. CASE Linear
        BY <1>4, <3>1, <3>2, <3>3
      <3>4. CASE ~Linear
        BY <1>2, <1>4, <2>2, <3>1, <3>4 DEF Bound
      <3>5. QED
        BY <3>3, <3>4
    <2>3. QED
      BY <2>1, <2>2
  <1>6. QED
    BY <1>2, <1>3, <1>5, CallKeepsAgrees DEF Owing

\* The issue has the status that a call moves it to.
LEMMA MoveKeeps ==
    ASSUME Typed, TiedToOne, OwingAgrees, NEW c \in Calls, call[c].pc \in {"move", "shift"},
           NEW pc \in {"save", "settle"}, GoTo(c, pc),
           Moved(c, issues[call[c].item.issue]) = issues[call[c].item.issue],
           UNCHANGED <<story, item, issues, hooks, ids, dirty>>,
           \A i : Ties(i)' => Ties(i)
    PROVE  OwingAgrees'
  <1> DEFINE i0 == call[c].item.issue
  <1>1. Reader(c) /\ i0 \in DOMAIN issues /\ issues[i0] \in Content /\ story \in Content
    BY DEF Reader, Reads, Typed, IssuesExist, Targets, TypeOK
  <1>2. /\ OthersStay(c) /\ call'[c].pc = pc /\ call'[c].item = call[c].item
    BY <1>1, GoToRows
  <1>3. Live(c)' => Owing
    BY <1>2 DEF Live, At, Owing
  <1>4. issues[i0]["status"] = call[c].content["status"]
    BY <1>1, NothingNew
  <1>5. ASSUME NEW i \in DOMAIN issues, Ties(i), Bound(c)
        PROVE  Bound(c)' \/ story = issues[i]
    <2>1. CASE call[c].item.id # ids
      BY <1>2, <2>1 DEF Bound, Reader, Reads
    <2>2. CASE call[c].item.id = ids
      <3>1. call[c].content = story /\ issues[i0]["text"] = story["text"]
        BY <1>5, <2>2 DEF Bound, At
      <3>2. i = i0
        BY <1>1, <1>5, <2>2 DEF TiedToOne, Ties
      <3>3. QED
        BY <1>1, <1>4, <3>1, <3>2, SameContent
    <2>3. QED
      BY <2>1, <2>2
  <1>6. QED
    BY <1>2, <1>3, <1>5, CallKeepsAgrees DEF Owing

\* A call that neither has read nor will save.
LEMMA IdleKeeps ==
    ASSUME OwingAgrees, NEW c \in Calls, OthersStay(c), ~Bound(c), Live(c)' => Owing,
           UNCHANGED <<story, issues, hooks, ids, dirty>>, item' = item \/ item' = NoItem,
           \A i : Ties(i)' => Ties(i)
    PROVE  OwingAgrees'
  BY CallKeepsAgrees DEF Owing, NoItem

\* What an item ties to after a step.
TiesStay ==
    /\ ids' = ids => \A i : Ties(i)' => Ties(i)
    /\ ids' # ids => ids' = ids + 1 /\ \A i : Ties(i)' => i = item'.issue
Before == Typed /\ Numbered /\ TiedToOne /\ InOrder /\ OwingAgrees /\ Fetched
          /\ Good' /\ Typed' /\ Numbered' /\ InOrder' /\ TiesStay

\* A call that saves: the last item is saved as it was going to be.
LEMMA SaveAgrees ==
    ASSUME Before, NEW c \in Calls,
           SaveItem(c) \/ MarkConflict(c) \/ Settle(c)
    PROVE  OwingAgrees'
  <1> USE DEF Before
  <1>1. call[c].item \in Item /\ Reader(c)
    BY NumbersTyped DEF SaveItem, MarkConflict, Settle, At, Reader, Reads
  <1>2. UNCHANGED <<story, issues, hooks, ids>> /\ (dirty => dirty')
    <2>1. UNCHANGED <<story, issues, hooks, ids>>
      BY DEF SaveItem, MarkConflict, Settle
    <2>2. dirty => dirty'
      BY Zenon DEF SaveItem, MarkConflict, Settle
    <2>3. QED
      BY <2>1, <2>2
  <1>3. PICK row : Save(row) /\ SameRow(row, call[c].item)
                   /\ (MarkConflict(c) => row.status = "conflict")
    <2>1. [call[c].item EXCEPT !.status = "conflict"].status = "conflict"
      BY <1>1 DEF Item
    <2>2. CASE MarkConflict(c)
      BY <1>1, <2>1, <2>2, RowsSame DEF MarkConflict
    <2>3. CASE ~MarkConflict(c)
      BY <1>1, <2>3, RowsSame DEF SaveItem, Settle
    <2>4. QED
      BY <2>2, <2>3
  <1>4. GiveSaved(call[c].item)
    BY DEF SaveItem, MarkConflict, Settle
  <1>5. PICK pc : /\ GoTo(c, pc)
                  /\ pc = IF ~Settle(c) /\ Refused(call[c].item) THEN "error"
                          ELSE IF Settle(c) THEN "done" ELSE "release"
    <2>1. Settle(c) => ~SaveItem(c) /\ ~MarkConflict(c)
      BY DEF SaveItem, MarkConflict, Settle, At
    <2>2. QED
      BY <2>1 DEF SaveItem, MarkConflict, Settle
  <1>6. CASE call[c].item.id = ids
    <2>1. ~Refused(call[c].item) /\ item' = row
      BY <1>1, <1>2, <1>3, <1>4, <1>6, CallSaves
    <2>2. OthersStay(c) /\ call'[c].pc \in {"release", "done"}
      BY <1>1, <1>5, <2>1, GoToRows
    <2>3. ~MarkConflict(c) => Owing
      BY <1>6 DEF SaveItem, Settle, At, Owing, Live
    <2>4. ~Bound(c)
      BY <1>6 DEF Bound, SaveItem, MarkConflict, Settle, At
    <2>5. ~Live(c)'
      BY <2>2 DEF Live, At
    <2>6. QED
      BY <1>2, <1>3, <2>1, <2>2, <2>3, <2>4, <2>5, CallKeepsAgrees DEF TiesStay
  <1>7. CASE call[c].item.id # ids
    <2>1. Refused(call[c].item)
      BY <1>1, <1>2, <1>3, <1>4, <1>7, CallSaves
    <2>2. CASE Settle(c)
      BY <2>1, <2>2, UnderWay DEF Settle
    <2>3. CASE ~Settle(c)
      BY <1>1, <1>5, <2>1, <2>3, GoToRows, UnderWay DEF Bounds, Bound, At
    <2>4. QED
      BY <2>2, <2>3
  <1>8. QED
    BY <1>6, <1>7

LEMMA SendAgrees ==
    ASSUME Before, NEW c \in Calls,
           \/ PlaceIssue(c) \/ UpdateIssue(c) \/ MoveIssue(c) \/ SendStory(c) \/ ShiftIssue(c)
    PROVE  OwingAgrees'
  <1> USE DEF Before
  <1> DEFINE i0 == call[c].item.issue
  <1>1. i0 \in DOMAIN issues
    BY DEF PlaceIssue, UpdateIssue, MoveIssue, SendStory, ShiftIssue, At, Typed,
           IssuesExist, Targets
  <1>2. UNCHANGED <<story, item, ids>>
    BY DEF PlaceIssue, UpdateIssue, MoveIssue, SendStory, ShiftIssue
  <1>3. ASSUME NEW content, Change(i0, content)
        PROVE  Opens' \/ (UNCHANGED <<issues, hooks>> /\ content = issues[i0])
    BY <1>1, <1>3, ChangeReports, ReportsOpen
  <1>4. CASE UpdateIssue(c)
    <2>1. CASE Opens'
      BY <2>1, UnderWay
    <2>2. CASE UNCHANGED <<issues, hooks>> /\ Sent(c, issues[i0]) = issues[i0]
      BY <1>2, <1>4, <2>2, SendKeeps DEF UpdateIssue, At, TiesStay, history
    <2>3. QED
      BY <1>3, <1>4, <2>1, <2>2 DEF UpdateIssue
  <1>5. CASE SendStory(c)
    <2>1. CASE Opens'
      BY <2>1, UnderWay
    <2>2. CASE UNCHANGED <<issues, hooks>> /\ Sent(c, issues[i0]) = issues[i0]
      BY <1>2, <1>5, <2>2, SendKeeps DEF SendStory, At, TiesStay, history
    <2>3. QED
      BY <1>3, <1>5, <2>1, <2>2 DEF SendStory
  <1>6. CASE MoveIssue(c) \/ ShiftIssue(c)
    <2>1. CASE Opens' \/ dirty' = TRUE
      BY <2>1, UnderWay
    <2>2. CASE /\ UNCHANGED <<issues, hooks, dirty>> /\ Moved(c, issues[i0]) = issues[i0]
               /\ \E pc \in {"save", "settle"} : GoTo(c, pc)
      <3>1. call[c].pc \in {"move", "shift"}
        BY <1>6 DEF MoveIssue, ShiftIssue, At
      <3>2. QED
        BY <1>2, <2>2, <3>1, MoveKeeps DEF TiesStay
    <2>3. QED
      BY <1>3, <1>6, <2>1, <2>2 DEF MoveIssue, ShiftIssue, Undelivered
  <1>7. CASE PlaceIssue(c)
    <2>1. CASE Opens' \/ dirty' = TRUE
      BY <2>1, UnderWay
    <2>2. CASE UNCHANGED <<issues, hooks, dirty>>
      <3>1. OthersStay(c) /\ ~Live(c)' /\ ~Bound(c)
        BY <1>7, GoToRows DEF PlaceIssue, At, Live, Bound, Reader, Reads
      <3>2. QED
        BY <1>2, <2>2, <3>1, IdleKeeps DEF TiesStay
    <2>3. QED
      BY <1>3, <1>7, <2>1, <2>2 DEF PlaceIssue, Undelivered
  <1>8. QED
    BY <1>4, <1>5, <1>6, <1>7

\* The issue that was made becomes the story's: its webhook is still to come.
LEMMA InsertAgrees ==
    ASSUME Before, NEW c \in Calls, InsertItem(c)
    PROVE  OwingAgrees'
  <1> USE DEF Before
  <1>1. CASE item # NoItem
    BY <1>1, UnderWay DEF InsertItem, Undelivered
  <1>2. CASE item = NoItem
    <2>1. ~Settled(call[c].item.issue) /\ UNCHANGED hooks /\ ids' = ids + 1
      BY <1>2 DEF InsertItem, Give, Good
    <2>2. PICK n \in DOMAIN hooks : hooks[n].pc \notin {"release", "done"}
      BY <2>1 DEF Settled
    <2>3. hooks[n].pc # "lost"
      BY DEF InOrder
    <2>4. hooks[n].pc = "save" => hooks[n].item.id # ids'
      <3>1. hooks[n].pc = "save" => hooks[n].item.id <= ids
        BY DEF Numbered, JobReads
      <3>2. ids \in Nat /\ hooks[n].item.id \in Nat
        BY NumbersTyped
      <3>3. QED
        BY <2>1, <3>1, <3>2
    <2>5. hooks[n].pc \in {"waiting", "item", "conflict", "story", "save", "fail"}
      BY <2>2, <2>3, NumbersTyped DEF Hook
    <2>6. Opens'
      BY <2>1, <2>4, <2>5 DEF Opens, Open
    <2>7. QED
      BY <2>6, UnderWay
  <1>3. QED
    BY <1>1, <1>2

LEMMA PushAgrees ==
    ASSUME Before, NEW c \in Calls, Acquire(c) \/ Push(c)
    PROVE  OwingAgrees'
  <1> USE DEF Before
  <1>1. call \in [Calls -> Call] /\ call[c] \in Call
    BY DEF Typed, TypeOK
  <1>2. CASE Acquire(c) \/ Release(c)
    <2>1. PICK pc \in {"done", "story"} : GoTo(c, pc)
      BY <1>2 DEF Acquire, Release
    <2>2. OthersStay(c) /\ ~Live(c)' /\ ~Bound(c)
      BY <1>2, <2>1, GoToRows
         DEF Acquire, Release, At, Live, Bound, Reader, Reads
    <2>3. UNCHANGED <<story, issues, hooks, ids, dirty, item>>
      BY <1>2 DEF Acquire, Release, history
    <2>4. QED
      BY <2>2, <2>3, IdleKeeps DEF TiesStay
  <1>3. CASE ReadStory(c)
    <2>1. Bound(c)'
      BY <1>1, <1>3 DEF ReadStory, Call, Bound
    <2>2. QED
      BY <2>1, UnderWay DEF Bounds
  <1>4. CASE ReadItem(c)
    <2>1. /\ OthersStay(c) /\ UNCHANGED <<story, issues, hooks, ids, dirty, item>>
          /\ call'[c].pc \in {"create", "update"} /\ call'[c].content = call[c].content
          /\ At(c, "item")
      BY <1>1, <1>4 DEF ReadItem, OthersStay, Call, At, history
    <2>2. Owing
      BY <2>1 DEF Owing, Live
    <2>3. Bound(c) => Bound(c)'
      BY <2>1 DEF Bound, At, Reader, Reads
    <2>4. QED
      BY <2>1, <2>2, <2>3, CallKeepsAgrees DEF TiesStay
  <1>5. CASE CreateIssue(c)
    BY <1>5, NewIssueReports, ReportsOpen, UnderWay DEF CreateIssue
  <1>6. CASE MarkError(c)
    BY <1>6, UnderWay DEF MarkError, Undelivered
  <1>7. QED
    BY <1>2, <1>3, <1>4, <1>5, <1>6, InsertAgrees, SendAgrees, SaveAgrees DEF Push

LEMMA ResolveAgrees ==
    ASSUME Before, NEW c \in Calls,
           ResolveStep(c) \/ \E side \in {"push", "pull"} : Resolve(c, side)
    PROVE  OwingAgrees'
  <1> USE DEF Before
  <1>1. call \in [Calls -> Call] /\ call[c] \in Call
    BY DEF Typed, TypeOK
  <1>2. CASE \E side \in {"push", "pull"} : Resolve(c, side)
    <2>1. /\ OthersStay(c) /\ UNCHANGED <<story, issues, hooks, ids, dirty, item>>
          /\ call'[c].pc \in {"view", "fetch"} /\ At(c, "idle")
      BY <1>1, <1>2 DEF Resolve, OthersStay, Call, At, history
    <2>2. ~Live(c)' /\ ~Bound(c)
      BY <2>1 DEF Live, Bound, At, Reader, Reads
    <2>3. QED
      BY <2>1, <2>2, IdleKeeps DEF TiesStay
  <1>3. CASE ViewStory(c)
    <2>1. Bound(c)'
      BY <1>1, <1>3 DEF ViewStory, Call, Bound
    <2>2. QED
      BY <2>1, UnderWay DEF Bounds
  <1>4. CASE FetchIssue(c)
    <2>1. /\ OthersStay(c) /\ UNCHANGED <<story, issues, hooks, ids, dirty, item>>
          /\ call'[c].pc = "write" /\ At(c, "fetch")
      BY <1>1, <1>4 DEF FetchIssue, OthersStay, Call, At, history
    <2>2. ~Live(c)' /\ ~Bound(c)
      BY <2>1 DEF Live, Bound, At, Reader, Reads
    <2>3. QED
      BY <2>1, <2>2, IdleKeeps DEF TiesStay
  <1>5. CASE OverwriteStory(c)
    <2>1. /\ Reader(c) /\ At(c, "write") /\ UNCHANGED <<issues, hooks, ids>>
          /\ call'[c].pc = "settle" /\ call'[c].item = call[c].item
          /\ story' = call[c].content
      BY <1>5, GoToRows DEF OverwriteStory, Reader, Reads, At
    <2>2. CASE call[c].item.id # ids
      BY <2>1, <2>2, UnderWay DEF Bounds, Bound, Reader, Reads
    <2>3. CASE call[c].item.id = ids /\ Opens
      <3>1. Opens'
        BY <2>1, <2>3 DEF Opens, Open
      <3>2. QED
        BY <3>1, UnderWay
    <2>4. CASE call[c].item.id = ids /\ ~Opens
      <3>1. story' = issues'[call[c].item.issue]
        BY <2>1, <2>4 DEF Fetched
      <3>2. Ties(call[c].item.issue) /\ call[c].item.issue \in DOMAIN issues
        BY <2>1, <2>4 DEF Ties, Typed, IssuesExist, At, Targets
      <3>3. \A i \in DOMAIN issues' : Ties(i)' => i = call[c].item.issue
        BY <2>1, <3>2 DEF TiesStay, TiedToOne
      <3>4. QED
        BY <3>1, <3>3 DEF OwingAgrees, Agrees
    <2>5. QED
      BY <2>2, <2>3, <2>4
  <1>6. QED
    BY <1>2, <1>3, <1>4, <1>5, SendAgrees, SaveAgrees DEF ResolveStep

\* A story is linked: what was read of it is still what it is.
LEMMA LinkAgrees ==
    ASSUME Before, NEW c \in Calls,
           Link(c) \/ Unlink(c) \/ \E i \in DOMAIN issues : CheckLink(c, i)
    PROVE  OwingAgrees'
  <1> USE DEF Before
  <1>1. call \in [Calls -> Call] /\ call[c] \in Call
    BY DEF Typed, TypeOK
  <1>2. CASE Unlink(c) \/ (Link(c) /\ item # NoItem)
    <2>1. OthersStay(c) /\ ~Live(c)' /\ ~Bound(c)
      BY <1>2, GoToRows DEF Unlink, Link, At, Live, Bound, Reader, Reads
    <2>2. /\ UNCHANGED <<story, issues, hooks, ids, dirty>>
          /\ item' = item \/ item' = NoItem
      BY <1>2 DEF Unlink, Link
    <2>3. QED
      BY <2>1, <2>2, IdleKeeps DEF TiesStay
  <1>3. CASE \E i \in DOMAIN issues : CheckLink(c, i)
    <2>1. /\ OthersStay(c) /\ UNCHANGED <<story, issues, hooks, ids, dirty, item>>
          /\ call'[c].pc = "link" /\ At(c, "idle")
      BY <1>1, <1>3 DEF CheckLink, OthersStay, Call, At, history
    <2>2. ~Live(c)' /\ ~Bound(c)
      BY <2>1 DEF Live, Bound, At, Reader, Reads
    <2>3. QED
      BY <2>1, <2>2, IdleKeeps DEF TiesStay
  <1>4. CASE Link(c) /\ item = NoItem
    <2>1. /\ ids' = ids + 1 /\ item'.last = "none" /\ UNCHANGED <<story, hooks, dirty>>
          /\ ~ReadOld
      BY <1>4 DEF Link, Give, Good
    <2>2. OthersStay(c) /\ call'[c].pc = "done"
      BY <1>4, GoToRows DEF Link, Reads
    <2>3. ids \in Nat /\ (\A d \in Calls : call[d].item.id \in Nat)
          /\ (\A n \in DOMAIN hooks : hooks[n].item.id \in Nat)
      BY NumbersTyped
    <2>4. ASSUME NEW n \in DOMAIN hooks', hooks'[n].pc = "save"
          PROVE  hooks'[n].item.id # ids'
      BY <2>1, <2>3, <2>4 DEF Numbered, JobReads
    <2>5. ASSUME NEW d \in Calls, Live(d)', ~dirty
          PROVE  Bounds'
      <3>1. d # c /\ call'[d] = call[d]
        BY <2>2, <2>5 DEF OthersStay, Live, At
      <3>2. CASE At(d, "item")
        <4>1. call[d].content = story
          BY <2>1, <2>5, <3>2 DEF ReadOld
        <4>2. QED
          BY <2>1, <3>1, <3>2, <4>1 DEF Bounds, Bound, At
      <3>3. CASE ~At(d, "item")
        <4>1. Reader(d) /\ call[d].item.id = ids'
          BY <2>5, <3>1, <3>3 DEF Live, At, Reader, Reads
        <4>2. QED
          BY <2>1, <2>3, <4>1 DEF Numbered
      <3>4. QED
        BY <3>2, <3>3
    <2>6. CASE dirty
      BY <2>1, <2>6 DEF OwingAgrees, Agrees
    <2>7. CASE ~dirty
      BY <2>1, <2>4, <2>5, <2>7 DEF OwingAgrees, Owing, Agrees
    <2>8. QED
      BY <2>6, <2>7
  <1>5. QED
    BY <1>2, <1>3, <1>4

LEMMA CallAgrees ==
    ASSUME Before, NEW c \in Calls, CallAct(c)
    PROVE  OwingAgrees'
  <1>1. CASE CreateAgain(c)
    BY <1>1, NewIssueReports, ReportsOpen, UnderWay DEF CreateAgain, Before
  <1>2. CASE Fails(c)
    BY <1>2, UnderWay DEF Fails, Undelivered
  <1>3. ~FetchUnread(c)
    BY DEF FetchUnread, Give, Before, Good
  <1>4. QED
    BY <1>1, <1>2, <1>3, PushAgrees, ResolveAgrees, LinkAgrees DEF CallAct, CallStep

-----------------------------------------------------------------------------
(* Agreement: jobs, and the rest *)

LEMMA JobAgrees ==
    ASSUME Before, NEW n \in DOMAIN hooks, JobStep(n)
    PROVE  OwingAgrees'
  <1> USE DEF Before
  <1> DEFINE i0 == hooks[n].issue
  <1>1. OtherJobs(n) /\ UNCHANGED <<issues, call, ids>>
    BY JobMoves
  <1>2. CASE Opens'
    BY <1>2, UnderWay
  <1>3. CASE HookConflict(n) /\ hooks[n].item.id = ids
    <2>1. /\ item'.status = "conflict" /\ hooks'[n].pc = "release"
          /\ \A c \in Calls : call[c].pc \in {"idle", "done", "release", "link"}
      BY <1>3, JobSaves
    <2>2. ASSUME NEW m \in DOMAIN hooks', hooks'[m].pc = "save", hooks'[m].item.id = ids'
          PROVE  FALSE
      <3>1. m # n /\ m \in DOMAIN hooks /\ hooks[m] = hooks'[m]
        BY <1>1, <2>1, <2>2 DEF OtherJobs
      <3>2. JobReads(n) /\ JobReads(m) /\ hooks[m].item.id = ids
        BY <1>1, <1>3, <2>2, <3>1 DEF HookConflict, JobReads
      <3>3. /\ Ties(hooks[n].issue) /\ Ties(hooks[m].issue)
            /\ hooks[n].issue \in DOMAIN issues /\ hooks[m].issue \in DOMAIN issues
        BY <1>3, <3>1, <3>2 DEF Ties, Typed, IssuesExist
      <3>4. hooks[n].issue = hooks[m].issue
        BY <3>3 DEF TiedToOne
      <3>5. m < n \/ n < m
        BY <3>1 DEF Typed, TypeOK
      <3>6. QED
        BY <3>1, <3>2, <3>4, <3>5 DEF InOrder, JobReads
    <2>3. \A c \in Calls : ~Live(c)'
      BY <1>1, <2>1 DEF Live, At
    <2>4. ~Owing'
      BY <2>1, <2>2, <2>3 DEF Owing
    <2>5. QED
      BY <2>4 DEF OwingAgrees
  <1>4. CASE HookStory(n) /\ hooks[n].item.id = ids
    <2>1. story' = hooks[n].content /\ hooks[n].pc = "story"
      BY <1>4 DEF HookStory
    <2>2. CASE \E m \in DOMAIN hooks : n < m /\ hooks[m].issue = i0
      <3>1. PICK m \in DOMAIN hooks : n < m /\ hooks[m].issue = i0
        BY <2>2
      <3>2. hooks[m].pc = "waiting" /\ m # n
        BY <2>1, <3>1 DEF InOrder, Typed, TypeOK
      <3>3. Opens'
        BY <1>1, <3>2 DEF Opens, Open, OtherJobs
      <3>4. QED
        BY <3>3, UnderWay
    <2>3. CASE hooks[n].content = issues[i0]
      <3>1. JobReads(n) /\ i0 \in DOMAIN issues
        BY <2>1 DEF JobReads, Typed, IssuesExist
      <3>2. Ties(i0)
        BY <1>4, <3>1 DEF Ties
      <3>3. \A i \in DOMAIN issues' : Ties(i)' => i = i0
        BY <1>1, <3>1, <3>2 DEF TiesStay, TiedToOne
      <3>4. QED
        BY <1>1, <2>1, <2>3, <3>3 DEF OwingAgrees, Agrees
    <2>4. QED
      BY <2>2, <2>3 DEF InOrder
  <1>5. CASE ~Open(n) /\ UNCHANGED <<story, dirty>> /\ (Owing' => Owing) /\ ~Opens'
    <2>1. ~Opens
      <3>1. \A m \in DOMAIN hooks : m # n => ~Open(m)
        BY <1>1, <1>5, OpenKept DEF OtherJobs, Opens
      <3>2. QED
        BY <1>5, <3>1 DEF Opens
    <2>2. Bounds => Bounds'
      BY <1>1, <1>5 DEF Bounds, Bound, At, Reader
    <2>3. QED
      BY <1>1, <1>5, <2>1, <2>2 DEF OwingAgrees, Agrees, TiesStay
  <1>6. QED
    BY <1>2, <1>3, <1>4, <1>5, JobKinds

LEMMA OutsideAgrees ==
    ASSUME Before, Outside
    PROVE  OwingAgrees'
  <1> USE DEF Before
  <1>1. CASE Crash \/ \E f \in Field : EditStory(f)
    BY <1>1, UnderWay DEF Crash, EditStory, Undelivered
  <1>2. CASE Reports
    BY <1>2, ReportsOpen, UnderWay
  <1>3. CASE UNCHANGED <<story, dirty, item, ids, call, issues, hooks>>
    <2>1. /\ Owing' => Owing
          /\ Opens => Opens'
          /\ Bounds => Bounds'
      BY <1>3 DEF Owing, Live, At, Opens, Open, Bounds, Bound, Reader
    <2>2. QED
      BY <1>3, <2>1 DEF OwingAgrees, Agrees, TiesStay
  <1>4. CASE ~Crash /\ ~\E f \in Field : EditStory(f)
    <2>1. UNCHANGED <<story, dirty>>
      BY <1>4 DEF Outside, EditIssue, ExpireStoryLock, ExpireIssueLock, vars, history
    <2>2. QED
      BY <1>2, <1>3, <1>4, <2>1, OutsideMoves
  <1>5. QED
    BY <1>1, <1>4

-----------------------------------------------------------------------------
(* Theorem *)

LEMMA InitAgreement == Init => Agreement
  <1> SUFFICES ASSUME Init
               PROVE  Agreement
    OBVIOUS
  <1>1. /\ hooks = <<>> /\ DOMAIN hooks = {} /\ ids = 1 /\ DOMAIN issues = {1}
        /\ \A c \in Calls : call[c].pc = "idle"
        /\ story = issues[1]
    BY DEF Init, Idle
  <1>2. item = NoItem \/ (item.id = 1 /\ item.issue = 1)
    BY DEF Init
  <1>3. Numbered
    BY <1>1, <1>2 DEF Numbered, Reader, Reads
  <1>4. TiedToOne
    BY <1>1 DEF TiedToOne
  <1>5. InOrder
    BY <1>1 DEF InOrder
  <1>6. OwingAgrees
    BY <1>1 DEF OwingAgrees, Agrees
  <1>7. Fetched
    BY <1>1 DEF Fetched, At
  <1>8. QED
    BY <1>3, <1>4, <1>5, <1>6, <1>7 DEF Agreement

LEMMA StepAgreement == AgreementInvariant /\ [Next]_vars => AgreementInvariant'
  <1> SUFFICES ASSUME AgreementInvariant, [Next]_vars
               PROVE  AgreementInvariant'
    OBVIOUS
  <1>1. Typed /\ Typed'
    BY StepTyped DEF AgreementInvariant
  <1>2. ASSUME Good'
        PROVE  Agreement'
    <2>1. Agreement
      BY <1>2, ExcusesStay DEF AgreementInvariant, Good
    <2>2. Numbered' /\ TiedToOne' /\ TiesStay
      BY <1>1, <1>2, <2>1, StepRows DEF Agreement, TiesStay
    <2>3. InOrder' /\ Fetched'
      BY <1>1, <1>2, <2>1, StepInOrder, StepFetched DEF Agreement
    <2>4. Before
      BY <1>1, <1>2, <2>1, <2>2, <2>3 DEF Agreement, Before
    <2>5. OwingAgrees'
      BY <2>4, StepKinds, CallAgrees, JobAgrees, OutsideAgrees
    <2>6. QED
      BY <2>2, <2>3, <2>5 DEF Agreement
  <1>3. QED
    BY <1>1, <1>2 DEF AgreementInvariant

\* Once all has ended there is nothing under way.
LEMMA QuietAgrees == AgreementInvariant => SyncedAgree
  <1> SUFFICES ASSUME AgreementInvariant, Quiet, item.status = "synced",
                      item.last # "none", ~dirty, Good
               PROVE  story = issues[item.issue]
    BY DEF SyncedAgree, Good
  <1>1. Agreement /\ Typed
    BY DEF AgreementInvariant
  <1>2. item # NoItem
    BY DEF NoItem
  <1>3. Ties(item.issue) /\ item.issue \in DOMAIN issues
    BY <1>1, <1>2 DEF Agreement, Numbered, Ties, Typed, IssuesExist
  <1>4. ~Opens
    BY DEF Opens, Open, Quiet
  <1>5. ~Bounds
    BY DEF Bounds, Bound, Quiet, At, Reader, Reads
  <1>6. QED
    BY <1>1, <1>3, <1>4, <1>5 DEF Agreement, OwingAgrees, Owing, Agrees

\* Whatever pushes, webhooks and resolutions have crossed, in whatever number, a
\* story that is shown as synchronised is the same as its issue once all have
\* ended, unless something excuses it.
THEOREM Agree == Spec => []SyncedAgree
  <1>1. Init => AgreementInvariant
    BY InitTyped, InitAgreement DEF AgreementInvariant
  <1>2. QED
    BY <1>1, StepAgreement, QuietAgrees, PTL DEF Spec
=============================================================================
