----------------------------- MODULE IssueSync -----------------------------
(***************************************************************************)
(* The two-way synchronisation of a story with an issue of Linear or Jira: *)
(* LinearSyncService and JiraSyncService, which are twins, with their      *)
(* webhooks and queue.  A call pushes the story to the issue, links,       *)
(* unlinks, or resolves a conflict; every change of the issue comes back   *)
(* as a webhook, which a job writes into the story.                        *)
(*                                                                         *)
(* Pushes exclude each other by a lock on the story, webhooks by a lock on *)
(* the issue: a push does not exclude a webhook, and links, unlinks and    *)
(* resolutions take no lock at all.                                        *)
(*                                                                         *)
(* The tracker is external: it keeps what it is sent and reports each      *)
(* change in a webhook with a snapshot of the issue.  Bull is external: it *)
(* gives out a waiting job at any time, and a failed one again.            *)
(*                                                                         *)
(* Left out: one-way integrations (their guard keeps one kind of call from *)
(* doing anything), status mappings that are not one to one, the           *)
(* conversion of Jira's descriptions, deleted stories and issues, fields   *)
(* that are not synchronised, and statistics.  A user's edit of a story is *)
(* one step.                                                               *)
(***************************************************************************)
EXTENDS Integers, Sequences

CONSTANTS
    Calls,          \* calls of the API or of the story listener
    Tries,          \* attempts of a job of the sync queue
    Scenarios       \* how a behaviour may start and what may happen to it

\* tracker   : whose issue it is
\* linked    : whether story and issue 1 were in step before
\* edits     : bound on the edits of users
\* incidents : bound on failed requests, crashes and locks that expire early
Scenario == [tracker : {"linear", "jira"}, linked : BOOLEAN,
             edits : Nat, incidents : Nat]

ASSUME SyncAssumption ==
    /\ Tries \in Nat \ {0}
    /\ \A sc \in Scenarios : sc \in Scenario

VARIABLES
    scenario,   \* the scenario of this behaviour
    story,      \* the story: what its text and its status were last set to
    issues,     \* the issues, numbered as they were created
    item,       \* the sync item that ties the story to an issue
    storyLock,  \* the lock key of the story exists
    issueLocks, \* the issues whose lock key exists
    call,       \* the calls
    hooks,      \* the jobs of the webhooks, in the order of the changes
    edits,      \* edits so far
    ids,        \* sync items inserted so far
    incidents,  \* incidents so far
    created,    \* history: issues created by pushes
    unlinks,    \* history: sync items removed
    dirty,      \* history: the story has something that no push has carried
    excuse      \* history: what may keep story and issue apart for good

history == <<created, unlinks, dirty, excuse>>
vars == <<scenario, story, issues, item, storyLock, issueLocks, call, hooks,
          edits, ids, incidents, history>>

Field == {"text", "status"}
Content == [Field -> Nat]
NoContent == [f \in Field |-> 0]

\* later : lastDevosUpdateAt is later than lastSyncedAt
\* last  : syncDirectionLast
Item == [id : Nat, issue : Nat, later : BOOLEAN,
         status : {"none", "synced", "conflict", "error"},
         last : {"none", "push", "pull"}]
NoItem == [id |-> 0, issue |-> 0, later |-> FALSE, status |-> "none", last |-> "none"]

Call == [pc : {"idle", "story", "item", "create", "place", "insert", "update",
               "move", "save", "conflict", "error", "release", "link",
               "view", "send", "shift", "fetch", "write", "settle", "done"},
         content : Content,     \* the story or issue as it was read
         item : Item]           \* the sync item as it was read
Idle == [pc |-> "idle", content |-> NoContent, item |-> NoItem]

Hook == [pc : {"waiting", "item", "conflict", "story", "save", "fail",
               "release", "done", "lost"},
         issue : Nat,
         content : Content,     \* the snapshot
         item : Item,
         tries : Nat]

TypeOK ==
    /\ scenario \in Scenarios
    /\ story \in Content
    /\ issues \in Seq(Content)
    /\ item \in Item
    /\ storyLock \in BOOLEAN
    /\ issueLocks \subseteq DOMAIN issues
    /\ call \in [Calls -> Call]
    /\ hooks \in Seq(Hook)
    /\ \A n \in 1 .. Len(hooks) : hooks[n].tries < Tries \/ hooks[n].pc = "lost"
    /\ edits \in 0 .. scenario.edits
    /\ incidents \in 0 .. scenario.incidents
    /\ ids \in Nat
    /\ created \in Nat
    /\ unlinks \in Nat
    /\ dirty \in BOOLEAN
    /\ excuse \subseteq {"missed", "reordered", "crossed", "unread", "revived",
                          "expired"}

Init ==
    /\ scenario \in Scenarios
    /\ story = NoContent
    /\ issues = <<NoContent>>
    /\ item = IF scenario.linked
              THEN [id |-> 1, issue |-> 1, later |-> FALSE, status |-> "synced",
                    last |-> "push"]
              ELSE NoItem
    /\ storyLock = FALSE
    /\ issueLocks = {}
    /\ call = [c \in Calls |-> Idle]
    /\ hooks = <<>>
    /\ edits = 0
    /\ ids = 1
    /\ incidents = 0
    /\ created = 0
    /\ unlinks = 0
    /\ dirty = FALSE
    /\ excuse = {}

-----------------------------------------------------------------------------
(* Helpers *)

At(c, pc) == call[c].pc = pc

Done == [Idle EXCEPT !.pc = "done"]
GoTo(c, pc) == call' = [call EXCEPT ![c] = IF pc = "done" THEN Done
                                           ELSE [@ EXCEPT !.pc = pc]]

Linear == scenario.tracker = "linear"

\* The tracker changes an issue and reports it.
Change(i, content) ==
    /\ issues' = [issues EXCEPT ![i] = content]
    /\ hooks' = IF content = issues[i] THEN hooks
                ELSE Append(hooks, [pc |-> "waiting", issue |-> i, content |-> content,
                                    item |-> NoItem, tries |-> 0])

\* Text and status of c's story go to the issue at once in Linear; in Jira
\* the status takes a transition of its own.
Sent(c, old) == IF Linear THEN call[c].content
                ELSE [old EXCEPT !["text"] = call[c].content["text"]]
Moved(c, old) == [old EXCEPT !["status"] = call[c].content["status"]]

\* save() of a row that was read: updates it, or inserts it once more if it
\* has been removed; the unique indexes refuse it if another has taken its
\* place.
Refused(row) == item.id \notin {0, row.id}
Save(row) == item' = IF Refused(row) THEN item ELSE row

\* The story is not what the issue was last sent.
Undelivered == dirty' = TRUE

Give(up, so) == excuse' = IF so THEN excuse \cup {up} ELSE excuse

\* A save that brings back a row whose place another had taken, and left.
Revives(row) == item = NoItem /\ row.id # ids
GiveSaved(row) == Give("revived", Revives(row))

-----------------------------------------------------------------------------
(* syncStoryToLinear, syncStoryToJira *)

\* A lock that is not asked for.
AcquireBug(c) ==
    /\ At(c, "idle")
    /\ GoTo(c, "story")
    /\ storyLock' = TRUE
    /\ UNCHANGED <<scenario, story, issues, item, issueLocks, hooks, edits, ids,
                   incidents, history>>

\* The call begins: without the lock it throws.
Acquire(c) ==
    /\ At(c, "idle")
    /\ GoTo(c, IF storyLock THEN "done" ELSE "story")
    /\ storyLock' = TRUE
    /\ UNCHANGED <<scenario, story, issues, item, issueLocks, hooks, edits, ids,
                   incidents, history>>

ReadStory(c) ==
    /\ At(c, "story")
    /\ call' = [call EXCEPT ![c].pc = "item", ![c].content = story]
    /\ dirty' = FALSE
    /\ UNCHANGED <<scenario, story, issues, item, storyLock, issueLocks, hooks, edits,
                   ids, incidents, created, unlinks, excuse>>

ReadItem(c) ==
    /\ At(c, "item")
    /\ call' = [call EXCEPT ![c].pc = IF item = NoItem THEN "create" ELSE "update",
                            ![c].item = item]
    /\ UNCHANGED <<scenario, story, issues, item, storyLock, issueLocks, hooks, edits,
                   ids, incidents, history>>

\* The new issue, which is reported like a change.
NewIssue(c) ==
    /\ issues' = Append(issues, Sent(c, NoContent))
    /\ hooks' = Append(hooks, [pc |-> "waiting", issue |-> Len(issues) + 1,
                               content |-> Sent(c, NoContent), item |-> NoItem,
                               tries |-> 0])
    /\ created' = created + 1

CreateIssue(c) ==
    /\ At(c, "create")
    /\ NewIssue(c)
    /\ call' = [call EXCEPT ![c].pc = IF Linear THEN "insert" ELSE "place",
                            ![c].item.issue = Len(issues) + 1]
    /\ UNCHANGED <<scenario, story, item, storyLock, issueLocks, edits, ids, incidents,
                   unlinks, dirty, excuse>>

\* Jira: the transition to the story's status, if the workflow has one.
PlaceIssue(c) ==
    LET i == call[c].item.issue IN
    /\ At(c, "place")
    /\ GoTo(c, "insert")
    /\ \/ Change(i, Moved(c, issues[i])) /\ UNCHANGED dirty
       \/ Undelivered /\ UNCHANGED <<issues, hooks>>
    /\ UNCHANGED <<scenario, story, item, storyLock, issueLocks, edits, ids, incidents,
                   created, unlinks, excuse>>

\* Every webhook of the issue has been worked off.
Settled(i) == \A n \in DOMAIN hooks :
    hooks[n].issue = i => hooks[n].pc \in {"release", "done"}

\* The clock is read twice, for lastSyncedAt first.  The webhook of a new issue
\* finds no item, unless the issue was linked, and unlinked, meanwhile.
InsertItem(c) ==
    LET i == call[c].item.issue IN
    /\ At(c, "insert")
    /\ GoTo(c, "release")
    /\ \/ /\ item = NoItem
          /\ \E tick \in BOOLEAN :
                item' = [id |-> ids + 1, issue |-> i, later |-> tick,
                         status |-> "synced", last |-> "push"]
          /\ ids' = ids + 1
          /\ Give("revived", Settled(i))
          /\ UNCHANGED dirty
       \/ /\ item # NoItem
          /\ Undelivered
          /\ UNCHANGED <<item, ids, excuse>>
    /\ UNCHANGED <<scenario, story, issues, storyLock, issueLocks, hooks, edits,
                   incidents, created, unlinks>>

UpdateIssue(c) ==
    LET i == call[c].item.issue IN
    /\ At(c, "update")
    /\ GoTo(c, IF Linear THEN "save" ELSE "move")
    /\ Change(i, Sent(c, issues[i]))
    /\ UNCHANGED <<scenario, story, item, storyLock, issueLocks, edits, ids, incidents,
                   history>>

\* Jira: without a transition to the story's status there is a conflict, even
\* if the issue has that status.
MoveIssue(c) ==
    LET i == call[c].item.issue IN
    /\ At(c, "move")
    /\ \/ /\ Change(i, Moved(c, issues[i]))
          /\ GoTo(c, "save")
          /\ UNCHANGED dirty
       \/ /\ GoTo(c, "conflict")
          /\ Undelivered
          /\ UNCHANGED <<issues, hooks>>
    /\ UNCHANGED <<scenario, story, item, storyLock, issueLocks, edits, ids, incidents,
                   created, unlinks, excuse>>

\* The item is saved as it was read, but for what the call sets.
SaveItem(c) ==
    /\ At(c, "save")
    /\ GoTo(c, IF Refused(call[c].item) THEN "error" ELSE "release")
    /\ \E tick \in BOOLEAN :
          Save([call[c].item EXCEPT !.later = tick, !.status = "synced", !.last = "push"])
    /\ GiveSaved(call[c].item)
    /\ UNCHANGED <<scenario, story, issues, storyLock, issueLocks, hooks, edits, ids,
                   incidents, created, unlinks, dirty>>

MarkConflict(c) ==
    /\ At(c, "conflict")
    /\ GoTo(c, IF Refused(call[c].item) THEN "error" ELSE "release")
    /\ Save([call[c].item EXCEPT !.status = "conflict"])
    /\ GiveSaved(call[c].item)
    /\ UNCHANGED <<scenario, story, issues, storyLock, issueLocks, hooks, edits, ids,
                   incidents, created, unlinks, dirty>>

\* What failed is written to the item and thrown.
MarkError(c) ==
    /\ At(c, "error")
    /\ GoTo(c, "release")
    /\ Save([call[c].item EXCEPT !.status = "error"])
    /\ GiveSaved(call[c].item)
    /\ Undelivered
    /\ UNCHANGED <<scenario, story, issues, storyLock, issueLocks, hooks, edits, ids,
                   incidents, created, unlinks>>

\* The key is deleted, whoever owns it by now.
Release(c) ==
    /\ At(c, "release")
    /\ GoTo(c, "done")
    /\ storyLock' = FALSE
    /\ UNCHANGED <<scenario, story, issues, item, issueLocks, hooks, edits, ids,
                   incidents, history>>

Push(c) ==
    \/ ReadStory(c) \/ ReadItem(c)
    \/ CreateIssue(c) \/ PlaceIssue(c) \/ InsertItem(c)
    \/ UpdateIssue(c) \/ MoveIssue(c) \/ SaveItem(c) \/ MarkConflict(c)
    \/ MarkError(c) \/ Release(c)

-----------------------------------------------------------------------------
(* resolveConflict: no lock *)

Resolve(c, side) ==
    /\ At(c, "idle")
    /\ item.status = "conflict"
    /\ call' = [call EXCEPT ![c].pc = IF side = "push" THEN "view" ELSE "fetch",
                            ![c].item = [item EXCEPT !.last = side]]
    /\ UNCHANGED <<scenario, story, issues, item, storyLock, issueLocks, hooks, edits,
                   ids, incidents, history>>

\* keep_devos
ViewStory(c) ==
    /\ At(c, "view")
    /\ call' = [call EXCEPT ![c].pc = "send", ![c].content = story]
    /\ dirty' = FALSE
    /\ UNCHANGED <<scenario, story, issues, item, storyLock, issueLocks, hooks, edits,
                   ids, incidents, created, unlinks, excuse>>

SendStory(c) ==
    LET i == call[c].item.issue IN
    /\ At(c, "send")
    /\ GoTo(c, IF Linear THEN "settle" ELSE "shift")
    /\ Change(i, Sent(c, issues[i]))
    /\ UNCHANGED <<scenario, story, item, storyLock, issueLocks, edits, ids, incidents,
                   history>>

\* Jira: without a transition the status is left as it is.
ShiftIssue(c) ==
    LET i == call[c].item.issue IN
    /\ At(c, "shift")
    /\ GoTo(c, "settle")
    /\ \/ Change(i, Moved(c, issues[i])) /\ UNCHANGED dirty
       \/ Undelivered /\ UNCHANGED <<issues, hooks>>
    /\ UNCHANGED <<scenario, story, item, storyLock, issueLocks, edits, ids, incidents,
                   created, unlinks, excuse>>

\* keep_linear, keep_jira
FetchIssue(c) ==
    /\ At(c, "fetch")
    /\ call' = [call EXCEPT ![c].pc = "write", ![c].content = issues[call[c].item.issue]]
    /\ UNCHANGED <<scenario, story, issues, item, storyLock, issueLocks, hooks, edits,
                   ids, incidents, history>>

OverwriteStory(c) ==
    /\ At(c, "write")
    /\ GoTo(c, "settle")
    /\ story' = call[c].content
    /\ dirty' = FALSE
    /\ UNCHANGED <<scenario, issues, item, storyLock, issueLocks, hooks, edits, ids,
                   incidents, created, unlinks, excuse>>

\* If the item is refused the call throws.
Settle(c) ==
    /\ At(c, "settle")
    /\ GoTo(c, "done")
    /\ Save([call[c].item EXCEPT !.later = FALSE, !.status = "synced"])
    /\ GiveSaved(call[c].item)
    /\ dirty' = (dirty \/ Refused(call[c].item))
    /\ UNCHANGED <<scenario, story, issues, storyLock, issueLocks, hooks, edits, ids,
                   incidents, created, unlinks>>

ResolveStep(c) ==
    \/ ViewStory(c) \/ SendStory(c) \/ ShiftIssue(c)
    \/ FetchIssue(c) \/ OverwriteStory(c) \/ Settle(c)

-----------------------------------------------------------------------------
(* linkStoryToIssue and unlinkStoryFromIssue: no lock *)

\* The story has no item yet.
CheckLink(c, i) ==
    /\ At(c, "idle")
    /\ item = NoItem
    /\ call' = [call EXCEPT ![c].pc = "link", ![c].item.issue = i]
    /\ UNCHANGED <<scenario, story, issues, item, storyLock, issueLocks, hooks, edits,
                   ids, incidents, history>>

\* A push has read a story that has been replaced since, and not by a user.
ReadOld == ~dirty /\ \E c \in Calls : At(c, "item") /\ call[c].content # story

\* The row, refused if another came first; nothing is synchronised.
Link(c) ==
    /\ At(c, "link")
    /\ GoTo(c, "done")
    /\ \/ /\ item = NoItem
          /\ item' = [id |-> ids + 1, issue |-> call[c].item.issue, later |-> FALSE,
                      status |-> "synced", last |-> "none"]
          /\ ids' = ids + 1
          /\ Give("crossed", ReadOld)
       \/ /\ item # NoItem
          /\ UNCHANGED <<item, ids, excuse>>
    /\ UNCHANGED <<scenario, story, issues, storyLock, issueLocks, hooks, edits,
                   incidents, created, unlinks, dirty>>

Unlink(c) ==
    /\ At(c, "idle")
    /\ item # NoItem
    /\ GoTo(c, "done")
    /\ item' = NoItem
    /\ unlinks' = unlinks + 1
    /\ UNCHANGED <<scenario, story, issues, storyLock, issueLocks, hooks, edits, ids,
                   incidents, created, dirty, excuse>>

-----------------------------------------------------------------------------
(* syncLinearToDevos, syncJiraToDevos: job n of the queue *)

Busy(n) == hooks[n].pc \notin {"waiting", "done", "lost"}
Overtakes(n) == \E m \in 1 .. n - 1 :
    hooks[m].issue = hooks[n].issue /\ hooks[m].pc \notin {"done", "lost"}

\* One attempt too many.
FailedLateBug(n) ==
    LET gone == hooks[n].tries = Tries IN
    /\ hooks' = [hooks EXCEPT ![n].pc = IF gone THEN "lost" ELSE "waiting",
                              ![n].item = NoItem,
                              ![n].tries = @ + 1]
    /\ Give("missed", gone)

\* A retry that does not count.
FailedBug(n) ==
    /\ hooks' = [hooks EXCEPT ![n].pc = "waiting", ![n].item = NoItem]
    /\ UNCHANGED excuse

\* Bull gives a failed job again until its attempts are used up.
Failed(n) ==
    LET gone == hooks[n].tries + 1 = Tries IN
    /\ hooks' = [hooks EXCEPT ![n].pc = IF gone THEN "lost" ELSE "waiting",
                              ![n].item = NoItem,
                              ![n].tries = @ + 1]
    /\ Give("missed", gone)

HookTo(n, pc) == hooks' = [hooks EXCEPT ![n].pc = pc]

TakeHook(n) ==
    LET i == hooks[n].issue IN
    /\ hooks[n].pc = "waiting"
    /\ IF i \in issueLocks
       THEN Failed(n) /\ UNCHANGED issueLocks
       ELSE /\ HookTo(n, "item")
            /\ issueLocks' = issueLocks \cup {i}
            /\ Give("reordered", Overtakes(n))
    /\ UNCHANGED <<scenario, story, issues, item, storyLock, call, edits, ids,
                   incidents, created, unlinks, dirty>>

\* If DevOS is the newer side the job saves without writing the story.
HookItemBug(n) ==
    /\ hooks[n].pc = "item"
    /\ hooks' = [hooks EXCEPT ![n].pc = IF item.issue # hooks[n].issue THEN "fail"
                                        ELSE IF item.later THEN "save" ELSE "story",
                              ![n].item = item]
    /\ UNCHANGED <<scenario, story, issues, item, storyLock, issueLocks, call, edits,
                   ids, incidents, history>>

\* Without an item for the issue the job fails.
HookItem(n) ==
    /\ hooks[n].pc = "item"
    /\ hooks' = [hooks EXCEPT ![n].pc = IF item.issue # hooks[n].issue THEN "fail"
                                        ELSE IF item.later THEN "conflict" ELSE "story",
                              ![n].item = item]
    /\ UNCHANGED <<scenario, story, issues, item, storyLock, issueLocks, call, edits,
                   ids, incidents, history>>

\* A call that read the item, or will, may put its own state over this one.
Crossed == \E c \in Calls : call[c].pc \notin {"idle", "done", "release", "link"}

HookConflict(n) ==
    /\ hooks[n].pc = "conflict"
    /\ HookTo(n, IF Refused(hooks[n].item) THEN "fail" ELSE "release")
    /\ Save([hooks[n].item EXCEPT !.status = "conflict"])
    /\ Give(IF Crossed THEN "crossed" ELSE "revived",
            Crossed \/ Revives(hooks[n].item))
    /\ UNCHANGED <<scenario, story, issues, storyLock, issueLocks, call, edits, ids,
                   incidents, created, unlinks, dirty>>

\* The snapshot replaces what the story has.
HookStory(n) ==
    /\ hooks[n].pc = "story"
    /\ HookTo(n, "save")
    /\ story' = hooks[n].content
    /\ dirty' = FALSE
    /\ Give("crossed", \E c \in Calls : At(c, "write"))
    /\ UNCHANGED <<scenario, issues, item, storyLock, issueLocks, call, edits, ids,
                   incidents, created, unlinks>>

HookSave(n) ==
    /\ hooks[n].pc = "save"
    /\ HookTo(n, IF Refused(hooks[n].item) THEN "fail" ELSE "release")
    /\ Save([hooks[n].item EXCEPT !.later = FALSE, !.status = "synced", !.last = "pull"])
    /\ GiveSaved(hooks[n].item)
    /\ UNCHANGED <<scenario, story, issues, storyLock, issueLocks, call, edits, ids,
                   incidents, created, unlinks, dirty>>

\* The lock is released when the job has succeeded and when it has failed.
HookEnd(n) ==
    /\ hooks[n].pc \in {"fail", "release"}
    /\ issueLocks' = issueLocks \ {hooks[n].issue}
    /\ IF hooks[n].pc = "release"
       THEN /\ hooks' = [hooks EXCEPT ![n].pc = "done", ![n].item = NoItem]
            /\ UNCHANGED excuse
       ELSE Failed(n)
    /\ UNCHANGED <<scenario, story, issues, item, storyLock, call, edits, ids,
                   incidents, created, unlinks, dirty>>

HookStep(n) ==
    \/ TakeHook(n) \/ HookItem(n) \/ HookConflict(n)
    \/ HookStory(n) \/ HookSave(n) \/ HookEnd(n)

-----------------------------------------------------------------------------
(* Users, and what may go wrong *)

EditStory(f) ==
    /\ edits < scenario.edits
    /\ edits' = edits + 1
    /\ story' = [story EXCEPT ![f] = edits + 1]
    /\ dirty' = TRUE
    /\ UNCHANGED <<scenario, issues, item, storyLock, issueLocks, call, hooks, ids,
                   incidents, created, unlinks, excuse>>

EditIssue(i, f) ==
    /\ edits < scenario.edits
    /\ edits' = edits + 1
    /\ Change(i, [issues[i] EXCEPT ![f] = edits + 1])
    /\ UNCHANGED <<scenario, story, item, storyLock, issueLocks, call, ids, incidents,
                   history>>

Incident == incidents < scenario.incidents /\ incidents' = incidents + 1

\* The answer to a create is lost: the API client sends it once more.
CreateAgain(c) ==
    /\ Incident
    /\ At(c, "create")
    /\ NewIssue(c)
    /\ UNCHANGED <<scenario, story, item, storyLock, issueLocks, call, edits, ids,
                   unlinks, dirty, excuse>>

\* A step of a call fails, the tracker's with or without effect.  What fails
\* inside the update of an issue is written to the item; the rest is thrown.
Fails(c) ==
    LET i == call[c].item.issue IN
    /\ Incident
    /\ call[c].pc \notin {"idle", "release", "done"}
    /\ GoTo(c, CASE call[c].pc \in {"update", "move", "save", "conflict"} -> "error"
                 [] call[c].pc \in {"story", "item", "create", "place", "insert",
                                     "error"} -> "release"
                 [] OTHER -> "done")
    /\ \/ UNCHANGED <<issues, hooks>>
       \/ call[c].pc \in {"update", "send"} /\ Change(i, Sent(c, issues[i]))
       \/ call[c].pc \in {"place", "move", "shift"} /\ Change(i, Moved(c, issues[i]))
    /\ Undelivered
    /\ UNCHANGED <<scenario, story, item, storyLock, issueLocks, edits, ids, created,
                   unlinks, excuse>>

\* Linear's getIssue answers null to every failure, and the conflict is
\* settled without the issue.
FetchUnread(c) ==
    /\ Incident
    /\ Linear
    /\ At(c, "fetch")
    /\ GoTo(c, "settle")
    /\ Give("unread", TRUE)
    /\ UNCHANGED <<scenario, story, issues, item, storyLock, issueLocks, hooks, edits,
                   ids, created, unlinks, dirty>>

\* A step of a job fails.
HookFails(n) ==
    /\ Incident
    /\ Busy(n)
    /\ hooks[n].pc \notin {"fail", "release"}
    /\ HookTo(n, "fail")
    /\ UNCHANGED <<scenario, story, issues, item, storyLock, issueLocks, call, edits,
                   ids, history>>

\* A webhook does not arrive, or is answered without being queued.
HookMissed(n) ==
    /\ Incident
    /\ hooks[n].pc = "waiting"
    /\ hooks[n].tries = 0
    /\ HookTo(n, "lost")
    /\ Give("missed", TRUE)
    /\ UNCHANGED <<scenario, story, issues, item, storyLock, issueLocks, call, edits,
                   ids, created, unlinks, dirty>>

\* The process ends: its calls are gone, Bull gives its jobs to another, and
\* the lock keys stay.
Crash ==
    /\ Incident
    /\ \E c \in Calls : call[c].pc \notin {"idle", "done"}
       \/ \E n \in DOMAIN hooks : Busy(n)
    /\ call' = [c \in Calls |-> IF call[c].pc = "idle" THEN call[c] ELSE Done]
    /\ hooks' = [n \in DOMAIN hooks |->
                   IF Busy(n) THEN [hooks[n] EXCEPT !.pc = "waiting", !.item = NoItem]
                   ELSE hooks[n]]
    /\ Undelivered
    /\ UNCHANGED <<scenario, story, issues, item, storyLock, issueLocks, edits, ids,
                   created, unlinks, excuse>>

Holds(c) == call[c].pc \in {"story", "item", "create", "place", "insert", "update",
                            "move", "save", "conflict", "error", "release"}

\* 30 seconds after it was taken a lock is gone: for certain if its owner is,
\* and too early if its owner waits for the tracker.
ExpireStoryLock ==
    /\ storyLock
    /\ storyLock' = FALSE
    /\ IF \E c \in Calls : Holds(c) THEN Incident /\ Give("expired", TRUE)
                                     ELSE UNCHANGED <<incidents, excuse>>
    /\ UNCHANGED <<scenario, story, issues, item, issueLocks, call, hooks, edits, ids,
                   created, unlinks, dirty>>

ExpireIssueLock(i) ==
    /\ i \in issueLocks
    /\ issueLocks' = issueLocks \ {i}
    /\ IF \E n \in DOMAIN hooks : Busy(n) /\ hooks[n].issue = i
       THEN Incident ELSE UNCHANGED incidents
    /\ UNCHANGED <<scenario, story, issues, item, storyLock, call, hooks, edits, ids,
                   history>>

-----------------------------------------------------------------------------

Stop ==
    /\ \A c \in Calls : call[c].pc = "done"
    /\ \A n \in DOMAIN hooks : hooks[n].pc \in {"done", "lost"}
    /\ UNCHANGED vars

CallStep(c) == Push(c) \/ ResolveStep(c) \/ Link(c)

Next ==
    \/ \E c \in Calls :
          \/ Acquire(c) \/ CallStep(c) \/ Unlink(c)
          \/ \E side \in {"push", "pull"} : Resolve(c, side)
          \/ \E i \in DOMAIN issues : CheckLink(c, i)
          \/ CreateAgain(c) \/ Fails(c) \/ FetchUnread(c)
    \/ \E n \in DOMAIN hooks : HookStep(n) \/ HookFails(n) \/ HookMissed(n)
    \/ \E f \in Field : EditStory(f) \/ \E i \in DOMAIN issues : EditIssue(i, f)
    \/ Crash
    \/ ExpireStoryLock
    \/ \E i \in DOMAIN issues : ExpireIssueLock(i)
    \/ Stop

Spec == Init /\ [][Next]_vars

\* Bull is not idle for ever while it has jobs.
Fairness == WF_vars(\E n \in DOMAIN hooks : HookStep(n))

FairSpec == Spec /\ Fairness

-----------------------------------------------------------------------------
(* Properties *)

Quiet ==
    /\ \A c \in Calls : call[c].pc \in {"idle", "done"}
    /\ \A n \in DOMAIN hooks : hooks[n].pc \in {"done", "lost"}

\* Whatever pushes, echoes of pushes, webhooks and resolutions have crossed,
\* once all have ended a story that is shown as synchronised is the same as
\* its issue.  Apart from what no push has carried yet, five things excuse it:
\* a webhook that was lost, one that was overtaken by a later one of the same
\* issue, a conflict or another story that a concurrent call did not see, an
\* issue that could not be read, and an item that was removed and, after
\* another had come and gone in its place, brought back by who had read it.
SyncedAgree ==
    (Quiet /\ item.status = "synced" /\ item.last # "none" /\ ~dirty
        /\ excuse \subseteq {"expired"})
       => story = issues[item.issue]

\* Concurrent pushes of a story never both create its issue: there is one
\* issue for each time the story was without an item, and one more for each
\* request that fails and each crash, as long as no lock expires too early.
OneIssue == "expired" \notin excuse => created <= 1 + unlinks + incidents

\* Every webhook is settled in the end: its change is written, a conflict is
\* marked, or its attempts are used up, whatever locks a crash left behind.
EveryWebhookSettles == <>[](\A n \in DOMAIN hooks : hooks[n].pc \in {"done", "lost"})

=============================================================================
