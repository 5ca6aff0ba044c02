-------------------------------- MODULE Tags --------------------------------
(***************************************************************************)
(* Tags: the column tags of a task (one comma-joined string), the table    *)
(* tags, the searches by tag, the bulk pause, and clients that page        *)
(* through GET /api/v1/tasks.  A string is a sequence of characters; those *)
(* that a LIKE pattern interprets (% and _) are left out.                  *)
(*                                                                         *)
(* Every request is one transaction and one step.  Requests the code       *)
(* refuses change nothing: their conditions are guards.  Of the flags of a *)
(* task only whether it is active (enabled and not paused) matters here.   *)
(***************************************************************************)
EXTENDS Listing, FiniteSetsExt, SequencesExt

CONSTANTS
  MaxTasks,  \* bound: tasks created in a behaviour
  MaxEdits,  \* bound: other requests that change a table
  TagLists,  \* the arrays of tags in bodies of create and update
  Names,     \* tag names of POST /tags, bulk pause and searches
  Upper,     \* [characters -> characters], ASCII only, as LIKE compares
  Filters,   \* the filters of clients that page
  PageSize,  \* their limit
  MaxPages,  \* bound: pages one client reads
  NoRow,     \* the id has no row
  Nil        \* a field the body or the query does not have

TaskId == 1..MaxTasks  \* in the order of created_at, taken to be distinct

Comma == ","
Space == " "

String == Seq(DOMAIN Upper)

ASSUME TagsAssumption ==
  /\ {MaxTasks, MaxEdits, MaxPages} \subseteq Nat /\ PageSize \in Nat \ {0}
  /\ TagLists \subseteq Seq(String)
  /\ Names \subseteq String
  /\ {Comma, Space, "x"} \subseteq DOMAIN Upper
  /\ \A c \in DOMAIN Upper : Upper[c] = Comma <=> c = Comma  \* no letter
  /\ Nil \notin String

-----------------------------------------------------------------------------
(* Strings.                                                                *)

TrimSpace(s) ==
  LET kept == {i \in DOMAIN s : s[i] # Space}
  IN  IF kept = {} THEN <<>> ELSE SubSeq(s, Min(kept), Max(kept))

(* Trimmed, without blanks and duplicates.                                 *)
Cleaned(ts) ==
  FoldLeft(LAMBDA acc, t :
             IF TrimSpace(t) \in Range(acc) \cup {<<>>} THEN acc
             ELSE Append(acc, TrimSpace(t)), <<>>, ts)

(* strings.Join.                                                           *)
Joined(words) ==
  FoldLeft(LAMBDA acc, w : IF acc = <<>> THEN w ELSE acc \o <<Comma>> \o w,
           <<>>, words)

TagsCSV(ts) == Joined(Cleaned(ts))

Split(s) ==
  LET cuts == Listed({i \in DOMAIN s : s[i] = Comma} \cup {0, Len(s) + 1}, <)
  IN  [k \in 1..(Len(cuts) - 1) |-> SubSeq(s, cuts[k] + 1, cuts[k + 1] - 1)]

(* scanTaskRow: the tags of a task as it is read.                          *)
Read(column) == IF column = <<>> THEN <<>> ELSE Split(column)

(* cleanTag takes one character off both ends until neither is a space:    *)
(* the numbers of characters after which it stops.                         *)
Stops(t) == {k \in 0..(Len(t) \div 2) :
               \/ 2 * k = Len(t)
               \/ 2 * k < Len(t) /\ t[k + 1] # Space /\ t[Len(t) - k] # Space}

(* It never stops within the string: t[1 : len(t)-1] of a single space.    *)
Panics(t) == Stops(t) = {}

BugCleanTag(t) == SubSeq(t, 2, Len(t))  \* a character too many

cleanTag(t) == SubSeq(t, Min(Stops(t)) + 1, Len(t) - Min(Stops(t)))

Folded(s) == [i \in DOMAIN s |-> Upper[s[i]]]

(* tags LIKE '<prefix>%', '%<suffix>' and '%<infix>%'.                     *)
LikePrefix(column, p) == IsPrefix(Folded(p), Folded(column))
LikeSuffix(column, p) == IsSuffix(Folded(p), Folded(column))
LikeInfix(column, p)  ==
  \E i \in 0..(Len(column) - Len(p)) :
    SubSeq(Folded(column), i + 1, i + Len(p)) = Folded(p)

BugHasTag(column, tag) ==  \* the typo of BulkPauseByTag
  \/ column = tag
  \/ LikePrefix(column, tag \o <<Comma>>)
  \/ LikeSuffix(column, <<Comma>> \o tag \o <<"x">>)
  \/ LikeInfix(column, <<Comma>> \o tag \o <<Comma>>)

BugHasTagAnywhere(column, tag) == LikeInfix(column, tag)  \* LIKE '%tag%'

(* The condition of ListTasks: a substring with comma boundaries.          *)
HasTag(column, tag) ==
  \/ column = tag
  \/ LikePrefix(column, tag \o <<Comma>>)
  \/ LikeSuffix(column, <<Comma>> \o tag)
  \/ LikeInfix(column, <<Comma>> \o tag \o <<Comma>>)

-----------------------------------------------------------------------------
VARIABLES
  tasks,   \* table tasks: flags, column tags, and what clients gave (below)
  tags,    \* table tags: the names
  births,  \* tasks created so far
  edits,   \* other requests that changed a table so far
  bulk,    \* the answer to a bulk pause, until the next request
  pager    \* a client that reads the list page by page

vars == <<tasks, tags, births, edits, bulk, pager>>

(* given, origin and rewritten are history: the tags last given, whether   *)
(* they came with create or update, and whether an update without tags has *)
(* rewritten them since.                                                   *)
Row == [column : String, active : BOOLEAN, given : Seq(String),
        origin : {"create", "update"}, rewritten : BOOLEAN]

Tasks == {id \in TaskId : tasks[id] # NoRow}

(* The WHERE clause of ListTasks, for the parameters tag and status=active. *)
Selected(f, row) ==
  /\ f.tag # Nil => HasTag(row.column, f.tag)
  /\ f.active => row.active

NoFilter == [tag |-> Nil, active |-> FALSE]

(* The rows of table tbl that are selected, the newest first.              *)
ListTasks(tbl, f) ==
  Listed({id \in TaskId : tbl[id] # NoRow /\ Selected(f, tbl[id])}, >)

TasksByTag(tag) == ListTasks(tasks, [NoFilter EXCEPT !.tag = tag])

BugPage(list, limit, offset) ==  \* the offset counts from 1
  IF limit <= 0 THEN list
  ELSE SubSeq(list, offset + IF offset = 0 THEN 1 ELSE 2,
              Min({offset + limit, Len(list)}))

Page(list, limit, offset) ==
  IF limit <= 0 THEN list
  ELSE SubSeq(list, offset + 1, Min({offset + limit, Len(list)}))

-----------------------------------------------------------------------------
(* A client pages: it keeps the ids it has seen; history: those that have  *)
(* been listed ever since it began, and how many left the list meanwhile.  *)

NoPager == [filter |-> NoFilter, state |-> "off", pages |-> 0, seen |-> {},
            stayed |-> {}, gone |-> 0]

Watch ==
  pager' = IF pager.state # "on" THEN pager
           ELSE LET left == Range(ListTasks(tasks, pager.filter))
                              \ Range(ListTasks(tasks', pager.filter))
                IN  [pager EXCEPT !.stayed = @ \ left,
                                  !.gone = @ + Cardinality(left)]

OpenPager ==
  /\ pager.state = "off"
  /\ \E f \in Filters :
       pager' = [NoPager EXCEPT !.filter = f, !.state = "on",
                                !.stayed = Range(ListTasks(tasks, f))]
  /\ UNCHANGED <<tasks, tags, births, edits, bulk>>

(* handleListTasks; the client stops at a page that is not full.           *)
handleListTasks ==
  /\ pager.state = "on" /\ pager.pages < MaxPages
  /\ LET page == Page(ListTasks(tasks, pager.filter), PageSize,
                        PageSize * pager.pages)
     IN  pager' = [pager EXCEPT !.pages = @ + 1, !.seen = @ \cup Range(page),
                                !.state = IF Len(page) < PageSize THEN "done"
                                          ELSE "on"]
  /\ UNCHANGED <<tasks, tags, births, edits, bulk>>

ClosePager ==
  /\ pager.state # "off"
  /\ pager' = NoPager
  /\ UNCHANGED <<tasks, tags, births, edits, bulk>>

-----------------------------------------------------------------------------
(* handleCreateTask and ScheduleNew: the tags are created and the task     *)
(* inserted in one transaction, which a panic of cleanTag rolls back.      *)
handleCreateTask ==
  /\ births < MaxTasks
  /\ \E ts \in TagLists, active \in BOOLEAN :
       /\ \A i \in DOMAIN ts : ~Panics(ts[i])
       /\ tags' = tags \cup ({cleanTag(t) : t \in Range(ts)} \ {<<>>})
       /\ tasks' = [tasks EXCEPT ![births + 1] =
                      [column |-> TagsCSV(ts), active |-> active, given |-> ts,
                       origin |-> "create", rewritten |-> FALSE]]
  /\ births' = births + 1
  /\ bulk' = Nil /\ Watch
  /\ UNCHANGED edits

Edit == edits < MaxEdits /\ edits' = edits + 1 /\ bulk' = Nil

(* handleUpdateTask: tags that are given replace those of the row (and are *)
(* not entered in the table tags); otherwise those read are written again. *)
BugUpdated(row, ts) ==  \* the tags are copied without the test for nil
  IF ts = Nil THEN [row EXCEPT !.column = <<>>, !.rewritten = TRUE]
  ELSE [row EXCEPT !.column = TagsCSV(ts), !.given = ts, !.origin = "update",
                   !.rewritten = FALSE]

Updated(row, ts) ==
  IF ts = Nil
  THEN [row EXCEPT !.column = TagsCSV(Read(@)), !.rewritten = TRUE]
  ELSE [row EXCEPT !.column = TagsCSV(ts), !.given = ts, !.origin = "update",
                   !.rewritten = FALSE]

handleUpdateTask ==
  /\ \E id \in Tasks, ts \in TagLists \cup {Nil}, active \in BOOLEAN :
       tasks' = [tasks EXCEPT ![id] =
                   [Updated(tasks[id], ts) EXCEPT !.active = active]]
  /\ Edit /\ Watch
  /\ UNCHANGED <<tags, births>>

(* setTaskEnabled and setTaskPaused.                                       *)
setTaskFlag ==
  /\ \E id \in Tasks, active \in BOOLEAN :
       tasks' = [tasks EXCEPT ![id].active = active]
  /\ Edit /\ Watch
  /\ UNCHANGED <<tags, births>>

handleDeleteTask ==
  /\ \E id \in Tasks : tasks' = [tasks EXCEPT ![id] = NoRow]
  /\ Edit /\ Watch
  /\ UNCHANGED <<tags, births>>

BugHandleCreateTag ==  \* a blank name is not refused
  /\ \E name \in Names : tags' = tags \cup {TrimSpace(name)}
  /\ Edit
  /\ UNCHANGED <<tasks, births, pager>>

handleCreateTag ==
  /\ \E name \in Names : /\ TrimSpace(name) # <<>>
                         /\ tags' = tags \cup {TrimSpace(name)}
  /\ Edit
  /\ UNCHANGED <<tasks, births, pager>>

(* The rows BulkPauseByTag updates.                                        *)
Pausable(tag) ==
  {id \in Tasks :
     /\ tasks[id].active
     /\ LET column == tasks[id].column IN
        \/ column = tag
        \/ LikePrefix(column, tag \o <<Comma>>)
        \/ LikeSuffix(column, <<Comma>> \o tag \o <<"x">>)
        \/ LikeInfix(column, <<Comma>> \o tag \o <<Comma>>)}

(* The transaction is rolled back before it is committed: only the answer  *)
(* tells of it.                                                            *)
handleBulkPause ==
  /\ \E name \in Names :
       LET tag == TrimSpace(name)
       IN  /\ tag # <<>>
           /\ bulk' = [tag |-> tag, paused |-> Cardinality(Pausable(tag))]
  /\ UNCHANGED <<tasks, tags, births, edits, pager>>

-----------------------------------------------------------------------------
Init ==
  /\ tasks = [id \in TaskId |-> NoRow] /\ tags = {} /\ births = 0 /\ edits = 0
  /\ bulk = Nil /\ pager = NoPager

Next ==
  \/ handleCreateTask \/ handleUpdateTask \/ handleDeleteTask
  \/ setTaskFlag \/ handleCreateTag \/ handleBulkPause
  \/ OpenPager \/ handleListTasks \/ ClosePager

Spec == Init /\ [][Next]_vars

-----------------------------------------------------------------------------
TypeOK ==
  /\ births \in 0..MaxTasks /\ edits \in 0..MaxEdits
  /\ \A id \in TaskId : tasks[id] = NoRow \/ tasks[id] \in Row
  /\ \A id \in (births + 1)..MaxTasks : tasks[id] = NoRow
  /\ tags \subseteq String \ {<<>>}
  /\ bulk = Nil \/ bulk \in [tag : String \ {<<>>}, paused : 0..MaxTasks]
  /\ pager \in [filter : Filters \cup {NoFilter}, state : {"off", "on", "done"},
                pages : 0..MaxPages, seen : SUBSET TaskId,
                stayed : SUBSET TaskId, gone : Nat]

Words(ts) == {TrimSpace(w) : w \in UNION {Range(Split(t)) : t \in Range(ts)}}
               \ {<<>>}

(* A task carries the words it was given: splitting, trimming and joining  *)
(* again on every later update neither loses nor invents one, and no word  *)
(* is stored twice once the tags are rewritten.                            *)
KeepsTheWords ==
  \A id \in Tasks :
    LET row == tasks[id] IN
    /\ Words(Read(row.column)) = Words(row.given)
    /\ row.rewritten => Len(Read(row.column)) = Cardinality(Words(row.given))

(* A search finds every task by every tag it was given, whatever else it   *)
(* carries and however often it was rewritten; only a tag with a comma in  *)
(* it is found as given no longer than until the first rewrite.            *)
FoundByTag ==
  \A id \in Tasks : \A t \in Range(tasks[id].given) :
    LET tag == TrimSpace(t) IN
    tag # <<>> /\ (tasks[id].rewritten => Comma \notin Range(tag))
      => id \in Range(TasksByTag(tag))

(* And it finds no other task: a tag without a comma is one of the pieces  *)
(* of the column, letters compared as LIKE does.                           *)
FindsOnlyCarriers ==
  \A name \in Names :
    LET tag == TrimSpace(name) IN
    tag # <<>> /\ Comma \notin Range(tag) =>
      \A id \in Range(TasksByTag(tag)) :
        Folded(tag) \in {Folded(w) : w \in Range(Read(tasks[id].column))}

(* The table tags lists every tag a task was created with, unless the tag  *)
(* came with spaces around it.                                             *)
TidyTagsAreListed ==
  \A id \in Tasks : tasks[id].origin = "create" =>
    \A t \in Range(tasks[id].given) :
      t # <<>> /\ TrimSpace(t) = t => t \in tags

(* A client that pages while others create, change and delete tasks: it    *)
(* misses at most one task for each that left its list meanwhile, and none *)
(* when none left, wherever tasks came in.                                 *)
PagesMissNothing ==
  pager.state = "done" => Cardinality(pager.stayed \ pager.seen) <= pager.gone

-----------------------------------------------------------------------------
(* Said of the code, and not kept.  task_repo.go: "BulkPauseByTag pauses   *)
(* every active task carrying the tag".                                    *)
BulkPausePauses ==
  [][bulk' # bulk /\ bulk' # Nil =>
       \A id \in Tasks :
         bulk'.tag \in Range(Read(tasks[id].column)) => ~tasks'[id].active]_vars
=============================================================================
