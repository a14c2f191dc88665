------------------------------- MODULE Reading -------------------------------
(***************************************************************************)
(* What the reader sees and does: lists of entries read page by page with  *)
(* a keyset cursor (ListEntries, renderList), while polls insert and edit  *)
(* rows and the reader opens, toggles, stars and deletes them, marks whole *)
(* feeds read and moves feeds between categories.                          *)
(*                                                                         *)
(* A page shows the first PageSize rows, newest first, after the cursor,   *)
(* which is the order key and rowid of the last row shown; "load more"     *)
(* adds the next page to the rows already in the browser.  Every store     *)
(* call is one step.  Times are small numbers: published_at is any of      *)
(* them, read_at is the clock's.  Rowids are reused, as in EntryLifecycle. *)
(***************************************************************************)
EXTENDS Integers, FiniteSets

CONSTANTS
    Feeds,      \* feeds (their deletion is that of all their entries)
    Cats,       \* category ids
    Walkers,    \* browser tabs that page through a list
    Requests,   \* slots for requests between two store calls
    PageSize,   \* renderList's Limit
    MaxPub,     \* published_at is in 0..MaxPub
    MaxId,      \* bound: entry ids in use at once
    MaxSerial,  \* bound: entries ever ingested
    MaxClock,   \* bound: seconds that pass
    MaxOps      \* bound: reader's operations and in-place edits

ASSUME ReadingAssumption ==
    /\ Feeds # {} /\ "none" \notin Cats
    /\ PageSize \in Nat \ {0}
    /\ MaxPub \in Nat /\ MaxId \in Nat /\ MaxSerial \in Nat
    /\ MaxClock \in Nat \ {0} /\ MaxOps \in Nat

VARIABLES
    entries,   \* the entries table, by rowid
    serial,    \* ghost: entries ever ingested
    cats,      \* the categories table
    catOf,     \* feeds.category_id, "none" for NULL
    walks,     \* the tabs
    reqs,      \* requests between two of their store calls
    clock,     \* the time, in seconds
    ops        \* operations so far

vars == <<entries, serial, cats, catOf, walks, reqs, clock, ops>>

Ids == 1..MaxId
AnyFeed == CHOOSE f \in Feeds : TRUE

\* A row; who is a ghost, the number of the item it was ingested for.  readAt 0
\* is NULL.
Entry ==
    [live : BOOLEAN, who : 0..MaxSerial, feed : Feeds, pub : 0..MaxPub,
     status : {"unread", "read"}, starred : BOOLEAN, readAt : 0..clock]

NoEntry ==
    [live |-> FALSE, who |-> 0, feed |-> AnyFeed, pub |-> 0,
     status |-> "unread", starred |-> FALSE, readAt |-> 0]

\* The lists: Unread, Starred, History, one feed, one category, Uncategorised.
Filters ==
    {<<"unread">>, <<"starred">>, <<"history">>, <<"uncategorised">>}
        \cup {<<"feed", f>> : f \in Feeds} \cup {<<"category", c>> : c \in Cats}

NoCursor == [key |-> 0, id |-> 0]

(***************************************************************************)
(* A tab: its list, the cursor of its "load more" link (NoCursor when the  *)
(* last page has been shown), and three ghosts: the items it has shown,    *)
(* those shown that have kept their order key since, and those that have   *)
(* been in the list, at one place, ever since the first page was asked for.*)
(***************************************************************************)
Walk ==
    [on : BOOLEAN, list : Filters, cursor : [key : Nat, id : 0..MaxId],
     shown : SUBSET (1..MaxSerial), fixed : SUBSET (1..MaxSerial),
     must : SUBSET (1..MaxSerial)]

NoWalk ==
    [on |-> FALSE, list |-> <<"unread">>, cursor |-> NoCursor, shown |-> {},
     fixed |-> {}, must |-> {}]

\* A request that has read a row or a form and is about to write: the read or
\* starred flag of an entry, or a feed's category.
Request ==
    [pc : {"idle", "status", "star", "category"}, id : 0..MaxId, val : BOOLEAN,
     feed : Feeds, cat : Cats \cup {"none"}]

NoRequest ==
    [pc |-> "idle", id |-> 0, val |-> FALSE, feed |-> AnyFeed, cat |-> "none"]

Init ==
    /\ entries = [i \in Ids |-> NoEntry]
    /\ serial = 0
    /\ cats = {}
    /\ catOf = [f \in Feeds |-> "none"]
    /\ walks = [t \in Walkers |-> NoWalk]
    /\ reqs = [r \in Requests |-> NoRequest]
    /\ clock = 1
    /\ ops = 0

-----------------------------------------------------------------------------
(* Lists and pages *)

\* ListEntries' WHERE clause, the cursor apart
Matches(list, e, cat) ==
    /\ e.live
    /\ CASE list[1] = "unread"   -> e.status = "unread"
         [] list[1] = "starred"  -> e.starred
         [] list[1] = "history"  -> e.readAt # 0
         [] list[1] = "feed"     -> e.feed = list[2]
         [] list[1] = "category" -> cat[e.feed] = list[2]
         [] list[1] = "uncategorised" -> cat[e.feed] = "none"

\* the order column: read_at in the History, published_at elsewhere
CursorKey(list, e) == IF list[1] = "history" THEN e.readAt ELSE e.pub

\* fault: no tie-break by id
Older_KeyOnly(list, i, c) == CursorKey(list, entries[i]) < c.key
\* fault: not strictly older
Older_OrEqual(list, i, c) == CursorKey(list, entries[i]) <= c.key
\* row i comes after cursor c, newest first
Older(list, i, c) ==
    \/ CursorKey(list, entries[i]) < c.key
    \/ CursorKey(list, entries[i]) = c.key /\ i < c.id

At(list, i) == [key |-> CursorKey(list, entries[i]), id |-> i]

\* ORDER BY: row i is listed before row j
Newer(list, i, j) ==
    \/ CursorKey(list, entries[i]) > CursorKey(list, entries[j])
    \/ CursorKey(list, entries[i]) = CursorKey(list, entries[j]) /\ i > j

\* the rows from cursor c on, the PageSize first of them, and the cursor of the
\* last of these when there are more (LIMIT PageSize + 1 tells)
Rest(list, c) ==
    {i \in Ids : Matches(list, entries[i], catOf) /\ (c = NoCursor \/ Older(list, i, c))}
Page(list, c) ==
    {i \in Rest(list, c) :
        Cardinality({j \in Rest(list, c) : Newer(list, j, i)}) < PageSize}
NextCursor(list, c) ==
    IF Rest(list, c) = Page(list, c) THEN NoCursor
    ELSE At(list, CHOOSE i \in Page(list, c) :
                    \A j \in Page(list, c) \ {i} : Newer(list, j, i))

Who(ids) == {entries[i].who : i \in ids}

Asked == ops < MaxOps /\ ops' = ops + 1

\* renderList without a cursor; the page of a category that does not exist is a
\* 404
FirstPage(t, list) ==
    /\ ~walks[t].on
    /\ list[1] = "category" => list[2] \in cats
    /\ walks' = [walks EXCEPT ![t] =
         [on |-> TRUE, list |-> list, cursor |-> NextCursor(list, NoCursor),
          shown |-> Who(Page(list, NoCursor)), fixed |-> Who(Page(list, NoCursor)),
          must |-> Who(Rest(list, NoCursor))]]
    /\ UNCHANGED <<entries, serial, cats, catOf, reqs, clock, ops>>

\* "load more"; a category that was deleted meanwhile is a 404 and adds no rows
NextPage(t) ==
    LET w == walks[t] IN
    /\ w.on /\ w.cursor # NoCursor
    /\ w.list[1] = "category" => w.list[2] \in cats
    /\ walks' = [walks EXCEPT ![t] =
         [w EXCEPT !.cursor = NextCursor(w.list, w.cursor),
                   !.shown = @ \cup Who(Page(w.list, w.cursor)),
                   !.fixed = @ \cup Who(Page(w.list, w.cursor))]]
    /\ UNCHANGED <<entries, serial, cats, catOf, reqs, clock, ops>>

\* the tab leaves the list
LeaveList(t) ==
    /\ walks[t].on
    /\ walks' = [walks EXCEPT ![t] = NoWalk]
    /\ UNCHANGED <<entries, serial, cats, catOf, reqs, clock, ops>>

\* item x keeps its place in a list over the present step
Stays(list, x) ==
    \E i \in Ids :
        /\ entries[i].live /\ entries[i].who = x
        /\ entries'[i].live /\ entries'[i].who = x
        /\ CursorKey(list, entries'[i]) = CursorKey(list, entries[i])

\* a change to the tables, and what it does to the ghosts of the tabs
Write(es, cat) ==
    /\ entries' = es
    /\ catOf' = cat
    /\ walks' = [t \in Walkers |->
         LET w == walks[t] IN
         [w EXCEPT
           !.fixed = {x \in @ : Stays(w.list, x)},
           !.must = {x \in @ : /\ Stays(w.list, x)
                               /\ \E i \in Ids : /\ es[i].who = x
                                                 /\ Matches(w.list, es[i], cat)}]]

-----------------------------------------------------------------------------
(* Polls *)

NextId == CHOOSE n \in 1..MaxId + 1 :
            /\ \A i \in Ids : entries[i].live => i < n
            /\ n = 1 \/ entries[n - 1].live

\* UpsertEntries inserts an unread row
Insert(f, p) ==
    /\ serial < MaxSerial /\ NextId \in Ids
    /\ serial' = serial + 1
    /\ Write([entries EXCEPT ![NextId] =
                [NoEntry EXCEPT !.live = TRUE, !.who = serial + 1, !.feed = f, !.pub = p]],
             catOf)
    /\ UNCHANGED <<cats, reqs, clock, ops>>

\* UpsertEntries meets a changed item: published_at may move, the flags stay
Republish(i, p) ==
    /\ Asked
    /\ entries[i].live
    /\ Write([entries EXCEPT ![i].pub = p], catOf)
    /\ UNCHANGED <<serial, cats, reqs, clock>>

-----------------------------------------------------------------------------
(* The reader *)

\* fault: the stamp is ahead of the time
Stamp_Ahead == clock + 1
Stamp == clock

\* SetStatus: the flag and read_at in one statement
Marked(e, read) ==
    [e EXCEPT !.status = IF read THEN "read" ELSE "unread",
              !.readAt = IF read THEN Stamp ELSE 0]

\* opening an entry (always read), or a click on its read or star button: the
\* handler reads the row first and writes the opposite of what it found
Begin(r, i) ==
    /\ Asked
    /\ reqs[r].pc = "idle"
    /\ entries[i].live
    /\ \E q \in {[pc |-> "status", val |-> TRUE],
                 [pc |-> "status", val |-> entries[i].status # "read"],
                 [pc |-> "star", val |-> ~entries[i].starred]} :
         reqs' = [reqs EXCEPT ![r] = [NoRequest EXCEPT !.pc = q.pc, !.id = i,
                                                       !.val = q.val]]
    /\ UNCHANGED <<entries, serial, cats, catOf, walks, clock>>

\* ... SetStatus or SetStarred by id, which may find no row, or fail: the
\* handler logs that and answers anyway
SetFlag(r) ==
    LET q == reqs[r] IN
    /\ q.pc \in {"status", "star"}
    /\ \/ /\ entries[q.id].live
          /\ Write([entries EXCEPT ![q.id] =
                      IF q.pc = "status" THEN Marked(@, q.val)
                                         ELSE [@ EXCEPT !.starred = q.val]],
                   catOf)
       \/ UNCHANGED <<entries, catOf, walks>>
    /\ reqs' = [reqs EXCEPT ![r] = NoRequest]
    /\ UNCHANGED <<serial, cats, clock, ops>>

\* readerMarkUnread writes without reading
MarkUnread(i) ==
    /\ Asked
    /\ entries[i].live
    /\ Write([entries EXCEPT ![i] = Marked(@, FALSE)], catOf)
    /\ UNCHANGED <<serial, cats, reqs, clock>>

\* markFeedRead: MarkReadByFilter touches the unread rows only
MarkFeedRead(f) ==
    /\ Asked
    /\ Write([i \in Ids |->
                IF entries[i].live /\ entries[i].feed = f /\ entries[i].status = "unread"
                THEN Marked(entries[i], TRUE) ELSE entries[i]],
             catOf)
    /\ UNCHANGED <<serial, cats, reqs, clock>>

Delete(i) ==
    /\ Asked
    /\ entries[i].live
    /\ Write([entries EXCEPT ![i] = NoEntry], catOf)
    /\ UNCHANGED <<serial, cats, reqs, clock>>

-----------------------------------------------------------------------------
(* Categories *)

CreateCategory(c) ==
    /\ Asked
    /\ c \notin cats
    /\ cats' = cats \cup {c}
    /\ UNCHANGED <<entries, serial, catOf, walks, reqs, clock>>

\* fault: the feeds keep the id of the deleted category
Rehomed_Kept(c) == catOf
\* ON DELETE SET NULL
Rehomed(c) == [f \in Feeds |-> IF catOf[f] = c THEN "none" ELSE catOf[f]]

DeleteCategory(c) ==
    /\ Asked
    /\ c \in cats
    /\ cats' = cats \ {c}
    /\ Write(entries, Rehomed(c))
    /\ UNCHANGED <<serial, reqs, clock>>

\* EditFeed: the category in the form is checked (ensureCategoryOwned) and is
\* another one than the row's ...
EditCategory(r, f, c) ==
    /\ Asked
    /\ reqs[r].pc = "idle"
    /\ c \in cats \cup {"none"} /\ c # catOf[f]
    /\ reqs' = [reqs EXCEPT ![r] = [NoRequest EXCEPT !.pc = "category",
                                                     !.feed = f, !.cat = c]]
    /\ UNCHANGED <<entries, serial, cats, catOf, walks, clock>>

\* ... and SetFeedCategory writes it, under the foreign key
SetFeedCategory(r) ==
    LET q == reqs[r] IN
    /\ q.pc = "category"
    /\ \/ /\ q.cat \in cats \cup {"none"}
          /\ Write(entries, [catOf EXCEPT ![q.feed] = q.cat])
       \/ /\ q.cat \notin cats \cup {"none"}
          /\ UNCHANGED <<entries, catOf, walks>>
    /\ reqs' = [reqs EXCEPT ![r] = NoRequest]
    /\ UNCHANGED <<serial, cats, clock, ops>>

Tick ==
    /\ clock < MaxClock
    /\ clock' = clock + 1
    /\ UNCHANGED <<entries, serial, cats, catOf, walks, reqs, ops>>

Next ==
    \/ \E t \in Walkers, list \in Filters : FirstPage(t, list)
    \/ \E t \in Walkers : NextPage(t) \/ LeaveList(t)
    \/ \E f \in Feeds, p \in 0..MaxPub : Insert(f, p)
    \/ \E i \in Ids, p \in 0..MaxPub : Republish(i, p)
    \/ \E r \in Requests, i \in Ids : Begin(r, i)
    \/ \E r \in Requests : SetFlag(r) \/ SetFeedCategory(r)
    \/ \E i \in Ids : MarkUnread(i) \/ Delete(i)
    \/ \E f \in Feeds : MarkFeedRead(f)
    \/ \E c \in Cats : CreateCategory(c) \/ DeleteCategory(c)
    \/ \E r \in Requests, f \in Feeds, c \in Cats \cup {"none"} : EditCategory(r, f, c)
    \/ Tick

Spec == Init /\ [][Next]_vars

-----------------------------------------------------------------------------
(* Properties *)

\* Every variable holds a value of its type, and nothing was read in the future.
TypeOK ==
    /\ entries \in [Ids -> Entry]
    /\ serial \in 0..MaxSerial
    /\ cats \subseteq Cats
    /\ catOf \in [Feeds -> Cats \cup {"none"}]
    /\ walks \in [Walkers -> Walk]
    /\ reqs \in [Requests -> Request]
    /\ clock \in 1..MaxClock
    /\ ops \in 0..MaxOps

\* A tab that has loaded the last page has shown every item that was in its list
\* all the time and did not move: nothing that polls insert or the reader marks,
\* moves or deletes in between makes a page skip a row (which paging by offset
\* would).
PagesComplete ==
    \A t \in Walkers :
        walks[t].on /\ walks[t].cursor = NoCursor => walks[t].must \subseteq walks[t].shown

\* "Load more" never brings an item again that was shown and did not move, also
\* when the cursor's own row is gone or its id belongs to another item.
PagesDisjoint ==
    \A t \in Walkers :
        LET w == walks[t] IN
        w.on /\ w.cursor # NoCursor
            => Who(Page(w.list, w.cursor)) \cap w.fixed = {}

\* A feed's category exists, also when it was deleted between the edit form's
\* check and its write: else the feed's items would be in no category's list and
\* not in Uncategorised either.
CategoryExists == \A f \in Feeds : catOf[f] \in cats \cup {"none"}
=============================================================================
