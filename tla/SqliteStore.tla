---------------------------- MODULE SqliteStore ----------------------------
(***************************************************************************)
(* The store the program runs on: the tables of store/sqlite, the          *)
(* statements of its generated queries, the transactions that put them     *)
(* together, the triggers that keep the full-text index, and the start-up  *)
(* that migrates an installation older than migration 0013 and back-fills  *)
(* its index.  It implements MemStore (Implements).                        *)
(*                                                                         *)
(* db is what is on disk.  Its tables are functions from rowids to rows.   *)
(* Feeds are AUTOINCREMENT, so feedSeq only grows; entries and categories  *)
(* reuse the rowid after the largest one.  A statement is an operator from *)
(* a database to a database, and a transaction composes them: SQLite       *)
(* commits it whole or not at all, and one connection means that one       *)
(* statement or transaction runs at a time (SetMaxOpenConns(1)).  A crash  *)
(* can come between any two of them.                                       *)
(***************************************************************************)
EXTENDS Integers, FiniteSets, Sequences, SequencesExt

CONSTANTS
    Urls, Titles, Versions, GuidOf, Published,
    Words, TitleText, SummaryText, BodyText, Article,
    Batches, Times, MaxAttempts, Week,    \* as in MemStore
    Fold,        \* a title without its case: titles are unique COLLATE NOCASE
    Batch,       \* rows of one back-fill transaction
    Deleters,    \* DeleteEntry calls that can be under way at once
    Queries,     \* the list filters compared, without their cursors
    MaxSerial,   \* bound: rows ever created
    MaxOps,      \* bound: calls that change the database, DeleteEntry's apart
    MaxCrashes   \* bound: crashes before a start-up gets through

None == 0
NoTime == -1

\* Calls are made at the first time; polls and retries are put off to the last.
Now == Min(Times)
Later == Max(Times)

\* Case: the two stores tell titles apart in the same way only if no two of them
\* differ in case alone.
ASSUME SqliteStoreAssumption ==
    /\ \A s, t \in Titles : Fold[s] = Fold[t] => s = t
    /\ Urls # {}
    /\ TitleText \in [Versions -> SUBSET Words] /\ SummaryText \in [Versions -> SUBSET Words]
    /\ BodyText \in [Versions \cup {Article} -> SUBSET Words]
    /\ Published \in [Versions -> Int] /\ Week \in Nat
    /\ Batches \subseteq Seq(Versions)
    /\ Queries \subseteq [status : {"any", "unread", "read"}, starred : BOOLEAN,
                          order : {"pub", "read"}, limit : Nat \ {0}]
    /\ Times \subseteq Nat /\ IsFiniteSet(Times) /\ Times # {}
    /\ Batch \in Nat \ {0} /\ MaxAttempts \in Nat
    /\ MaxSerial \in Nat /\ MaxOps \in Nat /\ MaxCrashes \in Nat

VARIABLES
    db,        \* the database file
    phase,     \* "old", "starting", "backfill", "rebuild", "trigger", "flag", "open"
    lastID,    \* backfillSearchText's keyset position
    deleting,  \* DeleteEntry between its read and its transaction, by caller
    answer,    \* the last call and its result, ids as MemStore numbers them
    ops,       \* calls so far
    crashes    \* crashes since the store was last open

vars == <<db, phase, lastID, deleting, answer, ops, crashes>>
startup == <<phase, lastID, crashes>>

NoDelete == [id |-> 0, feed |-> 0, hash |-> 0, mid |-> 0]

\* serial and the rows' mid are ghosts: the numbers MemStore gives.
Init ==
    /\ db = [feeds |-> <<>>, feedSeq |-> 1, entries |-> <<>>, tombstones |-> {},
             categories |-> <<>>, fts |-> <<>>, corrupt |-> FALSE,
             migrated |-> FALSE, trigger |-> FALSE, flag |-> FALSE, serial |-> 1]
    /\ phase = "old"
    /\ lastID = 0
    /\ deleting = [d \in Deleters |-> NoDelete]
    /\ answer = <<"open">>
    /\ ops = 0 /\ crashes = 0

-----------------------------------------------------------------------------
(* The index is an FTS5 table with external content: it holds, for a       *)
(* rowid, what it was given, and a 'delete' must repeat those values or    *)
(* the index is corrupt.                                                   *)

PlainText(c) == IF db.migrated THEN BodyText[c] ELSE {}
PlainSummary(v) == IF db.migrated THEN SummaryText[v] ELSE {}

Doc(e) == [title |-> TitleText[e.hash], content |-> e.ctext, summary |-> e.stext]

Indexed(d, i) == i \in DOMAIN d.fts /\ d.fts[i] = Doc(d.entries[i])

\* A table with the row it is given under a rowid.
Put(table, i, row) == [x \in DOMAIN table \cup {i} |-> IF x = i THEN row ELSE table[x]]

NextRowid(table) == IF DOMAIN table = {} THEN 1 ELSE Max(DOMAIN table) + 1

\* INSERT, and the trigger entries_ai once 0013 has made it.
InsertRow(d, e) ==
    LET i == NextRowid(d.entries)
    IN  [d EXCEPT !.entries = Put(@, i, e), !.serial = @ + 1,
                  !.fts = IF d.migrated THEN Put(@, i, Doc(e)) ELSE @,
                  !.corrupt = @ \/ i \in DOMAIN d.fts]

\* DELETE of the rows S, and the trigger entries_ad for each.
DeleteRows(d, S) ==
    [d EXCEPT !.entries = Restrict(@, DOMAIN @ \ S),
              !.fts = Restrict(@, DOMAIN @ \ S),
              !.corrupt = @ \/ \E i \in S : ~Indexed(d, i)]

\* UPDATE of a row's title or text columns, and the trigger entries_au.
UpdateText(d, i, e) ==
    [d EXCEPT !.entries[i] = e,
              !.fts = IF d.trigger THEN Put(@, i, Doc(e)) ELSE @,
              !.corrupt = @ \/ (d.trigger /\ ~Indexed(d, i))]

\* UPDATE of other columns: entries_au is AFTER UPDATE OF the indexed ones.
UpdateRows(d, S, new(_)) ==
    [d EXCEPT !.entries = [i \in DOMAIN @ |-> IF i \in S THEN new(@[i]) ELSE @[i]]]

-----------------------------------------------------------------------------
(* Start-up: goose.Up, then backfillSearchText, in the same process.       *)

Starting(next) ==
    /\ phase' = next
    /\ crashes' = IF next = "open" THEN 0 ELSE crashes
    /\ UNCHANGED <<deleting, answer, ops>>

GooseUp_WithTrigger ==
    /\ phase \in {"old", "starting"}
    /\ db' = [db EXCEPT !.migrated = TRUE, !.trigger = TRUE]
    /\ lastID' = 0
    /\ Starting(IF db.flag THEN "open" ELSE "backfill")

\* Migration 0013 drops the old index and its triggers, adds the text columns,
\* empty, and makes the new index, empty, without entries_au.
GooseUp ==
    /\ phase \in {"old", "starting"}
    /\ db' = [db EXCEPT !.migrated = TRUE]
    /\ lastID' = 0
    /\ Starting(IF db.flag THEN "open" ELSE "backfill")

\* SELECT ... WHERE id > ?: by id, not by empty text.
Todo_ByEmptyText == {i \in DOMAIN db.entries : db.entries[i].ctext = {}}

Todo == {i \in DOMAIN db.entries : i > lastID}

\* One transaction of the back-fill: the next Batch rows by id.
BackfillBatch ==
    LET rows == {i \in Todo : Cardinality({j \in Todo : j < i}) < Batch}
        filled(e) == [e EXCEPT !.ctext = BodyText[e.content], !.stext = SummaryText[e.hash]]
    IN  /\ phase = "backfill"
        /\ db' = FoldSet(LAMBDA i, d : UpdateText(d, i, filled(d.entries[i])), db, rows)
        /\ lastID' = IF rows = {} THEN lastID ELSE Max(rows)
        /\ Starting(IF rows = {} THEN "rebuild" ELSE "backfill")

Rebuild ==
    /\ phase = "rebuild"
    /\ db' = [db EXCEPT !.fts = [i \in DOMAIN db.entries |-> Doc(db.entries[i])],
                        !.corrupt = FALSE]
    /\ Starting("trigger") /\ UNCHANGED lastID

\* CREATE TRIGGER IF NOT EXISTS entries_au.
CreateTrigger ==
    /\ phase = "trigger"
    /\ db' = [db EXCEPT !.trigger = TRUE]
    /\ Starting("flag") /\ UNCHANGED lastID

SetFlag ==
    /\ phase = "flag"
    /\ db' = [db EXCEPT !.flag = TRUE]
    /\ Starting("open") /\ UNCHANGED lastID

\* The process dies and is started again; what was committed stays.  The crash of
\* an open store that has no call under way loses nothing, and is left out.
Crash ==
    /\ phase # "old"
    /\ phase = "open" => \E d \in Deleters : deleting[d] # NoDelete
    /\ crashes < MaxCrashes
    /\ phase' = "starting" /\ crashes' = crashes + 1
    /\ deleting' = [d \in Deleters |-> NoDelete]
    /\ UNCHANGED <<db, lastID, answer, ops>>

-----------------------------------------------------------------------------
(* MemStore's number of a row, or one it has not given yet.                *)

Mid(table, i) == IF i \in DOMAIN table THEN table[i].mid ELSE db.serial
MidFeed(f) == Mid(db.feeds, f)
MidEntry(e) == Mid(db.entries, e)
MidCat(c) == IF c = None THEN None ELSE Mid(db.categories, c)

\* A call that ends with the database d and is answered by call, its name, its
\* arguments and its result.
Call(d, call) ==
    /\ phase = "open"
    /\ ops < MaxOps
    /\ db' = d
    /\ ops' = IF d = db THEN ops ELSE ops + 1
    /\ answer' = call
    /\ UNCHANGED <<deleting, startup>>

FeedIds == 1..db.feedSeq                      \* and one that was never given
EntryIds == 1..NextRowid(db.entries)          \* and one that is not in the table
CatIds == 1..NextRowid(db.categories)
Categories == DOMAIN db.categories \cup {None}

-----------------------------------------------------------------------------
(* Feeds.                                                                  *)

\* AUTOINCREMENT: past every id ever given.
NextFeedId_Recycled == NextRowid(db.feeds)

NextFeedId == db.feedSeq

CreateFeed(u, c, full, at) ==
    LET taken == \E f \in DOMAIN db.feeds : db.feeds[f].url = u
        row == [mid |-> db.serial, url |-> u, etag |-> FALSE, next |-> at, cat |-> c,
                full |-> full, name |-> FALSE]
    IN  /\ db.serial <= MaxSerial
        /\ Call(IF taken THEN db
                ELSE [db EXCEPT !.feeds = Put(@, NextFeedId, row),
                                !.feedSeq = NextFeedId + 1, !.serial = @ + 1],
                <<"CreateFeed", u, MidCat(c), full, at, IF taken THEN "conflict" ELSE "ok">>)

\* UPDATE feeds ... WHERE id = ?: no row, no change; an affected-rows count of 0
\* is ErrNotFound.
UpdateFeedRow(f, new(_)) ==
    IF f \in DOMAIN db.feeds THEN [db EXCEPT !.feeds[f] = new(@)] ELSE db

Found(f) == IF f \in DOMAIN db.feeds THEN "ok" ELSE "notfound"

\* The poll's write is :exec, with feed_url in the WHERE.
UpdateFeed(f, u, etag, next) ==
    Call(UpdateFeedRow(f, LAMBDA r : IF r.url = u
                                     THEN [r EXCEPT !.etag = etag, !.next = next] ELSE r),
         <<"UpdateFeed", MidFeed(f), u, etag, next, "ok">>)

SetFeedURL(f, u, now) ==
    LET conflict == /\ f \in DOMAIN db.feeds
                    /\ \E g \in DOMAIN db.feeds \ {f} : db.feeds[g].url = u
    IN  Call(IF conflict THEN db
             ELSE UpdateFeedRow(f, LAMBDA r : [r EXCEPT !.url = u, !.etag = FALSE,
                                                        !.next = now]),
             <<"SetFeedURL", MidFeed(f), u, now, IF conflict THEN "conflict" ELSE Found(f)>>)

SetFeedUserTitle(f, set) ==
    Call(UpdateFeedRow(f, LAMBDA r : [r EXCEPT !.name = set]),
         <<"SetFeedUserTitle", MidFeed(f), set, Found(f)>>)

SetFeedCategory(f, c) ==
    Call(UpdateFeedRow(f, LAMBDA r : [r EXCEPT !.cat = c]),
         <<"SetFeedCategory", MidFeed(f), MidCat(c), Found(f)>>)

\* One transaction: the flag, then MarkFeedEntriesPending or CancelFeedExtractions.
SetFeedFullContent(f, on, at) ==
    LET of == {i \in DOMAIN db.entries : db.entries[i].feed = f}
        MarkFeedEntriesPending(d) ==
            UpdateRows(d, {i \in of : db.entries[i].ext \in {"none", "failed"}},
                LAMBDA e : [e EXCEPT !.ext = "pending", !.next = at, !.attempts = 0,
                                     !.reason = FALSE])
        CancelFeedExtractions(d) ==
            UpdateRows(d, {i \in of : db.entries[i].ext \in {"pending", "failed"}},
                LAMBDA e : [e EXCEPT !.ext = "none", !.next = NoTime, !.reason = FALSE])
        flagged == UpdateFeedRow(f, LAMBDA r : [r EXCEPT !.full = on])
    IN  Call(IF f \notin DOMAIN db.feeds THEN db
             ELSE IF on THEN MarkFeedEntriesPending(flagged)
             ELSE CancelFeedExtractions(flagged),
             <<"SetFeedFullContent", MidFeed(f), on, at, Found(f)>>)

DeleteFeed_KeepsTombstones(f) ==
    LET d == DeleteRows(db, {i \in DOMAIN db.entries : db.entries[i].feed = f})
    IN  Call([d EXCEPT !.feeds = Restrict(@, DOMAIN @ \ {f})],
             <<"DeleteFeed", MidFeed(f), Found(f)>>)

\* DELETE FROM feeds; entries and tombstones follow by ON DELETE CASCADE, and the
\* entries' delete trigger fires.
DeleteFeed(f) ==
    LET d == DeleteRows(db, {i \in DOMAIN db.entries : db.entries[i].feed = f})
    IN  Call([d EXCEPT !.feeds = Restrict(@, DOMAIN @ \ {f}),
                       !.tombstones = {t \in @ : t[1] # f}],
             <<"DeleteFeed", MidFeed(f), Found(f)>>)

-----------------------------------------------------------------------------
(* Entries.                                                                *)

TombstoneExists(d, f, v) == <<f, GuidOf[v]>> \in d.tombstones

GetEntryByGUID(d, f, v) ==
    {i \in DOMAIN d.entries :
        d.entries[i].feed = f /\ GuidOf[d.entries[i].hash] = GuidOf[v]}

InsertEntry(d, f, v, full, at) ==
    InsertRow(d, [mid |-> d.serial, feed |-> f, hash |-> v, content |-> v,
                  ctext |-> PlainText(v), stext |-> PlainSummary(v),
                  status |-> "unread", starred |-> FALSE, readAt |-> NoTime,
                  ext |-> IF full THEN "pending" ELSE "none", attempts |-> 0,
                  next |-> IF full THEN at ELSE NoTime, reason |-> FALSE,
                  created |-> at])

UpdateEntryContent(d, i, v) ==
    UpdateText(d, i, [d.entries[i] EXCEPT !.hash = v, !.content = v,
                                          !.ctext = PlainText(v), !.stext = PlainSummary(v)])

UpdateEntryMetadata(d, i, v) ==
    UpdateText(d, i, [d.entries[i] EXCEPT !.hash = v, !.stext = PlainSummary(v)])

\* One item of a poll, in the poll's transaction.
UpsertOne(f, full, at, d, v) ==
    IF TombstoneExists(d, f, v) THEN d
    ELSE IF GetEntryByGUID(d, f, v) = {} THEN InsertEntry(d, f, v, full, at)
    ELSE LET i == CHOOSE x \in GetEntryByGUID(d, f, v) : TRUE
         IN  IF d.entries[i].hash = v THEN d
             ELSE IF d.entries[i].ext = "done" THEN UpdateEntryMetadata(d, i, v)
             ELSE UpdateEntryContent(d, i, v)

\* fetch_full_content is read in the transaction; without the feed there is
\* nothing to do.
Upserted(f, batch, at) ==
    IF f \notin DOMAIN db.feeds THEN db
    ELSE FoldLeft(LAMBDA d, v : UpsertOne(f, db.feeds[f].full, at, d, v), db, batch)

UpsertEntries(f, batch, at) ==
    LET d == Upserted(f, batch, at)
    IN  /\ d.serial <= MaxSerial + 1
        /\ Call(d, <<"UpsertEntries", MidFeed(f), batch, at, d.serial - db.serial>>)

\* What a version older than 0013 left behind: rows whose text columns the
\* migration will add, empty.
OldFeed(u, full) ==
    /\ phase = "old" /\ db.feeds = <<>>
    /\ db' = [db EXCEPT !.feeds = Put(@, 1, [mid |-> 1, url |-> u, etag |-> FALSE,
                                             next |-> Now, cat |-> None, full |-> full,
                                             name |-> FALSE]),
                        !.feedSeq = 2, !.serial = 2]
    /\ answer' = <<"CreateFeed", u, None, full, Now, "ok">>
    /\ UNCHANGED <<deleting, ops, startup>>

OldEntries(batch) ==
    /\ phase = "old" /\ db.feeds # <<>> /\ db.entries = <<>>
    /\ db' = Upserted(1, batch, Now)
    /\ answer' = <<"UpsertEntries", 1, batch, Now, db'.serial - db.serial>>
    /\ UNCHANGED <<deleting, ops, startup>>

Mids(S) == {MidEntry(i) : i \in S}

SetStatus(S, status, at) ==
    Call(UpdateRows(db, S, LAMBDA e : [e EXCEPT !.status = status,
                               !.readAt = IF status = "read" THEN at ELSE NoTime]),
         <<"SetStatus", Mids(S), status, at, "ok">>)

SetStarred(S, on) ==
    Call(UpdateRows(db, S, LAMBDA e : [e EXCEPT !.starred = on]),
         <<"SetStarred", Mids(S), on, "ok">>)

\* The subquery of a selection: the feeds it takes in.
FeedsOf(sel) ==
    CASE sel[1] = "feed"  -> {sel[2]}
      [] sel[1] = "cat"   -> {f \in DOMAIN db.feeds : db.feeds[f].cat = sel[2]}
      [] sel[1] = "uncat" -> {f \in DOMAIN db.feeds : db.feeds[f].cat = None}
      [] OTHER            -> DOMAIN db.feeds

MidSel(sel) ==
    CASE sel[1] = "feed" -> <<"feed", MidFeed(sel[2])>>
      [] sel[1] = "cat"  -> <<"cat", MidCat(sel[2])>>
      [] OTHER           -> sel

MarkReadByFilter(sel, at) ==
    LET hit == {i \in DOMAIN db.entries : /\ db.entries[i].status = "unread"
                                          /\ db.entries[i].feed \in FeedsOf(sel)}
    IN  Call(UpdateRows(db, hit, LAMBDA e : [e EXCEPT !.status = "read", !.readAt = at]),
             <<"MarkReadByFilter", MidSel(sel), at, Cardinality(hit)>>)

\* DeleteEntry reads the row's feed and guid first, outside the transaction.
DeleteEntryRead(d, i) ==
    /\ phase = "open"
    /\ deleting[d] = NoDelete
    /\ IF i \in DOMAIN db.entries
       THEN /\ deleting' = [deleting EXCEPT ![d] =
                   [id |-> i, feed |-> db.entries[i].feed, hash |-> db.entries[i].hash,
                    mid |-> db.entries[i].mid]]
            /\ UNCHANGED answer
       ELSE /\ answer' = <<"DeleteEntry", MidEntry(i), "notfound">>
            /\ UNCHANGED deleting
    /\ UNCHANGED <<db, ops, startup>>

\* The transaction: InsertTombstone, whose foreign key fails once the feed is
\* gone, then DeleteEntry, rolled back when it finds no row.
InsertTombstone(d, f, v) == [d EXCEPT !.tombstones = @ \cup {<<f, GuidOf[v]>>}]

DeleteEntryTx(c) ==
    LET r == deleting[c]
        code == IF r.feed \notin DOMAIN db.feeds THEN "conflict"
                ELSE IF r.id \notin DOMAIN db.entries THEN "notfound" ELSE "ok"
    IN  /\ phase = "open"
        /\ r # NoDelete
        /\ db' = IF code = "ok"
                 THEN DeleteRows(InsertTombstone(db, r.feed, r.hash), {r.id}) ELSE db
        /\ deleting' = [deleting EXCEPT ![c] = NoDelete]
        /\ answer' = <<"DeleteEntry", r.mid, code>>
        /\ UNCHANGED <<ops, startup>>

SetEntryContent(i) ==
    /\ i \in DOMAIN db.entries
    /\ Call(IF db.entries[i].ext = "pending"
            THEN UpdateText(db, i, [db.entries[i] EXCEPT
                     !.content = Article, !.ctext = PlainText(Article), !.ext = "done",
                     !.next = NoTime, !.reason = FALSE])
            ELSE db,
            <<"SetEntryContent", MidEntry(i), "ok">>)

UpdateExtractState(i, ext, attempts, next) ==
    /\ i \in DOMAIN db.entries
    /\ Call(UpdateRows(db, {i}, LAMBDA e : [e EXCEPT !.ext = ext, !.attempts = attempts,
                                                    !.next = next, !.reason = TRUE]),
            <<"UpdateExtractState", MidEntry(i), ext, attempts, next, "ok">>)

-----------------------------------------------------------------------------
(* Categories.                                                             *)

TitleTaken(t, others) == \E c \in others : Fold[db.categories[c].title] = Fold[t]

CreateCategory(t) ==
    LET taken == TitleTaken(t, DOMAIN db.categories)
    IN  /\ db.serial <= MaxSerial
        /\ Call(IF taken THEN db
                ELSE [db EXCEPT !.categories =
                          Put(@, NextRowid(@), [mid |-> db.serial, title |-> t]),
                                !.serial = @ + 1],
                <<"CreateCategory", t, IF taken THEN "conflict" ELSE "ok">>)

UpdateCategory(c, t) ==
    LET code == IF c \notin DOMAIN db.categories THEN "notfound"
                ELSE IF TitleTaken(t, DOMAIN db.categories \ {c}) THEN "conflict"
                ELSE "ok"
    IN  Call(IF code = "ok" THEN [db EXCEPT !.categories[c].title = t] ELSE db,
             <<"UpdateCategory", MidCat(c), t, code>>)

\* The feeds' category_id follows by ON DELETE SET NULL.
DeleteCategory(c) ==
    Call([db EXCEPT !.categories = Restrict(@, DOMAIN @ \ {c}),
                    !.feeds = [f \in DOMAIN @ |-> IF @[f].cat = c
                                                  THEN [@[f] EXCEPT !.cat = None] ELSE @[f]]],
         <<"DeleteCategory", MidCat(c),
           IF c \in DOMAIN db.categories THEN "ok" ELSE "notfound">>)

-----------------------------------------------------------------------------
(* Reads: the queries as SQL.                                              *)

Rows == db.entries
ListDueFeeds(now) == {f \in DOMAIN db.feeds : db.feeds[f].next <= now}

OrderCol(e, order) == IF order = "read" THEN e.readAt ELSE Published[e.hash]

OrderBy_NoTiebreak(S, order) ==
    LET col(i) == OrderCol(Rows[i], order)
        before(a, b) == col(a) > col(b) \/ (col(a) = col(b) /\ a < b)
    IN  [k \in 1..Cardinality(S) |->
            CHOOSE i \in S : Cardinality({j \in S : before(j, i)}) = k - 1]

\* ORDER BY the order's column DESC, id DESC: a row's place is the number of rows
\* before it.
OrderBy(S, order) ==
    LET col(i) == OrderCol(Rows[i], order)
        before(a, b) == col(a) > col(b) \/ (col(a) = col(b) /\ a > b)
    IN  [k \in 1..Cardinality(S) |->
            CHOOSE i \in S : Cardinality({j \in S : before(j, i)}) = k - 1]

\* The dynamic WHERE; one row more than the limit is read to see whether there is
\* a next page.
ListEntries(q, sel, cursor) ==
    LET where(e, i) ==
            /\ q.status \in {"any", e.status}
            /\ q.starred => e.starred
            /\ e.feed \in FeedsOf(sel)
            /\ q.order = "read" => e.readAt # NoTime
            /\ \/ cursor = <<>>
               \/ OrderCol(e, q.order) < cursor[1]
               \/ OrderCol(e, q.order) = cursor[1] /\ i < cursor[2]
        all == OrderBy({i \in DOMAIN Rows : where(Rows[i], i)}, q.order)
        read == IF Len(all) > q.limit + 1 THEN SubSeq(all, 1, q.limit + 1) ELSE all
        more == Len(read) > q.limit
        page == IF more THEN SubSeq(read, 1, q.limit) ELSE read
        last == page[q.limit]
    IN  [page |-> page,
         next |-> IF more THEN <<OrderCol(Rows[last], q.order), last>> ELSE <<>>]

\* next_extract_at <= ? is not true of NULL.
ListPendingExtractions(now) ==
    OrderBy({i \in DOMAIN Rows : /\ Rows[i].ext = "pending"
                                 /\ Rows[i].next # NoTime /\ Rows[i].next <= now}, "pub")

WeeklyEntryCount(f, now) ==
    LET eff(e) == IF Published[e.hash] > 0 THEN Published[e.hash] ELSE e.created
    IN  Cardinality({i \in DOMAIN Rows : /\ Rows[i].feed = f
                                         /\ eff(Rows[i]) >= now - Week
                                         /\ eff(Rows[i]) <= now})

EntryDedup(f) ==
    [existing |-> {<<GuidOf[Rows[i].hash], Rows[i].hash>> :
                       i \in {x \in DOMAIN Rows : Rows[x].feed = f}},
     tombstoned |-> {t[2] : t \in {x \in db.tombstones : x[1] = f}}]

\* MATCH on the index, joined with entries on the rowid.
Search(query) ==
    {i \in DOMAIN db.fts \cap DOMAIN Rows :
        /\ query # {}
        /\ query \subseteq db.fts[i].title \cup db.fts[i].content \cup db.fts[i].summary}

FeedEntryStatsByID(f) ==
    LET of == {i \in DOMAIN Rows : Rows[i].feed = f}
    IN  [total |-> Cardinality(of),
         unread |-> Cardinality({i \in of : Rows[i].status = "unread"})]

EntryStatsByFeed ==
    [f \in {Rows[i].feed : i \in DOMAIN Rows} |-> FeedEntryStatsByID(f)]

UnreadCount == Cardinality({i \in DOMAIN Rows : Rows[i].status = "unread"})

\* entries JOIN feeds ... GROUP BY category_id.
UnreadCountsByCategory ==
    LET joined == {i \in DOMAIN Rows : /\ Rows[i].status = "unread"
                                       /\ Rows[i].feed \in DOMAIN db.feeds}
        group(c) == {i \in joined : db.feeds[Rows[i].feed].cat = c}
    IN  [c \in {db.feeds[Rows[i].feed].cat : i \in joined} |-> Cardinality(group(c))]

-----------------------------------------------------------------------------
Selections == {<<"all">>, <<"uncat">>} \cup {<<"feed", f>> : f \in FeedIds}
                  \cup {<<"cat", c>> : c \in CatIds}

IdLists == {{i} : i \in EntryIds} \cup {DOMAIN db.entries}

StartStep == GooseUp \/ BackfillBatch \/ Rebuild \/ CreateTrigger \/ SetFlag

Next ==
    \/ StartStep
    \/ Crash
    \/ \E full \in BOOLEAN : OldFeed(CHOOSE u \in Urls : TRUE, full)
    \/ \E b \in Batches : OldEntries(b)
    \/ \E u \in Urls, c \in Categories, full \in BOOLEAN : CreateFeed(u, c, full, Now)
    \/ \E f \in FeedIds, u \in Urls : UpdateFeed(f, u, TRUE, Later)
    \/ \E f \in FeedIds, u \in Urls : SetFeedURL(f, u, Now)
    \/ \E f \in FeedIds, on \in BOOLEAN : SetFeedUserTitle(f, on)
    \/ \E f \in FeedIds, c \in Categories : SetFeedCategory(f, c)
    \/ \E f \in FeedIds, on \in BOOLEAN : SetFeedFullContent(f, on, Now)
    \/ \E f \in FeedIds : DeleteFeed(f)
    \/ \E f \in FeedIds, b \in Batches : UpsertEntries(f, b, Later)
    \/ \E S \in IdLists, at \in Times : SetStatus(S, "read", at)
    \/ \E S \in IdLists : SetStatus(S, "unread", Now)
    \/ \E S \in IdLists, on \in BOOLEAN : SetStarred(S, on)
    \/ \E sel \in Selections : MarkReadByFilter(sel, Now)
    \/ \E d \in Deleters, i \in EntryIds : DeleteEntryRead(d, i)
    \/ \E d \in Deleters : DeleteEntryTx(d)
    \/ \E i \in EntryIds : SetEntryContent(i)
    \/ \E i \in EntryIds, n \in 0..MaxAttempts : UpdateExtractState(i, "pending", n, Later)
    \/ \E i \in EntryIds, n \in 1..MaxAttempts : UpdateExtractState(i, "failed", n, NoTime)
    \/ \E t \in Titles : CreateCategory(t)
    \/ \E c \in CatIds, t \in Titles : UpdateCategory(c, t)
    \/ \E c \in CatIds : DeleteCategory(c)

\* Open and migrate go on without waiting for anything outside the process.
Spec == Init /\ [][Next]_vars /\ WF_vars(StartStep)

-----------------------------------------------------------------------------
(* The refinement mapping: rows under MemStore's numbers, without the      *)
(* columns and tables only this store has.                                 *)

Renumbered(table, row(_)) ==
    [m \in {table[i].mid : i \in DOMAIN table} |->
        row(table[CHOOSE i \in DOMAIN table : table[i].mid = m])]

MemFeed(r) ==
    [url |-> r.url, etag |-> r.etag, next |-> r.next, cat |-> MidCat(r.cat),
     full |-> r.full, name |-> r.name]

MemEntry(e) ==
    [feed |-> MidFeed(e.feed), hash |-> e.hash, content |-> e.content,
     status |-> e.status, starred |-> e.starred, readAt |-> e.readAt, ext |-> e.ext,
     attempts |-> e.attempts, next |-> e.next, reason |-> e.reason,
     created |-> e.created]

\* A delete whose feed went meanwhile is refused by the foreign key, and MemStore
\* calls that "not found".
MemAnswer ==
    IF answer[1] = "DeleteEntry" /\ answer[3] = "conflict"
    THEN <<answer[1], answer[2], "notfound">> ELSE answer

Mem == INSTANCE MemStore WITH
    feeds <- Renumbered(db.feeds, MemFeed),
    entries <- Renumbered(db.entries, MemEntry),
    tombstones <- {<<MidFeed(t[1]), t[2]>> : t \in db.tombstones},
    categories <- Renumbered(db.categories, LAMBDA c : c.title),
    nextID <- db.serial,
    answer <- MemAnswer

\* Every call, as its caller sees it, is a step of MemStore, and start-up and
\* crashes change nothing MemStore holds: what the tests of the services and
\* handlers see from their fake is what the program sees from SQLite.
Implements == Mem!Spec

\* The queries answer like the fake's loops, in every state the store is open in.
Cursors(q) ==
    {<<>>} \cup {<<OrderCol(Rows[i], q.order), i>> :
                     i \in {x \in DOMAIN Rows : q.order = "read" => Rows[x].readAt # NoTime}}

MemCursor(c) == IF c = <<>> THEN <<>> ELSE <<c[1], MidEntry(c[2])>>
MidSeq(s) == [k \in DOMAIN s |-> MidEntry(s[k])]

ListsAgree ==
    \A q \in Queries, sel \in Selections : \A c \in Cursors(q) :
        LET mine == ListEntries(q, sel, c)
        IN  [page |-> MidSeq(mine.page), next |-> MemCursor(mine.next)]
                = Mem!ListEntries(q, MidSel(sel), MemCursor(c))

SweepsAgree ==
    \A now \in Times :
        /\ {MidFeed(f) : f \in ListDueFeeds(now)} = Mem!ListDueFeeds(now)
        /\ MidSeq(ListPendingExtractions(now)) = Mem!ListPendingExtractions(now)
        /\ \A f \in DOMAIN db.feeds :
               WeeklyEntryCount(f, now) = Mem!WeeklyEntryCount(MidFeed(f), now)

CountsAgree ==
    /\ UnreadCount = Mem!UnreadCount
    /\ \A f \in DOMAIN db.feeds :
           /\ EntryDedup(f) = Mem!EntryDedup(MidFeed(f))
           /\ FeedEntryStatsByID(f) = Mem!FeedEntryStatsByID(MidFeed(f))
    /\ LET S == EntryStatsByFeed
       IN  /\ {MidFeed(f) : f \in DOMAIN S} = DOMAIN Mem!EntryStatsByFeed
           /\ \A f \in DOMAIN S : S[f] = Mem!EntryStatsByFeed[MidFeed(f)]
    /\ LET S == UnreadCountsByCategory
       IN  /\ {MidCat(c) : c \in DOMAIN S} = DOMAIN Mem!UnreadCountsByCategory
           /\ \A c \in DOMAIN S : S[c] = Mem!UnreadCountsByCategory[MidCat(c)]

ReadsAgree == phase = "open" => ListsAgree /\ SweepsAgree /\ CountsAgree

\* The index never gets a 'delete' of values it does not hold, and an open store's
\* index holds the visible text of every row, however start-up was interrupted.
SearchComplete ==
    /\ ~db.corrupt
    /\ phase = "open" => \A w \in Words : Mids(Search({w})) = Mem!Search({w})

\* Types, and the references between the tables.
Row ==
    [mid : Nat, feed : DOMAIN db.feeds, hash : Versions, content : Versions \cup {Article},
     ctext : SUBSET Words, stext : SUBSET Words, status : {"unread", "read"},
     starred : BOOLEAN, readAt : Times \cup {NoTime},
     ext : {"none", "pending", "done", "failed"}, attempts : 0..MaxAttempts,
     next : Times \cup {NoTime}, reason : BOOLEAN, created : Times]

TypeOK ==
    /\ \A f \in DOMAIN db.feeds : f < db.feedSeq /\ db.feeds[f].cat \in Categories
    /\ \A i \in DOMAIN db.entries : db.entries[i] \in Row
    /\ \A t \in db.tombstones : t[1] \in DOMAIN db.feeds
    /\ phase \in {"old", "starting", "backfill", "rebuild", "trigger", "flag", "open"}
    /\ ops \in 0..MaxOps /\ crashes \in 0..MaxCrashes

\* Start-up ends: every back-fill reaches its end, rows without visible text
\* included.
OpensEventually == (phase \notin {"old", "open"}) ~> (phase = "open")
=============================================================================
