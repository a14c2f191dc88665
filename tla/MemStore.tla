------------------------------ MODULE MemStore ------------------------------
(***************************************************************************)
(* The promise of core.Store, as the in-memory store the services' and     *)
(* handlers' tests run against states it: every method is one step under   *)
(* one lock, and one counter numbers feeds, entries and categories, so no  *)
(* id is ever given twice.                                                 *)
(*                                                                         *)
(* There is one user (migration 0001 inserts it and nothing adds another). *)
(* An item of a feed comes in versions; a version stands for the item's    *)
(* hash, and its guid, words and date are functions of it.  answer is the  *)
(* last call with its arguments and its result, the part of a step the     *)
(* caller sees.                                                            *)
(***************************************************************************)
EXTENDS Integers, FiniteSets, Sequences, SequencesExt

CONSTANTS
    Urls,       \* feed addresses
    Titles,     \* category titles
    Versions,   \* versions of items
    GuidOf,     \* the guid a version is of
    Published,  \* published_at of a version, 0 when the feed gives no date
    Words,      \* words a reader can search for
    TitleText,  \* words of a version's title
    SummaryText,\* visible words of its summary
    BodyText,   \* visible words of a body: a version's own, or the scraped Article
    Article,    \* the scraped body
    Batches,    \* sequences of versions one poll can bring
    Times,      \* the times a call can be given
    MaxAttempts,\* extraction attempts
    Week        \* core.Week, in the same unit

None == 0
NoTime == -1
Guids == {GuidOf[v] : v \in Versions}

VARIABLES
    feeds,       \* id -> feed
    entries,     \* id -> entry, with nextExtract[id] as its field next
    tombstones,  \* <<feed, guid>> of the entries deleted one by one
    categories,  \* id -> title
    nextID,      \* the next id
    answer       \* the last call and its result

vars == <<feeds, entries, tombstones, categories, nextID, answer>>

Init ==
    /\ feeds = <<>> /\ entries = <<>> /\ categories = <<>>
    /\ tombstones = {}
    /\ nextID = 1
    /\ answer = <<"open">>

-----------------------------------------------------------------------------
\* An assignment to a map, of a key it may not have yet.
Put(map, k, val) == [x \in DOMAIN map \cup {k} |-> IF x = k THEN val ELSE map[x]]

(* Feeds.                                                                  *)

CreateFeed(u, c, full, at) ==
    LET taken == \E f \in DOMAIN feeds : feeds[f].url = u
    IN  /\ answer' = <<"CreateFeed", u, c, full, at,
                       IF taken THEN "conflict" ELSE "ok">>
        /\ feeds' = IF taken THEN feeds
                    ELSE Put(feeds, nextID,
                             [url |-> u, etag |-> FALSE, next |-> at, cat |-> c,
                              full |-> full, name |-> FALSE])
        /\ nextID' = IF taken THEN nextID ELSE nextID + 1
        /\ UNCHANGED <<entries, tombstones, categories>>

\* The poll's write: its fields only, and nothing if the row is gone or its url
\* is no longer the one that was polled.
UpdateFeed(f, u, etag, next) ==
    /\ answer' = <<"UpdateFeed", f, u, etag, next, "ok">>
    /\ feeds' = IF f \in DOMAIN feeds /\ feeds[f].url = u
                THEN [feeds EXCEPT ![f].etag = etag, ![f].next = next]
                ELSE feeds
    /\ UNCHANGED <<entries, tombstones, categories, nextID>>

DeleteFeed(f) ==
    LET kept == {e \in DOMAIN entries : entries[e].feed # f}
    IN  /\ answer' = <<"DeleteFeed", f,
                       IF f \in DOMAIN feeds THEN "ok" ELSE "notfound">>
        /\ feeds' = Restrict(feeds, DOMAIN feeds \ {f})
        /\ entries' = IF f \in DOMAIN feeds THEN Restrict(entries, kept) ELSE entries
        /\ tombstones' = IF f \in DOMAIN feeds THEN {t \in tombstones : t[1] # f}
                         ELSE tombstones
        /\ UNCHANGED <<categories, nextID>>

SetFeedURL(f, u, now) ==
    LET code == IF f \notin DOMAIN feeds THEN "notfound"
                ELSE IF \E g \in DOMAIN feeds \ {f} : feeds[g].url = u
                THEN "conflict" ELSE "ok"
    IN  /\ answer' = <<"SetFeedURL", f, u, now, code>>
        /\ feeds' = IF code = "ok"
                    THEN [feeds EXCEPT ![f].url = u, ![f].etag = FALSE, ![f].next = now]
                    ELSE feeds
        /\ UNCHANGED <<entries, tombstones, categories, nextID>>

\* SetFeedUserTitle; a user title is set or empty.
SetFeedUserTitle(f, set) ==
    /\ answer' = <<"SetFeedUserTitle", f, set,
                   IF f \in DOMAIN feeds THEN "ok" ELSE "notfound">>
    /\ feeds' = IF f \in DOMAIN feeds THEN [feeds EXCEPT ![f].name = set] ELSE feeds
    /\ UNCHANGED <<entries, tombstones, categories, nextID>>

SetFeedCategory(f, c) ==
    /\ answer' = <<"SetFeedCategory", f, c,
                   IF f \in DOMAIN feeds THEN "ok" ELSE "notfound">>
    /\ feeds' = IF f \in DOMAIN feeds THEN [feeds EXCEPT ![f].cat = c] ELSE feeds
    /\ UNCHANGED <<entries, tombstones, categories, nextID>>

\* The flag and the backlog, under one lock.
SetFeedFullContent(f, on, at) ==
    LET hit == {e \in DOMAIN entries :
                    /\ f \in DOMAIN feeds /\ entries[e].feed = f
                    /\ entries[e].ext \in IF on THEN {"none", "failed"}
                                          ELSE {"pending", "failed"}}
        queued(e) == [e EXCEPT !.ext = "pending", !.attempts = 0,
                               !.reason = FALSE, !.next = at]
        cancelled(e) == [e EXCEPT !.ext = "none", !.reason = FALSE, !.next = NoTime]
    IN  /\ answer' = <<"SetFeedFullContent", f, on, at,
                       IF f \in DOMAIN feeds THEN "ok" ELSE "notfound">>
        /\ feeds' = IF f \in DOMAIN feeds THEN [feeds EXCEPT ![f].full = on] ELSE feeds
        /\ entries' = [e \in DOMAIN entries |->
                           IF e \notin hit THEN entries[e]
                           ELSE IF on THEN queued(entries[e]) ELSE cancelled(entries[e])]
        /\ UNCHANGED <<tombstones, categories, nextID>>

-----------------------------------------------------------------------------
(* Entries.                                                                *)

NewEntry(f, v, full, at) ==
    [feed |-> f, hash |-> v, content |-> v, status |-> "unread", starred |-> FALSE,
     readAt |-> NoTime, ext |-> IF full THEN "pending" ELSE "none", attempts |-> 0,
     next |-> IF full THEN at ELSE NoTime, reason |-> FALSE, created |-> at]

\* One item of a poll: skipped when tombstoned, inserted when new, edited in
\* place when its hash changed; a scraped body is kept.
UpsertOne(f, at, s, v) ==
    LET same == {e \in DOMAIN s.entries :
                     s.entries[e].feed = f /\ GuidOf[s.entries[e].hash] = GuidOf[v]}
    IN  IF <<f, GuidOf[v]>> \in tombstones THEN s
        ELSE IF same = {}
        THEN [entries |-> Put(s.entries, s.nextID, NewEntry(f, v, feeds[f].full, at)),
              nextID |-> s.nextID + 1, n |-> s.n + 1]
        ELSE LET e == CHOOSE x \in same : TRUE
             IN  [s EXCEPT !.entries[e].hash = v,
                           !.entries[e].content =
                               IF s.entries[e].hash = v \/ s.entries[e].ext = "done"
                               THEN @ ELSE v]

UpsertEntries(f, batch, at) ==
    LET s0 == [entries |-> entries, nextID |-> nextID, n |-> 0]
        s == IF f \in DOMAIN feeds
             THEN FoldLeft(LAMBDA a, v : UpsertOne(f, at, a, v), s0, batch) ELSE s0
    IN  /\ answer' = <<"UpsertEntries", f, batch, at, s.n>>
        /\ entries' = s.entries
        /\ nextID' = s.nextID
        /\ UNCHANGED <<feeds, tombstones, categories>>

\* SetStatus; entries that are gone are passed over.
SetStatus(es, status, at) ==
    /\ answer' = <<"SetStatus", es, status, at, "ok">>
    /\ entries' = [e \in DOMAIN entries |->
                       IF e \in es
                       THEN [entries[e] EXCEPT !.status = status,
                                !.readAt = IF status = "read" THEN at ELSE NoTime]
                       ELSE entries[e]]
    /\ UNCHANGED <<feeds, tombstones, categories, nextID>>

SetStarred(es, on) ==
    /\ answer' = <<"SetStarred", es, on, "ok">>
    /\ entries' = [e \in DOMAIN entries |->
                       IF e \in es THEN [entries[e] EXCEPT !.starred = on]
                       ELSE entries[e]]
    /\ UNCHANGED <<feeds, tombstones, categories, nextID>>

\* A selection is <<"all">>, <<"feed", f>>, <<"cat", c>> or <<"uncat">>, the
\* exclusive cases of MarkReadByFilter's switch.
Selected(e, sel) ==
    CASE sel[1] = "feed"  -> e.feed = sel[2]
      [] sel[1] = "cat"   -> e.feed \in DOMAIN feeds /\ feeds[e.feed].cat = sel[2]
      [] sel[1] = "uncat" -> e.feed \in DOMAIN feeds /\ feeds[e.feed].cat = None
      [] OTHER            -> TRUE

MarkReadByFilter(sel, at) ==
    LET hit == {e \in DOMAIN entries :
                    entries[e].status = "unread" /\ Selected(entries[e], sel)}
    IN  /\ answer' = <<"MarkReadByFilter", sel, at, Cardinality(hit)>>
        /\ entries' = [e \in DOMAIN entries |->
                           IF e \in hit
                           THEN [entries[e] EXCEPT !.status = "read", !.readAt = at]
                           ELSE entries[e]]
        /\ UNCHANGED <<feeds, tombstones, categories, nextID>>

DeleteEntry(e) ==
    /\ answer' = <<"DeleteEntry", e,
                   IF e \in DOMAIN entries THEN "ok" ELSE "notfound">>
    /\ tombstones' = tombstones \cup
           {<<entries[x].feed, GuidOf[entries[x].hash]>> : x \in {e} \cap DOMAIN entries}
    /\ entries' = Restrict(entries, DOMAIN entries \ {e})
    /\ UNCHANGED <<feeds, categories, nextID>>

\* The scraper's two writes.  A body is stored only on a row still pending.
SetEntryContent(e) ==
    /\ answer' = <<"SetEntryContent", e, "ok">>
    /\ e \in DOMAIN entries
    /\ entries' = IF entries[e].ext = "pending"
                  THEN [entries EXCEPT ![e].content = Article, ![e].ext = "done",
                                       ![e].reason = FALSE, ![e].next = NoTime]
                  ELSE entries
    /\ UNCHANGED <<feeds, tombstones, categories, nextID>>

UpdateExtractState(e, ext, attempts, next) ==
    /\ answer' = <<"UpdateExtractState", e, ext, attempts, next, "ok">>
    /\ e \in DOMAIN entries
    /\ entries' = [entries EXCEPT ![e].ext = ext, ![e].attempts = attempts,
                                  ![e].next = next, ![e].reason = TRUE]
    /\ UNCHANGED <<feeds, tombstones, categories, nextID>>

-----------------------------------------------------------------------------
(* Categories.                                                             *)

CreateCategory(t) ==
    LET taken == \E c \in DOMAIN categories : categories[c] = t
    IN  /\ answer' = <<"CreateCategory", t, IF taken THEN "conflict" ELSE "ok">>
        /\ categories' = IF taken THEN categories ELSE Put(categories, nextID, t)
        /\ nextID' = IF taken THEN nextID ELSE nextID + 1
        /\ UNCHANGED <<feeds, entries, tombstones>>

UpdateCategory(c, t) ==
    LET code == IF c \notin DOMAIN categories THEN "notfound"
                ELSE IF \E d \in DOMAIN categories \ {c} : categories[d] = t
                THEN "conflict" ELSE "ok"
    IN  /\ answer' = <<"UpdateCategory", c, t, code>>
        /\ categories' = IF code = "ok" THEN [categories EXCEPT ![c] = t]
                         ELSE categories
        /\ UNCHANGED <<feeds, entries, tombstones, nextID>>

DeleteCategory(c) ==
    /\ answer' = <<"DeleteCategory", c,
                   IF c \in DOMAIN categories THEN "ok" ELSE "notfound">>
    /\ feeds' = [f \in DOMAIN feeds |->
                     IF c \in DOMAIN categories /\ feeds[f].cat = c
                     THEN [feeds[f] EXCEPT !.cat = None] ELSE feeds[f]]
    /\ categories' = Restrict(categories, DOMAIN categories \ {c})
    /\ UNCHANGED <<entries, tombstones, nextID>>

-----------------------------------------------------------------------------
(* Reads.                                                                  *)

ListDueFeeds(now) == {f \in DOMAIN feeds : feeds[f].next <= now}

\* Newest first: by the order's key, then by id.
Key(e, order) ==
    IF order = "read" /\ entries[e].readAt # NoTime THEN entries[e].readAt
    ELSE Published[entries[e].hash]

\* sort.Slice: an entry's place is the number of entries before it.
Sorted(S, order) ==
    LET before(a, b) == \/ Key(a, order) > Key(b, order)
                        \/ Key(a, order) = Key(b, order) /\ a > b
    IN  [k \in 1..Cardinality(S) |->
            CHOOSE e \in S : Cardinality({x \in S : before(x, e)}) = k - 1]

Listed(q, sel) ==
    {e \in DOMAIN entries :
        /\ q.status \in {"any", entries[e].status}
        /\ q.starred => entries[e].starred
        /\ Selected(entries[e], sel)
        /\ q.order = "read" => entries[e].readAt # NoTime}

\* A page of at most q.limit rows after a cursor <<key, id>>, and the cursor of
\* the page after it.
ListEntries(q, sel, cursor) ==
    LET after == {e \in Listed(q, sel) :
                      \/ cursor = <<>>
                      \/ Key(e, q.order) < cursor[1]
                      \/ Key(e, q.order) = cursor[1] /\ e < cursor[2]}
        rows == Sorted(after, q.order)
        more == Len(rows) > q.limit
        page == IF more THEN SubSeq(rows, 1, q.limit) ELSE rows
    IN  [page |-> page,
         next |-> IF more THEN <<Key(page[q.limit], q.order), page[q.limit]>> ELSE <<>>]

ListPendingExtractions(now) ==
    Sorted({e \in DOMAIN entries :
                /\ entries[e].ext = "pending"
                /\ ~(entries[e].next # NoTime /\ entries[e].next > now)}, "pub")

\* An entry without a date counts at the time it was ingested.
WeeklyEntryCount(f, now) ==
    LET eff(e) == IF Published[entries[e].hash] <= 0 THEN entries[e].created
                  ELSE Published[entries[e].hash]
    IN  Cardinality({e \in DOMAIN entries :
            entries[e].feed = f /\ eff(e) >= now - Week /\ eff(e) <= now})

EntryDedup(f) ==
    [existing |-> {<<GuidOf[entries[e].hash], entries[e].hash>> :
                       e \in {x \in DOMAIN entries : entries[x].feed = f}},
     tombstoned |-> {g \in Guids : <<f, g>> \in tombstones}]

\* The entries whose visible text has every word of a query.
Search(query) ==
    {e \in DOMAIN entries :
        /\ query # {}
        /\ query \subseteq TitleText[entries[e].hash] \cup SummaryText[entries[e].hash]
                            \cup BodyText[entries[e].content]}

Unread == {e \in DOMAIN entries : entries[e].status = "unread"}

FeedEntryStatsByID(f) ==
    [total  |-> Cardinality({e \in DOMAIN entries : entries[e].feed = f}),
     unread |-> Cardinality({e \in Unread : entries[e].feed = f})]

\* Only the feeds that have entries are in the map.
EntryStatsByFeed ==
    [f \in {entries[e].feed : e \in DOMAIN entries} |-> FeedEntryStatsByID(f)]

UnreadCount == Cardinality(Unread)

\* Unread entries by category id, None for the feeds without one; no key for none.
UnreadCountsByCategory ==
    LET known == {e \in Unread : entries[e].feed \in DOMAIN feeds}
        cat(e) == feeds[entries[e].feed].cat
    IN  [c \in {cat(e) : e \in known} |-> Cardinality({e \in known : cat(e) = c})]

-----------------------------------------------------------------------------
\* Ids a caller can hold: of a row, or of none (a deleted entry's too).
FeedIds == DOMAIN feeds \cup {nextID}
EntryIds == DOMAIN entries \cup {nextID}
CatIds == DOMAIN categories \cup {nextID}
Categories == DOMAIN categories \cup {None}
IdLists == {{e} : e \in EntryIds} \cup {DOMAIN entries}
Selections == {<<"all">>, <<"uncat">>}
                  \cup {<<"feed", f>> : f \in FeedIds} \cup {<<"cat", c>> : c \in CatIds}

Next ==
    \/ \E u \in Urls, c \in Categories, full \in BOOLEAN, at \in Times :
           CreateFeed(u, c, full, at)
    \/ \E f \in FeedIds, u \in Urls, etag \in BOOLEAN, at \in Times : UpdateFeed(f, u, etag, at)
    \/ \E f \in FeedIds, u \in Urls, at \in Times : SetFeedURL(f, u, at)
    \/ \E f \in FeedIds, on \in BOOLEAN : SetFeedUserTitle(f, on)
    \/ \E f \in FeedIds, c \in Categories : SetFeedCategory(f, c)
    \/ \E f \in FeedIds, on \in BOOLEAN, at \in Times : SetFeedFullContent(f, on, at)
    \/ \E f \in FeedIds : DeleteFeed(f)
    \/ \E f \in FeedIds, b \in Batches, at \in Times : UpsertEntries(f, b, at)
    \/ \E es \in IdLists, s \in {"read", "unread"}, at \in Times : SetStatus(es, s, at)
    \/ \E es \in IdLists, on \in BOOLEAN : SetStarred(es, on)
    \/ \E sel \in Selections, at \in Times : MarkReadByFilter(sel, at)
    \/ \E e \in 1..nextID : DeleteEntry(e)
    \/ \E e \in EntryIds : SetEntryContent(e)
    \/ \E e \in EntryIds, n \in 0..MaxAttempts, at \in Times : UpdateExtractState(e, "pending", n, at)
    \/ \E e \in EntryIds, n \in 0..MaxAttempts : UpdateExtractState(e, "failed", n, NoTime)
    \/ \E t \in Titles : CreateCategory(t)
    \/ \E c \in CatIds, t \in Titles : UpdateCategory(c, t)
    \/ \E c \in CatIds : DeleteCategory(c)

Spec == Init /\ [][Next]_vars
=============================================================================
