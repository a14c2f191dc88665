---------------------------- MODULE EntryLifecycle ----------------------------
(***************************************************************************)
(* The entries and tombstones tables and the actors that share them: polls *)
(* that ingest (EntryDedup, then UpsertEntries), the Scraper's workers     *)
(* (ListPendingExtractions, ScrapeEntry, SetEntryContent or                *)
(* UpdateExtractState), the full-content switch of the edit form, and the  *)
(* browser tabs that delete entries.                                       *)
(*                                                                         *)
(* Every store call is one transaction on SQLite's only connection; the    *)
(* actors interleave between calls.  UpsertEntries handles its items in    *)
(* one transaction; here a poll brings one item, so a poll of n items is n *)
(* of these polls with nobody in between.  Content is the feed's or the    *)
(* scraped article; next_extract_at is "null", "now" (due) or "later".     *)
(* Entry ids are plain rowids: the id of a deleted newest entry is reused. *)
(***************************************************************************)
EXTENDS Integers, FiniteSets

CONSTANTS
    Feeds,         \* feed ids (AUTOINCREMENT: a deleted one does not return)
    Guids,         \* entry guids a feed may serve
    Hashes,        \* content hashes: a changed hash is an in-place edit
    Scrapers,      \* the Scraper's jobs: rows it has listed, waiting for or held
                   \* by a worker goroutine
    Pollers,       \* polls in flight
    Tabs,          \* browser tabs showing an entry
    MaxId,         \* bound: entry ids in use at once
    MaxAttempts,   \* ScrapeConfig.MaxAttempts
    MaxTransient,  \* bound: 429 and 5xx answers
    MaxRestarts,   \* bound: shutdowns
    StoreFails     \* may a store call fail (disk full, I/O error)?

ASSUME LifecycleAssumption ==
    /\ Feeds # {} /\ Guids # {} /\ Hashes # {}
    /\ MaxId \in Nat /\ MaxAttempts \in Nat \ {0}
    /\ MaxTransient \in Nat /\ MaxRestarts \in Nat
    /\ StoreFails \in BOOLEAN

VARIABLES
    feeds,       \* the live feed rows
    full,        \* feeds.fetch_full_content
    entries,     \* the entries table, by rowid
    tombs,       \* the tombstones table: pairs <<feed, guid>>
    polls,       \* polls between EntryDedup and UpsertEntries
    jobs,        \* scrapes in flight
    tabs,        \* tabs, and their delete requests
    up,          \* "running" or "stopping"
    transients,  \* 429 and 5xx answers so far
    restarts     \* shutdowns so far

vars == <<feeds, full, entries, tombs, polls, jobs, tabs, up, transients, restarts>>

Ids  == 1..MaxId
Keys == Feeds \X Guids
AnyKey  == CHOOSE k \in Keys : TRUE
AnyHash == CHOOSE h \in Hashes : TRUE

\* A row of the entries table; article: the content is a scraped article.
Entry ==
    [live : BOOLEAN, key : Keys, hash : Hashes, article : BOOLEAN,
     state : {"none", "pending", "done", "failed"},
     attempts : 0..MaxAttempts, next : {"null", "now", "later"}]

NoEntry ==
    [live |-> FALSE, key |-> AnyKey, hash |-> AnyHash, article |-> FALSE,
     state |-> "none", attempts |-> 0, next |-> "null"]

\* A poll: the item it brings, whether EntryDedup found the guid, and the
\* full-content flag of the Feed snapshot it started from.
Poll ==
    [pc : {"idle", "upsert"}, key : Keys, hash : Hashes, known : BOOLEAN,
     full : BOOLEAN]

NoPoll ==
    [pc |-> "idle", key |-> AnyKey, hash |-> AnyHash, known |-> FALSE,
     full |-> FALSE]

\* A scrape: the id and attempt count of its Entry snapshot.
Job ==
    [pc : {"idle", "fetch", "store", "fail", "retry"}, id : 0..MaxId,
     attempts : 0..MaxAttempts]

NoJob == [pc |-> "idle", id |-> 0, attempts |-> 0]

\* A tab: the id its page shows, and what GetEntry returned to the delete request
\* that is running.
Tab ==
    [pc : {"idle", "page", "tx"}, id : 0..MaxId, read : Keys]

NoTab == [pc |-> "idle", id |-> 0, read |-> AnyKey]

Init ==
    /\ feeds = Feeds
    /\ full \in [Feeds -> BOOLEAN]
    /\ entries = [i \in Ids |-> NoEntry]
    /\ tombs = {}
    /\ polls = [p \in Pollers |-> NoPoll]
    /\ jobs = [w \in Scrapers |-> NoJob]
    /\ tabs = [t \in Tabs |-> NoTab]
    /\ up = "running"
    /\ transients = 0
    /\ restarts = 0

-----------------------------------------------------------------------------
(* Polls *)

Stored(k) == {i \in Ids : entries[i].live /\ entries[i].key = k}

\* INTEGER PRIMARY KEY without AUTOINCREMENT: one more than the largest rowid
NextId == CHOOSE n \in 1..MaxId + 1 :
            /\ \A i \in Ids : entries[i].live => i < n
            /\ n = 1 \/ entries[n - 1].live

\* ingest's pre-check: a tombstoned or unchanged item is dropped here
Dedup(p, k, h) ==
    /\ polls[p].pc = "idle"
    /\ k[1] \in feeds /\ k \notin tombs
    /\ \A i \in Stored(k) : entries[i].hash # h
    /\ polls' = [polls EXCEPT ![p] =
                   [pc |-> "upsert", key |-> k, hash |-> h,
                    known |-> Stored(k) # {}, full |-> full[k[1]]]]
    /\ UNCHANGED <<feeds, full, entries, tombs, jobs, tabs, up, transients, restarts>>

\* fault: the poll's snapshot of the flag decides
InsertState_Snapshot(q) == IF q.full THEN "pending" ELSE "none"
\* the live flag, read in the transaction
InsertState(q) == IF full[q.key[1]] THEN "pending" ELSE "none"

Inserted(q) ==
    [live |-> TRUE, key |-> q.key, hash |-> q.hash, article |-> FALSE,
     state |-> InsertState(q), attempts |-> 0,
     next |-> IF InsertState(q) = "pending" THEN "now" ELSE "null"]

\* fault: a changed hash always rewrites the content
Edited_Clobbers(e, h) == [e EXCEPT !.hash = h, !.article = FALSE]
\* a changed hash: UpdateEntryMetadata for a scraped entry, else UpdateEntryContent
Edited(e, h) ==
    IF e.state = "done" THEN [e EXCEPT !.hash = h]
                        ELSE [e EXCEPT !.hash = h, !.article = FALSE]

\* fault: the pre-check's answers are trusted
Skips_Trusting(q) == q.key[1] \notin feeds
Present_Trusting(q) == IF q.known THEN Stored(q.key) ELSE {}
\* the transaction's own reads: the feed is gone, or the guid is tombstoned
Skips(q) == q.key[1] \notin feeds \/ q.key \in tombs
\* the row with this guid, if there is one
Present(q) == Stored(q.key)

\* UpsertEntries
Upsert(p) ==
    LET q == polls[p] IN
    /\ q.pc = "upsert"
    /\ \/ /\ Skips(q)
          /\ UNCHANGED entries
       \/ /\ ~Skips(q) /\ Present(q) = {} /\ NextId \in Ids
          /\ entries' = [entries EXCEPT ![NextId] = Inserted(q)]
       \/ /\ ~Skips(q) /\ Present(q) # {}
          /\ entries' = [i \in Ids |->
                           IF i \in Present(q) /\ entries[i].hash # q.hash
                           THEN Edited(entries[i], q.hash) ELSE entries[i]]
    /\ polls' = [polls EXCEPT ![p] = NoPoll]
    /\ UNCHANGED <<feeds, full, tombs, jobs, tabs, up, transients, restarts>>

\* the transaction fails, or its context is done, and is rolled back
UpsertFails(p) ==
    /\ polls[p].pc = "upsert"
    /\ StoreFails \/ up = "stopping"
    /\ polls' = [polls EXCEPT ![p] = NoPoll]
    /\ UNCHANGED <<feeds, full, entries, tombs, jobs, tabs, up, transients, restarts>>

-----------------------------------------------------------------------------
(* Scrapes *)

SetJob(w, j) == jobs' = [jobs EXCEPT ![w] = j]

\* dispatch lists a due pending row, whose snapshot then waits for a worker; the
\* row stays due meanwhile, so a later tick may list it again
Dispatch(w, id) ==
    /\ up = "running"
    /\ jobs[w].pc = "idle"
    /\ entries[id].live /\ entries[id].state = "pending" /\ entries[id].next = "now"
    /\ SetJob(w, [NoJob EXCEPT !.pc = "fetch", !.id = id,
                               !.attempts = entries[id].attempts])
    /\ UNCHANGED <<feeds, full, entries, tombs, polls, tabs, up, transients, restarts>>

\* next_extract_at arrives
Elapse(id) ==
    /\ entries[id].live /\ entries[id].next = "later"
    /\ entries' = [entries EXCEPT ![id].next = "now"]
    /\ UNCHANGED <<feeds, full, tombs, polls, jobs, tabs, up, transients, restarts>>

\* ScrapeEntry up to its store call: an article, a failure that costs an
\* attempt (fetch error, a fetch cancelled by shutdown, status, content type,
\* extraction, panic), or a 429 or 5xx
Scrape(w) ==
    /\ jobs[w].pc = "fetch"
    /\ \/ SetJob(w, [jobs[w] EXCEPT !.pc = "store"]) /\ UNCHANGED transients
       \/ SetJob(w, [jobs[w] EXCEPT !.pc = "fail"]) /\ UNCHANGED transients
       \/ /\ transients < MaxTransient
          /\ SetJob(w, [jobs[w] EXCEPT !.pc = "retry"])
          /\ transients' = transients + 1
    /\ UNCHANGED <<feeds, full, entries, tombs, polls, tabs, up, restarts>>

\* SetEntryContent: only a row that is still pending takes the article.  A
\* failed write (a cancelled context is one) is a failed attempt.
StoreContent(w) ==
    LET id == jobs[w].id IN
    /\ jobs[w].pc = "store"
    /\ \/ /\ up = "running"
          /\ entries' = IF entries[id].live /\ entries[id].state = "pending"
                        THEN [entries EXCEPT ![id].article = TRUE,
                                             ![id].state = "done",
                                             ![id].next = "null"]
                        ELSE entries
          /\ SetJob(w, NoJob)
       \/ /\ StoreFails \/ up = "stopping"
          /\ SetJob(w, [jobs[w] EXCEPT !.pc = "fail"])
          /\ UNCHANGED entries
    /\ UNCHANGED <<feeds, full, tombs, polls, tabs, up, transients, restarts>>

\* UpdateExtractState by id alone: whatever state the row is in
ExtractUpdate(id, state, attempts, next) ==
    entries' = IF entries[id].live
               THEN [entries EXCEPT ![id].state = state,
                                    ![id].attempts = attempts,
                                    ![id].next = next]
               ELSE entries

\* fault: a failure costs no attempt
Attempts_Free(j) == j.attempts
Attempts(j) == j.attempts + 1

\* fault: one attempt more than the cap
Exhausted_Late(n) == n > MaxAttempts
Exhausted(n) == n >= MaxAttempts

\* failEmit: the snapshot's attempt count plus one decides.  The write uses the
\* scrape's own context, so a cancelled one writes nothing.
Fail(w) ==
    LET j == jobs[w]
        n == Attempts(j)
    IN
    /\ j.pc = "fail"
    /\ \/ /\ up = "running"
          /\ IF Exhausted(n) THEN ExtractUpdate(j.id, "failed", n, "null")
                          ELSE ExtractUpdate(j.id, "pending", n, "later")
       \/ /\ StoreFails \/ up = "stopping"
          /\ UNCHANGED entries
    /\ SetJob(w, NoJob)
    /\ UNCHANGED <<feeds, full, tombs, polls, tabs, up, transients, restarts>>

\* retryLater: the attempt count stays
RetryLater(w) ==
    /\ jobs[w].pc = "retry"
    /\ \/ /\ up = "running"
          /\ ExtractUpdate(jobs[w].id, "pending", jobs[w].attempts, "later")
       \/ /\ StoreFails \/ up = "stopping"
          /\ UNCHANGED entries
    /\ SetJob(w, NoJob)
    /\ UNCHANGED <<feeds, full, tombs, polls, tabs, up, transients, restarts>>

-----------------------------------------------------------------------------
(* The user *)

\* MarkFeedEntriesPending
Requeued(e) == [e EXCEPT !.state = "pending", !.next = "now", !.attempts = 0]

\* fault: the schedule of a cancelled extraction stays
Cancelled_Scheduled(e) == [e EXCEPT !.state = "none"]
\* CancelFeedExtractions
Cancelled(e) == [e EXCEPT !.state = "none", !.next = "null"]

\* SetFeedFullContent: flag and backlog in one transaction
SetFullContent(f, on) ==
    /\ up = "running"
    /\ f \in feeds
    /\ full' = [full EXCEPT ![f] = on]
    /\ entries' = [i \in Ids |->
         LET e == entries[i]
             own == e.live /\ e.key[1] = f
         IN
         CASE own /\ on /\ e.state \in {"none", "failed"} -> Requeued(e)
           [] own /\ ~on /\ e.state \in {"pending", "failed"} -> Cancelled(e)
           [] OTHER -> e]
    /\ UNCHANGED <<feeds, tombs, polls, jobs, tabs, up, transients, restarts>>

\* DeleteFeed cascades to the feed's entries and tombstones
DeleteFeed(f) ==
    /\ up = "running"
    /\ f \in feeds
    /\ feeds' = feeds \ {f}
    /\ entries' = [i \in Ids |-> IF entries[i].live /\ entries[i].key[1] = f
                                 THEN NoEntry ELSE entries[i]]
    /\ tombs' = {k \in tombs : k[1] # f}
    /\ UNCHANGED <<full, polls, jobs, tabs, up, transients, restarts>>

\* a tab renders a list or reader page with a delete button for row id
Show(t, id) ==
    /\ up = "running"
    /\ tabs[t].pc = "idle" /\ entries[id].live
    /\ tabs' = [tabs EXCEPT ![t] = [NoTab EXCEPT !.pc = "page", !.id = id]]
    /\ UNCHANGED <<feeds, full, entries, tombs, polls, jobs, up, transients, restarts>>

\* DeleteEntry's GetEntry, outside the transaction
DeleteRead(t) ==
    LET id == tabs[t].id IN
    /\ tabs[t].pc = "page"
    /\ tabs' = [tabs EXCEPT ![t] = IF entries[id].live
                                   THEN [@ EXCEPT !.pc = "tx", !.read = entries[id].key]
                                   ELSE NoTab]
    /\ UNCHANGED <<feeds, full, entries, tombs, polls, jobs, up, transients, restarts>>

\* DeleteEntry's transaction: a tombstone for the guid that was read, then the
\* row by id; a vanished feed (foreign key) or row rolls both back
DeleteTx(t) ==
    LET id == tabs[t].id
        k  == tabs[t].read
    IN
    /\ tabs[t].pc = "tx"
    /\ \/ /\ k[1] \in feeds /\ entries[id].live
          /\ tombs' = tombs \cup {k}
          /\ entries' = [entries EXCEPT ![id] = NoEntry]
       \/ /\ ~(k[1] \in feeds /\ entries[id].live) \/ StoreFails
          /\ UNCHANGED <<tombs, entries>>
    /\ tabs' = [tabs EXCEPT ![t] = NoTab]
    /\ UNCHANGED <<feeds, full, polls, jobs, up, transients, restarts>>

Shutdown ==
    /\ up = "running" /\ restarts < MaxRestarts
    /\ up' = "stopping"
    /\ restarts' = restarts + 1
    /\ UNCHANGED <<feeds, full, entries, tombs, polls, jobs, tabs, transients>>

\* goroutines and requests end with the process; the browser's pages do not
Restart ==
    /\ up = "stopping"
    /\ up' = "running"
    /\ polls' = [p \in Pollers |-> NoPoll]
    /\ jobs' = [w \in Scrapers |-> NoJob]
    /\ tabs' = [t \in Tabs |-> IF tabs[t].pc = "page" THEN tabs[t] ELSE NoTab]
    /\ UNCHANGED <<feeds, full, entries, tombs, transients, restarts>>

ScrapeStep(w) == Scrape(w) \/ StoreContent(w) \/ Fail(w) \/ RetryLater(w)

Next ==
    \/ \E p \in Pollers, k \in Keys, h \in Hashes : Dedup(p, k, h)
    \/ \E p \in Pollers : Upsert(p) \/ UpsertFails(p)
    \/ \E w \in Scrapers, id \in Ids : Dispatch(w, id)
    \/ \E id \in Ids : Elapse(id)
    \/ \E w \in Scrapers : ScrapeStep(w)
    \/ \E f \in Feeds, on \in BOOLEAN : SetFullContent(f, on)
    \/ \E f \in Feeds : DeleteFeed(f)
    \/ \E t \in Tabs, id \in Ids : Show(t, id)
    \/ \E t \in Tabs : DeleteRead(t) \/ DeleteTx(t)
    \/ Shutdown
    \/ Restart

Spec == Init /\ [][Next]_vars

(***************************************************************************)
(* Fairness: fetches have a timeout, so scrapes go on; the ticker fires,   *)
(* and a row that is due at every tick gets a worker; a stopped process is *)
(* started again; time passes.                                             *)
(***************************************************************************)
Fairness ==
    /\ \A w \in Scrapers : WF_vars(ScrapeStep(w))
    /\ \A id \in Ids : WF_vars(Elapse(id))
    /\ \A id \in Ids : SF_vars(\E w \in Scrapers : Dispatch(w, id))
    /\ WF_vars(Restart)

FairSpec == Spec /\ Fairness

-----------------------------------------------------------------------------
(* Properties *)

\* Every variable holds a value of its type.
TypeOK ==
    /\ feeds \subseteq Feeds
    /\ full \in [Feeds -> BOOLEAN]
    /\ entries \in [Ids -> Entry]
    /\ tombs \subseteq Keys
    /\ polls \in [Pollers -> Poll]
    /\ jobs \in [Scrapers -> Job]
    /\ tabs \in [Tabs -> Tab]
    /\ up \in {"running", "stopping"}
    /\ transients \in 0..MaxTransient
    /\ restarts \in 0..MaxRestarts

\* A deleted entry stays deleted: no row exists for a tombstoned guid, whenever
\* the deletion falls between a poll's pre-check and its upsert.
TombstonesHold == \A i \in Ids : entries[i].live => entries[i].key \notin tombs

\* Concurrent polls of one feed never store an item twice (UNIQUE(feed_id, guid)
\* is never what stops them).
OneRowPerGuid ==
    \A i, j \in Ids :
        entries[i].live /\ entries[j].live /\ entries[i].key = entries[j].key => i = j

\* A row is scheduled for extraction exactly while it is pending: a pending row
\* without a time would never be listed, and stay pending for ever.
ScheduledWhilePending ==
    \A i \in Ids :
        entries[i].live => (entries[i].state = "pending" <=> entries[i].next # "null")

\* While full content is on, every entry of the feed is queued or settled, also
\* one ingested by a poll that began before the switch.
FullMeansQueued ==
    \A i \in Ids :
        entries[i].live /\ full[entries[i].key[1]] => entries[i].state # "none"

\* A row marked done shows an article, not the feed's excerpt.
DoneShowsArticle ==
    \A i \in Ids : entries[i].live /\ entries[i].state = "done" => entries[i].article

\* Every queued extraction is settled in the end (extracted, failed, cancelled
\* or deleted), although duplicate scrapes may push its attempt count back, and
\* across restarts; hosts do not answer 429 or 5xx for ever (MaxTransient).
ExtractionsSettle ==
    \A i \in Ids : (entries[i].live /\ entries[i].state = "pending")
                      ~> ~(entries[i].live /\ entries[i].state = "pending")
=============================================================================
