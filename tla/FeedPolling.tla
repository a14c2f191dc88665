----------------------------- MODULE FeedPolling -----------------------------
(***************************************************************************)
(* The feeds table and everything that reads a feed row, talks to a server *)
(* for a while and writes the row back: the Poller's workers (PollFeed on  *)
(* a ListDueFeeds snapshot), the web layer's background goroutines         *)
(* (ResolveAndIngest after a subscribe, Refresh after an edit or a click), *)
(* and the web requests that create, edit and delete rows under them.      *)
(*                                                                         *)
(* SQLite runs on one connection, so every store call is one atomic step;  *)
(* between two store calls of one goroutine anything may happen.  A URL is *)
(* a member of a small set with a normal form (normalizeFeedURL); a        *)
(* validator (ETag / Last-Modified) is the set of URLs whose server issued *)
(* it, {} when none is stored; next_check_at is "now" (due) or "later".    *)
(***************************************************************************)
EXTENDS Integers, FiniteSets

CONSTANTS
    URLs,          \* feed addresses
    Norm,          \* normalizeFeedURL, a function on URLs
    RedirectURLs,  \* where a server's permanent (301/308) redirect may lead
    DiscoverURLs,  \* what HTML discovery may find
    EditURLs,      \* addresses the user may type into the edit form
    Workers,       \* the Poller's jobs: rows it has listed, waiting for or held
                   \* by a worker goroutine
    BgOps,         \* slots for the web layer's background goroutines
    Requests,      \* slots for concurrent web requests
    MaxFeeds,      \* bound: subscriptions ever created
    MaxOps,        \* bound: user operations
    MaxRestarts,   \* bound: shutdowns or crashes
    ErrCap,        \* bound: error_count saturates here
    StoreFails     \* may a store call fail (disk full, I/O error, ctx done)?

ASSUME PollingAssumption ==
    /\ URLs # {}
    /\ Norm \in [URLs -> URLs]
    /\ \A u \in URLs : Norm[Norm[u]] = Norm[u]
    /\ RedirectURLs \subseteq URLs /\ DiscoverURLs \subseteq URLs
    /\ EditURLs \subseteq URLs
    /\ Workers \cap BgOps = {}
    /\ MaxFeeds \in Nat /\ MaxOps \in Nat /\ MaxRestarts \in Nat
    /\ ErrCap \in Nat \ {0}
    /\ StoreFails \in BOOLEAN

VARIABLES
    rows,      \* the feeds table, by id
    lastId,    \* sqlite_sequence: ids are AUTOINCREMENT
    pipes,     \* one record per worker / background goroutine
    busy,      \* inflightSet of the web layer
    reqs,      \* web requests between two of their steps
    up,        \* "running" or "stopping" (root context cancelled)
    ops,       \* user operations so far
    restarts   \* shutdowns so far

vars == <<rows, lastId, pipes, busy, reqs, up, ops, restarts>>

Ids   == 1..MaxFeeds
Pipes == Workers \cup BgOps
AnyURL == CHOOSE u \in URLs : TRUE

(***************************************************************************)
(* A row of the feeds table.  sub, moved, healed and own are ghosts: the   *)
(* number of the subscription the row was created for; whether the URL was *)
(* stored by redirect adoption; whether a self-healing poll ever moved the *)
(* row to a discovered URL; whether the last write of next_check_at came   *)
(* from a poll that asked the row's own URL.                               *)
(***************************************************************************)
Row ==
    [live : BOOLEAN, sub : Nat, url : URLs, etag : SUBSET URLs,
     err : 0..ErrCap, next : {"now", "later"}, checked : BOOLEAN,
     ingested : BOOLEAN, moved : BOOLEAN, healed : BOOLEAN, own : BOOLEAN]

NoRow ==
    [live |-> FALSE, sub |-> 0, url |-> AnyURL, etag |-> {}, err |-> 0,
     next |-> "later", checked |-> FALSE, ingested |-> FALSE,
     moved |-> FALSE, healed |-> FALSE, own |-> FALSE]

PCs == {"idle", "load", "fetch", "adopt", "resolve", "seturl", "deldup",
        "ingest", "success", "error", "end"}

\* what a response held: a 304, a feed, HTML, or something the parser rejects
\* (or panics on)
Bodies == {"none", "notmod", "feed", "html", "junk"}

(***************************************************************************)
(* A pipeline: its place in PollFeed / resolveAndIngest, the Feed snapshot *)
(* it works on (id, url, etag, err), the URL it is about to store (to),    *)
(* the response (body, et), and whether it is a self-healing poll.  sub,   *)
(* asked (the URLs its servers answered for) and emits are ghosts.         *)
(***************************************************************************)
Pipe ==
    [pc : PCs, id : Nat, sub : Nat, url : URLs, etag : SUBSET URLs,
     err : 0..ErrCap, to : URLs, body : Bodies, et : SUBSET URLs,
     asked : SUBSET URLs, heal : BOOLEAN, counted : BOOLEAN, emits : Nat]

NoPipe ==
    [pc |-> "idle", id |-> 0, sub |-> 0, url |-> AnyURL, etag |-> {},
     err |-> 0, to |-> AnyURL, body |-> "none", et |-> {}, asked |-> {},
     heal |-> FALSE, counted |-> TRUE, emits |-> 0]

Request ==
    [pc : {"idle", "edit", "spawn"}, id : Nat, op : {"none", "resolve", "load"},
     sub : Nat, url : URLs]

NoRequest == [pc |-> "idle", id |-> 0, op |-> "none", sub |-> 0, url |-> AnyURL]

Init ==
    /\ rows = [i \in Ids |-> NoRow]
    /\ lastId = 0
    /\ pipes = [p \in Pipes |-> NoPipe]
    /\ busy = {}
    /\ reqs = [r \in Requests |-> NoRequest]
    /\ up = "running"
    /\ ops = 0
    /\ restarts = 0

-----------------------------------------------------------------------------
(* The store calls *)

\* fault: no UNIQUE(user_id, feed_url)
URLFree_Always(id, u) == TRUE
\* UNIQUE(user_id, feed_url)
URLFree(id, u) == \A j \in Ids \ {id} : rows[j].live => rows[j].url # u

\* fault: next_check_at is left where the old URL's poll put it
RowWithURL_KeepsSchedule(row, u) ==
    [row EXCEPT !.url = u, !.etag = {}, !.moved = FALSE, !.own = FALSE]
\* fault: the old URL's validators stay
RowWithURL_KeepsEtag(row, u) ==
    [row EXCEPT !.url = u, !.next = "now", !.moved = FALSE, !.own = FALSE]
\* SetFeedURL: no comparison with the caller's snapshot
RowWithURL(row, u) ==
    [row EXCEPT !.url = u, !.etag = {}, !.next = "now", !.moved = FALSE,
                !.own = FALSE]

\* UpdateFeed: compare-and-swap on feed_url
Matches(q) == rows[q.id].live /\ rows[q.id].url = q.url

\* the row UpdateFeed leaves behind for snapshot q with new validators etag
\* and error count err
UpdatedRow(q, etag, err) ==
    IF Matches(q)
    THEN [rows[q.id] EXCEPT
             !.etag = etag, !.err = err, !.next = "later", !.checked = TRUE,
             !.own = Norm[rows[q.id].url] \in q.asked]
    ELSE rows[q.id]

\* the root context is cancelled under a Poller worker: its store calls fail
CtxDone(p) == p \in Workers /\ up = "stopping"
MayFail(p) == StoreFails \/ CtxDone(p)

Snapshot(id) ==
    [NoPipe EXCEPT !.pc = "fetch", !.id = id, !.sub = rows[id].sub,
                   !.url = rows[id].url, !.etag = rows[id].etag,
                   !.err = rows[id].err]

\* the response is of no more use: on to recordError, or out of PollFeed
Failed(q) ==
    [q EXCEPT !.pc = "error", !.to = AnyURL, !.body = "none", !.et = {}]
Finished(q, emits) ==
    [NoPipe EXCEPT !.pc = "end", !.id = q.id, !.sub = q.sub,
                   !.counted = q.counted, !.emits = emits]

SetPipe(p, q) == pipes' = [pipes EXCEPT ![p] = q]
SetRow(id, row) == rows' = [rows EXCEPT ![id] = row]

-----------------------------------------------------------------------------
(* The Poller *)

\* fault: pending rows are left to their resolve
Due_SkipsPending(id) == rows[id].live /\ rows[id].next = "now" /\ rows[id].checked
Due(id) == rows[id].live /\ rows[id].next = "now"

\* dispatch: ListDueFeeds takes a due row's snapshot, which then waits for a
\* worker (at "fetch", like a poll that is slow to start).  The row stays due
\* until the poll records, so a later tick may list it again.
Dispatch(w, id) ==
    /\ up = "running"
    /\ pipes[w].pc = "idle"
    /\ Due(id)
    /\ SetPipe(w, Snapshot(id))
    /\ UNCHANGED <<rows, lastId, busy, reqs, up, ops, restarts>>

\* next_check_at arrives.  A never-checked row was created one MinInterval
\* (5 minutes) out, longer than the 60 s budget of the resolve it was created for.
Elapse(id) ==
    /\ rows[id].live /\ rows[id].next = "later"
    /\ ~rows[id].checked =>
         /\ \A b \in BgOps : pipes[b].id # id
         /\ \A r \in Requests : reqs[r].id # id
    /\ SetRow(id, [rows[id] EXCEPT !.next = "now"])
    /\ UNCHANGED <<lastId, pipes, busy, reqs, up, ops, restarts>>

-----------------------------------------------------------------------------
(* PollFeed *)

\* Refresh: GetFeed, then PollFeed on the fresh row; a deleted row is an error
LoadRefresh(b) ==
    /\ pipes[b].pc = "load"
    /\ \/ /\ rows[pipes[b].id].live
          /\ SetPipe(b, Snapshot(pipes[b].id))
          /\ UNCHANGED busy
       \/ /\ ~rows[pipes[b].id].live \/ StoreFails
          /\ SetPipe(b, NoPipe)
          /\ busy' = busy \ {pipes[b].id}
    /\ UNCHANGED <<rows, lastId, reqs, up, ops, restarts>>

\* what PollFeed does with a 304 or a 200 body once the redirect is dealt with
AfterAdopt(q) ==
    CASE q.body = "notmod" ->
            [q EXCEPT !.pc = "success", !.to = AnyURL, !.body = "none"]
      [] q.body = "feed" ->
            [q EXCEPT !.pc = "ingest", !.to = AnyURL, !.body = "none"]
      [] q.body = "html" /\ q.err > 0 ->
            [q EXCEPT !.pc = "resolve", !.to = AnyURL, !.body = "none",
                      !.et = {}, !.asked = {}, !.heal = TRUE]
      [] OTHER -> Failed(q)

\* the fetch fails (or its context is cancelled at shutdown), or answers with
\* a status that is neither 200 nor 304
FetchFails(p) ==
    /\ pipes[p].pc = "fetch"
    /\ \E cancelled \in BOOLEAN :
         /\ cancelled => p \in Workers /\ up = "stopping"
         /\ SetPipe(p, [Failed(pipes[p]) EXCEPT
                          !.counted = ~cancelled,
                          !.asked = {Norm[pipes[p].url]}])
    /\ UNCHANGED <<rows, lastId, busy, reqs, up, ops, restarts>>

\* a 304 or 200, with validators or without; v is where an entirely permanent
\* redirect chain ended, the requested URL itself when there was none
FetchAnswers(p) ==
    /\ pipes[p].pc = "fetch"
    /\ \E body \in Bodies \ {"none"}, v \in RedirectURLs \cup {pipes[p].url},
          validators \in BOOLEAN :
         LET from == {Norm[pipes[p].url], Norm[v]}
             q == [pipes[p] EXCEPT
                     !.body = body, !.to = v, !.asked = from,
                     !.et = IF validators THEN from ELSE {}]
         IN SetPipe(p, IF v # pipes[p].url
                       THEN [q EXCEPT !.pc = "adopt"] ELSE AfterAdopt(q))
    /\ UNCHANGED <<rows, lastId, busy, reqs, up, ops, restarts>>

\* adoptPermanentRedirect: a conflict, a vanished row or a store error keeps
\* the current URL; the poll goes on either way
Adopt(p) ==
    LET q == pipes[p] IN
    /\ q.pc = "adopt"
    /\ \/ /\ ~CtxDone(p)
          /\ rows[q.id].live /\ URLFree(q.id, q.to)
          /\ SetRow(q.id, [RowWithURL(rows[q.id], q.to) EXCEPT !.moved = TRUE])
          /\ SetPipe(p, AfterAdopt([q EXCEPT !.url = q.to, !.etag = {}]))
       \/ /\ ~(rows[q.id].live /\ URLFree(q.id, q.to)) \/ MayFail(p)
          /\ SetPipe(p, AfterAdopt(q))
          /\ UNCHANGED rows
    /\ UNCHANGED <<lastId, busy, reqs, up, ops, restarts>>

-----------------------------------------------------------------------------
(* resolveAndIngest *)

\* resolveFeed: the URL itself is a feed (maybe permanently moved) or its HTML
\* names one; anything else, a panic included, is recorded as an error
Resolve(p) ==
    LET q == pipes[p] IN
    /\ q.pc = "resolve"
    /\ \/ SetPipe(p, [Failed(q) EXCEPT !.asked = {Norm[q.url]}])
       \/ \E v \in RedirectURLs \cup DiscoverURLs \cup {q.url}, validators \in BOOLEAN :
            SetPipe(p, [q EXCEPT
                          !.pc = IF Norm[v] # q.url THEN "seturl" ELSE "ingest",
                          !.to = IF Norm[v] # q.url THEN Norm[v] ELSE AnyURL,
                          !.asked = {Norm[v]},
                          !.et = IF validators THEN {Norm[v]} ELSE {}])
    /\ UNCHANGED <<rows, lastId, busy, reqs, up, ops, restarts>>

\* the resolved URL differs: SetFeedURL.  The snapshot's validators stay.
SetURL(p) ==
    LET q == pipes[p] IN
    /\ q.pc = "seturl"
    /\ \/ /\ ~CtxDone(p)
          /\ rows[q.id].live /\ URLFree(q.id, q.to)
          /\ SetRow(q.id, [RowWithURL(rows[q.id], q.to) EXCEPT
                             !.healed = @ \/ q.heal])
          /\ SetPipe(p, [q EXCEPT !.pc = "ingest", !.url = q.to, !.to = AnyURL])
       \/ /\ ~CtxDone(p)
          /\ rows[q.id].live /\ ~URLFree(q.id, q.to)
          /\ SetPipe(p, [q EXCEPT !.pc = "deldup", !.to = AnyURL, !.et = {}])
          /\ UNCHANGED rows
       \/ /\ ~rows[q.id].live \/ MayFail(p)
          /\ SetPipe(p, [Failed(q) EXCEPT !.asked = {Norm[q.url]}])
          /\ UNCHANGED rows
    /\ UNCHANGED <<lastId, busy, reqs, up, ops, restarts>>

\* the resolved URL is another row's: delete this one, counted as a success
DeleteDuplicate(p) ==
    LET q == pipes[p] IN
    /\ q.pc = "deldup"
    /\ \/ /\ ~CtxDone(p)
          /\ rows[q.id].live
          /\ SetRow(q.id, NoRow)
          /\ SetPipe(p, Finished(q, q.emits + 1))
       \/ /\ ~rows[q.id].live \/ MayFail(p)
          /\ SetPipe(p, [Failed(q) EXCEPT !.asked = {Norm[q.url]}])
          /\ UNCHANGED rows
    /\ UNCHANGED <<lastId, busy, reqs, up, ops, restarts>>

-----------------------------------------------------------------------------
(* recordSuccess and recordError *)

\* fault: a failed ingest returns early
Ingest_ReturnsEarly(p) ==
    LET q == pipes[p] IN
    /\ q.pc = "ingest"
    /\ \/ SetPipe(p, [q EXCEPT !.pc = "success"])
       \/ SetPipe(p, Finished(q, q.emits))
    /\ UNCHANGED <<rows, lastId, busy, reqs, up, ops, restarts>>

\* ingest: UpsertEntries does nothing when the row has been deleted; a store
\* error or a sanitiser panic goes to recordError
Ingest(p) ==
    LET q == pipes[p] IN
    /\ q.pc = "ingest"
    /\ \/ /\ ~CtxDone(p)
          /\ SetRow(q.id, IF rows[q.id].live
                          THEN [rows[q.id] EXCEPT !.ingested = TRUE]
                          ELSE rows[q.id])
          /\ SetPipe(p, [q EXCEPT !.pc = "success"])
       \/ /\ SetPipe(p, Failed(q))
          /\ UNCHANGED rows
    /\ UNCHANGED <<lastId, busy, reqs, up, ops, restarts>>

\* recordSuccess's UpdateFeed: fresh validators replace the snapshot's, an
\* answer without any keeps them.  A failed write leaves the schedule alone.
RecordSuccess(p) ==
    LET q == pipes[p] IN
    /\ q.pc = "success"
    /\ \/ /\ ~CtxDone(p)
          /\ SetRow(q.id, UpdatedRow(q, IF q.et # {} THEN q.et ELSE q.etag, 0))
       \/ MayFail(p) /\ UNCHANGED rows
    /\ SetPipe(p, Finished(q, q.emits + 1))
    /\ UNCHANGED <<lastId, busy, reqs, up, ops, restarts>>

\* recordErrorEmit: the snapshot's error count plus one, its own validators; a
\* cancelled context is detached for this write
RecordError(p) ==
    LET q == pipes[p] IN
    /\ q.pc = "error"
    /\ \/ SetRow(q.id, UpdatedRow(q, q.etag,
                           IF q.err < ErrCap THEN q.err + 1 ELSE ErrCap))
       \/ StoreFails /\ UNCHANGED rows
    /\ SetPipe(p, Finished(q, IF q.counted THEN q.emits + 1 ELSE q.emits))
    /\ UNCHANGED <<lastId, busy, reqs, up, ops, restarts>>

\* the deferred calls: ObserveFeedPoll, and busy.done for a background op
End(p) ==
    /\ pipes[p].pc = "end"
    /\ SetPipe(p, NoPipe)
    /\ busy' = IF p \in BgOps THEN busy \ {pipes[p].id} ELSE busy
    /\ UNCHANGED <<rows, lastId, reqs, up, ops, restarts>>

-----------------------------------------------------------------------------
(* The web layer *)

UserOp == up = "running" /\ ops < MaxOps /\ ops' = ops + 1

\* the row a new subscription starts as: due one MinInterval from now
NewRow(sub, u) ==
    [NoRow EXCEPT !.live = TRUE, !.sub = sub, !.url = u]

\* fault: the id before the insert
NextId_Before == lastId
\* fault: max(rowid) + 1, which recycles the id of a deleted newest row
NextId_Recycled ==
    CHOOSE n \in 1..MaxFeeds + 1 :
        /\ \A i \in Ids : rows[i].live => i < n
        /\ n = 1 \/ rows[n - 1].live
\* AUTOINCREMENT: never an id that was used before
NextId == lastId + 1

\* subscribe: CreateSubscription inserts the normalised URL, unless it is taken
Subscribe(r, u) ==
    /\ UserOp
    /\ reqs[r].pc = "idle"
    /\ lastId < MaxFeeds
    /\ URLFree(0, Norm[u])
    /\ lastId' = lastId + 1
    /\ SetRow(NextId, NewRow(lastId + 1, Norm[u]))
    /\ reqs' = [reqs EXCEPT ![r] =
                  [pc |-> "spawn", id |-> NextId, op |-> "resolve",
                   sub |-> lastId + 1, url |-> Norm[u]]]
    /\ UNCHANGED <<pipes, busy, up, restarts>>

\* editFeed reads the row; only an edit of the URL matters here
EditRead(r, id, u) ==
    /\ UserOp
    /\ reqs[r].pc = "idle"
    /\ rows[id].live /\ rows[id].url # Norm[u]
    /\ reqs' = [reqs EXCEPT ![r] =
                  [pc |-> "edit", id |-> id, op |-> "load",
                   sub |-> rows[id].sub, url |-> Norm[u]]]
    /\ UNCHANGED <<rows, lastId, pipes, busy, up, restarts>>

\* EditFeed's SetFeedURL; on success the handler goes on to startRefresh, unless
\* one of EditFeed's later writes (title, category, full content) fails
EditSetURL(r) ==
    LET e == reqs[r] IN
    /\ e.pc = "edit"
    /\ \/ /\ rows[e.id].live /\ URLFree(e.id, e.url)
          /\ SetRow(e.id, RowWithURL(rows[e.id], e.url))
          /\ \/ reqs' = [reqs EXCEPT ![r].pc = "spawn"]
             \/ StoreFails /\ reqs' = [reqs EXCEPT ![r] = NoRequest]
       \/ /\ ~(rows[e.id].live /\ URLFree(e.id, e.url)) \/ StoreFails
          /\ reqs' = [reqs EXCEPT ![r] = NoRequest]
          /\ UNCHANGED rows
    /\ UNCHANGED <<lastId, pipes, busy, up, ops, restarts>>

\* refresh: the handler goes straight to startRefresh.  With the id of a deleted
\* row it comes to nothing (LoadRefresh), so only live rows are asked for.
Refresh(r, id) ==
    /\ UserOp
    /\ reqs[r].pc = "idle"
    /\ rows[id].live
    /\ reqs' = [reqs EXCEPT ![r] =
                  [NoRequest EXCEPT !.pc = "spawn", !.id = id, !.op = "load",
                                    !.sub = rows[id].sub]]
    /\ UNCHANGED <<rows, lastId, pipes, busy, up, restarts>>

\* startBackground: a goroutine per feed at most; a second request is dropped
Spawn(r) ==
    LET e == reqs[r] IN
    /\ e.pc = "spawn"
    /\ \/ /\ e.id \in busy
          /\ UNCHANGED <<pipes, busy>>
       \/ /\ e.id \notin busy
          /\ busy' = busy \cup {e.id}
          /\ \E b \in BgOps :
               /\ pipes[b].pc = "idle"
               /\ SetPipe(b, [NoPipe EXCEPT !.pc = e.op, !.id = e.id,
                                            !.sub = e.sub, !.url = e.url])
    /\ reqs' = [reqs EXCEPT ![r] = NoRequest]
    /\ UNCHANGED <<rows, lastId, up, ops, restarts>>

\* deleteFeed: the row and, by cascade, its entries and tombstones
DeleteFeed(id) ==
    /\ UserOp
    /\ rows[id].live
    /\ SetRow(id, NoRow)
    /\ UNCHANGED <<lastId, pipes, busy, reqs, up, restarts>>

-----------------------------------------------------------------------------
(* The process *)

\* SIGTERM cancels the root context: no new dispatches, no new requests
Shutdown ==
    /\ up = "running" /\ restarts < MaxRestarts
    /\ up' = "stopping"
    /\ restarts' = restarts + 1
    /\ UNCHANGED <<rows, lastId, pipes, busy, reqs, ops>>

\* the process ends, drained or not, and is started again on the same file
Restart ==
    /\ up = "stopping"
    /\ up' = "running"
    /\ pipes' = [p \in Pipes |-> NoPipe]
    /\ busy' = {}
    /\ reqs' = [r \in Requests |-> NoRequest]
    /\ UNCHANGED <<rows, lastId, ops, restarts>>

PipeStep(p) ==
    \/ FetchFails(p) \/ FetchAnswers(p) \/ Adopt(p)
    \/ Resolve(p) \/ SetURL(p) \/ DeleteDuplicate(p)
    \/ Ingest(p) \/ RecordSuccess(p) \/ RecordError(p) \/ End(p)

Next ==
    \/ \E w \in Workers, id \in Ids : Dispatch(w, id)
    \/ \E id \in Ids : Elapse(id)
    \/ \E b \in BgOps : LoadRefresh(b)
    \/ \E p \in Pipes : PipeStep(p)
    \/ \E r \in Requests, u \in URLs : Subscribe(r, u)
    \/ \E r \in Requests, id \in Ids, u \in EditURLs : EditRead(r, id, u)
    \/ \E r \in Requests : EditSetURL(r) \/ Spawn(r)
    \/ \E r \in Requests, id \in Ids : Refresh(r, id)
    \/ \E id \in Ids : DeleteFeed(id)
    \/ Shutdown
    \/ Restart

Spec == Init /\ [][Next]_vars

(***************************************************************************)
(* Fairness: goroutines run, fetches and web requests end (60 s contexts,  *)
(* HTTP timeouts), a stopped process is started again, time passes.  The   *)
(* Poller's dispatch takes due rows in next_check_at order, so a row that  *)
(* is due again and again gets a worker: strong fairness per row.          *)
(***************************************************************************)
Fairness ==
    /\ \A p \in Pipes : WF_vars(PipeStep(p))
    /\ \A b \in BgOps : WF_vars(LoadRefresh(b))
    /\ \A r \in Requests : WF_vars(EditSetURL(r) \/ Spawn(r))
    /\ \A id \in Ids : WF_vars(Elapse(id))
    /\ \A id \in Ids : SF_vars(\E w \in Workers : Dispatch(w, id))
    /\ WF_vars(Restart)

FairSpec == Spec /\ Fairness

-----------------------------------------------------------------------------
(* Properties *)

\* Every variable holds a value of its type.
TypeOK ==
    /\ rows \in [Ids -> Row]
    /\ lastId \in 0..MaxFeeds
    /\ pipes \in [Pipes -> Pipe]
    /\ busy \subseteq Ids
    /\ reqs \in [Requests -> Request]
    /\ up \in {"running", "stopping"}
    /\ ops \in 0..MaxOps
    /\ restarts \in 0..MaxRestarts

Active(p) == pipes[p].pc # "idle"

\* A goroutine or a request that outlives the row it was started for never
\* writes to another subscription's row: whatever it changes belongs to the
\* subscription its snapshot was taken from (feed ids are AUTOINCREMENT).
NoCrossSubscriptionWrite ==
    [][/\ \A p \in Pipes :
            (Active(p) /\ pipes'[p] # pipes[p] /\ rows' # rows)
               => rows[pipes[p].id].sub = pipes[p].sub
       /\ \A r \in Requests :
            (reqs[r].pc = "edit" /\ reqs'[r] # reqs[r] /\ rows' # rows)
               => rows[reqs[r].id].sub = reqs[r].sub]_vars

\* The conditional-GET validators stored with a feed were issued for the URL
\* stored with it (UpdateFeed's compare-and-swap, SetFeedURL's clearing): edits,
\* adopted redirects and subscribe-time discovery never mix them, in whatever
\* order they interleave with polls.  Only a self-healing poll may: it keeps its
\* snapshot's validators when it moves the row to a discovered URL.
ValidatorsBelongUnlessHealed ==
    \A i \in Ids :
        rows[i].live /\ rows[i].etag # {} /\ ~rows[i].healed
            => Norm[rows[i].url] \in rows[i].etag

\* Once checked, a row is only ever put off to a later check by a poll that
\* asked the row's current URL; a poll of an address the user has since
\* replaced cannot delay the first fetch of the new one.
PostponedByOwnPoll ==
    \A i \in Ids :
        rows[i].live /\ rows[i].checked /\ rows[i].next = "later"
            => rows[i].own

\* Every poll attempt emits exactly one FeedPollDone for its one
\* ObserveFeedPoll sample, self-healed and duplicate-deleting attempts
\* included, and neither when it was cancelled by shutdown.
MetricsPaired ==
    \A p \in Pipes :
        pipes[p].pc = "end" => pipes[p].emits = IF pipes[p].counted THEN 1 ELSE 0

\* Two live rows hold addresses with the same normal form only if one of the two
\* was stored by redirect adoption, which does not normalise what it stores.
DuplicatesOnlyByRedirect ==
    \A i, j \in Ids :
        rows[i].live /\ rows[j].live /\ Norm[rows[i].url] = Norm[rows[j].url]
            => i = j \/ rows[i].moved \/ rows[j].moved

\* The row that a conflicting resolve deletes is a just-created duplicate: it
\* never held entries.
OnlyEmptyRowsAutoDeleted ==
    [][\A p \in Pipes :
         (pipes[p].pc = "deldup" /\ pipes'[p].pc = "end")
            => ~rows[pipes[p].id].ingested]_vars

\* A poll stores a new URL only over the URL it was started with: an address
\* the user typed meanwhile is not overwritten.
EditSurvivesPoll ==
    [][\A p \in Pipes :
         (pipes[p].pc \in {"adopt", "seturl"} /\ pipes'[p] # pipes[p]
            /\ rows'[pipes[p].id].url # rows[pipes[p].id].url)
           => rows[pipes[p].id].url = pipes[p].url]_vars

\* Every address a row is given, by subscribing, editing, redirect or
\* discovery, is eventually asked by a poll that records its outcome, unless
\* the feed is deleted: also when the process dies in between.
EveryAddressGetsPolled ==
    \A i \in Ids : (rows[i].live /\ ~rows[i].own) ~> (~rows[i].live \/ rows[i].own)
=============================================================================
