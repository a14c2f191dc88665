-------------------------- MODULE FeedPollingProofs --------------------------
(***************************************************************************)
(* FeedPolling's safety properties for every set of URLs, workers,         *)
(* background slots and requests and for every bound.                      *)
(*                                                                         *)
(* The inductive invariant says of a pipeline in flight what UpdateFeed's  *)
(* compare-and-swap relies on: whatever the pipeline would write (the      *)
(* validators of its answer or of its snapshot, a later check) fits the    *)
(* URL it compares with.                                                   *)
(***************************************************************************)
EXTENDS FeedPolling, TLAPS

RowFit(row, i) ==
    row.live =>
        /\ row.sub = i /\ i <= lastId
        /\ row.etag = {} \/ row.healed \/ Norm[row.url] \in row.etag
        /\ row.checked /\ row.next = "later" => row.own

\* A pipeline works for a subscription that was created, and the pieces of its
\* answer fit the URL they will be written under.
PipeFit(q) ==
    /\ q.id \in Ids /\ q.id <= lastId /\ q.sub = q.id
    /\ q.pc \in {"adopt", "ingest", "success", "error"} => Norm[q.url] \in q.asked
    /\ q.pc \in {"adopt", "seturl"} => Norm[q.to] \in q.asked
    /\ q.pc \in {"adopt", "ingest", "success"} => q.et = {} \/ Norm[q.url] \in q.et
    /\ q.pc \in {"adopt", "seturl"} => q.et = {} \/ Norm[q.to] \in q.et
    /\ q.pc \in {"resolve", "seturl"} /\ ~q.heal => q.etag = {}

\* The validators of a snapshot fit its URL, unless its row was healed or is gone.
SnapFit(q, row) ==
    q.etag = {} \/ Norm[q.url] \in q.etag \/ row.healed \/ ~row.live

ReqFit(e) ==
    e.pc # "idle" =>
        /\ e.id \in Ids /\ e.id <= lastId /\ e.sub = e.id
        /\ e.op \in {"resolve", "load"}

RowsInv == \A i \in Ids : RowFit(rows[i], i)
PipesInv ==
    \A p \in Pipes :
        Active(p) => PipeFit(pipes[p]) /\ SnapFit(pipes[p], rows[pipes[p].id])
ReqsInv == \A r \in Requests : ReqFit(reqs[r])

IInv == TypeOK /\ RowsInv /\ PipesInv /\ ReqsInv

-----------------------------------------------------------------------------
(* The blank records have their types. *)
LEMMA Blanks ==
    /\ AnyURL \in URLs /\ NoRow \in Row /\ NoPipe \in Pipe /\ NoRequest \in Request
    /\ NoPipe.pc = "idle" /\ NoPipe.etag = {} /\ ~NoRow.live /\ NoRequest.pc = "idle"
<1>1. AnyURL \in URLs
  BY PollingAssumption DEF AnyURL
<1>2. NoRow \in Row
  BY <1>1, PollingAssumption DEF NoRow, Row
<1>3. NoPipe \in Pipe
  BY <1>1, PollingAssumption DEF NoPipe, Pipe, PCs, Bodies
<1>4. NoRequest \in Request
  BY <1>1 DEF NoRequest, Request
<1>5. NoPipe.pc = "idle" /\ NoPipe.etag = {} /\ ~NoRow.live /\ NoRequest.pc = "idle"
  BY DEF NoPipe, NoRow, NoRequest
<1>. QED  BY <1>1, <1>2, <1>3, <1>4, <1>5

(* A step of pipeline p that writes no row keeps the invariant if what p      *)
(* becomes fits, or is idle.                                                  *)
LEMMA PipeOnly ==
    ASSUME IInv, NEW p \in Pipes, NEW q \in Pipe,
           pipes' = [pipes EXCEPT ![p] = q],
           PipeFit(q), SnapFit(q, rows[q.id]),
           busy' \subseteq Ids,
           UNCHANGED <<rows, lastId, reqs, up, ops, restarts>>
    PROVE  IInv'
<1>1. TypeOK'
  BY DEF IInv, TypeOK
<1>2. RowsInv'
  BY DEF IInv, RowsInv, RowFit
<1>3. ReqsInv'
  BY DEF IInv, ReqsInv, ReqFit
<1>4. PipesInv'
  <2> SUFFICES ASSUME NEW x \in Pipes, Active(x)'
               PROVE  (PipeFit(pipes[x]) /\ SnapFit(pipes[x], rows[pipes[x].id]))'
    BY DEF PipesInv
  <2>1. CASE x = p
    BY <2>1 DEF IInv, TypeOK, Active, PipeFit, SnapFit
  <2>2. CASE x # p
    BY <2>2 DEF IInv, TypeOK, PipesInv, Active, PipeFit, SnapFit
  <2>. QED  BY <2>1, <2>2
<1>. QED  BY <1>1, <1>2, <1>3, <1>4 DEF IInv

LEMMA PipeIdle ==
    ASSUME IInv, NEW p \in Pipes,
           pipes' = [pipes EXCEPT ![p] = NoPipe],
           busy' \subseteq Ids,
           UNCHANGED <<rows, lastId, reqs, up, ops, restarts>>
    PROVE  IInv'
<1>1. TypeOK'
  BY Blanks DEF IInv, TypeOK
<1>2. RowsInv'
  BY DEF IInv, RowsInv, RowFit
<1>3. ReqsInv'
  BY DEF IInv, ReqsInv, ReqFit
<1>4. PipesInv'
  BY Blanks DEF IInv, TypeOK, PipesInv, Active, PipeFit, SnapFit
<1>. QED  BY <1>1, <1>2, <1>3, <1>4 DEF IInv

(* The step of a pipeline, or of a request, that also writes one existing     *)
(* row: the row may only go, stay the same subscription, and stay healed.     *)
LEMMA RowKept ==
    ASSUME IInv, NEW i \in Ids, NEW row \in Row,
           rows' = [rows EXCEPT ![i] = row],
           row.live => rows[i].live /\ (rows[i].healed => row.healed),
           RowFit(row, i),
           UNCHANGED lastId
    PROVE  /\ rows' \in [Ids -> Row]
           /\ RowsInv'
           /\ \A q : q.id \in Ids /\ SnapFit(q, rows[q.id]) => SnapFit(q, rows'[q.id])
<1>1. rows' \in [Ids -> Row]
  BY DEF IInv, TypeOK
<1>2. RowsInv'
  <2> SUFFICES ASSUME NEW j \in Ids PROVE RowFit(rows[j], j)'
    BY DEF RowsInv
  <2>1. CASE j = i
    BY <2>1 DEF IInv, TypeOK, RowFit
  <2>2. CASE j # i
    BY <2>2 DEF IInv, TypeOK, RowsInv, RowFit
  <2>. QED  BY <2>1, <2>2
<1>3. \A q : q.id \in Ids /\ SnapFit(q, rows[q.id]) => SnapFit(q, rows'[q.id])
  BY DEF IInv, TypeOK, SnapFit
<1>. QED  BY <1>1, <1>2, <1>3

LEMMA PipeAndRow ==
    ASSUME IInv, NEW p \in Pipes, Active(p), NEW q \in Pipe, NEW row \in Row,
           rows' = [rows EXCEPT ![pipes[p].id] = row],
           pipes' = [pipes EXCEPT ![p] = q],
           row.live => rows[pipes[p].id].live /\ (rows[pipes[p].id].healed => row.healed),
           RowFit(row, pipes[p].id),
           q.id = pipes[p].id, PipeFit(q), SnapFit(q, row),
           UNCHANGED <<lastId, busy, reqs, up, ops, restarts>>
    PROVE  IInv'
<1>1. pipes[p].id \in Ids
  BY DEF IInv, PipesInv, PipeFit
<1>2. /\ rows' \in [Ids -> Row]
      /\ RowsInv'
      /\ \A x : x.id \in Ids /\ SnapFit(x, rows[x.id]) => SnapFit(x, rows'[x.id])
  BY <1>1, RowKept
<1>3. TypeOK'
  BY <1>2 DEF IInv, TypeOK
<1>4. ReqsInv'
  BY DEF IInv, ReqsInv, ReqFit
<1>5. PipesInv'
  <2> SUFFICES ASSUME NEW x \in Pipes, Active(x)'
               PROVE  (PipeFit(pipes[x]) /\ SnapFit(pipes[x], rows[pipes[x].id]))'
    BY DEF PipesInv
  <2>1. CASE x = p
    BY <2>1, <1>1 DEF IInv, TypeOK, PipeFit, SnapFit
  <2>2. CASE x # p
    <3>1. pipes'[x] = pipes[x] /\ Active(x)
      BY <2>2 DEF IInv, TypeOK, Active
    <3>2. PipeFit(pipes[x]) /\ SnapFit(pipes[x], rows[pipes[x].id])
      BY <3>1 DEF IInv, PipesInv
    <3>3. SnapFit(pipes[x], rows'[pipes[x].id])
      BY <3>2, <1>2 DEF PipeFit
    <3>. QED  BY <3>1, <3>2, <3>3 DEF PipeFit, SnapFit
  <2>. QED  BY <2>1, <2>2
<1>. QED  BY <1>2, <1>3, <1>4, <1>5 DEF IInv

-----------------------------------------------------------------------------
(* What the pieces of the actions yield. *)

LEMMA FailedFit ==
    ASSUME NEW q \in Pipe
    PROVE  /\ Failed(q) \in Pipe
           /\ Failed(q).pc = "error"
           /\ Failed(q).id = q.id /\ Failed(q).sub = q.sub
           /\ Failed(q).url = q.url /\ Failed(q).etag = q.etag
           /\ Failed(q).asked = q.asked
           /\ Failed(q).et = {}
  BY Blanks DEF Failed, Pipe, PCs, Bodies

LEMMA SnapshotFit ==
    ASSUME NEW id \in Ids, rows[id] \in Row, RowFit(rows[id], id), rows[id].live
    PROVE  /\ Snapshot(id) \in Pipe /\ Snapshot(id).id = id
           /\ PipeFit(Snapshot(id)) /\ SnapFit(Snapshot(id), rows[id])
<1> DEFINE s == Snapshot(id)
<1>1. s.pc = "fetch" /\ s.id = id /\ s.sub = rows[id].sub
  BY DEF Snapshot, NoPipe
<1>2. s.url = rows[id].url /\ s.etag = rows[id].etag
  BY DEF Snapshot, NoPipe
<1>3. s \in Pipe
  <2>1. id \in Nat /\ rows[id].sub \in Nat /\ rows[id].url \in URLs
        /\ rows[id].etag \in SUBSET URLs /\ rows[id].err \in 0..ErrCap
    BY DEF Ids, Row
  <2>. QED  BY <2>1, Blanks DEF Snapshot, NoPipe, Pipe, PCs, Bodies
<1>. HIDE DEF s
<1>4. PipeFit(s) /\ SnapFit(s, rows[id])
  BY <1>1, <1>2 DEF PipeFit, SnapFit, RowFit
<1>. QED  BY <1>1, <1>3, <1>4 DEF s

LEMMA FinishedFit ==
    ASSUME NEW q \in Pipe, PipeFit(q), NEW n \in Nat, NEW row
    PROVE  /\ Finished(q, n) \in Pipe /\ Finished(q, n).id = q.id
           /\ PipeFit(Finished(q, n)) /\ SnapFit(Finished(q, n), row)
<1> DEFINE f == Finished(q, n)
<1>1. f.pc = "end" /\ f.id = q.id /\ f.sub = q.sub /\ f.etag = {}
  BY DEF Finished, NoPipe
<1>2. f \in Pipe
  <2>1. q.id \in Nat /\ q.sub \in Nat /\ q.counted \in BOOLEAN
    BY DEF Pipe
  <2>. QED  BY <2>1, Blanks, PollingAssumption DEF Finished, NoPipe, Pipe, PCs, Bodies
<1>. HIDE DEF f
<1>3. PipeFit(f) /\ SnapFit(f, row)
  BY <1>1 DEF PipeFit, SnapFit
<1>. QED  BY <1>1, <1>2, <1>3 DEF f

LEMMA AfterAdoptFit ==
    ASSUME NEW q \in Pipe, q.id \in Ids, q.id <= lastId, q.sub = q.id,
           Norm[q.url] \in q.asked, q.et = {} \/ Norm[q.url] \in q.et,
           NEW row, SnapFit(q, row)
    PROVE  /\ AfterAdopt(q) \in Pipe /\ AfterAdopt(q).id = q.id
           /\ PipeFit(AfterAdopt(q)) /\ SnapFit(AfterAdopt(q), row)
<1>1. CASE q.body = "notmod"
  BY <1>1, Blanks DEF AfterAdopt, Pipe, PCs, Bodies, PipeFit, SnapFit
<1>2. CASE q.body = "feed"
  BY <1>2, Blanks DEF AfterAdopt, Pipe, PCs, Bodies, PipeFit, SnapFit
<1>3. CASE q.body = "html" /\ q.err > 0
  BY <1>3, Blanks DEF AfterAdopt, Pipe, PCs, Bodies, PipeFit, SnapFit
<1>4. CASE q.body \notin {"notmod", "feed"} /\ ~(q.body = "html" /\ q.err > 0)
  <2>1. AfterAdopt(q) = Failed(q)
    BY <1>4 DEF AfterAdopt
  <2>. QED  BY <2>1, FailedFit DEF PipeFit, SnapFit
<1>. QED  BY <1>1, <1>2, <1>3, <1>4

(* An active pipeline's own facts. *)
LEMMA PipeFacts ==
    ASSUME IInv, NEW p \in Pipes, Active(p)
    PROVE  /\ pipes[p] \in Pipe /\ pipes[p].id \in Ids /\ rows[pipes[p].id] \in Row
           /\ PipeFit(pipes[p]) /\ SnapFit(pipes[p], rows[pipes[p].id])
           /\ RowFit(rows[pipes[p].id], pipes[p].id)
           /\ Norm[pipes[p].url] \in URLs
  BY PollingAssumption DEF IInv, TypeOK, PipesInv, PipeFit, RowsInv, Pipe

-----------------------------------------------------------------------------
(* One lemma per action. *)

LEMMA DispatchKeeps ==
    ASSUME IInv, NEW w \in Workers, NEW id \in Ids, Dispatch(w, id)
    PROVE  IInv'
<1>1. rows[id] \in Row /\ RowFit(rows[id], id) /\ rows[id].live /\ w \in Pipes
  BY DEF Dispatch, Due, IInv, TypeOK, RowsInv, Pipes
<1>2. busy' \subseteq Ids
  BY DEF Dispatch, IInv, TypeOK
<1>. QED
  BY <1>1, <1>2, Blanks, SnapshotFit, PipeOnly DEF Dispatch, SetPipe

LEMMA LoadRefreshKeeps ==
    ASSUME IInv, NEW b \in BgOps, LoadRefresh(b)
    PROVE  IInv'
<1>1. b \in Pipes /\ Active(b)
  BY DEF Pipes, LoadRefresh, Active
<1>2. busy' \subseteq Ids
  BY DEF LoadRefresh, IInv, TypeOK
<1>3. CASE SetPipe(b, NoPipe)
  BY <1>1, <1>2, <1>3, PipeIdle DEF LoadRefresh, SetPipe
<1>4. CASE rows[pipes[b].id].live /\ SetPipe(b, Snapshot(pipes[b].id))
  BY <1>1, <1>2, <1>4, PipeFacts, SnapshotFit, PipeOnly DEF LoadRefresh, SetPipe
<1>. QED  BY <1>3, <1>4 DEF LoadRefresh

LEMMA FetchFailsKeeps ==
    ASSUME IInv, NEW p \in Pipes, FetchFails(p)
    PROVE  IInv'
<1>1. Active(p) /\ busy' \subseteq Ids
  BY DEF FetchFails, Active, IInv, TypeOK
<1>2. PICK c \in BOOLEAN :
        SetPipe(p, [Failed(pipes[p]) EXCEPT !.counted = ~c, !.asked = {Norm[pipes[p].url]}])
  BY DEF FetchFails
<1> DEFINE d == ~c
           f == Failed(pipes[p])
           q == [f EXCEPT !.counted = d, !.asked = {Norm[pipes[p].url]}]
<1>. d \in BOOLEAN
  OBVIOUS
<1>6. /\ f \in Pipe /\ f.pc = "error" /\ f.id = pipes[p].id /\ f.sub = pipes[p].sub
      /\ f.url = pipes[p].url /\ f.etag = pipes[p].etag
  BY <1>1, PipeFacts, FailedFit
<1>. HIDE DEF d, f
<1>3. /\ q \in Pipe /\ q.id = pipes[p].id /\ q.sub = pipes[p].sub /\ q.pc = "error"
      /\ q.url = pipes[p].url /\ q.etag = pipes[p].etag /\ q.asked = {Norm[pipes[p].url]}
  BY <1>1, <1>6, PipeFacts DEF Pipe
<1>5. SetPipe(p, q)
  BY <1>2 DEF d, f
<1>. HIDE DEF q
<1>4. PipeFit(q) /\ SnapFit(q, rows[q.id])
  BY <1>1, <1>3, PipeFacts DEF PipeFit, SnapFit
<1>. QED  BY <1>1, <1>3, <1>4, <1>5, PipeOnly DEF FetchFails, SetPipe

LEMMA FetchAnswersKeeps ==
    ASSUME IInv, NEW p \in Pipes, FetchAnswers(p)
    PROVE  IInv'
<1>1. Active(p) /\ busy' \subseteq Ids /\ pipes[p].pc = "fetch"
  BY DEF FetchAnswers, Active, IInv, TypeOK
<1> DEFINE from(v) == {Norm[pipes[p].url], Norm[v]}
           ans(body, v, e) == [pipes[p] EXCEPT !.body = body, !.to = v,
                                 !.asked = from(v), !.et = e]
<1>2. PICK body \in Bodies \ {"none"}, v \in RedirectURLs \cup {pipes[p].url}, val \in BOOLEAN :
        SetPipe(p, LET q == ans(body, v, IF val THEN from(v) ELSE {})
                   IN IF v # pipes[p].url THEN [q EXCEPT !.pc = "adopt"] ELSE AfterAdopt(q))
  BY DEF FetchAnswers
<1> DEFINE z == pipes[p]
           s == from(v)
           e == IF val THEN s ELSE {}
           q == [z EXCEPT !.body = body, !.to = v, !.asked = s, !.et = e]
<1>3. v \in URLs /\ Norm[v] \in URLs /\ body \in Bodies
  BY <1>1, PipeFacts, PollingAssumption DEF Pipe
<1>4. /\ s \in SUBSET URLs /\ Norm[v] \in s /\ Norm[z.url] \in s
      /\ z \in Pipe /\ z.pc = "fetch" /\ z = pipes[p]
  BY <1>1, <1>3, PipeFacts
<1>6. SetPipe(p, IF v # pipes[p].url THEN [q EXCEPT !.pc = "adopt"] ELSE AfterAdopt(q))
  BY <1>2
<1>. HIDE DEF s, z
<1>10. e \in SUBSET URLs /\ (e = {} \/ e = s)
  BY <1>4
<1>. HIDE DEF e
<1>5. /\ q \in Pipe /\ q.pc = "fetch" /\ q.id = z.id /\ q.sub = z.sub
      /\ q.url = z.url /\ q.etag = z.etag /\ q.heal = z.heal
      /\ q.to = v /\ q.asked = s /\ q.et = e
  BY <1>3, <1>4, <1>10 DEF Pipe
<1>. HIDE DEF q
<1>7. q.id \in Ids /\ q.id <= lastId /\ q.sub = q.id /\ SnapFit(q, rows[q.id])
  BY <1>1, <1>4, <1>5, PipeFacts DEF PipeFit, SnapFit
<1>8. CASE v # pipes[p].url
  <2> DEFINE a == [q EXCEPT !.pc = "adopt"]
  <2>1. /\ a \in Pipe /\ a.pc = "adopt" /\ a.id = q.id /\ a.sub = q.sub /\ a.url = q.url
        /\ a.etag = q.etag /\ a.to = q.to /\ a.asked = q.asked /\ a.et = q.et
    BY <1>5 DEF Pipe, PCs
  <2>2. SetPipe(p, a)
    BY <1>6, <1>8
  <2>. HIDE DEF a
  <2>3. PipeFit(a) /\ SnapFit(a, rows[a.id])
    BY <1>4, <1>5, <1>7, <1>10, <2>1 DEF PipeFit, SnapFit
  <2>. QED  BY <1>1, <2>1, <2>2, <2>3, PipeOnly DEF FetchAnswers, SetPipe
<1>9. CASE v = pipes[p].url
  <2> DEFINE a == AfterAdopt(q)
  <2>1. Norm[q.url] \in q.asked /\ (q.et = {} \/ Norm[q.url] \in q.et)
    BY <1>4, <1>5, <1>10
  <2>2. a \in Pipe /\ a.id = q.id /\ PipeFit(a) /\ SnapFit(a, rows[q.id])
    BY <1>5, <1>7, <2>1, AfterAdoptFit
  <2>3. SetPipe(p, a)
    BY <1>6, <1>9
  <2>. HIDE DEF a
  <2>. QED  BY <1>1, <2>2, <2>3, PipeOnly DEF FetchAnswers, SetPipe
<1>. QED  BY <1>8, <1>9

(* What SetFeedURL leaves behind fits: no validators, due now. *)
LEMMA RowWithURLFit ==
    ASSUME NEW row \in Row, NEW u \in URLs, NEW i \in Ids, RowFit(row, i)
    PROVE  /\ RowWithURL(row, u) \in Row
           /\ RowWithURL(row, u).live = row.live
           /\ RowWithURL(row, u).sub = row.sub
           /\ RowWithURL(row, u).healed = row.healed
           /\ RowWithURL(row, u).etag = {}
           /\ RowWithURL(row, u).next = "now"
           /\ RowFit(RowWithURL(row, u), i)
<1> DEFINE n == RowWithURL(row, u)
<1>1. /\ n \in Row /\ n.live = row.live /\ n.sub = row.sub /\ n.healed = row.healed
      /\ n.etag = {} /\ n.next = "now"
  BY DEF RowWithURL, Row
<1>. HIDE DEF n
<1>2. RowFit(n, i)
  BY <1>1 DEF RowFit
<1>. QED  BY <1>1, <1>2 DEF n

LEMMA AdoptKeeps ==
    ASSUME IInv, NEW p \in Pipes, Adopt(p)
    PROVE  IInv'
<1> DEFINE q == pipes[p]
<1>1. Active(p) /\ q.pc = "adopt" /\ busy' \subseteq Ids /\ q.to \in URLs
  BY DEF Adopt, Active, IInv, TypeOK, Pipe
<1>2. /\ q \in Pipe /\ q.id \in Ids /\ q.id <= lastId /\ q.sub = q.id /\ rows[q.id] \in Row
      /\ Norm[q.url] \in q.asked /\ Norm[q.to] \in q.asked
      /\ (q.et = {} \/ Norm[q.url] \in q.et) /\ (q.et = {} \/ Norm[q.to] \in q.et)
      /\ SnapFit(q, rows[q.id]) /\ RowFit(rows[q.id], q.id)
  BY <1>1, PipeFacts DEF PipeFit
<1>3. CASE /\ rows[q.id].live
           /\ SetRow(q.id, [RowWithURL(rows[q.id], q.to) EXCEPT !.moved = TRUE])
           /\ SetPipe(p, AfterAdopt([q EXCEPT !.url = q.to, !.etag = {}]))
  <2> DEFINE n == RowWithURL(rows[q.id], q.to)
             row == [n EXCEPT !.moved = TRUE]
             t == [q EXCEPT !.url = q.to, !.etag = {}]
             a == AfterAdopt(t)
  <2>1. n \in Row /\ n.live = rows[q.id].live /\ n.sub = rows[q.id].sub
        /\ n.healed = rows[q.id].healed /\ n.etag = {} /\ n.next = "now"
    BY <1>1, <1>2, RowWithURLFit
  <2>2. rows' = [rows EXCEPT ![q.id] = row]
    BY <1>3 DEF SetRow
  <2>. HIDE DEF n
  <2>3. row \in Row /\ row.live = n.live /\ row.sub = n.sub /\ row.healed = n.healed
        /\ row.etag = {} /\ row.next = "now"
    BY <2>1 DEF Row
  <2>. HIDE DEF row
  <2>4. RowFit(row, q.id)
    BY <1>2, <2>1, <2>3 DEF RowFit
  <2>5. /\ t \in Pipe /\ t.id = q.id /\ t.sub = q.sub /\ t.url = q.to /\ t.etag = {}
        /\ t.asked = q.asked /\ t.et = q.et
    BY <1>1, <1>2 DEF Pipe
  <2>6. pipes' = [pipes EXCEPT ![p] = a]
    BY <1>3 DEF SetPipe
  <2>. HIDE DEF t
  <2>7. SnapFit(t, row)
    BY <2>5 DEF SnapFit
  <2>8. a \in Pipe /\ a.id = q.id /\ PipeFit(a) /\ SnapFit(a, row)
    BY <1>2, <2>5, <2>7, AfterAdoptFit
  <2>. HIDE DEF a
  <2>. QED
    BY <1>1, <1>3, <2>1, <2>2, <2>3, <2>4, <2>6, <2>8, PipeAndRow DEF Adopt
<1>4. CASE SetPipe(p, AfterAdopt(q)) /\ UNCHANGED rows
  <2> DEFINE a == AfterAdopt(q)
  <2>1. a \in Pipe /\ a.id = q.id /\ PipeFit(a) /\ SnapFit(a, rows[a.id])
    BY <1>2, AfterAdoptFit
  <2>2. pipes' = [pipes EXCEPT ![p] = a]
    BY <1>4 DEF SetPipe
  <2>. HIDE DEF a
  <2>. QED  BY <1>1, <1>4, <2>1, <2>2, PipeOnly DEF Adopt
<1>. QED  BY <1>3, <1>4 DEF Adopt

(* A pipeline sent to recordError with its own URL as the one it asked. *)
LEMMA ErrorFit ==
    ASSUME NEW z \in Pipe, Norm[z.url] \in URLs, PipeFit(z), NEW row, SnapFit(z, row)
    PROVE  /\ [Failed(z) EXCEPT !.asked = {Norm[z.url]}] \in Pipe
           /\ [Failed(z) EXCEPT !.asked = {Norm[z.url]}].id = z.id
           /\ PipeFit([Failed(z) EXCEPT !.asked = {Norm[z.url]}])
           /\ SnapFit([Failed(z) EXCEPT !.asked = {Norm[z.url]}], row)
<1> DEFINE f == Failed(z)
           s == {Norm[z.url]}
           e == [f EXCEPT !.asked = s]
<1>1. /\ f \in Pipe /\ f.pc = "error" /\ f.id = z.id /\ f.sub = z.sub
      /\ f.url = z.url /\ f.etag = z.etag
  BY FailedFit
<1>2. s \in SUBSET URLs /\ Norm[z.url] \in s
  OBVIOUS
<1>. HIDE DEF f, s
<1>3. /\ e \in Pipe /\ e.pc = "error" /\ e.id = z.id /\ e.sub = z.sub
      /\ e.url = z.url /\ e.etag = z.etag /\ e.asked = s
  BY <1>1, <1>2 DEF Pipe
<1>. HIDE DEF e
<1>4. PipeFit(e) /\ SnapFit(e, row)
  BY <1>2, <1>3 DEF PipeFit, SnapFit
<1>. QED  BY <1>3, <1>4 DEF e, f, s

LEMMA ErrorKeeps ==
    ASSUME IInv, NEW p \in Pipes, Active(p),
           SetPipe(p, [Failed(pipes[p]) EXCEPT !.asked = {Norm[pipes[p].url]}]),
           UNCHANGED <<rows, lastId, busy, reqs, up, ops, restarts>>
    PROVE  IInv'
<1> DEFINE e == [Failed(pipes[p]) EXCEPT !.asked = {Norm[pipes[p].url]}]
<1>1. e \in Pipe /\ e.id = pipes[p].id /\ PipeFit(e) /\ SnapFit(e, rows[e.id])
  BY PipeFacts, ErrorFit
<1>2. busy' \subseteq Ids /\ pipes' = [pipes EXCEPT ![p] = e]
  BY DEF IInv, TypeOK, SetPipe
<1>. HIDE DEF e
<1>. QED  BY <1>1, <1>2, PipeOnly

LEMMA ResolveKeeps ==
    ASSUME IInv, NEW p \in Pipes, Resolve(p)
    PROVE  IInv'
<1>1. Active(p) /\ busy' \subseteq Ids /\ pipes[p].pc = "resolve"
  BY DEF Resolve, Active, IInv, TypeOK
<1>2. CASE SetPipe(p, [Failed(pipes[p]) EXCEPT !.asked = {Norm[pipes[p].url]}])
  BY <1>1, <1>2, ErrorKeeps DEF Resolve
<1>3. ASSUME NEW v \in RedirectURLs \cup DiscoverURLs \cup {pipes[p].url}, NEW val \in BOOLEAN,
             SetPipe(p, [pipes[p] EXCEPT
                          !.pc = IF Norm[v] # pipes[p].url THEN "seturl" ELSE "ingest",
                          !.to = IF Norm[v] # pipes[p].url THEN Norm[v] ELSE AnyURL,
                          !.asked = {Norm[v]},
                          !.et = IF val THEN {Norm[v]} ELSE {}])
      PROVE  IInv'
  <2> DEFINE z == pipes[p]
             n == Norm[v]
             s == {n}
             et == IF val THEN s ELSE {}
             pc == IF n # z.url THEN "seturl" ELSE "ingest"
             to == IF n # z.url THEN n ELSE AnyURL
             q == [z EXCEPT !.pc = pc, !.to = to, !.asked = s, !.et = et]
  <2>1. /\ z \in Pipe /\ z.pc = "resolve" /\ z = pipes[p] /\ PipeFit(z)
        /\ SnapFit(z, rows[z.id])
    BY <1>1, PipeFacts
  <2>2. n \in URLs /\ Norm[n] = n
    BY <2>1, PollingAssumption DEF Pipe
  <2>3. pipes' = [pipes EXCEPT ![p] = q]
    BY <1>3 DEF SetPipe
  <2>. HIDE DEF z, n
  <2>4. /\ s \in SUBSET URLs /\ n \in s /\ et \in SUBSET URLs /\ (et = {} \/ et = s)
        /\ to \in URLs /\ pc \in PCs
        /\ (pc = "seturl" => to = n) /\ (pc = "ingest" => z.url = n)
        /\ pc \in {"seturl", "ingest"}
    BY <2>2, Blanks DEF PCs
  <2>. HIDE DEF s, et, pc, to
  <2>5. /\ q \in Pipe /\ q.pc = pc /\ q.id = z.id /\ q.sub = z.sub /\ q.url = z.url
        /\ q.etag = z.etag /\ q.heal = z.heal /\ q.to = to /\ q.asked = s /\ q.et = et
    BY <2>1, <2>4 DEF Pipe
  <2>. HIDE DEF q
  <2>6. PipeFit(q) /\ SnapFit(q, rows[q.id])
    BY <2>1, <2>2, <2>4, <2>5 DEF PipeFit, SnapFit
  <2>. QED  BY <1>1, <2>3, <2>5, <2>6, PipeOnly DEF Resolve
<1>. QED  BY <1>2, <1>3 DEF Resolve

LEMMA SetURLKeeps ==
    ASSUME IInv, NEW p \in Pipes, SetURL(p)
    PROVE  IInv'
<1> DEFINE z == pipes[p]
<1>1. Active(p) /\ busy' \subseteq Ids /\ z.pc = "seturl" /\ z.to \in URLs
  BY DEF SetURL, Active, IInv, TypeOK, Pipe
<1>2. /\ z \in Pipe /\ z.id \in Ids /\ z.id <= lastId /\ z.sub = z.id /\ rows[z.id] \in Row
      /\ Norm[z.to] \in z.asked /\ (z.et = {} \/ Norm[z.to] \in z.et)
      /\ (~z.heal => z.etag = {}) /\ z.heal \in BOOLEAN
      /\ SnapFit(z, rows[z.id]) /\ RowFit(rows[z.id], z.id)
  BY <1>1, PipeFacts DEF PipeFit, Pipe
<1>3. CASE /\ rows[z.id].live
           /\ SetRow(z.id, [RowWithURL(rows[z.id], z.to) EXCEPT !.healed = @ \/ z.heal])
           /\ SetPipe(p, [z EXCEPT !.pc = "ingest", !.url = z.to, !.to = AnyURL])
  <2> DEFINE n == RowWithURL(rows[z.id], z.to)
             h == n.healed \/ z.heal
             row == [n EXCEPT !.healed = h]
             q == [z EXCEPT !.pc = "ingest", !.url = z.to, !.to = AnyURL]
  <2>1. /\ n \in Row /\ n.live = rows[z.id].live /\ n.sub = rows[z.id].sub
        /\ n.healed = rows[z.id].healed /\ n.etag = {} /\ n.next = "now"
    BY <1>1, <1>2, RowWithURLFit
  <2>2. rows' = [rows EXCEPT ![z.id] = row]
    BY <1>3 DEF SetRow
  <2>3. pipes' = [pipes EXCEPT ![p] = q]
    BY <1>3 DEF SetPipe
  <2>. HIDE DEF n
  <2>4. h \in BOOLEAN /\ (z.heal => h) /\ (n.healed => h)
    BY <1>2, <2>1
  <2>. HIDE DEF h
  <2>5. /\ row \in Row /\ row.live = n.live /\ row.sub = n.sub /\ row.healed = h
        /\ row.etag = {} /\ row.next = "now"
    BY <2>1, <2>4 DEF Row
  <2>. HIDE DEF row
  <2>6. RowFit(row, z.id)
    BY <1>2, <2>1, <2>5 DEF RowFit
  <2>7. /\ q \in Pipe /\ q.pc = "ingest" /\ q.id = z.id /\ q.sub = z.sub /\ q.url = z.to
        /\ q.etag = z.etag /\ q.asked = z.asked /\ q.et = z.et
    BY <1>1, <1>2, Blanks DEF Pipe, PCs
  <2>. HIDE DEF q
  <2>8. PipeFit(q) /\ SnapFit(q, row)
    BY <1>2, <2>4, <2>5, <2>7 DEF PipeFit, SnapFit
  <2>. QED
    BY <1>1, <1>3, <2>1, <2>2, <2>3, <2>4, <2>5, <2>6, <2>7, <2>8, PipeAndRow DEF SetURL
<1>4. CASE SetPipe(p, [z EXCEPT !.pc = "deldup", !.to = AnyURL, !.et = {}]) /\ UNCHANGED rows
  <2> DEFINE q == [z EXCEPT !.pc = "deldup", !.to = AnyURL, !.et = {}]
  <2>1. /\ q \in Pipe /\ q.pc = "deldup" /\ q.id = z.id /\ q.sub = z.sub /\ q.url = z.url
        /\ q.etag = z.etag
    BY <1>2, Blanks DEF Pipe, PCs
  <2>2. pipes' = [pipes EXCEPT ![p] = q]
    BY <1>4 DEF SetPipe
  <2>. HIDE DEF q
  <2>3. PipeFit(q) /\ SnapFit(q, rows[q.id])
    BY <1>2, <2>1 DEF PipeFit, SnapFit
  <2>. QED  BY <1>1, <1>4, <2>1, <2>2, <2>3, PipeOnly DEF SetURL
<1>5. CASE SetPipe(p, [Failed(z) EXCEPT !.asked = {Norm[z.url]}]) /\ UNCHANGED rows
  BY <1>1, <1>5, ErrorKeeps DEF SetURL
<1>. QED  BY <1>3, <1>4, <1>5 DEF SetURL

LEMMA FinishKeeps ==
    ASSUME IInv, NEW p \in Pipes, Active(p), NEW n \in Nat, NEW row \in Row,
           SetRow(pipes[p].id, row), SetPipe(p, Finished(pipes[p], n)),
           row.live => /\ rows[pipes[p].id].live
                       /\ (rows[pipes[p].id].healed => row.healed),
           RowFit(row, pipes[p].id),
           UNCHANGED <<lastId, busy, reqs, up, ops, restarts>>
    PROVE  IInv'
<1> DEFINE f == Finished(pipes[p], n)
<1>1. f \in Pipe /\ f.id = pipes[p].id /\ PipeFit(f) /\ SnapFit(f, row)
  BY PipeFacts, FinishedFit
<1>2. pipes' = [pipes EXCEPT ![p] = f] /\ rows' = [rows EXCEPT ![pipes[p].id] = row]
  BY DEF SetPipe, SetRow
<1>. HIDE DEF f
<1>. QED  BY <1>1, <1>2, PipeAndRow

LEMMA FinishOnlyKeeps ==
    ASSUME IInv, NEW p \in Pipes, Active(p), NEW n \in Nat,
           SetPipe(p, Finished(pipes[p], n)),
           UNCHANGED <<rows, lastId, busy, reqs, up, ops, restarts>>
    PROVE  IInv'
<1> DEFINE f == Finished(pipes[p], n)
<1>1. f \in Pipe /\ PipeFit(f) /\ SnapFit(f, rows[f.id])
  BY PipeFacts, FinishedFit
<1>2. pipes' = [pipes EXCEPT ![p] = f] /\ busy' \subseteq Ids
  BY DEF SetPipe, IInv, TypeOK
<1>. HIDE DEF f
<1>. QED  BY <1>1, <1>2, PipeOnly

LEMMA DeleteDuplicateKeeps ==
    ASSUME IInv, NEW p \in Pipes, DeleteDuplicate(p)
    PROVE  IInv'
<1>1. Active(p) /\ pipes[p].emits + 1 \in Nat
  BY DEF DeleteDuplicate, Active, IInv, TypeOK, Pipe
<1>2. RowFit(NoRow, pipes[p].id) /\ NoRow \in Row /\ ~NoRow.live
  BY Blanks DEF RowFit
<1>3. CASE SetRow(pipes[p].id, NoRow) /\ SetPipe(p, Finished(pipes[p], pipes[p].emits + 1))
  BY <1>1, <1>2, <1>3, FinishKeeps DEF DeleteDuplicate
<1>4. CASE SetPipe(p, [Failed(pipes[p]) EXCEPT !.asked = {Norm[pipes[p].url]}]) /\ UNCHANGED rows
  BY <1>1, <1>4, ErrorKeeps DEF DeleteDuplicate
<1>. QED  BY <1>3, <1>4 DEF DeleteDuplicate

LEMMA IngestKeeps ==
    ASSUME IInv, NEW p \in Pipes, Ingest(p)
    PROVE  IInv'
<1> DEFINE z == pipes[p]
<1>1. Active(p) /\ busy' \subseteq Ids /\ z.pc = "ingest"
  BY DEF Ingest, Active, IInv, TypeOK
<1>2. /\ z \in Pipe /\ z.id \in Ids /\ rows[z.id] \in Row /\ PipeFit(z)
      /\ SnapFit(z, rows[z.id]) /\ RowFit(rows[z.id], z.id)
  BY <1>1, PipeFacts
<1>3. CASE /\ SetRow(z.id, IF rows[z.id].live THEN [rows[z.id] EXCEPT !.ingested = TRUE]
                           ELSE rows[z.id])
           /\ SetPipe(p, [z EXCEPT !.pc = "success"])
  <2> DEFINE o == rows[z.id]
             row == IF o.live THEN [o EXCEPT !.ingested = TRUE] ELSE o
             q == [z EXCEPT !.pc = "success"]
  <2>1. rows' = [rows EXCEPT ![z.id] = row] /\ pipes' = [pipes EXCEPT ![p] = q]
    BY <1>3 DEF SetRow, SetPipe
  <2>2. /\ q \in Pipe /\ q.pc = "success" /\ q.id = z.id /\ q.sub = z.sub /\ q.url = z.url
        /\ q.etag = z.etag /\ q.asked = z.asked /\ q.et = z.et
    BY <1>2 DEF Pipe, PCs
  <2>. HIDE DEF o, q
  <2>3. o \in Row /\ o = rows[z.id]
    BY <1>2 DEF o
  <2>4. /\ row \in Row /\ row.live = o.live /\ row.sub = o.sub /\ row.healed = o.healed
        /\ row.etag = o.etag /\ row.next = o.next /\ row.url = o.url
        /\ row.checked = o.checked /\ row.own = o.own
    BY <2>3 DEF Row
  <2>. HIDE DEF row
  <2>5. RowFit(row, z.id)
    BY <1>2, <2>3, <2>4 DEF RowFit
  <2>6. PipeFit(q) /\ SnapFit(q, row)
    BY <1>1, <1>2, <2>2, <2>3, <2>4 DEF PipeFit, SnapFit
  <2>. QED  BY <1>1, <1>3, <2>1, <2>2, <2>3, <2>4, <2>5, <2>6, PipeAndRow DEF Ingest
<1>4. CASE SetPipe(p, Failed(z)) /\ UNCHANGED rows
  <2> DEFINE f == Failed(z)
  <2>1. /\ f \in Pipe /\ f.pc = "error" /\ f.id = z.id /\ f.sub = z.sub
        /\ f.url = z.url /\ f.etag = z.etag /\ f.asked = z.asked
    BY <1>2, FailedFit
  <2>2. pipes' = [pipes EXCEPT ![p] = f]
    BY <1>4 DEF SetPipe
  <2>. HIDE DEF f
  <2>3. PipeFit(f) /\ SnapFit(f, rows[f.id])
    BY <1>1, <1>2, <2>1 DEF PipeFit, SnapFit
  <2>. QED  BY <1>1, <1>4, <2>1, <2>2, <2>3, PipeOnly DEF Ingest
<1>. QED  BY <1>3, <1>4 DEF Ingest

(* What UpdateFeed leaves behind fits: the compare-and-swap admits only a       *)
(* writer whose URL is the row's, so the validators it brings are the row's.   *)
LEMMA UpdatedRowFit ==
    ASSUME NEW z \in Pipe, NEW etag \in SUBSET URLs, NEW err \in 0..ErrCap,
           rows[z.id] \in Row, RowFit(rows[z.id], z.id),
           Norm[z.url] \in z.asked,
           etag = {} \/ Norm[z.url] \in etag \/ rows[z.id].healed \/ ~rows[z.id].live
    PROVE  /\ UpdatedRow(z, etag, err) \in Row
           /\ UpdatedRow(z, etag, err).live = rows[z.id].live
           /\ UpdatedRow(z, etag, err).healed = rows[z.id].healed
           /\ RowFit(UpdatedRow(z, etag, err), z.id)
<1> DEFINE o == rows[z.id]
<1>1. CASE Matches(z)
  <2> DEFINE own == Norm[o.url] \in z.asked
             row == [o EXCEPT !.etag = etag, !.err = err, !.next = "later",
                              !.checked = TRUE, !.own = own]
  <2>1. UpdatedRow(z, etag, err) = row
    BY <1>1 DEF UpdatedRow
  <2>2. own \in BOOLEAN /\ own = TRUE
    BY <1>1 DEF Matches
  <2>3. o \in Row /\ RowFit(o, z.id) /\ o.live /\ o.url = z.url
        /\ (etag = {} \/ Norm[z.url] \in etag \/ o.healed)
    BY <1>1 DEF Matches
  <2>. HIDE DEF own, o
  <2>4. /\ row \in Row /\ row.live = o.live /\ row.sub = o.sub /\ row.healed = o.healed
        /\ row.etag = etag /\ row.url = o.url /\ row.own = own
    BY <2>2, <2>3 DEF Row
  <2>. HIDE DEF row
  <2>5. RowFit(row, z.id)
    BY <2>2, <2>3, <2>4 DEF RowFit
  <2>. QED  BY <2>1, <2>4, <2>5 DEF o
<1>2. CASE ~Matches(z)
  BY <1>2 DEF UpdatedRow
<1>. QED  BY <1>1, <1>2

LEMMA RecordSuccessKeeps ==
    ASSUME IInv, NEW p \in Pipes, RecordSuccess(p)
    PROVE  IInv'
<1> DEFINE z == pipes[p]
           etag == IF z.et # {} THEN z.et ELSE z.etag
           row == UpdatedRow(z, etag, 0)
<1>1. Active(p) /\ z.pc = "success" /\ z.emits + 1 \in Nat
  BY DEF RecordSuccess, Active, IInv, TypeOK, Pipe
<1>2. /\ z \in Pipe /\ rows[z.id] \in Row /\ PipeFit(z)
      /\ SnapFit(z, rows[z.id]) /\ RowFit(rows[z.id], z.id)
  BY <1>1, PipeFacts
<1>3. /\ etag \in SUBSET URLs /\ Norm[z.url] \in z.asked /\ 0 \in 0..ErrCap
      /\ (etag = {} \/ Norm[z.url] \in etag \/ rows[z.id].healed \/ ~rows[z.id].live)
  BY <1>1, <1>2, PollingAssumption DEF PipeFit, SnapFit, Pipe
<1>. HIDE DEF etag
<1>4. row \in Row /\ row.live = rows[z.id].live /\ row.healed = rows[z.id].healed
      /\ RowFit(row, z.id)
  BY <1>2, <1>3, UpdatedRowFit
<1>5. CASE SetRow(z.id, row)
  <2>. HIDE DEF row
  <2>. QED  BY <1>1, <1>4, <1>5, FinishKeeps DEF RecordSuccess
<1>6. CASE UNCHANGED rows
  BY <1>1, <1>6, FinishOnlyKeeps DEF RecordSuccess
<1>. QED  BY <1>5, <1>6 DEF RecordSuccess, etag

LEMMA RecordErrorKeeps ==
    ASSUME IInv, NEW p \in Pipes, RecordError(p)
    PROVE  IInv'
<1> DEFINE z == pipes[p]
           err == IF z.err < ErrCap THEN z.err + 1 ELSE ErrCap
           n == IF z.counted THEN z.emits + 1 ELSE z.emits
           row == UpdatedRow(z, z.etag, err)
<1>1. Active(p) /\ z.pc = "error" /\ n \in Nat
  BY DEF RecordError, Active, IInv, TypeOK, Pipe
<1>2. /\ z \in Pipe /\ rows[z.id] \in Row /\ PipeFit(z)
      /\ SnapFit(z, rows[z.id]) /\ RowFit(rows[z.id], z.id)
  BY <1>1, PipeFacts
<1>3. /\ z.etag \in SUBSET URLs /\ Norm[z.url] \in z.asked /\ err \in 0..ErrCap
      /\ (z.etag = {} \/ Norm[z.url] \in z.etag \/ rows[z.id].healed \/ ~rows[z.id].live)
  BY <1>1, <1>2, PollingAssumption DEF PipeFit, SnapFit, Pipe
<1>. HIDE DEF err, n
<1>4. row \in Row /\ row.live = rows[z.id].live /\ row.healed = rows[z.id].healed
      /\ RowFit(row, z.id)
  BY <1>2, <1>3, UpdatedRowFit
<1>7. SetPipe(p, Finished(z, n)) /\ UNCHANGED <<lastId, busy, reqs, up, ops, restarts>>
  BY DEF RecordError, n
<1>5. CASE SetRow(z.id, row)
  <2>. HIDE DEF row
  <2>. QED  BY <1>1, <1>4, <1>5, <1>7, FinishKeeps
<1>6. CASE UNCHANGED rows
  BY <1>1, <1>6, <1>7, FinishOnlyKeeps
<1>. QED  BY <1>5, <1>6 DEF RecordError, err

LEMMA EndKeeps ==
    ASSUME IInv, NEW p \in Pipes, End(p)
    PROVE  IInv'
<1>1. busy' \subseteq Ids
  BY DEF End, IInv, TypeOK
<1>. QED  BY <1>1, PipeIdle DEF End, SetPipe

-----------------------------------------------------------------------------
(* The steps that are not a pipeline's. *)

(* One existing row changes, the pipelines do not.                            *)
LEMMA RowOnly ==
    ASSUME IInv, NEW i \in Ids, NEW row \in Row,
           SetRow(i, row),
           row.live => rows[i].live /\ (rows[i].healed => row.healed),
           RowFit(row, i),
           reqs' \in [Requests -> Request], ReqsInv', ops' \in 0..MaxOps,
           UNCHANGED <<lastId, pipes, busy, up, restarts>>
    PROVE  IInv'
<1>1. /\ rows' \in [Ids -> Row]
      /\ RowsInv'
      /\ \A q : q.id \in Ids /\ SnapFit(q, rows[q.id]) => SnapFit(q, rows'[q.id])
  BY RowKept DEF SetRow
<1>2. TypeOK'
  BY <1>1 DEF IInv, TypeOK
<1>3. PipesInv'
  <2> SUFFICES ASSUME NEW x \in Pipes, Active(x)'
               PROVE  (PipeFit(pipes[x]) /\ SnapFit(pipes[x], rows[pipes[x].id]))'
    BY DEF PipesInv
  <2>1. PipeFit(pipes[x]) /\ SnapFit(pipes[x], rows[pipes[x].id])
    BY DEF IInv, PipesInv, Active
  <2>2. SnapFit(pipes[x], rows'[pipes[x].id])
    BY <1>1, <2>1 DEF PipeFit
  <2>. QED  BY <2>1, <2>2 DEF PipeFit, SnapFit
<1>. QED  BY <1>1, <1>2, <1>3 DEF IInv

(* Only the requests and the operation count change.                          *)
LEMMA RequestOnly ==
    ASSUME IInv, NEW r \in Requests, NEW e \in Request,
           reqs' = [reqs EXCEPT ![r] = e], ReqFit(e), ops' \in 0..MaxOps,
           UNCHANGED <<rows, lastId, pipes, busy, up, restarts>>
    PROVE  IInv'
<1>1. TypeOK'
  BY DEF IInv, TypeOK
<1>2. RowsInv' /\ PipesInv'
  BY DEF IInv, RowsInv, RowFit, PipesInv, Active, PipeFit, SnapFit
<1>3. ReqsInv'
  BY DEF IInv, TypeOK, ReqsInv, ReqFit
<1>. QED  BY <1>1, <1>2, <1>3 DEF IInv

LEMMA UserOpCounts == ASSUME IInv, UserOp PROVE ops' \in 0..MaxOps
  BY PollingAssumption DEF UserOp, IInv, TypeOK

LEMMA ElapseKeeps ==
    ASSUME IInv, NEW id \in Ids, Elapse(id)
    PROVE  IInv'
<1> DEFINE o == rows[id]
           row == [o EXCEPT !.next = "now"]
<1>1. o \in Row /\ o.live /\ RowFit(o, id) /\ o = rows[id]
  BY DEF Elapse, IInv, TypeOK, RowsInv
<1>2. SetRow(id, row)
  BY DEF Elapse
<1>. HIDE DEF o
<1>3. /\ row \in Row /\ row.live = o.live /\ row.sub = o.sub /\ row.healed = o.healed
      /\ row.etag = o.etag /\ row.url = o.url /\ row.next = "now"
  BY <1>1 DEF Row
<1>. HIDE DEF row
<1>4. RowFit(row, id)
  BY <1>1, <1>3 DEF RowFit
<1>5. reqs' \in [Requests -> Request] /\ ReqsInv' /\ ops' \in 0..MaxOps
  BY DEF Elapse, IInv, TypeOK, ReqsInv, ReqFit
<1>. QED  BY <1>1, <1>2, <1>3, <1>4, <1>5, RowOnly DEF Elapse

LEMMA DeleteFeedKeeps ==
    ASSUME IInv, NEW id \in Ids, DeleteFeed(id)
    PROVE  IInv'
<1>1. NoRow \in Row /\ ~NoRow.live /\ RowFit(NoRow, id)
  BY Blanks DEF RowFit
<1>2. reqs' \in [Requests -> Request] /\ ReqsInv' /\ ops' \in 0..MaxOps
  BY UserOpCounts DEF DeleteFeed, IInv, TypeOK, ReqsInv, ReqFit
<1>. QED  BY <1>1, <1>2, RowOnly DEF DeleteFeed

LEMMA EditSetURLKeeps ==
    ASSUME IInv, NEW r \in Requests, EditSetURL(r)
    PROVE  IInv'
<1> DEFINE e == reqs[r]
<1>1. e \in Request /\ e.pc = "edit" /\ e.id \in Ids /\ ReqFit(e) /\ e.url \in URLs
      /\ rows[e.id] \in Row /\ RowFit(rows[e.id], e.id)
  BY DEF EditSetURL, IInv, TypeOK, RowsInv, ReqsInv, ReqFit, Request
<1>2. CASE /\ SetRow(e.id, RowWithURL(rows[e.id], e.url))
           /\ \/ reqs' = [reqs EXCEPT ![r].pc = "spawn"]
              \/ reqs' = [reqs EXCEPT ![r] = NoRequest]
  <2> DEFINE row == RowWithURL(rows[e.id], e.url)
  <2>1. row \in Row /\ row.live = rows[e.id].live /\ row.healed = rows[e.id].healed
        /\ RowFit(row, e.id)
    BY <1>1, RowWithURLFit
  <2>2. ReqFit(NoRequest) /\ NoRequest \in Request
    BY Blanks DEF ReqFit
  <2>3. reqs' \in [Requests -> Request]
    BY <1>1, <1>2, <2>2 DEF IInv, TypeOK, Request
  <2>4. ReqsInv'
    <3>1. lastId' = lastId
      BY DEF EditSetURL
    <3>2. CASE reqs' = [reqs EXCEPT ![r].pc = "spawn"]
      BY <1>1, <3>1, <3>2 DEF IInv, TypeOK, ReqsInv, ReqFit, Request
    <3>3. CASE reqs' = [reqs EXCEPT ![r] = NoRequest]
      BY <2>2, <3>1, <3>3 DEF IInv, TypeOK, ReqsInv, ReqFit, NoRequest
    <3>. QED  BY <1>2, <3>2, <3>3
  <2>5. ops' \in 0..MaxOps
    BY DEF EditSetURL, IInv, TypeOK
  <2>6. SetRow(e.id, row)
    BY <1>2
  <2>. HIDE DEF row
  <2>. QED  BY <1>1, <2>1, <2>3, <2>4, <2>5, <2>6, RowOnly DEF EditSetURL
<1>3. CASE reqs' = [reqs EXCEPT ![r] = NoRequest] /\ UNCHANGED rows
  <2>1. ReqFit(NoRequest) /\ ops' \in 0..MaxOps
    BY Blanks DEF ReqFit, EditSetURL, IInv, TypeOK
  <2>. QED  BY <1>3, <2>1, Blanks, RequestOnly DEF EditSetURL
<1>. QED  BY <1>2, <1>3 DEF EditSetURL

LEMMA EditReadKeeps ==
    ASSUME IInv, NEW r \in Requests, NEW id \in Ids, NEW u \in EditURLs, EditRead(r, id, u)
    PROVE  IInv'
<1> DEFINE e == [pc |-> "edit", id |-> id, op |-> "load", sub |-> rows[id].sub, url |-> Norm[u]]
<1>1. rows[id].sub = id /\ id <= lastId /\ id \in Nat /\ Norm[u] \in URLs
  BY PollingAssumption DEF EditRead, IInv, TypeOK, RowsInv, RowFit, Ids
<1>2. e \in Request /\ ReqFit(e)
  BY <1>1 DEF Request, ReqFit
<1>3. reqs' = [reqs EXCEPT ![r] = e] /\ ops' \in 0..MaxOps
  BY UserOpCounts DEF EditRead
<1>. HIDE DEF e
<1>. QED  BY <1>2, <1>3, RequestOnly DEF EditRead

LEMMA RefreshKeeps ==
    ASSUME IInv, NEW r \in Requests, NEW id \in Ids, Refresh(r, id)
    PROVE  IInv'
<1> DEFINE e == [NoRequest EXCEPT !.pc = "spawn", !.id = id, !.op = "load", !.sub = rows[id].sub]
<1>1. rows[id].sub = id /\ id <= lastId /\ id \in Nat
  BY DEF Refresh, IInv, TypeOK, RowsInv, RowFit, Ids
<1>2. e \in Request /\ e.id = id /\ e.sub = id /\ e.op = "load"
  BY <1>1, Blanks DEF Request, NoRequest
<1>3. reqs' = [reqs EXCEPT ![r] = e] /\ ops' \in 0..MaxOps
  BY UserOpCounts DEF Refresh
<1>. HIDE DEF e
<1>4. ReqFit(e)
  BY <1>1, <1>2 DEF ReqFit
<1>. QED  BY <1>2, <1>3, <1>4, RequestOnly DEF Refresh

(* The new row's id was never used, so no pipeline or request knows it.        *)
LEMMA SubscribeKeeps ==
    ASSUME IInv, NEW r \in Requests, NEW u \in URLs, Subscribe(r, u)
    PROVE  IInv'
<1> DEFINE i == lastId + 1
           n == Norm[u]
           row == NewRow(i, n)
           e == [pc |-> "spawn", id |-> i, op |-> "resolve", sub |-> i, url |-> n]
<1>1. i \in Ids /\ i \in Nat /\ lastId \in Nat /\ lastId' = i /\ i > lastId
      /\ i \in 0..MaxFeeds
  BY PollingAssumption DEF Subscribe, IInv, TypeOK, Ids
<1>2. n \in URLs /\ ops' \in 0..MaxOps
  BY PollingAssumption, UserOpCounts DEF Subscribe
<1>3. rows' = [rows EXCEPT ![i] = row] /\ reqs' = [reqs EXCEPT ![r] = e]
  BY DEF Subscribe, SetRow, NextId
<1>. HIDE DEF i, n
<1>4. row \in Row /\ row.sub = i /\ row.etag = {} /\ row.checked = FALSE
  BY <1>1, <1>2, Blanks, PollingAssumption DEF NewRow, NoRow, Row
<1>5. e \in Request /\ e.id = i /\ e.sub = i /\ e.op = "resolve"
  BY <1>1, <1>2 DEF Request
<1>. HIDE DEF row, e
<1>6. TypeOK'
  BY <1>1, <1>2, <1>3, <1>4, <1>5 DEF Subscribe, IInv, TypeOK
<1>7. RowsInv'
  <2> SUFFICES ASSUME NEW j \in Ids PROVE RowFit(rows[j], j)'
    BY DEF RowsInv
  <2>1. CASE j = i
    BY <2>1, <1>1, <1>3, <1>4 DEF IInv, TypeOK, RowFit
  <2>2. CASE j # i
    <3>1. rows'[j] = rows[j] /\ j \in Nat /\ RowFit(rows[j], j)
      BY <2>2, <1>3 DEF IInv, TypeOK, RowsInv, Ids
    <3>. QED  BY <3>1, <1>1 DEF RowFit
  <2>. QED  BY <2>1, <2>2
<1>8. PipesInv'
  <2> SUFFICES ASSUME NEW x \in Pipes, Active(x)'
               PROVE  (PipeFit(pipes[x]) /\ SnapFit(pipes[x], rows[pipes[x].id]))'
    BY DEF PipesInv
  <2>1. pipes' = pipes /\ PipeFit(pipes[x]) /\ SnapFit(pipes[x], rows[pipes[x].id])
    BY DEF Subscribe, IInv, PipesInv, Active
  <2>2. pipes[x].id \in Ids /\ pipes[x].id <= lastId /\ pipes[x].id \in Nat
    BY <2>1 DEF PipeFit, Ids
  <2>3. rows'[pipes[x].id] = rows[pipes[x].id]
    BY <2>2, <1>1, <1>3 DEF IInv, TypeOK
  <2>4. pipes[x].id <= lastId'
    BY <2>2, <1>1
  <2>5. PipeFit(pipes[x])'
    BY <2>1, <2>4 DEF PipeFit
  <2>. QED  BY <2>1, <2>3, <2>5 DEF SnapFit
<1>9. ReqsInv'
  <2> SUFFICES ASSUME NEW x \in Requests PROVE ReqFit(reqs[x])'
    BY DEF ReqsInv
  <2>1. CASE x = r
    BY <2>1, <1>1, <1>3, <1>5 DEF IInv, TypeOK, ReqFit
  <2>2. CASE x # r
    <3>1. reqs'[x] = reqs[x] /\ ReqFit(reqs[x])
      BY <2>2, <1>3 DEF IInv, TypeOK, ReqsInv
    <3>. QED  BY <3>1, <1>1 DEF ReqFit, Ids
  <2>. QED  BY <2>1, <2>2
<1>. QED  BY <1>6, <1>7, <1>8, <1>9 DEF IInv

LEMMA SpawnKeeps ==
    ASSUME IInv, NEW r \in Requests, Spawn(r)
    PROVE  IInv'
<1> DEFINE e == reqs[r]
<1>1. e \in Request /\ e.pc = "spawn" /\ e.id \in Ids /\ e.id <= lastId /\ e.sub = e.id
      /\ e.op \in {"resolve", "load"} /\ e.url \in URLs /\ e.id \in Nat
  BY DEF Spawn, IInv, TypeOK, ReqsInv, ReqFit, Request, Ids
<1>2. reqs' = [reqs EXCEPT ![r] = NoRequest] /\ ops' \in 0..MaxOps
  BY DEF Spawn, IInv, TypeOK
<1>3. reqs' \in [Requests -> Request] /\ ReqsInv'
  BY <1>2, Blanks DEF Spawn, IInv, TypeOK, ReqsInv, ReqFit
<1>4. CASE UNCHANGED <<pipes, busy>>
  <2>1. NoRequest \in Request /\ ReqFit(NoRequest)
    BY Blanks DEF ReqFit
  <2>. QED  BY <1>2, <1>4, <2>1, RequestOnly DEF Spawn
<1>5. ASSUME NEW b \in BgOps, busy' = busy \cup {e.id}, pipes[b].pc = "idle",
             SetPipe(b, [NoPipe EXCEPT !.pc = e.op, !.id = e.id, !.sub = e.sub,
                                       !.url = e.url])
      PROVE  IInv'
  <2> DEFINE q == [NoPipe EXCEPT !.pc = e.op, !.id = e.id, !.sub = e.sub,
                                 !.url = e.url]
  <2>1. pipes' = [pipes EXCEPT ![b] = q]
    BY <1>5 DEF SetPipe
  <2>. HIDE DEF e
  <2>2. /\ q.pc = e.op /\ q.id = e.id /\ q.sub = e.sub /\ q.etag = {}
    BY DEF NoPipe
  <2>3. q \in Pipe
    BY <1>1, <2>1, Blanks, PollingAssumption DEF NoPipe, Pipe, PCs, Bodies
  <2>. HIDE DEF q
  <2>4. TypeOK'
    BY <1>1, <1>2, <1>3, <1>5, <2>1, <2>3 DEF Spawn, IInv, TypeOK, Pipes
  <2>5. RowsInv'
    BY DEF Spawn, IInv, RowsInv, RowFit
  <2>6. PipesInv'
    <3> SUFFICES ASSUME NEW x \in Pipes, Active(x)'
                 PROVE  (PipeFit(pipes[x]) /\ SnapFit(pipes[x], rows[pipes[x].id]))'
      BY DEF PipesInv
    <3>1. CASE x = b
      <4>1. pipes'[x] = q
        BY <3>1, <2>1 DEF IInv, TypeOK
      <4>2. lastId' = lastId
        BY DEF Spawn
      <4>. QED  BY <4>1, <4>2, <1>1, <2>2 DEF PipeFit, SnapFit
    <3>2. CASE x # b
      <4>1. pipes'[x] = pipes[x] /\ Active(x) /\ rows' = rows /\ lastId' = lastId
        BY <3>2, <2>1 DEF IInv, TypeOK, Active, Spawn
      <4>. QED  BY <4>1 DEF IInv, PipesInv, PipeFit, SnapFit
    <3>. QED  BY <3>1, <3>2
  <2>. QED  BY <1>3, <2>4, <2>5, <2>6 DEF IInv
<1>. QED  BY <1>4, <1>5 DEF Spawn

LEMMA ProcessKeeps ==
    ASSUME IInv, Shutdown \/ Restart
    PROVE  IInv'
<1>1. CASE Shutdown
  BY <1>1, PollingAssumption
     DEF Shutdown, IInv, TypeOK, RowsInv, RowFit, PipesInv, Active, PipeFit, SnapFit,
         ReqsInv, ReqFit
<1>2. CASE Restart
  BY <1>2, Blanks
     DEF Restart, IInv, TypeOK, RowsInv, RowFit, PipesInv, Active, PipeFit, SnapFit,
         ReqsInv, ReqFit
<1>. QED  BY <1>1, <1>2

-----------------------------------------------------------------------------
LEMMA InitFits == Init => IInv
  BY Blanks, PollingAssumption
     DEF Init, IInv, TypeOK, RowsInv, RowFit, PipesInv, Active, PipeFit, SnapFit,
         ReqsInv, ReqFit

LEMMA StutterKeeps == ASSUME IInv, UNCHANGED vars PROVE IInv'
  BY DEF vars, IInv, TypeOK, RowsInv, RowFit, PipesInv, Active, PipeFit, SnapFit,
         ReqsInv, ReqFit

LEMMA PipeStepKeeps == ASSUME IInv, NEW p \in Pipes, PipeStep(p) PROVE IInv'
  BY FetchFailsKeeps, FetchAnswersKeeps, AdoptKeeps, ResolveKeeps, SetURLKeeps,
     DeleteDuplicateKeeps, IngestKeeps, RecordSuccessKeeps, RecordErrorKeeps, EndKeeps
     DEF PipeStep

(* Every step of the program keeps the inductive invariant.                   *)
LEMMA NextKeeps == IInv /\ [Next]_vars => IInv'
<1> SUFFICES ASSUME IInv, [Next]_vars PROVE IInv'
  OBVIOUS
<1>1. CASE \E w \in Workers, id \in Ids : Dispatch(w, id)
  BY <1>1, DispatchKeeps
<1>2. CASE \E id \in Ids : Elapse(id)
  BY <1>2, ElapseKeeps
<1>3. CASE \E b \in BgOps : LoadRefresh(b)
  BY <1>3, LoadRefreshKeeps
<1>4. CASE \E p \in Pipes : PipeStep(p)
  BY <1>4, PipeStepKeeps
<1>5. CASE \E r \in Requests, u \in URLs : Subscribe(r, u)
  BY <1>5, SubscribeKeeps
<1>6. CASE \E r \in Requests, id \in Ids, u \in EditURLs : EditRead(r, id, u)
  BY <1>6, EditReadKeeps
<1>7. CASE \E r \in Requests : EditSetURL(r) \/ Spawn(r)
  BY <1>7, EditSetURLKeeps, SpawnKeeps
<1>8. CASE \E r \in Requests, id \in Ids : Refresh(r, id)
  BY <1>8, RefreshKeeps
<1>9. CASE \E id \in Ids : DeleteFeed(id)
  BY <1>9, DeleteFeedKeeps
<1>10. CASE Shutdown \/ Restart
  BY <1>10, ProcessKeeps
<1>11. CASE UNCHANGED vars
  BY <1>11, StutterKeeps
<1>. QED
  BY <1>1, <1>2, <1>3, <1>4, <1>5, <1>6, <1>7, <1>8, <1>9, <1>10, <1>11 DEF Next

(* The inductive invariant holds throughout every behaviour.                  *)
THEOREM Invariance == Spec => []IInv
  BY InitFits, NextKeeps, PTL DEF Spec

(* Type correctness of the polling pipeline, for every configuration.         *)
THEOREM TypeCorrect == Spec => []TypeOK
<1>1. IInv => TypeOK
  BY DEF IInv
<1>. QED  BY <1>1, Invariance, PTL

(* UpdateFeed's compare-and-swap and SetFeedURL's clearing keep every stored    *)
(* validator with the URL it was issued for, whatever polls, edits, redirects,  *)
(* resolves and deletions interleave, on every row no self-heal has moved.      *)
THEOREM ValidatorsBelong == Spec => []ValidatorsBelongUnlessHealed
<1>1. IInv => ValidatorsBelongUnlessHealed
  BY DEF IInv, RowsInv, RowFit, ValidatorsBelongUnlessHealed
<1>. QED  BY <1>1, Invariance, PTL

(* A poll of an address that was replaced meanwhile never puts off the first    *)
(* poll of the new address.                                                     *)
THEOREM Postponed == Spec => []PostponedByOwnPoll
<1>1. IInv => PostponedByOwnPoll
  BY DEF IInv, RowsInv, RowFit, PostponedByOwnPoll
<1>. QED  BY <1>1, Invariance, PTL

-----------------------------------------------------------------------------
(* A pipeline's step touches no other pipeline and no request, and writes only *)
(* over a live row.                                                            *)
LEMMA StepIsOwn ==
    ASSUME IInv, NEW p \in Pipes, PipeStep(p)
    PROVE  /\ \A x \in Pipes : x # p => pipes'[x] = pipes[x]
           /\ reqs' = reqs
           /\ rows' = rows \/ rows[pipes[p].id].live
<1>1. \E q : SetPipe(p, q)
  BY DEF PipeStep, FetchFails, FetchAnswers, Adopt, Resolve, SetURL, DeleteDuplicate,
         Ingest, RecordSuccess, RecordError, End
<1>2. \A x \in Pipes : x # p => pipes'[x] = pipes[x]
  BY <1>1 DEF SetPipe, IInv, TypeOK
<1>3. reqs' = reqs
  BY DEF PipeStep, FetchFails, FetchAnswers, Adopt, Resolve, SetURL, DeleteDuplicate,
         Ingest, RecordSuccess, RecordError, End
<1>4. SUFFICES ASSUME ~rows[pipes[p].id].live PROVE rows' = rows
  BY <1>2, <1>3
<1>5. CASE FetchFails(p) \/ FetchAnswers(p) \/ Resolve(p) \/ End(p)
  BY <1>5 DEF FetchFails, FetchAnswers, Resolve, End
<1>6. CASE Adopt(p) \/ SetURL(p) \/ DeleteDuplicate(p)
  BY <1>6, <1>4 DEF Adopt, SetURL, DeleteDuplicate
<1>7. CASE Ingest(p)
  BY <1>7, <1>4 DEF Ingest, SetRow, IInv, TypeOK
<1>8. ASSUME NEW etag, NEW err PROVE UpdatedRow(pipes[p], etag, err) = rows[pipes[p].id]
  BY <1>4 DEF UpdatedRow, Matches
<1>9. CASE RecordSuccess(p)
  BY <1>8, <1>9 DEF RecordSuccess, SetRow, IInv, TypeOK
<1>10. CASE RecordError(p)
  BY <1>8, <1>10 DEF RecordError, SetRow, IInv, TypeOK
<1>. QED  BY <1>5, <1>6, <1>7, <1>9, <1>10 DEF PipeStep

(* AUTOINCREMENT ids: a poll, resolve or edit that outlives its row never      *)
(* writes to the row of another subscription.                                  *)
THEOREM NoCrossWrite == Spec => NoCrossSubscriptionWrite
<1> DEFINE Own ==
      /\ \A p \in Pipes :
            (Active(p) /\ pipes'[p] # pipes[p] /\ rows' # rows)
               => rows[pipes[p].id].sub = pipes[p].sub
      /\ \A r \in Requests :
            (reqs[r].pc = "edit" /\ reqs'[r] # reqs[r] /\ rows' # rows)
               => rows[reqs[r].id].sub = reqs[r].sub
<1>1. IInv /\ [Next]_vars => [Own]_vars
  <2> SUFFICES ASSUME IInv, Next PROVE Own
    BY DEF vars
  <2>1. CASE \E p \in Pipes : PipeStep(p)
    <3>1. PICK p \in Pipes : PipeStep(p)
      BY <2>1
    <3>2. Active(p)
      BY <3>1 DEF PipeStep, FetchFails, FetchAnswers, Adopt, Resolve, SetURL,
                  DeleteDuplicate, Ingest, RecordSuccess, RecordError, End, Active
    <3>3. rows[pipes[p].id].live => rows[pipes[p].id].sub = pipes[p].sub
      BY <3>2, PipeFacts DEF RowFit, PipeFit
    <3>. QED  BY <3>1, <3>3, StepIsOwn
  <2>2. CASE \E r \in Requests : EditSetURL(r)
    <3>1. PICK r \in Requests : EditSetURL(r)
      BY <2>2
    <3>2. pipes' = pipes /\ (rows' = rows \/ rows[reqs[r].id].live)
          /\ \A x \in Requests : x # r => reqs'[x] = reqs[x]
      BY <3>1 DEF EditSetURL, IInv, TypeOK
    <3>3. reqs[r].pc = "edit" /\ ReqFit(reqs[r])
      BY <3>1 DEF EditSetURL, IInv, ReqsInv
    <3>4. rows[reqs[r].id].live => rows[reqs[r].id].sub = reqs[r].sub
      BY <3>3 DEF IInv, RowsInv, RowFit, ReqFit
    <3>. QED  BY <3>2, <3>4
  <2>3. CASE \E r \in Requests, u \in URLs : Subscribe(r, u)
    <3>1. PICK r \in Requests, u \in URLs : Subscribe(r, u)
      BY <2>3
    <3>2. pipes' = pipes /\ reqs[r].pc = "idle" /\ \A x \in Requests : x # r => reqs'[x] = reqs[x]
      BY <3>1 DEF Subscribe, IInv, TypeOK
    <3>. QED  BY <3>2
  <2>4. CASE \/ \E w \in Workers, id \in Ids : Dispatch(w, id)
             \/ \E b \in BgOps : LoadRefresh(b)
             \/ \E r \in Requests, id \in Ids, u \in EditURLs : EditRead(r, id, u)
             \/ \E r \in Requests : Spawn(r)
             \/ \E r \in Requests, id \in Ids : Refresh(r, id)
             \/ Shutdown \/ Restart
    <3>1. rows' = rows
      BY <2>4 DEF Dispatch, LoadRefresh, EditRead, Spawn, Refresh, Shutdown, Restart
    <3>. QED  BY <3>1
  <2>5. CASE \E id \in Ids : Elapse(id) \/ DeleteFeed(id)
    <3>1. pipes' = pipes /\ reqs' = reqs
      BY <2>5 DEF Elapse, DeleteFeed
    <3>. QED  BY <3>1
  <2>. QED  BY <2>1, <2>2, <2>3, <2>4, <2>5 DEF Next
<1>. QED  BY <1>1, Invariance, PTL DEF Spec, NoCrossSubscriptionWrite

-----------------------------------------------------------------------------
(* How many FeedPollDone events an attempt has emitted, at each of its places:  *)
(* none before the end, and only an attempt on its way to recordError may be    *)
(* one that shutdown cancelled.                                                 *)
Counts(q) ==
    /\ q.pc # "end" => q.emits = 0
    /\ q.pc = "end" => q.emits = IF q.counted THEN 1 ELSE 0
    /\ q.pc \notin {"error", "end"} => q.counted

CountInv == \A p \in Pipes : Counts(pipes[p])

LEMMA CountOne ==
    ASSUME IInv, CountInv, NEW p \in Pipes, NEW q, SetPipe(p, q), Counts(q)
    PROVE  CountInv'
  BY DEF IInv, TypeOK, CountInv, Counts, SetPipe

LEMMA CountBlank == Counts(NoPipe)
  BY DEF Counts, NoPipe

LEMMA CountFailed == ASSUME NEW q \in Pipe, q.emits = 0 PROVE Counts(Failed(q))
  BY DEF Counts, Failed, Pipe

LEMMA CountFailedAsked ==
    ASSUME NEW q \in Pipe, q.emits = 0, NEW s
    PROVE  Counts([Failed(q) EXCEPT !.asked = s])
  BY DEF Counts, Failed, Pipe

LEMMA CountFinished ==
    ASSUME NEW q \in Pipe, NEW n, n = IF q.counted THEN 1 ELSE 0
    PROVE  Counts(Finished(q, n))
<1>1. q.counted \in BOOLEAN
  BY DEF Pipe
<1>. QED  BY <1>1 DEF Counts, Finished, NoPipe

LEMMA CountAfterAdopt ==
    ASSUME NEW q \in Pipe, q.emits = 0, q.counted
    PROVE  Counts(AfterAdopt(q))
  BY DEF Counts, AfterAdopt, Failed, Pipe

LEMMA CountPipeStep ==
    ASSUME IInv, CountInv, NEW p \in Pipes, PipeStep(p)
    PROVE  CountInv'
<1> DEFINE z == pipes[p]
<1>1. z \in Pipe /\ Counts(z)
  BY DEF IInv, TypeOK, CountInv
<1>2. CASE FetchFails(p)
  <2>1. PICK c \in BOOLEAN :
          SetPipe(p, [Failed(z) EXCEPT !.counted = ~c, !.asked = {Norm[z.url]}])
    BY <1>2 DEF FetchFails
  <2> DEFINE q == [Failed(z) EXCEPT !.counted = ~c, !.asked = {Norm[z.url]}]
  <2>2. z.emits = 0
    BY <1>1, <1>2 DEF FetchFails, Counts
  <2>3. q.pc = "error" /\ q.emits = 0
    BY <1>1, <2>2 DEF Failed, Pipe
  <2>. HIDE DEF q
  <2>4. Counts(q)
    BY <2>3 DEF Counts
  <2>. QED  BY <2>1, <2>4, CountOne DEF q
<1>3. CASE FetchAnswers(p)
  <2>1. z.emits = 0 /\ z.counted /\ z.pc = "fetch"
    BY <1>1, <1>3 DEF FetchAnswers, Counts
  <2>2. PICK body \in Bodies \ {"none"}, v \in RedirectURLs \cup {z.url}, val \in BOOLEAN :
          LET from == {Norm[z.url], Norm[v]}
              q == [z EXCEPT !.body = body, !.to = v, !.asked = from,
                             !.et = IF val THEN from ELSE {}]
          IN SetPipe(p, IF v # z.url THEN [q EXCEPT !.pc = "adopt"] ELSE AfterAdopt(q))
    BY <1>3 DEF FetchAnswers
  <2> DEFINE from == {Norm[z.url], Norm[v]}
             et == IF val THEN from ELSE {}
             q == [z EXCEPT !.body = body, !.to = v, !.asked = from, !.et = et]
             a == [q EXCEPT !.pc = "adopt"]
  <2>3. v \in URLs /\ from \in SUBSET URLs /\ et \in SUBSET URLs /\ body \in Bodies
    BY <1>1, PollingAssumption DEF Pipe
  <2>4. IF v # z.url THEN SetPipe(p, a) ELSE SetPipe(p, AfterAdopt(q))
    BY <2>2
  <2>. HIDE DEF from, et
  <2>8. z \in Pipe => q \in Pipe
    <3>. HIDE DEF z
    <3>. QED  BY <2>3 DEF Pipe
  <2>5. q \in Pipe /\ q.emits = 0 /\ q.counted
    BY <1>1, <2>1, <2>8 DEF Pipe
  <2>. HIDE DEF q
  <2>6. a.pc = "adopt" /\ a.emits = 0 /\ a.counted
    BY <2>5 DEF Pipe
  <2>. HIDE DEF a
  <2>7. Counts(a) /\ Counts(AfterAdopt(q))
    BY <2>5, <2>6, CountAfterAdopt DEF Counts
  <2>. QED  BY <2>4, <2>7, CountOne
<1>4. CASE Adopt(p)
  <2>1. z.emits = 0 /\ z.counted
    BY <1>1, <1>4 DEF Adopt, Counts
  <2> DEFINE t == [z EXCEPT !.url = z.to, !.etag = {}]
  <2>2. t \in Pipe /\ t.emits = 0 /\ t.counted
    BY <1>1, <2>1 DEF Pipe
  <2>3. SetPipe(p, AfterAdopt(t)) \/ SetPipe(p, AfterAdopt(z))
    BY <1>4 DEF Adopt
  <2>. HIDE DEF t
  <2>4. Counts(AfterAdopt(t)) /\ Counts(AfterAdopt(z))
    BY <1>1, <2>1, <2>2, CountAfterAdopt
  <2>. QED  BY <2>3, <2>4, CountOne
<1>5. CASE Resolve(p)
  <2>1. z.emits = 0 /\ z.counted
    BY <1>1, <1>5 DEF Resolve, Counts
  <2>2. CASE SetPipe(p, [Failed(z) EXCEPT !.asked = {Norm[z.url]}])
    BY <1>1, <2>1, <2>2, CountFailedAsked, CountOne
  <2>3. ASSUME NEW v, NEW val,
               SetPipe(p, [z EXCEPT
                          !.pc = IF Norm[v] # z.url THEN "seturl" ELSE "ingest",
                          !.to = IF Norm[v] # z.url THEN Norm[v] ELSE AnyURL,
                          !.asked = {Norm[v]},
                          !.et = IF val THEN {Norm[v]} ELSE {}])
        PROVE  CountInv'
    <3> DEFINE pc == IF Norm[v] # z.url THEN "seturl" ELSE "ingest"
               to == IF Norm[v] # z.url THEN Norm[v] ELSE AnyURL
               s == {Norm[v]}
               et == IF val THEN {Norm[v]} ELSE {}
               q == [z EXCEPT !.pc = pc, !.to = to, !.asked = s, !.et = et]
    <3>1. pc # "end" /\ SetPipe(p, q)
      BY <2>3
    <3>. HIDE DEF pc, to, s, et
    <3>2. q.pc = pc /\ q.emits = 0 /\ q.counted
      BY <1>1, <2>1 DEF Pipe
    <3>. HIDE DEF q
    <3>3. Counts(q)
      BY <3>1, <3>2 DEF Counts
    <3>. QED  BY <3>1, <3>3, CountOne
  <2>. QED  BY <1>5, <2>2, <2>3 DEF Resolve
<1>6. CASE SetURL(p)
  <2>1. z.emits = 0 /\ z.counted
    BY <1>1, <1>6 DEF SetURL, Counts
  <2> DEFINE i == [z EXCEPT !.pc = "ingest", !.url = z.to, !.to = AnyURL]
             d == [z EXCEPT !.pc = "deldup", !.to = AnyURL, !.et = {}]
             e == [Failed(z) EXCEPT !.asked = {Norm[z.url]}]
  <2>2. Counts(i) /\ Counts(d) /\ Counts(e)
    BY <1>1, <2>1, CountFailedAsked DEF Counts, Pipe
  <2>3. SetPipe(p, i) \/ SetPipe(p, d) \/ SetPipe(p, e)
    BY <1>6 DEF SetURL
  <2>. HIDE DEF i, d, e
  <2>. QED  BY <2>2, <2>3, CountOne
<1>7. CASE DeleteDuplicate(p)
  <2>1. z.emits + 1 = IF z.counted THEN 1 ELSE 0
    BY <1>1, <1>7 DEF DeleteDuplicate, Counts
  <2>2. z.emits = 0
    BY <1>1, <1>7 DEF DeleteDuplicate, Counts
  <2>3. \/ SetPipe(p, Finished(z, z.emits + 1))
        \/ SetPipe(p, [Failed(z) EXCEPT !.asked = {Norm[z.url]}])
    BY <1>7 DEF DeleteDuplicate
  <2>. QED  BY <1>1, <2>1, <2>2, <2>3, CountFinished, CountFailedAsked, CountOne
<1>8. CASE Ingest(p)
  <2>1. z.emits = 0 /\ z.counted
    BY <1>1, <1>8 DEF Ingest, Counts
  <2> DEFINE q == [z EXCEPT !.pc = "success"]
  <2>2. Counts(q)
    BY <1>1, <2>1 DEF Counts, Pipe
  <2>3. SetPipe(p, q) \/ SetPipe(p, Failed(z))
    BY <1>8 DEF Ingest
  <2>. HIDE DEF q
  <2>. QED  BY <1>1, <2>1, <2>2, <2>3, CountFailed, CountOne
<1>9. CASE RecordSuccess(p)
  <2>1. z.emits + 1 = IF z.counted THEN 1 ELSE 0
    BY <1>1, <1>9 DEF RecordSuccess, Counts
  <2>2. SetPipe(p, Finished(z, z.emits + 1))
    BY <1>9 DEF RecordSuccess
  <2>. QED  BY <1>1, <2>1, <2>2, CountFinished, CountOne
<1>10. CASE RecordError(p)
  <2> DEFINE n == IF z.counted THEN z.emits + 1 ELSE z.emits
  <2>1. n = IF z.counted THEN 1 ELSE 0
    BY <1>1, <1>10 DEF RecordError, Counts
  <2>2. SetPipe(p, Finished(z, n))
    BY <1>10 DEF RecordError
  <2>. HIDE DEF n
  <2>. QED  BY <1>1, <2>1, <2>2, CountFinished, CountOne
<1>11. CASE End(p)
  BY <1>11, CountBlank, CountOne DEF End
<1>. QED
  BY <1>2, <1>3, <1>4, <1>5, <1>6, <1>7, <1>8, <1>9, <1>10, <1>11 DEF PipeStep

(* Every poll attempt reports exactly once, or not at all when shutdown         *)
(* cancelled it: whatever path it takes through PollFeed and resolveAndIngest.  *)
THEOREM Metrics == Spec => []MetricsPaired
<1>1. Init => CountInv
  BY CountBlank DEF Init, CountInv
<1>2. IInv /\ CountInv /\ [Next]_vars => CountInv'
  <2> SUFFICES ASSUME IInv, CountInv, [Next]_vars PROVE CountInv'
    OBVIOUS
  <2>1. ASSUME NEW id PROVE Counts(Snapshot(id))
    BY DEF Counts, Snapshot, NoPipe
  <2>2. CASE \E w \in Workers, id \in Ids : Dispatch(w, id)
    BY <2>1, <2>2, CountOne DEF Dispatch, Pipes
  <2>3. CASE \E b \in BgOps : LoadRefresh(b)
    BY <2>1, <2>3, CountBlank, CountOne DEF LoadRefresh, Pipes
  <2>4. CASE \E p \in Pipes : PipeStep(p)
    BY <2>4, CountPipeStep
  <2>5. CASE \E r \in Requests : Spawn(r)
    <3>1. PICK r \in Requests : Spawn(r)
      BY <2>5
    <3> DEFINE e == reqs[r]
               q == [NoPipe EXCEPT !.pc = e.op, !.id = e.id, !.sub = e.sub,
                                   !.url = e.url]
    <3>2. e.op \in {"resolve", "load"}
      BY <3>1 DEF Spawn, IInv, ReqsInv, ReqFit
    <3>3. Counts(q)
      BY <3>2 DEF Counts, NoPipe
    <3>4. UNCHANGED pipes \/ \E b \in BgOps : SetPipe(b, q)
      BY <3>1 DEF Spawn
    <3>. HIDE DEF q
    <3>5. CASE UNCHANGED pipes
      BY <3>5 DEF CountInv, Counts
    <3>6. CASE \E b \in BgOps : SetPipe(b, q)
      BY <3>3, <3>6, CountOne DEF Pipes
    <3>. QED  BY <3>4, <3>5, <3>6
  <2>6. CASE Restart
    BY <2>6, CountBlank DEF Restart, CountInv
  <2>7. CASE \/ \E id \in Ids : Elapse(id) \/ DeleteFeed(id)
             \/ \E r \in Requests, u \in URLs : Subscribe(r, u)
             \/ \E r \in Requests, id \in Ids, u \in EditURLs : EditRead(r, id, u)
             \/ \E r \in Requests : EditSetURL(r)
             \/ \E r \in Requests, id \in Ids : Refresh(r, id)
             \/ Shutdown \/ UNCHANGED vars
    <3>1. pipes' = pipes
      BY <2>7 DEF Elapse, DeleteFeed, Subscribe, EditRead, EditSetURL, Refresh, Shutdown, vars
    <3>. QED  BY <3>1 DEF CountInv, Counts
  <2>. QED  BY <2>2, <2>3, <2>4, <2>5, <2>6, <2>7 DEF Next
<1>3. CountInv => MetricsPaired
  BY DEF CountInv, Counts, MetricsPaired
<1>. QED  BY <1>1, <1>2, <1>3, Invariance, PTL DEF Spec

-----------------------------------------------------------------------------
(* Why two rows never hold two spellings of one address, unless a redirect put *)
(* one there.  UNIQUE keeps the stored addresses apart; what it cannot see is  *)
(* that they are all in normal form, which the writers owe: the resolver's and *)
(* the edit form's targets are normalised before they wait for their write.    *)
Distinct ==
    \A i, j \in Ids :
        rows[i].live /\ rows[j].live /\ rows[i].url = rows[j].url => i = j

Spelled(row) == row.live /\ ~row.moved => Norm[row.url] = row.url
Resolved(q) == q.pc = "seturl" => Norm[q.to] = q.to
Typed(e) == e.pc = "edit" => Norm[e.url] = e.url

RowsSpelled == \A i \in Ids : Spelled(rows[i])
TargetsSpelled ==
    /\ \A p \in Pipes : Resolved(pipes[p])
    /\ \A r \in Requests : Typed(reqs[r])

SpellInv == Distinct /\ RowsSpelled /\ TargetsSpelled

(* A write of row i that drops it, keeps its address, or stores one that is    *)
(* free and either normal or a redirect's.                                     *)
LEMMA RowWritten ==
    ASSUME IInv, Distinct, RowsSpelled, NEW i \in Ids, NEW row, SetRow(i, row),
           \/ ~row.live
           \/ rows[i].live /\ row.url = rows[i].url /\ row.moved = rows[i].moved
           \/ URLFree(i, row.url) /\ (row.moved \/ Norm[row.url] = row.url)
    PROVE  Distinct' /\ RowsSpelled'
<1>1. \A j \in Ids : rows'[j] = IF j = i THEN row ELSE rows[j]
  BY DEF SetRow, IInv, TypeOK
<1>2. row.live => \A j \in Ids \ {i} : rows[j].live => rows[j].url # row.url
  BY DEF URLFree, Distinct
<1>3. Distinct'
  BY <1>1, <1>2 DEF Distinct
<1>4. Spelled(row)
  BY DEF RowsSpelled, Spelled
<1>5. RowsSpelled'
  BY <1>1, <1>4 DEF RowsSpelled, Spelled
<1>. QED  BY <1>3, <1>5

LEMMA RowsSame ==
    ASSUME Distinct, RowsSpelled, rows' = rows
    PROVE  Distinct' /\ RowsSpelled'
  BY DEF Distinct, RowsSpelled, Spelled

LEMMA PipeMoved ==
    ASSUME IInv, TargetsSpelled, NEW p \in Pipes, NEW q, SetPipe(p, q), Resolved(q),
           reqs' = reqs
    PROVE  TargetsSpelled'
  BY DEF IInv, TypeOK, TargetsSpelled, Resolved, Typed, SetPipe

LEMMA RequestMoved ==
    ASSUME IInv, TargetsSpelled, NEW r \in Requests, NEW e,
           reqs' = [reqs EXCEPT ![r] = e], Typed(e), pipes' = pipes
    PROVE  TargetsSpelled'
  BY DEF IInv, TypeOK, TargetsSpelled, Resolved, Typed

LEMMA Elsewhere ==
    /\ \A q \in Pipe : Resolved(Failed(q)) /\ Resolved(AfterAdopt(q))
    /\ \A q \in Pipe : \A s : Resolved([Failed(q) EXCEPT !.asked = s])
    /\ \A q, n : Resolved(Finished(q, n))
    /\ \A id : Resolved(Snapshot(id))
    /\ Resolved(NoPipe)
<1>1. \A q \in Pipe : Resolved(Failed(q))
  BY DEF Resolved, Failed, Pipe
<1>2. ASSUME NEW q \in Pipe PROVE Resolved(AfterAdopt(q))
  BY DEF Resolved, AfterAdopt, Failed, Pipe
<1>3. \A q \in Pipe : \A s : Resolved([Failed(q) EXCEPT !.asked = s])
  BY DEF Resolved, Failed, Pipe
<1>4. \A q, n : Resolved(Finished(q, n))
  BY DEF Resolved, Finished, NoPipe
<1>5. \A id : Resolved(Snapshot(id))
  BY DEF Resolved, Snapshot, NoPipe
<1>6. Resolved(NoPipe)
  BY DEF Resolved, NoPipe
<1>. QED  BY <1>1, <1>2, <1>3, <1>4, <1>5, <1>6

(* A pipeline's steps: only Resolve arrives at "seturl", with a normal form.   *)
LEMMA PipeTargets ==
    ASSUME IInv, TargetsSpelled, NEW p \in Pipes, PipeStep(p)
    PROVE  TargetsSpelled'
<1> DEFINE z == pipes[p]
<1>1. z \in Pipe
  BY DEF IInv, TypeOK
<1>2. reqs' = reqs
  BY DEF PipeStep, FetchFails, FetchAnswers, Adopt, Resolve, SetURL, DeleteDuplicate,
         Ingest, RecordSuccess, RecordError, End
<1>3. CASE FetchFails(p)
  <2>1. PICK c \in BOOLEAN :
          SetPipe(p, [Failed(z) EXCEPT !.counted = ~c, !.asked = {Norm[z.url]}])
    BY <1>3 DEF FetchFails
  <2> DEFINE q == [Failed(z) EXCEPT !.counted = ~c, !.asked = {Norm[z.url]}]
  <2>2. q.pc = "error"
    BY <1>1 DEF Failed, Pipe
  <2>. HIDE DEF q
  <2>3. Resolved(q)
    BY <2>2 DEF Resolved
  <2>. QED  BY <1>2, <2>1, <2>3, PipeMoved DEF q
<1>4. CASE FetchAnswers(p)
  <2>1. PICK body \in Bodies \ {"none"}, v \in RedirectURLs \cup {z.url}, val \in BOOLEAN :
          LET from == {Norm[z.url], Norm[v]}
              q == [z EXCEPT !.body = body, !.to = v, !.asked = from,
                             !.et = IF val THEN from ELSE {}]
          IN SetPipe(p, IF v # z.url THEN [q EXCEPT !.pc = "adopt"] ELSE AfterAdopt(q))
    BY <1>4 DEF FetchAnswers
  <2> DEFINE from == {Norm[z.url], Norm[v]}
             et == IF val THEN from ELSE {}
             q == [z EXCEPT !.body = body, !.to = v, !.asked = from, !.et = et]
             a == [q EXCEPT !.pc = "adopt"]
  <2>2. v \in URLs /\ from \in SUBSET URLs /\ et \in SUBSET URLs /\ body \in Bodies
    BY <1>1, PollingAssumption DEF Pipe
  <2>3. IF v # z.url THEN SetPipe(p, a) ELSE SetPipe(p, AfterAdopt(q))
    BY <2>1
  <2>. HIDE DEF from, et
  <2>4. z \in Pipe => q \in Pipe
    <3>. HIDE DEF z
    <3>. QED  BY <2>2 DEF Pipe
  <2>5. q \in Pipe
    BY <1>1, <2>4
  <2>. HIDE DEF q
  <2>6. a.pc = "adopt"
    BY <2>5 DEF Pipe
  <2>. HIDE DEF a
  <2>7. Resolved(a) /\ Resolved(AfterAdopt(q))
    BY <2>5, <2>6, Elsewhere DEF Resolved
  <2>. QED  BY <1>2, <2>3, <2>7, PipeMoved
<1>5. CASE Adopt(p)
  <2> DEFINE t == [z EXCEPT !.url = z.to, !.etag = {}]
  <2>1. t \in Pipe
    BY <1>1 DEF Pipe
  <2>2. SetPipe(p, AfterAdopt(t)) \/ SetPipe(p, AfterAdopt(z))
    BY <1>5 DEF Adopt
  <2>. HIDE DEF t
  <2>. QED  BY <1>1, <1>2, <2>1, <2>2, Elsewhere, PipeMoved
<1>6. CASE Resolve(p)
  <2>1. CASE SetPipe(p, [Failed(z) EXCEPT !.asked = {Norm[z.url]}])
    BY <1>1, <1>2, <2>1, Elsewhere, PipeMoved
  <2>2. ASSUME NEW v \in RedirectURLs \cup DiscoverURLs \cup {z.url}, NEW val \in BOOLEAN,
               SetPipe(p, [z EXCEPT
                          !.pc = IF Norm[v] # z.url THEN "seturl" ELSE "ingest",
                          !.to = IF Norm[v] # z.url THEN Norm[v] ELSE AnyURL,
                          !.asked = {Norm[v]},
                          !.et = IF val THEN {Norm[v]} ELSE {}])
        PROVE  TargetsSpelled'
    <3> DEFINE pc == IF Norm[v] # z.url THEN "seturl" ELSE "ingest"
               to == IF Norm[v] # z.url THEN Norm[v] ELSE AnyURL
               s == {Norm[v]}
               et == IF val THEN {Norm[v]} ELSE {}
               q == [z EXCEPT !.pc = pc, !.to = to, !.asked = s, !.et = et]
    <3>1. SetPipe(p, q)
      BY <2>2
    <3>2. pc = "seturl" => Norm[to] = to
      <4>1. v \in URLs
        BY <1>1, PollingAssumption DEF Pipe
      <4>. QED  BY <4>1, PollingAssumption
    <3>. HIDE DEF pc, to, s, et
    <3>3. q.pc = pc /\ q.to = to
      BY <1>1 DEF Pipe
    <3>. HIDE DEF q
    <3>4. Resolved(q)
      BY <3>2, <3>3 DEF Resolved
    <3>. QED  BY <1>2, <3>1, <3>4, PipeMoved
  <2>. QED  BY <1>6, <2>1, <2>2 DEF Resolve
<1>7. CASE SetURL(p)
  <2> DEFINE i == [z EXCEPT !.pc = "ingest", !.url = z.to, !.to = AnyURL]
             d == [z EXCEPT !.pc = "deldup", !.to = AnyURL, !.et = {}]
             e == [Failed(z) EXCEPT !.asked = {Norm[z.url]}]
  <2>1. Resolved(i) /\ Resolved(d) /\ Resolved(e)
    BY <1>1, Elsewhere DEF Resolved, Pipe
  <2>2. SetPipe(p, i) \/ SetPipe(p, d) \/ SetPipe(p, e)
    BY <1>7 DEF SetURL
  <2>. HIDE DEF i, d, e
  <2>. QED  BY <1>2, <2>1, <2>2, PipeMoved
<1>8. CASE DeleteDuplicate(p)
  <2>1. \/ SetPipe(p, Finished(z, z.emits + 1))
        \/ SetPipe(p, [Failed(z) EXCEPT !.asked = {Norm[z.url]}])
    BY <1>8 DEF DeleteDuplicate
  <2>. QED  BY <1>1, <1>2, <2>1, Elsewhere, PipeMoved
<1>9. CASE Ingest(p)
  <2> DEFINE q == [z EXCEPT !.pc = "success"]
  <2>1. Resolved(q)
    BY <1>1 DEF Resolved, Pipe
  <2>2. SetPipe(p, q) \/ SetPipe(p, Failed(z))
    BY <1>9 DEF Ingest
  <2>. HIDE DEF q
  <2>. QED  BY <1>1, <1>2, <2>1, <2>2, Elsewhere, PipeMoved
<1>10. CASE RecordSuccess(p)
  BY <1>2, <1>10, Elsewhere, PipeMoved DEF RecordSuccess
<1>11. CASE RecordError(p)
  BY <1>2, <1>11, Elsewhere, PipeMoved DEF RecordError
<1>12. CASE End(p)
  BY <1>2, <1>12, Elsewhere, PipeMoved DEF End
<1>. QED
  BY <1>3, <1>4, <1>5, <1>6, <1>7, <1>8, <1>9, <1>10, <1>11, <1>12 DEF PipeStep

(* A pipeline's writes of its row.                                             *)
LEMMA PipeRows ==
    ASSUME IInv, SpellInv, NEW p \in Pipes, PipeStep(p)
    PROVE  Distinct' /\ RowsSpelled'
<1> DEFINE z == pipes[p]
           row == rows[z.id]
<1>0. Distinct /\ RowsSpelled /\ z \in Pipe /\ Resolved(z)
  BY DEF SpellInv, TargetsSpelled, IInv, TypeOK
<1>1. ASSUME Active(p) PROVE z.id \in Ids /\ row \in Row
  BY <1>1 DEF IInv, PipesInv, PipeFit, TypeOK
<1>2. CASE Adopt(p)
  <2>1. z.id \in Ids /\ row \in Row
    BY <1>1, <1>2 DEF Adopt, Active
  <2> DEFINE new == [RowWithURL(row, z.to) EXCEPT !.moved = TRUE]
  <2>2. new.url = z.to /\ new.moved
    BY <2>1 DEF RowWithURL, Row
  <2>3. \/ URLFree(z.id, z.to) /\ SetRow(z.id, new)
        \/ rows' = rows
    BY <1>2 DEF Adopt
  <2>. HIDE DEF new
  <2>. QED  BY <1>0, <2>1, <2>2, <2>3, RowWritten, RowsSame
<1>3. CASE SetURL(p)
  <2>1. z.id \in Ids /\ row \in Row /\ Norm[z.to] = z.to
    BY <1>0, <1>1, <1>3 DEF SetURL, Active, Resolved
  <2> DEFINE new == [RowWithURL(row, z.to) EXCEPT !.healed = @ \/ z.heal]
  <2>2. new.url = z.to
    BY <2>1 DEF RowWithURL, Row
  <2>3. \/ URLFree(z.id, z.to) /\ SetRow(z.id, new)
        \/ rows' = rows
    BY <1>3 DEF SetURL
  <2>. HIDE DEF new
  <2>. QED  BY <1>0, <2>1, <2>2, <2>3, RowWritten, RowsSame
<1>4. CASE DeleteDuplicate(p)
  <2>1. z.id \in Ids
    BY <1>1, <1>4 DEF DeleteDuplicate, Active
  <2>2. SetRow(z.id, NoRow) \/ rows' = rows
    BY <1>4 DEF DeleteDuplicate
  <2>. QED  BY <1>0, <2>1, <2>2, Blanks, RowWritten, RowsSame
<1>5. CASE Ingest(p)
  <2>1. z.id \in Ids /\ row \in Row
    BY <1>1, <1>5 DEF Ingest, Active
  <2> DEFINE new == [row EXCEPT !.ingested = TRUE]
  <2>2. new.url = row.url /\ new.moved = row.moved
    BY <2>1 DEF Row
  <2>3. \/ SetRow(z.id, IF row.live THEN new ELSE row)
        \/ rows' = rows
    BY <1>5 DEF Ingest
  <2>. HIDE DEF new
  <2>4. CASE SetRow(z.id, IF row.live THEN new ELSE row)
    <3>1. CASE row.live
      BY <1>0, <2>1, <2>2, <2>4, <3>1, RowWritten
    <3>2. CASE ~row.live
      BY <1>0, <2>1, <2>4, <3>2, RowWritten
    <3>. QED  BY <3>1, <3>2
  <2>. QED  BY <1>0, <2>3, <2>4, RowsSame
<1>6. ASSUME Active(p), NEW etag, NEW err, SetRow(z.id, UpdatedRow(z, etag, err))
      PROVE  Distinct' /\ RowsSpelled'
  <2>1. z.id \in Ids /\ row \in Row
    BY <1>1, <1>6
  <2> DEFINE new == UpdatedRow(z, etag, err)
  <2>2. Matches(z) => row.live /\ new.url = row.url /\ new.moved = row.moved
    BY <2>1 DEF Matches, UpdatedRow, Row
  <2>3. ~Matches(z) => new = row
    BY DEF UpdatedRow
  <2>. HIDE DEF new
  <2>4. CASE row.live
    BY <1>0, <1>6, <2>1, <2>2, <2>3, <2>4, RowWritten DEF new
  <2>5. CASE ~row.live
    BY <1>0, <1>6, <2>1, <2>2, <2>3, <2>5, RowWritten DEF new
  <2>. QED  BY <2>4, <2>5
<1>7. CASE RecordSuccess(p)
  <2>1. Active(p)
    BY <1>7 DEF RecordSuccess, Active
  <2>2. SetRow(z.id, UpdatedRow(z, IF z.et # {} THEN z.et ELSE z.etag, 0)) \/ rows' = rows
    BY <1>7 DEF RecordSuccess
  <2>. QED  BY <1>0, <1>6, <2>1, <2>2, RowsSame
<1>8. CASE RecordError(p)
  <2>1. Active(p)
    BY <1>8 DEF RecordError, Active
  <2>2. \/ SetRow(z.id, UpdatedRow(z, z.etag, IF z.err < ErrCap THEN z.err + 1 ELSE ErrCap))
        \/ rows' = rows
    BY <1>8 DEF RecordError
  <2>. QED  BY <1>0, <1>6, <2>1, <2>2, RowsSame
<1>9. CASE FetchFails(p) \/ FetchAnswers(p) \/ Resolve(p) \/ End(p)
  BY <1>0, <1>9, RowsSame DEF FetchFails, FetchAnswers, Resolve, End
<1>. QED  BY <1>2, <1>3, <1>4, <1>5, <1>7, <1>8, <1>9 DEF PipeStep

(* The requests: what the user types is normalised before it is compared.      *)
LEMMA RequestSpells ==
    ASSUME IInv, SpellInv,
           \/ \E r \in Requests, u \in URLs : Subscribe(r, u)
           \/ \E r \in Requests, id \in Ids, u \in EditURLs : EditRead(r, id, u)
           \/ \E r \in Requests, id \in Ids : Refresh(r, id)
           \/ \E r \in Requests : EditSetURL(r) \/ Spawn(r)
    PROVE  SpellInv'
<1>0. Distinct /\ RowsSpelled /\ TargetsSpelled
  BY DEF SpellInv
<1>1. ASSUME NEW r \in Requests, NEW u \in URLs, Subscribe(r, u) PROVE SpellInv'
  <2> DEFINE new == NewRow(lastId + 1, Norm[u])
             e == [pc |-> "spawn", id |-> NextId, op |-> "resolve",
                   sub |-> lastId + 1, url |-> Norm[u]]
  <2>1. NextId \in Ids
    BY <1>1, PollingAssumption DEF Subscribe, NextId, Ids, IInv, TypeOK
  <2>2. new.url = Norm[u] /\ Norm[Norm[u]] = Norm[u]
    BY PollingAssumption DEF NewRow, NoRow
  <2>3. URLFree(NextId, Norm[u])
    <3>1. URLFree(0, Norm[u])
      BY <1>1 DEF Subscribe
    <3>2. 0 \notin Ids
      BY DEF Ids
    <3>. QED  BY <3>1, <3>2 DEF URLFree
  <2>4. SetRow(NextId, new) /\ reqs' = [reqs EXCEPT ![r] = e] /\ pipes' = pipes
    BY <1>1 DEF Subscribe
  <2>5. Typed(e)
    BY DEF Typed
  <2>. HIDE DEF new, e
  <2>. QED  BY <1>0, <2>1, <2>2, <2>3, <2>4, <2>5, RowWritten, RequestMoved DEF SpellInv
<1>2. ASSUME NEW r \in Requests, NEW id \in Ids, NEW u \in EditURLs, EditRead(r, id, u)
      PROVE  SpellInv'
  <2> DEFINE e == [pc |-> "edit", id |-> id, op |-> "load",
                   sub |-> rows[id].sub, url |-> Norm[u]]
  <2>1. Typed(e)
    BY PollingAssumption DEF Typed
  <2>2. reqs' = [reqs EXCEPT ![r] = e] /\ pipes' = pipes /\ rows' = rows
    BY <1>2 DEF EditRead
  <2>. HIDE DEF e
  <2>. QED  BY <1>0, <2>1, <2>2, RowsSame, RequestMoved DEF SpellInv
<1>3. ASSUME NEW r \in Requests, NEW id \in Ids, Refresh(r, id) PROVE SpellInv'
  <2> DEFINE e == [NoRequest EXCEPT !.pc = "spawn", !.id = id, !.op = "load",
                                    !.sub = rows[id].sub]
  <2>1. Typed(e)
    BY DEF Typed, NoRequest
  <2>2. reqs' = [reqs EXCEPT ![r] = e] /\ pipes' = pipes /\ rows' = rows
    BY <1>3 DEF Refresh
  <2>. HIDE DEF e
  <2>. QED  BY <1>0, <2>1, <2>2, RowsSame, RequestMoved DEF SpellInv
<1>4. Typed(NoRequest)
  BY DEF Typed, NoRequest
<1>5. ASSUME NEW r \in Requests, EditSetURL(r) PROVE SpellInv'
  <2> DEFINE e == reqs[r]
             new == RowWithURL(rows[e.id], e.url)
             sp == [e EXCEPT !.pc = "spawn"]
  <2>1. e.id \in Ids /\ Norm[e.url] = e.url /\ rows[e.id] \in Row /\ e \in Request
    BY <1>0, <1>5 DEF EditSetURL, TargetsSpelled, Typed, IInv, ReqsInv, ReqFit, TypeOK
  <2>2. new.url = e.url
    BY <2>1 DEF RowWithURL, Row
  <2>3. Typed(sp)
    BY <2>1 DEF Typed, Request
  <2>4. [reqs EXCEPT ![r].pc = "spawn"] = [reqs EXCEPT ![r] = sp]
    BY DEF IInv, TypeOK
  <2>5. /\ (URLFree(e.id, e.url) /\ SetRow(e.id, new)) \/ rows' = rows
        /\ \/ reqs' = [reqs EXCEPT ![r].pc = "spawn"]
           \/ reqs' = [reqs EXCEPT ![r] = NoRequest]
        /\ pipes' = pipes
    BY <1>5 DEF EditSetURL
  <2>. HIDE DEF new, sp
  <2>6. Distinct' /\ RowsSpelled'
    BY <1>0, <2>1, <2>2, <2>5, RowWritten, RowsSame
  <2>7. TargetsSpelled'
    BY <1>0, <1>4, <2>3, <2>4, <2>5, RequestMoved
  <2>. QED  BY <2>6, <2>7 DEF SpellInv
<1>6. ASSUME NEW r \in Requests, Spawn(r) PROVE SpellInv'
  <2> DEFINE e == reqs[r]
             q == [NoPipe EXCEPT !.pc = e.op, !.id = e.id, !.sub = e.sub, !.url = e.url]
  <2>1. e.op \in {"resolve", "load"}
    BY <1>6 DEF Spawn, IInv, ReqsInv, ReqFit
  <2>2. Resolved(q)
    BY <2>1 DEF Resolved, NoPipe
  <2>3. /\ UNCHANGED pipes \/ \E b \in BgOps : SetPipe(b, q)
        /\ reqs' = [reqs EXCEPT ![r] = NoRequest] /\ rows' = rows
    BY <1>6 DEF Spawn
  <2>. HIDE DEF q
  <2>4. \A x \in Requests : Typed(reqs'[x])
    BY <1>0, <1>4, <2>3 DEF TargetsSpelled, IInv, TypeOK
  <2>5. \A x \in Pipes : Resolved(pipes'[x])
    BY <1>0, <2>2, <2>3 DEF TargetsSpelled, IInv, TypeOK, SetPipe, Pipes
  <2>6. TargetsSpelled'
    BY <2>4, <2>5 DEF TargetsSpelled, Typed, Resolved
  <2>. QED  BY <1>0, <2>3, <2>6, RowsSame DEF SpellInv
<1>. QED  BY <1>1, <1>2, <1>3, <1>5, <1>6

(* Two live rows hold spellings of one address only if a redirect stored one.  *)
THEOREM Duplicates == Spec => []DuplicatesOnlyByRedirect
<1>1. Init => SpellInv
  <2>1. Init => Distinct /\ RowsSpelled
    BY Blanks DEF Init, Distinct, RowsSpelled, Spelled
  <2>2. Init => TargetsSpelled
    BY Blanks DEF Init, TargetsSpelled, Resolved, Typed
  <2>. QED  BY <2>1, <2>2 DEF SpellInv
<1>2. IInv /\ SpellInv /\ [Next]_vars => SpellInv'
  <2> SUFFICES ASSUME IInv, SpellInv, [Next]_vars PROVE SpellInv'
    OBVIOUS
  <2>0. Distinct /\ RowsSpelled /\ TargetsSpelled
    BY DEF SpellInv
  <2>1. CASE \E w \in Workers, id \in Ids : Dispatch(w, id)
    BY <2>0, <2>1, Elsewhere, PipeMoved, RowsSame DEF Dispatch, Pipes, SpellInv
  <2>2. CASE \E id \in Ids : Elapse(id)
    <3>1. PICK id \in Ids : Elapse(id)
      BY <2>2
    <3> DEFINE new == [rows[id] EXCEPT !.next = "now"]
    <3>2. new.url = rows[id].url /\ new.moved = rows[id].moved /\ rows[id].live
      BY <3>1 DEF Elapse, IInv, TypeOK, Row
    <3>3. SetRow(id, new) /\ UNCHANGED <<pipes, reqs>>
      BY <3>1 DEF Elapse
    <3>. HIDE DEF new
    <3>4. TargetsSpelled'
      BY <2>0, <3>3 DEF TargetsSpelled, Typed, Resolved
    <3>. QED  BY <2>0, <3>2, <3>3, <3>4, RowWritten DEF SpellInv
  <2>3. CASE \E b \in BgOps : LoadRefresh(b)
    BY <2>0, <2>3, Elsewhere, PipeMoved, RowsSame DEF LoadRefresh, Pipes, SpellInv
  <2>4. CASE \E p \in Pipes : PipeStep(p)
    BY <2>0, <2>4, PipeTargets, PipeRows DEF SpellInv
  <2>5. CASE \/ \E r \in Requests, u \in URLs : Subscribe(r, u)
             \/ \E r \in Requests, id \in Ids, u \in EditURLs : EditRead(r, id, u)
             \/ \E r \in Requests, id \in Ids : Refresh(r, id)
             \/ \E r \in Requests : EditSetURL(r) \/ Spawn(r)
    BY <2>5, RequestSpells
  <2>6. CASE \E id \in Ids : DeleteFeed(id)
    <3>1. PICK id \in Ids : SetRow(id, NoRow) /\ UNCHANGED <<pipes, reqs>>
      BY <2>6 DEF DeleteFeed
    <3>2. TargetsSpelled'
      BY <2>0, <3>1 DEF TargetsSpelled, Typed, Resolved
    <3>. QED  BY <2>0, <3>1, <3>2, Blanks, RowWritten DEF SpellInv
  <2>7. CASE Restart
    <3>1. TargetsSpelled'
      BY <2>7, Blanks DEF Restart, TargetsSpelled, Typed, Resolved
    <3>2. rows' = rows
      BY <2>7 DEF Restart
    <3>. QED  BY <2>0, <3>1, <3>2, RowsSame DEF SpellInv
  <2>8. CASE Shutdown \/ UNCHANGED vars
    <3>1. UNCHANGED <<rows, pipes, reqs>>
      BY <2>8 DEF Shutdown, vars
    <3>2. TargetsSpelled'
      BY <2>0, <3>1 DEF TargetsSpelled, Typed, Resolved
    <3>. QED  BY <2>0, <3>1, <3>2, RowsSame DEF SpellInv
  <2>. QED  BY <2>1, <2>2, <2>3, <2>4, <2>5, <2>6, <2>7, <2>8 DEF Next
<1>3. SpellInv => DuplicatesOnlyByRedirect
  BY DEF SpellInv, Distinct, RowsSpelled, Spelled, DuplicatesOnlyByRedirect
<1>. QED  BY <1>1, <1>2, <1>3, Invariance, PTL DEF Spec
=============================================================================
