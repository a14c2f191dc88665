------------------------- MODULE EntryLifecycleProofs -------------------------
(***************************************************************************)
(* The entries table for every number of feeds, guids, polls, scrapes and  *)
(* tabs.                                                                   *)
(*                                                                         *)
(* Scrapes write by id alone, from a snapshot, so a row's consistency is   *)
(* only inductive together with the budget of the snapshots in flight: a   *)
(* pending row, and a scrape under way, have an attempt left.  That is     *)
(* what keeps the attempt count within its cap although duplicate scrapes  *)
(* push it back and forth.                                                 *)
(***************************************************************************)
EXTENDS EntryLifecycle, FiniteOrders

\* A row is scheduled exactly while pending, done only with an article, and
\* pending only with an attempt left.
Fit(e) ==
    e.live =>
        /\ e.state = "pending" <=> e.next # "null"
        /\ e.state = "done" => e.article
        /\ e.state = "pending" => e.attempts < MaxAttempts

\* A row of a feed with full content on is queued or settled.
Queued(e) == e.live /\ full[e.key[1]] => e.state # "none"

RowsFit == \A i \in Ids : Fit(entries[i]) /\ Queued(entries[i])

\* A scrape under way has a row id and an attempt left.
JobsFit ==
    \A w \in Scrapers :
        jobs[w].pc # "idle" => jobs[w].id \in Ids /\ jobs[w].attempts < MaxAttempts

\* A tab that shows an entry has its id.
TabsFit == \A t \in Tabs : tabs[t].pc # "idle" => tabs[t].id \in Ids

IInv == TypeOK /\ RowsFit /\ JobsFit /\ TabsFit /\ OneRowPerGuid

-----------------------------------------------------------------------------
(* Rows *)

LEMMA AnyTyped == AnyKey \in Keys /\ AnyHash \in Hashes
<1>1. PICK f \in Feeds, g \in Guids : TRUE
  BY LifecycleAssumption
<1>2. <<f, g>> \in Keys
  BY DEF Keys
<1>. QED  BY <1>2, LifecycleAssumption DEF AnyKey, AnyHash

LEMMA Blank ==
    /\ NoEntry \in Entry /\ ~NoEntry.live
    /\ NoPoll \in Poll
    /\ NoJob \in Job /\ NoJob.pc = "idle"
    /\ NoTab \in Tab /\ NoTab.pc = "idle"
  BY AnyTyped, LifecycleAssumption
  DEF NoEntry, Entry, NoPoll, Poll, NoJob, Job, NoTab, Tab

LEMMA InsertedFits ==
    ASSUME TypeOK, NEW q \in Poll
    PROVE  /\ Inserted(q) \in Entry /\ Fit(Inserted(q)) /\ Queued(Inserted(q))
           /\ Inserted(q).key = q.key
<1>1. q.key \in Keys /\ q.hash \in Hashes
  BY DEF Poll
<1>2. InsertState(q) \in {"none", "pending"} /\ (full[q.key[1]] => InsertState(q) = "pending")
  BY DEF InsertState
<1>. QED  BY <1>1, <1>2, LifecycleAssumption DEF Inserted, Entry, Fit, Queued

LEMMA EditedFits ==
    ASSUME NEW e \in Entry, Fit(e), NEW h \in Hashes
    PROVE  /\ Edited(e, h) \in Entry /\ Fit(Edited(e, h))
           /\ Edited(e, h).live = e.live
           /\ Edited(e, h).key = e.key
           /\ Edited(e, h).state = e.state
  BY DEF Edited, Entry, Fit

LEMMA RequeuedFits ==
    ASSUME NEW e \in Entry
    PROVE  /\ Requeued(e) \in Entry /\ Fit(Requeued(e))
           /\ Requeued(e).live = e.live
           /\ Requeued(e).key = e.key
           /\ Requeued(e).state = "pending"
<1>1. MaxAttempts \in Nat /\ 0 \in 0..MaxAttempts /\ 0 < MaxAttempts
  BY LifecycleAssumption
<1>2. Requeued(e) \in Entry
  BY <1>1 DEF Requeued, Entry
<1>3. Requeued(e).live = e.live /\ Requeued(e).key = e.key
  BY DEF Requeued, Entry
<1>4. Requeued(e).state = "pending" /\ Requeued(e).next = "now" /\ Requeued(e).attempts = 0
  BY DEF Requeued, Entry
<1>. QED  BY <1>1, <1>2, <1>3, <1>4 DEF Fit

LEMMA CancelledFits ==
    ASSUME NEW e \in Entry
    PROVE  /\ Cancelled(e) \in Entry /\ Fit(Cancelled(e))
           /\ Cancelled(e).live = e.live
           /\ Cancelled(e).key = e.key
           /\ Cancelled(e).state = "none"
  BY DEF Cancelled, Entry, Fit

\* The id of an inserted row is above every id in use.
LEMMA NextIdFresh ==
    /\ NextId \in 1..MaxId + 1
    /\ \A i \in Ids : entries[i].live => i < NextId
<1> DEFINE Live == {i \in Ids : entries[i].live}
           Next_(n) == /\ \A i \in Ids : entries[i].live => i < n
                       /\ n = 1 \/ entries[n - 1].live
<1>1. \E n \in 1..MaxId + 1 : Next_(n)
  <2>1. CASE Live = {}
    <3>1. Next_(1)
      BY <2>1
    <3>. QED  BY <3>1, LifecycleAssumption
  <2>2. CASE Live # {}
    <3>1. IsFiniteSet(Ids) /\ Ids \subseteq Int
      BY FS_Interval, LifecycleAssumption DEF Ids
    <3>2. Live \in SUBSET Int /\ IsFiniteSet(Live)
      BY <3>1, FS_Subset
    <3>3. PICK m \in Live : \A i \in Live : i <= m
      BY <2>2, <3>2, FiniteMax
    <3>4. m + 1 \in 1..MaxId + 1 /\ m \in Int
      BY LifecycleAssumption DEF Ids
    <3>5. \A i \in Ids : entries[i].live => i < m + 1
      BY <3>3, <3>4, LifecycleAssumption DEF Ids
    <3>6. Next_(m + 1)
      BY <3>4, <3>5
    <3>. QED  BY <3>4, <3>6
  <2>. QED  BY <2>1, <2>2
<1>2. NextId = CHOOSE n \in 1..MaxId + 1 : Next_(n)
  BY DEF NextId
<1>3. NextId \in 1..MaxId + 1 /\ Next_(NextId)
  <2> HIDE DEF Next_
  <2>. QED  BY <1>1, <1>2
<1>. QED  BY <1>3

LEMMA InitFits == Init => IInv
<1> SUFFICES ASSUME Init PROVE IInv
  OBVIOUS
<1>1. TypeOK
  BY Blank, LifecycleAssumption DEF Init, TypeOK
<1>2. RowsFit /\ OneRowPerGuid
  BY Blank DEF Init, RowsFit, OneRowPerGuid, Fit, Queued
<1>3. JobsFit /\ TabsFit
  BY Blank DEF Init, JobsFit, TabsFit
<1>. QED  BY <1>1, <1>2, <1>3 DEF IInv

\* A step that brings no row to life and changes no key keeps guids unique.
LEMMA KeysKept ==
    ASSUME OneRowPerGuid,
           \A i \in Ids : entries'[i].live => entries[i].live /\ entries'[i].key = entries[i].key
    PROVE  OneRowPerGuid'
  BY DEF OneRowPerGuid

-----------------------------------------------------------------------------
(* Polls *)

LEMMA DedupKeeps ==
    ASSUME IInv, NEW p \in Pollers, NEW k \in Keys, NEW h \in Hashes, Dedup(p, k, h)
    PROVE  IInv'
<1> DEFINE q == [pc |-> "upsert", key |-> k, hash |-> h,
                 known |-> Stored(k) # {}, full |-> full[k[1]]]
<1>1. k[1] \in Feeds
  BY DEF Keys
<1>2. q \in Poll
  <2>1. (Stored(k) # {}) \in BOOLEAN /\ full[k[1]] \in BOOLEAN
    BY <1>1 DEF IInv, TypeOK
  <2>. QED  BY <2>1 DEF Poll
<1>3. TypeOK'
  <2> HIDE DEF q
  <2>1. polls' = [polls EXCEPT ![p] = q]
    BY DEF Dedup, q
  <2>2. polls' \in [Pollers -> Poll]
    BY <1>2, <2>1 DEF IInv, TypeOK
  <2>. QED  BY <2>2 DEF Dedup, IInv, TypeOK
<1>4. RowsFit' /\ JobsFit' /\ TabsFit' /\ OneRowPerGuid'
  BY DEF Dedup, IInv, RowsFit, JobsFit, TabsFit, OneRowPerGuid, Fit, Queued
<1>. QED  BY <1>3, <1>4 DEF IInv

LEMMA UpsertFailsKeeps ==
    ASSUME IInv, NEW p \in Pollers, UpsertFails(p)
    PROVE  IInv'
<1>1. TypeOK'
  BY Blank DEF UpsertFails, IInv, TypeOK
<1>2. RowsFit' /\ JobsFit' /\ TabsFit' /\ OneRowPerGuid'
  BY DEF UpsertFails, IInv, RowsFit, JobsFit, TabsFit, OneRowPerGuid, Fit, Queued
<1>. QED  BY <1>1, <1>2 DEF IInv

LEMMA UpsertKeeps ==
    ASSUME IInv, NEW p \in Pollers, Upsert(p)
    PROVE  IInv'
<1> DEFINE q == polls[p]
<1>1. q \in Poll /\ q.key \in Keys /\ q.hash \in Hashes
  BY DEF IInv, TypeOK, Poll
<1>2. polls' \in [Pollers -> Poll]
  BY Blank DEF Upsert, IInv, TypeOK
<1>3. UNCHANGED <<feeds, full, tombs, jobs, tabs, up, transients, restarts>>
  BY DEF Upsert
<1>4. entries' \in [Ids -> Entry] /\ RowsFit' /\ OneRowPerGuid'
  <2>1. CASE UNCHANGED entries
    BY <1>3, <2>1 DEF IInv, TypeOK, RowsFit, OneRowPerGuid, Fit, Queued
  <2>2. CASE /\ Present(q) = {} /\ NextId \in Ids
             /\ entries' = [entries EXCEPT ![NextId] = Inserted(q)]
    <3>1. /\ Inserted(q) \in Entry /\ Fit(Inserted(q)) /\ Queued(Inserted(q))
          /\ Inserted(q).key = q.key
      BY <1>1, InsertedFits DEF IInv
    <3>2. \A i \in Ids : entries'[i] = IF i = NextId THEN Inserted(q) ELSE entries[i]
      BY <2>2 DEF IInv, TypeOK
    <3>3. entries' \in [Ids -> Entry]
      BY <2>2, <3>1 DEF IInv, TypeOK
    <3>4. RowsFit'
      BY <1>3, <3>1, <3>2 DEF IInv, RowsFit, Fit, Queued
    <3>5. \A i \in Ids : entries[i].live => entries[i].key # q.key
      BY <2>2 DEF Present, Stored
    <3>6. OneRowPerGuid'
      BY <3>1, <3>2, <3>5 DEF IInv, OneRowPerGuid
    <3>. QED  BY <3>3, <3>4, <3>6
  <2>3. CASE entries' = [i \in Ids |->
                           IF i \in Present(q) /\ entries[i].hash # q.hash
                           THEN Edited(entries[i], q.hash) ELSE entries[i]]
    <3>1. \A i \in Ids : entries[i] \in Entry /\ Fit(entries[i]) /\ Queued(entries[i])
      BY DEF IInv, TypeOK, RowsFit
    <3>2. \A i \in Ids :
             LET d == Edited(entries[i], q.hash) IN
             /\ d \in Entry /\ Fit(d)
             /\ d.live = entries[i].live /\ d.key = entries[i].key
             /\ d.state = entries[i].state
      BY <1>1, <3>1, EditedFits
    <3>3. \A i \in Ids :
             /\ entries'[i] \in Entry /\ Fit(entries'[i])
             /\ entries'[i].live = entries[i].live /\ entries'[i].key = entries[i].key
             /\ entries'[i].state = entries[i].state
      BY <2>3, <3>1, <3>2
    <3>4. entries' \in [Ids -> Entry]
      BY <2>3, <3>3
    <3>5. RowsFit'
      BY <1>3, <3>1, <3>3 DEF RowsFit, Fit, Queued
    <3>6. OneRowPerGuid'
      BY <3>3, KeysKept DEF IInv
    <3>. QED  BY <3>4, <3>5, <3>6
  <2>. QED  BY <2>1, <2>2, <2>3 DEF Upsert
<1>5. TypeOK'
  BY <1>2, <1>3, <1>4 DEF IInv, TypeOK
<1>6. JobsFit' /\ TabsFit'
  BY <1>3 DEF IInv, JobsFit, TabsFit
<1>. QED  BY <1>4, <1>5, <1>6 DEF IInv

-----------------------------------------------------------------------------
(* Scrapes *)

\* What the steps of one scrape change: its own job, and the row it names.
LEMMA JobStep ==
    ASSUME IInv, NEW w \in Scrapers, NEW j \in Job,
           j.pc # "idle" => j.id \in Ids /\ j.attempts < MaxAttempts,
           jobs' = [jobs EXCEPT ![w] = j]
    PROVE  jobs' \in [Scrapers -> Job] /\ JobsFit'
  BY DEF IInv, TypeOK, JobsFit

LEMMA OneRowStep ==
    ASSUME IInv, NEW id \in Ids, NEW e \in Entry, Fit(e), Queued(e),
           e.live => entries[id].live /\ e.key = entries[id].key,
           entries' = [entries EXCEPT ![id] = e], UNCHANGED full
    PROVE  entries' \in [Ids -> Entry] /\ RowsFit' /\ OneRowPerGuid'
<1>1. \A i \in Ids : entries'[i] = IF i = id THEN e ELSE entries[i]
  BY DEF IInv, TypeOK
<1>2. entries' \in [Ids -> Entry]
  BY DEF IInv, TypeOK
<1>3. RowsFit'
  BY <1>1 DEF IInv, RowsFit, Fit, Queued
<1>4. OneRowPerGuid'
  BY <1>1, KeysKept DEF IInv
<1>. QED  BY <1>2, <1>3, <1>4

LEMMA SameRows ==
    ASSUME IInv, UNCHANGED <<entries, full>>
    PROVE  entries' \in [Ids -> Entry] /\ RowsFit' /\ OneRowPerGuid'
  BY DEF IInv, TypeOK, RowsFit, OneRowPerGuid, Fit, Queued

\* UpdateExtractState keeps a row consistent when the new state is.
LEMMA ExtractFits ==
    ASSUME IInv, NEW id \in Ids, NEW state \in {"pending", "failed"},
           NEW n \in 0..MaxAttempts, NEW next \in {"null", "later"},
           state = "pending" <=> next = "later",
           state = "pending" => n < MaxAttempts,
           ExtractUpdate(id, state, n, next), UNCHANGED full
    PROVE  entries' \in [Ids -> Entry] /\ RowsFit' /\ OneRowPerGuid'
<1>1. CASE UNCHANGED entries
  BY <1>1, SameRows
<1>2. CASE entries[id].live /\ ~UNCHANGED entries
  <2> DEFINE e == [entries[id] EXCEPT !.state = state, !.attempts = n, !.next = next]
  <2>1. entries[id] \in Entry
    BY DEF IInv, TypeOK
  <2>2. e \in Entry
    BY <2>1 DEF Entry
  <2>3. /\ e.live = entries[id].live /\ e.key = entries[id].key
        /\ e.state = state /\ e.attempts = n /\ e.next = next
    BY <2>1 DEF Entry
  <2>4. entries' = [entries EXCEPT ![id] = e]
    BY <1>2, <2>1 DEF ExtractUpdate, IInv, TypeOK, Entry
  <2> HIDE DEF e
  <2>5. Fit(e) /\ Queued(e)
    BY <2>3 DEF Fit, Queued
  <2>. QED  BY <2>2, <2>3, <2>4, <2>5, OneRowStep
<1>. QED  BY <1>1, <1>2 DEF ExtractUpdate

LEMMA DispatchKeeps ==
    ASSUME IInv, NEW w \in Scrapers, NEW id \in Ids, Dispatch(w, id)
    PROVE  IInv'
<1> DEFINE j == [NoJob EXCEPT !.pc = "fetch", !.id = id, !.attempts = entries[id].attempts]
<1>1. entries[id] \in Entry /\ entries[id].attempts < MaxAttempts
  BY DEF Dispatch, IInv, TypeOK, RowsFit, Fit
<1>2. j \in Job /\ j.id = id /\ j.attempts < MaxAttempts
  <2>1. id \in 0..MaxId /\ entries[id].attempts \in 0..MaxAttempts
    BY <1>1, LifecycleAssumption DEF Entry, Ids
  <2>. QED  BY <1>1, <2>1, Blank DEF Job
<1>3. jobs' \in [Scrapers -> Job] /\ JobsFit'
  <2> HIDE DEF j
  <2>1. jobs' = [jobs EXCEPT ![w] = j]
    BY DEF Dispatch, SetJob, j
  <2>. QED  BY <1>2, <2>1, JobStep
<1>4. entries' \in [Ids -> Entry] /\ RowsFit' /\ OneRowPerGuid'
  BY SameRows DEF Dispatch
<1>5. TypeOK' /\ TabsFit'
  BY <1>3, <1>4 DEF Dispatch, IInv, TypeOK, TabsFit
<1>. QED  BY <1>3, <1>4, <1>5 DEF IInv

LEMMA ScrapeKeeps ==
    ASSUME IInv, NEW w \in Scrapers, Scrape(w)
    PROVE  IInv'
<1>1. PICK pc \in {"store", "fail", "retry"} : jobs' = [jobs EXCEPT ![w] = [jobs[w] EXCEPT !.pc = pc]]
  BY DEF Scrape, SetJob
<1>2. /\ [jobs[w] EXCEPT !.pc = pc] \in Job
      /\ [jobs[w] EXCEPT !.pc = pc].id = jobs[w].id
      /\ [jobs[w] EXCEPT !.pc = pc].attempts = jobs[w].attempts
  BY DEF IInv, TypeOK, Job
<1>3. jobs[w].id \in Ids /\ jobs[w].attempts < MaxAttempts
  BY DEF Scrape, IInv, JobsFit
<1>4. jobs' \in [Scrapers -> Job] /\ JobsFit'
  BY <1>1, <1>2, <1>3, JobStep
<1>5. entries' \in [Ids -> Entry] /\ RowsFit' /\ OneRowPerGuid'
  BY SameRows DEF Scrape
<1>6. transients' \in 0..MaxTransient
  BY LifecycleAssumption DEF Scrape, IInv, TypeOK
<1>7. TypeOK' /\ TabsFit'
  BY <1>4, <1>5, <1>6 DEF Scrape, IInv, TypeOK, TabsFit
<1>. QED  BY <1>4, <1>5, <1>7 DEF IInv

LEMMA StoreContentKeeps ==
    ASSUME IInv, NEW w \in Scrapers, StoreContent(w)
    PROVE  IInv'
<1> DEFINE id == jobs[w].id
<1>1. id \in Ids /\ jobs[w].attempts < MaxAttempts /\ jobs[w] \in Job
  BY DEF StoreContent, IInv, TypeOK, JobsFit
<1>2. jobs' \in [Scrapers -> Job] /\ JobsFit'
  <2>1. CASE SetJob(w, NoJob)
    BY <2>1, Blank, JobStep DEF SetJob
  <2>2. CASE SetJob(w, [jobs[w] EXCEPT !.pc = "fail"])
    <3>1. /\ [jobs[w] EXCEPT !.pc = "fail"] \in Job
          /\ [jobs[w] EXCEPT !.pc = "fail"].id = id
          /\ [jobs[w] EXCEPT !.pc = "fail"].attempts = jobs[w].attempts
      BY <1>1 DEF Job
    <3>. QED  BY <1>1, <2>2, <3>1, JobStep DEF SetJob
  <2>. QED  BY <2>1, <2>2 DEF StoreContent
<1>3. entries' \in [Ids -> Entry] /\ RowsFit' /\ OneRowPerGuid'
  <2>1. CASE UNCHANGED entries
    BY <2>1, SameRows DEF StoreContent
  <2>2. CASE entries' = [entries EXCEPT ![id].article = TRUE,
                                        ![id].state = "done",
                                        ![id].next = "null"]
             /\ entries[id].live
    <3> DEFINE e == [entries[id] EXCEPT !.article = TRUE, !.state = "done", !.next = "null"]
    <3>1. entries[id] \in Entry
      BY <1>1 DEF IInv, TypeOK
    <3>2. e \in Entry
      BY <3>1 DEF Entry
    <3>3. /\ e.live = entries[id].live /\ e.key = entries[id].key
          /\ e.state = "done" /\ e.article = TRUE /\ e.next = "null"
      BY <3>1 DEF Entry
    <3>4. entries' = [entries EXCEPT ![id] = e]
      BY <1>1, <2>2, <3>1 DEF IInv, TypeOK, Entry
    <3> HIDE DEF e
    <3>5. Fit(e) /\ Queued(e)
      BY <3>3 DEF Fit, Queued
    <3>. QED  BY <1>1, <2>2, <3>2, <3>3, <3>4, <3>5, OneRowStep DEF StoreContent
  <2>. QED  BY <2>1, <2>2 DEF StoreContent
<1>4. TypeOK' /\ TabsFit'
  BY <1>2, <1>3 DEF StoreContent, IInv, TypeOK, TabsFit
<1>. QED  BY <1>2, <1>3, <1>4 DEF IInv

LEMMA FailKeeps ==
    ASSUME IInv, NEW w \in Scrapers, Fail(w)
    PROVE  IInv'
<1> DEFINE j == jobs[w]
           n == Attempts(j)
<1>1. j.id \in Ids /\ j.attempts < MaxAttempts /\ j.attempts \in 0..MaxAttempts
  BY DEF Fail, IInv, TypeOK, JobsFit, Job
<1>2. n \in 0..MaxAttempts
  BY <1>1, LifecycleAssumption DEF Attempts
<1>3. jobs' \in [Scrapers -> Job] /\ JobsFit'
  BY Blank, JobStep DEF Fail, SetJob
<1>4. entries' \in [Ids -> Entry] /\ RowsFit' /\ OneRowPerGuid'
  <2> HIDE DEF n, j
  <2>1. CASE UNCHANGED entries
    BY <2>1, SameRows DEF Fail
  <2>2. CASE Exhausted(n) /\ ExtractUpdate(j.id, "failed", n, "null")
    BY <1>1, <1>2, <2>2, ExtractFits DEF Fail
  <2>3. CASE ~Exhausted(n) /\ ExtractUpdate(j.id, "pending", n, "later")
    <3>1. n < MaxAttempts
      BY <1>2, <2>3, LifecycleAssumption DEF Exhausted
    <3>. QED  BY <1>1, <1>2, <2>3, <3>1, ExtractFits DEF Fail
  <2>. QED  BY <2>1, <2>2, <2>3 DEF Fail, j, n
<1>5. TypeOK' /\ TabsFit'
  BY <1>3, <1>4 DEF Fail, IInv, TypeOK, TabsFit
<1>. QED  BY <1>3, <1>4, <1>5 DEF IInv

LEMMA RetryLaterKeeps ==
    ASSUME IInv, NEW w \in Scrapers, RetryLater(w)
    PROVE  IInv'
<1>1. jobs[w].id \in Ids /\ jobs[w].attempts < MaxAttempts /\ jobs[w].attempts \in 0..MaxAttempts
  BY DEF RetryLater, IInv, TypeOK, JobsFit, Job
<1>2. jobs' \in [Scrapers -> Job] /\ JobsFit'
  BY Blank, JobStep DEF RetryLater, SetJob
<1>3. entries' \in [Ids -> Entry] /\ RowsFit' /\ OneRowPerGuid'
  BY <1>1, SameRows, ExtractFits DEF RetryLater
<1>4. TypeOK' /\ TabsFit'
  BY <1>2, <1>3 DEF RetryLater, IInv, TypeOK, TabsFit
<1>. QED  BY <1>2, <1>3, <1>4 DEF IInv

LEMMA ElapseKeeps ==
    ASSUME IInv, NEW id \in Ids, Elapse(id)
    PROVE  IInv'
<1> DEFINE e == [entries[id] EXCEPT !.next = "now"]
<1>1. entries[id] \in Entry /\ Fit(entries[id]) /\ Queued(entries[id])
  BY DEF IInv, TypeOK, RowsFit
<1>2. e \in Entry
  BY <1>1 DEF Entry
<1>3. /\ e.live = entries[id].live /\ e.key = entries[id].key
      /\ e.state = entries[id].state /\ e.article = entries[id].article
      /\ e.attempts = entries[id].attempts /\ e.next = "now"
  BY <1>1 DEF Entry
<1>4. entries' = [entries EXCEPT ![id] = e]
  BY <1>1 DEF Elapse, IInv, TypeOK, Entry
<1>5. entries' \in [Ids -> Entry] /\ RowsFit' /\ OneRowPerGuid'
  <2> HIDE DEF e
  <2>1. Fit(e) /\ Queued(e)
    BY <1>1, <1>3 DEF Elapse, Fit, Queued
  <2>. QED  BY <1>2, <1>3, <1>4, <2>1, OneRowStep DEF Elapse
<1>6. TypeOK' /\ JobsFit' /\ TabsFit'
  BY <1>5 DEF Elapse, IInv, TypeOK, JobsFit, TabsFit
<1>. QED  BY <1>5, <1>6 DEF IInv

-----------------------------------------------------------------------------
(* The user and the process *)

LEMMA SetFullContentKeeps ==
    ASSUME IInv, NEW f \in Feeds, NEW on \in BOOLEAN, SetFullContent(f, on)
    PROVE  IInv'
<1> DEFINE To(e) ==
             CASE e.live /\ e.key[1] = f /\ on /\ e.state \in {"none", "failed"} -> Requeued(e)
               [] e.live /\ e.key[1] = f /\ ~on /\ e.state \in {"pending", "failed"} -> Cancelled(e)
               [] OTHER -> e
<1>1. full' \in [Feeds -> BOOLEAN] /\ full'[f] = on /\ \A g \in Feeds \ {f} : full'[g] = full[g]
  BY DEF SetFullContent, IInv, TypeOK
<1>2. \A i \in Ids : entries'[i] = To(entries[i])
  BY DEF SetFullContent
<1>3. ASSUME NEW i \in Ids
      PROVE  /\ entries'[i] \in Entry
             /\ Fit(entries'[i])
             /\ entries'[i].live = entries[i].live
             /\ entries'[i].key = entries[i].key
             /\ Queued(entries[i])'
  <2> DEFINE e == entries[i]
  <2>1. e \in Entry /\ Fit(e) /\ Queued(e) /\ e.key[1] \in Feeds
    BY DEF IInv, TypeOK, RowsFit, Entry, Keys
  <2>2. /\ Requeued(e) \in Entry /\ Fit(Requeued(e))
        /\ Requeued(e).live = e.live /\ Requeued(e).key = e.key
        /\ Requeued(e).state = "pending"
    BY <2>1, RequeuedFits
  <2>3. /\ Cancelled(e) \in Entry /\ Fit(Cancelled(e))
        /\ Cancelled(e).live = e.live /\ Cancelled(e).key = e.key
    BY <2>1, CancelledFits
  <2>4. entries'[i] = To(e)
    BY <1>2
  <2> HIDE DEF e
  <2>5. CASE ~e.live \/ e.key[1] # f
    <3>1. entries'[i] = e
      BY <2>4, <2>5
    <3>. QED  BY <1>1, <2>1, <2>5, <3>1 DEF Queued, e
  <2>6. CASE e.live /\ e.key[1] = f /\ on
    <3>1. CASE e.state \in {"none", "failed"}
      <4>1. entries'[i] = Requeued(e)
        BY <2>4, <2>6, <3>1
      <4>. QED  BY <2>2, <4>1 DEF Queued, e
    <3>2. CASE e.state \notin {"none", "failed"}
      <4>1. entries'[i] = e
        BY <2>4, <2>6, <3>2
      <4>. QED  BY <2>1, <3>2, <4>1 DEF Queued, e
    <3>. QED  BY <3>1, <3>2
  <2>7. CASE e.live /\ e.key[1] = f /\ ~on
    <3>1. entries'[i] \in {e, Cancelled(e)}
      BY <2>4, <2>7
    <3>2. entries'[i].key = e.key
      BY <2>3, <3>1
    <3>3. Queued(entries[i])'
      BY <1>1, <2>7, <3>2 DEF Queued
    <3>. QED  BY <2>1, <2>3, <3>1, <3>3 DEF e
  <2>. QED  BY <2>5, <2>6, <2>7
<1>4. entries' \in [Ids -> Entry] /\ RowsFit'
  <2>1. entries' = [i \in Ids |-> entries'[i]]
    BY DEF SetFullContent
  <2>2. entries' \in [Ids -> Entry]
    BY <1>3, <2>1
  <2>3. RowsFit'
    BY <1>3 DEF RowsFit, Fit
  <2>. QED  BY <2>2, <2>3
<1>5. OneRowPerGuid'
  BY <1>3, KeysKept DEF IInv
<1>6. TypeOK' /\ JobsFit' /\ TabsFit'
  BY <1>1, <1>4 DEF SetFullContent, IInv, TypeOK, JobsFit, TabsFit
<1>. QED  BY <1>4, <1>5, <1>6 DEF IInv

LEMMA DeleteFeedKeeps ==
    ASSUME IInv, NEW f \in Feeds, DeleteFeed(f)
    PROVE  IInv'
<1>1. \A i \in Ids : entries'[i] = entries[i] \/ entries'[i] = NoEntry
  BY DEF DeleteFeed
<1>2. entries' \in [Ids -> Entry]
  BY Blank DEF DeleteFeed, IInv, TypeOK
<1>3. RowsFit'
  BY <1>1, Blank DEF DeleteFeed, IInv, RowsFit, Fit, Queued
<1>4. OneRowPerGuid'
  BY <1>1, Blank, KeysKept DEF IInv
<1>5. TypeOK' /\ JobsFit' /\ TabsFit'
  BY <1>2 DEF DeleteFeed, IInv, TypeOK, JobsFit, TabsFit
<1>. QED  BY <1>3, <1>4, <1>5 DEF IInv

LEMMA ShowKeeps ==
    ASSUME IInv, NEW t \in Tabs, NEW id \in Ids, Show(t, id)
    PROVE  IInv'
<1> DEFINE s == [NoTab EXCEPT !.pc = "page", !.id = id]
<1>1. s \in Tab /\ s.id = id
  <2>1. id \in 0..MaxId
    BY LifecycleAssumption DEF Ids
  <2>. QED  BY <2>1, Blank DEF Tab
<1>2. tabs' \in [Tabs -> Tab] /\ TabsFit'
  <2> HIDE DEF s
  <2>1. tabs' = [tabs EXCEPT ![t] = s]
    BY DEF Show, s
  <2>. QED  BY <1>1, <2>1 DEF IInv, TypeOK, TabsFit
<1>3. entries' \in [Ids -> Entry] /\ RowsFit' /\ OneRowPerGuid'
  BY SameRows DEF Show
<1>4. TypeOK' /\ JobsFit'
  BY <1>2, <1>3 DEF Show, IInv, TypeOK, JobsFit
<1>. QED  BY <1>2, <1>3, <1>4 DEF IInv

LEMMA DeleteReadKeeps ==
    ASSUME IInv, NEW t \in Tabs, DeleteRead(t)
    PROVE  IInv'
<1> DEFINE id == tabs[t].id
           s == [tabs[t] EXCEPT !.pc = "tx", !.read = entries[id].key]
<1>1. id \in Ids /\ tabs[t] \in Tab /\ entries[id].key \in Keys
  BY DEF DeleteRead, IInv, TypeOK, TabsFit, Entry
<1>2. s \in Tab /\ s.id = id
  BY <1>1 DEF Tab
<1>3. tabs' \in [Tabs -> Tab] /\ TabsFit'
  <2>1. tabs' = [tabs EXCEPT ![t] = s] \/ tabs' = [tabs EXCEPT ![t] = NoTab]
    BY DEF DeleteRead, IInv, TypeOK
  <2> HIDE DEF s
  <2>. QED  BY <1>1, <1>2, <2>1, Blank DEF IInv, TypeOK, TabsFit
<1>4. entries' \in [Ids -> Entry] /\ RowsFit' /\ OneRowPerGuid'
  BY SameRows DEF DeleteRead
<1>5. TypeOK' /\ JobsFit'
  BY <1>3, <1>4 DEF DeleteRead, IInv, TypeOK, JobsFit
<1>. QED  BY <1>3, <1>4, <1>5 DEF IInv

LEMMA DeleteTxKeeps ==
    ASSUME IInv, NEW t \in Tabs, DeleteTx(t)
    PROVE  IInv'
<1> DEFINE id == tabs[t].id
<1>1. id \in Ids /\ tabs[t].read \in Keys
  BY DEF DeleteTx, IInv, TypeOK, TabsFit, Tab
<1>2. entries' \in [Ids -> Entry] /\ RowsFit' /\ OneRowPerGuid'
  <2>1. CASE UNCHANGED entries
    BY <2>1, SameRows DEF DeleteTx
  <2>2. CASE entries' = [entries EXCEPT ![id] = NoEntry]
    <3>1. Fit(NoEntry) /\ Queued(NoEntry)
      BY Blank DEF Fit, Queued
    <3>. QED  BY <1>1, <2>2, <3>1, Blank, OneRowStep DEF DeleteTx
  <2>. QED  BY <2>1, <2>2 DEF DeleteTx
<1>3. tabs' \in [Tabs -> Tab] /\ TabsFit'
  BY Blank DEF DeleteTx, IInv, TypeOK, TabsFit
<1>4. tombs' \subseteq Keys
  BY <1>1 DEF DeleteTx, IInv, TypeOK
<1>5. TypeOK' /\ JobsFit'
  BY <1>2, <1>3, <1>4 DEF DeleteTx, IInv, TypeOK, JobsFit
<1>. QED  BY <1>2, <1>3, <1>5 DEF IInv

LEMMA ProcessKeeps ==
    ASSUME IInv, Shutdown \/ Restart
    PROVE  IInv'
<1>1. entries' \in [Ids -> Entry] /\ RowsFit' /\ OneRowPerGuid'
  BY SameRows DEF Shutdown, Restart
<1>2. CASE Shutdown
  BY <1>1, <1>2, LifecycleAssumption DEF Shutdown, IInv, TypeOK, JobsFit, TabsFit
<1>3. CASE Restart
  <2>1. JobsFit' /\ TabsFit'
    BY <1>3, Blank DEF Restart, IInv, JobsFit, TabsFit
  <2>2. TypeOK'
    BY <1>1, <1>3, Blank DEF Restart, IInv, TypeOK
  <2>. QED  BY <1>1, <2>1, <2>2 DEF IInv
<1>. QED  BY <1>2, <1>3

LEMMA NextKeeps == IInv /\ [Next]_vars => IInv'
<1> SUFFICES ASSUME IInv, [Next]_vars PROVE IInv'
  OBVIOUS
<1>1. CASE UNCHANGED vars
  BY <1>1 DEF vars, IInv, TypeOK, RowsFit, JobsFit, TabsFit, OneRowPerGuid, Fit, Queued
<1>2. CASE \/ \E p \in Pollers, k \in Keys, h \in Hashes : Dedup(p, k, h)
           \/ \E p \in Pollers : Upsert(p) \/ UpsertFails(p)
  BY <1>2, DedupKeeps, UpsertKeeps, UpsertFailsKeeps
<1>3. CASE \/ \E w \in Scrapers, id \in Ids : Dispatch(w, id)
           \/ \E id \in Ids : Elapse(id)
           \/ \E w \in Scrapers : ScrapeStep(w)
  BY <1>3, DispatchKeeps, ElapseKeeps, ScrapeKeeps, StoreContentKeeps, FailKeeps,
     RetryLaterKeeps DEF ScrapeStep
<1>4. CASE \/ \E f \in Feeds, on \in BOOLEAN : SetFullContent(f, on)
           \/ \E f \in Feeds : DeleteFeed(f)
  BY <1>4, SetFullContentKeeps, DeleteFeedKeeps
<1>5. CASE \/ \E t \in Tabs, id \in Ids : Show(t, id)
           \/ \E t \in Tabs : DeleteRead(t) \/ DeleteTx(t)
  BY <1>5, ShowKeeps, DeleteReadKeeps, DeleteTxKeeps
<1>6. CASE Shutdown \/ Restart
  BY <1>6, ProcessKeeps
<1>. QED  BY <1>1, <1>2, <1>3, <1>4, <1>5, <1>6 DEF Next

-----------------------------------------------------------------------------
\* The inductive invariant holds in every reachable state.
THEOREM Invariance == Spec => []IInv
  BY InitFits, NextKeeps, PTL DEF Spec

\* Every variable keeps its type; in particular no row's attempt count passes
\* the cap, whatever duplicate scrapes write back.
THEOREM TypeCorrect == Spec => []TypeOK
<1>1. IInv => TypeOK
  BY DEF IInv
<1>. QED  BY Invariance, <1>1, PTL

\* However polls of a feed overlap, UpsertEntries never stores a guid twice.
THEOREM UniqueGuids == Spec => []OneRowPerGuid
<1>1. IInv => OneRowPerGuid
  BY DEF IInv
<1>. QED  BY Invariance, <1>1, PTL

\* A pending row always has a time at which dispatch will list it, and no other
\* row has one.
THEOREM QueueScheduled == Spec => []ScheduledWhilePending
<1>1. IInv => ScheduledWhilePending
  BY DEF IInv, RowsFit, Fit, ScheduledWhilePending
<1>. QED  BY Invariance, <1>1, PTL

\* A row marked done keeps its article through edits, late failures of duplicate
\* scrapes and switches of the feed's flag.
THEOREM DoneIsArticle == Spec => []DoneShowsArticle
<1>1. IInv => DoneShowsArticle
  BY DEF IInv, RowsFit, Fit, DoneShowsArticle
<1>. QED  BY Invariance, <1>1, PTL

\* A poll that began before full content was switched on queues its new entry
\* all the same.
THEOREM FullContentQueues == Spec => []FullMeansQueued
<1>1. IInv => FullMeansQueued
  BY DEF IInv, RowsFit, Queued, FullMeansQueued
<1>. QED  BY Invariance, <1>1, PTL

-----------------------------------------------------------------------------
(***************************************************************************)
(* Tombstones.  DeleteEntry reads the guid before its transaction and then *)
(* deletes by id, and ids are reused, so it is only sound when the row     *)
(* under the id is still the one that was read.  Polls, scrapes and feed   *)
(* deletions never take that away; a second delete under way can, so the   *)
(* theorem is about behaviours in which deletes do not overlap.            *)
(***************************************************************************)

\* No two DeleteEntry calls are between their read and their transaction.
OneDelete == \A t, u \in Tabs : tabs[t].pc = "tx" /\ tabs[u].pc = "tx" => t = u

\* The row a delete has read is still there, unless its feed is gone.
DeletesKnow ==
    \A t \in Tabs :
        tabs[t].pc = "tx" /\ tabs[t].read[1] \in feeds =>
            entries[tabs[t].id].live /\ entries[tabs[t].id].key = tabs[t].read

Held == TombstonesHold /\ DeletesKnow

\* A step in which every live row keeps its key and none comes to life.
LEMMA KeptRowsHold ==
    ASSUME IInv, Held, UNCHANGED <<feeds, tombs>>,
           \A i \in Ids : /\ entries'[i].live = entries[i].live
                          /\ entries'[i].key = entries[i].key,
           \A t \in Tabs : tabs'[t].pc = "tx" => tabs'[t] = tabs[t]
    PROVE  Held'
<1>1. TombstonesHold'
  BY DEF Held, TombstonesHold
<1>2. DeletesKnow'
  BY DEF IInv, TabsFit, Held, DeletesKnow
<1>. QED  BY <1>1, <1>2 DEF Held

\* What a scrape, a timer or the switch writes leaves every key alone.
LEMMA ScrapesKeepKeys ==
    ASSUME IInv, NEW w \in Scrapers, ScrapeStep(w)
    PROVE  \A i \in Ids : entries'[i].live = entries[i].live /\ entries'[i].key = entries[i].key
<1>1. jobs[w].pc # "idle" => jobs[w].id \in Ids
  BY DEF IInv, JobsFit
<1>2. ASSUME NEW id \in Ids, NEW state, NEW n, NEW next, ExtractUpdate(id, state, n, next)
      PROVE  \A i \in Ids : entries'[i].live = entries[i].live /\ entries'[i].key = entries[i].key
  BY <1>2 DEF ExtractUpdate, IInv, TypeOK, Entry
<1>3. CASE StoreContent(w)
  BY <1>1, <1>3 DEF StoreContent, IInv, TypeOK, Entry
<1>4. CASE Fail(w)
  <2>1. UNCHANGED entries \/ \E state, n, next : ExtractUpdate(jobs[w].id, state, n, next)
    BY <1>4, Zenon DEF Fail
  <2>. QED  BY <1>1, <1>2, <1>4, <2>1 DEF Fail
<1>5. CASE RetryLater(w)
  <2>1. UNCHANGED entries \/ \E state, n, next : ExtractUpdate(jobs[w].id, state, n, next)
    BY <1>5, Zenon DEF RetryLater
  <2>. QED  BY <1>1, <1>2, <1>5, <2>1 DEF RetryLater
<1>. QED  BY <1>3, <1>4, <1>5 DEF ScrapeStep, Scrape

LEMMA SwitchKeepsKeys ==
    ASSUME IInv, NEW f \in Feeds, NEW on \in BOOLEAN, SetFullContent(f, on)
    PROVE  \A i \in Ids : entries'[i].live = entries[i].live /\ entries'[i].key = entries[i].key
<1>1. \A i \in Ids : entries'[i] \in {entries[i], Requeued(entries[i]), Cancelled(entries[i])}
  BY DEF SetFullContent
<1>2. \A i \in Ids : entries[i] \in Entry
  BY DEF IInv, TypeOK
<1>. QED  BY <1>1, <1>2, RequeuedFits, CancelledFits

LEMMA UpsertHolds ==
    ASSUME IInv, Held, NEW p \in Pollers, Upsert(p)
    PROVE  Held'
<1> DEFINE q == polls[p]
<1>1. q \in Poll /\ q.key \in Keys /\ q.hash \in Hashes
  BY DEF IInv, TypeOK, Poll
<1>2. UNCHANGED <<feeds, tombs, tabs>>
  BY DEF Upsert
<1>3. CASE UNCHANGED entries
  BY <1>2, <1>3, KeptRowsHold
<1>4. CASE /\ ~Skips(q) /\ Present(q) = {} /\ NextId \in Ids
           /\ entries' = [entries EXCEPT ![NextId] = Inserted(q)]
  <2>1. Inserted(q).key = q.key
    BY <1>1, InsertedFits DEF IInv
  <2>2. \A i \in Ids : entries'[i] = IF i = NextId THEN Inserted(q) ELSE entries[i]
    BY <1>4 DEF IInv, TypeOK
  <2>3. ~entries[NextId].live
    BY <1>4, NextIdFresh, LifecycleAssumption DEF Ids
  <2>4. TombstonesHold'
    BY <1>2, <1>4, <2>1, <2>2 DEF Held, TombstonesHold, Skips
  <2>5. DeletesKnow'
    BY <1>2, <2>2, <2>3 DEF IInv, TabsFit, Held, DeletesKnow
  <2>. QED  BY <2>4, <2>5 DEF Held
<1>5. CASE entries' = [i \in Ids |->
                         IF i \in Present(q) /\ entries[i].hash # q.hash
                         THEN Edited(entries[i], q.hash) ELSE entries[i]]
  <2>1. \A i \in Ids : entries[i] \in Entry /\ Fit(entries[i])
    BY DEF IInv, TypeOK, RowsFit
  <2>2. \A i \in Ids : entries'[i].live = entries[i].live /\ entries'[i].key = entries[i].key
    BY <1>1, <1>5, <2>1, EditedFits
  <2>. QED  BY <1>2, <2>2, KeptRowsHold
<1>. QED  BY <1>3, <1>4, <1>5 DEF Upsert

LEMMA DeleteFeedHolds ==
    ASSUME IInv, Held, NEW f \in Feeds, DeleteFeed(f)
    PROVE  Held'
<1>1. \A i \in Ids :
         /\ entries'[i].live => entries'[i] = entries[i] /\ entries[i].live
         /\ entries[i].live /\ entries[i].key[1] # f => entries'[i] = entries[i]
  BY Blank DEF DeleteFeed
<1>2. TombstonesHold'
  BY <1>1 DEF DeleteFeed, Held, TombstonesHold
<1>3. DeletesKnow'
  BY <1>1 DEF DeleteFeed, IInv, TabsFit, Held, DeletesKnow
<1>. QED  BY <1>2, <1>3 DEF Held

LEMMA DeleteReadHolds ==
    ASSUME IInv, Held, NEW t \in Tabs, DeleteRead(t)
    PROVE  Held'
<1>1. UNCHANGED <<feeds, tombs, entries>>
  BY DEF DeleteRead
<1>2. tabs[t] \in Tab
  BY DEF IInv, TypeOK
<1>3. \A u \in Tabs : u # t => tabs'[u] = tabs[u]
  BY DEF DeleteRead, IInv, TypeOK
<1>4. tabs'[t].pc = "tx" =>
         /\ tabs'[t].id = tabs[t].id
         /\ entries[tabs[t].id].live /\ entries[tabs[t].id].key = tabs'[t].read
  BY <1>2, Blank DEF DeleteRead, IInv, TypeOK, Tab
<1>5. DeletesKnow'
  BY <1>1, <1>3, <1>4 DEF Held, DeletesKnow
<1>. QED  BY <1>1, <1>5 DEF Held, TombstonesHold

LEMMA DeleteTxHolds ==
    ASSUME IInv, Held, OneDelete, NEW t \in Tabs, DeleteTx(t)
    PROVE  Held'
<1> DEFINE id == tabs[t].id
           k  == tabs[t].read
<1>1. id \in Ids
  BY DEF DeleteTx, IInv, TabsFit
<1>2. \A u \in Tabs : tabs'[u].pc # "tx"
  BY Blank DEF DeleteTx, OneDelete, IInv, TypeOK
<1>3. DeletesKnow'
  BY <1>2 DEF DeletesKnow
<1>4. TombstonesHold'
  <2>1. CASE UNCHANGED <<tombs, entries>>
    BY <2>1 DEF Held, TombstonesHold
  <2>2. CASE /\ k[1] \in feeds /\ entries[id].live
             /\ tombs' = tombs \cup {k}
             /\ entries' = [entries EXCEPT ![id] = NoEntry]
    <3>1. entries[id].key = k
      BY <2>2 DEF DeleteTx, Held, DeletesKnow
    <3>2. \A i \in Ids : entries'[i] = IF i = id THEN NoEntry ELSE entries[i]
      BY <1>1, <2>2 DEF IInv, TypeOK
    <3>3. \A i \in Ids : entries'[i].live => i # id /\ entries[i].live /\ entries'[i].key = entries[i].key
      BY <3>2, Blank
    <3>4. \A i \in Ids : entries'[i].live => entries'[i].key # k
      BY <1>1, <2>2, <3>1, <3>3 DEF IInv, OneRowPerGuid
    <3>. QED  BY <2>2, <3>3, <3>4 DEF Held, TombstonesHold
  <2>. QED  BY <2>1, <2>2 DEF DeleteTx
<1>. QED  BY <1>3, <1>4 DEF Held

LEMMA NextHolds == IInv /\ Held /\ OneDelete /\ [Next]_vars => Held'
<1> SUFFICES ASSUME IInv, Held, OneDelete, [Next]_vars PROVE Held'
  OBVIOUS
<1>1. CASE UNCHANGED vars
  BY <1>1, KeptRowsHold DEF vars
<1>2. CASE \/ \E p \in Pollers, k \in Keys, h \in Hashes : Dedup(p, k, h)
           \/ \E p \in Pollers : UpsertFails(p)
           \/ \E w \in Scrapers, id \in Ids : Dispatch(w, id)
  BY <1>2, KeptRowsHold DEF Dedup, UpsertFails, Dispatch
<1>3. CASE \E p \in Pollers : Upsert(p)
  BY <1>3, UpsertHolds
<1>4. CASE \E id \in Ids : Elapse(id)
  <2>1. PICK id \in Ids : Elapse(id)
    BY <1>4
  <2>2. \A i \in Ids : entries'[i].live = entries[i].live /\ entries'[i].key = entries[i].key
    BY <2>1 DEF Elapse, IInv, TypeOK, Entry
  <2>. QED  BY <2>1, <2>2, KeptRowsHold DEF Elapse
<1>5. CASE \E w \in Scrapers : ScrapeStep(w)
  <2>1. UNCHANGED <<feeds, tombs, tabs>>
    BY <1>5 DEF ScrapeStep, Scrape, StoreContent, Fail, RetryLater
  <2>. QED  BY <1>5, <2>1, ScrapesKeepKeys, KeptRowsHold
<1>6. CASE \E f \in Feeds, on \in BOOLEAN : SetFullContent(f, on)
  <2>1. UNCHANGED <<feeds, tombs, tabs>>
    BY <1>6 DEF SetFullContent
  <2>. QED  BY <1>6, <2>1, SwitchKeepsKeys, KeptRowsHold
<1>7. CASE \E f \in Feeds : DeleteFeed(f)
  BY <1>7, DeleteFeedHolds
<1>8. CASE \E t \in Tabs, id \in Ids : Show(t, id)
  <2>1. PICK t \in Tabs, id \in Ids : Show(t, id)
    BY <1>8
  <2>2. [NoTab EXCEPT !.pc = "page", !.id = id].pc = "page"
    BY Blank DEF Tab
  <2>3. \A u \in Tabs : tabs'[u].pc = "tx" => tabs'[u] = tabs[u]
    BY <2>1, <2>2 DEF Show, IInv, TypeOK
  <2>. QED  BY <2>1, <2>3, KeptRowsHold DEF Show
<1>9. CASE \E t \in Tabs : DeleteRead(t) \/ DeleteTx(t)
  BY <1>9, DeleteReadHolds, DeleteTxHolds
<1>10. CASE Shutdown
  BY <1>10, KeptRowsHold DEF Shutdown
<1>11. CASE Restart
  BY <1>11, KeptRowsHold, Blank DEF Restart
<1>. QED  BY <1>1, <1>2, <1>3, <1>4, <1>5, <1>6, <1>7, <1>8, <1>9, <1>10, <1>11 DEF Next

\* As long as deletes do not overlap, a deleted entry stays deleted: no row ever
\* has a tombstoned guid, for any number of polls between their pre-check and
\* their upsert.
THEOREM Deletions == Spec /\ []OneDelete => []TombstonesHold
<1>1. Init => Held
  BY Blank DEF Init, Held, TombstonesHold, DeletesKnow
<1>2. Held => TombstonesHold
  BY DEF Held
<1>. QED  BY <1>1, <1>2, Invariance, NextHolds, PTL DEF Spec

\* Whatever the deletes do, no step stores a row for a guid that is tombstoned.
NeverRevived ==
    [][\A i \in Ids : ~entries[i].live /\ entries'[i].live => entries'[i].key \notin tombs]_vars

\* UpsertEntries checks the tombstones in its own transaction, so a poll whose
\* pre-check came before a deletion does not bring the entry back.
THEOREM NoRevival == Spec => NeverRevived
<1> DEFINE New == \A i \in Ids : ~entries[i].live /\ entries'[i].live => entries'[i].key \notin tombs
<1>1. ASSUME IInv, [Next]_vars PROVE New \/ UNCHANGED vars
  <2>1. CASE \E p \in Pollers : Upsert(p)
    <3>1. PICK p \in Pollers : Upsert(p)
      BY <2>1
    <3>2. polls[p] \in Poll /\ polls[p].hash \in Hashes
      BY <1>1 DEF IInv, TypeOK, Poll
    <3>3. Inserted(polls[p]).key = polls[p].key
      BY <1>1, <3>2, InsertedFits DEF IInv
    <3>4. \A i \in Ids : entries[i] \in Entry /\ Fit(entries[i])
      BY <1>1 DEF IInv, TypeOK, RowsFit
    <3>5. \A i \in Ids : Edited(entries[i], polls[p].hash).live = entries[i].live
      BY <3>2, <3>4, EditedFits
    <3>. QED  BY <1>1, <3>1, <3>3, <3>5 DEF Upsert, Skips, IInv, TypeOK
  <2>2. CASE \E w \in Scrapers : ScrapeStep(w)
    BY <1>1, <2>2, ScrapesKeepKeys
  <2>3. CASE \E f \in Feeds, on \in BOOLEAN : SetFullContent(f, on)
    BY <1>1, <2>3, SwitchKeepsKeys
  <2>4. CASE \E f \in Feeds : DeleteFeed(f)
    BY <2>4, Blank DEF DeleteFeed
  <2>5. CASE \E t \in Tabs : DeleteTx(t)
    <3>1. PICK t \in Tabs : DeleteTx(t)
      BY <2>5
    <3>. QED  BY <1>1, <3>1, Blank DEF DeleteTx, IInv, TypeOK
  <2>6. CASE \E id \in Ids : Elapse(id)
    BY <1>1, <2>6 DEF Elapse, IInv, TypeOK, Entry
  <2>7. CASE UNCHANGED entries
    BY <2>7
  <2>. QED  BY <1>1, <2>1, <2>2, <2>3, <2>4, <2>5, <2>6, <2>7
            DEF Next, Dedup, UpsertFails, Dispatch, Show, DeleteRead, Shutdown, Restart, vars
<1>2. IInv /\ [Next]_vars => [New]_vars
  BY <1>1
<1>. QED  BY <1>2, Invariance, PTL DEF Spec, NeverRevived
=============================================================================
