------------------------- MODULE ServeLifecycleProofs -------------------------
(***************************************************************************)
(* The shutdown for every number of workers, requests, background          *)
(* operations and rows per tick.                                           *)
(*                                                                         *)
(* That the database closes after all work is no invariant a step keeps by *)
(* itself: each wait of the shutdown only says that its own kind of work   *)
(* is over, and what one wait saw must still hold when the last one ends.  *)
(* Staged says what each finished stage has left behind, and Joined that a *)
(* pool whose Run has returned has no worker left to give work to.         *)
(***************************************************************************)
EXTENDS ServeLifecycle, TLAPS

\* A dispatcher in its send loop still has a row to hand over.
Batching == \A k \in Pools : loop[k] = "send" => due[k] > 0

\* Run returns only after its workers, and they do not come back.
Joined == \A k \in Pools : loop[k] = "done" => \A w \in Workers : work[k][w] = "exit"

\* What the stages passed so far waited for, when none of them timed out.
Staged ==
    exit = "clean" =>
        /\ main \in {"poller", "scraper", "drain", "closed", "exited"} =>
               \A r \in Requests : reqs[r] = "none"
        /\ main \in {"scraper", "drain", "closed", "exited"} => loop["poller"] = "done"
        /\ main \in {"drain", "closed", "exited"} => loop["scraper"] = "done"
        /\ main \in {"closed", "exited"} => \A b \in BgOps : bg[b] = "none"

IInv == TypeOK /\ Batching /\ Joined /\ Staged

LEMMA InitFits == Init => IInv
  BY ServeAssumption DEF Init, IInv, TypeOK, Batching, Joined, Staged, Timed

-----------------------------------------------------------------------------
(* The pools.  A step of pool k leaves the other pool, the requests, the      *)
(* background operations and main alone.                                      *)

LEMMA ListKeeps ==
    ASSUME IInv, NEW k \in Pools, List(k)
    PROVE  IInv'
<1> USE ServeAssumption DEF List, SetLoop, IInv
<1>1. TypeOK'
  BY DEF TypeOK, Timed
<1>2. Batching' /\ Joined'
  BY DEF TypeOK, Batching, Joined
<1>3. Staged'
  BY DEF TypeOK, Staged
<1>. QED  BY <1>1, <1>2, <1>3

LEMMA HandKeeps ==
    ASSUME IInv, NEW k \in Pools, NEW w \in Workers, Hand(k, w)
    PROVE  IInv'
<1> USE ServeAssumption DEF Hand, SetLoop, IInv
<1>1. TypeOK'
  BY DEF TypeOK, Batching, Timed
<1>2. Batching' /\ Joined'
  BY DEF TypeOK, Batching, Joined
<1>3. Staged'
  BY DEF TypeOK, Staged
<1>. QED  BY <1>1, <1>2, <1>3

LEMMA LoopKeeps ==
    ASSUME IInv, NEW k \in Pools, Abort(k) \/ Tick(k) \/ StopPool(k) \/ Join(k)
    PROVE  IInv'
<1> USE ServeAssumption DEF Abort, Tick, StopPool, Join, SetLoop, IInv
<1>1. closed' \in [Pools -> BOOLEAN]
  <2>1. CASE closed' = [closed EXCEPT ![k] = TRUE]
    BY <2>1, Zenon DEF TypeOK
  <2>. QED  BY <2>1 DEF TypeOK
<1>2. TypeOK'
  <2>1. loop' \in [Pools -> {"list", "send", "select", "join", "done"}]
    BY DEF TypeOK
  <2>2. due' \in [Pools -> 0..Batch]
    BY DEF TypeOK
  <2>3. UNCHANGED <<ctx, work, reqs, bg, main, exit>>
    OBVIOUS
  <2>. QED  BY <1>1, <2>1, <2>2, <2>3, Zenon DEF TypeOK, Timed
<1>3. Batching' /\ Joined'
  BY DEF TypeOK, Batching, Joined
<1>4. Staged'
  BY DEF TypeOK, Staged
<1>. QED  BY <1>2, <1>3, <1>4

LEMMA WorkerKeeps ==
    ASSUME IInv, NEW k \in Pools, NEW w \in Workers, Finish(k, w) \/ Leave(k, w)
    PROVE  IInv'
<1> USE ServeAssumption DEF Finish, Leave, IInv
<1>1. PICK pc \in {"recv", "exit"} : work' = [work EXCEPT ![k][w] = pc]
  OBVIOUS
<1>2. work' \in [Pools -> [Workers -> {"recv", "busy", "exit"}]]
  BY <1>1 DEF TypeOK
<1>3. TypeOK'
  BY <1>2 DEF TypeOK, Timed
<1>4. Batching' /\ Joined'
  BY DEF TypeOK, Batching, Joined
<1>5. Staged'
  BY DEF TypeOK, Staged
<1>. QED  BY <1>3, <1>4, <1>5

-----------------------------------------------------------------------------
(* The web server: a request arrives only while main serves, so none is there *)
(* to start an operation once srv.Shutdown has waited for them all.            *)

LEMMA WebKeeps ==
    ASSUME IInv, NEW r \in Requests, Arrive(r) \/ Respond(r)
    PROVE  IInv'
  BY DEF Arrive, Respond, Running, IInv, TypeOK, Batching, Joined, Staged, Timed

LEMMA BackgroundKeeps ==
    ASSUME IInv, NEW b \in BgOps,
           BackgroundDone(b) \/ \E r \in Requests : StartBackground(r, b)
    PROVE  IInv'
  BY DEF StartBackground, BackgroundDone, Running, IInv, TypeOK, Batching, Joined, Staged, Timed

-----------------------------------------------------------------------------
(* main: each stage records what it waited for. *)

LEMMA ProceedKeeps == IInv /\ Proceed => IInv'
<1> SUFFICES ASSUME IInv, Proceed PROVE IInv'
  OBVIOUS
<1>1. main \in {"serve", "shutdown", "poller", "scraper", "drain", "closed"}
  BY DEF IInv, TypeOK, Timed, Proceed
<1>2. TypeOK'
  BY <1>1 DEF IInv, TypeOK, Timed, Proceed, After
<1>3. Batching' /\ Joined'
  BY DEF IInv, Batching, Joined, Proceed
<1>4. Staged'
  BY <1>1 DEF IInv, Staged, Proceed, After, Over
<1>. QED  BY <1>2, <1>3, <1>4 DEF IInv

LEMMA MainKeeps == IInv /\ (Cancel \/ Serve \/ StartupFails \/ TimeUp) => IInv'
<1> SUFFICES ASSUME IInv, Cancel \/ Serve \/ StartupFails \/ TimeUp PROVE IInv'
  OBVIOUS
<1>1. TypeOK'
  BY DEF IInv, TypeOK, Timed, Cancel, Serve, StartupFails, TimeUp, After
<1>2. Batching' /\ Joined'
  BY DEF IInv, Batching, Joined, Cancel, Serve, StartupFails, TimeUp
<1>3. Staged'
  BY DEF IInv, Staged, Cancel, Serve, StartupFails, TimeUp
<1>. QED  BY <1>1, <1>2, <1>3 DEF IInv

LEMMA NextKeeps == IInv /\ [Next]_vars => IInv'
<1> SUFFICES ASSUME IInv, [Next]_vars PROVE IInv'
  OBVIOUS
<1>1. CASE UNCHANGED vars
  BY <1>1 DEF vars, IInv, TypeOK, Batching, Joined, Staged
<1>2. CASE \E k \in Pools : PoolStep(k)
  BY <1>2, ListKeeps, HandKeeps, LoopKeeps, WorkerKeeps DEF PoolStep
<1>3. CASE \/ \E r \in Requests : Arrive(r) \/ Respond(r)
           \/ \E r \in Requests, b \in BgOps : StartBackground(r, b)
           \/ \E b \in BgOps : BackgroundDone(b)
  BY <1>3, WebKeeps, BackgroundKeeps
<1>4. CASE Cancel \/ Serve \/ StartupFails \/ Proceed \/ TimeUp
  BY <1>4, ProceedKeeps, MainKeeps
<1>. QED  BY <1>1, <1>2, <1>3, <1>4 DEF Next, Exited

-----------------------------------------------------------------------------
\* The inductive invariant holds in every reachable state.
THEOREM Invariance == Spec => []IInv
  BY InitFits, NextKeeps, PTL DEF Spec

\* Every variable of the process model keeps its type: in particular a
\* dispatcher never counts below zero rows.
THEOREM TypeCorrect == Spec => []TypeOK
<1>1. IInv => TypeOK
  BY DEF IInv
<1>. QED  BY Invariance, <1>1, PTL

\* A shutdown whose waits were long enough closes the database with nothing at
\* work, whatever the number of workers, requests and background operations.
THEOREM CloseIsLast == Spec => []ClosedAfterWork
<1>1. IInv => ClosedAfterWork
  BY ServeAssumption DEF IInv, TypeOK, Joined, Staged, ClosedAfterWork, AtWork
<1>. QED  BY Invariance, <1>1, PTL
=============================================================================
