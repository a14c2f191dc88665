---------------------------- MODULE ServeLifecycle ----------------------------
(***************************************************************************)
(* The process: cmd/bfeed serve starts the Poller and the Scraper (a       *)
(* dispatcher that hands the rows due at each tick over an unbuffered      *)
(* channel to a pool of workers), serves web requests that may leave       *)
(* background feed operations behind, and at a signal or a bind failure    *)
(* shuts all of them down in order before it closes the database.          *)
(*                                                                         *)
(* What a poll, a scrape, a request or an operation does is left to the    *)
(* other modules; here it is only whether it is running, and so may use    *)
(* the database.  Waits with a timeout end when they are over or when time *)
(* is up, whichever comes first.                                           *)
(***************************************************************************)
EXTENDS Integers, FiniteSets

CONSTANTS
    Pools,      \* {"poller", "scraper"}
    Workers,    \* the worker goroutines of each pool
    Requests,   \* web requests at a time
    BgOps,      \* background feed operations at a time
    Batch       \* BatchSize: rows listed per tick

ASSUME ServeAssumption == Batch \in Nat \ {0} /\ {"poller", "scraper"} = Pools

VARIABLES
    ctx,     \* the root context: "live" or "cancelled"
    loop,    \* each pool's dispatcher: its place in Run and dispatch
    due,     \* rows listed and not yet handed over
    closed,  \* the jobs channel is closed
    work,    \* each pool's workers
    reqs,    \* web requests: "none" or "handling"
    bg,      \* background operations (bgOps): "none" or "running"
    main,    \* main's place
    exit     \* ghost: "clean", or "late" / "startup" once a wait timed out or
             \* start-up failed

vars == <<ctx, loop, due, closed, work, reqs, bg, main, exit>>

Init ==
    /\ ctx = "live"
    /\ loop = [k \in Pools |-> "list"]
    /\ due = [k \in Pools |-> 0]
    /\ closed = [k \in Pools |-> FALSE]
    /\ work = [k \in Pools |-> [w \in Workers |-> "recv"]]
    /\ reqs = [r \in Requests |-> "none"]
    /\ bg = [b \in BgOps |-> "none"]
    /\ main = "start"
    /\ exit = "clean"

Running == main # "exited"

-----------------------------------------------------------------------------
(* The pools *)

SetLoop(k, pc) == loop' = [loop EXCEPT ![k] = pc]

\* dispatch lists the due rows; a failed or cancelled query lists none
List(k) ==
    /\ Running /\ loop[k] = "list"
    /\ \E n \in 0..Batch :
         /\ ctx = "cancelled" => n = 0
         /\ due' = [due EXCEPT ![k] = n]
         /\ SetLoop(k, IF n > 0 THEN "send" ELSE "select")
    /\ UNCHANGED <<ctx, closed, work, reqs, bg, main, exit>>

\* fault: the dispatcher hands over one row too many
Hand_OneMore(k, w) ==
    /\ Running /\ loop[k] = "send" /\ work[k][w] = "recv"
    /\ work' = [work EXCEPT ![k][w] = "busy"]
    /\ due' = [due EXCEPT ![k] = @ - 1]
    /\ SetLoop(k, IF due[k] > 0 THEN "send" ELSE "select")
    /\ UNCHANGED <<ctx, closed, reqs, bg, main, exit>>
\* jobs <- row: an unbuffered channel hands over when a worker is receiving
Hand(k, w) ==
    /\ Running /\ loop[k] = "send" /\ work[k][w] = "recv"
    /\ work' = [work EXCEPT ![k][w] = "busy"]
    /\ due' = [due EXCEPT ![k] = @ - 1]
    /\ SetLoop(k, IF due[k] > 1 THEN "send" ELSE "select")
    /\ UNCHANGED <<ctx, closed, reqs, bg, main, exit>>

\* ctx.Done in dispatch's select: the rest of the batch is dropped
Abort(k) ==
    /\ Running /\ loop[k] = "send" /\ ctx = "cancelled"
    /\ due' = [due EXCEPT ![k] = 0]
    /\ SetLoop(k, "select")
    /\ UNCHANGED <<ctx, closed, work, reqs, bg, main, exit>>

\* Run's select takes a tick, which it may do even when ctx is done too
Tick(k) ==
    /\ Running /\ loop[k] = "select"
    /\ SetLoop(k, "list")
    /\ UNCHANGED <<ctx, due, closed, work, reqs, bg, main, exit>>

\* fault: Run waits for its workers without closing the channel
StopPool_Open(k) ==
    /\ Running /\ loop[k] = "select" /\ ctx = "cancelled"
    /\ SetLoop(k, "join")
    /\ UNCHANGED <<ctx, due, closed, work, reqs, bg, main, exit>>
\* ctx.Done: close(jobs), then wg.Wait
StopPool(k) ==
    /\ Running /\ loop[k] = "select" /\ ctx = "cancelled"
    /\ closed' = [closed EXCEPT ![k] = TRUE]
    /\ SetLoop(k, "join")
    /\ UNCHANGED <<ctx, due, work, reqs, bg, main, exit>>

\* wg.Wait returns, Run returns and its done channel is closed
Join(k) ==
    /\ Running /\ loop[k] = "join"
    /\ \A w \in Workers : work[k][w] = "exit"
    /\ SetLoop(k, "done")
    /\ UNCHANGED <<ctx, due, closed, work, reqs, bg, main, exit>>

\* fault: a panic on untrusted content ends the worker
Finish_Dies(k, w) ==
    /\ Running /\ work[k][w] = "busy"
    /\ work' = [work EXCEPT ![k][w] = "exit"]
    /\ UNCHANGED <<ctx, loop, due, closed, reqs, bg, main, exit>>
\* pollOne / scrapeOne returns, from a panic too (RecoverGuard)
Finish(k, w) ==
    /\ Running /\ work[k][w] = "busy"
    /\ work' = [work EXCEPT ![k][w] = "recv"]
    /\ UNCHANGED <<ctx, loop, due, closed, reqs, bg, main, exit>>

\* the worker's range over the closed channel ends
Leave(k, w) ==
    /\ Running /\ work[k][w] = "recv" /\ closed[k]
    /\ work' = [work EXCEPT ![k][w] = "exit"]
    /\ UNCHANGED <<ctx, loop, due, closed, reqs, bg, main, exit>>

-----------------------------------------------------------------------------
(* The web server *)

\* a request arrives while the listener is open
Arrive(r) ==
    /\ main = "serve" /\ reqs[r] = "none"
    /\ reqs' = [reqs EXCEPT ![r] = "handling"]
    /\ UNCHANGED <<ctx, loop, due, closed, work, bg, main, exit>>

\* startBackground: bgOps.Add, and a goroutine that outlives the request
StartBackground(r, b) ==
    /\ Running /\ reqs[r] = "handling" /\ bg[b] = "none"
    /\ bg' = [bg EXCEPT ![b] = "running"]
    /\ UNCHANGED <<ctx, loop, due, closed, work, reqs, main, exit>>

Respond(r) ==
    /\ Running /\ reqs[r] = "handling"
    /\ reqs' = [reqs EXCEPT ![r] = "none"]
    /\ UNCHANGED <<ctx, loop, due, closed, work, bg, main, exit>>

\* the operation ends (within its 60 s) and calls bgOps.Done
BackgroundDone(b) ==
    /\ Running /\ bg[b] = "running"
    /\ bg' = [bg EXCEPT ![b] = "none"]
    /\ UNCHANGED <<ctx, loop, due, closed, work, reqs, main, exit>>

-----------------------------------------------------------------------------
(* main *)

\* SIGINT, SIGTERM, or a server that cannot listen
Cancel ==
    /\ main \in {"start", "serve"} /\ ctx = "live"
    /\ ctx' = "cancelled"
    /\ UNCHANGED <<loop, due, closed, work, reqs, bg, main, exit>>

\* the servers start, after the pools have been started
Serve ==
    /\ main = "start"
    /\ main' = "serve"
    /\ UNCHANGED <<ctx, loop, due, closed, work, reqs, bg, exit>>

\* the image proxy's secret cannot be resolved: return 1, with the pools running
StartupFails ==
    /\ main = "start"
    /\ main' = "closed"
    /\ exit' = "startup"
    /\ UNCHANGED <<ctx, loop, due, closed, work, reqs, bg>>

\* fault: the background operations are waited for first
After_DrainFirst(pc) ==
    CASE pc = "serve" -> "drain"       [] pc = "drain" -> "shutdown"
      [] pc = "shutdown" -> "poller"   [] pc = "poller" -> "scraper"
      [] pc = "scraper" -> "closed"    [] pc = "closed" -> "exited"
\* the order of the shutdown: srv.Shutdown closes the listener at once
After(pc) ==
    CASE pc = "serve" -> "shutdown"    [] pc = "shutdown" -> "poller"
      [] pc = "poller" -> "scraper"    [] pc = "scraper" -> "drain"
      [] pc = "drain" -> "closed"      [] pc = "closed" -> "exited"

\* what each wait waits for
Over(pc) ==
    CASE pc = "serve" -> ctx = "cancelled"
      [] pc = "shutdown" -> \A r \in Requests : reqs[r] = "none"
      [] pc = "poller" -> loop["poller"] = "done"
      [] pc = "scraper" -> loop["scraper"] = "done"
      [] pc = "drain" -> \A b \in BgOps : bg[b] = "none"
      [] pc = "closed" -> TRUE

Timed == {"shutdown", "poller", "scraper", "drain"}

\* the next stage, when the present one is over; db.Close is the last
Proceed ==
    /\ main \notin {"start", "exited"}
    /\ Over(main)
    /\ main' = After(main)
    /\ UNCHANGED <<ctx, loop, due, closed, work, reqs, bg, exit>>

\* fault: the waits have no time limit
TimeUp_Never ==
    /\ main \in {} /\ UNCHANGED vars
\* the 15 s of a stage are up
TimeUp ==
    /\ main \in Timed
    /\ ~Over(main)
    /\ main' = After(main)
    /\ exit' = "late"
    /\ UNCHANGED <<ctx, loop, due, closed, work, reqs, bg>>

PoolStep(k) ==
    \/ List(k) \/ Abort(k) \/ Tick(k) \/ StopPool(k) \/ Join(k)
    \/ \E w \in Workers : Hand(k, w) \/ Finish(k, w) \/ Leave(k, w)

\* the process is gone
Exited == main = "exited" /\ UNCHANGED vars

Next ==
    \/ \E k \in Pools : PoolStep(k)
    \/ \E r \in Requests : Arrive(r) \/ Respond(r)
    \/ \E r \in Requests, b \in BgOps : StartBackground(r, b)
    \/ \E b \in BgOps : BackgroundDone(b)
    \/ Cancel \/ Serve \/ StartupFails \/ Proceed \/ TimeUp
    \/ Exited

Spec == Init /\ [][Next]_vars

\* main goes on when a wait is over
MainFair == WF_vars(Serve) /\ WF_vars(Proceed)

\* goroutines run and every poll and scrape ends; Run's select is random, so
\* a cancelled context is not overlooked for ever
PoolFair ==
    \A k \in Pools :
        /\ WF_vars(List(k)) /\ WF_vars(Join(k)) /\ SF_vars(StopPool(k))
        /\ \A w \in Workers : WF_vars(Finish(k, w)) /\ WF_vars(Leave(k, w))
        /\ WF_vars(Abort(k) \/ \E w \in Workers : Hand(k, w))

FairSpec == Spec /\ MainFair

-----------------------------------------------------------------------------
(* Properties *)

\* Every variable holds a value of its type.
TypeOK ==
    /\ ctx \in {"live", "cancelled"}
    /\ loop \in [Pools -> {"list", "send", "select", "join", "done"}]
    /\ due \in [Pools -> 0..Batch]
    /\ closed \in [Pools -> BOOLEAN]
    /\ work \in [Pools -> [Workers -> {"recv", "busy", "exit"}]]
    /\ reqs \in [Requests -> {"none", "handling"}]
    /\ bg \in [BgOps -> {"none", "running"}]
    /\ main \in {"start", "serve", "closed", "exited"} \cup Timed
    /\ exit \in {"clean", "late", "startup"}

AtWork ==
    \/ \E k \in Pools, w \in Workers : work[k][w] = "busy"
    \/ \E r \in Requests : reqs[r] = "handling"
    \/ \E b \in BgOps : bg[b] = "running"

\* A shutdown in which every wait was long enough closes the database only when
\* no poll, scrape, request or background operation is left that could use it,
\* and none of them can start any more.
ClosedAfterWork == main \in {"closed", "exited"} /\ exit = "clean" => ~AtWork

\* Once asked to stop, the process exits, even if every worker, request and
\* background operation hangs: it only takes the time limits of the waits.
StopsEventually ==
    WF_vars(Proceed \/ TimeUp) => (ctx = "cancelled" ~> main = "exited")

\* When polls and scrapes end by themselves, no time limit is needed: Run
\* returns, no worker waits for a job that will not come, and the dispatcher for
\* no worker.
PoolsDrain ==
    PoolFair => \A k \in Pools :
        (ctx = "cancelled" /\ Running) ~> (loop[k] = "done" \/ ~Running)

\* A dispatcher never waits for ever for a worker: polls that fail or panic give
\* their worker back.
BatchesHandedOut ==
    PoolFair => \A k \in Pools : (loop[k] = "send") ~> (loop[k] # "send" \/ ~Running)
=============================================================================
