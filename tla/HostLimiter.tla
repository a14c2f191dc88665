----------------------------- MODULE HostLimiter -----------------------------
(***************************************************************************)
(* The per-host concurrency limit of fetch.Client: a map from host key to  *)
(* a reference-counted semaphore, shared by feed polls, article scrapes    *)
(* and the image proxy.  acquire looks the semaphore up (or makes one)     *)
(* under the mutex, then waits for a token outside it; release returns the *)
(* token, and only then drops the reference under the mutex again.         *)
(*                                                                         *)
(* A semaphore is an object of its own, not a slot of the map: a caller    *)
(* keeps the one it looked up, whatever the map holds for its host later.  *)
(* Critical sections of c.mu are single steps.                             *)
(***************************************************************************)
EXTENDS Integers, FiniteSets

CONSTANTS
    Callers,   \* goroutines that call Fetch or FetchStream
    Names,     \* spellings of host names (case, default port)
    HostKey,   \* hostKey, a function on Names: the normal spelling
    Cap,       \* Config.HostConcurrency
    Objects    \* semaphores in existence at a time

ASSUME LimiterAssumption ==
    /\ IsFiniteSet(Callers)
    /\ Names # {} /\ HostKey \in [Names -> Names]
    /\ \A n \in Names : HostKey[HostKey[n]] = HostKey[n]
    /\ Cap \in Nat \ {0}
    /\ "none" \notin Objects

VARIABLES
    sems,     \* c.sems: host key -> semaphore, "none" when absent
    refs,     \* hostSem.refs
    tokens,   \* len(hostSem.ch)
    calls     \* the callers

vars == <<sems, refs, tokens, calls>>

Hosts == {HostKey[n] : n \in Names}

\* wait: in acquire's select; hold: token held, request or body in progress;
\* stream: FetchStream has returned and its Body is open; unref: the token is
\* back, or was never taken, and the reference is not yet dropped
Call ==
    [pc : {"idle", "wait", "hold", "stream", "unref"}, name : Names,
     sem : Objects \cup {"none"}]

AnyName == CHOOSE n \in Names : TRUE
NoCall == [pc |-> "idle", name |-> AnyName, sem |-> "none"]

Init ==
    /\ sems = [n \in Names |-> "none"]
    /\ refs = [s \in Objects |-> 0]
    /\ tokens = [s \in Objects |-> 0]
    /\ calls = [c \in Callers |-> NoCall]

Key(n) == HostKey[n]

\* the callers with a reference to semaphore s, and those with a token of it
Users(s)   == {c \in Callers : calls[c].pc # "idle" /\ calls[c].sem = s}
Holders(s) == {c \in Callers : calls[c].pc \in {"hold", "stream"} /\ calls[c].sem = s}

\* a new semaphore is none that anyone still uses
Fresh(s) == Users(s) = {}

\* acquire's critical section
Enter(c, n) ==
    /\ calls[c].pc = "idle"
    /\ \E s \in Objects :
         /\ IF sems[Key(n)] # "none"
            THEN /\ s = sems[Key(n)]
                 /\ refs' = [refs EXCEPT ![s] = @ + 1]
                 /\ UNCHANGED <<sems, tokens>>
            ELSE /\ Fresh(s)
                 /\ sems' = [sems EXCEPT ![Key(n)] = s]
                 /\ refs' = [refs EXCEPT ![s] = 1]
                 /\ tokens' = [tokens EXCEPT ![s] = 0]
         /\ calls' = [calls EXCEPT ![c] = [pc |-> "wait", name |-> n, sem |-> s]]

\* fault: nothing limits the tokens
Take_Unbounded(c) ==
    /\ calls[c].pc = "wait"
    /\ tokens' = [tokens EXCEPT ![calls[c].sem] = @ + 1]
    /\ calls' = [calls EXCEPT ![c].pc = "hold"]
    /\ UNCHANGED <<sems, refs>>
\* acquire's select: a token ...
Take(c) ==
    /\ calls[c].pc = "wait"
    /\ tokens[calls[c].sem] < Cap
    /\ tokens' = [tokens EXCEPT ![calls[c].sem] = @ + 1]
    /\ calls' = [calls EXCEPT ![c].pc = "hold"]
    /\ UNCHANGED <<sems, refs>>

\* the release function's first half, <-s.ch
Drain(c) ==
    /\ tokens[calls[c].sem] > 0
    /\ tokens' = [tokens EXCEPT ![calls[c].sem] = @ - 1]
    /\ calls' = [calls EXCEPT ![c].pc = "unref"]
    /\ UNCHANGED <<sems, refs>>

\* fault: a waiter that gives up drains a token it never took
GiveUp_Drains(c) ==
    /\ calls[c].pc = "wait"
    /\ Drain(c)
\* ... or ctx.Done, which may win even when a token is free
GiveUp(c) ==
    /\ calls[c].pc = "wait"
    /\ calls' = [calls EXCEPT ![c].pc = "unref"]
    /\ UNCHANGED <<sems, refs, tokens>>

\* fault: an error return forgets to release
Finish_Leaks(c) ==
    /\ calls[c].pc = "hold"
    /\ calls' = [calls EXCEPT ![c].pc = "unref"]
    /\ UNCHANGED <<sems, refs, tokens>>
\* Fetch returns (response read, or an error), or FetchStream fails
Finish(c) ==
    /\ calls[c].pc = "hold"
    /\ Drain(c)

\* FetchStream returns the open body; the token goes with it
Stream(c) ==
    /\ calls[c].pc = "hold"
    /\ calls' = [calls EXCEPT ![c].pc = "stream"]
    /\ UNCHANGED <<sems, refs, tokens>>

\* releaseReadCloser.Close: its once runs the release function a single time
Close(c) ==
    /\ calls[c].pc = "stream"
    /\ Drain(c)

\* fault: the entry is dropped with the first reference
Unref_Always(c) ==
    LET s == calls[c].sem
        k == Key(calls[c].name)
    IN
    /\ calls[c].pc = "unref"
    /\ refs' = [refs EXCEPT ![s] = @ - 1]
    /\ sems' = [sems EXCEPT ![k] = "none"]
    /\ calls' = [calls EXCEPT ![c] = NoCall]
    /\ UNCHANGED tokens
\* fault: the entry of a host without fetches stays
Unref_Keeps(c) ==
    /\ calls[c].pc = "unref"
    /\ refs' = [refs EXCEPT ![calls[c].sem] = @ - 1]
    /\ calls' = [calls EXCEPT ![c] = NoCall]
    /\ UNCHANGED <<sems, tokens>>
\* unref's critical section: the map entry goes with the last reference
Unref(c) ==
    LET s == calls[c].sem
        k == Key(calls[c].name)
    IN
    /\ calls[c].pc = "unref"
    /\ refs' = [refs EXCEPT ![s] = @ - 1]
    /\ sems' = IF refs[s] = 1 THEN [sems EXCEPT ![k] = "none"] ELSE sems
    /\ calls' = [calls EXCEPT ![c] = NoCall]
    /\ UNCHANGED tokens

Next ==
    \E c \in Callers :
        \/ \E n \in Names : Enter(c, n)
        \/ Take(c) \/ GiveUp(c)
        \/ Finish(c) \/ Stream(c) \/ Close(c)
        \/ Unref(c)

Spec == Init /\ [][Next]_vars

(***************************************************************************)
(* Fairness: the http.Client's timeout ends every request and every body,  *)
(* and callers close bodies; a Go channel serves blocked senders first in  *)
(* first out, so a waiter that can proceed again and again does.           *)
(***************************************************************************)
Fairness ==
    \A c \in Callers :
        /\ SF_vars(Take(c))
        /\ WF_vars(Finish(c) \/ Stream(c))
        /\ WF_vars(Close(c))
        /\ WF_vars(Unref(c))

FairSpec == Spec /\ Fairness

-----------------------------------------------------------------------------
(* Properties *)

\* Every variable holds a value of its type.
TypeOK ==
    /\ sems \in [Names -> Objects \cup {"none"}]
    /\ refs \in [Objects -> Nat]
    /\ tokens \in [Objects -> 0..Cap]
    /\ calls \in [Callers -> Call]

Busy(h) == {c \in Callers : calls[c].pc \in {"hold", "stream"} /\ HostKey[calls[c].name] = h}

\* Never more than HostConcurrency requests to one host at a time, however its
\* name is spelled and however often its semaphore was dropped and remade.
CapHeld == \A h \in Hosts : Cardinality(Busy(h)) <= Cap

\* The callers' view: every step begins or ends one request at one host's counting
\* semaphore, or is not seen at all, although the map's semaphores come and go.
Requests == [h \in Hosts |-> Busy(h)]
Permits == [h \in Hosts |-> Cap - Cardinality(Busy(h))]
Sem == INSTANCE HostSemaphores WITH active <- Requests, free <- Permits

ImplementsSemaphores == Sem!Spec

\* A semaphore is never dropped from the map, or replaced, while a caller has or
\* waits for one of its tokens.
SemShared ==
    \A c \in Callers :
        calls[c].pc # "idle" => sems[HostKey[calls[c].name]] = calls[c].sem

\* The map holds nothing for a host that nobody is fetching from.
NoIdleSems == \A n \in Names : sems[n] # "none" => Users(sems[n]) # {}

\* A caller that waits for a token gets one, or gives up: tokens are never lost,
\* whatever mix of cancelled waits, failed requests and open bodies goes before.
WaitersServed == \A c \in Callers : calls[c].pc = "wait" ~> calls[c].pc # "wait"
=============================================================================
