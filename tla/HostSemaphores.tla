--------------------------- MODULE HostSemaphores ---------------------------
(***************************************************************************)
(* What callers of fetch.Client may rely on: one counting semaphore per    *)
(* host, that is, at most HostConcurrency requests to a host at a time and *)
(* one request per caller.  There is no map, no reference count and no     *)
(* spelling of a host here; HostLimiter implements it.                     *)
(***************************************************************************)
EXTENDS Integers

CONSTANTS
    Callers,   \* goroutines that call Fetch or FetchStream
    Hosts,     \* hosts
    Cap        \* Config.HostConcurrency

VARIABLES
    free,      \* host -> requests that may still be begun
    active     \* host -> the callers with a request to it, or its body open

vars == <<free, active>>

Init ==
    /\ free = [h \in Hosts |-> Cap]
    /\ active = [h \in Hosts |-> {}]

\* acquire returns
Begin(c, h) ==
    /\ \A k \in Hosts : c \notin active[k]
    /\ free[h] > 0
    /\ free' = [free EXCEPT ![h] = @ - 1]
    /\ active' = [active EXCEPT ![h] = @ \cup {c}]

\* the release function is called
End(c, h) ==
    /\ c \in active[h]
    /\ free' = [free EXCEPT ![h] = @ + 1]
    /\ active' = [active EXCEPT ![h] = @ \ {c}]

Next == \E c \in Callers, h \in Hosts : Begin(c, h) \/ End(c, h)

Spec == Init /\ [][Next]_vars
=============================================================================
