-------------------------- MODULE HostLimiterProofs --------------------------
(***************************************************************************)
(* The per-host limit for every number of callers, hosts, spellings and    *)
(* tokens.                                                                 *)
(*                                                                         *)
(* CapHeld counts requests by host, the code counts tokens by semaphore.   *)
(* The inductive invariant ties the two: refs and tokens are the sizes of  *)
(* the sets they stand for, all callers of a host share the map's          *)
(* semaphore (SemShared), and no two hosts share one (Separate).  The same  *)
(* facts make the limiter an implementation of HostSemaphores.             *)
(***************************************************************************)
EXTENDS HostLimiter, FiniteSetTheorems, TLAPS

\* No two map entries hold the same semaphore.
Separate == \A m, n \in Names : sems[m] # "none" /\ sems[m] = sems[n] => m = n

\* refs and tokens count what they are meant to count.
Counted ==
    \A s \in Objects :
        /\ refs[s] = Cardinality(Users(s))
        /\ tokens[s] = Cardinality(Holders(s))

\* A caller inside acquire, a request or release has a semaphore.
HasSem == \A c \in Callers : calls[c].pc # "idle" => calls[c].sem \in Objects

IInv == TypeOK /\ HasSem /\ SemShared /\ NoIdleSems /\ Separate /\ Counted

LEMMA FiniteUse ==
    ASSUME NEW s
    PROVE  IsFiniteSet(Users(s)) /\ IsFiniteSet(Holders(s))
  BY FS_Subset, LimiterAssumption DEF Users, Holders

LEMMA Keys == \A n \in Names : HostKey[n] \in Names
  BY LimiterAssumption

LEMMA Blank == NoCall \in Call /\ NoCall.pc = "idle"
  BY LimiterAssumption DEF NoCall, Call, AnyName

LEMMA InitFits == Init => IInv
<1> SUFFICES ASSUME Init PROVE IInv
  OBVIOUS
<1>1. TypeOK
  BY Blank, LimiterAssumption DEF Init, TypeOK
<1>2. HasSem /\ SemShared /\ NoIdleSems /\ Separate
  BY DEF Init, HasSem, SemShared, NoIdleSems, Separate, NoCall
<1>3. \A s \in Objects : Users(s) = {} /\ Holders(s) = {}
  BY DEF Init, Users, Holders, NoCall
<1>4. Counted
  BY <1>3, FS_EmptySet DEF Counted, Init
<1>. QED  BY <1>1, <1>2, <1>4 DEF IInv

-----------------------------------------------------------------------------
(* A step in which one caller changes its place but keeps its semaphore.       *)
LEMMA SamePlace ==
    ASSUME IInv, NEW c \in Callers, NEW pc \in {"wait", "hold", "stream", "unref"},
           calls[c].pc # "idle",
           calls' = [calls EXCEPT ![c].pc = pc],
           UNCHANGED <<sems, refs>>,
           tokens' \in [Objects -> 0..Cap],
           \A s \in Objects : tokens'[s] = Cardinality(Holders(s)')
    PROVE  IInv'
<1>1. TypeOK'
  BY DEF IInv, TypeOK, Call
<1>2. \A d \in Callers : /\ calls'[d].name = calls[d].name /\ calls'[d].sem = calls[d].sem
                         /\ calls'[d].pc # "idle" <=> calls[d].pc # "idle"
  BY DEF IInv, TypeOK, Call
<1>3. \A s : Users(s)' = Users(s)
  BY <1>2 DEF Users
<1>4. HasSem' /\ SemShared' /\ Separate'
  BY <1>2 DEF IInv, HasSem, SemShared, Separate
<1>5. NoIdleSems'
  BY <1>3 DEF IInv, NoIdleSems
<1>6. Counted'
  BY <1>3 DEF IInv, Counted
<1>. QED  BY <1>1, <1>4, <1>5, <1>6 DEF IInv

LEMMA TakeKeeps ==
    ASSUME IInv, NEW c \in Callers, Take(c)
    PROVE  IInv'
<1>0. PICK s \in Objects : s = calls[c].sem
  BY DEF Take, IInv, HasSem
<1>1. s = calls[c].sem /\ calls[c].pc = "wait" /\ tokens[s] \in 0..Cap /\ tokens[s] < Cap
  BY <1>0 DEF Take, IInv, TypeOK
<1>2. tokens' = [tokens EXCEPT ![s] = tokens[s] + 1] /\ tokens' \in [Objects -> 0..Cap]
  BY <1>1, LimiterAssumption DEF Take, IInv, TypeOK
<1>3. Holders(s)' = Holders(s) \cup {c} /\ c \notin Holders(s)
  BY <1>1 DEF Take, Holders, IInv, TypeOK, Call
<1>4. \A t \in Objects : t # s => Holders(t)' = Holders(t)
  BY <1>1 DEF Take, Holders, IInv, TypeOK, Call
<1>5. Cardinality(Holders(s)') = tokens[s] + 1
  BY <1>1, <1>3, FiniteUse, FS_AddElement DEF IInv, Counted
<1>6. ASSUME NEW t \in Objects PROVE tokens'[t] = Cardinality(Holders(t)')
  <2>1. CASE t = s
    <3>1. Holders(t)' = Holders(s)'
      BY <2>1 DEF Holders
    <3>. QED  BY <2>1, <3>1, <1>2, <1>5 DEF IInv, TypeOK
  <2>2. CASE t # s
    BY <2>2, <1>2, <1>4 DEF IInv, TypeOK, Counted
  <2>. QED  BY <2>1, <2>2
<1>. QED  BY <1>1, <1>2, <1>6, SamePlace DEF Take

LEMMA QuietKeeps ==
    ASSUME IInv, NEW c \in Callers, GiveUp(c) \/ Stream(c)
    PROVE  IInv'
<1>1. \A s \in Objects : Holders(s)' = Holders(s)
  BY DEF GiveUp, Stream, Holders, IInv, TypeOK, Call
<1>2. /\ tokens' \in [Objects -> 0..Cap]
      /\ \A s \in Objects : tokens'[s] = Cardinality(Holders(s)')
  BY <1>1 DEF GiveUp, Stream, IInv, TypeOK, Counted
<1>. QED  BY <1>2, SamePlace DEF GiveUp, Stream

LEMMA DrainKeeps ==
    ASSUME IInv, NEW c \in Callers, Finish(c) \/ Close(c)
    PROVE  IInv'
<1>0. PICK s \in Objects : s = calls[c].sem
  BY DEF Finish, Close, IInv, HasSem
<1>1. Drain(c) /\ calls[c].pc \in {"hold", "stream"}
  BY DEF Finish, Close
<1>2. s = calls[c].sem /\ tokens[s] \in 0..Cap /\ tokens[s] > 0
  BY <1>0, <1>1 DEF Drain, IInv, TypeOK
<1>3. tokens' = [tokens EXCEPT ![s] = tokens[s] - 1] /\ tokens' \in [Objects -> 0..Cap]
  BY <1>1, <1>2, LimiterAssumption DEF Drain, IInv, TypeOK
<1>4. Holders(s)' = Holders(s) \ {c} /\ c \in Holders(s)
  BY <1>1, <1>2 DEF Drain, Holders, IInv, TypeOK, Call
<1>5. \A t \in Objects : t # s => Holders(t)' = Holders(t)
  BY <1>1, <1>2 DEF Drain, Holders, IInv, TypeOK, Call
<1>6. Cardinality(Holders(s)') = tokens[s] - 1
  BY <1>2, <1>4, FiniteUse, FS_RemoveElement DEF IInv, Counted
<1>7. ASSUME NEW t \in Objects PROVE tokens'[t] = Cardinality(Holders(t)')
  <2>1. CASE t = s
    <3>1. Holders(t)' = Holders(s)'
      BY <2>1 DEF Holders
    <3>. QED  BY <2>1, <3>1, <1>3, <1>6 DEF IInv, TypeOK
  <2>2. CASE t # s
    BY <2>2, <1>3, <1>5 DEF IInv, TypeOK, Counted
  <2>. QED  BY <2>1, <2>2
<1>. QED  BY <1>1, <1>3, <1>7, SamePlace DEF Drain

(* The callers before and after acquire's critical section.                   *)
LEMMA EnterUsers ==
    ASSUME IInv, NEW c \in Callers, calls[c].pc = "idle", NEW n \in Names,
           NEW s \in Objects,
           calls' = [calls EXCEPT ![c] = [pc |-> "wait", name |-> n, sem |-> s]]
    PROVE  /\ calls' \in [Callers -> Call]
           /\ Users(s)' = Users(s) \cup {c} /\ c \notin Users(s)
           /\ \A t : t # s => Users(t)' = Users(t)
           /\ \A t : Holders(t)' = Holders(t)
           /\ Cardinality(Users(s)') = Cardinality(Users(s)) + 1
<1>1. calls' \in [Callers -> Call]
  BY DEF IInv, TypeOK, Call
<1>2. Users(s)' = Users(s) \cup {c} /\ c \notin Users(s)
  BY DEF IInv, TypeOK, Users, Call
<1>3. \A t : t # s => Users(t)' = Users(t)
  BY DEF IInv, TypeOK, Users, Call
<1>4. \A t : Holders(t)' = Holders(t)
  BY DEF IInv, TypeOK, Holders, Call
<1>5. Cardinality(Users(s)') = Cardinality(Users(s)) + 1
  BY <1>2, FiniteUse, FS_AddElement
<1>. QED  BY <1>1, <1>2, <1>3, <1>4, <1>5

LEMMA EnterKeeps ==
    ASSUME IInv, NEW c \in Callers, NEW n \in Names, Enter(c, n)
    PROVE  IInv'
<1> DEFINE k == HostKey[n]
<1>1. k \in Names /\ HostKey[n] = k /\ calls[c].pc = "idle"
  BY LimiterAssumption DEF Enter
<1>. HIDE DEF k
<1>2. PICK s \in Objects :
        /\ calls' = [calls EXCEPT ![c] = [pc |-> "wait", name |-> n, sem |-> s]]
        /\ IF sems[k] # "none"
           THEN /\ s = sems[k]
                /\ refs' = [refs EXCEPT ![s] = @ + 1]
                /\ UNCHANGED <<sems, tokens>>
           ELSE /\ Fresh(s)
                /\ sems' = [sems EXCEPT ![k] = s]
                /\ refs' = [refs EXCEPT ![s] = 1]
                /\ tokens' = [tokens EXCEPT ![s] = 0]
  BY <1>1 DEF Enter, Key
<1>3. /\ calls' \in [Callers -> Call]
      /\ Users(s)' = Users(s) \cup {c} /\ c \notin Users(s)
      /\ \A t : t # s => Users(t)' = Users(t)
      /\ \A t : Holders(t)' = Holders(t)
      /\ Cardinality(Users(s)') = Cardinality(Users(s)) + 1
  BY <1>1, <1>2, EnterUsers
<1>4. \A d \in Callers : d # c => calls'[d] = calls[d]
  BY <1>2 DEF IInv, TypeOK
<1>5. calls'[c] = [pc |-> "wait", name |-> n, sem |-> s]
  BY <1>2 DEF IInv, TypeOK
<1>6. HasSem'
  BY <1>4, <1>5 DEF IInv, HasSem
<1>7. CASE sems[k] # "none"
  <2>1. s = sems[k] /\ refs' = [refs EXCEPT ![s] = refs[s] + 1] /\ sems' = sems /\ tokens' = tokens
    BY <1>2, <1>7
  <2>2. TypeOK'
    BY <1>3, <2>1 DEF IInv, TypeOK
  <2>3. SemShared' /\ Separate'
    BY <1>1, <1>4, <1>5, <2>1 DEF IInv, SemShared, Separate
  <2>4. NoIdleSems'
    BY <1>3, <2>1 DEF IInv, NoIdleSems
  <2>5. Counted'
    BY <1>3, <2>1 DEF IInv, TypeOK, Counted
  <2>. QED  BY <1>6, <2>2, <2>3, <2>4, <2>5 DEF IInv
<1>8. CASE sems[k] = "none"
  <2>1. Users(s) = {} /\ sems' = [sems EXCEPT ![k] = s] /\ refs' = [refs EXCEPT ![s] = 1]
        /\ tokens' = [tokens EXCEPT ![s] = 0]
    BY <1>2, <1>8 DEF Fresh
  <2>2. TypeOK'
    BY <1>1, <1>3, <2>1, LimiterAssumption DEF IInv, TypeOK
  <2>3. \A d \in Callers : calls[d].pc # "idle" => HostKey[calls[d].name] # k
    BY <1>8, LimiterAssumption DEF IInv, SemShared, HasSem
  <2>4. SemShared'
    <3> SUFFICES ASSUME NEW d \in Callers, calls'[d].pc # "idle"
                 PROVE  sems'[HostKey[calls'[d].name]] = calls'[d].sem
      BY DEF SemShared
    <3>1. CASE d = c
      BY <3>1, <1>1, <1>5, <2>1 DEF IInv, TypeOK
    <3>2. CASE d # c
      <4>1. calls'[d] = calls[d] /\ calls[d].pc # "idle" /\ calls[d] \in Call
        BY <3>2, <1>4 DEF IInv, TypeOK
      <4>2. HostKey[calls[d].name] # k /\ HostKey[calls[d].name] \in Names
        BY <2>3, <4>1, Keys DEF Call
      <4>. QED  BY <4>1, <4>2, <2>1 DEF IInv, SemShared, TypeOK
    <3>. QED  BY <3>1, <3>2
  <2>5. \A m \in Names : sems[m] # s
    BY <2>1, LimiterAssumption DEF IInv, NoIdleSems
  <2>6. Separate'
    BY <1>1, <2>1, <2>5 DEF IInv, Separate, TypeOK
  <2>7. NoIdleSems'
    <3> SUFFICES ASSUME NEW m \in Names, sems'[m] # "none"
                 PROVE  \E d \in Callers : calls'[d].pc # "idle" /\ calls'[d].sem = sems'[m]
      BY DEF NoIdleSems, Users
    <3>1. CASE m = k
      BY <3>1, <1>1, <1>5, <2>1 DEF IInv, TypeOK
    <3>2. CASE m # k
      <4>1. sems'[m] = sems[m]
        BY <3>2, <2>1 DEF IInv, TypeOK
      <4>2. PICK d \in Callers : calls[d].pc # "idle" /\ calls[d].sem = sems[m]
        BY <4>1 DEF IInv, NoIdleSems, Users
      <4>. QED  BY <4>1, <4>2, <1>1, <1>4
    <3>. QED  BY <3>1, <3>2
  <2>8. Holders(s) = {} /\ Cardinality(Users(s)) = 0 /\ Cardinality(Holders(s)) = 0
    BY <2>1, FS_EmptySet DEF Users, Holders
  <2>9. Counted'
    <3> SUFFICES ASSUME NEW t \in Objects
                 PROVE  refs'[t] = Cardinality(Users(t)') /\ tokens'[t] = Cardinality(Holders(t)')
      BY DEF Counted
    <3>1. CASE t = s
      <4>1. Users(t)' = Users(s)' /\ Holders(t)' = Holders(s)
        BY <3>1, <1>3 DEF Users, Holders
      <4>. QED  BY <3>1, <4>1, <1>3, <2>1, <2>8 DEF IInv, TypeOK
    <3>2. CASE t # s
      BY <3>2, <1>3, <2>1 DEF IInv, TypeOK, Counted
    <3>. QED  BY <3>1, <3>2
  <2>. QED  BY <1>6, <2>2, <2>4, <2>6, <2>7, <2>9 DEF IInv
<1>. QED  BY <1>7, <1>8

(* The last user takes the map entry with it; anyone else of this host would   *)
(* be a user of the same semaphore.                                            *)
LEMMA UnrefKeeps ==
    ASSUME IInv, NEW c \in Callers, Unref(c)
    PROVE  IInv'
<1>0. PICK s \in Objects : s = calls[c].sem
  BY DEF Unref, IInv, HasSem
<1> DEFINE k == HostKey[calls[c].name]
<1>1. k \in Names /\ sems[k] = s /\ calls[c].pc = "unref"
  BY <1>0, Keys DEF Unref, IInv, SemShared, TypeOK, Call
<1>2. /\ refs' = [refs EXCEPT ![s] = refs[s] - 1]
      /\ sems' = IF refs[s] = 1 THEN [sems EXCEPT ![k] = "none"] ELSE sems
      /\ calls' = [calls EXCEPT ![c] = NoCall]
      /\ tokens' = tokens
  BY <1>0 DEF Unref, Key
<1>. HIDE DEF k
<1>3. Users(s)' = Users(s) \ {c} /\ c \in Users(s)
  BY <1>0, <1>1, <1>2, Blank DEF IInv, TypeOK, Users
<1>4. \A t : t # s => Users(t)' = Users(t)
  BY <1>0, <1>2, Blank DEF IInv, TypeOK, Users
<1>5. \A t : Holders(t)' = Holders(t)
  BY <1>1, <1>2, Blank DEF IInv, TypeOK, Holders
<1>6. /\ refs[s] = Cardinality(Users(s)) /\ refs[s] \in Nat
      /\ Cardinality(Users(s)') = refs[s] - 1
      /\ Cardinality(Users(s)') \in Nat
      /\ (Cardinality(Users(s)') = 0 <=> Users(s)' = {})
  <2>1. IsFiniteSet(Users(s)) /\ IsFiniteSet(Users(s) \ {c})
    BY FiniteUse, FS_RemoveElement
  <2>2. Cardinality(Users(s) \ {c}) = Cardinality(Users(s)) - 1
    BY <1>3, <2>1, FS_RemoveElement
  <2>. QED
    BY <1>3, <2>1, <2>2, FS_EmptySet, FS_CardinalityType DEF IInv, TypeOK, Counted
<1>7. TypeOK'
  BY <1>1, <1>2, <1>6, Blank DEF IInv, TypeOK
<1>8. \A d \in Callers : d # c => calls'[d] = calls[d]
  BY <1>2 DEF IInv, TypeOK
<1>9. calls'[c].pc = "idle"
  BY <1>2, Blank DEF IInv, TypeOK
<1>10. HasSem'
  BY <1>8, <1>9 DEF IInv, HasSem
<1>11. SemShared'
  <2> SUFFICES ASSUME NEW d \in Callers, calls'[d].pc # "idle"
               PROVE  sems'[HostKey[calls'[d].name]] = calls'[d].sem
    BY DEF SemShared
  <2>1. d # c /\ calls'[d] = calls[d] /\ calls[d] \in Call /\ calls[d].pc # "idle"
    BY <1>8, <1>9 DEF IInv, TypeOK
  <2>2. sems[HostKey[calls[d].name]] = calls[d].sem /\ HostKey[calls[d].name] \in Names
    BY <2>1, Keys DEF IInv, SemShared, Call
  <2>3. CASE refs[s] # 1
    BY <2>1, <2>2, <2>3, <1>2
  <2>4. CASE refs[s] = 1
    <3>1. Users(s)' = {}
      BY <2>4, <1>6
    <3>2. calls[d].sem # s
      BY <2>1, <3>1 DEF Users
    <3>3. HostKey[calls[d].name] # k
      BY <2>2, <3>2, <1>1
    <3>. QED  BY <2>1, <2>2, <2>4, <3>3, <1>2 DEF IInv, TypeOK
  <2>. QED  BY <2>3, <2>4
<1>12. Separate'
  BY <1>1, <1>2 DEF IInv, Separate, TypeOK
<1>13. NoIdleSems'
  <2> SUFFICES ASSUME NEW m \in Names, sems'[m] # "none"
               PROVE  \E d \in Callers : calls'[d].pc # "idle" /\ calls'[d].sem = sems'[m]
    BY DEF NoIdleSems, Users
  <2>1. sems'[m] = sems[m] /\ (refs[s] = 1 => m # k)
    BY <1>1, <1>2 DEF IInv, TypeOK
  <2>2. CASE sems[m] = s
    <3>1. refs[s] # 1
      BY <2>1, <2>2, <1>1, LimiterAssumption DEF IInv, Separate
    <3>2. Users(s)' # {}
      BY <3>1, <1>6
    <3>. QED  BY <3>2, <2>1, <2>2 DEF Users
  <2>3. CASE sems[m] # s
    <3>1. PICK d \in Callers : calls[d].pc # "idle" /\ calls[d].sem = sems[m]
      BY <2>1 DEF IInv, NoIdleSems, Users
    <3>. QED  BY <3>1, <2>1, <2>3, <1>0, <1>8
  <2>. QED  BY <2>2, <2>3
<1>14. Counted'
  <2> SUFFICES ASSUME NEW t \in Objects
               PROVE  refs'[t] = Cardinality(Users(t)') /\ tokens'[t] = Cardinality(Holders(t)')
    BY DEF Counted
  <2>1. CASE t = s
    <3>1. Users(t)' = Users(s)' /\ Holders(t)' = Holders(t)
      BY <2>1, <1>5 DEF Users
    <3>. QED  BY <2>1, <3>1, <1>2, <1>6 DEF IInv, TypeOK, Counted
  <2>2. CASE t # s
    BY <2>2, <1>2, <1>4, <1>5 DEF IInv, TypeOK, Counted
  <2>. QED  BY <2>1, <2>2
<1>. QED  BY <1>7, <1>10, <1>11, <1>12, <1>13, <1>14 DEF IInv

-----------------------------------------------------------------------------
LEMMA NextKeeps == IInv /\ [Next]_vars => IInv'
<1> SUFFICES ASSUME IInv, [Next]_vars PROVE IInv'
  OBVIOUS
<1>1. CASE UNCHANGED vars
  BY <1>1 DEF vars, IInv, TypeOK, HasSem, SemShared, NoIdleSems, Separate, Counted,
              Users, Holders
<1>2. CASE Next
  <2>1. PICK c \in Callers :
          \/ \E n \in Names : Enter(c, n)
          \/ Take(c) \/ GiveUp(c)
          \/ Finish(c) \/ Stream(c) \/ Close(c)
          \/ Unref(c)
    BY <1>2 DEF Next
  <2>. QED  BY <2>1, EnterKeeps, TakeKeeps, QuietKeeps, DrainKeeps, UnrefKeeps
<1>. QED  BY <1>1, <1>2

(* The inductive invariant holds throughout every behaviour.                   *)
THEOREM Invariance == Spec => []IInv
  BY InitFits, NextKeeps, PTL DEF Spec

(* Token counts stay within the channel's capacity, whatever the callers do.   *)
THEOREM TypeCorrect == Spec => []TypeOK
<1>1. IInv => TypeOK
  BY DEF IInv
<1>. QED  BY <1>1, Invariance, PTL

(* acquire, release and unref keep the per-host limit, for every number of     *)
(* callers, hosts and tokens: the requests to a host all hold tokens of one    *)
(* semaphore, whose channel has HostConcurrency places.                        *)
THEOREM HostCap == Spec => []CapHeld
<1>1. IInv => CapHeld
  <2> SUFFICES ASSUME IInv, NEW h \in Hosts PROVE Cardinality(Busy(h)) <= Cap
    BY DEF CapHeld
  <2>1. CASE Busy(h) = {}
    BY <2>1, FS_EmptySet, LimiterAssumption
  <2>2. CASE Busy(h) # {}
    <3>1. PICK c \in Busy(h) : TRUE
      BY <2>2
    <3>2. c \in Callers /\ calls[c].sem \in Objects /\ sems[h] = calls[c].sem
      BY <3>1 DEF Busy, IInv, HasSem, SemShared
    <3>3. Busy(h) \subseteq Holders(sems[h])
      BY DEF Busy, Holders, IInv, SemShared
    <3>4. Cardinality(Busy(h)) <= Cardinality(Holders(sems[h]))
          /\ Cardinality(Busy(h)) \in Nat
      BY <3>3, FiniteUse, FS_Subset, FS_CardinalityType
    <3>5. Cardinality(Holders(sems[h])) \in 0..Cap
      BY <3>2 DEF IInv, TypeOK, Counted
    <3>. QED  BY <3>4, <3>5, LimiterAssumption
  <2>. QED  BY <2>1, <2>2
<1>. QED  BY <1>1, Invariance, PTL

(* A semaphore in use is never evicted or replaced, and an unused one is never *)
(* kept.                                                                       *)
THEOREM Eviction == Spec => [](SemShared /\ NoIdleSems)
<1>1. IInv => SemShared /\ NoIdleSems
  BY DEF IInv
<1>. QED  BY <1>1, Invariance, PTL

(* sems keeps no entry nobody uses: what acquire adds, the last release or    *)
(* give-up removes, however the calls interleave.                             *)
THEOREM NothingIdle == Spec => []NoIdleSems
<1>1. IInv => NoIdleSems
  BY DEF IInv
<1>. QED  BY <1>1, Invariance, PTL

-----------------------------------------------------------------------------
(* The requests under way at a host hold tokens of its semaphore.              *)
LEMMA BusyHold ==
    ASSUME IInv, NEW c \in Callers, calls[c].pc # "idle"
    PROVE  /\ HostKey[calls[c].name] \in Hosts
           /\ Cardinality(Busy(HostKey[calls[c].name])) \in Nat
           /\ Cardinality(Busy(HostKey[calls[c].name])) <= tokens[calls[c].sem]
<1>. DEFINE h == HostKey[calls[c].name]
<1>1. calls[c].sem \in Objects /\ sems[h] = calls[c].sem /\ calls[c].name \in Names
  BY DEF IInv, TypeOK, Call, HasSem, SemShared
<1>2. h \in Hosts
  BY <1>1 DEF Hosts
<1>3. Busy(h) \subseteq Holders(calls[c].sem)
  BY <1>1 DEF Busy, Holders, IInv, SemShared
<1>4. /\ Cardinality(Busy(h)) \in Nat
      /\ Cardinality(Busy(h)) <= Cardinality(Holders(calls[c].sem))
  BY <1>3, FiniteUse, FS_Subset, FS_CardinalityType
<1>5. tokens[calls[c].sem] = Cardinality(Holders(calls[c].sem))
  BY <1>1 DEF IInv, Counted
<1>. QED  BY <1>2, <1>4, <1>5

(* A step that leaves the set of requests alone is invisible.                  *)
LEMMA Unseen ==
    ASSUME \A h \in Hosts : Busy(h)' = Busy(h)
    PROVE  UNCHANGED <<Permits, Requests>>
  BY DEF Permits, Requests

(* Requests and permits after a step that changes one host's requests.         *)
LEMMA OneHost ==
    ASSUME NEW k \in Hosts, NEW S, NEW n,
           Busy(k)' = S, Cap - Cardinality(S) = n,
           \A h \in Hosts : h # k => Busy(h)' = Busy(h)
    PROVE  /\ Requests' = [Requests EXCEPT ![k] = S]
           /\ Permits' = [Permits EXCEPT ![k] = n]
<1>1. \A h \in Hosts : Requests'[h] = [Requests EXCEPT ![k] = S][h]
  BY DEF Requests
<1>2. \A h \in Hosts : Permits'[h] = [Permits EXCEPT ![k] = n][h]
  BY DEF Permits
<1>3. Requests' = [h \in Hosts |-> Requests'[h]] /\ Permits' = [h \in Hosts |-> Permits'[h]]
  BY DEF Requests, Permits
<1>4. /\ [Requests EXCEPT ![k] = S] = [h \in Hosts |-> [Requests EXCEPT ![k] = S][h]]
      /\ [Permits EXCEPT ![k] = n] = [h \in Hosts |-> [Permits EXCEPT ![k] = n][h]]
  BY DEF Requests, Permits
<1>. QED  BY <1>1, <1>2, <1>3, <1>4

LEMMA TakeBegins ==
    ASSUME IInv, NEW c \in Callers, Take(c)
    PROVE  Sem!Next
<1>1. calls[c].pc = "wait" /\ tokens[calls[c].sem] < Cap /\ calls \in [Callers -> Call]
      /\ calls' = [calls EXCEPT ![c].pc = "hold"]
  BY DEF Take, IInv, TypeOK
<1>2. calls[c].sem \in Objects /\ tokens[calls[c].sem] \in 0..Cap
  BY <1>1 DEF IInv, HasSem, TypeOK
<1>3. PICK k \in Hosts : k = HostKey[calls[c].name]
  BY <1>1, BusyHold
<1>4. Cardinality(Busy(k)) \in Nat /\ Cardinality(Busy(k)) < Cap
  BY <1>1, <1>2, <1>3, BusyHold, LimiterAssumption
<1>5. \A h \in Hosts : c \notin Busy(h)
  BY <1>1 DEF Busy
<1>6. Busy(k)' = Busy(k) \cup {c}
  BY <1>1, <1>3 DEF Busy, Call
<1>7. \A h \in Hosts : h # k => Busy(h)' = Busy(h)
  BY <1>1, <1>3 DEF Busy, Call
<1>8. Cardinality(Busy(k) \cup {c}) = Cardinality(Busy(k)) + 1
  BY <1>5, FS_AddElement, FS_Subset, LimiterAssumption DEF Busy
<1>9. Permits[k] = Cap - Cardinality(Busy(k)) /\ Requests[k] = Busy(k)
      /\ \A h \in Hosts : Requests[h] = Busy(h)
  BY DEF Permits, Requests
<1>10. Cap - Cardinality(Busy(k) \cup {c}) = Permits[k] - 1 /\ Permits[k] > 0
  BY <1>4, <1>8, <1>9, LimiterAssumption
<1>11. /\ Requests' = [Requests EXCEPT ![k] = Requests[k] \cup {c}]
       /\ Permits' = [Permits EXCEPT ![k] = Permits[k] - 1]
  BY <1>6, <1>7, <1>9, <1>10, OneHost
<1>12. Sem!Begin(c, k)
  BY <1>5, <1>9, <1>10, <1>11 DEF Sem!Begin
<1>. QED  BY <1>12 DEF Sem!Next

LEMMA DrainEnds ==
    ASSUME IInv, NEW c \in Callers, Finish(c) \/ Close(c)
    PROVE  Sem!Next
<1>1. calls[c].pc \in {"hold", "stream"} /\ calls \in [Callers -> Call]
      /\ calls' = [calls EXCEPT ![c].pc = "unref"]
  BY DEF Finish, Close, Drain, IInv, TypeOK
<1>2. PICK k \in Hosts : k = HostKey[calls[c].name]
  BY <1>1, BusyHold
<1>3. c \in Busy(k) /\ Cardinality(Busy(k)) \in Nat
  BY <1>1, <1>2, BusyHold DEF Busy
<1>4. Busy(k)' = Busy(k) \ {c}
  BY <1>1, <1>2 DEF Busy, Call
<1>5. \A h \in Hosts : h # k => Busy(h)' = Busy(h)
  BY <1>1, <1>2 DEF Busy, Call
<1>6. Cardinality(Busy(k) \ {c}) = Cardinality(Busy(k)) - 1
  <2>1. IsFiniteSet(Busy(k))
    BY FS_Subset, LimiterAssumption DEF Busy
  <2>. QED  BY <1>3, <2>1, FS_RemoveElement
<1>7. Permits[k] = Cap - Cardinality(Busy(k)) /\ Requests[k] = Busy(k)
  BY DEF Permits, Requests
<1>8. Cap - Cardinality(Busy(k) \ {c}) = Permits[k] + 1
  BY <1>3, <1>6, <1>7, LimiterAssumption
<1>9. /\ Requests' = [Requests EXCEPT ![k] = Requests[k] \ {c}]
      /\ Permits' = [Permits EXCEPT ![k] = Permits[k] + 1]
  <2>1. PICK S : S = Busy(k) \ {c}
    OBVIOUS
  <2>2. PICK n : n = Permits[k] + 1
    OBVIOUS
  <2>3. Busy(k)' = S /\ Cap - Cardinality(S) = n
    BY <1>4, <1>8, <2>1, <2>2
  <2>4. Requests' = [Requests EXCEPT ![k] = S] /\ Permits' = [Permits EXCEPT ![k] = n]
    BY <1>5, <2>3, OneHost
  <2>. QED  BY <1>7, <2>1, <2>2, <2>4
<1>10. Sem!End(c, k)
  BY <1>3, <1>7, <1>9 DEF Sem!End
<1>. QED  BY <1>10 DEF Sem!Next

LEMMA OthersUnseen ==
    ASSUME IInv, NEW c \in Callers,
           (\E n \in Names : Enter(c, n)) \/ GiveUp(c) \/ Stream(c) \/ Unref(c)
    PROVE  UNCHANGED <<Permits, Requests>>
<1>1. calls \in [Callers -> Call]
  BY DEF IInv, TypeOK
<1>2. CASE \E n \in Names : Enter(c, n)
  <2>1. PICK n \in Names : Enter(c, n)
    BY <1>2
  <2>2. calls[c].pc = "idle" /\ \E s : calls' = [calls EXCEPT ![c] =
            [pc |-> "wait", name |-> n, sem |-> s]]
    BY <2>1 DEF Enter
  <2>3. \A h \in Hosts : Busy(h)' = Busy(h)
    BY <1>1, <2>2 DEF Busy
  <2>. QED  BY <2>3, Unseen
<1>3. CASE GiveUp(c)
  <2>1. \A h \in Hosts : Busy(h)' = Busy(h)
    BY <1>1, <1>3 DEF GiveUp, Busy, Call
  <2>. QED  BY <2>1, Unseen
<1>4. CASE Stream(c)
  <2>1. \A h \in Hosts : Busy(h)' = Busy(h)
    BY <1>1, <1>4 DEF Stream, Busy, Call
  <2>. QED  BY <2>1, Unseen
<1>5. CASE Unref(c)
  <2>1. calls[c].pc = "unref" /\ calls' = [calls EXCEPT ![c] = NoCall]
    BY <1>5 DEF Unref
  <2>2. \A h \in Hosts : Busy(h)' = Busy(h)
    BY <1>1, <2>1, Blank DEF Busy
  <2>. QED  BY <2>2, Unseen
<1>. QED  BY <1>2, <1>3, <1>4, <1>5

(* The limiter implements one counting semaphore per host: its initial states  *)
(* have no requests, a token taken or returned is a request begun or ended at  *)
(* that host, and nothing else is seen.                                        *)
THEOREM Refinement == Spec => ImplementsSemaphores
<1>1. Init => Sem!Init
  <2> SUFFICES ASSUME Init PROVE Sem!Init
    OBVIOUS
  <2>1. \A h \in Hosts : Busy(h) = {}
    BY DEF Init, Busy, NoCall
  <2>2. \A h \in Hosts : Cap - Cardinality(Busy(h)) = Cap
    BY <2>1, FS_EmptySet, LimiterAssumption
  <2>. QED  BY <2>1, <2>2 DEF Sem!Init, Permits, Requests
<1>2. IInv /\ [Next]_vars => [Sem!Next]_(Sem!vars)
  <2> SUFFICES ASSUME IInv, [Next]_vars
               PROVE  Sem!Next \/ UNCHANGED <<Permits, Requests>>
    BY DEF Sem!vars
  <2>1. CASE UNCHANGED vars
    BY <2>1 DEF vars, Busy, Permits, Requests
  <2>2. CASE Next
    <3>1. PICK c \in Callers :
            \/ \E n \in Names : Enter(c, n)
            \/ Take(c) \/ GiveUp(c)
            \/ Finish(c) \/ Stream(c) \/ Close(c)
            \/ Unref(c)
      BY <2>2 DEF Next
    <3>. QED  BY <3>1, TakeBegins, DrainEnds, OthersUnseen
  <2>. QED  BY <2>1, <2>2
<1>. QED  BY <1>1, <1>2, Invariance, PTL DEF Spec, ImplementsSemaphores, Sem!Spec
=============================================================================
