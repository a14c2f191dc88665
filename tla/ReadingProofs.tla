----------------------------- MODULE ReadingProofs -----------------------------
(***************************************************************************)
(* Paging for every page size, every number of rows, tabs and requests.    *)
(*                                                                         *)
(* The cursor names a place, not a row: the row it was taken from may move *)
(* or vanish, and its id may come back.  So the argument is about places.  *)
(* A page is an initial part of the rows after the cursor (PageFacts), the *)
(* next cursor is at its end, and hence everything shown that has not      *)
(* moved lies before the cursor (Behind) and everything still owed lies    *)
(* after it (Ahead).  Ghost numbers identify items although ids return.    *)
(***************************************************************************)
EXTENDS Reading, FiniteOrders

\* A live row stands for one item, and no two rows for the same.
Numbered ==
    /\ \A i \in Ids : entries[i].live => entries[i].who \in 1..serial
    /\ \A i, j \in Ids :
         entries[i].live /\ entries[j].live /\ entries[i].who = entries[j].who => i = j

\* A request about an entry has an entry's id.
ReqsFit == \A r \in Requests : reqs[r].pc \in {"status", "star"} => reqs[r].id \in Ids

\* What a tab has shown and has not moved does not lie after its cursor.
Behind ==
    \A t \in Walkers, i \in Ids :
        /\ walks[t].on /\ walks[t].cursor # NoCursor
        /\ entries[i].live /\ entries[i].who \in walks[t].fixed
        => ~Older(walks[t].list, i, walks[t].cursor)

\* Row i is the row of item x, and still to come in the list of walk w.
Due(w, x, i) ==
    /\ entries[i].live /\ entries[i].who = x
    /\ Matches(w.list, entries[i], catOf)
    /\ Older(w.list, i, w.cursor)

\* What a tab owes its reader it has shown, or will show.
Ahead ==
    \A t \in Walkers : walks[t].on =>
        \A x \in walks[t].must :
            \/ x \in walks[t].shown
            \/ walks[t].cursor # NoCursor /\ \E i \in Ids : Due(walks[t], x, i)

IInv == TypeOK /\ Numbered /\ ReqsFit /\ Behind /\ Ahead /\ CategoryExists

-----------------------------------------------------------------------------
(* Rows and pages *)

LEMMA Blank ==
    ASSUME clock \in Nat
    PROVE  /\ NoEntry \in Entry /\ ~NoEntry.live
           /\ NoWalk \in Walk /\ ~NoWalk.on
           /\ NoRequest \in Request /\ NoRequest.pc = "idle"
<1>1. AnyFeed \in Feeds
  BY ReadingAssumption DEF AnyFeed
<1>2. NoEntry \in Entry /\ ~NoEntry.live
  BY <1>1, ReadingAssumption DEF NoEntry, Entry
<1>3. NoWalk \in Walk /\ ~NoWalk.on
  BY ReadingAssumption DEF NoWalk, Walk, Filters, NoCursor
<1>4. NoRequest \in Request /\ NoRequest.pc = "idle"
  BY <1>1, ReadingAssumption DEF NoRequest, Request
<1>. QED  BY <1>2, <1>3, <1>4

LEMMA KeysAreNat ==
    ASSUME TypeOK, NEW list
    PROVE  \A i \in Ids : CursorKey(list, entries[i]) \in Nat
<1>1. clock \in Nat /\ MaxPub \in Nat
  BY ReadingAssumption DEF TypeOK
<1>2. \A i \in Ids : entries[i].readAt \in 0..clock /\ entries[i].pub \in 0..MaxPub
  BY DEF TypeOK, Entry
<1>3. \A i \in Ids : entries[i].readAt \in Nat /\ entries[i].pub \in Nat
  BY <1>1, <1>2
<1>. QED  BY <1>3 DEF CursorKey

\* The order of a list is total, and the cursor comparison agrees with it.
LEMMA ListOrder ==
    ASSUME TypeOK, NEW list
    PROVE  /\ \A i \in Ids : ~Newer(list, i, i)
           /\ \A i, j, k \in Ids : Newer(list, i, j) /\ Newer(list, j, k) => Newer(list, i, k)
           /\ \A i, j \in Ids : i = j \/ Newer(list, i, j) \/ Newer(list, j, i)
           /\ \A i, j \in Ids : Older(list, i, At(list, j)) <=> Newer(list, j, i)
<1>1. \A i \in Ids : CursorKey(list, entries[i]) \in Nat /\ i \in Nat
  BY KeysAreNat, ReadingAssumption DEF Ids
<1>2. \A i \in Ids : At(list, i).key = CursorKey(list, entries[i]) /\ At(list, i).id = i
  BY DEF At
<1>. QED  BY <1>1, <1>2 DEF Newer, Older

\* A row after a cursor's place is after every earlier place too.
LEMMA OlderStill ==
    ASSUME TypeOK, NEW list, NEW c, c.key \in Nat, c.id \in Nat,
           NEW i \in Ids, NEW j \in Ids, Older(list, j, c), Older(list, i, At(list, j))
    PROVE  Older(list, i, c)
<1>1. CursorKey(list, entries[i]) \in Nat /\ CursorKey(list, entries[j]) \in Nat
  BY KeysAreNat
<1>2. i \in Nat /\ j \in Nat
  BY ReadingAssumption DEF Ids
<1>3. At(list, j).key = CursorKey(list, entries[j]) /\ At(list, j).id = j
  BY DEF At
<1>. QED  BY <1>1, <1>2, <1>3 DEF Older

\* A set of rows that is not empty has a newest and an oldest one.
LEMMA Extremes ==
    ASSUME TypeOK, NEW list, NEW S \in SUBSET Ids, S # {}
    PROVE  /\ \E i \in S : \A j \in S \ {i} : Newer(list, i, j)
           /\ \E i \in S : \A j \in S \ {i} : Newer(list, j, i)
<1>1. IsFiniteSet(S)
  <2>1. IsFiniteSet(Ids)
    BY FS_Interval, ReadingAssumption DEF Ids
  <2>. QED  BY <2>1, FS_Subset
<1>2. S \subseteq Ids
  OBVIOUS
<1>3. \E i \in S : \A j \in S \ {i} : Newer(list, i, j)
  <2> DEFINE R == {p \in S \X S : Newer(list, p[1], p[2])}
  <2>1. \A i, j \in S : <<i, j>> \in R <=> Newer(list, i, j)
    OBVIOUS
  <2>2. \A i \in S : <<i, i>> \notin R
    BY <1>2, <2>1, ListOrder
  <2>3. \A i, j, k \in S : <<i, j>> \in R /\ <<j, k>> \in R => <<i, k>> \in R
    <3> HIDE DEF R
    <3>. QED  BY <1>2, <2>1, ListOrder
  <2>4. \E i \in S : \A j \in S : <<j, i>> \notin R
    <3> HIDE DEF R
    <3>. QED  BY <1>1, <2>2, <2>3, FiniteMinimal
  <2>5. PICK i \in S : \A j \in S : ~Newer(list, j, i)
    <3> HIDE DEF R
    <3>. QED  BY <2>1, <2>4
  <2>. QED  BY <1>2, <2>5, ListOrder
<1>4. \E i \in S : \A j \in S \ {i} : Newer(list, j, i)
  <2> DEFINE R == {p \in S \X S : Newer(list, p[2], p[1])}
  <2>1. \A i, j \in S : <<i, j>> \in R <=> Newer(list, j, i)
    OBVIOUS
  <2>2. \A i \in S : <<i, i>> \notin R
    BY <1>2, <2>1, ListOrder
  <2>3. \A i, j, k \in S : <<i, j>> \in R /\ <<j, k>> \in R => <<i, k>> \in R
    <3> HIDE DEF R
    <3>. QED  BY <1>2, <2>1, ListOrder
  <2>4. \E i \in S : \A j \in S : <<j, i>> \notin R
    <3> HIDE DEF R
    <3>. QED  BY <1>1, <2>2, <2>3, FiniteMinimal
  <2>5. PICK i \in S : \A j \in S : ~Newer(list, i, j)
    <3> HIDE DEF R
    <3>. QED  BY <2>1, <2>4
  <2>. QED  BY <1>2, <2>5, ListOrder
<1>. QED  BY <1>3, <1>4

(***************************************************************************)
(* A page that is not the last one is not empty, its oldest row gives the  *)
(* next cursor, no row of it is after that cursor and every row left out   *)
(* is.                                                                     *)
(***************************************************************************)
LEMMA PageFacts ==
    ASSUME TypeOK, NEW list, NEW c, Rest(list, c) # Page(list, c)
    PROVE  \E last \in Page(list, c) :
             /\ NextCursor(list, c) = At(list, last)
             /\ \A i \in Page(list, c) : ~Older(list, i, At(list, last))
             /\ \A i \in Rest(list, c) \ Page(list, c) : Older(list, i, At(list, last))
<1> DEFINE A == Rest(list, c)
           P == Page(list, c)
           Before(i) == {j \in A : Newer(list, j, i)}
<1>1. A \subseteq Ids /\ P \subseteq A
  BY DEF Rest, Page
<1>2. IsFiniteSet(A)
  <2>1. IsFiniteSet(Ids)
    BY FS_Interval, ReadingAssumption DEF Ids
  <2>. QED  BY <1>1, <2>1, FS_Subset
<1>3. \A i \in A : i \in P <=> Cardinality(Before(i)) < PageSize
  BY DEF Page
<1>4. P # {}
  <2>1. A \in SUBSET Ids /\ A # {}
    BY <1>1
  <2>2. PICK i \in A : \A j \in A \ {i} : Newer(list, i, j)
    <3> HIDE DEF A
    <3>. QED  BY <2>1, Extremes
  <2>3. Before(i) = {}
    BY <1>1, <2>2, ListOrder
  <2>4. Cardinality(Before(i)) = 0
    BY <2>3, FS_EmptySet
  <2>. QED  BY <1>3, <2>4, ReadingAssumption
<1>5. \E i \in P : \A j \in P \ {i} : Newer(list, j, i)
  <2> HIDE DEF P
  <2>1. P \in SUBSET Ids
    BY <1>1
  <2>. QED  BY <1>4, <2>1, Extremes
<1> DEFINE last == CHOOSE i \in P : \A j \in P \ {i} : Newer(list, j, i)
<1>6. last \in P /\ \A j \in P \ {last} : Newer(list, j, last)
  <2> HIDE DEF P
  <2>. QED  BY <1>5
<1>7. NextCursor(list, c) = At(list, last)
  BY DEF NextCursor
<1> HIDE DEF last
<1>8. \A i \in P : ~Older(list, i, At(list, last))
  <2> SUFFICES ASSUME NEW i \in P PROVE ~Newer(list, last, i)
    BY <1>1, <1>6, ListOrder
  <2>1. i \in Ids /\ last \in Ids
    BY <1>1, <1>6
  <2>2. i = last \/ Newer(list, i, last)
    BY <1>6
  <2>. QED  BY <2>1, <2>2, ListOrder
<1>9. \A i \in A \ P : Older(list, i, At(list, last))
  <2> SUFFICES ASSUME NEW i \in A \ P, ~Newer(list, last, i) PROVE FALSE
    BY <1>1, <1>6, ListOrder
  <2>1. i \in Ids /\ last \in Ids /\ last \in A /\ i # last
    BY <1>1, <1>6
  <2>2. Newer(list, i, last)
    BY <2>1, ListOrder
  <2>3. Before(i) \subseteq Before(last)
    BY <1>1, <2>1, <2>2, ListOrder
  <2>4. IsFiniteSet(Before(last))
    BY <1>2, FS_Subset
  <2>5. /\ Cardinality(Before(i)) <= Cardinality(Before(last))
        /\ Cardinality(Before(i)) \in Nat /\ Cardinality(Before(last)) \in Nat
    <3>1. IsFiniteSet(Before(i))
      BY <1>2, FS_Subset
    <3> HIDE DEF Before
    <3>. QED  BY <2>3, <2>4, <3>1, FS_Subset, FS_CardinalityType
  <2>6. Cardinality(Before(last)) < PageSize
    BY <1>3, <1>6, <2>1
  <2>7. Cardinality(Before(i)) < PageSize
    BY <2>5, <2>6, ReadingAssumption
  <2>. QED  BY <1>3, <2>7
<1>. QED  BY <1>6, <1>7, <1>8, <1>9

-----------------------------------------------------------------------------
(* The tabs *)

\* A page and what follows it, in the items it shows.
LEMMA PageTyped ==
    ASSUME IInv, NEW list, NEW c
    PROVE  /\ NextCursor(list, c) \in [key : Nat, id : 0..MaxId]
           /\ Page(list, c) \subseteq Rest(list, c) /\ Rest(list, c) \subseteq Ids
           /\ \A i \in Rest(list, c) : entries[i].live
           /\ Who(Page(list, c)) \subseteq 1..MaxSerial
           /\ Who(Rest(list, c)) \subseteq 1..MaxSerial
<1>1. Page(list, c) \subseteq Rest(list, c) /\ Rest(list, c) \subseteq Ids
  BY DEF Page, Rest
<1>2. \A i \in Rest(list, c) : entries[i].live
  BY DEF Rest, Matches
<1>3. \A i \in Rest(list, c) : entries[i].who \in 1..MaxSerial
  <2>1. serial <= MaxSerial /\ serial \in Nat /\ MaxSerial \in Nat
    BY ReadingAssumption DEF IInv, TypeOK
  <2>2. \A i \in Rest(list, c) : entries[i].who \in 1..serial
    BY <1>1, <1>2 DEF IInv, Numbered
  <2>. QED  BY <2>1, <2>2
<1>4. NextCursor(list, c) \in [key : Nat, id : 0..MaxId]
  <2>1. CASE Rest(list, c) = Page(list, c)
    BY <2>1, ReadingAssumption DEF NextCursor, NoCursor
  <2>2. CASE Rest(list, c) # Page(list, c)
    <3>1. PICK last \in Page(list, c) : NextCursor(list, c) = At(list, last)
      BY <2>2, PageFacts DEF IInv
    <3>2. last \in Ids /\ CursorKey(list, entries[last]) \in Nat
      BY <1>1, KeysAreNat DEF IInv
    <3>3. last \in 0..MaxId
      BY <3>2, ReadingAssumption DEF Ids
    <3>. QED  BY <3>1, <3>2, <3>3 DEF At
  <2>. QED  BY <2>1, <2>2
<1>. QED  BY <1>1, <1>2, <1>3, <1>4 DEF Who

\* An item that a row shows is on no other row.
LEMMA WhoRow ==
    ASSUME IInv, NEW S \in SUBSET Ids, \A i \in S : entries[i].live,
           NEW i \in Ids, entries[i].live, entries[i].who \in Who(S)
    PROVE  i \in S
<1>1. PICK j \in S : entries[j].who = entries[i].who
  BY DEF Who
<1>. QED  BY <1>1 DEF IInv, Numbered

\* The walk w, whose rows shown and fixed lie before its cursor and whose rows
\* due after it, after one more page from that cursor.
LEMMA PageKeeps ==
    ASSUME IInv, NEW list, NEW c, NEW fixed, NEW due, NEW w,
           c = NoCursor \/ (c.key \in Nat /\ c.id \in Nat),
           c = NoCursor => fixed = {},
           c # NoCursor => \A i \in Ids : entries[i].live /\ entries[i].who \in fixed
                                             => ~Older(list, i, c),
           \A x \in due : \E i \in Rest(list, c) : entries[i].who = x,
           w.list = list, w.cursor = NextCursor(list, c)
    PROVE  /\ \A i \in Ids :
                /\ w.cursor # NoCursor
                /\ entries[i].live /\ entries[i].who \in fixed \cup Who(Page(list, c))
                => ~Older(list, i, w.cursor)
           /\ \A x \in due :
                \/ x \in Who(Page(list, c))
                \/ w.cursor # NoCursor /\ \E i \in Ids : Due(w, x, i)
<1> DEFINE A == Rest(list, c)
           P == Page(list, c)
<1>1. P \subseteq A /\ A \subseteq Ids /\ \A i \in A : entries[i].live
  BY PageTyped
<1>2. CASE A = P
  <2>1. w.cursor = NoCursor
    BY <1>2 DEF NextCursor
  <2>. QED  BY <1>2, <2>1 DEF Who
<1>3. CASE A # P
  <2>1. PICK last \in P :
          /\ w.cursor = At(list, last)
          /\ \A i \in P : ~Older(list, i, At(list, last))
          /\ \A i \in A \ P : Older(list, i, At(list, last))
    BY <1>3, PageFacts DEF IInv
  <2>2. At(list, last).id = last /\ last # 0
    BY <1>1 DEF At, Ids
  <2>3. w.cursor # NoCursor
    BY <2>1, <2>2 DEF NoCursor
  <2>4. ASSUME NEW i \in Ids, entries[i].live, entries[i].who \in fixed \cup Who(P)
        PROVE  ~Older(list, i, w.cursor)
    <3>1. CASE entries[i].who \in Who(P)
      <4>1. i \in P
        BY <1>1, <2>4, <3>1, WhoRow
      <4>. QED  BY <2>1, <4>1
    <3>2. CASE entries[i].who \in fixed
      <4>1. c # NoCursor /\ ~Older(list, i, c)
        BY <2>4, <3>2
      <4>2. Older(list, last, c) /\ last \in Ids
        BY <1>1, <4>1 DEF Rest
      <4>. QED  BY <2>1, <4>1, <4>2, OlderStill DEF IInv
    <3>. QED  BY <2>4, <3>1, <3>2
  <2>5. ASSUME NEW x \in due, x \notin Who(P)
        PROVE  \E i \in Ids : Due(w, x, i)
    <3>1. PICK i \in A : entries[i].who = x
      OBVIOUS
    <3>2. i \notin P
      BY <2>5, <3>1 DEF Who
    <3>3. Older(list, i, w.cursor)
      BY <2>1, <3>1, <3>2
    <3>4. Matches(list, entries[i], catOf)
      BY DEF Rest
    <3>. QED  BY <1>1, <3>1, <3>3, <3>4 DEF Due
  <2>. QED  BY <2>3, <2>4, <2>5
<1>. QED  BY <1>2, <1>3

\* One tab moves on and nothing else changes.
LEMMA TabStep ==
    ASSUME IInv, NEW t \in Walkers, NEW w \in Walk,
           walks' = [walks EXCEPT ![t] = w],
           UNCHANGED <<entries, serial, cats, catOf, reqs, clock, ops>>,
           w.on => \A i \in Ids :
                     /\ w.cursor # NoCursor
                     /\ entries[i].live /\ entries[i].who \in w.fixed
                     => ~Older(w.list, i, w.cursor),
           w.on => \A x \in w.must :
                     \/ x \in w.shown
                     \/ w.cursor # NoCursor /\ \E i \in Ids : Due(w, x, i)
    PROVE  IInv'
<1>1. walks' \in [Walkers -> Walk] /\ \A u \in Walkers : walks'[u] = IF u = t THEN w ELSE walks[u]
  BY DEF IInv, TypeOK
<1>2. TypeOK'
  BY <1>1 DEF IInv, TypeOK, Entry
<1>3. Numbered' /\ ReqsFit' /\ CategoryExists'
  BY DEF IInv, Numbered, ReqsFit, CategoryExists
<1>4. Behind'
  BY <1>1 DEF IInv, Behind, Older
<1>5. Ahead'
  BY <1>1 DEF IInv, Ahead, Due, Older
<1>. QED  BY <1>2, <1>3, <1>4, <1>5 DEF IInv

LEMMA FirstPageKeeps ==
    ASSUME IInv, NEW t \in Walkers, NEW list \in Filters, FirstPage(t, list)
    PROVE  IInv'
<1> DEFINE w == [on |-> TRUE, list |-> list, cursor |-> NextCursor(list, NoCursor),
                 shown |-> Who(Page(list, NoCursor)), fixed |-> Who(Page(list, NoCursor)),
                 must |-> Who(Rest(list, NoCursor))]
<1>1. w \in Walk
  BY PageTyped DEF Walk
<1>2. /\ w.list = list /\ w.cursor = NextCursor(list, NoCursor)
      /\ w.shown = Who(Page(list, NoCursor)) /\ w.fixed = Who(Page(list, NoCursor))
      /\ w.must = Who(Rest(list, NoCursor))
  OBVIOUS
<1>3. walks' = [walks EXCEPT ![t] = w]
  BY DEF FirstPage
<1> HIDE DEF w
<1>4. \A x \in w.must : \E i \in Rest(list, NoCursor) : entries[i].who = x
  BY <1>2 DEF Who
<1> DEFINE none == {}
<1>5. /\ \A i \in Ids :
           /\ w.cursor # NoCursor
           /\ entries[i].live /\ entries[i].who \in none \cup Who(Page(list, NoCursor))
           => ~Older(list, i, w.cursor)
      /\ \A x \in w.must :
           \/ x \in Who(Page(list, NoCursor))
           \/ w.cursor # NoCursor /\ \E i \in Ids : Due(w, x, i)
  <2>1. none = {}
    OBVIOUS
  <2> DEFINE c == NoCursor
             due == w.must
  <2>2. c = NoCursor
    OBVIOUS
  <2>3. w.list = list /\ w.cursor = NextCursor(list, c)
    BY <1>2
  <2>4. \A x \in due : \E i \in Rest(list, c) : entries[i].who = x
    BY <1>4
  <2> HIDE DEF none, c, due
  <2>5. /\ \A i \in Ids :
             /\ w.cursor # NoCursor
             /\ entries[i].live /\ entries[i].who \in none \cup Who(Page(list, c))
             => ~Older(list, i, w.cursor)
        /\ \A x \in due :
             \/ x \in Who(Page(list, c))
             \/ w.cursor # NoCursor /\ \E i \in Ids : Due(w, x, i)
    BY <2>1, <2>2, <2>3, <2>4, PageKeeps
  <2>. QED  BY <2>2, <2>5 DEF due
<1>6. \A i \in Ids :
         /\ w.cursor # NoCursor
         /\ entries[i].live /\ entries[i].who \in w.fixed
         => ~Older(w.list, i, w.cursor)
  BY <1>2, <1>5
<1>7. \A x \in w.must :
         \/ x \in w.shown
         \/ w.cursor # NoCursor /\ \E i \in Ids : Due(w, x, i)
  BY <1>2, <1>5
<1>. QED  BY <1>1, <1>3, <1>6, <1>7, TabStep DEF FirstPage

LEMMA NextPageKeeps ==
    ASSUME IInv, NEW t \in Walkers, NextPage(t)
    PROVE  IInv'
<1> DEFINE v == walks[t]
           list == v.list
           c == v.cursor
           w == [v EXCEPT !.cursor = NextCursor(list, c),
                          !.shown = @ \cup Who(Page(list, c)),
                          !.fixed = @ \cup Who(Page(list, c))]
           due == v.must \ v.shown
<1>1. v \in Walk /\ v.on /\ c # NoCursor /\ c.key \in Nat /\ c.id \in 0..MaxId
  BY DEF NextPage, IInv, TypeOK, Walk
<1>2. w \in Walk
  <2>1. /\ NextCursor(list, c) \in [key : Nat, id : 0..MaxId]
        /\ Who(Page(list, c)) \subseteq 1..MaxSerial
    BY PageTyped
  <2> HIDE DEF list, c
  <2>. QED  BY <1>1, <2>1 DEF Walk
<1>3. /\ w.list = list /\ w.cursor = NextCursor(list, c)
      /\ w.shown = v.shown \cup Who(Page(list, c))
      /\ w.fixed = v.fixed \cup Who(Page(list, c))
      /\ w.must = v.must
  BY <1>1 DEF Walk
<1>4. walks' = [walks EXCEPT ![t] = w]
  BY DEF NextPage
<1> HIDE DEF w
<1>5. \A i \in Ids : entries[i].live /\ entries[i].who \in v.fixed => ~Older(list, i, c)
  BY <1>1 DEF IInv, Behind
<1>6. ASSUME NEW x \in due PROVE \E i \in Rest(list, c) : entries[i].who = x
  <2>1. PICK i \in Ids : Due(v, x, i)
    BY <1>1 DEF IInv, Ahead
  <2>2. i \in Rest(list, c)
    BY <2>1 DEF Due, Rest
  <2>. QED  BY <2>1, <2>2 DEF Due
<1>7. c.id \in Nat
  BY <1>1, ReadingAssumption
<1>8. /\ \A i \in Ids :
           /\ w.cursor # NoCursor
           /\ entries[i].live /\ entries[i].who \in v.fixed \cup Who(Page(list, c))
           => ~Older(list, i, w.cursor)
      /\ \A x \in due :
           \/ x \in Who(Page(list, c))
           \/ w.cursor # NoCursor /\ \E i \in Ids : Due(w, x, i)
  <2> HIDE DEF list, c, due, v
  <2>. QED  BY <1>1, <1>3, <1>5, <1>6, <1>7, PageKeeps
<1>9. \A x \in w.must :
        \/ x \in w.shown
        \/ w.cursor # NoCursor /\ \E i \in Ids : Due(w, x, i)
  BY <1>3, <1>8
<1>. QED  BY <1>2, <1>3, <1>4, <1>8, <1>9, TabStep DEF NextPage

LEMMA LeaveListKeeps ==
    ASSUME IInv, NEW t \in Walkers, LeaveList(t)
    PROVE  IInv'
<1>1. NoWalk \in Walk /\ ~NoWalk.on
  BY Blank, ReadingAssumption DEF IInv, TypeOK
<1>. QED  BY <1>1, TabStep DEF LeaveList

-----------------------------------------------------------------------------
(* Writes *)

\* The rows after a write that keeps ids and items together.
LEMMA StillNumbered ==
    ASSUME IInv, UNCHANGED serial,
           \A i \in Ids : entries'[i].live => entries[i].live /\ entries'[i].who = entries[i].who
    PROVE  Numbered'
  BY DEF IInv, Numbered

\* However a write changes the tables, what the tabs have shown stays behind
\* their cursors, and what they owe stays ahead.
LEMMA WriteKeeps ==
    ASSUME IInv, NEW es, NEW cat, Write(es, cat), Numbered',
           UNCHANGED clock, es \in [Ids -> Entry]
    PROVE  entries' \in [Ids -> Entry'] /\ walks' \in [Walkers -> Walk] /\ Behind' /\ Ahead'
<1>1. entries' = es /\ catOf' = cat
  BY DEF Write
<1>2. entries' \in [Ids -> Entry']
  BY <1>1 DEF Entry
<1>3. ASSUME NEW t \in Walkers
      PROVE  /\ walks'[t] \in Walk
             /\ walks'[t].on = walks[t].on /\ walks'[t].list = walks[t].list
             /\ walks'[t].cursor = walks[t].cursor /\ walks'[t].shown = walks[t].shown
             /\ walks'[t].fixed = {x \in walks[t].fixed : Stays(walks[t].list, x)}
             /\ walks'[t].must = {x \in walks[t].must :
                                    /\ Stays(walks[t].list, x)
                                    /\ \E i \in Ids : /\ es[i].who = x
                                                      /\ Matches(walks[t].list, es[i], cat)}
  <2> DEFINE w == walks[t]
             F == {x \in w.fixed : Stays(w.list, x)}
             M == {x \in w.must : /\ Stays(w.list, x)
                                  /\ \E i \in Ids : /\ es[i].who = x
                                                    /\ Matches(w.list, es[i], cat)}
  <2>1. w \in Walk
    BY DEF IInv, TypeOK
  <2>2. F \subseteq w.fixed /\ M \subseteq w.must
    OBVIOUS
  <2>3. walks'[t] = [w EXCEPT !.fixed = F, !.must = M]
    BY <2>1 DEF Write, Walk
  <2> HIDE DEF F, M, w
  <2>4. /\ [w EXCEPT !.fixed = F, !.must = M] \in Walk
        /\ walks'[t].on = w.on /\ walks'[t].list = w.list
        /\ walks'[t].cursor = w.cursor /\ walks'[t].shown = w.shown
        /\ walks'[t].fixed = F /\ walks'[t].must = M
    BY <2>1, <2>2, <2>3 DEF Walk
  <2>. QED  BY <2>3, <2>4 DEF F, M, w
<1>4. walks' \in [Walkers -> Walk]
  <2>1. walks' = [t \in Walkers |-> walks'[t]]
    BY DEF Write
  <2>. QED  BY <1>3, <2>1
<1>5. ASSUME NEW t \in Walkers, NEW i \in Ids, walks'[t].on, walks'[t].cursor # NoCursor,
             entries'[i].live, entries'[i].who \in walks'[t].fixed
      PROVE  ~Older(walks[t].list, i, walks[t].cursor)'
  <2> DEFINE x == entries'[i].who
  <2>1. x \in walks[t].fixed /\ Stays(walks[t].list, x)
    BY <1>3, <1>5
  <2>2. PICK j \in Ids :
          /\ entries[j].live /\ entries[j].who = x
          /\ entries'[j].live /\ entries'[j].who = x
          /\ CursorKey(walks[t].list, entries'[j]) = CursorKey(walks[t].list, entries[j])
    BY <2>1 DEF Stays
  <2>3. j = i
    BY <1>5, <2>2 DEF Numbered
  <2>4. ~Older(walks[t].list, i, walks[t].cursor)
    BY <1>3, <1>5, <2>1, <2>2, <2>3 DEF IInv, Behind
  <2>. QED  BY <1>3, <2>2, <2>3, <2>4 DEF Older
<1>6. ASSUME NEW t \in Walkers, NEW x \in walks'[t].must, walks'[t].on, x \notin walks'[t].shown
      PROVE  walks'[t].cursor # NoCursor /\ \E i \in Ids : Due(walks[t], x, i)'
  <2>1. x \in walks[t].must /\ Stays(walks[t].list, x)
    BY <1>3
  <2>2. PICK j \in Ids :
          /\ entries[j].live /\ entries[j].who = x
          /\ entries'[j].live /\ entries'[j].who = x
          /\ CursorKey(walks[t].list, entries'[j]) = CursorKey(walks[t].list, entries[j])
    BY <2>1 DEF Stays
  <2>3. PICK k \in Ids : entries'[k].who = x /\ Matches(walks[t].list, entries'[k], catOf')
    BY <1>1, <1>3
  <2>4. k = j
    BY <2>2, <2>3 DEF Numbered, Matches
  <2>5. walks[t].cursor # NoCursor /\ \E i \in Ids : Due(walks[t], x, i)
    BY <1>3, <1>6, <2>1 DEF IInv, Ahead
  <2>6. PICK i \in Ids : Due(walks[t], x, i)
    BY <2>5
  <2>7. i = j
    BY <2>2, <2>6 DEF Due, IInv, Numbered
  <2>8. Due(walks[t], x, j)'
    BY <1>3, <2>2, <2>3, <2>4, <2>6, <2>7 DEF Due, Older
  <2>. QED  BY <1>3, <2>5, <2>8
<1>. QED  BY <1>2, <1>4, <1>5, <1>6 DEF Behind, Ahead

\* A write by a reader's operation, which leaves the clock and the count of
\* items alone and keeps every row's item.
LEMMA WriteStep ==
    ASSUME IInv, NEW es \in [Ids -> Entry], NEW cat \in [Feeds -> Cats \cup {"none"}],
           Write(es, cat), UNCHANGED <<serial, clock>>,
           \A i \in Ids : es[i].live => entries[i].live /\ es[i].who = entries[i].who,
           cats' \subseteq Cats, \A f \in Feeds : cat[f] \in cats' \cup {"none"},
           reqs' \in [Requests -> Request], ReqsFit', ops' \in 0..MaxOps
    PROVE  IInv'
<1>1. entries' = es /\ catOf' = cat
  BY DEF Write
<1>2. Numbered'
  BY <1>1, StillNumbered
<1>3. entries' \in [Ids -> Entry'] /\ walks' \in [Walkers -> Walk] /\ Behind' /\ Ahead'
  BY <1>2, WriteKeeps
<1>4. CategoryExists'
  BY <1>1 DEF CategoryExists
<1>5. TypeOK'
  BY <1>1, <1>3 DEF IInv, TypeOK
<1>. QED  BY <1>2, <1>3, <1>4, <1>5 DEF IInv

LEMMA MarkedFits ==
    ASSUME TypeOK, NEW e \in Entry, NEW read \in BOOLEAN
    PROVE  Marked(e, read) \in Entry /\ Marked(e, read).live = e.live /\ Marked(e, read).who = e.who
<1>1. Stamp \in 0..clock /\ 0 \in 0..clock
  BY DEF Stamp, TypeOK
<1>. QED  BY <1>1 DEF Marked, Entry

LEMMA AskedFits == TypeOK /\ Asked => ops' \in 0..MaxOps
  BY ReadingAssumption DEF TypeOK, Asked

LEMMA RowsTyped ==
    ASSUME IInv
    PROVE  /\ entries \in [Ids -> Entry] /\ \A i \in Ids : entries[i] \in Entry
           /\ catOf \in [Feeds -> Cats \cup {"none"}]
           /\ cats \subseteq Cats /\ \A f \in Feeds : catOf[f] \in cats \cup {"none"}
           /\ reqs \in [Requests -> Request] /\ ReqsFit
           /\ clock \in Nat /\ ops \in 0..MaxOps
  BY ReadingAssumption DEF IInv, TypeOK, CategoryExists

\* Requests that change no table: only their own slot.
LEMMA RequestStep ==
    ASSUME IInv, reqs' \in [Requests -> Request], ReqsFit', ops' \in 0..MaxOps,
           UNCHANGED <<entries, serial, cats, catOf, walks, clock>>
    PROVE  IInv'
<1>1. TypeOK'
  BY DEF IInv, TypeOK, Entry
<1>2. Numbered' /\ CategoryExists'
  BY DEF IInv, Numbered, CategoryExists
<1>3. Behind' /\ Ahead'
  BY DEF IInv, Behind, Ahead, Due, Older
<1>. QED  BY <1>1, <1>2, <1>3 DEF IInv

LEMMA InsertKeeps ==
    ASSUME IInv, NEW f \in Feeds, NEW p \in 0..MaxPub, Insert(f, p)
    PROVE  IInv'
<1> DEFINE e == [NoEntry EXCEPT !.live = TRUE, !.who = serial + 1, !.feed = f, !.pub = p]
           es == [entries EXCEPT ![NextId] = e]
<1>1. serial' = serial + 1 /\ serial + 1 \in 1..MaxSerial /\ serial \in Nat /\ NextId \in Ids
  BY ReadingAssumption DEF Insert, IInv, TypeOK
<1>2. e \in Entry /\ e.who = serial + 1
  <2>1. NoEntry \in Entry
    BY RowsTyped, Blank
  <2>2. serial + 1 \in 0..MaxSerial
    BY <1>1
  <2>. QED  BY <2>1, <2>2 DEF Entry
<1>3. es \in [Ids -> Entry]
  <2> HIDE DEF e
  <2>. QED  BY <1>2, RowsTyped
<1>4. Write(es, catOf)
  BY DEF Insert
<1>5. entries' = es /\ catOf' = catOf
  BY <1>4 DEF Write
<1>6. \A i \in Ids : entries'[i] = IF i = NextId THEN e ELSE entries[i]
  <2> HIDE DEF e
  <2>. QED  BY <1>1, <1>5, RowsTyped
<1>7. Numbered'
  <2> HIDE DEF e, es
  <2>1. \A i \in Ids : entries[i].live => entries[i].who \in 1..serial
    BY DEF IInv, Numbered
  <2>2. \A i \in Ids : entries[i].live => entries[i].who # serial + 1 /\ entries[i].who \in 1..serial + 1
    BY <1>1, <2>1
  <2>3. serial + 1 \in 1..serial + 1
    BY <1>1
  <2>. QED  BY <1>1, <1>2, <1>6, <2>2, <2>3 DEF IInv, Numbered
<1>8. entries' \in [Ids -> Entry'] /\ walks' \in [Walkers -> Walk] /\ Behind' /\ Ahead'
  <2> HIDE DEF es
  <2>. QED  BY <1>3, <1>4, <1>7, WriteKeeps DEF Insert
<1>9. TypeOK' /\ ReqsFit' /\ CategoryExists'
  BY <1>1, <1>5, <1>8 DEF Insert, IInv, TypeOK, ReqsFit, CategoryExists
<1>. QED  BY <1>7, <1>8, <1>9 DEF IInv

LEMMA RepublishKeeps ==
    ASSUME IInv, NEW i \in Ids, NEW p \in 0..MaxPub, Republish(i, p)
    PROVE  IInv'
<1> DEFINE es == [entries EXCEPT ![i].pub = p]
<1>1. es \in [Ids -> Entry]
  BY RowsTyped DEF Entry
<1>2. \A j \in Ids : es[j].live => entries[j].live /\ es[j].who = entries[j].who
  BY RowsTyped DEF Entry
<1>3. Write(es, catOf) /\ UNCHANGED <<serial, cats, reqs, clock>> /\ Asked
  BY DEF Republish
<1> HIDE DEF es
<1>4. ReqsFit' /\ reqs' \in [Requests -> Request]
  BY <1>3, RowsTyped DEF ReqsFit
<1>5. ops' \in 0..MaxOps
  BY <1>3, AskedFits DEF IInv
<1>. QED  BY <1>1, <1>2, <1>3, <1>4, <1>5, RowsTyped, WriteStep

LEMMA MarkUnreadKeeps ==
    ASSUME IInv, NEW i \in Ids, MarkUnread(i)
    PROVE  IInv'
<1> DEFINE m == Marked(entries[i], FALSE)
           es == [entries EXCEPT ![i] = m]
<1>1. m \in Entry /\ m.live = entries[i].live /\ m.who = entries[i].who
  BY RowsTyped, MarkedFits DEF IInv
<1>2. Write(es, catOf) /\ UNCHANGED <<serial, cats, reqs, clock>> /\ Asked
  BY RowsTyped DEF MarkUnread
<1> HIDE DEF m
<1>3. es \in [Ids -> Entry]
  BY <1>1, RowsTyped
<1>4. \A j \in Ids : es[j].live => entries[j].live /\ es[j].who = entries[j].who
  BY <1>1, RowsTyped
<1> HIDE DEF es
<1>5. ReqsFit' /\ reqs' \in [Requests -> Request]
  BY <1>2, RowsTyped DEF ReqsFit
<1>6. ops' \in 0..MaxOps
  BY <1>2, AskedFits DEF IInv
<1>. QED  BY <1>2, <1>3, <1>4, <1>5, <1>6, RowsTyped, WriteStep

LEMMA MarkFeedReadKeeps ==
    ASSUME IInv, NEW f \in Feeds, MarkFeedRead(f)
    PROVE  IInv'
<1> DEFINE es == [i \in Ids |->
                IF entries[i].live /\ entries[i].feed = f /\ entries[i].status = "unread"
                THEN Marked(entries[i], TRUE) ELSE entries[i]]
<1>1. \A i \in Ids : LET m == Marked(entries[i], TRUE) IN
         m \in Entry /\ m.live = entries[i].live /\ m.who = entries[i].who
  BY RowsTyped, MarkedFits DEF IInv
<1>2. Write(es, catOf) /\ UNCHANGED <<serial, cats, reqs, clock>> /\ Asked
  BY DEF MarkFeedRead
<1>3. es \in [Ids -> Entry]
  BY <1>1, RowsTyped
<1>4. \A j \in Ids : es[j].live => entries[j].live /\ es[j].who = entries[j].who
  BY <1>1, RowsTyped
<1> HIDE DEF es
<1>5. ReqsFit' /\ reqs' \in [Requests -> Request]
  BY <1>2, RowsTyped DEF ReqsFit
<1>6. ops' \in 0..MaxOps
  BY <1>2, AskedFits DEF IInv
<1>. QED  BY <1>2, <1>3, <1>4, <1>5, <1>6, RowsTyped, WriteStep

LEMMA DeleteKeeps ==
    ASSUME IInv, NEW i \in Ids, Delete(i)
    PROVE  IInv'
<1> DEFINE es == [entries EXCEPT ![i] = NoEntry]
<1>1. NoEntry \in Entry /\ ~NoEntry.live
  BY RowsTyped, Blank
<1>2. Write(es, catOf) /\ UNCHANGED <<serial, cats, reqs, clock>> /\ Asked
  BY DEF Delete
<1>3. es \in [Ids -> Entry]
  BY <1>1, RowsTyped
<1>4. \A j \in Ids : es[j].live => entries[j].live /\ es[j].who = entries[j].who
  BY <1>1, RowsTyped
<1> HIDE DEF es
<1>5. ReqsFit' /\ reqs' \in [Requests -> Request]
  BY <1>2, RowsTyped DEF ReqsFit
<1>6. ops' \in 0..MaxOps
  BY <1>2, AskedFits DEF IInv
<1>. QED  BY <1>2, <1>3, <1>4, <1>5, <1>6, RowsTyped, WriteStep

-----------------------------------------------------------------------------
(* Requests in two store calls, and categories *)

LEMMA BeginKeeps ==
    ASSUME IInv, NEW r \in Requests, NEW i \in Ids, Begin(r, i)
    PROVE  IInv'
<1> DEFINE B == {[pc |-> "status", val |-> TRUE],
                 [pc |-> "status", val |-> entries[i].status # "read"],
                 [pc |-> "star", val |-> ~entries[i].starred]}
<1>1. PICK b \in B :
        reqs' = [reqs EXCEPT ![r] = [NoRequest EXCEPT !.pc = b.pc, !.id = i, !.val = b.val]]
  BY DEF Begin
<1>2. b.pc \in {"status", "star"} /\ b.val \in BOOLEAN
  <2>1. CASE b = [pc |-> "status", val |-> TRUE]
    BY <2>1
  <2>2. CASE b = [pc |-> "status", val |-> entries[i].status # "read"]
    BY <2>2
  <2>3. CASE b = [pc |-> "star", val |-> ~entries[i].starred]
    BY <2>3
  <2>. QED  BY <2>1, <2>2, <2>3
<1> DEFINE q == [NoRequest EXCEPT !.pc = b.pc, !.id = i, !.val = b.val]
<1>3. q \in Request /\ q.id = i
  <2>1. NoRequest \in Request
    BY RowsTyped, Blank
  <2>2. i \in 0..MaxId
    BY ReadingAssumption DEF Ids
  <2>. QED  BY <1>2, <2>1, <2>2 DEF Request
<1>4. reqs' = [reqs EXCEPT ![r] = q]
  BY <1>1
<1> HIDE DEF q
<1>5. reqs' \in [Requests -> Request] /\ ReqsFit'
  BY <1>3, <1>4, RowsTyped DEF ReqsFit
<1>6. ops' \in 0..MaxOps
  BY AskedFits DEF Begin, IInv
<1>. QED  BY <1>5, <1>6, RequestStep DEF Begin

LEMMA Answered ==
    ASSUME IInv, NEW r \in Requests, reqs' = [reqs EXCEPT ![r] = NoRequest]
    PROVE  reqs' \in [Requests -> Request] /\ ReqsFit'
  BY RowsTyped, Blank DEF ReqsFit

LEMMA SetFlagKeeps ==
    ASSUME IInv, NEW r \in Requests, SetFlag(r)
    PROVE  IInv'
<1> DEFINE q == reqs[r]
           m == IF q.pc = "status" THEN Marked(entries[q.id], q.val)
                                   ELSE [entries[q.id] EXCEPT !.starred = q.val]
           es == [entries EXCEPT ![q.id] = m]
<1>1. reqs' \in [Requests -> Request] /\ ReqsFit' /\ UNCHANGED <<serial, cats, clock, ops>>
  BY Answered DEF SetFlag
<1>2. q.id \in Ids /\ q.val \in BOOLEAN
  BY RowsTyped DEF SetFlag, ReqsFit, Request
<1>3. CASE UNCHANGED <<entries, catOf, walks>>
  BY <1>1, <1>3, RowsTyped, RequestStep
<1>4. CASE Write(es, catOf)
  <2>1. m \in Entry /\ m.live = entries[q.id].live /\ m.who = entries[q.id].who
    <3>1. entries[q.id] \in Entry
      BY <1>2, RowsTyped
    <3>2. CASE q.pc = "status"
      BY <1>2, <3>1, <3>2, MarkedFits DEF IInv
    <3>3. CASE q.pc # "status"
      BY <1>2, <3>1, <3>3 DEF Entry
    <3>. QED  BY <3>2, <3>3
  <2> HIDE DEF m, q
  <2>2. es \in [Ids -> Entry]
    BY <2>1, RowsTyped
  <2>3. \A j \in Ids : es[j].live => entries[j].live /\ es[j].who = entries[j].who
    BY <2>1, RowsTyped
  <2> HIDE DEF es
  <2>. QED  BY <1>1, <1>4, <2>2, <2>3, RowsTyped, WriteStep
<1>5. [entries EXCEPT ![q.id] = IF q.pc = "status" THEN Marked(@, q.val)
                                                   ELSE [@ EXCEPT !.starred = q.val]] = es
  BY <1>2, RowsTyped
<1>. QED  BY <1>3, <1>4, <1>5 DEF SetFlag

LEMMA CreateCategoryKeeps ==
    ASSUME IInv, NEW c \in Cats, CreateCategory(c)
    PROVE  IInv'
<1>1. TypeOK'
  BY AskedFits DEF CreateCategory, IInv, TypeOK, Entry
<1>2. Numbered' /\ ReqsFit' /\ CategoryExists'
  BY DEF CreateCategory, IInv, Numbered, ReqsFit, CategoryExists
<1>3. Behind' /\ Ahead'
  BY DEF CreateCategory, IInv, Behind, Ahead, Due, Older
<1>. QED  BY <1>1, <1>2, <1>3 DEF IInv

LEMMA DeleteCategoryKeeps ==
    ASSUME IInv, NEW c \in Cats, DeleteCategory(c)
    PROVE  IInv'
<1> DEFINE cat == Rehomed(c)
<1>1. cat \in [Feeds -> Cats \cup {"none"}] /\ \A f \in Feeds : cat[f] \in cats' \cup {"none"}
  BY RowsTyped DEF DeleteCategory, Rehomed
<1>2. Write(entries, cat) /\ UNCHANGED <<serial, reqs, clock>> /\ Asked /\ cats' \subseteq Cats
  BY RowsTyped DEF DeleteCategory
<1> HIDE DEF cat
<1>3. ReqsFit' /\ reqs' \in [Requests -> Request]
  BY <1>2, RowsTyped DEF ReqsFit
<1>4. ops' \in 0..MaxOps
  BY <1>2, AskedFits DEF IInv
<1>. QED  BY <1>1, <1>2, <1>3, <1>4, RowsTyped, WriteStep

LEMMA EditCategoryKeeps ==
    ASSUME IInv, NEW r \in Requests, NEW f \in Feeds, NEW c \in Cats \cup {"none"},
           EditCategory(r, f, c)
    PROVE  IInv'
<1> DEFINE q == [NoRequest EXCEPT !.pc = "category", !.feed = f, !.cat = c]
<1>1. q \in Request /\ q.pc = "category"
  <2>1. NoRequest \in Request
    BY RowsTyped, Blank
  <2>. QED  BY <2>1 DEF Request
<1>2. reqs' = [reqs EXCEPT ![r] = q]
  BY DEF EditCategory
<1> HIDE DEF q
<1>3. reqs' \in [Requests -> Request] /\ ReqsFit'
  BY <1>1, <1>2, RowsTyped DEF ReqsFit
<1>4. ops' \in 0..MaxOps
  BY AskedFits DEF EditCategory, IInv
<1>. QED  BY <1>3, <1>4, RequestStep DEF EditCategory

LEMMA SetFeedCategoryKeeps ==
    ASSUME IInv, NEW r \in Requests, SetFeedCategory(r)
    PROVE  IInv'
<1> DEFINE q == reqs[r]
           cat == [catOf EXCEPT ![q.feed] = q.cat]
<1>1. reqs' \in [Requests -> Request] /\ ReqsFit' /\ UNCHANGED <<serial, cats, clock, ops>>
  BY Answered DEF SetFeedCategory
<1>2. CASE UNCHANGED <<entries, catOf, walks>>
  BY <1>1, <1>2, RowsTyped, RequestStep
<1>3. CASE q.cat \in cats \cup {"none"} /\ Write(entries, cat)
  <2>1. q.feed \in Feeds
    BY RowsTyped DEF Request
  <2>2. cat \in [Feeds -> Cats \cup {"none"}] /\ \A f \in Feeds : cat[f] \in cats \cup {"none"}
    BY <1>3, <2>1, RowsTyped
  <2> HIDE DEF cat
  <2>. QED  BY <1>1, <1>3, <2>2, RowsTyped, WriteStep
<1>. QED  BY <1>2, <1>3 DEF SetFeedCategory

LEMMA TickKeeps ==
    ASSUME IInv, Tick
    PROVE  IInv'
<1>1. clock' \in 1..MaxClock
  BY ReadingAssumption DEF Tick, IInv, TypeOK
<1>2. entries' \in [Ids -> Entry']
  <2>1. \A i \in Ids : entries[i] \in Entry'
    <3>1. 0..clock \subseteq 0..clock'
      BY DEF Tick, IInv, TypeOK
    <3>. QED  BY <3>1, RowsTyped DEF Entry
  <2>. QED  BY <2>1, RowsTyped DEF Tick
<1>3. TypeOK'
  BY <1>1, <1>2 DEF Tick, IInv, TypeOK
<1>4. Numbered' /\ ReqsFit' /\ CategoryExists'
  BY DEF Tick, IInv, Numbered, ReqsFit, CategoryExists
<1>5. Behind' /\ Ahead'
  BY DEF Tick, IInv, Behind, Ahead, Due, Older
<1>. QED  BY <1>3, <1>4, <1>5 DEF IInv

-----------------------------------------------------------------------------
LEMMA InitFits == Init => IInv
<1> SUFFICES ASSUME Init PROVE IInv
  OBVIOUS
<1>1. clock \in Nat
  BY DEF Init
<1>2. TypeOK
  BY <1>1, Blank, ReadingAssumption DEF Init, TypeOK
<1>3. Numbered /\ ReqsFit /\ CategoryExists
  BY <1>1, Blank DEF Init, Numbered, ReqsFit, CategoryExists
<1>4. Behind /\ Ahead
  BY <1>1, Blank DEF Init, Behind, Ahead
<1>. QED  BY <1>2, <1>3, <1>4 DEF IInv

LEMMA NextKeeps == IInv /\ [Next]_vars => IInv'
<1> SUFFICES ASSUME IInv, [Next]_vars PROVE IInv'
  OBVIOUS
<1>1. CASE UNCHANGED vars
  <2>1. reqs' \in [Requests -> Request] /\ ReqsFit' /\ ops' \in 0..MaxOps
    BY <1>1, RowsTyped DEF vars, ReqsFit
  <2>. QED  BY <1>1, <2>1, RequestStep DEF vars
<1>2. CASE \/ \E t \in Walkers, list \in Filters : FirstPage(t, list)
           \/ \E t \in Walkers : NextPage(t) \/ LeaveList(t)
  BY <1>2, FirstPageKeeps, NextPageKeeps, LeaveListKeeps
<1>3. CASE \/ \E f \in Feeds, p \in 0..MaxPub : Insert(f, p)
           \/ \E i \in Ids, p \in 0..MaxPub : Republish(i, p)
  BY <1>3, InsertKeeps, RepublishKeeps
<1>4. CASE \/ \E r \in Requests, i \in Ids : Begin(r, i)
           \/ \E r \in Requests : SetFlag(r) \/ SetFeedCategory(r)
  BY <1>4, BeginKeeps, SetFlagKeeps, SetFeedCategoryKeeps
<1>5. CASE \/ \E i \in Ids : MarkUnread(i) \/ Delete(i)
           \/ \E f \in Feeds : MarkFeedRead(f)
  BY <1>5, MarkUnreadKeeps, DeleteKeeps, MarkFeedReadKeeps
<1>6. CASE \/ \E c \in Cats : CreateCategory(c) \/ DeleteCategory(c)
           \/ \E r \in Requests, f \in Feeds, c \in Cats \cup {"none"} : EditCategory(r, f, c)
  BY <1>6, CreateCategoryKeeps, DeleteCategoryKeeps, EditCategoryKeeps
<1>7. CASE Tick
  BY <1>7, TickKeeps
<1>. QED  BY <1>1, <1>2, <1>3, <1>4, <1>5, <1>6, <1>7 DEF Next

\* The inductive invariant holds in every reachable state.
THEOREM Invariance == Spec => []IInv
  BY InitFits, NextKeeps, PTL DEF Spec

\* Every variable keeps its type, and no row was read in the future.
THEOREM TypeCorrect == Spec => []TypeOK
<1>1. IInv => TypeOK
  BY DEF IInv
<1>. QED  BY Invariance, <1>1, PTL

\* Paging to the end of a list skips nothing that was there all along, for every
\* page size and whatever is inserted, moved, marked or deleted meanwhile.
THEOREM NothingSkipped == Spec => []PagesComplete
<1>1. IInv => PagesComplete
  BY DEF IInv, Ahead, PagesComplete
<1>. QED  BY Invariance, <1>1, PTL

\* "Load more" repeats nothing that was shown and has not moved.
THEOREM NothingRepeated == Spec => []PagesDisjoint
<1>1. ASSUME IInv, NEW t \in Walkers, walks[t].on, walks[t].cursor # NoCursor
      PROVE  Who(Page(walks[t].list, walks[t].cursor)) \cap walks[t].fixed = {}
  <2> DEFINE w == walks[t]
  <2> SUFFICES ASSUME NEW i \in Page(w.list, w.cursor), entries[i].who \in w.fixed PROVE FALSE
    BY DEF Who
  <2>1. i \in Ids /\ entries[i].live
    BY <1>1, PageTyped
  <2>2. Older(w.list, i, w.cursor)
    BY <1>1 DEF Page, Rest
  <2>. QED  BY <1>1, <2>1, <2>2 DEF IInv, Behind
<1>2. IInv => PagesDisjoint
  BY <1>1 DEF PagesDisjoint
<1>. QED  BY Invariance, <1>2, PTL

\* A feed's category exists, however the edit form's check and write and the
\* category's deletion interleave.
THEOREM CategoriesExist == Spec => []CategoryExists
<1>1. IInv => CategoryExists
  BY DEF IInv
<1>. QED  BY Invariance, <1>1, PTL
=============================================================================
