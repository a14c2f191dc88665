-------------------------- MODULE SqliteStoreProofs --------------------------
(***************************************************************************)
(* The database and its full-text index for every set of addresses, items  *)
(* and words, any number of rows, calls, crashes and callers, and every    *)
(* size of the back-fill's batches.                                        *)
(*                                                                         *)
(* Sound is what every statement of an open store keeps: types, references *)
(* between the tables, rows told apart by their numbers, and an index that *)
(* holds each row's text once the update trigger is there.  IInv adds what *)
(* start-up knows at each of its phases, whatever crash came before: how   *)
(* far the text columns are filled, and whether the index was rebuilt.     *)
(*                                                                         *)
(* The second half shows that the store is MemStore.  Distinct adds to     *)
(* Sound what lets rowids be renamed to MemStore's numbers: the numbers    *)
(* tell the rows of each table apart, a feed has one entry for an item,    *)
(* rowids of entries follow their numbers, and a queued extraction has a   *)
(* time.  MFeeds, MEntries, MCats and MTombs are the refinement mapping as *)
(* operators on a database; the lemmas ...Shown say what a statement does  *)
(* to them, the lemmas ...Refines that a call takes MemStore's step        *)
(* (Refinement), and the lemmas ...Implied that a query has MemStore's     *)
(* answer (Reads).                                                         *)
(***************************************************************************)
EXTENDS SqliteStore, FiniteOrders, SequenceTheorems

Rowids == {D \in SUBSET (Nat \ {0}) : IsFiniteSet(D)}
Tables(R) == UNION {[D -> R] : D \in Rowids}

FeedRow ==
    [mid : Nat, url : Urls, etag : BOOLEAN, next : Times, cat : Nat, full : BOOLEAN,
     name : BOOLEAN]

EntryRow ==
    [mid : Nat, feed : Nat, hash : Versions, content : Versions \cup {Article},
     ctext : SUBSET Words, stext : SUBSET Words, status : {"unread", "read"},
     starred : BOOLEAN, readAt : Times \cup {NoTime},
     ext : {"none", "pending", "done", "failed"}, attempts : 0..MaxAttempts,
     next : Times \cup {NoTime}, reason : BOOLEAN, created : Times]

CatRow == [mid : Nat, title : Titles]
DocRow == [title : SUBSET Words, content : SUBSET Words, summary : SUBSET Words]
GuidSet == {GuidOf[v] : v \in Versions}

Databases ==
    [feeds : Tables(FeedRow), feedSeq : Nat \ {0}, entries : Tables(EntryRow),
     tombstones : SUBSET (Nat \X GuidSet), categories : Tables(CatRow),
     fts : Tables(DocRow), corrupt : BOOLEAN, migrated : BOOLEAN, trigger : BOOLEAN,
     flag : BOOLEAN, serial : Nat \ {0}]

\* The foreign keys.
Refs(d) ==
    /\ \A f \in DOMAIN d.feeds :
           f < d.feedSeq /\ d.feeds[f].cat \in DOMAIN d.categories \cup {None}
    /\ \A i \in DOMAIN d.entries : d.entries[i].feed \in DOMAIN d.feeds
    /\ \A t \in d.tombstones : t[1] \in DOMAIN d.feeds

\* No two entries were given one number.
Numbered(d) ==
    /\ \A i \in DOMAIN d.entries : d.entries[i].mid < d.serial
    /\ \A i, j \in DOMAIN d.entries : d.entries[i].mid = d.entries[j].mid => i = j

Filled(e) == e.ctext = BodyText[e.content] /\ e.stext = SummaryText[e.hash]
AllFilled(d) == \A i \in DOMAIN d.entries : Filled(d.entries[i])
AllIndexed(d) ==
    /\ DOMAIN d.fts = DOMAIN d.entries
    /\ \A i \in DOMAIN d.entries : d.fts[i] = Doc(d.entries[i])

Index(d) ==
    /\ ~d.corrupt
    /\ d.trigger => AllIndexed(d)
    /\ d.flag => d.trigger /\ AllFilled(d)
    /\ ~d.migrated => DOMAIN d.fts = {} /\ ~d.trigger

Sound(d) == d \in Databases /\ Refs(d) /\ Numbered(d) /\ Index(d)

\* What the start-up changes and the statements do not.
SameSetup(d, e) == d.migrated = e.migrated /\ d.trigger = e.trigger /\ d.flag = e.flag

-----------------------------------------------------------------------------
(* Tables.                                                                 *)

LEMMA TableFacts ==
    ASSUME NEW R, NEW t \in Tables(R)
    PROVE  /\ DOMAIN t \in Rowids /\ IsFiniteSet(DOMAIN t) /\ DOMAIN t \subseteq Nat \ {0}
           /\ t = [i \in DOMAIN t |-> t[i]]
           /\ \A i \in DOMAIN t : t[i] \in R
<1>1. PICK D \in Rowids : t \in [D -> R]
  BY DEF Tables
<1>. QED  BY <1>1 DEF Rowids

LEMMA TableIntro ==
    ASSUME NEW R, NEW D \in Rowids, NEW t \in [D -> R]
    PROVE  t \in Tables(R)
  BY DEF Tables

LEMMA EmptyTable == \A R : <<>> \in Tables(R) /\ DOMAIN <<>> = {}
<1>1. {} \in Rowids
  BY FS_EmptySet DEF Rowids
<1>2. \A R : <<>> \in [{} -> R] /\ DOMAIN <<>> = {}
  OBVIOUS
<1>. QED  BY <1>1, <1>2, TableIntro

LEMMA PutFits ==
    ASSUME NEW R, NEW t \in Tables(R), NEW i \in Nat \ {0}, NEW row \in R
    PROVE  Put(t, i, row) \in Tables(R)
<1>1. DOMAIN t \in Rowids /\ \A j \in DOMAIN t : t[j] \in R
  BY TableFacts
<1>2. DOMAIN t \cup {i} \in Rowids
  BY <1>1, FS_AddElement DEF Rowids
<1>3. Put(t, i, row) \in [DOMAIN t \cup {i} -> R]
  BY <1>1 DEF Put
<1>. QED  BY <1>2, <1>3, TableIntro

LEMMA RestrictFits ==
    ASSUME NEW R, NEW t \in Tables(R), NEW S
    PROVE  Restrict(t, DOMAIN t \ S) \in Tables(R)
<1>1. DOMAIN t \in Rowids /\ \A j \in DOMAIN t : t[j] \in R
  BY TableFacts
<1>2. DOMAIN t \ S \in Rowids
  BY <1>1, FS_Subset DEF Rowids
<1>3. Restrict(t, DOMAIN t \ S) \in [DOMAIN t \ S -> R]
  BY <1>1 DEF Restrict
<1>. QED  BY <1>2, <1>3, TableIntro

LEMMA MaxFits ==
    ASSUME NEW S, S \subseteq Int, IsFiniteSet(S), S # {}
    PROVE  Max(S) \in S /\ \A x \in S : x <= Max(S)
<1>1. \E m \in S : \A x \in S : m >= x
  <2>1. PICK m \in S : \A x \in S : x <= m
    BY FiniteMax
  <2>. QED  BY <2>1
<1>2. Max(S) \in S /\ \A x \in S : Max(S) >= x
  BY <1>1 DEF Max
<1>. QED  BY <1>2

LEMMA NextRowidFits ==
    ASSUME NEW R, NEW t \in Tables(R)
    PROVE  NextRowid(t) \in Nat \ {0} /\ NextRowid(t) \notin DOMAIN t
<1>1. IsFiniteSet(DOMAIN t) /\ DOMAIN t \subseteq Nat \ {0}
  BY TableFacts
<1>2. CASE DOMAIN t = {}
  BY <1>2 DEF NextRowid
<1>3. CASE DOMAIN t # {}
  <2>1. Max(DOMAIN t) \in DOMAIN t /\ \A x \in DOMAIN t : x <= Max(DOMAIN t)
    BY <1>1, <1>3, MaxFits
  <2>. QED  BY <1>1, <1>3, <2>1 DEF NextRowid
<1>. QED  BY <1>2, <1>3

-----------------------------------------------------------------------------
(* The statements on entries.                                              *)

LEMMA DocFits ==
    ASSUME NEW e \in EntryRow
    PROVE  Doc(e) \in DocRow
  BY SqliteStoreAssumption DEF Doc, DocRow, EntryRow

LEMMA InsertFits ==
    ASSUME NEW d, Sound(d), d.migrated => d.trigger,
           NEW e \in EntryRow, e.feed \in DOMAIN d.feeds, e.mid = d.serial,
           d.flag => Filled(e)
    PROVE  /\ Sound(InsertRow(d, e)) /\ SameSetup(InsertRow(d, e), d)
           /\ InsertRow(d, e).feeds = d.feeds
<1> DEFINE i == NextRowid(d.entries)
           E == Put(d.entries, i, e)
           F == IF d.migrated THEN Put(d.fts, i, Doc(e)) ELSE d.fts
           C == d.corrupt \/ i \in DOMAIN d.fts
           x == InsertRow(d, e)
<1>1. d \in Databases /\ Refs(d) /\ Numbered(d) /\ Index(d)
  BY DEF Sound
<1>2. /\ d.entries \in Tables(EntryRow) /\ d.fts \in Tables(DocRow)
      /\ d.serial \in Nat \ {0} /\ d.corrupt \in BOOLEAN /\ d.migrated \in BOOLEAN
      /\ d.trigger \in BOOLEAN
  BY <1>1 DEF Databases
<1>3. i \in Nat \ {0} /\ i \notin DOMAIN d.entries
  BY <1>2, NextRowidFits
<1>4. /\ E \in Tables(EntryRow) /\ DOMAIN E = DOMAIN d.entries \cup {i} /\ E[i] = e
      /\ \A j \in DOMAIN d.entries : j # i => E[j] = d.entries[j]
  <2>1. E \in Tables(EntryRow)
    BY <1>2, <1>3, PutFits
  <2>2. /\ DOMAIN E = DOMAIN d.entries \cup {i} /\ E[i] = e
        /\ \A j \in DOMAIN d.entries : j # i => E[j] = d.entries[j]
    BY DEF Put
  <2>. QED  BY <2>1, <2>2
<1>5. Doc(e) \in DocRow
  BY DocFits
<1>6. /\ Put(d.fts, i, Doc(e)) \in Tables(DocRow)
      /\ DOMAIN Put(d.fts, i, Doc(e)) = DOMAIN d.fts \cup {i}
      /\ Put(d.fts, i, Doc(e))[i] = Doc(e)
      /\ \A j \in DOMAIN d.fts : j # i => Put(d.fts, i, Doc(e))[j] = d.fts[j]
  <2>1. Put(d.fts, i, Doc(e)) \in Tables(DocRow)
    BY <1>2, <1>3, <1>5, PutFits
  <2>2. /\ DOMAIN Put(d.fts, i, Doc(e)) = DOMAIN d.fts \cup {i}
        /\ Put(d.fts, i, Doc(e))[i] = Doc(e)
        /\ \A j \in DOMAIN d.fts : j # i => Put(d.fts, i, Doc(e))[j] = d.fts[j]
    BY DEF Put
  <2>. QED  BY <2>1, <2>2
<1>7. i \notin DOMAIN d.fts
  BY <1>1, <1>2, <1>3 DEF Index, AllIndexed
<1>8. x = [d EXCEPT !.entries = E, !.serial = d.serial + 1, !.fts = F, !.corrupt = C]
  BY DEF InsertRow
<1>9. F \in Tables(DocRow) /\ C \in BOOLEAN /\ ~C
  BY <1>1, <1>2, <1>6, <1>7 DEF Index
<1> HIDE DEF E, F, C, x, i
<1>10. /\ x \in Databases
       /\ x.entries = E /\ x.fts = F /\ x.serial = d.serial + 1 /\ x.corrupt = C
       /\ x.feeds = d.feeds /\ x.feedSeq = d.feedSeq /\ x.categories = d.categories
       /\ x.tombstones = d.tombstones /\ SameSetup(x, d)
  <2>1. d.serial + 1 \in Nat \ {0}
    BY <1>2
  <2>. QED  BY <1>1, <1>4, <1>8, <1>9, <2>1 DEF Databases, SameSetup
<1>11. Refs(x)
  BY <1>1, <1>4, <1>10 DEF Refs
<1>12. Numbered(x)
  <2>1. \A j \in DOMAIN d.entries : d.entries[j].mid \in Nat
    <3>1. \A j \in DOMAIN d.entries : d.entries[j] \in EntryRow
      BY <1>2, TableFacts
    <3>. QED  BY <3>1 DEF EntryRow
  <2>. QED  BY <1>1, <1>2, <1>4, <1>10, <2>1 DEF Numbered
<1>13. Index(x)
  <2>1. x.trigger => AllIndexed(x)
    <3> SUFFICES ASSUME d.trigger PROVE AllIndexed(x)
      BY <1>10 DEF SameSetup
    <3>1. d.migrated /\ AllIndexed(d)
      BY <1>1, <1>2 DEF Index
    <3>2. F = Put(d.fts, i, Doc(e))
      BY <3>1 DEF F
    <3>. QED  BY <1>3, <1>4, <1>6, <1>10, <3>1, <3>2 DEF AllIndexed
  <2>2. x.flag => x.trigger /\ AllFilled(x)
    BY <1>1, <1>4, <1>10 DEF Index, AllFilled, SameSetup
  <2>3. ~x.migrated => DOMAIN x.fts = {} /\ ~x.trigger
    BY <1>1, <1>10 DEF Index, SameSetup, F
  <2>. QED  BY <1>9, <1>10, <2>1, <2>2, <2>3 DEF Index
<1>. QED  BY <1>10, <1>11, <1>12, <1>13 DEF Sound, x

LEMMA DeleteFits ==
    ASSUME NEW d, Sound(d), d.trigger, d.migrated, NEW S \in SUBSET DOMAIN d.entries
    PROVE  /\ Sound(DeleteRows(d, S)) /\ SameSetup(DeleteRows(d, S), d)
<1> DEFINE E == Restrict(d.entries, DOMAIN d.entries \ S)
           F == Restrict(d.fts, DOMAIN d.fts \ S)
           C == d.corrupt \/ \E i \in S : ~Indexed(d, i)
           x == DeleteRows(d, S)
<1>1. d \in Databases /\ Refs(d) /\ Numbered(d) /\ Index(d)
  BY DEF Sound
<1>2. d.entries \in Tables(EntryRow) /\ d.fts \in Tables(DocRow)
  BY <1>1 DEF Databases
<1>3. /\ E \in Tables(EntryRow) /\ DOMAIN E = DOMAIN d.entries \ S
      /\ \A j \in DOMAIN d.entries \ S : E[j] = d.entries[j]
  <2>1. E \in Tables(EntryRow)
    BY <1>2, RestrictFits
  <2>2. DOMAIN E = DOMAIN d.entries \ S /\ \A j \in DOMAIN d.entries \ S : E[j] = d.entries[j]
    BY DEF Restrict
  <2>. QED  BY <2>1, <2>2
<1>4. /\ F \in Tables(DocRow) /\ DOMAIN F = DOMAIN d.fts \ S
      /\ \A j \in DOMAIN d.fts \ S : F[j] = d.fts[j]
  <2>1. F \in Tables(DocRow)
    BY <1>2, RestrictFits
  <2>2. DOMAIN F = DOMAIN d.fts \ S /\ \A j \in DOMAIN d.fts \ S : F[j] = d.fts[j]
    BY DEF Restrict
  <2>. QED  BY <2>1, <2>2
<1>5. ~C /\ C \in BOOLEAN /\ AllIndexed(d)
  BY <1>1 DEF Index, AllIndexed, Indexed
<1>6. x = [d EXCEPT !.entries = E, !.fts = F, !.corrupt = C]
  BY DEF DeleteRows
<1> HIDE DEF E, F, C, x
<1>7. /\ x \in Databases
      /\ x.entries = E /\ x.fts = F /\ x.serial = d.serial /\ x.corrupt = C
      /\ x.feeds = d.feeds /\ x.feedSeq = d.feedSeq /\ x.categories = d.categories
      /\ x.tombstones = d.tombstones /\ SameSetup(x, d)
  BY <1>1, <1>3, <1>4, <1>5, <1>6 DEF Databases, SameSetup
<1>8. Refs(x) /\ Numbered(x)
  BY <1>1, <1>3, <1>7 DEF Refs, Numbered
<1>9. AllIndexed(x)
  BY <1>3, <1>4, <1>5, <1>7 DEF AllIndexed
<1>10. Index(x)
  BY <1>1, <1>3, <1>5, <1>7, <1>9 DEF Index, AllFilled, SameSetup
<1>. QED  BY <1>7, <1>8, <1>10 DEF Sound, x

LEMMA UpdateTextFits ==
    ASSUME NEW d, Sound(d), NEW i \in DOMAIN d.entries, NEW e \in EntryRow,
           e.feed = d.entries[i].feed, e.mid = d.entries[i].mid, d.flag => Filled(e)
    PROVE  /\ Sound(UpdateText(d, i, e)) /\ SameSetup(UpdateText(d, i, e), d)
           /\ DOMAIN UpdateText(d, i, e).entries = DOMAIN d.entries
           /\ UpdateText(d, i, e).entries[i] = e
           /\ \A j \in DOMAIN d.entries : j # i => UpdateText(d, i, e).entries[j] = d.entries[j]
           /\ UpdateText(d, i, e).feeds = d.feeds
<1> DEFINE E == [d.entries EXCEPT ![i] = e]
           F == IF d.trigger THEN Put(d.fts, i, Doc(e)) ELSE d.fts
           C == d.corrupt \/ (d.trigger /\ ~Indexed(d, i))
           x == UpdateText(d, i, e)
<1>1. d \in Databases /\ Refs(d) /\ Numbered(d) /\ Index(d)
  BY DEF Sound
<1>2. d.entries \in Tables(EntryRow) /\ d.fts \in Tables(DocRow)
  BY <1>1 DEF Databases
<1>3. /\ DOMAIN d.entries \in Rowids /\ DOMAIN d.entries \subseteq Nat \ {0}
      /\ d.entries = [j \in DOMAIN d.entries |-> d.entries[j]]
      /\ \A j \in DOMAIN d.entries : d.entries[j] \in EntryRow
  BY <1>2, TableFacts
<1>4. /\ E \in [DOMAIN d.entries -> EntryRow] /\ DOMAIN E = DOMAIN d.entries /\ E[i] = e
      /\ \A j \in DOMAIN d.entries : j # i => E[j] = d.entries[j]
  <2> DEFINE t == d.entries
  <2>1. t = [j \in DOMAIN t |-> t[j]] /\ i \in DOMAIN t /\ \A j \in DOMAIN t : t[j] \in EntryRow
    BY <1>3
  <2> HIDE DEF t
  <2>2. [t EXCEPT ![i] = e] \in [DOMAIN t -> EntryRow] /\ DOMAIN [t EXCEPT ![i] = e] = DOMAIN t
        /\ [t EXCEPT ![i] = e][i] = e
        /\ \A j \in DOMAIN t : j # i => [t EXCEPT ![i] = e][j] = t[j]
    BY <2>1
  <2>. QED  BY <2>2 DEF t
<1>5. E \in Tables(EntryRow)
  BY <1>3, <1>4, TableIntro
<1>6. Doc(e) \in DocRow /\ i \in Nat \ {0}
  BY <1>3, DocFits
<1>7. /\ Put(d.fts, i, Doc(e)) \in Tables(DocRow)
      /\ DOMAIN Put(d.fts, i, Doc(e)) = DOMAIN d.fts \cup {i}
      /\ Put(d.fts, i, Doc(e))[i] = Doc(e)
      /\ \A j \in DOMAIN d.fts : j # i => Put(d.fts, i, Doc(e))[j] = d.fts[j]
  <2>1. Put(d.fts, i, Doc(e)) \in Tables(DocRow)
    BY <1>2, <1>6, PutFits
  <2>2. /\ DOMAIN Put(d.fts, i, Doc(e)) = DOMAIN d.fts \cup {i}
        /\ Put(d.fts, i, Doc(e))[i] = Doc(e)
        /\ \A j \in DOMAIN d.fts : j # i => Put(d.fts, i, Doc(e))[j] = d.fts[j]
    BY DEF Put
  <2>. QED  BY <2>1, <2>2
<1>8. F \in Tables(DocRow) /\ ~C /\ C \in BOOLEAN
  BY <1>1, <1>2, <1>7 DEF Index, AllIndexed, Indexed
<1>9. x = [d EXCEPT !.entries = E, !.fts = F, !.corrupt = C]
  BY DEF UpdateText
<1> HIDE DEF E, F, C, x
<1>10. /\ x \in Databases
       /\ x.entries = E /\ x.fts = F /\ x.serial = d.serial /\ x.corrupt = C
       /\ x.feeds = d.feeds /\ x.feedSeq = d.feedSeq /\ x.categories = d.categories
       /\ x.tombstones = d.tombstones /\ SameSetup(x, d)
  BY <1>1, <1>5, <1>8, <1>9 DEF Databases, SameSetup
<1>11. Refs(x) /\ Numbered(x)
  BY <1>1, <1>4, <1>10 DEF Refs, Numbered
<1>12. Index(x)
  <2>1. x.trigger => AllIndexed(x)
    <3> SUFFICES ASSUME d.trigger PROVE AllIndexed(x)
      BY <1>10 DEF SameSetup
    <3>1. AllIndexed(d) /\ F = Put(d.fts, i, Doc(e))
      BY <1>1 DEF Index, F
    <3>. QED  BY <1>4, <1>7, <1>10, <3>1 DEF AllIndexed
  <2>2. x.flag => x.trigger /\ AllFilled(x)
    BY <1>1, <1>4, <1>10 DEF Index, AllFilled, SameSetup
  <2>3. ~x.migrated => DOMAIN x.fts = {} /\ ~x.trigger
    BY <1>1, <1>10 DEF Index, SameSetup, F
  <2>. QED  BY <1>8, <1>10, <2>1, <2>2, <2>3 DEF Index
<1>. QED  BY <1>4, <1>10, <1>11, <1>12 DEF Sound, x

\* Columns the index does not cover.
SameText(e, r) ==
    /\ e.mid = r.mid /\ e.feed = r.feed /\ e.hash = r.hash /\ e.content = r.content
    /\ e.ctext = r.ctext /\ e.stext = r.stext

LEMMA OtherColumnsFit ==
    ASSUME NEW d, Sound(d), NEW E, E \in [DOMAIN d.entries -> EntryRow],
           \A i \in DOMAIN d.entries : SameText(E[i], d.entries[i])
    PROVE  /\ Sound([d EXCEPT !.entries = E]) /\ SameSetup([d EXCEPT !.entries = E], d)
           /\ [d EXCEPT !.entries = E].feeds = d.feeds
<1> DEFINE x == [d EXCEPT !.entries = E]
<1>1. d \in Databases /\ Refs(d) /\ Numbered(d) /\ Index(d)
  BY DEF Sound
<1>2. d.entries \in Tables(EntryRow)
  BY <1>1 DEF Databases
<1>3. DOMAIN d.entries \in Rowids /\ DOMAIN E = DOMAIN d.entries
  BY <1>2, TableFacts
<1>4. E \in Tables(EntryRow)
  BY <1>3, TableIntro
<1>5. /\ x \in Databases
      /\ x.entries = E /\ x.fts = d.fts /\ x.serial = d.serial /\ x.corrupt = d.corrupt
      /\ x.feeds = d.feeds /\ x.feedSeq = d.feedSeq /\ x.categories = d.categories
      /\ x.tombstones = d.tombstones /\ SameSetup(x, d)
  BY <1>1, <1>4 DEF Databases, SameSetup
<1> HIDE DEF x
<1>6. Refs(x) /\ Numbered(x)
  BY <1>1, <1>3, <1>5 DEF Refs, Numbered, SameText
<1>7. \A i \in DOMAIN d.entries : Doc(E[i]) = Doc(d.entries[i])
  BY DEF Doc, SameText
<1>8. AllIndexed(d) => AllIndexed(x)
  BY <1>3, <1>5, <1>7 DEF AllIndexed
<1>9. AllFilled(d) => AllFilled(x)
  BY <1>3, <1>5 DEF AllFilled, Filled, SameText
<1>10. Index(x)
  BY <1>1, <1>5, <1>8, <1>9 DEF Index, SameSetup
<1>. QED  BY <1>5, <1>6, <1>10 DEF Sound, x

-----------------------------------------------------------------------------
(* The poll's transaction.                                                 *)

LEMMA UpsertOneFits ==
    ASSUME NEW d, Sound(d), SameSetup(d, db), d.migrated => d.trigger,
           NEW f \in DOMAIN d.feeds, NEW full \in BOOLEAN, NEW at \in Times,
           NEW v \in Versions
    PROVE  /\ Sound(UpsertOne(f, full, at, d, v))
           /\ SameSetup(UpsertOne(f, full, at, d, v), db)
           /\ UpsertOne(f, full, at, d, v).feeds = d.feeds
<1>1. d \in Databases /\ Refs(d) /\ Numbered(d) /\ Index(d)
  BY DEF Sound
<1>2. /\ d.entries \in Tables(EntryRow) /\ d.feeds \in Tables(FeedRow)
      /\ d.serial \in Nat \ {0}
  BY <1>1 DEF Databases
<1>3. /\ \A i \in DOMAIN d.entries : d.entries[i] \in EntryRow
      /\ DOMAIN d.feeds \subseteq Nat
  BY <1>2, TableFacts
<1>4. /\ PlainText(v) \in SUBSET Words /\ PlainSummary(v) \in SUBSET Words
      /\ d.flag => PlainText(v) = BodyText[v] /\ PlainSummary(v) = SummaryText[v]
  BY <1>1, SqliteStoreAssumption DEF PlainText, PlainSummary, Index, SameSetup
<1>5. CASE TombstoneExists(d, f, v)
  BY <1>5 DEF UpsertOne
<1>6. CASE ~TombstoneExists(d, f, v) /\ GetEntryByGUID(d, f, v) = {}
  <2> DEFINE e == [mid |-> d.serial, feed |-> f, hash |-> v, content |-> v,
                   ctext |-> PlainText(v), stext |-> PlainSummary(v),
                   status |-> "unread", starred |-> FALSE, readAt |-> NoTime,
                   ext |-> IF full THEN "pending" ELSE "none", attempts |-> 0,
                   next |-> IF full THEN at ELSE NoTime, reason |-> FALSE,
                   created |-> at]
  <2>1. e \in EntryRow
    BY <1>2, <1>3, <1>4, SqliteStoreAssumption DEF EntryRow
  <2>2. e.feed \in DOMAIN d.feeds /\ e.mid = d.serial /\ (d.flag => Filled(e))
    BY <1>4 DEF Filled
  <2>3. UpsertOne(f, full, at, d, v) = InsertRow(d, e)
    BY <1>6 DEF UpsertOne, InsertEntry
  <2> HIDE DEF e
  <2>. QED  BY <2>1, <2>2, <2>3, InsertFits DEF SameSetup
<1>7. CASE ~TombstoneExists(d, f, v) /\ GetEntryByGUID(d, f, v) # {}
  <2> DEFINE i == CHOOSE x \in GetEntryByGUID(d, f, v) : TRUE
             r == d.entries[i]
             m == [r EXCEPT !.hash = v, !.stext = PlainSummary(v)]
             c == [r EXCEPT !.hash = v, !.content = v, !.ctext = PlainText(v),
                            !.stext = PlainSummary(v)]
  <2>1. i \in DOMAIN d.entries
    <3>1. i \in GetEntryByGUID(d, f, v)
      BY <1>7
    <3>. QED  BY <3>1 DEF GetEntryByGUID
  <2>2. r \in EntryRow
    BY <1>3, <2>1
  <2>3. UpsertOne(f, full, at, d, v) =
            IF r.hash = v THEN d ELSE IF r.ext = "done" THEN UpdateText(d, i, m)
            ELSE UpdateText(d, i, c)
    BY <1>7 DEF UpsertOne, UpdateEntryMetadata, UpdateEntryContent
  <2> HIDE DEF i
  <2>4. d.flag => Filled(r)
    BY <1>1, <2>1 DEF Index, AllFilled
  <2> HIDE DEF r
  <2>5. m \in EntryRow /\ m.feed = r.feed /\ m.mid = r.mid /\ (d.flag => Filled(m))
    BY <1>4, <2>2, <2>4 DEF EntryRow, Filled
  <2>6. c \in EntryRow /\ c.feed = r.feed /\ c.mid = r.mid /\ (d.flag => Filled(c))
    BY <1>4, <2>2, <2>4 DEF EntryRow, Filled
  <2> HIDE DEF m, c
  <2>7. /\ Sound(UpdateText(d, i, m)) /\ SameSetup(UpdateText(d, i, m), d)
        /\ UpdateText(d, i, m).feeds = d.feeds
    BY <2>1, <2>5, UpdateTextFits DEF r
  <2>8. /\ Sound(UpdateText(d, i, c)) /\ SameSetup(UpdateText(d, i, c), d)
        /\ UpdateText(d, i, c).feeds = d.feeds
    BY <2>1, <2>6, UpdateTextFits DEF r
  <2>. QED  BY <2>3, <2>7, <2>8 DEF SameSetup
<1>. QED  BY <1>5, <1>6, <1>7

LEMMA UpsertedFits ==
    ASSUME Sound(db), db.migrated => db.trigger, NEW f, NEW b \in Batches,
           NEW at \in Times
    PROVE  /\ Sound(Upserted(f, b, at)) /\ SameSetup(Upserted(f, b, at), db)
           /\ Upserted(f, b, at).feeds = db.feeds
<1>1. CASE f \notin DOMAIN db.feeds
  BY <1>1 DEF Upserted, SameSetup
<1>2. CASE f \in DOMAIN db.feeds
  <2> DEFINE V == {d \in Databases : Sound(d) /\ SameSetup(d, db) /\ d.feeds = db.feeds}
             S == DOMAIN b
             full == db.feeds[f].full
             pick == [s \in SUBSET S |-> Max(s)]
             step == [x \in S \X V |-> UpsertOne(f, full, at, x[2], b[x[1]])]
             Fold1(g) == g = [s \in SUBSET S |->
                                  IF s = {} THEN db
                                  ELSE UpsertOne(f, full, at, g[s \ {Max(s)}], b[Max(s)])]
  <2>1. Upserted(f, b, at) = (CHOOSE g : Fold1(g))[S]
    BY <1>2 DEF FoldLeft, MapThenFoldSet, Upserted
  <2>2. b \in Seq(Versions) /\ S \subseteq Int /\ IsFiniteSet(S)
    <3>1. b \in Seq(Versions)
      BY SqliteStoreAssumption
    <3>2. S = 1..Len(b) /\ Len(b) \in Nat
      BY <3>1
    <3>. QED  BY <3>1, <3>2, FS_Interval
  <2>3. \A j \in S : b[j] \in Versions
    BY <2>2
  <2>4. \A s \in SUBSET S : s # {} => Max(s) \in s
    <3> SUFFICES ASSUME NEW s \in SUBSET S, s # {} PROVE Max(s) \in s
      OBVIOUS
    <3>1. IsFiniteSet(s) /\ s \subseteq Int
      BY <2>2, FS_Subset
    <3>. QED  BY <3>1, MaxFits
  <2>5. full \in BOOLEAN
    <3>1. db.feeds \in Tables(FeedRow)
      BY DEF Sound, Databases
    <3>2. db.feeds[f] \in FeedRow
      BY <1>2, <3>1, TableFacts
    <3>. QED  BY <3>2 DEF FeedRow
  <2>6. db \in V
    BY DEF Sound, SameSetup
  <2>7. ASSUME NEW d \in V, NEW v \in Versions
        PROVE  UpsertOne(f, full, at, d, v) \in V
    <3>1. Sound(d) /\ SameSetup(d, db) /\ d.feeds = db.feeds /\ (d.migrated => d.trigger)
      BY DEF SameSetup
    <3>2. /\ Sound(UpsertOne(f, full, at, d, v))
          /\ SameSetup(UpsertOne(f, full, at, d, v), db)
          /\ UpsertOne(f, full, at, d, v).feeds = d.feeds
      BY <1>2, <2>5, <3>1, UpsertOneFits
    <3>. QED  BY <3>1, <3>2 DEF Sound
  <2> HIDE DEF V, S, full
  <2>8. step \in [S \X V -> V]
    BY <2>3, <2>7
  <2>9. Picks(S, pick)
    BY <2>4 DEF Picks
  <2> HIDE DEF step, pick
  <2>10. PICK g \in [SUBSET S -> V] : FoldOf(g, S, db, pick, step)
    BY <2>2, <2>6, <2>8, <2>9, FoldWithin
  <2>11. ASSUME NEW s \in SUBSET S
         PROVE  g[s] = IF s = {} THEN db
                       ELSE UpsertOne(f, full, at, g[s \ {Max(s)}], b[Max(s)])
    <3>1. CASE s = {}
      BY <2>10, <3>1 DEF FoldOf
    <3>2. CASE s # {}
      <4>1. pick[s] = Max(s) /\ Max(s) \in S /\ g[s \ {Max(s)}] \in V
        BY <2>4, <3>2 DEF pick
      <4>. QED  BY <2>10, <3>2, <4>1 DEF step, FoldOf
    <3>. QED  BY <3>1, <3>2
  <2>12. Fold1(g)
    BY <2>11
  <2>13. Fold1(CHOOSE h : Fold1(h))
    <3> HIDE DEF Fold1
    <3>. QED  BY <2>12
  <2> DEFINE h == CHOOSE k : Fold1(k)
  <2> HIDE DEF h
  <2>14. \A s \in SUBSET S : h[s] = IF s = {} THEN db
                       ELSE UpsertOne(f, full, at, h[s \ {Max(s)}], b[Max(s)])
    BY <2>13 DEF h
  <2> DEFINE P == {s \in SUBSET S : h[s] \in V}
  <2>15. {} \in P
    BY <2>6, <2>14
  <2>16. ASSUME NEW s \in SUBSET S, s # {}
         PROVE  \E x \in s : s \ {x} \in P => s \in P
    <3>1. Max(s) \in s
      BY <2>4, <2>16
    <3>2. ASSUME s \ {Max(s)} \in P PROVE h[s] \in V
      <4>1. h[s] = UpsertOne(f, full, at, h[s \ {Max(s)}], b[Max(s)])
        BY <2>14, <2>16
      <4>2. h[s \ {Max(s)}] \in V /\ b[Max(s)] \in Versions
        BY <2>3, <3>1, <3>2
      <4>. QED  BY <2>7, <4>1, <4>2
    <3>. QED  BY <3>1, <3>2
  <2>17. Inductive(S, P)
    BY <2>15, <2>16 DEF Inductive
  <2>18. S \in P
    <3> HIDE DEF P
    <3>. QED  BY <2>2, <2>17, SubsetInduction
  <2>. QED  BY <2>1, <2>18 DEF h, V
<1>. QED  BY <1>1, <1>2

-----------------------------------------------------------------------------
(* A transaction of the back-fill.                                         *)

FilledRow(e) == [e EXCEPT !.ctext = BodyText[e.content], !.stext = SummaryText[e.hash]]

\* The fold of BackfillBatch.
Filling(g, rows) ==
    g = [s \in SUBSET rows |->
            IF s = {} THEN db
            ELSE UpdateText(g[s \ {CHOOSE x \in s : TRUE}], CHOOSE x \in s : TRUE,
                     FilledRow(g[s \ {CHOOSE x \in s : TRUE}].entries[CHOOSE x \in s : TRUE]))]

LEMMA FilledRowFits ==
    ASSUME NEW e \in EntryRow
    PROVE  /\ FilledRow(e) \in EntryRow /\ Filled(FilledRow(e))
           /\ FilledRow(e).feed = e.feed /\ FilledRow(e).mid = e.mid
  BY SqliteStoreAssumption DEF EntryRow, FilledRow, Filled

LEMMA FillingFits ==
    ASSUME Sound(db), NEW rows \in SUBSET DOMAIN db.entries,
           NEW x, x = (CHOOSE g : Filling(g, rows))[rows]
    PROVE  /\ Sound(x) /\ SameSetup(x, db) /\ DOMAIN x.entries = DOMAIN db.entries
           /\ \A i \in rows : Filled(x.entries[i])
           /\ \A i \in DOMAIN db.entries : Filled(db.entries[i]) => Filled(x.entries[i])
<1> DEFINE Keeps(d) == \A i \in DOMAIN db.entries :
                            Filled(db.entries[i]) => Filled(d.entries[i])
           V == {d \in Databases : /\ Sound(d) /\ SameSetup(d, db)
                                   /\ DOMAIN d.entries = DOMAIN db.entries /\ Keeps(d)}
           one(d, i) == UpdateText(d, i, FilledRow(d.entries[i]))
           pick == [s \in SUBSET rows |-> CHOOSE i \in s : TRUE]
           step == [y \in rows \X V |-> one(y[2], y[1])]
<1>1. IsFiniteSet(rows)
  <2>1. db.entries \in Tables(EntryRow)
    BY DEF Sound, Databases
  <2>. QED  BY <2>1, TableFacts, FS_Subset
<1>2. db \in V
  BY DEF Sound, SameSetup
<1>3. ASSUME NEW d \in V, NEW i \in rows
      PROVE  /\ one(d, i) \in V /\ Filled(one(d, i).entries[i])
             /\ \A j \in DOMAIN db.entries :
                    Filled(d.entries[j]) => Filled(one(d, i).entries[j])
  <2>1. /\ Sound(d) /\ SameSetup(d, db) /\ DOMAIN d.entries = DOMAIN db.entries /\ Keeps(d)
        /\ i \in DOMAIN d.entries
    OBVIOUS
  <2>2. d.entries[i] \in EntryRow
    <3>1. d.entries \in Tables(EntryRow)
      BY <2>1 DEF Sound, Databases
    <3>. QED  BY <2>1, <3>1, TableFacts
  <2>3. /\ FilledRow(d.entries[i]) \in EntryRow /\ Filled(FilledRow(d.entries[i]))
        /\ FilledRow(d.entries[i]).feed = d.entries[i].feed
        /\ FilledRow(d.entries[i]).mid = d.entries[i].mid
    BY <2>2, FilledRowFits
  <2>4. /\ Sound(one(d, i)) /\ SameSetup(one(d, i), d)
        /\ DOMAIN one(d, i).entries = DOMAIN d.entries
        /\ one(d, i).entries[i] = FilledRow(d.entries[i])
        /\ \A j \in DOMAIN d.entries : j # i => one(d, i).entries[j] = d.entries[j]
    BY <2>1, <2>3, UpdateTextFits
  <2> HIDE DEF one
  <2>5. \A j \in DOMAIN db.entries : Filled(d.entries[j]) => Filled(one(d, i).entries[j])
    BY <2>1, <2>3, <2>4
  <2>. QED  BY <2>1, <2>3, <2>4, <2>5 DEF Sound, SameSetup
<1>4. \A s \in SUBSET rows : s # {} => (CHOOSE i \in s : TRUE) \in s
  OBVIOUS
<1> HIDE DEF V, one
<1>5. step \in [rows \X V -> V]
  BY <1>3
<1>6. Picks(rows, pick)
  BY <1>4 DEF Picks
<1> HIDE DEF step, pick
<1>7. PICK g \in [SUBSET rows -> V] : FoldOf(g, rows, db, pick, step)
  BY <1>1, <1>2, <1>5, <1>6, FoldWithin
<1>8. ASSUME NEW s \in SUBSET rows
      PROVE  g[s] = IF s = {} THEN db
                    ELSE one(g[s \ {CHOOSE y \in s : TRUE}], CHOOSE y \in s : TRUE)
  <2>1. CASE s = {}
    BY <1>7, <2>1 DEF FoldOf
  <2>2. CASE s # {}
    <3> DEFINE i == CHOOSE y \in s : TRUE
    <3>1. pick[s] = i /\ i \in rows /\ g[s \ {i}] \in V
      BY <1>4, <2>2 DEF pick
    <3>. QED  BY <1>7, <2>2, <3>1 DEF step, FoldOf
  <2>. QED  BY <2>1, <2>2
<1>9. Filling(g, rows)
  BY <1>8 DEF Filling, one
<1> DEFINE h == CHOOSE k : Filling(k, rows)
<1>10. Filling(h, rows)
  BY <1>9
<1> HIDE DEF h
<1>11. \A s \in SUBSET rows :
           h[s] = IF s = {} THEN db
                  ELSE one(h[s \ {CHOOSE y \in s : TRUE}], CHOOSE y \in s : TRUE)
  BY <1>10 DEF Filling, one
<1> DEFINE P == {s \in SUBSET rows : h[s] \in V /\ \A i \in s : Filled(h[s].entries[i])}
<1>12. {} \in P
  BY <1>2, <1>11
<1>13. ASSUME NEW s \in SUBSET rows, s # {}
       PROVE  \E i \in s : s \ {i} \in P => s \in P
  <2> DEFINE i == CHOOSE y \in s : TRUE
             d == h[s \ {i}]
  <2>1. i \in s /\ h[s] = one(d, i)
    BY <1>4, <1>11, <1>13
  <2> HIDE DEF i
  <2>2. ASSUME s \ {i} \in P PROVE h[s] \in V /\ \A j \in s : Filled(h[s].entries[j])
    <3>1. d \in V /\ \A j \in s \ {i} : Filled(d.entries[j])
      BY <2>2
    <3> HIDE DEF d
    <3>. QED  BY <1>3, <2>1, <3>1
  <2>. QED  BY <2>1, <2>2
<1>14. Inductive(rows, P)
  BY <1>12, <1>13 DEF Inductive
<1>15. rows \in P
  <2> HIDE DEF P
  <2>. QED  BY <1>1, <1>14, SubsetInduction
<1>. QED  BY <1>15 DEF h, V

-----------------------------------------------------------------------------
(* The statements on feeds, categories and tombstones.                     *)

LEMMA OtherTablesFit ==
    ASSUME NEW d, Sound(d), NEW x \in Databases, Refs(x), SameSetup(x, d),
           x.entries = d.entries, x.fts = d.fts, x.corrupt = d.corrupt,
           x.serial >= d.serial
    PROVE  Sound(x)
<1>1. d \in Databases /\ Numbered(d) /\ Index(d)
  BY DEF Sound
<1>2. \A i \in DOMAIN d.entries : d.entries[i].mid \in Nat
  <2>1. d.entries \in Tables(EntryRow)
    BY <1>1 DEF Databases
  <2>2. \A i \in DOMAIN d.entries : d.entries[i] \in EntryRow
    BY <2>1, TableFacts
  <2>. QED  BY <2>2 DEF EntryRow
<1>3. d.serial \in Nat /\ x.serial \in Nat
  BY <1>1 DEF Databases
<1>4. Numbered(x)
  BY <1>1, <1>2, <1>3 DEF Numbered
<1>5. Index(x)
  BY <1>1 DEF Index, AllIndexed, AllFilled, SameSetup
<1>. QED  BY <1>4, <1>5 DEF Sound

LEMMA FeedRowFits ==
    ASSUME NEW d, Sound(d), NEW f \in DOMAIN d.feeds, NEW r \in FeedRow,
           r.cat \in DOMAIN d.categories \cup {None}
    PROVE  /\ Sound([d EXCEPT !.feeds[f] = r]) /\ SameSetup([d EXCEPT !.feeds[f] = r], d)
           /\ [d EXCEPT !.feeds[f] = r].entries = d.entries
<1> DEFINE t == d.feeds
           F == [t EXCEPT ![f] = r]
           x == [d EXCEPT !.feeds[f] = r]
<1>1. d \in Databases /\ Refs(d)
  BY DEF Sound
<1>2. d.feeds \in Tables(FeedRow)
  BY <1>1 DEF Databases
<1>3. /\ DOMAIN t \in Rowids /\ t = [g \in DOMAIN t |-> t[g]]
      /\ \A g \in DOMAIN t : t[g] \in FeedRow
  BY <1>2, TableFacts
<1>4. x = [d EXCEPT !.feeds = F]
  OBVIOUS
<1> HIDE DEF t
<1>5. F \in [DOMAIN t -> FeedRow] /\ F[f] = r /\ \A g \in DOMAIN t : g # f => F[g] = t[g]
  <2>1. f \in DOMAIN t
    BY DEF t
  <2>. QED  BY <1>3, <2>1
<1>6. F \in Tables(FeedRow) /\ DOMAIN F = DOMAIN t
  BY <1>3, <1>5, TableIntro
<1> HIDE DEF F, x
<1>7. /\ x \in Databases /\ SameSetup(x, d) /\ x.feeds = F
      /\ x.entries = d.entries /\ x.fts = d.fts /\ x.serial = d.serial
      /\ x.corrupt = d.corrupt /\ x.feedSeq = d.feedSeq /\ x.categories = d.categories
      /\ x.tombstones = d.tombstones /\ d.serial \in Nat
  BY <1>1, <1>4, <1>6 DEF Databases, SameSetup
<1>8. Refs(x)
  BY <1>1, <1>5, <1>6, <1>7 DEF Refs, t
<1>9. x.serial >= d.serial
  BY <1>7
<1>. QED  BY <1>7, <1>8, <1>9, OtherTablesFit DEF x

LEMMA NewFeedFits ==
    ASSUME NEW d, Sound(d), NEW r \in FeedRow, r.cat \in DOMAIN d.categories \cup {None},
           NEW x, x = [d EXCEPT !.feeds = Put(@, d.feedSeq, r), !.feedSeq = d.feedSeq + 1,
                                !.serial = @ + 1]
    PROVE  Sound(x) /\ SameSetup(x, d)
<1> DEFINE F == Put(d.feeds, d.feedSeq, r)
<1>1. d \in Databases /\ Refs(d)
  BY DEF Sound
<1>2. d.feeds \in Tables(FeedRow) /\ d.feedSeq \in Nat \ {0} /\ d.serial \in Nat \ {0}
  BY <1>1 DEF Databases
<1>3. F \in Tables(FeedRow)
  BY <1>2, PutFits
<1>4. /\ DOMAIN F = DOMAIN d.feeds \cup {d.feedSeq} /\ F[d.feedSeq] = r
      /\ \A g \in DOMAIN d.feeds : g # d.feedSeq => F[g] = d.feeds[g]
  BY DEF Put
<1>5. DOMAIN d.feeds \subseteq Nat
  BY <1>2, TableFacts
<1> HIDE DEF F
<1>6. d.serial + 1 \in Nat \ {0} /\ d.feedSeq + 1 \in Nat \ {0} /\ d.serial + 1 >= d.serial
  BY <1>2
<1>7. x = [d EXCEPT !.feeds = F, !.feedSeq = d.feedSeq + 1, !.serial = d.serial + 1]
  BY DEF F
<1>8. /\ x \in Databases /\ SameSetup(x, d) /\ x.feeds = F
      /\ x.entries = d.entries /\ x.fts = d.fts /\ x.serial = d.serial + 1
      /\ x.corrupt = d.corrupt /\ x.feedSeq = d.feedSeq + 1
      /\ x.categories = d.categories /\ x.tombstones = d.tombstones
  BY <1>1, <1>3, <1>6, <1>7 DEF Databases, SameSetup
<1>9. \A g \in DOMAIN F : g < d.feedSeq + 1 /\ F[g].cat \in DOMAIN d.categories \cup {None}
  BY <1>1, <1>2, <1>4, <1>5 DEF Refs
<1>10. Refs(x)
  BY <1>1, <1>4, <1>8, <1>9 DEF Refs
<1>. QED  BY <1>6, <1>8, <1>10, OtherTablesFit

LEMMA DropFeedFits ==
    ASSUME NEW d, Sound(d), NEW f, \A i \in DOMAIN d.entries : d.entries[i].feed # f,
           NEW x, x = [d EXCEPT !.feeds = Restrict(@, DOMAIN @ \ {f}),
                                !.tombstones = {t \in @ : t[1] # f}]
    PROVE  Sound(x) /\ SameSetup(x, d)
<1> DEFINE F == Restrict(d.feeds, DOMAIN d.feeds \ {f})
           T == {t \in d.tombstones : t[1] # f}
<1>1. d \in Databases /\ Refs(d)
  BY DEF Sound
<1>2. d.feeds \in Tables(FeedRow) /\ d.serial \in Nat /\ T \in SUBSET (Nat \X GuidSet)
  BY <1>1 DEF Databases
<1>3. F \in Tables(FeedRow)
  BY <1>2, RestrictFits
<1>4. DOMAIN F = DOMAIN d.feeds \ {f} /\ \A g \in DOMAIN d.feeds \ {f} : F[g] = d.feeds[g]
  BY DEF Restrict
<1> HIDE DEF F, T
<1>5. x = [d EXCEPT !.feeds = F, !.tombstones = T]
  BY DEF F, T
<1>6. /\ x \in Databases /\ SameSetup(x, d) /\ x.feeds = F /\ x.tombstones = T
      /\ x.entries = d.entries /\ x.fts = d.fts /\ x.serial = d.serial
      /\ x.corrupt = d.corrupt /\ x.feedSeq = d.feedSeq /\ x.categories = d.categories
  BY <1>1, <1>2, <1>3, <1>5 DEF Databases, SameSetup
<1>7. Refs(x)
  BY <1>1, <1>4, <1>6 DEF Refs, T
<1>8. x.serial >= d.serial
  BY <1>2, <1>6
<1>. QED  BY <1>6, <1>7, <1>8, OtherTablesFit

LEMMA TombstoneFits ==
    ASSUME NEW d, Sound(d), NEW f \in DOMAIN d.feeds, NEW v \in Versions
    PROVE  /\ Sound(InsertTombstone(d, f, v)) /\ SameSetup(InsertTombstone(d, f, v), d)
           /\ InsertTombstone(d, f, v).entries = d.entries
<1> DEFINE T == d.tombstones \cup {<<f, GuidOf[v]>>}
           x == InsertTombstone(d, f, v)
<1>1. d \in Databases /\ Refs(d)
  BY DEF Sound
<1>2. d.feeds \in Tables(FeedRow) /\ d.serial \in Nat /\ d.tombstones \subseteq Nat \X GuidSet
  BY <1>1 DEF Databases
<1>3. f \in Nat
  BY <1>2, TableFacts
<1>4. T \in SUBSET (Nat \X GuidSet)
  BY <1>2, <1>3 DEF GuidSet
<1>5. x = [d EXCEPT !.tombstones = T]
  BY DEF InsertTombstone
<1>6. \A t \in T : t[1] \in DOMAIN d.feeds
  BY <1>1 DEF Refs
<1> HIDE DEF T, x
<1>7. /\ x \in Databases /\ SameSetup(x, d) /\ x.feeds = d.feeds /\ x.tombstones = T
      /\ x.entries = d.entries /\ x.fts = d.fts /\ x.serial = d.serial
      /\ x.corrupt = d.corrupt /\ x.feedSeq = d.feedSeq /\ x.categories = d.categories
  BY <1>1, <1>4, <1>5 DEF Databases, SameSetup
<1>8. Refs(x)
  BY <1>1, <1>6, <1>7 DEF Refs
<1>9. x.serial >= d.serial
  BY <1>2, <1>7
<1>. QED  BY <1>7, <1>8, <1>9, OtherTablesFit DEF x

LEMMA CategoriesFit ==
    ASSUME NEW d, Sound(d), NEW C \in Tables(CatRow), DOMAIN d.categories \subseteq DOMAIN C,
           NEW n \in Nat \ {0}, n >= d.serial,
           NEW x, x = [d EXCEPT !.categories = C, !.serial = n]
    PROVE  Sound(x) /\ SameSetup(x, d)
<1>1. d \in Databases /\ Refs(d)
  BY DEF Sound
<1>2. /\ x \in Databases /\ SameSetup(x, d) /\ x.feeds = d.feeds
      /\ x.entries = d.entries /\ x.fts = d.fts /\ x.serial = n /\ x.corrupt = d.corrupt
      /\ x.feedSeq = d.feedSeq /\ x.categories = C /\ x.tombstones = d.tombstones
  BY <1>1 DEF Databases, SameSetup
<1>3. Refs(x)
  BY <1>1, <1>2 DEF Refs
<1>. QED  BY <1>2, <1>3, OtherTablesFit

LEMMA DropCategoryFits ==
    ASSUME NEW d, Sound(d), NEW c,
           NEW x, x = [d EXCEPT !.categories = Restrict(@, DOMAIN @ \ {c}),
                                !.feeds = [f \in DOMAIN @ |-> IF @[f].cat = c
                                             THEN [@[f] EXCEPT !.cat = None] ELSE @[f]]]
    PROVE  Sound(x) /\ SameSetup(x, d)
<1> DEFINE C == Restrict(d.categories, DOMAIN d.categories \ {c})
           F == [f \in DOMAIN d.feeds |-> IF d.feeds[f].cat = c
                     THEN [d.feeds[f] EXCEPT !.cat = None] ELSE d.feeds[f]]
<1>1. d \in Databases /\ Refs(d)
  BY DEF Sound
<1>2. /\ d.feeds \in Tables(FeedRow) /\ d.categories \in Tables(CatRow)
      /\ d.serial \in Nat
  BY <1>1 DEF Databases
<1>3. C \in Tables(CatRow)
  BY <1>2, RestrictFits
<1>4. DOMAIN C = DOMAIN d.categories \ {c}
  BY DEF Restrict
<1>5. DOMAIN d.feeds \in Rowids /\ \A f \in DOMAIN d.feeds : d.feeds[f] \in FeedRow
  BY <1>2, TableFacts
<1>6. \A f \in DOMAIN d.feeds :
          F[f] \in FeedRow /\ F[f].cat \in (DOMAIN d.categories \ {c}) \cup {None}
  BY <1>1, <1>5 DEF FeedRow, Refs, None
<1>7. F \in Tables(FeedRow) /\ DOMAIN F = DOMAIN d.feeds
  <2>1. F \in [DOMAIN d.feeds -> FeedRow]
    BY <1>6
  <2>. QED  BY <1>5, <2>1, TableIntro
<1>8. x = [d EXCEPT !.categories = C, !.feeds = F]
  OBVIOUS
<1> HIDE DEF C, F
<1>9. /\ x \in Databases /\ SameSetup(x, d) /\ x.feeds = F
      /\ x.entries = d.entries /\ x.fts = d.fts /\ x.serial = d.serial
      /\ x.corrupt = d.corrupt /\ x.feedSeq = d.feedSeq /\ x.categories = C
      /\ x.tombstones = d.tombstones
  BY <1>1, <1>3, <1>7, <1>8 DEF Databases, SameSetup
<1>10. Refs(x)
  BY <1>1, <1>4, <1>6, <1>7, <1>9 DEF Refs
<1>11. x.serial >= d.serial
  BY <1>2, <1>9
<1>. QED  BY <1>9, <1>10, <1>11, OtherTablesFit

-----------------------------------------------------------------------------
(* The invariant, phase by phase.                                          *)

Phases == {"old", "starting", "backfill", "rebuild", "trigger", "flag", "open"}

DeleteRead == [id : Nat, feed : Nat, hash : Versions, mid : Nat]

\* Start-up redoes everything after a crash, so what it relies on is what this
\* start has done, and what the database keeps from earlier ones is in Sound.
StartedInv ==
    /\ db.migrated = (phase # "old")
    /\ phase = "backfill" =>
           \A i \in DOMAIN db.entries : i <= lastID => Filled(db.entries[i])
    /\ phase \in {"rebuild", "trigger", "flag"} => AllFilled(db)
    /\ phase \in {"trigger", "flag"} => AllIndexed(db)
    /\ phase = "flag" => db.trigger
    /\ phase = "open" => db.flag

Bounds ==
    /\ phase \in Phases /\ lastID \in Nat
    /\ deleting \in [Deleters -> {NoDelete} \cup DeleteRead]
    /\ ops \in 0..MaxOps /\ crashes \in 0..MaxCrashes

IInv == Sound(db) /\ StartedInv /\ Bounds

LEMMA NowFits == Now \in Times /\ Later \in Times
<1>1. Times \subseteq Int /\ IsFiniteSet(Times) /\ Times # {}
  BY SqliteStoreAssumption
<1>2. Later \in Times
  BY <1>1, MaxFits DEF Later
<1>3. \E m \in Times : \A x \in Times : m <= x
  <2>1. Times \in SUBSET Nat
    BY SqliteStoreAssumption
  <2>. QED  BY <1>1, <2>1, LeastNat
<1>4. Now \in Times
  BY <1>3 DEF Now, Min
<1>. QED  BY <1>2, <1>4

LEMMA InitFits == Init => IInv
<1> SUFFICES ASSUME Init PROVE IInv
  OBVIOUS
<1>1. \A R : <<>> \in Tables(R) /\ DOMAIN <<>> = {}
  BY EmptyTable
<1>2. db \in Databases /\ db.entries = <<>> /\ db.feeds = <<>> /\ db.fts = <<>>
      /\ db.tombstones = {} /\ ~db.corrupt /\ ~db.migrated /\ ~db.trigger /\ ~db.flag
  BY <1>1 DEF Init, Databases
<1>3. Refs(db) /\ Numbered(db)
  BY <1>1, <1>2 DEF Refs, Numbered
<1>4. Index(db)
  BY <1>1, <1>2 DEF Index
<1>5. StartedInv
  BY <1>2 DEF StartedInv, Init
<1>6. Bounds
  BY SqliteStoreAssumption DEF Bounds, Init, Phases
<1>. QED  BY <1>2, <1>3, <1>4, <1>5, <1>6 DEF IInv, Sound

\* An open store stays open, and a call changes nothing of its set-up.
LEMMA OpenFits ==
    ASSUME IInv, phase = "open", Sound(db'), SameSetup(db', db),
           UNCHANGED startup, deleting' \in [Deleters -> {NoDelete} \cup DeleteRead],
           ops' \in 0..MaxOps
    PROVE  IInv'
<1>1. StartedInv'
  BY DEF IInv, StartedInv, SameSetup, startup
<1>2. Bounds'
  BY DEF IInv, Bounds, startup
<1>. QED  BY <1>1, <1>2 DEF IInv

LEMMA CallFits ==
    ASSUME IInv, NEW d, NEW call, Call(d, call), Sound(d), SameSetup(d, db)
    PROVE  IInv'
<1>1. /\ phase = "open" /\ db' = d /\ ops < MaxOps /\ UNCHANGED <<deleting, startup>>
      /\ ops' \in {ops, ops + 1}
  BY DEF Call
<1>2. deleting' \in [Deleters -> {NoDelete} \cup DeleteRead] /\ ops' \in 0..MaxOps
  BY <1>1, SqliteStoreAssumption DEF IInv, Bounds
<1>. QED  BY <1>1, <1>2, OpenFits

LEMMA OpenFacts ==
    ASSUME IInv, phase = "open"
    PROVE  /\ Sound(db) /\ db \in Databases /\ Refs(db)
           /\ db.flag /\ db.trigger /\ db.migrated /\ AllFilled(db) /\ SameSetup(db, db)
           /\ \A i \in DOMAIN db.entries : db.entries[i] \in EntryRow
           /\ \A f \in DOMAIN db.feeds : db.feeds[f] \in FeedRow
           /\ \A c \in DOMAIN db.categories : db.categories[c] \in CatRow
<1>1. Sound(db) /\ db.flag /\ db.migrated
  BY DEF IInv, StartedInv
<1>2. db.trigger /\ AllFilled(db) /\ db \in Databases /\ Refs(db) /\ SameSetup(db, db)
  BY <1>1 DEF Sound, Index, SameSetup
<1>3. /\ db.entries \in Tables(EntryRow) /\ db.feeds \in Tables(FeedRow)
      /\ db.categories \in Tables(CatRow)
  BY <1>2 DEF Databases
<1>4. /\ \A i \in DOMAIN db.entries : db.entries[i] \in EntryRow
      /\ \A f \in DOMAIN db.feeds : db.feeds[f] \in FeedRow
      /\ \A c \in DOMAIN db.categories : db.categories[c] \in CatRow
  BY <1>3, TableFacts
<1>. QED  BY <1>1, <1>2, <1>4

-----------------------------------------------------------------------------
(* Start-up.                                                               *)

LEMMA GooseUpFits == ASSUME IInv, GooseUp PROVE IInv'
<1>1. Sound(db) /\ StartedInv /\ Bounds /\ phase \in {"old", "starting"}
  BY DEF IInv, GooseUp
<1>2. db' = [db EXCEPT !.migrated = TRUE]
  BY DEF GooseUp
<1>3. db \in Databases
  BY <1>1 DEF Sound
<1>4. /\ db' \in Databases /\ db'.migrated = TRUE /\ db'.feeds = db.feeds
      /\ db'.entries = db.entries /\ db'.fts = db.fts /\ db'.serial = db.serial
      /\ db'.corrupt = db.corrupt /\ db'.feedSeq = db.feedSeq
      /\ db'.categories = db.categories /\ db'.tombstones = db.tombstones
      /\ db'.trigger = db.trigger /\ db'.flag = db.flag
  BY <1>2, <1>3 DEF Databases
<1>5. Sound(db')
  BY <1>1, <1>4 DEF Sound, Refs, Numbered, Index, AllIndexed, AllFilled
<1>6. \A i \in DOMAIN db.entries : i \in Nat \ {0}
  <2>1. db.entries \in Tables(EntryRow)
    BY <1>3 DEF Databases
  <2>. QED  BY <2>1, TableFacts
<1>7. phase' = (IF db.flag THEN "open" ELSE "backfill") /\ lastID' = 0
      /\ crashes' \in {0, crashes} /\ UNCHANGED <<deleting, ops>>
  BY DEF GooseUp, Starting
<1>8. StartedInv'
  <2>1. \A i \in DOMAIN db'.entries : ~(i <= lastID')
    BY <1>4, <1>6, <1>7
  <2>2. CASE db.flag
    BY <1>4, <1>7, <2>2 DEF StartedInv
  <2>3. CASE ~db.flag
    BY <1>4, <1>7, <2>1, <2>3 DEF StartedInv
  <2>. QED  BY <2>2, <2>3
<1>9. Bounds'
  BY <1>1, <1>7, SqliteStoreAssumption DEF Bounds, Phases
<1>. QED  BY <1>5, <1>8, <1>9 DEF IInv

LEMMA BackfillFits == ASSUME IInv, BackfillBatch PROVE IInv'
<1> DEFINE rows == {i \in Todo : Cardinality({j \in Todo : j < i}) < Batch}
<1>1. /\ Sound(db) /\ phase = "backfill" /\ db.migrated = TRUE /\ lastID \in Nat /\ Bounds
      /\ \A i \in DOMAIN db.entries : i <= lastID => Filled(db.entries[i])
  BY DEF IInv, BackfillBatch, StartedInv, Bounds
<1>2. db' = (CHOOSE g : Filling(g, rows))[rows]
  BY DEF BackfillBatch, FoldSet, MapThenFoldSet, Filling, FilledRow
<1>3. /\ lastID' = (IF rows = {} THEN lastID ELSE Max(rows))
      /\ phase' = (IF rows = {} THEN "rebuild" ELSE "backfill")
      /\ crashes' = crashes /\ UNCHANGED <<deleting, ops>>
  BY DEF BackfillBatch, Starting
<1>4. Todo \in SUBSET Nat /\ IsFiniteSet(Todo) /\ Todo \subseteq DOMAIN db.entries
      /\ DOMAIN db.entries \subseteq Nat
  <2>1. db.entries \in Tables(EntryRow)
    BY <1>1 DEF Sound, Databases
  <2>2. IsFiniteSet(DOMAIN db.entries) /\ DOMAIN db.entries \subseteq Nat
    BY <2>1, TableFacts
  <2>. QED  BY <2>2, FS_Subset DEF Todo
<1>5. /\ Sound(db') /\ SameSetup(db', db) /\ DOMAIN db'.entries = DOMAIN db.entries
      /\ \A i \in rows : Filled(db'.entries[i])
      /\ \A i \in DOMAIN db.entries : Filled(db.entries[i]) => Filled(db'.entries[i])
  <2>1. rows \in SUBSET DOMAIN db.entries
    BY <1>4
  <2> HIDE DEF rows
  <2>. QED  BY <1>1, <1>2, <2>1, FillingFits
<1>6. rows = {} => AllFilled(db')
  <2> SUFFICES ASSUME rows = {} PROVE Todo = {}
    BY <1>1, <1>4, <1>5 DEF AllFilled, Todo
  <2> SUFFICES ASSUME Todo # {} PROVE FALSE
    OBVIOUS
  <2>1. PICK m \in Todo : \A x \in Todo : m <= x
    BY <1>4, LeastNat
  <2>2. {j \in Todo : j < m} = {}
    <3>1. m \in Nat /\ \A j \in Todo : j \in Nat
      BY <1>4
    <3>2. \A j \in Todo : ~(j < m)
      BY <2>1, <3>1
    <3>. QED  BY <3>2
  <2>3. Cardinality({j \in Todo : j < m}) < Batch
    BY <2>2, FS_EmptySet, SqliteStoreAssumption
  <2>. QED  BY <2>1, <2>3
<1>7. rows # {} => /\ Max(rows) \in Nat
                   /\ \A i \in DOMAIN db.entries : i <= Max(rows) => Filled(db'.entries[i])
  <2> SUFFICES ASSUME rows # {}
               PROVE  /\ Max(rows) \in Nat
                      /\ \A i \in DOMAIN db.entries : i <= Max(rows) => Filled(db'.entries[i])
    OBVIOUS
  <2> DEFINE m == Max(rows)
  <2>1. m \in rows
    <3>1. rows \subseteq Todo /\ Todo \subseteq Int
      BY <1>4
    <3> HIDE DEF rows
    <3>2. IsFiniteSet(rows) /\ rows \subseteq Int
      BY <1>4, <3>1, FS_Subset
    <3>. QED  BY <3>2, MaxFits
  <2>2. m \in Todo /\ m \in Nat /\ Cardinality({j \in Todo : j < m}) < Batch
    BY <1>4, <2>1
  <2> HIDE DEF m
  <2>3. ASSUME NEW i \in Todo, i <= m PROVE i \in rows
    <3> DEFINE A == {j \in Todo : j < i}
               B == {j \in Todo : j < m}
    <3>1. A \subseteq B /\ B \subseteq Todo
      <4>1. i \in Nat /\ m \in Nat /\ \A j \in Todo : j \in Nat
        BY <1>4, <2>2
      <4>2. \A j \in Todo : j < i => j < m
        BY <2>3, <4>1
      <4>. QED  BY <4>2
    <3>2. IsFiniteSet(B)
      BY <1>4, <3>1, FS_Subset
    <3>3. Cardinality(A) <= Cardinality(B) /\ Cardinality(A) \in Nat /\ Cardinality(B) \in Nat
      BY <3>1, <3>2, FS_Subset, FS_CardinalityType
    <3>4. Cardinality(A) < Batch
      BY <2>2, <3>3, SqliteStoreAssumption
    <3>. QED  BY <3>4
  <2>4. ASSUME NEW i \in DOMAIN db.entries, i <= m PROVE Filled(db'.entries[i])
    <3>1. CASE i <= lastID
      BY <1>1, <1>5, <3>1
    <3>2. CASE ~(i <= lastID)
      <4>1. i \in Todo
        BY <1>1, <1>4, <3>2 DEF Todo
      <4>. QED  BY <1>5, <2>3, <2>4, <4>1
    <3>. QED  BY <3>1, <3>2
  <2>. QED  BY <2>2, <2>4 DEF m
<1> HIDE DEF rows
<1>8. StartedInv'
  BY <1>1, <1>3, <1>5, <1>6, <1>7 DEF StartedInv, SameSetup
<1>9. Bounds'
  BY <1>1, <1>3, <1>7 DEF Bounds, Phases
<1>. QED  BY <1>5, <1>8, <1>9 DEF IInv

LEMMA RebuildFits == ASSUME IInv, Rebuild PROVE IInv'
<1> DEFINE F == [i \in DOMAIN db.entries |-> Doc(db.entries[i])]
<1>1. /\ Sound(db) /\ db \in Databases /\ phase = "rebuild" /\ db.migrated = TRUE /\ Bounds
      /\ AllFilled(db)
  BY DEF IInv, Rebuild, StartedInv, Sound
<1>2. F \in Tables(DocRow)
  <2>1. db.entries \in Tables(EntryRow)
    BY <1>1 DEF Databases
  <2>2. DOMAIN db.entries \in Rowids /\ \A i \in DOMAIN db.entries : db.entries[i] \in EntryRow
    BY <2>1, TableFacts
  <2>3. F \in [DOMAIN db.entries -> DocRow]
    BY <2>2, DocFits
  <2>. QED  BY <2>2, <2>3, TableIntro
<1>3. db' = [db EXCEPT !.fts = F, !.corrupt = FALSE]
  BY DEF Rebuild
<1>4. DOMAIN F = DOMAIN db.entries /\ \A i \in DOMAIN db.entries : F[i] = Doc(db.entries[i])
  OBVIOUS
<1> HIDE DEF F
<1>5. /\ db' \in Databases /\ db'.feeds = db.feeds /\ db'.entries = db.entries
      /\ db'.fts = F /\ db'.serial = db.serial /\ ~db'.corrupt
      /\ db'.feedSeq = db.feedSeq /\ db'.categories = db.categories
      /\ db'.tombstones = db.tombstones /\ SameSetup(db', db)
  BY <1>1, <1>2, <1>3 DEF Databases, SameSetup
<1>6. AllIndexed(db') /\ AllFilled(db')
  BY <1>1, <1>4, <1>5 DEF AllIndexed, AllFilled
<1>7. Sound(db')
  BY <1>1, <1>5, <1>6 DEF Sound, Refs, Numbered, Index, SameSetup
<1>8. phase' = "trigger" /\ UNCHANGED <<deleting, ops, lastID, crashes>>
  BY DEF Rebuild, Starting
<1>9. StartedInv'
  BY <1>1, <1>5, <1>6, <1>8 DEF StartedInv, SameSetup
<1>10. Bounds'
  BY <1>1, <1>8 DEF Bounds, Phases
<1>. QED  BY <1>7, <1>9, <1>10 DEF IInv

LEMMA CreateTriggerFits == ASSUME IInv, CreateTrigger PROVE IInv'
<1>1. /\ Sound(db) /\ db \in Databases /\ phase = "trigger" /\ db.migrated = TRUE /\ Bounds
      /\ AllFilled(db) /\ AllIndexed(db)
  BY DEF IInv, CreateTrigger, StartedInv, Sound
<1>2. db' = [db EXCEPT !.trigger = TRUE]
  BY DEF CreateTrigger
<1>3. /\ db' \in Databases /\ db'.feeds = db.feeds /\ db'.entries = db.entries
      /\ db'.fts = db.fts /\ db'.serial = db.serial /\ db'.corrupt = db.corrupt
      /\ db'.feedSeq = db.feedSeq /\ db'.categories = db.categories
      /\ db'.tombstones = db.tombstones /\ db'.trigger /\ db'.migrated = db.migrated
      /\ db'.flag = db.flag
  BY <1>1, <1>2 DEF Databases
<1>4. AllIndexed(db') /\ AllFilled(db')
  BY <1>1, <1>3 DEF AllIndexed, AllFilled
<1>5. Sound(db')
  BY <1>1, <1>3, <1>4 DEF Sound, Refs, Numbered, Index
<1>6. phase' = "flag" /\ UNCHANGED <<deleting, ops, lastID, crashes>>
  BY DEF CreateTrigger, Starting
<1>7. StartedInv'
  BY <1>1, <1>3, <1>4, <1>6 DEF StartedInv
<1>8. Bounds'
  BY <1>1, <1>6 DEF Bounds, Phases
<1>. QED  BY <1>5, <1>7, <1>8 DEF IInv

LEMMA SetFlagFits == ASSUME IInv, SetFlag PROVE IInv'
<1>1. /\ Sound(db) /\ db \in Databases /\ phase = "flag" /\ db.migrated = TRUE /\ Bounds
      /\ AllFilled(db) /\ AllIndexed(db) /\ db.trigger
  BY DEF IInv, SetFlag, StartedInv, Sound
<1>2. db' = [db EXCEPT !.flag = TRUE]
  BY DEF SetFlag
<1>3. /\ db' \in Databases /\ db'.feeds = db.feeds /\ db'.entries = db.entries
      /\ db'.fts = db.fts /\ db'.serial = db.serial /\ db'.corrupt = db.corrupt
      /\ db'.feedSeq = db.feedSeq /\ db'.categories = db.categories
      /\ db'.tombstones = db.tombstones /\ db'.trigger = db.trigger
      /\ db'.migrated = db.migrated /\ db'.flag
  BY <1>1, <1>2 DEF Databases
<1>4. AllIndexed(db') /\ AllFilled(db')
  BY <1>1, <1>3 DEF AllIndexed, AllFilled
<1>5. Sound(db')
  BY <1>1, <1>3, <1>4 DEF Sound, Refs, Numbered, Index
<1>6. phase' = "open" /\ crashes' = 0 /\ UNCHANGED <<deleting, ops, lastID>>
  BY DEF SetFlag, Starting
<1>7. StartedInv'
  BY <1>1, <1>3, <1>4, <1>6 DEF StartedInv
<1>8. Bounds'
  BY <1>1, <1>6, SqliteStoreAssumption DEF Bounds, Phases
<1>. QED  BY <1>5, <1>7, <1>8 DEF IInv

LEMMA CrashFits == ASSUME IInv, Crash PROVE IInv'
<1>1. /\ phase # "old" /\ phase' = "starting" /\ UNCHANGED <<db, lastID, ops>>
      /\ crashes < MaxCrashes /\ crashes' = crashes + 1
      /\ deleting' = [d \in Deleters |-> NoDelete]
  BY DEF Crash
<1>2. Sound(db') /\ StartedInv'
  BY <1>1 DEF IInv, StartedInv
<1>3. Bounds'
  BY <1>1, SqliteStoreAssumption DEF IInv, Bounds, Phases
<1>. QED  BY <1>2, <1>3 DEF IInv

-----------------------------------------------------------------------------
(* What an older version left.                                             *)

\* The rows of an old version: no index, no trigger and no flag yet.
LEMMA OldFits ==
    ASSUME IInv, phase = "old", Sound(db'), SameSetup(db', db),
           UNCHANGED <<deleting, ops, startup>>
    PROVE  IInv'
<1>1. StartedInv'
  BY DEF IInv, StartedInv, SameSetup, startup
<1>2. Bounds'
  BY DEF IInv, Bounds, startup
<1>. QED  BY <1>1, <1>2 DEF IInv

LEMMA OldFeedFits ==
    ASSUME IInv, NEW u \in Urls, NEW full \in BOOLEAN, OldFeed(u, full)
    PROVE  IInv'
<1> DEFINE r == [mid |-> 1, url |-> u, etag |-> FALSE, next |-> Now, cat |-> None,
                 full |-> full, name |-> FALSE]
           F == Put(db.feeds, 1, r)
<1>1. Sound(db) /\ db \in Databases /\ Refs(db) /\ phase = "old" /\ db.feeds = <<>>
  BY DEF IInv, Sound, OldFeed
<1>2. r \in FeedRow /\ r.cat = None
  BY NowFits DEF FeedRow, None
<1> HIDE DEF r
<1>3. db.feeds \in Tables(FeedRow) /\ DOMAIN db.feeds = {}
  BY <1>1, EmptyTable
<1>4. F \in Tables(FeedRow)
  BY <1>2, <1>3, PutFits
<1>5. DOMAIN F = {1} /\ F[1] = r
  BY <1>3 DEF Put
<1>6. db' = [db EXCEPT !.feeds = F, !.feedSeq = 2, !.serial = 2]
  BY DEF OldFeed, r
<1> HIDE DEF F
<1>7. /\ db' \in Databases /\ SameSetup(db', db) /\ db'.feeds = F
      /\ db'.entries = db.entries /\ db'.fts = db.fts /\ db'.serial = 2
      /\ db'.corrupt = db.corrupt /\ db'.feedSeq = 2
      /\ db'.categories = db.categories /\ db'.tombstones = db.tombstones
  <2>1. 2 \in Nat \ {0}
    OBVIOUS
  <2>2. /\ db' \in Databases /\ db'.feeds = F
        /\ db'.entries = db.entries /\ db'.fts = db.fts /\ db'.serial = 2
        /\ db'.corrupt = db.corrupt /\ db'.feedSeq = 2
        /\ db'.categories = db.categories /\ db'.tombstones = db.tombstones
    BY <1>1, <1>4, <1>6, <2>1 DEF Databases
  <2>3. SameSetup(db', db)
    BY <1>1, <1>6 DEF Databases, SameSetup
  <2>. QED  BY <2>2, <2>3
<1>8. DOMAIN db.entries = {} /\ db.tombstones = {}
  BY <1>1, <1>3 DEF Refs
<1>9. Refs(db') /\ Numbered(db')
  BY <1>2, <1>5, <1>7, <1>8 DEF Refs, Numbered
<1>10. Index(db')
  BY <1>1, <1>7 DEF Sound, Index, AllIndexed, AllFilled, SameSetup
<1>11. UNCHANGED <<deleting, ops, startup>>
  BY DEF OldFeed
<1>. QED  BY <1>1, <1>7, <1>9, <1>10, <1>11, OldFits DEF Sound

LEMMA OldEntriesFits ==
    ASSUME IInv, NEW b \in Batches, OldEntries(b)
    PROVE  IInv'
<1>1. /\ phase = "old" /\ db' = Upserted(1, b, Now) /\ UNCHANGED <<deleting, ops, startup>>
  BY DEF OldEntries
<1>2. Sound(db) /\ ~db.migrated
  BY <1>1 DEF IInv, StartedInv
<1>3. Sound(db') /\ SameSetup(db', db)
  BY <1>1, <1>2, NowFits, UpsertedFits
<1>. QED  BY <1>1, <1>3, OldFits

-----------------------------------------------------------------------------
(* The calls.                                                              *)

LEMMA CreateFeedFits ==
    ASSUME IInv, NEW u \in Urls, NEW c \in Categories, NEW full \in BOOLEAN,
           CreateFeed(u, c, full, Now)
    PROVE  IInv'
<1> DEFINE taken == \E f \in DOMAIN db.feeds : db.feeds[f].url = u
           row == [mid |-> db.serial, url |-> u, etag |-> FALSE, next |-> Now, cat |-> c,
                   full |-> full, name |-> FALSE]
           new == [db EXCEPT !.feeds = Put(@, db.feedSeq, row),
                             !.feedSeq = db.feedSeq + 1, !.serial = @ + 1]
           d == IF taken THEN db ELSE new
<1>1. phase = "open"
  BY DEF CreateFeed, Call
<1>2. Sound(db) /\ db \in Databases /\ SameSetup(db, db)
  BY <1>1, OpenFacts
<1>3. c \in DOMAIN db.categories \cup {None} /\ c \in Nat /\ db.serial \in Nat
  <2>1. db.categories \in Tables(CatRow) /\ db.serial \in Nat
    BY <1>2 DEF Databases
  <2>. QED  BY <2>1, TableFacts DEF Categories, None
<1>4. row \in FeedRow /\ row.cat = c
  BY <1>3, NowFits DEF FeedRow
<1> HIDE DEF row
<1>5. Sound(new) /\ SameSetup(new, db)
  BY <1>2, <1>3, <1>4, NewFeedFits
<1>6. PICK call : Call(d, call)
  BY DEF CreateFeed, NextFeedId, row
<1> HIDE DEF new
<1>7. Sound(d) /\ SameSetup(d, db)
  BY <1>2, <1>5
<1> HIDE DEF d
<1>. QED  BY <1>6, <1>7, CallFits

\* A feed's row rewritten in place, or no row.
LEMMA FeedCallFits ==
    ASSUME IInv, phase = "open", NEW f, NEW r,
           f \in DOMAIN db.feeds =>
               r \in FeedRow /\ r.cat \in DOMAIN db.categories \cup {None},
           NEW d, d = (IF f \in DOMAIN db.feeds THEN [db EXCEPT !.feeds[f] = r] ELSE db)
    PROVE  /\ Sound(d) /\ SameSetup(d, db) /\ d.entries = db.entries
<1>1. Sound(db) /\ SameSetup(db, db)
  BY OpenFacts
<1>2. CASE f \in DOMAIN db.feeds
  BY <1>1, <1>2, FeedRowFits
<1>3. CASE f \notin DOMAIN db.feeds
  BY <1>1, <1>3
<1>. QED  BY <1>2, <1>3

LEMMA UpdateFeedFits ==
    ASSUME IInv, NEW f, NEW u \in Urls, NEW etag \in BOOLEAN, NEW next \in Times,
           UpdateFeed(f, u, etag, next)
    PROVE  IInv'
<1> DEFINE o == db.feeds[f]
           r == IF o.url = u THEN [o EXCEPT !.etag = etag, !.next = next] ELSE o
           d == IF f \in DOMAIN db.feeds THEN [db EXCEPT !.feeds[f] = r] ELSE db
<1>1. phase = "open"
  BY DEF UpdateFeed, Call
<1>2. f \in DOMAIN db.feeds => o \in FeedRow /\ o.cat \in DOMAIN db.categories \cup {None}
  BY <1>1, OpenFacts DEF Refs
<1>3. f \in DOMAIN db.feeds => r \in FeedRow /\ r.cat \in DOMAIN db.categories \cup {None}
  <2> HIDE DEF o
  <2>. QED  BY <1>2 DEF FeedRow
<1>4. PICK call : Call(d, call)
  BY DEF UpdateFeed, UpdateFeedRow
<1> HIDE DEF r
<1>5. Sound(d) /\ SameSetup(d, db)
  BY <1>1, <1>3, FeedCallFits
<1> HIDE DEF d
<1>. QED  BY <1>4, <1>5, CallFits

LEMMA SetFeedURLFits ==
    ASSUME IInv, NEW f, NEW u \in Urls, NEW now \in Times, SetFeedURL(f, u, now)
    PROVE  IInv'
<1> DEFINE conflict == /\ f \in DOMAIN db.feeds
                       /\ \E g \in DOMAIN db.feeds \ {f} : db.feeds[g].url = u
           o == db.feeds[f]
           r == [o EXCEPT !.url = u, !.etag = FALSE, !.next = now]
           w == IF f \in DOMAIN db.feeds THEN [db EXCEPT !.feeds[f] = r] ELSE db
           d == IF conflict THEN db ELSE w
<1>1. phase = "open"
  BY DEF SetFeedURL, Call
<1>2. f \in DOMAIN db.feeds => o \in FeedRow /\ o.cat \in DOMAIN db.categories \cup {None}
  BY <1>1, OpenFacts DEF Refs
<1>3. f \in DOMAIN db.feeds => r \in FeedRow /\ r.cat \in DOMAIN db.categories \cup {None}
  <2> HIDE DEF o
  <2>. QED  BY <1>2 DEF FeedRow
<1>4. PICK call : Call(d, call)
  BY DEF SetFeedURL, UpdateFeedRow
<1> HIDE DEF r
<1>5. Sound(w) /\ SameSetup(w, db)
  BY <1>1, <1>3, FeedCallFits
<1> HIDE DEF w
<1>6. Sound(d) /\ SameSetup(d, db)
  BY <1>1, <1>5, OpenFacts
<1> HIDE DEF d
<1>. QED  BY <1>4, <1>6, CallFits

LEMMA SetFeedUserTitleFits ==
    ASSUME IInv, NEW f, NEW set \in BOOLEAN, SetFeedUserTitle(f, set)
    PROVE  IInv'
<1> DEFINE o == db.feeds[f]
           r == [o EXCEPT !.name = set]
           d == IF f \in DOMAIN db.feeds THEN [db EXCEPT !.feeds[f] = r] ELSE db
<1>1. phase = "open"
  BY DEF SetFeedUserTitle, Call
<1>2. f \in DOMAIN db.feeds => o \in FeedRow /\ o.cat \in DOMAIN db.categories \cup {None}
  BY <1>1, OpenFacts DEF Refs
<1>3. f \in DOMAIN db.feeds => r \in FeedRow /\ r.cat \in DOMAIN db.categories \cup {None}
  <2> HIDE DEF o
  <2>. QED  BY <1>2 DEF FeedRow
<1>4. PICK call : Call(d, call)
  BY DEF SetFeedUserTitle, UpdateFeedRow
<1> HIDE DEF r
<1>5. Sound(d) /\ SameSetup(d, db)
  BY <1>1, <1>3, FeedCallFits
<1> HIDE DEF d
<1>. QED  BY <1>4, <1>5, CallFits

LEMMA SetFeedCategoryFits ==
    ASSUME IInv, NEW f, NEW c \in Categories, SetFeedCategory(f, c)
    PROVE  IInv'
<1> DEFINE o == db.feeds[f]
           r == [o EXCEPT !.cat = c]
           d == IF f \in DOMAIN db.feeds THEN [db EXCEPT !.feeds[f] = r] ELSE db
<1>1. phase = "open"
  BY DEF SetFeedCategory, Call
<1>2. f \in DOMAIN db.feeds => o \in FeedRow
  BY <1>1, OpenFacts
<1>3. c \in DOMAIN db.categories \cup {None} /\ c \in Nat
  <2>1. db.categories \in Tables(CatRow)
    BY <1>1, OpenFacts DEF Databases
  <2>. QED  BY <2>1, TableFacts DEF Categories, None
<1>4. f \in DOMAIN db.feeds => r \in FeedRow /\ r.cat \in DOMAIN db.categories \cup {None}
  <2> HIDE DEF o
  <2>. QED  BY <1>2, <1>3 DEF FeedRow
<1>5. PICK call : Call(d, call)
  BY DEF SetFeedCategory, UpdateFeedRow
<1> HIDE DEF r
<1>6. Sound(d) /\ SameSetup(d, db)
  BY <1>1, <1>4, FeedCallFits
<1> HIDE DEF d
<1>. QED  BY <1>5, <1>6, CallFits

LEMMA DeleteFeedFits == ASSUME IInv, NEW f, DeleteFeed(f) PROVE IInv'
<1> DEFINE S == {i \in DOMAIN db.entries : db.entries[i].feed = f}
           e == DeleteRows(db, S)
           d == [e EXCEPT !.feeds = Restrict(@, DOMAIN @ \ {f}),
                          !.tombstones = {t \in @ : t[1] # f}]
<1>1. phase = "open"
  BY DEF DeleteFeed, Call
<1>2. Sound(db) /\ db.trigger /\ db.migrated
  BY <1>1, OpenFacts
<1>3. PICK call : Call(d, call)
  BY DEF DeleteFeed
<1>4. /\ Sound(e) /\ SameSetup(e, db) /\ DOMAIN e.entries = DOMAIN db.entries \ S
      /\ \A i \in DOMAIN db.entries \ S : e.entries[i] = db.entries[i]
  <2>1. S \in SUBSET DOMAIN db.entries
    OBVIOUS
  <2> HIDE DEF S
  <2>2. Sound(e) /\ SameSetup(e, db)
    BY <1>2, <2>1, DeleteFits
  <2>3. e.entries = Restrict(db.entries, DOMAIN db.entries \ S)
    BY <1>2 DEF DeleteRows, Sound, Databases
  <2>. QED  BY <2>2, <2>3 DEF Restrict
<1>5. \A i \in DOMAIN e.entries : e.entries[i].feed # f
  BY <1>4
<1> HIDE DEF e
<1>6. Sound(d) /\ SameSetup(d, e)
  BY <1>4, <1>5, DropFeedFits
<1>7. SameSetup(d, db)
  <2> HIDE DEF d
  <2>. QED  BY <1>4, <1>6 DEF SameSetup
<1> HIDE DEF d
<1>. QED  BY <1>3, <1>6, <1>7, CallFits

LEMMA UpsertEntriesFits ==
    ASSUME IInv, NEW f, NEW b \in Batches, UpsertEntries(f, b, Later)
    PROVE  IInv'
<1> DEFINE d == Upserted(f, b, Later)
<1>1. phase = "open"
  BY DEF UpsertEntries, Call
<1>2. PICK call : Call(d, call)
  BY DEF UpsertEntries
<1>3. Sound(d) /\ SameSetup(d, db)
  BY <1>1, OpenFacts, NowFits, UpsertedFits
<1> HIDE DEF d
<1>. QED  BY <1>2, <1>3, CallFits

-----------------------------------------------------------------------------
(* The calls that change columns the index does not cover.                 *)

LEMMA SetStatusFits ==
    ASSUME IInv, NEW A, NEW status \in {"read", "unread"}, NEW at \in Times,
           SetStatus(A, status, at)
    PROVE  IInv'
<1> DEFINE t == db.entries
           S == A
           E == [i \in DOMAIN t |-> IF i \in S THEN [t[i] EXCEPT !.status = status,
                         !.readAt = IF status = "read" THEN at ELSE NoTime] ELSE t[i]]
           d == [db EXCEPT !.entries = E]
<1>1. phase = "open"
  BY DEF SetStatus, Call
<1>2. Sound(db) /\ \A i \in DOMAIN t : t[i] \in EntryRow
  BY <1>1, OpenFacts
<1>3. PICK call : Call(d, call)
  BY DEF SetStatus, UpdateRows
<1> HIDE DEF t, S
<1>4. \A i \in DOMAIN t : E[i] \in EntryRow /\ SameText(E[i], t[i])
  <2> SUFFICES ASSUME NEW i \in DOMAIN t
               PROVE  E[i] \in EntryRow /\ SameText(E[i], t[i])
    OBVIOUS
  <2> DEFINE e == t[i]
             n == [e EXCEPT !.status = status,
                            !.readAt = IF status = "read" THEN at ELSE NoTime]
  <2>1. e \in EntryRow /\ E[i] = (IF i \in S THEN n ELSE e)
    BY <1>2
  <2> HIDE DEF e, E
  <2>2. n \in EntryRow /\ SameText(n, e) /\ SameText(e, e)
    BY <2>1 DEF EntryRow, SameText
  <2>. QED  BY <2>1, <2>2 DEF e
<1>5. E \in [DOMAIN t -> EntryRow]
  BY <1>4
<1> HIDE DEF E
<1>6. Sound(d) /\ SameSetup(d, db)
  BY <1>2, <1>4, <1>5, OtherColumnsFit DEF t
<1> HIDE DEF d
<1>. QED  BY <1>3, <1>6, CallFits

LEMMA SetStarredFits ==
    ASSUME IInv, NEW A, NEW on \in BOOLEAN, SetStarred(A, on)
    PROVE  IInv'
<1> DEFINE t == db.entries
           S == A
           E == [i \in DOMAIN t |-> IF i \in S THEN [t[i] EXCEPT !.starred = on] ELSE t[i]]
           d == [db EXCEPT !.entries = E]
<1>1. phase = "open"
  BY DEF SetStarred, Call
<1>2. Sound(db) /\ \A i \in DOMAIN t : t[i] \in EntryRow
  BY <1>1, OpenFacts
<1>3. PICK call : Call(d, call)
  BY DEF SetStarred, UpdateRows
<1> HIDE DEF t, S
<1>4. \A i \in DOMAIN t : E[i] \in EntryRow /\ SameText(E[i], t[i])
  BY <1>2 DEF EntryRow, SameText
<1>5. E \in [DOMAIN t -> EntryRow]
  BY <1>4
<1> HIDE DEF E
<1>6. Sound(d) /\ SameSetup(d, db)
  BY <1>2, <1>4, <1>5, OtherColumnsFit DEF t
<1> HIDE DEF d
<1>. QED  BY <1>3, <1>6, CallFits

LEMMA MarkReadFits ==
    ASSUME IInv, NEW sel, MarkReadByFilter(sel, Now)
    PROVE  IInv'
<1> DEFINE t == db.entries
           S == {i \in DOMAIN t : t[i].status = "unread" /\ t[i].feed \in FeedsOf(sel)}
           E == [i \in DOMAIN t |-> IF i \in S THEN [t[i] EXCEPT !.status = "read",
                         !.readAt = Now] ELSE t[i]]
           d == [db EXCEPT !.entries = E]
<1>1. phase = "open"
  BY DEF MarkReadByFilter, Call
<1>2. Sound(db) /\ \A i \in DOMAIN t : t[i] \in EntryRow
  BY <1>1, OpenFacts
<1>3. PICK call : Call(d, call)
  BY DEF MarkReadByFilter, UpdateRows
<1> HIDE DEF t, S
<1>4. \A i \in DOMAIN t : E[i] \in EntryRow /\ SameText(E[i], t[i])
  BY <1>2, NowFits DEF EntryRow, SameText
<1>5. E \in [DOMAIN t -> EntryRow]
  BY <1>4
<1> HIDE DEF E
<1>6. Sound(d) /\ SameSetup(d, db)
  BY <1>2, <1>4, <1>5, OtherColumnsFit DEF t
<1> HIDE DEF d
<1>. QED  BY <1>3, <1>6, CallFits

LEMMA UpdateExtractFits ==
    ASSUME IInv, NEW k, NEW ext \in {"pending", "failed"}, NEW m \in 0..MaxAttempts,
           NEW next \in Times \cup {NoTime}, UpdateExtractState(k, ext, m, next)
    PROVE  IInv'
<1> DEFINE t == db.entries
           S == {k}
           E == [i \in DOMAIN t |-> IF i \in S THEN [t[i] EXCEPT !.ext = ext,
                         !.attempts = m, !.next = next, !.reason = TRUE] ELSE t[i]]
           d == [db EXCEPT !.entries = E]
<1>1. phase = "open"
  BY DEF UpdateExtractState, Call
<1>2. Sound(db) /\ \A i \in DOMAIN t : t[i] \in EntryRow
  BY <1>1, OpenFacts
<1>3. PICK call : Call(d, call)
  BY DEF UpdateExtractState, UpdateRows
<1> HIDE DEF t, S
<1>4. \A i \in DOMAIN t : E[i] \in EntryRow /\ SameText(E[i], t[i])
  <2> SUFFICES ASSUME NEW i \in DOMAIN t
               PROVE  E[i] \in EntryRow /\ SameText(E[i], t[i])
    OBVIOUS
  <2> DEFINE e == t[i]
             n == [e EXCEPT !.ext = ext, !.attempts = m, !.next = next, !.reason = TRUE]
  <2>1. e \in EntryRow /\ E[i] = (IF i \in S THEN n ELSE e)
    BY <1>2
  <2> HIDE DEF e, E
  <2>2. n \in EntryRow /\ SameText(n, e) /\ SameText(e, e)
    BY <2>1 DEF EntryRow, SameText
  <2>. QED  BY <2>1, <2>2 DEF e
<1>5. E \in [DOMAIN t -> EntryRow]
  BY <1>4
<1> HIDE DEF E
<1>6. Sound(d) /\ SameSetup(d, db)
  BY <1>2, <1>4, <1>5, OtherColumnsFit DEF t
<1> HIDE DEF d
<1>. QED  BY <1>3, <1>6, CallFits

LEMMA SetFeedFullContentFits ==
    ASSUME IInv, NEW f, NEW on \in BOOLEAN, SetFeedFullContent(f, on, Now)
    PROVE  IInv'
<1> DEFINE t == db.entries
           of == {i \in DOMAIN t : t[i].feed = f}
           P == {i \in of : t[i].ext \in {"none", "failed"}}
           C == {i \in of : t[i].ext \in {"pending", "failed"}}
           Q == [i \in DOMAIN t |-> IF i \in P
                     THEN [t[i] EXCEPT !.ext = "pending", !.next = Now, !.attempts = 0,
                                       !.reason = FALSE] ELSE t[i]]
           N == [i \in DOMAIN t |-> IF i \in C
                     THEN [t[i] EXCEPT !.ext = "none", !.next = NoTime, !.reason = FALSE]
                     ELSE t[i]]
           o == db.feeds[f]
           r == [o EXCEPT !.full = on]
           w == [db EXCEPT !.feeds[f] = r]
           d == IF f \notin DOMAIN db.feeds THEN db
                ELSE IF on THEN [w EXCEPT !.entries = Q] ELSE [w EXCEPT !.entries = N]
<1>1. phase = "open"
  BY DEF SetFeedFullContent, Call
<1>2. Sound(db) /\ SameSetup(db, db) /\ \A i \in DOMAIN t : t[i] \in EntryRow
  BY <1>1, OpenFacts
<1>3. f \in DOMAIN db.feeds => o \in FeedRow /\ o.cat \in DOMAIN db.categories \cup {None}
  BY <1>1, OpenFacts DEF Refs
<1>4. f \in DOMAIN db.feeds => r \in FeedRow /\ r.cat \in DOMAIN db.categories \cup {None}
  <2> HIDE DEF o
  <2>. QED  BY <1>3 DEF FeedRow
<1>5. f \in DOMAIN db.feeds => w.entries = t
  BY <1>2 DEF Sound, Databases
<1>6. PICK call : Call(d, call)
  <2>1. CASE f \notin DOMAIN db.feeds
    BY <2>1 DEF SetFeedFullContent
  <2>2. CASE f \in DOMAIN db.feeds
    BY <1>5, <2>2 DEF SetFeedFullContent, UpdateFeedRow, UpdateRows
  <2>. QED  BY <2>1, <2>2
<1> HIDE DEF t, P, C
<1>7. \A i \in DOMAIN t : /\ Q[i] \in EntryRow /\ SameText(Q[i], t[i])
                         /\ N[i] \in EntryRow /\ SameText(N[i], t[i])
  <2> SUFFICES ASSUME NEW i \in DOMAIN t
               PROVE  /\ Q[i] \in EntryRow /\ SameText(Q[i], t[i])
                      /\ N[i] \in EntryRow /\ SameText(N[i], t[i])
    OBVIOUS
  <2> DEFINE e == t[i]
             q == [e EXCEPT !.ext = "pending", !.next = Now, !.attempts = 0,
                            !.reason = FALSE]
             n == [e EXCEPT !.ext = "none", !.next = NoTime, !.reason = FALSE]
  <2>1. /\ e \in EntryRow /\ Q[i] = (IF i \in P THEN q ELSE e)
        /\ N[i] = (IF i \in C THEN n ELSE e)
    BY <1>2
  <2> HIDE DEF e, Q, N
  <2>2. 0 \in 0..MaxAttempts /\ Now \in Times
    BY NowFits, SqliteStoreAssumption
  <2>3. q \in EntryRow /\ SameText(q, e) /\ SameText(e, e)
    BY <2>1, <2>2 DEF EntryRow, SameText
  <2>4. n \in EntryRow /\ SameText(n, e)
    BY <2>1 DEF EntryRow, SameText
  <2>. QED  BY <2>1, <2>3, <2>4 DEF e
<1>8. Q \in [DOMAIN t -> EntryRow] /\ N \in [DOMAIN t -> EntryRow]
  BY <1>7
<1> HIDE DEF Q, N, r
<1>9. CASE f \in DOMAIN db.feeds
  <2>1. Sound(w) /\ SameSetup(w, db) /\ w.entries = t
    BY <1>2, <1>4, <1>5, <1>9, FeedRowFits
  <2> HIDE DEF w
  <2>2. Sound([w EXCEPT !.entries = Q]) /\ SameSetup([w EXCEPT !.entries = Q], w)
    BY <1>7, <1>8, <2>1, OtherColumnsFit
  <2>3. Sound([w EXCEPT !.entries = N]) /\ SameSetup([w EXCEPT !.entries = N], w)
    BY <1>7, <1>8, <2>1, OtherColumnsFit
  <2>4. Sound(d) /\ SameSetup(d, w)
    BY <1>9, <2>2, <2>3
  <2> HIDE DEF d
  <2>5. SameSetup(d, db)
    BY <2>1, <2>4 DEF SameSetup
  <2>. QED  BY <1>6, <2>4, <2>5, CallFits
<1>10. CASE f \notin DOMAIN db.feeds
  <2>1. d = db
    BY <1>10
  <2> HIDE DEF d
  <2>. QED  BY <1>2, <1>6, <2>1, CallFits
<1>. QED  BY <1>9, <1>10

-----------------------------------------------------------------------------
(* The article, and the deletion of an entry.                              *)

LEMMA SetEntryContentFits == ASSUME IInv, NEW i, SetEntryContent(i) PROVE IInv'
<1> DEFINE o == db.entries[i]
           e == [o EXCEPT !.content = Article, !.ctext = PlainText(Article),
                          !.ext = "done", !.next = NoTime, !.reason = FALSE]
           d == IF o.ext = "pending" THEN UpdateText(db, i, e) ELSE db
<1>1. phase = "open" /\ i \in DOMAIN db.entries
  BY DEF SetEntryContent, Call
<1>2. Sound(db) /\ SameSetup(db, db) /\ o \in EntryRow /\ Filled(o) /\ db.migrated
  BY <1>1, OpenFacts DEF AllFilled
<1>3. PICK call : Call(d, call)
  BY DEF SetEntryContent
<1>4. PlainText(Article) = BodyText[Article] /\ BodyText[Article] \in SUBSET Words
  BY <1>2, SqliteStoreAssumption DEF PlainText
<1>5. e \in EntryRow /\ e.feed = o.feed /\ e.mid = o.mid /\ Filled(e)
  <2> HIDE DEF o
  <2>. QED  BY <1>2, <1>4 DEF EntryRow, Filled
<1> HIDE DEF e
<1>6. Sound(UpdateText(db, i, e)) /\ SameSetup(UpdateText(db, i, e), db)
  BY <1>1, <1>2, <1>5, UpdateTextFits
<1>7. Sound(d) /\ SameSetup(d, db)
  BY <1>2, <1>6
<1> HIDE DEF d
<1>. QED  BY <1>3, <1>7, CallFits

LEMMA DeleteEntryReadFits ==
    ASSUME IInv, NEW c \in Deleters, NEW i, DeleteEntryRead(c, i)
    PROVE  IInv'
<1> DEFINE o == db.entries[i]
           r == [id |-> i, feed |-> o.feed, hash |-> o.hash, mid |-> o.mid]
<1>1. phase = "open" /\ UNCHANGED <<db, ops, startup>>
  BY DEF DeleteEntryRead
<1>2. /\ deleting \in [Deleters -> {NoDelete} \cup DeleteRead] /\ ops' \in 0..MaxOps
  BY <1>1 DEF IInv, Bounds
<1>3. i \in DOMAIN db.entries => r \in DeleteRead
  <2> SUFFICES ASSUME i \in DOMAIN db.entries PROVE r \in DeleteRead
    OBVIOUS
  <2>1. o \in EntryRow /\ db.entries \in Tables(EntryRow)
    BY <1>1, OpenFacts DEF Databases
  <2>2. i \in Nat
    BY <2>1, TableFacts
  <2> HIDE DEF o
  <2>. QED  BY <2>1, <2>2 DEF EntryRow, DeleteRead
<1>4. \/ i \in DOMAIN db.entries /\ deleting' = [deleting EXCEPT ![c] = r]
      \/ deleting' = deleting
  BY DEF DeleteEntryRead
<1> HIDE DEF r
<1>5. deleting' \in [Deleters -> {NoDelete} \cup DeleteRead]
  BY <1>2, <1>3, <1>4
<1>6. Sound(db') /\ SameSetup(db', db)
  BY <1>1, OpenFacts
<1>. QED  BY <1>1, <1>2, <1>5, <1>6, OpenFits

LEMMA DeleteEntryTxFits ==
    ASSUME IInv, NEW c \in Deleters, DeleteEntryTx(c)
    PROVE  IInv'
<1> DEFINE r == deleting[c]
           g == InsertTombstone(db, r.feed, r.hash)
           ok == r.feed \in DOMAIN db.feeds /\ r.id \in DOMAIN db.entries
<1>1. /\ phase = "open" /\ r # NoDelete /\ UNCHANGED <<ops, startup>>
      /\ deleting' = [deleting EXCEPT ![c] = NoDelete]
      /\ db' = IF ok THEN DeleteRows(g, {r.id}) ELSE db
  BY DEF DeleteEntryTx
<1>2. deleting \in [Deleters -> {NoDelete} \cup DeleteRead] /\ ops' \in 0..MaxOps
  BY <1>1 DEF IInv, Bounds
<1>3. r \in DeleteRead /\ r.hash \in Versions
  BY <1>1, <1>2 DEF DeleteRead
<1>4. deleting' \in [Deleters -> {NoDelete} \cup DeleteRead]
  BY <1>1, <1>2
<1>5. Sound(db) /\ db.trigger /\ db.migrated /\ SameSetup(db, db)
  BY <1>1, OpenFacts
<1> HIDE DEF r
<1>6. Sound(db') /\ SameSetup(db', db)
  <2>1. CASE ~ok
    BY <1>1, <1>5, <2>1
  <2>2. CASE ok
    <3>1. Sound(g) /\ SameSetup(g, db) /\ g.entries = db.entries
      BY <1>3, <1>5, <2>2, TombstoneFits
    <3> HIDE DEF g
    <3>2. g.trigger /\ g.migrated /\ {r.id} \in SUBSET DOMAIN g.entries
      BY <1>5, <2>2, <3>1 DEF SameSetup
    <3>3. Sound(DeleteRows(g, {r.id})) /\ SameSetup(DeleteRows(g, {r.id}), g)
      BY <3>1, <3>2, DeleteFits
    <3>. QED  BY <1>1, <2>2, <3>1, <3>3 DEF SameSetup
  <2>. QED  BY <2>1, <2>2
<1>. QED  BY <1>1, <1>2, <1>4, <1>6, OpenFits

-----------------------------------------------------------------------------
(* The calls on categories.                                                *)

LEMMA CreateCategoryFits ==
    ASSUME IInv, NEW t \in Titles, CreateCategory(t)
    PROVE  IInv'
<1> DEFINE k == NextRowid(db.categories)
           row == [mid |-> db.serial, title |-> t]
           C == Put(db.categories, k, row)
           new == [db EXCEPT !.categories = C, !.serial = db.serial + 1]
           d == IF TitleTaken(t, DOMAIN db.categories) THEN db ELSE new
<1>1. phase = "open"
  BY DEF CreateCategory, Call
<1>2. Sound(db) /\ SameSetup(db, db)
  BY <1>1, OpenFacts
<1>3. db.categories \in Tables(CatRow) /\ db.serial \in Nat \ {0}
  BY <1>2 DEF Sound, Databases
<1>4. PICK call : Call(d, call)
  BY DEF CreateCategory
<1>5. row \in CatRow /\ k \in Nat \ {0}
  BY <1>3, NextRowidFits DEF CatRow
<1> HIDE DEF row, k
<1>6. C \in Tables(CatRow)
  BY <1>3, <1>5, PutFits
<1>7. DOMAIN db.categories \subseteq DOMAIN C
  BY DEF Put
<1> HIDE DEF C
<1>8. db.serial + 1 \in Nat \ {0} /\ db.serial + 1 >= db.serial
  BY <1>3
<1>9. Sound(new) /\ SameSetup(new, db)
  BY <1>2, <1>6, <1>7, <1>8, CategoriesFit
<1> HIDE DEF new
<1>10. Sound(d) /\ SameSetup(d, db)
  BY <1>2, <1>9
<1> HIDE DEF d
<1>. QED  BY <1>4, <1>10, CallFits

LEMMA UpdateCategoryFits ==
    ASSUME IInv, NEW c, NEW t \in Titles, UpdateCategory(c, t)
    PROVE  IInv'
<1> DEFINE T == db.categories
           o == T[c]
           C == [T EXCEPT ![c] = [o EXCEPT !.title = t]]
           new == [db EXCEPT !.categories = C, !.serial = db.serial]
<1>1. phase = "open"
  BY DEF UpdateCategory, Call
<1>2. Sound(db) /\ SameSetup(db, db) /\ db \in Databases
  BY <1>1, OpenFacts
<1>3. T \in Tables(CatRow) /\ db.serial \in Nat \ {0}
  BY <1>2 DEF Databases
<1>4. PICK call : \/ Call(db, call)
                  \/ c \in DOMAIN T /\ Call([db EXCEPT !.categories[c].title = t], call)
  BY DEF UpdateCategory
<1>5. [db EXCEPT !.categories[c].title = t] = new
  BY <1>2 DEF Databases
<1>6. /\ DOMAIN T \in Rowids /\ T = [k \in DOMAIN T |-> T[k]]
      /\ \A k \in DOMAIN T : T[k] \in CatRow
  BY <1>3, TableFacts
<1>7. CASE c \in DOMAIN T
  <2>1. o \in CatRow
    BY <1>6, <1>7
  <2> HIDE DEF o
  <2>2. [o EXCEPT !.title = t] \in CatRow
    BY <2>1 DEF CatRow
  <2>3. C \in [DOMAIN T -> CatRow]
    <3> HIDE DEF T
    <3>. QED  BY <1>6, <1>7, <2>2
  <2> HIDE DEF C
  <2>4. C \in Tables(CatRow) /\ DOMAIN T \subseteq DOMAIN C
    BY <1>6, <2>3, TableIntro
  <2>5. db.serial >= db.serial
    BY <1>3
  <2>6. Sound(new) /\ SameSetup(new, db)
    BY <1>2, <1>3, <2>4, <2>5, CategoriesFit
  <2> HIDE DEF new
  <2>. QED  BY <1>2, <1>4, <1>5, <2>6, CallFits
<1>8. CASE c \notin DOMAIN T
  BY <1>2, <1>4, <1>8, CallFits
<1>. QED  BY <1>7, <1>8

LEMMA DeleteCategoryFits == ASSUME IInv, NEW c, DeleteCategory(c) PROVE IInv'
<1> DEFINE d == [db EXCEPT !.categories = Restrict(@, DOMAIN @ \ {c}),
                           !.feeds = [f \in DOMAIN @ |-> IF @[f].cat = c
                                        THEN [@[f] EXCEPT !.cat = None] ELSE @[f]]]
<1>1. phase = "open"
  BY DEF DeleteCategory, Call
<1>2. Sound(db)
  BY <1>1, OpenFacts
<1>3. PICK call : Call(d, call)
  BY DEF DeleteCategory
<1>4. Sound(d) /\ SameSetup(d, db)
  BY <1>2, DropCategoryFits
<1> HIDE DEF d
<1>. QED  BY <1>3, <1>4, CallFits

-----------------------------------------------------------------------------
(* The theorems.                                                           *)

LEMMA StartStepFits == ASSUME IInv, StartStep PROVE IInv'
  BY GooseUpFits, BackfillFits, RebuildFits, CreateTriggerFits, SetFlagFits DEF StartStep

LEMMA FeedCallsFit ==
    ASSUME IInv,
           \/ \E u \in Urls, c \in Categories, full \in BOOLEAN : CreateFeed(u, c, full, Now)
           \/ \E f \in FeedIds, u \in Urls : UpdateFeed(f, u, TRUE, Later)
           \/ \E f \in FeedIds, u \in Urls : SetFeedURL(f, u, Now)
           \/ \E f \in FeedIds, on \in BOOLEAN : SetFeedUserTitle(f, on)
           \/ \E f \in FeedIds, c \in Categories : SetFeedCategory(f, c)
           \/ \E f \in FeedIds, on \in BOOLEAN : SetFeedFullContent(f, on, Now)
           \/ \E f \in FeedIds : DeleteFeed(f)
           \/ \E f \in FeedIds, b \in Batches : UpsertEntries(f, b, Later)
    PROVE  IInv'
  BY NowFits, CreateFeedFits, UpdateFeedFits, SetFeedURLFits, SetFeedUserTitleFits,
     SetFeedCategoryFits, SetFeedFullContentFits, DeleteFeedFits, UpsertEntriesFits

LEMMA EntryCallsFit ==
    ASSUME IInv,
           \/ \E S \in IdLists, at \in Times : SetStatus(S, "read", at)
           \/ \E S \in IdLists : SetStatus(S, "unread", Now)
           \/ \E S \in IdLists, on \in BOOLEAN : SetStarred(S, on)
           \/ \E sel \in Selections : MarkReadByFilter(sel, Now)
           \/ \E d \in Deleters, i \in EntryIds : DeleteEntryRead(d, i)
           \/ \E d \in Deleters : DeleteEntryTx(d)
           \/ \E i \in EntryIds : SetEntryContent(i)
           \/ \E i \in EntryIds, n \in 0..MaxAttempts : UpdateExtractState(i, "pending", n, Later)
           \/ \E i \in EntryIds, n \in 1..MaxAttempts : UpdateExtractState(i, "failed", n, NoTime)
    PROVE  IInv'
<1>1. /\ Now \in Times /\ Later \in Times \cup {NoTime} /\ NoTime \in Times \cup {NoTime}
      /\ \A n \in 1..MaxAttempts : n \in 0..MaxAttempts
  BY NowFits, SqliteStoreAssumption
<1>2. ASSUME NEW S, NEW at \in Times, SetStatus(S, "read", at) PROVE IInv'
  BY <1>2, SetStatusFits
<1>3. ASSUME NEW S, SetStatus(S, "unread", Now) PROVE IInv'
  BY <1>1, <1>3, SetStatusFits
<1>4. ASSUME NEW i, NEW n \in 0..MaxAttempts, UpdateExtractState(i, "pending", n, Later)
      PROVE  IInv'
  BY <1>1, <1>4, UpdateExtractFits
<1>5. ASSUME NEW i, NEW n \in 1..MaxAttempts, UpdateExtractState(i, "failed", n, NoTime)
      PROVE  IInv'
  BY <1>1, <1>5, UpdateExtractFits
<1>. QED  BY <1>2, <1>3, <1>4, <1>5, SetStarredFits, MarkReadFits, DeleteEntryReadFits,
             DeleteEntryTxFits, SetEntryContentFits

LEMMA OtherStepsFit ==
    ASSUME IInv,
           \/ Crash
           \/ \E full \in BOOLEAN : OldFeed(CHOOSE u \in Urls : TRUE, full)
           \/ \E b \in Batches : OldEntries(b)
           \/ \E t \in Titles : CreateCategory(t)
           \/ \E c \in CatIds, t \in Titles : UpdateCategory(c, t)
           \/ \E c \in CatIds : DeleteCategory(c)
    PROVE  IInv'
<1>1. (CHOOSE u \in Urls : TRUE) \in Urls
  BY SqliteStoreAssumption
<1>. QED  BY <1>1, CrashFits, OldFeedFits, OldEntriesFits, CreateCategoryFits,
             UpdateCategoryFits, DeleteCategoryFits

\* IInv holds of every database an installation can reach, from one left by a
\* version without the text columns, through any crashes of its start-up.
THEOREM Invariance == Spec => []IInv
<1>1. Init => IInv
  BY InitFits
<1>2. IInv /\ [Next]_vars => IInv'
  <2> SUFFICES ASSUME IInv, [Next]_vars PROVE IInv'
    OBVIOUS
  <2>1. CASE Next
    BY <2>1, StartStepFits, FeedCallsFit, EntryCallsFit, OtherStepsFit DEF Next
  <2>2. CASE UNCHANGED vars
    BY <2>2 DEF vars, IInv, StartedInv, Bounds
  <2>. QED  BY <2>1, <2>2
<1>. QED  BY <1>1, <1>2, PTL DEF Spec

LEMMA TypeImplied == IInv => TypeOK
<1> SUFFICES ASSUME IInv PROVE TypeOK
  OBVIOUS
<1>1. db \in Databases /\ Refs(db) /\ Bounds
  BY DEF IInv, Sound
<1>2. db.entries \in Tables(EntryRow)
  BY <1>1 DEF Databases
<1>3. \A i \in DOMAIN db.entries : db.entries[i] \in EntryRow
  BY <1>2, TableFacts
<1>4. \A i \in DOMAIN db.entries : db.entries[i] \in Row
  <2> SUFFICES ASSUME NEW i \in DOMAIN db.entries PROVE db.entries[i] \in Row
    OBVIOUS
  <2> DEFINE e == db.entries[i]
  <2>1. e \in EntryRow /\ e.feed \in DOMAIN db.feeds
    BY <1>1, <1>3 DEF Refs
  <2> HIDE DEF e
  <2>2. e \in Row
    BY <2>1 DEF EntryRow, Row
  <2>. QED  BY <2>2 DEF e
<1>. QED  BY <1>1, <1>4 DEF TypeOK, Refs, Categories, Bounds, Phases

\* Every row is well formed and every reference leads to a row, whatever the calls
\* and the crashes, for any number of rows.
THEOREM TypeCorrect == Spec => []TypeOK
  BY Invariance, TypeImplied, PTL

LEMMA SearchImplied == IInv => SearchComplete
<1> SUFFICES ASSUME IInv PROVE SearchComplete
  OBVIOUS
<1>1. Sound(db) /\ ~db.corrupt
  BY DEF IInv, Sound, Index
<1>2. ASSUME phase = "open", NEW w \in Words
      PROVE  Mids(Search({w})) = Mem!Search({w})
  <2> DEFINE t == db.entries
             words(i) == TitleText[t[i].hash] \cup BodyText[t[i].content]
                             \cup SummaryText[t[i].hash]
             hits == {i \in DOMAIN t : w \in words(i)}
  <2>1. AllIndexed(db) /\ AllFilled(db) /\ Numbered(db)
    BY <1>1, <1>2, OpenFacts DEF Sound, Index
  <2>2. Search({w}) = hits
    <3>1. \A i \in DOMAIN t : db.fts[i].title \cup db.fts[i].content \cup db.fts[i].summary
                                  = words(i)
      <4> SUFFICES ASSUME NEW i \in DOMAIN t
                   PROVE  db.fts[i].title \cup db.fts[i].content \cup db.fts[i].summary
                              = words(i)
        OBVIOUS
      <4>1. db.fts[i] = Doc(t[i]) /\ Filled(t[i])
        BY <2>1 DEF AllIndexed, AllFilled
      <4>2. /\ db.fts[i].title = TitleText[t[i].hash]
            /\ db.fts[i].content = BodyText[t[i].content]
            /\ db.fts[i].summary = SummaryText[t[i].hash]
        BY <4>1 DEF Doc, Filled
      <4>. QED  BY <4>2
    <3>. QED  BY <2>1, <3>1 DEF Search, Rows, AllIndexed
  <2>3. Mids(Search({w})) = {t[i].mid : i \in hits}
    BY <2>2 DEF Mids, MidEntry, Mid
  <2>4. \A i \in DOMAIN t : (CHOOSE j \in DOMAIN t : t[j].mid = t[i].mid) = i
    BY <2>1 DEF Numbered
  <2>5. Mem!Search({w}) = {t[i].mid : i \in hits}
    <3> DEFINE Ms == {t[i].mid : i \in DOMAIN t}
               M == [m \in Ms |-> MemEntry(t[CHOOSE i \in DOMAIN t : t[i].mid = m])]
    <3>1. Mem!Search({w}) =
              {m \in Ms : w \in TitleText[M[m].hash] \cup SummaryText[M[m].hash]
                                    \cup BodyText[M[m].content]}
      BY DEF Mem!Search, Renumbered
    <3>2. \A i \in DOMAIN t : M[t[i].mid] = MemEntry(t[i])
      BY <2>4
    <3>3. \A i \in DOMAIN t : M[t[i].mid].hash = t[i].hash /\ M[t[i].mid].content = t[i].content
      <4>1. \A i \in DOMAIN t : MemEntry(t[i]).hash = t[i].hash
                               /\ MemEntry(t[i]).content = t[i].content
        BY DEF MemEntry
      <4> HIDE DEF M
      <4>. QED  BY <3>2, <4>1
    <3> DEFINE has(m) == w \in TitleText[M[m].hash] \cup SummaryText[M[m].hash]
                                    \cup BodyText[M[m].content]
    <3>4. \A i \in DOMAIN t : has(t[i].mid) <=> i \in hits
      <4> HIDE DEF M
      <4>. QED  BY <3>3
    <3> HIDE DEF has, hits
    <3>5. {m \in Ms : has(m)} = {t[i].mid : i \in hits}
      <4>1. hits \subseteq DOMAIN t
        BY DEF hits
      <4>. QED  BY <3>4, <4>1
    <3>. QED  BY <3>1, <3>5 DEF has
  <2>. QED  BY <2>3, <2>5
<1>. QED  BY <1>1, <1>2 DEF SearchComplete

\* The index is never given a 'delete' of values it does not hold, and a search of
\* an open store finds exactly the entries whose visible text has the word, for
\* every batch size and however often start-up was interrupted.
THEOREM Searches == Spec => []SearchComplete
  BY Invariance, SearchImplied, PTL

-----------------------------------------------------------------------------
(* The rows as MemStore numbers them.                                      *)

\* The numbers tell the rows of a table apart, and n is not given yet.
Named(t, n) ==
    /\ \A i \in DOMAIN t : t[i].mid \in 1..n - 1
    /\ \A i, j \in DOMAIN t : t[i].mid = t[j].mid => i = j

\* The numbers of the rows S.
MidsOf(t, S) == {t[i].mid : i \in S}

\* The table t under MemStore's numbers, row i shown as r[i].
Renum(t, r) ==
    [m \in MidsOf(t, DOMAIN t) |-> r[CHOOSE i \in DOMAIN t : t[i].mid = m]]

\* A feed's and a category's number, as MidFeed and MidCat give them for db.
FeedNo(d, f) == IF f \in DOMAIN d.feeds THEN d.feeds[f].mid ELSE d.serial
CatNo(d, c) ==
    IF c = None THEN None
    ELSE IF c \in DOMAIN d.categories THEN d.categories[c].mid ELSE d.serial

\* A row as MemStore has it.
FeedView(d, r) ==
    [url |-> r.url, etag |-> r.etag, next |-> r.next, cat |-> CatNo(d, r.cat),
     full |-> r.full, name |-> r.name]
EntryView(d, e) ==
    [feed |-> FeedNo(d, e.feed), hash |-> e.hash, content |-> e.content,
     status |-> e.status, starred |-> e.starred, readAt |-> e.readAt, ext |-> e.ext,
     attempts |-> e.attempts, next |-> e.next, reason |-> e.reason,
     created |-> e.created]

\* The tables of the refinement mapping, for any database.
FeedRows(d) == [f \in DOMAIN d.feeds |-> FeedView(d, d.feeds[f])]
EntryRows(d) == [i \in DOMAIN d.entries |-> EntryView(d, d.entries[i])]
CatRows(d) == [c \in DOMAIN d.categories |-> d.categories[c].title]

MFeeds(d) == Renum(d.feeds, FeedRows(d))
MEntries(d) == Renum(d.entries, EntryRows(d))
MCats(d) == Renum(d.categories, CatRows(d))
MTombs(d) == {<<FeedNo(d, t[1]), t[2]>> : t \in d.tombstones}

LEMMA FunctionsEqual ==
    ASSUME NEW f, NEW g, f = [x \in DOMAIN f |-> f[x]], g = [x \in DOMAIN g |-> g[x]],
           DOMAIN f = DOMAIN g, \A x \in DOMAIN f : f[x] = g[x]
    PROVE  f = g
<1>1. [x \in DOMAIN f |-> f[x]] = [x \in DOMAIN g |-> g[x]]
  OBVIOUS
<1>. QED  BY <1>1

LEMMA RenumFacts ==
    ASSUME NEW t, NEW n, Named(t, n), NEW r
    PROVE  /\ Renum(t, r) = [m \in DOMAIN Renum(t, r) |-> Renum(t, r)[m]]
           /\ DOMAIN Renum(t, r) = MidsOf(t, DOMAIN t)
           /\ \A i \in DOMAIN t : t[i].mid \in DOMAIN Renum(t, r)
           /\ \A i \in DOMAIN t : Renum(t, r)[t[i].mid] = r[i]
<1>1. \A i \in DOMAIN t : (CHOOSE j \in DOMAIN t : t[j].mid = t[i].mid) = i
  BY DEF Named
<1>2. /\ Renum(t, r) = [m \in DOMAIN Renum(t, r) |-> Renum(t, r)[m]]
      /\ DOMAIN Renum(t, r) = MidsOf(t, DOMAIN t)
  BY DEF Renum
<1>3. \A i \in DOMAIN t : t[i].mid \in MidsOf(t, DOMAIN t)
  BY DEF MidsOf
<1>4. \A i \in DOMAIN t : Renum(t, r)[t[i].mid] = r[i]
  BY <1>1, <1>3 DEF Renum
<1>. QED  BY <1>2, <1>3, <1>4

LEMMA RenumIs ==
    ASSUME NEW t, NEW n, Named(t, n), NEW r, NEW M, M = [m \in DOMAIN M |-> M[m]],
           DOMAIN M = MidsOf(t, DOMAIN t), \A i \in DOMAIN t : M[t[i].mid] = r[i]
    PROVE  Renum(t, r) = M
<1> DEFINE R == Renum(t, r)
<1>1. /\ R = [m \in DOMAIN R |-> R[m]] /\ DOMAIN R = MidsOf(t, DOMAIN t)
      /\ \A i \in DOMAIN t : R[t[i].mid] = r[i]
  BY RenumFacts
<1> HIDE DEF R
<1>2. \A m \in DOMAIN R : R[m] = M[m]
  BY <1>1 DEF MidsOf
<1>. QED  BY <1>1, <1>2, FunctionsEqual DEF R

\* A table with the same rows under the same numbers is shown the same.
SameMids(t, u) == DOMAIN u = DOMAIN t /\ \A i \in DOMAIN t : u[i].mid = t[i].mid

LEMMA SameMidsFacts ==
    ASSUME NEW t, NEW u, SameMids(t, u)
    PROVE  /\ MidsOf(u, DOMAIN u) = MidsOf(t, DOMAIN t)
           /\ \A n : Named(t, n) => Named(u, n)
  BY DEF SameMids, MidsOf, Named

LEMMA RenumSame ==
    ASSUME NEW t, NEW n, Named(t, n), NEW r, NEW u, SameMids(t, u), NEW s,
           \A i \in DOMAIN t : s[i] = r[i]
    PROVE  Renum(u, s) = Renum(t, r)
<1> DEFINE M == Renum(t, r)
<1>1. /\ M = [m \in DOMAIN M |-> M[m]] /\ DOMAIN M = MidsOf(t, DOMAIN t)
      /\ \A i \in DOMAIN t : M[t[i].mid] = r[i]
  BY RenumFacts
<1>2. Named(u, n) /\ MidsOf(u, DOMAIN u) = MidsOf(t, DOMAIN t)
  BY SameMidsFacts
<1> HIDE DEF M
<1>3. DOMAIN M = MidsOf(u, DOMAIN u) /\ \A i \in DOMAIN u : M[u[i].mid] = s[i]
  BY <1>1, <1>2 DEF SameMids
<1>. QED  BY <1>1, <1>2, <1>3, RenumIs DEF M

\* One row shown otherwise.
LEMMA RenumUpdate ==
    ASSUME NEW t, NEW n, Named(t, n), NEW r, NEW u, SameMids(t, u), NEW s,
           NEW i \in DOMAIN t, \A j \in DOMAIN t : j # i => s[j] = r[j], NEW v, v = s[i]
    PROVE  Renum(u, s) = [Renum(t, r) EXCEPT ![t[i].mid] = v]
<1> DEFINE M == Renum(t, r)
           X == [M EXCEPT ![t[i].mid] = v]
<1>1. /\ M = [m \in DOMAIN M |-> M[m]] /\ DOMAIN M = MidsOf(t, DOMAIN t)
      /\ \A j \in DOMAIN t : t[j].mid \in DOMAIN M
      /\ \A j \in DOMAIN t : M[t[j].mid] = r[j]
  BY RenumFacts
<1>2. Named(u, n) /\ MidsOf(u, DOMAIN u) = MidsOf(t, DOMAIN t)
  BY SameMidsFacts
<1> HIDE DEF M
<1>3. X = [m \in DOMAIN X |-> X[m]] /\ DOMAIN X = DOMAIN M
  OBVIOUS
<1>4. \A j \in DOMAIN u : X[u[j].mid] = s[j]
  <2> SUFFICES ASSUME NEW j \in DOMAIN u PROVE X[u[j].mid] = s[j]
    OBVIOUS
  <2>1. j \in DOMAIN t /\ u[j].mid = t[j].mid /\ t[j].mid \in DOMAIN M
    BY <1>1 DEF SameMids
  <2>2. CASE j = i
    BY <2>1, <2>2
  <2>3. CASE j # i
    <3>1. t[j].mid # t[i].mid
      BY <2>1, <2>3 DEF Named
    <3>. QED  BY <1>1, <2>1, <2>3, <3>1
  <2>. QED  BY <2>2, <2>3
<1> HIDE DEF X
<1>5. Renum(u, s) = X
  BY <1>1, <1>2, <1>3, <1>4, RenumIs
<1>. QED  BY <1>5 DEF M, X

\* A new row, under the next number.
LEMMA RenumPut ==
    ASSUME NEW t, NEW n \in Nat \ {0}, Named(t, n), NEW r, NEW i, i \notin DOMAIN t,
           NEW row, row.mid = n, NEW u, u = Put(t, i, row), NEW s,
           \A j \in DOMAIN t : s[j] = r[j], NEW v, v = s[i]
    PROVE  Renum(u, s) = Put(Renum(t, r), n, v) /\ Named(u, n + 1)
<1> DEFINE M == Renum(t, r)
           X == Put(M, n, v)
<1>1. /\ M = [m \in DOMAIN M |-> M[m]] /\ DOMAIN M = MidsOf(t, DOMAIN t)
      /\ \A j \in DOMAIN t : t[j].mid \in DOMAIN M
      /\ \A j \in DOMAIN t : M[t[j].mid] = r[j]
  BY RenumFacts
<1>2. /\ DOMAIN u = DOMAIN t \cup {i} /\ u[i] = row
      /\ \A j \in DOMAIN t : u[j] = t[j]
  BY DEF Put
<1>3. \A j \in DOMAIN t : t[j].mid \in 1..n - 1 /\ t[j].mid # n
  BY DEF Named
<1>4. Named(u, n + 1)
  <2>1. \A j \in DOMAIN u : u[j].mid \in 1..n
    BY <1>2, <1>3
  <2>2. \A j, k \in DOMAIN u : u[j].mid = u[k].mid => j = k
    BY <1>2, <1>3 DEF Named
  <2>. QED  BY <2>1, <2>2 DEF Named
<1> HIDE DEF M
<1>5. /\ X = [m \in DOMAIN X |-> X[m]] /\ DOMAIN X = DOMAIN M \cup {n} /\ X[n] = v
      /\ \A m \in DOMAIN M : m # n => X[m] = M[m]
  BY DEF Put
<1> HIDE DEF X
<1>6. DOMAIN X = MidsOf(u, DOMAIN u)
  BY <1>1, <1>2, <1>5 DEF MidsOf
<1>7. \A j \in DOMAIN u : X[u[j].mid] = s[j]
  BY <1>1, <1>2, <1>3, <1>5
<1>8. Renum(u, s) = X
  BY <1>4, <1>5, <1>6, <1>7, RenumIs
<1>. QED  BY <1>4, <1>8 DEF M, X

\* Rows taken away.
LEMMA RenumRestrict ==
    ASSUME NEW t, NEW n, Named(t, n), NEW r, NEW K \in SUBSET DOMAIN t,
           NEW u, u = Restrict(t, K), NEW s, \A j \in K : s[j] = r[j],
           NEW L, L = MidsOf(t, K)
    PROVE  Renum(u, s) = Restrict(Renum(t, r), L) /\ Named(u, n)
<1> DEFINE M == Renum(t, r)
           X == Restrict(M, L)
<1>1. /\ M = [m \in DOMAIN M |-> M[m]] /\ DOMAIN M = MidsOf(t, DOMAIN t)
      /\ \A j \in DOMAIN t : t[j].mid \in DOMAIN M
      /\ \A j \in DOMAIN t : M[t[j].mid] = r[j]
  BY RenumFacts
<1>2. DOMAIN u = K /\ \A j \in K : u[j] = t[j]
  BY DEF Restrict
<1>3. Named(u, n)
  BY <1>2 DEF Named
<1> HIDE DEF M
<1>4. X = [m \in DOMAIN X |-> X[m]] /\ DOMAIN X = L /\ \A m \in L : X[m] = M[m]
  BY DEF Restrict
<1> HIDE DEF X
<1>5. DOMAIN X = MidsOf(u, DOMAIN u)
  BY <1>2, <1>4 DEF MidsOf
<1>6. \A j \in DOMAIN u : X[u[j].mid] = s[j]
  BY <1>1, <1>2, <1>4 DEF MidsOf
<1>7. Renum(u, s) = X
  BY <1>3, <1>4, <1>5, <1>6, RenumIs
<1>. QED  BY <1>3, <1>7 DEF M, X

\* Every row shown anew.
LEMMA RenumMap ==
    ASSUME NEW t, NEW n, Named(t, n), NEW r, NEW u, SameMids(t, u), NEW s,
           NEW X, X = [m \in DOMAIN X |-> X[m]], DOMAIN X = DOMAIN Renum(t, r),
           \A i \in DOMAIN t : X[t[i].mid] = s[i]
    PROVE  Renum(u, s) = X
<1>1. DOMAIN Renum(t, r) = MidsOf(t, DOMAIN t)
  BY RenumFacts
<1>2. Named(u, n) /\ MidsOf(u, DOMAIN u) = MidsOf(t, DOMAIN t)
  BY SameMidsFacts
<1>3. DOMAIN X = MidsOf(u, DOMAIN u) /\ \A i \in DOMAIN u : X[u[i].mid] = s[i]
  BY <1>1, <1>2 DEF SameMids
<1>. QED  BY <1>2, <1>3, RenumIs

-----------------------------------------------------------------------------
(* The refinement mapping in these terms, before and after a step.         *)

LEMMA ViewNow ==
    /\ Renumbered(db.feeds, MemFeed) = MFeeds(db)
    /\ Renumbered(db.entries, MemEntry) = MEntries(db)
    /\ Renumbered(db.categories, LAMBDA c : c.title) = MCats(db)
    /\ {<<MidFeed(t[1]), t[2]>> : t \in db.tombstones} = MTombs(db)
<1>1. Renumbered(db.feeds, MemFeed) = MFeeds(db)
  <2>1. \A i \in DOMAIN db.feeds : MemFeed(db.feeds[i]) = FeedView(db, db.feeds[i])
    BY DEF MemFeed, FeedView, MidCat, Mid, CatNo
  <2>2. \A m \in MidsOf(db.feeds, DOMAIN db.feeds) :
            (CHOOSE i \in DOMAIN db.feeds : db.feeds[i].mid = m) \in DOMAIN db.feeds
    BY DEF MidsOf
  <2>. QED  BY <2>1, <2>2 DEF Renumbered, MFeeds, FeedRows, Renum, MidsOf
<1>2. Renumbered(db.entries, MemEntry) = MEntries(db)
  <2>1. \A i \in DOMAIN db.entries : MemEntry(db.entries[i]) = EntryView(db, db.entries[i])
    BY DEF MemEntry, EntryView, MidFeed, Mid, FeedNo
  <2>2. \A m \in MidsOf(db.entries, DOMAIN db.entries) :
            (CHOOSE i \in DOMAIN db.entries : db.entries[i].mid = m) \in DOMAIN db.entries
    BY DEF MidsOf
  <2>. QED  BY <2>1, <2>2 DEF Renumbered, MEntries, EntryRows, Renum, MidsOf
<1>3. Renumbered(db.categories, LAMBDA c : c.title) = MCats(db)
  <2>1. \A m \in MidsOf(db.categories, DOMAIN db.categories) :
            (CHOOSE i \in DOMAIN db.categories : db.categories[i].mid = m)
                \in DOMAIN db.categories
    BY DEF MidsOf
  <2>. QED  BY <2>1 DEF Renumbered, MCats, CatRows, Renum, MidsOf
<1>4. {<<MidFeed(t[1]), t[2]>> : t \in db.tombstones} = MTombs(db)
  BY DEF MTombs, MidFeed, Mid, FeedNo
<1>. QED  BY <1>1, <1>2, <1>3, <1>4

LEMMA ViewNext ==
    /\ Renumbered(db.feeds, MemFeed)' = MFeeds(db')
    /\ Renumbered(db.entries, MemEntry)' = MEntries(db')
    /\ Renumbered(db.categories, LAMBDA c : c.title)' = MCats(db')
    /\ {<<MidFeed(t[1]), t[2]>> : t \in db.tombstones}' = MTombs(db')
<1>1. Renumbered(db.feeds, MemFeed)' = MFeeds(db')
  <2>1. \A i \in DOMAIN db'.feeds : MemFeed(db.feeds[i])' = FeedView(db', db'.feeds[i])
    BY DEF MemFeed, FeedView, MidCat, Mid, CatNo
  <2>2. \A m \in MidsOf(db'.feeds, DOMAIN db'.feeds) :
            (CHOOSE i \in DOMAIN db'.feeds : db'.feeds[i].mid = m) \in DOMAIN db'.feeds
    BY DEF MidsOf
  <2>. QED  BY <2>1, <2>2 DEF Renumbered, MFeeds, FeedRows, Renum, MidsOf
<1>2. Renumbered(db.entries, MemEntry)' = MEntries(db')
  <2>1. \A i \in DOMAIN db'.entries :
            MemEntry(db.entries[i])' = EntryView(db', db'.entries[i])
    BY DEF MemEntry, EntryView, MidFeed, Mid, FeedNo
  <2>2. \A m \in MidsOf(db'.entries, DOMAIN db'.entries) :
            (CHOOSE i \in DOMAIN db'.entries : db'.entries[i].mid = m) \in DOMAIN db'.entries
    BY DEF MidsOf
  <2>. QED  BY <2>1, <2>2 DEF Renumbered, MEntries, EntryRows, Renum, MidsOf
<1>3. Renumbered(db.categories, LAMBDA c : c.title)' = MCats(db')
  <2>1. \A m \in MidsOf(db'.categories, DOMAIN db'.categories) :
            (CHOOSE i \in DOMAIN db'.categories : db'.categories[i].mid = m)
                \in DOMAIN db'.categories
    BY DEF MidsOf
  <2>. QED  BY <2>1 DEF Renumbered, MCats, CatRows, Renum, MidsOf
<1>4. {<<MidFeed(t[1]), t[2]>> : t \in db.tombstones}' = MTombs(db')
  BY DEF MTombs, MidFeed, Mid, FeedNo
<1>. QED  BY <1>1, <1>2, <1>3, <1>4

-----------------------------------------------------------------------------
(* What the refinement needs to know of the tables besides Sound.          *)

SameItem(a, b) == a.feed = b.feed /\ GuidOf[a.hash] = GuidOf[b.hash]

\* One entry for an item of a feed; rowids in the order of creation; a queued
\* extraction has a time.
OneEach(d) == \A i, j \in DOMAIN d.entries : SameItem(d.entries[i], d.entries[j]) => i = j
InOrder(d) == \A i, j \in DOMAIN d.entries : i < j => d.entries[i].mid < d.entries[j].mid
Timed(e) == e.ext = "pending" => e.next # NoTime
AllTimed(d) == \A i \in DOMAIN d.entries : Timed(d.entries[i])

Distinct(d) ==
    /\ Named(d.feeds, d.serial) /\ Named(d.entries, d.serial) /\ Named(d.categories, d.serial)
    /\ OneEach(d) /\ InOrder(d) /\ AllTimed(d)

\* What a call may do to the entries: it keeps the identity of those it leaves,
\* removes only those of a feed it removes, and gives new rows new numbers.
SameRow(a, b) == a.mid = b.mid /\ SameItem(a, b)

Keeps(d, x) ==
    /\ d.serial <= x.serial /\ d.feedSeq <= x.feedSeq
    /\ \A f \in DOMAIN x.feeds : f \in DOMAIN d.feeds \/ f >= d.feedSeq
    /\ \A i \in DOMAIN x.entries :
           IF i \in DOMAIN d.entries THEN SameRow(x.entries[i], d.entries[i])
           ELSE x.entries[i].mid >= d.serial
    /\ \A i \in DOMAIN d.entries :
           d.entries[i].feed \in DOMAIN x.feeds => i \in DOMAIN x.entries

FeedNosKept(d, x) ==
    \A f \in DOMAIN d.feeds : f \in DOMAIN x.feeds /\ x.feeds[f].mid = d.feeds[f].mid
CatNosKept(d, x) ==
    \A c \in DOMAIN d.categories :
        c \in DOMAIN x.categories /\ x.categories[c].mid = d.categories[c].mid

LEMMA EntriesViewKept ==
    ASSUME NEW d, Refs(d), Distinct(d), NEW x, FeedNosKept(d, x),
           x.entries = d.entries
    PROVE  MEntries(x) = MEntries(d)
<1>1. Named(d.entries, d.serial) /\ SameMids(d.entries, x.entries)
  BY DEF Distinct, SameMids
<1>2. \A i \in DOMAIN d.entries : EntryView(x, x.entries[i]) = EntryView(d, d.entries[i])
  <2>1. \A i \in DOMAIN d.entries : FeedNo(x, x.entries[i].feed) = FeedNo(d, d.entries[i].feed)
    BY DEF Refs, FeedNosKept, FeedNo
  <2>. QED  BY <2>1 DEF EntryView
<1>3. \A i \in DOMAIN d.entries : EntryRows(x)[i] = EntryRows(d)[i]
  BY <1>2 DEF EntryRows
<1>. QED  BY <1>1, <1>3, RenumSame DEF MEntries

LEMMA TombsViewKept ==
    ASSUME NEW d, Refs(d), NEW x, FeedNosKept(d, x), x.tombstones = d.tombstones
    PROVE  MTombs(x) = MTombs(d)
<1>1. \A t \in d.tombstones : FeedNo(x, t[1]) = FeedNo(d, t[1])
  BY DEF Refs, FeedNosKept, FeedNo
<1>. QED  BY <1>1 DEF MTombs

LEMMA FeedsViewKept ==
    ASSUME NEW d, Refs(d), Distinct(d), NEW x, CatNosKept(d, x), x.feeds = d.feeds
    PROVE  MFeeds(x) = MFeeds(d)
<1>1. Named(d.feeds, d.serial) /\ SameMids(d.feeds, x.feeds)
  BY DEF Distinct, SameMids
<1>2. \A f \in DOMAIN d.feeds : FeedView(x, x.feeds[f]) = FeedView(d, d.feeds[f])
  <2>1. \A f \in DOMAIN d.feeds : CatNo(x, x.feeds[f].cat) = CatNo(d, d.feeds[f].cat)
    BY DEF Refs, CatNosKept, CatNo
  <2>. QED  BY <2>1 DEF FeedView
<1>3. \A f \in DOMAIN d.feeds : FeedRows(x)[f] = FeedRows(d)[f]
  BY <1>2 DEF FeedRows
<1>. QED  BY <1>1, <1>3, RenumSame DEF MFeeds

LEMMA CatsViewKept ==
    ASSUME NEW d, NEW x, x.categories = d.categories
    PROVE  MCats(x) = MCats(d) /\ CatNosKept(d, x)
  BY DEF MCats, CatRows, CatNosKept

\* The rows of the tables, seen through the numbers.
LEMMA FeedsShown ==
    ASSUME NEW d, Distinct(d), d.serial \in Nat
    PROVE  /\ DOMAIN MFeeds(d) = MidsOf(d.feeds, DOMAIN d.feeds)
           /\ \A f \in DOMAIN d.feeds :
                  /\ d.feeds[f].mid \in DOMAIN MFeeds(d) /\ FeedNo(d, f) = d.feeds[f].mid
                  /\ MFeeds(d)[d.feeds[f].mid] = FeedView(d, d.feeds[f])
           /\ \A f : FeedNo(d, f) \in DOMAIN MFeeds(d) <=> f \in DOMAIN d.feeds
           /\ \A f : FeedNo(d, f) \in DOMAIN MFeeds(d) \cup {d.serial}
<1>1. Named(d.feeds, d.serial)
  BY DEF Distinct
<1>2. /\ DOMAIN MFeeds(d) = MidsOf(d.feeds, DOMAIN d.feeds)
      /\ \A f \in DOMAIN d.feeds : d.feeds[f].mid \in DOMAIN MFeeds(d)
  BY <1>1, RenumFacts DEF MFeeds
<1>3. \A f \in DOMAIN d.feeds : MFeeds(d)[d.feeds[f].mid] = FeedRows(d)[f]
  BY <1>1, RenumFacts DEF MFeeds
<1>4. \A f \in DOMAIN d.feeds : FeedRows(d)[f] = FeedView(d, d.feeds[f])
  BY DEF FeedRows
<1>5. d.serial \notin DOMAIN MFeeds(d)
  BY <1>1, <1>2 DEF MidsOf, Named
<1>6. \A f : FeedNo(d, f) = IF f \in DOMAIN d.feeds THEN d.feeds[f].mid ELSE d.serial
  BY DEF FeedNo
<1>. QED  BY <1>2, <1>3, <1>4, <1>5, <1>6

LEMMA CatsShown ==
    ASSUME NEW d, Distinct(d), d.serial \in Nat
    PROVE  /\ DOMAIN MCats(d) = MidsOf(d.categories, DOMAIN d.categories)
           /\ \A c \in DOMAIN d.categories :
                  /\ d.categories[c].mid \in DOMAIN MCats(d)
                  /\ MCats(d)[d.categories[c].mid] = d.categories[c].title
           /\ None \notin DOMAIN MCats(d) /\ d.serial \notin DOMAIN MCats(d)
<1>1. Named(d.categories, d.serial)
  BY DEF Distinct
<1>2. /\ DOMAIN MCats(d) = MidsOf(d.categories, DOMAIN d.categories)
      /\ \A c \in DOMAIN d.categories : d.categories[c].mid \in DOMAIN MCats(d)
  BY <1>1, RenumFacts DEF MCats
<1>3. \A c \in DOMAIN d.categories : MCats(d)[d.categories[c].mid] = CatRows(d)[c]
  BY <1>1, RenumFacts DEF MCats
<1>4. \A c \in DOMAIN d.categories : CatRows(d)[c] = d.categories[c].title
  BY DEF CatRows
<1>5. None \notin DOMAIN MCats(d) /\ d.serial \notin DOMAIN MCats(d)
  BY <1>1, <1>2 DEF MidsOf, Named, None
<1>. QED  BY <1>2, <1>3, <1>4, <1>5

LEMMA EntriesShown ==
    ASSUME NEW d, Distinct(d), d.serial \in Nat
    PROVE  /\ DOMAIN MEntries(d) = MidsOf(d.entries, DOMAIN d.entries)
           /\ MEntries(d) = [m \in DOMAIN MEntries(d) |-> MEntries(d)[m]]
           /\ \A i \in DOMAIN d.entries : d.entries[i].mid \in DOMAIN MEntries(d)
           /\ \A i \in DOMAIN d.entries :
                  MEntries(d)[d.entries[i].mid] = EntryView(d, d.entries[i])
           /\ d.serial \notin DOMAIN MEntries(d)
<1>1. Named(d.entries, d.serial)
  BY DEF Distinct
<1>2. /\ DOMAIN MEntries(d) = MidsOf(d.entries, DOMAIN d.entries)
      /\ MEntries(d) = [m \in DOMAIN MEntries(d) |-> MEntries(d)[m]]
      /\ \A i \in DOMAIN d.entries : d.entries[i].mid \in DOMAIN MEntries(d)
  BY <1>1, RenumFacts DEF MEntries
<1>3. \A i \in DOMAIN d.entries : MEntries(d)[d.entries[i].mid] = EntryRows(d)[i]
  BY <1>1, RenumFacts DEF MEntries
<1>4. \A i \in DOMAIN d.entries : EntryRows(d)[i] = EntryView(d, d.entries[i])
  BY DEF EntryRows
<1>5. d.serial \notin DOMAIN MEntries(d)
  BY <1>1, <1>2 DEF MidsOf, Named
<1>. QED  BY <1>2, <1>3, <1>4, <1>5

LEMMA FeedsKeep ==
    ASSUME NEW d, Sound(d), Distinct(d), NEW x, SameMids(d.feeds, x.feeds),
           x.entries = d.entries, x.tombstones = d.tombstones,
           x.categories = d.categories, x.serial = d.serial, x.feedSeq = d.feedSeq
    PROVE  /\ Distinct(x) /\ Keeps(d, x) /\ MEntries(x) = MEntries(d)
           /\ MTombs(x) = MTombs(d) /\ MCats(x) = MCats(d) /\ CatNosKept(d, x)
<1>1. d \in Databases /\ Refs(d) /\ d.serial \in Nat /\ d.feedSeq \in Nat
  BY DEF Sound, Databases
<1>2. Distinct(x)
  BY SameMidsFacts DEF Distinct, OneEach, InOrder, AllTimed
<1>3. Keeps(d, x)
  BY <1>1 DEF Keeps, SameMids, SameRow, SameItem
<1>4. FeedNosKept(d, x)
  BY DEF FeedNosKept, SameMids
<1>. QED  BY <1>1, <1>2, <1>3, <1>4, EntriesViewKept, TombsViewKept, CatsViewKept

-----------------------------------------------------------------------------
(* The calls on feeds are MemStore's.                                      *)

\* What a call has to show.
Refined == Distinct(db') /\ Keeps(db, db') /\ Mem!Next

LEMMA CallAnswers ==
    ASSUME NEW d, NEW call, Call(d, call), call[1] # "DeleteEntry"
    PROVE  db' = d /\ MemAnswer' = call /\ answer' = call
  BY DEF Call, MemAnswer

LEMMA MidIsNo ==
    /\ \A f : MidFeed(f) = FeedNo(db, f)
    /\ \A c : MidCat(c) = CatNo(db, c)
  BY DEF MidFeed, MidCat, Mid, FeedNo, CatNo

LEMMA OpenView ==
    ASSUME IInv, Distinct(db), phase = "open"
    PROVE  /\ Sound(db) /\ Refs(db) /\ db.serial \in Nat \ {0} /\ db.feedSeq \in Nat
           /\ \A f : FeedNo(db, f) \in Mem!FeedIds
           /\ \A c \in Categories : CatNo(db, c) \in Mem!Categories
           /\ \A c \in CatIds : CatNo(db, c) \in Mem!CatIds
<1>1. Sound(db) /\ db \in Databases /\ Refs(db)
  BY OpenFacts
<1>2. db.serial \in Nat \ {0} /\ db.feedSeq \in Nat
  BY <1>1 DEF Databases
<1>3. \A f : FeedNo(db, f) \in DOMAIN MFeeds(db) \cup {db.serial}
  BY <1>2, FeedsShown
<1>4. \A c \in DOMAIN db.categories : db.categories[c].mid \in DOMAIN MCats(db)
  BY <1>2, CatsShown
<1>5. \A f : FeedNo(db, f) \in Mem!FeedIds
  BY <1>3, ViewNow DEF Mem!FeedIds
<1>6. \A c \in Categories : CatNo(db, c) \in DOMAIN MCats(db) \cup {None}
  BY <1>4 DEF Categories, CatNo
<1>7. \A c \in Categories : CatNo(db, c) \in Mem!Categories
  BY <1>6, ViewNow DEF Mem!Categories, Mem!None, None
<1>8. \A c \in CatIds : c # None
  BY DEF CatIds, None
<1>9. \A c \in CatIds : CatNo(db, c) \in DOMAIN MCats(db) \cup {db.serial}
  BY <1>4, <1>8 DEF CatNo
<1>10. \A c \in CatIds : CatNo(db, c) \in Mem!CatIds
  BY <1>9, ViewNow DEF Mem!CatIds
<1>. QED  BY <1>1, <1>2, <1>5, <1>7, <1>10

\* A feed's row rewritten in place.
LEMMA FeedRowShown ==
    ASSUME IInv, Distinct(db), phase = "open", NEW f, NEW r,
           f \in DOMAIN db.feeds => r.mid = db.feeds[f].mid,
           NEW d, d = (IF f \in DOMAIN db.feeds THEN [db EXCEPT !.feeds[f] = r] ELSE db)
    PROVE  /\ Distinct(d) /\ Keeps(db, d) /\ d.serial = db.serial
           /\ MEntries(d) = MEntries(db) /\ MTombs(d) = MTombs(db) /\ MCats(d) = MCats(db)
           /\ MFeeds(d) = IF f \in DOMAIN db.feeds
                          THEN [MFeeds(db) EXCEPT ![FeedNo(db, f)] = FeedView(db, r)]
                          ELSE MFeeds(db)
<1> DEFINE t == db.feeds
           F == [t EXCEPT ![f] = r]
           x == [db EXCEPT !.feeds = F]
<1>1. Sound(db) /\ db \in Databases /\ Refs(db) /\ db.serial \in Nat
  BY OpenView, OpenFacts
<1>2. CASE f \in DOMAIN db.feeds
  <2>1. d = x
    BY <1>2
  <2>2. t = [g \in DOMAIN t |-> t[g]]
    <3>1. db.feeds \in Tables(FeedRow)
      BY <1>1 DEF Databases
    <3>. QED  BY <3>1, TableFacts
  <2>3. /\ x.feeds = F /\ x.entries = db.entries /\ x.serial = db.serial
        /\ x.feedSeq = db.feedSeq /\ x.categories = db.categories
        /\ x.tombstones = db.tombstones
    BY <1>1 DEF Databases
  <2> HIDE DEF x
  <2>4. f \in DOMAIN t /\ r.mid = t[f].mid
    BY <1>2
  <2> HIDE DEF t
  <2>5. /\ DOMAIN F = DOMAIN t /\ F[f] = r /\ \A g \in DOMAIN t : g # f => F[g] = t[g]
    BY <2>2, <2>4
  <2>6. SameMids(t, F)
    BY <2>4, <2>5 DEF SameMids
  <2>7. /\ Distinct(x) /\ Keeps(db, x) /\ MEntries(x) = MEntries(db)
        /\ MTombs(x) = MTombs(db) /\ MCats(x) = MCats(db) /\ CatNosKept(db, x)
    BY <1>1, <2>3, <2>6, FeedsKeep DEF t
  <2>8. \A g : FeedView(x, g) = FeedView(db, g)
    BY <2>3 DEF FeedView, CatNo
  <2>9. /\ \A g \in DOMAIN t : g # f => FeedRows(x)[g] = FeedRows(db)[g]
        /\ FeedRows(x)[f] = FeedView(db, r)
    <3>1. \A g \in DOMAIN t : FeedRows(x)[g] = FeedView(db, F[g])
      BY <2>3, <2>5, <2>8 DEF FeedRows
    <3>2. \A g \in DOMAIN t : FeedRows(db)[g] = FeedView(db, t[g])
      BY DEF FeedRows, t
    <3>. QED  BY <2>4, <2>5, <3>1, <3>2
  <2>10. Named(t, db.serial)
    BY DEF Distinct, t
  <2> HIDE DEF F
  <2>11. Renum(F, FeedRows(x)) = [Renum(t, FeedRows(db)) EXCEPT ![t[f].mid] = FeedView(db, r)]
    BY <2>4, <2>6, <2>9, <2>10, RenumUpdate
  <2>12. FeedNo(db, f) = t[f].mid
    BY <1>2 DEF FeedNo, t
  <2>13. MFeeds(x) = [MFeeds(db) EXCEPT ![FeedNo(db, f)] = FeedView(db, r)]
    BY <2>3, <2>11, <2>12 DEF MFeeds, t
  <2>. QED  BY <1>2, <2>1, <2>3, <2>7, <2>13
<1>3. CASE f \notin DOMAIN db.feeds
  <2>1. Keeps(db, db)
    <3>1. SameMids(db.feeds, db.feeds)
      BY DEF SameMids
    <3>. QED  BY <1>1, <3>1, FeedsKeep
  <2>. QED  BY <1>3, <2>1
<1>. QED  BY <1>2, <1>3

LEMMA UpdateFeedRefines ==
    ASSUME IInv, Distinct(db), NEW f, NEW u \in Urls, NEW etag \in BOOLEAN,
           NEW next \in Times, UpdateFeed(f, u, etag, next)
    PROVE  Refined
<1> DEFINE o == db.feeds[f]
           r == IF o.url = u THEN [o EXCEPT !.etag = etag, !.next = next] ELSE o
           d == IF f \in DOMAIN db.feeds THEN [db EXCEPT !.feeds[f] = r] ELSE db
           n == FeedNo(db, f)
           M == MFeeds(db)
<1>1. phase = "open"
  BY DEF UpdateFeed, Call
<1>2. db.serial \in Nat /\ n \in Mem!FeedIds
  BY <1>1, OpenView
<1>3. f \in DOMAIN db.feeds => o \in FeedRow
  BY <1>1, OpenFacts
<1>4. /\ f \in DOMAIN db.feeds <=> n \in DOMAIN M
      /\ f \in DOMAIN db.feeds => M[n] = FeedView(db, o)
  BY <1>2, FeedsShown
<1>5. Call(d, <<"UpdateFeed", n, u, etag, next, "ok">>)
  BY MidIsNo DEF UpdateFeed, UpdateFeedRow
<1>6. db' = d /\ MemAnswer' = <<"UpdateFeed", n, u, etag, next, "ok">>
  BY <1>5, CallAnswers
<1> HIDE DEF o
<1>7. f \in DOMAIN db.feeds =>
          /\ r.mid = o.mid
          /\ FeedView(db, r) = IF M[n].url = u
                               THEN [M[n] EXCEPT !.etag = etag, !.next = next] ELSE M[n]
  <2> SUFFICES ASSUME f \in DOMAIN db.feeds
               PROVE  /\ r.mid = o.mid
                      /\ FeedView(db, r) =
                             IF M[n].url = u
                             THEN [M[n] EXCEPT !.etag = etag, !.next = next] ELSE M[n]
    OBVIOUS
  <2> HIDE DEF M, n
  <2>1. o \in FeedRow /\ M[n] = FeedView(db, o)
    BY <1>3, <1>4
  <2>2. /\ FeedView(db, o).url = o.url /\ [o EXCEPT !.etag = etag, !.next = next].mid = o.mid
        /\ FeedView(db, [o EXCEPT !.etag = etag, !.next = next]) =
               [FeedView(db, o) EXCEPT !.etag = etag, !.next = next]
    <3> DEFINE p == [o EXCEPT !.etag = etag]
    <3>1. p \in FeedRow /\ FeedView(db, p) = [FeedView(db, o) EXCEPT !.etag = etag]
      BY <2>1 DEF FeedRow, FeedView
    <3> HIDE DEF p
    <3>2. FeedView(db, [p EXCEPT !.next = next]) = [FeedView(db, p) EXCEPT !.next = next]
      BY <3>1 DEF FeedRow, FeedView
    <3>3. [p EXCEPT !.next = next] = [o EXCEPT !.etag = etag, !.next = next]
      BY DEF p
    <3>4. [[FeedView(db, o) EXCEPT !.etag = etag] EXCEPT !.next = next]
              = [FeedView(db, o) EXCEPT !.etag = etag, !.next = next]
      OBVIOUS
    <3>5. FeedView(db, o).url = o.url /\ [o EXCEPT !.etag = etag, !.next = next].mid = o.mid
      BY <2>1 DEF FeedRow, FeedView
    <3>. QED  BY <3>1, <3>2, <3>3, <3>4, <3>5
  <2>. QED  BY <2>1, <2>2
<1> HIDE DEF r
<1>8. /\ Distinct(d) /\ Keeps(db, d) /\ d.serial = db.serial
      /\ MEntries(d) = MEntries(db) /\ MTombs(d) = MTombs(db) /\ MCats(d) = MCats(db)
      /\ MFeeds(d) = IF f \in DOMAIN db.feeds THEN [M EXCEPT ![n] = FeedView(db, r)] ELSE M
  BY <1>1, <1>7, FeedRowShown DEF o
<1> HIDE DEF d, n
<1>9. M = [x \in DOMAIN M |-> M[x]]
  BY DEF MFeeds, Renum
<1> HIDE DEF M
<1>10. MFeeds(d) = IF n \in DOMAIN M /\ M[n].url = u
                   THEN [M EXCEPT ![n].etag = etag, ![n].next = next] ELSE M
  BY <1>4, <1>7, <1>8, <1>9
<1>11. Mem!UpdateFeed(n, u, etag, next)
  BY <1>6, <1>8, <1>10, ViewNow, ViewNext DEF Mem!UpdateFeed, M
<1>12. Mem!Next
  BY <1>2, <1>11 DEF Mem!Next
<1>. QED  BY <1>6, <1>8, <1>12 DEF Refined

LEMMA SetFeedURLRefines ==
    ASSUME IInv, Distinct(db), NEW f, NEW u \in Urls, NEW now \in Times,
           SetFeedURL(f, u, now)
    PROVE  Refined
<1> DEFINE o == db.feeds[f]
           r == [o EXCEPT !.url = u, !.etag = FALSE, !.next = now]
           conflict == /\ f \in DOMAIN db.feeds
                       /\ \E g \in DOMAIN db.feeds \ {f} : db.feeds[g].url = u
           e == IF f \in DOMAIN db.feeds THEN [db EXCEPT !.feeds[f] = r] ELSE db
           d == IF conflict THEN db ELSE e
           n == FeedNo(db, f)
           M == MFeeds(db)
           code == IF n \notin DOMAIN M THEN "notfound"
                   ELSE IF \E g \in DOMAIN M \ {n} : M[g].url = u THEN "conflict" ELSE "ok"
<1>1. phase = "open"
  BY DEF SetFeedURL, Call
<1>2. db.serial \in Nat /\ n \in Mem!FeedIds /\ Named(db.feeds, db.serial)
  BY <1>1, OpenView DEF Distinct
<1>3. \A g \in DOMAIN db.feeds : db.feeds[g] \in FeedRow
  BY <1>1, OpenFacts
<1>4. /\ f \in DOMAIN db.feeds <=> n \in DOMAIN M
      /\ f \in DOMAIN db.feeds => M[n] = FeedView(db, o) /\ n = db.feeds[f].mid
      /\ DOMAIN M = MidsOf(db.feeds, DOMAIN db.feeds)
      /\ \A g \in DOMAIN db.feeds : M[db.feeds[g].mid] = FeedView(db, db.feeds[g])
  BY <1>2, FeedsShown
<1> HIDE DEF M
<1>5. \A g \in DOMAIN db.feeds : M[db.feeds[g].mid].url = db.feeds[g].url
  <2>1. \A g \in DOMAIN db.feeds : FeedView(db, db.feeds[g]).url = db.feeds[g].url
    BY DEF FeedView
  <2>. QED  BY <1>4, <2>1
<1>6. code = IF conflict THEN "conflict" ELSE Found(f)
  <2>1. f \in DOMAIN db.feeds =>
            (conflict <=> \E g \in DOMAIN M \ {n} : M[g].url = u)
    BY <1>2, <1>4, <1>5 DEF MidsOf, Named
  <2>. QED  BY <1>4, <2>1 DEF Found
<1>7. Call(d, <<"SetFeedURL", n, u, now, code>>)
  BY <1>6, MidIsNo DEF SetFeedURL, UpdateFeedRow
<1>8. db' = d /\ MemAnswer' = <<"SetFeedURL", n, u, now, code>>
  BY <1>7, CallAnswers
<1>9. f \in DOMAIN db.feeds =>
          /\ r.mid = o.mid
          /\ FeedView(db, r) = [M[n] EXCEPT !.url = u, !.etag = FALSE, !.next = now]
  <2> SUFFICES ASSUME f \in DOMAIN db.feeds
               PROVE  /\ r.mid = o.mid
                      /\ FeedView(db, r) = [M[n] EXCEPT !.url = u, !.etag = FALSE, !.next = now]
    OBVIOUS
  <2>1. o \in FeedRow /\ M[n] = FeedView(db, o)
    BY <1>3, <1>4
  <2> HIDE DEF o, n
  <2> DEFINE no == FALSE
             p == [o EXCEPT !.url = u]
             q == [p EXCEPT !.etag = no]
             V == FeedView(db, o)
  <2>2. p \in FeedRow /\ FeedView(db, p) = [V EXCEPT !.url = u]
    BY <2>1 DEF FeedRow, FeedView
  <2>3. r = [q EXCEPT !.next = now] /\ r.mid = o.mid
    BY <2>1 DEF FeedRow
  <2> HIDE DEF p
  <2>4. q \in FeedRow /\ FeedView(db, q) = [FeedView(db, p) EXCEPT !.etag = no]
    <3>1. no \in BOOLEAN
      OBVIOUS
    <3> HIDE DEF no
    <3>. QED  BY <2>2, <3>1 DEF FeedRow, FeedView
  <2> HIDE DEF q
  <2>5. FeedView(db, [q EXCEPT !.next = now]) = [FeedView(db, q) EXCEPT !.next = now]
    BY <2>4 DEF FeedRow, FeedView
  <2> HIDE DEF V
  <2>6. [[[V EXCEPT !.url = u] EXCEPT !.etag = FALSE] EXCEPT !.next = now]
            = [V EXCEPT !.url = u, !.etag = FALSE, !.next = now]
    OBVIOUS
  <2>. QED  BY <2>1, <2>2, <2>3, <2>4, <2>5, <2>6 DEF V
<1> HIDE DEF r
<1>10. /\ Distinct(e) /\ Keeps(db, e) /\ e.serial = db.serial
       /\ MEntries(e) = MEntries(db) /\ MTombs(e) = MTombs(db) /\ MCats(e) = MCats(db)
       /\ MFeeds(e) = IF f \in DOMAIN db.feeds
                      THEN [M EXCEPT ![n] = FeedView(db, r)] ELSE M
  BY <1>1, <1>9, FeedRowShown DEF M
<1>11. Keeps(db, db)
  <2>1. SameMids(db.feeds, db.feeds)
    BY DEF SameMids
  <2>. QED  BY <1>1, <2>1, OpenView, FeedsKeep
<1> HIDE DEF e
<1>12. M = [x \in DOMAIN M |-> M[x]]
  BY DEF MFeeds, Renum, M
<1>13. MFeeds(d) = IF code = "ok"
                   THEN [M EXCEPT ![n].url = u, ![n].etag = FALSE, ![n].next = now] ELSE M
  <2>1. CASE conflict
    BY <1>6, <2>1 DEF M
  <2>2. CASE ~conflict /\ f \in DOMAIN db.feeds
    BY <1>4, <1>6, <1>9, <1>10, <1>12, <2>2 DEF Found
  <2>3. CASE ~conflict /\ f \notin DOMAIN db.feeds
    BY <1>6, <1>10, <2>3 DEF Found
  <2>. QED  BY <2>1, <2>2, <2>3
<1>14. /\ Distinct(d) /\ Keeps(db, d) /\ d.serial = db.serial
       /\ MEntries(d) = MEntries(db) /\ MTombs(d) = MTombs(db) /\ MCats(d) = MCats(db)
  BY <1>10, <1>11
<1> HIDE DEF d, n
<1>15. Mem!SetFeedURL(n, u, now)
  BY <1>8, <1>13, <1>14, ViewNow, ViewNext DEF Mem!SetFeedURL, M
<1>16. Mem!Next
  BY <1>2, <1>15 DEF Mem!Next
<1>. QED  BY <1>8, <1>14, <1>16 DEF Refined

LEMMA SetFeedUserTitleRefines ==
    ASSUME IInv, Distinct(db), NEW f, NEW set \in BOOLEAN, SetFeedUserTitle(f, set)
    PROVE  Refined
<1> DEFINE o == db.feeds[f]
           r == [o EXCEPT !.name = set]
           d == IF f \in DOMAIN db.feeds THEN [db EXCEPT !.feeds[f] = r] ELSE db
           n == FeedNo(db, f)
           M == MFeeds(db)
<1>1. phase = "open"
  BY DEF SetFeedUserTitle, Call
<1>2. db.serial \in Nat /\ n \in Mem!FeedIds
  BY <1>1, OpenView
<1>3. f \in DOMAIN db.feeds => o \in FeedRow
  BY <1>1, OpenFacts
<1>4. /\ f \in DOMAIN db.feeds <=> n \in DOMAIN M
      /\ f \in DOMAIN db.feeds => M[n] = FeedView(db, o)
  BY <1>2, FeedsShown
<1>5. Call(d, <<"SetFeedUserTitle", n, set, Found(f)>>)
  BY MidIsNo DEF SetFeedUserTitle, UpdateFeedRow
<1>6. db' = d /\ MemAnswer' = <<"SetFeedUserTitle", n, set, Found(f)>>
  BY <1>5, CallAnswers
<1> HIDE DEF o
<1>7. f \in DOMAIN db.feeds =>
          r.mid = o.mid /\ FeedView(db, r) = [M[n] EXCEPT !.name = set]
  BY <1>3, <1>4 DEF FeedRow, FeedView
<1> HIDE DEF r
<1>8. /\ Distinct(d) /\ Keeps(db, d) /\ d.serial = db.serial
      /\ MEntries(d) = MEntries(db) /\ MTombs(d) = MTombs(db) /\ MCats(d) = MCats(db)
      /\ MFeeds(d) = IF f \in DOMAIN db.feeds THEN [M EXCEPT ![n] = FeedView(db, r)] ELSE M
  BY <1>1, <1>7, FeedRowShown DEF o
<1> HIDE DEF d, n
<1>9. M = [x \in DOMAIN M |-> M[x]]
  BY DEF MFeeds, Renum
<1> HIDE DEF M
<1>10. MFeeds(d) = IF n \in DOMAIN M THEN [M EXCEPT ![n].name = set] ELSE M
  BY <1>4, <1>7, <1>8, <1>9
<1>11. Mem!SetFeedUserTitle(n, set)
  BY <1>4, <1>6, <1>8, <1>10, ViewNow, ViewNext DEF Mem!SetFeedUserTitle, M, Found
<1>12. Mem!Next
  BY <1>2, <1>11 DEF Mem!Next
<1>. QED  BY <1>6, <1>8, <1>12 DEF Refined

LEMMA SetFeedCategoryRefines ==
    ASSUME IInv, Distinct(db), NEW f, NEW c \in Categories, SetFeedCategory(f, c)
    PROVE  Refined
<1> DEFINE o == db.feeds[f]
           r == [o EXCEPT !.cat = c]
           d == IF f \in DOMAIN db.feeds THEN [db EXCEPT !.feeds[f] = r] ELSE db
           n == FeedNo(db, f)
           k == CatNo(db, c)
           M == MFeeds(db)
<1>1. phase = "open"
  BY DEF SetFeedCategory, Call
<1>2. db.serial \in Nat /\ n \in Mem!FeedIds /\ k \in Mem!Categories
  BY <1>1, OpenView
<1>3. f \in DOMAIN db.feeds => o \in FeedRow
  BY <1>1, OpenFacts
<1>4. /\ f \in DOMAIN db.feeds <=> n \in DOMAIN M
      /\ f \in DOMAIN db.feeds => M[n] = FeedView(db, o)
  BY <1>2, FeedsShown
<1>5. Call(d, <<"SetFeedCategory", n, k, Found(f)>>)
  BY MidIsNo DEF SetFeedCategory, UpdateFeedRow
<1>6. db' = d /\ MemAnswer' = <<"SetFeedCategory", n, k, Found(f)>>
  BY <1>5, CallAnswers
<1> HIDE DEF o
<1>7. f \in DOMAIN db.feeds =>
          r.mid = o.mid /\ FeedView(db, r) = [M[n] EXCEPT !.cat = k]
  BY <1>3, <1>4 DEF FeedRow, FeedView
<1> HIDE DEF r
<1>8. /\ Distinct(d) /\ Keeps(db, d) /\ d.serial = db.serial
      /\ MEntries(d) = MEntries(db) /\ MTombs(d) = MTombs(db) /\ MCats(d) = MCats(db)
      /\ MFeeds(d) = IF f \in DOMAIN db.feeds THEN [M EXCEPT ![n] = FeedView(db, r)] ELSE M
  BY <1>1, <1>7, FeedRowShown DEF o
<1> HIDE DEF d, n, k
<1>9. M = [x \in DOMAIN M |-> M[x]]
  BY DEF MFeeds, Renum
<1> HIDE DEF M
<1>10. MFeeds(d) = IF n \in DOMAIN M THEN [M EXCEPT ![n].cat = k] ELSE M
  BY <1>4, <1>7, <1>8, <1>9
<1>11. Mem!SetFeedCategory(n, k)
  BY <1>4, <1>6, <1>8, <1>10, ViewNow, ViewNext DEF Mem!SetFeedCategory, M, Found
<1>12. Mem!Next
  BY <1>2, <1>11 DEF Mem!Next
<1>. QED  BY <1>6, <1>8, <1>12 DEF Refined

LEMMA NamedMore ==
    ASSUME NEW t, NEW n \in Nat, NEW m \in Nat, n <= m, Named(t, n)
    PROVE  Named(t, m)
  BY DEF Named

LEMMA NewFeedShown ==
    ASSUME NEW d, Sound(d), Distinct(d), NEW i \in Nat, i >= d.feedSeq,
           NEW row, row.mid = d.serial, row.cat \in DOMAIN d.categories \cup {None},
           NEW x, x.feeds = Put(d.feeds, i, row), x.serial = d.serial + 1,
           x.feedSeq = d.feedSeq + 1, x.entries = d.entries,
           x.tombstones = d.tombstones, x.categories = d.categories
    PROVE  /\ Distinct(x) /\ Keeps(d, x) /\ MEntries(x) = MEntries(d)
           /\ MTombs(x) = MTombs(d) /\ MCats(x) = MCats(d)
           /\ MFeeds(x) = Put(MFeeds(d), d.serial, FeedView(d, row))
<1>1. d \in Databases /\ Refs(d) /\ d.serial \in Nat \ {0} /\ d.feedSeq \in Nat
  BY DEF Sound, Databases
<1>2. \A f \in DOMAIN d.feeds : f < d.feedSeq /\ f \in Nat
  <2>1. d.feeds \in Tables(FeedRow)
    BY <1>1 DEF Databases
  <2>. QED  BY <1>1, <2>1, TableFacts DEF Refs
<1>3. i \notin DOMAIN d.feeds
  BY <1>1, <1>2
<1>4. /\ DOMAIN x.feeds = DOMAIN d.feeds \cup {i} /\ x.feeds[i] = row
      /\ \A f \in DOMAIN d.feeds : x.feeds[f] = d.feeds[f]
  BY <1>3 DEF Put
<1>5. FeedNosKept(d, x)
  BY <1>4 DEF FeedNosKept
<1>6. MEntries(x) = MEntries(d) /\ MTombs(x) = MTombs(d) /\ MCats(x) = MCats(d)
  BY <1>1, <1>5, EntriesViewKept, TombsViewKept, CatsViewKept
<1>7. \A c \in DOMAIN d.categories \cup {None} : CatNo(x, c) = CatNo(d, c)
  BY DEF CatNo
<1>8. FeedView(x, row) = FeedView(d, row)
      /\ \A f \in DOMAIN d.feeds : FeedView(x, x.feeds[f]) = FeedView(d, d.feeds[f])
  BY <1>1, <1>4, <1>7 DEF FeedView, Refs
<1>9. FeedRows(x)[i] = FeedView(d, row) /\ \A f \in DOMAIN d.feeds : FeedRows(x)[f] = FeedRows(d)[f]
  <2>1. \A f \in DOMAIN x.feeds : FeedRows(x)[f] = FeedView(x, x.feeds[f])
    BY DEF FeedRows
  <2>2. \A f \in DOMAIN d.feeds : FeedRows(d)[f] = FeedView(d, d.feeds[f])
    BY DEF FeedRows
  <2>. QED  BY <1>4, <1>8, <2>1, <2>2
<1>10. Named(d.feeds, d.serial) /\ Named(d.entries, d.serial) /\ Named(d.categories, d.serial)
  BY DEF Distinct
<1>11. Renum(x.feeds, FeedRows(x)) = Put(Renum(d.feeds, FeedRows(d)), d.serial, FeedView(d, row))
       /\ Named(x.feeds, d.serial + 1)
  BY <1>1, <1>3, <1>9, <1>10, RenumPut
<1>12. Named(x.entries, d.serial + 1) /\ Named(x.categories, d.serial + 1)
  BY <1>1, <1>10, NamedMore
<1>13. Distinct(x)
  BY <1>11, <1>12 DEF Distinct, OneEach, InOrder, AllTimed
<1>14. Keeps(d, x)
  <2>1. d.serial <= x.serial /\ d.feedSeq <= x.feedSeq
    BY <1>1
  <2>2. \A f \in DOMAIN x.feeds : f \in DOMAIN d.feeds \/ f >= d.feedSeq
    BY <1>4
  <2>. QED  BY <2>1, <2>2 DEF Keeps, SameRow, SameItem
<1>. QED  BY <1>6, <1>11, <1>13, <1>14 DEF MFeeds

LEMMA UrlTaken ==
    ASSUME NEW d, Distinct(d), d.serial \in Nat, NEW u
    PROVE  (\E f \in DOMAIN d.feeds : d.feeds[f].url = u)
               <=> \E f \in DOMAIN MFeeds(d) : MFeeds(d)[f].url = u
<1> DEFINE M == MFeeds(d)
<1>1. /\ DOMAIN M = MidsOf(d.feeds, DOMAIN d.feeds)
      /\ \A f \in DOMAIN d.feeds : M[d.feeds[f].mid] = FeedView(d, d.feeds[f])
  BY FeedsShown
<1>2. \A f \in DOMAIN d.feeds : FeedView(d, d.feeds[f]).url = d.feeds[f].url
  BY DEF FeedView
<1> HIDE DEF M
<1>3. \A f \in DOMAIN d.feeds : M[d.feeds[f].mid].url = d.feeds[f].url
  BY <1>1, <1>2
<1>4. (\E f \in DOMAIN d.feeds : d.feeds[f].url = u) <=> \E f \in DOMAIN M : M[f].url = u
  BY <1>1, <1>3 DEF MidsOf
<1>. QED  BY <1>4 DEF M

LEMMA KeepsSelf == ASSUME NEW d, Sound(d), Distinct(d) PROVE Keeps(d, d)
<1>1. SameMids(d.feeds, d.feeds)
  BY DEF SameMids
<1>. QED  BY <1>1, FeedsKeep

LEMMA CreateFeedRefines ==
    ASSUME IInv, Distinct(db), NEW u \in Urls, NEW c \in Categories, NEW full \in BOOLEAN,
           NEW at \in Times, CreateFeed(u, c, full, at)
    PROVE  Refined
<1> DEFINE taken == \E f \in DOMAIN db.feeds : db.feeds[f].url = u
           row == [mid |-> db.serial, url |-> u, etag |-> FALSE, next |-> at, cat |-> c,
                   full |-> full, name |-> FALSE]
           F == Put(db.feeds, db.feedSeq, row)
           x == [db EXCEPT !.feeds = F, !.feedSeq = db.feedSeq + 1, !.serial = db.serial + 1]
           d == IF taken THEN db ELSE x
           k == CatNo(db, c)
           M == MFeeds(db)
           new == [url |-> u, etag |-> FALSE, next |-> at, cat |-> k, full |-> full,
                   name |-> FALSE]
           code == IF taken THEN "conflict" ELSE "ok"
<1>1. phase = "open"
  BY DEF CreateFeed, Call
<1>2. /\ Sound(db) /\ db \in Databases /\ db.serial \in Nat /\ db.feedSeq \in Nat
      /\ k \in Mem!Categories
  BY <1>1, OpenView, OpenFacts
<1>3. Call(d, <<"CreateFeed", u, k, full, at, code>>)
  BY MidIsNo DEF CreateFeed, NextFeedId
<1>4. db' = d /\ MemAnswer' = <<"CreateFeed", u, k, full, at, code>>
  BY <1>3, CallAnswers
<1>5. taken <=> \E f \in DOMAIN M : M[f].url = u
  BY <1>2, UrlTaken
<1>6. row.mid = db.serial /\ row.cat \in DOMAIN db.categories \cup {None}
      /\ FeedView(db, row) = new
  BY DEF Categories, FeedView
<1> HIDE DEF row
<1>7. /\ x.feeds = F /\ x.feedSeq = db.feedSeq + 1 /\ x.serial = db.serial + 1
      /\ x.entries = db.entries /\ x.tombstones = db.tombstones
      /\ x.categories = db.categories
  BY <1>2 DEF Databases
<1> HIDE DEF x
<1>8. /\ Distinct(x) /\ Keeps(db, x) /\ MEntries(x) = MEntries(db)
      /\ MTombs(x) = MTombs(db) /\ MCats(x) = MCats(db)
      /\ MFeeds(x) = Put(M, db.serial, new)
  <2>1. db.feedSeq >= db.feedSeq
    BY <1>2
  <2> HIDE DEF new
  <2>. QED  BY <1>2, <1>6, <1>7, <2>1, NewFeedShown
<1>9. /\ Distinct(d) /\ Keeps(db, d) /\ MEntries(d) = MEntries(db)
      /\ MTombs(d) = MTombs(db) /\ MCats(d) = MCats(db)
      /\ d.serial = IF taken THEN db.serial ELSE db.serial + 1
      /\ MFeeds(d) = IF taken THEN M ELSE Put(M, db.serial, new)
  BY <1>2, <1>7, <1>8, KeepsSelf
<1> HIDE DEF d, k, taken
<1>10. Mem!CreateFeed(u, k, full, at)
  BY <1>4, <1>5, <1>9, ViewNow, ViewNext DEF Mem!CreateFeed, Mem!Put, Put
<1>11. Mem!Next
  BY <1>2, <1>10 DEF Mem!Next
<1>. QED  BY <1>4, <1>9, <1>11 DEF Refined

LEMMA DeleteFeedRefines ==
    ASSUME IInv, Distinct(db), NEW f, DeleteFeed(f)
    PROVE  Refined
<1> DEFINE G == {i \in DOMAIN db.entries : db.entries[i].feed = f}
           K == DOMAIN db.entries \ G
           y == DeleteRows(db, G)
           E == Restrict(db.entries, K)
           F == Restrict(db.feeds, DOMAIN db.feeds \ {f})
           T == {t \in db.tombstones : t[1] # f}
           d == [y EXCEPT !.feeds = Restrict(@, DOMAIN @ \ {f}),
                          !.tombstones = {t \in @ : t[1] # f}]
           n == FeedNo(db, f)
           M == MFeeds(db)
<1>1. phase = "open"
  BY DEF DeleteFeed, Call
<1>2. /\ Sound(db) /\ db \in Databases /\ Refs(db) /\ db.serial \in Nat /\ db.feedSeq \in Nat
      /\ n \in Mem!FeedIds
  BY <1>1, OpenView, OpenFacts
<1>3. Named(db.feeds, db.serial) /\ Named(db.entries, db.serial) /\ Named(db.categories, db.serial)
  BY DEF Distinct
<1>4. /\ DOMAIN M = MidsOf(db.feeds, DOMAIN db.feeds)
      /\ f \in DOMAIN db.feeds <=> n \in DOMAIN M
      /\ \A g \in DOMAIN db.feeds : FeedNo(db, g) = db.feeds[g].mid
  BY <1>2, FeedsShown
<1>5. Call(d, <<"DeleteFeed", n, Found(f)>>)
  BY MidIsNo DEF DeleteFeed
<1>6. db' = d /\ MemAnswer' = <<"DeleteFeed", n, Found(f)>>
  BY <1>5, CallAnswers
<1>7. /\ d.feeds = F /\ d.entries = E /\ d.tombstones = T /\ d.categories = db.categories
      /\ d.serial = db.serial /\ d.feedSeq = db.feedSeq
  BY <1>2 DEF DeleteRows, Databases
<1> HIDE DEF d, n, M
<1>8. DOMAIN F = DOMAIN db.feeds \ {f} /\ \A g \in DOMAIN db.feeds \ {f} : F[g] = db.feeds[g]
  BY DEF Restrict
<1>9. DOMAIN E = K /\ \A i \in K : E[i] = db.entries[i]
  BY DEF Restrict
<1>10. \A g \in DOMAIN db.feeds \ {f} : FeedNo(d, g) = FeedNo(db, g) /\ FeedNo(db, g) # n
  <2>1. \A g \in DOMAIN db.feeds \ {f} : FeedNo(d, g) = FeedNo(db, g)
    BY <1>7, <1>8 DEF FeedNo
  <2>2. \A g \in DOMAIN db.feeds \ {f} : FeedNo(db, g) # n
    BY <1>2, <1>3 DEF FeedNo, Named, n
  <2>. QED  BY <2>1, <2>2
<1>11. \A i \in K : db.entries[i].feed \in DOMAIN db.feeds \ {f}
  BY <1>2 DEF Refs
<1>12. MFeeds(d) = Restrict(M, DOMAIN M \ {n}) /\ Named(F, db.serial)
  <2>1. \A g \in DOMAIN F : FeedView(d, F[g]) = FeedView(db, db.feeds[g])
    BY <1>7, <1>8 DEF FeedView, CatNo
  <2>2. \A g \in DOMAIN F : FeedRows(d)[g] = FeedRows(db)[g]
    BY <1>7, <1>8, <2>1 DEF FeedRows
  <2>3. DOMAIN M \ {n} = MidsOf(db.feeds, DOMAIN db.feeds \ {f})
    <3>1. \A g \in DOMAIN db.feeds : db.feeds[g].mid = n <=> g = f
      BY <1>4, <1>10 DEF n
    <3>. QED  BY <1>4, <3>1 DEF MidsOf
  <2> DEFINE KF == DOMAIN db.feeds \ {f}
             LF == DOMAIN M \ {n}
  <2>4. KF \in SUBSET DOMAIN db.feeds /\ LF = MidsOf(db.feeds, KF)
        /\ (\A g \in KF : FeedRows(d)[g] = FeedRows(db)[g])
        /\ F = Restrict(db.feeds, KF)
    BY <1>8, <2>2, <2>3
  <2> HIDE DEF KF, LF, F
  <2>5. Renum(F, FeedRows(d)) = Restrict(Renum(db.feeds, FeedRows(db)), LF)
        /\ Named(F, db.serial)
    BY <1>3, <2>4, RenumRestrict
  <2>. QED  BY <1>7, <2>5 DEF MFeeds, M, LF
<1>13. MCats(d) = MCats(db)
  BY <1>7, CatsViewKept
<1> DEFINE N == MEntries(db)
           L == {m \in DOMAIN N : N[m].feed # n}
<1>14. /\ DOMAIN N = MidsOf(db.entries, DOMAIN db.entries)
       /\ N = [m \in DOMAIN N |-> N[m]]
       /\ \A i \in DOMAIN db.entries : N[db.entries[i].mid] = EntryView(db, db.entries[i])
  BY <1>2, EntriesShown
<1> HIDE DEF N
<1>15. \A i \in DOMAIN db.entries : N[db.entries[i].mid].feed = FeedNo(db, db.entries[i].feed)
  <2>1. \A i \in DOMAIN db.entries :
            EntryView(db, db.entries[i]).feed = FeedNo(db, db.entries[i].feed)
    BY DEF EntryView
  <2>. QED  BY <1>14, <2>1
<1>16. \A i \in DOMAIN db.entries : N[db.entries[i].mid].feed # n <=> i \in K
  <2>1. \A i \in DOMAIN db.entries : i \notin K <=> db.entries[i].feed = f
    OBVIOUS
  <2>. QED  BY <1>10, <1>11, <1>15, <2>1 DEF n
<1>17. L = MidsOf(db.entries, K)
  BY <1>14, <1>16 DEF MidsOf
<1>18. MEntries(d) = Restrict(N, L) /\ Named(E, db.serial)
  <2>1. \A i \in K : EntryView(d, E[i]) = EntryView(db, db.entries[i])
    BY <1>9, <1>10, <1>11 DEF EntryView
  <2>2. \A i \in K : EntryRows(d)[i] = EntryRows(db)[i]
    <3>1. \A i \in K : EntryRows(d)[i] = EntryView(d, E[i])
      BY <1>7, <1>9 DEF EntryRows
    <3>2. \A i \in K : EntryRows(db)[i] = EntryView(db, db.entries[i])
      BY DEF EntryRows
    <3>. QED  BY <2>1, <3>1, <3>2
  <2>3. K \in SUBSET DOMAIN db.entries
    OBVIOUS
  <2> HIDE DEF K, L
  <2>. QED  BY <1>3, <1>7, <1>17, <2>2, <2>3, RenumRestrict DEF MEntries, N
<1>19. MTombs(d) = {t \in MTombs(db) : t[1] # n}
  <2>1. \A t \in db.tombstones : t[1] \in DOMAIN db.feeds
    BY <1>2 DEF Refs
  <2>2. \A t \in T : FeedNo(d, t[1]) = FeedNo(db, t[1])
    BY <1>10, <2>1
  <2>3. \A t \in db.tombstones : t \in T <=> FeedNo(db, t[1]) # n
    BY <1>10, <2>1 DEF n
  <2> HIDE DEF T
  <2>4. T \subseteq db.tombstones
    BY DEF T
  <2>. QED  BY <1>7, <2>2, <2>3, <2>4 DEF MTombs
<1>20. f \notin DOMAIN db.feeds => MEntries(d) = N /\ MTombs(d) = MTombs(db)
  <2> SUFFICES ASSUME f \notin DOMAIN db.feeds PROVE MEntries(d) = N /\ MTombs(d) = MTombs(db)
    OBVIOUS
  <2>1. DOMAIN N = L
    BY <1>2, <1>14, <1>16 DEF Refs, MidsOf
  <2>2. Restrict(N, L) = [m \in L |-> N[m]]
    BY DEF Restrict
  <2>3. Restrict(N, L) = N
    BY <1>14, <2>1, <2>2
  <2>4. \A t \in db.tombstones : FeedNo(db, t[1]) # n
    BY <1>2, <1>10 DEF Refs
  <2>5. MTombs(d) = MTombs(db)
    BY <1>19, <2>4 DEF MTombs
  <2>. QED  BY <1>18, <2>3, <2>5
<1>25. /\ \A i \in DOMAIN d.entries :
              i \in DOMAIN db.entries /\ d.entries[i] = db.entries[i]
       /\ \A i \in DOMAIN db.entries : db.entries[i].feed # f => i \in DOMAIN d.entries
       /\ f \notin DOMAIN d.feeds /\ DOMAIN d.feeds \subseteq DOMAIN db.feeds
  BY <1>7, <1>8, <1>9
<1> HIDE DEF E, F, T, K, G
<1>21. Distinct(d)
  <2>1. OneEach(d) /\ InOrder(d) /\ AllTimed(d)
    BY <1>25 DEF Distinct, OneEach, InOrder, AllTimed
  <2>. QED  BY <1>3, <1>7, <1>12, <1>18, <2>1 DEF Distinct
<1>22. Keeps(db, d)
  <2>1. db.serial <= d.serial /\ db.feedSeq <= d.feedSeq
    BY <1>2, <1>7
  <2>. QED  BY <1>25, <2>1 DEF Keeps, SameRow, SameItem
<1>23. \E g \in Mem!FeedIds : Mem!DeleteFeed(g)
  <2> HIDE DEF L
  <2>1. n \in Mem!FeedIds /\ L = {e \in DOMAIN N : N[e].feed # n}
    BY <1>2 DEF L
  <2>2. MEntries(d) = IF n \in DOMAIN M THEN Restrict(N, L) ELSE N
    BY <1>4, <1>18, <1>20
  <2>3. MTombs(d) = IF n \in DOMAIN M THEN {t \in MTombs(db) : t[1] # n} ELSE MTombs(db)
    BY <1>4, <1>19, <1>20
  <2> USE DEF Mem!DeleteFeed, Mem!Restrict
  <2>4. n \in Mem!FeedIds
    BY <2>1
  <2> WITNESS n \in Mem!FeedIds
  <2>. QED  BY <1>4, <1>6, <1>7, <1>12, <1>13, <2>1, <2>2, <2>3, ViewNow, ViewNext
            DEF Mem!DeleteFeed, Found, M, N, Mem!Restrict, Restrict
<1>24. Mem!Next
  BY <1>23 DEF Mem!Next
<1>. QED  BY <1>6, <1>21, <1>22, <1>24 DEF Refined

-----------------------------------------------------------------------------
(* The calls on entries are MemStore's.                                    *)

\* Other columns of the rows there are.
SameRows(d, x) ==
    /\ x.feeds = d.feeds /\ x.tombstones = d.tombstones /\ x.categories = d.categories
    /\ x.serial = d.serial /\ x.feedSeq = d.feedSeq
    /\ DOMAIN x.entries = DOMAIN d.entries
    /\ \A i \in DOMAIN d.entries : SameRow(x.entries[i], d.entries[i])

LEMMA EntriesKeep ==
    ASSUME NEW d, Sound(d), Distinct(d), NEW x, SameRows(d, x), AllTimed(x)
    PROVE  /\ Distinct(x) /\ Keeps(d, x) /\ MFeeds(x) = MFeeds(d)
           /\ MTombs(x) = MTombs(d) /\ MCats(x) = MCats(d) /\ SameMids(d.entries, x.entries)
           /\ x.serial = d.serial
<1>1. d \in Databases /\ Refs(d) /\ d.serial \in Nat /\ d.feedSeq \in Nat
  BY DEF Sound, Databases
<1>2. SameMids(d.entries, x.entries)
  BY DEF SameRows, SameRow, SameMids
<1>3. Named(x.entries, d.serial)
  BY <1>2, SameMidsFacts DEF Distinct
<1>4. OneEach(x) /\ InOrder(x)
  BY DEF Distinct, OneEach, InOrder, SameRows, SameRow, SameItem
<1>5. Distinct(x)
  BY <1>3, <1>4 DEF Distinct, SameRows
<1>6. Keeps(d, x)
  BY <1>1 DEF Keeps, SameRows
<1>7. FeedNosKept(d, x) /\ CatNosKept(d, x)
  BY DEF SameRows, FeedNosKept, CatNosKept
<1>8. MFeeds(x) = MFeeds(d)
  BY <1>1, <1>7, FeedsViewKept DEF SameRows
<1>9. MTombs(x) = MTombs(d)
  BY <1>1, <1>7, TombsViewKept DEF SameRows
<1>10. MCats(x) = MCats(d)
  BY CatsViewKept DEF SameRows
<1>. QED  BY <1>2, <1>5, <1>6, <1>8, <1>9, <1>10 DEF SameRows

LEMMA EntriesMapped ==
    ASSUME NEW d, Sound(d), Distinct(d), NEW x, SameRows(d, x), AllTimed(x),
           NEW X, X = [m \in DOMAIN X |-> X[m]], DOMAIN X = DOMAIN MEntries(d),
           \A i \in DOMAIN d.entries : X[d.entries[i].mid] = EntryView(d, x.entries[i])
    PROVE  MEntries(x) = X
<1>1. SameMids(d.entries, x.entries)
  BY EntriesKeep
<1>2. \A e : EntryView(x, e) = EntryView(d, e)
  BY DEF EntryView, FeedNo, SameRows
<1>3. \A i \in DOMAIN d.entries : EntryRows(x)[i] = EntryView(d, x.entries[i])
  BY <1>2 DEF EntryRows, SameRows
<1>4. Named(d.entries, d.serial)
  BY DEF Distinct
<1>5. \A i \in DOMAIN d.entries : X[d.entries[i].mid] = EntryRows(x)[i]
  BY <1>3
<1>. QED  BY <1>1, <1>4, <1>5, RenumMap DEF MEntries

\* A call that rewrites rows in place is a step of MemStore that does.
LEMMA RowsUpdated ==
    ASSUME NEW d \in Databases, NEW R \in [DOMAIN d.entries -> EntryRow],
           \A i \in DOMAIN d.entries : SameRow(R[i], d.entries[i]) /\ Timed(R[i]),
           NEW x, x = [d EXCEPT !.entries = R]
    PROVE  SameRows(d, x) /\ AllTimed(x) /\ x.entries = R
<1>1. /\ x.entries = R /\ x.feeds = d.feeds /\ x.tombstones = d.tombstones
      /\ x.categories = d.categories /\ x.serial = d.serial /\ x.feedSeq = d.feedSeq
  BY DEF Databases
<1>2. DOMAIN R = DOMAIN d.entries
  OBVIOUS
<1>. QED  BY <1>1, <1>2 DEF SameRows, AllTimed

LEMMA IdsShown ==
    ASSUME IInv, Distinct(db), phase = "open"
    PROVE  /\ \A i \in DOMAIN db.entries : MidEntry(i) = db.entries[i].mid
           /\ \A i : MidEntry(i) \in Mem!EntryIds
           /\ \A S \in IdLists : Mids(S) \in Mem!IdLists
           /\ \A S : \A i \in DOMAIN db.entries : db.entries[i].mid \in Mids(S) <=> i \in S
<1>1. /\ db.serial \in Nat /\ Named(db.entries, db.serial)
  BY OpenView DEF Distinct
<1>2. /\ DOMAIN MEntries(db) = MidsOf(db.entries, DOMAIN db.entries)
      /\ db.serial \notin DOMAIN MEntries(db)
      /\ \A i \in DOMAIN db.entries : db.entries[i].mid \in DOMAIN MEntries(db)
  BY <1>1, EntriesShown
<1>3. \A i : MidEntry(i) = IF i \in DOMAIN db.entries THEN db.entries[i].mid ELSE db.serial
  BY DEF MidEntry, Mid
<1>4. \A i : MidEntry(i) \in Mem!EntryIds
  BY <1>2, <1>3, ViewNow DEF Mem!EntryIds
<1>5. \A S : \A i \in DOMAIN db.entries : db.entries[i].mid \in Mids(S) <=> i \in S
  BY <1>1, <1>2, <1>3 DEF Mids, Named
<1>6. Mids(DOMAIN db.entries) = DOMAIN MEntries(db)
  BY <1>2, <1>3 DEF Mids, MidsOf
<1>7. \A i : Mids({i}) = {MidEntry(i)}
  BY DEF Mids
<1>8. \A S \in IdLists : Mids(S) \in Mem!IdLists
  BY <1>4, <1>6, <1>7, ViewNow DEF IdLists, Mem!IdLists
<1>. QED  BY <1>3, <1>4, <1>5, <1>8

LEMMA SetStatusRefines ==
    ASSUME IInv, Distinct(db), NEW S \in IdLists, NEW st \in {"read", "unread"},
           NEW at \in Times, SetStatus(S, st, at)
    PROVE  Refined
<1> DEFINE t == db.entries
           w == IF st = "read" THEN at ELSE NoTime
           new(e) == [e EXCEPT !.status = st, !.readAt = w]
           R == [i \in DOMAIN t |-> IF i \in S THEN new(t[i]) ELSE t[i]]
           d == [db EXCEPT !.entries = R]
           N == MEntries(db)
           es == Mids(S)
           X == [m \in DOMAIN N |-> IF m \in es
                     THEN [N[m] EXCEPT !.status = st, !.readAt = w] ELSE N[m]]
<1>1. phase = "open"
  BY DEF SetStatus, Call
<1>2. /\ Sound(db) /\ db \in Databases /\ db.serial \in Nat
      /\ \A i \in DOMAIN t : t[i] \in EntryRow
  BY <1>1, OpenView, OpenFacts
<1>3. Call(d, <<"SetStatus", es, st, at, "ok">>)
  BY DEF SetStatus, UpdateRows
<1>4. db' = d /\ MemAnswer' = <<"SetStatus", es, st, at, "ok">>
  <2> HIDE DEF d, es
  <2>1. <<"SetStatus", es, st, at, "ok">>[1] # "DeleteEntry"
    OBVIOUS
  <2>. QED  BY <1>3, <2>1, CallAnswers
<1>5. es \in Mem!IdLists /\ \A i \in DOMAIN t : t[i].mid \in es <=> i \in S
  BY <1>1, IdsShown
<1>6. w \in Times \cup {NoTime}
  OBVIOUS
<1>7. /\ DOMAIN N = MidsOf(t, DOMAIN t)
      /\ \A i \in DOMAIN t : t[i].mid \in DOMAIN N
      /\ \A i \in DOMAIN t : N[t[i].mid] = EntryView(db, t[i])
  BY <1>2, EntriesShown
<1> HIDE DEF w, es, N
<1>8. ASSUME NEW e \in EntryRow
      PROVE  /\ new(e) \in EntryRow /\ SameRow(new(e), e) /\ (Timed(e) => Timed(new(e)))
             /\ EntryView(db, new(e)) = [EntryView(db, e) EXCEPT !.status = st, !.readAt = w]
  <2> DEFINE f == [e EXCEPT !.status = st]
  <2>1. f \in EntryRow /\ EntryView(db, f) = [EntryView(db, e) EXCEPT !.status = st]
    BY DEF EntryView, EntryRow
  <2>2. new(e) = [f EXCEPT !.readAt = w]
    OBVIOUS
  <2>3. new(e) \in EntryRow /\ SameRow(new(e), e) /\ (Timed(e) => Timed(new(e)))
    BY <1>6 DEF EntryRow, SameRow, SameItem, Timed
  <2> HIDE DEF f
  <2>4. EntryView(db, [f EXCEPT !.readAt = w]) = [EntryView(db, f) EXCEPT !.readAt = w]
    BY <2>1 DEF EntryView, EntryRow
  <2>5. [[EntryView(db, e) EXCEPT !.status = st] EXCEPT !.readAt = w]
            = [EntryView(db, e) EXCEPT !.status = st, !.readAt = w]
    OBVIOUS
  <2>. QED  BY <2>1, <2>2, <2>3, <2>4, <2>5
<1> HIDE DEF new
<1>9. /\ R \in [DOMAIN t -> EntryRow]
      /\ \A i \in DOMAIN t : SameRow(R[i], t[i]) /\ Timed(R[i])
  <2>1. \A i \in DOMAIN t : Timed(t[i]) /\ SameRow(t[i], t[i])
    BY DEF Distinct, AllTimed, SameRow, SameItem
  <2>. QED  BY <1>2, <1>8, <2>1
<1>10. SameRows(db, d) /\ AllTimed(d) /\ d.entries = R
  <2> HIDE DEF R
  <2>. QED  BY <1>2, <1>9, RowsUpdated
<1> HIDE DEF d
<1>11. /\ Distinct(d) /\ Keeps(db, d) /\ MFeeds(d) = MFeeds(db)
       /\ MTombs(d) = MTombs(db) /\ MCats(d) = MCats(db) /\ d.serial = db.serial
  BY <1>2, <1>10, EntriesKeep
<1>12. MEntries(d) = X
  <2>1. X = [m \in DOMAIN X |-> X[m]] /\ DOMAIN X = DOMAIN MEntries(db)
    BY DEF N
  <2>2. \A i \in DOMAIN db.entries : X[db.entries[i].mid] = EntryView(db, d.entries[i])
    <3> SUFFICES ASSUME NEW i \in DOMAIN t PROVE X[t[i].mid] = EntryView(db, R[i])
      BY <1>10
    <3>1. CASE i \in S
      BY <1>2, <1>5, <1>7, <1>8, <3>1
    <3>2. CASE i \notin S
      BY <1>5, <1>7, <3>2
    <3>. QED  BY <3>1, <3>2
  <2> HIDE DEF X, R
  <2>. QED  BY <1>2, <1>10, <2>1, <2>2, EntriesMapped
<1>13. Mem!SetStatus(es, st, at)
  BY <1>4, <1>11, <1>12, ViewNow, ViewNext DEF Mem!SetStatus, Mem!NoTime, NoTime, N, w
<1>14. Mem!Next
  BY <1>5, <1>13 DEF Mem!Next
<1>. QED  BY <1>4, <1>11, <1>14 DEF Refined

LEMMA SetStarredRefines ==
    ASSUME IInv, Distinct(db), NEW S \in IdLists, NEW on \in BOOLEAN, SetStarred(S, on)
    PROVE  Refined
<1> DEFINE t == db.entries
           new(e) == [e EXCEPT !.starred = on]
           R == [i \in DOMAIN t |-> IF i \in S THEN new(t[i]) ELSE t[i]]
           d == [db EXCEPT !.entries = R]
           N == MEntries(db)
           es == Mids(S)
           X == [m \in DOMAIN N |-> IF m \in es THEN [N[m] EXCEPT !.starred = on] ELSE N[m]]
<1>1. phase = "open"
  BY DEF SetStarred, Call
<1>2. /\ Sound(db) /\ db \in Databases /\ db.serial \in Nat
      /\ \A i \in DOMAIN t : t[i] \in EntryRow
  BY <1>1, OpenView, OpenFacts
<1>3. Call(d, <<"SetStarred", es, on, "ok">>)
  BY DEF SetStarred, UpdateRows
<1>4. db' = d /\ MemAnswer' = <<"SetStarred", es, on, "ok">>
  BY <1>3, CallAnswers
<1>5. es \in Mem!IdLists /\ \A i \in DOMAIN t : t[i].mid \in es <=> i \in S
  BY <1>1, IdsShown
<1>7. /\ DOMAIN N = MidsOf(t, DOMAIN t)
      /\ \A i \in DOMAIN t : t[i].mid \in DOMAIN N
      /\ \A i \in DOMAIN t : N[t[i].mid] = EntryView(db, t[i])
  BY <1>2, EntriesShown
<1> HIDE DEF es, N
<1>8. ASSUME NEW e \in EntryRow
      PROVE  /\ new(e) \in EntryRow /\ SameRow(new(e), e) /\ (Timed(e) => Timed(new(e)))
             /\ EntryView(db, new(e)) = [EntryView(db, e) EXCEPT !.starred = on]
  <2>1. new(e) \in EntryRow /\ SameRow(new(e), e) /\ (Timed(e) => Timed(new(e)))
    BY DEF EntryRow, SameRow, SameItem, Timed
  <2>2. EntryView(db, new(e)) = [EntryView(db, e) EXCEPT !.starred = on]
    BY DEF EntryView, EntryRow
  <2>. QED  BY <2>1, <2>2
<1> HIDE DEF new
<1>9. /\ R \in [DOMAIN t -> EntryRow]
      /\ \A i \in DOMAIN t : SameRow(R[i], t[i]) /\ Timed(R[i])
  <2>1. \A i \in DOMAIN t : Timed(t[i]) /\ SameRow(t[i], t[i])
    BY DEF Distinct, AllTimed, SameRow, SameItem
  <2>. QED  BY <1>2, <1>8, <2>1
<1>10. SameRows(db, d) /\ AllTimed(d) /\ d.entries = R
  <2> HIDE DEF R
  <2>. QED  BY <1>2, <1>9, RowsUpdated
<1> HIDE DEF d
<1>11. /\ Distinct(d) /\ Keeps(db, d) /\ MFeeds(d) = MFeeds(db)
       /\ MTombs(d) = MTombs(db) /\ MCats(d) = MCats(db) /\ d.serial = db.serial
  BY <1>2, <1>10, EntriesKeep
<1>12. MEntries(d) = X
  <2>1. X = [m \in DOMAIN X |-> X[m]] /\ DOMAIN X = DOMAIN MEntries(db)
    BY DEF N
  <2>2. \A i \in DOMAIN db.entries : X[db.entries[i].mid] = EntryView(db, d.entries[i])
    <3> SUFFICES ASSUME NEW i \in DOMAIN t PROVE X[t[i].mid] = EntryView(db, R[i])
      BY <1>10
    <3>1. CASE i \in S
      BY <1>2, <1>5, <1>7, <1>8, <3>1
    <3>2. CASE i \notin S
      BY <1>5, <1>7, <3>2
    <3>. QED  BY <3>1, <3>2
  <2> HIDE DEF X, R
  <2>. QED  BY <1>2, <1>10, <2>1, <2>2, EntriesMapped
<1>13. Mem!SetStarred(es, on)
  BY <1>4, <1>11, <1>12, ViewNow, ViewNext DEF Mem!SetStarred, N
<1>14. Mem!Next
  BY <1>5, <1>13 DEF Mem!Next
<1>. QED  BY <1>4, <1>11, <1>14 DEF Refined

LEMMA OneRowMapped ==
    ASSUME NEW d, Sound(d), Distinct(d), NEW x, SameRows(d, x), AllTimed(x),
           NEW i \in DOMAIN d.entries,
           \A j \in DOMAIN d.entries : j # i => EntryView(d, x.entries[j]) = EntryView(d, d.entries[j])
    PROVE  MEntries(x) = [MEntries(d) EXCEPT ![d.entries[i].mid] = EntryView(d, x.entries[i])]
<1> DEFINE N == MEntries(d)
           V == EntryView(d, x.entries[i])
           k == d.entries[i].mid
           X == [N EXCEPT ![k] = V]
<1>1. /\ N = [m \in DOMAIN N |-> N[m]]
      /\ \A j \in DOMAIN d.entries : d.entries[j].mid \in DOMAIN N
      /\ \A j \in DOMAIN d.entries : N[d.entries[j].mid] = EntryView(d, d.entries[j])
  <2>1. d.serial \in Nat
    BY DEF Sound, Databases
  <2>. QED  BY <2>1, EntriesShown
<1>2. \A j \in DOMAIN d.entries : d.entries[j].mid = k <=> j = i
  BY DEF Distinct, Named
<1> HIDE DEF N, k, V
<1>3. X = [m \in DOMAIN X |-> X[m]] /\ DOMAIN X = DOMAIN N
  BY <1>1
<1>4. \A j \in DOMAIN d.entries : X[d.entries[j].mid] = EntryView(d, x.entries[j])
  <2> SUFFICES ASSUME NEW j \in DOMAIN d.entries
               PROVE  X[d.entries[j].mid] = EntryView(d, x.entries[j])
    OBVIOUS
  <2>1. d.entries[j].mid \in DOMAIN N
    BY <1>1
  <2>2. CASE j = i
    BY <1>1, <1>2, <2>1, <2>2 DEF V
  <2>3. CASE j # i
    BY <1>1, <1>2, <2>1, <2>3
  <2>. QED  BY <2>2, <2>3
<1> HIDE DEF X
<1>5. MEntries(x) = X
  BY <1>3, <1>4, EntriesMapped DEF N
<1>. QED  BY <1>5 DEF X, N, k, V

LEMMA TextUpdated ==
    ASSUME NEW d \in Databases, Distinct(d), NEW i \in DOMAIN d.entries, NEW e,
           SameRow(e, d.entries[i]), Timed(e), NEW x, x = UpdateText(d, i, e)
    PROVE  /\ SameRows(d, x) /\ AllTimed(x) /\ x.entries[i] = e
           /\ \A j \in DOMAIN d.entries : j # i => x.entries[j] = d.entries[j]
<1> DEFINE t == d.entries
           E == [t EXCEPT ![i] = e]
<1>1. /\ x.entries = E /\ x.feeds = d.feeds /\ x.tombstones = d.tombstones
      /\ x.categories = d.categories /\ x.serial = d.serial /\ x.feedSeq = d.feedSeq
  BY DEF Databases, UpdateText
<1>2. t = [j \in DOMAIN t |-> t[j]]
  <2>1. d.entries \in Tables(EntryRow)
    BY DEF Databases
  <2>. QED  BY <2>1, TableFacts
<1>3. i \in DOMAIN t /\ SameRow(e, t[i]) /\ \A j \in DOMAIN t : Timed(t[j]) /\ SameRow(t[j], t[j])
  BY DEF Distinct, AllTimed, SameRow, SameItem
<1> HIDE DEF t
<1>4. DOMAIN E = DOMAIN t /\ E[i] = e /\ \A j \in DOMAIN t : j # i => E[j] = t[j]
  BY <1>2, <1>3
<1> HIDE DEF E
<1>5. \A j \in DOMAIN t : SameRow(E[j], t[j]) /\ Timed(E[j])
  BY <1>3, <1>4
<1>. QED  BY <1>1, <1>4, <1>5 DEF SameRows, AllTimed, t

LEMMA SetEntryContentRefines ==
    ASSUME IInv, Distinct(db), NEW i, SetEntryContent(i)
    PROVE  Refined
<1> DEFINE o == db.entries[i]
           r == [o EXCEPT !.content = Article, !.ctext = PlainText(Article), !.ext = "done",
                          !.next = NoTime, !.reason = FALSE]
           x == UpdateText(db, i, r)
           d == IF o.ext = "pending" THEN x ELSE db
           N == MEntries(db)
           n == MidEntry(i)
<1>1. phase = "open" /\ i \in DOMAIN db.entries
  BY DEF SetEntryContent, Call
<1>2. Sound(db) /\ db \in Databases /\ db.serial \in Nat /\ o \in EntryRow /\ db.migrated
  BY <1>1, OpenView, OpenFacts
<1>3. Call(d, <<"SetEntryContent", n, "ok">>)
  BY DEF SetEntryContent
<1>4. db' = d /\ MemAnswer' = <<"SetEntryContent", n, "ok">>
  BY <1>3, CallAnswers
<1>5. n \in Mem!EntryIds /\ n = o.mid
  BY <1>1, IdsShown
<1>6. /\ N = [m \in DOMAIN N |-> N[m]] /\ n \in DOMAIN N /\ N[n] = EntryView(db, o)
  BY <1>1, <1>2, <1>5, EntriesShown
<1> HIDE DEF d, n, N, o
<1>7. SameRow(r, o) /\ Timed(r) /\ N[n].ext = o.ext
  <2>1. EntryView(db, o).ext = o.ext
    BY DEF EntryView
  <2>. QED  BY <1>2, <1>6, <2>1 DEF SameRow, SameItem, Timed, EntryRow
<1>8. EntryView(db, r) = [N[n] EXCEPT !.content = Article, !.ext = "done", !.reason = FALSE,
                                     !.next = NoTime]
  <2> DEFINE no == FALSE
             V == EntryView(db, o)
             a == [o EXCEPT !.content = Article]
             b == [a EXCEPT !.ctext = PlainText(Article)]
             c == [b EXCEPT !.ext = "done"]
             e == [c EXCEPT !.reason = no]
             f == [e EXCEPT !.next = NoTime]
  <2>1. r = f
    BY <1>2 DEF EntryRow
  <2>2. a \in EntryRow /\ EntryView(db, a) = [V EXCEPT !.content = Article]
    BY <1>2 DEF EntryRow, EntryView
  <2> HIDE DEF a
  <2>3. b \in EntryRow /\ EntryView(db, b) = EntryView(db, a)
    <3>1. PlainText(Article) \in SUBSET Words
      BY SqliteStoreAssumption DEF PlainText
    <3>. QED  BY <2>2, <3>1 DEF EntryRow, EntryView
  <2> HIDE DEF b
  <2>4. c \in EntryRow /\ EntryView(db, c) = [EntryView(db, b) EXCEPT !.ext = "done"]
    BY <2>3 DEF EntryRow, EntryView
  <2> HIDE DEF c
  <2>5. e \in EntryRow /\ EntryView(db, e) = [EntryView(db, c) EXCEPT !.reason = no]
    <3>1. no \in BOOLEAN
      OBVIOUS
    <3> HIDE DEF no
    <3>. QED  BY <2>4, <3>1 DEF EntryRow, EntryView
  <2> HIDE DEF e
  <2>6. EntryView(db, f) = [EntryView(db, e) EXCEPT !.next = NoTime]
    BY <2>5 DEF EntryRow, EntryView
  <2> HIDE DEF f, V
  <2>7. [[[[V EXCEPT !.content = Article] EXCEPT !.ext = "done"] EXCEPT !.reason = FALSE]
            EXCEPT !.next = NoTime]
            = [V EXCEPT !.content = Article, !.ext = "done", !.reason = FALSE, !.next = NoTime]
    OBVIOUS
  <2>. QED  BY <1>6, <2>1, <2>2, <2>3, <2>4, <2>5, <2>6, <2>7 DEF V
<1> HIDE DEF r
<1>9. /\ SameRows(db, x) /\ AllTimed(x) /\ x.entries[i] = r
      /\ \A j \in DOMAIN db.entries : j # i => x.entries[j] = db.entries[j]
  BY <1>1, <1>2, <1>7, TextUpdated DEF o
<1> HIDE DEF x
<1>10. /\ Distinct(x) /\ Keeps(db, x) /\ MFeeds(x) = MFeeds(db)
       /\ MTombs(x) = MTombs(db) /\ MCats(x) = MCats(db) /\ x.serial = db.serial
  BY <1>2, <1>9, EntriesKeep
<1>11. MEntries(x) = [N EXCEPT ![n] = EntryView(db, r)]
  BY <1>1, <1>2, <1>5, <1>9, OneRowMapped DEF N, o
<1>12. MEntries(d) = IF N[n].ext = "pending"
                     THEN [N EXCEPT ![n].content = Article, ![n].ext = "done",
                                    ![n].reason = FALSE, ![n].next = NoTime]
                     ELSE N
  <2>1. [N EXCEPT ![n].content = Article, ![n].ext = "done", ![n].reason = FALSE,
                  ![n].next = NoTime] = [N EXCEPT ![n] = EntryView(db, r)]
    BY <1>6, <1>8
  <2>. QED  BY <1>7, <1>11, <2>1 DEF d, N
<1>13. /\ Distinct(d) /\ Keeps(db, d) /\ MFeeds(d) = MFeeds(db)
       /\ MTombs(d) = MTombs(db) /\ MCats(d) = MCats(db) /\ d.serial = db.serial
  BY <1>2, <1>10, KeepsSelf DEF d
<1>14. Mem!SetEntryContent(n)
  BY <1>4, <1>6, <1>12, <1>13, ViewNow, ViewNext DEF Mem!SetEntryContent, Mem!NoTime, NoTime, N
<1>15. Mem!Next
  BY <1>5, <1>14 DEF Mem!Next
<1>. QED  BY <1>4, <1>13, <1>15 DEF Refined

LEMMA UpdateExtractRefines ==
    ASSUME IInv, Distinct(db), NEW i, NEW k \in 0..MaxAttempts,
           NEW ext \in {"pending", "failed"}, NEW next,
           IF ext = "pending" THEN next \in Times ELSE next = NoTime,
           UpdateExtractState(i, ext, k, next)
    PROVE  Refined
<1> DEFINE t == db.entries
           o == t[i]
           new(e) == [e EXCEPT !.ext = ext, !.attempts = k, !.next = next, !.reason = TRUE]
           r == new(o)
           R == [j \in DOMAIN t |-> IF j \in {i} THEN new(t[j]) ELSE t[j]]
           d == [db EXCEPT !.entries = R]
           N == MEntries(db)
           n == MidEntry(i)
<1>1. phase = "open" /\ i \in DOMAIN t
  BY DEF UpdateExtractState, Call
<1>2. /\ Sound(db) /\ db \in Databases /\ db.serial \in Nat
      /\ \A j \in DOMAIN t : t[j] \in EntryRow
  BY <1>1, OpenView, OpenFacts
<1>3. Call(d, <<"UpdateExtractState", n, ext, k, next, "ok">>)
  BY DEF UpdateExtractState, UpdateRows
<1>4. db' = d /\ MemAnswer' = <<"UpdateExtractState", n, ext, k, next, "ok">>
  <2> HIDE DEF d, n
  <2>1. <<"UpdateExtractState", n, ext, k, next, "ok">>[1] # "DeleteEntry"
    OBVIOUS
  <2>. QED  BY <1>3, <2>1, CallAnswers
<1>5. n \in Mem!EntryIds /\ n = o.mid
  BY <1>1, IdsShown
<1>6. /\ N = [m \in DOMAIN N |-> N[m]] /\ n \in DOMAIN N /\ N[n] = EntryView(db, o)
  BY <1>1, <1>2, <1>5, EntriesShown
<1>7. o \in EntryRow /\ next \in Times \cup {NoTime} /\ NoTime \notin Times
  BY <1>1, <1>2, SqliteStoreAssumption DEF NoTime
<1> HIDE DEF N, n
<1>8. r \in EntryRow /\ SameRow(r, o) /\ Timed(r)
  <2> HIDE DEF o
  <2>. QED  BY <1>7 DEF EntryRow, SameRow, SameItem, Timed
<1>9. EntryView(db, r) = [N[n] EXCEPT !.ext = ext, !.attempts = k, !.next = next,
                                     !.reason = TRUE]
  <2> DEFINE yes == TRUE
             V == EntryView(db, o)
             a == [o EXCEPT !.ext = ext]
             b == [a EXCEPT !.attempts = k]
             c == [b EXCEPT !.next = next]
             e == [c EXCEPT !.reason = yes]
  <2> HIDE DEF o
  <2>1. r = e
    BY <1>7 DEF EntryRow
  <2>2. a \in EntryRow /\ EntryView(db, a) = [V EXCEPT !.ext = ext]
    BY <1>7 DEF EntryRow, EntryView
  <2> HIDE DEF a
  <2>3. b \in EntryRow /\ EntryView(db, b) = [EntryView(db, a) EXCEPT !.attempts = k]
    BY <2>2 DEF EntryRow, EntryView
  <2> HIDE DEF b
  <2>4. c \in EntryRow /\ EntryView(db, c) = [EntryView(db, b) EXCEPT !.next = next]
    BY <1>7, <2>3 DEF EntryRow, EntryView
  <2> HIDE DEF c
  <2>5. EntryView(db, e) = [EntryView(db, c) EXCEPT !.reason = yes]
    <3> HIDE DEF yes
    <3>. QED  BY <2>4 DEF EntryRow, EntryView
  <2> HIDE DEF e, V
  <2>6. [[[[V EXCEPT !.ext = ext] EXCEPT !.attempts = k] EXCEPT !.next = next]
            EXCEPT !.reason = TRUE]
            = [V EXCEPT !.ext = ext, !.attempts = k, !.next = next, !.reason = TRUE]
    OBVIOUS
  <2>. QED  BY <1>6, <2>1, <2>2, <2>3, <2>4, <2>5, <2>6 DEF V
<1>10. R = [j \in DOMAIN t |-> IF j = i THEN r ELSE t[j]]
  OBVIOUS
<1> HIDE DEF r
<1>11. /\ R \in [DOMAIN t -> EntryRow]
       /\ \A j \in DOMAIN t : SameRow(R[j], t[j]) /\ Timed(R[j])
       /\ \A j \in DOMAIN t : j # i => R[j] = t[j]
       /\ R[i] = r
  <2>1. \A j \in DOMAIN t : Timed(t[j]) /\ SameRow(t[j], t[j])
    BY DEF Distinct, AllTimed, SameRow, SameItem
  <2> HIDE DEF R, new
  <2>. QED  BY <1>1, <1>2, <1>8, <1>10, <2>1
<1> HIDE DEF R
<1>12. SameRows(db, d) /\ AllTimed(d) /\ d.entries = R
  BY <1>2, <1>11, RowsUpdated
<1> HIDE DEF d
<1>13. /\ Distinct(d) /\ Keeps(db, d) /\ MFeeds(d) = MFeeds(db)
       /\ MTombs(d) = MTombs(db) /\ MCats(d) = MCats(db) /\ d.serial = db.serial
  BY <1>2, <1>12, EntriesKeep
<1>14. MEntries(d) = [N EXCEPT ![n] = EntryView(db, r)]
  <2>1. \A j \in DOMAIN db.entries :
            j # i => EntryView(db, d.entries[j]) = EntryView(db, db.entries[j])
    BY <1>11, <1>12
  <2>. QED  BY <1>1, <1>2, <1>5, <1>11, <1>12, <2>1, OneRowMapped DEF N
<1>15. MEntries(d) = [N EXCEPT ![n].ext = ext, ![n].attempts = k, ![n].next = next,
                               ![n].reason = TRUE]
  BY <1>6, <1>9, <1>14
<1>16. Mem!UpdateExtractState(n, ext, k, next)
  BY <1>4, <1>6, <1>13, <1>15, ViewNow, ViewNext DEF Mem!UpdateExtractState, N
<1>17. Mem!Next
  <2>1. CASE ext = "pending"
    BY <1>5, <1>16, <2>1 DEF Mem!Next
  <2>2. CASE ext = "failed"
    <3>1. next = Mem!NoTime
      BY <2>2 DEF Mem!NoTime, NoTime
    <3>. QED  BY <1>5, <1>16, <2>2, <3>1 DEF Mem!Next
  <2>. QED  BY <2>1, <2>2
<1>. QED  BY <1>4, <1>13, <1>17 DEF Refined

\* The backlog of a feed, queued or cancelled, in the columns of both stores.
Queued(e, at) == [e EXCEPT !.ext = "pending", !.attempts = 0, !.reason = FALSE, !.next = at]
Cancelled(e) == [e EXCEPT !.ext = "none", !.reason = FALSE, !.next = NoTime]

LEMMA QueuedShown ==
    ASSUME NEW o \in EntryRow, NEW at \in Times
    PROVE  /\ Queued(o, at) \in EntryRow /\ SameRow(Queued(o, at), o) /\ Timed(Queued(o, at))
           /\ EntryView(db, Queued(o, at)) = Queued(EntryView(db, o), at)
           /\ Queued(o, at) = [o EXCEPT !.ext = "pending", !.next = at, !.attempts = 0,
                                        !.reason = FALSE]
<1> DEFINE no == FALSE
           V == EntryView(db, o)
           a == [o EXCEPT !.ext = "pending"]
           b == [a EXCEPT !.attempts = 0]
           c == [b EXCEPT !.reason = no]
           e == [c EXCEPT !.next = at]
<1>1. 0 \in 0..MaxAttempts /\ NoTime \notin Times
  BY SqliteStoreAssumption DEF NoTime
<1>2. /\ Queued(o, at) = e
      /\ Queued(o, at) = [o EXCEPT !.ext = "pending", !.next = at, !.attempts = 0,
                                   !.reason = FALSE]
  BY DEF EntryRow, Queued
<1>3. /\ Queued(o, at) \in EntryRow /\ SameRow(Queued(o, at), o) /\ Timed(Queued(o, at))
  BY <1>1 DEF EntryRow, Queued, SameRow, SameItem, Timed
<1>4. a \in EntryRow /\ EntryView(db, a) = [V EXCEPT !.ext = "pending"]
  BY DEF EntryRow, EntryView
<1> HIDE DEF a
<1>5. b \in EntryRow /\ EntryView(db, b) = [EntryView(db, a) EXCEPT !.attempts = 0]
  BY <1>1, <1>4 DEF EntryRow, EntryView
<1> HIDE DEF b
<1>6. c \in EntryRow /\ EntryView(db, c) = [EntryView(db, b) EXCEPT !.reason = no]
  <2>1. no \in BOOLEAN
    OBVIOUS
  <2> HIDE DEF no
  <2>. QED  BY <1>5, <2>1 DEF EntryRow, EntryView
<1> HIDE DEF c
<1>7. EntryView(db, e) = [EntryView(db, c) EXCEPT !.next = at]
  BY <1>6 DEF EntryRow, EntryView
<1> HIDE DEF e, V
<1>8. [[[[V EXCEPT !.ext = "pending"] EXCEPT !.attempts = 0] EXCEPT !.reason = FALSE]
          EXCEPT !.next = at] = Queued(V, at)
  BY DEF Queued
<1>. QED  BY <1>2, <1>3, <1>4, <1>5, <1>6, <1>7, <1>8 DEF V

LEMMA CancelledShown ==
    ASSUME NEW o \in EntryRow
    PROVE  /\ Cancelled(o) \in EntryRow /\ SameRow(Cancelled(o), o) /\ Timed(Cancelled(o))
           /\ EntryView(db, Cancelled(o)) = Cancelled(EntryView(db, o))
           /\ Cancelled(o) = [o EXCEPT !.ext = "none", !.next = NoTime, !.reason = FALSE]
<1> DEFINE no == FALSE
           V == EntryView(db, o)
           a == [o EXCEPT !.ext = "none"]
           c == [a EXCEPT !.reason = no]
           e == [c EXCEPT !.next = NoTime]
<1>2. /\ Cancelled(o) = e
      /\ Cancelled(o) = [o EXCEPT !.ext = "none", !.next = NoTime, !.reason = FALSE]
  BY DEF EntryRow, Cancelled
<1>3. /\ Cancelled(o) \in EntryRow /\ SameRow(Cancelled(o), o) /\ Timed(Cancelled(o))
  BY DEF EntryRow, Cancelled, SameRow, SameItem, Timed
<1>4. a \in EntryRow /\ EntryView(db, a) = [V EXCEPT !.ext = "none"]
  BY DEF EntryRow, EntryView
<1> HIDE DEF a
<1>6. c \in EntryRow /\ EntryView(db, c) = [EntryView(db, a) EXCEPT !.reason = no]
  <2>1. no \in BOOLEAN
    OBVIOUS
  <2> HIDE DEF no
  <2>. QED  BY <1>4, <2>1 DEF EntryRow, EntryView
<1> HIDE DEF c
<1>7. EntryView(db, e) = [EntryView(db, c) EXCEPT !.next = NoTime]
  BY <1>6 DEF EntryRow, EntryView
<1> HIDE DEF e, V
<1>8. [[[V EXCEPT !.ext = "none"] EXCEPT !.reason = FALSE] EXCEPT !.next = NoTime]
          = Cancelled(V)
  BY DEF Cancelled
<1>. QED  BY <1>2, <1>3, <1>4, <1>6, <1>7, <1>8 DEF V

LEMMA SetFeedFullContentRefines ==
    ASSUME IInv, Distinct(db), NEW f, NEW on \in BOOLEAN, NEW at \in Times,
           SetFeedFullContent(f, on, at)
    PROVE  Refined
<1> DEFINE t == db.entries
           o == db.feeds[f]
           r == [o EXCEPT !.full = on]
           y == IF f \in DOMAIN db.feeds THEN [db EXCEPT !.feeds[f] = r] ELSE db
           Q == IF on THEN {"none", "failed"} ELSE {"pending", "failed"}
           S == {i \in DOMAIN t : t[i].feed = f /\ t[i].ext \in Q}
           new(e) == IF on THEN Queued(e, at) ELSE Cancelled(e)
           R == [i \in DOMAIN t |-> IF i \in S THEN new(t[i]) ELSE t[i]]
           x == [y EXCEPT !.entries = R]
           d == IF f \in DOMAIN db.feeds THEN x ELSE db
           n == FeedNo(db, f)
           M == MFeeds(db)
           N == MEntries(db)
           hit == {e \in DOMAIN N : n \in DOMAIN M /\ N[e].feed = n /\ N[e].ext \in Q}
           X == [e \in DOMAIN N |-> IF e \notin hit THEN N[e]
                    ELSE IF on THEN Queued(N[e], at) ELSE Cancelled(N[e])]
<1>1. phase = "open"
  BY DEF SetFeedFullContent, Call
<1>2. /\ Sound(db) /\ db \in Databases /\ Refs(db) /\ db.serial \in Nat
      /\ n \in Mem!FeedIds /\ db.feedSeq \in Nat
  BY <1>1, OpenView, OpenFacts
<1>3. /\ \A i \in DOMAIN t : t[i] \in EntryRow
      /\ f \in DOMAIN db.feeds => o \in FeedRow /\ o.cat \in DOMAIN db.categories \cup {None}
  BY <1>1, <1>2, OpenFacts DEF Refs
<1>4. /\ f \in DOMAIN db.feeds <=> n \in DOMAIN M
      /\ f \in DOMAIN db.feeds => M[n] = FeedView(db, o)
      /\ \A g \in DOMAIN db.feeds : FeedNo(db, g) = db.feeds[g].mid
  BY <1>2, FeedsShown
<1>5. Call(d, <<"SetFeedFullContent", n, on, at, Found(f)>>)
  <2>1. \A i \in DOMAIN t : /\ Queued(t[i], at) = [t[i] EXCEPT !.ext = "pending", !.next = at,
                                                     !.attempts = 0, !.reason = FALSE]
                            /\ Cancelled(t[i]) = [t[i] EXCEPT !.ext = "none", !.next = NoTime,
                                                     !.reason = FALSE]
    BY <1>3, QueuedShown, CancelledShown
  <2>2. f \in DOMAIN db.feeds => y.entries = t
    BY <1>2 DEF Databases
  <2> DEFINE of == {i \in DOMAIN t : t[i].feed = f}
             S1 == {i \in of : t[i].ext \in {"none", "failed"}}
             S2 == {i \in of : t[i].ext \in {"pending", "failed"}}
             R1 == [i \in DOMAIN t |-> IF i \in S1 THEN [t[i] EXCEPT !.ext = "pending",
                       !.next = at, !.attempts = 0, !.reason = FALSE] ELSE t[i]]
             R2 == [i \in DOMAIN t |-> IF i \in S2 THEN [t[i] EXCEPT !.ext = "none",
                       !.next = NoTime, !.reason = FALSE] ELSE t[i]]
  <2>3. on => S = S1 /\ R = R1
    BY <2>1
  <2>4. ~on => S = S2 /\ R = R2
    BY <2>1
  <2>5. CASE f \notin DOMAIN db.feeds
    BY <2>5, MidIsNo DEF SetFeedFullContent
  <2>6. CASE f \in DOMAIN db.feeds /\ on
    <3>1. UpdateFeedRow(f, LAMBDA q : [q EXCEPT !.full = on]) = y
      BY <2>6 DEF UpdateFeedRow
    <3>2. UpdateRows(y, S1, LAMBDA e : [e EXCEPT !.ext = "pending", !.next = at,
                !.attempts = 0, !.reason = FALSE]) = x
      BY <2>2, <2>3, <2>6 DEF UpdateRows
    <3>. QED  BY <2>6, <3>1, <3>2, MidIsNo DEF SetFeedFullContent
  <2>7. CASE f \in DOMAIN db.feeds /\ ~on
    <3>1. UpdateFeedRow(f, LAMBDA q : [q EXCEPT !.full = on]) = y
      BY <2>7 DEF UpdateFeedRow
    <3>2. UpdateRows(y, S2, LAMBDA e : [e EXCEPT !.ext = "none", !.next = NoTime,
                !.reason = FALSE]) = x
      BY <2>2, <2>4, <2>7 DEF UpdateRows
    <3>. QED  BY <2>7, <3>1, <3>2, MidIsNo DEF SetFeedFullContent
  <2>. QED  BY <2>5, <2>6, <2>7
<1>6. db' = d /\ MemAnswer' = <<"SetFeedFullContent", n, on, at, Found(f)>>
  <2> HIDE DEF d, n
  <2>1. <<"SetFeedFullContent", n, on, at, Found(f)>>[1] # "DeleteEntry"
    OBVIOUS
  <2>. QED  BY <1>5, <2>1, CallAnswers
<1> HIDE DEF o
<1>7. f \in DOMAIN db.feeds =>
          /\ r.mid = o.mid /\ FeedView(db, r) = [FeedView(db, o) EXCEPT !.full = on]
          /\ r \in FeedRow /\ r.cat \in DOMAIN db.categories \cup {None}
  BY <1>3 DEF FeedRow, FeedView
<1> HIDE DEF r, M, N, n
<1>8. /\ N = [m \in DOMAIN N |-> N[m]] /\ M = [m \in DOMAIN M |-> M[m]]
      /\ DOMAIN N = MidsOf(t, DOMAIN t)
      /\ \A i \in DOMAIN t : t[i].mid \in DOMAIN N
      /\ \A i \in DOMAIN t : N[t[i].mid] = EntryView(db, t[i])
  BY <1>2, EntriesShown DEF M, N, MFeeds, Renum
<1>9. CASE f \notin DOMAIN db.feeds
  <2>1. d = db /\ hit = {}
    BY <1>4, <1>9
  <2>2. X = N
    <3> HIDE DEF hit
    <3>. QED  BY <1>8, <2>1
  <2>3. Mem!SetFeedFullContent(n, on, at)
    <3>1. /\ MFeeds(db') = IF n \in DOMAIN M THEN [M EXCEPT ![n].full = on] ELSE M
          /\ MEntries(db') = X /\ MTombs(db') = MTombs(db) /\ MCats(db') = MCats(db)
          /\ db'.serial = db.serial
      BY <1>4, <1>6, <1>9, <2>1, <2>2 DEF M, N
    <3> HIDE DEF d
    <3>2. MemAnswer' = <<"SetFeedFullContent", n, on, at,
                         IF n \in DOMAIN M THEN "ok" ELSE "notfound">>
      BY <1>4, <1>6 DEF Found
    <3>. QED  BY <3>1, <3>2, ViewNow, ViewNext
              DEF Mem!SetFeedFullContent, Mem!NoTime, NoTime, M, N, Queued, Cancelled
  <2>4. Mem!Next
    BY <1>2, <2>3 DEF Mem!Next
  <2>. QED  BY <1>2, <1>6, <2>1, <2>4, KeepsSelf DEF Refined
<1>10. CASE f \in DOMAIN db.feeds
  <2>1. /\ Distinct(y) /\ y.serial = db.serial
        /\ MEntries(y) = N /\ MTombs(y) = MTombs(db) /\ MCats(y) = MCats(db)
        /\ MFeeds(y) = [M EXCEPT ![n] = FeedView(db, r)]
    BY <1>1, <1>7, <1>10, FeedRowShown DEF o, M, N, n
  <2>2. Sound(y) /\ y.entries = t
    BY <1>1, <1>7, FeedCallFits
  <2>3. /\ DOMAIN y.feeds = DOMAIN db.feeds /\ y.feedSeq = db.feedSeq
        /\ \A g : FeedNo(y, g) = FeedNo(db, g)
    <3> DEFINE F == [db.feeds EXCEPT ![f] = r]
    <3>1. y.feeds = F /\ y.feedSeq = db.feedSeq
      BY <1>2, <1>10 DEF Databases
    <3>2. DOMAIN F = DOMAIN db.feeds /\ \A g \in DOMAIN db.feeds : F[g].mid = db.feeds[g].mid
      BY <1>7, <1>10 DEF o
    <3> HIDE DEF F, y
    <3>. QED  BY <2>1, <3>1, <3>2 DEF FeedNo
  <2>4. y \in Databases /\ d = x
    BY <1>10, <2>2 DEF Sound
  <2> HIDE DEF y
  <2>5. /\ R \in [DOMAIN y.entries -> EntryRow]
        /\ \A i \in DOMAIN y.entries : SameRow(R[i], y.entries[i]) /\ Timed(R[i])
    <3>1. \A i \in DOMAIN t : Timed(t[i]) /\ SameRow(t[i], t[i])
      BY DEF Distinct, AllTimed, SameRow, SameItem
    <3>2. \A i \in DOMAIN t : new(t[i]) \in EntryRow /\ SameRow(new(t[i]), t[i]) /\ Timed(new(t[i]))
      BY <1>3, QueuedShown, CancelledShown
    <3> HIDE DEF new, S
    <3>. QED  BY <1>3, <2>2, <3>1, <3>2
  <2>6. SameRows(y, x) /\ AllTimed(x) /\ x.entries = R
    <3> HIDE DEF R
    <3>. QED  BY <2>4, <2>5, RowsUpdated
  <2> HIDE DEF x
  <2>7. /\ Distinct(x) /\ Keeps(y, x) /\ MFeeds(x) = MFeeds(y)
        /\ MTombs(x) = MTombs(y) /\ MCats(x) = MCats(y) /\ x.serial = y.serial
    BY <2>1, <2>2, <2>6, EntriesKeep
  <2>8. Keeps(db, x)
    <3>1. x.feeds = y.feeds /\ x.feedSeq = db.feedSeq /\ x.serial = db.serial
      BY <2>1, <2>3, <2>6 DEF SameRows
    <3>2. db.serial <= x.serial /\ db.feedSeq <= x.feedSeq
      BY <1>2, <3>1
    <3>3. DOMAIN x.entries = DOMAIN t /\ \A i \in DOMAIN t : SameRow(x.entries[i], t[i])
      BY <2>2, <2>6 DEF SameRows
    <3>. QED  BY <2>3, <3>1, <3>2, <3>3 DEF Keeps
  <2>9. MEntries(x) = X
    <3>1. X = [m \in DOMAIN X |-> X[m]] /\ DOMAIN X = DOMAIN MEntries(y)
      BY <2>1
    <3>2. \A i \in DOMAIN t : t[i].mid \in hit <=> i \in S
      <4>1. \A i \in DOMAIN t : EntryView(db, t[i]).feed = FeedNo(db, t[i].feed)
                                /\ EntryView(db, t[i]).ext = t[i].ext
        BY DEF EntryView
      <4>2. \A i \in DOMAIN t : FeedNo(db, t[i].feed) = n <=> t[i].feed = f
        <5>1. \A i \in DOMAIN t : t[i].feed \in DOMAIN db.feeds
          BY <1>2 DEF Refs
        <5>2. \A g, h \in DOMAIN db.feeds : db.feeds[g].mid = db.feeds[h].mid => g = h
          BY DEF Distinct, Named
        <5>. QED  BY <1>4, <1>10, <5>1, <5>2 DEF n
      <4> HIDE DEF Q
      <4>. QED  BY <1>4, <1>8, <1>10, <4>1, <4>2
    <3>3. \A e : EntryView(y, e) = EntryView(db, e)
      BY <2>3 DEF EntryView
    <3>4. \A i \in DOMAIN y.entries : X[y.entries[i].mid] = EntryView(y, x.entries[i])
      <4> SUFFICES ASSUME NEW i \in DOMAIN t PROVE X[t[i].mid] = EntryView(db, R[i])
        BY <2>2, <2>6, <3>3
      <4> HIDE DEF hit, S
      <4>1. CASE i \in S
        <5>1. X[t[i].mid] = IF on THEN Queued(N[t[i].mid], at) ELSE Cancelled(N[t[i].mid])
          BY <1>8, <3>2, <4>1
        <5>2. R[i] = IF on THEN Queued(t[i], at) ELSE Cancelled(t[i])
          BY <4>1
        <5>3. EntryView(db, Queued(t[i], at)) = Queued(EntryView(db, t[i]), at)
          BY <1>3, QueuedShown
        <5>4. EntryView(db, Cancelled(t[i])) = Cancelled(EntryView(db, t[i]))
          BY <1>3, CancelledShown
        <5> HIDE DEF X, R
        <5>. QED  BY <1>8, <5>1, <5>2, <5>3, <5>4
      <4>2. CASE i \notin S
        BY <1>8, <3>2, <4>2
      <4>. QED  BY <4>1, <4>2
    <3> HIDE DEF X, R
    <3>. QED  BY <2>1, <2>2, <2>6, <3>1, <3>4, EntriesMapped
  <2>10. Mem!SetFeedFullContent(n, on, at)
    <3>1. MFeeds(db') = IF n \in DOMAIN M THEN [M EXCEPT ![n].full = on] ELSE M
      <4>1. MFeeds(x) = [M EXCEPT ![n] = [M[n] EXCEPT !.full = on]]
        BY <1>4, <1>7, <1>10, <2>1, <2>7
      <4>2. [M EXCEPT ![n].full = on] = [M EXCEPT ![n] = [M[n] EXCEPT !.full = on]]
        BY <1>4, <1>8, <1>10
      <4>. QED  BY <1>4, <1>6, <1>10, <2>4, <4>1, <4>2
    <3>2. /\ MEntries(db') = X /\ MTombs(db') = MTombs(db) /\ MCats(db') = MCats(db)
          /\ db'.serial = db.serial
      BY <1>6, <2>1, <2>4, <2>7, <2>9
    <3> HIDE DEF d
    <3>3. MemAnswer' = <<"SetFeedFullContent", n, on, at,
                         IF n \in DOMAIN M THEN "ok" ELSE "notfound">>
      BY <1>4, <1>6 DEF Found
    <3>. QED  BY <3>1, <3>2, <3>3, ViewNow, ViewNext
              DEF Mem!SetFeedFullContent, Mem!NoTime, NoTime, M, N, Queued, Cancelled
  <2>11. Mem!Next
    BY <1>2, <2>10 DEF Mem!Next
  <2>. QED  BY <1>6, <2>4, <2>7, <2>8, <2>11 DEF Refined
<1>. QED  BY <1>9, <1>10

\* The numbers of rows are as many as the rows.
LEMMA MidsCount ==
    ASSUME NEW t, NEW n, Named(t, n), NEW S \in SUBSET DOMAIN t, IsFiniteSet(S)
    PROVE  /\ IsFiniteSet(MidsOf(t, S)) /\ Cardinality(MidsOf(t, S)) = Cardinality(S)
<1> DEFINE g == [i \in S |-> t[i].mid]
           T == MidsOf(t, S)
<1>1. g \in [S -> T] /\ \A m \in T : \E i \in S : g[i] = m
  BY DEF MidsOf
<1>2. \A i, j \in S : g[i] = g[j] => i = j
  BY DEF Named
<1>3. DOMAIN g = S
  OBVIOUS
<1> HIDE DEF g, T
<1>4. g \in Bijection(S, T)
  BY <1>1, <1>2, <1>3 DEF Bijection, Injection, Surjection, IsInjective
<1>. QED  BY <1>4, FS_Bijection DEF ExistsBijection, T

LEMMA MemCount == \A S : Mem!Cardinality(S) = Cardinality(S)
  BY DEF Mem!Cardinality, Cardinality

\* A category and the numbers: told apart by them as by their rowids.
LEMMA CatNosApart ==
    ASSUME NEW d, Distinct(d), d.serial \in Nat \ {0}, DOMAIN d.categories \subseteq Nat \ {0},
           NEW a \in DOMAIN d.categories \cup {None}, NEW c
    PROVE  CatNo(d, a) = CatNo(d, c) <=> a = c
<1>1. Named(d.categories, d.serial)
  BY DEF Distinct
<1>2. \A x \in DOMAIN d.categories : d.categories[x].mid \in 1..d.serial - 1
  BY <1>1 DEF Named
<1>3. \A x, y \in DOMAIN d.categories : d.categories[x].mid = d.categories[y].mid => x = y
  BY <1>1 DEF Named
<1>4. \A x \in DOMAIN d.categories : d.categories[x].mid # None /\ d.categories[x].mid # d.serial
  BY <1>2 DEF None
<1>5. d.serial # None /\ None \notin DOMAIN d.categories
  BY DEF None
<1>. QED  BY <1>3, <1>4, <1>5 DEF CatNo

LEMMA FeedNosApart ==
    ASSUME NEW d, Distinct(d), d.serial \in Nat, NEW g \in DOMAIN d.feeds, NEW f
    PROVE  FeedNo(d, g) = FeedNo(d, f) <=> g = f
<1>1. \A x \in DOMAIN d.feeds : d.feeds[x].mid \in 1..d.serial - 1
  BY DEF Distinct, Named
<1>2. \A x, y \in DOMAIN d.feeds : d.feeds[x].mid = d.feeds[y].mid => x = y
  BY DEF Distinct, Named
<1>3. \A x \in DOMAIN d.feeds : d.feeds[x].mid # d.serial
  BY <1>1
<1>. QED  BY <1>2, <1>3 DEF FeedNo

\* A selection takes in an entry in both stores or in neither.
LEMMA Selects ==
    ASSUME IInv, Distinct(db), phase = "open", NEW sel \in Selections
    PROVE  /\ MidSel(sel) \in Mem!Selections
           /\ \A i \in DOMAIN db.entries :
                  db.entries[i].feed \in FeedsOf(sel)
                      <=> Mem!Selected(MEntries(db)[db.entries[i].mid], MidSel(sel))
<1> DEFINE M == MFeeds(db)
           N == MEntries(db)
           t == db.entries
           cat(g) == db.feeds[g].cat
<1>1. /\ db.serial \in Nat \ {0} /\ Refs(db) /\ db \in Databases
      /\ \A f : FeedNo(db, f) \in Mem!FeedIds
      /\ \A c \in CatIds : CatNo(db, c) \in Mem!CatIds
  BY OpenView, OpenFacts
<1>2. DOMAIN db.categories \subseteq Nat \ {0}
  <2>1. db.categories \in Tables(CatRow)
    BY <1>1 DEF Databases
  <2>. QED  BY <2>1, TableFacts
<1>3. \A i \in DOMAIN t : t[i].feed \in DOMAIN db.feeds
  BY <1>1 DEF Refs
<1>4. \A g \in DOMAIN db.feeds : cat(g) \in DOMAIN db.categories \cup {None}
  BY <1>1 DEF Refs
<1>5. \A i \in DOMAIN t : N[t[i].mid].feed = FeedNo(db, t[i].feed)
  <2>1. \A i \in DOMAIN t : EntryView(db, t[i]).feed = FeedNo(db, t[i].feed)
    BY DEF EntryView
  <2>2. \A i \in DOMAIN t : N[t[i].mid] = EntryView(db, t[i])
    BY <1>1, EntriesShown
  <2> HIDE DEF N, t
  <2>. QED  BY <2>1, <2>2
<1>6. \A g \in DOMAIN db.feeds : FeedNo(db, g) \in DOMAIN M
                                 /\ M[FeedNo(db, g)].cat = CatNo(db, cat(g))
  <2>1. \A g \in DOMAIN db.feeds : FeedView(db, db.feeds[g]).cat = CatNo(db, cat(g))
    BY DEF FeedView
  <2>2. \A g \in DOMAIN db.feeds : FeedNo(db, g) \in DOMAIN M
                                   /\ M[FeedNo(db, g)] = FeedView(db, db.feeds[g])
    BY <1>1, FeedsShown
  <2> HIDE DEF M, cat
  <2>. QED  BY <2>1, <2>2
<1>7. \A g \in DOMAIN db.feeds : \A c : CatNo(db, cat(g)) = CatNo(db, c) <=> cat(g) = c
  BY <1>1, <1>2, <1>4, CatNosApart
<1>8. \A g \in DOMAIN db.feeds : \A f : FeedNo(db, g) = FeedNo(db, f) <=> g = f
  BY <1>1, FeedNosApart
<1>9. CatNo(db, None) = None
  BY DEF CatNo
<1> HIDE DEF M, N, t
<1>10. ASSUME NEW f \in FeedIds, sel = <<"feed", f>>
       PROVE  /\ MidSel(sel) \in Mem!Selections
              /\ \A i \in DOMAIN t :
                     t[i].feed \in FeedsOf(sel) <=> Mem!Selected(N[t[i].mid], MidSel(sel))
  <2>1. sel[1] = "feed" /\ sel[2] = f
    BY <1>10
  <2>2. MidSel(sel) = <<"feed", FeedNo(db, f)>> /\ FeedsOf(sel) = {f}
    BY <2>1, MidIsNo DEF MidSel, FeedsOf
  <2>3. MidSel(sel) \in Mem!Selections
    BY <1>1, <2>2 DEF Mem!Selections
  <2>4. \A e : Mem!Selected(e, MidSel(sel)) <=> e.feed = FeedNo(db, f)
    BY <2>2 DEF Mem!Selected
  <2>. QED  BY <1>3, <1>5, <1>8, <2>2, <2>3, <2>4
<1>11. ASSUME NEW c \in CatIds, sel = <<"cat", c>>
       PROVE  /\ MidSel(sel) \in Mem!Selections
              /\ \A i \in DOMAIN t :
                     t[i].feed \in FeedsOf(sel) <=> Mem!Selected(N[t[i].mid], MidSel(sel))
  <2>1. sel[1] = "cat" /\ sel[2] = c
    BY <1>11
  <2>2. MidSel(sel) = <<"cat", CatNo(db, c)>>
        /\ FeedsOf(sel) = {f \in DOMAIN db.feeds : cat(f) = c}
    BY <2>1, MidIsNo DEF MidSel, FeedsOf
  <2>3. MidSel(sel) \in Mem!Selections
    BY <1>1, <2>2 DEF Mem!Selections
  <2>4. \A e : Mem!Selected(e, MidSel(sel)) <=> e.feed \in DOMAIN M /\ M[e.feed].cat = CatNo(db, c)
    BY <2>2, ViewNow DEF Mem!Selected, M
  <2> HIDE DEF cat
  <2>. QED  BY <1>3, <1>5, <1>6, <1>7, <2>2, <2>3, <2>4
<1>12. ASSUME sel = <<"uncat">>
       PROVE  /\ MidSel(sel) \in Mem!Selections
              /\ \A i \in DOMAIN t :
                     t[i].feed \in FeedsOf(sel) <=> Mem!Selected(N[t[i].mid], MidSel(sel))
  <2>1. sel[1] = "uncat"
    BY <1>12
  <2>2. MidSel(sel) = <<"uncat">>
        /\ FeedsOf(sel) = {f \in DOMAIN db.feeds : cat(f) = None}
    BY <1>12, <2>1 DEF MidSel, FeedsOf
  <2>3. MidSel(sel) \in Mem!Selections
    BY <2>2 DEF Mem!Selections
  <2>4. \A e : Mem!Selected(e, MidSel(sel)) <=> e.feed \in DOMAIN M /\ M[e.feed].cat = None
    BY <2>2, ViewNow DEF Mem!Selected, M, Mem!None, None
  <2> HIDE DEF cat
  <2>. QED  BY <1>3, <1>5, <1>6, <1>7, <1>9, <2>2, <2>3, <2>4
<1>13. ASSUME sel = <<"all">>
       PROVE  /\ MidSel(sel) \in Mem!Selections
              /\ \A i \in DOMAIN t :
                     t[i].feed \in FeedsOf(sel) <=> Mem!Selected(N[t[i].mid], MidSel(sel))
  <2>1. sel[1] = "all"
    BY <1>13
  <2>2. MidSel(sel) = <<"all">> /\ FeedsOf(sel) = DOMAIN db.feeds
    BY <1>13, <2>1 DEF MidSel, FeedsOf
  <2>3. MidSel(sel) \in Mem!Selections
    BY <2>2 DEF Mem!Selections
  <2>4. \A e : Mem!Selected(e, MidSel(sel))
    BY <2>2 DEF Mem!Selected
  <2>. QED  BY <1>3, <2>2, <2>3, <2>4
<1>. QED  BY <1>10, <1>11, <1>12, <1>13 DEF Selections, t, N

LEMMA MarkReadByFilterRefines ==
    ASSUME IInv, Distinct(db), NEW sel \in Selections, NEW at \in Times,
           MarkReadByFilter(sel, at)
    PROVE  Refined
<1> DEFINE t == db.entries
           hit == {i \in DOMAIN t : t[i].status = "unread" /\ t[i].feed \in FeedsOf(sel)}
           new(e) == [e EXCEPT !.status = "read", !.readAt = at]
           R == [i \in DOMAIN t |-> IF i \in hit THEN new(t[i]) ELSE t[i]]
           d == [db EXCEPT !.entries = R]
           N == MEntries(db)
           s == MidSel(sel)
           es == {e \in DOMAIN N : N[e].status = "unread" /\ Mem!Selected(N[e], s)}
           X == [m \in DOMAIN N |-> IF m \in es
                     THEN [N[m] EXCEPT !.status = "read", !.readAt = at] ELSE N[m]]
<1>1. phase = "open"
  BY DEF MarkReadByFilter, Call
<1>2. /\ Sound(db) /\ db \in Databases /\ db.serial \in Nat
      /\ \A i \in DOMAIN t : t[i] \in EntryRow
  BY <1>1, OpenView, OpenFacts
<1>3. Call(d, <<"MarkReadByFilter", s, at, Cardinality(hit)>>)
  BY DEF MarkReadByFilter, UpdateRows
<1>4. db' = d /\ MemAnswer' = <<"MarkReadByFilter", s, at, Cardinality(hit)>>
  <2> HIDE DEF d, s, hit
  <2>1. <<"MarkReadByFilter", s, at, Cardinality(hit)>>[1] # "DeleteEntry"
    OBVIOUS
  <2>. QED  BY <1>3, <2>1, CallAnswers
<1>5. /\ s \in Mem!Selections
      /\ \A i \in DOMAIN t : t[i].feed \in FeedsOf(sel) <=> Mem!Selected(N[t[i].mid], s)
  BY <1>1, Selects
<1>7. /\ DOMAIN N = MidsOf(t, DOMAIN t)
      /\ \A i \in DOMAIN t : t[i].mid \in DOMAIN N
      /\ \A i \in DOMAIN t : N[t[i].mid] = EntryView(db, t[i])
  BY <1>2, EntriesShown
<1> HIDE DEF N, s
<1>6. (\A i \in DOMAIN t : t[i].mid \in es <=> i \in hit) /\ es = MidsOf(t, hit)
  <2>1. \A i \in DOMAIN t : EntryView(db, t[i]).status = t[i].status
    BY DEF EntryView
  <2>2. \A i \in DOMAIN t : t[i].mid \in es <=> i \in hit
    BY <1>5, <1>7, <2>1
  <2>3. es \subseteq MidsOf(t, DOMAIN t) /\ hit \subseteq DOMAIN t
    BY <1>7
  <2> HIDE DEF es, hit
  <2>. QED  BY <2>2, <2>3 DEF MidsOf
<1>14. Cardinality(es) = Cardinality(hit)
  <2>1. hit \in SUBSET DOMAIN t /\ Named(t, db.serial)
    BY DEF Distinct
  <2>2. IsFiniteSet(hit)
    <3>1. db.entries \in Tables(EntryRow)
      BY <1>2 DEF Databases
    <3>2. IsFiniteSet(DOMAIN t)
      BY <3>1, TableFacts
    <3>. QED  BY <3>2, FS_Subset
  <2> HIDE DEF es, hit, t
  <2>. QED  BY <1>6, <2>1, <2>2, MidsCount
<1> HIDE DEF es, hit
<1>8. ASSUME NEW e \in EntryRow
      PROVE  /\ new(e) \in EntryRow /\ SameRow(new(e), e) /\ (Timed(e) => Timed(new(e)))
             /\ EntryView(db, new(e)) = [EntryView(db, e) EXCEPT !.status = "read", !.readAt = at]
  <2> DEFINE f == [e EXCEPT !.status = "read"]
  <2>1. f \in EntryRow /\ EntryView(db, f) = [EntryView(db, e) EXCEPT !.status = "read"]
    BY DEF EntryView, EntryRow
  <2>2. new(e) = [f EXCEPT !.readAt = at]
    OBVIOUS
  <2>3. new(e) \in EntryRow /\ SameRow(new(e), e) /\ (Timed(e) => Timed(new(e)))
    BY DEF EntryRow, SameRow, SameItem, Timed
  <2> HIDE DEF f
  <2>4. EntryView(db, [f EXCEPT !.readAt = at]) = [EntryView(db, f) EXCEPT !.readAt = at]
    BY <2>1 DEF EntryView, EntryRow
  <2>5. [[EntryView(db, e) EXCEPT !.status = "read"] EXCEPT !.readAt = at]
            = [EntryView(db, e) EXCEPT !.status = "read", !.readAt = at]
    OBVIOUS
  <2>. QED  BY <2>1, <2>2, <2>3, <2>4, <2>5
<1> HIDE DEF new
<1>9. /\ R \in [DOMAIN t -> EntryRow]
      /\ \A i \in DOMAIN t : SameRow(R[i], t[i]) /\ Timed(R[i])
  <2>1. \A i \in DOMAIN t : Timed(t[i]) /\ SameRow(t[i], t[i])
    BY DEF Distinct, AllTimed, SameRow, SameItem
  <2>. QED  BY <1>2, <1>8, <2>1
<1>10. SameRows(db, d) /\ AllTimed(d) /\ d.entries = R
  <2> HIDE DEF R
  <2>. QED  BY <1>2, <1>9, RowsUpdated
<1> HIDE DEF d
<1>11. /\ Distinct(d) /\ Keeps(db, d) /\ MFeeds(d) = MFeeds(db)
       /\ MTombs(d) = MTombs(db) /\ MCats(d) = MCats(db) /\ d.serial = db.serial
  BY <1>2, <1>10, EntriesKeep
<1>12. MEntries(d) = X
  <2>1. X = [m \in DOMAIN X |-> X[m]] /\ DOMAIN X = DOMAIN MEntries(db)
    BY DEF N
  <2>2. \A i \in DOMAIN db.entries : X[db.entries[i].mid] = EntryView(db, d.entries[i])
    <3> SUFFICES ASSUME NEW i \in DOMAIN t PROVE X[t[i].mid] = EntryView(db, R[i])
      BY <1>10
    <3>1. CASE i \in hit
      BY <1>2, <1>6, <1>7, <1>8, <3>1
    <3>2. CASE i \notin hit
      BY <1>6, <1>7, <3>2
    <3>. QED  BY <3>1, <3>2
  <2> HIDE DEF X, R
  <2>. QED  BY <1>2, <1>10, <2>1, <2>2, EntriesMapped
<1>13. Mem!MarkReadByFilter(s, at)
  <2>1. MemAnswer' = <<"MarkReadByFilter", s, at, Cardinality(es)>>
    BY <1>4, <1>14
  <2>2. es = {e \in DOMAIN N : N[e].status = "unread" /\ Mem!Selected(N[e], s)}
    BY DEF es
  <2> HIDE DEF es
  <2>3. /\ MEntries(db') = X /\ MFeeds(db') = MFeeds(db)
        /\ MTombs(db') = MTombs(db) /\ MCats(db') = MCats(db) /\ db'.serial = db.serial
    BY <1>4, <1>11, <1>12
  <2>. QED  BY <2>1, <2>2, <2>3, MemCount, ViewNow, ViewNext DEF Mem!MarkReadByFilter, N
<1>15. Mem!Next
  BY <1>5, <1>13 DEF Mem!Next
<1>. QED  BY <1>4, <1>11, <1>15 DEF Refined

-----------------------------------------------------------------------------
(* The calls on categories are MemStore's.                                 *)

LEMMA CatsKeep ==
    ASSUME NEW d, Sound(d), Distinct(d), NEW x, SameMids(d.feeds, x.feeds),
           x.entries = d.entries, x.tombstones = d.tombstones, x.feedSeq = d.feedSeq,
           x.serial \in Nat, x.serial >= d.serial, Named(x.categories, x.serial)
    PROVE  /\ Distinct(x) /\ Keeps(d, x)
           /\ MEntries(x) = MEntries(d) /\ MTombs(x) = MTombs(d)
<1>1. d \in Databases /\ Refs(d) /\ d.serial \in Nat /\ d.feedSeq \in Nat
  BY DEF Sound, Databases
<1>2. Named(x.feeds, x.serial) /\ Named(x.entries, x.serial)
  <2>1. Named(x.feeds, d.serial) /\ Named(x.entries, d.serial)
    BY SameMidsFacts DEF Distinct
  <2>2. d.serial <= x.serial
    BY <1>1
  <2>. QED  BY <1>1, <2>1, <2>2, NamedMore
<1>3. Distinct(x)
  BY <1>2 DEF Distinct, OneEach, InOrder, AllTimed
<1>4. Keeps(d, x)
  <2>1. d.serial <= x.serial /\ d.feedSeq <= x.feedSeq
    BY <1>1
  <2>. QED  BY <2>1 DEF Keeps, SameMids, SameRow, SameItem
<1>5. FeedNosKept(d, x)
  BY DEF FeedNosKept, SameMids
<1>. QED  BY <1>1, <1>3, <1>4, <1>5, EntriesViewKept, TombsViewKept

\* Titles differ in the one store as they do in the other.
LEMMA TitlesTaken ==
    ASSUME IInv, Distinct(db), phase = "open", NEW t \in Titles, NEW S \in SUBSET DOMAIN db.categories
    PROVE  TitleTaken(t, S) <=> \E k \in MidsOf(db.categories, S) : MCats(db)[k] = t
<1> DEFINE C == MCats(db)
<1>1. \A c \in S : db.categories[c].title \in Titles
  BY OpenFacts DEF CatRow
<1>2. \A c \in S : C[db.categories[c].mid] = db.categories[c].title
  BY OpenView, CatsShown
<1>3. TitleTaken(t, S) <=> \E c \in S : db.categories[c].title = t
  BY <1>1, SqliteStoreAssumption DEF TitleTaken
<1> HIDE DEF C
<1>4. TitleTaken(t, S) <=> \E k \in MidsOf(db.categories, S) : C[k] = t
  BY <1>2, <1>3 DEF MidsOf
<1>. QED  BY <1>4 DEF C

LEMMA CreateCategoryRefines ==
    ASSUME IInv, Distinct(db), NEW t \in Titles, CreateCategory(t)
    PROVE  Refined
<1> DEFINE taken == TitleTaken(t, DOMAIN db.categories)
           i == NextRowid(db.categories)
           row == [mid |-> db.serial, title |-> t]
           T == Put(db.categories, i, row)
           x == [db EXCEPT !.categories = T, !.serial = db.serial + 1]
           d == IF taken THEN db ELSE x
           C == MCats(db)
           code == IF taken THEN "conflict" ELSE "ok"
<1>1. phase = "open"
  BY DEF CreateCategory, Call
<1>2. Sound(db) /\ db \in Databases /\ db.serial \in Nat \ {0} /\ Refs(db)
  BY <1>1, OpenView, OpenFacts
<1>3. i \in Nat \ {0} /\ i \notin DOMAIN db.categories
  BY <1>2, NextRowidFits DEF Databases
<1>4. Call(d, <<"CreateCategory", t, code>>)
  BY DEF CreateCategory
<1>5. db' = d /\ MemAnswer' = <<"CreateCategory", t, code>>
  BY <1>4, CallAnswers
<1>6. taken <=> \E k \in DOMAIN C : C[k] = t
  <2>1. DOMAIN db.categories \in SUBSET DOMAIN db.categories
    OBVIOUS
  <2>. QED  BY <1>1, <1>2, <2>1, CatsShown, TitlesTaken
<1>7. row.mid = db.serial /\ row.title = t
  OBVIOUS
<1>8. /\ x.categories = T /\ x.serial = db.serial + 1 /\ x.feeds = db.feeds
      /\ x.entries = db.entries /\ x.tombstones = db.tombstones /\ x.feedSeq = db.feedSeq
  BY <1>2 DEF Databases
<1> HIDE DEF x, row, i
<1>9. /\ DOMAIN T = DOMAIN db.categories \cup {i} /\ T[i] = row
      /\ \A c \in DOMAIN db.categories : T[c] = db.categories[c]
  BY <1>3 DEF Put
<1>10. Renum(T, CatRows(x)) = Put(C, db.serial, t) /\ Named(T, db.serial + 1)
  <2>1. \A c \in DOMAIN db.categories : CatRows(x)[c] = CatRows(db)[c]
    BY <1>8, <1>9 DEF CatRows
  <2>2. t = CatRows(x)[i]
    BY <1>7, <1>8, <1>9 DEF CatRows
  <2>3. Named(db.categories, db.serial)
    BY DEF Distinct
  <2> HIDE DEF T
  <2>4. T = Put(db.categories, i, row)
    BY DEF T
  <2>. QED  BY <1>2, <1>3, <1>7, <2>1, <2>2, <2>3, <2>4, RenumPut DEF MCats
<1>11. MCats(x) = Put(C, db.serial, t)
  BY <1>8, <1>10 DEF MCats
<1>12. /\ Distinct(x) /\ Keeps(db, x)
       /\ MEntries(x) = MEntries(db) /\ MTombs(x) = MTombs(db)
  <2>1. SameMids(db.feeds, x.feeds) /\ x.serial \in Nat /\ x.serial >= db.serial
    BY <1>2, <1>8 DEF SameMids
  <2>. QED  BY <1>2, <1>8, <1>10, <2>1, CatsKeep
<1>13. MFeeds(x) = MFeeds(db)
  <2>1. CatNosKept(db, x)
    BY <1>8, <1>9 DEF CatNosKept
  <2>. QED  BY <1>2, <1>8, <2>1, FeedsViewKept
<1>14. /\ Distinct(d) /\ Keeps(db, d) /\ MEntries(d) = MEntries(db)
       /\ MTombs(d) = MTombs(db) /\ MFeeds(d) = MFeeds(db)
       /\ d.serial = IF taken THEN db.serial ELSE db.serial + 1
       /\ MCats(d) = IF taken THEN C ELSE Put(C, db.serial, t)
  BY <1>2, <1>8, <1>11, <1>12, <1>13, KeepsSelf
<1> HIDE DEF d, taken
<1>15. Mem!CreateCategory(t)
  BY <1>5, <1>6, <1>14, ViewNow, ViewNext DEF Mem!CreateCategory, Mem!Put, Put
<1>16. Mem!Next
  BY <1>15 DEF Mem!Next
<1>. QED  BY <1>5, <1>14, <1>16 DEF Refined

LEMMA UpdateCategoryRefines ==
    ASSUME IInv, Distinct(db), NEW c \in CatIds, NEW t \in Titles, UpdateCategory(c, t)
    PROVE  Refined
<1> DEFINE cs == db.categories
           code == IF c \notin DOMAIN cs THEN "notfound"
                   ELSE IF TitleTaken(t, DOMAIN cs \ {c}) THEN "conflict" ELSE "ok"
           row == [cs[c] EXCEPT !.title = t]
           T == [cs EXCEPT ![c] = row]
           x == [db EXCEPT !.categories = T]
           d == IF code = "ok" THEN x ELSE db
           C == MCats(db)
           n == CatNo(db, c)
<1>1. phase = "open"
  BY DEF UpdateCategory, Call
<1>2. /\ Sound(db) /\ db \in Databases /\ db.serial \in Nat \ {0} /\ Refs(db)
      /\ n \in Mem!CatIds
  BY <1>1, OpenView, OpenFacts
<1>3. c # None
  BY DEF CatIds, None
<1>4. Call(d, <<"UpdateCategory", n, t, code>>)
  BY MidIsNo DEF UpdateCategory
<1>5. db' = d /\ MemAnswer' = <<"UpdateCategory", n, t, code>>
  <2> HIDE DEF d, n, code
  <2>1. <<"UpdateCategory", n, t, code>>[1] # "DeleteEntry"
    OBVIOUS
  <2>. QED  BY <1>4, <2>1, CallAnswers
<1>6. /\ DOMAIN C = MidsOf(cs, DOMAIN cs) /\ db.serial \notin DOMAIN C
      /\ \A a \in DOMAIN cs : cs[a].mid \in DOMAIN C
  BY <1>2, CatsShown
<1>7. n = (IF c \in DOMAIN cs THEN cs[c].mid ELSE db.serial)
      /\ (c \in DOMAIN cs <=> n \in DOMAIN C)
  BY <1>3, <1>6 DEF CatNo
<1>8. \A a \in DOMAIN cs : c \in DOMAIN cs => (cs[a].mid = n <=> a = c)
  BY <1>7 DEF Distinct, Named
<1> HIDE DEF C, n
<1>9. code = IF n \notin DOMAIN C THEN "notfound"
             ELSE IF \E k \in DOMAIN C \ {n} : C[k] = t THEN "conflict" ELSE "ok"
  <2>1. TitleTaken(t, DOMAIN cs \ {c}) <=> \E k \in MidsOf(cs, DOMAIN cs \ {c}) : C[k] = t
    <3>1. DOMAIN cs \ {c} \in SUBSET DOMAIN cs
      OBVIOUS
    <3>. QED  BY <1>1, <3>1, TitlesTaken DEF C
  <2>2. c \in DOMAIN cs => MidsOf(cs, DOMAIN cs \ {c}) = DOMAIN C \ {n}
    BY <1>6, <1>8 DEF MidsOf
  <2>. QED  BY <1>7, <2>1, <2>2
<1>10. CASE code = "ok"
  <2>1. c \in DOMAIN cs /\ d = x
    BY <1>10
  <2>2. cs = [a \in DOMAIN cs |-> cs[a]] /\ cs[c] \in CatRow
    <3>1. db.categories \in Tables(CatRow)
      BY <1>2 DEF Databases
    <3>. QED  BY <2>1, <3>1, TableFacts
  <2>3. row.mid = cs[c].mid /\ row.title = t
    BY <2>2 DEF CatRow
  <2>4. /\ x.categories = T /\ x.serial = db.serial /\ x.feeds = db.feeds
        /\ x.entries = db.entries /\ x.tombstones = db.tombstones /\ x.feedSeq = db.feedSeq
    BY <1>2 DEF Databases
  <2> HIDE DEF x, row
  <2>5. /\ DOMAIN T = DOMAIN cs /\ T[c] = row
        /\ \A a \in DOMAIN cs : a # c => T[a] = cs[a]
    BY <2>1, <2>2
  <2>6. SameMids(cs, T)
    BY <2>3, <2>5 DEF SameMids
  <2>7. Renum(T, CatRows(x)) = [C EXCEPT ![cs[c].mid] = t] /\ Named(T, db.serial)
    <3>1. \A a \in DOMAIN cs : a # c => CatRows(x)[a] = CatRows(db)[a]
      BY <2>4, <2>5 DEF CatRows
    <3>2. t = CatRows(x)[c]
      BY <2>1, <2>3, <2>4, <2>5 DEF CatRows
    <3>3. Named(cs, db.serial)
      BY DEF Distinct
    <3>4. MCats(db) = Renum(cs, CatRows(db))
      BY DEF MCats
    <3> HIDE DEF T, cs
    <3>. QED  BY <2>1, <2>6, <3>1, <3>2, <3>3, <3>4, RenumUpdate, SameMidsFacts DEF C
  <2>8. MCats(x) = [C EXCEPT ![n] = t]
    BY <1>7, <2>1, <2>4, <2>7 DEF MCats
  <2>9. /\ Distinct(x) /\ Keeps(db, x)
        /\ MEntries(x) = MEntries(db) /\ MTombs(x) = MTombs(db)
    <3>1. SameMids(db.feeds, x.feeds) /\ x.serial \in Nat /\ x.serial >= db.serial
      BY <1>2, <2>4 DEF SameMids
    <3>. QED  BY <1>2, <2>4, <2>7, <3>1, CatsKeep
  <2>10. MFeeds(x) = MFeeds(db)
    <3>1. CatNosKept(db, x)
      BY <2>4, <2>6 DEF CatNosKept, SameMids
    <3>. QED  BY <1>2, <2>4, <3>1, FeedsViewKept
  <2>11. Mem!UpdateCategory(n, t)
    <3>1. /\ MCats(db') = [C EXCEPT ![n] = t] /\ db'.serial = db.serial
          /\ MEntries(db') = MEntries(db) /\ MTombs(db') = MTombs(db)
          /\ MFeeds(db') = MFeeds(db)
      BY <1>5, <2>1, <2>4, <2>8, <2>9, <2>10
    <3> HIDE DEF d, code
    <3>. QED  BY <1>5, <1>9, <1>10, <3>1, ViewNow, ViewNext DEF Mem!UpdateCategory, C
  <2>12. Mem!Next
    BY <1>2, <2>11 DEF Mem!Next
  <2>. QED  BY <1>5, <2>1, <2>9, <2>12 DEF Refined
<1>11. CASE code # "ok"
  <2>1. db' = db
    BY <1>5, <1>11
  <2>2. /\ MCats(db') = C /\ db'.serial = db.serial
        /\ MEntries(db') = MEntries(db) /\ MTombs(db') = MTombs(db)
        /\ MFeeds(db') = MFeeds(db)
    BY <2>1 DEF C
  <2>3. Mem!UpdateCategory(n, t)
    <3> HIDE DEF d, code
    <3>. QED  BY <1>5, <1>9, <1>11, <2>2, ViewNow, ViewNext DEF Mem!UpdateCategory, C
  <2>4. Mem!Next
    BY <1>2, <2>3 DEF Mem!Next
  <2>. QED  BY <1>2, <2>1, <2>4, KeepsSelf DEF Refined
<1>. QED  BY <1>10, <1>11

LEMMA DeleteCategoryRefines ==
    ASSUME IInv, Distinct(db), NEW c \in CatIds, DeleteCategory(c)
    PROVE  Refined
<1> DEFINE cs == db.categories
           t == db.feeds
           K == DOMAIN cs \ {c}
           T == Restrict(cs, K)
           off(r) == [r EXCEPT !.cat = None]
           F == [f \in DOMAIN t |-> IF t[f].cat = c THEN off(t[f]) ELSE t[f]]
           d == [db EXCEPT !.categories = T, !.feeds = F]
           C == MCats(db)
           M == MFeeds(db)
           n == CatNo(db, c)
           code == IF c \in DOMAIN cs THEN "ok" ELSE "notfound"
           X == [m \in DOMAIN M |-> IF n \in DOMAIN C /\ M[m].cat = n
                                    THEN off(M[m]) ELSE M[m]]
<1>1. phase = "open"
  BY DEF DeleteCategory, Call
<1>2. /\ Sound(db) /\ db \in Databases /\ db.serial \in Nat \ {0} /\ Refs(db)
      /\ n \in Mem!CatIds /\ \A f \in DOMAIN t : t[f] \in FeedRow
  BY <1>1, OpenView, OpenFacts
<1>3. c # None
  BY DEF CatIds, None
<1>4. Call(d, <<"DeleteCategory", n, code>>)
  BY MidIsNo DEF DeleteCategory
<1>5. db' = d /\ MemAnswer' = <<"DeleteCategory", n, code>>
  <2> HIDE DEF d, n, code
  <2>1. <<"DeleteCategory", n, code>>[1] # "DeleteEntry"
    OBVIOUS
  <2>. QED  BY <1>4, <2>1, CallAnswers
<1>6. /\ DOMAIN C = MidsOf(cs, DOMAIN cs) /\ db.serial \notin DOMAIN C
      /\ \A a \in DOMAIN cs : cs[a].mid \in DOMAIN C
  BY <1>2, CatsShown
<1>7. /\ n = (IF c \in DOMAIN cs THEN cs[c].mid ELSE db.serial)
      /\ c \in DOMAIN cs <=> n \in DOMAIN C
  BY <1>3, <1>6 DEF CatNo
<1>8. \A f \in DOMAIN t : /\ t[f].cat \in DOMAIN cs \cup {None}
                          /\ CatNo(db, t[f].cat) = n <=> t[f].cat = c
  <2>1. DOMAIN cs \subseteq Nat \ {0}
    <3>1. db.categories \in Tables(CatRow)
      BY <1>2 DEF Databases
    <3>. QED  BY <3>1, TableFacts
  <2>2. \A f \in DOMAIN t : t[f].cat \in DOMAIN cs \cup {None}
    BY <1>2 DEF Refs
  <2>. QED  BY <1>2, <2>1, <2>2, CatNosApart
<1>9. /\ d.categories = T /\ d.feeds = F /\ d.serial = db.serial
      /\ d.entries = db.entries /\ d.tombstones = db.tombstones /\ d.feedSeq = db.feedSeq
  BY <1>2 DEF Databases
<1> HIDE DEF d, C, M, n
<1>10. DOMAIN T = K /\ \A a \in K : T[a] = cs[a]
  BY DEF Restrict
<1>11. /\ DOMAIN F = DOMAIN t
       /\ \A f \in DOMAIN t : F[f] = IF t[f].cat = c THEN off(t[f]) ELSE t[f]
  OBVIOUS
<1>12. SameMids(t, F)
  <2>1. \A f \in DOMAIN t : off(t[f]).mid = t[f].mid
    BY <1>2 DEF FeedRow
  <2> HIDE DEF F, off
  <2>. QED  BY <1>11, <2>1 DEF SameMids
<1>13. MCats(d) = Restrict(C, DOMAIN C \ {n}) /\ Named(T, db.serial)
  <2>1. \A a \in K : CatRows(d)[a] = CatRows(db)[a]
    BY <1>9, <1>10 DEF CatRows
  <2>2. Named(cs, db.serial) /\ K \in SUBSET DOMAIN cs
    BY DEF Distinct
  <2>3. \A a \in DOMAIN cs : cs[a].mid = n <=> a = c
    <3>1. \A a \in DOMAIN cs : cs[a].mid # db.serial
      BY <1>6
    <3>. QED  BY <1>7, <2>2, <3>1 DEF Named
  <2> DEFINE L == DOMAIN C \ {n}
  <2>4. L = MidsOf(cs, K)
    BY <1>6, <2>3 DEF MidsOf
  <2>5. T = Restrict(cs, K) /\ C = Renum(cs, CatRows(db))
    BY DEF C, MCats
  <2> HIDE DEF K, L, T, cs
  <2>6. Renum(T, CatRows(d)) = Restrict(C, L) /\ Named(T, db.serial)
    BY <2>1, <2>2, <2>4, <2>5, RenumRestrict
  <2>. QED  BY <1>9, <2>6 DEF MCats, L
<1>14. /\ Distinct(d) /\ Keeps(db, d)
       /\ MEntries(d) = MEntries(db) /\ MTombs(d) = MTombs(db)
  <2>1. d.serial \in Nat /\ d.serial >= db.serial /\ SameMids(db.feeds, d.feeds)
        /\ Named(d.categories, d.serial)
    <3> HIDE DEF F, T
    <3>. QED  BY <1>2, <1>9, <1>12, <1>13
  <2>. QED  BY <1>2, <1>9, <2>1, CatsKeep
<1>15. MFeeds(d) = X
  <2>1. /\ \A f \in DOMAIN t : t[f].mid \in DOMAIN M
        /\ \A f \in DOMAIN t : M[t[f].mid] = FeedView(db, t[f])
        /\ DOMAIN M = DOMAIN Renum(t, FeedRows(db))
    <3>1. MFeeds(db) = Renum(t, FeedRows(db))
      BY DEF MFeeds
    <3>. QED  BY <1>2, <3>1, FeedsShown DEF M
  <2>2. ASSUME NEW f \in DOMAIN t PROVE X[t[f].mid] = FeedView(d, F[f])
    <3> DEFINE r == t[f]
    <3>1. r \in FeedRow /\ t[f].mid \in DOMAIN M /\ M[t[f].mid] = FeedView(db, r)
      BY <1>2, <2>1
    <3>2. FeedView(db, r).cat = CatNo(db, r.cat)
      BY DEF FeedView
    <3>3. CASE r.cat = c
      <4>1. c \in DOMAIN cs /\ n \in DOMAIN C
        BY <1>3, <1>7, <1>8, <3>3
      <4>2. X[t[f].mid] = off(FeedView(db, r))
        BY <1>8, <3>1, <3>2, <3>3, <4>1
      <4>3. F[f] = off(r)
        BY <3>3
      <4>4. CatNo(d, None) = None
        BY DEF CatNo
      <4> HIDE DEF r
      <4>5. FeedView(d, off(r)) = off(FeedView(db, r))
        BY <3>1, <4>4 DEF FeedView, FeedRow
      <4>. QED  BY <4>2, <4>3, <4>5
    <3>4. CASE r.cat # c
      <4>1. X[t[f].mid] = FeedView(db, r)
        BY <1>8, <3>1, <3>2, <3>4
      <4>2. F[f] = r
        BY <3>4
      <4>3. CatNo(d, r.cat) = CatNo(db, r.cat)
        <5> HIDE DEF T
        <5>. QED  BY <1>8, <1>9, <1>10, <3>4 DEF CatNo
      <4>4. FeedView(d, r) = FeedView(db, r)
        BY <4>3 DEF FeedView
      <4>. QED  BY <4>1, <4>2, <4>4
    <3>. QED  BY <3>3, <3>4
  <2>3. \A f \in DOMAIN t : X[t[f].mid] = FeedRows(d)[f]
    <3>1. \A f \in DOMAIN t : FeedRows(d)[f] = FeedView(d, F[f])
      <4> HIDE DEF F
      <4>. QED  BY <1>9, <1>11 DEF FeedRows
    <3> HIDE DEF X, F
    <3>. QED  BY <2>2, <3>1
  <2>4. X = [m \in DOMAIN X |-> X[m]] /\ DOMAIN X = DOMAIN Renum(t, FeedRows(db))
    BY <2>1
  <2>5. Named(t, db.serial)
    BY DEF Distinct
  <2> HIDE DEF X, F, t
  <2>6. Renum(F, FeedRows(d)) = X
    BY <1>12, <2>3, <2>4, <2>5, RenumMap
  <2>. QED  BY <1>9, <2>6 DEF MFeeds
<1>16. \E k \in Mem!CatIds : Mem!DeleteCategory(k)
  <2>1. /\ MCats(db') = Restrict(C, DOMAIN C \ {n}) /\ db'.serial = db.serial
        /\ MEntries(db') = MEntries(db) /\ MTombs(db') = MTombs(db) /\ MFeeds(db') = X
    BY <1>5, <1>9, <1>13, <1>14, <1>15
  <2>2. MemAnswer' = <<"DeleteCategory", n, IF n \in DOMAIN C THEN "ok" ELSE "notfound">>
    BY <1>5, <1>7
  <2>3. n \in Mem!CatIds
    BY <1>2
  <2> USE DEF Mem!DeleteCategory, Mem!Restrict
  <2> WITNESS n \in Mem!CatIds
  <2>. QED  BY <2>1, <2>2, ViewNow, ViewNext
            DEF Mem!DeleteCategory, C, M, Mem!Restrict, Restrict, Mem!None, None
<1>17. Mem!Next
  BY <1>16 DEF Mem!Next
<1>. QED  BY <1>5, <1>14, <1>17 DEF Refined

-----------------------------------------------------------------------------
(* A poll: item by item, in the transaction as in MemStore's loop.         *)

\* What the transaction has done so far.
Polled(d) ==
    /\ Sound(d) /\ SameSetup(d, db) /\ Distinct(d) /\ Keeps(db, d)
    /\ d.feeds = db.feeds /\ d.tombstones = db.tombstones
    /\ d.categories = db.categories /\ d.feedSeq = db.feedSeq

\* MemStore's accumulator for it.
Polling(d) == [entries |-> MEntries(d), nextID |-> d.serial, n |-> d.serial - db.serial]

\* d has no row for e's item.
NewItem(d, e) ==
    \A j \in DOMAIN d.entries : ~SameItem(d.entries[j], e) /\ ~SameItem(e, d.entries[j])

LEMMA NewEntryShown ==
    ASSUME NEW d, Sound(d), Distinct(d), NEW i, i = NextRowid(d.entries),
           NEW e, e.mid = d.serial, Timed(e),
           NewItem(d, e),
           NEW x, x.entries = Put(d.entries, i, e), x.serial = d.serial + 1,
           x.feeds = d.feeds, x.categories = d.categories
    PROVE  /\ Distinct(x) /\ i \notin DOMAIN d.entries
           /\ DOMAIN x.entries = DOMAIN d.entries \cup {i} /\ x.entries[i] = e
           /\ \A j \in DOMAIN d.entries : x.entries[j] = d.entries[j]
           /\ \A j \in DOMAIN d.entries : d.entries[j].feed \in DOMAIN d.feeds
           /\ e.feed \in DOMAIN d.feeds =>
                  MEntries(x) = Put(MEntries(d), d.serial, EntryView(d, e))
<1>1. /\ d.entries \in Tables(EntryRow) /\ d.serial \in Nat \ {0} /\ Refs(d)
  BY DEF Sound, Databases
<1>2. i \in Nat \ {0} /\ i \notin DOMAIN d.entries /\ DOMAIN d.entries \subseteq Nat \ {0}
  BY <1>1, NextRowidFits, TableFacts
<1>3. \A j \in DOMAIN d.entries : j < i
  <2>1. IsFiniteSet(DOMAIN d.entries)
    BY <1>1, TableFacts
  <2>2. CASE DOMAIN d.entries = {}
    BY <2>2
  <2>3. CASE DOMAIN d.entries # {}
    <3>1. DOMAIN d.entries \subseteq Int
      BY <1>2
    <3>2. /\ Max(DOMAIN d.entries) \in DOMAIN d.entries
          /\ \A j \in DOMAIN d.entries : j <= Max(DOMAIN d.entries)
      BY <2>1, <2>3, <3>1, MaxFits
    <3>3. i = Max(DOMAIN d.entries) + 1
      BY <2>3 DEF NextRowid
    <3>. QED  BY <1>2, <3>2, <3>3
  <2>. QED  BY <2>2, <2>3
<1>4. /\ DOMAIN x.entries = DOMAIN d.entries \cup {i} /\ x.entries[i] = e
      /\ \A j \in DOMAIN d.entries : x.entries[j] = d.entries[j]
  BY <1>2 DEF Put
<1>5. Named(d.entries, d.serial) /\ Named(d.feeds, d.serial) /\ Named(d.categories, d.serial)
  BY DEF Distinct
<1>7. \A f \in DOMAIN d.feeds : FeedNo(x, f) = FeedNo(d, f)
  BY DEF FeedNo
<1>8. \A j \in DOMAIN d.entries : EntryRows(x)[j] = EntryRows(d)[j]
  <2>1. \A j \in DOMAIN d.entries : d.entries[j].feed \in DOMAIN d.feeds
    BY <1>1 DEF Refs
  <2>2. \A j \in DOMAIN d.entries : EntryView(x, d.entries[j]) = EntryView(d, d.entries[j])
    BY <1>7, <2>1 DEF EntryView
  <2>3. \A j \in DOMAIN d.entries : EntryRows(x)[j] = EntryView(x, d.entries[j])
    BY <1>4 DEF EntryRows
  <2>4. \A j \in DOMAIN d.entries : EntryRows(d)[j] = EntryView(d, d.entries[j])
    BY DEF EntryRows
  <2>. QED  BY <2>2, <2>3, <2>4
<1>9. /\ Renum(x.entries, EntryRows(x))
             = Put(Renum(d.entries, EntryRows(d)), d.serial, EntryView(x, e))
      /\ Named(x.entries, d.serial + 1)
  <2>1. EntryView(x, e) = EntryRows(x)[i]
    BY <1>4 DEF EntryRows
  <2>. QED  BY <1>1, <1>2, <1>5, <1>8, <2>1, RenumPut
<1>10. e.feed \in DOMAIN d.feeds => MEntries(x) = Put(MEntries(d), d.serial, EntryView(d, e))
  <2>1. e.feed \in DOMAIN d.feeds => EntryView(x, e) = EntryView(d, e)
    BY <1>7 DEF EntryView
  <2>. QED  BY <1>9, <2>1 DEF MEntries
<1>11. Named(x.feeds, d.serial + 1) /\ Named(x.categories, d.serial + 1)
  BY <1>1, <1>5, NamedMore
<1>12. OneEach(x)
  BY <1>4 DEF OneEach, Distinct, NewItem
<1>13. InOrder(x)
  <2>1. \A j \in DOMAIN d.entries : d.entries[j].mid < e.mid
    BY <1>1, <1>5 DEF Named
  <2>2. \A j, k \in DOMAIN d.entries : j < k => d.entries[j].mid < d.entries[k].mid
    BY DEF Distinct, InOrder
  <2>3. \A j \in DOMAIN d.entries : ~(i < j)
    BY <1>2, <1>3
  <2>. QED  BY <1>2, <1>4, <2>1, <2>2, <2>3 DEF InOrder
<1>14. AllTimed(x)
  BY <1>4 DEF AllTimed, Distinct
<1>15. Distinct(x)
  BY <1>9, <1>11, <1>12, <1>13, <1>14 DEF Distinct
<1>. QED  BY <1>1, <1>2, <1>4, <1>10, <1>15 DEF Refs

LEMMA KeepsOn ==
    ASSUME NEW a, NEW d, Keeps(a, d), NEW x, SameRows(d, x)
    PROVE  Keeps(a, x)
<1>1. x.serial = d.serial /\ x.feedSeq = d.feedSeq /\ x.feeds = d.feeds
      /\ DOMAIN x.entries = DOMAIN d.entries
      /\ \A i \in DOMAIN d.entries : SameRow(x.entries[i], d.entries[i])
  BY DEF SameRows
<1>2. \A p, q, r : SameRow(p, q) /\ SameRow(q, r) => SameRow(p, r)
  BY DEF SameRow, SameItem
<1>3. \A i \in DOMAIN d.entries : x.entries[i].mid = d.entries[i].mid
  BY <1>1 DEF SameRow
<1>. QED  BY <1>1, <1>2, <1>3 DEF Keeps

\* The item's entry, in both stores.
LEMMA ItemFound ==
    ASSUME NEW d, Distinct(d), Refs(d), d.serial \in Nat, NEW f \in DOMAIN d.feeds, NEW v
    PROVE  /\ {m \in DOMAIN MEntries(d) : /\ MEntries(d)[m].feed = FeedNo(d, f)
                                          /\ GuidOf[MEntries(d)[m].hash] = GuidOf[v]}
                  = MidsOf(d.entries, GetEntryByGUID(d, f, v))
           /\ \A i, j \in GetEntryByGUID(d, f, v) : i = j
<1> DEFINE t == d.entries
           N == MEntries(d)
           n == FeedNo(d, f)
           G == GetEntryByGUID(d, f, v)
<1>1. /\ DOMAIN N = MidsOf(t, DOMAIN t)
      /\ \A i \in DOMAIN t : N[t[i].mid] = EntryView(d, t[i])
  BY EntriesShown
<1>2. \A i \in DOMAIN t : EntryView(d, t[i]).feed = FeedNo(d, t[i].feed)
                          /\ EntryView(d, t[i]).hash = t[i].hash
  BY DEF EntryView
<1>3. \A i \in DOMAIN t : FeedNo(d, t[i].feed) = n <=> t[i].feed = f
  <2>1. \A i \in DOMAIN t : t[i].feed \in DOMAIN d.feeds
    BY DEF Refs
  <2>. QED  BY <2>1, FeedNosApart
<1> HIDE DEF N, n
<1>4. \A i \in DOMAIN t : /\ N[t[i].mid].feed = n <=> t[i].feed = f
                          /\ N[t[i].mid].hash = t[i].hash
  BY <1>1, <1>2, <1>3
<1>5. G = {i \in DOMAIN t : t[i].feed = f /\ GuidOf[t[i].hash] = GuidOf[v]}
  BY DEF GetEntryByGUID
<1>6. {m \in DOMAIN N : N[m].feed = n /\ GuidOf[N[m].hash] = GuidOf[v]} = MidsOf(t, G)
  <2> HIDE DEF G, t
  <2>. QED  BY <1>1, <1>4, <1>5 DEF MidsOf
<1>7. \A i, j \in G : i = j
  BY <1>5 DEF Distinct, OneEach, SameItem
<1>. QED  BY <1>6, <1>7 DEF N, n

LEMMA TombFound ==
    ASSUME Sound(db), Distinct(db), NEW f \in DOMAIN db.feeds, NEW g
    PROVE  <<f, g>> \in db.tombstones <=> <<FeedNo(db, f), g>> \in MTombs(db)
<1>1. db.serial \in Nat /\ db.tombstones \subseteq Nat \X GuidSet
  BY DEF Sound, Databases
<1>2. \A t \in db.tombstones : t[1] \in DOMAIN db.feeds /\ t = <<t[1], t[2]>>
  BY <1>1 DEF Sound, Refs
<1>3. \A t \in db.tombstones : FeedNo(db, t[1]) = FeedNo(db, f) <=> t[1] = f
  BY <1>1, <1>2, FeedNosApart
<1>. QED  BY <1>2, <1>3 DEF MTombs

LEMMA InsertShown ==
    ASSUME Sound(db), NEW d, Polled(d), NEW f \in DOMAIN db.feeds, NEW at \in Times,
           NEW v \in Versions, NEW full \in BOOLEAN, GetEntryByGUID(d, f, v) = {},
           NEW x, x = InsertEntry(d, f, v, full, at)
    PROVE  /\ Distinct(x) /\ Keeps(db, x) /\ x.serial = d.serial + 1
           /\ x.feeds = d.feeds /\ x.tombstones = d.tombstones
           /\ x.categories = d.categories /\ x.feedSeq = d.feedSeq
           /\ MEntries(x) = Put(MEntries(d), d.serial,
                                Mem!NewEntry(FeedNo(db, f), v, full, at))
<1> DEFINE e == [mid |-> d.serial, feed |-> f, hash |-> v, content |-> v,
                 ctext |-> PlainText(v), stext |-> PlainSummary(v),
                 status |-> "unread", starred |-> FALSE, readAt |-> NoTime,
                 ext |-> IF full THEN "pending" ELSE "none", attempts |-> 0,
                 next |-> IF full THEN at ELSE NoTime, reason |-> FALSE,
                 created |-> at]
           i == NextRowid(d.entries)
<1>1. /\ Sound(d) /\ Distinct(d) /\ Keeps(db, d) /\ d \in Databases
      /\ d.feeds = db.feeds /\ d.serial \in Nat
  BY DEF Polled, Sound, Databases
<1>2. x = InsertRow(d, e)
  BY DEF InsertEntry
<1>3. /\ x.entries = Put(d.entries, i, e) /\ x.serial = d.serial + 1 /\ x.feeds = d.feeds
      /\ x.tombstones = d.tombstones /\ x.categories = d.categories /\ x.feedSeq = d.feedSeq
  <2> HIDE DEF e
  <2>. QED  BY <1>1, <1>2 DEF InsertRow, Databases
<1>4. e.mid = d.serial /\ Timed(e) /\ e.feed = f /\ e.hash = v
  BY SqliteStoreAssumption DEF Timed, NoTime
<1>5. EntryView(d, e) = Mem!NewEntry(FeedNo(db, f), v, full, at)
  <2>1. FeedNo(d, f) = FeedNo(db, f)
    BY <1>1 DEF FeedNo
  <2>. QED  BY <2>1 DEF EntryView, Mem!NewEntry, Mem!NoTime, NoTime
<1> HIDE DEF e
<1>6. NewItem(d, e)
  BY <1>4 DEF GetEntryByGUID, SameItem, NewItem
<1>61. i = NextRowid(d.entries)
  OBVIOUS
<1> HIDE DEF i
<1>7. /\ Distinct(x) /\ i \notin DOMAIN d.entries
      /\ DOMAIN x.entries = DOMAIN d.entries \cup {i} /\ x.entries[i] = e
      /\ \A j \in DOMAIN d.entries : x.entries[j] = d.entries[j]
      /\ e.feed \in DOMAIN d.feeds =>
             MEntries(x) = Put(MEntries(d), d.serial, EntryView(d, e))
  <2>1. Sound(d) /\ Distinct(d) /\ Timed(e) /\ e.mid = d.serial
    BY <1>1, <1>4
  <2>2. /\ x.entries = Put(d.entries, i, e) /\ x.serial = d.serial + 1
        /\ x.feeds = d.feeds /\ x.categories = d.categories
    BY <1>3
  <2>3. Distinct(x)
    BY <2>1, <2>2, <1>6, <1>61, NewEntryShown
  <2>4. i \notin DOMAIN d.entries
    BY <2>1, <2>2, <1>6, <1>61, NewEntryShown
  <2>5. e.feed \in DOMAIN d.feeds =>
             MEntries(x) = Put(MEntries(d), d.serial, EntryView(d, e))
    BY <2>1, <2>2, <1>6, <1>61, NewEntryShown
  <2>6. /\ DOMAIN x.entries = DOMAIN d.entries \cup {i} /\ x.entries[i] = e
        /\ \A j \in DOMAIN d.entries : x.entries[j] = d.entries[j]
    BY <2>1, <2>2, <1>6, <1>61, NewEntryShown
  <2>. QED  BY <2>3, <2>4, <2>5, <2>6
<1>8. MEntries(x) = Put(MEntries(d), d.serial, Mem!NewEntry(FeedNo(db, f), v, full, at))
  BY <1>1, <1>4, <1>5, <1>7
<1>9. Keeps(db, x)
  <2>1. db.serial \in Nat /\ Refs(db)
    BY DEF Sound, Databases
  <2>2. /\ db.serial <= d.serial /\ db.feedSeq <= x.feedSeq
        /\ \A g \in DOMAIN x.feeds : g \in DOMAIN db.feeds \/ g >= db.feedSeq
    BY <1>1, <1>3 DEF Keeps
  <2>3. DOMAIN db.entries \subseteq DOMAIN d.entries
    BY <1>1, <2>1 DEF Keeps, Refs
  <2>4. db.serial <= x.serial /\ e.mid >= db.serial
    BY <1>1, <1>3, <1>4, <2>1, <2>2
  <2>5. i \notin DOMAIN db.entries
    BY <1>7, <2>3
  <2>6. \A j \in DOMAIN x.entries :
            IF j \in DOMAIN db.entries THEN SameRow(x.entries[j], db.entries[j])
            ELSE x.entries[j].mid >= db.serial
    <3>1. \A j \in DOMAIN d.entries :
              IF j \in DOMAIN db.entries THEN SameRow(d.entries[j], db.entries[j])
              ELSE d.entries[j].mid >= db.serial
      BY <1>1 DEF Keeps
    <3>. QED  BY <1>7, <2>4, <2>5, <3>1
  <2>7. \A j \in DOMAIN db.entries : j \in DOMAIN x.entries
    BY <1>7, <2>3
  <2>. QED  BY <2>2, <2>4, <2>6, <2>7 DEF Keeps
<1>. QED  BY <1>3, <1>7, <1>8, <1>9

\* What an edit to the version v makes of the row i, and the body it leaves there.
Edited(d, i, v) ==
    IF d.entries[i].ext = "done" THEN UpdateEntryMetadata(d, i, v)
    ELSE UpdateEntryContent(d, i, v)
BodyAfter(d, i, v) == IF d.entries[i].ext = "done" THEN d.entries[i].content ELSE v

\* MemStore's entry m edited to the version v, with the body w.
EntrySet(N, m, v, w) == [N EXCEPT ![m] = [[N[m] EXCEPT !.hash = v] EXCEPT !.content = w]]

\* An edit of the row i, as MemStore's on the entry of its number.
LEMMA EditShown ==
    ASSUME Sound(db), NEW d, Polled(d), NEW v \in Versions, NEW i \in DOMAIN d.entries,
           GuidOf[d.entries[i].hash] = GuidOf[v],
           NEW w, w = BodyAfter(d, i, v), NEW x, x = Edited(d, i, v)
    PROVE  /\ Distinct(x) /\ Keeps(db, x) /\ x.serial = d.serial
           /\ x.feeds = d.feeds /\ x.tombstones = d.tombstones
           /\ x.categories = d.categories /\ x.feedSeq = d.feedSeq
           /\ MEntries(x) = EntrySet(MEntries(d), d.entries[i].mid, v, w)
<1> DEFINE o == d.entries[i]
           N == MEntries(d)
           p == PlainText(v)
           q == PlainSummary(v)
           r == IF o.ext = "done" THEN [o EXCEPT !.hash = v, !.stext = q]
                ELSE [o EXCEPT !.hash = v, !.content = v, !.ctext = p, !.stext = q]
<1>1. /\ Sound(d) /\ Distinct(d) /\ Keeps(db, d) /\ d \in Databases
      /\ d.feeds = db.feeds /\ d.serial \in Nat /\ d.entries \in Tables(EntryRow)
  BY DEF Polled, Sound, Databases
<1>2. o \in EntryRow
  BY <1>1, TableFacts
<1>3. x = UpdateText(d, i, r)
  BY DEF Edited, UpdateEntryMetadata, UpdateEntryContent
<1>4. p \in SUBSET Words /\ q \in SUBSET Words
  BY SqliteStoreAssumption DEF PlainText, PlainSummary
<1>5. N[o.mid] = EntryView(d, o)
  BY <1>1, EntriesShown
<1>6. Timed(o) /\ GuidOf[o.hash] = GuidOf[v]
  BY <1>1 DEF Distinct, AllTimed
<1> HIDE DEF p, q, o
<1>7. SameRow(r, o) /\ Timed(r)
  BY <1>2, <1>6 DEF EntryRow, SameRow, SameItem, Timed
<1>8. EntryView(d, r) = [[N[o.mid] EXCEPT !.hash = v] EXCEPT !.content = w]
  <2> HIDE DEF N
  <2> DEFINE V == EntryView(d, o)
             a == [o EXCEPT !.hash = v]
             b == [a EXCEPT !.stext = q]
             c == [b EXCEPT !.ctext = p]
  <2>1. a \in EntryRow /\ EntryView(d, a) = [V EXCEPT !.hash = v]
    BY <1>2 DEF EntryRow, EntryView
  <2>2. [o EXCEPT !.hash = v, !.stext = q] = b /\ a.content = o.content
    BY <1>2 DEF EntryRow
  <2>3. [o EXCEPT !.hash = v, !.content = v, !.ctext = p, !.stext = q]
            = [c EXCEPT !.content = v]
    BY <1>2 DEF EntryRow
  <2> HIDE DEF a
  <2>4. b \in EntryRow /\ EntryView(d, b) = EntryView(d, a) /\ b.content = a.content
    BY <1>4, <2>1 DEF EntryRow, EntryView
  <2> HIDE DEF b
  <2>5. c \in EntryRow /\ EntryView(d, c) = EntryView(d, b)
    BY <1>4, <2>4 DEF EntryRow, EntryView
  <2> HIDE DEF c
  <2>6. EntryView(d, [c EXCEPT !.content = v]) = [EntryView(d, c) EXCEPT !.content = v]
    BY <2>5 DEF EntryRow, EntryView
  <2>7. [EntryView(d, b) EXCEPT !.content = b.content] = EntryView(d, b)
    BY <2>4 DEF EntryRow, EntryView
  <2> HIDE DEF V
  <2>8. CASE o.ext = "done"
    BY <1>5, <2>1, <2>2, <2>4, <2>7, <2>8 DEF V, o, BodyAfter
  <2>9. CASE o.ext # "done"
    BY <1>5, <2>1, <2>3, <2>4, <2>5, <2>6, <2>9 DEF V, o, BodyAfter
  <2>. QED  BY <2>8, <2>9
<1> HIDE DEF r
<1>9. /\ SameRows(d, x) /\ AllTimed(x) /\ x.entries[i] = r
      /\ \A j \in DOMAIN d.entries : j # i => x.entries[j] = d.entries[j]
  BY <1>1, <1>3, <1>7, TextUpdated DEF o
<1>10. MEntries(x) = [N EXCEPT ![o.mid] = EntryView(d, r)]
  BY <1>1, <1>9, OneRowMapped DEF o
<1>11. Distinct(x) /\ x.serial = d.serial
  BY <1>1, <1>9, EntriesKeep
<1>12. Keeps(db, x)
  BY <1>1, <1>9, KeepsOn
<1>13. MEntries(x) = EntrySet(MEntries(d), d.entries[i].mid, v, w)
  BY <1>8, <1>10 DEF EntrySet, o
<1>. QED  BY <1>9, <1>11, <1>12, <1>13 DEF SameRows

LEMMA UpsertOneShown ==
    ASSUME Sound(db), Distinct(db), db.migrated => db.trigger, NEW d, Polled(d),
           NEW f \in DOMAIN db.feeds, NEW at \in Times, NEW v \in Versions,
           NEW x, x = UpsertOne(f, db.feeds[f].full, at, d, v)
    PROVE  Polled(x) /\ Polling(x) = Mem!UpsertOne(FeedNo(db, f), at, Polling(d), v)
<1> DEFINE full == db.feeds[f].full
           n == FeedNo(db, f)
           N == MEntries(d)
           s == Polling(d)
           G == GetEntryByGUID(d, f, v)
           same == {e \in DOMAIN N : N[e].feed = n /\ GuidOf[N[e].hash] = GuidOf[v]}
<1>1. /\ Sound(d) /\ Distinct(d) /\ Keeps(db, d) /\ d \in Databases /\ SameSetup(d, db)
      /\ d.feeds = db.feeds /\ d.serial \in Nat /\ d.entries \in Tables(EntryRow)
      /\ d.tombstones = db.tombstones /\ db.serial \in Nat /\ Refs(d)
      /\ d.categories = db.categories /\ d.feedSeq = db.feedSeq
  BY DEF Polled, Sound, Databases
<1>2. full \in BOOLEAN
  <2>1. db.feeds \in Tables(FeedRow)
    BY DEF Sound, Databases
  <2>2. db.feeds[f] \in FeedRow
    BY <2>1, TableFacts
  <2>. QED  BY <2>2 DEF FeedRow
<1>3. MFeeds(db)[n].full = full
  <2>1. MFeeds(db)[n] = FeedView(db, db.feeds[f])
    BY <1>1, FeedsShown
  <2>2. FeedView(db, db.feeds[f]).full = full
    BY DEF FeedView
  <2>. QED  BY <2>1, <2>2
<1>4. Sound(x) /\ SameSetup(x, db) /\ x.feeds = d.feeds
  BY <1>1, <1>2, UpsertOneFits DEF SameSetup
<1>5. TombstoneExists(d, f, v) <=> <<n, GuidOf[v]>> \in MTombs(db)
  BY <1>1, TombFound DEF TombstoneExists
<1>6. same = MidsOf(d.entries, G) /\ \A i, j \in G : i = j
  <2>1. FeedNo(d, f) = n
    BY <1>1 DEF FeedNo
  <2>. QED  BY <1>1, <2>1, ItemFound
<1>7. s.entries = N /\ s.nextID = d.serial /\ s.n = d.serial - db.serial
  BY DEF Polling
<1> HIDE DEF full, n, N, s, G
<1>8. CASE TombstoneExists(d, f, v)
  <2>1. x = d
    BY <1>8 DEF UpsertOne
  <2>2. Mem!UpsertOne(n, at, s, v) = s
    BY <1>5, <1>8, ViewNow DEF Mem!UpsertOne
  <2>. QED  BY <2>1, <2>2 DEF n, s
<1>9. CASE ~TombstoneExists(d, f, v) /\ G = {}
  <2>1. x = InsertEntry(d, f, v, full, at)
    BY <1>9 DEF UpsertOne, G, full
  <2>2. /\ Distinct(x) /\ Keeps(db, x) /\ x.serial = d.serial + 1
        /\ x.feeds = d.feeds /\ x.tombstones = d.tombstones
        /\ x.categories = d.categories /\ x.feedSeq = d.feedSeq
        /\ MEntries(x) = Put(N, d.serial, Mem!NewEntry(n, v, full, at))
    BY <1>2, <1>9, <2>1, InsertShown DEF G, N, n
  <2>3. Polled(x)
    BY <1>1, <1>4, <2>2 DEF Polled
  <2>4. same = {}
    BY <1>6, <1>9 DEF MidsOf
  <2>5. Mem!UpsertOne(n, at, s, v)
            = [entries |-> Put(N, d.serial, Mem!NewEntry(n, v, full, at)),
               nextID |-> d.serial + 1, n |-> d.serial - db.serial + 1]
    BY <1>3, <1>5, <1>7, <1>9, <2>4, ViewNow DEF Mem!UpsertOne, Mem!Put, Put
  <2>6. x.serial - db.serial = d.serial - db.serial + 1
    BY <1>1, <2>2
  <2>. QED  BY <2>2, <2>3, <2>5, <2>6 DEF Polling, n, s
<1>10. CASE ~TombstoneExists(d, f, v) /\ G # {}
  <2> DEFINE i == CHOOSE j \in G : TRUE
             o == d.entries[i]
             m == o.mid
             w == IF N[m].hash = v \/ N[m].ext = "done" THEN N[m].content ELSE v
  <2>1. i \in G /\ i \in DOMAIN d.entries /\ GuidOf[o.hash] = GuidOf[v] /\ G = {i}
    <3>1. i \in G
      BY <1>10
    <3> HIDE DEF i
    <3>. QED  BY <1>6, <3>1 DEF GetEntryByGUID, G
  <2>2. x = IF o.hash = v THEN d
            ELSE IF o.ext = "done" THEN UpdateEntryMetadata(d, i, v)
            ELSE UpdateEntryContent(d, i, v)
    BY <1>10 DEF UpsertOne, G
  <2> HIDE DEF i
  <2>3. same = {m} /\ (CHOOSE e \in same : TRUE) = m
    <3>1. same = {m}
      BY <1>6, <2>1 DEF MidsOf
    <3> HIDE DEF same, m
    <3>. QED  BY <3>1
  <2>4. /\ N = [k \in DOMAIN N |-> N[k]] /\ m \in DOMAIN N /\ N[m] = EntryView(d, o)
    BY <1>1, <2>1, EntriesShown DEF N
  <2>5. o \in EntryRow
    BY <1>1, <2>1, TableFacts
  <2> HIDE DEF o, m
  <2>6. N[m].hash = o.hash /\ N[m].ext = o.ext /\ N[m].content = o.content
    <3>1. EntryView(d, o).hash = o.hash /\ EntryView(d, o).ext = o.ext
          /\ EntryView(d, o).content = o.content
      BY DEF EntryView
    <3>. QED  BY <2>4, <3>1
  <2>7. Mem!UpsertOne(n, at, s, v)
            = [entries |-> [N EXCEPT ![m] = [[N[m] EXCEPT !.hash = v] EXCEPT !.content = w]],
               nextID |-> d.serial, n |-> d.serial - db.serial]
    <3> DEFINE k == d.serial - db.serial
               z == d.serial
               keep == N[m].hash = v \/ N[m].ext = "done"
    <3>1. s = [entries |-> N, nextID |-> z, n |-> k]
      BY DEF Polling, s, N
    <3>2. Mem!UpsertOne(n, at, s, v) =
              [s EXCEPT !.entries[m].hash = v,
                        !.entries[m].content = IF keep THEN @ ELSE v]
      <4> HIDE DEF k, z
      <4>. QED  BY <1>5, <1>7, <1>10, <2>3, ViewNow DEF Mem!UpsertOne
    <3> HIDE DEF k, z, keep
    <3>3. (IF keep THEN s.entries[m].content ELSE v) = w
      BY <1>7 DEF keep
    <3> HIDE DEF w
    <3>4. Mem!UpsertOne(n, at, s, v) =
              [s EXCEPT !.entries[m].hash = v, !.entries[m].content = w]
      BY <3>2, <3>3
    <3>5. [s EXCEPT !.entries[m].hash = v, !.entries[m].content = w]
              = [entries |-> [N EXCEPT ![m].hash = v, ![m].content = w],
                 nextID |-> z, n |-> k]
      <4> DEFINE A == [N EXCEPT ![m].hash = v]
                 a == [s EXCEPT !.entries[m].hash = v]
      <4>1. [s EXCEPT !.entries[m].hash = v, !.entries[m].content = w]
                = [a EXCEPT !.entries[m].content = w]
        OBVIOUS
      <4>2. a = [entries |-> A, nextID |-> z, n |-> k]
        BY <3>1
      <4>3. [N EXCEPT ![m].hash = v, ![m].content = w] = [A EXCEPT ![m].content = w]
        OBVIOUS
      <4> HIDE DEF a, A
      <4>4. [a EXCEPT !.entries[m].content = w]
                = [entries |-> [A EXCEPT ![m].content = w], nextID |-> z, n |-> k]
        BY <4>2
      <4>. QED  BY <4>1, <4>3, <4>4
    <3>6. [N EXCEPT ![m].hash = v, ![m].content = w]
              = [N EXCEPT ![m] = [[N[m] EXCEPT !.hash = v] EXCEPT !.content = w]]
      BY <2>4
    <3>. QED  BY <3>4, <3>5, <3>6 DEF k, z
  <2>8. MEntries(x) = [N EXCEPT ![m] = [[N[m] EXCEPT !.hash = v] EXCEPT !.content = w]]
        /\ Polled(x) /\ x.serial = d.serial
    <3>1. CASE o.hash = v
      <4>1. x = d
        BY <2>2, <3>1
      <4>2. [[N[m] EXCEPT !.hash = v] EXCEPT !.content = w] = N[m]
        <5>1. w = N[m].content /\ v = N[m].hash
          BY <2>6, <3>1
        <5> HIDE DEF w
        <5>. QED  BY <2>4, <5>1, <2>6 DEF EntryView
      <4>3. [N EXCEPT ![m] = N[m]] = N
        BY <2>4
      <4> HIDE DEF w
      <4>. QED  BY <4>1, <4>2, <4>3 DEF N
    <3>2. CASE o.hash # v
      <4>1. x = Edited(d, i, v)
        BY <2>2, <3>2 DEF Edited, o
      <4>2. w = BodyAfter(d, i, v)
        BY <2>6, <3>2 DEF BodyAfter, o
      <4> HIDE DEF w
      <4>21. i \in DOMAIN d.entries /\ GuidOf[d.entries[i].hash] = GuidOf[v]
        BY <2>1 DEF o
      <4>3. /\ Distinct(x) /\ Keeps(db, x) /\ x.serial = d.serial
            /\ x.feeds = d.feeds /\ x.tombstones = d.tombstones
            /\ x.categories = d.categories /\ x.feedSeq = d.feedSeq
            /\ MEntries(x) = EntrySet(N, m, v, w)
        BY <4>1, <4>2, <4>21, EditShown DEF N, m, o
      <4>. QED  BY <1>1, <1>4, <4>3 DEF Polled, EntrySet
    <3>. QED  BY <3>1, <3>2
  <2>. QED  BY <2>7, <2>8 DEF Polling, n, s
<1>. QED  BY <1>8, <1>9, <1>10 DEF G

LEMMA PolledNow ==
    ASSUME Sound(db), Distinct(db)
    PROVE  Polled(db) /\ Polling(db) = [entries |-> MEntries(db), nextID |-> db.serial, n |-> 0]
<1>1. db.serial \in Nat /\ Refs(db)
  BY DEF Sound, Databases
<1>2. Keeps(db, db)
  BY KeepsSelf
<1>3. db.serial - db.serial = 0
  BY <1>1
<1>. QED  BY <1>1, <1>2, <1>3 DEF Polled, Polling, SameSetup

\* MemStore's loop over a batch.
MemPolled(n, at, s0, b) == Mem!FoldLeft(LAMBDA a, v : Mem!UpsertOne(n, at, a, v), s0, b)

\* The loops of the two stores, item by item.
LEMMA UpsertedShown ==
    ASSUME Sound(db), Distinct(db), db.migrated => db.trigger,
           NEW f \in DOMAIN db.feeds, NEW b \in Batches, NEW at \in Times, NEW n,
           n = FeedNo(db, f), NEW s0, s0 = Polling(db), NEW x, x = Upserted(f, b, at)
    PROVE  Polled(x) /\ MemPolled(n, at, s0, b) = Polling(x)
<1> DEFINE S == DOMAIN b
           V == {d \in Databases : Polled(d)}
           full == db.feeds[f].full
           pick == [s \in SUBSET S |-> Max(s)]
           step == [y \in S \X V |-> UpsertOne(f, full, at, y[2], b[y[1]])]
           Fold1(g) == g = [s \in SUBSET S |->
                                IF s = {} THEN db
                                ELSE UpsertOne(f, full, at, g[s \ {Max(s)}], b[Max(s)])]
           Fold2(g) == g = [s \in SUBSET S |->
                                IF s = {} THEN s0
                                ELSE Mem!UpsertOne(n, at, g[s \ {Max(s)}], b[Max(s)])]
<1>1. x = (CHOOSE g : Fold1(g))[S]
  BY DEF FoldLeft, MapThenFoldSet, Upserted
<1>2. MemPolled(n, at, s0, b) = (CHOOSE g : Fold2(g))[S]
  BY Zenon DEF MemPolled, Mem!FoldLeft, Mem!MapThenFoldSet, Mem!Max, Max
<1>3. b \in Seq(Versions) /\ S \subseteq Int /\ IsFiniteSet(S)
  <2>1. b \in Seq(Versions)
    BY SqliteStoreAssumption
  <2>2. S = 1..Len(b) /\ Len(b) \in Nat
    BY <2>1
  <2>. QED  BY <2>1, <2>2, FS_Interval
<1>4. \A j \in S : b[j] \in Versions
  BY <1>3
<1>5. \A s \in SUBSET S : s # {} => Max(s) \in s
  <2> SUFFICES ASSUME NEW s \in SUBSET S, s # {} PROVE Max(s) \in s
    OBVIOUS
  <2>1. IsFiniteSet(s) /\ s \subseteq Int
    BY <1>3, FS_Subset
  <2>. QED  BY <2>1, MaxFits
<1>6. db \in V
  BY PolledNow DEF Sound
<1>7. ASSUME NEW d \in V, NEW v \in Versions
      PROVE  /\ UpsertOne(f, full, at, d, v) \in V
             /\ Polling(UpsertOne(f, full, at, d, v)) = Mem!UpsertOne(n, at, Polling(d), v)
  <2> DEFINE y == UpsertOne(f, full, at, d, v)
  <2>1. y = UpsertOne(f, db.feeds[f].full, at, d, v)
    OBVIOUS
  <2> HIDE DEF y
  <2>2. Polled(y) /\ Polling(y) = Mem!UpsertOne(FeedNo(db, f), at, Polling(d), v)
    BY <2>1, UpsertOneShown
  <2>3. y \in Databases
    BY <2>2 DEF Polled, Sound
  <2>. QED  BY <2>2, <2>3 DEF y
<1> HIDE DEF V, S, full
<1>8. step \in [S \X V -> V]
  BY <1>4, <1>7
<1>9. Picks(S, pick)
  BY <1>5 DEF Picks
<1> HIDE DEF step, pick
<1>10. PICK g \in [SUBSET S -> V] : FoldOf(g, S, db, pick, step)
  BY <1>3, <1>6, <1>8, <1>9, FoldWithin
<1>11. ASSUME NEW s \in SUBSET S
       PROVE  g[s] = IF s = {} THEN db
                     ELSE UpsertOne(f, full, at, g[s \ {Max(s)}], b[Max(s)])
  <2>1. CASE s = {}
    BY <1>10, <2>1 DEF FoldOf
  <2>2. CASE s # {}
    <3>1. pick[s] = Max(s) /\ Max(s) \in S /\ g[s \ {Max(s)}] \in V
      BY <1>5, <2>2 DEF pick
    <3>. QED  BY <1>10, <2>2, <3>1 DEF step, FoldOf
  <2>. QED  BY <2>1, <2>2
<1>12. Fold1(g)
  BY <1>11
<1> DEFINE h == CHOOSE k : Fold1(k)
<1>13. Fold1(h)
  <2> HIDE DEF Fold1
  <2>. QED  BY <1>12
<1> HIDE DEF h
<1>14. \A s \in SUBSET S : h[s] = IF s = {} THEN db
                     ELSE UpsertOne(f, full, at, h[s \ {Max(s)}], b[Max(s)])
  BY <1>13
<1> DEFINE P == {s \in SUBSET S : h[s] \in V}
<1>15. {} \in P
  BY <1>6, <1>14
<1>16. ASSUME NEW s \in SUBSET S, s # {}
       PROVE  \E y \in s : s \ {y} \in P => s \in P
  <2>1. Max(s) \in s
    BY <1>5, <1>16
  <2>2. ASSUME s \ {Max(s)} \in P PROVE h[s] \in V
    <3>1. h[s] = UpsertOne(f, full, at, h[s \ {Max(s)}], b[Max(s)])
      BY <1>14, <1>16
    <3>2. h[s \ {Max(s)}] \in V /\ b[Max(s)] \in Versions
      BY <1>4, <2>1, <2>2
    <3>. QED  BY <1>7, <3>1, <3>2
  <2>. QED  BY <2>1, <2>2
<1>17. Inductive(S, P)
  BY <1>15, <1>16 DEF Inductive
<1>18. \A s \in SUBSET S : h[s] \in V
  <2>1. \A s \in SUBSET S : IsFiniteSet(s) /\ Inductive(s, P)
    <3>1. \A s \in SUBSET S : IsFiniteSet(s)
      BY <1>3, FS_Subset
    <3>. QED  BY <3>1, <1>17 DEF Inductive
  <2>2. \A s \in SUBSET S : s \in P
    <3> HIDE DEF P
    <3>. QED  BY <2>1, SubsetInduction
  <2>. QED  BY <2>2
<1> DEFINE K == [s \in SUBSET S |-> Polling(h[s])]
<1>19. K = [s \in SUBSET S |-> IF s = {} THEN s0
                               ELSE Mem!UpsertOne(n, at, K[s \ {Max(s)}], b[Max(s)])]
  <2>1. ASSUME NEW s \in SUBSET S
        PROVE  K[s] = IF s = {} THEN s0
                      ELSE Mem!UpsertOne(n, at, K[s \ {Max(s)}], b[Max(s)])
    <3>1. CASE s = {}
      BY <1>14, <3>1
    <3>2. CASE s # {}
      <4>1. Max(s) \in S /\ s \ {Max(s)} \in SUBSET S
        BY <1>5, <3>2
      <4>2. h[s \ {Max(s)}] \in V /\ b[Max(s)] \in Versions
        BY <1>4, <1>18, <4>1
      <4>3. h[s] = UpsertOne(f, full, at, h[s \ {Max(s)}], b[Max(s)])
        BY <1>14, <3>2
      <4>4. Polling(h[s]) = Mem!UpsertOne(n, at, Polling(h[s \ {Max(s)}]), b[Max(s)])
        BY <1>7, <4>2, <4>3
      <4>. QED  BY <3>2, <4>1, <4>4
    <3>. QED  BY <3>1, <3>2
  <2>2. K = [s \in SUBSET S |-> K[s]]
    OBVIOUS
  <2> HIDE DEF K
  <2>. QED  BY <2>1, <2>2
<1> DEFINE k == CHOOSE j : Fold2(j)
<1>20. Fold2(k)
  <2>1. Fold2(K)
    <3> HIDE DEF K
    <3>. QED  BY <1>19 DEF K
  <2> HIDE DEF Fold2, K
  <2>. QED  BY <2>1
<1> HIDE DEF k
<1>21. \A s \in SUBSET S : k[s] = IF s = {} THEN s0
                     ELSE Mem!UpsertOne(n, at, k[s \ {Max(s)}], b[Max(s)])
  BY <1>20
<1>22. \A s \in SUBSET S : K[s] = IF s = {} THEN s0
                     ELSE Mem!UpsertOne(n, at, K[s \ {Max(s)}], b[Max(s)])
  <2> HIDE DEF K
  <2>. QED  BY <1>19
<1>23. K[S] = Polling(h[S])
  OBVIOUS
<1> HIDE DEF K
<1> DEFINE Q == {s \in SUBSET S : k[s] = K[s]}
<1>24. {} \in Q
  BY <1>21, <1>22
<1>25. ASSUME NEW s \in SUBSET S, s # {}
       PROVE  \E y \in s : s \ {y} \in Q => s \in Q
  <2>1. Max(s) \in s
    BY <1>5, <1>25
  <2>2. ASSUME s \ {Max(s)} \in Q PROVE k[s] = K[s]
    BY <1>21, <1>22, <1>25, <2>2
  <2>. QED  BY <2>1, <2>2
<1>26. Inductive(S, Q)
  BY <1>24, <1>25 DEF Inductive
<1>27. S \in Q
  <2> HIDE DEF Q
  <2>. QED  BY <1>3, <1>26, SubsetInduction
<1>28. k[S] = Polling(h[S]) /\ h[S] \in V
  BY <1>18, <1>23, <1>27
<1>29. x = h[S]
  BY <1>1 DEF h, S, full
<1>30. MemPolled(n, at, s0, b) = k[S]
  BY <1>2 DEF k, S
<1>. QED  BY <1>28, <1>29, <1>30 DEF V

LEMMA UpsertsRefine ==
    ASSUME Sound(db), Distinct(db), db.migrated => db.trigger, NEW f, NEW b \in Batches,
           NEW at \in Times, db' = Upserted(f, b, at),
           MemAnswer' = <<"UpsertEntries", FeedNo(db, f), b, at, db'.serial - db.serial>>
    PROVE  Refined
<1> DEFINE n == FeedNo(db, f)
           x == db'
           s == Polling(x)
           s0 == [entries |-> MEntries(db), nextID |-> db.serial, n |-> 0]
<1>1. db.serial \in Nat /\ Refs(db) /\ Polled(db) /\ Polling(db) = s0
  BY PolledNow DEF Sound, Databases
<1>2. f \in DOMAIN db.feeds <=> n \in DOMAIN MFeeds(db)
  BY <1>1, FeedsShown
<1>3. Polled(x) /\ s = IF n \in DOMAIN MFeeds(db) THEN MemPolled(n, at, s0, b) ELSE s0
  <2> HIDE DEF s0, n
  <2>1. CASE f \in DOMAIN db.feeds
    BY <1>1, <1>2, <2>1, UpsertedShown DEF n
  <2>2. CASE f \notin DOMAIN db.feeds
    BY <1>1, <1>2, <2>2 DEF Upserted
  <2>. QED  BY <2>1, <2>2
<1>4. /\ Distinct(x) /\ Keeps(db, x) /\ x.feeds = db.feeds /\ x.tombstones = db.tombstones
      /\ x.categories = db.categories
  BY <1>3 DEF Polled
<1>5. MFeeds(x) = MFeeds(db) /\ MTombs(x) = MTombs(db) /\ MCats(x) = MCats(db)
  <2>1. FeedNosKept(db, x)
    BY <1>4 DEF FeedNosKept
  <2>. QED  BY <1>1, <1>4, <2>1, FeedsViewKept, TombsViewKept, CatsViewKept
<1>6. s.entries = MEntries(x) /\ s.nextID = x.serial /\ s.n = x.serial - db.serial
  BY DEF Polling
<1> HIDE DEF s
<1>7. Mem!UpsertEntries(n, b, at)
  <2>1. Mem!UpsertEntries(n, b, at) <=>
            LET z0 == [entries |-> Renumbered(db.entries, MemEntry), nextID |-> db.serial, n |-> 0]
                z == IF n \in DOMAIN Renumbered(db.feeds, MemFeed)
                     THEN MemPolled(n, at, z0, b) ELSE z0
            IN  /\ MemAnswer' = <<"UpsertEntries", n, b, at, z.n>>
                /\ Renumbered(db.entries, MemEntry)' = z.entries
                /\ db'.serial = z.nextID
                /\ UNCHANGED <<Renumbered(db.feeds, MemFeed),
                               {<<MidFeed(t[1]), t[2]>> : t \in db.tombstones},
                               Renumbered(db.categories, LAMBDA c : c.title)>>
    BY Zenon DEF Mem!UpsertEntries, MemPolled
  <2> HIDE DEF n
  <2>. QED  BY <1>3, <1>5, <1>6, <2>1, ViewNow, ViewNext DEF n
<1>8. n \in Mem!FeedIds
  BY <1>1, FeedsShown, ViewNow DEF Mem!FeedIds
<1>9. Mem!Next
  <2> HIDE DEF n
  <2>. QED  BY <1>7, <1>8 DEF Mem!Next
<1>. QED  BY <1>4, <1>9 DEF Refined

LEMMA UpsertEntriesRefines ==
    ASSUME IInv, Distinct(db), NEW f, NEW b \in Batches, NEW at \in Times,
           UpsertEntries(f, b, at)
    PROVE  Refined
<1> DEFINE d == Upserted(f, b, at)
           z == d.serial - db.serial
<1>1. Call(d, <<"UpsertEntries", FeedNo(db, f), b, at, z>>)
  BY MidIsNo DEF UpsertEntries
<1>2. phase = "open"
  BY <1>1 DEF Call
<1>3. Sound(db) /\ (db.migrated => db.trigger)
  BY <1>2, OpenFacts
<1> HIDE DEF d, z
<1>4. db' = d /\ MemAnswer' = <<"UpsertEntries", FeedNo(db, f), b, at, z>>
  BY <1>1, CallAnswers
<1>. QED  BY <1>3, <1>4, UpsertsRefine DEF d, z

-----------------------------------------------------------------------------
(* An older version's rows, as MemStore would have made them.              *)

OldInv ==
    phase = "old" => IF db.feeds = <<>> THEN db.serial = 1 /\ db.feedSeq = 1
                     ELSE 1 \in DOMAIN db.feeds /\ db.feeds[1].mid = 1

LEMMA OldFeedRefines ==
    ASSUME IInv, Distinct(db), OldInv, NEW u \in Urls, NEW full \in BOOLEAN, OldFeed(u, full)
    PROVE  Refined /\ OldInv'
<1> DEFINE row == [mid |-> 1, url |-> u, etag |-> FALSE, next |-> Now, cat |-> None,
                   full |-> full, name |-> FALSE]
           F == Put(db.feeds, 1, row)
           M == MFeeds(db)
           at == Now
           new == [url |-> u, etag |-> FALSE, next |-> at, cat |-> None, full |-> full,
                   name |-> FALSE]
           code == "ok"
<1>1. /\ Sound(db) /\ db \in Databases /\ db.serial = 1 /\ db.feedSeq = 1 /\ phase' = "old"
      /\ db.feeds = <<>>
  BY DEF IInv, Sound, OldFeed, OldInv, startup
<1>2. db' = [db EXCEPT !.feeds = F, !.feedSeq = 2, !.serial = 2]
  BY DEF OldFeed
<1>3. answer' = <<"CreateFeed", u, None, full, at, code>>
  BY DEF OldFeed
<1> HIDE DEF at, code
<1>4. MemAnswer' = <<"CreateFeed", u, None, full, at, code>>
  BY <1>3 DEF MemAnswer
<1>5. row.mid = db.serial /\ row.cat \in DOMAIN db.categories \cup {None}
      /\ FeedView(db, row) = new
  BY <1>1 DEF FeedView, CatNo, at
<1> HIDE DEF row, new
<1>6. /\ db'.feeds = F /\ db'.feedSeq = db.feedSeq + 1 /\ db'.serial = db.serial + 1
      /\ db'.entries = db.entries /\ db'.tombstones = db.tombstones
      /\ db'.categories = db.categories /\ db.serial + 1 = 2
  <2>1. db.serial + 1 = 2 /\ db.feedSeq + 1 = 2
    BY <1>1
  <2>. QED  BY <1>1, <1>2, <2>1 DEF Databases
<1>7. /\ Distinct(db') /\ Keeps(db, db') /\ MEntries(db') = MEntries(db)
      /\ MTombs(db') = MTombs(db) /\ MCats(db') = MCats(db)
      /\ MFeeds(db') = Put(M, db.serial, new)
  <2>1. 1 \in Nat /\ 1 >= db.feedSeq
    BY <1>1
  <2>. QED  BY <1>1, <1>5, <1>6, <2>1, NewFeedShown
<1>8. DOMAIN M = {}
  <2>1. DOMAIN db.feeds = {} /\ db.serial \in Nat
    BY <1>1
  <2>. QED  BY <2>1, FeedsShown DEF MidsOf
<1>9. ~ \E f \in DOMAIN M : M[f].url = u
  BY <1>8
<1> HIDE DEF M
<1>10. Mem!CreateFeed(u, None, full, at)
  BY <1>4, <1>6, <1>7, <1>9, ViewNow, ViewNext DEF Mem!CreateFeed, Mem!Put, Put, new, M, code
<1>11. Mem!Next
  <2>1. None \in Mem!Categories /\ at \in Times
    BY NowFits DEF Mem!Categories, Mem!None, None, at
  <2>. QED  BY <1>10, <2>1 DEF Mem!Next
<1>12. OldInv'
  <2>1. DOMAIN db'.feeds = {1} /\ db'.feeds[1] = row
    BY <1>1, <1>6 DEF Put
  <2>2. db'.feeds # <<>> /\ row.mid = 1
    BY <2>1, <1>1, <1>5
  <2>. QED  BY <1>1, <2>1, <2>2 DEF OldInv
<1>. QED  BY <1>7, <1>11, <1>12 DEF Refined

LEMMA OldEntriesRefines ==
    ASSUME IInv, Distinct(db), OldInv, NEW b \in Batches, OldEntries(b)
    PROVE  Refined /\ OldInv'
<1> DEFINE z == db'.serial - db.serial
           at == Now
<1>1. /\ phase = "old" /\ db.feeds # <<>> /\ db' = Upserted(1, b, at) /\ phase' = "old"
      /\ answer' = <<"UpsertEntries", 1, b, at, z>>
  BY DEF OldEntries, startup
<1>2. 1 \in DOMAIN db.feeds /\ db.feeds[1].mid = 1
  BY <1>1 DEF OldInv
<1>3. FeedNo(db, 1) = 1
  BY <1>2 DEF FeedNo
<1>4. Sound(db) /\ ~db.migrated /\ at \in Times
  BY <1>1, NowFits DEF IInv, StartedInv
<1> HIDE DEF z, at
<1>5. MemAnswer' = <<"UpsertEntries", FeedNo(db, 1), b, at, z>>
  BY <1>1, <1>3 DEF MemAnswer
<1>6. Refined
  BY <1>1, <1>4, <1>5, UpsertsRefine DEF z
<1>7. db'.feeds = db.feeds
  BY <1>1, <1>4, UpsertedFits
<1>. QED  BY <1>1, <1>2, <1>6, <1>7 DEF OldInv

-----------------------------------------------------------------------------
(* Deleting an entry: a read, then a transaction.                          *)

\* What a DeleteEntry that has read r can rely on in its transaction, if no other
\* one ran in between: r's number is of no other row, and r's row is gone only
\* with its feed.
Knows(d, r) ==
    /\ r.mid \in 1..d.serial - 1 /\ r.feed < d.feedSeq
    /\ \A i \in DOMAIN d.entries :
           d.entries[i].mid = r.mid => i = r.id /\ SameItem(d.entries[i], r)
    /\ r.feed \in DOMAIN d.feeds => r.id \in DOMAIN d.entries /\ d.entries[r.id].mid = r.mid

Deletes == \A c \in Deleters : deleting[c] # NoDelete => Knows(db, deleting[c])

LEMMA KeepsKnows ==
    ASSUME NEW d, Sound(d), NEW x, Sound(x), Keeps(d, x), NEW r \in DeleteRead, Knows(d, r)
    PROVE  Knows(x, r)
<1>1. /\ d.serial \in Nat /\ x.serial \in Nat /\ d.feedSeq \in Nat /\ x.feedSeq \in Nat
      /\ r.feed \in Nat /\ r.mid \in Nat
  BY DEF Sound, Databases, DeleteRead
<1>2. r.mid \in 1..x.serial - 1 /\ r.feed < x.feedSeq
  BY <1>1 DEF Keeps, Knows
<1>3. ASSUME NEW i \in DOMAIN x.entries, x.entries[i].mid = r.mid
      PROVE  i = r.id /\ SameItem(x.entries[i], r)
  <2>1. i \in DOMAIN d.entries /\ SameRow(x.entries[i], d.entries[i])
    BY <1>1, <1>3 DEF Keeps, Knows
  <2>2. i = r.id /\ SameItem(d.entries[i], r)
    BY <1>3, <2>1 DEF SameRow, Knows
  <2>. QED  BY <2>1, <2>2 DEF SameRow, SameItem
<1>4. ASSUME r.feed \in DOMAIN x.feeds
      PROVE  r.id \in DOMAIN x.entries /\ x.entries[r.id].mid = r.mid
  <2>1. r.feed \in DOMAIN d.feeds
    BY <1>1, <1>4 DEF Keeps, Knows
  <2>2. r.id \in DOMAIN d.entries /\ d.entries[r.id].mid = r.mid
        /\ SameItem(d.entries[r.id], r)
    BY <2>1 DEF Knows
  <2>3. r.id \in DOMAIN x.entries
    BY <1>4, <2>2 DEF Keeps, SameItem
  <2>. QED  BY <2>2, <2>3 DEF Keeps, SameRow
<1>. QED  BY <1>2, <1>3, <1>4 DEF Knows

\* The row i deleted, and its item remembered.
Dropped(d, f, v, i) == DeleteRows(InsertTombstone(d, f, v), {i})

RowGone(d, f, v, i, x) ==
    /\ MFeeds(x) = MFeeds(d) /\ MCats(x) = MCats(d) /\ x.serial = d.serial
    /\ MTombs(x) = MTombs(d) \cup {<<FeedNo(d, f), GuidOf[v]>>}
    /\ MEntries(x) = Restrict(MEntries(d), DOMAIN MEntries(d) \ {d.entries[i].mid})

LEMMA RowDeleted ==
    ASSUME NEW d, Sound(d), Distinct(d), NEW i \in DOMAIN d.entries,
           NEW f \in DOMAIN d.feeds, NEW v,
           NEW x, x = Dropped(d, f, v, i)
    PROVE  Distinct(x) /\ RowGone(d, f, v, i, x)
<1> DEFINE t == d.entries
           K == DOMAIN t \ {i}
           E == Restrict(t, K)
           N == MEntries(d)
           L == DOMAIN N \ {t[i].mid}
<1>1. d \in Databases /\ Refs(d) /\ d.serial \in Nat
  BY DEF Sound, Databases
<1>2. /\ x.feeds = d.feeds /\ x.entries = E /\ x.categories = d.categories
      /\ x.tombstones = d.tombstones \cup {<<f, GuidOf[v]>>}
      /\ x.serial = d.serial /\ x.feedSeq = d.feedSeq
  BY <1>1 DEF Dropped, DeleteRows, InsertTombstone, Databases
<1>3. Named(d.feeds, d.serial) /\ Named(t, d.serial) /\ Named(d.categories, d.serial)
  BY DEF Distinct
<1>4. DOMAIN E = K /\ \A j \in K : E[j] = t[j]
  BY DEF Restrict
<1>5. \A g : FeedNo(x, g) = FeedNo(d, g)
  BY <1>2 DEF FeedNo
<1>6. FeedNosKept(d, x) /\ CatNosKept(d, x) /\ MCats(x) = MCats(d)
  BY <1>2, CatsViewKept DEF FeedNosKept
<1>7. MFeeds(x) = MFeeds(d)
  BY <1>1, <1>2, <1>6, FeedsViewKept
<1>8. MTombs(x) = MTombs(d) \cup {<<FeedNo(d, f), GuidOf[v]>>}
  <2> DEFINE p == <<f, GuidOf[v]>>
  <2>1. p[1] = f /\ p[2] = GuidOf[v]
    OBVIOUS
  <2> HIDE DEF p
  <2>2. x.tombstones = d.tombstones \cup {p}
    BY <1>2 DEF p
  <2>. QED  BY <1>5, <2>1, <2>2 DEF MTombs
<1>9. DOMAIN N = MidsOf(t, DOMAIN t)
  BY <1>1, EntriesShown
<1>10. L = MidsOf(t, K)
  BY <1>3, <1>9 DEF MidsOf, Named
<1>11. MEntries(x) = Restrict(N, L) /\ Named(E, d.serial)
  <2>1. \A j \in K : EntryView(x, E[j]) = EntryView(d, t[j])
    BY <1>4, <1>5 DEF EntryView
  <2>2. \A j \in K : EntryRows(x)[j] = EntryRows(d)[j]
    <3>1. \A j \in K : EntryRows(x)[j] = EntryView(x, E[j])
      BY <1>2, <1>4 DEF EntryRows
    <3>2. \A j \in K : EntryRows(d)[j] = EntryView(d, t[j])
      BY DEF EntryRows
    <3>. QED  BY <2>1, <3>1, <3>2
  <2>3. K \in SUBSET DOMAIN t
    OBVIOUS
  <2>31. E = Restrict(t, K)
    OBVIOUS
  <2> HIDE DEF K, L, t, E
  <2>4. Renum(E, EntryRows(x)) = Restrict(Renum(t, EntryRows(d)), L) /\ Named(E, d.serial)
    BY <1>3, <1>10, <2>2, <2>3, <2>31, RenumRestrict
  <2>. QED  BY <1>2, <2>4 DEF MEntries, t
<1>12. OneEach(x) /\ InOrder(x) /\ AllTimed(x)
  <2>1. \A j \in DOMAIN x.entries : j \in DOMAIN d.entries /\ x.entries[j] = d.entries[j]
    BY <1>2, <1>4
  <2>. QED  BY <2>1 DEF Distinct, OneEach, InOrder, AllTimed
<1> HIDE DEF E
<1>13. Distinct(x)
  BY <1>2, <1>3, <1>11, <1>12 DEF Distinct
<1>. QED  BY <1>2, <1>6, <1>7, <1>8, <1>11, <1>13 DEF RowGone

\* Whatever a transaction finds, the rows stay told apart.
LEMMA DeleteTxDistinct ==
    ASSUME IInv, Distinct(db), NEW c, DeleteEntryTx(c)
    PROVE  Distinct(db')
<1> DEFINE r == deleting[c]
<1>1. phase = "open" /\ db' = (IF r.feed \in DOMAIN db.feeds /\ r.id \in DOMAIN db.entries
                              THEN Dropped(db, r.feed, r.hash, r.id)
                              ELSE db)
  BY DEF DeleteEntryTx, Dropped
<1>2. Sound(db)
  BY DEF IInv
<1> HIDE DEF r
<1>3. CASE r.feed \in DOMAIN db.feeds /\ r.id \in DOMAIN db.entries
  BY <1>1, <1>2, <1>3, RowDeleted
<1>4. CASE ~(r.feed \in DOMAIN db.feeds /\ r.id \in DOMAIN db.entries)
  BY <1>1, <1>4
<1>. QED  BY <1>3, <1>4

LEMMA DeleteTxRefines ==
    ASSUME IInv, Distinct(db), NEW c \in Deleters, DeleteEntryTx(c), Knows(db, deleting[c])
    PROVE  Mem!Next
<1> DEFINE r == deleting[c]
           ok == r.feed \in DOMAIN db.feeds /\ r.id \in DOMAIN db.entries
           code == IF r.feed \notin DOMAIN db.feeds THEN "conflict"
                   ELSE IF r.id \notin DOMAIN db.entries THEN "notfound" ELSE "ok"
           m == r.mid
           N == MEntries(db)
           t == db.entries
<1>1. /\ phase = "open" /\ answer' = <<"DeleteEntry", m, code>>
      /\ db' = IF ok THEN Dropped(db, r.feed, r.hash, r.id) ELSE db
  BY DEF DeleteEntryTx, Dropped
<1>2. Sound(db) /\ db \in Databases /\ Refs(db) /\ db.serial \in Nat /\ Named(t, db.serial)
  BY DEF IInv, Sound, Databases, Distinct
<1>3. MemAnswer' = <<"DeleteEntry", m, IF ok THEN "ok" ELSE "notfound">>
  <2>1. ok <=> code = "ok"
    OBVIOUS
  <2>2. ~ok /\ code # "conflict" => code = "notfound"
    OBVIOUS
  <2> HIDE DEF m, ok, code
  <2>3. answer'[1] = "DeleteEntry" /\ answer'[2] = m /\ answer'[3] = code
    BY <1>1
  <2>. QED  BY <1>1, <2>1, <2>2, <2>3 DEF MemAnswer
<1>4. /\ DOMAIN N = MidsOf(t, DOMAIN t) /\ N = [k \in DOMAIN N |-> N[k]]
      /\ \A i \in DOMAIN t : N[t[i].mid] = EntryView(db, t[i])
  BY <1>2, EntriesShown
<1>5. \A i \in DOMAIN t : t[i].mid = m => i = r.id /\ SameItem(t[i], r)
  BY DEF Knows
<1>6. ok <=> m \in DOMAIN N
  <2>1. ok => m \in DOMAIN N
    BY <1>4 DEF Knows, MidsOf
  <2>2. m \in DOMAIN N => ok
    <3> SUFFICES ASSUME m \in DOMAIN N PROVE ok
      OBVIOUS
    <3>1. PICK i \in DOMAIN t : t[i].mid = m
      BY <1>4 DEF MidsOf
    <3>2. i = r.id /\ SameItem(t[i], r)
      BY <1>5, <3>1
    <3>. QED  BY <1>2, <3>2 DEF SameItem, Refs
  <2>. QED  BY <2>1, <2>2
<1>7. m \in 1..db.serial
  BY <1>2 DEF Knows
<1> DEFINE T == {<<N[k].feed, GuidOf[N[k].hash]>> : k \in {m} \cap DOMAIN N}
           R == [k \in DOMAIN N \ {m} |-> N[k]]
<1>8. /\ MFeeds(db') = MFeeds(db) /\ MCats(db') = MCats(db) /\ db'.serial = db.serial
      /\ MTombs(db') = MTombs(db) \cup T /\ MEntries(db') = R
  <2>1. CASE ok
    <3>1. r.id \in DOMAIN t /\ t[r.id].mid = m /\ SameItem(t[r.id], r)
      BY <1>5, <2>1 DEF Knows
    <3>2. /\ MFeeds(db') = MFeeds(db) /\ MCats(db') = MCats(db) /\ db'.serial = db.serial
          /\ MTombs(db') = MTombs(db) \cup {<<FeedNo(db, r.feed), GuidOf[r.hash]>>}
          /\ MEntries(db') = Restrict(N, DOMAIN N \ {t[r.id].mid})
      <4>1. /\ db' = Dropped(db, r.feed, r.hash, r.id)
            /\ r.feed \in DOMAIN db.feeds /\ r.id \in DOMAIN db.entries
        BY <1>1, <2>1
      <4> HIDE DEF r
      <4>2. RowGone(db, r.feed, r.hash, r.id, db')
        BY <1>2, <4>1, RowDeleted
      <4>. QED  BY <4>2 DEF RowGone
    <3>3. MEntries(db') = R
      BY <3>1, <3>2 DEF Restrict
    <3>4. N[m] = EntryView(db, t[r.id]) /\ m \in DOMAIN N
      BY <1>4, <1>6, <2>1, <3>1
    <3>5. EntryView(db, t[r.id]).feed = FeedNo(db, t[r.id].feed)
          /\ EntryView(db, t[r.id]).hash = t[r.id].hash
      BY DEF EntryView
    <3> HIDE DEF N, m
    <3>6. N[m].feed = FeedNo(db, r.feed) /\ GuidOf[N[m].hash] = GuidOf[r.hash]
      BY <3>1, <3>4, <3>5 DEF SameItem
    <3>7. T = {<<N[m].feed, GuidOf[N[m].hash]>>}
      BY <3>4
    <3>8. T = {<<FeedNo(db, r.feed), GuidOf[r.hash]>>}
      BY <3>6, <3>7
    <3>. QED  BY <3>2, <3>3, <3>8
  <2>2. CASE ~ok
    <3>1. db' = db
      BY <1>1, <2>2
    <3> HIDE DEF N, m
    <3>2. m \notin DOMAIN N
      BY <1>6, <2>2
    <3>3. R = N /\ T = {}
      BY <1>4, <3>2
    <3> HIDE DEF R, T
    <3>. QED  BY <3>1, <3>3 DEF N
  <2>. QED  BY <2>1, <2>2
<1> HIDE DEF ok, m
<1>9. \E e \in 1..db.serial : Mem!DeleteEntry(e)
  <2> USE DEF Mem!DeleteEntry, Mem!Restrict
  <2> WITNESS m \in 1..db.serial
  <2>. QED  BY <1>3, <1>6, <1>8, ViewNow, ViewNext DEF N
<1>. QED  BY <1>9 DEF Mem!Next

\* Nothing that MemStore keeps has changed.
Stutters == UNCHANGED Mem!vars

LEMMA SameView ==
    ASSUME MFeeds(db') = MFeeds(db), MEntries(db') = MEntries(db), MTombs(db') = MTombs(db),
           MCats(db') = MCats(db), db'.serial = db.serial, MemAnswer' = MemAnswer
    PROVE  Stutters
  BY ViewNow, ViewNext DEF Stutters, Mem!vars

LEMMA DeleteReadRefines ==
    ASSUME IInv, Distinct(db), Deletes, NEW c \in Deleters, NEW i, DeleteEntryRead(c, i)
    PROVE  (Mem!Next \/ Stutters) /\ Deletes'
<1> DEFINE N == MEntries(db)
           r == [id |-> i, feed |-> db.entries[i].feed, hash |-> db.entries[i].hash,
                 mid |-> db.entries[i].mid]
<1>1. /\ phase = "open" /\ db' = db
      /\ \/ /\ i \in DOMAIN db.entries /\ deleting' = [deleting EXCEPT ![c] = r]
            /\ answer' = answer
         \/ /\ i \notin DOMAIN db.entries /\ deleting' = deleting
            /\ answer' = <<"DeleteEntry", MidEntry(i), "notfound">>
  BY DEF DeleteEntryRead
<1>2. /\ Sound(db) /\ db \in Databases /\ Refs(db) /\ db.serial \in Nat \ {0}
      /\ Named(db.entries, db.serial)
  BY DEF IInv, Sound, Databases, Distinct
<1>3. CASE i \in DOMAIN db.entries
  <2>1. deleting' = [deleting EXCEPT ![c] = r] /\ answer' = answer
    BY <1>1, <1>3
  <2>2. MemAnswer' = MemAnswer
    BY <2>1 DEF MemAnswer
  <2>3. Stutters
    BY <1>1, <2>2, SameView
  <2>4. r.id = i /\ r.mid = db.entries[i].mid /\ SameItem(db.entries[i], r)
        /\ r.feed = db.entries[i].feed
    BY DEF SameItem
  <2> HIDE DEF r
  <2>5. Knows(db, r)
    <3>1. r.mid \in 1..db.serial - 1
      BY <1>2, <1>3, <2>4 DEF Named
    <3>2. r.feed < db.feedSeq
      BY <1>2, <1>3, <2>4 DEF Refs
    <3>3. \A j \in DOMAIN db.entries :
              db.entries[j].mid = r.mid => j = r.id /\ SameItem(db.entries[j], r)
      BY <1>2, <1>3, <2>4 DEF Named
    <3>. QED  BY <1>3, <2>4, <3>1, <3>2, <3>3 DEF Knows
  <2>6. deleting \in [Deleters -> {NoDelete} \cup DeleteRead]
    BY DEF IInv, Bounds
  <2>7. Deletes'
    <3>1. ASSUME NEW d \in Deleters, deleting'[d] # NoDelete PROVE Knows(db, deleting'[d])
      <4>1. CASE d = c
        BY <2>1, <2>5, <2>6, <4>1
      <4>2. CASE d # c
        BY <2>1, <2>6, <3>1, <4>2 DEF Deletes
      <4>. QED  BY <4>1, <4>2
    <3>. QED  BY <1>1, <3>1 DEF Deletes
  <2>. QED  BY <2>3, <2>7
<1>4. CASE i \notin DOMAIN db.entries
  <2> DEFINE m == db.serial
             T == {<<N[k].feed, GuidOf[N[k].hash]>> : k \in {m} \cap DOMAIN N}
             R == [k \in DOMAIN N \ {m} |-> N[k]]
  <2>1. answer' = <<"DeleteEntry", m, "notfound">> /\ deleting' = deleting
    BY <1>1, <1>4 DEF MidEntry, Mid
  <2>2. MemAnswer' = <<"DeleteEntry", m, "notfound">>
    BY <2>1 DEF MemAnswer
  <2>3. m \notin DOMAIN N /\ N = [k \in DOMAIN N |-> N[k]]
    BY <1>2, EntriesShown
  <2>4. R = N /\ T = {}
    <3> HIDE DEF N
    <3>. QED  BY <2>3
  <2>5. /\ MFeeds(db') = MFeeds(db) /\ MCats(db') = MCats(db) /\ db'.serial = db.serial
        /\ MTombs(db') = MTombs(db) \cup T /\ MEntries(db') = R
    <3> HIDE DEF R, T
    <3>. QED  BY <1>1, <2>4
  <2>6. m \in 1..db.serial
    BY <1>2
  <2> HIDE DEF m
  <2>7. \E e \in 1..db.serial : Mem!DeleteEntry(e)
    <3> USE DEF Mem!DeleteEntry, Mem!Restrict
    <3> WITNESS m \in 1..db.serial
    <3>. QED  BY <2>2, <2>3, <2>5, ViewNow, ViewNext DEF N
  <2>8. Mem!Next
    BY <2>7 DEF Mem!Next
  <2>9. Deletes'
    BY <1>1, <2>1 DEF Deletes
  <2>. QED  BY <2>8, <2>9
<1>. QED  BY <1>3, <1>4

-----------------------------------------------------------------------------
(* Start-up and crashes.                                                   *)

\* The text columns may differ, nothing else of the tables does.
Alike(d, x) ==
    /\ SameRows(d, x) /\ AllTimed(x)
    /\ \A i \in DOMAIN d.entries : EntryView(d, x.entries[i]) = EntryView(d, d.entries[i])

LEMMA AlikeStutters ==
    ASSUME Sound(db), Distinct(db), Alike(db, db'), answer' = answer
    PROVE  Distinct(db') /\ Keeps(db, db') /\ Stutters
<1> DEFINE N == MEntries(db)
<1>1. /\ Distinct(db') /\ Keeps(db, db') /\ MFeeds(db') = MFeeds(db)
      /\ MTombs(db') = MTombs(db) /\ MCats(db') = MCats(db) /\ db'.serial = db.serial
  BY EntriesKeep DEF Alike
<1>2. db.serial \in Nat
  BY DEF Sound, Databases
<1>3. /\ N = [m \in DOMAIN N |-> N[m]]
      /\ \A i \in DOMAIN db.entries : N[db.entries[i].mid] = EntryView(db, db.entries[i])
  BY <1>2, EntriesShown
<1>4. \A i \in DOMAIN db.entries : N[db.entries[i].mid] = EntryView(db, db'.entries[i])
  BY <1>3 DEF Alike
<1>5. SameRows(db, db') /\ AllTimed(db') /\ DOMAIN N = DOMAIN MEntries(db)
  BY DEF Alike
<1> HIDE DEF N
<1>6. MEntries(db') = N
  BY <1>3, <1>4, <1>5, EntriesMapped
<1>7. MemAnswer' = MemAnswer
  BY DEF MemAnswer
<1>. QED  BY <1>1, <1>6, <1>7, SameView DEF N

LEMMA SameTablesAlike ==
    ASSUME NEW d, Distinct(d), NEW x, x.feeds = d.feeds, x.tombstones = d.tombstones,
           x.categories = d.categories, x.serial = d.serial, x.feedSeq = d.feedSeq,
           x.entries = d.entries
    PROVE  Alike(d, x)
  BY DEF Alike, SameRows, SameRow, SameItem, AllTimed, Distinct

LEMMA FilledRowAlike ==
    ASSUME NEW d, NEW e \in EntryRow, Timed(e)
    PROVE  SameRow(FilledRow(e), e) /\ Timed(FilledRow(e)) /\ EntryView(d, FilledRow(e)) = EntryView(d, e)
<1> DEFINE p == BodyText[e.content]
           q == SummaryText[e.hash]
           a == [e EXCEPT !.ctext = p]
           b == [a EXCEPT !.stext = q]
<1>1. p \in SUBSET Words /\ q \in SUBSET Words
  BY SqliteStoreAssumption DEF EntryRow
<1>2. FilledRow(e) = b
  BY DEF FilledRow
<1> HIDE DEF p, q
<1>3. a \in EntryRow /\ SameRow(a, e) /\ Timed(a) /\ EntryView(d, a) = EntryView(d, e)
  BY <1>1 DEF EntryRow, SameRow, SameItem, Timed, EntryView
<1> HIDE DEF a
<1>4. b \in EntryRow /\ SameRow(b, a) /\ Timed(b) /\ EntryView(d, b) = EntryView(d, a)
  BY <1>1, <1>3 DEF EntryRow, SameRow, SameItem, Timed, EntryView
<1> HIDE DEF b
<1>. QED  BY <1>2, <1>3, <1>4 DEF SameRow, SameItem

\* What every row's update keeps, a back-fill's transaction keeps.
LEMMA FillingWithin ==
    ASSUME NEW rows, IsFiniteSet(rows), NEW V, db \in V,
           \A d \in V : \A i \in rows : UpdateText(d, i, FilledRow(d.entries[i])) \in V
    PROVE  (CHOOSE g : Filling(g, rows))[rows] \in V
<1> DEFINE one(d, i) == UpdateText(d, i, FilledRow(d.entries[i]))
           pick == [s \in SUBSET rows |-> CHOOSE i \in s : TRUE]
           step == [y \in rows \X V |-> one(y[2], y[1])]
<1>4. \A s \in SUBSET rows : s # {} => (CHOOSE i \in s : TRUE) \in s
  OBVIOUS
<1>3. \A d \in V : \A i \in rows : one(d, i) \in V
  OBVIOUS
<1> HIDE DEF one
<1>5. step \in [rows \X V -> V]
  BY <1>3
<1>6. Picks(rows, pick)
  BY <1>4 DEF Picks
<1> HIDE DEF step, pick
<1>7. PICK g \in [SUBSET rows -> V] : FoldOf(g, rows, db, pick, step)
  BY <1>5, <1>6, FoldWithin
<1>8. ASSUME NEW s \in SUBSET rows
      PROVE  g[s] = IF s = {} THEN db
                    ELSE one(g[s \ {CHOOSE y \in s : TRUE}], CHOOSE y \in s : TRUE)
  <2>1. CASE s = {}
    BY <1>7, <2>1 DEF FoldOf
  <2>2. CASE s # {}
    <3> DEFINE i == CHOOSE y \in s : TRUE
    <3>1. pick[s] = i /\ i \in rows /\ g[s \ {i}] \in V
      BY <1>4, <2>2 DEF pick
    <3>. QED  BY <1>7, <2>2, <3>1 DEF step, FoldOf
  <2>. QED  BY <2>1, <2>2
<1>9. Filling(g, rows)
  BY <1>8 DEF Filling, one
<1> DEFINE h == CHOOSE k : Filling(k, rows)
<1>10. Filling(h, rows)
  BY <1>9
<1> HIDE DEF h
<1>11. \A s \in SUBSET rows :
           h[s] = IF s = {} THEN db
                  ELSE one(h[s \ {CHOOSE y \in s : TRUE}], CHOOSE y \in s : TRUE)
  BY <1>10 DEF Filling, one
<1> DEFINE P == {s \in SUBSET rows : h[s] \in V}
<1>12. {} \in P
  BY <1>11
<1>13. ASSUME NEW s \in SUBSET rows, s # {}
       PROVE  \E i \in s : s \ {i} \in P => s \in P
  <2> DEFINE i == CHOOSE y \in s : TRUE
             d == h[s \ {i}]
  <2>1. i \in s /\ h[s] = one(d, i)
    BY <1>4, <1>11, <1>13
  <2> HIDE DEF i
  <2>2. ASSUME s \ {i} \in P PROVE h[s] \in V
    BY <1>3, <2>1, <2>2
  <2>. QED  BY <2>1, <2>2
<1>14. Inductive(rows, P)
  BY <1>12, <1>13 DEF Inductive
<1>15. rows \in P
  <2> HIDE DEF P
  <2>. QED  BY <1>14, SubsetInduction
<1>. QED  BY <1>15 DEF h

LEMMA BackfillAlike ==
    ASSUME IInv, Distinct(db), BackfillBatch
    PROVE  Alike(db, db') /\ answer' = answer
<1> DEFINE rows == {i \in Todo : Cardinality({j \in Todo : j < i}) < Batch}
           V == {d \in Databases : Sound(d) /\ Distinct(d) /\ Alike(db, d)}
<1>1. Sound(db) /\ db \in Databases /\ answer' = answer
  BY DEF IInv, Sound, BackfillBatch, Starting
<1>2. db' = (CHOOSE g : Filling(g, rows))[rows]
  BY DEF BackfillBatch, FoldSet, MapThenFoldSet, Filling, FilledRow
<1>3. rows \in SUBSET DOMAIN db.entries /\ IsFiniteSet(rows)
  <2>1. rows \in SUBSET DOMAIN db.entries
    BY DEF Todo
  <2>2. IsFiniteSet(DOMAIN db.entries)
    <3>1. db.entries \in Tables(EntryRow)
      BY <1>1 DEF Databases
    <3>. QED  BY <3>1, TableFacts
  <2>. QED  BY <2>1, <2>2, FS_Subset
<1> HIDE DEF rows
<1>4. db \in V
  BY <1>1, SameTablesAlike
<1>5. ASSUME NEW d \in V, NEW i \in rows
      PROVE  UpdateText(d, i, FilledRow(d.entries[i])) \in V
  <2> DEFINE e == d.entries[i]
             r == FilledRow(e)
             x == UpdateText(d, i, r)
  <2>1. /\ Sound(d) /\ d \in Databases /\ Distinct(d) /\ Alike(db, d)
        /\ DOMAIN d.entries = DOMAIN db.entries /\ i \in DOMAIN d.entries
    BY <1>3 DEF Alike, SameRows
  <2>2. e \in EntryRow /\ Timed(e)
    <3>1. d.entries \in Tables(EntryRow)
      BY <2>1 DEF Databases
    <3>. QED  BY <2>1, <3>1, TableFacts DEF Distinct, AllTimed
  <2> HIDE DEF e
  <2>3. /\ SameRow(r, e) /\ Timed(r) /\ EntryView(db, r) = EntryView(db, e)
        /\ r \in EntryRow /\ Filled(r) /\ r.feed = e.feed /\ r.mid = e.mid
    BY <2>2, FilledRowAlike, FilledRowFits
  <2> HIDE DEF r
  <2>4. Sound(x)
    BY <2>1, <2>3, UpdateTextFits DEF e
  <2>5. /\ SameRows(d, x) /\ AllTimed(x) /\ x.entries[i] = r
        /\ \A j \in DOMAIN d.entries : j # i => x.entries[j] = d.entries[j]
    <3>1. x = UpdateText(d, i, r)
      OBVIOUS
    <3> HIDE DEF x
    <3>. QED  BY <2>1, <2>3, <3>1, TextUpdated DEF e
  <2> HIDE DEF x
  <2>6. Distinct(x)
    BY <2>1, <2>5, EntriesKeep
  <2>7. \A a, b, c : SameRow(a, b) /\ SameRow(b, c) => SameRow(a, c)
    BY DEF SameRow, SameItem
  <2>8. SameRows(db, x)
    BY <2>1, <2>5, <2>7 DEF SameRows, Alike
  <2>9. \A j \in DOMAIN db.entries : EntryView(db, x.entries[j]) = EntryView(db, db.entries[j])
    <3>1. \A j \in DOMAIN db.entries : EntryView(db, x.entries[j]) = EntryView(db, d.entries[j])
      BY <2>1, <2>3, <2>5 DEF e
    <3>. QED  BY <2>1, <3>1 DEF Alike
  <2>10. Alike(db, x)
    BY <2>5, <2>8, <2>9 DEF Alike
  <2>. QED  BY <2>4, <2>6, <2>10 DEF Sound, x, r, e
<1> HIDE DEF V
<1>6. db' \in V
  BY <1>2, <1>3, <1>4, <1>5, FillingWithin
<1>. QED  BY <1>1, <1>6 DEF V

\* Start-up, phase by phase.
LEMMA StartStepStutters ==
    ASSUME IInv, Distinct(db), StartStep
    PROVE  Distinct(db') /\ Keeps(db, db') /\ Stutters /\ UNCHANGED deleting /\ phase' # "old"
<1>1. Sound(db) /\ db \in Databases
  BY DEF IInv, Sound
<1>2. CASE BackfillBatch
  <2>1. Alike(db, db') /\ answer' = answer
    BY <1>2, BackfillAlike
  <2>2. UNCHANGED deleting /\ phase' # "old"
    BY <1>2 DEF BackfillBatch, Starting
  <2>. QED  BY <1>1, <2>1, <2>2, AlikeStutters
<1>3. CASE GooseUp \/ Rebuild \/ CreateTrigger \/ SetFlag
  <2>1. /\ db'.feeds = db.feeds /\ db'.tombstones = db.tombstones
        /\ db'.categories = db.categories /\ db'.serial = db.serial
        /\ db'.feedSeq = db.feedSeq /\ db'.entries = db.entries
    BY <1>1, <1>3 DEF GooseUp, Rebuild, CreateTrigger, SetFlag, Databases
  <2>2. UNCHANGED <<deleting, answer>> /\ phase' # "old"
    BY <1>3 DEF GooseUp, Rebuild, CreateTrigger, SetFlag, Starting
  <2>3. Alike(db, db')
    BY <2>1, SameTablesAlike
  <2>. QED  BY <1>1, <2>2, <2>3, AlikeStutters
<1>. QED  BY <1>2, <1>3 DEF StartStep

-----------------------------------------------------------------------------
(* The refinement.                                                         *)

\* The calls that are one transaction.
FeedCall ==
    \/ \E u \in Urls, c \in Categories, full \in BOOLEAN : CreateFeed(u, c, full, Now)
    \/ \E f \in FeedIds, u \in Urls : UpdateFeed(f, u, TRUE, Later)
    \/ \E f \in FeedIds, u \in Urls : SetFeedURL(f, u, Now)
    \/ \E f \in FeedIds, on \in BOOLEAN : SetFeedUserTitle(f, on)
    \/ \E f \in FeedIds, c \in Categories : SetFeedCategory(f, c)
    \/ \E f \in FeedIds, on \in BOOLEAN : SetFeedFullContent(f, on, Now)
    \/ \E f \in FeedIds : DeleteFeed(f)
    \/ \E f \in FeedIds, b \in Batches : UpsertEntries(f, b, Later)

EntryCall ==
    \/ \E S \in IdLists, at \in Times : SetStatus(S, "read", at)
    \/ \E S \in IdLists : SetStatus(S, "unread", Now)
    \/ \E S \in IdLists, on \in BOOLEAN : SetStarred(S, on)
    \/ \E sel \in Selections : MarkReadByFilter(sel, Now)
    \/ \E i \in EntryIds : SetEntryContent(i)
    \/ \E i \in EntryIds, n \in 0..MaxAttempts : UpdateExtractState(i, "pending", n, Later)
    \/ \E i \in EntryIds, n \in 1..MaxAttempts : UpdateExtractState(i, "failed", n, NoTime)

CategoryCall ==
    \/ \E t \in Titles : CreateCategory(t)
    \/ \E c \in CatIds, t \in Titles : UpdateCategory(c, t)
    \/ \E c \in CatIds : DeleteCategory(c)

OldRows ==
    \/ \E full \in BOOLEAN : OldFeed(CHOOSE u \in Urls : TRUE, full)
    \/ \E b \in Batches : OldEntries(b)

DeleteStep ==
    \/ \E d \in Deleters, i \in EntryIds : DeleteEntryRead(d, i)
    \/ \E d \in Deleters : DeleteEntryTx(d)

LEMMA NextIs ==
    Next <=> \/ StartStep \/ Crash \/ OldRows \/ FeedCall \/ EntryCall \/ CategoryCall
             \/ DeleteStep
  BY DEF Next, OldRows, FeedCall, EntryCall, CategoryCall, DeleteStep

LEMMA FeedCallRefines == ASSUME IInv, Distinct(db), FeedCall PROVE Refined
<1> TRUE \in BOOLEAN /\ Now \in Times /\ Later \in Times
  BY NowFits
<1>. QED  BY CreateFeedRefines, UpdateFeedRefines, SetFeedURLRefines, SetFeedUserTitleRefines,
     SetFeedCategoryRefines, SetFeedFullContentRefines, DeleteFeedRefines, UpsertEntriesRefines
     DEF FeedCall

LEMMA EntryCallRefines == ASSUME IInv, Distinct(db), EntryCall PROVE Refined
<1>1. /\ Now \in Times /\ Later \in Times /\ "read" \in {"read", "unread"}
      /\ "unread" \in {"read", "unread"} /\ "pending" \in {"pending", "failed"}
      /\ "failed" \in {"pending", "failed"} /\ "failed" # "pending"
      /\ \A n \in 1..MaxAttempts : n \in 0..MaxAttempts
  BY NowFits, SqliteStoreAssumption
<1>2. ASSUME NEW S \in IdLists, NEW at \in Times, SetStatus(S, "read", at) PROVE Refined
  BY <1>1, <1>2, SetStatusRefines
<1>3. ASSUME NEW S \in IdLists, SetStatus(S, "unread", Now) PROVE Refined
  BY <1>1, <1>3, SetStatusRefines
<1>4. ASSUME NEW i, NEW n \in 0..MaxAttempts, UpdateExtractState(i, "pending", n, Later)
      PROVE  Refined
  BY <1>1, <1>4, UpdateExtractRefines
<1>5. ASSUME NEW i, NEW n \in 1..MaxAttempts, UpdateExtractState(i, "failed", n, NoTime)
      PROVE  Refined
  BY <1>1, <1>5, UpdateExtractRefines
<1>. QED  BY <1>1, <1>2, <1>3, <1>4, <1>5, SetStarredRefines, MarkReadByFilterRefines,
             SetEntryContentRefines DEF EntryCall

LEMMA CategoryCallRefines == ASSUME IInv, Distinct(db), CategoryCall PROVE Refined
  BY CreateCategoryRefines, UpdateCategoryRefines, DeleteCategoryRefines DEF CategoryCall

LEMMA CallKeepsDeletes ==
    ASSUME FeedCall \/ EntryCall \/ CategoryCall
    PROVE  UNCHANGED deleting /\ phase' = "open"
<1>1. \A d, call : Call(d, call) => UNCHANGED deleting /\ phase' = "open"
  BY DEF Call, startup
<1>2. CASE FeedCall
  BY <1>1, <1>2 DEF FeedCall, CreateFeed, UpdateFeed, SetFeedURL, SetFeedUserTitle,
     SetFeedCategory, SetFeedFullContent, DeleteFeed, UpsertEntries
<1>3. CASE EntryCall
  BY <1>1, <1>3 DEF EntryCall, SetStatus, SetStarred, MarkReadByFilter, SetEntryContent,
     UpdateExtractState
<1>4. CASE CategoryCall
  BY <1>1, <1>4 DEF CategoryCall, CreateCategory, UpdateCategory, DeleteCategory
<1>. QED  BY <1>2, <1>3, <1>4

LEMMA OldRowsRefine == ASSUME IInv, Distinct(db), OldInv, OldRows PROVE Refined /\ OldInv'
<1>1. (CHOOSE u \in Urls : TRUE) \in Urls
  BY SqliteStoreAssumption
<1>. QED  BY <1>1, OldFeedRefines, OldEntriesRefines DEF OldRows

LEMMA OldRowsKeepDeletes == ASSUME OldRows PROVE UNCHANGED deleting
  BY DEF OldRows, OldFeed, OldEntries

\* The invariant behind the refinement.
RInv == IInv /\ Distinct(db) /\ OldInv

LEMMA RInvStep == ASSUME RInv, IInv', [Next]_vars PROVE RInv'
<1>1. IInv /\ Distinct(db) /\ OldInv
  BY DEF RInv
<1>2. CASE StartStep
  BY <1>1, <1>2, StartStepStutters DEF RInv, OldInv
<1>3. CASE Crash
  BY <1>1, <1>3 DEF RInv, OldInv, Crash
<1>4. CASE OldRows
  BY <1>1, <1>4, OldRowsRefine DEF RInv, Refined
<1>5. CASE FeedCall \/ EntryCall \/ CategoryCall
  <2>1. Distinct(db') /\ phase' = "open"
    BY <1>1, <1>5, FeedCallRefines, EntryCallRefines, CategoryCallRefines, CallKeepsDeletes
       DEF Refined
  <2>. QED  BY <2>1 DEF RInv, OldInv
<1>6. CASE DeleteStep
  <2>1. phase' = "open"
    BY <1>6 DEF DeleteStep, DeleteEntryRead, DeleteEntryTx, startup
  <2>2. CASE \E d \in Deleters, i \in EntryIds : DeleteEntryRead(d, i)
    BY <1>1, <2>1, <2>2 DEF RInv, OldInv, DeleteEntryRead
  <2>3. CASE \E d \in Deleters : DeleteEntryTx(d)
    BY <1>1, <2>1, <2>3, DeleteTxDistinct DEF RInv, OldInv
  <2>. QED  BY <1>6, <2>2, <2>3 DEF DeleteStep
<1>7. CASE UNCHANGED vars
  BY <1>1, <1>7 DEF RInv, OldInv, vars
<1>. QED  BY <1>2, <1>3, <1>4, <1>5, <1>6, <1>7, NextIs

LEMMA InitDistinct == Init => Distinct(db) /\ OldInv
<1> SUFFICES ASSUME Init PROVE Distinct(db) /\ OldInv
  OBVIOUS
<1>1. /\ db.feeds = <<>> /\ db.entries = <<>> /\ db.categories = <<>> /\ db.serial = 1
      /\ db.feedSeq = 1 /\ DOMAIN <<>> = {}
  BY DEF Init
<1>. QED  BY <1>1 DEF Distinct, Named, OneEach, InOrder, AllTimed, OldInv

\* In every state, those of start-up and after any crash included, MemStore's
\* numbers tell the rows of every table apart, a feed has at most one entry for an
\* item, entries' rowids follow the order of their creation although rowids are
\* reused, and every queued extraction has a time.
THEOREM Numbers == Spec => []RInv
<1>1. Init => RInv
  BY InitFits, InitDistinct DEF RInv
<1>2. RInv /\ IInv' /\ [Next]_vars => RInv'
  BY RInvStep
<1>. QED  BY <1>1, <1>2, Invariance, PTL DEF Spec

\* No two DeleteEntry calls overlap, as when there is one caller.  Two calls for one
\* row that both read it before either deletes it are not MemStore's: between the
\* two transactions a poll can give the rowid to another entry, which the second
\* one then deletes.
OneDelete ==
    \A c, d \in Deleters : deleting[c] # NoDelete /\ deleting[d] # NoDelete => c = d

LEMMA DeletesKept ==
    ASSUME IInv, IInv', Deletes, Keeps(db, db'), UNCHANGED deleting
    PROVE  Deletes'
<1> SUFFICES ASSUME NEW c \in Deleters, deleting'[c] # NoDelete PROVE Knows(db', deleting'[c])
  BY DEF Deletes
<1>1. Sound(db) /\ Sound(db') /\ deleting[c] \in DeleteRead /\ Knows(db, deleting[c])
  BY DEF IInv, Bounds, Deletes
<1>. QED  BY <1>1, KeepsKnows

LEMMA StepRefines ==
    ASSUME RInv, IInv', OneDelete, Deletes, [Next]_vars
    PROVE  (Mem!Next \/ Stutters) /\ Deletes'
<1>1. IInv /\ Distinct(db) /\ OldInv /\ Sound(db)
  BY DEF RInv, IInv
<1>2. CASE StartStep
  BY <1>1, <1>2, StartStepStutters, DeletesKept
<1>3. CASE Crash
  <2>1. db' = db /\ answer' = answer /\ deleting' = [d \in Deleters |-> NoDelete]
    BY <1>3 DEF Crash
  <2>2. Alike(db, db')
    BY <1>1, <2>1, SameTablesAlike
  <2>. QED  BY <1>1, <2>1, <2>2, AlikeStutters DEF Deletes
<1>4. CASE OldRows
  BY <1>1, <1>4, OldRowsRefine, OldRowsKeepDeletes, DeletesKept DEF Refined
<1>5. CASE FeedCall \/ EntryCall \/ CategoryCall
  <2>1. Refined /\ UNCHANGED deleting
    BY <1>1, <1>5, FeedCallRefines, EntryCallRefines, CategoryCallRefines, CallKeepsDeletes
  <2>. QED  BY <1>1, <2>1, DeletesKept DEF Refined
<1>6. CASE DeleteStep
  <2>1. CASE \E d \in Deleters, i \in EntryIds : DeleteEntryRead(d, i)
    BY <1>1, <2>1, DeleteReadRefines
  <2>2. CASE \E d \in Deleters : DeleteEntryTx(d)
    <3>1. PICK c \in Deleters : DeleteEntryTx(c)
      BY <2>2
    <3>2. deleting[c] # NoDelete /\ deleting' = [deleting EXCEPT ![c] = NoDelete]
      BY <3>1 DEF DeleteEntryTx
    <3>3. Knows(db, deleting[c])
      BY <3>2 DEF Deletes
    <3>4. Mem!Next
      BY <1>1, <3>1, <3>3, DeleteTxRefines
    <3>5. \A d \in Deleters : deleting'[d] = NoDelete
      <4>1. deleting \in [Deleters -> {NoDelete} \cup DeleteRead]
        BY <1>1 DEF IInv, Bounds
      <4>. QED  BY <3>2, <4>1 DEF OneDelete
    <3>. QED  BY <3>4, <3>5 DEF Deletes
  <2>. QED  BY <1>6, <2>1, <2>2 DEF DeleteStep
<1>7. CASE UNCHANGED vars
  <2>1. db' = db /\ answer' = answer /\ deleting' = deleting
    BY <1>7 DEF vars
  <2>2. Alike(db, db')
    BY <1>1, <2>1, SameTablesAlike
  <2>. QED  BY <1>1, <2>1, <2>2, AlikeStutters DEF Deletes
<1>. QED  BY <1>2, <1>3, <1>4, <1>5, <1>6, <1>7, NextIs

LEMMA InitRefines == Init => Mem!Init /\ Deletes
<1> SUFFICES ASSUME Init PROVE Mem!Init /\ Deletes
  OBVIOUS
<1>1. /\ db.feeds = <<>> /\ db.entries = <<>> /\ db.categories = <<>> /\ db.serial = 1
      /\ db.tombstones = {} /\ answer = <<"open">> /\ DOMAIN <<>> = {}
  BY DEF Init
<1>2. \A r : Renum(<<>>, r) = <<>>
  BY DEF Renum, MidsOf
<1>3. MFeeds(db) = <<>> /\ MEntries(db) = <<>> /\ MCats(db) = <<>> /\ MTombs(db) = {}
  BY <1>1, <1>2 DEF MFeeds, MEntries, MCats, MTombs
<1>4. MemAnswer = <<"open">>
  BY <1>1 DEF MemAnswer
<1>5. Mem!Init
  BY <1>1, <1>3, <1>4, ViewNow DEF Mem!Init
<1>6. Deletes
  BY DEF Init, Deletes
<1>. QED  BY <1>5, <1>6

\* While no two DeleteEntry calls overlap, SQLite's store implements the in-memory
\* one the services' and handlers' tests run against: every call changes what
\* MemStore holds, and answers its caller, as MemStore's does, whatever rowids were
\* reused, and whatever happened between the read and the transaction of a
\* DeleteEntry; migration, back-fill and crashes change nothing of it.
THEOREM Refinement == Spec /\ []OneDelete => Implements
<1>1. Init => Mem!Init /\ Deletes
  BY InitRefines
<1>2. RInv /\ IInv' /\ OneDelete /\ Deletes /\ [Next]_vars => [Mem!Next]_(Mem!vars) /\ Deletes'
  BY StepRefines DEF Stutters
<1>3. RInv => IInv
  BY DEF RInv
<1>. QED  BY <1>1, <1>2, <1>3, Numbers, PTL DEF Spec, Implements, Mem!Spec

-----------------------------------------------------------------------------
(* The lists: both stores sort by the order's column and then by the       *)
(* number, and the rowids of entries are in the order of their numbers.    *)

\* A row's value of the order's column, and the orders of the two stores.
RowKey(i, order) == OrderCol(db.entries[i], order)
RowOrder(S, order) ==
    {p \in S \X S : \/ RowKey(p[1], order) > RowKey(p[2], order)
                    \/ RowKey(p[1], order) = RowKey(p[2], order) /\ p[1] > p[2]}
NoOrder(T, order) ==
    {p \in T \X T : \/ Mem!Key(p[1], order) > Mem!Key(p[2], order)
                    \/ Mem!Key(p[1], order) = Mem!Key(p[2], order) /\ p[1] > p[2]}

\* Rows whose order's column is not NULL.
Keyed(S, order) ==
    /\ S \subseteq DOMAIN db.entries
    /\ order = "read" => \A i \in S : db.entries[i].readAt # NoTime

LEMMA RowKeyFacts ==
    ASSUME IInv, NEW order
    PROVE  /\ IsFiniteSet(DOMAIN db.entries)
           /\ DOMAIN db.entries \subseteq Nat \ {0}
           /\ \A i \in DOMAIN db.entries : RowKey(i, order) \in Int
<1>1. db.entries \in Tables(EntryRow)
  BY DEF IInv, Sound, Databases
<1>2. /\ IsFiniteSet(DOMAIN db.entries) /\ DOMAIN db.entries \subseteq Nat \ {0}
      /\ \A i \in DOMAIN db.entries : db.entries[i] \in EntryRow
  BY <1>1, TableFacts
<1>3. \A i \in DOMAIN db.entries : db.entries[i].readAt \in Int /\ db.entries[i].hash \in Versions
  <2>1. Times \cup {NoTime} \subseteq Int
    BY SqliteStoreAssumption DEF NoTime
  <2>2. \A e \in EntryRow : e.readAt \in Times \cup {NoTime} /\ e.hash \in Versions
    BY DEF EntryRow
  <2>. QED  BY <1>2, <2>1, <2>2
<1>4. \A v \in Versions : Published[v] \in Int
  BY SqliteStoreAssumption
<1>. QED  BY <1>2, <1>3, <1>4 DEF RowKey, OrderCol

LEMMA RowsOrdered ==
    ASSUME IInv, NEW order, NEW S \in SUBSET DOMAIN db.entries
    PROVE  IsFiniteSet(S) /\ TotalOrder(S, RowOrder(S, order))
<1>1. /\ IsFiniteSet(S) /\ \A i \in S : i \in Nat /\ RowKey(i, order) \in Int
  BY RowKeyFacts, FS_Subset
<1>2. \A x, y \in S : <<x, y>> \in RowOrder(S, order) <=>
          \/ RowKey(x, order) > RowKey(y, order)
          \/ RowKey(x, order) = RowKey(y, order) /\ x > y
  BY DEF RowOrder
<1>3. \A x \in S : <<x, x>> \notin RowOrder(S, order)
  BY <1>1, <1>2
<1>4. \A x, y, z \in S : <<x, y>> \in RowOrder(S, order) /\ <<y, z>> \in RowOrder(S, order)
                             => <<x, z>> \in RowOrder(S, order)
  BY <1>1, <1>2
<1>5. \A x, y \in S : x # y => <<x, y>> \in RowOrder(S, order) \/ <<y, x>> \in RowOrder(S, order)
  BY <1>1, <1>2
<1>. QED  BY <1>1, <1>3, <1>4, <1>5 DEF TotalOrder

\* ORDER BY lists the rows it is given, in that order.
LEMMA OrderByRanks ==
    ASSUME IInv, NEW order, NEW S \in SUBSET DOMAIN db.entries
    PROVE  Ranking(OrderBy(S, order), S, RowOrder(S, order))
<1> DEFINE n == Cardinality(S)
           R == RowOrder(S, order)
           before(a, b) == \/ OrderCol(Rows[a], order) > OrderCol(Rows[b], order)
                           \/ OrderCol(Rows[a], order) = OrderCol(Rows[b], order) /\ a > b
           at(k) == CHOOSE i \in S : Cardinality({j \in S : before(j, i)}) = k - 1
<1>1. \A i \in S : {j \in S : before(j, i)} = Preceding(S, R, i)
  BY DEF Preceding, RowOrder, RowKey, Rows
<1>2. \A i \in S : Cardinality({j \in S : before(j, i)}) = Place(S, R, i)
  BY <1>1 DEF Place
<1>3. OrderBy(S, order) = [k \in 1..n |-> at(k)]
  BY DEF OrderBy
<1>4. \A k \in 1..n : \E i \in S : Place(S, R, i) = k - 1
  <2>1. IsFiniteSet(S) /\ TotalOrder(S, R)
    BY RowsOrdered
  <2> HIDE DEF R
  <2>. QED  BY <2>1, Places
<1>5. ASSUME NEW k \in 1..n PROVE at(k) \in S /\ Place(S, R, at(k)) = k - 1
  <2>1. \E i \in S : Cardinality({j \in S : before(j, i)}) = k - 1
    BY <1>2, <1>4
  <2>2. at(k) \in S /\ Cardinality({j \in S : before(j, at(k))}) = k - 1
    <3> HIDE DEF before
    <3>. QED  BY <2>1
  <2>. QED  BY <1>2, <2>2
<1> HIDE DEF at
<1>6. /\ OrderBy(S, order) = [k \in 1..n |-> OrderBy(S, order)[k]]
      /\ \A k \in 1..n : OrderBy(S, order)[k] = at(k)
  BY <1>3
<1>. QED  BY <1>5, <1>6 DEF Ranking

\* The fake's key of a row.
LEMMA KeyShown ==
    ASSUME IInv, Distinct(db), NEW order, NEW i \in DOMAIN db.entries,
           order = "read" => db.entries[i].readAt # NoTime
    PROVE  Mem!Key(db.entries[i].mid, order) = RowKey(i, order)
<1> DEFINE t == db.entries
           N == MEntries(db)
           m == t[i].mid
<1>1. db.serial \in Nat
  BY DEF IInv, Sound, Databases
<1>2. N[m] = EntryView(db, t[i])
  BY <1>1, EntriesShown
<1>3. EntryView(db, t[i]).readAt = t[i].readAt /\ EntryView(db, t[i]).hash = t[i].hash
  BY DEF EntryView
<1> HIDE DEF N, t, m
<1>4. N[m].readAt = t[i].readAt /\ N[m].hash = t[i].hash
  BY <1>2, <1>3
<1>5. Mem!Key(m, order) = IF order = "read" /\ N[m].readAt # NoTime THEN N[m].readAt
                          ELSE Published[N[m].hash]
  BY ViewNow DEF Mem!Key, Mem!NoTime, NoTime, N
<1>. QED  BY <1>4, <1>5 DEF RowKey, OrderCol, t, m

\* Going to the numbers keeps the order.
NoOf(S) == [i \in S |-> db.entries[i].mid]

LEMMA NumbersKeepOrder ==
    ASSUME IInv, Distinct(db), NEW order, NEW S, Keyed(S, order)
    PROVE  Keeping(NoOf(S), S, RowOrder(S, order), MidsOf(db.entries, S),
                   NoOrder(MidsOf(db.entries, S), order))
<1> DEFINE t == db.entries
           h == NoOf(S)
           T == MidsOf(t, S)
<1>1. \A i \in S : i \in DOMAIN t /\ i \in Nat /\ t[i].mid \in Nat
  <2>1. \A i \in DOMAIN t : t[i].mid \in 1..db.serial - 1
    BY DEF Distinct, Named
  <2>. QED  BY <2>1, RowKeyFacts DEF Keyed
<1>2. \A i, j \in S : t[i].mid = t[j].mid => i = j
  BY <1>1 DEF Distinct, Named
<1>3. \A i, j \in S : i > j <=> t[i].mid > t[j].mid
  <2>1. \A i, j \in S : i < j => t[i].mid < t[j].mid
    BY <1>1 DEF Distinct, InOrder
  <2>. QED  BY <1>1, <2>1
<1>4. \A i \in S : Mem!Key(t[i].mid, order) = RowKey(i, order)
  BY <1>1, KeyShown DEF Keyed
<1>5. DOMAIN h = S /\ h \in [S -> T] /\ \A i \in S : h[i] = t[i].mid /\ t[i].mid \in T
  BY DEF NoOf, MidsOf
<1>6. \A m \in T : \E i \in S : h[i] = m
  BY <1>5 DEF MidsOf
<1> HIDE DEF h, T, t
<1>7. h \in Bijection(S, T)
  BY <1>2, <1>5, <1>6 DEF Bijection, Injection, Surjection, IsInjective
<1>8. ASSUME NEW x \in S, NEW y \in S
      PROVE  <<x, y>> \in RowOrder(S, order) <=> <<h[x], h[y]>> \in NoOrder(T, order)
  <2>1. <<x, y>> \in RowOrder(S, order) <=>
            \/ RowKey(x, order) > RowKey(y, order)
            \/ RowKey(x, order) = RowKey(y, order) /\ x > y
    BY DEF RowOrder
  <2>2. <<h[x], h[y]>> \in NoOrder(T, order) <=>
            \/ Mem!Key(h[x], order) > Mem!Key(h[y], order)
            \/ Mem!Key(h[x], order) = Mem!Key(h[y], order) /\ h[x] > h[y]
    BY <1>5 DEF NoOrder
  <2>. QED  BY <1>3, <1>4, <1>5, <2>1, <2>2
<1>. QED  BY <1>7, <1>8 DEF Keeping, h, T, t

LEMMA SortedRanks ==
    ASSUME NEW order, NEW T, NEW Q, Q = NoOrder(T, order),
           \A k \in 1..Cardinality(T) : \E e \in T : Place(T, Q, e) = k - 1
    PROVE  Ranking(Mem!Sorted(T, order), T, Q)
<1> DEFINE n == Cardinality(T)
           before(a, b) == \/ Mem!Key(a, order) > Mem!Key(b, order)
                           \/ Mem!Key(a, order) = Mem!Key(b, order) /\ a > b
           at(k) == CHOOSE e \in T : Mem!Cardinality({x \in T : before(x, e)}) = k - 1
<1>1. \A e \in T : {x \in T : before(x, e)} = Preceding(T, Q, e)
  BY DEF Preceding, NoOrder
<1>2. \A e \in T : Mem!Cardinality({x \in T : before(x, e)}) = Place(T, Q, e)
  BY <1>1, MemCount DEF Place
<1>3. Mem!Sorted(T, order) = [k \in 1..n |-> at(k)]
  <2>1. Mem!Sorted(T, order) = [k \in 1..Mem!Cardinality(T) |-> at(k)]
    BY DEF Mem!Sorted
  <2>2. Mem!Cardinality(T) = n
    BY MemCount
  <2> HIDE DEF at, n
  <2>. QED  BY <2>1, <2>2
<1>5. ASSUME NEW k \in 1..n PROVE at(k) \in T /\ Place(T, Q, at(k)) = k - 1
  <2>1. \E e \in T : Mem!Cardinality({x \in T : before(x, e)}) = k - 1
    BY <1>2
  <2>2. at(k) \in T /\ Mem!Cardinality({x \in T : before(x, at(k))}) = k - 1
    <3> HIDE DEF before
    <3>. QED  BY <2>1
  <2>. QED  BY <1>2, <2>2
<1> HIDE DEF at
<1>6. /\ Mem!Sorted(T, order) = [k \in 1..n |-> Mem!Sorted(T, order)[k]]
      /\ \A k \in 1..n : Mem!Sorted(T, order)[k] = at(k)
  BY <1>3
<1>. QED  BY <1>5, <1>6 DEF Ranking

\* So a list of one store is the list of the other, number for number.
LEMMA ListShown ==
    ASSUME IInv, Distinct(db), NEW order, NEW S, Keyed(S, order)
    PROVE  /\ Cardinality(S) \in Nat
           /\ OrderBy(S, order) \in [1..Cardinality(S) -> S]
           /\ Mem!Sorted(MidsOf(db.entries, S), order)
                  = [k \in 1..Cardinality(S) |-> db.entries[OrderBy(S, order)[k]].mid]
<1> DEFINE s == OrderBy(S, order)
           T == MidsOf(db.entries, S)
           R == RowOrder(S, order)
           Q == NoOrder(T, order)
           u == Mem!Sorted(T, order)
           h == NoOf(S)
<1>1. IsFiniteSet(S) /\ TotalOrder(S, R) /\ Ranking(s, S, R) /\ Cardinality(S) \in Nat
  BY RowsOrdered, OrderByRanks, FS_CardinalityType DEF Keyed
<1>2. Keeping(h, S, R, T, Q)
  BY NumbersKeepOrder
<1>3. \A i \in S : h[i] = db.entries[i].mid
  BY DEF NoOf
<1>4. Ranking(u, T, Q)
  <2>1. \A k \in 1..Cardinality(T) : \E e \in T : Place(T, Q, e) = k - 1
    <3> HIDE DEF R, Q, T, h
    <3>. QED  BY <1>1, <1>2, TotalMoves
  <2>2. Q = NoOrder(T, order)
    OBVIOUS
  <2> HIDE DEF Q, T
  <2>. QED  BY <2>1, <2>2, SortedRanks
<1> HIDE DEF s, T, R, Q, u, h
<1>5. u = [k \in 1..Cardinality(S) |-> h[s[k]]]
  BY <1>1, <1>2, <1>4, RankingMoves
<1>6. s = [k \in 1..Cardinality(S) |-> s[k]] /\ \A k \in 1..Cardinality(S) : s[k] \in S
  BY <1>1 DEF Ranking
<1>7. s \in [1..Cardinality(S) -> S]
  BY <1>6
<1>8. u = [k \in 1..Cardinality(S) |-> db.entries[s[k]].mid]
  BY <1>3, <1>5, <1>6
<1>. QED  BY <1>1, <1>7, <1>8 DEF s, u, T

\* The columns both stores have.
LEMMA ColumnsShown ==
    ASSUME IInv, Distinct(db), NEW i \in DOMAIN db.entries, NEW e, e = db.entries[i],
           NEW m, m = MEntries(db)[e.mid]
    PROVE  /\ m.feed = FeedNo(db, e.feed) /\ m.hash = e.hash /\ m.status = e.status
           /\ m.starred = e.starred /\ m.readAt = e.readAt /\ m.ext = e.ext
           /\ m.next = e.next /\ m.created = e.created /\ m.content = e.content
<1>1. db.serial \in Nat
  BY DEF IInv, Sound, Databases
<1>2. m = EntryView(db, e)
  BY <1>1, EntriesShown
<1>. QED  BY <1>2 DEF EntryView

\* Rows told by a condition on their numbers.
LEMMA RowsShown ==
    ASSUME IInv, Distinct(db), NEW A \in SUBSET DOMAIN db.entries,
           NEW B \in SUBSET DOMAIN MEntries(db),
           \A i \in DOMAIN db.entries : db.entries[i].mid \in B <=> i \in A
    PROVE  /\ B = MidsOf(db.entries, A)
           /\ Cardinality(B) = Cardinality(A) /\ Cardinality(A) \in Nat
<1>1. db.serial \in Nat /\ Named(db.entries, db.serial)
  BY DEF IInv, Sound, Databases, Distinct
<1>2. DOMAIN MEntries(db) = MidsOf(db.entries, DOMAIN db.entries)
  BY <1>1, EntriesShown
<1>3. B = MidsOf(db.entries, A)
  BY <1>2 DEF MidsOf
<1>4. IsFiniteSet(A)
  BY RowKeyFacts, FS_Subset
<1>. QED  BY <1>1, <1>3, <1>4, MidsCount, FS_CardinalityType

\* A list of n elements of D, and its first l.
ListOf(s, n, D) == s \in [1..n -> D]
Page(s, n, l) == IF n > l THEN [k \in 1..l |-> s[k]] ELSE s

LEMMA Cuts ==
    ASSUME NEW n \in Nat, NEW D, NEW s \in [1..n -> D], NEW l \in Nat \ {0}
    PROVE  /\ Len(s) = n
           /\ l <= n => SubSeq(s, 1, l) = [k \in 1..l |-> s[k]]
<1>1. s \in Seq(D) /\ Len(s) = n
  BY SeqDef
<1>2. ASSUME l <= n PROVE SubSeq(s, 1, l) = [k \in 1..l |-> s[k]]
  <2> DEFINE p == SubSeq(s, 1, l)
  <2>1. \A k \in 1..l : s[k] \in D
    BY <1>2
  <2>2. p \in Seq(D) /\ Len(p) = l /\ \A k \in 1..l : p[k] = s[k]
    BY <2>1, SubSeqProperties
  <2> HIDE DEF p
  <2>3. p \in [1..l -> D]
    BY <2>2, LenProperties
  <2>. QED  BY <2>2, <2>3 DEF p
<1>. QED  BY <1>1, <1>2

\* Reading one row more than the limit tells whether there is a next page.
UpTo(s, l) == IF Len(s) > l THEN SubSeq(s, 1, l) ELSE s

OneMore(all, n, l, read, page) ==
    /\ Len(read) > l <=> n > l
    /\ page = Page(all, n, l)
    /\ n > l => page[l] = all[l]

LEMMA ReadOneMore ==
    ASSUME NEW n \in Nat, NEW D, NEW all, ListOf(all, n, D), NEW l \in Nat \ {0},
           NEW read, read = UpTo(all, l + 1), NEW page, page = UpTo(read, l)
    PROVE  OneMore(all, n, l, read, page)
<1> USE DEF OneMore
<1>6. all \in [1..n -> D]
  BY DEF ListOf
<1>1. Len(all) = n
  BY <1>6, Cuts
<1>5. ASSUME n > l, page = [k \in 1..l |-> all[k]]
      PROVE  page = Page(all, n, l) /\ page[l] = all[l]
  <2>1. page = Page(all, n, l)
    BY ONLY <1>5 DEF Page
  <2>2. l \in 1..l
    OBVIOUS
  <2>. QED  BY ONLY <1>5, <2>1, <2>2
<1>2. CASE n > l + 1
  <2>1. read = [k \in 1..l + 1 |-> all[k]]
    BY <1>1, <1>2, <1>6, Cuts DEF UpTo
  <2>2. read \in [1..l + 1 -> D]
    <3>1. \A k \in 1..l + 1 : all[k] \in D
      BY <1>2, <1>6
    <3>. QED  BY <2>1, <3>1
  <2>3. Len(read) = l + 1 /\ SubSeq(read, 1, l) = [k \in 1..l |-> read[k]]
    BY <2>2, Cuts
  <2>4. page = [k \in 1..l |-> all[k]]
    BY <2>1, <2>3 DEF UpTo
  <2>5. Len(read) > l /\ n > l
    BY <1>2, <2>3
  <2>. QED  BY <1>5, <2>4, <2>5
<1>3. CASE n = l + 1
  <2>1. read = all /\ Len(read) = l + 1
    BY <1>1, <1>3 DEF UpTo
  <2>2. page = [k \in 1..l |-> all[k]]
    BY <1>3, <1>6, <2>1, Cuts DEF UpTo
  <2>3. Len(read) > l /\ n > l
    BY <1>3, <2>1
  <2>. QED  BY <1>5, <2>2, <2>3
<1>4. CASE n <= l
  <2>1. read = all /\ Len(read) = n /\ page = all
    BY <1>1, <1>4 DEF UpTo
  <2>. QED  BY <1>4, <2>1 DEF Page
<1>. QED  BY <1>2, <1>3, <1>4

\* The rows a query reads, and the entries the fake's loop keeps.
Wanted(q, sel, c) ==
    {i \in DOMAIN db.entries :
        /\ q.status \in {"any", db.entries[i].status}
        /\ q.starred => db.entries[i].starred
        /\ db.entries[i].feed \in FeedsOf(sel)
        /\ q.order = "read" => db.entries[i].readAt # NoTime
        /\ \/ c = <<>>
           \/ RowKey(i, q.order) < c[1]
           \/ RowKey(i, q.order) = c[1] /\ i < c[2]}
Kept(q, sel, c) ==
    {e \in Mem!Listed(q, sel) : \/ c = <<>>
                                \/ Mem!Key(e, q.order) < c[1]
                                \/ Mem!Key(e, q.order) = c[1] /\ e < c[2]}

LEMMA MidEntryIs == \A i \in DOMAIN db.entries : MidEntry(i) = db.entries[i].mid
  BY DEF MidEntry, Mid

LEMMA CursorShown ==
    ASSUME IInv, Distinct(db), NEW q, NEW c \in Cursors(q), NEW i \in DOMAIN db.entries,
           q.order = "read" => db.entries[i].readAt # NoTime
    PROVE  LET m == db.entries[i].mid
               d == MemCursor(c)
           IN  (\/ d = <<>>
                \/ Mem!Key(m, q.order) < d[1]
                \/ Mem!Key(m, q.order) = d[1] /\ m < d[2])
               <=> (\/ c = <<>>
                    \/ RowKey(i, q.order) < c[1]
                    \/ RowKey(i, q.order) = c[1] /\ i < c[2])
<1> DEFINE t == db.entries
           m == t[i].mid
           d == MemCursor(c)
<1>1. CASE c = <<>>
  BY <1>1 DEF MemCursor
<1>2. CASE c # <<>>
  <2>1. PICK j \in DOMAIN t : c = <<OrderCol(Rows[j], q.order), j>>
    BY <1>2 DEF Cursors, Rows
  <2>2. c[2] = j /\ d = <<c[1], t[j].mid>>
    BY <1>2, <2>1, MidEntryIs DEF MemCursor
  <2>3. d # <<>> /\ d[1] = c[1] /\ d[2] = t[j].mid
    BY <2>2
  <2>4. i \in Nat /\ j \in Nat /\ m \in Nat /\ t[j].mid \in Nat
    <3>1. \A x \in DOMAIN t : t[x].mid \in 1..db.serial - 1
      BY DEF Distinct, Named
    <3>. QED  BY <3>1, RowKeyFacts
  <2>5. i < j <=> m < t[j].mid
    <3>1. \A x, y \in DOMAIN t : x < y => t[x].mid < t[y].mid
      BY DEF Distinct, InOrder
    <3>2. m = t[j].mid => i = j
      BY DEF Distinct, Named
    <3>. QED  BY <2>4, <3>1, <3>2
  <2>6. Mem!Key(m, q.order) = RowKey(i, q.order)
    BY KeyShown
  <2> HIDE DEF d, m, t
  <2>. QED  BY <1>2, <2>2, <2>3, <2>5, <2>6 DEF d, m, t
<1>. QED  BY <1>1, <1>2

LEMMA WantedShown ==
    ASSUME IInv, Distinct(db), phase = "open", NEW q \in Queries, NEW sel \in Selections,
           NEW c \in Cursors(q)
    PROVE  /\ Kept(q, MidSel(sel), MemCursor(c)) = MidsOf(db.entries, Wanted(q, sel, c))
           /\ Keyed(Wanted(q, sel, c), q.order)
<1> DEFINE t == db.entries
           N == MEntries(db)
           A == Wanted(q, sel, c)
           B == Kept(q, MidSel(sel), MemCursor(c))
           s == MidSel(sel)
           d == MemCursor(c)
<1>1. \A i \in DOMAIN t : t[i].feed \in FeedsOf(sel) <=> Mem!Selected(N[t[i].mid], s)
  BY Selects
<1>2. Keyed(A, q.order) /\ A \in SUBSET DOMAIN t
  BY DEF Wanted, Keyed
<1>3. Mem!Listed(q, s) = {e \in DOMAIN N : /\ q.status \in {"any", N[e].status}
                                           /\ q.starred => N[e].starred
                                           /\ Mem!Selected(N[e], s)
                                           /\ q.order = "read" => N[e].readAt # NoTime}
  BY ViewNow DEF Mem!Listed, Mem!NoTime, NoTime
<1>4. B \in SUBSET DOMAIN N
  BY <1>3 DEF Kept
<1>5. ASSUME NEW i \in DOMAIN t PROVE t[i].mid \in B <=> i \in A
  <2> DEFINE m == t[i].mid
  <2>1. m \in DOMAIN N
    <3>1. db.serial \in Nat
      BY DEF IInv, Sound, Databases
    <3>. QED  BY <3>1, EntriesShown
  <2>2. N[m].status = t[i].status /\ N[m].starred = t[i].starred /\ N[m].readAt = t[i].readAt
    BY ColumnsShown
  <2>3. m \in Mem!Listed(q, s) <=> /\ q.status \in {"any", t[i].status}
                                   /\ q.starred => t[i].starred
                                   /\ t[i].feed \in FeedsOf(sel)
                                   /\ q.order = "read" => t[i].readAt # NoTime
    <3> HIDE DEF N, m
    <3>. QED  BY <1>1, <1>3, <2>1, <2>2 DEF m
  <2>4. (q.order = "read" => t[i].readAt # NoTime) =>
            ((\/ d = <<>> \/ Mem!Key(m, q.order) < d[1]
              \/ Mem!Key(m, q.order) = d[1] /\ m < d[2])
             <=> (\/ c = <<>> \/ RowKey(i, q.order) < c[1]
                  \/ RowKey(i, q.order) = c[1] /\ i < c[2]))
    BY CursorShown
  <2> HIDE DEF m, d, s
  <2>5. m \in B <=> /\ m \in Mem!Listed(q, s)
                    /\ \/ d = <<>> \/ Mem!Key(m, q.order) < d[1]
                       \/ Mem!Key(m, q.order) = d[1] /\ m < d[2]
    BY DEF Kept, d, s
  <2>. QED  BY <2>3, <2>4, <2>5 DEF Wanted, m
<1> HIDE DEF A, B, N, t
<1>6. B = MidsOf(t, A)
  BY <1>2, <1>4, <1>5, RowsShown DEF t, N
<1>. QED  BY <1>2, <1>6 DEF t, A, B

LEMMA PageRead ==
    ASSUME IInv, Distinct(db), NEW q \in Queries, NEW sel, NEW c,
           NEW A, A = Wanted(q, sel, c), Keyed(A, q.order),
           NEW s, s = OrderBy(A, q.order), NEW n, n = Cardinality(A)
    PROVE  ListEntries(q, sel, c)
               = [page |-> Page(s, n, q.limit),
                  next |-> IF n > q.limit THEN <<RowKey(s[q.limit], q.order), s[q.limit]>>
                           ELSE <<>>]
<1> DEFINE l == q.limit
           read == UpTo(s, l + 1)
           page == UpTo(read, l)
<1>1. l \in Nat \ {0}
  BY SqliteStoreAssumption
<1>2. n \in Nat /\ s \in [1..n -> A]
  BY ListShown
<1>3. A = {i \in DOMAIN Rows :
              /\ q.status \in {"any", Rows[i].status}
              /\ q.starred => Rows[i].starred
              /\ Rows[i].feed \in FeedsOf(sel)
              /\ q.order = "read" => Rows[i].readAt # NoTime
              /\ \/ c = <<>>
                 \/ OrderCol(Rows[i], q.order) < c[1]
                 \/ OrderCol(Rows[i], q.order) = c[1] /\ i < c[2]}
  BY DEF Wanted, Rows, RowKey
<1>4. ListEntries(q, sel, c)
          = [page |-> page,
             next |-> IF Len(read) > l THEN <<OrderCol(Rows[page[l]], q.order), page[l]>>
                      ELSE <<>>]
  BY <1>3 DEF ListEntries, UpTo
<1>5. /\ Len(read) > l <=> n > l
      /\ page = Page(s, n, l)
      /\ n > l => page[l] = s[l]
  <2>1. read = UpTo(s, l + 1) /\ page = UpTo(read, l)
    OBVIOUS
  <2> HIDE DEF read, page, l
  <2>2. ListOf(s, n, A)
    BY <1>2 DEF ListOf
  <2>3. n \in Nat
    BY <1>2
  <2>4. OneMore(s, n, l, read, page)
    BY ONLY <1>1, <2>1, <2>2, <2>3, ReadOneMore
  <2>. QED  BY ONLY <2>4 DEF OneMore
<1> HIDE DEF read, page, l
<1>6. CASE n > l
  BY <1>4, <1>5, <1>6 DEF RowKey, Rows, l
<1>7. CASE ~(n > l)
  BY <1>4, <1>5, <1>7 DEF l
<1>. QED  BY <1>6, <1>7

LEMMA MemPageRead ==
    ASSUME NEW q \in Queries, NEW sel, NEW c, NEW n \in Nat, NEW D, NEW u \in [1..n -> D],
           u = Mem!Sorted(Kept(q, sel, c), q.order)
    PROVE  Mem!ListEntries(q, sel, c)
               = [page |-> Page(u, n, q.limit),
                  next |-> IF n > q.limit THEN <<Mem!Key(u[q.limit], q.order), u[q.limit]>>
                           ELSE <<>>]
<1> DEFINE l == q.limit
           page == IF Len(u) > l THEN SubSeq(u, 1, l) ELSE u
<1>1. l \in Nat \ {0}
  BY SqliteStoreAssumption
<1>2. Mem!ListEntries(q, sel, c)
          = [page |-> page,
             next |-> IF Len(u) > l THEN <<Mem!Key(page[l], q.order), page[l]>> ELSE <<>>]
  BY DEF Mem!ListEntries, Kept
<1>3. Len(u) = n
  BY <1>1, Cuts
<1>4. CASE n > l
  <2>1. page = [k \in 1..l |-> u[k]]
    BY <1>1, <1>3, <1>4, Cuts
  <2>2. l \in 1..l
    BY <1>1
  <2> HIDE DEF page, l
  <2>3. page[l] = u[l] /\ page = Page(u, n, l)
    BY <1>4, <2>1, <2>2 DEF Page
  <2>. QED  BY <1>2, <1>3, <1>4, <2>3 DEF l
<1>5. CASE ~(n > l)
  <2>1. page = u /\ page = Page(u, n, l)
    BY <1>3, <1>5 DEF Page
  <2> HIDE DEF page, l
  <2>. QED  BY <1>2, <1>3, <1>5, <2>1 DEF l
<1>. QED  BY <1>4, <1>5

\* A page cut from a list, number for number.
NoSeq(s, n) == [k \in 1..n |-> db.entries[s[k]].mid]

SamePage(s, n, l, u, A) ==
    /\ MidSeq(Page(s, n, l)) = Page(u, n, l)
    /\ n > l => u[l] = db.entries[s[l]].mid
    /\ n > l => s[l] \in A

LEMMA PageNumbers ==
    ASSUME NEW n \in Nat, NEW A \in SUBSET DOMAIN db.entries, NEW s, ListOf(s, n, A),
           NEW u, u = NoSeq(s, n), NEW l \in Nat \ {0}
    PROVE  SamePage(s, n, l, u, A)
<1> USE DEF SamePage
<1>1. \A k \in 1..n : s[k] \in A /\ MidEntry(s[k]) = db.entries[s[k]].mid
  BY MidEntryIs DEF ListOf
<1>2. CASE n > l
  <2>1. Page(s, n, l) = [k \in 1..l |-> s[k]] /\ Page(u, n, l) = [k \in 1..l |-> u[k]]
    BY <1>2 DEF Page
  <2>2. \A k \in 1..l : k \in 1..n
    BY <1>2
  <2>3. MidSeq(Page(s, n, l)) = [k \in 1..l |-> MidEntry(s[k])]
    BY <2>1 DEF MidSeq
  <2>4. \A k \in 1..l : u[k] = MidEntry(s[k])
    BY <1>1, <2>2 DEF NoSeq
  <2>5. l \in 1..n
    BY <1>2
  <2>6. u[l] = db.entries[s[l]].mid /\ s[l] \in A
    BY <1>1, <2>5 DEF NoSeq
  <2>7. [k \in 1..l |-> MidEntry(s[k])] = [k \in 1..l |-> u[k]]
    BY <2>4
  <2>. QED  BY <2>1, <2>3, <2>6, <2>7
<1>3. CASE ~(n > l)
  <2>1. Page(s, n, l) = s /\ Page(u, n, l) = u
    BY <1>3 DEF Page
  <2>2. MidSeq(s) = [k \in 1..n |-> MidEntry(s[k])]
    BY DEF MidSeq, ListOf
  <2>. QED  BY <1>1, <1>3, <2>1, <2>2 DEF NoSeq
<1>. QED  BY <1>2, <1>3

LEMMA ListsImplied == ASSUME IInv, Distinct(db), phase = "open" PROVE ListsAgree
<1> SUFFICES ASSUME NEW q \in Queries, NEW sel \in Selections, NEW c \in Cursors(q)
             PROVE  [page |-> MidSeq(ListEntries(q, sel, c).page),
                     next |-> MemCursor(ListEntries(q, sel, c).next)]
                        = Mem!ListEntries(q, MidSel(sel), MemCursor(c))
  BY DEF ListsAgree
<1> DEFINE t == db.entries
           A == Wanted(q, sel, c)
           B == Kept(q, MidSel(sel), MemCursor(c))
           s == OrderBy(A, q.order)
           n == Cardinality(A)
           u == Mem!Sorted(B, q.order)
           l == q.limit
           o == q.order
<1>1. B = MidsOf(t, A) /\ Keyed(A, o)
  BY WantedShown
<1>2. n \in Nat /\ s \in [1..n -> A] /\ Mem!Sorted(MidsOf(t, A), o) = [k \in 1..n |-> t[s[k]].mid]
  <2> HIDE DEF A
  <2>. QED  BY <1>1, ListShown
<1>3. A \in SUBSET DOMAIN t /\ l \in Nat \ {0}
  BY <1>1, SqliteStoreAssumption DEF Keyed
<1>4. ListEntries(q, sel, c)
          = [page |-> Page(s, n, l), next |-> IF n > l THEN <<RowKey(s[l], o), s[l]>> ELSE <<>>]
  BY <1>1, PageRead
<1> HIDE DEF A, n, s, l, B
<1>5. u = [k \in 1..n |-> t[s[k]].mid]
  BY <1>1, <1>2
<1>6. u \in [1..n -> MidsOf(t, A)]
  BY <1>2, <1>5 DEF MidsOf
<1> HIDE DEF u, t
<1>7. Mem!ListEntries(q, MidSel(sel), MemCursor(c))
          = [page |-> Page(u, n, l), next |-> IF n > l THEN <<Mem!Key(u[l], o), u[l]>> ELSE <<>>]
  BY <1>2, <1>6, MemPageRead DEF B, u, l
<1>8. /\ MidSeq(Page(s, n, l)) = Page(u, n, l)
      /\ n > l => u[l] = t[s[l]].mid
      /\ n > l => s[l] \in A
  <2>1. u = NoSeq(s, n)
    BY <1>5 DEF NoSeq, t
  <2>2. ListOf(s, n, A) /\ A \in SUBSET DOMAIN db.entries
    BY <1>2, <1>3 DEF ListOf, t
  <2>3. n \in Nat /\ l \in Nat \ {0}
    BY <1>2, <1>3
  <2>4. SamePage(s, n, l, u, A)
    BY ONLY <2>1, <2>2, <2>3, PageNumbers
  <2>. QED  BY ONLY <2>4 DEF t, SamePage
<1> HIDE DEF o
<1>9. ListEntries(q, sel, c).page = Page(s, n, l)
  BY <1>4
<1>10. CASE n > l
  <2>1. Mem!Key(t[s[l]].mid, o) = RowKey(s[l], o)
    BY <1>1, <1>3, <1>8, <1>10, KeyShown DEF t, Keyed
  <2>2. MidEntry(s[l]) = u[l]
    BY <1>3, <1>8, <1>10, MidEntryIs DEF t
  <2>3. ListEntries(q, sel, c).next = <<RowKey(s[l], o), s[l]>>
    BY <1>4, <1>10
  <2>4. MemCursor(<<RowKey(s[l], o), s[l]>>) = <<RowKey(s[l], o), MidEntry(s[l])>>
    BY DEF MemCursor
  <2>5. MemCursor(ListEntries(q, sel, c).next) = <<Mem!Key(u[l], o), u[l]>>
    BY <1>8, <1>10, <2>1, <2>2, <2>3, <2>4
  <2>. QED  BY <1>7, <1>8, <1>9, <1>10, <2>5
<1>11. CASE ~(n > l)
  <2>1. ListEntries(q, sel, c).next = <<>> /\ MemCursor(<<>>) = <<>>
    BY <1>4, <1>11 DEF MemCursor
  <2>. QED  BY <1>7, <1>8, <1>9, <1>11, <2>1
<1>. QED  BY <1>10, <1>11

\* What the reads of an open store go by: numbers tell its rows and feeds apart.
LEMMA OpenReads ==
    ASSUME IInv, Distinct(db), phase = "open"
    PROVE  /\ db.serial \in Nat /\ Sound(db)
           /\ \A i \in DOMAIN db.entries : /\ db.entries[i].mid \in DOMAIN MEntries(db)
                                           /\ db.entries[i].feed \in DOMAIN db.feeds
                                           /\ db.entries[i] \in EntryRow
           /\ \A i \in DOMAIN db.entries, f \in DOMAIN db.feeds :
                  MEntries(db)[db.entries[i].mid].feed = FeedNo(db, f)
                      <=> db.entries[i].feed = f
<1>1. /\ db.serial \in Nat /\ Sound(db) /\ Refs(db)
      /\ \A i \in DOMAIN db.entries : db.entries[i] \in EntryRow
  BY OpenView, OpenFacts
<1>2. \A i \in DOMAIN db.entries : /\ db.entries[i].mid \in DOMAIN MEntries(db)
                                   /\ db.entries[i].feed \in DOMAIN db.feeds
  BY <1>1, EntriesShown DEF Refs
<1>3. \A i \in DOMAIN db.entries :
          MEntries(db)[db.entries[i].mid].feed = FeedNo(db, db.entries[i].feed)
  BY ColumnsShown
<1>. QED  BY <1>1, <1>2, <1>3, FeedNosApart

LEMMA DueImplied ==
    ASSUME IInv, Distinct(db), phase = "open", NEW now
    PROVE  {MidFeed(f) : f \in ListDueFeeds(now)} = Mem!ListDueFeeds(now)
<1> DEFINE M == MFeeds(db)
           t == db.feeds
<1>1. db.serial \in Nat
  BY OpenReads
<1>2. DOMAIN M = MidsOf(t, DOMAIN t)
      /\ \A f \in DOMAIN t : t[f].mid \in DOMAIN M /\ FeedNo(db, f) = t[f].mid
                             /\ M[t[f].mid] = FeedView(db, t[f])
  BY <1>1, FeedsShown
<1>3. \A f \in DOMAIN t : FeedView(db, t[f]).next = t[f].next
  BY DEF FeedView
<1>4. Mem!ListDueFeeds(now) = {m \in DOMAIN M : M[m].next <= now}
  BY ViewNow DEF Mem!ListDueFeeds
<1>5. {MidFeed(f) : f \in ListDueFeeds(now)} = {FeedNo(db, f) : f \in ListDueFeeds(now)}
  BY MidIsNo
<1>6. ListDueFeeds(now) = {f \in DOMAIN t : t[f].next <= now}
  BY DEF ListDueFeeds
<1> HIDE DEF M, t
<1>7. \A f \in DOMAIN t : M[t[f].mid].next = t[f].next
  BY <1>2, <1>3
<1>8. {FeedNo(db, f) : f \in ListDueFeeds(now)} = {m \in DOMAIN M : M[m].next <= now}
  BY <1>2, <1>6, <1>7 DEF MidsOf
<1>. QED  BY <1>4, <1>5, <1>8

LEMMA PendingImplied ==
    ASSUME IInv, Distinct(db), phase = "open", NEW now \in Times
    PROVE  MidSeq(ListPendingExtractions(now)) = Mem!ListPendingExtractions(now)
<1> DEFINE t == db.entries
           N == MEntries(db)
           A == {i \in DOMAIN t : t[i].ext = "pending" /\ t[i].next # NoTime /\ t[i].next <= now}
           B == {e \in DOMAIN N : N[e].ext = "pending"
                                  /\ ~(N[e].next # NoTime /\ N[e].next > now)}
           o == "pub"
           s == OrderBy(A, o)
           n == Cardinality(A)
<1>1. ListPendingExtractions(now) = s
  BY DEF ListPendingExtractions, Rows
<1>2. Mem!ListPendingExtractions(now) = Mem!Sorted(B, o)
  BY ViewNow DEF Mem!ListPendingExtractions, Mem!NoTime, NoTime
<1>3. Keyed(A, o)
  BY DEF Keyed
<1>4. B = MidsOf(t, A)
  <2>1. \A i \in DOMAIN t : t[i].mid \in DOMAIN N /\ N[t[i].mid].ext = t[i].ext
                            /\ N[t[i].mid].next = t[i].next
    BY OpenReads, ColumnsShown
  <2>2. \A i \in DOMAIN t : t[i].ext = "pending" => t[i].next # NoTime
    BY DEF Distinct, AllTimed, Timed
  <2>3. \A i \in DOMAIN t : t[i].next \in Int /\ now \in Int
    <3>1. Times \cup {NoTime} \subseteq Int
      BY SqliteStoreAssumption DEF NoTime
    <3>2. \A e \in EntryRow : e.next \in Times \cup {NoTime}
      BY DEF EntryRow
    <3>. QED  BY <3>1, <3>2, OpenReads
  <2> HIDE DEF N, t
  <2>4. \A i \in DOMAIN t : t[i].mid \in B <=> i \in A
    BY <2>1, <2>2, <2>3
  <2>5. A \in SUBSET DOMAIN t /\ B \in SUBSET DOMAIN N
    OBVIOUS
  <2> HIDE DEF A, B
  <2>. QED  BY <2>4, <2>5, RowsShown DEF t, N
<1> HIDE DEF A, B, o
<1>5. n \in Nat /\ s \in [1..n -> A] /\ Mem!Sorted(B, o) = [k \in 1..n |-> t[s[k]].mid]
  BY <1>3, <1>4, ListShown
<1> HIDE DEF s, n
<1>6. MidSeq(s) = [k \in 1..n |-> MidEntry(s[k])]
  BY <1>5 DEF MidSeq
<1>7. \A k \in 1..n : MidEntry(s[k]) = t[s[k]].mid
  BY <1>3, <1>5, MidEntryIs DEF Keyed
<1>. QED  BY <1>1, <1>2, <1>5, <1>6, <1>7

LEMMA WeeklyImplied ==
    ASSUME IInv, Distinct(db), phase = "open", NEW now \in Times, NEW f \in DOMAIN db.feeds
    PROVE  WeeklyEntryCount(f, now) = Mem!WeeklyEntryCount(MidFeed(f), now)
<1> DEFINE t == db.entries
           N == MEntries(db)
           x == FeedNo(db, f)
           eff(i) == IF Published[t[i].hash] > 0 THEN Published[t[i].hash] ELSE t[i].created
           mff(e) == IF Published[N[e].hash] <= 0 THEN N[e].created ELSE Published[N[e].hash]
           A == {i \in DOMAIN t : t[i].feed = f /\ eff(i) >= now - Week /\ eff(i) <= now}
           B == {e \in DOMAIN N : N[e].feed = x /\ mff(e) >= now - Week /\ mff(e) <= now}
<1>1. WeeklyEntryCount(f, now) = Cardinality(A)
  BY DEF WeeklyEntryCount, Rows
<1>2. Mem!WeeklyEntryCount(MidFeed(f), now) = Cardinality(B)
  <2>1. Mem!WeeklyEntryCount(x, now) = Mem!Cardinality(B)
    BY ViewNow DEF Mem!WeeklyEntryCount
  <2> HIDE DEF B, x
  <2>. QED  BY <2>1, MidIsNo, MemCount DEF x
<1>3. \A i \in DOMAIN t : /\ t[i].mid \in DOMAIN N /\ N[t[i].mid].hash = t[i].hash
                          /\ N[t[i].mid].created = t[i].created
                          /\ (N[t[i].mid].feed = x <=> t[i].feed = f)
                          /\ Published[t[i].hash] \in Int
  <2>1. \A e \in EntryRow : e.hash \in Versions
    BY DEF EntryRow
  <2>2. \A v \in Versions : Published[v] \in Int
    BY SqliteStoreAssumption
  <2>. QED  BY <2>1, <2>2, OpenReads, ColumnsShown
<1> HIDE DEF N, t, x
<1>4. \A i \in DOMAIN t : mff(t[i].mid) = eff(i)
  BY <1>3
<1> HIDE DEF mff, eff
<1>5. \A i \in DOMAIN t : t[i].mid \in B <=> i \in A
  BY <1>3, <1>4
<1>6. A \in SUBSET DOMAIN t /\ B \in SUBSET DOMAIN N
  OBVIOUS
<1> HIDE DEF A, B
<1>7. Cardinality(B) = Cardinality(A)
  BY <1>5, <1>6, RowsShown DEF t, N
<1>. QED  BY <1>1, <1>2, <1>7

LEMMA SweepsImplied == ASSUME IInv, Distinct(db), phase = "open" PROVE SweepsAgree
  BY DueImplied, PendingImplied, WeeklyImplied DEF SweepsAgree

-----------------------------------------------------------------------------
(* The counts.                                                             *)

UnreadRows == {i \in DOMAIN db.entries : db.entries[i].status = "unread"}

LEMMA UnreadShown ==
    ASSUME IInv, Distinct(db), phase = "open"
    PROVE  /\ Mem!Unread \in SUBSET DOMAIN MEntries(db)
           /\ \A i \in DOMAIN db.entries : db.entries[i].mid \in Mem!Unread <=> i \in UnreadRows
<1> DEFINE t == db.entries
           N == MEntries(db)
<1>1. Mem!Unread = {e \in DOMAIN N : N[e].status = "unread"}
  BY ViewNow DEF Mem!Unread
<1>2. \A i \in DOMAIN t : t[i].mid \in DOMAIN N /\ N[t[i].mid].status = t[i].status
  BY OpenReads, ColumnsShown
<1> HIDE DEF N, t
<1>. QED  BY <1>1, <1>2 DEF UnreadRows, N, t

LEMMA UnreadImplied ==
    ASSUME IInv, Distinct(db), phase = "open"
    PROVE  UnreadCount = Mem!UnreadCount
<1>1. UnreadCount = Cardinality(UnreadRows)
  BY DEF UnreadCount, UnreadRows, Rows
<1>2. Mem!UnreadCount = Cardinality(Mem!Unread)
  BY MemCount DEF Mem!UnreadCount
<1>3. UnreadRows \in SUBSET DOMAIN db.entries
  BY DEF UnreadRows
<1>. QED  BY <1>1, <1>2, <1>3, UnreadShown, RowsShown

\* A feed's rows, and its unread ones.
LEMMA FeedRowsShown ==
    ASSUME IInv, Distinct(db), phase = "open", NEW f \in DOMAIN db.feeds,
           NEW A, A = {i \in DOMAIN db.entries : db.entries[i].feed = f},
           NEW B, B = {e \in DOMAIN MEntries(db) : MEntries(db)[e].feed = FeedNo(db, f)},
           NEW C, C = {i \in A : db.entries[i].status = "unread"},
           NEW D, D = {e \in Mem!Unread : MEntries(db)[e].feed = FeedNo(db, f)}
    PROVE  /\ B = MidsOf(db.entries, A)
           /\ Cardinality(B) = Cardinality(A) /\ Cardinality(D) = Cardinality(C)
<1> DEFINE t == db.entries
           N == MEntries(db)
<1>1. \A i \in DOMAIN t : /\ t[i].mid \in DOMAIN N
                          /\ (N[t[i].mid].feed = FeedNo(db, f) <=> t[i].feed = f)
  BY OpenReads
<1>2. /\ Mem!Unread \in SUBSET DOMAIN N
      /\ \A i \in DOMAIN t : t[i].mid \in Mem!Unread <=> i \in UnreadRows
  BY UnreadShown
<1>3. C = {i \in UnreadRows : t[i].feed = f}
  BY DEF UnreadRows
<1> HIDE DEF N, t
<1>4. /\ A \in SUBSET DOMAIN t /\ B \in SUBSET DOMAIN N
      /\ \A i \in DOMAIN t : t[i].mid \in B <=> i \in A
  BY <1>1 DEF N, t
<1>5. /\ C \in SUBSET DOMAIN t /\ D \in SUBSET DOMAIN N
      /\ \A i \in DOMAIN t : t[i].mid \in D <=> i \in C
  BY <1>1, <1>2, <1>3 DEF N, t
<1>6. B = MidsOf(t, A) /\ Cardinality(B) = Cardinality(A)
  BY ONLY IInv, Distinct(db), <1>4, RowsShown DEF N, t
<1>7. Cardinality(D) = Cardinality(C)
  BY ONLY IInv, Distinct(db), <1>5, RowsShown DEF N, t
<1>. QED  BY <1>6, <1>7 DEF t

LEMMA FeedStatsImplied ==
    ASSUME IInv, Distinct(db), phase = "open", NEW f \in DOMAIN db.feeds
    PROVE  FeedEntryStatsByID(f) = Mem!FeedEntryStatsByID(FeedNo(db, f))
<1> DEFINE N == MEntries(db)
           x == FeedNo(db, f)
           A == {i \in DOMAIN db.entries : db.entries[i].feed = f}
           B == {e \in DOMAIN N : N[e].feed = x}
           C == {i \in A : db.entries[i].status = "unread"}
           D == {e \in Mem!Unread : N[e].feed = x}
<1>1. FeedEntryStatsByID(f) = [total |-> Cardinality(A), unread |-> Cardinality(C)]
  BY DEF FeedEntryStatsByID, Rows
<1>2. Mem!FeedEntryStatsByID(x) = [total |-> Mem!Cardinality(B), unread |-> Mem!Cardinality(D)]
  BY ViewNow DEF Mem!FeedEntryStatsByID
<1>3. Cardinality(B) = Cardinality(A) /\ Cardinality(D) = Cardinality(C)
  BY FeedRowsShown
<1> HIDE DEF A, B, C, D, x
<1>. QED  BY <1>1, <1>2, <1>3, MemCount DEF x

LEMMA DedupImplied ==
    ASSUME IInv, Distinct(db), phase = "open", NEW f \in DOMAIN db.feeds
    PROVE  EntryDedup(f) = Mem!EntryDedup(FeedNo(db, f))
<1> DEFINE t == db.entries
           N == MEntries(db)
           x == FeedNo(db, f)
           A == {i \in DOMAIN t : t[i].feed = f}
           B == {e \in DOMAIN N : N[e].feed = x}
           mine == {<<GuidOf[t[i].hash], t[i].hash>> : i \in A}
           theirs == {<<GuidOf[N[e].hash], N[e].hash>> : e \in B}
           gone == {p[2] : p \in {y \in db.tombstones : y[1] = f}}
           lost == {g \in GuidSet : <<x, g>> \in MTombs(db)}
<1>1. EntryDedup(f) = [existing |-> mine, tombstoned |-> gone]
  BY DEF EntryDedup, Rows
<1>2. Mem!EntryDedup(x) = [existing |-> theirs, tombstoned |-> lost]
  BY ViewNow DEF Mem!EntryDedup, Mem!Guids, GuidSet
<1>3. mine = theirs
  <2>1. B = MidsOf(t, A)
    <3> DEFINE C == {i \in A : t[i].status = "unread"}
               D == {e \in Mem!Unread : N[e].feed = x}
    <3>. QED  BY FeedRowsShown
  <2>2. \A i \in A : N[t[i].mid].hash = t[i].hash
    BY ColumnsShown
  <2> HIDE DEF A, B, N, t
  <2>. QED  BY <2>1, <2>2 DEF MidsOf
<1>4. gone = lost
  <2>1. db.tombstones \subseteq Nat \X GuidSet /\ Sound(db)
    BY OpenReads DEF Sound, Databases
  <2>2. \A g : <<f, g>> \in db.tombstones <=> <<x, g>> \in MTombs(db)
    BY <2>1, TombFound
  <2>3. \A p \in db.tombstones : p = <<p[1], p[2]>> /\ p[2] \in GuidSet
    BY <2>1
  <2> HIDE DEF x
  <2>4. ASSUME NEW g \in gone PROVE g \in lost
    <3>1. PICK p \in db.tombstones : p[1] = f /\ g = p[2]
      OBVIOUS
    <3>2. p = <<f, g>> /\ g \in GuidSet
      BY <2>3, <3>1
    <3>. QED  BY <2>2, <3>2
  <2>5. ASSUME NEW g \in lost PROVE g \in gone
    <3>1. <<f, g>> \in db.tombstones
      BY <2>2
    <3>2. <<f, g>>[1] = f /\ <<f, g>>[2] = g
      OBVIOUS
    <3>. QED  BY <3>1, <3>2
  <2> HIDE DEF gone, lost
  <2>. QED  BY <2>4, <2>5
<1> HIDE DEF mine, theirs, gone, lost, x
<1>. QED  BY <1>1, <1>2, <1>3, <1>4 DEF x

\* The map of the feeds that have entries.
LEMMA StatsImplied ==
    ASSUME IInv, Distinct(db), phase = "open"
    PROVE  LET S == EntryStatsByFeed
           IN  /\ {MidFeed(f) : f \in DOMAIN S} = DOMAIN Mem!EntryStatsByFeed
               /\ \A f \in DOMAIN S : S[f] = Mem!EntryStatsByFeed[MidFeed(f)]
<1> DEFINE t == db.entries
           N == MEntries(db)
           F == {t[i].feed : i \in DOMAIN t}
           G == {N[e].feed : e \in DOMAIN N}
<1>1. DOMAIN EntryStatsByFeed = F /\ \A f \in F : EntryStatsByFeed[f] = FeedEntryStatsByID(f)
  BY DEF EntryStatsByFeed, Rows
<1>2. /\ DOMAIN Mem!EntryStatsByFeed = G
      /\ \A g \in G : Mem!EntryStatsByFeed[g] = Mem!FeedEntryStatsByID(g)
  BY ViewNow DEF Mem!EntryStatsByFeed
<1>3. \A i \in DOMAIN t : /\ t[i].feed \in DOMAIN db.feeds /\ t[i].mid \in DOMAIN N
                          /\ N[t[i].mid].feed = FeedNo(db, t[i].feed)
  BY OpenReads, ColumnsShown
<1>4. DOMAIN N = MidsOf(t, DOMAIN t)
  BY OpenReads, EntriesShown
<1> HIDE DEF t, N
<1>5. {FeedNo(db, f) : f \in F} = G /\ F \subseteq DOMAIN db.feeds
  BY <1>3, <1>4 DEF MidsOf
<1>6. \A f \in F : FeedNo(db, f) \in G /\ FeedEntryStatsByID(f) = Mem!FeedEntryStatsByID(FeedNo(db, f))
  BY <1>5, FeedStatsImplied
<1>7. {MidFeed(f) : f \in F} = {FeedNo(db, f) : f \in F}
  BY MidIsNo
<1> HIDE DEF F, G
<1>8. {MidFeed(f) : f \in DOMAIN EntryStatsByFeed} = DOMAIN Mem!EntryStatsByFeed
  BY <1>1, <1>2, <1>5, <1>7
<1>9. \A f \in F : EntryStatsByFeed[f] = Mem!EntryStatsByFeed[MidFeed(f)]
  BY <1>1, <1>2, <1>6, MidIsNo
<1>. QED  BY <1>1, <1>8, <1>9

LEMMA ByCategoryImplied ==
    ASSUME IInv, Distinct(db), phase = "open"
    PROVE  LET S == UnreadCountsByCategory
           IN  /\ {MidCat(c) : c \in DOMAIN S} = DOMAIN Mem!UnreadCountsByCategory
               /\ \A c \in DOMAIN S : S[c] = Mem!UnreadCountsByCategory[MidCat(c)]
<1> DEFINE t == db.entries
           N == MEntries(db)
           M == MFeeds(db)
           U == {i \in DOMAIN t : t[i].status = "unread" /\ t[i].feed \in DOMAIN db.feeds}
           K == {e \in Mem!Unread : N[e].feed \in DOMAIN M}
           cat(i) == db.feeds[t[i].feed].cat
           mat(e) == M[N[e].feed].cat
           C == {cat(i) : i \in U}
           D == {mat(e) : e \in K}
           of(c) == {i \in U : cat(i) = c}
           mof(c) == {e \in K : mat(e) = c}
<1>1. /\ DOMAIN UnreadCountsByCategory = C
      /\ \A c \in C : UnreadCountsByCategory[c] = Cardinality(of(c))
  BY DEF UnreadCountsByCategory, Rows
<1>2. /\ DOMAIN Mem!UnreadCountsByCategory = D
      /\ \A c \in D : Mem!UnreadCountsByCategory[c] = Mem!Cardinality(mof(c))
  BY ViewNow DEF Mem!UnreadCountsByCategory
<1>3. /\ db.serial \in Nat \ {0} /\ Refs(db) /\ db \in Databases
      /\ \A i \in DOMAIN t : t[i].feed \in DOMAIN db.feeds /\ t[i].mid \in DOMAIN N
  BY OpenReads, OpenView, OpenFacts
<1>4. /\ Mem!Unread \in SUBSET DOMAIN N
      /\ \A i \in DOMAIN t : t[i].mid \in Mem!Unread <=> i \in UnreadRows
  BY UnreadShown
<1>5. U = UnreadRows
  BY <1>3 DEF UnreadRows
<1>6. \A i \in DOMAIN t : /\ N[t[i].mid].feed \in DOMAIN M
                          /\ mat(t[i].mid) = CatNo(db, cat(i))
  <2>1. \A i \in DOMAIN t : N[t[i].mid].feed = FeedNo(db, t[i].feed)
    BY ColumnsShown
  <2>2. \A f \in DOMAIN db.feeds : FeedView(db, db.feeds[f]).cat = CatNo(db, db.feeds[f].cat)
    BY DEF FeedView
  <2>3. \A f \in DOMAIN db.feeds : FeedNo(db, f) \in DOMAIN M
                                   /\ M[FeedNo(db, f)] = FeedView(db, db.feeds[f])
    BY <1>3, FeedsShown
  <2> HIDE DEF M, N, t
  <2>. QED  BY <1>3, <2>1, <2>2, <2>3
<1>7. \A i \in DOMAIN t : \A c : CatNo(db, cat(i)) = CatNo(db, c) <=> cat(i) = c
  <2>1. DOMAIN db.categories \subseteq Nat \ {0}
    <3>1. db.categories \in Tables(CatRow)
      BY <1>3 DEF Databases
    <3>. QED  BY <3>1, TableFacts
  <2>2. \A i \in DOMAIN t : cat(i) \in DOMAIN db.categories \cup {None}
    BY <1>3 DEF Refs
  <2> HIDE DEF cat, t
  <2>. QED  BY <1>3, <2>1, <2>2, CatNosApart
<1>8. DOMAIN N = MidsOf(t, DOMAIN t)
  BY <1>3, EntriesShown
<1> HIDE DEF t, N, M, U, cat, mat
<1>9. /\ U \in SUBSET DOMAIN t /\ K \in SUBSET DOMAIN N
      /\ \A i \in DOMAIN t : t[i].mid \in K <=> i \in U
  BY <1>4, <1>5, <1>6 DEF UnreadRows, t
<1> HIDE DEF K
<1>10. {CatNo(db, c) : c \in C} = D
  <2>1. \A i \in U : t[i].mid \in K /\ mat(t[i].mid) = CatNo(db, cat(i))
    BY <1>6, <1>9
  <2>2. \A e \in K : \E i \in U : e = t[i].mid
    BY <1>8, <1>9 DEF MidsOf
  <2>. QED  BY <2>1, <2>2
<1>11. ASSUME NEW c \in C PROVE Cardinality(mof(CatNo(db, c))) = Cardinality(of(c))
  <2> DEFINE A == of(c)
             B == mof(CatNo(db, c))
  <2>1. /\ A \in SUBSET DOMAIN t /\ B \in SUBSET DOMAIN N
        /\ \A i \in DOMAIN t : t[i].mid \in B <=> i \in A
    BY <1>6, <1>7, <1>9
  <2> HIDE DEF A, B
  <2>2. Cardinality(B) = Cardinality(A)
    BY ONLY IInv, Distinct(db), <2>1, RowsShown DEF N, t
  <2>. QED  BY <2>2 DEF A, B
<1> HIDE DEF C, D, of, mof
<1>12. {MidCat(c) : c \in C} = {CatNo(db, c) : c \in C}
  BY MidIsNo
<1>13. {MidCat(c) : c \in DOMAIN UnreadCountsByCategory} = DOMAIN Mem!UnreadCountsByCategory
  BY <1>1, <1>2, <1>10, <1>12
<1>14. \A c \in C : UnreadCountsByCategory[c] = Mem!UnreadCountsByCategory[MidCat(c)]
  <2> SUFFICES ASSUME NEW c \in C
               PROVE  UnreadCountsByCategory[c] = Mem!UnreadCountsByCategory[MidCat(c)]
    OBVIOUS
  <2>1. CatNo(db, c) \in D /\ MidCat(c) = CatNo(db, c)
    BY <1>10, MidIsNo
  <2>2. Mem!UnreadCountsByCategory[CatNo(db, c)] = Cardinality(mof(CatNo(db, c)))
    BY <1>2, <2>1, MemCount
  <2>. QED  BY <1>1, <1>11, <2>1, <2>2
<1>. QED  BY <1>1, <1>13, <1>14

LEMMA CountsImplied == ASSUME IInv, Distinct(db), phase = "open" PROVE CountsAgree
<1>1. \A f \in DOMAIN db.feeds :
          /\ EntryDedup(f) = Mem!EntryDedup(MidFeed(f))
          /\ FeedEntryStatsByID(f) = Mem!FeedEntryStatsByID(MidFeed(f))
  BY DedupImplied, FeedStatsImplied, MidIsNo
<1>. QED  BY <1>1, UnreadImplied, StatsImplied, ByCategoryImplied DEF CountsAgree

\* Every query of an open store, the pages of a list with their cursors, the due
\* feeds and pending extractions, the weekly, unread and per-feed counts, gives
\* what the fake's loops give on the rows MemStore has, however rowids were reused.
THEOREM Reads == Spec => []ReadsAgree
<1>1. RInv => ReadsAgree
  BY ListsImplied, SweepsImplied, CountsImplied DEF RInv, ReadsAgree
<1>. QED  BY <1>1, Numbers, PTL
=============================================================================
