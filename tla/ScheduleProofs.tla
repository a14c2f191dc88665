--------------------------- MODULE ScheduleProofs ---------------------------
(***************************************************************************)
(* The pacing of polls and scrapes for every configuration, every width of *)
(* durations, every set of headers, hints and counts and any number of     *)
(* errors.                                                                 *)
(*                                                                         *)
(* The types are inductive, and with them what the last write of a row     *)
(* says decides the properties: IInv is the feed's half, EntryInv the      *)
(* entry's.  What rules overflow out is in the lemmas about the operators: *)
(* ShiftFits for PollReschedule's shift, BackoffDoubles, an induction over *)
(* the attempts, for ExtractBackoff's loop.                                *)
(***************************************************************************)
EXTENDS Schedule, FiniteOrders

LEMMA ConfigFits ==
    ASSUME NEW c \in Configs
    PROVE  /\ c \in [min : Int, max : Int, backoff : Int, num : Int, den : Int]
           /\ 0 < c.min /\ c.min < c.max /\ 0 < c.backoff /\ 0 < c.num /\ 0 < c.den
           /\ 2 * c.max < Half /\ 2 * c.backoff < Half
  BY ScheduleAssumption DEF Configs, Valid, Normalised

LEMMA JitterFits ==
    ASSUME NEW d \in Nat, NEW j \in Jitter(d)
    PROVE  j \in Nat /\ 4 * j <= d
  BY DEF Jitter

LEMMA Remainder ==
    ASSUME NEW a \in Int, NEW b \in Nat \ {0}
    PROVE  a % b \in 0..b - 1 /\ a \div b \in Int
  OBVIOUS

LEMMA WrapFits ==
    /\ \A x \in 0..Half - 1 : Wrap(x) = x
    /\ \A x \in Int : Wrap(x) \in Int /\ Wrap(x) < Half
<1>1. Half \in Nat \ {0} /\ 2 * Half \in Nat \ {0}
  BY ScheduleAssumption
<1>2. \A x \in 0..Half - 1 : Wrap(x) = x
  BY <1>1 DEF Wrap
<1>3. ASSUME NEW x \in Int PROVE Wrap(x) \in Int /\ Wrap(x) < Half
  <2>1. (x + Half) % (2 * Half) \in 0..(2 * Half) - 1
    BY <1>1, Remainder
  <2>. QED  BY <1>1, <2>1 DEF Wrap
<1>. QED  BY <1>2, <1>3

\* The shift of the backoff does not overflow, whatever the error count is.
LEMMA ShiftFits ==
    ASSUME NEW c \in Configs, NEW errors \in Nat \ {0}
    PROVE  /\ Backoff(c, errors) = Least(c.min * 2^Least(errors, MaxShift), c.backoff)
           /\ Backoff(c, errors) \in Nat
           /\ Least(c.min, c.backoff) <= Backoff(c, errors)
           /\ Backoff(c, errors) <= c.backoff
<1>. DEFINE n == Least(errors, MaxShift)
            p == 2^n
            x == c.min * p
<1>1. n \in 0..MaxShift
  BY ScheduleAssumption DEF Least
<1>2. p \in Nat \ {0} /\ x < Half
  BY <1>1, PowerOfTwo, ScheduleAssumption
<1>3. c.min \in Nat \ {0} /\ c.backoff \in Nat \ {0}
  BY ConfigFits
<1>. HIDE DEF n, p
<1>4. x \in Nat /\ x >= c.min
  BY <1>2, <1>3
<1>5. Wrap(x) = x
  BY <1>2, <1>4, WrapFits, ScheduleAssumption
<1>6. Backoff(c, errors) = IF x > c.backoff \/ x <= 0 THEN c.backoff ELSE x
  BY <1>5 DEF Backoff, n, p
<1>. HIDE DEF x
<1>7. Backoff(c, errors) = Least(x, c.backoff)
  BY <1>3, <1>4, <1>6 DEF Least
<1>. QED  BY <1>3, <1>4, <1>7 DEF Least, x, p, n

LEMMA AdaptiveFits ==
    ASSUME NEW c \in Configs, NEW count \in Counts, NEW iv \in Adaptive(c, count)
    PROVE  iv \in Nat /\ c.min <= iv /\ iv <= c.max
<1>1. c.min \in Int /\ c.max \in Int /\ 0 < c.min /\ c.min < c.max
  BY ConfigFits
<1>2. PICK q \in (IF count <= 0 THEN {c.max}
                  ELSE ToDuration((Week * c.den) \div (count * c.num))) :
          iv = Least(Greatest(q, c.min), c.max)
  BY DEF Adaptive
<1>3. q \in Int
  <2>1. CASE count <= 0
    BY <1>1, <1>2, <2>1
  <2>2. CASE ~(count <= 0)
    <3>1. count \in Nat \ {0} /\ c.num \in Nat \ {0} /\ c.den \in Nat /\ Week \in Nat
      BY <2>2, ConfigFits, ScheduleAssumption
    <3>2. count * c.num \in Nat \ {0} /\ Week * c.den \in Int
      BY <3>1
    <3>3. (Week * c.den) \div (count * c.num) \in Int
      BY <3>2, Remainder
    <3>. QED  BY <1>2, <2>2, <3>3, ScheduleAssumption DEF ToDuration
  <2>. QED  BY <2>1, <2>2, ScheduleAssumption
<1>. QED  BY <1>1, <1>2, <1>3 DEF Least, Greatest

LEMMA HintFits ==
    /\ \A hint \in TTLHints : FeedTTL(hint) \in Int /\ FeedTTL(hint) < Half
    /\ \A h \in RetryHeaders :
           /\ ParseRetryAfter(h) \in 0..MaxRetryAfter
           /\ h[1] # "none" => ParseRetryAfter(h) >= Least(Greatest(h[2], 0), MaxRetryAfter)
           /\ h[2] \in Int
<1>1. ASSUME NEW hint \in TTLHints PROVE FeedTTL(hint) \in Int /\ FeedTTL(hint) < Half
  <2>1. hint[1] \in Int /\ hint[2] \in 0..Half - 1 /\ Minute \in Nat /\ Half \in Nat \ {0}
    BY ScheduleAssumption
  <2>2. hint[1] * Minute \in Int
    BY <2>1
  <2>. QED  BY <2>1, <2>2, WrapFits DEF FeedTTL
<1>2. ASSUME NEW h \in RetryHeaders
      PROVE  /\ ParseRetryAfter(h) \in 0..MaxRetryAfter
             /\ h[1] # "none"
                    => ParseRetryAfter(h) >= Least(Greatest(h[2], 0), MaxRetryAfter)
             /\ h[2] \in Int
  <2>1. h[2] \in Int /\ Second \in Nat \ {0} /\ MaxRetryAfter \in Nat \ {0}
    BY ScheduleAssumption
  <2>. DEFINE n == h[2]
  <2>2. CASE h[1] = "none" \/ n <= 0
    BY <2>1, <2>2 DEF ParseRetryAfter, Least, Greatest
  <2>3. CASE h[1] # "none" /\ n > 0 /\ h[1] = "date"
    BY <2>1, <2>3 DEF ParseRetryAfter, Least, Greatest
  <2>4. CASE h[1] # "none" /\ n > 0 /\ h[1] # "date" /\ n > MaxRetryAfter \div Second
    BY <2>1, <2>4 DEF ParseRetryAfter, Least, Greatest
  <2>5. CASE h[1] # "none" /\ n > 0 /\ h[1] # "date" /\ ~(n > MaxRetryAfter \div Second)
    <3>1. n * Second \in Nat /\ n * Second >= n
      BY <2>1, <2>5
    <3>2. n * Second <= MaxRetryAfter
      BY <2>1, <2>5
    <3>3. ParseRetryAfter(h) = n * Second
      BY <2>1, <2>5 DEF ParseRetryAfter
    <3>. QED  BY <2>1, <3>1, <3>2, <3>3 DEF Least, Greatest
  <2>. QED  BY <2>1, <2>2, <2>3, <2>4, <2>5
<1>. QED  BY <1>1, <1>2

LEMMA StoredFits ==
    ASSUME NEW ttl \in Int
    PROVE  Stored(ttl) \in Nat /\ (ttl >= 0 => Stored(ttl) <= ttl)
  BY ScheduleAssumption DEF Stored

-----------------------------------------------------------------------------
(* The loop of ExtractBackoff doubles until it reaches the cap.  That there  *)
(* is a function with Doubled's equation is shown by its closed form: the    *)
(* last doubling is the first to reach the cap.                              *)
After(d) == IF d < MaxScrapeBackoff THEN Wrap(2 * d) ELSE d

LEMMA DoublingFits ==
    ASSUME NEW d \in Nat \ {0}
    PROVE  /\ d < MaxScrapeBackoff => After(d) = 2 * d
           /\ ~(d < MaxScrapeBackoff) => After(d) = d
<1>1. MaxScrapeBackoff \in Nat /\ 2 * MaxScrapeBackoff < Half /\ Half \in Nat
  BY ScheduleAssumption
<1>2. d < MaxScrapeBackoff => 2 * d \in 0..Half - 1
  BY <1>1
<1>. QED  BY <1>2, WrapFits DEF After

\* Some doubling reaches the cap, and a first one does.
LEMMA CapReached ==
    \E k \in Nat : /\ BaseBackoff * 2^k >= MaxScrapeBackoff
                   /\ \A i \in Nat : i < k => BaseBackoff * 2^i < MaxScrapeBackoff
<1>. DEFINE S == {n \in Nat : 2^n >= n}
            T == {n \in Nat : BaseBackoff * 2^n >= MaxScrapeBackoff}
<1>1. Nat \subseteq S
  <2>1. 0 \in S
    BY PowerOfTwo
  <2>2. ASSUME NEW n \in Nat, n \in S PROVE n + 1 \in S
    <3>1. 2^n \in Nat \ {0} /\ 2^(n + 1) = 2 * 2^n /\ 2^n >= n
      BY <2>2, PowerOfTwo
    <3>. QED  BY <3>1
  <2>. HIDE DEF S
  <2>. QED  BY <2>1, <2>2, SetInduction
<1>2. MaxScrapeBackoff \in T
  <2>1. MaxScrapeBackoff \in Nat /\ BaseBackoff \in Nat \ {0}
    BY ScheduleAssumption
  <2>. DEFINE p == 2^MaxScrapeBackoff
  <2>2. p \in Nat /\ p >= MaxScrapeBackoff
    BY <1>1, <2>1, PowerOfTwo
  <2>. HIDE DEF p
  <2>3. BaseBackoff * p >= p
    BY <2>1, <2>2
  <2>4. BaseBackoff * p >= MaxScrapeBackoff
    BY <2>1, <2>2, <2>3
  <2>. QED  BY <2>1, <2>4 DEF p
<1>3. PICK k \in T : \A x \in T : k <= x
  <2>. HIDE DEF T
  <2>1. T \subseteq Nat /\ T # {}
    BY <1>2 DEF T
  <2>. QED  BY <2>1, LeastNat
<1>4. ASSUME NEW i \in Nat, i < k PROVE BaseBackoff * 2^i < MaxScrapeBackoff
  <2>1. i \notin T
    BY <1>3, <1>4
  <2>2. 2^i \in Nat /\ BaseBackoff \in Nat /\ MaxScrapeBackoff \in Nat
    BY PowerOfTwo, ScheduleAssumption
  <2>. QED  BY <2>1, <2>2
<1>. QED  BY <1>3, <1>4

LEMMA DoubledUnfolds ==
    /\ Doubled[0] = BaseBackoff
    /\ \A n \in Nat : Doubled[n + 1] = After(Doubled[n])
<1>1. PICK k \in Nat : /\ BaseBackoff * 2^k >= MaxScrapeBackoff
                       /\ \A i \in Nat : i < k => BaseBackoff * 2^i < MaxScrapeBackoff
  BY CapReached
<1>2. BaseBackoff \in Nat \ {0} /\ MaxScrapeBackoff \in Nat
  BY ScheduleAssumption
<1>. DEFINE f == [n \in Nat |-> BaseBackoff * 2^Least(n, k)]
            Eq(g) == [n \in Nat |-> IF n = 0 THEN BaseBackoff
                                    ELSE IF g[n - 1] < MaxScrapeBackoff
                                         THEN Wrap(2 * g[n - 1]) ELSE g[n - 1]]
<1>3. ASSUME NEW n \in Nat
      PROVE  f[n] = IF n = 0 THEN BaseBackoff
                    ELSE IF f[n - 1] < MaxScrapeBackoff THEN Wrap(2 * f[n - 1])
                    ELSE f[n - 1]
  <2>1. CASE n = 0
    <3>1. Least(0, k) = 0
      BY DEF Least
    <3>2. 2^Least(0, k) = 1
      BY <3>1, PowerOfTwo
    <3>3. f[0] = BaseBackoff * 2^Least(0, k)
      OBVIOUS
    <3>. HIDE DEF f
    <3>4. f[0] = BaseBackoff
      BY <1>2, <3>2, <3>3
    <3>. QED  BY <2>1, <3>4
  <2>2. CASE n # 0 /\ n <= k
    <3>1. n - 1 \in Nat /\ n - 1 < k /\ Least(n, k) = n /\ Least(n - 1, k) = n - 1
      BY <2>2 DEF Least
    <3>. DEFINE p == 2^(n - 1)
    <3>2. p \in Nat \ {0} /\ 2^n = 2 * p
      <4>1. (n - 1) + 1 = n
        OBVIOUS
      <4>. QED  BY <3>1, <4>1, PowerOfTwo
    <3>3. f[n - 1] = BaseBackoff * p /\ f[n] = BaseBackoff * (2 * p)
      BY <3>1, <3>2
    <3>4. BaseBackoff * p < MaxScrapeBackoff
      BY <1>1, <3>1
    <3>. HIDE DEF f, p
    <3>5. BaseBackoff * p \in Nat \ {0} /\ BaseBackoff * (2 * p) = 2 * (BaseBackoff * p)
      BY <1>2, <3>2
    <3>. QED  BY <2>2, <3>3, <3>4, <3>5, DoublingFits DEF After
  <2>3. CASE n # 0 /\ ~(n <= k)
    <3>1. n - 1 \in Nat /\ Least(n, k) = k /\ Least(n - 1, k) = k
      BY <2>3 DEF Least
    <3>2. f[n - 1] = BaseBackoff * 2^k /\ f[n] = BaseBackoff * 2^k
      BY <3>1
    <3>3. 2^k \in Nat
      BY PowerOfTwo
    <3>. HIDE DEF f
    <3>. QED  BY <1>1, <1>2, <2>3, <3>2, <3>3
  <2>. QED  BY <2>1, <2>2, <2>3
<1>4. f = Eq(f)
  <2>1. DOMAIN f = Nat /\ f = [n \in Nat |-> f[n]]
    OBVIOUS
  <2>. HIDE DEF f
  <2>. QED  BY <1>3, <2>1
<1>5. Doubled = Eq(Doubled)
  <2>1. Doubled = CHOOSE g : g = Eq(g)
    BY DEF Doubled
  <2>. HIDE DEF f
  <2>. QED  BY <1>4, <2>1
<1>6. Doubled[0] = BaseBackoff
  BY <1>5
<1>7. ASSUME NEW n \in Nat PROVE Doubled[n + 1] = After(Doubled[n])
  <2>1. n + 1 \in Nat /\ n + 1 # 0 /\ (n + 1) - 1 = n
    OBVIOUS
  <2>. QED  BY <1>5, <2>1 DEF After
<1>. QED  BY <1>6, <1>7

\* ExtractBackoff's machine arithmetic is min(BaseBackoff * 2^(n-1), MaxBackoff).
LEMMA BackoffDoubles ==
    ASSUME NEW n \in Nat \ {0}
    PROVE  /\ ExtractBackoff(n) = Least(BaseBackoff * 2^(n - 1), MaxScrapeBackoff)
           /\ ExtractBackoff(n) \in Nat
           /\ Least(BaseBackoff, MaxScrapeBackoff) <= ExtractBackoff(n)
           /\ ExtractBackoff(n) <= MaxScrapeBackoff
<1>. DEFINE Good(i) == /\ Doubled[i] \in Nat \ {0} /\ BaseBackoff <= Doubled[i]
                       /\ Doubled[i] < MaxScrapeBackoff => Doubled[i] = BaseBackoff * 2^i
                       /\ Doubled[i] = MaxScrapeBackoff
                              => BaseBackoff * 2^i >= MaxScrapeBackoff
                       /\ Doubled[i] > MaxScrapeBackoff
                              => BaseBackoff * 2^i >= MaxScrapeBackoff
            S == {i \in Nat : Good(i)}
<1>1. BaseBackoff \in Nat \ {0} /\ MaxScrapeBackoff \in Nat \ {0}
  BY ScheduleAssumption
<1>2. Nat \subseteq S
  <2>1. 0 \in S
    BY <1>1, DoubledUnfolds, PowerOfTwo
  <2>2. ASSUME NEW i \in Nat, i \in S PROVE i + 1 \in S
    <3>. DEFINE d == Doubled[i]
                p == 2^i
                q == 2^(i + 1)
    <3>1. Good(i)
      BY <2>2
    <3>2. p \in Nat \ {0} /\ q = 2 * p
      BY PowerOfTwo
    <3>3. Doubled[i + 1] = After(d)
      BY DoubledUnfolds
    <3>. HIDE DEF d, p, q
    <3>4. d \in Nat \ {0} /\ BaseBackoff <= d
      BY <3>1 DEF d
    <3>5. BaseBackoff * q = 2 * (BaseBackoff * p) /\ BaseBackoff * p \in Nat
      BY <1>1, <3>2
    <3>6. /\ d < MaxScrapeBackoff => d = BaseBackoff * p
          /\ ~(d < MaxScrapeBackoff) => BaseBackoff * p >= MaxScrapeBackoff
      BY <1>1, <3>1, <3>4 DEF d, p
    <3>7. Good(i + 1)
      <4>1. CASE d < MaxScrapeBackoff
        <5>1. Doubled[i + 1] = BaseBackoff * q /\ BaseBackoff * q = 2 * d
          BY <3>3, <3>4, <3>5, <3>6, <4>1, DoublingFits
        <5>. QED  BY <1>1, <3>4, <5>1 DEF q
      <4>2. CASE ~(d < MaxScrapeBackoff)
        <5>1. Doubled[i + 1] = d
          BY <3>3, <3>4, <4>2, DoublingFits
        <5>2. BaseBackoff * q >= MaxScrapeBackoff
          BY <1>1, <3>5, <3>6, <4>2
        <5>. QED  BY <1>1, <3>4, <4>2, <5>1, <5>2 DEF q
      <4>. QED  BY <4>1, <4>2
    <3>. QED  BY <3>7
  <2>. HIDE DEF S
  <2>. QED  BY <2>1, <2>2, SetInduction
<1>. DEFINE d == Doubled[n - 1]
            x == BaseBackoff * 2^(n - 1)
<1>3. n - 1 \in Nat /\ Good(n - 1)
  BY <1>2
<1>4. /\ d \in Nat \ {0} /\ BaseBackoff <= d
      /\ d < MaxScrapeBackoff => d = x
      /\ ~(d < MaxScrapeBackoff) => x >= MaxScrapeBackoff
  BY <1>1, <1>3
<1>5. x \in Nat
  <2>1. 2^(n - 1) \in Nat
    BY <1>3, PowerOfTwo
  <2>. QED  BY <1>1, <2>1
<1>6. ExtractBackoff(n) = IF d > MaxScrapeBackoff \/ d <= 0 THEN MaxScrapeBackoff ELSE d
  BY DEF ExtractBackoff
<1>. HIDE DEF d, x
<1>7. ExtractBackoff(n) = Least(x, MaxScrapeBackoff)
  BY <1>1, <1>4, <1>5, <1>6 DEF Least
<1>8. ExtractBackoff(n) \in Nat /\ Least(BaseBackoff, MaxScrapeBackoff) <= ExtractBackoff(n)
      /\ ExtractBackoff(n) <= MaxScrapeBackoff
  BY <1>1, <1>4, <1>6 DEF Least
<1>. QED  BY <1>7, <1>8 DEF x

-----------------------------------------------------------------------------
\* What the last write of the row promises.
Paced == NeverParked /\ NeverBusy /\ BackoffExact /\ HintsHonoured

IInv == FeedOK /\ Paced

LEMMA InitFits == Init => IInv
<1> SUFFICES ASSUME Init PROVE IInv
  OBVIOUS
<1>1. cfg.min \in Nat /\ 0 < cfg.min /\ cfg.min < cfg.max /\ cfg.max \in Nat
      /\ cfg.backoff \in Nat /\ 2 * cfg.max < Half
  BY ConfigFits DEF Init
<1>2. FeedOK
  BY <1>1, ScheduleAssumption DEF Init, FeedOK
<1>3. Paced
  BY <1>1, ScheduleAssumption
     DEF Init, Paced, NeverParked, NeverBusy, BackoffExact, HintsHonoured, Least
<1>. QED  BY <1>2, <1>3 DEF IInv

FeedRow == [errors : 0..MaxErrors, wait : 0..Half - 1, base : 0..Half - 1,
            asked : Nat, ttl : 0..Half - 1, old : BOOLEAN]

\* A write of the poll's fields keeps the row's type.
LEMMA RowFits ==
    ASSUME NEW row \in FeedRow, NEW errors \in 0..MaxErrors, NEW wait \in 0..Half - 1,
           NEW base \in 0..Half - 1, NEW asked \in Nat, NEW ttl \in 0..Half - 1
    PROVE  [row EXCEPT !.errors = errors, !.wait = wait, !.base = base,
                       !.asked = asked, !.ttl = ttl] \in FeedRow
  BY DEF FeedRow

LEMMA MinCheckKeeps ==
    ASSUME IInv, NEW ttl \in Int, ttl < Half, MinCheck(ttl), cfg' = cfg
    PROVE  IInv'
<1>1. cfg \in Configs /\ feed \in FeedRow
  BY DEF IInv, FeedOK, FeedRow
<1>2. cfg.min \in Nat /\ 0 < cfg.min /\ cfg.min < cfg.max /\ cfg.max \in Nat
      /\ cfg.backoff \in Nat /\ 2 * cfg.max < Half /\ Half \in Nat /\ MaxTTL \in Nat
      /\ MaxErrors \in Nat
  BY <1>1, ConfigFits, ScheduleAssumption
<1>3. PICK j \in Jitter(cfg.min) :
          feed' = [feed EXCEPT !.errors = 0, !.wait = cfg.min + j, !.base = cfg.min,
                               !.asked = 0, !.ttl = Stored(ttl)]
  BY DEF MinCheck
<1>4. j \in Nat /\ 4 * j <= cfg.min
  BY <1>2, JitterFits
<1>5. Stored(ttl) \in 0..Half - 1
  BY <1>2, StoredFits, ScheduleAssumption DEF Stored
<1>6. FeedOK'
  <2>1. cfg.min + j \in 0..Half - 1 /\ cfg.min \in 0..Half - 1 /\ 0 \in 0..MaxErrors
    BY <1>2, <1>4
  <2>2. feed' \in FeedRow
    BY <1>1, <1>3, <1>5, <2>1, RowFits DEF FeedRow
  <2>. QED  BY <1>1, <2>2 DEF FeedOK, FeedRow
<1>7. Paced'
  BY <1>1, <1>2, <1>3, <1>4
     DEF Paced, NeverParked, NeverBusy, BackoffExact, HintsHonoured, Least
<1>. QED  BY <1>6, <1>7 DEF IInv

LEMMA NextCheckKeeps ==
    ASSUME IInv, NEW ttl \in Int, ttl < Half, NextCheck(ttl), cfg' = cfg
    PROVE  IInv'
<1>1. cfg \in Configs /\ feed \in FeedRow
  BY DEF IInv, FeedOK, FeedRow
<1>2. cfg.min \in Nat /\ 0 < cfg.min /\ cfg.min < cfg.max /\ cfg.max \in Nat
      /\ cfg.backoff \in Nat /\ 2 * cfg.max < Half /\ Half \in Nat
      /\ MaxTTL \in Nat \ {0} /\ 2 * MaxTTL < Half /\ MaxErrors \in Nat
  BY <1>1, ConfigFits, ScheduleAssumption
<1>3. CASE MinCheck(ttl)
  BY <1>3, MinCheckKeeps
<1>4. ASSUME NEW count \in Counts, NEW iv \in Adaptive(cfg, count), NEW j \in Jitter(iv),
             feed' = [feed EXCEPT !.errors = 0, !.wait = FlooredByTTL(iv + j, ttl),
                                  !.base = iv, !.asked = Greatest(ttl, 0),
                                  !.ttl = Stored(ttl)]
      PROVE  IInv'
  <2>1. iv \in Nat /\ cfg.min <= iv /\ iv <= cfg.max
    BY <1>1, AdaptiveFits
  <2>2. j \in Nat /\ 4 * j <= iv
    BY <2>1, JitterFits
  <2>3. Stored(ttl) \in 0..Half - 1
    BY <1>2, StoredFits, ScheduleAssumption DEF Stored
  <2>4. /\ FlooredByTTL(iv + j, ttl) \in 0..Half - 1
        /\ FlooredByTTL(iv + j, ttl) >= iv
        /\ FlooredByTTL(iv + j, ttl) >= Least(Greatest(ttl, 0), MaxTTL)
        /\ 4 * FlooredByTTL(iv + j, ttl) <= 5 * cfg.max \/ FlooredByTTL(iv + j, ttl) <= MaxTTL
    BY <1>2, <2>1, <2>2 DEF FlooredByTTL, Least, Greatest
  <2>5. FeedOK'
    <3>1. iv \in 0..Half - 1 /\ 0 \in 0..MaxErrors /\ Greatest(ttl, 0) \in Nat
      BY <1>2, <2>1 DEF Greatest
    <3>2. feed' \in FeedRow
      BY <1>1, <1>4, <2>3, <2>4, <3>1, RowFits DEF FeedRow
    <3>. QED  BY <1>1, <3>2 DEF FeedOK, FeedRow
  <2>6. Paced'
    BY <1>1, <1>2, <1>4, <2>1, <2>4
       DEF Paced, NeverParked, NeverBusy, BackoffExact, HintsHonoured, Least, Greatest
  <2>. QED  BY <2>5, <2>6 DEF IInv
<1>. QED  BY <1>3, <1>4 DEF NextCheck

LEMMA PollFailsKeeps ==
    ASSUME IInv, PollFails
    PROVE  IInv'
<1>1. cfg \in Configs /\ feed \in FeedRow
  BY DEF IInv, FeedOK, FeedRow
<1>2. cfg.min \in Nat /\ 0 < cfg.min /\ cfg.backoff \in Nat /\ 0 < cfg.backoff
      /\ 2 * cfg.backoff < Half /\ Half \in Nat
      /\ MaxRetryAfter \in Nat \ {0} /\ 2 * MaxRetryAfter < Half /\ MaxErrors \in Nat
  BY <1>1, ConfigFits, ScheduleAssumption
<1>. DEFINE d == Backoff(cfg, feed.errors + 1)
<1>3. PICK h \in RetryHeaders : \E j \in Jitter(d) :
          feed' = [feed EXCEPT !.errors = @ + 1, !.base = d,
                       !.wait = WithRetryAfter(cfg, d + j, ParseRetryAfter(h)),
                       !.asked = IF h[1] = "none" THEN 0 ELSE Greatest(h[2], 0)]
  BY DEF PollFails
<1>4. PICK j \in Jitter(d) :
          feed' = [feed EXCEPT !.errors = @ + 1, !.base = d,
                       !.wait = WithRetryAfter(cfg, d + j, ParseRetryAfter(h)),
                       !.asked = IF h[1] = "none" THEN 0 ELSE Greatest(h[2], 0)]
  BY <1>3
<1>5. feed.errors + 1 \in 1..MaxErrors /\ cfg' = cfg
  <2>1. feed.errors \in 0..MaxErrors
    BY <1>1 DEF FeedRow
  <2>. QED  BY <1>2, <2>1 DEF PollFails
<1>6. /\ d = Least(cfg.min * 2^Least(feed.errors + 1, MaxShift), cfg.backoff)
      /\ d \in Nat /\ Least(cfg.min, cfg.backoff) <= d /\ d <= cfg.backoff
  BY <1>1, <1>5, ShiftFits
<1>. HIDE DEF d
<1>7. j \in Nat /\ 4 * j <= d
  BY <1>6, JitterFits
<1>. DEFINE ra == ParseRetryAfter(h)
            w == WithRetryAfter(cfg, d + j, ra)
            asked == IF h[1] = "none" THEN 0 ELSE Greatest(h[2], 0)
<1>8. ra \in 0..MaxRetryAfter /\ asked \in Nat /\ ra >= Least(asked, MaxRetryAfter)
  BY <1>2, HintFits DEF Greatest, Least
<1>9. feed' = [feed EXCEPT !.errors = @ + 1, !.base = d, !.wait = w, !.asked = asked]
  BY <1>4
<1>. HIDE DEF ra, asked
<1>10. /\ w \in 0..Half - 1 /\ w >= Least(cfg.min, cfg.backoff) /\ w > 0
       /\ w >= Least(Least(asked, MaxRetryAfter), cfg.backoff)
       /\ 4 * w <= 5 * cfg.backoff
  <2>1. d \in Nat /\ d > 0 /\ d >= Least(cfg.min, cfg.backoff) /\ d <= cfg.backoff
        /\ Least(cfg.min, cfg.backoff) <= cfg.backoff
    BY <1>2, <1>6 DEF Least
  <2>2. /\ Least(asked, MaxRetryAfter) \in Nat
        /\ Least(Least(asked, MaxRetryAfter), cfg.backoff) <= Least(asked, MaxRetryAfter)
        /\ Least(Least(asked, MaxRetryAfter), cfg.backoff) <= cfg.backoff
        /\ Least(Least(asked, MaxRetryAfter), cfg.backoff) \in Nat
        /\ Least(cfg.min, cfg.backoff) \in Nat
    BY <1>2, <1>8 DEF Least
  <2>3. CASE ra > d + j
    <3>1. w = Least(ra, cfg.backoff)
      BY <2>3 DEF WithRetryAfter
    <3>2. w \in Nat /\ (w = cfg.backoff \/ (w = ra /\ ra <= cfg.backoff))
      BY <1>2, <1>8, <3>1 DEF Least
    <3>. HIDE DEF w
    <3>. QED  BY <1>2, <1>7, <1>8, <2>1, <2>2, <2>3, <3>2
  <2>4. CASE ~(ra > d + j)
    <3>1. w = d + j
      BY <2>4 DEF WithRetryAfter
    <3>. HIDE DEF w
    <3>. QED  BY <1>2, <1>7, <1>8, <2>1, <2>2, <2>4, <3>1
  <2>. QED  BY <2>3, <2>4
<1>. HIDE DEF w
<1>11. FeedOK'
  <2>1. d \in 0..Half - 1 /\ feed.errors + 1 \in 0..MaxErrors
    BY <1>1, <1>2, <1>5, <1>6
  <2>2. feed' = [feed EXCEPT !.errors = feed.errors + 1, !.wait = w, !.base = d,
                             !.asked = asked, !.ttl = feed.ttl]
    BY <1>1, <1>9
  <2>3. feed' \in FeedRow
    BY <1>1, <1>8, <1>10, <2>1, <2>2, RowFits DEF FeedRow
  <2>. QED  BY <1>1, <1>5, <2>3 DEF FeedOK, FeedRow
<1>12. NeverParked' /\ NeverBusy' /\ HintsHonoured'
  BY <1>1, <1>2, <1>5, <1>9, <1>10 DEF NeverParked, NeverBusy, HintsHonoured
<1>13. BackoffExact'
  BY <1>1, <1>5, <1>6, <1>9 DEF BackoffExact
<1>. QED  BY <1>11, <1>12, <1>13 DEF IInv, Paced

LEMMA NextKeeps == IInv /\ [Next]_vars => IInv'
<1> SUFFICES ASSUME IInv, [Next]_vars PROVE IInv'
  OBVIOUS
<1>1. CASE PollSucceeds
  <2>1. PICK hint \in TTLHints : NextCheck(FeedTTL(hint))
    BY <1>1 DEF PollSucceeds
  <2>. QED  BY <1>1, <2>1, NextCheckKeeps, HintFits DEF PollSucceeds
<1>2. CASE PollNotModified
  <2>1. feed.ttl \in Int /\ feed.ttl < Half
    BY ScheduleAssumption DEF IInv, FeedOK
  <2>. QED  BY <1>2, <2>1, NextCheckKeeps DEF PollNotModified
<1>3. CASE PollFails
  BY <1>3, PollFailsKeeps
<1>4. CASE GrowsOld
  BY <1>4 DEF GrowsOld, IInv, FeedOK, Paced, NeverParked, NeverBusy, BackoffExact,
              HintsHonoured
<1>5. CASE UNCHANGED <<cfg, feed>>
  BY <1>5 DEF IInv, FeedOK, Paced, NeverParked, NeverBusy, BackoffExact, HintsHonoured
<1>. QED
  BY <1>1, <1>2, <1>3, <1>4, <1>5 DEF Next, ScrapeFails, ScrapeDeferred, Requeue, vars

\* A feed's waits, error count and ttl stay within their types, and every property
\* of its pacing holds, for every configuration without overflowing intervals.
THEOREM Invariance == Spec => []IInv
<1>. QED  BY InitFits, NextKeeps, PTL DEF Spec

\* No answer of a server, and no number of errors, puts a feed off beyond its cap.
THEOREM Parking == Spec => []NeverParked
<1>1. IInv => NeverParked
  BY DEF IInv, Paced
<1>. QED  BY Invariance, <1>1, PTL

\* No outcome of a poll leaves the feed due at once.
THEOREM Busy == Spec => []NeverBusy
<1>1. IInv => NeverBusy
  BY DEF IInv, Paced
<1>. QED  BY Invariance, <1>1, PTL

\* PollReschedule's machine arithmetic is min(Interval * 2^errors, MaxBackoff).
THEOREM ExactBackoff == Spec => []BackoffExact
<1>1. IInv => BackoffExact
  BY DEF IInv, Paced
<1>. QED  BY Invariance, <1>1, PTL

\* Retry-After and a publisher's interval are honoured up to their caps.
THEOREM Hints == Spec => []HintsHonoured
<1>1. IInv => HintsHonoured
  BY DEF IInv, Paced
<1>. QED  BY Invariance, <1>1, PTL
-----------------------------------------------------------------------------
(* The same of an entry's scrapes.  A pending row has an attempt left, which *)
(* its type does not say and the step that counts the last attempt needs.    *)
EntryRow == [attempts : 0..MaxAttempts, wait : 0..Half - 1, base : 0..Half - 1,
             asked : Nat, by : {"queue", "fail", "defer"}, pending : BOOLEAN]

EntryInv ==
    /\ entry \in EntryRow
    /\ entry.pending => entry.attempts < MaxAttempts
    /\ ScrapesPaced

LEMMA ScrapeFailsKeeps ==
    ASSUME EntryInv, ScrapeFails
    PROVE  EntryInv'
<1>. DEFINE n == entry.attempts + 1
            d == ExtractBackoff(n)
            failed == [entry EXCEPT !.attempts = n, !.asked = 0, !.by = "fail"]
<1>1. /\ MaxAttempts \in Nat \ {0} /\ MaxScrapeBackoff \in Nat \ {0} /\ Half \in Nat \ {0}
      /\ BaseBackoff \in Nat \ {0} /\ MaxRetryAfter \in Nat /\ 2 * MaxScrapeBackoff < Half
  BY ScheduleAssumption
<1>2. entry \in EntryRow /\ n \in 1..MaxAttempts
  <2>1. entry \in EntryRow /\ entry.attempts < MaxAttempts
    BY DEF EntryInv, ScrapeFails
  <2>2. entry.attempts \in 0..MaxAttempts
    BY <2>1 DEF EntryRow
  <2>. QED  BY <1>1, <2>1, <2>2
<1>3. /\ d = Least(BaseBackoff * 2^(n - 1), MaxScrapeBackoff) /\ d \in Nat
      /\ Least(BaseBackoff, MaxScrapeBackoff) <= d /\ d <= MaxScrapeBackoff
  BY <1>2, BackoffDoubles
<1>. HIDE DEF d, n
<1>4. CASE n >= MaxAttempts
  <2>1. entry' = [failed EXCEPT !.wait = 0, !.base = 0, !.pending = FALSE]
    BY <1>4 DEF ScrapeFails, n, d
  <2>2. entry' \in EntryRow /\ ~entry'.pending /\ entry'.wait = 0 /\ entry'.asked = 0
    <3>1. 0 \in 0..Half - 1 /\ n \in 0..MaxAttempts
      BY <1>1, <1>2
    <3>. QED  BY <1>2, <2>1, <3>1 DEF EntryRow
  <2>. QED  BY <1>1, <2>2 DEF EntryInv, ScrapesPaced, Least
<1>5. CASE ~(n >= MaxAttempts)
  <2>1. PICK j \in Jitter(d) : entry' = [failed EXCEPT !.wait = d + j, !.base = d]
    BY <1>5 DEF ScrapeFails, n, d
  <2>2. j \in Nat /\ 4 * j <= d
    BY <1>3, JitterFits
  <2>3. d + j \in 0..Half - 1 /\ d \in 0..Half - 1
    BY <1>1, <1>3, <2>2
  <2>4. /\ entry' \in EntryRow /\ entry'.wait = d + j /\ entry'.asked = 0 /\ entry'.base = d
        /\ entry'.attempts = n
    <3>1. n \in 0..MaxAttempts
      BY <1>1, <1>2
    <3>. QED  BY <1>2, <2>1, <2>3, <3>1 DEF EntryRow
  <2>5. n < MaxAttempts
    BY <1>1, <1>2, <1>5
  <2>6. /\ d + j >= Least(BaseBackoff, MaxScrapeBackoff)
        /\ 4 * (d + j) <= 5 * MaxScrapeBackoff
        /\ d + j >= Least(Least(0, MaxRetryAfter), MaxScrapeBackoff)
    BY <1>1, <1>3, <2>2 DEF Least
  <2>. QED  BY <1>3, <2>4, <2>5, <2>6 DEF EntryInv, ScrapesPaced
<1>. QED  BY <1>4, <1>5

LEMMA ScrapeDeferredKeeps ==
    ASSUME EntryInv, ScrapeDeferred
    PROVE  EntryInv'
<1>1. /\ MaxScrapeBackoff \in Nat \ {0} /\ Half \in Nat \ {0} /\ BaseBackoff \in Nat \ {0}
      /\ MaxRetryAfter \in Nat /\ 2 * MaxScrapeBackoff < Half
  BY ScheduleAssumption
<1>2. PICK h \in RetryHeaders :
          LET d == Least(Greatest(BaseBackoff, ParseRetryAfter(h)), MaxScrapeBackoff)
          IN  entry' = [entry EXCEPT !.wait = d, !.base = d, !.by = "defer",
                            !.asked = IF h[1] = "none" THEN 0 ELSE Greatest(h[2], 0)]
  BY DEF ScrapeDeferred
<1>. DEFINE ra == ParseRetryAfter(h)
            d == Least(Greatest(BaseBackoff, ra), MaxScrapeBackoff)
            asked == IF h[1] = "none" THEN 0 ELSE Greatest(h[2], 0)
<1>3. entry' = [entry EXCEPT !.wait = d, !.base = d, !.by = "defer", !.asked = asked]
  BY <1>2
<1>4. ra \in 0..MaxRetryAfter /\ asked \in Nat /\ ra >= Least(asked, MaxRetryAfter)
  BY <1>1, HintFits DEF Greatest, Least
<1>. HIDE DEF ra, asked
<1>5. /\ d \in Nat /\ d <= MaxScrapeBackoff /\ d >= Least(BaseBackoff, MaxScrapeBackoff)
      /\ d >= Least(ra, MaxScrapeBackoff)
  BY <1>1, <1>4 DEF Least, Greatest
<1>6. d >= Least(Least(asked, MaxRetryAfter), MaxScrapeBackoff)
  <2>1. Least(asked, MaxRetryAfter) \in Nat
    BY <1>1, <1>4 DEF Least
  <2>. QED  BY <1>1, <1>4, <1>5, <2>1 DEF Least
<1>. HIDE DEF d
<1>7. d \in 0..Half - 1 /\ 4 * d <= 5 * MaxScrapeBackoff
  BY <1>1, <1>5
<1>8. /\ entry' \in EntryRow /\ entry'.wait = d /\ entry'.asked = asked
      /\ entry'.by = "defer" /\ entry'.attempts = entry.attempts
      /\ entry'.pending = entry.pending
  BY <1>3, <1>4, <1>7 DEF EntryInv, EntryRow
<1>. QED  BY <1>5, <1>6, <1>7, <1>8 DEF EntryInv, ScrapesPaced

LEMMA QueuedFits == entry' = Queued => EntryInv'
<1>1. /\ MaxAttempts \in Nat \ {0} /\ Half \in Nat \ {0} /\ MaxScrapeBackoff \in Nat
      /\ MaxRetryAfter \in Nat
  BY ScheduleAssumption
<1>2. Queued \in EntryRow
  BY <1>1 DEF Queued, EntryRow
<1>. QED  BY <1>1, <1>2 DEF Queued, EntryInv, ScrapesPaced, Least

\* An entry's waits and attempts stay within their types, a pending one has an
\* attempt left and every scrape is paced, for every backoff that does not overflow.
THEOREM EntryInvariance == Spec => []EntryInv
<1>1. Init => EntryInv
  <2>1. /\ MaxAttempts \in Nat \ {0} /\ Half \in Nat \ {0} /\ MaxScrapeBackoff \in Nat
        /\ MaxRetryAfter \in Nat
    BY ScheduleAssumption
  <2>2. Queued \in EntryRow
    BY <2>1 DEF Queued, EntryRow
  <2>. QED  BY <2>1, <2>2 DEF Init, Queued, EntryInv, ScrapesPaced, Least
<1>2. EntryInv /\ [Next]_vars => EntryInv'
  <2> SUFFICES ASSUME EntryInv, [Next]_vars PROVE EntryInv'
    OBVIOUS
  <2>1. CASE ScrapeFails
    BY <2>1, ScrapeFailsKeeps
  <2>2. CASE ScrapeDeferred
    BY <2>2, ScrapeDeferredKeeps
  <2>3. CASE Requeue
    BY <2>3, QueuedFits DEF Requeue
  <2>4. CASE UNCHANGED entry
    BY <2>4 DEF EntryInv, ScrapesPaced
  <2>. QED
    BY <2>1, <2>2, <2>3, <2>4 DEF Next, GrowsOld, PollSucceeds, PollNotModified, PollFails, vars
<1>. QED  BY <1>1, <1>2, PTL DEF Spec

\* Every wait, count and ttl the schedule writes fits its column.
THEOREM TypeCorrect == Spec => []TypeOK
<1>1. IInv /\ EntryInv => TypeOK
  BY DEF IInv, EntryInv, EntryRow, TypeOK
<1>. QED  BY Invariance, EntryInvariance, <1>1, PTL

\* fail doubles the wait up to the cap, retryLater waits as long as it is asked to,
\* and neither leaves the article due at once or puts it off beyond the cap.
THEOREM Scraping == Spec => []ScrapesPaced
<1>1. EntryInv => ScrapesPaced
  BY DEF EntryInv
<1>. QED  BY EntryInvariance, <1>1, PTL
=============================================================================
