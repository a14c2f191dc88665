------------------------------ MODULE Schedule ------------------------------
(***************************************************************************)
(* When a feed is polled again and when an article is scraped again: the   *)
(* arithmetic of AdaptiveInterval, PollReschedule, ExtractBackoff and      *)
(* retryLater, and of the hints a server gives (Retry-After, RSS ttl and   *)
(* the syndication module), run through any sequence of outcomes of one    *)
(* feed's polls and one entry's scrapes.                                   *)
(*                                                                         *)
(* Durations are signed machine integers: Wrap brings a product back into  *)
(* -Half .. Half-1.  wait is how far ahead of the poll the next one was    *)
(* put; what happens meanwhile (a due row is polled, an edit of the url    *)
(* makes a row due) is FeedPolling's.  The configuration is any the        *)
(* program starts with.                                                    *)
(***************************************************************************)
EXTENDS Integers

CONSTANTS
    Half,           \* 2^63, scaled: the first positive value that is none
    MaxShift,       \* the largest shift of PollReschedule, 16
    Second, Minute, \* time.Second and time.Minute
    Week,           \* core.Week
    MaxTTL,         \* maxTTLInfluence
    MaxRetryAfter,  \* fetch's maxRetryAfter
    BaseBackoff, MaxScrapeBackoff, MaxAttempts,    \* ScrapeConfig
    Environments,   \* what the operator sets: [min, max, backoff, num, den]
    Counts,         \* weekly entry counts
    RetryHeaders,   \* Retry-After: <<"none", 0>>, <<"secs", n>> or <<"date", d>>
    TTLHints,       \* <<m, sy>>: RSS ttl in minutes and the syndication interval
    MaxErrors       \* bound: consecutive failed polls

\* config.Load's checks; the factor is num / den.
Valid(c) == 0 < c.min /\ c.min < c.max /\ c.num > 0 /\ c.den > 0

\* NewFeedService: a backoff of zero or less is the longest interval.
Normalised(c) == IF c.backoff <= 0 THEN [c EXCEPT !.backoff = c.max] ELSE c

Configs == {Normalised(c) : c \in {e \in Environments : Valid(e)}}

\* No interval the program is given comes near the end of the range, jitter
\* included, and none overflows when shifted by the largest shift: with the real
\* constants, MinInterval is below 39 hours.
ASSUME ScheduleAssumption ==
    /\ Half \in Nat /\ Second \in Nat \ {0} /\ Minute \in Nat \ {0} /\ Week \in Nat
    /\ MaxShift \in Nat \ {0}
    /\ MaxTTL \in Nat \ {0} /\ 2 * MaxTTL < Half
    /\ MaxRetryAfter \in Nat \ {0} /\ 2 * MaxRetryAfter < Half
    /\ BaseBackoff \in Nat \ {0} /\ MaxScrapeBackoff \in Nat \ {0}
    /\ 2 * BaseBackoff < Half /\ 2 * MaxScrapeBackoff < Half
    /\ MaxAttempts \in Nat \ {0} /\ MaxErrors \in Nat
    /\ Counts \subseteq Nat
    /\ RetryHeaders \subseteq {"none", "secs", "date"} \X Int
    /\ TTLHints \subseteq Int \X (0..Half - 1)
    /\ Environments \subseteq [min : Int, max : Int, backoff : Int, num : Int, den : Int]
    /\ \A c \in Configs :
           /\ 2 * c.max < Half /\ 2 * c.backoff < Half
           /\ \A n \in 0..MaxShift : c.min * 2^n < Half

VARIABLES
    cfg,    \* the configuration of this process
    feed,   \* error_count, the wait, ttl_seconds, whether it is a week old
    entry   \* extract_attempts, the wait, whether extraction is still pending

vars == <<cfg, feed, entry>>

-----------------------------------------------------------------------------
Wrap(x) ==
    IF -Half <= x /\ x < Half THEN x ELSE ((x + Half) % (2 * Half)) - Half

Least(a, b) == IF a < b THEN a ELSE b
Greatest(a, b) == IF a > b THEN a ELSE b

\* serve's jitter: up to, and not including, a quarter.
Jitter(d) == IF d \div 4 <= 0 THEN {0} ELSE 0..((d \div 4) - 1)

\* The conversion of a float out of range is up to the machine: the least integer
\* on one, the greatest on another.
ToDuration(q) == IF q < Half THEN {q} ELSE {-Half, Half - 1}

\* AdaptiveInterval before jitter and TTL: a week over the count, between bounds.
Adaptive_Unbounded(c, count) ==
    IF count <= 0 THEN {c.max}
    ELSE {Greatest(iv, c.min) : iv \in ToDuration((Week * c.den) \div (count * c.num))}

Adaptive_NoFloor(c, count) ==
    {Least(iv, c.max) :
        iv \in IF count <= 0 THEN {c.max}
               ELSE ToDuration((Week * c.den) \div (count * c.num))}

Adaptive(c, count) ==
    {Least(Greatest(iv, c.min), c.max) :
        iv \in IF count <= 0 THEN {c.max}
               ELSE ToDuration((Week * c.den) \div (count * c.num))}

\* The publisher's interval is a floor, itself capped.
FlooredByTTL(iv, ttl) == IF ttl > 0 THEN Greatest(iv, Least(ttl, MaxTTL)) ELSE iv

\* parse.feedTTL: the larger hint; minutes are multiplied without a check.
FeedTTL(hint) ==
    LET ttl == IF hint[1] > 0 THEN Wrap(hint[1] * Minute) ELSE 0
    IN  IF hint[2] > ttl THEN hint[2] ELSE ttl

\* nullDurSec and durSec: whole seconds, NULL for nothing.
Stored(ttl) == IF ttl <= 0 THEN 0 ELSE (ttl \div Second) * Second

\* fetch.parseRetryAfter: seconds are capped before they are multiplied.
ParseRetryAfter_Uncapped(h) ==
    IF h[1] = "none" \/ h[2] <= 0 THEN 0
    ELSE IF h[1] = "secs" THEN Wrap(h[2] * Second) ELSE Least(h[2], MaxRetryAfter)

ParseRetryAfter(h) ==
    IF h[1] = "none" \/ h[2] <= 0 THEN 0
    ELSE IF h[1] = "date" THEN Least(h[2], MaxRetryAfter)
    ELSE IF h[2] > MaxRetryAfter \div Second THEN MaxRetryAfter
    ELSE h[2] * Second

\* PollReschedule's exponential part, for an error count of 1 or more.
Backoff_OffByOne(c, errors) ==
    LET d == Wrap(c.min * 2^(Least(errors, MaxShift) - 1))
    IN  IF d > c.backoff \/ d <= 0 THEN c.backoff ELSE d

Backoff(c, errors) ==
    LET d == Wrap(c.min * 2^Least(errors, MaxShift))
    IN  IF d > c.backoff \/ d <= 0 THEN c.backoff ELSE d

\* A longer Retry-After wins, up to the same cap.
WithRetryAfter_Uncapped(c, delay, ra) == Greatest(ra, delay)

WithRetryAfter(c, delay, ra) == IF ra > delay THEN Least(ra, c.backoff) ELSE delay

\* ExtractBackoff's loop, run attempt - 1 times, and its clamp.
Doubled[n \in Nat] ==
    IF n = 0 THEN BaseBackoff
    ELSE IF Doubled[n - 1] < MaxScrapeBackoff THEN Wrap(2 * Doubled[n - 1])
    ELSE Doubled[n - 1]

ExtractBackoff_OneMore(attempt) ==
    LET d == Doubled[attempt]
    IN  IF d > MaxScrapeBackoff \/ d <= 0 THEN MaxScrapeBackoff ELSE d

ExtractBackoff(attempt) ==
    LET d == Doubled[attempt - 1]
    IN  IF d > MaxScrapeBackoff \/ d <= 0 THEN MaxScrapeBackoff ELSE d

-----------------------------------------------------------------------------
(* base is the wait before jitter, asked the least wait the server asked   *)
(* for and by the write that set an entry's wait: kept for the properties. *)

\* markFeedEntriesPending, and an insert: due at once, with a full budget.
Queued == [attempts |-> 0, wait |-> 0, base |-> 0, asked |-> 0, by |-> "queue",
           pending |-> TRUE]

Init ==
    /\ cfg \in Configs
    /\ feed = [errors |-> 0, wait |-> cfg.min, base |-> cfg.min, asked |-> 0,
               ttl |-> 0, old |-> FALSE]
    /\ entry = Queued

GrowsOld ==
    /\ ~feed.old
    /\ feed' = [feed EXCEPT !.old = TRUE]
    /\ UNCHANGED <<cfg, entry>>

\* minCheck: a young feed, or one whose entries could not be counted.
MinCheck(ttl) ==
    \E j \in Jitter(cfg.min) :
        feed' = [feed EXCEPT !.errors = 0, !.wait = cfg.min + j, !.base = cfg.min,
                             !.asked = 0, !.ttl = Stored(ttl)]

\* nextCheck, with the ttl of the feed just parsed or, after a 304, of the row.
NextCheck(ttl) ==
    \/ MinCheck(ttl)
    \/ /\ feed.old
       /\ \E count \in Counts : \E iv \in Adaptive(cfg, count) : \E j \in Jitter(iv) :
              feed' = [feed EXCEPT !.errors = 0, !.wait = FlooredByTTL(iv + j, ttl),
                                   !.base = iv, !.asked = Greatest(ttl, 0),
                                   !.ttl = Stored(ttl)]

PollSucceeds ==
    /\ \E hint \in TTLHints : NextCheck(FeedTTL(hint))
    /\ UNCHANGED <<cfg, entry>>

PollNotModified ==
    /\ NextCheck(feed.ttl)
    /\ UNCHANGED <<cfg, entry>>

\* recordError; what the server asked for counts up to fetch's own cap.
PollFails ==
    /\ feed.errors < MaxErrors
    /\ \E h \in RetryHeaders :
           LET d == Backoff(cfg, feed.errors + 1)
           IN  \E j \in Jitter(d) :
                   feed' = [feed EXCEPT !.errors = @ + 1, !.base = d,
                                !.wait = WithRetryAfter(cfg, d + j, ParseRetryAfter(h)),
                                !.asked = IF h[1] = "none" THEN 0 ELSE Greatest(h[2], 0)]
    /\ UNCHANGED <<cfg, entry>>

\* fail: the attempt is counted, and the last one is terminal.
ScrapeFails ==
    /\ entry.pending
    /\ LET n == entry.attempts + 1
           d == ExtractBackoff(n)
           failed == [entry EXCEPT !.attempts = n, !.asked = 0, !.by = "fail"]
       IN  IF n >= MaxAttempts
           THEN entry' = [failed EXCEPT !.wait = 0, !.base = 0, !.pending = FALSE]
           ELSE \E j \in Jitter(d) : entry' = [failed EXCEPT !.wait = d + j, !.base = d]
    /\ UNCHANGED <<cfg, feed>>

\* retryLater: the attempt is not counted, and there is no jitter.
ScrapeDeferred ==
    /\ entry.pending
    /\ \E h \in RetryHeaders :
           LET d == Least(Greatest(BaseBackoff, ParseRetryAfter(h)), MaxScrapeBackoff)
           IN  entry' = [entry EXCEPT !.wait = d, !.base = d, !.by = "defer",
                             !.asked = IF h[1] = "none" THEN 0 ELSE Greatest(h[2], 0)]
    /\ UNCHANGED <<cfg, feed>>

\* Full content is switched on again after the last attempt failed.
Requeue ==
    /\ ~entry.pending
    /\ entry' = Queued
    /\ UNCHANGED <<cfg, feed>>

Next ==
    \/ GrowsOld \/ PollSucceeds \/ PollNotModified \/ PollFails
    \/ ScrapeFails \/ ScrapeDeferred \/ Requeue

Spec == Init /\ [][Next]_vars

-----------------------------------------------------------------------------
\* Types: every wait and every stored ttl is a duration that fits its width.
FeedOK ==
    /\ cfg \in Configs
    /\ feed \in [errors : 0..MaxErrors, wait : 0..Half - 1, base : 0..Half - 1,
                 asked : Nat, ttl : 0..Half - 1, old : BOOLEAN]

TypeOK ==
    /\ FeedOK
    /\ entry \in [attempts : 0..MaxAttempts, wait : 0..Half - 1, base : 0..Half - 1,
                  asked : Nat, by : {"queue", "fail", "defer"}, pending : BOOLEAN]

\* Nothing a server says or a long run of errors does puts a feed off beyond a
\* quarter over its longest interval (its backoff cap, while it fails), or the cap on
\* publishers' hints.
NeverParked ==
    /\ feed.errors = 0 => 4 * feed.wait <= 5 * cfg.max \/ feed.wait <= MaxTTL
    /\ feed.errors > 0 => 4 * feed.wait <= 5 * cfg.backoff

\* No outcome leaves a feed due at once, or sooner than its shortest interval (or
\* a backoff cap set below that): a failing feed is never polled on every tick.
NeverBusy == feed.wait > 0 /\ feed.wait >= Least(cfg.min, cfg.backoff)

\* The backoff in machine arithmetic is the one meant: the interval doubled with
\* every error in a row, up to the cap, whatever the error count grows to.
BackoffExact ==
    feed.errors > 0 =>
        feed.base = Least(cfg.min * 2^Least(feed.errors, MaxShift), cfg.backoff)

\* A server that asks for a wait gets it, up to the caps: Retry-After in any size
\* or form, and a publisher's interval once the feed is a week old.
HintsHonoured ==
    /\ feed.errors > 0 =>
           feed.wait >= Least(Least(feed.asked, MaxRetryAfter), cfg.backoff)
    /\ feed.errors = 0 => feed.wait >= Least(feed.asked, MaxTTL)

\* The same of an article.  A failed attempt doubles the last one's backoff up to
\* the cap, a deferred one does not change the count and waits as long as asked,
\* neither leaves the row due at once nor puts it off beyond the cap and its
\* jitter.
ScrapesPaced ==
    /\ entry.pending /\ entry.by # "queue"
           => entry.wait >= Least(BaseBackoff, MaxScrapeBackoff)
    /\ entry.pending /\ entry.by = "fail"
           => entry.base = Least(BaseBackoff * 2^(entry.attempts - 1), MaxScrapeBackoff)
    /\ 4 * entry.wait <= 5 * MaxScrapeBackoff
    /\ entry.wait >= Least(Least(entry.asked, MaxRetryAfter), MaxScrapeBackoff)
=============================================================================
