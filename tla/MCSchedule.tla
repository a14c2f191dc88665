----------------------------- MODULE MCSchedule -----------------------------
(* Schedule in 16-bit durations: a second is one unit, the shift stops at 4, *)
(* and the hints are absent, small, at the caps and too large for a duration.*)
EXTENDS Schedule

\* A backoff cap above, below and not set, and intervals config.Load refuses; a
\* factor that makes the week's share overflow, and one that makes it small.
MCEnvironments ==
    [min : {0, 5, 12}, max : {12}, backoff : {-1, 3, 40}, num : {1}, den : {1}]
        \cup {[min |-> 5, max |-> 12, backoff |-> 40, num |-> 1, den |-> 2000],
              [min |-> 2, max |-> 16, backoff |-> 35, num |-> 3, den |-> 1]}
MCCounts == {0, 1, 4, 1000}
MCRetryHeaders ==
    {<<"none", 0>>, <<"secs", -1>>, <<"date", 70>>} \cup ({"secs"} \X {7, 30, 31, 65541})
MCTTLHints == {<<0, 0>>, <<2, 9>>, <<0, 90>>, <<5500, 0>>, <<10923, 0>>}
=============================================================================
