---------------------------- MODULE MCHostLimiter ----------------------------
(* HostLimiter on two hosts, one of them with two spellings ("H" is "h" in   *)
(* capitals).                                                                *)
EXTENDS HostLimiter, TLC

SpelledNames == {"h", "H", "k"}
SpelledKey == [n \in SpelledNames |-> IF n = "H" THEN "h" ELSE n]

Symmetry == Permutations(Callers) \cup Permutations(Objects)
=============================================================================
