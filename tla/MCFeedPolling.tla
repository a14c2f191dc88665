---------------------------- MODULE MCFeedPolling ----------------------------
(* FeedPolling on small instances: "b" and "B" are two spellings of one      *)
(* address, "b" its normal form.                                             *)
EXTENDS FeedPolling

Plain2 == {"a", "b"}
PlainNorm == [u \in Plain2 |-> u]
Three == {"a", "b", "c"}
ThreeNorm == [u \in Three |-> u]
OnlyC == {"c"}
OnlyB == {"b"}
OtherSpelling == {"B"}
TwoSpellings == {"b", "B"}
TwoNorm == [u \in TwoSpellings |-> "b"]
None == {}
=============================================================================
