--------------------------- MODULE MCEntryLifecycle ---------------------------
(***************************************************************************)
(* EntryLifecycle for TLC.  Workers, polls and tabs are interchangeable,   *)
(* and so are guids and hashes, in the runs without temporal properties.   *)
(***************************************************************************)
EXTENDS EntryLifecycle, TLC

Symmetry ==
    Permutations(Scrapers) \cup Permutations(Pollers) \cup Permutations(Tabs)
        \cup Permutations(Feeds) \cup Permutations(Guids) \cup Permutations(Hashes)
=============================================================================
