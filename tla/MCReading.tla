------------------------------ MODULE MCReading ------------------------------
(* Reading on one feed, one category and pages of one row. *)
EXTENDS Reading
=============================================================================
