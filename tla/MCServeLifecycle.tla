--------------------------- MODULE MCServeLifecycle ---------------------------
(* ServeLifecycle on two pools of two workers. *)
EXTENDS ServeLifecycle

BothPools == {"poller", "scraper"}
=============================================================================
