----------------------------- MODULE MCRxQueue -----------------------------
(***************************************************************************)
(* RxQueue for TLC.  Sequences of seeds are bounded by the number of       *)
(* requests, so the type invariant is checked as it stands.                *)
(***************************************************************************)
EXTENDS RxQueue
=============================================================================
