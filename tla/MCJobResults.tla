---------------------------- MODULE MCJobResults ----------------------------
(***************************************************************************)
(* JobResults for TLC.                                                     *)
(***************************************************************************)
EXTENDS JobResults
=============================================================================
