------------------------------ MODULE MCNonce ------------------------------
(***************************************************************************)
(* Nonce for TLC: two threads, a 1-bit word, a user mask of 2 usable bits  *)
(* (three bits with the sign bit, which Nonce::next strips) and a donation  *)
(* mask as wide as a word.                                                 *)
(***************************************************************************)
EXTENDS Nonce, TLC

MCMask == (0 :> 7) @@ (1 :> 1)
=============================================================================
