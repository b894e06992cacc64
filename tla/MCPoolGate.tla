----------------------------- MODULE MCPoolGate -----------------------------
(* Three goroutines: one that closes, one that follows or operates, and one that  *)
(* operates between the steps of both.                                           *)
EXTENDS PoolGate, TLC
=============================================================================
