-------------------------- MODULE MCPartitionClose --------------------------
(* Two callers and the scheduler; at most one lease at a time. *)
EXTENDS PartitionClose, TLC
=============================================================================
