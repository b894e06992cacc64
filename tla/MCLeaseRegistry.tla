--------------------------- MODULE MCLeaseRegistry ---------------------------
(* Two goroutines and two backing arrays on a Pool with two classes; slices     *)
(* shorter than a class, of its size, and beyond the growth limit of the small    *)
(* one.                                                                        *)
EXTENDS LeaseRegistry, TLC

Symmetry == Permutations(Threads) \cup Permutations(Bases)
=============================================================================
