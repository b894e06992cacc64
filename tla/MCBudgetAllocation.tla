------------------------- MODULE MCBudgetAllocation -------------------------
(* Words of four bits and three children: a base that alone exceeds most parents,    *)
(* bounds that cut bases and shares, weights that tie, overflow and are missing.     *)
EXTENDS BudgetAllocation, TLC
=============================================================================
