----------------------------- MODULE MCBudgetFlow -----------------------------
(* Two partitions of one Pool each, with a class of one unit or of two, and a group *)
(* whose policy has a limit of four units or none.                               *)
EXTENDS BudgetFlow

OneClass(size) ==
    Policy(RetentionPolicy(4, 16, 4, size, size, 4, 4, 4, 4), <<size>>,
           ShardPolicy("single", 1, 4, 1, 0, 0),
           AdmissionPolicy("empty_buffer", "admit", "drop", "drop", "drop", "drop", "drop",
                           FALSE, FALSE),
           NoPressure, NoTrim, Untracked(2))

MCPoolsOf == <<<<OneClass(1)>>, <<OneClass(2)>>>>
=============================================================================
