------------------------------ MODULE BudgetFlow ------------------------------
(* The way of a retained-byte budget from a group through its partitions to the     *)
(* classes of their Pools: coordinator ticks (group_coordinator.go), controller     *)
(* cycles that sample every Pool (partition_controller.go) and group policies       *)
(* (group_policy_update.go).  Each one is a single step here; PoolGroup and          *)
(* PartitionPublication have the steps within.                                    *)
EXTENDS BudgetPlanning

CONSTANTS PoolsOf,     \* the policies of the Pools of each partition
          GroupLimits  \* limits that a group policy can have

Partitions == DOMAIN PoolsOf

VARIABLES limit,     \* MaxRetainedBytes of the group
          limits,    \* MaxRetainedBytes of each partition
          assigned,  \* assigned[p][i][c]: bytes of class c of Pool i of partition p
          (* History *)
          given      \* given[p]: "none" until p gets a limit, "cycled" once it has used it

vars == <<limit, limits, assigned, given>>

PoolsAt(p) == [i \in DOMAIN PoolsOf[p] |-> [policy |-> PoolsOf[p][i], assigned |-> assigned[p][i]]]

Init ==
    /\ limit \in GroupLimits
    /\ limits = [p \in Partitions |-> 0]
    /\ assigned = [p \in Partitions |->
                      [i \in DOMAIN PoolsOf[p] |-> InitialAssignments(PoolsOf[p][i])]]
    /\ given = [p \in Partitions |-> "none"]

(* A tick gives partitions their limits; without a limit of its own it gives none. *)
CoordinatorTick ==
    \E active \in SUBSET Partitions :
        /\ limit # 0
        /\ limits' \in TickTargets(limit, Len(PoolsOf), active)
        /\ given' = [p \in Partitions |-> "limit"]
        /\ UNCHANGED <<limit, assigned>>

ControllerCycle ==
    \E p \in Partitions :
        /\ \E plan \in CyclePlans(limits[p], PoolsAt(p)) : assigned' = [assigned EXCEPT ![p] = plan]
        /\ given' = [given EXCEPT ![p] = IF @ = "none" THEN "none" ELSE "cycled"]
        /\ UNCHANGED <<limit, limits>>

(* A policy that is accepted reaches partitions and Pools at once. *)
PublishPolicy ==
    \E new \in GroupLimits :
        \/ new = 0 /\ limit' = 0 /\ UNCHANGED <<limits, assigned, given>>
        \/ /\ new # 0
           /\ limits' \in GroupTargets(new, limits, [p \in Partitions |-> PoolsAt(p)])
           /\ \E targets \in [Partitions -> UNION {PolicyTargets(limits'[p], PoolsAt(p)) : p \in Partitions}] :
                 /\ \A p \in Partitions : targets[p] \in PolicyTargets(limits'[p], PoolsAt(p))
                 /\ \E plans \in [Partitions -> UNION {PolicyPlans(targets[p], PoolsAt(p)) : p \in Partitions}] :
                       /\ \A p \in Partitions : plans[p] \in PolicyPlans(targets[p], PoolsAt(p))
                       /\ assigned' = plans
           /\ limit' = new /\ given' = [p \in Partitions |-> "cycled"]

Next == CoordinatorTick \/ ControllerCycle \/ PublishPolicy

Spec == Init /\ [][Next]_vars

-----------------------------------------------------------------------------
(* "When a hard group retained budget is configured, the full target is distributed across *)
(* current partitions" (group_coordinator_apply.go:61-62): once every partition has run a   *)
(* cycle with the limit it was given, all Pools together hold no more than the group may.   *)
HardBudgetDistributed ==
    limit # 0 /\ (\A p \in Partitions : given[p] = "cycled") =>
        SaturatingSum([p \in Partitions |->
            SaturatingSum([i \in DOMAIN assigned[p] |-> SaturatingSum(assigned[p][i])])]) <= limit
=============================================================================
