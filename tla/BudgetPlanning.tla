---------------------------- MODULE BudgetPlanning ----------------------------
(* How a group, a partition and a Pool plan the budgets below them                  *)
(* (group_budget_allocator.go, group_coordinator_apply.go,                        *)
(* partition_budget_allocator.go, partition_controller_apply.go,                  *)
(* partition_policy_update.go, partition_budget_publication.go,                   *)
(* pool_budget_allocator.go).  BudgetAllocation has the allocator, loop by loop;    *)
(* here an allocation is any that it could return for some scores.                  *)
(*                                                                             *)
(* A Pool is [policy, assigned], the bytes its classes have; zero is no limit.      *)
EXTENDS PoolDecisions

-----------------------------------------------------------------------------
(* Allocations *)

Input(base, min, max) == [base |-> base, min |-> min, max |-> max]
Ceiling(input) == Max({input.min, IF input.max = 0 THEN MaxSize ELSE input.max})
MinimumOf(inputs) == SaturatingSum([i \in DOMAIN inputs |-> inputs[i].min])
CeilingOf(inputs) == SaturatingSum([i \in DOMAIN inputs |-> Ceiling(inputs[i])])

Feasible(parent, inputs) == MinimumOf(inputs) <= parent

(* What is infeasible is not published, so that its targets do not matter. *)
Allocations(parent, inputs) ==
    {f \in [DOMAIN inputs -> 0 .. parent] :
        /\ Feasible(parent, inputs)
        /\ \A i \in DOMAIN f : inputs[i].min <= f[i] /\ f[i] <= Ceiling(inputs[i])
        /\ SaturatingSum(f) = Smaller(parent, CeilingOf(inputs))}

-----------------------------------------------------------------------------
(* A Pool over its classes; targets are <<class, bytes>> *)

ClassInputs(pool) ==
    LET caps == Caps(pool.policy) IN
    [i \in DOMAIN caps |-> Input(pool.assigned[i], 0, caps[i])]
DefaultClassInputs(pool) ==
    LET caps == Caps(pool.policy) IN [i \in DOMAIN caps |-> Input(0, 0, caps[i])]

ClassTargetsValid(policy, targets) ==
    LET named == [i \in DOMAIN targets |-> targets[i][1]] IN
    Range(named) \subseteq DOMAIN policy.classes /\ IsInjective(named)

(* Targets that are given add up to no more than the Pool's, unless it has none. *)
TargetsFeasible(retained, targets) ==
    LET total == SaturatingSum([i \in DOMAIN targets |-> targets[i][2]])
    IN  retained = 0 \/ total <= retained

-----------------------------------------------------------------------------
(* A partition over its Pools, in a controller cycle *)

CurrentBudget(pool) == SaturatingSum(pool.assigned)
CycleInputs(pools) ==
    [i \in DOMAIN pools |-> Input(CurrentBudget(pools[i]), 0, Fundable(pools[i].policy))]
CycleParent(limit, pools) ==
    IF limit # 0 THEN limit
    ELSE SaturatingSum([i \in DOMAIN pools |-> Fundable(pools[i].policy)])

(* Bytes of each class of each Pool; inputs[i] are the inputs of the classes of Pool i *)
ClassPlans(targets, inputs) ==
    LET plans == [i \in DOMAIN inputs |-> Allocations(targets[i], inputs[i])]
    IN  {t \in [DOMAIN inputs -> UNION Range(plans)] : \A i \in DOMAIN t : t[i] \in plans[i]}

(* What a cycle may publish *)
CyclePlans(limit, pools) ==
    UNION {ClassPlans(f, [i \in DOMAIN pools |-> ClassInputs(pools[i])]) :
              f \in Allocations(CycleParent(limit, pools), CycleInputs(pools))}

(* PoolPartitionBudgetPublicationReport: [targets, feasible, classes], the last one    *)
(* whether each class plan is feasible and has no reason against it              *)
CanPublish(report) ==
    report.targets # <<>> /\ report.feasible /\ \A ok \in Range(report.classes) : ok

-----------------------------------------------------------------------------
(* A partition over its Pools, for a policy with a limit: each Pool gets the size of   *)
(* its smallest class at least.                                                 *)

HasRetainedTarget(limit) == limit # 0
MinimumRetained(policy) == IF policy.classes = <<>> THEN 0 ELSE Smallest(policy.classes)
MinimumRetainedOf(pools) ==
    SaturatingSum([i \in DOMAIN pools |-> MinimumRetained(pools[i].policy)])

PolicyInputs(pools) ==
    [i \in DOMAIN pools |->
        Input(CurrentBudget(pools[i]), MinimumRetained(pools[i].policy), Fundable(pools[i].policy))]
PolicyTargets(limit, pools) == Allocations(limit, PolicyInputs(pools))
PolicyPlans(targets, pools) ==
    ClassPlans(targets, [i \in DOMAIN pools |-> DefaultClassInputs(pools[i])])
PolicyRejection(limit, pools) ==
    CASE ~HasRetainedTarget(limit)            -> "no_budget_target"
      [] ~Feasible(limit, PolicyInputs(pools)) -> "minimums_exceed_parent"
      [] OTHER                                -> "none"

(* Whether an update of limits or of the rest contracts, expands and needs a trim *)
Bound(limit) == IF limit = 0 THEN MaxSize + 1 ELSE limit
LimitDecreased(old, new) == Bound(new) < Bound(old)
LimitIncreased(old, new) == Bound(new) > Bound(old)
Contracts(old, new) == \E k \in DOMAIN old : LimitDecreased(old[k], new[k])
Expands(old, new)   == \E k \in DOMAIN old : LimitIncreased(old[k], new[k])
UpdateDiff(old, new) ==
    [changed |-> old.budget # new.budget,
     contracted |-> Contracts(old.budget, new.budget), expanded |-> Expands(old.budget, new.budget),
     pressure |-> old.pressure # new.pressure, trim |-> old.trim # new.trim,
     needsTrim |-> /\ LimitDecreased(old.budget.retained, new.budget.retained)
                   /\ new.trim.enabled /\ new.trim.onShrink]

-----------------------------------------------------------------------------
(* A group over its partitions *)

(* A coordinator tick has nothing but the scores, which count what happened since the  *)
(* last one: a partition in which nothing did gets nothing beside one that was active. *)
TickInputs(n) == [p \in 1 .. n |-> Input(0, 0, 0)]
TickTargets(limit, n, active) ==
    {f \in Allocations(limit, TickInputs(n)) : active # {} => \A p \in 1 .. n \ active : f[p] = 0}

(* A policy has the minimums of the partitions' Pools. *)
GroupInputs(limits, poolsOf) ==
    [p \in DOMAIN limits |-> Input(limits[p], MinimumRetainedOf(poolsOf[p]), 0)]
GroupTargets(limit, limits, poolsOf) == Allocations(limit, GroupInputs(limits, poolsOf))
=============================================================================
