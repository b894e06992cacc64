---------------------------- MODULE PartitionTrims ----------------------------
(* How a partition judges its pressure and its budget, what a pass of a pressure    *)
(* signal reports, and how a bounded trim picks the Pools it takes memory from      *)
(* (partition_pressure.go, group_pressure.go, partition_budget.go,              *)
(* partition_trim.go).  A trim of one Pool is PoolControl's; scores are compared,   *)
(* never computed.                                                            *)
(*                                                                             *)
(* A class is [size, assigned, usage]; a Pool is [index, name, score, classes];     *)
(* names and scores are numbers.  Amounts are [buffers, bytes].                   *)
EXTENDS CreditRules

CONSTANTS TrimPool(_, _),  \* what a Pool gives up for a limit: Pool.Trim
          MaxInt           \* the largest int

-----------------------------------------------------------------------------
(* Pressure and budget: thresholds [enabled, medium, high, critical] and a budget  *)
(* [retained, active, owned], in which zero is none                             *)

Order == <<"normal", "medium", "high", "critical">>
Rank(level) == CHOOSE i \in DOMAIN Order : Order[i] = level

Owned(usage) == Min({usage.retained + usage.active, MaxWord})

Reached(policy, owned) ==
    {i \in 2 .. 4 : policy.enabled /\ policy[Order[i]] > 0 /\ owned >= policy[Order[i]]}
Pressure(policy, owned) ==
    [enabled |-> policy.enabled, level |-> Order[Max({1} \cup Reached(policy, owned))]]

(* A signal that was published can raise the level, never lower it. *)
EffectivePressure(policy, signal, owned) ==
    LET own == Pressure(policy, owned) IN
    IF signal \notin Range(Order) \/ Rank(signal) <= Rank(own.level) THEN own
    ELSE [enabled |-> TRUE, level |-> signal]

OverBudget(budget, usage) ==
    LET current == [retained |-> usage.retained, active |-> usage.active, owned |-> Owned(usage)]
    IN  {k \in DOMAIN budget : budget[k] > 0 /\ current[k] > budget[k]}

(* What a signal reports that goes to the entries in order: to none if one is closed, *)
(* and only as far as the first one that refuses it.                            *)
Publication(applied, skipped, entries) ==
    [published |-> applied = entries, applied |-> applied, skipped |-> skipped,
     partial |-> applied # <<>> /\ applied # entries]
Signalled(entries, closed, refusing) ==
    LET skipped == SelectSeq(entries, LAMBDA e : e \in closed)
        reached == SelectInSeq(entries, LAMBDA e : e \in refusing)
    IN  IF skipped # <<>> THEN Publication(<<>>, skipped, entries)
        ELSE IF reached = 0 THEN Publication(entries, <<>>, entries)
        ELSE Publication(SubSeq(entries, 1, reached - 1), <<entries[reached]>>, entries)
FullyApplied(p) == p.published /\ p.skipped = <<>>
SetPressure(level, p) ==
    IF level \notin Range(Order) THEN "invalid" ELSE IF FullyApplied(p) THEN "ok" ELSE "closed"

-----------------------------------------------------------------------------
(* Plans: [enabled, reason, pools, buffers, bytes]; policies are normalized. *)

Plan(policy, enabled, reason) ==
    [enabled |-> enabled, reason |-> reason, pools |-> policy.pools,
     buffers |-> policy.buffers, bytes |-> policy.bytes]

CyclePlan(policy, level) ==
    IF ~policy.enabled THEN Plan(policy, FALSE, "trim_disabled")
    ELSE IF ~policy.onPressure THEN Plan(policy, TRUE, "policy")
    ELSE IF level = "normal" THEN Plan(policy, FALSE, "no_pressure")
    ELSE Plan(policy, TRUE, "pressure")

ShrinkPlan(policy) ==
    IF ~policy.enabled THEN Plan(policy, FALSE, "trim_disabled")
    ELSE IF ~policy.onShrink THEN Plan(policy, FALSE, "policy_shrink_trim_disabled")
    ELSE Plan(policy, TRUE, "policy_shrink")

-----------------------------------------------------------------------------
(* Candidates *)

SaturatingTotal(amounts) == Min({FoldSeq(+, 0, amounts), MaxWord})
PoolUsage(pool) ==
    LET used == SelectSeq(pool.classes, LAMBDA c : c.usage.bytes > 0)
        over(c) == OverTargetBytes(ClassLimit(c.size, c.assigned), c.usage)
    IN  [retained |-> SaturatingTotal([i \in DOMAIN used |-> used[i].usage.bytes]),
         buffers |-> SaturatingTotal([i \in DOMAIN used |-> used[i].usage.buffers]),
         over |-> SaturatingTotal([i \in DOMAIN used |-> over(used[i])]),
         waste |-> SaturatingTotal([i \in DOMAIN used |->
                                          CapacityWaste(used[i].usage, used[i].size)])]

(* The worst first; ties go to the name. *)
Keys(pool) ==
    LET usage == PoolUsage(pool) IN
    <<-pool.score, -usage.over, -usage.retained, -usage.waste, pool.name, pool.index>>
Before(p, q) ==
    \E i \in 1 .. 6 : /\ Keys(p)[i] < Keys(q)[i]
                      /\ \A j \in 1 .. i - 1 : Keys(p)[j] = Keys(q)[j]
Candidates(pools) ==
    SortSeq(SelectSeq(pools, LAMBDA p : PoolUsage(p).retained > 0), Before)

-----------------------------------------------------------------------------
(* A trim: [attempted, reason, executed, visited, trimmed, left] *)

NotAttempted(reason) ==
    [attempted |-> FALSE, reason |-> reason, executed |-> FALSE, visited |-> 0,
     trimmed |-> Nothing, left |-> Nothing]

(* A Pool counts as visited whatever it gives. *)
Visit(result, pool) ==
    LET left == result.left
        got == TrimPool(pool, Pair(Min({left.buffers, MaxInt}), left.bytes))
    IN  [result EXCEPT !.visited = @ + 1,
                       !.executed = @ \/ got.buffers > 0,
                       !.trimmed = Pair(@.buffers + got.buffers, @.bytes + got.bytes),
                       !.left = Pair(Above(@.buffers, got.buffers), Above(@.bytes, got.bytes))]
Spent(plan, result) ==
    \/ plan.pools > 0 /\ result.visited >= plan.pools
    \/ result.left.buffers = 0 \/ result.left.bytes = 0

ExecutePlan(plan, pools) ==
    IF ~plan.enabled THEN NotAttempted(plan.reason)
    ELSE FoldLeft(LAMBDA result, p : IF Spent(plan, result) THEN result ELSE Visit(result, p),
                  [NotAttempted(plan.reason) EXCEPT !.attempted = TRUE,
                                                    !.left = Pair(plan.buffers, plan.bytes)],
                  Candidates(pools))

(* A trim that took memory makes every Pool dirty for the controller. *)
MarksDirty(result) == result.executed

ExecuteTrim(open, policy, level, pools) ==
    IF ~open THEN NotAttempted("closed") ELSE ExecutePlan(CyclePlan(policy, level), pools)
=============================================================================
