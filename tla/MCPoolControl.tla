---------------------------- MODULE MCPoolControl ----------------------------
(* Classes of one and two units on two shards of two slots.  The policies that are *)
(* published contract and expand the budgets, refuse returns, or have pressure.    *)
EXTENDS PoolControl

Sharded(selection) == ShardPolicy(selection, 2, 2, 1, 1, 0)
Admission(returned, action) ==
    AdmissionPolicy("empty_buffer", returned, action, action, action, "drop", "drop",
                    FALSE, FALSE)
Pressured ==
    PressurePolicy(TRUE, Capped(7500, 1, 3), Capped(5000, 2, 1), Disabling(4, 1))
TrimOne == TrimPolicy(TRUE, 1, 1, 1, 2, 1, 1, 1, TRUE, TRUE, TRUE)
TrimMore == TrimPolicy(TRUE, 1, 1, 2, 3, 1, 2, 2, TRUE, TRUE, TRUE)

Small(soft, buffers, capacity, admission, pressure, trim) ==
    Policy(RetentionPolicy(soft, 16, buffers, 2, capacity, 8, buffers, 4, Smaller(buffers, 2)),
           <<1, 2>>, Sharded("round_robin"), admission, pressure, trim, Untracked(2))

Ample == Small(12, 4, 4, Admission("admit", "drop"), Pressured, TrimMore)
Tight == Small(3, 4, 2, Admission("admit", "error"), NoPressure, TrimOne)
Dropping == Small(10, 4, 4, Admission("drop", "drop"), Pressured, NoTrim)
(* It funds one buffer of each class, and limits their number to one.              *)
Single == Small(3, 1, 2, Admission("admit", "drop"), NoPressure, NoTrim)

(* Not accepted live: another shape, another owner, sections that disagree. *)
Reshaped == [Ample EXCEPT !.shards = Sharded("random")]
Owned == [Ample EXCEPT !.ownership = OwnershipPolicy("accounting", TRUE, TRUE, FALSE, One)]
Inconsistent == [Ample EXCEPT !.retention.request = 3]

MCConfigs ==
    {PoolConfig(Ample, "unset", "unset", "unset"),
     PoolConfig(Ample, "enabled", "keep_retained", "drop_returns"),
     PoolConfig(Inconsistent, "enabled", "clear_retained", "reject")}
MCPolicies == {Ample, Tight, Dropping, Reshaped, Owned, Inconsistent}
MCSignals == {[generation |-> 0, level |-> "critical"], [generation |-> 3, level |-> "high"]}
MCPlans == {TrimPlan(3, 4, 1, 0)}

Symmetry == Permutations(Threads)

(* The named profiles are valid, a partition supports all of them and a Pool of its  *)
(* own those that do not account for leases (profiles.go).                          *)
ASSUME ProfilesAreValid ==
    \A name \in DOMAIN Profiles :
        LET policy == Profiles[name] IN
        /\ PolicyValid(policy) /\ PolicySupported(policy, "partition_owned")
        /\ PolicySupported(policy, "standalone") <=> name \notin {"secure", "strict_bounded"}

Tables == INSTANCE ClassTable WITH Word <- 16, Stride <- 7, Mix <- [v \in 0 .. 15 |-> (11 * v + 5) % 16]

(* The binary searches of a class table return what PoolControl takes them for: the class *)
(* that serves a request with the least waste, the greatest one that a buffer can serve,   *)
(* and the one of a size (class_table.go:190-268).                                     *)
ASSUME LookupsFind ==
    \A sizes \in {t \in SeqOf(1 .. 6, 4) : Tables!TableValid(t)}, n \in 0 .. 7 :
        LET i == Tables!ForRequest(sizes, n) IN
        /\ i = ClassForRequest(sizes, n)
        /\ Tables!ForCapacity(sizes, n) = IF n = 0 THEN 0 ELSE ClassForCapacity(sizes, n)
        /\ Tables!ForExactSize(sizes, n) = ClassForExactSize(sizes, n)
        /\ i # 0 => \A j \in DOMAIN sizes :
              Tables!CanServe(sizes[j], n) =>
                  Tables!WasteFor(sizes[i], n) <= Tables!WasteFor(sizes[j], n)

(* Every selector stays within the shards, also where its sequence wraps, and round robin *)
(* serves all shards alike: in each run of as many calls as there are shards each shard is *)
(* selected once, except across the wrap when the count does not divide the word.        *)
ASSUME SelectorsAreInRange ==
    \A mode \in Tables!SelectorModes, class \in 0 .. 2, next \in 0 .. 15, count \in 1 .. 5 :
        LET s == [Tables!Selector(mode, class) EXCEPT !.next = next] IN
        /\ Tables!SelectShard(s, count) \in 0 .. count - 1
        /\ Tables!Advanced(s).next \in 0 .. 15
        /\ mode = "round_robin" =>
              LET selected == {Tables!SelectShard([s EXCEPT !.next = (next + k) % 16], count) :
                                  k \in 0 .. count - 1}
              IN  selected = 0 .. count - 1 \/ (16 % count # 0 /\ next + count > 16)

(* A class keeps what its bytes fund, and MaxRetainedBuffers, which "limits the number of *)
(* retained buffers in the policy" (policy.go:193), limits each class but not their sum.  *)
ASSUME CountLimitIsPerClass ==
    /\ Single.retention.buffers = 1
    /\ \A i \in DOMAIN Single.classes : InitialAssignments(Single)[i] = Single.classes[i]

Budgets == INSTANCE BudgetPlanning

PoolWith(policy) == [policy |-> policy, assigned |-> InitialAssignments(policy)]
TwoPools == {<<PoolWith(Single), PoolWith(Tight)>>, <<PoolWith(Tight), PoolWith(Tight)>>}

(* The plans of a controller cycle nest: the classes of a Pool have its budget together,   *)
(* the Pools the limit, or what they can use of it.  Their caps are never zero, which would *)
(* be taken for none, and what is published is feasible for the Pools that are given it     *)
(* (partition_controller_apply.go:152-233, pool_budget_allocator.go:232-301).             *)
ASSUME CyclePlansNest ==
    \A pools \in TwoPools, limit \in 0 .. 7 :
        LET held(plan, i) == SaturatingSum(plan[i])
            usable == SaturatingSum([i \in DOMAIN pools |-> Fundable(pools[i].policy)])
        IN  /\ \A i \in DOMAIN pools : 0 \notin Range(Caps(pools[i].policy))
            /\ \A plan \in Budgets!CyclePlans(limit, pools) :
                  /\ held(plan, 1) + held(plan, 2) = IF limit = 0 THEN usable ELSE Smaller(limit, usable)
                  /\ \A i \in DOMAIN pools :
                        LET targets == [c \in DOMAIN plan[i] |-> <<c, plan[i][c]>>] IN
                        /\ held(plan, i) <= Fundable(pools[i].policy)
                        /\ Budgets!ClassTargetsValid(pools[i].policy, targets)
                        /\ Budgets!TargetsFeasible(held(plan, i), targets)

(* A partition policy is rejected exactly if its limit is less than the smallest classes   *)
(* of its Pools together; otherwise each Pool gets that much at least and its classes share *)
(* it out, which they can always do (partition_policy_update.go:314-400).                 *)
ASSUME PolicyPlansFit ==
    \A pools \in TwoPools, limit \in 1 .. 7 :
        /\ Budgets!PolicyRejection(limit, pools) # "none" <=> limit < Budgets!MinimumRetainedOf(pools)
        /\ \A targets \in Budgets!PolicyTargets(limit, pools) :
              /\ \A i \in DOMAIN pools : targets[i] >= Budgets!MinimumRetained(pools[i].policy)
              /\ Budgets!PolicyPlans(targets, pools) # {}

(* The minimum of a Pool is to be "enough target to retain at least one smallest-class      *)
(* buffer" (partition_policy_update.go:378), but its classes share it and may each get less  *)
(* than one buffer.                                                                    *)
ASSUME MinimumMayFundNothing ==
    LET wide == [Tight EXCEPT !.classes = <<2, 4>>]
        pools == <<PoolWith(wide)>>
    IN  \E plan \in Budgets!PolicyPlans(<<Budgets!MinimumRetained(wide)>>, pools) :
            \A c \in DOMAIN wide.classes : plan[1][c] < wide.classes[c]

(* An update may contract one limit and expand another; of one limit it does at most one,  *)
(* and neither if it stays.  Zero is above every limit.  A trim is due only if the update  *)
(* takes retained bytes away (partition_policy_update.go:406-465).                       *)
ASSUME UpdatesCompare ==
    \A old, new \in [retained : {0, 1, 2}, active : {0, 1, 2}, owned : {0, 1}] :
        LET update(budget) == [budget |-> budget, pressure |-> NoPressure, trim |-> TrimOne]
            diff == Budgets!UpdateDiff(update(old), update(new))
        IN  /\ diff.changed <=> diff.contracted \/ diff.expanded
            /\ diff.contracted <=> Budgets!UpdateDiff(update(new), update(old)).expanded
            /\ diff.needsTrim => diff.contracted
            /\ new.retained = 0 => ~diff.needsTrim
=============================================================================
