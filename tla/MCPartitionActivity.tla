------------------------- MODULE MCPartitionActivity -------------------------
(* Two Pools, one goroutine that marks and callers that do not; a full scan every *)
(* third cycle, one cycle later than a Pool can expire.  And the bounded trims of  *)
(* three Pools.                                                                *)
EXTENDS PartitionActivity, SequencesExt

(* A Pool gives whole buffers, class by class, as long as the limits have room. *)
GivesUp(pool, limit) ==
    LET Give(got, class) ==
            LET room == <<limit.buffers - got.buffers, (limit.bytes - got.bytes) \div class.size,
                          class.usage.bytes \div class.size>>
                n == CHOOSE k \in {room[i] : i \in 1 .. 3} : \A i \in 1 .. 3 : k <= room[i]
            IN  [buffers |-> got.buffers + n, bytes |-> got.bytes + n * class.size]
        sum[i \in 0 .. Len(pool.classes)] ==
            IF i = 0 THEN [buffers |-> 0, bytes |-> 0] ELSE Give(sum[i - 1], pool.classes[i])
    IN  sum[Len(pool.classes)]

Trims == INSTANCE PartitionTrims WITH MaxWord <- 63, MaxInt <- 2, TrimPool <- GivesUp

Class(size, target, buffers) ==
    [size |-> size, assigned |-> target,
     usage |-> [buffers |-> buffers, bytes |-> buffers * size]]
APool(name, score, classes) ==
    [index |-> name, name |-> name, score |-> score, classes |-> classes]
Classes == {<<Class(1, 1, n), Class(4, 4, m)>> : n \in {0, 2}, m \in {0, 1}}
ThreePools ==
    {<<APool(1, s, c), APool(2, 1, d), APool(3, 1, e)>> :
        s \in {0, 1, 2}, c \in Classes, d \in Classes, e \in Classes}
TrimPolicies ==
    [enabled : BOOLEAN, onPressure : BOOLEAN, onShrink : BOOLEAN, pools : {1, 3},
     buffers : {1, 3}, bytes : {2, 5, 9}]

-----------------------------------------------------------------------------
(* A trim takes no more than its plan allows from all Pools together, whatever each one    *)
(* gives within the rest, visits the worst of the Pools that retain something, and marks   *)
(* the controller's Pools exactly when it took something (partition_trim.go:313-369).      *)
ASSUME TrimsStayWithinPlan ==
    \A pools \in ThreePools, policy \in TrimPolicies, level \in {"normal", "high"} :
        LET plan == Trims!CyclePlan(policy, level)
            result == Trims!ExecutePlan(plan, pools)
            order == Trims!Candidates(pools)
        IN  /\ result.trimmed.buffers <= policy.buffers /\ result.trimmed.bytes <= policy.bytes
            /\ result.attempted <=> policy.enabled /\ (policy.onPressure => level = "high")
            /\ result.visited <= policy.pools /\ result.visited <= Len(order)
            /\ Trims!MarksDirty(result) <=> result.trimmed.bytes > 0
            /\ \A i \in DOMAIN order : Trims!PoolUsage(order[i]).retained > 0
            /\ \A i, j \in DOMAIN order : i < j => order[i].score >= order[j].score
            /\ policy.onShrink /\ policy.enabled => Trims!ShrinkPlan(policy).enabled

(* A Pool whose buffers exceed what is left of the bytes counts as visited.  If it is the  *)
(* worst one and one Pool is visited in a cycle, which is the default, then no cycle takes *)
(* anything, although another Pool could give (partition_trim.go:23, 336).               *)
ASSUME WorstPoolCanStarveTrims ==
    LET pools == <<APool(1, 2, <<Class(4, 0, 1)>>), APool(2, 1, <<Class(1, 0, 2)>>)>>
        plan(n) == [enabled |-> TRUE, reason |-> "policy", pools |-> n, buffers |-> 3, bytes |-> 2]
    IN  /\ ~Trims!ExecutePlan(plan(1), pools).executed
        /\ Trims!ExecutePlan(plan(2), pools).executed

(* The level of valid thresholds grows with the bytes that are owned, a signal raises it   *)
(* and never lowers it, and owned bytes that are over their budget stay so although their  *)
(* sum saturates (partition_pressure.go:272-313, partition_budget.go:65-84).             *)
ASSUME PressureIsMonotone ==
    \A medium \in {0, 2}, high \in {0, 3, 4}, critical \in {0, 4, 5} :
        LET t == [enabled |-> TRUE, medium |-> medium, high |-> high, critical |-> critical]
            level(signal, n) == Trims!Rank(Trims!EffectivePressure(t, signal, n).level)
        IN  \A n \in 0 .. 6, signal \in Range(Trims!Order) :
                /\ level(signal, n) <= level(signal, n + 1)
                /\ level("normal", n) <= level(signal, n) /\ Trims!Rank(signal) <= level(signal, n)
                /\ level(signal, n) \in {level("normal", n), Trims!Rank(signal)}
ASSUME BudgetsCompareSums ==
    \A kept, lent \in {0, 1, 32, 62, 63}, owned \in {0, 1, 40, 62} :
        LET usage == [retained |-> kept, active |-> lent]
            over(k) == k \in Trims!OverBudget([retained |-> 1, active |-> 0, owned |-> owned], usage)
        IN  /\ over("owned") <=> owned > 0 /\ kept + lent > owned
            /\ over("retained") <=> kept > 1
            /\ ~over("active")

(* SetPressure succeeds exactly when every entry took the signal and the snapshot was      *)
(* published; a pass that some took and not all says that it is partial                *)
(* (partition_pressure.go:199-268, group_pressure.go:108-178).                          *)
ASSUME PublicationsSayWhatHappened ==
    \A closed, refusing \in SUBSET (1 .. 3) :
        LET p == Trims!Signalled(<<1, 2, 3>>, closed, refusing) IN
        /\ Trims!SetPressure("high", p) = "ok" <=> closed \cup refusing = {}
        /\ Trims!FullyApplied(p) <=> p.applied = <<1, 2, 3>>
        /\ p.published => Trims!FullyApplied(p)
        /\ p.partial <=> p.applied # <<>> /\ ~p.published
        /\ closed # {} => p.applied = <<>>
        /\ Range(p.applied) \cap (Range(p.skipped) \cup closed \cup refusing) = {}
=============================================================================
