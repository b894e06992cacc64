----------------------------- MODULE GroupConfig -----------------------------
(* What a group and a partition are configured with, what makes it valid, and how  *)
(* the Pools of a group are assigned to its partitions (partition_assignment.go,  *)
(* group_config.go, partition_config.go, group_policy.go, partition_policy.go,    *)
(* ownership_policy.go).  Nothing here has state; PoolGroup runs what comes out.   *)
(*                                                                             *)
(* Names are trimmed, "" is the empty one.  A Pool is [name, partition, priority,  *)
(* ok]: whether its own configuration is valid and supported in a partition is    *)
(* decided by PolicyProfiles and PolicyRules.                                  *)
EXTENDS PolicyRules, SequencesExt, FiniteSetsExt

CONSTANTS MaxProcs,        \* GOMAXPROCS
          ShardsPerClass,  \* DefaultPolicyShardsPerClass
          HashSpan         \* a hash of a name is below it: 2^64

-----------------------------------------------------------------------------
(* Policies of partitions and groups *)

(* A scheduler has an interval exactly when it is enabled; the default is a second.  *)
SchedulerNormalized(s) == IF s.enabled /\ s.interval = 0 THEN [s EXCEPT !.interval = 1] ELSE s
SchedulerValid(s) == IF s.enabled THEN s.interval > 0 ELSE s.interval = 0

(* Zero is no limit. *)
BudgetValid(b) == b.owned # 0 => b.retained <= b.owned /\ b.active <= b.owned

Thresholds(p) == <<p.medium, p.high, p.critical>>
ThresholdsValid(p) ==
    p.enabled =>
        LET t == Thresholds(p) IN
        /\ \E i \in DOMAIN t : t[i] # 0
        /\ \A i, j \in DOMAIN t : i < j /\ t[i] # 0 /\ t[j] # 0 => t[i] <= t[j]

DefaultTrimLimits == [pools |-> 1, buffers |-> 1024, classes |-> 64, shards |-> 32]
PartitionTrimNormalized(p) ==
    [k \in DOMAIN p |-> IF p.enabled /\ k \in DOMAIN DefaultTrimLimits /\ p[k] = 0
                        THEN DefaultTrimLimits[k] ELSE p[k]]
PartitionTrimValid(p) ==
    p.enabled => \A k \in DOMAIN DefaultTrimLimits \cup {"bytes"} : p[k] > 0

PartitionPolicyNormalized(p) ==
    [p EXCEPT !.controller = SchedulerNormalized(@), !.trim = PartitionTrimNormalized(@)]
PartitionPolicyValid(policy) ==
    LET p == PartitionPolicyNormalized(policy) IN
    /\ SchedulerValid(p.controller) /\ BudgetValid(p.budget)
    /\ ThresholdsValid(p.pressure) /\ PartitionTrimValid(p.trim)

GroupPolicyNormalized(p) == [p EXCEPT !.coordinator = SchedulerNormalized(@)]
GroupPolicyValid(policy) ==
    LET p == GroupPolicyNormalized(policy) IN
    SchedulerValid(p.coordinator) /\ BudgetValid(p.budget) /\ ThresholdsValid(p.pressure)

-----------------------------------------------------------------------------
(* Ownership for a lease registry *)

DefaultGrowth == 2 * One
AccountingOwnership == OwnershipPolicy("accounting", TRUE, TRUE, TRUE, DefaultGrowth)
StrictOwnership     == OwnershipPolicy("strict", TRUE, TRUE, TRUE, DefaultGrowth)

OwnershipNormalized(p) ==
    IF p.mode = "unset" THEN StrictOwnership
    ELSE LET growth == IF p.growth = 0 THEN DefaultGrowth ELSE p.growth
             tracks == p.mode \in {"accounting", "strict"}
         IN  OwnershipPolicy(p.mode, tracks \/ p.bytes, tracks \/ p.buffers,
                             tracks \/ p.double, growth)
OwnershipValidForLeases(p) ==
    p.mode \in {"accounting", "strict"} /\ (p.mode = "strict" => p.growth # 0)

-----------------------------------------------------------------------------
(* Partitions and Pools *)

DefaultPartitionName == "default-partition"

NamesOf(s) == [i \in DOMAIN s |-> s[i].name]
Named(s) == "" \notin Range(NamesOf(s)) /\ IsInjective(NamesOf(s))

(* PoolPartitionConfig: [name, policy, ownership, pools] *)
PartitionNormalized(c) ==
    [c EXCEPT !.name = IF @ = "" THEN DefaultPartitionName ELSE @,
              !.policy = PartitionPolicyNormalized(@), !.ownership = OwnershipNormalized(@)]
PartitionValid(config) ==
    LET c == PartitionNormalized(config) IN
    /\ PartitionPolicyValid(c.policy) /\ OwnershipValidForLeases(c.ownership)
    /\ Named(c.pools) /\ \A pool \in Range(c.pools) : pool.ok

DefaultPartition ==
    [name |-> DefaultPartitionName, ownership |-> StrictOwnership, pools |-> <<>>,
     policy |-> [controller |-> [enabled |-> FALSE, interval |-> 0],
                 budget |-> [retained |-> 0, active |-> 0, owned |-> 0],
                 pressure |-> [enabled |-> FALSE, medium |-> 0, high |-> 0, critical |-> 0],
                 trim |-> [enabled |-> FALSE, pools |-> 0, buffers |-> 0, bytes |-> 0,
                           classes |-> 0, shards |-> 0, onPressure |-> FALSE,
                           onShrink |-> FALSE]]]

(* GroupPartitionConfig: [name, config]; the group names an unnamed configuration. *)
GroupPartitionNormalized(p) ==
    LET unnamed == p.name # "" /\ p.config.name \in {"", DefaultPartitionName}
    IN  [p EXCEPT !.config = PartitionNormalized(IF unnamed THEN [@ EXCEPT !.name = p.name]
                                                 ELSE @)]
PartitionsValid(partitions) ==
    /\ Named(partitions)
    /\ \A p \in Range(partitions) : p.config.name \in {"", p.name} /\ PartitionValid(p.config)

PriorityNormalized(priority) == IF priority = "unset" THEN "default" ELSE priority
PoolNormalized(pool) == [pool EXCEPT !.priority = PriorityNormalized(@)]
PoolsValid(pools) ==
    Named(pools) /\ \A p \in Range(pools) : PriorityNormalized(p.priority) = "default" /\ p.ok

-----------------------------------------------------------------------------
(* How many partitions *)

Clamp(low, n, high) == IF n < low THEN low ELSE IF n > high THEN high ELSE n

DefaultPartitioning ==
    [mode |-> "auto", min |-> 1, max |-> Clamp(1, MaxProcs \div 2, 8), target |-> 100000,
     classes |-> 8, shards |-> ShardsPerClass, placement |-> "hash"]
Unset == [k \in DOMAIN DefaultPartitioning |-> IF k \in {"mode", "placement"} THEN "unset" ELSE 0]

PartitioningNormalized(p) ==
    [k \in DOMAIN p |-> IF p[k] = Unset[k] THEN DefaultPartitioning[k] ELSE p[k]]
PartitioningValid(policy) ==
    LET p == PartitioningNormalized(policy) IN
    /\ p.mode \in {"auto", "explicit"} /\ p.placement = "hash"
    /\ \A k \in {"min", "max", "target", "classes", "shards"} : p[k] > 0
    /\ p.min <= p.max

ActiveEntries(p, count) == SaturatingProduct(SaturatingProduct(count, p.classes), p.shards)
CeilDiv(n, d) == IF n % d = 0 THEN n \div d ELSE n \div d + 1

(* Both bounds are applied one after the other: the greatest wins. *)
PartitionCount(policy, count) ==
    LET p == PartitioningNormalized(policy)
        wanted == CeilDiv(ActiveEntries(p, count), p.target)
        atLeast == IF wanted < p.min THEN p.min ELSE wanted
    IN  IF count = 0 THEN 0 ELSE Smaller(atLeast, p.max)

-----------------------------------------------------------------------------
(* Assignments: [ok, partitions, directory], the directory a set of               *)
(* [pool, partition] with the index of the partition                            *)

Rejected == [ok |-> FALSE]
Accepted(partitions, directory) ==
    [ok |-> TRUE, partitions |-> partitions, directory |-> directory]

Location(pool, index) == [pool |-> pool, partition |-> index]
LocationsIn(partitions) ==
    {Location(pool.name, i) : <<i, pool>> \in
        UNION {{i} \X Range(partitions[i].config.pools) : i \in DOMAIN partitions}}
PoolCountOf(partitions) ==
    FoldSeq(LAMBDA p, n : Len(p.config.pools) + n, 0, partitions)

(* Each name is added once: a second one is refused, in whichever partition it is. *)
Distinct(directory, count) == Cardinality({l.pool : l \in directory}) = count

WithPools(partitions, pools, index) ==
    [i \in DOMAIN partitions |->
        [partitions[i] EXCEPT !.config.pools =
            @ \o SelectSeq(pools, LAMBDA pool : index[pool] = i)]]

PartitionsOnly(partitions) ==
    LET directory == LocationsIn(partitions) IN
    IF PartitionsValid(partitions) /\ Distinct(directory, PoolCountOf(partitions))
    THEN Accepted(partitions, directory) ELSE Rejected

(* HashString64 and BoundedIndexUint64: hash is a function of names. *)
SelectPartition(hash, name, count) == ((hash[name] * count) \div HashSpan) + 1

Automatic(pools, policy, hash) ==
    LET count == PartitionCount(policy, Len(pools))
        index == [pool \in Range(pools) |-> SelectPartition(hash, pool.name, count)]
        empty == [i \in 1 .. count |->
                    [name |-> <<"partition", i - 1>>,
                     config |-> [DefaultPartition EXCEPT !.name = <<"partition", i - 1>>]]]
    IN  IF /\ PoolsValid(pools) /\ policy.mode = "auto"
           /\ \A pool \in Range(pools) : pool.partition = ""
        THEN Accepted(WithPools(empty, pools, index),
                      {Location(pool.name, index[pool]) : pool \in Range(pools)})
        ELSE Rejected

Explicit(pools, partitions, policy) ==
    LET index == [pool \in Range(pools) |->
                     CHOOSE i \in DOMAIN partitions : partitions[i].name = pool.partition]
        assigned == WithPools(partitions, pools, index)
        directory == LocationsIn(partitions)
                         \cup {Location(pool.name, index[pool]) : pool \in Range(pools)}
    IN  IF policy.mode # "explicit" \/ ~PoolsValid(pools) \/ ~PartitionsValid(partitions) THEN Rejected
        ELSE IF \E pool \in Range(pools) : pool.partition \notin Range(NamesOf(partitions)) THEN Rejected
        ELSE IF Distinct(directory, Len(pools) + PoolCountOf(partitions)) /\ PartitionsValid(assigned)
        THEN Accepted(assigned, directory) ELSE Rejected

(* PoolGroupConfig: [policy, partitioning, pools, partitions] *)
GroupNormalized(c) ==
    [c EXCEPT !.policy = GroupPolicyNormalized(@), !.partitioning = PartitioningNormalized(@),
              !.pools = [i \in DOMAIN @ |-> PoolNormalized(@[i])],
              !.partitions = [i \in DOMAIN @ |-> GroupPartitionNormalized(@[i])]]

Assignments(config, hash) ==
    LET c == GroupNormalized(config) IN
    IF ~PartitioningValid(c.partitioning) THEN Rejected
    ELSE IF c.pools = <<>> /\ c.partitions = <<>> THEN Rejected
    ELSE IF c.pools = <<>> THEN PartitionsOnly(c.partitions)
    ELSE IF c.partitions = <<>> THEN Automatic(c.pools, c.partitioning, hash)
    ELSE Explicit(c.pools, c.partitions, c.partitioning)

GroupValid(config, hash) ==
    GroupPolicyValid(config.policy) /\ Assignments(config, hash).ok
=============================================================================
