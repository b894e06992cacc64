----------------------------- MODULE MCPoolGroup -----------------------------
(* Two partitions, three Pools and three schedulers; and the configurations that   *)
(* groups are built from, over small sets of names, sizes and hashes.             *)
EXTENDS PoolGroup, SequencesExt

CONSTANTS k1, k2

PartitionSchedulers == <<k1, k2>>

(* Two Pools in the first partition, one in the second *)
Owner == <<1, 1, 2>>

Config == INSTANCE GroupConfig WITH MaxSize <- 2 ^ 30, MaxClasses <- 4, MaxProcs <- 6,
                                    ShardsPerClass <- 2, HashSpan <- 4

-----------------------------------------------------------------------------
(* Pools with and without a partition, one that is invalid *)
APool(name, partition, ok) ==
    [name |-> name, partition |-> partition, priority |-> "unset", ok |-> ok]
SomePools == {APool(n, p, TRUE) : n \in {"", "p", "q"}, p \in {"", "a", "b"}}
                 \cup {APool("p", "", FALSE)}

APartition(name, configured, pools) ==
    [name |-> name, config |-> [Config!DefaultPartition EXCEPT !.name = configured,
                                                               !.pools = pools]]
SomePartitions == {APartition(n, "", s) : n \in {"a", "b"},
                                          s \in {<<>>, <<APool("p", "", TRUE)>>}}
                      \cup {APartition("a", "b", <<>>)}

(* What the group promises of every configuration that it accepts: each Pool is in one   *)
(* partition, the one its place says and that the directory finds for Acquire and        *)
(* Release; a Pool without a place went where its hash says, to one of between the       *)
(* least and the greatest number of partitions (partition_assignment.go:234-270, 292-312, *)
(* 334-436).                                                                         *)
PoolNamesIn(partition) == {pool.name : pool \in Range(partition.config.pools)}
WellAssigned(pools, parts, a) ==
    LET names == {p.name : p \in Range(pools)} \cup UNION {PoolNamesIn(p) : p \in Range(parts)}
    IN  /\ {l.pool : l \in a.directory} = names
        /\ Cardinality(a.directory) = Cardinality(names)
        /\ \A l \in a.directory, i \in DOMAIN a.partitions :
              l.pool \in PoolNamesIn(a.partitions[i]) <=> i = l.partition
        /\ \A pool \in Range(pools), l \in a.directory :
              pool.name = l.pool /\ pool.partition # "" =>
                  a.partitions[l.partition].name = pool.partition

(* What it refuses, said without the order of the checks *)
Acceptable(pools, parts, mode) ==
    LET names == [i \in DOMAIN pools |-> pools[i].name]
        within == UNION {PoolNamesIn(p) : p \in Range(parts)}
        ofPartitions == [i \in DOMAIN parts |-> parts[i].name]
    IN  /\ pools # <<>> \/ parts # <<>>
        /\ \A p \in Range(pools) : p.name # "" /\ p.ok /\ p.name \notin within
        /\ IsInjective(names) /\ IsInjective(ofPartitions)
        /\ \A p \in Range(parts) : p.config.name = ""
        /\ \A i, j \in DOMAIN parts :
              i # j => PoolNamesIn(parts[i]) \cap PoolNamesIn(parts[j]) = {}
        /\ pools # <<>> =>
              IF parts = <<>>
              THEN mode # "explicit" /\ \A p \in Range(pools) : p.partition = ""
              ELSE mode = "explicit" /\ \A p \in Range(pools) : p.partition \in Range(ofPartitions)

ASSUME AssignmentsAreComplete ==
    \A pools \in SeqOf(SomePools, 2), parts \in SeqOf(SomePartitions, 2),
       mode \in {"unset", "auto", "explicit"} :
       \A hash \in IF parts = <<>> THEN [{"", "p", "q"} -> {0, 1, 3}]
                   ELSE {[n \in {"", "p", "q"} |-> 0]} :
           LET a == Config!Assignments(
                        [pools |-> pools, partitions |-> parts,
                         partitioning |-> [Config!Unset EXCEPT !.mode = mode, !.min = 2],
                         policy |-> [coordinator |-> [enabled |-> FALSE, interval |-> 0]]], hash)
           IN  /\ a.ok <=> Acceptable(pools, parts, mode)
               /\ a.ok => WellAssigned(pools, parts, a)

(* The number of partitions stays within its bounds, grows with the Pools, and has the   *)
(* active entries of each partition within the target unless a bound forbids it.         *)
ASSUME PartitionCountIsBounded ==
    \A min, max \in 1 .. 4, target \in {1, 5, 16} :
        LET p == [Config!Unset EXCEPT !.min = min, !.max = max, !.target = target]
        IN  Config!PartitioningValid(p) =>
              \A n \in 1 .. 6 :
                  LET count == Config!PartitionCount(p, n)
                      entries == Config!ActiveEntries(Config!PartitioningNormalized(p), n)
                  IN  /\ count \in min .. max
                      /\ count <= Config!PartitionCount(p, n + 1)
                      /\ entries <= count * target \/ count = max
                      /\ entries > (count - 1) * target \/ count = min

(* A policy that is normalized stays as it is, is as valid as it was, and the policies    *)
(* that a partition and its registry start from are valid.                             *)
Scheduling == [enabled : BOOLEAN, interval : {0, 1, 3}]
Trimming == [enabled : BOOLEAN, pools : {0, 2}, buffers : {0, 3}, bytes : {0, 5}, classes : {0, 1},
             shards : {0, 1}, onPressure : {FALSE}, onShrink : {FALSE}]
Owning == [mode : {"unset", "none", "accounting", "strict"}, bytes : BOOLEAN, buffers : BOOLEAN,
           double : BOOLEAN, growth : {0, 15000}]
ASSUME NormalizationIsStable ==
    /\ \A s \in Scheduling, t \in Trimming :
          LET p == [Config!DefaultPartition.policy EXCEPT !.controller = s, !.trim = t]
              normalized == Config!PartitionPolicyNormalized(p)
          IN  /\ Config!PartitionPolicyNormalized(normalized) = normalized
              /\ Config!PartitionPolicyValid(p) <=>
                    (s.enabled \/ s.interval = 0) /\ (t.enabled => t.bytes > 0)
    /\ \A o \in Owning :
          LET normalized == Config!OwnershipNormalized(o) IN
          /\ Config!OwnershipNormalized(normalized) = normalized
          /\ Config!OwnershipValidForLeases(normalized) <=> o.mode # "none"
          /\ o.mode # "none" => normalized.bytes /\ normalized.buffers /\ normalized.double
    /\ Config!PartitionValid(Config!DefaultPartition)
    /\ Config!PartitioningValid(Config!Unset)
    /\ Config!OwnershipValidForLeases(Config!AccountingOwnership)

(* Thresholds that are valid and set are ordered, so that a level is never skipped.        *)
ASSUME ThresholdsAreOrdered ==
    \A medium, high, critical \in 0 .. 3 :
        LET p == [enabled |-> TRUE, medium |-> medium, high |-> high, critical |-> critical] IN
        Config!ThresholdsValid(p) <=>
            /\ {medium, high, critical} # {0}
            /\ LET set == SelectSeq(<<medium, high, critical>>, LAMBDA x : x # 0)
               IN  \A i \in 1 .. Len(set) - 1 : set[i] <= set[i + 1]
=============================================================================
