----------------------------- MODULE PolicyRules -----------------------------
(* The policy of a Pool as data (policy.go) and what makes it valid             *)
(* (policy_validate.go, pool_policy_support.go).  PolicyProfiles has the         *)
(* defaults, and PoolDecisions what a Pool decides from its policy.              *)
(*                                                                             *)
(* Nothing here has state.  Sizes count units of 256 bytes, the smallest class  *)
(* of the profiles, of which all their sizes are multiples; ratios count basis  *)
(* points and intervals seconds.  A field is a number, a Boolean or the name of *)
(* its enumeration value; "unset" is the zero value of every enumeration.       *)
EXTENDS Integers, Sequences

CONSTANTS MaxSize,      \* largest size or count that a word holds
          MaxClasses    \* maxClassTableClasses

ASSUME WordAssumption == MaxSize \in Nat \ {0} /\ MaxClasses \in Nat \ {0}

Smaller(a, b) == IF a < b THEN a ELSE b

(* poolSaturatingProduct, poolSaturatingAdd *)
SaturatingProduct(l, r) ==
    IF l = 0 \/ r = 0 THEN 0 ELSE IF l > MaxSize \div r THEN MaxSize ELSE l * r
SaturatingAdd(l, r) == IF l > MaxSize - r THEN MaxSize ELSE l + r

-----------------------------------------------------------------------------
(* Sections *)

RetentionPolicy(soft, hard, buffers, request, capacity, classBytes, classBuffers, shardBytes, shardBuffers) ==
    [soft |-> soft, hard |-> hard, buffers |-> buffers, request |-> request,
     capacity |-> capacity, classBytes |-> classBytes, classBuffers |-> classBuffers,
     shardBytes |-> shardBytes, shardBuffers |-> shardBuffers]

ShardPolicy(selection, shards, slots, segment, acquire, return) ==
    [selection |-> selection, shards |-> shards, slots |-> slots,
     segment |-> segment, acquire |-> acquire, return |-> return]

AdmissionPolicy(zeroSize, returned, oversized, unsupported, mismatch, credit, full, zeroRetained, zeroDropped) ==
    [zeroSize |-> zeroSize, returned |-> returned, oversized |-> oversized,
     unsupported |-> unsupported, mismatch |-> mismatch, credit |-> credit,
     full |-> full, zeroRetained |-> zeroRetained, zeroDropped |-> zeroDropped]

LevelPolicy(retention, trim, capacity, dropAbove, disable, keepSmall) ==
    [retention |-> retention, trim |-> trim, capacity |-> capacity,
     dropAbove |-> dropAbove, disable |-> disable, keepSmall |-> keepSmall]

PressurePolicy(enabled, medium, high, critical) ==
    [enabled |-> enabled, medium |-> medium, high |-> high, critical |-> critical]

TrimPolicy(enabled, interval, fullScan, buffers, bytes, pools, classes, shards, onShrink, onPressure, onClose) ==
    [enabled |-> enabled, interval |-> interval, fullScan |-> fullScan,
     buffers |-> buffers, bytes |-> bytes, pools |-> pools, classes |-> classes,
     shards |-> shards, onShrink |-> onShrink, onPressure |-> onPressure,
     onClose |-> onClose]

OwnershipPolicy(mode, bytes, buffers, double, growth) ==
    [mode |-> mode, bytes |-> bytes, buffers |-> buffers, double |-> double,
     growth |-> growth]

(* NewPolicyFromSections *)
Policy(retention, classes, shards, admission, pressure, trim, ownership) ==
    [retention |-> retention, classes |-> classes, shards |-> shards,
     admission |-> admission, pressure |-> pressure, trim |-> trim,
     ownership |-> ownership]

(* The zero sections: what a caller leaves out. *)
NoRetention == RetentionPolicy(0, 0, 0, 0, 0, 0, 0, 0, 0)
NoShards    == ShardPolicy("unset", 0, 0, 0, 0, 0)
NoAdmission == AdmissionPolicy("unset", "unset", "unset", "unset", "unset", "unset",
                               "unset", FALSE, FALSE)
NoLevel     == LevelPolicy(0, 0, 0, 0, FALSE, FALSE)
NoPressure  == PressurePolicy(FALSE, NoLevel, NoLevel, NoLevel)
NoTrim      == TrimPolicy(FALSE, 0, 0, 0, 0, 0, 0, 0, FALSE, FALSE, FALSE)
NoOwnership == OwnershipPolicy("unset", FALSE, FALSE, FALSE, 0)
NoPolicy    == Policy(NoRetention, <<>>, NoShards, NoAdmission, NoPressure, NoTrim,
                      NoOwnership)

SelectionModes == {"single", "round_robin", "random", "processor_inspired", "affinity"}
ZeroSizePolicies == {"smallest_class", "empty_buffer", "reject"}
ReturnedBufferPolicies == {"admit", "drop"}
AdmissionActions == {"drop", "ignore", "error"}
OwnershipModes == {"none", "accounting", "strict"}
PressureLevels == {"normal", "medium", "high", "critical"}

One == 10000    \* PolicyRatioOne

-----------------------------------------------------------------------------
(* Validation of one section *)

RetentionValid(r) ==
    /\ \A field \in DOMAIN r : r[field] > 0
    /\ r.soft <= r.hard
    /\ r.capacity <= r.hard
    /\ r.classBytes <= r.hard
    /\ r.classBuffers <= r.buffers
    /\ r.shardBytes <= r.classBytes
    /\ r.shardBuffers <= r.classBuffers

ClassesValid(sizes) ==
    /\ sizes # <<>> /\ Len(sizes) <= MaxClasses
    /\ \A i \in DOMAIN sizes : sizes[i] > 0
    /\ \A i \in 1 .. Len(sizes) - 1 : sizes[i] < sizes[i + 1]

ShardsValid(s) ==
    /\ s.selection \in SelectionModes
    /\ s.shards > 0 /\ s.slots > 0 /\ s.segment > 0
    /\ s.segment <= s.slots
    /\ s.acquire >= 0
    /\ s.return = 0

AdmissionValid(a) ==
    /\ a.zeroSize \in ZeroSizePolicies
    /\ a.returned \in ReturnedBufferPolicies
    /\ {a.oversized, a.unsupported, a.mismatch, a.credit, a.full} \subseteq AdmissionActions

LevelValid(l) ==
    \/ l = NoLevel
    \/ /\ l.retention <= One
       /\ l.trim > 0
       /\ (l.capacity > 0 /\ l.dropAbove > 0) => l.dropAbove <= l.capacity

(* validatePressureLevelOrdering: worse pressure retains less and trims more. *)
LevelsOrdered(p) ==
    /\ p.medium.retention >= p.high.retention /\ p.high.retention >= p.critical.retention
    /\ p.medium.trim <= p.high.trim /\ p.high.trim <= p.critical.trim

PressureValid(p) ==
    \/ p = NoPressure
    \/ /\ p.enabled
       /\ \A l \in {p.medium, p.high, p.critical} : l # NoLevel /\ LevelValid(l)
       /\ LevelsOrdered(p)

TrimValid(t) ==
    \/ t = NoTrim
    \/ /\ t.enabled
       /\ t.interval > 0 /\ t.fullScan >= t.interval
       /\ \A limit \in {t.buffers, t.bytes, t.pools, t.classes, t.shards} : limit > 0

OwnershipValid(o) ==
    \/ o = NoOwnership
    \/ o.mode = "none" /\ ~(o.bytes \/ o.buffers \/ o.double)
    \/ o.mode \in {"accounting", "strict"} /\ o.growth >= One

-----------------------------------------------------------------------------
(* Consistency of the sections with each other *)

Smallest(sizes) == sizes[1]
Largest(sizes) == sizes[Len(sizes)]

ClassesFitRetention(r, sizes) ==
    /\ r.request <= Largest(sizes)
    /\ r.capacity >= Smallest(sizes)
    /\ \A limit \in {r.capacity, r.classBytes, r.shardBytes} : Largest(sizes) <= limit

(* policyUint64Product refuses a product that a word does not hold. *)
ShardsFitRetention(r, s) ==
    /\ r.shardBuffers <= s.slots
    /\ s.shards <= MaxSize \div s.slots
    /\ r.classBuffers <= s.shards * s.slots

PressureFitsRetention(r, p) ==
    \A l \in {p.medium, p.high, p.critical} :
        l.capacity <= r.capacity /\ l.dropAbove <= r.capacity

PolicyValid(p) ==
    /\ p # NoPolicy
    /\ RetentionValid(p.retention) /\ ClassesValid(p.classes) /\ ShardsValid(p.shards)
    /\ AdmissionValid(p.admission) /\ PressureValid(p.pressure) /\ TrimValid(p.trim)
    /\ OwnershipValid(p.ownership)
    /\ ClassesFitRetention(p.retention, p.classes)
    /\ ShardsFitRetention(p.retention, p.shards)
    /\ PressureFitsRetention(p.retention, p.pressure)

(* validatePoolSupportedPolicy: a standalone Pool has no leases. *)
Modes == {"standalone", "partition_owned"}
PolicySupported(p, mode) ==
    /\ mode = "standalone" =>
          /\ p.ownership.mode \in {"unset", "none"}
          /\ ~(p.ownership.bytes \/ p.ownership.buffers \/ p.ownership.double)
    /\ p.shards.return = 0
    /\ p.shards.selection # "affinity"
=============================================================================
