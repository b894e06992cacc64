------------------------------ MODULE Counters ------------------------------
(* The counters of shards, classes and Pools, what they record, and what is made   *)
(* of them: totals, snapshots, windows and ratios (shard_counters.go,             *)
(* class_counters.go, pool_counters.go, pool_snapshot.go, partition_window.go,    *)
(* pool_metrics.go, internal/atomicx/counters.go).  Nothing here has state.       *)
(*                                                                             *)
(* Events are kept apart by kind.  A kind counts what happened and its bytes,     *)
(* which are written and read together here: no property relates them.           *)
EXTENDS Integers, SequencesExt, FiniteSetsExt

CONSTANT Modulus   \* a counter wraps at 2^64

ASSUME ModulusAssumption == Modulus \in Nat \ {0, 1}

(* snapshot loads them in this order. *)
LoadGroups == <<{"get", "hit", "miss", "allocation"}, {"put", "retain", "drop"},
                {"trimOperation", "trim", "clearOperation", "clear"}>>
Kinds == UNION Range(LoadGroups)

Amount(n, bytes) == [count |-> n, bytes |-> bytes]
Nothing == Amount(0, 0)
One(bytes) == Amount(1, bytes)

Plus(a, b)  == Amount(a.count + b.count, a.bytes + b.bytes)
Minus(a, b) == Amount(a.count - b.count, a.bytes - b.bytes)
Total(f)    == Amount(SumFunctionOnSet([x \in DOMAIN f |-> f[x].count], DOMAIN f),
                      SumFunctionOnSet([x \in DOMAIN f |-> f[x].bytes], DOMAIN f))

(* Uint64Counter wraps: to add modulo 2^64 and to load modulo 2^64 what was added   *)
(* is the same, so counters hold what was added and Load wraps it.                *)
Load(a) == Amount(a.count % Modulus, a.bytes % Modulus)

-----------------------------------------------------------------------------
(* classCounters *)

NewClassCounters == [k \in Kinds |-> Nothing]

Add(c, kind, amount) == [c EXCEPT ![kind] = Plus(@, amount)]

RecordGet(c, requested)       == Add(c, "get", One(requested))
RecordHit(c, capacity)        == Add(c, "hit", One(capacity))
RecordMiss(c)                 == Add(c, "miss", One(0))
RecordAllocation(c, capacity) == Add(c, "allocation", One(capacity))
RecordPut(c, capacity)        == Add(c, "put", One(capacity))
RecordRetain(c, capacity)     == Add(c, "retain", One(capacity))
RecordDrop(c, capacity)       == Add(c, "drop", One(capacity))
RecordTrim(c, removed)        == Add(Add(c, "trimOperation", One(0)), "trim", removed)
RecordClear(c, removed)       == Add(Add(c, "clearOperation", One(0)), "clear", removed)

-----------------------------------------------------------------------------
(* shardCounters: the same events, and gauges of what the shard holds.  A gauge     *)
(* panics instead of going below zero.                                           *)

NewShardCounters == [events |-> NewClassCounters, current |-> Nothing]

Event(c, events) == [c EXCEPT !.events = events]
Stored(c, events, amount)  == [events |-> events, current |-> Plus(c.current, amount)]
Removed(c, events, amount) == [events |-> events, current |-> Minus(c.current, amount)]

ShardGet(c, requested)       == Event(c, RecordGet(c.events, requested))
ShardHitKept(c, capacity)    == Event(c, RecordHit(c.events, capacity))
ShardHit(c, capacity)        == Removed(c, RecordHit(c.events, capacity), One(capacity))
ShardMiss(c)                 == Event(c, RecordMiss(c.events))
ShardAllocation(c, capacity) == Event(c, RecordAllocation(c.events, capacity))
ShardPut(c, capacity)        == Event(c, RecordPut(c.events, capacity))
ShardRetain(c, capacity)     == Stored(c, RecordRetain(c.events, capacity), One(capacity))
ShardDrop(c, capacity)       == Event(c, RecordDrop(c.events, capacity))
ShardTrim(c, removed)        == Removed(c, RecordTrim(c.events, removed), removed)
ShardClear(c, removed)       == Removed(c, RecordClear(c.events, removed), removed)

-----------------------------------------------------------------------------
(* poolOwnerCounters: every put, and the drops that no class has seen *)

DropReasons == {"closed_pool", "returned_buffers_disabled", "pressure_retention_disabled",
                "oversized", "pressure_capacity_threshold", "policy_contraction",
                "unsupported_class", "invalid_policy"}
NoReasons == [r \in DropReasons |-> 0]

(* recordDrop: a reason out of range counts as an invalid policy. *)
CountedReason(reason) == IF reason \in DropReasons THEN reason ELSE "invalid_policy"

NewOwnerCounters == [put |-> Nothing, drop |-> Nothing, reasons |-> NoReasons]

ReasonsAdd(left, right) == [r \in DropReasons |-> (left[r] + right[r]) % Modulus]

-----------------------------------------------------------------------------
(* Totals of a Pool *)

(* newPoolCountersFromClass: what a class counts, and what its shards hold. *)
PoolCounters(events, current, reasons) ==
    [events |-> events, current |-> current, reasons |-> reasons]
FromClass(events, current) ==
    PoolCounters([k \in Kinds |-> Load(events[k])], current, NoReasons)
FromShard(shard) ==
    PoolCounters([k \in Kinds |-> Load(shard.events[k])], Load(shard.current), NoReasons)

(* poolCountersAdd, one after the other: to wrap each sum or the last is the same. *)
PoolCountersSum(all) ==
    PoolCounters([k \in Kinds |-> Load(Total([i \in DOMAIN all |-> all[i].events[k]]))],
                 Load(Total([i \in DOMAIN all |-> all[i].current])), NoReasons)

(* The puts are those of the owner, which has seen each; its drops come on top. *)
OwnerEvents(events, owner) ==
    [events EXCEPT !["put"] = Load(owner.put), !["drop"] = Load(Plus(@, owner.drop))]
ApplyOwner(counters, owner) ==
    [counters EXCEPT !.events = OwnerEvents(@, owner),
                     !.reasons = ReasonsAdd(@, owner.reasons)]

(* poolCounterSample: what the classes count, and then the owner *)
PoolTotals(classes, owner) ==
    ApplyOwner(PoolCountersSum([i \in DOMAIN classes |-> FromClass(classes[i], Nothing)]), owner)

ReuseAttempts(counters) ==
    (counters.events["hit"].count + counters.events["miss"].count) % Modulus
PutOutcomes(counters) ==
    (counters.events["retain"].count + counters.events["drop"].count) % Modulus

-----------------------------------------------------------------------------
(* Windows *)

(* NewUint64CounterDelta: modulo 2^64 *)
WrappedDelta(previous, current) ==
    Amount((current.count - previous.count) % Modulus,
           (current.bytes - previous.bytes) % Modulus)

(* NewCounterDelta: a counter that went down was reset, or has wrapped. *)
ResetDelta(previous, current) == IF current >= previous THEN current - previous ELSE current

(* classCountersSnapshot.deltaSince *)
ClassDeltaAfterReset(previous, current) ==
    [k \in Kinds |-> LET p == Load(previous[k]) c == Load(current[k]) IN
                     Amount(ResetDelta(p.count, c.count), ResetDelta(p.bytes, c.bytes))]
ClassDelta(previous, current) ==
    [k \in Kinds |-> WrappedDelta(Load(previous[k]), Load(current[k]))]

(* newPoolPartitionPoolCounterDelta: no trims, no clears, not all reasons *)
PoolDeltaKinds == {"get", "hit", "miss", "allocation", "put", "retain", "drop"}
PoolDeltaReasons ==
    DropReasons \ {"pressure_retention_disabled", "pressure_capacity_threshold",
                   "policy_contraction"}
PoolDelta(previous, current) ==
    [events |-> [k \in PoolDeltaKinds |->
                    Amount(ResetDelta(previous.events[k].count, current.events[k].count),
                           ResetDelta(previous.events[k].bytes, current.events[k].bytes))],
     reasons |-> [r \in PoolDeltaReasons |->
                    ResetDelta(previous.reasons[r], current.reasons[r])]]

(* IsZero: what makes a Pool quiet. *)
PoolDeltaIsZero(delta) ==
    /\ \A k \in PoolDeltaKinds : delta.events[k].count = 0
    /\ delta.events["put"].bytes = 0 /\ delta.events["retain"].bytes = 0
    /\ delta.events["drop"].bytes = 0
    /\ \A r \in PoolDeltaReasons : delta.reasons[r] = 0

-----------------------------------------------------------------------------
(* Ratios *)

RatioScale == 10000

(* poolRatio *)
PoolRatio(numerator, denominator) ==
    IF denominator = 0 \/ numerator = 0 THEN 0
    ELSE IF numerator >= denominator THEN RatioScale
    ELSE (numerator * RatioScale) \div denominator

(* newPoolMetricsFromCounters *)
Metrics(counters) ==
    [hitRatio    |-> PoolRatio(counters.events["hit"].count, ReuseAttempts(counters)),
     missRatio   |-> PoolRatio(counters.events["miss"].count, ReuseAttempts(counters)),
     retainRatio |-> PoolRatio(counters.events["retain"].count, PutOutcomes(counters)),
     dropRatio   |-> PoolRatio(counters.events["drop"].count, PutOutcomes(counters))]
=============================================================================
