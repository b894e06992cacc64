----------------------------- MODULE CreditRules -----------------------------
(* The arithmetic of class budgets and shard credits (class_budget.go,           *)
(* shard_credit.go) and what their snapshots answer (shard.go, class_state.go,    *)
(* pool_snapshot.go).  ClassCredit publishes and reads these values step by step; *)
(* here they are whole.                                                        *)
(*                                                                             *)
(* A limit, an amount and a usage are [buffers, bytes].                          *)
EXTENDS Integers, SequencesExt, FiniteSetsExt

CONSTANT MaxWord  \* the largest uint64

Pair(buffers, bytes) == [buffers |-> buffers, bytes |-> bytes]
Nothing == Pair(0, 0)

-----------------------------------------------------------------------------
(* Shard credit *)

IsZero(limit)    == limit = Nothing
IsPartial(limit) == (limit.buffers = 0) # (limit.bytes = 0)
IsEnabled(limit) == limit.buffers > 0 /\ limit.bytes > 0
IsConsistent(limit) == IsZero(limit) \/ (~IsPartial(limit) /\ limit.bytes >= limit.buffers)

(* A stored limit that fails validate stops the program. *)
Validated(limit) == IsConsistent(limit)

(* The first reason that holds decides. *)
Reasons(limit, usage, capacity) ==
    << <<"invalid capacity", capacity = 0>>,
       <<"inconsistent credit", ~IsConsistent(limit)>>,
       <<"no credit", ~IsEnabled(limit)>>,
       <<"buffer credit exhausted", usage.buffers >= limit.buffers>>,
       <<"byte credit exhausted", usage.bytes >= limit.bytes>>,
       <<"byte accounting overflow", capacity > MaxWord - usage.bytes>>,
       <<"byte credit exhausted", usage.bytes + capacity > limit.bytes>>,
       <<"accept", TRUE>> >>
Decision(limit, usage, capacity) ==
    SelectSeq(Reasons(limit, usage, capacity), LAMBDA r : r[2])[1][1]
AllowsRetain(decision) == decision = "accept"

(* What is left of a credit, and what is kept beyond it. *)
Above(n, m) == IF n > m THEN n - m ELSE 0
Remaining(limit, usage) ==
    IF IsConsistent(limit) /\ IsEnabled(limit)
    THEN Pair(Above(limit.buffers, usage.buffers), Above(limit.bytes, usage.bytes))
    ELSE Nothing
Overage(limit, usage) ==
    IF ~IsConsistent(limit) \/ IsZero(limit) THEN usage
    ELSE Pair(Above(usage.buffers, limit.buffers), Above(usage.bytes, limit.bytes))
IsOverTarget(limit, usage) == Overage(limit, usage) # Nothing

(* The capacity that buffers of a class need, and what is kept beyond it. *)
NominalBytes(buffers, size) == IF buffers * size > MaxWord THEN MaxWord ELSE buffers * size
CapacityWaste(usage, size) == Above(usage.bytes, NominalBytes(usage.buffers, size))

(* The public snapshot of a shard knows the size of its class, and asks for more. *)
SnapshotConsistent(limit, size) ==
    \/ IsZero(limit)
    \/ ~IsPartial(limit) /\ size # 0 /\ limit.bytes >= NominalBytes(limit.buffers, size)
IsOverCredit(limit, size, usage) ==
    IF ~SnapshotConsistent(limit, size) \/ ~IsEnabled(limit) THEN usage # Nothing
    ELSE usage.buffers > limit.buffers \/ usage.bytes > limit.bytes

-----------------------------------------------------------------------------
(* Class budget: [size, assigned, buffers, bytes, remainder] *)

ClassLimit(size, assigned) ==
    LET buffers == assigned \div size IN
    [size |-> size, assigned |-> assigned, buffers |-> buffers,
     bytes |-> buffers * size, remainder |-> assigned - buffers * size]

ClassLimitValid(l) ==
    /\ l.size # 0 /\ l.buffers <= MaxWord \div l.size
    /\ l.bytes = l.buffers * l.size /\ l.remainder < l.size
    /\ l.bytes <= MaxWord - l.remainder /\ l.assigned = l.bytes + l.remainder

IsEffective(l) == l.buffers > 0 /\ l.bytes > 0
CreditOf(l) == IF IsEffective(l) THEN Pair(l.buffers, l.bytes) ELSE Nothing

(* Snapshots of a class, internal and public *)
IsOverBudget(l, usage) ==
    IF IsEffective(l) THEN usage.buffers > l.buffers \/ usage.bytes > l.bytes
    ELSE usage # Nothing

(* What a trim takes for excess, of a class and of a shard: bytes only *)
OverTargetBytes(l, usage) ==
    IF IsEffective(l) THEN Above(usage.bytes, l.bytes) ELSE usage.bytes
ShardOverTargetBytes(limit, usage) ==
    IF IsEnabled(limit) THEN Above(usage.bytes, limit.bytes) ELSE usage.bytes

(* classShardCreditPlan *)
CreditPlan(l, shards) ==
    [size |-> l.size, shards |-> shards, buffers |-> l.buffers, bytes |-> l.bytes,
     base |-> l.buffers \div shards, extra |-> l.buffers % shards]
CreditForShard(p, index) ==
    LET buffers == p.base + IF index < p.extra THEN 1 ELSE 0 IN
    Pair(buffers, buffers * p.size)
Credits(p) == [index \in 0 .. p.shards - 1 |-> CreditForShard(p, index)]
TotalOf(amounts) ==
    Pair(MapThenSumSet(LAMBDA i : amounts[i].buffers, DOMAIN amounts),
         MapThenSumSet(LAMBDA i : amounts[i].bytes, DOMAIN amounts))
TotalCredit(p) == TotalOf(Credits(p))

=============================================================================
