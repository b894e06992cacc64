---------------------------- MODULE MCClassCredit ----------------------------
(* A class of two-byte buffers on two shards.  The targets fund 0, 1, 3 and 5      *)
(* buffers, so that shares grow and shrink unevenly, one share exceeds the       *)
(* bucket, and one target leaves a remainder of a byte.                         *)
EXTENDS ClassCredit

Rules == INSTANCE CreditRules WITH MaxWord <- 15

Limits == [buffers : 0 .. 4, bytes : 0 .. 9]
Usages == [buffers : 0 .. 4, bytes : 0 .. 15]

(* A class hands its shards exactly what its budget funds, in valid credits that differ   *)
(* by at most one buffer, the lowest shards first, and ClassCredit publishes these        *)
(* (class_budget.go:446-455).                                                        *)
ASSUME CreditsAddUp ==
    \A size \in 1 .. 4, bytes \in 0 .. 15, shards \in 1 .. 4 :
        LET limit == Rules!ClassLimit(size, bytes)
            plan == Rules!CreditPlan(limit, shards)
            credits == Rules!Credits(plan)
        IN  /\ Rules!ClassLimitValid(limit) /\ limit.assigned - limit.bytes < size
            /\ Rules!TotalCredit(plan) = Rules!CreditOf(limit)
            /\ \A i, j \in DOMAIN credits :
                  /\ Rules!Validated(credits[i])
                  /\ i < j => credits[i].buffers - credits[j].buffers \in {0, 1}
            /\ size = ClassSize /\ shards = NumShards =>
                  credits = [s \in Shards |-> CreditForShard(bytes, s)]

(* A return is accepted exactly when the shard stays within its credit with it, also when *)
(* the sum of bytes would wrap; the model's decision is this one; what remains allows for *)
(* the buffer, and a shard that is over its credit accepts none.                        *)
ASSUME DecisionsKeepCredit ==
    \A limit \in Limits, usage \in Usages, capacity \in 0 .. 15 :
        LET accepts == Rules!AllowsRetain(Rules!Decision(limit, usage, capacity))
            left == Rules!Remaining(limit, usage)
        IN  /\ accepts <=> /\ capacity > 0 /\ IsConsistent(limit)
                           /\ usage.buffers + 1 <= limit.buffers
                           /\ usage.bytes + capacity <= limit.bytes
            /\ capacity > 0 => (accepts <=> EvaluateRetain(usage, capacity, limit))
            /\ accepts => left.buffers >= 1 /\ left.bytes >= capacity
            /\ accepts => ~Rules!IsOverTarget(limit, usage)

(* What the code says of excess agrees: a shard that the credit calls over its target is  *)
(* the one that the public snapshot calls over its credit, when the credit was published  *)
(* as a whole; a class is over its budget only if one of its shards is over its credit,    *)
(* and a class or shard with excess bytes is over its target.                           *)
ASSUME ExcessAgrees ==
    \A size \in 1 .. 3, bytes \in {0, 2, 3, 5, 6, 7} :
        LET limit == Rules!ClassLimit(size, bytes)
            credits == Rules!Credits(Rules!CreditPlan(limit, 2))
            usages == [buffers : 0 .. 2, bytes : 0 .. 6]
        IN  /\ \A i \in {0, 1}, usage \in usages :
                  /\ Rules!IsOverTarget(credits[i], usage) <=> Rules!IsOverCredit(credits[i], size, usage)
                  /\ Rules!ShardOverTargetBytes(credits[i], usage) = Rules!Overage(credits[i], usage).bytes
            /\ \A u, v \in usages :
                  LET total == Rules!TotalOf(<<u, v>>) IN
                  /\ Rules!IsOverBudget(limit, total) =>
                        Rules!IsOverTarget(credits[0], u) \/ Rules!IsOverTarget(credits[1], v)
                  /\ Rules!OverTargetBytes(limit, total) > 0 => Rules!IsOverBudget(limit, total)
=============================================================================
