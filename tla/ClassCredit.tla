----------------------------- MODULE ClassCredit -----------------------------
(* The retention target of one size class and its distribution to the shards    *)
(* (class_budget.go, class_state.go, shard_credit.go, shard.go).                *)
(*                                                                             *)
(* A publisher, serialised by Pool.controlMu, stores the assigned bytes, the    *)
(* budget generation and then shard by shard the two halves of a credit and its *)
(* generation: five kinds of atomic store, none of them atomic with another.    *)
(* A return to a shard holds the shard mutex and loads the two halves one after *)
(* the other.  Gets, trims and clears hold the same mutex and are one action;   *)
(* a fallback get is a sequence of such gets on neighbouring shards.           *)
EXTENDS Integers, Sequences, FiniteSets, Functions

CONSTANTS NumShards,      \* shards of the class
          ClassSize,      \* bytes of a class buffer
          SlotLimit,      \* buffers the bucket of a shard can hold
          Capacities,     \* capacities of returned buffers
          Targets,        \* bytes a budget publication may assign to the class
          Generations,    \* publication generations callers may ask for
          MaxGeneration   \* bound of the model: no publication above it

ASSUME ClassAssumption ==
    /\ NumShards \in Nat \ {0} /\ ClassSize \in Nat \ {0} /\ SlotLimit \in Nat
    /\ Capacities \subseteq Nat /\ Targets \subseteq Nat /\ 0 \in Targets
    /\ Generations \subseteq Nat /\ MaxGeneration \in Nat

VARIABLES assigned,          \* classBudget.assignedBytes
          budgetGeneration,  \* classBudget.generation
          creditBuffers,     \* creditBuffers[s]: shardCredit.targetBuffers of shard s
          creditBytes,       \* shardCredit.targetBytes
          creditGeneration,  \* shardCredit.generation
          publisher,         \* progress of updateBudgetAtLeast
          held,              \* held[s][i]: bytes of the i oldest buffers of s
          retain,            \* retain[s]: the tryRetain that holds shard s.mu
          (* History, read by the properties only *)
          previous,          \* the assigned bytes before the last publication
          complete,          \* complete[s]: the last credit stored in full
          witness            \* complete[s] when retain[s] loaded TargetBytes

budgetVars == <<assigned, budgetGeneration, previous>>
creditVars == <<creditBuffers, creditBytes, creditGeneration, complete>>
shardVars  == <<held, retain, witness>>
classVars == <<budgetVars, creditVars, publisher, shardVars>>

Shards == 0 .. NumShards - 1

Limit == [buffers : Nat, bytes : Nat]
NoLimit == [buffers |-> 0, bytes |-> 0]

-----------------------------------------------------------------------------
(* Budget arithmetic *)

(* newClassBudgetLimit: the whole buffers that an assignment funds. *)
TargetBuffers(bytes) == bytes \div ClassSize

(* creditForShard: an even split, the remainder to the lowest shards. *)
ShardBuffers(t, s) == (t \div NumShards) + IF s < t % NumShards THEN 1 ELSE 0

CreditForShard(bytes, s) ==
    LET n == ShardBuffers(TargetBuffers(bytes), s)
    IN  [buffers |-> n, bytes |-> n * ClassSize]

(* publishGenerationAtLeast *)
AtLeast(current, minimum) == IF current < minimum THEN minimum ELSE current + 1

(* budgetPublicationGeneration *)
PublicationGeneration(current, target) ==
    IF target = 0 \/ current >= target THEN current + 1 ELSE target

(* evaluateClassRetain: buffers that cannot serve the class are refused. *)
ClassAdmitsAll(c) == c > 0
ClassAdmits(c) == c >= ClassSize

-----------------------------------------------------------------------------
(* Usage of a shard, the retained gauges (kept under the same mutex). *)
Buffers(h) == Len(h)
Bytes(h)   == IF h = <<>> THEN 0 ELSE h[Len(h)]

Usage(h) == [buffers |-> Buffers(h), bytes |-> Bytes(h)]
Fits(u, limit) == u.buffers <= limit.buffers /\ u.bytes <= limit.bytes

(* evaluateRetain on the pair of halves that was read. *)
IsConsistent(l) == (l.buffers = 0) = (l.bytes = 0) /\ l.bytes >= l.buffers
EvaluateRetain(u, c, l) ==
    /\ IsConsistent(l) /\ l.buffers > 0
    /\ u.buffers < l.buffers
    /\ u.bytes + c <= l.bytes

(* bucket.isFull, bucket.push *)
IsFull(h) == Buffers(h) >= SlotLimit
Pushed(h, c) == Append(h, Bytes(h) + c)

-----------------------------------------------------------------------------
Publishing == {"budgetGeneration", "targetBuffers", "targetBytes", "creditGeneration"}

Retaining(step, c, buffers, bytes) ==
    [step |-> step, capacity |-> c, buffers |-> buffers, bytes |-> bytes]
Free == Retaining("free", 0, 0, 0)

(* The publisher goes on with the given step, at the same shard. *)
PublishNext(step) ==
    publisher' = [step |-> step, shard |-> publisher.shard,
                  generation |-> publisher.generation]

(* publishInitialBudgets has published one assignment in full. *)
ClassInit ==
    /\ assigned \in Targets
    /\ budgetGeneration = 1
    /\ previous = assigned
    /\ complete = [s \in Shards |-> CreditForShard(assigned, s)]
    /\ creditBuffers = [s \in Shards |-> complete[s].buffers]
    /\ creditBytes = [s \in Shards |-> complete[s].bytes]
    /\ creditGeneration = [s \in Shards |-> 1]
    /\ publisher = [step |-> "idle", shard |-> 0, generation |-> 0]
    /\ held = [s \in Shards |-> <<>>]
    /\ retain = [s \in Shards |-> Free]
    /\ witness = [s \in Shards |-> NoLimit]

(* applyPlannedClassBudgetTargetsLocked chooses the generation; updateAtLeast     *)
(* of the budget stores the assignment first.                                   *)
StoreAssigned(bytes, g) ==
    /\ publisher.step = "idle"
    /\ PublicationGeneration(budgetGeneration, g) <= MaxGeneration
    /\ previous' = assigned
    /\ assigned' = bytes
    /\ publisher' = [step |-> "budgetGeneration", shard |-> 0,
                     generation |-> PublicationGeneration(budgetGeneration, g)]
    /\ UNCHANGED <<budgetGeneration, creditVars, shardVars>>

PublishBudgetGeneration ==
    /\ publisher.step = "budgetGeneration"
    /\ budgetGeneration' = AtLeast(budgetGeneration, publisher.generation)
    /\ publisher' = [step |-> "targetBuffers", shard |-> publisher.shard,
                     generation |-> budgetGeneration']
    /\ UNCHANGED <<assigned, previous, creditVars, shardVars>>

(* updateAtLeast of a shard credit: the two halves, then the generation. *)
GenerationStoredFirst ==
    LET s == publisher.shard IN
    /\ publisher.step = "targetBuffers"
    /\ creditBuffers' = [creditBuffers EXCEPT ![s] = CreditForShard(assigned, s).buffers]
    /\ creditGeneration' = [creditGeneration EXCEPT ![s] = publisher.generation]
    /\ PublishNext("targetBytes")
    /\ UNCHANGED <<budgetVars, creditBytes, complete, shardVars>>
StoreTargetBuffers ==
    LET s == publisher.shard IN
    /\ publisher.step = "targetBuffers"
    /\ creditBuffers' = [creditBuffers EXCEPT ![s] = CreditForShard(assigned, s).buffers]
    /\ PublishNext("targetBytes")
    /\ UNCHANGED <<budgetVars, creditBytes, creditGeneration, complete, shardVars>>

StoreTargetBytes ==
    LET s == publisher.shard IN
    /\ publisher.step = "targetBytes"
    /\ creditBytes' = [creditBytes EXCEPT ![s] = CreditForShard(assigned, s).bytes]
    /\ complete' = [complete EXCEPT ![s] = CreditForShard(assigned, s)]
    /\ PublishNext("creditGeneration")
    /\ UNCHANGED <<budgetVars, creditBuffers, creditGeneration, shardVars>>

LastShardLeftOut ==
    LET s == publisher.shard IN
    /\ publisher.step = "creditGeneration"
    /\ creditGeneration' =
          [creditGeneration EXCEPT ![s] = AtLeast(creditGeneration[s], publisher.generation)]
    /\ publisher' = IF s + 2 < NumShards
                    THEN [step |-> "targetBuffers", shard |-> s + 1,
                          generation |-> publisher.generation]
                    ELSE [step |-> "idle", shard |-> 0, generation |-> 0]
    /\ UNCHANGED <<budgetVars, creditBuffers, creditBytes, complete, shardVars>>
PublishCreditGeneration ==
    LET s == publisher.shard IN
    /\ publisher.step = "creditGeneration"
    /\ creditGeneration' =
          [creditGeneration EXCEPT ![s] = AtLeast(creditGeneration[s], publisher.generation)]
    /\ publisher' = IF s + 1 < NumShards
                    THEN [step |-> "targetBuffers", shard |-> s + 1,
                          generation |-> publisher.generation]
                    ELSE [step |-> "idle", shard |-> 0, generation |-> 0]
    /\ UNCHANGED <<budgetVars, creditBuffers, creditBytes, complete, shardVars>>

UpdateBudgetAtLeast ==
    \/ \E bytes \in Targets, g \in Generations : StoreAssigned(bytes, g)
    \/ PublishBudgetGeneration
    \/ StoreTargetBuffers
    \/ StoreTargetBytes
    \/ PublishCreditGeneration

-----------------------------------------------------------------------------
(* tryRetain, after class admission: lock, load, load, decide and unlock. *)

LockForRetain(s, c) ==
    /\ retain[s].step = "free" /\ ClassAdmits(c)
    /\ retain' = [retain EXCEPT ![s] = Retaining("loadBuffers", c, 0, 0)]
    /\ UNCHANGED <<budgetVars, creditVars, publisher, held, witness>>

LoadTargetBuffers(s) ==
    /\ retain[s].step = "loadBuffers"
    /\ retain' = [retain EXCEPT ![s] =
                     Retaining("loadBytes", retain[s].capacity, creditBuffers[s], 0)]
    /\ UNCHANGED <<budgetVars, creditVars, publisher, held, witness>>

LoadTargetBytes(s) ==
    /\ retain[s].step = "loadBytes"
    /\ retain' = [retain EXCEPT ![s] =
                     Retaining("decide", retain[s].capacity, retain[s].buffers, creditBytes[s])]
    /\ witness' = [witness EXCEPT ![s] = complete[s]]
    /\ UNCHANGED <<budgetVars, creditVars, publisher, held>>

(* A refused buffer, or one the bucket has no slot for, is dropped. *)
Decide(s) ==
    /\ retain[s].step = "decide"
    /\ LET c == retain[s].capacity
           accepted == /\ EvaluateRetain(Usage(held[s]), c, retain[s])
                       /\ ~IsFull(held[s])
       IN  held' = [held EXCEPT ![s] = IF accepted THEN Pushed(@, c) ELSE @]
    /\ retain' = [retain EXCEPT ![s] = Free]
    /\ witness' = [witness EXCEPT ![s] = NoLimit]
    /\ UNCHANGED <<budgetVars, creditVars, publisher>>

-----------------------------------------------------------------------------
(* tryGet pops, trimBounded and clear remove the newest buffers. *)
RemoveNewest(s, n) ==
    /\ retain[s].step = "free"
    /\ held' = [held EXCEPT ![s] = SubSeq(@, 1, Len(@) - n)]
    /\ UNCHANGED <<budgetVars, creditVars, publisher, retain, witness>>

TryGet(s) == held[s] # <<>> /\ RemoveNewest(s, 1)

(* The trim loop stops at the first buffer that does not fit the byte limit, so  *)
(* it may end at any count below the buffer limit.                              *)
TrimBounded(s) == \E n \in 1 .. Len(held[s]) : RemoveNewest(s, n)

Clear(s) == held[s] # <<>> /\ RemoveNewest(s, Len(held[s]))

ShardStep(s) ==
    \/ \E c \in Capacities : LockForRetain(s, c)
    \/ LoadTargetBuffers(s)
    \/ LoadTargetBytes(s)
    \/ Decide(s)
    \/ TryGet(s)
    \/ TrimBounded(s)
    \/ Clear(s)

ClassNext == UpdateBudgetAtLeast \/ \E s \in Shards : ShardStep(s)

ClassSpec == ClassInit /\ [][ClassNext]_classVars

-----------------------------------------------------------------------------
(* Properties *)

(* Types; a bucket never holds more buffers than it has slots.                 *)
ClassTypes ==
    /\ assigned \in Targets /\ previous \in Targets
    /\ budgetGeneration \in Nat
    /\ creditBuffers \in [Shards -> Nat] /\ creditBytes \in [Shards -> Nat]
    /\ creditGeneration \in [Shards -> Nat]
    /\ complete \in [Shards -> Limit]
    /\ publisher \in [step : {"idle"} \cup Publishing, shard : Shards, generation : Nat]
    /\ held \in [Shards -> Seq(Nat)]
    /\ \A s \in Shards : Buffers(held[s]) <= SlotLimit
    /\ retain \in [Shards -> [step : {"free", "loadBuffers", "loadBytes", "decide"},
                             capacity : Nat, buffers : Nat, bytes : Nat]]
    /\ witness \in [Shards -> Limit]

(* The halves of a credit may be read on both sides of a store, or several stores  *)
(* apart; still, a buffer that is retained keeps the shard within one credit that  *)
(* was published as a whole, the last one stored when the byte half was read:     *)
(* shard_credit.go:85-88 relies on it, and on class admission, which makes the     *)
(* byte half imply the buffer half.                                              *)
RetainJustified ==
    [][\A s \in Shards : Buffers(held'[s]) > Buffers(held[s]) =>
          Fits(Usage(held'[s]), witness[s])]_classVars

(* Both halves of the credit of s are its share of an assignment. *)
IsShare(s, bytes) ==
    /\ creditBuffers[s] = CreditForShard(bytes, s).buffers
    /\ creditBytes[s] = CreditForShard(bytes, s).bytes

CreditTotal ==
    [buffers |-> SumFunctionOnSet(creditBuffers, Shards),
     bytes   |-> SumFunctionOnSet(creditBytes, Shards)]

(* Publication goes shard by shard (class_state.go:188-190), but at no moment do   *)
(* the shards together hold more credit, in either dimension, than the larger of   *)
(* the old and the new class target: raising one shard before lowering another     *)
(* never overcommits the class.  Between publications they hold exactly the target,  *)
(* and every credit carries the generation of the budget it was derived from.      *)
CreditWithinTargets ==
    /\ LET t == IF assigned >= previous THEN TargetBuffers(assigned)
                                        ELSE TargetBuffers(previous)
       IN  Fits(CreditTotal, [buffers |-> t, bytes |-> t * ClassSize])
    /\ publisher.step = "idle" =>
        /\ CreditTotal.buffers = TargetBuffers(assigned)
        /\ CreditTotal.bytes = TargetBuffers(assigned) * ClassSize
        /\ \A s \in Shards : creditGeneration[s] = budgetGeneration

(* The generation is stored last: a credit that carries the generation of the      *)
(* budget is the credit derived from the budget of that generation, also while     *)
(* the next assignment has been stored but not yet its generation                 *)
(* (class_state.go:252-256, shard_credit.go:120-124).                             *)
GenerationMarksCredit ==
    LET marked == IF publisher.step = "budgetGeneration" THEN previous ELSE assigned
    IN  \A s \in Shards : creditGeneration[s] >= budgetGeneration => IsShare(s, marked)
=============================================================================
