---------------------------- MODULE PoolDecisions ----------------------------
(* What a Pool decides from its policy: which live updates it accepts           *)
(* (policy_update.go, pool_runtime.go), the budgets it gives its classes        *)
(* (pool_classes.go, shard_credit.go), the class that serves a request or a      *)
(* returned buffer (class_table.go), what becomes of either (pool_get.go,        *)
(* pool_put.go, pool_pressure.go) and what a trim may remove (pool_trim.go).     *)
(* Nothing here has state.                                                     *)
EXTENDS PolicyProfiles, SequencesExt, FiniteSetsExt

(* Live updates *)

(* policyUpdateContractsRetention, policyUpdateExpandsRetention *)
RetentionContracted(old, new) ==
    \E field \in DOMAIN new.retention : new.retention[field] < old.retention[field]
RetentionExpanded(old, new) == RetentionContracted(new, old)

ShapeChanged(old, new) == old.classes # new.classes \/ old.shards # new.shards
OwnershipChanged(old, new) == old.ownership # new.ownership

NeedsTrim(old, new) ==
    RetentionContracted(old, new) /\ new.trim.enabled /\ new.trim.onShrink

(* validatePoolPolicyPublicationCandidate, then checkLivePolicyUpdateCompatibility *)
UpdateRejection(old, new, mode) ==
    CASE ~PolicyValid(new) \/ ~PolicySupported(new, mode)  -> "invalid"
      [] mode \notin Modes \/ ~PolicyValid(old)            -> "invalid"
      [] ShapeChanged(old, new)                            -> "shape_change"
      [] OwnershipChanged(old, new)                        -> "ownership_change"
      [] ~PolicySupported(old, mode)                       -> "invalid"
      [] OTHER                                             -> "none"

(* poolRuntimePolicyCompatible: what publishRuntimeSnapshot panics without. The    *)
(* probing of further shards and the fallback of returns are not part of it.      *)
RuntimeCompatible(construction, policy) ==
    /\ \A field \in {"selection", "shards", "slots", "segment"} :
          construction.shards[field] = policy.shards[field]
    /\ construction.classes = policy.classes

-----------------------------------------------------------------------------
(* Class budgets *)

(* poolClassStaticBudgetCap *)
StaticBudgetCap(policy, size) ==
    LET r == policy.retention
        n == policy.shards.shards
    IN  Min({r.classBytes, SaturatingProduct(r.classBuffers, size),
             SaturatingProduct(n, r.shardBytes),
             SaturatingProduct(n, SaturatingProduct(r.shardBuffers, size))})

Caps(policy) == [i \in DOMAIN policy.classes |-> StaticBudgetCap(policy, policy.classes[i])]
SaturatingSum(s) == FoldSeq(SaturatingAdd, 0, s)

(* What the classes of a policy may hold together. *)
Fundable(policy) == Smaller(policy.retention.soft, SaturatingSum(Caps(policy)))

(* One pass of poolInitialBudgetAssignments: a share to each class with room. *)
Eligible(assigned, caps) == Cardinality({i \in DOMAIN caps : assigned[i] < caps[i]})
SharePass(state, caps) ==
    LET share == Max({1, state.remaining \div Eligible(state.assigned, caps)})
        Give(s, i) ==
            LET part == Min({share, caps[i] - s.assigned[i], s.remaining})
            IN  [assigned |-> [s.assigned EXCEPT ![i] = @ + part],
                 remaining |-> s.remaining - part]
    IN  FoldLeftDomain(Give, state, caps)

(* A pass that fills no class leaves less than one unit for each, so that there    *)
(* are at most two passes more than classes.                                     *)
InitialAssignments(policy) ==
    LET caps == Caps(policy)
        done(s) == s.remaining = 0 \/ Eligible(s.assigned, caps) = 0
        after[n \in 0 .. Len(caps) + 2] ==
            IF n = 0
            THEN [assigned |-> [i \in DOMAIN caps |-> 0], remaining |-> Fundable(policy)]
            ELSE IF done(after[n - 1]) THEN after[n - 1] ELSE SharePass(after[n - 1], caps)
    IN  after[Len(caps) + 2].assigned

(* What planPoolBudgetForPolicy may return: the envelope of BudgetAllocation, whose *)
(* children have no score, no minimum and their static cap for a maximum.          *)
Plannable(policy) ==
    {t \in [DOMAIN policy.classes -> 0 .. Fundable(policy)] :
        /\ \A i \in DOMAIN t : t[i] <= Caps(policy)[i]
        /\ SaturatingSum(t) = Fundable(policy)}

(* newClassBudgetLimit, creditForShard: the buffers a target funds in a shard. *)
ShardCredit(target, size, shards, s) ==
    LET buffers == target \div size
    IN  buffers \div shards + IF s < buffers % shards THEN 1 ELSE 0

-----------------------------------------------------------------------------
(* Class lookup; 0 is no class *)

ClassForRequest(sizes, n) ==
    LET fitting == {i \in DOMAIN sizes : sizes[i] >= n}
    IN  IF fitting = {} THEN 0 ELSE Min(fitting)

ClassForCapacity(sizes, n) == Max({0} \cup {i \in DOMAIN sizes : sizes[i] <= n})

ClassForExactSize(sizes, n) == Max({0} \cup {i \in DOMAIN sizes : sizes[i] = n})

-----------------------------------------------------------------------------
(* Requests *)

Error(kind) == [kind |-> kind, class |-> 0]
EmptyBuffer == [kind |-> "empty", class |-> 0]
FromClass(i) == [kind |-> "class", class |-> i]

(* normalizeGetRequest, planGet *)
PlanGet(policy, size) ==
    LET class == ClassForRequest(policy.classes, size) IN
    IF size = 0 /\ policy.admission.zeroSize = "empty_buffer" THEN EmptyBuffer
    ELSE IF size = 0 /\ policy.admission.zeroSize # "smallest_class" THEN Error("invalid_size")
    ELSE IF size > policy.retention.request THEN Error("too_large")
    ELSE IF class = 0 THEN Error("unsupported")
    ELSE FromClass(class)

(* boundedFallbackShardCount, fallbackShardIndex: the shards a get probes. *)
FallbackShards(policy, shards) ==
    IF policy.shards.acquire <= 0 \/ shards <= 1 THEN 0
    ELSE Smaller(policy.shards.acquire, shards - 1)
ProbedShard(primary, offset, shards) == (primary + offset) % shards

-----------------------------------------------------------------------------
(* Returns: dropped by the owner with a reason, or offered to a class *)

Offered(class) == [reason |-> "none", class |-> class, action |-> "none"]
Refused(reason, action) == [reason |-> reason, class |-> 0, action |-> action]

(* poolPressureReturnOutcome *)
Exceeds(capacity, limit) == limit # 0 /\ capacity > limit
PressureReturn(policy, level, capacity) ==
    IF ~policy.pressure.enabled \/ level = "normal" THEN Offered(0)
    ELSE LET l == policy.pressure[level] IN
         IF l.disable THEN Refused("pressure_retention_disabled", "drop")
         ELSE IF Exceeds(capacity, l.dropAbove) \/ Exceeds(capacity, l.capacity)
              THEN Refused("pressure_capacity_threshold", policy.admission.oversized)
              ELSE Offered(0)

(* returnBuffer, returnOwnedBuffer: class is that of the capacity, or the origin. *)
PlanReturn(policy, level, capacity, class) ==
    LET pressured == PressureReturn(policy, level, capacity) IN
    CASE policy.admission.returned = "drop" -> Refused("returned_buffers_disabled", "drop")
      [] policy.admission.returned \notin ReturnedBufferPolicies ->
            Refused("invalid_policy", "error")
      [] OTHER ->
            IF pressured.reason # "none" THEN pressured
            ELSE IF capacity > policy.retention.capacity
                 THEN Refused("oversized", policy.admission.oversized)
            ELSE IF class = 0 THEN Refused("unsupported_class", policy.admission.unsupported)
            ELSE Offered(class)

(* applyReturnOutcome: an unknown action counts as an invalid policy. *)
DropReason(outcome) ==
    IF outcome.reason # "none" /\ outcome.action \notin AdmissionActions
    THEN "invalid_policy" ELSE outcome.reason

-----------------------------------------------------------------------------
(* Trims *)

(* poolTrimPlanFromPolicy *)
TrimPlan(buffers, bytes, classes, shards) ==
    [buffers |-> buffers, bytes |-> bytes, classes |-> classes, shards |-> shards]
TrimPlanOf(policy) ==
    LET t == policy.trim IN TrimPlan(t.buffers, t.bytes, t.classes, t.shards)

Bytes(stack) == FoldSeq(+, 0, stack)
Uppermost(stack, n) == SubSeq(stack, Len(stack) - n + 1, Len(stack))

(* bucket.trimBounded: the longest run from the top within both limits *)
TrimmedFrom(stack, buffers, bytes) ==
    Max({n \in 0 .. Len(stack) : n <= buffers /\ Bytes(Uppermost(stack, n)) <= bytes})
=============================================================================
