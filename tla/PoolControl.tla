----------------------------- MODULE PoolControl -----------------------------
(* A Pool under live control: gets and returns that decide on the snapshot they *)
(* loaded before they passed the gate, against policy publications, pressure,    *)
(* trims and Close (pool_get.go, pool_put.go, pool_policy_update.go,             *)
(* pool_pressure.go, pool_trim.go, pool_runtime.go).                             *)
(*                                                                             *)
(* The snapshot is an immutable value behind an atomic pointer; whoever          *)
(* publishes one holds controlMu.  The gate is one action here, and the last     *)
(* step of a body is one with the endOperation that follows it: PoolGate         *)
(* has their steps.  A class target is stored together with its shard credits:   *)
(* ClassCredit has those stores.  Which shard a call selects, and the order in   *)
(* which scores rank what is trimmed, are left open.                             *)
EXTENDS PoolDecisions

CONSTANTS Threads,     \* goroutines that call the Pool
          NoThread,    \* controlMu is free
          Configs,     \* configurations it may be constructed from
          Mode,        \* its construction mode
          Policies,    \* policies that are published
          Signals,     \* pressure signals
          Plans,       \* limits that trims are called with
          Sizes,       \* requested sizes
          Capacities,  \* capacities of returned buffers
          MaxCalls     \* bound of the model: calls in total

(* What the types of the code say of a policy: its shards are an int. *)
TypedPolicy(policy) ==
    /\ policy.classes \in Seq(Nat) /\ policy.shards.shards \in Int
    /\ {policy.trim.buffers, policy.trim.bytes} \subseteq Nat
    /\ \A field \in {"soft", "classBytes", "classBuffers", "shardBytes", "shardBuffers"} :
          policy.retention[field] \in Nat

(* No Pool is built without shards: newClassState panics. *)
ASSUME ControlAssumption ==
    /\ NoThread \notin Threads /\ Mode \in Modes
    /\ MaxCalls \in Nat /\ Sizes \subseteq Nat /\ Capacities \subseteq Nat \ {0}
    /\ Signals \subseteq [generation : Nat, level : PressureLevels]
    /\ Plans \subseteq [buffers : Int, bytes : Nat, classes : Int, shards : Int]
    /\ \A policy \in Policies : TypedPolicy(policy)
    /\ \A c \in Configs : TypedPolicy(c.policy) /\ EffectivePolicy(c.policy).shards.shards > 0

VARIABLES config,           \* the normalized configuration
          lifecycle,
          runtime,          \* runtimeSnapshot
          target,           \* target[i]: assigned bytes of class i
          classGeneration,  \* its budget generation
          stored,           \* stored[i][s]: capacities in shard s of class i, newest last
          controlMu,        \* holder of the mutex
          call,             \* what each goroutine executes next
          counters,         \* owner and class counters of returns
          calls,            \* calls so far
          (* History, read by the properties only *)
          live,             \* snapshots in force since the put of a goroutine began
          refusals          \* returns that failed with ErrClosed

budgets == <<target, classGeneration>>
vars == <<config, lifecycle, runtime, budgets, stored, controlMu, call, counters, calls,
          live, refusals>>

Classes == DOMAIN config.policy.classes
Size(i) == config.policy.classes[i]
NumShards == config.policy.shards.shards
Shards == 0 .. NumShards - 1

InitialGeneration == 1
NormalSignal == [generation |-> InitialGeneration, level |-> "normal"]
Snapshot(generation, policy, pressure) ==
    [generation |-> generation, policy |-> policy, pressure |-> pressure]

(* budgetPublicationGeneration *)
PublicationGeneration(current, wanted) ==
    IF wanted = 0 \/ current >= wanted THEN current + 1 ELSE wanted

Idle == [pc |-> "idle"]

(* newPool, publishInitialBudgets *)
Init ==
    /\ config \in {Normalized(c) : c \in {d \in Configs :
                     PoolConfigValid(d) /\ PolicySupported(EffectivePolicy(d.policy), Mode)}}
    /\ lifecycle = "active"
    /\ runtime = Snapshot(InitialGeneration, config.policy, NormalSignal)
    /\ target = InitialAssignments(config.policy)
    /\ classGeneration = [i \in Classes |-> 1]
    /\ stored = [i \in Classes |-> [s \in Shards |-> <<>>]]
    /\ controlMu = NoThread
    /\ call = [t \in Threads |-> Idle]
    /\ counters = [puts |-> 0, retains |-> 0, ownerDrops |-> 0, classDrops |-> 0]
    /\ calls = 0
    /\ live = [t \in Threads |-> {}]
    /\ refusals = 0

-----------------------------------------------------------------------------
(* Calls and the gate *)

Begin(t, c) ==
    /\ call[t] = Idle /\ calls < MaxCalls
    /\ calls' = calls + 1
    /\ call' = [call EXCEPT ![t] = c]
    /\ live' = [live EXCEPT ![t] = IF c.pc = "put" THEN {runtime} ELSE {}]

Goto(t, c) == call' = [call EXCEPT ![t] = c] /\ UNCHANGED live
Return(t) ==
    /\ call' = [call EXCEPT ![t] = Idle]
    /\ live' = [live EXCEPT ![t] = {}]

InsidePC == {"probe", "retain", "lock", "assign", "publish", "trim", "trimShards"}
Inside == {t \in Threads : call[t].pc \in InsidePC}

Open == lifecycle = "active"

(* beginAcquireOperation, beginPoolControlOperation: ErrClosed changes nothing. *)
Pass(t, inside) == IF Open THEN Goto(t, inside) ELSE Return(t)

-----------------------------------------------------------------------------
(* Get *)

(* A request that the policy refuses changes nothing. *)
StartGet(t, size) ==
    LET plan == PlanGet(runtime.policy, size) IN
    /\ plan.kind \in {"class", "empty"}
    /\ Begin(t, [pc |-> "get", plan |-> plan,
                 fallback |-> FallbackShards(runtime.policy, NumShards)])
    /\ UNCHANGED <<config, lifecycle, runtime, budgets, stored, controlMu, counters, refusals>>

EnterGet(t) ==
    LET c == call[t] IN
    /\ c.pc = "get"
    /\ IF c.plan.kind = "empty" THEN Return(t)
       ELSE \E primary \in Shards :
                Pass(t, [pc |-> "probe", class |-> c.plan.class, primary |-> primary,
                         offset |-> 0, fallback |-> c.fallback])
    /\ UNCHANGED <<config, lifecycle, runtime, budgets, stored, controlMu, counters, calls,
                   refusals>>

(* One shard of tryGetSelectedWithFallback; past the last one a buffer is allocated. *)
Probe(t) ==
    LET c == call[t]
        s == ProbedShard(c.primary, c.offset, NumShards) IN
    /\ c.pc = "probe"
    /\ IF stored[c.class][s] # <<>>
       THEN stored' = [stored EXCEPT ![c.class][s] = Front(@)] /\ Return(t)
       ELSE /\ UNCHANGED stored
            /\ IF c.offset < c.fallback THEN Goto(t, [c EXCEPT !.offset = @ + 1])
               ELSE Return(t)
    /\ UNCHANGED <<config, lifecycle, runtime, budgets, controlMu, counters, calls, refusals>>

-----------------------------------------------------------------------------
(* Put and putOwnedBuffer *)

Counted(counter) == counters' = [counters EXCEPT ![counter] = @ + 1]

LoadedAtConstruction == [runtime EXCEPT !.policy = config.policy]
LoadedByPut == runtime

(* The put is counted and the snapshot loaded before the gate. *)
StartPut(t, capacity, origin) ==
    /\ Begin(t, [pc |-> "put", capacity |-> capacity, origin |-> origin,
                 held |-> LoadedByPut])
    /\ Counted("puts")
    /\ UNCHANGED <<config, lifecycle, runtime, budgets, stored, controlMu, refusals>>

(* The class of an owned buffer is that of its lease, of another one that of its    *)
(* capacity (origin 0).                                                           *)
ClassOf(capacity, origin) ==
    IF origin = 0 THEN ClassForCapacity(config.policy.classes, capacity)
    ELSE ClassForExactSize(config.policy.classes, origin)

(* beginReturnOperation, returnBuffer, returnOwnedBuffer *)
EnterPut(t) ==
    LET c == call[t]
        outcome == PlanReturn(c.held.policy, c.held.pressure.level, c.capacity,
                              ClassOf(c.capacity, c.origin)) IN
    /\ c.pc = "put"
    /\ IF ~Open
       THEN /\ Return(t)
            /\ IF config.closedOperations = "drop_returns"
               THEN Counted("ownerDrops") /\ UNCHANGED refusals
               ELSE refusals' = refusals + 1 /\ UNCHANGED counters
       ELSE /\ UNCHANGED refusals
            /\ IF DropReason(outcome) # "none"
               THEN Counted("ownerDrops") /\ Return(t)
               ELSE /\ UNCHANGED counters
                    /\ \E s \in Shards : Goto(t, [pc |-> "retain", capacity |-> c.capacity,
                                                  class |-> outcome.class, shard |-> s])
    /\ UNCHANGED <<config, lifecycle, runtime, budgets, stored, controlMu, calls>>

(* Class admission, shard credit and bucket slots *)
Retainable(i, s, capacity) ==
    LET credit == ShardCredit(target[i], Size(i), NumShards, s) IN
    /\ capacity >= Size(i)
    /\ Len(stored[i][s]) < credit
    /\ Bytes(stored[i][s]) + capacity <= credit * Size(i)
    /\ Len(stored[i][s]) < config.policy.shards.slots

(* A rejection by class, credit or bucket has no owner reason. *)
CountedTwice == counters' = [counters EXCEPT !.classDrops = @ + 1, !.ownerDrops = @ + 1]
ClassDrop == Counted("classDrops")

Retain(t) ==
    LET c == call[t] IN
    /\ c.pc = "retain"
    /\ IF Retainable(c.class, c.shard, c.capacity)
       THEN /\ stored' = [stored EXCEPT ![c.class][c.shard] = Append(@, c.capacity)]
            /\ Counted("retains")
       ELSE UNCHANGED stored /\ ClassDrop
    /\ Return(t)
    /\ UNCHANGED <<config, lifecycle, runtime, budgets, controlMu, calls, refusals>>

-----------------------------------------------------------------------------
(* PublishPolicy *)

(* The candidate is completed and judged against the snapshot before the gate. A   *)
(* rejected one changes nothing.                                                  *)
StartPolicy(t, policy) ==
    /\ UpdateRejection(runtime.policy, EffectivePolicy(policy), Mode) = "none"
    /\ Begin(t, [pc |-> "gate", then |-> [pc |-> "lock", op |-> "policy",
                                          policy |-> EffectivePolicy(policy),
                                          initial |-> runtime]])
    /\ UNCHANGED <<config, lifecycle, runtime, budgets, stored, controlMu, counters, refusals>>

EnterControl(t) ==
    /\ call[t].pc = "gate"
    /\ Pass(t, call[t].then)
    /\ UNCHANGED <<config, lifecycle, runtime, budgets, stored, controlMu, counters, calls,
                   refusals>>

Lock(t) ==
    /\ call[t].pc = "lock" /\ controlMu = NoThread
    /\ controlMu' = t

(* Under controlMu the snapshot is loaded and the candidate judged again. *)
LoadedBefore(c) == c.initial
LoadedUnderLock(c) == runtime

PlannedForCurrent(old, candidate) == old.policy
PlannedFor(old, candidate) == candidate

PlanPolicy(t) ==
    LET c == call[t]
        old == LoadedUnderLock(c) IN
    /\ c.pc = "lock" /\ c.op = "policy"
    /\ Lock(t)
    /\ UpdateRejection(old.policy, c.policy, Mode) = "none"
    /\ \E planned \in Plannable(PlannedFor(old, c.policy)) :
          Goto(t, [pc |-> "assign", policy |-> c.policy, old |-> old, planned |-> planned,
                   class |-> 1])
    /\ UNCHANGED <<config, lifecycle, runtime, budgets, stored, counters, calls, refusals>>

(* applyPlannedClassBudgetTargetsLocked, one class *)
Assign(t) ==
    LET c == call[t]
        i == c.class IN
    /\ c.pc = "assign"
    /\ target' = [target EXCEPT ![i] = c.planned[i]]
    /\ classGeneration' = [classGeneration EXCEPT ![i] =
                             PublicationGeneration(@, c.old.generation + 1)]
    /\ Goto(t, IF i < Len(c.planned) THEN [c EXCEPT !.class = i + 1]
               ELSE [pc |-> "publish", policy |-> c.policy, old |-> c.old])
    /\ UNCHANGED <<config, lifecycle, runtime, stored, controlMu, counters, calls, refusals>>

(* publishRuntimeSnapshot. Puts in progress have now lived under this one, too.   *)
Publish(snapshot) ==
    /\ RuntimeCompatible(config.policy, snapshot.policy)
    /\ runtime' = snapshot
    /\ live' = [u \in Threads |-> IF live[u] = {} THEN {} ELSE live[u] \cup {snapshot}]

(* A trim under its plan: what it has trimmed, the classes to visit and, while it    *)
(* visits one, the shards.                                                        *)
Trimming(pc, plan, candidates, class, shards) ==
    [pc |-> pc, plan |-> plan, trimmedBuffers |-> 0, trimmedBytes |-> 0,
     candidates |-> candidates, class |-> class, shards |-> shards,
     visitedClasses |-> 0, visitedShards |-> 0]
TrimClasses(plan, classes) == Trimming("trim", plan, classes, 1, {})

(* Classes that hold something; the shards of a class that do *)
Filled(i) == {s \in Shards : stored[i][s] # <<>>}
FilledClasses == {i \in Classes : Filled(i) # {}}

(* The snapshot, with the pressure that was loaded; then a bounded trim. *)
PublishPolicy(t) ==
    LET c == call[t]
        trims == NeedsTrim(c.old.policy, c.policy)
        next == Snapshot(PublicationGeneration(c.old.generation,
                                               Max({classGeneration[i] : i \in Classes})),
                         c.policy, c.old.pressure) IN
    /\ c.pc = "publish"
    /\ Publish(next)
    /\ call' = [call EXCEPT ![t] = IF trims THEN TrimClasses(TrimPlanOf(c.policy), FilledClasses)
                                   ELSE Idle]
    /\ controlMu' = IF trims THEN t ELSE NoThread
    /\ UNCHANGED <<config, lifecycle, budgets, stored, counters, calls, refusals>>

-----------------------------------------------------------------------------
(* applyPressure *)

StartPressure(t, signal) ==
    /\ Begin(t, [pc |-> "gate", then |-> [pc |-> "lock", op |-> "pressure", signal |-> signal]])
    /\ UNCHANGED <<config, lifecycle, runtime, budgets, stored, controlMu, counters, refusals>>

(* The critical section: load, publish with the policy that was loaded. *)
ApplyPressure(t) ==
    LET c == call[t]
        generation == PublicationGeneration(runtime.generation, c.signal.generation)
        signal == IF c.signal.generation = 0
                  THEN [c.signal EXCEPT !.generation = generation] ELSE c.signal
        next == Snapshot(generation, runtime.policy, signal) IN
    /\ c.pc = "lock" /\ c.op = "pressure" /\ controlMu = NoThread
    /\ Publish(next)
    /\ call' = [call EXCEPT ![t] = Idle]
    /\ UNCHANGED <<config, lifecycle, budgets, stored, controlMu, counters, calls, refusals>>

-----------------------------------------------------------------------------
(* Trim, TrimClass and TrimShard *)

(* Calls with a zero limit return at once. *)
StartTrim(t, plan, classes, shards) ==
    /\ plan.buffers > 0 /\ plan.bytes > 0
    /\ Begin(t, [pc |-> "gate", then |-> [pc |-> "lock", op |-> "trim", plan |-> plan,
                                          classes |-> classes, shards |-> shards]])
    /\ UNCHANGED <<config, lifecycle, runtime, budgets, stored, controlMu, counters, refusals>>

(* Trim ranks the classes that hold something; TrimClass and TrimShard name theirs, *)
(* and visit all of it.                                                           *)
LockTrim(t) ==
    LET c == call[t]
        whole == [c.plan EXCEPT !.classes = 0, !.shards = 0] IN
    /\ c.pc = "lock" /\ c.op = "trim"
    /\ Lock(t)
    /\ Goto(t, IF c.shards # {}
               THEN Trimming("trimShards", whole, {}, CHOOSE i \in c.classes : TRUE, c.shards)
               ELSE IF c.classes # {} THEN TrimClasses(whole, c.classes)
               ELSE TrimClasses(c.plan, FilledClasses))
    /\ UNCHANGED <<config, lifecycle, runtime, budgets, stored, counters, calls, refusals>>

(* A limit of 0 classes or shards is none. *)
Exhausted(limit, visits) == limit > 0 /\ visits >= limit
WholePlan(c) == [buffers |-> c.plan.buffers, bytes |-> c.plan.bytes]
Left(c) == [buffers |-> c.plan.buffers - c.trimmedBuffers,
            bytes |-> c.plan.bytes - c.trimmedBytes]
LimitsReached(c) == c.trimmedBuffers >= c.plan.buffers \/ c.trimmedBytes >= c.plan.bytes

(* trimLocked: the next class, with the shards of it that hold something. *)
TrimClass(t) ==
    LET c == call[t] IN
    /\ c.pc = "trim"
    /\ IF \/ c.candidates = {} \/ LimitsReached(c)
          \/ Exhausted(c.plan.classes, c.visitedClasses)
       THEN controlMu' = NoThread /\ Return(t)
       ELSE /\ UNCHANGED controlMu
            /\ \E i \in c.candidates :
                  Goto(t, [c EXCEPT !.pc = "trimShards", !.candidates = @ \ {i}, !.class = i,
                                    !.shards = Filled(i), !.visitedClasses = @ + 1,
                                    !.visitedShards = 0])
    /\ UNCHANGED <<config, lifecycle, runtime, budgets, stored, counters, calls, refusals>>

(* trimClassState: the next shard, with what is left of both limits. *)
TrimShard(t) ==
    LET c == call[t] IN
    /\ c.pc = "trimShards"
    /\ IF \/ c.shards = {} \/ LimitsReached(c)
          \/ Exhausted(c.plan.shards, c.visitedShards)
       THEN UNCHANGED stored /\ Goto(t, [c EXCEPT !.pc = "trim"])
       ELSE \E s \in c.shards :
            LET stack == stored[c.class][s]
                n == TrimmedFrom(stack, Left(c).buffers, Left(c).bytes) IN
            /\ stored' = [stored EXCEPT ![c.class][s] = SubSeq(@, 1, Len(@) - n)]
            /\ Goto(t, [c EXCEPT !.shards = @ \ {s}, !.visitedShards = @ + 1,
                                 !.trimmedBuffers = @ + n,
                                 !.trimmedBytes = @ + Bytes(Uppermost(stack, n))])
    /\ UNCHANGED <<config, lifecycle, runtime, budgets, controlMu, counters, calls, refusals>>

-----------------------------------------------------------------------------
(* Close *)

StartClose(t) ==
    /\ Begin(t, [pc |-> IF Open THEN "drain" ELSE "follow"])
    /\ lifecycle' = IF Open THEN "closing" ELSE lifecycle
    /\ UNCHANGED <<config, runtime, budgets, stored, controlMu, counters, refusals>>

FinishClose(t) ==
    /\ call[t].pc = "drain" /\ Inside = {}
    /\ stored' = IF config.closeMode = "clear_retained"
                 THEN [i \in Classes |-> [s \in Shards |-> <<>>]] ELSE stored
    /\ lifecycle' = "closed"
    /\ Return(t)
    /\ UNCHANGED <<config, runtime, budgets, controlMu, counters, calls, refusals>>

FollowClose(t) ==
    /\ call[t].pc = "follow" /\ lifecycle = "closed"
    /\ Return(t)
    /\ UNCHANGED <<config, lifecycle, runtime, budgets, stored, controlMu, counters, calls,
                   refusals>>

-----------------------------------------------------------------------------
Call(t) ==
    \/ \E size \in Sizes : StartGet(t, size)
    \/ \E capacity \in Capacities, origin \in {0} \cup ToSet(config.policy.classes) :
          StartPut(t, capacity, origin)
    \/ \E policy \in Policies : StartPolicy(t, policy)
    \/ \E signal \in Signals : StartPressure(t, signal)
    \/ \E plan \in Plans : \/ StartTrim(t, plan, {}, {})
                           \/ \E i \in Classes : \/ StartTrim(t, plan, {i}, {})
                                                 \/ \E s \in Shards : StartTrim(t, plan, {i}, {s})
    \/ StartClose(t)

Step(t) ==
    \/ EnterGet(t) \/ Probe(t) \/ EnterPut(t) \/ Retain(t)
    \/ EnterControl(t) \/ PlanPolicy(t) \/ Assign(t) \/ PublishPolicy(t)
    \/ ApplyPressure(t) \/ LockTrim(t) \/ TrimClass(t) \/ TrimShard(t)
    \/ FinishClose(t) \/ FollowClose(t)

(* Nobody has to call. *)
Rest == (\A t \in Threads : call[t] = Idle) /\ UNCHANGED vars

Next == (\E t \in Threads : Call(t) \/ Step(t)) \/ Rest

Spec == Init /\ [][Next]_vars

-----------------------------------------------------------------------------
(* Properties *)

(* The class budgets in force are budgets of the given policy. *)
BudgetsOf(policy) ==
    /\ \A i \in Classes : target[i] <= Caps(policy)[i]
    /\ SaturatingSum(target) = Fundable(policy)

(* A policy becomes visible only when every class has its budgets, whatever was      *)
(* published before it, and the budgets of a visible policy change only on the way to *)
(* the next one ("Pool never exposes a new effective policy without the corresponding *)
(* local class budgets and shard credits already in force", pool_policy_update.go:95). *)
NoBudgetsUnderWay == \A t \in Threads : call[t].pc \notin {"assign", "publish"}
BudgetsPrecedePolicy ==
    [][NoBudgetsUnderWay' \/ runtime'.policy # runtime.policy =>
          BudgetsOf(runtime.policy)']_vars

(* Each control operation replaces its half of the snapshot only: no publication     *)
(* brings back the policy or the pressure that another one replaced while it waited    *)
(* for controlMu (pool_policy_update.go:131, pool_pressure.go:41).                   *)
UpdatesKept ==
    [][/\ runtime'.policy # runtime.policy =>
             \E t \in Threads : call[t].pc = "publish" /\ call[t].policy = runtime'.policy
       /\ runtime'.pressure # runtime.pressure =>
             \E t \in Threads : call[t].pc = "lock" /\ call[t].op = "pressure"
       /\ runtime' # runtime => runtime'.generation > runtime.generation]_vars

(* A buffer is retained only if a policy and pressure that were in force at some time  *)
(* during the call admit it, although the call decides before it passes the gate, and   *)
(* any number of publications and trims may pass it by (pool_put.go:99).             *)
RetainedUnderLivePolicy ==
    [][\A t \in Threads : call[t].pc = "retain" /\ counters'.retains > counters.retains =>
          \E past \in live[t] :
              PlanReturn(past.policy, past.pressure.level, call[t].capacity,
                         call[t].class).reason = "none"]_vars

(* Each return is counted as retained or as dropped exactly once, by its owner or by   *)
(* the class, except those that a closed Pool refused with an error                  *)
(* (pool_put.go:97, 101-117, 427).                                                  *)
PutsInProgress == Cardinality({t \in Threads : call[t].pc \in {"put", "retain"}})
ReturnsAccounted ==
    counters.puts = counters.retains + counters.ownerDrops + counters.classDrops
                      + refusals + PutsInProgress

(* A trim never removes more than its plan allows, over all the classes and shards it  *)
(* visits while returns refill them (pool_trim.go:158, 241-248).                     *)
TrimsWithinPlan ==
    \A t \in Threads : call[t].pc \in {"trim", "trimShards"} =>
        /\ call[t].trimmedBuffers <= call[t].plan.buffers
        /\ call[t].trimmedBytes <= call[t].plan.bytes
=============================================================================
