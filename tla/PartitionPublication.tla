------------------------ MODULE PartitionPublication ------------------------
(* Publication of policies, pressure and budgets by a partition and to its Pools *)
(* (partition_policy_update.go, partition_pressure.go, partition_controller.go,  *)
(* pool_pressure.go, pool_budget_allocator.go).                                  *)
(*                                                                               *)
(* PublishPolicy and TickInto hold controller.mu, SetPressure does not; whoever   *)
(* changes the snapshot of a Pool holds its controlMu.  Snapshots are immutable   *)
(* values behind atomic pointers: each load and each store is an action.  The     *)
(* partition stays open (PartitionClose has its gate), so its Pools do too; a     *)
(* rejected call changes nothing and is left out, as are trims, which publish     *)
(* nothing.                                                                      *)
EXTENDS Integers

CONSTANTS Callers,     \* goroutines that call the partition
          NoCaller,    \* a mutex that is free
          NumPools,    \* owned Pools, in registry order
          Levels,      \* pressure levels that are signalled
          Policies,    \* partition policies
          Untargeted,  \* those with MaxRetainedBytes = 0: they publish no budgets
          MaxCalls     \* bound of the model: calls in total

ASSUME PublicationAssumption ==
    /\ NoCaller \notin Callers
    /\ NumPools \in Nat \ {0} /\ MaxCalls \in Nat
    /\ Untargeted \subseteq Policies

VARIABLES runtime,       \* snapshot of the partition
          generation,    \* p.generation
          controllerMu,  \* holder of controller.mu
          poolRuntime,   \* snapshot of each Pool, without its constant policy
          controlMu,     \* holder of the controlMu of each Pool
          class,         \* class budgets of each Pool: generation, and plan they come from
          task,          \* what each caller executes next
          calls,         \* calls so far
          (* History, read by the properties only *)
          plans,         \* budget plans made so far
          required,      \* plan of the policy published last among those with budgets
          accepted,      \* policy of the last PublishPolicy that was Published
          met,           \* callers whose pressure publication has run beside another one
          torn           \* the last one to end met another, or a policy with older pressure

locks   == <<controllerMu, controlMu>>
history == <<plans, required, accepted, met, torn>>
vars == <<runtime, generation, poolRuntime, class, locks, task, calls, history>>

Pools == 1 .. NumPools

NoGeneration == 0
InitialGeneration == 1
Generations == Nat \ {NoGeneration}

(* budgetPublicationGeneration: the target when it is newer, else one more *)
TargetAlways(current, target) == target
PublicationGeneration(current, target) ==
    IF current < target THEN target ELSE current + 1

NormalSignal == [generation |-> InitialGeneration, level |-> "normal"]

NoTask == [pc |-> "idle", op |-> "none", todo |-> {}, target |-> InitialGeneration, plan |-> 0,
           policy |-> CHOOSE p \in Policies : TRUE, signal |-> NormalSignal,
           held |-> [generation |-> InitialGeneration, pressure |-> NormalSignal]]

(* newPoolPartition and newPool.  The first policy is any. *)
Init ==
    /\ \E policy \in Policies :
          /\ runtime = [generation |-> InitialGeneration, policy |-> policy,
                        pressure |-> NormalSignal]
          /\ accepted = policy
    /\ generation = InitialGeneration
    /\ poolRuntime = [p \in Pools |-> [generation |-> InitialGeneration,
                                       pressure |-> NormalSignal]]
    /\ class = [p \in Pools |-> [generation |-> InitialGeneration, plan |-> 0]]
    /\ controllerMu = NoCaller
    /\ controlMu = [p \in Pools |-> NoCaller]
    /\ task = [c \in Callers |-> NoTask]
    /\ calls = 0 /\ plans = 0 /\ required = 0
    /\ met = {} /\ torn = FALSE

Called == calls < MaxCalls /\ calls' = calls + 1
MayEnterUnlocked(c) == task[c].pc = "idle"
MayEnterController(c) == task[c].pc = "idle" /\ controllerMu = NoCaller
Goto(c, pc) == task' = [task EXCEPT ![c].pc = pc]

(* The Pools a pressure signal and the budgets of a policy go to: all of them. *)
AllButLastPool == 1 .. NumPools - 1
EveryPool == Pools

(* Where a batch starts: at its first Pool, or at its end when it is empty. *)
BatchFrom(todo, end) == IF todo = {} THEN end ELSE "lockPool"
EndOf(op) == IF op = "pressure" THEN "load" ELSE "unlock"

-----------------------------------------------------------------------------
(* PublishPolicy, under controller.mu *)

(* The runtime is loaded, and the budgets of all Pools are planned. *)
PlanPolicy(c, policy) ==
    /\ MayEnterController(c) /\ Called
    /\ controllerMu' = c
    /\ plans' = plans + 1
    /\ task' = [task EXCEPT ![c] =
                  [NoTask EXCEPT !.pc = "store", !.op = "policy", !.policy = policy,
                                 !.target = runtime.generation + 1, !.plan = plans + 1,
                                 !.signal = runtime.pressure]]
    /\ UNCHANGED <<runtime, generation, poolRuntime, class, controlMu, required, accepted, met, torn>>

(* The partition snapshot, with the pressure that was loaded; then the Pools. *)
StorePolicy(c) ==
    LET t == task[c]
        todo == IF t.policy \in Untargeted THEN {} ELSE EveryPool IN
    /\ t.pc = "store"
    /\ runtime' = [generation |-> t.target, policy |-> t.policy, pressure |-> t.signal]
    /\ task' = [task EXCEPT ![c].pc = BatchFrom(todo, "unlock"), ![c].todo = todo]
    /\ accepted' = t.policy
    /\ required' = IF t.policy \in Untargeted THEN required ELSE t.plan
    /\ UNCHANGED <<generation, poolRuntime, class, locks, calls, plans, met, torn>>

Unlock(c) ==
    /\ task[c].pc = "unlock"
    /\ controllerMu' = NoCaller
    /\ task' = [task EXCEPT ![c] = NoTask]
    /\ UNCHANGED <<runtime, generation, poolRuntime, class, controlMu, calls, history>>

-----------------------------------------------------------------------------
(* TickInto: advances p.generation and plans budgets for the Pools it samples, or  *)
(* for none when they are not feasible.  A call that finds another one running     *)
(* returns at once (cycleGate).                                                   *)
Tick(c, todo) ==
    /\ MayEnterController(c) /\ Called
    /\ controllerMu' = c
    /\ generation' = generation + 1
    /\ plans' = plans + 1
    /\ task' = [task EXCEPT ![c] =
                  [NoTask EXCEPT !.pc = BatchFrom(todo, "unlock"), !.op = "tick", !.todo = todo,
                                 !.target = generation + 1, !.plan = plans + 1]]
    /\ UNCHANGED <<runtime, poolRuntime, class, controlMu, required, accepted, met, torn>>

-----------------------------------------------------------------------------
(* SetPressure and PublishPressure: no controller.mu *)

AttemptGeneration == PublicationGeneration(generation, NoGeneration)

Pressing == {c \in Callers : task[c].op = "pressure"}

AttemptPressure(c, level) ==
    /\ task[c].pc = "idle" /\ Called
    /\ met' = IF Pressing = {} THEN met ELSE Pressing \cup {c}
    /\ torn' = (torn \/ Pressing # {})
    /\ task' = [task EXCEPT ![c] =
                  [NoTask EXCEPT !.pc = BatchFrom(EveryPool, "load"), !.op = "pressure",
                                 !.todo = EveryPool,
                                 !.target = AttemptGeneration,
                                 !.signal = [generation |-> AttemptGeneration, level |-> level]]]
    /\ UNCHANGED <<runtime, generation, poolRuntime, class, locks, plans, required, accepted>>

(* After every Pool has accepted the signal *)
LoadPolicy(c) ==
    /\ task[c].pc = "load"
    /\ task' = [task EXCEPT ![c].pc = "storeGeneration", ![c].policy = runtime.policy]
    /\ UNCHANGED <<runtime, generation, poolRuntime, class, locks, calls, history>>

StoreGeneration(c) ==
    /\ task[c].pc = "storeGeneration"
    /\ generation' = task[c].target
    /\ Goto(c, "publish")
    /\ UNCHANGED <<runtime, poolRuntime, class, locks, calls, history>>

PublishPressure(c) ==
    LET t == task[c] IN
    /\ t.pc = "publish"
    /\ runtime' = [generation |-> t.target, policy |-> t.policy, pressure |-> t.signal]
    /\ task' = [task EXCEPT ![c] = NoTask]
    /\ met' = met \ {c}
    /\ torn' = (c \in met \/ \E d \in Callers : task[d].pc = "store")
    /\ UNCHANGED <<generation, poolRuntime, class, locks, calls, plans, required, accepted>>

-----------------------------------------------------------------------------
(* One Pool of a batch, in registry order: Pool.applyPressure or                  *)
(* Pool.applyPlannedClassBudgetTargets                                            *)

NextPool(c, p) == p \in task[c].todo /\ \A q \in task[c].todo : p <= q

AnyTime(p) == TRUE
MayControl(p) == controlMu[p] = NoCaller

(* Under controlMu: the class targets, when there are any, and the load of the     *)
(* snapshot.                                                                     *)
LockPool(c, p) ==
    LET t == task[c] IN
    /\ t.pc = "lockPool" /\ NextPool(c, p)
    /\ MayControl(p)
    /\ controlMu' = [controlMu EXCEPT ![p] = c]
    /\ class' = IF t.op = "pressure" THEN class
                ELSE [class EXCEPT ![p] =
                        [generation |-> PublicationGeneration(class[p].generation, t.target),
                         plan |-> t.plan]]
    /\ task' = [task EXCEPT ![c].pc = "publishPool", ![c].held = poolRuntime[p]]
    /\ UNCHANGED <<runtime, generation, poolRuntime, controllerMu, calls, history>>

(* A signal replaces the pressure of the Pool, budgets keep it. *)
PublishPool(c, p) ==
    LET t == task[c]
        pressing == t.op = "pressure"
        target == IF pressing THEN t.target ELSE class[p].generation IN
    /\ t.pc = "publishPool" /\ NextPool(c, p)
    /\ poolRuntime' = [poolRuntime EXCEPT ![p] =
                         [generation |-> PublicationGeneration(t.held.generation, target),
                          pressure |-> IF pressing THEN t.signal ELSE t.held.pressure]]
    /\ controlMu' = [controlMu EXCEPT ![p] = NoCaller]
    /\ task' = [task EXCEPT ![c].pc = BatchFrom(t.todo \ {p}, EndOf(t.op)),
                            ![c].todo = t.todo \ {p}]
    /\ UNCHANGED <<runtime, generation, class, controllerMu, calls, history>>

-----------------------------------------------------------------------------
Step(c) ==
    \/ StorePolicy(c) \/ Unlock(c)
    \/ LoadPolicy(c) \/ StoreGeneration(c) \/ PublishPressure(c)
    \/ \E p \in Pools : LockPool(c, p) \/ PublishPool(c, p)

(* Nobody has to call. *)
Rest == (\A c \in Callers : task[c].pc = "idle") /\ UNCHANGED vars

Next ==
    \/ \E c \in Callers : \/ \E policy \in Policies : PlanPolicy(c, policy)
                          \/ \E todo \in SUBSET Pools : Tick(c, todo)
                          \/ \E level \in Levels : AttemptPressure(c, level)
                          \/ Step(c)
    \/ Rest

Spec == Init /\ [][Next]_vars

-----------------------------------------------------------------------------
(* Properties *)

Signals == [generation : Generations, level : Levels \cup {"normal"}]
PoolRuntimes == [generation : Generations, pressure : Signals]

Tasks ==
    [pc : {"idle", "store", "unlock", "load", "storeGeneration", "publish", "lockPool",
           "publishPool"},
     op : {"none", "policy", "tick", "pressure"}, todo : SUBSET Pools, target : Generations,
     plan : Nat, policy : Policies, signal : Signals, held : PoolRuntimes]

TypeOK ==
    /\ runtime \in [generation : Generations, policy : Policies, pressure : Signals]
    /\ generation \in Generations
    /\ controllerMu \in Callers \cup {NoCaller}
    /\ poolRuntime \in [Pools -> PoolRuntimes]
    /\ controlMu \in [Pools -> Callers \cup {NoCaller}]
    /\ class \in [Pools -> [generation : Generations, plan : Nat]]
    /\ task \in [Callers -> Tasks]
    /\ calls \in 0 .. MaxCalls /\ plans \in Nat /\ required \in Nat /\ accepted \in Policies
    /\ met \subseteq Callers /\ torn \in BOOLEAN

(* Every Pool carries the very signal the partition shows, or that of a publication *)
(* under way that has passed it, whatever policies and budgets are published beside *)
(* it ("Partition pressure becomes visible only after every Pool accepted the same  *)
(* attempt generation", partition_pressure.go:260).  Nothing orders publications of *)
(* pressure that meet, and a policy puts back the pressure it has loaded before     *)
(* (partition_policy_update.go:134, 181): the partition and its Pools may then differ *)
(* until the next publication of pressure that meets neither.                      *)
PressureReachedPools ==
    ~torn => \A p \in Pools :
        \/ poolRuntime[p].pressure = runtime.pressure
        \/ \E c \in Pressing : /\ p \notin task[c].todo
                              /\ poolRuntime[p].pressure = task[c].signal

(* The pressure of a Pool is changed by a pressure publication only: budgets that   *)
(* are republished around it never bring back the signal it replaced               *)
(* (pool_budget_allocator.go:158-160).                                             *)
PoolPressureKept ==
    [][\A p \in Pools : poolRuntime'[p].pressure # poolRuntime[p].pressure =>
          \E c \in Callers : /\ task[c].op = "pressure" /\ controlMu[p] = c
                             /\ poolRuntime'[p].pressure = task[c].signal]_vars

(* Every snapshot a Pool publishes has a newer generation than the one it replaces, *)
(* although attempts and plans carry generations of streams that run apart         *)
(* (budgetPublicationGeneration).                                                 *)
PoolGenerationsGrow ==
    [][\A p \in Pools : poolRuntime'[p] # poolRuntime[p] =>
          poolRuntime'[p].generation > poolRuntime[p].generation]_vars

(* When nobody publishes budgets, every Pool has those of the last policy that was  *)
(* published with a retained target, or of a later controller cycle; an older plan  *)
(* never survives on some of them (partition_policy_update.go:122-124).            *)
PolicyBudgetsReachedPools ==
    controllerMu = NoCaller => \A p \in Pools : class[p].plan >= required

(* A policy that was Published stays the effective policy until the next one         *)
(* ("Published reports whether the partition accepted policy as its effective       *)
(* runtime policy", partition_policy_update.go:47).                                 *)
PublishedPolicyIsEffective == runtime.policy = accepted

=============================================================================
