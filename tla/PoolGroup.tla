------------------------------ MODULE PoolGroup ------------------------------
(* A PoolGroup and its partitions: acquisitions and releases routed to them,     *)
(* coordinator ticks, publication of policies and pressure, ticks of the         *)
(* partitions and Close (group.go, group_coordinator.go, group_policy_update.go, *)
(* group_budget_publication.go, group_pressure.go, group_lifecycle.go,           *)
(* group_scheduler.go, partition_budget_publication.go).                         *)
(*                                                                               *)
(* A call takes, in this order, runtimeMu, the gates of partitions, their        *)
(* controller.mu and the gates of Pools.  Every acquisition that may wait or may *)
(* be refused is an action; the deferred releases cannot wait, and are one with  *)
(* the step that ends the body.  Budgets are told apart by the publication they  *)
(* come from; whether they are feasible is left open.                            *)
EXTENDS FiniteSetsExt, Integers

CONSTANTS Threads,        \* goroutines that call the group
          Scheduler,      \* goroutine of its coordinator scheduler
          Tickers,        \* Tickers[p]: goroutine of the scheduler of partition p
          NoThread,       \* a mutex that is free
          NumPartitions,  \* partitions, in registry order
          PoolOwner,      \* partition of each Pool, Pools in registry order
          Policies,       \* group policies
          Untargeted,     \* those with MaxRetainedBytes = 0: they publish no budgets
          MaxCalls        \* bound of the model: calls in total

Group == 0
Partitions == 1 .. NumPartitions
Pools == DOMAIN PoolOwner
Schedulers == {Scheduler} \cup {Tickers[p] : p \in Partitions}
Actors == Threads \cup Schedulers

ASSUME GroupAssumption ==
    /\ NoThread \notin Actors /\ Threads \cap Schedulers = {}
    /\ NumPartitions \in Nat \ {0} /\ MaxCalls \in Nat
    /\ \A q \in Pools : q \in Nat /\ PoolOwner[q] \in Partitions
    /\ \A p \in Partitions : \E q \in Pools : PoolOwner[q] = p
    /\ Untargeted \subseteq Policies

VARIABLES lifecycle,           \* of the group
          generation,          \* g.generation
          runtime,             \* its runtime snapshot
          readers,             \* readers[l]: read holders of runtimeMu or of a gate
          writer,              \* writer[l]: who has called Lock; holds it when readers[l] = {}
          controllerMu,        \* holder of the controller.mu of each partition
          cycle,               \* who runs the coordinator cycle
          stopped,             \* stopped[s]: the scheduler s is told to stop
          partitionLifecycle,
          budget,              \* budget[p]: publication the policy budget of p comes from
          pressure,            \* pressure[p]: publication its pressure comes from
          poolClosed,
          inside,              \* inside[q]: calls admitted to the gate of a Pool
          poolBudget,          \* poolBudget[q]: publication its class budgets come from
          leases,              \* leases acquired and not released
          call,                \* what each goroutine executes next
          calls,               \* calls so far
          (* History, read by the properties only *)
          publications,        \* publications of budgets or pressure tried so far
          required,            \* the last accepted policy with budgets
          rejected             \* policies that were not accepted

group == <<lifecycle, generation, runtime>>
locks == <<readers, writer, controllerMu, cycle, inside>>
partitions == <<partitionLifecycle, budget, pressure, poolClosed, poolBudget>>
history == <<publications, required, rejected>>
vars == <<group, locks, partitions, stopped, leases, call, calls, history>>

PoolsOf(p) == {q \in Pools : PoolOwner[q] = p}
First(todo) == Min(todo)

NoCall == [pc |-> "idle", op |-> "none", at |-> Group, todo |-> {}, number |-> 0,
           policy |-> CHOOSE policy \in Policies : TRUE]

(* newPoolGroup *)
Init ==
    /\ lifecycle = "active" /\ generation = 1
    /\ \E policy \in Policies : runtime = [generation |-> 1, policy |-> policy, pressure |-> 0]
    /\ readers = [l \in Partitions \cup {Group} |-> {}]
    /\ writer = [l \in Partitions \cup {Group} |-> NoThread]
    /\ controllerMu = [p \in Partitions |-> NoThread]
    /\ cycle = NoThread
    /\ stopped = [s \in Schedulers |-> FALSE]
    /\ partitionLifecycle = [p \in Partitions |-> "active"]
    /\ budget = [p \in Partitions |-> 0] /\ pressure = [p \in Partitions |-> 0]
    /\ poolClosed = [q \in Pools |-> FALSE]
    /\ inside = [q \in Pools |-> {}] /\ poolBudget = [q \in Pools |-> 0]
    /\ leases = 0
    /\ call = [t \in Actors |-> NoCall] /\ calls = 0
    /\ publications = 0 /\ required = 0 /\ rejected = {}

-----------------------------------------------------------------------------
(* Calls and locks *)

Begin(t, op, pc, at, policy) ==
    /\ call[t].pc = "idle" /\ calls < MaxCalls
    /\ calls' = calls + 1
    /\ call' = [call EXCEPT ![t] = [NoCall EXCEPT !.op = op, !.pc = pc, !.at = at,
                                                  !.policy = policy]]
    /\ UNCHANGED <<group, locks, partitions, stopped, leases, history>>

Goto(t, pc) == call' = [call EXCEPT ![t].pc = pc]
(* On to the first of todo. *)
Each(t, pc, todo) == call' = [call EXCEPT ![t].pc = pc, ![t].todo = todo]
(* The next of todo, or what follows the last one. *)
Advance(t, done, pc, todo) ==
    LET rest == call[t].todo \ {done} IN
    IF rest = {} THEN Each(t, pc, todo) ELSE call' = [call EXCEPT ![t].todo = rest]

(* RLock waits for a writer, one that waits itself included. *)
MayRead(l) == writer[l] = NoThread
ReadLocked(t, l) == readers' = [readers EXCEPT ![l] = @ \cup {t}]
Announced(t, l) == writer[l] = NoThread /\ writer' = [writer EXCEPT ![l] = t]
WriterFirst(t, l) == writer[l] = t
WriteLocked(t, l) == writer[l] = t /\ readers[l] = {}

NoMutex(p) == TRUE
ControllerFree(p) == controllerMu[p] = NoThread

FreedBy(t, mutex) == IF mutex = t THEN NoThread ELSE mutex

(* Everything the call holds is released, and it returns. *)
Released(t) ==
    /\ readers' = [l \in DOMAIN readers |-> readers[l] \ {t}]
    /\ writer' = [l \in DOMAIN writer |-> FreedBy(t, writer[l])]
    /\ controllerMu' = [p \in Partitions |-> FreedBy(t, controllerMu[p])]
    /\ cycle' = FreedBy(t, cycle)
    /\ inside' = [q \in Pools |-> inside[q] \ {t}]
    /\ call' = [call EXCEPT ![t] = NoCall]

AllowsWork(state) == state = "active"
Number == publications + 1

-----------------------------------------------------------------------------
(* Calls under runtimeMu.RLock: Acquire, Release, TickInto *)

StartAcquire(t, p) == Begin(t, "acquire", "enterGroup", p, NoCall.policy)
StartRelease(t, p) == Begin(t, "release", "enterGroup", p, NoCall.policy)
StartTick(t) == Begin(t, "tick", "enterGroup", Group, NoCall.policy)
SchedulerTick == ~stopped[Scheduler] /\ StartTick(Scheduler)

(* A release is admitted whatever the lifecycle. *)
Admitted(op, state) == op = "release" \/ AllowsWork(state)

EnterGroup(t) ==
    LET c == call[t] IN
    /\ c.pc = "enterGroup" /\ MayRead(Group)
    /\ \/ /\ Admitted(c.op, lifecycle)
          /\ ReadLocked(t, Group)
          /\ Goto(t, IF c.op = "tick" THEN "evaluate" ELSE "enterPartition")
          /\ UNCHANGED <<writer, controllerMu, cycle, inside>>
       \/ ~Admitted(c.op, lifecycle) /\ Released(t)
    /\ UNCHANGED <<group, partitions, stopped, leases, calls, history>>

(* partition.Acquire, partition.Release *)
Work(t) ==
    LET c == call[t] IN
    /\ c.pc = "work"
    /\ \/ c.op = "acquire" /\ leases' = leases + 1
       \/ c.op = "release" /\ leases > 0 /\ leases' = leases - 1
       \/ UNCHANGED leases
    /\ Released(t)
    /\ UNCHANGED <<group, partitions, stopped, calls, history>>

(* evaluateGroupCoordinatorCycle, unless another cycle runs; then the first pass of  *)
(* publishPartitionBudgetTargets: with a closed partition nothing is published.    *)
AllOpen == \A p \in Partitions : AllowsWork(partitionLifecycle[p])
MayPublish(policy) == policy \notin Untargeted /\ AllOpen

Evaluate(t) ==
    /\ call[t].pc = "evaluate"
    /\ IF cycle # NoThread THEN Released(t) /\ UNCHANGED <<generation, publications>>
       ELSE /\ generation' = generation + 1
            /\ \/ /\ MayPublish(runtime.policy)
                  /\ publications' = Number
                  /\ cycle' = t
                  /\ call' = [call EXCEPT ![t].pc = "apply", ![t].todo = Partitions,
                                          ![t].number = Number]
                  /\ UNCHANGED <<readers, writer, controllerMu, inside>>
               \/ Released(t) /\ UNCHANGED publications
    /\ UNCHANGED <<lifecycle, runtime, partitions, stopped, leases, calls, required, rejected>>

(* applyPartitionBudget: under the gate only; a partition closed since is passed over. *)
ApplyBudget(t) ==
    LET c == call[t]
        p == First(c.todo) IN
    /\ c.pc = "apply" /\ MayRead(p)
    /\ budget' = IF AllowsWork(partitionLifecycle[p])
                 THEN [budget EXCEPT ![p] = c.number] ELSE budget
    /\ IF c.todo = {p} THEN Released(t)
       ELSE Advance(t, p, "apply", {}) /\ UNCHANGED locks
    /\ UNCHANGED <<group, partitionLifecycle, pressure, poolClosed, poolBudget, stopped,
                   leases, calls, history>>

-----------------------------------------------------------------------------
(* The gate of a partition, and its controller tick *)

PartitionTick(p) ==
    /\ ~stopped[Tickers[p]]
    /\ Begin(Tickers[p], "partitionTick", "enterPartition", p, NoCall.policy)

(* beginForegroundOperation, beginReleaseOperation *)
EnterPartition(t) ==
    LET c == call[t]
        admitted == Admitted(c.op, partitionLifecycle[c.at]) IN
    /\ c.pc = "enterPartition" /\ MayRead(c.at)
    /\ \/ /\ admitted /\ ReadLocked(t, c.at)
          /\ Goto(t, IF c.op = "partitionTick" THEN "controller" ELSE "work")
          /\ UNCHANGED <<writer, controllerMu, cycle, inside>>
       \/ ~admitted /\ Released(t)
    /\ UNCHANGED <<group, partitions, stopped, leases, calls, history>>

(* Under controller.mu the budget is loaded and divided among the Pools, unless it   *)
(* yields no feasible targets.                                                     *)
TickController(t) ==
    LET p == call[t].at IN
    /\ call[t].pc = "controller" /\ ControllerFree(p)
    /\ \/ /\ controllerMu' = [controllerMu EXCEPT ![p] = t]
          /\ call' = [call EXCEPT ![t].pc = "admitPools", ![t].todo = PoolsOf(p),
                                  ![t].number = budget[p]]
          /\ UNCHANGED <<readers, writer, cycle, inside>>
       \/ Released(t)
    /\ UNCHANGED <<group, partitions, stopped, leases, calls, history>>

TickPublish(t) ==
    LET c == call[t] IN
    /\ c.pc = "tickPublish"
    /\ poolBudget' = [q \in Pools |-> IF PoolOwner[q] = c.at THEN c.number ELSE poolBudget[q]]
    /\ Released(t)
    /\ UNCHANGED <<group, partitionLifecycle, budget, pressure, poolClosed, stopped, leases,
                   calls, history>>

-----------------------------------------------------------------------------
(* Calls under runtimeMu.Lock *)

StartPolicy(t, policy) == Begin(t, "policy", "announce", Group, policy)
StartPressure(t) == Begin(t, "pressure", "announce", Group, NoCall.policy)
StartClose(t) == Begin(t, "close", "stop", Group, NoCall.policy)

Announce(t) ==
    /\ call[t].pc = "announce" /\ Announced(t, Group)
    /\ Goto(t, "locked")
    /\ UNCHANGED <<group, readers, controllerMu, cycle, inside, partitions, stopped, leases,
                   calls, history>>

Locked(t, op) == call[t].pc = "locked" /\ call[t].op = op /\ WriteLocked(t, Group)

-----------------------------------------------------------------------------
(* PublishPolicy *)

Published(t, policy, signal) ==
    /\ generation' = generation + 1
    /\ runtime' = [generation |-> generation + 1, policy |-> policy, pressure |-> signal]

(* planGroupPolicyBudgetPublicationBatchLocked.  The policy is refused when it       *)
(* changes the Coordinator section, its budgets are not feasible or a partition is *)
(* closed; one without budgets is published at once.                               *)
PlanPolicy(t) ==
    LET policy == call[t].policy IN
    /\ Locked(t, "policy")
    /\ \/ Released(t) /\ UNCHANGED <<group, publications>>
       \/ /\ AllowsWork(lifecycle) /\ policy \in Untargeted
          /\ Published(t, policy, runtime.pressure)
          /\ Released(t)
          /\ UNCHANGED <<lifecycle, publications>>
       \/ /\ AllowsWork(lifecycle) /\ MayPublish(policy)
          /\ publications' = Number
          /\ call' = [call EXCEPT ![t].pc = "admitPartitions", ![t].todo = Partitions,
                                  ![t].number = Number]
          /\ UNCHANGED <<group, locks>>
    /\ UNCHANGED <<partitions, stopped, leases, calls, required, rejected>>

Rejected(t) == rejected' = rejected \cup {call[t].number}

(* beginPartitionForegroundOperations: the first refusal rolls the others back. *)
LeavesAdmitted(t) ==
    /\ writer' = [writer EXCEPT ![Group] = NoThread]
    /\ call' = [call EXCEPT ![t] = NoCall]
    /\ UNCHANGED <<readers, controllerMu, cycle, inside>>
RolledBack(t) == Released(t)

AdmitPartition(t) ==
    LET p == First(call[t].todo) IN
    /\ call[t].pc = "admitPartitions" /\ MayRead(p)
    /\ \/ /\ AllowsWork(partitionLifecycle[p])
          /\ ReadLocked(t, p)
          /\ Advance(t, p, "lockControllers", Partitions)
          /\ UNCHANGED <<writer, controllerMu, cycle, inside, rejected>>
       \/ ~AllowsWork(partitionLifecycle[p]) /\ RolledBack(t) /\ Rejected(t)
    /\ UNCHANGED <<group, partitions, stopped, leases, calls, publications, required>>

(* lockPartitionControllers *)
LockController(t) ==
    LET p == First(call[t].todo) IN
    /\ call[t].pc = "lockControllers" /\ ControllerFree(p)
    /\ controllerMu' = [controllerMu EXCEPT ![p] = t]
    /\ Advance(t, p, "plan", {})
    /\ UNCHANGED <<group, readers, writer, cycle, inside, partitions, stopped, leases, calls,
                   history>>

(* planPartitionBudgetApplications: one partition that cannot divide its budget      *)
(* rejects all.                                                                    *)
PlanApplications(t) ==
    /\ call[t].pc = "plan"
    /\ \/ Each(t, "admitPools", Pools) /\ UNCHANGED <<locks, rejected>>
       \/ Released(t) /\ Rejected(t)
    /\ UNCHANGED <<group, partitions, stopped, leases, calls, publications, required>>

(* beginPoolControlOperations, of the batch and of a partition tick *)
AdmitPool(t) ==
    LET c == call[t]
        q == First(c.todo) IN
    /\ c.pc = "admitPools"
    /\ \/ /\ ~poolClosed[q]
          /\ inside' = [inside EXCEPT ![q] = @ \cup {t}]
          /\ Advance(t, q, IF c.op = "policy" THEN "publish" ELSE "tickPublish", {})
          /\ UNCHANGED <<readers, writer, controllerMu, cycle, rejected>>
       \/ /\ poolClosed[q] /\ Released(t)
          /\ IF c.op = "policy" THEN Rejected(t) ELSE UNCHANGED rejected
    /\ UNCHANGED <<group, partitions, stopped, leases, calls, publications, required>>

(* The runtime of the group, then the partitions one by one. *)
PublishPolicy(t) ==
    LET c == call[t] IN
    /\ c.pc = "publish"
    /\ Published(t, c.policy, runtime.pressure)
    /\ Each(t, "applyPolicy", Partitions)
    /\ required' = c.number
    /\ UNCHANGED <<lifecycle, locks, partitions, stopped, leases, calls, publications, rejected>>

(* applyPlannedPartitionBudgetApplicationLocked *)
ApplyPolicy(t) ==
    LET c == call[t]
        p == First(c.todo) IN
    /\ c.pc = "applyPolicy"
    /\ budget' = [budget EXCEPT ![p] = c.number]
    /\ poolBudget' = [q \in Pools |-> IF PoolOwner[q] = p THEN c.number ELSE poolBudget[q]]
    /\ IF c.todo = {p} THEN Released(t)
       ELSE Advance(t, p, "applyPolicy", {}) /\ UNCHANGED locks
    /\ UNCHANGED <<group, partitionLifecycle, pressure, poolClosed, stopped, leases, calls,
                   history>>

-----------------------------------------------------------------------------
(* PublishPressure *)

AttemptPressure(t) ==
    /\ Locked(t, "pressure")
    /\ IF AllowsWork(lifecycle) /\ AllOpen
       THEN /\ publications' = Number
            /\ call' = [call EXCEPT ![t].pc = "press", ![t].todo = Partitions,
                                    ![t].number = Number]
            /\ UNCHANGED locks
       ELSE Released(t) /\ UNCHANGED publications
    /\ UNCHANGED <<group, partitions, stopped, leases, calls, required, rejected>>

(* partition.publishPressureSignal.  Unless it is fully applied the group keeps its  *)
(* runtime, and the partitions before it theirs.                                   *)
Accepts(p) == /\ AllowsWork(partitionLifecycle[p])
              /\ \A q \in PoolsOf(p) : ~poolClosed[q]
PassedOver(t, p) == Advance(t, p, "pressed", {}) /\ UNCHANGED locks
Refused(t, p) == Released(t)
PressPartition(t) ==
    LET c == call[t]
        p == First(c.todo) IN
    /\ c.pc = "press" /\ MayRead(p)
    /\ IF Accepts(p)
       THEN pressure' = [pressure EXCEPT ![p] = c.number] /\ Advance(t, p, "pressed", {})
            /\ UNCHANGED locks
       ELSE Refused(t, p) /\ UNCHANGED pressure
    /\ UNCHANGED <<group, partitionLifecycle, budget, poolClosed, poolBudget, stopped, leases,
                   calls, history>>

PublishPressure(t) ==
    /\ call[t].pc = "pressed"
    /\ Published(t, runtime.policy, call[t].number)
    /\ Released(t)
    /\ UNCHANGED <<lifecycle, partitions, stopped, leases, calls, history>>

-----------------------------------------------------------------------------
(* Close, and the Close of a partition or Pool by itself: the group hands out        *)
(* neither, but the package and its tests reach them.                              *)

(* Each first stops the scheduler of its own and waits until it has left its tick. *)
Own(t) == IF call[t].todo = {} THEN Scheduler ELSE Tickers[First(call[t].todo)]

StopScheduler(t) ==
    /\ call[t].pc = "stop"
    /\ stopped' = [stopped EXCEPT ![Own(t)] = TRUE]
    /\ Goto(t, "join")
    /\ UNCHANGED <<group, locks, partitions, leases, calls, history>>

AwaitScheduler(t) ==
    /\ call[t].pc = "join" /\ call[Own(t)].pc = "idle"
    /\ Goto(t, IF call[t].todo = {} THEN "announce" ELSE "closeGate")
    /\ UNCHANGED <<group, locks, partitions, stopped, leases, calls, history>>

(* beginOrContinueSerializedCloseCleanupLocked *)
BeginClose(t) ==
    /\ Locked(t, "close")
    /\ IF lifecycle = "closed" THEN Released(t) /\ UNCHANGED lifecycle
       ELSE lifecycle' = "closing" /\ Each(t, "stop", Partitions) /\ UNCHANGED locks
    /\ UNCHANGED <<generation, runtime, partitions, stopped, leases, calls, history>>

StartClosePartition(t, p) ==
    /\ call[t].pc = "idle" /\ calls < MaxCalls
    /\ calls' = calls + 1
    /\ call' = [call EXCEPT ![t] = [NoCall EXCEPT !.op = "closePartition", !.pc = "stop",
                                                  !.todo = {p}]]
    /\ UNCHANGED <<group, locks, partitions, stopped, leases, history>>

(* PoolPartition.Close goes on with the gate ... *)
AnnounceGate(t) ==
    /\ call[t].pc = "closeGate"
    /\ Announced(t, First(call[t].todo))
    /\ Goto(t, "closePartition")
    /\ UNCHANGED <<group, readers, controllerMu, cycle, inside, partitions, stopped, leases,
                   calls, history>>

(* ... then its Pools, in which nobody may be left. *)
ClosePartition(t) ==
    LET c == call[t]
        p == First(c.todo) IN
    /\ c.pc = "closePartition" /\ WriteLocked(t, p)
    /\ \A q \in PoolsOf(p) : inside[q] = {}
    /\ partitionLifecycle' = [partitionLifecycle EXCEPT ![p] = "closed"]
    /\ poolClosed' = [q \in Pools |-> PoolOwner[q] = p \/ poolClosed[q]]
    /\ IF c.op = "closePartition" THEN Released(t)
       ELSE /\ writer' = [writer EXCEPT ![p] = NoThread]
            /\ call' = [call EXCEPT ![t].todo = @ \ {p},
                          ![t].pc = IF c.todo = {p} THEN "finishClose" ELSE "stop"]
            /\ UNCHANGED <<readers, controllerMu, cycle, inside>>
    /\ UNCHANGED <<group, budget, pressure, poolBudget, stopped, leases, calls, history>>

FinishClose(t) ==
    /\ call[t].pc = "finishClose"
    /\ lifecycle' = "closed" /\ generation' = generation + 1
    /\ Released(t)
    /\ UNCHANGED <<runtime, partitions, stopped, leases, calls, history>>

(* Pool.Close refuses new operations and waits for those inside. *)
StartClosePool(t, q) ==
    /\ call[t].pc = "idle" /\ calls < MaxCalls
    /\ calls' = calls + 1
    /\ poolClosed' = [poolClosed EXCEPT ![q] = TRUE]
    /\ call' = [call EXCEPT ![t] = [NoCall EXCEPT !.op = "closePool", !.pc = "drain",
                                                  !.todo = {q}]]
    /\ UNCHANGED <<group, locks, partitionLifecycle, budget, pressure, poolBudget, stopped,
                   leases, history>>

DrainPool(t) ==
    /\ call[t].pc = "drain" /\ inside[First(call[t].todo)] = {}
    /\ Released(t)
    /\ UNCHANGED <<group, partitions, stopped, leases, calls, history>>

-----------------------------------------------------------------------------
Call(t) ==
    \/ \E p \in Partitions : StartAcquire(t, p) \/ StartRelease(t, p) \/ StartClosePartition(t, p)
    \/ \E q \in Pools : StartClosePool(t, q)
    \/ \E policy \in Policies : StartPolicy(t, policy)
    \/ StartTick(t) \/ StartPressure(t) \/ StartClose(t)

Step(t) ==
    \/ EnterGroup(t) \/ EnterPartition(t) \/ Work(t)
    \/ Evaluate(t) \/ ApplyBudget(t)
    \/ TickController(t) \/ TickPublish(t) \/ AdmitPool(t)
    \/ Announce(t)
    \/ PlanPolicy(t) \/ AdmitPartition(t) \/ LockController(t) \/ PlanApplications(t)
    \/ PublishPolicy(t) \/ ApplyPolicy(t)
    \/ AttemptPressure(t) \/ PressPartition(t) \/ PublishPressure(t)
    \/ StopScheduler(t) \/ AwaitScheduler(t) \/ BeginClose(t)
    \/ AnnounceGate(t) \/ ClosePartition(t) \/ FinishClose(t) \/ DrainPool(t)

(* Nobody has to call. *)
Rest == (\A t \in Actors : call[t].pc = "idle") /\ UNCHANGED vars

Next == \/ \E t \in Threads : Call(t)
        \/ SchedulerTick \/ \E p \in Partitions : PartitionTick(p)
        \/ \E t \in Actors : Step(t)
        \/ Rest

Fairness == \A t \in Actors : WF_vars(Step(t))
Spec == Init /\ [][Next]_vars /\ Fairness

-----------------------------------------------------------------------------
(* Properties *)

Publishing == {t \in Actors : call[t].pc = "applyPolicy"}

(* The budgets of an accepted policy reach every partition and every Pool before     *)
(* anyone else can publish, and are not replaced by older ones; those of a rejected *)
(* policy reach none, however far its batch had come ("partition budgets are        *)
(* admitted as one batch", group_policy_update.go:100-103).                         *)
PolicyReachesAllOrNone ==
    /\ Publishing = {} =>
          /\ \A p \in Partitions : budget[p] >= required
          /\ \A q \in Pools : poolBudget[q] >= required
    /\ \A p \in Partitions : budget[p] \notin rejected
    /\ \A q \in Pools : poolBudget[q] \notin rejected

(* The pressure the group shows has reached every partition, although partitions     *)
(* may close while it is published.                                                 *)
PressureReachedPartitions == \A p \in Partitions : pressure[p] >= runtime.pressure

(* A closed group is over: every partition and Pool of it is closed, and no call that *)
(* was under way when it closed acquires or publishes anything afterwards             *)
(* (group_lifecycle.go:36-41).                                                        *)
CloseIsFinal ==
    [][lifecycle = "closed" =>
          /\ \A p \in Partitions : partitionLifecycle[p] = "closed"
          /\ \A q \in Pools : poolClosed[q]
          /\ leases' <= leases
          /\ UNCHANGED <<group, budget, pressure, poolBudget>>]_vars

(* Every call returns, Close and one that was refused half-way included: no order of  *)
(* runtimeMu, gates, controllers and Pools makes calls wait for each other, and no    *)
(* admission is left behind (group_policy_update.go:329-335).                         *)
CallsReturn == \A t \in Actors : (call[t].pc # "idle") ~> (call[t].pc = "idle")
=============================================================================
