---------------------- MODULE PartitionTelemetry_proofs ----------------------
(* Proofs about what a partition publishes to its Pools, and about what it samples of *)
(* them: first PartitionPublication, for any number of callers, Pools and calls, then  *)
(* PoolTelemetry and StoredStacks, for any number of goroutines, classes, shards and    *)
(* slots.  The two share no variable.                                                 *)
EXTENDS PartitionPublication, StoredStacks, SumTheorems, SequenceTheorems, TLAPS

-----------------------------------------------------------------------------
(* Publication: the inductive invariant *)

(* What a caller is at, and that the mutexes are held there and nowhere else. *)
Phases ==
    \A c \in Callers :
        LET t == task[c] IN
        /\ t.pc = "idle" => t.op = "none"
        /\ t.pc = "store" => t.op = "policy"
        /\ t.pc = "unlock" => t.op # "pressure"
        /\ t.pc \in {"load", "storeGeneration", "publish"} => t.op = "pressure"
        /\ t.pc \in {"store", "unlock", "load", "storeGeneration", "publish"} => t.todo = {}
        /\ controllerMu = c <=> t.pc # "idle" /\ t.op # "pressure"

Mutexes ==
    \A c \in Callers, p \in Pools :
        /\ controlMu[p] = c <=> task[c].pc = "publishPool" /\ NextPool(c, p)
        /\ controlMu[p] = c => task[c].held = poolRuntime[p]

(* Publications of pressure that run together have all met.  One that has met none is *)
(* what the Pools it has passed carry; the others carry what the partition shows, and  *)
(* a policy puts that back.                                                           *)
Pressure ==
    /\ met \subseteq Pressing
    /\ \A c, d \in Pressing : c # d => c \in met
    /\ \A c \in Pressing \ met, p \in Pools :
          p \notin task[c].todo => poolRuntime[p].pressure = task[c].signal
    /\ ~torn =>
          /\ met = {}
          /\ \A c \in Callers : task[c].pc = "store" => task[c].signal = runtime.pressure
          /\ \A p \in Pools : (\A c \in Pressing : p \in task[c].todo) =>
                poolRuntime[p].pressure = runtime.pressure

(* The holder of controller.mu has the newest plan; the Pools that do not have the *)
(* required one are still before it.                                             *)
Plans ==
    /\ required <= plans
    /\ \A p \in Pools : controllerMu = NoCaller => class[p].plan >= required
    /\ \A c \in Callers, p \in Pools :
        LET t == task[c] IN
        controllerMu = c =>
            /\ t.plan = plans
            /\ class[p].plan >= required \/ (t.op = "policy" /\ p \in t.todo)
            /\ t.pc = "publishPool" /\ NextPool(c, p) => class[p].plan = t.plan

IInv == TypeOK /\ Phases /\ Mutexes /\ Pressure /\ Plans

-----------------------------------------------------------------------------
(* Every step preserves the invariant. *)

LEMMA NoTaskType == Policies # {} => NoTask \in Tasks
<1> SUFFICES ASSUME Policies # {} PROVE NoTask \in Tasks
    OBVIOUS
<1>1. (CHOOSE p \in Policies : TRUE) \in Policies
    <2>1. \E p \in Policies : TRUE
        OBVIOUS
    <2> QED
        BY <2>1, Zenon
<1> QED
    BY <1>1 DEF NoTask, Tasks, NormalSignal, Signals, PoolRuntimes, Generations, NoGeneration, InitialGeneration

LEMMA TypeStep == TypeOK /\ [Next]_vars => TypeOK'
<1> SUFFICES ASSUME TypeOK, [Next]_vars PROVE TypeOK'
    OBVIOUS
<1> USE PublicationAssumption
<1>0. NoTask \in Tasks /\ \A c \in Callers : task[c] \in Tasks
    BY NoTaskType DEF TypeOK
<1>1. CASE UNCHANGED vars
    BY <1>1 DEF TypeOK, vars, locks, history
<1>2. ASSUME NEW c \in Callers, NEW policy \in Policies, PlanPolicy(c, policy) PROVE TypeOK'
    <2>1. runtime.generation + 1 \in Generations /\ runtime.pressure \in Signals /\ plans + 1 \in Nat
        BY <1>0 DEF TypeOK, Generations, NoGeneration
    <2>2. task'[c] \in Tasks /\ task' = [task EXCEPT ![c] = task'[c]]
        BY <1>0, <1>2, <2>1 DEF PlanPolicy, TypeOK, Tasks
    <2>3. task' \in [Callers -> Tasks]
        BY <2>2 DEF TypeOK
    <2> QED
        BY <1>2, <2>1, <2>2, <2>3 DEF PlanPolicy, Called, TypeOK, locks, history
<1>3. ASSUME NEW c \in Callers, StorePolicy(c) PROVE TypeOK'
    <2>1. task'[c] \in Tasks /\ task' = [task EXCEPT ![c] = task'[c]]
        BY <1>0, <1>3 DEF StorePolicy, BatchFrom, EveryPool, TypeOK, Tasks
    <2>2. task' \in [Callers -> Tasks]
        BY <2>1 DEF TypeOK
    <2>3. runtime' \in [generation : Generations, policy : Policies, pressure : Signals]
        BY <1>0, <1>3 DEF StorePolicy, Tasks
    <2>4. accepted' \in Policies /\ required' \in Nat
        BY <1>0, <1>3, <2>3 DEF StorePolicy, Tasks, TypeOK
    <2> QED
        BY <1>3, <2>1, <2>2, <2>3, <2>4 DEF StorePolicy, TypeOK, locks, history
<1>4. ASSUME NEW c \in Callers, Unlock(c) PROVE TypeOK'
    <2>1. task'[c] \in Tasks /\ task' = [task EXCEPT ![c] = task'[c]]
        BY <1>0, <1>4 DEF Unlock, TypeOK, Tasks
    <2>2. task' \in [Callers -> Tasks]
        BY <2>1 DEF TypeOK
    <2> QED
        BY <1>4, <2>1, <2>2 DEF Unlock, TypeOK, locks, history
<1>5. ASSUME NEW c \in Callers, NEW todo \in SUBSET Pools, Tick(c, todo) PROVE TypeOK'
    <2>1. generation + 1 \in Generations /\ plans + 1 \in Nat
        BY <1>0 DEF TypeOK, Generations, NoGeneration
    <2>2. task'[c] \in Tasks /\ task' = [task EXCEPT ![c] = task'[c]]
        BY <1>0, <1>5, <2>1 DEF Tick, BatchFrom, TypeOK, Tasks
    <2>3. task' \in [Callers -> Tasks]
        BY <2>2 DEF TypeOK
    <2> QED
        BY <1>5, <2>1, <2>2, <2>3 DEF Tick, Called, TypeOK, locks, history
<1>6. ASSUME NEW c \in Callers, NEW level \in Levels, AttemptPressure(c, level) PROVE TypeOK'
    <2>1. AttemptGeneration \in Generations
        BY <1>0 DEF TypeOK, AttemptGeneration, PublicationGeneration, Generations, NoGeneration
    <2>2. [generation |-> AttemptGeneration, level |-> level] \in Signals
        BY <1>0, <2>1 DEF Signals
    <2>3. task'[c] \in Tasks /\ task' = [task EXCEPT ![c] = task'[c]]
        BY <1>0, <1>6, <2>1, <2>2 DEF AttemptPressure, BatchFrom, EveryPool, TypeOK, Tasks
    <2>4. task' \in [Callers -> Tasks]
        BY <2>3 DEF TypeOK
    <2>5. met' \subseteq Callers /\ torn' \in BOOLEAN
        BY <1>6 DEF AttemptPressure, Pressing, TypeOK
    <2>6. UNCHANGED <<runtime, generation, poolRuntime, class, controllerMu, controlMu, plans, required, accepted>>
        BY <1>6 DEF AttemptPressure, locks
    <2>7. calls' \in 0 .. MaxCalls
        BY <1>6 DEF AttemptPressure, Called, TypeOK
    <2> QED
        BY <2>4, <2>5, <2>6, <2>7 DEF TypeOK
<1>7. ASSUME NEW c \in Callers, LoadPolicy(c) PROVE TypeOK'
    <2>1. runtime.policy \in Policies
        BY <1>0 DEF TypeOK
    <2>2. task'[c] \in Tasks /\ task' = [task EXCEPT ![c] = task'[c]]
        BY <1>0, <1>7, <2>1 DEF LoadPolicy, TypeOK, Tasks
    <2>3. task' \in [Callers -> Tasks]
        BY <2>2 DEF TypeOK
    <2> QED
        BY <1>7, <2>1, <2>2, <2>3 DEF LoadPolicy, TypeOK, locks, history
<1>8. ASSUME NEW c \in Callers, StoreGeneration(c) PROVE TypeOK'
    <2>1. task'[c] \in Tasks /\ task' = [task EXCEPT ![c] = task'[c]]
        BY <1>0, <1>8 DEF StoreGeneration, Goto, TypeOK, Tasks
    <2>2. task' \in [Callers -> Tasks]
        BY <2>1 DEF TypeOK
    <2>3. generation' \in Generations
        BY <1>0, <1>8 DEF StoreGeneration, Tasks
    <2> QED
        BY <1>8, <2>1, <2>2, <2>3 DEF StoreGeneration, TypeOK, locks, history
<1>9. ASSUME NEW c \in Callers, PublishPressure(c) PROVE TypeOK'
    <2>1. task'[c] \in Tasks /\ task' = [task EXCEPT ![c] = task'[c]]
        BY <1>0, <1>9 DEF PublishPressure, TypeOK, Tasks
    <2>2. task' \in [Callers -> Tasks]
        BY <2>1 DEF TypeOK
    <2>3. runtime' \in [generation : Generations, policy : Policies, pressure : Signals]
        BY <1>0, <1>9 DEF PublishPressure, Tasks
    <2> QED
        BY <1>9, <2>1, <2>2, <2>3 DEF PublishPressure, TypeOK, locks, history
<1>10. ASSUME NEW c \in Callers, NEW p \in Pools, LockPool(c, p) PROVE TypeOK'
    <2>1. poolRuntime[p] \in PoolRuntimes
        BY <1>0 DEF TypeOK
    <2>2. PublicationGeneration(class[p].generation, task[c].target) \in Generations
        BY <1>0, <2>1 DEF TypeOK, Tasks, PublicationGeneration, Generations, NoGeneration
    <2>3. task'[c] \in Tasks /\ task' = [task EXCEPT ![c] = task'[c]]
        BY <1>0, <1>10, <2>1, <2>2 DEF LockPool, TypeOK, Tasks
    <2>4. task' \in [Callers -> Tasks]
        BY <2>3 DEF TypeOK
    <2>5. class' \in [Pools -> [generation : Generations, plan : Nat]]
        BY <1>0, <1>10, <2>1, <2>2 DEF LockPool, TypeOK, Tasks
    <2> QED
        BY <1>10, <2>1, <2>2, <2>3, <2>4, <2>5 DEF LockPool, TypeOK, locks, history
<1>11. ASSUME NEW c \in Callers, NEW p \in Pools, PublishPool(c, p) PROVE TypeOK'
    <2>1. task'[c] \in Tasks /\ task' = [task EXCEPT ![c] = task'[c]]
        BY <1>0, <1>11 DEF PublishPool, BatchFrom, EndOf, TypeOK, Tasks
    <2>2. task' \in [Callers -> Tasks]
        BY <2>1 DEF TypeOK
    <2>3. poolRuntime'[p] \in PoolRuntimes
        BY <1>0, <1>11 DEF PublishPool, PublicationGeneration, TypeOK, Tasks, PoolRuntimes, Generations, NoGeneration
    <2>4. poolRuntime' \in [Pools -> PoolRuntimes]
        BY <1>0, <1>11, <2>3 DEF PublishPool, TypeOK
    <2> QED
        BY <1>11, <2>1, <2>2, <2>3, <2>4 DEF PublishPool, TypeOK, locks, history
<1> QED
    BY <1>1, <1>2, <1>3, <1>4, <1>5, <1>6, <1>7, <1>8, <1>9, <1>10, <1>11 DEF Next, Step, Rest

LEMMA PhasesStep == TypeOK /\ Phases /\ [Next]_vars => Phases'
<1> SUFFICES ASSUME TypeOK /\ Phases, [Next]_vars PROVE Phases'
    OBVIOUS
<1> USE PublicationAssumption DEF NoTask, NormalSignal, InitialGeneration, Tasks, Phases, TypeOK
<1>1. CASE UNCHANGED vars
    BY <1>1 DEF vars, locks, history
<1>2. ASSUME NEW c \in Callers, NEW policy \in Policies, PlanPolicy(c, policy) PROVE Phases'
    BY <1>2 DEF PlanPolicy, Called, MayEnterController, locks, history
<1>3. ASSUME NEW c \in Callers, StorePolicy(c) PROVE Phases'
    BY <1>3 DEF StorePolicy, BatchFrom, EveryPool, locks, history
<1>4. ASSUME NEW c \in Callers, Unlock(c) PROVE Phases'
    BY <1>4 DEF Unlock, locks, history
<1>5. ASSUME NEW c \in Callers, NEW todo \in SUBSET Pools, Tick(c, todo) PROVE Phases'
    BY <1>5 DEF Tick, Called, MayEnterController, BatchFrom, locks, history
<1>6. ASSUME NEW c \in Callers, NEW level \in Levels, AttemptPressure(c, level) PROVE Phases'
    BY <1>6 DEF AttemptPressure, Called, BatchFrom, EveryPool, AttemptGeneration, PublicationGeneration, locks, history
<1>7. ASSUME NEW c \in Callers, LoadPolicy(c) PROVE Phases'
    BY <1>7 DEF LoadPolicy, locks, history
<1>8. ASSUME NEW c \in Callers, StoreGeneration(c) PROVE Phases'
    BY <1>8 DEF StoreGeneration, Goto, locks, history
<1>9. ASSUME NEW c \in Callers, PublishPressure(c) PROVE Phases'
    BY <1>9 DEF PublishPressure, locks, history
<1>10. ASSUME NEW c \in Callers, NEW p \in Pools, LockPool(c, p) PROVE Phases'
    BY <1>10 DEF LockPool, MayControl, PublicationGeneration, locks, history
<1>11. ASSUME NEW c \in Callers, NEW p \in Pools, PublishPool(c, p) PROVE Phases'
    BY <1>11 DEF PublishPool, BatchFrom, EndOf, PublicationGeneration, locks, history
<1> QED
    BY <1>1, <1>2, <1>3, <1>4, <1>5, <1>6, <1>7, <1>8, <1>9, <1>10, <1>11 DEF Next, Step, Rest

LEMMA MutexesStep == TypeOK /\ Phases /\ Mutexes /\ [Next]_vars => Mutexes'
<1> SUFFICES ASSUME TypeOK /\ Phases /\ Mutexes, [Next]_vars PROVE Mutexes'
    OBVIOUS
<1> USE PublicationAssumption DEF NoTask, NormalSignal, InitialGeneration, Tasks, Mutexes, TypeOK, NextPool, Pools
<1>1. CASE UNCHANGED vars
    BY <1>1 DEF vars, locks, history
<1>2. ASSUME NEW c \in Callers, NEW policy \in Policies, PlanPolicy(c, policy) PROVE Mutexes'
    BY <1>2 DEF PlanPolicy, Called, MayEnterController, locks, history
<1>3. ASSUME NEW c \in Callers, StorePolicy(c) PROVE Mutexes'
    <2> SUFFICES ASSUME NEW d \in Callers, NEW q \in Pools
                 PROVE /\ controlMu'[q] = d <=> task'[d].pc = "publishPool" /\ NextPool(d, q)'
                       /\ controlMu'[q] = d => task'[d].held = poolRuntime'[q]
        OBVIOUS
    <2>1. /\ task'[c].pc # "publishPool"
          /\ \A e \in Callers \ {c} : task'[e] = task[e]
        BY <1>3 DEF StorePolicy, BatchFrom, EveryPool
    <2>2. task[c].pc # "publishPool" /\ UNCHANGED <<controlMu, poolRuntime>>
        BY <1>3 DEF StorePolicy, locks
    <2>3. CASE d = c
        BY <2>1, <2>2, <2>3
    <2>4. CASE d # c
        BY <2>1, <2>2, <2>4
    <2> QED
        BY <2>3, <2>4
<1>4. ASSUME NEW c \in Callers, Unlock(c) PROVE Mutexes'
    BY <1>4 DEF Unlock, locks, history
<1>5. ASSUME NEW c \in Callers, NEW todo \in SUBSET Pools, Tick(c, todo) PROVE Mutexes'
    BY <1>5 DEF Tick, Called, MayEnterController, BatchFrom, locks, history
<1>6. ASSUME NEW c \in Callers, NEW level \in Levels, AttemptPressure(c, level) PROVE Mutexes'
    BY <1>6 DEF AttemptPressure, Called, BatchFrom, EveryPool, AttemptGeneration, PublicationGeneration, locks, history
<1>7. ASSUME NEW c \in Callers, LoadPolicy(c) PROVE Mutexes'
    BY <1>7 DEF LoadPolicy, locks, history
<1>8. ASSUME NEW c \in Callers, StoreGeneration(c) PROVE Mutexes'
    BY <1>8 DEF StoreGeneration, Goto, locks, history
<1>9. ASSUME NEW c \in Callers, PublishPressure(c) PROVE Mutexes'
    BY <1>9 DEF PublishPressure, locks, history
<1>10. ASSUME NEW c \in Callers, NEW p \in Pools, LockPool(c, p) PROVE Mutexes'
    BY <1>10 DEF LockPool, MayControl, PublicationGeneration, locks, history
<1>11. ASSUME NEW c \in Callers, NEW p \in Pools, PublishPool(c, p) PROVE Mutexes'
    <2> SUFFICES ASSUME NEW d \in Callers, NEW q \in Pools
                 PROVE /\ controlMu'[q] = d <=> task'[d].pc = "publishPool" /\ NextPool(d, q)'
                       /\ controlMu'[q] = d => task'[d].held = poolRuntime'[q]
        OBVIOUS
    <2>1. /\ task'[c].pc # "publishPool"
          /\ \A e \in Callers \ {c} : task'[e] = task[e]
        BY <1>11 DEF PublishPool, BatchFrom, EndOf
    <2>2. /\ task[c].pc = "publishPool" /\ NextPool(c, p) /\ controlMu[p] = c
          /\ \A r \in Pools : NextPool(c, r) => r = p
        BY <1>11 DEF PublishPool
    <2>3. /\ controlMu' = [controlMu EXCEPT ![p] = NoCaller]
          /\ \A r \in Pools \ {p} : poolRuntime'[r] = poolRuntime[r]
        BY <1>11 DEF PublishPool
    <2>4. CASE d = c
        BY <2>1, <2>2, <2>3, <2>4
    <2>5. CASE d # c
        BY <2>1, <2>2, <2>3, <2>5
    <2> QED
        BY <2>4, <2>5
<1> QED
    BY <1>1, <1>2, <1>3, <1>4, <1>5, <1>6, <1>7, <1>8, <1>9, <1>10, <1>11 DEF Next, Step, Rest

(* What a step leaves to Pressure when it publishes no pressure and starts no publication. *)
LEMMA PressureStands ==
    ASSUME Pressure, UNCHANGED <<met, torn>>, Pressing' = Pressing,
           runtime'.pressure = runtime.pressure \/ torn,
           \A p \in Pools : poolRuntime'[p].pressure = poolRuntime[p].pressure,
           \A c \in Pressing : task'[c].todo = task[c].todo /\ task'[c].signal = task[c].signal,
           ~torn => \A c \in Callers : task'[c].pc = "store" => task'[c].signal = runtime'.pressure
    PROVE  Pressure'
BY DEF Pressure

LEMMA PressureStep == TypeOK /\ Phases /\ Mutexes /\ Pressure /\ [Next]_vars => Pressure'
<1> SUFFICES ASSUME TypeOK /\ Phases /\ Mutexes /\ Pressure, [Next]_vars PROVE Pressure'
    OBVIOUS
<1>0. /\ \A c \in Callers : task[c] \in Tasks
      /\ NoTask.op = "none" /\ NoTask.pc = "idle" /\ NoTask \in Tasks
    BY NoTaskType DEF TypeOK, NoTask
<1>1. CASE UNCHANGED vars
    BY <1>1 DEF vars, locks, history, Pressure, Pressing
<1>2. ASSUME NEW c \in Callers, NEW policy \in Policies, PlanPolicy(c, policy) PROVE Pressure'
    <2>1. /\ task[c].op = "none" /\ task'[c].op = "policy" /\ task'[c].signal = runtime.pressure
          /\ \A d \in Callers \ {c} : task'[d] = task[d]
        BY <1>0, <1>2 DEF PlanPolicy, MayEnterController, Phases, TypeOK, Tasks
    <2>2. UNCHANGED <<met, torn, runtime, poolRuntime>>
        BY <1>2 DEF PlanPolicy
    <2>3. Pressing' = Pressing /\ c \notin Pressing
        BY <2>1 DEF Pressing
    <2>4. ~torn => \A d \in Callers : task'[d].pc = "store" => task'[d].signal = runtime'.pressure
        BY <2>1, <2>2 DEF Pressure
    <2>5. \A d \in Pressing : task'[d].todo = task[d].todo /\ task'[d].signal = task[d].signal
        BY <2>1, <2>3 DEF Pressing
    <2> QED
        BY <2>2, <2>3, <2>4, <2>5, PressureStands
<1>3. ASSUME NEW c \in Callers, StorePolicy(c) PROVE Pressure'
    <2>1. /\ task[c].op = "policy" /\ task'[c].op = "policy" /\ task'[c].pc # "store"
          /\ \A d \in Callers \ {c} : task'[d] = task[d]
        BY <1>0, <1>3 DEF StorePolicy, BatchFrom, EveryPool, Phases, TypeOK, Tasks
    <2>2. /\ UNCHANGED <<met, torn, poolRuntime>>
          /\ runtime'.pressure = task[c].signal /\ task[c].pc = "store"
        BY <1>3 DEF StorePolicy
    <2>3. Pressing' = Pressing /\ c \notin Pressing
        BY <2>1 DEF Pressing
    <2>4. runtime'.pressure = runtime.pressure \/ torn
        BY <2>2 DEF Pressure
    <2>5. ~torn => \A d \in Callers : task'[d].pc = "store" => task'[d].signal = runtime'.pressure
        BY <2>1, <2>4 DEF Pressure
    <2>6. \A d \in Pressing : task'[d].todo = task[d].todo /\ task'[d].signal = task[d].signal
        BY <2>1, <2>3 DEF Pressing
    <2> QED
        BY <2>2, <2>3, <2>4, <2>5, <2>6, PressureStands
<1>4. ASSUME NEW c \in Callers, Unlock(c) PROVE Pressure'
    <2>1. /\ task[c].op # "pressure" /\ task'[c].op = "none" /\ task'[c].pc = "idle"
          /\ \A d \in Callers \ {c} : task'[d] = task[d]
        BY <1>0, <1>4 DEF Unlock, Phases, TypeOK
    <2>2. UNCHANGED <<met, torn, runtime, poolRuntime>>
        BY <1>4 DEF Unlock, history
    <2>3. Pressing' = Pressing /\ c \notin Pressing
        BY <2>1 DEF Pressing
    <2>4. ~torn => \A d \in Callers : task'[d].pc = "store" => task'[d].signal = runtime'.pressure
        BY <2>1, <2>2 DEF Pressure
    <2>5. \A d \in Pressing : task'[d].todo = task[d].todo /\ task'[d].signal = task[d].signal
        BY <2>1, <2>3 DEF Pressing
    <2> QED
        BY <2>2, <2>3, <2>4, <2>5, PressureStands
<1>5. ASSUME NEW c \in Callers, NEW todo \in SUBSET Pools, Tick(c, todo) PROVE Pressure'
    <2>1. /\ task[c].op = "none" /\ task'[c].op = "tick" /\ task'[c].pc # "store"
          /\ \A d \in Callers \ {c} : task'[d] = task[d]
        BY <1>0, <1>5 DEF Tick, BatchFrom, MayEnterController, Phases, TypeOK, Tasks
    <2>2. UNCHANGED <<met, torn, runtime, poolRuntime>>
        BY <1>5 DEF Tick
    <2>3. Pressing' = Pressing /\ c \notin Pressing
        BY <2>1 DEF Pressing
    <2>4. ~torn => \A d \in Callers : task'[d].pc = "store" => task'[d].signal = runtime'.pressure
        BY <2>1, <2>2 DEF Pressure
    <2>5. \A d \in Pressing : task'[d].todo = task[d].todo /\ task'[d].signal = task[d].signal
        BY <2>1, <2>3 DEF Pressing
    <2> QED
        BY <2>2, <2>3, <2>4, <2>5, PressureStands
<1>6. ASSUME NEW c \in Callers, NEW level \in Levels, AttemptPressure(c, level) PROVE Pressure'
    <2>1. /\ task[c].op = "none" /\ task'[c].op = "pressure" /\ task'[c].pc # "store"
          /\ task'[c].todo = Pools
          /\ \A d \in Callers \ {c} : task'[d] = task[d]
        BY <1>0, <1>6 DEF AttemptPressure, BatchFrom, EveryPool, Phases, TypeOK, Tasks
    <2>2. /\ UNCHANGED <<runtime, poolRuntime>>
          /\ met' = IF Pressing = {} THEN met ELSE Pressing \cup {c}
          /\ torn' <=> torn \/ Pressing # {}
        BY <1>6 DEF AttemptPressure
    <2>3. Pressing' = Pressing \cup {c} /\ c \notin Pressing
        BY <2>1 DEF Pressing
    <2>4. \A d \in Pressing : task'[d] = task[d]
        BY <2>1, <2>3 DEF Pressing
    <2>5. CASE Pressing = {}
        <3>1. met' = {} /\ Pressing' = {c}
            BY <2>2, <2>3, <2>5 DEF Pressure
        <3>2. ~torn' => \A d \in Callers : task'[d].pc = "store" => task'[d].signal = runtime'.pressure
            BY <2>1, <2>2 DEF Pressure
        <3>3. ~torn' => \A p \in Pools : poolRuntime'[p].pressure = runtime'.pressure
            BY <2>2, <2>5 DEF Pressure
        <3> QED
            BY <2>1, <3>1, <3>2, <3>3 DEF Pressure
    <2>6. CASE Pressing # {}
        <3>1. met' = Pressing' /\ torn'
            BY <2>2, <2>3, <2>6
        <3> QED
            BY <3>1 DEF Pressure
    <2> QED
        BY <2>5, <2>6
<1>7. ASSUME NEW c \in Callers, LoadPolicy(c) PROVE Pressure'
    <2>1. /\ \A d \in Callers : /\ task'[d].op = task[d].op /\ task'[d].todo = task[d].todo
                                /\ task'[d].signal = task[d].signal
                                /\ task'[d].pc = "store" => task[d].pc = "store"
          /\ UNCHANGED <<met, torn, runtime, poolRuntime>>
        BY <1>0, <1>7 DEF LoadPolicy, TypeOK, Tasks, history
    <2>2. Pressing' = Pressing
        BY <2>1 DEF Pressing
    <2>3. ~torn => \A d \in Callers : task'[d].pc = "store" => task'[d].signal = runtime'.pressure
        BY <2>1 DEF Pressure
    <2> QED
        BY <2>1, <2>2, <2>3, PressureStands DEF Pressing
<1>8. ASSUME NEW c \in Callers, StoreGeneration(c) PROVE Pressure'
    <2>1. /\ \A d \in Callers : /\ task'[d].op = task[d].op /\ task'[d].todo = task[d].todo
                                /\ task'[d].signal = task[d].signal
                                /\ task'[d].pc = "store" => task[d].pc = "store"
          /\ UNCHANGED <<met, torn, runtime, poolRuntime>>
        BY <1>0, <1>8 DEF StoreGeneration, Goto, TypeOK, Tasks, history
    <2>2. Pressing' = Pressing
        BY <2>1 DEF Pressing
    <2>3. ~torn => \A d \in Callers : task'[d].pc = "store" => task'[d].signal = runtime'.pressure
        BY <2>1 DEF Pressure
    <2> QED
        BY <2>1, <2>2, <2>3, PressureStands DEF Pressing
<1>9. ASSUME NEW c \in Callers, PublishPressure(c) PROVE Pressure'
    <2>1. /\ c \in Pressing /\ task[c].todo = {} /\ task'[c].op = "none" /\ task'[c].pc = "idle"
          /\ \A d \in Callers \ {c} : task'[d] = task[d]
        BY <1>0, <1>9 DEF PublishPressure, Phases, Pressing, TypeOK
    <2>2. /\ UNCHANGED poolRuntime /\ runtime'.pressure = task[c].signal
          /\ met' = met \ {c}
          /\ torn' <=> c \in met \/ \E d \in Callers : task[d].pc = "store"
        BY <1>9 DEF PublishPressure
    <2>3. Pressing' = Pressing \ {c} /\ \A d \in Pressing \ {c} : task'[d] = task[d]
        BY <2>1 DEF Pressing
    <2>4. ASSUME ~torn'
          PROVE  /\ met' = {} /\ \A d \in Callers : task'[d].pc # "store"
                 /\ \A p \in Pools : poolRuntime'[p].pressure = runtime'.pressure
        <3>1. c \notin met /\ Pressing \subseteq {c}
            BY <2>1, <2>2, <2>4 DEF Pressure
        <3>2. met' = {}
            BY <2>2, <3>1 DEF Pressure
        <3>3. \A d \in Callers : task'[d].pc # "store"
            BY <2>1, <2>2, <2>4
        <3>4. \A p \in Pools : poolRuntime'[p].pressure = runtime'.pressure
            BY <2>1, <2>2, <3>1 DEF Pressure
        <3> QED
            BY <3>2, <3>3, <3>4
    <2>5. met' \subseteq Pressing' /\ \A d, e \in Pressing' : d # e => d \in met'
        BY <2>2, <2>3 DEF Pressure
    <2>6. \A d \in Pressing' \ met', p \in Pools :
              p \notin task'[d].todo => poolRuntime'[p].pressure = task'[d].signal
        BY <2>2, <2>3 DEF Pressure
    <2> QED
        BY <2>4, <2>5, <2>6 DEF Pressure
<1>10. ASSUME NEW c \in Callers, NEW p \in Pools, LockPool(c, p) PROVE Pressure'
    <2>1. /\ \A d \in Callers : /\ task'[d].op = task[d].op /\ task'[d].todo = task[d].todo
                                /\ task'[d].signal = task[d].signal
                                /\ task'[d].pc = "store" => task[d].pc = "store"
          /\ UNCHANGED <<met, torn, runtime, poolRuntime>>
        BY <1>0, <1>10 DEF LockPool, TypeOK, Tasks, history
    <2>2. Pressing' = Pressing
        BY <2>1 DEF Pressing
    <2>3. ~torn => \A d \in Callers : task'[d].pc = "store" => task'[d].signal = runtime'.pressure
        BY <2>1 DEF Pressure
    <2> QED
        BY <2>1, <2>2, <2>3, PressureStands DEF Pressing
<1>11. ASSUME NEW c \in Callers, NEW p \in Pools, PublishPool(c, p) PROVE Pressure'
    <2>1. /\ task'[c].op = task[c].op /\ task'[c].signal = task[c].signal
          /\ task'[c].todo = task[c].todo \ {p} /\ task'[c].pc # "store"
          /\ \A d \in Callers \ {c} : task'[d] = task[d]
        BY <1>0, <1>11 DEF PublishPool, BatchFrom, EndOf, TypeOK, Tasks
    <2>2. Pressing' = Pressing /\ UNCHANGED <<met, torn, runtime>>
        <3>1. \A d \in Callers : task'[d].op = task[d].op
            BY <2>1
        <3> QED
            BY <1>11, <3>1 DEF PublishPool, history, Pressing
    <2>3. task[c].held = poolRuntime[p]
        BY <1>11 DEF PublishPool, Mutexes
    <2>4. /\ poolRuntime'[p].pressure = IF task[c].op = "pressure" THEN task[c].signal
                                        ELSE poolRuntime[p].pressure
          /\ \A q \in Pools \ {p} : poolRuntime'[q] = poolRuntime[q]
        BY <1>11, <2>3 DEF PublishPool, TypeOK
    <2>5. ~torn => \A d \in Callers : task'[d].pc = "store" => task'[d].signal = runtime'.pressure
        BY <2>1, <2>2 DEF Pressure
    <2>6. CASE c \notin Pressing
        <3>1. \A q \in Pools : poolRuntime'[q].pressure = poolRuntime[q].pressure
            BY <2>4, <2>6 DEF Pressing
        <3>2. \A d \in Pressing : task'[d].todo = task[d].todo /\ task'[d].signal = task[d].signal
            BY <2>1, <2>6 DEF Pressing
        <3> QED
            BY <2>2, <2>5, <3>1, <3>2, PressureStands
    <2>7. CASE c \in Pressing
        <3>1. poolRuntime'[p].pressure = task[c].signal
            BY <2>4, <2>7 DEF Pressing
        <3>2. ASSUME NEW d \in Pressing' \ met', NEW q \in Pools, q \notin task'[d].todo
              PROVE  poolRuntime'[q].pressure = task'[d].signal
            <4>1. d = c
                BY <2>2, <2>7, <3>2 DEF Pressure
            <4> QED
                BY <2>1, <2>2, <2>4, <3>1, <3>2, <4>1 DEF Pressure
        <3>3. ASSUME ~torn', NEW q \in Pools, \A d \in Pressing' : q \in task'[d].todo
              PROVE  poolRuntime'[q].pressure = runtime'.pressure
            <4>1. q # p /\ \A d \in Pressing : q \in task[d].todo
                BY <2>1, <2>2, <2>7, <3>3 DEF Pressing
            <4> QED
                BY <2>2, <2>4, <3>3, <4>1 DEF Pressure
        <3>4. /\ met' \subseteq Pressing' /\ \A d, e \in Pressing' : d # e => d \in met'
              /\ ~torn' => met' = {}
            BY <2>2 DEF Pressure
        <3> QED
            BY <2>2, <2>5, <3>2, <3>3, <3>4 DEF Pressure
    <2> QED
        BY <2>6, <2>7
<1> QED
    BY <1>1, <1>2, <1>3, <1>4, <1>5, <1>6, <1>7, <1>8, <1>9, <1>10, <1>11 DEF Next, Step, Rest

LEMMA PlansStep == TypeOK /\ Phases /\ Mutexes /\ Plans /\ [Next]_vars => Plans'
<1> SUFFICES ASSUME TypeOK /\ Phases /\ Mutexes /\ Plans, [Next]_vars PROVE Plans'
    OBVIOUS
<1> USE PublicationAssumption
<1>0. /\ plans \in Nat /\ required \in Nat /\ \A p \in Pools : class[p].plan \in Nat
      /\ \A c \in Callers : task[c] \in Tasks /\ c # NoCaller
      /\ NoTask.plan = 0
    BY DEF TypeOK, NoTask
<1>1. CASE UNCHANGED vars
    BY <1>1 DEF vars, locks, history, Plans, NextPool
<1>2. ASSUME NEW c \in Callers, NEW policy \in Policies, PlanPolicy(c, policy) PROVE Plans'
    <2>1. /\ task'[c].plan = plans + 1 /\ task'[c].pc = "store"
          /\ plans' = plans + 1 /\ controllerMu' = c
        BY <1>2 DEF PlanPolicy, NoTask, TypeOK
    <2>2. controllerMu = NoCaller /\ UNCHANGED <<class, required>>
        BY <1>2 DEF PlanPolicy, MayEnterController
    <2>3. required <= plans /\ \A p \in Pools : class[p].plan >= required
        BY <2>2 DEF Plans
    <2>4. required' <= plans' /\ \A d \in Callers : controllerMu' = d => d = c
        BY <1>0, <2>1, <2>2, <2>3
    <2>5. class' = class /\ required' = required /\ controllerMu' # NoCaller
        BY <1>0, <2>1, <2>2
    <2>6. ASSUME NEW d \in Callers, NEW q \in Pools, controllerMu' = d
          PROVE /\ task'[d].plan = plans'
                /\ class'[q].plan >= required' /\ task'[d].pc # "publishPool"
        BY <2>1, <2>3, <2>4, <2>5, <2>6
    <2> QED
        BY <2>4, <2>5, <2>6, Zenon DEF Plans
<1>3. ASSUME NEW c \in Callers, StorePolicy(c) PROVE Plans'
    <2>1. /\ controllerMu = c /\ UNCHANGED <<controllerMu, class, plans>>
          /\ task[c].pc = "store" /\ task[c].op = "policy" /\ task[c].todo = {}
        BY <1>3 DEF StorePolicy, Phases, locks
    <2>2. /\ task'[c].plan = task[c].plan /\ task'[c].op = "policy"
          /\ task'[c].pc # "publishPool"
        BY <1>0, <2>1, <1>3 DEF StorePolicy, BatchFrom, TypeOK, Tasks
    <2>3. \/ required' = required
          \/ required' = task[c].plan /\ task'[c].todo = Pools
        BY <1>0, <1>3 DEF StorePolicy, EveryPool, TypeOK, Tasks
    <2>4. \A p \in Pools : class[p].plan >= required
        BY <2>1 DEF Plans
    <2>5. task[c].plan = plans \/ Pools = {}
        BY <2>1 DEF Plans
    <2>6. task[c].plan = plans
        BY <2>5 DEF Pools
    <2> QED
        BY <1>0, <2>1, <2>2, <2>3, <2>4, <2>6 DEF Plans
<1>4. ASSUME NEW c \in Callers, Unlock(c) PROVE Plans'
    BY <1>4 DEF NoTask, NormalSignal, InitialGeneration, Tasks, Plans, Phases, TypeOK, NextPool, Pools, Unlock, locks, history
<1>5. ASSUME NEW c \in Callers, NEW todo \in SUBSET Pools, Tick(c, todo) PROVE Plans'
    <2>1. /\ task'[c].plan = plans + 1 /\ task'[c].pc # "publishPool"
          /\ plans' = plans + 1 /\ controllerMu' = c
        BY <1>5 DEF Tick, BatchFrom, NoTask, TypeOK
    <2>2. controllerMu = NoCaller /\ UNCHANGED <<class, required>>
        BY <1>5 DEF Tick, MayEnterController
    <2>3. required <= plans /\ \A p \in Pools : class[p].plan >= required
        BY <2>2 DEF Plans
    <2>4. required' <= plans' /\ \A d \in Callers : controllerMu' = d => d = c
        BY <1>0, <2>1, <2>2, <2>3
    <2>5. class' = class /\ required' = required /\ controllerMu' # NoCaller
        BY <1>0, <2>1, <2>2
    <2>6. ASSUME NEW d \in Callers, NEW q \in Pools, controllerMu' = d
          PROVE /\ task'[d].plan = plans'
                /\ class'[q].plan >= required' /\ task'[d].pc # "publishPool"
        BY <2>1, <2>3, <2>4, <2>5, <2>6
    <2> QED
        BY <2>4, <2>5, <2>6, Zenon DEF Plans
<1>6. ASSUME NEW c \in Callers, NEW level \in Levels, AttemptPressure(c, level) PROVE Plans'
    BY <1>6 DEF NoTask, NormalSignal, InitialGeneration, Tasks, Plans, Phases, TypeOK, NextPool, Pools, AttemptPressure, Called, BatchFrom, EveryPool, AttemptGeneration, PublicationGeneration, locks, history
<1>7. ASSUME NEW c \in Callers, LoadPolicy(c) PROVE Plans'
    BY <1>7 DEF NoTask, NormalSignal, InitialGeneration, Tasks, Plans, Phases, TypeOK, NextPool, Pools, LoadPolicy, locks, history
<1>8. ASSUME NEW c \in Callers, StoreGeneration(c) PROVE Plans'
    BY <1>8 DEF NoTask, NormalSignal, InitialGeneration, Tasks, Plans, Phases, TypeOK, NextPool, Pools, StoreGeneration, Goto, locks, history
<1>9. ASSUME NEW c \in Callers, PublishPressure(c) PROVE Plans'
    BY <1>9 DEF NoTask, NormalSignal, InitialGeneration, Tasks, Plans, Phases, TypeOK, NextPool, Pools, PublishPressure, locks, history
<1>10. ASSUME NEW c \in Callers, NEW p \in Pools, LockPool(c, p) PROVE Plans'
    <2>1. /\ task[c].pc = "lockPool"
          /\ task' = [task EXCEPT ![c] = task'[c]]
          /\ task'[c].plan = task[c].plan /\ task'[c].op = task[c].op
          /\ task'[c].todo = task[c].todo
        BY <1>0, <1>10 DEF LockPool, TypeOK, Tasks
    <2>2. /\ UNCHANGED <<controllerMu, plans, required>>
          /\ \A d \in Callers : controllerMu = d <=> task[d].pc # "idle" /\ task[d].op # "pressure"
          /\ \A d \in Callers \ {c} : task'[d] = task[d]
        BY <1>0, <1>10, <2>1 DEF LockPool, history, Phases, TypeOK
    <2>3. /\ NextPool(c, p)
          /\ \A q \in Pools : NextPool(c, q) => q = p
        BY <1>10 DEF LockPool, NextPool, Pools
    <2>6. \A d \in Callers : task'[d].todo = task[d].todo
        BY <2>1, <2>2
    <2>7. \A d \in Callers, q \in Pools : NextPool(d, q)' <=> NextPool(d, q)
        BY <2>6 DEF NextPool
    <2>4. CASE task[c].op = "pressure"
        <3>1. controllerMu # c /\ class' = class
            BY <2>2, <2>4, <1>10 DEF LockPool
        <3> QED
            BY <2>2, <2>3, <2>7, <2>1, <3>1 DEF Plans
    <2>5. CASE task[c].op # "pressure"
        <3>1. /\ class'[p].plan = task[c].plan
              /\ \A q \in Pools \ {p} : class'[q] = class[q]
            BY <2>5, <1>10 DEF LockPool, TypeOK
        <3>2. controllerMu = c
            BY <2>1, <2>2, <2>5
        <3> QED
            BY <1>0, <2>1, <2>2, <2>3, <2>7, <3>1, <3>2 DEF Plans
    <2> QED
        BY <2>4, <2>5
<1>11. ASSUME NEW c \in Callers, NEW p \in Pools, PublishPool(c, p) PROVE Plans'
    <2>1. task[c] \in Tasks
        BY <1>0
    <2>2. /\ task[c].pc = "publishPool" /\ NextPool(c, p)
          /\ UNCHANGED <<controllerMu, class, plans, required>>
        BY <1>11 DEF PublishPool, history
    <2>3. /\ task'[c].pc # "publishPool" /\ task'[c].plan = task[c].plan
          /\ task'[c].op = task[c].op /\ task'[c].todo = task[c].todo \ {p}
          /\ \A d \in Callers \ {c} : task'[d] = task[d]
        BY <1>11, <2>1 DEF PublishPool, BatchFrom, EndOf, TypeOK, Tasks
    <2>4. \A d \in Callers \ {c}, q \in Pools : NextPool(d, q)' <=> NextPool(d, q)
        BY <2>3 DEF NextPool
    <2>5. controllerMu = c => class[p].plan >= required
        BY <1>0, <1>11, <2>2 DEF Plans
    <2>6. ASSUME NEW d \in Callers, NEW q \in Pools, controllerMu' = d
          PROVE /\ task'[d].plan = plans'
                /\ class'[q].plan >= required' \/ (task'[d].op = "policy" /\ q \in task'[d].todo)
                /\ task'[d].pc = "publishPool" /\ NextPool(d, q)' => class'[q].plan = task'[d].plan
        BY <2>2, <2>3, <2>4, <2>5, <2>6 DEF Plans
    <2> QED
        BY <2>2, <2>6 DEF Plans
<1> QED
    BY <1>1, <1>2, <1>3, <1>4, <1>5, <1>6, <1>7, <1>8, <1>9, <1>10, <1>11 DEF Next, Step, Rest

-----------------------------------------------------------------------------
(* The theorems *)

LEMMA Establishes == Init => IInv
<1> SUFFICES ASSUME Init PROVE IInv
    OBVIOUS
<1>1. NoTask \in Tasks
    BY NoTaskType DEF Init
<1>2. TypeOK
    <2>1. met \subseteq Callers /\ torn \in BOOLEAN
        BY DEF Init
    <2> QED
        BY <1>1, <2>1, PublicationAssumption DEF Init, TypeOK, NormalSignal, Signals, PoolRuntimes, Generations, NoGeneration, InitialGeneration
<1>3. \A c \in Callers : task[c].pc = "idle" /\ c # NoCaller /\ task[c].op = "none"
    BY PublicationAssumption DEF Init, NoTask
<1>4. Phases /\ Mutexes
    BY <1>3 DEF Init, Phases, Mutexes
<1>5. Pressure
    <2>1. Pressing = {}
        BY <1>3 DEF Pressing
    <2> QED
        BY <1>3, <2>1 DEF Init, Pressure
<1>6. Plans
    BY <1>3 DEF Init, Plans
<1> QED
    BY <1>2, <1>4, <1>5, <1>6 DEF IInv

LEMMA Preserves == IInv /\ [Next]_vars => IInv'
BY TypeStep, PhasesStep, MutexesStep, PressureStep, PlansStep DEF IInv

(* The strengthened invariant of publication holds for any number of callers that *)
(* publish policies, pressure and budgets at the same time.                       *)
THEOREM Inductive == Spec => []IInv
BY Establishes, Preserves, PTL DEF Spec

(* Every snapshot, mutex and call in progress has its type.                       *)
THEOREM TypeCorrect == Spec => []TypeOK
<1>1. IInv => TypeOK
    BY DEF IInv
<1> QED
    BY <1>1, Inductive, PTL

(* Unless the last publication of pressure met another one, or a policy that had      *)
(* loaded the pressure before it, every Pool carries the signal the partition shows, or *)
(* that of the publication that is passing.                                           *)
THEOREM PressureReaches == Spec => []PressureReachedPools
<1>1. IInv => PressureReachedPools
    BY DEF IInv, Pressure, PressureReachedPools
<1> QED
    BY <1>1, Inductive, PTL

(* No Pool is left with the budgets of a plan older than the last published policy *)
(* with a retained target, once its publisher has released controller.mu.         *)
THEOREM BudgetsReach == Spec => []PolicyBudgetsReachedPools
<1>1. IInv => PolicyBudgetsReachedPools
    BY DEF IInv, Plans, PolicyBudgetsReachedPools
<1> QED
    BY <1>1, Inductive, PTL

(* Only the publication of PublishPool changes the snapshot of a Pool, and it has   *)
(* the current one in hand.                                                       *)
LEMMA SnapshotStep ==
    ASSUME IInv, [Next]_vars, NEW p \in Pools, poolRuntime'[p] # poolRuntime[p]
    PROVE  \E c \in Callers :
              /\ PublishPool(c, p) /\ controlMu[p] = c
              /\ task[c] \in Tasks /\ task[c].held = poolRuntime[p]
<1>1. \E c \in Callers, q \in Pools : PublishPool(c, q)
    BY DEF Next, Step, Rest, vars, locks, history, PlanPolicy, StorePolicy, Unlock, Tick,
           AttemptPressure, LoadPolicy, StoreGeneration, PublishPressure, LockPool
<1>2. PICK c \in Callers, q \in Pools : PublishPool(c, q)
    BY <1>1
<1>3. p = q
    BY <1>2 DEF PublishPool, IInv, TypeOK
<1>4. /\ controlMu[p] = c /\ task[c].held = poolRuntime[p] /\ task[c] \in Tasks
    BY <1>2, <1>3 DEF PublishPool, IInv, Mutexes, TypeOK
<1> QED
    BY <1>2, <1>3, <1>4

(* Budgets that are republished around a signal never bring back an older one.     *)
THEOREM PressureIsKept == Spec => PoolPressureKept
<1>1. ASSUME IInv, [Next]_vars, NEW p \in Pools,
             poolRuntime'[p].pressure # poolRuntime[p].pressure
      PROVE  \E c \in Callers : /\ task[c].op = "pressure" /\ controlMu[p] = c
                                /\ poolRuntime'[p].pressure = task[c].signal
    <2>1. PICK c \in Callers : /\ PublishPool(c, p) /\ controlMu[p] = c
                               /\ task[c].held = poolRuntime[p]
        BY <1>1, SnapshotStep
    <2>2. poolRuntime'[p].pressure = IF task[c].op = "pressure" THEN task[c].signal
                                     ELSE task[c].held.pressure
        BY <1>1, <2>1 DEF PublishPool, IInv, TypeOK
    <2> QED
        BY <1>1, <2>1, <2>2
<1>2. IInv /\ [Next]_vars =>
        [\A p \in Pools : poolRuntime'[p].pressure # poolRuntime[p].pressure =>
            \E c \in Callers : /\ task[c].op = "pressure" /\ controlMu[p] = c
                               /\ poolRuntime'[p].pressure = task[c].signal]_vars
    BY <1>1
<1> QED
    BY <1>2, Inductive, PTL DEF Spec, PoolPressureKept

(* The generations of the snapshots of a Pool only grow.                           *)
THEOREM GenerationsGrow == Spec => PoolGenerationsGrow
<1>1. ASSUME IInv, [Next]_vars, NEW p \in Pools, poolRuntime'[p] # poolRuntime[p]
      PROVE  poolRuntime'[p].generation > poolRuntime[p].generation
    <2>1. PICK c \in Callers : /\ PublishPool(c, p) /\ task[c] \in Tasks
                               /\ task[c].held = poolRuntime[p]
        BY <1>1, SnapshotStep
    <2>2. /\ task[c].target \in Nat /\ class[p].generation \in Nat
          /\ poolRuntime[p].generation \in Nat
        BY <1>1, <2>1 DEF IInv, TypeOK, Tasks, PoolRuntimes, Generations
    <2> QED
        BY <1>1, <2>1, <2>2 DEF PublishPool, PublicationGeneration, IInv, TypeOK
<1>2. IInv /\ [Next]_vars =>
        [\A p \in Pools : poolRuntime'[p] # poolRuntime[p] =>
            poolRuntime'[p].generation > poolRuntime[p].generation]_vars
    BY <1>1
<1> QED
    BY <1>2, Inductive, PTL DEF Spec, PoolGenerationsGrow

-----------------------------------------------------------------------------
(* Sequences *)

(* g has the first k prefixes of a sequence of sequences, concatenated. *)
Flattens(g, s, k) == g = [i \in 1 .. k |-> IF i = 1 THEN s[i] ELSE g[i - 1] \o s[i]]

LEMMA FlattenUnfolded ==
    ASSUME NEW s
    PROVE  FlattenSeq(s) = IF Len(s) = 0 THEN s ELSE (CHOOSE g : Flattens(g, s, Len(s)))[Len(s)]
  BY DEF FlattenSeq, Flattens

Extended(T, s, k, g) ==
    \E h \in [1 .. k + 1 -> Seq(T)] :
        /\ Flattens(h, s, k + 1)
        /\ h[k + 1] = IF k = 0 THEN s[1] ELSE g[k] \o s[k + 1]

LEMMA FlattenExtends ==
    ASSUME NEW T, NEW k \in Nat, NEW s, \A i \in 1 .. k + 1 : s[i] \in Seq(T),
           NEW g \in [1 .. k -> Seq(T)], Flattens(g, s, k)
    PROVE  Extended(T, s, k, g)
  <1> DEFINE last == IF k = 0 THEN s[1] ELSE g[k] \o s[k + 1]
             h == [i \in 1 .. k + 1 |-> IF i = k + 1 THEN last ELSE g[i]]
  <1>1. last \in Seq(T)
    <2>1. CASE k = 0
      BY <2>1
    <2>2. CASE k # 0
      <3>1. g[k] \in Seq(T) /\ s[k + 1] \in Seq(T)
        BY <2>2
      <3> QED
        BY <2>2, <3>1, ConcatProperties
    <2> QED
      BY <2>1, <2>2
  <1>2. h \in [1 .. k + 1 -> Seq(T)]
    <2>1. \A i \in 1 .. k + 1 : i # k + 1 => i \in 1 .. k
      OBVIOUS
    <2> HIDE DEF last
    <2> QED
      BY <1>1, <2>1
  <1>3. ASSUME NEW i \in 1 .. k + 1
        PROVE  h[i] = IF i = 1 THEN s[i] ELSE h[i - 1] \o s[i]
    <2>1. CASE i = k + 1 /\ k = 0
      BY <2>1
    <2>2. CASE i = k + 1 /\ k # 0
      <3>1. k \in 1 .. k + 1 /\ k # k + 1 /\ i # 1 /\ i - 1 = k
        BY <2>2
      <3> QED
        BY <2>2, <3>1
    <2>3. CASE i # k + 1 /\ i = 1
      <3>1. i \in 1 .. k
        BY <2>3
      <3>2. g[i] = s[i]
        BY <2>3, <3>1 DEF Flattens
      <3> QED
        BY <2>3, <3>2
    <2>4. CASE i # k + 1 /\ i # 1
      <3>1. i \in 1 .. k /\ i - 1 \in 1 .. k + 1 /\ i - 1 # k + 1
        BY <2>4
      <3>2. g[i] = g[i - 1] \o s[i]
        BY <2>4, <3>1 DEF Flattens
      <3> HIDE DEF last
      <3> QED
        BY <2>4, <3>1, <3>2
    <2> QED
      BY <2>1, <2>2, <2>3, <2>4
  <1>4. h = [i \in 1 .. k + 1 |-> h[i]] /\ h[k + 1] = last
    OBVIOUS
  <1> HIDE DEF h
  <1>5. Flattens(h, s, k + 1)
    BY <1>3, <1>4 DEF Flattens
  <1> QED
    BY <1>2, <1>4, <1>5 DEF Extended

LEMMA FlattenExists ==
    ASSUME NEW T, NEW n \in Nat, NEW s, \A i \in 1 .. n : s[i] \in Seq(T)
    PROVE  \E g \in [1 .. n -> Seq(T)] : Flattens(g, s, n)
  <1> DEFINE Good(k) == k <= n => \E g \in [1 .. k -> Seq(T)] : Flattens(g, s, k)
             W == {k \in Nat : ~Good(k)}
  <1>1. ASSUME W # {} PROVE FALSE
    <2>1. PICK k \in W : \A m \in W : k <= m
      <3>1. W \in SUBSET Nat
        OBVIOUS
      <3> HIDE DEF W
      <3> QED
        BY <1>1, <3>1, LeastExists
    <2>2. CASE k = 0
      <3> DEFINE g == [i \in 1 .. 0 |-> <<>>]
      <3>1. g \in [1 .. 0 -> Seq(T)] /\ g = [i \in 1 .. 0 |-> IF i = 1 THEN s[i] ELSE g[i - 1] \o s[i]]
        OBVIOUS
      <3> HIDE DEF g
      <3>2. Good(0)
        BY <3>1 DEF Flattens
      <3> QED
        BY <2>1, <2>2, <3>2
    <2>3. CASE k # 0
      <3>1. k - 1 \in Nat /\ k \in Nat /\ Good(k - 1) /\ k <= n
        BY <2>1, <2>3
      <3>2. PICK g \in [1 .. k - 1 -> Seq(T)] : Flattens(g, s, k - 1)
        BY <3>1
      <3>3. \A i \in 1 .. (k - 1) + 1 : s[i] \in Seq(T)
        BY <3>1
      <3>4. \E h \in [1 .. (k - 1) + 1 -> Seq(T)] : Flattens(h, s, (k - 1) + 1)
        BY <3>1, <3>2, <3>3, FlattenExtends DEF Extended
      <3>5. (k - 1) + 1 = k
        BY <3>1
      <3> QED
        BY <2>1, <3>4, <3>5
    <2> QED
      BY <2>2, <2>3
  <1> QED
    BY <1>1

LEMMA FlattenUnique ==
    ASSUME NEW n \in Nat, NEW s, NEW g, NEW h, Flattens(g, s, n), Flattens(h, s, n)
    PROVE  g = h
  <1> DEFINE W == {i \in Nat : i \in 1 .. n /\ g[i] # h[i]}
  <1>1. ASSUME W # {} PROVE FALSE
    <2>1. PICK k \in W : \A m \in W : k <= m
      <3>1. W \in SUBSET Nat
        OBVIOUS
      <3> HIDE DEF W
      <3> QED
        BY <1>1, <3>1, LeastExists
    <2>2. g[k] = (IF k = 1 THEN s[k] ELSE g[k - 1] \o s[k]) /\ h[k] = IF k = 1 THEN s[k] ELSE h[k - 1] \o s[k]
      BY <2>1 DEF Flattens
    <2>3. k # 1 => g[k - 1] = h[k - 1]
      BY <2>1
    <2> QED
      BY <2>1, <2>2, <2>3
  <1>2. \A i \in 1 .. n : g[i] = h[i]
    BY <1>1
  <1>3. g = [i \in 1 .. n |-> g[i]] /\ h = [i \in 1 .. n |-> h[i]]
    BY DEF Flattens
  <1> QED
    BY <1>2, <1>3

(* A sequence that is added is what the whole ends with. *)
LEMMA FlattenAppend ==
    ASSUME NEW T, NEW s \in Seq(Seq(T)), NEW x \in Seq(T)
    PROVE  /\ FlattenSeq(s) \in Seq(T)
           /\ FlattenSeq(Append(s, x)) = FlattenSeq(s) \o x
  <1>0. PICK n, t : n = Len(s) /\ t = Append(s, x)
    OBVIOUS
  <1>1. /\ n \in Nat /\ Len(t) = n + 1 /\ t[n + 1] = x
        /\ \A i \in 1 .. n : t[i] = s[i] /\ s[i] \in Seq(T)
        /\ \A i \in 1 .. n + 1 : t[i] \in Seq(T)
    BY <1>0, AppendProperties, LenProperties
  <1>2. PICK g \in [1 .. n -> Seq(T)] : Flattens(g, s, n)
    BY <1>1, FlattenExists
  <1>3. Flattens(g, t, n)
    <2>1. ASSUME NEW i \in 1 .. n
          PROVE  (IF i = 1 THEN s[i] ELSE g[i - 1] \o s[i]) = IF i = 1 THEN t[i] ELSE g[i - 1] \o t[i]
      BY <1>1
    <2> QED
      BY <1>2, <2>1 DEF Flattens
  <1>4. PICK h \in [1 .. n + 1 -> Seq(T)] :
           /\ Flattens(h, t, n + 1)
           /\ h[n + 1] = IF n = 0 THEN t[1] ELSE g[n] \o t[n + 1]
    <2>1. \A i \in 1 .. n + 1 : t[i] \in Seq(T)
      BY <1>1
    <2>2. Extended(T, t, n, g)
      BY <1>1, <1>2, <1>3, <2>1, FlattenExtends
    <2> QED
      BY <2>2 DEF Extended
  <1>5. (CHOOSE f : Flattens(f, t, n + 1)) = h
    BY <1>1, <1>4, FlattenUnique
  <1>6. FlattenSeq(t) = h[n + 1]
    BY <1>1, <1>5, FlattenUnfolded
  <1>7. (CHOOSE f : Flattens(f, s, n)) = g
    BY <1>1, <1>2, FlattenUnique
  <1>8. CASE n = 0
    <2>1. s = <<>>
      BY <1>0, <1>8, EmptySeq
    <2>2. FlattenSeq(s) = <<>>
      BY <1>0, <1>8, <2>1, FlattenUnfolded
    <2>3. FlattenSeq(t) = x
      BY <1>1, <1>4, <1>6, <1>8
    <2> QED
      BY <1>0, <2>2, <2>3, ConcatEmptySeq, EmptySeq
  <1>9. CASE n # 0
    <2>1. FlattenSeq(s) = g[n]
      BY <1>0, <1>7, <1>9, FlattenUnfolded
    <2>2. n \in 1 .. n
      BY <1>1, <1>9
    <2>3. g[n] \in Seq(T)
      BY <2>2
    <2> QED
      BY <1>0, <1>1, <1>4, <1>6, <1>9, <2>1, <2>3
  <1> QED
    BY <1>8, <1>9

HeadSet(s, e) == [s EXCEPT ![Len(s)] = e]

LEMMA SplitLast ==
    ASSUME NEW S, NEW s \in Seq(S), s # <<>>
    PROVE  /\ Front(s) \in Seq(S) /\ Last(s) \in S
           /\ s = Append(Front(s), Last(s)) /\ Len(s) = Len(Front(s)) + 1 /\ Len(Front(s)) \in Nat
           /\ \A i \in 1 .. Len(Front(s)) : Front(s)[i] = s[i]
           /\ \A e \in S : HeadSet(s, e) = Append(Front(s), e)
  <1>1. PICK n : n = Len(s)
    OBVIOUS
  <1>2. n \in Nat \ {0} /\ DOMAIN s = 1 .. n /\ \A i \in 1 .. n : s[i] \in S
    BY <1>1, EmptySeq, LenProperties
  <1>3. Front(s) = SubSeq(s, 1, n - 1) /\ Last(s) = s[n] /\ n - 1 \in Int /\ 1 \in Int
    BY <1>1, <1>2 DEF Front, Last
  <1>4. /\ Front(s) \in Seq(S)
        /\ Len(Front(s)) = n - 1
        /\ \A i \in 1 .. n - 1 : Front(s)[i] = s[i]
    <2>1. \A i \in 1 .. n - 1 : s[i] \in S
      BY <1>2
    <2>2. /\ SubSeq(s, 1, n - 1) \in Seq(S)
          /\ Len(SubSeq(s, 1, n - 1)) = IF 1 <= n - 1 THEN (n - 1) - 1 + 1 ELSE 0
          /\ \A i \in 1 .. (n - 1) - 1 + 1 : SubSeq(s, 1, n - 1)[i] = s[1 + i - 1]
      BY <1>3, <2>1, SubSeqProperties
    <2>3. \A i \in 1 .. n - 1 : i \in 1 .. (n - 1) - 1 + 1 /\ 1 + i - 1 = i
      BY <1>2
    <2> QED
      BY <1>2, <1>3, <2>2, <2>3
  <1>5. ASSUME NEW e \in S, NEW u \in Seq(S), Len(u) = n, u[n] = e, \A i \in 1 .. n - 1 : u[i] = s[i]
        PROVE  u = Append(Front(s), e)
    <2>1. PICK v : v = Append(Front(s), e)
      OBVIOUS
    <2>2. v \in Seq(S) /\ Len(v) = n /\ v[n] = e /\ \A i \in 1 .. n - 1 : v[i] = s[i]
      BY <1>2, <1>4, <2>1, AppendProperties
    <2>3. \A i \in 1 .. Len(u) : u[i] = v[i]
      BY <1>2, <1>5, <2>2
    <2> QED
      BY <1>5, <2>1, <2>2, <2>3, SeqEqual
  <1>6. s = Append(Front(s), Last(s))
    BY <1>1, <1>2, <1>3, <1>5
  <1>7. ASSUME NEW e \in S PROVE HeadSet(s, e) = Append(Front(s), e)
    <2>1. PICK u : u = [s EXCEPT ![n] = e]
      OBVIOUS
    <2>2. u \in Seq(S) /\ Len(u) = n /\ \A j \in 1 .. n : u[j] = IF j = n THEN e ELSE s[j]
      BY <1>1, <1>2, <2>1, ExceptSeq
    <2>3. u[n] = e /\ \A i \in 1 .. n - 1 : u[i] = s[i]
      BY <1>2, <2>2
    <2>4. HeadSet(s, e) = u
      BY <1>1, <2>1 DEF HeadSet
    <2> QED
      BY <1>1, <1>5, <2>2, <2>3, <2>4
  <1> QED
    BY <1>1, <1>2, <1>3, <1>4, <1>6, <1>7

LEMMA ConcatAppend ==
    ASSUME NEW S, NEW s \in Seq(S), NEW t \in Seq(S), NEW e \in S
    PROVE  s \o Append(t, e) = Append(s \o t, e) /\ s \o t \in Seq(S)
  <1>1. <<e>> \in Seq(S) /\ s \o t \in Seq(S)
    BY ConcatProperties
  <1>2. Append(t, e) = t \o <<e>> /\ Append(s \o t, e) = (s \o t) \o <<e>>
    BY <1>1, AppendIsConcat
  <1> QED
    BY <1>1, <1>2, ConcatAssociative

-----------------------------------------------------------------------------
(* Buckets *)

Segment == [slotLimit : Nat \ {0}, slots : Seq(Nat \ {0})]
SlotsOf(segments) == [i \in DOMAIN segments |-> segments[i].slots]
LimitsOf(segments) == [i \in DOMAIN segments |-> segments[i].slotLimit]
Flat(segments) == FlattenSeq(SlotsOf(segments))
Limits(segments) == SumFunctionOnSet(LimitsOf(segments), DOMAIN segments)
BytesOf(s) == FoldSeq(+, 0, s)
Full(segments) == \A i \in 1 .. Len(segments) : SegmentFull(segments[i])

LEMMA IntervalGrows ==
    ASSUME NEW n \in Nat
    PROVE  IsFiniteSet(1 .. n) /\ n + 1 \notin 1 .. n /\ (1 .. n) \cup {n + 1} = 1 .. n + 1
  <1>1. IsFiniteSet(1 .. n)
    <2>1. n \in Int /\ 1 \in Int
      OBVIOUS
    <2> QED
      BY <2>1, FS_Interval
  <1>2. n + 1 \notin 1 .. n /\ (1 .. n) \cup {n + 1} = 1 .. n + 1
    OBVIOUS
  <1> QED
    BY <1>1, <1>2

LEMMA BytesAppend ==
    ASSUME NEW s \in Seq(Nat), NEW c \in Nat
    PROVE  BytesOf(s) \in Nat /\ BytesOf(Append(s, c)) = BytesOf(s) + c
  <1>1. \A u : BytesOf(u) = SumFunctionOnSet(u, DOMAIN u)
    BY DEF BytesOf, FoldSeq, FoldFunction, SumFunctionOnSet
  <1>2. PICK n, t : n = Len(s) /\ t = Append(s, c)
    OBVIOUS
  <1>3. /\ n \in Nat /\ DOMAIN s = 1 .. n /\ DOMAIN t = 1 .. n + 1
        /\ t[n + 1] = c /\ \A i \in 1 .. n : t[i] = s[i] /\ s[i] \in Nat
    BY <1>2, AppendProperties, LenProperties
  <1>4. /\ IsFiniteSet(1 .. n) /\ n + 1 \notin 1 .. n /\ (1 .. n) \cup {n + 1} = 1 .. n + 1
        /\ \A i \in (1 .. n) \cup {n + 1} : t[i] \in Nat
    BY <1>3, IntervalGrows
  <1>5. SumFunctionOnSet(t, 1 .. n + 1) = t[n + 1] + SumFunctionOnSet(t, 1 .. n)
    BY <1>4, SumAddElement
  <1>6. SumFunctionOnSet(t, 1 .. n) = SumFunctionOnSet(s, 1 .. n) /\ SumFunctionOnSet(s, 1 .. n) \in Nat
    BY <1>3, <1>4, SumAgrees, SumType
  <1>7. BytesOf(s) = SumFunctionOnSet(s, 1 .. n) /\ BytesOf(t) = SumFunctionOnSet(t, 1 .. n + 1)
    BY <1>1, <1>3
  <1>8. BytesOf(t) = c + BytesOf(s) /\ BytesOf(s) \in Nat
    BY <1>3, <1>5, <1>6, <1>7
  <1> QED
    BY <1>2, <1>8

LEMMA LimitsAppend ==
    ASSUME NEW s \in Seq(Segment), NEW g \in Segment
    PROVE  Limits(s) \in Nat /\ Limits(Append(s, g)) = Limits(s) + g.slotLimit
  <1>1. PICK n, t : n = Len(s) /\ t = Append(s, g)
    OBVIOUS
  <1>2. /\ n \in Nat /\ DOMAIN s = 1 .. n /\ DOMAIN t = 1 .. n + 1
        /\ t[n + 1] = g /\ \A i \in 1 .. n : t[i] = s[i] /\ s[i] \in Segment
    BY <1>1, AppendProperties, LenProperties
  <1>3. PICK u, v : u = LimitsOf(s) /\ v = LimitsOf(t)
    OBVIOUS
  <1>4. /\ DOMAIN u = 1 .. n /\ DOMAIN v = 1 .. n + 1 /\ v[n + 1] = g.slotLimit
        /\ g.slotLimit \in Nat /\ \A i \in 1 .. n : v[i] = u[i] /\ u[i] \in Nat
    <2>1. \A i \in 1 .. n : s[i].slotLimit \in Nat
      BY <1>2 DEF Segment
    <2>2. g.slotLimit \in Nat
      BY DEF Segment
    <2> QED
      BY <1>2, <1>3, <2>1, <2>2 DEF LimitsOf
  <1>5. /\ IsFiniteSet(1 .. n) /\ n + 1 \notin 1 .. n /\ (1 .. n) \cup {n + 1} = 1 .. n + 1
        /\ \A i \in (1 .. n) \cup {n + 1} : v[i] \in Nat
    BY <1>2, <1>4, IntervalGrows
  <1>6. SumFunctionOnSet(v, 1 .. n + 1) = v[n + 1] + SumFunctionOnSet(v, 1 .. n)
    BY <1>5, SumAddElement
  <1>7. SumFunctionOnSet(v, 1 .. n) = SumFunctionOnSet(u, 1 .. n) /\ SumFunctionOnSet(u, 1 .. n) \in Nat
    BY <1>4, <1>5, SumAgrees, SumType
  <1> QED
    BY <1>1, <1>2, <1>3, <1>4, <1>6, <1>7 DEF Limits

LEMMA FlatAppend ==
    ASSUME NEW s \in Seq(Segment), NEW g \in Segment
    PROVE  Flat(s) \in Seq(Nat \ {0}) /\ Flat(Append(s, g)) = Flat(s) \o g.slots
  <1>1. PICK n, t : n = Len(s) /\ t = Append(s, g)
    OBVIOUS
  <1>2. /\ n \in Nat /\ DOMAIN s = 1 .. n /\ DOMAIN t = 1 .. n + 1 /\ Len(t) = n + 1
        /\ t[n + 1] = g /\ \A i \in 1 .. n : t[i] = s[i] /\ s[i] \in Segment
    BY <1>1, AppendProperties, LenProperties
  <1>3. PICK u, v : u = SlotsOf(s) /\ v = SlotsOf(t)
    OBVIOUS
  <1>4. PICK T : T = Seq(Nat \ {0})
    OBVIOUS
  <1>5. g.slots \in T /\ \A i \in 1 .. n : s[i].slots \in T
    BY <1>2, <1>4 DEF Segment
  <1>6. u \in [1 .. n -> T] /\ v \in [1 .. n + 1 -> T]
    BY <1>2, <1>3, <1>5 DEF SlotsOf
  <1>7. u \in Seq(T) /\ v \in Seq(T) /\ Len(u) = n /\ Len(v) = n + 1
    BY <1>2, <1>6, SeqDef
  <1>8. v = Append(u, g.slots)
    <2>1. PICK w : w = Append(u, g.slots)
      OBVIOUS
    <2>2. w \in Seq(T) /\ Len(w) = n + 1 /\ w[n + 1] = g.slots /\ \A i \in 1 .. n : w[i] = u[i]
      BY <1>5, <1>7, <2>1, AppendProperties
    <2>3. v[n + 1] = g.slots /\ \A i \in 1 .. n : v[i] = u[i]
      BY <1>2, <1>3 DEF SlotsOf
    <2>4. \A i \in 1 .. Len(v) : v[i] = w[i]
      BY <1>2, <1>7, <2>2, <2>3
    <2> QED
      BY <1>7, <2>1, <2>2, <2>4, SeqEqual
  <1> QED
    BY <1>1, <1>3, <1>4, <1>5, <1>7, <1>8, FlattenAppend DEF Flat

LEMMA OfNothing == Flat(<<>>) = <<>> /\ Limits(<<>>) = 0 /\ BytesOf(<<>>) = 0
  <1>1. SlotsOf(<<>>) = <<>> /\ DOMAIN <<>> = {} /\ Len(<<>>) = 0
    BY DEF SlotsOf
  <1>2. Flat(<<>>) = <<>>
    BY <1>1, FlattenUnfolded DEF Flat
  <1>3. Limits(<<>>) = 0
    BY <1>1, SumEmpty DEF Limits
  <1>4. BytesOf(<<>>) = 0
    BY <1>1, SumEmpty DEF BytesOf, FoldSeq, FoldFunction, SumFunctionOnSet
  <1> QED
    BY <1>2, <1>3, <1>4

LEMMA HeadIs ==
    ASSUME NEW S, NEW s \in Seq(S), NEW g \in S
    PROVE  /\ Append(s, g) \in Seq(S) /\ Append(s, g) # <<>>
           /\ Last(Append(s, g)) = g /\ Front(Append(s, g)) = s
           /\ \A e \in S : HeadSet(Append(s, g), e) = Append(s, e)
  <1>1. PICK t : t = Append(s, g)
    OBVIOUS
  <1>2. t \in Seq(S) /\ t # <<>> /\ Len(t) = Len(s) + 1 /\ t[Len(t)] = g
    BY <1>1, AppendProperties
  <1>3. /\ Front(t) \in Seq(S) /\ Last(t) \in S /\ t = Append(Front(t), Last(t))
    BY <1>2, SplitLast
  <1>4. \A e \in S : HeadSet(t, e) = Append(Front(t), e)
    BY <1>2, SplitLast
  <1>5. Last(t) = g /\ Front(t) = s
    BY <1>1, <1>3, AppendInjective
  <1> QED
    BY <1>1, <1>2, <1>4, <1>5

BucketSet == [segments : Seq(Segment), retainedBuffers : Nat, retainedBytes : Nat]

(* The bucket has the full segments s and the head segment g. *)
Stores(b, s, g) ==
    /\ b = [segments        |-> Append(s, g),
            retainedBuffers |-> Len(Flat(s)) + Len(g.slots),
            retainedBytes   |-> BytesOf(Flat(s) \o g.slots)]
    /\ Full(s) /\ Limits(s) = Len(Flat(s))
    /\ g.slots # <<>> /\ Len(g.slots) <= g.slotLimit
    /\ Limits(s) + g.slotLimit <= SlotLimit

Well(b) == b = EmptyBucket \/ \E s \in Seq(Segment), g \in Segment : Stores(b, s, g)

Capacity == Nat \ {0}

LEMMA StoresFacts ==
    ASSUME NEW b, NEW s \in Seq(Segment), NEW g \in Segment, Stores(b, s, g)
    PROVE  /\ b \in BucketSet /\ b.retainedBuffers # 0
           /\ Contents(b) \in Seq(Capacity) /\ Contents(b) = Flat(s) \o g.slots
           /\ Len(Contents(b)) = Len(Flat(s)) + Len(g.slots)
           /\ CountsAgree(b) /\ SegmentsLazy(b)
  <1>1. PICK t : t = Append(s, g)
    OBVIOUS
  <1>2. /\ t \in Seq(Segment) /\ Len(t) = Len(s) + 1 /\ t[Len(s) + 1] = g
        /\ DOMAIN t = 1 .. Len(t) /\ Len(s) \in Nat
        /\ \A i \in 1 .. Len(s) : t[i] = s[i] /\ s[i] \in Segment
    BY <1>1, AppendProperties, LenProperties
  <1>3. /\ b.segments = t /\ b.retainedBuffers = Len(Flat(s)) + Len(g.slots)
        /\ b.retainedBytes = BytesOf(Flat(s) \o g.slots)
    BY <1>1 DEF Stores
  <1>4. g.slots \in Seq(Capacity) /\ g.slotLimit \in Nat \ {0}
    BY DEF Segment, Capacity
  <1>5. Flat(s) \in Seq(Capacity) /\ Flat(t) = Flat(s) \o g.slots
    BY <1>1, FlatAppend DEF Capacity
  <1>6. Contents(b) = Flat(t)
    BY <1>3 DEF Contents, Flat, SlotsOf
  <1>7. PICK u : u = Flat(s) \o g.slots
    OBVIOUS
  <1>8. u \in Seq(Capacity) /\ Len(u) = Len(Flat(s)) + Len(g.slots)
    BY <1>4, <1>5, <1>7, ConcatProperties
  <1>9. Len(g.slots) \in Nat \ {0} /\ Len(Flat(s)) \in Nat
    BY <1>4, <1>5, EmptySeq, LenProperties DEF Stores
  <1>10. BytesOf(u) \in Nat
    <2>1. u \in Seq(Nat)
      BY <1>8, SeqMonotonic DEF Capacity
    <2> QED
      BY <2>1, BytesAppend
  <1>11. b \in BucketSet /\ b.retainedBuffers # 0
    <2>1. b = [segments |-> t, retainedBuffers |-> Len(Flat(s)) + Len(g.slots), retainedBytes |-> BytesOf(u)]
      BY <1>1, <1>7 DEF Stores
    <2> QED
      BY <1>2, <1>9, <1>10, <2>1 DEF BucketSet
  <1>12. Limits(t) = Limits(s) + g.slotLimit /\ Limits(t) <= SlotLimit
    BY <1>1, LimitsAppend DEF Stores
  <1>13. CountsAgree(b)
    <2>1. b.retainedBuffers = Len(Contents(b))
      BY <1>3, <1>5, <1>6, <1>7, <1>8
    <2>2. Len(Contents(b)) <= SlotLimit
      BY <1>5, <1>6, <1>7, <1>8, <1>9, <1>4, <1>12, LimitsAssumption DEF Stores
    <2>3. b.retainedBytes = FoldSeq(+, 0, Contents(b))
      BY <1>3, <1>5, <1>6 DEF BytesOf
    <2> QED
      BY <2>1, <2>2, <2>3 DEF CountsAgree
  <1>14. SegmentsLazy(b)
    <2>1. ASSUME NEW i \in DOMAIN t
          PROVE  t[i].slots # <<>> /\ (i < Len(t) => SegmentFull(t[i]))
      <3>1. CASE i = Len(s) + 1
        BY <1>2, <3>1 DEF Stores
      <3>2. CASE i # Len(s) + 1
        <4>1. i \in 1 .. Len(s) /\ t[i] = s[i] /\ s[i] \in Segment
          BY <1>2, <3>2
        <4>2. Len(s[i].slots) = s[i].slotLimit /\ s[i].slotLimit \in Nat \ {0}
          BY <4>1 DEF Stores, Full, SegmentFull, Segment
        <4>3. s[i].slots # <<>>
          BY <4>2
        <4> QED
          BY <4>1, <4>2, <4>3 DEF SegmentFull
      <3> QED
        BY <3>1, <3>2
    <2>2. SumFunctionOnSet(LimitsOf(t), DOMAIN t) <= SlotLimit
      BY <1>12 DEF Limits
    <2> QED
      BY <1>3, <2>1, <2>2 DEF SegmentsLazy, LimitsOf
  <1> QED
    BY <1>3, <1>5, <1>6, <1>7, <1>8, <1>11, <1>13, <1>14

LEMMA EmptyFacts ==
    /\ EmptyBucket \in BucketSet /\ EmptyBucket.retainedBuffers = 0
    /\ Contents(EmptyBucket) = <<>>
    /\ CountsAgree(EmptyBucket) /\ SegmentsLazy(EmptyBucket)
  <1>1. EmptyBucket \in BucketSet /\ EmptyBucket.retainedBuffers = 0
    BY EmptySeq DEF EmptyBucket, BucketSet
  <1>2. Contents(EmptyBucket) = <<>>
    BY OfNothing DEF EmptyBucket, Contents, Flat, SlotsOf
  <1>3. Len(<<>>) = 0 /\ 0 <= SlotLimit /\ BytesOf(<<>>) = 0 /\ Limits(<<>>) = 0 /\ DOMAIN <<>> = {}
    BY OfNothing, LimitsAssumption
  <1>4. CountsAgree(EmptyBucket)
    BY <1>2, <1>3 DEF CountsAgree, BytesOf, EmptyBucket
  <1>5. SegmentsLazy(EmptyBucket)
    <2>1. EmptyBucket.segments = <<>>
      BY DEF EmptyBucket
    <2>2. SumFunctionOnSet(LimitsOf(<<>>), DOMAIN <<>>) <= SlotLimit
      BY <1>3 DEF Limits
    <2> QED
      BY <1>3, <2>1, <2>2 DEF SegmentsLazy, LimitsOf
  <1> QED
    BY <1>1, <1>2, <1>4, <1>5

(* What a well-formed bucket is worth *)
LEMMA WellFacts ==
    ASSUME NEW b, Well(b)
    PROVE  /\ b \in BucketSet /\ Contents(b) \in Seq(Capacity)
           /\ CountsAgree(b) /\ SegmentsLazy(b)
           /\ b.retainedBuffers = Len(Contents(b)) /\ b.retainedBytes = BytesOf(Contents(b))
           /\ b.retainedBuffers \in Nat /\ b.retainedBytes \in Nat
           /\ b.retainedBuffers # 0 => \E s \in Seq(Segment), g \in Segment : Stores(b, s, g)
  <1>1. /\ b \in BucketSet /\ Contents(b) \in Seq(Capacity)
        /\ CountsAgree(b) /\ SegmentsLazy(b)
    BY EmptyFacts, EmptySeq, StoresFacts DEF Well
  <1>2. b.retainedBuffers # 0 => \E s \in Seq(Segment), g \in Segment : Stores(b, s, g)
    BY EmptyFacts DEF Well
  <1>3. b.retainedBuffers = Len(Contents(b)) /\ b.retainedBytes = BytesOf(Contents(b))
    BY <1>1 DEF CountsAgree, BytesOf
  <1>4. b.retainedBuffers \in Nat /\ b.retainedBytes \in Nat
    BY <1>1 DEF BucketSet
  <1> QED
    BY <1>1, <1>2, <1>3, <1>4

(* A buffer with capacity goes on top of a bucket that is not full. *)
LEMMA PushedWell ==
    ASSUME NEW b, Well(b), ~IsFull(b), NEW c \in Capacity
    PROVE  Well(Pushed(b, c)) /\ Contents(Pushed(b, c)) = Append(Contents(b), c)
  <1> DEFINE new == [slotLimit |-> NextSegmentSlotLimit(b), slots |-> <<>>]
             ToHead(s, g) ==
                /\ EnsureHeadSegment(b) = Append(s, g)
                /\ s \in Seq(Segment) /\ g \in Segment /\ Full(s)
                /\ Limits(s) = Len(Flat(s)) /\ Len(g.slots) < g.slotLimit
                /\ Limits(s) + g.slotLimit <= SlotLimit
                /\ b.retainedBuffers = Len(Flat(s)) + Len(g.slots)
                /\ b.retainedBytes = BytesOf(Flat(s) \o g.slots)
                /\ Contents(b) = Flat(s) \o g.slots
  <1>1. /\ b \in BucketSet /\ b.retainedBuffers \in Nat /\ b.retainedBuffers < SlotLimit
        /\ b.retainedBuffers = Len(Contents(b)) /\ b.retainedBytes = BytesOf(Contents(b))
    <2>1. b \in BucketSet /\ CountsAgree(b) /\ b.retainedBuffers \in Nat
      BY WellFacts
    <2>2. b.retainedBuffers = Len(Contents(b)) /\ b.retainedBytes = BytesOf(Contents(b))
      BY <2>1 DEF CountsAgree, BytesOf
    <2>3. b.retainedBuffers <= SlotLimit /\ b.retainedBuffers # SlotLimit /\ SlotLimit \in Nat
      BY <2>1, LimitsAssumption DEF CountsAgree, IsFull
    <2> QED
      BY <2>1, <2>2, <2>3
  <1>2. new \in Segment /\ new.slots = <<>> /\ new.slotLimit > 0
        /\ b.retainedBuffers + new.slotLimit <= SlotLimit
    BY <1>1, EmptySeq, LimitsAssumption DEF NextSegmentSlotLimit, Segment
  <1>3. \E s, g : ToHead(s, g)
    <2>1. CASE b = EmptyBucket
      <3>1. b.segments = <<>> /\ Contents(b) = <<>> /\ b.retainedBuffers = 0
        BY <2>1, EmptyFacts DEF EmptyBucket
      <3>2. EnsureHeadSegment(b) = Append(<<>>, new)
        BY <3>1 DEF EnsureHeadSegment, HasHead
      <3>3. /\ <<>> \in Seq(Segment) /\ Full(<<>>) /\ Limits(<<>>) = Len(Flat(<<>>)) /\ Len(<<>>) = 0
            /\ Flat(<<>>) \o <<>> = <<>> /\ Limits(<<>>) = 0
        BY OfNothing, EmptySeq, ConcatEmptySeq DEF Full
      <3> HIDE DEF new
      <3>4. ToHead(<<>>, new)
        BY <1>1, <1>2, <3>1, <3>2, <3>3
      <3> QED
        BY <3>4
    <2>2. ASSUME NEW s \in Seq(Segment), NEW g \in Segment, Stores(b, s, g)
          PROVE  \E r, h : ToHead(r, h)
      <3>1. /\ b.segments = Append(s, g) /\ Last(b.segments) = g /\ b.segments # <<>>
            /\ Contents(b) = Flat(s) \o g.slots /\ Append(s, g) \in Seq(Segment)
            /\ b.retainedBuffers = Len(Flat(s)) + Len(g.slots)
        <4>1. b.segments = Append(s, g) /\ b.retainedBuffers = Len(Flat(s)) + Len(g.slots)
          BY <2>2 DEF Stores
        <4>2. Last(Append(s, g)) = g /\ Append(s, g) # <<>> /\ Append(s, g) \in Seq(Segment)
          BY HeadIs
        <4>3. Contents(b) = Flat(s) \o g.slots
          BY <2>2, StoresFacts
        <4> QED
          BY <4>1, <4>2, <4>3
      <3>2. /\ Full(s) /\ Limits(s) = Len(Flat(s)) /\ Len(g.slots) <= g.slotLimit
            /\ Limits(s) + g.slotLimit <= SlotLimit
        BY <2>2 DEF Stores
      <3>3. Len(g.slots) \in Nat /\ g.slotLimit \in Nat /\ Len(Flat(s)) \in Nat
        BY FlatAppend, LenProperties DEF Segment
      <3>4. CASE Len(g.slots) # g.slotLimit
        <4>1. EnsureHeadSegment(b) = Append(s, g)
          BY <3>1, <3>4 DEF EnsureHeadSegment, HasHead, HeadSegment, SegmentFull
        <4>2. ToHead(s, g)
          BY <1>1, <3>1, <3>2, <3>3, <3>4, <4>1
        <4> QED
          BY <4>2
      <3>5. CASE Len(g.slots) = g.slotLimit
        <4>1. EnsureHeadSegment(b) = Append(Append(s, g), new)
          BY <3>1, <3>5 DEF EnsureHeadSegment, HasHead, HeadSegment, SegmentFull
        <4>2. PICK t : t = Append(s, g)
          OBVIOUS
        <4>3. t \in Seq(Segment) /\ Flat(t) = Flat(s) \o g.slots /\ Flat(t) \in Seq(Capacity)
          BY <3>1, <4>2, FlatAppend DEF Capacity
        <4>4. Limits(t) = Limits(s) + g.slotLimit
          BY <4>2, LimitsAppend
        <4>5. Len(Flat(t)) = b.retainedBuffers
          BY <1>1, <3>1, <4>3
        <4>6. Limits(t) = Len(Flat(t))
          BY <3>1, <3>2, <3>3, <3>5, <4>4, <4>5
        <4>7. Full(t)
          <5>1. ASSUME NEW i \in 1 .. Len(t) PROVE SegmentFull(t[i])
            <6>1. /\ Len(t) = Len(s) + 1 /\ t[Len(s) + 1] = g /\ Len(s) \in Nat
                  /\ \A j \in 1 .. Len(s) : t[j] = s[j]
              BY <4>2, AppendProperties, LenProperties
            <6>2. CASE i = Len(s) + 1
              BY <3>5, <6>1, <6>2 DEF SegmentFull
            <6>3. CASE i # Len(s) + 1
              <7>1. i \in 1 .. Len(s)
                BY <6>1, <6>3
              <7> QED
                BY <3>2, <6>1, <7>1 DEF Full
            <6> QED
              BY <6>2, <6>3
          <5> QED
            BY <5>1 DEF Full
        <4>8. Flat(t) \o <<>> = Flat(t) /\ Len(<<>>) = 0
          BY <4>3, ConcatEmptySeq
        <4> HIDE DEF new
        <4>9. ToHead(t, new)
          BY <1>1, <1>2, <3>1, <4>1, <4>2, <4>3, <4>5, <4>6, <4>7, <4>8
        <4> QED
          BY <4>9
      <3> QED
        BY <3>4, <3>5
    <2> QED
      BY <2>1, <2>2 DEF Well
  <1> HIDE DEF new
  <1>4. PICK s, g : ToHead(s, g)
    BY <1>3
  <1>5. PICK h : h = [slotLimit |-> g.slotLimit, slots |-> Append(g.slots, c)]
    OBVIOUS
  <1>6. g.slots \in Seq(Capacity) /\ g.slotLimit \in Nat \ {0} /\ g = [slotLimit |-> g.slotLimit, slots |-> g.slots]
    BY <1>4 DEF Segment, Capacity
  <1>7. /\ h.slots = Append(g.slots, c) /\ h.slots \in Seq(Capacity) /\ h.slotLimit = g.slotLimit
        /\ Len(h.slots) = Len(g.slots) + 1 /\ h.slots # <<>> /\ Len(g.slots) \in Nat
    BY <1>5, <1>6, AppendProperties, LenProperties
  <1>8. h \in Segment
    BY <1>5, <1>6, <1>7 DEF Segment, Capacity
  <1>9. PICK t : t = Append(s, g)
    OBVIOUS
  <1>10. t[Len(t)] = g /\ HeadSet(t, h) = Append(s, h)
    <2>1. HeadSet(Append(s, g), h) = Append(s, h)
      BY <1>4, <1>8, HeadIs
    <2>2. t[Len(t)] = g
      BY <1>4, <1>9, AppendProperties
    <2> QED
      BY <1>9, <2>1, <2>2
  <1>11. [t EXCEPT ![Len(t)].slots = Append(@, c)] = Append(s, h)
    <2>1. [g EXCEPT !.slots = Append(@, c)] = h
      <3>1. g \in [slotLimit : Nat \ {0}, slots : Seq(Nat \ {0})]
        BY <1>4 DEF Segment
      <3>2. PICK u : u = Append(g.slots, c)
        OBVIOUS
      <3>3. [g EXCEPT !.slots = u] = [slotLimit |-> g.slotLimit, slots |-> u]
        BY <3>1
      <3> QED
        BY <1>5, <3>2, <3>3
    <2> QED
      BY <1>10, <2>1 DEF HeadSet
  <1>12. Flat(s) \in Seq(Capacity) /\ Len(Flat(s)) \in Nat
    BY <1>4, FlatAppend, LenProperties DEF Capacity
  <1>13. Flat(s) \o h.slots = Append(Contents(b), c) /\ Contents(b) \in Seq(Capacity)
    <2>1. /\ Flat(s) \o Append(g.slots, c) = Append(Flat(s) \o g.slots, c)
          /\ Flat(s) \o g.slots \in Seq(Capacity)
      BY <1>6, <1>12, ConcatAppend
    <2> QED
      BY <1>4, <1>7, <2>1
  <1>14. BytesOf(Append(Contents(b), c)) = b.retainedBytes + c
    <2>1. Contents(b) \in Seq(Nat) /\ c \in Nat
      BY <1>13, SeqMonotonic DEF Capacity
    <2> QED
      BY <1>1, <2>1, BytesAppend
  <1>15. Pushed(b, c) = [segments |-> Append(s, h), retainedBuffers |-> Len(Flat(s)) + Len(h.slots),
                         retainedBytes |-> BytesOf(Flat(s) \o h.slots)]
    <2>1. b.retainedBuffers + 1 = Len(Flat(s)) + Len(h.slots)
      BY <1>4, <1>7, <1>12
    <2>2. b.retainedBytes + c = BytesOf(Flat(s) \o h.slots)
      BY <1>13, <1>14
    <2>3. EnsureHeadSegment(b) = t
      BY <1>4, <1>9
    <2> QED
      BY <1>11, <2>1, <2>2, <2>3 DEF Pushed
  <1>16. Stores(Pushed(b, c), s, h)
    <2>1. Len(h.slots) <= h.slotLimit /\ Limits(s) + h.slotLimit <= SlotLimit
      BY <1>4, <1>6, <1>7
    <2> QED
      BY <1>4, <1>7, <1>15, <2>1 DEF Stores
  <1>17. Well(Pushed(b, c))
    BY <1>4, <1>8, <1>16 DEF Well
  <1>18. Contents(Pushed(b, c)) = Append(Contents(b), c)
    BY <1>4, <1>8, <1>13, <1>16, StoresFacts
  <1> QED
    BY <1>17, <1>18

(* A pop removes the top of a bucket that is not empty. *)
LEMMA PoppedWell ==
    ASSUME NEW b, Well(b), b.retainedBuffers # 0
    PROVE  /\ Well(Popped(b)) /\ PeekHeadCapacity(b) \in Capacity
           /\ Contents(b) = Append(Contents(Popped(b)), PeekHeadCapacity(b))
           /\ Popped(b).retainedBuffers = b.retainedBuffers - 1
           /\ Popped(b).retainedBytes = b.retainedBytes - PeekHeadCapacity(b)
  <1>1. PICK s \in Seq(Segment), g \in Segment : Stores(b, s, g)
    BY WellFacts
  <1>2. /\ g.slots \in Seq(Capacity) /\ g.slots # <<>> /\ g.slotLimit \in Nat \ {0}
        /\ Len(g.slots) <= g.slotLimit
    BY <1>1 DEF Stores, Segment, Capacity
  <1>3. PICK x, p : x = Front(g.slots) /\ p = Last(g.slots)
    OBVIOUS
  <1>4. /\ x \in Seq(Capacity) /\ p \in Capacity /\ g.slots = Append(x, p)
        /\ Len(g.slots) = Len(x) + 1 /\ Len(x) \in Nat
    BY <1>2, <1>3, SplitLast
  <1>5. PICK t : t = Append(s, g)
    OBVIOUS
  <1>6. b.segments = t /\ Last(t) = g /\ t[Len(t)] = g
    <2>1. Last(Append(s, g)) = g
      BY HeadIs
    <2>2. t[Len(t)] = g
      BY <1>5, AppendProperties
    <2> QED
      BY <1>1, <1>5, <2>1, <2>2 DEF Stores
  <1>7. PeekHeadCapacity(b) = p
    BY <1>3, <1>6 DEF PeekHeadCapacity, HeadSegment
  <1>8. PICK h : h = [slotLimit |-> g.slotLimit, slots |-> x]
    OBVIOUS
  <1>9. h \in Segment /\ h.slots = x /\ h.slotLimit = g.slotLimit
    BY <1>2, <1>4, <1>8 DEF Segment, Capacity
  <1>10. [t EXCEPT ![Len(t)].slots = Front(@)] = Append(s, h)
    <2>1. [g EXCEPT !.slots = Front(@)] = h
      <3>1. g \in [slotLimit : Nat \ {0}, slots : Seq(Nat \ {0})]
        BY DEF Segment
      <3>2. [g EXCEPT !.slots = x] = [slotLimit |-> g.slotLimit, slots |-> x]
        BY <3>1
      <3> QED
        BY <1>3, <1>8, <3>2
    <2>2. HeadSet(t, h) = Append(s, h)
      BY <1>5, <1>9, HeadIs
    <2> QED
      BY <1>6, <2>1, <2>2 DEF HeadSet
  <1>11. Last(Append(s, h)) = h /\ Front(Append(s, h)) = s
    BY <1>9, HeadIs
  <1>12. PICK u : u = Flat(s) \o x
    OBVIOUS
  <1>13. Flat(s) \in Seq(Capacity)
    BY FlatAppend DEF Capacity
  <1>14. Contents(b) = Append(u, p) /\ u \in Seq(Capacity) /\ Len(u) = Len(Flat(s)) + Len(x)
    <2>1. Contents(b) = Flat(s) \o g.slots
      BY <1>1, StoresFacts
    <2>2. Flat(s) \o Append(x, p) = Append(Flat(s) \o x, p) /\ Flat(s) \o x \in Seq(Capacity)
      BY <1>4, <1>13, ConcatAppend
    <2>3. Len(Flat(s) \o x) = Len(Flat(s)) + Len(x)
      BY <1>4, <1>13, ConcatProperties
    <2> QED
      BY <1>4, <1>12, <2>1, <2>2, <2>3
  <1>15. b.retainedBytes - p = BytesOf(u)
    <2>1. u \in Seq(Nat) /\ p \in Nat
      BY <1>4, <1>14, SeqMonotonic DEF Capacity
    <2>2. BytesOf(u) \in Nat /\ BytesOf(Append(u, p)) = BytesOf(u) + p
      BY <2>1, BytesAppend
    <2>3. b.retainedBytes = BytesOf(Append(u, p))
      BY <1>14, WellFacts
    <2> QED
      BY <2>1, <2>2, <2>3
  <1>16. Len(Flat(s)) \in Nat /\ b.retainedBuffers - 1 = Len(Flat(s)) + Len(x)
    <2>1. Len(Flat(s)) \in Nat
      BY <1>13, LenProperties
    <2>2. b.retainedBuffers = Len(Flat(s)) + Len(g.slots)
      BY <1>1 DEF Stores
    <2> QED
      BY <1>4, <2>1, <2>2
  <1>17. PICK q : q = ReleaseEmptyHeadSegment(Append(s, h))
    OBVIOUS
  <1>18. q = IF x = <<>> THEN s ELSE Append(s, h)
    BY <1>9, <1>11, <1>17 DEF ReleaseEmptyHeadSegment
  <1>19. Popped(b) = [segments |-> q, retainedBuffers |-> Len(Flat(s)) + Len(x),
                      retainedBytes |-> BytesOf(u)]
    BY <1>6, <1>7, <1>10, <1>15, <1>16, <1>17 DEF Popped, BytesAfterPop
  <1>20. /\ Full(s) /\ Limits(s) = Len(Flat(s)) /\ Limits(s) + g.slotLimit <= SlotLimit
    BY <1>1 DEF Stores
  <1>21. Well(Popped(b)) /\ Contents(Popped(b)) = u
    <2>1. CASE x # <<>>
      <3>1. Len(x) <= h.slotLimit
        BY <1>2, <1>4, <1>9
      <3>2. q = Append(s, h)
        BY <1>18, <2>1
      <3>3. Stores(Popped(b), s, h)
        BY <1>9, <1>12, <1>19, <1>20, <2>1, <3>1, <3>2 DEF Stores
      <3> QED
        BY <1>9, <1>12, <3>3, StoresFacts DEF Well
    <2>2. CASE x = <<>>
      <3>1. u = Flat(s) /\ Len(x) = 0 /\ q = s
        BY <1>12, <1>13, <1>18, <2>2, ConcatEmptySeq
      <3>2. CASE s = <<>>
        <4>1. Popped(b) = EmptyBucket
          BY <1>19, <3>1, <3>2, OfNothing DEF EmptyBucket
        <4> QED
          BY <3>1, <3>2, <4>1, EmptyFacts, OfNothing DEF Well
      <3>3. CASE s # <<>>
        <4>1. PICK r, k : r = Front(s) /\ k = Last(s)
          OBVIOUS
        <4>2. /\ r \in Seq(Segment) /\ k \in Segment /\ s = Append(r, k)
              /\ Len(s) = Len(r) + 1 /\ Len(r) \in Nat /\ \A i \in 1 .. Len(r) : r[i] = s[i]
          BY <3>3, <4>1, SplitLast
        <4>3. s[Len(s)] = k
          BY <4>2, AppendProperties
        <4>4. Len(k.slots) = k.slotLimit /\ k.slotLimit \in Nat \ {0}
          <5>1. SegmentFull(s[Len(s)])
            BY <1>20, <4>2 DEF Full
          <5> QED
            BY <4>2, <4>3, <5>1 DEF SegmentFull, Segment
        <4>5. Full(r)
          BY <1>20, <4>2 DEF Full
        <4>6. /\ Limits(s) = Limits(r) + k.slotLimit /\ Limits(r) \in Nat
          BY <4>2, LimitsAppend
        <4>7. Flat(s) = Flat(r) \o k.slots /\ Flat(r) \in Seq(Capacity) /\ k.slots \in Seq(Capacity)
          BY <4>2, FlatAppend DEF Capacity, Segment
        <4>8. Len(Flat(s)) = Len(Flat(r)) + Len(k.slots) /\ Len(Flat(r)) \in Nat
          BY <4>7, ConcatProperties, LenProperties
        <4>9. Limits(r) = Len(Flat(r)) /\ Limits(r) + k.slotLimit <= SlotLimit
          <5>1. Limits(r) = Len(Flat(r))
            <6>1. PICK ml, mf, mk : ml = Limits(r) /\ mf = Len(Flat(r)) /\ mk = k.slotLimit
              OBVIOUS
            <6>2. ml \in Nat /\ mf \in Nat /\ mk \in Nat
              BY <4>4, <4>6, <4>8, <6>1
            <6>3. Limits(s) = ml + mk /\ Len(Flat(s)) = mf + mk
              BY <4>4, <4>6, <4>8, <6>1
            <6>4. ml + mk = mf + mk
              BY <1>20, <6>3
            <6> QED
              BY <6>1, <6>2, <6>4
          <5>2. Limits(r) + k.slotLimit <= SlotLimit
            <6>1. SlotLimit \in Nat /\ Limits(s) \in Nat /\ Limits(s) = Limits(r) + k.slotLimit
              BY <1>16, <1>20, <4>6, LimitsAssumption
            <6>2. Limits(s) + g.slotLimit <= SlotLimit /\ g.slotLimit \in Nat
              BY <1>2, <1>20
            <6>3. Limits(s) <= SlotLimit
              BY <6>1, <6>2
            <6> QED
              BY <6>1, <6>3
          <5> QED
            BY <5>1, <5>2
        <4>10. k.slots # <<>>
          BY <4>4
        <4>11. Popped(b) = [segments |-> Append(r, k), retainedBuffers |-> Len(Flat(r)) + Len(k.slots),
                            retainedBytes |-> BytesOf(Flat(r) \o k.slots)]
          <5>1. Len(Flat(s)) + Len(x) = Len(Flat(r)) + Len(k.slots)
            BY <1>16, <3>1, <4>8
          <5> QED
            BY <1>19, <3>1, <4>2, <4>7, <5>1
        <4>12. Stores(Popped(b), r, k)
          BY <4>4, <4>5, <4>9, <4>10, <4>11 DEF Stores
        <4> QED
          BY <3>1, <4>2, <4>7, <4>12, StoresFacts DEF Well
      <3> QED
        BY <3>2, <3>3
    <2> QED
      BY <2>1, <2>2
  <1>22. Popped(b).retainedBuffers = b.retainedBuffers - 1 /\ Popped(b).retainedBytes = b.retainedBytes - p
    BY <1>15, <1>16, <1>19
  <1> QED
    BY <1>4, <1>7, <1>14, <1>21, <1>22

-----------------------------------------------------------------------------
(* Trims *)

(* What a trim of b may have left and removed: what is left is what b had at its bottom. *)
TrimLeft(b) ==
    {l \in [bucket : BucketSet, buffers : Nat, bytes : Nat] :
        /\ Well(l.bucket)
        /\ l.bucket.retainedBuffers + l.buffers = b.retainedBuffers
        /\ l.bucket.retainedBytes + l.bytes = b.retainedBytes
        /\ \A i \in 1 .. l.bucket.retainedBuffers : Contents(l.bucket)[i] = Contents(b)[i]}

LEMMA TrimmedNextLeft ==
    ASSUME NEW b, NEW m \in Nat, NEW l \in TrimLeft(b), l.bucket.retainedBuffers # 0
    PROVE  /\ TrimmedNext(l, m) \in TrimLeft(b)
           /\ TrimmedNext(l, m).buffers \in {l.buffers, l.buffers + 1}
           /\ l.bytes <= m => TrimmedNext(l, m).bytes <= m
           /\ \/ TrimmedNext(l, m).buffers = l.buffers + 1
              \/ TrimmedNext(l, m) = l /\ ~TrimFits(l.bucket, l, m)
  <1>1. /\ Well(l.bucket) /\ l.buffers \in Nat /\ l.bytes \in Nat
        /\ l.bucket.retainedBuffers + l.buffers = b.retainedBuffers
        /\ l.bucket.retainedBytes + l.bytes = b.retainedBytes
        /\ \A i \in 1 .. l.bucket.retainedBuffers : Contents(l.bucket)[i] = Contents(b)[i]
    BY DEF TrimLeft
  <1>2. PICK d, p : d = Popped(l.bucket) /\ p = PeekHeadCapacity(l.bucket)
    OBVIOUS
  <1>3. /\ Well(d) /\ p \in Nat /\ Contents(l.bucket) = Append(Contents(d), p)
        /\ d.retainedBuffers = l.bucket.retainedBuffers - 1
        /\ d.retainedBytes = l.bucket.retainedBytes - p
    BY <1>1, <1>2, PoppedWell DEF Capacity
  <1>4. /\ d \in BucketSet /\ d.retainedBuffers \in Nat /\ d.retainedBytes \in Nat
        /\ Contents(d) \in Seq(Capacity) /\ d.retainedBuffers = Len(Contents(d))
    BY <1>3, WellFacts
  <1>5. l.bucket.retainedBuffers \in Nat /\ l.bucket.retainedBytes \in Nat
    BY <1>1, WellFacts
  <1>6. PICK r : r = TrimmedOne(l)
    OBVIOUS
  <1>7. r = [bucket |-> d, buffers |-> l.buffers + 1, bytes |-> l.bytes + p]
    BY <1>2, <1>6 DEF TrimmedOne, Left
  <1>8. r \in TrimLeft(b)
    <2>1. d.retainedBuffers + (l.buffers + 1) = b.retainedBuffers
      <3>1. PICK x, y : x = l.bucket.retainedBuffers /\ y = l.buffers
        OBVIOUS
      <3>2. x \in Nat /\ y \in Nat /\ x + y = b.retainedBuffers /\ d.retainedBuffers = x - 1
        BY <1>1, <1>3, <1>5, <3>1
      <3> QED
        BY <3>1, <3>2
    <2>2. d.retainedBytes + (l.bytes + p) = b.retainedBytes
      <3>1. PICK x, y : x = l.bucket.retainedBytes /\ y = l.bytes
        OBVIOUS
      <3>2. x \in Nat /\ y \in Nat /\ x + y = b.retainedBytes /\ d.retainedBytes = x - p
        BY <1>1, <1>3, <1>5, <3>1
      <3> QED
        BY <1>3, <3>1, <3>2
    <2>3. ASSUME NEW i \in 1 .. d.retainedBuffers PROVE Contents(d)[i] = Contents(b)[i]
      <3>1. i \in 1 .. l.bucket.retainedBuffers /\ i \in 1 .. Len(Contents(d))
        BY <1>3, <1>4, <1>5
      <3>2. Contents(l.bucket)[i] = Contents(d)[i]
        <4>1. p \in Capacity
          BY <1>1, <1>2, PoppedWell
        <4> QED
          BY <1>3, <1>4, <3>1, <4>1, AppendProperties
      <3> QED
        BY <1>1, <3>1, <3>2
    <2>4. r \in [bucket : BucketSet, buffers : Nat, bytes : Nat]
      BY <1>1, <1>3, <1>4, <1>7
    <2> QED
      BY <1>3, <1>7, <2>1, <2>2, <2>3, <2>4 DEF TrimLeft
  <1>9. CASE TrimFits(l.bucket, l, m)
    <2>1. TrimmedNext(l, m) = r
      BY <1>6, <1>9 DEF TrimmedNext
    <2>2. p <= m - l.bytes
      BY <1>2, <1>9 DEF TrimFits
    <2>3. r.bytes <= m /\ r.buffers = l.buffers + 1
      BY <1>1, <1>3, <1>7, <2>2
    <2> QED
      BY <1>8, <2>1, <2>3
  <1>10. CASE ~TrimFits(l.bucket, l, m)
    <2>1. TrimmedNext(l, m) = l
      BY <1>10 DEF TrimmedNext
    <2> QED
      BY <1>10, <2>1
  <1> QED
    BY <1>9, <1>10

(* f has what a trim of b with byte limit m has left after each of N turns of its loop. *)
Turns(f, b, m, N) ==
    f = [n \in 0 .. N |-> IF n = 0 THEN Left(b, None) ELSE TrimmedNext(f[n - 1], m)]

(* After n turns n buffers are gone, or the next does not fit. *)
After(l, b, m, n) ==
    /\ l \in TrimLeft(b) /\ l.buffers \in 0 .. n /\ l.bytes <= m
    /\ l.buffers = n \/ ~TrimFits(l.bucket, l, m)

LEMMA NothingTrimmed ==
    ASSUME NEW b, Well(b), NEW m \in Nat
    PROVE  After(Left(b, None), b, m, 0) /\ Left(b, None) \in TrimLeft(b)
  <1>1. b \in BucketSet /\ b.retainedBuffers \in Nat /\ b.retainedBytes \in Nat
    BY WellFacts
  <1>2. Left(b, None) = [bucket |-> b, buffers |-> 0, bytes |-> 0]
    BY DEF Left, None
  <1> QED
    BY <1>1, <1>2 DEF After, TrimLeft

LEMMA AfterNext ==
    ASSUME NEW b, NEW m \in Nat, NEW n \in Nat, n < b.retainedBuffers, b.retainedBuffers \in Nat,
           NEW l, After(l, b, m, n)
    PROVE  l.bucket.retainedBuffers # 0 /\ After(TrimmedNext(l, m), b, m, n + 1)
  <1>1. /\ l \in TrimLeft(b) /\ l.buffers \in 0 .. n /\ l.bytes <= m
        /\ l.buffers = n \/ ~TrimFits(l.bucket, l, m)
    BY DEF After
  <1>2. l.bucket.retainedBuffers + l.buffers = b.retainedBuffers /\ l.bucket.retainedBuffers \in Nat
    BY <1>1 DEF TrimLeft, BucketSet
  <1>3. l.bucket.retainedBuffers # 0
    BY <1>1, <1>2
  <1>4. PICK r : r = TrimmedNext(l, m)
    OBVIOUS
  <1>5. /\ r \in TrimLeft(b) /\ r.buffers \in {l.buffers, l.buffers + 1} /\ r.bytes <= m
        /\ r.buffers = l.buffers + 1 \/ (r = l /\ ~TrimFits(l.bucket, l, m))
    BY <1>1, <1>3, <1>4, TrimmedNextLeft
  <1>6. r.buffers \in 0 .. n + 1
    BY <1>1, <1>5
  <1>7. r.buffers = n + 1 \/ ~TrimFits(r.bucket, r, m)
    <2>1. CASE r = l /\ ~TrimFits(l.bucket, l, m)
      BY <2>1
    <2>2. CASE r.buffers = l.buffers + 1
      <3>1. CASE l.buffers = n
        BY <2>2, <3>1
      <3>2. CASE ~TrimFits(l.bucket, l, m)
        <4>1. r = l
          BY <1>4, <3>2 DEF TrimmedNext
        <4> QED
          BY <3>2, <4>1
      <3> QED
        BY <1>1, <3>1, <3>2
    <2> QED
      BY <1>5, <2>1, <2>2
  <1> QED
    BY <1>3, <1>4, <1>5, <1>6, <1>7 DEF After

LEMMA TurnsAfter ==
    ASSUME NEW b, Well(b), NEW m \in Nat, NEW N \in Nat, N <= b.retainedBuffers,
           NEW f, Turns(f, b, m, N)
    PROVE  \A n \in 0 .. N : After(f[n], b, m, n)
  <1>0. b.retainedBuffers \in Nat
    BY WellFacts
  <1> DEFINE W == {n \in Nat : n \in 0 .. N /\ ~After(f[n], b, m, n)}
  <1>1. ASSUME W # {} PROVE FALSE
    <2>1. PICK k \in W : \A j \in W : k <= j
      <3>1. W \in SUBSET Nat
        OBVIOUS
      <3> HIDE DEF W
      <3> QED
        BY <1>1, <3>1, LeastExists
    <2>2. k \in 0 .. N /\ ~After(f[k], b, m, k)
      BY <2>1
    <2>3. f[k] = IF k = 0 THEN Left(b, None) ELSE TrimmedNext(f[k - 1], m)
      BY <2>2 DEF Turns
    <2>4. CASE k = 0
      BY <2>2, <2>3, <2>4, NothingTrimmed
    <2>5. CASE k # 0
      <3>1. k - 1 \in Nat /\ k - 1 \in 0 .. N /\ k - 1 < b.retainedBuffers /\ (k - 1) + 1 = k
        BY <1>0, <2>2, <2>5
      <3>2. After(f[k - 1], b, m, k - 1)
        BY <2>1, <3>1
      <3>3. After(TrimmedNext(f[k - 1], m), b, m, (k - 1) + 1)
        BY <1>0, <3>1, <3>2, AfterNext
      <3> QED
        BY <2>2, <2>3, <2>5, <3>1, <3>3
    <2> QED
      BY <2>4, <2>5
  <1> QED
    BY <1>1

LEMMA TurnsExist ==
    ASSUME NEW b, Well(b), NEW m \in Nat, NEW N \in Nat, N <= b.retainedBuffers
    PROVE  \E f : Turns(f, b, m, N)
  <1>0. b.retainedBuffers \in Nat
    BY WellFacts
  <1>1. PICK A : A = TrimLeft(b)
    OBVIOUS
  <1>2. PICK F : F = [l \in A |-> IF l.bucket.retainedBuffers # 0 THEN TrimmedNext(l, m) ELSE l]
    OBVIOUS
  <1>3. F \in [A -> A]
    <2>1. \A l \in A : (IF l.bucket.retainedBuffers # 0 THEN TrimmedNext(l, m) ELSE l) \in A
      BY <1>1, TrimmedNextLeft
    <2> QED
      BY <1>2, <2>1
  <1>4. PICK base : base = Left(b, None)
    OBVIOUS
  <1>5. base \in A
    BY <1>1, <1>4, NothingTrimmed
  <1>6. PICK h : Iteration(h, N, A, base, F)
    BY <1>3, <1>5, IterationExists
  <1>7. h = [n \in 0 .. N |-> IF n = 0 THEN base ELSE F[h[n - 1]]]
    BY <1>6 DEF Iteration
  <1> DEFINE W == {n \in Nat : n \in 0 .. N /\ ~After(h[n], b, m, n)}
  <1>8. ASSUME NEW k \in Nat, k + 1 \in 0 .. N, After(h[k], b, m, k)
        PROVE  h[k + 1] = TrimmedNext(h[k], m) /\ After(h[k + 1], b, m, k + 1)
    <2>1. k + 1 # 0 /\ (k + 1) - 1 = k /\ k < b.retainedBuffers
      BY <1>0, <1>8
    <2>2. h[k + 1] = F[h[k]]
      BY <1>7, <1>8, <2>1
    <2>3. h[k].bucket.retainedBuffers # 0 /\ After(TrimmedNext(h[k], m), b, m, k + 1)
      BY <1>0, <1>8, <2>1, AfterNext
    <2>4. h[k] \in A
      BY <1>1, <1>8 DEF After
    <2> QED
      BY <1>2, <2>2, <2>3, <2>4
  <1>9. ASSUME W # {} PROVE FALSE
    <2>1. PICK k \in W : \A j \in W : k <= j
      <3>1. W \in SUBSET Nat
        OBVIOUS
      <3> HIDE DEF W
      <3> QED
        BY <1>9, <3>1, LeastExists
    <2>2. k \in 0 .. N /\ ~After(h[k], b, m, k)
      BY <2>1
    <2>3. CASE k = 0
      <3>1. h[0] = base
        BY <1>7
      <3> QED
        BY <1>4, <2>2, <2>3, <3>1, NothingTrimmed
    <2>4. CASE k # 0
      <3>1. k - 1 \in Nat /\ k - 1 \in 0 .. N /\ (k - 1) + 1 = k
        BY <2>2, <2>4
      <3>2. After(h[k - 1], b, m, k - 1)
        BY <2>1, <3>1
      <3>3. After(h[(k - 1) + 1], b, m, (k - 1) + 1)
        BY <1>8, <2>2, <3>1, <3>2
      <3> QED
        BY <2>2, <3>1, <3>3
    <2> QED
      BY <2>3, <2>4
  <1>10. ASSUME NEW n \in 0 .. N
         PROVE  h[n] = IF n = 0 THEN Left(b, None) ELSE TrimmedNext(h[n - 1], m)
    <2>1. CASE n = 0
      BY <1>4, <1>7, <2>1
    <2>2. CASE n # 0
      <3>1. n - 1 \in Nat /\ n - 1 \in 0 .. N /\ (n - 1) + 1 = n
        BY <2>2
      <3>2. After(h[n - 1], b, m, n - 1)
        BY <1>9, <3>1
      <3>3. h[(n - 1) + 1] = TrimmedNext(h[n - 1], m)
        BY <1>8, <3>1, <3>2
      <3> QED
        BY <2>2, <3>1, <3>3
    <2> QED
      BY <2>1, <2>2
  <1>11. h = [n \in 0 .. N |-> h[n]]
    BY <1>7
  <1>12. Turns(h, b, m, N)
    BY <1>10, <1>11 DEF Turns
  <1> QED
    BY <1>12

(* What trimBounded has left: as much is gone as both limits allow. *)
LEMMA TrimmedWell ==
    ASSUME NEW b, Well(b), NEW n \in Nat, NEW m \in Nat
    PROVE  \E k \in 0 .. b.retainedBuffers :
              /\ k <= n /\ (k = n \/ k = b.retainedBuffers)
              /\ After(TrimBounded(b, n, m), b, m, k)
  <1>0. b.retainedBuffers \in Nat
    BY WellFacts
  <1>1. PICK k : k = Min({n, b.retainedBuffers})
    OBVIOUS
  <1>2. k \in Nat /\ k <= n /\ k <= b.retainedBuffers /\ (k = n \/ k = b.retainedBuffers)
    <2>1. \E x \in {n, b.retainedBuffers} : \A y \in {n, b.retainedBuffers} : x <= y
      BY <1>0
    <2> QED
      BY <1>0, <1>1, <2>1 DEF Min
  <1>3. PICK f : f = CHOOSE g : Turns(g, b, m, k)
    OBVIOUS
  <1>4. Turns(f, b, m, k)
    BY <1>2, <1>3, TurnsExist
  <1>5. After(f[k], b, m, k)
    BY <1>2, <1>4, TurnsAfter
  <1>6. TrimBounded(b, n, m) = f[k]
    BY <1>1, <1>3 DEF TrimBounded, Turns
  <1> QED
    BY <1>0, <1>2, <1>5, <1>6

-----------------------------------------------------------------------------
(* Operations of a bucket *)

(* A call has put into the bucket what it says, ... *)
Adds(b, l) ==
    /\ Well(l.bucket) /\ l.buffers \in Nat /\ l.bytes \in Nat
    /\ l.bucket.retainedBuffers = b.retainedBuffers + l.buffers
    /\ l.bucket.retainedBytes = b.retainedBytes + l.bytes

(* ... or removed it. *)
Removes(b, l) ==
    /\ Well(l.bucket) /\ l.buffers \in Nat /\ l.bytes \in Nat
    /\ b.retainedBuffers = l.bucket.retainedBuffers + l.buffers
    /\ b.retainedBytes = l.bucket.retainedBytes + l.bytes

LEMMA PushAdds ==
    ASSUME NEW b, Well(b), NEW c \in Nat
    PROVE  Adds(b, Push(b, c)) /\ Push(b, c).buffers \in {0, 1}
           /\ (Push(b, c).buffers = 1 => Push(b, c).bytes = c)
           /\ (Push(b, c).buffers = 0 => Push(b, c).bytes = 0)
  <1>1. b.retainedBuffers \in Nat /\ b.retainedBytes \in Nat
    BY WellFacts
  <1>2. CASE IsFull(b) \/ c = 0
    <2>1. Push(b, c) = [bucket |-> b, buffers |-> 0, bytes |-> 0]
      BY <1>2 DEF Push, Left, None
    <2> QED
      BY <1>1, <2>1 DEF Adds
  <1>3. CASE ~(IsFull(b) \/ c = 0)
    <2>1. PICK d : d = Pushed(b, c)
      OBVIOUS
    <2>2. Push(b, c) = [bucket |-> d, buffers |-> 1, bytes |-> c]
      BY <1>3, <2>1 DEF Push, Left
    <2>3. Well(d)
      BY <1>3, <2>1, PushedWell DEF Capacity
    <2>4. d.retainedBuffers = b.retainedBuffers + 1 /\ d.retainedBytes = b.retainedBytes + c
      BY <2>1 DEF Pushed
    <2> QED
      BY <2>2, <2>3, <2>4 DEF Adds
  <1> QED
    BY <1>2, <1>3

LEMMA PopRemoves ==
    ASSUME NEW b, Well(b)
    PROVE  Removes(b, Pop(b)) /\ Pop(b).buffers \in {0, 1}
           /\ (Pop(b).buffers = 0 => Pop(b).bytes = 0)
  <1>1. b.retainedBuffers \in Nat /\ b.retainedBytes \in Nat
    BY WellFacts
  <1>2. CASE b.retainedBuffers = 0
    <2>1. Pop(b) = [bucket |-> b, buffers |-> 0, bytes |-> 0]
      BY <1>2 DEF Pop, Left, None
    <2> QED
      BY <1>1, <2>1 DEF Removes
  <1>3. CASE b.retainedBuffers # 0
    <2>1. PICK d, p : d = Popped(b) /\ p = PeekHeadCapacity(b)
      OBVIOUS
    <2>2. Pop(b) = [bucket |-> d, buffers |-> 1, bytes |-> p]
      BY <1>3, <2>1 DEF Pop, Left
    <2>3. /\ Well(d) /\ p \in Nat /\ d.retainedBuffers = b.retainedBuffers - 1
          /\ d.retainedBytes = b.retainedBytes - p
      BY <1>3, <2>1, PoppedWell DEF Capacity
    <2> QED
      BY <1>1, <2>2, <2>3 DEF Removes
  <1> QED
    BY <1>2, <1>3

LEMMA TrimRemoves ==
    ASSUME NEW b, Well(b), NEW n \in Nat, NEW m \in Nat
    PROVE  Removes(b, TrimBounded(b, n, m))
  <1>1. PICK k : After(TrimBounded(b, n, m), b, m, k)
    BY TrimmedWell
  <1>2. TrimBounded(b, n, m) \in TrimLeft(b)
    BY <1>1 DEF After
  <1> QED
    BY <1>2 DEF TrimLeft, Removes

LEMMA ClearRemoves ==
    ASSUME NEW b, Well(b)
    PROVE  Removes(b, Clear(b))
  <1>1. b.retainedBuffers \in Nat /\ b.retainedBytes \in Nat
    BY WellFacts
  <1>2. Clear(b) = [bucket |-> EmptyBucket, buffers |-> b.retainedBuffers, bytes |-> b.retainedBytes]
    BY DEF Clear, Left
  <1>3. Well(EmptyBucket) /\ EmptyBucket.retainedBuffers = 0 /\ EmptyBucket.retainedBytes = 0
    BY DEF Well, EmptyBucket
  <1> QED
    BY <1>1, <1>2, <1>3 DEF Removes

-----------------------------------------------------------------------------
(* Counters *)

Amounts  == [count : Nat, bytes : Nat]
EventSet == [Kinds -> Amounts]
GaugeSet == [events : EventSet, current : Amounts]

LEMMA KindsAre ==
    Kinds = {"get", "hit", "miss", "allocation", "put", "retain", "drop",
             "trimOperation", "trim", "clearOperation", "clear"}
  <1>1. Range(LoadGroups) = {{"get", "hit", "miss", "allocation"}, {"put", "retain", "drop"},
                             {"trimOperation", "trim", "clearOperation", "clear"}}
    BY DEF Range, LoadGroups
  <1> QED
    BY <1>1 DEF Kinds

LEMMA PlusIs ==
    ASSUME NEW a \in Amounts, NEW b \in Amounts
    PROVE  /\ Plus(a, b) \in Amounts
           /\ Plus(a, b).count = a.count + b.count /\ Plus(a, b).bytes = a.bytes + b.bytes
  BY DEF Plus, Amount, Amounts

LEMMA OneIs ==
    ASSUME NEW n \in Nat
    PROVE  One(n) \in Amounts /\ One(n).count = 1 /\ One(n).bytes = n
  BY DEF One, Amount, Amounts

LEMMA NothingIs == Nothing \in Amounts /\ Nothing.count = 0 /\ Nothing.bytes = 0
  BY DEF Nothing, Amount, Amounts

(* Two amounts are the same when both parts are. *)
LEMMA SameAmount ==
    ASSUME NEW a \in Amounts, NEW b \in Amounts, a.count = b.count, a.bytes = b.bytes
    PROVE  a = b
  BY DEF Amounts

(* What each kind counts more, for one kind or for two *)
OfOne(k1, a1) == [k \in Kinds |-> IF k = k1 THEN a1 ELSE Nothing]
OfBoth(k1, a1, k2, a2) == [k \in Kinds |-> IF k = k1 THEN a1 ELSE IF k = k2 THEN a2 ELSE Nothing]
Added(e, d) == [k \in Kinds |-> Plus(e[k], d[k])]

LEMMA PlusNothing == ASSUME NEW a \in Amounts PROVE Plus(a, Nothing) = a
  BY NothingIs, PlusIs, SameAmount DEF Amounts

LEMMA AddedIs ==
    ASSUME NEW e \in EventSet, NEW d \in EventSet
    PROVE  Added(e, d) \in EventSet
  BY PlusIs DEF Added, EventSet

LEMMA AddOne ==
    ASSUME NEW e \in EventSet, NEW k1 \in Kinds, NEW a1 \in Amounts
    PROVE  Add(e, k1, a1) = Added(e, OfOne(k1, a1)) /\ OfOne(k1, a1) \in EventSet
  <1>1. OfOne(k1, a1) \in EventSet
    BY NothingIs DEF OfOne, EventSet
  <1>2. \A k \in Kinds : e[k] \in Amounts /\ Plus(e[k], Nothing) = e[k]
    BY PlusNothing DEF EventSet
  <1>3. \A k \in Kinds : Plus(e[k], OfOne(k1, a1)[k]) = IF k = k1 THEN Plus(e[k], a1) ELSE e[k]
    BY <1>2 DEF OfOne
  <1>4. Add(e, k1, a1) = [k \in Kinds |-> IF k = k1 THEN Plus(e[k], a1) ELSE e[k]]
    BY DEF Add, EventSet
  <1> QED
    BY <1>1, <1>3, <1>4 DEF Added

LEMMA AddBoth ==
    ASSUME NEW e \in EventSet, NEW k1 \in Kinds, NEW k2 \in Kinds, k1 # k2,
           NEW a1 \in Amounts, NEW a2 \in Amounts
    PROVE  /\ Add(Add(e, k1, a1), k2, a2) = Added(e, OfBoth(k1, a1, k2, a2))
           /\ OfBoth(k1, a1, k2, a2) \in EventSet
  <1>1. PICK f : f = Added(e, OfOne(k1, a1))
    OBVIOUS
  <1>2. f \in EventSet /\ Add(e, k1, a1) = f /\ Add(f, k2, a2) = Added(f, OfOne(k2, a2))
    BY <1>1, AddOne, AddedIs
  <1>3. OfBoth(k1, a1, k2, a2) \in EventSet
    BY NothingIs DEF OfBoth, EventSet
  <1>4. ASSUME NEW k \in Kinds
        PROVE  Plus(f[k], OfOne(k2, a2)[k]) = Plus(e[k], OfBoth(k1, a1, k2, a2)[k])
    <2>1. e[k] \in Amounts /\ f[k] \in Amounts /\ Plus(f[k], Nothing) = f[k] /\ Plus(e[k], Nothing) = e[k]
      BY <1>2, PlusNothing DEF EventSet
    <2>2. f[k] = Plus(e[k], OfOne(k1, a1)[k])
      BY <1>1 DEF Added
    <2>3. CASE k = k1
      BY <2>1, <2>2, <2>3 DEF OfOne, OfBoth
    <2>4. CASE k # k1
      <3>1. f[k] = e[k]
        BY <2>1, <2>2, <2>4 DEF OfOne
      <3> QED
        BY <2>1, <2>4, <3>1 DEF OfOne, OfBoth
    <2> QED
      BY <2>3, <2>4
  <1> QED
    BY <1>2, <1>3, <1>4 DEF Added

(* What is retained is held, was handed out or was removed; every put is retained or  *)
(* dropped; every get hits or misses.                                              *)
Flow(e, now) ==
    /\ e["retain"].count = now.count + e["hit"].count + e["trim"].count + e["clear"].count
    /\ e["retain"].bytes = now.bytes + e["hit"].bytes + e["trim"].bytes + e["clear"].bytes
    /\ e["put"].count = e["retain"].count + e["drop"].count
    /\ e["put"].bytes = e["retain"].bytes + e["drop"].bytes
    /\ e["get"].count = e["hit"].count + e["miss"].count

Counted(c) == c \in GaugeSet /\ Flow(c.events, c.current)

LEMMA CountedFacts ==
    ASSUME NEW c, Counted(c)
    PROVE  c.events \in EventSet /\ c.current \in Amounts /\ \A k \in Kinds : c.events[k] \in Amounts
  BY DEF Counted, GaugeSet, EventSet

(* What moves the gauges from now to then *)
Moves(d, now, then) ==
    /\ then.count + d["hit"].count + d["trim"].count + d["clear"].count = now.count + d["retain"].count
    /\ then.bytes + d["hit"].bytes + d["trim"].bytes + d["clear"].bytes = now.bytes + d["retain"].bytes
    /\ d["put"].count = d["retain"].count + d["drop"].count
    /\ d["put"].bytes = d["retain"].bytes + d["drop"].bytes
    /\ d["get"].count = d["hit"].count + d["miss"].count

PartsAdd(f, e, d, k) ==
    /\ e[k].count \in Nat /\ e[k].bytes \in Nat /\ d[k].count \in Nat /\ d[k].bytes \in Nat
    /\ f[k].count = e[k].count + d[k].count /\ f[k].bytes = e[k].bytes + d[k].bytes

LEMMA SumsMove ==
    ASSUME NEW r \in Nat, NEW n \in Nat, NEW h \in Nat, NEW t \in Nat, NEW c \in Nat,
           NEW dr \in Nat, NEW m \in Nat, NEW dh \in Nat, NEW dt \in Nat, NEW dc \in Nat,
           r = n + h + t + c, m + dh + dt + dc = n + dr
    PROVE  r + dr = m + (h + dh) + (t + dt) + (c + dc)
  OBVIOUS

LEMMA FlowMoves ==
    ASSUME NEW e \in EventSet, NEW d \in EventSet, NEW now \in Amounts, NEW then \in Amounts,
           Flow(e, now), Moves(d, now, then)
    PROVE  Flow(Added(e, d), then)
  <1>1. PICK f : f = Added(e, d)
    OBVIOUS
  <1>2. ASSUME NEW k \in Kinds
        PROVE  /\ e[k].count \in Nat /\ e[k].bytes \in Nat /\ d[k].count \in Nat /\ d[k].bytes \in Nat
               /\ f[k].count = e[k].count + d[k].count /\ f[k].bytes = e[k].bytes + d[k].bytes
    <2>1. e[k] \in Amounts /\ d[k] \in Amounts
      BY DEF EventSet
    <2>2. f[k] = Plus(e[k], d[k])
      BY <1>1 DEF Added
    <2> QED
      BY <2>1, <2>2, PlusIs DEF Amounts
  <1>3. now.count \in Nat /\ now.bytes \in Nat /\ then.count \in Nat /\ then.bytes \in Nat
    BY DEF Amounts
  <1>4. \A k \in {"get", "hit", "miss", "put", "retain", "drop", "trim", "clear"} : PartsAdd(f, e, d, k)
    BY <1>2, KindsAre DEF PartsAdd
  <1>5. /\ PartsAdd(f, e, d, "get") /\ PartsAdd(f, e, d, "hit") /\ PartsAdd(f, e, d, "miss")
        /\ PartsAdd(f, e, d, "put") /\ PartsAdd(f, e, d, "retain") /\ PartsAdd(f, e, d, "drop")
        /\ PartsAdd(f, e, d, "trim") /\ PartsAdd(f, e, d, "clear")
    BY <1>4
  <1>6. f["retain"].count = then.count + f["hit"].count + f["trim"].count + f["clear"].count
    <2>1. e["retain"].count = now.count + e["hit"].count + e["trim"].count + e["clear"].count
      BY DEF Flow
    <2>2. then.count + d["hit"].count + d["trim"].count + d["clear"].count = now.count + d["retain"].count
      BY DEF Moves
    <2>3. /\ f["retain"].count = e["retain"].count + d["retain"].count
          /\ f["hit"].count = e["hit"].count + d["hit"].count
          /\ f["trim"].count = e["trim"].count + d["trim"].count
          /\ f["clear"].count = e["clear"].count + d["clear"].count
      BY <1>5 DEF PartsAdd
    <2>4. /\ e["retain"].count \in Nat /\ d["retain"].count \in Nat /\ e["hit"].count \in Nat /\ d["hit"].count \in Nat
          /\ e["trim"].count \in Nat /\ d["trim"].count \in Nat /\ e["clear"].count \in Nat /\ d["clear"].count \in Nat
      BY <1>5 DEF PartsAdd
    <2>5. e["retain"].count + d["retain"].count = then.count + (e["hit"].count + d["hit"].count)
                       + (e["trim"].count + d["trim"].count) + (e["clear"].count + d["clear"].count)
      BY <1>3, <2>1, <2>2, <2>4, SumsMove
    <2> QED
      BY <2>3, <2>5
  <1>7. f["retain"].bytes = then.bytes + f["hit"].bytes + f["trim"].bytes + f["clear"].bytes
    <2>1. e["retain"].bytes = now.bytes + e["hit"].bytes + e["trim"].bytes + e["clear"].bytes
      BY DEF Flow
    <2>2. then.bytes + d["hit"].bytes + d["trim"].bytes + d["clear"].bytes = now.bytes + d["retain"].bytes
      BY DEF Moves
    <2>3. /\ f["retain"].bytes = e["retain"].bytes + d["retain"].bytes
          /\ f["hit"].bytes = e["hit"].bytes + d["hit"].bytes
          /\ f["trim"].bytes = e["trim"].bytes + d["trim"].bytes
          /\ f["clear"].bytes = e["clear"].bytes + d["clear"].bytes
      BY <1>5 DEF PartsAdd
    <2>4. /\ e["retain"].bytes \in Nat /\ d["retain"].bytes \in Nat /\ e["hit"].bytes \in Nat /\ d["hit"].bytes \in Nat
          /\ e["trim"].bytes \in Nat /\ d["trim"].bytes \in Nat /\ e["clear"].bytes \in Nat /\ d["clear"].bytes \in Nat
      BY <1>5 DEF PartsAdd
    <2>5. e["retain"].bytes + d["retain"].bytes = then.bytes + (e["hit"].bytes + d["hit"].bytes)
                       + (e["trim"].bytes + d["trim"].bytes) + (e["clear"].bytes + d["clear"].bytes)
      BY <1>3, <2>1, <2>2, <2>4, SumsMove
    <2> QED
      BY <2>3, <2>5
  <1>8. /\ f["put"].count = f["retain"].count + f["drop"].count
        /\ f["put"].bytes = f["retain"].bytes + f["drop"].bytes
        /\ f["get"].count = f["hit"].count + f["miss"].count
    BY <1>5 DEF Flow, Moves, PartsAdd
  <1> QED
    BY <1>1, <1>6, <1>7, <1>8 DEF Flow

LEMMA EventIs ==
    ASSUME NEW e, NEW z, NEW u, NEW c, c = [events |-> e, current |-> z]
    PROVE  Event(c, u) = [events |-> u, current |-> z]
  BY DEF Event

LEMMA MinusIs ==
    ASSUME NEW a \in Amounts, NEW b \in Amounts, b.count <= a.count, b.bytes <= a.bytes
    PROVE  /\ Minus(a, b) \in Amounts
           /\ Minus(a, b).count = a.count - b.count /\ Minus(a, b).bytes = a.bytes - b.bytes
  BY DEF Minus, Amount, Amounts

(* What an operation makes of the counters of a shard: it adds d, and holds now. *)
Makes(c, new, d, now) ==
    /\ new = [events |-> Added(c.events, d), current |-> now]
    /\ d \in EventSet /\ now \in Amounts
    /\ Counted(new)

LEMMA MovesMakes ==
    ASSUME NEW c, Counted(c), NEW d \in EventSet, NEW now \in Amounts, Moves(d, c.current, now),
           NEW new, new = [events |-> Added(c.events, d), current |-> now]
    PROVE  Makes(c, new, d, now)
  <1>1. Flow(Added(c.events, d), now) /\ Added(c.events, d) \in EventSet
    BY CountedFacts, FlowMoves, AddedIs DEF Counted
  <1> QED
    BY <1>1 DEF Makes, Counted, GaugeSet

(* A probe that hits, ... *)
LEMMA HitMakes ==
    ASSUME NEW c, Counted(c), NEW n \in Nat, NEW m \in Nat,
           1 <= c.current.count, m <= c.current.bytes
    PROVE  Makes(c, ShardHit(ShardGet(c, n), m), OfBoth("get", One(n), "hit", One(m)), Minus(c.current, One(m)))
  <1>1. PICK e, z, x, y : e = c.events /\ z = c.current /\ x = One(n) /\ y = One(m)
    OBVIOUS
  <1>2. c = [events |-> e, current |-> z] /\ e \in EventSet /\ z \in Amounts /\ z.count \in Nat /\ z.bytes \in Nat
    BY <1>1 DEF Counted, GaugeSet, Amounts
  <1>3. "get" \in Kinds /\ "hit" \in Kinds /\ x \in Amounts /\ y \in Amounts /\ y.count \in Nat /\ y.bytes \in Nat
    BY <1>1, KindsAre, OneIs DEF Amounts
  <1>4. PICK d, now : d = OfBoth("get", x, "hit", y) /\ now = Minus(c.current, One(m))
    OBVIOUS
  <1>5. d \in EventSet /\ Add(Add(e, "get", x), "hit", y) = Added(e, d)
    BY <1>2, <1>3, <1>4, AddBoth
  <1>6. ShardHit(ShardGet(c, n), m) = [events |-> Added(e, d), current |-> now]
    BY <1>1, <1>2, <1>4, <1>5 DEF ShardHit, ShardGet, RecordGet, RecordHit, Event, Removed
  <1>7. now \in Amounts /\ Moves(d, z, now)
    <2>1. \A k \in Kinds : k \notin {"get", "hit"} => d[k].count = 0 /\ d[k].bytes = 0
      BY <1>4, NothingIs DEF OfBoth
    <2>2. d["get"] = x /\ d["hit"] = y
      BY <1>3, <1>4 DEF OfBoth
    <2> QED
      BY <1>1, <1>2, <1>3, <1>4, <2>1, <2>2, KindsAre, MinusIs, OneIs DEF Moves
  <1> QED
    BY <1>1, <1>4, <1>5, <1>6, <1>7, MovesMakes

(* ... and one that misses *)
LEMMA MissMakes ==
    ASSUME NEW c, Counted(c), NEW n \in Nat
    PROVE  Makes(c, ShardMiss(ShardGet(c, n)), OfBoth("get", One(n), "miss", One(0)), c.current)
  <1>1. PICK e, z, x, y : e = c.events /\ z = c.current /\ x = One(n) /\ y = One(0)
    OBVIOUS
  <1>2. c = [events |-> e, current |-> z] /\ e \in EventSet /\ z \in Amounts /\ z.count \in Nat /\ z.bytes \in Nat
    BY <1>1 DEF Counted, GaugeSet, Amounts
  <1>3. "get" \in Kinds /\ "miss" \in Kinds /\ x \in Amounts /\ y \in Amounts /\ y.count \in Nat /\ y.bytes \in Nat
    BY <1>1, KindsAre, OneIs DEF Amounts
  <1>4. PICK d, now : d = OfBoth("get", x, "miss", y) /\ now = c.current
    OBVIOUS
  <1>5. d \in EventSet /\ Add(Add(e, "get", x), "miss", y) = Added(e, d)
    BY <1>2, <1>3, <1>4, AddBoth
  <1>6. ShardMiss(ShardGet(c, n)) = [events |-> Added(e, d), current |-> now]
    <2>1. ShardGet(c, n) = [events |-> Add(e, "get", x), current |-> z]
      BY <1>1, <1>2, EventIs DEF ShardGet, RecordGet
    <2> QED
      BY <1>1, <1>2, <1>4, <1>5, <2>1, EventIs DEF ShardMiss, RecordMiss
  <1>7. now \in Amounts /\ Moves(d, z, now)
    <2>1. \A k \in Kinds : k \notin {"get", "miss"} => d[k].count = 0 /\ d[k].bytes = 0
      BY <1>4, NothingIs DEF OfBoth
    <2>2. d["get"] = x /\ d["miss"] = y
      BY <1>3, <1>4 DEF OfBoth
    <2> QED
      BY <1>1, <1>2, <1>3, <1>4, <2>1, <2>2, KindsAre, OneIs DEF Moves
  <1> QED
    BY <1>1, <1>4, <1>5, <1>6, <1>7, MovesMakes

(* A return that is retained, ... *)
LEMMA RetainMakes ==
    ASSUME NEW c, Counted(c), NEW n \in Nat
    PROVE  Makes(c, ShardRetain(ShardPut(c, n), n), OfBoth("put", One(n), "retain", One(n)), Plus(c.current, One(n)))
  <1>1. PICK e, z, x, y : e = c.events /\ z = c.current /\ x = One(n) /\ y = One(n)
    OBVIOUS
  <1>2. c = [events |-> e, current |-> z] /\ e \in EventSet /\ z \in Amounts /\ z.count \in Nat /\ z.bytes \in Nat
    BY <1>1 DEF Counted, GaugeSet, Amounts
  <1>3. "put" \in Kinds /\ "retain" \in Kinds /\ x \in Amounts /\ y \in Amounts /\ y.count \in Nat /\ y.bytes \in Nat
    BY <1>1, KindsAre, OneIs DEF Amounts
  <1>4. PICK d, now : d = OfBoth("put", x, "retain", y) /\ now = Plus(c.current, One(n))
    OBVIOUS
  <1>5. d \in EventSet /\ Add(Add(e, "put", x), "retain", y) = Added(e, d)
    BY <1>2, <1>3, <1>4, AddBoth
  <1>6. ShardRetain(ShardPut(c, n), n) = [events |-> Added(e, d), current |-> now]
    BY <1>1, <1>2, <1>4, <1>5 DEF ShardRetain, ShardPut, RecordPut, RecordRetain, Event, Stored
  <1>7. now \in Amounts /\ Moves(d, z, now)
    <2>1. \A k \in Kinds : k \notin {"put", "retain"} => d[k].count = 0 /\ d[k].bytes = 0
      BY <1>4, NothingIs DEF OfBoth
    <2>2. d["put"] = x /\ d["retain"] = y
      BY <1>3, <1>4 DEF OfBoth
    <2> QED
      BY <1>1, <1>2, <1>3, <1>4, <2>1, <2>2, KindsAre, PlusIs, OneIs DEF Moves
  <1> QED
    BY <1>1, <1>4, <1>5, <1>6, <1>7, MovesMakes

(* ... and one that is dropped *)
LEMMA DropMakes ==
    ASSUME NEW c, Counted(c), NEW n \in Nat
    PROVE  Makes(c, ShardDrop(ShardPut(c, n), n), OfBoth("put", One(n), "drop", One(n)), c.current)
  <1>1. PICK e, z, x, y : e = c.events /\ z = c.current /\ x = One(n) /\ y = One(n)
    OBVIOUS
  <1>2. c = [events |-> e, current |-> z] /\ e \in EventSet /\ z \in Amounts /\ z.count \in Nat /\ z.bytes \in Nat
    BY <1>1 DEF Counted, GaugeSet, Amounts
  <1>3. "put" \in Kinds /\ "drop" \in Kinds /\ x \in Amounts /\ y \in Amounts /\ y.count \in Nat /\ y.bytes \in Nat
    BY <1>1, KindsAre, OneIs DEF Amounts
  <1>4. PICK d, now : d = OfBoth("put", x, "drop", y) /\ now = c.current
    OBVIOUS
  <1>5. d \in EventSet /\ Add(Add(e, "put", x), "drop", y) = Added(e, d)
    BY <1>2, <1>3, <1>4, AddBoth
  <1>6. ShardDrop(ShardPut(c, n), n) = [events |-> Added(e, d), current |-> now]
    <2>1. ShardPut(c, n) = [events |-> Add(e, "put", x), current |-> z]
      BY <1>1, <1>2, EventIs DEF ShardPut, RecordPut
    <2> QED
      BY <1>1, <1>2, <1>4, <1>5, <2>1, EventIs DEF ShardDrop, RecordDrop
  <1>7. now \in Amounts /\ Moves(d, z, now)
    <2>1. \A k \in Kinds : k \notin {"put", "drop"} => d[k].count = 0 /\ d[k].bytes = 0
      BY <1>4, NothingIs DEF OfBoth
    <2>2. d["put"] = x /\ d["drop"] = y
      BY <1>3, <1>4 DEF OfBoth
    <2> QED
      BY <1>1, <1>2, <1>3, <1>4, <2>1, <2>2, KindsAre, OneIs DEF Moves
  <1> QED
    BY <1>1, <1>4, <1>5, <1>6, <1>7, MovesMakes

(* A trim, ... *)
LEMMA TrimMakes ==
    ASSUME NEW c, Counted(c), NEW r \in Amounts,
           r.count <= c.current.count, r.bytes <= c.current.bytes
    PROVE  Makes(c, ShardTrim(c, r), OfBoth("trimOperation", One(0), "trim", r), Minus(c.current, r))
  <1>1. PICK e, z, x, y : e = c.events /\ z = c.current /\ x = One(0) /\ y = r
    OBVIOUS
  <1>2. c = [events |-> e, current |-> z] /\ e \in EventSet /\ z \in Amounts /\ z.count \in Nat /\ z.bytes \in Nat
    BY <1>1 DEF Counted, GaugeSet, Amounts
  <1>3. "trimOperation" \in Kinds /\ "trim" \in Kinds /\ x \in Amounts /\ y \in Amounts /\ y.count \in Nat /\ y.bytes \in Nat
    BY <1>1, KindsAre, OneIs DEF Amounts
  <1>4. PICK d, now : d = OfBoth("trimOperation", x, "trim", y) /\ now = Minus(c.current, r)
    OBVIOUS
  <1>5. d \in EventSet /\ Add(Add(e, "trimOperation", x), "trim", y) = Added(e, d)
    BY <1>2, <1>3, <1>4, AddBoth
  <1>6. ShardTrim(c, r) = [events |-> Added(e, d), current |-> now]
    BY <1>1, <1>2, <1>4, <1>5 DEF ShardTrim, RecordTrim, Removed
  <1>7. now \in Amounts /\ Moves(d, z, now)
    <2>1. \A k \in Kinds : k \notin {"trimOperation", "trim"} => d[k].count = 0 /\ d[k].bytes = 0
      BY <1>4, NothingIs DEF OfBoth
    <2>2. d["trimOperation"] = x /\ d["trim"] = y
      BY <1>3, <1>4 DEF OfBoth
    <2> QED
      BY <1>1, <1>2, <1>3, <1>4, <2>1, <2>2, KindsAre, MinusIs DEF Moves
  <1> QED
    BY <1>1, <1>4, <1>5, <1>6, <1>7, MovesMakes

(* ... and a clear *)
LEMMA ClearMakes ==
    ASSUME NEW c, Counted(c), NEW r \in Amounts,
           r.count <= c.current.count, r.bytes <= c.current.bytes
    PROVE  Makes(c, ShardClear(c, r), OfBoth("clearOperation", One(0), "clear", r), Minus(c.current, r))
  <1>1. PICK e, z, x, y : e = c.events /\ z = c.current /\ x = One(0) /\ y = r
    OBVIOUS
  <1>2. c = [events |-> e, current |-> z] /\ e \in EventSet /\ z \in Amounts /\ z.count \in Nat /\ z.bytes \in Nat
    BY <1>1 DEF Counted, GaugeSet, Amounts
  <1>3. "clearOperation" \in Kinds /\ "clear" \in Kinds /\ x \in Amounts /\ y \in Amounts /\ y.count \in Nat /\ y.bytes \in Nat
    BY <1>1, KindsAre, OneIs DEF Amounts
  <1>4. PICK d, now : d = OfBoth("clearOperation", x, "clear", y) /\ now = Minus(c.current, r)
    OBVIOUS
  <1>5. d \in EventSet /\ Add(Add(e, "clearOperation", x), "clear", y) = Added(e, d)
    BY <1>2, <1>3, <1>4, AddBoth
  <1>6. ShardClear(c, r) = [events |-> Added(e, d), current |-> now]
    BY <1>1, <1>2, <1>4, <1>5 DEF ShardClear, RecordClear, Removed
  <1>7. now \in Amounts /\ Moves(d, z, now)
    <2>1. \A k \in Kinds : k \notin {"clearOperation", "clear"} => d[k].count = 0 /\ d[k].bytes = 0
      BY <1>4, NothingIs DEF OfBoth
    <2>2. d["clearOperation"] = x /\ d["clear"] = y
      BY <1>3, <1>4 DEF OfBoth
    <2> QED
      BY <1>1, <1>2, <1>3, <1>4, <2>1, <2>2, KindsAre, MinusIs DEF Moves
  <1> QED
    BY <1>1, <1>4, <1>5, <1>6, <1>7, MovesMakes

(* The shard that is probed first counts an allocation. *)
LEMMA AllocationMakes ==
    ASSUME NEW c, Counted(c), NEW n \in Nat
    PROVE  Makes(c, ShardAllocation(c, n), OfOne("allocation", One(n)), c.current)
  <1>1. PICK e, z, x : e = c.events /\ z = c.current /\ x = One(n)
    OBVIOUS
  <1>2. c = [events |-> e, current |-> z] /\ e \in EventSet /\ z \in Amounts /\ z.count \in Nat /\ z.bytes \in Nat
    BY <1>1 DEF Counted, GaugeSet, Amounts
  <1>3. "allocation" \in Kinds /\ x \in Amounts
    BY <1>1, KindsAre, OneIs
  <1>4. PICK d : d = OfOne("allocation", x)
    OBVIOUS
  <1>5. d \in EventSet /\ Add(e, "allocation", x) = Added(e, d)
    BY <1>2, <1>3, <1>4, AddOne
  <1>6. ShardAllocation(c, n) = [events |-> Added(e, d), current |-> z]
    BY <1>1, <1>2, <1>5, EventIs DEF ShardAllocation, RecordAllocation
  <1>7. Moves(d, z, z)
    <2>1. \A k \in Kinds : k # "allocation" => d[k].count = 0 /\ d[k].bytes = 0
      BY <1>4, NothingIs DEF OfOne
    <2> QED
      BY <1>2, <2>1, KindsAre DEF Moves
  <1> QED
    BY <1>1, <1>2, <1>4, <1>5, <1>6, <1>7, MovesMakes

-----------------------------------------------------------------------------
(* Shards *)

CellSet == [bucket : BucketSet, counters : GaugeSet]

(* The gauges of a shard say what its bucket holds. *)
Stocked(x) ==
    /\ Well(x.bucket) /\ Counted(x.counters)
    /\ x.counters.current = Amount(x.bucket.retainedBuffers, x.bucket.retainedBytes)

(* The shard x becomes y, and counts d more. *)
Becomes(x, y, d) ==
    /\ y \in CellSet /\ Stocked(y) /\ d \in EventSet
    /\ y.counters.events = Added(x.counters.events, d)

LEMMA StockedFacts ==
    ASSUME NEW x, Stocked(x)
    PROVE  /\ Well(x.bucket) /\ Counted(x.counters) /\ x.counters.current \in Amounts
           /\ x.bucket.retainedBuffers \in Nat /\ x.bucket.retainedBytes \in Nat
           /\ x.counters.current.count = x.bucket.retainedBuffers
           /\ x.counters.current.bytes = x.bucket.retainedBytes
  BY WellFacts DEF Stocked, Amount, Amounts

LEMMA MakesBecomes ==
    ASSUME NEW x, NEW y, NEW b, NEW c, y = [bucket |-> b, counters |-> c], Well(b),
           NEW d, NEW now, Makes(x.counters, c, d, now),
           now.count = b.retainedBuffers, now.bytes = b.retainedBytes
    PROVE  Becomes(x, y, d)
  <1>1. /\ c = [events |-> Added(x.counters.events, d), current |-> now]
        /\ d \in EventSet /\ now \in Amounts /\ Counted(c) /\ c \in GaugeSet
    BY DEF Makes, Counted
  <1>2. b \in BucketSet
    BY WellFacts
  <1>3. now = Amount(b.retainedBuffers, b.retainedBytes)
    BY <1>1 DEF Amounts, Amount
  <1> QED
    BY <1>1, <1>2, <1>3 DEF Becomes, Stocked, CellSet

LEMMA HitBecomes ==
    ASSUME NEW x, Stocked(x), NEW n \in Nat, NEW l, l = Pop(x.bucket), l.buffers > 0
    PROVE  /\ l.bytes \in Nat
           /\ Becomes(x, [bucket |-> l.bucket, counters |-> ShardHit(ShardGet(x.counters, n), l.bytes)],
                      OfBoth("get", One(n), "hit", One(l.bytes)))
  <1>1. PICK c : c = x.counters
    OBVIOUS
  <1>2. /\ Well(l.bucket) /\ l.buffers = 1 /\ l.bytes \in Nat /\ Counted(c) /\ c.current \in Amounts
        /\ l.bucket.retainedBuffers \in Nat /\ l.bucket.retainedBytes \in Nat
        /\ c.current.count = l.bucket.retainedBuffers + 1
        /\ c.current.bytes = l.bucket.retainedBytes + l.bytes
    <2>1. /\ Well(x.bucket) /\ Counted(c) /\ c.current \in Amounts
          /\ c.current.count = x.bucket.retainedBuffers /\ c.current.bytes = x.bucket.retainedBytes
      BY <1>1, StockedFacts
    <2>2. Removes(x.bucket, l) /\ l.buffers \in {0, 1} /\ (l.buffers = 0 => l.bytes = 0)
      BY <2>1, PopRemoves
    <2>3. /\ Well(l.bucket) /\ l.bytes \in Nat
          /\ x.bucket.retainedBuffers = l.bucket.retainedBuffers + l.buffers
          /\ x.bucket.retainedBytes = l.bucket.retainedBytes + l.bytes
      BY <2>2 DEF Removes
    <2>4. l.bucket.retainedBuffers \in Nat /\ l.bucket.retainedBytes \in Nat
      BY <2>3, WellFacts
    <2> QED
      BY <2>1, <2>2, <2>3, <2>4
  <1>3. 1 <= c.current.count /\ l.bytes <= c.current.bytes
    BY <1>2
  <1>4. Makes(c, ShardHit(ShardGet(c, n), l.bytes), OfBoth("get", One(n), "hit", One(l.bytes)),
              Minus(c.current, One(l.bytes)))
    BY <1>2, <1>3, HitMakes
  <1>5. /\ Minus(c.current, One(l.bytes)).count = l.bucket.retainedBuffers
        /\ Minus(c.current, One(l.bytes)).bytes = l.bucket.retainedBytes
    BY <1>2, <1>3, MinusIs, OneIs
  <1> QED
    BY <1>1, <1>2, <1>4, <1>5, MakesBecomes

LEMMA MissBecomes ==
    ASSUME NEW x, Stocked(x), NEW n \in Nat, NEW l, l = Pop(x.bucket), ~(l.buffers > 0)
    PROVE  Becomes(x, [bucket |-> l.bucket, counters |-> ShardMiss(ShardGet(x.counters, n))],
                   OfBoth("get", One(n), "miss", One(0)))
  <1>1. PICK c : c = x.counters
    OBVIOUS
  <1>2. /\ Well(l.bucket) /\ Counted(c)
        /\ c.current.count = l.bucket.retainedBuffers /\ c.current.bytes = l.bucket.retainedBytes
    <2>1. /\ Well(x.bucket) /\ Counted(c) /\ c.current \in Amounts
          /\ c.current.count = x.bucket.retainedBuffers /\ c.current.bytes = x.bucket.retainedBytes
      BY <1>1, StockedFacts
    <2>2. Removes(x.bucket, l) /\ l.buffers \in {0, 1} /\ (l.buffers = 0 => l.bytes = 0)
      BY <2>1, PopRemoves
    <2>3. /\ Well(l.bucket) /\ l.bytes \in Nat
          /\ x.bucket.retainedBuffers = l.bucket.retainedBuffers + l.buffers
          /\ x.bucket.retainedBytes = l.bucket.retainedBytes + l.bytes
      BY <2>2 DEF Removes
    <2>4. l.bucket.retainedBuffers \in Nat /\ l.bucket.retainedBytes \in Nat
      BY <2>3, WellFacts
    <2> QED
      BY <2>1, <2>2, <2>3, <2>4
  <1>3. Makes(c, ShardMiss(ShardGet(c, n)), OfBoth("get", One(n), "miss", One(0)), c.current)
    BY <1>2, MissMakes
  <1> QED
    BY <1>1, <1>2, <1>3, MakesBecomes

LEMMA RetainBecomes ==
    ASSUME NEW x, Stocked(x), NEW n \in Nat, NEW l, l = Push(x.bucket, n), l.buffers # 0
    PROVE  Becomes(x, [bucket |-> l.bucket, counters |-> ShardRetain(ShardPut(x.counters, n), n)],
                   OfBoth("put", One(n), "retain", One(n)))
  <1>1. PICK c : c = x.counters
    OBVIOUS
  <1>2. /\ Well(l.bucket) /\ Counted(c) /\ c.current \in Amounts
        /\ c.current.count + 1 = l.bucket.retainedBuffers /\ c.current.bytes + n = l.bucket.retainedBytes
    <2>1. /\ Well(x.bucket) /\ Counted(c) /\ c.current \in Amounts
          /\ c.current.count = x.bucket.retainedBuffers /\ c.current.bytes = x.bucket.retainedBytes
          /\ x.bucket.retainedBuffers \in Nat /\ x.bucket.retainedBytes \in Nat
      BY <1>1, StockedFacts
    <2>2. /\ Adds(x.bucket, l) /\ l.buffers \in {0, 1} /\ (l.buffers = 0 => l.bytes = 0)
          /\ (l.buffers = 1 => l.bytes = n)
      BY <2>1, PushAdds
    <2>3. /\ Well(l.bucket)
          /\ l.bucket.retainedBuffers = x.bucket.retainedBuffers + l.buffers
          /\ l.bucket.retainedBytes = x.bucket.retainedBytes + l.bytes
      BY <2>2 DEF Adds
    <2> QED
      BY <2>1, <2>2, <2>3
  <1>3. Makes(c, ShardRetain(ShardPut(c, n), n), OfBoth("put", One(n), "retain", One(n)), Plus(c.current, One(n)))
    BY <1>2, RetainMakes
  <1>4. /\ Plus(c.current, One(n)).count = l.bucket.retainedBuffers
        /\ Plus(c.current, One(n)).bytes = l.bucket.retainedBytes
    BY <1>2, PlusIs, OneIs
  <1> QED
    BY <1>1, <1>2, <1>3, <1>4, MakesBecomes

(* A bucket that refuses a buffer stays as it is. *)
LEMMA RefusalBecomes ==
    ASSUME NEW x, Stocked(x), NEW n \in Nat, NEW l, l = Push(x.bucket, n), l.buffers = 0
    PROVE  Becomes(x, [bucket |-> l.bucket, counters |-> ShardDrop(ShardPut(x.counters, n), n)],
                   OfBoth("put", One(n), "drop", One(n)))
  <1>1. PICK c : c = x.counters
    OBVIOUS
  <1>2. /\ Well(l.bucket) /\ Counted(c)
        /\ c.current.count = l.bucket.retainedBuffers /\ c.current.bytes = l.bucket.retainedBytes
    <2>1. /\ Well(x.bucket) /\ Counted(c) /\ c.current \in Amounts
          /\ c.current.count = x.bucket.retainedBuffers /\ c.current.bytes = x.bucket.retainedBytes
          /\ x.bucket.retainedBuffers \in Nat /\ x.bucket.retainedBytes \in Nat
      BY <1>1, StockedFacts
    <2>2. /\ Adds(x.bucket, l) /\ l.buffers \in {0, 1} /\ (l.buffers = 0 => l.bytes = 0)
          /\ (l.buffers = 1 => l.bytes = n)
      BY <2>1, PushAdds
    <2>3. /\ Well(l.bucket)
          /\ l.bucket.retainedBuffers = x.bucket.retainedBuffers + l.buffers
          /\ l.bucket.retainedBytes = x.bucket.retainedBytes + l.bytes
      BY <2>2 DEF Adds
    <2> QED
      BY <2>1, <2>2, <2>3
  <1>3. Makes(c, ShardDrop(ShardPut(c, n), n), OfBoth("put", One(n), "drop", One(n)), c.current)
    BY <1>2, DropMakes
  <1> QED
    BY <1>1, <1>2, <1>3, MakesBecomes

LEMMA DropBecomes ==
    ASSUME NEW x, Stocked(x), NEW n \in Nat
    PROVE  Becomes(x, [bucket |-> x.bucket, counters |-> ShardDrop(ShardPut(x.counters, n), n)],
                   OfBoth("put", One(n), "drop", One(n)))
  <1>1. PICK c : c = x.counters
    OBVIOUS
  <1>2. /\ Well(x.bucket) /\ Counted(c)
        /\ c.current.count = x.bucket.retainedBuffers /\ c.current.bytes = x.bucket.retainedBytes
    BY <1>1, StockedFacts
  <1>3. Makes(c, ShardDrop(ShardPut(c, n), n), OfBoth("put", One(n), "drop", One(n)), c.current)
    BY <1>2, DropMakes
  <1> QED
    BY <1>1, <1>2, <1>3, MakesBecomes

LEMMA AllocationBecomes ==
    ASSUME NEW x, Stocked(x), NEW n \in Nat
    PROVE  Becomes(x, [bucket |-> x.bucket, counters |-> ShardAllocation(x.counters, n)],
                   OfOne("allocation", One(n)))
  <1>1. PICK c : c = x.counters
    OBVIOUS
  <1>2. /\ Well(x.bucket) /\ Counted(c)
        /\ c.current.count = x.bucket.retainedBuffers /\ c.current.bytes = x.bucket.retainedBytes
    BY <1>1, StockedFacts
  <1>3. Makes(c, ShardAllocation(c, n), OfOne("allocation", One(n)), c.current)
    BY <1>2, AllocationMakes
  <1> QED
    BY <1>1, <1>2, <1>3, MakesBecomes

LEMMA RemovalIs ==
    ASSUME NEW x, Stocked(x), NEW l, Removes(x.bucket, l), NEW r, r = Amount(l.buffers, l.bytes)
    PROVE  /\ r \in Amounts /\ r.count <= x.counters.current.count /\ r.bytes <= x.counters.current.bytes
           /\ Minus(x.counters.current, r).count = l.bucket.retainedBuffers
           /\ Minus(x.counters.current, r).bytes = l.bucket.retainedBytes
  <1>1. /\ x.counters.current \in Amounts
        /\ l.bucket.retainedBuffers \in Nat /\ l.bucket.retainedBytes \in Nat
        /\ l.buffers \in Nat /\ l.bytes \in Nat
        /\ x.counters.current.count = l.bucket.retainedBuffers + l.buffers
        /\ x.counters.current.bytes = l.bucket.retainedBytes + l.bytes
    BY StockedFacts, WellFacts DEF Removes
  <1>2. /\ r \in Amounts /\ r.count = l.buffers /\ r.bytes = l.bytes
    BY <1>1 DEF Amount, Amounts
  <1>3. r.count <= x.counters.current.count /\ r.bytes <= x.counters.current.bytes
    BY <1>1, <1>2
  <1> QED
    BY <1>1, <1>2, <1>3, MinusIs

LEMMA TrimBecomes ==
    ASSUME NEW x, Stocked(x), NEW n \in Nat, NEW m \in Nat, NEW l, l = TrimBounded(x.bucket, n, m),
           NEW r, r = Amount(l.buffers, l.bytes)
    PROVE  /\ r \in Amounts
           /\ Becomes(x, [bucket |-> l.bucket, counters |-> ShardTrim(x.counters, r)],
                      OfBoth("trimOperation", One(0), "trim", r))
  <1>1. Removes(x.bucket, l)
    BY StockedFacts, TrimRemoves
  <1>2. PICK c : c = x.counters
    OBVIOUS
  <1>3. /\ r \in Amounts /\ r.count <= c.current.count /\ r.bytes <= c.current.bytes
        /\ Minus(c.current, r).count = l.bucket.retainedBuffers
        /\ Minus(c.current, r).bytes = l.bucket.retainedBytes
    BY <1>1, <1>2, RemovalIs
  <1>4. Makes(c, ShardTrim(c, r), OfBoth("trimOperation", One(0), "trim", r), Minus(c.current, r))
    BY <1>2, <1>3, StockedFacts, TrimMakes
  <1>5. Well(l.bucket)
    BY <1>1 DEF Removes
  <1> QED
    BY <1>2, <1>3, <1>4, <1>5, MakesBecomes

LEMMA ClearBecomes ==
    ASSUME NEW x, Stocked(x), NEW l, l = Clear(x.bucket), NEW r, r = Amount(l.buffers, l.bytes)
    PROVE  /\ r \in Amounts
           /\ Becomes(x, [bucket |-> l.bucket, counters |-> ShardClear(x.counters, r)],
                      OfBoth("clearOperation", One(0), "clear", r))
  <1>1. Removes(x.bucket, l)
    BY StockedFacts, ClearRemoves
  <1>2. PICK c : c = x.counters
    OBVIOUS
  <1>3. /\ r \in Amounts /\ r.count <= c.current.count /\ r.bytes <= c.current.bytes
        /\ Minus(c.current, r).count = l.bucket.retainedBuffers
        /\ Minus(c.current, r).bytes = l.bucket.retainedBytes
    BY <1>1, <1>2, RemovalIs
  <1>4. Makes(c, ShardClear(c, r), OfBoth("clearOperation", One(0), "clear", r), Minus(c.current, r))
    BY <1>2, <1>3, StockedFacts, ClearMakes
  <1>5. Well(l.bucket)
    BY <1>1 DEF Removes
  <1> QED
    BY <1>2, <1>3, <1>4, <1>5, MakesBecomes

LEMMA NewStocked ==
    [bucket |-> EmptyBucket, counters |-> NewShardCounters] \in CellSet
      /\ Stocked([bucket |-> EmptyBucket, counters |-> NewShardCounters])
  <1>1. NewClassCounters \in EventSet /\ \A k \in Kinds : NewClassCounters[k].count = 0 /\ NewClassCounters[k].bytes = 0
    BY NothingIs DEF NewClassCounters, EventSet
  <1>2. NewShardCounters = [events |-> NewClassCounters, current |-> Nothing]
    BY DEF NewShardCounters
  <1>3. Flow(NewClassCounters, Nothing)
    BY <1>1, NothingIs, KindsAre DEF Flow
  <1>4. Counted(NewShardCounters) /\ NewShardCounters \in GaugeSet
    BY <1>1, <1>2, <1>3, NothingIs DEF Counted, GaugeSet
  <1>5. EmptyBucket.retainedBuffers = 0 /\ EmptyBucket.retainedBytes = 0 /\ Well(EmptyBucket)
    BY DEF EmptyBucket, Well
  <1> QED
    BY <1>2, <1>4, <1>5, EmptyFacts DEF Stocked, CellSet, Nothing

-----------------------------------------------------------------------------
(* Calls *)

ProbeCalls == [pc : {"probe"}, class : Classes, primary : Shards, offset : 0 .. FallbackShards]
HitCalls   == [pc : {"classGet"}, class : Classes, primary : Shards, hit : {TRUE}, capacity : Nat]
MissCalls  == [pc : {"classGet", "allocate", "classAllocation"}, class : Classes,
               primary : Shards, hit : {FALSE}]
OfferCalls == [pc : {"offered"}, capacity : Nat]
PutCalls   == [pc : {"classPut"}, class : Classes, result : {"retain", "drop"}, capacity : Nat]
TrimCalls  == [pc : {"classTrim", "classClear"}, class : Classes, removed : Amounts]
ClearCalls == [pc : {"clear"}, class : Classes, shard : Shards, removed : Amounts]

Calls == {Idle} \cup ProbeCalls \cup HitCalls \cup MissCalls \cup OfferCalls
            \cup PutCalls \cup TrimCalls \cup ClearCalls

LEMMA CallIs ==
    ASSUME NEW c \in Calls
    PROVE  /\ c.pc = "idle" => c = Idle
           /\ c.pc = "probe" => c \in ProbeCalls
           /\ c.pc = "classGet" => (c.hit /\ c \in HitCalls) \/ (~c.hit /\ c \in MissCalls)
           /\ c.pc \in {"allocate", "classAllocation"} => c \in MissCalls
           /\ c.pc = "offered" => c \in OfferCalls
           /\ c.pc = "classPut" => c \in PutCalls
           /\ c.pc \in {"classTrim", "classClear"} => c \in TrimCalls
           /\ c.pc = "clear" => c \in ClearCalls
  <1>1. /\ Idle.pc = "idle"
        /\ \A x \in ProbeCalls : x.pc = "probe"
        /\ \A x \in HitCalls : x.pc = "classGet" /\ x.hit
        /\ \A x \in MissCalls : x.pc \in {"classGet", "allocate", "classAllocation"} /\ ~x.hit
        /\ \A x \in OfferCalls : x.pc = "offered"
        /\ \A x \in PutCalls : x.pc = "classPut"
        /\ \A x \in TrimCalls : x.pc \in {"classTrim", "classClear"}
        /\ \A x \in ClearCalls : x.pc = "clear"
    BY DEF Idle, ProbeCalls, HitCalls, MissCalls, OfferCalls, PutCalls, TrimCalls, ClearCalls
  <1> QED
    BY <1>1 DEF Calls

CallsOK  == call \in [Threads -> Calls]
ShardsOK == shard \in [Classes -> [Shards -> CellSet]] /\ \A i \in Classes, s \in Shards : Stocked(shard[i][s])

(* A goroutine goes on with x. *)
Goes(t, x) == x \in Calls /\ call' = [call EXCEPT ![t] = x]

(* A shard counts d, and no other shard changes. *)
ShardMoves(i, s, d) ==
    /\ i \in Classes /\ s \in Shards /\ d \in EventSet
    /\ ShardsOK'
    /\ \A j \in Classes, r \in Shards :
          shard'[j][r].counters.events =
            IF j = i /\ r = s THEN Added(shard[j][r].counters.events, d)
            ELSE shard[j][r].counters.events

LEMMA GoesOn ==
    ASSUME CallsOK, NEW t \in Threads, NEW x, Goes(t, x)
    PROVE  CallsOK' /\ call'[t] = x /\ \A u \in Threads : u # t => call'[u] = call[u]
  BY DEF CallsOK, Goes

LEMMA BecomesMoves ==
    ASSUME ShardsOK, NEW i \in Classes, NEW s \in Shards, NEW y, NEW d,
           Becomes(shard[i][s], y, d), shard' = [shard EXCEPT ![i][s] = y]
    PROVE  ShardMoves(i, s, d)
  <1>1. /\ shard \in [Classes -> [Shards -> CellSet]]
        /\ \A j \in Classes, r \in Shards : Stocked(shard[j][r])
    BY DEF ShardsOK
  <1>2. y \in CellSet /\ Stocked(y) /\ d \in EventSet /\ y.counters.events = Added(shard[i][s].counters.events, d)
    BY DEF Becomes
  <1>3. \A j \in Classes, r \in Shards : shard'[j][r] = IF j = i /\ r = s THEN y ELSE shard[j][r]
    BY <1>1
  <1>4. shard' \in [Classes -> [Shards -> CellSet]]
    BY <1>1, <1>2
  <1>5. \A j \in Classes, r \in Shards : Stocked(shard'[j][r])
    BY <1>1, <1>2, <1>3
  <1> QED
    BY <1>2, <1>3, <1>4, <1>5 DEF ShardMoves, ShardsOK

LEMMA Sizes == \A i \in Classes : ClassSizes[i] \in Nat /\ i \in Nat
  BY TelemetryAssumption DEF Classes

LEMMA ShardIs == ASSUME NEW n \in Nat PROVE n % NumShards \in Shards
  BY TelemetryAssumption DEF Shards

-----------------------------------------------------------------------------
(* What each action does to the shards and to its goroutine *)

Hit(c, b)  == [pc |-> "classGet", class |-> c.class, primary |-> c.primary, hit |-> TRUE, capacity |-> b]
Missed(c)  == [pc |-> "classGet", class |-> c.class, primary |-> c.primary, hit |-> FALSE]
ProbeHits(t, c) ==
    \E s \in Shards, b \in Nat :
        /\ ShardMoves(c.class, s, OfBoth("get", One(Requested(c)), "hit", One(b)))
        /\ Goes(t, Hit(c, b))
ProbeMisses(t, c) ==
    \E s \in Shards, x \in ProbeCalls \cup {Missed(c)} :
        /\ x.class = c.class
        /\ ShardMoves(c.class, s, OfBoth("get", One(Requested(c)), "miss", One(0)))
        /\ Goes(t, x)

LEMMA ProbeDoes ==
    ASSUME ShardsOK, CallsOK, NEW t \in Threads, Probe(t)
    PROVE  call[t] \in ProbeCalls /\ (ProbeHits(t, call[t]) \/ ProbeMisses(t, call[t]))
  <1>1. PICK c : c = call[t]
    OBVIOUS
  <1>2. c.pc = "probe" /\ c \in ProbeCalls
    BY <1>1, CallIs DEF CallsOK, Probe
  <1>3. c.class \in Classes /\ c.primary \in Shards /\ c.offset \in 0 .. FallbackShards
    BY <1>2 DEF ProbeCalls
  <1>4. PICK s : s = (c.primary + c.offset) % NumShards
    OBVIOUS
  <1>5. s \in Shards
    <2>1. c.primary \in Nat /\ c.offset \in Nat
      BY <1>3, TelemetryAssumption DEF Shards
    <2> QED
      BY <1>4, <2>1, ShardIs
  <1>6. PICK x, l, n : x = shard[c.class][s] /\ l = Pop(x.bucket) /\ n = Requested(c)
    OBVIOUS
  <1>7. Stocked(x) /\ n \in Nat
    BY <1>3, <1>5, <1>6, Sizes DEF ShardsOK, Requested
  <1>8. CASE l.buffers > 0
    <2>1. PICK y : y = [bucket |-> l.bucket, counters |-> ShardHit(ShardGet(x.counters, n), l.bytes)]
      OBVIOUS
    <2>2. l.bytes \in Nat /\ Becomes(x, y, OfBoth("get", One(n), "hit", One(l.bytes)))
      BY <1>6, <1>7, <1>8, <2>1, HitBecomes
    <2>3. shard' = [shard EXCEPT ![c.class][s] = y] /\ call' = [call EXCEPT ![t] = Hit(c, l.bytes)]
      BY <1>1, <1>4, <1>6, <1>8, <2>1 DEF Probe, Locked, Continue, Hit
    <2>4. ShardMoves(c.class, s, OfBoth("get", One(n), "hit", One(l.bytes)))
      BY <1>3, <1>5, <1>6, <2>2, <2>3, BecomesMoves
    <2>5. Hit(c, l.bytes) \in Calls
      BY <1>3, <2>2 DEF Hit, Calls, HitCalls
    <2> QED
      BY <1>1, <1>2, <1>5, <1>6, <2>2, <2>3, <2>4, <2>5 DEF ProbeHits, Goes
  <1>9. CASE ~(l.buffers > 0)
    <2>1. PICK y : y = [bucket |-> l.bucket, counters |-> ShardMiss(ShardGet(x.counters, n))]
      OBVIOUS
    <2>2. Becomes(x, y, OfBoth("get", One(n), "miss", One(0)))
      BY <1>6, <1>7, <1>9, <2>1, MissBecomes
    <2>3. PICK z : z = IF c.offset < FallbackShards THEN [c EXCEPT !.offset = @ + 1] ELSE Missed(c)
      OBVIOUS
    <2>4. shard' = [shard EXCEPT ![c.class][s] = y] /\ call' = [call EXCEPT ![t] = z]
      BY <1>1, <1>4, <1>6, <1>9, <2>1, <2>3 DEF Probe, Locked, Continue, Missed
    <2>5. ShardMoves(c.class, s, OfBoth("get", One(n), "miss", One(0)))
      BY <1>3, <1>5, <1>6, <2>2, <2>4, BecomesMoves
    <2>6. z \in ProbeCalls \cup {Missed(c)} /\ z.class = c.class
      <3>1. CASE c.offset < FallbackShards
        <4>1. c.offset + 1 \in 0 .. FallbackShards
          BY <1>3, <3>1, TelemetryAssumption
        <4> QED
          BY <1>2, <2>3, <3>1, <4>1 DEF ProbeCalls
      <3>2. CASE ~(c.offset < FallbackShards)
        BY <2>3, <3>2 DEF Missed
      <3> QED
        BY <3>1, <3>2
    <2>7. z \in Calls
      <3>1. Missed(c) \in MissCalls
        BY <1>3 DEF Missed, MissCalls
      <3> QED
        BY <2>6, <3>1 DEF Calls
    <2> QED
      BY <1>1, <1>2, <1>5, <1>6, <2>4, <2>5, <2>6, <2>7 DEF ProbeMisses, Goes
  <1> QED
    BY <1>8, <1>9

LEMMA AllocateDoes ==
    ASSUME ShardsOK, CallsOK, NEW t \in Threads, Allocate(t)
    PROVE  /\ call[t] \in MissCalls /\ call[t].pc = "allocate"
           /\ ShardMoves(call[t].class, call[t].primary, OfOne("allocation", One(ClassSizes[call[t].class])))
           /\ Goes(t, [call[t] EXCEPT !.pc = "classAllocation"])
  <1>1. PICK c : c = call[t]
    OBVIOUS
  <1>2. c.pc = "allocate" /\ c \in MissCalls
    BY <1>1, CallIs DEF CallsOK, Allocate
  <1>3. c.class \in Classes /\ c.primary \in Shards
    BY <1>2 DEF MissCalls
  <1>4. PICK x, n : x = shard[c.class][c.primary] /\ n = ClassSizes[c.class]
    OBVIOUS
  <1>5. Stocked(x) /\ x \in CellSet /\ n \in Nat
    BY <1>3, <1>4, Sizes DEF ShardsOK
  <1>6. PICK y : y = [bucket |-> x.bucket, counters |-> ShardAllocation(x.counters, n)]
    OBVIOUS
  <1>7. Becomes(x, y, OfOne("allocation", One(n)))
    BY <1>5, <1>6, AllocationBecomes
  <1>8. shard' = [shard EXCEPT ![c.class][c.primary] = y]
    <2>1. [x EXCEPT !.counters = ShardAllocation(@, n)] = y
      BY <1>5, <1>6 DEF CellSet
    <2>2. shard' = [shard EXCEPT ![c.class][c.primary].counters = ShardAllocation(@, n)]
      BY <1>1, <1>4 DEF Allocate
    <2> QED
      BY <1>3, <1>4, <2>1, <2>2 DEF ShardsOK
  <1>9. ShardMoves(c.class, c.primary, OfOne("allocation", One(n)))
    BY <1>3, <1>4, <1>7, <1>8, BecomesMoves
  <1>10. [c EXCEPT !.pc = "classAllocation"] \in Calls
    BY <1>2 DEF MissCalls, Calls
  <1>11. call' = [call EXCEPT ![t] = [c EXCEPT !.pc = "classAllocation"]]
    BY <1>1 DEF Allocate, Continue
  <1> QED
    BY <1>1, <1>2, <1>4, <1>9, <1>10, <1>11 DEF Goes

(* A return that no shard sees, one that a shard refuses, and one that it retains *)
Unseen(t, i, c)  == UNCHANGED shard /\ Goes(t, Recorded(i, "drop", c.capacity))
Refused(t, i, c) ==
    \E s \in Shards :
        /\ ShardMoves(i, s, OfBoth("put", One(c.capacity), "drop", One(c.capacity)))
        /\ Goes(t, Recorded(i, "drop", c.capacity))
Retained(t, i, c) ==
    \E s \in Shards :
        /\ ShardMoves(i, s, OfBoth("put", One(c.capacity), "retain", One(c.capacity)))
        /\ Goes(t, Recorded(i, "retain", c.capacity))

LEMMA TryRetainDoes ==
    ASSUME ShardsOK, CallsOK, NEW t \in Threads, NEW i \in Classes, NEW s \in Shards, TryRetain(t, i, s)
    PROVE  /\ call[t] \in OfferCalls
           /\ Unseen(t, i, call[t]) \/ Refused(t, i, call[t]) \/ Retained(t, i, call[t])
  <1>1. PICK c : c = call[t]
    OBVIOUS
  <1>2. c.pc = "offered" /\ c \in OfferCalls
    BY <1>1, CallIs DEF CallsOK, TryRetain
  <1>3. PICK n : n = c.capacity
    OBVIOUS
  <1>4. n \in Nat
    BY <1>2, <1>3 DEF OfferCalls
  <1>5. \A r \in {"retain", "drop"} : Recorded(i, r, n) \in Calls
    BY <1>4 DEF Recorded, Calls, PutCalls
  <1>6. PICK x, l : x = shard[i][s] /\ l = Push(x.bucket, n)
    OBVIOUS
  <1>7. Stocked(x) /\ x \in CellSet
    BY <1>6 DEF ShardsOK
  <1>8. PICK drop : drop = ShardDrop(ShardPut(x.counters, n), n)
    OBVIOUS
  <1>9. CASE n < ClassSizes[i]
    <2>1. UNCHANGED shard /\ call' = [call EXCEPT ![t] = Recorded(i, "drop", n)]
      BY <1>1, <1>3, <1>9 DEF TryRetain, Continue, storage
    <2> QED
      BY <1>1, <1>2, <1>3, <1>5, <2>1 DEF Unseen, Goes
  <1>10. CASE ~(n < ClassSizes[i]) /\ ~CreditAllows(ShardPut(x.counters, n).current, n)
    <2>1. PICK y : y = [bucket |-> x.bucket, counters |-> drop]
      OBVIOUS
    <2>2. shard' = [shard EXCEPT ![i][s].counters = drop] /\ call' = [call EXCEPT ![t] = Recorded(i, "drop", n)]
      BY <1>1, <1>3, <1>6, <1>8, <1>10 DEF TryRetain, Continue
    <2>3. shard' = [shard EXCEPT ![i][s] = y]
      <3>1. [x EXCEPT !.counters = drop] = y
        BY <1>7, <2>1 DEF CellSet
      <3> QED
        BY <1>6, <2>2, <3>1 DEF ShardsOK
    <2>4. Becomes(x, y, OfBoth("put", One(n), "drop", One(n)))
      BY <1>4, <1>7, <1>8, <2>1, DropBecomes
    <2>5. ShardMoves(i, s, OfBoth("put", One(n), "drop", One(n)))
      BY <1>6, <2>3, <2>4, BecomesMoves
    <2> QED
      BY <1>1, <1>2, <1>3, <1>5, <2>2, <2>5 DEF Refused, Goes
  <1>11. CASE ~(n < ClassSizes[i]) /\ CreditAllows(ShardPut(x.counters, n).current, n) /\ l.buffers = 0
    <2>1. PICK y : y = [bucket |-> l.bucket, counters |-> drop]
      OBVIOUS
    <2>2. shard' = [shard EXCEPT ![i][s] = y] /\ call' = [call EXCEPT ![t] = Recorded(i, "drop", n)]
      BY <1>1, <1>3, <1>6, <1>8, <1>11, <2>1 DEF TryRetain, Continue, Locked
    <2>3. Becomes(x, y, OfBoth("put", One(n), "drop", One(n)))
      BY <1>4, <1>6, <1>7, <1>8, <1>11, <2>1, RefusalBecomes
    <2>4. ShardMoves(i, s, OfBoth("put", One(n), "drop", One(n)))
      BY <1>6, <2>2, <2>3, BecomesMoves
    <2> QED
      BY <1>1, <1>2, <1>3, <1>5, <2>2, <2>4 DEF Refused, Goes
  <1>12. CASE ~(n < ClassSizes[i]) /\ CreditAllows(ShardPut(x.counters, n).current, n) /\ l.buffers # 0
    <2>1. PICK y : y = [bucket |-> l.bucket, counters |-> ShardRetain(ShardPut(x.counters, n), n)]
      OBVIOUS
    <2>2. shard' = [shard EXCEPT ![i][s] = y] /\ call' = [call EXCEPT ![t] = Recorded(i, "retain", n)]
      BY <1>1, <1>3, <1>6, <1>12, <2>1 DEF TryRetain, Continue, Locked
    <2>3. Becomes(x, y, OfBoth("put", One(n), "retain", One(n)))
      BY <1>4, <1>6, <1>7, <1>12, <2>1, RetainBecomes
    <2>4. ShardMoves(i, s, OfBoth("put", One(n), "retain", One(n)))
      BY <1>6, <2>2, <2>3, BecomesMoves
    <2> QED
      BY <1>1, <1>2, <1>3, <1>5, <2>2, <2>4 DEF Retained, Goes
  <1> QED
    BY <1>9, <1>10, <1>11, <1>12

LEMMA TrimDoes ==
    ASSUME ShardsOK, CallsOK, NEW t \in Threads, NEW i \in Classes, NEW s \in Shards,
           NEW n \in Nat, NEW m \in Nat, Trim(t, i, s, n, m)
    PROVE  /\ call[t] = Idle
           /\ \E r \in Amounts :
                 /\ ShardMoves(i, s, OfBoth("trimOperation", One(0), "trim", r))
                 /\ Goes(t, [pc |-> "classTrim", class |-> i, removed |-> r])
  <1>1. PICK x, l : x = shard[i][s] /\ l = TrimBounded(x.bucket, n, m)
    OBVIOUS
  <1>2. PICK r : r = Amount(l.buffers, l.bytes)
    OBVIOUS
  <1>3. PICK y : y = [bucket |-> l.bucket, counters |-> ShardTrim(x.counters, r)]
    OBVIOUS
  <1>4. /\ shard' = [shard EXCEPT ![i][s] = y] /\ call[t] = Idle
        /\ call' = [call EXCEPT ![t] = [pc |-> "classTrim", class |-> i, removed |-> r]]
    BY <1>1, <1>2, <1>3 DEF Trim, Begin, Locked
  <1>5. Stocked(x)
    BY <1>1 DEF ShardsOK
  <1>6. r \in Amounts /\ Becomes(x, y, OfBoth("trimOperation", One(0), "trim", r))
    BY <1>1, <1>2, <1>3, <1>5, TrimBecomes
  <1>7. ShardMoves(i, s, OfBoth("trimOperation", One(0), "trim", r))
    BY <1>1, <1>4, <1>6, BecomesMoves
  <1>8. [pc |-> "classTrim", class |-> i, removed |-> r] \in Calls
    BY <1>6 DEF Calls, TrimCalls
  <1> QED
    BY <1>4, <1>6, <1>7, <1>8 DEF Goes

Cleared(c, total) ==
    IF c.shard < NumShards - 1 THEN [c EXCEPT !.shard = @ + 1, !.removed = total]
    ELSE [pc |-> "classClear", class |-> c.class, removed |-> total]

LEMMA ClearShardDoes ==
    ASSUME ShardsOK, CallsOK, NEW t \in Threads, ClearShard(t)
    PROVE  /\ call[t] \in ClearCalls
           /\ \E r \in Amounts :
                 /\ ShardMoves(call[t].class, call[t].shard, OfBoth("clearOperation", One(0), "clear", r))
                 /\ Goes(t, Cleared(call[t], Plus(call[t].removed, r)))
  <1>1. PICK c : c = call[t]
    OBVIOUS
  <1>2. c.pc = "clear" /\ c \in ClearCalls
    BY <1>1, CallIs DEF CallsOK, ClearShard
  <1>3. c.class \in Classes /\ c.shard \in Shards /\ c.removed \in Amounts
    BY <1>2 DEF ClearCalls
  <1>4. PICK x, l : x = shard[c.class][c.shard] /\ l = Clear(x.bucket)
    OBVIOUS
  <1>5. PICK r : r = Amount(l.buffers, l.bytes)
    OBVIOUS
  <1>6. PICK y : y = [bucket |-> l.bucket, counters |-> ShardClear(x.counters, r)]
    OBVIOUS
  <1>7. /\ shard' = [shard EXCEPT ![c.class][c.shard] = y]
        /\ call' = [call EXCEPT ![t] = Cleared(c, Plus(c.removed, r))]
    BY <1>1, <1>4, <1>5, <1>6 DEF ClearShard, Locked, Continue, Cleared, AddBucketTrimResult
  <1>8. Stocked(x)
    BY <1>3, <1>4 DEF ShardsOK
  <1>9. r \in Amounts /\ Becomes(x, y, OfBoth("clearOperation", One(0), "clear", r))
    BY <1>4, <1>5, <1>6, <1>8, ClearBecomes
  <1>10. ShardMoves(c.class, c.shard, OfBoth("clearOperation", One(0), "clear", r))
    BY <1>3, <1>4, <1>7, <1>9, BecomesMoves
  <1>11. PICK total : total = Plus(c.removed, r)
    OBVIOUS
  <1>12. total \in Amounts
    BY <1>3, <1>9, <1>11, PlusIs
  <1>13. Cleared(c, total) \in Calls
    <2>1. CASE c.shard < NumShards - 1
      <3>1. c.shard + 1 \in Shards
        BY <1>3, <2>1, TelemetryAssumption DEF Shards
      <3>2. [c EXCEPT !.shard = @ + 1, !.removed = total] \in ClearCalls
        BY <1>2, <1>12, <3>1 DEF ClearCalls
      <3> QED
        BY <2>1, <3>2 DEF Cleared, Calls
    <2>2. CASE ~(c.shard < NumShards - 1)
      <3>1. [pc |-> "classClear", class |-> c.class, removed |-> total] \in TrimCalls
        BY <1>3, <1>12 DEF TrimCalls
      <3> QED
        BY <2>2, <3>1 DEF Cleared, Calls
    <2> QED
      BY <2>1, <2>2
  <1> QED
    BY <1>1, <1>2, <1>7, <1>9, <1>10, <1>11, <1>13 DEF Goes

-----------------------------------------------------------------------------
(* What each action does to the counters of a class *)

CountersOK == classCounters \in [Classes -> EventSet]

(* Class i counts d, and nothing else is counted. *)
ClassMoves(i, d) ==
    /\ i \in Classes /\ d \in EventSet
    /\ classCounters' = [classCounters EXCEPT ![i] = Added(@, d)]
    /\ UNCHANGED <<owner, shard>>

LEMMA CountsMoves ==
    ASSUME CountersOK, NEW i \in Classes, NEW k1 \in Kinds, NEW k2 \in Kinds, k1 # k2,
           NEW a1 \in Amounts, NEW a2 \in Amounts, UNCHANGED <<owner, shard>>,
           classCounters' = [classCounters EXCEPT ![i] = Add(Add(classCounters[i], k1, a1), k2, a2)]
    PROVE  ClassMoves(i, OfBoth(k1, a1, k2, a2))
  <1>1. classCounters[i] \in EventSet
    BY DEF CountersOK
  <1> QED
    BY <1>1, AddBoth DEF ClassMoves

LEMMA MovesCounters ==
    ASSUME CountersOK, NEW i, NEW d, ClassMoves(i, d)
    PROVE  /\ CountersOK'
           /\ \A j \in Classes : classCounters'[j] = IF j = i THEN Added(classCounters[j], d) ELSE classCounters[j]
  <1>1. classCounters \in [Classes -> EventSet] /\ i \in Classes /\ d \in EventSet
    BY DEF CountersOK, ClassMoves
  <1>2. Added(classCounters[i], d) \in EventSet
    BY <1>1, AddedIs
  <1> QED
    BY <1>1, <1>2 DEF CountersOK, ClassMoves

CountsHit(t, c) ==
    /\ c \in HitCalls /\ Goes(t, Idle)
    /\ ClassMoves(c.class, OfBoth("get", One(Requested(c)), "hit", One(c.capacity)))
CountsMiss(t, c) ==
    /\ c \in MissCalls /\ c.pc = "classGet" /\ Goes(t, [c EXCEPT !.pc = "allocate"])
    /\ ClassMoves(c.class, OfBoth("get", One(Requested(c)), "miss", One(0)))

LEMMA ClassGetDoes ==
    ASSUME CountersOK, CallsOK, NEW t \in Threads, ClassGet(t)
    PROVE  CountsHit(t, call[t]) \/ CountsMiss(t, call[t])
  <1>1. PICK c : c = call[t]
    OBVIOUS
  <1>2. c.pc = "classGet" /\ ((c.hit /\ c \in HitCalls) \/ (~c.hit /\ c \in MissCalls))
    BY <1>1, CallIs DEF CallsOK, ClassGet
  <1>3. c.class \in Classes /\ Requested(c) \in Nat
    BY <1>2, Sizes DEF HitCalls, MissCalls, Requested
  <1>4. One(Requested(c)) \in Amounts /\ One(0) \in Amounts /\ {"get", "hit", "miss"} \subseteq Kinds
    BY <1>3, OneIs, KindsAre
  <1>5. CASE c.hit
    <2>1. /\ classCounters' = [classCounters EXCEPT ![c.class] =
                                  Add(Add(classCounters[c.class], "get", One(Requested(c))), "hit", One(c.capacity))]
          /\ UNCHANGED <<owner, shard>> /\ call' = [call EXCEPT ![t] = Idle]
      BY <1>1, <1>5 DEF ClassGet, ClassCounts, RecordHit, RecordGet, Return, Continue, storage
    <2>2. One(c.capacity) \in Amounts /\ c \in HitCalls
      BY <1>2, <1>5, OneIs DEF HitCalls
    <2>3. ClassMoves(c.class, OfBoth("get", One(Requested(c)), "hit", One(c.capacity)))
      BY <1>3, <1>4, <2>1, <2>2, CountsMoves
    <2> QED
      BY <1>1, <2>1, <2>2, <2>3 DEF CountsHit, Goes, Calls
  <1>6. CASE ~c.hit
    <2>1. /\ classCounters' = [classCounters EXCEPT ![c.class] =
                                  Add(Add(classCounters[c.class], "get", One(Requested(c))), "miss", One(0))]
          /\ UNCHANGED <<owner, shard>> /\ call' = [call EXCEPT ![t] = [c EXCEPT !.pc = "allocate"]]
      BY <1>1, <1>6 DEF ClassGet, ClassCounts, RecordMiss, RecordGet, Continue, storage
    <2>2. ClassMoves(c.class, OfBoth("get", One(Requested(c)), "miss", One(0)))
      BY <1>3, <1>4, <2>1, CountsMoves
    <2>3. [c EXCEPT !.pc = "allocate"] \in Calls /\ c \in MissCalls
      BY <1>2, <1>6 DEF MissCalls, Calls
    <2> QED
      BY <1>1, <1>2, <2>1, <2>2, <2>3 DEF CountsMiss, Goes
  <1> QED
    BY <1>5, <1>6

LEMMA ClassAllocationDoes ==
    ASSUME CountersOK, CallsOK, NEW t \in Threads, ClassAllocation(t)
    PROVE  /\ call[t] \in MissCalls /\ call[t].pc = "classAllocation" /\ Goes(t, Idle)
           /\ ClassMoves(call[t].class, OfOne("allocation", One(ClassSizes[call[t].class])))
  <1>1. PICK c : c = call[t]
    OBVIOUS
  <1>2. c.pc = "classAllocation" /\ c \in MissCalls
    BY <1>1, CallIs DEF CallsOK, ClassAllocation
  <1>3. c.class \in Classes /\ One(ClassSizes[c.class]) \in Amounts /\ "allocation" \in Kinds
    BY <1>2, Sizes, OneIs, KindsAre DEF MissCalls
  <1>4. /\ classCounters' = [classCounters EXCEPT ![c.class] =
                                Add(classCounters[c.class], "allocation", One(ClassSizes[c.class]))]
        /\ UNCHANGED <<owner, shard>> /\ call' = [call EXCEPT ![t] = Idle]
    BY <1>1 DEF ClassAllocation, ClassCounts, RecordAllocation, Return, Continue, storage
  <1>5. classCounters[c.class] \in EventSet
    BY <1>3 DEF CountersOK
  <1> QED
    BY <1>1, <1>2, <1>3, <1>4, <1>5, AddOne DEF ClassMoves, Goes, Calls

LEMMA ClassPutDoes ==
    ASSUME CountersOK, CallsOK, NEW t \in Threads, ClassPut(t)
    PROVE  /\ call[t] \in PutCalls /\ Goes(t, Idle)
           /\ ClassMoves(call[t].class, OfBoth("put", One(call[t].capacity), call[t].result, One(call[t].capacity)))
  <1>1. PICK c : c = call[t]
    OBVIOUS
  <1>2. c \in PutCalls
    BY <1>1, CallIs DEF CallsOK, ClassPut
  <1>3. /\ c.class \in Classes /\ One(c.capacity) \in Amounts /\ c.result \in {"retain", "drop"}
        /\ "put" \in Kinds /\ c.result \in Kinds /\ c.result # "put"
    BY <1>2, OneIs, KindsAre DEF PutCalls
  <1>4. /\ classCounters' = [classCounters EXCEPT ![c.class] =
                                Add(Add(classCounters[c.class], "put", One(c.capacity)), c.result, One(c.capacity))]
        /\ UNCHANGED <<owner, shard>> /\ call' = [call EXCEPT ![t] = Idle]
    BY <1>1, <1>3 DEF ClassPut, ClassCounts, RecordRetain, RecordDrop, RecordPut, Return, Continue, storage
  <1>5. ClassMoves(c.class, OfBoth("put", One(c.capacity), c.result, One(c.capacity)))
    BY <1>3, <1>4, CountsMoves
  <1> QED
    BY <1>1, <1>2, <1>4, <1>5 DEF Goes, Calls

LEMMA ClassTrimDoes ==
    ASSUME CountersOK, CallsOK, NEW t \in Threads, ClassTrim(t)
    PROVE  /\ call[t] \in TrimCalls /\ call[t].pc = "classTrim" /\ Goes(t, Idle)
           /\ ClassMoves(call[t].class, OfBoth("trimOperation", One(0), "trim", call[t].removed))
  <1>1. PICK c : c = call[t]
    OBVIOUS
  <1>2. c.pc = "classTrim" /\ c \in TrimCalls
    BY <1>1, CallIs DEF CallsOK, ClassTrim
  <1>3. /\ c.class \in Classes /\ One(0) \in Amounts /\ c.removed \in Amounts
        /\ "trimOperation" \in Kinds /\ "trim" \in Kinds
    BY <1>2, OneIs, KindsAre DEF TrimCalls
  <1>4. /\ classCounters' = [classCounters EXCEPT ![c.class] =
                                Add(Add(classCounters[c.class], "trimOperation", One(0)), "trim", c.removed)]
        /\ UNCHANGED <<owner, shard>> /\ call' = [call EXCEPT ![t] = Idle]
    BY <1>1 DEF ClassTrim, ClassCounts, RecordTrim, Return, Continue, storage
  <1>5. ClassMoves(c.class, OfBoth("trimOperation", One(0), "trim", c.removed))
    BY <1>3, <1>4, CountsMoves
  <1> QED
    BY <1>1, <1>2, <1>4, <1>5 DEF Goes, Calls

LEMMA ClassClearDoes ==
    ASSUME CountersOK, CallsOK, NEW t \in Threads, ClassClear(t)
    PROVE  /\ call[t] \in TrimCalls /\ call[t].pc = "classClear" /\ Goes(t, Idle)
           /\ ClassMoves(call[t].class, OfBoth("clearOperation", One(0), "clear", call[t].removed))
  <1>1. PICK c : c = call[t]
    OBVIOUS
  <1>2. c.pc = "classClear" /\ c \in TrimCalls
    BY <1>1, CallIs DEF CallsOK, ClassClear
  <1>3. /\ c.class \in Classes /\ One(0) \in Amounts /\ c.removed \in Amounts
        /\ "clearOperation" \in Kinds /\ "clear" \in Kinds
    BY <1>2, OneIs, KindsAre DEF TrimCalls
  <1>4. /\ classCounters' = [classCounters EXCEPT ![c.class] =
                                Add(Add(classCounters[c.class], "clearOperation", One(0)), "clear", c.removed)]
        /\ UNCHANGED <<owner, shard>> /\ call' = [call EXCEPT ![t] = Idle]
    BY <1>1 DEF ClassClear, ClassCounts, RecordClear, Return, Continue, storage
  <1>5. ClassMoves(c.class, OfBoth("clearOperation", One(0), "clear", c.removed))
    BY <1>3, <1>4, CountsMoves
  <1> QED
    BY <1>1, <1>2, <1>4, <1>5 DEF Goes, Calls

-----------------------------------------------------------------------------
(* What each action does to the owner *)

OwnerSet == [put : Amounts, drop : Amounts, reasons : [DropReasons -> Nat]]
OwnerOK  == owner \in OwnerSet

OfferedCall(n) == [pc |-> "offered", capacity |-> n]

LEMMA StartPutDoes ==
    ASSUME OwnerOK, NEW t \in Threads, NEW n \in Nat, StartPut(t, n)
    PROVE  /\ call[t] = Idle /\ Goes(t, OfferedCall(n)) /\ OwnerOK'
           /\ owner'.put = Plus(owner.put, One(n)) /\ owner'.drop = owner.drop
           /\ owner'.reasons = owner.reasons
           /\ UNCHANGED <<shard, classCounters>>
  <1>1. /\ call[t] = Idle /\ call' = [call EXCEPT ![t] = OfferedCall(n)]
        /\ owner' = [owner EXCEPT !.put = Plus(@, One(n))] /\ UNCHANGED <<shard, classCounters>>
    BY DEF StartPut, Begin, OfferedCall, storage
  <1>2. OfferedCall(n) \in Calls
    BY DEF OfferedCall, Calls, OfferCalls
  <1>3. Plus(owner.put, One(n)) \in Amounts
    BY PlusIs, OneIs DEF OwnerOK, OwnerSet
  <1> QED
    BY <1>1, <1>2, <1>3 DEF OwnerOK, OwnerSet, Goes

LEMMA RefuseDoes ==
    ASSUME OwnerOK, CallsOK, NEW t \in Threads, NEW reason \in Reasons, Refuse(t, reason)
    PROVE  /\ call[t] \in OfferCalls /\ Goes(t, Idle) /\ OwnerOK'
           /\ owner'.put = owner.put /\ owner'.drop = Plus(owner.drop, One(call[t].capacity))
           /\ \A r \in DropReasons : owner.reasons[r] <= owner'.reasons[r]
           /\ UNCHANGED <<shard, classCounters>>
  <1>1. PICK c : c = call[t]
    OBVIOUS
  <1>2. c \in OfferCalls
    BY <1>1, CallIs DEF CallsOK, Refuse
  <1>3. PICK r : r = CountedReason(reason)
    OBVIOUS
  <1>4. r \in DropReasons
    BY <1>3 DEF CountedReason, DropReasons
  <1>5. PICK d : d = Plus(owner.drop, One(c.capacity))
    OBVIOUS
  <1>6. d \in Amounts
    BY <1>2, <1>5, PlusIs, OneIs DEF OwnerOK, OwnerSet, OfferCalls
  <1>7. owner' = [owner EXCEPT !.drop = d, !.reasons[r] = @ + 1]
    BY <1>1, <1>3, <1>5 DEF Refuse
  <1>8. /\ owner.put \in Amounts /\ owner.reasons \in [DropReasons -> Nat]
        /\ owner = [put |-> owner.put, drop |-> owner.drop, reasons |-> owner.reasons]
    BY DEF OwnerOK, OwnerSet
  <1>9. PICK q : q = [owner.reasons EXCEPT ![r] = @ + 1]
    OBVIOUS
  <1>10. q \in [DropReasons -> Nat] /\ \A x \in DropReasons : owner.reasons[x] <= q[x]
    BY <1>4, <1>8, <1>9
  <1>11. owner'.put = owner.put /\ owner'.drop = d /\ owner'.reasons = q /\ owner' \in OwnerSet
    BY <1>6, <1>7, <1>9, <1>10 DEF OwnerOK, OwnerSet
  <1>12. call' = [call EXCEPT ![t] = Idle] /\ UNCHANGED <<shard, classCounters>>
    BY DEF Refuse, Return, Continue, storage
  <1> QED
    BY <1>1, <1>2, <1>5, <1>10, <1>11, <1>12 DEF OwnerOK, Goes, Calls

-----------------------------------------------------------------------------
(* The types of what is stored and counted, and what the shards hold *)
StockInv == ShardsOK /\ CallsOK /\ CountersOK /\ OwnerOK

NewProbe(i, s) == [pc |-> "probe", class |-> i, primary |-> s, offset |-> 0]
NewClear(i)    == [pc |-> "clear", class |-> i, shard |-> 0, removed |-> Nothing]

LEMMA StartGetDoes ==
    ASSUME NEW t \in Threads, NEW i \in Classes, StartGet(t, i)
    PROVE  /\ call[t] = Idle /\ \E s \in Shards : Goes(t, NewProbe(i, s))
           /\ UNCHANGED <<shard, classCounters, owner>>
  <1>1. PICK s \in Shards : call[t] = Idle /\ call' = [call EXCEPT ![t] = NewProbe(i, s)]
    BY DEF StartGet, Begin, NewProbe
  <1>2. NewProbe(i, s) \in Calls
    BY TelemetryAssumption DEF NewProbe, Calls, ProbeCalls
  <1> QED
    BY <1>1, <1>2 DEF StartGet, Goes, storage, counted

LEMMA StartClearDoes ==
    ASSUME NEW t \in Threads, NEW i \in Classes, StartClear(t, i)
    PROVE  /\ call[t] = Idle /\ Goes(t, NewClear(i))
           /\ UNCHANGED <<shard, classCounters, owner>>
  <1>1. call[t] = Idle /\ call' = [call EXCEPT ![t] = NewClear(i)]
    BY DEF StartClear, Begin, NewClear
  <1>2. NewClear(i) \in Calls
    <2>1. 0 \in Shards
      BY TelemetryAssumption DEF Shards
    <2> QED
      BY <2>1, NothingIs DEF NewClear, Calls, ClearCalls
  <1> QED
    BY <1>1, <1>2 DEF StartClear, Goes, storage, counted

LEMMA Keeps ==
    ASSUME StockInv
    PROVE  /\ UNCHANGED shard => ShardsOK'
           /\ UNCHANGED classCounters => CountersOK'
           /\ UNCHANGED owner => OwnerOK'
           /\ UNCHANGED call => CallsOK'
           /\ \A t \in Threads : \A x : Goes(t, x) => CallsOK'
           /\ \A i, s, d : ShardMoves(i, s, d) => ShardsOK'
           /\ \A i, d : ClassMoves(i, d) => CountersOK' /\ ShardsOK' /\ OwnerOK'
  <1>1. UNCHANGED shard => ShardsOK'
    BY DEF StockInv, ShardsOK
  <1>2. (UNCHANGED classCounters => CountersOK') /\ (UNCHANGED owner => OwnerOK') /\ (UNCHANGED call => CallsOK')
    BY DEF StockInv, CountersOK, OwnerOK, CallsOK
  <1>3. \A t \in Threads : \A x : Goes(t, x) => CallsOK'
    BY GoesOn DEF StockInv
  <1>4. \A i, s, d : ShardMoves(i, s, d) => ShardsOK'
    BY DEF ShardMoves
  <1>5. ASSUME NEW i, NEW d, ClassMoves(i, d) PROVE CountersOK' /\ ShardsOK' /\ OwnerOK'
    <2>1. CountersOK'
      BY <1>5, MovesCounters DEF StockInv
    <2>2. UNCHANGED <<owner, shard>>
      BY <1>5 DEF ClassMoves
    <2> QED
      BY <1>1, <1>2, <2>1, <2>2
  <1> QED
    BY <1>1, <1>2, <1>3, <1>4, <1>5

LEMMA StockInit == ASSUME TelemetryInit PROVE StockInv
  <1>1. PICK x : x = [bucket |-> EmptyBucket, counters |-> NewShardCounters]
    OBVIOUS
  <1>2. x \in CellSet /\ Stocked(x)
    BY <1>1, NewStocked
  <1>3. shard = [i \in Classes |-> [s \in Shards |-> x]]
    BY <1>1 DEF TelemetryInit
  <1>4. ShardsOK
    BY <1>2, <1>3 DEF ShardsOK
  <1>5. CallsOK
    BY DEF TelemetryInit, CallsOK, Calls
  <1>6. CountersOK
    BY NothingIs DEF TelemetryInit, CountersOK, NewClassCounters, EventSet
  <1>7. OwnerOK
    BY NothingIs DEF TelemetryInit, OwnerOK, OwnerSet, NewOwnerCounters, NoReasons
  <1> QED
    BY <1>4, <1>5, <1>6, <1>7 DEF StockInv

LEMMA StockNext == ASSUME StockInv, TelemetryNext PROVE StockInv'
  <1> USE DEF StockInv
  <1>1. ASSUME NEW t \in Threads, Call(t) PROVE StockInv'
    <2>1. ASSUME NEW i \in Classes, StartGet(t, i) PROVE StockInv'
      BY <2>1, StartGetDoes, Keeps
    <2>2. ASSUME NEW i \in Classes, StartClear(t, i) PROVE StockInv'
      BY <2>2, StartClearDoes, Keeps
    <2>3. ASSUME NEW n \in Capacities, StartPut(t, n) PROVE StockInv'
      <3>1. n \in Nat
        BY TelemetryAssumption
      <3> QED
        BY <2>3, <3>1, StartPutDoes, Keeps
    <2>4. ASSUME NEW i \in Classes, NEW s \in Shards, NEW n \in TrimBuffers, NEW m \in ByteLimits, Trim(t, i, s, n, m)
          PROVE  StockInv'
      <3>1. n \in Nat /\ m \in Nat
        BY TelemetryAssumption
      <3>2. UNCHANGED <<classCounters, owner>>
        BY <2>4 DEF Trim, counted
      <3> QED
        BY <2>4, <3>1, <3>2, TrimDoes, Keeps
    <2> QED
      BY <1>1, <2>1, <2>2, <2>3, <2>4 DEF Call
  <1>2. ASSUME NEW t \in Threads, Advance(t) PROVE StockInv'
    <2>1. CASE Probe(t)
      <3>1. UNCHANGED <<classCounters, owner>>
        BY <2>1 DEF Probe, counted
      <3> QED
        BY <2>1, <3>1, ProbeDoes, Keeps DEF ProbeHits, ProbeMisses
    <2>2. CASE ClassGet(t)
      BY <2>2, ClassGetDoes, Keeps DEF CountsHit, CountsMiss
    <2>3. CASE Allocate(t)
      <3>1. UNCHANGED <<classCounters, owner>>
        BY <2>3 DEF Allocate, counted
      <3> QED
        BY <2>3, <3>1, AllocateDoes, Keeps
    <2>4. CASE ClassAllocation(t)
      BY <2>4, ClassAllocationDoes, Keeps
    <2>5. ASSUME NEW reason \in Reasons, Refuse(t, reason) PROVE StockInv'
      BY <2>5, RefuseDoes, Keeps
    <2>6. ASSUME NEW i \in Classes, NEW s \in Shards, TryRetain(t, i, s) PROVE StockInv'
      <3>1. UNCHANGED <<classCounters, owner>>
        BY <2>6 DEF TryRetain, counted
      <3> QED
        BY <2>6, <3>1, TryRetainDoes, Keeps DEF Unseen, Refused, Retained
    <2>7. CASE ClassPut(t)
      BY <2>7, ClassPutDoes, Keeps
    <2>8. CASE ClassTrim(t)
      BY <2>8, ClassTrimDoes, Keeps
    <2>9. CASE ClearShard(t)
      <3>1. UNCHANGED <<classCounters, owner>>
        BY <2>9 DEF ClearShard, counted
      <3> QED
        BY <2>9, <3>1, ClearShardDoes, Keeps
    <2>10. CASE ClassClear(t)
      BY <2>10, ClassClearDoes, Keeps
    <2> QED
      BY <1>2, <2>1, <2>2, <2>3, <2>4, <2>5, <2>6, <2>7, <2>8, <2>9, <2>10 DEF Advance
  <1>3. CASE Read
    <2>1. UNCHANGED <<shard, classCounters, owner, call>>
      BY <1>3 DEF Read, StartRead, LoadNext, CommitCycle, CommitOthers, Discard, storage, counted
    <2> QED
      BY <2>1, Keeps
  <1>4. CASE Quiet
    <2>1. UNCHANGED <<shard, classCounters, owner, call>>
      BY <1>4 DEF Quiet, telemetryVars, storage, counted
    <2> QED
      BY <2>1, Keeps
  <1> QED
    BY <1>1, <1>2, <1>3, <1>4 DEF TelemetryNext

LEMMA StockAlways == TelemetrySpec => []StockInv
  <1>1. ASSUME StockInv, UNCHANGED telemetryVars PROVE StockInv'
    BY <1>1, Keeps DEF StockInv, telemetryVars, storage, counted
  <1> QED
    BY <1>1, StockInit, StockNext, PTL DEF TelemetrySpec

LEMMA StockedIsFlow ==
    ASSUME NEW x, Stocked(x)
    PROVE  LET b == x.bucket
               c == x.counters
               e == c.events
           IN  /\ CountsAgree(b) /\ SegmentsLazy(b)
               /\ c.current = Amount(b.retainedBuffers, b.retainedBytes)
               /\ e["retain"] = Plus(c.current, Plus(e["hit"], Plus(e["trim"], e["clear"])))
               /\ e["put"] = Plus(e["retain"], e["drop"])
               /\ e["get"].count = e["hit"].count + e["miss"].count
  <1>1. PICK b, c, e, z : b = x.bucket /\ c = x.counters /\ e = c.events /\ z = c.current
    OBVIOUS
  <1>2. CountsAgree(b) /\ SegmentsLazy(b) /\ z = Amount(b.retainedBuffers, b.retainedBytes)
    BY <1>1, WellFacts DEF Stocked
  <1>3. Flow(e, z) /\ z \in Amounts /\ \A k \in Kinds : e[k] \in Amounts
    BY <1>1, CountedFacts DEF Stocked, Counted
  <1>4. {"retain", "hit", "trim", "clear", "put", "drop", "get", "miss"} \subseteq Kinds
    BY KindsAre
  <1>5. PICK y : y = Plus(e["trim"], e["clear"])
    OBVIOUS
  <1>6. /\ y \in Amounts /\ y.count = e["trim"].count + e["clear"].count
        /\ y.bytes = e["trim"].bytes + e["clear"].bytes
    BY <1>3, <1>4, <1>5, PlusIs
  <1>7. PICK w : w = Plus(e["hit"], y)
    OBVIOUS
  <1>8. /\ w \in Amounts /\ w.count = e["hit"].count + y.count /\ w.bytes = e["hit"].bytes + y.bytes
    BY <1>3, <1>4, <1>6, <1>7, PlusIs
  <1>9. /\ Plus(z, w) \in Amounts
        /\ Plus(z, w).count = z.count + w.count /\ Plus(z, w).bytes = z.bytes + w.bytes
    BY <1>3, <1>8, PlusIs
  <1>10. e["retain"].count = z.count + w.count /\ e["retain"].bytes = z.bytes + w.bytes
    <2>1. /\ e["retain"].count = z.count + e["hit"].count + e["trim"].count + e["clear"].count
          /\ e["retain"].bytes = z.bytes + e["hit"].bytes + e["trim"].bytes + e["clear"].bytes
      BY <1>3 DEF Flow
    <2>2. /\ e["hit"] \in Amounts /\ e["trim"] \in Amounts /\ e["clear"] \in Amounts
      BY <1>3, <1>4
    <2> QED
      BY <1>3, <1>6, <1>8, <2>1, <2>2 DEF Amounts
  <1>11. e["retain"] = Plus(z, w)
    BY <1>3, <1>4, <1>9, <1>10, SameAmount
  <1>12. e["put"] = Plus(e["retain"], e["drop"])
    <2>1. /\ Plus(e["retain"], e["drop"]) \in Amounts /\ e["put"] \in Amounts
          /\ Plus(e["retain"], e["drop"]).count = e["put"].count
          /\ Plus(e["retain"], e["drop"]).bytes = e["put"].bytes
      BY <1>3, <1>4, PlusIs DEF Flow
    <2> QED
      BY <2>1, SameAmount
  <1>13. e["get"].count = e["hit"].count + e["miss"].count
    BY <1>3 DEF Flow
  <1> QED
    BY <1>1, <1>2, <1>5, <1>7, <1>11, <1>12, <1>13

(* No gauge of a shard is ever wrong or below zero: after any calls of any goroutines it says *)
(* what the bucket holds, which is what was retained and neither handed out nor removed, and   *)
(* every put and get of the shard has one outcome (shard_counters.go:142-330, bucket.go:122-239). *)
THEOREM GaugesSayWhatIsHeld == TelemetrySpec => []StockIsFlow
  <1>1. ASSUME StockInv PROVE StockIsFlow
    <2>1. \A i \in Classes, s \in Shards : Stocked(shard[i][s])
      BY <1>1 DEF StockInv, ShardsOK
    <2> QED
      BY <2>1, StockedIsFlow DEF StockIsFlow
  <1> QED
    BY <1>1, StockAlways, PTL

-----------------------------------------------------------------------------
(* Totals of what is counted *)

LEMMA TotalIs ==
    ASSUME NEW S, IsFiniteSet(S), NEW f \in [S -> Amounts]
    PROVE  /\ Total(f) \in Amounts
           /\ Total(f).count = SumFunctionOnSet([x \in S |-> f[x].count], S)
           /\ Total(f).bytes = SumFunctionOnSet([x \in S |-> f[x].bytes], S)
  <1>1. DOMAIN f = S /\ \A x \in S : f[x].count \in Nat /\ f[x].bytes \in Nat
    BY DEF Amounts
  <1>2. PICK n, m : n = [x \in S |-> f[x].count] /\ m = [x \in S |-> f[x].bytes]
    OBVIOUS
  <1>3. SumFunctionOnSet(n, S) \in Nat /\ SumFunctionOnSet(m, S) \in Nat
    <2>1. \A x \in S : n[x] \in Nat /\ m[x] \in Nat
      BY <1>1, <1>2
    <2> QED
      BY <2>1, SumType
  <1>4. Total(f) = Amount(SumFunctionOnSet(n, S), SumFunctionOnSet(m, S))
    BY <1>1, <1>2 DEF Total
  <1> QED
    BY <1>2, <1>3, <1>4 DEF Amount, Amounts

(* A total with one term changed *)
LEMMA TotalMoves ==
    ASSUME NEW S, IsFiniteSet(S), NEW f \in [S -> Amounts], NEW g \in [S -> Amounts], NEW y \in S,
           \A x \in S \ {y} : g[x] = f[x]
    PROVE  Plus(Total(g), f[y]) = Plus(Total(f), g[y])
  <1>1. PICK fn, fm : fn = [x \in S |-> f[x].count] /\ fm = [x \in S |-> f[x].bytes]
    OBVIOUS
  <1>2. PICK gn, gm : gn = [x \in S |-> g[x].count] /\ gm = [x \in S |-> g[x].bytes]
    OBVIOUS
  <1>3. /\ \A x \in S : fn[x] \in Nat /\ gn[x] \in Nat /\ fm[x] \in Nat /\ gm[x] \in Nat
        /\ \A x \in S \ {y} : gn[x] = fn[x] /\ gm[x] = fm[x]
    BY <1>1, <1>2 DEF Amounts
  <1>4. SumFunctionOnSet(gn, S) + fn[y] = SumFunctionOnSet(fn, S) + gn[y]
    BY <1>3, SumChanged
  <1>5. SumFunctionOnSet(gm, S) + fm[y] = SumFunctionOnSet(fm, S) + gm[y]
    BY <1>3, SumChanged
  <1>6. /\ Total(f) \in Amounts /\ Total(f).count = SumFunctionOnSet(fn, S)
        /\ Total(f).bytes = SumFunctionOnSet(fm, S)
    BY <1>1, TotalIs
  <1>7. /\ Total(g) \in Amounts /\ Total(g).count = SumFunctionOnSet(gn, S)
        /\ Total(g).bytes = SumFunctionOnSet(gm, S)
    BY <1>2, TotalIs
  <1>8. /\ f[y] \in Amounts /\ g[y] \in Amounts
        /\ fn[y] = f[y].count /\ fm[y] = f[y].bytes /\ gn[y] = g[y].count /\ gm[y] = g[y].bytes
    BY <1>1, <1>2
  <1>9. /\ Plus(Total(g), f[y]) \in Amounts
        /\ Plus(Total(g), f[y]).count = SumFunctionOnSet(gn, S) + fn[y]
        /\ Plus(Total(g), f[y]).bytes = SumFunctionOnSet(gm, S) + fm[y]
    BY <1>7, <1>8, PlusIs
  <1>10. /\ Plus(Total(f), g[y]) \in Amounts
         /\ Plus(Total(f), g[y]).count = SumFunctionOnSet(fn, S) + gn[y]
         /\ Plus(Total(f), g[y]).bytes = SumFunctionOnSet(fm, S) + gm[y]
    BY <1>6, <1>8, PlusIs
  <1> QED
    BY <1>4, <1>5, <1>9, <1>10, SameAmount

LEMMA TotalOfNothing ==
    ASSUME NEW S, IsFiniteSet(S), NEW f, f = [x \in S |-> Nothing]
    PROVE  Total(f) = Nothing
  <1>1. f \in [S -> Amounts] /\ \A x \in S : f[x].count = 0 /\ f[x].bytes = 0
    BY NothingIs
  <1>2. PICK n, m : n = [x \in S |-> f[x].count] /\ m = [x \in S |-> f[x].bytes]
    OBVIOUS
  <1>3. \A x \in S : n[x] \in Nat /\ n[x] = n[x] * 0 /\ m[x] = n[x] * 0
    BY <1>1, <1>2
  <1>4. SumFunctionOnSet(n, S) = SumFunctionOnSet(n, S) * 0 /\ SumFunctionOnSet(m, S) = SumFunctionOnSet(n, S) * 0
    BY <1>3, SumScaled
  <1>5. SumFunctionOnSet(n, S) \in Nat
    BY <1>3, SumType
  <1>6. SumFunctionOnSet(n, S) = 0 /\ SumFunctionOnSet(m, S) = 0
    BY <1>4, <1>5
  <1> QED
    BY <1>1, <1>2, <1>6, TotalIs, NothingIs, SameAmount

(* The total of sums *)
LEMMA TotalOfSums ==
    ASSUME NEW S, IsFiniteSet(S), NEW f \in [S -> Amounts], NEW g \in [S -> Amounts], NEW h \in [S -> Amounts],
           \A x \in S : h[x].count = f[x].count + g[x].count
    PROVE  Total(h).count = Total(f).count + Total(g).count
  <1>1. PICK fn, gn, hn : /\ fn = [x \in S |-> f[x].count] /\ gn = [x \in S |-> g[x].count]
                          /\ hn = [x \in S |-> h[x].count]
    OBVIOUS
  <1>2. \A x \in S : fn[x] \in Nat /\ gn[x] \in Nat /\ hn[x] = fn[x] + gn[x]
    BY <1>1 DEF Amounts
  <1>3. SumFunctionOnSet(hn, S) = SumFunctionOnSet(fn, S) + SumFunctionOnSet(gn, S)
    BY <1>2, SumPlus
  <1> QED
    BY <1>1, <1>3, TotalIs

LEMMA TotalOfBytes ==
    ASSUME NEW S, IsFiniteSet(S), NEW f \in [S -> Amounts], NEW g \in [S -> Amounts], NEW h \in [S -> Amounts],
           \A x \in S : h[x].bytes = f[x].bytes + g[x].bytes
    PROVE  Total(h).bytes = Total(f).bytes + Total(g).bytes
  <1>1. PICK fn, gn, hn : /\ fn = [x \in S |-> f[x].bytes] /\ gn = [x \in S |-> g[x].bytes]
                          /\ hn = [x \in S |-> h[x].bytes]
    OBVIOUS
  <1>2. \A x \in S : fn[x] \in Nat /\ gn[x] \in Nat /\ hn[x] = fn[x] + gn[x]
    BY <1>1 DEF Amounts
  <1>3. SumFunctionOnSet(hn, S) = SumFunctionOnSet(fn, S) + SumFunctionOnSet(gn, S)
    BY <1>2, SumPlus
  <1> QED
    BY <1>1, <1>3, TotalIs

-----------------------------------------------------------------------------
(* What shards and classes have counted, and what calls have still to count *)

Tracked == {"hit", "retain", "allocation", "trimOperation", "trim", "clear"}

(* The shards have counted D, the class E, and calls that have not returned owe W. *)
Even(D, E, W) ==
    /\ \A k \in Tracked : D[k] = Plus(E[k], W[k])
    /\ E["miss"].count = E["allocation"].count + W["miss"].count
    /\ D["clearOperation"].count = E["clearOperation"].count * NumShards + W["clearOperation"].count

(* A shard counts d, the class e, and a call that owed w owes x. *)
Balances(d, e, w, x) ==
    /\ \A k \in Tracked : Plus(d[k], w[k]) = Plus(e[k], x[k])
    /\ e["miss"].count + w["miss"].count = e["allocation"].count + x["miss"].count
    /\ d["clearOperation"].count + w["clearOperation"].count
          = e["clearOperation"].count * NumShards + x["clearOperation"].count

(* Calls that owed W owe X, after one that owed w owes x. *)
Repays(W, X, w, x) == \A k \in Kinds : Plus(X[k], w[k]) = Plus(W[k], x[k])

LEMMA EvenSums ==
    ASSUME NEW D \in Nat, NEW E \in Nat, NEW W \in Nat, NEW X \in Nat,
           NEW d \in Nat, NEW e \in Nat, NEW w \in Nat, NEW x \in Nat,
           D = E + W, d + w = e + x, X + w = W + x
    PROVE  D + d = (E + e) + X
  OBVIOUS

LEMMA EvenMoves ==
    ASSUME NEW D \in EventSet, NEW E \in EventSet, NEW W \in EventSet, NEW X \in EventSet,
           NEW d \in EventSet, NEW e \in EventSet, NEW w \in EventSet, NEW x \in EventSet,
           Even(D, E, W), Balances(d, e, w, x), Repays(W, X, w, x)
    PROVE  Even(Added(D, d), Added(E, e), X)
  <1>1. ASSUME NEW k \in Kinds
        PROVE  /\ D[k] \in Amounts /\ E[k] \in Amounts /\ W[k] \in Amounts /\ X[k] \in Amounts
               /\ d[k] \in Amounts /\ e[k] \in Amounts /\ w[k] \in Amounts /\ x[k] \in Amounts
    BY DEF EventSet
  <1>2. ASSUME NEW a \in Amounts PROVE a.count \in Nat /\ a.bytes \in Nat
    BY DEF Amounts
  <1>3. ASSUME NEW k \in Kinds PROVE Added(D, d)[k] = Plus(D[k], d[k]) /\ Added(E, e)[k] = Plus(E[k], e[k])
    BY DEF Added
  <1>4. ASSUME NEW k \in Kinds
        PROVE  X[k].count + w[k].count = W[k].count + x[k].count /\ X[k].bytes + w[k].bytes = W[k].bytes + x[k].bytes
    <2>1. /\ Plus(X[k], w[k]).count = X[k].count + w[k].count /\ Plus(X[k], w[k]).bytes = X[k].bytes + w[k].bytes
      BY <1>1, PlusIs
    <2>2. /\ Plus(W[k], x[k]).count = W[k].count + x[k].count /\ Plus(W[k], x[k]).bytes = W[k].bytes + x[k].bytes
      BY <1>1, PlusIs
    <2>3. Plus(X[k], w[k]) = Plus(W[k], x[k])
      BY DEF Repays
    <2> QED
      BY <2>1, <2>2, <2>3
  <1>5. Tracked \subseteq Kinds /\ {"miss", "allocation", "clearOperation"} \subseteq Kinds
    BY KindsAre DEF Tracked
  <1>6. ASSUME NEW k \in Tracked PROVE Added(D, d)[k] = Plus(Added(E, e)[k], X[k])
    <2>1. k \in Kinds
      BY <1>5
    <2>2. PICK D1, E1, W1, X1 : D1 = D[k] /\ E1 = E[k] /\ W1 = W[k] /\ X1 = X[k]
      OBVIOUS
    <2>3. PICK d1, e1, w1, x1 : d1 = d[k] /\ e1 = e[k] /\ w1 = w[k] /\ x1 = x[k]
      OBVIOUS
    <2>4. /\ D1 \in Amounts /\ E1 \in Amounts /\ W1 \in Amounts /\ X1 \in Amounts
          /\ d1 \in Amounts /\ e1 \in Amounts /\ w1 \in Amounts /\ x1 \in Amounts
      BY <1>1, <2>1, <2>2, <2>3
    <2>5. /\ D1.count = E1.count + W1.count /\ D1.bytes = E1.bytes + W1.bytes
      <3>1. D1 = Plus(E1, W1)
        BY <2>2 DEF Even
      <3> QED
        BY <2>4, <3>1, PlusIs
    <2>6. /\ d1.count + w1.count = e1.count + x1.count /\ d1.bytes + w1.bytes = e1.bytes + x1.bytes
      <3>1. Plus(d1, w1) = Plus(e1, x1)
        BY <2>3 DEF Balances
      <3>2. Plus(d1, w1).count = d1.count + w1.count /\ Plus(d1, w1).bytes = d1.bytes + w1.bytes
        BY <2>4, PlusIs
      <3>3. Plus(e1, x1).count = e1.count + x1.count /\ Plus(e1, x1).bytes = e1.bytes + x1.bytes
        BY <2>4, PlusIs
      <3> QED
        BY <3>1, <3>2, <3>3
    <2>7. /\ X1.count + w1.count = W1.count + x1.count /\ X1.bytes + w1.bytes = W1.bytes + x1.bytes
      BY <1>4, <2>1, <2>2, <2>3
    <2>8. D1.count + d1.count = (E1.count + e1.count) + X1.count
      BY <1>2, <2>4, <2>5, <2>6, <2>7, EvenSums
    <2>9. D1.bytes + d1.bytes = (E1.bytes + e1.bytes) + X1.bytes
      BY <1>2, <2>4, <2>5, <2>6, <2>7, EvenSums
    <2>10. PICK y : y = Plus(E1, e1)
      OBVIOUS
    <2>11. y \in Amounts /\ y.count = E1.count + e1.count /\ y.bytes = E1.bytes + e1.bytes
      BY <2>4, <2>10, PlusIs
    <2>12. Plus(D1, d1) = Plus(y, X1)
      <3>1. /\ Plus(D1, d1) \in Amounts
            /\ Plus(D1, d1).count = D1.count + d1.count /\ Plus(D1, d1).bytes = D1.bytes + d1.bytes
        BY <2>4, PlusIs
      <3>2. /\ Plus(y, X1) \in Amounts
            /\ Plus(y, X1).count = y.count + X1.count /\ Plus(y, X1).bytes = y.bytes + X1.bytes
        BY <2>4, <2>11, PlusIs
      <3> QED
        BY <2>8, <2>9, <2>11, <3>1, <3>2, SameAmount
    <2> QED
      BY <1>3, <2>1, <2>2, <2>3, <2>10, <2>12
  <1>7. Added(E, e)["miss"].count = Added(E, e)["allocation"].count + X["miss"].count
    <2>1. /\ Added(E, e)["miss"].count = E["miss"].count + e["miss"].count
          /\ Added(E, e)["allocation"].count = E["allocation"].count + e["allocation"].count
      BY <1>1, <1>3, <1>5, PlusIs
    <2>2. /\ E["miss"].count = E["allocation"].count + W["miss"].count
          /\ e["miss"].count + w["miss"].count = e["allocation"].count + x["miss"].count
      BY DEF Even, Balances
    <2>3. X["miss"].count + w["miss"].count = W["miss"].count + x["miss"].count
      BY <1>4, <1>5
    <2>4. /\ E["miss"].count \in Nat /\ E["allocation"].count \in Nat /\ W["miss"].count \in Nat
          /\ e["miss"].count \in Nat /\ e["allocation"].count \in Nat /\ w["miss"].count \in Nat
          /\ X["miss"].count \in Nat /\ x["miss"].count \in Nat
      BY <1>1, <1>2, <1>5
    <2>5. PICK D1, E1, W1, X1 : /\ D1 = E["miss"].count /\ E1 = E["allocation"].count
                                /\ W1 = W["miss"].count /\ X1 = X["miss"].count
      OBVIOUS
    <2>6. PICK d1, e1, w1, x1 : /\ d1 = e["miss"].count /\ e1 = e["allocation"].count
                                /\ w1 = w["miss"].count /\ x1 = x["miss"].count
      OBVIOUS
    <2>7. /\ D1 \in Nat /\ E1 \in Nat /\ W1 \in Nat /\ X1 \in Nat
          /\ d1 \in Nat /\ e1 \in Nat /\ w1 \in Nat /\ x1 \in Nat
          /\ D1 = E1 + W1 /\ d1 + w1 = e1 + x1 /\ X1 + w1 = W1 + x1
      BY <2>2, <2>3, <2>4, <2>5, <2>6
    <2>8. D1 + d1 = (E1 + e1) + X1
      BY <2>7, EvenSums
    <2> QED
      BY <2>1, <2>5, <2>6, <2>8
  <1>8. Added(D, d)["clearOperation"].count
          = Added(E, e)["clearOperation"].count * NumShards + X["clearOperation"].count
    <2>1. /\ Added(D, d)["clearOperation"].count = D["clearOperation"].count + d["clearOperation"].count
          /\ Added(E, e)["clearOperation"].count = E["clearOperation"].count + e["clearOperation"].count
      BY <1>1, <1>3, <1>5, PlusIs
    <2>2. /\ D["clearOperation"].count = E["clearOperation"].count * NumShards + W["clearOperation"].count
          /\ d["clearOperation"].count + w["clearOperation"].count
                = e["clearOperation"].count * NumShards + x["clearOperation"].count
      BY DEF Even, Balances
    <2>3. X["clearOperation"].count + w["clearOperation"].count = W["clearOperation"].count + x["clearOperation"].count
      BY <1>4, <1>5
    <2>4. /\ D["clearOperation"].count \in Nat /\ E["clearOperation"].count \in Nat /\ W["clearOperation"].count \in Nat
          /\ d["clearOperation"].count \in Nat /\ e["clearOperation"].count \in Nat /\ w["clearOperation"].count \in Nat
          /\ X["clearOperation"].count \in Nat /\ x["clearOperation"].count \in Nat
      BY <1>1, <1>2, <1>5
    <2>5. PICK p, q : p = E["clearOperation"].count * NumShards /\ q = e["clearOperation"].count * NumShards
      OBVIOUS
    <2>6. NumShards \in Nat
      BY TelemetryAssumption
    <2>7. \A a, b \in Nat : a * NumShards \in Nat /\ a * NumShards + b * NumShards = (a + b) * NumShards
      BY <2>6
    <2>8. p \in Nat /\ q \in Nat /\ p + q = (E["clearOperation"].count + e["clearOperation"].count) * NumShards
      BY <2>4, <2>5, <2>7
    <2>9. PICK D1, W1, X1 : /\ D1 = D["clearOperation"].count /\ W1 = W["clearOperation"].count
                            /\ X1 = X["clearOperation"].count
      OBVIOUS
    <2>10. PICK d1, w1, x1 : /\ d1 = d["clearOperation"].count /\ w1 = w["clearOperation"].count
                             /\ x1 = x["clearOperation"].count
      OBVIOUS
    <2>11. /\ D1 \in Nat /\ W1 \in Nat /\ X1 \in Nat /\ d1 \in Nat /\ w1 \in Nat /\ x1 \in Nat
           /\ D1 = p + W1 /\ d1 + w1 = q + x1 /\ X1 + w1 = W1 + x1
      BY <2>2, <2>3, <2>4, <2>5, <2>9, <2>10
    <2>12. D1 + d1 = (p + q) + X1
      BY <2>8, <2>11, EvenSums
    <2> QED
      BY <2>1, <2>8, <2>9, <2>10, <2>12
  <1> QED
    BY <1>6, <1>7, <1>8 DEF Even

-----------------------------------------------------------------------------
(* What a call has still to count, given that its shards have *)
HasClass(c) == c.pc \notin {"idle", "offered"}
Owed(c) ==
    IF c.pc = "classGet" /\ c.hit THEN OfOne("hit", One(c.capacity))
    ELSE IF c.pc = "allocate" THEN OfOne("miss", One(0))
    ELSE IF c.pc = "classAllocation" THEN OfBoth("miss", One(0), "allocation", One(ClassSizes[c.class]))
    ELSE IF c.pc = "classPut" /\ c.result = "retain" THEN OfOne("retain", One(c.capacity))
    ELSE IF c.pc = "classTrim" THEN OfBoth("trimOperation", One(0), "trim", c.removed)
    ELSE IF c.pc = "clear" THEN OfBoth("clearOperation", Amount(c.shard, 0), "clear", c.removed)
    ELSE IF c.pc = "classClear" THEN OfBoth("clearOperation", Amount(NumShards, 0), "clear", c.removed)
    ELSE NewClassCounters
Debt(c, i) == IF HasClass(c) /\ c.class = i THEN Owed(c) ELSE NewClassCounters

LEMMA NewIs == NewClassCounters \in EventSet /\ \A k \in Kinds : NewClassCounters[k] = Nothing
  BY NothingIs DEF NewClassCounters, EventSet

LEMMA OfIs ==
    ASSUME NEW k1 \in Kinds, NEW k2 \in Kinds, NEW a1 \in Amounts, NEW a2 \in Amounts
    PROVE  OfOne(k1, a1) \in EventSet /\ OfBoth(k1, a1, k2, a2) \in EventSet
  BY NothingIs DEF OfOne, OfBoth, EventSet

LEMMA CountIs == ASSUME NEW n \in Nat PROVE Amount(n, 0) \in Amounts /\ Amount(n, 0).count = n /\ Amount(n, 0).bytes = 0
  BY DEF Amount, Amounts

LEMMA OwedIs == ASSUME NEW c \in Calls PROVE Owed(c) \in EventSet
  <1>1. {"hit", "miss", "allocation", "retain", "trimOperation", "trim", "clearOperation", "clear"} \subseteq Kinds
    BY KindsAre
  <1>2. One(0) \in Amounts
    BY OneIs
  <1>3. CASE c.pc = "classGet" /\ c.hit
    <2>1. One(c.capacity) \in Amounts
      BY <1>3, CallIs, OneIs DEF HitCalls
    <2> QED
      BY <1>1, <1>3, <2>1, OfIs DEF Owed
  <1>4. CASE c.pc = "allocate"
    BY <1>1, <1>2, <1>4, OfIs DEF Owed
  <1>5. CASE c.pc = "classAllocation"
    <2>1. One(ClassSizes[c.class]) \in Amounts
      BY <1>5, CallIs, Sizes, OneIs DEF MissCalls
    <2> QED
      BY <1>1, <1>2, <1>5, <2>1, OfIs DEF Owed
  <1>6. CASE c.pc = "classPut" /\ c.result = "retain"
    <2>1. One(c.capacity) \in Amounts
      BY <1>6, CallIs, OneIs DEF PutCalls
    <2> QED
      BY <1>1, <1>6, <2>1, OfIs DEF Owed
  <1>7. CASE c.pc = "classTrim"
    <2>1. c.removed \in Amounts
      BY <1>7, CallIs DEF TrimCalls
    <2> QED
      BY <1>1, <1>2, <1>7, <2>1, OfIs DEF Owed
  <1>8. CASE c.pc = "clear"
    <2>1. c.removed \in Amounts /\ c.shard \in Nat
      BY <1>8, CallIs DEF ClearCalls, Shards
    <2>2. Amount(c.shard, 0) \in Amounts
      BY <2>1, CountIs
    <2> QED
      BY <1>1, <1>8, <2>1, <2>2, OfIs DEF Owed
  <1>9. CASE c.pc = "classClear"
    <2>1. c.removed \in Amounts
      BY <1>9, CallIs DEF TrimCalls
    <2>2. Amount(NumShards, 0) \in Amounts
      BY CountIs, TelemetryAssumption
    <2> QED
      BY <1>1, <1>9, <2>1, <2>2, OfIs DEF Owed
  <1>10. CASE /\ ~(c.pc = "classGet" /\ c.hit) /\ ~(c.pc = "classPut" /\ c.result = "retain")
              /\ c.pc \notin {"allocate", "classAllocation", "classTrim", "clear", "classClear"}
    BY <1>10, NewIs DEF Owed
  <1> QED
    BY <1>3, <1>4, <1>5, <1>6, <1>7, <1>8, <1>9, <1>10

OwnClass(c, i) == HasClass(c) => c.class = i

LEMMA DebtIs ==
    ASSUME NEW c \in Calls, NEW i
    PROVE  /\ Debt(c, i) \in EventSet
           /\ OwnClass(c, i) => Debt(c, i) = Owed(c) /\ \A j : j # i => Debt(c, j) = NewClassCounters
           /\ Owed(c) = NewClassCounters => \A j : Debt(c, j) = NewClassCounters
  <1>1. ~HasClass(c) => Owed(c) = NewClassCounters
    BY DEF HasClass, Owed
  <1> QED
    BY <1>1, OwedIs, NewIs DEF Debt, OwnClass

-----------------------------------------------------------------------------
(* What is counted in all *)

Seen(i)  == [k \in Kinds |-> OfShards(i, k)]
Debts(i) == [k \in Kinds |-> Total([t \in Threads |-> Debt(call[t], i)[k]])]

(* A class counts each get as a hit or a miss, and each put as retained or dropped. *)
Settled(e) ==
    /\ e["get"].count = e["hit"].count + e["miss"].count
    /\ e["put"].count = e["retain"].count + e["drop"].count
    /\ e["put"].bytes = e["retain"].bytes + e["drop"].bytes

LedgerInv ==
    \A i \in Classes : Even(Seen(i), classCounters[i], Debts(i)) /\ Settled(classCounters[i])

LEMMA SettledMoves ==
    ASSUME NEW e \in EventSet, NEW d \in EventSet, Settled(e), Settled(d)
    PROVE  Settled(Added(e, d))
  <1>1. PICK f : f = Added(e, d)
    OBVIOUS
  <1>2. ASSUME NEW k \in Kinds PROVE PartsAdd(f, e, d, k)
    <2>1. e[k] \in Amounts /\ d[k] \in Amounts
      BY DEF EventSet
    <2>2. f[k] = Plus(e[k], d[k])
      BY <1>1 DEF Added
    <2> QED
      BY <2>1, <2>2, PlusIs DEF Amounts, PartsAdd
  <1>3. /\ PartsAdd(f, e, d, "get") /\ PartsAdd(f, e, d, "hit") /\ PartsAdd(f, e, d, "miss")
        /\ PartsAdd(f, e, d, "put") /\ PartsAdd(f, e, d, "retain") /\ PartsAdd(f, e, d, "drop")
    BY <1>2, KindsAre
  <1>4. f["get"].count = f["hit"].count + f["miss"].count
    BY <1>3 DEF Settled, PartsAdd
  <1>5. f["put"].count = f["retain"].count + f["drop"].count
    BY <1>3 DEF Settled, PartsAdd
  <1>6. f["put"].bytes = f["retain"].bytes + f["drop"].bytes
    BY <1>3 DEF Settled, PartsAdd
  <1> QED
    BY <1>1, <1>4, <1>5, <1>6 DEF Settled

LEMMA ShardsFinite == IsFiniteSet(Shards)
  BY TelemetryAssumption, FS_Interval DEF Shards

LEMMA CellEvents ==
    ASSUME ShardsOK, NEW i \in Classes, NEW s \in Shards
    PROVE  shard[i][s].counters.events \in EventSet
  BY DEF ShardsOK, CellSet, GaugeSet

LEMMA SeenIs ==
    ASSUME ShardsOK, NEW i \in Classes
    PROVE  /\ Seen(i) \in EventSet
           /\ \A k \in Kinds : [s \in Shards |-> shard[i][s].counters.events[k]] \in [Shards -> Amounts]
  <1>1. ASSUME NEW k \in Kinds
        PROVE  [s \in Shards |-> shard[i][s].counters.events[k]] \in [Shards -> Amounts]
    BY CellEvents DEF EventSet
  <1>2. ASSUME NEW k \in Kinds PROVE OfShards(i, k) \in Amounts
    <2>1. PICK f : f = [s \in Shards |-> shard[i][s].counters.events[k]]
      OBVIOUS
    <2>2. f \in [Shards -> Amounts] /\ OfShards(i, k) = Total(f)
      BY <1>1, <2>1 DEF OfShards
    <2> QED
      BY <2>2, ShardsFinite, TotalIs
  <1> QED
    BY <1>1, <1>2 DEF Seen, EventSet

LEMMA SeenMoves ==
    ASSUME ShardsOK, NEW i, NEW s, NEW d, ShardMoves(i, s, d)
    PROVE  \A j \in Classes : Seen(j)' = IF j = i THEN Added(Seen(j), d) ELSE Seen(j)
  <1>1. ShardsOK' /\ i \in Classes /\ s \in Shards /\ d \in EventSet
    BY DEF ShardMoves
  <1>2. ASSUME NEW j \in Classes, NEW k \in Kinds
        PROVE  OfShards(j, k)' = IF j = i THEN Plus(OfShards(j, k), d[k]) ELSE OfShards(j, k)
    <2>1. PICK f, g : /\ f = [r \in Shards |-> shard[j][r].counters.events[k]]
                      /\ g = [r \in Shards |-> shard'[j][r].counters.events[k]]
      OBVIOUS
    <2>2. f \in [Shards -> Amounts] /\ OfShards(j, k) = Total(f)
      BY <2>1, SeenIs DEF OfShards
    <2>3. g \in [Shards -> Amounts]
      <3>1. ASSUME NEW r \in Shards PROVE shard'[j][r].counters.events \in EventSet
        BY <1>1 DEF ShardsOK, CellSet, GaugeSet
      <3> QED
        BY <2>1, <3>1 DEF EventSet
    <2>4. OfShards(j, k)' = Total(g)
      BY <2>1 DEF OfShards
    <2>5. CASE j # i
      <3>1. \A r \in Shards : shard'[j][r].counters.events = shard[j][r].counters.events
        BY <2>5 DEF ShardMoves
      <3>2. f = g
        BY <2>1, <3>1
      <3> QED
        BY <2>2, <2>4, <2>5, <3>2
    <2>6. CASE j = i
      <3>1. shard'[i][s].counters.events = Added(shard[i][s].counters.events, d)
        BY <1>1 DEF ShardMoves
      <3>2. g[s] = Plus(f[s], d[k])
        BY <1>1, <2>1, <2>6, <3>1 DEF Added
      <3>3. \A r \in Shards \ {s} : g[r] = f[r]
        <4>1. \A r \in Shards \ {s} : shard'[j][r].counters.events = shard[j][r].counters.events
          BY DEF ShardMoves
        <4> QED
          BY <2>1, <4>1
      <3>4. Plus(Total(g), f[s]) = Plus(Total(f), g[s])
        BY <1>1, <2>2, <2>3, <3>3, ShardsFinite, TotalMoves
      <3>5. PICK F, G, a, b : F = Total(f) /\ G = Total(g) /\ a = f[s] /\ b = d[k]
        OBVIOUS
      <3>6. F \in Amounts /\ G \in Amounts /\ a \in Amounts /\ b \in Amounts
        <4>1. b \in Amounts
          BY <1>1, <3>5 DEF EventSet
        <4> QED
          BY <1>1, <2>2, <2>3, <3>5, <4>1, ShardsFinite, TotalIs
      <3>7. Plus(G, a) = Plus(F, Plus(a, b))
        BY <3>2, <3>4, <3>5
      <3>8. PICK z : z = Plus(a, b)
        OBVIOUS
      <3>9. z \in Amounts /\ z.count = a.count + b.count /\ z.bytes = a.bytes + b.bytes
        BY <3>6, <3>8, PlusIs
      <3>10. G.count + a.count = F.count + z.count /\ G.bytes + a.bytes = F.bytes + z.bytes
        <4>1. Plus(G, a).count = G.count + a.count /\ Plus(G, a).bytes = G.bytes + a.bytes
          BY <3>6, PlusIs
        <4>2. Plus(F, z).count = F.count + z.count /\ Plus(F, z).bytes = F.bytes + z.bytes
          BY <3>6, <3>9, PlusIs
        <4> QED
          BY <3>7, <3>8, <4>1, <4>2
      <3>11. G.count = F.count + b.count /\ G.bytes = F.bytes + b.bytes
        BY <3>6, <3>9, <3>10 DEF Amounts
      <3>12. G = Plus(F, b)
        <4>1. /\ Plus(F, b) \in Amounts
              /\ Plus(F, b).count = F.count + b.count /\ Plus(F, b).bytes = F.bytes + b.bytes
          BY <3>6, PlusIs
        <4> QED
          BY <3>6, <3>11, <4>1, SameAmount
      <3> QED
        BY <2>2, <2>4, <2>6, <3>5, <3>12
    <2> QED
      BY <2>5, <2>6
  <1>3. ASSUME NEW j \in Classes PROVE Seen(j)' = IF j = i THEN Added(Seen(j), d) ELSE Seen(j)
    <2>1. Seen(j)' = [k \in Kinds |-> OfShards(j, k)']
      BY DEF Seen
    <2>2. \A k \in Kinds : Seen(j)[k] = OfShards(j, k)
      BY DEF Seen
    <2>3. CASE j = i
      BY <1>2, <2>1, <2>2, <2>3 DEF Added
    <2>4. CASE j # i
      BY <1>2, <2>1, <2>4 DEF Seen
    <2> QED
      BY <2>3, <2>4
  <1> QED
    BY <1>3

LEMMA DebtsMove ==
    ASSUME CallsOK, NEW t \in Threads, NEW x, Goes(t, x), NEW i
    PROVE  /\ Debts(i) \in EventSet /\ Debts(i)' \in EventSet
           /\ Repays(Debts(i), Debts(i)', Debt(call[t], i), Debt(x, i))
           /\ Debt(call[t], i) = Debt(x, i) => Debts(i)' = Debts(i)
  <1>1. CallsOK' /\ call'[t] = x /\ \A u \in Threads : u # t => call'[u] = call[u]
    BY GoesOn
  <1>2. IsFiniteSet(Threads)
    BY TelemetryAssumption
  <1>3. ASSUME NEW k \in Kinds
        PROVE  /\ Debts(i)[k] \in Amounts /\ Debts(i)'[k] \in Amounts
               /\ Plus(Debts(i)'[k], Debt(call[t], i)[k]) = Plus(Debts(i)[k], Debt(x, i)[k])
               /\ Debt(call[t], i) = Debt(x, i) => Debts(i)'[k] = Debts(i)[k]
    <2>1. PICK f, g : /\ f = [u \in Threads |-> Debt(call[u], i)[k]]
                      /\ g = [u \in Threads |-> Debt(call'[u], i)[k]]
      OBVIOUS
    <2>2. f \in [Threads -> Amounts] /\ g \in [Threads -> Amounts]
      <3>1. \A u \in Threads : Debt(call[u], i) \in EventSet /\ Debt(call'[u], i) \in EventSet
        BY <1>1, DebtIs DEF CallsOK
      <3> QED
        BY <2>1, <3>1 DEF EventSet
    <2>3. Debts(i)[k] = Total(f)
      BY <2>1 DEF Debts
    <2>4. Debts(i)'[k] = Total(g)
      BY <2>1 DEF Debts, Debt, HasClass, Owed
    <2>5. Total(f) \in Amounts /\ Total(g) \in Amounts
      BY <1>2, <2>2, TotalIs
    <2>6. \A u \in Threads \ {t} : g[u] = f[u]
      BY <1>1, <2>1
    <2>7. Plus(Total(g), f[t]) = Plus(Total(f), g[t])
      BY <1>2, <2>2, <2>6, TotalMoves
    <2>8. f[t] = Debt(call[t], i)[k] /\ g[t] = Debt(x, i)[k]
      BY <1>1, <2>1
    <2>9. Debt(call[t], i) = Debt(x, i) => f = g
      BY <2>2, <2>6, <2>8
    <2> QED
      BY <2>3, <2>4, <2>5, <2>7, <2>8, <2>9
  <1>4. Debts(i) = [k \in Kinds |-> Debts(i)[k]] /\ Debts(i)' = [k \in Kinds |-> Debts(i)'[k]]
    BY DEF Debts
  <1> QED
    BY <1>3, <1>4 DEF EventSet, Repays

-----------------------------------------------------------------------------
(* What keeps the ledgers even *)

LEMMA CallKeeps ==
    ASSUME StockInv, LedgerInv, NEW t \in Threads, NEW x, Goes(t, x), UNCHANGED <<shard, classCounters>>,
           \A i \in Classes : Debt(call[t], i) = Debt(x, i)
    PROVE  LedgerInv'
  <1>1. ASSUME NEW i \in Classes
        PROVE  Even(Seen(i)', classCounters'[i], Debts(i)') /\ Settled(classCounters'[i])
    <2>1. Debts(i)' = Debts(i)
      BY DebtsMove DEF StockInv
    <2>2. Seen(i)' = Seen(i)
      BY DEF Seen, OfShards
    <2> QED
      BY <2>1, <2>2 DEF LedgerInv
  <1> QED
    BY <1>1 DEF LedgerInv

LEMMA StepKeeps ==
    ASSUME StockInv, LedgerInv, NEW t \in Threads, NEW x, Goes(t, x), NEW i \in Classes,
           NEW d \in EventSet, NEW e \in EventSet,
           OwnClass(call[t], i), OwnClass(x, i), Balances(d, e, Owed(call[t]), Owed(x)), Settled(e),
           \A j \in Classes : Seen(j)' = IF j = i THEN Added(Seen(j), d) ELSE Seen(j),
           \A j \in Classes : classCounters'[j] = IF j = i THEN Added(classCounters[j], e) ELSE classCounters[j]
    PROVE  LedgerInv'
  <1>1. call[t] \in Calls /\ x \in Calls
    BY DEF StockInv, CallsOK, Goes
  <1>2. ASSUME NEW j \in Classes
        PROVE  Even(Seen(j)', classCounters'[j], Debts(j)') /\ Settled(classCounters'[j])
    <2>1. Even(Seen(j), classCounters[j], Debts(j)) /\ Settled(classCounters[j])
      BY DEF LedgerInv
    <2>2. CASE j # i
      <3>1. Debt(call[t], j) = NewClassCounters /\ Debt(x, j) = NewClassCounters
        BY <1>1, <2>2, DebtIs
      <3>2. Debts(j)' = Debts(j)
        BY <3>1, DebtsMove DEF StockInv
      <3>3. Seen(j)' = Seen(j) /\ classCounters'[j] = classCounters[j]
        BY <2>2
      <3> QED
        BY <2>1, <3>2, <3>3
    <2>3. CASE j = i
      <3>1. PICK w, y : w = Owed(call[t]) /\ y = Owed(x)
        OBVIOUS
      <3>2. Debt(call[t], i) = w /\ Debt(x, i) = y /\ w \in EventSet /\ y \in EventSet
        BY <1>1, <3>1, DebtIs
      <3>3. PICK W, X : W = Debts(i) /\ X = Debts(i)'
        OBVIOUS
      <3>4. W \in EventSet /\ X \in EventSet /\ Repays(W, X, w, y)
        BY <3>2, <3>3, DebtsMove DEF StockInv
      <3>5. PICK D, E : D = Seen(i) /\ E = classCounters[i]
        OBVIOUS
      <3>6. D \in EventSet /\ E \in EventSet
        BY <3>5, SeenIs DEF StockInv, CountersOK
      <3>7. Even(D, E, W) /\ Balances(d, e, w, y)
        BY <2>1, <2>3, <3>1, <3>3, <3>5
      <3>8. Even(Added(D, d), Added(E, e), X)
        BY <3>2, <3>4, <3>6, <3>7, EvenMoves
      <3>9. Settled(Added(E, e))
        BY <2>1, <2>3, <3>5, <3>6, SettledMoves
      <3> QED
        BY <2>3, <3>3, <3>5, <3>8, <3>9
    <2> QED
      BY <2>2, <2>3
  <1> QED
    BY <1>2 DEF LedgerInv

LEMMA AddedNothing == ASSUME NEW e \in EventSet PROVE Added(e, NewClassCounters) = e
  <1>1. \A k \in Kinds : e[k] \in Amounts /\ Plus(e[k], NewClassCounters[k]) = e[k]
    BY NewIs, PlusNothing DEF EventSet
  <1> QED
    BY <1>1 DEF Added, EventSet

LEMMA SettledNew == Settled(NewClassCounters)
  BY NewIs, NothingIs, KindsAre DEF Settled

(* A shard counts d, and the class nothing yet. *)
LEMMA ShardKeeps ==
    ASSUME StockInv, LedgerInv, NEW t \in Threads, NEW x, Goes(t, x), NEW i, NEW s, NEW d,
           ShardMoves(i, s, d), UNCHANGED classCounters, OwnClass(call[t], i), OwnClass(x, i),
           Balances(d, NewClassCounters, Owed(call[t]), Owed(x))
    PROVE  LedgerInv'
  <1>1. i \in Classes /\ d \in EventSet
    BY DEF ShardMoves
  <1>2. \A j \in Classes : Seen(j)' = IF j = i THEN Added(Seen(j), d) ELSE Seen(j)
    BY SeenMoves DEF StockInv
  <1>3. \A j \in Classes : classCounters[j] = Added(classCounters[j], NewClassCounters)
    BY AddedNothing DEF StockInv, CountersOK
  <1>4. \A j \in Classes : classCounters'[j] = IF j = i THEN Added(classCounters[j], NewClassCounters) ELSE classCounters[j]
    BY <1>3
  <1> QED
    BY <1>1, <1>2, <1>4, SettledNew, NewIs, StepKeeps

(* The class counts e. *)
LEMMA ClassKeeps ==
    ASSUME StockInv, LedgerInv, NEW t \in Threads, NEW x, Goes(t, x), NEW i, NEW e,
           ClassMoves(i, e), OwnClass(call[t], i), OwnClass(x, i),
           Balances(NewClassCounters, e, Owed(call[t]), Owed(x)), Settled(e)
    PROVE  LedgerInv'
  <1>1. i \in Classes /\ e \in EventSet /\ UNCHANGED shard
    BY DEF ClassMoves
  <1>2. \A j \in Classes : Seen(j)' = Seen(j)
    BY <1>1 DEF Seen, OfShards
  <1>3. \A j \in Classes : Seen(j) = Added(Seen(j), NewClassCounters)
    BY AddedNothing, SeenIs DEF StockInv
  <1>4. \A j \in Classes : Seen(j)' = IF j = i THEN Added(Seen(j), NewClassCounters) ELSE Seen(j)
    BY <1>2, <1>3
  <1>5. \A j \in Classes : classCounters'[j] = IF j = i THEN Added(classCounters[j], e) ELSE classCounters[j]
    BY MovesCounters DEF StockInv
  <1> QED
    BY <1>1, <1>4, <1>5, NewIs, StepKeeps

-----------------------------------------------------------------------------
(* The actions *)

LEMMA OneZero == One(0) \in Amounts /\ One(0).count = 1 /\ One(0).bytes = 0
  BY OneIs

LEMMA PlusCommutes == ASSUME NEW a \in Amounts, NEW b \in Amounts PROVE Plus(a, b) = Plus(b, a)
  <1>1. Plus(a, b).count = Plus(b, a).count /\ Plus(a, b).bytes = Plus(b, a).bytes
    BY PlusIs DEF Amounts
  <1> QED
    BY <1>1, PlusIs, SameAmount

LEMMA NothingPlus == ASSUME NEW a \in Amounts PROVE Plus(Nothing, a) = a
  BY PlusNothing, PlusCommutes, NothingIs

LEMMA TrackedAre == Tracked \subseteq Kinds /\ "get" \notin Tracked /\ "miss" \notin Tracked /\ "put" \notin Tracked
                      /\ "drop" \notin Tracked /\ "clearOperation" \notin Tracked
  BY KindsAre DEF Tracked

LEMMA HitBalances ==
    ASSUME NEW a \in Amounts, NEW b \in Amounts
    PROVE  /\ Balances(OfBoth("get", a, "hit", b), NewClassCounters, NewClassCounters, OfOne("hit", b))
           /\ Balances(NewClassCounters, OfBoth("get", a, "hit", b), OfOne("hit", b), NewClassCounters)
  <1>1. PICK d, w, z : d = OfBoth("get", a, "hit", b) /\ w = OfOne("hit", b) /\ z = NewClassCounters
    OBVIOUS
  <1>2. \A k \in Tracked : d[k] = w[k] /\ w[k] \in Amounts /\ z[k] = Nothing
    BY <1>1, TrackedAre, NewIs, NothingIs DEF OfBoth, OfOne
  <1>3. \A k \in {"miss", "allocation", "clearOperation"} : d[k].count = 0 /\ w[k].count = 0 /\ z[k].count = 0
    BY <1>1, KindsAre, NewIs, NothingIs DEF OfBoth, OfOne
  <1>4. NumShards \in Nat
    BY TelemetryAssumption
  <1> QED
    BY <1>1, <1>2, <1>3, <1>4, PlusNothing, NothingPlus DEF Balances

LEMMA MissBalances ==
    ASSUME NEW a \in Amounts
    PROVE  /\ Balances(OfBoth("get", a, "miss", One(0)), NewClassCounters, NewClassCounters, NewClassCounters)
           /\ Balances(NewClassCounters, OfBoth("get", a, "miss", One(0)), NewClassCounters, OfOne("miss", One(0)))
  <1>1. PICK d, w, z : d = OfBoth("get", a, "miss", One(0)) /\ w = OfOne("miss", One(0)) /\ z = NewClassCounters
    OBVIOUS
  <1>2. \A k \in Tracked : d[k] = Nothing /\ w[k] = Nothing /\ z[k] = Nothing
    BY <1>1, TrackedAre, NewIs DEF OfBoth, OfOne
  <1>3. /\ \A k \in {"allocation", "clearOperation"} : d[k].count = 0 /\ w[k].count = 0 /\ z[k].count = 0
        /\ d["miss"].count = 1 /\ w["miss"].count = 1 /\ z["miss"].count = 0
    BY <1>1, KindsAre, NewIs, NothingIs, OneZero DEF OfBoth, OfOne
  <1>4. NumShards \in Nat
    BY TelemetryAssumption
  <1> QED
    BY <1>1, <1>2, <1>3, <1>4 DEF Balances

LEMMA AllocationBalances ==
    ASSUME NEW a \in Amounts
    PROVE  /\ Balances(OfOne("allocation", a), NewClassCounters, OfOne("miss", One(0)),
                       OfBoth("miss", One(0), "allocation", a))
           /\ a.count = 1 => Balances(NewClassCounters, OfOne("allocation", a),
                                      OfBoth("miss", One(0), "allocation", a), NewClassCounters)
  <1>1. PICK d, w, x, z : /\ d = OfOne("allocation", a) /\ w = OfOne("miss", One(0))
                          /\ x = OfBoth("miss", One(0), "allocation", a) /\ z = NewClassCounters
    OBVIOUS
  <1>2. \A k \in Tracked : d[k] = x[k] /\ w[k] = Nothing /\ z[k] = Nothing /\ d[k] \in Amounts
    BY <1>1, TrackedAre, NewIs, NothingIs DEF OfBoth, OfOne
  <1>3. /\ d["miss"].count = 0 /\ w["miss"].count = 1 /\ x["miss"].count = 1 /\ z["miss"].count = 0
        /\ d["allocation"].count = a.count /\ z["allocation"].count = 0
        /\ \A f \in {d, w, x, z} : f["clearOperation"].count = 0
    BY <1>1, KindsAre, NewIs, NothingIs, OneZero DEF OfBoth, OfOne
  <1>4. NumShards \in Nat
    BY TelemetryAssumption
  <1> QED
    BY <1>1, <1>2, <1>3, <1>4, PlusNothing, NothingPlus DEF Balances

LEMMA PutBalances ==
    ASSUME NEW a \in Amounts
    PROVE  /\ Balances(OfBoth("put", a, "drop", a), NewClassCounters, NewClassCounters, NewClassCounters)
           /\ Balances(NewClassCounters, OfBoth("put", a, "drop", a), NewClassCounters, NewClassCounters)
           /\ Balances(OfBoth("put", a, "retain", a), NewClassCounters, NewClassCounters, OfOne("retain", a))
           /\ Balances(NewClassCounters, OfBoth("put", a, "retain", a), OfOne("retain", a), NewClassCounters)
  <1>1. PICK d, e, w, z : /\ d = OfBoth("put", a, "drop", a) /\ e = OfBoth("put", a, "retain", a)
                          /\ w = OfOne("retain", a) /\ z = NewClassCounters
    OBVIOUS
  <1>2. \A k \in Tracked : d[k] = Nothing /\ e[k] = w[k] /\ w[k] \in Amounts /\ z[k] = Nothing
    BY <1>1, TrackedAre, NewIs, NothingIs DEF OfBoth, OfOne
  <1>3. \A k \in {"miss", "allocation", "clearOperation"} :
           d[k].count = 0 /\ e[k].count = 0 /\ w[k].count = 0 /\ z[k].count = 0
    BY <1>1, KindsAre, NewIs, NothingIs DEF OfBoth, OfOne
  <1>4. NumShards \in Nat
    BY TelemetryAssumption
  <1> QED
    BY <1>1, <1>2, <1>3, <1>4, PlusNothing, NothingPlus DEF Balances

LEMMA TrimBalances ==
    ASSUME NEW r \in Amounts
    PROVE  LET d == OfBoth("trimOperation", One(0), "trim", r) IN
           /\ Balances(d, NewClassCounters, NewClassCounters, d)
           /\ Balances(NewClassCounters, d, d, NewClassCounters)
  <1>1. PICK d, z : d = OfBoth("trimOperation", One(0), "trim", r) /\ z = NewClassCounters
    OBVIOUS
  <1>2. \A k \in Tracked : d[k] \in Amounts /\ z[k] = Nothing
    BY <1>1, TrackedAre, NewIs, NothingIs, OneZero DEF OfBoth
  <1>3. \A k \in {"miss", "allocation", "clearOperation"} : d[k].count = 0 /\ z[k].count = 0
    BY <1>1, KindsAre, NewIs, NothingIs DEF OfBoth
  <1>4. NumShards \in Nat
    BY TelemetryAssumption
  <1> QED
    BY <1>1, <1>2, <1>3, <1>4, PlusNothing, NothingPlus DEF Balances

LEMMA ClearBalances ==
    ASSUME NEW r \in Amounts, NEW q \in Amounts, NEW n \in Nat
    PROVE  /\ Balances(OfBoth("clearOperation", One(0), "clear", r), NewClassCounters,
                       OfBoth("clearOperation", Amount(n, 0), "clear", q),
                       OfBoth("clearOperation", Amount(n + 1, 0), "clear", Plus(q, r)))
           /\ Balances(NewClassCounters, OfBoth("clearOperation", One(0), "clear", r),
                       OfBoth("clearOperation", Amount(NumShards, 0), "clear", r), NewClassCounters)
  <1>1. PICK d, z, w, x, y : /\ d = OfBoth("clearOperation", One(0), "clear", r) /\ z = NewClassCounters
                             /\ w = OfBoth("clearOperation", Amount(n, 0), "clear", q)
                             /\ x = OfBoth("clearOperation", Amount(n + 1, 0), "clear", Plus(q, r))
                             /\ y = OfBoth("clearOperation", Amount(NumShards, 0), "clear", r)
    OBVIOUS
  <1>2. NumShards \in Nat
    BY TelemetryAssumption
  <1>3. \A k \in Tracked \ {"clear"} : d[k] = Nothing /\ z[k] = Nothing /\ w[k] = Nothing /\ x[k] = Nothing /\ y[k] = Nothing
    BY <1>1, TrackedAre, NewIs DEF OfBoth
  <1>4. d["clear"] = r /\ z["clear"] = Nothing /\ w["clear"] = q /\ x["clear"] = Plus(q, r) /\ y["clear"] = r
    BY <1>1, KindsAre, NewIs DEF OfBoth
  <1>5. \A k \in {"miss", "allocation"}, f \in {d, z, w, x, y} : f[k].count = 0
    BY <1>1, KindsAre, NewIs, NothingIs DEF OfBoth
  <1>6. /\ d["clearOperation"].count = 1 /\ z["clearOperation"].count = 0 /\ w["clearOperation"].count = n
        /\ x["clearOperation"].count = n + 1 /\ y["clearOperation"].count = NumShards
    BY <1>1, <1>2, KindsAre, NewIs, NothingIs, OneZero, CountIs DEF OfBoth
  <1>7. Balances(d, z, w, x)
    <2>1. ASSUME NEW k \in Tracked PROVE Plus(d[k], w[k]) = Plus(z[k], x[k])
      <3>1. CASE k = "clear"
        BY <1>4, <3>1, PlusCommutes, NothingPlus, PlusIs
      <3>2. CASE k # "clear"
        BY <1>3, <3>2
      <3> QED
        BY <3>1, <3>2
    <2> QED
      BY <1>2, <1>5, <1>6, <2>1 DEF Balances
  <1>8. Balances(z, d, y, z)
    <2>1. ASSUME NEW k \in Tracked PROVE Plus(z[k], y[k]) = Plus(d[k], z[k])
      <3>1. CASE k = "clear"
        BY <1>4, <3>1, PlusCommutes, NothingIs
      <3>2. CASE k # "clear"
        BY <1>3, <3>2
      <3> QED
        BY <3>1, <3>2
    <2> QED
      BY <1>2, <1>5, <1>6, <2>1 DEF Balances
  <1> QED
    BY <1>1, <1>7, <1>8

(* What each kind of call owes *)
LEMMA OwedValues ==
    /\ Owed(Idle) = NewClassCounters /\ ~HasClass(Idle)
    /\ \A c \in ProbeCalls : HasClass(c) /\ Owed(c) = NewClassCounters
    /\ \A c \in HitCalls : HasClass(c) /\ Owed(c) = OfOne("hit", One(c.capacity))
    /\ \A c \in OfferCalls : ~HasClass(c) /\ Owed(c) = NewClassCounters
    /\ \A c \in PutCalls :
          HasClass(c) /\ Owed(c) = IF c.result = "retain" THEN OfOne("retain", One(c.capacity)) ELSE NewClassCounters
    /\ \A c \in MissCalls :
          /\ HasClass(c)
          /\ c.pc = "classGet" => Owed(c) = NewClassCounters
          /\ c.pc = "allocate" => Owed(c) = OfOne("miss", One(0))
          /\ c.pc = "classAllocation" => Owed(c) = OfBoth("miss", One(0), "allocation", One(ClassSizes[c.class]))
    /\ \A c \in TrimCalls :
          /\ HasClass(c)
          /\ c.pc = "classTrim" => Owed(c) = OfBoth("trimOperation", One(0), "trim", c.removed)
          /\ c.pc = "classClear" => Owed(c) = OfBoth("clearOperation", Amount(NumShards, 0), "clear", c.removed)
    /\ \A c \in ClearCalls :
          HasClass(c) /\ Owed(c) = OfBoth("clearOperation", Amount(c.shard, 0), "clear", c.removed)
  <1>1. Owed(Idle) = NewClassCounters /\ ~HasClass(Idle)
    BY DEF Idle, Owed, HasClass
  <1>2. ASSUME NEW c \in ProbeCalls PROVE HasClass(c) /\ Owed(c) = NewClassCounters
    <2>1. c.pc = "probe"
      BY DEF ProbeCalls
    <2> QED
      BY <2>1 DEF Owed, HasClass
  <1>3. ASSUME NEW c \in HitCalls PROVE HasClass(c) /\ Owed(c) = OfOne("hit", One(c.capacity))
    <2>1. c.pc = "classGet" /\ c.hit
      BY DEF HitCalls
    <2> QED
      BY <2>1 DEF Owed, HasClass
  <1>4. ASSUME NEW c \in OfferCalls PROVE ~HasClass(c) /\ Owed(c) = NewClassCounters
    <2>1. c.pc = "offered"
      BY DEF OfferCalls
    <2> QED
      BY <2>1 DEF Owed, HasClass
  <1>5. ASSUME NEW c \in PutCalls
        PROVE  HasClass(c) /\ Owed(c) = IF c.result = "retain" THEN OfOne("retain", One(c.capacity)) ELSE NewClassCounters
    <2>1. c.pc = "classPut"
      BY DEF PutCalls
    <2> QED
      BY <2>1 DEF Owed, HasClass
  <1>6. ASSUME NEW c \in MissCalls
        PROVE  /\ HasClass(c)
               /\ c.pc = "classGet" => Owed(c) = NewClassCounters
               /\ c.pc = "allocate" => Owed(c) = OfOne("miss", One(0))
               /\ c.pc = "classAllocation" => Owed(c) = OfBoth("miss", One(0), "allocation", One(ClassSizes[c.class]))
    <2>1. c.pc \in {"classGet", "allocate", "classAllocation"} /\ ~c.hit
      BY DEF MissCalls
    <2> QED
      BY <2>1 DEF Owed, HasClass
  <1>7. ASSUME NEW c \in TrimCalls
        PROVE  /\ HasClass(c)
               /\ c.pc = "classTrim" => Owed(c) = OfBoth("trimOperation", One(0), "trim", c.removed)
               /\ c.pc = "classClear" => Owed(c) = OfBoth("clearOperation", Amount(NumShards, 0), "clear", c.removed)
    <2>1. c.pc \in {"classTrim", "classClear"}
      BY DEF TrimCalls
    <2> QED
      BY <2>1 DEF Owed, HasClass
  <1>8. ASSUME NEW c \in ClearCalls
        PROVE  HasClass(c) /\ Owed(c) = OfBoth("clearOperation", Amount(c.shard, 0), "clear", c.removed)
    <2>1. c.pc = "clear"
      BY DEF ClearCalls
    <2> QED
      BY <2>1 DEF Owed, HasClass
  <1> QED
    BY <1>1, <1>2, <1>3, <1>4, <1>5, <1>6, <1>7, <1>8

LEMMA Own ==
    /\ \A i : OwnClass(Idle, i)
    /\ \A c \in OfferCalls : \A i : OwnClass(c, i)
    /\ \A c : OwnClass(c, c.class)
  BY OwedValues DEF OwnClass

LEMMA FreeCallKeeps ==
    ASSUME StockInv, LedgerInv, NEW t \in Threads, NEW x, Goes(t, x), UNCHANGED <<shard, classCounters>>,
           Owed(call[t]) = NewClassCounters, Owed(x) = NewClassCounters
    PROVE  LedgerInv'
  <1>1. call[t] \in Calls /\ x \in Calls
    BY DEF StockInv, CallsOK, Goes
  <1>2. \A i \in Classes : Debt(call[t], i) = Debt(x, i)
    BY <1>1, DebtIs
  <1> QED
    BY <1>2, CallKeeps

LEMMA StartGetKeeps ==
    ASSUME StockInv, LedgerInv, NEW t \in Threads, NEW i \in Classes, StartGet(t, i) PROVE LedgerInv'
  <1>1. PICK s \in Shards : Goes(t, NewProbe(i, s)) /\ call[t] = Idle /\ UNCHANGED <<shard, classCounters>>
    BY StartGetDoes
  <1>2. Owed(NewProbe(i, s)) = NewClassCounters
    BY DEF Owed, NewProbe
  <1> QED
    BY <1>1, <1>2, OwedValues, FreeCallKeeps

LEMMA StartClearKeeps ==
    ASSUME StockInv, LedgerInv, NEW t \in Threads, NEW i \in Classes, StartClear(t, i) PROVE LedgerInv'
  <1>1. Goes(t, NewClear(i)) /\ call[t] = Idle /\ UNCHANGED <<shard, classCounters>>
    BY StartClearDoes
  <1>2. Owed(NewClear(i)) = NewClassCounters
    <2>1. Owed(NewClear(i)) = OfBoth("clearOperation", Nothing, "clear", Nothing)
      BY DEF Owed, NewClear, Nothing
    <2> QED
      BY <2>1 DEF OfBoth, NewClassCounters
  <1> QED
    BY <1>1, <1>2, OwedValues, FreeCallKeeps

LEMMA StartPutKeeps ==
    ASSUME StockInv, LedgerInv, NEW t \in Threads, NEW n \in Nat, StartPut(t, n) PROVE LedgerInv'
  <1>1. Goes(t, OfferedCall(n)) /\ call[t] = Idle /\ UNCHANGED <<shard, classCounters>>
    BY StartPutDoes DEF StockInv
  <1>2. Owed(OfferedCall(n)) = NewClassCounters
    BY DEF Owed, OfferedCall
  <1> QED
    BY <1>1, <1>2, OwedValues, FreeCallKeeps

LEMMA RefuseKeeps ==
    ASSUME StockInv, LedgerInv, NEW t \in Threads, NEW reason \in Reasons, Refuse(t, reason) PROVE LedgerInv'
  <1>1. Goes(t, Idle) /\ call[t] \in OfferCalls /\ UNCHANGED <<shard, classCounters>>
    BY RefuseDoes DEF StockInv
  <1> QED
    BY <1>1, OwedValues, FreeCallKeeps

LEMMA TrimKeeps ==
    ASSUME StockInv, LedgerInv, NEW t \in Threads, NEW i \in Classes, NEW s \in Shards,
           NEW n \in Nat, NEW m \in Nat, Trim(t, i, s, n, m)
    PROVE  LedgerInv'
  <1>1. PICK r \in Amounts : /\ ShardMoves(i, s, OfBoth("trimOperation", One(0), "trim", r))
                             /\ Goes(t, [pc |-> "classTrim", class |-> i, removed |-> r])
    BY TrimDoes DEF StockInv
  <1>2. call[t] = Idle /\ UNCHANGED classCounters
    BY DEF Trim, Begin, counted
  <1>3. PICK x : x = [pc |-> "classTrim", class |-> i, removed |-> r]
    OBVIOUS
  <1>4. Owed(x) = OfBoth("trimOperation", One(0), "trim", r) /\ OwnClass(x, i)
    BY <1>3 DEF Owed, OwnClass
  <1>5. Balances(OfBoth("trimOperation", One(0), "trim", r), NewClassCounters, Owed(call[t]), Owed(x))
    BY <1>2, <1>4, OwedValues, TrimBalances
  <1> QED
    BY <1>1, <1>2, <1>3, <1>4, <1>5, Own, ShardKeeps

LEMMA ProbeKeeps ==
    ASSUME StockInv, LedgerInv, NEW t \in Threads, Probe(t) PROVE LedgerInv'
  <1>1. PICK c : c = call[t]
    OBVIOUS
  <1>2. c \in ProbeCalls /\ (ProbeHits(t, c) \/ ProbeMisses(t, c))
    BY <1>1, ProbeDoes DEF StockInv
  <1>3. UNCHANGED classCounters
    BY DEF Probe, counted
  <1>4. c.class \in Classes /\ One(Requested(c)) \in Amounts
    BY <1>2, Sizes, OneIs DEF ProbeCalls, Requested
  <1>5. Owed(c) = NewClassCounters /\ OwnClass(c, c.class)
    BY <1>2, OwedValues, Own
  <1>6. CASE ProbeHits(t, c)
    <2>1. PICK s \in Shards, b \in Nat : /\ ShardMoves(c.class, s, OfBoth("get", One(Requested(c)), "hit", One(b)))
                                         /\ Goes(t, Hit(c, b))
      BY <1>6 DEF ProbeHits
    <2>2. PICK x : x = Hit(c, b)
      OBVIOUS
    <2>3. Owed(x) = OfOne("hit", One(b)) /\ OwnClass(x, c.class)
      BY <2>2 DEF Hit, Owed, OwnClass
    <2>4. Balances(OfBoth("get", One(Requested(c)), "hit", One(b)), NewClassCounters, Owed(c), Owed(x))
      BY <1>4, <1>5, <2>3, OneIs, HitBalances
    <2> QED
      BY <1>1, <1>3, <1>5, <2>1, <2>2, <2>3, <2>4, ShardKeeps
  <1>7. CASE ProbeMisses(t, c)
    <2>1. PICK s \in Shards, x \in ProbeCalls \cup {Missed(c)} :
            /\ x.class = c.class /\ Goes(t, x)
            /\ ShardMoves(c.class, s, OfBoth("get", One(Requested(c)), "miss", One(0)))
      BY <1>7 DEF ProbeMisses
    <2>2. Owed(x) = NewClassCounters
      <3>1. Owed(Missed(c)) = NewClassCounters
        BY DEF Missed, Owed
      <3> QED
        BY <3>1, OwedValues
    <2>3. OwnClass(x, c.class)
      BY <2>1 DEF OwnClass
    <2>4. Balances(OfBoth("get", One(Requested(c)), "miss", One(0)), NewClassCounters, Owed(c), Owed(x))
      BY <1>4, <1>5, <2>2, MissBalances
    <2> QED
      BY <1>1, <1>3, <1>5, <2>1, <2>3, <2>4, ShardKeeps
  <1> QED
    BY <1>2, <1>6, <1>7

LEMMA AllocateKeeps ==
    ASSUME StockInv, LedgerInv, NEW t \in Threads, Allocate(t) PROVE LedgerInv'
  <1>1. PICK c, x : c = call[t] /\ x = [call[t] EXCEPT !.pc = "classAllocation"]
    OBVIOUS
  <1>2. /\ c \in MissCalls /\ c.pc = "allocate" /\ Goes(t, x)
        /\ ShardMoves(c.class, c.primary, OfOne("allocation", One(ClassSizes[c.class])))
    BY <1>1, AllocateDoes DEF StockInv
  <1>3. UNCHANGED classCounters
    BY DEF Allocate, counted
  <1>4. One(ClassSizes[c.class]) \in Amounts
    BY <1>2, Sizes, OneIs DEF MissCalls
  <1>5. x \in MissCalls /\ x.pc = "classAllocation" /\ x.class = c.class
    BY <1>1, <1>2 DEF MissCalls
  <1>6. Owed(c) = OfOne("miss", One(0)) /\ Owed(x) = OfBoth("miss", One(0), "allocation", One(ClassSizes[c.class]))
    BY <1>2, <1>5, OwedValues
  <1>7. Balances(OfOne("allocation", One(ClassSizes[c.class])), NewClassCounters, Owed(c), Owed(x))
    BY <1>4, <1>6, AllocationBalances
  <1>8. OwnClass(c, c.class) /\ OwnClass(x, c.class)
    BY <1>5 DEF OwnClass
  <1> QED
    BY <1>1, <1>2, <1>3, <1>7, <1>8, ShardKeeps

LEMMA TryRetainKeeps ==
    ASSUME StockInv, LedgerInv, NEW t \in Threads, NEW i \in Classes, NEW s \in Shards, TryRetain(t, i, s)
    PROVE  LedgerInv'
  <1>1. PICK c : c = call[t]
    OBVIOUS
  <1>2. c \in OfferCalls /\ (Unseen(t, i, c) \/ Refused(t, i, c) \/ Retained(t, i, c))
    BY <1>1, TryRetainDoes DEF StockInv
  <1>3. UNCHANGED classCounters
    BY DEF TryRetain, counted
  <1>4. PICK a : a = One(c.capacity)
    OBVIOUS
  <1>5. a \in Amounts /\ Owed(c) = NewClassCounters /\ OwnClass(c, i)
    BY <1>2, <1>4, OneIs, OwedValues, Own DEF OfferCalls
  <1>6. PICK x, y : x = Recorded(i, "drop", c.capacity) /\ y = Recorded(i, "retain", c.capacity)
    OBVIOUS
  <1>7. OwnClass(x, i) /\ OwnClass(y, i) /\ Owed(x) = NewClassCounters /\ Owed(y) = OfOne("retain", a)
    BY <1>4, <1>6 DEF Recorded, OwnClass, Owed
  <1>8. CASE Unseen(t, i, c)
    BY <1>1, <1>3, <1>5, <1>6, <1>7, <1>8, FreeCallKeeps DEF Unseen
  <1>9. CASE Refused(t, i, c)
    <2>1. PICK r \in Shards : ShardMoves(i, r, OfBoth("put", a, "drop", a)) /\ Goes(t, x)
      BY <1>4, <1>6, <1>9 DEF Refused
    <2>2. Balances(OfBoth("put", a, "drop", a), NewClassCounters, Owed(c), Owed(x))
      BY <1>5, <1>7, PutBalances
    <2> QED
      BY <1>1, <1>3, <1>5, <1>7, <2>1, <2>2, ShardKeeps
  <1>10. CASE Retained(t, i, c)
    <2>1. PICK r \in Shards : ShardMoves(i, r, OfBoth("put", a, "retain", a)) /\ Goes(t, y)
      BY <1>4, <1>6, <1>10 DEF Retained
    <2>2. Balances(OfBoth("put", a, "retain", a), NewClassCounters, Owed(c), Owed(y))
      BY <1>5, <1>7, PutBalances
    <2> QED
      BY <1>1, <1>3, <1>5, <1>7, <2>1, <2>2, ShardKeeps
  <1> QED
    BY <1>2, <1>8, <1>9, <1>10

LEMMA ClearShardKeeps ==
    ASSUME StockInv, LedgerInv, NEW t \in Threads, ClearShard(t) PROVE LedgerInv'
  <1>1. PICK c : c = call[t]
    OBVIOUS
  <1>2. c \in ClearCalls
    BY <1>1, ClearShardDoes DEF StockInv
  <1>3. PICK r \in Amounts : /\ ShardMoves(c.class, c.shard, OfBoth("clearOperation", One(0), "clear", r))
                             /\ Goes(t, Cleared(c, Plus(c.removed, r)))
    BY <1>1, ClearShardDoes DEF StockInv
  <1>4. UNCHANGED classCounters
    BY DEF ClearShard, counted
  <1>5. PICK x, q, n : x = Cleared(c, Plus(c.removed, r)) /\ q = c.removed /\ n = c.shard
    OBVIOUS
  <1>6. q \in Amounts /\ n \in Shards /\ n \in Nat /\ n < NumShards /\ NumShards \in Nat
    BY <1>2, <1>5, TelemetryAssumption DEF ClearCalls, Shards
  <1>7. Owed(x) = OfBoth("clearOperation", Amount(n + 1, 0), "clear", Plus(q, r)) /\ OwnClass(x, c.class)
    <2>1. CASE n < NumShards - 1
      <3>1. x = [c EXCEPT !.shard = @ + 1, !.removed = Plus(q, r)]
        BY <1>5, <2>1 DEF Cleared
      <3>2. x.pc = "clear" /\ x.shard = n + 1 /\ x.removed = Plus(q, r) /\ x.class = c.class
        BY <1>2, <1>5, <3>1 DEF ClearCalls
      <3> QED
        BY <3>2 DEF Owed, OwnClass
    <2>2. CASE ~(n < NumShards - 1)
      <3>1. n + 1 = NumShards
        BY <1>6, <2>2
      <3>2. x = [pc |-> "classClear", class |-> c.class, removed |-> Plus(q, r)]
        BY <1>5, <2>2 DEF Cleared
      <3> QED
        BY <3>1, <3>2 DEF Owed, OwnClass
    <2> QED
      BY <2>1, <2>2
  <1>8. Owed(c) = OfBoth("clearOperation", Amount(n, 0), "clear", q) /\ OwnClass(c, c.class)
    BY <1>2, <1>5, OwedValues, Own
  <1>9. Balances(OfBoth("clearOperation", One(0), "clear", r), NewClassCounters, Owed(c), Owed(x))
    BY <1>6, <1>7, <1>8, ClearBalances
  <1> QED
    BY <1>1, <1>3, <1>4, <1>5, <1>7, <1>8, <1>9, ShardKeeps

-----------------------------------------------------------------------------
(* The class counts. *)

LEMMA SettledOf ==
    ASSUME NEW a \in Amounts, NEW b \in Amounts, a.count = 1, b.count = 1
    PROVE  /\ Settled(OfBoth("get", a, "hit", b)) /\ Settled(OfBoth("get", a, "miss", b))
           /\ Settled(OfBoth("put", a, "retain", a)) /\ Settled(OfBoth("put", a, "drop", a))
           /\ Settled(OfOne("allocation", a)) /\ Settled(OfBoth("trimOperation", a, "trim", b))
           /\ Settled(OfBoth("clearOperation", a, "clear", b))
  <1> USE DEF OfOne, OfBoth, Settled
  <1>1. Settled(OfBoth("get", a, "hit", b)) /\ Settled(OfBoth("get", a, "miss", b))
    BY KindsAre, NothingIs
  <1>2. Settled(OfBoth("put", a, "retain", a)) /\ Settled(OfBoth("put", a, "drop", a))
    BY KindsAre, NothingIs DEF Amounts
  <1>3. Settled(OfOne("allocation", a)) /\ Settled(OfBoth("trimOperation", a, "trim", b))
        /\ Settled(OfBoth("clearOperation", a, "clear", b))
    BY KindsAre, NothingIs
  <1> QED
    BY <1>1, <1>2, <1>3

LEMMA SettledRemoval ==
    ASSUME NEW a \in Amounts, NEW r \in Amounts
    PROVE  /\ Settled(OfBoth("trimOperation", a, "trim", r))
           /\ Settled(OfBoth("clearOperation", a, "clear", r))
  BY KindsAre, NothingIs DEF OfBoth, Settled

LEMMA ClassGetKeeps ==
    ASSUME StockInv, LedgerInv, NEW t \in Threads, ClassGet(t) PROVE LedgerInv'
  <1>1. PICK c : c = call[t]
    OBVIOUS
  <1>2. CountsHit(t, c) \/ CountsMiss(t, c)
    BY <1>1, ClassGetDoes DEF StockInv
  <1>3. CASE CountsHit(t, c)
    <2>1. PICK a, b : a = One(Requested(c)) /\ b = One(c.capacity)
      OBVIOUS
    <2>2. c \in HitCalls /\ Goes(t, Idle) /\ ClassMoves(c.class, OfBoth("get", a, "hit", b))
      BY <1>3, <2>1 DEF CountsHit
    <2>3. a \in Amounts /\ b \in Amounts /\ a.count = 1 /\ b.count = 1
      BY <2>1, <2>2, Sizes, OneIs DEF HitCalls, Requested
    <2>4. Owed(c) = OfOne("hit", b) /\ Owed(Idle) = NewClassCounters /\ OwnClass(c, c.class) /\ OwnClass(Idle, c.class)
      BY <2>1, <2>2, OwedValues, Own
    <2>5. Balances(NewClassCounters, OfBoth("get", a, "hit", b), Owed(c), Owed(Idle))
      BY <2>3, <2>4, HitBalances
    <2>6. Settled(OfBoth("get", a, "hit", b))
      BY <2>3, SettledOf
    <2> QED
      BY <1>1, <2>2, <2>4, <2>5, <2>6, ClassKeeps
  <1>4. CASE CountsMiss(t, c)
    <2>1. PICK a, x : a = One(Requested(c)) /\ x = [c EXCEPT !.pc = "allocate"]
      OBVIOUS
    <2>2. c \in MissCalls /\ c.pc = "classGet" /\ Goes(t, x) /\ ClassMoves(c.class, OfBoth("get", a, "miss", One(0)))
      BY <1>4, <2>1 DEF CountsMiss
    <2>3. a \in Amounts /\ a.count = 1
      BY <2>1, <2>2, Sizes, OneIs DEF MissCalls, Requested
    <2>4. x \in MissCalls /\ x.pc = "allocate" /\ x.class = c.class
      BY <2>1, <2>2 DEF MissCalls
    <2>5. Owed(c) = NewClassCounters /\ Owed(x) = OfOne("miss", One(0)) /\ OwnClass(c, c.class) /\ OwnClass(x, c.class)
      BY <2>2, <2>4, OwedValues DEF OwnClass
    <2>6. Balances(NewClassCounters, OfBoth("get", a, "miss", One(0)), Owed(c), Owed(x))
      BY <2>3, <2>5, MissBalances
    <2>7. Settled(OfBoth("get", a, "miss", One(0)))
      BY <2>3, OneZero, SettledOf
    <2> QED
      BY <1>1, <2>2, <2>5, <2>6, <2>7, ClassKeeps
  <1> QED
    BY <1>2, <1>3, <1>4

LEMMA ClassAllocationKeeps ==
    ASSUME StockInv, LedgerInv, NEW t \in Threads, ClassAllocation(t) PROVE LedgerInv'
  <1>1. PICK c, a : c = call[t] /\ a = One(ClassSizes[c.class])
    OBVIOUS
  <1>2. /\ c \in MissCalls /\ c.pc = "classAllocation" /\ Goes(t, Idle)
        /\ ClassMoves(c.class, OfOne("allocation", a))
    BY <1>1, ClassAllocationDoes DEF StockInv
  <1>3. a \in Amounts /\ a.count = 1
    BY <1>1, <1>2, Sizes, OneIs DEF MissCalls
  <1>4. /\ Owed(c) = OfBoth("miss", One(0), "allocation", a) /\ Owed(Idle) = NewClassCounters
        /\ OwnClass(c, c.class) /\ OwnClass(Idle, c.class)
    BY <1>1, <1>2, OwedValues, Own
  <1>5. Balances(NewClassCounters, OfOne("allocation", a), Owed(c), Owed(Idle))
    BY <1>3, <1>4, AllocationBalances
  <1>6. Settled(OfOne("allocation", a))
    BY <1>3, SettledOf
  <1> QED
    BY <1>1, <1>2, <1>4, <1>5, <1>6, ClassKeeps

LEMMA ClassPutKeeps ==
    ASSUME StockInv, LedgerInv, NEW t \in Threads, ClassPut(t) PROVE LedgerInv'
  <1>1. PICK c, a : c = call[t] /\ a = One(c.capacity)
    OBVIOUS
  <1>2. c \in PutCalls /\ Goes(t, Idle) /\ ClassMoves(c.class, OfBoth("put", a, c.result, a))
    BY <1>1, ClassPutDoes DEF StockInv
  <1>3. a \in Amounts /\ a.count = 1 /\ c.result \in {"retain", "drop"}
    BY <1>1, <1>2, OneIs DEF PutCalls
  <1>4. /\ Owed(c) = IF c.result = "retain" THEN OfOne("retain", a) ELSE NewClassCounters
        /\ Owed(Idle) = NewClassCounters /\ OwnClass(c, c.class) /\ OwnClass(Idle, c.class)
    BY <1>1, <1>2, OwedValues, Own
  <1>5. Balances(NewClassCounters, OfBoth("put", a, c.result, a), Owed(c), Owed(Idle))
    <2>1. CASE c.result = "retain"
      BY <1>3, <1>4, <2>1, PutBalances
    <2>2. CASE c.result = "drop"
      BY <1>3, <1>4, <2>2, PutBalances
    <2> QED
      BY <1>3, <2>1, <2>2
  <1>6. Settled(OfBoth("put", a, c.result, a))
    BY <1>3, SettledOf
  <1> QED
    BY <1>1, <1>2, <1>4, <1>5, <1>6, ClassKeeps

LEMMA ClassTrimKeeps ==
    ASSUME StockInv, LedgerInv, NEW t \in Threads, ClassTrim(t) PROVE LedgerInv'
  <1>1. PICK c, d : c = call[t] /\ d = OfBoth("trimOperation", One(0), "trim", c.removed)
    OBVIOUS
  <1>2. c \in TrimCalls /\ c.pc = "classTrim" /\ Goes(t, Idle) /\ ClassMoves(c.class, d) /\ c.removed \in Amounts
    BY <1>1, ClassTrimDoes DEF StockInv, TrimCalls
  <1>3. Owed(c) = d /\ Owed(Idle) = NewClassCounters /\ OwnClass(c, c.class) /\ OwnClass(Idle, c.class)
    BY <1>1, <1>2, OwedValues, Own
  <1>4. Balances(NewClassCounters, d, Owed(c), Owed(Idle)) /\ Settled(d)
    BY <1>1, <1>2, <1>3, TrimBalances, SettledRemoval, OneZero
  <1> QED
    BY <1>1, <1>2, <1>3, <1>4, ClassKeeps

LEMMA ClassClearKeeps ==
    ASSUME StockInv, LedgerInv, NEW t \in Threads, ClassClear(t) PROVE LedgerInv'
  <1>1. PICK c, d : c = call[t] /\ d = OfBoth("clearOperation", One(0), "clear", c.removed)
    OBVIOUS
  <1>2. c \in TrimCalls /\ c.pc = "classClear" /\ Goes(t, Idle) /\ ClassMoves(c.class, d) /\ c.removed \in Amounts
    BY <1>1, ClassClearDoes DEF StockInv, TrimCalls
  <1>3. /\ Owed(c) = OfBoth("clearOperation", Amount(NumShards, 0), "clear", c.removed)
        /\ Owed(Idle) = NewClassCounters /\ OwnClass(c, c.class) /\ OwnClass(Idle, c.class)
    BY <1>1, <1>2, OwedValues, Own
  <1>4. Balances(NewClassCounters, d, Owed(c), Owed(Idle)) /\ Settled(d)
    <2>1. 0 \in Nat
      OBVIOUS
    <2>2. Balances(NewClassCounters, d, OfBoth("clearOperation", Amount(NumShards, 0), "clear", c.removed), NewClassCounters)
      BY <1>1, <1>2, <2>1, NothingIs, ClearBalances
    <2> QED
      BY <1>1, <1>2, <1>3, <2>2, SettledRemoval, OneZero
  <1> QED
    BY <1>1, <1>2, <1>3, <1>4, ClassKeeps

LEMMA LedgerInit == ASSUME TelemetryInit PROVE LedgerInv
  <1>1. ASSUME NEW i \in Classes, NEW k \in Kinds PROVE OfShards(i, k) = Nothing
    <2>1. \A s \in Shards : shard[i][s].counters.events[k] = Nothing
      BY NewIs DEF TelemetryInit, NewShardCounters
    <2>2. PICK f : f = [s \in Shards |-> shard[i][s].counters.events[k]]
      OBVIOUS
    <2>3. f = [s \in Shards |-> Nothing]
      BY <2>1, <2>2
    <2> QED
      BY <2>2, <2>3, ShardsFinite, TotalOfNothing DEF OfShards
  <1>2. ASSUME NEW i \in Classes, NEW k \in Kinds PROVE Debts(i)[k] = Nothing
    <2>1. PICK f : f = [t \in Threads |-> Debt(call[t], i)[k]]
      OBVIOUS
    <2>2. f = [t \in Threads |-> Nothing]
      <3>1. \A t \in Threads : call[t] = Idle
        BY DEF TelemetryInit
      <3>2. Debt(Idle, i) = NewClassCounters
        BY OwedValues DEF Debt
      <3> QED
        BY <2>1, <3>1, <3>2, NewIs
    <2>3. IsFiniteSet(Threads)
      BY TelemetryAssumption
    <2> QED
      BY <2>1, <2>2, <2>3, TotalOfNothing DEF Debts
  <1>3. ASSUME NEW i \in Classes PROVE Even(Seen(i), classCounters[i], Debts(i)) /\ Settled(classCounters[i])
    <2>1. classCounters[i] = NewClassCounters
      BY DEF TelemetryInit
    <2>2. \A k \in Kinds : Seen(i)[k] = Nothing
      BY <1>1 DEF Seen
    <2>3. \A k \in Kinds : Debts(i)[k] = Nothing
      BY <1>2
    <2>4. \A k \in Kinds : classCounters[i][k] = Nothing
      BY <2>1, NewIs
    <2>5. Plus(Nothing, Nothing) = Nothing /\ Nothing.count = 0 /\ 0 * NumShards = 0
      BY NothingIs, PlusNothing, TelemetryAssumption
    <2> QED
      BY <2>1, <2>2, <2>3, <2>4, <2>5, KindsAre, TrackedAre, SettledNew DEF Even
  <1> QED
    BY <1>3 DEF LedgerInv

LEMMA StandsStill ==
    ASSUME LedgerInv, UNCHANGED <<shard, classCounters, call>> PROVE LedgerInv'
  <1>1. ASSUME NEW i \in Classes PROVE Seen(i)' = Seen(i) /\ Debts(i)' = Debts(i)
    BY DEF Seen, OfShards, Debts, Debt, Owed, HasClass
  <1>2. ASSUME NEW i \in Classes
        PROVE  Even(Seen(i)', classCounters'[i], Debts(i)') /\ Settled(classCounters'[i])
    BY <1>1 DEF LedgerInv
  <1> QED
    BY <1>2 DEF LedgerInv

LEMMA LedgerNext == ASSUME StockInv, LedgerInv, TelemetryNext PROVE LedgerInv'
  <1>1. ASSUME NEW t \in Threads, Call(t) PROVE LedgerInv'
    <2>1. ASSUME NEW n \in Capacities, StartPut(t, n) PROVE LedgerInv'
      BY <2>1, StartPutKeeps, TelemetryAssumption
    <2>2. ASSUME NEW i \in Classes, NEW s \in Shards, NEW n \in TrimBuffers, NEW m \in ByteLimits, Trim(t, i, s, n, m)
          PROVE  LedgerInv'
      BY <2>2, TrimKeeps, TelemetryAssumption
    <2> QED
      BY <1>1, <2>1, <2>2, StartGetKeeps, StartClearKeeps DEF Call
  <1>2. ASSUME NEW t \in Threads, Advance(t) PROVE LedgerInv'
    BY <1>2, ProbeKeeps, ClassGetKeeps, AllocateKeeps, ClassAllocationKeeps, RefuseKeeps, TryRetainKeeps,
       ClassPutKeeps, ClassTrimKeeps, ClearShardKeeps, ClassClearKeeps DEF Advance
  <1>3. CASE Read
    <2>1. UNCHANGED <<shard, classCounters, call>>
      BY <1>3 DEF Read, StartRead, LoadNext, CommitCycle, CommitOthers, Discard, storage, counted
    <2> QED
      BY <2>1, StandsStill
  <1>4. CASE Quiet
    <2>1. UNCHANGED <<shard, classCounters, call>>
      BY <1>4 DEF Quiet, telemetryVars, storage, counted
    <2> QED
      BY <2>1, StandsStill
  <1> QED
    BY <1>1, <1>2, <1>3, <1>4 DEF TelemetryNext

LEMMA LedgerAlways == TelemetrySpec => []LedgerInv
  <1>1. ASSUME LedgerInv, UNCHANGED telemetryVars PROVE LedgerInv'
    BY <1>1, StandsStill DEF telemetryVars, storage, counted
  <1> QED
    BY <1>1, LedgerInit, LedgerNext, StockAlways, PTL DEF TelemetrySpec

-----------------------------------------------------------------------------
(* A class that no call uses owes nothing. *)

LEMMA CallsOfClass ==
    ASSUME NEW c \in Calls, HasClass(c)
    PROVE  "class" \in DOMAIN c
  <1>1. c # Idle /\ c \notin OfferCalls
    BY DEF HasClass, Idle, OfferCalls
  <1>2. \A x \in ProbeCalls : "class" \in DOMAIN x
    BY DEF ProbeCalls
  <1>3. \A x \in HitCalls : "class" \in DOMAIN x
    BY DEF HitCalls
  <1>4. \A x \in MissCalls : "class" \in DOMAIN x
    BY DEF MissCalls
  <1>5. \A x \in PutCalls : "class" \in DOMAIN x
    BY DEF PutCalls
  <1>6. \A x \in TrimCalls : "class" \in DOMAIN x
    BY DEF TrimCalls
  <1>7. \A x \in ClearCalls : "class" \in DOMAIN x
    BY DEF ClearCalls
  <1> QED
    BY <1>1, <1>2, <1>3, <1>4, <1>5, <1>6, <1>7 DEF Calls

LEMMA NoDebts ==
    ASSUME CallsOK, NEW i \in Classes \ InUse, NEW k \in Kinds
    PROVE  Debts(i)[k] = Nothing
  <1>1. ASSUME NEW t \in Threads PROVE Debt(call[t], i) = NewClassCounters
    <2>1. CASE HasClass(call[t])
      <3>1. call[t] \in Calls
        BY DEF CallsOK
      <3>2. "class" \in DOMAIN call[t]
        BY <2>1, <3>1, CallsOfClass
      <3>3. call[t].class \in InUse
        BY <3>2 DEF InUse
      <3> QED
        BY <3>3 DEF Debt
    <2>2. CASE ~HasClass(call[t])
      BY <2>2 DEF Debt
    <2> QED
      BY <2>1, <2>2
  <1>2. PICK f : f = [t \in Threads |-> Debt(call[t], i)[k]]
    OBVIOUS
  <1>3. f = [t \in Threads |-> Nothing]
    BY <1>1, <1>2, NewIs
  <1>4. IsFiniteSet(Threads)
    BY TelemetryAssumption
  <1> QED
    BY <1>2, <1>3, <1>4, TotalOfNothing DEF Debts

(* All shards of a class together count a get as a hit or a miss, and a put as retained *)
(* or dropped.                                                                      *)
LEMMA SeenFlow ==
    ASSUME ShardsOK, NEW i \in Classes
    PROVE  Settled(Seen(i))
  <1>1. PICK f : f = [k \in Kinds |-> [s \in Shards |-> shard[i][s].counters.events[k]]]
    OBVIOUS
  <1>2. ASSUME NEW k \in Kinds PROVE f[k] \in [Shards -> Amounts] /\ Seen(i)[k] = Total(f[k])
    BY <1>1, SeenIs DEF Seen, OfShards
  <1>3. {"get", "hit", "miss", "put", "retain", "drop"} \subseteq Kinds
    BY KindsAre
  <1>4. ASSUME NEW s \in Shards
        PROVE  /\ f["get"][s].count = f["hit"][s].count + f["miss"][s].count
               /\ f["put"][s].count = f["retain"][s].count + f["drop"][s].count
               /\ f["put"][s].bytes = f["retain"][s].bytes + f["drop"][s].bytes
    <2>1. PICK e, z : e = shard[i][s].counters.events /\ z = shard[i][s].counters.current
      OBVIOUS
    <2>2. Flow(e, z)
      BY <2>1 DEF ShardsOK, Stocked, Counted
    <2>3. \A k \in Kinds : f[k][s] = e[k]
      BY <1>1, <2>1
    <2>4. /\ e["get"].count = e["hit"].count + e["miss"].count
          /\ e["put"].count = e["retain"].count + e["drop"].count
          /\ e["put"].bytes = e["retain"].bytes + e["drop"].bytes
      BY <2>2 DEF Flow
    <2> QED
      BY <1>3, <2>3, <2>4
  <1>5. PICK g, h, m : g = f["get"] /\ h = f["hit"] /\ m = f["miss"]
    OBVIOUS
  <1>6. PICK p, r, d : p = f["put"] /\ r = f["retain"] /\ d = f["drop"]
    OBVIOUS
  <1>7. /\ g \in [Shards -> Amounts] /\ h \in [Shards -> Amounts] /\ m \in [Shards -> Amounts]
        /\ p \in [Shards -> Amounts] /\ r \in [Shards -> Amounts] /\ d \in [Shards -> Amounts]
    BY <1>2, <1>3, <1>5, <1>6
  <1>8. ASSUME NEW s \in Shards
        PROVE  /\ g[s].count = h[s].count + m[s].count
               /\ p[s].count = r[s].count + d[s].count /\ p[s].bytes = r[s].bytes + d[s].bytes
    BY <1>4, <1>5, <1>6
  <1>9. Total(g).count = Total(h).count + Total(m).count
    BY <1>7, <1>8, ShardsFinite, TotalOfSums
  <1>10. Total(p).count = Total(r).count + Total(d).count
    BY <1>7, <1>8, ShardsFinite, TotalOfSums
  <1>11. Total(p).bytes = Total(r).bytes + Total(d).bytes
    BY <1>7, <1>8, ShardsFinite, TotalOfBytes
  <1> QED
    BY <1>2, <1>3, <1>5, <1>6, <1>9, <1>10, <1>11 DEF Settled

LEMMA EvenFollows ==
    ASSUME StockInv, LedgerInv, NEW i \in Classes \ InUse
    PROVE  LET c == classCounters[i] IN
           /\ \A k \in {"hit", "retain", "allocation", "trimOperation", "trim", "clear"} : c[k] = OfShards(i, k)
           /\ c["get"].count = c["hit"].count + c["miss"].count
           /\ OfShards(i, "get").count - c["get"].count = OfShards(i, "miss").count - c["miss"].count
           /\ c["miss"].count = c["allocation"].count
           /\ Minus(c["put"], OfShards(i, "put")) = Minus(c["drop"], OfShards(i, "drop"))
           /\ c["clearOperation"].count * NumShards = OfShards(i, "clearOperation").count
  <1>1. PICK D, c, W : D = Seen(i) /\ c = classCounters[i] /\ W = Debts(i)
    OBVIOUS
  <1>2. D \in EventSet /\ c \in EventSet
    BY <1>1, SeenIs DEF StockInv, CountersOK
  <1>3. Even(D, c, W) /\ Settled(c) /\ Settled(D)
    BY <1>1, SeenFlow DEF LedgerInv, StockInv
  <1>4. \A k \in Kinds : W[k] = Nothing
    BY <1>1, NoDebts DEF StockInv
  <1>5. \A k \in Kinds : D[k] = OfShards(i, k) /\ D[k] \in Amounts /\ c[k] \in Amounts
    BY <1>1, <1>2 DEF Seen, EventSet
  <1>6. ASSUME NEW k \in Tracked PROVE c[k] = D[k]
    <2>1. k \in Kinds
      BY TrackedAre
    <2>2. D[k] = Plus(c[k], W[k])
      BY <1>3 DEF Even
    <2> QED
      BY <1>4, <1>5, <2>1, <2>2, PlusNothing
  <1>7. /\ c["miss"].count = c["allocation"].count
        /\ c["clearOperation"].count * NumShards = D["clearOperation"].count
    <2>1. W["miss"].count = 0 /\ W["clearOperation"].count = 0
      BY <1>4, KindsAre, NothingIs
    <2>2. c["miss"].count = c["allocation"].count + 0
      BY <1>3, <2>1 DEF Even
    <2>3. D["clearOperation"].count = c["clearOperation"].count * NumShards + 0
      BY <1>3, <2>1 DEF Even
    <2>4. c["allocation"].count \in Nat /\ c["clearOperation"].count \in Nat /\ NumShards \in Nat
      BY <1>5, KindsAre, TelemetryAssumption DEF Amounts
    <2>5. c["clearOperation"].count * NumShards \in Nat
      BY <2>4
    <2> QED
      BY <2>2, <2>3, <2>4, <2>5
  <1>8. c["hit"] = D["hit"] /\ c["retain"] = D["retain"]
    BY <1>6 DEF Tracked
  <1>9. /\ c["get"].count = c["hit"].count + c["miss"].count
        /\ D["get"].count - c["get"].count = D["miss"].count - c["miss"].count
    <2>1. /\ c["get"].count = c["hit"].count + c["miss"].count
          /\ D["get"].count = D["hit"].count + D["miss"].count
      BY <1>3 DEF Settled
    <2>2. c["hit"].count \in Nat /\ c["miss"].count \in Nat /\ D["miss"].count \in Nat
      BY <1>5, KindsAre DEF Amounts
    <2> QED
      BY <1>8, <2>1, <2>2
  <1>10. Minus(c["put"], D["put"]) = Minus(c["drop"], D["drop"])
    <2>1. /\ c["put"].count = c["retain"].count + c["drop"].count
          /\ c["put"].bytes = c["retain"].bytes + c["drop"].bytes
          /\ D["put"].count = D["retain"].count + D["drop"].count
          /\ D["put"].bytes = D["retain"].bytes + D["drop"].bytes
      BY <1>3 DEF Settled
    <2>2. /\ c["retain"].count \in Nat /\ c["drop"].count \in Nat /\ D["drop"].count \in Nat
          /\ c["retain"].bytes \in Nat /\ c["drop"].bytes \in Nat /\ D["drop"].bytes \in Nat
      BY <1>5, KindsAre DEF Amounts
    <2>3. /\ c["put"].count - D["put"].count = c["drop"].count - D["drop"].count
          /\ c["put"].bytes - D["put"].bytes = c["drop"].bytes - D["drop"].bytes
      BY <1>8, <2>1, <2>2
    <2> QED
      BY <2>3 DEF Minus
  <1>11. \A k \in {"get", "hit", "miss", "put", "drop", "retain", "allocation", "trimOperation", "trim", "clear",
                   "clearOperation"} : D[k] = OfShards(i, k)
    BY <1>5, KindsAre
  <1>12. \A k \in {"hit", "retain", "allocation", "trimOperation", "trim", "clear"} : c[k] = OfShards(i, k)
    BY <1>6, <1>11 DEF Tracked
  <1> QED
    BY <1>1, <1>7, <1>9, <1>10, <1>11, <1>12

(* However the calls interleave, a class that none of them is in has counted what its shards  *)
(* have: a step between the shard and its class leaves a debt of the call that is in the class, *)
(* and the call pays all of it before it leaves (class_state.go:315-347, 374-401, 463-474).   *)
THEOREM ClassesFollowShards == TelemetrySpec => []ClassFollowsShards
  <1>1. ASSUME StockInv, LedgerInv PROVE ClassFollowsShards
    BY <1>1, EvenFollows DEF ClassFollowsShards
  <1> QED
    BY <1>1, StockAlways, LedgerAlways, PTL

-----------------------------------------------------------------------------
(* Every put that the owner has counted is dropped by the owner, has an outcome that *)
(* its class has counted, or is on its way to one.                                 *)

PendingOf(c) == IF c.pc \in {"offered", "classPut"} THEN Amount(1, 0) ELSE Nothing
Pending == Total([t \in Threads |-> PendingOf(call[t])])
OutcomesOf(e) == Plus(e["retain"], e["drop"])
PutInv ==
    owner.put.count = Outcomes(classCounters).count + owner.drop.count + Pending.count

LEMMA PendingIs ==
    ASSUME NEW c
    PROVE  /\ PendingOf(c) \in Amounts
           /\ c.pc \in {"offered", "classPut"} => PendingOf(c).count = 1
           /\ c.pc \notin {"offered", "classPut"} => PendingOf(c).count = 0
  BY CountIs, NothingIs DEF PendingOf

LEMMA PendingMoves ==
    ASSUME CallsOK, NEW t \in Threads, NEW x, Goes(t, x)
    PROVE  /\ Pending.count \in Nat /\ Pending'.count \in Nat
           /\ Pending'.count + PendingOf(call[t]).count = Pending.count + PendingOf(x).count
  <1>1. call'[t] = x /\ \A u \in Threads : u # t => call'[u] = call[u]
    BY GoesOn
  <1>2. IsFiniteSet(Threads)
    BY TelemetryAssumption
  <1>3. PICK f, g : f = [u \in Threads |-> PendingOf(call[u])] /\ g = [u \in Threads |-> PendingOf(call'[u])]
    OBVIOUS
  <1>4. f \in [Threads -> Amounts] /\ g \in [Threads -> Amounts]
    BY <1>3, PendingIs
  <1>5. Pending = Total(f) /\ Pending' = Total(g)
    BY <1>3 DEF Pending, PendingOf
  <1>6. \A u \in Threads \ {t} : g[u] = f[u]
    BY <1>1, <1>3
  <1>7. Plus(Total(g), f[t]) = Plus(Total(f), g[t])
    BY <1>2, <1>4, <1>6, TotalMoves
  <1>8. Total(f) \in Amounts /\ Total(g) \in Amounts
    BY <1>2, <1>4, TotalIs
  <1>9. Total(g).count + f[t].count = Total(f).count + g[t].count
    <2>1. f[t] \in Amounts /\ g[t] \in Amounts
      BY <1>4
    <2>2. Plus(Total(g), f[t]).count = Total(g).count + f[t].count
      BY <1>8, <2>1, PlusIs
    <2>3. Plus(Total(f), g[t]).count = Total(f).count + g[t].count
      BY <1>8, <2>1, PlusIs
    <2> QED
      BY <1>7, <2>2, <2>3
  <1>10. f[t] = PendingOf(call[t]) /\ g[t] = PendingOf(x)
    BY <1>1, <1>3
  <1> QED
    BY <1>5, <1>8, <1>9, <1>10 DEF Amounts

LEMMA ClassesFinite == IsFiniteSet(Classes) /\ Classes = 1 .. Len(ClassSizes) /\ Len(ClassSizes) \in Nat
  <1>1. Classes = 1 .. Len(ClassSizes) /\ Len(ClassSizes) \in Nat
    BY TelemetryAssumption DEF Classes
  <1> QED
    BY <1>1, FS_Interval

LEMMA OutcomesAre ==
    ASSUME NEW q \in [Classes -> EventSet]
    PROVE  /\ [i \in Classes |-> OutcomesOf(q[i])] \in [Classes -> Amounts]
           /\ Outcomes(q) = Total([i \in Classes |-> OutcomesOf(q[i])])
           /\ Outcomes(q) \in Amounts
  <1>1. \A i \in Classes : OutcomesOf(q[i]) \in Amounts
    <2>1. \A i \in Classes : q[i]["retain"] \in Amounts /\ q[i]["drop"] \in Amounts
      BY KindsAre DEF EventSet
    <2> QED
      BY <2>1, PlusIs DEF OutcomesOf
  <1>2. PICK f : f = [i \in Classes |-> OutcomesOf(q[i])]
    OBVIOUS
  <1>3. f \in [Classes -> Amounts] /\ Outcomes(q) = Total(f)
    BY <1>1, <1>2 DEF Outcomes, OutcomesOf
  <1>4. Total(f) \in Amounts
    BY <1>3, ClassesFinite, TotalIs
  <1> QED
    BY <1>2, <1>3, <1>4

LEMMA OutcomesMove ==
    ASSUME CountersOK, NEW i, NEW d, ClassMoves(i, d)
    PROVE  /\ Outcomes(classCounters).count \in Nat
           /\ Outcomes(classCounters').count
                = Outcomes(classCounters).count + (d["retain"].count + d["drop"].count)
  <1>1. /\ classCounters \in [Classes -> EventSet] /\ classCounters' \in [Classes -> EventSet]
        /\ i \in Classes /\ d \in EventSet
        /\ \A j \in Classes : classCounters'[j] = IF j = i THEN Added(classCounters[j], d) ELSE classCounters[j]
    BY MovesCounters DEF CountersOK, ClassMoves
  <1>2. PICK f, g : /\ f = [j \in Classes |-> OutcomesOf(classCounters[j])]
                    /\ g = [j \in Classes |-> OutcomesOf(classCounters'[j])]
    OBVIOUS
  <1>3. /\ f \in [Classes -> Amounts] /\ Outcomes(classCounters) = Total(f) /\ Total(f) \in Amounts
        /\ g \in [Classes -> Amounts] /\ Outcomes(classCounters') = Total(g) /\ Total(g) \in Amounts
    BY <1>1, <1>2, OutcomesAre
  <1>4. \A j \in Classes \ {i} : g[j] = f[j]
    BY <1>1, <1>2
  <1>5. Plus(Total(g), f[i]) = Plus(Total(f), g[i])
    <2>1. IsFiniteSet(Classes) /\ i \in Classes
      BY <1>1, ClassesFinite
    <2>2. f \in [Classes -> Amounts] /\ g \in [Classes -> Amounts]
      BY <1>3
    <2> QED
      BY <1>4, <2>1, <2>2, TotalMoves
  <1>6. f[i] \in Amounts /\ g[i] \in Amounts
    BY <1>1, <1>3
  <1>7. Total(g).count + f[i].count = Total(f).count + g[i].count
    <2>1. Plus(Total(g), f[i]).count = Total(g).count + f[i].count
      BY <1>3, <1>6, PlusIs
    <2>2. Plus(Total(f), g[i]).count = Total(f).count + g[i].count
      BY <1>3, <1>6, PlusIs
    <2> QED
      BY <1>5, <2>1, <2>2
  <1>8. g[i].count = f[i].count + (d["retain"].count + d["drop"].count)
    <2>1. PICK a, b, u, v : a = classCounters[i]["retain"] /\ b = classCounters[i]["drop"] /\ u = d["retain"] /\ v = d["drop"]
      OBVIOUS
    <2>2. a \in Amounts /\ b \in Amounts /\ u \in Amounts /\ v \in Amounts
      BY <1>1, <2>1, KindsAre DEF EventSet
    <2>3. f[i] = Plus(a, b)
      BY <1>1, <1>2, <2>1 DEF OutcomesOf
    <2>4. g[i] = Plus(Plus(a, u), Plus(b, v))
      BY <1>1, <1>2, <2>1, KindsAre DEF OutcomesOf, Added
    <2>5. f[i].count = a.count + b.count
      BY <2>2, <2>3, PlusIs
    <2>6. g[i].count = (a.count + u.count) + (b.count + v.count)
      BY <2>2, <2>4, PlusIs
    <2> QED
      BY <2>1, <2>2, <2>5, <2>6 DEF Amounts
  <1>9. d["retain"].count \in Nat /\ d["drop"].count \in Nat
    BY <1>1, KindsAre DEF EventSet, Amounts
  <1> QED
    BY <1>3, <1>6, <1>7, <1>8, <1>9 DEF Amounts

LEMMA PutSums ==
    ASSUME NEW put \in Nat, NEW outcomes \in Nat, NEW drop \in Nat, NEW pending \in Nat, NEW then \in Nat,
           NEW a \in Nat, NEW o \in Nat, NEW b \in Nat, NEW p \in Nat, NEW q \in Nat,
           put = outcomes + drop + pending, then + p = pending + q, a + p = o + b + q
    PROVE  put + a = (outcomes + o) + (drop + b) + then
  OBVIOUS

(* The owner counts a puts and b drops, and the classes o outcomes. *)
LEMMA PutKeeps ==
    ASSUME StockInv, PutInv, NEW t \in Threads, NEW x, Goes(t, x), NEW a \in Nat, NEW b \in Nat, NEW o \in Nat,
           owner'.put.count = owner.put.count + a, owner'.drop.count = owner.drop.count + b,
           Outcomes(classCounters').count = Outcomes(classCounters).count + o,
           a + PendingOf(call[t]).count = o + b + PendingOf(x).count
    PROVE  PutInv'
  <1>1. PICK put, outcomes, drop, pending, then, p, q :
          /\ put = owner.put.count /\ outcomes = Outcomes(classCounters).count /\ drop = owner.drop.count
          /\ pending = Pending.count /\ then = Pending'.count
          /\ p = PendingOf(call[t]).count /\ q = PendingOf(x).count
    OBVIOUS
  <1>2. put \in Nat /\ drop \in Nat
    BY <1>1 DEF StockInv, OwnerOK, OwnerSet, Amounts
  <1>3. outcomes \in Nat
    BY <1>1, OutcomesAre DEF StockInv, CountersOK, Amounts
  <1>4. pending \in Nat /\ then \in Nat /\ then + p = pending + q
    BY <1>1, PendingMoves DEF StockInv
  <1>5. p \in Nat /\ q \in Nat
    BY <1>1, PendingIs DEF Amounts
  <1>6. put = outcomes + drop + pending /\ a + p = o + b + q
    BY <1>1 DEF PutInv
  <1>7. put + a = (outcomes + o) + (drop + b) + then
    BY <1>2, <1>3, <1>4, <1>5, <1>6, PutSums
  <1>8. Outcomes(classCounters)' = Outcomes(classCounters')
    BY DEF Outcomes
  <1> QED
    BY <1>1, <1>7, <1>8 DEF PutInv

(* Neither the owner nor the outcomes change, and the call stays pending or stays not. *)
LEMMA ElsewhereKeeps ==
    ASSUME StockInv, PutInv, NEW t \in Threads, NEW x, Goes(t, x), UNCHANGED <<owner, classCounters>>,
           (call[t].pc \in {"offered", "classPut"}) <=> (x.pc \in {"offered", "classPut"})
    PROVE  PutInv'
  <1>1. PendingOf(call[t]).count = PendingOf(x).count /\ PendingOf(x).count \in Nat
    BY PendingIs DEF Amounts
  <1>2. owner.put.count \in Nat /\ owner.drop.count \in Nat /\ Outcomes(classCounters).count \in Nat
    BY OutcomesAre DEF StockInv, CountersOK, OwnerOK, OwnerSet, Amounts
  <1>3. /\ owner'.put.count = owner.put.count + 0 /\ owner'.drop.count = owner.drop.count + 0
        /\ Outcomes(classCounters').count = Outcomes(classCounters).count + 0
    BY <1>2
  <1>4. 0 + PendingOf(call[t]).count = 0 + 0 + PendingOf(x).count
    BY <1>1
  <1>5. 0 \in Nat
    OBVIOUS
  <1> QED
    BY <1>3, <1>4, <1>5, PutKeeps

(* A class counts an event that is no outcome of a put. *)
LEMMA OtherEventKeeps ==
    ASSUME StockInv, PutInv, NEW t \in Threads, NEW x, Goes(t, x), NEW i, NEW d, ClassMoves(i, d),
           d["retain"] = Nothing, d["drop"] = Nothing,
           call[t].pc \notin {"offered", "classPut"}, x.pc \notin {"offered", "classPut"}
    PROVE  PutInv'
  <1>1. PendingOf(call[t]).count = 0 /\ PendingOf(x).count = 0
    BY PendingIs
  <1>2. Outcomes(classCounters').count = Outcomes(classCounters).count + 0
    BY OutcomesMove, NothingIs DEF StockInv
  <1>3. owner' = owner /\ owner.put.count \in Nat /\ owner.drop.count \in Nat
    BY DEF ClassMoves, StockInv, OwnerOK, OwnerSet, Amounts
  <1>4. owner'.put.count = owner.put.count + 0 /\ owner'.drop.count = owner.drop.count + 0
    BY <1>3
  <1>5. 0 \in Nat /\ 0 + PendingOf(call[t]).count = 0 + 0 + PendingOf(x).count
    BY <1>1
  <1> QED
    BY <1>2, <1>4, <1>5, PutKeeps

LEMMA StartPutCounts ==
    ASSUME StockInv, PutInv, NEW t \in Threads, NEW n \in Nat, StartPut(t, n) PROVE PutInv'
  <1>1. /\ call[t] = Idle /\ Goes(t, OfferedCall(n)) /\ owner'.put = Plus(owner.put, One(n))
        /\ owner'.drop = owner.drop /\ UNCHANGED classCounters
    BY StartPutDoes DEF StockInv
  <1>2. /\ owner'.put.count = owner.put.count + 1 /\ owner'.drop.count = owner.drop.count + 0
        /\ Outcomes(classCounters').count = Outcomes(classCounters).count + 0
    <2>1. owner.put \in Amounts /\ owner.drop.count \in Nat /\ Outcomes(classCounters).count \in Nat
      BY OutcomesAre DEF StockInv, CountersOK, OwnerOK, OwnerSet, Amounts
    <2>2. owner'.put.count = owner.put.count + 1
      BY <1>1, <2>1, OneIs, PlusIs
    <2> QED
      BY <1>1, <2>1, <2>2
  <1>3. PendingOf(call[t]).count = 0 /\ PendingOf(OfferedCall(n)).count = 1
    BY <1>1, PendingIs DEF Idle, OfferedCall
  <1>4. 0 \in Nat /\ 1 \in Nat /\ 1 + PendingOf(call[t]).count = 0 + 0 + PendingOf(OfferedCall(n)).count
    BY <1>3
  <1> QED
    BY <1>1, <1>2, <1>4, PutKeeps

LEMMA RefuseCounts ==
    ASSUME StockInv, PutInv, NEW t \in Threads, NEW reason \in Reasons, Refuse(t, reason) PROVE PutInv'
  <1>1. /\ call[t] \in OfferCalls /\ Goes(t, Idle) /\ owner'.put = owner.put
        /\ owner'.drop = Plus(owner.drop, One(call[t].capacity)) /\ UNCHANGED classCounters
    BY RefuseDoes DEF StockInv
  <1>2. /\ owner'.put.count = owner.put.count + 0 /\ owner'.drop.count = owner.drop.count + 1
        /\ Outcomes(classCounters').count = Outcomes(classCounters).count + 0
    <2>1. owner.drop \in Amounts /\ owner.put.count \in Nat /\ Outcomes(classCounters).count \in Nat
      BY OutcomesAre DEF StockInv, CountersOK, OwnerOK, OwnerSet, Amounts
    <2>2. owner'.drop.count = owner.drop.count + 1
      BY <1>1, <2>1, OneIs, PlusIs DEF OfferCalls
    <2> QED
      BY <1>1, <2>1, <2>2
  <1>3. PendingOf(call[t]).count = 1 /\ PendingOf(Idle).count = 0
    BY <1>1, PendingIs DEF Idle, OfferCalls
  <1>4. 0 \in Nat /\ 1 \in Nat /\ 0 + PendingOf(call[t]).count = 0 + 1 + PendingOf(Idle).count
    BY <1>3
  <1> QED
    BY <1>1, <1>2, <1>4, PutKeeps

LEMMA ClassPutCounts ==
    ASSUME StockInv, PutInv, NEW t \in Threads, ClassPut(t) PROVE PutInv'
  <1>1. PICK c, a : c = call[t] /\ a = One(c.capacity)
    OBVIOUS
  <1>2. PICK d : d = OfBoth("put", a, c.result, a)
    OBVIOUS
  <1>3. c \in PutCalls /\ Goes(t, Idle) /\ ClassMoves(c.class, d)
    BY <1>1, <1>2, ClassPutDoes DEF StockInv
  <1>4. a.count = 1 /\ c.result \in {"retain", "drop"} /\ c.pc = "classPut"
    BY <1>1, <1>3, OneIs DEF PutCalls
  <1>5. d["retain"].count + d["drop"].count = 1
    BY <1>2, <1>4, KindsAre, NothingIs DEF OfBoth
  <1>6. Outcomes(classCounters').count = Outcomes(classCounters).count + 1
    BY <1>3, <1>5, OutcomesMove DEF StockInv
  <1>7. owner'.put.count = owner.put.count + 0 /\ owner'.drop.count = owner.drop.count + 0
    <2>1. owner' = owner /\ owner.put.count \in Nat /\ owner.drop.count \in Nat
      BY <1>3 DEF ClassMoves, StockInv, OwnerOK, OwnerSet, Amounts
    <2> QED
      BY <2>1
  <1>8. PendingOf(call[t]).count = 1 /\ PendingOf(Idle).count = 0
    BY <1>1, <1>4, PendingIs DEF Idle
  <1>9. 0 \in Nat /\ 1 \in Nat /\ 0 + PendingOf(call[t]).count = 1 + 0 + PendingOf(Idle).count
    BY <1>8
  <1> QED
    BY <1>3, <1>6, <1>7, <1>9, PutKeeps

LEMMA ClassGetCounts ==
    ASSUME StockInv, PutInv, NEW t \in Threads, ClassGet(t) PROVE PutInv'
  <1>1. PICK c : c = call[t]
    OBVIOUS
  <1>2. CountsHit(t, c) \/ CountsMiss(t, c)
    BY <1>1, ClassGetDoes DEF StockInv
  <1>3. CASE CountsHit(t, c)
    <2>1. PICK d : d = OfBoth("get", One(Requested(c)), "hit", One(c.capacity))
      OBVIOUS
    <2>2. c \in HitCalls /\ Goes(t, Idle) /\ ClassMoves(c.class, d)
      BY <1>3, <2>1 DEF CountsHit
    <2>3. d["retain"] = Nothing /\ d["drop"] = Nothing
      BY <2>1, KindsAre DEF OfBoth
    <2>4. c.pc \notin {"offered", "classPut"} /\ Idle.pc \notin {"offered", "classPut"}
      BY <2>2 DEF HitCalls, Idle
    <2> QED
      BY <1>1, <2>2, <2>3, <2>4, OtherEventKeeps
  <1>4. CASE CountsMiss(t, c)
    <2>1. PICK d, x : d = OfBoth("get", One(Requested(c)), "miss", One(0)) /\ x = [c EXCEPT !.pc = "allocate"]
      OBVIOUS
    <2>2. c \in MissCalls /\ c.pc = "classGet" /\ Goes(t, x) /\ ClassMoves(c.class, d)
      BY <1>4, <2>1 DEF CountsMiss
    <2>3. d["retain"] = Nothing /\ d["drop"] = Nothing
      BY <2>1, KindsAre DEF OfBoth
    <2>4. c.pc \notin {"offered", "classPut"} /\ x.pc \notin {"offered", "classPut"}
      BY <2>1, <2>2 DEF MissCalls
    <2> QED
      BY <1>1, <2>2, <2>3, <2>4, OtherEventKeeps
  <1> QED
    BY <1>2, <1>3, <1>4

LEMMA ClassAllocationCounts ==
    ASSUME StockInv, PutInv, NEW t \in Threads, ClassAllocation(t) PROVE PutInv'
  <1>1. PICK c, d : c = call[t] /\ d = OfOne("allocation", One(ClassSizes[c.class]))
    OBVIOUS
  <1>2. c.pc = "classAllocation" /\ Goes(t, Idle) /\ ClassMoves(c.class, d)
    BY <1>1, ClassAllocationDoes DEF StockInv
  <1>3. d["retain"] = Nothing /\ d["drop"] = Nothing
    BY <1>1, KindsAre DEF OfOne
  <1>4. c.pc \notin {"offered", "classPut"} /\ Idle.pc \notin {"offered", "classPut"}
    BY <1>2 DEF Idle
  <1> QED
    BY <1>1, <1>2, <1>3, <1>4, OtherEventKeeps

LEMMA ClassTrimCounts ==
    ASSUME StockInv, PutInv, NEW t \in Threads, ClassTrim(t) PROVE PutInv'
  <1>1. PICK c, d : c = call[t] /\ d = OfBoth("trimOperation", One(0), "trim", c.removed)
    OBVIOUS
  <1>2. c.pc = "classTrim" /\ Goes(t, Idle) /\ ClassMoves(c.class, d)
    BY <1>1, ClassTrimDoes DEF StockInv
  <1>3. d["retain"] = Nothing /\ d["drop"] = Nothing
    BY <1>1, KindsAre DEF OfBoth
  <1>4. c.pc \notin {"offered", "classPut"} /\ Idle.pc \notin {"offered", "classPut"}
    BY <1>2 DEF Idle
  <1> QED
    BY <1>1, <1>2, <1>3, <1>4, OtherEventKeeps

LEMMA ClassClearCounts ==
    ASSUME StockInv, PutInv, NEW t \in Threads, ClassClear(t) PROVE PutInv'
  <1>1. PICK c, d : c = call[t] /\ d = OfBoth("clearOperation", One(0), "clear", c.removed)
    OBVIOUS
  <1>2. c.pc = "classClear" /\ Goes(t, Idle) /\ ClassMoves(c.class, d)
    BY <1>1, ClassClearDoes DEF StockInv
  <1>3. d["retain"] = Nothing /\ d["drop"] = Nothing
    BY <1>1, KindsAre DEF OfBoth
  <1>4. c.pc \notin {"offered", "classPut"} /\ Idle.pc \notin {"offered", "classPut"}
    BY <1>2 DEF Idle
  <1> QED
    BY <1>1, <1>2, <1>3, <1>4, OtherEventKeeps

(* The steps that count nothing in a class and nothing for the owner *)
LEMMA ShardStepsCount ==
    ASSUME StockInv, PutInv, NEW t \in Threads,
           \/ \E i \in Classes : StartGet(t, i) \/ StartClear(t, i)
           \/ \E i \in Classes, s \in Shards, n \in TrimBuffers, m \in ByteLimits : Trim(t, i, s, n, m)
           \/ Probe(t) \/ Allocate(t) \/ ClearShard(t)
           \/ \E i \in Classes, s \in Shards : TryRetain(t, i, s)
    PROVE  PutInv'
  <1> DEFINE P == {"offered", "classPut"}
  <1>1. ASSUME NEW i \in Classes, StartGet(t, i) PROVE PutInv'
    <2>1. PICK s \in Shards : Goes(t, NewProbe(i, s)) /\ call[t] = Idle /\ UNCHANGED <<owner, classCounters>>
      BY <1>1, StartGetDoes
    <2>2. Idle.pc \notin P /\ NewProbe(i, s).pc \notin P
      BY DEF Idle, NewProbe
    <2> QED
      BY <2>1, <2>2, ElsewhereKeeps
  <1>2. ASSUME NEW i \in Classes, StartClear(t, i) PROVE PutInv'
    <2>1. Goes(t, NewClear(i)) /\ call[t] = Idle /\ UNCHANGED <<owner, classCounters>>
      BY <1>2, StartClearDoes
    <2>2. Idle.pc \notin P /\ NewClear(i).pc \notin P
      BY DEF Idle, NewClear
    <2> QED
      BY <2>1, <2>2, ElsewhereKeeps
  <1>3. ASSUME NEW i \in Classes, NEW s \in Shards, NEW n \in TrimBuffers, NEW m \in ByteLimits, Trim(t, i, s, n, m)
        PROVE  PutInv'
    <2>1. PICK r \in Amounts : Goes(t, [pc |-> "classTrim", class |-> i, removed |-> r])
      BY <1>3, TrimDoes, TelemetryAssumption DEF StockInv
    <2>2. UNCHANGED <<owner, classCounters>> /\ call[t] = Idle
      BY <1>3 DEF Trim, Begin, counted
    <2>3. Idle.pc \notin P /\ [pc |-> "classTrim", class |-> i, removed |-> r].pc \notin P
      BY DEF Idle
    <2> QED
      BY <2>1, <2>2, <2>3, ElsewhereKeeps
  <1>4. CASE Probe(t)
    <2>1. PICK x : Goes(t, x) /\ x.pc \notin P /\ call[t].pc \notin P
      <3>1. call[t] \in ProbeCalls /\ (ProbeHits(t, call[t]) \/ ProbeMisses(t, call[t]))
        BY <1>4, ProbeDoes DEF StockInv
      <3>2. \A c \in ProbeCalls : c.pc \notin P
        BY DEF ProbeCalls
      <3>3. \A b : Hit(call[t], b).pc \notin P
        BY DEF Hit
      <3>4. Missed(call[t]).pc \notin P
        BY DEF Missed
      <3> QED
        BY <3>1, <3>2, <3>3, <3>4 DEF ProbeHits, ProbeMisses
    <2>2. UNCHANGED <<owner, classCounters>>
      BY <1>4 DEF Probe, counted
    <2> QED
      BY <2>1, <2>2, ElsewhereKeeps
  <1>5. CASE Allocate(t)
    <2>1. PICK x : x = [call[t] EXCEPT !.pc = "classAllocation"]
      OBVIOUS
    <2>2. call[t] \in MissCalls /\ Goes(t, x) /\ call[t].pc = "allocate"
      BY <1>5, <2>1, AllocateDoes DEF StockInv
    <2>3. x.pc = "classAllocation"
      BY <2>1, <2>2 DEF MissCalls
    <2>4. UNCHANGED <<owner, classCounters>>
      BY <1>5 DEF Allocate, counted
    <2> QED
      BY <2>2, <2>3, <2>4, ElsewhereKeeps
  <1>6. CASE ClearShard(t)
    <2>1. call[t] \in ClearCalls
      BY <1>6, ClearShardDoes DEF StockInv
    <2>2. PICK r \in Amounts : Goes(t, Cleared(call[t], Plus(call[t].removed, r)))
      BY <1>6, ClearShardDoes DEF StockInv
    <2>3. PICK x : x = Cleared(call[t], Plus(call[t].removed, r))
      OBVIOUS
    <2>4. x.pc \notin P /\ call[t].pc \notin P
      BY <2>1, <2>3 DEF Cleared, ClearCalls
    <2>5. UNCHANGED <<owner, classCounters>>
      BY <1>6 DEF ClearShard, counted
    <2> QED
      BY <2>2, <2>3, <2>4, <2>5, ElsewhereKeeps
  <1>7. ASSUME NEW i \in Classes, NEW s \in Shards, TryRetain(t, i, s) PROVE PutInv'
    <2>1. PICK x : Goes(t, x) /\ x.pc = "classPut" /\ call[t].pc = "offered"
      <3>1. /\ call[t] \in OfferCalls
            /\ Unseen(t, i, call[t]) \/ Refused(t, i, call[t]) \/ Retained(t, i, call[t])
        BY <1>7, TryRetainDoes DEF StockInv
      <3>2. \A c \in OfferCalls : c.pc = "offered"
        BY DEF OfferCalls
      <3>3. \A r, n : Recorded(i, r, n).pc = "classPut"
        BY DEF Recorded
      <3> QED
        BY <3>1, <3>2, <3>3 DEF Unseen, Refused, Retained
    <2>2. UNCHANGED <<owner, classCounters>>
      BY <1>7 DEF TryRetain, counted
    <2> QED
      BY <2>1, <2>2, ElsewhereKeeps
  <1> QED
    BY <1>1, <1>2, <1>3, <1>4, <1>5, <1>6, <1>7

LEMMA PutStands ==
    ASSUME PutInv, UNCHANGED <<owner, classCounters, call>> PROVE PutInv'
  BY DEF PutInv, Outcomes, Pending, PendingOf

LEMMA PutInit == ASSUME TelemetryInit PROVE PutInv
  <1>1. owner = NewOwnerCounters /\ owner.put = Nothing /\ owner.drop = Nothing
    BY DEF TelemetryInit, NewOwnerCounters
  <1>2. Outcomes(classCounters) = Nothing
    <2>1. classCounters = [i \in Classes |-> NewClassCounters]
      BY DEF TelemetryInit
    <2>2. classCounters \in [Classes -> EventSet]
      BY <2>1, NewIs
    <2>3. PICK f : f = [i \in Classes |-> OutcomesOf(classCounters[i])]
      OBVIOUS
    <2>4. OutcomesOf(NewClassCounters) = Nothing
      BY NewIs, KindsAre, NothingIs, PlusNothing DEF OutcomesOf
    <2>5. f = [i \in Classes |-> Nothing]
      BY <2>1, <2>3, <2>4
    <2> QED
      BY <2>2, <2>3, <2>5, ClassesFinite, OutcomesAre, TotalOfNothing
  <1>3. Pending = Nothing
    <2>1. PICK f : f = [t \in Threads |-> PendingOf(call[t])]
      OBVIOUS
    <2>2. PendingOf(Idle) = Nothing
      BY DEF PendingOf, Idle
    <2>3. f = [t \in Threads |-> Nothing]
      BY <2>1, <2>2 DEF TelemetryInit
    <2>4. IsFiniteSet(Threads)
      BY TelemetryAssumption
    <2> QED
      BY <2>1, <2>3, <2>4, TotalOfNothing DEF Pending
  <1> QED
    BY <1>1, <1>2, <1>3, NothingIs DEF PutInv

LEMMA PutNext == ASSUME StockInv, PutInv, TelemetryNext PROVE PutInv'
  <1>1. ASSUME NEW t \in Threads, Call(t) PROVE PutInv'
    <2>1. ASSUME NEW n \in Capacities, StartPut(t, n) PROVE PutInv'
      BY <2>1, StartPutCounts, TelemetryAssumption
    <2> QED
      BY <1>1, <2>1, ShardStepsCount DEF Call
  <1>2. ASSUME NEW t \in Threads, Advance(t) PROVE PutInv'
    BY <1>2, ShardStepsCount, ClassGetCounts, ClassAllocationCounts, RefuseCounts, ClassPutCounts,
       ClassTrimCounts, ClassClearCounts DEF Advance
  <1>3. CASE Read
    <2>1. UNCHANGED <<owner, classCounters, call>>
      BY <1>3 DEF Read, StartRead, LoadNext, CommitCycle, CommitOthers, Discard, counted
    <2> QED
      BY <2>1, PutStands
  <1>4. CASE Quiet
    <2>1. UNCHANGED <<owner, classCounters, call>>
      BY <1>4 DEF Quiet, telemetryVars, counted
    <2> QED
      BY <2>1, PutStands
  <1> QED
    BY <1>1, <1>2, <1>3, <1>4 DEF TelemetryNext

LEMMA PutAlways == TelemetrySpec => []PutInv
  <1>1. ASSUME PutInv, UNCHANGED telemetryVars PROVE PutInv'
    BY <1>1, PutStands DEF telemetryVars, counted
  <1> QED
    BY <1>1, PutInit, PutNext, StockAlways, PTL DEF TelemetrySpec

-----------------------------------------------------------------------------
(* Counters only grow. *)

AtMost(a, b) == a.count <= b.count /\ a.bytes <= b.bytes
EventsAtMost(e, f) == \A k \in Kinds : AtMost(e[k], f[k])
Grows ==
    /\ \A i \in Classes : EventsAtMost(classCounters[i], classCounters'[i])
    /\ AtMost(owner.put, owner'.put) /\ AtMost(owner.drop, owner'.drop)

LEMMA AtMostItself == ASSUME NEW a \in Amounts PROVE AtMost(a, a)
  BY DEF Amounts, AtMost

LEMMA AtMostMore == ASSUME NEW a \in Amounts, NEW b \in Amounts PROVE AtMost(a, Plus(a, b))
  BY PlusIs DEF Amounts, AtMost

LEMMA AtMostThrough ==
    ASSUME NEW a \in Amounts, NEW b \in Amounts, NEW c \in Amounts, AtMost(a, b), AtMost(b, c)
    PROVE  AtMost(a, c)
  BY DEF Amounts, AtMost

LEMMA StandsGrows == ASSUME StockInv, UNCHANGED counted PROVE Grows
  <1>1. UNCHANGED <<classCounters, owner>>
    BY DEF counted
  <1>2. \A i \in Classes, k \in Kinds : classCounters[i][k] \in Amounts
    BY DEF StockInv, CountersOK, EventSet
  <1>3. owner.put \in Amounts /\ owner.drop \in Amounts
    BY DEF StockInv, OwnerOK, OwnerSet
  <1> QED
    BY <1>1, <1>2, <1>3, AtMostItself DEF Grows, EventsAtMost

LEMMA ClassGrows == ASSUME StockInv, NEW i, NEW d, ClassMoves(i, d) PROVE Grows
  <1>1. /\ d \in EventSet /\ UNCHANGED owner
        /\ \A j \in Classes : classCounters'[j] = IF j = i THEN Added(classCounters[j], d) ELSE classCounters[j]
    BY MovesCounters DEF StockInv, ClassMoves
  <1>2. ASSUME NEW j \in Classes, NEW k \in Kinds PROVE AtMost(classCounters[j][k], classCounters'[j][k])
    <2>1. classCounters[j][k] \in Amounts /\ d[k] \in Amounts
      BY <1>1 DEF StockInv, CountersOK, EventSet
    <2>2. CASE j = i
      <3>1. classCounters'[j][k] = Plus(classCounters[j][k], d[k])
        BY <1>1, <2>2 DEF Added
      <3> QED
        BY <2>1, <3>1, AtMostMore
    <2>3. CASE j # i
      BY <1>1, <2>1, <2>3, AtMostItself
    <2> QED
      BY <2>2, <2>3
  <1>3. owner.put \in Amounts /\ owner.drop \in Amounts
    BY DEF StockInv, OwnerOK, OwnerSet
  <1> QED
    BY <1>1, <1>2, <1>3, AtMostItself DEF Grows, EventsAtMost

LEMMA OwnerGrows ==
    ASSUME StockInv, UNCHANGED classCounters, AtMost(owner.put, owner'.put), AtMost(owner.drop, owner'.drop)
    PROVE  Grows
  <1>1. \A i \in Classes, k \in Kinds : classCounters[i][k] \in Amounts
    BY DEF StockInv, CountersOK, EventSet
  <1> QED
    BY <1>1, AtMostItself DEF Grows, EventsAtMost

LEMMA CountersGrow == ASSUME StockInv, TelemetryNext PROVE Grows
  <1>0. owner.put \in Amounts /\ owner.drop \in Amounts
    BY DEF StockInv, OwnerOK, OwnerSet
  <1>1. ASSUME NEW t \in Threads, NEW n \in Capacities, StartPut(t, n) PROVE Grows
    <2>1. n \in Nat
      BY TelemetryAssumption
    <2>2. owner'.put = Plus(owner.put, One(n)) /\ owner'.drop = owner.drop /\ UNCHANGED classCounters
      BY <1>1, <2>1, StartPutDoes DEF StockInv
    <2>3. One(n) \in Amounts
      BY <2>1, OneIs
    <2> QED
      BY <1>0, <2>2, <2>3, AtMostMore, AtMostItself, OwnerGrows
  <1>2. ASSUME NEW t \in Threads, NEW reason \in Reasons, Refuse(t, reason) PROVE Grows
    <2>1. /\ call[t] \in OfferCalls /\ owner'.put = owner.put
          /\ owner'.drop = Plus(owner.drop, One(call[t].capacity)) /\ UNCHANGED classCounters
      BY <1>2, RefuseDoes DEF StockInv
    <2>2. One(call[t].capacity) \in Amounts
      BY <2>1, OneIs DEF OfferCalls
    <2> QED
      BY <1>0, <2>1, <2>2, AtMostMore, AtMostItself, OwnerGrows
  <1>3. ASSUME NEW t \in Threads, ClassGet(t) PROVE Grows
    BY <1>3, ClassGetDoes, ClassGrows DEF StockInv, CountsHit, CountsMiss
  <1>4. ASSUME NEW t \in Threads, ClassAllocation(t) PROVE Grows
    BY <1>4, ClassAllocationDoes, ClassGrows DEF StockInv
  <1>5. ASSUME NEW t \in Threads, ClassPut(t) PROVE Grows
    BY <1>5, ClassPutDoes, ClassGrows DEF StockInv
  <1>6. ASSUME NEW t \in Threads, ClassTrim(t) PROVE Grows
    BY <1>6, ClassTrimDoes, ClassGrows DEF StockInv
  <1>7. ASSUME NEW t \in Threads, ClassClear(t) PROVE Grows
    BY <1>7, ClassClearDoes, ClassGrows DEF StockInv
  <1>8. UNCHANGED counted => Grows
    BY StandsGrows
  <1>9. ASSUME NEW t \in Threads, Call(t) PROVE Grows
    BY <1>1, <1>8, <1>9 DEF Call, StartGet, StartClear, Trim
  <1>10. ASSUME NEW t \in Threads, Advance(t) PROVE Grows
    BY <1>2, <1>3, <1>4, <1>5, <1>6, <1>7, <1>8, <1>10 DEF Advance, Probe, Allocate, TryRetain, ClearShard
  <1>11. Read \/ Quiet => UNCHANGED counted
    BY DEF Read, StartRead, LoadNext, CommitCycle, CommitOthers, Discard, Quiet, telemetryVars, counted
  <1> QED
    BY <1>8, <1>9, <1>10, <1>11 DEF TelemetryNext

-----------------------------------------------------------------------------
(* What a reader loads, in order *)

Groups == Len(ClassSizes) * 3
ClassAt(n) == ((n - 1) \div 3) + 1
GroupAt(n) == LoadGroups[((n - 1) % 3) + 1]

LEMMA GroupsAre ==
    /\ Groups \in Nat /\ Len(ClassSizes) \in Nat /\ Len(LoadGroups) = 3
    /\ \A g \in 1 .. 3 : LoadGroups[g] \subseteq Kinds
    /\ \A k \in Kinds : \E g \in 1 .. 3 : k \in LoadGroups[g]
  <1>1. Len(ClassSizes) \in Nat
    BY ClassesFinite
  <1>2. Len(LoadGroups) = 3
    BY DEF LoadGroups
  <1>3. \A g \in 1 .. 3 : LoadGroups[g] \subseteq Kinds
    BY KindsAre DEF LoadGroups
  <1>4. \A k \in Kinds : \E g \in 1 .. 3 : k \in LoadGroups[g]
    BY KindsAre DEF LoadGroups
  <1> QED
    BY <1>1, <1>2, <1>3, <1>4 DEF Groups

LEMMA AtIs ==
    ASSUME NEW n \in 1 .. Groups
    PROVE  /\ ClassAt(n) \in Classes /\ GroupAt(n) \subseteq Kinds
           /\ ((n - 1) % 3) + 1 \in 1 .. 3
           /\ n = (ClassAt(n) - 1) * 3 + ((n - 1) % 3) + 1
  <1>1. n \in Nat /\ n >= 1 /\ n <= Len(ClassSizes) * 3 /\ Len(ClassSizes) \in Nat
    BY GroupsAre DEF Groups
  <1>2. PICK q, r : q = (n - 1) \div 3 /\ r = (n - 1) % 3
    OBVIOUS
  <1>3. q \in Nat /\ r \in 0 .. 2 /\ n - 1 = q * 3 + r
    BY <1>1, <1>2
  <1>4. q < Len(ClassSizes)
    BY <1>1, <1>3
  <1>5. q + 1 \in Classes
    BY <1>1, <1>3, <1>4, ClassesFinite
  <1>6. r + 1 \in 1 .. 3
    BY <1>3
  <1>7. n = ((q + 1) - 1) * 3 + r + 1
    BY <1>1, <1>3
  <1> QED
    BY <1>2, <1>5, <1>6, <1>7, GroupsAre DEF ClassAt, GroupAt

LEMMA LoadsAre ==
    ASSUME NEW into
    PROVE  /\ Loads(into) \in Seq({into} \X Nat \X SUBSET Kinds) /\ Len(Loads(into)) = Groups
           /\ \A n \in 1 .. Groups : Loads(into)[n] = <<into, ClassAt(n), GroupAt(n)>>
  <1>1. PICK L : L = Loads(into)
    OBVIOUS
  <1>2. L = [n \in 1 .. Groups |-> <<into, ClassAt(n), GroupAt(n)>>]
    BY <1>1, GroupsAre DEF Loads, Groups, ClassAt, GroupAt
  <1>3. \A n \in 1 .. Groups : <<into, ClassAt(n), GroupAt(n)>> \in {into} \X Nat \X SUBSET Kinds
    <2>1. \A n \in 1 .. Groups : ClassAt(n) \in Nat /\ GroupAt(n) \in SUBSET Kinds
      BY AtIs, Sizes
    <2> QED
      BY <2>1
  <1>4. L \in [1 .. Groups -> {into} \X Nat \X SUBSET Kinds]
    BY <1>2, <1>3
  <1>5. L \in Seq({into} \X Nat \X SUBSET Kinds) /\ Len(L) = Groups
    BY <1>4, GroupsAre
  <1> QED
    BY <1>1, <1>2, <1>5

(* The plan of a reader: totals, then the owner, then the classes when it is a cycle *)
Planned(plan, cycle) ==
    /\ Len(plan) \in Nat /\ Len(plan) = IF cycle THEN Groups + 2 + Groups ELSE Groups + 2
    /\ \A n \in 1 .. Groups : plan[n] = <<"totals", ClassAt(n), GroupAt(n)>>
    /\ plan[Groups + 1] = <<"owner", 0, {"put"}>>
    /\ plan[Groups + 2] = <<"owner", 0, {"drop", "reasons"}>>
    /\ cycle => \A n \in 1 .. Groups : plan[Groups + 2 + n] = <<"classes", ClassAt(n), GroupAt(n)>>

LEMMA PlanIs == ASSUME NEW cycle \in BOOLEAN PROVE Planned(ReadPlan(cycle), cycle)
  <1>1. PICK T, O, C : T = Loads("totals") /\ O = OwnerLoads /\ C = Loads("classes")
    OBVIOUS
  <1>2. PICK N : N = Groups
    OBVIOUS
  <1>3. N \in Nat
    BY <1>2, GroupsAre
  <1>4. PICK A, B : A = {"totals"} \X Nat \X SUBSET Kinds /\ B = {"classes"} \X Nat \X SUBSET Kinds
    OBVIOUS
  <1>5. /\ T \in Seq(A) /\ Len(T) = N /\ \A n \in 1 .. N : T[n] = <<"totals", ClassAt(n), GroupAt(n)>>
    BY <1>1, <1>2, <1>4, LoadsAre
  <1>6. /\ C \in Seq(B) /\ Len(C) = N /\ \A n \in 1 .. N : C[n] = <<"classes", ClassAt(n), GroupAt(n)>>
    BY <1>1, <1>2, <1>4, LoadsAre
  <1>7. /\ O \in Seq({<<"owner", 0, {"put"}>>, <<"owner", 0, {"drop", "reasons"}>>}) /\ Len(O) = 2
        /\ O[1] = <<"owner", 0, {"put"}>> /\ O[2] = <<"owner", 0, {"drop", "reasons"}>>
    BY <1>1 DEF OwnerLoads
  <1>8. PICK S : S = A \cup B \cup {<<"owner", 0, {"put"}>>, <<"owner", 0, {"drop", "reasons"}>>}
    OBVIOUS
  <1>9. T \in Seq(S) /\ C \in Seq(S) /\ O \in Seq(S)
    BY <1>5, <1>6, <1>7, <1>8
  <1>10. PICK P : P = T \o O
    OBVIOUS
  <1>11. /\ P \in Seq(S) /\ Len(P) = N + 2 /\ \A n \in 1 .. N : P[n] = T[n]
         /\ P[N + 1] = O[1] /\ P[N + 2] = O[2]
    <2>1. /\ P \in Seq(S) /\ Len(P) = Len(T) + Len(O)
          /\ \A n \in 1 .. Len(T) + Len(O) : P[n] = IF n <= Len(T) THEN T[n] ELSE O[n - Len(T)]
      BY <1>9, <1>10, ConcatProperties
    <2>2. Len(T) = N /\ Len(O) = 2
      BY <1>5, <1>7
    <2>3. \A n \in 1 .. N + 2 : P[n] = IF n <= N THEN T[n] ELSE O[n - N]
      BY <2>1, <2>2
    <2>4. P[N + 1] = O[1]
      BY <1>3, <2>3
    <2>5. P[N + 2] = O[2]
      BY <1>3, <2>3
    <2>6. \A n \in 1 .. N : P[n] = T[n]
      BY <1>3, <2>3
    <2> QED
      BY <2>1, <2>2, <2>4, <2>5, <2>6
  <1>12. PICK Q : Q = P \o C
    OBVIOUS
  <1>13. /\ Len(Q) = N + 2 + N /\ \A n \in 1 .. N + 2 : Q[n] = P[n]
         /\ \A n \in 1 .. N : Q[N + 2 + n] = C[n]
    <2>1. /\ Len(Q) = Len(P) + Len(C)
          /\ \A n \in 1 .. Len(P) + Len(C) : Q[n] = IF n <= Len(P) THEN P[n] ELSE C[n - Len(P)]
      BY <1>9, <1>11, <1>12, ConcatProperties
    <2>2. Len(P) = N + 2 /\ Len(C) = N
      BY <1>6, <1>11
    <2>3. \A n \in 1 .. N + 2 + N : Q[n] = IF n <= N + 2 THEN P[n] ELSE C[n - (N + 2)]
      BY <2>1, <2>2
    <2>4. ASSUME NEW n \in 1 .. N PROVE Q[N + 2 + n] = C[n]
      <3>1. N + 2 + n \in 1 .. N + 2 + N /\ ~(N + 2 + n <= N + 2) /\ (N + 2 + n) - (N + 2) = n
        BY <1>3
      <3> QED
        BY <2>3, <3>1
    <2>5. \A n \in 1 .. N + 2 : Q[n] = P[n]
      BY <1>3, <2>3
    <2> QED
      BY <2>1, <2>2, <2>4, <2>5
  <1>14. ReadPlan(cycle) = IF cycle THEN Q ELSE P
    BY <1>1, <1>10, <1>12 DEF ReadPlan, PoolPlan
  <1>15. CASE ~cycle
    BY <1>2, <1>3, <1>5, <1>7, <1>11, <1>14, <1>15 DEF Planned
  <1>16. CASE cycle
    <2>1. N + 1 \in 1 .. N + 2 /\ N + 2 \in 1 .. N + 2 /\ \A n \in 1 .. N : n \in 1 .. N + 2
      BY <1>3
    <2>2. Q[N + 1] = O[1] /\ Q[N + 2] = O[2] /\ \A n \in 1 .. N : Q[n] = T[n]
      BY <1>11, <1>13, <2>1
    <2> QED
      BY <1>2, <1>3, <1>5, <1>6, <1>7, <1>13, <1>14, <1>16, <2>2 DEF Planned
  <1> QED
    BY <1>15, <1>16

-----------------------------------------------------------------------------
(* Samples *)

SampleSet == [totals : [Classes -> EventSet], owner : OwnerSet, classes : [Classes -> EventSet]]

(* A sample s with the events g of class i loaded, into its totals *)
TakesTotals(s, z, i, g) ==
    /\ z \in SampleSet /\ z.owner = s.owner /\ z.classes = s.classes
    /\ \A j \in Classes, k \in Kinds :
          z.totals[j][k] = IF j = i /\ k \in g THEN classCounters[j][k] ELSE s.totals[j][k]

LEMMA SomeEvents ==
    ASSUME NEW e \in EventSet, NEW f \in EventSet, NEW g
    PROVE  /\ Some(e, f, g) \in EventSet
           /\ \A k \in Kinds : Some(e, f, g)[k] = IF k \in g THEN f[k] ELSE e[k]
  BY DEF Some, EventSet

LEMMA TotalsLoad ==
    ASSUME CountersOK, NEW s \in SampleSet, NEW i \in Classes, NEW g
    PROVE  TakesTotals(s, Loaded(s, <<"totals", i, g>>), i, g)
  <1>1. PICK e : e = Some(s.totals[i], classCounters[i], g)
    OBVIOUS
  <1>2. s.totals \in [Classes -> EventSet] /\ classCounters \in [Classes -> EventSet]
    BY DEF SampleSet, CountersOK
  <1>3. e \in EventSet /\ \A k \in Kinds : e[k] = IF k \in g THEN classCounters[i][k] ELSE s.totals[i][k]
    BY <1>1, <1>2, SomeEvents
  <1>4. Loaded(s, <<"totals", i, g>>) = [s EXCEPT !.totals[i] = e]
    BY <1>1 DEF Loaded
  <1>5. PICK z : z = Loaded(s, <<"totals", i, g>>)
    OBVIOUS
  <1>6. z.totals = [s.totals EXCEPT ![i] = e] /\ z.owner = s.owner /\ z.classes = s.classes
    BY <1>4, <1>5 DEF SampleSet
  <1>7. z \in SampleSet
    BY <1>2, <1>3, <1>4, <1>5 DEF SampleSet
  <1>8. \A j \in Classes : z.totals[j] = IF j = i THEN e ELSE s.totals[j]
    BY <1>2, <1>6
  <1> QED
    BY <1>3, <1>5, <1>6, <1>7, <1>8 DEF TakesTotals

LEMMA ClassesLoad ==
    ASSUME CountersOK, NEW s \in SampleSet, NEW i \in Classes, NEW g
    PROVE  LET z == Loaded(s, <<"classes", i, g>>) IN
           z \in SampleSet /\ z.owner = s.owner /\ z.totals = s.totals
  <1>1. PICK e : e = Some(s.classes[i], classCounters[i], g)
    OBVIOUS
  <1>2. s.classes \in [Classes -> EventSet] /\ classCounters \in [Classes -> EventSet]
    BY DEF SampleSet, CountersOK
  <1>3. e \in EventSet
    BY <1>1, <1>2, SomeEvents
  <1>4. Loaded(s, <<"classes", i, g>>) = [s EXCEPT !.classes[i] = e]
    BY <1>1 DEF Loaded
  <1> QED
    BY <1>2, <1>3, <1>4 DEF SampleSet

LEMMA OwnerLoad ==
    ASSUME OwnerOK, NEW s \in SampleSet, NEW g
    PROVE  LET z == Loaded(s, <<"owner", 0, g>>) IN
           /\ z \in SampleSet /\ z.totals = s.totals
           /\ z.owner.put = (IF "put" \in g THEN owner.put ELSE s.owner.put)
           /\ z.owner.drop = (IF "drop" \in g THEN owner.drop ELSE s.owner.drop)
  <1>1. PICK o : o = Some(s.owner, owner, g)
    OBVIOUS
  <1>2. s.owner \in OwnerSet /\ owner \in OwnerSet
    BY DEF SampleSet, OwnerOK
  <1>3. DOMAIN s.owner = {"put", "drop", "reasons"}
    BY <1>2 DEF OwnerSet
  <1>4. o = [k \in {"put", "drop", "reasons"} |-> IF k \in g THEN owner[k] ELSE s.owner[k]]
    BY <1>1, <1>3 DEF Some
  <1>5. o \in OwnerSet /\ o.put = (IF "put" \in g THEN owner.put ELSE s.owner.put)
        /\ o.drop = (IF "drop" \in g THEN owner.drop ELSE s.owner.drop)
    BY <1>2, <1>4 DEF OwnerSet
  <1>6. Loaded(s, <<"owner", 0, g>>) = [s EXCEPT !.owner = o]
    BY <1>1 DEF Loaded
  <1> QED
    BY <1>5, <1>6 DEF SampleSet

-----------------------------------------------------------------------------
(* A sample is never ahead of the counters, and what a read has loaded is not behind *)
(* the sample before it.                                                          *)

Below(s, z) ==
    /\ \A i \in Classes : EventsAtMost(s.totals[i], z.totals[i])
    /\ AtMost(s.owner.put, z.owner.put) /\ AtMost(s.owner.drop, z.owner.drop)
Now == [totals |-> classCounters, owner |-> owner, classes |-> classCounters]
Past(s) == Below(s, Now)

(* The loads before the n-th are not behind s. *)
Covers(s, z, n) ==
    /\ \A m \in 1 .. Groups : m < n =>
          \A k \in GroupAt(m) : AtMost(s.totals[ClassAt(m)][k], z.totals[ClassAt(m)][k])
    /\ n > Groups + 1 => AtMost(s.owner.put, z.owner.put)
    /\ n > Groups + 2 => AtMost(s.owner.drop, z.owner.drop)
PutsFirst(z, n) == n > Groups + 1 => Outcomes(z.totals).count <= z.owner.put.count

ReaderSet == [pc : {"load", "done"}, cycle : BOOLEAN, next : Nat \ {0}, sample : SampleSet]
Placed(r) ==
    /\ r.pc = "load" => r.next <= Len(ReadPlan(r.cycle))
    /\ r.pc = "done" => r.next = Len(ReadPlan(r.cycle)) + 1
Reads(r) ==
    /\ r \in ReaderSet /\ Placed(r) /\ Past(r.sample) /\ PutsFirst(r.sample, r.next)
    /\ Covers(previous, r.sample, r.next)

ReadInv ==
    /\ reader # NoReader => Reads(reader)
    /\ previous \in SampleSet /\ Past(previous)

LEMMA SampleIs ==
    ASSUME NEW s \in SampleSet
    PROVE  /\ s.totals \in [Classes -> EventSet] /\ s.classes \in [Classes -> EventSet] /\ s.owner \in OwnerSet
           /\ \A i \in Classes, k \in Kinds : s.totals[i][k] \in Amounts /\ s.classes[i][k] \in Amounts
           /\ s.owner.put \in Amounts /\ s.owner.drop \in Amounts
  <1>1. s.totals \in [Classes -> EventSet] /\ s.classes \in [Classes -> EventSet] /\ s.owner \in OwnerSet
    BY DEF SampleSet
  <1>2. \A i \in Classes, k \in Kinds : s.totals[i][k] \in Amounts /\ s.classes[i][k] \in Amounts
    BY <1>1 DEF EventSet
  <1>3. s.owner.put \in Amounts /\ s.owner.drop \in Amounts
    BY <1>1 DEF OwnerSet
  <1> QED
    BY <1>1, <1>2, <1>3

LEMMA NowIs == ASSUME StockInv PROVE Now \in SampleSet
  BY DEF StockInv, CountersOK, OwnerOK, SampleSet, Now

LEMMA BelowThrough ==
    ASSUME NEW s \in SampleSet, NEW y \in SampleSet, NEW z \in SampleSet, Below(s, y), Below(y, z)
    PROVE  Below(s, z)
  <1>1. ASSUME NEW i \in Classes, NEW k \in Kinds PROVE AtMost(s.totals[i][k], z.totals[i][k])
    <2>1. s.totals[i][k] \in Amounts /\ y.totals[i][k] \in Amounts /\ z.totals[i][k] \in Amounts
      BY SampleIs
    <2>2. AtMost(s.totals[i][k], y.totals[i][k]) /\ AtMost(y.totals[i][k], z.totals[i][k])
      BY DEF Below, EventsAtMost
    <2> QED
      BY <2>1, <2>2, AtMostThrough
  <1>2. AtMost(s.owner.put, z.owner.put) /\ AtMost(s.owner.drop, z.owner.drop)
    <2>1. /\ s.owner.put \in Amounts /\ y.owner.put \in Amounts /\ z.owner.put \in Amounts
          /\ s.owner.drop \in Amounts /\ y.owner.drop \in Amounts /\ z.owner.drop \in Amounts
      BY SampleIs
    <2>2. /\ AtMost(s.owner.put, y.owner.put) /\ AtMost(y.owner.put, z.owner.put)
          /\ AtMost(s.owner.drop, y.owner.drop) /\ AtMost(y.owner.drop, z.owner.drop)
      BY DEF Below
    <2> QED
      BY <2>1, <2>2, AtMostThrough
  <1> QED
    BY <1>1, <1>2 DEF Below, EventsAtMost

LEMMA PastStays ==
    ASSUME StockInv, StockInv', Grows, NEW s \in SampleSet, Past(s) PROVE Past(s)'
  <1>1. PICK y, z : y = Now /\ z = Now'
    OBVIOUS
  <1>2. y \in SampleSet
    BY <1>1, NowIs
  <1>3. z \in SampleSet
    BY <1>1 DEF StockInv, CountersOK, OwnerOK, SampleSet, Now
  <1>4. Below(y, z)
    BY <1>1 DEF Grows, Below, Now
  <1>5. Below(s, y)
    BY <1>1 DEF Past
  <1>6. Below(s, z)
    BY <1>2, <1>3, <1>4, <1>5, BelowThrough
  <1> QED
    BY <1>1, <1>6 DEF Past, Below

(* Everything but the reader goes on. *)
LEMMA OthersRead ==
    ASSUME StockInv, StockInv', Grows, ReadInv, UNCHANGED <<reader, previous>> PROVE ReadInv'
  <1>1. (previous \in SampleSet /\ Past(previous))'
    BY PastStays DEF ReadInv
  <1>2. ASSUME reader' # NoReader PROVE Reads(reader)'
    <2>1. Reads(reader) /\ reader.sample \in SampleSet
      BY <1>2 DEF ReadInv, Reads, ReaderSet
    <2>2. Past(reader.sample)'
      BY <2>1, PastStays DEF Reads
    <2> QED
      BY <2>1, <2>2 DEF Reads
  <1> QED
    BY <1>1, <1>2 DEF ReadInv

LEMMA EmptyIs ==
    ASSUME StockInv
    PROVE  EmptySample \in SampleSet /\ Past(EmptySample)
  <1>1. /\ NoClasses \in [Classes -> EventSet]
        /\ \A i \in Classes, k \in Kinds : NoClasses[i][k] = Nothing
    BY NewIs DEF NoClasses
  <1>2. NewOwnerCounters \in OwnerSet /\ NewOwnerCounters.put = Nothing /\ NewOwnerCounters.drop = Nothing
    BY NothingIs DEF NewOwnerCounters, NoReasons, OwnerSet
  <1>3. EmptySample \in SampleSet
    BY <1>1, <1>2 DEF EmptySample, SampleSet
  <1>4. \A a \in Amounts : AtMost(Nothing, a)
    BY NothingIs DEF AtMost, Amounts
  <1>5. \A i \in Classes, k \in Kinds : classCounters[i][k] \in Amounts
    BY NowIs, SampleIs DEF Now
  <1>6. owner.put \in Amounts /\ owner.drop \in Amounts
    BY NowIs, SampleIs DEF Now
  <1>7. Past(EmptySample)
    BY <1>1, <1>2, <1>4, <1>5, <1>6 DEF Past, Below, EventsAtMost, EmptySample, Now
  <1> QED
    BY <1>3, <1>7

LEMMA PlanLength ==
    ASSUME NEW cycle \in BOOLEAN
    PROVE  /\ Groups \in Nat /\ Len(ReadPlan(cycle)) \in Nat
           /\ Len(ReadPlan(cycle)) = IF cycle THEN Groups + 2 + Groups ELSE Groups + 2
  BY PlanIs, GroupsAre DEF Planned

LEMMA StartReads ==
    ASSUME StockInv, ReadInv, NEW cycle \in BOOLEAN, StartRead(cycle) PROVE ReadInv'
  <1>1. PICK r : r = [pc |-> "load", cycle |-> cycle, next |-> 1, sample |-> EmptySample]
    OBVIOUS
  <1>2. reader' = r /\ UNCHANGED <<previous, classCounters, owner>>
    BY <1>1 DEF StartRead, counted
  <1>3. r \in ReaderSet
    BY <1>1, EmptyIs DEF ReaderSet
  <1>4. Placed(r)
    BY <1>1, PlanLength DEF Placed
  <1>5. Past(r.sample)
    BY <1>1, EmptyIs
  <1>6. r.next = 1 /\ Groups \in Nat
    BY <1>1, PlanLength
  <1>7. PutsFirst(r.sample, r.next)
    BY <1>6 DEF PutsFirst
  <1>8. Covers(previous, r.sample, r.next)
    BY <1>6 DEF Covers
  <1>9. Reads(r)
    BY <1>3, <1>4, <1>5, <1>7, <1>8 DEF Reads
  <1>10. Past(r.sample)' /\ (Past(previous) => Past(previous)')
    BY <1>2, <1>5 DEF Past, Now
  <1> QED
    BY <1>2, <1>9, <1>10 DEF ReadInv, Reads

(* The outcomes of a sample that is not ahead of the counters *)
LEMMA OutcomesBelow ==
    ASSUME NEW p \in [Classes -> EventSet], NEW q \in [Classes -> EventSet],
           \A i \in Classes : EventsAtMost(p[i], q[i])
    PROVE  Outcomes(p).count <= Outcomes(q).count
  <1>1. PICK f, g : f = [i \in Classes |-> OutcomesOf(p[i])] /\ g = [i \in Classes |-> OutcomesOf(q[i])]
    OBVIOUS
  <1>2. /\ f \in [Classes -> Amounts] /\ Outcomes(p) = Total(f)
        /\ g \in [Classes -> Amounts] /\ Outcomes(q) = Total(g)
    BY <1>1, OutcomesAre
  <1>3. PICK n, m : n = [i \in Classes |-> f[i].count] /\ m = [i \in Classes |-> g[i].count]
    OBVIOUS
  <1>4. ASSUME NEW i \in Classes PROVE n[i] \in Nat /\ m[i] \in Nat /\ n[i] <= m[i]
    <2>1. /\ p[i]["retain"] \in Amounts /\ p[i]["drop"] \in Amounts
          /\ q[i]["retain"] \in Amounts /\ q[i]["drop"] \in Amounts
      BY KindsAre DEF EventSet
    <2>2. AtMost(p[i]["retain"], q[i]["retain"]) /\ AtMost(p[i]["drop"], q[i]["drop"])
      BY KindsAre DEF EventsAtMost
    <2>3. f[i].count = p[i]["retain"].count + p[i]["drop"].count
      BY <1>1, <2>1, PlusIs DEF OutcomesOf
    <2>4. g[i].count = q[i]["retain"].count + q[i]["drop"].count
      BY <1>1, <2>1, PlusIs DEF OutcomesOf
    <2> QED
      BY <1>3, <2>1, <2>2, <2>3, <2>4 DEF AtMost, Amounts
  <1>5. SumFunctionOnSet(n, Classes) <= SumFunctionOnSet(m, Classes)
    BY <1>4, ClassesFinite, SumMonotone
  <1> QED
    BY <1>2, <1>3, <1>5, ClassesFinite, TotalIs

(* What the n-th load of a plan makes of a sample *)
LoadsTotals(s, z, n) == n \in 1 .. Groups /\ TakesTotals(s, z, ClassAt(n), GroupAt(n))
LoadsPut(s, z, n) ==
    /\ n = Groups + 1 /\ z \in SampleSet /\ z.totals = s.totals
    /\ z.owner.put = owner.put /\ z.owner.drop = s.owner.drop
LoadsDrop(s, z, n) ==
    /\ n = Groups + 2 /\ z \in SampleSet /\ z.totals = s.totals
    /\ z.owner.put = s.owner.put /\ z.owner.drop = owner.drop
LoadsClasses(s, z, n) ==
    n > Groups + 2 /\ z \in SampleSet /\ z.totals = s.totals /\ z.owner = s.owner

LEMMA LoadsOne ==
    ASSUME StockInv, NEW s \in SampleSet, NEW cycle \in BOOLEAN,
           NEW n \in 1 .. Len(ReadPlan(cycle)), NEW z, z = Loaded(s, ReadPlan(cycle)[n])
    PROVE  LoadsTotals(s, z, n) \/ LoadsPut(s, z, n) \/ LoadsDrop(s, z, n) \/ LoadsClasses(s, z, n)
  <1>1. PICK plan : plan = ReadPlan(cycle)
    OBVIOUS
  <1>2. Planned(plan, cycle) /\ Groups \in Nat
    BY <1>1, PlanIs, GroupsAre
  <1>3. CountersOK /\ OwnerOK
    BY DEF StockInv
  <1>4. n \in Nat /\ n >= 1 /\ n <= Len(plan)
    BY <1>1, <1>2 DEF Planned
  <1>5. CASE n \in 1 .. Groups
    <2>1. ClassAt(n) \in Classes /\ z = Loaded(s, <<"totals", ClassAt(n), GroupAt(n)>>)
      BY <1>1, <1>2, <1>5, AtIs DEF Planned
    <2> QED
      BY <1>3, <1>5, <2>1, TotalsLoad DEF LoadsTotals
  <1>6. CASE n = Groups + 1
    <2>1. z = Loaded(s, <<"owner", 0, {"put"}>>)
      BY <1>1, <1>2, <1>6 DEF Planned
    <2> QED
      BY <1>3, <1>6, <2>1, OwnerLoad DEF LoadsPut
  <1>7. CASE n = Groups + 2
    <2>1. z = Loaded(s, <<"owner", 0, {"drop", "reasons"}>>)
      BY <1>1, <1>2, <1>7 DEF Planned
    <2> QED
      BY <1>3, <1>7, <2>1, OwnerLoad DEF LoadsDrop
  <1>8. CASE n > Groups + 2
    <2>1. cycle /\ n <= Groups + 2 + Groups
      BY <1>2, <1>4, <1>8 DEF Planned
    <2>2. PICK m : m = n - (Groups + 2)
      OBVIOUS
    <2>3. m \in 1 .. Groups /\ n = Groups + 2 + m
      BY <1>2, <1>4, <1>8, <2>1, <2>2
    <2>4. ClassAt(m) \in Classes /\ z = Loaded(s, <<"classes", ClassAt(m), GroupAt(m)>>)
      BY <1>1, <1>2, <2>1, <2>3, AtIs DEF Planned
    <2> QED
      BY <1>3, <1>8, <2>4, ClassesLoad DEF LoadsClasses
  <1> QED
    BY <1>2, <1>4, <1>5, <1>6, <1>7, <1>8

(* A load brings current counters, so the sample stays not ahead of them, *)
LEMMA LoadStaysPast ==
    ASSUME StockInv, NEW s \in SampleSet, Past(s), NEW n \in Nat, NEW z,
           LoadsTotals(s, z, n) \/ LoadsPut(s, z, n) \/ LoadsDrop(s, z, n) \/ LoadsClasses(s, z, n)
    PROVE  z \in SampleSet /\ Past(z)
  <1>1. /\ \A i \in Classes, k \in Kinds : AtMost(s.totals[i][k], classCounters[i][k])
        /\ AtMost(s.owner.put, owner.put) /\ AtMost(s.owner.drop, owner.drop)
    BY DEF Past, Below, EventsAtMost, Now
  <1>2. /\ \A i \in Classes, k \in Kinds : AtMost(classCounters[i][k], classCounters[i][k])
        /\ AtMost(owner.put, owner.put) /\ AtMost(owner.drop, owner.drop)
    BY NowIs, SampleIs, AtMostItself DEF Now
  <1>3. CASE LoadsTotals(s, z, n)
    BY <1>1, <1>2, <1>3 DEF LoadsTotals, TakesTotals, Past, Below, EventsAtMost, Now
  <1>4. CASE LoadsPut(s, z, n)
    BY <1>1, <1>2, <1>4 DEF LoadsPut, Past, Below, EventsAtMost, Now
  <1>5. CASE LoadsDrop(s, z, n)
    BY <1>1, <1>2, <1>5 DEF LoadsDrop, Past, Below, EventsAtMost, Now
  <1>6. CASE LoadsClasses(s, z, n)
    BY <1>1, <1>2, <1>6 DEF LoadsClasses, Past, Below, EventsAtMost, Now
  <1> QED
    BY <1>3, <1>4, <1>5, <1>6

(* has put what its outcomes belong to, *)
LEMMA LoadPutsFirst ==
    ASSUME StockInv, PutInv, NEW s \in SampleSet, Past(s), NEW n \in Nat, PutsFirst(s, n), NEW z,
           LoadsTotals(s, z, n) \/ LoadsPut(s, z, n) \/ LoadsDrop(s, z, n) \/ LoadsClasses(s, z, n)
    PROVE  PutsFirst(z, n + 1)
  <1>1. Groups \in Nat
    BY GroupsAre
  <1>2. CASE LoadsTotals(s, z, n)
    BY <1>1, <1>2 DEF LoadsTotals, PutsFirst
  <1>3. CASE LoadsPut(s, z, n)
    <2>1. Outcomes(s.totals).count <= Outcomes(classCounters).count
      <3>1. s.totals \in [Classes -> EventSet] /\ classCounters \in [Classes -> EventSet]
        BY SampleIs DEF StockInv, CountersOK
      <3>2. \A i \in Classes : EventsAtMost(s.totals[i], classCounters[i])
        BY DEF Past, Below, Now
      <3> QED
        BY <3>1, <3>2, OutcomesBelow
    <2>2. Outcomes(s.totals).count \in Nat /\ Outcomes(classCounters).count \in Nat
      BY SampleIs, OutcomesAre DEF StockInv, CountersOK, Amounts
    <2>3. owner.put.count \in Nat /\ owner.drop.count \in Nat
      BY NowIs, SampleIs DEF Now, Amounts
    <2>4. Pending.count \in Nat
      <3>1. PICK f : f = [t \in Threads |-> PendingOf(call[t])]
        OBVIOUS
      <3>2. f \in [Threads -> Amounts] /\ Pending = Total(f)
        BY <3>1, PendingIs DEF Pending
      <3>3. IsFiniteSet(Threads)
        BY TelemetryAssumption
      <3> QED
        BY <3>2, <3>3, TotalIs DEF Amounts
    <2>5. Outcomes(s.totals).count <= owner.put.count
      BY <2>1, <2>2, <2>3, <2>4 DEF PutInv
    <2> QED
      BY <1>3, <2>5 DEF LoadsPut, PutsFirst
  <1>4. CASE LoadsDrop(s, z, n)
    BY <1>1, <1>4 DEF LoadsDrop, PutsFirst
  <1>5. CASE LoadsClasses(s, z, n)
    BY <1>1, <1>5 DEF LoadsClasses, PutsFirst
  <1> QED
    BY <1>2, <1>3, <1>4, <1>5

(* and is not behind a sample of the past. *)
LEMMA LoadCovers ==
    ASSUME StockInv, NEW p \in SampleSet, Past(p), NEW s \in SampleSet, NEW n \in Nat, Covers(p, s, n), NEW z,
           LoadsTotals(s, z, n) \/ LoadsPut(s, z, n) \/ LoadsDrop(s, z, n) \/ LoadsClasses(s, z, n)
    PROVE  Covers(p, z, n + 1)
  <1>1. Groups \in Nat
    BY GroupsAre
  <1>2. /\ \A i \in Classes, k \in Kinds : AtMost(p.totals[i][k], classCounters[i][k])
        /\ AtMost(p.owner.put, owner.put) /\ AtMost(p.owner.drop, owner.drop)
    BY DEF Past, Below, EventsAtMost, Now
  <1>3. \A m \in 1 .. Groups : ClassAt(m) \in Classes /\ GroupAt(m) \subseteq Kinds
    BY AtIs
  <1>4. CASE LoadsTotals(s, z, n)
    <2>1. ASSUME NEW m \in 1 .. Groups, m < n + 1, NEW k \in GroupAt(m)
          PROVE  AtMost(p.totals[ClassAt(m)][k], z.totals[ClassAt(m)][k])
      <3>1. ClassAt(m) \in Classes /\ k \in Kinds
        BY <1>3, <2>1
      <3>2. z.totals[ClassAt(m)][k] = IF ClassAt(m) = ClassAt(n) /\ k \in GroupAt(n)
                                     THEN classCounters[ClassAt(m)][k] ELSE s.totals[ClassAt(m)][k]
        BY <1>4, <3>1 DEF LoadsTotals, TakesTotals
      <3>3. CASE ClassAt(m) = ClassAt(n) /\ k \in GroupAt(n)
        BY <1>2, <3>1, <3>2, <3>3
      <3>4. CASE ~(ClassAt(m) = ClassAt(n) /\ k \in GroupAt(n))
        <4>1. m # n
          BY <2>1, <3>4
        <4>2. m < n
          BY <2>1, <4>1
        <4> QED
          BY <2>1, <3>2, <3>4, <4>2 DEF Covers
      <3> QED
        BY <3>3, <3>4
    <2>2. ~(n + 1 > Groups + 1) /\ ~(n + 1 > Groups + 2)
      BY <1>1, <1>4 DEF LoadsTotals
    <2> QED
      BY <2>1, <2>2 DEF Covers
  <1>5. ASSUME n > Groups, z.totals = s.totals
        PROVE  \A m \in 1 .. Groups : m < n + 1 =>
                  \A k \in GroupAt(m) : AtMost(p.totals[ClassAt(m)][k], z.totals[ClassAt(m)][k])
    <2>1. \A m \in 1 .. Groups : m < n
      BY <1>1, <1>5
    <2> QED
      BY <1>5, <2>1 DEF Covers
  <1>6. CASE LoadsPut(s, z, n)
    <2>1. n > Groups /\ z.totals = s.totals /\ z.owner.put = owner.put /\ ~(n + 1 > Groups + 2)
      BY <1>1, <1>6 DEF LoadsPut
    <2> QED
      BY <1>2, <1>5, <2>1 DEF Covers
  <1>7. CASE LoadsDrop(s, z, n)
    <2>1. n > Groups /\ n > Groups + 1 /\ z.totals = s.totals /\ z.owner.put = s.owner.put /\ z.owner.drop = owner.drop
      BY <1>1, <1>7 DEF LoadsDrop
    <2> QED
      BY <1>2, <1>5, <2>1 DEF Covers
  <1>8. CASE LoadsClasses(s, z, n)
    <2>1. n > Groups /\ n > Groups + 1 /\ n > Groups + 2 /\ z.totals = s.totals /\ z.owner = s.owner
      BY <1>1, <1>8 DEF LoadsClasses
    <2> QED
      BY <1>5, <2>1 DEF Covers
  <1> QED
    BY <1>4, <1>6, <1>7, <1>8

TakesNext(x, y, a, b, c) == y = [x EXCEPT !.next = a, !.sample = b, !.pc = c]
LEMMA ReaderAdvances ==
    ASSUME NEW x \in ReaderSet, NEW a \in Nat \ {0}, NEW b \in SampleSet, NEW c \in {"load", "done"}, NEW y,
           TakesNext(x, y, a, b, c)
    PROVE  y \in ReaderSet /\ y.pc = c /\ y.cycle = x.cycle /\ y.next = a /\ y.sample = b
  <1>1. y.pc = c /\ y.cycle = x.cycle /\ y.next = a /\ y.sample = b
    BY DEF ReaderSet, TakesNext
  <1>2. y \in ReaderSet
    BY DEF ReaderSet, TakesNext
  <1> QED
    BY <1>1, <1>2

LEMMA LoadNextReads ==
    ASSUME StockInv, PutInv, ReadInv, LoadNext PROVE ReadInv'
  <1>1. PICK s, n, cycle, z :
          s = reader.sample /\ n = reader.next /\ cycle = reader.cycle /\ z = Loaded(s, ReadPlan(cycle)[n])
    OBVIOUS
  <1>2. reader.pc = "load" /\ Reads(reader)
    BY DEF LoadNext, ReadInv, NoReader
  <1>3. reader \in ReaderSet /\ Placed(reader) /\ Past(s) /\ PutsFirst(s, n)
    BY <1>1, <1>2 DEF Reads
  <1>4. s \in SampleSet /\ n \in Nat \ {0} /\ cycle \in BOOLEAN
    BY <1>1, <1>3 DEF ReaderSet
  <1>5. n \in 1 .. Len(ReadPlan(cycle)) /\ Len(ReadPlan(cycle)) \in Nat
    BY <1>1, <1>2, <1>3, <1>4, PlanLength DEF Placed
  <1>6. LoadsTotals(s, z, n) \/ LoadsPut(s, z, n) \/ LoadsDrop(s, z, n) \/ LoadsClasses(s, z, n)
    BY <1>1, <1>4, <1>5, LoadsOne
  <1>7. z \in SampleSet /\ Past(z)
    BY <1>3, <1>4, <1>6, LoadStaysPast
  <1>8. PutsFirst(z, n + 1)
    BY <1>3, <1>4, <1>6, LoadPutsFirst
  <1>9. Covers(previous, z, n + 1)
    <2>1. previous \in SampleSet /\ Past(previous)
      BY DEF ReadInv
    <2>2. Covers(previous, s, n)
      BY <1>1, <1>2 DEF Reads
    <2>3. n \in Nat
      BY <1>4
    <2> QED
      BY <1>4, <1>6, <2>1, <2>2, <2>3, LoadCovers
  <1>10. PICK r, m, pc : r = reader' /\ m = n + 1 /\ pc = IF n = Len(ReadPlan(cycle)) THEN "done" ELSE "load"
    OBVIOUS
  <1>11. r \in ReaderSet /\ r.pc = pc /\ r.cycle = cycle /\ r.next = n + 1 /\ r.sample = z
    <2>1. r = [reader EXCEPT !.next = m, !.sample = z, !.pc = pc]
      BY <1>1, <1>10 DEF LoadNext
    <2>2. m \in Nat \ {0} /\ pc \in {"load", "done"}
      BY <1>4, <1>10
    <2>3. reader \in ReaderSet /\ z \in SampleSet
      BY <1>3, <1>7
    <2>4. r \in ReaderSet /\ r.pc = pc /\ r.cycle = reader.cycle /\ r.next = m /\ r.sample = z
      <3>1. TakesNext(reader, r, m, z, pc)
        BY <2>1 DEF TakesNext
      <3> QED
        BY <2>2, <2>3, <3>1, ReaderAdvances
    <2> QED
      BY <1>1, <1>10, <2>4
  <1>12. UNCHANGED <<previous, classCounters, owner>>
    BY DEF LoadNext, counted
  <1>14. Placed(r)
    BY <1>5, <1>10, <1>11 DEF Placed
  <1>15. Reads(r)
    BY <1>7, <1>8, <1>9, <1>11, <1>14 DEF Reads
  <1>16. Past(z)' /\ (Past(previous) => Past(previous)')
    BY <1>7, <1>12 DEF Past, Now
  <1> QED
    BY <1>10, <1>11, <1>12, <1>15, <1>16 DEF ReadInv, Reads

LEMMA DoneIs ==
    ASSUME ReadInv, reader.pc = "done"
    PROVE  /\ reader # NoReader /\ Reads(reader) /\ reader.sample \in SampleSet /\ Past(reader.sample)
           /\ reader.next \in Nat /\ reader.next > Groups + 1 /\ reader.next > Groups + 2
  <1>1. reader # NoReader /\ Reads(reader)
    BY DEF ReadInv, NoReader
  <1>2. reader \in ReaderSet /\ Placed(reader) /\ Past(reader.sample)
    BY <1>1 DEF Reads
  <1>3. reader.sample \in SampleSet /\ reader.cycle \in BOOLEAN /\ reader.next \in Nat
    BY <1>2 DEF ReaderSet
  <1>4. reader.next = Len(ReadPlan(reader.cycle)) + 1
    BY <1>2 DEF Placed
  <1> QED
    BY <1>1, <1>2, <1>3, <1>4, PlanLength

LEMMA CommitReads == ASSUME StockInv, ReadInv, CommitCycle PROVE ReadInv'
  <1>1. /\ reader.pc = "done" /\ previous' = reader.sample /\ reader' = NoReader
        /\ UNCHANGED <<classCounters, owner>>
    BY DEF CommitCycle, counted
  <1>2. reader.sample \in SampleSet /\ Past(reader.sample)
    BY <1>1, DoneIs
  <1>3. Past(reader.sample) => Past(previous)'
    BY <1>1 DEF Past, Now
  <1> QED
    BY <1>1, <1>2, <1>3 DEF ReadInv

LEMMA DiscardReads == ASSUME StockInv, ReadInv, Discard PROVE ReadInv'
  <1>1. reader' = NoReader /\ UNCHANGED <<previous, classCounters, owner>>
    BY DEF Discard, counted
  <1>2. Past(previous) => Past(previous)'
    BY <1>1 DEF Past, Now
  <1> QED
    BY <1>1, <1>2 DEF ReadInv

LEMMA OthersCommitReads == ASSUME StockInv, ReadInv, CommitOthers PROVE ReadInv'
  <1>1. /\ reader' = NoReader /\ previous' = EmptySample
        /\ UNCHANGED <<classCounters, owner>>
    BY DEF CommitOthers, counted
  <1>2. EmptySample \in SampleSet /\ Past(EmptySample)
    BY EmptyIs
  <1>3. Past(EmptySample) => Past(previous)'
    BY <1>1 DEF Past, Now
  <1> QED
    BY <1>1, <1>2, <1>3 DEF ReadInv

LEMMA ReadInit == ASSUME TelemetryInit PROVE ReadInv
  <1>1. reader = NoReader /\ previous = EmptySample
    BY DEF TelemetryInit
  <1> QED
    BY <1>1, StockInit, EmptyIs DEF ReadInv

LEMMA OthersLeaveReader ==
    ASSUME NEW t \in Threads, Call(t) \/ Advance(t) PROVE UNCHANGED <<reader, previous, windowed>>
  <1>1. Call(t) => UNCHANGED reading
    BY DEF Call, StartGet, StartClear, StartPut, Trim
  <1>2. Advance(t) => UNCHANGED reading
    BY DEF Advance, Probe, ClassGet, Allocate, ClassAllocation, Refuse, TryRetain, ClassPut, ClassTrim,
           ClearShard, ClassClear
  <1> QED
    BY <1>1, <1>2 DEF reading

LEMMA ReadNext == ASSUME StockInv, StockInv', PutInv, ReadInv, TelemetryNext PROVE ReadInv'
  <1>1. ASSUME UNCHANGED <<reader, previous>> PROVE ReadInv'
    BY <1>1, CountersGrow, OthersRead
  <1>2. CASE \E t \in Threads : Call(t) \/ Advance(t)
    BY <1>1, <1>2, OthersLeaveReader
  <1>3. CASE Read
    <2>1. TRUE \in BOOLEAN /\ FALSE \in BOOLEAN
      OBVIOUS
    <2> QED
      BY <1>3, <2>1, StartReads, LoadNextReads, CommitReads, OthersCommitReads, DiscardReads DEF Read
  <1>4. CASE Quiet
    BY <1>1, <1>4 DEF Quiet, telemetryVars, reading
  <1> QED
    BY <1>2, <1>3, <1>4 DEF TelemetryNext

LEMMA ReadAlways == TelemetrySpec => []ReadInv
  <1>1. ASSUME ReadInv, UNCHANGED telemetryVars PROVE ReadInv'
    <2>1. UNCHANGED <<reader, previous, classCounters, owner>>
      BY <1>1 DEF telemetryVars, counted, reading
    <2>2. \A s : Past(s) => Past(s)'
      BY <2>1 DEF Past, Now
    <2> QED
      BY <1>1, <2>1, <2>2 DEF ReadInv, Reads
  <1> QED
    BY <1>1, ReadInit, ReadNext, StockAlways, PutAlways, PTL DEF TelemetrySpec

(* No sample of a Pool has an outcome of a class without the put it belongs to, however the    *)
(* loads of the reader fall between the steps of the returns: the owner counts a put before     *)
(* anything else and is loaded after the classes (pool_put.go:97, pool_sample.go:65-79).        *)
THEOREM OutcomesSampledWerePut == TelemetrySpec => []SampledOutcomesWerePut
  <1>1. ASSUME ReadInv PROVE SampledOutcomesWerePut
    BY <1>1, DoneIs DEF SampledOutcomesWerePut, Reads, PutsFirst
  <1> QED
    BY <1>1, ReadAlways, PTL

-----------------------------------------------------------------------------
(* Windows: arithmetic modulo the modulus of a counter *)

LEMMA ModIs ==
    ASSUME NEW M \in Nat \ {0}, NEW a \in Int
    PROVE  a % M \in 0 .. M - 1 /\ a = M * (a \div M) + (a % M) /\ a \div M \in Int
  OBVIOUS

LEMMA ModUnique ==
    ASSUME NEW M \in Nat \ {0}, NEW q \in Int, NEW r \in 0 .. M - 1 PROVE (M * q + r) % M = r
  OBVIOUS

LEMMA ModSmall == ASSUME NEW M \in Nat \ {0}, NEW a \in Nat PROVE a % M = a <=> a < M
  OBVIOUS

(* To add the distance from b to c leads from b to c. *)
LEMMA ModAdds ==
    ASSUME NEW M \in Nat \ {0}, NEW a \in Nat, NEW b \in 0 .. M - 1, NEW c \in 0 .. M - 1, a % M = b
    PROVE  (a + ((c - b) % M)) % M = c
  <1>1. PICK d : d = (c - b) % M
    OBVIOUS
  <1>2. PICK q, j : q = a \div M /\ j = (c - b) \div M
    OBVIOUS
  <1>3. q \in Int /\ a = M * q + b
    BY <1>2, ModIs
  <1>4. j \in Int /\ d \in Int /\ c - b = M * j + d
    BY <1>1, <1>2, ModIs
  <1>5. a + d = M * (q - j) + c
    BY <1>3, <1>4
  <1>6. q - j \in Int
    BY <1>3, <1>4
  <1>7. (M * (q - j) + c) % M = c
    BY <1>6, ModUnique
  <1> QED
    BY <1>1, <1>5, <1>7

LEMMA LoadIs ==
    ASSUME NEW a \in Amounts
    PROVE  /\ Load(a) \in Amounts /\ Load(a).count = a.count % Modulus /\ Load(a).bytes = a.bytes % Modulus
           /\ Load(a).count \in 0 .. Modulus - 1 /\ Load(a).bytes \in 0 .. Modulus - 1
           /\ Load(a) = a <=> a.count < Modulus /\ a.bytes < Modulus
  <1>1. Modulus \in Nat \ {0}
    BY ModulusAssumption
  <1>2. a.count \in Nat /\ a.bytes \in Nat
    BY DEF Amounts
  <1>3. PICK n, m : n = a.count % Modulus /\ m = a.bytes % Modulus
    OBVIOUS
  <1>4. n \in 0 .. Modulus - 1 /\ m \in 0 .. Modulus - 1
    BY <1>1, <1>2, <1>3, ModIs
  <1>5. n \in Nat /\ m \in Nat
    BY <1>1, <1>4
  <1>6. Load(a) = Amount(n, m)
    BY <1>3 DEF Load
  <1>7. Load(a) \in Amounts /\ Load(a).count = n /\ Load(a).bytes = m
    BY <1>5, <1>6 DEF Amount, Amounts
  <1>8. Load(a) = a <=> n = a.count /\ m = a.bytes
    BY <1>7, SameAmount
  <1>9. (n = a.count <=> a.count < Modulus) /\ (m = a.bytes <=> a.bytes < Modulus)
    BY <1>1, <1>2, <1>3, ModSmall
  <1> QED
    BY <1>3, <1>4, <1>7, <1>8, <1>9

(* The windows of a class, added up: a stands at p and goes on with the window from p to c. *)
LEMMA ClassWindowAdds ==
    ASSUME NEW a \in Amounts, NEW p \in Amounts, NEW c \in Amounts, Load(a) = Load(p)
    PROVE  /\ Plus(a, WrappedDelta(Load(p), Load(c))) \in Amounts
           /\ Load(Plus(a, WrappedDelta(Load(p), Load(c)))) = Load(c)
  <1>1. Modulus \in Nat \ {0}
    BY ModulusAssumption
  <1>2. PICK lp, lc : lp = Load(p) /\ lc = Load(c)
    OBVIOUS
  <1>3. /\ lp.count \in 0 .. Modulus - 1 /\ lp.bytes \in 0 .. Modulus - 1
        /\ lc.count \in 0 .. Modulus - 1 /\ lc.bytes \in 0 .. Modulus - 1
        /\ a.count % Modulus = lp.count /\ a.bytes % Modulus = lp.bytes /\ lc \in Amounts
    BY <1>2, LoadIs
  <1>4. PICK n, m : n = (lc.count - lp.count) % Modulus /\ m = (lc.bytes - lp.bytes) % Modulus
    OBVIOUS
  <1>5. n \in Nat /\ m \in Nat
    <2>1. lc.count - lp.count \in Int /\ lc.bytes - lp.bytes \in Int
      BY <1>1, <1>3
    <2>2. n \in 0 .. Modulus - 1 /\ m \in 0 .. Modulus - 1
      BY <1>1, <1>4, <2>1, ModIs
    <2> QED
      BY <1>1, <2>2
  <1>6. PICK w : w = WrappedDelta(lp, lc)
    OBVIOUS
  <1>7. w \in Amounts /\ w.count = n /\ w.bytes = m
    BY <1>4, <1>5, <1>6 DEF WrappedDelta, Amount, Amounts
  <1>8. PICK z : z = Plus(a, w)
    OBVIOUS
  <1>9. z \in Amounts /\ z.count = a.count + n /\ z.bytes = a.bytes + m
    BY <1>7, <1>8, PlusIs
  <1>10. a.count \in Nat /\ a.bytes \in Nat
    BY DEF Amounts
  <1>11. (a.count + n) % Modulus = lc.count
    BY <1>1, <1>3, <1>4, <1>10, ModAdds
  <1>12. (a.bytes + m) % Modulus = lc.bytes
    BY <1>1, <1>3, <1>4, <1>10, ModAdds
  <1>13. Load(z) \in Amounts /\ Load(z).count = lc.count /\ Load(z).bytes = lc.bytes
    BY <1>9, <1>11, <1>12, LoadIs
  <1>14. Load(z) = lc
    BY <1>3, <1>13, SameAmount
  <1> QED
    BY <1>2, <1>6, <1>8, <1>9, <1>14

(* What a sample says its Pool has counted, before it wraps *)
SumOf(s, k) == Total([i \in Classes |-> s.totals[i][k]])
AllOf(s, k) ==
    CASE k = "put"  -> s.owner.put
      [] k = "drop" -> Plus(SumOf(s, k), s.owner.drop)
      [] OTHER      -> SumOf(s, k)

LEMMA WrappedIs == ASSUME NEW s, NEW k PROVE Wrapped(s, k) <=> Load(AllOf(s, k)) # AllOf(s, k)
  BY DEF Wrapped, AllOf, SumOf

LEMMA AllIs ==
    ASSUME NEW s \in SampleSet, NEW k \in Kinds
    PROVE  /\ [i \in Classes |-> s.totals[i][k]] \in [Classes -> Amounts]
           /\ SumOf(s, k) \in Amounts /\ AllOf(s, k) \in Amounts
  <1>1. PICK f : f = [i \in Classes |-> s.totals[i][k]]
    OBVIOUS
  <1>2. f \in [Classes -> Amounts]
    BY <1>1, SampleIs
  <1>3. SumOf(s, k) = Total(f)
    BY <1>1 DEF SumOf
  <1>4. SumOf(s, k) \in Amounts
    BY <1>2, <1>3, ClassesFinite, TotalIs
  <1>5. s.owner.put \in Amounts /\ s.owner.drop \in Amounts
    BY SampleIs
  <1>6. Plus(SumOf(s, k), s.owner.drop) \in Amounts
    BY <1>4, <1>5, PlusIs
  <1> QED
    BY <1>1, <1>2, <1>4, <1>5, <1>6 DEF AllOf

(* A total is monotone, and no term of it is above it. *)
LEMMA TotalMonotone ==
    ASSUME NEW S, IsFiniteSet(S), NEW f \in [S -> Amounts], NEW g \in [S -> Amounts],
           \A x \in S : AtMost(f[x], g[x])
    PROVE  AtMost(Total(f), Total(g))
  <1>1. PICK fn, fm : fn = [x \in S |-> f[x].count] /\ fm = [x \in S |-> f[x].bytes]
    OBVIOUS
  <1>2. PICK gn, gm : gn = [x \in S |-> g[x].count] /\ gm = [x \in S |-> g[x].bytes]
    OBVIOUS
  <1>3. ASSUME NEW x \in S
        PROVE  /\ fn[x] \in Nat /\ gn[x] \in Nat /\ fn[x] <= gn[x]
               /\ fm[x] \in Nat /\ gm[x] \in Nat /\ fm[x] <= gm[x]
    <2>1. f[x] \in Amounts /\ g[x] \in Amounts /\ AtMost(f[x], g[x])
      OBVIOUS
    <2> QED
      BY <1>1, <1>2, <2>1 DEF AtMost, Amounts
  <1>4. SumFunctionOnSet(fn, S) <= SumFunctionOnSet(gn, S)
    BY <1>3, SumMonotone
  <1>5. SumFunctionOnSet(fm, S) <= SumFunctionOnSet(gm, S)
    BY <1>3, SumMonotone
  <1> QED
    BY <1>1, <1>2, <1>4, <1>5, TotalIs DEF AtMost

LEMMA TermAtMost ==
    ASSUME NEW S, IsFiniteSet(S), NEW f \in [S -> Amounts], NEW x \in S
    PROVE  AtMost(f[x], Total(f))
  <1>1. PICK n, m : n = [y \in S |-> f[y].count] /\ m = [y \in S |-> f[y].bytes]
    OBVIOUS
  <1>2. \A y \in S : n[y] \in Nat /\ m[y] \in Nat
    BY <1>1 DEF Amounts
  <1>3. SumFunctionOnSet(n, S) = n[x] + SumFunctionOnSet(n, S \ {x}) /\ SumFunctionOnSet(n, S \ {x}) \in Nat
    BY <1>2, SumElement
  <1>4. SumFunctionOnSet(m, S) = m[x] + SumFunctionOnSet(m, S \ {x}) /\ SumFunctionOnSet(m, S \ {x}) \in Nat
    BY <1>2, SumElement
  <1>5. Total(f).count = SumFunctionOnSet(n, S) /\ Total(f).bytes = SumFunctionOnSet(m, S)
    BY <1>1, TotalIs
  <1>6. n[x] = f[x].count /\ m[x] = f[x].bytes /\ n[x] \in Nat /\ m[x] \in Nat
    BY <1>1, <1>2
  <1> QED
    BY <1>3, <1>4, <1>5, <1>6 DEF AtMost

(* What is not above an amount that does not wrap does not wrap either. *)
LEMMA BelowFits ==
    ASSUME NEW a \in Amounts, NEW b \in Amounts, AtMost(a, b), Load(b) = b
    PROVE  Load(a) = a
  <1>1. b.count < Modulus /\ b.bytes < Modulus
    BY LoadIs
  <1>2. a.count < Modulus /\ a.bytes < Modulus
    BY <1>1, ModulusAssumption DEF AtMost, Amounts
  <1> QED
    BY <1>2, LoadIs

(* The totals of a sample wrap the events of its classes and their sum. *)
LoadedSum(s, k) == Load(Total([i \in Classes |-> Load(s.totals[i][k])]))

LEMMA EventsOf ==
    ASSUME NEW s \in SampleSet, NEW k \in Kinds
    PROVE  TotalsOf(s).events[k] =
             IF k = "put" THEN Load(s.owner.put)
             ELSE IF k = "drop" THEN Load(Plus(LoadedSum(s, "drop"), s.owner.drop))
             ELSE LoadedSum(s, k)
  <1>1. PICK all : all = [i \in Classes |-> FromClass(s.totals[i], Nothing)]
    OBVIOUS
  <1>2. DOMAIN s.totals = Classes
    BY SampleIs
  <1>3. PICK sum : sum = PoolCountersSum(all)
    OBVIOUS
  <1>4. TotalsOf(s) = ApplyOwner(sum, s.owner)
    BY <1>1, <1>2, <1>3 DEF TotalsOf, PoolTotals
  <1>5. \A i \in Classes, j \in Kinds : all[i].events[j] = Load(s.totals[i][j])
    BY <1>1 DEF FromClass, PoolCounters
  <1>6. PICK ev, cu, re : /\ ev = [j \in Kinds |-> Load(Total([i \in DOMAIN all |-> all[i].events[j]]))]
                          /\ cu = Load(Total([i \in DOMAIN all |-> all[i].current])) /\ re = NoReasons
    OBVIOUS
  <1>7. sum = [events |-> ev, current |-> cu, reasons |-> re]
    BY <1>3, <1>6 DEF PoolCountersSum, PoolCounters
  <1>8. DOMAIN all = Classes
    BY <1>1
  <1>9. \A j \in Kinds : ev[j] = LoadedSum(s, j)
    <2>1. SUFFICES ASSUME NEW j \in Kinds PROVE ev[j] = LoadedSum(s, j)
      OBVIOUS
    <2>2. [i \in DOMAIN all |-> all[i].events[j]] = [i \in Classes |-> Load(s.totals[i][j])]
      BY <1>5, <1>8
    <2> QED
      BY <1>6, <2>2 DEF LoadedSum
  <1>10. TotalsOf(s).events = [ev EXCEPT !["put"] = Load(s.owner.put), !["drop"] = Load(Plus(@, s.owner.drop))]
    <2>1. sum.events = ev /\ sum.reasons = re
      BY <1>7
    <2>2. TotalsOf(s) = [sum EXCEPT !.events = OwnerEvents(ev, s.owner), !.reasons = ReasonsAdd(re, s.owner.reasons)]
      BY <1>4, <2>1 DEF ApplyOwner
    <2>3. TotalsOf(s).events = OwnerEvents(ev, s.owner)
      BY <1>7, <2>2
    <2> QED
      BY <2>3 DEF OwnerEvents
  <1>11. DOMAIN ev = Kinds /\ "put" \in Kinds /\ "drop" \in Kinds
    BY <1>6, KindsAre
  <1> QED
    BY <1>9, <1>10, <1>11

(* A sum that does not wrap is the sum of what was loaded. *)
LEMMA LoadedSumIs ==
    ASSUME NEW s \in SampleSet, NEW k \in Kinds, Load(SumOf(s, k)) = SumOf(s, k)
    PROVE  LoadedSum(s, k) = SumOf(s, k)
  <1>1. PICK f : f = [i \in Classes |-> s.totals[i][k]]
    OBVIOUS
  <1>2. f \in [Classes -> Amounts] /\ SumOf(s, k) = Total(f) /\ Total(f) \in Amounts
    BY <1>1, AllIs DEF SumOf
  <1>3. ASSUME NEW i \in Classes PROVE Load(s.totals[i][k]) = f[i]
    <2>1. AtMost(f[i], Total(f))
      BY <1>2, ClassesFinite, TermAtMost
    <2>2. f[i] \in Amounts /\ f[i] = s.totals[i][k]
      BY <1>1, <1>2
    <2>3. Load(f[i]) = f[i]
      BY <1>2, <2>1, <2>2, BelowFits
    <2> QED
      BY <2>2, <2>3
  <1>4. [i \in Classes |-> Load(s.totals[i][k])] = f
    BY <1>1, <1>3
  <1>5. LoadedSum(s, k) = Load(Total(f))
    BY <1>4 DEF LoadedSum
  <1> QED
    BY <1>2, <1>5

LEMMA EventsAre ==
    ASSUME NEW s \in SampleSet, NEW k \in Kinds, ~Wrapped(s, k)
    PROVE  TotalsOf(s).events[k] = AllOf(s, k) /\ Load(AllOf(s, k)) = AllOf(s, k)
  <1>1. Load(AllOf(s, k)) = AllOf(s, k)
    BY WrappedIs
  <1>2. SumOf(s, k) \in Amounts /\ AllOf(s, k) \in Amounts /\ s.owner.drop \in Amounts
    BY AllIs, SampleIs
  <1>3. CASE k = "put"
    BY <1>1, <1>3, EventsOf DEF AllOf
  <1>4. CASE k = "drop"
    <2>1. AllOf(s, k) = Plus(SumOf(s, k), s.owner.drop)
      BY <1>4 DEF AllOf
    <2>2. AtMost(SumOf(s, k), AllOf(s, k))
      BY <1>2, <2>1, AtMostMore
    <2>3. Load(SumOf(s, k)) = SumOf(s, k)
      BY <1>1, <1>2, <2>2, BelowFits
    <2>4. LoadedSum(s, k) = SumOf(s, k)
      BY <2>3, LoadedSumIs
    <2>5. TotalsOf(s).events[k] = Load(Plus(LoadedSum(s, k), s.owner.drop))
      BY <1>4, EventsOf
    <2> QED
      BY <1>1, <2>1, <2>4, <2>5
  <1>5. CASE k # "put" /\ k # "drop"
    <2>1. AllOf(s, k) = SumOf(s, k)
      BY <1>5 DEF AllOf
    <2>2. LoadedSum(s, k) = SumOf(s, k)
      BY <1>1, <2>1, LoadedSumIs
    <2>3. TotalsOf(s).events[k] = LoadedSum(s, k)
      BY <1>5, EventsOf
    <2> QED
      BY <1>1, <2>1, <2>2, <2>3
  <1> QED
    BY <1>3, <1>4, <1>5

LEMMA AllBelow ==
    ASSUME NEW p \in SampleSet, NEW s \in SampleSet, Below(p, s), NEW k \in Kinds
    PROVE  AtMost(AllOf(p, k), AllOf(s, k))
  <1>1. AtMost(SumOf(p, k), SumOf(s, k))
    <2>1. PICK f, g : f = [i \in Classes |-> p.totals[i][k]] /\ g = [i \in Classes |-> s.totals[i][k]]
      OBVIOUS
    <2>2. f \in [Classes -> Amounts] /\ g \in [Classes -> Amounts]
      BY <2>1, AllIs
    <2>3. \A i \in Classes : AtMost(f[i], g[i])
      BY <2>1 DEF Below, EventsAtMost
    <2>4. AtMost(Total(f), Total(g))
      BY <2>2, <2>3, ClassesFinite, TotalMonotone
    <2> QED
      BY <2>1, <2>4 DEF SumOf
  <1>2. AtMost(p.owner.put, s.owner.put) /\ AtMost(p.owner.drop, s.owner.drop)
    BY DEF Below
  <1>3. AtMost(Plus(SumOf(p, k), p.owner.drop), Plus(SumOf(s, k), s.owner.drop))
    <2>1. PICK a, b, c, d : a = SumOf(p, k) /\ b = p.owner.drop /\ c = SumOf(s, k) /\ d = s.owner.drop
      OBVIOUS
    <2>2. a \in Amounts /\ b \in Amounts /\ c \in Amounts /\ d \in Amounts
      BY <2>1, AllIs, SampleIs
    <2>3. AtMost(a, c) /\ AtMost(b, d)
      BY <1>1, <1>2, <2>1
    <2>4. Plus(a, b).count = a.count + b.count /\ Plus(a, b).bytes = a.bytes + b.bytes
      BY <2>2, PlusIs
    <2>5. Plus(c, d).count = c.count + d.count /\ Plus(c, d).bytes = c.bytes + d.bytes
      BY <2>2, PlusIs
    <2>6. AtMost(Plus(a, b), Plus(c, d))
      BY <2>2, <2>3, <2>4, <2>5 DEF AtMost, Amounts
    <2> QED
      BY <2>1, <2>6
  <1>4. CASE k = "put"
    BY <1>2, <1>4 DEF AllOf
  <1>5. CASE k = "drop"
    BY <1>3, <1>5 DEF AllOf
  <1>6. CASE k # "put" /\ k # "drop"
    BY <1>1, <1>6 DEF AllOf
  <1> QED
    BY <1>4, <1>5, <1>6

(* A read that has loaded all of its totals is not behind the sample before it. *)
LEMMA LoadedAll ==
    ASSUME NEW p \in SampleSet, NEW s \in SampleSet, NEW n \in Nat, n > Groups + 2, Covers(p, s, n)
    PROVE  Below(p, s)
  <1>1. Groups \in Nat /\ Len(ClassSizes) \in Nat
    BY GroupsAre
  <1>2. ASSUME NEW i \in Classes, NEW k \in Kinds PROVE AtMost(p.totals[i][k], s.totals[i][k])
    <2>1. PICK g \in 1 .. 3 : k \in LoadGroups[g]
      BY GroupsAre
    <2>2. PICK m : m = (i - 1) * 3 + g
      OBVIOUS
    <2>3. i \in Nat /\ i >= 1 /\ i <= Len(ClassSizes)
      BY <1>1, ClassesFinite
    <2>4. m \in 1 .. Groups /\ m \in Nat
      BY <1>1, <2>2, <2>3 DEF Groups
    <2>5. (m - 1) \div 3 = i - 1 /\ (m - 1) % 3 = g - 1
      BY <2>2, <2>3
    <2>6. ClassAt(m) = i /\ GroupAt(m) = LoadGroups[g]
      BY <2>3, <2>5 DEF ClassAt, GroupAt
    <2>7. m < n
      BY <1>1, <2>4
    <2> QED
      BY <2>1, <2>4, <2>6, <2>7 DEF Covers
  <1>3. n > Groups + 1
    BY <1>1
  <1> QED
    BY <1>2, <1>3 DEF Below, EventsAtMost, Covers

(* The window of a total that has not wrapped is what was counted in it. *)
ResetAmount(p, c) == Amount(ResetDelta(p.count, c.count), ResetDelta(p.bytes, c.bytes))

LEMMA ResetAdds ==
    ASSUME NEW p \in Amounts, NEW c \in Amounts, AtMost(p, c)
    PROVE  Plus(p, ResetAmount(p, c)) = c
  <1>1. /\ p.count \in Nat /\ p.bytes \in Nat /\ c.count \in Nat /\ c.bytes \in Nat
        /\ p.count <= c.count /\ p.bytes <= c.bytes
    BY DEF Amounts, AtMost
  <1>2. PICK n, m : n = c.count - p.count /\ m = c.bytes - p.bytes
    OBVIOUS
  <1>3. n \in Nat /\ m \in Nat
    BY <1>1, <1>2
  <1>4. PICK w : w = Amount(n, m)
    OBVIOUS
  <1>5. ResetAmount(p, c) = w
    BY <1>1, <1>2, <1>4 DEF ResetAmount, ResetDelta
  <1>6. w \in Amounts /\ w.count = n /\ w.bytes = m
    BY <1>3, <1>4 DEF Amount, Amounts
  <1>7. PICK z : z = Plus(p, w)
    OBVIOUS
  <1>8. z \in Amounts /\ z.count = p.count + n /\ z.bytes = p.bytes + m
    BY <1>6, <1>7, PlusIs
  <1>9. z.count = c.count /\ z.bytes = c.bytes
    BY <1>1, <1>2, <1>8
  <1> QED
    BY <1>5, <1>7, <1>8, <1>9, SameAmount

LEMMA WindowOfPool ==
    ASSUME NEW p \in SampleSet, NEW s \in SampleSet, Below(p, s), NEW k \in PoolDeltaKinds, ~Wrapped(s, k)
    PROVE  /\ ~Wrapped(p, k) /\ TotalsOf(s).events[k] \in Amounts
           /\ Plus(TotalsOf(p).events[k], ResetAmount(TotalsOf(p).events[k], TotalsOf(s).events[k]))
                = TotalsOf(s).events[k]
  <1>1. k \in Kinds
    BY KindsAre DEF PoolDeltaKinds
  <1>2. AllOf(p, k) \in Amounts /\ AllOf(s, k) \in Amounts
    BY <1>1, AllIs
  <1>3. TotalsOf(s).events[k] = AllOf(s, k) /\ Load(AllOf(s, k)) = AllOf(s, k)
    BY <1>1, EventsAre
  <1>4. AtMost(AllOf(p, k), AllOf(s, k))
    BY <1>1, AllBelow
  <1>5. Load(AllOf(p, k)) = AllOf(p, k)
    BY <1>2, <1>3, <1>4, BelowFits
  <1>6. ~Wrapped(p, k)
    BY <1>5, WrappedIs
  <1>7. TotalsOf(p).events[k] = AllOf(p, k)
    BY <1>1, <1>6, EventsAre
  <1>8. Plus(AllOf(p, k), ResetAmount(AllOf(p, k), AllOf(s, k))) = AllOf(s, k)
    BY <1>2, <1>4, ResetAdds
  <1> QED
    BY <1>2, <1>3, <1>6, <1>7, <1>8

-----------------------------------------------------------------------------
(* The windows of the committed cycles, added up *)

ClassWindowsAddUp ==
    \A i \in Classes, k \in Kinds :
        windowed.classes[i][k] \in Amounts /\ Load(windowed.classes[i][k]) = Load(previous.classes[i][k])
PoolWindowsAddUp ==
    \A k \in PoolDeltaKinds :
        ~Wrapped(previous, k) => windowed.pool[k] = TotalsOf(previous).events[k]
WindowInv == ClassWindowsAddUp /\ PoolWindowsAddUp

(* An empty sample has counted nothing, and so have no windows. *)
LEMMA EmptyCounts ==
    ASSUME EmptySample \in SampleSet
    PROVE  /\ \A i \in Classes, k \in Kinds : NoClasses[i][k] = Nothing
           /\ \A k \in PoolDeltaKinds : ~Wrapped(EmptySample, k) => TotalsOf(EmptySample).events[k] = Nothing
  <1>1. \A i \in Classes, k \in Kinds : NoClasses[i][k] = Nothing
    BY NewIs DEF NoClasses
  <1>2. ASSUME NEW k \in PoolDeltaKinds, ~Wrapped(EmptySample, k)
        PROVE  TotalsOf(EmptySample).events[k] = Nothing
    <2>1. k \in Kinds
      BY KindsAre DEF PoolDeltaKinds
    <2>2. TotalsOf(EmptySample).events[k] = AllOf(EmptySample, k)
      BY <1>2, <2>1, EventsAre
    <2>3. SumOf(EmptySample, k) = Nothing
      <3>1. [i \in Classes |-> EmptySample.totals[i][k]] = [i \in Classes |-> Nothing]
        BY <1>1, <2>1 DEF EmptySample
      <3> QED
        BY <3>1, ClassesFinite, TotalOfNothing DEF SumOf
    <2>4. EmptySample.owner.put = Nothing /\ EmptySample.owner.drop = Nothing
      BY DEF EmptySample, NewOwnerCounters
    <2>5. AllOf(EmptySample, k) = Nothing
      BY <2>3, <2>4, NothingIs, PlusNothing DEF AllOf
    <2> QED
      BY <2>2, <2>5
  <1> QED
    BY <1>1, <1>2

LEMMA WindowInit == ASSUME TelemetryInit PROVE WindowInv
  <1>1. previous = EmptySample /\ windowed = NoWindows
    BY DEF TelemetryInit
  <1>2. EmptySample \in SampleSet
    BY StockInit, EmptyIs
  <1>3. ClassWindowsAddUp
    BY <1>1, <1>2, EmptyCounts, NothingIs DEF ClassWindowsAddUp, EmptySample, NoWindows
  <1>4. PoolWindowsAddUp
    BY <1>1, <1>2, EmptyCounts DEF PoolWindowsAddUp, NoWindows
  <1> QED
    BY <1>3, <1>4 DEF WindowInv

LEMMA FirstCommit ==
    ASSUME ReadInv, CommitCycle, ~hasPrevious PROVE WindowInv'
  <1>1. PICK s : s = reader.sample
    OBVIOUS
  <1>2. previous' = s /\ reader.pc = "done"
    BY <1>1 DEF CommitCycle
  <1>3. s \in SampleSet
    BY <1>1, <1>2, DoneIs
  <1>4. windowed' = [classes |-> s.classes, pool |-> [k \in PoolDeltaKinds |-> TotalsOf(s).events[k]]]
    BY <1>1 DEF CommitCycle
  <1>5. ClassWindowsAddUp'
    BY <1>2, <1>3, <1>4, SampleIs DEF ClassWindowsAddUp
  <1>6. \A k \in PoolDeltaKinds : windowed'.pool[k] = TotalsOf(s).events[k]
    BY <1>4
  <1>7. TotalsOf(previous)' = TotalsOf(s)
    BY <1>2 DEF TotalsOf
  <1>8. PoolWindowsAddUp'
    BY <1>6, <1>7 DEF PoolWindowsAddUp
  <1> QED
    BY <1>5, <1>8 DEF WindowInv

LEMMA LaterCommit ==
    ASSUME ReadInv, WindowInv, CommitCycle, hasPrevious PROVE WindowInv'
  <1>1. PICK s, p : s = reader.sample /\ p = previous
    OBVIOUS
  <1>2. previous' = s /\ reader.pc = "done"
    BY <1>1 DEF CommitCycle
  <1>3. s \in SampleSet /\ p \in SampleSet
    BY <1>1, <1>2, DoneIs DEF ReadInv
  <1>4. Below(p, s)
    <2>1. reader.next \in Nat /\ reader.next > Groups + 2
      BY <1>2, DoneIs
    <2>2. Covers(p, s, reader.next)
      BY <1>1, <1>2, DoneIs DEF Reads
    <2> QED
      BY <1>3, <2>1, <2>2, LoadedAll
  <1>5. windowed' = Accumulated(s)
    BY <1>1 DEF CommitCycle
  <1>6. Since(s) = p
    BY <1>1 DEF Since
  <1>7. ASSUME NEW i \in Classes, NEW k \in Kinds
        PROVE  windowed'.classes[i][k] \in Amounts /\ Load(windowed'.classes[i][k]) = Load(s.classes[i][k])
    <2>1. PICK a, c, d : a = windowed.classes[i][k] /\ c = p.classes[i][k] /\ d = s.classes[i][k]
      OBVIOUS
    <2>2. a \in Amounts /\ c \in Amounts /\ d \in Amounts
      BY <1>1, <1>3, <2>1, SampleIs DEF WindowInv, ClassWindowsAddUp
    <2>3. Load(a) = Load(c)
      BY <1>1, <2>1 DEF WindowInv, ClassWindowsAddUp
    <2>4. ClassWindows(s)[i][k] = WrappedDelta(Load(c), Load(d))
      BY <1>6, <2>1 DEF ClassWindows, ClassDelta
    <2>5. windowed'.classes[i][k] = Plus(a, WrappedDelta(Load(c), Load(d)))
      BY <1>5, <2>1, <2>4 DEF Accumulated
    <2> QED
      BY <2>1, <2>2, <2>3, <2>5, ClassWindowAdds
  <1>8. ASSUME NEW k \in PoolDeltaKinds, ~Wrapped(s, k)
        PROVE  windowed'.pool[k] = TotalsOf(s).events[k]
    <2>1. PICK a, c, d : a = windowed.pool[k] /\ c = TotalsOf(p).events[k] /\ d = TotalsOf(s).events[k]
      OBVIOUS
    <2>2. ~Wrapped(p, k) /\ Plus(c, ResetAmount(c, d)) = d
      BY <1>3, <1>4, <1>8, <2>1, WindowOfPool
    <2>3. a = c
      BY <1>1, <2>1, <2>2 DEF WindowInv, PoolWindowsAddUp
    <2>4. PoolWindow(s).events[k] = ResetAmount(c, d)
      BY <1>6, <2>1 DEF PoolWindow, PoolDelta, ResetAmount
    <2>5. windowed'.pool[k] = Plus(a, ResetAmount(c, d))
      BY <1>5, <2>1, <2>4 DEF Accumulated
    <2> QED
      BY <2>1, <2>2, <2>3, <2>5
  <1>9. ClassWindowsAddUp'
    BY <1>2, <1>7 DEF ClassWindowsAddUp
  <1>10. TotalsOf(previous)' = TotalsOf(s) /\ \A k : Wrapped(previous, k)' = Wrapped(s, k)
    BY <1>2 DEF TotalsOf, Wrapped
  <1>11. PoolWindowsAddUp'
    BY <1>8, <1>10 DEF PoolWindowsAddUp
  <1> QED
    BY <1>9, <1>11 DEF WindowInv

LEMMA WindowStands == ASSUME WindowInv, UNCHANGED <<previous, windowed>> PROVE WindowInv'
  <1>1. TotalsOf(previous)' = TotalsOf(previous) /\ \A k : Wrapped(previous, k)' = Wrapped(previous, k)
    BY DEF TotalsOf, Wrapped
  <1> QED
    BY <1>1 DEF WindowInv, ClassWindowsAddUp, PoolWindowsAddUp

LEMMA PassedOver == ASSUME StockInv, CommitOthers PROVE WindowInv'
  <1>1. previous' = EmptySample /\ windowed' = NoWindows
    BY DEF CommitOthers
  <1>2. EmptySample \in SampleSet
    BY EmptyIs
  <1>3. ClassWindowsAddUp'
    BY <1>1, <1>2, EmptyCounts, NothingIs DEF ClassWindowsAddUp, EmptySample, NoWindows
  <1>4. TotalsOf(previous)' = TotalsOf(EmptySample) /\ \A k : Wrapped(previous, k)' = Wrapped(EmptySample, k)
    BY <1>1 DEF TotalsOf, Wrapped
  <1>5. PoolWindowsAddUp'
    BY <1>1, <1>2, <1>4, EmptyCounts DEF PoolWindowsAddUp, NoWindows
  <1> QED
    BY <1>3, <1>5 DEF WindowInv

LEMMA WindowNext == ASSUME StockInv, ReadInv, WindowInv, TelemetryNext PROVE WindowInv'
  <1>1. CASE \E t \in Threads : Call(t) \/ Advance(t)
    BY <1>1, OthersLeaveReader, WindowStands
  <1>2. CASE CommitCycle
    BY <1>2, FirstCommit, LaterCommit
  <1>3. CASE StartRead(TRUE) \/ StartRead(FALSE) \/ LoadNext \/ Discard
    BY <1>3, WindowStands DEF StartRead, LoadNext, Discard
  <1>5. CASE CommitOthers
    BY <1>5, PassedOver
  <1>4. CASE Quiet
    BY <1>4, WindowStands DEF Quiet, telemetryVars, reading
  <1> QED
    BY <1>1, <1>2, <1>3, <1>4, <1>5 DEF TelemetryNext, Read

LEMMA WindowAlways == TelemetrySpec => []WindowInv
  <1>1. ASSUME WindowInv, UNCHANGED telemetryVars PROVE WindowInv'
    BY <1>1, WindowStands DEF telemetryVars, reading
  <1> QED
    BY <1>1, WindowInit, WindowNext, StockAlways, ReadAlways, PTL DEF TelemetrySpec

(* From the sample after a cycle that left the Pool out, or from the first, the windows of the   *)
(* committed cycles add up to what the last sample has counted, whatever was torn in a sample or   *)
(* lost with a cycle that failed: those of the classes across the wrap, and those of the Pool until *)
(* a total wraps, since no total of a later sample is below that of an earlier one               *)
(* (partition_window.go:225, 272, 287, class_counters.go:467, partition_controller_commit.go:41).  *)
THEOREM WindowsOfCyclesAddUp == TelemetrySpec => []WindowsAddUp
  <1>1. ASSUME WindowInv PROVE WindowsAddUp
    BY <1>1 DEF WindowInv, ClassWindowsAddUp, PoolWindowsAddUp, WindowsAddUp
  <1> QED
    BY <1>1, WindowAlways, PTL

-----------------------------------------------------------------------------
(* Stacks of buffers: the uppermost and the others *)

LEMMA BytesConcat ==
    ASSUME NEW s \in Seq(Nat), NEW t \in Seq(Nat)
    PROVE  BytesOf(s \o t) = BytesOf(s) + BytesOf(t)
  <1> DEFINE Fails(n) == \E u \in Seq(Nat) : Len(u) = n /\ BytesOf(s \o u) # BytesOf(s) + BytesOf(u)
             W == {n \in Nat : Fails(n)}
  <1>1. ASSUME W # {} PROVE FALSE
    <2>1. PICK n \in W : \A j \in W : n <= j
      <3>1. W \in SUBSET Nat
        OBVIOUS
      <3> HIDE DEF W
      <3> QED
        BY <1>1, <3>1, LeastExists
    <2>2. PICK u \in Seq(Nat) : Len(u) = n /\ BytesOf(s \o u) # BytesOf(s) + BytesOf(u)
      BY <2>1
    <2>3. CASE u = <<>>
      <3>1. s \o u = s /\ BytesOf(u) = 0 /\ BytesOf(s) \in Nat
        BY <2>3, ConcatEmptySeq, OfNothing, BytesAppend
      <3> QED
        BY <2>2, <3>1
    <2>4. CASE u # <<>>
      <3>1. PICK v, e : v = Front(u) /\ e = Last(u)
        OBVIOUS
      <3>2. v \in Seq(Nat) /\ e \in Nat /\ u = Append(v, e) /\ Len(u) = Len(v) + 1 /\ Len(v) \in Nat
        BY <2>4, <3>1, SplitLast
      <3>3. BytesOf(s \o v) = BytesOf(s) + BytesOf(v)
        BY <2>1, <2>2, <3>2
      <3>4. s \o u = Append(s \o v, e) /\ s \o v \in Seq(Nat)
        BY <3>2, ConcatAppend
      <3>5. /\ BytesOf(u) = BytesOf(v) + e /\ BytesOf(s \o u) = BytesOf(s \o v) + e
            /\ BytesOf(s) \in Nat /\ BytesOf(v) \in Nat
        BY <3>2, <3>4, BytesAppend
      <3> QED
        BY <2>2, <3>2, <3>3, <3>5
    <2> QED
      BY <2>3, <2>4
  <1>2. Len(t) \in Nat
    BY LenProperties
  <1> QED
    BY <1>1, <1>2

(* A stack is what is below its n uppermost buffers, and these. *)
LEMMA Uppermost ==
    ASSUME NEW s \in Seq(Capacity), NEW n \in 0 .. Len(s)
    PROVE  /\ Storage!Without(s, n) \in Seq(Capacity) /\ Len(Storage!Without(s, n)) = Len(s) - n
           /\ \A i \in 1 .. Len(s) - n : Storage!Without(s, n)[i] = s[i]
           /\ BytesOf(Storage!Without(s, n)) \in Nat /\ BytesOf(Storage!Top(s, n)) \in Nat
           /\ BytesOf(s) = BytesOf(Storage!Without(s, n)) + BytesOf(Storage!Top(s, n))
  <1>1. PICK m, u, v : m = Len(s) /\ u = SubSeq(s, 1, m - n) /\ v = SubSeq(s, m - n + 1, m)
    OBVIOUS
  <1>2. u = Storage!Without(s, n) /\ v = Storage!Top(s, n)
    BY <1>1 DEF Storage!Without, Storage!Top
  <1>3. m \in Nat /\ n \in 0 .. m
    BY <1>1, LenProperties
  <1>4. u \in Seq(Capacity) /\ Len(u) = m - n /\ \A i \in 1 .. m - n : u[i] = s[i]
    <2>1. \A i \in 1 .. m - n : s[i] \in Capacity
      BY <1>1, <1>3, ElementOfSeq
    <2>2. u = [i \in 1 .. m - n |-> s[i]]
      BY <1>1, <1>3
    <2>3. u \in [1 .. m - n -> Capacity] /\ m - n \in Nat
      BY <1>3, <2>1, <2>2
    <2> QED
      BY <2>2, <2>3, SeqDef
  <1>5. v \in Seq(Capacity) /\ Len(v) = n /\ \A i \in 1 .. n : v[i] = s[m - n + i]
    <2>1. \A i \in 1 .. n : s[m - n + i] \in Capacity
      <3>1. \A i \in 1 .. n : m - n + i \in 1 .. m
        BY <1>3
      <3> QED
        BY <1>1, <3>1, ElementOfSeq
    <2>2. v = [i \in 1 .. n |-> s[m - n + i]]
      <3>1. v = [i \in 1 .. m - (m - n + 1) + 1 |-> s[i + (m - n + 1) - 1]]
        BY <1>1, <1>3
      <3>2. m - (m - n + 1) + 1 = n /\ \A i \in 1 .. n : i + (m - n + 1) - 1 = m - n + i
        BY <1>3
      <3> QED
        BY <3>1, <3>2
    <2>3. n \in Nat
      BY <1>3
    <2>4. \A i \in 1 .. n : v[i] \in Capacity /\ v[i] = s[m - n + i]
      BY <2>1, <2>2
    <2>5. v \in [1 .. n -> Capacity]
      BY <2>2, <2>4
    <2> QED
      BY <2>3, <2>4, <2>5, SeqDef
  <1>6. u \o v = s
    <2>1. PICK w : w = u \o v
      OBVIOUS
    <2>2. /\ w \in Seq(Capacity) /\ Len(w) = m
          /\ \A i \in 1 .. m : w[i] = IF i <= m - n THEN u[i] ELSE v[i - (m - n)]
      <3>1. /\ w \in Seq(Capacity) /\ Len(w) = Len(u) + Len(v)
            /\ \A i \in 1 .. Len(u) + Len(v) : w[i] = IF i <= Len(u) THEN u[i] ELSE v[i - Len(u)]
        BY <1>4, <1>5, <2>1, ConcatProperties
      <3>2. Len(u) + Len(v) = m /\ Len(u) = m - n
        BY <1>3, <1>4, <1>5
      <3> QED
        BY <3>1, <3>2
    <2>3. \A i \in 1 .. m : w[i] = s[i]
      <3>1. ASSUME NEW i \in 1 .. m, ~(i <= m - n) PROVE w[i] = s[i]
        <4>1. i - (m - n) \in 1 .. n /\ m - n + (i - (m - n)) = i
          BY <1>3, <3>1
        <4>2. v[i - (m - n)] = s[m - n + (i - (m - n))]
          BY <1>5, <4>1
        <4> QED
          BY <2>2, <3>1, <4>1, <4>2
      <3>2. ASSUME NEW i \in 1 .. m, i <= m - n PROVE w[i] = s[i]
        BY <1>3, <1>4, <2>2, <3>2
      <3> QED
        BY <3>1, <3>2
    <2> QED
      BY <1>1, <2>1, <2>2, <2>3, SeqEqual
  <1>7. u \in Seq(Nat) /\ v \in Seq(Nat)
    BY <1>4, <1>5, SeqMonotonic DEF Capacity
  <1>8. BytesOf(s) = BytesOf(u) + BytesOf(v) /\ BytesOf(u) \in Nat /\ BytesOf(v) \in Nat
    BY <1>6, <1>7, BytesConcat, BytesAppend
  <1> QED
    BY <1>1, <1>2, <1>4, <1>8

(* What is below them is determined by its length and its buffers. *)
LEMMA BelowIs ==
    ASSUME NEW s \in Seq(Capacity), NEW n \in 0 .. Len(s), NEW u \in Seq(Capacity),
           Len(u) = Len(s) - n, \A i \in 1 .. Len(u) : u[i] = s[i]
    PROVE  u = Storage!Without(s, n)
  <1>1. PICK w : w = Storage!Without(s, n)
    OBVIOUS
  <1>2. w \in Seq(Capacity) /\ Len(w) = Len(s) - n /\ \A i \in 1 .. Len(s) - n : w[i] = s[i]
    BY <1>1, Uppermost
  <1>3. \A i \in 1 .. Len(u) : u[i] = w[i]
    BY <1>2
  <1> QED
    BY <1>1, <1>2, <1>3, SeqEqual

(* More buffers are worth no less. *)
LEMMA TopGrows ==
    ASSUME NEW s \in Seq(Capacity), NEW j \in 0 .. Len(s), NEW n \in 0 .. Len(s), j <= n
    PROVE  BytesOf(Storage!Top(s, j)) <= BytesOf(Storage!Top(s, n))
  <1>1. PICK u : u = Storage!Without(s, j)
    OBVIOUS
  <1>2. /\ u \in Seq(Capacity) /\ Len(u) = Len(s) - j /\ \A i \in 1 .. Len(s) - j : u[i] = s[i]
        /\ BytesOf(s) = BytesOf(u) + BytesOf(Storage!Top(s, j))
        /\ BytesOf(u) \in Nat /\ BytesOf(Storage!Top(s, j)) \in Nat
    BY <1>1, Uppermost
  <1>3. PICK v : v = Storage!Without(s, n)
    OBVIOUS
  <1>4. /\ v \in Seq(Capacity) /\ Len(v) = Len(s) - n /\ \A i \in 1 .. Len(s) - n : v[i] = s[i]
        /\ BytesOf(s) = BytesOf(v) + BytesOf(Storage!Top(s, n))
        /\ BytesOf(v) \in Nat /\ BytesOf(Storage!Top(s, n)) \in Nat
    BY <1>3, Uppermost
  <1>5. Len(s) \in Nat
    BY LenProperties
  <1>6. n - j \in 0 .. Len(u) /\ Len(v) = Len(u) - (n - j)
    BY <1>2, <1>4, <1>5
  <1>7. \A i \in 1 .. Len(v) : v[i] = u[i]
    BY <1>2, <1>4, <1>5
  <1>8. v = Storage!Without(u, n - j)
    BY <1>2, <1>4, <1>6, <1>7, BelowIs
  <1>9. BytesOf(u) = BytesOf(v) + BytesOf(Storage!Top(u, n - j)) /\ BytesOf(Storage!Top(u, n - j)) \in Nat
    BY <1>2, <1>6, <1>8, Uppermost
  <1> QED
    BY <1>2, <1>4, <1>9

-----------------------------------------------------------------------------
(* Operations of a bucket are operations of the stack of its contents. *)

LEMMA BytesAre == \A s : Storage!Bytes(s) = BytesOf(s)
  BY DEF Storage!Bytes, BytesOf, Storage!FoldSeq, FoldSeq, Storage!FoldFunction, FoldFunction,
         Storage!FoldFunctionOnSet, FoldFunctionOnSet, Storage!MapThenFoldSet, MapThenFoldSet

(* A call has taken n buffers off the top of b. *)
TakesTop(b, l, n) ==
    /\ n \in 0 .. Len(Contents(b)) /\ l.buffers = n
    /\ Contents(l.bucket) = Storage!Without(Contents(b), n)
    /\ l.bytes = Storage!Bytes(Storage!Top(Contents(b), n))

LEMMA TrimLeftTakes ==
    ASSUME NEW b, Well(b), NEW l \in TrimLeft(b)
    PROVE  TakesTop(b, l, l.buffers)
  <1>1. /\ Well(l.bucket) /\ l.buffers \in Nat /\ l.bytes \in Nat
        /\ l.bucket.retainedBuffers + l.buffers = b.retainedBuffers
        /\ l.bucket.retainedBytes + l.bytes = b.retainedBytes
        /\ \A i \in 1 .. l.bucket.retainedBuffers : Contents(l.bucket)[i] = Contents(b)[i]
    BY DEF TrimLeft
  <1>2. PICK s, u : s = Contents(b) /\ u = Contents(l.bucket)
    OBVIOUS
  <1>3. /\ s \in Seq(Capacity) /\ b.retainedBuffers = Len(s) /\ b.retainedBytes = BytesOf(s)
        /\ b.retainedBuffers \in Nat /\ b.retainedBytes \in Nat
    BY <1>2, WellFacts
  <1>4. /\ u \in Seq(Capacity) /\ l.bucket.retainedBuffers = Len(u)
        /\ l.bucket.retainedBytes = BytesOf(u)
        /\ l.bucket.retainedBuffers \in Nat /\ l.bucket.retainedBytes \in Nat
    BY <1>1, <1>2, WellFacts
  <1>5. PICK n : n = l.buffers
    OBVIOUS
  <1>6. n \in 0 .. Len(s) /\ Len(u) = Len(s) - n /\ \A i \in 1 .. Len(u) : u[i] = s[i]
    BY <1>1, <1>2, <1>3, <1>4, <1>5
  <1>7. u = Storage!Without(s, n)
    BY <1>3, <1>4, <1>6, BelowIs
  <1>8. BytesOf(s) = BytesOf(u) + BytesOf(Storage!Top(s, n)) /\ BytesOf(Storage!Top(s, n)) \in Nat
    BY <1>3, <1>6, <1>7, Uppermost
  <1>9. l.bytes = BytesOf(Storage!Top(s, n))
    BY <1>1, <1>3, <1>4, <1>8
  <1> QED
    BY <1>2, <1>5, <1>6, <1>7, <1>9, BytesAre DEF TakesTop

LEMMA PopTakes ==
    ASSUME NEW b, Well(b)
    PROVE  TakesTop(b, Pop(b), IF Contents(b) = <<>> THEN 0 ELSE 1)
  <1>1. /\ b.retainedBuffers = Len(Contents(b)) /\ b.retainedBuffers \in Nat
        /\ b.retainedBytes \in Nat /\ Contents(b) \in Seq(Capacity)
    BY WellFacts
  <1>2. CASE b.retainedBuffers = 0
    <2>1. Contents(b) = <<>>
      BY <1>1, <1>2, EmptySeq
    <2>2. Pop(b) = Left(b, None) /\ Left(b, None).buffers = 0
      BY <1>2 DEF Pop, Left, None
    <2>3. Left(b, None) \in TrimLeft(b)
      BY NothingTrimmed
    <2> QED
      BY <2>1, <2>2, <2>3, TrimLeftTakes
  <1>3. CASE b.retainedBuffers # 0
    <2>1. Contents(b) # <<>>
      BY <1>1, <1>3, EmptySeq
    <2>2. PICK d, p, l : d = Popped(b) /\ p = PeekHeadCapacity(b) /\ l = Pop(b)
      OBVIOUS
    <2>3. l = [bucket |-> d, buffers |-> 1, bytes |-> p]
      BY <1>3, <2>2 DEF Pop, Left
    <2>4. /\ Well(d) /\ p \in Capacity /\ Contents(b) = Append(Contents(d), p)
          /\ d.retainedBuffers = b.retainedBuffers - 1 /\ d.retainedBytes = b.retainedBytes - p
      BY <1>3, <2>2, PoppedWell
    <2>5. /\ d \in BucketSet /\ Contents(d) \in Seq(Capacity) /\ d.retainedBuffers = Len(Contents(d))
          /\ d.retainedBuffers \in Nat /\ d.retainedBytes \in Nat
      BY <2>4, WellFacts
    <2>6. \A i \in 1 .. d.retainedBuffers : Contents(d)[i] = Contents(b)[i]
      BY <2>4, <2>5, AppendProperties
    <2>7. p \in Nat /\ d.retainedBuffers + 1 = b.retainedBuffers /\ d.retainedBytes + p = b.retainedBytes
      BY <1>1, <2>4, <2>5 DEF Capacity
    <2>8. l \in TrimLeft(b) /\ l.buffers = 1
      BY <2>3, <2>4, <2>5, <2>6, <2>7 DEF TrimLeft
    <2> QED
      BY <2>1, <2>2, <2>8, TrimLeftTakes
  <1> QED
    BY <1>2, <1>3

LEMMA ClearTakes ==
    ASSUME NEW b, Well(b)
    PROVE  TakesTop(b, Clear(b), Len(Contents(b)))
  <1>1. /\ b.retainedBuffers = Len(Contents(b)) /\ b.retainedBuffers \in Nat /\ b.retainedBytes \in Nat
    BY WellFacts
  <1>2. Clear(b) = [bucket |-> EmptyBucket, buffers |-> b.retainedBuffers, bytes |-> b.retainedBytes]
    BY DEF Clear, Left
  <1>3. Well(EmptyBucket) /\ EmptyBucket \in BucketSet /\ EmptyBucket.retainedBuffers = 0 /\ EmptyBucket.retainedBytes = 0
    BY EmptyFacts DEF Well, EmptyBucket
  <1>4. Clear(b) \in TrimLeft(b) /\ Clear(b).buffers = Len(Contents(b))
    BY <1>1, <1>2, <1>3 DEF TrimLeft
  <1> QED
    BY <1>4, TrimLeftTakes

(* No more than n buffers, worth no more than m, and one more would be too many or too much *)
LEMMA TrimTakes ==
    ASSUME NEW b, Well(b), NEW n \in Nat, NEW m \in Nat
    PROVE  TakesTop(b, TrimBounded(b, n, m), Storage!Trimmed(Contents(b), n, m))
  <1>1. PICK l : l = TrimBounded(b, n, m)
    OBVIOUS
  <1>2. PICK s : s = Contents(b)
    OBVIOUS
  <1>3. PICK k \in 0 .. b.retainedBuffers : k <= n /\ (k = n \/ k = b.retainedBuffers) /\ After(l, b, m, k)
    BY <1>1, TrimmedWell
  <1>4. /\ l \in TrimLeft(b) /\ l.buffers \in 0 .. k /\ l.bytes <= m
        /\ l.buffers = k \/ ~TrimFits(l.bucket, l, m)
    BY <1>3 DEF After
  <1>5. PICK x : x = l.buffers
    OBVIOUS
  <1>6. /\ s \in Seq(Capacity) /\ b.retainedBuffers = Len(s) /\ b.retainedBuffers \in Nat /\ Len(s) \in Nat
        /\ b.retainedBytes = BytesOf(s) /\ b.retainedBytes \in Nat
    BY <1>2, WellFacts
  <1>7. /\ x \in 0 .. Len(s) /\ Contents(l.bucket) = Storage!Without(s, x)
        /\ l.bytes = BytesOf(Storage!Top(s, x))
    BY <1>2, <1>4, <1>5, TrimLeftTakes, BytesAre DEF TakesTop
  <1>8. PICK N : N = {y \in 0 .. Len(s) : y <= n /\ Storage!Bytes(Storage!Top(s, y)) <= m}
    OBVIOUS
  <1>9. x \in N
    BY <1>3, <1>4, <1>5, <1>6, <1>7, <1>8, BytesAre
  <1>10. ASSUME NEW y \in N PROVE x >= y
    <2>1. y \in 0 .. Len(s) /\ y <= n /\ BytesOf(Storage!Top(s, y)) <= m
      BY <1>8, BytesAre
    <2>2. SUFFICES ASSUME y > x PROVE FALSE
      BY <1>7, <2>1
    <2>3. x # k
      BY <1>3, <1>6, <1>7, <2>1, <2>2
    <2>4. ~TrimFits(l.bucket, l, m)
      BY <1>4, <1>5, <2>3
    <2>5. /\ Well(l.bucket) /\ l.bytes \in Nat /\ l.bucket.retainedBuffers + x = Len(s)
          /\ l.bucket.retainedBytes + l.bytes = BytesOf(s)
      BY <1>4, <1>5, <1>6 DEF TrimLeft
    <2>6. l.bucket.retainedBuffers \in Nat /\ l.bucket.retainedBytes \in Nat
      BY <2>5, WellFacts
    <2>7. l.bucket.retainedBuffers # 0
      BY <1>6, <1>7, <2>1, <2>2, <2>5, <2>6
    <2>8. PICK p, r : p = PeekHeadCapacity(l.bucket) /\ r = TrimmedNext(l, l.bytes + p)
      OBVIOUS
    <2>9. p \in Nat /\ p > m - l.bytes
      <3>1. p \in Capacity
        BY <2>5, <2>7, <2>8, PoppedWell
      <3>2. ~(p <= m - l.bytes)
        BY <2>4, <2>8 DEF TrimFits
      <3> QED
        BY <2>5, <3>1, <3>2 DEF Capacity
    <2>10. TrimFits(l.bucket, l, l.bytes + p)
      BY <2>5, <2>8, <2>9 DEF TrimFits
    <2>11. r \in TrimLeft(b) /\ r.buffers = x + 1
      <3>1. l.bytes + p \in Nat
        BY <2>5, <2>9
      <3> QED
        BY <1>4, <1>5, <2>7, <2>8, <2>10, <3>1, TrimmedNextLeft
    <2>12. r.bytes = l.bytes + p
      BY <2>8, <2>10 DEF TrimmedNext, TrimmedOne, Left
    <2>13. x + 1 \in 0 .. Len(s) /\ l.bytes + p = BytesOf(Storage!Top(s, x + 1))
      BY <1>2, <2>11, <2>12, TrimLeftTakes, BytesAre DEF TakesTop
    <2>14. BytesOf(Storage!Top(s, x + 1)) <= BytesOf(Storage!Top(s, y))
      <3>1. x + 1 <= y
        BY <1>7, <2>1, <2>2
      <3> QED
        BY <1>6, <2>1, <2>13, <3>1, TopGrows
    <2>15. BytesOf(Storage!Top(s, y)) \in Nat
      BY <1>6, <2>1, Uppermost
    <2> QED
      BY <2>1, <2>5, <2>9, <2>13, <2>14, <2>15
  <1>11. Storage!Trimmed(s, n, m) = x
    <2>1. N \subseteq Int
      BY <1>8
    <2>2. \A z : z = (CHOOSE w \in N : \A y \in N : w >= y) => z = x
      <3>1. ASSUME NEW z, z = (CHOOSE w \in N : \A y \in N : w >= y) PROVE z = x
        <4>1. z \in N /\ \A y \in N : z >= y
          BY <1>9, <1>10, <3>1
        <4>2. z >= x /\ x >= z
          BY <1>9, <1>10, <4>1
        <4> QED
          BY <1>9, <2>1, <4>1, <4>2
      <3> QED
        BY <3>1
    <2>3. Storage!Trimmed(s, n, m) = CHOOSE w \in N : \A y \in N : w >= y
      BY <1>8 DEF Storage!Trimmed, Storage!Max
    <2> QED
      BY <2>2, <2>3
  <1> QED
    BY <1>1, <1>2, <1>4, <1>5, <1>11, TrimLeftTakes

LEMMA PushPushes ==
    ASSUME NEW b, Well(b), NEW c \in Capacity
    PROVE  /\ Push(b, c).buffers = 0 => Len(Contents(b)) >= SlotLimit /\ Push(b, c) = Left(b, None)
           /\ Push(b, c).buffers # 0 => /\ Len(Contents(b)) < SlotLimit
                                        /\ Push(b, c).buffers = 1 /\ Push(b, c).bytes = c
                                        /\ Contents(Push(b, c).bucket) = Append(Contents(b), c)
  <1>1. b.retainedBuffers = Len(Contents(b)) /\ CountsAgree(b) /\ b.retainedBuffers \in Nat
    BY WellFacts
  <1>2. Len(Contents(b)) <= SlotLimit /\ SlotLimit \in Nat /\ c # 0
    BY <1>1, LimitsAssumption DEF CountsAgree, Capacity
  <1>3. CASE IsFull(b)
    <2>1. Push(b, c) = Left(b, None) /\ Left(b, None).buffers = 0
      BY <1>3 DEF Push, Left, None
    <2> QED
      BY <1>1, <1>2, <1>3, <2>1 DEF IsFull
  <1>4. CASE ~IsFull(b)
    <2>1. Push(b, c) = [bucket |-> Pushed(b, c), buffers |-> 1, bytes |-> c]
      BY <1>2, <1>4 DEF Push, Left
    <2>2. Contents(Pushed(b, c)) = Append(Contents(b), c)
      BY <1>4, PushedWell
    <2>3. Len(Contents(b)) < SlotLimit
      BY <1>1, <1>2, <1>4 DEF IsFull
    <2> QED
      BY <2>1, <2>2, <2>3
  <1> QED
    BY <1>3, <1>4

-----------------------------------------------------------------------------
(* Steps of the stored stacks *)

(* The last answers of all shards, and returns that offer what is returned *)
AnswersOK == answer = [i \in Classes |-> [s \in Shards |-> answer[i][s]]]
Offers(c) == c.pc = "offered" => c.capacity \in Capacities
OffersOK == \A t \in Threads : Offers(call[t])

StacksNow  == [k \in Places |-> Contents(CellAt(k).bucket)]
AnswersNow == [k \in Places |-> answer[k[1]][k[2]]]

LEMMA StackAt ==
    ASSUME NEW i \in Classes, NEW s \in Shards
    PROVE  <<i, s>> \in Places /\ StacksNow[<<i, s>>] = Contents(shard[i][s].bucket)
  BY DEF StacksNow, Places, CellAt

(* A call that leaves l in the bucket of a shard *)
LEMMA LockedLeaves ==
    ASSUME ShardsOK, AnswersOK, NEW i \in Classes, NEW s \in Shards, NEW q, NEW l, NEW c,
           Locked(i, s, q, l, c)
    PROVE  Storage!Leave(<<i, s>>, Contents(l.bucket), Answered(q, l)) /\ AnswersOK'
  <1>1. PICK y, a : y = [bucket |-> l.bucket, counters |-> c] /\ a = Answered(q, l)
    OBVIOUS
  <1>2. shard' = [shard EXCEPT ![i][s] = y] /\ answer' = [answer EXCEPT ![i][s] = a]
    BY <1>1 DEF Locked
  <1>3. shard \in [Classes -> [Shards -> CellSet]]
    BY DEF ShardsOK
  <1>4. \A j \in Classes, r \in Shards : shard'[j][r] = IF j = i /\ r = s THEN y ELSE shard[j][r]
    BY <1>2, <1>3
  <1>5. PICK A : A = [j \in Classes |-> [r \in Shards |-> answer[j][r]]]
    OBVIOUS
  <1>6. answer = A
    BY <1>5 DEF AnswersOK
  <1>7. answer' = [A EXCEPT ![i][s] = a]
    BY <1>2, <1>6
  <1>8. \A j \in Classes, r \in Shards : answer'[j][r] = IF j = i /\ r = s THEN a ELSE answer[j][r]
    BY <1>5, <1>7
  <1>9. AnswersOK'
    <2>1. PICK B : B = answer'
      OBVIOUS
    <2>2. B = [j \in Classes |-> [r \in Shards |-> B[j][r]]]
      BY <1>5, <1>7, <2>1
    <2> QED
      BY <2>1, <2>2 DEF AnswersOK
  <1>10. StacksNow' = [StacksNow EXCEPT ![<<i, s>>] = Contents(l.bucket)]
    <2>1. ASSUME NEW k \in Places
          PROVE  Contents(shard'[k[1]][k[2]].bucket)
                    = IF k = <<i, s>> THEN Contents(l.bucket) ELSE Contents(shard[k[1]][k[2]].bucket)
      <3>1. k[1] \in Classes /\ k[2] \in Shards /\ k = <<k[1], k[2]>>
        BY DEF Places
      <3>2. k = <<i, s>> <=> k[1] = i /\ k[2] = s
        BY <3>1
      <3> QED
        BY <1>1, <1>4, <3>1, <3>2
    <2> QED
      BY <2>1 DEF StacksNow, CellAt
  <1>11. AnswersNow' = [AnswersNow EXCEPT ![<<i, s>>] = a]
    <2>1. ASSUME NEW k \in Places
          PROVE  answer'[k[1]][k[2]] = IF k = <<i, s>> THEN a ELSE answer[k[1]][k[2]]
      <3>1. k[1] \in Classes /\ k[2] \in Shards /\ k = <<k[1], k[2]>>
        BY DEF Places
      <3>2. k = <<i, s>> <=> k[1] = i /\ k[2] = s
        BY <3>1
      <3> QED
        BY <1>8, <3>1, <3>2
    <2> QED
      BY <2>1 DEF AnswersNow
  <1> QED
    BY <1>1, <1>9, <1>10, <1>11 DEF Storage!Leave, StacksNow, AnswersNow

(* ... and takes n buffers off the top *)
LEMMA LockedTakes ==
    ASSUME ShardsOK, AnswersOK, NEW i \in Classes, NEW s \in Shards, NEW q, NEW l, NEW c, NEW n,
           Locked(i, s, q, l, c), TakesTop(shard[i][s].bucket, l, n)
    PROVE  Storage!Take(<<i, s>>, q, n)
  <1>1. PICK b : b = shard[i][s].bucket
    OBVIOUS
  <1>2. Storage!Leave(<<i, s>>, Contents(l.bucket), Answered(q, l))
    BY LockedLeaves
  <1>3. /\ l.buffers = n /\ Contents(l.bucket) = Storage!Without(Contents(b), n)
        /\ l.bytes = Storage!Bytes(Storage!Top(Contents(b), n))
    BY <1>1 DEF TakesTop
  <1>4. Answered(q, l) = Storage!Answer(q, n, Storage!Bytes(Storage!Top(Contents(b), n)))
    BY <1>3 DEF Answered, Storage!Answer
  <1>5. PICK u : u = StacksNow[<<i, s>>]
    OBVIOUS
  <1>6. u = Contents(b)
    BY <1>1, <1>5, StackAt
  <1>7. Storage!Leave(<<i, s>>, Storage!Without(u, n), Storage!Answer(q, n, Storage!Bytes(Storage!Top(u, n))))
    BY <1>2, <1>3, <1>4, <1>6
  <1> QED
    BY <1>5, <1>7 DEF Storage!Take, Storage!Leave, StacksNow

(* Nothing that leaves the buckets alone changes a stack. *)
LEMMA BucketsStand ==
    ASSUME UNCHANGED answer, \A i \in Classes, s \in Shards : shard'[i][s].bucket = shard[i][s].bucket
    PROVE  UNCHANGED Storage!vars
  <1>1. ASSUME NEW k \in Places PROVE Contents(shard'[k[1]][k[2]].bucket) = Contents(shard[k[1]][k[2]].bucket)
    <2>1. k[1] \in Classes /\ k[2] \in Shards
      BY DEF Places
    <2> QED
      BY <2>1
  <1>2. UNCHANGED StacksNow
    BY <1>1 DEF StacksNow, CellAt
  <1>3. UNCHANGED AnswersNow
    BY DEF AnswersNow
  <1> QED
    BY <1>2, <1>3 DEF Storage!vars, StacksNow, AnswersNow

StackStep == Storage!Next \/ UNCHANGED Storage!vars

LEMMA ProbeStacks ==
    ASSUME ShardsOK, CallsOK, AnswersOK, NEW t \in Threads, Probe(t)
    PROVE  StackStep /\ AnswersOK'
  <1>1. PICK c : c = call[t]
    OBVIOUS
  <1>2. c.pc = "probe" /\ c \in ProbeCalls
    BY <1>1, CallIs DEF CallsOK, Probe
  <1>3. PICK i, s : i = c.class /\ s = (c.primary + c.offset) % NumShards
    OBVIOUS
  <1>4. i \in Classes /\ s \in Shards
    <2>1. c.primary \in Nat /\ c.offset \in Nat /\ i \in Classes
      BY <1>2, <1>3, TelemetryAssumption DEF ProbeCalls, Shards
    <2> QED
      BY <1>3, <2>1, ShardIs
  <1>5. PICK b, l : b = shard[i][s].bucket /\ l = Pop(b)
    OBVIOUS
  <1>6. \E x : Locked(i, s, <<"pop">>, l, x)
    BY <1>1, <1>3, <1>5 DEF Probe
  <1>7. PICK x : Locked(i, s, <<"pop">>, l, x)
    BY <1>6
  <1>8. Well(b)
    BY <1>4, <1>5 DEF ShardsOK, Stocked
  <1>9. PICK n : n = IF Contents(b) = <<>> THEN 0 ELSE 1
    OBVIOUS
  <1>10. TakesTop(b, l, n)
    BY <1>5, <1>8, <1>9, PopTakes
  <1>11. Storage!Take(<<i, s>>, <<"pop">>, n)
    BY <1>4, <1>5, <1>7, <1>10, LockedTakes
  <1>12. StacksNow[<<i, s>>] = Contents(b) /\ <<i, s>> \in Places
    BY <1>4, <1>5, StackAt
  <1>13. Storage!Pop(<<i, s>>)
    BY <1>9, <1>11, <1>12 DEF Storage!Pop, StacksNow
  <1>14. AnswersOK'
    BY <1>4, <1>7, LockedLeaves
  <1> QED
    BY <1>12, <1>13, <1>14 DEF StackStep, Storage!Next

LEMMA TryRetainStacks ==
    ASSUME ShardsOK, CallsOK, AnswersOK, NEW t \in Threads, Offers(call[t]),
           NEW i \in Classes, NEW s \in Shards, TryRetain(t, i, s)
    PROVE  StackStep /\ AnswersOK'
  <1>1. PICK c, n : c = call[t] /\ n = c.capacity
    OBVIOUS
  <1>2. c.pc = "offered" /\ n \in Capacities /\ n \in Nat
    BY <1>1, TelemetryAssumption DEF TryRetain, Offers
  <1>3. PICK x, l : x = shard[i][s] /\ l = Push(x.bucket, n)
    OBVIOUS
  <1>4. Well(x.bucket) /\ x \in CellSet
    BY <1>3 DEF ShardsOK, Stocked
  <1>5. CASE n < ClassSizes[i]
    <2>1. UNCHANGED <<shard, answer>>
      BY <1>1, <1>5 DEF TryRetain, storage
    <2> QED
      BY <2>1, BucketsStand DEF StackStep, AnswersOK
  <1>6. CASE ~(n < ClassSizes[i]) /\ ~CreditAllows(ShardPut(x.counters, n).current, n)
    <2>1. PICK drop : drop = ShardDrop(ShardPut(x.counters, n), n)
      OBVIOUS
    <2>2. shard' = [shard EXCEPT ![i][s].counters = drop] /\ UNCHANGED answer
      BY <1>1, <1>3, <1>6, <2>1 DEF TryRetain
    <2>3. [x EXCEPT !.counters = drop].bucket = x.bucket
      BY <1>4 DEF CellSet
    <2>4. \A j \in Classes, r \in Shards : shard'[j][r].bucket = shard[j][r].bucket
      BY <1>3, <2>2, <2>3 DEF ShardsOK
    <2> QED
      BY <2>2, <2>4, BucketsStand DEF StackStep, AnswersOK
  <1>7. CASE ~(n < ClassSizes[i]) /\ CreditAllows(ShardPut(x.counters, n).current, n)
    <2>1. \E y : Locked(i, s, <<"push", n>>, l, y)
      BY <1>1, <1>3, <1>7 DEF TryRetain
    <2>2. PICK y : Locked(i, s, <<"push", n>>, l, y)
      BY <2>1
    <2>3. Storage!Leave(<<i, s>>, Contents(l.bucket), Answered(<<"push", n>>, l)) /\ AnswersOK'
      BY <2>2, LockedLeaves
    <2>4. n \in Capacity /\ n > 0
      BY <1>2, <1>7, TelemetryAssumption DEF Capacity, Classes
    <2>5. StacksNow[<<i, s>>] = Contents(x.bucket) /\ <<i, s>> \in Places
      BY <1>3, StackAt
    <2>6. Len(Contents(x.bucket)) \in Nat /\ SlotLimit \in Nat
      BY <1>4, WellFacts, LimitsAssumption
    <2>7. Storage!Push(<<i, s>>, n)
      <3>1. CASE l.buffers = 0
        <4>1. Len(Contents(x.bucket)) >= SlotLimit /\ l = Left(x.bucket, None)
          BY <1>3, <1>4, <2>4, <3>1, PushPushes
        <4>2. Contents(l.bucket) = Contents(x.bucket) /\ Answered(<<"push", n>>, l) = Storage!Answer(<<"push", n>>, 0, 0)
          BY <4>1 DEF Left, None, Answered, Storage!Answer
        <4>3. ~(Len(Contents(x.bucket)) < SlotLimit)
          BY <2>6, <4>1
        <4> QED
          BY <2>3, <2>5, <4>2, <4>3 DEF Storage!Push, StacksNow
      <3>2. CASE l.buffers # 0
        <4>1. /\ Len(Contents(x.bucket)) < SlotLimit /\ l.buffers = 1 /\ l.bytes = n
              /\ Contents(l.bucket) = Append(Contents(x.bucket), n)
          BY <1>3, <1>4, <2>4, <3>2, PushPushes
        <4>2. Answered(<<"push", n>>, l) = Storage!Answer(<<"push", n>>, 1, n)
          BY <4>1 DEF Answered, Storage!Answer
        <4> QED
          BY <2>3, <2>4, <2>5, <4>1, <4>2 DEF Storage!Push, StacksNow
      <3> QED
        BY <3>1, <3>2
    <2> QED
      BY <1>2, <2>3, <2>5, <2>7 DEF StackStep, Storage!Next
  <1> QED
    BY <1>5, <1>6, <1>7

LEMMA TrimStacks ==
    ASSUME ShardsOK, AnswersOK, NEW t \in Threads, NEW i \in Classes, NEW s \in Shards,
           NEW n \in TrimBuffers, NEW m \in ByteLimits, Trim(t, i, s, n, m)
    PROVE  StackStep /\ AnswersOK'
  <1>1. PICK b, l : b = shard[i][s].bucket /\ l = TrimBounded(b, n, m)
    OBVIOUS
  <1>2. \E x : Locked(i, s, <<"trim", n, m>>, l, x)
    BY <1>1 DEF Trim
  <1>3. PICK x : Locked(i, s, <<"trim", n, m>>, l, x)
    BY <1>2
  <1>4. Well(b) /\ n \in Nat /\ m \in Nat
    BY <1>1, TelemetryAssumption DEF ShardsOK, Stocked
  <1>5. PICK k : k = Storage!Trimmed(Contents(b), n, m)
    OBVIOUS
  <1>6. TakesTop(b, l, k)
    BY <1>1, <1>4, <1>5, TrimTakes
  <1>7. Storage!Take(<<i, s>>, <<"trim", n, m>>, k) /\ AnswersOK'
    BY <1>1, <1>3, <1>6, LockedTakes, LockedLeaves
  <1>8. StacksNow[<<i, s>>] = Contents(b) /\ <<i, s>> \in Places
    BY <1>1, StackAt
  <1>9. Storage!Trim(<<i, s>>, n, m)
    BY <1>5, <1>7, <1>8 DEF Storage!Trim, StacksNow
  <1> QED
    BY <1>7, <1>8, <1>9 DEF StackStep, Storage!Next

LEMMA ClearStacks ==
    ASSUME ShardsOK, CallsOK, AnswersOK, NEW t \in Threads, ClearShard(t)
    PROVE  StackStep /\ AnswersOK'
  <1>1. PICK c, i, s : c = call[t] /\ i = c.class /\ s = c.shard
    OBVIOUS
  <1>2. i \in Classes /\ s \in Shards
    <2>1. c.pc = "clear" /\ c \in Calls
      BY <1>1 DEF CallsOK, ClearShard
    <2>2. c \in ClearCalls
      BY <2>1, CallIs
    <2> QED
      BY <1>1, <2>2 DEF ClearCalls
  <1>3. PICK b, l : b = shard[i][s].bucket /\ l = Clear(b)
    OBVIOUS
  <1>4. \E x : Locked(i, s, <<"clear">>, l, x)
    BY <1>1, <1>3 DEF ClearShard
  <1>5. PICK x : Locked(i, s, <<"clear">>, l, x)
    BY <1>4
  <1>6. Well(b)
    BY <1>2, <1>3 DEF ShardsOK, Stocked
  <1>7. TakesTop(b, l, Len(Contents(b)))
    BY <1>3, <1>6, ClearTakes
  <1>8. Storage!Take(<<i, s>>, <<"clear">>, Len(Contents(b))) /\ AnswersOK'
    BY <1>2, <1>3, <1>5, <1>7, LockedTakes, LockedLeaves
  <1>9. StacksNow[<<i, s>>] = Contents(b) /\ <<i, s>> \in Places
    BY <1>2, <1>3, StackAt
  <1>10. Storage!Clear(<<i, s>>)
    BY <1>8, <1>9 DEF Storage!Clear, StacksNow
  <1> QED
    BY <1>8, <1>9, <1>10 DEF StackStep, Storage!Next

LEMMA OffersGo ==
    ASSUME CallsOK, OffersOK, NEW t \in Threads, NEW x, Goes(t, x), Offers(x)
    PROVE  OffersOK'
  <1>1. call'[t] = x /\ \A u \in Threads : u # t => call'[u] = call[u]
    BY GoesOn
  <1>2. ASSUME NEW u \in Threads PROVE Offers(call'[u])
    <2>1. CASE u = t
      BY <1>1, <2>1
    <2>2. CASE u # t
      <3>1. Offers(call[u]) /\ call'[u] = call[u]
        BY <1>1, <2>2 DEF OffersOK
      <3> QED
        BY <3>1
    <2> QED
      BY <2>1, <2>2
  <1> QED
    BY <1>2 DEF OffersOK, Offers

LEMMA OtherCalls ==
    /\ Offers(Idle)
    /\ \A x \in ProbeCalls \cup HitCalls \cup MissCalls \cup PutCalls \cup TrimCalls \cup ClearCalls : Offers(x)
  BY DEF Offers, Idle, ProbeCalls, HitCalls, MissCalls, PutCalls, TrimCalls, ClearCalls

StackInv == AnswersOK /\ OffersOK

LEMMA StorageStands ==
    ASSUME AnswersOK, UNCHANGED storage
    PROVE  StackStep /\ AnswersOK'
  <1>1. UNCHANGED <<shard, answer>>
    BY DEF storage
  <1> QED
    BY <1>1, BucketsStand DEF StackStep, AnswersOK

LEMMA StackCall ==
    ASSUME StockInv, StackInv, NEW t \in Threads, Call(t)
    PROVE  StackStep /\ StackInv'
  <1> USE DEF StockInv, StackInv
  <1>1. ASSUME NEW i \in Classes, StartGet(t, i) PROVE StackStep /\ StackInv'
    <2>1. PICK s \in Shards : Goes(t, NewProbe(i, s))
      BY <1>1, StartGetDoes
    <2>2. Offers(NewProbe(i, s))
      BY DEF Offers, NewProbe
    <2>3. UNCHANGED storage
      BY <1>1 DEF StartGet
    <2> QED
      BY <2>1, <2>2, <2>3, OffersGo, StorageStands
  <1>2. ASSUME NEW i \in Classes, StartClear(t, i) PROVE StackStep /\ StackInv'
    <2>1. Goes(t, NewClear(i)) /\ Offers(NewClear(i))
      BY <1>2, StartClearDoes DEF Offers, NewClear
    <2>2. UNCHANGED storage
      BY <1>2 DEF StartClear
    <2> QED
      BY <2>1, <2>2, OffersGo, StorageStands
  <1>3. ASSUME NEW n \in Capacities, StartPut(t, n) PROVE StackStep /\ StackInv'
    <2>1. n \in Nat
      BY TelemetryAssumption
    <2>2. Goes(t, OfferedCall(n)) /\ Offers(OfferedCall(n))
      BY <1>3, <2>1, StartPutDoes DEF Offers, OfferedCall
    <2>3. UNCHANGED storage
      BY <1>3 DEF StartPut
    <2> QED
      BY <2>2, <2>3, OffersGo, StorageStands
  <1>4. ASSUME NEW i \in Classes, NEW s \in Shards, NEW n \in TrimBuffers, NEW m \in ByteLimits, Trim(t, i, s, n, m)
        PROVE  StackStep /\ StackInv'
    <2>1. n \in Nat /\ m \in Nat
      BY TelemetryAssumption
    <2>2. PICK r \in Amounts : Goes(t, [pc |-> "classTrim", class |-> i, removed |-> r])
      BY <1>4, <2>1, TrimDoes
    <2>3. Offers([pc |-> "classTrim", class |-> i, removed |-> r])
      BY DEF Offers
    <2> QED
      BY <1>4, <2>2, <2>3, OffersGo, TrimStacks
  <1> QED
    BY <1>1, <1>2, <1>3, <1>4 DEF Call

LEMMA StackAdvance ==
    ASSUME StockInv, StackInv, NEW t \in Threads, Advance(t)
    PROVE  StackStep /\ StackInv'
  <1> USE DEF StockInv, StackInv
  <1>1. CASE Probe(t)
    <2>1. call[t] \in ProbeCalls /\ (ProbeHits(t, call[t]) \/ ProbeMisses(t, call[t]))
      BY <1>1, ProbeDoes
    <2>2. PICK c : c = call[t]
      OBVIOUS
    <2>3. ASSUME ProbeHits(t, c) PROVE OffersOK'
      <3>1. PICK b \in Nat : Goes(t, Hit(c, b))
        BY <2>3 DEF ProbeHits
      <3>2. Offers(Hit(c, b))
        BY DEF Offers, Hit
      <3> QED
        BY <3>1, <3>2, OffersGo
    <2>4. ASSUME ProbeMisses(t, c) PROVE OffersOK'
      <3>1. PICK x \in ProbeCalls \cup {Missed(c)} : Goes(t, x)
        BY <2>4 DEF ProbeMisses
      <3>2. Offers(Missed(c))
        BY DEF Offers, Missed
      <3>3. Offers(x)
        BY <3>2, OtherCalls
      <3> QED
        BY <3>1, <3>3, OffersGo
    <2> QED
      BY <1>1, <2>1, <2>2, <2>3, <2>4, ProbeStacks
  <1>2. CASE ClassGet(t)
    <2>1. Goes(t, Idle) \/ (call[t] \in MissCalls /\ Goes(t, [call[t] EXCEPT !.pc = "allocate"]))
      BY <1>2, ClassGetDoes DEF CountsHit, CountsMiss
    <2>2. call[t] \in MissCalls => Offers([call[t] EXCEPT !.pc = "allocate"])
      BY DEF Offers, MissCalls
    <2>3. UNCHANGED storage
      BY <1>2 DEF ClassGet
    <2> QED
      BY <2>1, <2>2, <2>3, OffersGo, OtherCalls, StorageStands
  <1>3. CASE Allocate(t)
    <2>1. call[t] \in MissCalls /\ Goes(t, [call[t] EXCEPT !.pc = "classAllocation"])
      BY <1>3, AllocateDoes
    <2>2. Offers([call[t] EXCEPT !.pc = "classAllocation"])
      BY <2>1 DEF Offers, MissCalls
    <2>3. PICK i, r, x : i = call[t].class /\ r = call[t].primary /\ x = shard[i][r]
      OBVIOUS
    <2>4. i \in Classes /\ r \in Shards
      BY <2>1, <2>3 DEF MissCalls
    <2>5. PICK k : k = ShardAllocation(x.counters, ClassSizes[i])
      OBVIOUS
    <2>6. shard' = [shard EXCEPT ![i][r].counters = k] /\ UNCHANGED answer
      BY <1>3, <2>3, <2>5 DEF Allocate
    <2>7. [x EXCEPT !.counters = k].bucket = x.bucket
      BY <2>3, <2>4 DEF ShardsOK, CellSet
    <2>8. \A j \in Classes, q \in Shards : shard'[j][q].bucket = shard[j][q].bucket
      BY <2>3, <2>6, <2>7 DEF ShardsOK
    <2> QED
      BY <2>1, <2>2, <2>6, <2>8, OffersGo, BucketsStand DEF StackStep, AnswersOK
  <1>4. CASE ClassAllocation(t) \/ ClassPut(t) \/ ClassTrim(t) \/ ClassClear(t)
    <2>1. Goes(t, Idle)
      BY <1>4, ClassAllocationDoes, ClassPutDoes, ClassTrimDoes, ClassClearDoes
    <2>2. UNCHANGED storage
      BY <1>4 DEF ClassAllocation, ClassPut, ClassTrim, ClassClear
    <2> QED
      BY <2>1, <2>2, OffersGo, OtherCalls, StorageStands
  <1>5. ASSUME NEW reason \in Reasons, Refuse(t, reason) PROVE StackStep /\ StackInv'
    <2>1. Goes(t, Idle)
      BY <1>5, RefuseDoes
    <2>2. UNCHANGED storage
      BY <1>5 DEF Refuse
    <2> QED
      BY <2>1, <2>2, OffersGo, OtherCalls, StorageStands
  <1>6. ASSUME NEW i \in Classes, NEW s \in Shards, TryRetain(t, i, s) PROVE StackStep /\ StackInv'
    <2>1. Offers(call[t])
      BY DEF OffersOK
    <2>2. PICK c : c = call[t]
      OBVIOUS
    <2>3. Goes(t, Recorded(i, "drop", c.capacity)) \/ Goes(t, Recorded(i, "retain", c.capacity))
      BY <1>6, <2>2, TryRetainDoes DEF Unseen, Refused, Retained
    <2>4. \A r : Offers(Recorded(i, r, c.capacity))
      BY DEF Offers, Recorded
    <2>5. OffersOK'
      BY <2>3, <2>4, OffersGo
    <2> QED
      BY <1>6, <2>1, <2>5, TryRetainStacks
  <1>7. CASE ClearShard(t)
    <2>1. PICK c : c = call[t]
      OBVIOUS
    <2>2. PICK r \in Amounts : Goes(t, Cleared(c, Plus(c.removed, r)))
      BY <1>7, <2>1, ClearShardDoes
    <2>3. c \in ClearCalls
      BY <1>7, <2>1, ClearShardDoes
    <2>4. Offers(Cleared(c, Plus(c.removed, r)))
      BY <2>3 DEF Offers, Cleared, ClearCalls
    <2> QED
      BY <1>7, <2>2, <2>4, OffersGo, ClearStacks
  <1> QED
    BY <1>1, <1>2, <1>3, <1>4, <1>5, <1>6, <1>7 DEF Advance

LEMMA StackNext ==
    ASSUME StockInv, StackInv, [TelemetryNext]_telemetryVars
    PROVE  StackStep /\ StackInv'
  <1>1. ASSUME UNCHANGED <<storage, call>> PROVE StackStep /\ StackInv'
    <2>1. AnswersOK /\ OffersOK
      BY DEF StackInv
    <2>2. OffersOK'
      BY <1>1, <2>1 DEF OffersOK, Offers
    <2> QED
      BY <1>1, <2>1, <2>2, StorageStands DEF StackInv
  <1>2. CASE Read
    <2>1. UNCHANGED <<storage, call>>
      BY <1>2 DEF Read, StartRead, LoadNext, CommitCycle, CommitOthers, Discard
    <2> QED
      BY <1>1, <2>1
  <1>3. CASE Quiet \/ UNCHANGED telemetryVars
    <2>1. UNCHANGED <<storage, call>>
      BY <1>3 DEF Quiet, telemetryVars
    <2> QED
      BY <1>1, <2>1
  <1> QED
    BY <1>2, <1>3, StackCall, StackAdvance DEF TelemetryNext

LEMMA StackInit ==
    ASSUME TelemetryInit
    PROVE  Storage!Init /\ StackInv
  <1>1. shard = [i \in Classes |-> [s \in Shards |-> [bucket |-> EmptyBucket, counters |-> NewShardCounters]]]
    BY DEF TelemetryInit
  <1>2. PICK a : a = Answered(<<"new">>, Left(EmptyBucket, None))
    OBVIOUS
  <1>3. answer = [i \in Classes |-> [s \in Shards |-> a]]
    BY <1>2 DEF TelemetryInit
  <1>4. a = Storage!Answer(<<"new">>, 0, 0)
    BY <1>2 DEF Answered, Left, None, Storage!Answer
  <1>5. ASSUME NEW k \in Places
        PROVE  Contents(shard[k[1]][k[2]].bucket) = <<>> /\ answer[k[1]][k[2]] = a
    <2>1. k[1] \in Classes /\ k[2] \in Shards
      BY DEF Places
    <2>2. shard[k[1]][k[2]].bucket = EmptyBucket
      BY <1>1, <2>1
    <2> QED
      BY <1>3, <2>1, <2>2, EmptyFacts
  <1>6. Storage!Init
    BY <1>4, <1>5 DEF Storage!Init, CellAt
  <1>7. AnswersOK
    BY <1>3 DEF AnswersOK
  <1>8. OffersOK
    <2>1. \A t \in Threads : call[t] = Idle
      BY DEF TelemetryInit
    <2> QED
      BY <2>1, OtherCalls DEF OffersOK
  <1> QED
    BY <1>6, <1>7, <1>8 DEF StackInv

(* Every behaviour of the shards, with any calls of any number of goroutines, is one of    *)
(* bounded stacks: the segments, their lazy allocation and release and the counts kept     *)
(* beside them never show, each call returns what the stack would, and a trim stops        *)
(* neither early nor late (bucket.go:122-239, bucket_trim.go, shard.go).                   *)
THEOREM StoresAreStacks == TelemetrySpec => ImplementsStack
  <1>1. ASSUME StockInv, StackInv, [TelemetryNext]_telemetryVars PROVE StackInv' /\ [Storage!Next]_(Storage!vars)
    BY <1>1, StackNext DEF StackStep
  <1> QED
    BY <1>1, StackInit, StockAlways, PTL DEF TelemetrySpec, ImplementsStack, Storage!Spec
=============================================================================
