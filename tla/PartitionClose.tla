--------------------------- MODULE PartitionClose ---------------------------
(* Lifecycle of a PoolPartition: foreground operations behind the foreground      *)
(* gate, the controller scheduler, the hard Close and the graceful close          *)
(* (partition_operation_gate.go, partition_lifecycle.go, partition_drain.go,      *)
(* controller_scheduler.go).                                                     *)
(*                                                                               *)
(* The gate is a sync.RWMutex: a writer that waits keeps new readers out.  Only    *)
(* holders of closeMu write-lock it.  A graceful close publishes Closing and       *)
(* closes the lease registry with no lock at all, so both interleave with admitted *)
(* operations; a lease released directly (Lease.Release) passes no gate.           *)
(*                                                                               *)
(* Leases are a count, the owned Pools are open or closed together, and a          *)
(* controller cycle is one step under its gate; LeaseRegistry, PoolGate and        *)
(* PartitionActivity have the details.                                           *)
EXTENDS Naturals, FiniteSets

CONSTANTS Threads,    \* goroutines that call the partition
          Scheduler,  \* the goroutine of the controller scheduler
          NoThread,   \* closeMu is free
          MaxLeases   \* bound of the model: leases active or being acquired

ASSUME ProcessAssumption ==
    Scheduler \notin Threads /\ NoThread \notin Threads \cup {Scheduler}
ASSUME LeasesAssumption == IsFiniteSet(Threads) /\ MaxLeases \in Nat

VARIABLES lifecycle,      \* AtomicLifecycle of the partition
          registryOpen,   \* the LeaseRegistry admits acquisitions
          poolsOpen,      \* the owned Pools are open
          active,         \* leases in LeaseRegistry.active
          closeMu,        \* holder of closeMu
          readers,        \* readers of foregroundMu
          writer,         \* "none", "waiting" or "held"; the holder of closeMu
          cycleGate,      \* controllerCycleGate.running
          stopRequested,  \* the stop channel of the scheduler is closed
          pc,             \* what each goroutine executes next
          (* History, read by the properties only *)
          hardCleanup,    \* a hard Close has closed the Pools
          lostHandoff     \* a release through the partition found closed Pools

gate == <<readers, writer>>
children == <<registryOpen, poolsOpen, active>>
history == <<hardCleanup, lostHandoff>>
vars == <<lifecycle, children, closeMu, gate, cycleGate, stopRequested, pc, history>>

Processes == Threads \cup {Scheduler}

AllowsWork == lifecycle = "Active"

(* Admitted work of acquisitions and of controller cycles, holding the gate. *)
AcquirePC == {"acqRegistry", "acqGet", "acqRegister"}
CyclePC   == {"tickGate", "tickWork"}
(* The goroutine is a reader of foregroundMu. *)
ReaderPC  == {"acqCheck", "relConsume", "relHandoff", "tickCheck", "refused", "unlock"}
                \cup AcquirePC \cup CyclePC
(* It waits for foregroundMu, and holds it, as the writer. *)
WaitPC    == {"clWait", "grWait"}
WritePC   == {"clBegin", "clRegistry", "clPools", "clMark", "clUnlock",
              "grPools", "grMark", "grUnlock"}
(* It holds closeMu. *)
CloserPC  == {"clStop", "clStopWait", "clAnnounce", "clUnlockMu",
              "grCheck", "grAnnounce", "grUnlockMu"} \cup WaitPC \cup WritePC
ThreadPC  == {"idle", "acqLock", "relLock", "dirConsume", "dirHandoff", "tickLock",
              "clLock", "grBegin", "grRegistry", "grPoll", "grLock",
              "clReturned", "grDrained"} \cup ReaderPC \cup CloserPC
SchedulerPC == {"off", "select", "finish", "tickLock", "tickCheck", "refused", "unlock"}
                \cup CyclePC

Goto(p, label) == pc' = [pc EXCEPT ![p] = label]

(* NewPoolPartition: active, the scheduler started when the policy enables it. *)
Init ==
    /\ lifecycle = "Active"
    /\ registryOpen = TRUE /\ poolsOpen = TRUE /\ active = 0
    /\ closeMu = NoThread
    /\ readers = {} /\ writer = "none"
    /\ cycleGate = FALSE /\ stopRequested = FALSE
    /\ \E s \in {"select", "off"} :
          pc = [p \in Processes |-> IF p = Scheduler THEN s ELSE "idle"]
    /\ hardCleanup = FALSE /\ lostHandoff = FALSE

-----------------------------------------------------------------------------
(* Calls *)

Call(t, label) ==
    /\ pc[t] = "idle"
    /\ Goto(t, label)
    /\ UNCHANGED <<lifecycle, children, closeMu, gate, cycleGate, stopRequested, history>>

Acquiring == {t \in Threads : pc[t] \in AcquirePC \cup {"acqLock", "acqCheck"}}

StartAcquire(t)  == active + Cardinality(Acquiring) < MaxLeases /\ Call(t, "acqLock")
StartRelease(t)  == \E label \in {"relLock", "dirConsume"} : Call(t, label)
StartTick(t)     == Call(t, "tickLock")
StartClose(t)    == Call(t, "clLock")
StartGraceful(t) == Call(t, "grBegin")

(* The caller of Close or CloseGracefully has its answer. *)
Answered(t) ==
    /\ pc[t] \in {"clReturned", "grDrained"}
    /\ Goto(t, "idle")
    /\ UNCHANGED <<lifecycle, children, closeMu, gate, cycleGate, stopRequested, history>>

-----------------------------------------------------------------------------
(* The foreground gate *)

NextOfLock == [acqLock |-> "acqCheck", relLock |-> "relConsume", tickLock |-> "tickCheck"]

(* foregroundMu.RLock *)
ReadLock(p) ==
    /\ pc[p] \in DOMAIN NextOfLock
    /\ writer = "none"
    /\ readers' = readers \cup {p}
    /\ Goto(p, NextOfLock[pc[p]])
    /\ UNCHANGED <<lifecycle, children, closeMu, writer, cycleGate, stopRequested, history>>

(* beginForegroundOperation checks the lifecycle; a release does not. *)
GateCheck(p) ==
    /\ \/ pc[p] = "acqCheck"  /\ Goto(p, IF AllowsWork THEN "acqRegistry" ELSE "refused")
       \/ pc[p] = "tickCheck" /\ Goto(p, IF AllowsWork THEN "tickGate" ELSE "refused")
    /\ UNCHANGED <<lifecycle, children, closeMu, gate, cycleGate, stopRequested, history>>

(* The scheduler goes on after a tick; ErrClosed ends its loop. *)
AfterRefusal(p)     == IF p = Scheduler THEN "finish" ELSE "idle"
AfterOperation(p)   == IF p = Scheduler THEN "select" ELSE "idle"

(* foregroundMu.RUnlock *)
ReadUnlock(p) ==
    /\ \/ pc[p] = "refused" /\ Goto(p, AfterRefusal(p))
       \/ pc[p] = "unlock"  /\ Goto(p, AfterOperation(p))
    /\ readers' = readers \ {p}
    /\ UNCHANGED <<lifecycle, children, closeMu, writer, cycleGate, stopRequested, history>>

-----------------------------------------------------------------------------
(* Acquire *)

(* LeaseRegistry.AcquireSize: first check of the registry. *)
AcquireCheck(t) ==
    /\ pc[t] = "acqRegistry"
    /\ Goto(t, IF registryOpen THEN "acqGet" ELSE "unlock")
    /\ UNCHANGED <<lifecycle, children, closeMu, gate, cycleGate, stopRequested, history>>

(* Pool.GetSize *)
AcquireGet(t) ==
    /\ pc[t] = "acqGet"
    /\ Goto(t, IF poolsOpen THEN "acqRegister" ELSE "unlock")
    /\ UNCHANGED <<lifecycle, children, closeMu, gate, cycleGate, stopRequested, history>>

(* Under the registry lock: a lease, or the roll-back to the Pool when the         *)
(* registry has been closed meanwhile.                                           *)
NoRecheck == TRUE
Recheck   == registryOpen
AcquireRegister(t) ==
    /\ pc[t] = "acqRegister"
    /\ active' = IF Recheck THEN active + 1 ELSE active
    /\ Goto(t, "unlock")
    /\ UNCHANGED <<lifecycle, registryOpen, poolsOpen, closeMu, gate, cycleGate,
                   stopRequested, history>>

-----------------------------------------------------------------------------
(* Release, through the partition or of the lease itself *)

HasLease == active > 0

(* The record is consumed under its lock, or the release is invalid. *)
Consume(t) ==
    /\ \/ pc[t] = "relConsume" /\ HasLease /\ active' = active - 1 /\ Goto(t, "relHandoff")
       \/ pc[t] = "dirConsume" /\ HasLease /\ active' = active - 1 /\ Goto(t, "dirHandoff")
       \/ pc[t] = "relConsume" /\ UNCHANGED active /\ Goto(t, "unlock")
       \/ pc[t] = "dirConsume" /\ UNCHANGED active /\ Goto(t, "idle")
    /\ UNCHANGED <<lifecycle, registryOpen, poolsOpen, closeMu, gate, cycleGate,
                   stopRequested, history>>

(* The buffer is handed to its Pool; a closed Pool is recorded, not reported. *)
Handoff(t) ==
    /\ \/ /\ pc[t] = "relHandoff"
          /\ lostHandoff' = (lostHandoff \/ ~poolsOpen)
          /\ Goto(t, "unlock")
       \/ pc[t] = "dirHandoff" /\ Goto(t, "idle") /\ UNCHANGED lostHandoff
    /\ UNCHANGED <<lifecycle, children, closeMu, gate, cycleGate, stopRequested, hardCleanup>>

-----------------------------------------------------------------------------
(* TickInto, called by hand or by the scheduler *)

(* cycleGate.begin: a cycle that finds another one running returns at once. *)
TickGate(p) ==
    /\ pc[p] = "tickGate"
    /\ Goto(p, IF cycleGate THEN "unlock" ELSE "tickWork")
    /\ cycleGate' = TRUE
    /\ UNCHANGED <<lifecycle, children, closeMu, gate, stopRequested, history>>

(* The cycle samples the Pools and publishes budgets to them; cycleGate.end. *)
TickWork(p) ==
    /\ pc[p] = "tickWork"
    /\ cycleGate' = FALSE
    /\ Goto(p, "unlock")
    /\ UNCHANGED <<lifecycle, children, closeMu, gate, stopRequested, history>>

-----------------------------------------------------------------------------
(* controllerSchedulerRuntime.run: select takes either ready branch. *)

SchedulerTick ==
    /\ pc[Scheduler] = "select"
    /\ Goto(Scheduler, "tickLock")
    /\ UNCHANGED <<lifecycle, children, closeMu, gate, cycleGate, stopRequested, history>>

SchedulerStop ==
    /\ pc[Scheduler] = "select" /\ stopRequested
    /\ Goto(Scheduler, "finish")
    /\ UNCHANGED <<lifecycle, children, closeMu, gate, cycleGate, stopRequested, history>>

(* finish: running, stopping and the channels are reset and done is closed. *)
SchedulerFinish ==
    /\ pc[Scheduler] = "finish"
    /\ stopRequested' = FALSE
    /\ Goto(Scheduler, "off")
    /\ UNCHANGED <<lifecycle, children, closeMu, gate, cycleGate, history>>

-----------------------------------------------------------------------------
(* Steps of both closes *)

(* closeMu.Lock *)
NextOfCloseMu == [clLock |-> "clStop", grLock |-> "grCheck"]
GateBeforeStop(t) ==
    /\ pc[t] \in DOMAIN NextOfCloseMu /\ closeMu = NoThread
    /\ closeMu' = t
    /\ writer' = IF pc[t] = "clLock" THEN "waiting" ELSE writer
    /\ Goto(t, NextOfCloseMu[pc[t]])
    /\ UNCHANGED <<lifecycle, children, readers, cycleGate, stopRequested, history>>
LockCloseMu(t) ==
    /\ pc[t] \in DOMAIN NextOfCloseMu /\ closeMu = NoThread
    /\ closeMu' = t
    /\ Goto(t, NextOfCloseMu[pc[t]])
    /\ UNCHANGED <<lifecycle, children, gate, cycleGate, stopRequested, history>>

(* lockForegroundClose: the writer announces itself and waits for the readers. *)
AnnounceWriter(t) ==
    /\ \/ pc[t] = "clAnnounce" /\ Goto(t, "clWait")
       \/ pc[t] = "grAnnounce" /\ Goto(t, "grWait")
    /\ writer' = "waiting"
    /\ UNCHANGED <<lifecycle, children, closeMu, readers, cycleGate, stopRequested, history>>

NoReaderWait  == TRUE
ReadersHaveLeft == readers = {}
WriteLock(t) ==
    /\ ReadersHaveLeft
    /\ \/ pc[t] = "clWait" /\ Goto(t, "clBegin")
       \/ pc[t] = "grWait" /\ Goto(t, "grPools")
    /\ writer' = "held"
    /\ UNCHANGED <<lifecycle, children, closeMu, readers, cycleGate, stopRequested, history>>

(* leases.Close *)
CloseRegistry(t) ==
    /\ \/ pc[t] = "clRegistry" /\ Goto(t, "clPools")
       \/ pc[t] = "grRegistry" /\ Goto(t, "grPoll")
    /\ registryOpen' = FALSE
    /\ UNCHANGED <<lifecycle, poolsOpen, active, closeMu, gate, cycleGate, stopRequested,
                   history>>

(* registry.closeAll *)
ClosePools(t) ==
    /\ \/ pc[t] = "clPools" /\ Goto(t, "clMark") /\ hardCleanup' = TRUE
       \/ pc[t] = "grPools" /\ Goto(t, "grMark") /\ UNCHANGED hardCleanup
    /\ poolsOpen' = FALSE
    /\ UNCHANGED <<lifecycle, registryOpen, active, closeMu, gate, cycleGate,
                   stopRequested, lostHandoff>>

MarkClosed(t) ==
    /\ \/ pc[t] = "clMark" /\ Goto(t, "clUnlock")
       \/ pc[t] = "grMark" /\ Goto(t, "grUnlock")
    /\ lifecycle' = "Closed"
    /\ UNCHANGED <<children, closeMu, gate, cycleGate, stopRequested, history>>

(* The deferred unlocks, foregroundMu first.  A graceful close that found the      *)
(* partition Closed holds closeMu only.                                          *)
UnlockForeground(t) ==
    /\ \/ pc[t] = "clUnlock" /\ Goto(t, "clUnlockMu")
       \/ pc[t] = "grUnlock" /\ Goto(t, "grUnlockMu")
    /\ writer' = "none"
    /\ UNCHANGED <<lifecycle, children, closeMu, readers, cycleGate, stopRequested, history>>

UnlockCloseMu(t) ==
    /\ \/ pc[t] = "clUnlockMu" /\ Goto(t, "clReturned")
       \/ pc[t] = "grUnlockMu" /\ Goto(t, "grDrained")
    /\ closeMu' = NoThread
    /\ UNCHANGED <<lifecycle, children, gate, cycleGate, stopRequested, history>>

-----------------------------------------------------------------------------
(* Close *)

(* controllerSchedulerRuntime.Stop, under the mutex of the runtime ... *)
StopScheduler(t) ==
    /\ pc[t] = "clStop"
    /\ \/ pc[Scheduler] = "off" /\ Goto(t, "clAnnounce") /\ UNCHANGED stopRequested
       \/ pc[Scheduler] # "off" /\ Goto(t, "clStopWait") /\ stopRequested' = TRUE
    /\ UNCHANGED <<lifecycle, children, closeMu, gate, cycleGate, history>>

(* ... and then, without it, the wait for done. *)
DoneIgnored == TRUE
Done == pc[Scheduler] = "off"
AwaitScheduler(t) ==
    /\ pc[t] = "clStopWait" /\ Done
    /\ Goto(t, "clAnnounce")
    /\ UNCHANGED <<lifecycle, children, closeMu, gate, cycleGate, stopRequested, history>>

(* beginOrContinueSerializedCloseCleanupLocked: a timed-out graceful close is       *)
(* continued, a finished one leaves nothing to do.                               *)
OnlyWhenActive    == lifecycle = "Active"
CleanupIsToBeDone == lifecycle # "Closed"
BeginOrContinue(t) ==
    /\ pc[t] = "clBegin"
    /\ \/ CleanupIsToBeDone /\ lifecycle' = "Closing" /\ Goto(t, "clRegistry")
       \/ ~CleanupIsToBeDone /\ UNCHANGED lifecycle /\ Goto(t, "clUnlock")
    /\ UNCHANGED <<children, closeMu, gate, cycleGate, stopRequested, history>>

-----------------------------------------------------------------------------
(* CloseGracefully *)

(* beginOrJoinGracefulClose: no lock; an already closed partition is reported. *)
BeginOrJoin(t) ==
    /\ pc[t] = "grBegin"
    /\ \/ lifecycle = "Active"  /\ lifecycle' = "Closing" /\ Goto(t, "grRegistry")
       \/ lifecycle = "Closing" /\ UNCHANGED lifecycle /\ Goto(t, "grRegistry")
       \/ lifecycle = "Closed"  /\ UNCHANGED lifecycle /\ Goto(t, "idle")
    /\ UNCHANGED <<children, closeMu, gate, cycleGate, stopRequested, history>>

(* activeLeaseCount, read under the registry lock and used without it. *)
PollDrained(t) ==
    /\ pc[t] = "grPoll" /\ active = 0
    /\ Goto(t, "grLock")
    /\ UNCHANGED <<lifecycle, children, closeMu, gate, cycleGate, stopRequested, history>>

(* The deadline passes while leases are active: the partition stays Closing. *)
PollTimesOut(t) ==
    /\ pc[t] = "grPoll" /\ active > 0
    /\ Goto(t, "idle")
    /\ UNCHANGED <<lifecycle, children, closeMu, gate, cycleGate, stopRequested, history>>

(* A hard Close or another graceful close may have finished meanwhile. *)
NeverFinished  == FALSE
OtherHasFinished == lifecycle = "Closed"
GracefulCheck(t) ==
    /\ pc[t] = "grCheck"
    /\ Goto(t, IF OtherHasFinished THEN "grUnlockMu" ELSE "grAnnounce")
    /\ UNCHANGED <<lifecycle, children, closeMu, gate, cycleGate, stopRequested, history>>

-----------------------------------------------------------------------------
CloseStep(t) ==
    \/ StopScheduler(t) \/ AwaitScheduler(t) \/ BeginOrContinue(t)
    \/ BeginOrJoin(t) \/ PollDrained(t) \/ PollTimesOut(t) \/ GracefulCheck(t)
    \/ LockCloseMu(t) \/ AnnounceWriter(t) \/ WriteLock(t) \/ CloseRegistry(t)
    \/ ClosePools(t) \/ MarkClosed(t) \/ UnlockForeground(t) \/ UnlockCloseMu(t)
    \/ Answered(t)

OperationStep(p) ==
    \/ ReadLock(p) \/ GateCheck(p) \/ ReadUnlock(p)
    \/ TickGate(p) \/ TickWork(p)

Step(t) ==
    \/ OperationStep(t)
    \/ AcquireCheck(t) \/ AcquireGet(t) \/ AcquireRegister(t)
    \/ Consume(t) \/ Handoff(t)
    \/ CloseStep(t)

SchedulerStep ==
    OperationStep(Scheduler) \/ SchedulerTick \/ SchedulerStop \/ SchedulerFinish

Start(t) ==
    StartAcquire(t) \/ StartRelease(t) \/ StartTick(t) \/ StartClose(t) \/ StartGraceful(t)

Next == SchedulerStep \/ \E t \in Threads : Start(t) \/ Step(t)

Spec == Init /\ [][Next]_vars

(* Goroutines that can run are scheduled, timers fire.  sync.Mutex hands itself to  *)
(* a starving waiter; sync.RWMutex admits the readers that waited for a writer       *)
(* before the next writer; select chooses at random among its ready branches.       *)
Fairness ==
    /\ \A t \in Threads : /\ WF_vars(Step(t))
                          /\ SF_vars(LockCloseMu(t))
    /\ WF_vars(SchedulerStep) /\ SF_vars(SchedulerStop)
    /\ \A p \in Processes : SF_vars(ReadLock(p))

FairSpec == Spec /\ Fairness

-----------------------------------------------------------------------------
(* Properties *)

TypeOK ==
    /\ lifecycle \in {"Active", "Closing", "Closed"}
    /\ registryOpen \in BOOLEAN /\ poolsOpen \in BOOLEAN
    /\ active \in 0 .. MaxLeases
    /\ closeMu \in Threads \cup {NoThread}
    /\ readers \subseteq Processes
    /\ writer \in {"none", "waiting", "held"}
    /\ cycleGate \in BOOLEAN /\ stopRequested \in BOOLEAN
    /\ pc \in [Processes -> ThreadPC \cup SchedulerPC]
    /\ pc[Scheduler] \in SchedulerPC
    /\ \A t \in Threads : pc[t] \in ThreadPC
    /\ hardCleanup \in BOOLEAN /\ lostHandoff \in BOOLEAN

(* Work admitted by the gate never meets closed children: while an acquisition or a *)
(* controller cycle is inside, the Pools are open (partition_operation_gate.go:21-25, *)
(* 50-54), also when a graceful close has already published Closing.              *)
WorkSeesOpenPools ==
    (\E p \in Processes : pc[p] \in AcquirePC \cup CyclePC) => poolsOpen

(* CloseGracefully never closes Pools while a lease is active                      *)
(* (partition_drain.go:92-95), although it counts the leases long before it holds  *)
(* the gate.                                                                      *)
GracefulWaitsForLeases ==
    [][poolsOpen /\ ~poolsOpen' => active = 0 \/ hardCleanup']_vars

(* A buffer released through the partition reaches an open Pool unless a hard Close  *)
(* has closed it: only a race with hard Close loses hand-offs                      *)
(* (partition_drain.go:74-80).                                                   *)
GracefulHandoffs == lostHandoff => hardCleanup

(* When Close returns the shutdown is complete, whoever did the work: Closed, both   *)
(* children closed, no foreground work inside, and no scheduler goroutine left.     *)
(* The same holds for a drained CloseGracefully, the scheduler excepted.           *)
CloseIsComplete ==
    \A t \in Threads :
        /\ pc[t] \in {"clReturned", "grDrained"} =>
              lifecycle = "Closed" /\ ~registryOpen /\ ~poolsOpen
        /\ pc[t] = "clReturned" => pc[Scheduler] = "off"

(* Concurrent hard and graceful closes never close the Pools twice                 *)
(* (partition_drain.go:99-100).                                                  *)
CleanupRunsOnce ==
    \A t \in Threads : pc[t] \in {"clPools", "grPools"} => poolsOpen

(* Every close returns: Close waits for a scheduled cycle that itself needs the gate *)
(* Close is about to take, and both closes compete for closeMu.  Once the partition  *)
(* is shutting down the scheduler goroutine exits, also after a graceful close,      *)
(* which never stops it.                                                         *)
ShutdownEnds ==
    /\ \A t \in Threads : /\ (pc[t] = "clLock") ~> (pc[t] = "clReturned")
                          /\ (pc[t] = "grBegin") ~> (pc[t] = "idle")
    /\ (lifecycle # "Active") ~> (pc[Scheduler] = "off")
=============================================================================
