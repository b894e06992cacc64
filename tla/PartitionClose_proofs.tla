----------------------- MODULE PartitionClose_proofs -----------------------
(* Proofs about PartitionClose, for any number of callers and leases.          *)
EXTENDS PartitionClose, TLAPS

-----------------------------------------------------------------------------
(* The inductive invariant *)

Types ==
    /\ lifecycle \in {"Active", "Closing", "Closed"}
    /\ registryOpen \in BOOLEAN /\ poolsOpen \in BOOLEAN
    /\ active \in Nat
    /\ closeMu \in Threads \cup {NoThread}
    /\ readers \subseteq Processes
    /\ writer \in {"none", "waiting", "held"}
    /\ hardCleanup \in BOOLEAN /\ lostHandoff \in BOOLEAN
    /\ pc \in [Processes -> ThreadPC \cup SchedulerPC]
    /\ pc[Scheduler] \in SchedulerPC
    /\ \A t \in Threads : pc[t] \in ThreadPC

(* The locks are held where the code says so. *)
Locks ==
    /\ \A p \in Processes : pc[p] \in ReaderPC => p \in readers
    /\ \A t \in Threads : pc[t] \in CloserPC => closeMu = t
    /\ \A t \in Threads : pc[t] \in WaitPC => writer # "none"
    /\ \A t \in Threads : pc[t] \in WritePC => writer = "held" /\ readers = {}

(* Shutdown under closeMu: how far it has got where. *)
Shutdown ==
    /\ lifecycle = "Active" => registryOpen /\ poolsOpen
    /\ lifecycle = "Closed" => ~registryOpen /\ ~poolsOpen
    /\ ~poolsOpen => lifecycle = "Closed" \/ \E t \in Threads : pc[t] \in {"clMark", "grMark"}
    /\ \A t \in Threads :
        /\ pc[t] \in {"clRegistry", "clPools", "grAnnounce", "grWait", "grPools"} =>
              lifecycle = "Closing" /\ poolsOpen
        /\ pc[t] \in {"grRegistry", "clMark", "grMark"} => lifecycle # "Active"
        /\ pc[t] \in {"clPools", "clMark", "grMark"} => ~registryOpen
        /\ pc[t] \in {"clMark", "grMark"} => ~poolsOpen
        /\ pc[t] \in {"clUnlock", "clUnlockMu", "clReturned",
                      "grUnlock", "grUnlockMu", "grDrained"} => lifecycle = "Closed"

(* A graceful close that has seen no active lease may rely on it from then on. *)
Drain ==
    /\ \A t \in Threads :
        /\ pc[t] = "grPoll" => ~registryOpen
        /\ pc[t] \in {"grLock", "grCheck", "grAnnounce", "grWait", "grPools"} =>
              ~registryOpen /\ active = 0
        /\ pc[t] = "relHandoff" /\ ~poolsOpen => hardCleanup
    /\ ~poolsOpen /\ ~hardCleanup => ~registryOpen /\ active = 0

(* Past the wait for the scheduler there is none, and none is started again. *)
Stopped ==
    \A t \in Threads :
        pc[t] \in {"clAnnounce", "clWait", "clBegin", "clRegistry", "clPools", "clMark",
                   "clUnlock", "clUnlockMu", "clReturned"} => pc[Scheduler] = "off"

IInv ==
    /\ Types /\ Locks /\ Shutdown /\ Drain /\ Stopped
    /\ WorkSeesOpenPools /\ GracefulHandoffs

-----------------------------------------------------------------------------
(* Every step preserves the invariant. *)

LEMMA TypesStep == Types /\ [Next]_vars => Types'
<1> SUFFICES ASSUME Types, [Next]_vars PROVE Types'
    OBVIOUS
<1> USE ProcessAssumption DEF Goto, Types, Processes, ThreadPC, SchedulerPC, ReaderPC, AcquirePC, CyclePC, WaitPC, WritePC, CloserPC
<1>1. CASE UNCHANGED vars
    BY <1>1 DEF vars, children, gate, history
<1>2. ASSUME NEW t \in Threads, Start(t) PROVE Types'
    BY <1>2 DEF Start, StartAcquire, StartRelease, StartTick, StartClose, StartGraceful, Call, children, gate, history
<1>3. ASSUME NEW t \in Threads, Answered(t) PROVE Types'
    BY <1>3 DEF Answered, children, gate, history
<1>4. ASSUME NEW p \in Processes, ReadLock(p) PROVE Types'
    BY <1>4 DEF ReadLock, NextOfLock, children, gate, history
<1>5. ASSUME NEW p \in Processes, GateCheck(p) PROVE Types'
    BY <1>5 DEF GateCheck, AllowsWork, children, gate, history
<1>6. ASSUME NEW p \in Processes, ReadUnlock(p) PROVE Types'
    BY <1>6 DEF ReadUnlock, AfterRefusal, AfterOperation, children, gate, history
<1>7. ASSUME NEW t \in Threads, AcquireCheck(t) PROVE Types'
    BY <1>7 DEF AcquireCheck, children, gate, history
<1>8. ASSUME NEW t \in Threads, AcquireGet(t) PROVE Types'
    BY <1>8 DEF AcquireGet, children, gate, history
<1>9. ASSUME NEW t \in Threads, AcquireRegister(t) PROVE Types'
    BY <1>9 DEF AcquireRegister, Recheck, children, gate, history
<1>10. ASSUME NEW t \in Threads, Consume(t) PROVE Types'
    BY <1>10 DEF Consume, HasLease, children, gate, history
<1>11. ASSUME NEW t \in Threads, Handoff(t) PROVE Types'
    <2>1. lostHandoff' \in BOOLEAN
        BY <1>11, Zenon DEF Handoff
    <2>2. pc' \in [Processes -> ThreadPC \cup SchedulerPC] /\ pc'[Scheduler] \in SchedulerPC
          /\ \A u \in Threads : pc'[u] \in ThreadPC
        BY <1>11 DEF Handoff
    <2>3. UNCHANGED <<lifecycle, registryOpen, poolsOpen, active, closeMu, readers, writer, hardCleanup>>
        BY <1>11 DEF Handoff, children, gate, history
    <2> QED
        BY <2>1, <2>2, <2>3
<1>12. ASSUME NEW p \in Processes, TickGate(p) PROVE Types'
    BY <1>12 DEF TickGate, children, gate, history
<1>13. ASSUME NEW p \in Processes, TickWork(p) PROVE Types'
    BY <1>13 DEF TickWork, children, gate, history
<1>14. ASSUME SchedulerTick PROVE Types'
    BY <1>14 DEF SchedulerTick, children, gate, history
<1>15. ASSUME SchedulerStop PROVE Types'
    BY <1>15 DEF SchedulerStop, children, gate, history
<1>16. ASSUME SchedulerFinish PROVE Types'
    BY <1>16 DEF SchedulerFinish, children, gate, history
<1>17. ASSUME NEW t \in Threads, LockCloseMu(t) PROVE Types'
    BY <1>17 DEF LockCloseMu, NextOfCloseMu, children, gate, history
<1>18. ASSUME NEW t \in Threads, AnnounceWriter(t) PROVE Types'
    BY <1>18 DEF AnnounceWriter, children, gate, history
<1>19. ASSUME NEW t \in Threads, WriteLock(t) PROVE Types'
    BY <1>19 DEF WriteLock, ReadersHaveLeft, children, gate, history
<1>20. ASSUME NEW t \in Threads, CloseRegistry(t) PROVE Types'
    <2>1. registryOpen' \in BOOLEAN
        BY <1>20, Zenon DEF CloseRegistry
    <2>2. pc' \in [Processes -> ThreadPC \cup SchedulerPC] /\ pc'[Scheduler] \in SchedulerPC
          /\ \A u \in Threads : pc'[u] \in ThreadPC
        BY <1>20 DEF CloseRegistry
    <2>3. UNCHANGED <<lifecycle, poolsOpen, active, closeMu, readers, writer, hardCleanup, lostHandoff>>
        BY <1>20 DEF CloseRegistry, children, gate, history
    <2> QED
        BY <2>1, <2>2, <2>3
<1>21. ASSUME NEW t \in Threads, ClosePools(t) PROVE Types'
    <2>1. poolsOpen' \in BOOLEAN /\ hardCleanup' \in BOOLEAN
        BY <1>21, Zenon DEF ClosePools
    <2>2. pc' \in [Processes -> ThreadPC \cup SchedulerPC] /\ pc'[Scheduler] \in SchedulerPC
          /\ \A u \in Threads : pc'[u] \in ThreadPC
        BY <1>21 DEF ClosePools
    <2>3. UNCHANGED <<lifecycle, registryOpen, active, closeMu, readers, writer, lostHandoff>>
        BY <1>21 DEF ClosePools, children, gate, history
    <2> QED
        BY <2>1, <2>2, <2>3
<1>22. ASSUME NEW t \in Threads, MarkClosed(t) PROVE Types'
    BY <1>22 DEF MarkClosed, children, gate, history
<1>23. ASSUME NEW t \in Threads, UnlockForeground(t) PROVE Types'
    BY <1>23 DEF UnlockForeground, children, gate, history
<1>24. ASSUME NEW t \in Threads, UnlockCloseMu(t) PROVE Types'
    BY <1>24 DEF UnlockCloseMu, children, gate, history
<1>25. ASSUME NEW t \in Threads, StopScheduler(t) PROVE Types'
    BY <1>25 DEF StopScheduler, children, gate, history
<1>26. ASSUME NEW t \in Threads, AwaitScheduler(t) PROVE Types'
    BY <1>26 DEF AwaitScheduler, Done, children, gate, history
<1>27. ASSUME NEW t \in Threads, BeginOrContinue(t) PROVE Types'
    BY <1>27 DEF BeginOrContinue, CleanupIsToBeDone, children, gate, history
<1>28. ASSUME NEW t \in Threads, BeginOrJoin(t) PROVE Types'
    BY <1>28 DEF BeginOrJoin, children, gate, history
<1>29. ASSUME NEW t \in Threads, PollDrained(t) PROVE Types'
    BY <1>29 DEF PollDrained, children, gate, history
<1>30. ASSUME NEW t \in Threads, PollTimesOut(t) PROVE Types'
    BY <1>30 DEF PollTimesOut, children, gate, history
<1>31. ASSUME NEW t \in Threads, GracefulCheck(t) PROVE Types'
    BY <1>31 DEF GracefulCheck, OtherHasFinished, children, gate, history
<1> QED
    BY <1>1, <1>2, <1>3, <1>4, <1>5, <1>6, <1>7, <1>8, <1>9, <1>10, <1>11, <1>12, <1>13, <1>14, <1>15, <1>16, <1>17, <1>18, <1>19, <1>20, <1>21, <1>22, <1>23, <1>24, <1>25, <1>26, <1>27, <1>28, <1>29, <1>30, <1>31 DEF Next, SchedulerStep, Step, OperationStep, CloseStep

LEMMA LocksStep == Types /\ Locks /\ [Next]_vars => Locks'
<1> SUFFICES ASSUME Types, Locks, [Next]_vars PROVE Locks'
    OBVIOUS
<1> USE ProcessAssumption DEF Goto, Types, Locks, Processes, ThreadPC, SchedulerPC, ReaderPC, AcquirePC, CyclePC, WaitPC, WritePC, CloserPC
<1>1. CASE UNCHANGED vars
    BY <1>1 DEF vars, children, gate, history
<1>2. ASSUME NEW t \in Threads, Start(t) PROVE Locks'
    BY <1>2 DEF Start, StartAcquire, StartRelease, StartTick, StartClose, StartGraceful, Call, children, gate, history
<1>3. ASSUME NEW t \in Threads, Answered(t) PROVE Locks'
    BY <1>3 DEF Answered, children, gate, history
<1>4. ASSUME NEW p \in Processes, ReadLock(p) PROVE Locks'
    BY <1>4 DEF ReadLock, NextOfLock, children, gate, history
<1>5. ASSUME NEW p \in Processes, GateCheck(p) PROVE Locks'
    BY <1>5 DEF GateCheck, AllowsWork, children, gate, history
<1>6. ASSUME NEW p \in Processes, ReadUnlock(p) PROVE Locks'
    BY <1>6 DEF ReadUnlock, AfterRefusal, AfterOperation, children, gate, history
<1>7. ASSUME NEW t \in Threads, AcquireCheck(t) PROVE Locks'
    BY <1>7 DEF AcquireCheck, children, gate, history
<1>8. ASSUME NEW t \in Threads, AcquireGet(t) PROVE Locks'
    BY <1>8 DEF AcquireGet, children, gate, history
<1>9. ASSUME NEW t \in Threads, AcquireRegister(t) PROVE Locks'
    BY <1>9 DEF AcquireRegister, Recheck, children, gate, history
<1>10. ASSUME NEW t \in Threads, Consume(t) PROVE Locks'
    BY <1>10 DEF Consume, HasLease, children, gate, history
<1>11. ASSUME NEW t \in Threads, Handoff(t) PROVE Locks'
    BY <1>11 DEF Handoff, children, gate, history
<1>12. ASSUME NEW p \in Processes, TickGate(p) PROVE Locks'
    BY <1>12 DEF TickGate, children, gate, history
<1>13. ASSUME NEW p \in Processes, TickWork(p) PROVE Locks'
    BY <1>13 DEF TickWork, children, gate, history
<1>14. ASSUME SchedulerTick PROVE Locks'
    BY <1>14 DEF SchedulerTick, children, gate, history
<1>15. ASSUME SchedulerStop PROVE Locks'
    BY <1>15 DEF SchedulerStop, children, gate, history
<1>16. ASSUME SchedulerFinish PROVE Locks'
    BY <1>16 DEF SchedulerFinish, children, gate, history
<1>17. ASSUME NEW t \in Threads, LockCloseMu(t) PROVE Locks'
    BY <1>17 DEF LockCloseMu, NextOfCloseMu, children, gate, history
<1>18. ASSUME NEW t \in Threads, AnnounceWriter(t) PROVE Locks'
    BY <1>18 DEF AnnounceWriter, children, gate, history
<1>19. ASSUME NEW t \in Threads, WriteLock(t) PROVE Locks'
    BY <1>19 DEF WriteLock, ReadersHaveLeft, children, gate, history
<1>20. ASSUME NEW t \in Threads, CloseRegistry(t) PROVE Locks'
    BY <1>20 DEF CloseRegistry, children, gate, history
<1>21. ASSUME NEW t \in Threads, ClosePools(t) PROVE Locks'
    BY <1>21 DEF ClosePools, children, gate, history
<1>22. ASSUME NEW t \in Threads, MarkClosed(t) PROVE Locks'
    BY <1>22 DEF MarkClosed, children, gate, history
<1>23. ASSUME NEW t \in Threads, UnlockForeground(t) PROVE Locks'
    BY <1>23 DEF UnlockForeground, children, gate, history
<1>24. ASSUME NEW t \in Threads, UnlockCloseMu(t) PROVE Locks'
    BY <1>24 DEF UnlockCloseMu, children, gate, history
<1>25. ASSUME NEW t \in Threads, StopScheduler(t) PROVE Locks'
    BY <1>25 DEF StopScheduler, children, gate, history
<1>26. ASSUME NEW t \in Threads, AwaitScheduler(t) PROVE Locks'
    BY <1>26 DEF AwaitScheduler, Done, children, gate, history
<1>27. ASSUME NEW t \in Threads, BeginOrContinue(t) PROVE Locks'
    BY <1>27 DEF BeginOrContinue, CleanupIsToBeDone, children, gate, history
<1>28. ASSUME NEW t \in Threads, BeginOrJoin(t) PROVE Locks'
    BY <1>28 DEF BeginOrJoin, children, gate, history
<1>29. ASSUME NEW t \in Threads, PollDrained(t) PROVE Locks'
    BY <1>29 DEF PollDrained, children, gate, history
<1>30. ASSUME NEW t \in Threads, PollTimesOut(t) PROVE Locks'
    BY <1>30 DEF PollTimesOut, children, gate, history
<1>31. ASSUME NEW t \in Threads, GracefulCheck(t) PROVE Locks'
    BY <1>31 DEF GracefulCheck, OtherHasFinished, children, gate, history
<1> QED
    BY <1>1, <1>2, <1>3, <1>4, <1>5, <1>6, <1>7, <1>8, <1>9, <1>10, <1>11, <1>12, <1>13, <1>14, <1>15, <1>16, <1>17, <1>18, <1>19, <1>20, <1>21, <1>22, <1>23, <1>24, <1>25, <1>26, <1>27, <1>28, <1>29, <1>30, <1>31 DEF Next, SchedulerStep, Step, OperationStep, CloseStep

LEMMA ShutdownStep == Types /\ Locks /\ Shutdown /\ Drain /\ [Next]_vars => Shutdown'
<1> SUFFICES ASSUME Types, Locks, Shutdown, Drain, [Next]_vars PROVE Shutdown'
    OBVIOUS
<1> USE ProcessAssumption DEF Goto, Types, Locks, Shutdown, Drain, Processes, ThreadPC, SchedulerPC, ReaderPC, AcquirePC, CyclePC, WaitPC, WritePC, CloserPC
<1>1. CASE UNCHANGED vars
    BY <1>1 DEF vars, children, gate, history
<1>2. ASSUME NEW t \in Threads, Start(t) PROVE Shutdown'
    BY <1>2 DEF Start, StartAcquire, StartRelease, StartTick, StartClose, StartGraceful, Call, children, gate, history
<1>3. ASSUME NEW t \in Threads, Answered(t) PROVE Shutdown'
    BY <1>3 DEF Answered, children, gate, history
<1>4. ASSUME NEW p \in Processes, ReadLock(p) PROVE Shutdown'
    BY <1>4 DEF ReadLock, NextOfLock, children, gate, history
<1>5. ASSUME NEW p \in Processes, GateCheck(p) PROVE Shutdown'
    BY <1>5 DEF GateCheck, AllowsWork, children, gate, history
<1>6. ASSUME NEW p \in Processes, ReadUnlock(p) PROVE Shutdown'
    BY <1>6 DEF ReadUnlock, AfterRefusal, AfterOperation, children, gate, history
<1>7. ASSUME NEW t \in Threads, AcquireCheck(t) PROVE Shutdown'
    BY <1>7 DEF AcquireCheck, children, gate, history
<1>8. ASSUME NEW t \in Threads, AcquireGet(t) PROVE Shutdown'
    BY <1>8 DEF AcquireGet, children, gate, history
<1>9. ASSUME NEW t \in Threads, AcquireRegister(t) PROVE Shutdown'
    BY <1>9 DEF AcquireRegister, Recheck, children, gate, history
<1>10. ASSUME NEW t \in Threads, Consume(t) PROVE Shutdown'
    BY <1>10 DEF Consume, HasLease, children, gate, history
<1>11. ASSUME NEW t \in Threads, Handoff(t) PROVE Shutdown'
    BY <1>11 DEF Handoff, children, gate, history
<1>12. ASSUME NEW p \in Processes, TickGate(p) PROVE Shutdown'
    BY <1>12 DEF TickGate, children, gate, history
<1>13. ASSUME NEW p \in Processes, TickWork(p) PROVE Shutdown'
    BY <1>13 DEF TickWork, children, gate, history
<1>14. ASSUME SchedulerTick PROVE Shutdown'
    BY <1>14 DEF SchedulerTick, children, gate, history
<1>15. ASSUME SchedulerStop PROVE Shutdown'
    BY <1>15 DEF SchedulerStop, children, gate, history
<1>16. ASSUME SchedulerFinish PROVE Shutdown'
    BY <1>16 DEF SchedulerFinish, children, gate, history
<1>17. ASSUME NEW t \in Threads, LockCloseMu(t) PROVE Shutdown'
    BY <1>17 DEF LockCloseMu, NextOfCloseMu, children, gate, history
<1>18. ASSUME NEW t \in Threads, AnnounceWriter(t) PROVE Shutdown'
    BY <1>18 DEF AnnounceWriter, children, gate, history
<1>19. ASSUME NEW t \in Threads, WriteLock(t) PROVE Shutdown'
    BY <1>19 DEF WriteLock, ReadersHaveLeft, children, gate, history
<1>20. ASSUME NEW t \in Threads, CloseRegistry(t) PROVE Shutdown'
    BY <1>20 DEF CloseRegistry, children, gate, history
<1>21. ASSUME NEW t \in Threads, ClosePools(t) PROVE Shutdown'
    BY <1>21 DEF ClosePools, children, gate, history
<1>22. ASSUME NEW t \in Threads, MarkClosed(t) PROVE Shutdown'
    BY <1>22 DEF MarkClosed, children, gate, history
<1>23. ASSUME NEW t \in Threads, UnlockForeground(t) PROVE Shutdown'
    BY <1>23 DEF UnlockForeground, children, gate, history
<1>24. ASSUME NEW t \in Threads, UnlockCloseMu(t) PROVE Shutdown'
    BY <1>24 DEF UnlockCloseMu, children, gate, history
<1>25. ASSUME NEW t \in Threads, StopScheduler(t) PROVE Shutdown'
    BY <1>25 DEF StopScheduler, children, gate, history
<1>26. ASSUME NEW t \in Threads, AwaitScheduler(t) PROVE Shutdown'
    BY <1>26 DEF AwaitScheduler, Done, children, gate, history
<1>27. ASSUME NEW t \in Threads, BeginOrContinue(t) PROVE Shutdown'
    BY <1>27 DEF BeginOrContinue, CleanupIsToBeDone, children, gate, history
<1>28. ASSUME NEW t \in Threads, BeginOrJoin(t) PROVE Shutdown'
    BY <1>28 DEF BeginOrJoin, children, gate, history
<1>29. ASSUME NEW t \in Threads, PollDrained(t) PROVE Shutdown'
    BY <1>29 DEF PollDrained, children, gate, history
<1>30. ASSUME NEW t \in Threads, PollTimesOut(t) PROVE Shutdown'
    BY <1>30 DEF PollTimesOut, children, gate, history
<1>31. ASSUME NEW t \in Threads, GracefulCheck(t) PROVE Shutdown'
    BY <1>31 DEF GracefulCheck, OtherHasFinished, children, gate, history
<1> QED
    BY <1>1, <1>2, <1>3, <1>4, <1>5, <1>6, <1>7, <1>8, <1>9, <1>10, <1>11, <1>12, <1>13, <1>14, <1>15, <1>16, <1>17, <1>18, <1>19, <1>20, <1>21, <1>22, <1>23, <1>24, <1>25, <1>26, <1>27, <1>28, <1>29, <1>30, <1>31 DEF Next, SchedulerStep, Step, OperationStep, CloseStep

LEMMA DrainStep == Types /\ Locks /\ Shutdown /\ Drain /\ [Next]_vars => Drain'
<1> SUFFICES ASSUME Types, Locks, Shutdown, Drain, [Next]_vars PROVE Drain'
    OBVIOUS
<1> USE ProcessAssumption DEF Goto, Types, Locks, Shutdown, Drain, Processes, ThreadPC, SchedulerPC, ReaderPC, AcquirePC, CyclePC, WaitPC, WritePC, CloserPC
<1>1. CASE UNCHANGED vars
    BY <1>1 DEF vars, children, gate, history
<1>2. ASSUME NEW t \in Threads, Start(t) PROVE Drain'
    BY <1>2 DEF Start, StartAcquire, StartRelease, StartTick, StartClose, StartGraceful, Call, children, gate, history
<1>3. ASSUME NEW t \in Threads, Answered(t) PROVE Drain'
    BY <1>3 DEF Answered, children, gate, history
<1>4. ASSUME NEW p \in Processes, ReadLock(p) PROVE Drain'
    BY <1>4 DEF ReadLock, NextOfLock, children, gate, history
<1>5. ASSUME NEW p \in Processes, GateCheck(p) PROVE Drain'
    BY <1>5 DEF GateCheck, AllowsWork, children, gate, history
<1>6. ASSUME NEW p \in Processes, ReadUnlock(p) PROVE Drain'
    BY <1>6 DEF ReadUnlock, AfterRefusal, AfterOperation, children, gate, history
<1>7. ASSUME NEW t \in Threads, AcquireCheck(t) PROVE Drain'
    BY <1>7 DEF AcquireCheck, children, gate, history
<1>8. ASSUME NEW t \in Threads, AcquireGet(t) PROVE Drain'
    BY <1>8 DEF AcquireGet, children, gate, history
<1>9. ASSUME NEW t \in Threads, AcquireRegister(t) PROVE Drain'
    BY <1>9 DEF AcquireRegister, Recheck, children, gate, history
<1>10. ASSUME NEW t \in Threads, Consume(t) PROVE Drain'
    BY <1>10 DEF Consume, HasLease, children, gate, history
<1>11. ASSUME NEW t \in Threads, Handoff(t) PROVE Drain'
    BY <1>11 DEF Handoff, children, gate, history
<1>12. ASSUME NEW p \in Processes, TickGate(p) PROVE Drain'
    BY <1>12 DEF TickGate, children, gate, history
<1>13. ASSUME NEW p \in Processes, TickWork(p) PROVE Drain'
    BY <1>13 DEF TickWork, children, gate, history
<1>14. ASSUME SchedulerTick PROVE Drain'
    BY <1>14 DEF SchedulerTick, children, gate, history
<1>15. ASSUME SchedulerStop PROVE Drain'
    BY <1>15 DEF SchedulerStop, children, gate, history
<1>16. ASSUME SchedulerFinish PROVE Drain'
    BY <1>16 DEF SchedulerFinish, children, gate, history
<1>17. ASSUME NEW t \in Threads, LockCloseMu(t) PROVE Drain'
    BY <1>17 DEF LockCloseMu, NextOfCloseMu, children, gate, history
<1>18. ASSUME NEW t \in Threads, AnnounceWriter(t) PROVE Drain'
    BY <1>18 DEF AnnounceWriter, children, gate, history
<1>19. ASSUME NEW t \in Threads, WriteLock(t) PROVE Drain'
    BY <1>19 DEF WriteLock, ReadersHaveLeft, children, gate, history
<1>20. ASSUME NEW t \in Threads, CloseRegistry(t) PROVE Drain'
    BY <1>20 DEF CloseRegistry, children, gate, history
<1>21. ASSUME NEW t \in Threads, ClosePools(t) PROVE Drain'
    BY <1>21 DEF ClosePools, children, gate, history
<1>22. ASSUME NEW t \in Threads, MarkClosed(t) PROVE Drain'
    BY <1>22 DEF MarkClosed, children, gate, history
<1>23. ASSUME NEW t \in Threads, UnlockForeground(t) PROVE Drain'
    BY <1>23 DEF UnlockForeground, children, gate, history
<1>24. ASSUME NEW t \in Threads, UnlockCloseMu(t) PROVE Drain'
    BY <1>24 DEF UnlockCloseMu, children, gate, history
<1>25. ASSUME NEW t \in Threads, StopScheduler(t) PROVE Drain'
    BY <1>25 DEF StopScheduler, children, gate, history
<1>26. ASSUME NEW t \in Threads, AwaitScheduler(t) PROVE Drain'
    BY <1>26 DEF AwaitScheduler, Done, children, gate, history
<1>27. ASSUME NEW t \in Threads, BeginOrContinue(t) PROVE Drain'
    BY <1>27 DEF BeginOrContinue, CleanupIsToBeDone, children, gate, history
<1>28. ASSUME NEW t \in Threads, BeginOrJoin(t) PROVE Drain'
    BY <1>28 DEF BeginOrJoin, children, gate, history
<1>29. ASSUME NEW t \in Threads, PollDrained(t) PROVE Drain'
    BY <1>29 DEF PollDrained, children, gate, history
<1>30. ASSUME NEW t \in Threads, PollTimesOut(t) PROVE Drain'
    BY <1>30 DEF PollTimesOut, children, gate, history
<1>31. ASSUME NEW t \in Threads, GracefulCheck(t) PROVE Drain'
    BY <1>31 DEF GracefulCheck, OtherHasFinished, children, gate, history
<1> QED
    BY <1>1, <1>2, <1>3, <1>4, <1>5, <1>6, <1>7, <1>8, <1>9, <1>10, <1>11, <1>12, <1>13, <1>14, <1>15, <1>16, <1>17, <1>18, <1>19, <1>20, <1>21, <1>22, <1>23, <1>24, <1>25, <1>26, <1>27, <1>28, <1>29, <1>30, <1>31 DEF Next, SchedulerStep, Step, OperationStep, CloseStep

LEMMA StoppedStep == Types /\ Stopped /\ [Next]_vars => Stopped'
<1> SUFFICES ASSUME Types, Stopped, [Next]_vars PROVE Stopped'
    OBVIOUS
<1> USE ProcessAssumption DEF Goto, Types, Stopped, Processes, ThreadPC, SchedulerPC, ReaderPC, AcquirePC, CyclePC, WaitPC, WritePC, CloserPC
<1>1. CASE UNCHANGED vars
    BY <1>1 DEF vars, children, gate, history
<1>2. ASSUME NEW t \in Threads, Start(t) PROVE Stopped'
    BY <1>2 DEF Start, StartAcquire, StartRelease, StartTick, StartClose, StartGraceful, Call, children, gate, history
<1>3. ASSUME NEW t \in Threads, Answered(t) PROVE Stopped'
    BY <1>3 DEF Answered, children, gate, history
<1>4. ASSUME NEW p \in Processes, ReadLock(p) PROVE Stopped'
    BY <1>4 DEF ReadLock, NextOfLock, children, gate, history
<1>5. ASSUME NEW p \in Processes, GateCheck(p) PROVE Stopped'
    BY <1>5 DEF GateCheck, AllowsWork, children, gate, history
<1>6. ASSUME NEW p \in Processes, ReadUnlock(p) PROVE Stopped'
    BY <1>6 DEF ReadUnlock, AfterRefusal, AfterOperation, children, gate, history
<1>7. ASSUME NEW t \in Threads, AcquireCheck(t) PROVE Stopped'
    BY <1>7 DEF AcquireCheck, children, gate, history
<1>8. ASSUME NEW t \in Threads, AcquireGet(t) PROVE Stopped'
    BY <1>8 DEF AcquireGet, children, gate, history
<1>9. ASSUME NEW t \in Threads, AcquireRegister(t) PROVE Stopped'
    BY <1>9 DEF AcquireRegister, Recheck, children, gate, history
<1>10. ASSUME NEW t \in Threads, Consume(t) PROVE Stopped'
    BY <1>10 DEF Consume, HasLease, children, gate, history
<1>11. ASSUME NEW t \in Threads, Handoff(t) PROVE Stopped'
    BY <1>11 DEF Handoff, children, gate, history
<1>12. ASSUME NEW p \in Processes, TickGate(p) PROVE Stopped'
    BY <1>12 DEF TickGate, children, gate, history
<1>13. ASSUME NEW p \in Processes, TickWork(p) PROVE Stopped'
    BY <1>13 DEF TickWork, children, gate, history
<1>14. ASSUME SchedulerTick PROVE Stopped'
    BY <1>14 DEF SchedulerTick, children, gate, history
<1>15. ASSUME SchedulerStop PROVE Stopped'
    BY <1>15 DEF SchedulerStop, children, gate, history
<1>16. ASSUME SchedulerFinish PROVE Stopped'
    BY <1>16 DEF SchedulerFinish, children, gate, history
<1>17. ASSUME NEW t \in Threads, LockCloseMu(t) PROVE Stopped'
    BY <1>17 DEF LockCloseMu, NextOfCloseMu, children, gate, history
<1>18. ASSUME NEW t \in Threads, AnnounceWriter(t) PROVE Stopped'
    BY <1>18 DEF AnnounceWriter, children, gate, history
<1>19. ASSUME NEW t \in Threads, WriteLock(t) PROVE Stopped'
    BY <1>19 DEF WriteLock, ReadersHaveLeft, children, gate, history
<1>20. ASSUME NEW t \in Threads, CloseRegistry(t) PROVE Stopped'
    BY <1>20 DEF CloseRegistry, children, gate, history
<1>21. ASSUME NEW t \in Threads, ClosePools(t) PROVE Stopped'
    BY <1>21 DEF ClosePools, children, gate, history
<1>22. ASSUME NEW t \in Threads, MarkClosed(t) PROVE Stopped'
    BY <1>22 DEF MarkClosed, children, gate, history
<1>23. ASSUME NEW t \in Threads, UnlockForeground(t) PROVE Stopped'
    BY <1>23 DEF UnlockForeground, children, gate, history
<1>24. ASSUME NEW t \in Threads, UnlockCloseMu(t) PROVE Stopped'
    BY <1>24 DEF UnlockCloseMu, children, gate, history
<1>25. ASSUME NEW t \in Threads, StopScheduler(t) PROVE Stopped'
    BY <1>25 DEF StopScheduler, children, gate, history
<1>26. ASSUME NEW t \in Threads, AwaitScheduler(t) PROVE Stopped'
    BY <1>26 DEF AwaitScheduler, Done, children, gate, history
<1>27. ASSUME NEW t \in Threads, BeginOrContinue(t) PROVE Stopped'
    BY <1>27 DEF BeginOrContinue, CleanupIsToBeDone, children, gate, history
<1>28. ASSUME NEW t \in Threads, BeginOrJoin(t) PROVE Stopped'
    BY <1>28 DEF BeginOrJoin, children, gate, history
<1>29. ASSUME NEW t \in Threads, PollDrained(t) PROVE Stopped'
    BY <1>29 DEF PollDrained, children, gate, history
<1>30. ASSUME NEW t \in Threads, PollTimesOut(t) PROVE Stopped'
    BY <1>30 DEF PollTimesOut, children, gate, history
<1>31. ASSUME NEW t \in Threads, GracefulCheck(t) PROVE Stopped'
    BY <1>31 DEF GracefulCheck, OtherHasFinished, children, gate, history
<1> QED
    BY <1>1, <1>2, <1>3, <1>4, <1>5, <1>6, <1>7, <1>8, <1>9, <1>10, <1>11, <1>12, <1>13, <1>14, <1>15, <1>16, <1>17, <1>18, <1>19, <1>20, <1>21, <1>22, <1>23, <1>24, <1>25, <1>26, <1>27, <1>28, <1>29, <1>30, <1>31 DEF Next, SchedulerStep, Step, OperationStep, CloseStep

LEMMA WorkStep == Types /\ Locks /\ Shutdown /\ WorkSeesOpenPools /\ [Next]_vars => WorkSeesOpenPools'
<1> SUFFICES ASSUME Types, Locks, Shutdown, WorkSeesOpenPools, [Next]_vars PROVE WorkSeesOpenPools'
    OBVIOUS
<1> USE ProcessAssumption DEF Goto, Types, Locks, Shutdown, WorkSeesOpenPools, Processes, ThreadPC, SchedulerPC, ReaderPC, AcquirePC, CyclePC, WaitPC, WritePC, CloserPC
<1>1. CASE UNCHANGED vars
    BY <1>1 DEF vars, children, gate, history
<1>2. ASSUME NEW t \in Threads, Start(t) PROVE WorkSeesOpenPools'
    BY <1>2 DEF Start, StartAcquire, StartRelease, StartTick, StartClose, StartGraceful, Call, children, gate, history
<1>3. ASSUME NEW t \in Threads, Answered(t) PROVE WorkSeesOpenPools'
    BY <1>3 DEF Answered, children, gate, history
<1>4. ASSUME NEW p \in Processes, ReadLock(p) PROVE WorkSeesOpenPools'
    BY <1>4 DEF ReadLock, NextOfLock, children, gate, history
<1>5. ASSUME NEW p \in Processes, GateCheck(p) PROVE WorkSeesOpenPools'
    BY <1>5 DEF GateCheck, AllowsWork, children, gate, history
<1>6. ASSUME NEW p \in Processes, ReadUnlock(p) PROVE WorkSeesOpenPools'
    BY <1>6 DEF ReadUnlock, AfterRefusal, AfterOperation, children, gate, history
<1>7. ASSUME NEW t \in Threads, AcquireCheck(t) PROVE WorkSeesOpenPools'
    BY <1>7 DEF AcquireCheck, children, gate, history
<1>8. ASSUME NEW t \in Threads, AcquireGet(t) PROVE WorkSeesOpenPools'
    BY <1>8 DEF AcquireGet, children, gate, history
<1>9. ASSUME NEW t \in Threads, AcquireRegister(t) PROVE WorkSeesOpenPools'
    BY <1>9 DEF AcquireRegister, Recheck, children, gate, history
<1>10. ASSUME NEW t \in Threads, Consume(t) PROVE WorkSeesOpenPools'
    BY <1>10 DEF Consume, HasLease, children, gate, history
<1>11. ASSUME NEW t \in Threads, Handoff(t) PROVE WorkSeesOpenPools'
    BY <1>11 DEF Handoff, children, gate, history
<1>12. ASSUME NEW p \in Processes, TickGate(p) PROVE WorkSeesOpenPools'
    BY <1>12 DEF TickGate, children, gate, history
<1>13. ASSUME NEW p \in Processes, TickWork(p) PROVE WorkSeesOpenPools'
    BY <1>13 DEF TickWork, children, gate, history
<1>14. ASSUME SchedulerTick PROVE WorkSeesOpenPools'
    BY <1>14 DEF SchedulerTick, children, gate, history
<1>15. ASSUME SchedulerStop PROVE WorkSeesOpenPools'
    BY <1>15 DEF SchedulerStop, children, gate, history
<1>16. ASSUME SchedulerFinish PROVE WorkSeesOpenPools'
    BY <1>16 DEF SchedulerFinish, children, gate, history
<1>17. ASSUME NEW t \in Threads, LockCloseMu(t) PROVE WorkSeesOpenPools'
    BY <1>17 DEF LockCloseMu, NextOfCloseMu, children, gate, history
<1>18. ASSUME NEW t \in Threads, AnnounceWriter(t) PROVE WorkSeesOpenPools'
    BY <1>18 DEF AnnounceWriter, children, gate, history
<1>19. ASSUME NEW t \in Threads, WriteLock(t) PROVE WorkSeesOpenPools'
    BY <1>19 DEF WriteLock, ReadersHaveLeft, children, gate, history
<1>20. ASSUME NEW t \in Threads, CloseRegistry(t) PROVE WorkSeesOpenPools'
    BY <1>20 DEF CloseRegistry, children, gate, history
<1>21. ASSUME NEW t \in Threads, ClosePools(t) PROVE WorkSeesOpenPools'
    BY <1>21 DEF ClosePools, children, gate, history
<1>22. ASSUME NEW t \in Threads, MarkClosed(t) PROVE WorkSeesOpenPools'
    BY <1>22 DEF MarkClosed, children, gate, history
<1>23. ASSUME NEW t \in Threads, UnlockForeground(t) PROVE WorkSeesOpenPools'
    BY <1>23 DEF UnlockForeground, children, gate, history
<1>24. ASSUME NEW t \in Threads, UnlockCloseMu(t) PROVE WorkSeesOpenPools'
    BY <1>24 DEF UnlockCloseMu, children, gate, history
<1>25. ASSUME NEW t \in Threads, StopScheduler(t) PROVE WorkSeesOpenPools'
    BY <1>25 DEF StopScheduler, children, gate, history
<1>26. ASSUME NEW t \in Threads, AwaitScheduler(t) PROVE WorkSeesOpenPools'
    BY <1>26 DEF AwaitScheduler, Done, children, gate, history
<1>27. ASSUME NEW t \in Threads, BeginOrContinue(t) PROVE WorkSeesOpenPools'
    BY <1>27 DEF BeginOrContinue, CleanupIsToBeDone, children, gate, history
<1>28. ASSUME NEW t \in Threads, BeginOrJoin(t) PROVE WorkSeesOpenPools'
    BY <1>28 DEF BeginOrJoin, children, gate, history
<1>29. ASSUME NEW t \in Threads, PollDrained(t) PROVE WorkSeesOpenPools'
    BY <1>29 DEF PollDrained, children, gate, history
<1>30. ASSUME NEW t \in Threads, PollTimesOut(t) PROVE WorkSeesOpenPools'
    BY <1>30 DEF PollTimesOut, children, gate, history
<1>31. ASSUME NEW t \in Threads, GracefulCheck(t) PROVE WorkSeesOpenPools'
    BY <1>31 DEF GracefulCheck, OtherHasFinished, children, gate, history
<1> QED
    BY <1>1, <1>2, <1>3, <1>4, <1>5, <1>6, <1>7, <1>8, <1>9, <1>10, <1>11, <1>12, <1>13, <1>14, <1>15, <1>16, <1>17, <1>18, <1>19, <1>20, <1>21, <1>22, <1>23, <1>24, <1>25, <1>26, <1>27, <1>28, <1>29, <1>30, <1>31 DEF Next, SchedulerStep, Step, OperationStep, CloseStep

LEMMA HandoffStep == Types /\ Drain /\ GracefulHandoffs /\ [Next]_vars => GracefulHandoffs'
<1> SUFFICES ASSUME Types, Drain, GracefulHandoffs, [Next]_vars PROVE GracefulHandoffs'
    OBVIOUS
<1> USE ProcessAssumption DEF Goto, Types, Drain, GracefulHandoffs, Processes, ThreadPC, SchedulerPC, ReaderPC, AcquirePC, CyclePC, WaitPC, WritePC, CloserPC
<1>1. CASE UNCHANGED vars
    BY <1>1 DEF vars, children, gate, history
<1>2. ASSUME NEW t \in Threads, Start(t) PROVE GracefulHandoffs'
    BY <1>2 DEF Start, StartAcquire, StartRelease, StartTick, StartClose, StartGraceful, Call, children, gate, history
<1>3. ASSUME NEW t \in Threads, Answered(t) PROVE GracefulHandoffs'
    BY <1>3 DEF Answered, children, gate, history
<1>4. ASSUME NEW p \in Processes, ReadLock(p) PROVE GracefulHandoffs'
    BY <1>4 DEF ReadLock, NextOfLock, children, gate, history
<1>5. ASSUME NEW p \in Processes, GateCheck(p) PROVE GracefulHandoffs'
    BY <1>5 DEF GateCheck, AllowsWork, children, gate, history
<1>6. ASSUME NEW p \in Processes, ReadUnlock(p) PROVE GracefulHandoffs'
    BY <1>6 DEF ReadUnlock, AfterRefusal, AfterOperation, children, gate, history
<1>7. ASSUME NEW t \in Threads, AcquireCheck(t) PROVE GracefulHandoffs'
    BY <1>7 DEF AcquireCheck, children, gate, history
<1>8. ASSUME NEW t \in Threads, AcquireGet(t) PROVE GracefulHandoffs'
    BY <1>8 DEF AcquireGet, children, gate, history
<1>9. ASSUME NEW t \in Threads, AcquireRegister(t) PROVE GracefulHandoffs'
    BY <1>9 DEF AcquireRegister, Recheck, children, gate, history
<1>10. ASSUME NEW t \in Threads, Consume(t) PROVE GracefulHandoffs'
    BY <1>10 DEF Consume, HasLease, children, gate, history
<1>11. ASSUME NEW t \in Threads, Handoff(t) PROVE GracefulHandoffs'
    BY <1>11 DEF Handoff, children, gate, history
<1>12. ASSUME NEW p \in Processes, TickGate(p) PROVE GracefulHandoffs'
    BY <1>12 DEF TickGate, children, gate, history
<1>13. ASSUME NEW p \in Processes, TickWork(p) PROVE GracefulHandoffs'
    BY <1>13 DEF TickWork, children, gate, history
<1>14. ASSUME SchedulerTick PROVE GracefulHandoffs'
    BY <1>14 DEF SchedulerTick, children, gate, history
<1>15. ASSUME SchedulerStop PROVE GracefulHandoffs'
    BY <1>15 DEF SchedulerStop, children, gate, history
<1>16. ASSUME SchedulerFinish PROVE GracefulHandoffs'
    BY <1>16 DEF SchedulerFinish, children, gate, history
<1>17. ASSUME NEW t \in Threads, LockCloseMu(t) PROVE GracefulHandoffs'
    BY <1>17 DEF LockCloseMu, NextOfCloseMu, children, gate, history
<1>18. ASSUME NEW t \in Threads, AnnounceWriter(t) PROVE GracefulHandoffs'
    BY <1>18 DEF AnnounceWriter, children, gate, history
<1>19. ASSUME NEW t \in Threads, WriteLock(t) PROVE GracefulHandoffs'
    BY <1>19 DEF WriteLock, ReadersHaveLeft, children, gate, history
<1>20. ASSUME NEW t \in Threads, CloseRegistry(t) PROVE GracefulHandoffs'
    BY <1>20 DEF CloseRegistry, children, gate, history
<1>21. ASSUME NEW t \in Threads, ClosePools(t) PROVE GracefulHandoffs'
    BY <1>21 DEF ClosePools, children, gate, history
<1>22. ASSUME NEW t \in Threads, MarkClosed(t) PROVE GracefulHandoffs'
    BY <1>22 DEF MarkClosed, children, gate, history
<1>23. ASSUME NEW t \in Threads, UnlockForeground(t) PROVE GracefulHandoffs'
    BY <1>23 DEF UnlockForeground, children, gate, history
<1>24. ASSUME NEW t \in Threads, UnlockCloseMu(t) PROVE GracefulHandoffs'
    BY <1>24 DEF UnlockCloseMu, children, gate, history
<1>25. ASSUME NEW t \in Threads, StopScheduler(t) PROVE GracefulHandoffs'
    BY <1>25 DEF StopScheduler, children, gate, history
<1>26. ASSUME NEW t \in Threads, AwaitScheduler(t) PROVE GracefulHandoffs'
    BY <1>26 DEF AwaitScheduler, Done, children, gate, history
<1>27. ASSUME NEW t \in Threads, BeginOrContinue(t) PROVE GracefulHandoffs'
    BY <1>27 DEF BeginOrContinue, CleanupIsToBeDone, children, gate, history
<1>28. ASSUME NEW t \in Threads, BeginOrJoin(t) PROVE GracefulHandoffs'
    BY <1>28 DEF BeginOrJoin, children, gate, history
<1>29. ASSUME NEW t \in Threads, PollDrained(t) PROVE GracefulHandoffs'
    BY <1>29 DEF PollDrained, children, gate, history
<1>30. ASSUME NEW t \in Threads, PollTimesOut(t) PROVE GracefulHandoffs'
    BY <1>30 DEF PollTimesOut, children, gate, history
<1>31. ASSUME NEW t \in Threads, GracefulCheck(t) PROVE GracefulHandoffs'
    BY <1>31 DEF GracefulCheck, OtherHasFinished, children, gate, history
<1> QED
    BY <1>1, <1>2, <1>3, <1>4, <1>5, <1>6, <1>7, <1>8, <1>9, <1>10, <1>11, <1>12, <1>13, <1>14, <1>15, <1>16, <1>17, <1>18, <1>19, <1>20, <1>21, <1>22, <1>23, <1>24, <1>25, <1>26, <1>27, <1>28, <1>29, <1>30, <1>31 DEF Next, SchedulerStep, Step, OperationStep, CloseStep

-----------------------------------------------------------------------------
(* The invariant holds *)

LEMMA InitIInv == Init => IInv
<1> SUFFICES ASSUME Init PROVE IInv
    OBVIOUS
<1>1. pc \in [Processes -> {"idle", "select", "off"}]
    BY DEF Init, Processes
<1>2. /\ pc[Scheduler] \in {"select", "off"}
      /\ \A t \in Threads : pc[t] = "idle"
    BY ProcessAssumption DEF Init, Processes
<1>3. Types
    BY <1>1, <1>2 DEF Init, Types, ThreadPC, SchedulerPC
<1> QED
    BY <1>1, <1>2, <1>3 DEF Init, IInv, Locks, Shutdown, Drain, Stopped, WorkSeesOpenPools,
       GracefulHandoffs, ReaderPC, AcquirePC, CyclePC, CloserPC, WaitPC, WritePC, Processes

LEMMA NextIInv == IInv /\ [Next]_vars => IInv'
BY TypesStep, LocksStep, ShutdownStep, DrainStep, StoppedStep, WorkStep, HandoffStep DEF IInv

(* The invariant is inductive: locks, shutdown progress and drain hold together for  *)
(* any number of callers (partition_lifecycle.go:55-79, partition_drain.go:104-160). *)
THEOREM Inductive == Spec => []IInv
<1> QED
    BY InitIInv, NextIInv, PTL DEF Spec

(* Admitted acquisitions and controller cycles find the Pools open. *)
THEOREM WorkIsSafe == Spec => []WorkSeesOpenPools
<1>1. IInv => WorkSeesOpenPools
    BY DEF IInv
<1> QED
    BY <1>1, Inductive, PTL

(* Only a hard Close loses a hand-off of a release through the partition. *)
THEOREM HandoffsAreSafe == Spec => []GracefulHandoffs
<1>1. IInv => GracefulHandoffs
    BY DEF IInv
<1> QED
    BY <1>1, Inductive, PTL

(* A Close or a drained CloseGracefully that returns has left nothing to do. *)
THEOREM CloseCompletes == Spec => []CloseIsComplete
<1>1. IInv => CloseIsComplete
    BY DEF IInv, Shutdown, Stopped, CloseIsComplete
<1> QED
    BY <1>1, Inductive, PTL

(* The Pools are closed by one of the competing closes only. *)
THEOREM CleanupIsSingle == Spec => []CleanupRunsOnce
<1>1. IInv => CleanupRunsOnce
    BY DEF IInv, Shutdown, CleanupRunsOnce
<1> QED
    BY <1>1, Inductive, PTL

(* Only ClosePools closes the Pools; a graceful close does it with no lease active. *)
LEMMA DrainedBeforeClose ==
    IInv /\ [Next]_vars => (poolsOpen /\ ~poolsOpen' => active = 0 \/ hardCleanup')
<1> SUFFICES ASSUME IInv, [Next]_vars, poolsOpen, ~poolsOpen'
             PROVE  active = 0 \/ hardCleanup'
    OBVIOUS
<1>1. PICK t \in Threads : ClosePools(t)
    BY DEF Next, vars, children, gate, history, SchedulerStep, Start, Step, OperationStep, CloseStep,
       StartAcquire, StartRelease, StartTick, StartClose, StartGraceful, Call, Answered,
       ReadLock, GateCheck, ReadUnlock, AcquireCheck, AcquireGet, AcquireRegister, Consume,
       Handoff, TickGate, TickWork, SchedulerTick, SchedulerStop, SchedulerFinish,
       LockCloseMu, AnnounceWriter, WriteLock, CloseRegistry, MarkClosed, UnlockForeground,
       UnlockCloseMu, StopScheduler, AwaitScheduler, BeginOrContinue, BeginOrJoin,
       PollDrained, PollTimesOut, GracefulCheck
<1>2. CASE pc[t] = "clPools"
    BY <1>1, <1>2 DEF ClosePools
<1>3. CASE pc[t] = "grPools"
    BY <1>3 DEF IInv, Drain
<1> QED
    BY <1>1, <1>2, <1>3 DEF ClosePools

(* A graceful close never closes Pools under an active lease. *)
THEOREM GracefulIsSafe == Spec => GracefulWaitsForLeases
<1>1. IInv /\ [Next]_vars => [poolsOpen /\ ~poolsOpen' => active = 0 \/ hardCleanup']_vars
    BY DrainedBeforeClose
<1> QED
    BY <1>1, Inductive, PTL DEF Spec, GracefulWaitsForLeases
=============================================================================
