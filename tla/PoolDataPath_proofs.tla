------------------------- MODULE PoolDataPath_proofs -------------------------
(* The data path of a Pool: the gate that operations pass and Close shuts          *)
(* (PoolGate), for any number of goroutines and stores, and the shard credit that   *)
(* returns are judged by (ClassCredit), for any number of shards, class size and    *)
(* targets.                                                                      *)
EXTENDS PoolGate, ClassCredit, SumTheorems

-----------------------------------------------------------------------------
(* PoolGate: the inductive invariant *)

(* The closer is the goroutine that published Closing, and Closing lasts as     *)
(* long as it works.                                                           *)
CloserOwnsClosing ==
    \A t \in Threads : pc[t] \in CloserPC => lifecycle = "Closing"

DrainPC == {"drainLock", "drainCheck", "drainWait"}

(* The closer clears from the first store on, and the stores it has passed are  *)
(* empty.                                                                      *)
ClearProgress ==
    /\ lifecycle = "Active" => clearIndex = 0
    /\ \A t \in Threads :
        /\ pc[t] \in DrainPC => clearIndex = 0
        /\ pc[t] = "clear" =>
              clearOnClose /\ \A s \in Stores : s < clearIndex => retained[s] = 0
        /\ pc[t] = "markClosed" /\ clearOnClose => \A s \in Stores : retained[s] = 0

ClosedBeforeReturn ==
    \A t \in Threads : pc[t] \in {"closedNotify", "closeReturned"} => lifecycle = "Closed"

IInv ==
    /\ TypeOK
    /\ OperationsCounted
    /\ CloserOwnsClosing
    /\ SingleCloser
    /\ CleanupBarrier
    /\ ClearProgress
    /\ ClosedBeforeReturn
    /\ NothingRetainedAfterClose

LEMMA InitIInv == Init => IInv
<1> SUFFICES ASSUME Init PROVE IInv
    OBVIOUS
<1>1. Counted = {}
    BY DEF Init, Counted, CountedPC
<1>2. OperationsCounted
    BY <1>1, FS_EmptySet DEF OperationsCounted, Init
<1>3. TypeOK
    BY StoresAssumption DEF TypeOK, Init, AllPC, Stores
<1> QED
    BY <1>2, <1>3 DEF Init, IInv, CloserOwnsClosing, SingleCloser, CleanupBarrier,
       ClearProgress, ClosedBeforeReturn, NothingRetainedAfterClose, CloserPC, CleanupPC,
       DrainPC, Inside

-----------------------------------------------------------------------------
(* Type correctness is inductive up to the count, which keeps Add(-1) in Nat.   *)

LEMMA CountedFinite == TypeOK => IsFiniteSet(Counted)
BY ThreadsAssumption, FS_Subset DEF Counted

(* A goroutine that is counted makes the count positive. *)
LEMMA CountedPositive ==
    ASSUME TypeOK, OperationsCounted, NEW t \in Threads, pc[t] = "endAdd"
    PROVE  activeOperations \in Nat /\ activeOperations > 0
<1>1. t \in Counted
    BY DEF Counted, CountedPC
<1>2. Cardinality(Counted) # 0
    BY <1>1, CountedFinite, FS_EmptySet
<1> QED
    BY <1>2 DEF OperationsCounted, TypeOK

LEMMA TypeStep == TypeOK /\ OperationsCounted /\ [Next]_vars => TypeOK'
<1> SUFFICES ASSUME TypeOK, OperationsCounted, [Next]_vars PROVE TypeOK'
    OBVIOUS
<1> USE DEF TypeOK
<1>1. CASE UNCHANGED vars
    BY <1>1 DEF vars
<1>2. ASSUME NEW t \in Threads, StartOperation(t) PROVE TypeOK'
    BY <1>2 DEF StartOperation, Goto, SetOp, AllPC, GatePC
<1>3. ASSUME NEW t \in Threads, StartClose(t) PROVE TypeOK'
    BY <1>3 DEF StartClose, Goto, SetOp, AllPC
<1>4. ASSUME NEW t \in Threads, GateCheck(t) PROVE TypeOK'
    BY <1>4 DEF GateCheck, Goto, SetOp, AllPC, GatePC
<1>5. ASSUME NEW t \in Threads, GateAdd(t) PROVE TypeOK'
    BY <1>5 DEF GateAdd, Goto, AllPC, GatePC
<1>6. ASSUME NEW t \in Threads, GateRecheck(t) PROVE TypeOK'
    BY <1>6 DEF GateRecheck, SecondCheck, Goto, AllPC, GatePC, EndPC
<1>7. ASSUME NEW t \in Threads, Body(t) PROVE TypeOK'
    <2>1. retained' \in [Stores -> 0 .. StoreLimit]
        <3>1. CASE GetBody(t)
            BY <3>1, StoresAssumption DEF GetBody, SetRetained
        <3>2. CASE PutBody(t)
            BY <3>2, StoresAssumption DEF PutBody, SetRetained
        <3>3. CASE ControlBody(t)
            BY <3>3, StoresAssumption DEF ControlBody, SetRetained
        <3> QED
            BY <1>7, <3>1, <3>2, <3>3 DEF Body
    <2> QED
        BY <1>7, <2>1 DEF Body, Goto, AllPC, EndPC
<1>8. ASSUME NEW t \in Threads, EndAdd(t) PROVE TypeOK'
    <2>1. activeOperations' \in Nat
        BY <1>8, CountedPositive DEF EndAdd
    <2> QED
        BY <1>8, <2>1 DEF EndAdd, LeaveEnd, ResetReturn, Goto, SetOp, AllPC, EndPC, GatePC
<1>9. ASSUME NEW t \in Threads, EndLoad(t) PROVE TypeOK'
    BY <1>9 DEF EndLoad, MustNotify, LeaveEnd, ResetReturn, Goto, SetOp, AllPC, EndPC, GatePC
<1>10. ASSUME NEW t \in Threads, NEW label \in AllPC, Broadcast(t, label)
       PROVE  pc' \in [Threads -> AllPC]
    BY <1>10 DEF Broadcast, Woken, AllPC, CloserPC, FollowPC
<1>11. ASSUME NEW t \in Threads, EndNotify(t) PROVE TypeOK'
    <2>1. ret[t] \in AllPC
        BY DEF AllPC, GatePC
    <2> QED
        BY <1>10, <1>11, <2>1 DEF EndNotify, ResetReturn, SetOp, Broadcast
<1>12. ASSUME NEW t \in Threads, CloseBegin(t) PROVE TypeOK'
    BY <1>12 DEF CloseBegin, FollowerEntry, Goto, AllPC, CloserPC, FollowPC
<1>13. ASSUME NEW t \in Threads, LockCloseMu(t) PROVE TypeOK'
    BY <1>13 DEF LockCloseMu, Goto, AllPC, CloserPC, FollowPC
<1>14. ASSUME NEW t \in Threads, DrainCheck(t) PROVE TypeOK'
    BY <1>14 DEF DrainCheck, Drained, Goto, AllPC, CloserPC, CleanupPC
<1>15. ASSUME NEW t \in Threads, ClearStore(t) PROVE TypeOK'
    BY <1>15, StoresAssumption DEF ClearStore, StoresToClear, SetRetained, Goto, AllPC, CloserPC, CleanupPC
<1>16. ASSUME NEW t \in Threads, MarkClosed(t) PROVE TypeOK'
    BY <1>16 DEF MarkClosed, Goto, AllPC
<1>17. ASSUME NEW t \in Threads, ClosedNotify(t) PROVE TypeOK'
    <2>1. "closeReturned" \in AllPC
        BY DEF AllPC
    <2> QED
        BY <1>10, <1>17, <2>1 DEF ClosedNotify, Broadcast
<1>18. ASSUME NEW t \in Threads, ClosedCheck(t) PROVE TypeOK'
    BY <1>18 DEF ClosedCheck, Goto, AllPC, FollowPC
<1>19. ASSUME NEW t \in Threads, CloseReturn(t) PROVE TypeOK'
    BY <1>19 DEF CloseReturn, Goto, SetOp, AllPC
<1> QED
    BY <1>1, <1>2, <1>3, <1>4, <1>5, <1>6, <1>7, <1>8, <1>9, <1>11, <1>12, <1>13,
       <1>14, <1>15, <1>16, <1>17, <1>18, <1>19 DEF Next, Step

-----------------------------------------------------------------------------
(* The operation count *)

LEMMA CountSame ==
    ASSUME TypeOK, OperationsCounted, activeOperations' = activeOperations,
           \A u \in Threads : pc'[u] \in CountedPC <=> pc[u] \in CountedPC
    PROVE  OperationsCounted'
<1>1. Counted' = Counted
    BY DEF Counted
<1> QED
    BY <1>1 DEF OperationsCounted

LEMMA CountAdd ==
    ASSUME TypeOK, OperationsCounted, NEW t \in Threads,
           activeOperations' = activeOperations + 1,
           pc[t] \notin CountedPC, pc'[t] \in CountedPC,
           \A u \in Threads \ {t} : pc'[u] = pc[u]
    PROVE  OperationsCounted'
<1>1. Counted' = Counted \cup {t} /\ t \notin Counted
    BY DEF Counted
<1> QED
    BY <1>1, CountedFinite, FS_AddElement DEF OperationsCounted

LEMMA CountRemove ==
    ASSUME TypeOK, OperationsCounted, NEW t \in Threads,
           activeOperations' = activeOperations - 1,
           pc[t] \in CountedPC, pc'[t] \notin CountedPC,
           \A u \in Threads \ {t} : pc'[u] = pc[u]
    PROVE  OperationsCounted'
<1>1. Counted' = Counted \ {t} /\ t \in Counted
    BY DEF Counted
<1> QED
    BY <1>1, CountedFinite, FS_RemoveElement DEF OperationsCounted

LEMMA CountStep == TypeOK /\ OperationsCounted /\ [Next]_vars => OperationsCounted'
<1> SUFFICES ASSUME TypeOK, OperationsCounted, [Next]_vars PROVE OperationsCounted'
    OBVIOUS
<1> USE DEF CountedPC, TypeOK
<1>1. CASE UNCHANGED vars
    BY <1>1, CountSame DEF vars
<1>2. ASSUME NEW t \in Threads, StartOperation(t) \/ StartClose(t) \/ GateCheck(t)
      PROVE  OperationsCounted'
    BY <1>2, CountSame DEF StartOperation, StartClose, GateCheck, Goto
<1>3. ASSUME NEW t \in Threads, GateAdd(t) PROVE OperationsCounted'
    BY <1>3, CountAdd DEF GateAdd, Goto
<1>4. ASSUME NEW t \in Threads, GateRecheck(t) \/ Body(t) PROVE OperationsCounted'
    BY <1>4, CountSame DEF GateRecheck, SecondCheck, Body, Goto
<1>5. ASSUME NEW t \in Threads, EndAdd(t) PROVE OperationsCounted'
    BY <1>5, CountRemove DEF EndAdd, LeaveEnd, Goto
<1>6. ASSUME NEW t \in Threads, EndLoad(t) PROVE OperationsCounted'
    BY <1>6, CountSame DEF EndLoad, MustNotify, LeaveEnd, Goto
<1>7. ASSUME NEW t \in Threads, EndNotify(t) PROVE OperationsCounted'
    BY <1>7, CountSame DEF EndNotify, Broadcast, Woken
<1>8. ASSUME NEW t \in Threads, ClosedNotify(t) PROVE OperationsCounted'
    BY <1>8, CountSame DEF ClosedNotify, Broadcast, Woken
<1>9. ASSUME NEW t \in Threads, CloseBegin(t) \/ LockCloseMu(t) \/ DrainCheck(t)
      PROVE  OperationsCounted'
    BY <1>9, CountSame DEF CloseBegin, FollowerEntry, LockCloseMu, DrainCheck, Goto
<1>10. ASSUME NEW t \in Threads, ClearStore(t) \/ MarkClosed(t) PROVE OperationsCounted'
    BY <1>10, CountSame DEF ClearStore, StoresToClear, MarkClosed, Goto
<1>11. ASSUME NEW t \in Threads, ClosedCheck(t) \/ CloseReturn(t) PROVE OperationsCounted'
    BY <1>11, CountSame DEF ClosedCheck, CloseReturn, Goto
<1> QED
    BY <1>1, <1>2, <1>3, <1>4, <1>5, <1>6, <1>7, <1>8, <1>9, <1>10, <1>11 DEF Next, Step

(* A zero count is the barrier: nobody is inside. *)
LEMMA ZeroCountEmpty ==
    ASSUME TypeOK, OperationsCounted, activeOperations = 0 PROVE Inside = {}
<1>1. Counted = {}
    BY CountedFinite, FS_EmptySet DEF OperationsCounted
<1> QED
    BY <1>1 DEF Counted, CountedPC, Inside

-----------------------------------------------------------------------------
(* Shutdown: the conjuncts of IInv other than types and the count *)

Shutdown ==
    /\ CloserOwnsClosing
    /\ SingleCloser
    /\ CleanupBarrier
    /\ ClearProgress
    /\ ClosedBeforeReturn
    /\ NothingRetainedAfterClose

(* A step that leaves the lifecycle and the stores alone and moves goroutines    *)
(* only between labels that are not inside, cleaning or past Closed.            *)
LEMMA ShutdownQuiet ==
    ASSUME Shutdown, UNCHANGED <<lifecycle, retained, clearIndex, clearOnClose>>,
           \A u \in Threads :
               /\ pc'[u] = "admitted" => pc[u] = "admitted"
               /\ pc'[u] \in CloserPC => pc[u] \in CloserPC
               /\ pc'[u] \in DrainPC => pc[u] \in DrainPC
               /\ pc'[u] \in CleanupPC => pc'[u] = pc[u]
               /\ pc'[u] \in {"closedNotify", "closeReturned"} => lifecycle = "Closed"
    PROVE  Shutdown'
<1> USE DEF Shutdown
<1>1. CloserOwnsClosing'
    BY DEF CloserOwnsClosing
<1>2. SingleCloser'
    BY DEF SingleCloser
<1>3. CleanupBarrier'
    BY DEF CleanupBarrier, Inside
<1>4. ClearProgress'
    BY DEF ClearProgress, CleanupPC, Stores
<1>5. ClosedBeforeReturn'
    BY DEF ClosedBeforeReturn
<1>6. NothingRetainedAfterClose'
    BY DEF NothingRetainedAfterClose, Stores
<1> QED
    BY <1>1, <1>2, <1>3, <1>4, <1>5, <1>6

LEMMA ShutdownStep ==
    TypeOK /\ OperationsCounted /\ Shutdown /\ [Next]_vars => Shutdown'
<1> SUFFICES ASSUME TypeOK, OperationsCounted, Shutdown, [Next]_vars PROVE Shutdown'
    OBVIOUS
<1> USE DEF TypeOK, CloserPC, CleanupPC, DrainPC
<1>1. CASE UNCHANGED vars
    BY <1>1, ShutdownQuiet DEF vars, Shutdown, ClosedBeforeReturn
<1>2. ASSUME NEW t \in Threads,
             StartOperation(t) \/ StartClose(t) \/ GateCheck(t) \/ GateAdd(t)
      PROVE  Shutdown'
    BY <1>2, ShutdownQuiet DEF StartOperation, StartClose, GateCheck, GateAdd, Goto,
       Shutdown, ClosedBeforeReturn
<1>3. ASSUME NEW t \in Threads, GateRecheck(t) PROVE Shutdown'
    <2>1. CASE ~AllowsWork
        BY <1>3, <2>1, ShutdownQuiet DEF GateRecheck, SecondCheck, Goto, Shutdown, ClosedBeforeReturn
    <2>2. CASE AllowsWork
        <3>1. /\ lifecycle = "Active" /\ pc' = [pc EXCEPT ![t] = "admitted"]
              /\ UNCHANGED <<lifecycle, retained, clearIndex, clearOnClose>>
            BY <1>3, <2>2 DEF GateRecheck, SecondCheck, AllowsWork, Goto
        <3>2. \A u \in Threads : pc[u] \notin CloserPC
            BY <3>1 DEF Shutdown, CloserOwnsClosing
        <3> QED
            BY <3>1, <3>2 DEF Shutdown, CloserOwnsClosing, SingleCloser, CleanupBarrier,
               ClearProgress, ClosedBeforeReturn, NothingRetainedAfterClose
    <2> QED
        BY <2>1, <2>2
<1>4. ASSUME NEW t \in Threads, Body(t) PROVE Shutdown'
    <2>1. /\ pc[t] = "admitted" /\ pc' = [pc EXCEPT ![t] = "endAdd"]
          /\ UNCHANGED <<lifecycle, clearIndex, clearOnClose>>
        BY <1>4 DEF Body, Goto
    <2>2. lifecycle # "Closed" /\ \A u \in Threads : pc[u] \notin CleanupPC
        BY <2>1 DEF Shutdown, CleanupBarrier, Inside
    <2> QED
        BY <2>1, <2>2 DEF Shutdown, CloserOwnsClosing, SingleCloser, CleanupBarrier,
           ClearProgress, ClosedBeforeReturn, NothingRetainedAfterClose, Inside
<1>5. ASSUME NEW t \in Threads, EndAdd(t) \/ EndLoad(t) PROVE Shutdown'
    BY <1>5, ShutdownQuiet DEF EndAdd, EndLoad, MustNotify, LeaveEnd, Goto, Shutdown, ClosedBeforeReturn
<1>6. ASSUME NEW t \in Threads, EndNotify(t) PROVE Shutdown'
    BY <1>6, ShutdownQuiet DEF EndNotify, Broadcast, Woken, Shutdown, ClosedBeforeReturn
<1>7. ASSUME NEW t \in Threads, CloseBegin(t) PROVE Shutdown'
    <2>1. CASE lifecycle # "Active"
        BY <1>7, <2>1, ShutdownQuiet DEF CloseBegin, FollowerEntry, Goto, Shutdown, ClosedBeforeReturn
    <2>2. CASE lifecycle = "Active"
        <3>1. /\ lifecycle' = "Closing" /\ pc' = [pc EXCEPT ![t] = "drainLock"]
              /\ UNCHANGED <<retained, clearIndex, clearOnClose>>
            BY <1>7, <2>2 DEF CloseBegin, FollowerEntry, Goto
        <3>2. \A u \in Threads : pc[u] \notin CloserPC
            BY <2>2 DEF Shutdown, CloserOwnsClosing
        <3>3. \A u \in Threads : pc[u] \notin {"closedNotify", "closeReturned"}
            BY <2>2 DEF Shutdown, ClosedBeforeReturn
        <3>4. ClearProgress'
            BY <2>2, <3>1, <3>2 DEF Shutdown, ClearProgress
        <3>5. SingleCloser' /\ CleanupBarrier'
            BY <3>1, <3>2 DEF SingleCloser, CleanupBarrier
        <3> QED
            BY <3>1, <3>2, <3>3, <3>4, <3>5 DEF Shutdown, CloserOwnsClosing,
               ClosedBeforeReturn, NothingRetainedAfterClose
    <2> QED
        BY <2>1, <2>2
<1>8. ASSUME NEW t \in Threads, LockCloseMu(t) \/ ClosedCheck(t) \/ CloseReturn(t)
      PROVE  Shutdown'
    BY <1>8, ShutdownQuiet DEF LockCloseMu, ClosedCheck, CloseReturn, Goto, Shutdown,
       ClosedBeforeReturn
<1>9. ASSUME NEW t \in Threads, DrainCheck(t) PROVE Shutdown'
    <2>1. CASE activeOperations # 0
        BY <1>9, <2>1, ShutdownQuiet DEF DrainCheck, Drained, Goto, Shutdown, ClosedBeforeReturn
    <2>2. CASE activeOperations = 0
        <3>1. Inside = {}
            BY <2>2, ZeroCountEmpty
        <3>2. /\ pc[t] = "drainCheck"
              /\ pc' = [pc EXCEPT ![t] = IF clearOnClose THEN "clear" ELSE "markClosed"]
              /\ UNCHANGED <<lifecycle, retained, clearIndex, clearOnClose>>
            BY <1>9, <2>2 DEF DrainCheck, Drained, Goto
        <3>3. Inside' = {}
            BY <3>1, <3>2 DEF Inside
        <3>4. clearIndex = 0 /\ \A s \in Stores : ~(s < 0)
            BY <3>2 DEF Shutdown, ClearProgress, Stores
        <3> QED
            BY <3>2, <3>3, <3>4 DEF Shutdown, CloserOwnsClosing, SingleCloser,
               CleanupBarrier, ClearProgress, ClosedBeforeReturn, NothingRetainedAfterClose
    <2> QED
        BY <2>1, <2>2
<1>10. ASSUME NEW t \in Threads, ClearStore(t) PROVE Shutdown'
    <2>1. /\ pc[t] = "clear" /\ lifecycle = "Closing" /\ clearOnClose
          /\ UNCHANGED <<lifecycle, clearOnClose>>
        BY <1>10 DEF ClearStore, StoresToClear, Shutdown, CloserOwnsClosing, ClearProgress
    <2>2. Inside = {} /\ \A u \in Threads : pc[u] \in CloserPC => u = t
        BY <2>1 DEF Shutdown, CleanupBarrier, SingleCloser
    <2>3. CASE clearIndex < NumStores
        <3>1. /\ retained' = [retained EXCEPT ![clearIndex] = 0]
              /\ clearIndex' = clearIndex + 1 /\ UNCHANGED pc
            BY <1>10, <2>3, StoresAssumption DEF ClearStore, StoresToClear, SetRetained
        <3>2. \A s \in Stores : s < clearIndex' => retained'[s] = 0
            BY <2>1, <3>1, StoresAssumption DEF Shutdown, ClearProgress, Stores
        <3>3. ClearProgress'
            BY <2>1, <2>2, <3>1, <3>2 DEF ClearProgress
        <3> QED
            BY <2>1, <3>1, <3>3 DEF Shutdown, CloserOwnsClosing, SingleCloser,
               CleanupBarrier, ClosedBeforeReturn, NothingRetainedAfterClose, Inside
    <2>4. CASE ~(clearIndex < NumStores)
        <3>1. /\ pc' = [pc EXCEPT ![t] = "markClosed"] /\ clearIndex = NumStores
              /\ UNCHANGED <<retained, clearIndex>>
            BY <1>10, <2>4, StoresAssumption DEF ClearStore, StoresToClear, Goto
        <3>2. \A s \in Stores : retained[s] = 0
            BY <2>1, <3>1, StoresAssumption DEF Shutdown, ClearProgress, Stores
        <3>3. ClearProgress'
            BY <2>1, <2>2, <3>1, <3>2 DEF ClearProgress, Stores
        <3>4. CleanupBarrier' /\ SingleCloser'
            BY <2>1, <2>2, <3>1 DEF CleanupBarrier, SingleCloser, Inside
        <3> QED
            BY <2>1, <3>1, <3>3, <3>4 DEF Shutdown, CloserOwnsClosing, ClosedBeforeReturn,
               NothingRetainedAfterClose
    <2> QED
        BY <2>3, <2>4
<1>11. ASSUME NEW t \in Threads, MarkClosed(t) PROVE Shutdown'
    <2>1. /\ pc[t] = "markClosed" /\ lifecycle' = "Closed"
          /\ pc' = [pc EXCEPT ![t] = "closedNotify"]
          /\ UNCHANGED <<retained, clearIndex, clearOnClose>>
        BY <1>11 DEF MarkClosed, Goto
    <2>2. Inside = {} /\ \A u \in Threads : pc[u] \in CloserPC => u = t
        BY <2>1 DEF Shutdown, CleanupBarrier, SingleCloser
    <2>3. clearOnClose => \A s \in Stores : retained[s] = 0
        BY <2>1 DEF Shutdown, ClearProgress
    <2> QED
        BY <2>1, <2>2, <2>3 DEF Shutdown, CloserOwnsClosing, SingleCloser, CleanupBarrier,
           ClearProgress, ClosedBeforeReturn, NothingRetainedAfterClose, Inside, Stores
<1>12. ASSUME NEW t \in Threads, ClosedNotify(t) PROVE Shutdown'
    BY <1>12, ShutdownQuiet DEF ClosedNotify, Broadcast, Woken, Shutdown, ClosedBeforeReturn
<1> QED
    BY <1>1, <1>2, <1>3, <1>4, <1>5, <1>6, <1>7, <1>8, <1>9, <1>10, <1>11, <1>12
       DEF Next, Step

-----------------------------------------------------------------------------
(* The theorems *)

LEMMA IInvStep == IInv /\ [Next]_vars => IInv'
<1> SUFFICES ASSUME IInv, [Next]_vars PROVE IInv'
    OBVIOUS
<1>1. TypeOK'
    BY TypeStep DEF IInv
<1>2. OperationsCounted'
    BY CountStep DEF IInv
<1>3. Shutdown'
    BY ShutdownStep DEF IInv, Shutdown
<1> QED
    BY <1>1, <1>2, <1>3 DEF IInv, Shutdown

LEMMA IInvHolds == Spec => []IInv
<1> QED
    BY InitIInv, IInvStep, PTL DEF Spec

(* Every variable keeps its type; the operation count never underflows, so the   *)
(* panic of endOperation is unreachable.                                        *)
THEOREM TypeCorrect == Spec => []TypeOK
<1>1. IInv => TypeOK
    BY DEF IInv
<1> QED
    BY <1>1, IInvHolds, PTL

(* activeOperations is the number of goroutines between Add(1) and Add(-1). *)
THEOREM CountCorrect == Spec => []OperationsCounted
<1>1. IInv => OperationsCounted
    BY DEF IInv
<1> QED
    BY <1>1, IInvHolds, PTL

(* No admitted operation overlaps close-time cleanup or survives it. *)
THEOREM BarrierHolds == Spec => []CleanupBarrier
<1>1. IInv => CleanupBarrier
    BY DEF IInv
<1> QED
    BY <1>1, IInvHolds, PTL

(* One goroutine performs the cleanup, however many call Close. *)
THEOREM OneCloser == Spec => []SingleCloser
<1>1. IInv => SingleCloser
    BY DEF IInv
<1> QED
    BY <1>1, IInvHolds, PTL

(* A Pool that clears on Close is empty once it is Closed. *)
THEOREM ClosedIsEmpty == Spec => []NothingRetainedAfterClose
<1>1. IInv => NothingRetainedAfterClose
    BY DEF IInv
<1> QED
    BY <1>1, IInvHolds, PTL

(* Close returns to each of its callers only after the Pool is Closed. *)
THEOREM CloseSynchronous == Spec => []CloseIsSynchronous
<1>1. IInv => CloseIsSynchronous
    BY DEF IInv, ClosedBeforeReturn, CloseIsSynchronous
<1> QED
    BY <1>1, IInvHolds, PTL

(* Nothing touches retained storage once the Pool is Closed. *)
THEOREM FrozenAfterClose == Spec => StorageFrozenAfterClose
<1>1. IInv /\ [Next]_vars => [lifecycle = "Closed" => retained' = retained]_vars
    <2> SUFFICES ASSUME IInv, Next, lifecycle = "Closed" PROVE retained' = retained
        OBVIOUS
    <2>1. \A t \in Threads : pc[t] # "admitted" /\ pc[t] # "clear"
        BY DEF IInv, CleanupBarrier, CloserOwnsClosing, Inside, CloserPC, CleanupPC
    <2> QED
        BY <2>1 DEF Next, Step, StartOperation, StartClose, GateCheck, GateAdd, GateRecheck,
           Body, EndAdd, EndLoad, EndNotify, CloseBegin, LockCloseMu, DrainCheck, ClearStore,
           MarkClosed, ClosedNotify, ClosedCheck, CloseReturn
<1> QED
    BY <1>1, IInvHolds, PTL DEF Spec, StorageFrozenAfterClose

-----------------------------------------------------------------------------
(* The gate implements the service. *)

(* A step that admits nobody, ends no body and keeps lifecycle and stores. *)
LEMMA ServiceStutter ==
    ASSUME UNCHANGED <<lifecycle, retained, clearOnClose>>,
           \A u \in Threads : pc'[u] = "admitted" <=> pc[u] = "admitted"
    PROVE  UNCHANGED Service!vars
BY DEF Service!vars, Inside

LEMMA ServiceStep == IInv /\ [Next]_vars => [Service!Next]_(Service!vars)
<1> SUFFICES ASSUME IInv, [Next]_vars PROVE Service!Next \/ UNCHANGED Service!vars
    OBVIOUS
<1> USE DEF IInv, TypeOK
<1>1. CASE UNCHANGED vars
    BY <1>1, ServiceStutter DEF vars
<1>2. ASSUME NEW t \in Threads,
             StartOperation(t) \/ StartClose(t) \/ GateCheck(t) \/ GateAdd(t)
      PROVE  UNCHANGED Service!vars
    BY <1>2, ServiceStutter DEF StartOperation, StartClose, GateCheck, GateAdd, Goto
<1>3. ASSUME NEW t \in Threads, GateRecheck(t)
      PROVE  Service!Next \/ UNCHANGED Service!vars
    <2>1. CASE ~AllowsWork
        BY <1>3, <2>1, ServiceStutter DEF GateRecheck, SecondCheck, Goto
    <2>2. CASE AllowsWork
        <3>1. /\ lifecycle = "Active" /\ pc[t] = "gateRecheck"
              /\ pc' = [pc EXCEPT ![t] = "admitted"]
              /\ UNCHANGED <<lifecycle, retained, clearOnClose>>
            BY <1>3, <2>2 DEF GateRecheck, SecondCheck, AllowsWork, Goto
        <3>2. t \notin Inside /\ Inside' = Inside \cup {t}
            BY <3>1 DEF Inside
        <3> QED
            BY <3>1, <3>2 DEF Service!Next, Service!Enter
    <2> QED
        BY <2>1, <2>2
<1>4. ASSUME NEW t \in Threads, Body(t) PROVE Service!Next
    <2>1. t \in Inside /\ Inside' = Inside \ {t} /\ UNCHANGED <<lifecycle, clearOnClose>>
        BY <1>4 DEF Body, Goto, Inside
    <2>2. \/ UNCHANGED retained
          \/ \E s \in Stores, n \in 0 .. StoreLimit : retained' = [retained EXCEPT ![s] = n]
        <3>1. CASE GetBody(t)
            BY <3>1, StoresAssumption DEF GetBody, SetRetained
        <3>2. CASE PutBody(t)
            BY <3>2, StoresAssumption DEF PutBody, SetRetained
        <3>3. CASE ControlBody(t)
            BY <3>3, StoresAssumption DEF ControlBody, SetRetained
        <3> QED
            BY <1>4, <3>1, <3>2, <3>3 DEF Body
    <2> QED
        BY <2>1, <2>2 DEF Service!Next, Service!WorkAndLeave, Service!Stores, Stores
<1>5. ASSUME NEW t \in Threads, EndAdd(t) \/ EndLoad(t) PROVE UNCHANGED Service!vars
    BY <1>5, ServiceStutter DEF EndAdd, EndLoad, MustNotify, LeaveEnd, Goto
<1>6. ASSUME NEW t \in Threads, EndNotify(t) \/ ClosedNotify(t)
      PROVE  UNCHANGED Service!vars
    BY <1>6, ServiceStutter DEF EndNotify, ClosedNotify, Broadcast, Woken
<1>7. ASSUME NEW t \in Threads, CloseBegin(t)
      PROVE  Service!Next \/ UNCHANGED Service!vars
    <2>1. Inside' = Inside
        BY <1>7 DEF CloseBegin, FollowerEntry, Goto, Inside
    <2> QED
        BY <1>7, <2>1 DEF CloseBegin, FollowerEntry, Service!Next, Service!StartClose, Service!vars
<1>8. ASSUME NEW t \in Threads, LockCloseMu(t) \/ ClosedCheck(t) \/ CloseReturn(t)
      PROVE  UNCHANGED Service!vars
    BY <1>8, ServiceStutter DEF LockCloseMu, ClosedCheck, CloseReturn, Goto
<1>9. ASSUME NEW t \in Threads, DrainCheck(t) PROVE UNCHANGED Service!vars
    BY <1>9, ServiceStutter DEF DrainCheck, Drained, Goto
<1>10. ASSUME NEW t \in Threads, ClearStore(t)
       PROVE  Service!Next \/ UNCHANGED Service!vars
    <2>1. lifecycle = "Closing" /\ clearOnClose /\ Inside = {}
        BY <1>10 DEF ClearStore, StoresToClear, CloserOwnsClosing, CleanupBarrier, ClearProgress,
           CloserPC, CleanupPC
    <2>2. Inside' = Inside /\ UNCHANGED <<lifecycle, clearOnClose>>
        BY <1>10 DEF ClearStore, StoresToClear, Goto, Inside
    <2>3. CASE clearIndex < NumStores
        BY <1>10, <2>1, <2>2, <2>3, StoresAssumption DEF ClearStore, StoresToClear, SetRetained,
           Service!Next, Service!ClearStore, Service!Stores
    <2>4. CASE ~(clearIndex < NumStores)
        BY <1>10, <2>2, <2>4 DEF ClearStore, StoresToClear, Service!vars
    <2> QED
        BY <2>3, <2>4
<1>11. ASSUME NEW t \in Threads, MarkClosed(t) PROVE Service!Next
    <2>1. lifecycle = "Closing" /\ Inside = {}
        BY <1>11 DEF MarkClosed, CloserOwnsClosing, CleanupBarrier, CloserPC, CleanupPC
    <2>2. clearOnClose => \A s \in Stores : retained[s] = 0
        BY <1>11 DEF MarkClosed, ClearProgress
    <2>3. Inside' = Inside
        BY <1>11 DEF MarkClosed, Goto, Inside
    <2> QED
        BY <1>11, <2>1, <2>2, <2>3 DEF MarkClosed, Service!Next, Service!FinishClose,
           Service!Stores, Stores
<1> QED
    BY <1>1, <1>2, <1>3, <1>4, <1>5, <1>6, <1>7, <1>8, <1>9, <1>10, <1>11 DEF Next, Step

(* Seen from outside, the gate, the counter and the condition variable are the    *)
(* atomic service: an operation takes effect only while the Pool is open, and     *)
(* shutdown happens between operations.                                          *)
THEOREM GateImplementsService == Spec => ImplementsService
<1>1. Init => Service!Init
    BY DEF Init, Service!Init, Inside, Stores, Service!Stores
<1> QED
    BY <1>1, ServiceStep, IInvHolds, PTL DEF Spec, ImplementsService, Service!Spec

-----------------------------------------------------------------------------
(* ClassCredit *)

(* Every whole credit of every shard is of this form. *)
Whole(l) == l \in Limit /\ l.bytes = l.buffers * ClassSize

(* The i oldest buffers of a shard hold at least i class buffers' worth of bytes. *)
Filled(h) == h \in Seq(Nat) /\ \A i \in 1 .. Len(h) : h[i] >= i * ClassSize

HalvesMatch ==
    \A s \in Shards : Whole(complete[s]) /\ creditBytes[s] = complete[s].bytes

RetainReads ==
    \A s \in Shards :
        /\ Filled(held[s])
        /\ retain[s].step # "free" => retain[s].capacity >= ClassSize
        /\ retain[s].step = "decide" =>
              Whole(witness[s]) /\ retain[s].bytes = witness[s].bytes

(* How far the publication is: the shards below publisher.shard carry the new      *)
(* share and the new generation, those above an older generation.                 *)
Progress ==
    /\ publisher.step = "idle" => \A s \in Shards :
          IsShare(s, assigned) /\ creditGeneration[s] = budgetGeneration
    /\ publisher.step = "budgetGeneration" =>
          /\ publisher.generation > budgetGeneration /\ publisher.shard = 0
          /\ \A s \in Shards :
                IsShare(s, previous) /\ creditGeneration[s] = budgetGeneration
    /\ publisher.step \in {"targetBuffers", "targetBytes", "creditGeneration"} =>
          /\ publisher.generation = budgetGeneration
          /\ \A s \in Shards :
                /\ s < publisher.shard =>
                      IsShare(s, assigned) /\ creditGeneration[s] = budgetGeneration
                /\ s >= publisher.shard => creditGeneration[s] < budgetGeneration
    /\ publisher.step = "targetBytes" =>
          creditBuffers[publisher.shard] = CreditForShard(assigned, publisher.shard).buffers
    /\ publisher.step = "creditGeneration" => IsShare(publisher.shard, assigned)

CreditInv == ClassTypes /\ HalvesMatch /\ RetainReads

-----------------------------------------------------------------------------
(* Multiplication by the class size keeps and reflects the order: the arithmetic  *)
(* behind "the byte half of a credit implies its buffer half".                   *)
LEMMA BytesImplyBuffers ==
    ASSUME NEW n \in Nat, NEW m \in Nat, NEW b \in Nat,
           n * ClassSize <= b, b <= m * ClassSize
    PROVE  n <= m
<1>1. SUFFICES ASSUME n > m PROVE FALSE
  OBVIOUS
<1>2. n >= m + 1 /\ ClassSize \in Nat \ {0}
  BY <1>1, ClassAssumption
<1>3. n * ClassSize >= (m + 1) * ClassSize
  BY <1>2
<1>4. (m + 1) * ClassSize = m * ClassSize + ClassSize
  BY <1>2
<1> QED
  BY <1>2, <1>3, <1>4

LEMMA ShareInNat == ASSUME NEW t \in Nat, NEW s \in Shards PROVE ShardBuffers(t, s) \in Nat
<1>1. NumShards \in Nat \ {0}
  BY ClassAssumption
<1>2. t \div NumShards \in Nat
  BY <1>1
<1> QED
  BY <1>2 DEF ShardBuffers

LEMMA TargetInNat == ASSUME NEW b \in Nat PROVE TargetBuffers(b) \in Nat
<1>1. ClassSize \in Nat \ {0}
  BY ClassAssumption
<1> QED
  BY <1>1 DEF TargetBuffers

(* creditForShard only produces whole credits. *)
LEMMA SharesAreWhole ==
    ASSUME NEW b \in Targets, NEW s \in Shards
    PROVE  Whole(CreditForShard(b, s))
<1> DEFINE n == ShardBuffers(TargetBuffers(b), s)
<1>1. n \in Nat /\ ClassSize \in Nat
  BY ClassAssumption, ShareInNat, TargetInNat
<1>2. n * ClassSize \in Nat
  BY <1>1
<1> QED
  BY <1>1, <1>2 DEF CreditForShard, Whole, Limit

(* Raising the class target never lowers the share of a shard, whatever the number *)
(* of shards: a publication that goes shard by shard moves every credit in the     *)
(* same direction.                                                              *)
LEMMA ShareMonotone ==
    ASSUME NEW s \in Shards, NEW t \in Nat, NEW u \in Nat, t <= u
    PROVE  ShardBuffers(t, s) <= ShardBuffers(u, s)
<1> DEFINE qt == t \div NumShards  rt == t % NumShards
           qu == u \div NumShards  ru == u % NumShards
<1>1. NumShards \in Nat \ {0}
  BY ClassAssumption
<1>2. /\ qt \in Nat /\ rt \in 0 .. NumShards - 1 /\ t = NumShards * qt + rt
      /\ qu \in Nat /\ ru \in 0 .. NumShards - 1 /\ u = NumShards * qu + ru
  BY <1>1
<1> HIDE DEF qt, rt, qu, ru
<1>3. qt <= qu
  <2>1. SUFFICES ASSUME qt >= qu + 1 PROVE FALSE
    BY <1>2
  <2>2. NumShards * qt >= NumShards * (qu + 1)
    BY <1>1, <1>2, <2>1
  <2>3. NumShards * (qu + 1) = NumShards * qu + NumShards
    BY <1>1, <1>2
  <2> QED
    BY <1>1, <1>2, <2>2, <2>3
<1>4. CASE qt = qu
  BY <1>1, <1>2, <1>4 DEF ShardBuffers, Shards, qt, rt, qu, ru
<1>5. CASE qt < qu
  BY <1>1, <1>2, <1>5 DEF ShardBuffers, Shards, qt, rt, qu, ru
<1> QED
  BY <1>2, <1>3, <1>4, <1>5

-----------------------------------------------------------------------------
(* What the shard operations do to the contents of a shard. *)
LEMMA UsageInNat ==
    ASSUME NEW h \in Seq(Nat) PROVE Buffers(h) \in Nat /\ Bytes(h) \in Nat
BY DEF Buffers, Bytes

LEMMA FilledUsage ==
    ASSUME NEW h, Filled(h) PROVE Bytes(h) >= Buffers(h) * ClassSize
<1>1. ClassSize \in Nat
  BY ClassAssumption
<1>2. CASE h = <<>>
  BY <1>1, <1>2 DEF Bytes, Buffers
<1>3. CASE h # <<>>
  <2>1. Len(h) \in 1 .. Len(h)
    BY <1>3 DEF Filled
  <2> QED
    BY <1>3, <2>1 DEF Bytes, Buffers, Filled
<1> QED
  BY <1>2, <1>3

LEMMA PushedFilled ==
    ASSUME NEW h, Filled(h), NEW c \in Nat, c >= ClassSize
    PROVE  /\ Filled(Pushed(h, c))
           /\ Buffers(Pushed(h, c)) = Buffers(h) + 1
           /\ Bytes(Pushed(h, c)) = Bytes(h) + c
           /\ Bytes(h) + c >= (Buffers(h) + 1) * ClassSize
<1> DEFINE p == Pushed(h, c)
<1>1. ClassSize \in Nat /\ h \in Seq(Nat) /\ Bytes(h) \in Nat /\ Buffers(h) \in Nat
  BY ClassAssumption, UsageInNat DEF Filled
<1>2. p \in Seq(Nat) /\ Len(p) = Len(h) + 1 /\ p[Len(h) + 1] = Bytes(h) + c
      /\ \A i \in 1 .. Len(h) : p[i] = h[i]
  BY <1>1 DEF Pushed
<1>3. (Len(h) + 1) * ClassSize = Len(h) * ClassSize + ClassSize
  BY <1>1
<1>4. Bytes(h) + c >= (Buffers(h) + 1) * ClassSize
  BY <1>1, <1>3, FilledUsage DEF Buffers
<1>5. Filled(p)
  <2>1. SUFFICES ASSUME NEW i \in 1 .. Len(h) + 1 PROVE p[i] >= i * ClassSize
    BY <1>2 DEF Filled
  <2>2. CASE i = Len(h) + 1
    BY <1>2, <1>4, <2>2 DEF Buffers
  <2>3. CASE i # Len(h) + 1
    BY <1>1, <1>2, <2>3 DEF Filled
  <2> QED
    BY <2>2, <2>3
<1>6. p # <<>> /\ Bytes(p) = Bytes(h) + c /\ Buffers(p) = Buffers(h) + 1
  BY <1>1, <1>2 DEF Bytes, Buffers
<1> QED
  BY <1>4, <1>5, <1>6

LEMMA PrefixFilled ==
    ASSUME NEW h, Filled(h), NEW n \in 0 .. Len(h)
    PROVE  LET p == SubSeq(h, 1, Len(h) - n)
           IN  Filled(p) /\ Buffers(p) \in Nat /\ Buffers(p) <= Buffers(h)
<1> DEFINE p == SubSeq(h, 1, Len(h) - n)
<1>1. h \in Seq(Nat) /\ Len(h) \in Nat
  BY DEF Filled
<1>2. p \in Seq(Nat) /\ Len(p) = Len(h) - n /\ \A i \in 1 .. Len(p) : p[i] = h[i]
  BY <1>1
<1> QED
  BY <1>1, <1>2 DEF Filled, Buffers

-----------------------------------------------------------------------------
THEOREM CreditInductive == ClassSpec => []CreditInv
<1>1. ClassInit => CreditInv
  <2> SUFFICES ASSUME ClassInit PROVE CreditInv
    OBVIOUS
  <2>1. \A s \in Shards : Whole(complete[s])
    BY SharesAreWhole DEF ClassInit
  <2>2. ClassTypes
    BY <2>1, ClassAssumption
       DEF ClassInit, ClassTypes, Whole, Limit, NoLimit, Free, Retaining, Buffers, Shards, Publishing
  <2>3. HalvesMatch
    BY <2>1 DEF ClassInit, HalvesMatch
  <2>4. RetainReads
    BY DEF ClassInit, RetainReads, Filled, Free, Retaining
  <2> QED
    BY <2>2, <2>3, <2>4 DEF CreditInv
<1>2. CreditInv /\ [ClassNext]_classVars => CreditInv'
  <2> SUFFICES ASSUME CreditInv, [ClassNext]_classVars PROVE CreditInv'
    OBVIOUS
  <2> USE DEF CreditInv
  <2>1. ASSUME NEW bytes \in Targets, NEW g \in Generations, StoreAssigned(bytes, g)
        PROVE  CreditInv'
    <3>1. PublicationGeneration(budgetGeneration, g) \in Nat
      BY ClassAssumption DEF PublicationGeneration, ClassTypes
    <3>2. 0 \in Shards
      BY ClassAssumption DEF Shards
    <3>3. publisher' \in [step : {"idle"} \cup Publishing, shard : Shards, generation : Nat]
      BY <2>1, <3>1, <3>2 DEF StoreAssigned, Publishing
    <3>4. ClassTypes'
      BY <2>1, <3>3 DEF StoreAssigned, ClassTypes, creditVars, shardVars
    <3>5. HalvesMatch' /\ RetainReads'
      BY <2>1 DEF StoreAssigned, HalvesMatch, RetainReads, creditVars, shardVars
    <3> QED
      BY <3>4, <3>5
  <2>2. CASE PublishBudgetGeneration
    <3>1. ClassTypes'
      BY <2>2 DEF PublishBudgetGeneration, AtLeast, ClassTypes, Publishing, creditVars, shardVars
    <3>2. HalvesMatch' /\ RetainReads'
      BY <2>2 DEF PublishBudgetGeneration, HalvesMatch, RetainReads, creditVars, shardVars
    <3> QED
      BY <3>1, <3>2
  <2>3. CASE StoreTargetBuffers
    <3>1. Whole(CreditForShard(assigned, publisher.shard))
      BY SharesAreWhole DEF ClassTypes
    <3>2. ClassTypes'
      BY <2>3, <3>1
         DEF StoreTargetBuffers, PublishNext, ClassTypes, Whole, Limit, Publishing, budgetVars, shardVars
    <3>3. HalvesMatch' /\ RetainReads'
      BY <2>3 DEF StoreTargetBuffers, PublishNext, ClassTypes, HalvesMatch, RetainReads, shardVars
    <3> QED
      BY <3>2, <3>3
  <2>4. CASE StoreTargetBytes
    <3>1. Whole(CreditForShard(assigned, publisher.shard))
      BY SharesAreWhole DEF ClassTypes
    <3>2. ClassTypes'
      BY <2>4, <3>1
         DEF StoreTargetBytes, PublishNext, ClassTypes, Whole, Limit, Publishing, budgetVars, shardVars
    <3>3. HalvesMatch'
      BY <2>4, <3>1 DEF StoreTargetBytes, PublishNext, ClassTypes, HalvesMatch
    <3>4. RetainReads'
      BY <2>4 DEF StoreTargetBytes, PublishNext, RetainReads, shardVars
    <3> QED
      BY <3>2, <3>3, <3>4
  <2>5. CASE PublishCreditGeneration
    <3>1. 0 \in Shards /\ publisher.shard \in Shards /\ publisher.generation \in Nat
      BY ClassAssumption DEF Shards, ClassTypes
    <3>2. publisher.shard + 1 < NumShards => publisher.shard + 1 \in Shards
      BY <3>1, ClassAssumption DEF Shards
    <3>3. publisher' \in [step : {"idle"} \cup Publishing, shard : Shards, generation : Nat]
      BY <2>5, <3>1, <3>2 DEF PublishCreditGeneration, Publishing
    <3>4. AtLeast(creditGeneration[publisher.shard], publisher.generation) \in Nat
      BY <3>1 DEF AtLeast, ClassTypes
    <3>5. creditGeneration' \in [Shards -> Nat]
      BY <2>5, <3>1, <3>4 DEF PublishCreditGeneration, ClassTypes
    <3>6. ClassTypes'
      BY <2>5, <3>3, <3>5 DEF PublishCreditGeneration, ClassTypes, budgetVars, shardVars
    <3>7. HalvesMatch' /\ RetainReads'
      BY <2>5 DEF PublishCreditGeneration, ClassTypes, HalvesMatch, RetainReads, shardVars
    <3> QED
      BY <3>6, <3>7
  <2>6. ASSUME NEW s \in Shards, NEW c \in Capacities, LockForRetain(s, c)
        PROVE  CreditInv'
    <3>1. ClassTypes'
      BY <2>6, ClassAssumption
         DEF LockForRetain, Retaining, ClassTypes, Limit, NoLimit, budgetVars, creditVars
    <3>2. HalvesMatch'
      BY <2>6 DEF LockForRetain, Retaining, HalvesMatch, creditVars
    <3>3. RetainReads'
      BY <2>6 DEF LockForRetain, Retaining, ClassTypes, RetainReads, ClassAdmits
    <3> QED
      BY <3>1, <3>2, <3>3
  <2>7. ASSUME NEW s \in Shards, LoadTargetBuffers(s) PROVE CreditInv'
    <3>1. ClassTypes'
      BY <2>7 DEF LoadTargetBuffers, Retaining, ClassTypes, Limit, budgetVars, creditVars
    <3>2. HalvesMatch'
      BY <2>7 DEF LoadTargetBuffers, Retaining, HalvesMatch, creditVars
    <3>3. RetainReads'
      BY <2>7 DEF LoadTargetBuffers, Retaining, ClassTypes, RetainReads
    <3> QED
      BY <3>1, <3>2, <3>3
  <2>8. ASSUME NEW s \in Shards, LoadTargetBytes(s) PROVE CreditInv'
    <3>1. ClassTypes'
      BY <2>8 DEF LoadTargetBytes, Retaining, ClassTypes, Limit, budgetVars, creditVars
    <3>2. HalvesMatch'
      BY <2>8 DEF LoadTargetBytes, Retaining, HalvesMatch, creditVars
    <3>3. RetainReads'
      BY <2>8 DEF LoadTargetBytes, Retaining, ClassTypes, RetainReads, HalvesMatch
    <3> QED
      BY <3>1, <3>2, <3>3
  <2>9. ASSUME NEW s \in Shards, Decide(s) PROVE CreditInv'
    <3> DEFINE c == retain[s].capacity
    <3>1. \/ held' = [held EXCEPT ![s] = held[s]]
          \/ ~IsFull(held[s]) /\ held' = [held EXCEPT ![s] = Pushed(held[s], c)]
      <4> DEFINE accepted == /\ EvaluateRetain(Usage(held[s]), c, retain[s])
                             /\ ~IsFull(held[s])
      <4>1. held' = [held EXCEPT ![s] = IF accepted THEN Pushed(held[s], c) ELSE held[s]]
        BY <2>9, Zenon DEF Decide
      <4>2. CASE accepted
        BY <4>1, <4>2, Zenon
      <4>3. CASE ~accepted
        BY <4>1, <4>3, Zenon
      <4> QED
        BY <4>2, <4>3
    <3>2. c \in Nat /\ c >= ClassSize /\ Filled(held[s])
      BY <2>9 DEF Decide, ClassTypes, RetainReads
    <3>3. Filled(Pushed(held[s], c)) /\ Buffers(Pushed(held[s], c)) = Buffers(held[s]) + 1
      BY <3>2, PushedFilled
    <3>4. Pushed(held[s], c) \in Seq(Nat)
          /\ (~IsFull(held[s]) => Buffers(Pushed(held[s], c)) <= SlotLimit)
      BY <3>2, <3>3, ClassAssumption, UsageInNat DEF IsFull, Filled
    <3>5. ClassTypes'
      BY <2>9, <3>1, <3>4 DEF Decide, ClassTypes, Free, Retaining, Limit, NoLimit, budgetVars, creditVars
    <3>6. HalvesMatch'
      BY <2>9 DEF Decide, HalvesMatch, creditVars
    <3>7. RetainReads'
      BY <2>9, <3>1, <3>3 DEF Decide, ClassTypes, RetainReads, Free, Retaining
    <3> QED
      BY <3>5, <3>6, <3>7
  <2>10. ASSUME NEW s \in Shards, NEW n \in 0 .. Len(held[s]), RemoveNewest(s, n)
         PROVE  CreditInv'
    <3> DEFINE p == SubSeq(held[s], 1, Len(held[s]) - n)
    <3>1. Filled(p) /\ Buffers(p) <= Buffers(held[s])
      BY PrefixFilled DEF RetainReads
    <3> HIDE DEF p
    <3>2. p \in Seq(Nat) /\ Buffers(p) <= SlotLimit
      <4>1. p \in Seq(Nat) /\ held[s] \in Seq(Nat) /\ Buffers(held[s]) <= SlotLimit
        BY <3>1 DEF Filled, ClassTypes
      <4> QED
        BY <3>1, <4>1, ClassAssumption DEF Buffers
    <3>3. held' = [held EXCEPT ![s] = p]
      BY <2>10 DEF RemoveNewest, p
    <3>4. ClassTypes'
      <4>1. held' \in [Shards -> Seq(Nat)]
        BY <3>2, <3>3 DEF ClassTypes
      <4>2. \A r \in Shards : held'[r] = IF r = s THEN p ELSE held[r]
        BY <3>3 DEF ClassTypes
      <4>3. \A r \in Shards : Buffers(held'[r]) <= SlotLimit
        BY <3>2, <4>2 DEF ClassTypes
      <4> QED
        BY <2>10, <4>1, <4>3 DEF RemoveNewest, ClassTypes, budgetVars, creditVars
    <3>5. HalvesMatch'
      BY <2>10 DEF RemoveNewest, HalvesMatch, creditVars
    <3>6. RetainReads'
      BY <2>10, <3>1, <3>3 DEF RemoveNewest, ClassTypes, RetainReads
    <3> QED
      BY <3>4, <3>5, <3>6
  <2>11. CASE UNCHANGED classVars
    BY <2>11 DEF classVars, budgetVars, creditVars, shardVars, ClassTypes, HalvesMatch, RetainReads
  <2>12. ASSUME NEW s \in Shards, TryGet(s) \/ TrimBounded(s) \/ Clear(s) PROVE CreditInv'
    <3>1. Len(held[s]) \in Nat
      BY DEF ClassTypes
    <3>2. PICK n \in 0 .. Len(held[s]) : RemoveNewest(s, n)
      <4>1. CASE TryGet(s)
        <5>1. held[s] # <<>> /\ held[s] \in Seq(Nat)
          BY <4>1 DEF TryGet, ClassTypes
        <5>2. 1 \in 0 .. Len(held[s])
          BY <5>1
        <5> QED
          BY <4>1, <5>2 DEF TryGet
      <4>2. CASE TrimBounded(s)
        BY <3>1, <4>2 DEF TrimBounded
      <4>3. CASE Clear(s)
        BY <3>1, <4>3 DEF Clear
      <4> QED
        BY <2>12, <4>1, <4>2, <4>3
    <3> QED
      BY <2>10, <3>2
  <2> QED
    BY <2>1, <2>2, <2>3, <2>4, <2>5, <2>6, <2>7, <2>8, <2>9, <2>11, <2>12
       DEF ClassNext, UpdateBudgetAtLeast, ShardStep
<1> QED
  BY <1>1, <1>2, PTL DEF ClassSpec

(* Types hold, and no bucket holds more buffers than it has slots.              *)
THEOREM CreditTypeCorrect == ClassSpec => []ClassTypes
BY CreditInductive, PTL DEF CreditInv

(* Whatever stores a publication makes between the two loads of a return, a buffer *)
(* is retained only within one whole credit that was in force at the second load. *)
THEOREM RetainIsJustified == ClassSpec => RetainJustified
<1> DEFINE Justified ==
      \A s \in Shards : Buffers(held'[s]) > Buffers(held[s]) =>
          Fits(Usage(held'[s]), witness[s])
<1>1. CreditInv /\ [ClassNext]_classVars => [Justified]_classVars
  <2> SUFFICES ASSUME CreditInv, ClassNext, NEW s \in Shards, Buffers(held'[s]) > Buffers(held[s])
               PROVE  Fits(Usage(held'[s]), witness[s])
    BY DEF classVars
  <2> USE DEF CreditInv
  <2>1. held[s] \in Seq(Nat) /\ Buffers(held[s]) \in Nat
    BY UsageInNat DEF ClassTypes
  <2>2. held' # held
    BY <2>1
  <2>3. ASSUME NEW r \in Shards, NEW n \in 0 .. Len(held[r]), RemoveNewest(r, n)
        PROVE  FALSE
    <3>1. held'[s] = IF r = s THEN SubSeq(held[s], 1, Len(held[s]) - n) ELSE held[s]
      BY <2>3 DEF RemoveNewest, ClassTypes
    <3>2. CASE r = s
      <4>1. Buffers(held'[s]) \in Nat /\ Buffers(held'[s]) <= Buffers(held[s])
        BY <3>1, <3>2, PrefixFilled DEF RetainReads
      <4> QED
        BY <2>1, <4>1
    <3>3. CASE r # s
      BY <2>1, <3>1, <3>3
    <3> QED
      BY <3>2, <3>3
  <2>4. ASSUME NEW r \in Shards, TryGet(r) \/ TrimBounded(r) \/ Clear(r)
        PROVE  FALSE
    <3>1. held[r] \in Seq(Nat)
      BY DEF ClassTypes
    <3>2. held[r] # <<>> => 1 \in 0 .. Len(held[r])
      BY <3>1
    <3> QED
      BY <2>3, <2>4, <3>1, <3>2 DEF TryGet, TrimBounded, Clear
  <2>5. PICK r \in Shards : Decide(r)
    BY <2>2, <2>4
       DEF ClassNext, UpdateBudgetAtLeast, ShardStep, StoreAssigned, PublishBudgetGeneration,
           StoreTargetBuffers, StoreTargetBytes, PublishCreditGeneration, LockForRetain,
           LoadTargetBuffers, LoadTargetBytes, shardVars
  <2> DEFINE c == retain[s].capacity  l == retain[s]
  <2>6. r = s /\ held'[s] = Pushed(held[s], c) /\ EvaluateRetain(Usage(held[s]), c, l)
    <3>1. held' = [held EXCEPT ![r] =
              IF EvaluateRetain(Usage(held[r]), retain[r].capacity, retain[r]) /\ ~IsFull(held[r])
              THEN Pushed(held[r], retain[r].capacity) ELSE held[r]]
      BY <2>5, Zenon DEF Decide
    <3>2. held'[s] # held[s]
      BY <2>1
    <3> QED
      BY <3>1, <3>2 DEF ClassTypes
  <2>7. /\ c \in Nat /\ c >= ClassSize /\ Filled(held[s])
        /\ Whole(witness[s]) /\ l.bytes = witness[s].bytes
    BY <2>5, <2>6 DEF Decide, ClassTypes, RetainReads
  <2>8. /\ Buffers(held'[s]) = Buffers(held[s]) + 1
        /\ Bytes(held'[s]) = Bytes(held[s]) + c
        /\ Bytes(held[s]) + c >= (Buffers(held[s]) + 1) * ClassSize
    BY <2>6, <2>7, PushedFilled
  <2>9. Bytes(held[s]) + c <= witness[s].bytes
    BY <2>6, <2>7 DEF EvaluateRetain, Usage
  <2>10. /\ witness[s].buffers \in Nat /\ witness[s].bytes \in Nat
         /\ witness[s].bytes = witness[s].buffers * ClassSize
         /\ Bytes(held[s]) \in Nat
    BY <2>1, <2>7, UsageInNat DEF Whole, Limit
  <2>11. Buffers(held[s]) + 1 <= witness[s].buffers
    <3>1. (Buffers(held[s]) + 1) * ClassSize <= Bytes(held[s]) + c
      BY <2>1, <2>7, <2>8, <2>10, ClassAssumption
    <3>2. Bytes(held[s]) + c <= witness[s].buffers * ClassSize
      BY <2>9, <2>10
    <3> QED
      BY <2>1, <2>7, <2>10, <3>1, <3>2, BytesImplyBuffers
  <2> QED
    BY <2>8, <2>9, <2>11 DEF Fits, Usage
<1>2. ClassSpec => [][Justified]_classVars
  BY <1>1, CreditInductive, PTL DEF ClassSpec
<1> QED
  BY <1>2 DEF RetainJustified

(* A publication stores what its progress says. *)
LEMMA ProgressHolds == ClassSpec => []Progress
<1>1. ClassInit => Progress
  BY DEF ClassInit, Progress, IsShare
<1>2. ClassTypes /\ Progress /\ [ClassNext]_classVars => Progress'
  <2> SUFFICES ASSUME ClassTypes, Progress, [ClassNext]_classVars PROVE Progress'
    OBVIOUS
  <2>1. /\ \A s \in Shards : s \in Int /\ s >= 0 /\ s < NumShards
        /\ publisher.shard \in Shards /\ publisher.generation \in Nat
        /\ budgetGeneration \in Nat /\ NumShards \in Nat
    BY ClassAssumption DEF Shards, ClassTypes
  <2>2. ASSUME NEW bytes \in Targets, NEW g \in Generations, StoreAssigned(bytes, g)
        PROVE  Progress'
    <3>1. PublicationGeneration(budgetGeneration, g) > budgetGeneration
      BY <2>1, ClassAssumption DEF PublicationGeneration
    <3> QED
      BY <2>2, <3>1 DEF StoreAssigned, Progress, IsShare, creditVars
  <2>3. CASE PublishBudgetGeneration
    <3>1. budgetGeneration' = publisher.generation /\ publisher.generation > budgetGeneration
      BY <2>1, <2>3 DEF PublishBudgetGeneration, AtLeast, Progress
    <3> QED
      BY <2>1, <2>3, <3>1 DEF PublishBudgetGeneration, Progress, IsShare, creditVars
  <2>4. CASE StoreTargetBuffers
    <3>1. \A s \in Shards : s # publisher.shard => creditBuffers'[s] = creditBuffers[s]
      BY <2>1, <2>4 DEF StoreTargetBuffers, ClassTypes
    <3>2. creditBuffers'[publisher.shard] = CreditForShard(assigned, publisher.shard).buffers
      BY <2>1, <2>4 DEF StoreTargetBuffers, ClassTypes
    <3> QED
      BY <2>1, <2>4, <3>1, <3>2
         DEF StoreTargetBuffers, PublishNext, Progress, IsShare, budgetVars
  <2>5. CASE StoreTargetBytes
    <3>1. \A s \in Shards : s # publisher.shard => creditBytes'[s] = creditBytes[s]
      BY <2>1, <2>5 DEF StoreTargetBytes, ClassTypes
    <3>2. creditBytes'[publisher.shard] = CreditForShard(assigned, publisher.shard).bytes
      BY <2>1, <2>5 DEF StoreTargetBytes, ClassTypes
    <3> QED
      BY <2>1, <2>5, <3>1, <3>2
         DEF StoreTargetBytes, PublishNext, Progress, IsShare, budgetVars
  <2>6. CASE PublishCreditGeneration
    <3>1. \A s \in Shards : s # publisher.shard => creditGeneration'[s] = creditGeneration[s]
      BY <2>1, <2>6 DEF PublishCreditGeneration, ClassTypes
    <3>2. creditGeneration'[publisher.shard] = budgetGeneration
      BY <2>1, <2>6 DEF PublishCreditGeneration, ClassTypes, AtLeast, Progress
    <3>3. /\ publisher.generation = budgetGeneration
          /\ IsShare(publisher.shard, assigned)
          /\ \A s \in Shards :
                s < publisher.shard =>
                   IsShare(s, assigned) /\ creditGeneration[s] = budgetGeneration
          /\ \A s \in Shards :
                s >= publisher.shard => creditGeneration[s] < budgetGeneration
      BY <2>6 DEF PublishCreditGeneration, Progress
    <3>5. \A s \in Shards : s <= publisher.shard =>
             IsShare(s, assigned) /\ creditGeneration'[s] = budgetGeneration
      BY <2>1, <3>1, <3>2, <3>3
    <3>6. CASE publisher.shard + 1 < NumShards
      BY <2>1, <2>6, <3>1, <3>3, <3>5, <3>6
         DEF PublishCreditGeneration, Progress, IsShare, budgetVars
    <3>7. CASE ~(publisher.shard + 1 < NumShards)
      BY <2>1, <2>6, <3>5, <3>7 DEF PublishCreditGeneration, Progress, IsShare, budgetVars
    <3> QED
      BY <3>6, <3>7
  <2>7. ASSUME NEW s \in Shards, ShardStep(s) PROVE Progress'
    <3>1. UNCHANGED <<budgetVars, creditVars, publisher>>
      BY <2>7 DEF ShardStep, LockForRetain, LoadTargetBuffers, LoadTargetBytes, Decide,
                  TryGet, TrimBounded, Clear, RemoveNewest
    <3> QED
      BY <3>1 DEF Progress, IsShare, budgetVars, creditVars
  <2>8. CASE UNCHANGED classVars
    BY <2>8 DEF classVars, Progress, IsShare, budgetVars, creditVars
  <2> QED
    BY <2>2, <2>3, <2>4, <2>5, <2>6, <2>7, <2>8 DEF ClassNext, UpdateBudgetAtLeast
<1> QED
  BY <1>1, <1>2, CreditTypeCorrect, PTL DEF ClassSpec

(* A credit whose generation is that of the budget is the credit of that budget.  *)
THEOREM GenerationMarks == ClassSpec => []GenerationMarksCredit
<1>1. ClassTypes /\ Progress => GenerationMarksCredit
  <2> SUFFICES ASSUME ClassTypes, Progress, NEW s \in Shards,
                      creditGeneration[s] >= budgetGeneration
               PROVE  IsShare(s, IF publisher.step = "budgetGeneration" THEN previous
                                                                    ELSE assigned)
    BY DEF GenerationMarksCredit
  <2>1. creditGeneration[s] \in Nat /\ budgetGeneration \in Nat
        /\ publisher.shard \in Shards /\ publisher.step \in {"idle"} \cup Publishing
    BY DEF ClassTypes
  <2>2. s \in Int /\ publisher.shard \in Int
    BY <2>1, ClassAssumption DEF Shards
  <2> QED
    BY <2>1, <2>2 DEF Progress, Publishing
<1> QED
  BY <1>1, ProgressHolds, CreditTypeCorrect, PTL

-----------------------------------------------------------------------------
(* How much the shards hold together *)

LEMMA ShardsFinite == IsFiniteSet(Shards)
  BY ClassAssumption, FS_Interval DEF Shards

(* The even split gives away all of the target, whatever the remainder. *)
LEMMA SharesAddUp ==
    ASSUME NEW t \in Nat
    PROVE  SumFunctionOnSet([s \in Shards |-> ShardBuffers(t, s)], Shards) = t
  <1> DEFINE q == t \div NumShards
             r == t % NumShards
             f == [s \in Shards |-> ShardBuffers(t, s)]
             Sum(n) == SumFunctionOnSet(f, 0 .. n - 1)
             Given(n) == IF n < r THEN n * q + n ELSE n * q + r
             T == {n \in Nat : n <= NumShards /\ Sum(n) # Given(n)}
  <1>1. /\ NumShards \in Nat /\ NumShards # 0
        /\ q \in Nat /\ r \in Nat /\ r < NumShards /\ t = NumShards * q + r
    BY ClassAssumption
  <1>2. \A s \in Shards : f[s] \in Nat /\ f[s] = q + IF s < r THEN 1 ELSE 0
    BY ShareInNat DEF ShardBuffers
  <1>3. ASSUME T # {} PROVE FALSE
    <2>1. PICK n \in T : \A m \in T : n <= m
      <3>1. T \in SUBSET Nat
        OBVIOUS
      <3> HIDE DEF T
      <3> QED
        BY <1>3, <3>1, LeastExists
    <2>2. n \in Nat /\ n <= NumShards /\ Sum(n) # Given(n)
      BY <2>1
    <2>3. n # 0
      <3>1. 0 .. 0 - 1 = {}
        OBVIOUS
      <3>2. Sum(0) = 0
        BY <3>1, SumEmpty
      <3>3. Given(0) = 0
        BY <1>1
      <3> QED
        BY <2>2, <3>2, <3>3
    <2>4. n - 1 \in Nat /\ n - 1 \notin T /\ n - 1 <= NumShards
      BY <1>1, <2>1, <2>2, <2>3
    <2>5. Sum(n - 1) = Given(n - 1)
      BY <2>4
    <2>6. Sum(n) = f[n - 1] + Sum(n - 1)
      <3> DEFINE S == 0 .. (n - 1) - 1
      <3>1. 0 .. n - 1 = S \cup {n - 1} /\ n - 1 \notin S
        BY <2>2, <2>4
      <3>2. IsFiniteSet(S)
        BY <2>2, FS_Interval
      <3>3. \A x \in S \cup {n - 1} : f[x] \in Nat
        <4>1. S \cup {n - 1} \subseteq Shards
          BY <1>1, <2>2, <2>3, <3>1 DEF Shards
        <4> QED
          BY <1>2, <4>1
      <3>4. SumFunctionOnSet(f, S \cup {n - 1}) = f[n - 1] + SumFunctionOnSet(f, S)
        <4> HIDE DEF S, f
        <4> QED
          BY <3>1, <3>2, <3>3, SumAddElement
      <3> QED
        BY <3>1, <3>4
    <2>7. f[n - 1] = q + IF n - 1 < r THEN 1 ELSE 0
      <3>1. n - 1 \in Shards
        BY <1>1, <2>2, <2>4 DEF Shards
      <3> QED
        BY <1>2, <3>1
    <2> HIDE DEF q, r, f
    <2>8. Given(n) = (q + IF n - 1 < r THEN 1 ELSE 0) + Given(n - 1)
      <3>1. n * q = (n - 1) * q + q
        BY <1>1, <2>2, <2>4
      <3>2. n * q \in Nat /\ (n - 1) * q \in Nat
        BY <1>1, <2>2, <2>4
      <3> QED
        BY <1>1, <2>2, <2>4, <3>1, <3>2
    <2> QED
      BY <2>2, <2>5, <2>6, <2>7, <2>8
  <1>4. Sum(NumShards) = Given(NumShards)
    <2>1. NumShards \notin T
      BY <1>3
    <2> QED
      BY <1>1, <2>1
  <1>5. Given(NumShards) = t
    <2> HIDE DEF q, r
    <2> QED
      BY <1>1
  <1> QED
    BY <1>4, <1>5 DEF Shards

(* The shares of an assignment in buffers and in bytes *)
ShareBuffers(b) == [s \in Shards |-> CreditForShard(b, s).buffers]
ShareBytes(b) == [s \in Shards |-> CreditForShard(b, s).bytes]

LEMMA SharesFundTarget ==
    ASSUME NEW b \in Nat
    PROVE  /\ SumFunctionOnSet(ShareBuffers(b), Shards) = TargetBuffers(b)
           /\ SumFunctionOnSet(ShareBytes(b), Shards) = TargetBuffers(b) * ClassSize
           /\ \A s \in Shards : ShareBuffers(b)[s] \in Nat /\ ShareBytes(b)[s] \in Nat
  <1>1. TargetBuffers(b) \in Nat /\ ClassSize \in Nat
    BY TargetInNat, ClassAssumption
  <1>2. ShareBuffers(b) = [s \in Shards |-> ShardBuffers(TargetBuffers(b), s)]
    BY DEF ShareBuffers, CreditForShard
  <1>3. SumFunctionOnSet(ShareBuffers(b), Shards) = TargetBuffers(b)
    BY <1>1, <1>2, SharesAddUp
  <1>4. \A s \in Shards : ShareBuffers(b)[s] \in Nat
                          /\ ShareBytes(b)[s] = ShareBuffers(b)[s] * ClassSize
    BY <1>1, <1>2, ShareInNat DEF ShareBytes, ShareBuffers, CreditForShard
  <1>5. SumFunctionOnSet(ShareBytes(b), Shards)
           = SumFunctionOnSet(ShareBuffers(b), Shards) * ClassSize
    BY <1>1, <1>4, ShardsFinite, SumScaled
  <1>6. \A s \in Shards : ShareBytes(b)[s] \in Nat
    BY <1>1, <1>4
  <1> QED
    BY <1>3, <1>4, <1>5, <1>6

LEMMA TargetMonotone ==
    ASSUME NEW a \in Nat, NEW b \in Nat, a <= b
    PROVE  TargetBuffers(a) <= TargetBuffers(b)
  <1> DEFINE qa == a \div ClassSize  qb == b \div ClassSize
             ra == a % ClassSize     rb == b % ClassSize
  <1>1. /\ ClassSize \in Nat \ {0} /\ qa \in Nat /\ qb \in Nat
        /\ ra \in 0 .. ClassSize - 1 /\ rb \in 0 .. ClassSize - 1
        /\ a = ClassSize * qa + ra /\ b = ClassSize * qb + rb
    BY ClassAssumption
  <1> HIDE DEF qa, qb, ra, rb
  <1>2. SUFFICES ASSUME qa >= qb + 1 PROVE FALSE
    BY <1>1 DEF TargetBuffers, qa, qb
  <1>3. ClassSize * qa >= ClassSize * (qb + 1)
    BY <1>1, <1>2
  <1>4. ClassSize * (qb + 1) = ClassSize * qb + ClassSize
    BY <1>1
  <1> QED
    BY <1>1, <1>3, <1>4

LEMMA CreditMonotone ==
    ASSUME NEW a \in Nat, NEW b \in Nat, a <= b, NEW s \in Shards
    PROVE  /\ CreditForShard(a, s).buffers <= CreditForShard(b, s).buffers
           /\ CreditForShard(a, s).bytes <= CreditForShard(b, s).bytes
  <1> DEFINE n == ShardBuffers(TargetBuffers(a), s)
             m == ShardBuffers(TargetBuffers(b), s)
  <1>1. n \in Nat /\ m \in Nat /\ n <= m /\ ClassSize \in Nat
    BY TargetInNat, TargetMonotone, ShareInNat, ShareMonotone, ClassAssumption
  <1>2. n * ClassSize <= m * ClassSize
    <2> HIDE DEF n, m
    <2> QED
      BY <1>1
  <1> QED
    BY <1>1, <1>2 DEF CreditForShard

(* Each half of a credit is a share of the assignment or of the one before. *)
Mixed ==
    \A s \in Shards :
        /\ creditBuffers[s] \in {CreditForShard(assigned, s).buffers,
                                 CreditForShard(previous, s).buffers}
        /\ creditBytes[s] \in {CreditForShard(assigned, s).bytes,
                               CreditForShard(previous, s).bytes}

LEMMA MixedStep ==
    ASSUME ClassTypes, Progress, Mixed, [ClassNext]_classVars
    PROVE  Mixed'
  <1>1. ASSUME NEW bytes \in Targets, NEW g \in Generations, StoreAssigned(bytes, g)
        PROVE  Mixed'
    BY <1>1 DEF StoreAssigned, Mixed, Progress, IsShare, creditVars
  <1>2. CASE StoreTargetBuffers
    <2>1. /\ UNCHANGED <<assigned, previous, creditBytes>>
          /\ creditBuffers' = [creditBuffers EXCEPT
                ![publisher.shard] = CreditForShard(assigned, publisher.shard).buffers]
      BY <1>2 DEF StoreTargetBuffers, budgetVars
    <2>2. \A s \in Shards : creditBuffers'[s] \in {creditBuffers[s],
                                                  CreditForShard(assigned, s).buffers}
      BY <2>1 DEF ClassTypes
    <2> QED
      BY <2>1, <2>2 DEF Mixed
  <1>3. CASE StoreTargetBytes
    <2>1. /\ UNCHANGED <<assigned, previous, creditBuffers>>
          /\ creditBytes' = [creditBytes EXCEPT
                ![publisher.shard] = CreditForShard(assigned, publisher.shard).bytes]
      BY <1>3 DEF StoreTargetBytes, budgetVars
    <2>2. \A s \in Shards : creditBytes'[s] \in {creditBytes[s],
                                                CreditForShard(assigned, s).bytes}
      BY <2>1 DEF ClassTypes
    <2> QED
      BY <2>1, <2>2 DEF Mixed
  <1>4. CASE PublishBudgetGeneration \/ PublishCreditGeneration \/ UNCHANGED classVars
    <2>1. UNCHANGED <<assigned, previous, creditBuffers, creditBytes>>
      BY <1>4 DEF PublishBudgetGeneration, PublishCreditGeneration, classVars, budgetVars, creditVars
    <2> QED
      BY <2>1 DEF Mixed
  <1>5. ASSUME NEW s \in Shards, ShardStep(s) PROVE Mixed'
    <2>1. UNCHANGED <<budgetVars, creditVars>>
      BY <1>5 DEF ShardStep, LockForRetain, LoadTargetBuffers, LoadTargetBytes, Decide,
                  TryGet, TrimBounded, Clear, RemoveNewest
    <2> QED
      BY <2>1 DEF Mixed, budgetVars, creditVars
  <1> QED
    BY <1>1, <1>2, <1>3, <1>4, <1>5 DEF ClassNext, UpdateBudgetAtLeast

(* A publication goes shard by shard, and yet the shards never hold more credit than  *)
(* the larger of the old and the new target funds; between publications they hold     *)
(* exactly the target, whatever its remainders (class_state.go:188-190).            *)
THEOREM CreditStaysWithin == ClassSpec => []CreditWithinTargets
  <1>1. ClassInit => Mixed
    BY DEF ClassInit, Mixed
  <1>2. ClassTypes /\ Progress /\ Mixed => CreditWithinTargets
    <2> SUFFICES ASSUME ClassTypes, Progress, Mixed PROVE CreditWithinTargets
      OBVIOUS
    <2>1. assigned \in Nat /\ previous \in Nat
      BY ClassAssumption DEF ClassTypes
    <2>2. \A s \in Shards : creditBuffers[s] \in Nat /\ creditBytes[s] \in Nat
      BY DEF ClassTypes
    <2>3. ASSUME NEW b \in Nat, assigned <= b, previous <= b
          PROVE  /\ CreditTotal.buffers <= TargetBuffers(b)
                 /\ CreditTotal.bytes <= TargetBuffers(b) * ClassSize
      <3>1. \A s \in Shards : /\ creditBuffers[s] <= ShareBuffers(b)[s]
                              /\ creditBytes[s] <= ShareBytes(b)[s]
        BY <2>1, <2>3, CreditMonotone DEF Mixed, ShareBuffers, ShareBytes
      <3>2. \A s \in Shards : ShareBuffers(b)[s] \in Nat /\ ShareBytes(b)[s] \in Nat
        BY <2>3, SharesFundTarget
      <3>3. /\ SumFunctionOnSet(creditBuffers, Shards)
                  <= SumFunctionOnSet(ShareBuffers(b), Shards)
            /\ SumFunctionOnSet(creditBytes, Shards)
                  <= SumFunctionOnSet(ShareBytes(b), Shards)
        BY <2>2, <3>1, <3>2, ShardsFinite, SumMonotone
      <3> QED
        BY <2>3, <3>3, SharesFundTarget DEF CreditTotal
    <2>4. /\ assigned >= previous => Fits(CreditTotal, [buffers |-> TargetBuffers(assigned),
                                            bytes |-> TargetBuffers(assigned) * ClassSize])
          /\ ~(assigned >= previous) => Fits(CreditTotal, [buffers |-> TargetBuffers(previous),
                                            bytes |-> TargetBuffers(previous) * ClassSize])
      BY <2>1, <2>3 DEF Fits
    <2>5. ASSUME publisher.step = "idle"
          PROVE  /\ CreditTotal.buffers = TargetBuffers(assigned)
                 /\ CreditTotal.bytes = TargetBuffers(assigned) * ClassSize
                 /\ \A s \in Shards : creditGeneration[s] = budgetGeneration
      <3>1. \A s \in Shards : IsShare(s, assigned) /\ creditGeneration[s] = budgetGeneration
        BY <2>5 DEF Progress
      <3>2. \A s \in Shards : /\ creditBuffers[s] = ShareBuffers(assigned)[s]
                              /\ creditBytes[s] = ShareBytes(assigned)[s]
        BY <3>1 DEF IsShare, ShareBuffers, ShareBytes
      <3>3. /\ SumFunctionOnSet(creditBuffers, Shards)
                  = SumFunctionOnSet(ShareBuffers(assigned), Shards)
            /\ SumFunctionOnSet(creditBytes, Shards)
                  = SumFunctionOnSet(ShareBytes(assigned), Shards)
        BY <3>2, ShardsFinite, SumAgrees
      <3> QED
        BY <2>1, <3>1, <3>3, SharesFundTarget DEF CreditTotal
    <2> QED
      BY <2>4, <2>5 DEF CreditWithinTargets
  <1>3. ClassTypes /\ Progress /\ Mixed /\ [ClassNext]_classVars => Mixed'
    BY MixedStep
  <1> QED
    BY <1>1, <1>2, <1>3, CreditTypeCorrect, ProgressHolds, PTL DEF ClassSpec

=============================================================================
