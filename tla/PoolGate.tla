------------------------------ MODULE PoolGate ------------------------------
(* Pool lifecycle, its operation gate and Close (pool_lifecycle.go,            *)
(* lifecycle.go), one atomic load, CAS, Add or critical section per action.    *)
(*                                                                             *)
(* Every Get, Put, trim or publication passes a double-checked gate: load the  *)
(* lifecycle, count itself in activeOperations, load the lifecycle again, and  *)
(* count itself out if Close won the race.  Close publishes Closing, waits on  *)
(* closeCond until the count is zero, clears the stores one by one and         *)
(* publishes Closed; other closers wait on the same condition variable.        *)
(*                                                                             *)
(* A store stands for one shard of one class; its contents are a number of     *)
(* buffers.  The limit StoreLimit is the bucket slot limit.                    *)
EXTENDS Naturals, FiniteSets

CONSTANTS Threads,      \* goroutines that call the Pool
          NumStores,    \* number of retained stores (class x shard)
          StoreLimit,   \* buffers one store can retain
          NoThread      \* closeMu is free

ASSUME ThreadsAssumption == IsFiniteSet(Threads) /\ NoThread \notin Threads
ASSUME StoresAssumption  == NumStores \in Nat /\ StoreLimit \in Nat

VARIABLES lifecycle,         \* AtomicLifecycle of the Pool
          activeOperations,  \* atomic counter of admitted operations
          closeMu,           \* holder of the mutex of closeCond
          clearOnClose,      \* PoolConfig clears retained storage on Close
          retained,          \* retained[s]: buffers kept by store s
          pc,                \* what each goroutine executes next
          op,                \* the operation it executes
          ret,               \* where its endOperation returns to
          clearIndex         \* stores below it have been cleared by Close

vars == <<lifecycle, activeOperations, closeMu, clearOnClose, retained, pc, op,
          ret, clearIndex>>

Stores == 0 .. NumStores - 1

-----------------------------------------------------------------------------
(* Sets of program counters *)

(* The goroutine is counted in activeOperations. *)
CountedPC == {"gateRecheck", "admitted", "endAdd"}
(* The goroutine performs the close-time cleanup. *)
CleanupPC == {"clear", "markClosed"}
(* The goroutine that moved the lifecycle to Closing, until Closed. *)
CloserPC  == {"drainLock", "drainCheck", "drainWait"} \cup CleanupPC
(* A concurrent Close, waiting for the first one. *)
FollowPC  == {"closedLock", "closedCheck", "closedWait"}
GatePC    == {"gateCheck", "gateAdd", "gateRecheck"}
EndPC     == {"endAdd", "endLoad", "endNotify"}
AllPC     == {"idle", "admitted", "closeBegin", "closedNotify", "closeReturned"}
                \cup GatePC \cup EndPC \cup CloserPC \cup FollowPC

Counted == {t \in Threads : pc[t] \in CountedPC}
Inside  == {t \in Threads : pc[t] = "admitted"}

AllowsWork == lifecycle = "Active"

TypeOK ==
    /\ lifecycle \in {"Active", "Closing", "Closed"}
    /\ activeOperations \in Nat
    /\ closeMu \in Threads \cup {NoThread}
    /\ clearOnClose \in BOOLEAN
    /\ retained \in [Stores -> 0 .. StoreLimit]
    /\ pc \in [Threads -> AllPC]
    /\ op \in [Threads -> {"none", "get", "put", "control", "close"}]
    /\ ret \in [Threads -> {"idle", "gateCheck"}]
    /\ clearIndex \in 0 .. NumStores

(* newPool returns an Active Pool with empty stores. *)
Init ==
    /\ lifecycle = "Active"
    /\ activeOperations = 0
    /\ closeMu = NoThread
    /\ clearOnClose \in BOOLEAN
    /\ retained = [s \in Stores |-> 0]
    /\ pc = [t \in Threads |-> "idle"]
    /\ op = [t \in Threads |-> "none"]
    /\ ret = [t \in Threads |-> "idle"]
    /\ clearIndex = 0

Goto(t, label) == pc' = [pc EXCEPT ![t] = label]
SetOp(t, kind) == op' = [op EXCEPT ![t] = kind]

-----------------------------------------------------------------------------
(* Calls *)

(* A goroutine calls Get, Put or a control operation (trim, publication). *)
StartOperation(t) ==
    /\ pc[t] = "idle"
    /\ \E kind \in {"get", "put", "control"} : SetOp(t, kind)
    /\ Goto(t, "gateCheck")
    /\ UNCHANGED <<lifecycle, activeOperations, closeMu, clearOnClose, retained, ret,
                   clearIndex>>

(* A goroutine calls Close. *)
StartClose(t) ==
    /\ pc[t] = "idle"
    /\ SetOp(t, "close")
    /\ Goto(t, "closeBegin")
    /\ UNCHANGED <<lifecycle, activeOperations, closeMu, clearOnClose, retained, ret,
                   clearIndex>>

-----------------------------------------------------------------------------
(* beginPoolForegroundOperation and beginReturnOperation *)

(* First check: refuse without counting the operation when Close has started. *)
GateCheck(t) ==
    /\ pc[t] = "gateCheck"
    /\ \/ AllowsWork /\ Goto(t, "gateAdd") /\ UNCHANGED op
       \/ ~AllowsWork /\ Goto(t, "idle") /\ SetOp(t, "none")
    /\ UNCHANGED <<lifecycle, activeOperations, closeMu, clearOnClose, retained, ret,
                   clearIndex>>

(* Mutated: the operation passes without being counted. *)
(* activeOperations.Add(1) *)
GateAdd(t) ==
    /\ pc[t] = "gateAdd"
    /\ activeOperations' = activeOperations + 1
    /\ Goto(t, "gateRecheck")
    /\ UNCHANGED <<lifecycle, closeMu, clearOnClose, retained, op, ret, clearIndex>>

(* The gate looks again once the operation is counted. *)
SecondCheckSkipped == TRUE
SecondCheck == AllowsWork

(* Second check: admit, or count the operation out again; then an acquisition or *)
(* a control operation tries its gate once more and a return gives up.           *)
GateRecheck(t) ==
    /\ pc[t] = "gateRecheck"
    /\ \/ SecondCheck /\ Goto(t, "admitted") /\ UNCHANGED ret
       \/ /\ ~SecondCheck
          /\ ret' = [ret EXCEPT ![t] = IF op[t] = "put" THEN "idle" ELSE "gateCheck"]
          /\ Goto(t, "endAdd")
    /\ UNCHANGED <<lifecycle, activeOperations, closeMu, clearOnClose, retained, op,
                   clearIndex>>

-----------------------------------------------------------------------------
(* Bodies of admitted operations: one critical section of one store *)

SetRetained(s, n) == retained' = [retained EXCEPT ![s] = n]

(* get: a hit pops a retained buffer; a miss allocates and changes no store. *)
GetBody(t) ==
    /\ op[t] = "get"
    /\ \E s \in Stores : \/ retained[s] > 0 /\ SetRetained(s, retained[s] - 1)
                         \/ retained[s] = 0 /\ UNCHANGED retained

(* returnBuffer: the store keeps the buffer, or policy, credit or a full bucket *)
(* refuse it.                                                                  *)
PutBody(t) ==
    /\ op[t] = "put"
    /\ \/ \E s \in Stores : retained[s] < StoreLimit /\ SetRetained(s, retained[s] + 1)
       \/ UNCHANGED retained

(* Trim removes buffers of a store; publications leave the stores alone. *)
ControlBody(t) ==
    /\ op[t] = "control"
    /\ \/ \E s \in Stores : \E n \in 0 .. retained[s] : SetRetained(s, n)
       \/ UNCHANGED retained

Body(t) ==
    /\ pc[t] = "admitted"
    /\ GetBody(t) \/ PutBody(t) \/ ControlBody(t)
    /\ Goto(t, "endAdd")
    /\ UNCHANGED <<lifecycle, activeOperations, closeMu, clearOnClose, op, ret,
                   clearIndex>>

-----------------------------------------------------------------------------
(* endOperation *)

(* endOperation returns: to the caller of the operation, or to the gate. *)
ResetReturn(t) ==
    /\ ret' = [ret EXCEPT ![t] = "idle"]
    /\ SetOp(t, IF ret[t] = "idle" THEN "none" ELSE op[t])

LeaveEnd(t) == Goto(t, ret[t]) /\ ResetReturn(t)

(* remaining := activeOperations.Add(-1) *)
EndAdd(t) ==
    /\ pc[t] = "endAdd"
    /\ activeOperations' = activeOperations - 1
    /\ \/ activeOperations = 1 /\ Goto(t, "endLoad") /\ UNCHANGED <<op, ret>>
       \/ activeOperations # 1 /\ LeaveEnd(t)
    /\ UNCHANGED <<lifecycle, closeMu, clearOnClose, retained, clearIndex>>

(* The last one out owes the closer a wake-up. *)
NeverNotify == FALSE
MustNotify  == ~AllowsWork

(* The last one out wakes the closer when Close has started. *)
EndLoad(t) ==
    /\ pc[t] = "endLoad"
    /\ \/ ~MustNotify /\ LeaveEnd(t)
       \/ MustNotify /\ Goto(t, "endNotify") /\ UNCHANGED <<op, ret>>
    /\ UNCHANGED <<lifecycle, activeOperations, closeMu, clearOnClose, retained,
                   clearIndex>>

(* closeCond.Broadcast: every waiter competes for closeMu again. *)
Woken(label) ==
    IF label = "drainWait" THEN "drainLock"
    ELSE IF label = "closedWait" THEN "closedLock" ELSE label

(* notifyLifecycleWaiters by t, which then executes label. *)
Broadcast(t, label) ==
    /\ closeMu = NoThread
    /\ pc' = [u \in Threads |-> IF u = t THEN label ELSE Woken(pc[u])]
    /\ UNCHANGED closeMu

EndNotify(t) ==
    /\ pc[t] = "endNotify"
    /\ Broadcast(t, ret[t])
    /\ ResetReturn(t)
    /\ UNCHANGED <<lifecycle, activeOperations, clearOnClose, retained, clearIndex>>

-----------------------------------------------------------------------------
(* Close *)

(* What a Close that lost BeginClose executes next. *)
FollowerReturns == "closeReturned"
FollowerEntry   == "closedLock"

(* BeginClose: the first caller owns the shutdown, the others wait for it. *)
CloseBegin(t) ==
    /\ pc[t] = "closeBegin"
    /\ \/ lifecycle = "Active" /\ lifecycle' = "Closing" /\ Goto(t, "drainLock")
       \/ lifecycle # "Active" /\ UNCHANGED lifecycle /\ Goto(t, FollowerEntry)
    /\ UNCHANGED <<activeOperations, closeMu, clearOnClose, retained, op, ret,
                   clearIndex>>

(* closeMu.Lock, on entry to a wait loop or when woken inside it *)
LockCloseMu(t) ==
    /\ closeMu = NoThread
    /\ closeMu' = t
    /\ \/ pc[t] = "drainLock"  /\ Goto(t, "drainCheck")
       \/ pc[t] = "closedLock" /\ Goto(t, "closedCheck")
    /\ UNCHANGED <<lifecycle, activeOperations, clearOnClose, retained, op, ret,
                   clearIndex>>

(* The condition that waitForOperations waits for. *)
WokenMeansDrained == TRUE
Drained == activeOperations = 0

(* Mutated: the wait does not release closeMu. *)
(* waitForOperations: re-test, then wait (which releases closeMu) or go on. *)
DrainCheck(t) ==
    /\ pc[t] = "drainCheck"
    /\ closeMu' = NoThread
    /\ \/ ~Drained /\ Goto(t, "drainWait")
       \/ Drained /\ Goto(t, IF clearOnClose THEN "clear" ELSE "markClosed")
    /\ UNCHANGED <<lifecycle, activeOperations, clearOnClose, retained, op, ret,
                   clearIndex>>

(* The number of stores that Close clears. *)
AllButLastStore == IF NumStores > 0 THEN NumStores - 1 ELSE 0
StoresToClear   == NumStores

(* clearRetainedStorage: one store after the other, each under its own lock. *)
ClearStore(t) ==
    /\ pc[t] = "clear"
    /\ \/ /\ clearIndex < StoresToClear
          /\ SetRetained(clearIndex, 0)
          /\ clearIndex' = clearIndex + 1
          /\ UNCHANGED pc
       \/ clearIndex = StoresToClear /\ Goto(t, "markClosed") /\ UNCHANGED <<retained, clearIndex>>
    /\ UNCHANGED <<lifecycle, activeOperations, closeMu, clearOnClose, op, ret>>

MarkClosed(t) ==
    /\ pc[t] = "markClosed"
    /\ lifecycle' = "Closed"
    /\ Goto(t, "closedNotify")
    /\ UNCHANGED <<activeOperations, closeMu, clearOnClose, retained, op, ret,
                   clearIndex>>

ClosedNotify(t) ==
    /\ pc[t] = "closedNotify"
    /\ Broadcast(t, "closeReturned")
    /\ UNCHANGED <<lifecycle, activeOperations, clearOnClose, retained, op, ret,
                   clearIndex>>

(* waitForClosed *)
ClosedCheck(t) ==
    /\ pc[t] = "closedCheck"
    /\ closeMu' = NoThread
    /\ Goto(t, IF lifecycle = "Closed" THEN "closeReturned" ELSE "closedWait")
    /\ UNCHANGED <<lifecycle, activeOperations, clearOnClose, retained, op, ret,
                   clearIndex>>

(* Close has returned nil to its caller. *)
CloseReturn(t) ==
    /\ pc[t] = "closeReturned"
    /\ Goto(t, "idle")
    /\ SetOp(t, "none")
    /\ UNCHANGED <<lifecycle, activeOperations, closeMu, clearOnClose, retained, ret,
                   clearIndex>>

-----------------------------------------------------------------------------
(* The steps a goroutine takes once it has called; calling is up to the caller. *)
Step(t) ==
    \/ GateCheck(t) \/ GateAdd(t) \/ GateRecheck(t) \/ Body(t)
    \/ EndAdd(t) \/ EndLoad(t) \/ EndNotify(t)
    \/ CloseBegin(t) \/ LockCloseMu(t) \/ DrainCheck(t) \/ ClearStore(t)
    \/ MarkClosed(t) \/ ClosedNotify(t) \/ ClosedCheck(t) \/ CloseReturn(t)

Next == \E t \in Threads : StartOperation(t) \/ StartClose(t) \/ Step(t)

Spec == Init /\ [][Next]_vars

(* A goroutine that can take a step is scheduled eventually, and sync.Mutex hands *)
(* itself over to a starving waiter, so that a goroutine that keeps finding       *)
(* closeMu free at times gets it.                                                 *)
Fairness ==
    \A t \in Threads : /\ WF_vars(Step(t))
                       /\ SF_vars(LockCloseMu(t) \/ EndNotify(t) \/ ClosedNotify(t))

FairSpec == Spec /\ Fairness

-----------------------------------------------------------------------------
(* Properties *)

(* activeOperations counts exactly the operations between the gate's Add(1) and *)
(* endOperation's Add(-1): endOperation never panics on underflow and a zero     *)
(* count means that nobody can touch runtime state.                             *)
OperationsCounted == activeOperations = Cardinality(Counted)

(* The barrier of Close (pool_lifecycle.go:276): while stores are cleared, and   *)
(* after Closed, no admitted operation runs, however late it passed its first   *)
(* check.                                                                       *)
CleanupBarrier ==
    (lifecycle = "Closed" \/ \E t \in Threads : pc[t] \in CleanupPC) => Inside = {}

(* Close-time cleanup is not duplicated: one goroutine owns the shutdown. *)
SingleCloser ==
    \A t, u \in Threads : pc[t] \in CloserPC /\ pc[u] \in CloserPC => t = u

(* A Pool configured to clear on Close retains nothing once it is Closed: no     *)
(* late Put slips a buffer into a store that was already cleared.               *)
NothingRetainedAfterClose ==
    lifecycle = "Closed" /\ clearOnClose => \A s \in Stores : retained[s] = 0

(* Close is synchronous for every caller (pool_lifecycle.go:88-97).             *)
CloseIsSynchronous ==
    \A t \in Threads : pc[t] = "closeReturned" => lifecycle = "Closed"

(* Retained storage is never touched by a call that saw the Pool after Close     *)
(* returned, and storage kept by a Pool that does not clear survives unchanged. *)
StorageFrozenAfterClose == [][lifecycle = "Closed" => retained' = retained]_vars

(* Every Close returns: the last admitted operation, or the operation that rolls *)
(* back, wakes the closer, and the closer wakes the followers.  Every operation   *)
(* returns or is refused, also one that notifies while Close holds the mutex.     *)
CallsTerminate ==
    \A t \in Threads : /\ (pc[t] = "closeBegin") ~> (pc[t] = "closeReturned")
                       /\ (pc[t] = "gateCheck") ~> (pc[t] = "idle")

-----------------------------------------------------------------------------
(* The gate implements the service. *)
Service == INSTANCE PoolService WITH
    phase <- lifecycle,
    inside <- Inside,
    stored <- retained,
    clearing <- clearOnClose

ImplementsService == Service!Spec
=============================================================================
