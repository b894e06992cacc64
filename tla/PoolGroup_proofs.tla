--------------------------- MODULE PoolGroup_proofs ---------------------------
(* The locks of a group for any number of goroutines, partitions and Pools: what a  *)
(* call holds at each of its positions, and from it that policies and pressure     *)
(* reach all partitions and that Close is final.                                 *)
EXTENDS PoolGroup, WellFoundedInduction, TLAPS

Positions ==
    {"idle", "enterGroup", "enterPartition", "work", "evaluate", "apply", "controller",
     "admitPools", "tickPublish", "announce", "locked", "admitPartitions", "lockControllers",
     "plan", "publish", "applyPolicy", "press", "pressed", "stop", "join", "closeGate",
     "closePartition", "finishClose", "drain"}
Ops == {"none", "acquire", "release", "tick", "partitionTick", "policy", "pressure", "close",
        "closePartition", "closePool"}
Gates == Partitions \cup {Group}

CallType == [pc : Positions, op : Ops, at : Gates, todo : SUBSET Nat, number : Nat,
             policy : Policies]

Types ==
    /\ lifecycle \in {"active", "closing", "closed"} /\ generation \in Nat
    /\ runtime \in [generation : Nat, policy : Policies, pressure : Nat]
    /\ readers \in [Gates -> SUBSET Actors]
    /\ writer \in [Gates -> Actors \cup {NoThread}]
    /\ controllerMu \in [Partitions -> Actors \cup {NoThread}]
    /\ inside \in [Pools -> SUBSET Actors]
    /\ partitionLifecycle \in [Partitions -> {"active", "closed"}]
    /\ budget \in [Partitions -> Nat] /\ pressure \in [Partitions -> Nat]
    /\ poolClosed \in [Pools -> BOOLEAN] /\ poolBudget \in [Pools -> Nat]
    /\ leases \in Nat
    /\ call \in [Actors -> CallType]
    /\ publications \in Nat /\ required \in Nat /\ rejected \in SUBSET Nat

(* Which calls can be where, and what is left to do there *)
Route(c) ==
    /\ c.pc \in {"enterGroup"} => c.op \in {"acquire", "release", "tick"}
    /\ c.op = "acquire" \/ c.op = "release" => c.pc \in {"enterGroup", "enterPartition", "work"}
    /\ c.pc \in {"enterPartition", "work"} => c.op \in {"acquire", "release", "partitionTick"}
    /\ c.pc = "work" => c.op # "partitionTick"
    /\ c.op \in {"acquire", "release", "partitionTick"} => c.at \in Partitions
    /\ c.pc \in {"evaluate", "apply"} => c.op = "tick"
    /\ c.pc \in {"controller", "tickPublish"} => c.op = "partitionTick"
    /\ c.pc = "admitPools" => c.op \in {"policy", "partitionTick"}
    /\ c.pc \in {"admitPartitions", "lockControllers", "plan", "publish", "applyPolicy"} =>
          c.op = "policy"
    /\ c.pc \in {"press", "pressed"} => c.op = "pressure"
    /\ c.pc \in {"announce", "locked"} => c.op \in {"policy", "pressure", "close"}
    /\ c.pc \in {"stop", "join"} => c.op \in {"close", "closePartition"} /\ c.todo \subseteq Partitions
    /\ c.op = "closePartition" => c.todo # {}
    /\ c.pc \in {"closeGate", "closePartition"} =>
          c.op \in {"close", "closePartition"} /\ c.todo \subseteq Partitions /\ c.todo # {}
    /\ c.pc = "finishClose" => c.op = "close"
    /\ c.pc \in {"apply", "admitPartitions", "lockControllers", "applyPolicy", "press"} =>
          c.todo \subseteq Partitions /\ c.todo # {}
    /\ c.pc = "admitPools" => c.todo \subseteq Pools /\ c.todo # {}
    /\ c.op = "none" => c.pc = "idle"

-----------------------------------------------------------------------------
(* What a call holds *)

Publication(c) ==
    \/ c.pc \in {"admitPartitions", "lockControllers", "plan", "publish", "applyPolicy"}
    \/ c.pc = "admitPools" /\ c.op = "policy"
PressurePass(c) == c.pc \in {"press", "pressed"}
Closing(c) ==
    /\ c.op = "close"
    /\ \/ c.pc \in {"stop", "join"} /\ c.todo # {}
       \/ c.pc \in {"closeGate", "closePartition", "finishClose"}
ReadsGroup(c) ==
    \/ c.op \in {"acquire", "release"} /\ c.pc \in {"enterPartition", "work"}
    \/ c.pc \in {"evaluate", "apply"}
WritesGroup(c) == Publication(c) \/ PressurePass(c) \/ Closing(c)

TickOf(c, p) ==
    /\ c.at = p
    /\ \/ c.pc \in {"controller", "tickPublish"}
       \/ c.pc = "admitPools" /\ c.op = "partitionTick"
InGate(c, p) ==
    \/ TickOf(c, p)
    \/ Publication(c) /\ (c.pc = "admitPartitions" => p \notin c.todo)
HasController(c, p) ==
    \/ TickOf(c, p) /\ c.pc # "controller"
    \/ /\ Publication(c) /\ c.pc # "admitPartitions"
       /\ c.pc = "lockControllers" => p \notin c.todo

Holds(t) ==
    LET c == call[t] IN
    /\ ReadsGroup(c) => t \in readers[Group]
    /\ WritesGroup(c) => writer[Group] = t /\ readers[Group] = {}
    /\ \A p \in Partitions : InGate(c, p) => t \in readers[p]
    /\ \A p \in Partitions : HasController(c, p) => controllerMu[p] = t

(* What holding them keeps as it is *)
Secured(t) ==
    LET c == call[t] IN
    /\ ReadsGroup(c) /\ c.op # "release" => lifecycle = "active"
    /\ Publication(c) \/ PressurePass(c) => lifecycle = "active"
    /\ Closing(c) => lifecycle = "closing"
    /\ \A p \in Partitions : TickOf(c, p) => partitionLifecycle[p] = "active"

-----------------------------------------------------------------------------
(* Publication numbers *)

(* Publications that may still be rejected *)
Pending(c) == Publication(c) /\ c.pc # "applyPolicy"
Live(c) ==
    \/ c.pc \in {"apply", "applyPolicy"}
    \/ \E p \in Partitions : TickOf(c, p) /\ c.pc # "controller"

Bounded ==
    /\ \A t \in Actors : call[t].number <= publications
    /\ \A p \in Partitions : budget[p] <= publications /\ pressure[p] <= publications
    /\ \A q \in Pools : poolBudget[q] <= publications
    /\ runtime.pressure <= publications /\ required <= publications
    /\ \A n \in rejected : n \in 1 .. publications

Fresh(t) ==
    LET n == call[t].number IN
    Pending(call[t]) =>
        /\ n # 0 /\ n \notin rejected
        /\ \A p \in Partitions : budget[p] # n
        /\ \A q \in Pools : poolBudget[q] # n
        /\ \A u \in Actors \ {t} : call[u].number # n

LiveNumber(t) ==
    Live(call[t]) => call[t].number \notin rejected /\ call[t].number >= required

ClosedPartition(p) ==
    partitionLifecycle[p] = "closed" /\ \A q \in PoolsOf(p) : poolClosed[q]

(* How far the calls are that pass over the partitions one by one *)
Passed(t) ==
    LET c == call[t] IN
    /\ PressurePass(c) => c.number >= runtime.pressure
    /\ c.pc = "press" => \A p \in Partitions \ c.todo : pressure[p] >= c.number
    /\ c.pc = "pressed" => \A p \in Partitions : pressure[p] >= c.number
    /\ c.pc = "applyPolicy" =>
          /\ \A p \in Partitions \ c.todo :
                budget[p] >= required /\ \A q \in PoolsOf(p) : poolBudget[q] >= required
    /\ Closing(c) => \A p \in Partitions : c.pc = "finishClose" \/ p \notin c.todo => ClosedPartition(p)

Reached ==
    /\ PolicyReachesAllOrNone
    /\ PressureReachedPartitions
    /\ lifecycle = "closed" => \A p \in Partitions : ClosedPartition(p)

Local(t) ==
    /\ Route(call[t]) /\ Holds(t) /\ Secured(t)
    /\ Fresh(t) /\ LiveNumber(t) /\ Passed(t)

IInv == Types /\ Bounded /\ Reached /\ \A t \in Actors : Local(t)

-----------------------------------------------------------------------------
(* Operators *)

LEMMA FirstOfTodo ==
    ASSUME NEW S \in SUBSET Nat, S # {} PROVE First(S) \in S
  <1>1. PICK m \in S : \A k \in S : ~(<<k, m>> \in OpToRel(<, Nat))
    BY NatLessThanWellFounded, WFMin
  <1>2. ASSUME NEW k \in S PROVE m <= k
    <2>1. k \in Nat /\ m \in Nat /\ ~(k < m)
      BY <1>1, <1>2 DEF OpToRel
    <2> QED
      BY <2>1
  <1> QED
    BY <1>1, <1>2 DEF First, Min

LEMMA Constants ==
    /\ Partitions \subseteq Nat /\ Group \notin Partitions /\ Group \in Nat
    /\ Pools \subseteq Nat /\ \A q \in Pools : PoolOwner[q] \in Partitions
    /\ Partitions # {} /\ Pools # {}
    /\ NoThread \notin Actors
  <1>1. 1 \in Partitions
    BY GroupAssumption DEF Partitions
  <1> QED
    BY <1>1, GroupAssumption DEF Partitions, Group

LEMMA NoCallType == ASSUME Policies # {} PROVE NoCall \in CallType
  BY DEF NoCall, CallType, Positions, Ops, Gates

LEMMA NoCallFields ==
    /\ NoCall.pc = "idle" /\ NoCall.op = "none" /\ NoCall.at = Group /\ NoCall.todo = {}
    /\ NoCall.number = 0
  BY DEF NoCall

LEMMA PoliciesExist == ASSUME Types PROVE Policies # {}
  <1>1. runtime.policy \in Policies
    BY DEF Types
  <1> QED
    BY <1>1

-----------------------------------------------------------------------------
(* Moves of a call *)

(* What a step makes of the record of its call; the others keep theirs.           *)
Becomes(t, c) ==
    /\ call' \in [Actors -> CallType] /\ call'[t] = c
    /\ \A u \in Actors \ {t} : call'[u] = call[u]

LEMMA BecomesReleased ==
    ASSUME Types, NEW t \in Actors, Released(t) PROVE Becomes(t, NoCall)
  <1>1. NoCall \in CallType
    BY NoCallType, PoliciesExist
  <1>2. call \in [Actors -> CallType] /\ call' = [call EXCEPT ![t] = NoCall]
    BY DEF Released, Types
  <1> QED
    BY <1>1, <1>2 DEF Becomes

LEMMA CallIsTyped ==
    ASSUME Types, NEW t \in Actors
    PROVE  /\ call \in [Actors -> CallType] /\ call[t] \in CallType
           /\ \A pc \in Positions : [call[t] EXCEPT !.pc = pc] \in CallType
           /\ \A todo \in SUBSET Nat : [call[t] EXCEPT !.todo = todo] \in CallType
           /\ \A pc \in Positions, todo \in SUBSET Nat :
                 [call[t] EXCEPT !.pc = pc, !.todo = todo] \in CallType
  <1>1. call \in [Actors -> CallType] /\ call[t] \in CallType
    BY DEF Types
  <1>2. ASSUME NEW pc \in Positions PROVE [call[t] EXCEPT !.pc = pc] \in CallType
    BY <1>1 DEF CallType
  <1>3. ASSUME NEW todo \in SUBSET Nat PROVE [call[t] EXCEPT !.todo = todo] \in CallType
    BY <1>1 DEF CallType
  <1>4. ASSUME NEW pc \in Positions, NEW todo \in SUBSET Nat
        PROVE  [call[t] EXCEPT !.pc = pc, !.todo = todo] \in CallType
    BY <1>1 DEF CallType
  <1> QED
    BY <1>1, <1>2, <1>3, <1>4

(* A single change of call[t] *)
LEMMA BecomesExcept ==
    ASSUME Types, NEW t \in Actors, NEW c \in CallType, call' = [call EXCEPT ![t] = c]
    PROVE  Becomes(t, c)
  BY CallIsTyped DEF Becomes

LEMMA BecomesGoto ==
    ASSUME Types, NEW t \in Actors, NEW pc \in Positions, Goto(t, pc)
    PROVE  Becomes(t, [call[t] EXCEPT !.pc = pc])
  <1>1. call' = [call EXCEPT ![t] = [call[t] EXCEPT !.pc = pc]]
    BY CallIsTyped DEF Goto
  <1> QED
    BY <1>1, CallIsTyped, BecomesExcept

LEMMA BecomesEach ==
    ASSUME Types, NEW t \in Actors, NEW pc \in Positions, NEW todo \in SUBSET Nat,
           Each(t, pc, todo)
    PROVE  Becomes(t, [call[t] EXCEPT !.pc = pc, !.todo = todo])
  <1>1. call' = [call EXCEPT ![t] = [call[t] EXCEPT !.pc = pc, !.todo = todo]]
    BY CallIsTyped DEF Each
  <1>2. [call[t] EXCEPT !.pc = pc, !.todo = todo] \in CallType
    BY CallIsTyped
  <1> QED
    BY <1>1, <1>2, BecomesExcept

LEMMA BecomesAdvanced ==
    ASSUME Types, NEW t \in Actors, NEW pc \in Positions, NEW todo \in SUBSET Nat, NEW done,
           Advance(t, done, pc, todo)
    PROVE  Becomes(t, IF call[t].todo \ {done} = {}
                      THEN [call[t] EXCEPT !.pc = pc, !.todo = todo]
                      ELSE [call[t] EXCEPT !.todo = @ \ {done}])
  <1>1. CASE call[t].todo \ {done} = {}
    BY <1>1, BecomesEach DEF Advance
  <1>2. CASE call[t].todo \ {done} # {}
    <2>1. call' = [call EXCEPT ![t] = [call[t] EXCEPT !.todo = @ \ {done}]]
      BY <1>2, CallIsTyped DEF Advance
    <2>2. call[t].todo \ {done} \in SUBSET Nat
      BY CallIsTyped DEF CallType
    <2>3. Becomes(t, [call[t] EXCEPT !.todo = @ \ {done}])
      BY <2>1, <2>2, CallIsTyped, BecomesExcept
    <2> QED
      BY <1>2, <2>3
  <1> QED
    BY <1>1, <1>2

-----------------------------------------------------------------------------
(* What a step of t leaves to the others *)

LockTypes ==
    /\ readers \in [Gates -> SUBSET Actors]
    /\ writer \in [Gates -> Actors \cup {NoThread}]
    /\ controllerMu \in [Partitions -> Actors \cup {NoThread}]
    /\ inside \in [Pools -> SUBSET Actors]

(* Nobody loses a lock to t, and t does not read what another has locked. *)
LocksKept(t) ==
    /\ LockTypes'
    /\ \A l \in Gates, u \in Actors \ {t} : u \in readers[l] => u \in readers'[l]
    /\ \A u \in Actors \ {t} :
          writer[Group] = u => writer'[Group] = u /\ (readers[Group] = {} => readers'[Group] = {})
    /\ \A p \in Partitions, u \in Actors \ {t} : controllerMu[p] = u => controllerMu'[p] = u

(* What t may change, by the locks it holds *)
Alone(t) == writer[Group] = t /\ readers[Group] = {}
Guarded(t) ==
    /\ UNCHANGED <<lifecycle, runtime, pressure, required>> \/ Alone(t)
    /\ budget' = budget \/ Alone(t) \/ t \in readers[Group]
    /\ poolBudget' = poolBudget \/ \E p \in Partitions : controllerMu[p] = t
    /\ required' = required \/ \A p \in Partitions : controllerMu[p] = t
    /\ \A p \in Partitions :
          \/ partitionLifecycle'[p] = partitionLifecycle[p]
          \/ readers[p] = {} /\ partitionLifecycle'[p] = "closed"
    /\ \A q \in Pools : poolClosed[q] => poolClosed'[q]

(* The numbers it may give them *)
Numbered(t) ==
    LET n == call[t].number IN
    /\ \/ call'[t].number = 0 \/ call'[t].number = n
       \/ call'[t].number = publications + 1 /\ publications' = publications + 1
       \/ \E p \in Partitions : call'[t].number = budget[p]
    /\ publications' = publications \/ publications' = publications + 1
    /\ \A p \in Partitions : budget'[p] = budget[p] \/ budget'[p] = n
    /\ \A p \in Partitions : pressure'[p] = pressure[p] \/ pressure'[p] = n
    /\ \A q \in Pools : poolBudget'[q] = poolBudget[q] \/ poolBudget'[q] = n
    /\ runtime'.pressure = runtime.pressure \/ runtime'.pressure = n
    /\ required' = required \/ required' = n
    /\ rejected' = rejected \/ (Pending(call[t]) /\ rejected' = rejected \cup {n})
    /\ UNCHANGED <<budget, poolBudget>> \/ (Live(call[t]) /\ rejected' = rejected)

OthersKept(t) == \A u \in Actors \ {t} : call'[u] = call[u]

LEMMA OthersHold ==
    ASSUME Types, NEW t \in Actors, NEW u \in Actors \ {t}, OthersKept(t), LocksKept(t), Holds(u)
    PROVE  Holds(u)'
  <1>1. call'[u] = call[u]
    BY DEF OthersKept
  <1>2. Group \in Gates /\ \A p \in Partitions : p \in Gates
    BY DEF Gates
  <1>3. ReadsGroup(call'[u]) => u \in readers'[Group]
    BY <1>1, <1>2 DEF Holds, LocksKept
  <1>4. WritesGroup(call'[u]) => writer'[Group] = u /\ readers'[Group] = {}
    BY <1>1, <1>2 DEF Holds, LocksKept
  <1>5. ASSUME NEW p \in Partitions, InGate(call'[u], p) PROVE u \in readers'[p]
    BY <1>1, <1>2, <1>5 DEF Holds, LocksKept
  <1>6. ASSUME NEW p \in Partitions, HasController(call'[u], p) PROVE controllerMu'[p] = u
    BY <1>1, <1>2, <1>6 DEF Holds, LocksKept
  <1> QED
    BY <1>3, <1>4, <1>5, <1>6 DEF Holds

LEMMA OthersSecured ==
    ASSUME Types, NEW t \in Actors, NEW u \in Actors \ {t}, OthersKept(t), Guarded(t),
           Holds(u), Secured(u)
    PROVE  Secured(u)'
  <1>1. call'[u] = call[u]
    BY DEF OthersKept
  <1>2. ReadsGroup(call[u]) \/ WritesGroup(call[u]) => lifecycle' = lifecycle
    BY DEF Guarded, Alone, Holds
  <1>3. ASSUME NEW p \in Partitions, TickOf(call[u], p)
        PROVE  partitionLifecycle'[p] = partitionLifecycle[p]
    <2>1. u \in readers[p]
      BY <1>3 DEF Holds, InGate
    <2> QED
      BY <2>1 DEF Guarded
  <1> QED
    BY <1>1, <1>2, <1>3 DEF Secured, WritesGroup

LEMMA OthersFresh ==
    ASSUME Types, Bounded, NEW t \in Actors, NEW u \in Actors \ {t}, OthersKept(t), Numbered(t),
           Fresh(u)
    PROVE  Fresh(u)'
  <1> DEFINE n == call[u].number
  <1>1. call'[u] = call[u]
    BY DEF OthersKept
  <1>2. SUFFICES ASSUME Pending(call[u])
                 PROVE  /\ n # 0 /\ n \notin rejected'
                        /\ \A p \in Partitions : budget'[p] # n
                        /\ \A q \in Pools : poolBudget'[q] # n
                        /\ \A v \in Actors \ {u} : call'[v].number # n
    BY <1>1 DEF Fresh
  <1>3. n # 0 /\ call[t].number # n /\ n \notin rejected
    BY <1>2 DEF Fresh
  <1>4. n \notin rejected'
    BY <1>3 DEF Numbered
  <1>5. \A p \in Partitions : budget'[p] # n
    BY <1>2, <1>3 DEF Fresh, Numbered
  <1>6. \A q \in Pools : poolBudget'[q] # n
    BY <1>2, <1>3 DEF Fresh, Numbered
  <1>7. n # publications + 1
    <2>1. n \in Nat /\ publications \in Nat
      BY DEF Types, CallType
    <2> QED
      BY <2>1 DEF Bounded
  <1>8. call'[t].number # n
    BY <1>2, <1>3, <1>7 DEF Fresh, Numbered
  <1>9. ASSUME NEW v \in Actors \ {u} PROVE call'[v].number # n
    BY <1>2, <1>8, <1>9 DEF Fresh, OthersKept
  <1> QED
    BY <1>3, <1>4, <1>5, <1>6, <1>9

LEMMA OthersLive ==
    ASSUME Types, NEW t \in Actors, NEW u \in Actors \ {t}, OthersKept(t), Guarded(t), Numbered(t),
           Route(call[u]), Holds(u), Fresh(t), LiveNumber(u)
    PROVE  LiveNumber(u)'
  <1>1. call'[u] = call[u]
    BY DEF OthersKept
  <1>2. SUFFICES ASSUME Live(call[u])
                 PROVE  call[u].number \notin rejected' /\ call[u].number >= required'
    BY <1>1 DEF LiveNumber
  <1>3. call[u].number \notin rejected'
    BY <1>2 DEF LiveNumber, Numbered, Fresh
  <1>4. required' = required
    <2>1. CASE call[u].pc \in {"apply", "applyPolicy"}
      <3>1. ReadsGroup(call[u]) \/ WritesGroup(call[u])
        BY <2>1 DEF ReadsGroup, WritesGroup, Publication
      <3> QED
        BY <3>1 DEF Holds, Guarded, Alone
    <2>2. CASE \E p \in Partitions : TickOf(call[u], p) /\ call[u].pc # "controller"
      <3>1. PICK p \in Partitions : controllerMu[p] = u
        BY <2>2 DEF HasController, Holds
      <3> QED
        BY <3>1 DEF Guarded
    <2> QED
      BY <1>2, <2>1, <2>2 DEF Live
  <1> QED
    BY <1>2, <1>3, <1>4 DEF LiveNumber

LEMMA ClosedStaysClosed ==
    ASSUME Types, NEW t \in Actors, Guarded(t), NEW p \in Partitions, ClosedPartition(p)
    PROVE  ClosedPartition(p)'
  BY DEF Guarded, ClosedPartition, PoolsOf

LEMMA OthersPassed ==
    ASSUME Types, NEW t \in Actors, NEW u \in Actors \ {t}, OthersKept(t), Guarded(t),
           Holds(u), Passed(u)
    PROVE  Passed(u)'
  <1>1. call'[u] = call[u]
    BY DEF OthersKept
  <1>2. WritesGroup(call[u]) => UNCHANGED <<runtime, pressure, budget, required>>
    BY DEF Guarded, Alone, Holds
  <1>3. call[u].pc = "applyPolicy" => WritesGroup(call[u]) /\ poolBudget' = poolBudget
    <2>1. SUFFICES ASSUME call[u].pc = "applyPolicy" PROVE WritesGroup(call[u]) /\ poolBudget' = poolBudget
      OBVIOUS
    <2>2. WritesGroup(call[u]) /\ \A p \in Partitions : HasController(call[u], p)
      BY <2>1 DEF WritesGroup, Publication, HasController
    <2> QED
      BY <2>2 DEF Guarded, Holds
  <1>4. PressurePass(call[u]) => call[u].number >= runtime'.pressure
    BY <1>2 DEF Passed, WritesGroup
  <1>5. call[u].pc = "press" => \A p \in Partitions \ call[u].todo : pressure'[p] >= call[u].number
    BY <1>2 DEF Passed, WritesGroup, PressurePass
  <1>6. call[u].pc = "pressed" => \A p \in Partitions : pressure'[p] >= call[u].number
    BY <1>2 DEF Passed, WritesGroup, PressurePass
  <1>7. call[u].pc = "applyPolicy" =>
          \A p \in Partitions \ call[u].todo :
             budget'[p] >= required' /\ \A q \in PoolsOf(p) : poolBudget'[q] >= required'
    BY <1>2, <1>3 DEF Passed
  <1>8. Closing(call[u]) => \A p \in Partitions :
           call[u].pc = "finishClose" \/ p \notin call[u].todo => ClosedPartition(p)'
    BY ClosedStaysClosed DEF Passed
  <1> QED
    BY <1>1, <1>4, <1>5, <1>6, <1>7, <1>8 DEF Passed, PoolsOf

LEMMA OthersLocal ==
    ASSUME IInv, NEW t \in Actors, OthersKept(t), LocksKept(t), Guarded(t), Numbered(t),
           NEW u \in Actors \ {t}
    PROVE  Local(u)'
  <1>1. Types /\ Bounded /\ Local(t) /\ Local(u)
    BY DEF IInv
  <1>2. Route(call'[u])
    BY <1>1 DEF Local, OthersKept
  <1>3. Holds(u)' /\ Secured(u)' /\ Fresh(u)' /\ LiveNumber(u)' /\ Passed(u)'
    BY <1>1, OthersHold, OthersSecured, OthersFresh, OthersLive, OthersPassed DEF Local
  <1> QED
    BY <1>2, <1>3 DEF Local

LEMMA BoundKept ==
    ASSUME IInv, NEW t \in Actors, OthersKept(t), Numbered(t) PROVE Bounded'
  <1> DEFINE n == call[t].number
  <1>1. publications \in Nat /\ publications' \in Nat /\ publications' >= publications
    BY DEF IInv, Types, Numbered
  <1>2. n \in Nat /\ n <= publications /\ n <= publications'
    BY <1>1 DEF IInv, Types, CallType, Bounded
  <1>3. \A p \in Partitions : budget[p] \in Nat /\ budget[p] <= publications'
    BY <1>1 DEF IInv, Types, Bounded
  <1>4. \A u \in Actors : call[u].number \in Nat /\ call[u].number <= publications'
    BY <1>1 DEF IInv, Types, Bounded, CallType
  <1>5. call'[t].number <= publications'
    BY <1>1, <1>2, <1>3 DEF Numbered
  <1>6. \A u \in Actors : call'[u].number <= publications'
    BY <1>4, <1>5 DEF OthersKept
  <1>7. \A p \in Partitions : budget'[p] <= publications'
    BY <1>2, <1>3 DEF Numbered
  <1>8. \A p \in Partitions : pressure'[p] <= publications'
    <2>1. \A p \in Partitions : pressure[p] \in Nat /\ pressure[p] <= publications'
      BY <1>1 DEF IInv, Types, Bounded
    <2> QED
      BY <1>2, <2>1 DEF Numbered
  <1>9. \A q \in Pools : poolBudget'[q] <= publications'
    <2>1. \A q \in Pools : poolBudget[q] \in Nat /\ poolBudget[q] <= publications'
      BY <1>1 DEF IInv, Types, Bounded
    <2> QED
      BY <1>2, <2>1 DEF Numbered
  <1>10. runtime'.pressure <= publications' /\ required' <= publications'
    <2>1. runtime.pressure \in Nat /\ required \in Nat
          /\ runtime.pressure <= publications' /\ required <= publications'
      BY <1>1 DEF IInv, Types, Bounded
    <2> QED
      BY <1>2, <2>1 DEF Numbered
  <1>11. \A m \in rejected' : m \in 1 .. publications'
    <2>1. \A m \in rejected : m \in 1 .. publications'
      BY <1>1 DEF IInv, Bounded
    <2>2. Pending(call[t]) => n \in 1 .. publications'
      BY <1>1, <1>2 DEF IInv, Local, Fresh
    <2> QED
      BY <2>1, <2>2 DEF Numbered
  <1> QED
    BY <1>6, <1>7, <1>8, <1>9, <1>10, <1>11 DEF Bounded

LEMMA RejectedReachNobody ==
    ASSUME IInv, NEW t \in Actors, Numbered(t)
    PROVE  /\ \A p \in Partitions : budget'[p] \notin rejected'
           /\ \A q \in Pools : poolBudget'[q] \notin rejected'
  <1>1. /\ \A p \in Partitions : budget[p] \notin rejected
        /\ \A q \in Pools : poolBudget[q] \notin rejected
    BY DEF IInv, Reached, PolicyReachesAllOrNone
  <1>2. CASE Live(call[t]) /\ rejected' = rejected
    <2>1. call[t].number \notin rejected
      BY <1>2 DEF IInv, Local, LiveNumber
    <2> QED
      BY <1>1, <1>2, <2>1 DEF Numbered
  <1>3. CASE UNCHANGED <<budget, poolBudget>>
    <2>1. CASE rejected' = rejected
      BY <1>1, <1>3, <2>1
    <2>2. CASE Pending(call[t]) /\ rejected' = rejected \cup {call[t].number}
      <3>1. /\ \A p \in Partitions : budget[p] # call[t].number
            /\ \A q \in Pools : poolBudget[q] # call[t].number
        BY <2>2 DEF IInv, Local, Fresh
      <3> QED
        BY <1>1, <1>3, <2>2, <3>1
    <2> QED
      BY <2>1, <2>2 DEF Numbered
  <1> QED
    BY <1>2, <1>3 DEF Numbered

-----------------------------------------------------------------------------
(* Putting a step together *)

DataTypes ==
    /\ lifecycle \in {"active", "closing", "closed"} /\ generation \in Nat
    /\ runtime \in [generation : Nat, policy : Policies, pressure : Nat]
    /\ partitionLifecycle \in [Partitions -> {"active", "closed"}]
    /\ budget \in [Partitions -> Nat] /\ pressure \in [Partitions -> Nat]
    /\ poolClosed \in [Pools -> BOOLEAN] /\ poolBudget \in [Pools -> Nat]
    /\ leases \in Nat
    /\ publications \in Nat /\ required \in Nat /\ rejected \in SUBSET Nat

LEMMA TypesSplit == Types => DataTypes /\ LockTypes
  BY DEF Types, DataTypes, LockTypes

LEMMA TypesKept ==
    ASSUME NEW t \in Actors, NEW c, Becomes(t, c), LocksKept(t), DataTypes' PROVE Types'
  BY DEF Becomes, LocksKept, LockTypes, DataTypes, Types

(* Pools and partitions the budgets of the last policy have reached *)
AllReached ==
    /\ \A p \in Partitions : budget[p] >= required
    /\ \A q \in Pools : poolBudget[q] >= required

LEMMA StepKeeps ==
    ASSUME IInv, NEW t \in Actors, NEW c, Becomes(t, c), LocksKept(t), Guarded(t), Numbered(t),
           DataTypes', Local(t)', (Publishing = {})' => AllReached', PressureReachedPartitions',
           lifecycle' = "closed" => \A p \in Partitions : ClosedPartition(p)'
    PROVE  IInv'
  <1>1. OthersKept(t)
    BY DEF Becomes, OthersKept
  <1>2. Types' /\ Bounded'
    BY <1>1, TypesKept, BoundKept
  <1>3. ASSUME NEW u \in Actors PROVE Local(u)'
    <2>1. CASE u = t
      BY <2>1
    <2>2. CASE u # t
      BY <1>1, <2>2, OthersLocal
    <2> QED
      BY <2>1, <2>2
  <1>4. PolicyReachesAllOrNone'
    BY RejectedReachNobody DEF PolicyReachesAllOrNone, AllReached
  <1>5. Reached'
    BY <1>4 DEF Reached
  <1> QED
    BY <1>2, <1>3, <1>5 DEF IInv

(* A step that leaves what it guards as it is *)
SameData ==
    /\ UNCHANGED <<lifecycle, runtime, partitions, required, rejected>>
    /\ generation' \in Nat /\ leases' \in Nat
    /\ publications' = publications \/ publications' = publications + 1

LEMMA QuietStep ==
    ASSUME IInv, NEW t \in Actors, NEW c, Becomes(t, c), LocksKept(t), SameData,
           \/ c.number = 0 \/ c.number = call[t].number
           \/ c.number = publications + 1 /\ publications' = publications + 1
           \/ \E p \in Partitions : c.number = budget[p],
           call[t].pc # "applyPolicy", Local(t)'
    PROVE  IInv'
  <1>1. Guarded(t)
    BY DEF Guarded, SameData, partitions
  <1>2. Numbered(t)
    BY DEF Numbered, SameData, partitions, Becomes
  <1>3. DataTypes'
    <2>1. DataTypes
      BY TypesSplit DEF IInv
    <2>2. publications' \in Nat
      BY <2>1 DEF DataTypes, SameData
    <2> QED
      BY <2>1, <2>2 DEF DataTypes, SameData, partitions
  <1>4. (Publishing = {})' => AllReached'
    <2>1. SUFFICES ASSUME (Publishing = {})' PROVE AllReached'
      OBVIOUS
    <2>2. ASSUME NEW u \in Actors PROVE call[u].pc # "applyPolicy"
      <3>1. CASE u = t
        BY <3>1
      <3>2. CASE u # t
        BY <2>1, <3>2 DEF Publishing, Becomes
      <3> QED
        BY <3>1, <3>2
    <2>3. Publishing = {}
      BY <2>2 DEF Publishing
    <2>4. AllReached
      BY <2>3 DEF IInv, Reached, PolicyReachesAllOrNone, AllReached
    <2> QED
      BY <2>4 DEF AllReached, SameData, partitions
  <1>5. PressureReachedPartitions'
    BY DEF PressureReachedPartitions, SameData, partitions, IInv, Reached
  <1>6. lifecycle' = "closed" => \A p \in Partitions : ClosedPartition(p)'
    BY DEF ClosedPartition, SameData, partitions, IInv, Reached
  <1> QED
    BY <1>1, <1>2, <1>3, <1>4, <1>5, <1>6, StepKeeps

-----------------------------------------------------------------------------
(* What the steps make of the locks *)

LEMMA SameLocks == ASSUME Types, NEW t \in Actors, UNCHANGED locks PROVE LocksKept(t)
  BY TypesSplit DEF locks, LocksKept, LockTypes

LEMMA ReleasedLocks == ASSUME Types, NEW t \in Actors, Released(t) PROVE LocksKept(t)
  <1>1. LockTypes
    BY TypesSplit
  <1>2. readers' = [l \in Gates |-> readers[l] \ {t}]
    BY <1>1 DEF Released, LockTypes
  <1>3. writer' = [l \in Gates |-> FreedBy(t, writer[l])]
    BY <1>1 DEF Released, LockTypes
  <1>4. controllerMu' = [p \in Partitions |-> FreedBy(t, controllerMu[p])]
    BY DEF Released
  <1>5. LockTypes'
    BY <1>1, <1>2, <1>3, <1>4 DEF LockTypes, Released, FreedBy
  <1>6. Group \in Gates
    BY DEF Gates
  <1>7. \A u \in Actors \ {t} : u # NoThread
    BY Constants
  <1> QED
    BY <1>1, <1>2, <1>3, <1>4, <1>5, <1>6, <1>7 DEF LocksKept, FreedBy

LEMMA ReadLocks ==
    ASSUME Types, NEW t \in Actors, NEW l \in Gates, MayRead(l), ReadLocked(t, l),
           UNCHANGED <<writer, controllerMu, cycle, inside>>
    PROVE  LocksKept(t) /\ t \in readers'[l] /\ \A k \in Gates : readers[k] \subseteq readers'[k]
  <1>1. LockTypes
    BY TypesSplit
  <1>2. readers' = [readers EXCEPT ![l] = readers[l] \cup {t}]
    BY DEF ReadLocked
  <1>3. LockTypes'
    BY <1>1, <1>2 DEF LockTypes
  <1>4. Group \in Gates /\ \A u \in Actors \ {t} : u # NoThread
    BY Constants DEF Gates
  <1>5. \A k \in Gates : readers[k] \subseteq readers'[k]
    BY <1>1, <1>2 DEF LockTypes
  <1>6. ASSUME NEW u \in Actors \ {t}, writer[Group] = u
        PROVE  readers[Group] = {} => readers'[Group] = {}
    BY <1>1, <1>2, <1>4, <1>6 DEF LockTypes, MayRead
  <1>7. t \in readers'[l]
    BY <1>1, <1>2 DEF LockTypes
  <1> QED
    BY <1>1, <1>3, <1>4, <1>5, <1>6, <1>7 DEF LocksKept

LEMMA AnnouncedLocks ==
    ASSUME Types, NEW t \in Actors, NEW l \in Gates, Announced(t, l),
           UNCHANGED <<readers, controllerMu, cycle, inside>>
    PROVE  LocksKept(t) /\ (l # Group => writer'[Group] = writer[Group])
  <1>1. LockTypes
    BY TypesSplit
  <1>2. writer[l] = NoThread /\ writer' = [writer EXCEPT ![l] = t]
    BY DEF Announced
  <1>3. LockTypes'
    BY <1>1, <1>2 DEF LockTypes
  <1>4. Group \in Gates /\ \A u \in Actors \ {t} : u # NoThread
    BY Constants DEF Gates
  <1>5. \A u \in Actors \ {t} : writer[Group] = u => writer'[Group] = u
    BY <1>1, <1>2, <1>4 DEF LockTypes
  <1> QED
    BY <1>1, <1>2, <1>3, <1>4, <1>5 DEF LocksKept, LockTypes

LEMMA ControllerLocks ==
    ASSUME Types, NEW t \in Actors, NEW p \in Partitions, ControllerFree(p),
           controllerMu' = [controllerMu EXCEPT ![p] = t],
           UNCHANGED <<readers, writer, cycle, inside>>
    PROVE  /\ LocksKept(t) /\ controllerMu'[p] = t
           /\ \A k \in Partitions : controllerMu[k] = t => controllerMu'[k] = t
  <1>1. LockTypes
    BY TypesSplit
  <1>2. LockTypes'
    BY <1>1 DEF LockTypes
  <1>3. \A u \in Actors \ {t} : u # NoThread
    BY Constants
  <1>4. \A k \in Partitions, u \in Actors \ {t} : controllerMu[k] = u => controllerMu'[k] = u
    BY <1>1, <1>3 DEF LockTypes, ControllerFree
  <1> QED
    BY <1>1, <1>2, <1>4 DEF LocksKept, LockTypes

LEMMA PoolLocks ==
    ASSUME Types, NEW t \in Actors, NEW q \in Pools, inside' = [inside EXCEPT ![q] = @ \cup {t}],
           UNCHANGED <<readers, writer, controllerMu, cycle>>
    PROVE  LocksKept(t)
  <1>1. LockTypes
    BY TypesSplit
  <1>2. LockTypes'
    BY <1>1 DEF LockTypes
  <1> QED
    BY <1>1, <1>2 DEF LocksKept

-----------------------------------------------------------------------------
(* A call that holds nothing *)

Outside(c) ==
    Route(c) /\ ~ReadsGroup(c) /\ ~WritesGroup(c) /\ \A p \in Partitions : ~TickOf(c, p)

LEMMA OutsideIsLocal == ASSUME NEW t \in Actors, Outside(call'[t]) PROVE Local(t)'
  <1> DEFINE c == call'[t]
  <1>1. Route(c) /\ ~ReadsGroup(c) /\ ~WritesGroup(c) /\ \A p \in Partitions : ~TickOf(c, p)
    BY DEF Outside
  <1>2. ~Publication(c) /\ ~PressurePass(c) /\ ~Closing(c) /\ c.pc \notin {"apply", "applyPolicy"}
    BY <1>1 DEF WritesGroup, ReadsGroup, Publication
  <1>3. \A p \in Partitions : ~InGate(c, p) /\ ~HasController(c, p)
    BY <1>1, <1>2 DEF InGate, HasController
  <1>4. ~Pending(c) /\ ~Live(c)
    BY <1>1, <1>2 DEF Pending, Live
  <1>5. Holds(t)'
    BY <1>1, <1>3 DEF Holds
  <1>6. Secured(t)'
    BY <1>1, <1>2 DEF Secured
  <1>7. Fresh(t)' /\ LiveNumber(t)'
    BY <1>4 DEF Fresh, LiveNumber
  <1>8. Passed(t)'
    BY <1>2 DEF Passed, PressurePass
  <1> QED
    BY <1>1, <1>5, <1>6, <1>7, <1>8 DEF Local

LEMMA NoCallIsOutside == Outside(NoCall)
  BY DEF Outside, NoCall, Route, ReadsGroup, WritesGroup, Publication, PressurePass, Closing, TickOf

(* A step that gives everything back and changes nothing else *)
LEMMA ReleasedStep ==
    ASSUME IInv, NEW t \in Actors, Released(t), SameData, call[t].pc # "applyPolicy" PROVE IInv'
  <1>1. Becomes(t, NoCall) /\ LocksKept(t)
    BY BecomesReleased, ReleasedLocks DEF IInv
  <1>2. Local(t)'
    BY <1>1, NoCallIsOutside, OutsideIsLocal DEF Becomes
  <1>3. NoCall.number = 0
    BY DEF NoCall
  <1> QED
    BY <1>1, <1>2, <1>3, QuietStep

-----------------------------------------------------------------------------
(* Calls that begin *)

LEMMA BegunStep ==
    ASSUME IInv, NEW t \in Actors, NEW c \in CallType, call[t].pc = "idle",
           call' = [call EXCEPT ![t] = c], Outside(c), c.number = 0,
           UNCHANGED <<group, locks, partitions, leases, history>>
    PROVE  IInv'
  <1>1. Becomes(t, c)
    BY BecomesExcept DEF IInv
  <1>2. LocksKept(t)
    BY SameLocks DEF IInv
  <1>3. Local(t)'
    BY <1>1, OutsideIsLocal DEF Becomes
  <1>4. SameData
    <2>1. generation \in Nat /\ leases \in Nat
      BY DEF IInv, Types
    <2> QED
      BY <2>1 DEF SameData, group, history
  <1> QED
    BY <1>1, <1>2, <1>3, <1>4, QuietStep

LEMMA BeginStep ==
    ASSUME IInv, NEW t \in Actors, NEW op, NEW pc, NEW at \in Gates, NEW policy \in Policies,
           \/ op \in {"acquire", "release"} /\ pc = "enterGroup" /\ at \in Partitions
           \/ op = "tick" /\ pc = "enterGroup"
           \/ op = "partitionTick" /\ pc = "enterPartition" /\ at \in Partitions
           \/ op \in {"policy", "pressure"} /\ pc = "announce"
           \/ op = "close" /\ pc = "stop",
           Begin(t, op, pc, at, policy)
    PROVE  IInv'
  <1> DEFINE c == [NoCall EXCEPT !.op = op, !.pc = pc, !.at = at, !.policy = policy]
  <1>1. NoCall \in CallType
    BY NoCallType, PoliciesExist DEF IInv
  <1>2. pc \in Positions /\ op \in Ops
    BY DEF Positions, Ops
  <1>3. c \in CallType
    BY <1>1, <1>2 DEF CallType
  <1>4. c.pc = pc /\ c.op = op /\ c.at = at /\ c.todo = NoCall.todo /\ c.number = NoCall.number
    BY <1>1 DEF CallType
  <1>5. c.todo = {} /\ c.number = 0
    BY <1>4, NoCallFields
  <1> HIDE DEF c
  <1>6. Outside(c)
    BY <1>4, <1>5 DEF Outside, Route, ReadsGroup, WritesGroup, Publication, PressurePass, Closing, TickOf
  <1>7. /\ call[t].pc = "idle" /\ call' = [call EXCEPT ![t] = c]
        /\ UNCHANGED <<group, locks, partitions, leases, history>>
    BY DEF Begin, c
  <1> QED
    BY <1>3, <1>5, <1>6, <1>7, BegunStep

LEMMA ClosePartitionBegins ==
    ASSUME IInv, NEW t \in Actors, NEW p \in Partitions, StartClosePartition(t, p) PROVE IInv'
  <1> DEFINE c == [NoCall EXCEPT !.op = "closePartition", !.pc = "stop", !.todo = {p}]
  <1>1. NoCall \in CallType
    BY NoCallType, PoliciesExist DEF IInv
  <1>2. {p} \in SUBSET Nat
    BY Constants
  <1>3. c \in CallType
    BY <1>1, <1>2 DEF CallType, Positions, Ops
  <1>4. c.pc = "stop" /\ c.op = "closePartition" /\ c.todo = {p} /\ c.number = 0
    BY <1>1, NoCallFields DEF CallType
  <1> HIDE DEF c
  <1>5. Outside(c)
    BY <1>4 DEF Outside, Route, ReadsGroup, WritesGroup, Publication, PressurePass, Closing, TickOf
  <1>6. /\ call[t].pc = "idle" /\ call' = [call EXCEPT ![t] = c]
        /\ UNCHANGED <<group, locks, partitions, leases, history>>
    BY DEF StartClosePartition, c
  <1> QED
    BY <1>3, <1>4, <1>5, <1>6, BegunStep

LEMMA ClosePoolBegins ==
    ASSUME IInv, NEW t \in Actors, NEW q \in Pools, StartClosePool(t, q) PROVE IInv'
  <1> DEFINE c == [NoCall EXCEPT !.op = "closePool", !.pc = "drain", !.todo = {q}]
  <1>1. NoCall \in CallType
    BY NoCallType, PoliciesExist DEF IInv
  <1>2. {q} \in SUBSET Nat
    BY Constants
  <1>3. c \in CallType
    BY <1>1, <1>2 DEF CallType, Positions, Ops
  <1>4. c.pc = "drain" /\ c.op = "closePool" /\ c.number = 0
    BY <1>1, NoCallFields DEF CallType
  <1> HIDE DEF c
  <1>5. Outside(c)
    BY <1>4 DEF Outside, Route, ReadsGroup, WritesGroup, Publication, PressurePass, Closing, TickOf
  <1>6. Types /\ DataTypes
    BY TypesSplit DEF IInv
  <1>7. /\ call[t].pc = "idle" /\ call' = [call EXCEPT ![t] = c]
        /\ poolClosed' = [poolClosed EXCEPT ![q] = TRUE]
        /\ UNCHANGED <<lifecycle, generation, runtime, locks, partitionLifecycle, budget, pressure,
                       poolBudget, leases, publications, required, rejected>>
    BY DEF StartClosePool, c, group, history
  <1>8. Becomes(t, c) /\ LocksKept(t)
    BY <1>3, <1>6, <1>7, BecomesExcept, SameLocks
  <1>9. Local(t)'
    BY <1>5, <1>8, OutsideIsLocal DEF Becomes
  <1>10. poolClosed' \in [Pools -> BOOLEAN] /\ \A k \in Pools : poolClosed[k] => poolClosed'[k]
    BY <1>6, <1>7 DEF DataTypes
  <1>11. Guarded(t)
    BY <1>7, <1>10 DEF Guarded
  <1>12. Numbered(t)
    BY <1>4, <1>7, <1>8 DEF Numbered, Becomes
  <1>13. DataTypes'
    BY <1>6, <1>7, <1>10 DEF DataTypes
  <1>14. (Publishing = {})' => AllReached'
    <2>1. SUFFICES ASSUME (Publishing = {})' PROVE AllReached'
      OBVIOUS
    <2>2. ASSUME NEW u \in Actors PROVE call[u].pc # "applyPolicy"
      BY <1>7, <1>8, <2>1 DEF Publishing, Becomes
    <2>3. AllReached
      BY <2>2 DEF Publishing, IInv, Reached, PolicyReachesAllOrNone, AllReached
    <2> QED
      BY <1>7, <2>3 DEF AllReached
  <1>15. PressureReachedPartitions'
    BY <1>7 DEF PressureReachedPartitions, IInv, Reached
  <1>16. lifecycle' = "closed" => \A p \in Partitions : ClosedPartition(p)'
    BY <1>7, <1>11, <1>6, ClosedStaysClosed DEF IInv, Reached
  <1> QED
    BY <1>8, <1>9, <1>11, <1>12, <1>13, <1>14, <1>15, <1>16, StepKeeps

LEMMA CallsKeep == ASSUME IInv, NEW t \in Threads, Call(t) PROVE IInv'
  <1>1. t \in Actors
    BY DEF Actors
  <1>2. Group \in Gates /\ \A p \in Partitions : p \in Gates
    BY DEF Gates
  <1>3. NoCall.policy \in Policies
    <2>1. NoCall \in CallType
      BY NoCallType, PoliciesExist DEF IInv
    <2> QED
      BY <2>1 DEF CallType
  <1>4. CASE \E p \in Partitions : StartAcquire(t, p)
    BY <1>1, <1>2, <1>3, <1>4, BeginStep DEF StartAcquire
  <1>5. CASE \E p \in Partitions : StartRelease(t, p)
    BY <1>1, <1>2, <1>3, <1>5, BeginStep DEF StartRelease
  <1>6. CASE \E p \in Partitions : StartClosePartition(t, p)
    BY <1>1, <1>6, ClosePartitionBegins
  <1>7. CASE \E q \in Pools : StartClosePool(t, q)
    BY <1>1, <1>7, ClosePoolBegins
  <1>8. CASE \E policy \in Policies : StartPolicy(t, policy)
    BY <1>1, <1>2, <1>8, BeginStep DEF StartPolicy
  <1>9. CASE StartTick(t)
    BY <1>1, <1>2, <1>3, <1>9, BeginStep DEF StartTick
  <1>10. CASE StartPressure(t)
    BY <1>1, <1>2, <1>3, <1>10, BeginStep DEF StartPressure
  <1>11. CASE StartClose(t)
    BY <1>1, <1>2, <1>3, <1>11, BeginStep DEF StartClose
  <1> QED
    BY <1>4, <1>5, <1>6, <1>7, <1>8, <1>9, <1>10, <1>11 DEF Call

LEMMA TicksBegin ==
    ASSUME IInv, SchedulerTick \/ \E p \in Partitions : PartitionTick(p) PROVE IInv'
  <1>1. Group \in Gates /\ \A p \in Partitions : p \in Gates
    BY DEF Gates
  <1>2. Scheduler \in Actors /\ \A p \in Partitions : Tickers[p] \in Actors
    BY DEF Actors, Schedulers
  <1>3. NoCall.policy \in Policies
    <2>1. NoCall \in CallType
      BY NoCallType, PoliciesExist DEF IInv
    <2> QED
      BY <2>1 DEF CallType
  <1>4. CASE SchedulerTick
    BY <1>1, <1>2, <1>3, <1>4, BeginStep DEF SchedulerTick, StartTick
  <1>5. CASE \E p \in Partitions : PartitionTick(p)
    BY <1>1, <1>2, <1>3, <1>5, BeginStep DEF PartitionTick
  <1> QED
    BY <1>4, <1>5

-----------------------------------------------------------------------------
(* Moves, field by field *)

SameCall(t) ==
    /\ Becomes(t, call'[t])
    /\ call'[t].op = call[t].op /\ call'[t].at = call[t].at

LEMMA GotoMoves ==
    ASSUME Types, NEW t \in Actors, NEW pc \in Positions, Goto(t, pc)
    PROVE  /\ SameCall(t) /\ call'[t].number = call[t].number
           /\ call'[t].pc = pc /\ call'[t].todo = call[t].todo
  <1>1. Becomes(t, [call[t] EXCEPT !.pc = pc])
    BY BecomesGoto
  <1>2. call[t] \in CallType /\ call'[t] = [call[t] EXCEPT !.pc = pc]
    BY <1>1, CallIsTyped DEF Becomes
  <1> QED
    BY <1>1, <1>2 DEF SameCall, CallType

LEMMA AdvanceMoves ==
    ASSUME Types, NEW t \in Actors, NEW pc \in Positions, NEW todo \in SUBSET Nat, NEW done,
           Advance(t, done, pc, todo)
    PROVE  /\ SameCall(t) /\ call'[t].number = call[t].number
           /\ \/ /\ call[t].todo \ {done} = {}
                 /\ call'[t].pc = pc /\ call'[t].todo = todo
              \/ /\ call[t].todo \ {done} # {}
                 /\ call'[t].pc = call[t].pc /\ call'[t].todo = call[t].todo \ {done}
  <1>1. call[t] \in CallType
    BY CallIsTyped
  <1>2. CASE call[t].todo \ {done} = {}
    <2>1. Becomes(t, [call[t] EXCEPT !.pc = pc, !.todo = todo])
      BY <1>2, BecomesAdvanced
    <2>2. call'[t] = [call[t] EXCEPT !.pc = pc, !.todo = todo]
      BY <2>1 DEF Becomes
    <2> QED
      BY <1>1, <1>2, <2>1, <2>2 DEF SameCall, CallType
  <1>3. CASE call[t].todo \ {done} # {}
    <2>1. Becomes(t, [call[t] EXCEPT !.todo = @ \ {done}])
      BY <1>3, BecomesAdvanced
    <2>2. call'[t] = [call[t] EXCEPT !.todo = @ \ {done}]
      BY <2>1 DEF Becomes
    <2> QED
      BY <1>1, <1>3, <2>1, <2>2 DEF SameCall, CallType
  <1> QED
    BY <1>2, <1>3

LEMMA NumberMoves ==
    ASSUME Types, NEW t \in Actors, NEW pc \in Positions, NEW todo \in SUBSET Nat, NEW n \in Nat,
           call' = [call EXCEPT ![t].pc = pc, ![t].todo = todo, ![t].number = n]
    PROVE  SameCall(t) /\ call'[t].pc = pc /\ call'[t].todo = todo /\ call'[t].number = n
  <1> DEFINE c == [call[t] EXCEPT !.pc = pc, !.todo = todo, !.number = n]
  <1>1. call \in [Actors -> CallType] /\ call[t] \in CallType
    BY CallIsTyped
  <1>2. c \in CallType /\ c.pc = pc /\ c.todo = todo /\ c.number = n
        /\ c.op = call[t].op /\ c.at = call[t].at
    BY <1>1 DEF CallType
  <1>3. call' = [call EXCEPT ![t] = c]
    BY <1>1
  <1> HIDE DEF c
  <1>4. Becomes(t, c)
    BY <1>2, <1>3, BecomesExcept
  <1> QED
    BY <1>2, <1>4 DEF SameCall, Becomes

-----------------------------------------------------------------------------
(* Steps under runtimeMu.RLock *)

LEMMA ReadingIsLocal ==
    ASSUME NEW t \in Actors, Route(call'[t]), ReadsGroup(call'[t]), t \in readers'[Group],
           call'[t].op # "release" => lifecycle' = "active",
           call'[t].pc = "apply" => call'[t].number \notin rejected' /\ call'[t].number >= required'
    PROVE  Local(t)'
  <1> DEFINE c == call'[t]
  <1>1. /\ ~Publication(c) /\ ~PressurePass(c) /\ ~Closing(c) /\ c.pc # "applyPolicy"
        /\ \A p \in Partitions : ~TickOf(c, p)
    BY DEF Route, ReadsGroup, Publication, PressurePass, Closing, TickOf
  <1>2. \A p \in Partitions : ~InGate(c, p) /\ ~HasController(c, p)
    BY <1>1 DEF InGate, HasController
  <1>3. Holds(t)'
    BY <1>1, <1>2 DEF Holds, WritesGroup
  <1>4. Secured(t)'
    BY <1>1 DEF Secured
  <1>5. Fresh(t)'
    BY <1>1 DEF Fresh, Pending
  <1>6. LiveNumber(t)'
    BY <1>1 DEF LiveNumber, Live
  <1>7. Passed(t)'
    BY <1>1 DEF Passed, PressurePass
  <1> QED
    BY <1>3, <1>4, <1>5, <1>6, <1>7 DEF Local

LEMMA DataNumbers ==
    ASSUME IInv
    PROVE  /\ generation \in Nat /\ leases \in Nat /\ publications \in Nat /\ required \in Nat
           /\ rejected \in SUBSET Nat /\ \A t \in Actors : call[t].number \in Nat
           /\ \A p \in Partitions : budget[p] \in Nat
           /\ \A n \in rejected : n <= publications
           /\ required <= publications
           /\ \A t \in Actors : call[t] \in CallType
  BY DEF IInv, Types, Bounded, CallType

(* A publication that has not been tried yet is newer than all others. *)
LEMMA NumberIsNew == ASSUME IInv PROVE Number \in Nat /\ Number \notin rejected /\ Number >= required
  BY DataNumbers DEF Number

LEMMA EnterGroupKeeps == ASSUME IInv, NEW t \in Actors, EnterGroup(t) PROVE IInv'
  <1>1. Types /\ Route(call[t]) /\ Group \in Gates /\ call[t] \in CallType
    BY DataNumbers DEF IInv, Local, Gates
  <1>2. SameData
    BY DataNumbers DEF SameData, EnterGroup, group, history
  <1>3. call[t].pc = "enterGroup" /\ MayRead(Group) /\ UNCHANGED <<group, partitions>>
    BY DEF EnterGroup
  <1>4. CASE Released(t)
    BY <1>2, <1>3, <1>4, ReleasedStep
  <1>5. CASE /\ Admitted(call[t].op, lifecycle) /\ ReadLocked(t, Group)
             /\ Goto(t, IF call[t].op = "tick" THEN "evaluate" ELSE "enterPartition")
             /\ UNCHANGED <<writer, controllerMu, cycle, inside>>
    <2>1. LocksKept(t) /\ t \in readers'[Group]
      BY <1>1, <1>3, <1>5, ReadLocks
    <2> DEFINE pc == IF call[t].op = "tick" THEN "evaluate" ELSE "enterPartition"
    <2>2. pc \in Positions /\ Goto(t, pc)
      BY <1>5 DEF Positions
    <2> HIDE DEF pc
    <2>3. /\ SameCall(t) /\ call'[t].number = call[t].number
          /\ call'[t].pc = pc /\ call'[t].todo = call[t].todo
      BY <1>1, <2>2, GotoMoves
    <2>4. call[t].op \in {"acquire", "release", "tick"}
      BY <1>1, <1>3 DEF Route
    <2>5. Route(call'[t]) /\ ReadsGroup(call'[t]) /\ call'[t].pc # "apply"
      BY <1>1, <2>3, <2>4 DEF Route, ReadsGroup, SameCall, pc
    <2>6. call'[t].op # "release" => lifecycle' = "active"
      BY <1>2, <1>5, <2>3 DEF Admitted, AllowsWork, SameData, SameCall
    <2>7. Local(t)'
      BY <2>1, <2>5, <2>6, ReadingIsLocal
    <2> QED
      BY <1>2, <1>3, <2>1, <2>3, <2>7, QuietStep DEF SameCall
  <1> QED
    BY <1>4, <1>5 DEF EnterGroup

LEMMA WorkKeeps == ASSUME IInv, NEW t \in Actors, Work(t) PROVE IInv'
  <1>1. leases' \in Nat
    BY DataNumbers DEF Work
  <1>2. SameData /\ Released(t) /\ call[t].pc = "work"
    BY <1>1, DataNumbers DEF SameData, Work, group, history
  <1> QED
    BY <1>2, ReleasedStep

LEMMA EvaluateKeeps == ASSUME IInv, NEW t \in Actors, Evaluate(t) PROVE IInv'
  <1>1. /\ Types /\ Route(call[t]) /\ Holds(t) /\ Secured(t) /\ call[t].pc = "evaluate"
        /\ UNCHANGED <<lifecycle, runtime, partitions, leases, required, rejected>>
    BY DEF IInv, Local, Evaluate
  <1>2. generation' \in Nat
    BY DataNumbers DEF Evaluate
  <1>3. CASE Released(t) /\ UNCHANGED publications
    <2>1. SameData
      BY <1>1, <1>2, <1>3, DataNumbers DEF SameData
    <2> QED
      BY <1>1, <1>3, <2>1, ReleasedStep
  <1>4. CASE /\ publications' = Number
             /\ call' = [call EXCEPT ![t].pc = "apply", ![t].todo = Partitions, ![t].number = Number]
             /\ UNCHANGED <<readers, writer, controllerMu, inside>>
    <2>1. Number \in Nat /\ Partitions \in SUBSET Nat /\ "apply" \in Positions
      BY NumberIsNew, Constants DEF Positions
    <2>2. /\ SameCall(t) /\ call'[t].pc = "apply" /\ call'[t].todo = Partitions
          /\ call'[t].number = Number
      BY <1>1, <1>4, <2>1, NumberMoves
    <2>3. LocksKept(t)
      BY <1>1, <1>4, TypesSplit DEF LocksKept, LockTypes
    <2>4. ReadsGroup(call[t]) /\ call[t].op = "tick"
      BY <1>1 DEF ReadsGroup, Route
    <2>5. Route(call'[t]) /\ ReadsGroup(call'[t])
      BY <2>2, <2>4, Constants DEF Route, ReadsGroup, SameCall
    <2>6. t \in readers'[Group] /\ lifecycle' = "active"
      BY <1>1, <1>4, <2>4 DEF Holds, Secured
    <2>7. call'[t].number \notin rejected' /\ call'[t].number >= required'
      BY <1>1, <2>2, NumberIsNew
    <2>8. Local(t)'
      BY <2>5, <2>6, <2>7, ReadingIsLocal
    <2>9. SameData
      BY <1>1, <1>2, <1>4, DataNumbers DEF SameData, Number
    <2> QED
      BY <1>1, <1>4, <2>2, <2>3, <2>8, <2>9, QuietStep DEF SameCall, Number
  <1> QED
    BY <1>3, <1>4 DEF Evaluate

(* The first partition or Pool left is one of those left. *)
LEMMA FirstPartition ==
    ASSUME NEW todo, todo \subseteq Partitions, todo # {}
    PROVE  First(todo) \in todo /\ First(todo) \in Partitions /\ First(todo) \in Gates
  <1>1. todo \in SUBSET Nat
    BY Constants
  <1> QED
    BY <1>1, FirstOfTodo DEF Gates

LEMMA FirstPool ==
    ASSUME NEW todo, todo \subseteq Pools, todo # {} PROVE First(todo) \in todo /\ First(todo) \in Pools
  <1>1. todo \in SUBSET Nat
    BY Constants
  <1> QED
    BY <1>1, FirstOfTodo

(* Budgets only move to the number of a live publication. *)
LEMMA ReachedStay ==
    ASSUME IInv, NEW t \in Actors, OthersKept(t), Numbered(t), required' = required,
           call[t].pc # "applyPolicy"
    PROVE  (Publishing = {})' => AllReached'
  <1>1. SUFFICES ASSUME (Publishing = {})' PROVE AllReached'
    OBVIOUS
  <1>2. ASSUME NEW u \in Actors PROVE call[u].pc # "applyPolicy"
    BY <1>1 DEF Publishing, OthersKept
  <1>3. AllReached
    BY <1>2 DEF Publishing, IInv, Reached, PolicyReachesAllOrNone, AllReached
  <1>4. CASE UNCHANGED <<budget, poolBudget>>
    BY <1>3, <1>4 DEF AllReached
  <1>5. CASE Live(call[t])
    <2>1. call[t].number >= required
      BY <1>5 DEF IInv, Local, LiveNumber
    <2> QED
      BY <1>3, <2>1 DEF AllReached, Numbered
  <1> QED
    BY <1>4, <1>5 DEF Numbered

(* Passing over the partitions one by one *)
LEMMA LoopMoves ==
    ASSUME Types, NEW t \in Actors, NEW p \in call[t].todo, NEW pc \in Positions, call[t].pc = pc,
           IF call[t].todo = {p} THEN Released(t) ELSE Advance(t, p, pc, {}) /\ UNCHANGED locks
    PROVE  /\ LocksKept(t) /\ Becomes(t, call'[t])
           /\ \/ call[t].todo = {p} /\ call'[t] = NoCall
              \/ /\ SameCall(t) /\ call'[t].number = call[t].number /\ call'[t].pc = pc
                 /\ call'[t].todo = call[t].todo \ {p} /\ call'[t].todo # {}
                 /\ UNCHANGED locks
  <1>1. CASE call[t].todo = {p}
    <2>1. Becomes(t, NoCall) /\ LocksKept(t)
      BY <1>1, BecomesReleased, ReleasedLocks
    <2> QED
      BY <1>1, <2>1 DEF Becomes
  <1>2. CASE call[t].todo # {p}
    <2>1. call[t].todo \ {p} # {} /\ {} \in SUBSET Nat
      BY <1>2
    <2>2. /\ SameCall(t) /\ call'[t].number = call[t].number
          /\ call'[t].pc = pc /\ call'[t].todo = call[t].todo \ {p}
      BY <1>2, <2>1, AdvanceMoves
    <2>3. LocksKept(t)
      BY <1>2, SameLocks
    <2> QED
      BY <1>2, <2>1, <2>2, <2>3 DEF SameCall
  <1> QED
    BY <1>1, <1>2

LEMMA ApplyBudgetKeeps == ASSUME IInv, NEW t \in Actors, ApplyBudget(t) PROVE IInv'
  <1> DEFINE p == First(call[t].todo)
  <1>1. /\ Types /\ Route(call[t]) /\ Holds(t) /\ Secured(t) /\ LiveNumber(t)
        /\ call[t].pc = "apply" /\ call[t] \in CallType
        /\ UNCHANGED <<lifecycle, generation, runtime, partitionLifecycle, pressure, poolClosed,
                       poolBudget, leases, publications, required, rejected>>
    BY DataNumbers DEF IInv, Local, ApplyBudget, group, history
  <1>2. p \in call[t].todo /\ p \in Partitions
    BY <1>1, FirstPartition DEF Route
  <1>3. ReadsGroup(call[t]) /\ Live(call[t]) /\ call[t].op = "tick"
    BY <1>1 DEF ReadsGroup, Live, Route
  <1>4. /\ t \in readers[Group] /\ lifecycle = "active"
        /\ call[t].number \notin rejected /\ call[t].number >= required
    BY <1>1, <1>3 DEF Holds, Secured, LiveNumber
  <1>5. /\ budget' \in [Partitions -> Nat]
        /\ \A k \in Partitions : budget'[k] = budget[k] \/ budget'[k] = call[t].number
    <2>1. budget \in [Partitions -> Nat] /\ call[t].number \in Nat
      BY <1>1 DEF Types, CallType
    <2>2. budget' = budget \/ budget' = [budget EXCEPT ![p] = call[t].number]
      BY DEF ApplyBudget
    <2> QED
      BY <2>1, <2>2
  <1>6. /\ LocksKept(t) /\ Becomes(t, call'[t])
        /\ \/ call'[t] = NoCall
           \/ /\ SameCall(t) /\ call'[t].number = call[t].number /\ call'[t].pc = "apply"
              /\ call'[t].todo = call[t].todo \ {p} /\ call'[t].todo # {}
              /\ UNCHANGED locks
    BY <1>1, <1>2, LoopMoves DEF ApplyBudget, Positions
  <1>7. Local(t)'
    <2>1. CASE call'[t] = NoCall
      BY <2>1, NoCallIsOutside, OutsideIsLocal
    <2>2. CASE /\ SameCall(t) /\ call'[t].number = call[t].number /\ call'[t].pc = "apply"
               /\ call'[t].todo = call[t].todo \ {p} /\ call'[t].todo # {}
               /\ UNCHANGED locks
      <3>1. Route(call'[t]) /\ ReadsGroup(call'[t])
        BY <1>1, <1>3, <2>2 DEF Route, ReadsGroup, SameCall
      <3> QED
        BY <1>1, <1>4, <2>2, <3>1, ReadingIsLocal DEF locks
    <2> QED
      BY <1>6, <2>1, <2>2
  <1>8. call'[t].number = 0 \/ call'[t].number = call[t].number
    BY <1>6, NoCallFields
  <1>9. Numbered(t) /\ Guarded(t)
    BY <1>1, <1>3, <1>4, <1>5, <1>8 DEF Numbered, Guarded
  <1>10. DataTypes'
    BY <1>1, <1>5, TypesSplit DEF DataTypes
  <1>11. (Publishing = {})' => AllReached'
    BY <1>1, <1>6, <1>9, ReachedStay DEF Becomes, OthersKept
  <1>12. PressureReachedPartitions' /\ (lifecycle' = "closed" => \A k \in Partitions : ClosedPartition(k)')
    BY <1>1 DEF IInv, Reached, PressureReachedPartitions, ClosedPartition
  <1> QED
    BY <1>6, <1>7, <1>9, <1>10, <1>11, <1>12, StepKeeps

-----------------------------------------------------------------------------
(* Steps in the gate of a partition *)

LEMMA TickIsLocal ==
    ASSUME NEW t \in Actors, Route(call'[t]), call'[t].op = "partitionTick",
           call'[t].pc \in {"controller", "admitPools", "tickPublish"},
           t \in readers'[call'[t].at], partitionLifecycle'[call'[t].at] = "active",
           call'[t].pc # "controller" =>
              /\ controllerMu'[call'[t].at] = t
              /\ call'[t].number \notin rejected' /\ call'[t].number >= required'
    PROVE  Local(t)'
  <1> DEFINE c == call'[t]
  <1>1. ~Publication(c) /\ ~PressurePass(c) /\ ~Closing(c) /\ ~ReadsGroup(c)
        /\ c.pc \notin {"apply", "applyPolicy"}
    BY DEF ReadsGroup, Publication, PressurePass, Closing
  <1>2. \A p \in Partitions : InGate(c, p) \/ HasController(c, p) => p = c.at
    BY <1>1 DEF InGate, HasController, TickOf
  <1>3. Holds(t)'
    BY <1>1, <1>2 DEF Holds, WritesGroup, HasController
  <1>4. Secured(t)'
    BY <1>1 DEF Secured, TickOf
  <1>5. Fresh(t)'
    BY <1>1 DEF Fresh, Pending
  <1>6. LiveNumber(t)'
    BY <1>1 DEF LiveNumber, Live
  <1>7. Passed(t)'
    BY <1>1 DEF Passed, PressurePass
  <1> QED
    BY <1>3, <1>4, <1>5, <1>6, <1>7 DEF Local

LEMMA EnterPartitionKeeps == ASSUME IInv, NEW t \in Actors, EnterPartition(t) PROVE IInv'
  <1> DEFINE p == call[t].at
  <1>1. /\ Types /\ Route(call[t]) /\ Holds(t) /\ Secured(t) /\ Group \in Gates
        /\ call[t].pc = "enterPartition" /\ MayRead(p) /\ UNCHANGED <<group, partitions>>
    BY DEF IInv, Local, Gates, EnterPartition
  <1>2. SameData
    BY DataNumbers DEF SameData, EnterPartition, group, history
  <1>3. call[t].op \in {"acquire", "release", "partitionTick"} /\ p \in Partitions /\ p \in Gates
    BY <1>1 DEF Route, Gates
  <1>4. CASE Released(t)
    BY <1>1, <1>2, <1>4, ReleasedStep
  <1>5. CASE /\ Admitted(call[t].op, partitionLifecycle[p]) /\ ReadLocked(t, p)
             /\ Goto(t, IF call[t].op = "partitionTick" THEN "controller" ELSE "work")
             /\ UNCHANGED <<writer, controllerMu, cycle, inside>>
    <2>1. LocksKept(t) /\ t \in readers'[p] /\ readers[Group] \subseteq readers'[Group]
      BY <1>1, <1>3, <1>5, ReadLocks
    <2> DEFINE pc == IF call[t].op = "partitionTick" THEN "controller" ELSE "work"
    <2>2. pc \in Positions /\ Goto(t, pc)
      BY <1>5 DEF Positions
    <2> HIDE DEF pc
    <2>3. /\ SameCall(t) /\ call'[t].number = call[t].number
          /\ call'[t].pc = pc /\ call'[t].todo = call[t].todo
      BY <1>1, <2>2, GotoMoves
    <2>4. Route(call'[t])
      BY <1>1, <1>3, <2>3 DEF Route, SameCall, pc
    <2>5. CASE call[t].op = "partitionTick"
      <3>1. call'[t].pc = "controller" /\ call'[t].op = "partitionTick" /\ call'[t].at = p
        BY <2>3, <2>5 DEF SameCall, pc
      <3>2. partitionLifecycle'[p] = "active"
        BY <1>1, <1>5, <2>5 DEF Admitted, AllowsWork, partitions
      <3>3. Local(t)'
        BY <2>1, <2>4, <3>1, <3>2, TickIsLocal
      <3> QED
        BY <1>1, <1>2, <2>1, <2>3, <3>3, QuietStep DEF SameCall
    <2>6. CASE call[t].op # "partitionTick"
      <3>1. ReadsGroup(call[t]) /\ call'[t].pc = "work" /\ ReadsGroup(call'[t])
        BY <1>1, <1>3, <2>3, <2>6 DEF ReadsGroup, SameCall, pc
      <3>2. t \in readers'[Group] /\ (call'[t].op # "release" => lifecycle' = "active")
        BY <1>1, <1>2, <2>1, <2>3, <3>1 DEF Holds, Secured, SameData, SameCall
      <3>3. Local(t)'
        BY <2>4, <3>1, <3>2, ReadingIsLocal
      <3> QED
        BY <1>1, <1>2, <2>1, <2>3, <3>3, QuietStep DEF SameCall
    <2> QED
      BY <2>5, <2>6
  <1> QED
    BY <1>4, <1>5 DEF EnterPartition

LEMMA TickControllerKeeps == ASSUME IInv, NEW t \in Actors, TickController(t) PROVE IInv'
  <1> DEFINE p == call[t].at
  <1>1. /\ Types /\ Route(call[t]) /\ Holds(t) /\ Secured(t)
        /\ call[t].pc = "controller" /\ ControllerFree(p) /\ UNCHANGED <<group, partitions>>
    BY DEF IInv, Local, TickController
  <1>2. SameData
    BY DataNumbers DEF SameData, TickController, group, history
  <1>3. call[t].op = "partitionTick" /\ p \in Partitions
    BY <1>1 DEF Route
  <1>4. CASE Released(t)
    BY <1>1, <1>2, <1>4, ReleasedStep
  <1>5. CASE /\ controllerMu' = [controllerMu EXCEPT ![p] = t]
             /\ call' = [call EXCEPT ![t].pc = "admitPools", ![t].todo = PoolsOf(p),
                                     ![t].number = budget[p]]
             /\ UNCHANGED <<readers, writer, cycle, inside>>
    <2>1. LocksKept(t) /\ controllerMu'[p] = t
      BY <1>1, <1>3, <1>5, ControllerLocks
    <2>2. /\ budget[p] \in Nat /\ "admitPools" \in Positions
          /\ PoolsOf(p) \in SUBSET Nat /\ PoolsOf(p) \subseteq Pools /\ PoolsOf(p) # {}
      BY <1>3, DataNumbers, Constants, GroupAssumption DEF Positions, PoolsOf
    <2>3. /\ SameCall(t) /\ call'[t].pc = "admitPools" /\ call'[t].todo = PoolsOf(p)
          /\ call'[t].number = budget[p]
      BY <1>1, <1>5, <2>2, NumberMoves
    <2>4. Route(call'[t])
      BY <1>3, <2>2, <2>3 DEF Route, SameCall
    <2>5. TickOf(call[t], p)
      BY <1>1 DEF TickOf
    <2>6. t \in readers'[p] /\ partitionLifecycle'[p] = "active"
      BY <1>1, <1>3, <1>5, <2>5 DEF Holds, InGate, Secured, partitions
    <2>7. Publishing = {}
      <3>1. ASSUME NEW u \in Actors, call[u].pc = "applyPolicy" PROVE FALSE
        <4>1. HasController(call[u], p)
          BY <3>1 DEF HasController, Publication
        <4>2. controllerMu[p] = u
          BY <1>3, <4>1 DEF IInv, Local, Holds
        <4> QED
          BY <1>1, <4>2, Constants DEF ControllerFree
      <3> QED
        BY <3>1 DEF Publishing
    <2>8. budget[p] \notin rejected' /\ budget[p] >= required'
      BY <1>2, <1>3, <2>7 DEF IInv, Reached, PolicyReachesAllOrNone, SameData
    <2>9. Local(t)'
      BY <1>3, <2>1, <2>3, <2>4, <2>6, <2>8, TickIsLocal DEF SameCall
    <2> QED
      BY <1>1, <1>2, <1>3, <2>1, <2>3, <2>9, QuietStep DEF SameCall
  <1> QED
    BY <1>4, <1>5 DEF TickController

LEMMA TickPublishKeeps == ASSUME IInv, NEW t \in Actors, TickPublish(t) PROVE IInv'
  <1> DEFINE p == call[t].at
  <1>1. /\ Types /\ Route(call[t]) /\ Holds(t) /\ LiveNumber(t)
        /\ call[t].pc = "tickPublish" /\ call[t] \in CallType /\ Released(t)
        /\ UNCHANGED <<lifecycle, generation, runtime, partitionLifecycle, budget, pressure,
                       poolClosed, leases, publications, required, rejected>>
    BY DataNumbers DEF IInv, Local, TickPublish, group, history
  <1>2. call[t].op = "partitionTick" /\ p \in Partitions
    BY <1>1 DEF Route
  <1>3. TickOf(call[t], p) /\ HasController(call[t], p) /\ Live(call[t])
    BY <1>1, <1>2 DEF TickOf, HasController, Live
  <1>4. controllerMu[p] = t
    BY <1>1, <1>2, <1>3 DEF Holds
  <1>5. /\ poolBudget' \in [Pools -> Nat]
        /\ \A q \in Pools : poolBudget'[q] = poolBudget[q] \/ poolBudget'[q] = call[t].number
    <2>1. poolBudget \in [Pools -> Nat] /\ call[t].number \in Nat
      BY <1>1 DEF Types, CallType
    <2> QED
      BY <2>1 DEF TickPublish
  <1>6. Becomes(t, NoCall) /\ LocksKept(t)
    BY <1>1, BecomesReleased, ReleasedLocks
  <1>7. Local(t)'
    BY <1>6, NoCallIsOutside, OutsideIsLocal DEF Becomes
  <1>8. call'[t].number = 0
    BY <1>6, NoCallFields DEF Becomes
  <1>9. Numbered(t) /\ Guarded(t)
    BY <1>1, <1>2, <1>3, <1>4, <1>5, <1>8 DEF Numbered, Guarded
  <1>10. DataTypes'
    BY <1>1, <1>5, TypesSplit DEF DataTypes
  <1>11. (Publishing = {})' => AllReached'
    BY <1>1, <1>6, <1>9, ReachedStay DEF Becomes, OthersKept
  <1>12. PressureReachedPartitions' /\ (lifecycle' = "closed" => \A k \in Partitions : ClosedPartition(k)')
    BY <1>1 DEF IInv, Reached, PressureReachedPartitions, ClosedPartition
  <1> QED
    BY <1>6, <1>7, <1>9, <1>10, <1>11, <1>12, StepKeeps

-----------------------------------------------------------------------------
(* Publication of a policy *)

LEMMA EachMoves ==
    ASSUME Types, NEW t \in Actors, NEW pc \in Positions, NEW todo \in SUBSET Nat, Each(t, pc, todo)
    PROVE  /\ SameCall(t) /\ call'[t].number = call[t].number
           /\ call'[t].pc = pc /\ call'[t].todo = todo
  <1>1. Becomes(t, [call[t] EXCEPT !.pc = pc, !.todo = todo])
    BY BecomesEach
  <1>2. call[t] \in CallType /\ call'[t] = [call[t] EXCEPT !.pc = pc, !.todo = todo]
    BY <1>1, CallIsTyped DEF Becomes
  <1> QED
    BY <1>1, <1>2 DEF SameCall, CallType

PublicationSteps ==
    {"admitPartitions", "lockControllers", "plan", "admitPools", "publish", "applyPolicy"}

LEMMA PublicationHolds ==
    ASSUME IInv, NEW t \in Actors, call[t].op = "policy", call[t].pc \in PublicationSteps
    PROVE  /\ Publication(call[t]) /\ writer[Group] = t /\ readers[Group] = {}
           /\ lifecycle = "active"
           /\ \A p \in Partitions : InGate(call[t], p) => t \in readers[p]
           /\ \A p \in Partitions : HasController(call[t], p) => controllerMu[p] = t
  <1>1. Publication(call[t]) /\ WritesGroup(call[t])
    BY DEF Publication, PublicationSteps, WritesGroup
  <1> QED
    BY <1>1 DEF IInv, Local, Holds, Secured

LEMMA PublicationIsLocal ==
    ASSUME NEW t \in Actors, Route(call'[t]), call'[t].op = "policy", call'[t].pc \in PublicationSteps,
           writer'[Group] = t, readers'[Group] = {}, lifecycle' = "active",
           \A p \in Partitions : InGate(call'[t], p) => t \in readers'[p],
           \A p \in Partitions : HasController(call'[t], p) => controllerMu'[p] = t,
           Fresh(t)',
           call'[t].pc = "applyPolicy" =>
              /\ call'[t].number \notin rejected' /\ call'[t].number >= required'
              /\ \A p \in Partitions \ call'[t].todo :
                    budget'[p] >= required' /\ \A q \in PoolsOf(p) : poolBudget'[q] >= required'
    PROVE  Local(t)'
  <1> DEFINE c == call'[t]
  <1>1. /\ ~ReadsGroup(c) /\ ~PressurePass(c) /\ ~Closing(c) /\ Publication(c) /\ c.pc # "apply"
        /\ \A p \in Partitions : ~TickOf(c, p)
    BY DEF ReadsGroup, Publication, PressurePass, Closing, TickOf, PublicationSteps
  <1>2. Holds(t)'
    BY <1>1 DEF Holds, WritesGroup
  <1>3. Secured(t)'
    BY <1>1 DEF Secured
  <1>4. LiveNumber(t)'
    BY <1>1 DEF LiveNumber, Live
  <1>5. Passed(t)'
    BY <1>1 DEF Passed, PressurePass, PoolsOf
  <1> QED
    BY <1>2, <1>3, <1>4, <1>5 DEF Local

LEMMA FreshKept ==
    ASSUME NEW t \in Actors, Fresh(t), Pending(call[t]), Becomes(t, call'[t]),
           call'[t].number = call[t].number, UNCHANGED <<budget, poolBudget, rejected>>
    PROVE  Fresh(t)'
  BY DEF Fresh, Becomes

(* A policy that is rejected takes its number with it. *)
LEMMA RejectedStep ==
    ASSUME IInv, NEW t \in Actors, Released(t), Rejected(t), Pending(call[t]),
           UNCHANGED <<lifecycle, generation, runtime, partitions, leases, publications, required>>
    PROVE  IInv'
  <1>1. /\ Types /\ Fresh(t) /\ call[t].pc # "applyPolicy"
        /\ rejected' = rejected \cup {call[t].number}
        /\ UNCHANGED <<partitionLifecycle, budget, pressure, poolClosed, poolBudget>>
    BY DEF IInv, Local, Rejected, Pending, partitions
  <1>2. Becomes(t, NoCall) /\ LocksKept(t)
    BY <1>1, BecomesReleased, ReleasedLocks
  <1>3. Local(t)'
    BY <1>2, NoCallIsOutside, OutsideIsLocal DEF Becomes
  <1>4. call'[t].number = 0
    BY <1>2, NoCallFields DEF Becomes
  <1>5. Guarded(t)
    BY <1>1 DEF Guarded
  <1>6. Numbered(t)
    BY <1>1, <1>4 DEF Numbered
  <1>7. DataTypes'
    BY <1>1, TypesSplit, DataNumbers DEF DataTypes
  <1>8. (Publishing = {})' => AllReached'
    BY <1>1, <1>2, <1>6, ReachedStay DEF Becomes, OthersKept
  <1>9. PressureReachedPartitions' /\ (lifecycle' = "closed" => \A k \in Partitions : ClosedPartition(k)')
    BY <1>1 DEF IInv, Reached, PressureReachedPartitions, ClosedPartition
  <1> QED
    BY <1>2, <1>3, <1>5, <1>6, <1>7, <1>8, <1>9, StepKeeps

LEMMA AnnounceKeeps == ASSUME IInv, NEW t \in Actors, Announce(t) PROVE IInv'
  <1>1. /\ Types /\ Route(call[t]) /\ Group \in Gates /\ call[t].pc = "announce"
        /\ Announced(t, Group) /\ Goto(t, "locked")
        /\ UNCHANGED <<readers, controllerMu, cycle, inside>>
    BY DEF IInv, Local, Gates, Announce
  <1>2. SameData
    BY DataNumbers DEF SameData, Announce, group, history
  <1>3. LocksKept(t)
    BY <1>1, AnnouncedLocks
  <1>4. /\ SameCall(t) /\ call'[t].number = call[t].number
        /\ call'[t].pc = "locked" /\ call'[t].todo = call[t].todo
    BY <1>1, GotoMoves DEF Positions
  <1>5. Outside(call'[t])
    BY <1>1, <1>4 DEF Route, Outside, ReadsGroup, WritesGroup, Publication, PressurePass, Closing,
                      TickOf, SameCall
  <1>6. Local(t)'
    BY <1>5, OutsideIsLocal
  <1> QED
    BY <1>1, <1>2, <1>3, <1>4, <1>6, QuietStep DEF SameCall

LEMMA PlanPolicyKeeps == ASSUME IInv, NEW t \in Actors, PlanPolicy(t) PROVE IInv'
  <1>1. /\ Types /\ Route(call[t]) /\ Group \in Gates /\ call[t] \in CallType
        /\ call[t].pc = "locked" /\ call[t].op = "policy" /\ Alone(t)
        /\ UNCHANGED <<partitions, leases, required, rejected>>
    BY DataNumbers DEF IInv, Local, Gates, PlanPolicy, Locked, WriteLocked, Alone
  <1>2. CASE Released(t) /\ UNCHANGED <<group, publications>>
    <2>1. SameData
      BY <1>1, <1>2, DataNumbers DEF SameData, group
    <2> QED
      BY <1>1, <1>2, <2>1, ReleasedStep
  <1>3. CASE /\ Published(t, call[t].policy, runtime.pressure) /\ Released(t)
             /\ UNCHANGED <<lifecycle, publications>>
    <2>1. /\ runtime' \in [generation : Nat, policy : Policies, pressure : Nat]
          /\ generation' \in Nat /\ runtime'.pressure = runtime.pressure
      <3>1. call[t].policy \in Policies /\ runtime.pressure \in Nat /\ generation + 1 \in Nat
        BY <1>1, DataNumbers DEF CallType, Types
      <3> QED
        BY <1>3, <3>1 DEF Published
    <2>2. Becomes(t, NoCall) /\ LocksKept(t)
      BY <1>1, <1>3, BecomesReleased, ReleasedLocks
    <2>3. Local(t)'
      BY <2>2, NoCallIsOutside, OutsideIsLocal DEF Becomes
    <2>4. call'[t].number = 0
      BY <2>2, NoCallFields DEF Becomes
    <2>5. Guarded(t) /\ Numbered(t)
      BY <1>1, <1>3, <2>1, <2>4 DEF Guarded, Numbered, partitions
    <2>6. DataTypes'
      BY <1>1, <1>3, <2>1, TypesSplit DEF DataTypes, partitions
    <2>7. (Publishing = {})' => AllReached'
      BY <1>1, <2>2, <2>5, ReachedStay DEF Becomes, OthersKept
    <2>8. PressureReachedPartitions' /\ (lifecycle' = "closed" => \A k \in Partitions : ClosedPartition(k)')
      BY <1>1, <1>3, <2>1 DEF IInv, Reached, PressureReachedPartitions, ClosedPartition, partitions
    <2> QED
      BY <2>2, <2>3, <2>5, <2>6, <2>7, <2>8, StepKeeps
  <1>4. CASE /\ AllowsWork(lifecycle) /\ publications' = Number
             /\ call' = [call EXCEPT ![t].pc = "admitPartitions", ![t].todo = Partitions,
                                     ![t].number = Number]
             /\ UNCHANGED <<group, locks>>
    <2>1. Number \in Nat /\ Partitions \in SUBSET Nat /\ "admitPartitions" \in Positions
      BY NumberIsNew, Constants DEF Positions
    <2>2. /\ SameCall(t) /\ call'[t].pc = "admitPartitions" /\ call'[t].todo = Partitions
          /\ call'[t].number = Number
      BY <1>1, <1>4, <2>1, NumberMoves
    <2>3. LocksKept(t)
      BY <1>1, <1>4, SameLocks
    <2>4. Route(call'[t])
      BY <1>1, <2>2, Constants DEF Route, SameCall
    <2>5. Fresh(t)'
      <3>1. Number # 0 /\ Number \notin rejected'
        BY <1>1, NumberIsNew, DataNumbers DEF Number
      <3>2. \A p \in Partitions : budget'[p] # Number
        BY <1>1, DataNumbers DEF IInv, Bounded, Number, partitions
      <3>3. \A q \in Pools : poolBudget'[q] # Number
        <4>1. \A q \in Pools : poolBudget[q] \in Nat /\ poolBudget[q] <= publications
          BY DEF IInv, Types, Bounded
        <4> QED
          BY <1>1, <4>1, DataNumbers DEF Number, partitions
      <3>4. \A u \in Actors \ {t} : call'[u].number # Number
        BY <2>2, DataNumbers DEF IInv, Bounded, Number, SameCall, Becomes
      <3> QED
        BY <2>2, <3>1, <3>2, <3>3, <3>4 DEF Fresh
    <2>6. \A p \in Partitions : ~InGate(call'[t], p) /\ ~HasController(call'[t], p)
      BY <2>2 DEF InGate, HasController, TickOf
    <2>7. Local(t)'
      BY <1>1, <1>4, <2>2, <2>4, <2>5, <2>6, PublicationIsLocal
         DEF Alone, AllowsWork, group, locks, SameCall, PublicationSteps
    <2>8. SameData
      BY <1>1, <1>4, DataNumbers DEF SameData, group, Number
    <2> QED
      BY <1>1, <1>4, <2>2, <2>3, <2>7, <2>8, QuietStep DEF SameCall, Number
  <1> QED
    BY <1>2, <1>3, <1>4 DEF PlanPolicy

LEMMA AdmitPartitionKeeps == ASSUME IInv, NEW t \in Actors, AdmitPartition(t) PROVE IInv'
  <1> DEFINE p == First(call[t].todo)
  <1>1. /\ Types /\ Route(call[t]) /\ Fresh(t) /\ Group \in Gates
        /\ call[t].pc = "admitPartitions" /\ MayRead(p)
        /\ UNCHANGED <<group, partitions, leases, publications, required>>
    BY DEF IInv, Local, Gates, AdmitPartition
  <1>2. p \in call[t].todo /\ p \in Partitions /\ p \in Gates
    BY <1>1, FirstPartition DEF Route
  <1>3. call[t].op = "policy" /\ Pending(call[t])
    BY <1>1 DEF Route, Pending, Publication
  <1>4. /\ writer[Group] = t /\ readers[Group] = {} /\ lifecycle = "active"
        /\ \A k \in Partitions : InGate(call[t], k) => t \in readers[k]
    BY <1>1, <1>3, PublicationHolds DEF PublicationSteps
  <1>5. CASE RolledBack(t) /\ Rejected(t)
    BY <1>1, <1>3, <1>5, RejectedStep DEF RolledBack, group
  <1>6. CASE /\ ReadLocked(t, p) /\ Advance(t, p, "lockControllers", Partitions)
             /\ UNCHANGED <<writer, controllerMu, cycle, inside, rejected>>
    <2>1. LocksKept(t) /\ t \in readers'[p] /\ \A k \in Gates : readers[k] \subseteq readers'[k]
      BY <1>1, <1>2, <1>6, ReadLocks
    <2>2. Partitions \in SUBSET Nat /\ "lockControllers" \in Positions
      BY Constants DEF Positions
    <2> HIDE DEF p
    <2>3. /\ SameCall(t) /\ call'[t].number = call[t].number
          /\ \/ /\ call[t].todo \ {p} = {}
                /\ call'[t].pc = "lockControllers" /\ call'[t].todo = Partitions
             \/ /\ call[t].todo \ {p} # {}
                /\ call'[t].pc = "admitPartitions" /\ call'[t].todo = call[t].todo \ {p}
      BY <1>1, <1>6, <2>2, AdvanceMoves
    <2>4. Route(call'[t]) /\ call'[t].op = "policy" /\ call'[t].pc \in PublicationSteps
      BY <1>1, <1>3, <2>3, Constants DEF Route, SameCall, PublicationSteps
    <2>5. Fresh(t)'
      BY <1>1, <1>3, <1>6, <2>3, FreshKept DEF SameCall, partitions
    <2>6. \A k \in Partitions : InGate(call'[t], k) => t \in readers'[k]
      <3>1. ASSUME NEW k \in Partitions, InGate(call'[t], k) PROVE t \in readers'[k]
        <4>1. k \in Gates /\ (k = p \/ k \notin call[t].todo)
          BY <2>3, <3>1 DEF InGate, Publication, TickOf, Gates
        <4>2. k \notin call[t].todo => InGate(call[t], k)
          BY <1>1 DEF InGate, Publication
        <4> QED
          BY <1>4, <2>1, <4>1, <4>2
      <3> QED
        BY <3>1
    <2>7. \A k \in Partitions : ~HasController(call'[t], k)
      BY <2>3 DEF HasController, TickOf
    <2>8. writer'[Group] = t /\ readers'[Group] = {}
      <3>1. readers'[Group] = readers[Group]
        BY <1>1, <1>2, <1>6, Constants DEF ReadLocked, Types
      <3> QED
        BY <1>4, <1>6, <3>1
    <2>9. Local(t)'
      BY <1>1, <1>4, <2>3, <2>4, <2>5, <2>6, <2>7, <2>8, PublicationIsLocal DEF group
    <2>10. SameData
      BY <1>1, <1>6, DataNumbers DEF SameData, group
    <2> QED
      BY <1>1, <2>1, <2>3, <2>9, <2>10, QuietStep DEF SameCall
  <1> QED
    BY <1>5, <1>6 DEF AdmitPartition

LEMMA LockControllerKeeps == ASSUME IInv, NEW t \in Actors, LockController(t) PROVE IInv'
  <1> DEFINE p == First(call[t].todo)
  <1>1. /\ Types /\ Route(call[t]) /\ Fresh(t)
        /\ call[t].pc = "lockControllers" /\ ControllerFree(p)
        /\ controllerMu' = [controllerMu EXCEPT ![p] = t] /\ Advance(t, p, "plan", {})
        /\ UNCHANGED <<group, readers, writer, cycle, inside, partitions, leases, history>>
    BY DEF IInv, Local, LockController
  <1>2. p \in call[t].todo /\ p \in Partitions
    BY <1>1, FirstPartition DEF Route
  <1>3. call[t].op = "policy" /\ Pending(call[t])
    BY <1>1 DEF Route, Pending, Publication
  <1>4. /\ Publication(call[t]) /\ writer[Group] = t /\ readers[Group] = {} /\ lifecycle = "active"
        /\ \A k \in Partitions : InGate(call[t], k) => t \in readers[k]
        /\ \A k \in Partitions : HasController(call[t], k) => controllerMu[k] = t
    BY <1>1, <1>3, PublicationHolds DEF PublicationSteps
  <1>5. /\ LocksKept(t) /\ controllerMu'[p] = t
        /\ \A k \in Partitions : controllerMu[k] = t => controllerMu'[k] = t
    BY <1>1, <1>2, ControllerLocks
  <1>6. /\ SameCall(t) /\ call'[t].number = call[t].number
        /\ \/ call[t].todo \ {p} = {} /\ call'[t].pc = "plan" /\ call'[t].todo = {}
           \/ /\ call[t].todo \ {p} # {}
              /\ call'[t].pc = "lockControllers" /\ call'[t].todo = call[t].todo \ {p}
    <2>1. "plan" \in Positions /\ {} \in SUBSET Nat
      BY DEF Positions
    <2>2. Types /\ Advance(t, p, "plan", {}) /\ call[t].pc = "lockControllers"
      BY <1>1
    <2> HIDE DEF p
    <2> QED
      BY <2>1, <2>2, AdvanceMoves
  <1>7. Route(call'[t]) /\ call'[t].op = "policy" /\ call'[t].pc \in PublicationSteps
    BY <1>1, <1>3, <1>6 DEF Route, SameCall, PublicationSteps
  <1>8. Fresh(t)'
    BY <1>1, <1>3, <1>6, FreshKept DEF SameCall, partitions, history
  <1>9. \A k \in Partitions : t \in readers'[k]
    BY <1>1, <1>4 DEF InGate
  <1>10. \A k \in Partitions : HasController(call'[t], k) => controllerMu'[k] = t
    <2>1. ASSUME NEW k \in Partitions, HasController(call'[t], k) PROVE controllerMu'[k] = t
      <3>1. k = p \/ k \notin call[t].todo
        BY <1>6, <2>1 DEF HasController, TickOf
      <3>2. k \notin call[t].todo => HasController(call[t], k)
        BY <1>1, <1>4 DEF HasController
      <3> QED
        BY <1>4, <1>5, <3>1, <3>2
    <2> QED
      BY <2>1
  <1>11. Local(t)'
    BY <1>1, <1>4, <1>6, <1>7, <1>8, <1>9, <1>10, PublicationIsLocal DEF group
  <1>12. SameData
    BY <1>1, DataNumbers DEF SameData, group, history
  <1> QED
    BY <1>1, <1>5, <1>6, <1>11, <1>12, QuietStep DEF SameCall

(* After the controllers are locked nothing more is held but the gates of Pools. *)
LEMMA PlannedIsLocal ==
    ASSUME IInv, NEW t \in Actors, call[t].op = "policy",
           call[t].pc \in {"plan", "admitPools"}, SameCall(t), Route(call'[t]),
           call'[t].number = call[t].number, call'[t].pc \in {"admitPools", "publish"},
           UNCHANGED <<readers, writer, controllerMu>>, SameData
    PROVE  Local(t)'
  <1>1. Pending(call[t]) /\ Fresh(t)
    BY DEF Pending, Publication, IInv, Local
  <1>2. /\ Publication(call[t]) /\ writer[Group] = t /\ readers[Group] = {} /\ lifecycle = "active"
        /\ \A k \in Partitions : InGate(call[t], k) => t \in readers[k]
        /\ \A k \in Partitions : HasController(call[t], k) => controllerMu[k] = t
    BY PublicationHolds DEF PublicationSteps
  <1>3. \A k \in Partitions : t \in readers'[k] /\ controllerMu'[k] = t
    BY <1>2 DEF InGate, HasController
  <1>4. Fresh(t)'
    BY <1>1, FreshKept DEF SameCall, SameData, partitions
  <1> QED
    BY <1>2, <1>3, <1>4, PublicationIsLocal DEF SameData, SameCall, PublicationSteps

LEMMA PlanApplicationsKeeps == ASSUME IInv, NEW t \in Actors, PlanApplications(t) PROVE IInv'
  <1>1. /\ Types /\ Route(call[t]) /\ call[t].pc = "plan"
        /\ UNCHANGED <<group, partitions, leases, publications, required>>
    BY DEF IInv, Local, PlanApplications
  <1>2. call[t].op = "policy" /\ Pending(call[t])
    BY <1>1 DEF Route, Pending, Publication
  <1>3. CASE Released(t) /\ Rejected(t)
    BY <1>1, <1>2, <1>3, RejectedStep DEF group
  <1>4. CASE Each(t, "admitPools", Pools) /\ UNCHANGED <<locks, rejected>>
    <2>1. Pools \in SUBSET Nat /\ "admitPools" \in Positions
      BY Constants DEF Positions
    <2>2. /\ SameCall(t) /\ call'[t].number = call[t].number
          /\ call'[t].pc = "admitPools" /\ call'[t].todo = Pools
      BY <1>1, <1>4, <2>1, EachMoves
    <2>3. Route(call'[t])
      BY <1>2, <2>2, Constants DEF Route, SameCall
    <2>4. SameData
      BY <1>1, <1>4, DataNumbers DEF SameData, group
    <2>5. LocksKept(t)
      BY <1>1, <1>4, SameLocks
    <2>6. Local(t)'
      BY <1>1, <1>2, <1>4, <2>2, <2>3, <2>4, PlannedIsLocal DEF locks
    <2> QED
      BY <1>1, <2>2, <2>4, <2>5, <2>6, QuietStep DEF SameCall
  <1> QED
    BY <1>3, <1>4 DEF PlanApplications

LEMMA AdmitPoolKeeps == ASSUME IInv, NEW t \in Actors, AdmitPool(t) PROVE IInv'
  <1> DEFINE q == First(call[t].todo)
  <1> DEFINE next == IF call[t].op = "policy" THEN "publish" ELSE "tickPublish"
  <1>1. /\ Types /\ Route(call[t]) /\ Holds(t) /\ Secured(t) /\ LiveNumber(t)
        /\ call[t].pc = "admitPools"
        /\ UNCHANGED <<group, partitions, leases, publications, required>>
    BY DEF IInv, Local, AdmitPool
  <1>2. q \in Pools /\ call[t].op \in {"policy", "partitionTick"}
    BY <1>1, FirstPool DEF Route
  <1>3. CASE Released(t) /\ UNCHANGED rejected
    <2>1. SameData
      BY <1>1, <1>3, DataNumbers DEF SameData, group
    <2> QED
      BY <1>1, <1>3, <2>1, ReleasedStep
  <1>4. CASE Released(t) /\ call[t].op = "policy" /\ Rejected(t)
    BY <1>1, <1>4, RejectedStep DEF group, Pending, Publication
  <1>5. CASE /\ inside' = [inside EXCEPT ![q] = @ \cup {t}]
             /\ Advance(t, q, next, {})
             /\ UNCHANGED <<readers, writer, controllerMu, cycle, rejected>>
    <2>1. LocksKept(t)
      BY <1>1, <1>2, <1>5, PoolLocks
    <2>2. next \in Positions /\ {} \in SUBSET Nat
      BY DEF Positions
    <2>3. /\ SameCall(t) /\ call'[t].number = call[t].number
          /\ \/ /\ call[t].todo \ {q} = {}
                /\ call'[t].pc = next /\ call'[t].todo = {}
             \/ /\ call[t].todo \ {q} # {}
                /\ call'[t].pc = "admitPools" /\ call'[t].todo = call[t].todo \ {q}
      <3>1. Types /\ Advance(t, q, next, {}) /\ call[t].pc = "admitPools"
        BY <1>1, <1>5
      <3>2. next \in Positions /\ {} \in SUBSET Nat
        BY <2>2
      <3> HIDE DEF q, next
      <3>3. /\ SameCall(t) /\ call'[t].number = call[t].number
            /\ \/ /\ call[t].todo \ {q} = {}
                  /\ call'[t].pc = next /\ call'[t].todo = {}
               \/ /\ call[t].todo \ {q} # {}
                  /\ call'[t].pc = call[t].pc /\ call'[t].todo = call[t].todo \ {q}
        BY <3>1, <3>2, AdvanceMoves
      <3> QED
        BY <3>1, <3>3
    <2>4. SameData
      BY <1>1, <1>5, DataNumbers DEF SameData, group
    <2>5. CASE call[t].op = "policy"
      <3>1. call'[t].pc \in {"admitPools", "publish"} /\ Route(call'[t])
        BY <1>1, <2>3, <2>5 DEF Route, SameCall
      <3>2. Local(t)'
        BY <1>1, <1>5, <2>3, <2>4, <2>5, <3>1, PlannedIsLocal
      <3> QED
        BY <1>1, <2>1, <2>3, <2>4, <3>2, QuietStep DEF SameCall
    <2>6. CASE call[t].op = "partitionTick"
      <3> DEFINE p == call[t].at
      <3>1. p \in Partitions /\ TickOf(call[t], p) /\ HasController(call[t], p) /\ Live(call[t])
        BY <1>1, <2>6 DEF Route, TickOf, HasController, Live
      <3>2. /\ t \in readers[p] /\ controllerMu[p] = t /\ partitionLifecycle[p] = "active"
            /\ call[t].number \notin rejected /\ call[t].number >= required
        BY <1>1, <3>1 DEF Holds, InGate, Secured, LiveNumber
      <3>3. call'[t].pc \in {"admitPools", "tickPublish"} /\ Route(call'[t])
        BY <1>1, <2>3, <2>6 DEF Route, SameCall
      <3>4. Local(t)'
        <4>1. /\ call'[t].op = "partitionTick" /\ call'[t].at = p
              /\ call'[t].number = call[t].number
          BY <2>3, <2>6 DEF SameCall
        <4>2. /\ t \in readers'[p] /\ controllerMu'[p] = t /\ partitionLifecycle'[p] = "active"
              /\ call[t].number \notin rejected' /\ call[t].number >= required'
          BY <1>1, <1>5, <3>2 DEF partitions
        <4> QED
          BY <3>3, <4>1, <4>2, TickIsLocal
      <3> QED
        BY <1>1, <2>1, <2>3, <2>4, <3>4, QuietStep DEF SameCall
    <2> QED
      BY <1>2, <2>5, <2>6
  <1> QED
    BY <1>3, <1>4, <1>5 DEF AdmitPool

LEMMA PublishPolicyKeeps == ASSUME IInv, NEW t \in Actors, PublishPolicy(t) PROVE IInv'
  <1> DEFINE n == call[t].number
  <1>1. /\ Types /\ Route(call[t]) /\ Fresh(t) /\ call[t].pc = "publish" /\ call[t] \in CallType
        /\ Published(t, call[t].policy, runtime.pressure) /\ Each(t, "applyPolicy", Partitions)
        /\ required' = n
        /\ UNCHANGED <<lifecycle, locks, partitions, leases, publications, rejected>>
    BY DataNumbers DEF IInv, Local, PublishPolicy
  <1>2. call[t].op = "policy" /\ Pending(call[t])
    BY <1>1 DEF Route, Pending, Publication
  <1>3. /\ Publication(call[t]) /\ writer[Group] = t /\ readers[Group] = {} /\ lifecycle = "active"
        /\ \A k \in Partitions : InGate(call[t], k) => t \in readers[k]
        /\ \A k \in Partitions : HasController(call[t], k) => controllerMu[k] = t
    BY <1>1, <1>2, PublicationHolds DEF PublicationSteps
  <1>4. \A k \in Partitions : t \in readers[k] /\ controllerMu[k] = t
    BY <1>1, <1>3 DEF InGate, HasController
  <1>5. n \in Nat /\ n \notin rejected
    BY <1>1, <1>2, DataNumbers DEF Fresh
  <1>6. /\ runtime' \in [generation : Nat, policy : Policies, pressure : Nat]
        /\ generation' \in Nat /\ runtime'.pressure = runtime.pressure
    <2>1. call[t].policy \in Policies /\ runtime.pressure \in Nat /\ generation + 1 \in Nat
      BY <1>1, DataNumbers DEF CallType, Types
    <2> QED
      BY <1>1, <2>1 DEF Published
  <1>7. /\ SameCall(t) /\ call'[t].number = n
        /\ call'[t].pc = "applyPolicy" /\ call'[t].todo = Partitions
    <2>1. Partitions \in SUBSET Nat /\ "applyPolicy" \in Positions
      BY Constants DEF Positions
    <2> QED
      BY <1>1, <2>1, EachMoves
  <1>8. LocksKept(t)
    BY <1>1, SameLocks
  <1>9. Route(call'[t]) /\ call'[t].op = "policy" /\ call'[t].pc \in PublicationSteps
    BY <1>1, <1>2, <1>7, Constants DEF Route, SameCall, PublicationSteps
  <1>10. Fresh(t)'
    BY <1>7 DEF Fresh, Pending
  <1>11. n \notin rejected' /\ n >= required'
    BY <1>1, <1>5
  <1>12. Local(t)'
    BY <1>1, <1>3, <1>4, <1>7, <1>9, <1>10, <1>11, PublicationIsLocal DEF locks
  <1>13. Guarded(t)
    BY <1>1, <1>3, <1>4 DEF Guarded, Alone, partitions
  <1>14. Numbered(t)
    BY <1>1, <1>6, <1>7 DEF Numbered, partitions
  <1>15. DataTypes'
    BY <1>1, <1>5, <1>6, TypesSplit DEF DataTypes, partitions
  <1>16. t \in Publishing'
    BY <1>7 DEF Publishing
  <1>17. PressureReachedPartitions' /\ (lifecycle' = "closed" => \A k \in Partitions : ClosedPartition(k)')
    BY <1>1, <1>6 DEF IInv, Reached, PressureReachedPartitions, ClosedPartition, partitions
  <1> QED
    BY <1>7, <1>8, <1>12, <1>13, <1>14, <1>15, <1>16, <1>17, StepKeeps DEF SameCall

LEMMA ApplyPolicyKeeps == ASSUME IInv, NEW t \in Actors, ApplyPolicy(t) PROVE IInv'
  <1> DEFINE p == First(call[t].todo)
             n == call[t].number
  <1>1. /\ Types /\ Route(call[t]) /\ LiveNumber(t) /\ Passed(t)
        /\ call[t].pc = "applyPolicy" /\ call[t] \in CallType
        /\ UNCHANGED <<lifecycle, generation, runtime, partitionLifecycle, pressure, poolClosed,
                       leases, publications, required, rejected>>
    BY DataNumbers DEF IInv, Local, ApplyPolicy, group, history
  <1>2. p \in call[t].todo /\ p \in Partitions
    BY <1>1, FirstPartition DEF Route
  <1>3. call[t].op = "policy" /\ Live(call[t])
    BY <1>1 DEF Route, Live
  <1>4. /\ Publication(call[t]) /\ writer[Group] = t /\ readers[Group] = {} /\ lifecycle = "active"
        /\ \A k \in Partitions : InGate(call[t], k) => t \in readers[k]
        /\ \A k \in Partitions : HasController(call[t], k) => controllerMu[k] = t
    BY <1>1, <1>3, PublicationHolds DEF PublicationSteps
  <1>5. \A k \in Partitions : t \in readers[k] /\ controllerMu[k] = t
    BY <1>1, <1>4 DEF InGate, HasController
  <1>6. n \in Nat /\ n \notin rejected /\ n >= required
    BY <1>1, <1>3, DataNumbers DEF LiveNumber
  <1>7. /\ budget' \in [Partitions -> Nat]
        /\ \A k \in Partitions : budget'[k] = IF k = p THEN n ELSE budget[k]
    BY <1>1, <1>6 DEF ApplyPolicy, Types
  <1>8. /\ poolBudget' \in [Pools -> Nat]
        /\ \A q \in Pools : poolBudget'[q] = IF PoolOwner[q] = p THEN n ELSE poolBudget[q]
    BY <1>1, <1>6 DEF ApplyPolicy, Types
  <1>9. /\ LocksKept(t) /\ Becomes(t, call'[t])
        /\ \/ call[t].todo = {p} /\ call'[t] = NoCall
           \/ /\ SameCall(t) /\ call'[t].number = n /\ call'[t].pc = "applyPolicy"
              /\ call'[t].todo = call[t].todo \ {p} /\ call'[t].todo # {}
              /\ UNCHANGED locks
    BY <1>1, <1>2, LoopMoves DEF ApplyPolicy, Positions
  <1>10. \A k \in Partitions : k \notin call[t].todo \/ k = p =>
            budget'[k] >= required /\ \A q \in PoolsOf(k) : poolBudget'[q] >= required
    <2>1. ASSUME NEW k \in Partitions, k \notin call[t].todo \/ k = p
          PROVE  budget'[k] >= required /\ \A q \in PoolsOf(k) : poolBudget'[q] >= required
      <3>1. CASE k = p
        BY <1>6, <1>7, <1>8, <3>1 DEF PoolsOf
      <3>2. CASE k # p
        <4>1. budget[k] >= required /\ \A q \in PoolsOf(k) : poolBudget[q] >= required
          BY <1>1, <2>1, <3>2 DEF Passed
        <4> QED
          BY <1>7, <1>8, <3>2, <4>1 DEF PoolsOf
      <3> QED
        BY <3>1, <3>2
    <2> QED
      BY <2>1
  <1>11. Local(t)'
    <2>1. CASE call'[t] = NoCall
      BY <2>1, NoCallIsOutside, OutsideIsLocal
    <2>2. CASE /\ SameCall(t) /\ call'[t].number = n /\ call'[t].pc = "applyPolicy"
               /\ call'[t].todo = call[t].todo \ {p} /\ call'[t].todo # {}
               /\ UNCHANGED locks
      <3>1. Route(call'[t]) /\ call'[t].op = "policy" /\ call'[t].pc \in PublicationSteps
        BY <1>1, <1>3, <2>2 DEF Route, SameCall, PublicationSteps
      <3>2. Fresh(t)'
        BY <2>2 DEF Fresh, Pending
      <3>3. n \notin rejected' /\ n >= required'
        BY <1>1, <1>6
      <3>4. \A k \in Partitions \ call'[t].todo :
               budget'[k] >= required' /\ \A q \in PoolsOf(k) : poolBudget'[q] >= required'
        BY <1>1, <1>10, <2>2
      <3> QED
        BY <1>1, <1>4, <1>5, <2>2, <3>1, <3>2, <3>3, <3>4, PublicationIsLocal DEF locks
    <2> QED
      BY <1>9, <2>1, <2>2
  <1>12. call'[t].number = 0 \/ call'[t].number = n
    BY <1>9, NoCallFields
  <1>13. Numbered(t) /\ Guarded(t)
    <2>1. Numbered(t)
      BY <1>1, <1>3, <1>7, <1>8, <1>12 DEF Numbered
    <2>2. Guarded(t)
      BY <1>1, <1>4, <1>5, Constants DEF Guarded, Alone
    <2> QED
      BY <2>1, <2>2
  <1>14. DataTypes'
    BY <1>1, <1>7, <1>8, TypesSplit DEF DataTypes
  <1>15. (Publishing = {})' => AllReached'
    <2>1. CASE call'[t].pc = "applyPolicy"
      <3>1. t \in Publishing'
        BY <2>1 DEF Publishing
      <3> QED
        BY <3>1
    <2>2. CASE call'[t].pc # "applyPolicy"
      <3>1. call[t].todo = {p}
        BY <1>9, <2>2
      <3>2. \A k \in Partitions :
               budget'[k] >= required /\ \A q \in PoolsOf(k) : poolBudget'[q] >= required
        BY <1>10, <3>1
      <3>3. \A q \in Pools : poolBudget'[q] >= required
        BY <3>2, Constants DEF PoolsOf
      <3> QED
        BY <1>1, <3>2, <3>3 DEF AllReached
    <2> QED
      BY <2>1, <2>2
  <1>16. PressureReachedPartitions' /\ (lifecycle' = "closed" => \A k \in Partitions : ClosedPartition(k)')
    BY <1>1 DEF IInv, Reached, PressureReachedPartitions, ClosedPartition
  <1> QED
    BY <1>9, <1>11, <1>13, <1>14, <1>15, <1>16, StepKeeps

-----------------------------------------------------------------------------
(* Publication of pressure *)

LEMMA PressureIsLocal ==
    ASSUME NEW t \in Actors, Route(call'[t]), PressurePass(call'[t]), call'[t].op = "pressure",
           writer'[Group] = t, readers'[Group] = {}, lifecycle' = "active",
           call'[t].number >= runtime'.pressure,
           call'[t].pc = "press" =>
              \A p \in Partitions \ call'[t].todo : pressure'[p] >= call'[t].number,
           call'[t].pc = "pressed" => \A p \in Partitions : pressure'[p] >= call'[t].number
    PROVE  Local(t)'
  <1> DEFINE c == call'[t]
  <1>1. /\ ~ReadsGroup(c) /\ ~Closing(c) /\ ~Publication(c) /\ c.pc \notin {"apply", "applyPolicy"}
        /\ \A p \in Partitions : ~TickOf(c, p)
    BY DEF ReadsGroup, Publication, PressurePass, Closing, TickOf
  <1>2. \A p \in Partitions : ~InGate(c, p) /\ ~HasController(c, p)
    BY <1>1 DEF InGate, HasController
  <1>3. Holds(t)'
    BY <1>1, <1>2 DEF Holds
  <1>4. Secured(t)'
    BY <1>1 DEF Secured
  <1>5. Fresh(t)' /\ LiveNumber(t)'
    BY <1>1 DEF Fresh, Pending, LiveNumber, Live
  <1>6. Passed(t)'
    BY <1>1 DEF Passed
  <1> QED
    BY <1>3, <1>4, <1>5, <1>6 DEF Local

LEMMA PressureHolds ==
    ASSUME IInv, NEW t \in Actors, call[t].pc \in {"press", "pressed"}
    PROVE  /\ PressurePass(call[t]) /\ call[t].op = "pressure"
           /\ writer[Group] = t /\ readers[Group] = {} /\ lifecycle = "active"
           /\ call[t].number >= runtime.pressure
  <1>1. PressurePass(call[t]) /\ WritesGroup(call[t])
    BY DEF PressurePass, WritesGroup
  <1> QED
    BY <1>1 DEF IInv, Local, Holds, Secured, Passed, Route

LEMMA AttemptPressureKeeps == ASSUME IInv, NEW t \in Actors, AttemptPressure(t) PROVE IInv'
  <1>1. /\ Types /\ Route(call[t])
        /\ call[t].pc = "locked" /\ call[t].op = "pressure" /\ Alone(t)
        /\ UNCHANGED <<group, partitions, leases, required, rejected>>
    BY DEF IInv, Local, AttemptPressure, Locked, WriteLocked, Alone
  <1>2. CASE Released(t) /\ UNCHANGED publications
    <2>1. SameData
      BY <1>1, <1>2, DataNumbers DEF SameData, group
    <2> QED
      BY <1>1, <1>2, <2>1, ReleasedStep
  <1>3. CASE /\ AllowsWork(lifecycle) /\ publications' = Number
             /\ call' = [call EXCEPT ![t].pc = "press", ![t].todo = Partitions,
                                     ![t].number = Number]
             /\ UNCHANGED locks
    <2>1. Number \in Nat /\ Partitions \in SUBSET Nat /\ "press" \in Positions
      BY NumberIsNew, Constants DEF Positions
    <2>2. /\ SameCall(t) /\ call'[t].pc = "press" /\ call'[t].todo = Partitions
          /\ call'[t].number = Number
      BY <1>1, <1>3, <2>1, NumberMoves
    <2>3. LocksKept(t)
      BY <1>1, <1>3, SameLocks
    <2>4. Route(call'[t]) /\ PressurePass(call'[t]) /\ call'[t].op = "pressure"
      BY <1>1, <2>2, Constants DEF Route, SameCall, PressurePass
    <2>5. Number >= runtime'.pressure
      <3>1. runtime.pressure \in Nat /\ runtime.pressure <= publications
        BY DEF IInv, Types, Bounded
      <3> QED
        BY <1>1, <3>1, DataNumbers DEF Number, group
    <2>6. Local(t)'
      BY <1>1, <1>3, <2>2, <2>4, <2>5, PressureIsLocal DEF Alone, AllowsWork, group, locks
    <2>7. SameData
      BY <1>1, <1>3, DataNumbers DEF SameData, group, Number
    <2> QED
      BY <1>1, <1>3, <2>2, <2>3, <2>6, <2>7, QuietStep DEF SameCall, Number
  <1> QED
    BY <1>2, <1>3 DEF AttemptPressure

LEMMA PressPartitionKeeps == ASSUME IInv, NEW t \in Actors, PressPartition(t) PROVE IInv'
  <1> DEFINE p == First(call[t].todo)
             n == call[t].number
  <1>1. /\ Types /\ Route(call[t]) /\ Passed(t) /\ call[t].pc = "press" /\ call[t] \in CallType
        /\ UNCHANGED <<lifecycle, generation, runtime, partitionLifecycle, budget, poolClosed,
                       poolBudget, leases, publications, required, rejected>>
    BY DataNumbers DEF IInv, Local, PressPartition, group, history
  <1>2. p \in call[t].todo /\ p \in Partitions /\ n \in Nat
    BY <1>1, FirstPartition DEF Route, CallType
  <1>3. /\ PressurePass(call[t]) /\ call[t].op = "pressure"
        /\ writer[Group] = t /\ readers[Group] = {} /\ lifecycle = "active"
        /\ n >= runtime.pressure
    BY <1>1, PressureHolds
  <1>4. CASE Refused(t, p) /\ UNCHANGED pressure
    <2>1. SameData
      BY <1>1, <1>4, DataNumbers DEF SameData, partitions
    <2> QED
      BY <1>1, <1>4, <2>1, ReleasedStep DEF Refused
  <1>5. CASE /\ pressure' = [pressure EXCEPT ![p] = n]
             /\ Advance(t, p, "pressed", {}) /\ UNCHANGED locks
    <2>1. /\ pressure' \in [Partitions -> Nat]
          /\ \A k \in Partitions : pressure'[k] = IF k = p THEN n ELSE pressure[k]
      BY <1>1, <1>2, <1>5 DEF Types
    <2>2. /\ SameCall(t) /\ call'[t].number = n
          /\ \/ call[t].todo \ {p} = {} /\ call'[t].pc = "pressed"
             \/ /\ call[t].todo \ {p} # {}
                /\ call'[t].pc = "press" /\ call'[t].todo = call[t].todo \ {p}
      <3>1. Types /\ Advance(t, p, "pressed", {}) /\ call[t].pc = "press"
            /\ "pressed" \in Positions /\ {} \in SUBSET Nat
        BY <1>1, <1>5 DEF Positions
      <3> HIDE DEF p
      <3> QED
        BY <3>1, AdvanceMoves
    <2>3. LocksKept(t)
      BY <1>1, <1>5, SameLocks
    <2>4. Route(call'[t]) /\ PressurePass(call'[t]) /\ call'[t].op = "pressure"
      BY <1>1, <1>3, <2>2 DEF Route, SameCall, PressurePass
    <2>5. \A k \in Partitions : k = p \/ k \notin call[t].todo => pressure'[k] >= n
      BY <1>1, <1>2, <2>1 DEF Passed
    <2>6. Local(t)'
      <3>1. call'[t].pc = "press" => \A k \in Partitions \ call'[t].todo : pressure'[k] >= n
        BY <2>2, <2>5
      <3>2. call'[t].pc = "pressed" => \A k \in Partitions : pressure'[k] >= n
        BY <2>2, <2>5
      <3> QED
        BY <1>1, <1>3, <1>5, <2>2, <2>4, <3>1, <3>2, PressureIsLocal DEF locks
    <2>7. Guarded(t) /\ Numbered(t)
      BY <1>1, <1>3, <2>1, <2>2 DEF Guarded, Alone, Numbered
    <2>8. DataTypes'
      BY <1>1, <2>1, TypesSplit DEF DataTypes
    <2>9. (Publishing = {})' => AllReached'
      BY <1>1, <2>2, <2>7, ReachedStay DEF SameCall, Becomes, OthersKept
    <2>10. PressureReachedPartitions'
      BY <1>1, <1>3, <2>1 DEF IInv, Reached, PressureReachedPartitions
    <2>11. lifecycle' = "closed" => \A k \in Partitions : ClosedPartition(k)'
      BY <1>1, <1>3
    <2> QED
      BY <2>2, <2>3, <2>6, <2>7, <2>8, <2>9, <2>10, <2>11, StepKeeps DEF SameCall
  <1> QED
    BY <1>4, <1>5 DEF PressPartition

LEMMA PublishPressureKeeps == ASSUME IInv, NEW t \in Actors, PublishPressure(t) PROVE IInv'
  <1> DEFINE n == call[t].number
  <1>1. /\ Types /\ Passed(t) /\ call[t].pc = "pressed" /\ n \in Nat
        /\ Published(t, runtime.policy, n) /\ Released(t)
        /\ UNCHANGED <<lifecycle, partitionLifecycle, budget, pressure, poolClosed, poolBudget,
                       leases, publications, required, rejected>>
    BY DataNumbers DEF IInv, Local, PublishPressure, partitions, history
  <1>2. writer[Group] = t /\ readers[Group] = {} /\ lifecycle = "active"
    BY <1>1, PressureHolds
  <1>3. /\ runtime' \in [generation : Nat, policy : Policies, pressure : Nat]
        /\ generation' \in Nat /\ runtime'.pressure = n
    <2>1. runtime.policy \in Policies /\ generation + 1 \in Nat
      BY <1>1, DataNumbers DEF Types
    <2> QED
      BY <1>1, <2>1 DEF Published
  <1>4. Becomes(t, NoCall) /\ LocksKept(t)
    BY <1>1, BecomesReleased, ReleasedLocks
  <1>5. Local(t)'
    BY <1>4, NoCallIsOutside, OutsideIsLocal DEF Becomes
  <1>6. call'[t].number = 0
    BY <1>4, NoCallFields DEF Becomes
  <1>7. Guarded(t) /\ Numbered(t)
    BY <1>1, <1>2, <1>3, <1>6 DEF Guarded, Alone, Numbered
  <1>8. DataTypes'
    BY <1>1, <1>3, TypesSplit DEF DataTypes
  <1>9. (Publishing = {})' => AllReached'
    BY <1>1, <1>4, <1>7, ReachedStay DEF Becomes, OthersKept
  <1>10. PressureReachedPartitions'
    BY <1>1, <1>3 DEF Passed, PressureReachedPartitions
  <1>11. lifecycle' = "closed" => \A k \in Partitions : ClosedPartition(k)'
    BY <1>1, <1>2
  <1> QED
    BY <1>4, <1>5, <1>7, <1>8, <1>9, <1>10, <1>11, StepKeeps

-----------------------------------------------------------------------------
(* Close *)

LEMMA ClosingIsLocal ==
    ASSUME NEW t \in Actors, Route(call'[t]), Closing(call'[t]),
           writer'[Group] = t, readers'[Group] = {}, lifecycle' = "closing",
           \A p \in Partitions :
              call'[t].pc = "finishClose" \/ p \notin call'[t].todo => ClosedPartition(p)'
    PROVE  Local(t)'
  <1> DEFINE c == call'[t]
  <1>1. /\ ~ReadsGroup(c) /\ ~PressurePass(c) /\ ~Publication(c) /\ c.pc \notin {"apply", "applyPolicy"}
        /\ \A p \in Partitions : ~TickOf(c, p)
    BY DEF ReadsGroup, Publication, PressurePass, Closing, TickOf
  <1>2. \A p \in Partitions : ~InGate(c, p) /\ ~HasController(c, p)
    BY <1>1 DEF InGate, HasController
  <1>3. Holds(t)'
    BY <1>1, <1>2 DEF Holds
  <1>4. Secured(t)'
    BY <1>1 DEF Secured
  <1>5. Fresh(t)' /\ LiveNumber(t)'
    BY <1>1 DEF Fresh, Pending, LiveNumber, Live
  <1>6. Passed(t)'
    BY <1>1 DEF Passed, PressurePass
  <1> QED
    BY <1>3, <1>4, <1>5, <1>6 DEF Local

LEMMA ClosingHolds ==
    ASSUME IInv, NEW t \in Actors, Closing(call[t])
    PROVE  /\ writer[Group] = t /\ readers[Group] = {} /\ lifecycle = "closing"
           /\ \A p \in Partitions :
                 call[t].pc = "finishClose" \/ p \notin call[t].todo => ClosedPartition(p)
  <1>1. WritesGroup(call[t])
    BY DEF WritesGroup
  <1> QED
    BY <1>1 DEF IInv, Local, Holds, Secured, Passed

(* A step of a closing call that changes neither the group nor its partitions *)
LEMMA ClosingStep ==
    ASSUME IInv, NEW t \in Actors, SameCall(t), SameData, LocksKept(t), Route(call'[t]),
           call'[t].number = call[t].number,
           call[t].pc # "applyPolicy",
           writer'[Group] = writer[Group], readers'[Group] = readers[Group],
           \/ /\ Closing(call[t]) /\ Closing(call'[t])
              /\ call'[t].todo = call[t].todo /\ call'[t].pc # "finishClose"
           \/ Outside(call'[t])
    PROVE  IInv'
  <1>1. Local(t)'
    <2>1. CASE Outside(call'[t])
      BY <2>1, OutsideIsLocal
    <2>2. CASE /\ Closing(call[t]) /\ Closing(call'[t])
               /\ call'[t].todo = call[t].todo /\ call'[t].pc # "finishClose"
      <3>1. /\ writer'[Group] = t /\ readers'[Group] = {} /\ lifecycle' = "closing"
            /\ \A p \in Partitions : p \notin call[t].todo => ClosedPartition(p)
        BY <2>2, ClosingHolds DEF SameData
      <3>2. \A p \in Partitions : p \notin call[t].todo => ClosedPartition(p)'
        BY <3>1 DEF ClosedPartition, SameData, partitions
      <3> QED
        BY <2>2, <3>1, <3>2, ClosingIsLocal
    <2> QED
      BY <2>1, <2>2
  <1> QED
    BY <1>1, QuietStep DEF SameCall

LEMMA StopSchedulerKeeps == ASSUME IInv, NEW t \in Actors, StopScheduler(t) PROVE IInv'
  <1>1. /\ Types /\ Route(call[t]) /\ call[t].pc = "stop" /\ Goto(t, "join") /\ UNCHANGED locks
        /\ "join" \in Positions
    BY DEF IInv, Local, StopScheduler, Positions
  <1>2. SameData
    BY DataNumbers DEF SameData, StopScheduler, group, history
  <1>3. LocksKept(t)
    BY <1>1, SameLocks
  <1>4. /\ SameCall(t) /\ call'[t].number = call[t].number
        /\ call'[t].pc = "join" /\ call'[t].todo = call[t].todo
    BY <1>1, GotoMoves
  <1>5. Route(call'[t])
    BY <1>1, <1>4 DEF Route, SameCall
  <1>6. CASE Closing(call[t])
    <2>1. Closing(call'[t])
      BY <1>1, <1>4, <1>6 DEF Closing, SameCall
    <2> QED
      BY <1>1, <1>2, <1>3, <1>4, <1>5, <1>6, <2>1, ClosingStep DEF locks
  <1>7. CASE ~Closing(call[t])
    <2>1. Outside(call'[t])
      BY <1>1, <1>4, <1>5, <1>7 DEF Closing, SameCall, Outside, ReadsGroup, WritesGroup, Publication,
                                    PressurePass, TickOf, Route
    <2> QED
      BY <1>1, <1>2, <1>3, <1>4, <1>5, <2>1, ClosingStep DEF locks
  <1> QED
    BY <1>6, <1>7

LEMMA AwaitSchedulerKeeps == ASSUME IInv, NEW t \in Actors, AwaitScheduler(t) PROVE IInv'
  <1> DEFINE pc == IF call[t].todo = {} THEN "announce" ELSE "closeGate"
  <1>1. /\ Types /\ Route(call[t]) /\ call[t].pc = "join" /\ Goto(t, pc) /\ UNCHANGED locks
        /\ pc \in Positions
    BY DEF IInv, Local, AwaitScheduler, Positions
  <1>2. SameData
    BY DataNumbers DEF SameData, AwaitScheduler, group, history
  <1>3. LocksKept(t)
    BY <1>1, SameLocks
  <1>4. /\ SameCall(t) /\ call'[t].number = call[t].number
        /\ call'[t].pc = pc /\ call'[t].todo = call[t].todo
    <2> HIDE DEF pc
    <2> QED
      BY <1>1, GotoMoves
  <1>5. Route(call'[t])
    BY <1>1, <1>4 DEF Route, SameCall
  <1>6. CASE Closing(call[t])
    <2>1. Closing(call'[t]) /\ call'[t].pc # "finishClose"
      BY <1>1, <1>4, <1>6 DEF Closing, SameCall
    <2> QED
      BY <1>1, <1>2, <1>3, <1>4, <1>5, <1>6, <2>1, ClosingStep DEF locks
  <1>7. CASE ~Closing(call[t])
    <2>1. Outside(call'[t])
      BY <1>1, <1>4, <1>5, <1>7 DEF Closing, SameCall, Outside, ReadsGroup, WritesGroup, Publication,
                                    PressurePass, TickOf, Route
    <2> QED
      BY <1>1, <1>2, <1>3, <1>4, <1>5, <2>1, ClosingStep DEF locks
  <1> QED
    BY <1>6, <1>7

LEMMA AnnounceGateKeeps == ASSUME IInv, NEW t \in Actors, AnnounceGate(t) PROVE IInv'
  <1> DEFINE p == First(call[t].todo)
  <1>1. /\ Types /\ Route(call[t]) /\ call[t].pc = "closeGate"
        /\ Announced(t, p) /\ Goto(t, "closePartition") /\ "closePartition" \in Positions
        /\ UNCHANGED <<readers, controllerMu, cycle, inside>>
    BY DEF IInv, Local, AnnounceGate, Positions
  <1>2. SameData
    BY DataNumbers DEF SameData, AnnounceGate, group, history
  <1>3. p \in Partitions /\ p \in Gates /\ p # Group
    BY <1>1, FirstPartition, Constants DEF Route
  <1>4. LocksKept(t) /\ writer'[Group] = writer[Group]
    BY <1>1, <1>3, AnnouncedLocks
  <1>5. /\ SameCall(t) /\ call'[t].number = call[t].number
        /\ call'[t].pc = "closePartition" /\ call'[t].todo = call[t].todo
    BY <1>1, GotoMoves
  <1>6. Route(call'[t])
    BY <1>1, <1>5 DEF Route, SameCall
  <1>7. CASE Closing(call[t])
    <2>1. Closing(call'[t])
      BY <1>1, <1>5, <1>7 DEF Closing, SameCall
    <2> QED
      BY <1>1, <1>2, <1>4, <1>5, <1>6, <1>7, <2>1, ClosingStep
  <1>8. CASE ~Closing(call[t])
    <2>1. Outside(call'[t])
      BY <1>1, <1>5, <1>6, <1>8 DEF Closing, SameCall, Outside, ReadsGroup, WritesGroup, Publication,
                                    PressurePass, TickOf, Route
    <2> QED
      BY <1>1, <1>2, <1>4, <1>5, <1>6, <2>1, ClosingStep
  <1> QED
    BY <1>7, <1>8

LEMMA BeginCloseKeeps == ASSUME IInv, NEW t \in Actors, BeginClose(t) PROVE IInv'
  <1>1. /\ Types /\ Route(call[t]) /\ call[t].pc = "locked" /\ call[t].op = "close" /\ Alone(t)
        /\ UNCHANGED <<generation, runtime, partitionLifecycle, budget, pressure, poolClosed,
                       poolBudget, leases, publications, required, rejected>>
    BY DEF IInv, Local, BeginClose, Locked, WriteLocked, Alone, partitions, history
  <1>2. CASE Released(t) /\ UNCHANGED lifecycle
    <2>1. SameData
      BY <1>1, <1>2, DataNumbers DEF SameData, partitions
    <2> QED
      BY <1>1, <1>2, <2>1, ReleasedStep
  <1>3. CASE lifecycle' = "closing" /\ Each(t, "stop", Partitions) /\ UNCHANGED locks
    <2>1. /\ SameCall(t) /\ call'[t].number = call[t].number
          /\ call'[t].pc = "stop" /\ call'[t].todo = Partitions
      <3>1. Partitions \in SUBSET Nat /\ "stop" \in Positions
        BY Constants DEF Positions
      <3> QED
        BY <1>1, <1>3, <3>1, EachMoves
    <2>2. LocksKept(t)
      BY <1>1, <1>3, SameLocks
    <2>3. Route(call'[t]) /\ Closing(call'[t])
      BY <1>1, <2>1, Constants DEF Route, Closing, SameCall
    <2>4. Local(t)'
      BY <1>1, <1>3, <2>1, <2>3, ClosingIsLocal DEF Alone, locks
    <2>5. Guarded(t) /\ Numbered(t)
      BY <1>1, <2>1 DEF Guarded, Numbered
    <2>6. DataTypes'
      BY <1>1, <1>3, TypesSplit DEF DataTypes
    <2>7. (Publishing = {})' => AllReached'
      BY <1>1, <2>1, <2>5, ReachedStay DEF SameCall, Becomes, OthersKept
    <2>8. PressureReachedPartitions'
      BY <1>1 DEF IInv, Reached, PressureReachedPartitions
    <2>9. lifecycle' # "closed"
      BY <1>3
    <2> QED
      BY <2>1, <2>2, <2>4, <2>5, <2>6, <2>7, <2>8, <2>9, StepKeeps DEF SameCall
  <1> QED
    BY <1>2, <1>3 DEF BeginClose

LEMMA ClosePartitionKeeps == ASSUME IInv, NEW t \in Actors, ClosePartition(t) PROVE IInv'
  <1> DEFINE p == First(call[t].todo)
  <1>1. /\ Types /\ Route(call[t]) /\ call[t].pc = "closePartition"
        /\ WriteLocked(t, p) /\ partitionLifecycle' = [partitionLifecycle EXCEPT ![p] = "closed"]
        /\ poolClosed' = [q \in Pools |-> PoolOwner[q] = p \/ poolClosed[q]]
        /\ UNCHANGED <<lifecycle, generation, runtime, budget, pressure, poolBudget, leases,
                       publications, required, rejected>>
    BY DEF IInv, Local, ClosePartition, group, history
  <1>2. p \in call[t].todo /\ p \in Partitions /\ p \in Gates /\ p # Group
    BY <1>1, FirstPartition, Constants DEF Route
  <1>3. /\ partitionLifecycle' \in [Partitions -> {"active", "closed"}]
        /\ partitionLifecycle'[p] = "closed"
        /\ \A k \in Partitions \ {p} : partitionLifecycle'[k] = partitionLifecycle[k]
    BY <1>1, <1>2 DEF Types
  <1>4. /\ poolClosed' \in [Pools -> BOOLEAN]
        /\ \A q \in Pools : poolClosed[q] \/ PoolOwner[q] = p => poolClosed'[q]
    BY <1>1 DEF Types
  <1>5. ASSUME NEW k \in Partitions, k = p PROVE ClosedPartition(k)'
    BY <1>3, <1>4, <1>5 DEF ClosedPartition, PoolsOf
  <1>6. Guarded(t)
    BY <1>1, <1>3, <1>4 DEF Guarded, WriteLocked
  <1>7. DataTypes'
    BY <1>1, <1>3, <1>4, TypesSplit DEF DataTypes
  <1>8. PressureReachedPartitions'
    BY <1>1 DEF IInv, Reached, PressureReachedPartitions
  <1>9. lifecycle' = "closed" => \A k \in Partitions : ClosedPartition(k)'
    BY <1>1, <1>6, ClosedStaysClosed DEF IInv, Reached
  <1>10. ASSUME LocksKept(t), Becomes(t, call'[t]), Local(t)',
                call'[t].number = 0 \/ call'[t].number = call[t].number
         PROVE  IInv'
    <2>1. Numbered(t)
      BY <1>1, <1>10 DEF Numbered
    <2>2. (Publishing = {})' => AllReached'
      BY <1>1, <1>10, <2>1, ReachedStay DEF Becomes, OthersKept
    <2> QED
      BY <1>6, <1>7, <1>8, <1>9, <1>10, <2>1, <2>2, StepKeeps
  <1>11. CASE call[t].op = "closePartition" /\ Released(t)
    <2>1. Becomes(t, NoCall) /\ LocksKept(t)
      BY <1>1, <1>11, BecomesReleased, ReleasedLocks
    <2>2. Local(t)'
      BY <2>1, NoCallIsOutside, OutsideIsLocal DEF Becomes
    <2>3. Becomes(t, call'[t]) /\ call'[t].number = 0
      BY <2>1, NoCallFields DEF Becomes
    <2> QED
      BY <1>10, <2>1, <2>2, <2>3
  <1>12. CASE /\ call[t].op # "closePartition"
              /\ writer' = [writer EXCEPT ![p] = NoThread]
              /\ call' = [call EXCEPT ![t].todo = @ \ {p},
                            ![t].pc = IF call[t].todo = {p} THEN "finishClose" ELSE "stop"]
              /\ UNCHANGED <<readers, controllerMu, cycle, inside>>
    <2> DEFINE pc == IF call[t].todo = {p} THEN "finishClose" ELSE "stop"
               c == [call[t] EXCEPT !.todo = call[t].todo \ {p}, !.pc = pc]
    <2>1. call \in [Actors -> CallType] /\ call[t] \in CallType /\ pc \in Positions
      BY <1>1, CallIsTyped DEF Positions
    <2>2. /\ c \in CallType /\ c.pc = pc /\ c.todo = call[t].todo \ {p}
          /\ c.number = call[t].number /\ c.op = call[t].op /\ c.at = call[t].at
      <3> HIDE DEF pc
      <3> QED
        BY <2>1 DEF CallType
    <2>3. call' = [call EXCEPT ![t] = c]
      <3> HIDE DEF p
      <3> QED
        BY <1>12, <2>1
    <2>4. Becomes(t, c)
      <3> HIDE DEF c
      <3> QED
        BY <1>1, <2>2, <2>3, BecomesExcept
    <2>5. /\ call'[t].pc = pc /\ call'[t].todo = call[t].todo \ {p} /\ call'[t].op = call[t].op
          /\ call'[t].number = call[t].number /\ Becomes(t, call'[t])
      <3> HIDE DEF c
      <3> QED
        BY <2>2, <2>4 DEF Becomes
    <2>6. call[t].op = "close" /\ Closing(call[t])
      BY <1>1, <1>12 DEF Route, Closing
    <2>7. /\ writer[Group] = t /\ readers[Group] = {} /\ lifecycle = "closing"
          /\ \A k \in Partitions : k \notin call[t].todo => ClosedPartition(k)
      BY <2>6, ClosingHolds
    <2>8. writer'[Group] = writer[Group] /\ LocksKept(t)
      <3>1. LockTypes /\ Group \in Gates
        BY <1>1, TypesSplit DEF Gates
      <3>2. LockTypes'
        BY <1>12, <3>1 DEF LockTypes
      <3>3. writer'[Group] = writer[Group]
        BY <1>2, <1>12, <3>1 DEF LockTypes
      <3> QED
        BY <1>12, <3>2, <3>3 DEF LocksKept
    <2>9. Route(call'[t]) /\ Closing(call'[t])
      <3>1. call[t].todo \subseteq Partitions
        BY <1>1 DEF Route
      <3>2. call'[t].todo \subseteq Partitions /\ (call'[t].pc = "stop" => call'[t].todo # {})
        BY <1>2, <2>5, <3>1
      <3>3. call'[t].pc \in {"finishClose", "stop"} /\ call'[t].op = "close"
        BY <2>5, <2>6
      <3> QED
        BY <3>2, <3>3 DEF Route, Closing
    <2>10. \A k \in Partitions :
              call'[t].pc = "finishClose" \/ k \notin call'[t].todo => ClosedPartition(k)'
      <3>1. ASSUME NEW k \in Partitions, call'[t].pc = "finishClose" \/ k \notin call'[t].todo
            PROVE  ClosedPartition(k)'
        <4>1. k = p \/ k \notin call[t].todo
          BY <2>5, <3>1
        <4>2. k \notin call[t].todo => ClosedPartition(k)'
          BY <1>1, <1>6, <2>7, ClosedStaysClosed
        <4> QED
          BY <1>5, <4>1, <4>2
      <3> QED
        BY <3>1
    <2>11. Local(t)'
      BY <1>1, <1>12, <2>7, <2>8, <2>9, <2>10, ClosingIsLocal
    <2> QED
      BY <1>10, <2>5, <2>8, <2>11
  <1> QED
    BY <1>11, <1>12 DEF ClosePartition

LEMMA FinishCloseKeeps == ASSUME IInv, NEW t \in Actors, FinishClose(t) PROVE IInv'
  <1>1. /\ Types /\ Route(call[t]) /\ call[t].pc = "finishClose" /\ Released(t)
        /\ lifecycle' = "closed" /\ generation' = generation + 1
        /\ UNCHANGED <<runtime, partitionLifecycle, budget, pressure, poolClosed,
                       poolBudget, leases, publications, required, rejected>>
    BY DEF IInv, Local, FinishClose, partitions, history
  <1>2. Closing(call[t])
    BY <1>1 DEF Route, Closing
  <1>3. /\ writer[Group] = t /\ readers[Group] = {}
        /\ \A p \in Partitions : ClosedPartition(p)
    BY <1>1, <1>2, ClosingHolds
  <1>4. Becomes(t, NoCall) /\ LocksKept(t)
    BY <1>1, BecomesReleased, ReleasedLocks
  <1>5. Local(t)'
    BY <1>4, NoCallIsOutside, OutsideIsLocal DEF Becomes
  <1>6. call'[t].number = 0
    BY <1>4, NoCallFields DEF Becomes
  <1>7. Guarded(t) /\ Numbered(t)
    BY <1>1, <1>3, <1>6 DEF Guarded, Alone, Numbered
  <1>8. DataTypes'
    BY <1>1, TypesSplit, DataNumbers DEF DataTypes
  <1>9. (Publishing = {})' => AllReached'
    BY <1>1, <1>4, <1>7, ReachedStay DEF Becomes, OthersKept
  <1>10. PressureReachedPartitions' /\ \A p \in Partitions : ClosedPartition(p)'
    BY <1>1, <1>3 DEF IInv, Reached, PressureReachedPartitions, ClosedPartition
  <1> QED
    BY <1>4, <1>5, <1>7, <1>8, <1>9, <1>10, StepKeeps

LEMMA DrainPoolKeeps == ASSUME IInv, NEW t \in Actors, DrainPool(t) PROVE IInv'
  <1>1. SameData /\ Released(t) /\ call[t].pc = "drain"
    BY DataNumbers DEF SameData, DrainPool, group, history
  <1> QED
    BY <1>1, ReleasedStep

-----------------------------------------------------------------------------
(* The invariant *)

LEMMA StepsKeep == ASSUME IInv, NEW t \in Actors, Step(t) PROVE IInv'
  BY EnterGroupKeeps, EnterPartitionKeeps, WorkKeeps, EvaluateKeeps, ApplyBudgetKeeps,
     TickControllerKeeps, TickPublishKeeps, AdmitPoolKeeps, AnnounceKeeps, PlanPolicyKeeps,
     AdmitPartitionKeeps, LockControllerKeeps, PlanApplicationsKeeps, PublishPolicyKeeps,
     ApplyPolicyKeeps, AttemptPressureKeeps, PressPartitionKeeps, PublishPressureKeeps,
     StopSchedulerKeeps, AwaitSchedulerKeeps, BeginCloseKeeps, AnnounceGateKeeps,
     ClosePartitionKeeps, FinishCloseKeeps, DrainPoolKeeps
     DEF Step

LEMMA StutteringKeeps == ASSUME IInv, UNCHANGED vars PROVE IInv'
  <1>1. /\ UNCHANGED <<lifecycle, generation, runtime, readers, writer, controllerMu, inside>>
        /\ UNCHANGED <<partitionLifecycle, budget, pressure, poolClosed, poolBudget, leases, call,
                       publications, required, rejected>>
    BY DEF vars, group, locks, partitions, history
  <1>2. Types'
    BY <1>1 DEF IInv, Types
  <1>3. Bounded'
    BY <1>1 DEF IInv, Bounded
  <1>4. Reached'
    BY <1>1 DEF IInv, Reached, PolicyReachesAllOrNone, PressureReachedPartitions, Publishing,
                ClosedPartition
  <1>5. ASSUME NEW t \in Actors PROVE Local(t)'
    <2>1. Local(t)
      BY DEF IInv
    <2>2. Route(call'[t]) /\ Holds(t)' /\ Secured(t)'
      BY <1>1, <2>1 DEF Local, Holds, Secured
    <2>3. Fresh(t)' /\ LiveNumber(t)'
      BY <1>1, <2>1 DEF Local, Fresh, LiveNumber
    <2>4. Passed(t)'
      BY <1>1, <2>1 DEF Local, Passed, ClosedPartition
    <2> QED
      BY <2>2, <2>3, <2>4 DEF Local
  <1> QED
    BY <1>2, <1>3, <1>4, <1>5 DEF IInv

LEMMA Initially == Init => IInv
  <1> SUFFICES ASSUME Init PROVE IInv
    OBVIOUS
  <1>1. PICK policy \in Policies : runtime = [generation |-> 1, policy |-> policy, pressure |-> 0]
    BY DEF Init
  <1>2. NoCall \in CallType
    BY NoCallType
  <1>3. \A t \in Actors : call[t] = NoCall
    BY DEF Init
  <1>4. Types
    BY <1>1, <1>2 DEF Init, Types, Gates
  <1>5. Bounded
    BY <1>1, <1>3, NoCallFields DEF Init, Bounded
  <1>6. Reached
    BY <1>1 DEF Init, Reached, PolicyReachesAllOrNone, PressureReachedPartitions
  <1>7. ASSUME NEW t \in Actors PROVE Local(t)
    <2>1. Route(call[t]) /\ ~ReadsGroup(call[t]) /\ ~WritesGroup(call[t])
          /\ \A p \in Partitions : ~TickOf(call[t], p)
      BY <1>3, NoCallIsOutside DEF Outside
    <2>2. ~Publication(call[t]) /\ ~PressurePass(call[t]) /\ ~Closing(call[t])
          /\ call[t].pc \notin {"apply", "applyPolicy"}
      BY <2>1 DEF WritesGroup, ReadsGroup, Publication
    <2>3. \A p \in Partitions : ~InGate(call[t], p) /\ ~HasController(call[t], p)
      BY <2>1, <2>2 DEF InGate, HasController
    <2>4. Holds(t) /\ Secured(t)
      BY <2>1, <2>2, <2>3 DEF Holds, Secured
    <2>5. Fresh(t) /\ LiveNumber(t) /\ Passed(t)
      BY <2>1, <2>2 DEF Fresh, Pending, LiveNumber, Live, Passed, PressurePass
    <2> QED
      BY <2>1, <2>4, <2>5 DEF Local
  <1> QED
    BY <1>4, <1>5, <1>6, <1>7 DEF IInv

(* Every lock is held by those whose position says so, and numbers, budgets and        *)
(* pressure are as far as their publications have come.                               *)
THEOREM Inductive == Spec => []IInv
  <1>1. IInv /\ [Next]_vars => IInv'
    <2>1. SUFFICES ASSUME IInv, [Next]_vars PROVE IInv'
      OBVIOUS
    <2>2. CASE \E t \in Threads : Call(t)
      BY <2>1, <2>2, CallsKeep
    <2>3. CASE SchedulerTick \/ \E p \in Partitions : PartitionTick(p)
      BY <2>1, <2>3, TicksBegin
    <2>4. CASE \E t \in Actors : Step(t)
      BY <2>1, <2>4, StepsKeep
    <2>5. CASE Rest \/ UNCHANGED vars
      BY <2>1, <2>5, StutteringKeeps DEF Rest
    <2> QED
      BY <2>1, <2>2, <2>3, <2>4, <2>5 DEF Next
  <1> QED
    BY <1>1, Initially, PTL DEF Spec

-----------------------------------------------------------------------------
(* Results *)

(* An accepted policy reaches every partition and Pool of the group, whatever else    *)
(* runs at the time; one that is rejected reaches none.                               *)
THEOREM PolicyReachesEverybody == Spec => []PolicyReachesAllOrNone
  <1>1. IInv => PolicyReachesAllOrNone
    BY DEF IInv, Reached
  <1> QED
    BY <1>1, Inductive, PTL

(* The pressure a group shows has reached all its partitions.                         *)
THEOREM PressureReachesEverybody == Spec => []PressureReachedPartitions
  <1>1. IInv => PressureReachedPartitions
    BY DEF IInv, Reached
  <1> QED
    BY <1>1, Inductive, PTL

(* What a step of a closed group still does *)
Final ==
    /\ \A p \in Partitions : partitionLifecycle[p] = "closed"
    /\ \A q \in Pools : poolClosed[q]
    /\ leases' <= leases
    /\ UNCHANGED <<group, budget, pressure, poolBudget>>

LEMMA NobodyIsInside ==
    ASSUME IInv, lifecycle = "closed", NEW t \in Actors
    PROVE  /\ ~Publication(call[t]) /\ ~PressurePass(call[t]) /\ ~Closing(call[t])
           /\ call[t].pc \notin {"evaluate", "apply", "tickPublish", "finishClose"}
           /\ call[t].pc = "work" => call[t].op = "release"
  <1>1. Secured(t) /\ Route(call[t])
    BY DEF IInv, Local
  <1>2. ~Publication(call[t]) /\ ~PressurePass(call[t]) /\ ~Closing(call[t])
        /\ (ReadsGroup(call[t]) => call[t].op = "release")
    BY <1>1 DEF Secured
  <1>3. \A p \in Partitions : ~TickOf(call[t], p)
    BY <1>1 DEF Secured, IInv, Reached, ClosedPartition
  <1>4. call[t].pc \notin {"evaluate", "apply"}
    BY <1>1, <1>2 DEF ReadsGroup, Route
  <1>5. call[t].pc # "tickPublish"
    BY <1>1, <1>3 DEF TickOf, Route
  <1>6. call[t].pc # "finishClose"
    BY <1>1, <1>2 DEF Closing, Route
  <1>7. call[t].pc = "work" => call[t].op = "release"
    BY <1>1, <1>2 DEF ReadsGroup, Route
  <1> QED
    BY <1>2, <1>4, <1>5, <1>6, <1>7

LEMMA ClosedStepIsFinal ==
    ASSUME IInv, [Next]_vars, lifecycle = "closed" PROVE Final
  <1>1. \A p \in Partitions : ClosedPartition(p)
    BY DEF IInv, Reached
  <1>2. \A p \in Partitions : partitionLifecycle[p] = "closed"
    BY <1>1 DEF ClosedPartition
  <1>3. \A q \in Pools : poolClosed[q]
    BY <1>1, Constants DEF ClosedPartition, PoolsOf
  <1>4. leases \in Nat
    BY DataNumbers
  <1> DEFINE Kept == leases' <= leases /\ UNCHANGED <<group, budget, pressure, poolBudget>>
  <1>5. ASSUME UNCHANGED vars \/ Rest PROVE Kept
    BY <1>4, <1>5 DEF vars, group, partitions, Rest
  <1>6. ASSUME \E t \in Threads : Call(t) PROVE Kept
    <2>1. PICK t \in Threads : Call(t)
      BY <1>6
    <2>2. ASSUME NEW op, NEW pc, NEW at, NEW policy, Begin(t, op, pc, at, policy)
          PROVE  UNCHANGED <<leases, group, budget, pressure, poolBudget>>
      BY <2>2 DEF Begin, partitions
    <2>3. UNCHANGED <<leases, group, budget, pressure, poolBudget>>
      BY <2>1, <2>2 DEF Call, StartAcquire, StartRelease, StartClosePartition, StartClosePool,
                        StartPolicy, StartTick, StartPressure, StartClose, partitions
    <2> QED
      BY <1>4, <2>3
  <1>7. ASSUME SchedulerTick \/ \E p \in Partitions : PartitionTick(p) PROVE Kept
    <2>1. UNCHANGED <<leases, group, budget, pressure, poolBudget>>
      BY <1>7 DEF SchedulerTick, StartTick, PartitionTick, Begin, partitions
    <2> QED
      BY <1>4, <2>1
  <1>8. ASSUME NEW t \in Actors, Step(t) PROVE Kept
    <2>1. /\ call[t].pc \notin {"admitPartitions", "lockControllers", "plan", "publish", "applyPolicy",
                                "press", "pressed", "evaluate", "apply", "tickPublish", "finishClose"}
          /\ call[t].pc = "work" => call[t].op = "release"
      BY NobodyIsInside DEF Publication, PressurePass
    <2>2. ~AllowsWork(lifecycle)
      BY DEF AllowsWork
    <2>3. CASE Work(t)
      <3>1. leases' \in {leases, leases - 1} /\ UNCHANGED <<group, budget, pressure, poolBudget>>
        BY <2>1, <2>3 DEF Work, partitions
      <3> QED
        BY <1>4, <3>1
    <2>4. CASE EnterGroup(t) \/ EnterPartition(t) \/ TickController(t) \/ AdmitPool(t) \/ Announce(t)
      BY <1>4, <2>4 DEF EnterGroup, EnterPartition, TickController, AdmitPool, Announce, partitions
    <2>5. CASE PlanPolicy(t) \/ AttemptPressure(t)
      BY <1>4, <2>2, <2>5 DEF PlanPolicy, AttemptPressure, partitions
    <2>6. CASE StopScheduler(t) \/ AwaitScheduler(t) \/ AnnounceGate(t) \/ DrainPool(t)
      BY <1>4, <2>6 DEF StopScheduler, AwaitScheduler, AnnounceGate, DrainPool, partitions
    <2>7. CASE BeginClose(t)
      BY <1>4, <2>7 DEF BeginClose, partitions, group
    <2>8. CASE ClosePartition(t)
      BY <1>4, <2>8 DEF ClosePartition
    <2> QED
      BY <1>8, <2>1, <2>3, <2>4, <2>5, <2>6, <2>7, <2>8
         DEF Step, Evaluate, ApplyBudget, TickPublish, AdmitPartition, LockController,
             PlanApplications, PublishPolicy, ApplyPolicy, PressPartition, PublishPressure,
             FinishClose
  <1>9. Kept
    BY <1>5, <1>6, <1>7, <1>8 DEF Next
  <1> QED
    BY <1>2, <1>3, <1>9 DEF Final

(* Once a group is closed its partitions and Pools are, and no call that was under   *)
(* way acquires or publishes anything more.                                          *)
THEOREM ClosedForGood == Spec => CloseIsFinal
  <1>1. IInv /\ [Next]_vars => [lifecycle = "closed" => Final]_vars
    BY ClosedStepIsFinal
  <1>2. [lifecycle = "closed" => Final]_vars =>
        [lifecycle = "closed" =>
          /\ \A p \in Partitions : partitionLifecycle[p] = "closed"
          /\ \A q \in Pools : poolClosed[q]
          /\ leases' <= leases
          /\ UNCHANGED <<group, budget, pressure, poolBudget>>]_vars
    BY DEF Final
  <1> QED
    BY <1>1, <1>2, Inductive, PTL DEF Spec, CloseIsFinal

=============================================================================
