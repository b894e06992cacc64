------------------------ MODULE LeaseRegistry_proofs -------------------------
(* Leases for any number of goroutines, backing arrays, classes and leases: no     *)
(* memory has two holders in strict mode, what the Pool keeps fits its class, a    *)
(* lease can be ended by its own slice, and none appears after Close.             *)
EXTENDS LeaseRegistry, SumTheorems

AnySlice == Slice \cup {Nil}
Kinds == {"none", "invalid", "double", "foreign", "growth"}
Positions == {"idle", "get", "register", "rollback", "attempt", "handoff", "success",
              "closed", "refused", "invalid", "double", "foreign", "growth"}

(* The part of TypeOK that the ownership of buffers depends on, and the rest *)
Types ==
    /\ mode \in {"strict", "accounting"}
    /\ record \in [LeaseIDs -> [state : {"none", "active", "released"}, slice : AnySlice,
                                requested : Nat, origin : Nat, violation : Kinds]]
    /\ task \in [Threads -> [pc : Positions, slice : AnySlice, class : Nat]]
    /\ retained \in [ClassSizes -> Seq(Slice)]
    /\ \A c \in ClassSizes : Len(retained[c]) <= SlotLimit

OtherTypes ==
    /\ registryOpen \in BOOLEAN /\ poolOpen \in BOOLEAN
    /\ nextID \in Nat /\ generation \in Nat
    /\ counters \in [DOMAIN NoCounts -> Int]
    /\ backing \in [Bases -> Nat]

(* A slice on its way to or from class c *)
Fits(slice, c) ==
    /\ c \in ClassSizes /\ slice \in Slice
    /\ slice.capacity <= MaxReturnedCapacity(c)
    /\ mode = "strict" => slice.capacity = c

Serves(slice, c) == Fits(slice, c) /\ c <= slice.capacity

(* Every slice fits the class it belongs to wherever it is: the class that keeps    *)
(* it, the class recorded by its lease, or the class a goroutine carries it for.  *)
StoredFit == \A c \in ClassSizes : \A i \in DOMAIN retained[c] : Serves(retained[c][i], c)
LeasedFit == \A id \in LeaseIDs : Active(id) => Fits(record[id].slice, record[id].origin)
CarriedFit ==
    \A t \in Threads :
        /\ task[t].pc = "get" => task[t].class \in ClassSizes
        /\ task[t].pc \in {"register", "rollback"} => Serves(task[t].slice, task[t].class)
        /\ task[t].pc \in {"attempt", "handoff"} => Fits(task[t].slice, task[t].class)

SlicesFit == StoredFit /\ LeasedFit /\ CarriedFit

(* What strict mode is for: one holder per array, of one kind.                    *)
AtMostOne(S) == \A x, y \in S : x = y

Exclusive(b) ==
    /\ AtMostOne(Leases(b)) /\ AtMostOne(Carriers(b)) /\ AtMostOne(Stored(b))
    /\ Leases(b) = {} \/ Carriers(b) = {}
    /\ Leases(b) = {} \/ Stored(b) = {}
    /\ Carriers(b) = {} \/ Stored(b) = {}

OneHolder == mode = "strict" => \A b \in Bases : Exclusive(b)

IInv == Types /\ SlicesFit /\ OneHolder

-----------------------------------------------------------------------------
(* Operators *)

(* A set of naturals below a bound has a largest element. *)
LEMMA LargestExists ==
    ASSUME NEW S \in SUBSET Nat, NEW n \in Nat, S # {}, \A x \in S : x <= n
    PROVE  MaxOf(S) \in S /\ \A y \in S : y <= MaxOf(S)
  <1> DEFINE gaps == {k \in Nat : \E x \in S : k = n - x}
  <1>1. gaps \subseteq Nat /\ gaps # {}
    <2>1. PICK x \in S : TRUE
      OBVIOUS
    <2>2. n - x \in gaps
      <3>1. x \in Nat /\ x <= n
        OBVIOUS
      <3>2. n - x \in Nat
        BY <3>1
      <3> QED
        BY <3>2, <2>1
    <2> QED
      BY <2>2
  <1>2. PICK g \in gaps : \A k \in gaps : ~(<<k, g>> \in OpToRel(<, Nat))
    <2> HIDE DEF gaps
    <2> QED
      BY <1>1, NatLessThanWellFounded, WFMin
  <1>3. PICK m \in S : g = n - m
    OBVIOUS
  <1>4. ASSUME NEW y \in S PROVE y <= m
    <2>1. y \in Nat /\ m \in Nat /\ y <= n /\ m <= n
      BY <1>4
    <2>2. n - y \in gaps /\ n - y \in Nat /\ g \in Nat
      BY <2>1, <1>1
    <2>3. ~(n - y < g)
      BY <2>2, <1>2 DEF OpToRel
    <2> QED
      BY <2>1, <2>3, <1>3
  <1> QED
    BY <1>3, <1>4 DEF MaxOf

(* The class for a capacity that some class can serve is the largest such class. *)
LEMMA ClassOfCapacity ==
    ASSUME NEW n \in Nat, NEW c \in ClassSizes, c <= n
    PROVE  /\ ClassForCapacity(n) \in ClassSizes
           /\ ClassForCapacity(n) <= n /\ c <= ClassForCapacity(n)
  <1> DEFINE S == {d \in ClassSizes : d <= n}
  <1>1. S \in SUBSET Nat /\ c \in S /\ \A x \in S : x <= n
    BY LeaseAssumption
  <1>2. MaxOf(S) \in S /\ \A y \in S : y <= MaxOf(S)
    <2> HIDE DEF S
    <2> QED
      BY <1>1, LargestExists
  <1> QED
    BY <1>1, <1>2 DEF ClassForCapacity

(* The growth limit grows with the class. *)
LEMMA LimitGrows ==
    ASSUME NEW c \in Nat, NEW d \in Nat, c <= d
    PROVE  /\ MaxReturnedCapacity(c) \in Nat /\ MaxReturnedCapacity(d) \in Nat
           /\ c <= MaxReturnedCapacity(c)
           /\ MaxReturnedCapacity(c) <= MaxReturnedCapacity(d)
  <1>1. Growth \in Nat /\ Growth >= 1
    BY LeaseAssumption
  <1>2. ASSUME NEW g \in Nat, g >= 1
        PROVE  g * c \in Nat /\ g * d \in Nat /\ c <= g * c /\ g * c <= g * d
    BY <1>2
  <1> QED
    BY <1>1, <1>2 DEF MaxReturnedCapacity

LEMMA NilIsNoSlice == Nil \notin Slice /\ Nil \in AnySlice
  BY LeaseAssumption DEF Nil, Slice, AnySlice

LEMMA ViewsAreSlices ==
    ASSUME NEW slice \in Views \cup {Nil} PROVE slice \in AnySlice
  BY LeaseAssumption DEF Views, Slice, AnySlice

LEMMA ViolationKinds == Violations = {"invalid", "double", "foreign", "growth"}
  BY DEF Violations, ViolationCounts

LEMMA ResultKinds == DOMAIN ReturnCounts = {"success", "closed", "refused"}
  BY DEF ReturnCounts

(* Where a goroutine is after Goto *)
LEMMA AfterGoto ==
    ASSUME Types, NEW t \in Threads, NEW pc \in Positions, NEW slice \in AnySlice,
           NEW class \in Nat, Goto(t, pc, slice, class)
    PROVE  /\ task' \in [Threads -> [pc : Positions, slice : AnySlice, class : Nat]]
           /\ task'[t] = [pc |-> pc, slice |-> slice, class |-> class]
           /\ \A u \in Threads : u # t => task'[u] = task[u]
  BY DEF Goto, Types

-----------------------------------------------------------------------------
(* Types *)

LEMMA TypesInit == Init => Types
  <1> SUFFICES ASSUME Init PROVE Types
    OBVIOUS
  <1>1. record \in [LeaseIDs -> [state : {"none", "active", "released"}, slice : AnySlice,
                                 requested : Nat, origin : Nat, violation : Kinds]]
    BY NilIsNoSlice DEF Init, NoRecord, Kinds
  <1>2. task \in [Threads -> [pc : Positions, slice : AnySlice, class : Nat]]
    BY NilIsNoSlice DEF Init, Idle, Positions
  <1>3. /\ retained \in [ClassSizes -> Seq(Slice)]
        /\ \A c \in ClassSizes : Len(retained[c]) <= SlotLimit
    BY LeaseAssumption DEF Init
  <1> QED
    BY <1>1, <1>2, <1>3 DEF Init, Types

(* The Pool keeps one slice more, or what it had. *)
LEMMA TypesRetain ==
    ASSUME Types, NEW slice \in Slice, NEW c, Retain(slice, c)
    PROVE  /\ retained' \in [ClassSizes -> Seq(Slice)]
           /\ \A d \in ClassSizes : Len(retained'[d]) <= SlotLimit
  <1>1. retained' = [retained EXCEPT ![c] = Append(@, slice)] /\ Len(retained[c]) < SlotLimit
    BY DEF Retain, HasSlot
  <1>2. ASSUME NEW d \in ClassSizes
        PROVE  retained'[d] \in Seq(Slice) /\ Len(retained'[d]) <= SlotLimit
    <2>1. CASE d = c
      <3>1. retained[d] \in Seq(Slice) /\ retained'[d] = Append(retained[d], slice)
        BY <1>1, <2>1 DEF Types
      <3> QED
        BY <3>1, <1>1, <2>1, LeaseAssumption
    <2>2. CASE d # c
      BY <1>1, <2>2 DEF Types
    <2> QED
      BY <2>1, <2>2
  <1>3. retained' = [d \in ClassSizes |-> retained'[d]]
    BY <1>1 DEF Types
  <1> QED
    BY <1>2, <1>3

LEMMA TypesStep ==
    ASSUME Types, SlicesFit, [Next]_vars
    PROVE  Types'
  <1> USE DEF Types, Positions, Kinds
  <1>1. CASE UNCHANGED vars
    BY <1>1 DEF vars, lifecycles, counts
  <1>2. CASE CloseRegistry
    BY <1>2 DEF CloseRegistry
  <1>3. CASE ClosePool
    <2>1. CASE retained' = [c \in ClassSizes |-> <<>>]
      <3>1. \A c \in ClassSizes : retained'[c] = <<>> /\ <<>> \in Seq(Slice) /\ Len(<<>>) = 0
        BY <2>1
      <3>2. mode' = mode /\ record' = record /\ task' = task
        BY <1>3 DEF ClosePool
      <3> QED
        BY <2>1, <3>1, <3>2, LeaseAssumption
    <2>2. CASE UNCHANGED retained
      BY <1>3, <2>2 DEF ClosePool
    <2> QED
      BY <1>3, <2>1, <2>2 DEF ClosePool
  <1>4. ASSUME NEW t \in Threads, NEW c \in ClassSizes, StartAcquire(t, c) PROVE Types'
    BY <1>4, AfterGoto, NilIsNoSlice, LeaseAssumption DEF StartAcquire, lifecycles, counts
  <1>5. ASSUME NEW t \in Threads, PoolGet(t) PROVE Types'
    <2> DEFINE c == task[t].class
    <2>1. c \in ClassSizes /\ c \in Nat \ {0} /\ retained[c] \in Seq(Slice)
      BY <1>5, LeaseAssumption DEF PoolGet, SlicesFit, CarriedFit
    <2>2. mode' = mode /\ record' = record
      BY <1>5 DEF PoolGet, lifecycles
    <2>3. CASE Goto(t, "idle", Nil, 0) /\ UNCHANGED retained
      BY <2>2, <2>3, AfterGoto, NilIsNoSlice
    <2>4. CASE /\ retained[c] # <<>>
               /\ Goto(t, "register", retained[c][Len(retained[c])], c)
               /\ retained' = [retained EXCEPT ![c] = SubSeq(@, 1, Len(@) - 1)]
      <3>1. retained[c][Len(retained[c])] \in AnySlice
        BY <2>1, <2>4 DEF AnySlice
      <3>2. task' \in [Threads -> [pc : Positions, slice : AnySlice, class : Nat]]
        BY <2>1, <2>4, <3>1, AfterGoto
      <3>3. /\ SubSeq(retained[c], 1, Len(retained[c]) - 1) \in Seq(Slice)
            /\ Len(SubSeq(retained[c], 1, Len(retained[c]) - 1)) <= SlotLimit
        BY <2>1, <2>4, LeaseAssumption
      <3> QED
        BY <2>1, <2>2, <2>4, <3>2, <3>3
    <2>5. ASSUME NEW b \in Bases, Goto(t, "register", [base |-> b, capacity |-> c], c),
                 UNCHANGED retained
          PROVE  Types'
      <3>1. [base |-> b, capacity |-> c] \in AnySlice
        BY <2>1 DEF AnySlice, Slice
      <3> QED
        BY <2>1, <2>2, <2>5, <3>1, AfterGoto
    <2> QED
      BY <1>5, <2>3, <2>4, <2>5 DEF PoolGet
  <1>6. ASSUME NEW t \in Threads, Register(t) PROVE Types'
    <2> DEFINE slice == task[t].slice
    <2>1. mode' = mode /\ retained' = retained
      BY <1>6 DEF Register, lifecycles
    <2>2. /\ slice \in Slice /\ slice.capacity \in Nat
          /\ task[t].class \in ClassSizes /\ task[t].class <= slice.capacity
      BY <1>6 DEF Register, SlicesFit, CarriedFit, Serves, Fits, Slice
    <2>3. ClassForCapacity(slice.capacity) \in Nat
      BY <2>2, ClassOfCapacity, LeaseAssumption
    <2>4. CASE /\ record' = [record EXCEPT ![nextID + 1] =
                    [state |-> "active", slice |-> slice, requested |-> task[t].class,
                     origin |-> ClassForCapacity(slice.capacity), violation |-> "none"]]
               /\ Goto(t, "idle", Nil, 0)
      <3>1. [state |-> "active", slice |-> slice, requested |-> task[t].class,
             origin |-> ClassForCapacity(slice.capacity), violation |-> "none"]
               \in [state : {"none", "active", "released"}, slice : AnySlice,
                    requested : Nat, origin : Nat, violation : Kinds]
        BY <2>3
      <3>2. task' \in [Threads -> [pc : Positions, slice : AnySlice, class : Nat]]
        BY <2>4, AfterGoto, NilIsNoSlice
      <3> QED
        BY <2>1, <2>4, <3>1, <3>2
    <2>5. CASE /\ Goto(t, "rollback", slice, ClassForCapacity(slice.capacity))
               /\ UNCHANGED record
      BY <2>1, <2>3, <2>5, AfterGoto
    <2> QED
      BY <1>6, <2>4, <2>5 DEF Register
  <1>7. ASSUME NEW t \in Threads, Rollback(t) PROVE Types'
    <2>1. mode' = mode /\ record' = record /\ task[t].slice \in Slice
      BY <1>7 DEF Rollback, lifecycles, SlicesFit, CarriedFit, Serves, Fits
    <2>2. task' \in [Threads -> [pc : Positions, slice : AnySlice, class : Nat]]
      BY <1>7, AfterGoto, NilIsNoSlice DEF Rollback
    <2>3. /\ retained' \in [ClassSizes -> Seq(Slice)]
          /\ \A d \in ClassSizes : Len(retained'[d]) <= SlotLimit
      BY <1>7, <2>1, TypesRetain DEF Rollback
    <2> QED
      BY <2>1, <2>2, <2>3
  <1>8. ASSUME NEW t \in Threads, NEW id \in LeaseIDs, NEW slice \in Views \cup {Nil},
               Release(t, id, slice)
        PROVE  Types'
    <2>1. mode' = mode /\ retained' = retained
      BY <1>8 DEF Release, lifecycles
    <2>2. record' \in [LeaseIDs -> [state : {"none", "active", "released"}, slice : AnySlice,
                                    requested : Nat, origin : Nat, violation : Kinds]]
      <3>1. [NoRecord EXCEPT !.state = "released"]
               \in [state : {"none", "active", "released"}, slice : AnySlice,
                    requested : Nat, origin : Nat, violation : Kinds]
        BY NilIsNoSlice DEF NoRecord
      <3> QED
        BY <1>8, <3>1 DEF Release, Consumed
    <2>3. CanonicalReturnBuffer(id, slice) \in AnySlice /\ record[id].origin \in Nat
      BY ViewsAreSlices DEF CanonicalReturnBuffer
    <2>4. task' \in [Threads -> [pc : Positions, slice : AnySlice, class : Nat]]
      BY <1>8, <2>3, AfterGoto DEF Release
    <2> QED
      BY <2>1, <2>2, <2>4
  <1>9. ASSUME NEW t \in Threads, NEW v \in Positions \cap Kinds, Reject(t, v)
        PROVE  /\ mode' = mode /\ retained' = retained
               /\ task' \in [Threads -> [pc : Positions, slice : AnySlice, class : Nat]]
    BY <1>9, AfterGoto, NilIsNoSlice DEF Reject, lifecycles
  <1>10. ASSUME NEW t \in Threads, NEW id \in LeaseIDs, NEW slice \in Views \cup {Nil},
                RejectRelease(t, id, slice)
         PROVE  Types'
    <2>1. ~ValidRelease(id, slice) => Violation(id, slice) \in Positions \cap Kinds
      BY DEF Violation, ValidRelease
    <2>2. CASE Reject(t, "double") /\ UNCHANGED record
      BY <2>2, <1>9
    <2>3. CASE /\ Reject(t, Violation(id, slice)) /\ ~ValidRelease(id, slice)
               /\ record' = [record EXCEPT ![id].violation = Violation(id, slice)]
      BY <2>1, <2>3, <1>9
    <2> QED
      BY <1>10, <2>2, <2>3 DEF RejectRelease
  <1>11. ASSUME NEW t \in Threads, RejectLease(t) PROVE Types'
    BY <1>11, <1>9 DEF RejectLease
  <1>12. ASSUME NEW t \in Threads, CountViolation(t) \/ CountResult(t) PROVE Types'
    BY <1>12, AfterGoto, NilIsNoSlice DEF CountViolation, CountResult, lifecycles
  <1>13. ASSUME NEW t \in Threads, CountAttempt(t) PROVE Types'
    <2>1. task[t].slice \in AnySlice /\ task[t].class \in Nat
      OBVIOUS
    <2>2. task' \in [Threads -> [pc : Positions, slice : AnySlice, class : Nat]]
      BY <1>13, <2>1, AfterGoto DEF CountAttempt
    <2> QED
      BY <1>13, <2>2 DEF CountAttempt, lifecycles
  <1>14. ASSUME NEW t \in Threads, PutOwned(t) PROVE Types'
    <2>1. mode' = mode /\ record' = record /\ task[t].slice \in Slice
      BY <1>14 DEF PutOwned, lifecycles, SlicesFit, CarriedFit, Fits
    <2>2. Goto(t, "success", Nil, 0) \/ Goto(t, "refused", Nil, 0) \/ Goto(t, "closed", Nil, 0)
      <3>1. CASE poolOpen
        BY <1>14, <3>1, Zenon DEF PutOwned
      <3>2. CASE ~poolOpen
        BY <1>14, <3>2, Zenon DEF PutOwned
      <3> QED
        BY <3>1, <3>2
    <2>3. task' \in [Threads -> [pc : Positions, slice : AnySlice, class : Nat]]
      BY <2>2, AfterGoto, NilIsNoSlice
    <2>4. /\ retained' \in [ClassSizes -> Seq(Slice)]
          /\ \A d \in ClassSizes : Len(retained'[d]) <= SlotLimit
      BY <1>14, <2>1, TypesRetain DEF PutOwned
    <2> QED
      BY <2>1, <2>3, <2>4
  <1> QED
    BY <1>1, <1>2, <1>3, <1>4, <1>5, <1>6, <1>7, <1>8, <1>10, <1>11, <1>12, <1>13, <1>14
    DEF Next, Step

-----------------------------------------------------------------------------
(* Slices fit their classes *)

LEMMA ModeFixed == ASSUME [Next]_vars PROVE mode' = mode
  <1>1. ASSUME NEW t \in Threads, Step(t) PROVE UNCHANGED lifecycles
    <2>1. CASE \E c \in ClassSizes : StartAcquire(t, c)
      BY <2>1 DEF StartAcquire
    <2>2. CASE PoolGet(t) \/ Register(t) \/ Rollback(t)
      BY <2>2 DEF PoolGet, Register, Rollback
    <2>3. CASE \E id \in LeaseIDs, slice \in Views \cup {Nil} :
                  Release(t, id, slice) \/ RejectRelease(t, id, slice)
      BY <2>3 DEF Release, RejectRelease, Reject
    <2>4. CASE RejectLease(t) \/ CountViolation(t)
      BY <2>4 DEF RejectLease, Reject, CountViolation
    <2>5. CASE CountAttempt(t) \/ PutOwned(t) \/ CountResult(t)
      BY <2>5 DEF CountAttempt, PutOwned, CountResult
    <2> QED
      BY <1>1, <2>1, <2>2, <2>3, <2>4, <2>5 DEF Step
  <1> QED
    BY <1>1 DEF vars, lifecycles, Next, CloseRegistry, ClosePool

LEMMA FitsInit == Init => SlicesFit
  <1> SUFFICES ASSUME Init PROVE SlicesFit
    OBVIOUS
  <1>1. StoredFit
    BY DEF Init, StoredFit
  <1>2. LeasedFit
    BY DEF Init, LeasedFit, Active, NoRecord
  <1>3. CarriedFit
    BY DEF Init, CarriedFit, Idle
  <1> QED
    BY <1>1, <1>2, <1>3 DEF SlicesFit

(* What a goroutine gets to carry must fit; the others carry what they had. *)
LEMMA CarriedAfterGoto ==
    ASSUME Types, CarriedFit, mode' = mode,
           NEW t \in Threads, NEW pc \in Positions, NEW slice \in AnySlice,
           NEW class \in Nat, Goto(t, pc, slice, class),
           pc = "get" => class \in ClassSizes,
           pc \in {"register", "rollback"} => Serves(slice, class),
           pc \in {"attempt", "handoff"} => Fits(slice, class)
    PROVE  CarriedFit'
  <1> SUFFICES ASSUME NEW u \in Threads
               PROVE  /\ task'[u].pc = "get" => task'[u].class \in ClassSizes
                      /\ task'[u].pc \in {"register", "rollback"} =>
                            Serves(task'[u].slice, task'[u].class)
                      /\ task'[u].pc \in {"attempt", "handoff"} =>
                            Fits(task'[u].slice, task'[u].class)
    BY DEF CarriedFit, Serves, Fits
  <1>1. CASE u = t
    <2>1. task'[u] = [pc |-> pc, slice |-> slice, class |-> class]
      BY <1>1, AfterGoto
    <2> QED
      BY <2>1
  <1>2. CASE u # t
    <2>1. task'[u] = task[u]
      BY <1>2, AfterGoto
    <2> QED
      BY <2>1 DEF CarriedFit, Serves, Fits
  <1> QED
    BY <1>1, <1>2

LEMMA StoredAfterRetain ==
    ASSUME Types, StoredFit, mode' = mode,
           NEW slice \in Slice, NEW c, Fits(slice, c), Retain(slice, c)
    PROVE  StoredFit'
  <1>1. /\ retained' = [retained EXCEPT ![c] = Append(@, slice)]
        /\ c \in ClassSizes /\ Serves(slice, c)
    <2>1. slice.capacity \in Nat /\ c \in Nat
      BY LeaseAssumption DEF Fits, Slice
    <2> QED
      BY <2>1 DEF Retain, Fits, Serves, ClassAdmits
  <1> SUFFICES ASSUME NEW d \in ClassSizes, NEW i \in DOMAIN retained'[d]
               PROVE  Serves(retained'[d][i], d)
    BY DEF StoredFit, Serves, Fits
  <1>2. CASE d = c
    <2>1. /\ retained[c] \in Seq(Slice) /\ retained'[d] = Append(retained[c], slice)
          /\ i \in 1 .. Len(retained[c]) + 1
      BY <1>1, <1>2 DEF Types
    <2>2. retained'[d][i] = slice \/ (i \in DOMAIN retained[c] /\ retained'[d][i] = retained[c][i])
      BY <2>1
    <2> QED
      BY <1>1, <1>2, <2>2 DEF StoredFit
  <1>3. CASE d # c
    <2>1. retained'[d] = retained[d]
      BY <1>1, <1>3 DEF Types
    <2> QED
      BY <2>1 DEF StoredFit
  <1> QED
    BY <1>2, <1>3

LEMMA StoredStep ==
    ASSUME Types, SlicesFit, [Next]_vars
    PROVE  StoredFit'
  <1>1. mode' = mode
    BY ModeFixed
  <1>2. CASE UNCHANGED retained
    BY <1>1, <1>2 DEF SlicesFit, StoredFit, Serves, Fits
  <1>3. CASE ClosePool
    BY <1>1, <1>2, <1>3 DEF ClosePool, StoredFit
  <1>4. ASSUME NEW t \in Threads, PoolGet(t) PROVE StoredFit'
    <2> DEFINE c == task[t].class
    <2>1. c \in ClassSizes /\ retained[c] \in Seq(Slice)
      BY <1>4 DEF PoolGet, SlicesFit, CarriedFit, Types
    <2>2. CASE /\ retained[c] # <<>>
               /\ retained' = [retained EXCEPT ![c] = SubSeq(@, 1, Len(@) - 1)]
      <3>1. ASSUME NEW d \in ClassSizes, NEW i \in DOMAIN retained'[d]
            PROVE  i \in DOMAIN retained[d] /\ retained'[d][i] = retained[d][i]
        <4>1. CASE d = c
          <5>1. retained'[d] = SubSeq(retained[c], 1, Len(retained[c]) - 1)
            BY <2>1, <2>2, <4>1 DEF Types
          <5> QED
            BY <2>1, <2>2, <4>1, <5>1
        <4>2. CASE d # c
          BY <2>2, <4>2 DEF Types
        <4> QED
          BY <4>1, <4>2
      <3> QED
        BY <1>1, <3>1 DEF SlicesFit, StoredFit, Serves, Fits
    <2> QED
      BY <1>4, <1>2, <2>2 DEF PoolGet
  <1>5. ASSUME NEW t \in Threads, Rollback(t) PROVE StoredFit'
    <2>1. Fits(task[t].slice, task[t].class) /\ task[t].slice \in Slice
      BY <1>5 DEF Rollback, SlicesFit, CarriedFit, Serves, Fits
    <2> QED
      BY <1>1, <1>2, <1>5, <2>1, StoredAfterRetain DEF Rollback, SlicesFit
  <1>6. ASSUME NEW t \in Threads, PutOwned(t) PROVE StoredFit'
    <2>1. Fits(task[t].slice, task[t].class) /\ task[t].slice \in Slice
      BY <1>6 DEF PutOwned, SlicesFit, CarriedFit, Fits
    <2> QED
      BY <1>1, <1>2, <1>6, <2>1, StoredAfterRetain DEF PutOwned, SlicesFit
  <1> QED
    BY <1>2, <1>3, <1>4, <1>5, <1>6
    DEF Next, Step, vars, CloseRegistry, StartAcquire, Register, Release, RejectRelease,
        RejectLease, Reject, CountViolation, CountAttempt, CountResult

LEMMA LeasedStep ==
    ASSUME Types, SlicesFit, [Next]_vars
    PROVE  LeasedFit'
  <1>1. mode' = mode
    BY ModeFixed
  <1>2. ASSUME \A id \in LeaseIDs :
                  Active(id)' => /\ Active(id) /\ record'[id].slice = record[id].slice
                                 /\ record'[id].origin = record[id].origin
        PROVE  LeasedFit'
    BY <1>1, <1>2 DEF SlicesFit, LeasedFit, Fits
  <1>3. CASE UNCHANGED record
    BY <1>2, <1>3 DEF Active
  <1>4. ASSUME NEW t \in Threads, Register(t) PROVE LeasedFit'
    <2> DEFINE slice == task[t].slice
               class == ClassForCapacity(slice.capacity)
    <2>1. Serves(slice, task[t].class)
      BY <1>4 DEF Register, SlicesFit, CarriedFit
    <2>2. /\ slice.capacity \in Nat /\ task[t].class \in Nat /\ task[t].class \in ClassSizes
          /\ ClassSizes \subseteq Nat
      BY <2>1, LeaseAssumption DEF Serves, Fits, Slice
    <2>3. /\ class \in ClassSizes /\ class \in Nat
          /\ class <= slice.capacity /\ task[t].class <= class
      BY <2>1, <2>2, ClassOfCapacity DEF Serves
    <2>4. Fits(slice, class)
      <3>1. /\ MaxReturnedCapacity(task[t].class) \in Nat /\ MaxReturnedCapacity(class) \in Nat
            /\ MaxReturnedCapacity(task[t].class) <= MaxReturnedCapacity(class)
        BY <2>2, <2>3, LimitGrows
      <3>2. slice.capacity <= MaxReturnedCapacity(class)
        BY <2>1, <2>2, <3>1 DEF Serves, Fits
      <3>3. mode = "strict" => slice.capacity = class
        BY <2>1, <2>2, <2>3 DEF Serves, Fits
      <3> QED
        BY <2>1, <2>3, <3>2, <3>3 DEF Serves, Fits
    <2>5. CASE record' = [record EXCEPT ![nextID + 1] =
                [state |-> "active", slice |-> slice, requested |-> task[t].class,
                 origin |-> class, violation |-> "none"]]
      <3> SUFFICES ASSUME NEW id \in LeaseIDs, record'[id].state = "active"
                   PROVE  Fits(record'[id].slice, record'[id].origin)
        BY <1>1 DEF LeasedFit, Active, Fits
      <3>1. CASE id = nextID + 1
        <4>1. record'[id].slice = slice /\ record'[id].origin = class
          BY <2>5, <3>1 DEF Types
        <4> QED
          BY <2>4, <4>1
      <3>2. CASE id # nextID + 1
        <4>1. record'[id] = record[id]
          BY <2>5, <3>2 DEF Types
        <4> QED
          BY <4>1 DEF SlicesFit, LeasedFit, Active
      <3> QED
        BY <3>1, <3>2
    <2> QED
      BY <1>3, <1>4, <2>5 DEF Register
  <1>5. ASSUME NEW t \in Threads, NEW id \in LeaseIDs, NEW slice \in Views \cup {Nil},
               Release(t, id, slice)
        PROVE  LeasedFit'
    <2>1. ASSUME NEW other \in LeaseIDs, record'[other].state = "active"
          PROVE  record'[other] = record[other]
      <3>1. [NoRecord EXCEPT !.state = "released"].state = "released"
        BY DEF NoRecord
      <3>2. other # id
        BY <1>5, <2>1, <3>1 DEF Release, Consumed, Types
      <3> QED
        BY <1>5, <3>2 DEF Release, Consumed, Types
    <2> QED
      BY <1>2, <2>1 DEF Active
  <1>6. ASSUME NEW t \in Threads, NEW id \in LeaseIDs, NEW slice \in Views \cup {Nil},
               RejectRelease(t, id, slice)
        PROVE  LeasedFit'
    <2>1. CASE record' = [record EXCEPT ![id].violation = Violation(id, slice)]
      <3>1. ASSUME NEW other \in LeaseIDs
            PROVE  /\ record'[other].state = record[other].state
                   /\ record'[other].slice = record[other].slice
                   /\ record'[other].origin = record[other].origin
        BY <2>1 DEF Types
      <3> QED
        BY <1>2, <3>1 DEF Active
    <2> QED
      BY <1>3, <1>6, <2>1 DEF RejectRelease
  <1>7. ASSUME NEW t \in Threads, NEW c \in ClassSizes, StartAcquire(t, c) PROVE LeasedFit'
    BY <1>3, <1>7 DEF StartAcquire
  <1>8. ASSUME NEW t \in Threads, PoolGet(t) \/ Rollback(t) \/ PutOwned(t) PROVE LeasedFit'
    BY <1>3, <1>8 DEF PoolGet, Rollback, PutOwned
  <1>9. ASSUME NEW t \in Threads,
               RejectLease(t) \/ CountViolation(t) \/ CountAttempt(t) \/ CountResult(t)
        PROVE  LeasedFit'
    BY <1>3, <1>9 DEF RejectLease, CountViolation, CountAttempt, CountResult
  <1>10. CASE CloseRegistry \/ ClosePool \/ UNCHANGED vars
    BY <1>3, <1>10 DEF CloseRegistry, ClosePool, vars
  <1> QED
    BY <1>4, <1>5, <1>6, <1>7, <1>8, <1>9, <1>10 DEF Next, Step

LEMMA CarriedStep ==
    ASSUME Types, SlicesFit, [Next]_vars
    PROVE  CarriedFit'
  <1> USE DEF Positions, Kinds
  <1>1. mode' = mode /\ CarriedFit
    BY ModeFixed DEF SlicesFit
  <1>2. CASE UNCHANGED task
    BY <1>1, <1>2 DEF CarriedFit, Serves, Fits
  <1>3. ASSUME NEW t \in Threads, NEW pc \in Positions, Goto(t, pc, Nil, 0),
               pc \notin Carrying, pc # "get"
        PROVE  CarriedFit'
    BY <1>1, <1>3, CarriedAfterGoto, NilIsNoSlice DEF Carrying
  <1>4. ASSUME NEW t \in Threads, NEW c \in ClassSizes, StartAcquire(t, c) PROVE CarriedFit'
    BY <1>1, <1>4, CarriedAfterGoto, NilIsNoSlice, LeaseAssumption DEF StartAcquire
  <1>5. ASSUME NEW t \in Threads, PoolGet(t) PROVE CarriedFit'
    <2> DEFINE c == task[t].class
    <2>1. c \in ClassSizes /\ c \in Nat \ {0} /\ retained[c] \in Seq(Slice)
      BY <1>5, LeaseAssumption DEF PoolGet, SlicesFit, CarriedFit, Types
    <2>2. CASE Goto(t, "idle", Nil, 0)
      BY <1>3, <2>2 DEF Carrying
    <2>3. CASE retained[c] # <<>> /\ Goto(t, "register", retained[c][Len(retained[c])], c)
      <3>1. Serves(retained[c][Len(retained[c])], c)
        BY <2>1, <2>3 DEF SlicesFit, StoredFit
      <3>2. retained[c][Len(retained[c])] \in AnySlice
        BY <3>1 DEF Serves, Fits, AnySlice
      <3> QED
        BY <1>1, <2>1, <2>3, <3>1, <3>2, CarriedAfterGoto
    <2>4. ASSUME NEW b \in Bases, Goto(t, "register", [base |-> b, capacity |-> c], c)
          PROVE  CarriedFit'
      <3>1. [base |-> b, capacity |-> c] \in Slice /\ [base |-> b, capacity |-> c] \in AnySlice
        BY <2>1 DEF AnySlice, Slice
      <3>2. Serves([base |-> b, capacity |-> c], c)
        BY <2>1, <3>1, LimitGrows DEF Serves, Fits
      <3> QED
        BY <1>1, <2>1, <2>4, <3>1, <3>2, CarriedAfterGoto
    <2> QED
      BY <1>5, <2>2, <2>3, <2>4 DEF PoolGet
  <1>6. ASSUME NEW t \in Threads, Register(t) PROVE CarriedFit'
    <2> DEFINE slice == task[t].slice
               class == ClassForCapacity(slice.capacity)
    <2>1. Serves(slice, task[t].class) /\ slice \in AnySlice
      BY <1>6 DEF Register, SlicesFit, CarriedFit, Serves, Fits, AnySlice
    <2>2. /\ slice.capacity \in Nat /\ task[t].class \in Nat /\ task[t].class \in ClassSizes
          /\ ClassSizes \subseteq Nat
      BY <2>1, LeaseAssumption DEF Serves, Fits, Slice
    <2>3. /\ class \in ClassSizes /\ class \in Nat
          /\ class <= slice.capacity /\ task[t].class <= class
      BY <2>1, <2>2, ClassOfCapacity DEF Serves
    <2>4. Serves(slice, class)
      <3>1. /\ MaxReturnedCapacity(task[t].class) \in Nat /\ MaxReturnedCapacity(class) \in Nat
            /\ MaxReturnedCapacity(task[t].class) <= MaxReturnedCapacity(class)
        BY <2>2, <2>3, LimitGrows
      <3>2. slice.capacity <= MaxReturnedCapacity(class)
        BY <2>1, <2>2, <3>1 DEF Serves, Fits
      <3>3. mode = "strict" => slice.capacity = class
        BY <2>1, <2>2, <2>3 DEF Serves, Fits
      <3> QED
        BY <2>1, <2>3, <3>2, <3>3 DEF Serves, Fits
    <2>5. CASE Goto(t, "idle", Nil, 0)
      BY <1>3, <2>5 DEF Carrying
    <2>6. CASE Goto(t, "rollback", slice, class)
      BY <1>1, <2>1, <2>3, <2>4, <2>6, CarriedAfterGoto
    <2> QED
      BY <1>6, <2>5, <2>6 DEF Register
  <1>7. ASSUME NEW t \in Threads, NEW id \in LeaseIDs, NEW slice \in Views \cup {Nil},
               Release(t, id, slice)
        PROVE  CarriedFit'
    <2> DEFINE kept == CanonicalReturnBuffer(id, slice)
               origin == record[id].origin
    <2>1. /\ Violation(id, slice) = "none"
          /\ Fits(record[id].slice, origin) /\ origin \in Nat
      BY <1>7 DEF Release, ValidRelease, SlicesFit, LeasedFit, Types
    <2>2. slice \in Slice /\ slice.capacity <= MaxReturnedCapacity(origin)
      BY <2>1, ViewsAreSlices DEF Violation, WithinGrowth, AnySlice
    <2>3. Fits(kept, origin) /\ kept \in AnySlice
      BY <2>1, <2>2 DEF CanonicalReturnBuffer, Fits, AnySlice
    <2> QED
      BY <1>1, <1>7, <2>1, <2>3, CarriedAfterGoto DEF Release
  <1>8. ASSUME NEW t \in Threads, NEW v \in Positions \cap Kinds, Reject(t, v) PROVE CarriedFit'
    BY <1>3, <1>8 DEF Reject, Carrying
  <1>9. ASSUME NEW t \in Threads, NEW id \in LeaseIDs, NEW slice \in Views \cup {Nil},
               RejectRelease(t, id, slice)
        PROVE  CarriedFit'
    <2>1. ~ValidRelease(id, slice) => Violation(id, slice) \in Positions \cap Kinds
      BY DEF Violation, ValidRelease
    <2> QED
      BY <1>8, <1>9, <2>1 DEF RejectRelease
  <1>10. ASSUME NEW t \in Threads, RejectLease(t) PROVE CarriedFit'
    BY <1>8, <1>10 DEF RejectLease
  <1>11. ASSUME NEW t \in Threads, Rollback(t) \/ CountViolation(t) \/ CountResult(t)
         PROVE  CarriedFit'
    <2>1. Goto(t, "idle", Nil, 0)
      BY <1>11 DEF Rollback, CountViolation, CountResult
    <2> QED
      BY <1>3, <2>1 DEF Carrying
  <1>12. ASSUME NEW t \in Threads, CountAttempt(t) PROVE CarriedFit'
    <2>1. /\ Fits(task[t].slice, task[t].class)
          /\ task[t].slice \in AnySlice /\ task[t].class \in Nat
      BY <1>12, LeaseAssumption DEF CountAttempt, SlicesFit, CarriedFit, Types
    <2> QED
      BY <1>1, <1>12, <2>1, CarriedAfterGoto DEF CountAttempt
  <1>13. ASSUME NEW t \in Threads, PutOwned(t) PROVE CarriedFit'
    <2>1. Goto(t, "success", Nil, 0) \/ Goto(t, "refused", Nil, 0) \/ Goto(t, "closed", Nil, 0)
      <3>1. CASE poolOpen
        BY <1>13, <3>1, Zenon DEF PutOwned
      <3>2. CASE ~poolOpen
        BY <1>13, <3>2, Zenon DEF PutOwned
      <3> QED
        BY <3>1, <3>2
    <2> QED
      BY <1>3, <2>1 DEF Carrying
  <1>14. CASE CloseRegistry \/ ClosePool \/ UNCHANGED vars
    BY <1>2, <1>14 DEF CloseRegistry, ClosePool, vars
  <1> QED
    BY <1>4, <1>5, <1>6, <1>7, <1>9, <1>10, <1>11, <1>12, <1>13, <1>14 DEF Next, Step

-----------------------------------------------------------------------------
(* One holder per array *)

(* A step that only takes holders away *)
LEMMA FewerHolders ==
    ASSUME NEW b \in Bases, Exclusive(b),
           Leases(b)' \subseteq Leases(b), Carriers(b)' \subseteq Carriers(b),
           Stored(b)' \subseteq Stored(b)
    PROVE  Exclusive(b)'
  BY DEF Exclusive, AtMostOne

(* A step that leaves one holder *)
LEMMA LoneHolder ==
    ASSUME NEW b \in Bases, NEW x,
           \/ Leases(b)' \subseteq {x} /\ Carriers(b)' = {} /\ Stored(b)' = {}
           \/ Leases(b)' = {} /\ Carriers(b)' \subseteq {x} /\ Stored(b)' = {}
           \/ Leases(b)' = {} /\ Carriers(b)' = {} /\ Stored(b)' \subseteq {x}
    PROVE  Exclusive(b)'
  BY DEF Exclusive, AtMostOne

LEMMA CarriersAfterGoto ==
    ASSUME Types, NEW t \in Threads, NEW pc \in Positions, NEW slice \in AnySlice,
           NEW class \in Nat, Goto(t, pc, slice, class), NEW b \in Bases
    PROVE  /\ Carriers(b)' \subseteq Carriers(b) \cup {t}
           /\ pc \notin Carrying \/ slice.base # b => Carriers(b)' \subseteq Carriers(b) \ {t}
  <1>1. task'[t] = [pc |-> pc, slice |-> slice, class |-> class]
    BY AfterGoto
  <1>2. ASSUME NEW u \in Threads, u # t PROVE task'[u] = task[u]
    BY <1>2, AfterGoto
  <1>3. ASSUME NEW u \in Carriers(b)', u # t PROVE u \in Carriers(b)
    BY <1>2, <1>3 DEF Carriers
  <1>4. ASSUME t \in Carriers(b)' PROVE pc \in Carrying /\ slice.base = b
    BY <1>1, <1>4 DEF Carriers
  <1> QED
    BY <1>3, <1>4

LEMMA StoredAfterPut ==
    ASSUME Types, NEW slice \in Slice, NEW c \in ClassSizes, Retain(slice, c), NEW b \in Bases
    PROVE  /\ Stored(b)' \subseteq Stored(b) \cup {<<c, Len(retained[c]) + 1>>}
           /\ slice.base # b => Stored(b)' \subseteq Stored(b)
  <1>1. retained' = [retained EXCEPT ![c] = Append(@, slice)] /\ retained[c] \in Seq(Slice)
    BY DEF Retain, Types
  <1> SUFFICES ASSUME NEW d \in ClassSizes, NEW i \in 1 .. SlotLimit,
                      i <= Len(retained'[d]), retained'[d][i].base = b
               PROVE  \/ i <= Len(retained[d]) /\ retained[d][i].base = b
                      \/ d = c /\ i = Len(retained[c]) + 1 /\ slice.base = b
    BY DEF Stored
  <1>2. CASE d # c
    BY <1>1, <1>2 DEF Types
  <1>3. CASE d = c
    <2>1. retained'[d] = Append(retained[c], slice) /\ i \in 1 .. Len(retained[c]) + 1
      BY <1>1, <1>3, LeaseAssumption DEF Types
    <2>2. CASE i = Len(retained[c]) + 1
      BY <1>1, <1>3, <2>1, <2>2
    <2>3. CASE i \in 1 .. Len(retained[c])
      BY <1>1, <1>3, <2>1, <2>3
    <2> QED
      BY <2>1, <2>2, <2>3, <1>1
  <1> QED
    BY <1>2, <1>3

LEMMA OneHolderInit == Init => OneHolder
  <1> SUFFICES ASSUME Init, NEW b \in Bases PROVE Exclusive(b)
    BY DEF OneHolder
  <1>1. Leases(b) = {}
    BY DEF Init, Leases, Active, NoRecord
  <1>2. Carriers(b) = {}
    BY DEF Init, Carriers, Carrying, Idle
  <1>3. Stored(b) = {}
    <2> SUFFICES ASSUME NEW slot \in Stored(b) PROVE FALSE
      OBVIOUS
    <2>1. slot[1] \in ClassSizes /\ slot[2] \in 1 .. SlotLimit /\ slot[2] <= Len(retained[slot[1]])
      BY DEF Stored
    <2>2. retained[slot[1]] = <<>>
      BY <2>1 DEF Init
    <2> QED
      BY <2>1, <2>2, LeaseAssumption
  <1> QED
    BY <1>1, <1>2, <1>3 DEF Exclusive, AtMostOne

(* A return to the Pool: the one holder is the goroutine, and then the slot or none. *)
LEMMA ExclusiveAfterReturn ==
    ASSUME Types, NEW b \in Bases, Exclusive(b), NEW t \in Threads,
           task[t].pc \in Carrying, task[t].slice \in Slice, task[t].class \in ClassSizes,
           NEW pc \in Positions, pc \notin Carrying, Goto(t, pc, Nil, 0),
           UNCHANGED record, Retain(task[t].slice, task[t].class) \/ UNCHANGED retained
    PROVE  Exclusive(b)'
  <1>1. Carriers(b)' \subseteq Carriers(b) \ {t}
    BY CarriersAfterGoto, NilIsNoSlice
  <1>2. Leases(b)' = Leases(b)
    BY DEF Leases, Active
  <1>3. CASE UNCHANGED retained
    <2>1. Stored(b)' = Stored(b)
      BY <1>3 DEF Stored
    <2> QED
      BY <1>1, <1>2, <2>1, FewerHolders
  <1>4. CASE Retain(task[t].slice, task[t].class) /\ task[t].slice.base # b
    BY <1>1, <1>2, <1>4, StoredAfterPut, FewerHolders
  <1>5. CASE Retain(task[t].slice, task[t].class) /\ task[t].slice.base = b
    <2>1. t \in Carriers(b)
      BY <1>5 DEF Carriers
    <2>2. Leases(b) = {} /\ Stored(b) = {} /\ Carriers(b) \subseteq {t}
      BY <2>1 DEF Exclusive, AtMostOne
    <2>3. Stored(b)' \subseteq {<<task[t].class, Len(retained[task[t].class]) + 1>>}
      BY <1>5, <2>2, StoredAfterPut
    <2> QED
      BY <1>1, <1>2, <2>2, <2>3, LoneHolder
  <1> QED
    BY <1>3, <1>4, <1>5

LEMMA OneHolderStep ==
    ASSUME Types, SlicesFit, OneHolder, [Next]_vars
    PROVE  OneHolder'
  <1>1. mode' = mode
    BY ModeFixed
  <1> SUFFICES ASSUME mode = "strict", NEW b \in Bases, Exclusive(b)
               PROVE  Exclusive(b)'
    BY <1>1 DEF OneHolder
  <1> USE DEF Positions, Kinds
  <1>2. UNCHANGED record => Leases(b)' = Leases(b)
    BY DEF Leases, Active
  <1>3. UNCHANGED retained => Stored(b)' = Stored(b)
    BY DEF Stored
  <1>4. UNCHANGED task => Carriers(b)' = Carriers(b)
    BY DEF Carriers
  <1>5. ASSUME NEW t \in Threads, NEW pc \in Positions, Goto(t, pc, Nil, 0), pc \notin Carrying,
               UNCHANGED <<record, retained>>
        PROVE  Exclusive(b)'
    BY <1>2, <1>3, <1>5, CarriersAfterGoto, NilIsNoSlice, FewerHolders
  <1>6. ASSUME NEW t \in Threads, NEW c \in ClassSizes, StartAcquire(t, c) PROVE Exclusive(b)'
    <2>1. Carriers(b)' \subseteq Carriers(b)
      BY <1>6, CarriersAfterGoto, NilIsNoSlice, LeaseAssumption DEF StartAcquire, Carrying
    <2> QED
      BY <1>2, <1>3, <1>6, <2>1, FewerHolders DEF StartAcquire
  <1>7. ASSUME NEW t \in Threads, PoolGet(t) PROVE Exclusive(b)'
    <2> DEFINE c == task[t].class
               n == Len(retained[c])
    <2>1. c \in ClassSizes /\ c \in Nat \ {0} /\ retained[c] \in Seq(Slice)
      BY <1>7, LeaseAssumption DEF PoolGet, SlicesFit, CarriedFit, Types
    <2>2. Leases(b)' = Leases(b)
      BY <1>2, <1>7 DEF PoolGet
    <2>3. CASE Goto(t, "idle", Nil, 0) /\ UNCHANGED retained
      BY <1>5, <1>7, <2>3 DEF PoolGet, Carrying
    <2>4. CASE /\ retained[c] # <<>>
               /\ Goto(t, "register", retained[c][n], c)
               /\ retained' = [retained EXCEPT ![c] = SubSeq(@, 1, Len(@) - 1)]
      <3>1. n \in 1 .. SlotLimit /\ n \in Nat \ {0} /\ retained[c][n] \in AnySlice
        BY <2>1, <2>4, LeaseAssumption DEF Types, AnySlice
      <3>2. Stored(b)' \subseteq Stored(b) \ {<<c, n>>}
        <4> SUFFICES ASSUME NEW d \in ClassSizes, NEW i \in 1 .. SlotLimit,
                            i <= Len(retained'[d]), retained'[d][i].base = b
                     PROVE  /\ i <= Len(retained[d]) /\ retained[d][i].base = b
                            /\ d # c \/ i # n
          BY DEF Stored
        <4>1. CASE d # c
          BY <2>4, <4>1 DEF Types
        <4>2. CASE d = c
          <5>1. retained'[d] = SubSeq(retained[c], 1, n - 1)
            BY <2>1, <2>4, <4>2 DEF Types
          <5> QED
            BY <2>1, <3>1, <4>2, <5>1, LeaseAssumption
        <4> QED
          BY <4>1, <4>2
      <3>3. CASE retained[c][n].base # b
        <4>1. Carriers(b)' \subseteq Carriers(b)
          BY <2>1, <2>4, <3>1, <3>3, CarriersAfterGoto
        <4> QED
          BY <2>2, <3>2, <4>1, FewerHolders
      <3>4. CASE retained[c][n].base = b
        <4>1. <<c, n>> \in Stored(b)
          BY <2>1, <3>1, <3>4 DEF Stored
        <4>2. Leases(b) = {} /\ Carriers(b) = {} /\ Stored(b) \subseteq {<<c, n>>}
          BY <4>1 DEF Exclusive, AtMostOne
        <4>3. Carriers(b)' \subseteq Carriers(b) \cup {t}
          BY <2>1, <2>4, <3>1, CarriersAfterGoto
        <4> QED
          BY <2>2, <3>2, <4>2, <4>3, LoneHolder
      <3> QED
        BY <3>3, <3>4
    <2>5. ASSUME NEW other \in Bases, Unreachable(other), UNCHANGED retained,
                 Goto(t, "register", [base |-> other, capacity |-> c], c)
          PROVE  Exclusive(b)'
      <3> DEFINE made == [base |-> other, capacity |-> c]
      <3>1. made \in AnySlice
        BY <2>1 DEF AnySlice, Slice
      <3>2. CASE other # b
        <4>1. Carriers(b)' \subseteq Carriers(b)
          BY <2>1, <2>5, <3>1, <3>2, CarriersAfterGoto
        <4> QED
          BY <1>3, <2>2, <2>5, <4>1, FewerHolders
      <3>3. CASE other = b
        <4>1. Leases(b) = {} /\ Carriers(b) = {} /\ Stored(b) = {}
          BY <2>5, <3>3 DEF Unreachable
        <4>2. Carriers(b)' \subseteq Carriers(b) \cup {t}
          BY <2>1, <2>5, <3>1, CarriersAfterGoto
        <4> QED
          BY <1>3, <2>2, <2>5, <4>1, <4>2, LoneHolder
      <3> QED
        BY <3>2, <3>3
    <2> QED
      BY <1>7, <2>3, <2>4, <2>5 DEF PoolGet
  <1>8. ASSUME NEW t \in Threads, Register(t) PROVE Exclusive(b)'
    <2> DEFINE slice == task[t].slice
               class == ClassForCapacity(slice.capacity)
    <2>1. Serves(slice, task[t].class)
      BY <1>8 DEF Register, SlicesFit, CarriedFit
    <2>2. slice \in AnySlice /\ class \in Nat
      BY <2>1, ClassOfCapacity, LeaseAssumption DEF Serves, Fits, Slice, AnySlice
    <2>3. Stored(b)' = Stored(b)
      BY <1>3, <1>8 DEF Register
    <2>4. CASE /\ record' = [record EXCEPT ![nextID + 1] =
                    [state |-> "active", slice |-> slice, requested |-> task[t].class,
                     origin |-> class, violation |-> "none"]]
               /\ Goto(t, "idle", Nil, 0)
      <3>1. Carriers(b)' \subseteq Carriers(b) \ {t}
        BY <2>4, CarriersAfterGoto, NilIsNoSlice DEF Carrying
      <3>2. /\ Leases(b)' \subseteq Leases(b) \cup {nextID + 1}
            /\ slice.base # b => Leases(b)' \subseteq Leases(b)
        <4> SUFFICES ASSUME NEW id \in LeaseIDs, record'[id].state = "active",
                            record'[id].slice.base = b
                     PROVE  \/ id = nextID + 1 /\ slice.base = b
                            \/ record[id].state = "active" /\ record[id].slice.base = b
          BY DEF Leases, Active
        <4>1. CASE id # nextID + 1
          BY <2>4, <4>1 DEF Types
        <4>2. CASE id = nextID + 1
          <5>1. record'[id].slice = slice
            BY <2>4, <4>2 DEF Types
          <5> QED
            BY <4>2, <5>1
        <4> QED
          BY <4>1, <4>2
      <3>3. CASE slice.base # b
        BY <2>3, <3>1, <3>2, <3>3, FewerHolders
      <3>4. CASE slice.base = b
        <4>1. t \in Carriers(b)
          BY <1>8, <3>4 DEF Register, Carriers, Carrying
        <4>2. Leases(b) = {} /\ Stored(b) = {} /\ Carriers(b) \subseteq {t}
          BY <4>1 DEF Exclusive, AtMostOne
        <4> QED
          BY <2>3, <3>1, <3>2, <4>2, LoneHolder
      <3> QED
        BY <3>3, <3>4
    <2>5. CASE Goto(t, "rollback", slice, class) /\ UNCHANGED record
      <3>1. Carriers(b)' \subseteq Carriers(b)
        <4>1. CASE slice.base # b
          BY <2>2, <2>5, <4>1, CarriersAfterGoto
        <4>2. CASE slice.base = b
          <5>1. t \in Carriers(b)
            BY <1>8, <4>2 DEF Register, Carriers, Carrying
          <5> QED
            BY <2>2, <2>5, <5>1, CarriersAfterGoto
        <4> QED
          BY <4>1, <4>2
      <3> QED
        BY <1>2, <2>3, <2>5, <3>1, FewerHolders
    <2> QED
      BY <1>8, <2>4, <2>5 DEF Register
  <1>9. ASSUME NEW t \in Threads, Rollback(t) PROVE Exclusive(b)'
    <2>1. task[t].slice \in Slice /\ task[t].class \in ClassSizes /\ task[t].pc \in Carrying
      BY <1>9 DEF Rollback, SlicesFit, CarriedFit, Serves, Fits, Carrying
    <2> QED
      BY <1>9, <2>1, ExclusiveAfterReturn DEF Rollback, Carrying
  <1>10. ASSUME NEW t \in Threads, NEW id \in LeaseIDs, NEW slice \in Views \cup {Nil},
               Release(t, id, slice)
        PROVE  Exclusive(b)'
    <2> DEFINE kept == CanonicalReturnBuffer(id, slice)
    <2>1. kept = record[id].slice /\ kept \in AnySlice /\ record[id].origin \in Nat
      BY DEF CanonicalReturnBuffer, Types
    <2>2. Stored(b)' = Stored(b)
      BY <1>3, <1>10 DEF Release
    <2>3. Leases(b)' \subseteq Leases(b) \ {id}
      <3>1. [NoRecord EXCEPT !.state = "released"].state = "released"
        BY DEF NoRecord
      <3>2. record'[id].state = "released"
        BY <1>10, <3>1 DEF Release, Consumed, Types
      <3>3. \A other \in LeaseIDs : other # id => record'[other] = record[other]
        BY <1>10 DEF Release, Consumed, Types
      <3> QED
        BY <3>2, <3>3 DEF Leases, Active
    <2>4. CASE kept.base # b
      <3>1. Carriers(b)' \subseteq Carriers(b)
        BY <1>10, <2>1, <2>4, CarriersAfterGoto DEF Release
      <3> QED
        BY <2>2, <2>3, <3>1, FewerHolders
    <2>5. CASE kept.base = b
      <3>1. id \in Leases(b)
        BY <1>10, <2>1, <2>5 DEF Release, Leases
      <3>2. Carriers(b) = {} /\ Stored(b) = {} /\ Leases(b) \subseteq {id}
        BY <3>1 DEF Exclusive, AtMostOne
      <3>3. Carriers(b)' \subseteq Carriers(b) \cup {t}
        BY <1>10, <2>1, CarriersAfterGoto DEF Release
      <3> QED
        BY <2>2, <2>3, <3>2, <3>3, LoneHolder
    <2> QED
      BY <2>4, <2>5
  <1>11. ASSUME NEW t \in Threads, NEW v \in Positions \cap Kinds, Reject(t, v)
         PROVE  Stored(b)' = Stored(b) /\ Carriers(b)' \subseteq Carriers(b)
    BY <1>3, <1>11, CarriersAfterGoto, NilIsNoSlice DEF Reject, Carrying
  <1>12. ASSUME NEW t \in Threads, NEW id \in LeaseIDs, NEW slice \in Views \cup {Nil},
               RejectRelease(t, id, slice)
        PROVE  Exclusive(b)'
    <2>1. ~ValidRelease(id, slice) => Violation(id, slice) \in Positions \cap Kinds
      BY DEF Violation, ValidRelease
    <2>2. CASE Reject(t, "double") /\ UNCHANGED record
      BY <1>2, <1>11, <2>2, FewerHolders
    <2>3. CASE /\ Reject(t, Violation(id, slice)) /\ ~ValidRelease(id, slice)
               /\ record' = [record EXCEPT ![id].violation = Violation(id, slice)]
      <3>1. ASSUME NEW other \in LeaseIDs
            PROVE  /\ record'[other].state = record[other].state
                   /\ record'[other].slice = record[other].slice
        BY <2>3 DEF Types
      <3>2. Leases(b)' = Leases(b)
        BY <3>1 DEF Leases, Active
      <3> QED
        BY <1>11, <2>1, <2>3, <3>2, FewerHolders
    <2> QED
      BY <1>12, <2>2, <2>3 DEF RejectRelease
  <1>13. ASSUME NEW t \in Threads, RejectLease(t) PROVE Exclusive(b)'
    BY <1>2, <1>11, <1>13, FewerHolders DEF RejectLease
  <1>14. ASSUME NEW t \in Threads, CountViolation(t) \/ CountResult(t) PROVE Exclusive(b)'
    BY <1>5, <1>14 DEF CountViolation, CountResult, Carrying
  <1>15. ASSUME NEW t \in Threads, CountAttempt(t) PROVE Exclusive(b)'
    <2>1. task[t].slice \in AnySlice /\ task[t].class \in Nat
      BY DEF Types
    <2>2. Carriers(b)' \subseteq Carriers(b)
      <3>1. CASE task[t].slice.base # b
        BY <1>15, <2>1, <3>1, CarriersAfterGoto DEF CountAttempt
      <3>2. CASE task[t].slice.base = b
        <4>1. t \in Carriers(b)
          BY <1>15, <3>2 DEF CountAttempt, Carriers, Carrying
        <4> QED
          BY <1>15, <2>1, <4>1, CarriersAfterGoto DEF CountAttempt
      <3> QED
        BY <3>1, <3>2
    <2> QED
      BY <1>2, <1>3, <1>15, <2>2, FewerHolders DEF CountAttempt
  <1>16. ASSUME NEW t \in Threads, PutOwned(t) PROVE Exclusive(b)'
    <2>1. task[t].slice \in Slice /\ task[t].class \in ClassSizes /\ task[t].pc \in Carrying
      BY <1>16 DEF PutOwned, SlicesFit, CarriedFit, Fits, Carrying
    <2>2. PICK pc \in {"success", "refused", "closed"} : Goto(t, pc, Nil, 0)
      <3>1. CASE poolOpen
        BY <1>16, <3>1, Zenon DEF PutOwned
      <3>2. CASE ~poolOpen
        BY <1>16, <3>2, Zenon DEF PutOwned
      <3> QED
        BY <3>1, <3>2
    <2>3. UNCHANGED record /\ (Retain(task[t].slice, task[t].class) \/ UNCHANGED retained)
      BY <1>16 DEF PutOwned
    <2> QED
      BY <2>1, <2>2, <2>3, ExclusiveAfterReturn DEF Carrying
  <1>17. CASE ClosePool
    <2>1. Stored(b)' \subseteq Stored(b)
      <3>1. CASE retained' = [c \in ClassSizes |-> <<>>]
        <4> SUFFICES ASSUME NEW c \in ClassSizes, NEW i \in 1 .. SlotLimit, i <= Len(retained'[c])
                     PROVE  FALSE
          BY DEF Stored
        <4>1. retained'[c] = <<>>
          BY <3>1
        <4> QED
          BY <4>1, LeaseAssumption
      <3> QED
        BY <1>3, <1>17, <3>1 DEF ClosePool
    <2> QED
      BY <1>2, <1>4, <1>17, <2>1, FewerHolders DEF ClosePool
  <1>18. CASE CloseRegistry \/ UNCHANGED vars
    BY <1>2, <1>3, <1>4, <1>18, FewerHolders DEF CloseRegistry, vars
  <1> QED
    BY <1>6, <1>7, <1>8, <1>9, <1>10, <1>12, <1>13, <1>14, <1>15, <1>16, <1>17, <1>18
    DEF Next, Step

-----------------------------------------------------------------------------
(* The invariant is inductive: the ownership of buffers needs their types, that the  *)
(* slices under way fit a class, and that strict mode leaves one holder.          *)
THEOREM Inductive == (Init => IInv) /\ (IInv /\ [Next]_vars => IInv')
  BY TypesInit, FitsInit, OneHolderInit, TypesStep, StoredStep, LeasedStep, CarriedStep,
     OneHolderStep
  DEF IInv, SlicesFit

LEMMA Invariance == Spec => []IInv
  BY Inductive, PTL DEF Spec

LEMMA AtMostOneCounts ==
    ASSUME NEW S, AtMostOne(S)
    PROVE  Cardinality(S) \in {0, 1} /\ (S = {} => Cardinality(S) = 0)
  <1>1. CASE S = {}
    BY <1>1, FS_EmptySet
  <1>2. CASE S # {}
    <2>1. PICK x \in S : TRUE
      BY <1>2
    <2>2. S = {x}
      BY <2>1 DEF AtMostOne
    <2> QED
      BY <1>2, <2>2, FS_Singleton
  <1> QED
    BY <1>1, <1>2

(* The other types *)

LEMMA CountTypes ==
    ASSUME OtherTypes, NEW added, \A k \in DOMAIN added : added[k] \in Int, Count(added)
    PROVE  generation' \in Nat /\ counters' \in [DOMAIN NoCounts -> Int]
  <1>1. counters' = [k \in DOMAIN NoCounts |->
                        counters[k] + IF k \in DOMAIN added THEN added[k] ELSE 0]
    BY DEF Count, OtherTypes
  <1>2. ASSUME NEW k \in DOMAIN NoCounts
        PROVE  counters[k] + (IF k \in DOMAIN added THEN added[k] ELSE 0) \in Int
    <2>1. counters[k] \in Int
      BY DEF OtherTypes
    <2>2. CASE k \in DOMAIN added
      <3>1. added[k] \in Int
        BY <2>2
      <3> QED
        BY <2>1, <2>2, <3>1
    <2>3. CASE k \notin DOMAIN added
      BY <2>1, <2>3
    <2> QED
      BY <2>2, <2>3
  <1>3. counters' \in [DOMAIN NoCounts -> Int]
    BY <1>1, <1>2
  <1>4. generation' \in Nat
    BY DEF Count, OtherTypes
  <1> QED
    BY <1>3, <1>4

LEMMA OtherTypesInit == Init => OtherTypes
  <1>1. NoCounts \in [DOMAIN NoCounts -> Int]
    BY DEF NoCounts
  <1> QED
    BY <1>1 DEF Init, OtherTypes

LEMMA OtherTypesStep ==
    ASSUME Types, OtherTypes, SlicesFit, [Next]_vars
    PROVE  OtherTypes'
  <1>1. ASSUME UNCHANGED <<registryOpen, poolOpen, nextID, backing>>,
               generation' \in Nat /\ counters' \in [DOMAIN NoCounts -> Int]
        PROVE  OtherTypes'
    BY <1>1 DEF OtherTypes
  <1>2. UNCHANGED counts => generation' \in Nat /\ counters' \in [DOMAIN NoCounts -> Int]
    BY DEF OtherTypes, counts
  <1>3. ASSUME NEW t \in Threads, NEW c \in ClassSizes, StartAcquire(t, c) PROVE OtherTypes'
    BY <1>1, <1>2, <1>3 DEF StartAcquire, lifecycles
  <1>4. ASSUME NEW t \in Threads, PoolGet(t) PROVE OtherTypes'
    <2>1. task[t].class \in Nat
      BY DEF Types
    <2>2. backing' \in [Bases -> Nat]
      BY <1>4, <2>1 DEF PoolGet, OtherTypes
    <2> QED
      BY <1>2, <1>4, <2>2 DEF PoolGet, OtherTypes, lifecycles
  <1>5. ASSUME NEW t \in Threads, Register(t) PROVE OtherTypes'
    <2>1. task[t].slice.capacity \in Int
      BY <1>5 DEF Register, SlicesFit, CarriedFit, Serves, Fits, Slice
    <2>2. ASSUME Count([acquisitions |-> 1, activeLeases |-> 1,
                        activeBytes |-> task[t].slice.capacity])
          PROVE  generation' \in Nat /\ counters' \in [DOMAIN NoCounts -> Int]
      <3> DEFINE added == [acquisitions |-> 1, activeLeases |-> 1,
                           activeBytes |-> task[t].slice.capacity]
      <3>1. \A k \in DOMAIN added : added[k] \in Int
        BY <2>1
      <3>2. Count(added)
        BY <2>2
      <3> HIDE DEF added
      <3> QED
        BY <3>1, <3>2, CountTypes
    <2>3. ASSUME UNCHANGED counts
          PROVE  generation' \in Nat /\ counters' \in [DOMAIN NoCounts -> Int]
      BY <1>2, <2>3
    <2>4. generation' \in Nat /\ counters' \in [DOMAIN NoCounts -> Int]
      BY <1>5, <2>2, <2>3 DEF Register
    <2>5. nextID' \in Nat /\ UNCHANGED <<lifecycles, backing>>
      BY <1>5 DEF Register, OtherTypes
    <2> QED
      BY <2>4, <2>5 DEF OtherTypes, lifecycles
  <1>6. ASSUME NEW t \in Threads, Rollback(t) \/ PutOwned(t) PROVE OtherTypes'
    BY <1>1, <1>2, <1>6 DEF Rollback, PutOwned, lifecycles
  <1>7. ASSUME NEW t \in Threads, NEW id \in LeaseIDs, NEW slice \in Views \cup {Nil},
               Release(t, id, slice)
        PROVE  OtherTypes'
    <2> DEFINE added == [releases |-> 1, activeLeases |-> -1,
                         activeBytes |-> -BytesGivenBack(id, slice)]
    <2>1. BytesGivenBack(id, slice) \in Nat /\ slice.capacity \in Nat
      <3>1. slice \in AnySlice
        BY ViewsAreSlices
      <3> QED
        BY <1>7, <3>1 DEF Release, BytesGivenBack, SlicesFit, LeasedFit, Fits, Slice, AnySlice, Nil
    <2>2. \A k \in DOMAIN added : added[k] \in Int
      BY <2>1
    <2>3. Count(added)
      BY <1>7 DEF Release
    <2>4. generation' \in Nat /\ counters' \in [DOMAIN NoCounts -> Int]
      <3> HIDE DEF added
      <3> QED
        BY <2>2, <2>3, CountTypes
    <2>5. backing' \in [Bases -> Nat]
      BY <1>7, <2>1 DEF Release, OtherTypes
    <2> QED
      BY <1>7, <2>4, <2>5 DEF Release, OtherTypes, lifecycles
  <1>8. ASSUME NEW t \in Threads, NEW v, Reject(t, v) PROVE OtherTypes'
    BY <1>1, <1>2, <1>8 DEF Reject, lifecycles
  <1>9. ASSUME NEW t \in Threads, NEW id \in LeaseIDs, NEW slice \in Views \cup {Nil},
               RejectRelease(t, id, slice)
        PROVE  OtherTypes'
    BY <1>8, <1>9 DEF RejectRelease
  <1>10. ASSUME NEW t \in Threads, CountViolation(t) PROVE OtherTypes'
    <2>1. \A v \in Violations : \A k \in DOMAIN ViolationCounts[v] : ViolationCounts[v][k] \in Int
      <3>1. /\ \A k \in DOMAIN ViolationCounts["invalid"] : ViolationCounts["invalid"][k] \in Int
            /\ \A k \in DOMAIN ViolationCounts["double"] : ViolationCounts["double"][k] \in Int
            /\ \A k \in DOMAIN ViolationCounts["foreign"] : ViolationCounts["foreign"][k] \in Int
            /\ \A k \in DOMAIN ViolationCounts["growth"] : ViolationCounts["growth"][k] \in Int
        BY DEF ViolationCounts
      <3> QED
        BY <3>1, ViolationKinds
    <2>2. generation' \in Nat /\ counters' \in [DOMAIN NoCounts -> Int]
      BY <1>10, <2>1, CountTypes DEF CountViolation
    <2> QED
      BY <1>1, <1>10, <2>2 DEF CountViolation, lifecycles
  <1>11. ASSUME NEW t \in Threads, CountAttempt(t) PROVE OtherTypes'
    <2> DEFINE added == [poolReturnAttempts |-> 1]
    <2>1. Count(added) /\ \A k \in DOMAIN added : added[k] \in Int
      BY <1>11 DEF CountAttempt
    <2>2. generation' \in Nat /\ counters' \in [DOMAIN NoCounts -> Int]
      <3> HIDE DEF added
      <3> QED
        BY <2>1, CountTypes
    <2> QED
      BY <1>1, <1>11, <2>2 DEF CountAttempt, lifecycles
  <1>12. ASSUME NEW t \in Threads, CountResult(t) PROVE OtherTypes'
    <2>1. \A r \in DOMAIN ReturnCounts : \A k \in DOMAIN ReturnCounts[r] : ReturnCounts[r][k] \in Int
      <3>1. /\ \A k \in DOMAIN ReturnCounts["success"] : ReturnCounts["success"][k] \in Int
            /\ \A k \in DOMAIN ReturnCounts["closed"] : ReturnCounts["closed"][k] \in Int
            /\ \A k \in DOMAIN ReturnCounts["refused"] : ReturnCounts["refused"][k] \in Int
        BY DEF ReturnCounts
      <3> QED
        BY <3>1, ResultKinds
    <2>2. generation' \in Nat /\ counters' \in [DOMAIN NoCounts -> Int]
      BY <1>12, <2>1, CountTypes DEF CountResult
    <2> QED
      BY <1>1, <1>12, <2>2 DEF CountResult, lifecycles
  <1>13. CASE CloseRegistry
    <2>1. registryOpen' \in BOOLEAN /\ poolOpen' \in BOOLEAN
      BY <1>13 DEF CloseRegistry, OtherTypes
    <2>2. generation' \in Nat /\ UNCHANGED <<nextID, backing, counters>>
      BY <1>13 DEF CloseRegistry, OtherTypes
    <2> QED
      BY <2>1, <2>2 DEF OtherTypes
  <1>14. CASE ClosePool
    <2>1. registryOpen' \in BOOLEAN /\ poolOpen' \in BOOLEAN
      BY <1>14 DEF ClosePool, OtherTypes
    <2>2. UNCHANGED <<nextID, backing, counts>>
      BY <1>14 DEF ClosePool
    <2> QED
      BY <1>2, <2>1, <2>2 DEF OtherTypes
  <1>15. CASE UNCHANGED vars
    BY <1>1, <1>2, <1>15 DEF vars, lifecycles
  <1>16. ASSUME NEW t \in Threads, RejectLease(t) PROVE OtherTypes'
    BY <1>8, <1>16 DEF RejectLease
  <1> QED
    BY <1>3, <1>4, <1>5, <1>6, <1>7, <1>9, <1>10, <1>11, <1>12, <1>13, <1>14, <1>15, <1>16
    DEF Next, Step

(* Every variable has its type, for any number of goroutines, arrays and leases.   *)
THEOREM TypeCorrect == Spec => []TypeOK
  <1>1. Types /\ OtherTypes => TypeOK
    <2>1. Violations \cup {"none"} = Kinds
      BY ViolationKinds DEF Kinds
    <2>2. {"idle", "get"} \cup Carrying \cup Violations \cup DOMAIN ReturnCounts = Positions
      BY ViolationKinds, ResultKinds DEF Carrying, Positions, Kinds
    <2> QED
      BY <2>1, <2>2 DEF TypeOK, Types, OtherTypes, AnySlice
  <1>2. Init => IInv /\ OtherTypes
    BY Inductive, OtherTypesInit
  <1>3. IInv /\ OtherTypes /\ [Next]_vars => (IInv /\ OtherTypes)'
    BY Inductive, OtherTypesStep DEF IInv
  <1>4. IInv /\ OtherTypes => TypeOK
    BY <1>1 DEF IInv
  <1> QED
    BY <1>2, <1>3, <1>4, PTL DEF Spec

(* In strict mode no backing array has two holders, however releases are repeated,  *)
(* raced or passed another slice (ownership_validation.go:37-41).                 *)
THEOREM ExclusivelyOwned == Spec => []ExclusiveOwnership
  <1>1. IInv => ExclusiveOwnership
    <2> SUFFICES ASSUME IInv, mode = "strict", NEW b \in Bases
                 PROVE  Cardinality(Leases(b)) + Cardinality(Carriers(b))
                            + Cardinality(Stored(b)) <= 1
      BY DEF ExclusiveOwnership
    <2>1. Exclusive(b)
      BY DEF IInv, OneHolder
    <2>2. /\ Cardinality(Leases(b)) \in {0, 1} /\ (Leases(b) = {} => Cardinality(Leases(b)) = 0)
          /\ Cardinality(Carriers(b)) \in {0, 1} /\ (Carriers(b) = {} => Cardinality(Carriers(b)) = 0)
          /\ Cardinality(Stored(b)) \in {0, 1} /\ (Stored(b) = {} => Cardinality(Stored(b)) = 0)
      BY <2>1, AtMostOneCounts DEF Exclusive
    <2> QED
      BY <2>1, <2>2 DEF Exclusive
  <1> QED
    BY <1>1, Invariance, PTL

(* Whatever slices come back, the class that keeps one can hand it out again, and it  *)
(* stays within the growth limit (lease_registry_release.go, class_admission.go).  *)
THEOREM RetainedSlicesFit == Spec => []RetainedFitsClass
  <1>1. IInv => RetainedFitsClass
    <2> SUFFICES ASSUME IInv, NEW c \in ClassSizes, NEW i \in DOMAIN retained[c]
                 PROVE  /\ retained[c][i].capacity >= c
                        /\ retained[c][i].capacity <= MaxReturnedCapacity(c)
                        /\ mode = "strict" => retained[c][i].capacity = c
      BY DEF RetainedFitsClass
    <2>1. Serves(retained[c][i], c)
      BY DEF IInv, SlicesFit, StoredFit
    <2>2. retained[c][i].capacity \in Nat /\ c \in Nat
      BY <2>1, LeaseAssumption DEF Serves, Fits, Slice
    <2> QED
      BY <2>1, <2>2 DEF Serves, Fits
  <1> QED
    BY <1>1, Invariance, PTL

(* A caller that kept the slice it was given can always release its lease.        *)
THEOREM OwnSlicesRelease == Spec => []OwnSliceReleases
  <1>1. IInv => OwnSliceReleases
    <2> SUFFICES ASSUME IInv, NEW id \in LeaseIDs, Active(id)
                 PROVE  ValidRelease(id, record[id].slice)
      BY DEF OwnSliceReleases
    <2>1. Fits(record[id].slice, record[id].origin)
      BY DEF IInv, SlicesFit, LeasedFit
    <2>2. record[id].slice # Nil
      BY <2>1, NilIsNoSlice DEF Fits
    <2> QED
      BY <2>1, <2>2 DEF ValidRelease, Violation, KeepsBase, WithinGrowth, Fits
  <1> QED
    BY <1>1, Invariance, PTL

(* After Close of the registry no lease becomes active: the second check under the   *)
(* registry lock turns late acquisitions away (lease_registry_acquire.go).         *)
THEOREM NoneAfterClose == Spec => NoLeaseAfterClose
  <1>1. ASSUME IInv, [Next]_vars
        PROVE  [~registryOpen => \A id \in LeaseIDs : Active(id)' => Active(id)]_vars
    <2> SUFFICES ASSUME ~registryOpen, NEW id \in LeaseIDs, Active(id)'
                 PROVE  Active(id)
      OBVIOUS
    <2> USE DEF Active
    <2>1. UNCHANGED record => Active(id)
      OBVIOUS
    <2>2. ASSUME NEW t \in Threads, Register(t) PROVE Active(id)
      BY <2>1, <2>2 DEF Register, StillOpen
    <2>3. ASSUME NEW t \in Threads, NEW other \in LeaseIDs, NEW slice \in Views \cup {Nil},
                 Release(t, other, slice)
          PROVE  Active(id)
      <3>1. CASE id = other
        BY <2>3, <3>1 DEF Release
      <3>2. CASE id # other
        BY <1>1, <2>3, <3>2 DEF Release, Consumed, IInv, Types
      <3> QED
        BY <3>1, <3>2
    <2>4. ASSUME NEW t \in Threads, NEW other \in LeaseIDs, NEW slice \in Views \cup {Nil},
                 RejectRelease(t, other, slice)
          PROVE  Active(id)
      <3>1. CASE record' = [record EXCEPT ![other].violation = Violation(other, slice)]
        <4>1. record'[id].state = record[id].state
          BY <1>1, <3>1 DEF IInv, Types
        <4> QED
          BY <4>1
      <3> QED
        BY <2>1, <2>4, <3>1 DEF RejectRelease
    <2>5. ASSUME NEW t \in Threads, NEW c \in ClassSizes, StartAcquire(t, c) PROVE Active(id)
      BY <2>1, <2>5 DEF StartAcquire
    <2>6. ASSUME NEW t \in Threads, PoolGet(t) \/ Rollback(t) \/ PutOwned(t) PROVE Active(id)
      BY <2>1, <2>6 DEF PoolGet, Rollback, PutOwned
    <2>7. ASSUME NEW t \in Threads,
                 RejectLease(t) \/ CountViolation(t) \/ CountAttempt(t) \/ CountResult(t)
          PROVE  Active(id)
      BY <2>1, <2>7 DEF RejectLease, CountViolation, CountAttempt, CountResult
    <2>8. CASE CloseRegistry \/ ClosePool \/ UNCHANGED vars
      BY <2>1, <2>8 DEF CloseRegistry, ClosePool, vars
    <2> QED
      BY <1>1, <2>2, <2>3, <2>4, <2>5, <2>6, <2>7, <2>8 DEF Next, Step
  <1> QED
    BY <1>1, Invariance, PTL DEF Spec, NoLeaseAfterClose

-----------------------------------------------------------------------------
(* What the counters count *)

Busy == {t \in Threads : task[t].pc # "idle"}

(* An acquisition that has passed the first check has an identity left, identities   *)
(* are handed out in order, and only finitely many goroutines are at work.          *)
Identities ==
    /\ IsFiniteSet(Busy)
    /\ nextID + At({"get", "register"}) <= MaxLeases
    /\ \A id \in LeaseIDs : id > nextID => record[id].state = "none"

Accounts == Identities /\ ReturnsAccounted

LEMMA AtFinite ==
    ASSUME IsFiniteSet(Busy), NEW pcs, "idle" \notin pcs
    PROVE  IsFiniteSet({t \in Threads : task[t].pc \in pcs}) /\ At(pcs) \in Nat
  <1>1. {t \in Threads : task[t].pc \in pcs} \subseteq Busy
    BY DEF Busy
  <1>2. IsFiniteSet({t \in Threads : task[t].pc \in pcs})
    BY <1>1, FS_Subset
  <1> QED
    BY <1>2, FS_CardinalityType DEF At

(* One goroutine moves. *)
LEMMA AtAfterGoto ==
    ASSUME Types, IsFiniteSet(Busy), NEW t \in Threads, NEW pc \in Positions,
           NEW slice \in AnySlice, NEW class \in Nat, Goto(t, pc, slice, class)
    PROVE  /\ IsFiniteSet(Busy')
           /\ \A pcs : "idle" \notin pcs =>
                /\ At(pcs) \in Nat
                /\ At(pcs)' = At(pcs) + (IF pc \in pcs THEN 1 ELSE 0)
                                      - (IF task[t].pc \in pcs THEN 1 ELSE 0)
  <1>0. /\ task'[t] = [pc |-> pc, slice |-> slice, class |-> class]
        /\ \A u \in Threads : u # t => task'[u] = task[u]
    BY AfterGoto
  <1>1. task'[t].pc = pc /\ \A u \in Threads : u # t => task'[u] = task[u]
    BY <1>0
  <1>2. IsFiniteSet(Busy')
    <2>1. Busy' \subseteq Busy \cup {t}
      BY <1>1 DEF Busy
    <2>2. IsFiniteSet(Busy \cup {t})
      BY FS_AddElement
    <2> QED
      BY <2>1, <2>2, FS_Subset
  <1>3. ASSUME NEW pcs, "idle" \notin pcs
        PROVE  /\ At(pcs) \in Nat
               /\ At(pcs)' = At(pcs) + (IF pc \in pcs THEN 1 ELSE 0)
                                     - (IF task[t].pc \in pcs THEN 1 ELSE 0)
    <2> DEFINE A == {u \in Threads : task[u].pc \in pcs}
               B == {u \in Threads : task'[u].pc \in pcs}
    <2>1. IsFiniteSet(A) /\ Cardinality(A) \in Nat /\ At(pcs) = Cardinality(A)
      BY <1>3, AtFinite DEF At
    <2>2. At(pcs)' = Cardinality(B)
      BY DEF At
    <2>3. B = IF pc \in pcs THEN A \cup {t} ELSE A \ {t}
      BY <1>1
    <2>4. t \in A <=> task[t].pc \in pcs
      OBVIOUS
    <2> HIDE DEF A, B
    <2>5. Cardinality(A \cup {t}) = IF t \in A THEN Cardinality(A) ELSE Cardinality(A) + 1
      BY <2>1, FS_AddElement
    <2>6. Cardinality(A \ {t}) = IF t \in A THEN Cardinality(A) - 1 ELSE Cardinality(A)
      BY <2>1, FS_RemoveElement
    <2>7. CASE pc \in pcs
      BY <2>1, <2>2, <2>3, <2>4, <2>5, <2>7
    <2>8. CASE pc \notin pcs
      BY <2>1, <2>2, <2>3, <2>4, <2>6, <2>8
    <2> QED
      BY <2>1, <2>7, <2>8
  <1> QED
    BY <1>2, <1>3

(* What Count adds, field by field *)
LEMMA Counted ==
    ASSUME OtherTypes, NEW added, Count(added)
    PROVE  \A k \in DOMAIN NoCounts :
              /\ counters[k] \in Int
              /\ k \in DOMAIN added => counters'[k] = counters[k] + added[k]
              /\ k \notin DOMAIN added => counters'[k] = counters[k]
  <1>1. counters' = [k \in DOMAIN NoCounts |->
                        counters[k] + IF k \in DOMAIN added THEN added[k] ELSE 0]
    BY DEF Count, OtherTypes
  <1>2. \A k \in DOMAIN NoCounts : counters[k] \in Int
    BY DEF OtherTypes
  <1>3. ASSUME NEW k \in DOMAIN NoCounts
        PROVE  counters'[k] = counters[k] + IF k \in DOMAIN added THEN added[k] ELSE 0
    BY <1>1
  <1>4. ASSUME NEW k \in DOMAIN NoCounts, k \notin DOMAIN added
        PROVE  counters'[k] = counters[k]
    BY <1>2, <1>3, <1>4
  <1> QED
    BY <1>2, <1>3, <1>4

LEMMA LeaseSetsFinite ==
    /\ IsFiniteSet(LeaseIDs) /\ IsFiniteSet(ActiveLeases) /\ IsFiniteSet(ReleasedLeases)
    /\ Cardinality(ActiveLeases) \in Nat /\ Cardinality(ReleasedLeases) \in Nat
  <1>1. IsFiniteSet(LeaseIDs)
    BY LeaseAssumption, FS_Interval DEF LeaseIDs
  <1>2. ActiveLeases \subseteq LeaseIDs /\ ReleasedLeases \subseteq LeaseIDs
    BY DEF ActiveLeases, ReleasedLeases
  <1>3. IsFiniteSet(ActiveLeases) /\ IsFiniteSet(ReleasedLeases)
    BY <1>1, <1>2, FS_Subset
  <1> QED
    BY <1>1, <1>3, FS_CardinalityType

(* What the accounts depend on: the records' states and capacities, the identities,  *)
(* five counters, and how many goroutines are where.                             *)
SameRecords ==
    \A id \in LeaseIDs : /\ record'[id].state = record[id].state
                         /\ record'[id].slice = record[id].slice

LEMMA SameSets ==
    ASSUME SameRecords
    PROVE  /\ ActiveLeases' = ActiveLeases /\ ReleasedLeases' = ReleasedLeases
           /\ SumFunctionOnSet(LeasedBytes, ActiveLeases)'
                 = SumFunctionOnSet(LeasedBytes, ActiveLeases)
  <1>1. ActiveLeases' = ActiveLeases /\ ReleasedLeases' = ReleasedLeases
    BY DEF SameRecords, ActiveLeases, ReleasedLeases, Active
  <1>2. LeasedBytes' = LeasedBytes
    BY DEF SameRecords, LeasedBytes
  <1> QED
    BY <1>1, <1>2

SamePlaces ==
    /\ At({"get", "register"})' = At({"get", "register"})
    /\ At({"attempt"})' = At({"attempt"})
    /\ At({"handoff"} \cup DOMAIN ReturnCounts)' = At({"handoff"} \cup DOMAIN ReturnCounts)

SameCounts ==
    \A k \in {"activeLeases", "activeBytes", "acquisitions", "releases", "poolReturnAttempts",
              "poolReturnSuccesses", "poolReturnFailures"} : counters'[k] = counters[k]

SameIdentities == nextID' = nextID /\ IsFiniteSet(Busy')

LEMMA NothingAccounted ==
    ASSUME Accounts, SameRecords, SamePlaces, SameCounts, SameIdentities
    PROVE  Accounts'
  <1>1. Identities'
    BY DEF Accounts, Identities, SameRecords, SamePlaces, SameIdentities
  <1>2. ReturnsAccounted'
    <2>1. ReturnsAccounted
      BY DEF Accounts
    <2>2. /\ counters'.activeLeases = counters.activeLeases
          /\ counters'.activeBytes = counters.activeBytes
          /\ counters'.acquisitions = counters.acquisitions
          /\ counters'.releases = counters.releases
          /\ counters'.poolReturnAttempts = counters.poolReturnAttempts
          /\ counters'.poolReturnSuccesses = counters.poolReturnSuccesses
          /\ counters'.poolReturnFailures = counters.poolReturnFailures
      BY DEF SameCounts
    <2> QED
      BY <2>1, <2>2, SameSets DEF ReturnsAccounted, SamePlaces
  <1> QED
    BY <1>1, <1>2 DEF Accounts

LEMMA SameCounters == ASSUME counters' = counters PROVE SameCounts
  BY DEF SameCounts

LEMMA SameRecord == ASSUME record' = record PROVE SameRecords
  BY DEF SameRecords

LEMMA SameTasks ==
    ASSUME Accounts, task' = task, nextID' = nextID PROVE SamePlaces /\ SameIdentities
  BY DEF SamePlaces, SameIdentities, At, Busy, Accounts, Identities

(* A goroutine moves, but not to or from where it is accounted for. *)
Elsewhere == Positions \ {"get", "register", "attempt", "handoff", "success", "closed", "refused"}

LEMMA MovesElsewhere ==
    ASSUME Types, Accounts, NEW t \in Threads, NEW pc \in Positions,
           NEW slice \in AnySlice, NEW class \in Nat, Goto(t, pc, slice, class),
           nextID' = nextID,
           \/ task[t].pc \in Elsewhere /\ pc \in Elsewhere
           \/ task[t].pc \in {"get", "register"} /\ pc \in {"get", "register"}
           \/ task[t].pc \in {"handoff", "success", "closed", "refused"}
              /\ pc \in {"handoff", "success", "closed", "refused"}
    PROVE  SamePlaces /\ SameIdentities
  <1>1. IsFiniteSet(Busy)
    BY DEF Accounts, Identities
  <1>2. IsFiniteSet(Busy')
    BY <1>1, AtAfterGoto
  <1>3. ASSUME NEW pcs, "idle" \notin pcs, task[t].pc \in pcs <=> pc \in pcs
        PROVE  At(pcs)' = At(pcs)
    <2>1. /\ At(pcs) \in Nat
          /\ At(pcs)' = At(pcs) + (IF pc \in pcs THEN 1 ELSE 0)
                                - (IF task[t].pc \in pcs THEN 1 ELSE 0)
      BY <1>1, <1>3, AtAfterGoto
    <2>2. CASE pc \in pcs
      BY <1>3, <2>1, <2>2
    <2>3. CASE pc \notin pcs
      BY <1>3, <2>1, <2>3
    <2> QED
      BY <2>2, <2>3
  <1>4. At({"get", "register"})' = At({"get", "register"})
    BY <1>3 DEF Elsewhere
  <1>5. At({"attempt"})' = At({"attempt"})
    BY <1>3 DEF Elsewhere
  <1>6. At({"handoff"} \cup DOMAIN ReturnCounts)' = At({"handoff"} \cup DOMAIN ReturnCounts)
    <2>1. {"handoff"} \cup DOMAIN ReturnCounts = {"handoff", "success", "closed", "refused"}
      BY ResultKinds
    <2>2. /\ "idle" \notin {"handoff", "success", "closed", "refused"}
          /\ task[t].pc \in {"handoff", "success", "closed", "refused"}
                <=> pc \in {"handoff", "success", "closed", "refused"}
      BY DEF Elsewhere
    <2>3. At({"handoff", "success", "closed", "refused"})'
             = At({"handoff", "success", "closed", "refused"})
      BY <1>3, <2>2
    <2> QED
      BY <2>1, <2>3
  <1> QED
    BY <1>2, <1>4, <1>5, <1>6 DEF SamePlaces, SameIdentities

(* The leases and the counters are as they were, and as many goroutines are between  *)
(* the steps of a return.                                                         *)
LEMMA ReturnsKept ==
    ASSUME ReturnsAccounted, SameRecords, SameCounts,
           At({"attempt"})' = At({"attempt"}),
           At({"handoff"} \cup DOMAIN ReturnCounts)' = At({"handoff"} \cup DOMAIN ReturnCounts)
    PROVE  ReturnsAccounted'
  <1>1. /\ counters'.activeLeases = counters.activeLeases
        /\ counters'.activeBytes = counters.activeBytes
        /\ counters'.acquisitions = counters.acquisitions
        /\ counters'.releases = counters.releases
        /\ counters'.poolReturnAttempts = counters.poolReturnAttempts
        /\ counters'.poolReturnSuccesses = counters.poolReturnSuccesses
        /\ counters'.poolReturnFailures = counters.poolReturnFailures
    BY DEF SameCounts
  <1> QED
    BY <1>1, SameSets DEF ReturnsAccounted

(* The positions that are accounted for, by name *)
Returning == {"handoff", "success", "closed", "refused"}

LEMMA ReturningPlaces == {"handoff"} \cup DOMAIN ReturnCounts = Returning
  BY ResultKinds DEF Returning

LEMMA AccountsInit == Init => Accounts
  <1> SUFFICES ASSUME Init PROVE Accounts
    OBVIOUS
  <1>1. \A t \in Threads : task[t].pc = "idle"
    BY DEF Init, Idle
  <1>2. Busy = {} /\ IsFiniteSet(Busy)
    BY <1>1, FS_EmptySet DEF Busy
  <1>3. ASSUME NEW pcs, "idle" \notin pcs PROVE At(pcs) = 0
    <2>1. {t \in Threads : task[t].pc \in pcs} = {}
      BY <1>1, <1>3
    <2> QED
      BY <2>1, FS_EmptySet DEF At
  <1>4. \A id \in LeaseIDs : record[id].state = "none"
    BY DEF Init, NoRecord
  <1>5. ActiveLeases = {} /\ ReleasedLeases = {}
    BY <1>4 DEF ActiveLeases, ReleasedLeases, Active
  <1>6. Identities
    <2>1. At({"get", "register"}) = 0
      BY <1>3
    <2> QED
      BY <1>2, <1>4, <2>1, LeaseAssumption DEF Identities, Init
  <1>7. ReturnsAccounted
    <2>1. At({"attempt"}) = 0 /\ At(Returning) = 0
      BY <1>3 DEF Returning
    <2>2. Cardinality(ActiveLeases) = 0 /\ Cardinality(ReleasedLeases) = 0
      BY <1>5, FS_EmptySet
    <2>3. SumFunctionOnSet(LeasedBytes, ActiveLeases) = 0
      BY <1>5, SumEmpty
    <2>4. /\ counters.activeLeases = 0 /\ counters.activeBytes = 0
          /\ counters.acquisitions = 0 /\ counters.releases = 0
          /\ counters.poolReturnAttempts = 0 /\ counters.poolReturnSuccesses = 0
          /\ counters.poolReturnFailures = 0
      BY DEF Init, NoCounts
    <2> QED
      BY <2>1, <2>2, <2>3, <2>4, ReturningPlaces DEF ReturnsAccounted
  <1> QED
    BY <1>6, <1>7 DEF Accounts

(* A goroutine comes to or leaves a set of positions, or neither. *)
LEMMA Moves ==
    ASSUME Types, Accounts, NEW t \in Threads, NEW pc \in Positions,
           NEW slice \in AnySlice, NEW class \in Nat, Goto(t, pc, slice, class)
    PROVE  /\ IsFiniteSet(Busy')
           /\ \A pcs : "idle" \notin pcs =>
                /\ At(pcs) \in Nat
                /\ (pc \in pcs <=> task[t].pc \in pcs) => At(pcs)' = At(pcs)
                /\ pc \in pcs /\ task[t].pc \notin pcs => At(pcs)' = At(pcs) + 1
                /\ pc \notin pcs /\ task[t].pc \in pcs => At(pcs)' = At(pcs) - 1
  <1>1. IsFiniteSet(Busy)
    BY DEF Accounts, Identities
  <1>2. /\ IsFiniteSet(Busy')
        /\ \A pcs : "idle" \notin pcs =>
             /\ At(pcs) \in Nat
             /\ At(pcs)' = At(pcs) + (IF pc \in pcs THEN 1 ELSE 0)
                                   - (IF task[t].pc \in pcs THEN 1 ELSE 0)
    BY <1>1, AtAfterGoto
  <1>3. ASSUME NEW pcs, "idle" \notin pcs
        PROVE  /\ At(pcs) \in Nat
               /\ (pc \in pcs <=> task[t].pc \in pcs) => At(pcs)' = At(pcs)
               /\ pc \in pcs /\ task[t].pc \notin pcs => At(pcs)' = At(pcs) + 1
               /\ pc \notin pcs /\ task[t].pc \in pcs => At(pcs)' = At(pcs) - 1
    <2>1. /\ At(pcs) \in Nat
          /\ At(pcs)' = At(pcs) + (IF pc \in pcs THEN 1 ELSE 0)
                                - (IF task[t].pc \in pcs THEN 1 ELSE 0)
      BY <1>2, <1>3
    <2>2. CASE pc \in pcs /\ task[t].pc \in pcs
      BY <2>1, <2>2
    <2>3. CASE pc \notin pcs /\ task[t].pc \in pcs
      BY <2>1, <2>3
    <2>4. CASE pc \in pcs /\ task[t].pc \notin pcs
      BY <2>1, <2>4
    <2>5. CASE pc \notin pcs /\ task[t].pc \notin pcs
      BY <2>1, <2>5
    <2> QED
      BY <2>1, <2>2, <2>3, <2>4, <2>5
  <1> QED
    BY <1>2, <1>3

LEMMA BytesAreNat == ASSUME Types PROVE \A id \in LeaseIDs : LeasedBytes[id] \in Nat
  BY DEF Types, LeasedBytes, AnySlice, Slice, Nil

(* An acquisition begins: an identity is left for it. *)
LEMMA StartAcquireAccounts ==
    ASSUME Types, OtherTypes, Accounts, NEW t \in Threads, NEW c \in ClassSizes,
           StartAcquire(t, c)
    PROVE  Accounts'
  <1>1. /\ task[t].pc = "idle" /\ Goto(t, "get", Nil, c) /\ c \in Nat
        /\ record' = record /\ counters' = counters /\ nextID' = nextID
        /\ nextID + At({"get", "register"}) < MaxLeases
    BY LeaseAssumption DEF StartAcquire, counts, At
  <1>2. /\ IsFiniteSet(Busy')
        /\ At({"attempt"})' = At({"attempt"}) /\ At(Returning)' = At(Returning)
        /\ At({"get", "register"}) \in Nat
        /\ At({"get", "register"})' = At({"get", "register"}) + 1
    BY <1>1, Moves, NilIsNoSlice DEF Positions, Returning
  <1>3. ReturnsAccounted'
    BY <1>1, <1>2, ReturnsKept, ReturningPlaces, SameRecord, SameCounters DEF Accounts
  <1>4. nextID + At({"get", "register"})' <= MaxLeases
    BY <1>1, <1>2, LeaseAssumption DEF OtherTypes
  <1>5. Identities'
    BY <1>1, <1>2, <1>4 DEF Accounts, Identities
  <1> QED
    BY <1>3, <1>5 DEF Accounts

(* The Pool fails, or hands out a slice that is to be registered. *)
LEMMA PoolGetAccounts ==
    ASSUME Types, OtherTypes, SlicesFit, Accounts, NEW t \in Threads, PoolGet(t)
    PROVE  Accounts'
  <1> DEFINE c == task[t].class
  <1>1. /\ task[t].pc = "get" /\ record' = record /\ counters' = counters /\ nextID' = nextID
        /\ c \in ClassSizes /\ c \in Nat /\ c # 0 /\ retained[c] \in Seq(Slice)
    BY LeaseAssumption DEF PoolGet, counts, Types, SlicesFit, CarriedFit
  <1>2. \/ Goto(t, "idle", Nil, 0)
        \/ \E slice \in AnySlice : Goto(t, "register", slice, c)
    <2>1. CASE Goto(t, "idle", Nil, 0)
      BY <2>1
    <2>2. CASE retained[c] # <<>> /\ Goto(t, "register", retained[c][Len(retained[c])], c)
      <3>1. retained[c][Len(retained[c])] \in AnySlice
        BY <1>1, <2>2 DEF AnySlice
      <3> QED
        BY <2>2, <3>1
    <2>3. CASE \E b \in Bases : Goto(t, "register", [base |-> b, capacity |-> c], c)
      <3>1. \A b \in Bases : [base |-> b, capacity |-> c] \in AnySlice
        BY <1>1 DEF AnySlice, Slice
      <3> QED
        BY <2>3, <3>1
    <2> QED
      BY <2>1, <2>2, <2>3 DEF PoolGet
  <1>3. CASE Goto(t, "idle", Nil, 0)
    <2>1. /\ IsFiniteSet(Busy')
          /\ At({"attempt"})' = At({"attempt"}) /\ At(Returning)' = At(Returning)
          /\ At({"get", "register"}) \in Nat
          /\ At({"get", "register"})' = At({"get", "register"}) - 1
      BY <1>1, <1>3, Moves, NilIsNoSlice DEF Positions, Returning
    <2>2. ReturnsAccounted'
      BY <1>1, <2>1, ReturnsKept, ReturningPlaces, SameRecord, SameCounters DEF Accounts
    <2>3. nextID + At({"get", "register"})' <= MaxLeases
      BY <1>1, <2>1, LeaseAssumption DEF OtherTypes, Accounts, Identities
    <2>4. Identities'
      BY <1>1, <2>1, <2>3 DEF Accounts, Identities
    <2> QED
      BY <2>2, <2>4 DEF Accounts
  <1>4. ASSUME NEW slice \in AnySlice, Goto(t, "register", slice, c) PROVE Accounts'
    <2>1. SamePlaces /\ SameIdentities
      BY <1>1, <1>4, MovesElsewhere DEF Positions
    <2> QED
      BY <1>1, <2>1, NothingAccounted, SameRecord, SameCounters
  <1> QED
    BY <1>2, <1>3, <1>4

(* A lease is registered, or the slice goes back because the registry has closed. *)
LEMMA RegisterAccounts ==
    ASSUME Types, OtherTypes, SlicesFit, Accounts, NEW t \in Threads, Register(t)
    PROVE  Accounts'
  <1> DEFINE slice == task[t].slice
             n == nextID + 1
  <1>1. /\ task[t].pc = "register" /\ nextID' = n
        /\ slice \in Slice /\ slice \in AnySlice /\ slice.capacity \in Nat
        /\ ClassForCapacity(slice.capacity) \in Nat
    <2>1. /\ task[t].pc = "register" /\ nextID' = n
          /\ slice \in Slice /\ slice.capacity \in Nat
          /\ task[t].class \in ClassSizes /\ task[t].class <= slice.capacity
      BY DEF Register, SlicesFit, CarriedFit, Serves, Fits, Slice
    <2>2. ClassForCapacity(slice.capacity) \in Nat
      BY <2>1, ClassOfCapacity, LeaseAssumption
    <2> QED
      BY <2>1, <2>2 DEF AnySlice
  <1>2. ASSUME NEW pc \in Positions \ {"get", "register", "attempt"}, pc \notin Returning,
               NEW s \in AnySlice, NEW class \in Nat, Goto(t, pc, s, class)
        PROVE  /\ IsFiniteSet(Busy')
               /\ At({"attempt"})' = At({"attempt"}) /\ At(Returning)' = At(Returning)
               /\ At({"get", "register"}) \in Nat
               /\ At({"get", "register"})' = At({"get", "register"}) - 1
    BY <1>1, <1>2, Moves DEF Returning
  <1>3. /\ nextID \in Nat /\ n \in Nat
        /\ nextID + At({"get", "register"}) <= MaxLeases
        /\ At({"get", "register"}) \in Nat /\ At({"get", "register"}) # 0
    <2>1. /\ nextID \in Nat
          /\ nextID + At({"get", "register"}) <= MaxLeases
          /\ IsFiniteSet(Busy)
      BY DEF OtherTypes, Accounts, Identities
    <2> DEFINE S == {u \in Threads : task[u].pc \in {"get", "register"}}
    <2>2. IsFiniteSet(S) /\ At({"get", "register"}) = Cardinality(S) /\ Cardinality(S) \in Nat
      BY <2>1, AtFinite DEF At
    <2>3. t \in S
      BY <1>1
    <2>4. Cardinality(S) # 0
      <3> HIDE DEF S
      <3> QED
        BY <2>2, <2>3, FS_EmptySet
    <2> QED
      BY <2>1, <2>2, <2>4
  <1>4. n <= MaxLeases /\ n \in LeaseIDs /\ record[n].state = "none"
    <2>1. n <= MaxLeases /\ n > nextID
      BY <1>3, LeaseAssumption
    <2>2. n \in LeaseIDs
      BY <1>3, <2>1, LeaseAssumption DEF LeaseIDs
    <2>3. record[n].state = "none"
      BY <2>1, <2>2 DEF Accounts, Identities
    <2> QED
      BY <2>1, <2>2, <2>3
  <1> HIDE DEF n
  <1>5. CASE /\ record' = [record EXCEPT ![nextID + 1] =
                  [state |-> "active", slice |-> slice, requested |-> task[t].class,
                   origin |-> ClassForCapacity(slice.capacity), violation |-> "none"]]
             /\ Count([acquisitions |-> 1, activeLeases |-> 1, activeBytes |-> slice.capacity])
             /\ Goto(t, "idle", Nil, 0)
    <2>1. /\ record'[n] = [state |-> "active", slice |-> slice, requested |-> task[t].class,
                           origin |-> ClassForCapacity(slice.capacity), violation |-> "none"]
          /\ \A id \in LeaseIDs : id # n => record'[id] = record[id]
      BY <1>4, <1>5 DEF n, Types
    <2>2. record'[n].state = "active" /\ record'[n].slice = slice
      BY <2>1
    <2>3. /\ IsFiniteSet(Busy')
          /\ At({"attempt"})' = At({"attempt"}) /\ At(Returning)' = At(Returning)
          /\ At({"get", "register"})' = At({"get", "register"}) - 1
      BY <1>2, <1>5, NilIsNoSlice DEF Positions, Returning
    <2>4. Identities'
      <3>1. nextID' + At({"get", "register"})' <= MaxLeases
        BY <1>1, <1>3, <2>3, LeaseAssumption DEF n
      <3>2. ASSUME NEW id \in LeaseIDs, id > nextID' PROVE record'[id].state = "none"
        <4>1. id # n /\ id > nextID
          BY <1>1, <1>3, <3>2 DEF n, LeaseIDs
        <4> QED
          BY <2>1, <4>1 DEF Accounts, Identities
      <3> QED
        BY <2>3, <3>1, <3>2 DEF Identities
    <2>5. /\ n \notin ActiveLeases
          /\ ActiveLeases' = ActiveLeases \cup {n} /\ ReleasedLeases' = ReleasedLeases
      BY <1>4, <2>1, <2>2 DEF ActiveLeases, ReleasedLeases, Active
    <2>6. Cardinality(ActiveLeases)' = Cardinality(ActiveLeases) + 1
      BY <2>5, LeaseSetsFinite, FS_AddElement
    <2>7. SumFunctionOnSet(LeasedBytes, ActiveLeases)'
             = slice.capacity + SumFunctionOnSet(LeasedBytes, ActiveLeases)
      <3>1. /\ \A id \in ActiveLeases : LeasedBytes'[id] = LeasedBytes[id]
            /\ LeasedBytes'[n] = slice.capacity
        BY <1>4, <2>1, <2>2, <2>5 DEF LeasedBytes, ActiveLeases
      <3>2. \A id \in ActiveLeases : LeasedBytes[id] \in Nat
        BY BytesAreNat DEF ActiveLeases
      <3> DEFINE f == LeasedBytes'
                 S == ActiveLeases
      <3>3. \A id \in S \cup {n} : f[id] \in Nat
        BY <1>1, <3>1, <3>2
      <3>4. n \notin S /\ IsFiniteSet(S)
        BY <2>5, LeaseSetsFinite
      <3>5. SumFunctionOnSet(f, S \cup {n}) = f[n] + SumFunctionOnSet(f, S)
        <4> HIDE DEF f, S
        <4> QED
          BY <3>3, <3>4, SumAddElement
      <3>6. SumFunctionOnSet(f, S) = SumFunctionOnSet(LeasedBytes, S)
        <4>1. \A id \in S : f[id] = LeasedBytes[id]
          BY <3>1
        <4> HIDE DEF f, S
        <4> QED
          BY <3>4, <4>1, SumAgrees
      <3> QED
        BY <2>5, <3>1, <3>5, <3>6
    <2>8. /\ counters'.acquisitions = counters.acquisitions + 1
          /\ counters'.activeLeases = counters.activeLeases + 1
          /\ counters'.activeBytes = counters.activeBytes + slice.capacity
          /\ counters'.releases = counters.releases
          /\ counters'.poolReturnAttempts = counters.poolReturnAttempts
          /\ counters'.poolReturnSuccesses = counters.poolReturnSuccesses
          /\ counters'.poolReturnFailures = counters.poolReturnFailures
      BY <1>5, Counted DEF NoCounts
    <2>9. /\ counters.acquisitions \in Int /\ counters.releases \in Int
          /\ counters.activeLeases \in Int /\ counters.activeBytes \in Int
      BY DEF OtherTypes, NoCounts
    <2>10. ReturnsAccounted'
      <3>1. ReturnsAccounted
        BY DEF Accounts
      <3> HIDE DEF slice
      <3>2. counters'.activeLeases = Cardinality(ActiveLeases)'
        BY <2>6, <2>8, <3>1 DEF ReturnsAccounted
      <3>3. counters'.activeBytes = SumFunctionOnSet(LeasedBytes, ActiveLeases)'
        BY <1>1, <2>7, <2>8, <2>9, <3>1 DEF ReturnsAccounted
      <3>4. counters'.acquisitions = counters'.releases + counters'.activeLeases
        BY <2>8, <2>9, <3>1 DEF ReturnsAccounted
      <3>5. Cardinality(ReleasedLeases)' = counters'.poolReturnAttempts + At({"attempt"})'
        BY <2>3, <2>5, <2>8, <3>1 DEF ReturnsAccounted
      <3>6. counters'.poolReturnAttempts = counters'.poolReturnSuccesses
               + counters'.poolReturnFailures + At(Returning)'
        BY <2>3, <2>8, <3>1, ReturningPlaces DEF ReturnsAccounted
      <3> QED
        BY <3>2, <3>3, <3>4, <3>5, <3>6, ReturningPlaces DEF ReturnsAccounted
    <2> QED
      BY <2>4, <2>10 DEF Accounts
  <1>6. CASE /\ Goto(t, "rollback", slice, ClassForCapacity(slice.capacity))
             /\ UNCHANGED <<record, counts>>
    <2>1. /\ IsFiniteSet(Busy')
          /\ At({"attempt"})' = At({"attempt"}) /\ At(Returning)' = At(Returning)
          /\ At({"get", "register"})' = At({"get", "register"}) - 1
      BY <1>1, <1>2, <1>6 DEF Positions, Returning
    <2>2. ReturnsAccounted'
      BY <1>6, <2>1, ReturnsKept, ReturningPlaces, SameRecord, SameCounters DEF Accounts, counts
    <2>3. nextID' + At({"get", "register"})' <= MaxLeases
      BY <1>1, <1>3, <2>1, LeaseAssumption DEF n
    <2>4. ASSUME NEW id \in LeaseIDs, id > nextID' PROVE record'[id].state = "none"
      <3>1. id > nextID
        BY <1>1, <1>3, <2>4 DEF n, LeaseIDs
      <3> QED
        BY <1>6, <3>1 DEF Accounts, Identities
    <2> QED
      BY <2>1, <2>2, <2>3, <2>4 DEF Accounts, Identities
  <1> QED
    BY <1>5, <1>6 DEF Register

(* A valid release ends a lease: its bytes leave the gauge, and the goroutine is on    *)
(* its way to be counted.                                                         *)
LEMMA ReleaseAccounts ==
    ASSUME Types, OtherTypes, Accounts, NEW t \in Threads, NEW id \in LeaseIDs,
           NEW slice \in Views \cup {Nil}, Release(t, id, slice)
    PROVE  Accounts'
  <1> DEFINE bytes == record[id].slice.capacity
             back == CanonicalReturnBuffer(id, slice)
  <1>1. /\ task[t].pc = "idle" /\ Active(id) /\ nextID' = nextID
        /\ record' = Consumed(id)
        /\ Count([releases |-> 1, activeLeases |-> -1, activeBytes |-> -bytes])
        /\ Goto(t, "attempt", back, record[id].origin)
    BY DEF Release, BytesGivenBack
  <1>2. back \in AnySlice /\ record[id].origin \in Nat /\ bytes \in Nat
    BY ViewsAreSlices DEF CanonicalReturnBuffer, Types, AnySlice, Slice, Nil
  <1>3. /\ IsFiniteSet(Busy')
        /\ At({"attempt"}) \in Nat /\ At({"attempt"})' = At({"attempt"}) + 1
        /\ At(Returning)' = At(Returning)
        /\ At({"get", "register"})' = At({"get", "register"})
    <2> HIDE DEF back
    <2> QED
      BY <1>1, <1>2, Moves DEF Positions, Returning
  <1>4. /\ record'[id].state = "released"
        /\ \A other \in LeaseIDs : other # id => record'[other] = record[other]
    BY <1>1 DEF Consumed, NoRecord, Types
  <1>5. /\ id \in ActiveLeases /\ ActiveLeases' = ActiveLeases \ {id}
        /\ id \notin ReleasedLeases /\ ReleasedLeases' = ReleasedLeases \cup {id}
    BY <1>1, <1>4 DEF ActiveLeases, ReleasedLeases, Active
  <1>6. /\ Cardinality(ActiveLeases)' = Cardinality(ActiveLeases) - 1
        /\ Cardinality(ReleasedLeases)' = Cardinality(ReleasedLeases) + 1
    BY <1>5, LeaseSetsFinite, FS_AddElement, FS_RemoveElement
  <1>7. /\ SumFunctionOnSet(LeasedBytes, ActiveLeases)
              = bytes + SumFunctionOnSet(LeasedBytes, ActiveLeases)'
        /\ SumFunctionOnSet(LeasedBytes, ActiveLeases)' \in Nat
    <2> DEFINE S == ActiveLeases
               R == ActiveLeases \ {id}
               f == LeasedBytes
               g == LeasedBytes'
    <2>1. IsFiniteSet(S) /\ id \in S /\ \A x \in S : f[x] \in Nat
      BY <1>5, LeaseSetsFinite, BytesAreNat DEF ActiveLeases
    <2>2. f[id] = bytes /\ \A x \in R : g[x] = f[x]
      BY <1>4 DEF LeasedBytes, ActiveLeases
    <2>3. SumFunctionOnSet(f, S) = f[id] + SumFunctionOnSet(f, S \ {id})
          /\ SumFunctionOnSet(f, S \ {id}) \in Nat
      <3> HIDE DEF S, f
      <3> QED
        BY <2>1, SumElement
    <2>4. SumFunctionOnSet(g, R) = SumFunctionOnSet(f, R)
      <3>1. IsFiniteSet(R)
        BY <2>1, FS_RemoveElement
      <3> HIDE DEF R, f, g
      <3> QED
        BY <2>2, <3>1, SumAgrees
    <2> QED
      BY <1>5, <2>2, <2>3, <2>4
  <1> HIDE DEF bytes, back
  <1>8. /\ counters'.releases = counters.releases + 1
        /\ counters'.activeLeases = counters.activeLeases + (-1)
        /\ counters'.activeBytes = counters.activeBytes + (-bytes)
        /\ counters'.acquisitions = counters.acquisitions
        /\ counters'.poolReturnAttempts = counters.poolReturnAttempts
        /\ counters'.poolReturnSuccesses = counters.poolReturnSuccesses
        /\ counters'.poolReturnFailures = counters.poolReturnFailures
    BY <1>1, Counted DEF NoCounts
  <1>9. /\ counters.acquisitions \in Int /\ counters.releases \in Int
        /\ counters.activeLeases \in Int /\ counters.activeBytes \in Int
        /\ counters.poolReturnAttempts \in Int
    BY DEF OtherTypes, NoCounts
  <1>10. Identities'
    <2>1. ASSUME NEW other \in LeaseIDs, other > nextID PROVE record'[other].state = "none"
      <3>1. record[other].state = "none" /\ other # id
        BY <1>1, <2>1 DEF Accounts, Identities, Active
      <3> QED
        BY <1>4, <3>1
    <2> QED
      BY <1>1, <1>3, <2>1 DEF Accounts, Identities
  <1>11. ReturnsAccounted'
    <2>1. ReturnsAccounted
      BY DEF Accounts
    <2>2. counters'.activeLeases = Cardinality(ActiveLeases)'
      BY <1>6, <1>8, <2>1, LeaseSetsFinite DEF ReturnsAccounted
    <2>3. counters'.activeBytes = SumFunctionOnSet(LeasedBytes, ActiveLeases)'
      BY <1>2, <1>7, <1>8, <1>9, <2>1 DEF ReturnsAccounted
    <2>4. counters'.acquisitions = counters'.releases + counters'.activeLeases
      BY <1>8, <1>9, <2>1 DEF ReturnsAccounted
    <2>5. Cardinality(ReleasedLeases)' = counters'.poolReturnAttempts + At({"attempt"})'
      BY <1>3, <1>6, <1>8, <1>9, <2>1 DEF ReturnsAccounted
    <2>6. counters'.poolReturnAttempts = counters'.poolReturnSuccesses
             + counters'.poolReturnFailures + At(Returning)'
      BY <1>3, <1>8, <2>1, ReturningPlaces DEF ReturnsAccounted
    <2> QED
      BY <2>2, <2>3, <2>4, <2>5, <2>6, ReturningPlaces DEF ReturnsAccounted
  <1> QED
    BY <1>10, <1>11 DEF Accounts

(* The attempt is counted. *)
LEMMA CountAttemptAccounts ==
    ASSUME Types, OtherTypes, Accounts, NEW t \in Threads, CountAttempt(t)
    PROVE  Accounts'
  <1>1. /\ task[t].pc = "attempt" /\ record' = record /\ nextID' = nextID
        /\ Count([poolReturnAttempts |-> 1])
        /\ Goto(t, "handoff", task[t].slice, task[t].class)
        /\ task[t].slice \in AnySlice /\ task[t].class \in Nat
    BY DEF CountAttempt, Types
  <1>2. /\ IsFiniteSet(Busy')
        /\ At({"attempt"}) \in Nat /\ At({"attempt"})' = At({"attempt"}) - 1
        /\ At(Returning) \in Nat /\ At(Returning)' = At(Returning) + 1
        /\ At({"get", "register"})' = At({"get", "register"})
    BY <1>1, Moves DEF Positions, Returning
  <1>3. /\ counters'.poolReturnAttempts = counters.poolReturnAttempts + 1
        /\ counters'.releases = counters.releases
        /\ counters'.activeLeases = counters.activeLeases
        /\ counters'.activeBytes = counters.activeBytes
        /\ counters'.acquisitions = counters.acquisitions
        /\ counters'.poolReturnSuccesses = counters.poolReturnSuccesses
        /\ counters'.poolReturnFailures = counters.poolReturnFailures
    BY <1>1, Counted DEF NoCounts
  <1>4. /\ counters.poolReturnAttempts \in Int /\ counters.poolReturnSuccesses \in Int
        /\ counters.poolReturnFailures \in Int
    BY DEF OtherTypes, NoCounts
  <1>5. Identities'
    BY <1>1, <1>2 DEF Accounts, Identities
  <1>6. ReturnsAccounted'
    <2>1. ReturnsAccounted
      BY DEF Accounts
    <2>2. Cardinality(ReleasedLeases)' = counters'.poolReturnAttempts + At({"attempt"})'
      BY <1>1, <1>2, <1>3, <1>4, <2>1, SameRecord, SameSets DEF ReturnsAccounted
    <2>3. counters'.poolReturnAttempts = counters'.poolReturnSuccesses
             + counters'.poolReturnFailures + At(Returning)'
      <3>1. counters.poolReturnAttempts = counters.poolReturnSuccesses
               + counters.poolReturnFailures + At(Returning)
        BY <2>1, ReturningPlaces DEF ReturnsAccounted
      <3> QED
        BY <1>2, <1>3, <1>4, <3>1
    <2>4. /\ ActiveLeases' = ActiveLeases
          /\ SumFunctionOnSet(LeasedBytes, ActiveLeases)'
                = SumFunctionOnSet(LeasedBytes, ActiveLeases)
      BY <1>1, SameRecord, SameSets
    <2> QED
      BY <1>3, <2>1, <2>2, <2>3, <2>4, ReturningPlaces DEF ReturnsAccounted
  <1> QED
    BY <1>5, <1>6 DEF Accounts

(* The result is counted, once. *)
LEMMA CountResultAccounts ==
    ASSUME Types, OtherTypes, Accounts, NEW t \in Threads, CountResult(t)
    PROVE  Accounts'
  <1>1. /\ task[t].pc \in {"success", "closed", "refused"}
        /\ record' = record /\ nextID' = nextID
        /\ Count(ReturnCounts[task[t].pc])
        /\ Goto(t, "idle", Nil, 0)
    BY ResultKinds DEF CountResult
  <1>2. /\ IsFiniteSet(Busy')
        /\ At({"attempt"})' = At({"attempt"})
        /\ At(Returning) \in Nat /\ At(Returning)' = At(Returning) - 1
        /\ At({"get", "register"})' = At({"get", "register"})
    <2>1. "idle" \in Positions /\ task[t].pc \in Returning /\ "idle" \notin Returning
          /\ task[t].pc \notin {"attempt"} /\ task[t].pc \notin {"get", "register"}
      BY <1>1 DEF Positions, Returning
    <2> QED
      BY <1>1, <2>1, Moves, NilIsNoSlice
  <1>3. /\ counters.poolReturnAttempts \in Int /\ counters.poolReturnSuccesses \in Int
        /\ counters.poolReturnFailures \in Int
    BY DEF OtherTypes, NoCounts
  <1>4. /\ counters'.poolReturnAttempts = counters.poolReturnAttempts
        /\ counters'.releases = counters.releases
        /\ counters'.activeLeases = counters.activeLeases
        /\ counters'.activeBytes = counters.activeBytes
        /\ counters'.acquisitions = counters.acquisitions
        /\ counters'.poolReturnSuccesses \in Int /\ counters'.poolReturnFailures \in Int
        /\ counters'.poolReturnSuccesses + counters'.poolReturnFailures
              = counters.poolReturnSuccesses + counters.poolReturnFailures + 1
    <2>1. CASE task[t].pc = "success"
      <3>1. Count([poolReturnSuccesses |-> 1])
        BY <1>1, <2>1 DEF ReturnCounts
      <3>2. /\ counters'.poolReturnAttempts = counters.poolReturnAttempts
            /\ counters'.releases = counters.releases
            /\ counters'.activeLeases = counters.activeLeases
            /\ counters'.activeBytes = counters.activeBytes
            /\ counters'.acquisitions = counters.acquisitions
            /\ counters'.poolReturnSuccesses = counters.poolReturnSuccesses + 1
            /\ counters'.poolReturnFailures = counters.poolReturnFailures
        BY <3>1, Counted DEF NoCounts
      <3> QED
        BY <1>3, <3>2
    <2>2. CASE task[t].pc = "closed"
      <3>1. Count([poolReturnFailures |-> 1, poolReturnClosedFailures |-> 1])
        BY <1>1, <2>2 DEF ReturnCounts
      <3>2. /\ counters'.poolReturnAttempts = counters.poolReturnAttempts
            /\ counters'.releases = counters.releases
            /\ counters'.activeLeases = counters.activeLeases
            /\ counters'.activeBytes = counters.activeBytes
            /\ counters'.acquisitions = counters.acquisitions
            /\ counters'.poolReturnSuccesses = counters.poolReturnSuccesses
            /\ counters'.poolReturnFailures = counters.poolReturnFailures + 1
        BY <3>1, Counted DEF NoCounts
      <3> QED
        BY <1>3, <3>2
    <2>3. CASE task[t].pc = "refused"
      <3>1. Count([poolReturnFailures |-> 1, poolReturnAdmissionFailures |-> 1])
        BY <1>1, <2>3 DEF ReturnCounts
      <3>2. /\ counters'.poolReturnAttempts = counters.poolReturnAttempts
            /\ counters'.releases = counters.releases
            /\ counters'.activeLeases = counters.activeLeases
            /\ counters'.activeBytes = counters.activeBytes
            /\ counters'.acquisitions = counters.acquisitions
            /\ counters'.poolReturnSuccesses = counters.poolReturnSuccesses
            /\ counters'.poolReturnFailures = counters.poolReturnFailures + 1
        BY <3>1, Counted DEF NoCounts
      <3> QED
        BY <1>3, <3>2
    <2> QED
      BY <1>1, <2>1, <2>2, <2>3
  <1>5. Identities'
    BY <1>1, <1>2 DEF Accounts, Identities
  <1>6. ReturnsAccounted'
    <2>1. ReturnsAccounted
      BY DEF Accounts
    <2>2. counters'.poolReturnAttempts = counters'.poolReturnSuccesses
             + counters'.poolReturnFailures + At(Returning)'
      <3>1. counters.poolReturnAttempts = counters.poolReturnSuccesses
               + counters.poolReturnFailures + At(Returning)
        BY <2>1, ReturningPlaces DEF ReturnsAccounted
      <3> QED
        BY <1>2, <1>3, <1>4, <3>1
    <2>3. /\ ActiveLeases' = ActiveLeases /\ ReleasedLeases' = ReleasedLeases
          /\ SumFunctionOnSet(LeasedBytes, ActiveLeases)'
                = SumFunctionOnSet(LeasedBytes, ActiveLeases)
      BY <1>1, SameRecord, SameSets
    <2> QED
      BY <1>2, <1>4, <2>1, <2>2, <2>3, ReturningPlaces DEF ReturnsAccounted
  <1> QED
    BY <1>5, <1>6 DEF Accounts

LEMMA CountViolationAccounts ==
    ASSUME Types, OtherTypes, Accounts, NEW t \in Threads, CountViolation(t)
    PROVE  Accounts'
  <1>1. /\ task[t].pc \in Violations /\ record' = record /\ nextID' = nextID
        /\ Count(ViolationCounts[task[t].pc]) /\ Goto(t, "idle", Nil, 0)
    BY DEF CountViolation
  <1>2. SamePlaces /\ SameIdentities
    BY <1>1, MovesElsewhere, NilIsNoSlice, ViolationKinds DEF Positions, Elsewhere
  <1>3. /\ DOMAIN ViolationCounts[task[t].pc] \subseteq
              {"invalidReleases", "doubleReleases", "ownershipViolations",
               "foreignBufferReleases", "capacityGrowthViolations"}
    BY <1>1, ViolationKinds DEF ViolationCounts
  <1>4. SameCounts
    <2>1. \A k \in DOMAIN NoCounts :
             k \notin DOMAIN ViolationCounts[task[t].pc] => counters'[k] = counters[k]
      BY <1>1, Counted
    <2> QED
      BY <1>3, <2>1 DEF SameCounts, NoCounts
  <1> QED
    BY <1>1, <1>2, <1>4, NothingAccounted, SameRecord

LEMMA RejectionAccounts ==
    ASSUME Types, Accounts, NEW t \in Threads, NEW v \in Kinds \ {"none"}, Reject(t, v), SameRecords
    PROVE  Accounts'
  <1>1. /\ task[t].pc = "idle" /\ Goto(t, v, Nil, 0) /\ nextID' = nextID /\ counters' = counters
    BY DEF Reject, counts
  <1>2. SamePlaces /\ SameIdentities
    BY <1>1, MovesElsewhere, NilIsNoSlice DEF Positions, Elsewhere, Kinds
  <1> QED
    BY <1>1, <1>2, NothingAccounted, SameCounters

LEMMA RejectReleaseAccounts ==
    ASSUME Types, Accounts, NEW t \in Threads, NEW id \in LeaseIDs,
           NEW slice \in Views \cup {Nil}, RejectRelease(t, id, slice)
    PROVE  Accounts'
  <1>1. CASE Reject(t, "double") /\ UNCHANGED record
    BY <1>1, RejectionAccounts, SameRecord DEF Kinds
  <1>2. CASE /\ ~ValidRelease(id, slice) /\ Reject(t, Violation(id, slice))
             /\ record' = [record EXCEPT ![id].violation = Violation(id, slice)]
    <2>1. Violation(id, slice) \in Kinds \ {"none"}
      BY <1>2 DEF ValidRelease, Violation, Kinds
    <2>2. SameRecords
      BY <1>2 DEF SameRecords, Types
    <2> QED
      BY <1>2, <2>1, <2>2, RejectionAccounts
  <1> QED
    BY <1>1, <1>2 DEF RejectRelease

LEMMA PoolReturnAccounts ==
    ASSUME Types, Accounts, NEW t \in Threads, Rollback(t) \/ PutOwned(t)
    PROVE  Accounts'
  <1>1. record' = record /\ counters' = counters /\ nextID' = nextID
    BY DEF Rollback, PutOwned, counts
  <1>2. SamePlaces /\ SameIdentities
    <2>1. CASE Rollback(t)
      BY <1>1, <2>1, MovesElsewhere, NilIsNoSlice DEF Rollback, Positions, Elsewhere
    <2>2. CASE PutOwned(t)
      <3>1. \E pc \in {"success", "refused", "closed"} : Goto(t, pc, Nil, 0)
        <4>1. CASE poolOpen
          BY <2>2, <4>1, Zenon DEF PutOwned
        <4>2. CASE ~poolOpen
          BY <2>2, <4>2, Zenon DEF PutOwned
        <4> QED
          BY <4>1, <4>2
      <3>2. PICK pc \in {"success", "refused", "closed"} : Goto(t, pc, Nil, 0)
        BY <3>1
      <3>3. task[t].pc = "handoff" /\ pc \in Positions
        BY <2>2 DEF PutOwned, Positions
      <3> QED
        BY <1>1, <3>2, <3>3, MovesElsewhere, NilIsNoSlice
    <2> QED
      BY <2>1, <2>2
  <1> QED
    BY <1>1, <1>2, NothingAccounted, SameRecord, SameCounters

LEMMA AccountsStep ==
    ASSUME IInv, OtherTypes, Accounts, [Next]_vars
    PROVE  Accounts'
  <1>0. Types /\ SlicesFit
    BY DEF IInv
  <1>1. CASE CloseRegistry \/ ClosePool \/ UNCHANGED vars
    <2>1. record' = record /\ counters' = counters /\ nextID' = nextID /\ task' = task
      BY <1>1 DEF CloseRegistry, ClosePool, vars, counts
    <2> QED
      BY <2>1, SameTasks, NothingAccounted, SameRecord, SameCounters
  <1>2. ASSUME NEW t \in Threads, Step(t) PROVE Accounts'
    <2>1. ASSUME NEW c \in ClassSizes, StartAcquire(t, c) PROVE Accounts'
      BY <1>0, <2>1, StartAcquireAccounts
    <2>2. CASE PoolGet(t)
      BY <1>0, <2>2, PoolGetAccounts
    <2>3. CASE Register(t)
      BY <1>0, <2>3, RegisterAccounts
    <2>4. CASE Rollback(t) \/ PutOwned(t)
      BY <1>0, <2>4, PoolReturnAccounts
    <2>5. ASSUME NEW id \in LeaseIDs, NEW slice \in Views \cup {Nil},
                 Release(t, id, slice) \/ RejectRelease(t, id, slice)
          PROVE  Accounts'
      BY <1>0, <2>5, ReleaseAccounts, RejectReleaseAccounts
    <2>6. CASE RejectLease(t)
      BY <1>0, <2>6, RejectionAccounts, SameRecord DEF RejectLease, Kinds
    <2>7. CASE CountViolation(t)
      BY <1>0, <2>7, CountViolationAccounts
    <2>8. CASE CountAttempt(t)
      BY <1>0, <2>8, CountAttemptAccounts
    <2>9. CASE CountResult(t)
      BY <1>0, <2>9, CountResultAccounts
    <2> QED
      BY <1>2, <2>1, <2>2, <2>3, <2>4, <2>5, <2>6, <2>7, <2>8, <2>9 DEF Step
  <1> QED
    BY <1>1, <1>2 DEF Next

(* The gauges are the number and the bytes of the active leases, and every released   *)
(* lease is counted as one attempt and one result, however releases are repeated,    *)
(* raced with each other or with Close (lease_counters.go:36-161).                *)
THEOREM EveryReturnAccounted == Spec => []ReturnsAccounted
  <1>1. Init => IInv /\ OtherTypes /\ Accounts
    BY Inductive, OtherTypesInit, AccountsInit
  <1>2. IInv /\ OtherTypes /\ Accounts /\ [Next]_vars => (IInv /\ OtherTypes /\ Accounts)'
    BY Inductive, OtherTypesStep, AccountsStep DEF IInv
  <1>3. IInv /\ OtherTypes /\ Accounts => ReturnsAccounted
    BY DEF Accounts
  <1> QED
    BY <1>1, <1>2, <1>3, PTL DEF Spec

=============================================================================
