---------------------------- MODULE LeaseRegistry ----------------------------
(* Leases of Pool buffers (lease_registry_acquire.go, lease_registry_release.go, *)
(* lease_registry_lifecycle.go, ownership_validation.go).                       *)
(*                                                                             *)
(* A registry critical section is one action.  The Pool is entered only outside *)
(* the registry lock, so an acquisition is a lifecycle check, a Pool get and a  *)
(* registration, and a release is an ownership transition, a counted attempt,   *)
(* a Pool return and a counted result: other goroutines, the Close of the       *)
(* registry and the Close of the Pool run between them.  Each Pool call is one  *)
(* action, which PoolGate justifies: a call Close has admitted ends before Close *)
(* clears the retained storage.                                                *)
(*                                                                             *)
(* A slice is the base of a backing array with a capacity.  Callers may release *)
(* any lease with any slice, also one they gave up before.                     *)
EXTENDS Integers, Sequences, FiniteSets, Functions

CONSTANTS Threads,     \* goroutines
          Bases,       \* identities of backing arrays
          ClassSizes,  \* sizes of the Pool's classes
          Growth,      \* OwnershipPolicy.MaxReturnedCapacityGrowth, as a factor
          Capacities,  \* capacities of the slices callers make themselves
          SlotLimit,   \* buffers the Pool retains per class
          MaxLeases,   \* bound of the model: leases acquired in one behaviour
          MaxRejected, \* bound of the model: rejected releases in one behaviour
          NoBase       \* the base of a nil slice

ASSUME LeaseAssumption ==
    /\ IsFiniteSet(ClassSizes) /\ ClassSizes # {} /\ ClassSizes \subseteq Nat \ {0}
    /\ Growth \in Nat \ {0} /\ Capacities \subseteq Nat \ {0}
    /\ SlotLimit \in Nat /\ MaxLeases \in Nat /\ MaxRejected \in Nat
    /\ NoBase \notin Bases

VARIABLES mode,          \* OwnershipPolicy.Mode
          registryOpen,  \* lifecycle of the registry allows work
          poolOpen,      \* lifecycle of the Pool allows work
          record,        \* record[id]: the lease record
          nextID,        \* last lease identity handed out
          backing,       \* capacity of the array at a base, 0 when there is none
          retained,      \* retained[c]: the slices the Pool keeps in class c
          task,          \* what each goroutine is in the middle of
          counters,      \* leaseCounters
          generation     \* of the registry, one step with every counted event

lifecycles == <<mode, registryOpen, poolOpen>>
counts == <<counters, generation>>
vars == <<lifecycles, record, nextID, backing, retained, task, counts>>

Nil   == [base |-> NoBase, capacity |-> 0]
Slice == [base : Bases, capacity : Nat \ {0}]
LeaseIDs == 1 .. MaxLeases

NoRecord == [state |-> "none", slice |-> Nil, requested |-> 0, origin |-> 0,
             violation |-> "none"]
Idle == [pc |-> "idle", slice |-> Nil, class |-> 0]

(* Steps of a goroutine that carry a buffer no other part of the system has. *)
Carrying == {"register", "rollback", "attempt", "handoff"}

(* leaseCounters without the totals of bytes that only grow, and what the result of *)
(* a release adds to them                                                      *)
NoCounts ==
    [acquisitions |-> 0, releases |-> 0, activeLeases |-> 0, activeBytes |-> 0,
     invalidReleases |-> 0, doubleReleases |-> 0, ownershipViolations |-> 0,
     foreignBufferReleases |-> 0, capacityGrowthViolations |-> 0,
     poolReturnAttempts |-> 0, poolReturnSuccesses |-> 0, poolReturnFailures |-> 0,
     poolReturnClosedFailures |-> 0, poolReturnAdmissionFailures |-> 0]
ViolationCounts ==
    [invalid |-> [invalidReleases |-> 1],
     double  |-> [doubleReleases |-> 1],
     foreign |-> [ownershipViolations |-> 1, foreignBufferReleases |-> 1],
     growth  |-> [ownershipViolations |-> 1, capacityGrowthViolations |-> 1]]
Violations == DOMAIN ViolationCounts
ReturnCounts ==
    [success |-> [poolReturnSuccesses |-> 1],
     closed  |-> [poolReturnFailures |-> 1, poolReturnClosedFailures |-> 1],
     refused |-> [poolReturnFailures |-> 1, poolReturnAdmissionFailures |-> 1]]

(* Counters and generation move together, under the registry lock. *)
Count(added) ==
    /\ counters' = [k \in DOMAIN counters |->
                       counters[k] + IF k \in DOMAIN added THEN added[k] ELSE 0]
    /\ generation' = generation + 1

-----------------------------------------------------------------------------
(* Size classes; a requested size is represented by the class that serves it. *)

MaxOf(S) == CHOOSE x \in S : \A y \in S : y <= x

ClassForCapacity(capacity) == MaxOf({c \in ClassSizes : c <= capacity})

RatioUnscaled(origin) == Growth
MaxReturnedCapacity(origin) == Growth * origin

-----------------------------------------------------------------------------
(* Where a backing array is reachable from. *)

Active(id) == record[id].state = "active"

Leases(b)  == {id \in LeaseIDs : Active(id) /\ record[id].slice.base = b}
Carriers(b) == {t \in Threads : task[t].pc \in Carrying /\ task[t].slice.base = b}
Stored(b)  == {slot \in ClassSizes \X (1 .. SlotLimit) :
                  /\ slot[2] <= Len(retained[slot[1]])
                  /\ retained[slot[1]][slot[2]].base = b}

Unreachable(b) == Leases(b) = {} /\ Carriers(b) = {} /\ Stored(b) = {}

-----------------------------------------------------------------------------
(* Validation of a release *)

(* bufferBackingData(buffer) = record.data; accounting mode does not compare. *)
KeepsBase(id, slice) == mode = "strict" => slice.base = record[id].slice.base

NoGrowthCheck(id, slice) == TRUE
WithinGrowth(id, slice) == slice.capacity <= MaxReturnedCapacity(record[id].origin)

(* The first check that fails names the violation; Nil also stands for a slice   *)
(* without capacity.                                                          *)
Violation(id, slice) ==
    IF slice = Nil THEN "invalid"
    ELSE IF ~KeepsBase(id, slice) THEN "foreign"
    ELSE IF ~WithinGrowth(id, slice) THEN "growth" ELSE "none"
ValidRelease(id, slice) == Violation(id, slice) = "none"

(* canonicalLeaseReturnBuffer *)
CanonicalReturnBuffer(id, slice) ==
    IF mode = "strict" THEN record[id].slice ELSE slice

-----------------------------------------------------------------------------
Init ==
    /\ mode \in {"strict", "accounting"}
    /\ registryOpen = TRUE /\ poolOpen = TRUE
    /\ record = [id \in LeaseIDs |-> NoRecord]
    /\ nextID = 0
    /\ backing = [b \in Bases |-> 0]
    /\ retained = [c \in ClassSizes |-> <<>>]
    /\ task = [t \in Threads |-> Idle]
    /\ counters = NoCounts /\ generation = 1

Goto(t, pc, slice, class) ==
    task' = [task EXCEPT ![t] = [pc |-> pc, slice |-> slice, class |-> class]]

(* AcquireSize: the unlocked lifecycle check comes before the Pool is entered. *)
StartAcquire(t, c) ==
    /\ task[t].pc = "idle" /\ registryOpen
    /\ nextID + Cardinality({u \in Threads : task[u].pc \in {"get", "register"}}) < MaxLeases
    /\ Goto(t, "get", Nil, c)
    /\ UNCHANGED <<lifecycles, record, nextID, backing, retained, counts>>

(* Pool.GetSize: fails on a closed Pool, else pops a retained slice or allocates. *)
PoolGet(t) ==
    LET c == task[t].class IN
    /\ task[t].pc = "get"
    /\ \/ ~poolOpen /\ Goto(t, "idle", Nil, 0) /\ UNCHANGED <<backing, retained>>
       \/ /\ poolOpen /\ retained[c] # <<>>
          /\ Goto(t, "register", retained[c][Len(retained[c])], c)
          /\ retained' = [retained EXCEPT ![c] = SubSeq(@, 1, Len(@) - 1)]
          /\ UNCHANGED backing
       \/ /\ poolOpen /\ retained[c] = <<>>
          /\ \E b \in Bases :
                /\ Unreachable(b)
                /\ backing' = [backing EXCEPT ![b] = c]
                /\ Goto(t, "register", [base |-> b, capacity |-> c], c)
          /\ UNCHANGED retained
    /\ UNCHANGED <<lifecycles, record, nextID, counts>>

(* AcquireSize under the registry lock: the lifecycle is checked again, and a     *)
(* buffer that came too late is rolled back.                                    *)
NoSecondCheck == TRUE
StillOpen == registryOpen

Register(t) ==
    LET slice == task[t].slice IN
    /\ task[t].pc = "register"
    /\ nextID' = nextID + 1
    /\ \/ /\ StillOpen
          /\ record' = [record EXCEPT ![nextID + 1] =
                [state |-> "active", slice |-> slice, requested |-> task[t].class,
                 origin |-> ClassForCapacity(slice.capacity), violation |-> "none"]]
          /\ Count([acquisitions |-> 1, activeLeases |-> 1, activeBytes |-> slice.capacity])
          /\ Goto(t, "idle", Nil, 0)
       \/ /\ ~StillOpen
          /\ Goto(t, "rollback", slice, ClassForCapacity(slice.capacity))
          /\ UNCHANGED <<record, counts>>
    /\ UNCHANGED <<lifecycles, backing, retained>>

(* Class admission, and then credit and slots, which may refuse the slice; class  *)
(* admission refuses a slice smaller than the class.                            *)
ClassAdmits(slice, c) == slice.capacity >= c

HasSlot(c) == Len(retained[c]) < SlotLimit

Retain(slice, c) ==
    /\ poolOpen /\ ClassAdmits(slice, c) /\ HasSlot(c)
    /\ retained' = [retained EXCEPT ![c] = Append(@, slice)]

(* Pool.Put(buffer): routed by capacity, result ignored. *)
Rollback(t) ==
    /\ task[t].pc = "rollback"
    /\ Retain(task[t].slice, task[t].class) \/ UNCHANGED retained
    /\ Goto(t, "idle", Nil, 0)
    /\ UNCHANGED <<lifecycles, record, nextID, backing, counts>>

-----------------------------------------------------------------------------
(* The slices a caller can pass: views of an array that exists, an array of its   *)
(* own, and nil.                                                               *)
Views == {[base |-> b, capacity |-> n] : b \in Bases, n \in Capacities \cup ClassSizes}
Passable(slice) ==
    \/ slice = Nil
    \/ slice.base # NoBase /\ slice.capacity <= backing[slice.base]
    \/ slice.base # NoBase /\ Unreachable(slice.base)

(* releaseRecord: the state changes only when the release is valid; the record,    *)
(* the active map and its gauges change in one critical section.                 *)
StayActive(id) == record
Consumed(id) == [record EXCEPT ![id] = [NoRecord EXCEPT !.state = "released"]]

(* The gauge loses what the lease had added, not what came back. *)
ReturnedBytes(id, slice) == slice.capacity
BytesGivenBack(id, slice) == record[id].slice.capacity

Release(t, id, slice) ==
    /\ task[t].pc = "idle" /\ Active(id) /\ Passable(slice)
    /\ ValidRelease(id, slice)
    /\ record' = Consumed(id)
    /\ Count([releases |-> 1, activeLeases |-> -1, activeBytes |-> -BytesGivenBack(id, slice)])
    /\ Goto(t, "attempt", CanonicalReturnBuffer(id, slice), record[id].origin)
    /\ backing' = IF Unreachable(slice.base)
                  THEN [backing EXCEPT ![slice.base] = slice.capacity] ELSE backing
    /\ UNCHANGED <<lifecycles, nextID, retained>>

(* A release of a lease already released, or with a slice that is not valid, leaves *)
(* the lease as it is; the violation is counted in a critical section of its own. *)
At(pcs) == Cardinality({t \in Threads : task[t].pc \in pcs})
Rejections == counters.invalidReleases + counters.doubleReleases + counters.ownershipViolations
Reject(t, violation) ==
    /\ task[t].pc = "idle" /\ Rejections + At(Violations) < MaxRejected
    /\ Goto(t, violation, Nil, 0)
    /\ UNCHANGED <<lifecycles, nextID, backing, retained, counts>>

RejectRelease(t, id, slice) ==
    /\ Passable(slice)
    /\ \/ record[id].state = "released" /\ Reject(t, "double") /\ UNCHANGED record
       \/ /\ Active(id) /\ ~ValidRelease(id, slice)
          /\ Reject(t, Violation(id, slice))
          /\ record' = [record EXCEPT ![id].violation = Violation(id, slice)]

(* Release of a lease of another registry *)
RejectLease(t) == Reject(t, "invalid") /\ UNCHANGED record

(* recordInvalidRelease *)
CountViolation(t) ==
    /\ task[t].pc \in Violations
    /\ Count(ViolationCounts[task[t].pc])
    /\ Goto(t, "idle", Nil, 0)
    /\ UNCHANGED <<lifecycles, record, nextID, backing, retained>>

(* recordPoolReturnAttempt *)
CountAttempt(t) ==
    /\ task[t].pc = "attempt"
    /\ Count([poolReturnAttempts |-> 1])
    /\ Goto(t, "handoff", task[t].slice, task[t].class)
    /\ UNCHANGED <<lifecycles, record, nextID, backing, retained>>

(* putOwnedBuffer: routed by the origin class of the record.  A refusal is an      *)
(* error or silent, as the policy has it; so is a return to a closed Pool.       *)
PutOwned(t) ==
    LET slice == task[t].slice  c == task[t].class IN
    /\ task[t].pc = "handoff"
    /\ \/ Retain(slice, c) /\ Goto(t, "success", Nil, 0)
       \/ UNCHANGED retained /\ Goto(t, "success", Nil, 0)
       \/ UNCHANGED retained /\ Goto(t, IF poolOpen THEN "refused" ELSE "closed", Nil, 0)
    /\ UNCHANGED <<lifecycles, record, nextID, backing, counts>>

(* recordPoolReturnSuccess, recordPoolReturnFailure *)
CountResult(t) ==
    /\ task[t].pc \in DOMAIN ReturnCounts
    /\ Count(ReturnCounts[task[t].pc])
    /\ Goto(t, "idle", Nil, 0)
    /\ UNCHANGED <<lifecycles, record, nextID, backing, retained>>

-----------------------------------------------------------------------------
(* LeaseRegistry.Close; released and active records stay as they are. *)
CloseRegistry ==
    /\ registryOpen
    /\ registryOpen' = FALSE
    /\ generation' = generation + 1
    /\ UNCHANGED <<mode, poolOpen, record, nextID, backing, retained, task, counters>>

(* Pool.Close, with or without clearing the retained storage. *)
ClosePool ==
    /\ poolOpen
    /\ poolOpen' = FALSE
    /\ retained' = [c \in ClassSizes |-> <<>>] \/ UNCHANGED retained
    /\ UNCHANGED <<mode, registryOpen, record, nextID, backing, task, counts>>

Step(t) ==
    \/ \E c \in ClassSizes : StartAcquire(t, c)
    \/ PoolGet(t) \/ Register(t) \/ Rollback(t)
    \/ \E id \in LeaseIDs, slice \in Views \cup {Nil} :
          Release(t, id, slice) \/ RejectRelease(t, id, slice)
    \/ RejectLease(t) \/ CountViolation(t)
    \/ CountAttempt(t) \/ PutOwned(t) \/ CountResult(t)

Next == CloseRegistry \/ ClosePool \/ \E t \in Threads : Step(t)

Spec == Init /\ [][Next]_vars

-----------------------------------------------------------------------------
(* Properties *)

(* Types.  That the gauges stay positive is a matter of ReturnsAccounted.          *)
TypeOK ==
    /\ mode \in {"strict", "accounting"}
    /\ registryOpen \in BOOLEAN /\ poolOpen \in BOOLEAN
    /\ record \in [LeaseIDs -> [state : {"none", "active", "released"}, slice : Slice \cup {Nil},
                                requested : Nat, origin : Nat, violation : Violations \cup {"none"}]]
    /\ nextID \in Nat /\ generation \in Nat
    /\ counters \in [DOMAIN NoCounts -> Int]
    /\ backing \in [Bases -> Nat]
    /\ retained \in [ClassSizes -> Seq(Slice)]
    /\ \A c \in ClassSizes : Len(retained[c]) <= SlotLimit
    /\ task \in [Threads -> [pc : {"idle", "get"} \cup Carrying \cup Violations
                                        \cup DOMAIN ReturnCounts,
                              slice : Slice \cup {Nil}, class : Nat]]

(* In strict mode a backing array is in at most one place at any moment: one       *)
(* active lease, one goroutine between a critical section and a Pool call, or one  *)
(* retained slot.  Two callers are never handed the same memory, whatever slices   *)
(* they release, twice or concurrently (ownership_validation.go:37-41).           *)
ExclusiveOwnership ==
    mode = "strict" => \A b \in Bases :
        Cardinality(Leases(b)) + Cardinality(Carriers(b)) + Cardinality(Stored(b)) <= 1

(* Every retained slice can serve the class that keeps it and exceeds it by no     *)
(* more than the growth limit; in strict mode, where a clipped view is replaced by *)
(* the acquired slice, it has exactly the capacity of the class.                 *)
RetainedFitsClass ==
    \A c \in ClassSizes : \A i \in DOMAIN retained[c] :
        /\ retained[c][i].capacity >= c
        /\ retained[c][i].capacity <= MaxReturnedCapacity(c)
        /\ mode = "strict" => retained[c][i].capacity = c

(* An active lease can always be ended by its own slice (ReleaseUnchanged), however *)
(* the Pool came by that slice.                                                 *)
OwnSliceReleases == \A id \in LeaseIDs : Active(id) => ValidRelease(id, record[id].slice)

(* The counters agree with the leases at every step, although they are counted in  *)
(* several critical sections: the gauges are the number and the capacities of the  *)
(* active leases, whatever slices came back for the others and however many        *)
(* releases were rejected; every released lease is on its way to being counted as  *)
(* an attempt, and every attempt as one result (lease_counters.go:36-161).       *)
ActiveLeases == {id \in LeaseIDs : Active(id)}
LeasedBytes == [id \in LeaseIDs |-> record[id].slice.capacity]
ReleasedLeases == {id \in LeaseIDs : record[id].state = "released"}
ReturnsAccounted ==
    /\ counters.activeLeases = Cardinality(ActiveLeases)
    /\ counters.activeBytes = SumFunctionOnSet(LeasedBytes, ActiveLeases)
    /\ counters.acquisitions = counters.releases + counters.activeLeases
    /\ Cardinality(ReleasedLeases) = counters.poolReturnAttempts + At({"attempt"})
    /\ counters.poolReturnAttempts
          = counters.poolReturnSuccesses + counters.poolReturnFailures
            + At({"handoff"} \cup DOMAIN ReturnCounts)

(* Once the registry is closed no lease becomes active, also when the acquisition  *)
(* passed its first check before the Close.                                     *)
NoLeaseAfterClose ==
    [][~registryOpen => \A id \in LeaseIDs : Active(id)' => Active(id)]_vars
=============================================================================
