--------------------------- MODULE PartitionActivity ---------------------------
(* Which Pools a partition controller looks at (partition_active_registry.go,     *)
(* partition_controller_*.go), and the retained budget it gives them.            *)
(*                                                                               *)
(* Operations move the counters of a Pool and then set its active and its dirty   *)
(* bit, with one CAS each and no lock.  A controller cycle chooses Pools from     *)
(* those bits, samples them, compares with the previous sample, publishes budgets *)
(* and only then expires idle Pools and clears all dirty bits.  Every read of a   *)
(* bit set, a Pool's counters, and every CAS is an action; cycleGate and          *)
(* controller.mu let one cycle run at a time.                                    *)
(*                                                                               *)
(* The counters of a Pool are one number.  Scores are left open: a budget         *)
(* allocation is any that the allocator could return for some scores.            *)
EXTENDS Integers, FiniteSets

LOCAL INSTANCE FiniteSetsExt

CONSTANTS NumPools,          \* Pools of the partition
          Threads,           \* goroutines that use leases
          FullScanInterval,  \* partitionControllerFullScanInterval
          PoolBytes,         \* retained budget of a Pool under its own policy
          ParentBytes,       \* MaxRetainedBytes of the partition policy, bounded
          MaxCount           \* bound of the model: operations counted per Pool

ASSUME PartitionAssumption ==
    /\ NumPools \in Nat \ {0} /\ FullScanInterval \in Nat \ {0}
    /\ PoolBytes \in Nat /\ ParentBytes \in Nat \ {0} /\ MaxCount \in Nat

VARIABLES active,       \* activeBits
          dirty,        \* dirtyBits
          idleWindows,  \* consecutive clean windows without movement
          count,        \* lifetime counters of each Pool
          assigned,     \* retained bytes assigned to each Pool
          cycles,       \* controller.cycles, modulo FullScanInterval
          hasPrevious,  \* controller.hasPreviousSample
          previous,     \* controller.previousSample; a Pool it lacks reads as zero
          cycle,        \* the running controller cycle
          task,         \* what each goroutine executes next
          (* History, read by the properties only *)
          seen,         \* count of each Pool in the last committed sample of it
          quietMark,    \* latest count marked dirty while no cycle ran
          missed        \* committed cycles since each Pool was last sampled

registry   == <<active, dirty, idleWindows>>
controller == <<cycles, hasPrevious, previous, seen, missed>>
vars == <<registry, count, assigned, controller, cycle, task, quietMark>>

Pools == 1 .. NumPools

IdleWindowLimit == 2

NoCycle == [pc |-> "idle", indexes |-> {}, todo |-> {},
            sample |-> [p \in Pools |-> 0], dirtySeen |-> {}]
NoTask  == [pc |-> "idle", pool |-> 1, at |-> 0]

(* newPartitionActiveRegistry: every Pool is active; Pools carry the budget of    *)
(* their own policy.                                                             *)
Init ==
    /\ active = Pools /\ dirty = {}
    /\ idleWindows = [p \in Pools |-> 0]
    /\ count = [p \in Pools |-> 0]
    /\ assigned = [p \in Pools |-> PoolBytes]
    /\ cycles = 0 /\ hasPrevious = FALSE
    /\ previous = [p \in Pools |-> 0]
    /\ cycle = NoCycle
    /\ task = [t \in Threads |-> NoTask]
    /\ seen = [p \in Pools |-> 0]
    /\ quietMark = [p \in Pools |-> 0]
    /\ missed = [p \in Pools |-> 0]

-----------------------------------------------------------------------------
(* Operations of the data plane *)

Counted(p) == count[p] < MaxCount /\ count' = [count EXCEPT ![p] = @ + 1]

(* Acquire or Release through the partition; the Pool has counted the call. *)
Operate(t, p) ==
    /\ task[t].pc = "idle"
    /\ Counted(p)
    /\ task' = [task EXCEPT ![t] = [pc |-> "markActive", pool |-> p, at |-> count[p] + 1]]
    /\ UNCHANGED <<registry, assigned, controller, cycle, quietMark>>

(* Lease.Release goes to the registry and the Pool, and marks nothing. *)
OperateDirectly(p) ==
    /\ Counted(p)
    /\ UNCHANGED <<registry, assigned, controller, cycle, task, quietMark>>

Goto(t, pc) == task' = [task EXCEPT ![t].pc = pc]

(* markActiveIndex: the CAS, and under mu the reset of the idle windows when the   *)
(* bit changed.                                                                  *)
MarkActive(t) ==
    /\ task[t].pc = "markActive"
    /\ Goto(t, IF task[t].pool \in active THEN "markDirty" ELSE "resetIdle")
    /\ active' = active \cup {task[t].pool}
    /\ UNCHANGED <<dirty, idleWindows, count, assigned, controller, cycle, quietMark>>

ResetIdle(t) ==
    /\ task[t].pc = "resetIdle"
    /\ idleWindows' = [idleWindows EXCEPT ![task[t].pool] = 0]
    /\ Goto(t, "markDirty")
    /\ UNCHANGED <<active, dirty, count, assigned, controller, cycle, quietMark>>

(* markDirtyIndex *)
MarkDirty(t) ==
    LET p == task[t].pool IN
    /\ task[t].pc = "markDirty"
    /\ dirty' = dirty \cup {p}
    /\ task' = [task EXCEPT ![t] = NoTask]
    /\ quietMark' = IF cycle.pc = "idle" /\ quietMark[p] < task[t].at
                    THEN [quietMark EXCEPT ![p] = task[t].at] ELSE quietMark
    /\ UNCHANGED <<active, idleWindows, count, assigned, controller, cycle>>

(* A policy or pressure publication marks every Pool. *)
MarkAllDirty ==
    /\ dirty' = Pools
    /\ UNCHANGED <<active, idleWindows, count, assigned, controller, cycle, task, quietMark>>

-----------------------------------------------------------------------------
(* TickInto: evaluation *)

FullScan == cycles = 0

(* controllerSampleIndexes: all Pools, or the active ones ... *)
ChooseActive ==
    /\ cycle.pc = "idle"
    /\ cycle' = [NoCycle EXCEPT
                    !.pc = IF FullScan THEN "sample" ELSE "chooseDirty",
                    !.indexes = IF FullScan THEN Pools ELSE active,
                    !.todo = IF FullScan THEN Pools ELSE {}]
    /\ UNCHANGED <<registry, count, assigned, controller, task, quietMark>>

(* ... and the dirty ones *)
ActiveOnly(chosen) == chosen
SampledWith(chosen) == chosen \cup dirty

ChooseDirty ==
    /\ cycle.pc = "chooseDirty"
    /\ cycle' = [cycle EXCEPT !.pc = "sample",
                              !.indexes = SampledWith(cycle.indexes),
                              !.todo = SampledWith(cycle.indexes)]
    /\ UNCHANGED <<registry, count, assigned, controller, task, quietMark>>

(* Pools are sampled one by one, in registry order. *)
SamplePool ==
    /\ cycle.pc = "sample"
    /\ \E p \in cycle.todo :
          /\ \A q \in cycle.todo : p <= q
          /\ cycle' = [cycle EXCEPT !.sample = [cycle.sample EXCEPT ![p] = count[p]],
                                    !.todo = cycle.todo \ {p}]
    /\ UNCHANGED <<registry, count, assigned, controller, task, quietMark>>

(* dirtyIndexes, read after the samples *)
ReadDirty ==
    /\ cycle.pc = "sample" /\ cycle.todo = {}
    /\ cycle' = [cycle EXCEPT !.pc = "publish", !.dirtySeen = dirty]
    /\ UNCHANGED <<registry, count, assigned, controller, task, quietMark>>

(* The window of a Pool moved: without a previous sample nothing has moved; a Pool *)
(* the previous sample lacks is compared with zero counters.                      *)
Moved(p) == hasPrevious /\ cycle.sample[p] # previous[p]

(* controllerPoolActivityDeltas *)
DirtyOnly(p) == p \in cycle.dirtySeen
ActiveDelta(p) == p \in cycle.dirtySeen \/ Moved(p)

-----------------------------------------------------------------------------
(* TickInto: publication *)

SumOf(f, S) == MapThenSumSet(LAMBDA p : f[p], S)
MinOf(a, b) == IF a < b THEN a ELSE b

(* allocateBudgetTargetsReport over the sampled Pools: the current assignments are *)
(* the base; they are cut to the parent budget, or the rest of it is distributed  *)
(* up to the budget of each Pool.                                                *)
Allocations(S) ==
    {f \in [S -> 0 .. PoolBytes] :
        IF SumOf(assigned, S) >= ParentBytes
        THEN SumOf(f, S) = ParentBytes /\ \A p \in S : f[p] <= assigned[p]
        ELSE /\ SumOf(f, S) = MinOf(ParentBytes, PoolBytes * Cardinality(S))
             /\ \A p \in S : f[p] >= assigned[p]}

(* A published batch marks its Pools dirty. *)
Publish ==
    /\ cycle.pc = "publish"
    /\ cycle' = [cycle EXCEPT !.pc = "observe"]
    /\ \E f \in Allocations(cycle.indexes) :
          assigned' = [p \in Pools |-> IF p \in cycle.indexes THEN f[p] ELSE assigned[p]]
    /\ dirty' = dirty \cup cycle.indexes
    /\ UNCHANGED <<active, idleWindows, count, controller, task, quietMark>>

(* A failed or unpublished cycle commits nothing. *)
CountCycle == cycles' = IF cycles + 1 = FullScanInterval THEN 0 ELSE cycles + 1
AbandonCounted ==
    /\ cycle.pc = "publish"
    /\ cycle' = NoCycle
    /\ CountCycle
    /\ UNCHANGED <<registry, count, assigned, hasPrevious, previous, seen, missed, task,
                   quietMark>>
Abandon ==
    /\ cycle.pc = "publish"
    /\ cycle' = NoCycle
    /\ UNCHANGED <<registry, count, assigned, controller, task, quietMark>>

-----------------------------------------------------------------------------
(* TickInto: commitAppliedPartitionControllerCycle *)

(* A sampled Pool that is still active, without movement, and was clean. *)
IdlesAgain(p) == p \in cycle.indexes /\ ~ActiveDelta(p) /\ p \in active \ cycle.dirtySeen

NextIdle(p) ==
    IF p \in cycle.indexes /\ ActiveDelta(p) THEN 0
    ELSE IF IdlesAgain(p) THEN MinOf(idleWindows[p] + 1, IdleWindowLimit)
    ELSE idleWindows[p]

(* observeControllerActivityWithDirtyIndexes, under mu.  The bits of different     *)
(* Pools do not interact, so the loop over the Pools is one action.              *)
Observe ==
    /\ cycle.pc = "observe"
    /\ cycle' = [cycle EXCEPT !.pc = "commit"]
    /\ idleWindows' = [p \in Pools |-> NextIdle(p)]
    /\ active' = (active \cup {p \in cycle.indexes : ActiveDelta(p)})
                    \ {p \in Pools : IdlesAgain(p) /\ NextIdle(p) = IdleWindowLimit}
    /\ UNCHANGED <<dirty, count, assigned, controller, task, quietMark>>

(* resetDirty swaps the bits out, also those a trim of this cycle has just set;    *)
(* the rest is private to the controller.                                        *)
Commit ==
    /\ cycle.pc = "commit"
    /\ cycle' = NoCycle
    /\ dirty' = {}
    /\ previous' = [p \in Pools |-> IF p \in cycle.indexes THEN cycle.sample[p] ELSE 0]
    /\ hasPrevious' = TRUE
    /\ CountCycle
    /\ seen' = [p \in Pools |-> IF p \in cycle.indexes THEN cycle.sample[p] ELSE seen[p]]
    /\ missed' = [p \in Pools |-> IF p \in cycle.indexes THEN 0 ELSE missed[p] + 1]
    /\ UNCHANGED <<active, idleWindows, count, assigned, task, quietMark>>

TickStep ==
    \/ ChooseActive \/ ChooseDirty \/ SamplePool \/ ReadDirty
    \/ Publish \/ Abandon
    \/ Observe \/ Commit

Next ==
    \/ \E t \in Threads : \/ \E p \in Pools : Operate(t, p)
                          \/ MarkActive(t) \/ ResetIdle(t) \/ MarkDirty(t)
    \/ \E p \in Pools : OperateDirectly(p)
    \/ MarkAllDirty
    \/ TickStep

Spec == Init /\ [][Next]_vars

-----------------------------------------------------------------------------
(* Properties *)

TypeOK ==
    /\ active \subseteq Pools /\ dirty \subseteq Pools
    /\ idleWindows \in [Pools -> 0 .. IdleWindowLimit]
    /\ count \in [Pools -> 0 .. MaxCount]
    /\ assigned \in [Pools -> 0 .. PoolBytes]
    /\ cycles \in 0 .. FullScanInterval - 1
    /\ hasPrevious \in BOOLEAN
    /\ previous \in [Pools -> 0 .. MaxCount]
    /\ cycle \in [pc : {"idle", "chooseDirty", "sample", "publish", "observe", "commit"},
                  indexes : SUBSET Pools, todo : SUBSET Pools,
                  sample : [Pools -> 0 .. MaxCount], dirtySeen : SUBSET Pools]
    /\ task \in [Threads -> [pc : {"idle", "markActive", "resetIdle", "markDirty"},
                             pool : Pools, at : 0 .. MaxCount]]
    /\ seen \in [Pools -> 0 .. MaxCount]
    /\ quietMark \in [Pools -> 0 .. MaxCount]
    /\ missed \in [Pools -> Nat]

(* No Pool goes unsampled for a whole full-scan interval of committed cycles, also  *)
(* when its activity left no mark, and also when full scans fail to publish        *)
(* (partition_controller_state.go:27-32).                                        *)
FullScanBounds == \A p \in Pools : missed[p] < FullScanInterval

(* Activity marked between cycles is never forgotten: until a committed cycle has   *)
(* sampled it, the Pool is a candidate of the next cycle, whatever cycles fail in   *)
(* between and however the Pool is expired (partition_active_registry.go:330-333).  *)
QuietMarksVisible == \A p \in Pools : quietMark[p] > seen[p] => p \in active \cup dirty

(* The controller expires a Pool only when everything its sample counts was part of *)
(* an earlier committed sample: a busy Pool that was never marked dirty by its      *)
(* users, or was inactive in between, keeps its place.                            *)
ExpiryJustified ==
    [][\A p \in active \ active' : cycle.sample[p] = seen[p]]_vars

=============================================================================
