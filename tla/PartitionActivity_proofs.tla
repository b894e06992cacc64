---------------------- MODULE PartitionActivity_proofs ----------------------
(* Proofs about PartitionActivity, for any number of Pools, callers and cycles, *)
(* and any full-scan interval.                                                 *)
EXTENDS PartitionActivity, TLAPS

-----------------------------------------------------------------------------
(* The inductive invariant *)

(* Full scans and the Pools they miss: the cycles since the last full scan.    *)
ScanAge ==
    /\ \A p \in Pools : missed[p] <= (IF cycles = 0 THEN FullScanInterval ELSE cycles) - 1
    /\ cycle.pc \in {"sample", "publish", "observe", "commit"} /\ cycles = 0 =>
          cycle.indexes = Pools
    /\ cycle.pc = "chooseDirty" => cycles # 0

(* Samples are never behind what has been committed or marked before the cycle. *)
SampleCurrent ==
    /\ cycle.todo \subseteq cycle.indexes
    /\ cycle.pc \in {"publish", "observe", "commit"} => cycle.todo = {}
    /\ \A p \in Pools :
        /\ seen[p] <= count[p] /\ quietMark[p] <= count[p]
        /\ cycle.sample[p] <= count[p]
        /\ \A t \in Threads : task[t].pool = p => task[t].at <= count[p]
        /\ cycle.pc \in {"sample", "publish", "observe", "commit"}
              /\ p \in cycle.indexes \ cycle.todo =>
              seen[p] <= cycle.sample[p] /\ quietMark[p] <= cycle.sample[p]

(* Pools with a mark that no committed cycle has sampled, while a cycle runs.    *)
MarksChosen ==
    \A p \in Pools : quietMark[p] > seen[p] =>
        /\ cycle.pc = "chooseDirty" => p \in cycle.indexes \cup dirty
        /\ cycle.pc \in {"sample", "publish", "observe", "commit"} => p \in cycle.indexes

(* Publication keeps the sampled Pools dirty until the cycle commits. *)
PublishedDirty ==
    cycle.pc \in {"observe", "commit"} => cycle.indexes \subseteq dirty

(* What the controller remembers of a Pool is its last committed sample or nothing, *)
(* and a first cycle expires nothing.                                              *)
Remembered ==
    /\ \A p \in Pools : previous[p] \in {0, seen[p]}
    /\ ~hasPrevious /\ cycle.pc # "commit" => \A p \in Pools : idleWindows[p] = 0

IInv ==
    /\ TypeOK
    /\ ScanAge
    /\ SampleCurrent
    /\ MarksChosen
    /\ PublishedDirty
    /\ Remembered
    /\ QuietMarksVisible

-----------------------------------------------------------------------------
(* Every step preserves the invariant. *)

CycleType ==
    [pc : {"idle", "chooseDirty", "sample", "publish", "observe", "commit"},
     indexes : SUBSET Pools, todo : SUBSET Pools,
     sample : [Pools -> 0 .. MaxCount], dirtySeen : SUBSET Pools]

LEMMA NoCycleType == NoCycle \in CycleType
<1>1. [p \in Pools |-> 0] \in [Pools -> 0 .. MaxCount]
    BY PartitionAssumption
<1> QED
    BY <1>1 DEF NoCycle, CycleType

LEMMA NoTaskType ==
    NoTask \in [pc : {"idle", "markActive", "resetIdle", "markDirty"},
                pool : Pools, at : 0 .. MaxCount]
BY PartitionAssumption DEF NoTask, Pools

LEMMA TypeStep == TypeOK /\ [Next]_vars => TypeOK'
<1> SUFFICES ASSUME TypeOK, [Next]_vars PROVE TypeOK'
    OBVIOUS
<1> USE PartitionAssumption DEF TypeOK
<1>1. CASE UNCHANGED vars
    BY <1>1 DEF vars, registry, controller
<1>2. ASSUME NEW t \in Threads, NEW p \in Pools, Operate(t, p) PROVE TypeOK'
    BY <1>2 DEF Operate, Counted, registry, controller
<1>3. ASSUME NEW p \in Pools, OperateDirectly(p) PROVE TypeOK'
    BY <1>3 DEF OperateDirectly, Counted, registry, controller
<1>4. ASSUME NEW t \in Threads, MarkActive(t) PROVE TypeOK'
    BY <1>4 DEF MarkActive, Goto, registry, controller
<1>5. ASSUME NEW t \in Threads, ResetIdle(t) PROVE TypeOK'
    BY <1>5 DEF ResetIdle, Goto, IdleWindowLimit, registry, controller
<1>6. ASSUME NEW t \in Threads, MarkDirty(t) PROVE TypeOK'
    BY <1>6, NoTaskType DEF MarkDirty, registry, controller
<1>7. ASSUME MarkAllDirty PROVE TypeOK'
    BY <1>7 DEF MarkAllDirty, registry, controller
<1>8. ASSUME ChooseActive PROVE TypeOK'
    <2>1. cycle' \in CycleType
        BY <1>8, NoCycleType DEF ChooseActive, CycleType
    <2> QED
        BY <1>8, <2>1 DEF ChooseActive, CycleType, registry, controller
<1>9. ASSUME ChooseDirty PROVE TypeOK'
    BY <1>9 DEF ChooseDirty, SampledWith, registry, controller
<1>10. ASSUME SamplePool PROVE TypeOK'
    <2>1. PICK p \in cycle.todo :
              cycle' = [cycle EXCEPT !.sample = [cycle.sample EXCEPT ![p] = count[p]],
                                     !.todo = cycle.todo \ {p}]
        BY <1>10 DEF SamplePool
    <2>2. [cycle.sample EXCEPT ![p] = count[p]] \in [Pools -> 0 .. MaxCount]
        BY <2>1
    <2>3. cycle' \in CycleType
        BY <2>1, <2>2 DEF CycleType
    <2> QED
        BY <1>10, <2>3 DEF SamplePool, CycleType, registry, controller
<1>11. ASSUME ReadDirty PROVE TypeOK'
    BY <1>11 DEF ReadDirty, registry, controller
<1>12. ASSUME Publish PROVE TypeOK'
    BY <1>12 DEF Publish, Allocations, registry, controller
<1>13. ASSUME Abandon PROVE TypeOK'
    BY <1>13, NoCycleType DEF Abandon, CycleType, registry, controller
<1>14. ASSUME Observe PROVE TypeOK'
    BY <1>14 DEF Observe, NextIdle, IdlesAgain, ActiveDelta, Moved, MinOf, IdleWindowLimit, registry, controller
<1>15. ASSUME Commit PROVE TypeOK'
    <2>1. previous' \in [Pools -> 0 .. MaxCount] /\ seen' \in [Pools -> 0 .. MaxCount]
        BY <1>15 DEF Commit
    <2>2. missed' \in [Pools -> Nat]
        BY <1>15 DEF Commit
    <2>3. cycles' \in 0 .. FullScanInterval - 1
        BY <1>15 DEF Commit, CountCycle
    <2>4. hasPrevious' \in BOOLEAN
        BY <1>15, Zenon DEF Commit
    <2> QED
        BY <1>15, <2>1, <2>2, <2>3, <2>4, NoCycleType DEF Commit, CycleType
<1> QED
    BY <1>1, <1>2, <1>3, <1>4, <1>5, <1>6, <1>7, <1>8, <1>9, <1>10, <1>11, <1>12, <1>13, <1>14, <1>15 DEF Next, TickStep

LEMMA AgeStep == TypeOK /\ ScanAge /\ [Next]_vars => ScanAge'
<1> SUFFICES ASSUME TypeOK, ScanAge, [Next]_vars PROVE ScanAge'
    OBVIOUS
<1> USE PartitionAssumption DEF TypeOK, ScanAge
<1>1. CASE UNCHANGED vars
    BY <1>1 DEF vars, registry, controller
<1>2. ASSUME NEW t \in Threads, NEW p \in Pools, Operate(t, p) PROVE ScanAge'
    BY <1>2 DEF Operate, Counted, registry, controller
<1>3. ASSUME NEW p \in Pools, OperateDirectly(p) PROVE ScanAge'
    BY <1>3 DEF OperateDirectly, Counted, registry, controller
<1>4. ASSUME NEW t \in Threads, MarkActive(t) PROVE ScanAge'
    BY <1>4 DEF MarkActive, Goto, registry, controller
<1>5. ASSUME NEW t \in Threads, ResetIdle(t) PROVE ScanAge'
    BY <1>5 DEF ResetIdle, Goto, registry, controller
<1>6. ASSUME NEW t \in Threads, MarkDirty(t) PROVE ScanAge'
    BY <1>6 DEF MarkDirty, NoTask, registry, controller
<1>7. ASSUME MarkAllDirty PROVE ScanAge'
    BY <1>7 DEF MarkAllDirty, registry, controller
<1>8. ASSUME ChooseActive PROVE ScanAge'
    BY <1>8 DEF ChooseActive, FullScan, NoCycle, registry, controller
<1>9. ASSUME ChooseDirty PROVE ScanAge'
    BY <1>9 DEF ChooseDirty, SampledWith, registry, controller
<1>10. ASSUME SamplePool PROVE ScanAge'
    BY <1>10 DEF SamplePool, registry, controller
<1>11. ASSUME ReadDirty PROVE ScanAge'
    BY <1>11 DEF ReadDirty, registry, controller
<1>12. ASSUME Publish PROVE ScanAge'
    BY <1>12 DEF Publish, Allocations, registry, controller
<1>13. ASSUME Abandon PROVE ScanAge'
    BY <1>13 DEF Abandon, NoCycle, registry, controller
<1>14. ASSUME Observe PROVE ScanAge'
    BY <1>14 DEF Observe, NextIdle, IdlesAgain, ActiveDelta, Moved, MinOf, IdleWindowLimit, registry, controller
<1>15. ASSUME Commit PROVE ScanAge'
    BY <1>15 DEF Commit, NoCycle, CountCycle, registry, controller
<1> QED
    BY <1>1, <1>2, <1>3, <1>4, <1>5, <1>6, <1>7, <1>8, <1>9, <1>10, <1>11, <1>12, <1>13, <1>14, <1>15 DEF Next, TickStep

LEMMA SampleStep == TypeOK /\ SampleCurrent /\ [Next]_vars => SampleCurrent'
<1> SUFFICES ASSUME TypeOK, SampleCurrent, [Next]_vars PROVE SampleCurrent'
    OBVIOUS
<1> USE PartitionAssumption DEF TypeOK, SampleCurrent
<1>1. CASE UNCHANGED vars
    BY <1>1 DEF vars, registry, controller
<1>2. ASSUME NEW t \in Threads, NEW p \in Pools, Operate(t, p) PROVE SampleCurrent'
    BY <1>2 DEF Operate, Counted, registry, controller
<1>3. ASSUME NEW p \in Pools, OperateDirectly(p) PROVE SampleCurrent'
    BY <1>3 DEF OperateDirectly, Counted, registry, controller
<1>4. ASSUME NEW t \in Threads, MarkActive(t) PROVE SampleCurrent'
    BY <1>4 DEF MarkActive, Goto, registry, controller
<1>5. ASSUME NEW t \in Threads, ResetIdle(t) PROVE SampleCurrent'
    BY <1>5 DEF ResetIdle, Goto, registry, controller
<1>6. ASSUME NEW t \in Threads, MarkDirty(t) PROVE SampleCurrent'
    BY <1>6 DEF MarkDirty, NoTask, registry, controller
<1>7. ASSUME MarkAllDirty PROVE SampleCurrent'
    BY <1>7 DEF MarkAllDirty, registry, controller
<1>8. ASSUME ChooseActive PROVE SampleCurrent'
    BY <1>8 DEF ChooseActive, FullScan, NoCycle, registry, controller
<1>9. ASSUME ChooseDirty PROVE SampleCurrent'
    BY <1>9 DEF ChooseDirty, SampledWith, registry, controller
<1>10. ASSUME SamplePool PROVE SampleCurrent'
    BY <1>10 DEF SamplePool, registry, controller
<1>11. ASSUME ReadDirty PROVE SampleCurrent'
    BY <1>11 DEF ReadDirty, registry, controller
<1>12. ASSUME Publish PROVE SampleCurrent'
    BY <1>12 DEF Publish, Allocations, registry, controller
<1>13. ASSUME Abandon PROVE SampleCurrent'
    BY <1>13 DEF Abandon, NoCycle, registry, controller
<1>14. ASSUME Observe PROVE SampleCurrent'
    BY <1>14 DEF Observe, NextIdle, IdlesAgain, ActiveDelta, Moved, MinOf, IdleWindowLimit, registry, controller
<1>15. ASSUME Commit PROVE SampleCurrent'
    BY <1>15 DEF Commit, NoCycle, CountCycle, registry, controller
<1> QED
    BY <1>1, <1>2, <1>3, <1>4, <1>5, <1>6, <1>7, <1>8, <1>9, <1>10, <1>11, <1>12, <1>13, <1>14, <1>15 DEF Next, TickStep

LEMMA ChosenStep == TypeOK /\ SampleCurrent /\ MarksChosen /\ QuietMarksVisible /\ [Next]_vars => MarksChosen'
<1> SUFFICES ASSUME TypeOK, SampleCurrent, MarksChosen, QuietMarksVisible, [Next]_vars PROVE MarksChosen'
    OBVIOUS
<1> USE PartitionAssumption DEF TypeOK, SampleCurrent, MarksChosen, QuietMarksVisible
<1>1. CASE UNCHANGED vars
    BY <1>1 DEF vars, registry, controller
<1>2. ASSUME NEW t \in Threads, NEW p \in Pools, Operate(t, p) PROVE MarksChosen'
    BY <1>2 DEF Operate, Counted, registry, controller
<1>3. ASSUME NEW p \in Pools, OperateDirectly(p) PROVE MarksChosen'
    BY <1>3 DEF OperateDirectly, Counted, registry, controller
<1>4. ASSUME NEW t \in Threads, MarkActive(t) PROVE MarksChosen'
    BY <1>4 DEF MarkActive, Goto, registry, controller
<1>5. ASSUME NEW t \in Threads, ResetIdle(t) PROVE MarksChosen'
    BY <1>5 DEF ResetIdle, Goto, registry, controller
<1>6. ASSUME NEW t \in Threads, MarkDirty(t) PROVE MarksChosen'
    BY <1>6 DEF MarkDirty, NoTask, registry, controller
<1>7. ASSUME MarkAllDirty PROVE MarksChosen'
    BY <1>7 DEF MarkAllDirty, registry, controller
<1>8. ASSUME ChooseActive PROVE MarksChosen'
    BY <1>8 DEF ChooseActive, FullScan, NoCycle, registry, controller
<1>9. ASSUME ChooseDirty PROVE MarksChosen'
    BY <1>9 DEF ChooseDirty, SampledWith, registry, controller
<1>10. ASSUME SamplePool PROVE MarksChosen'
    BY <1>10 DEF SamplePool, registry, controller
<1>11. ASSUME ReadDirty PROVE MarksChosen'
    BY <1>11 DEF ReadDirty, registry, controller
<1>12. ASSUME Publish PROVE MarksChosen'
    BY <1>12 DEF Publish, Allocations, registry, controller
<1>13. ASSUME Abandon PROVE MarksChosen'
    BY <1>13 DEF Abandon, NoCycle, registry, controller
<1>14. ASSUME Observe PROVE MarksChosen'
    BY <1>14 DEF Observe, NextIdle, IdlesAgain, ActiveDelta, Moved, MinOf, IdleWindowLimit, registry, controller
<1>15. ASSUME Commit PROVE MarksChosen'
    BY <1>15 DEF Commit, NoCycle, CountCycle, registry, controller
<1> QED
    BY <1>1, <1>2, <1>3, <1>4, <1>5, <1>6, <1>7, <1>8, <1>9, <1>10, <1>11, <1>12, <1>13, <1>14, <1>15 DEF Next, TickStep

LEMMA DirtyStep == TypeOK /\ PublishedDirty /\ [Next]_vars => PublishedDirty'
<1> SUFFICES ASSUME TypeOK, PublishedDirty, [Next]_vars PROVE PublishedDirty'
    OBVIOUS
<1> USE PartitionAssumption DEF TypeOK, PublishedDirty
<1>1. CASE UNCHANGED vars
    BY <1>1 DEF vars, registry, controller
<1>2. ASSUME NEW t \in Threads, NEW p \in Pools, Operate(t, p) PROVE PublishedDirty'
    BY <1>2 DEF Operate, Counted, registry, controller
<1>3. ASSUME NEW p \in Pools, OperateDirectly(p) PROVE PublishedDirty'
    BY <1>3 DEF OperateDirectly, Counted, registry, controller
<1>4. ASSUME NEW t \in Threads, MarkActive(t) PROVE PublishedDirty'
    BY <1>4 DEF MarkActive, Goto, registry, controller
<1>5. ASSUME NEW t \in Threads, ResetIdle(t) PROVE PublishedDirty'
    BY <1>5 DEF ResetIdle, Goto, registry, controller
<1>6. ASSUME NEW t \in Threads, MarkDirty(t) PROVE PublishedDirty'
    BY <1>6 DEF MarkDirty, NoTask, registry, controller
<1>7. ASSUME MarkAllDirty PROVE PublishedDirty'
    BY <1>7 DEF MarkAllDirty, registry, controller
<1>8. ASSUME ChooseActive PROVE PublishedDirty'
    BY <1>8 DEF ChooseActive, FullScan, NoCycle, registry, controller
<1>9. ASSUME ChooseDirty PROVE PublishedDirty'
    BY <1>9 DEF ChooseDirty, SampledWith, registry, controller
<1>10. ASSUME SamplePool PROVE PublishedDirty'
    BY <1>10 DEF SamplePool, registry, controller
<1>11. ASSUME ReadDirty PROVE PublishedDirty'
    BY <1>11 DEF ReadDirty, registry, controller
<1>12. ASSUME Publish PROVE PublishedDirty'
    BY <1>12 DEF Publish, Allocations, registry, controller
<1>13. ASSUME Abandon PROVE PublishedDirty'
    BY <1>13 DEF Abandon, NoCycle, registry, controller
<1>14. ASSUME Observe PROVE PublishedDirty'
    BY <1>14 DEF Observe, NextIdle, IdlesAgain, ActiveDelta, Moved, MinOf, IdleWindowLimit, registry, controller
<1>15. ASSUME Commit PROVE PublishedDirty'
    BY <1>15 DEF Commit, NoCycle, CountCycle, registry, controller
<1> QED
    BY <1>1, <1>2, <1>3, <1>4, <1>5, <1>6, <1>7, <1>8, <1>9, <1>10, <1>11, <1>12, <1>13, <1>14, <1>15 DEF Next, TickStep

LEMMA RememberedStep == TypeOK /\ Remembered /\ [Next]_vars => Remembered'
<1> SUFFICES ASSUME TypeOK, Remembered, [Next]_vars PROVE Remembered'
    OBVIOUS
<1> USE PartitionAssumption DEF TypeOK, Remembered
<1>1. CASE UNCHANGED vars
    BY <1>1 DEF vars, registry, controller
<1>2. ASSUME NEW t \in Threads, NEW p \in Pools, Operate(t, p) PROVE Remembered'
    BY <1>2 DEF Operate, Counted, registry, controller
<1>3. ASSUME NEW p \in Pools, OperateDirectly(p) PROVE Remembered'
    BY <1>3 DEF OperateDirectly, Counted, registry, controller
<1>4. ASSUME NEW t \in Threads, MarkActive(t) PROVE Remembered'
    BY <1>4 DEF MarkActive, Goto, registry, controller
<1>5. ASSUME NEW t \in Threads, ResetIdle(t) PROVE Remembered'
    BY <1>5 DEF ResetIdle, Goto, registry, controller
<1>6. ASSUME NEW t \in Threads, MarkDirty(t) PROVE Remembered'
    BY <1>6 DEF MarkDirty, NoTask, registry, controller
<1>7. ASSUME MarkAllDirty PROVE Remembered'
    BY <1>7 DEF MarkAllDirty, registry, controller
<1>8. ASSUME ChooseActive PROVE Remembered'
    BY <1>8 DEF ChooseActive, FullScan, NoCycle, registry, controller
<1>9. ASSUME ChooseDirty PROVE Remembered'
    BY <1>9 DEF ChooseDirty, SampledWith, registry, controller
<1>10. ASSUME SamplePool PROVE Remembered'
    BY <1>10 DEF SamplePool, registry, controller
<1>11. ASSUME ReadDirty PROVE Remembered'
    BY <1>11 DEF ReadDirty, registry, controller
<1>12. ASSUME Publish PROVE Remembered'
    BY <1>12 DEF Publish, Allocations, registry, controller
<1>13. ASSUME Abandon PROVE Remembered'
    BY <1>13 DEF Abandon, NoCycle, registry, controller
<1>14. ASSUME Observe PROVE Remembered'
    BY <1>14 DEF Observe, NextIdle, IdlesAgain, ActiveDelta, Moved, MinOf, IdleWindowLimit, registry, controller
<1>15. ASSUME Commit PROVE Remembered'
    BY <1>15 DEF Commit, NoCycle, CountCycle, registry, controller
<1> QED
    BY <1>1, <1>2, <1>3, <1>4, <1>5, <1>6, <1>7, <1>8, <1>9, <1>10, <1>11, <1>12, <1>13, <1>14, <1>15 DEF Next, TickStep

LEMMA VisibleStep == TypeOK /\ SampleCurrent /\ MarksChosen /\ PublishedDirty /\ QuietMarksVisible /\ [Next]_vars => QuietMarksVisible'
<1> SUFFICES ASSUME TypeOK, SampleCurrent, MarksChosen, PublishedDirty, QuietMarksVisible, [Next]_vars PROVE QuietMarksVisible'
    OBVIOUS
<1> USE PartitionAssumption DEF TypeOK, SampleCurrent, MarksChosen, PublishedDirty, QuietMarksVisible
<1>1. CASE UNCHANGED vars
    BY <1>1 DEF vars, registry, controller
<1>2. ASSUME NEW t \in Threads, NEW p \in Pools, Operate(t, p) PROVE QuietMarksVisible'
    BY <1>2 DEF Operate, Counted, registry, controller
<1>3. ASSUME NEW p \in Pools, OperateDirectly(p) PROVE QuietMarksVisible'
    BY <1>3 DEF OperateDirectly, Counted, registry, controller
<1>4. ASSUME NEW t \in Threads, MarkActive(t) PROVE QuietMarksVisible'
    BY <1>4 DEF MarkActive, Goto, registry, controller
<1>5. ASSUME NEW t \in Threads, ResetIdle(t) PROVE QuietMarksVisible'
    BY <1>5 DEF ResetIdle, Goto, registry, controller
<1>6. ASSUME NEW t \in Threads, MarkDirty(t) PROVE QuietMarksVisible'
    BY <1>6 DEF MarkDirty, NoTask, registry, controller
<1>7. ASSUME MarkAllDirty PROVE QuietMarksVisible'
    BY <1>7 DEF MarkAllDirty, registry, controller
<1>8. ASSUME ChooseActive PROVE QuietMarksVisible'
    BY <1>8 DEF ChooseActive, FullScan, NoCycle, registry, controller
<1>9. ASSUME ChooseDirty PROVE QuietMarksVisible'
    BY <1>9 DEF ChooseDirty, SampledWith, registry, controller
<1>10. ASSUME SamplePool PROVE QuietMarksVisible'
    BY <1>10 DEF SamplePool, registry, controller
<1>11. ASSUME ReadDirty PROVE QuietMarksVisible'
    BY <1>11 DEF ReadDirty, registry, controller
<1>12. ASSUME Publish PROVE QuietMarksVisible'
    BY <1>12 DEF Publish, Allocations, registry, controller
<1>13. ASSUME Abandon PROVE QuietMarksVisible'
    BY <1>13 DEF Abandon, NoCycle, registry, controller
<1>14. ASSUME Observe PROVE QuietMarksVisible'
    BY <1>14 DEF Observe, NextIdle, IdlesAgain, ActiveDelta, Moved, MinOf, IdleWindowLimit, registry, controller
<1>15. ASSUME Commit PROVE QuietMarksVisible'
    BY <1>15 DEF Commit, NoCycle, CountCycle, registry, controller
<1> QED
    BY <1>1, <1>2, <1>3, <1>4, <1>5, <1>6, <1>7, <1>8, <1>9, <1>10, <1>11, <1>12, <1>13, <1>14, <1>15 DEF Next, TickStep

-----------------------------------------------------------------------------
(* The invariant holds *)

LEMMA InitIInv == Init => IInv
<1> SUFFICES ASSUME Init PROVE IInv
    OBVIOUS
<1> USE PartitionAssumption DEF Init
<1>1. TypeOK
    <2>1. /\ active \subseteq Pools /\ dirty \subseteq Pools
          /\ cycles \in 0 .. FullScanInterval - 1
        OBVIOUS
    <2>4. hasPrevious \in BOOLEAN
        BY Zenon
    <2>2. /\ count \in [Pools -> 0 .. MaxCount] /\ previous \in [Pools -> 0 .. MaxCount]
          /\ seen \in [Pools -> 0 .. MaxCount] /\ quietMark \in [Pools -> 0 .. MaxCount]
          /\ assigned \in [Pools -> 0 .. PoolBytes] /\ missed \in [Pools -> Nat]
        OBVIOUS
    <2>3. idleWindows \in [Pools -> 0 .. IdleWindowLimit]
        BY DEF IdleWindowLimit
    <2> QED
        BY <2>1, <2>2, <2>3, <2>4, NoCycleType, NoTaskType DEF TypeOK, CycleType
<1> QED
    BY <1>1 DEF IInv, NoCycle, NoTask, Pools, ScanAge, SampleCurrent, MarksChosen, PublishedDirty, Remembered,
       QuietMarksVisible

LEMMA NextIInv == IInv /\ [Next]_vars => IInv'
BY TypeStep, AgeStep, SampleStep, ChosenStep, DirtyStep, RememberedStep, VisibleStep DEF IInv

(* The invariant is inductive. *)
THEOREM Inductive == Spec => []IInv
<1> QED
    BY InitIInv, NextIInv, PTL DEF Spec

(* The registry, the controller and the budget they publish keep their types: idle   *)
(* windows stop at their limit and no Pool is assigned more than its own budget.    *)
THEOREM TypeCorrect == Spec => []TypeOK
<1>1. IInv => TypeOK
    BY DEF IInv
<1> QED
    BY <1>1, Inductive, PTL

(* No Pool goes unsampled for a whole full-scan interval, whatever the interval. *)
THEOREM FullScansBound == Spec => []FullScanBounds
<1>1. IInv => FullScanBounds
    BY PartitionAssumption DEF IInv, TypeOK, ScanAge, FullScanBounds
<1> QED
    BY <1>1, Inductive, PTL

(* Activity marked between cycles keeps its Pool a candidate until it is sampled. *)
THEOREM MarksVisible == Spec => []QuietMarksVisible
<1>1. IInv => QuietMarksVisible
    BY DEF IInv
<1> QED
    BY <1>1, Inductive, PTL

(* Only Observe takes a Pool out of the active set. *)
LEMMA OnlyObserveExpires ==
    ASSUME [Next]_vars, NEW p \in active \ active'
    PROVE  Observe
BY DEF Next, TickStep, vars, registry, controller, Operate, OperateDirectly, MarkActive,
   ResetIdle, MarkDirty, MarkAllDirty, ChooseActive, ChooseDirty, SamplePool, ReadDirty,
   Publish, Abandon, Commit

LEMMA ExpiryStep ==
    IInv /\ [Next]_vars => \A p \in active \ active' : cycle.sample[p] = seen[p]
<1> SUFFICES ASSUME IInv, [Next]_vars, NEW p \in active \ active'
             PROVE  cycle.sample[p] = seen[p]
    OBVIOUS
<1>1. Observe
    BY OnlyObserveExpires
<1>2. p \in Pools /\ IdlesAgain(p) /\ NextIdle(p) = IdleWindowLimit
    BY <1>1 DEF Observe, IInv, TypeOK
<1>3. p \in cycle.indexes /\ ~Moved(p)
    BY <1>2 DEF IdlesAgain, ActiveDelta
<1>4. hasPrevious
    BY <1>1, <1>2 DEF Observe, IInv, TypeOK, Remembered, NextIdle, IdlesAgain, MinOf,
       IdleWindowLimit
<1>5. cycle.sample[p] = previous[p]
    BY <1>3, <1>4 DEF Moved
<1>6. previous[p] \in {0, seen[p]}
    BY <1>2 DEF IInv, Remembered
<1>7. seen[p] <= cycle.sample[p]
    BY <1>1, <1>2, <1>3 DEF Observe, IInv, SampleCurrent
<1> QED
    BY <1>2, <1>5, <1>6, <1>7 DEF IInv, TypeOK

(* A Pool is expired only when its sample holds nothing that is new. *)
THEOREM ExpiryIsJustified == Spec => ExpiryJustified
<1>1. IInv /\ [Next]_vars => [\A p \in active \ active' : cycle.sample[p] = seen[p]]_vars
    BY ExpiryStep
<1> QED
    BY <1>1, Inductive, PTL DEF Spec, ExpiryJustified
=============================================================================
