# Verification of bufferpool

This directory holds TLA+ models of the memory-retention runtime of this
repository, the TLC configurations that check them on small instances, and
proofs for TLAPS. Every definition translates the Go source; `PROJECT.json`
names the lines. Docs under `docs/` are mostly stubs and were used only for
orientation and for the statements the findings quote.

## The system

```
PoolGroup ── coordinator, scheduler, group policy and budget publication
  └ PoolPartition ── controller, scheduler, LeaseRegistry, active registry
      └ Pool ── lifecycle gate, runtime snapshot
          └ classState ── budget of one size class
              └ shard ── mutex, credit, counters
                  └ bucket ── segmented LIFO of retained buffers
```

| Part | State | Operations | Hard because |
|---|---|---|---|
| Pool (`pool*.go`) | lifecycle, `activeOperations`, `closeCond`, runtime snapshot | Get, Put, Trim, publications, Close | lock-free gate against Close, condition-variable wake-ups, snapshots used after they were replaced |
| Pool control (`pool_policy_update.go`, `pool_pressure.go`, `pool_trim.go`, `policy_update.go`) | snapshot, `controlMu`, class targets | PublishPolicy, pressure, Trim, TrimClass, TrimShard | budgets and snapshot are stored one after the other, gets and puts decide on what they loaded earlier |
| Bucket (`bucket*.go`) | segments, retained counts | push, pop, trimBounded, clear | segment boundaries, incremental counts |
| Class, shard, credit (`class_*.go`, `shard*.go`) | assigned bytes, generations, credit halves, buckets | update budget, tryGet, tryRetain, trim, clear | three atomics per credit, published shard by shard, read one by one |
| Counters and windows (`*_counters.go`, `pool_sample.go`, `pool_snapshot.go`, `partition_window.go`) | counters of shards, classes, owner; previous sample | record, sample, delta | counted at three levels in several steps, sampled meanwhile, wrap-around |
| LeaseRegistry (`lease*.go`, `ownership*.go`) | records, active map, counters | Acquire, Release, Close | the Pool is entered outside the registry lock; callers release what they like |
| Partition controller (`partition_controller*.go`, `partition_active_registry.go`, `partition_trim.go`) | active and dirty bits, idle windows, previous sample, EWMA, cycle counter, cycle status | mark, TickInto, ExecuteTrim | marks arrive between the steps of a cycle; a cycle may fail |
| Partition lifecycle (`partition_lifecycle.go`, `partition_drain.go`, `controller_scheduler.go`) | lifecycle, `closeMu`, `foregroundMu`, scheduler | Acquire, Release, TickInto, Close, CloseGracefully | a graceful close publishes Closing with no lock; Close waits for a goroutine that needs the gate |
| Partition publication (`partition_policy_update.go`, `partition_pressure.go`, `partition_budget_publication.go`, `pool_budget_allocator.go`) | runtime snapshot, `p.generation`, `controller.mu`; snapshot, `controlMu` and class budgets of each Pool | PublishPolicy, SetPressure, TickInto | policies and cycles hold `controller.mu`, pressure does not; snapshots are loaded, then replaced; batches go Pool by Pool |
| Group (`group*.go`) | registry, directory, coordinator, scheduler, `runtimeMu`, runtime snapshot | Acquire, Release, TickInto, PublishPolicy, PublishPressure, Close | locks of several partitions at once, batches that are refused half-way, three schedulers |
| Budgets (`budget_allocation.go`, `*_budget_allocator.go`, `*_apply.go`) | limits of group and partitions, bytes of classes | allocate, plan, publish | saturating 64-bit sums, rounded shares, zero for "no limit", plans made at three levels |
| Policies and configuration (`policy*.go`, `profiles.go`, `*_config.go`, `partition_assignment.go`, `class_table.go`) | none | validate, normalize, assign Pools to partitions, look up classes, select shards | many fields that must agree; binary searches; wrapping sequences |
| Scores, EWMA, rates (`*score*.go`, `partition_ewma.go`, `partition_rate.go`) | EWMA of each class | update, evaluate | floating point |

Interactions are calls downwards only (group, partition, Pool, class, shard,
bucket), plus the scheduler goroutines, which call the tick of their owner. There
are no callbacks upwards and nothing is persisted, so there is no crash recovery.

## What makes each part correct

- Pool: no admitted operation runs during cleanup or after Closed; Close is
  synchronous for every caller and always returns; nothing is retained afterwards.
- Bucket: behaves as one bounded stack; metadata is lazy.
- Class: a retained buffer is covered by one published credit; a publication in
  progress never overcommits the class.
- Leases: a backing array has one owner; each lease is handed back once; no
  lease after Close.
- Controller: activity is seen within a bounded number of cycles; marks are not
  lost; busy Pools are not expired; budgets stay within the parent's.
- Partition: work finds its children open; both closes end and clean up once;
  the graceful one waits for leases.
- Publication: a pressure that meets no other one, and a policy with budgets, reach
  every Pool; Pool snapshots only move forward; budgets bring back neither an old
  plan nor old pressure.
- Allocator: nothing wraps; the parent is used up exactly where the bounds of the
  children allow it; scored children come first; the passes end.
- Group: a publication reaches all children or none and cannot deadlock with the
  closes of the children; its hard budget bounds what all Pools hold together.
- Counters: what is stored is what was recorded; windows lose nothing between the
  first and the last of a run of samples.
- Policies: what is accepted can run, and what is published live keeps the shape
  the Pool was built with.

## Modules

| Module | Models | Remarks |
|---|---|---|
| `PoolService` | what a Pool promises about its lifetime | abstract: enter, work and leave, start close, clear, finish |
| `PoolGate` | `pool_lifecycle.go`, `lifecycle.go` and the frame of Get, Put, Trim | one atomic access or critical section per action; `pc` follows the code's order |
| `BoundedStacks` | what the buckets of a Pool promise | abstract: a bounded stack of capacities per shard |
| `Bucket` | `bucket.go`, `bucket_segment.go` | operators on a bucket; callers hold the shard mutex |
| `Counters` | `*_counters.go`, `pool_metrics.go`, windows | operators on counters that wrap at `Modulus` |
| `PoolTelemetry` | `class_state.go`, `shard.go`, the counting of Get and Put, samples, commits | the buckets of all shards with their counters; each level of counting is an action |
| `StoredStacks` | how the storage of `PoolTelemetry` implements `BoundedStacks` | a refinement mapping: the stack of a shard is what its segments hold, one after the other |
| `ClassCredit` | `class_budget.go`, `class_state.go`, `shard_credit.go`, `shard.go` | `publisher` is the progress of `updateBudgetAtLeast` (serialised by `controlMu`), `retain[s]` that of the return that holds the mutex of shard `s` |
| `CreditRules` | the arithmetic of limits, credits and their snapshots | operators; instantiated by `MCClassCredit`, which compares them with `ClassCredit` |
| `PolicyRules`, `PolicyProfiles` | `policy*.go`, `profiles.go`, `pool_config.go` | policies as records; validation section by section, defaults, the named profiles |
| `PoolDecisions` | what a Pool decides from a policy | admission of gets and returns, live updates, first budgets, trim plans |
| `ClassTable` | `class_table.go`, shard selectors | binary search and selectors over a small word; instantiated by `MCPoolControl`, which compares the searches with `PoolDecisions` |
| `PoolControl` | `pool_get.go`, `pool_put.go`, `pool_policy_update.go`, `pool_pressure.go`, `pool_trim.go` | a Pool whose snapshot changes under its gets and puts |
| `LeaseRegistry` | `lease_registry*.go`, `lease_counters.go`, `ownership_validation.go` | a slice is a base and a capacity; callers pass any view they could have |
| `PartitionActivity` | `partition_active_registry.go`, `partition_controller*.go` | each read of a bit set, sample of a Pool and CAS is an action |
| `PartitionTrims` | `partition_trim.go`, `partition_budget.go`, pressure levels, `group_pressure.go` | operators; instantiated by `MCPartitionActivity` |
| `CycleStatus` | `controller_cycle_status.go`, `*_report.go`, `group_coordinator_publication.go` | what a cycle reports and leaves behind; instantiated by `MCPartitionPublication` |
| `PartitionClose` | `partition_lifecycle.go`, `partition_drain.go`, `partition_operation_gate.go`, `controller_scheduler.go` | RWMutex with waiting writers; scheduler goroutine |
| `PartitionPublication` | `partition_policy_update.go`, `partition_pressure.go`, `pool_pressure.go`, `pool_budget_allocator.go`, the publishing half of `partition_controller*.go` | each load and store of a snapshot is an action; a section under a `controlMu` is two, `LockPool` and `PublishPool` |
| `BudgetAllocation` | `budget_allocation.go` | one iteration of a loop is an action; `MaxWord` stands for 2^64 - 1; a score is the integer weight it becomes |
| `BudgetPlanning` | the planners of group, partition and Pool, the difference of two partition policies | operators; an allocation is any in the envelope of `BudgetAllocation`; instantiated by `MCPoolControl` |
| `BudgetFlow` | coordinator ticks, controller cycles and group policies as budgets see them | composes the planners from the group to the classes |
| `GroupConfig` | `partition_assignment.go`, `group_config.go`, `partition_config.go`, policies of groups and partitions | operators; instantiated by `MCPoolGroup` |
| `PoolGroup` | `group*.go`, `partition_budget_publication.go` | every lock that may wait and every admission that may be refused is an action |
| `MC...` | model values and symmetry for TLC; ASSUMEs about the modules without state | |
| `..._proofs` | theorems | |

The modules meet at these seams.

- `LeaseRegistry` treats a Pool call as one action, which `PoolGate` justifies:
  admitted calls end before Close clears. So do `PoolControl` and `PoolGroup` with
  the gate of a Pool.
- `PartitionClose` treats leases as a count, whose life is in `LeaseRegistry`, the
  Pools as open or closed together, whose close is in `PoolGate`, and a controller
  cycle as one step, whose steps are in `PartitionActivity`.
- A store of `PoolGate` is a shard of `ClassCredit`, and its contents a `Bucket`
  with the counters of `PoolTelemetry`. In `PoolControl` a class target and its
  shard credits are stored in one step, which `ClassCredit` takes apart, and a
  shard is a stack of capacities.
- A `Tick` of `PartitionPublication` is a cycle of `PartitionActivity` seen as a
  publisher of budgets; one assignment of its `class` is a run of the publisher of
  `ClassCredit`. What it publishes is a plan of `BudgetPlanning`.
- The sets `Allocations` of `PartitionActivity` and `BudgetPlanning` are an envelope
  of what `BudgetAllocation` computes.
- The partition of `PartitionPublication` is open, as the gate of `PartitionClose`
  ensures for admitted callers; a call that is rejected changes nothing and is left
  out. What is rejected, and the trim that follows a policy, are in
  `BudgetPlanning` and `PartitionTrims`.
- `PoolGroup` starts from an assignment of `GroupConfig`. It tells budgets apart by
  the publication they come from; `BudgetFlow` has their bytes, and takes each
  publication in one step.
- The Pool of `PoolControl` has the operations of the Pool itself. What its partition
  publishes to it, budgets and pressure at once, is in `PartitionPublication`; in
  `PoolGroup` giving pressure to one partition is one step.

Variables marked "history" (`previous`, `complete`, `witness`, `seen`,
`quietMark`, `missed`, `hardCleanup`, `lostHandoff`, `plans`, `required`,
`accepted`, `met`, `torn`, `exact`, `cut`, `live`, `refusals`, `windowed`,
`publications`, `rejected`, `given`) record what happened for a property; no guard reads them. (`plans` numbers the budget plans, so that a Pool's
class budgets can be traced to the plan they come from.)

Definitions named for a defect (`SecondCheckSkipped`, `NeverNotify`,
`LastShardLeftOut`, ...) stand before the definition they distort and are used by
no specification. Substituting one for its neighbour gives the bug that the
property named in `PROJECT.json` then finds.

## Runs

| Run | Bounds | Shows |
|---|---|---|
| `pool_gate` | 3 goroutines, 2 stores of 1 buffer | gate and Close are safe; `PoolService` is implemented; every Close and operation ends |
| `telemetry` | 2 goroutines, 4 calls or samples, 2 shards of 3 slots in segments of 2, counters modulo 4 | buckets are bounded stacks; counters, storage, samples and windows agree, also after cycles that leave the Pool out |
| `class_credit` | 2 shards of 2 slots, targets 0, 3, 7, 10 for class size 2 | torn and partial publications are harmless |
| `lease_registry` | 2 goroutines, 3 leases, 2 arrays, 1 rejected release, classes 2 and 4, growth 2 | ownership, accounting, close |
| `partition_activity` | 2 Pools, 1 goroutine, full scan each 3 cycles, 2 operations per Pool | marking and expiry |
| `partition_close` | 2 goroutines and the scheduler, 1 lease | both closes are safe and end |
| `partition_publication` | 2 goroutines, 2 Pools, 2 levels, 4 calls | pressure that meets no other one is what all Pools carry; budgets bring back neither old pressure nor an old plan |
| `budget_allocation` | 3 children, words of 4 bits | the allocator is exact, fair to scores, and ends |
| `pool_control` | 2 goroutines, 3 calls, 2 classes on 2 shards of 2 slots, 6 policies | policies, pressure and trims against gets and puts that began before them |
| `group` | 2 goroutines and 3 schedulers, 2 partitions, 3 Pools, 3 calls | batches reach all or none; Close is final; nobody is blocked for ever |
| `lost_policy` | 2 calls | counterexample, see Findings |
| `group_limit` | 2 partitions of one Pool, limit 4 | counterexample, see Findings |

The modules without state have no run of their own. They are checked by the
ASSUMEs of the MC module that instantiates them, which TLC evaluates over small
sets of inputs before it starts:

| In | About | Shows |
|---|---|---|
| `MCClassCredit` | `CreditRules` | shard credits add up to what a class budget funds; decisions keep the credit, also where sums would wrap; snapshots agree on what is in excess |
| `MCPoolTelemetry` | `Counters` | an empty window means that nothing moved; ratios are bounded |
| `MCPoolControl` | `PolicyRules`, `PolicyProfiles`, `ClassTable`, `BudgetPlanning` | profiles are valid; binary searches find the class they stand for; selectors stay in range; budget plans nest, and what is rejected is exactly what cannot be funded |
| `MCPartitionActivity` | `PartitionTrims` | trims stay within their plan over all Pools; pressure grows with what is owned; publications say what happened |
| `MCPartitionPublication` | `CycleStatus` | reports and statuses of partitions and groups agree with the outcome of a cycle |
| `MCPoolGroup` | `GroupConfig` | each Pool is assigned to one partition and found there; normalizing twice changes nothing and keeps what is valid |

Why the bounds suffice. Three goroutines give a closer, a follower and an
operation, or two operations of which one rolls back, in every order; two stores
show a store that is refilled after it was cleared. Three slots in segments
of two give a whole segment, a short one, and the boundary from both sides. Targets
0, 3, 7 and 10 cover disabled, truncated, odd (remainder) and even splits, raised and lowered in
any order, with generations given or not. Three leases over two arrays let an
array return, be handed out again, and a stale slice of it be released; one
rejected release is counted between any two steps of the others. Classes 2
and 4 with growth 2 are adjacent, so a grown slice reaches the next class.
`FullScanInterval` is 3 (16 in the code) because the number of cycles matters only
against it and against the idle limit of 2. One lease suffices in
`partition_close` as its properties distinguish zero from more; the safety part
also holds with three goroutines. In `partition_publication` two callers give
every pair of publications that overlap, and four calls let one caller complete
up to three while the other stands between two of its steps, so that the streams of
generations drift apart before they meet; two Pools show a batch that is half-way.
In `budget_allocation` three children give a pass in which one fills up or reaches
its minimum between two that do not; a word of 15 is small against the bases and
weights (10 + 10, 15 + 3), so that every sum saturates in some behaviours and none in
others; parents 0, 3, 8 and 15 lie below the minimums, between minimums and bases, above both,
and at the end of the word; a maximum of 0 is unbounded, 4 cuts bases and shares.

In `telemetry` a modulus of 4 makes every counter wrap within four calls, and one trim
with a limit of two buffers and five bytes stops at either. A call on a bucket holds
the mutex of its shard, so the stacks need sequences of calls and no interleavings of
their steps. In `pool_control` three calls
put a publication and a trim between the steps of a put; the candidate policies
contract, expand, refuse returns, change the shape or the owner, or disagree with
themselves. In `group` the first partition has two Pools and the second one, so
that a batch is refused at its second partition or at its last Pool.
`group_limit` needs one class in each Pool.

Bounds of the models, not of the code: `MaxGeneration` (publications),
`MaxLeases` (leases acquired, or active), `MaxRejected` (rejected releases),
`MaxCount` (operations per Pool), `MaxCalls` and `MaxWork` (calls), `Modulus` (of
counters; 2^64 in the code).
Deadlock is not checked in `lease_registry`, where everything may be closed and
released; everywhere else some goroutine can always go on. Nobody
has to publish: `Rest` of `PartitionPublication` says so, and leaves a deadlock
possible only while some call is under way; so does `Quiet` of `PoolTelemetry`, and
`PoolControl` and `PoolGroup` have the same.

## Fairness

`PoolGate`: weak fairness of the steps of each goroutine once it has called, since
the scheduler of Go runs what can run; strong fairness for taking `closeMu`,
since `sync.Mutex` hands itself to a waiter that starves. Callers need not call:
starting an operation is not fair.

`PartitionClose`: the same for the goroutines and the scheduler; strong fairness
for taking `closeMu` and for `RLock` (an RWMutex admits the readers that waited
for a writer before the next writer), and for the stop branch of the
scheduler's `select`, which chooses at random among ready branches. Taking the write lock needs
only weak fairness: a waiting writer keeps new readers out, so `readers = {}`
stays true. The timeout and the polling of a graceful close are ordinary steps, as
timers fire.

`PoolGroup`: weak fairness of the steps of each goroutine and of each scheduler. It
is enough: whoever holds a lock goes on, calls are bounded, and a writer that waits
keeps new readers out.

`BudgetAllocation`: weak fairness of the one sequential process, a goroutine that
runs keeps running.

## Proofs

All theorems hold for every value of the constants under the named ASSUMEs,
which only type the constants.

- `SumTheorems`. The lemmas about sums over finite sets that the balances below need:
  any element may be taken out of a sum, whichever order its definition folds it in;
  sums of naturals grow with their terms; what changing one term does to a sum; the sum
  of sums. Also that a step that maps a set to itself can be taken n times
  (`IterationExists`), from which the loops that are recursive functions of a counter
  get their values.
- `PoolDataPath_proofs`, for `PoolGate`. The invariant relates the counter to program counters: it is
  the cardinality of the goroutines inside the counted region; one goroutine
  closes; the lifecycle is Closing exactly while it does; during cleanup no
  goroutine is past its second check, and any that is between the two checks
  will see Closing there. This last part makes the barrier inductive: a zero
  count alone says nothing about operations that have yet to count themselves. Cleared
  stores stay empty since nobody is inside. From it follow the state
  properties, the frozen storage, and the step simulation of `PoolService`.
- `PoolDataPath_proofs`, for `ClassCredit`. Between the two loads of a return lies any number of
  stores. The invariant says that each half is always the half of some
  assignment's credit and that the byte half is a multiple of class size; class
  admission (capacity at least the class size) turns the byte check into the
  buffer check, so the credit that was complete when the bytes were read covers
  the buffer. For the sums over shards (`CreditStaysWithin`) it says that each half of a
  shard's credit is the half that the old or the new target gives that shard. Shares grow
  with the target, so each is at most its share of the larger one, and the shares of a target,
  remainder included, add up to exactly that target.
- `LeaseRegistry_proofs`. A release changes the lease in one critical section and reaches
  the Pool in a later one, so ownership is a matter of where a buffer is in between. The
  invariant names all places an array can be (`Leases`, `Carriers`, `Stored`) and says that
  in strict mode at most one of them has it, once; and that each slice fits the class it is
  kept, leased or carried for, which makes a class exist for every buffer that is registered
  and makes the growth check pass for the slice of the lease. In accounting mode only the
  second part holds: the caller may return any slice.
  The counters (`EveryReturnAccounted`) are balanced against what is under way: the gauges are
  the number and the summed capacities of the active leases, and a return is counted, or in the
  hands of a goroutine between two critical sections.
- `PartitionActivity_proofs`. The invariant relates the cycle in progress to the
  registry: the sample of a Pool is between its last committed sample and its
  counters, the Pools chosen include those that were dirty or active when they
  were chosen, and a mark of a quiet period that the cycle has not chosen is
  impossible. The missed cycles never exceed the cycle counter.
- `PartitionClose_proofs`. The invariant says who holds what: the holder of
  `closeMu` is the one goroutine in the closing region, the writer's state is a
  function of its position, readers are exactly the goroutines in the reader
  region, and there are none while it is held. Pools are open while the lifecycle is not past
  cleanup; with the registry closed and no lease or late acquisition none appears.
- `PartitionTelemetry_proofs`, for `PartitionPublication`. The invariant says which mutexes a position
  holds; that the snapshot in the hand of the holder of a `controlMu` is the
  current one; that pressure attempts that run together have all met, that the Pools
  which one that has met none has passed carry its signal, and the others the signal the
  partition shows, unless the last attempt to end had met another one; and that the holder of
  `controller.mu` has the newest plan, with every Pool that lacks the required
  budgets still on its list.
- `PartitionTelemetry_proofs`, for `PoolTelemetry`. The buckets first: `Well` says that the counts
  of a bucket are those of its segments and that all segments below the top one are full.
  A push and a pop keep it (`PushedWell`, `PoppedWell`), and so do any number of pops, which is what a
  trim is (`TurnsAfter`). With it the gauges of a shard stay equal to what its bucket holds
  (`GaugesSayWhatIsHeld`).
  A class counts after its shards, so between the two a call owes its class something. `Owed`
  says what, by the position of the call; `LedgerInv` says that what the shards have counted
  is what the class has counted plus the debts of all calls on it, and a class that is not
  in use has no debts (`ClassesFollowShards`).
  For samples (`OutcomesSampledWerePut`), `PutInv` balances the puts that the owner has counted
  against outcomes and returns under way, so at each moment outcomes are at most the puts. A
  sample is no moment: `ReadInv` says that each outcome it has loaded is at most the one counted
  now, and that it loads the puts after all of them (`PutsFirst`).
  Windows (`WindowsOfCyclesAddUp`): those of classes add up by the arithmetic of the modulus
  (`ModAdds`), those of the Pool because no counter that a cycle loads is behind the sample
  committed before it (`Covers`), so that a total goes down only if it has wrapped. A cycle
  that leaves the Pool out begins both sums anew, from nothing.
- `PartitionTelemetry_proofs`, for `StoredStacks` (`StoresAreStacks`). Each step of `PoolTelemetry` is a call on
  one stack or a stutter. A pop removes the top of what the segments hold (`TakesTop`); the
  trim, which pops while the next buffer fits, stops after the longest run that fits
  (`TrimTakes`), since bytes only grow with the run.
- `PoolGroup_proofs`. The invariant says for each position of a call what it holds:
  read or write `runtimeMu` (`ReadsGroup`, `WritesGroup`), the gates it has passed
  (`InGate`), the controllers it has locked (`HasController`); and that nobody
  changes what these protect without holding them (`Guarded`). A publication
  holds everything until it ends, so a tick that still has older budgets in hand cannot
  exist beside it, and one that starts later finds its budgets. The number of a publication
  that can still be rejected is nowhere but in its call (`Fresh`), so nothing is left of
  it. Close is final since every call that could publish holds a lock that `Close` waits for.
- `PoolBudget_proofs`, for `BudgetAllocation`. The difficulty is that the total never falls below the
  parent in the middle of a pass, which unsigned arithmetic would not survive. The
  invariant (`SharesFit`) multiplies the share of the pass by the number of children that are
  still to be visited and above their minimum: it is at most the excess, or the share
  is the rounded-up one, which is at most any excess. In the
  distribution, what is assigned and what remains add up to the parent unless the
  first total was cut. So nothing wraps, bounds are kept, and a feasible report
  fits (`FeasibleFits`, which says of the sum kept in `exact` what `AssignsParent` says of
  the real one). A second invariant (`Balance`) says that `exact` is the sum of the assignments
  visited so far in the first loop and of all of them later, which gives `AssignsParent`;
  a third one (`Order`) that a pass gives to children without a score only if
  none of those with one had room when it began.
- `PoolBudget_proofs`, for the initial budgets (`AssignmentsAreExact`). `poolInitialBudgetAssignments`
  repeats passes over the classes until nothing remains or nothing was given. The model
  bounds the number of passes by the number of classes plus two, and the lemma shows that these
  suffice: after a pass, either nothing remains, or no class has room, or the share was
  one and the next pass ends it, or a class that had room has none any more. So what is
  assigned is exactly `Fundable`, for any classes and limits, sums that saturate included.
- `PoolBudget_proofs`, for `PoolControl`. Each call carries what it has loaded, and the invariant
  types it by its position (`Shaped`). `ControlHeld`: who is in a critical section of
  several steps holds `controlMu`, and the snapshot it publishes on is the current one; this
  is what keeps every update. `JudgedLive`: a return carries a decision of a snapshot
  that was in force since it began. `Accounts`: what has been counted and the returns
  under way add up. `BudgetsAssigned`: while a publication assigns, the classes it
  has passed have the planned budgets, and when nobody assigns they have those of the
  policy in force.

The assumptions on `PoolControl` say what the Go types say of policies, plans and signals
(a limit is unsigned, a number of shards an `int`), and that a Pool is built with at
least one shard per class, without which `newClassState` panics.

Proved, but no longer checked by a run: the type invariants of six modules, `NothingRetainedAfterClose`,
`CleanupRunsOnce`, `PoolGenerationsGrow` and `StorageFrozenAfterClose`; `OperationsCounted`
and `GracefulHandoffs`, which the invariants above contain; and `FeasibleFits`. The invariants
of `PoolControl` above have been checked by TLC on `MCPoolControl`.

Checked by TLC only: liveness (`CallsTerminate`, `ShutdownEnds`, `Terminates`, `CallsReturn`: the provers
here have no ENABLED); `BudgetFlow` and the modules without state other than `Bucket`
and `Counters`, but for `AssignmentsAreExact`; the bound `active <= MaxLeases` in
the type invariant of `PartitionClose`, which counts acquisitions in progress.

## Findings

Two statements of the repository that its code does not keep; each has a run
with a counterexample.

1. `lost_policy`. A pressure publication stores the policy it loaded, and holds no
   `controller.mu`: a policy that another goroutine published in between, and
   reported as Published, is replaced by its predecessor. (A policy
   publication replaces pressure in the same way, see the observations.)
2. `group_limit`. A coordinator tick gives a partition without movement a target of
   zero bytes as soon as another partition has a score. A limit of zero is no limit
   for the partition, and its next cycle gives its Pools all they can use, beside the
   busy partition that has the whole budget of the group. With targets above zero
   the same invariant holds in all states of the run. A group policy does not have the
   problem: it gives each partition its minimum.

Observations in the models without a run of their own.

- Budgets. A cycle distributes the whole parent budget over the Pools it sampled;
  the others keep theirs, so that all together may exceed the parent
  (`partition_controller_apply.go`). Bases that overflow a word together are cut to it: the
  reduction then stops while children hold more than the parent, and the report is
  feasible (`budget_allocation.go:139`; `AssignsParent` allows for it). The minimum of
  a Pool is shared by its classes, so that it may fund no buffer at all
  (`MinimumMayFundNothing`; `partition_policy_update.go:378` says otherwise).
- Limits. `MaxRetainedBuffers` bounds each class and shard, never their number in the
  Pool (`CountLimitIsPerClass`; `policy.go:193` says it limits the buffers of the policy
  scope). A shard credit whose bytes come from its class may exceed
  `MaxShardRetainedBytes` when the class size does not divide it (`policy.go:212`).
- Pressure. Nothing orders two publications of pressure to one partition. If A has passed
  the first Pool when B passes both and is shown, and A then reaches the second, the
  partition shows one signal and a Pool carries the other after both have returned; the
  later generation that A gives the Pool hides it (`partition_pressure.go:247`,
  `pool_pressure.go:41`). The last of two to store may also be the first to pass. A policy
  that loads the pressure before a signal and stores after it leaves the partition with the
  old pressure and its Pools with the new one (`partition_policy_update.go:134, 181`).
  `PressureReachedPools` excludes exactly these, in `torn`, and fails without that. The
  next publication that meets neither mends all. A group publishes one at a time.
- Generations. Policies take the generation after the runtime's, pressure the one
  after `p.generation`, which policies leave alone: two policies followed by a pressure move
  the generation of the partition from 3 to 2, with one caller (`generation.go:65`). The
  generation of a pressure attempt that failed is used again by the next one.
- Leases. `AcquireSize` recomputes the origin class from the capacity of the buffer:
  in accounting mode a slice grown to the next class size and retained by the smaller
  class makes the next lease record the larger class.
- Windows. A Pool that the previous cycle did not sample is compared with a zero sample,
  so the scan that follows reports its lifetime counters as movement
  (`partition_window.go:272`; line 21 speaks of movement between two samples): the windows
  of all cycles together count a Pool once more for each time it was left out.
  `WindowsAddUp` therefore begins anew at each such cycle (`CommitOthers`). The window of a
  partition compares sums over different Pools, and may take a smaller choice of them for a
  reset; it is not modelled. Windows of
  classes wrap, windows of Pools take a smaller counter for a reset. Samples are
  torn: outcomes of puts may lag behind the puts.
- Trims. A cycle visits one Pool by default, the worst: if its first buffer exceeds the
  byte limit, no cycle takes anything although other Pools could give
  (`WorstPoolCanStarveTrims`).
- Reports. A tick that meets a running cycle overwrites the status of the one before it.
  The report of a failed commit omits budgets that have been published. A cycle
  without targets is "applied" in a partition and "skipped" in a group.
- Groups. The budget hook of a coordinator tick takes the gate of a partition but not its
  `controller.mu`; only `runtimeMu` keeps it from a policy of the group that is being
  planned. The public API hands out no partition; were one handed out, a policy of the
  partition could be lost as in finding 1.
- Selectors. Round robin favours some shards where its sequence wraps, if the number of
  shards does not divide 2^64 (`SelectorsAreInRange` says exactly when).

## Not modelled

Scores, EWMA, rates and recommendations: floating point on measurements, out of reach of
both tools. The models leave open what depends on a score: any allocation in the
envelope, any order of victims, any weight in `BudgetAllocation`. Snapshots that copy
fields, times, and totals of bytes that only grow. The choice of a shard by
processor (an address of the stack) and by random numbers is any shard. `internal/`
helpers other than the counters and the bounded index. Atomics are sequentially
consistent, as Go defines them.

Left open by choice: `PoolControl` and `PoolGroup` have no refinement to an abstract
specification; the envelope of allocations is not shown to be what `BudgetAllocation`
computes by a refinement, only by its invariants (`BoundsKept`, `AssignsParent`).

## Plan

1. A refinement between `PoolControl` and `ClassCredit`: the publisher of a class as
   the steps of one budget publication.
2. Leases across partitions: the directory of `GroupConfig` in the acquisitions of
   `PoolGroup`.
