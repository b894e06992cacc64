---------------------------- MODULE PoolTelemetry ----------------------------
(* The storage of a Pool and what it counts, while a controller samples it         *)
(* (class_state.go, shard.go, pool_get.go, pool_put.go, pool_sample.go,          *)
(* pool_snapshot.go, partition_sample.go, partition_controller_commit.go).        *)
(*                                                                             *)
(* What a shard stores and what it counts change under the mutex of the shard, in *)
(* one action.  The class counts the outcome after that, and its owner counts a   *)
(* put before and a refusal after: each is an action of its own.  Readers take no *)
(* mutex for the counters.  The counters of a class that one call of a record     *)
(* function adds to change together, and a reader loads them in three groups.     *)
(* Which policy or pressure refuses a return, and what changes the credits, are   *)
(* left open: PoolControl and ClassCredit have them.                            *)
EXTENDS Bucket, Counters

CONSTANTS Threads,        \* goroutines that call the Pool
          ClassSizes,     \* the sizes of the classes, in order
          NumShards,      \* shards of a class
          FallbackShards, \* shards a get probes after its first
          CreditBuffers,  \* credit of a shard
          CreditBytes,
          Capacities,     \* capacities of returned buffers
          TrimBuffers,    \* limits that trims are called with
          ByteLimits,
          Reasons,        \* reasons an owner drops for
          MaxWork         \* bound of the model: calls and reads

Classes == DOMAIN ClassSizes
Shards == 0 .. NumShards - 1

ASSUME TelemetryAssumption ==
    /\ IsFiniteSet(Threads)
    /\ ClassSizes \in Seq(Nat \ {0}) /\ NumShards \in Nat \ {0}
    /\ FallbackShards \in 0 .. NumShards - 1
    /\ Capacities \subseteq Nat /\ Reasons \subseteq DropReasons
    /\ TrimBuffers \subseteq Nat \ {0} /\ ByteLimits \subseteq Nat \ {0}

VARIABLES shard,    \* shard[i][s]: [bucket, counters]
          answer,   \* answer[i][s]: what the last call on the bucket asked and returned
          classCounters, \* classCounters[i]: what class i has counted
          owner,    \* poolOwnerCounters
          call,     \* what each goroutine executes next
          work,     \* calls and reads so far
          reader,   \* the read in progress: what it has loaded, and what comes next
          hasPrevious, \* hasPreviousSample: a cycle has been committed
          previous, \* this Pool in the sample of the last committed cycle, empty if it is
                    \* not there (findPoolPartitionPoolSample)
          (* History, read by the properties only *)
          windowed  \* what the first sample had counted and the windows of the committed
                    \* cycles since, added up; anew when a cycle leaves the Pool out

storage == <<shard, answer>>
counted == <<classCounters, owner>>
reading == <<reader, hasPrevious, previous, windowed>>
telemetryVars == <<storage, counted, call, work, reading>>

-----------------------------------------------------------------------------
Idle == [pc |-> "idle"]

(* What a bucket was asked and answered, as BoundedStacks has it *)
Answered(question, left) == [call |-> question, buffers |-> left.buffers, bytes |-> left.bytes]

NoReader == [pc |-> "idle"]
NoClasses == [i \in Classes |-> NewClassCounters]
EmptySample == [totals |-> NoClasses, owner |-> NewOwnerCounters, classes |-> NoClasses]
NoWindows == [classes |-> NoClasses, pool |-> [k \in PoolDeltaKinds |-> Nothing]]

TelemetryInit ==
    /\ shard = [i \in Classes |-> [s \in Shards |->
                  [bucket |-> EmptyBucket, counters |-> NewShardCounters]]]
    /\ answer = [i \in Classes |-> [s \in Shards |->
                   Answered(<<"new">>, Left(EmptyBucket, None))]]
    /\ classCounters = [i \in Classes |-> NewClassCounters]
    /\ owner = NewOwnerCounters
    /\ call = [t \in Threads |-> Idle]
    /\ work = 0
    /\ reader = NoReader
    /\ hasPrevious = FALSE /\ previous = EmptySample
    /\ windowed = NoWindows

Begin(t, c) ==
    /\ call[t] = Idle /\ work < MaxWork
    /\ work' = work + 1
    /\ call' = [call EXCEPT ![t] = c]

Continue(t, c) == call' = [call EXCEPT ![t] = c] /\ UNCHANGED work
Return(t) == Continue(t, Idle)

(* Under the mutex of a shard, the bucket and the counters change together. *)
Locked(i, s, question, left, counters) ==
    /\ shard' = [shard EXCEPT ![i][s] = [bucket |-> left.bucket, counters |-> counters]]
    /\ answer' = [answer EXCEPT ![i][s] = Answered(question, left)]

ClassCounts(i, counters) == classCounters' = [classCounters EXCEPT ![i] = counters] /\ UNCHANGED owner

-----------------------------------------------------------------------------
(* Get *)

StartGet(t, i) ==
    /\ \E s \in Shards : Begin(t, [pc |-> "probe", class |-> i, primary |-> s, offset |-> 0])
    /\ UNCHANGED <<storage, counted, reading>>

(* Classes have the requested size here. *)
Requested(c) == ClassSizes[c.class]

(* One shard of tryGetSelectedWithFallback *)
Probe(t) ==
    LET c == call[t]
        i == c.class
        s == (c.primary + c.offset) % NumShards
        counters == ShardGet(shard[i][s].counters, Requested(c))
        left == Pop(shard[i][s].bucket)
    IN  /\ c.pc = "probe"
        /\ IF left.buffers > 0
           THEN /\ Locked(i, s, <<"pop">>, left, ShardHit(counters, left.bytes))
                /\ Continue(t, [pc |-> "classGet", class |-> i, primary |-> c.primary,
                            hit |-> TRUE, capacity |-> left.bytes])
           ELSE /\ Locked(i, s, <<"pop">>, left, ShardMiss(counters))
                /\ Continue(t, IF c.offset < FallbackShards THEN [c EXCEPT !.offset = @ + 1]
                           ELSE [pc |-> "classGet", class |-> i, primary |-> c.primary,
                                 hit |-> FALSE])
        /\ UNCHANGED <<counted, reading>>

(* recordGetResult: one get, however many shards were probed *)
ClassGet(t) ==
    LET c == call[t]
        counters == RecordGet(classCounters[c.class], Requested(c))
    IN  /\ c.pc = "classGet"
        /\ IF c.hit THEN ClassCounts(c.class, RecordHit(counters, c.capacity)) /\ Return(t)
           ELSE ClassCounts(c.class, RecordMiss(counters)) /\ Continue(t, [c EXCEPT !.pc = "allocate"])
        /\ UNCHANGED <<storage, reading>>

(* recordAllocation: the shard that was probed first counts without its mutex. *)
Allocate(t) ==
    LET c == call[t] IN
    /\ c.pc = "allocate"
    /\ shard' = [shard EXCEPT ![c.class][c.primary].counters =
                    ShardAllocation(@, ClassSizes[c.class])]
    /\ Continue(t, [c EXCEPT !.pc = "classAllocation"])
    /\ UNCHANGED <<answer, counted, reading>>

ClassAllocation(t) ==
    LET c == call[t] IN
    /\ c.pc = "classAllocation"
    /\ ClassCounts(c.class, RecordAllocation(classCounters[c.class], ClassSizes[c.class]))
    /\ Return(t)
    /\ UNCHANGED <<storage, reading>>

-----------------------------------------------------------------------------
(* Put *)

(* The owner counts a put first. *)
StartPut(t, capacity) ==
    /\ Begin(t, [pc |-> "offered", capacity |-> capacity])
    /\ owner' = [owner EXCEPT !.put = Plus(@, One(capacity))]
    /\ UNCHANGED <<storage, classCounters, reading>>

(* A policy, the pressure, a closed Pool or an unknown class refuses it, ... *)
Refuse(t, reason) ==
    LET c == call[t] IN
    /\ c.pc = "offered"
    /\ owner' = [owner EXCEPT !.drop = Plus(@, One(c.capacity)),
                              !.reasons[CountedReason(reason)] = @ + 1]
    /\ Return(t)
    /\ UNCHANGED <<storage, classCounters, reading>>

(* ... or it goes to a class: that of its capacity, or its origin.  The credit is   *)
(* judged by the gauges, the slots by the bucket.                                *)
CreditAllows(current, capacity) ==
    current.count < CreditBuffers /\ current.bytes + capacity <= CreditBytes

Recorded(i, result, capacity) ==
    [pc |-> "classPut", class |-> i, result |-> result, capacity |-> capacity]

TryRetain(t, i, s) ==
    LET c == call[t]
        counters == ShardPut(shard[i][s].counters, c.capacity)
        left == Push(shard[i][s].bucket, c.capacity)
        drop == ShardDrop(counters, c.capacity)
    IN  /\ c.pc = "offered"
        /\ IF c.capacity < ClassSizes[i]
           THEN Continue(t, Recorded(i, "drop", c.capacity)) /\ UNCHANGED storage
           ELSE IF ~CreditAllows(counters.current, c.capacity)
           THEN /\ shard' = [shard EXCEPT ![i][s].counters = drop] /\ UNCHANGED answer
                /\ Continue(t, Recorded(i, "drop", c.capacity))
           ELSE IF left.buffers = 0
           THEN /\ Locked(i, s, <<"push", c.capacity>>, left, drop)
                /\ Continue(t, Recorded(i, "drop", c.capacity))
           ELSE /\ Locked(i, s, <<"push", c.capacity>>, left, ShardRetain(counters, c.capacity))
                /\ Continue(t, Recorded(i, "retain", c.capacity))
        /\ UNCHANGED <<counted, reading>>

(* recordRetainResult, recordRejectedPut *)
ClassPut(t) ==
    LET c == call[t]
        counters == RecordPut(classCounters[c.class], c.capacity)
    IN  /\ c.pc = "classPut"
        /\ ClassCounts(c.class, IF c.result = "retain" THEN RecordRetain(counters, c.capacity)
                                ELSE RecordDrop(counters, c.capacity))
        /\ Return(t)
        /\ UNCHANGED <<storage, reading>>

-----------------------------------------------------------------------------
(* Trim and clear *)

(* trimShardBounded *)
Trim(t, i, s, maxBuffers, maxBytes) ==
    LET left == TrimBounded(shard[i][s].bucket, maxBuffers, maxBytes)
        removed == Amount(left.buffers, left.bytes)
    IN  /\ Begin(t, [pc |-> "classTrim", class |-> i, removed |-> removed])
        /\ Locked(i, s, <<"trim", maxBuffers, maxBytes>>, left,
                  ShardTrim(shard[i][s].counters, removed))
        /\ UNCHANGED <<counted, reading>>

ClassTrim(t) ==
    LET c == call[t] IN
    /\ c.pc = "classTrim"
    /\ ClassCounts(c.class, RecordTrim(classCounters[c.class], c.removed))
    /\ Return(t)
    /\ UNCHANGED <<storage, reading>>

StartClear(t, i) ==
    /\ Begin(t, [pc |-> "clear", class |-> i, shard |-> 0, removed |-> Nothing])
    /\ UNCHANGED <<storage, counted, reading>>

LastTrimResult(total, removed) == removed
AddBucketTrimResult(total, removed) == Plus(total, removed)

(* classState.clear: one shard after the other; the class counts once. *)
ClearShard(t) ==
    LET c == call[t]
        left == Clear(shard[c.class][c.shard].bucket)
        removed == Amount(left.buffers, left.bytes)
        total == AddBucketTrimResult(c.removed, removed)
    IN  /\ c.pc = "clear"
        /\ Locked(c.class, c.shard, <<"clear">>, left,
                  ShardClear(shard[c.class][c.shard].counters, removed))
        /\ Continue(t, IF c.shard < NumShards - 1
                   THEN [c EXCEPT !.shard = @ + 1, !.removed = total]
                   ELSE [pc |-> "classClear", class |-> c.class, removed |-> total])
        /\ UNCHANGED <<counted, reading>>

ClassClear(t) ==
    LET c == call[t] IN
    /\ c.pc = "classClear"
    /\ ClassCounts(c.class, RecordClear(classCounters[c.class], c.removed))
    /\ Return(t)
    /\ UNCHANGED <<storage, reading>>

-----------------------------------------------------------------------------
(* Readers *)

(* What a reader loads, in order.  sampleCounters and Snapshot load each class in three *)
(* groups and the owner last; a controller then loads each class once more, for its     *)
(* class windows.  They read the gauges of the shards as well, which no property uses.  *)
Loads(into) ==
    [n \in 1 .. Len(ClassSizes) * Len(LoadGroups) |->
        <<into, ((n - 1) \div Len(LoadGroups)) + 1, LoadGroups[((n - 1) % Len(LoadGroups)) + 1]>>]
OwnerLoads == <<<<"owner", 0, {"put"}>>, <<"owner", 0, {"drop", "reasons"}>>>>
PoolPlanOwnerFirst == OwnerLoads \o Loads("totals")
PoolPlan == Loads("totals") \o OwnerLoads
ReadPlan(cycle) == IF cycle THEN PoolPlan \o Loads("classes") ELSE PoolPlan

StartRead(cycle) ==
    /\ reader = NoReader /\ work < MaxWork
    /\ work' = work + 1
    /\ reader' = [pc |-> "load", cycle |-> cycle, next |-> 1, sample |-> EmptySample]
    /\ UNCHANGED <<storage, counted, call, hasPrevious, previous, windowed>>

Some(old, new, kinds) == [k \in DOMAIN old |-> IF k \in kinds THEN new[k] ELSE old[k]]

Loaded(sample, what) ==
    CASE what[1] = "totals"  -> [sample EXCEPT !.totals[what[2]] = Some(@, classCounters[what[2]], what[3])]
      [] what[1] = "classes" -> [sample EXCEPT !.classes[what[2]] = Some(@, classCounters[what[2]], what[3])]
      [] what[1] = "owner"   -> [sample EXCEPT !.owner = Some(@, owner, what[3])]

LoadNext ==
    /\ reader.pc = "load"
    /\ LET plan == ReadPlan(reader.cycle) IN
       reader' = [reader EXCEPT !.next = @ + 1,
                                !.sample = Loaded(@, plan[reader.next]),
                                !.pc = IF reader.next = Len(plan) THEN "done" ELSE "load"]
    /\ UNCHANGED <<storage, counted, call, work, hasPrevious, previous, windowed>>

(* The window of the first sample of all is empty.  That of a Pool which the last sample *)
(* leaves out is all the Pool has counted.                                             *)
Since(sample) == IF hasPrevious THEN previous ELSE sample
ClassWindows(sample) ==
    [i \in Classes |-> ClassDelta(Since(sample).classes[i], sample.classes[i])]
TotalsOf(sample) == PoolTotals(sample.totals, sample.owner)
PoolWindow(sample) == PoolDelta(TotalsOf(Since(sample)), TotalsOf(sample))

(* A cycle that is applied keeps its sample; one that fails, and Snapshot, do not. *)
Accumulated(sample) ==
    LET ofClasses == ClassWindows(sample)
        ofPool == PoolWindow(sample)
    IN  [classes |-> [i \in Classes |->
                        [k \in Kinds |-> Plus(windowed.classes[i][k], ofClasses[i][k])]],
         pool    |-> [k \in PoolDeltaKinds |-> Plus(windowed.pool[k], ofPool.events[k])]]
CommitCycle ==
    LET sample == reader.sample
        totals == TotalsOf(sample)
    IN
    /\ reader.pc = "done" /\ reader.cycle
    /\ hasPrevious' = TRUE
    /\ previous' = sample
    /\ windowed' = IF hasPrevious THEN Accumulated(sample)
                   ELSE [classes |-> sample.classes,
                         pool |-> [k \in PoolDeltaKinds |-> totals.events[k]]]
    /\ reader' = NoReader
    /\ UNCHANGED <<storage, counted, call, work>>

(* A cycle that samples other Pools is applied.  It keeps its sample, and this Pool is not *)
(* in it (PartitionActivity has which Pools are sampled).  The first cycle samples all.   *)
CommitOthers ==
    /\ reader = NoReader /\ hasPrevious /\ work < MaxWork
    /\ work' = work + 1
    /\ previous' = EmptySample
    /\ windowed' = NoWindows
    /\ UNCHANGED <<storage, counted, call, reader, hasPrevious>>

Discard ==
    /\ reader.pc = "done"
    /\ reader' = NoReader
    /\ UNCHANGED <<storage, counted, call, work, hasPrevious, previous, windowed>>

-----------------------------------------------------------------------------
Call(t) ==
    \/ \E i \in Classes : StartGet(t, i) \/ StartClear(t, i)
    \/ \E capacity \in Capacities : StartPut(t, capacity)
    \/ \E i \in Classes, s \in Shards, n \in TrimBuffers, b \in ByteLimits : Trim(t, i, s, n, b)

Advance(t) ==
    \/ Probe(t) \/ ClassGet(t) \/ Allocate(t) \/ ClassAllocation(t)
    \/ \E reason \in Reasons : Refuse(t, reason)
    \/ \E i \in Classes, s \in Shards : TryRetain(t, i, s)
    \/ ClassPut(t)
    \/ ClassTrim(t) \/ ClearShard(t) \/ ClassClear(t)

Read == StartRead(TRUE) \/ StartRead(FALSE) \/ LoadNext \/ CommitCycle \/ CommitOthers \/ Discard

(* Nobody has to call, or to read. *)
Quiet == (\A t \in Threads : call[t] = Idle) /\ reader = NoReader /\ UNCHANGED telemetryVars

TelemetryNext == (\E t \in Threads : Call(t) \/ Advance(t)) \/ Read \/ Quiet

TelemetrySpec == TelemetryInit /\ [][TelemetryNext]_telemetryVars

-----------------------------------------------------------------------------
(* Properties *)

(* In every shard the gauges, which credits are judged by, say what the bucket holds,   *)
(* and that is what was retained and neither handed out nor removed.  No gauge can go    *)
(* below zero (shard_counters.go:142, atomicx/counters.go:252).                        *)
StockIsFlow ==
    \A i \in Classes, s \in Shards :
        LET b == shard[i][s].bucket
            c == shard[i][s].counters
            e == c.events
        IN  /\ CountsAgree(b) /\ SegmentsLazy(b)
            /\ c.current = Amount(b.retainedBuffers, b.retainedBytes)
            /\ e["retain"] = Plus(c.current, Plus(e["hit"], Plus(e["trim"], e["clear"])))
            /\ e["put"] = Plus(e["retain"], e["drop"])
            /\ e["get"].count = e["hit"].count + e["miss"].count

(* A class that is not in use has counted what its shards have: each hit, retention,    *)
(* allocation and removal once, a get once however many shards it probed, a clear once   *)
(* for all shards, and the returns that no shard has seen as drops                     *)
(* (class_state.go:315-347, 374-401, 463-474).                                       *)
InUse == {call[t].class : t \in {u \in Threads : "class" \in DOMAIN call[u]}}
OfShards(i, kind) == Total([s \in Shards |-> shard[i][s].counters.events[kind]])
ClassFollowsShards ==
    \A i \in Classes \ InUse :
        LET c == classCounters[i] IN
        /\ \A k \in {"hit", "retain", "allocation", "trimOperation", "trim", "clear"} :
              c[k] = OfShards(i, k)
        /\ c["get"].count = c["hit"].count + c["miss"].count
        /\ OfShards(i, "get").count - c["get"].count
              = OfShards(i, "miss").count - c["miss"].count
        /\ c["miss"].count = c["allocation"].count
        /\ Minus(c["put"], OfShards(i, "put")) = Minus(c["drop"], OfShards(i, "drop"))
        /\ c["clearOperation"].count * NumShards = OfShards(i, "clearOperation").count

(* A Pool is sampled without a lock while returns are counted in several steps, yet no   *)
(* sample has an outcome of a class without the put it belongs to: the owner counts      *)
(* first and is loaded last (pool_put.go:97, pool_sample.go:65-79).                  *)
Outcomes(classes) == Total([i \in Classes |-> Plus(classes[i]["retain"], classes[i]["drop"])])
SampledOutcomesWerePut ==
    reader.pc = "done" =>
        Outcomes(reader.sample.totals).count <= reader.sample.owner.put.count

(* From the sample after a cycle that left the Pool out, whose windows report its lifetime *)
(* once more, the windows of the committed cycles add up to what has been counted, whatever *)
(* was torn in a sample or lost with a cycle that failed: those of the classes across the   *)
(* wrap, those of the Pool, which take a counter that goes down for one that was reset,     *)
(* until a total wraps (partition_window.go:225, 272, 287, class_counters.go:467,          *)
(* partition_controller_commit.go:41).                                                  *)
Wrapped(sample, k) ==
    LET sum == Total([i \in Classes |-> sample.totals[i][k]])
        all == CASE k = "put"  -> sample.owner.put
                 [] k = "drop" -> Plus(sum, sample.owner.drop)
                 [] OTHER      -> sum
    IN  Load(all) # all
WindowsAddUp ==
    hasPrevious =>
        LET totals == TotalsOf(previous) IN
        /\ \A i \in Classes, k \in Kinds :
              Load(windowed.classes[i][k]) = Load(previous.classes[i][k])
        /\ \A k \in PoolDeltaKinds :
              ~Wrapped(previous, k) => windowed.pool[k] = totals.events[k]
=============================================================================
