--------------------------- MODULE MCPoolTelemetry ---------------------------
(* One class of size two on two shards of three slots, in segments of two; the      *)
(* second shard is probed as a fallback.  A capacity of one is below the class.     *)
EXTENDS StoredStacks

MCClassSizes == <<2>>
Symmetry == Permutations(Threads)

(* The totals of a Pool that has counted n of one kind and m of another *)
CountersWith(k, n, l, m) ==
    LET events == [NewClassCounters EXCEPT ![k] = Amount(n, n), ![l] = Amount(m, m)]
    IN  PoolCounters(events, Nothing, NoReasons)

(* A window is empty only when no total has changed, unless one has wrapped to zero.  *)
ASSUME EmptyWindowMeansQuiet ==
    \A k, l \in PoolDeltaKinds : \A n, m \in 0 .. Modulus - 1 :
        PoolDeltaIsZero(PoolDelta(CountersWith(k, n, k, n), CountersWith(k, m, l, m)))
            => n = m \/ m = 0

(* No ratio exceeds one, even of counters that have wrapped, and those of hits and     *)
(* misses miss one by at most their rounding.                                      *)
ASSUME RatiosAreBounded ==
    \A n, m \in 0 .. Modulus - 1 :
        LET metrics == Metrics(CountersWith("hit", n, "miss", m))
            sum == metrics.hitRatio + metrics.missRatio
        IN  /\ metrics.hitRatio \in 0 .. RatioScale /\ metrics.missRatio \in 0 .. RatioScale
            /\ n + m \in 1 .. Modulus - 1 => sum \in {RatioScale - 1, RatioScale}

(* What a shard shows of itself is what it has recorded and what it holds.          *)
ASSUME ShardTotals ==
    LET counters == ShardRetain(ShardPut(NewShardCounters, 3), 3)
        totals   == FromShard(counters)
    IN  /\ totals.current = Amount(1, 3)
        /\ PutOutcomes(totals) = totals.events["put"].count
=============================================================================
