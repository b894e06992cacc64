---------------------------- MODULE StoredStacks ----------------------------
(* The storage of PoolTelemetry implements what BoundedStacks promises, whatever calls *)
(* the goroutines make on it: a stack for each shard of each class.                  *)
EXTENDS PoolTelemetry

Places == Classes \X Shards
CellAt(k) == shard[k[1]][k[2]]

Storage == INSTANCE BoundedStacks WITH Stacks <- Places,
                                       stack  <- [k \in Places |-> Contents(CellAt(k).bucket)],
                                       answer <- [k \in Places |-> answer[k[1]][k[2]]]

(* Segment by segment, the bucket of a shard is a bounded stack: same order, same      *)
(* refusals, same trim, call by call, and no call reaches another shard               *)
(* (bucket.go:122-239).                                                              *)
ImplementsStack == Storage!Spec
=============================================================================
