----------------------------- MODULE ClassTable ------------------------------
(* Tables of size classes and their lookups (class_table.go, class_size.go), and  *)
(* the selection of a shard (shard_selection.go, shard_selector_processor.go,     *)
(* shard_selector_random.go).  A table is a sequence of sizes, 0 is no class.      *)
EXTENDS Integers, Sequences, Functions

CONSTANTS Word,  \* the number of values of a uint64
          Mix,   \* MixUint64, a permutation of the values
          Stride \* processorInspiredShardSelectorStep

Values == 0 .. Word - 1

-----------------------------------------------------------------------------
TableValid(sizes) ==
    /\ Len(sizes) \in 1 .. 65536
    /\ \A i \in DOMAIN sizes : sizes[i] # 0
    /\ \A i \in 2 .. Len(sizes) : sizes[i - 1] < sizes[i]

CanServe(size, requested) == size >= requested
WasteFor(size, requested) == IF requested >= size THEN 0 ELSE size - requested

(* sort.Search halves [low, high); it finds the first index where the test holds   *)
(* when the test holds from some index on.  test[i] is its result for index i.    *)
Search(test) ==
    LET count == Len(test)
        bounds == {r \in (0 .. count) \X (0 .. count) : r[1] <= r[2]}
        found[r \in bounds] ==
            LET low == r[1]  high == r[2]  middle == (low + high) \div 2 IN
            IF low = high THEN low
            ELSE IF test[middle + 1] THEN found[<<low, middle>>]
            ELSE found[<<middle + 1, high>>]
    IN  found[<<0, count>>] + 1

InTable(sizes, i) == IF i \in DOMAIN sizes THEN i ELSE 0

ForRequest(sizes, requested) ==
    InTable(sizes, Search([i \in DOMAIN sizes |-> CanServe(sizes[i], requested)]))
ForCapacity(sizes, capacity) ==
    IF capacity = 0 THEN 0 ELSE Search([i \in DOMAIN sizes |-> sizes[i] > capacity]) - 1
ForExactSize(sizes, wanted) ==
    LET i == Search([j \in DOMAIN sizes |-> sizes[j] >= wanted]) IN
    IF wanted # 0 /\ i \in DOMAIN sizes /\ sizes[i] = wanted THEN i ELSE 0

-----------------------------------------------------------------------------
(* A selector is [mode, next, seed]; a selection returns an index and the selector. *)

Selector(mode, class) ==
    [mode |-> mode, next |-> 0,
     seed |-> IF mode = "processor_inspired" THEN Mix[(class + Stride) % Word] ELSE 0]
SelectorModes == {"single", "round_robin", "random", "processor_inspired"}

(* The high half of the product of a mixed value and the bound *)
BoundedIndex(value, bound) == (Mix[value] * bound) \div Word

Xor(a, b) ==
    LET bits[r \in Values \X Values] ==
            IF r = <<0, 0>> THEN 0
            ELSE ((r[1] + r[2]) % 2) + 2 * bits[<<r[1] \div 2, r[2] \div 2>>]
    IN  bits[<<a, b>>]

Advanced(s) ==
    [s EXCEPT !.next = (@ + (CASE s.mode = "single" -> 0
                               [] s.mode \in {"round_robin", "random"} -> 1
                               [] s.mode = "processor_inspired" -> Stride)) % Word]
SelectShard(s, count) ==
    CASE s.mode = "single" -> 0
      [] s.mode = "round_robin" -> s.next % count
      [] s.mode = "random" -> BoundedIndex(Advanced(s).next, count)
      [] s.mode = "processor_inspired" -> BoundedIndex(Xor(Advanced(s).next, s.seed), count)
=============================================================================
