---------------------------- MODULE BoundedStacks ----------------------------
(* What buckets promise to their shards: each is a bounded last-in first-out stack of *)
(* buffer capacities, whose trim removes the longest run from the top that fits both  *)
(* limits.  A call on one stack leaves the others alone.                             *)
EXTENDS Integers, SequencesExt

CONSTANTS Stacks,      \* their names
          SlotLimit,   \* buffers a stack holds at most
          Capacities,  \* capacities of the buffers offered to it
          TrimBuffers, \* limits a trim may be given
          ByteLimits

VARIABLES stack,       \* stack[k]: the capacities, last in last
          answer       \* answer[k]: what the last call asked and returned

vars == <<stack, answer>>

Bytes(s) == FoldSeq(+, 0, s)

(* The n uppermost buffers of s. *)
Top(s, n) == SubSeq(s, Len(s) - n + 1, Len(s))
Without(s, n) == SubSeq(s, 1, Len(s) - n)

(* The number of buffers that a trim removes. *)
Trimmed(s, maxBuffers, maxBytes) ==
    Max({n \in 0 .. Len(s) : n <= maxBuffers /\ Bytes(Top(s, n)) <= maxBytes})

Answer(question, n, bytes) == [call |-> question, buffers |-> n, bytes |-> bytes]

Init == /\ stack = [k \in Stacks |-> <<>>]
        /\ answer = [k \in Stacks |-> Answer(<<"new">>, 0, 0)]

Leave(k, s, a) == answer' = [answer EXCEPT ![k] = a] /\ stack' = [stack EXCEPT ![k] = s]

Push(k, c) ==
    IF c > 0 /\ Len(stack[k]) < SlotLimit
    THEN Leave(k, Append(stack[k], c), Answer(<<"push", c>>, 1, c))
    ELSE Leave(k, stack[k], Answer(<<"push", c>>, 0, 0))

(* A call removes n buffers from the top. *)
Take(k, question, n) ==
    Leave(k, Without(stack[k], n), Answer(question, n, Bytes(Top(stack[k], n))))

Pop(k) == Take(k, <<"pop">>, IF stack[k] = <<>> THEN 0 ELSE 1)

Trim(k, maxBuffers, maxBytes) ==
    Take(k, <<"trim", maxBuffers, maxBytes>>, Trimmed(stack[k], maxBuffers, maxBytes))

Clear(k) == Take(k, <<"clear">>, Len(stack[k]))

(* Most steps of a program call no stack. *)
Next ==
    \/ UNCHANGED vars
    \/ \E k \in Stacks :
          \/ \E c \in Capacities : Push(k, c)
          \/ Pop(k)
          \/ \E n \in TrimBuffers, b \in ByteLimits : Trim(k, n, b)
          \/ Clear(k)

Spec == Init /\ [][Next]_vars
=============================================================================
