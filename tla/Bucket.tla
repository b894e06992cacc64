------------------------------- MODULE Bucket -------------------------------
(* bucket.go and bucket_segment.go: the segmented last-in first-out store of a  *)
(* shard.  Segments are allocated lazily, sized to the slots the bucket has     *)
(* left, and dropped as soon as they are empty; counts are kept incrementally.  *)
(* Callers hold the shard mutex, so an operation is an operator from a bucket    *)
(* to the bucket it leaves and the buffers it stored or removed.               *)
EXTENDS Integers, SequencesExt, FiniteSetsExt

CONSTANTS SlotLimit,         \* buffers the bucket may retain
          SegmentSlotLimit   \* slots of one segment at most

ASSUME LimitsAssumption ==
    /\ SlotLimit \in Nat \ {0}
    /\ SegmentSlotLimit \in 1 .. SlotLimit

(* newBucket: [segments, retainedBuffers, retainedBytes], head segment last *)
EmptyBucket == [segments |-> <<>>, retainedBuffers |-> 0, retainedBytes |-> 0]

None == [buffers |-> 0, bytes |-> 0]

Left(b, result) == [bucket |-> b, buffers |-> result.buffers, bytes |-> result.bytes]

-----------------------------------------------------------------------------
HasHead(b)     == b.segments # <<>>
HeadSegment(b) == Last(b.segments)
SegmentFull(s) == Len(s.slots) = s.slotLimit

IsFull(b)      == b.retainedBuffers = SlotLimit

(* nextSegmentSlotLimit: the last segment may be smaller than the others. *)
NextSegmentSlotLimit(b) ==
    LET remaining == SlotLimit - b.retainedBuffers
    IN  IF remaining < SegmentSlotLimit THEN remaining ELSE SegmentSlotLimit

(* ensureHeadSegment: a new segment when there is none with a free slot. *)
EnsureHeadSegment(b) ==
    IF HasHead(b) /\ ~SegmentFull(HeadSegment(b)) THEN b.segments
    ELSE Append(b.segments, [slotLimit |-> NextSegmentSlotLimit(b), slots |-> <<>>])

Pushed(b, c) ==
    LET segments == EnsureHeadSegment(b)
    IN  [segments        |-> [segments EXCEPT ![Len(segments)].slots = Append(@, c)],
         retainedBuffers |-> b.retainedBuffers + 1,
         retainedBytes   |-> b.retainedBytes + c]

(* releaseEmptyHeadSegment: an empty head segment is dropped at once. *)
ReleaseEmptyHeadSegment(segments) ==
    IF Last(segments).slots = <<>> THEN Front(segments) ELSE segments

(* peekHeadCapacity: the capacity of the buffer that pop removes. *)
PeekHeadCapacity(b) == Last(HeadSegment(b).slots)

BytesAfterPop(b) == b.retainedBytes - PeekHeadCapacity(b)

Popped(b) ==
    LET n == Len(b.segments)
        segments == [b.segments EXCEPT ![n].slots = Front(@)]
    IN  [segments        |-> ReleaseEmptyHeadSegment(segments),
         retainedBuffers |-> b.retainedBuffers - 1,
         retainedBytes   |-> BytesAfterPop(b)]

(* b is the bucket so far and r what a trim has removed from it. *)
TrimFitsEach(b, r, maxBytes) == PeekHeadCapacity(b) <= maxBytes
TrimFits(b, r, maxBytes)     == PeekHeadCapacity(b) <= maxBytes - r.bytes

TrimmedOne(l) ==
    Left(Popped(l.bucket),
         [buffers |-> l.buffers + 1, bytes |-> l.bytes + PeekHeadCapacity(l.bucket)])

(* A buffer that does not fit ends the loop: nothing changes from there on. *)
TrimmedNext(l, maxBytes) ==
    IF TrimFits(l.bucket, l, maxBytes) THEN TrimmedOne(l) ELSE l

-----------------------------------------------------------------------------
(* Operations *)

(* A full bucket and a buffer without capacity are refused. *)
Push(b, c) ==
    IF IsFull(b) \/ c = 0 THEN Left(b, None)
    ELSE Left(Pushed(b, c), [buffers |-> 1, bytes |-> c])

Pop(b) ==
    IF b.retainedBuffers = 0 THEN Left(b, None)
    ELSE Left(Popped(b), [buffers |-> 1, bytes |-> PeekHeadCapacity(b)])

(* One after the other, up to both limits *)
TrimBounded(b, maxBuffers, maxBytes) ==
    LET limit == Min({maxBuffers, b.retainedBuffers})
        after[n \in 0 .. limit] ==
            IF n = 0 THEN Left(b, None) ELSE TrimmedNext(after[n - 1], maxBytes)
    IN  after[limit]

Clear(b) == Left(EmptyBucket, [buffers |-> b.retainedBuffers, bytes |-> b.retainedBytes])

-----------------------------------------------------------------------------
(* The contents of a bucket, oldest buffer first. *)
Contents(b) == FlattenSeq([i \in DOMAIN b.segments |-> b.segments[i].slots])

(* Slot metadata stays lazy and bounded: only the head segment has free slots, no *)
(* segment is empty, and the segments never have more slots than the bucket may   *)
(* retain (bucket.go:97-106, 335-364).                                           *)
SegmentsLazy(b) ==
    /\ \A i \in DOMAIN b.segments :
          /\ b.segments[i].slots # <<>>
          /\ i < Len(b.segments) => SegmentFull(b.segments[i])
    /\ SumFunctionOnSet([i \in DOMAIN b.segments |-> b.segments[i].slotLimit],
                        DOMAIN b.segments) <= SlotLimit

(* The counts that are kept incrementally agree with the slots: the panics of       *)
(* addRetained, removeRetained and mustHaveValidCount cannot fire.                *)
CountsAgree(b) ==
    /\ b.retainedBuffers = Len(Contents(b)) /\ Len(Contents(b)) <= SlotLimit
    /\ b.retainedBytes = FoldSeq(+, 0, Contents(b))
=============================================================================
