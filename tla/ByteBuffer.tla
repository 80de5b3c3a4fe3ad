------------------------------- MODULE ByteBuffer -------------------------------
(***************************************************************************)
(* ByteBuffer of src/net/byte_buffer.cpp: a queue of bytes with a greatest   *)
(* length.  Consumed bytes stay at the front of the storage, behind           *)
(* read_offset_, until it pays to move the rest down.                         *)
(***************************************************************************)
EXTENDS Naturals, Sequences

CONSTANT CompactAfter       \* 4096 in consume

ASSUME CompactAssumption == CompactAfter \in Nat \ {0}

Buffers(Bytes) == [storage: Seq(Bytes), offset: Nat, max: Nat \ {0}]

\* The constructor refuses a length of zero.
NewBuffer(max) == [storage |-> <<>>, offset |-> 0, max |-> max]

ReadableSize(b) == Len(b.storage) - b.offset
WritableCapacity(b) == b.max - ReadableSize(b)
ReadableView(b) == SubSeq(b.storage, b.offset + 1, Len(b.storage))

Cleared(b) == [storage |-> <<>>, offset |-> 0, max |-> b.max]
Compacted(b) == [storage |-> ReadableView(b), offset |-> 0, max |-> b.max]

\* append, which refuses bytes that do not fit: its caller asks Fits first.
Fits(b, bytes) == Len(bytes) <= WritableCapacity(b)

Extended(b, bytes) == [storage |-> b.storage \o bytes, offset |-> b.offset, max |-> b.max]

Appended(b, bytes) ==
    IF b.offset # 0 /\ Len(b.storage) + Len(bytes) > b.max
    THEN Extended(Compacted(b), bytes)
    ELSE Extended(b, bytes)

Skipped(b, count) == [storage |-> b.storage, offset |-> b.offset + count, max |-> b.max]

\* Slip: the rest is moved down and the offset kept.
ConsumedTwice(b, count) ==
    LET t == Skipped(b, count)
    IN  IF t.offset = Len(t.storage) THEN Cleared(t)
        ELSE IF t.offset >= CompactAfter /\ t.offset * 2 >= Len(t.storage)
        THEN [t EXCEPT !.storage = ReadableView(t)]
        ELSE t

\* consume: no caller takes more than there is.
Consumed(b, count) ==
    LET t == Skipped(b, count)
    IN  IF t.offset = Len(t.storage) THEN Cleared(t)
        ELSE IF t.offset >= CompactAfter /\ t.offset * 2 >= Len(t.storage) THEN Compacted(t)
        ELSE t
================================================================================
