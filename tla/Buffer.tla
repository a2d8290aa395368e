------------------------------- MODULE Buffer -------------------------------
(***************************************************************************)
(* buffer.c: a linear byte buffer with a read and a write pointer.  Space  *)
(* in front of the read pointer comes back only when the buffer is drained *)
(* (buffer_read_adv) or compacted (buffer_compact).  Its users fill it     *)
(* with recv through buffer_write_ptr / buffer_write_adv or byte by byte   *)
(* with buffer_write, and empty it with send through buffer_read_ptr /     *)
(* buffer_read_adv or byte by byte with buffer_read.                       *)
(***************************************************************************)
EXTENDS BufferOps, Sequences

CONSTANTS Byte,    \* the values of a byte
          Zero,    \* the byte 0, what buffer_read answers when empty
          Limit    \* b->limit - b->data

ASSUME BufferAssumption == Limit \in Nat /\ Zero \in Byte

VARIABLES data,    \* the storage, indexed from 0
          ptr,     \* the offsets of the read and write pointers
          out      \* the bytes handed out by the latest read

vars == <<data, ptr, out>>

Cell == 0..(Limit - 1)

\* The unread bytes, oldest first.
Unread == [i \in 1..buffer_read_avail(ptr) |-> data[ptr.read + i - 1]]

\* Mutant: the pointers are compacted and the bytes stay where they were.
not_moved(n) == data

\* memmove(b->data, b->read, n) of buffer_compact.
Moved(n) == [i \in Cell |-> IF i < n THEN data[ptr.read + i] ELSE data[i]]

\* buffer_init: the storage is whatever malloc returned.
Init ==
  /\ data \in [Cell -> Byte]
  /\ ptr = [read |-> 0, write |-> 0]
  /\ out = <<>>

\* recv into buffer_write_ptr, then buffer_write_adv(n); recv fills at most
\* the room it was told of, and a failed recv (-1) advances nothing.
Fill ==
  \E n \in 0..buffer_write_room(ptr, Limit) :
    /\ \E received \in [0..(n - 1) -> Byte] :
         data' = [i \in Cell |-> IF i \in ptr.write..(ptr.write + n - 1)
                                 THEN received[i - ptr.write] ELSE data[i]]
    /\ ptr' = buffer_write_adv(ptr, n)
    /\ out' = out

\* buffer_write: a byte for which there is no room is silently dropped.
buffer_write ==
  \E c \in Byte :
    /\ IF buffer_can_write(ptr, Limit)
       THEN /\ data' = [data EXCEPT ![ptr.write] = c]
            /\ ptr' = buffer_write_adv(ptr, 1)
       ELSE UNCHANGED <<data, ptr>>
    /\ out' = out

\* send from buffer_read_ptr, then buffer_read_adv(n).
Drain ==
  \E n \in 0..buffer_read_avail(ptr) :
    /\ out' = [i \in 1..n |-> data[ptr.read + i - 1]]
    /\ ptr' = buffer_read_adv(ptr, n)
    /\ data' = data

buffer_read ==
  /\ IF buffer_can_read(ptr)
     THEN /\ out' = <<data[ptr.read]>>
          /\ ptr' = buffer_read_adv(ptr, 1)
     ELSE out' = <<Zero>> /\ ptr' = ptr
  /\ data' = data

Compact ==
  /\ data' = IF ptr.read \in {0, ptr.write} THEN data
             ELSE Moved(buffer_read_avail(ptr))
  /\ ptr' = buffer_compact(ptr)
  /\ out' = out

Reset == ptr' = buffer_reset(ptr) /\ UNCHANGED <<data, out>>

Next == Fill \/ buffer_write \/ Drain \/ buffer_read \/ Compact \/ Reset

Spec == Init /\ [][Next]_vars

-----------------------------------------------------------------------------
\* The types of the buffer's fields.
TypeOK ==
  /\ data \in [Cell -> Byte]
  /\ ptr \in [read : Nat, write : Nat]
  /\ out \in Seq(Byte)

\* buffer.h:26 and the asserts of buffer.c: R <= W <= limit, whatever mix of
\* byte-wise and block operations the parsers and the relay perform.
PointersOrdered == ptr.read <= ptr.write /\ ptr.write <= Limit

\* A drained buffer is rewound: buffer_read_adv gives the whole capacity back
\* with the last unread byte, so a writer never faces a full but empty buffer.
DrainedIsRewound == ptr.read = ptr.write => ptr.write = 0

Queue == INSTANCE ByteQueue WITH q <- Unread

\* The unread bytes behave as the FIFO queue of ByteQueue.tla: compaction, the
\* rewind of a drained buffer and dropped writes never lose, duplicate or
\* reorder a byte.
ImplementsQueue == Queue!Spec
=============================================================================
