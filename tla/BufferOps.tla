----------------------------- MODULE BufferOps -----------------------------
(***************************************************************************)
(* The pointer arithmetic of buffer.c.  A buffer is any record with the    *)
(* fields read and write, the offsets of b->read and b->write from         *)
(* b->data; limit stands for b->limit - b->data.  Buffer.tla adds the      *)
(* bytes; Copy.tla and Socks5.tla use the same operators on the two        *)
(* buffers of a session.                                                   *)
(***************************************************************************)
EXTENDS Integers

\* buffer_reset / buffer_init: both pointers back to data.
buffer_reset(b) == [b EXCEPT !.read = 0, !.write = 0]

\* Mutant: a full buffer still accepts a byte.
can_write_when_full(b, limit) == limit - b.write >= 0

buffer_can_write(b, limit) == limit - b.write > 0

\* The size that buffer_write_ptr reports: what a recv may fill.
buffer_write_room(b, limit) == limit - b.write

buffer_can_read(b) == b.write - b.read > 0

\* The size that buffer_read_ptr reports: what a send may take.
buffer_read_avail(b) == b.write - b.read

buffer_write_adv(b, n) == [b EXCEPT !.write = @ + n]

\* The pointers after buffer_compact; the memmove is in Buffer.tla.
buffer_compact(b) ==
  IF b.read = 0 THEN b
  ELSE [b EXCEPT !.read = 0, !.write = @ - b.read]

\* Mutant: the drained buffer is not rewound.
read_adv_no_rewind(b, n) == [b EXCEPT !.read = @ + n]

\* Advancing the read pointer compacts only when nothing is left to read.
buffer_read_adv(b, n) ==
  LET moved == [b EXCEPT !.read = @ + n]
  IN  IF moved.read = moved.write THEN buffer_reset(moved) ELSE moved
=============================================================================
