------------------------------ MODULE CopyOps ------------------------------
(***************************************************************************)
(* The part of copy.c that Copy.tla and Socks5.tla share: the two ends of  *)
(* a relay and the interest check_interest asks the selector for.          *)
(***************************************************************************)
EXTENDS BufferOps

Side == {"client", "server"}

\* state->other
other(side) == IF side = "client" THEN "server" ELSE "client"

\* copy_arrival: the client end reads into input and writes from output, the
\* server end the other way round.
read_buff(side)  == IF side = "client" THEN "input" ELSE "output"
write_buff(side) == read_buff(other(side))

\* Mutant: OP_READ is asked for although the buffer is full.
interest_ignores_room(duplex, rb, wb, limit) ==
  {op \in duplex : \/ op = "OP_READ"
                   \/ op = "OP_WRITE" /\ buffer_can_read(wb)}

\* Mutant: the directions that were shut are asked for too.
interest_ignores_duplex(duplex, rb, wb, limit) ==
  {op \in {"OP_READ", "OP_WRITE"} :
     \/ op = "OP_READ" /\ buffer_can_write(rb, limit)
     \/ op = "OP_WRITE" /\ buffer_can_read(wb)}

\* Mutant: a buffer is sent on only when it cannot take more.
interest_waits_until_full(duplex, rb, wb, limit) ==
  {op \in duplex : \/ op = "OP_READ" /\ buffer_can_write(rb, limit)
                   \/ op = "OP_WRITE" /\ ~buffer_can_write(wb, limit)}

\* The value check_interest computes for an end whose open directions are
\* duplex and whose buffers are rb (filled by reading) and wb (emptied by
\* writing).
check_interest(duplex, rb, wb, limit) ==
  {op \in duplex : \/ op = "OP_READ" /\ buffer_can_write(rb, limit)
                   \/ op = "OP_WRITE" /\ buffer_can_read(wb)}
=============================================================================
