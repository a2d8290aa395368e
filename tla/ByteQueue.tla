----------------------------- MODULE ByteQueue -----------------------------
(***************************************************************************)
(* What buffer.c promises its users: a queue of at most Limit bytes.       *)
(* Bytes come out in the order in which they went in, none twice and none  *)
(* lost, unless the owner resets the queue.  Buffer.tla implements this.   *)
(***************************************************************************)
EXTENDS Naturals, Sequences

CONSTANTS Byte,    \* the values of a byte
          Zero,    \* the byte an empty queue answers to a one-byte read
          Limit    \* capacity

VARIABLES q,       \* the unread bytes, oldest first
          out      \* the bytes handed out by the latest read

vars == <<q, out>>

Init == q = <<>> /\ out = <<>>

\* A producer appends bytes; the queue never holds more than Limit.
Put == /\ q' \in Seq(Byte)
       /\ Len(q') \in Len(q)..Limit
       /\ \A i \in 1..Len(q) : q'[i] = q[i]
       /\ out' = out

\* A consumer takes the n oldest bytes.
Take == \E n \in 0..Len(q) :
          /\ out' = SubSeq(q, 1, n)
          /\ q' = SubSeq(q, n + 1, Len(q))

\* A one-byte read of an empty queue answers Zero and changes nothing.
TakeEmpty == q = <<>> /\ out' = <<Zero>> /\ q' = q

\* The owner discards what is left.
Discard == q' = <<>> /\ out' = out

Next == Put \/ Take \/ TakeEmpty \/ Discard

Spec == Init /\ [][Next]_vars
=============================================================================
