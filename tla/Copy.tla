-------------------------------- MODULE Copy --------------------------------
(***************************************************************************)
(* copy.c: one session in state COPY, relaying between its client and its  *)
(* origin server through its two buffers.  Unlike Socks5.tla, this module  *)
(* follows the bytes.  The selector calls copy_read or copy_write for an   *)
(* end when the interest registered for its descriptor allows it and the   *)
(* socket is ready; peers choose what recv and send answer.                *)
(*                                                                         *)
(* A buffer is its pointers (buf) with its unread bytes (held); Buffer.tla *)
(* shows that buffer.c keeps the unread bytes as a queue.  The POP3        *)
(* sniffer called on the origin's traffic has no effect (see README.md).   *)
(***************************************************************************)
EXTENDS CopyOps, Sequences

CONSTANTS Byte,          \* the values of a byte
          BUFFER_SIZE,   \* INPUT_BUFFER_SIZE = OUTPUT_BUFFER_SIZE
          STREAM_MAX,    \* bound: bytes a peer sends in a behaviour
          UINT32_MAX,    \* where the byte counter stops
          Pipelining     \* TRUE if the client may send data with its request

ASSUME CopyAssumption ==
  /\ BUFFER_SIZE \in Nat \ {0}
  /\ STREAM_MAX \in Nat
  /\ UINT32_MAX \in Nat \ {0}
  /\ Pipelining \in BOOLEAN

VARIABLES st,         \* "COPY" or "DONE", what the latest handler returned
          buf,        \* the pointers of input and output
          held,       \* their unread bytes
          duplex,     \* state->duplex of each end
          interest,   \* the interest registered for each end
          accepted,   \* history: bytes received from each end
          delivered,  \* history: bytes sent to each end
          broken,     \* history: a send to this end failed
          bytesSent   \* stadistics.bytesSent

vars == <<st, buf, held, duplex, interest, accepted, delivered, broken, bytesSent>>

READ  == "OP_READ"
WRITE == "OP_WRITE"
BufferName == {"input", "output"}

\* Sequences of n bytes.
Bytes(n) == [1..n -> Byte]

\* check_interest for both ends, with the buffers and the open directions as
\* the handler leaves them.
RefreshedInterest(b, d) ==
  [side \in Side |-> check_interest(d[side], b[read_buff(side)],
                                    b[write_buff(side)], BUFFER_SIZE)]

\* Mutant: the interest of the other end is left as it was.
refresh_own_end(side) ==
  /\ interest' = [interest EXCEPT ![side] = RefreshedInterest(buf', duplex')[side]]
  /\ st' = IF duplex'[side] = {} THEN "DONE" ELSE "COPY"

\* The end of copy_read and copy_write for one end.
Finish(side) ==
  /\ interest' = RefreshedInterest(buf', duplex')
  /\ st' = IF duplex'[side] = {} THEN "DONE" ELSE "COPY"

\* Mutant: the other end is not told.
shut_one_end(side, op, opposite) == duplex' = [duplex EXCEPT ![side] = @ \ {op}]

\* shutdown() of one direction of an end and of the opposite one of the other.
Shut(side, op, opposite) ==
  duplex' = [duplex EXCEPT ![side] = @ \ {op}, ![other(side)] = @ \ {opposite}]

\* Mutant: calls are counted, not bytes.
counts_calls(total, n) == IF total + 1 < UINT32_MAX THEN total + 1 ELSE total

stadistics_increase_bytes_sent(total, n) ==
  IF total + n < UINT32_MAX THEN total + n ELSE total

\* The session has just reached COPY.  request_write left the client at OP_READ;
\* the origin is at OP_READ, or at OP_NOOP if the connect failed at once.  With
\* pipelining, input holds what the client sent after its request.
Init ==
  /\ st = "COPY"
  /\ duplex = [side \in Side |-> {READ, WRITE}]
  /\ interest \in {[side \in Side |-> IF side = "client" THEN {READ} ELSE origin] :
                     origin \in {{READ}, {}}}
  /\ \/ /\ buf = [b \in BufferName |-> [read |-> 0, write |-> 0]]
        /\ held = [b \in BufferName |-> <<>>]
     \/ /\ Pipelining
        /\ \E r \in 1..BUFFER_SIZE : \E n \in 1..(BUFFER_SIZE - r) :
             /\ buf = [b \in BufferName |-> IF b = "input"
                                            THEN [read |-> r, write |-> r + n]
                                            ELSE [read |-> 0, write |-> 0]]
             /\ \E ahead \in Bytes(n) :
                  held = [b \in BufferName |-> IF b = "input" THEN ahead ELSE <<>>]
  /\ accepted = [side \in Side |-> held[read_buff(side)]]
  /\ delivered = [side \in Side |-> <<>>]
  /\ broken = [side \in Side |-> FALSE]
  /\ bytesSent = 0

\* recv gave 0 or -1: the peer ended its stream or failed, or there was no room
\* to receive into.
ReadEnds(side) ==
  /\ Shut(side, READ, WRITE)
  /\ UNCHANGED <<buf, held, accepted>>

\* recv gave data.
ReadData(side) ==
  LET b == read_buff(side)
  IN  /\ \E n \in 1..buffer_write_room(buf[b], BUFFER_SIZE) :
           /\ Len(accepted[side]) + n <= STREAM_MAX
           /\ buf' = [buf EXCEPT ![b] = buffer_write_adv(@, n)]
           /\ \E data \in Bytes(n) :
                /\ held' = [held EXCEPT ![b] = @ \o data]
                /\ accepted' = [accepted EXCEPT ![side] = @ \o data]
      /\ duplex' = duplex

copy_read(side) ==
  /\ st = "COPY"
  /\ READ \in interest[side]
  /\ ReadEnds(side) \/ ReadData(side)
  /\ Finish(side)
  /\ UNCHANGED <<delivered, broken, bytesSent>>

\* send gave -1.
WriteFails(side) ==
  /\ Shut(side, WRITE, READ)
  /\ broken' = [broken EXCEPT ![side] = TRUE]
  /\ UNCHANGED <<buf, held, delivered, bytesSent>>

\* Mutant: a partial send is taken for a complete one.
partial_send_drops(side) ==
  LET b == write_buff(side)
  IN  /\ \E n \in 1..buffer_read_avail(buf[b]) :
           /\ buf' = [buf EXCEPT ![b] = buffer_read_adv(@, buffer_read_avail(@))]
           /\ held' = [held EXCEPT ![b] = <<>>]
           /\ delivered' = [delivered EXCEPT ![side] = @ \o SubSeq(held[b], 1, n)]
           /\ bytesSent' = stadistics_increase_bytes_sent(bytesSent, n)
      /\ UNCHANGED <<duplex, broken>>

\* send took n bytes, possibly fewer than there were.
WriteData(side) ==
  LET b == write_buff(side)
  IN  /\ \E n \in 1..buffer_read_avail(buf[b]) :
           /\ buf' = [buf EXCEPT ![b] = buffer_read_adv(@, n)]
           /\ held' = [held EXCEPT ![b] = SubSeq(@, n + 1, Len(@))]
           /\ delivered' = [delivered EXCEPT ![side] = @ \o SubSeq(held[b], 1, n)]
           /\ bytesSent' = stadistics_increase_bytes_sent(bytesSent, n)
      /\ UNCHANGED <<duplex, broken>>

copy_write(side) ==
  /\ st = "COPY"
  /\ WRITE \in interest[side]
  /\ WriteFails(side) \/ WriteData(side)
  /\ Finish(side)
  /\ UNCHANGED accepted

\* After DONE close_session unregisters the client: no handler runs again.
Closed == st = "DONE" /\ UNCHANGED vars

Next == (\E side \in Side : copy_read(side) \/ copy_write(side)) \/ Closed

Spec == Init /\ [][Next]_vars

\* A peer that keeps reading makes its socket writable again and again.
FairSpec == Spec /\ \A side \in Side : WF_vars(copy_write(side))

-----------------------------------------------------------------------------
\* The types of the relay's state.
TypeOK ==
  /\ st \in {"COPY", "DONE"}
  /\ buf \in [BufferName -> [read : 0..BUFFER_SIZE, write : 0..BUFFER_SIZE]]
  /\ held \in [BufferName -> Seq(Byte)]
  /\ duplex \in [Side -> SUBSET {READ, WRITE}]
  /\ interest \in [Side -> SUBSET {READ, WRITE}]
  /\ accepted \in [Side -> Seq(Byte)]
  /\ delivered \in [Side -> Seq(Byte)]
  /\ broken \in [Side -> BOOLEAN]
  /\ bytesSent \in Nat

\* The relay is transparent as far as it goes: what an end got is what the
\* other end sent, in order, without gaps or repetitions; the rest is exactly
\* what the buffer still holds.  This survives half-closes, failed sends,
\* partial sends and the rewinding of the buffers.
StreamsAreFaithful ==
  \A side \in Side :
    accepted[side] = delivered[other(side)] \o held[read_buff(side)]

\* The two ends agree on which directions are open: an end reads if and only if
\* the other end writes, so one end has nothing left to do exactly when the
\* other has not.
DirectionsArePaired ==
  \A side \in Side : READ \in duplex[side] <=> WRITE \in duplex[other(side)]

\* When the session ends no descriptor of it is left with an interest: the
\* origin, which close_session does not unregister, cannot fire again.
DoneIsQuiet == st = "DONE" => \A side \in Side : interest[side] = {}

\* The byte counter of the management protocol is exact until it would reach
\* UINT32_MAX (stadistics.c:22).
BytesAreCounted ==
  LET total == Len(delivered["client"]) + Len(delivered["server"])
  IN  bytesSent = total \/ total >= UINT32_MAX

\* After shutdown(fd, SHUT_WR) nothing is sent to that end, and after SHUT_RD
\* nothing is taken from it, although handlers of the other end keep running.
NothingAfterShutdown ==
  [][\A side \in Side :
       /\ WRITE \notin duplex[side] => delivered'[side] = delivered[side]
       /\ READ \notin duplex[side] => accepted'[side] = accepted[side]]_vars

\* A full buffer is not taken for the end of a stream: recv into no room gives
\* 0, which copy.c:106 cannot tell from a close, so no end may be asked to read
\* into a full buffer.  Reading from an end stops while its buffer is full only
\* because the send to the other end failed.
FullBufferIsNotEof ==
  [][\A side \in Side :
       /\ ~buffer_can_write(buf[read_buff(side)], BUFFER_SIZE)
       /\ READ \in duplex[side]
       /\ READ \notin duplex'[side]
       => broken'[other(side)]]_vars

\* What was received is sent on or its direction is shut, as long as the
\* receiving peer keeps reading: no byte waits forever in an open direction.
HeldBytesMove ==
  \A side \in Side :
    (held[write_buff(side)] # <<>>)
      ~> (held[write_buff(side)] = <<>> \/ WRITE \notin duplex[side])

-----------------------------------------------------------------------------
\* What the documentation promises and the code does not do.

\* README:3, the proxy is traversed "de forma segura y transparente": the end
\* of one peer's stream does not cut off bytes received before it.  Unless a
\* send failed, a direction is shut only when its buffer is empty.
EndOfStreamKeepsData ==
  \A side \in Side :
    WRITE \notin duplex[side] /\ ~broken[side] => held[write_buff(side)] = <<>>
=============================================================================
