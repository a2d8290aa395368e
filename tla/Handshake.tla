----------------------------- MODULE Handshake ------------------------------
(***************************************************************************)
(* The SOCKS5 handshake of one client, byte by byte: hello_read and        *)
(* hello_write of hello.c, request_read of request.c up to the call of     *)
(* request_process, and the parsers of hello_parser.c and                  *)
(* request_parser.c they feed from the session's input buffer.             *)
(*                                                                         *)
(* A client sends one of Streams, a whole hello, a whole request and       *)
(* perhaps more; recv cuts it anywhere, and takes hello and request in one *)
(* piece when the client did not wait for the answer.  The stream does not *)
(* change, so the input buffer is its two pointers and the two counts got  *)
(* and used: it holds the bytes got but not used.                          *)
(***************************************************************************)
EXTENDS BufferOps, SequencesExt

CONSTANTS Streams,       \* what the client may send
          BUFFER_SIZE    \* INPUT_BUFFER_SIZE = OUTPUT_BUFFER_SIZE

Byte == 0..255

ASSUME HandshakeAssumption ==
  /\ BUFFER_SIZE \in Nat \ {0}
  /\ Streams \subseteq Seq(Byte)

VARIABLES stream,     \* what this client sends
          got,        \* bytes recv has delivered
          used,       \* bytes the parsers have consumed
          input,      \* the pointers of session->input
          sent,       \* bytes of the hello answer that were sent
          st,         \* the state of the session's state machine
          interest,   \* of the client's descriptor
          hp,         \* the hello parser and the method it selects
          rp,         \* the request parser and the request it fills
          parsing,    \* hello_consume or request_consume is running
          open        \* the client has not closed its end

vars == <<stream, got, used, input, sent, st, interest, hp, rp, parsing, open>>

METHOD_NO_AUTHENTICATION_REQUIRED == 0
METHOD_USERNAME_PASSWORD          == 2
METHOD_NO_ACCEPTABLE_METHODS      == 255
UNSET == 5      \* memset(session, 0x05, ...)

ipv4 == 1
domain == 3
ipv6 == 4

-----------------------------------------------------------------------------
\* hello_parser.c

hello_parser_init == [state |-> "hello_version", remaining |-> 0, method |-> UNSET]

\* Mutant: the last method that is known wins.
last_method_wins(selected, method) ==
  IF method \in {METHOD_NO_AUTHENTICATION_REQUIRED, METHOD_USERNAME_PASSWORD}
  THEN method ELSE selected

on_hello_method(selected, method) ==
  IF /\ selected # METHOD_USERNAME_PASSWORD
     /\ method \in {METHOD_NO_AUTHENTICATION_REQUIRED, METHOD_USERNAME_PASSWORD}
  THEN method ELSE selected

hello_parser_feed(p, b) ==
  CASE p.state = "hello_version" ->
         [p EXCEPT !.state = IF b = 5 THEN "hello_nmethods"
                             ELSE "hello_error_unsupported_version"]
    [] p.state = "hello_nmethods" ->
         [p EXCEPT !.remaining = b,
                   !.state = IF b <= 0 THEN "hello_done" ELSE "hello_methods"]
    [] p.state = "hello_methods" ->
         [p EXCEPT !.method = on_hello_method(@, b),
                   !.remaining = @ - 1,
                   !.state = IF p.remaining - 1 <= 0 THEN "hello_done" ELSE @]
    [] OTHER -> p

hello_is_done(p) == p.state \in {"hello_done", "hello_error_unsupported_version"}
hello_errored(p) == p.state = "hello_error_unsupported_version"

-----------------------------------------------------------------------------
\* request_parser.c.  addr and port are the bytes stored so far; the rest of
\* the request is zero since request_parser_init.

request_parser_init ==
  [state |-> "request_version", n |-> 0, i |-> 0,
   cmd |-> 0, dest_addr_type |-> 0, dest_addr |-> <<>>, dest_port |-> <<>>]

remaining_set(p, n) == [p EXCEPT !.i = 0, !.n = n]

\* Mutant: one byte too many.
remaining_off_by_one(p) == p.i > p.n

remaining_is_done(p) == p.i >= p.n

version(p, c) ==
  [p EXCEPT !.state = IF c = 5 THEN "request_cmd" ELSE "request_error_unsupported_version"]

cmd(p, c) == [p EXCEPT !.cmd = c, !.state = "request_rsv"]

rsv(p) == [p EXCEPT !.state = "request_atype"]

atype(p, c) ==
  LET q == [p EXCEPT !.dest_addr_type = c]
  IN  CASE c = ipv4   -> [remaining_set(q, 4) EXCEPT !.state = "request_dstaddr"]
        [] c = ipv6   -> [remaining_set(q, 16) EXCEPT !.state = "request_dstaddr"]
        [] c = domain -> [q EXCEPT !.state = "request_dstaddr_fqdn"]
        [] OTHER      -> [q EXCEPT !.state = "request_error_unsupported_atype"]

\* fdqn[n - 1] = 0 stores a zero among zeros, or, for n = 0, in the high byte
\* of dest_addr_type, which is zero too.
dstaddr_fqdn(p, c) == [remaining_set(p, c) EXCEPT !.state = "request_dstaddr"]

\* The byte is stored before the count is looked at: an empty name takes one.
dstaddr(p, c) ==
  LET q == [p EXCEPT !.dest_addr = Append(@, c), !.i = @ + 1]
  IN  IF remaining_is_done(q)
      THEN [remaining_set(q, 2) EXCEPT !.state = "request_dstport"]
      ELSE q

dstport(p, c) ==
  LET q == [p EXCEPT !.dest_port = Append(@, c), !.i = @ + 1]
  IN  IF remaining_is_done(q) THEN [q EXCEPT !.state = "request_done"] ELSE q

request_parser_feed(p, c) ==
  CASE p.state = "request_version"      -> version(p, c)
    [] p.state = "request_cmd"          -> cmd(p, c)
    [] p.state = "request_rsv"          -> rsv(p)
    [] p.state = "request_atype"        -> atype(p, c)
    [] p.state = "request_dstaddr_fqdn" -> dstaddr_fqdn(p, c)
    [] p.state = "request_dstaddr"      -> dstaddr(p, c)
    [] p.state = "request_dstport"      -> dstport(p, c)
    [] OTHER                            -> p

request_errored(p) ==
  p.state \in {"request_error_unsupported_version", "request_error_unsupported_atype"}
request_is_done(p) == request_errored(p) \/ p.state = "request_done"

\* strlen of fdqn: the name ends at its first zero.
strlen(name) == Min({Len(name)} \cup {k - 1 : k \in {j \in DOMAIN name : name[j] = 0}})

\* Mutant: a name is written without its length.
marshal_without_length(room, status, p) ==
  LET reply == <<5, status, 0, p.dest_addr_type>>
                 \o (IF p.dest_addr_type = domain
                     THEN SubSeq(p.dest_addr, 1, strlen(p.dest_addr)) ELSE p.dest_addr)
                 \o p.dest_port
  IN  IF room < Len(reply) THEN <<>> ELSE reply

\* The bytes request_marshal appends, none when they do not fit.
request_marshal(room, status, p) ==
  LET name  == SubSeq(p.dest_addr, 1, strlen(p.dest_addr))
      addr  == IF p.dest_addr_type = domain THEN <<Len(name)>> \o name ELSE p.dest_addr
      reply == <<5, status, 0, p.dest_addr_type>> \o addr \o p.dest_port
  IN  IF room < Len(reply) THEN <<>> ELSE reply

Errno == {"0", "ECONNREFUSED", "EHOSTUNREACH", "ENETUNREACH", "ETIMEDOUT", "EACCES"}

errno_to_socks(e) ==
  CASE e = "0"            -> 0
    [] e = "ECONNREFUSED" -> 5
    [] e = "EHOSTUNREACH" -> 4
    [] e = "ENETUNREACH"  -> 3
    [] e = "ETIMEDOUT"    -> 6
    [] OTHER              -> 1

-----------------------------------------------------------------------------
\* hello.c and request.c

Reading == st \in {"HELLO_READ", "REQUEST_READ"} /\ interest = "OP_READ"

\* A readable client: recv returns n bytes, and the parser is run on them.
Recv(n) ==
  /\ Reading /\ ~parsing
  /\ n \in 1..Min({buffer_write_room(input, BUFFER_SIZE), Len(stream) - got})
  /\ got' = got + n
  /\ input' = buffer_write_adv(input, n)
  /\ parsing' = TRUE
  /\ UNCHANGED <<stream, used, sent, st, interest, hp, rp, open>>

\* recv returns 0 because the client closed, or because there is no room to
\* receive into.
RecvEnds ==
  /\ Reading /\ ~parsing
  /\ \/ ~open
     \/ got < Len(stream) /\ buffer_write_room(input, BUFFER_SIZE) = 0
  /\ st' = "ERROR"
  /\ UNCHANGED <<stream, got, used, input, sent, interest, hp, rp, parsing, open>>

\* One turn of the loops of hello_consume and request_consume: buffer_read
\* takes a byte, and rewinds the buffer when it was the last.
hello_consume ==
  /\ parsing /\ st = "HELLO_READ"
  /\ buffer_can_read(input) /\ ~hello_is_done(hp)
  /\ input' = buffer_read_adv(input, 1)
  /\ used' = used + 1
  /\ hp' = hello_parser_feed(hp, stream[used'])
  /\ UNCHANGED <<stream, got, sent, st, interest, rp, parsing, open>>

\* Mutant: the loop runs to the end of the buffer.
consume_to_the_end ==
  /\ parsing /\ st = "REQUEST_READ"
  /\ buffer_can_read(input)
  /\ input' = buffer_read_adv(input, 1)
  /\ used' = used + 1
  /\ rp' = request_parser_feed(rp, stream[used'])
  /\ UNCHANGED <<stream, got, sent, st, interest, hp, parsing, open>>

request_consume ==
  /\ parsing /\ st = "REQUEST_READ"
  /\ buffer_can_read(input) /\ ~request_is_done(rp)
  /\ input' = buffer_read_adv(input, 1)
  /\ used' = used + 1
  /\ rp' = request_parser_feed(rp, stream[used'])
  /\ UNCHANGED <<stream, got, sent, st, interest, hp, parsing, open>>

\* hello_read after the loop, with hello_process; the answer is two bytes and
\* always fits.
hello_read ==
  /\ parsing /\ st = "HELLO_READ"
  /\ hello_is_done(hp) \/ ~buffer_can_read(input)
  /\ interest' = IF hello_is_done(hp) THEN "OP_WRITE" ELSE interest
  /\ st' = IF hello_errored(hp) \/ (hello_is_done(hp) /\ hp.method = METHOD_NO_ACCEPTABLE_METHODS)
           THEN "ERROR"
           ELSE IF hello_is_done(hp) THEN "HELLO_WRITE" ELSE "HELLO_READ"
  /\ parsing' = FALSE
  /\ UNCHANGED <<stream, got, used, input, sent, hp, rp, open>>

\* request_read after the loop.  PROCESS stands for the call of
\* request_process, where Socks5.tla goes on.
request_read ==
  /\ parsing /\ st = "REQUEST_READ"
  /\ request_is_done(rp) \/ ~buffer_can_read(input)
  /\ st' = IF request_errored(rp) THEN "ERROR"
           ELSE IF request_is_done(rp) THEN "PROCESS" ELSE "REQUEST_READ"
  /\ parsing' = FALSE
  /\ UNCHANGED <<stream, got, used, input, sent, interest, hp, rp, open>>

\* hello_write, n bytes sent.  AUTH_READ is beyond max_state: the process
\* aborts in jump.  REQUEST_READ runs request_arrival.
hello_write(n) ==
  /\ st = "HELLO_WRITE" /\ interest = "OP_WRITE" /\ n \in 1..(2 - sent)
  /\ sent' = sent + n
  /\ IF sent' < 2 THEN UNCHANGED <<st, interest, rp>>
     ELSE /\ interest' = "OP_READ"
          /\ st' = IF hp.method = METHOD_USERNAME_PASSWORD THEN "AUTH_READ" ELSE "REQUEST_READ"
          /\ rp' = request_parser_init
  /\ UNCHANGED <<stream, got, used, input, hp, parsing, open>>

hello_write_fails ==
  /\ st = "HELLO_WRITE" /\ ~open
  /\ st' = "ERROR"
  /\ UNCHANGED <<stream, got, used, input, sent, interest, hp, rp, parsing, open>>

ClientCloses ==
  /\ open /\ ~parsing /\ st \notin {"PROCESS", "ERROR", "AUTH_READ"}
  /\ open' = FALSE
  /\ UNCHANGED <<stream, got, used, input, sent, st, interest, hp, rp, parsing>>

Over == st \in {"PROCESS", "ERROR", "AUTH_READ"} /\ UNCHANGED vars

\* A client that waits for an answer that does not come.
Waiting == Reading /\ ~parsing /\ open /\ got = Len(stream) /\ UNCHANGED vars

Init ==
  /\ stream \in Streams
  /\ got = 0 /\ used = 0 /\ sent = 0
  /\ input = [read |-> 0, write |-> 0]
  /\ st = "HELLO_READ" /\ interest = "OP_READ"
  /\ hp = hello_parser_init /\ rp = request_parser_init
  /\ open = TRUE /\ parsing = FALSE

Serve ==
  \/ \E n \in 1..BUFFER_SIZE : Recv(n)
  \/ hello_consume \/ hello_read \/ request_consume \/ request_read
  \/ \E n \in 1..2 : hello_write(n)
  \/ hello_write_fails
  \/ RecvEnds

Next == Serve \/ ClientCloses \/ Over \/ Waiting

\* The event loop serves a descriptor that stays ready.
Spec == Init /\ [][Next]_vars /\ WF_vars(Serve)

-----------------------------------------------------------------------------
\* The stream as RFC 1928 and the headers of the parsers lay it out.

Offered == {stream[k] : k \in 3..(2 + stream[2])}
RequestAt == 3 + stream[2]
Cmd  == stream[RequestAt + 1]
Atyp == stream[RequestAt + 3]
\* Where DST.ADDR starts and how long it is.  An empty name is no name: the
\* parser takes the byte that follows for one.
AddrAt  == RequestAt + (IF Atyp = domain THEN 5 ELSE 4)
AddrLen == CASE Atyp = ipv4 -> 4 [] Atyp = ipv6 -> 16
             [] Atyp = domain -> IF stream[RequestAt + 4] = 0 THEN 1 ELSE stream[RequestAt + 4]
Addr == SubSeq(stream, AddrAt, AddrAt + AddrLen - 1)
RequestEnd == AddrAt + AddrLen + 1

TypeOK ==
  /\ stream \in Streams /\ got \in 0..Len(stream) /\ used \in 0..got
  /\ input \in [read : 0..BUFFER_SIZE, write : 0..BUFFER_SIZE]
  /\ sent \in 0..2 /\ open \in BOOLEAN /\ parsing \in BOOLEAN /\ interest \in {"OP_READ", "OP_WRITE"}
  /\ st \in {"HELLO_READ", "HELLO_WRITE", "REQUEST_READ", "AUTH_READ", "PROCESS", "ERROR"}
  /\ hp.remaining \in Byte /\ hp.method \in Byte
  /\ rp.n \in Byte /\ rp.i \in Byte

\* However recv cuts the stream, the session ends up with the best method the
\* client offered, whatever their order, and leaves the table of states
\* (stm.c's jump aborts) only for a client that offered user and password.
MethodIsBestOffered ==
  /\ st \in {"HELLO_WRITE", "REQUEST_READ", "AUTH_READ", "PROCESS"} =>
       hp.method = IF METHOD_USERNAME_PASSWORD \in Offered THEN METHOD_USERNAME_PASSWORD
                   ELSE IF METHOD_NO_AUTHENTICATION_REQUIRED \in Offered
                   THEN METHOD_NO_AUTHENTICATION_REQUIRED ELSE UNSET
  /\ st = "AUTH_READ" => METHOD_USERNAME_PASSWORD \in Offered

\* However recv cuts the stream, request_process sees exactly the command,
\* address and port that were sent, and everything behind the request is
\* still in the buffer, for the relay; on the way there the parsers' counts
\* and indexes stay within a byte (TypeOK).
RequestIsDecoded ==
  /\ TypeOK
  /\ st = "PROCESS" =>
       /\ rp.cmd = Cmd /\ rp.dest_addr_type = Atyp
       /\ rp.dest_addr = Addr
       /\ rp.dest_port = SubSeq(stream, RequestEnd - 1, RequestEnd)
       /\ used = RequestEnd
       /\ buffer_read_avail(input) = got - used

\* A handshake is only given up when the client closed, when the stream
\* breaks the protocol where a parser looks, or when bytes the client sent
\* ahead of the answer fill the buffer: consuming as it arrives, the parser
\* of a request longer than the buffer never runs out of room.
RefusedOnlyForCause ==
  st = "ERROR" =>
    \/ ~open
    \/ hp.state = "hello_error_unsupported_version" /\ stream[1] # 5
    \/ rp.state = "request_error_unsupported_version" /\ stream[RequestAt] # 5
    \/ rp.state = "request_error_unsupported_atype" /\ Atyp \notin {ipv4, domain, ipv6}
    \/ rp.state = "request_version" /\ sent = 2 /\ used = RequestAt - 1
         /\ got - used = BUFFER_SIZE - input.read

\* The reply for a decoded request repeats the request's address and port,
\* as far as the address is not cut by strlen, and claims success for
\* errno 0 only.
ReplyMirrorsRequest ==
  (st = "PROCESS" /\ (Atyp = domain => stream[RequestAt + 4] # 0 /\ 0 \notin ToSet(Addr))) =>
    \A e \in Errno :
      LET reply == request_marshal(BUFFER_SIZE, errno_to_socks(e), rp)
      IN  /\ RequestEnd - RequestAt + 1 <= BUFFER_SIZE =>
               SubSeq(reply, 4, Len(reply)) = SubSeq(stream, RequestAt + 3, RequestEnd)
          /\ reply # <<>> => (reply[2] = 0 <=> e = "0")

\* A client that sends its hello and its request gets past the handshake,
\* unless the whole request arrived together with the hello: nobody looks at
\* it again before another byte arrives.
HandshakeEnds ==
  <>(st \in {"PROCESS", "ERROR", "AUTH_READ"}
     \/ (st = "REQUEST_READ" /\ ~parsing /\ used < got /\ got = Len(stream)))
=============================================================================
