------------------------------- MODULE Socks5 -------------------------------
(***************************************************************************)
(* The proxy process: the event loop of selector.c, the per-session state  *)
(* machine of stm.c with the handlers of hello.c, request.c and copy.c,    *)
(* and the session life cycle of socks5.c.                                 *)
(*                                                                         *)
(* One thread runs everything.  pselect reports a set of ready             *)
(* descriptors; handle_iteration then walks the descriptors upwards and    *)
(* runs, for each, the read handler and then the write handler, looking at *)
(* the registration table as earlier handlers of the same walk left it but *)
(* at the readiness sets as pselect returned them.  One handler call is    *)
(* one action.  Descriptor numbers are real: the kernel hands out the      *)
(* lowest free one, so a number closed in a walk can come back in it.      *)
(*                                                                         *)
(* Data is abstracted: a buffer is its two pointers, a message is the fact *)
(* that a parser finished, and peers choose the outcome of every recv,     *)
(* send and connect.  Outcomes names the choices a run allows them.        *)
(***************************************************************************)
EXTENDS SelectorOps, CopyOps, SequencesExt

CONSTANTS Session,        \* heap cells for Session objects, each used once
          FD_LIMIT,       \* descriptors the process may have open
          BUFFER_SIZE,    \* INPUT_BUFFER_SIZE = OUTPUT_BUFFER_SIZE
          Offers,         \* METHODS fields a client may send
          Requests,       \* requests a client may send: subset of RequestKind
          Outcomes        \* environment choices a run explores

RequestKind == {"connect_ip", "connect_domain", "other_command"}

OutcomeKind == {"recv_fails", "send_fails", "send_partial", "accept_fails",
                "socket_fails", "nio_fails", "connect_now", "connect_fails",
                "origin_refuses", "parse_more", "parse_error", "pipelined", "malloc_fails"}

ASSUME Socks5Assumption ==
  /\ ITEMS_MAX_SIZE \in Nat \ {0}
  /\ FD_LIMIT \in Nat \ {0}
  /\ BUFFER_SIZE \in Nat /\ BUFFER_SIZE >= 2
  /\ NoData \notin Session
  /\ Offers \subseteq Seq(STRING)
  /\ Requests \subseteq RequestKind
  /\ Outcomes \subseteq OutcomeKind

VARIABLES sel,         \* the selector's table
          slave_r,     \* s->slave_r: readable bits not yet walked past
          slave_w,     \* s->slave_w: writable bits not yet walked past
          kern,        \* the kernel's view of each descriptor number
          sess,        \* the Session objects
          stadistics,  \* the connection counters
          fault        \* why the process died, or "none"

vars == <<sel, slave_r, slave_w, kern, sess, stadistics, fault>>

Fd == 0..(FD_LIMIT - 1)
listener == 0     \* the passive socket; lower than every accepted descriptor

\* A descriptor is free, or open for the listener, a client, or an origin
\* whose connect is pending, succeeded or failed.
FdKind == {"free", "listener", "client", "pending", "connected", "failed"}

\* enum session_state up to max_state = DONE.  "start" is current == NULL.
StmState == {"HELLO_READ", "HELLO_WRITE", "REQUEST_READ", "REQUEST_CONNECTING",
             "REQUEST_WRITE", "COPY", "ERROR", "DONE"}
SessionState == StmState \cup {"unallocated", "start", "freed"}

\* METHOD values; UNSET is 0x05, what memset(session, 0x05, ...) leaves there.
NO_ACCEPTABLE == "X'FF'"
NO_AUTH   == "X'00'"
USERPASS  == "X'02'"
UNSET     == "X'05'"

EmptyBuffer == [read |-> 0, write |-> 0]
NoDuplex == [side \in Side |-> {}]

NoSession == [st |-> "unallocated", cfd |-> -1, ofd |-> -1, offer |-> <<>>,
              method |-> UNSET, status |-> "none", input |-> EmptyBuffer,
              output |-> EmptyBuffer, duplex |-> NoDuplex, died |-> "none"]

Live(s) == sess[s].st \notin {"unallocated", "freed"}

Open == {fd \in Fd : kern[fd] # "free"}
LowestFree == Min(Fd \ Open)

-----------------------------------------------------------------------------
\* The walk of handle_iteration.  The bits at or before the handler that runs
\* are dropped: the walk never comes back to them.

Ready(fd, op) ==
  /\ fd \in (IF op = READ THEN slave_r ELSE slave_w)
  /\ ITEM_USED(sel, fd)
  /\ op \in sel.item[fd].interest

IsNext(fd, op) ==
  /\ fault = "none"
  /\ Ready(fd, op)
  /\ op = WRITE => ~Ready(fd, READ)
  /\ \A g \in ItemFd : g < fd => ~Ready(g, READ) /\ ~Ready(g, WRITE)

Walk(fd, op) ==
  /\ slave_r' = {g \in slave_r : g > fd}
  /\ slave_w' = {g \in slave_w : g > fd \/ (g = fd /\ op = READ)}

\* handle_first: the state in which the handler runs.
current(s) == IF sess[s].st = "start" THEN "HELLO_READ" ELSE sess[s].st

\* The handler of state st runs for session s because of event op on fd.
Handle(fd, op, s, st) ==
  /\ IsNext(fd, op)
  /\ fd # listener
  /\ s = sel.item[fd].data
  /\ current(s) = st
  /\ Walk(fd, op)

\* abort() or undefined behaviour: nothing happens afterwards.
Die(why) ==
  /\ fault' = why
  /\ UNCHANGED <<sel, kern, sess, stadistics>>

\* Mutant: copy_arrival sets up the client end only.
arrival_client_only(rec, next) ==
  CASE next = "REQUEST_READ" -> [rec EXCEPT !.status = "general_failure"]
    [] next = "COPY" -> [rec EXCEPT !.duplex["client"] = {READ, WRITE}]
    [] OTHER -> rec

\* The on_arrival callbacks that touch modelled fields.
arrival(rec, next) ==
  CASE next = "REQUEST_READ" -> [rec EXCEPT !.status = "general_failure"]
    [] next = "COPY" -> [rec EXCEPT !.duplex = [side \in Side |-> {READ, WRITE}]]
    [] OTHER -> rec

\* stm.c jump(): departure and arrival only when the state changes.
jump(rec, next) ==
  IF rec.st = next THEN rec ELSE [arrival(rec, next) EXCEPT !.st = next]

\* Mutant: the connection is not taken off the counter.
decrease_forgotten(c) == c

stadistics_decrease_concurrent(c) ==
  [c EXCEPT !.concurrentConnections = IF @ > 0 THEN @ - 1 ELSE @]

\* Mutant: the client's descriptor is not closed.
close_without_close(s, rec, table, k) ==
  /\ sel' = selector_unregister_fd(table, rec.cfd)
  /\ kern' = k
  /\ sess' = [sess EXCEPT ![s] = [rec EXCEPT !.st = "freed", !.died = current(s)]]
  /\ stadistics' = stadistics_decrease_concurrent(stadistics)

\* close_session with the client_close callback it triggers.  Only the client
\* is unregistered and closed; the second close(client.fd) finds it closed.
close_session(s, rec, table, k) ==
  /\ sel' = selector_unregister_fd(table, rec.cfd)
  /\ kern' = [k EXCEPT ![rec.cfd] = "free"]
  /\ sess' = [sess EXCEPT ![s] = [rec EXCEPT !.st = "freed", !.died = current(s)]]
  /\ stadistics' = stadistics_decrease_concurrent(stadistics)

\* The end of client_read / client_write: the handler returned ret and left
\* the session, the table and the descriptors as rec, table and k.
Return(s, ret, rec, table, k) ==
  IF ret \notin StmState THEN Die("next_beyond_max_state")
  ELSE /\ fault' = fault
       /\ IF ret \in {"ERROR", "DONE"} THEN close_session(s, jump(rec, ret), table, k)
          ELSE /\ sess' = [sess EXCEPT ![s] = jump(rec, ret)]
               /\ sel' = table
               /\ kern' = k
               /\ stadistics' = stadistics

\* The same for a handler that opens or closes no descriptor.
ReturnSame(s, ret, rec, table) == Return(s, ret, rec, table, kern)
-----------------------------------------------------------------------------
\* What recv and send may answer on fd: a recv into a full buffer asks for 0
\* bytes and gets 0, which every caller takes for the end of the stream; a
\* socket that is not connected answers -1.

CanTransfer(fd) == kern[fd] \in {"client", "connected"}

RecvFails(fd, b) ==
  \/ ~CanTransfer(fd)
  \/ buffer_write_room(b, BUFFER_SIZE) = 0
  \/ "recv_fails" \in Outcomes

Received(fd, b) ==
  {n \in 1..BUFFER_SIZE : CanTransfer(fd) /\ n <= buffer_write_room(b, BUFFER_SIZE)}

SendFails(fd) == ~CanTransfer(fd) \/ "send_fails" \in Outcomes

Sent(fd, b) ==
  {n \in 1..BUFFER_SIZE : /\ CanTransfer(fd)
                          /\ n <= buffer_read_avail(b)
                          /\ n = buffer_read_avail(b) \/ "send_partial" \in Outcomes}

\* What a parser leaves in the buffer b when it finishes: the bytes the client
\* sent ahead of time.  It consumes at least the byte that completes it.
Leftovers(b) ==
  {buffer_read_adv(b, n) : n \in {m \in 1..buffer_read_avail(b) :
     m = buffer_read_avail(b) \/ "pipelined" \in Outcomes}}

\* hello_marshall and request_marshal fail unless their message fits; len is
\* the message's length (2 stands for both messages).
ReplyLength == 2
Marshalled(b) == buffer_write_adv(b, ReplyLength)
MarshalFits(b) == buffer_write_room(b, BUFFER_SIZE) >= ReplyLength

-----------------------------------------------------------------------------
\* socks5.c: new connections.

UINT16_MAX == 65535

\* Both counters stop at UINT16_MAX.
stadistics_increase_concurrent(c) ==
  LET up(n) == IF n < UINT16_MAX THEN n + 1 ELSE n
  IN  [concurrentConnections |-> up(c.concurrentConnections),
       totalConnections |-> up(c.totalConnections)]

NewSession(fd) == [NoSession EXCEPT !.st = "start", !.cfd = fd]

\* accept, then initialize_session for an unused cell.
Accepted ==
  /\ \E s \in Session :
       /\ sess[s].st = "unallocated"
       /\ \/ /\ Fd \ Open # {}
             /\ sel' = selector_register(sel, LowestFree, OP_READ, s)
             /\ kern' = [kern EXCEPT ![LowestFree] = "client"]
             /\ sess' = [sess EXCEPT ![s] = NewSession(LowestFree)]
          \/ /\ Fd \ Open = {} \/ "accept_fails" \in Outcomes
             /\ sess' = [sess EXCEPT ![s] = NewSession(-1)]
             /\ UNCHANGED <<sel, kern>>
  /\ stadistics' = stadistics_increase_concurrent(stadistics)

\* new_connection_ipv4 / new_connection_ipv6: accept, allocate, register and
\* count.  A failed accept (-1) and a failed registration go unnoticed: the
\* session stays allocated and is counted.  Without memory for the session the
\* client is closed again.
new_connection ==
  /\ IsNext(listener, READ)
  /\ Walk(listener, READ)
  /\ fault' = fault
  /\ \/ /\ "malloc_fails" \in Outcomes
        /\ UNCHANGED <<sel, kern, sess, stadistics>>
     \/ Accepted

-----------------------------------------------------------------------------
\* hello.c

\* on_hello_method: USERNAME/PASSWORD sticks once seen.
on_hello_method(selected, method) ==
  IF selected # USERPASS /\ method \in {NO_AUTH, USERPASS} THEN method ELSE selected

\* The method once the parser has called it for every byte of METHODS.
SelectedMethod(offer) ==
  LET selected[n \in 0..Len(offer)] ==
        IF n = 0 THEN UNSET ELSE on_hello_method(selected[n - 1], offer[n])
  IN  selected[Len(offer)]

\* hello_read with hello_process: the interest of fd becomes OP_WRITE before
\* the answer is marshalled.
hello_read(fd, s) ==
  /\ Handle(fd, READ, s, "HELLO_READ")
  /\ LET rec == sess[s]
     IN  \/ RecvFails(fd, rec.input) /\ ReturnSame(s, "ERROR", rec, sel)
         \/ \E n \in Received(fd, rec.input) :
              LET got == buffer_write_adv(rec.input, n)
              IN  \/ /\ "parse_more" \in Outcomes
                     /\ ReturnSame(s, "HELLO_READ",
                                   [rec EXCEPT !.input = buffer_reset(got)], sel)
                  \/ /\ "parse_error" \in Outcomes
                     /\ ReturnSame(s, "ERROR", rec, sel)
                  \/ \E left \in Leftovers(got), offer \in Offers :
                       ReturnSame(s,
                         IF /\ MarshalFits(rec.output)
                            /\ SelectedMethod(offer) # NO_ACCEPTABLE
                         THEN "HELLO_WRITE" ELSE "ERROR",
                         [rec EXCEPT !.input = left,
                                     !.offer = offer,
                                     !.method = SelectedMethod(offer),
                                     !.output = Marshalled(@)],
                         selector_set_interest(sel, fd, OP_WRITE))

hello_write(fd, s) ==
  /\ Handle(fd, WRITE, s, "HELLO_WRITE")
  /\ LET rec == sess[s]
     IN  \/ SendFails(fd) /\ ReturnSame(s, "ERROR", rec, sel)
         \/ \E n \in Sent(fd, rec.output) :
              LET sent == [rec EXCEPT !.output = buffer_read_adv(@, n)]
              IN  IF buffer_can_read(sent.output)
                  THEN ReturnSame(s, "HELLO_WRITE", sent, sel)
                  ELSE ReturnSame(s,
                         IF rec.method = USERPASS THEN "AUTH_READ" ELSE "REQUEST_READ",
                         sent, selector_set_interest(sel, fd, OP_READ))

-----------------------------------------------------------------------------
\* request.c

\* request_connect after the request rec was read on fd.  server.fd is -1 in
\* REQUEST_READ (new_connection sets it and nothing before this changes it), so
\* the branch that closes an earlier origin (request.c:268) is never taken.
request_connect(fd, s, rec) ==
  \/ /\ Fd \ Open = {} \/ "socket_fails" \in Outcomes
     /\ ReturnSame(s, "ERROR", rec, sel)
  \/ /\ Fd \ Open # {}
     /\ LET ofd == LowestFree
            with == [rec EXCEPT !.ofd = ofd]
            refused == [with EXCEPT !.status = "connect_error",
                                    !.output = Marshalled(@)]
            Registered(table, ret) ==
              IF register_status(table, ofd) = "SELECTOR_SUCCESS" THEN ret ELSE "ERROR"
            quiet == selector_set_interest(sel, fd, OP_NOOP)
            answer == selector_set_interest(sel, rec.cfd, OP_WRITE)
        IN  \/ \* selector_fd_set_nio failed: no connect, nothing registered
               /\ "nio_fails" \in Outcomes
               /\ Return(s, "REQUEST_CONNECTING", with, sel,
                         [kern EXCEPT ![ofd] = "failed"])
            \/ \* connect returned 0 at once: nothing registered either
               /\ "connect_now" \in Outcomes
               /\ Return(s, "REQUEST_CONNECTING", with, sel,
                         [kern EXCEPT ![ofd] = "connected"])
            \/ \* EINPROGRESS
               Return(s, Registered(quiet, "REQUEST_CONNECTING"), with,
                      selector_register(quiet, ofd, OP_WRITE, s),
                      [kern EXCEPT ![ofd] = "pending"])
            \/ \* any other errno: the reply is ready, the origin is parked
               /\ "connect_fails" \in Outcomes
               /\ IF MarshalFits(rec.output)
                  THEN Return(s, Registered(answer, "REQUEST_WRITE"), refused,
                              selector_register(answer, ofd, OP_NOOP, s),
                              [kern EXCEPT ![ofd] = "failed"])
                  ELSE Return(s, "ERROR", with, sel, [kern EXCEPT ![ofd] = "failed"])

\* Mutant: an unsupported command is answered and the session goes on.
unsupported_gets_reply(fd, s, rec, kind) ==
  CASE kind = "connect_ip" -> request_connect(fd, s, rec)
    [] kind = "connect_domain" -> ReturnSame(s, "REQUEST_CONNECTING", rec, sel)
    [] kind = "other_command" ->
         ReturnSame(s, "REQUEST_WRITE",
                    [rec EXCEPT !.status = "command_not_supported",
                                !.output = Marshalled(@)],
                    selector_set_interest(sel, fd, OP_WRITE))

\* request_process: a domain name starts nothing, and a command other than
\* CONNECT sets a status that is not marshalled; both leave fd at OP_READ.
request_process(fd, s, rec, kind) ==
  CASE kind = "connect_ip" -> request_connect(fd, s, rec)
    [] kind = "connect_domain" -> ReturnSame(s, "REQUEST_CONNECTING", rec, sel)
    [] kind = "other_command" ->
         ReturnSame(s, "REQUEST_WRITE",
                    [rec EXCEPT !.status = "command_not_supported"], sel)

request_read(fd, s) ==
  /\ Handle(fd, READ, s, "REQUEST_READ")
  /\ LET rec == sess[s]
     IN  \/ RecvFails(fd, rec.input) /\ ReturnSame(s, "ERROR", rec, sel)
         \/ \E n \in Received(fd, rec.input) :
              LET got == buffer_write_adv(rec.input, n)
              IN  \/ /\ "parse_more" \in Outcomes
                     /\ ReturnSame(s, "REQUEST_READ",
                                   [rec EXCEPT !.input = buffer_reset(got)], sel)
                  \/ /\ "parse_error" \in Outcomes
                     /\ ReturnSame(s, "ERROR", rec, sel)
                  \/ \E left \in Leftovers(got), kind \in Requests :
                       request_process(fd, s, [rec EXCEPT !.input = left], kind)

\* Mutant: the client is not asked to take the reply.
connecting_forgets_client(fd, s) ==
  /\ Handle(fd, WRITE, s, "REQUEST_CONNECTING")
  /\ LET rec == sess[s]
     IN  ReturnSame(s, "REQUEST_WRITE",
                    [rec EXCEPT !.status = "succeeded", !.output = Marshalled(@)],
                    selector_set_interest(sel, rec.ofd, OP_READ))

\* request_connecting: the origin's descriptor became writable.  SO_ERROR is 0
\* as long as the connect has not failed.
request_connecting(fd, s) ==
  /\ Handle(fd, WRITE, s, "REQUEST_CONNECTING")
  /\ LET rec == sess[s]
         answered == [rec EXCEPT
           !.status = IF kern[rec.ofd] = "failed" THEN @ ELSE "succeeded",
           !.output = Marshalled(@)]
         client == selector_set_interest(sel, rec.cfd, OP_WRITE)
     IN  IF MarshalFits(rec.output)
         THEN ReturnSame(s, "REQUEST_WRITE", answered,
                         selector_set_interest(client, rec.ofd, OP_READ))
         ELSE ReturnSame(s, "ERROR", rec, client)

\* request_write: once the reply is out the session relays, whatever the
\* reply said.
request_write(fd, s) ==
  /\ Handle(fd, WRITE, s, "REQUEST_WRITE")
  /\ LET rec == sess[s]
     IN  \/ SendFails(fd) /\ ReturnSame(s, "ERROR", rec, sel)
         \/ \E n \in Sent(fd, rec.output) :
              LET sent == [rec EXCEPT !.output = buffer_read_adv(@, n)]
              IN  IF buffer_can_read(sent.output)
                  THEN ReturnSame(s, "REQUEST_WRITE", sent, sel)
                  ELSE ReturnSame(s, "COPY", sent,
                                  selector_set_interest(sel, fd, OP_READ))

-----------------------------------------------------------------------------
\* copy.c

SideOf(rec, fd) == IF fd = rec.cfd THEN "client" ELSE "server"
FdOf(rec, side) == IF side = "client" THEN rec.cfd ELSE rec.ofd

\* The table after check_interest for one end.
Refreshed(table, rec, side) ==
  selector_set_interest(table, FdOf(rec, side),
    check_interest(rec.duplex[side], rec[read_buff(side)], rec[write_buff(side)],
                   BUFFER_SIZE))

\* Mutant: the first half-close ends the session.
done_after_half_close(s, rec, side) ==
  ReturnSame(s, IF rec.duplex[side] # {READ, WRITE} THEN "DONE" ELSE "COPY", rec,
             Refreshed(Refreshed(sel, rec, side), rec, other(side)))

\* The end of copy_read and copy_write: check_interest for both ends, abort if
\* one is not registered, DONE when the handled end has no direction left.
CopyReturn(s, rec, side) ==
  IF \E e \in Side : /\ FdOf(rec, e) # -1
                     /\ set_interest_status(sel, FdOf(rec, e)) # "SELECTOR_SUCCESS"
  THEN Die("check_interest_failed")
  ELSE ReturnSame(s, IF rec.duplex[side] = {} THEN "DONE" ELSE "COPY", rec,
                  Refreshed(Refreshed(sel, rec, side), rec, other(side)))

\* One end stops op, the other end stops the opposite direction.
Shut(rec, side, op, opposite) ==
  [rec EXCEPT !.duplex[side] = @ \ {op},
              !.duplex[other(side)] = IF FdOf(rec, other(side)) = -1 THEN @
                                      ELSE @ \ {opposite}]

copy_read(fd, s) ==
  /\ Handle(fd, READ, s, "COPY")
  /\ LET rec == sess[s]
         side == SideOf(rec, fd)
         b == rec[read_buff(side)]
     IN  \/ RecvFails(fd, b) /\ CopyReturn(s, Shut(rec, side, READ, WRITE), side)
         \/ \E n \in Received(fd, b) :
              CopyReturn(s, [rec EXCEPT ![read_buff(side)] = buffer_write_adv(@, n)], side)

copy_write(fd, s) ==
  /\ Handle(fd, WRITE, s, "COPY")
  /\ LET rec == sess[s]
         side == SideOf(rec, fd)
         b == rec[write_buff(side)]
     IN  \/ SendFails(fd) /\ CopyReturn(s, Shut(rec, side, WRITE, READ), side)
         \/ \E n \in Sent(fd, b) :
              CopyReturn(s, [rec EXCEPT ![write_buff(side)] = buffer_read_adv(@, n)], side)

-----------------------------------------------------------------------------
\* The event has no callback in the session's state: stm.c aborts.

HasReadHandler == {"HELLO_READ", "REQUEST_READ", "COPY"}
HasWriteHandler == {"HELLO_WRITE", "REQUEST_CONNECTING", "REQUEST_WRITE", "COPY"}

no_handler(fd, op, s) ==
  /\ \E st \in StmState \ (IF op = READ THEN HasReadHandler ELSE HasWriteHandler) :
       Handle(fd, op, s, st)
  /\ Die(IF op = READ THEN "no_read_handler" ELSE "no_write_handler")

\* client_read / client_write through an item whose session was freed.
dangling(fd, op, s) ==
  /\ Handle(fd, op, s, "freed")
  /\ Die("use_after_free")

-----------------------------------------------------------------------------
\* The kernel and the peers.

\* A pending connect completes.
OriginAnswers(fd) ==
  /\ fault = "none"
  /\ kern[fd] = "pending"
  /\ \E answer \in {"connected"} \cup
                   (IF "origin_refuses" \in Outcomes THEN {"failed"} ELSE {}) :
       kern' = [kern EXCEPT ![fd] = answer]
  /\ UNCHANGED <<sel, slave_r, slave_w, sess, stadistics, fault>>

\* pselect looks at the descriptors up to max_fd and is level triggered.  A
\* pending socket is never ready, an unconnected one always; a connection over
\* which nothing was relayed yet has room for the few bytes of the handshake, so
\* it is writable; whether any other descriptor is ready is up to its peer.
MayBeReady(fd) ==
  /\ kern[fd] # "pending"
  /\ fd = listener => \E s \in Session : sess[s].st = "unallocated"

MustBeReady(fd, op) ==
  \/ kern[fd] = "failed"
  \/ /\ op = WRITE
     /\ sess[sel.item[fd].data].st \in {"HELLO_WRITE", "REQUEST_CONNECTING",
                                        "REQUEST_WRITE"}

ReadySets(op) ==
  LET asked == {fd \in Master(sel, op) : fd <= sel.max_fd /\ MayBeReady(fd)}
      sure  == {fd \in asked : MustBeReady(fd, op)}
  IN  {sure \cup more : more \in SUBSET (asked \ sure)}

\* selector_select: a new iteration starts when the walk is over.
selector_select ==
  /\ fault = "none"
  /\ \A fd \in ItemFd : ~Ready(fd, READ) /\ ~Ready(fd, WRITE)
  /\ slave_r' \in ReadySets(READ)
  /\ slave_w' \in ReadySets(WRITE)
  /\ UNCHANGED <<sel, kern, sess, stadistics, fault>>

\* abort() ended the process.
Dead == fault # "none" /\ UNCHANGED vars

Init ==
  /\ sel = selector_register(selector_new, listener, OP_READ, NoData)
  /\ slave_r = {} /\ slave_w = {}
  /\ kern = [fd \in Fd |-> IF fd = listener THEN "listener" ELSE "free"]
  /\ sess = [s \in Session |-> NoSession]
  /\ stadistics = [concurrentConnections |-> 0, totalConnections |-> 0]
  /\ fault = "none"

HandlerStep ==
  \E fd \in ItemFd, s \in Session :
    \/ hello_read(fd, s) \/ hello_write(fd, s)
    \/ request_read(fd, s) \/ request_connecting(fd, s) \/ request_write(fd, s)
    \/ copy_read(fd, s) \/ copy_write(fd, s)
    \/ \E op \in {READ, WRITE} : no_handler(fd, op, s) \/ dangling(fd, op, s)

Next ==
  \/ new_connection
  \/ HandlerStep
  \/ selector_select
  \/ \E fd \in Fd : OriginAnswers(fd)
  \/ Dead

Spec == Init /\ [][Next]_vars
\* The loop keeps running, every walk ends, and a connect that was started is
\* answered by the network or timed out by the kernel.
Fairness ==
  /\ WF_vars(new_connection \/ HandlerStep)
  /\ WF_vars(selector_select)
  /\ WF_vars(\E fd \in Fd : OriginAnswers(fd))

FairSpec == Spec /\ Fairness

-----------------------------------------------------------------------------
\* The types of the process's state.
TypeOK ==
  /\ sel.item \in [ItemFd -> [used : BOOLEAN, interest : Interest,
                              data : Session \cup {NoData}]]
  /\ sel.max_fd \in ItemFd
  /\ slave_r \subseteq ItemFd /\ slave_w \subseteq ItemFd
  /\ kern \in [Fd -> FdKind]
  /\ DOMAIN sess = Session
  /\ \A s \in Session :
       /\ sess[s].st \in SessionState
       /\ {sess[s].cfd, sess[s].ofd} \subseteq Fd \cup {-1}
       /\ \A b \in {sess[s].input, sess[s].output} :
            0 <= b.read /\ b.read <= b.write /\ b.write <= BUFFER_SIZE
       /\ sess[s].duplex \in [Side -> Interest]
  /\ stadistics \in [concurrentConnections : 0..UINT16_MAX, totalConnections : 0..UINT16_MAX]
  /\ fault \in {"none", "no_read_handler", "no_write_handler", "use_after_free",
                "next_beyond_max_state", "check_interest_failed"}

\* No closed descriptor stays in the table (the EBADF case selector.c:551
\* looks for), although a number is reused as soon as it is closed.
RegisteredIsOpen ==
  \A fd \in ItemFd : ITEM_USED(sel, fd) => fd \in Open

\* The table holds open descriptors only.  A live session's are its own: its
\* client is registered with it (unless the number was beyond the table), no
\* other item points to it, and no two live sessions hold one number, however
\* numbers were reused before.  A relaying session has both its ends in the
\* table.  A client's descriptor never outlives its session, whichever way that
\* ends (its origin's does: close_session does not close it).
SessionsOwnDescriptors ==
  /\ TypeOK /\ RegisteredIsOpen
  /\ \A s \in Session : Live(s) =>
       LET mine == {sess[s].cfd, sess[s].ofd} \ {-1}
           registered(fd) == ITEM_USED(sel, fd) /\ sel.item[fd].data = s
       IN  /\ sess[s].cfd \in ItemFd => registered(sess[s].cfd)
           /\ sess[s].st = "COPY" =>
                \A fd \in {sess[s].cfd, sess[s].ofd} : fd \in ItemFd /\ registered(fd)
           /\ \A fd \in ItemFd : sel.item[fd].data = s => fd \in mine
           /\ \A t \in Session \ {s} :
                Live(t) => mine \cap {sess[t].cfd, sess[t].ofd} = {}
  /\ \A fd \in Open : kern[fd] = "client" =>
       \E s \in Session : Live(s) /\ sess[s].cfd = fd

\* The process aborts for these causes and no other, whichever descriptor asked
\* for an event and in whichever order client and origin become ready.  OP_WRITE
\* is never left on in a state without a write handler (stm.c:69), and
\* check_interest (copy.c:26) never fails.  An event without a read handler is
\* an origin that speaks while the reply is being written (its number is below
\* the client's, or the reply went out in part), or a client that speaks after a
\* request nobody answers: a domain name, an unsupported command, a failed
\* fcntl, a connect that succeeds at once.  A state beyond max_state means that
\* the client offered user and password.
AbortsHaveTheirCause ==
  /\ fault \notin {"no_write_handler", "check_interest_failed"}
  /\ fault = "no_read_handler" =>
       \E s \in Session :
         \/ /\ sess[s].st = "REQUEST_WRITE"
            /\ sess[s].ofd \in 0..(sess[s].cfd - 1) \/ sess[s].output.read > 0
         \/ /\ sess[s].st \in {"REQUEST_CONNECTING", "REQUEST_WRITE"}
            /\ sess[s].status # "succeeded"
            /\ READ \in sel.item[sess[s].cfd].interest
  /\ fault = "next_beyond_max_state" =>
       \E s \in Session : sess[s].st = "HELLO_WRITE" /\ USERPASS \in ToSet(sess[s].offer)

\* A registered session can always be woken: one of its descriptors has an
\* interest, in every state and after every half-close.
SomeEventCanWake ==
  \A s \in Session : Live(s) /\ sess[s].cfd \in ItemFd =>
    \E fd \in {sess[s].cfd, sess[s].ofd} \cap ItemFd :
      sel.item[fd].data = s /\ sel.item[fd].interest # OP_NOOP

\* The origin's item outlives the session (close_session forgets it); it can
\* still fire only if the session died while its reply was being written.
OrphansAreQuiet ==
  \A fd \in ItemFd :
    LET s == sel.item[fd].data
    IN  (/\ ITEM_USED(sel, fd) /\ s # NoData
         /\ sess[s].st = "freed" /\ sel.item[fd].interest # OP_NOOP)
        => sess[s].died = "REQUEST_WRITE"

\* A reply that was decided gets out: in REQUEST_WRITE it is in the output
\* buffer, whole or in part, and the selector will offer to send it.  (The
\* status of an unsupported command is never marshalled.)
ReplyIsPending ==
  \A s \in Session :
    sess[s].st = "REQUEST_WRITE" /\ sess[s].status # "command_not_supported"
    => /\ buffer_can_read(sess[s].output)
       /\ WRITE \in sel.item[sess[s].cfd].interest

\* The counter the management protocol reports as concurrent connections is
\* the number of sessions that were created and not closed; those whose accept
\* failed are among them for ever.
ConcurrentCountsSessions ==
  stadistics.concurrentConnections = Cardinality({s \in Session : Live(s)})

\* A step that changes a registered item is a step of the session the item
\* belongs to: no handler disturbs the descriptors of another session.
HandlersTouchOwnItems ==
  [][\A fd \in ItemFd :
       ITEM_USED(sel, fd) /\ sel'.item[fd] # sel.item[fd]
         => sess'[sel.item[fd].data] # sess[sel.item[fd].data]]_vars

\* A connect in progress is answered: the session leaves REQUEST_CONNECTING
\* once the origin's descriptor is registered, unless the process dies.
PendingConnectIsAnswered ==
  \A s \in Session :
    (sess[s].st = "REQUEST_CONNECTING" /\ sess[s].ofd \in ItemFd
       /\ WRITE \in sel.item[sess[s].ofd].interest)
    ~> (sess[s].st # "REQUEST_CONNECTING" \/ fault # "none")
-----------------------------------------------------------------------------
\* What a comment says and the code does not do; refuted by a run of its own.

\* selector.h:135, handle_close frees the data of the descriptor that is
\* unregistered: no other item still hands that data to its handlers.
NoDanglingDispatch == fault # "use_after_free"
=============================================================================
