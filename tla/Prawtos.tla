------------------------------- MODULE Prawtos -------------------------------
(***************************************************************************)
(* The management protocol: prawtos.c, auth_prawtos.c, cmd_prawtos.c and   *)
(* their two parsers, with the user list and the statistics they share     *)
(* with the proxy.                                                         *)
(*                                                                         *)
(* A message is a sequence of fields; a field stands for one byte, or for  *)
(* a name or a password with the length byte before it, "X00" when that    *)
(* length is zero.  A manager's descriptor has either OP_READ or OP_WRITE  *)
(* and is closed by its own handlers only, so a readiness bit is never     *)
(* stale for it and the walk of Socks5.tla is not repeated here.           *)
(***************************************************************************)
EXTENDS BufferOps, UserOps

CONSTANTS Manager,       \* descriptors the management clients can have
          Logins,        \* first messages of a client
          Commands,      \* the messages that follow
          InitialUsers,  \* the list init_user_list builds
          NulFollows,    \* what the byte after a copied string can be: a zero?
          BUFFER_SIZE,   \* fields that fit read_buffer and write_buffer
          UINT16_MAX,    \* where the connection counters stop
          MaxProxies,    \* bound: proxy sessions at a time
          MaxAhead,      \* bound: unread fields when a client sends a message
          MaxDirty       \* bound: users without terminator

VARIABLES mgr,           \* the struct prawtos of each descriptor
          users,         \* user_list
          stadistics,    \* connection counters
          proxies,       \* proxy sessions, which count in the same statistics
          fault          \* why the process stopped, "none" while it runs

vars == <<mgr, users, stadistics, proxies, fault>>

READ == "OP_READ"
WRITE == "OP_WRITE"
Empty == [read |-> 0, write |-> 0]

\* prawtos_parser_init and auth_parser_init: all fields zero.
ParserInit(first) == [state |-> first, type |-> "X00", cmd |-> "X00",
                      admin |-> "X00", uname |-> "", passwd |-> ""]

Closed == [st |-> "closed", interest |-> READ, parser |-> ParserInit("version"),
           in |-> <<>>, read_buffer |-> Empty, write_buffer |-> Empty,
           status |-> "success", login |-> FALSE,
           wire |-> <<>>, greeted |-> FALSE, gone |-> FALSE]

Open == {m \in Manager : mgr[m].st # "closed"}
-----------------------------------------------------------------------------
\* Parsers.

\* ulen and uname, plen and passwd are the same in both parsers; deleting a
\* user takes no password.
credentials_feed(p, c) ==
  CASE c = "X00" -> [p EXCEPT !.state = "error"]
    [] c # "X00" /\ p.state = "uname" ->
         [p EXCEPT !.uname = c, !.state = IF p.cmd = "X01" THEN "done" ELSE "passwd"]
    [] OTHER -> [p EXCEPT !.passwd = c, !.state = "done"]

auth_parser_feed(p, c) ==
  IF p.state = "version"
  THEN [p EXCEPT !.state = IF c = "X01" THEN "uname" ELSE "error"]
  ELSE credentials_feed(p, c)

\* cmd_user and is_admin store the byte they refuse, cmd_get does not.
prawtos_parser_feed(p, c) ==
  CASE p.state = "type" -> [p EXCEPT !.type = c,
         !.state = CASE c = "X00" -> "cmd_get"
                     [] c = "X01" -> "cmd_user"
                     [] c = "X02" -> "cmd_sniff"
                     [] c = "X03" -> "done"
                     [] OTHER     -> "error"]
    [] p.state = "cmd_get" ->
         IF c \in {"X00", "X01", "X02", "X03"}
         THEN [p EXCEPT !.cmd = c, !.state = "done"]
         ELSE [p EXCEPT !.state = "error"]
    [] p.state = "cmd_sniff" ->
         [p EXCEPT !.state = IF c \in {"X00", "X01"} THEN "done" ELSE "error"]
    [] p.state = "cmd_user" -> [p EXCEPT !.cmd = c,
         !.state = CASE c = "X00" -> "admin"
                     [] c \in {"X01", "X02"} -> "uname"
                     [] OTHER -> "error"]
    [] p.state = "admin" -> [p EXCEPT !.admin = c,
         !.state = IF c \in {"X00", "X01"} THEN "uname" ELSE "error"]
    [] OTHER -> credentials_feed(p, c)

\* The parser of the session's state is fed; past the first field of a login the
\* two do the same.
feed(p, c) ==
  IF p.state = "version" THEN auth_parser_feed(p, c) ELSE prawtos_parser_feed(p, c)

is_done(p) == p.state \in {"done", "error"}

\* The parser after each prefix of the buffered fields.
Runs(p, fields) ==
  LET run[k \in 0..Len(fields)] ==
        CASE k = 0 -> p
          [] k > 0 /\ is_done(run[k - 1]) -> run[k - 1]
          [] OTHER -> feed(run[k - 1], fields[k])
  IN  run

\* msg is one whole message for a parser that starts in first: the parser ends,
\* by accepting or by refusing, with its last field and not before.
Framed(first, msg) ==
  LET run == Runs(ParserInit(first), msg)
  IN  /\ msg # <<>> /\ is_done(run[Len(msg)])
      /\ \A k \in 0..(Len(msg) - 1) : ~is_done(run[k])

\* Mutant: the loop goes on until the buffer is empty.
consume_all(p, fields) ==
  [parser |-> Runs(p, fields)[Len(fields)], n |-> Len(fields)]

\* auth_consume and prawtos_consume: feed the buffered fields until the message
\* ends; n of them are taken.
consume(p, fields) ==
  LET run == Runs(p, fields)
  IN  [parser |-> run[Len(fields)],
       n |-> Min({Len(fields)} \cup {k \in 1..Len(fields) : is_done(run[k])})]
-----------------------------------------------------------------------------
\* Connections.

stadistics_increase_concurrent(s) ==
  [s EXCEPT !.concurrentConnections = IF @ < UINT16_MAX THEN @ + 1 ELSE @,
            !.totalConnections = IF @ < UINT16_MAX THEN @ + 1 ELSE @]

\* Mutant: the counter is left alone.
decrease_forgotten(s) == s

stadistics_decrease_concurrent(s) ==
  [s EXCEPT !.concurrentConnections = IF @ > 0 THEN @ - 1 ELSE @]

\* prawtos_passive_accept, all its calls succeeding.
prawtos_passive_accept(m) ==
  /\ fault = "none" /\ m \notin Open
  /\ mgr' = [mgr EXCEPT ![m] = [Closed EXCEPT !.st = "AUTH_READ"]]
  /\ stadistics' = stadistics_increase_concurrent(stadistics)
  /\ UNCHANGED <<users, proxies, fault>>

\* prawtos_passive_accept when accept, fcntl, malloc or the registration fails:
\* prawtos_close is called with the listener's key, whose data is NULL.
AcceptFails ==
  /\ fault = "none"
  /\ stadistics' = stadistics_decrease_concurrent(stadistics)
  /\ UNCHANGED <<mgr, users, proxies, fault>>

\* new_connection and close_session of a proxy client.
ProxyConnects ==
  /\ fault = "none" /\ proxies < MaxProxies
  /\ proxies' = proxies + 1
  /\ stadistics' = stadistics_increase_concurrent(stadistics)
  /\ UNCHANGED <<mgr, users, fault>>

ProxyLeaves ==
  /\ fault = "none" /\ proxies > 0
  /\ proxies' = proxies - 1
  /\ stadistics' = stadistics_decrease_concurrent(stadistics)
  /\ UNCHANGED <<mgr, users, fault>>

\* The handler returns state st with the session rec and the user list u.  In
\* ERROR and DONE prawtos_done unregisters the descriptor, which frees the
\* session and decreases the counter, and closes it; arriving in CMD_READ
\* from CMD_WRITE runs cmd_init.
Return(m, st, rec, u) ==
  /\ users' = u
  /\ IF st \in {"ERROR", "DONE"}
     THEN /\ mgr' = [mgr EXCEPT ![m] = Closed]
          /\ stadistics' = stadistics_decrease_concurrent(stadistics)
     ELSE /\ mgr' = [mgr EXCEPT ![m] = [rec EXCEPT !.st = st,
                !.parser = IF st = "CMD_READ" /\ mgr[m].st # st
                           THEN ParserInit("type") ELSE @]]
          /\ UNCHANGED stadistics
  /\ UNCHANGED <<proxies, fault>>

\* The process dies in the handler.
Die(why) == fault' = why /\ UNCHANGED <<mgr, users, stadistics, proxies>>
-----------------------------------------------------------------------------
\* What the client does.

\* The first message is a login; the next ones are commands, which need not
\* wait for an answer.
ClientSends(m, commands) ==
  /\ fault = "none" /\ m \in Open /\ ~mgr[m].gone
  /\ \E msg \in IF mgr[m].greeted THEN commands ELSE Logins :
       /\ Len(mgr[m].wire) <= MaxAhead
       /\ mgr' = [mgr EXCEPT ![m].wire = @ \o msg, ![m].greeted = TRUE]
  /\ UNCHANGED <<users, stadistics, proxies, fault>>

\* The client closes or resets the connection.
ClientLeaves(m) ==
  /\ fault = "none" /\ m \in Open /\ ~mgr[m].gone
  /\ mgr' = [mgr EXCEPT ![m].gone = TRUE]
  /\ UNCHANGED <<users, stadistics, proxies, fault>>
-----------------------------------------------------------------------------
\* Reading.

\* The selector calls handle_read of m in state st.
OnRead(m, st) ==
  /\ fault = "none"
  /\ mgr[m].st = st /\ mgr[m].interest = READ
  /\ mgr[m].wire # <<>> \/ mgr[m].gone

\* Mutant: the size of the buffer is passed instead of its room.
received_whole_buffer(m) == 1..Min({Len(mgr[m].wire), BUFFER_SIZE})

\* How much a recv may return.  A full buffer asks for 0 bytes and gets 0.
Received(m) ==
  1..Min({Len(mgr[m].wire), buffer_write_room(mgr[m].read_buffer, BUFFER_SIZE)})

RecvEnds(m) ==
  mgr[m].gone \/ ~buffer_can_write(mgr[m].read_buffer, BUFFER_SIZE)

\* The session after a recv of n fields and the call of its parser.
Parsed(m, n) ==
  LET rec == mgr[m]
      in == rec.in \o SubSeq(rec.wire, 1, n)
      c == consume(rec.parser, in)
  IN  [rec EXCEPT
        !.wire = SubSeq(@, n + 1, Len(@)),
        !.in = SubSeq(in, c.n + 1, Len(in)),
        !.read_buffer = buffer_read_adv(buffer_write_adv(@, n), c.n),
        !.parser = c.parser]

\* Mutant: the descriptor keeps OP_READ.
auth_keeps_interest(rec) ==
  LET ok == user_check_credentials(users, rec.parser.uname, rec.parser.passwd)
  IN  [rec EXCEPT !.status = IF ok THEN "success" ELSE "bad_credentials",
                  !.login = ok,
                  !.write_buffer = buffer_write_adv(@, 2)]

\* auth_prawtos_process: the answer has two bytes.
auth_prawtos_process(rec) ==
  LET ok == user_check_credentials(users, rec.parser.uname, rec.parser.passwd)
  IN  [rec EXCEPT !.interest = WRITE,
                  !.status = IF ok THEN "success" ELSE "bad_credentials",
                  !.login = ok,
                  !.write_buffer = buffer_write_adv(@, 2)]

\* A message the parser refuses ends the session.
auth_prawtos_read(m) ==
  /\ OnRead(m, "AUTH_READ")
  /\ \/ RecvEnds(m) /\ Return(m, "ERROR", mgr[m], users)
     \/ \E n \in Received(m) :
          LET rec == Parsed(m, n)
          IN  CASE rec.parser.state = "error" -> Return(m, "ERROR", rec, users)
                [] rec.parser.state = "done" ->
                     IF buffer_write_room(rec.write_buffer, BUFFER_SIZE) < 2
                     THEN Return(m, "ERROR", rec, users)
                     ELSE Return(m, "AUTH_WRITE", auth_prawtos_process(rec), users)
                [] OTHER -> Return(m, "AUTH_READ", rec, users)
-----------------------------------------------------------------------------
\* Commands.

\* Whether a zero follows a string that was just copied.
Nul == LET dirty == {i \in DOMAIN users.list : ~(users.list[i].unul /\ users.list[i].pnul)}
       IN  {b \in NulFollows : b \/ Cardinality(dirty) < MaxDirty}

\* What the users handlers leave: the list and whether they succeeded.
\* create_user takes every flag but X'00' for an administrator.
create_user(p) ==
  {[users |-> add_user(users, [name |-> p.uname, pass |-> p.passwd,
                               admin |-> p.admin # "X00", unul |-> u, pnul |-> q]),
    ok |-> Position(users, p.uname) = 0] : u \in Nul, q \in Nul}

del_user(p) == {[users |-> delete_user(users, p.uname),
                 ok |-> Position(users, p.uname) # 0]}

\* Mutant: the result of edit_user is ignored.
modify_always_succeeds(p) == {[users |-> edit_user(users, p.uname, p.passwd), ok |-> TRUE]}

modify_user(p) == {[users |-> edit_user(users, p.uname, p.passwd),
                    ok |-> Position(users, p.uname) # 0]}

\* edit_user of an empty password: realloc(password, 0) frees and returns NULL.
EditsThroughNull(p) ==
  p.cmd = "X02" /\ p.passwd = "" /\ Position(users, p.uname) # 0

\* An answer of n fields is marshalled.  A message with an error has been
\* processed like any other, but its session ends.
Answer(m, rec, n, status, u) ==
  Return(m, IF rec.parser.state = "error" THEN "ERROR" ELSE "CMD_WRITE",
         [rec EXCEPT !.interest = WRITE, !.status = status,
                     !.write_buffer = buffer_write_adv(@, n)], u)

\* get_all_users lists list->size users, one argument each.
ListLength == users.size

\* What the get handlers return: a counter is one argument.
GetLength(p) == IF p.cmd = "X03" THEN ListLength ELSE 1

\* get_marshal makes sure that one argument fits and writes the header and all
\* arguments.
get_process(m, rec) ==
  LET room == buffer_write_room(rec.write_buffer, BUFFER_SIZE)
      len  == 1 + GetLength(rec.parser)
  IN  IF room < 1 THEN Return(m, "ERROR", rec, users)
      ELSE IF room < len THEN Die("overflow")
      ELSE Answer(m, rec, len, "success", users)

\* user_handlers has three entries; user_marshal writes the status.
users_process(m, rec) ==
  LET p == rec.parser
  IN  IF p.cmd \notin {"X00", "X01", "X02"} THEN Die("wild_call")
      ELSE IF EditsThroughNull(p) THEN Die("null_strcpy")
      ELSE \E o \in CASE p.cmd = "X00" -> create_user(p)
                      [] p.cmd = "X01" -> del_user(p)
                      [] OTHER         -> modify_user(p) :
             IF buffer_can_write(rec.write_buffer, BUFFER_SIZE)
             THEN Answer(m, rec, 1, IF o.ok THEN "success" ELSE "user_credentia", o.users)
             ELSE Return(m, "ERROR", rec, o.users)

\* SNIFF and unknown types have no branch.
cmd_process(m, rec) ==
  CASE rec.parser.type = "X00" -> get_process(m, rec)
    [] rec.parser.type = "X01" -> users_process(m, rec)
    [] rec.parser.type = "X03" ->
         IF buffer_can_write(rec.write_buffer, BUFFER_SIZE)
         THEN Answer(m, rec, 1, "success", users)
         ELSE Return(m, "ERROR", rec, users)
    [] OTHER -> Return(m, "ERROR", rec, users)

\* One message is processed per recv; what follows it stays in read_buffer.
cmd_read(m) ==
  /\ OnRead(m, "CMD_READ")
  /\ \/ RecvEnds(m) /\ Return(m, "ERROR", mgr[m], users)
     \/ \E n \in Received(m) :
          LET rec == Parsed(m, n)
          IN  IF is_done(rec.parser) THEN cmd_process(m, rec)
              ELSE Return(m, "CMD_READ", rec, users)
-----------------------------------------------------------------------------
\* Writing.

OnWrite(m, st) ==
  fault = "none" /\ mgr[m].st = st /\ mgr[m].interest = WRITE

\* How much a send may take.
Sent(m) == 1..buffer_read_avail(mgr[m].write_buffer)

\* Mutant: a partial send is taken for a complete one.
partial_is_complete(m, n) ==
  Return(m, "CMD_READ", [mgr[m] EXCEPT !.interest = READ,
                           !.write_buffer = buffer_read_adv(@, n)], users)

\* n > 0 bytes of an answer are out: once all are, the next command is read.
Wrote(m, n) ==
  LET out == buffer_read_adv(mgr[m].write_buffer, n)
  IN  IF buffer_can_read(out)
      THEN Return(m, mgr[m].st, [mgr[m] EXCEPT !.write_buffer = out], users)
      ELSE Return(m, "CMD_READ", [mgr[m] EXCEPT !.write_buffer = out,
                                                !.interest = READ], users)

\* A send that fails changes nothing: the session stays as it is.
SendFails(m) == mgr[m].gone /\ UNCHANGED vars

\* Mutant: the status is not looked at.
write_ignores_status(m) ==
  /\ OnWrite(m, "AUTH_WRITE")
  /\ SendFails(m) \/ \E n \in Sent(m) : Wrote(m, n)

auth_prawtos_write(m) ==
  /\ OnWrite(m, "AUTH_WRITE")
  /\ IF mgr[m].status # "success" THEN Return(m, "ERROR", mgr[m], users)
     ELSE SendFails(m) \/ \E n \in Sent(m) : Wrote(m, n)

\* QUIT ends the session as soon as its answer starts to go out.
cmd_write(m) ==
  /\ OnWrite(m, "CMD_WRITE")
  /\ \/ SendFails(m)
     \/ \E n \in Sent(m) :
          IF mgr[m].parser.type = "X03" THEN Return(m, "DONE", mgr[m], users)
          ELSE Wrote(m, n)

\* The process is gone.
Dead == fault # "none" /\ UNCHANGED vars

Init ==
  /\ mgr = [m \in Manager |-> Closed]
  /\ users = [list |-> InitialUsers, size |-> Len(InitialUsers)]
  /\ stadistics = [concurrentConnections |-> 0, totalConnections |-> 0]
  /\ proxies = 0
  /\ fault = "none"

Next ==
  \/ \E m \in Manager : \/ prawtos_passive_accept(m)
                        \/ ClientSends(m, Commands) \/ ClientLeaves(m)
                        \/ auth_prawtos_read(m) \/ auth_prawtos_write(m)
                        \/ cmd_read(m) \/ cmd_write(m)
  \/ AcceptFails \/ ProxyConnects \/ ProxyLeaves
  \/ Dead

Spec == Init /\ [][Next]_vars

\* A client that is there reads, so its descriptor becomes writable and the
\* selector calls its handler; nothing is assumed of reads.
FairSpec ==
  Spec /\ \A m \in Manager : WF_vars(auth_prawtos_write(m) \/ cmd_write(m))
-----------------------------------------------------------------------------
Pointers == [read : 0..BUFFER_SIZE, write : 0..BUFFER_SIZE]
Field == UNION {Range(msg) : msg \in Logins \cup Commands}
User == [name : Field \cup {""}, pass : Field \cup {""},
         admin : BOOLEAN, unul : BOOLEAN, pnul : BOOLEAN]

\* The buffers have 4096 bytes.  Clients send whole messages, cut at will by the
\* network.  init_user_list adds its users one by one, with their terminators.
ASSUME PrawtosAssumption ==
  /\ BUFFER_SIZE \in Nat /\ BUFFER_SIZE >= 2
  /\ UINT16_MAX \in Nat /\ MaxProxies \in Nat
  /\ IsFiniteSet(Manager)
  /\ Logins \cup Commands \subseteq Seq(STRING)
  /\ \A msg \in Logins : Framed("version", msg)
  /\ \A msg \in Commands : Framed("type", msg)
  /\ NulFollows \subseteq BOOLEAN
  /\ InitialUsers \in Seq(User)
  /\ \A i, j \in DOMAIN InitialUsers :
       /\ InitialUsers[i].unul
       /\ i # j => InitialUsers[i].name # InitialUsers[j].name

\* The types of the management state; the unread fields are as many as the
\* pointers of read_buffer say.
TypeOK ==
  /\ \A m \in Manager :
       /\ mgr[m].st \in {"closed", "AUTH_READ", "AUTH_WRITE", "CMD_READ", "CMD_WRITE"}
       /\ mgr[m].interest \in {READ, WRITE}
       /\ mgr[m].read_buffer \in Pointers /\ mgr[m].write_buffer \in Pointers
       /\ Len(mgr[m].in) = buffer_read_avail(mgr[m].read_buffer)
  /\ Range(users.list) \subseteq User
  /\ stadistics \in [concurrentConnections : 0..UINT16_MAX, totalConnections : 0..UINT16_MAX]
  /\ fault \in {"none", "overflow", "wild_call", "null_strcpy"}

\* A session waits to write exactly while part of an answer is in write_buffer,
\* so no answer is lost when the session changes state and no command is read
\* while one is on its way out.  get_marshal tests the room for one argument and
\* writes more: because every answer starts in an empty buffer, that goes wrong
\* only for a list of users longer than the buffer.
AnswerIsPending ==
  /\ \A m \in Open : LET writing == mgr[m].st \in {"AUTH_WRITE", "CMD_WRITE"}
                     IN  /\ writing = buffer_can_read(mgr[m].write_buffer)
                         /\ writing = (mgr[m].interest = WRITE)
  /\ fault = "overflow" => users.size + 1 > BUFFER_SIZE

\* s is a sequence of whole commands.
WholeCommands(s) ==
  LET whole[k \in 0..Len(s)] ==
        k = Len(s) \/ \E c \in Commands :
          /\ k + Len(c) <= Len(s)
          /\ SubSeq(s, k + 1, k + Len(c)) = c
          /\ whole[k + Len(c)]
  IN  whole[0]

\* However the stream was cut by recv and however many commands arrived
\* together, a parser that is about to start stands at the start of a command:
\* prawtos_consume leaves in read_buffer what follows the one it finished.
StreamStaysAligned ==
  \A m \in Open :
    mgr[m].st = "CMD_WRITE" \/ (mgr[m].st = "CMD_READ" /\ mgr[m].parser.state = "type")
    => WholeCommands(mgr[m].in \o mgr[m].wire)

\* The concurrent connections the protocol reports are at most the management
\* and proxy sessions that exist (a failed accept takes one off that was never
\* added, see AcceptFails).
NeverOverReports ==
  stadistics.concurrentConnections <= Cardinality(Open) + proxies

\* Only a session whose login was an administrator's when it was checked
\* changes the list of users.
AdminsOnly ==
  [][users' # users => \E m \in Manager : mgr[m].st = "CMD_READ" /\ mgr[m].login]_vars

Terminated == \A i \in DOMAIN users.list : users.list[i].unul

Accounts == [n \in {u.name : u \in Range(users.list)} |->
               LET u == CHOOSE v \in Range(users.list) : v.name = n
               IN  [pass |-> u.pass, admin |-> u.admin]]

Registry == INSTANCE UserRegistry
              WITH accounts <- Accounts, Name <- Field \cup {""},
                   Password <- Field \cup {""}

\* list->size is the length of the list, whose links get_all_users follows that
\* often.  As long as all stored names are terminated, the list behaves as a
\* registry: interleaved sessions create, delete and edit one account per name,
\* and one account at a time.
ListIsRegistry ==
  [][/\ users'.size = Len(users'.list)
     /\ Terminated => /\ Registry!Next
                      /\ users'.size = Cardinality(DOMAIN Accounts')]_users

\* An answer in the buffer goes out, unless the client leaves or the process
\* dies.
AnswersGoOut ==
  \A m \in Manager :
    mgr[m].st \in {"AUTH_WRITE", "CMD_WRITE"}
    ~> (mgr[m].st \in {"closed", "CMD_READ"} \/ mgr[m].gone \/ fault # "none")
-----------------------------------------------------------------------------
\* prawtosv5.txt gives refused commands a status (X'04': error in the length of
\* a user's fields): a command that ends the session without an answer has not
\* touched the list of users.
RefusedCommandsHaveNoEffect ==
  [][\A m \in Manager :
       mgr[m].st = "CMD_READ" /\ mgr'[m].st = "closed" => users' = users]_vars
=============================================================================
