------------------------------- MODULE Console -------------------------------
(***************************************************************************)
(* client/client.c, the interactive management client, composed with the   *)
(* server of Prawtos.tla.  The client sends a message, blocks in recv for  *)
(* the bytes it expects of the answer, and never looks at what recv        *)
(* returned.  Other management clients, which send whatever they like,     *)
(* stay as they are in Prawtos.tla.                                        *)
(*                                                                         *)
(* An answer is a sequence of fields like a message: <<kind, value>>.  Its *)
(* fields are in the server's write_buffer (pending), then in the client's *)
(* socket (reply).  The strings that are typed fit the client's arrays.    *)
(***************************************************************************)
EXTENDS Prawtos

CONSTANTS Names, Passwords,   \* what is typed for an account
          Credentials,        \* the names and passwords typed to log in, or given with -u
          OtherCommands,      \* what other clients send
          MaxClients,         \* bound: management clients at a time, the console included
          NoFd

VARIABLE con   \* the client: where it is, its connection, the answer

conVars == <<vars, con>>

\* The client is not running; told and effect belong to the last command.
Off == [pc |-> "off", fd |-> NoFd, asked |-> <<>>, pending |-> <<>>, reply |-> <<>>,
        left |-> 0, told |-> "none",
        effect |-> [asked |-> FALSE, changed |-> FALSE]]

\* The calls of recv the client can be in.
Awaiting == {"login_answer", "user_answer", "get_answer", "get_other_users", "quit_answer"}
-----------------------------------------------------------------------------
(* The messages of client.c.  Lengths of names and passwords of the USERS  *)
(* commands count the terminator.                                          *)

\* Given with -u, the password is copied over the name and the password sent
\* is whatever the array held.
login_messages ==
  {<<"X01", c.name, c.pass>> : c \in Credentials}
  \cup {<<"X01", c.pass, garbage>> : c \in Credentials, garbage \in Passwords \cup {"X00"}}

add_new_user(admin, n, p) == <<"X01", "X00", IF admin THEN "X01" ELSE "X00", n, p>>
remove_user(n) == <<"X01", "X01", n>>
modify_message(n, p) == <<"X01", "X02", n, p>>

user_messages ==
  {add_new_user(admin, n, p) : admin \in BOOLEAN, n \in Names, p \in Passwords}
  \cup {remove_user(n) : n \in Names}
  \cup {modify_message(n, p) : n \in Names, p \in Passwords}

\* The three counters are alike for both sides: one stands for them.
Options == {<<"X03">>} \cup user_messages \cup {<<"X00", "X00">>, <<"X00", "X03">>}
-----------------------------------------------------------------------------
(* What a step of the server on connection m does to the client's side.    *)

\* The answer marshalled for the session rec: auth_marshal, get_marshal with
\* the listing of get_all_users, user_marshal, quit_marshal.
AnswerOf(rec) ==
  IF rec.st = "AUTH_WRITE" THEN <<<<"version", "X01">>, <<"status", rec.status>>>>
  ELSE IF rec.parser.type # "X00" THEN <<<<"status", rec.status>>>>
  ELSE <<<<rec.status, GetLength(rec.parser)>>>>
       \o [i \in 1..GetLength(rec.parser) |-> <<"arg", i>>]

\* The accounts are as the USERS command msg asks.
AsAsked(msg, list) ==
  CASE msg[2] = "X00" -> \E i \in DOMAIN list :
                           /\ list[i].name = msg[4] /\ list[i].pass = msg[5]
                           /\ list[i].admin = (msg[3] = "X01")
    [] msg[2] = "X01" -> \A i \in DOMAIN list : ~SameName(list[i], msg[3])
    [] msg[2] = "X02" -> \E i \in DOMAIN list :
                           SameName(list[i], msg[3]) /\ list[i].pass = msg[4]

\* The last command of the client is processed.
Effect(msg) == IF msg[1] # "X01" THEN con.effect
               ELSE [asked |-> AsAsked(msg, users'.list), changed |-> users' # users]

\* What the send of a write handler took.  QUIT and a refused login close the
\* session after one send, whatever it took.
SentTo(m) ==
  IF mgr'[m].st = "closed" THEN 1..Len(con.pending)
  ELSE {buffer_read_avail(mgr[m].write_buffer) - buffer_read_avail(mgr'[m].write_buffer)}

\* The client's side after sent fields went out: an answer may have been built,
\* the connection may have been closed.
Seen(m, sent) ==
  LET closed == fault' # "none" \/ mgr'[m].st = "closed"
      built  == ~closed /\ mgr[m].interest = READ /\ mgr'[m].interest = WRITE
  IN  [con EXCEPT
        !.fd = IF closed THEN NoFd ELSE @,
        !.pending = IF closed THEN <<>> ELSE IF built THEN AnswerOf(mgr'[m])
                    ELSE SubSeq(@, sent + 1, Len(@)),
        !.reply = @ \o SubSeq(con.pending, 1, sent),
        !.effect = IF built /\ mgr[m].st = "CMD_READ" THEN Effect(con.asked) ELSE @]

\* What the client stores is terminated: the lengths it sends say so.
StoresTerminated ==
  \A u \in Range(users'.list) \ Range(users.list) : u.unul /\ u.pnul

ServerReads(m) == auth_prawtos_read(m) \/ cmd_read(m)

ReadsConsole(m) ==
  /\ con.fd = m /\ ServerReads(m)
  /\ StoresTerminated
  /\ con' = Seen(m, 0)

\* The process serves another client; when it dies all connections close.
ReadsOther(m) ==
  /\ con.fd # m /\ ServerReads(m)
  /\ con' = IF fault' # "none" THEN [con EXCEPT !.fd = NoFd, !.pending = <<>>] ELSE con

Writes(m) ==
  /\ auth_prawtos_write(m) \/ cmd_write(m)
  /\ IF con.fd = m THEN \E sent \in SentTo(m) : con' = Seen(m, sent) ELSE UNCHANGED con
-----------------------------------------------------------------------------
(* The client.                                                             *)

Clients == Cardinality(Open \ {con.fd}) + (IF con.pc = "off" THEN 0 ELSE 1)

\* main, connect_by_ipv4 and connect_by_ipv6: connect is tried until it
\* succeeds, then the server accepts.
main_connects(m) ==
  /\ con.pc = "off" /\ Clients < MaxClients
  /\ prawtos_passive_accept(m)
  /\ con' = [Off EXCEPT !.pc = "first_message", !.fd = m]

\* exit, or the end of main: the connection is closed.
Exit ==
  /\ mgr' = IF con.fd = NoFd THEN mgr ELSE [mgr EXCEPT ![con.fd].gone = TRUE]
  /\ con' = Off
  /\ UNCHANGED <<users, stadistics, proxies, fault>>

Stays(rec) == con' = rec /\ UNCHANGED vars

\* A message is sent; to a connection that is closed it is lost.
Send(msg, pc) ==
  /\ mgr' = IF con.fd = NoFd THEN mgr
            ELSE [mgr EXCEPT ![con.fd].wire = @ \o msg, ![con.fd].greeted = TRUE]
  /\ con' = [con EXCEPT !.pc = pc, !.asked = msg, !.told = "none", !.effect = Off.effect]
  /\ UNCHANGED <<users, stadistics, proxies, fault>>

first_message ==
  /\ con.pc = "first_message"
  /\ \E msg \in login_messages : Send(msg, "login_answer")

\* One turn of options.  set_sniffer sends nothing.
options ==
  /\ con.pc = "options"
  /\ \E msg \in Options :
       Send(msg, CASE msg[1] = "X00" -> "get_answer"
                   [] msg[1] = "X01" -> "user_answer"
                   [] msg[1] = "X03" -> "quit_answer")

\* A signal has set done: options returns.
options_done == con.pc = "options" /\ Exit

\* recv returns n fields of the answer.
Received_n(n) == Len(con.reply) >= n
Took(n, pc) == [con EXCEPT !.reply = SubSeq(@, n + 1, Len(@)), !.pc = pc]

\* The connection is closed and everything was read: recv returns 0 or -1 and
\* the client goes on with what its array held.
AtEof == con.fd = NoFd /\ con.reply = <<>>

\* Success goes on, a refusal exits.  What an array holds that got no answer may
\* also keep the loop of first_message going.
login_answer ==
  /\ con.pc = "login_answer"
  /\ \/ /\ Received_n(2)
        /\ IF con.reply[2] = <<"status", "success">> THEN Stays(Took(2, "options")) ELSE Exit
     \/ AtEof /\ \/ Exit
                 \/ \E pc \in {"options", "first_message"} : Stays([con EXCEPT !.pc = pc])

\* Success and wrong credentials are reported, any other status ends the client.
user_answer_handler ==
  /\ con.pc = "user_answer"
  /\ \/ /\ Received_n(1)
        /\ LET status == con.reply[1][2]
           IN  IF status \in {"success", "user_credentia"}
               THEN Stays([Took(1, "options") EXCEPT !.told = status])
               ELSE Exit
     \/ AtEof /\ (Exit \/ Stays([con EXCEPT !.pc = "options"]))

\* Mutant: a counter is taken to be as long as a status.
num_too_small == 1

\* The bytes get_command asks for, in fields; of a listing, the header and the
\* length of the first name.
num == IF con.asked[2] = "X03" THEN 1 ELSE 2

\* A recv that also takes the length byte of a further name finds that name.
NextArrived(rest) == rest = 0 \/ Received_n(2)

\* Any status but success ends the client.
get_answer_handler(status, rec) ==
  IF status = "success" THEN Stays([rec EXCEPT !.pc = "options", !.left = 0]) ELSE Exit

\* The status looked at after recv got nothing is what the array held.
NoAnswer == AtEof /\ \E status \in {"success", "garbage"} : get_answer_handler(status, con)

get_command ==
  /\ con.pc = "get_answer"
  /\ \/ /\ Received_n(num)
        /\ LET status == con.reply[1][1]
               nargs  == con.reply[1][2]
           IN  IF con.asked[2] # "X03" \/ nargs = 0
               THEN get_answer_handler(status, Took(num, "get_answer"))
               ELSE /\ NextArrived(nargs)
                    /\ Stays([Took(num, "get_other_users") EXCEPT !.left = nargs])
     \/ NoAnswer

\* Mutant: the loop asks for a name too many.
names_off_by_one ==
  /\ con.pc = "get_other_users"
  /\ \/ /\ Received_n(1) /\ NextArrived(con.left - 1)
        /\ IF con.left = 0 THEN get_answer_handler("success", Took(1, con.pc))
           ELSE Stays([Took(1, con.pc) EXCEPT !.left = @ - 1])
     \/ NoAnswer

\* One turn of the loop: a name and the length of the next one.  A listing
\* comes with the status success only.
get_other_users ==
  /\ con.pc = "get_other_users"
  /\ \/ /\ Received_n(1) /\ NextArrived(con.left - 1)
        /\ IF con.left = 1 THEN get_answer_handler("success", Took(1, con.pc))
           ELSE Stays([Took(1, con.pc) EXCEPT !.left = @ - 1])
     \/ NoAnswer

\* Whether a byte came or not, the client ends.
quit == con.pc = "quit_answer" /\ (Received_n(1) \/ AtEof) /\ Exit

\* recv returns less than it was asked for.  The client reads the rest as part
\* of later answers and acts on bytes that were never received: from here on
\* its connection is that of a client that may send anything.
RecvShort ==
  /\ con.pc \in {"login_answer", "get_answer", "get_other_users"}
  /\ con.reply # <<>>
  /\ Stays(Off)

ConsoleRecv ==
  login_answer \/ user_answer_handler \/ get_command \/ get_other_users \/ quit \/ RecvShort
-----------------------------------------------------------------------------
ConsoleInit == Init /\ con = Off

\* The actions of Prawtos.tla that are not the client's.
Others ==
  \/ \E m \in Manager \ {con.fd} :
       \/ Clients < MaxClients /\ prawtos_passive_accept(m)
       \/ ClientSends(m, OtherCommands) \/ ClientLeaves(m)
  \/ AcceptFails \/ ProxyConnects \/ ProxyLeaves
  \/ Dead

ConsoleNext ==
  \/ \E m \in Manager : \/ main_connects(m)
                        \/ ReadsConsole(m) \/ ReadsOther(m) \/ Writes(m)
  \/ first_message \/ options \/ options_done \/ ConsoleRecv
  \/ Others /\ UNCHANGED con

\* A client that is there reads, so its descriptor becomes writable and the
\* selector calls its handler, as it does when a message of the console has
\* arrived; recv returns when there is something to return.
ConsoleSpec ==
  /\ ConsoleInit /\ [][ConsoleNext]_conVars
  /\ \A m \in Manager : WF_conVars(ReadsConsole(m) \/ Writes(m))
  /\ WF_conVars(ConsoleRecv)
-----------------------------------------------------------------------------
\* What is typed is not empty: a message is framed as those of any client, in
\* fields of the same kind.
ASSUME ConsoleAssumption ==
  /\ NoFd \notin Manager
  /\ Options \cup OtherCommands \subseteq Commands
  /\ login_messages \subseteq Seq(Field)
  /\ \A msg \in login_messages : Framed("version", msg)

\* The server's side as in TypeOK; as many fields of an answer are pending as
\* the pointers of the session's write_buffer say.
ConsoleTypeOK ==
  /\ TypeOK
  /\ con.pc \in {"off", "first_message", "options"} \cup Awaiting
  /\ con.fd \in Open \cup {NoFd}
  /\ con.fd # NoFd =>
       Len(con.pending) = buffer_read_avail(mgr[con.fd].write_buffer)

\* When the client asks for the next option, its connection is where the server
\* thinks it is: the login was accepted, every byte of the earlier answers was
\* read by the command it belongs to, and the server waits for the start of a
\* command.  The client finds the end of an answer by counting only.
PromptIsInStep ==
  con.pc = "options" /\ con.fd # NoFd =>
    /\ con.pending = <<>> /\ con.reply = <<>>
    /\ LET s == mgr[con.fd]
       IN  /\ s.login /\ s.st = "CMD_READ" /\ s.parser.state = "type"
           /\ s.in = <<>> /\ s.wire = <<>>

\* What the client reports of a USERS command that was answered is what the
\* server did, whatever other clients do meanwhile: success when the accounts
\* were then as asked, refusal when the command changed nothing.
ReportIsTrue ==
  con.pc = "options" =>
    /\ con.told = "success" => con.effect.asked
    /\ con.told = "user_credentia" => ~con.effect.changed

\* The client does not wait for ever: the server answers its message or closes
\* the connection.
ConsoleIsAnswered == con.pc \in Awaiting ~> con.pc \notin Awaiting
=============================================================================
