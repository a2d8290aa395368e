---------------------------- MODULE ConsoleProofs ----------------------------
(***************************************************************************)
(* Proofs about Console.tla: the client at its prompt is in step with the  *)
(* server, and what it reports is true, whatever other clients do, however *)
(* messages are cut and whenever the connection is lost.                   *)
(*                                                                         *)
(* The invariant follows one exchange: the server has the rest of the      *)
(* message the client sent, or the rest of the answer, never both.         *)
(***************************************************************************)
EXTENDS Console, PrawtosProofs
-----------------------------------------------------------------------------
(* One message on an otherwise empty stream.                               *)

\* The parser p has taken some fields of msg, and s is the others.
Remains(first, p, s, msg) ==
  \E k \in 0..(Len(msg) - 1) : p = Runs(ParserInit(first), msg)[k] /\ s = Drop(msg, k)

\* A sequence of no fields.
LEMMA NoFields ==
  ASSUME NEW s \in Seq(Field)
  PROVE  Len(s) = 0 <=> s = <<>>
  OBVIOUS

\* The parser is fed the fields a, with which s begins: either the message ends
\* with the last of them and nothing follows, or it goes on.
LEMMA RemainsLess ==
  ASSUME NEW first \in {"version", "type"}, NEW msg \in Heads(first), NEW p, NEW s,
         Remains(first, p, s, msg),
         NEW a \in Seq(Field), Len(a) <= Len(s), \A i \in 1..Len(a) : a[i] = s[i]
  PROVE  /\ is_done(consume(p, a).parser) =>
              /\ consume(p, a).parser = Runs(ParserInit(first), msg)[Len(msg)]
              /\ Drop(s, consume(p, a).n) = <<>>
         /\ ~is_done(consume(p, a).parser) =>
              Remains(first, consume(p, a).parser, Drop(s, consume(p, a).n), msg)
<1> DEFINE q == ParserInit(first)
           r == Runs(q, msg)
           run == Runs(p, a)
           L == Len(msg)
<1>1. PICK k \in 0..(L - 1) : p = r[k] /\ s = Drop(msg, k)
  BY DEF Remains
<1>2. /\ msg \in Seq(Field) /\ L \in Nat /\ L >= 1 /\ is_done(r[L])
      /\ \A j \in 0..(L - 1) : ~is_done(r[j])
  BY HeadsAreFramed
<1>3. k \in Nat /\ k \in 0..L /\ Len(a) \in Nat
  BY <1>2
<1>4. q \in Parser /\ p \in Parser
  <2>1. q \in Parser
    BY ParserStarts
  <2> HIDE DEF q
  <2>2. Runs(q, msg)[k] \in Parser
    <3>1. msg \in Seq(Field) /\ k \in 0..Len(msg)
      BY <1>2, <1>3
    <3> QED
      BY <2>1, <3>1, RunsType
  <2> QED
    BY <1>1, <2>1, <2>2
<1>5. s \in Seq(Field) /\ Len(s) = L - k /\ \A i \in 1..(L - k) : s[i] = msg[k + i]
  BY <1>1, <1>2, <1>3, DropIs
<1>6. PICK l \in Nat : l = Len(a) /\ k + l <= L /\ l <= L - k
  <2>1. Len(a) <= L - k /\ L \in Nat /\ k \in Nat /\ Len(a) \in Nat
    BY <1>2, <1>3, <1>5
  <2> HIDE DEF L
  <2>2. k + Len(a) <= L
    BY <2>1
  <2> QED
    BY <2>1, <2>2
<1>7. /\ consume(p, a).parser = run[l]
      /\ ~is_done(consume(p, a).parser) => consume(p, a).n = l
      /\ \A d \in 1..l :
           is_done(run[d]) /\ (\A j \in 1..(d - 1) : ~is_done(run[j])) => consume(p, a).n = d
  BY <1>4, <1>6, ConsumeIs
<1>8. \A i \in 0..l : run[i] = r[k + i]
  <2>1. \A i \in 1..l : a[i] = msg[k + i]
    BY <1>3, <1>5, <1>6
  <2>2. Agree(a, msg, k, l)
    BY <1>6, <2>1 DEF Agree
  <2> HIDE DEF q
  <2>3. \A i \in 0..l : Runs(Runs(q, msg)[k], a)[i] = Runs(q, msg)[k + i]
    BY <1>2, <1>3, <2>2, Splice
  <2> QED
    BY <1>1, <2>3
<1>9. run[l] = r[k + l]
  BY <1>6, <1>8
<1> HIDE DEF run, r, L
<1>10. CASE k + l = L
  <2>1. l >= 1 /\ l \in 1..l /\ run[l] = r[L]
    BY <1>1, <1>2, <1>3, <1>6, <1>9, <1>10
  <2>2. \A j \in 1..(l - 1) : ~is_done(run[j])
    <3> SUFFICES ASSUME NEW j \in 1..(l - 1)
                 PROVE  ~is_done(run[j])
      OBVIOUS
    <3>1. j \in 0..l /\ k + j \in 0..(L - 1)
      BY <1>2, <1>3, <1>6, <1>10
    <3> QED
      BY <1>2, <1>8, <3>1
  <2>3. consume(p, a).n = l
    BY <1>2, <1>7, <2>1, <2>2
  <2>4. Drop(s, l) = <<>>
    <3>1. l \in 0..Len(s) /\ Len(s) - l = 0
      BY <1>2, <1>3, <1>5, <1>6, <1>10
    <3>2. Drop(s, l) \in Seq(Field) /\ Len(Drop(s, l)) = 0
      BY <1>5, <3>1, DropIs
    <3> QED
      BY <3>2, NoFields
  <2> QED
    BY <1>2, <1>7, <2>1, <2>3, <2>4 DEF r, L
<1>11. CASE k + l # L
  <2>1. PICK j \in 0..(L - 1) : j = k + l
    BY <1>2, <1>3, <1>6, <1>11
  <2>2. ~is_done(run[l]) /\ consume(p, a).n = l
    BY <1>2, <1>7, <1>9, <2>1
  <2>3. Drop(s, l) = Drop(msg, j)
    <3>1. k + l <= Len(msg)
      BY <1>6 DEF L
    <3>2. Drop(Drop(msg, k), l) = Drop(msg, k + l)
      BY <1>2, <1>3, <1>6, <3>1, DropMore
    <3> QED
      BY <1>1, <2>1, <3>2
  <2>4. consume(p, a).parser = r[j]
    BY <1>7, <1>9, <2>1
  <2>5. Remains(first, consume(p, a).parser, Drop(s, consume(p, a).n), msg)
    <3>1. /\ consume(p, a).parser = Runs(ParserInit(first), msg)[j]
          /\ Drop(s, consume(p, a).n) = Drop(msg, j)
      BY <2>2, <2>3, <2>4 DEF r
    <3>2. j \in 0..(Len(msg) - 1)
      BY DEF L
    <3> QED
      BY <3>1, <3>2 DEF Remains
  <2>6. ~is_done(consume(p, a).parser)
    BY <1>7, <2>2
  <2> QED
    BY <2>5, <2>6
<1> QED
  BY <1>10, <1>11
-----------------------------------------------------------------------------
(* What the server does with that message.                                 *)

\* What is left of the message after a recv and the parser.
LEMMA ParsedOne ==
  ASSUME NEW m, Proper(mgr[m]), NEW first, Reading(mgr[m].st, first),
         NEW msg \in Heads(first), Remains(first, mgr[m].parser, Stream(mgr[m]), msg),
         NEW n \in Received(m)
  PROVE  /\ is_done(Parsed(m, n).parser) =>
              /\ Parsed(m, n).parser = Runs(ParserInit(first), msg)[Len(msg)]
              /\ Stream(Parsed(m, n)) = <<>>
         /\ ~is_done(Parsed(m, n).parser) =>
              Remains(first, Parsed(m, n).parser, Stream(Parsed(m, n)), msg)
         /\ Parsed(m, n).gone = mgr[m].gone
<1> DEFINE old == mgr[m]
           a == old.in \o SubSeq(old.wire, 1, n)
           c == consume(old.parser, a)
           w == Drop(old.wire, n)
           new == Parsed(m, n)
           b == buffer_read_adv(buffer_write_adv(old.read_buffer, n), c.n)
<1>1. /\ old \in Session /\ old.in \in Seq(Field) /\ old.wire \in Seq(Field)
      /\ old.parser \in Parser
  BY DEF Proper, Session
<1>2. n \in Nat /\ n \in 0..Len(old.wire)
  BY <1>1, ReceivedIs
<1>3. a \in Seq(Field) /\ a \o w = Stream(old)
  BY <1>1, <1>2, RecvKeepsStream DEF Stream
<1>4. w \in Seq(Field)
  BY <1>1, <1>2, DropIs
<1>5. new = [old EXCEPT !.wire = w, !.in = Drop(a, c.n), !.read_buffer = b, !.parser = c.parser]
  BY DEF Parsed, Drop
<1> HIDE DEF a, w, new, b
<1>6. c.n \in 0..Len(a)
  BY <1>1, <1>3, ConsumeIs
<1> HIDE DEF c
<1>7. /\ new.wire = w /\ new.in = Drop(a, c.n) /\ new.parser = c.parser /\ new.gone = old.gone
  BY <1>1, <1>5 DEF Session
<1>8. Stream(new) = Drop(Stream(old), c.n)
  <2>1. Drop(a \o w, c.n) = Drop(a, c.n) \o w
    BY <1>3, <1>4, <1>6, DropAppend
  <2> QED
    BY <1>3, <1>7, <2>1 DEF Stream
<1>9. Len(a) <= Len(Stream(old)) /\ \A i \in 1..Len(a) : a[i] = Stream(old)[i]
  <2>1. Len(a) <= Len(a \o w) /\ \A i \in 1..Len(a) : a[i] = (a \o w)[i]
    BY <1>3, <1>4
  <2> QED
    BY <1>3, <2>1
<1>10. first \in {"version", "type"}
  BY DEF Reading
<1>11. /\ is_done(c.parser) =>
            /\ c.parser = Runs(ParserInit(first), msg)[Len(msg)]
            /\ Drop(Stream(old), c.n) = <<>>
       /\ ~is_done(c.parser) =>
            Remains(first, c.parser, Drop(Stream(old), c.n), msg)
  BY <1>3, <1>9, <1>10, RemainsLess DEF c
<1> QED
  BY <1>7, <1>8, <1>11 DEF new

\* A session whose answer of n fields was just marshalled.
LEMMA MarshalledIs ==
  ASSUME NEW m, NEW rec, Asking(rec), NEW st, NEW status, NEW login, NEW n,
         Allowed(st, status, login, n)
  PROVE  LET new == Arrived(m, st, Marshalled(rec, status, login, n))
         IN  /\ new.st = st /\ new.interest = WRITE /\ new.status = status
             /\ new.parser = rec.parser /\ Stream(new) = Stream(rec) /\ new.gone = rec.gone
             /\ buffer_read_avail(new.write_buffer) = n
<1> DEFINE b == buffer_write_adv(Empty, n)
           ans == Marshalled(rec, status, login, n)
           new == Arrived(m, st, ans)
<1>1. /\ rec \in Session /\ st \in Writing /\ login \in BOOLEAN /\ n \in 1..BUFFER_SIZE
      /\ status \in {"success", "bad_credentials", "user_credentia"}
  BY DEF Asking, Allowed
<1>2. b \in Pointers /\ buffer_read_avail(b) = n
  BY <1>1, PrawtosAssumption DEF buffer_write_adv, Empty, Pointers, buffer_read_avail
<1> HIDE DEF b
<1>3. ans = [rec EXCEPT !.interest = WRITE, !.status = status, !.login = login,
                        !.write_buffer = b]
  BY DEF Marshalled, b
<1> HIDE DEF ans
<1>4. /\ ans \in Session /\ ans.in = rec.in /\ ans.wire = rec.wire /\ ans.parser = rec.parser
      /\ ans.write_buffer = b /\ ans.interest = WRITE /\ ans.status = status
      /\ ans.gone = rec.gone
  BY <1>1, <1>2, <1>3 DEF Session
<1>5. st \in {"AUTH_READ", "AUTH_WRITE", "CMD_READ", "CMD_WRITE"} /\ st # "CMD_READ"
  BY <1>1 DEF Writing
<1>6. new = [ans EXCEPT !.st = st]
  BY <1>4, <1>5 DEF Arrived, Session
<1> HIDE DEF new
<1>7. /\ new.st = st /\ new.in = ans.in /\ new.wire = ans.wire /\ new.parser = ans.parser
      /\ new.write_buffer = ans.write_buffer /\ new.interest = ans.interest
      /\ new.status = ans.status /\ new.gone = ans.gone
  BY <1>4, <1>6 DEF Session
<1> QED
  BY <1>2, <1>4, <1>7 DEF Stream, new, ans
\* The process ends in a handler.
Dies == fault' # "none" /\ mgr' = mgr

\* The answer to the command that p has parsed: its status, its length and what
\* was done to the list.
Gives(p, status, n) ==
  /\ p.state # "error" /\ p.type \in {"X00", "X01", "X03"}
  /\ n = IF p.type = "X00" THEN 1 + GetLength(p) ELSE 1
  /\ p.type = "X01" => \E o \in Outcomes(p) :
       users' = o.users /\ status = IF o.ok THEN "success" ELSE "user_credentia"

\* The answer to rec is marshalled.
Answers(m, rec) ==
  \E status, n : /\ Turned(m, Arrived(m, "CMD_WRITE", Marshalled(rec, status, rec.login, n)))
                 /\ Allowed("CMD_WRITE", status, rec.login, n)
                 /\ Gives(rec.parser, status, n) /\ fault' = "none"

\* The session is closed.
ClosedBy(m) == Turned(m, Closed) /\ fault' = "none"

\* Return with an answer, or with ERROR.
LEMMA AnswerIs ==
  ASSUME fault = "none", NEW m, NEW rec, Asking(rec), rec.login = TRUE,
         NEW status \in {"success", "user_credentia"}, NEW n \in 1..BUFFER_SIZE, NEW u,
         Answer(m, rec, n, status, u),
         rec.parser.state # "error" /\ users' = u => Gives(rec.parser, status, n)
  PROVE  ClosedBy(m) \/ Answers(m, rec)
<1> DEFINE ans == [rec EXCEPT !.interest = WRITE, !.status = status,
                              !.write_buffer = buffer_write_adv(@, n)]
           st == IF rec.parser.state = "error" THEN "ERROR" ELSE "CMD_WRITE"
           login == rec.login
<1>1. ans = Marshalled(rec, status, login, n)
  BY DEF Asking, Session, Marshalled
<1>2. Allowed("CMD_WRITE", status, login, n)
  BY DEF Allowed, Writing
<1>3. Return(m, st, ans, u)
  BY DEF Answer
<1> HIDE DEF ans
<1>4. CASE st = "ERROR"
  BY <1>3, <1>4 DEF Return, ClosedBy, Turned
<1>5. CASE st = "CMD_WRITE"
  <2>1. Return(m, "CMD_WRITE", ans, u)
    BY <1>3, <1>5
  <2>2. /\ Turned(m, Arrived(m, "CMD_WRITE", ans)) /\ fault' = "none" /\ users' = u
    BY <2>1 DEF Return, Turned, Arrived
  <2>3. Gives(rec.parser, status, n)
    BY <1>5, <2>2
  <2> QED
    BY <1>1, <1>2, <2>2, <2>3 DEF Answers
<1> QED
  BY <1>4, <1>5

\* Return with ERROR, which closes the session.
LEMMA ErrorCloses ==
  ASSUME fault = "none", NEW m, NEW rec, NEW u, Return(m, "ERROR", rec, u)
  PROVE  ClosedBy(m)
  BY DEF Return, ClosedBy, Turned

\* A whole command is processed: the process dies, or the session ends, or the
\* answer is marshalled.
LEMMA Processed ==
  ASSUME Inv, fault = "none", NEW m, NEW rec, Asking(rec), rec.login = TRUE,
         cmd_process(m, rec)
  PROVE  Dies \/ ClosedBy(m) \/ Answers(m, rec)
<1>1. users.size \in Nat
  BY DEF Inv, Listed
<1>2. /\ buffer_write_room(rec.write_buffer, BUFFER_SIZE) = BUFFER_SIZE
      /\ buffer_can_write(rec.write_buffer, BUFFER_SIZE)
      /\ 1 \in 1..BUFFER_SIZE /\ BUFFER_SIZE \in Nat /\ BUFFER_SIZE >= 2
  BY PrawtosAssumption DEF Asking, Empty, buffer_write_room, buffer_can_write
<1>3. CASE rec.parser.type = "X00"
  <2> DEFINE len == 1 + GetLength(rec.parser)
  <2>1. len \in Nat /\ len >= 1
    BY <1>1 DEF GetLength, ListLength
  <2>2. IF BUFFER_SIZE < len THEN Die("overflow") ELSE Answer(m, rec, len, "success", users)
    BY <1>2, <1>3 DEF cmd_process, get_process
  <2>3. rec.parser.state # "error" => Gives(rec.parser, "success", len)
    BY <1>3 DEF Gives
  <2> HIDE DEF len
  <2>4. CASE BUFFER_SIZE < len
    BY <2>2, <2>4 DEF Die, Dies
  <2>5. CASE ~(BUFFER_SIZE < len)
    <3>1. Answer(m, rec, len, "success", users) /\ len \in 1..BUFFER_SIZE
      BY <1>2, <2>1, <2>2, <2>5
    <3> QED
      BY <2>3, <3>1, AnswerIs
  <2> QED
    BY <2>4, <2>5
<1>4. CASE rec.parser.type = "X01"
  <2>1. users_process(m, rec)
    BY <1>4 DEF cmd_process
  <2>2. CASE Die("wild_call") \/ Die("null_strcpy")
    BY <2>2 DEF Die, Dies
  <2>3. CASE \E o \in Outcomes(rec.parser) :
               Answer(m, rec, 1, IF o.ok THEN "success" ELSE "user_credentia", o.users)
    <3>1. PICK o \in Outcomes(rec.parser) :
               Answer(m, rec, 1, IF o.ok THEN "success" ELSE "user_credentia", o.users)
      BY <2>3
    <3>2. PICK status : status = IF o.ok THEN "success" ELSE "user_credentia"
      OBVIOUS
    <3>3. status \in {"success", "user_credentia"} /\ Answer(m, rec, 1, status, o.users)
      BY <3>1, <3>2
    <3>4. rec.parser.state # "error" /\ users' = o.users => Gives(rec.parser, status, 1)
      BY <1>4, <3>2 DEF Gives
    <3> QED
      BY <1>2, <3>3, <3>4, AnswerIs
  <2> QED
    BY <1>2, <2>1, <2>2, <2>3 DEF users_process, Outcomes
<1>5. CASE rec.parser.type = "X03"
  <2>1. Answer(m, rec, 1, "success", users)
    BY <1>2, <1>5 DEF cmd_process
  <2>2. rec.parser.state # "error" => Gives(rec.parser, "success", 1)
    BY <1>5 DEF Gives
  <2> QED
    BY <1>2, <2>1, <2>2, AnswerIs
<1>6. CASE rec.parser.type \notin {"X00", "X01", "X03"}
  BY <1>6, ErrorCloses DEF cmd_process
<1> QED
  BY <1>3, <1>4, <1>5, <1>6
-----------------------------------------------------------------------------
(* The server during one exchange.                                         *)

\* The last parser of a message.
End(first, msg) == Runs(ParserInit(first), msg)[Len(msg)]

\* The server waits for the rest of msg.
Listens(first, s, msg) ==
  /\ s.st = (IF first = "version" THEN "AUTH_READ" ELSE "CMD_READ")
  /\ s.interest = READ /\ s.gone = FALSE /\ buffer_read_avail(s.write_buffer) = 0
  /\ Remains(first, s.parser, Stream(s), msg)

\* The server has marshalled the answer to msg.
Replies(first, s, msg) ==
  /\ s.st = (IF first = "version" THEN "AUTH_WRITE" ELSE "CMD_WRITE")
  /\ s.interest = WRITE /\ s.gone = FALSE /\ Stream(s) = <<>>
  /\ s.parser = End(first, msg)
  /\ buffer_read_avail(s.write_buffer) = Len(AnswerOf(s))
  /\ first = "type" => Gives(s.parser, s.status, Len(AnswerOf(s)))

\* Fields of an answer.
Statuses == {"success", "bad_credentials", "user_credentia"}
Part == ({"version", "status", "arg"} \cup Statuses) \X ({"X01"} \cup Statuses \cup Nat)

\* What a session marshals.
LEMMA AnswerOfIs ==
  ASSUME Inv, NEW rec, rec.status \in Statuses
  PROVE  /\ AnswerOf(rec) \in Seq(Part)
         /\ rec.st = "AUTH_WRITE" => Len(AnswerOf(rec)) = 2
         /\ rec.st # "AUTH_WRITE" /\ rec.parser.type # "X00" =>
              Len(AnswerOf(rec)) = 1 /\ AnswerOf(rec)[1] = <<"status", rec.status>>
         /\ rec.st # "AUTH_WRITE" /\ rec.parser.type = "X00" =>
              /\ Len(AnswerOf(rec)) = 1 + GetLength(rec.parser)
              /\ AnswerOf(rec)[1] = <<rec.status, GetLength(rec.parser)>>
              /\ GetLength(rec.parser) \in Nat
<1> DEFINE l == GetLength(rec.parser)
           head == <<<<rec.status, l>>>>
           args == [i \in 1..l |-> <<"arg", i>>]
<1>1. l \in Nat
  BY DEF Inv, Listed, GetLength, ListLength
<1> HIDE DEF l
<1>2. CASE rec.st = "AUTH_WRITE"
  <2>1. AnswerOf(rec) = <<<<"version", "X01">>, <<"status", rec.status>>>>
    BY <1>2 DEF AnswerOf
  <2>2. <<"version", "X01">> \in Part /\ <<"status", rec.status>> \in Part
    BY DEF Part, Statuses
  <2> QED
    BY <1>2, <2>1, <2>2
<1>3. CASE rec.st # "AUTH_WRITE" /\ rec.parser.type # "X00"
  <2>1. AnswerOf(rec) = <<<<"status", rec.status>>>>
    BY <1>3 DEF AnswerOf
  <2>2. <<"status", rec.status>> \in Part
    BY DEF Part, Statuses
  <2> QED
    BY <1>3, <2>1, <2>2
<1>4. CASE rec.st # "AUTH_WRITE" /\ rec.parser.type = "X00"
  <2>1. AnswerOf(rec) = head \o args
    BY <1>4 DEF AnswerOf, l
  <2>2. <<rec.status, l>> \in Part /\ \A i \in 1..l : <<"arg", i>> \in Part
    BY <1>1 DEF Part, Statuses
  <2>3. head \in Seq(Part) /\ Len(head) = 1 /\ head[1] = <<rec.status, l>>
    BY <2>2
  <2>4. args \in Seq(Part) /\ Len(args) = l
    BY <1>1, <2>2
  <2> HIDE DEF head, args
  <2>5. /\ head \o args \in Seq(Part) /\ Len(head \o args) = 1 + l
        /\ (head \o args)[1] = head[1]
    <3>1. PICK t \in Seq(Part), u \in Seq(Part) : t = head /\ u = args
      BY <2>3, <2>4
    <3>2. t \o u \in Seq(Part) /\ Len(t \o u) = Len(t) + Len(u) /\ (Len(t) = 1 => (t \o u)[1] = t[1])
      OBVIOUS
    <3> QED
      BY <2>3, <2>4, <3>1, <3>2
  <2> QED
    BY <1>1, <1>4, <2>1, <2>3, <2>5 DEF l
<1> QED
  BY <1>2, <1>3, <1>4

\* A command is answered with as many fields as are marshalled.
LEMMA GivesIs ==
  ASSUME Inv, NEW s, s.status \in Statuses, s.st = "CMD_WRITE", NEW n,
         Gives(s.parser, s.status, n)
  PROVE  n = Len(AnswerOf(s))
<1>1. CASE s.parser.type = "X00"
  BY <1>1, AnswerOfIs DEF Gives
<1>2. CASE s.parser.type # "X00"
  BY <1>2, AnswerOfIs DEF Gives
<1> QED
  BY <1>1, <1>2

\* A read handler, called while the server waits for the rest of msg.
LEMMA ReadOutcome ==
  ASSUME Inv, NEW m \in Open, NEW first \in {"version", "type"}, NEW msg \in Heads(first),
         Listens(first, mgr[m], msg), ServerReads(m)
  PROVE  \/ Dies \/ ClosedBy(m)
         \/ fault' = "none" /\ \E new : /\ Turned(m, new) /\ new.status \in Statuses
                                        /\ Listens(first, new, msg) \/ Replies(first, new, msg)
<1>1. /\ fault = "none" /\ Proper(mgr[m]) /\ Reading(mgr[m].st, first)
      /\ mgr[m].gone = FALSE /\ mgr[m].st # "closed"
      /\ Remains(first, mgr[m].parser, Stream(mgr[m]), msg)
  BY DEF ServerReads, auth_prawtos_read, cmd_read, OnRead, Inv, Open, Listens, Reading
<1>2. CASE Return(m, "ERROR", mgr[m], users)
  BY <1>1, <1>2, ErrorCloses
<1>3. ASSUME NEW n \in Received(m), NEW rec, rec = Parsed(m, n), ~is_done(rec.parser),
             Return(m, mgr[m].st, rec, users)
      PROVE  \E new : /\ Turned(m, new) /\ new.status \in Statuses
                      /\ Listens(first, new, msg)
  <2> DEFINE new == Arrived(m, mgr[m].st, rec)
  <2>1. /\ rec \in Session /\ rec.st = mgr[m].st /\ rec.interest = READ
        /\ rec.write_buffer = Empty
    BY <1>1, <1>3, ParsedIs
  <2>2. Remains(first, rec.parser, Stream(rec), msg) /\ rec.gone = FALSE
    BY <1>1, <1>3, ParsedOne
  <2>3. new = [rec EXCEPT !.st = mgr[m].st]
    BY <2>1 DEF Arrived, Session
  <2>4. Turned(m, new)
    <3>1. mgr[m].st \notin {"ERROR", "DONE"}
      BY <1>1 DEF Reading
    <3> QED
      BY <1>3, <3>1 DEF Return, Turned, Arrived
  <2> HIDE DEF new
  <2>5. new = rec
    BY <2>1, <2>3 DEF Session
  <2>6. rec.status \in Statuses /\ buffer_read_avail(Empty) = 0
    BY <2>1 DEF Session, Statuses, Empty, buffer_read_avail
  <2>7. rec.st = IF first = "version" THEN "AUTH_READ" ELSE "CMD_READ"
    BY <1>1, <2>1 DEF Reading
  <2>8. Listens(first, rec, msg)
    BY <2>1, <2>2, <2>6, <2>7 DEF Listens
  <2> QED
    BY <2>4, <2>5, <2>6, <2>8
<1>4. ASSUME NEW n \in Received(m), NEW rec, rec = Parsed(m, n), is_done(rec.parser)
      PROVE  /\ Asking(rec) /\ rec.login = mgr[m].login /\ rec.gone = FALSE
             /\ rec.parser = End(first, msg) /\ Stream(rec) = <<>>
  <2>1. Asking(rec) /\ rec.login = mgr[m].login
    BY <1>1, <1>4, ParsedIsAsking
  <2>2. rec.gone = mgr[m].gone /\ rec.parser = End(first, msg) /\ Stream(rec) = <<>>
    BY <1>1, <1>4, ParsedOne DEF End
  <2> QED
    BY <1>1, <2>1, <2>2
<1>5. ASSUME first = "version", NEW n \in Received(m), NEW rec, rec = Parsed(m, n),
             is_done(rec.parser), Return(m, "AUTH_WRITE", auth_prawtos_process(rec), users)
      PROVE  \E new : /\ Turned(m, new) /\ new.status \in Statuses
                      /\ Replies(first, new, msg)
  <2> DEFINE login == user_check_credentials(users, rec.parser.uname, rec.parser.passwd)
             status == IF login THEN "success" ELSE "bad_credentials"
             new == Arrived(m, "AUTH_WRITE", Marshalled(rec, status, login, 2))
  <2>1. /\ Asking(rec) /\ rec.gone = FALSE /\ rec.parser = End(first, msg) /\ Stream(rec) = <<>>
    BY <1>4, <1>5
  <2>2. login \in BOOLEAN
    BY DEF user_check_credentials
  <2>3. auth_prawtos_process(rec) = Marshalled(rec, status, login, 2)
    BY <2>1 DEF auth_prawtos_process, Marshalled, Asking
  <2>4. Turned(m, new)
    BY <1>5, <2>3 DEF Return, Turned, Arrived
  <2> HIDE DEF login
  <2>5. Allowed("AUTH_WRITE", status, login, 2)
    BY <2>2, PrawtosAssumption DEF Writing, Allowed
  <2>6. status \in Statuses
    BY DEF Statuses
  <2> HIDE DEF status, new
  <2>7. /\ new.st = "AUTH_WRITE" /\ new.interest = WRITE /\ new.status = status
        /\ new.parser = rec.parser /\ Stream(new) = Stream(rec) /\ new.gone = rec.gone
        /\ buffer_read_avail(new.write_buffer) = 2
    BY <2>1, <2>5, MarshalledIs DEF new
  <2>8. Len(AnswerOf(new)) = 2
    BY <2>6, <2>7, AnswerOfIs
  <2>9. Replies(first, new, msg)
    BY <1>5, <2>1, <2>7, <2>8 DEF Replies
  <2> QED
    BY <2>4, <2>6, <2>7, <2>9
<1>6. ASSUME first = "type", NEW n \in Received(m), NEW rec, rec = Parsed(m, n),
             is_done(rec.parser), Answers(m, rec)
      PROVE  \E new : /\ Turned(m, new) /\ new.status \in Statuses
                      /\ Replies(first, new, msg)
  <2>1. /\ Asking(rec) /\ rec.gone = FALSE /\ rec.parser = End(first, msg) /\ Stream(rec) = <<>>
    BY <1>4, <1>6
  <2>2. PICK status, k : /\ Turned(m, Arrived(m, "CMD_WRITE", Marshalled(rec, status, rec.login, k)))
                         /\ Allowed("CMD_WRITE", status, rec.login, k)
                         /\ Gives(rec.parser, status, k)
    BY <1>6 DEF Answers
  <2> DEFINE login == rec.login
             new == Arrived(m, "CMD_WRITE", Marshalled(rec, status, login, k))
  <2>3. Turned(m, new) /\ Allowed("CMD_WRITE", status, login, k)
    BY <2>2
  <2> HIDE DEF login, new
  <2>4. /\ new.st = "CMD_WRITE" /\ new.interest = WRITE /\ new.status = status
        /\ new.parser = rec.parser /\ Stream(new) = Stream(rec) /\ new.gone = rec.gone
        /\ buffer_read_avail(new.write_buffer) = k
    BY <2>1, <2>3, MarshalledIs DEF new
  <2>5. status \in Statuses
    BY <2>3 DEF Allowed, Statuses
  <2>6. Gives(new.parser, new.status, k)
    BY <2>2, <2>4
  <2>7. k = Len(AnswerOf(new))
    BY <2>4, <2>5, <2>6, GivesIs
  <2>8. Replies(first, new, msg)
    BY <1>6, <2>1, <2>4, <2>6, <2>7 DEF Replies
  <2> QED
    BY <2>3, <2>4, <2>5, <2>8
<1>7. CASE auth_prawtos_read(m)
  <2>1. first = "version" /\ mgr[m].st = "AUTH_READ"
    BY <1>1, <1>7 DEF auth_prawtos_read, OnRead, Reading
  <2>2. ASSUME NEW n \in Received(m), NEW rec, rec = Parsed(m, n),
               \/ Return(m, "ERROR", rec, users)
               \/ rec.parser.state = "done" /\ Return(m, "AUTH_WRITE", auth_prawtos_process(rec), users)
               \/ rec.parser.state \notin {"error", "done"} /\ Return(m, "AUTH_READ", rec, users)
        PROVE  \/ ClosedBy(m)
               \/ fault' = "none" /\ \E new : /\ Turned(m, new) /\ new.status \in Statuses
                                              /\ Listens(first, new, msg) \/ Replies(first, new, msg)
    <3>1. CASE Return(m, "ERROR", rec, users)
      BY <1>1, <3>1, ErrorCloses
    <3>2. CASE rec.parser.state = "done" /\ Return(m, "AUTH_WRITE", auth_prawtos_process(rec), users)
      <4>1. is_done(rec.parser) /\ fault' = "none"
        BY <1>1, <3>2 DEF is_done, Return
      <4> QED
        BY <1>5, <2>1, <2>2, <3>2, <4>1
    <3>3. CASE rec.parser.state \notin {"error", "done"} /\ Return(m, "AUTH_READ", rec, users)
      <4>1. ~is_done(rec.parser) /\ fault' = "none" /\ Return(m, mgr[m].st, rec, users)
        BY <1>1, <2>1, <3>3 DEF is_done, Return
      <4> QED
        BY <1>3, <2>2, <4>1
    <3> QED
      BY <2>2, <3>1, <3>2, <3>3
  <2>3. CASE \E n \in Received(m) :
         LET rec == Parsed(m, n)
         IN  CASE rec.parser.state = "error" -> Return(m, "ERROR", rec, users)
               [] rec.parser.state = "done" ->
                    IF buffer_write_room(rec.write_buffer, BUFFER_SIZE) < 2
                    THEN Return(m, "ERROR", rec, users)
                    ELSE Return(m, "AUTH_WRITE", auth_prawtos_process(rec), users)
               [] OTHER -> Return(m, "AUTH_READ", rec, users)
    <3>1. PICK n \in Received(m) :
         LET rec == Parsed(m, n)
         IN  CASE rec.parser.state = "error" -> Return(m, "ERROR", rec, users)
               [] rec.parser.state = "done" ->
                    IF buffer_write_room(rec.write_buffer, BUFFER_SIZE) < 2
                    THEN Return(m, "ERROR", rec, users)
                    ELSE Return(m, "AUTH_WRITE", auth_prawtos_process(rec), users)
               [] OTHER -> Return(m, "AUTH_READ", rec, users)
      BY <2>3
    <3>2. PICK rec : rec = Parsed(m, n)
      OBVIOUS
    <3>3. \/ Return(m, "ERROR", rec, users)
          \/ rec.parser.state = "done" /\ Return(m, "AUTH_WRITE", auth_prawtos_process(rec), users)
          \/ rec.parser.state \notin {"error", "done"} /\ Return(m, "AUTH_READ", rec, users)
      BY <3>1, <3>2
    <3> QED
      BY <2>2, <3>2, <3>3
  <2> QED
    BY <1>2, <1>7, <2>3 DEF auth_prawtos_read
<1>8. CASE cmd_read(m)
  <2>1. first = "type" /\ mgr[m].st = "CMD_READ"
    BY <1>1, <1>8 DEF cmd_read, OnRead, Reading
  <2>2. mgr[m].login = TRUE
    <3>1. mgr[m].login \in BOOLEAN /\ mgr[m].login
      BY <1>1, <2>1 DEF Proper, Admitted, Session
    <3> QED
      BY <3>1
  <2>3. ASSUME NEW n \in Received(m), NEW rec, rec = Parsed(m, n),
               IF is_done(rec.parser) THEN cmd_process(m, rec)
               ELSE Return(m, "CMD_READ", rec, users)
        PROVE  \/ Dies \/ ClosedBy(m)
               \/ fault' = "none" /\ \E new : /\ Turned(m, new) /\ new.status \in Statuses
                                              /\ Listens(first, new, msg) \/ Replies(first, new, msg)
    <3>1. CASE is_done(rec.parser)
      <4>1. Asking(rec) /\ rec.login = TRUE /\ cmd_process(m, rec)
        BY <1>4, <2>2, <2>3, <3>1
      <4>2. Dies \/ ClosedBy(m) \/ Answers(m, rec)
        BY <1>1, <4>1, Processed
      <4>3. CASE Answers(m, rec)
        <5>1. fault' = "none"
          BY <4>3 DEF Answers
        <5> QED
          BY <1>6, <2>1, <2>3, <3>1, <4>3, <5>1
      <4> QED
        BY <4>2, <4>3
    <3>2. CASE ~is_done(rec.parser)
      <4>1. Return(m, mgr[m].st, rec, users) /\ fault' = "none"
        BY <1>1, <2>1, <2>3, <3>2 DEF Return
      <4> QED
        BY <1>3, <2>3, <3>2, <4>1
    <3> QED
      BY <3>1, <3>2
  <2>4. CASE \E n \in Received(m) :
             LET rec == Parsed(m, n)
             IN  IF is_done(rec.parser) THEN cmd_process(m, rec)
                 ELSE Return(m, "CMD_READ", rec, users)
    <3>1. PICK n \in Received(m) :
             LET rec == Parsed(m, n)
             IN  IF is_done(rec.parser) THEN cmd_process(m, rec)
                 ELSE Return(m, "CMD_READ", rec, users)
      BY <2>4
    <3>2. PICK rec : rec = Parsed(m, n)
      OBVIOUS
    <3> QED
      BY <2>3, <3>1, <3>2
  <2> QED
    BY <1>2, <1>8, <2>4 DEF cmd_read
<1> QED
  BY <1>7, <1>8 DEF ServerReads
-----------------------------------------------------------------------------
(* What the parser has stored when it accepts a command of the client.     *)

\* What a parser holds of a name or a password that did not come.
Blank == ""

\* A parser within a USERS command.
UsersParser(state, cmd, admin, uname, passwd) ==
  [state |-> state, type |-> "X01", cmd |-> cmd, admin |-> admin,
   uname |-> uname, passwd |-> passwd]

\* Field by field.
LEMMA UsersFed ==
  /\ feed(ParserInit("type"), "X01") = UsersParser("cmd_user", "X00", "X00", Blank, Blank)
  /\ feed(UsersParser("cmd_user", "X00", "X00", Blank, Blank), "X00")
       = UsersParser("admin", "X00", "X00", Blank, Blank)
  /\ \A c \in {"X01", "X02"} : feed(UsersParser("cmd_user", "X00", "X00", Blank, Blank), c)
       = UsersParser("uname", c, "X00", Blank, Blank)
  /\ \A a \in {"X00", "X01"} : feed(UsersParser("admin", "X00", "X00", Blank, Blank), a)
       = UsersParser("uname", "X00", a, Blank, Blank)
<1>1. feed(ParserInit("type"), "X01") = UsersParser("cmd_user", "X00", "X00", Blank, Blank)
  BY DEF feed, prawtos_parser_feed, ParserInit, UsersParser, Blank
<1>2. feed(UsersParser("cmd_user", "X00", "X00", Blank, Blank), "X00")
       = UsersParser("admin", "X00", "X00", Blank, Blank)
  BY DEF feed, prawtos_parser_feed, UsersParser
<1>3. ASSUME NEW c \in {"X01", "X02"}
      PROVE  feed(UsersParser("cmd_user", "X00", "X00", Blank, Blank), c)
               = UsersParser("uname", c, "X00", Blank, Blank)
  BY DEF feed, prawtos_parser_feed, UsersParser
<1>4. ASSUME NEW a \in {"X00", "X01"}
      PROVE  feed(UsersParser("admin", "X00", "X00", Blank, Blank), a)
               = UsersParser("uname", "X00", a, Blank, Blank)
  BY DEF feed, prawtos_parser_feed, UsersParser
<1> QED
  BY <1>1, <1>2, <1>3, <1>4

\* A parser that waits for a name or a password.
LEMMA CredentialsNext ==
  ASSUME NEW p, p.state \in {"uname", "passwd"}, NEW w
  PROVE  feed(p, w) = credentials_feed(p, w)
<1>1. feed(p, w) = prawtos_parser_feed(p, w)
  BY DEF feed
<1>2. p.state \notin {"type", "cmd_get", "cmd_sniff", "cmd_user", "admin"}
  OBVIOUS
<1>3. prawtos_parser_feed(p, w) = credentials_feed(p, w)
  BY ONLY <1>2 DEF prawtos_parser_feed
<1> QED
  BY <1>1, <1>3

\* The name.
LEMMA NameFed ==
  ASSUME NEW c, NEW a, NEW n
  PROVE  /\ n = "X00" => feed(UsersParser("uname", c, a, Blank, Blank), n).state = "error"
         /\ n # "X00" /\ c = "X01" =>
              feed(UsersParser("uname", c, a, Blank, Blank), n) = UsersParser("done", c, a, n, Blank)
         /\ n # "X00" /\ c # "X01" =>
              feed(UsersParser("uname", c, a, Blank, Blank), n) = UsersParser("passwd", c, a, n, Blank)
<1> DEFINE p == UsersParser("uname", c, a, Blank, Blank)
<1>1. p.state = "uname" /\ p.cmd = c
  BY DEF UsersParser
<1>2. feed(p, n) = credentials_feed(p, n)
  <2>1. p.state \in {"uname", "passwd"}
    BY <1>1
  <2> HIDE DEF p
  <2> QED
    BY <2>1, CredentialsNext
<1>3. CASE n = "X00"
  <2>1. credentials_feed(p, n) = [p EXCEPT !.state = "error"]
    BY <1>3 DEF credentials_feed
  <2>2. [p EXCEPT !.state = "error"].state = "error"
    BY DEF UsersParser
  <2> QED
    BY <1>2, <1>3, <2>1, <2>2
<1>4. CASE n # "X00"
  <2> HIDE DEF p
  <2>1. credentials_feed(p, n)
          = [p EXCEPT !.uname = n, !.state = IF p.cmd = "X01" THEN "done" ELSE "passwd"]
    BY <1>1, <1>4 DEF credentials_feed
  <2> USE DEF p
  <2>2. CASE c = "X01"
    <3>1. credentials_feed(p, n) = [p EXCEPT !.uname = n, !.state = "done"]
      BY <1>1, <2>1, <2>2
    <3> QED
      BY <1>2, <1>4, <2>2, <3>1 DEF UsersParser
  <2>3. CASE c # "X01"
    <3>1. credentials_feed(p, n) = [p EXCEPT !.uname = n, !.state = "passwd"]
      BY <1>1, <2>1, <2>3
    <3> QED
      BY <1>2, <1>4, <2>3, <3>1 DEF UsersParser
  <2> QED
    BY <2>2, <2>3
<1> QED
  BY <1>3, <1>4

\* The password.
LEMMA PasswordFed ==
  ASSUME NEW c, NEW a, NEW n, NEW w
  PROVE  /\ w = "X00" => feed(UsersParser("passwd", c, a, n, Blank), w).state = "error"
         /\ w # "X00" =>
              feed(UsersParser("passwd", c, a, n, Blank), w) = UsersParser("done", c, a, n, w)
<1> DEFINE p == UsersParser("passwd", c, a, n, Blank)
<1>1. p.state = "passwd"
  BY DEF UsersParser
<1>2. feed(p, w) = credentials_feed(p, w)
  <2>1. p.state \in {"uname", "passwd"}
    BY <1>1
  <2> HIDE DEF p
  <2> QED
    BY <2>1, CredentialsNext
<1>3. CASE w = "X00"
  <2>1. credentials_feed(p, w) = [p EXCEPT !.state = "error"]
    BY <1>3 DEF credentials_feed
  <2>2. [p EXCEPT !.state = "error"].state = "error"
    BY DEF UsersParser
  <2> QED
    BY <1>2, <1>3, <2>1, <2>2
<1>4. CASE w # "X00"
  <2>1. credentials_feed(p, w) = [p EXCEPT !.passwd = w, !.state = "done"]
    <3> HIDE DEF p
    <3> QED
      BY <1>1, <1>4 DEF credentials_feed
  <2> QED
    BY <1>2, <1>4, <2>1 DEF UsersParser
<1> QED
  BY <1>3, <1>4

\* The parser has refused its message.
Refused(p) == p.state = "error"

\* A name and a password that are accepted are not empty.
LEMMA AcceptedNotEmpty ==
  ASSUME NEW c, NEW a, NEW n, NEW w
  PROVE  /\ ~Refused(feed(UsersParser("uname", c, a, Blank, Blank), n)) => n # "X00"
         /\ ~Refused(feed(UsersParser("passwd", c, a, n, Blank), w)) => w # "X00"
<1>1. n = "X00" => Refused(feed(UsersParser("uname", c, a, Blank, Blank), n))
  BY NameFed DEF Refused
<1>2. w = "X00" => Refused(feed(UsersParser("passwd", c, a, n, Blank), w))
  BY PasswordFed DEF Refused
<1> QED
  BY <1>1, <1>2

\* The two last fields of a message.
LEMMA LastTwo ==
  \A j \in Nat : /\ j + 1 \in 1..(j + 2) /\ j + 2 \in 1..(j + 2)
                 /\ (j + 1) - 1 = j /\ (j + 2) - 1 = j + 1
  OBVIOUS

\* Those parsers have not ended.
LEMMA UsersGoOn ==
  ASSUME NEW state \in {"cmd_user", "admin", "uname", "passwd"}, NEW c, NEW a, NEW n, NEW w,
         NEW p, p = UsersParser(state, c, a, n, w)
  PROVE  ~is_done(p)
<1>1. p.state = state
  BY DEF UsersParser
<1> QED
  BY <1>1 DEF is_done

\* Messages are commands.
LEMMA OptionsAreCommands ==
  ASSUME NEW msg \in Options
  PROVE  msg \in Commands /\ msg \in Seq(Field) /\ msg \in Heads("type")
<1>1. msg \in Commands
  BY ConsoleAssumption
<1> QED
  BY <1>1, Messages DEF Heads

\* The parser of a message, field by field.
LEMMA Fed ==
  ASSUME NEW msg \in Options
  PROVE  LET run == Runs(ParserInit("type"), msg)
         IN  /\ run[0] = ParserInit("type") /\ ~is_done(run[0])
             /\ \A k \in 1..Len(msg) : ~is_done(run[k - 1]) => run[k] = feed(run[k - 1], msg[k])
             /\ \A k \in 1..Len(msg) : run[k - 1].state = "error" => run[k].state = "error"
             /\ run[Len(msg)] = End("type", msg)
<1> DEFINE run == Runs(ParserInit("type"), msg)
<1>1. msg \in Seq(Field)
  BY OptionsAreCommands
<1>2. /\ run[0] = ParserInit("type")
      /\ \A k \in 1..Len(msg) : run[k] = IF is_done(run[k - 1]) THEN run[k - 1]
                                         ELSE feed(run[k - 1], msg[k])
  BY <1>1, RunsStep
<1>3. ~is_done(ParserInit("type"))
  BY ParserStarts
<1>4. run[Len(msg)] = End("type", msg)
  BY DEF End
<1> HIDE DEF run
<1>5. \A k \in 1..Len(msg) : run[k - 1].state = "error" => run[k].state = "error"
  BY <1>2 DEF is_done
<1> QED
  BY <1>2, <1>3, <1>4, <1>5 DEF run

\* A message that asks for a change starts a parser of its command.
LEMMA CommandFed ==
  ASSUME NEW msg \in Options, Len(msg) >= 3, msg[1] = "X01", msg[2] \in {"X00", "X01", "X02"},
         msg[2] = "X00" => msg[3] \in {"X00", "X01"}
  PROVE  LET run == Runs(ParserInit("type"), msg)
         IN  /\ msg[2] # "X00" => run[2] = UsersParser("uname", msg[2], "X00", Blank, Blank)
             /\ msg[2] = "X00" => run[3] = UsersParser("uname", "X00", msg[3], Blank, Blank)
<1> DEFINE run == Runs(ParserInit("type"), msg)
<1>1. /\ run[0] = ParserInit("type") /\ ~is_done(run[0])
      /\ \A k \in 1..Len(msg) : ~is_done(run[k - 1]) => run[k] = feed(run[k - 1], msg[k])
  BY Fed
<1> HIDE DEF run
<1>2. Len(msg) \in Nat
  BY OptionsAreCommands
<1>3. run[1] = UsersParser("cmd_user", "X00", "X00", Blank, Blank)
  <2>1. 1 \in 1..Len(msg) /\ 1 - 1 = 0
    BY <1>2
  <2>2. run[1] = feed(run[0], msg[1])
    BY <1>1, <2>1
  <2> QED
    BY <1>1, <2>2, UsersFed
<1>4. run[2] = feed(run[1], msg[2])
  <2>1. 2 \in 1..Len(msg) /\ 2 - 1 = 1
    BY <1>2
  <2>2. ~is_done(run[1])
    BY <1>3, UsersGoOn
  <2> QED
    BY <1>1, <2>1, <2>2
<1>5. CASE msg[2] # "X00"
  <2>1. run[2] = UsersParser("uname", msg[2], "X00", Blank, Blank)
    BY <1>3, <1>4, <1>5, UsersFed
  <2> QED
    BY <1>5, <2>1 DEF run
<1>6. CASE msg[2] = "X00"
  <2>1. run[2] = UsersParser("admin", "X00", "X00", Blank, Blank)
    BY <1>3, <1>4, <1>6, UsersFed
  <2>2. ~is_done(run[2])
    BY <2>1, UsersGoOn
  <2>3. run[3] = feed(run[2], msg[3])
    <3>1. 3 \in 1..Len(msg) /\ 3 - 1 = 2
      BY <1>2
    <3> QED
      BY <1>1, <2>2, <3>1
  <2>4. run[3] = UsersParser("uname", "X00", msg[3], Blank, Blank)
    BY <1>6, <2>1, <2>3, UsersFed
  <2> QED
    BY <1>6, <2>4 DEF run
<1> QED
  BY <1>5, <1>6

\* The name and the password, which end a message whose parser waits for them.
LEMMA CredentialsFed ==
  ASSUME NEW msg \in Options, NEW j \in Nat, NEW c \in {"X00", "X02"}, NEW a,
         Runs(ParserInit("type"), msg)[j] = UsersParser("uname", c, a, Blank, Blank),
         Len(msg) = j + 2, End("type", msg).state # "error"
  PROVE  End("type", msg) = UsersParser("done", c, a, msg[j + 1], msg[j + 2])
<1> DEFINE run == Runs(ParserInit("type"), msg)
<1>1. /\ \A k \in 1..Len(msg) : ~is_done(run[k - 1]) => run[k] = feed(run[k - 1], msg[k])
      /\ \A k \in 1..Len(msg) : run[k - 1].state = "error" => run[k].state = "error"
      /\ run[Len(msg)] = End("type", msg)
  BY Fed
<1>2. run[j] = UsersParser("uname", c, a, Blank, Blank)
  OBVIOUS
<1> HIDE DEF run
<1>3. /\ j + 1 \in 1..Len(msg) /\ j + 2 \in 1..Len(msg)
      /\ (j + 1) - 1 = j /\ (j + 2) - 1 = j + 1
  BY LastTwo
<1>4. ~is_done(run[j])
  BY <1>2, UsersGoOn
<1>5. run[j + 1] = feed(run[j], msg[j + 1])
  BY <1>1, <1>3, <1>4
<1>6. ~Refused(run[j + 2]) /\ ~Refused(run[j + 1])
  BY <1>1, <1>3 DEF Refused
<1> DEFINE n == msg[j + 1]
           w == msg[j + 2]
<1> HIDE DEF n, w
<1>7. n # "X00" /\ c # "X01"
  <2>1. run[j + 1] = feed(UsersParser("uname", c, a, Blank, Blank), n)
    BY <1>2, <1>5 DEF n
  <2>2. n # "X00"
    BY <1>6, <2>1, AcceptedNotEmpty
  <2> QED
    BY <2>2
<1>8. run[j + 1] = UsersParser("passwd", c, a, n, Blank)
  <2>1. run[j + 1] = feed(UsersParser("uname", c, a, Blank, Blank), n)
    BY <1>2, <1>5 DEF n
  <2> QED
    BY <1>7, <2>1, NameFed
<1>9. run[j + 2] = feed(run[j + 1], w)
  <2>1. ~is_done(run[j + 1])
    BY <1>8, UsersGoOn
  <2> QED
    BY <1>1, <1>3, <2>1 DEF w
<1>10. run[j + 2] = UsersParser("done", c, a, n, w)
  <2>1. run[j + 2] = feed(UsersParser("passwd", c, a, n, Blank), w)
    BY <1>8, <1>9
  <2>2. w # "X00"
    BY <1>6, <2>1, AcceptedNotEmpty
  <2> QED
    BY <2>1, <2>2, PasswordFed
<1> QED
  BY <1>1, <1>10 DEF n, w

\* A creation that is accepted has its name, password and flag in the parser.
LEMMA CreationIsParsed ==
  ASSUME NEW admin \in BOOLEAN, NEW n \in Names, NEW w \in Passwords,
         End("type", add_new_user(admin, n, w)).state # "error"
  PROVE  End("type", add_new_user(admin, n, w))
           = UsersParser("done", "X00", IF admin THEN "X01" ELSE "X00", n, w)
<1> DEFINE a == IF admin THEN "X01" ELSE "X00"
           msg == add_new_user(admin, n, w)
<1>1. msg = <<"X01", "X00", a, n, w>> /\ a \in {"X00", "X01"}
  BY DEF add_new_user
<1>2. msg \in Options
  BY DEF Options, user_messages
<1>3. End("type", msg).state # "error"
  OBVIOUS
<1> HIDE DEF a, msg
<1>4. /\ Len(msg) = 5 /\ msg[1] = "X01" /\ msg[2] = "X00" /\ msg[3] = a /\ msg[4] = n /\ msg[5] = w
  BY <1>1
<1>5. Runs(ParserInit("type"), msg)[3] = UsersParser("uname", "X00", a, Blank, Blank)
  <2>1. /\ Len(msg) >= 3 /\ msg[2] \in {"X00", "X01", "X02"}
        /\ msg[2] = "X00" => msg[3] \in {"X00", "X01"}
    BY <1>1, <1>4
  <2> QED
    BY <1>2, <1>4, <2>1, CommandFed
<1>6. End("type", msg) = UsersParser("done", "X00", a, msg[3 + 1], msg[3 + 2])
  <2>1. "X00" \in {"X00", "X02"} /\ 3 \in Nat /\ Len(msg) = 3 + 2
    BY <1>4
  <2> QED
    BY <1>2, <1>3, <1>5, <2>1, CredentialsFed
<1> QED
  BY <1>4, <1>6 DEF msg, a

\* A removal has its name there.
LEMMA RemovalIsParsed ==
  ASSUME NEW n \in Names, End("type", remove_user(n)).state # "error"
  PROVE  End("type", remove_user(n)) = UsersParser("done", "X01", "X00", n, Blank)
<1> DEFINE msg == remove_user(n)
           run == Runs(ParserInit("type"), msg)
<1>1. msg = <<"X01", "X01", n>>
  BY DEF remove_user
<1>2. msg \in Options
  BY DEF Options, user_messages
<1>3. End("type", msg).state # "error"
  OBVIOUS
<1> HIDE DEF msg
<1>4. Len(msg) = 3 /\ msg[1] = "X01" /\ msg[2] = "X01" /\ msg[3] = n
  BY <1>1
<1>5. run[2] = UsersParser("uname", "X01", "X00", Blank, Blank)
  <2>1. /\ Len(msg) >= 3 /\ msg[2] \in {"X00", "X01", "X02"} /\ msg[2] # "X00"
    BY <1>4
  <2> QED
    BY <1>2, <1>4, <2>1, CommandFed
<1>6. run[3] = feed(run[2], msg[3]) /\ run[3] = End("type", msg)
  <2>1. ~is_done(run[2])
    BY <1>5, UsersGoOn
  <2>2. /\ \A k \in 1..Len(msg) : ~is_done(run[k - 1]) => run[k] = feed(run[k - 1], msg[k])
        /\ run[Len(msg)] = End("type", msg)
    BY <1>2, Fed
  <2> HIDE DEF run
  <2>3. 3 \in 1..Len(msg) /\ 3 - 1 = 2
    BY <1>4
  <2> QED
    BY <1>4, <2>1, <2>2, <2>3
<1> HIDE DEF run
<1>7. run[3] = feed(UsersParser("uname", "X01", "X00", Blank, Blank), n)
  BY <1>4, <1>5, <1>6
<1>8. n # "X00"
  <2>1. ~Refused(run[3])
    BY <1>3, <1>6 DEF Refused
  <2> QED
    BY <1>7, <2>1, AcceptedNotEmpty
<1>9. run[3] = UsersParser("done", "X01", "X00", n, Blank)
  BY <1>7, <1>8, NameFed
<1> QED
  BY <1>6, <1>9 DEF msg

\* A modification has its name and the new password there.
LEMMA ModificationIsParsed ==
  ASSUME NEW n \in Names, NEW w \in Passwords, End("type", modify_message(n, w)).state # "error"
  PROVE  End("type", modify_message(n, w)) = UsersParser("done", "X02", "X00", n, w)
<1> DEFINE msg == modify_message(n, w)
<1>1. msg = <<"X01", "X02", n, w>>
  BY DEF modify_message
<1>2. msg \in Options
  BY DEF Options, user_messages
<1>3. End("type", msg).state # "error"
  OBVIOUS
<1> HIDE DEF msg
<1>4. Len(msg) = 4 /\ msg[1] = "X01" /\ msg[2] = "X02" /\ msg[3] = n /\ msg[4] = w
  BY <1>1
<1>5. Runs(ParserInit("type"), msg)[2] = UsersParser("uname", "X02", "X00", Blank, Blank)
  <2>1. /\ Len(msg) >= 3 /\ msg[2] \in {"X00", "X01", "X02"} /\ msg[2] # "X00"
    BY <1>4
  <2> QED
    BY <1>2, <1>4, <2>1, CommandFed
<1>6. End("type", msg) = UsersParser("done", "X02", "X00", msg[2 + 1], msg[2 + 2])
  <2>1. "X02" \in {"X00", "X02"} /\ 2 \in Nat /\ Len(msg) = 2 + 2
    BY <1>4
  <2> QED
    BY <1>2, <1>3, <1>5, <2>1, CredentialsFed
<1> QED
  BY <1>4, <1>6 DEF msg
-----------------------------------------------------------------------------
(* What the server does with a USERS command of the client.                *)

\* The outcome o is true to the command msg.
TrueTo(msg, o) ==
  /\ o.ok \in BOOLEAN
  /\ o.ok => AsAsked(msg, o.users.list)
  /\ ~o.ok => o.users = users

\* What is typed are fields.
LEMMA TypedAreFields ==
  ASSUME NEW n \in Names, NEW w \in Passwords
  PROVE  n \in Field /\ w \in Field
<1>1. modify_message(n, w) \in Options
  BY DEF Options, user_messages
<1>2. modify_message(n, w) \in Seq(Field)
  BY <1>1, OptionsAreCommands
<1>3. <<"X01", "X02", n, w>> \in Seq(Field)
  BY <1>2 DEF modify_message
<1>4. n = <<"X01", "X02", n, w>>[3] /\ w = <<"X01", "X02", n, w>>[4]
      /\ Len(<<"X01", "X02", n, w>>) = 4
  OBVIOUS
<1>5. \A s \in Seq(Field) : \A i \in 1..Len(s) : s[i] \in Field
  OBVIOUS
<1>6. 3 \in 1..4 /\ 4 \in 1..4
  OBVIOUS
<1> QED
  BY <1>3, <1>4, <1>5, <1>6

\* create_user appends the account, or finds one of that name.
LEMMA CreationIsTrue ==
  ASSUME Listed(users), NEW admin \in BOOLEAN, NEW n, NEW w,
         NEW o \in Outcomes(UsersParser("done", "X00", IF admin THEN "X01" ELSE "X00", n, w))
  PROVE  TrueTo(add_new_user(admin, n, w), o)
<1> DEFINE a == IF admin THEN "X01" ELSE "X00"
           p == UsersParser("done", "X00", a, n, w)
           msg == add_new_user(admin, n, w)
<1>1. p.cmd = "X00" /\ p.admin = a /\ p.uname = n /\ p.passwd = w
  BY DEF UsersParser
<1>2. /\ msg[2] = "X00" /\ msg[3] = a /\ msg[4] = n /\ msg[5] = w
      /\ (a # "X00") = (a = "X01")
  BY DEF add_new_user
<1>3. o \in create_user(p)
  <2>1. o \in Outcomes(p)
    OBVIOUS
  <2> HIDE DEF p
  <2> QED
    BY <1>1, <2>1 DEF Outcomes
<1> HIDE DEF a, p, msg
<1>4. PICK b \in Nul, q \in Nul :
        o = [users |-> add_user(users, [name |-> n, pass |-> w, admin |-> a # "X00",
                                        unul |-> b, pnul |-> q]),
             ok |-> Position(users, n) = 0]
  BY <1>1, <1>3 DEF create_user
<1> DEFINE user == [name |-> n, pass |-> w, admin |-> a # "X00", unul |-> b, pnul |-> q]
           v == add_user(users, user)
<1>5. user.name = n /\ user.pass = w /\ user.admin = (a = "X01")
  BY <1>2
<1>6. o.users = v /\ o.ok = (Position(users, n) = 0) /\ o.ok \in BOOLEAN
  BY <1>4
<1> HIDE DEF user
<1>7. CASE Position(users, n) = 0
  <2>1. v = [list |-> Append(users.list, user), size |-> users.size + 1]
    BY <1>5, <1>7 DEF add_user
  <2>2. v.list = Append(users.list, user)
    BY <2>1
  <2>3. \E i \in DOMAIN v.list : v.list[i] = user
    <3>1. PICK l \in Seq(User) : l = users.list
      BY ListedIs
    <3>2. Len(l) + 1 \in DOMAIN Append(l, user) /\ Append(l, user)[Len(l) + 1] = user
      OBVIOUS
    <3> QED
      BY <2>2, <3>1, <3>2
  <2> HIDE DEF v
  <2>4. AsAsked(msg, v.list)
    <3>1. \E i \in DOMAIN v.list : /\ v.list[i].name = msg[4] /\ v.list[i].pass = msg[5]
                                   /\ v.list[i].admin = (msg[3] = "X01")
      BY <1>2, <1>5, <2>3
    <3> QED
      BY <1>2, <3>1 DEF AsAsked
  <2> QED
    BY <1>6, <1>7, <2>4 DEF TrueTo, msg
<1>8. CASE Position(users, n) # 0
  <2>1. v = users
    BY <1>5, <1>8 DEF add_user
  <2> QED
    BY <1>6, <1>8, <2>1 DEF TrueTo
<1> QED
  BY <1>7, <1>8

\* del_user takes the account out, and there is no other that is found under
\* that name, or finds none.
LEMMA RemovalIsTrue ==
  ASSUME Listed(users), NEW n,
         NEW o \in Outcomes(UsersParser("done", "X01", "X00", n, Blank))
  PROVE  TrueTo(remove_user(n), o)
<1> DEFINE p == UsersParser("done", "X01", "X00", n, Blank)
           msg == remove_user(n)
           v == delete_user(users, n)
           at == Position(users, n)
           m == Len(users.list)
<1>1. p.cmd = "X01" /\ p.uname = n
  BY DEF UsersParser
<1>2. msg[2] = "X01" /\ msg[3] = n
  BY DEF remove_user
<1>3. o = [users |-> v, ok |-> at # 0]
  <2>1. o \in Outcomes(p)
    OBVIOUS
  <2> HIDE DEF p
  <2> QED
    BY <1>1, <2>1 DEF Outcomes, del_user
<1> HIDE DEF v
<1>4. o.users = v /\ o.ok = (at # 0) /\ o.ok \in BOOLEAN
  BY <1>3
<1> HIDE DEF msg
<1>5. CASE at # 0
  <2>1. /\ Len(v.list) = m - 1 /\ v.list \in Seq(User)
        /\ \A i \in 1..(m - 1) : v.list[i] = users.list[IF i < at THEN i ELSE i + 1]
    BY <1>5, DeleteIs DEF v
  <2>2. at \in 1..m /\ SameName(users.list[at], n) /\ m \in Nat
    BY <1>5, PositionIs, ListedIs
  <2>3. \A i, j \in 1..m :
          users.list[i].unul /\ users.list[j].unul /\ i # j => users.list[i].name # users.list[j].name
    BY DEF Listed
  <2>4. DOMAIN v.list = 1..(m - 1)
    BY <2>1
  <2> HIDE DEF at, m
  <2>5. ASSUME NEW i \in 1..(m - 1), SameName(v.list[i], n)
        PROVE  FALSE
    <3>1. PICK j \in 1..m : j # at /\ v.list[i] = users.list[j]
      <4>1. CASE i < at
        <5>1. i \in 1..m /\ i # at /\ v.list[i] = users.list[i]
          BY <2>1, <2>2, <4>1
        <5> QED
          BY <5>1
      <4>2. CASE ~(i < at)
        <5>1. i + 1 \in 1..m /\ i + 1 # at /\ v.list[i] = users.list[i + 1]
          BY <2>1, <2>2, <4>2
        <5> QED
          BY <5>1
      <4> QED
        BY <4>1, <4>2
    <3>2. SameName(users.list[j], n)
      BY <2>5, <3>1
    <3> QED
      BY <2>2, <2>3, <3>1, <3>2 DEF SameName
  <2>6. AsAsked(msg, v.list)
    <3>1. \A i \in DOMAIN v.list : ~SameName(v.list[i], msg[3])
      BY <1>2, <2>4, <2>5
    <3> QED
      BY <1>2, <3>1 DEF AsAsked
  <2> QED
    BY <1>4, <1>5, <2>6 DEF TrueTo, msg, at
<1>6. CASE at = 0
  <2>1. v = users
    BY <1>6 DEF v, delete_user
  <2> QED
    BY <1>4, <1>6, <2>1 DEF TrueTo
<1> QED
  BY <1>5, <1>6

\* modify_user gives the account found the password, or finds none.
LEMMA ModificationIsTrue ==
  ASSUME Listed(users), NEW n, NEW w \in Word,
         NEW o \in Outcomes(UsersParser("done", "X02", "X00", n, w))
  PROVE  TrueTo(modify_message(n, w), o)
<1> DEFINE p == UsersParser("done", "X02", "X00", n, w)
           msg == modify_message(n, w)
           v == edit_user(users, n, w)
           at == Position(users, n)
<1>1. p.cmd = "X02" /\ p.uname = n /\ p.passwd = w
  BY DEF UsersParser
<1>2. msg[2] = "X02" /\ msg[3] = n /\ msg[4] = w
  BY DEF modify_message
<1>3. o = [users |-> v, ok |-> at # 0]
  <2>1. o \in Outcomes(p)
    OBVIOUS
  <2> HIDE DEF p
  <2> QED
    BY <1>1, <2>1 DEF Outcomes, modify_user
<1> HIDE DEF v
<1>4. o.users = v /\ o.ok = (at # 0) /\ o.ok \in BOOLEAN
  BY <1>3
<1> HIDE DEF msg
<1>5. CASE at # 0
  <2>1. /\ Len(v.list) = Len(users.list) /\ v.list \in Seq(User)
        /\ \A i \in 1..Len(users.list) :
             v.list[i] = IF i = at THEN Edited(users.list[i], w) ELSE users.list[i]
    BY <1>5, EditIs DEF v
  <2>2. /\ at \in 1..Len(users.list) /\ SameName(users.list[at], n)
        /\ users.list[at] \in User
    BY <1>5, PositionIs, ListedIs
  <2>3. at \in DOMAIN v.list /\ v.list[at] = Edited(users.list[at], w)
    BY <2>1, <2>2
  <2>4. SameName(v.list[at], n) /\ v.list[at].pass = w
    BY <2>2, <2>3, EditedIs DEF SameName
  <2>5. AsAsked(msg, v.list)
    <3>1. \E i \in DOMAIN v.list : SameName(v.list[i], msg[3]) /\ v.list[i].pass = msg[4]
      BY <1>2, <2>3, <2>4
    <3> QED
      BY <1>2, <3>1 DEF AsAsked
  <2> QED
    BY <1>4, <1>5, <2>5 DEF TrueTo, msg
<1>6. CASE at = 0
  <2>1. v = users
    BY <1>6 DEF v, edit_user
  <2> QED
    BY <1>4, <1>6, <2>1 DEF TrueTo
<1> QED
  BY <1>5, <1>6
\* What is told of a command is what it did.
Truthful(effect, status) ==
  (status = "success" => effect.asked) /\ (status = "user_credentia" => ~effect.changed)

\* Whatever the client sees of a command.
Effects == [asked : BOOLEAN, changed : BOOLEAN]

\* What is in the accounts is so or not.
LEMMA AsAskedIs ==
  ASSUME NEW msg, msg[2] \in {"X00", "X01", "X02"}, NEW list
  PROVE  AsAsked(msg, list) \in BOOLEAN
  BY DEF AsAsked

\* The answer to a USERS command of the client tells what the command did.
LEMMA AnswerIsTrue ==
  ASSUME Listed(users), NEW msg \in user_messages, NEW status, NEW n,
         Gives(End("type", msg), status, n)
  PROVE  /\ End("type", msg).type = "X01"
         /\ Effect(msg) \in Effects /\ Truthful(Effect(msg), status)
<1> DEFINE p == End("type", msg)
<1>1. /\ msg[1] = "X01" /\ msg[2] \in {"X00", "X01", "X02"}
      /\ p.type = "X01" => \A o \in Outcomes(p) : TrueTo(msg, o)
      /\ p.type = "X01"
  <2>1. p.state # "error"
    BY DEF Gives
  <2>2. CASE \E admin \in BOOLEAN, k \in Names, w \in Passwords : msg = add_new_user(admin, k, w)
    <3>1. PICK admin \in BOOLEAN, k \in Names, w \in Passwords : msg = add_new_user(admin, k, w)
      BY <2>2
    <3>2. p = UsersParser("done", "X00", IF admin THEN "X01" ELSE "X00", k, w)
      BY <2>1, <3>1, CreationIsParsed
    <3>3. msg[1] = "X01" /\ msg[2] = "X00"
      BY <3>1 DEF add_new_user
    <3>4. p.type = "X01"
      BY <3>2 DEF UsersParser
    <3> HIDE DEF p
    <3>5. \A o \in Outcomes(p) : TrueTo(msg, o)
      BY <3>1, <3>2, CreationIsTrue
    <3> QED
      BY <3>3, <3>4, <3>5
  <2>3. CASE \E k \in Names : msg = remove_user(k)
    <3>1. PICK k \in Names : msg = remove_user(k)
      BY <2>3
    <3>2. p = UsersParser("done", "X01", "X00", k, Blank)
      BY <2>1, <3>1, RemovalIsParsed
    <3>3. msg[1] = "X01" /\ msg[2] = "X01"
      BY <3>1 DEF remove_user
    <3>4. p.type = "X01"
      BY <3>2 DEF UsersParser
    <3> HIDE DEF p
    <3>5. \A o \in Outcomes(p) : TrueTo(msg, o)
      BY <3>1, <3>2, RemovalIsTrue
    <3> QED
      BY <3>3, <3>4, <3>5
  <2>4. CASE \E k \in Names, w \in Passwords : msg = modify_message(k, w)
    <3>1. PICK k \in Names, w \in Passwords : msg = modify_message(k, w)
      BY <2>4
    <3>2. p = UsersParser("done", "X02", "X00", k, w)
      BY <2>1, <3>1, ModificationIsParsed
    <3>3. msg[1] = "X01" /\ msg[2] = "X02"
      BY <3>1 DEF modify_message
    <3>4. p.type = "X01"
      BY <3>2 DEF UsersParser
    <3>5. w \in Word
      BY TypedAreFields DEF Word
    <3> HIDE DEF p
    <3>6. \A o \in Outcomes(p) : TrueTo(msg, o)
      BY <3>1, <3>2, <3>5, ModificationIsTrue
    <3> QED
      BY <3>3, <3>4, <3>6
  <2> QED
    BY <2>2, <2>3, <2>4 DEF user_messages
<1> HIDE DEF p
<1>2. PICK o \in Outcomes(p) : users' = o.users /\ status = IF o.ok THEN "success" ELSE "user_credentia"
  BY <1>1 DEF Gives, p
<1>3. TrueTo(msg, o)
  BY <1>1, <1>2
<1> DEFINE asked == AsAsked(msg, users'.list)
           changed == users' # users
<1>4. Effect(msg) = [asked |-> asked, changed |-> changed]
  BY <1>1 DEF Effect
<1>5. asked \in BOOLEAN /\ changed \in BOOLEAN
  BY <1>1, AsAskedIs
<1>6. (o.ok => asked) /\ (~o.ok => ~changed) /\ o.ok \in BOOLEAN
  BY <1>2, <1>3 DEF TrueTo
<1> HIDE DEF asked, changed
<1>7. Effect(msg) \in Effects /\ Effect(msg).asked = asked /\ Effect(msg).changed = changed
  BY <1>4, <1>5 DEF Effects
<1>8. (status = "success" => asked) /\ (status = "user_credentia" => ~changed)
  BY <1>2, <1>6
<1> QED
  BY <1>1, <1>7, <1>8 DEF Truthful, p

\* How a GET command and QUIT end in the parser.
LEMMA OthersParsed ==
  ASSUME NEW msg
  PROVE  /\ msg = <<"X03">> => End("type", msg).type = "X03"
         /\ msg = <<"X00", "X00">> => End("type", msg).type = "X00" /\ End("type", msg).cmd = "X00"
         /\ msg = <<"X00", "X03">> => End("type", msg).type = "X00" /\ End("type", msg).cmd = "X03"
<1> DEFINE run == Runs(ParserInit("type"), msg)
           p == feed(ParserInit("type"), "X00")
<1>1. CASE msg = <<"X03">>
  <2>1. msg \in Options /\ Len(msg) = 1 /\ msg[1] = "X03" /\ 1 \in 1..1 /\ 1 - 1 = 0
    BY <1>1 DEF Options
  <2>2. feed(ParserInit("type"), "X03").type = "X03"
    BY DEF feed, prawtos_parser_feed, ParserInit
  <2>3. run[1] = feed(ParserInit("type"), "X03") /\ run[1] = End("type", msg)
    BY <2>1, Fed
  <2> QED
    BY <1>1, <2>2, <2>3
<1>2. p.state = "cmd_get" /\ p.type = "X00"
  BY DEF feed, prawtos_parser_feed, ParserInit
<1>3. ASSUME NEW c \in {"X00", "X03"}
      PROVE  feed(p, c).type = "X00" /\ feed(p, c).cmd = c
  <2>1. p = [state |-> "cmd_get", type |-> "X00", cmd |-> "X00", admin |-> "X00",
             uname |-> Blank, passwd |-> Blank]
    BY DEF feed, prawtos_parser_feed, ParserInit, Blank
  <2> HIDE DEF p
  <2>2. feed(p, c) = [p EXCEPT !.cmd = c, !.state = "done"]
    BY <1>2 DEF feed, prawtos_parser_feed
  <2> QED
    BY <2>1, <2>2
<1>4. ASSUME NEW c \in {"X00", "X03"}, msg = <<"X00", c>>
      PROVE  End("type", msg).type = "X00" /\ End("type", msg).cmd = c
  <2>1. /\ msg \in Options /\ Len(msg) = 2 /\ msg[1] = "X00" /\ msg[2] = c
        /\ 1 \in 1..2 /\ 2 \in 1..2 /\ 1 - 1 = 0 /\ 2 - 1 = 1
    BY <1>4 DEF Options
  <2>2. run[1] = p
    BY <2>1, Fed
  <2>3. ~is_done(p)
    BY <1>2 DEF is_done
  <2>4. run[2] = feed(run[1], c) /\ run[2] = End("type", msg)
    BY <2>1, <2>2, <2>3, Fed
  <2> QED
    BY <1>3, <2>2, <2>4
<1> QED
  BY <1>1, <1>4
-----------------------------------------------------------------------------
(* The inductive invariant.                                                *)

\* The start of the parser that reads what the client sent before pc.
First(pc) == IF pc = "login_answer" THEN "version" ELSE "type"

\* What it sent.
Sendable(pc) ==
  CASE pc = "login_answer"    -> login_messages
    [] pc = "user_answer"     -> user_messages
    [] pc = "get_answer"      -> {<<"X00", "X00">>, <<"X00", "X03">>}
    [] pc = "get_other_users" -> {<<"X00", "X03">>}
    [] pc = "quit_answer"     -> {<<"X03">>}

\* a is the beginning of an answer to the command the client waits for.
Fits(c, a) ==
  /\ a # <<>>
  /\ c.pc = "user_answer" => Truthful(c.effect, a[1][2])
  /\ c.pc = "get_answer" => a[1][2] \in Nat /\ (c.asked[2] # "X03" => a[1][2] = 1)

\* How many fields the client counts.
Length(c, a) == CASE c.pc = "login_answer"    -> 2
                  [] c.pc = "get_answer"      -> 1 + a[1][2]
                  [] c.pc = "get_other_users" -> c.left
                  [] OTHER                    -> 1

\* a is the answer, or what is left of it after a part was read; or less.
Whole(c, a) == Fits(c, a) /\ Len(a) = Length(c, a)
Cut(c, a) == a = <<>> \/ (Fits(c, a) /\ Len(a) <= Length(c, a))

\* The server waits for a command and none is on its way.
Idle(s) == s.st = "CMD_READ" /\ s.parser = ParserInit("type") /\ Stream(s) = <<>>

\* The message is not answered yet.
Waits(c, s) ==
  /\ c.pc # "get_other_users" /\ Listens(First(c.pc), s, c.asked)
  /\ c.reply = <<>> /\ c.pending = <<>>

\* The answer is partly in the server's buffer, or all of it was sent.
Gets(c, s) ==
  /\ Whole(c, c.reply \o c.pending)
  /\ c.pending = <<>> => Idle(s)
  /\ c.pending # <<>> => s.st \in Writing /\ Stream(s) = <<>>

\* The client c and its session s.
Exchange(c, s) ==
  /\ s.gone = FALSE
  /\ Len(c.pending) = buffer_read_avail(s.write_buffer)
  /\ c.pc = "first_message" => s.st = "AUTH_READ" /\ s.greeted = FALSE
  /\ c.pc = "options" => Idle(s)
  /\ c.pc \in Awaiting => Waits(c, s) \/ Gets(c, s)

\* The client alone; without a connection it may have part of an answer.
Alone(c) ==
  /\ c.fd = NoFd => c.pending = <<>> /\ (c.pc \in Awaiting => Cut(c, c.reply))
  /\ c.pc = "off" => c.fd = NoFd
  /\ c.pc \notin Awaiting => c.pending = <<>> /\ c.reply = <<>>
  /\ c.pc \in Awaiting => c.asked \in Sendable(c.pc)
  /\ c.pc = "get_other_users" => c.left > 0
  /\ c.pc = "options" => Truthful(c.effect, c.told)
  /\ c.pc # "options" => c.told = "none"

\* The types of its fields.
Places == {"off", "first_message", "options"} \cup Awaiting
Descriptors == Manager \cup {NoFd}
Told == {"none", "success", "user_credentia"}

Client ==
  [pc : Places, fd : Descriptors, asked : Seq(Field), pending : Seq(Part), reply : Seq(Part),
   left : Nat, told : Told, effect : Effects]

ConsoleInv ==
  /\ con \in Client /\ Alone(con)
  /\ con.fd # NoFd => con.fd \in Open /\ Exchange(con, mgr[con.fd])

\* The client that is not running.
LEMMA OffIs ==
  /\ Off \in Client /\ Alone(Off) /\ Off.fd = NoFd /\ Off.pc = "off"
  /\ Off.asked = <<>> /\ Off.pending = <<>> /\ Off.reply = <<>> /\ Off.left = 0
  /\ Off.told = "none" /\ Off.effect = [asked |-> FALSE, changed |-> FALSE]
<1>1. /\ Off.fd = NoFd /\ Off.pc = "off"
      /\ Off.asked = <<>> /\ Off.pending = <<>> /\ Off.reply = <<>> /\ Off.left = 0
      /\ Off.told = "none" /\ Off.effect = [asked |-> FALSE, changed |-> FALSE]
  BY DEF Off
<1>2. Off \in Client
  BY DEF Off, Client, Effects, Places, Descriptors, Told
<1>3. Alone(Off)
  BY <1>1 DEF Alone, Awaiting
<1> QED
  BY <1>1, <1>2, <1>3

\* Other fields of the client are as they were.
Now(c, pc, fd, asked, pending, reply, left, told, effect) ==
  [c EXCEPT !.pc = pc, !.fd = fd, !.asked = asked, !.pending = pending, !.reply = reply,
            !.left = left, !.told = told, !.effect = effect]

\* Those that were given are as given.
LEMMA NowIs ==
  ASSUME NEW c \in Client, NEW pc, NEW fd, NEW asked, NEW pending, NEW reply, NEW left,
         NEW told, NEW effect, NEW d, d = Now(c, pc, fd, asked, pending, reply, left, told, effect)
  PROVE  /\ d.pc = pc /\ d.fd = fd /\ d.asked = asked /\ d.pending = pending
         /\ d.reply = reply /\ d.left = left /\ d.told = told /\ d.effect = effect
  BY DEF Now, Client

\* With the right types it is a client.
LEMMA NowTyped ==
  ASSUME NEW c \in Client, NEW pc \in Places, NEW fd \in Descriptors, NEW asked \in Seq(Field),
         NEW pending \in Seq(Part), NEW reply \in Seq(Part), NEW left \in Nat,
         NEW told \in Told, NEW effect \in Effects
  PROVE  Now(c, pc, fd, asked, pending, reply, left, told, effect) \in Client
  BY DEF Now, Client

\* The fields of a client.
LEMMA ClientIs ==
  ASSUME NEW c \in Client
  PROVE  /\ c.pc \in Places /\ c.fd \in Descriptors /\ c.asked \in Seq(Field)
         /\ c.pending \in Seq(Part) /\ c.reply \in Seq(Part) /\ c.left \in Nat
         /\ c.told \in Told /\ c.effect \in Effects
         /\ c = Now(c, c.pc, c.fd, c.asked, c.pending, c.reply, c.left, c.told, c.effect)
  BY DEF Client, Now
-----------------------------------------------------------------------------
(* Answers and parts of answers.                                           *)

\* Two parts of an answer.
LEMMA TwoParts ==
  ASSUME NEW a \in Seq(Part), NEW b \in Seq(Part)
  PROVE  /\ a \o b \in Seq(Part) /\ Len(a \o b) = Len(a) + Len(b)
         /\ Len(a) \in Nat /\ Len(b) \in Nat
         /\ a # <<>> => a \o b # <<>> /\ (a \o b)[1] = a[1] /\ Len(a) >= 1
         /\ a = <<>> => a \o b = b
         /\ b = <<>> => a \o b = a
         /\ (Len(b) = 0) = (b = <<>>)
  OBVIOUS

\* Nothing of an answer.
LEMMA NoPart ==
  ASSUME NEW a \in Seq(Part)
  PROVE  Len(a) \in Nat /\ (Len(a) = 0) = (a = <<>>) /\ (Len(a) \in {1, 2} => a # <<>>)
  OBVIOUS

\* What was received of a whole answer is part of one.
LEMMA WholeIsCut ==
  ASSUME NEW c, NEW a \in Seq(Part), NEW b \in Seq(Part), Whole(c, a \o b)
  PROVE  Cut(c, a)
<1> SUFFICES ASSUME a # <<>>
             PROVE  Fits(c, a) /\ Len(a) <= Length(c, a)
  BY DEF Cut
<1> DEFINE w == a \o b
<1>1. w[1] = a[1] /\ Len(a) <= Len(w) /\ Fits(c, w) /\ Len(w) = Length(c, w)
  BY TwoParts DEF Whole
<1> HIDE DEF w
<1>2. Fits(c, a)
  BY <1>1 DEF Fits
<1>3. Length(c, a) = Length(c, w)
  BY <1>1 DEF Length
<1> QED
  BY <1>1, <1>2, <1>3

\* What the definitions look at of the client.
LEMMA SameExpectation ==
  ASSUME NEW c, NEW d, d.pc = c.pc, d.asked = c.asked, d.left = c.left, d.effect = c.effect,
         NEW a
  PROVE  (Whole(c, a) => Whole(d, a)) /\ (Cut(c, a) => Cut(d, a))
  BY DEF Whole, Cut, Fits, Length

-----------------------------------------------------------------------------
(* Steps that are not the client's.                                        *)

\* The client and its session stay as they are.
LEMMA Unaffected ==
  ASSUME ConsoleInv, con' = con, con.fd # NoFd => mgr'[con.fd] = mgr[con.fd]
  PROVE  ConsoleInv'
<1>1. con' \in Client /\ Alone(con')
  BY DEF ConsoleInv
<1>2. con.fd # NoFd => con.fd \in Open' /\ Exchange(con', mgr'[con'.fd])
  BY DEF ConsoleInv, Open
<1> QED
  BY <1>1, <1>2 DEF ConsoleInv

\* A handler changes its own session only.
LEMMA HandlerTouches ==
  ASSUME Inv, NEW m \in Manager,
         ServerReads(m) \/ auth_prawtos_write(m) \/ cmd_write(m)
  PROVE  \A k \in Manager \ {m} : mgr'[k] = mgr[k]
<1>1. ASSUME NEW st, NEW rec, NEW u, Return(m, st, rec, u)
      PROVE  \E new : mgr' = [mgr EXCEPT ![m] = new]
  BY <1>1 DEF Return
<1>2. ASSUME NEW rec, cmd_process(m, rec)
      PROVE  mgr' = mgr \/ \E new : mgr' = [mgr EXCEPT ![m] = new]
  <2>1. ASSUME NEW n, NEW status, NEW u, Answer(m, rec, n, status, u)
        PROVE  \E new : mgr' = [mgr EXCEPT ![m] = new]
    BY <1>1, <2>1 DEF Answer
  <2>2. ASSUME NEW why, Die(why)
        PROVE  mgr' = mgr
    BY <2>2 DEF Die
  <2>3. get_process(m, rec) \/ users_process(m, rec) \/ Answer(m, rec, 1, "success", users)
          \/ Return(m, "ERROR", rec, users)
    BY <1>2 DEF cmd_process
  <2>4. CASE get_process(m, rec)
    BY <1>1, <2>1, <2>2, <2>4 DEF get_process
  <2>5. CASE users_process(m, rec)
    BY <1>1, <2>1, <2>2, <2>5 DEF users_process
  <2> QED
    BY <1>1, <2>1, <2>3, <2>4, <2>5
<1>3. ASSUME auth_prawtos_read(m)
      PROVE  \E new : mgr' = [mgr EXCEPT ![m] = new]
  BY <1>1, <1>3 DEF auth_prawtos_read
<1>4. ASSUME cmd_read(m)
      PROVE  mgr' = mgr \/ \E new : mgr' = [mgr EXCEPT ![m] = new]
  BY <1>1, <1>2, <1>4 DEF cmd_read
<1>5. ASSUME auth_prawtos_write(m) \/ cmd_write(m)
      PROVE  mgr' = mgr \/ \E new : mgr' = [mgr EXCEPT ![m] = new]
  <2>1. SendFails(m) \/ (\E st, rec, u : Return(m, st, rec, u))
    BY <1>5 DEF auth_prawtos_write, cmd_write, Wrote
  <2> QED
    BY <1>1, <2>1 DEF SendFails, vars
<1>6. mgr' = mgr \/ \E new : mgr' = [mgr EXCEPT ![m] = new]
  BY <1>3, <1>4, <1>5 DEF ServerReads
<1> QED
  BY <1>6 DEF Inv

\* The connection is lost, by the server's end or by that of the session, after
\* so much of the answer was received.
LEMMA ConnectionLost ==
  ASSUME ConsoleInv, NEW reply \in Seq(Part),
         con.pc \in Awaiting => Cut(con, reply), con.pc \notin Awaiting => reply = <<>>,
         con' = Now(con, con.pc, NoFd, con.asked, <<>>, reply, con.left, con.told, con.effect),
         con.fd # NoFd
  PROVE  ConsoleInv'
<1>1. con \in Client /\ Alone(con) /\ <<>> \in Seq(Part) /\ NoFd \in Descriptors
  BY DEF ConsoleInv, Descriptors
<1>2. /\ con' \in Client /\ con'.pc = con.pc /\ con'.fd = NoFd /\ con'.asked = con.asked
      /\ con'.pending = <<>> /\ con'.reply = reply /\ con'.left = con.left
      /\ con'.told = con.told /\ con'.effect = con.effect
  <2>1. /\ con.pc \in Places /\ con.asked \in Seq(Field) /\ con.left \in Nat
        /\ con.told \in Told /\ con.effect \in Effects
    BY <1>1, ClientIs
  <2>2. /\ con'.pc = con.pc /\ con'.fd = NoFd /\ con'.asked = con.asked
        /\ con'.pending = <<>> /\ con'.reply = reply /\ con'.left = con.left
        /\ con'.told = con.told /\ con'.effect = con.effect
    BY <1>1, NowIs
  <2>3. con' \in Client
    BY <1>1, <2>1, NowTyped
  <2> QED
    BY <2>2, <2>3
<1>3. con.pc \in Awaiting => Cut(con', reply)
  BY <1>2, SameExpectation
<1>4. Alone(con')
  BY <1>1, <1>2, <1>3 DEF Alone
<1> QED
  BY <1>2, <1>4 DEF ConsoleInv

\* What was received so far is part of an answer.
LEMMA ReplyIsCut ==
  ASSUME ConsoleInv
  PROVE  /\ con.pc \in Awaiting => Cut(con, con.reply)
         /\ con.pc \notin Awaiting => con.reply = <<>>
         /\ con.reply \in Seq(Part) /\ con.pending \in Seq(Part)
<1>1. con.reply \in Seq(Part) /\ con.pending \in Seq(Part)
  BY ClientIs DEF ConsoleInv
<1>2. ASSUME con.pc \in Awaiting, con.fd # NoFd
      PROVE  Cut(con, con.reply)
  <2>1. Waits(con, mgr[con.fd]) \/ Gets(con, mgr[con.fd])
    BY <1>2 DEF ConsoleInv, Exchange
  <2>2. con.reply = <<>> \/ Whole(con, con.reply \o con.pending)
    BY <2>1 DEF Waits, Gets
  <2> QED
    BY <1>1, <2>2, WholeIsCut DEF Cut
<1> QED
  BY <1>1, <1>2 DEF ConsoleInv, Alone

\* The server serves another client: its process may die.
LEMMA ReadsOtherStep ==
  ASSUME Inv, ConsoleInv, NEW m \in Manager, ReadsOther(m)
  PROVE  ConsoleInv'
<1>1. con.fd # m /\ con.fd \in Manager \cup {NoFd} /\ con \in Client
  BY ClientIs DEF ReadsOther, ConsoleInv, Descriptors
<1>2. con.fd # NoFd => mgr'[con.fd] = mgr[con.fd]
  BY <1>1, HandlerTouches DEF ReadsOther
<1>3. CASE con' = con
  BY <1>2, <1>3, Unaffected
<1>4. CASE con' = [con EXCEPT !.fd = NoFd, !.pending = <<>>]
  <2>1. con' = Now(con, con.pc, NoFd, con.asked, <<>>, con.reply, con.left, con.told, con.effect)
    BY <1>1, <1>4 DEF Now, Client
  <2>2. CASE con.fd # NoFd
    BY <2>1, <2>2, ReplyIsCut, ConnectionLost
  <2>3. CASE con.fd = NoFd
    <3>1. con.pending = <<>>
      BY <2>3 DEF ConsoleInv, Alone
    <3>2. con' = con
      BY <1>1, <2>1, <2>3, <3>1, ClientIs
    <3> QED
      BY <1>2, <3>2, Unaffected
  <2> QED
    BY <2>2, <2>3
<1> QED
  BY <1>3, <1>4 DEF ReadsOther
-----------------------------------------------------------------------------
(* The server reads from the client.                                       *)

\* The connection is closed.
LEMMA SeenClosed ==
  ASSUME con \in Client, NEW m, NEW sent, fault' # "none" \/ mgr'[m].st = "closed"
  PROVE  Seen(m, sent) = Now(con, con.pc, NoFd, con.asked, <<>>,
                             con.reply \o SubSeq(con.pending, 1, sent),
                             con.left, con.told, con.effect)
<1> DEFINE r == con.reply \o SubSeq(con.pending, 1, sent)
<1>1. Seen(m, sent) = [con EXCEPT !.fd = NoFd, !.pending = <<>>, !.reply = r, !.effect = con.effect]
  BY DEF Seen, Client
<1> HIDE DEF r
<1>2. Seen(m, sent) = Now(con, con.pc, NoFd, con.asked, <<>>, r, con.left, con.told, con.effect)
  BY <1>1 DEF Now, Client
<1> QED
  BY <1>2 DEF r

\* An answer is built.
LEMMA SeenBuilt ==
  ASSUME con \in Client, NEW m, NEW sent, fault' = "none", mgr'[m].st # "closed",
         mgr[m].interest = READ, mgr'[m].interest = WRITE
  PROVE  Seen(m, sent) = Now(con, con.pc, con.fd, con.asked, AnswerOf(mgr'[m]),
                             con.reply \o SubSeq(con.pending, 1, sent), con.left, con.told,
                             IF mgr[m].st = "CMD_READ" THEN Effect(con.asked) ELSE con.effect)
<1> DEFINE r == con.reply \o SubSeq(con.pending, 1, sent)
           a == AnswerOf(mgr'[m])
           e == IF mgr[m].st = "CMD_READ" THEN Effect(con.asked) ELSE con.effect
<1>1. Seen(m, sent) = [con EXCEPT !.fd = con.fd, !.pending = a, !.reply = r, !.effect = e]
  BY DEF Seen, Client
<1> HIDE DEF r, a, e
<1>2. Seen(m, sent) = Now(con, con.pc, con.fd, con.asked, a, r, con.left, con.told, e)
  BY <1>1 DEF Now, Client
<1> QED
  BY <1>2 DEF r, a, e

\* Part of an answer goes out, or nothing happens.
LEMMA SeenSent ==
  ASSUME con \in Client, NEW m, NEW sent, fault' = "none", mgr'[m].st # "closed",
         mgr[m].interest # READ \/ mgr'[m].interest # WRITE
  PROVE  Seen(m, sent) = Now(con, con.pc, con.fd, con.asked,
                             SubSeq(con.pending, sent + 1, Len(con.pending)),
                             con.reply \o SubSeq(con.pending, 1, sent), con.left, con.told,
                             con.effect)
<1> DEFINE r == con.reply \o SubSeq(con.pending, 1, sent)
           a == SubSeq(con.pending, sent + 1, Len(con.pending))
<1>1. Seen(m, sent) = [con EXCEPT !.fd = con.fd, !.pending = a, !.reply = r, !.effect = con.effect]
  BY DEF Seen, Client
<1> HIDE DEF r, a
<1>2. Seen(m, sent) = Now(con, con.pc, con.fd, con.asked, a, r, con.left, con.told, con.effect)
  BY <1>1 DEF Now, Client
<1> QED
  BY <1>2 DEF r, a

\* What the client sent is a message, of a login or a command.
LEMMA SendableIs ==
  ASSUME NEW pc \in Awaiting, NEW msg \in Sendable(pc)
  PROVE  /\ msg \in Heads(First(pc)) /\ msg \in Seq(Field) /\ First(pc) \in {"version", "type"}
         /\ pc # "login_answer" => msg \in Options
<1>1. CASE pc = "login_answer"
  <2>1. msg \in login_messages /\ First(pc) = "version"
    BY <1>1 DEF Sendable, First
  <2> QED
    BY <1>1, <2>1, ConsoleAssumption DEF Heads, Greetings
<1>2. CASE pc # "login_answer"
  <2>1. msg \in Options /\ First(pc) = "type"
    BY <1>2 DEF Sendable, First, Options, Awaiting
  <2> QED
    BY <1>2, <2>1, OptionsAreCommands
<1> QED
  BY <1>1, <1>2

\* The server reads from the client only when it waits for an answer.
LEMMA ReadsWhileWaiting ==
  ASSUME Inv, ConsoleInv, NEW m \in Manager, con.fd = m, ServerReads(m)
  PROVE  m \in Open /\ con.pc \in Awaiting /\ Waits(con, mgr[m])
<1>1. /\ m \in Open /\ Exchange(con, mgr[m]) /\ con \in Client /\ Alone(con) /\ m # NoFd
      /\ con.pc \in {"off", "first_message", "options"} \cup Awaiting
  BY ConsoleAssumption, ClientIs DEF ConsoleInv, Places
<1>2. /\ mgr[m].st \in {"AUTH_READ", "CMD_READ"}
      /\ mgr[m].wire # <<>> \/ mgr[m].gone
  BY DEF ServerReads, auth_prawtos_read, cmd_read, OnRead
<1>3. mgr[m].wire # <<>>
  BY <1>1, <1>2 DEF Exchange
<1>4. Stream(mgr[m]) # <<>> /\ Proper(mgr[m])
  <2>1. Proper(mgr[m]) /\ mgr[m].in \in Seq(Field) /\ mgr[m].wire \in Seq(Field)
    BY DEF Inv, Session
  <2> QED
    BY <1>3, <2>1, NotEmpty DEF Stream
<1>5. ~Idle(mgr[m])
  BY <1>4 DEF Idle
<1>6. con.pc # "options" /\ con.pc # "off"
  BY <1>1, <1>5 DEF Exchange, Alone
<1>7. con.pc # "first_message"
  BY <1>1, <1>3, <1>4 DEF Exchange, Proper, Aligned
<1>8. ~Gets(con, mgr[m])
  BY <1>2, <1>5 DEF Gets, Writing
<1> QED
  BY <1>1, <1>6, <1>7, <1>8 DEF Exchange
\* The answer that is marshalled is the one the client counts on.
LEMMA AnswerIsWhole ==
  ASSUME Inv, con.effect \in Effects, NEW pc \in Awaiting, pc # "get_other_users",
         NEW msg \in Sendable(pc), NEW new, new.status \in Statuses,
         Replies(First(pc), new, msg), NEW d, d.pc = pc, d.asked = msg,
         d.effect = IF pc = "login_answer" THEN con.effect ELSE Effect(msg)
  PROVE  /\ AnswerOf(new) \in Seq(Part) /\ AnswerOf(new) # <<>> /\ Whole(d, AnswerOf(new))
         /\ d.effect \in Effects
<1> DEFINE a == AnswerOf(new)
<1>1. a \in Seq(Part)
  BY AnswerOfIs
<1>2. CASE pc = "login_answer"
  <2>1. new.st = "AUTH_WRITE" /\ d.effect \in Effects
    BY <1>2 DEF Replies, First
  <2>2. Len(a) = 2
    BY <2>1, AnswerOfIs
  <2> HIDE DEF a
  <2>3. a # <<>> /\ d.pc # "user_answer" /\ d.pc # "get_answer"
    <3>1. a # <<>>
      BY <1>1, <2>2, NoPart
    <3> QED
      BY <1>2, <3>1
  <2>4. Fits(d, a)
    BY <2>3 DEF Fits
  <2> QED
    BY <1>1, <1>2, <2>1, <2>2, <2>3, <2>4 DEF a, Whole, Length
<1>3. ASSUME pc # "login_answer"
      PROVE  /\ new.st = "CMD_WRITE" /\ new.st # "AUTH_WRITE" /\ new.parser = End("type", msg)
             /\ Gives(End("type", msg), new.status, Len(a)) /\ d.effect = Effect(msg)
  <2>1. First(pc) = "type"
    BY <1>3 DEF First
  <2> HIDE DEF a
  <2> QED
    BY <1>3, <2>1 DEF Replies, a
<1>4. CASE pc = "user_answer"
  <2>1. msg \in user_messages /\ Listed(users)
    BY <1>4 DEF Sendable, Inv
  <2> HIDE DEF a
  <2>2. /\ Gives(End("type", msg), new.status, Len(a)) /\ new.st # "AUTH_WRITE"
        /\ d.effect = Effect(msg) /\ new.parser = End("type", msg)
    BY <1>3, <1>4
  <2>3. /\ End("type", msg).type = "X01" /\ Effect(msg) \in Effects
        /\ Truthful(Effect(msg), new.status)
    BY <2>1, <2>2, AnswerIsTrue
  <2>4. Len(a) = 1 /\ a[1] = <<"status", new.status>>
    BY <2>2, <2>3, AnswerOfIs DEF a
  <2>5. /\ a # <<>> /\ Truthful(d.effect, a[1][2]) /\ d.pc # "get_answer"
        /\ Length(d, a) = 1
    <3>1. a[1][2] = new.status
      BY <2>4
    <3>2. Truthful(d.effect, a[1][2])
      BY <2>2, <2>3, <3>1
    <3>3. a # <<>>
      BY <1>1, <2>4, NoPart
    <3>4. Length(d, a) = 1 /\ d.pc # "get_answer"
      BY <1>4 DEF Length
    <3> QED
      BY <3>2, <3>3, <3>4
  <2>6. Fits(d, a)
    BY <2>5 DEF Fits
  <2> QED
    BY <1>1, <2>2, <2>3, <2>4, <2>5, <2>6 DEF a, Whole
<1>5. ASSUME pc \in {"get_answer", "quit_answer"}
      PROVE  msg[1] # "X01" /\ d.effect \in Effects
  <2>1. msg \in {<<"X00", "X00">>, <<"X00", "X03">>, <<"X03">>}
    BY <1>5 DEF Sendable
  <2>2. msg[1] # "X01"
    BY <2>1
  <2> QED
    BY <1>3, <1>5, <2>2 DEF Effect
<1>6. CASE pc = "get_answer"
  <2>1. msg \in {<<"X00", "X00">>, <<"X00", "X03">>}
    BY <1>6 DEF Sendable
  <2>2. /\ new.parser.type = "X00" /\ msg[2] \in {"X00", "X03"}
        /\ msg[2] # "X03" => new.parser.cmd # "X03"
    <3>1. new.parser = End("type", msg)
      BY <1>3, <1>6
    <3>2. CASE msg = <<"X00", "X00">>
      BY <3>1, <3>2, OthersParsed
    <3>3. CASE msg = <<"X00", "X03">>
      BY <3>1, <3>3, OthersParsed
    <3> QED
      BY <2>1, <3>2, <3>3
  <2>3. /\ Len(a) = 1 + GetLength(new.parser) /\ a[1] = <<new.status, GetLength(new.parser)>>
        /\ GetLength(new.parser) \in Nat
    BY <1>3, <1>6, <2>2, AnswerOfIs
  <2>4. msg[2] # "X03" => GetLength(new.parser) = 1
    BY <2>2 DEF GetLength
  <2> HIDE DEF a
  <2>5. PICK l \in Nat : l = GetLength(new.parser)
    BY <2>3
  <2>6. a[1][2] = l /\ Len(a) = 1 + l /\ (msg[2] # "X03" => l = 1)
    BY <2>3, <2>4, <2>5
  <2>7. Fits(d, a) /\ a # <<>> /\ Length(d, a) = 1 + l
    BY <1>1, <1>6, <2>6 DEF Fits, Length
  <2> QED
    BY <1>1, <1>5, <1>6, <2>6, <2>7 DEF a, Whole
<1>7. CASE pc = "quit_answer"
  <2>1. new.parser.type = "X03"
    <3>1. msg = <<"X03">> /\ new.parser = End("type", msg)
      BY <1>3, <1>7 DEF Sendable
    <3> QED
      BY <3>1, OthersParsed
  <2>2. Len(a) = 1
    BY <1>3, <1>7, <2>1, AnswerOfIs
  <2> HIDE DEF a
  <2>3. /\ a # <<>> /\ d.pc # "user_answer" /\ d.pc # "get_answer"
        /\ Length(d, a) = 1
    <3>1. a # <<>>
      BY <1>1, <2>2, NoPart
    <3> QED
      BY <1>7, <3>1 DEF Length
  <2>4. Fits(d, a)
    BY <2>3 DEF Fits
  <2> QED
    BY <1>1, <1>5, <1>7, <2>2, <2>3, <2>4 DEF a, Whole
<1> QED
  BY <1>2, <1>4, <1>6, <1>7 DEF Awaiting
\* The client waits on, for the same answer.
LEMMA StillWaiting ==
  ASSUME ConsoleInv, con.pc \in Awaiting, NEW m \in Manager, con.fd = m, m \in Open',
         NEW pending \in Seq(Part), NEW reply \in Seq(Part), NEW effect \in Effects,
         con' = Now(con, con.pc, m, con.asked, pending, reply, con.left, con.told, effect),
         Exchange(con', mgr'[m])
  PROVE  ConsoleInv'
<1>1. con \in Client /\ Alone(con) /\ m \in Descriptors /\ m # NoFd
  BY ConsoleAssumption DEF ConsoleInv, Descriptors
<1>2. /\ con.pc \in Places /\ con.asked \in Seq(Field) /\ con.left \in Nat /\ con.told \in Told
  BY <1>1, ClientIs
<1>3. con' \in Client
  BY <1>1, <1>2, NowTyped
<1>4. /\ con'.pc = con.pc /\ con'.fd = m /\ con'.asked = con.asked
      /\ con'.pending = pending /\ con'.reply = reply /\ con'.left = con.left
      /\ con'.told = con.told /\ con'.effect = effect
  BY <1>1, NowIs
<1>5. con.pc # "off" /\ con.pc # "options"
  BY DEF Awaiting
<1>6. Alone(con')
  BY <1>1, <1>4, <1>5 DEF Alone
<1> QED
  BY <1>1, <1>3, <1>4, <1>6 DEF ConsoleInv

\* auth_prawtos_read and cmd_read of the console's session.
LEMMA ReadsConsoleStep ==
  ASSUME Inv, ConsoleInv, NEW m \in Manager, ReadsConsole(m)
  PROVE  ConsoleInv'
<1> DEFINE first == First(con.pc)
           msg == con.asked
<1>1. con.fd = m /\ ServerReads(m) /\ con' = Seen(m, 0)
  BY DEF ReadsConsole
<1>2. m \in Open /\ con.pc \in Awaiting /\ Waits(con, mgr[m])
  BY <1>1, ReadsWhileWaiting
<1>3. con \in Client /\ Alone(con) /\ m # NoFd
  BY ConsoleAssumption DEF ConsoleInv
<1>4. /\ con.pc # "get_other_users" /\ Listens(first, mgr[m], msg)
      /\ con.reply = <<>> /\ con.pending = <<>>
  BY <1>2 DEF Waits
<1>5. msg \in Sendable(con.pc)
  BY <1>2, <1>3 DEF Alone
<1>6. msg \in Heads(first) /\ first \in {"version", "type"}
  BY <1>2, <1>5, SendableIs
<1>7. /\ con.reply \o SubSeq(con.pending, 1, 0) = <<>>
      /\ SubSeq(con.pending, 0 + 1, Len(con.pending)) = <<>>
  BY <1>4
<1>8. con.effect \in Effects /\ <<>> \in Seq(Part)
  BY <1>3, ClientIs
<1>9. ASSUME NEW new, Turned(m, new)
      PROVE  mgr'[m] = new
  BY <1>9 DEF Turned, Inv
<1> HIDE DEF first, msg
<1>10. CASE Dies \/ ClosedBy(m)
  <2>1. fault' # "none" \/ mgr'[m].st = "closed"
    <3>1. CASE Dies
      BY <3>1 DEF Dies
    <3>2. CASE ClosedBy(m)
      <4>1. mgr'[m] = Closed
        BY <1>9, <3>2 DEF ClosedBy
      <4> QED
        BY <4>1 DEF Closed
    <3> QED
      BY <1>10, <3>1, <3>2
  <2>2. con' = Now(con, con.pc, NoFd, con.asked, <<>>, <<>>, con.left, con.told, con.effect)
    BY <1>1, <1>3, <1>7, <2>1, SeenClosed
  <2>3. Cut(con, <<>>)
    BY DEF Cut
  <2> QED
    BY <1>1, <1>2, <1>3, <1>8, <2>2, <2>3, ConnectionLost
<1>11. ASSUME NEW new, Turned(m, new), new.status \in Statuses, Listens(first, new, msg),
              fault' = "none"
       PROVE  ConsoleInv'
  <2>1. mgr'[m] = new
    BY <1>9, <1>11
  <2>2. /\ new.st # "closed" /\ new.interest # WRITE /\ new.gone = FALSE
        /\ buffer_read_avail(new.write_buffer) = 0
    BY <1>11 DEF Listens, READ, WRITE
  <2>3. con' = Now(con, con.pc, m, con.asked, <<>>, <<>>, con.left, con.told, con.effect)
    <3>1. Seen(m, 0) = Now(con, con.pc, con.fd, con.asked,
                           SubSeq(con.pending, 0 + 1, Len(con.pending)),
                           con.reply \o SubSeq(con.pending, 1, 0), con.left, con.told, con.effect)
      BY <1>3, <1>11, <2>1, <2>2, SeenSent
    <3> QED
      BY <1>1, <1>7, <3>1
  <2>4. /\ con'.pc = con.pc /\ con'.asked = msg /\ con'.pending = <<>> /\ con'.reply = <<>>
    BY <1>3, <2>3, NowIs DEF msg
  <2>5. Waits(con', new)
    BY <1>4, <1>11, <2>4 DEF Waits, first
  <2>6. Exchange(con', new)
    BY <1>2, <2>2, <2>4, <2>5 DEF Exchange, Awaiting
  <2>7. m \in Open'
    BY <2>1, <2>2 DEF Open
  <2> QED
    BY <1>1, <1>2, <1>8, <2>1, <2>3, <2>6, <2>7, StillWaiting
<1>12. ASSUME NEW new, Turned(m, new), new.status \in Statuses, Replies(first, new, msg),
              fault' = "none"
       PROVE  ConsoleInv'
  <2> DEFINE a == AnswerOf(new)
             e == IF mgr[m].st = "CMD_READ" THEN Effect(msg) ELSE con.effect
  <2>1. mgr'[m] = new
    BY <1>9, <1>12
  <2>2. /\ new.st # "closed" /\ new.interest = WRITE /\ new.gone = FALSE
        /\ Stream(new) = <<>> /\ new.st \in Writing /\ mgr[m].interest = READ
        /\ buffer_read_avail(new.write_buffer) = Len(a)
    BY <1>4, <1>12 DEF Replies, Listens, Writing
  <2>3. con' = Now(con, con.pc, m, con.asked, a, <<>>, con.left, con.told, e)
    BY <1>1, <1>3, <1>7, <1>12, <2>1, <2>2, SeenBuilt DEF msg
  <2>4. e = IF con.pc = "login_answer" THEN con.effect ELSE Effect(msg)
    BY <1>4 DEF Listens, First, first
  <2> HIDE DEF a, e
  <2>5. /\ con'.pc = con.pc /\ con'.asked = msg /\ con'.pending = a /\ con'.reply = <<>>
        /\ con'.effect = e
    BY <1>3, <2>3, NowIs DEF msg
  <2>6. a \in Seq(Part) /\ a # <<>> /\ Whole(con', a) /\ con'.effect \in Effects
    <3>1. PICK d : d = con'
      OBVIOUS
    <3>2. /\ d.pc = con.pc /\ d.asked = msg
          /\ d.effect = IF con.pc = "login_answer" THEN con.effect ELSE Effect(msg)
      BY <2>4, <2>5, <3>1
    <3>3. Replies(First(con.pc), new, msg)
      BY <1>12 DEF first
    <3>4. /\ AnswerOf(new) \in Seq(Part) /\ AnswerOf(new) # <<>> /\ Whole(d, AnswerOf(new))
          /\ d.effect \in Effects
      BY <1>2, <1>4, <1>5, <1>8, <1>12, <3>2, <3>3, AnswerIsWhole
    <3> QED
      BY <3>1, <3>4 DEF a
  <2>7. con'.reply \o con'.pending = a
    BY <2>5, <2>6, <1>8, TwoParts
  <2>8. Gets(con', new)
    BY <2>2, <2>5, <2>6, <2>7 DEF Gets
  <2>9. Exchange(con', new)
    BY <1>2, <2>2, <2>5, <2>8 DEF Exchange, Awaiting
  <2>10. m \in Open'
    BY <2>1, <2>2 DEF Open
  <2> QED
    BY <1>1, <1>2, <1>8, <2>1, <2>3, <2>5, <2>6, <2>9, <2>10, StillWaiting
<1>13. \/ Dies \/ ClosedBy(m)
       \/ fault' = "none" /\ \E new : /\ Turned(m, new) /\ new.status \in Statuses
                                      /\ Listens(first, new, msg) \/ Replies(first, new, msg)
  BY <1>1, <1>2, <1>4, <1>6, ReadOutcome
<1> QED
  BY <1>10, <1>11, <1>12, <1>13
-----------------------------------------------------------------------------
(* The server writes.                                                      *)

\* The first n fields of a part of an answer, and the others.
LEMMA Split ==
  ASSUME NEW p \in Seq(Part), NEW n \in 0..Len(p)
  PROVE  /\ SubSeq(p, 1, n) \in Seq(Part) /\ Len(SubSeq(p, 1, n)) = n
         /\ Drop(p, n) \in Seq(Part) /\ Len(Drop(p, n)) = Len(p) - n
         /\ \A i \in 1..(Len(p) - n) : Drop(p, n)[i] = p[n + i]
         /\ SubSeq(p, 1, n) \o Drop(p, n) = p
<1> DEFINE t == SubSeq(p, 1, n)
           v == Drop(p, n)
           w == t \o v
<1>1. Len(p) \in Nat /\ n \in Nat /\ n <= Len(p) /\ n + 1 \in 1..(Len(p) + 1)
  OBVIOUS
<1>2. t \in Seq(Part) /\ Len(t) = n /\ \A i \in 1..n : t[i] = p[i]
  <2>1. 1 \in 1..(Len(p) + 1) /\ n \in 0..Len(p)
    BY <1>1
  <2>2. SubSeq(p, 1, n) \in Seq(Part) /\ Len(SubSeq(p, 1, n)) = n
    BY <1>1, <2>1
  <2>3. \A i \in 1..n : SubSeq(p, 1, n)[i] = p[i]
    BY <1>1, <2>1
  <2> QED
    BY <2>2, <2>3
<1>3. v \in Seq(Part) /\ Len(v) = Len(p) - n /\ \A i \in 1..(Len(p) - n) : v[i] = p[n + i]
  <2>1. SubSeq(p, n + 1, Len(p)) \in Seq(Part) /\ Len(SubSeq(p, n + 1, Len(p))) = Len(p) - n
    BY <1>1
  <2>2. \A i \in 1..(Len(p) - n) : SubSeq(p, n + 1, Len(p))[i] = p[n + i]
    BY <1>1
  <2> QED
    BY <2>1, <2>2 DEF Drop
<1> HIDE DEF t, v
<1>4. t \in Seq(Part) /\ v \in Seq(Part)
  BY <1>2, <1>3
<1>5. /\ w \in Seq(Part) /\ Len(w) = Len(t) + Len(v) /\ \A i \in 1..Len(t) : w[i] = t[i]
      /\ \A i \in 1..Len(v) : w[Len(t) + i] = v[i]
  BY <1>4
<1> HIDE DEF w
<1>6. Len(w) = Len(p)
  BY <1>1, <1>2, <1>3, <1>5
<1>7. ASSUME NEW i \in 1..Len(w)
      PROVE  w[i] = p[i]
  <2>1. CASE i \in 1..n
    BY <1>2, <1>5, <2>1
  <2>2. CASE i \notin 1..n
    <3>1. PICK j \in 1..(Len(p) - n) : i = n + j
      <4>1. i - n \in 1..(Len(p) - n) /\ i = n + (i - n)
        BY <1>1, <1>6, <2>2
      <4> QED
        BY <4>1
    <3> QED
      BY <1>2, <1>3, <1>5, <3>1
  <2> QED
    BY <2>1, <2>2
<1>8. w = p
  BY <1>5, <1>6, <1>7, SeqEqual
<1> QED
  BY <1>2, <1>3, <1>8 DEF t, v, w

\* What a send takes goes from the server's buffer to the client's socket.
LEMMA SendKeepsAnswer ==
  ASSUME NEW r \in Seq(Part), NEW p \in Seq(Part), NEW n \in 0..Len(p)
  PROVE  /\ r \o SubSeq(p, 1, n) \in Seq(Part) /\ Drop(p, n) \in Seq(Part)
         /\ (r \o SubSeq(p, 1, n)) \o Drop(p, n) = r \o p
<1>0. SubSeq(p, 1, n) \in Seq(Part) /\ Drop(p, n) \in Seq(Part) /\ SubSeq(p, 1, n) \o Drop(p, n) = p
  BY Split
<1>1. PICK t \in Seq(Part), v \in Seq(Part) : t = SubSeq(p, 1, n) /\ v = Drop(p, n) /\ t \o v = p
  BY <1>0
<1>2. (r \o t) \o v = r \o (t \o v)
  BY ConcatAssociative
<1>3. r \o t \in Seq(Part)
  OBVIOUS
<1> QED
  BY <1>1, <1>2, <1>3

\* What a write handler does: n fields go out, and with the last one the session
\* goes on to the next command.
SentBy(m, n) ==
  \E new : /\ Turned(m, new) /\ new.gone = mgr[m].gone /\ Stream(new) = Stream(mgr[m])
           /\ buffer_read_avail(new.write_buffer) = buffer_read_avail(mgr[m].write_buffer) - n
           /\ IF buffer_read_avail(new.write_buffer) = 0
              THEN new.st = "CMD_READ" /\ new.parser = ParserInit("type")
              ELSE new.st = mgr[m].st

\* Wrote, of a send that took n fields.
LEMMA WroteIs ==
  ASSUME Inv, NEW m \in Open, mgr[m].st \in Writing, NEW n \in Sent(m), Wrote(m, n)
  PROVE  SentBy(m, n)
<1> DEFINE old == mgr[m]
           out == buffer_read_adv(old.write_buffer, n)
           part == [old EXCEPT !.write_buffer = out]
           all == [old EXCEPT !.write_buffer = out, !.interest = READ]
<1>1. old \in Session /\ old.write_buffer \in Pointers
  BY DEF Inv, Open, Session
<1>2. n \in Nat /\ n <= buffer_read_avail(old.write_buffer)
  <2>1. buffer_read_avail(old.write_buffer) \in Int
    BY <1>1, PrawtosAssumption DEF Pointers, buffer_read_avail
  <2> QED
    BY <2>1 DEF Sent
<1>3. /\ out \in Pointers /\ (buffer_can_read(out) => out.read < out.write)
      /\ (~buffer_can_read(out) => out = Empty)
      /\ buffer_read_avail(out) = buffer_read_avail(old.write_buffer) - n
  BY <1>1, <1>2, Drained
<1>4. /\ buffer_can_read(out) => Return(m, old.st, part, users)
      /\ ~buffer_can_read(out) => Return(m, "CMD_READ", all, users)
  BY DEF Wrote
<1> HIDE DEF out
<1>5. CASE buffer_can_read(out)
  <2>1. /\ part \in Session /\ part.st = old.st /\ part.in = old.in /\ part.wire = old.wire
        /\ part.write_buffer = out /\ part.gone = old.gone
    BY <1>1, <1>3 DEF Session
  <2>2. old.st \notin {"ERROR", "DONE", "CMD_READ"}
    BY DEF Writing
  <2> DEFINE new == Arrived(m, old.st, part)
  <2>3. Turned(m, new)
    BY <1>4, <1>5, <2>2 DEF Return, Turned, Arrived
  <2> HIDE DEF part
  <2>4. new = [part EXCEPT !.st = old.st]
    BY <2>1, <2>2 DEF Arrived, Session
  <2> HIDE DEF new
  <2>5. new = part
    BY <2>1, <2>4 DEF Session
  <2>6. buffer_read_avail(out) # 0
    BY <1>3, <1>5, PrawtosAssumption DEF buffer_read_avail, Pointers
  <2>7. Stream(part) = Stream(old)
    BY <2>1 DEF Stream
  <2> QED
    BY <1>3, <2>1, <2>3, <2>5, <2>6, <2>7 DEF SentBy
<1>6. CASE ~buffer_can_read(out)
  <2>1. /\ all \in Session /\ all.in = old.in /\ all.wire = old.wire
        /\ all.write_buffer = Empty /\ all.gone = old.gone
    BY <1>1, <1>3, <1>6 DEF Session
  <2>2. old.st # "CMD_READ"
    BY DEF Writing
  <2> DEFINE new == Arrived(m, "CMD_READ", all)
             q == ParserInit("type")
  <2>3. Turned(m, new)
    BY <1>4, <1>6 DEF Return, Turned, Arrived
  <2> HIDE DEF all, q
  <2>4. new = [all EXCEPT !.st = "CMD_READ", !.parser = q]
    BY <2>1, <2>2 DEF Arrived, q
  <2> HIDE DEF new
  <2>5. /\ new.st = "CMD_READ" /\ new.parser = q /\ new.in = all.in /\ new.wire = all.wire
        /\ new.write_buffer = all.write_buffer /\ new.gone = all.gone
    BY <2>1, <2>4 DEF Session
  <2>6. Stream(new) = Stream(old)
    BY <2>1, <2>5 DEF Stream
  <2>7. /\ buffer_read_avail(new.write_buffer) = 0
        /\ buffer_read_avail(new.write_buffer) = buffer_read_avail(old.write_buffer) - n
    <3>1. buffer_read_avail(Empty) = 0
      BY DEF Empty, buffer_read_avail
    <3>2. new.write_buffer = Empty /\ out = Empty
      BY <1>3, <1>6, <2>1, <2>5
    <3> QED
      BY <1>3, <3>1, <3>2
  <2> QED
    BY <2>1, <2>3, <2>5, <2>6, <2>7 DEF SentBy, q
<1> QED
  BY <1>5, <1>6
\* The server writes to the client only while it has part of the answer.
LEMMA WritesWhileAnswering ==
  ASSUME Inv, ConsoleInv, NEW m \in Manager, con.fd = m, auth_prawtos_write(m) \/ cmd_write(m)
  PROVE  /\ m \in Open /\ m # NoFd /\ con.pc \in Awaiting /\ Gets(con, mgr[m])
         /\ con.pending # <<>>
         /\ fault = "none" /\ mgr[m].st \in Writing /\ mgr[m].interest = WRITE
         /\ mgr[m].gone = FALSE /\ Len(con.pending) = buffer_read_avail(mgr[m].write_buffer)
<1>1. /\ m \in Open /\ Exchange(con, mgr[m]) /\ con \in Client /\ Alone(con) /\ m # NoFd
      /\ con.pc \in {"off", "first_message", "options"} \cup Awaiting
  BY ConsoleAssumption, ClientIs DEF ConsoleInv, Places
<1>2. fault = "none" /\ mgr[m].st \in Writing /\ mgr[m].interest = WRITE
  BY DEF auth_prawtos_write, cmd_write, OnWrite, Writing
<1>3. mgr[m].st \notin {"AUTH_READ", "CMD_READ"}
  BY <1>2 DEF Writing
<1>4. ~Idle(mgr[m]) /\ ~Waits(con, mgr[m])
  BY <1>3 DEF Idle, Waits, Listens
<1>5. con.pc \notin {"off", "first_message", "options"}
  BY <1>1, <1>3, <1>4 DEF Exchange, Alone
<1>6. con.pc \in Awaiting /\ Gets(con, mgr[m])
  BY <1>1, <1>4, <1>5 DEF Exchange
<1>7. con.pending # <<>>
  BY <1>4, <1>6 DEF Gets
<1> QED
  BY <1>1, <1>2, <1>6, <1>7 DEF Exchange

\* A write handler closes the session or sends part of the answer.
LEMMA WriteOutcome ==
  ASSUME Inv, NEW m \in Open, mgr[m].gone = FALSE, fault = "none",
         auth_prawtos_write(m) \/ cmd_write(m)
  PROVE  /\ fault' = "none"
         /\ Turned(m, Closed) \/ \E n \in Sent(m) : SentBy(m, n)
<1>1. ~SendFails(m)
  BY DEF SendFails
<1>2. mgr[m].st \in Writing
  BY DEF auth_prawtos_write, cmd_write, OnWrite, Writing
<1>3. \/ Return(m, "ERROR", mgr[m], users) \/ Return(m, "DONE", mgr[m], users)
      \/ \E n \in Sent(m) : Wrote(m, n)
  BY <1>1 DEF auth_prawtos_write, cmd_write
<1>4. CASE Return(m, "ERROR", mgr[m], users) \/ Return(m, "DONE", mgr[m], users)
  BY <1>4 DEF Return, Turned
<1>5. ASSUME NEW n \in Sent(m), Wrote(m, n)
      PROVE  fault' = "none" /\ SentBy(m, n)
  <2>1. SentBy(m, n)
    BY <1>2, <1>5, WroteIs
  <2>2. fault' = "none"
    BY <1>5 DEF Wrote, Return
  <2> QED
    BY <2>1, <2>2
<1> QED
  BY <1>3, <1>4, <1>5

\* auth_prawtos_write and cmd_write of the console's session.
LEMMA WritesConsole ==
  ASSUME Inv, ConsoleInv, NEW m \in Manager, con.fd = m, auth_prawtos_write(m) \/ cmd_write(m),
         NEW sent \in SentTo(m), con' = Seen(m, sent)
  PROVE  ConsoleInv'
<1> DEFINE r == con.reply
           p == con.pending
           l == buffer_read_avail(mgr[m].write_buffer)
<1>1. /\ m \in Open /\ m # NoFd /\ con.pc \in Awaiting /\ Gets(con, mgr[m])
      /\ p # <<>> /\ fault = "none" /\ mgr[m].st \in Writing /\ mgr[m].interest = WRITE
      /\ mgr[m].gone = FALSE /\ Len(p) = l
  BY WritesWhileAnswering
<1>2. con \in Client /\ r \in Seq(Part) /\ p \in Seq(Part) /\ con.effect \in Effects
  BY ClientIs DEF ConsoleInv
<1>3. Len(p) \in Nat /\ Whole(con, r \o p) /\ Stream(mgr[m]) = <<>>
  BY <1>1, <1>2, NoPart DEF Gets
<1>4. ASSUME NEW new, Turned(m, new)
      PROVE  mgr'[m] = new
  BY <1>4 DEF Turned, Inv
<1>5. fault' = "none" /\ (Turned(m, Closed) \/ \E n \in Sent(m) : SentBy(m, n))
  BY <1>1, WriteOutcome
<1> HIDE DEF r, p, l
<1>6. CASE Turned(m, Closed)
  <2>1. mgr'[m].st = "closed"
    <3>1. mgr'[m] = Closed
      BY <1>4, <1>6
    <3> QED
      BY <3>1 DEF Closed
  <2>2. sent \in 0..Len(p)
    BY <1>3, <2>1 DEF SentTo, p
  <2> DEFINE t == r \o SubSeq(p, 1, sent)
  <2>3. con' = Now(con, con.pc, NoFd, con.asked, <<>>, t, con.left, con.told, con.effect)
    BY <1>2, <2>1, SeenClosed DEF r, p
  <2>4. t \in Seq(Part) /\ Drop(p, sent) \in Seq(Part) /\ t \o Drop(p, sent) = r \o p
    BY <1>2, <2>2, SendKeepsAnswer
  <2> HIDE DEF t
  <2>5. Cut(con, t)
    <3>1. Whole(con, t \o Drop(p, sent))
      BY <1>3, <2>4
    <3> QED
      BY <2>4, <3>1, WholeIsCut
  <2> QED
    BY <1>1, <1>2, <2>3, <2>4, <2>5, ConnectionLost
<1>7. ASSUME NEW n \in Sent(m), SentBy(m, n)
      PROVE  ConsoleInv'
  <2>1. PICK new : /\ Turned(m, new) /\ new.gone = mgr[m].gone /\ Stream(new) = Stream(mgr[m])
                   /\ buffer_read_avail(new.write_buffer) = l - n
                   /\ IF buffer_read_avail(new.write_buffer) = 0
                      THEN new.st = "CMD_READ" /\ new.parser = ParserInit("type")
                      ELSE new.st = mgr[m].st
    BY <1>7 DEF SentBy, l
  <2>2. mgr'[m] = new
    BY <1>4, <2>1
  <2>3. n \in 1..l /\ l \in Nat /\ n \in 0..Len(p) /\ Len(p) = l
    BY <1>1, <1>3 DEF Sent, l
  <2>4. new.st # "closed"
    BY <1>1, <2>1 DEF Writing
  <2>5. sent = n
    <3>1. sent = l - (l - n)
      BY <2>1, <2>2, <2>4 DEF SentTo, l
    <3> QED
      BY <2>3, <3>1
  <2> DEFINE t == r \o SubSeq(p, 1, n)
             v == Drop(p, n)
  <2>6. con' = Now(con, con.pc, m, con.asked, v, t, con.left, con.told, con.effect)
    <3>1. mgr[m].interest # READ
      BY <1>1 DEF READ, WRITE
    <3> QED
      BY <1>2, <1>5, <2>2, <2>4, <2>5, <3>1, SeenSent DEF r, p, Drop
  <2>7. t \in Seq(Part) /\ v \in Seq(Part) /\ t \o v = r \o p
    BY <1>2, <2>3, SendKeepsAnswer
  <2>8. Len(v) = l - n
    BY <1>2, <2>3, Split
  <2> HIDE DEF t, v
  <2>9. /\ con'.pc = con.pc /\ con'.asked = con.asked /\ con'.pending = v /\ con'.reply = t
        /\ con'.left = con.left /\ con'.effect = con.effect
    BY <1>2, <2>6, NowIs
  <2>10. Whole(con', con'.reply \o con'.pending)
    BY <1>3, <2>7, <2>9, SameExpectation
  <2>11. (v = <<>>) = (l - n = 0)
    BY <2>7, <2>8, NoPart
  <2>12. Gets(con', new)
    BY <1>1, <1>3, <2>1, <2>9, <2>10, <2>11 DEF Gets, Idle
  <2>13. Exchange(con', new)
    BY <1>1, <2>1, <2>8, <2>9, <2>12 DEF Exchange, Awaiting
  <2>14. m \in Open'
    BY <2>2, <2>4 DEF Open
  <2> QED
    BY <1>1, <1>2, <2>2, <2>6, <2>7, <2>13, <2>14, StillWaiting
<1> QED
  BY <1>5, <1>6, <1>7

\* A write handler, of the console's session or another.
LEMMA WritesStep ==
  ASSUME Inv, ConsoleInv, NEW m \in Manager, Writes(m)
  PROVE  ConsoleInv'
<1>1. auth_prawtos_write(m) \/ cmd_write(m)
  BY DEF Writes
<1>2. CASE con.fd = m
  BY <1>1, <1>2, WritesConsole DEF Writes
<1>3. CASE con.fd # m
  <2>1. con' = con /\ con.fd \in Manager \cup {NoFd}
    BY <1>3, ClientIs DEF Writes, ConsoleInv, Descriptors
  <2>2. con.fd # NoFd => mgr'[con.fd] = mgr[con.fd]
    BY <1>1, <1>3, <2>1, HandlerTouches
  <2> QED
    BY <2>1, <2>2, Unaffected
<1> QED
  BY <1>2, <1>3
-----------------------------------------------------------------------------
(* The client connects, sends and ends.                                    *)

\* exit, or the end of main.
LEMMA Exits ==
  ASSUME con' = Off
  PROVE  ConsoleInv'
  BY OffIs DEF ConsoleInv

\* exit marks the connection.
LEMMA ExitKeepsInv ==
  ASSUME Inv, ConsoleInv, Exit
  PROVE  Inv' /\ ConsoleInv'
<1>1. ConsoleInv'
  BY Exits DEF Exit
<1>2. CASE con.fd = NoFd
  <2>1. UNCHANGED vars
    BY <1>2 DEF Exit, vars
  <2> QED
    BY <1>1, <2>1, StutterStep
<1>3. CASE con.fd # NoFd
  <2>1. con.fd \in Open
    BY <1>3 DEF ConsoleInv
  <2>2. mgr' = [mgr EXCEPT ![con.fd].gone = TRUE] /\ UNCHANGED <<users, stadistics, proxies, fault>>
    BY <1>3 DEF Exit
  <2>3. PICK k \in Open : k = con.fd
    BY <2>1
  <2> QED
    BY <1>1, <2>2, <2>3, LeaveKeepsInv
<1> QED
  BY <1>2, <1>3

\* The server accepts the client.
LEMMA Connects ==
  ASSUME Inv, ConsoleInv, NEW m \in Manager, main_connects(m)
  PROVE  ConsoleInv'
<1> DEFINE new == [Closed EXCEPT !.st = "AUTH_READ"]
<1>1. con' = [Off EXCEPT !.pc = "first_message", !.fd = m] /\ mgr' = [mgr EXCEPT ![m] = new]
  BY DEF main_connects, prawtos_passive_accept
<1>2. /\ new.st = "AUTH_READ" /\ new.greeted = FALSE /\ new.gone = FALSE
      /\ buffer_read_avail(new.write_buffer) = 0
  BY DEF Closed, Empty, buffer_read_avail
<1> HIDE DEF new
<1>3. mgr'[m] = new /\ m \in Open'
  <2>1. mgr'[m] = new
    BY <1>1 DEF Inv
  <2> QED
    BY <1>2, <2>1 DEF Open
<1>4. /\ con' \in Client /\ con'.pc = "first_message" /\ con'.fd = m /\ con'.pending = <<>>
      /\ con'.reply = <<>> /\ con'.told = "none"
  <2>1. Off \in Client /\ Off.pending = <<>> /\ Off.reply = <<>> /\ Off.told = "none"
    BY OffIs
  <2>2. "first_message" \in Places /\ m \in Descriptors
    BY DEF Places, Descriptors
  <2> QED
    BY <1>1, <2>1, <2>2 DEF Client
<1>5. m # NoFd
  BY ConsoleAssumption
<1>6. Exchange(con', new)
  BY <1>2, <1>4 DEF Exchange, Awaiting
<1>7. Alone(con')
  BY <1>4, <1>5 DEF Alone, Awaiting
<1> QED
  BY <1>3, <1>4, <1>5, <1>6, <1>7 DEF ConsoleInv

\* The message has the stream to itself.
LEMMA MessageSent ==
  ASSUME NEW s, Proper(s), s.gone = FALSE, NEW first \in {"version", "type"},
         s.st = (IF first = "version" THEN "AUTH_READ" ELSE "CMD_READ"),
         s.parser = ParserInit(first), Stream(s) = <<>>, NEW msg \in Heads(first),
         NEW new, new = [s EXCEPT !.wire = @ \o msg, !.greeted = TRUE]
  PROVE  Listens(first, new, msg) /\ new.st # "closed" /\ new.gone = FALSE
<1>1. msg \in Seq(Field) /\ Len(msg) \in Nat /\ Len(msg) >= 1
  BY HeadsAreFramed
<1>2. s \in Session /\ s.in \in Seq(Field) /\ s.wire \in Seq(Field)
  BY DEF Proper, Session
<1>3. PICK i \in Seq(Field), w \in Seq(Field) : i = s.in /\ w = s.wire /\ i \o w = <<>>
  BY <1>2 DEF Stream
<1>4. i \o (w \o msg) = msg /\ w \o msg \in Seq(Field)
  <2>1. (i \o w) \o msg = i \o (w \o msg)
    BY <1>1, Associative
  <2>2. <<>> \o msg = msg /\ w \o msg \in Seq(Field)
    BY <1>1
  <2> QED
    BY <1>3, <2>1, <2>2
<1> DEFINE v == w \o msg
<1>5. new = [s EXCEPT !.wire = v, !.greeted = TRUE] /\ v \in Seq(Field) /\ i \o v = msg
  BY <1>3, <1>4
<1> HIDE DEF v
<1>6. /\ new.st = s.st /\ new.interest = s.interest /\ new.gone = s.gone /\ new.in = i
      /\ new.wire = v /\ new.parser = s.parser /\ new.write_buffer = s.write_buffer
  BY <1>2, <1>3, <1>5 DEF Session
<1>7. Stream(new) = msg
  BY <1>5, <1>6 DEF Stream
<1>8. s.st \notin Writing
  BY DEF Writing
<1>9. s.interest = READ /\ buffer_read_avail(s.write_buffer) = 0
  BY <1>8 DEF Proper, Answering, Empty, buffer_read_avail
<1>10. Remains(first, new.parser, Stream(new), msg)
  <2>1. 0 \in 0..(Len(msg) - 1)
    BY <1>1
  <2>2. Drop(msg, 0) = msg
    <3>1. SubSeq(msg, 1, Len(msg)) = msg
      BY <1>1, SubSeqFull
    <3>2. 0 + 1 = 1
      OBVIOUS
    <3> QED
      BY <3>1, <3>2 DEF Drop
  <2>3. Runs(ParserInit(first), msg)[0] = ParserInit(first)
    BY <1>1, ParserStarts, RunsStep
  <2> QED
    BY <1>6, <1>7, <2>1, <2>2, <2>3 DEF Remains
<1> QED
  BY <1>6, <1>9, <1>10 DEF Listens

\* first_message and options send.
LEMMA SendStep ==
  ASSUME Inv, ConsoleInv, NEW pc \in Awaiting, pc # "get_other_users", NEW msg \in Sendable(pc),
         con.pc = (IF pc = "login_answer" THEN "first_message" ELSE "options"), Send(msg, pc)
  PROVE  Inv' /\ ConsoleInv'
<1>1. con \in Client /\ Alone(con) /\ con.pending = <<>> /\ con.reply = <<>>
  BY DEF ConsoleInv, Alone, Awaiting
<1>2. /\ msg \in Heads(First(pc)) /\ msg \in Seq(Field) /\ First(pc) \in {"version", "type"}
      /\ pc # "login_answer" => msg \in Options
  BY SendableIs
<1>3. /\ con' \in Client /\ con'.pc = pc /\ con'.fd = con.fd /\ con'.asked = msg
      /\ con'.pending = <<>> /\ con'.reply = <<>> /\ con'.told = "none"
  <2>1. /\ pc \in Places /\ "none" \in Told /\ Off.effect \in Effects
    BY OffIs DEF Places, Told, Client
  <2>2. con' = [con EXCEPT !.pc = pc, !.asked = msg, !.told = "none", !.effect = Off.effect]
    BY DEF Send
  <2> QED
    BY <1>1, <1>2, <2>1, <2>2 DEF Client
<1>4. Cut(con', <<>>)
  BY DEF Cut
<1>5. pc # "off" /\ pc # "options"
  BY DEF Awaiting
<1>6. Alone(con')
  BY <1>3, <1>4, <1>5 DEF Alone
<1>7. CASE con.fd = NoFd
  <2>1. UNCHANGED vars
    BY <1>7 DEF Send, vars
  <2>2. Inv'
    BY <2>1, StutterStep
  <2> QED
    BY <1>3, <1>6, <1>7, <2>2 DEF ConsoleInv
<1>8. CASE con.fd # NoFd
  <2>1. PICK m \in Open : m = con.fd /\ Exchange(con, mgr[m])
    BY <1>8 DEF ConsoleInv
  <2> DEFINE s == mgr[m]
             new == [s EXCEPT !.wire = @ \o msg, !.greeted = TRUE]
  <2>2. m \in Manager /\ Proper(s) /\ s \in Session /\ s.gone = FALSE
    BY <2>1 DEF Open, Inv, Proper, Exchange
  <2>3. mgr' = [mgr EXCEPT ![m].wire = @ \o msg, ![m].greeted = TRUE]
        /\ UNCHANGED <<users, stadistics, proxies, fault>>
    BY <1>8, <2>1 DEF Send
  <2>4. mgr'[m] = new
    BY <2>2, <2>3 DEF Inv
  <2> HIDE DEF s
  <2>5. /\ s.st = (IF First(pc) = "version" THEN "AUTH_READ" ELSE "CMD_READ")
        /\ s.parser = ParserInit(First(pc)) /\ Stream(s) = <<>>
        /\ msg \in IF s.greeted THEN Commands ELSE Greetings
    <3>1. CASE pc = "login_answer"
      <4>1. s.st = "AUTH_READ" /\ s.greeted = FALSE
        BY <2>1, <3>1 DEF Exchange, s
      <4>2. s.parser = ParserInit("version") /\ s.in = <<>> /\ s.wire = <<>>
        BY <2>2, <4>1 DEF Proper, Aligned
      <4>3. First(pc) = "version" /\ msg \in Greetings
        BY <1>2, <3>1 DEF First, Heads
      <4>4. <<>> \o <<>> = <<>>
        OBVIOUS
      <4> QED
        BY <4>1, <4>2, <4>3, <4>4 DEF Stream
    <3>2. CASE pc # "login_answer"
      <4>1. Idle(s) /\ First(pc) = "type"
        BY <2>1, <3>2 DEF Exchange, First, s
      <4>2. s.greeted /\ msg \in Commands
        BY <1>2, <2>2, <3>2, <4>1, OptionsAreCommands DEF Proper, Aligned, Idle
      <4> QED
        BY <4>1, <4>2 DEF Idle
    <3> QED
      BY <3>1, <3>2
  <2>6. Listens(First(pc), new, msg) /\ new.st # "closed" /\ new.gone = FALSE
    BY <1>2, <2>2, <2>5, MessageSent
  <2>7. Inv'
    BY <2>1, <2>3, <2>5, SendKeepsInv DEF s
  <2> HIDE DEF new
  <2>8. buffer_read_avail(new.write_buffer) = 0
    BY <2>6 DEF Listens
  <2>9. Waits(con', new)
    BY <1>3, <2>6 DEF Waits
  <2>10. Exchange(con', new)
    BY <1>3, <1>5, <2>6, <2>8, <2>9 DEF Exchange, Awaiting
  <2>11. m \in Open'
    BY <2>2, <2>4, <2>6 DEF Open
  <2> QED
    BY <1>3, <1>6, <2>1, <2>4, <2>7, <2>10, <2>11 DEF ConsoleInv
<1> QED
  BY <1>7, <1>8
-----------------------------------------------------------------------------
(* The client receives.                                                    *)

\* What arrived is the beginning of the answer.
LEMMA HasReply ==
  ASSUME ConsoleInv, con.pc \in Awaiting, con.reply # <<>>
  PROVE  /\ con.reply \in Seq(Part) /\ con.pending \in Seq(Part) /\ Fits(con, con.reply)
         /\ con.fd = NoFd => con.pending = <<>> /\ Len(con.reply) <= Length(con, con.reply)
         /\ con.fd # NoFd =>
              /\ Gets(con, mgr[con.fd]) /\ mgr[con.fd].gone = FALSE
              /\ Len(con.reply) + Len(con.pending) = Length(con, con.reply)
<1>1. con.reply \in Seq(Part) /\ con.pending \in Seq(Part)
  BY ClientIs DEF ConsoleInv
<1>2. CASE con.fd = NoFd
  <2>1. con.pending = <<>> /\ Cut(con, con.reply)
    BY <1>2 DEF ConsoleInv, Alone
  <2> QED
    BY <1>1, <1>2, <2>1 DEF Cut
<1>3. CASE con.fd # NoFd
  <2> DEFINE w == con.reply \o con.pending
  <2>1. Gets(con, mgr[con.fd]) /\ mgr[con.fd].gone = FALSE
    BY <1>3 DEF ConsoleInv, Exchange, Waits
  <2>2. /\ Len(w) = Len(con.reply) + Len(con.pending) /\ w[1] = con.reply[1]
    BY <1>1, TwoParts
  <2>3. Fits(con, w) /\ Len(w) = Length(con, w)
    BY <2>1 DEF Gets, Whole
  <2> HIDE DEF w
  <2>4. Fits(con, con.reply)
    BY <2>2, <2>3 DEF Fits
  <2>5. Length(con, w) = Length(con, con.reply)
    BY <2>2 DEF Length
  <2> QED
    BY <1>1, <1>3, <2>1, <2>2, <2>3, <2>4, <2>5
<1> QED
  BY <1>2, <1>3

\* All of the answer has been received.
LEMMA AllRead ==
  ASSUME ConsoleInv, con.pc \in Awaiting, NEW n \in {1, 2}, n <= Len(con.reply),
         Length(con, con.reply) = n
  PROVE  /\ con.pending = <<>> /\ Drop(con.reply, n) = <<>>
         /\ con.fd # NoFd => Idle(mgr[con.fd]) /\ mgr[con.fd].gone = FALSE
<1>1. con.reply \in Seq(Part) /\ con.pending \in Seq(Part)
  BY ClientIs DEF ConsoleInv
<1>2. Len(con.reply) \in Nat /\ Len(con.pending) \in Nat /\ con.reply # <<>>
  <2>1. Len(con.reply) \in Nat /\ Len(con.pending) \in Nat
    BY <1>1, NoPart
  <2>2. Len(con.reply) # 0
    BY <2>1
  <2> QED
    BY <1>1, <2>1, <2>2, NoPart
<1>3. Len(con.reply) = n /\ con.pending = <<>> /\ (con.fd # NoFd => Idle(mgr[con.fd]))
  <2>1. CASE con.fd = NoFd
    <3>1. Len(con.reply) <= n /\ con.pending = <<>>
      BY <1>2, <2>1, HasReply
    <3> QED
      BY <1>2, <2>1, <3>1
  <2>2. CASE con.fd # NoFd
    <3>1. Len(con.reply) + Len(con.pending) = n /\ Gets(con, mgr[con.fd])
      BY <1>2, <2>2, HasReply
    <3>2. Len(con.reply) = n /\ Len(con.pending) = 0
      <4>1. PICK x \in Nat, y \in Nat : x = Len(con.reply) /\ y = Len(con.pending)
        BY <1>2
      <4>2. n \in Nat
        OBVIOUS
      <4>3. n <= x
        BY <4>1
      <4>4. x + y = n
        BY <3>1, <4>1
      <4>5. x = n /\ y = 0
        BY <4>2, <4>3, <4>4
      <4> QED
        BY <4>1, <4>5
    <3>3. con.pending = <<>>
      BY <1>1, <3>2, NoPart
    <3> QED
      BY <3>1, <3>2, <3>3 DEF Gets
  <2> QED
    BY <2>1, <2>2
<1>4. Drop(con.reply, n) = <<>>
  <2>1. n \in 0..Len(con.reply) /\ Len(con.reply) - n = 0
    BY <1>2, <1>3
  <2>2. Drop(con.reply, n) \in Seq(Part) /\ Len(Drop(con.reply, n)) = 0
    BY <1>1, <2>1, Split
  <2> QED
    BY <2>2, NoPart
<1> QED
  BY <1>2, <1>3, <1>4, HasReply

\* The client is at its prompt again.
LEMMA AtPrompt ==
  ASSUME ConsoleInv, UNCHANGED vars, NEW left \in Nat, NEW told \in Told,
         Truthful(con.effect, told),
         con.pending = <<>>, con.fd # NoFd => Idle(mgr[con.fd]) /\ mgr[con.fd].gone = FALSE,
         con' = Now(con, "options", con.fd, con.asked, <<>>, <<>>, left, told, con.effect)
  PROVE  ConsoleInv'
<1>1. con \in Client /\ <<>> \in Seq(Part) /\ "options" \in Places /\ "options" \notin Awaiting
  BY DEF ConsoleInv, Places, Awaiting
<1>2. con.fd \in Descriptors /\ con.asked \in Seq(Field) /\ con.effect \in Effects
  BY <1>1, ClientIs
<1>3. con' \in Client
  BY <1>1, <1>2, NowTyped
<1>4. /\ con'.pc = "options" /\ con'.fd = con.fd /\ con'.pending = <<>> /\ con'.reply = <<>>
      /\ con'.told = told /\ con'.effect = con.effect
  BY <1>1, NowIs
<1>5. Alone(con')
  BY <1>1, <1>4 DEF Alone
<1>6. ASSUME con.fd # NoFd
      PROVE  con.fd \in Open' /\ Exchange(con', mgr'[con.fd])
  <2>1. /\ con.fd \in Open /\ Exchange(con, mgr[con.fd]) /\ mgr' = mgr
        /\ Idle(mgr[con.fd]) /\ mgr[con.fd].gone = FALSE
    BY <1>6 DEF ConsoleInv, vars
  <2>2. Len(con'.pending) = buffer_read_avail(mgr[con.fd].write_buffer)
    BY <1>4, <2>1 DEF Exchange
  <2>3. Exchange(con', mgr[con.fd])
    BY <1>1, <1>4, <2>1, <2>2 DEF Exchange
  <2> QED
    BY <2>1, <2>3 DEF Open
<1> QED
  BY <1>3, <1>4, <1>5, <1>6 DEF ConsoleInv

\* recv says that the connection is closed, and the client goes on.
LEMMA PromptAtEof ==
  ASSUME ConsoleInv, UNCHANGED vars, AtEof, con.pc \in Awaiting, NEW left \in Nat,
         con' = [con EXCEPT !.pc = "options", !.left = left]
  PROVE  ConsoleInv'
<1>1. con \in Client /\ Alone(con) /\ con.fd = NoFd /\ con.reply = <<>>
  BY DEF ConsoleInv, AtEof
<1>2. con.pending = <<>> /\ con.told = "none"
  BY <1>1 DEF Alone, Awaiting
<1>3. con' = Now(con, "options", con.fd, con.asked, <<>>, <<>>, left, "none", con.effect)
  BY <1>1, <1>2 DEF Now, Client
<1>4. Truthful(con.effect, "none") /\ "none" \in Told
  BY DEF Truthful, Told
<1> QED
  BY <1>1, <1>2, <1>3, <1>4, AtPrompt

\* The client that took n fields and is at its prompt.
Back(n, pc, left, told) ==
  [Took(n, pc) EXCEPT !.pc = "options", !.left = left, !.told = told]

\* Its fields.
LEMMA BackIs ==
  ASSUME con \in Client, NEW n, NEW pc, NEW left, NEW told
  PROVE  Back(n, pc, left, told)
           = Now(con, "options", con.fd, con.asked, con.pending, Drop(con.reply, n), left,
                 told, con.effect)
<1> DEFINE r == Drop(con.reply, n)
           t == Took(n, pc)
<1>1. t = [con EXCEPT !.reply = r, !.pc = pc]
  BY DEF Took, Drop
<1> HIDE DEF r, t
<1>2. [t EXCEPT !.pc = "options", !.left = left, !.told = told]
        = Now(con, "options", con.fd, con.asked, con.pending, r, left, told, con.effect)
  BY <1>1 DEF Now, Client
<1> QED
  BY <1>2 DEF r, t, Back

\* The answer is read and the client reports it.
LEMMA Reported ==
  ASSUME ConsoleInv, UNCHANGED vars, con.pc \in Awaiting, NEW n \in {1, 2},
         n <= Len(con.reply), Length(con, con.reply) = n, NEW pc, NEW left \in Nat,
         NEW told \in Told, Truthful(con.effect, told),
         con' = Back(n, pc, left, told)
  PROVE  ConsoleInv'
<1>1. con \in Client
  BY DEF ConsoleInv
<1>2. /\ con.pending = <<>> /\ Drop(con.reply, n) = <<>>
      /\ con.fd # NoFd => Idle(mgr[con.fd]) /\ mgr[con.fd].gone = FALSE
  BY AllRead
<1>3. con' = Now(con, "options", con.fd, con.asked, con.pending, Drop(con.reply, n), left,
                 told, con.effect)
  BY <1>1, BackIs
<1>4. con' = Now(con, "options", con.fd, con.asked, <<>>, <<>>, left, told, con.effect)
  BY <1>2, <1>3
<1> QED
  BY <1>2, <1>4, AtPrompt

\* A header or a name is read and left others are to come.
LEMMA CountsOn ==
  ASSUME ConsoleInv, UNCHANGED vars, con.pc \in Awaiting, con.reply # <<>>, NEW left \in Nat,
         left > 0, Length(con, con.reply) = left + 1, con.asked \in Sendable("get_other_users"),
         con' = [Took(1, "get_other_users") EXCEPT !.left = left]
  PROVE  ConsoleInv'
<1> DEFINE r == con.reply
           p == con.pending
           v == Drop(r, 1)
<1>1. /\ con \in Client /\ Alone(con) /\ r \in Seq(Part) /\ p \in Seq(Part)
      /\ con.fd = NoFd => p = <<>> /\ Len(r) <= left + 1
      /\ con.fd # NoFd => /\ Gets(con, mgr[con.fd]) /\ mgr[con.fd].gone = FALSE
                          /\ Len(r) + Len(p) = left + 1
  BY HasReply DEF ConsoleInv
<1>2. Len(r) \in Nat /\ Len(r) >= 1 /\ Len(p) \in Nat
  <2>1. Len(r) \in Nat /\ Len(r) # 0 /\ Len(p) \in Nat
    BY <1>1, NoPart
  <2> QED
    BY <2>1
<1>3. v \in Seq(Part) /\ Len(v) = Len(r) - 1
  <2>1. 1 \in 0..Len(r)
    BY <1>2
  <2> QED
    BY <1>1, <2>1, Split
<1>4. con' = Now(con, "get_other_users", con.fd, con.asked, p, v, left, con.told, con.effect)
  <2>1. Took(1, "get_other_users") = [con EXCEPT !.reply = v, !.pc = "get_other_users"]
    BY DEF Took, Drop
  <2> HIDE DEF v
  <2> QED
    BY <1>1, <2>1 DEF Now, Client, p
<1> HIDE DEF r, p, v
<1>5. /\ con.fd \in Descriptors /\ con.asked \in Seq(Field) /\ con.told \in Told
      /\ con.effect \in Effects /\ "get_other_users" \in Places
      /\ "get_other_users" \in Awaiting
  BY <1>1, ClientIs DEF Places, Awaiting
<1>6. con' \in Client
  <2>1. con \in Client /\ p \in Seq(Part) /\ v \in Seq(Part)
    BY <1>1, <1>3
  <2>2. Now(con, "get_other_users", con.fd, con.asked, p, v, left, con.told, con.effect) \in Client
    BY <1>5, <2>1, NowTyped
  <2> QED
    BY <1>4, <2>2
<1>7. /\ con'.pc = "get_other_users" /\ con'.fd = con.fd /\ con'.asked = con.asked
      /\ con'.pending = p /\ con'.reply = v /\ con'.left = left
      /\ con'.told = con.told /\ con'.effect = con.effect
  <2>1. con \in Client
    BY <1>1
  <2>2. PICK d : d = Now(con, "get_other_users", con.fd, con.asked, p, v, left, con.told, con.effect)
    OBVIOUS
  <2>3. /\ d.pc = "get_other_users" /\ d.fd = con.fd /\ d.asked = con.asked
        /\ d.pending = p /\ d.reply = v /\ d.left = left
        /\ d.told = con.told /\ d.effect = con.effect
    BY <2>1, <2>2, NowIs
  <2>4. con' = d
    BY <1>4, <2>2
  <2> QED
    BY <2>3, <2>4
<1>8. ASSUME NEW a
      PROVE  (a # <<>> => Fits(con', a)) /\ Length(con', a) = left
  BY <1>7 DEF Fits, Length
<1>9. con.told = "none"
  <2>1. con.pc # "options"
    BY DEF Awaiting
  <2> QED
    BY <1>1, <2>1 DEF Alone
<1>10. con.fd = NoFd => Cut(con', v)
  <2>1. con.fd = NoFd => Len(v) <= left
    BY <1>1, <1>2, <1>3
  <2> QED
    BY <1>8, <2>1 DEF Cut
<1>11. Alone(con')
  BY <1>1, <1>5, <1>7, <1>9, <1>10 DEF Alone
<1>12. ASSUME con.fd # NoFd
       PROVE  con.fd \in Open' /\ Exchange(con', mgr'[con.fd])
  <2>1. con.fd \in Open /\ Exchange(con, mgr[con.fd]) /\ mgr' = mgr
    BY <1>12 DEF ConsoleInv, vars
  <2>2. Len(p) = buffer_read_avail(mgr[con.fd].write_buffer)
    BY <2>1 DEF Exchange, p
  <2>3. Len(v \o p) = left /\ v \o p # <<>>
    <3>1. v \o p \in Seq(Part) /\ Len(v \o p) = Len(v) + Len(p)
      BY <1>1, <1>3, TwoParts
    <3>2. Len(v) + Len(p) = left
      BY <1>1, <1>2, <1>3, <1>12
    <3>3. Len(v \o p) # 0
      BY <3>1, <3>2
    <3> QED
      BY <3>1, <3>2, <3>3, NoPart
  <2>4. Whole(con', con'.reply \o con'.pending)
    BY <1>7, <1>8, <2>3 DEF Whole
  <2>5. Gets(con', mgr[con.fd])
    BY <1>1, <1>7, <1>12, <2>4 DEF Gets, p
  <2>6. Exchange(con', mgr[con.fd])
    BY <1>1, <1>7, <1>12, <2>2, <2>5 DEF Exchange
  <2> QED
    BY <2>1, <2>6 DEF Open
<1> QED
  BY <1>6, <1>7, <1>11, <1>12 DEF ConsoleInv
\* How the handlers of answers say it.
LEMMA PromptIs ==
  ASSUME con \in Client, con.told = "none", NEW n, NEW pc, NEW told
  PROVE  /\ Took(n, "options") = Back(n, "options", con.left, "none")
         /\ [Took(n, "options") EXCEPT !.told = told] = Back(n, "options", con.left, told)
         /\ [Took(n, pc) EXCEPT !.pc = "options", !.left = 0] = Back(n, pc, 0, "none")
         /\ [con EXCEPT !.pc = "options"] = [con EXCEPT !.pc = "options", !.left = con.left]
<1> DEFINE r == Drop(con.reply, n)
           t == Took(n, "options")
           u == Took(n, pc)
<1>1. t = [con EXCEPT !.reply = r, !.pc = "options"] /\ u = [con EXCEPT !.reply = r, !.pc = pc]
  BY DEF Took, Drop
<1>2. /\ Back(n, "options", con.left, "none")
           = [t EXCEPT !.pc = "options", !.left = con.left, !.told = "none"]
      /\ Back(n, "options", con.left, told)
           = [t EXCEPT !.pc = "options", !.left = con.left, !.told = told]
      /\ Back(n, pc, 0, "none") = [u EXCEPT !.pc = "options", !.left = 0, !.told = "none"]
  BY DEF Back
<1> HIDE DEF r, t, u
<1>3. t = Back(n, "options", con.left, "none")
  <2>1. [t EXCEPT !.told = "none"] = [t EXCEPT !.pc = "options", !.left = con.left, !.told = "none"]
    BY <1>1 DEF Client
  <2>2. [t EXCEPT !.told = "none"] = t
    BY <1>1 DEF Client
  <2> QED
    BY <1>2, <2>1, <2>2
<1>4. [t EXCEPT !.told = told] = Back(n, "options", con.left, told)
  BY <1>1, <1>2 DEF Client
<1>5. [u EXCEPT !.pc = "options", !.left = 0] = Back(n, pc, 0, "none")
  BY <1>1, <1>2 DEF Client
<1>6. [con EXCEPT !.pc = "options"] = [con EXCEPT !.pc = "options", !.left = con.left]
  BY DEF Client
<1> QED
  BY <1>3, <1>4, <1>5, <1>6 DEF t, u

\* The client while it waits.
LEMMA WaitingIs ==
  ASSUME ConsoleInv, con.pc \in Awaiting
  PROVE  /\ con \in Client /\ con.told = "none" /\ con.left \in Nat
         /\ con.reply \in Seq(Part) /\ Len(con.reply) \in Nat
         /\ Truthful(con.effect, "none") /\ "none" \in Told
         /\ con.asked \in Sendable(con.pc)
<1>1. con \in Client /\ Alone(con) /\ con.pc # "options"
  BY DEF ConsoleInv, Awaiting
<1>2. con.left \in Nat /\ con.reply \in Seq(Part)
  BY <1>1, ClientIs
<1> QED
  BY <1>1, <1>2, NoPart DEF Alone, Truthful, Told

\* The loop of first_message and the end of the login.
LEMMA LoginStep ==
  ASSUME Inv, ConsoleInv, login_answer
  PROVE  ConsoleInv' /\ (Exit \/ UNCHANGED vars)
<1>1. con.pc \in Awaiting /\ con.pc = "login_answer"
  BY DEF login_answer, Awaiting
<1>2. /\ con \in Client /\ con.told = "none" /\ con.left \in Nat
      /\ Truthful(con.effect, "none") /\ "none" \in Told
  BY <1>1, WaitingIs
<1>3. CASE Exit
  BY <1>3, Exits DEF Exit
<1>4. CASE Received_n(2) /\ Stays(Took(2, "options"))
  <2>1. UNCHANGED vars /\ 2 <= Len(con.reply) /\ 2 \in {1, 2}
    BY <1>1, <1>4, WaitingIs DEF Stays, Received_n
  <2>2. con' = Back(2, "options", con.left, "none")
    BY <1>2, <1>4, PromptIs DEF Stays
  <2>3. Length(con, con.reply) = 2
    BY <1>1 DEF Length
  <2> QED
    BY <1>1, <1>2, <2>1, <2>2, <2>3, Reported
<1>5. CASE AtEof /\ Stays([con EXCEPT !.pc = "options"])
  <2>1. con' = [con EXCEPT !.pc = "options", !.left = con.left] /\ UNCHANGED vars
    BY <1>2, <1>5, PromptIs DEF Stays
  <2> QED
    BY <1>1, <1>2, <1>5, <2>1, PromptAtEof
<1>6. CASE AtEof /\ Stays([con EXCEPT !.pc = "first_message"])
  <2>1. con.fd = NoFd /\ con.reply = <<>> /\ con.pending = <<>> /\ UNCHANGED vars
    BY <1>6 DEF AtEof, ConsoleInv, Alone, Stays
  <2>2. con' = [con EXCEPT !.pc = "first_message"] /\ "first_message" \in Places
    BY <1>6 DEF Stays, Places
  <2>3. /\ con' \in Client /\ con'.pc = "first_message" /\ con'.fd = NoFd
        /\ con'.reply = <<>> /\ con'.pending = <<>> /\ con'.told = "none"
    BY <1>2, <2>1, <2>2 DEF Client
  <2>4. Alone(con')
    BY <2>3 DEF Alone, Awaiting
  <2> QED
    BY <2>1, <2>3, <2>4 DEF ConsoleInv
<1> QED
  BY <1>3, <1>4, <1>5, <1>6 DEF login_answer

\* The answer to a USERS command.
LEMMA UserStep ==
  ASSUME Inv, ConsoleInv, user_answer_handler
  PROVE  ConsoleInv' /\ (Exit \/ UNCHANGED vars)
<1>1. con.pc \in Awaiting /\ con.pc = "user_answer"
  BY DEF user_answer_handler, Awaiting
<1>2. /\ con \in Client /\ con.told = "none" /\ con.left \in Nat
  BY <1>1, WaitingIs
<1>3. CASE Exit
  BY <1>3, Exits DEF Exit
<1>4. ASSUME NEW status \in {"success", "user_credentia"}, status = con.reply[1][2],
             Received_n(1), Stays([Took(1, "options") EXCEPT !.told = status])
      PROVE  ConsoleInv' /\ UNCHANGED vars
  <2>1. UNCHANGED vars /\ 1 <= Len(con.reply) /\ 1 \in {1, 2} /\ con.reply # <<>>
    <3>1. con.reply \in Seq(Part) /\ Len(con.reply) \in Nat /\ Len(con.reply) >= 1
      BY <1>1, <1>4, WaitingIs DEF Received_n
    <3>2. Len(con.reply) # 0
      BY <3>1
    <3> QED
      BY <1>4, <3>1, <3>2, NoPart DEF Stays
  <2>2. con' = Back(1, "options", con.left, status)
    BY <1>2, <1>4, PromptIs DEF Stays
  <2>3. Length(con, con.reply) = 1
    BY <1>1 DEF Length
  <2>4. Truthful(con.effect, status) /\ status \in Told
    <3>1. Fits(con, con.reply)
      BY <1>1, <2>1, HasReply
    <3>2. Truthful(con.effect, con.reply[1][2])
      BY <1>1, <3>1 DEF Fits
    <3>3. status \in Told
      BY DEF Told
    <3> QED
      BY <1>4, <3>2, <3>3
  <2>5. ConsoleInv'
    BY <1>1, <1>2, <2>1, <2>2, <2>3, <2>4, Reported
  <2> QED
    BY <2>1, <2>5
<1>5. CASE AtEof /\ Stays([con EXCEPT !.pc = "options"])
  <2>1. con' = [con EXCEPT !.pc = "options", !.left = con.left] /\ UNCHANGED vars
    BY <1>2, <1>5, PromptIs DEF Stays
  <2> QED
    BY <1>1, <1>2, <1>5, <2>1, PromptAtEof
<1>6. CASE Received_n(1) /\ LET status == con.reply[1][2]
                            IN  IF status \in {"success", "user_credentia"}
                                THEN Stays([Took(1, "options") EXCEPT !.told = status])
                                ELSE Exit
  <2>1. PICK status : status = con.reply[1][2]
    OBVIOUS
  <2>2. CASE status \in {"success", "user_credentia"}
    <3>1. Received_n(1) /\ Stays([Took(1, "options") EXCEPT !.told = status])
      BY <1>6, <2>1, <2>2
    <3> QED
      BY <1>4, <2>1, <2>2, <3>1
  <2>3. CASE status \notin {"success", "user_credentia"}
    BY <1>3, <1>6, <2>1, <2>3
  <2> QED
    BY <2>2, <2>3
<1> QED
  BY <1>3, <1>5, <1>6 DEF user_answer_handler
\* recv got nothing of the answer to a GET command.
LEMMA NoAnswerStep ==
  ASSUME ConsoleInv, con.pc \in Awaiting, NoAnswer
  PROVE  ConsoleInv' /\ (Exit \/ UNCHANGED vars)
<1>1. AtEof /\ (Exit \/ Stays([con EXCEPT !.pc = "options", !.left = 0]))
  BY DEF NoAnswer, get_answer_handler
<1>2. CASE Exit
  BY <1>2, Exits DEF Exit
<1>3. CASE Stays([con EXCEPT !.pc = "options", !.left = 0])
  <2>1. con' = [con EXCEPT !.pc = "options", !.left = 0] /\ UNCHANGED vars /\ 0 \in Nat
    BY <1>3 DEF Stays
  <2> QED
    BY <1>1, <2>1, PromptAtEof
<1> QED
  BY <1>1, <1>2, <1>3

\* The end of an answer to a GET command.
LEMMA AnswerTaken ==
  ASSUME ConsoleInv, con.pc \in Awaiting, NEW n \in {1, 2}, Received_n(n),
         Length(con, con.reply) = n, NEW status, NEW pc,
         get_answer_handler(status, Took(n, pc))
  PROVE  ConsoleInv' /\ (Exit \/ UNCHANGED vars)
<1>1. /\ con \in Client /\ con.told = "none" /\ Len(con.reply) \in Nat
      /\ Truthful(con.effect, "none") /\ "none" \in Told
  BY WaitingIs
<1>2. Exit \/ Stays([Took(n, pc) EXCEPT !.pc = "options", !.left = 0])
  BY DEF get_answer_handler
<1>3. CASE Exit
  BY <1>3, Exits DEF Exit
<1>4. CASE Stays([Took(n, pc) EXCEPT !.pc = "options", !.left = 0])
  <2>1. con' = Back(n, pc, 0, "none") /\ UNCHANGED vars /\ 0 \in Nat
    BY <1>1, <1>4, PromptIs DEF Stays
  <2>2. n <= Len(con.reply)
    BY <1>1 DEF Received_n
  <2> QED
    BY <1>1, <2>1, <2>2, Reported
<1> QED
  BY <1>2, <1>3, <1>4

\* The answer to a GET command: a counter, or the header of the listing.
LEMMA GetStep ==
  ASSUME Inv, ConsoleInv, get_command
  PROVE  ConsoleInv' /\ (Exit \/ UNCHANGED vars)
<1> DEFINE status == con.reply[1][1]
           nargs == con.reply[1][2]
<1>1. con.pc \in Awaiting /\ con.pc = "get_answer"
  BY DEF get_command, Awaiting
<1>2. con.asked \in {<<"X00", "X00">>, <<"X00", "X03">>} /\ con.reply \in Seq(Part)
      /\ Len(con.reply) \in Nat
  BY <1>1, WaitingIs DEF Sendable
<1>3. CASE NoAnswer
  BY <1>1, <1>3, NoAnswerStep
<1>4. ASSUME Received_n(num)
      PROVE  con.reply # <<>> /\ nargs \in Nat /\ (con.asked[2] # "X03" => nargs = 1)
  <2>1. num \in {1, 2}
    BY DEF num
  <2>2. Len(con.reply) # 0
    BY <1>2, <1>4, <2>1 DEF Received_n
  <2>3. con.reply # <<>>
    BY <1>2, <2>2, NoPart
  <2>4. Fits(con, con.reply)
    BY <1>1, <2>3, HasReply
  <2> QED
    BY <1>1, <2>3, <2>4 DEF Fits
<1>5. Length(con, con.reply) = 1 + nargs
  BY <1>1 DEF Length
<1> HIDE DEF status, nargs
<1>6. CASE /\ Received_n(num) /\ (con.asked[2] # "X03" \/ nargs = 0)
           /\ get_answer_handler(status, Took(num, "get_answer"))
  <2>1. num \in {1, 2} /\ 1 + nargs = num
    <3>1. CASE con.asked[2] # "X03"
      <4>1. num = 2
        BY <3>1 DEF num
      <4>2. Received_n(num)
        BY <1>6
      <4>3. nargs = 1
        BY <1>4, <3>1, <4>2
      <4> QED
        BY <4>1, <4>3
    <3>2. CASE con.asked[2] = "X03"
      <4>1. num = 1 /\ nargs = 0
        BY <1>6, <3>2 DEF num
      <4> QED
        BY <4>1
    <3> QED
      BY <3>1, <3>2
  <2>2. PICK n \in {1, 2} : n = num
    BY <2>1
  <2>3. Length(con, con.reply) = n
    BY <1>5, <2>1, <2>2
  <2>4. Received_n(num) /\ get_answer_handler(status, Took(num, "get_answer"))
    BY <1>6
  <2>5. Received_n(n) /\ get_answer_handler(status, Took(n, "get_answer"))
    BY <2>2, <2>4
  <2> QED
    BY <1>1, <2>3, <2>5, AnswerTaken
<1>7. CASE /\ Received_n(num) /\ ~(con.asked[2] # "X03" \/ nargs = 0)
           /\ Stays([Took(num, "get_other_users") EXCEPT !.left = nargs])
  <2>1. num = 1 /\ con.asked \in Sendable("get_other_users")
    <3>1. con.asked[2] = "X03"
      BY <1>7
    <3>2. con.asked = <<"X00", "X03">>
      BY <1>2, <3>1
    <3>3. Sendable("get_other_users") = {<<"X00", "X03">>}
      BY DEF Sendable
    <3> QED
      BY <3>1, <3>2, <3>3 DEF num
  <2>2. PICK left \in Nat : left = nargs
    BY <1>4, <1>7
  <2>3. left > 0 /\ Length(con, con.reply) = left + 1 /\ con.reply # <<>>
    <3>1. left # 0
      BY <1>7, <2>2
    <3>2. Length(con, con.reply) = 1 + left
      BY <1>5, <2>2
    <3> QED
      BY <1>4, <1>7, <3>1, <3>2
  <2>4. con' = [Took(1, "get_other_users") EXCEPT !.left = left] /\ UNCHANGED vars
    BY <1>7, <2>1, <2>2 DEF Stays
  <2> QED
    BY <1>1, <2>1, <2>3, <2>4, CountsOn
<1>8. \/ NoAnswer
      \/ /\ Received_n(num)
         /\ IF con.asked[2] # "X03" \/ nargs = 0
            THEN get_answer_handler(status, Took(num, "get_answer"))
            ELSE Stays([Took(num, "get_other_users") EXCEPT !.left = nargs])
  BY DEF get_command, status, nargs
<1> QED
  BY <1>3, <1>6, <1>7, <1>8

\* A turn of the loop over the names.
LEMMA NamesStep ==
  ASSUME Inv, ConsoleInv, get_other_users
  PROVE  ConsoleInv' /\ (Exit \/ UNCHANGED vars)
<1>1. con.pc \in Awaiting /\ con.pc = "get_other_users"
  BY DEF get_other_users, Awaiting
<1>2. /\ con.reply \in Seq(Part) /\ Len(con.reply) \in Nat /\ con.left \in Nat
      /\ con.asked \in Sendable("get_other_users")
  BY <1>1, WaitingIs
<1>3. con.left > 0
  BY <1>1 DEF ConsoleInv, Alone
<1>4. Length(con, con.reply) = con.left
  BY <1>1 DEF Length
<1>5. CASE NoAnswer
  BY <1>1, <1>5, NoAnswerStep
<1>6. CASE Received_n(1) /\ con.left = 1 /\ get_answer_handler("success", Took(1, con.pc))
  <2>1. Length(con, con.reply) = 1 /\ 1 \in {1, 2}
    BY <1>4, <1>6
  <2> QED
    BY <1>1, <1>6, <2>1, AnswerTaken
<1>7. CASE Received_n(1) /\ con.left # 1 /\ Stays([Took(1, con.pc) EXCEPT !.left = @ - 1])
  <2>1. PICK left \in Nat : left = con.left - 1 /\ left > 0 /\ con.left = left + 1
    <3>1. con.left - 1 \in Nat /\ con.left - 1 > 0 /\ con.left = (con.left - 1) + 1
      BY <1>2, <1>3, <1>7
    <3> QED
      BY <3>1
  <2> DEFINE t == Took(1, "get_other_users")
             r == Drop(con.reply, 1)
  <2>2. t = [con EXCEPT !.reply = r, !.pc = "get_other_users"]
    BY DEF Took, Drop
  <2>3. con' = [t EXCEPT !.left = @ - 1] /\ UNCHANGED vars
    BY <1>1, <1>7 DEF Stays
  <2> HIDE DEF t, r
  <2>4. t.left = con.left
    BY <2>2, <1>1, WaitingIs DEF Client
  <2>5. con' = [t EXCEPT !.left = left]
    BY <2>1, <2>3, <2>4
  <2>6. con.reply # <<>>
    <3>1. Len(con.reply) # 0
      BY <1>2, <1>7 DEF Received_n
    <3> QED
      BY <1>2, <3>1, NoPart
  <2>7. Length(con, con.reply) = left + 1
    BY <1>4, <2>1
  <2> QED
    BY <1>1, <1>2, <2>1, <2>3, <2>5, <2>6, <2>7, CountsOn DEF t
<1> QED
  BY <1>5, <1>6, <1>7 DEF get_other_users

\* Whatever recv returns.
LEMMA RecvStep ==
  ASSUME Inv, ConsoleInv, ConsoleRecv
  PROVE  Inv' /\ ConsoleInv'
<1>1. CASE quit \/ RecvShort
  <2>1. ConsoleInv' /\ (Exit \/ UNCHANGED vars)
    BY <1>1, Exits DEF quit, RecvShort, Exit, Stays
  <2> QED
    BY <2>1, ExitKeepsInv, StutterStep
<1>2. CASE login_answer \/ user_answer_handler \/ get_command \/ get_other_users
  <2>1. ConsoleInv' /\ (Exit \/ UNCHANGED vars)
    BY <1>2, LoginStep, UserStep, GetStep, NamesStep
  <2> QED
    BY <2>1, ExitKeepsInv, StutterStep
<1> QED
  BY <1>1, <1>2 DEF ConsoleRecv
-----------------------------------------------------------------------------
(* The invariant holds.                                                    *)

\* A handler of the server, of any session.
LEMMA HandlersKeepInv ==
  ASSUME Inv, NEW m \in Manager, ServerReads(m) \/ auth_prawtos_write(m) \/ cmd_write(m)
  PROVE  Inv'
  BY AuthRead, CmdRead, AuthWrite, CmdWrite DEF ServerReads

\* One turn of first_message or of options.
LEMMA MessagesStep ==
  ASSUME Inv, ConsoleInv, first_message \/ options
  PROVE  Inv' /\ ConsoleInv'
<1>1. CASE first_message
  <2>1. PICK msg \in login_messages : Send(msg, "login_answer") /\ con.pc = "first_message"
    BY <1>1 DEF first_message
  <2>2. PICK pc \in Awaiting : pc = "login_answer"
    BY DEF Awaiting
  <2>3. msg \in Sendable(pc) /\ pc # "get_other_users" /\ Send(msg, pc)
        /\ con.pc = (IF pc = "login_answer" THEN "first_message" ELSE "options")
    BY <2>1, <2>2 DEF Sendable
  <2> QED
    BY <2>3, SendStep
<1>2. CASE options
  <2>1. PICK msg \in Options : /\ con.pc = "options"
                               /\ Send(msg, CASE msg[1] = "X00" -> "get_answer"
                                              [] msg[1] = "X01" -> "user_answer"
                                              [] msg[1] = "X03" -> "quit_answer")
    BY <1>2 DEF options
  <2>2. PICK pc : pc = CASE msg[1] = "X00" -> "get_answer"
                         [] msg[1] = "X01" -> "user_answer"
                         [] msg[1] = "X03" -> "quit_answer"
    OBVIOUS
  <2>3. Send(msg, pc)
    BY <2>1, <2>2
  <2>4. pc \in {"get_answer", "user_answer", "quit_answer"} /\ msg \in Sendable(pc)
    <3>1. CASE msg = <<"X03">>
      <4>1. pc = "quit_answer"
        BY <2>2, <3>1
      <4> QED
        BY <3>1, <4>1 DEF Sendable
    <3>2. CASE msg \in user_messages
      <4>1. msg[1] = "X01"
        BY <3>2 DEF user_messages, add_new_user, remove_user, modify_message
      <4>2. pc = "user_answer"
        BY <2>2, <4>1
      <4> QED
        BY <3>2, <4>2 DEF Sendable
    <3>3. CASE msg \in {<<"X00", "X00">>, <<"X00", "X03">>}
      <4>1. pc = "get_answer"
        BY <2>2, <3>3
      <4> QED
        BY <3>3, <4>1 DEF Sendable
    <3> QED
      BY <3>1, <3>2, <3>3 DEF Options
  <2>5. /\ pc \in Awaiting /\ pc # "get_other_users"
        /\ con.pc = (IF pc = "login_answer" THEN "first_message" ELSE "options")
    BY <2>1, <2>4 DEF Awaiting
  <2> QED
    BY <2>3, <2>4, <2>5, SendStep
<1> QED
  BY <1>1, <1>2

\* Steps of other clients and of the proxy.
LEMMA OthersStep ==
  ASSUME Inv, ConsoleInv, Others, UNCHANGED con
  PROVE  Inv' /\ ConsoleInv'
<1>1. ASSUME NEW m \in Manager \ {con.fd},
             prawtos_passive_accept(m) \/ ClientSends(m, OtherCommands) \/ ClientLeaves(m)
      PROVE  Inv' /\ ConsoleInv'
  <2>1. Inv'
    <3>1. OtherCommands \in SUBSET Commands /\ m \in Manager
      BY ConsoleAssumption
    <3> QED
      BY <1>1, <3>1, AcceptStep, ClientStep
  <2>2. mgr \in [Manager -> Session]
    BY DEF Inv
  <2>3. \A k \in Manager \ {m} : mgr'[k] = mgr[k]
    BY <1>1, <2>2 DEF prawtos_passive_accept, ClientSends, ClientLeaves
  <2>4. con.fd # NoFd => mgr'[con.fd] = mgr[con.fd]
    <3>1. con.fd # NoFd => con.fd \in Manager
      BY DEF ConsoleInv, Open
    <3> QED
      BY <1>1, <2>3, <3>1
  <2> QED
    BY <2>1, <2>4, Unaffected
<1>2. CASE AcceptFails \/ ProxyConnects \/ ProxyLeaves
  <2>1. mgr' = mgr
    BY <1>2 DEF AcceptFails, ProxyConnects, ProxyLeaves
  <2> QED
    BY <1>2, <2>1, CountersStep, Unaffected
<1>3. CASE Dead
  <2>1. UNCHANGED vars /\ mgr' = mgr
    BY <1>3 DEF Dead, vars
  <2> QED
    BY <2>1, StutterStep, Unaffected
<1> QED
  BY <1>1, <1>2, <1>3 DEF Others

\* Nothing has happened yet.
LEMMA ConsoleInitInv == ConsoleInit => Inv /\ ConsoleInv
  BY InitInv, OffIs DEF ConsoleInit, ConsoleInv

\* Every action of the composition keeps both invariants.
LEMMA ConsoleNextInv == Inv /\ ConsoleInv /\ [ConsoleNext]_conVars => Inv' /\ ConsoleInv'
<1> SUFFICES ASSUME Inv, ConsoleInv, [ConsoleNext]_conVars
             PROVE  Inv' /\ ConsoleInv'
  OBVIOUS
<1>1. ASSUME NEW m \in Manager, main_connects(m)
      PROVE  Inv' /\ ConsoleInv'
  BY <1>1, AcceptStep, Connects DEF main_connects
<1>2. ASSUME NEW m \in Manager, ReadsConsole(m)
      PROVE  Inv' /\ ConsoleInv'
  BY <1>2, HandlersKeepInv, ReadsConsoleStep DEF ReadsConsole
<1>3. ASSUME NEW m \in Manager, ReadsOther(m)
      PROVE  Inv' /\ ConsoleInv'
  BY <1>3, HandlersKeepInv, ReadsOtherStep DEF ReadsOther
<1>4. ASSUME NEW m \in Manager, Writes(m)
      PROVE  Inv' /\ ConsoleInv'
  BY <1>4, HandlersKeepInv, WritesStep DEF Writes
<1>5. CASE first_message \/ options
  BY <1>5, MessagesStep
<1>6. CASE options_done
  BY <1>6, ExitKeepsInv DEF options_done
<1>7. CASE ConsoleRecv
  BY <1>7, RecvStep
<1>8. CASE Others /\ UNCHANGED con
  BY <1>8, OthersStep
<1>9. CASE UNCHANGED conVars
  <2>1. UNCHANGED vars /\ con' = con /\ mgr' = mgr
    BY <1>9 DEF conVars, vars
  <2> QED
    BY <2>1, StutterStep, Unaffected
<1> QED
  BY <1>1, <1>2, <1>3, <1>4, <1>5, <1>6, <1>7, <1>8, <1>9 DEF ConsoleNext

\* The client, its session, the other sessions and the list of users are as the
\* invariants say in every state.
THEOREM ConsoleInvHolds == ConsoleSpec => [](Inv /\ ConsoleInv)
  BY ConsoleInitInv, ConsoleNextInv, PTL DEF ConsoleSpec
-----------------------------------------------------------------------------
(* What the invariants say.                                                *)

\* The invariants give the types of the client and of the server.
LEMMA ConsoleInvTypes == Inv /\ ConsoleInv => ConsoleTypeOK
<1> SUFFICES ASSUME Inv, ConsoleInv
             PROVE  ConsoleTypeOK
  OBVIOUS
<1>1. con.pc \in {"off", "first_message", "options"} \cup Awaiting
  BY DEF ConsoleInv, Client, Places
<1>2. con.fd \in Open \cup {NoFd}
  BY DEF ConsoleInv
<1>3. con.fd # NoFd => Len(con.pending) = buffer_read_avail(mgr[con.fd].write_buffer)
  BY DEF ConsoleInv, Exchange
<1> QED
  BY <1>1, <1>2, <1>3, InvTypes DEF ConsoleTypeOK

\* client.c and the session it talks to: wherever the client is, its descriptor is
\* that of a session, and what it was not sent of an answer is what the pointers
\* of the session's write_buffer say.
THEOREM ConsoleTypesAreKept == ConsoleSpec => []ConsoleTypeOK
  BY ConsoleInvTypes, ConsoleInvHolds, PTL

\* Nothing is on the way to or from a client that is asking for an option.
LEMMA ConsoleInvPrompt == Inv /\ ConsoleInv => PromptIsInStep
<1> SUFFICES ASSUME Inv, ConsoleInv, con.pc = "options", con.fd # NoFd
             PROVE  /\ con.pending = <<>> /\ con.reply = <<>>
                    /\ mgr[con.fd].login /\ mgr[con.fd].st = "CMD_READ"
                    /\ mgr[con.fd].parser.state = "type"
                    /\ mgr[con.fd].in = <<>> /\ mgr[con.fd].wire = <<>>
  BY DEF PromptIsInStep
<1>1. con.pending = <<>> /\ con.reply = <<>>
  BY DEF ConsoleInv, Alone, Awaiting
<1>2. con.fd \in Open /\ con.fd \in Manager /\ Idle(mgr[con.fd])
  BY DEF ConsoleInv, Exchange, Open
<1>3. mgr[con.fd].st = "CMD_READ" /\ mgr[con.fd].parser.state = "type"
  BY <1>2, ParserStarts DEF Idle
<1>4. /\ mgr[con.fd].login
      /\ mgr[con.fd].in \in Seq(Field) /\ mgr[con.fd].wire \in Seq(Field)
  BY <1>2, <1>3 DEF Inv, Proper, Admitted, Session
<1>5. mgr[con.fd].in \o mgr[con.fd].wire = <<>>
  BY <1>2 DEF Idle, Stream
<1>6. mgr[con.fd].in = <<>> /\ mgr[con.fd].wire = <<>>
  <2>1. PICK a \in Seq(Field), b \in Seq(Field) : a = mgr[con.fd].in /\ b = mgr[con.fd].wire
    BY <1>4
  <2>2. /\ a \o b \in Seq(Field) /\ Len(a \o b) = Len(a) + Len(b)
        /\ Len(a) \in Nat /\ Len(b) \in Nat
    OBVIOUS
  <2>3. Len(a \o b) = 0
    BY <1>5, <2>1, <2>2, NoFields
  <2>4. Len(a) = 0 /\ Len(b) = 0
    BY <2>2, <2>3
  <2> QED
    BY <2>1, <2>4, NoFields
<1> QED
  BY <1>1, <1>3, <1>4, <1>6

\* first_message, options, get_command, get_other_users and user_answer_handler:
\* by counting what recv returns the client stays in step with a server that cuts
\* messages and answers where it likes.
THEOREM PromptStaysInStep == ConsoleSpec => []PromptIsInStep
  BY ConsoleInvPrompt, ConsoleInvHolds, PTL

\* What was told at the prompt is true to what the command did.
LEMMA ConsoleInvReport == ConsoleInv => ReportIsTrue
  BY DEF ConsoleInv, Alone, Truthful, ReportIsTrue

\* user_answer_handler: the client never takes the answer to an earlier command
\* for that to its last, and says what users_process did.
THEOREM ReportsAreTrue == ConsoleSpec => []ReportIsTrue
  BY ConsoleInvReport, ConsoleInvHolds, PTL
-----------------------------------------------------------------------------
(* What the server promises, it promises to this client too.               *)

\* What Prawtos.tla says of sessions whose clients send whole messages holds with
\* a client that takes no notice of what recv returned.
THEOREM ServerKeepsPromises ==
  ConsoleSpec => [](TypeOK /\ AnswerIsPending /\ StreamStaysAligned /\ NeverOverReports)
<1>1. Inv => NeverOverReports
  BY DEF Inv
<1> QED
  BY <1>1, InvTypes, InvAnswers, InvAligned, ConsoleInvHolds, PTL

\* No step of a client, and no other handler, changes the list of users.
LEMMA ConsoleChangeIsRead ==
  ASSUME ConsoleNext, users' # users
  PROVE  \E m \in Manager : cmd_read(m)
<1>1. ASSUME NEW m \in Manager, main_connects(m)
      PROVE  FALSE
  BY <1>1 DEF main_connects, prawtos_passive_accept
<1>2. ASSUME NEW m \in Manager, ReadsConsole(m) \/ ReadsOther(m)
      PROVE  cmd_read(m)
  BY <1>2, OnlyCommandsChangeUsers DEF ReadsConsole, ReadsOther, ServerReads
<1>3. ASSUME NEW m \in Manager, Writes(m)
      PROVE  FALSE
  BY <1>3, OnlyCommandsChangeUsers DEF Writes
<1>4. ~(first_message \/ options \/ options_done)
  BY DEF first_message, options, options_done, Send, Exit
<1>5. ~ConsoleRecv
  BY DEF ConsoleRecv, login_answer, user_answer_handler, get_command, get_other_users, quit,
         RecvShort, NoAnswer, get_answer_handler, Stays, Exit, vars
<1>6. ~Others
  BY DEF Others, prawtos_passive_accept, ClientSends, ClientLeaves, AcceptFails,
         ProxyConnects, ProxyLeaves, Dead, vars
<1> QED
  BY <1>1, <1>2, <1>3, <1>4, <1>5, <1>6 DEF ConsoleNext

\* user_check_credentials: whatever the client goes on with after its connection
\* is lost, only sessions that were let in change the list.
THEOREM ConsoleAdministratorsOnly == ConsoleSpec => AdminsOnly
<1>1. Inv /\ [ConsoleNext]_conVars =>
        [users' # users => \E m \in Manager : mgr[m].st = "CMD_READ" /\ mgr[m].login]_vars
  <2> SUFFICES ASSUME Inv, ConsoleNext, users' # users
               PROVE  \E m \in Manager : mgr[m].st = "CMD_READ" /\ mgr[m].login
    BY DEF conVars, vars
  <2> QED
    BY ConsoleChangeIsRead, ChangeIsCommand
<1> QED
  BY <1>1, ConsoleInvHolds, PTL DEF ConsoleSpec, AdminsOnly

\* user_utils.c under the USERS commands that client.c sends, beside those of any
\* other client: the list still implements the registry.
THEOREM ConsoleListImplementsRegistry == ConsoleSpec => ListIsRegistry
<1>1. Inv /\ ConsoleInv /\ [ConsoleNext]_conVars =>
        [/\ users'.size = Len(users'.list)
         /\ Terminated => /\ Registry!Next
                          /\ users'.size = Cardinality(DOMAIN Accounts')]_users
  <2> SUFFICES ASSUME Inv, ConsoleInv, ConsoleNext, users' # users
               PROVE  /\ users'.size = Len(users'.list)
                      /\ Terminated => /\ Registry!Next
                                       /\ users'.size = Cardinality(DOMAIN Accounts')
    BY DEF conVars, vars
  <2>1. Inv'
    BY ConsoleNextInv
  <2>2. users'.size = Len(users'.list)
    BY <2>1 DEF Inv, Listed
  <2>3. PICK m \in Manager : cmd_read(m)
    BY ConsoleChangeIsRead
  <2> QED
    BY <2>1, <2>2, <2>3, StepImplementsRegistry
<1> QED
  BY <1>1, ConsoleInvHolds, PTL DEF ConsoleSpec, ListIsRegistry
=============================================================================
