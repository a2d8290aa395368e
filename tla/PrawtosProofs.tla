---------------------------- MODULE PrawtosProofs ----------------------------
(***************************************************************************)
(* Proofs about Prawtos.tla: types, the order of answers and commands,     *)
(* the alignment of the stream of commands, the counters and the list of   *)
(* users, for every number of clients, every set of messages and every     *)
(* size of the buffers.                                                    *)
(*                                                                         *)
(* The invariant is local to a session but for the counters and the list:  *)
(* Proper says of one session where its parser stands in the stream that   *)
(* is still to be consumed, and what is in its write_buffer.               *)
(***************************************************************************)
EXTENDS Prawtos, MinMaxLemmas, SequenceTheorems, FiniteSetTheorems

Text == Field \cup {"", "X00"}
Word == Field \cup {""}
ParserState == {"version", "type", "cmd_get", "cmd_user", "cmd_sniff", "admin",
                "uname", "passwd", "done", "error"}
Parser == [state : ParserState, type : Text, cmd : Text, admin : Text,
           uname : Word, passwd : Word]
-----------------------------------------------------------------------------
(* The parsers.                                                            *)

\* A field takes a parser to a parser, which is never at its start again.
LEMMA FeedType ==
  ASSUME NEW p \in Parser, NEW c \in Field
  PROVE  /\ feed(p, c) \in Parser
         /\ feed(p, c).state \notin {"type", "version"}
<1>1. c \in Text /\ c \in Word
  BY DEF Text, Word
<1>2. credentials_feed(p, c) \in Parser /\ credentials_feed(p, c).state \notin {"type", "version"}
  BY <1>1 DEF credentials_feed, Parser, ParserState
<1>3. auth_parser_feed(p, c) \in Parser /\ auth_parser_feed(p, c).state \notin {"type", "version"}
  BY <1>1, <1>2 DEF auth_parser_feed, Parser, ParserState
<1>4. /\ prawtos_parser_feed(p, c) \in Parser
      /\ prawtos_parser_feed(p, c).state \notin {"type", "version"}
  <2> USE <1>1 DEF Parser, ParserState
  <2>1. CASE p.state = "type"
    <3> DEFINE next == CASE c = "X00" -> "cmd_get" [] c = "X01" -> "cmd_user"
                         [] c = "X02" -> "cmd_sniff" [] c = "X03" -> "done" [] OTHER -> "error"
    <3>1. next \in ParserState \ {"type", "version"}
      OBVIOUS
    <3>2. prawtos_parser_feed(p, c) = [p EXCEPT !.type = c, !.state = next]
      BY <2>1 DEF prawtos_parser_feed
    <3> HIDE DEF next
    <3> QED
      BY <3>1, <3>2
  <2>2. CASE p.state = "cmd_get"
    BY <2>2 DEF prawtos_parser_feed
  <2>3. CASE p.state = "cmd_sniff"
    BY <2>3 DEF prawtos_parser_feed
  <2>4. CASE p.state = "cmd_user"
    <3> DEFINE next == CASE c = "X00" -> "admin" [] c \in {"X01", "X02"} -> "uname"
                         [] OTHER -> "error"
    <3>1. next \in ParserState \ {"type", "version"}
      OBVIOUS
    <3>2. prawtos_parser_feed(p, c) = [p EXCEPT !.cmd = c, !.state = next]
      BY <2>4 DEF prawtos_parser_feed
    <3> HIDE DEF next
    <3> QED
      BY <3>1, <3>2
  <2>5. CASE p.state = "admin"
    BY <2>5 DEF prawtos_parser_feed
  <2>6. CASE p.state \notin {"type", "cmd_get", "cmd_sniff", "cmd_user", "admin"}
    <3>1. prawtos_parser_feed(p, c) = credentials_feed(p, c)
      BY <2>6 DEF prawtos_parser_feed
    <3> QED
      BY <1>2, <3>1
  <2> QED
    BY <2>1, <2>2, <2>3, <2>4, <2>5, <2>6
<1> QED
  BY <1>3, <1>4 DEF feed

\* The start of the parsers.
LEMMA ParserStarts ==
  ASSUME NEW first \in {"version", "type"}
  PROVE  /\ ParserInit(first) \in Parser /\ ParserInit(first).state = first
         /\ ~is_done(ParserInit(first))
  BY DEF ParserInit, Parser, ParserState, Text, Word, is_done

\* The recursion of Runs, without CASE.
After(f, p, fields, k) ==
  IF k = 0 THEN p
  ELSE IF is_done(f[k - 1]) THEN f[k - 1] ELSE feed(f[k - 1], fields[k])

Running(f, p, fields, n) == f = [k \in 0..n |-> After(f, p, fields, k)]

\* That recursion has a solution.
LEMMA RunningExists ==
  ASSUME NEW p, NEW fields, NEW m \in Nat
  PROVE  \E f : Running(f, p, fields, m)
<1> DEFINE P == {n \in Nat : \E f : Running(f, p, fields, n)}
<1>1. 0 \in P
  <2> DEFINE f == [k \in 0..0 |-> p]
  <2>1. f = [k \in 0..0 |-> After(f, p, fields, k)]
    BY DEF After
  <2> QED
    BY <2>1 DEF Running
<1>2. ASSUME NEW n \in P
      PROVE  n + 1 \in P
  <2>1. PICK f : Running(f, p, fields, n)
    OBVIOUS
  <2> DEFINE g == [k \in 0..(n + 1) |-> IF k = n + 1 THEN After(f, p, fields, k) ELSE f[k]]
  <2>2. n \in Nat
    OBVIOUS
  <2>3. \A k \in 0..n : g[k] = f[k] /\ f[k] = After(f, p, fields, k)
    <3>1. \A k \in 0..n : k \in 0..(n + 1) /\ k # n + 1
      BY <2>2
    <3>2. \A k \in 0..n : f[k] = After(f, p, fields, k)
      BY <2>1 DEF Running
    <3> QED
      BY <3>1, <3>2
  <2>4. g[n + 1] = After(f, p, fields, n + 1)
    BY <2>2
  <2>5. ASSUME NEW k \in 0..(n + 1)
        PROVE  g[k] = After(g, p, fields, k)
    <3> HIDE DEF g
    <3>1. k - 1 \in 0..n \/ k = 0
      BY <2>2
    <3>2. After(g, p, fields, k) = After(f, p, fields, k)
      BY <2>3, <3>1 DEF After
    <3>3. k = n + 1 \/ k \in 0..n
      BY <2>2
    <3> QED
      BY <2>3, <2>4, <3>2, <3>3
  <2>6. g = [k \in 0..(n + 1) |-> g[k]]
    OBVIOUS
  <2> HIDE DEF g
  <2>7. Running(g, p, fields, n + 1)
    BY <2>5, <2>6 DEF Running
  <2> QED
    BY <2>2, <2>7
<1>3. P = Nat
  <2>1. P \subseteq Nat
    OBVIOUS
  <2> HIDE DEF P
  <2> QED
    BY <1>1, <1>2, <2>1, SetInduction
<1> QED
  BY <1>3

\* What Runs computes, field by field.
LEMMA RunsIs ==
  ASSUME NEW p, NEW S, NEW fields \in Seq(S)
  PROVE  \A k \in 0..Len(fields) : Runs(p, fields)[k] = After(Runs(p, fields), p, fields, k)
<1> DEFINE m == Len(fields)
           run == CHOOSE f : Running(f, p, fields, m)
<1>1. m \in Nat
  OBVIOUS
<1>2. Running(run, p, fields, m)
  <2> HIDE DEF m
  <2> QED
    BY <1>1, RunningExists
<1>3. ASSUME NEW f
      PROVE  Running(f, p, fields, m) <=>
               f = [k \in 0..m |-> CASE k = 0 -> p
                                     [] k > 0 /\ is_done(f[k - 1]) -> f[k - 1]
                                     [] OTHER -> feed(f[k - 1], fields[k])]
  <2> HIDE DEF m
  <2>1. ASSUME NEW k \in 0..m
        PROVE  After(f, p, fields, k) = CASE k = 0 -> p
                                     [] k > 0 /\ is_done(f[k - 1]) -> f[k - 1]
                                     [] OTHER -> feed(f[k - 1], fields[k])
    BY <1>1 DEF After
  <2> QED
    BY <2>1 DEF Running
<1>4. Runs(p, fields) = run
  BY <1>3 DEF Runs
<1> HIDE DEF run
<1>5. \A k \in 0..m : run[k] = After(run, p, fields, k)
  BY <1>2 DEF Running
<1> QED
  BY <1>4, <1>5

\* One field further: Runs without After.
LEMMA RunsStep ==
  ASSUME NEW p, NEW S, NEW fields \in Seq(S)
  PROVE  /\ Runs(p, fields)[0] = p
         /\ \A k \in 1..Len(fields) :
              Runs(p, fields)[k] = IF is_done(Runs(p, fields)[k - 1]) THEN Runs(p, fields)[k - 1]
                                   ELSE feed(Runs(p, fields)[k - 1], fields[k])
<1> DEFINE run == Runs(p, fields)
<1>1. Len(fields) \in Nat
  OBVIOUS
<1>2. \A k \in 0..Len(fields) : run[k] = After(run, p, fields, k)
  BY RunsIs
<1> HIDE DEF run
<1>3. run[0] = p
  BY <1>1, <1>2 DEF After
<1>4. ASSUME NEW k \in 1..Len(fields)
      PROVE  run[k] = IF is_done(run[k - 1]) THEN run[k - 1] ELSE feed(run[k - 1], fields[k])
  <2>1. k \in 0..Len(fields) /\ k # 0
    BY <1>1
  <2> QED
    BY <1>2, <2>1 DEF After
<1> QED
  BY <1>3, <1>4 DEF run

\* A parser stays a parser, leaves its start with the first field and stays
\* where it ended.
LEMMA RunsType ==
  ASSUME NEW p \in Parser, NEW fields \in Seq(Field)
  PROVE  /\ \A k \in 0..Len(fields) : Runs(p, fields)[k] \in Parser
         /\ \A k \in 1..Len(fields) : Runs(p, fields)[k].state \notin {"type", "version"}
         /\ \A k, j \in 0..Len(fields) :
              k <= j /\ is_done(Runs(p, fields)[k]) => Runs(p, fields)[j] = Runs(p, fields)[k]
<1> DEFINE run == Runs(p, fields)
           m == Len(fields)
<1>1. m \in Nat /\ \A k \in 1..m : fields[k] \in Field
  OBVIOUS
<1>2. /\ run[0] = p
      /\ \A k \in 1..m : run[k] = IF is_done(run[k - 1]) THEN run[k - 1]
                                  ELSE feed(run[k - 1], fields[k])
  BY RunsStep
<1> HIDE DEF run, m
<1>3. ASSUME NEW k \in 0..m
      PROVE  run[k] \in Parser
  <2> DEFINE P == {i \in Nat : i <= m => run[i] \in Parser}
  <2>1. 0 \in P
    BY <1>2
  <2>2. ASSUME NEW i \in P
        PROVE  i + 1 \in P
    <3> SUFFICES ASSUME i + 1 <= m
                 PROVE  run[i + 1] \in Parser
      OBVIOUS
    <3>1. i + 1 \in 1..m /\ (i + 1) - 1 = i /\ i <= m
      BY <1>1
    <3> QED
      BY <1>1, <1>2, <3>1, FeedType
  <2>3. P = Nat
    <3>1. P \subseteq Nat
      OBVIOUS
    <3> HIDE DEF P
    <3> QED
      BY <2>1, <2>2, <3>1, SetInduction
  <2> QED
    BY <1>1, <2>3
<1>4. ASSUME NEW k \in 1..m
      PROVE  run[k].state \notin {"type", "version"}
  <2>1. k - 1 \in 0..m
    BY <1>1
  <2>2. run[k - 1] \in Parser /\ fields[k] \in Field
    BY <1>1, <1>3, <2>1
  <2> QED
    BY <1>2, <2>2, FeedType DEF is_done
<1>5. ASSUME NEW k \in 0..m, NEW j \in 0..m, k <= j, is_done(run[k])
      PROVE  run[j] = run[k]
  <2> DEFINE P == {i \in Nat : k + i <= m => run[k + i] = run[k]}
  <2>1. 0 \in P
    BY <1>1
  <2>2. ASSUME NEW i \in P
        PROVE  i + 1 \in P
    <3> SUFFICES ASSUME k + (i + 1) <= m
                 PROVE  run[k + (i + 1)] = run[k]
      OBVIOUS
    <3>1. k + (i + 1) \in 1..m /\ (k + (i + 1)) - 1 = k + i /\ k + i <= m
      BY <1>1
    <3> QED
      BY <1>2, <1>5, <3>1
  <2>3. P = Nat
    <3>1. P \subseteq Nat
      OBVIOUS
    <3> HIDE DEF P
    <3> QED
      BY <2>1, <2>2, <3>1, SetInduction
  <2>4. PICK i \in Nat : k + i = j
    <3>1. j - k \in Nat /\ k + (j - k) = j
      BY <1>1, <1>5
    <3> QED
      BY <3>1
  <2>5. i \in P
    <3> HIDE DEF P
    <3> QED
      BY <2>3
  <2>6. k + i <= m
    BY <1>1, <2>4
  <2> QED
    BY <2>4, <2>5, <2>6
<1> QED
  BY <1>3, <1>4, <1>5 DEF run, m

\* What consume takes and leaves: all of it, unless the message ends before.
LEMMA ConsumeIs ==
  ASSUME NEW p \in Parser, NEW fields \in Seq(Field)
  PROVE  /\ consume(p, fields).n \in 0..Len(fields)
         /\ consume(p, fields).parser = Runs(p, fields)[Len(fields)]
         /\ consume(p, fields).parser \in Parser
         /\ ~is_done(consume(p, fields).parser) => consume(p, fields).n = Len(fields)
         /\ \A d \in 1..Len(fields) :
              is_done(Runs(p, fields)[d]) /\ (\A k \in 1..(d - 1) : ~is_done(Runs(p, fields)[k]))
              => consume(p, fields).n = d
<1> DEFINE run == Runs(p, fields)
           m == Len(fields)
           T == {m} \cup {k \in 1..m : is_done(run[k])}
           n == consume(p, fields).n
<1>1. m \in Nat
  OBVIOUS
<1>2. /\ \A k \in 0..m : run[k] \in Parser
      /\ \A k, j \in 0..m : k <= j /\ is_done(run[k]) => run[j] = run[k]
  BY RunsType
<1>3. n = Min(T) /\ consume(p, fields).parser = run[m]
  BY DEF consume
<1> HIDE DEF run, m, n
<1>4. Min(T) \in T /\ \A k \in T : Min(T) <= k
  <2>1. T \subseteq Nat /\ T # {}
    BY <1>1
  <2> HIDE DEF T
  <2> QED
    BY <2>1, MinIsLeast
<1>5. n \in T /\ \A k \in T : n <= k
  BY <1>3, <1>4
<1>6. n \in 0..m
  BY <1>1, <1>5
<1>7. ASSUME ~is_done(run[m])
      PROVE  n = m
  <2>1. CASE n \in 1..m /\ is_done(run[n])
    <3>1. n \in 0..m /\ m \in 0..m /\ n <= m
      BY <1>1, <2>1
    <3> QED
      BY <1>2, <1>7, <2>1, <3>1
  <2> QED
    BY <1>5, <2>1
<1>8. ASSUME NEW d \in 1..m, is_done(run[d]), \A k \in 1..(d - 1) : ~is_done(run[k])
      PROVE  n = d
  <2>1. d \in T /\ n <= d
    BY <1>5, <1>8
  <2>2. d \in Nat /\ d <= m /\ n \in Nat
    BY <1>1, <1>6
  <2>3. n = m \/ (n \in 1..m /\ is_done(run[n]))
    BY <1>5
  <2>4. CASE n = m
    BY <2>1, <2>2, <2>4
  <2>5. CASE n \in 1..m /\ is_done(run[n])
    <3>1. n \notin 1..(d - 1)
      BY <1>8, <2>5
    <3> QED
      BY <2>1, <2>2, <2>5, <3>1
  <2> QED
    BY <2>3, <2>4, <2>5
<1>9. run[m] \in Parser
  BY <1>1, <1>2
<1> QED
  BY <1>3, <1>6, <1>7, <1>8, <1>9 DEF run, m, n

\* The first d fields of a are those of msg after its first k.
Agree(a, msg, k, d) == d <= Len(a) /\ k + d <= Len(msg) /\ \A i \in 1..d : a[i] = msg[k + i]

\* A parser that stands within msg goes on as if it had been fed msg at once,
\* for as long as the fields are those of msg.
LEMMA Splice ==
  ASSUME NEW q, NEW msg \in Seq(Field), NEW k \in 0..Len(msg), NEW a \in Seq(Field),
         NEW d \in Nat, Agree(a, msg, k, d)
  PROVE  \A i \in 0..d : Runs(Runs(q, msg)[k], a)[i] = Runs(q, msg)[k + i]
<1> DEFINE r == Runs(q, msg)
           s == Runs(r[k], a)
           m == Len(msg)
<1>1. m \in Nat /\ Len(a) \in Nat
  OBVIOUS
<1>2. \A i \in 1..m : r[i] = IF is_done(r[i - 1]) THEN r[i - 1] ELSE feed(r[i - 1], msg[i])
  BY RunsStep
<1>3. /\ s[0] = r[k]
      /\ \A i \in 1..Len(a) : s[i] = IF is_done(s[i - 1]) THEN s[i - 1] ELSE feed(s[i - 1], a[i])
  BY RunsStep
<1>4. k \in Nat /\ k + d <= m /\ d <= Len(a) /\ \A i \in 1..d : a[i] = msg[k + i]
  BY <1>1 DEF Agree
<1> HIDE DEF r, s, m
<1> DEFINE P == {i \in Nat : i <= d => s[i] = r[k + i]}
<1>5. 0 \in P
  BY <1>3, <1>4
<1>6. ASSUME NEW i \in P
      PROVE  i + 1 \in P
  <2> SUFFICES ASSUME i + 1 <= d
               PROVE  s[i + 1] = r[k + (i + 1)]
    OBVIOUS
  <2>1. /\ i + 1 \in 1..Len(a) /\ i + 1 \in 1..d /\ (i + 1) - 1 = i /\ i <= d
        /\ k + (i + 1) \in 1..m /\ (k + (i + 1)) - 1 = k + i
    BY <1>1, <1>4
  <2>2. s[i] = r[k + i] /\ a[i + 1] = msg[k + (i + 1)]
    BY <1>4, <2>1
  <2> QED
    BY <1>2, <1>3, <2>1, <2>2
<1>7. P = Nat
  <2>1. P \subseteq Nat
    OBVIOUS
  <2> HIDE DEF P
  <2> QED
    BY <1>5, <1>6, <2>1, SetInduction
<1>8. ASSUME NEW i \in 0..d
      PROVE  s[i] = r[k + i]
  <2>1. i \in Nat /\ i <= d
    OBVIOUS
  <2>2. i \in P
    <3> HIDE DEF P
    <3> QED
      BY <1>7, <2>1
  <2> QED
    BY <2>1, <2>2
<1> QED
  BY <1>8 DEF r, s
-----------------------------------------------------------------------------
(* Streams of whole commands.                                              *)

\* Messages are sequences of fields with at least one of them.
LEMMA Messages ==
  \A msg \in Logins \cup Commands : msg \in Seq(Field) /\ Len(msg) \in Nat /\ Len(msg) >= 1
<1> SUFFICES ASSUME NEW msg \in Logins \cup Commands
             PROVE  msg \in Seq(Field) /\ Len(msg) \in Nat /\ Len(msg) >= 1
  OBVIOUS
<1>1. msg \in Seq(STRING) /\ msg # <<>>
  BY PrawtosAssumption DEF Framed
<1>2. Range(msg) \subseteq Field
  BY DEF Field
<1>3. \A i \in 1..Len(msg) : msg[i] \in Field
  BY <1>1, <1>2 DEF Range
<1> QED
  BY <1>1, <1>3

\* Command c is in s, after the first k fields.
At(s, k, c) == k + Len(c) <= Len(s) /\ \A i \in 1..Len(c) : s[k + i] = c[i]

\* SubSeq, field by field.
LEMMA AtIsSubSeq ==
  ASSUME NEW s \in Seq(Field), NEW k \in 0..Len(s), NEW c \in Commands, k + Len(c) <= Len(s)
  PROVE  SubSeq(s, k + 1, k + Len(c)) = c <=> At(s, k, c)
<1> DEFINE t == SubSeq(s, k + 1, k + Len(c))
<1>1. c \in Seq(Field) /\ Len(c) \in Nat /\ Len(s) \in Nat /\ k \in Nat
  BY Messages
<1>2. t \in Seq(Field) /\ Len(t) = Len(c) /\ \A i \in 1..Len(c) : t[i] = s[k + i]
  <2>1. k + 1 \in 1..(Len(s) + 1) /\ k + Len(c) \in k..Len(s)
    BY <1>1
  <2>2. /\ SubSeq(s, k + 1, k + Len(c)) \in Seq(Field)
        /\ Len(SubSeq(s, k + 1, k + Len(c))) = Len(c)
    BY <1>1, <2>1
  <2>3. \A i \in 1..Len(c) : SubSeq(s, k + 1, k + Len(c))[i] = s[k + i]
    BY <1>1, <2>1
  <2> QED
    BY <2>2, <2>3
<1> HIDE DEF t
<1>3. ASSUME t = c
      PROVE  At(s, k, c)
  BY <1>2, <1>3 DEF At
<1>4. ASSUME At(s, k, c)
      PROVE  t = c
  <2>1. \A i \in 1..Len(c) : t[i] = c[i]
    BY <1>2, <1>4 DEF At
  <2> QED
    BY <1>1, <1>2, <2>1, SeqEqual
<1> QED
  BY <1>3, <1>4 DEF t

\* T holds positions of s from each of which a command leads to another one, or
\* which are the end.
Chain(s, T) ==
  /\ T \subseteq 0..Len(s)
  /\ \A k \in T : k = Len(s) \/ \E c \in Commands : At(s, k, c) /\ k + Len(c) \in T

\* The recursion of WholeCommands.
Wholly(f, s) ==
  f = [k \in 0..Len(s) |-> k = Len(s) \/ \E c \in Commands :
         /\ k + Len(c) <= Len(s)
         /\ SubSeq(s, k + 1, k + Len(c)) = c
         /\ f[k + Len(c)]]

\* A solution of that recursion follows the commands.
LEMMA WhollyIs ==
  ASSUME NEW s \in Seq(Field), NEW f
  PROVE  Wholly(f, s) <=>
           f = [k \in 0..Len(s) |->
                  k = Len(s) \/ \E c \in Commands : At(s, k, c) /\ f[k + Len(c)]]
<1>1. ASSUME NEW k \in 0..Len(s)
      PROVE  (k = Len(s) \/ \E c \in Commands : /\ k + Len(c) <= Len(s)
                                                /\ SubSeq(s, k + 1, k + Len(c)) = c
                                                /\ f[k + Len(c)])
             = (k = Len(s) \/ \E c \in Commands : At(s, k, c) /\ f[k + Len(c)])
  <2>1. ASSUME NEW c \in Commands
        PROVE  (k + Len(c) <= Len(s) /\ SubSeq(s, k + 1, k + Len(c)) = c) <=> At(s, k, c)
    <3>1. CASE k + Len(c) <= Len(s)
      BY <3>1, AtIsSubSeq
    <3>2. CASE ~(k + Len(c) <= Len(s))
      BY <3>2 DEF At
    <3> QED
      BY <3>1, <3>2
  <2> QED
    BY <2>1, Zenon
<1> QED
  BY <1>1 DEF Wholly

\* Positions from which whole commands lead to the end.
Reaches(s, k) == \E T : Chain(s, T) /\ k \in T

\* The end is reached from k exactly if it is reached after a command at k.
LEMMA ReachesStep ==
  ASSUME NEW s \in Seq(Field), NEW k \in 0..Len(s)
  PROVE  Reaches(s, k) <=>
           (k = Len(s) \/ \E c \in Commands : At(s, k, c) /\ Reaches(s, k + Len(c)))
<1>0. Len(s) \in Nat
  OBVIOUS
<1>1. ASSUME Reaches(s, k)
      PROVE  k = Len(s) \/ \E c \in Commands : At(s, k, c) /\ Reaches(s, k + Len(c))
  BY <1>1 DEF Reaches, Chain
<1>2. ASSUME k = Len(s)
      PROVE  Reaches(s, k)
  <2>1. Chain(s, {k})
    BY <1>0, <1>2 DEF Chain
  <2> QED
    BY <2>1 DEF Reaches
<1>3. ASSUME NEW c \in Commands, At(s, k, c), Reaches(s, k + Len(c))
      PROVE  Reaches(s, k)
  <2>1. PICK T : Chain(s, T) /\ k + Len(c) \in T
    BY <1>3 DEF Reaches
  <2>2. Chain(s, T \cup {k})
    BY <1>3, <2>1 DEF Chain
  <2> QED
    BY <2>2 DEF Reaches
<1> QED
  BY <1>1, <1>2, <1>3

\* WholeCommands, without the recursion.
LEMMA WholeIs ==
  ASSUME NEW s \in Seq(Field)
  PROVE  WholeCommands(s) <=> Reaches(s, 0)
<1> DEFINE m == Len(s)
           g == CHOOSE f : Wholly(f, s)
           h == [k \in 0..m |-> Reaches(s, k)]
<1>1. m \in Nat
  OBVIOUS
<1>2. \A c \in Commands : Len(c) \in Nat /\ Len(c) >= 1
  BY Messages
<1>3. Wholly(h, s)
  <2>1. ASSUME NEW k \in 0..m
        PROVE  Reaches(s, k) =
                 (k = m \/ \E c \in Commands : At(s, k, c) /\ h[k + Len(c)])
    <3>1. ASSUME NEW c \in Commands, At(s, k, c)
          PROVE  h[k + Len(c)] = Reaches(s, k + Len(c))
      <4>1. k + Len(c) \in 0..m
        BY <1>1, <1>2, <3>1 DEF At
      <4> QED
        BY <4>1
    <3> HIDE DEF h
    <3>2. (\E c \in Commands : At(s, k, c) /\ Reaches(s, k + Len(c)))
          <=> (\E c \in Commands : At(s, k, c) /\ h[k + Len(c)])
      BY <3>1, Zenon
    <3>3. Reaches(s, k) \in BOOLEAN
      BY DEF Reaches
    <3>4. Reaches(s, k) <=> (k = m \/ \E c \in Commands : At(s, k, c) /\ h[k + Len(c)])
      BY <3>2, ReachesStep
    <3> QED
      BY <3>3, <3>4, Zenon
  <2>2. h = [k \in 0..m |-> k = m \/ \E c \in Commands : At(s, k, c) /\ h[k + Len(c)]]
    BY <2>1, Zenon
  <2> QED
    BY <2>2, WhollyIs
<1>4. Wholly(g, s)
  BY <1>3
<1>5. WholeCommands(s) = g[0]
  BY DEF WholeCommands, Wholly
<1> HIDE DEF g, h
<1>6. g = [k \in 0..m |-> k = m \/ \E c \in Commands : At(s, k, c) /\ g[k + Len(c)]]
  BY <1>4, WhollyIs
<1>7. ASSUME NEW k \in 0..m
      PROVE  g[k] <=> (k = m \/ \E c \in Commands : At(s, k, c) /\ g[k + Len(c)])
  BY <1>6
<1>8. ASSUME g[0]
      PROVE  Reaches(s, 0)
  <2> DEFINE T == {k \in 0..m : g[k]}
  <2>1. \A k \in T : k = m \/ \E c \in Commands : At(s, k, c) /\ k + Len(c) \in T
    <3> TAKE k \in T
    <3>1. k \in 0..m /\ (k = m \/ \E c \in Commands : At(s, k, c) /\ g[k + Len(c)])
      BY <1>7
    <3>2. ASSUME NEW c \in Commands, At(s, k, c), g[k + Len(c)]
          PROVE  k + Len(c) \in T
      BY <1>1, <1>2, <3>1, <3>2 DEF At
    <3> QED
      BY <3>1, <3>2
  <2>2. Chain(s, T)
    BY <2>1 DEF Chain
  <2>3. 0 \in T
    BY <1>1, <1>8
  <2> QED
    BY <2>2, <2>3 DEF Reaches
<1>9. ASSUME Reaches(s, 0)
      PROVE  g[0]
  <2>1. PICK T : Chain(s, T) /\ 0 \in T
    BY <1>9 DEF Reaches
  <2> DEFINE Bad == {k \in T : ~g[k]}
             U == {j \in Nat : \E k \in Bad : j = m - k}
  <2>2. T \subseteq 0..m /\ \A k \in T : k = m \/ \E c \in Commands : At(s, k, c) /\ k + Len(c) \in T
    BY <2>1 DEF Chain
  <2>3. SUFFICES ASSUME Bad # {}
                 PROVE  FALSE
    BY <2>1
  <2>4. U # {} /\ U \subseteq Nat
    <3>1. PICK k \in Bad : TRUE
      BY <2>3
    <3>2. m - k \in Nat
      BY <1>1, <2>2
    <3> QED
      BY <3>1, <3>2
  <2>5. PICK j \in U : \A i \in U : j <= i
    <3> HIDE DEF U
    <3> QED
      BY <2>4, LeastNatural
  <2>6. PICK k \in Bad : j = m - k
    OBVIOUS
  <2>7. k \in 0..m /\ k \in T /\ ~g[k]
    BY <2>2
  <2>8. k # m
    BY <1>7, <2>7
  <2>9. PICK c \in Commands : At(s, k, c) /\ k + Len(c) \in T
    BY <2>2, <2>7, <2>8
  <2>10. k + Len(c) \in 0..m /\ Len(c) \in Nat /\ Len(c) >= 1
    BY <1>2, <2>2, <2>9
  <2>11. ~g[k + Len(c)]
    BY <1>7, <2>7, <2>9
  <2>12. m - (k + Len(c)) \in U
    BY <1>1, <2>9, <2>10, <2>11
  <2>13. j <= m - (k + Len(c))
    BY <2>5, <2>12
  <2> QED
    BY <1>1, <2>6, <2>7, <2>10, <2>13
<1> QED
  BY <1>5, <1>8, <1>9

\* What is left of s after n fields.
Drop(s, n) == SubSeq(s, n + 1, Len(s))

\* Drop, field by field.
LEMMA DropIs ==
  ASSUME NEW s \in Seq(Field), NEW n \in 0..Len(s)
  PROVE  /\ Drop(s, n) \in Seq(Field) /\ Len(Drop(s, n)) = Len(s) - n
         /\ \A i \in 1..(Len(s) - n) : Drop(s, n)[i] = s[n + i]
<1>1. Len(s) \in Nat /\ n \in Nat /\ n + 1 \in 1..(Len(s) + 1) /\ n <= Len(s)
  OBVIOUS
<1>2. SubSeq(s, n + 1, Len(s)) \in Seq(Field) /\ Len(SubSeq(s, n + 1, Len(s))) = Len(s) - n
  BY <1>1
<1>3. \A i \in 1..(Len(s) - n) : SubSeq(s, n + 1, Len(s))[i] = s[n + i]
  BY <1>1
<1> QED
  BY <1>2, <1>3 DEF Drop

\* Commands after the first d fields are commands of the rest.
LEMMA AtShift ==
  ASSUME NEW s \in Seq(Field), NEW d \in 0..Len(s), NEW k \in 0..(Len(s) - d), NEW c \in Commands
  PROVE  At(Drop(s, d), k, c) <=> At(s, d + k, c)
<1> DEFINE t == Drop(s, d)
<1>1. /\ Len(t) = Len(s) - d /\ Len(s) \in Nat /\ d \in Nat /\ k \in Nat /\ Len(c) \in Nat
      /\ \A i \in 1..(Len(s) - d) : t[i] = s[d + i]
  BY DropIs, Messages
<1> HIDE DEF t
<1>2. k + Len(c) <= Len(t) <=> (d + k) + Len(c) <= Len(s)
  BY <1>1
<1>3. ASSUME k + Len(c) <= Len(t), NEW i \in 1..Len(c)
      PROVE  t[k + i] = s[(d + k) + i]
  <2>1. k + i \in 1..(Len(s) - d) /\ d + (k + i) = (d + k) + i
    BY <1>1, <1>3
  <2> QED
    BY <1>1, <2>1
<1> QED
  BY <1>2, <1>3 DEF At, t

\* So the end is reached from d exactly if the rest is made of commands.
LEMMA ReachesShift ==
  ASSUME NEW s \in Seq(Field), NEW d \in 0..Len(s)
  PROVE  Reaches(s, d) <=> WholeCommands(Drop(s, d))
<1> DEFINE t == Drop(s, d)
           m == Len(s) - d
<1>1. /\ t \in Seq(Field) /\ Len(t) = m /\ Len(s) \in Nat /\ d \in Nat /\ m \in Nat
      /\ \A c \in Commands : Len(c) \in Nat
      /\ Len(s) = d + m
  BY DropIs, Messages
<1>2. \A k \in 0..m, c \in Commands : At(t, k, c) <=> At(s, d + k, c)
  BY AtShift
<1> HIDE DEF t, m
<1>3. ASSUME Reaches(s, d)
      PROVE  Reaches(t, 0)
  <2>1. PICK T : Chain(s, T) /\ d \in T
    BY <1>3 DEF Reaches
  <2> DEFINE U == {k \in 0..m : d + k \in T}
  <2>2. \A k \in U : k = m \/ \E c \in Commands : At(t, k, c) /\ k + Len(c) \in U
    <3> TAKE k \in U
    <3>1. k \in 0..m /\ d + k \in T
      OBVIOUS
    <3>2. CASE d + k = Len(s)
      BY <1>1, <3>1, <3>2
    <3>3. ASSUME NEW c \in Commands, At(s, d + k, c), (d + k) + Len(c) \in T
          PROVE  At(t, k, c) /\ k + Len(c) \in U
      <4>1. At(t, k, c)
        BY <1>2, <3>1, <3>3
      <4>2. k + Len(c) \in 0..m /\ d + (k + Len(c)) = (d + k) + Len(c)
        BY <1>1, <3>1, <4>1 DEF At
      <4> QED
        BY <3>3, <4>1, <4>2
    <3>4. d + k = Len(s) \/ \E c \in Commands : At(s, d + k, c) /\ (d + k) + Len(c) \in T
      BY <2>1, <3>1 DEF Chain
    <3> QED
      BY <1>1, <3>1, <3>3, <3>4
  <2>3. Chain(t, U)
    BY <1>1, <2>2 DEF Chain
  <2>4. 0 \in U
    BY <1>1, <2>1
  <2> QED
    BY <2>3, <2>4 DEF Reaches
<1>4. ASSUME Reaches(t, 0)
      PROVE  Reaches(s, d)
  <2>1. PICK T : Chain(t, T) /\ 0 \in T
    BY <1>4 DEF Reaches
  <2> DEFINE U == {j \in 0..Len(s) : \E k \in T : j = d + k}
  <2>2. \A j \in U : j = Len(s) \/ \E c \in Commands : At(s, j, c) /\ j + Len(c) \in U
    <3> TAKE j \in U
    <3>1. PICK k \in T : j = d + k
      OBVIOUS
    <3>2. k \in 0..m
      BY <1>1, <2>1 DEF Chain
    <3>3. CASE k = m
      BY <1>1, <3>1, <3>3
    <3>4. ASSUME NEW c \in Commands, At(t, k, c), k + Len(c) \in T
          PROVE  At(s, j, c) /\ j + Len(c) \in U
      <4>1. At(s, j, c)
        BY <1>2, <3>1, <3>2, <3>4
      <4>2. j + Len(c) \in 0..Len(s) /\ j + Len(c) = d + (k + Len(c))
        BY <1>1, <3>1, <3>2, <4>1 DEF At
      <4> QED
        BY <3>4, <4>1, <4>2
    <3>5. k = m \/ \E c \in Commands : At(t, k, c) /\ k + Len(c) \in T
      BY <1>1, <2>1, <3>1 DEF Chain
    <3> QED
      BY <3>3, <3>4, <3>5
  <2>3. Chain(s, U)
    BY <2>2 DEF Chain
  <2>4. d \in U
    BY <1>1, <2>1
  <2> QED
    BY <2>3, <2>4 DEF Reaches
<1>5. WholeCommands(t) <=> Reaches(t, 0)
  BY <1>1, WholeIs
<1> QED
  BY <1>3, <1>4, <1>5 DEF t

\* Nothing is a sequence of whole commands; a command followed by whole commands
\* is one, and nothing else is.
LEMMA WholeStep ==
  ASSUME NEW s \in Seq(Field)
  PROVE  /\ s = <<>> => WholeCommands(s)
         /\ WholeCommands(s) /\ s # <<>> =>
              \E c \in Commands : At(s, 0, c) /\ WholeCommands(Drop(s, Len(c)))
         /\ \A c \in Commands :
              At(s, 0, c) /\ WholeCommands(Drop(s, Len(c))) => WholeCommands(s)
<1>1. Len(s) \in Nat /\ 0 \in 0..Len(s) /\ (s = <<>> <=> Len(s) = 0)
  OBVIOUS
<1>2. WholeCommands(s) <=>
        (0 = Len(s) \/ \E c \in Commands : At(s, 0, c) /\ Reaches(s, 0 + Len(c)))
  BY <1>1, WholeIs, ReachesStep
<1>3. ASSUME NEW c \in Commands, At(s, 0, c)
      PROVE  Reaches(s, 0 + Len(c)) <=> WholeCommands(Drop(s, Len(c)))
  <2>1. Len(c) \in 0..Len(s) /\ 0 + Len(c) = Len(c)
    BY <1>1, <1>3, Messages DEF At
  <2> QED
    BY <2>1, ReachesShift
<1> QED
  BY <1>1, <1>2, <1>3

\* Another command may follow.
LEMMA WholeAppend ==
  ASSUME NEW s \in Seq(Field), WholeCommands(s), NEW c \in Commands
  PROVE  WholeCommands(s \o c)
<1> DEFINE u == s \o c
<1>1. c \in Seq(Field) /\ Len(c) \in Nat /\ Len(s) \in Nat /\ \A b \in Commands : Len(b) \in Nat
  BY Messages
<1>2. /\ u \in Seq(Field) /\ Len(u) = Len(s) + Len(c)
      /\ \A i \in 1..Len(s) : u[i] = s[i]
      /\ \A i \in 1..Len(c) : u[Len(s) + i] = c[i]
  BY <1>1
<1> HIDE DEF u
<1>3. PICK T : Chain(s, T) /\ 0 \in T
  BY WholeIs DEF Reaches
<1> DEFINE U == T \cup {Len(u)}
<1>4. \A k \in U : k = Len(u) \/ \E b \in Commands : At(u, k, b) /\ k + Len(b) \in U
  <2> TAKE k \in U
  <2>1. CASE k = Len(s)
    <3>1. At(u, k, c) /\ k + Len(c) \in U
      BY <1>1, <1>2, <2>1 DEF At
    <3> QED
      BY <3>1
  <2>2. ASSUME NEW b \in Commands, At(s, k, b), k + Len(b) \in T, k \in T
        PROVE  At(u, k, b)
    <3>1. k \in Nat /\ k + Len(b) <= Len(s) /\ \A i \in 1..Len(b) : s[k + i] = b[i]
      BY <1>1, <1>3, <2>2 DEF Chain, At
    <3>2. ASSUME NEW i \in 1..Len(b)
          PROVE  u[k + i] = b[i]
      <4>1. k + i \in 1..Len(s)
        BY <1>1, <3>1
      <4> QED
        BY <1>2, <3>1, <4>1
    <3> QED
      BY <1>1, <1>2, <3>1, <3>2 DEF At
  <2>3. CASE k \in T /\ k # Len(s)
    BY <1>3, <2>2, <2>3 DEF Chain
  <2> QED
    BY <2>1, <2>3
<1>5. U \subseteq 0..Len(u)
  <2>1. T \subseteq 0..Len(s)
    BY <1>3 DEF Chain
  <2>2. \A k \in 0..Len(s) : k \in 0..Len(u)
    BY <1>1, <1>2
  <2>3. Len(u) \in 0..Len(u)
    BY <1>1, <1>2
  <2> QED
    BY <2>1, <2>2, <2>3
<1>6. Chain(u, U) /\ 0 \in U
  BY <1>3, <1>4, <1>5 DEF Chain
<1>7. Reaches(u, 0)
  BY <1>6 DEF Reaches
<1>8. WholeCommands(u)
  BY <1>2, <1>7, WholeIs
<1> QED
  BY <1>8 DEF u

\* Dropping twice, and dropping from a stream that grows.
LEMMA DropMore ==
  ASSUME NEW s \in Seq(Field), NEW d \in Nat, NEW e \in Nat, d + e <= Len(s)
  PROVE  Drop(Drop(s, d), e) = Drop(s, d + e)
<1> DEFINE t == Drop(s, d)
           u == Drop(t, e)
           v == Drop(s, d + e)
           m == Len(s)
<1>1. m \in Nat /\ d \in 0..m /\ d + e \in 0..m /\ e \in 0..(m - d)
  OBVIOUS
<1>2. t \in Seq(Field) /\ Len(t) = m - d /\ \A i \in 1..(m - d) : t[i] = s[d + i]
  BY <1>1, DropIs
<1>3. /\ v \in Seq(Field) /\ Len(v) = m - (d + e)
      /\ \A i \in 1..(m - (d + e)) : v[i] = s[(d + e) + i]
  BY <1>1, DropIs
<1> HIDE DEF t
<1>4. u \in Seq(Field) /\ Len(u) = (m - d) - e /\ \A i \in 1..((m - d) - e) : u[i] = t[e + i]
  <2>1. t \in Seq(Field) /\ e \in 0..Len(t) /\ Len(t) = m - d
    BY <1>1, <1>2
  <2>2. u \in Seq(Field) /\ Len(u) = Len(t) - e /\ \A i \in 1..(Len(t) - e) : u[i] = t[e + i]
    BY <2>1, DropIs
  <2> QED
    BY <2>1, <2>2
<1> HIDE DEF u, v, m
<1>5. Len(u) = Len(v)
  BY <1>1, <1>3, <1>4
<1>6. ASSUME NEW i \in 1..Len(u)
      PROVE  u[i] = v[i]
  <2>1. /\ i \in 1..((m - d) - e) /\ i \in 1..(m - (d + e)) /\ e + i \in 1..(m - d)
        /\ d + (e + i) = (d + e) + i
    BY <1>1, <1>4
  <2> QED
    BY <1>2, <1>3, <1>4, <2>1
<1>7. u = v
  BY <1>3, <1>4, <1>5, <1>6, SeqEqual
<1> QED
  BY <1>7 DEF t, u, v

\* Dropping from a stream that grows.
LEMMA DropAppend ==
  ASSUME NEW s \in Seq(Field), NEW d \in 0..Len(s), NEW c \in Seq(Field)
  PROVE  Drop(s \o c, d) = Drop(s, d) \o c
<1> DEFINE t == Drop(s, d)
           u == t \o c
           w == s \o c
           v == Drop(w, d)
           m == Len(s)
           l == Len(c)
<1>1. m \in Nat /\ l \in Nat /\ d \in 0..m
  OBVIOUS
<1>2. t \in Seq(Field) /\ Len(t) = m - d /\ \A i \in 1..(m - d) : t[i] = s[d + i]
  BY DropIs
<1>3. /\ w \in Seq(Field) /\ Len(w) = m + l /\ \A i \in 1..m : w[i] = s[i]
      /\ \A i \in 1..l : w[m + i] = c[i]
  OBVIOUS
<1> HIDE DEF t, w
<1>4. /\ u \in Seq(Field) /\ Len(u) = Len(t) + l /\ \A i \in 1..Len(t) : u[i] = t[i]
      /\ \A i \in 1..l : u[Len(t) + i] = c[i]
  <2>1. t \in Seq(Field)
    BY <1>2
  <2> QED
    BY <2>1
<1>5. v \in Seq(Field) /\ Len(v) = Len(w) - d /\ \A i \in 1..(Len(w) - d) : v[i] = w[d + i]
  <2>1. d \in 0..Len(w)
    BY <1>1, <1>3
  <2> QED
    BY <1>3, <2>1, DropIs
<1> HIDE DEF u, v, m, l
<1>6. Len(u) = Len(v)
  BY <1>1, <1>2, <1>3, <1>4, <1>5
<1>7. ASSUME NEW i \in 1..Len(u)
      PROVE  u[i] = v[i]
  <2>1. v[i] = w[d + i]
    BY <1>5, <1>6
  <2>2. CASE i \in 1..(m - d)
    <3>1. d + i \in 1..m
      BY <1>1, <2>2
    <3> QED
      BY <1>2, <1>3, <1>4, <2>1, <2>2, <3>1
  <2>3. CASE i \notin 1..(m - d)
    <3>1. PICK j \in 1..l : i = (m - d) + j
      <4>1. i - (m - d) \in 1..l /\ i = (m - d) + (i - (m - d))
        BY <1>1, <1>2, <1>4, <2>3
      <4> QED
        BY <4>1
    <3>2. d + i = m + j
      BY <1>1, <3>1
    <3> QED
      BY <1>2, <1>3, <1>4, <2>1, <3>1, <3>2
  <2> QED
    BY <2>2, <2>3
<1>8. u = v
  BY <1>4, <1>5, <1>6, <1>7, SeqEqual
<1> QED
  BY <1>8 DEF t, u, v, w
-----------------------------------------------------------------------------
(* Where a parser stands in its stream.                                    *)

\* First messages; the console of client.c sends others than Logins.
Greetings == {msg \in Seq(Field) : Framed("version", msg)}

Heads(first) == IF first = "version" THEN Greetings ELSE Commands

\* s starts with what is left of msg after k fields.
Starts(s, msg, k) ==
  /\ Len(msg) - k <= Len(s)
  /\ \A i \in 1..(Len(msg) - k) : s[i] = msg[k + i]

\* The parser p has taken some fields of a message, the first of the stream s
\* are the others, and whole commands follow.
Within(first, p, s) ==
  \E msg \in Heads(first) : \E k \in 0..(Len(msg) - 1) :
    /\ p = Runs(ParserInit(first), msg)[k]
    /\ Starts(s, msg, k)
    /\ WholeCommands(Drop(s, Len(msg) - k))

\* First messages end with their last field.
LEMMA HeadsAreFramed ==
  ASSUME NEW first \in {"version", "type"}, NEW msg \in Heads(first)
  PROVE  /\ msg \in Seq(Field) /\ Len(msg) \in Nat /\ Len(msg) >= 1
         /\ is_done(Runs(ParserInit(first), msg)[Len(msg)])
         /\ \A k \in 0..(Len(msg) - 1) : ~is_done(Runs(ParserInit(first), msg)[k])
<1>1. msg \in Seq(Field) /\ Framed(first, msg)
  BY Messages, PrawtosAssumption DEF Heads, Greetings
<1>2. Len(msg) \in Nat /\ Len(msg) >= 1
  BY <1>1 DEF Framed
<1> QED
  BY <1>1, <1>2 DEF Framed

\* The parser is fed the fields a, with which the stream begins: either the
\* message ends within them and whole commands follow, or it goes on.
LEMMA Advance ==
  ASSUME NEW first \in {"version", "type"}, NEW p, NEW s \in Seq(Field), Within(first, p, s),
         NEW a \in Seq(Field), Len(a) <= Len(s), \A i \in 1..Len(a) : a[i] = s[i]
  PROVE  /\ is_done(consume(p, a).parser) => WholeCommands(Drop(s, consume(p, a).n))
         /\ ~is_done(consume(p, a).parser) =>
              Within(first, consume(p, a).parser, Drop(s, consume(p, a).n))
<1> DEFINE q == ParserInit(first)
<1>1. PICK msg \in Heads(first) : \E k \in 0..(Len(msg) - 1) :
        /\ p = Runs(q, msg)[k] /\ Starts(s, msg, k)
        /\ WholeCommands(Drop(s, Len(msg) - k))
  BY DEF Within
<1>2. PICK k \in 0..(Len(msg) - 1) :
        /\ p = Runs(q, msg)[k] /\ Starts(s, msg, k)
        /\ WholeCommands(Drop(s, Len(msg) - k))
  BY <1>1
<1> DEFINE r == Runs(q, msg)
           run == Runs(p, a)
           L == Len(msg)
<1>3. /\ msg \in Seq(Field) /\ L \in Nat /\ L >= 1 /\ is_done(r[L])
      /\ \A j \in 0..(L - 1) : ~is_done(r[j])
  BY HeadsAreFramed
<1>4. q \in Parser /\ p \in Parser
  <2>1. q \in Parser
    BY ParserStarts
  <2>2. k \in 0..L
    BY <1>3
  <2> HIDE DEF q
  <2> QED
    BY <1>2, <1>3, <2>1, <2>2, RunsType
<1>5. PICK e \in Nat : e = L - k
  <2>1. L - k \in Nat
    BY <1>3
  <2> QED
    BY <2>1
<1>6. /\ k \in Nat /\ k + e = L /\ e >= 1 /\ k \in 0..L
      /\ Len(a) \in Nat /\ Len(s) \in Nat
  BY <1>3, <1>5
<1>7. /\ e <= Len(s) /\ \A i \in 1..e : s[i] = msg[k + i]
      /\ WholeCommands(Drop(s, e))
  BY <1>2, <1>5 DEF Starts
<1>8. /\ consume(p, a).parser = run[Len(a)]
      /\ ~is_done(consume(p, a).parser) => consume(p, a).n = Len(a)
      /\ \A d \in 1..Len(a) :
           is_done(run[d]) /\ (\A j \in 1..(d - 1) : ~is_done(run[j])) => consume(p, a).n = d
  BY <1>4, ConsumeIs
<1>9. \A i, j \in 0..Len(a) : i <= j /\ is_done(run[i]) => run[j] = run[i]
  BY <1>4, RunsType
<1>10. ASSUME NEW d \in Nat, d <= Len(a), d <= e
       PROVE  \A i \in 0..d : run[i] = r[k + i]
  <2>1. \A i \in 1..d : a[i] = msg[k + i]
    BY <1>6, <1>7, <1>10
  <2>2. k + d <= Len(msg)
    BY <1>6, <1>10
  <2> HIDE DEF q
  <2>3. \A i \in 0..d : Runs(Runs(q, msg)[k], a)[i] = Runs(q, msg)[k + i]
    <3>1. msg \in Seq(Field) /\ k \in 0..Len(msg)
      BY <1>3, <1>6
    <3>2. Agree(a, msg, k, d)
      BY <1>10, <2>1, <2>2 DEF Agree
    <3> QED
      BY <3>1, <3>2, Splice
  <2> QED
    BY <1>2, <2>3
<1> HIDE DEF run, r, L
<1>11. CASE e <= Len(a)
  <2>1. run[e] = r[L] /\ \A i \in 1..(e - 1) : run[i] = r[k + i] /\ k + i \in 0..(L - 1)
    <3>1. e <= e
      BY <1>6
    <3>2. \A i \in 0..e : run[i] = r[k + i]
      BY <1>10, <1>11, <3>1
    <3>3. run[e] = r[L]
      <4>1. e \in 0..e /\ k + e = L
        BY <1>6
      <4> QED
        BY <3>2, <4>1
    <3>4. ASSUME NEW i \in 1..(e - 1)
          PROVE  run[i] = r[k + i] /\ k + i \in 0..(L - 1)
      <4>1. i \in 0..e /\ k + i \in 0..(L - 1)
        BY <1>6
      <4> QED
        BY <3>2, <4>1
    <3> QED
      BY <3>3, <3>4
  <2>2. e \in 1..Len(a) /\ is_done(run[e]) /\ \A i \in 1..(e - 1) : ~is_done(run[i])
    <3>1. e \in 1..Len(a)
      BY <1>6, <1>11
    <3> QED
      BY <1>3, <2>1, <3>1
  <2>3. consume(p, a).n = e
    BY <1>8, <2>2
  <2>4. run[Len(a)] = run[e]
    <3>1. e \in 0..Len(a) /\ Len(a) \in 0..Len(a) /\ e <= Len(a)
      BY <1>6, <1>11, <2>2
    <3>2. is_done(run[e])
      BY <2>2
    <3> QED
      BY <1>9, <3>1, <3>2
  <2> QED
    BY <1>7, <1>8, <2>2, <2>3, <2>4
<1>12. CASE ~(e <= Len(a))
  <2>1. PICK l \in Nat : l = Len(a) /\ l < e
    BY <1>6, <1>12
  <2>2. run[l] = r[k + l] /\ k + l \in 0..(L - 1)
    <3>1. \A i \in 0..l : run[i] = r[k + i]
      BY <1>10, <2>1
    <3> QED
      BY <1>6, <2>1, <3>1
  <2>3. ~is_done(run[l]) /\ consume(p, a).parser = run[l] /\ consume(p, a).n = l
    BY <1>3, <1>8, <2>1, <2>2
  <2>4. PICK j \in 0..(L - 1) : j = k + l
    BY <2>2
  <2>5. /\ Drop(s, l) \in Seq(Field) /\ Len(Drop(s, l)) = Len(s) - l
        /\ \A i \in 1..(Len(s) - l) : Drop(s, l)[i] = s[l + i]
    <3>1. l \in 0..Len(s)
      BY <1>6, <2>1
    <3> QED
      BY <3>1, DropIs
  <2>6. L - j = e - l /\ e - l \in Nat
    BY <1>3, <1>6, <2>1, <2>4
  <2>7. Starts(Drop(s, l), msg, j)
    <3>1. ASSUME NEW i \in 1..(e - l)
          PROVE  Drop(s, l)[i] = msg[j + i]
      <4>1. i \in 1..(Len(s) - l) /\ l + i \in 1..e /\ k + (l + i) = j + i
        <5>1. i \in Nat /\ i >= 1 /\ l + i <= e /\ e <= Len(s) /\ j = k + l
          BY <1>6, <1>7, <2>1, <2>4
        <5> QED
          BY <1>6, <2>1, <5>1
      <4> QED
        BY <1>7, <2>5, <4>1
    <3>2. e - l <= Len(s) - l
      BY <1>6, <1>7, <2>1
    <3> QED
      BY <2>5, <2>6, <3>1, <3>2 DEF Starts, L
  <2>8. Drop(Drop(s, l), L - j) = Drop(s, e)
    <3>1. PICK x \in Nat : x = L - j /\ l + x = e
      BY <2>1, <2>6
    <3>2. Drop(Drop(s, l), x) = Drop(s, l + x)
      BY <1>7, <2>1, <3>1, DropMore
    <3> QED
      BY <3>1, <3>2
  <2>9. Within(first, run[l], Drop(s, l))
    BY <1>7, <2>2, <2>4, <2>7, <2>8 DEF Within, r, L
  <2> QED
    BY <2>3, <2>9
<1> QED
  BY <1>11, <1>12

\* The client sends another command.
LEMMA WithinGrows ==
  ASSUME NEW first \in {"version", "type"}, NEW p, NEW s \in Seq(Field), Within(first, p, s),
         NEW c \in Commands
  PROVE  Within(first, p, s \o c)
<1>1. PICK msg \in Heads(first) : \E k \in 0..(Len(msg) - 1) :
        /\ p = Runs(ParserInit(first), msg)[k] /\ Starts(s, msg, k)
        /\ WholeCommands(Drop(s, Len(msg) - k))
  BY DEF Within
<1>2. PICK k \in 0..(Len(msg) - 1) :
        /\ p = Runs(ParserInit(first), msg)[k] /\ Starts(s, msg, k)
        /\ WholeCommands(Drop(s, Len(msg) - k))
  BY <1>1
<1>3. msg \in Seq(Field) /\ Len(msg) \in Nat /\ c \in Seq(Field) /\ Len(c) \in Nat
  BY HeadsAreFramed, Messages
<1>4. PICK e \in Nat : e = Len(msg) - k
  <2>1. Len(msg) - k \in Nat
    BY <1>3
  <2> QED
    BY <2>1
<1>5. Len(s) \in Nat /\ e <= Len(s) /\ \A i \in 1..e : s[i] = msg[k + i]
  BY <1>2, <1>4 DEF Starts
<1>6. /\ Len(s \o c) = Len(s) + Len(c)
      /\ \A i \in 1..Len(s) : (s \o c)[i] = s[i]
  BY <1>3
<1>7. Starts(s \o c, msg, k)
  <2>1. e <= Len(s \o c)
    BY <1>3, <1>5, <1>6
  <2>2. \A i \in 1..e : (s \o c)[i] = msg[k + i]
    BY <1>5, <1>6
  <2> QED
    BY <1>4, <2>1, <2>2 DEF Starts
<1>8. WholeCommands(Drop(s \o c, e))
  <2>1. e \in 0..Len(s)
    BY <1>5
  <2>2. Drop(s \o c, e) = Drop(s, e) \o c /\ Drop(s, e) \in Seq(Field)
    BY <1>3, <2>1, DropAppend, DropIs
  <2>3. WholeCommands(Drop(s, e))
    BY <1>2, <1>4
  <2> QED
    BY <2>2, <2>3, WholeAppend
<1> QED
  BY <1>2, <1>4, <1>7, <1>8 DEF Within

\* A parser at its start, and the whole of a message followed by commands.
LEMMA WithinStarts ==
  ASSUME NEW first \in {"version", "type"}, NEW msg \in Heads(first), NEW s \in Seq(Field),
         At(s, 0, msg), WholeCommands(Drop(s, Len(msg)))
  PROVE  Within(first, ParserInit(first), s)
<1>1. msg \in Seq(Field) /\ Len(msg) \in Nat /\ Len(msg) >= 1
  BY HeadsAreFramed
<1>2. Runs(ParserInit(first), msg)[0] = ParserInit(first)
  BY <1>1, RunsStep
<1>3. 0 \in 0..(Len(msg) - 1) /\ Len(msg) - 0 = Len(msg) /\ 0 + Len(msg) = Len(msg)
  BY <1>1
<1>4. Starts(s, msg, 0)
  BY <1>1, <1>3 DEF At, Starts
<1> QED
  BY <1>2, <1>3, <1>4 DEF Within

\* The first message is sent.
LEMMA FirstMessage ==
  ASSUME NEW msg \in Greetings
  PROVE  Within("version", ParserInit("version"), msg)
<1>1. msg \in Heads("version")
  BY DEF Heads
<1>2. msg \in Seq(Field) /\ Len(msg) \in Nat
  BY <1>1, HeadsAreFramed
<1>3. At(msg, 0, msg)
  BY <1>2 DEF At
<1>4. Drop(msg, Len(msg)) \in Seq(Field) /\ Len(Drop(msg, Len(msg))) = 0
  <2>1. Len(msg) \in 0..Len(msg) /\ Len(msg) - Len(msg) = 0
    BY <1>2
  <2> QED
    BY <1>2, <2>1, DropIs
<1>5. WholeCommands(Drop(msg, Len(msg)))
  <2> DEFINE t == Drop(msg, Len(msg))
  <2>1. t \in Seq(Field) /\ t = <<>>
    BY <1>4
  <2> HIDE DEF t
  <2>2. WholeCommands(t)
    BY <2>1, WholeStep
  <2> QED
    BY <2>2 DEF t
<1> QED
  BY <1>1, <1>2, <1>3, <1>5, WithinStarts

\* A parser of commands that stands within one, or before whole commands.
Ready(p, s) == Within("type", p, s) \/ (p = ParserInit("type") /\ s = <<>>)

\* A fresh parser before whole commands is ready, and a ready parser in state
\* type is before whole commands.
LEMMA ReadyIsWhole ==
  ASSUME NEW s \in Seq(Field)
  PROVE  /\ WholeCommands(s) => Ready(ParserInit("type"), s)
         /\ \A p : Ready(p, s) /\ p.state = "type" => WholeCommands(s)
<1>1. ASSUME WholeCommands(s)
      PROVE  Ready(ParserInit("type"), s)
  <2>1. CASE s = <<>>
    BY <2>1 DEF Ready
  <2>2. CASE s # <<>>
    <3>1. PICK c \in Commands : At(s, 0, c) /\ WholeCommands(Drop(s, Len(c)))
      BY <1>1, <2>2, WholeStep
    <3>2. c \in Heads("type")
      BY DEF Heads
    <3> QED
      BY <3>1, <3>2, WithinStarts DEF Ready
  <2> QED
    BY <2>1, <2>2
<1>2. ASSUME NEW p, Within("type", p, s), p.state = "type"
      PROVE  WholeCommands(s)
  <2>1. PICK msg \in Heads("type") : \E k \in 0..(Len(msg) - 1) :
          /\ p = Runs(ParserInit("type"), msg)[k] /\ Starts(s, msg, k)
          /\ WholeCommands(Drop(s, Len(msg) - k))
    BY <1>2 DEF Within
  <2>2. PICK k \in 0..(Len(msg) - 1) :
          /\ p = Runs(ParserInit("type"), msg)[k] /\ Starts(s, msg, k)
          /\ WholeCommands(Drop(s, Len(msg) - k))
    BY <2>1
  <2>3. msg \in Commands /\ msg \in Seq(Field) /\ Len(msg) \in Nat
    BY HeadsAreFramed DEF Heads
  <2>4. k = 0
    <3>1. ParserInit("type") \in Parser
      BY ParserStarts
    <3>2. \A j \in 1..Len(msg) : Runs(ParserInit("type"), msg)[j].state \notin {"type", "version"}
      BY <2>3, <3>1, RunsType
    <3>3. k \notin 1..Len(msg)
      BY <1>2, <2>2, <3>2
    <3> QED
      BY <2>3, <3>3
  <2>5. Starts(s, msg, 0) /\ WholeCommands(Drop(s, Len(msg) - 0)) /\ Len(msg) - 0 = Len(msg)
    BY <2>2, <2>3, <2>4
  <2>6. At(s, 0, msg)
    BY <2>3, <2>5 DEF Starts, At
  <2> QED
    BY <2>3, <2>5, <2>6, WholeStep
<1>3. s = <<>> => WholeCommands(s)
  BY WholeStep
<1> QED
  BY <1>1, <1>2, <1>3 DEF Ready
-----------------------------------------------------------------------------
(* The inductive invariant.                                                *)

Writing == {"AUTH_WRITE", "CMD_WRITE"}

Session ==
  [st : {"closed", "AUTH_READ", "AUTH_WRITE", "CMD_READ", "CMD_WRITE"},
   interest : {READ, WRITE}, parser : Parser, in : Seq(Field),
   read_buffer : Pointers, write_buffer : Pointers,
   status : {"success", "bad_credentials", "user_credentia"}, login : BOOLEAN,
   wire : Seq(Field), greeted : BOOLEAN, gone : BOOLEAN]

\* What is still to be parsed, received or not.
Stream(rec) == rec.in \o rec.wire

\* Where the parser stands in the stream.
Aligned(rec) ==
  /\ rec.st = "AUTH_READ" /\ rec.greeted => Within("version", rec.parser, Stream(rec))
  /\ rec.st = "AUTH_READ" /\ ~rec.greeted =>
       rec.parser = ParserInit("version") /\ rec.in = <<>> /\ rec.wire = <<>>
  /\ rec.st = "CMD_READ" => Ready(rec.parser, Stream(rec))
  /\ rec.st \in Writing => WholeCommands(Stream(rec))
  /\ rec.st \in Writing \cup {"CMD_READ"} => rec.greeted

\* An answer is in write_buffer exactly while the session waits to write.
Answering(rec) ==
  /\ rec.st \in Writing => rec.interest = WRITE /\ rec.write_buffer.read < rec.write_buffer.write
  /\ rec.st \notin Writing => rec.interest = READ /\ rec.write_buffer = Empty

\* Commands come from administrators.
Admitted(rec) ==
  /\ rec.st \in {"CMD_READ", "CMD_WRITE"} => rec.login
  /\ rec.st = "AUTH_WRITE" /\ rec.status = "success" => rec.login

Proper(rec) ==
  /\ rec \in Session
  /\ Len(rec.in) = buffer_read_avail(rec.read_buffer)
  /\ Aligned(rec) /\ Answering(rec) /\ Admitted(rec)

\* The size is that of the list, in which a search finds at most one of a name.
Listed(u) ==
  /\ u \in [list : Seq(User), size : Nat]
  /\ u.size = Len(u.list)
  /\ \A i, j \in 1..Len(u.list) :
       u.list[i].unul /\ u.list[j].unul /\ i # j => u.list[i].name # u.list[j].name

Counters == [concurrentConnections : 0..UINT16_MAX, totalConnections : 0..UINT16_MAX]

Inv ==
  /\ mgr \in [Manager -> Session] /\ \A m \in Manager : Proper(mgr[m])
  /\ Listed(users)
  /\ stadistics \in Counters /\ proxies \in Nat /\ NeverOverReports
  /\ fault \in {"none", "overflow", "wild_call", "null_strcpy"}
  /\ fault = "overflow" => users.size + 1 > BUFFER_SIZE
-----------------------------------------------------------------------------
(* Reading.                                                                *)

\* Concatenation of fields.
LEMMA Associative ==
  \A s, t, u \in Seq(Field) : (s \o t) \o u = s \o (t \o u)
  BY ConcatAssociative

\* A stream with fields on the wire is not empty.
LEMMA NotEmpty ==
  \A s, t \in Seq(Field) : t # <<>> => s \o t # <<>>
<1> SUFFICES ASSUME NEW s \in Seq(Field), NEW t \in Seq(Field), t # <<>>
             PROVE  s \o t # <<>>
  OBVIOUS
<1>1. Len(t) # 0 /\ Len(s) \in Nat /\ Len(t) \in Nat /\ Len(s \o t) = Len(s) + Len(t)
  OBVIOUS
<1>2. Len(s \o t) # 0
  BY <1>1
<1> QED
  BY <1>2

\* recv moves fields from the wire to the buffer: the stream stays the same.
LEMMA RecvKeepsStream ==
  ASSUME NEW in \in Seq(Field), NEW wire \in Seq(Field), NEW n \in 0..Len(wire)
  PROVE  /\ in \o SubSeq(wire, 1, n) \in Seq(Field)
         /\ Len(in \o SubSeq(wire, 1, n)) = Len(in) + n
         /\ (in \o SubSeq(wire, 1, n)) \o Drop(wire, n) = in \o wire
<1> DEFINE t == SubSeq(wire, 1, n)
           v == Drop(wire, n)
           w == t \o v
<1>1. Len(wire) \in Nat /\ n \in Nat /\ n <= Len(wire) /\ Len(in) \in Nat
  OBVIOUS
<1>2. t \in Seq(Field) /\ Len(t) = n /\ \A i \in 1..n : t[i] = wire[i]
  <2>1. 1 \in 1..(Len(wire) + 1) /\ n \in 0..Len(wire)
    BY <1>1
  <2>2. SubSeq(wire, 1, n) \in Seq(Field) /\ Len(SubSeq(wire, 1, n)) = n
    BY <1>1, <2>1
  <2>3. \A i \in 1..n : SubSeq(wire, 1, n)[i] = wire[i]
    BY <1>1, <2>1
  <2> QED
    BY <2>2, <2>3
<1>3. /\ v \in Seq(Field) /\ Len(v) = Len(wire) - n
      /\ \A i \in 1..(Len(wire) - n) : v[i] = wire[n + i]
  BY DropIs
<1> HIDE DEF t, v
<1>4. t \in Seq(Field) /\ v \in Seq(Field)
  BY <1>2, <1>3
<1>5. /\ w \in Seq(Field) /\ Len(w) = Len(t) + Len(v) /\ \A i \in 1..Len(t) : w[i] = t[i]
      /\ \A i \in 1..Len(v) : w[Len(t) + i] = v[i]
  BY <1>4
<1>6. (in \o t) \o v = in \o w /\ in \o t \in Seq(Field) /\ Len(in \o t) = Len(in) + Len(t)
  <2>1. (in \o t) \o v = in \o (t \o v)
    BY <1>4, Associative
  <2>2. in \o t \in Seq(Field) /\ Len(in \o t) = Len(in) + Len(t)
    BY <1>4
  <2> QED
    BY <2>1, <2>2
<1> HIDE DEF w
<1>7. Len(w) = Len(wire)
  BY <1>1, <1>2, <1>3, <1>5
<1>8. ASSUME NEW i \in 1..Len(w)
      PROVE  w[i] = wire[i]
  <2>1. CASE i \in 1..n
    BY <1>2, <1>5, <2>1
  <2>2. CASE i \notin 1..n
    <3>1. PICK j \in 1..(Len(wire) - n) : i = n + j
      <4>1. i - n \in 1..(Len(wire) - n) /\ i = n + (i - n)
        BY <1>1, <1>7, <2>2
      <4> QED
        BY <4>1
    <3> QED
      BY <1>2, <1>3, <1>5, <3>1
  <2> QED
    BY <2>1, <2>2
<1>9. w = wire
  BY <1>5, <1>7, <1>8, SeqEqual
<1> QED
  BY <1>2, <1>6, <1>9 DEF t, v

\* recv fills a buffer.
LEMMA Filled ==
  ASSUME NEW b \in Pointers, NEW n \in Nat, n <= buffer_write_room(b, BUFFER_SIZE)
  PROVE  /\ buffer_write_adv(b, n) \in Pointers
         /\ buffer_write_adv(b, n).read = b.read /\ buffer_write_adv(b, n).write = b.write + n
<1> DEFINE size == 0..BUFFER_SIZE
<1>1. b.read \in size /\ b.write \in size /\ b.write + n \in size
  BY PrawtosAssumption DEF Pointers, buffer_write_room
<1>2. b \in [read : size, write : size]
  BY DEF Pointers
<1> HIDE DEF size
<1> QED
  BY <1>1, <1>2 DEF Pointers, buffer_write_adv, size

\* A parser or send empties one; what is drained is rewound.
LEMMA Drained ==
  ASSUME NEW b \in Pointers, NEW k \in Nat, k <= buffer_read_avail(b)
  PROVE  /\ buffer_read_adv(b, k) \in Pointers
         /\ buffer_read_avail(buffer_read_adv(b, k)) = buffer_read_avail(b) - k
         /\ buffer_can_read(buffer_read_adv(b, k)) =>
              buffer_read_adv(b, k).read < buffer_read_adv(b, k).write
         /\ ~buffer_can_read(buffer_read_adv(b, k)) => buffer_read_adv(b, k) = Empty
<1> DEFINE size == 0..BUFFER_SIZE
           r == b.read + k
           c == [b EXCEPT !.read = r]
<1>1. /\ b.read \in size /\ b.write \in size /\ r \in size /\ r <= b.write /\ 0 \in size
      /\ size \subseteq Nat
  BY PrawtosAssumption DEF Pointers, buffer_read_avail
<1>2. b = [read |-> b.read, write |-> b.write]
  BY DEF Pointers
<1>3. c = [read |-> r, write |-> b.write]
  BY <1>2
<1> HIDE DEF c
<1>4. buffer_read_adv(b, k) = IF r = b.write THEN Empty ELSE c
  <2>1. buffer_reset(c) = Empty
    <3> DEFINE x == [c EXCEPT !.read = 0]
    <3>1. x = [read |-> 0, write |-> b.write]
      BY <1>3
    <3>2. buffer_reset(c) = [x EXCEPT !.write = 0]
      BY DEF buffer_reset
    <3> HIDE DEF x
    <3> QED
      BY <3>1, <3>2 DEF Empty
  <2>2. buffer_read_adv(b, k) = IF c.read = c.write THEN buffer_reset(c) ELSE c
    BY DEF buffer_read_adv, c
  <2> QED
    BY <1>3, <2>1, <2>2
<1>5. CASE r = b.write
  <2>1. buffer_read_adv(b, k) = Empty
    BY <1>4, <1>5
  <2>2. /\ Empty \in Pointers /\ buffer_read_avail(Empty) = 0 /\ ~buffer_can_read(Empty)
    BY <1>1 DEF Empty, Pointers, buffer_read_avail, buffer_can_read, size
  <2>3. buffer_read_avail(b) - k = 0
    BY <1>1, <1>5 DEF buffer_read_avail
  <2> QED
    BY <2>1, <2>2, <2>3
<1>6. CASE r # b.write
  <2>1. buffer_read_adv(b, k) = c
    BY <1>4, <1>6
  <2>2. c \in Pointers /\ c.read = r /\ c.write = b.write
    BY <1>1, <1>3 DEF Pointers, size
  <2>3. r < b.write /\ b.write - r = (b.write - b.read) - k /\ b.write - r > 0
    BY <1>1, <1>6
  <2> HIDE DEF r
  <2> QED
    BY <2>1, <2>2, <2>3 DEF buffer_read_avail, buffer_can_read
<1> QED
  BY <1>5, <1>6

\* The bounds of a recv.
LEMMA ReceivedIs ==
  ASSUME NEW m, mgr[m] \in Session, NEW n \in Received(m)
  PROVE  /\ n \in Nat /\ n >= 1 /\ n <= Len(mgr[m].wire)
         /\ n <= buffer_write_room(mgr[m].read_buffer, BUFFER_SIZE)
<1> DEFINE l == Len(mgr[m].wire)
           room == buffer_write_room(mgr[m].read_buffer, BUFFER_SIZE)
<1>1. mgr[m].read_buffer \in Pointers /\ mgr[m].wire \in Seq(Field)
  BY DEF Session
<1>2. l \in Nat /\ room \in Nat
  BY <1>1, PrawtosAssumption DEF Pointers, buffer_write_room
<1> HIDE DEF l, room
<1>3. {l, room} \subseteq Nat /\ {l, room} # {}
  BY <1>2
<1>4. Min({l, room}) \in {l, room} /\ \A k \in {l, room} : Min({l, room}) <= k
  BY <1>3, MinIsLeast
<1>5. n \in 1..Min({l, room})
  BY DEF Received, l, room
<1> QED
  BY <1>2, <1>4, <1>5 DEF l, room

\* The state in which a session reads, and the start of its parser.
Reading(st, first) ==
  (st = "AUTH_READ" /\ first = "version") \/ (st = "CMD_READ" /\ first = "type")

\* What is left after a recv and the parser.
LEMMA ParsedIs ==
  ASSUME NEW m, Proper(mgr[m]), NEW first, Reading(mgr[m].st, first), NEW n \in Received(m)
  PROVE  /\ Parsed(m, n) \in Session
         /\ Len(Parsed(m, n).in) = buffer_read_avail(Parsed(m, n).read_buffer)
         /\ Parsed(m, n).st = mgr[m].st /\ Parsed(m, n).interest = READ
         /\ Parsed(m, n).write_buffer = Empty /\ Parsed(m, n).status = mgr[m].status
         /\ Parsed(m, n).login = mgr[m].login /\ Parsed(m, n).greeted
         /\ is_done(Parsed(m, n).parser) => WholeCommands(Stream(Parsed(m, n)))
         /\ ~is_done(Parsed(m, n).parser) =>
              Within(first, Parsed(m, n).parser, Stream(Parsed(m, n)))
<1> DEFINE old == mgr[m]
           a == old.in \o SubSeq(old.wire, 1, n)
           c == consume(old.parser, a)
           w == Drop(old.wire, n)
           new == Parsed(m, n)
           b == buffer_write_adv(old.read_buffer, n)
<1>1. /\ old \in Session /\ old.in \in Seq(Field) /\ old.wire \in Seq(Field) /\ old.parser \in Parser
      /\ old.read_buffer \in Pointers /\ Len(old.in) = buffer_read_avail(old.read_buffer)
  BY DEF Proper, Session
<1>2. /\ n \in Nat /\ n >= 1 /\ n <= Len(old.wire) /\ n \in 0..Len(old.wire)
      /\ n <= buffer_write_room(old.read_buffer, BUFFER_SIZE)
  BY <1>1, ReceivedIs
<1>3. a \in Seq(Field) /\ Len(a) = Len(old.in) + n /\ a \o w = Stream(old)
  BY <1>1, <1>2, RecvKeepsStream DEF Stream
<1>4. w \in Seq(Field)
  BY <1>1, <1>2, DropIs
<1> HIDE DEF a, w
<1>5. /\ c.n \in 0..Len(a) /\ c.parser \in Parser
  BY <1>1, <1>3, ConsumeIs
<1>6. Drop(a, c.n) \in Seq(Field) /\ Len(Drop(a, c.n)) = Len(a) - c.n
  BY <1>3, <1>5, DropIs
<1>7. b \in Pointers /\ buffer_read_avail(b) = Len(a)
  <2>1. b \in Pointers /\ b.read = old.read_buffer.read /\ b.write = old.read_buffer.write + n
    BY <1>1, <1>2, Filled
  <2>2. old.read_buffer.read \in Nat /\ old.read_buffer.write \in Nat
    BY <1>1, PrawtosAssumption DEF Pointers
  <2>3. Len(old.in) = old.read_buffer.write - old.read_buffer.read
    BY <1>1 DEF buffer_read_avail
  <2>4. b.write - b.read = Len(a)
    BY <1>2, <1>3, <2>1, <2>2, <2>3
  <2> QED
    BY <2>1, <2>4 DEF buffer_read_avail
<1>8. /\ buffer_read_adv(b, c.n) \in Pointers
      /\ buffer_read_avail(buffer_read_adv(b, c.n)) = Len(a) - c.n
  <2>1. c.n \in Nat /\ c.n <= buffer_read_avail(b)
    BY <1>3, <1>5, <1>7
  <2> QED
    BY <1>7, <2>1, Drained
<1>9. new = [old EXCEPT !.wire = w, !.in = Drop(a, c.n),
                        !.read_buffer = buffer_read_adv(b, c.n), !.parser = c.parser]
  BY DEF Parsed, Drop, a, w
<1> HIDE DEF new, c, b
<1>10. /\ new \in Session /\ new.wire = w /\ new.in = Drop(a, c.n)
       /\ new.read_buffer = buffer_read_adv(b, c.n) /\ new.parser = c.parser
       /\ new.st = old.st /\ new.interest = old.interest /\ new.write_buffer = old.write_buffer
       /\ new.status = old.status /\ new.login = old.login /\ new.greeted = old.greeted
  BY <1>1, <1>4, <1>5, <1>6, <1>8, <1>9 DEF Session
<1>11. Stream(new) = Drop(a \o w, c.n)
  <2>1. Drop(a \o w, c.n) = Drop(a, c.n) \o w
    BY <1>3, <1>4, <1>5, DropAppend
  <2> QED
    BY <1>10, <2>1 DEF Stream
<1>12. old.wire # <<>> /\ Stream(old) \in Seq(Field)
  <2>1. Stream(old) \in Seq(Field)
    BY <1>1 DEF Stream
  <2>2. Len(old.wire) # 0
    BY <1>2
  <2> QED
    BY <2>1, <2>2
<1>13. old.interest = READ /\ old.write_buffer = Empty /\ old.greeted
  BY <1>12 DEF Proper, Aligned, Answering, Reading, Writing
<1>14. first \in {"version", "type"} /\ Within(first, old.parser, Stream(old))
  <2>1. CASE old.st = "AUTH_READ" /\ first = "version"
    BY <1>13, <2>1 DEF Proper, Aligned
  <2>2. CASE old.st = "CMD_READ" /\ first = "type"
    <3>1. Stream(old) # <<>>
      BY <1>1, <1>12, NotEmpty DEF Stream
    <3> QED
      BY <2>2, <3>1 DEF Proper, Aligned, Ready
  <2> QED
    BY <2>1, <2>2 DEF Reading
<1>15. /\ is_done(c.parser) => WholeCommands(Drop(a \o w, c.n))
       /\ ~is_done(c.parser) => Within(first, c.parser, Drop(a \o w, c.n))
  <2>1. Within(first, old.parser, a \o w) /\ a \o w \in Seq(Field)
    BY <1>3, <1>12, <1>14
  <2>2. Len(a) <= Len(a \o w) /\ \A i \in 1..Len(a) : a[i] = (a \o w)[i]
    BY <1>3, <1>4
  <2> QED
    BY <1>3, <1>14, <2>1, <2>2, Advance DEF c
<1> QED
  BY <1>6, <1>8, <1>10, <1>11, <1>13, <1>15 DEF new
-----------------------------------------------------------------------------
(* The list of users.                                                      *)

\* Position is that of a user of that name, if a search finds one.
LEMMA PositionIs ==
  ASSUME NEW u, Listed(u), NEW n
  PROVE  /\ Position(u, n) \in 0..Len(u.list)
         /\ Position(u, n) # 0 => SameName(u.list[Position(u, n)], n)
         /\ Position(u, n) = 0 => \A i \in 1..Len(u.list) : ~SameName(u.list[i], n)
<1> DEFINE I == {i \in 1..Len(u.list) : SameName(u.list[i], n)}
           m == Len(u.list)
<1>1. m \in Nat
  BY DEF Listed
<1>2. Position(u, n) = IF I # {} THEN Min(I) ELSE 0
  BY DEF Position, SelectInSeq
<1>3. CASE I = {}
  <2>1. Position(u, n) = 0
    BY <1>2, <1>3
  <2> QED
    BY <1>1, <1>3, <2>1
<1>4. CASE I # {}
  <2>1. I \subseteq Nat
    BY <1>1
  <2>2. Min(I) \in I
    <3> HIDE DEF I
    <3> QED
      BY <1>4, <2>1, MinIsLeast
  <2>3. Position(u, n) \in I
    <3> HIDE DEF I
    <3> QED
      BY <1>2, <1>4, <2>2
  <2> QED
    BY <1>1, <2>3
<1> QED
  BY <1>3, <1>4

\* add_user keeps names apart.
LEMMA AddKeepsList ==
  ASSUME NEW u, Listed(u), NEW user \in User
  PROVE  Listed(add_user(u, user))
<1> DEFINE v == [list |-> Append(u.list, user), size |-> u.size + 1]
           l == Append(u.list, user)
           m == Len(u.list)
<1>1. /\ u.list \in Seq(User) /\ m \in Nat /\ u.size = m
      /\ \A i, j \in 1..m : u.list[i].unul /\ u.list[j].unul /\ i # j =>
                            u.list[i].name # u.list[j].name
  BY DEF Listed
<1>2. SUFFICES ASSUME Position(u, user.name) = 0
               PROVE  Listed(v)
  BY DEF add_user
<1>3. \A i \in 1..m : ~SameName(u.list[i], user.name)
  BY <1>2, PositionIs
<1>4. /\ l \in Seq(User) /\ Len(l) = m + 1
      /\ \A i \in 1..m : l[i] = u.list[i]
      /\ l[m + 1] = user
  BY <1>1
<1> HIDE DEF l, m
<1>5. \A i \in 1..m : l[i].unul => l[i].name # user.name
  BY <1>3, <1>4 DEF SameName
<1>6. ASSUME NEW i \in 1..(m + 1), NEW j \in 1..(m + 1), l[i].unul, l[j].unul, i # j
      PROVE  l[i].name # l[j].name
  <2>1. i \in 1..m \/ i = m + 1
    BY <1>1
  <2>2. j \in 1..m \/ j = m + 1
    BY <1>1
  <2>3. CASE i \in 1..m /\ j \in 1..m
    BY <1>1, <1>4, <1>6, <2>3
  <2>4. CASE i \in 1..m /\ j = m + 1
    BY <1>4, <1>5, <1>6, <2>4
  <2>5. CASE i = m + 1 /\ j \in 1..m
    BY <1>4, <1>5, <1>6, <2>5
  <2> QED
    BY <1>6, <2>1, <2>2, <2>3, <2>4, <2>5
<1>7. v.list = l /\ v.size = m + 1 /\ v \in [list : Seq(User), size : Nat]
  <2>1. v = [list |-> l, size |-> m + 1]
    BY <1>1 DEF l
  <2> QED
    BY <1>1, <1>4, <2>1
<1> HIDE DEF v
<1> QED
  BY <1>4, <1>6, <1>7 DEF Listed

\* RemoveAt, element by element.
LEMMA RemoveAtIs ==
  ASSUME NEW S, NEW l \in Seq(S), NEW p \in 1..Len(l)
  PROVE  /\ RemoveAt(l, p) \in Seq(S) /\ Len(RemoveAt(l, p)) = Len(l) - 1
         /\ \A i \in 1..(Len(l) - 1) : RemoveAt(l, p)[i] = l[IF i < p THEN i ELSE i + 1]
<1> DEFINE m == Len(l)
           a == SubSeq(l, 1, p - 1)
           b == SubSeq(l, p + 1, m)
           w == a \o b
<1>1. m \in Nat /\ p \in Nat /\ p >= 1 /\ p <= m
  OBVIOUS
<1>2. a \in Seq(S) /\ Len(a) = p - 1 /\ \A i \in 1..(p - 1) : a[i] = l[i]
  <2>1. 1 \in 1..(m + 1) /\ p - 1 \in 0..m /\ (p - 1) - 1 + 1 = p - 1
    BY <1>1
  <2>2. SubSeq(l, 1, p - 1) \in Seq(S) /\ Len(SubSeq(l, 1, p - 1)) = p - 1
    BY <1>1, <2>1
  <2>3. \A i \in 1..(p - 1) : SubSeq(l, 1, p - 1)[i] = l[i]
    BY <1>1, <2>1
  <2> QED
    BY <2>2, <2>3
<1>3. b \in Seq(S) /\ Len(b) = m - p /\ \A i \in 1..(m - p) : b[i] = l[p + i]
  <2>1. p + 1 \in 1..(m + 1) /\ m \in p..m
    BY <1>1
  <2>2. SubSeq(l, p + 1, m) \in Seq(S) /\ Len(SubSeq(l, p + 1, m)) = m - p
    BY <1>1, <2>1
  <2>3. \A i \in 1..(m - p) : SubSeq(l, p + 1, m)[i] = l[p + i]
    BY <1>1, <2>1
  <2> QED
    BY <2>2, <2>3
<1> HIDE DEF a, b
<1>4. a \in Seq(S) /\ b \in Seq(S)
  BY <1>2, <1>3
<1>5. /\ w \in Seq(S) /\ Len(w) = Len(a) + Len(b) /\ \A i \in 1..Len(a) : w[i] = a[i]
      /\ \A i \in 1..Len(b) : w[Len(a) + i] = b[i]
  BY <1>4
<1>6. RemoveAt(l, p) = w
  BY DEF RemoveAt, a, b
<1> HIDE DEF w, m
<1>7. Len(w) = m - 1
  BY <1>1, <1>2, <1>3, <1>5
<1>8. ASSUME NEW i \in 1..(m - 1)
      PROVE  w[i] = l[IF i < p THEN i ELSE i + 1]
  <2>1. CASE i < p
    <3>1. i \in 1..(p - 1)
      BY <1>1, <2>1
    <3> QED
      BY <1>2, <1>5, <2>1, <3>1
  <2>2. CASE ~(i < p)
    <3>1. PICK j \in 1..(m - p) : i = (p - 1) + j /\ p + j = i + 1
      <4>1. i - (p - 1) \in 1..(m - p) /\ i = (p - 1) + (i - (p - 1)) /\ p + (i - (p - 1)) = i + 1
        BY <1>1, <2>2
      <4> QED
        BY <4>1
    <3> QED
      BY <1>2, <1>3, <1>5, <2>2, <3>1
  <2> QED
    BY <2>1, <2>2
<1> QED
  BY <1>5, <1>6, <1>7, <1>8 DEF m

\* What delete_user leaves: the users before and behind the one found.
LEMMA DeleteIs ==
  ASSUME NEW u, Listed(u), NEW n, Position(u, n) # 0
  PROVE  /\ delete_user(u, n) \in [list : Seq(User), size : Nat]
         /\ delete_user(u, n).size = Len(u.list) - 1
         /\ Len(delete_user(u, n).list) = Len(u.list) - 1
         /\ \A i \in 1..(Len(u.list) - 1) :
              delete_user(u, n).list[i] = u.list[IF i < Position(u, n) THEN i ELSE i + 1]
<1> DEFINE m == Len(u.list)
           p == Position(u, n)
           v == delete_user(u, n)
           l == RemoveAt(u.list, p)
<1>1. u.list \in Seq(User) /\ m \in Nat /\ u.size = m
  BY DEF Listed
<1>2. p \in 1..m
  BY <1>1, PositionIs
<1>3. v = [list |-> l, size |-> m - 1]
  BY <1>1 DEF delete_user
<1>4. /\ l \in Seq(User) /\ Len(l) = m - 1
      /\ \A i \in 1..(m - 1) : l[i] = u.list[IF i < p THEN i ELSE i + 1]
  BY <1>1, <1>2, RemoveAtIs
<1> HIDE DEF l, v
<1>5. m - 1 \in Nat
  BY <1>1, <1>2
<1> QED
  BY <1>3, <1>4, <1>5 DEF v

\* delete_user keeps names apart.
LEMMA DeleteKeepsList ==
  ASSUME NEW u, Listed(u), NEW n
  PROVE  Listed(delete_user(u, n))
<1> SUFFICES ASSUME Position(u, n) # 0
             PROVE  Listed(delete_user(u, n))
  BY DEF delete_user
<1> DEFINE v == delete_user(u, n)
           m == Len(u.list)
           p == Position(u, n)
           from(i) == IF i < p THEN i ELSE i + 1
<1>1. /\ m \in Nat
      /\ \A i, j \in 1..m : u.list[i].unul /\ u.list[j].unul /\ i # j =>
                            u.list[i].name # u.list[j].name
  BY DEF Listed
<1>2. p \in Nat
  BY PositionIs, <1>1
<1>3. /\ v \in [list : Seq(User), size : Nat] /\ v.size = m - 1 /\ Len(v.list) = m - 1
      /\ \A i \in 1..(m - 1) : v.list[i] = u.list[from(i)]
  BY DeleteIs
<1> HIDE DEF v, m, p
<1>4. ASSUME NEW i \in 1..(m - 1), NEW j \in 1..(m - 1), v.list[i].unul, v.list[j].unul, i # j
      PROVE  v.list[i].name # v.list[j].name
  <2>1. from(i) \in 1..m /\ from(j) \in 1..m /\ from(i) # from(j)
    BY <1>1, <1>2, <1>4
  <2>2. v.list[i] = u.list[from(i)] /\ v.list[j] = u.list[from(j)]
    BY <1>3
  <2> HIDE DEF from
  <2> QED
    BY <1>1, <1>4, <2>1, <2>2
<1>5. Listed(v)
  BY <1>3, <1>4 DEF Listed
<1> QED
  BY <1>5 DEF v

\* A user with another password, which is terminated.
Edited(user, pass) == [user EXCEPT !.pass = pass, !.pnul = TRUE]

\* Nothing else of the user changes.
LEMMA EditedIs ==
  ASSUME NEW user \in User, NEW pass \in Word
  PROVE  /\ Edited(user, pass) \in User
         /\ Edited(user, pass).name = user.name /\ Edited(user, pass).unul = user.unul
         /\ Edited(user, pass).admin = user.admin /\ Edited(user, pass).pass = pass
  BY DEF Edited, User, Word

\* An assignment to a part of a part of a record.
LEMMA NestedAssignment ==
  ASSUME NEW l, NEW z, NEW p, NEW pass
  PROVE  [[list |-> l, size |-> z] EXCEPT !.list[p].pass = pass, !.list[p].pnul = TRUE] =
           [list |-> [[l EXCEPT ![p].pass = pass] EXCEPT ![p].pnul = TRUE], size |-> z]
<1> DEFINE u == [list |-> l, size |-> z]
           new == [[u.list EXCEPT ![p].pass = pass] EXCEPT ![p].pnul = TRUE]
<1>1. \A v : [v EXCEPT !.list[p].pass = pass, !.list[p].pnul = TRUE] =
               [v EXCEPT !.list = [[v.list EXCEPT ![p].pass = pass] EXCEPT ![p].pnul = TRUE]]
  OBVIOUS
<1>2. [u EXCEPT !.list[p].pass = pass, !.list[p].pnul = TRUE] = [u EXCEPT !.list = new]
  <2> HIDE DEF u
  <2> QED
    BY <1>1
<1>3. u.list = l
  OBVIOUS
<1>4. new = [[l EXCEPT ![p].pass = pass] EXCEPT ![p].pnul = TRUE]
  <2> HIDE DEF u
  <2> QED
    BY <1>3
<1> HIDE DEF new
<1>5. [u EXCEPT !.list = new] = [list |-> new, size |-> z]
  OBVIOUS
<1> QED
  BY <1>2, <1>4, <1>5

\* The two assignments to the user at position p.
LEMMA TwoAssignments ==
  ASSUME NEW l \in Seq(User), NEW p \in 1..Len(l), NEW pass
  PROVE  [[l EXCEPT ![p].pass = pass] EXCEPT ![p].pnul = TRUE] =
           [l EXCEPT ![p] = Edited(l[p], pass)]
<1> DEFINE one == [l[p] EXCEPT !.pass = pass]
           l1 == [l EXCEPT ![p] = one]
<1>1. l1 = [l EXCEPT ![p].pass = pass] /\ l1[p] = one
  OBVIOUS
<1>2. [l1 EXCEPT ![p].pnul = TRUE] = [l1 EXCEPT ![p] = [l1[p] EXCEPT !.pnul = TRUE]]
  <2> HIDE DEF l1
  <2> QED
    OBVIOUS
<1>3. [one EXCEPT !.pnul = TRUE] = Edited(l[p], pass)
  BY DEF Edited
<1>4. [l1 EXCEPT ![p].pnul = TRUE] = [l1 EXCEPT ![p] = Edited(l[p], pass)]
  <2> HIDE DEF l1, one
  <2> QED
    BY <1>1, <1>2, <1>3
<1>5. [l1 EXCEPT ![p] = Edited(l[p], pass)] = [l EXCEPT ![p] = Edited(l[p], pass)]
  <2> HIDE DEF one
  <2> QED
    OBVIOUS
<1> HIDE DEF l1
<1> QED
  BY <1>1, <1>4, <1>5

\* The parts of a list.
LEMMA ListedIs ==
  ASSUME NEW u, Listed(u)
  PROVE  /\ u = [list |-> u.list, size |-> Len(u.list)]
         /\ u.list \in Seq(User) /\ Len(u.list) \in Nat /\ DOMAIN u.list = 1..Len(u.list)
         /\ \A i \in 1..Len(u.list) : u.list[i] \in User
<1>1. u.list \in Seq(User) /\ u = [list |-> u.list, size |-> u.size] /\ u.size = Len(u.list)
  BY DEF Listed
<1>2. Len(u.list) \in Nat /\ DOMAIN u.list = 1..Len(u.list)
  BY <1>1
<1>3. \A i \in 1..Len(u.list) : u.list[i] \in User
  BY <1>1
<1> QED
  BY <1>1, <1>2, <1>3

\* What edit_user leaves: the user found has another password.
LEMMA EditIs ==
  ASSUME NEW u, Listed(u), NEW n, NEW pass \in Word, Position(u, n) # 0
  PROVE  /\ edit_user(u, n, pass) \in [list : Seq(User), size : Nat]
         /\ edit_user(u, n, pass).size = Len(u.list)
         /\ Len(edit_user(u, n, pass).list) = Len(u.list)
         /\ \A i \in 1..Len(u.list) :
              edit_user(u, n, pass).list[i] =
                IF i = Position(u, n) THEN Edited(u.list[i], pass) ELSE u.list[i]
<1>1. PICK l \in Seq(User) : l = u.list
  BY ListedIs
<1>2. PICK p \in 1..Len(l) : p = Position(u, n)
  <2>1. Position(u, n) \in 1..Len(u.list)
    BY PositionIs, ListedIs
  <2> QED
    BY <1>1, <2>1
<1>3. Len(l) \in Nat /\ l[p] \in User /\ Edited(l[p], pass) \in User
  <2>1. Len(l) \in Nat /\ l[p] \in User
    OBVIOUS
  <2> QED
    BY <2>1, EditedIs
<1> DEFINE v == edit_user(u, n, pass)
           new == [l EXCEPT ![p] = Edited(l[p], pass)]
<1>4. u = [list |-> l, size |-> Len(l)]
  BY <1>1, ListedIs
<1>5. v = [u EXCEPT !.list[p].pass = pass, !.list[p].pnul = TRUE]
  BY <1>2 DEF edit_user
<1>6. v = [list |-> new, size |-> Len(l)]
  <2> HIDE DEF v
  <2>1. v = [list |-> [[l EXCEPT ![p].pass = pass] EXCEPT ![p].pnul = TRUE], size |-> Len(l)]
    BY <1>4, <1>5, NestedAssignment
  <2>2. [[l EXCEPT ![p].pass = pass] EXCEPT ![p].pnul = TRUE] = new
    BY TwoAssignments
  <2> QED
    BY <2>1, <2>2
<1>7. /\ new \in Seq(User) /\ Len(new) = Len(l)
      /\ \A i \in 1..Len(l) : new[i] = IF i = p THEN Edited(l[i], pass) ELSE l[i]
  BY <1>3
<1> HIDE DEF new, v
<1>8. v \in [list : Seq(User), size : Nat] /\ v.size = Len(l) /\ v.list = new
  BY <1>3, <1>6, <1>7
<1> QED
  BY <1>1, <1>2, <1>7, <1>8 DEF v

\* edit_user keeps names apart.
LEMMA EditKeepsList ==
  ASSUME NEW u, Listed(u), NEW n, NEW pass \in Word
  PROVE  Listed(edit_user(u, n, pass))
<1> SUFFICES ASSUME Position(u, n) # 0
             PROVE  Listed(edit_user(u, n, pass))
  BY DEF edit_user
<1> DEFINE v == edit_user(u, n, pass)
           m == Len(u.list)
           p == Position(u, n)
<1>1. /\ m \in Nat /\ \A i \in 1..m : u.list[i] \in User
  BY ListedIs
<1>2. \A i, j \in 1..m : u.list[i].unul /\ u.list[j].unul /\ i # j =>
                         u.list[i].name # u.list[j].name
  BY DEF Listed
<1>3. /\ v \in [list : Seq(User), size : Nat] /\ v.size = m /\ Len(v.list) = m
      /\ \A i \in 1..m : v.list[i] = IF i = p THEN Edited(u.list[i], pass) ELSE u.list[i]
  BY EditIs
<1> HIDE DEF v, m, p
<1>4. ASSUME NEW i \in 1..m
      PROVE  v.list[i].name = u.list[i].name /\ v.list[i].unul = u.list[i].unul
  <2>1. /\ u.list[i] \in User
        /\ v.list[i] = IF i = p THEN Edited(u.list[i], pass) ELSE u.list[i]
    BY <1>1, <1>3
  <2>2. Edited(u.list[i], pass).name = u.list[i].name /\ Edited(u.list[i], pass).unul = u.list[i].unul
    BY <2>1, EditedIs
  <2> QED
    BY <2>1, <2>2
<1>5. \A i, j \in 1..m : v.list[i].unul /\ v.list[j].unul /\ i # j =>
                         v.list[i].name # v.list[j].name
  BY <1>2, <1>4
<1>6. Listed(v)
  BY <1>3, <1>5 DEF Listed
<1> QED
  BY <1>6 DEF v
-----------------------------------------------------------------------------
(* The counters and the sessions that are open.                            *)

\* The counter of concurrent connections moves by at most one.
LEMMA CountersMove ==
  ASSUME NEW s \in Counters
  PROVE  /\ stadistics_increase_concurrent(s) \in Counters
         /\ stadistics_increase_concurrent(s).concurrentConnections
              <= s.concurrentConnections + 1
         /\ stadistics_decrease_concurrent(s) \in Counters
         /\ \/ stadistics_decrease_concurrent(s).concurrentConnections = 0
            \/ stadistics_decrease_concurrent(s).concurrentConnections
                 = s.concurrentConnections - 1
<1> DEFINE c == s.concurrentConnections
           d == s.totalConnections
           i == IF c < UINT16_MAX THEN c + 1 ELSE c
           j == IF d < UINT16_MAX THEN d + 1 ELSE d
           k == IF c > 0 THEN c - 1 ELSE c
<1>1. UINT16_MAX \in Nat
  BY PrawtosAssumption
<1>2. c \in 0..UINT16_MAX /\ d \in 0..UINT16_MAX
  BY DEF Counters
<1>3. stadistics_increase_concurrent(s) =
        [s EXCEPT !.concurrentConnections = i, !.totalConnections = j]
  BY DEF stadistics_increase_concurrent
<1>4. stadistics_decrease_concurrent(s) = [s EXCEPT !.concurrentConnections = k]
  BY DEF stadistics_decrease_concurrent
<1> HIDE DEF c, d
<1>5. /\ i \in 0..UINT16_MAX /\ j \in 0..UINT16_MAX /\ k \in 0..UINT16_MAX
      /\ i <= c + 1 /\ (k = 0 \/ k = c - 1)
  BY <1>1, <1>2
<1> HIDE DEF i, j, k
<1>6. /\ stadistics_increase_concurrent(s) \in Counters
      /\ stadistics_increase_concurrent(s).concurrentConnections = i
  BY <1>3, <1>5 DEF Counters
<1>7. /\ stadistics_decrease_concurrent(s) \in Counters
      /\ stadistics_decrease_concurrent(s).concurrentConnections = k
  BY <1>4, <1>5 DEF Counters
<1> QED
  BY <1>5, <1>6, <1>7 DEF c

\* Session m is another one now, the others are as they were.
Turned(m, new) == mgr' = [mgr EXCEPT ![m] = new]

\* The open sessions after that.
LEMMA OpenIs ==
  ASSUME Inv, NEW m \in Manager, NEW new, Turned(m, new)
  PROVE  /\ Cardinality(Open) \in Nat
         /\ new.st = "closed" /\ m \in Open => Cardinality(Open') = Cardinality(Open) - 1
         /\ new.st # "closed" /\ m \in Open => Open' = Open
         /\ new.st # "closed" /\ m \notin Open => Cardinality(Open') = Cardinality(Open) + 1
<1>1. /\ mgr'[m] = new
      /\ \A k \in Manager \ {m} : mgr'[k] = mgr[k]
  BY DEF Inv, Turned
<1>2. Open' = {k \in Manager : mgr'[k].st # "closed"}
  BY DEF Open
<1>3. new.st # "closed" => Open' = Open \cup {m}
  BY <1>1, <1>2 DEF Open
<1>4. new.st = "closed" => Open' = Open \ {m}
  BY <1>1, <1>2 DEF Open
<1>5. IsFiniteSet(Open) /\ Cardinality(Open) \in Nat
  <2>1. Open \subseteq Manager
    BY DEF Open
  <2> QED
    BY <2>1, PrawtosAssumption, FS_Subset, FS_CardinalityType
<1>6. m \in Open => Cardinality(Open \ {m}) = Cardinality(Open) - 1
  BY <1>5, FS_RemoveElement
<1>7. m \notin Open => Cardinality(Open \cup {m}) = Cardinality(Open) + 1
  BY <1>5, FS_AddElement
<1> QED
  BY <1>3, <1>4, <1>5, <1>6, <1>7

\* A session turns into another that is still open.
LEMMA Continues ==
  ASSUME Inv, NEW m \in Open, NEW new, Proper(new), new.st # "closed", Turned(m, new),
         Listed(users'), users' = users \/ fault = "none",
         UNCHANGED <<stadistics, proxies, fault>>
  PROVE  Inv'
<1>1. m \in Manager
  BY DEF Open
<1>2. mgr' \in [Manager -> Session] /\ \A k \in Manager : Proper(mgr'[k])
  <2>1. new \in Session
    BY DEF Proper
  <2> QED
    BY <1>1, <2>1 DEF Inv, Turned
<1>3. NeverOverReports'
  <2>1. Open' = Open
    BY <1>1, OpenIs
  <2> QED
    BY <2>1 DEF Inv, NeverOverReports
<1>4. fault' = "overflow" => users'.size + 1 > BUFFER_SIZE
  BY DEF Inv
<1> QED
  BY <1>2, <1>3, <1>4 DEF Inv

\* The record of a closed session.
LEMMA ClosedIsProper == Closed \in Session /\ Proper(Closed)
<1>1. Empty \in Pointers
  BY PrawtosAssumption DEF Empty, Pointers
<1>2. Closed \in Session
  BY <1>1, ParserStarts DEF Closed, Session
<1>3. Len(Closed.in) = buffer_read_avail(Closed.read_buffer)
  BY DEF Closed, buffer_read_avail, Empty
<1>4. Aligned(Closed) /\ Answering(Closed) /\ Admitted(Closed)
  BY DEF Aligned, Answering, Admitted, Writing, Closed
<1> QED
  BY <1>2, <1>3, <1>4 DEF Proper

\* A session is closed.
LEMMA Closes ==
  ASSUME Inv, fault = "none", NEW m \in Open, Turned(m, Closed), Listed(users'),
         stadistics' = stadistics_decrease_concurrent(stadistics),
         UNCHANGED <<proxies, fault>>
  PROVE  Inv'
<1>1. m \in Manager
  BY DEF Open
<1>2. mgr' \in [Manager -> Session] /\ \A k \in Manager : Proper(mgr'[k])
  BY <1>1, ClosedIsProper DEF Inv, Turned
<1>3. /\ stadistics' \in Counters
      /\ \/ stadistics'.concurrentConnections = 0
         \/ stadistics'.concurrentConnections = stadistics.concurrentConnections - 1
  BY CountersMove DEF Inv
<1>4. NeverOverReports'
  <2>1. /\ Cardinality(Open') = Cardinality(Open) - 1
        /\ Cardinality(Open) \in Nat
    <3>1. Closed.st = "closed"
      BY DEF Closed
    <3> QED
      BY <1>1, <3>1, OpenIs
  <2>2. /\ stadistics.concurrentConnections \in Nat /\ proxies \in Nat /\ proxies' = proxies
        /\ stadistics.concurrentConnections <= Cardinality(Open) + proxies
    BY PrawtosAssumption DEF Inv, NeverOverReports, Counters
  <2>3. Cardinality(Open) >= 1
    <3>1. Cardinality(Open') \in Nat
      <4>1. Open' \subseteq Manager
        BY DEF Open
      <4> QED
        BY <4>1, PrawtosAssumption, FS_Subset, FS_CardinalityType
    <3> QED
      BY <2>1, <3>1
  <2> QED
    BY <1>3, <2>1, <2>2, <2>3 DEF NeverOverReports
<1> QED
  BY <1>2, <1>3, <1>4 DEF Inv

\* What a handler that does not close the session leaves of rec.
Arrived(m, st, rec) ==
  [rec EXCEPT !.st = st,
              !.parser = IF st = "CMD_READ" /\ mgr[m].st # st THEN ParserInit("type") ELSE @]

\* The end of a handler.
LEMMA Returned ==
  ASSUME Inv, fault = "none", NEW m \in Open, NEW st, NEW rec, NEW u, Listed(u),
         Return(m, st, rec, u),
         st \notin {"ERROR", "DONE"} => st # "closed" /\ Proper(Arrived(m, st, rec))
                                        /\ Arrived(m, st, rec).st = st
  PROVE  Inv'
<1>1. users' = u /\ UNCHANGED <<proxies, fault>>
  BY DEF Return
<1>2. CASE st \in {"ERROR", "DONE"}
  <2>1. Turned(m, Closed) /\ stadistics' = stadistics_decrease_concurrent(stadistics)
    BY <1>2 DEF Return, Turned
  <2> QED
    BY <1>1, <2>1, Closes
<1>3. CASE st \notin {"ERROR", "DONE"}
  <2>1. Turned(m, Arrived(m, st, rec)) /\ UNCHANGED stadistics
    BY <1>3 DEF Return, Turned, Arrived
  <2> QED
    BY <1>1, <1>3, <2>1, Continues
<1> QED
  BY <1>2, <1>3

\* The fields of that record.
LEMMA ArrivedIs ==
  ASSUME NEW m, NEW rec \in Session,
         NEW st \in {"AUTH_READ", "AUTH_WRITE", "CMD_READ", "CMD_WRITE"}
  PROVE  /\ Arrived(m, st, rec) \in Session /\ Arrived(m, st, rec).st = st
         /\ Arrived(m, st, rec).in = rec.in /\ Arrived(m, st, rec).wire = rec.wire
         /\ Arrived(m, st, rec).read_buffer = rec.read_buffer
         /\ Arrived(m, st, rec).write_buffer = rec.write_buffer
         /\ Arrived(m, st, rec).interest = rec.interest
         /\ Arrived(m, st, rec).status = rec.status /\ Arrived(m, st, rec).login = rec.login
         /\ Arrived(m, st, rec).greeted = rec.greeted
         /\ Arrived(m, st, rec).parser =
              IF st = "CMD_READ" /\ mgr[m].st # st THEN ParserInit("type") ELSE rec.parser
<1> DEFINE p == IF st = "CMD_READ" /\ mgr[m].st # st THEN ParserInit("type") ELSE rec.parser
<1>1. p \in Parser
  BY ParserStarts DEF Session
<1>2. Arrived(m, st, rec) = [rec EXCEPT !.st = st, !.parser = p]
  BY DEF Arrived
<1> HIDE DEF p
<1>3. /\ Arrived(m, st, rec) \in Session /\ Arrived(m, st, rec).st = st
      /\ Arrived(m, st, rec).in = rec.in /\ Arrived(m, st, rec).wire = rec.wire
      /\ Arrived(m, st, rec).read_buffer = rec.read_buffer
      /\ Arrived(m, st, rec).write_buffer = rec.write_buffer
      /\ Arrived(m, st, rec).interest = rec.interest
      /\ Arrived(m, st, rec).status = rec.status /\ Arrived(m, st, rec).login = rec.login
      /\ Arrived(m, st, rec).greeted = rec.greeted
      /\ Arrived(m, st, rec).parser = p
  BY <1>1, <1>2 DEF Session
<1> QED
  BY <1>3 DEF p
-----------------------------------------------------------------------------
(* Connections and what the client does.                                   *)

\* A management client is accepted.
LEMMA AcceptStep ==
  ASSUME Inv, NEW m \in Manager, prawtos_passive_accept(m)
  PROVE  Inv'
<1> DEFINE new == [Closed EXCEPT !.st = "AUTH_READ"]
<1>1. /\ fault = "none" /\ m \notin Open /\ mgr' = [mgr EXCEPT ![m] = new]
      /\ stadistics' = stadistics_increase_concurrent(stadistics)
      /\ UNCHANGED <<users, proxies, fault>>
  BY DEF prawtos_passive_accept
<1>2. new \in Session /\ Proper(new) /\ new.st = "AUTH_READ"
  <2>1. /\ new \in Session /\ new.st = "AUTH_READ" /\ new.in = <<>> /\ new.wire = <<>>
        /\ new.parser = ParserInit("version") /\ new.interest = READ /\ new.greeted = FALSE
        /\ new.read_buffer = Empty /\ new.write_buffer = Empty
    <3>1. Closed \in Session
      BY ClosedIsProper
    <3>2. /\ Closed.in = <<>> /\ Closed.wire = <<>> /\ Closed.parser = ParserInit("version")
          /\ Closed.interest = READ /\ Closed.greeted = FALSE
          /\ Closed.read_buffer = Empty /\ Closed.write_buffer = Empty
      BY DEF Closed
    <3> QED
      BY <3>1, <3>2 DEF Session
  <2> HIDE DEF new
  <2>2. Len(new.in) = buffer_read_avail(new.read_buffer)
    BY <2>1 DEF buffer_read_avail, Empty
  <2>3. Aligned(new) /\ Answering(new) /\ Admitted(new)
    BY <2>1 DEF Aligned, Answering, Admitted, Writing
  <2> QED
    BY <2>1, <2>2, <2>3 DEF Proper
<1> HIDE DEF new
<1>3. Turned(m, new)
  BY <1>1 DEF Turned
<1>4. mgr' \in [Manager -> Session] /\ \A k \in Manager : Proper(mgr'[k])
  BY <1>1, <1>2 DEF Inv
<1>5. /\ stadistics' \in Counters
      /\ stadistics'.concurrentConnections <= stadistics.concurrentConnections + 1
  BY <1>1, CountersMove DEF Inv
<1>6. NeverOverReports'
  <2>1. Cardinality(Open') = Cardinality(Open) + 1 /\ Cardinality(Open) \in Nat
    BY <1>1, <1>2, <1>3, OpenIs
  <2>2. /\ stadistics.concurrentConnections \in Nat /\ stadistics'.concurrentConnections \in Nat
        /\ proxies \in Nat /\ proxies' = proxies
        /\ stadistics.concurrentConnections <= Cardinality(Open) + proxies
    BY <1>1, <1>5, PrawtosAssumption DEF Inv, NeverOverReports, Counters
  <2> QED
    BY <1>5, <2>1, <2>2 DEF NeverOverReports
<1>7. users' = users /\ proxies' = proxies /\ fault' = fault
  BY <1>1
<1> QED
  BY <1>4, <1>5, <1>6, <1>7 DEF Inv

\* Steps that leave the sessions and the list alone: a failed accept, and the
\* sessions of the proxy that come and go.
LEMMA CountersStep ==
  ASSUME Inv, AcceptFails \/ ProxyConnects \/ ProxyLeaves
  PROVE  Inv'
<1>1. mgr' = mgr /\ users' = users /\ fault' = fault /\ Open' = Open
  BY DEF AcceptFails, ProxyConnects, ProxyLeaves, Open
<1>2. /\ stadistics \in Counters /\ proxies \in Nat
      /\ stadistics.concurrentConnections \in Nat
      /\ stadistics.concurrentConnections <= Cardinality(Open) + proxies
  BY PrawtosAssumption DEF Inv, NeverOverReports, Counters
<1>3. Cardinality(Open) \in Nat
  <2>1. Open \subseteq Manager
    BY DEF Open
  <2> QED
    BY <2>1, PrawtosAssumption, FS_Subset, FS_CardinalityType
<1>4. /\ stadistics' \in Counters /\ proxies' \in Nat
      /\ stadistics'.concurrentConnections <= Cardinality(Open) + proxies'
  <2>1. CASE AcceptFails
    <3>1. stadistics' = stadistics_decrease_concurrent(stadistics) /\ proxies' = proxies
      BY <2>1 DEF AcceptFails
    <3> QED
      BY <1>2, <1>3, <3>1, CountersMove
  <2>2. CASE ProxyConnects
    <3>1. /\ stadistics' = stadistics_increase_concurrent(stadistics)
          /\ proxies' = proxies + 1
      BY <2>2 DEF ProxyConnects
    <3>2. stadistics' \in Counters /\ stadistics'.concurrentConnections \in Nat
      BY <1>2, <3>1, CountersMove, PrawtosAssumption DEF Counters
    <3> QED
      BY <1>2, <1>3, <3>1, <3>2, CountersMove
  <2>3. CASE ProxyLeaves
    <3>1. /\ stadistics' = stadistics_decrease_concurrent(stadistics)
          /\ proxies > 0 /\ proxies' = proxies - 1
      BY <2>3 DEF ProxyLeaves
    <3> QED
      BY <1>2, <1>3, <3>1, CountersMove
  <2> QED
    BY <2>1, <2>2, <2>3
<1>5. NeverOverReports'
  BY <1>1, <1>4 DEF NeverOverReports
<1> QED
  BY <1>1, <1>4, <1>5 DEF Inv

\* A message arrives behind what the client sent before: a first message, or a
\* command.
LEMMA MessageArrives ==
  ASSUME NEW rec, Proper(rec), rec.st # "closed",
         NEW msg \in Seq(Field), IF rec.greeted THEN msg \in Commands ELSE msg \in Greetings
  PROVE  Proper([rec EXCEPT !.wire = @ \o msg, !.greeted = TRUE])
<1> DEFINE w == rec.wire \o msg
           new == [rec EXCEPT !.wire = w, !.greeted = TRUE]
<1>1. /\ rec \in Session /\ rec.in \in Seq(Field) /\ rec.wire \in Seq(Field)
      /\ rec.parser \in Parser
  BY DEF Proper, Session
<1>2. w \in Seq(Field) /\ Stream(rec) \in Seq(Field) /\ rec.in \o w = Stream(rec) \o msg
  <2>1. PICK s \in Seq(Field), t \in Seq(Field) : s = rec.in /\ t = rec.wire
    BY <1>1
  <2>2. t \o msg \in Seq(Field) /\ s \o t \in Seq(Field)
    OBVIOUS
  <2>3. (s \o t) \o msg = s \o (t \o msg)
    BY Associative
  <2> QED
    BY <2>1, <2>2, <2>3 DEF Stream
<1>3. new = [rec EXCEPT !.wire = @ \o msg, !.greeted = TRUE]
  OBVIOUS
<1> HIDE DEF w
<1>4. /\ new \in Session /\ new.st = rec.st /\ new.in = rec.in /\ new.wire = w
      /\ new.parser = rec.parser /\ new.interest = rec.interest /\ new.status = rec.status
      /\ new.login = rec.login /\ new.greeted
      /\ new.read_buffer = rec.read_buffer /\ new.write_buffer = rec.write_buffer
  BY <1>1, <1>2 DEF Session
<1> HIDE DEF new
<1>5. Stream(new) = Stream(rec) \o msg /\ Stream(rec) \in Seq(Field)
  BY <1>1, <1>2, <1>4 DEF Stream
<1>a. Len(new.in) = buffer_read_avail(new.read_buffer)
  BY <1>4 DEF Proper
<1>b. Answering(new)
  BY <1>4 DEF Proper, Answering
<1>c. Admitted(new)
  BY <1>4 DEF Proper, Admitted
<1>6. CASE rec.greeted
  <2>1. msg \in Commands
    BY <1>6
  <2>2. ASSUME NEW first \in {"version", "type"}, Within(first, rec.parser, Stream(rec))
        PROVE  Within(first, rec.parser, Stream(new))
    <3>1. Within(first, rec.parser, Stream(rec) \o msg)
      BY <1>5, <2>1, <2>2, WithinGrows
    <3> QED
      BY <1>5, <3>1
  <2>3. WholeCommands(Stream(rec)) => WholeCommands(Stream(new))
    BY <1>5, <2>1, WholeAppend
  <2>4. rec.st = "AUTH_READ" => Within("version", new.parser, Stream(new))
    BY <1>4, <1>6, <2>2 DEF Proper, Aligned
  <2>5. rec.st = "CMD_READ" => Ready(new.parser, Stream(new))
    <3> SUFFICES ASSUME rec.st = "CMD_READ"
                 PROVE  Ready(rec.parser, Stream(new))
      BY <1>4
    <3>1. Ready(rec.parser, Stream(rec))
      BY DEF Proper, Aligned
    <3>2. CASE Within("type", rec.parser, Stream(rec))
      BY <2>2, <3>2 DEF Ready
    <3>3. CASE ~Within("type", rec.parser, Stream(rec))
      <4>1. rec.parser = ParserInit("type") /\ Stream(rec) = <<>>
        BY <3>1, <3>3 DEF Ready
      <4>2. WholeCommands(Stream(rec))
        BY <1>5, <4>1, WholeStep
      <4> QED
        BY <1>5, <2>3, <4>1, <4>2, ReadyIsWhole
    <3> QED
      BY <3>2, <3>3
  <2>6. rec.st \in Writing => WholeCommands(Stream(new))
    BY <2>3 DEF Proper, Aligned
  <2>7. Aligned(new)
    BY <1>4, <2>4, <2>5, <2>6 DEF Aligned
  <2> QED
    BY <1>3, <1>4, <1>a, <1>b, <1>c, <2>7 DEF Proper
<1>7. CASE ~rec.greeted
  <2>1. /\ rec.st = "AUTH_READ" /\ rec.parser = ParserInit("version")
        /\ rec.in = <<>> /\ rec.wire = <<>>
    BY <1>1, <1>7 DEF Proper, Aligned, Writing, Session
  <2>2. Stream(new) = msg
    <3>1. rec.in \o rec.wire = <<>>
      BY <2>1
    <3>2. <<>> \o msg = msg
      OBVIOUS
    <3> QED
      BY <1>5, <3>1, <3>2 DEF Stream
  <2>3. Within("version", new.parser, Stream(new))
    BY <1>4, <1>7, <2>1, <2>2, FirstMessage
  <2>4. Aligned(new)
    BY <1>4, <2>1, <2>3 DEF Aligned, Writing
  <2> QED
    BY <1>3, <1>4, <1>a, <1>b, <1>c, <2>4 DEF Proper
<1> QED
  BY <1>3, <1>6, <1>7

\* The client of m sends a message, also when the process is no longer there.
LEMMA SendKeepsInv ==
  ASSUME Inv, NEW m \in Open, NEW msg,
         msg \in IF mgr[m].greeted THEN Commands ELSE Greetings,
         mgr' = [mgr EXCEPT ![m].wire = @ \o msg, ![m].greeted = TRUE],
         UNCHANGED <<users, stadistics, proxies, fault>>
  PROVE  Inv'
<1> DEFINE new == [mgr[m] EXCEPT !.wire = @ \o msg, !.greeted = TRUE]
<1>1. m \in Manager /\ mgr[m].st # "closed" /\ Proper(mgr[m]) /\ mgr[m] \in Session
  BY DEF Inv, Open, Proper
<1>2. msg \in Seq(Field)
  BY Messages DEF Greetings
<1>3. Proper(new)
  BY <1>1, <1>2, MessageArrives
<1>4. new.st = mgr[m].st
  BY <1>1 DEF Session
<1>5. Turned(m, new)
  BY <1>1 DEF Turned, Inv
<1> HIDE DEF new
<1>6. Listed(users') /\ users' = users
  BY DEF Inv
<1> QED
  BY <1>1, <1>3, <1>4, <1>5, <1>6, Continues

\* The client of m is gone.
LEMMA LeaveKeepsInv ==
  ASSUME Inv, NEW m \in Open, mgr' = [mgr EXCEPT ![m].gone = TRUE],
         UNCHANGED <<users, stadistics, proxies, fault>>
  PROVE  Inv'
<1> DEFINE new == [mgr[m] EXCEPT !.gone = TRUE]
<1>1. m \in Manager /\ mgr[m].st # "closed" /\ Proper(mgr[m]) /\ mgr[m] \in Session
  BY DEF Inv, Open, Proper
<1>2. /\ new \in Session /\ new.st = mgr[m].st /\ new.in = mgr[m].in /\ new.wire = mgr[m].wire
      /\ new.parser = mgr[m].parser /\ new.interest = mgr[m].interest
      /\ new.status = mgr[m].status /\ new.login = mgr[m].login
      /\ new.greeted = mgr[m].greeted /\ new.read_buffer = mgr[m].read_buffer
      /\ new.write_buffer = mgr[m].write_buffer
  BY <1>1 DEF Session
<1>3. Turned(m, new)
  BY <1>1 DEF Turned, Inv
<1> HIDE DEF new
<1>4. Stream(new) = Stream(mgr[m])
  BY <1>2 DEF Stream
<1>5. Aligned(new)
  BY <1>1, <1>2, <1>4 DEF Proper, Aligned
<1>6. Answering(new) /\ Len(new.in) = buffer_read_avail(new.read_buffer)
  BY <1>1, <1>2 DEF Proper, Answering
<1>7. Admitted(new)
  BY <1>1, <1>2 DEF Proper, Admitted
<1>8. Proper(new)
  BY <1>2, <1>5, <1>6, <1>7 DEF Proper
<1>9. Listed(users') /\ users' = users
  BY DEF Inv
<1> QED
  BY <1>1, <1>2, <1>3, <1>8, <1>9, Continues

\* What a client does to its own session.
LEMMA ClientStep ==
  ASSUME Inv, NEW m \in Manager, NEW commands \in SUBSET Commands,
         ClientSends(m, commands) \/ ClientLeaves(m)
  PROVE  Inv'
<1>1. CASE ClientSends(m, commands)
  <2>1. PICK msg \in IF mgr[m].greeted THEN commands ELSE Logins :
          mgr' = [mgr EXCEPT ![m].wire = @ \o msg, ![m].greeted = TRUE]
    BY <1>1 DEF ClientSends
  <2>2. m \in Open /\ UNCHANGED <<users, stadistics, proxies, fault>>
    BY <1>1 DEF ClientSends
  <2>3. msg \in IF mgr[m].greeted THEN Commands ELSE Greetings
    BY Messages, PrawtosAssumption DEF Greetings
  <2> QED
    BY <2>1, <2>2, <2>3, SendKeepsInv
<1>2. CASE ClientLeaves(m)
  BY <1>2, LeaveKeepsInv DEF ClientLeaves
<1> QED
  BY <1>1, <1>2
-----------------------------------------------------------------------------
(* Handlers.                                                               *)

\* The parser has not reached the end of the message.
LEMMA StillReading ==
  ASSUME NEW m, Proper(mgr[m]), NEW first, Reading(mgr[m].st, first), NEW n \in Received(m),
         ~is_done(Parsed(m, n).parser)
  PROVE  /\ Proper(Arrived(m, mgr[m].st, Parsed(m, n)))
         /\ Arrived(m, mgr[m].st, Parsed(m, n)).st = mgr[m].st
<1> DEFINE rec == Parsed(m, n)
           st == mgr[m].st
           new == Arrived(m, st, rec)
<1>1. /\ rec \in Session /\ Len(rec.in) = buffer_read_avail(rec.read_buffer)
      /\ rec.interest = READ /\ rec.write_buffer = Empty /\ rec.login = mgr[m].login
      /\ rec.greeted /\ Within(first, rec.parser, Stream(rec))
  BY ParsedIs
<1>2. st \in {"AUTH_READ", "CMD_READ"}
  BY DEF Reading
<1> HIDE DEF rec
<1>3. /\ new \in Session /\ new.st = st /\ new.in = rec.in /\ new.wire = rec.wire
      /\ new.read_buffer = rec.read_buffer /\ new.write_buffer = rec.write_buffer
      /\ new.interest = rec.interest /\ new.login = rec.login /\ new.greeted = rec.greeted
      /\ new.parser = rec.parser
  <2>1. PICK z \in {"AUTH_READ", "AUTH_WRITE", "CMD_READ", "CMD_WRITE"} : z = st
    BY <1>2
  <2>2. /\ Arrived(m, z, rec) \in Session /\ Arrived(m, z, rec).st = z
        /\ Arrived(m, z, rec).in = rec.in /\ Arrived(m, z, rec).wire = rec.wire
        /\ Arrived(m, z, rec).read_buffer = rec.read_buffer
        /\ Arrived(m, z, rec).write_buffer = rec.write_buffer
        /\ Arrived(m, z, rec).interest = rec.interest
        /\ Arrived(m, z, rec).login = rec.login /\ Arrived(m, z, rec).greeted = rec.greeted
        /\ Arrived(m, z, rec).parser =
             IF z = "CMD_READ" /\ mgr[m].st # z THEN ParserInit("type") ELSE rec.parser
    <3>1. rec \in Session
      BY <1>1
    <3> HIDE DEF new
    <3> QED
      BY <3>1, ArrivedIs
  <2> QED
    BY <2>1, <2>2
<1>4. Stream(new) = Stream(rec)
  BY <1>3 DEF Stream
<1>5. (st = "CMD_READ") => mgr[m].login
  BY DEF Proper, Admitted
<1> HIDE DEF new
<1>6. Aligned(new)
  BY <1>1, <1>2, <1>3, <1>4 DEF Reading, Aligned, Ready, Writing
<1>7. Answering(new) /\ Len(new.in) = buffer_read_avail(new.read_buffer)
  BY <1>1, <1>2, <1>3 DEF Answering, Writing
<1>8. Admitted(new)
  BY <1>1, <1>2, <1>3, <1>5 DEF Admitted
<1> QED
  BY <1>3, <1>6, <1>7, <1>8 DEF Proper, new, rec

\* The record of a session whose answer of n fields was just marshalled.
Marshalled(rec, status, login, n) ==
  [rec EXCEPT !.interest = WRITE, !.status = status, !.login = login,
              !.write_buffer = buffer_write_adv(Empty, n)]

\* An answer of n fields, and what Admitted asks of the session that gets it.
Allowed(st, status, login, n) ==
  /\ st \in Writing /\ status \in {"success", "bad_credentials", "user_credentia"}
  /\ login \in BOOLEAN /\ n \in 1..BUFFER_SIZE
  /\ st = "CMD_WRITE" => login
  /\ st = "AUTH_WRITE" /\ status = "success" => login

\* A message is parsed, the buffer for its answer is empty.
Asking(rec) ==
  /\ rec \in Session /\ Len(rec.in) = buffer_read_avail(rec.read_buffer)
  /\ rec.greeted = TRUE /\ rec.write_buffer = Empty
  /\ WholeCommands(Stream(rec))

\* A message has been parsed, and its answer is in the empty buffer.
LEMMA Answered ==
  ASSUME NEW m, NEW rec, Asking(rec),
         NEW st, NEW status, NEW login, NEW n, Allowed(st, status, login, n)
  PROVE  /\ Proper(Arrived(m, st, Marshalled(rec, status, login, n)))
         /\ Arrived(m, st, Marshalled(rec, status, login, n)).st = st
<1> DEFINE b == buffer_write_adv(Empty, n)
           ans == Marshalled(rec, status, login, n)
           new == Arrived(m, st, ans)
<1>a. /\ rec \in Session /\ Len(rec.in) = buffer_read_avail(rec.read_buffer)
      /\ rec.greeted = TRUE /\ WholeCommands(Stream(rec))
  BY DEF Asking
<1>b. /\ st \in Writing /\ status \in {"success", "bad_credentials", "user_credentia"}
      /\ login \in BOOLEAN /\ n \in 1..BUFFER_SIZE
  BY DEF Allowed
<1>1. b \in Pointers /\ b.read < b.write
  BY <1>b, PrawtosAssumption DEF buffer_write_adv, Empty, Pointers
<1> HIDE DEF b
<1>2. ans = [rec EXCEPT !.interest = WRITE, !.status = status, !.login = login,
                        !.write_buffer = b]
  BY DEF Marshalled, b
<1> HIDE DEF ans
<1>3. /\ ans \in Session /\ ans.in = rec.in /\ ans.wire = rec.wire
      /\ ans.read_buffer = rec.read_buffer /\ ans.write_buffer = b /\ ans.interest = WRITE
      /\ ans.status = status /\ ans.login = login /\ ans.greeted = rec.greeted
  BY <1>a, <1>b, <1>1, <1>2 DEF Session
<1> HIDE DEF new
<1>4. /\ new \in Session /\ new.st = st /\ new.in = ans.in /\ new.wire = ans.wire
      /\ new.read_buffer = ans.read_buffer /\ new.write_buffer = ans.write_buffer
      /\ new.interest = ans.interest /\ new.status = ans.status /\ new.login = ans.login
      /\ new.greeted = ans.greeted
  <2>1. ans \in Session /\ st \in {"AUTH_READ", "AUTH_WRITE", "CMD_READ", "CMD_WRITE"}
    BY <1>b, <1>3 DEF Writing
  <2> QED
    BY <2>1, ArrivedIs DEF new
<1>5. Stream(new) = Stream(rec)
  BY <1>3, <1>4 DEF Stream
<1>6. new.greeted = TRUE /\ Len(new.in) = buffer_read_avail(new.read_buffer)
  BY <1>a, <1>3, <1>4
<1>7. Aligned(new)
  BY <1>a, <1>b, <1>4, <1>5, <1>6 DEF Aligned, Writing
<1>8. Answering(new)
  BY <1>b, <1>1, <1>3, <1>4 DEF Answering, Writing
<1>9. Admitted(new)
  <2>1. new.st = st /\ new.status = status /\ new.login = login
    BY <1>3, <1>4
  <2> QED
    BY <2>1 DEF Admitted, Writing, Allowed
<1> QED
  BY <1>4, <1>6, <1>7, <1>8, <1>9 DEF Proper, new, ans

\* The message has ended with what was received.
LEMMA ParsedIsAsking ==
  ASSUME NEW m, Proper(mgr[m]), NEW first, Reading(mgr[m].st, first), NEW n \in Received(m),
         is_done(Parsed(m, n).parser)
  PROVE  Asking(Parsed(m, n)) /\ Parsed(m, n).login = mgr[m].login
<1> DEFINE rec == Parsed(m, n)
<1>1. /\ rec \in Session /\ Len(rec.in) = buffer_read_avail(rec.read_buffer)
      /\ rec.write_buffer = Empty /\ rec.greeted /\ rec.login = mgr[m].login
      /\ WholeCommands(Stream(rec))
  BY ParsedIs
<1> HIDE DEF rec
<1>2. rec.greeted = TRUE
  <2>1. rec.greeted \in BOOLEAN
    BY <1>1 DEF Session
  <2> QED
    BY <1>1, <2>1
<1> QED
  BY <1>1, <1>2 DEF Asking, rec

\* A login is read.
LEMMA AuthRead ==
  ASSUME Inv, NEW m \in Manager, auth_prawtos_read(m)
  PROVE  Inv'
<1>1. /\ fault = "none" /\ mgr[m].st = "AUTH_READ" /\ m \in Open
      /\ Listed(users) /\ Proper(mgr[m]) /\ Reading(mgr[m].st, "version")
  BY DEF auth_prawtos_read, OnRead, Open, Inv, Reading
<1>2. CASE Return(m, "ERROR", mgr[m], users)
  BY <1>1, <1>2, Returned
<1>3. ASSUME NEW n \in Received(m), NEW rec, rec = Parsed(m, n),
             \/ rec.parser.state = "error" /\ Return(m, "ERROR", rec, users)
             \/ rec.parser.state = "done" /\ Return(m, "ERROR", rec, users)
             \/ rec.parser.state = "done" /\ Return(m, "AUTH_WRITE", auth_prawtos_process(rec), users)
             \/ rec.parser.state \notin {"error", "done"} /\ Return(m, "AUTH_READ", rec, users)
      PROVE  Inv'
  <2>1. CASE Return(m, "ERROR", rec, users)
    BY <1>1, <2>1, Returned
  <2>2. CASE /\ rec.parser.state = "done"
             /\ Return(m, "AUTH_WRITE", auth_prawtos_process(rec), users)
    <3> DEFINE login == user_check_credentials(users, rec.parser.uname, rec.parser.passwd)
               status == IF login THEN "success" ELSE "bad_credentials"
    <3>1. Asking(rec)
      BY <1>1, <1>3, <2>2, ParsedIsAsking DEF is_done
    <3>2. login \in BOOLEAN
      BY DEF user_check_credentials
    <3>3. auth_prawtos_process(rec) = Marshalled(rec, status, login, 2)
      BY <3>1 DEF auth_prawtos_process, Marshalled, Asking
    <3> HIDE DEF login
    <3>4. Allowed("AUTH_WRITE", status, login, 2)
      BY <3>2, PrawtosAssumption DEF Writing, Allowed
    <3> HIDE DEF status
    <3>6. /\ Proper(Arrived(m, "AUTH_WRITE", auth_prawtos_process(rec)))
          /\ Arrived(m, "AUTH_WRITE", auth_prawtos_process(rec)).st = "AUTH_WRITE"
      BY <3>1, <3>3, <3>4, Answered
    <3> QED
      BY <1>1, <2>2, <3>6, Returned
  <2>3. CASE /\ rec.parser.state \notin {"error", "done"}
             /\ Return(m, "AUTH_READ", rec, users)
    <3>1. ~is_done(rec.parser)
      BY <2>3 DEF is_done
    <3>2. /\ Proper(Arrived(m, "AUTH_READ", rec))
          /\ Arrived(m, "AUTH_READ", rec).st = "AUTH_READ"
      BY <1>1, <1>3, <3>1, StillReading
    <3> QED
      BY <1>1, <2>3, <3>2, Returned
  <2> QED
    BY <1>3, <2>1, <2>2, <2>3
<1>4. CASE \E n \in Received(m) :
         LET rec == Parsed(m, n)
         IN  CASE rec.parser.state = "error" -> Return(m, "ERROR", rec, users)
               [] rec.parser.state = "done" ->
                    IF buffer_write_room(rec.write_buffer, BUFFER_SIZE) < 2
                    THEN Return(m, "ERROR", rec, users)
                    ELSE Return(m, "AUTH_WRITE", auth_prawtos_process(rec), users)
               [] OTHER -> Return(m, "AUTH_READ", rec, users)
  <2>1. PICK n \in Received(m) :
         LET rec == Parsed(m, n)
         IN  CASE rec.parser.state = "error" -> Return(m, "ERROR", rec, users)
               [] rec.parser.state = "done" ->
                    IF buffer_write_room(rec.write_buffer, BUFFER_SIZE) < 2
                    THEN Return(m, "ERROR", rec, users)
                    ELSE Return(m, "AUTH_WRITE", auth_prawtos_process(rec), users)
               [] OTHER -> Return(m, "AUTH_READ", rec, users)
    BY <1>4
  <2>2. PICK rec : rec = Parsed(m, n)
    OBVIOUS
  <2> QED
    BY <1>3, <2>1, <2>2
<1> QED
  BY <1>2, <1>4 DEF auth_prawtos_read

\* An answer is marshalled, or ends the session.
LEMMA AnswerStep ==
  ASSUME Inv, fault = "none", NEW m \in Open, mgr[m].st = "CMD_READ",
         NEW rec, Asking(rec), rec.login = TRUE,
         NEW status \in {"success", "bad_credentials", "user_credentia"},
         NEW n \in 1..BUFFER_SIZE, NEW u, Listed(u), Answer(m, rec, n, status, u)
  PROVE  Inv'
<1> DEFINE ans == [rec EXCEPT !.interest = WRITE, !.status = status,
                              !.write_buffer = buffer_write_adv(@, n)]
           st == IF rec.parser.state = "error" THEN "ERROR" ELSE "CMD_WRITE"
<1> DEFINE login == rec.login
<1>1. ans = Marshalled(rec, status, login, n)
  BY DEF Asking, Session, Marshalled
<1>2. Allowed("CMD_WRITE", status, login, n)
  BY DEF Allowed, Writing
<1> HIDE DEF login
<1>3. Return(m, st, ans, u)
  BY DEF Answer
<1> HIDE DEF ans
<1>4. Proper(Arrived(m, "CMD_WRITE", ans)) /\ Arrived(m, "CMD_WRITE", ans).st = "CMD_WRITE"
  BY <1>1, <1>2, Answered
<1>5. CASE st = "ERROR"
  <2>1. Return(m, "ERROR", ans, u)
    BY <1>3, <1>5
  <2> QED
    BY <2>1, Returned
<1>6. CASE st = "CMD_WRITE"
  <2>1. Return(m, "CMD_WRITE", ans, u)
    BY <1>3, <1>6
  <2> QED
    BY <1>4, <2>1, Returned
<1> QED
  BY <1>5, <1>6

\* The session ends.
LEMMA ErrorStep ==
  ASSUME Inv, fault = "none", NEW m \in Open, NEW rec, NEW u, Listed(u),
         Return(m, "ERROR", rec, u)
  PROVE  Inv'
  BY Returned

\* The process ends.
LEMMA DieStep ==
  ASSUME Inv, NEW why \in {"overflow", "wild_call", "null_strcpy"}, Die(why),
         why = "overflow" => users.size + 1 > BUFFER_SIZE
  PROVE  Inv'
<1>1. /\ mgr' = mgr /\ users' = users /\ stadistics' = stadistics /\ proxies' = proxies
      /\ fault' = why
  BY DEF Die
<1>2. Open' = Open
  BY <1>1 DEF Open
<1>3. NeverOverReports'
  BY <1>1, <1>2 DEF Inv, NeverOverReports
<1> QED
  BY <1>1, <1>3 DEF Inv

\* What the users handlers can leave.
Outcomes(p) == CASE p.cmd = "X00" -> create_user(p)
                 [] p.cmd = "X01" -> del_user(p)
                 [] OTHER         -> modify_user(p)

\* create_user calls add_user.
LEMMA CreateIs ==
  ASSUME NEW p \in Parser, NEW o \in create_user(p)
  PROVE  \E user \in User : o.users = add_user(users, user)
<1>1. PICK b \in Nul, q \in Nul :
        o.users = add_user(users, [name |-> p.uname, pass |-> p.passwd,
                                   admin |-> p.admin # "X00", unul |-> b, pnul |-> q])
  BY DEF create_user
<1>2. b \in BOOLEAN /\ q \in BOOLEAN /\ (p.admin # "X00") \in BOOLEAN
  BY PrawtosAssumption DEF Nul
<1>3. p.uname \in Word /\ p.passwd \in Word
  BY DEF Parser
<1>4. [name |-> p.uname, pass |-> p.passwd, admin |-> p.admin # "X00",
       unul |-> b, pnul |-> q] \in User
  BY <1>2, <1>3 DEF User, Word
<1> QED
  BY <1>1, <1>4

\* The list of users stays one with each of them.
LEMMA OutcomesAreListed ==
  ASSUME Listed(users), NEW p \in Parser, NEW o \in Outcomes(p)
  PROVE  Listed(o.users)
<1>1. p.uname \in Word /\ p.passwd \in Word
  BY DEF Parser
<1>2. CASE p.cmd = "X00"
  <2>1. o \in create_user(p)
    BY <1>2 DEF Outcomes
  <2>2. PICK user \in User : o.users = add_user(users, user)
    BY <2>1, CreateIs
  <2> QED
    BY <2>2, AddKeepsList
<1>3. CASE p.cmd = "X01"
  <2>1. o.users = delete_user(users, p.uname)
    BY <1>3 DEF Outcomes, del_user
  <2> QED
    BY <2>1, DeleteKeepsList
<1>4. CASE p.cmd \notin {"X00", "X01"}
  <2>1. o.users = edit_user(users, p.uname, p.passwd)
    BY <1>4 DEF Outcomes, modify_user
  <2> QED
    BY <1>1, <2>1, EditKeepsList
<1> QED
  BY <1>2, <1>3, <1>4

\* A whole command is processed.
LEMMA ProcessStep ==
  ASSUME Inv, fault = "none", NEW m \in Open, mgr[m].st = "CMD_READ",
         NEW rec, Asking(rec), rec.login = TRUE, cmd_process(m, rec)
  PROVE  Inv'
<1>1. Listed(users) /\ users.size \in Nat
  BY DEF Inv, Listed
<1>2. /\ buffer_write_room(rec.write_buffer, BUFFER_SIZE) = BUFFER_SIZE
      /\ buffer_can_write(rec.write_buffer, BUFFER_SIZE)
      /\ 1 \in 1..BUFFER_SIZE /\ BUFFER_SIZE \in Nat /\ BUFFER_SIZE >= 2
  BY PrawtosAssumption DEF Asking, Empty, buffer_write_room, buffer_can_write
<1>3. rec.parser \in Parser
  BY DEF Asking, Session
<1>4. CASE get_process(m, rec)
  <2> DEFINE len == 1 + GetLength(rec.parser)
  <2>1. len \in Nat /\ len >= 1 /\ len \in {2, users.size + 1}
    BY <1>1 DEF GetLength, ListLength
  <2>2. IF BUFFER_SIZE < len THEN Die("overflow") ELSE Answer(m, rec, len, "success", users)
    BY <1>2, <1>4 DEF get_process
  <2> HIDE DEF len
  <2>3. CASE BUFFER_SIZE < len
    <3>1. Die("overflow") /\ users.size + 1 > BUFFER_SIZE
      BY <1>1, <1>2, <2>1, <2>2, <2>3
    <3> QED
      BY <3>1, DieStep
  <2>4. CASE ~(BUFFER_SIZE < len)
    <3>1. Answer(m, rec, len, "success", users) /\ len \in 1..BUFFER_SIZE
      BY <1>2, <2>1, <2>2, <2>4
    <3> QED
      BY <1>1, <3>1, AnswerStep
  <2> QED
    BY <2>3, <2>4
<1>5. CASE users_process(m, rec)
  <2>1. CASE Die("wild_call")
    BY <2>1, DieStep
  <2>2. CASE Die("null_strcpy")
    BY <2>2, DieStep
  <2>3. CASE \E o \in Outcomes(rec.parser) :
               Answer(m, rec, 1, IF o.ok THEN "success" ELSE "user_credentia", o.users)
    <3>1. PICK o \in Outcomes(rec.parser) :
               Answer(m, rec, 1, IF o.ok THEN "success" ELSE "user_credentia", o.users)
      BY <2>3
    <3>2. Listed(o.users)
      BY <1>1, <1>3, OutcomesAreListed
    <3>3. PICK status : status = IF o.ok THEN "success" ELSE "user_credentia"
      OBVIOUS
    <3>4. /\ status \in {"success", "bad_credentials", "user_credentia"}
          /\ Answer(m, rec, 1, status, o.users)
      BY <3>1, <3>3
    <3> QED
      BY <1>2, <3>2, <3>4, AnswerStep
  <2> QED
    BY <1>2, <1>5, <2>1, <2>2, <2>3 DEF users_process, Outcomes
<1>6. CASE Answer(m, rec, 1, "success", users)
  BY <1>1, <1>2, <1>6, AnswerStep
<1>7. CASE Return(m, "ERROR", rec, users)
  BY <1>1, <1>7, ErrorStep
<1> QED
  BY <1>4, <1>5, <1>6, <1>7 DEF cmd_process

\* A command is read.
LEMMA CmdRead ==
  ASSUME Inv, NEW m \in Manager, cmd_read(m)
  PROVE  Inv'
<1>1. /\ fault = "none" /\ mgr[m].st = "CMD_READ" /\ m \in Open
      /\ Listed(users) /\ Proper(mgr[m]) /\ Reading(mgr[m].st, "type")
  BY DEF cmd_read, OnRead, Open, Inv, Reading
<1>2. CASE Return(m, "ERROR", mgr[m], users)
  BY <1>1, <1>2, ErrorStep
<1>3. ASSUME NEW n \in Received(m), NEW rec, rec = Parsed(m, n),
             IF is_done(rec.parser) THEN cmd_process(m, rec)
             ELSE Return(m, "CMD_READ", rec, users)
      PROVE  Inv'
  <2>1. CASE is_done(rec.parser)
    <3>1. cmd_process(m, rec)
      BY <1>3, <2>1
    <3>2. Asking(rec) /\ rec.login = mgr[m].login
      BY <1>1, <1>3, <2>1, ParsedIsAsking
    <3>3. mgr[m].login = TRUE
      <4>1. mgr[m].login \in BOOLEAN /\ mgr[m].login
        BY <1>1 DEF Proper, Admitted, Session
      <4> QED
        BY <4>1
    <3> QED
      BY <1>1, <3>1, <3>2, <3>3, ProcessStep
  <2>2. CASE ~is_done(rec.parser)
    <3>1. /\ Proper(Arrived(m, "CMD_READ", rec))
          /\ Arrived(m, "CMD_READ", rec).st = "CMD_READ"
      BY <1>1, <1>3, <2>2, StillReading
    <3>2. Return(m, "CMD_READ", rec, users)
      BY <1>3, <2>2
    <3> QED
      BY <1>1, <3>1, <3>2, Returned
  <2> QED
    BY <2>1, <2>2
<1>4. CASE \E n \in Received(m) :
             LET rec == Parsed(m, n)
             IN  IF is_done(rec.parser) THEN cmd_process(m, rec)
                 ELSE Return(m, "CMD_READ", rec, users)
  <2>1. PICK n \in Received(m) :
             LET rec == Parsed(m, n)
             IN  IF is_done(rec.parser) THEN cmd_process(m, rec)
                 ELSE Return(m, "CMD_READ", rec, users)
    BY <1>4
  <2>2. PICK rec : rec = Parsed(m, n)
    OBVIOUS
  <2> QED
    BY <1>3, <2>1, <2>2
<1> QED
  BY <1>2, <1>4 DEF cmd_read

\* Part of an answer, or the rest of it, goes out.
LEMMA WroteStep ==
  ASSUME Inv, fault = "none", NEW m \in Open, mgr[m].st \in Writing, mgr[m].login = TRUE,
         NEW n \in Sent(m), Wrote(m, n)
  PROVE  Inv'
<1> DEFINE old == mgr[m]
           out == buffer_read_adv(old.write_buffer, n)
           part == [old EXCEPT !.write_buffer = out]
           all == [old EXCEPT !.write_buffer = out, !.interest = READ]
<1>1. /\ m \in Manager /\ Listed(users) /\ Proper(old) /\ old \in Session
      /\ old.write_buffer \in Pointers
      /\ Len(old.in) = buffer_read_avail(old.read_buffer)
      /\ old.interest = WRITE /\ old.greeted /\ WholeCommands(Stream(old))
  BY DEF Inv, Open, Proper, Aligned, Answering, Session
<1>2. n \in Nat /\ n <= buffer_read_avail(old.write_buffer)
  <2>1. buffer_read_avail(old.write_buffer) \in Int
    BY <1>1, PrawtosAssumption DEF Pointers, buffer_read_avail
  <2> QED
    BY <2>1 DEF Sent
<1>3. /\ out \in Pointers /\ (buffer_can_read(out) => out.read < out.write)
      /\ (~buffer_can_read(out) => out = Empty)
  BY <1>1, <1>2, Drained
<1>4. /\ buffer_can_read(out) => Return(m, old.st, part, users)
      /\ ~buffer_can_read(out) => Return(m, "CMD_READ", all, users)
  BY DEF Wrote
<1> HIDE DEF out
<1>5. CASE buffer_can_read(out)
  <2> DEFINE new == Arrived(m, old.st, part)
  <2>1. /\ part \in Session /\ part.in = old.in /\ part.wire = old.wire
        /\ part.read_buffer = old.read_buffer /\ part.write_buffer = out
        /\ part.interest = old.interest /\ part.login = old.login
        /\ part.greeted = old.greeted
    BY <1>1, <1>3 DEF Session
  <2> HIDE DEF part
  <2>2. PICK z \in {"AUTH_READ", "AUTH_WRITE", "CMD_READ", "CMD_WRITE"} : z = old.st
    BY DEF Writing
  <2>3. /\ new \in Session /\ new.st = old.st /\ new.in = part.in /\ new.wire = part.wire
        /\ new.read_buffer = part.read_buffer /\ new.write_buffer = part.write_buffer
        /\ new.interest = part.interest /\ new.login = part.login
        /\ new.greeted = part.greeted
    <3>1. /\ Arrived(m, z, part) \in Session /\ Arrived(m, z, part).st = z
          /\ Arrived(m, z, part).in = part.in /\ Arrived(m, z, part).wire = part.wire
          /\ Arrived(m, z, part).read_buffer = part.read_buffer
          /\ Arrived(m, z, part).write_buffer = part.write_buffer
          /\ Arrived(m, z, part).interest = part.interest
          /\ Arrived(m, z, part).login = part.login
          /\ Arrived(m, z, part).greeted = part.greeted
      <4>1. part \in Session
        BY <2>1
      <4> HIDE DEF new
      <4> QED
        BY <4>1, ArrivedIs
    <3> QED
      BY <2>2, <3>1
  <2> HIDE DEF new
  <2>4. Stream(new) = Stream(old)
    BY <2>1, <2>3 DEF Stream
  <2>5. Aligned(new)
    BY <1>1, <2>1, <2>3, <2>4 DEF Aligned, Writing
  <2>6. Answering(new) /\ Len(new.in) = buffer_read_avail(new.read_buffer)
    BY <1>1, <1>3, <1>5, <2>1, <2>3 DEF Answering, Writing
  <2>7. Admitted(new)
    BY <2>1, <2>3 DEF Admitted, Writing
  <2>8. Proper(new) /\ new.st = old.st
    BY <2>3, <2>5, <2>6, <2>7 DEF Proper
  <2>9. old.st \notin {"ERROR", "DONE", "closed"}
    BY DEF Writing
  <2> QED
    BY <1>1, <1>4, <1>5, <2>8, <2>9, Returned DEF new
<1>6. CASE ~buffer_can_read(out)
  <2> DEFINE new == Arrived(m, "CMD_READ", all)
  <2>1. /\ all \in Session /\ all.in = old.in /\ all.wire = old.wire
        /\ all.read_buffer = old.read_buffer /\ all.write_buffer = Empty
        /\ all.interest = READ /\ all.login = TRUE
        /\ all.greeted = old.greeted
    BY <1>1, <1>3, <1>6 DEF Session
  <2> HIDE DEF all
  <2>2. "CMD_READ" \in {"AUTH_READ", "AUTH_WRITE", "CMD_READ", "CMD_WRITE"}
    OBVIOUS
  <2>3. /\ new \in Session /\ new.st = "CMD_READ" /\ new.in = all.in /\ new.wire = all.wire
        /\ new.read_buffer = all.read_buffer /\ new.write_buffer = all.write_buffer
        /\ new.interest = all.interest /\ new.login = all.login
        /\ new.greeted = all.greeted
        /\ new.parser = IF mgr[m].st # "CMD_READ" THEN ParserInit("type") ELSE all.parser
    <3>1. all \in Session
      BY <2>1
    <3> QED
      BY <3>1, ArrivedIs
  <2> HIDE DEF new
  <2>4. Stream(new) = Stream(old) /\ Stream(old) \in Seq(Field)
    <3>1. old.in \in Seq(Field) /\ old.wire \in Seq(Field)
      BY <1>1 DEF Session
    <3> QED
      BY <2>1, <2>3, <3>1 DEF Stream
  <2>5. new.parser = ParserInit("type")
    BY <2>3 DEF Writing
  <2>6. Ready(new.parser, Stream(new))
    BY <1>1, <2>4, <2>5, ReadyIsWhole
  <2>7. Aligned(new)
    BY <1>1, <2>1, <2>3, <2>6 DEF Aligned, Writing
  <2>8. Answering(new) /\ Len(new.in) = buffer_read_avail(new.read_buffer)
    BY <1>1, <2>1, <2>3 DEF Answering, Writing
  <2>9. Admitted(new)
    BY <2>1, <2>3 DEF Admitted
  <2>10. Proper(new) /\ new.st = "CMD_READ"
    BY <2>3, <2>7, <2>8, <2>9 DEF Proper
  <2> QED
    BY <1>1, <1>4, <1>6, <2>10, Returned DEF new
<1> QED
  BY <1>5, <1>6

\* A failed send changes nothing.
LEMMA StutterStep ==
  ASSUME Inv, UNCHANGED vars
  PROVE  Inv'
<1>1. /\ mgr' = mgr /\ users' = users /\ stadistics' = stadistics /\ proxies' = proxies
      /\ fault' = fault
  BY DEF vars
<1>2. Open' = Open
  BY <1>1 DEF Open
<1>3. NeverOverReports'
  BY <1>1, <1>2 DEF Inv, NeverOverReports
<1> QED
  BY <1>1, <1>3 DEF Inv

\* The answer to a login goes out.
LEMMA AuthWrite ==
  ASSUME Inv, NEW m \in Manager, auth_prawtos_write(m)
  PROVE  Inv'
<1>1. /\ fault = "none" /\ mgr[m].st = "AUTH_WRITE" /\ m \in Open
      /\ Listed(users) /\ Proper(mgr[m]) /\ mgr[m].st \in Writing
  BY DEF auth_prawtos_write, OnWrite, Open, Inv, Writing
<1>2. CASE mgr[m].status # "success"
  <2>1. Return(m, "ERROR", mgr[m], users)
    BY <1>2 DEF auth_prawtos_write
  <2> QED
    BY <1>1, <2>1, ErrorStep
<1>3. CASE mgr[m].status = "success"
  <2>1. mgr[m].login = TRUE
    <3>1. mgr[m].login \in BOOLEAN /\ mgr[m].login
      BY <1>1, <1>3 DEF Proper, Admitted, Session
    <3> QED
      BY <3>1
  <2>2. SendFails(m) \/ \E n \in Sent(m) : Wrote(m, n)
    BY <1>3 DEF auth_prawtos_write
  <2>3. CASE SendFails(m)
    BY <2>3, StutterStep DEF SendFails
  <2>4. CASE \E n \in Sent(m) : Wrote(m, n)
    BY <1>1, <2>1, <2>4, WroteStep
  <2> QED
    BY <2>2, <2>3, <2>4
<1> QED
  BY <1>2, <1>3

\* The answer to a command goes out.
LEMMA CmdWrite ==
  ASSUME Inv, NEW m \in Manager, cmd_write(m)
  PROVE  Inv'
<1>1. /\ fault = "none" /\ mgr[m].st = "CMD_WRITE" /\ m \in Open
      /\ Listed(users) /\ Proper(mgr[m]) /\ mgr[m].st \in Writing
  BY DEF cmd_write, OnWrite, Open, Inv, Writing
<1>2. mgr[m].login = TRUE
  <2>1. mgr[m].login \in BOOLEAN /\ mgr[m].login
    BY <1>1 DEF Proper, Admitted, Session
  <2> QED
    BY <2>1
<1>3. CASE SendFails(m)
  BY <1>3, StutterStep DEF SendFails
<1>4. CASE Return(m, "DONE", mgr[m], users)
  BY <1>1, <1>4, Returned
<1>5. CASE \E n \in Sent(m) : Wrote(m, n)
  BY <1>1, <1>2, <1>5, WroteStep
<1> QED
  BY <1>3, <1>4, <1>5 DEF cmd_write
-----------------------------------------------------------------------------
(* The invariant holds.                                                    *)

\* The list that init_user_list builds is one.
LEMMA InitInv == Init => Inv
<1> SUFFICES ASSUME Init
             PROVE  Inv
  OBVIOUS
<1>1. mgr \in [Manager -> Session] /\ \A m \in Manager : Proper(mgr[m])
  BY ClosedIsProper DEF Init
<1>2. Listed(users)
  <2>1. /\ users = [list |-> InitialUsers, size |-> Len(InitialUsers)]
        /\ InitialUsers \in Seq(User) /\ Len(InitialUsers) \in Nat
        /\ DOMAIN InitialUsers = 1..Len(InitialUsers)
    BY PrawtosAssumption DEF Init
  <2>2. \A i, j \in DOMAIN InitialUsers : i # j => InitialUsers[i].name # InitialUsers[j].name
    BY PrawtosAssumption
  <2> QED
    BY <2>1, <2>2 DEF Listed
<1>3. stadistics \in Counters /\ proxies \in Nat /\ fault = "none"
  BY PrawtosAssumption DEF Init, Counters
<1>4. NeverOverReports
  <2>1. Cardinality(Open) \in Nat
    <3>1. Open \subseteq Manager
      BY DEF Open
    <3> QED
      BY <3>1, PrawtosAssumption, FS_Subset, FS_CardinalityType
  <2> QED
    BY <2>1 DEF Init, NeverOverReports
<1> QED
  BY <1>1, <1>2, <1>3, <1>4 DEF Inv

\* Every action keeps the invariant.
LEMMA NextInv == Inv /\ [Next]_vars => Inv'
<1> SUFFICES ASSUME Inv, [Next]_vars
             PROVE  Inv'
  OBVIOUS
<1>1. ASSUME NEW m \in Manager, prawtos_passive_accept(m)
      PROVE  Inv'
  BY <1>1, AcceptStep
<1>2. ASSUME NEW m \in Manager, ClientSends(m, Commands) \/ ClientLeaves(m)
      PROVE  Inv'
  <2>1. Commands \in SUBSET Commands
    OBVIOUS
  <2> QED
    BY <1>2, <2>1, ClientStep
<1>3. ASSUME NEW m \in Manager, auth_prawtos_read(m)
      PROVE  Inv'
  BY <1>3, AuthRead
<1>4. ASSUME NEW m \in Manager, auth_prawtos_write(m)
      PROVE  Inv'
  BY <1>4, AuthWrite
<1>5. ASSUME NEW m \in Manager, cmd_read(m)
      PROVE  Inv'
  BY <1>5, CmdRead
<1>6. ASSUME NEW m \in Manager, cmd_write(m)
      PROVE  Inv'
  BY <1>6, CmdWrite
<1>7. CASE AcceptFails \/ ProxyConnects \/ ProxyLeaves
  BY <1>7, CountersStep
<1>8. CASE UNCHANGED vars
  BY <1>8, StutterStep
<1>9. CASE Dead
  BY <1>9, StutterStep DEF Dead
<1> QED
  BY <1>1, <1>2, <1>3, <1>4, <1>5, <1>6, <1>7, <1>8, <1>9 DEF Next

\* Sessions, list and counters are as Inv says in every state.
THEOREM InvHolds == Spec => []Inv
  BY InitInv, NextInv, PTL DEF Spec

\* Sessions, list and counters have their types.
LEMMA InvTypes == Inv => TypeOK
<1> SUFFICES ASSUME Inv
             PROVE  TypeOK
  OBVIOUS
<1>1. ASSUME NEW m \in Manager
      PROVE  /\ mgr[m].st \in {"closed", "AUTH_READ", "AUTH_WRITE", "CMD_READ", "CMD_WRITE"}
             /\ mgr[m].interest \in {READ, WRITE}
             /\ mgr[m].read_buffer \in Pointers /\ mgr[m].write_buffer \in Pointers
             /\ Len(mgr[m].in) = buffer_read_avail(mgr[m].read_buffer)
  BY <1>1 DEF Inv, Proper, Session
<1>2. Range(users.list) \subseteq User
  <2>1. users.list \in Seq(User)
    BY DEF Inv, Listed
  <2> QED
    BY <2>1 DEF Range
<1>3. /\ stadistics \in [concurrentConnections : 0..UINT16_MAX, totalConnections : 0..UINT16_MAX]
      /\ fault \in {"none", "overflow", "wild_call", "null_strcpy"}
  BY DEF Inv, Counters
<1> QED
  BY <1>1, <1>2, <1>3 DEF TypeOK

\* prawtos.c and its parsers: states, interests, pointers and counters stay in
\* their ranges, and read_buffer holds as many fields as its pointers say.
THEOREM TypesAreKept == Spec => []TypeOK
  BY InvTypes, InvHolds, PTL

\* Answers are in write_buffer while sessions wait to write.
LEMMA InvAnswers == Inv => AnswerIsPending
<1> SUFFICES ASSUME Inv
             PROVE  AnswerIsPending
  OBVIOUS
<1>1. ASSUME NEW m \in Open
      PROVE  LET writing == mgr[m].st \in {"AUTH_WRITE", "CMD_WRITE"}
             IN  /\ writing = buffer_can_read(mgr[m].write_buffer)
                 /\ writing = (mgr[m].interest = WRITE)
  <2>1. Answering(mgr[m]) /\ mgr[m].write_buffer \in Pointers
    BY DEF Inv, Proper, Session, Open
  <2>2. CASE mgr[m].st \in Writing
    <3>1. buffer_can_read(mgr[m].write_buffer) /\ mgr[m].interest = WRITE
      BY <2>1, <2>2, PrawtosAssumption DEF Answering, Pointers, buffer_can_read
    <3> QED
      BY <2>2, <3>1 DEF Writing, buffer_can_read
  <2>3. CASE mgr[m].st \notin Writing
    <3>1. ~buffer_can_read(mgr[m].write_buffer) /\ mgr[m].interest # WRITE
      BY <2>1, <2>3 DEF Answering, Empty, buffer_can_read, READ, WRITE
    <3> QED
      BY <2>3, <3>1 DEF Writing, buffer_can_read
  <2> QED
    BY <2>2, <2>3
<1>2. fault = "overflow" => users.size + 1 > BUFFER_SIZE
  BY DEF Inv
<1> QED
  BY <1>1, <1>2 DEF AnswerIsPending

\* auth_prawtos_write and cmd_write: no answer is lost when a session changes
\* state, none is marshalled over another, and write_buffer is overrun only by a
\* listing of more users than fit.
THEOREM AnswersAreKept == Spec => []AnswerIsPending
  BY InvAnswers, InvHolds, PTL

\* A parser that is about to start stands at the start of a command.
LEMMA InvAligned == Inv => StreamStaysAligned
<1> SUFFICES ASSUME Inv, NEW m \in Open,
                    mgr[m].st = "CMD_WRITE" \/ (mgr[m].st = "CMD_READ" /\ mgr[m].parser.state = "type")
             PROVE  WholeCommands(mgr[m].in \o mgr[m].wire)
  BY DEF StreamStaysAligned
<1>1. Aligned(mgr[m]) /\ mgr[m].in \in Seq(Field) /\ mgr[m].wire \in Seq(Field)
  BY DEF Inv, Proper, Session, Open
<1>2. CASE mgr[m].st = "CMD_WRITE"
  BY <1>1, <1>2 DEF Aligned, Writing, Stream
<1>3. CASE mgr[m].st = "CMD_READ" /\ mgr[m].parser.state = "type"
  <2>1. Ready(mgr[m].parser, Stream(mgr[m]))
    BY <1>1, <1>3 DEF Aligned
  <2>2. Stream(mgr[m]) \in Seq(Field)
    BY <1>1 DEF Stream
  <2>3. WholeCommands(Stream(mgr[m]))
    BY <1>3, <2>1, <2>2, ReadyIsWhole
  <2> QED
    BY <2>3 DEF Stream
<1> QED
  BY <1>2, <1>3

\* auth_consume and prawtos_consume: however recv cuts the stream, a parser
\* starts where a command starts.
THEOREM CommandsAreAligned == Spec => []StreamStaysAligned
  BY InvAligned, InvHolds, PTL

\* stadistics_increase_concurrent and stadistics_decrease_concurrent: the counter
\* that two protocols share, stops at UINT16_MAX and is decreased by failed
\* accepts never exceeds the sessions that exist.
THEOREM CounterNeverOverReports == Spec => []NeverOverReports
<1>1. Inv => NeverOverReports
  BY DEF Inv
<1> QED
  BY <1>1, InvHolds, PTL

\* Other handlers leave the list alone.
LEMMA OnlyCommandsChangeUsers ==
  ASSUME NEW m, auth_prawtos_read(m) \/ auth_prawtos_write(m) \/ cmd_write(m)
  PROVE  users' = users
<1>1. CASE auth_prawtos_read(m)
  BY <1>1 DEF auth_prawtos_read, Return
<1>2. CASE auth_prawtos_write(m) \/ cmd_write(m)
  BY <1>2 DEF auth_prawtos_write, cmd_write, SendFails, Wrote, Return, vars
<1> QED
  BY <1>1, <1>2

\* A handler that changes the list processes a command of a session that was let
\* in.
LEMMA ChangeIsCommand ==
  ASSUME Inv, NEW m \in Manager, cmd_read(m), users' # users
  PROVE  /\ m \in Open /\ mgr[m].st = "CMD_READ" /\ mgr[m].login
         /\ \E n \in Received(m) : cmd_process(m, Parsed(m, n))
<1>1. mgr[m].st = "CMD_READ" /\ m \in Open
  BY DEF cmd_read, OnRead, Open
<1>2. mgr[m].login
  BY <1>1 DEF Inv, Proper, Admitted
<1>3. \E n \in Received(m) : cmd_process(m, Parsed(m, n))
  BY DEF cmd_read, Return
<1> QED
  BY <1>1, <1>2, <1>3

\* A step that changes the list is one of cmd_read.
LEMMA ChangeIsRead ==
  ASSUME Next, users' # users
  PROVE  \E m \in Manager : cmd_read(m)
<1>1. PICK m \in Manager : cmd_read(m)
  <2>1. ASSUME NEW m \in Manager,
               prawtos_passive_accept(m) \/ ClientSends(m, Commands) \/ ClientLeaves(m)
        PROVE  FALSE
    BY <2>1 DEF prawtos_passive_accept, ClientSends, ClientLeaves
  <2>2. ASSUME NEW m \in Manager,
               auth_prawtos_read(m) \/ auth_prawtos_write(m) \/ cmd_write(m)
        PROVE  FALSE
    BY <2>2, OnlyCommandsChangeUsers
  <2>3. ~(AcceptFails \/ ProxyConnects \/ ProxyLeaves \/ Dead)
    BY DEF AcceptFails, ProxyConnects, ProxyLeaves, Dead, vars
  <2> QED
    BY <2>1, <2>2, <2>3 DEF Next
<1> QED
  BY <1>1

\* user_check_credentials at login: only sessions it let in as administrators
\* change the list, through any number of messages.
THEOREM AdministratorsOnly == Spec => AdminsOnly
<1>1. Inv /\ [Next]_vars =>
        [users' # users => \E m \in Manager : mgr[m].st = "CMD_READ" /\ mgr[m].login]_vars
  <2> SUFFICES ASSUME Inv, Next, users' # users
               PROVE  \E m \in Manager : mgr[m].st = "CMD_READ" /\ mgr[m].login
    BY DEF vars
  <2> QED
    BY ChangeIsRead, ChangeIsCommand
<1> QED
  BY <1>1, InvHolds, PTL DEF Spec, AdminsOnly
-----------------------------------------------------------------------------
(* The list of users implements the registry.                              *)

\* Accounts of a list.
AccountsOf(l) == [n \in {u.name : u \in Range(l)} |->
                    LET u == CHOOSE v \in Range(l) : v.name = n
                    IN  [pass |-> u.pass, admin |-> u.admin]]

Distinct(l) == \A i, j \in 1..Len(l) : i # j => l[i].name # l[j].name

AccountOf(user) == [pass |-> user.pass, admin |-> user.admin]

\* One account per user.
LEMMA AccountsAre ==
  ASSUME NEW l \in Seq(User), Distinct(l)
  PROVE  /\ AccountsOf(l) = [n \in DOMAIN AccountsOf(l) |-> AccountsOf(l)[n]]
         /\ \A n : n \in DOMAIN AccountsOf(l) <=> \E i \in 1..Len(l) : l[i].name = n
         /\ \A i \in 1..Len(l) : AccountsOf(l)[l[i].name] = AccountOf(l[i])
         /\ Cardinality(DOMAIN AccountsOf(l)) = Len(l)
<1> DEFINE D == {u.name : u \in Range(l)}
           m == Len(l)
           f == [i \in 1..m |-> l[i].name]
<1>1. m \in Nat /\ Range(l) = {l[i] : i \in 1..m}
  BY DEF Range
<1>2. \A n : n \in D <=> \E i \in 1..m : l[i].name = n
  BY <1>1
<1>3. DOMAIN AccountsOf(l) = D /\ AccountsOf(l) = [n \in D |-> AccountsOf(l)[n]]
  BY DEF AccountsOf
<1>4. ASSUME NEW i \in 1..m
      PROVE  AccountsOf(l)[l[i].name] = AccountOf(l[i])
  <2> DEFINE u == CHOOSE v \in Range(l) : v.name = l[i].name
  <2>1. l[i] \in Range(l) /\ l[i].name \in D
    BY <1>1
  <2>2. u \in Range(l) /\ u.name = l[i].name
    BY <2>1
  <2>3. PICK j \in 1..m : u = l[j]
    BY <1>1, <2>2
  <2>4. j = i
    BY <2>2, <2>3 DEF Distinct
  <2>5. AccountsOf(l)[l[i].name] = [pass |-> u.pass, admin |-> u.admin]
    BY <2>1 DEF AccountsOf
  <2> HIDE DEF u
  <2> QED
    BY <2>3, <2>4, <2>5 DEF AccountOf
<1>5. Cardinality(D) = m
  <2>1. f \in Surjection(1..m, D)
    <3>1. f \in [1..m -> D]
      BY <1>2
    <3>2. \A n \in D : \E i \in 1..m : f[i] = n
      BY <1>2
    <3> HIDE DEF f, D
    <3> QED
      BY <3>1, <3>2 DEF Surjection
  <2>2. f \in Injection(1..m, D)
    <3>1. f \in [1..m -> D]
      BY <1>2
    <3>2. \A i, j \in 1..m : f[i] = f[j] => i = j
      BY DEF Distinct
    <3> HIDE DEF f, D
    <3> QED
      BY <3>1, <3>2 DEF Injection, IsInjective
  <2>3. IsFiniteSet(1..m) /\ Cardinality(1..m) = m
    <3> HIDE DEF m
    <3>1. 1 \in Int /\ m \in Int /\ (1 > m => m = 0) /\ m - 1 + 1 = m
      BY <1>1
    <3>2. IsFiniteSet(1..m) /\ Cardinality(1..m) = IF 1 > m THEN 0 ELSE m - 1 + 1
      BY <3>1, FS_Interval
    <3> QED
      BY <3>1, <3>2
  <2> HIDE DEF f, D, m
  <2>4. Cardinality(D) = Cardinality(1..m)
    BY <2>1, <2>2, <2>3, FS_Surjection
  <2> QED
    BY <2>3, <2>4
<1> QED
  BY <1>2, <1>3, <1>4, <1>5

\* Two sets of accounts are the same if they agree on every name.
LEMMA SameAccounts ==
  ASSUME NEW a, NEW b, a = [n \in DOMAIN a |-> a[n]], b = [n \in DOMAIN b |-> b[n]],
         \A n : n \in DOMAIN a <=> n \in DOMAIN b,
         \A n \in DOMAIN a : a[n] = b[n]
  PROVE  a = b
<1>1. DOMAIN a = DOMAIN b
  OBVIOUS
<1> QED
  BY <1>1

\* add_user creates an account.
LEMMA AddCreates ==
  ASSUME NEW l \in Seq(User), Distinct(l), NEW user \in User,
         \A i \in 1..Len(l) : l[i].name # user.name
  PROVE  /\ Append(l, user) \in Seq(User) /\ Distinct(Append(l, user))
         /\ user.name \notin DOMAIN AccountsOf(l)
         /\ AccountsOf(Append(l, user)) =
              [n \in DOMAIN AccountsOf(l) \cup {user.name} |->
                 IF n = user.name THEN AccountOf(user) ELSE AccountsOf(l)[n]]
<1> DEFINE v == Append(l, user)
           m == Len(l)
           a == AccountsOf(l)
           b == [n \in DOMAIN a \cup {user.name} |->
                   IF n = user.name THEN AccountOf(user) ELSE a[n]]
           c == AccountsOf(v)
<1>1. /\ m \in Nat /\ v \in Seq(User) /\ Len(v) = m + 1 /\ v[m + 1] = user
      /\ \A i \in 1..m : v[i] = l[i]
  OBVIOUS
<1>2. \A i \in 1..(m + 1) : i \in 1..m \/ i = m + 1
  BY <1>1
<1>3. \A i \in 1..m : i \in 1..(m + 1)
  BY <1>1
<1>4. m + 1 \in 1..(m + 1)
  BY <1>1
<1> HIDE DEF v
<1>5. Distinct(v)
  <2> SUFFICES ASSUME NEW i \in 1..(m + 1), NEW j \in 1..(m + 1), i # j
               PROVE  v[i].name # v[j].name
    BY <1>1 DEF Distinct
  <2>1. CASE i \in 1..m /\ j \in 1..m
    BY <1>1, <2>1 DEF Distinct
  <2>2. CASE i = m + 1 /\ j \in 1..m
    BY <1>1, <2>2
  <2>3. CASE j = m + 1 /\ i \in 1..m
    BY <1>1, <2>3
  <2> QED
    BY <1>2, <2>1, <2>2, <2>3
<1>6. /\ \A n : n \in DOMAIN a <=> \E i \in 1..m : l[i].name = n
      /\ \A i \in 1..m : a[l[i].name] = AccountOf(l[i]) /\ l[i].name # user.name
  BY AccountsAre
<1>7. /\ c = [n \in DOMAIN c |-> c[n]]
      /\ \A n : n \in DOMAIN c <=> \E i \in 1..(m + 1) : v[i].name = n
      /\ \A i \in 1..(m + 1) : c[v[i].name] = AccountOf(v[i])
  BY <1>1, <1>5, AccountsAre
<1>8. user.name \notin DOMAIN a
  BY <1>6
<1> HIDE DEF a, c, m
<1>9. \A n : n \in DOMAIN b <=> n \in DOMAIN a \/ n = user.name
  OBVIOUS
<1>10. \A n : n \in DOMAIN c <=> n \in DOMAIN b
  <2>1. ASSUME NEW n, n \in DOMAIN c
        PROVE  n \in DOMAIN b
    BY <1>1, <1>2, <1>6, <1>7, <1>9, <2>1
  <2>2. ASSUME NEW n, n \in DOMAIN b
        PROVE  n \in DOMAIN c
    <3>1. CASE n = user.name
      BY <1>1, <1>4, <1>7, <3>1
    <3>2. CASE n \in DOMAIN a
      BY <1>1, <1>3, <1>6, <1>7, <3>2
    <3> QED
      BY <1>9, <2>2, <3>1, <3>2
  <2> QED
    BY <2>1, <2>2
<1>11. ASSUME NEW n \in DOMAIN c
       PROVE  c[n] = b[n]
  <2>1. PICK i \in 1..(m + 1) : v[i].name = n
    BY <1>7
  <2>2. c[n] = AccountOf(v[i]) /\ n \in DOMAIN b
    BY <1>7, <1>10, <2>1
  <2>3. CASE i = m + 1
    BY <1>1, <2>1, <2>2, <2>3
  <2>4. CASE i \in 1..m
    <3>1. v[i] = l[i] /\ n # user.name /\ a[n] = AccountOf(l[i])
      BY <1>1, <1>6, <2>1, <2>4
    <3> QED
      BY <1>9, <2>2, <3>1
  <2> QED
    BY <1>2, <2>3, <2>4
<1>12. b = [n \in DOMAIN b |-> b[n]]
  OBVIOUS
<1> HIDE DEF b
<1>13. c = b
  BY <1>7, <1>10, <1>11, <1>12, SameAccounts
<1> QED
  BY <1>1, <1>5, <1>8, <1>13 DEF v, a, b, c

\* delete_user removes an account: v is l without the user at p.
LEMMA DeleteRemoves ==
  ASSUME NEW l \in Seq(User), Distinct(l), NEW p \in 1..Len(l),
         NEW v \in Seq(User), Len(v) = Len(l) - 1,
         \A i \in 1..(Len(l) - 1) : v[i] = l[IF i < p THEN i ELSE i + 1]
  PROVE  /\ Distinct(v) /\ l[p].name \in DOMAIN AccountsOf(l)
         /\ AccountsOf(v) = [n \in DOMAIN AccountsOf(l) \ {l[p].name} |-> AccountsOf(l)[n]]
<1> DEFINE m == Len(l)
           from(i) == IF i < p THEN i ELSE i + 1
           a == AccountsOf(l)
           b == [n \in DOMAIN a \ {l[p].name} |-> a[n]]
           c == AccountsOf(v)
<1>1. m \in Nat /\ p \in 1..m /\ Len(v) = m - 1
  OBVIOUS
<1>2. \A i \in 1..(m - 1) : v[i] = l[from(i)] /\ from(i) \in 1..m /\ from(i) # p
  BY <1>1
<1>3. \A i, j \in 1..(m - 1) : i # j => from(i) # from(j)
  BY <1>1
<1>4. \A i, j \in 1..m : i # j => l[i].name # l[j].name
  BY DEF Distinct
<1>5. ASSUME NEW k \in 1..m, k # p
      PROVE  \E i \in 1..(m - 1) : from(i) = k
  <2>1. CASE k < p
    <3>1. k \in 1..(m - 1) /\ from(k) = k
      BY <1>1, <2>1
    <3> QED
      BY <3>1
  <2>2. CASE k > p
    <3>1. k - 1 \in 1..(m - 1) /\ from(k - 1) = k
      BY <1>1, <2>2
    <3> QED
      BY <3>1
  <2> QED
    BY <1>1, <1>5, <2>1, <2>2
<1> HIDE DEF from
<1>6. Distinct(v)
  <2>1. ASSUME NEW i \in 1..(m - 1), NEW j \in 1..(m - 1), i # j
        PROVE  v[i].name # v[j].name
    <3>1. v[i] = l[from(i)] /\ v[j] = l[from(j)]
      BY <1>2
    <3>2. from(i) \in 1..m /\ from(j) \in 1..m /\ from(i) # from(j)
      BY <1>2, <1>3, <2>1
    <3> QED
      BY <1>4, <3>1, <3>2
  <2> QED
    BY <1>1, <2>1 DEF Distinct
<1>7. /\ \A n : n \in DOMAIN a <=> \E i \in 1..m : l[i].name = n
      /\ \A i \in 1..m : a[l[i].name] = AccountOf(l[i])
  BY AccountsAre
<1>8. /\ c = [n \in DOMAIN c |-> c[n]]
      /\ \A n : n \in DOMAIN c <=> \E i \in 1..(m - 1) : v[i].name = n
      /\ \A i \in 1..(m - 1) : c[v[i].name] = AccountOf(v[i])
  <2>1. /\ c = [n \in DOMAIN c |-> c[n]]
        /\ \A n : n \in DOMAIN c <=> \E i \in 1..Len(v) : v[i].name = n
        /\ \A i \in 1..Len(v) : c[v[i].name] = AccountOf(v[i])
    BY <1>6, AccountsAre
  <2> HIDE DEF c, m
  <2> QED
    BY <1>1, <2>1
<1>9. l[p].name \in DOMAIN a
  BY <1>1, <1>7
<1> HIDE DEF a, c, m
<1>10. \A n : n \in DOMAIN b <=> n \in DOMAIN a /\ n # l[p].name
  OBVIOUS
<1>11. ASSUME NEW n, n \in DOMAIN c
       PROVE  n \in DOMAIN b /\ c[n] = b[n]
  <2>1. PICK i \in 1..(m - 1) : v[i].name = n
    BY <1>8, <1>11
  <2>2. v[i] = l[from(i)] /\ from(i) \in 1..m /\ from(i) # p
    BY <1>2
  <2>3. n \in DOMAIN a /\ a[n] = AccountOf(v[i]) /\ n # l[p].name
    BY <1>1, <1>4, <1>7, <2>1, <2>2
  <2>4. c[n] = AccountOf(v[i])
    BY <1>8, <2>1
  <2> QED
    BY <1>10, <2>3, <2>4
<1>12. ASSUME NEW n, n \in DOMAIN b
       PROVE  n \in DOMAIN c
  <2>1. PICK k \in 1..m : l[k].name = n
    BY <1>7, <1>10, <1>12
  <2>2. k # p
    BY <1>10, <1>12, <2>1
  <2>3. PICK i \in 1..(m - 1) : from(i) = k
    BY <1>5, <2>2
  <2>4. v[i].name = n
    BY <1>2, <2>1, <2>3
  <2> QED
    BY <1>8, <2>4
<1>13. b = [n \in DOMAIN b |-> b[n]]
  OBVIOUS
<1> HIDE DEF b
<1>14. c = b
  BY <1>8, <1>11, <1>12, <1>13, SameAccounts
<1> QED
  BY <1>6, <1>9, <1>14 DEF a, b, c

\* edit_user gives an account a new password: v is l with another user at p.
LEMMA EditSetsPassword ==
  ASSUME NEW l \in Seq(User), Distinct(l), NEW p \in 1..Len(l), NEW pass \in Word,
         NEW v \in Seq(User), Len(v) = Len(l),
         \A i \in 1..Len(l) : v[i] = IF i = p THEN Edited(l[i], pass) ELSE l[i]
  PROVE  /\ Distinct(v) /\ l[p].name \in DOMAIN AccountsOf(l)
         /\ AccountsOf(v) = [AccountsOf(l) EXCEPT ![l[p].name].pass = pass]
<1> DEFINE m == Len(l)
           name == l[p].name
           a == AccountsOf(l)
           b == [a EXCEPT ![name].pass = pass]
           c == AccountsOf(v)
<1>1. p \in 1..m /\ Len(v) = m
  OBVIOUS
<1>2. \A i \in 1..m : l[i] \in User
  OBVIOUS
<1>3. ASSUME NEW i \in 1..m
      PROVE  v[i].name = l[i].name
  <2>1. Edited(l[i], pass).name = l[i].name
    BY <1>2, EditedIs
  <2> QED
    BY <2>1
<1>4. \A i, j \in 1..m : i # j => l[i].name # l[j].name
  BY DEF Distinct
<1>5. Distinct(v)
  BY <1>1, <1>3, <1>4 DEF Distinct
<1>6. /\ a = [n \in DOMAIN a |-> a[n]]
      /\ \A n : n \in DOMAIN a <=> \E i \in 1..m : l[i].name = n
      /\ \A i \in 1..m : a[l[i].name] = AccountOf(l[i])
  BY AccountsAre
<1>7. /\ c = [n \in DOMAIN c |-> c[n]]
      /\ \A n : n \in DOMAIN c <=> \E i \in 1..m : v[i].name = n
      /\ \A i \in 1..m : c[v[i].name] = AccountOf(v[i])
  <2>1. /\ c = [n \in DOMAIN c |-> c[n]]
        /\ \A n : n \in DOMAIN c <=> \E i \in 1..Len(v) : v[i].name = n
        /\ \A i \in 1..Len(v) : c[v[i].name] = AccountOf(v[i])
    BY <1>5, AccountsAre
  <2> HIDE DEF c, m
  <2> QED
    BY <1>1, <2>1
<1>8. name \in DOMAIN a /\ a[name] = AccountOf(l[p])
  BY <1>1, <1>6
<1>9. v[p] = Edited(l[p], pass) /\ \A i \in 1..m : i # p => v[i] = l[i]
  BY <1>1
<1>10. AccountOf(v[p]) = [AccountOf(l[p]) EXCEPT !.pass = pass]
  <2>1. Edited(l[p], pass).admin = l[p].admin /\ Edited(l[p], pass).pass = pass
    BY <1>1, <1>2, EditedIs
  <2> QED
    BY <1>9, <2>1 DEF AccountOf
<1> HIDE DEF a, c, m
<1>11. b = [n \in DOMAIN a |-> IF n = name THEN [a[n] EXCEPT !.pass = pass] ELSE a[n]]
  BY <1>6, <1>8
<1> HIDE DEF b
<1>12. /\ b = [n \in DOMAIN b |-> b[n]] /\ DOMAIN b = DOMAIN a
       /\ \A n \in DOMAIN a : b[n] = IF n = name THEN [a[n] EXCEPT !.pass = pass] ELSE a[n]
  BY <1>11
<1>13. \A n : n \in DOMAIN c <=> n \in DOMAIN b
  <2>1. ASSUME NEW n, \E i \in 1..m : v[i].name = n
        PROVE  \E i \in 1..m : l[i].name = n
    BY <1>3, <2>1
  <2>2. ASSUME NEW n, \E i \in 1..m : l[i].name = n
        PROVE  \E i \in 1..m : v[i].name = n
    BY <1>3, <2>2
  <2> QED
    BY <1>6, <1>7, <1>12, <2>1, <2>2
<1>14. ASSUME NEW n \in DOMAIN c
       PROVE  c[n] = b[n]
  <2>1. PICK i \in 1..m : v[i].name = n
    BY <1>7
  <2>2. c[n] = AccountOf(v[i]) /\ l[i].name = n /\ a[n] = AccountOf(l[i]) /\ n \in DOMAIN a
    BY <1>3, <1>6, <1>7, <2>1
  <2>3. CASE i = p
    BY <1>10, <1>12, <2>2, <2>3
  <2>4. CASE i # p
    <3>1. n # name /\ v[i] = l[i]
      BY <1>1, <1>4, <1>9, <2>2, <2>4
    <3> QED
      BY <1>12, <2>2, <3>1
  <2> QED
    BY <2>3, <2>4
<1>15. c = b
  BY <1>7, <1>12, <1>13, <1>14, SameAccounts
<1> QED
  BY <1>5, <1>8, <1>15 DEF a, b, c

\* A command that changes the list leaves what one of its handlers returned.
LEMMA ProcessLeavesOutcome ==
  ASSUME NEW m, NEW rec, cmd_process(m, rec), users' # users
  PROVE  \E o \in Outcomes(rec.parser) : users' = o.users
<1>1. ~get_process(m, rec)
  BY DEF get_process, Answer, Return, Die
<1>2. ASSUME users_process(m, rec)
      PROVE  \E o \in Outcomes(rec.parser) : users' = o.users
  BY <1>2 DEF users_process, Outcomes, Answer, Return, Die
<1> QED
  BY <1>1, <1>2 DEF cmd_process, Answer, Return

\* While all names are terminated, a change of the list is one of the registry.
LEMMA StepImplementsRegistry ==
  ASSUME Inv, Inv', NEW q \in Manager, cmd_read(q), users' # users, Terminated
  PROVE  Registry!Next /\ users'.size = Cardinality(DOMAIN Accounts')
<1>1. PICK m \in Open : /\ mgr[m].st = "CMD_READ"
                        /\ \E n \in Received(m) : cmd_process(m, Parsed(m, n))
  BY ChangeIsCommand
<1>2. PICK n \in Received(m) : cmd_process(m, Parsed(m, n))
  BY <1>1
<1>3. PICK p : p = Parsed(m, n).parser
  OBVIOUS
<1>4. p \in Parser
  <2>1. Proper(mgr[m]) /\ Reading(mgr[m].st, "type")
    BY <1>1 DEF Inv, Open, Reading
  <2>2. Parsed(m, n) \in Session
    BY <2>1, ParsedIs
  <2> QED
    BY <1>3, <2>2 DEF Session
<1>5. PICK o \in Outcomes(p) : users' = o.users
  BY <1>2, <1>3, ProcessLeavesOutcome
<1>6. p.uname \in Word /\ p.passwd \in Word
  BY <1>4 DEF Parser
<1>7. Listed(users) /\ Listed(users')
  BY DEF Inv
<1>8. PICK l \in Seq(User), v \in Seq(User) :
        l = users.list /\ v = users'.list
  BY <1>7, ListedIs
<1>9. /\ \A i \in 1..Len(l) : l[i] \in User /\ l[i].unul
      /\ \A i, j \in 1..Len(l) : i # j => l[i].name # l[j].name
  <2>1. \A i \in 1..Len(l) : l[i] \in User
    BY <1>7, <1>8, ListedIs
  <2>2. \A i \in 1..Len(l) : l[i].unul
    BY <1>7, <1>8, ListedIs DEF Terminated
  <2>3. \A i, j \in 1..Len(l) : l[i].unul /\ l[j].unul /\ i # j => l[i].name # l[j].name
    BY <1>7, <1>8 DEF Listed
  <2> QED
    BY <2>1, <2>2, <2>3
<1>10. Distinct(l)
  BY <1>9 DEF Distinct
<1>11. Accounts = AccountsOf(l) /\ Accounts' = AccountsOf(v)
  BY <1>8 DEF Accounts, AccountsOf
<1>12. users'.size = Len(v)
  BY <1>7, <1>8 DEF Listed
<1>13. ASSUME NEW name \in Word, NEW a \in [pass : Word, admin : BOOLEAN],
              name \notin DOMAIN AccountsOf(l),
              AccountsOf(v) = [k \in DOMAIN AccountsOf(l) \cup {name} |->
                                 IF k = name THEN a ELSE AccountsOf(l)[k]]
       PROVE  Registry!Next
  <2>1. Registry!Create(name, a)
    BY <1>11, <1>13 DEF Registry!Create
  <2>2. name \in Field \cup {""} /\ a \in Registry!Account
    BY DEF Word, Registry!Account
  <2> QED
    BY <2>1, <2>2 DEF Registry!Next
<1>14. ASSUME NEW name \in Word, name \in DOMAIN AccountsOf(l),
              AccountsOf(v) = [k \in DOMAIN AccountsOf(l) \ {name} |-> AccountsOf(l)[k]]
       PROVE  Registry!Next
  <2>1. Registry!Delete(name)
    BY <1>11, <1>14 DEF Registry!Delete
  <2> QED
    BY <2>1 DEF Registry!Next, Word
<1>15. ASSUME NEW name \in Word, NEW pass \in Word, name \in DOMAIN AccountsOf(l),
              AccountsOf(v) = [AccountsOf(l) EXCEPT ![name].pass = pass]
       PROVE  Registry!Next
  <2>1. Registry!Edit(name, pass)
    BY <1>11, <1>15 DEF Registry!Edit
  <2> QED
    BY <2>1 DEF Registry!Next, Word
<1>16. Registry!Next /\ Distinct(v)
  <2>1. CASE p.cmd = "X00"
    <3>1. o \in create_user(p)
      BY <2>1 DEF Outcomes
    <3>2. PICK user \in User : users' = add_user(users, user)
      BY <1>4, <1>5, <3>1, CreateIs
    <3>3. users' = add_user(users, user) /\ user.name \in Word
      BY <3>2 DEF User, Word
    <3>4. Position(users, user.name) = 0
      BY <3>3 DEF add_user
    <3>5. v = Append(l, user)
      BY <1>8, <3>3, <3>4 DEF add_user
    <3>6. \A i \in 1..Len(l) : l[i].name # user.name
      BY <1>7, <1>8, <1>9, <3>4, PositionIs DEF SameName
    <3>7. /\ Distinct(v) /\ user.name \notin DOMAIN AccountsOf(l)
          /\ AccountsOf(v) =
               [k \in DOMAIN AccountsOf(l) \cup {user.name} |->
                  IF k = user.name THEN AccountOf(user) ELSE AccountsOf(l)[k]]
      BY <1>10, <3>5, <3>6, AddCreates
    <3>8. AccountOf(user) \in [pass : Word, admin : BOOLEAN]
      BY DEF AccountOf, User, Word
    <3> QED
      BY <1>13, <3>3, <3>7, <3>8
  <2>2. CASE p.cmd = "X01"
    <3>1. users' = delete_user(users, p.uname)
      BY <1>5, <2>2 DEF Outcomes, del_user
    <3>2. Position(users, p.uname) # 0
      BY <3>1 DEF delete_user
    <3>3. PICK i \in 1..Len(l) : i = Position(users, p.uname) /\ l[i].name = p.uname
      <4>1. Position(users, p.uname) \in 1..Len(l)
        BY <1>7, <1>8, <3>2, PositionIs, ListedIs
      <4>2. SameName(users.list[Position(users, p.uname)], p.uname)
        BY <1>7, <3>2, PositionIs
      <4> QED
        BY <1>8, <4>1, <4>2 DEF SameName
    <3>4. /\ Len(v) = Len(l) - 1
          /\ \A k \in 1..(Len(l) - 1) : v[k] = l[IF k < i THEN k ELSE k + 1]
      BY <1>7, <1>8, <3>1, <3>2, <3>3, DeleteIs
    <3>5. /\ Distinct(v) /\ l[i].name \in DOMAIN AccountsOf(l)
          /\ AccountsOf(v) = [k \in DOMAIN AccountsOf(l) \ {l[i].name} |-> AccountsOf(l)[k]]
      BY <1>10, <3>4, DeleteRemoves
    <3> QED
      BY <1>6, <1>14, <3>3, <3>5
  <2>3. CASE p.cmd \notin {"X00", "X01"}
    <3>1. users' = edit_user(users, p.uname, p.passwd)
      BY <1>5, <2>3 DEF Outcomes, modify_user
    <3>2. Position(users, p.uname) # 0
      BY <3>1 DEF edit_user
    <3>3. PICK i \in 1..Len(l) : i = Position(users, p.uname) /\ l[i].name = p.uname
      <4>1. Position(users, p.uname) \in 1..Len(l)
        BY <1>7, <1>8, <3>2, PositionIs, ListedIs
      <4>2. SameName(users.list[Position(users, p.uname)], p.uname)
        BY <1>7, <3>2, PositionIs
      <4> QED
        BY <1>8, <4>1, <4>2 DEF SameName
    <3>4. /\ Len(v) = Len(l)
          /\ \A k \in 1..Len(l) : v[k] = IF k = i THEN Edited(l[k], p.passwd) ELSE l[k]
      BY <1>6, <1>7, <1>8, <3>1, <3>2, <3>3, EditIs
    <3>5. /\ Distinct(v) /\ l[i].name \in DOMAIN AccountsOf(l)
          /\ AccountsOf(v) = [AccountsOf(l) EXCEPT ![l[i].name].pass = p.passwd]
      BY <1>6, <1>10, <3>4, EditSetsPassword
    <3> QED
      BY <1>6, <1>15, <3>3, <3>5
  <2> QED
    BY <2>1, <2>2, <2>3
<1>17. Cardinality(DOMAIN AccountsOf(v)) = Len(v)
  BY <1>16, AccountsAre
<1> QED
  BY <1>11, <1>12, <1>16, <1>17

\* user_utils.c: add_user, delete_user and edit_user, called by sessions that
\* interleave, keep the registry of UserRegistry.tla, and list->size its length.
THEOREM ListImplementsRegistry == Spec => ListIsRegistry
<1>1. Inv /\ [Next]_vars =>
        [/\ users'.size = Len(users'.list)
         /\ Terminated => /\ Registry!Next
                          /\ users'.size = Cardinality(DOMAIN Accounts')]_users
  <2> SUFFICES ASSUME Inv, Next, users' # users
               PROVE  /\ users'.size = Len(users'.list)
                      /\ Terminated => /\ Registry!Next
                                       /\ users'.size = Cardinality(DOMAIN Accounts')
    BY DEF vars
  <2>1. Inv'
    BY NextInv
  <2>2. users'.size = Len(users'.list)
    BY <2>1 DEF Inv, Listed
  <2>3. PICK m \in Manager : cmd_read(m)
    BY ChangeIsRead
  <2> QED
    BY <2>1, <2>2, <2>3, StepImplementsRegistry
<1> QED
  BY <1>1, InvHolds, PTL DEF Spec, ListIsRegistry
=============================================================================
