---------------------------- MODULE BufferProofs ----------------------------
(***************************************************************************)
(* For every capacity and every set of bytes: the pointers of buffer.c     *)
(* stay ordered and inside the storage, and the buffer implements the      *)
(* FIFO queue of ByteQueue.tla.                                            *)
(***************************************************************************)
EXTENDS Buffer, SequenceTheorems, TLAPS

Inv == TypeOK /\ PointersOrdered /\ DrainedIsRewound

\* A function on 1..n is a sequence of length n.
LEMMA FunctionIsSeq ==
  ASSUME NEW S, NEW n \in Nat, NEW f \in [1..n -> S]
  PROVE  f \in Seq(S) /\ Len(f) = n
  BY SeqDef

\* The unread bytes are a sequence of bytes of the length that
\* buffer_read_ptr reports.
LEMMA UnreadIsSequence ==
  ASSUME TypeOK, PointersOrdered
  PROVE  /\ Unread \in Seq(Byte)
         /\ Len(Unread) = ptr.write - ptr.read
         /\ \A i \in 1..(ptr.write - ptr.read) : Unread[i] = data[ptr.read + i - 1]
<1> DEFINE n == ptr.write - ptr.read
<1> USE BufferAssumption DEF TypeOK, PointersOrdered, Cell
<1>1. n \in Nat
  OBVIOUS
<1>2. \A i \in 1..n : ptr.read + i - 1 \in Cell
  OBVIOUS
<1>3. Unread = [i \in 1..n |-> data[ptr.read + i - 1]]
  BY DEF Unread, buffer_read_avail
<1>4. Unread \in [1..n -> Byte]
  BY <1>2, <1>3
<1>5. Unread \in Seq(Byte) /\ Len(Unread) = n
  BY <1>1, <1>4, FunctionIsSeq
<1> QED
  BY <1>3, <1>5

\* buffer_init establishes the invariant.
LEMMA InitInv == Init => Inv
  BY BufferAssumption DEF Init, Inv, TypeOK, PointersOrdered, DrainedIsRewound

Pointers == [read : Nat, write : Nat]

\* What buffer_write_adv does to the two pointers.
LEMMA WriteAdvPointers ==
  ASSUME NEW p \in Pointers, NEW n \in Nat
  PROVE  /\ buffer_write_adv(p, n) \in Pointers
         /\ buffer_write_adv(p, n).read = p.read
         /\ buffer_write_adv(p, n).write = p.write + n
  BY DEF Pointers, buffer_write_adv

\* What buffer_reset does to the two pointers.
LEMMA ResetPointers ==
  ASSUME NEW p \in Pointers
  PROVE  /\ buffer_reset(p) \in Pointers
         /\ buffer_reset(p).read = 0
         /\ buffer_reset(p).write = 0
  BY DEF Pointers, buffer_reset

\* What buffer_read_adv does to the two pointers: the unread bytes left are
\* the same number as without the rewind.
LEMMA ReadAdvPointers ==
  ASSUME NEW p \in Pointers, NEW n \in Nat
  PROVE  /\ buffer_read_adv(p, n) \in Pointers
         /\ p.read + n = p.write => /\ buffer_read_adv(p, n).read = 0
                                   /\ buffer_read_adv(p, n).write = 0
         /\ p.read + n # p.write => /\ buffer_read_adv(p, n).read = p.read + n
                                   /\ buffer_read_adv(p, n).write = p.write
<1> DEFINE moved == [p EXCEPT !.read = @ + n]
<1>1. moved \in Pointers /\ moved.read = p.read + n /\ moved.write = p.write
  BY DEF Pointers
<1>2. buffer_read_adv(p, n) = IF moved.read = moved.write
                              THEN buffer_reset(moved) ELSE moved
  BY DEF buffer_read_adv
<1> QED
  BY <1>1, <1>2, ResetPointers

\* What buffer_compact does to the two pointers.
LEMMA CompactPointers ==
  ASSUME NEW p \in Pointers, p.read <= p.write
  PROVE  /\ buffer_compact(p) \in Pointers
         /\ buffer_compact(p).read = 0
         /\ buffer_compact(p).write = p.write - p.read
<1>1. CASE p.read = 0
  BY <1>1 DEF Pointers, buffer_compact
<1>2. CASE p.read # 0
  <2> DEFINE r == [p EXCEPT !.read = 0, !.write = @ - p.read]
  <2>1. p.read \in Nat /\ p.write \in Nat /\ p.write - p.read \in Nat
    BY DEF Pointers
  <2>2. r \in Pointers /\ r.read = 0 /\ r.write = p.write - p.read
    BY <2>1 DEF Pointers
  <2>3. buffer_compact(p) = r
    BY <1>2 DEF buffer_compact
  <2> QED
    BY <2>2, <2>3
<1> QED
  BY <1>1, <1>2

\* Every operation of buffer.c preserves the pointer order, keeps a drained
\* buffer rewound and stores only bytes.
LEMMA NextInv == Inv /\ [Next]_vars => Inv'
<1> SUFFICES ASSUME Inv, [Next]_vars PROVE Inv'
  OBVIOUS
<1> USE BufferAssumption
        DEF Inv, TypeOK, PointersOrdered, DrainedIsRewound, Cell, Pointers,
            buffer_read_avail, buffer_write_room, buffer_can_read,
            buffer_can_write
<1>1. CASE Fill
  <2>1. PICK n \in 0..(Limit - ptr.write) :
          /\ \E received \in [0..(n - 1) -> Byte] :
               data' = [i \in Cell |-> IF i \in ptr.write..(ptr.write + n - 1)
                                       THEN received[i - ptr.write] ELSE data[i]]
          /\ ptr' = buffer_write_adv(ptr, n)
          /\ out' = out
    BY <1>1 DEF Fill
  <2>2. PICK received \in [0..(n - 1) -> Byte] :
          data' = [i \in Cell |-> IF i \in ptr.write..(ptr.write + n - 1)
                                  THEN received[i - ptr.write] ELSE data[i]]
    BY <2>1
  <2>3. \A i \in Cell : i \in ptr.write..(ptr.write + n - 1)
                          => i - ptr.write \in 0..(n - 1)
    OBVIOUS
  <2>4. data' \in [Cell -> Byte]
    BY <2>2, <2>3
  <2>5. ptr' \in Pointers /\ ptr'.read = ptr.read /\ ptr'.write = ptr.write + n
    BY <2>1, WriteAdvPointers
  <2> QED
    BY <2>1, <2>4, <2>5
<1>2. CASE buffer_write
  <2>1. data' \in [Cell -> Byte] /\ out' = out
    BY <1>2 DEF buffer_write
  <2>2. \/ ptr.write < Limit /\ ptr' = buffer_write_adv(ptr, 1)
        \/ ptr' = ptr
    BY <1>2 DEF buffer_write
  <2>3. \/ /\ ptr.write < Limit
           /\ ptr' \in Pointers
           /\ ptr'.read = ptr.read
           /\ ptr'.write = ptr.write + 1
        \/ ptr' = ptr
    BY <2>2, WriteAdvPointers
  <2> QED
    BY <2>1, <2>3
<1>3. CASE Drain
  <2>1. PICK n \in 0..(ptr.write - ptr.read) :
          /\ out' = [i \in 1..n |-> data[ptr.read + i - 1]]
          /\ ptr' = buffer_read_adv(ptr, n)
          /\ data' = data
    BY <1>3 DEF Drain
  <2>2. \A i \in 1..n : ptr.read + i - 1 \in Cell
    OBVIOUS
  <2>3. out' \in [1..n -> Byte]
    BY <2>1, <2>2
  <2>4. out' \in Seq(Byte)
    BY <2>3, FunctionIsSeq
  <2>5. /\ ptr' \in Pointers
        /\ ptr.read + n = ptr.write => ptr'.read = 0 /\ ptr'.write = 0
        /\ ptr.read + n # ptr.write => /\ ptr'.read = ptr.read + n
                                      /\ ptr'.write = ptr.write
    <3>1. n \in Nat /\ ptr \in Pointers
      OBVIOUS
    <3> QED
      BY <2>1, <3>1, ReadAdvPointers
  <2> QED
    BY <2>1, <2>4, <2>5
<1>4. CASE buffer_read
  <2>1. CASE ptr.write - ptr.read > 0
    <3>1. /\ out' = <<data[ptr.read]>>
          /\ ptr' = buffer_read_adv(ptr, 1)
          /\ data' = data
      BY <1>4, <2>1 DEF buffer_read
    <3>2. data[ptr.read] \in Byte
      BY <2>1
    <3>3. out' \in Seq(Byte)
      BY <3>1, <3>2
    <3>4. /\ ptr' \in Pointers
          /\ ptr.read + 1 = ptr.write => ptr'.read = 0 /\ ptr'.write = 0
          /\ ptr.read + 1 # ptr.write => /\ ptr'.read = ptr.read + 1
                                        /\ ptr'.write = ptr.write
      BY <3>1, ReadAdvPointers
    <3> QED
      BY <2>1, <3>1, <3>3, <3>4
  <2>2. CASE ~(ptr.write - ptr.read > 0)
    <3>1. out' = <<Zero>> /\ ptr' = ptr /\ data' = data
      BY <1>4, <2>2 DEF buffer_read
    <3>2. out' \in Seq(Byte)
      BY <3>1
    <3> QED
      BY <3>1, <3>2
  <2> QED
    BY <2>1, <2>2
<1>5. CASE Compact
  <2>1. data' \in [Cell -> Byte]
    BY <1>5 DEF Compact, Moved
  <2> QED
    BY <1>5, <2>1, CompactPointers DEF Compact
<1>6. CASE Reset
  BY <1>6, ResetPointers DEF Reset
<1>7. CASE UNCHANGED vars
  BY <1>7 DEF vars
<1> QED
  BY <1>1, <1>2, <1>3, <1>4, <1>5, <1>6, <1>7 DEF Next

\* The type invariant of buffer.c, for every capacity and set of bytes.
THEOREM TypeCorrect == Spec => []TypeOK
<1>1. Inv => TypeOK
  BY DEF Inv
<1> QED
  BY <1>1, InitInv, NextInv, PTL DEF Spec

\* buffer.h:26, "R <= W <= limit": no assert of buffer.c can fail as long as
\* its users stay within the sizes it reports.
THEOREM PointersStayOrdered == Spec => []PointersOrdered
<1>1. Inv => PointersOrdered
  BY DEF Inv
<1> QED
  BY <1>1, InitInv, NextInv, PTL DEF Spec

\* A buffer that has nothing to read is rewound, so that the whole of it can
\* be filled again (buffer_read_adv, buffer.c:63).
THEOREM DrainedStaysRewound == Spec => []DrainedIsRewound
<1>1. Inv => DrainedIsRewound
  BY DEF Inv
<1> QED
  BY <1>1, InitInv, NextInv, PTL DEF Spec

\* The two parts into which a send divides a sequence.
LEMMA SplitSeq ==
  ASSUME NEW S, NEW s \in Seq(S), NEW n \in Nat, n <= Len(s)
  PROVE  /\ SubSeq(s, 1, n) \in Seq(S)
         /\ Len(SubSeq(s, 1, n)) = n
         /\ \A i \in 1..n : SubSeq(s, 1, n)[i] = s[i]
         /\ SubSeq(s, n + 1, Len(s)) \in Seq(S)
         /\ Len(SubSeq(s, n + 1, Len(s))) = Len(s) - n
         /\ \A i \in 1..(Len(s) - n) : SubSeq(s, n + 1, Len(s))[i] = s[n + i]
<1>1. Len(s) \in Nat /\ \A i \in 1..Len(s) : s[i] \in S
  BY LenProperties, ElementOfSeq
<1> DEFINE m == Len(s)
           k == n + 1
<1>2. k \in Int /\ m \in Int /\ n \in Int
  BY <1>1
<1>3. (\A i \in 1..n : s[i] \in S) /\ (\A i \in k..m : s[i] \in S)
  BY <1>1
<1> HIDE DEF m, k
<1>4. /\ SubSeq(s, 1, n) \in Seq(S)
      /\ Len(SubSeq(s, 1, n)) = IF 1 <= n THEN n - 1 + 1 ELSE 0
      /\ \A i \in 1..(n - 1 + 1) : SubSeq(s, 1, n)[i] = s[1 + i - 1]
  BY <1>2, <1>3, SubSeqProperties
<1>5. /\ SubSeq(s, k, m) \in Seq(S)
      /\ Len(SubSeq(s, k, m)) = IF k <= m THEN m - k + 1 ELSE 0
      /\ \A i \in 1..(m - k + 1) : SubSeq(s, k, m)[i] = s[k + i - 1]
  BY <1>2, <1>3, SubSeqProperties
<1>6. m - k + 1 = m - n /\ (\A i \in Int : k + i - 1 = n + i)
  BY <1>2 DEF k
<1>7. /\ SubSeq(s, k, m) \in Seq(S)
      /\ Len(SubSeq(s, k, m)) = m - n
      /\ \A i \in 1..(m - n) : SubSeq(s, k, m)[i] = s[n + i]
  <2>1. Len(SubSeq(s, k, m)) = m - n
    BY <1>1, <1>2, <1>5 DEF k, m
  <2>2. ASSUME NEW i \in 1..(m - n)
        PROVE  SubSeq(s, k, m)[i] = s[n + i]
    <3>1. i \in 1..(m - k + 1) /\ k + i - 1 = n + i
      BY <1>6
    <3>2. SubSeq(s, k, m)[i] = s[k + i - 1]
      BY <1>5, <3>1
    <3> QED
      BY <3>1, <3>2, Zenon
  <2> QED
    BY <1>5, <2>1, <2>2
<1> QED
  BY <1>4, <1>7 DEF k, m

\* The same after a step: the unread bytes stay a sequence of bytes.
LEMMA UnreadPrimed ==
  ASSUME TypeOK', PointersOrdered'
  PROVE  /\ Unread' \in Seq(Byte)
         /\ Len(Unread') = ptr'.write - ptr'.read
         /\ \A i \in 1..(ptr'.write - ptr'.read) :
              Unread'[i] = data'[ptr'.read + i - 1]
<1> DEFINE n == ptr'.write - ptr'.read
<1> USE BufferAssumption DEF TypeOK, PointersOrdered, Cell
<1>1. n \in Nat
  OBVIOUS
<1>2. \A i \in 1..n : ptr'.read + i - 1 \in Cell
  OBVIOUS
<1>3. Unread' = [i \in 1..n |-> data'[ptr'.read + i - 1]]
  BY DEF Unread, buffer_read_avail
<1>4. Unread' \in [1..n -> Byte]
  BY <1>2, <1>3
<1>5. Unread' \in Seq(Byte) /\ Len(Unread') = n
  BY <1>1, <1>4, FunctionIsSeq
<1> QED
  BY <1>3, <1>5

\* An operation that appends to the unread bytes is a Put of the queue.
LEMMA AppendIsPut ==
  ASSUME Inv, Inv', out' = out,
         ptr'.write - ptr'.read >= ptr.write - ptr.read,
         \A i \in 1..(ptr.write - ptr.read) :
           data'[ptr'.read + i - 1] = data[ptr.read + i - 1]
  PROVE  Queue!Put
<1> USE BufferAssumption DEF Inv, TypeOK, PointersOrdered
<1>1. /\ Unread \in Seq(Byte)
      /\ Len(Unread) = ptr.write - ptr.read
      /\ \A i \in 1..(ptr.write - ptr.read) : Unread[i] = data[ptr.read + i - 1]
  BY UnreadIsSequence
<1>2. /\ Unread' \in Seq(Byte)
      /\ Len(Unread') = ptr'.write - ptr'.read
      /\ \A i \in 1..(ptr'.write - ptr'.read) :
           Unread'[i] = data'[ptr'.read + i - 1]
  BY UnreadPrimed
<1>3. Len(Unread') \in Len(Unread)..Limit
  BY <1>1, <1>2
<1>4. \A i \in 1..Len(Unread) : Unread'[i] = Unread[i]
  <2> SUFFICES ASSUME NEW i \in 1..(ptr.write - ptr.read)
               PROVE  Unread'[i] = Unread[i]
    BY <1>1
  <2>1. i \in 1..(ptr'.write - ptr'.read)
    OBVIOUS
  <2> QED
    BY <1>1, <1>2, <2>1
<1> QED
  BY <1>2, <1>3, <1>4 DEF Queue!Put

\* SplitSeq for the unread bytes.
LEMMA SplitUnread ==
  ASSUME Unread \in Seq(Byte), NEW n \in Nat, n <= Len(Unread)
  PROVE  /\ SubSeq(Unread, 1, n) \in Seq(Byte)
         /\ Len(SubSeq(Unread, 1, n)) = n
         /\ \A i \in 1..n : SubSeq(Unread, 1, n)[i] = Unread[i]
         /\ SubSeq(Unread, n + 1, Len(Unread)) \in Seq(Byte)
         /\ Len(SubSeq(Unread, n + 1, Len(Unread))) = Len(Unread) - n
         /\ \A i \in 1..(Len(Unread) - n) :
              SubSeq(Unread, n + 1, Len(Unread))[i] = Unread[n + i]
<1> DEFINE u == Unread
<1> HIDE DEF u
<1>1. u \in Seq(Byte) /\ n <= Len(u)
  BY DEF u
<1>2. /\ SubSeq(u, 1, n) \in Seq(Byte)
      /\ Len(SubSeq(u, 1, n)) = n
      /\ \A i \in 1..n : SubSeq(u, 1, n)[i] = u[i]
      /\ SubSeq(u, n + 1, Len(u)) \in Seq(Byte)
      /\ Len(SubSeq(u, n + 1, Len(u))) = Len(u) - n
      /\ \A i \in 1..(Len(u) - n) : SubSeq(u, n + 1, Len(u))[i] = u[n + i]
  BY <1>1, SplitSeq
<1> QED
  BY <1>2 DEF u

\* An operation that hands out the n oldest unread bytes is a Take.
LEMMA AdvanceIsTake ==
  ASSUME Inv, Inv', NEW n \in 0..(ptr.write - ptr.read),
         out' = [i \in 1..n |-> data[ptr.read + i - 1]],
         ptr'.write - ptr'.read = ptr.write - ptr.read - n,
         \A i \in 1..(ptr.write - ptr.read - n) :
           data'[ptr'.read + i - 1] = data[ptr.read + n + i - 1]
  PROVE  Queue!Take
<1> USE BufferAssumption DEF Inv, TypeOK, PointersOrdered
<1> DEFINE m == ptr.write - ptr.read
<1>0. m \in Nat /\ n \in Nat /\ n <= m
  OBVIOUS
<1>1. /\ Unread \in Seq(Byte)
      /\ Len(Unread) = m
      /\ \A i \in 1..m : Unread[i] = data[ptr.read + i - 1]
  BY UnreadIsSequence
<1>2. /\ Unread' \in Seq(Byte)
      /\ Len(Unread') = m - n
      /\ \A i \in 1..(m - n) : Unread'[i] = data'[ptr'.read + i - 1]
  BY UnreadPrimed
<1>3. \A i \in 1..m : Unread[i] \in Byte
  BY <1>1, ElementOfSeq
<1>a. n <= Len(Unread)
  BY <1>0, <1>1
<1> DEFINE first == SubSeq(Unread, 1, n)
           rest  == SubSeq(Unread, n + 1, Len(Unread))
<1>4. /\ first \in Seq(Byte)
      /\ Len(first) = n
      /\ \A i \in 1..n : first[i] = Unread[i]
  BY <1>0, <1>1, <1>a, SplitUnread
<1>b. /\ rest \in Seq(Byte)
      /\ Len(rest) = Len(Unread) - n
      /\ \A i \in 1..(Len(Unread) - n) : rest[i] = Unread[n + i]
  BY <1>0, <1>1, <1>a, SplitUnread
<1>5. /\ rest \in Seq(Byte)
      /\ Len(rest) = m - n
      /\ \A i \in 1..(m - n) : rest[i] = Unread[n + i]
  BY <1>1, <1>b, Zenon
<1> HIDE DEF first, rest
<1>6. out' = first
  <2>1. \A i \in 1..n : data[ptr.read + i - 1] = first[i] /\ first[i] \in Byte
    BY <1>0, <1>1, <1>3, <1>4
  <2>2. out' \in [1..n -> Byte] /\ \A i \in 1..n : out'[i] = first[i]
    BY <2>1
  <2>3. out' \in Seq(Byte) /\ Len(out') = n
    BY <1>0, <2>2, FunctionIsSeq
  <2> QED
    BY <1>4, <2>2, <2>3, SeqEqual
<1>7. Unread' = rest
  <2>1. \A i \in 1..(m - n) : Unread'[i] = rest[i]
    <3> SUFFICES ASSUME NEW i \in 1..(m - n) PROVE Unread'[i] = rest[i]
      OBVIOUS
    <3>1. n + i \in 1..m
      BY <1>0
    <3>2. Unread[n + i] = data[ptr.read + (n + i) - 1]
      BY <1>1, <3>1
    <3>3. ptr.read + (n + i) - 1 = ptr.read + n + i - 1
      BY <1>0
    <3> QED
      BY <1>2, <1>5, <3>2, <3>3
  <2> QED
    BY <1>2, <1>5, <2>1, SeqEqual
<1>8. n \in 0..Len(Unread)
  BY <1>0, <1>1
<1> QED
  BY <1>6, <1>7, <1>8, Zenon DEF Queue!Take, first, rest

\* Init maps to the empty queue.
LEMMA InitImplements == Init => Queue!Init
<1> SUFFICES ASSUME Init PROVE Unread = <<>> /\ out = <<>>
  BY DEF Queue!Init
<1>1. TypeOK /\ PointersOrdered
  BY InitInv DEF Inv
<1>2. Unread \in Seq(Byte) /\ Len(Unread) = 0
  BY <1>1, UnreadIsSequence DEF Init
<1> QED
  BY <1>2, EmptySeq DEF Init

\* Every operation of buffer.c is an operation of the queue or leaves the
\* queue alone.
LEMMA StepImplements == Inv /\ Inv' /\ [Next]_vars => [Queue!Next]_(Queue!vars)
<1> SUFFICES ASSUME Inv, Inv', [Next]_vars PROVE [Queue!Next]_(Queue!vars)
  OBVIOUS
<1> USE BufferAssumption
        DEF Inv, TypeOK, PointersOrdered, Cell, Pointers,
            buffer_read_avail, buffer_write_room, buffer_can_read,
            buffer_can_write
<1>1. CASE Fill
  <2>1. PICK n \in 0..(Limit - ptr.write) :
          /\ \E received \in [0..(n - 1) -> Byte] :
               data' = [i \in Cell |-> IF i \in ptr.write..(ptr.write + n - 1)
                                       THEN received[i - ptr.write] ELSE data[i]]
          /\ ptr' = buffer_write_adv(ptr, n)
          /\ out' = out
    BY <1>1 DEF Fill
  <2>2. n \in Nat /\ ptr'.read = ptr.read /\ ptr'.write = ptr.write + n
    <3>1. n \in Nat
      OBVIOUS
    <3> QED
      BY <2>1, <3>1, WriteAdvPointers
  <2>3. \A i \in 0..(ptr.write - 1) : data'[i] = data[i]
    BY <2>1
  <2>4. \A i \in 1..(ptr.write - ptr.read) :
          data'[ptr'.read + i - 1] = data[ptr.read + i - 1]
    BY <2>2, <2>3
  <2>5. Queue!Put
    BY <2>1, <2>2, <2>4, AppendIsPut
  <2> QED
    BY <2>5 DEF Queue!Next
<1>2. CASE buffer_write
  <2>1. CASE ptr.write < Limit
    <3>1. PICK c \in Byte : data' = [data EXCEPT ![ptr.write] = c]
      BY <1>2, <2>1 DEF buffer_write
    <3>2. ptr' = buffer_write_adv(ptr, 1) /\ out' = out
      BY <1>2, <2>1 DEF buffer_write
    <3>3. ptr'.read = ptr.read /\ ptr'.write = ptr.write + 1
      BY <3>2, WriteAdvPointers
    <3>4. \A i \in 1..(ptr.write - ptr.read) :
            data'[ptr'.read + i - 1] = data[ptr.read + i - 1]
      BY <3>1, <3>3
    <3>5. Queue!Put
      BY <3>2, <3>3, <3>4, AppendIsPut
    <3> QED
      BY <3>5 DEF Queue!Next
  <2>2. CASE ~(ptr.write < Limit)
    <3>1. UNCHANGED <<data, ptr, out>>
      BY <1>2, <2>2 DEF buffer_write
    <3> QED
      BY <3>1 DEF Queue!vars, Unread
  <2> QED
    BY <2>1, <2>2
<1>3. CASE Drain
  <2>1. PICK n \in 0..(ptr.write - ptr.read) :
          /\ out' = [i \in 1..n |-> data[ptr.read + i - 1]]
          /\ ptr' = buffer_read_adv(ptr, n)
          /\ data' = data
    BY <1>3 DEF Drain
  <2>2. /\ n \in Nat
        /\ ptr.read + n = ptr.write => ptr'.read = 0 /\ ptr'.write = 0
        /\ ptr.read + n # ptr.write => /\ ptr'.read = ptr.read + n
                                      /\ ptr'.write = ptr.write
    <3>1. n \in Nat /\ ptr \in Pointers
      OBVIOUS
    <3> QED
      BY <2>1, <3>1, ReadAdvPointers
  <2>3. /\ ptr'.write - ptr'.read = ptr.write - ptr.read - n
        /\ \A i \in 1..(ptr.write - ptr.read - n) :
             data'[ptr'.read + i - 1] = data[ptr.read + n + i - 1]
    BY <2>1, <2>2
  <2>4. Queue!Take
    BY <2>1, <2>3, AdvanceIsTake
  <2> QED
    BY <2>4 DEF Queue!Next
<1>4. CASE buffer_read
  <2>1. CASE ptr.write - ptr.read > 0
    <3>1. /\ out' = <<data[ptr.read]>>
          /\ ptr' = buffer_read_adv(ptr, 1)
          /\ data' = data
      BY <1>4, <2>1 DEF buffer_read
    <3>2. /\ ptr.read + 1 = ptr.write => ptr'.read = 0 /\ ptr'.write = 0
          /\ ptr.read + 1 # ptr.write => /\ ptr'.read = ptr.read + 1
                                        /\ ptr'.write = ptr.write
      BY <3>1, ReadAdvPointers
    <3>3. /\ ptr'.write - ptr'.read = ptr.write - ptr.read - 1
          /\ \A i \in 1..(ptr.write - ptr.read - 1) :
               data'[ptr'.read + i - 1] = data[ptr.read + 1 + i - 1]
      BY <3>1, <3>2
    <3>4. out' = [i \in 1..1 |-> data[ptr.read + i - 1]]
      BY <3>1
    <3>5. 1 \in 0..(ptr.write - ptr.read)
      BY <2>1
    <3>6. Queue!Take
      BY <3>3, <3>4, <3>5, AdvanceIsTake
    <3> QED
      BY <3>6 DEF Queue!Next
  <2>2. CASE ~(ptr.write - ptr.read > 0)
    <3>1. out' = <<Zero>> /\ ptr' = ptr /\ data' = data
      BY <1>4, <2>2 DEF buffer_read
    <3>2. Unread \in Seq(Byte) /\ Len(Unread) = 0
      BY <2>2, UnreadIsSequence
    <3>3. Unread = <<>> /\ Unread' = Unread
      BY <3>1, <3>2, EmptySeq DEF Unread
    <3>4. Queue!TakeEmpty
      BY <3>1, <3>3 DEF Queue!TakeEmpty
    <3> QED
      BY <3>4 DEF Queue!Next
  <2> QED
    BY <2>1, <2>2
<1>5. CASE Compact
  <2>1. out' = out /\ ptr'.read = 0 /\ ptr'.write = ptr.write - ptr.read
    BY <1>5, CompactPointers DEF Compact
  <2>2. \A i \in 1..(ptr.write - ptr.read) :
          data'[ptr'.read + i - 1] = data[ptr.read + i - 1]
    <3>1. CASE ptr.read \in {0, ptr.write}
      BY <1>5, <2>1, <3>1 DEF Compact
    <3>2. CASE ptr.read \notin {0, ptr.write}
      BY <1>5, <2>1, <3>2 DEF Compact, Moved
    <3> QED
      BY <3>1, <3>2
  <2>3. Queue!Put
    BY <2>1, <2>2, AppendIsPut
  <2> QED
    BY <2>3 DEF Queue!Next
<1>6. CASE Reset
  <2>1. ptr'.read = 0 /\ ptr'.write = 0 /\ out' = out
    BY <1>6, ResetPointers DEF Reset
  <2>2. Unread' \in Seq(Byte) /\ Len(Unread') = 0
    BY <2>1, UnreadPrimed
  <2>3. Unread' = <<>>
    BY <2>2, EmptySeq
  <2> QED
    BY <2>1, <2>3 DEF Queue!Next, Queue!Discard
<1>7. CASE UNCHANGED vars
  BY <1>7 DEF vars, Queue!vars, Unread
<1> QED
  BY <1>1, <1>2, <1>3, <1>4, <1>5, <1>6, <1>7 DEF Next

\* buffer.c implements a FIFO queue: for every capacity and every mix of its
\* operations no byte is lost, duplicated or reordered.
THEOREM BufferImplementsQueue == Spec => ImplementsQueue
<1>1. Spec => []Inv
  BY InitInv, NextInv, PTL DEF Spec
<1> QED
  BY <1>1, InitImplements, StepImplements, PTL
     DEF Spec, ImplementsQueue, Queue!Spec
=============================================================================
