----------------------------- MODULE CopyProofs -----------------------------
(***************************************************************************)
(* What Copy.tla guarantees for every buffer size, every alphabet and      *)
(* every length of the streams.  The inductive invariant Inv joins the     *)
(* properties of Copy.tla with two facts they rest on: the pointers of a   *)
(* buffer delimit exactly the bytes it holds, and the selector is asked    *)
(* only for directions that are open.                                      *)
(***************************************************************************)
EXTENDS Copy, SequenceTheorems, TLAPS

\* The pointers delimit the bytes held (buffer.h, R <= W <= limit).
PointersDelimitHeld ==
  \A b \in BufferName :
    /\ buf[b].read <= buf[b].write
    /\ Len(held[b]) = buf[b].write - buf[b].read

\* check_interest asks for open directions only.
InterestIsOpen == \A side \in Side : interest[side] \subseteq duplex[side]

Inv ==
  /\ TypeOK
  /\ PointersDelimitHeld
  /\ InterestIsOpen
  /\ StreamsAreFaithful
  /\ DirectionsArePaired
  /\ DoneIsQuiet
  /\ BytesAreCounted

-----------------------------------------------------------------------------
\* The two ends and the two buffers (copy_arrival).
LEMMA Ends ==
  ASSUME NEW side \in Side
  PROVE  /\ other(side) \in Side
         /\ other(side) # side
         /\ other(other(side)) = side
         /\ Side = {side, other(side)}
         /\ read_buff(side) \in BufferName
         /\ write_buff(side) = read_buff(other(side))
         /\ write_buff(other(side)) = read_buff(side)
         /\ write_buff(side) \in BufferName
         /\ write_buff(side) # read_buff(side)
         /\ BufferName = {read_buff(side), write_buff(side)}
  BY DEF Side, other, read_buff, write_buff, BufferName

Pointers == [read : 0..BUFFER_SIZE, write : 0..BUFFER_SIZE]

\* buffer_write_adv with what recv put into the room it was offered.
LEMMA WriteAdv ==
  ASSUME NEW p \in Pointers, NEW n \in 1..buffer_write_room(p, BUFFER_SIZE)
  PROVE  /\ n \in Nat
         /\ buffer_write_adv(p, n) \in Pointers
         /\ buffer_write_adv(p, n).read = p.read
         /\ buffer_write_adv(p, n).write = p.write + n
  BY CopyAssumption DEF Pointers, buffer_write_room, buffer_write_adv

\* buffer_reset.
LEMMA Reset ==
  ASSUME NEW p \in Pointers
  PROVE  /\ buffer_reset(p) \in Pointers
         /\ buffer_reset(p).read = 0
         /\ buffer_reset(p).write = 0
<1>1. 0 \in 0..BUFFER_SIZE
  BY CopyAssumption
<1> DEFINE T == 0..BUFFER_SIZE
<1>2. p \in [read : T, write : T]
  BY DEF Pointers
<1> HIDE DEF T
<1>3. /\ buffer_reset(p) \in [read : T, write : T]
      /\ buffer_reset(p).read = 0
      /\ buffer_reset(p).write = 0
  <2>1. 0 \in T
    BY <1>1 DEF T
  <2> QED
    BY <1>2, <2>1 DEF buffer_reset
<1> QED
  BY <1>3 DEF Pointers, T

\* buffer_read_adv with what send took of what it was offered.
LEMMA ReadAdv ==
  ASSUME NEW p \in Pointers, NEW n \in 1..buffer_read_avail(p)
  PROVE  /\ n \in Nat
         /\ buffer_read_adv(p, n) \in Pointers
         /\ buffer_read_adv(p, n).read <= buffer_read_adv(p, n).write
         /\ buffer_read_adv(p, n).write - buffer_read_adv(p, n).read
              = p.write - p.read - n
<1> DEFINE moved == [p EXCEPT !.read = @ + n]
<1>1. n \in Nat /\ p.read + n <= p.write
  BY CopyAssumption DEF Pointers, buffer_read_avail
<1>2. moved \in Pointers /\ moved.read = p.read + n /\ moved.write = p.write
  BY <1>1, CopyAssumption DEF Pointers
<1>3. buffer_reset(moved) \in Pointers /\ buffer_reset(moved).read = 0
        /\ buffer_reset(moved).write = 0
  BY <1>2, Reset
<1>4. buffer_read_adv(p, n) = IF moved.read = moved.write THEN buffer_reset(moved)
                                                          ELSE moved
  BY DEF buffer_read_adv
<1>5. p.read \in Nat /\ p.write \in Nat
  BY DEF Pointers
<1> HIDE DEF moved
<1>6. CASE moved.read = moved.write
  BY <1>1, <1>2, <1>3, <1>4, <1>5, <1>6
<1>7. CASE moved.read # moved.write
  BY <1>1, <1>2, <1>4, <1>5, <1>7
<1> QED
  BY <1>6, <1>7

\* A block of n bytes is a sequence of bytes.
LEMMA BytesAreSeq ==
  ASSUME NEW n \in Nat, NEW d \in Bytes(n)
  PROVE  d \in Seq(Byte) /\ Len(d) = n
  BY SeqDef DEF Bytes

\* Concatenation of sequences of bytes is associative.
LEMMA AppendLast ==
  ASSUME NEW x \in Seq(Byte), NEW y \in Seq(Byte), NEW z \in Seq(Byte)
  PROVE  (x \o y) \o z = x \o (y \o z)
  BY ConcatAssociative

\* A sequence is its first n bytes followed by the rest.
LEMMA SplitHeld ==
  ASSUME NEW h \in Seq(Byte), NEW n \in 1..Len(h)
  PROVE  /\ SubSeq(h, 1, n) \in Seq(Byte)
         /\ Len(SubSeq(h, 1, n)) = n
         /\ SubSeq(h, n + 1, Len(h)) \in Seq(Byte)
         /\ Len(SubSeq(h, n + 1, Len(h))) = Len(h) - n
         /\ SubSeq(h, 1, n) \o SubSeq(h, n + 1, Len(h)) = h
<1>1. Len(h) \in Nat /\ n \in Int /\ 1 <= n /\ n <= Len(h)
  BY LenProperties
<1>2. \A i \in 1..Len(h) : h[i] \in Byte
  BY ElementOfSeq
<1>3. /\ SubSeq(h, 1, n) \in Seq(Byte)
      /\ Len(SubSeq(h, 1, n)) = n
  <2>1. \A i \in 1..n : h[i] \in Byte
    BY <1>1, <1>2
  <2> QED
    BY <1>1, <2>1, SubSeqProperties
<1>4. /\ SubSeq(h, n + 1, Len(h)) \in Seq(Byte)
      /\ Len(SubSeq(h, n + 1, Len(h))) = Len(h) - n
  <2>1. \A i \in (n + 1)..Len(h) : h[i] \in Byte
    BY <1>1, <1>2
  <2>2. Len(SubSeq(h, n + 1, Len(h))) =
          IF n + 1 <= Len(h) THEN Len(h) - (n + 1) + 1 ELSE 0
    BY <1>1, <2>1, SubSeqProperties
  <2>3. SubSeq(h, n + 1, Len(h)) \in Seq(Byte)
    BY <1>1, <2>1, SubSeqProperties
  <2> QED
    BY <1>1, <2>2, <2>3
<1>5. SubSeq(h, 1, n) \o SubSeq(h, n + 1, Len(h)) = SubSeq(h, 1, Len(h))
  <2>1. 1 \in 1..(Len(h) + 1) /\ n \in (1 - 1)..Len(h) /\ Len(h) \in n..Len(h)
    BY <1>1
  <2> QED
    BY <2>1, ConcatAdjacentSubSeq
<1>6. SubSeq(h, 1, Len(h)) = h
  BY SubSeqFull
<1> QED
  BY <1>3, <1>4, <1>5, <1>6

-----------------------------------------------------------------------------
\* The end of every handler: the interest it sets is open, and if it returns
\* DONE nothing is left to wait for.
LEMMA FinishInv ==
  ASSUME NEW side \in Side,
         Finish(side),
         duplex' \in [Side -> SUBSET {READ, WRITE}],
         DirectionsArePaired'
  PROVE  /\ st' \in {"COPY", "DONE"}
         /\ interest' \in [Side -> SUBSET {READ, WRITE}]
         /\ InterestIsOpen'
         /\ DoneIsQuiet'
<1>1. interest' = [e \in Side |-> check_interest(duplex'[e], buf'[read_buff(e)],
                                                 buf'[write_buff(e)], BUFFER_SIZE)]
  BY DEF Finish, RefreshedInterest
<1>2. \A e \in Side : interest'[e] \subseteq duplex'[e]
  BY <1>1 DEF check_interest
<1>3. interest' \in [Side -> SUBSET {READ, WRITE}]
  <2>1. \A e \in Side : interest'[e] \in SUBSET {READ, WRITE}
    BY <1>2
  <2> QED
    BY <1>1, <2>1
<1>4. st' = IF duplex'[side] = {} THEN "DONE" ELSE "COPY"
  BY DEF Finish
<1>5. ASSUME duplex'[side] = {}
      PROVE  \A e \in Side : duplex'[e] = {}
  <2>1. READ \notin duplex'[other(side)] /\ WRITE \notin duplex'[other(side)]
    BY <1>5, Ends DEF DirectionsArePaired
  <2>2. duplex'[other(side)] \in SUBSET {READ, WRITE}
    BY Ends
  <2> QED
    BY <1>5, <2>1, <2>2, Ends
<1>6. DoneIsQuiet'
  <2>1. ASSUME st' = "DONE" PROVE \A e \in Side : interest'[e] = {}
    <3>1. duplex'[side] = {}
      BY <1>4, <2>1
    <3> QED
      BY <1>2, <1>5, <3>1
  <2> QED
    BY <2>1 DEF DoneIsQuiet
<1> QED
  BY <1>2, <1>3, <1>4, <1>6 DEF InterestIsOpen

\* shutdown() keeps the ends in agreement, whichever direction it closes.
LEMMA ShutPaired ==
  ASSUME NEW side \in Side,
         NEW op, NEW opposite,
         <<op, opposite>> \in {<<READ, WRITE>>, <<WRITE, READ>>},
         duplex \in [Side -> SUBSET {READ, WRITE}],
         DirectionsArePaired,
         Shut(side, op, opposite)
  PROVE  /\ duplex' \in [Side -> SUBSET {READ, WRITE}]
         /\ DirectionsArePaired'
<1>1. /\ duplex' \in [Side -> SUBSET {READ, WRITE}]
      /\ duplex'[side] = duplex[side] \ {op}
      /\ duplex'[other(side)] = duplex[other(side)] \ {opposite}
  BY Ends DEF Shut
<1>2. READ \in duplex'[side] <=> WRITE \in duplex'[other(side)]
  BY <1>1, Ends DEF DirectionsArePaired, READ, WRITE
<1>3. READ \in duplex'[other(side)] <=> WRITE \in duplex'[side]
  BY <1>1, Ends DEF DirectionsArePaired, READ, WRITE
<1> QED
  BY <1>1, <1>2, <1>3, Ends DEF DirectionsArePaired

-----------------------------------------------------------------------------
\* The part of Inv that only the byte-moving steps can disturb.
Data ==
  /\ buf \in [BufferName -> Pointers]
  /\ held \in [BufferName -> Seq(Byte)]
  /\ accepted \in [Side -> Seq(Byte)]
  /\ delivered \in [Side -> Seq(Byte)]
  /\ bytesSent \in Nat
  /\ PointersDelimitHeld
  /\ StreamsAreFaithful
  /\ BytesAreCounted

\* recv gave n bytes: they are appended to the stream and to the buffer.
LEMMA ReadDataKeepsData ==
  ASSUME Data, NEW side \in Side, ReadData(side),
         UNCHANGED <<delivered, bytesSent>>
  PROVE  Data'
<1> DEFINE b == read_buff(side)
<1>1. b \in BufferName
  BY Ends
<1>2. PICK n \in 1..buffer_write_room(buf[b], BUFFER_SIZE) :
        /\ buf' = [buf EXCEPT ![b] = buffer_write_adv(@, n)]
        /\ \E d \in Bytes(n) :
             /\ held' = [held EXCEPT ![b] = @ \o d]
             /\ accepted' = [accepted EXCEPT ![side] = @ \o d]
  BY DEF ReadData
<1>3. PICK d \in Bytes(n) :
        /\ held' = [held EXCEPT ![b] = @ \o d]
        /\ accepted' = [accepted EXCEPT ![side] = @ \o d]
  BY <1>2
<1>4. buf[b] \in Pointers /\ held[b] \in Seq(Byte) /\ accepted[side] \in Seq(Byte)
  BY <1>1 DEF Data
<1>5. /\ n \in Nat
      /\ buffer_write_adv(buf[b], n) \in Pointers
      /\ buffer_write_adv(buf[b], n).read = buf[b].read
      /\ buffer_write_adv(buf[b], n).write = buf[b].write + n
  BY <1>4, WriteAdv
<1>6. d \in Seq(Byte) /\ Len(d) = n
  BY <1>5, BytesAreSeq
<1>7. /\ held[b] \o d \in Seq(Byte)
      /\ Len(held[b] \o d) = Len(held[b]) + n
      /\ accepted[side] \o d \in Seq(Byte)
  BY <1>4, <1>6, ConcatProperties
<1> HIDE DEF b
<1>8. /\ buf' \in [BufferName -> Pointers]
      /\ buf'[b] = buffer_write_adv(buf[b], n)
      /\ \A c \in BufferName \ {b} : buf'[c] = buf[c]
  BY <1>1, <1>2, <1>5 DEF Data
<1>9. /\ held' \in [BufferName -> Seq(Byte)]
      /\ held'[b] = held[b] \o d
      /\ \A c \in BufferName \ {b} : held'[c] = held[c]
  BY <1>1, <1>3, <1>7 DEF Data
<1>10. /\ accepted' \in [Side -> Seq(Byte)]
       /\ accepted'[side] = accepted[side] \o d
       /\ \A e \in Side \ {side} : accepted'[e] = accepted[e]
  BY <1>3, <1>7 DEF Data
<1>11. PointersDelimitHeld'
  <2> SUFFICES ASSUME NEW c \in BufferName
               PROVE  /\ buf'[c].read <= buf'[c].write
                      /\ Len(held'[c]) = buf'[c].write - buf'[c].read
    BY DEF PointersDelimitHeld
  <2>1. /\ buf[c].read <= buf[c].write
        /\ Len(held[c]) = buf[c].write - buf[c].read
    BY DEF Data, PointersDelimitHeld
  <2>2. CASE c = b
    <3>1. buf[b].read \in Nat /\ buf[b].write \in Nat
      BY <1>4 DEF Pointers
    <3>2. buf'[c].read = buf[b].read /\ buf'[c].write = buf[b].write + n
      BY <1>5, <1>8, <2>2
    <3>3. Len(held'[c]) = Len(held[b]) + n
      BY <1>7, <1>9, <2>2
    <3>4. n \in Nat
      BY <1>5
    <3>5. /\ buf[b].read <= buf[b].write
          /\ Len(held[b]) = buf[b].write - buf[b].read
      BY <2>1, <2>2
    <3> QED
      BY <3>1, <3>2, <3>3, <3>4, <3>5
  <2>3. CASE c # b
    BY <1>8, <1>9, <2>1, <2>3
  <2> QED
    BY <2>2, <2>3
<1>12. StreamsAreFaithful'
  <2> SUFFICES ASSUME NEW e \in Side
               PROVE  accepted'[e] = delivered'[other(e)] \o held'[read_buff(e)]
    BY DEF StreamsAreFaithful
  <2>1. accepted[e] = delivered[other(e)] \o held[read_buff(e)]
    BY DEF Data, StreamsAreFaithful
  <2>2. CASE e = side
    <3>1. delivered[other(side)] \in Seq(Byte)
      BY Ends DEF Data
    <3>2. (delivered[other(side)] \o held[b]) \o d
            = delivered[other(side)] \o (held[b] \o d)
      BY <1>4, <1>6, <3>1, AppendLast
    <3> QED
      BY <1>9, <1>10, <2>1, <2>2, <3>2 DEF b
  <2>3. CASE e # side
    <3>1. e = other(side)
      BY <2>3, Ends
    <3>2. read_buff(e) \in BufferName /\ read_buff(e) # b
      BY <3>1, Ends DEF b
    <3> QED
      BY <1>9, <1>10, <2>1, <2>3, <3>2
  <2> QED
    BY <2>2, <2>3
<1>13. BytesAreCounted'
  BY DEF Data, BytesAreCounted
<1> QED
  BY <1>8, <1>9, <1>10, <1>11, <1>12, <1>13 DEF Data

\* The byte counter follows what is delivered until it would reach UINT32_MAX.
LEMMA CounterStep ==
  ASSUME NEW total \in Nat, NEW sent \in Nat, NEW n \in Nat,
         sent = total \/ total >= UINT32_MAX
  PROVE  /\ stadistics_increase_bytes_sent(sent, n) \in Nat
         /\ \/ stadistics_increase_bytes_sent(sent, n) = total + n
            \/ total + n >= UINT32_MAX
  BY CopyAssumption DEF stadistics_increase_bytes_sent

\* send took n bytes: they move from the buffer to the delivered stream.
LEMMA WriteDataKeepsData ==
  ASSUME Data, NEW side \in Side, WriteData(side), UNCHANGED accepted
  PROVE  Data'
<1> DEFINE b == write_buff(side)
<1>1. b \in BufferName
  BY Ends
<1>2. PICK n \in 1..buffer_read_avail(buf[b]) :
        /\ buf' = [buf EXCEPT ![b] = buffer_read_adv(@, n)]
        /\ held' = [held EXCEPT ![b] = SubSeq(@, n + 1, Len(@))]
        /\ delivered' = [delivered EXCEPT ![side] = @ \o SubSeq(held[b], 1, n)]
        /\ bytesSent' = stadistics_increase_bytes_sent(bytesSent, n)
  BY DEF WriteData
<1> HIDE DEF b
<1>3. buf[b] \in Pointers /\ held[b] \in Seq(Byte) /\ delivered[side] \in Seq(Byte)
  BY <1>1 DEF Data
<1>4. /\ n \in Nat
      /\ buffer_read_adv(buf[b], n) \in Pointers
      /\ buffer_read_adv(buf[b], n).read <= buffer_read_adv(buf[b], n).write
      /\ buffer_read_adv(buf[b], n).write - buffer_read_adv(buf[b], n).read
           = buf[b].write - buf[b].read - n
  BY <1>3, ReadAdv
<1>5. Len(held[b]) = buf[b].write - buf[b].read
  BY <1>1 DEF Data, PointersDelimitHeld
<1>6. n \in 1..Len(held[b])
  BY <1>5 DEF buffer_read_avail
<1> DEFINE head == SubSeq(held[b], 1, n)
           rest == SubSeq(held[b], n + 1, Len(held[b]))
<1>7. /\ head \in Seq(Byte) /\ Len(head) = n
      /\ rest \in Seq(Byte) /\ Len(rest) = Len(held[b]) - n
      /\ head \o rest = held[b]
  BY <1>3, <1>6, SplitHeld
<1>8. /\ held' = [held EXCEPT ![b] = rest]
      /\ delivered' = [delivered EXCEPT ![side] = @ \o head]
  BY <1>2
<1> HIDE DEF head, rest
<1>9. /\ delivered[side] \o head \in Seq(Byte)
      /\ Len(delivered[side] \o head) = Len(delivered[side]) + n
  BY <1>3, <1>7, ConcatProperties
<1>10. /\ buf' \in [BufferName -> Pointers]
       /\ buf'[b] = buffer_read_adv(buf[b], n)
       /\ \A c \in BufferName \ {b} : buf'[c] = buf[c]
  BY <1>1, <1>2, <1>4 DEF Data
<1>11. /\ held' \in [BufferName -> Seq(Byte)]
       /\ held'[b] = rest
       /\ \A c \in BufferName \ {b} : held'[c] = held[c]
  BY <1>1, <1>7, <1>8 DEF Data
<1>12. /\ delivered' \in [Side -> Seq(Byte)]
       /\ delivered'[side] = delivered[side] \o head
       /\ \A e \in Side \ {side} : delivered'[e] = delivered[e]
  BY <1>8, <1>9 DEF Data
<1>13. PointersDelimitHeld'
  <2> SUFFICES ASSUME NEW c \in BufferName
               PROVE  /\ buf'[c].read <= buf'[c].write
                      /\ Len(held'[c]) = buf'[c].write - buf'[c].read
    BY DEF PointersDelimitHeld
  <2>1. CASE c = b
    <3>1. /\ buf'[c].read <= buf'[c].write
          /\ buf'[c].write - buf'[c].read = buf[b].write - buf[b].read - n
      BY <1>4, <1>10, <2>1
    <3>2. Len(held'[c]) = Len(held[b]) - n
      BY <1>7, <1>11, <2>1
    <3> QED
      BY <1>5, <3>1, <3>2
  <2>2. CASE c # b
    BY <1>10, <1>11, <2>2 DEF Data, PointersDelimitHeld
  <2> QED
    BY <2>1, <2>2
<1>14. StreamsAreFaithful'
  <2> SUFFICES ASSUME NEW e \in Side
               PROVE  accepted'[e] = delivered'[other(e)] \o held'[read_buff(e)]
    BY DEF StreamsAreFaithful
  <2>1. accepted[e] = delivered[other(e)] \o held[read_buff(e)]
    BY DEF Data, StreamsAreFaithful
  <2>2. CASE e = other(side)
    <3>1. other(e) = side /\ read_buff(e) = b
      BY <2>2, Ends DEF b
    <3>2. (delivered[side] \o head) \o rest = delivered[side] \o (head \o rest)
      BY <1>3, <1>7, AppendLast
    <3> QED
      BY <1>7, <1>11, <1>12, <2>1, <3>1, <3>2
  <2>3. CASE e # other(side)
    <3>1. e = side
      BY <2>3, Ends
    <3>2. /\ other(e) \in Side /\ other(e) # side
          /\ read_buff(e) \in BufferName /\ read_buff(e) # b
      BY <3>1, Ends DEF b
    <3> QED
      BY <1>11, <1>12, <2>1, <3>2
  <2> QED
    BY <2>2, <2>3
<1>15. bytesSent' \in Nat /\ BytesAreCounted'
  <2> DEFINE c == Len(delivered["client"])
             s == Len(delivered["server"])
             total == c + s
  <2>1. c \in Nat /\ s \in Nat
    <3>1. delivered["client"] \in Seq(Byte) /\ delivered["server"] \in Seq(Byte)
      BY DEF Data, Side
    <3> QED
      BY <3>1, LenProperties
  <2>2. total \in Nat
    <3> HIDE DEF c, s
    <3> QED
      BY <2>1
  <2>3. Len(delivered'["client"]) + Len(delivered'["server"]) = total + n
    <3>1. Len(delivered'[side]) = Len(delivered[side]) + n
      BY <1>9, <1>12
    <3>2. \A e \in Side \ {side} : Len(delivered'[e]) = Len(delivered[e])
      BY <1>12
    <3>3. n \in Nat
      BY <1>4
    <3> DEFINE cc == Len(delivered'["client"])
               ss == Len(delivered'["server"])
    <3>4. CASE side = "client"
      <4>1. cc = c + n /\ ss = s
        BY <3>1, <3>2, <3>4 DEF Side
      <4> HIDE DEF c, s, cc, ss
      <4>2. cc + ss = c + s + n
        BY <2>1, <3>3, <4>1
      <4> QED
        BY <4>2 DEF c, s, cc, ss
    <3>5. CASE side = "server"
      <4>1. cc = c /\ ss = s + n
        BY <3>1, <3>2, <3>5 DEF Side
      <4> HIDE DEF c, s, cc, ss
      <4>2. cc + ss = c + s + n
        BY <2>1, <3>3, <4>1
      <4> QED
        BY <4>2 DEF c, s, cc, ss
    <3> QED
      BY <3>4, <3>5 DEF Side
  <2>4. bytesSent \in Nat /\ (bytesSent = total \/ total >= UINT32_MAX)
    BY DEF Data, BytesAreCounted
  <2> HIDE DEF total
  <2>5. /\ bytesSent' \in Nat
        /\ bytesSent' = total + n \/ total + n >= UINT32_MAX
    BY <1>2, <1>4, <2>2, <2>4, CounterStep
  <2> QED
    BY <2>3, <2>5 DEF BytesAreCounted
<1>16. accepted' \in [Side -> Seq(Byte)]
  BY DEF Data
<1> QED
  BY <1>10, <1>11, <1>12, <1>13, <1>14, <1>15, <1>16 DEF Data

\* Steps that move no byte.
LEMMA StillData ==
  ASSUME Data, UNCHANGED <<buf, held, accepted, delivered, bytesSent>>
  PROVE  Data'
  BY DEF Data, PointersDelimitHeld, StreamsAreFaithful, BytesAreCounted

-----------------------------------------------------------------------------
\* Inv is its control part and its data part.
LEMMA InvSplits ==
  Inv <=> /\ st \in {"COPY", "DONE"}
          /\ duplex \in [Side -> SUBSET {READ, WRITE}]
          /\ interest \in [Side -> SUBSET {READ, WRITE}]
          /\ broken \in [Side -> BOOLEAN]
          /\ InterestIsOpen /\ DirectionsArePaired /\ DoneIsQuiet
          /\ Data
  BY DEF Inv, TypeOK, Data, Pointers

\* The same of the state after a step.
LEMMA InvJoins ==
  ASSUME st' \in {"COPY", "DONE"},
         duplex' \in [Side -> SUBSET {READ, WRITE}],
         interest' \in [Side -> SUBSET {READ, WRITE}],
         broken' \in [Side -> BOOLEAN],
         InterestIsOpen', DirectionsArePaired', DoneIsQuiet',
         Data'
  PROVE  Inv'
  BY DEF Inv, TypeOK, Data, Pointers

\* With nothing delivered, the streams are what the buffers hold: nothing, or
\* what came with the request.
LEMMA InitData == Init => Data
<1> SUFFICES ASSUME Init PROVE Data
  OBVIOUS
<1>1. /\ buf \in [BufferName -> Pointers]
      /\ held \in [BufferName -> Seq(Byte)]
      /\ PointersDelimitHeld
  <2>1. CASE /\ buf = [b \in BufferName |-> [read |-> 0, write |-> 0]]
             /\ held = [b \in BufferName |-> <<>>]
    <3>1. [read |-> 0, write |-> 0] \in Pointers
      BY CopyAssumption DEF Pointers
    <3>2. <<>> \in Seq(Byte) /\ Len(<<>>) = 0
      BY EmptySeq
    <3> QED
      BY <2>1, <3>1, <3>2 DEF PointersDelimitHeld
  <2>2. ASSUME NEW r \in 1..BUFFER_SIZE, NEW n \in 1..(BUFFER_SIZE - r),
               NEW ahead \in Bytes(n),
               buf = [b \in BufferName |-> IF b = "input"
                                           THEN [read |-> r, write |-> r + n]
                                           ELSE [read |-> 0, write |-> 0]],
               held = [b \in BufferName |-> IF b = "input" THEN ahead ELSE <<>>]
        PROVE  /\ buf \in [BufferName -> Pointers]
               /\ held \in [BufferName -> Seq(Byte)]
               /\ PointersDelimitHeld
    <3>1. r \in Nat /\ n \in Nat /\ r + n <= BUFFER_SIZE /\ BUFFER_SIZE \in Nat
      BY CopyAssumption
    <3>2. /\ [read |-> 0, write |-> 0] \in Pointers
          /\ [read |-> r, write |-> r + n] \in Pointers
      BY <3>1 DEF Pointers
    <3>3. /\ <<>> \in Seq(Byte) /\ Len(<<>>) = 0
          /\ ahead \in Seq(Byte) /\ Len(ahead) = n
      BY <3>1, EmptySeq, BytesAreSeq
    <3>4. buf \in [BufferName -> Pointers] /\ held \in [BufferName -> Seq(Byte)]
      BY <2>2, <3>2, <3>3
    <3>5. ASSUME NEW b \in BufferName
          PROVE  /\ buf[b].read <= buf[b].write
                 /\ Len(held[b]) = buf[b].write - buf[b].read
      <4>1. CASE b = "input"
        <5>1. buf[b].read = r /\ buf[b].write = r + n /\ Len(held[b]) = n
          BY <2>2, <3>3, <4>1
        <5> QED
          BY <3>1, <5>1
      <4>2. CASE b # "input"
        <5>1. buf[b].read = 0 /\ buf[b].write = 0 /\ Len(held[b]) = 0
          BY <2>2, <3>3, <4>2
        <5> QED
          BY <5>1
      <4> QED
        BY <4>1, <4>2
    <3> QED
      BY <3>4, <3>5 DEF PointersDelimitHeld
  <2> QED
    BY <2>1, <2>2 DEF Init
<1>2. /\ accepted = [side \in Side |-> held[read_buff(side)]]
      /\ delivered = [side \in Side |-> <<>>]
      /\ bytesSent = 0
  BY DEF Init
<1>3. accepted \in [Side -> Seq(Byte)] /\ delivered \in [Side -> Seq(Byte)]
  BY <1>1, <1>2, Ends, EmptySeq
<1>4. StreamsAreFaithful
  <2> SUFFICES ASSUME NEW side \in Side
               PROVE  accepted[side] = delivered[other(side)] \o held[read_buff(side)]
    BY DEF StreamsAreFaithful
  <2>1. held[read_buff(side)] \in Seq(Byte)
    BY <1>1, Ends
  <2>2. <<>> \o held[read_buff(side)] = held[read_buff(side)]
    BY <2>1, ConcatEmptySeq
  <2> QED
    BY <1>2, <2>2, Ends
<1>5. BytesAreCounted
  <2>1. delivered["client"] = <<>> /\ delivered["server"] = <<>>
    BY <1>2 DEF Side
  <2>2. Len(delivered["client"]) = 0 /\ Len(delivered["server"]) = 0
    BY <2>1, EmptySeq
  <2>3. Len(delivered["client"]) + Len(delivered["server"]) = bytesSent
    <3> DEFINE c == Len(delivered["client"])
               s == Len(delivered["server"])
    <3>1. c = 0 /\ s = 0
      BY <2>2
    <3> HIDE DEF c, s
    <3>2. c + s = 0
      BY <3>1
    <3> QED
      BY <1>2, <3>2 DEF c, s
  <2> QED
    BY <2>3 DEF BytesAreCounted
<1> QED
  BY <1>1, <1>2, <1>3, <1>4, <1>5 DEF Data

\* Inv holds when the session reaches COPY.
LEMMA InitInv == Init => Inv
<1> SUFFICES ASSUME Init PROVE Inv
  OBVIOUS
<1>1. Data
  BY InitData
<1>2. /\ st = "COPY"
      /\ duplex = [side \in Side |-> {READ, WRITE}]
      /\ broken = [side \in Side |-> FALSE]
  BY DEF Init
<1>3. PICK origin \in {{READ}, {}} :
        interest = [side \in Side |-> IF side = "client" THEN {READ} ELSE origin]
  BY DEF Init
<1>4. interest \in [Side -> SUBSET {READ, WRITE}] /\ InterestIsOpen
  BY <1>2, <1>3 DEF InterestIsOpen
<1>5. DirectionsArePaired /\ DoneIsQuiet
  BY <1>2, Ends DEF DirectionsArePaired, DoneIsQuiet
<1> QED
  BY <1>1, <1>2, <1>4, <1>5, InvSplits

-----------------------------------------------------------------------------
\* Every step of a handler preserves Inv.
LEMMA NextInv == Inv /\ [Next]_vars => Inv'
<1> SUFFICES ASSUME Inv, [Next]_vars PROVE Inv'
  OBVIOUS
<1>1. /\ st \in {"COPY", "DONE"}
      /\ duplex \in [Side -> SUBSET {READ, WRITE}]
      /\ interest \in [Side -> SUBSET {READ, WRITE}]
      /\ broken \in [Side -> BOOLEAN]
      /\ InterestIsOpen /\ DirectionsArePaired /\ DoneIsQuiet
      /\ Data
  BY InvSplits
<1>2. ASSUME NEW side \in Side, Finish(side), Data',
             duplex' \in [Side -> SUBSET {READ, WRITE}],
             DirectionsArePaired',
             broken' \in [Side -> BOOLEAN]
      PROVE  Inv'
  BY <1>2, FinishInv, InvJoins
<1>3. ASSUME NEW side \in Side, copy_read(side) PROVE Inv'
  <2>1. Finish(side) /\ UNCHANGED <<delivered, broken, bytesSent>>
    BY <1>3 DEF copy_read
  <2>2. CASE ReadEnds(side)
    <3>1. Data'
      BY <1>1, <2>1, <2>2, StillData DEF ReadEnds
    <3>2. duplex' \in [Side -> SUBSET {READ, WRITE}] /\ DirectionsArePaired'
      BY <1>1, <2>2, ShutPaired DEF ReadEnds
    <3> QED
      BY <1>1, <1>2, <2>1, <3>1, <3>2
  <2>3. CASE ReadData(side)
    <3>1. Data'
      BY <1>1, <2>1, <2>3, ReadDataKeepsData
    <3>2. duplex' = duplex
      BY <2>3 DEF ReadData
    <3>3. DirectionsArePaired'
      BY <1>1, <3>2 DEF DirectionsArePaired
    <3> QED
      BY <1>1, <1>2, <2>1, <3>1, <3>2, <3>3
  <2> QED
    BY <1>3, <2>2, <2>3 DEF copy_read
<1>4. ASSUME NEW side \in Side, copy_write(side) PROVE Inv'
  <2>1. Finish(side) /\ UNCHANGED accepted
    BY <1>4 DEF copy_write
  <2>2. CASE WriteFails(side)
    <3>1. Data'
      BY <1>1, <2>1, <2>2, StillData DEF WriteFails
    <3>2. duplex' \in [Side -> SUBSET {READ, WRITE}] /\ DirectionsArePaired'
      BY <1>1, <2>2, ShutPaired DEF WriteFails
    <3>3. broken' \in [Side -> BOOLEAN]
      BY <1>1, <2>2 DEF WriteFails
    <3> QED
      BY <1>2, <2>1, <3>1, <3>2, <3>3
  <2>3. CASE WriteData(side)
    <3>1. Data'
      BY <1>1, <2>1, <2>3, WriteDataKeepsData
    <3>2. duplex' = duplex /\ broken' = broken
      BY <2>3 DEF WriteData
    <3>3. DirectionsArePaired'
      BY <1>1, <3>2 DEF DirectionsArePaired
    <3> QED
      BY <1>1, <1>2, <2>1, <3>1, <3>2, <3>3
  <2> QED
    BY <1>4, <2>2, <2>3 DEF copy_write
<1>5. ASSUME UNCHANGED vars PROVE Inv'
  <2>1. Data'
    BY <1>1, <1>5, StillData DEF vars
  <2>2. InterestIsOpen' /\ DirectionsArePaired' /\ DoneIsQuiet'
    BY <1>1, <1>5 DEF vars, InterestIsOpen, DirectionsArePaired, DoneIsQuiet
  <2> QED
    BY <1>1, <1>5, <2>1, <2>2, InvJoins DEF vars
<1> QED
  BY <1>3, <1>4, <1>5 DEF Next, Closed

-----------------------------------------------------------------------------
\* The relay's state stays well typed; in particular no recv is told to write
\* beyond a buffer.
THEOREM TypeCorrect == Spec => []TypeOK
<1>1. Inv => TypeOK
  BY DEF Inv
<1> QED
  BY <1>1, InitInv, NextInv, PTL DEF Spec

\* Whatever the peers do, each end has received a prefix of what the other sent
\* and the rest of what was taken is in the buffer: copy.c relays faithfully.
THEOREM RelayIsFaithful == Spec => []StreamsAreFaithful
<1>1. Inv => StreamsAreFaithful
  BY DEF Inv
<1> QED
  BY <1>1, InitInv, NextInv, PTL DEF Spec

\* The ends always agree on the open directions, so the test on the handled
\* end alone (copy.c:126, copy.c:163) decides for both.
THEOREM EndsAgree == Spec => []DirectionsArePaired
<1>1. Inv => DirectionsArePaired
  BY DEF Inv
<1> QED
  BY <1>1, InitInv, NextInv, PTL DEF Spec

\* A relay that returned DONE has no interest left on either descriptor.
THEOREM DoneLeavesNoInterest == Spec => []DoneIsQuiet
<1>1. Inv => DoneIsQuiet
  BY DEF Inv
<1> QED
  BY <1>1, InitInv, NextInv, PTL DEF Spec

\* The byte counter is exact until it would reach UINT32_MAX.
THEOREM CounterIsExact == Spec => []BytesAreCounted
<1>1. Inv => BytesAreCounted
  BY DEF Inv
<1> QED
  BY <1>1, InitInv, NextInv, PTL DEF Spec

\* No handler moves a byte in a direction that was shut.
THEOREM ShutdownIsFinal == Spec => NothingAfterShutdown
<1>1. ASSUME Inv, [Next]_vars
      PROVE  [\A side \in Side :
                /\ WRITE \notin duplex[side] => delivered'[side] = delivered[side]
                /\ READ \notin duplex[side] => accepted'[side] = accepted[side]]_vars
  <2>1. InterestIsOpen /\ Data
    BY <1>1, InvSplits
  <2> SUFFICES ASSUME NEW side \in Side
               PROVE  /\ WRITE \notin duplex[side] => delivered'[side] = delivered[side]
                      /\ READ \notin duplex[side] => accepted'[side] = accepted[side]
    OBVIOUS
  <2>2. ASSUME NEW e \in Side, copy_read(e)
        PROVE  /\ delivered' = delivered
               /\ READ \notin duplex[side] => accepted'[side] = accepted[side]
    <3>1. READ \in duplex[e]
      BY <2>1, <2>2 DEF copy_read, InterestIsOpen
    <3>2. accepted' = accepted \/ \E d : accepted' = [accepted EXCEPT ![e] = @ \o d]
      BY <2>2 DEF copy_read, ReadEnds, ReadData
    <3> QED
      BY <2>1, <2>2, <3>1, <3>2 DEF copy_read, Data
  <2>3. ASSUME NEW e \in Side, copy_write(e)
        PROVE  /\ accepted' = accepted
               /\ WRITE \notin duplex[side] => delivered'[side] = delivered[side]
    <3>1. WRITE \in duplex[e]
      BY <2>1, <2>3 DEF copy_write, InterestIsOpen
    <3>2. delivered' = delivered \/ \E d : delivered' = [delivered EXCEPT ![e] = @ \o d]
      BY <2>3 DEF copy_write, WriteFails, WriteData
    <3> QED
      BY <2>1, <2>3, <3>1, <3>2 DEF copy_write, Data
  <2>4. CASE UNCHANGED vars
    BY <2>4 DEF vars
  <2> QED
    BY <1>1, <2>2, <2>3, <2>4 DEF Next, Closed
<1> QED
  BY <1>1, InitInv, NextInv, PTL DEF Spec, NothingAfterShutdown

-----------------------------------------------------------------------------
\* An end is asked to read only when its buffer has room.
ReadMeansRoom ==
  \A side \in Side :
    READ \in interest[side] => buffer_can_write(buf[read_buff(side)], BUFFER_SIZE)

\* It holds at first unless data came with the request.
LEMMA InitReadMeansRoom == ~Pipelining /\ Init => ReadMeansRoom
<1> SUFFICES ASSUME ~Pipelining, Init, NEW side \in Side
             PROVE  buffer_can_write(buf[read_buff(side)], BUFFER_SIZE)
  BY DEF ReadMeansRoom
<1>1. buf = [b \in BufferName |-> [read |-> 0, write |-> 0]]
  BY DEF Init
<1>2. buf[read_buff(side)].write = 0
  BY <1>1, Ends
<1> QED
  BY <1>2, CopyAssumption DEF buffer_can_write

\* Every handler ends in check_interest, which establishes it.
LEMMA NextReadMeansRoom == ReadMeansRoom /\ [Next]_vars => ReadMeansRoom'
<1> SUFFICES ASSUME ReadMeansRoom, [Next]_vars PROVE ReadMeansRoom'
  OBVIOUS
<1>1. ASSUME NEW side \in Side, Finish(side) PROVE ReadMeansRoom'
  BY <1>1 DEF Finish, RefreshedInterest, check_interest, ReadMeansRoom, READ, WRITE
<1>2. CASE UNCHANGED vars
  BY <1>2 DEF vars, ReadMeansRoom
<1> QED
  BY <1>1, <1>2 DEF Next, Closed, copy_read, copy_write

\* When no data came with the request, back-pressure works: an end whose
\* buffer is full is not read, so a full buffer is never taken for a close.
\* (With such data it can fail in the first step: see README.md.)
THEOREM BackPressureIsNotEof == ~Pipelining /\ Spec => FullBufferIsNotEof
<1>1. ASSUME Inv, ReadMeansRoom, [Next]_vars
      PROVE  [\A side \in Side :
                /\ ~buffer_can_write(buf[read_buff(side)], BUFFER_SIZE)
                /\ READ \in duplex[side]
                /\ READ \notin duplex'[side]
                => broken'[other(side)]]_vars
  <2> SUFFICES ASSUME NEW side \in Side,
                      ~buffer_can_write(buf[read_buff(side)], BUFFER_SIZE),
                      READ \in duplex[side], READ \notin duplex'[side]
               PROVE  broken'[other(side)]
    OBVIOUS
  <2>1. /\ duplex \in [Side -> SUBSET {READ, WRITE}]
        /\ broken \in [Side -> BOOLEAN]
    BY <1>1, InvSplits
  <2>2. ASSUME NEW e \in Side, copy_read(e) PROVE FALSE
    <3>1. e # side
      BY <1>1, <2>2 DEF copy_read, ReadMeansRoom
    <3>2. e = other(side) /\ other(e) = side
      BY <3>1, Ends
    <3>3. CASE ReadEnds(e)
      <4>1. duplex'[side] = duplex[side] \ {WRITE}
        BY <2>1, <3>2, <3>3, Ends DEF ReadEnds, Shut
      <4> QED
        BY <4>1 DEF READ, WRITE
    <3>4. CASE ReadData(e)
      BY <3>4 DEF ReadData
    <3> QED
      BY <2>2, <3>3, <3>4 DEF copy_read
  <2>3. ASSUME NEW e \in Side, copy_write(e) PROVE broken'[other(side)]
    <3>1. CASE WriteFails(e)
      <4>1. broken'[e]
        BY <2>1, <3>1 DEF WriteFails
      <4>2. e # side
        <5>1. ASSUME e = side PROVE FALSE
          <6>1. duplex'[side] = duplex[side] \ {WRITE}
            BY <2>1, <3>1, <5>1, Ends DEF WriteFails, Shut
          <6> QED
            BY <6>1 DEF READ, WRITE
        <5> QED
          BY <5>1
      <4> QED
        BY <4>1, <4>2, Ends
    <3>2. CASE WriteData(e)
      BY <3>2 DEF WriteData
    <3> QED
      BY <2>3, <3>1, <3>2 DEF copy_write
  <2>4. CASE UNCHANGED vars
    BY <2>4 DEF vars
  <2> QED
    BY <1>1, <2>2, <2>3, <2>4 DEF Next, Closed
<1> QED
  BY <1>1, InitInv, NextInv, InitReadMeansRoom, NextReadMeansRoom, PTL
  DEF Spec, FullBufferIsNotEof
=============================================================================
