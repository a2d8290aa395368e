-------------------------- MODULE HandshakeProofs ---------------------------
(***************************************************************************)
(* Proofs about Handshake.tla: for every stream of bytes a client may send *)
(* and every size of the input buffer, however recv cuts the stream, the   *)
(* parsers decode what was sent.                                           *)
(*                                                                         *)
(* The invariant says where the two parsers stand: a parser's state, its   *)
(* counts and what it stored are a function of the stream and of the       *)
(* number of bytes used.  That the pointers of the input buffer hold the   *)
(* bytes got and not used, and that an empty buffer is rewound, is what    *)
(* RefusedOnlyForCause needs: a recv finds no room only behind a hello.    *)
(***************************************************************************)
EXTENDS Handshake, MinMaxLemmas, SequenceTheorems

HelloStates == {"hello_version", "hello_nmethods", "hello_methods", "hello_done",
                "hello_error_unsupported_version"}

RequestStates == {"request_version", "request_cmd", "request_rsv", "request_atype",
                  "request_dstaddr_fqdn", "request_dstaddr", "request_dstport",
                  "request_done", "request_error_unsupported_version",
                  "request_error_unsupported_atype"}

HelloParser == [state : HelloStates, remaining : Byte, method : Byte]

RequestParser == [state : RequestStates, n : Byte, i : Byte, cmd : Byte,
                  dest_addr_type : Byte, dest_addr : Seq(Byte), dest_port : Seq(Byte)]

\* The method a client that offers the set S gets.
Best(S) == IF METHOD_USERNAME_PASSWORD \in S THEN METHOD_USERNAME_PASSWORD
           ELSE IF METHOD_NO_AUTHENTICATION_REQUIRED \in S
           THEN METHOD_NO_AUTHENTICATION_REQUIRED ELSE UNSET

\* The methods among the bytes 3 to u of the stream s.
Methods(s, u) == {s[k] : k \in 3..u}

\* The hello parser h after the first u bytes of the stream s.
HelloIs(s, u, h) ==
  /\ h.state = "hello_version" => u = 0 /\ h.method = UNSET
  /\ h.state = "hello_nmethods" => u = 1 /\ h.method = UNSET
  /\ h.state = "hello_methods" => /\ u >= 2 /\ h.remaining > 0
                                  /\ u + h.remaining = 2 + s[2]
                                  /\ h.method = Best(Methods(s, u))
  /\ h.state = "hello_done" => /\ u >= 2 /\ u = 2 + s[2]
                               /\ h.method = Best(Methods(s, 2 + s[2]))
  /\ h.state = "hello_error_unsupported_version" => s[1] # 5

\* Where the request of the stream s has its fields.
Start(s) == 3 + s[2]
AtypOf(s) == s[Start(s) + 3]
AddrStart(s) == Start(s) + (IF AtypOf(s) = domain THEN 5 ELSE 4)
AddrSize(s) == IF AtypOf(s) = ipv4 THEN 4 ELSE IF AtypOf(s) = ipv6 THEN 16
               ELSE IF s[Start(s) + 4] = 0 THEN 1 ELSE s[Start(s) + 4]
PortStart(s) == AddrStart(s) + AddrSize(s)

\* t is what the stream s has from position a on.
Part(t, s, a) == \A k \in 1..Len(t) : t[k] = s[a + k - 1]

\* Between the request's version and its address type.
HeaderIs(s, u, r) ==
  /\ r.dest_addr = <<>> /\ r.dest_port = <<>>
  /\ r.state = "request_version" => u = Start(s) - 1
  /\ r.state = "request_cmd" => u = Start(s)
  /\ r.state = "request_rsv" => u = Start(s) + 1 /\ r.cmd = s[Start(s) + 1]
  /\ r.state = "request_atype" => u = Start(s) + 2 /\ r.cmd = s[Start(s) + 1]

\* Behind a known address type.
AddressIs(s, u, r) ==
  /\ r.cmd = s[Start(s) + 1]
  /\ r.dest_addr_type = AtypOf(s) /\ AtypOf(s) \in {ipv4, domain, ipv6}
  /\ Part(r.dest_addr, s, AddrStart(s)) /\ Part(r.dest_port, s, PortStart(s))
  /\ r.state = "request_dstaddr_fqdn" =>
       /\ AtypOf(s) = domain
       /\ u = Start(s) + 3 /\ r.dest_addr = <<>> /\ r.dest_port = <<>>
  /\ r.state = "request_dstaddr" =>
       /\ r.i < AddrSize(s) /\ r.i = Len(r.dest_addr)
       /\ r.n = IF AtypOf(s) = domain THEN s[Start(s) + 4] ELSE AddrSize(s)
       /\ u = AddrStart(s) + r.i - 1
       /\ r.dest_port = <<>>
  /\ r.state = "request_dstport" =>
       /\ r.i < 2 /\ r.n = 2 /\ r.i = Len(r.dest_port)
       /\ Len(r.dest_addr) = AddrSize(s)
       /\ u = PortStart(s) + r.i - 1
  /\ r.state = "request_done" =>
       /\ Len(r.dest_addr) = AddrSize(s) /\ Len(r.dest_port) = 2
       /\ u = PortStart(s) + 1

Header == {"request_version", "request_cmd", "request_rsv", "request_atype"}
Body == {"request_dstaddr_fqdn", "request_dstaddr", "request_dstport", "request_done"}

\* The request parser r after the first u bytes of the stream s.
RequestIs(s, u, r) ==
  /\ r.state \in Header => HeaderIs(s, u, r)
  /\ r.state \in Body => AddressIs(s, u, r)
  /\ r.state = "request_error_unsupported_version" => s[Start(s)] # 5
  /\ r.state = "request_error_unsupported_atype" => AtypOf(s) \notin {ipv4, domain, ipv6}
-----------------------------------------------------------------------------
\* Bytes are the naturals up to 255.
LEMMA Bytes ==
  /\ \A b \in Byte : b \in Nat /\ b <= 255
  /\ \A b \in Nat : b <= 255 => b \in Byte
  /\ \A b \in Byte : b > 0 => b - 1 \in Byte
  /\ \A b \in Byte : b < 255 => b + 1 \in Byte
BY DEF Byte

\* on_hello_method keeps the best of what was offered so far.
LEMMA BestOfMore ==
  ASSUME NEW S, NEW b
  PROVE  on_hello_method(Best(S), b) = Best(S \cup {b})
BY DEF on_hello_method, Best, METHOD_USERNAME_PASSWORD,
       METHOD_NO_AUTHENTICATION_REQUIRED, UNSET

\* One more byte of the stream, one more method.
LEMMA MethodsGrow ==
  ASSUME NEW s \in Seq(Byte), NEW u \in Nat, u >= 2
  PROVE  Methods(s, u + 1) = Methods(s, u) \cup {s[u + 1]}
<1>1. 3..(u + 1) = (3..u) \cup {u + 1}
  OBVIOUS
<1> QED
  BY <1>1 DEF Methods

\* The method selected is a byte.
LEMMA BestIsByte == \A S : Best(S) \in Byte
BY DEF Best, Byte, METHOD_USERNAME_PASSWORD, METHOD_NO_AUTHENTICATION_REQUIRED, UNSET

\* hello_parser_feed keeps the hello parser where the stream says.
LEMMA HelloFeed ==
  ASSUME NEW s \in Seq(Byte), NEW u \in Nat, u < Len(s),
         NEW h \in HelloParser, HelloIs(s, u, h), ~hello_is_done(h)
  PROVE  /\ hello_parser_feed(h, s[u + 1]) \in HelloParser
         /\ HelloIs(s, u + 1, hello_parser_feed(h, s[u + 1]))
<1> SUFFICES ASSUME NEW b \in Byte, b = s[u + 1],
                    NEW g, g = hello_parser_feed(h, b)
             PROVE  g \in HelloParser /\ HelloIs(s, u + 1, g)
  OBVIOUS
<1>1. CASE h.state = "hello_version"
  <2>1. g = [h EXCEPT !.state = IF b = 5 THEN "hello_nmethods"
                                ELSE "hello_error_unsupported_version"]
    BY <1>1 DEF hello_parser_feed
  <2>2. u = 0 /\ h.method = UNSET
    BY <1>1 DEF HelloIs
  <2> QED
    BY <2>1, <2>2 DEF HelloIs, HelloParser, HelloStates
<1>2. CASE h.state = "hello_nmethods"
  <2>1. g = [h EXCEPT !.remaining = b,
                      !.state = IF b <= 0 THEN "hello_done" ELSE "hello_methods"]
    BY <1>2 DEF hello_parser_feed
  <2>2. u = 1 /\ h.method = UNSET /\ b = s[2]
    BY <1>2 DEF HelloIs
  <2>3. Methods(s, 2) = {} /\ Best({}) = UNSET
    BY DEF Methods, Best
  <2>4. /\ g \in HelloParser /\ g.remaining = b /\ g.method = UNSET
        /\ g.state = IF b <= 0 THEN "hello_done" ELSE "hello_methods"
    BY <2>1, <2>2 DEF HelloParser, HelloStates
  <2>5. b \in Nat /\ u + 1 = 2
    BY <2>2, Bytes
  <2>6. CASE b <= 0
    <3>1. b = 0
      BY <2>5, <2>6
    <3>2. s[2] = 0 /\ 2 + s[2] = 2 /\ g.state = "hello_done"
      BY <2>2, <2>4, <2>6, <3>1
    <3>3. u + 1 = 2 + s[2] /\ u + 1 >= 2
      BY <2>2, <3>2
    <3>4. g.method = Best(Methods(s, 2 + s[2]))
      BY <2>3, <2>4, <3>2, Zenon
    <3> QED
      BY <2>4, <3>2, <3>3, <3>4 DEF HelloIs
  <2>7. CASE ~(b <= 0)
    <3>1. g.state = "hello_methods" /\ b > 0
      BY <2>4, <2>5, <2>7
    <3>2. /\ u + 1 >= 2 /\ g.remaining > 0 /\ (u + 1) + g.remaining = 2 + s[2]
      BY <2>2, <2>4, <3>1
    <3>3. g.method = Best(Methods(s, u + 1))
      BY <2>3, <2>4, <2>5, Zenon
    <3> QED
      BY <2>4, <3>1, <3>2, <3>3 DEF HelloIs
  <2> QED
    BY <2>6, <2>7
<1>3. CASE h.state = "hello_methods"
  <2>1. g = [h EXCEPT !.method = on_hello_method(h.method, b),
                      !.remaining = h.remaining - 1,
                      !.state = IF h.remaining - 1 <= 0 THEN "hello_done" ELSE h.state]
    BY <1>3 DEF hello_parser_feed
  <2>2. /\ u >= 2 /\ h.remaining > 0 /\ u + h.remaining = 2 + s[2]
        /\ h.method = Best(Methods(s, u))
    BY <1>3 DEF HelloIs
  <2>3. on_hello_method(h.method, b) = Best(Methods(s, u + 1))
    BY <2>2, BestOfMore, MethodsGrow
  <2>4. h.remaining \in Nat /\ s[2] \in Nat /\ h.remaining - 1 \in Byte
    <3>1. s[2] \in Byte /\ h.remaining \in Byte
      BY <2>2 DEF HelloParser
    <3> QED
      BY <2>2, <3>1, Bytes
  <2>5. /\ g.state = IF h.remaining - 1 <= 0 THEN "hello_done" ELSE "hello_methods"
        /\ g.remaining = h.remaining - 1 /\ g.method = Best(Methods(s, u + 1))
        /\ g \in HelloParser
    <3>1. Best(Methods(s, u + 1)) \in Byte
      BY BestIsByte
    <3> QED
      BY <1>3, <2>1, <2>3, <2>4, <3>1 DEF HelloParser, HelloStates
  <2>6. CASE h.remaining - 1 <= 0
    <3>1. u + 1 = 2 + s[2] /\ g.state = "hello_done"
      BY <2>2, <2>4, <2>5, <2>6
    <3> QED
      BY <2>5, <3>1, <2>2 DEF HelloIs
  <2>7. CASE ~(h.remaining - 1 <= 0)
    <3>1. g.state = "hello_methods"
      BY <2>5, <2>7
    <3> QED
      BY <2>2, <2>4, <2>5, <2>7, <3>1 DEF HelloIs
  <2> QED
    BY <2>6, <2>7
<1> QED
  BY <1>1, <1>2, <1>3 DEF HelloParser, HelloStates, hello_is_done
-----------------------------------------------------------------------------
\* A sequence that is a part of the stream, and its next byte.
LEMMA PartGrows ==
  ASSUME NEW s, NEW a \in Nat, NEW b \in Byte,
         NEW t \in Seq(Byte), Part(t, s, a), b = s[a + Len(t)]
  PROVE  /\ Append(t, b) \in Seq(Byte) /\ Part(Append(t, b), s, a)
         /\ Len(Append(t, b)) = Len(t) + 1
<1>1. Append(t, b) \in Seq(Byte) /\ Len(Append(t, b)) = Len(t) + 1
  OBVIOUS
<1>2. ASSUME NEW k \in 1..(Len(t) + 1)
      PROVE  Append(t, b)[k] = s[a + k - 1]
  <2>1. CASE k = Len(t) + 1
    <3>1. a + k - 1 = a + Len(t)
      BY <2>1
    <3> QED
      BY <2>1, <3>1
  <2>2. CASE k # Len(t) + 1
    <3>1. k \in 1..Len(t)
      BY <2>2
    <3> QED
      BY <3>1 DEF Part
  <2> QED
    BY <2>1, <2>2
<1> QED
  BY <1>1, <1>2 DEF Part

\* Nothing is part of everything.
LEMMA PartOfNone == \A s, a : Part(<<>>, s, a)
BY DEF Part

\* request_parser_feed before the address: the fields follow each other.
LEMMA HeaderFeed ==
  ASSUME NEW s \in Seq(Byte), NEW u \in Nat, 2 <= u, u < Len(s),
         NEW r \in RequestParser, RequestIs(s, u, r), r.state \in Header,
         NEW b \in Byte, b = s[u + 1], NEW g, g = request_parser_feed(r, b)
  PROVE  g \in RequestParser /\ RequestIs(s, u + 1, g)
<1>1. s[2] \in Nat /\ Start(s) \in Nat
  <2>1. s[2] \in Byte
    OBVIOUS
  <2> QED
    BY <2>1, Bytes DEF Start
<1>2. HeaderIs(s, u, r)
  BY DEF RequestIs
<1>3. CASE r.state = "request_version"
  <2>1. g = [r EXCEPT !.state = IF b = 5 THEN "request_cmd"
                                ELSE "request_error_unsupported_version"]
    BY <1>3 DEF request_parser_feed, version
  <2>2. u + 1 = Start(s) /\ r.dest_addr = <<>> /\ r.dest_port = <<>>
    BY <1>1, <1>2, <1>3 DEF HeaderIs
  <2>3. b = s[Start(s)]
    BY <2>2
  <2> QED
    BY <2>1, <2>2, <2>3 DEF RequestIs, HeaderIs, RequestParser, RequestStates, Header, Body
<1>4. CASE r.state = "request_cmd"
  <2>1. g = [r EXCEPT !.cmd = b, !.state = "request_rsv"]
    BY <1>4 DEF request_parser_feed, cmd
  <2>2. u + 1 = Start(s) + 1 /\ r.dest_addr = <<>> /\ r.dest_port = <<>>
    BY <1>1, <1>2, <1>4 DEF HeaderIs
  <2>3. b = s[Start(s) + 1]
    BY <2>2
  <2> QED
    BY <2>1, <2>2, <2>3 DEF RequestIs, HeaderIs, RequestParser, RequestStates, Header, Body
<1>5. CASE r.state = "request_rsv"
  <2>1. g = [r EXCEPT !.state = "request_atype"]
    BY <1>5 DEF request_parser_feed, rsv
  <2>2. /\ u + 1 = Start(s) + 2 /\ r.dest_addr = <<>> /\ r.dest_port = <<>>
        /\ r.cmd = s[Start(s) + 1]
    BY <1>1, <1>2, <1>5 DEF HeaderIs
  <2> QED
    BY <2>1, <2>2 DEF RequestIs, HeaderIs, RequestParser, RequestStates, Header, Body
<1>6. CASE r.state = "request_atype"
  <2>1. g = atype(r, b)
    BY <1>6 DEF request_parser_feed
  <2>2. /\ u + 1 = Start(s) + 3 /\ r.dest_addr = <<>> /\ r.dest_port = <<>>
        /\ r.cmd = s[Start(s) + 1]
    BY <1>1, <1>2, <1>6 DEF HeaderIs
  <2>3. b = AtypOf(s)
    BY <2>2 DEF AtypOf
  <2>4. 0 \in Byte /\ 4 \in Byte /\ 16 \in Byte
    BY DEF Byte
  <2>5. Part(r.dest_addr, s, AddrStart(s)) /\ Part(r.dest_port, s, PortStart(s))
    BY <2>2, PartOfNone
  <2>6. CASE b = ipv4
    <3> DEFINE q == [r EXCEPT !.dest_addr_type = b]
    <3>1. g = [[q EXCEPT !.i = 0, !.n = 4] EXCEPT !.state = "request_dstaddr"]
      BY <2>1, <2>6 DEF atype, remaining_set, ipv4, ipv6, domain
    <3>2. AddrSize(s) = 4 /\ AddrStart(s) = Start(s) + 4
      BY <2>3, <2>6 DEF AddrSize, AddrStart, ipv4, domain
    <3>3. /\ g \in RequestParser /\ g.state = "request_dstaddr" /\ g.i = 0 /\ g.n = 4
          /\ g.cmd = r.cmd /\ g.dest_addr = <<>> /\ g.dest_port = <<>>
          /\ g.dest_addr_type = b
      BY <2>2, <2>4, <3>1 DEF remaining_set, RequestParser, RequestStates
    <3> QED
      BY <1>1, <2>2, <2>3, <2>5, <2>6, <3>2, <3>3
      DEF RequestIs, AddressIs, Header, Body, ipv4, domain
  <2>7. CASE b = ipv6
    <3> DEFINE q == [r EXCEPT !.dest_addr_type = b]
    <3>1. g = [[q EXCEPT !.i = 0, !.n = 16] EXCEPT !.state = "request_dstaddr"]
      BY <2>1, <2>7 DEF atype, remaining_set, ipv4, ipv6, domain
    <3>2. AddrSize(s) = 16 /\ AddrStart(s) = Start(s) + 4
      BY <2>3, <2>7 DEF AddrSize, AddrStart, ipv4, ipv6, domain
    <3>3. /\ g \in RequestParser /\ g.state = "request_dstaddr" /\ g.i = 0 /\ g.n = 16
          /\ g.cmd = r.cmd /\ g.dest_addr = <<>> /\ g.dest_port = <<>>
          /\ g.dest_addr_type = b
      BY <2>2, <2>4, <3>1 DEF remaining_set, RequestParser, RequestStates
    <3> QED
      BY <1>1, <2>2, <2>3, <2>5, <2>7, <3>2, <3>3
      DEF RequestIs, AddressIs, Header, Body, ipv6, domain
  <2>8. CASE b = domain
    <3>1. g = [r EXCEPT !.dest_addr_type = b, !.state = "request_dstaddr_fqdn"]
      BY <2>1, <2>8 DEF atype, RequestParser, ipv4, ipv6, domain
    <3>2. /\ g \in RequestParser /\ g.state = "request_dstaddr_fqdn"
          /\ g.cmd = r.cmd /\ g.dest_addr = <<>> /\ g.dest_port = <<>>
          /\ g.dest_addr_type = b
      BY <2>2, <3>1 DEF RequestParser, RequestStates
    <3> QED
      BY <1>1, <2>2, <2>3, <2>5, <2>8, <3>2 DEF RequestIs, AddressIs, Header, Body
  <2>9. CASE b \notin {ipv4, domain, ipv6}
    <3>1. g = [r EXCEPT !.dest_addr_type = b, !.state = "request_error_unsupported_atype"]
      BY <2>1, <2>9 DEF atype
    <3> QED
      BY <2>3, <2>9, <3>1 DEF RequestIs, Header, Body, RequestParser, RequestStates
  <2> QED
    BY <2>6, <2>7, <2>8, <2>9
<1> QED
  BY <1>3, <1>4, <1>5, <1>6 DEF Header

\* What a request parser past the address type says of the layout of s.
LEMMA Layout ==
  ASSUME NEW s \in Seq(Byte), 2 <= Len(s), AtypOf(s) \in {ipv4, domain, ipv6},
         AtypOf(s) = domain => Start(s) + 4 <= Len(s)
  PROVE  /\ Start(s) \in Nat /\ AddrStart(s) \in Nat
         /\ AddrSize(s) \in Nat /\ 1 <= AddrSize(s) /\ AddrSize(s) <= 255
         /\ PortStart(s) \in Nat /\ PortStart(s) = AddrStart(s) + AddrSize(s)
         /\ AtypOf(s) = domain => AddrStart(s) = Start(s) + 5
         /\ AtypOf(s) # domain => AddrStart(s) = Start(s) + 4
<1>1. s[2] \in Byte
  OBVIOUS
<1>2. s[2] \in Nat
  BY <1>1, Bytes
<1>3. Start(s) \in Nat /\ Start(s) >= 3
  BY <1>2 DEF Start
<1>4. AddrStart(s) \in Nat
  BY <1>3 DEF AddrStart
<1>5. AddrSize(s) \in Nat /\ 1 <= AddrSize(s) /\ AddrSize(s) <= 255
  <2>1. CASE AtypOf(s) = domain
    <3>1. s[Start(s) + 4] \in Byte
      BY <1>3, <2>1
    <3>2. s[Start(s) + 4] \in Nat /\ s[Start(s) + 4] <= 255
      BY <3>1, Bytes
    <3> QED
      BY <2>1, <3>2 DEF AddrSize, ipv4, ipv6, domain
  <2>2. CASE AtypOf(s) # domain
    BY <2>2 DEF AddrSize, ipv4, ipv6, domain
  <2> QED
    BY <2>1, <2>2
<1> QED
  BY <1>3, <1>4, <1>5 DEF PortStart, AddrStart

\* request_parser_feed takes the length of a name.
LEMMA NameFeed ==
  ASSUME NEW s \in Seq(Byte), NEW u \in Nat, 2 <= u, u < Len(s),
         NEW r \in RequestParser, RequestIs(s, u, r), r.state = "request_dstaddr_fqdn",
         NEW b \in Byte, b = s[u + 1], NEW g, g = request_parser_feed(r, b)
  PROVE  g \in RequestParser /\ RequestIs(s, u + 1, g)
<1>1. AddressIs(s, u, r)
  BY DEF RequestIs, Body
<1>2. /\ AtypOf(s) = domain /\ u = Start(s) + 3
      /\ r.dest_addr = <<>> /\ r.dest_port = <<>>
      /\ r.cmd = s[Start(s) + 1] /\ r.dest_addr_type = AtypOf(s)
  BY <1>1 DEF AddressIs
<1>3. s[2] \in Nat
  <2>1. s[2] \in Byte
    OBVIOUS
  <2> QED
    BY <2>1, Bytes
<1>4. u + 1 = Start(s) + 4 /\ Start(s) \in Nat
  BY <1>2, <1>3 DEF Start
<1>5. b = s[Start(s) + 4]
  BY <1>4
<1>6. /\ AddrStart(s) = Start(s) + 5 /\ 0 < AddrSize(s) /\ AddrSize(s) \in Nat
  BY <1>2, <1>4, Layout
<1>7. g = [remaining_set(r, b) EXCEPT !.state = "request_dstaddr"]
  BY DEF request_parser_feed, dstaddr_fqdn
<1>8. 0 \in Byte
  BY Bytes
<1>9. /\ g \in RequestParser /\ g.state = "request_dstaddr" /\ g.i = 0 /\ g.n = b
      /\ g.cmd = r.cmd /\ g.dest_addr = <<>> /\ g.dest_port = <<>>
      /\ g.dest_addr_type = r.dest_addr_type
  BY <1>2, <1>7, <1>8 DEF remaining_set, RequestParser, RequestStates
<1>10. Part(g.dest_addr, s, AddrStart(s)) /\ Part(g.dest_port, s, PortStart(s))
  BY <1>9, PartOfNone
<1>11. u + 1 = AddrStart(s) + g.i - 1
  BY <1>4, <1>6, <1>9
<1>12. AddressIs(s, u + 1, g)
  BY <1>2, <1>5, <1>6, <1>9, <1>10, <1>11 DEF AddressIs
<1> QED
  BY <1>9, <1>12 DEF RequestIs, Header, Body

\* request_parser_feed takes a byte of the address.
LEMMA AddressFeed ==
  ASSUME NEW s \in Seq(Byte), NEW u \in Nat, 2 <= u, u < Len(s),
         NEW r \in RequestParser, RequestIs(s, u, r), r.state = "request_dstaddr",
         NEW b \in Byte, b = s[u + 1], NEW g, g = request_parser_feed(r, b)
  PROVE  g \in RequestParser /\ RequestIs(s, u + 1, g)
<1>1. AddressIs(s, u, r)
  BY DEF RequestIs, Body
<1>2. /\ r.cmd = s[Start(s) + 1] /\ r.dest_addr_type = AtypOf(s)
      /\ AtypOf(s) \in {ipv4, domain, ipv6}
      /\ Part(r.dest_addr, s, AddrStart(s))
      /\ r.i < AddrSize(s) /\ r.i = Len(r.dest_addr)
      /\ r.n = IF AtypOf(s) = domain THEN s[Start(s) + 4] ELSE AddrSize(s)
      /\ u = AddrStart(s) + r.i - 1
      /\ r.dest_port = <<>>
  BY <1>1 DEF AddressIs
<1>3. r.i \in Nat /\ r.n \in Nat /\ r.dest_addr \in Seq(Byte) /\ r.i \in Byte
  BY Bytes DEF RequestParser
<1>4. s[2] \in Nat /\ Start(s) \in Nat
  <2>1. s[2] \in Byte
    OBVIOUS
  <2> QED
    BY <2>1, Bytes DEF Start
<1>5. AtypOf(s) = domain => Start(s) + 4 <= Len(s)
  <2> SUFFICES ASSUME AtypOf(s) = domain
               PROVE  Start(s) + 4 <= Len(s)
    OBVIOUS
  <2>1. AddrStart(s) = Start(s) + 5
    BY DEF AddrStart
  <2> QED
    BY <1>2, <1>3, <1>4, <2>1
<1>6. /\ AddrStart(s) \in Nat /\ AddrSize(s) \in Nat
      /\ 1 <= AddrSize(s) /\ AddrSize(s) <= 255
      /\ PortStart(s) \in Nat /\ PortStart(s) = AddrStart(s) + AddrSize(s)
  BY <1>2, <1>5, Layout
<1>7. PICK A \in Nat, L \in Nat, P \in Nat, i \in Nat :
        A = AddrStart(s) /\ L = AddrSize(s) /\ P = PortStart(s) /\ i = r.i
  BY <1>3, <1>6
<1> DEFINE t == Append(r.dest_addr, b)
           j == i + 1
<1>8. /\ i < L /\ L <= 255 /\ u = A + i - 1 /\ P = A + L
      /\ i = Len(r.dest_addr)
  BY <1>2, <1>6, <1>7
<1>9. /\ t \in Seq(Byte) /\ Part(t, s, AddrStart(s)) /\ Len(t) = j
      /\ j \in Byte
  <2>0. PICK d \in Seq(Byte) : d = r.dest_addr
    BY <1>3
  <2>1. Part(d, s, A) /\ u + 1 = A + Len(d)
    BY <1>2, <1>7, <1>8, <2>0
  <2>4. b = s[A + Len(d)]
    BY <2>1
  <2>2. Part(Append(d, b), s, A) /\ Len(Append(d, b)) = Len(d) + 1 /\ Append(d, b) \in Seq(Byte)
    BY <2>1, <2>4, PartGrows
  <2>3. j \in Byte
    BY <1>8, Bytes
  <2> QED
    BY <1>7, <1>8, <2>0, <2>2, <2>3
<1>10. PICK q : q = [r EXCEPT !.dest_addr = Append(@, b), !.i = @ + 1]
  OBVIOUS
<1>11. g = IF remaining_is_done(q)
           THEN [remaining_set(q, 2) EXCEPT !.state = "request_dstport"]
           ELSE q
  <2>1. g = dstaddr(r, b)
    BY DEF request_parser_feed
  <2> QED
    BY <1>7, <1>10, <2>1 DEF dstaddr
<1>17. q = [r EXCEPT !.dest_addr = t, !.i = j]
  BY <1>7, <1>10
<1> HIDE DEF t, j
<1>12. /\ q \in RequestParser /\ q.dest_addr = t /\ q.i = j /\ q.n = r.n
       /\ q.state = "request_dstaddr" /\ q.dest_port = <<>>
       /\ q.cmd = r.cmd /\ q.dest_addr_type = r.dest_addr_type
  BY <1>2, <1>9, <1>17 DEF RequestParser
<1>13. r.n = L \/ (r.n = 0 /\ L = 1)
  <2>1. CASE AtypOf(s) = domain
    BY <1>2, <1>7, <2>1 DEF AddrSize, ipv4, ipv6, domain
  <2>2. CASE AtypOf(s) # domain
    BY <1>2, <1>7, <2>2
  <2> QED
    BY <2>1, <2>2
<1>14. Part(<<>>, s, PortStart(s))
  BY PartOfNone
<1>15. CASE remaining_is_done(q)
  <2>1. j >= r.n
    BY <1>12, <1>15 DEF remaining_is_done
  <2>2. j = L
    BY <1>3, <1>8, <1>13, <2>1 DEF j
  <2>3. 0 \in Byte /\ 2 \in Byte
    BY Bytes
  <2>4. /\ g \in RequestParser /\ g.state = "request_dstport" /\ g.i = 0 /\ g.n = 2
        /\ g.cmd = r.cmd /\ g.dest_addr = t /\ g.dest_port = <<>>
        /\ g.dest_addr_type = r.dest_addr_type
    BY <1>11, <1>12, <1>15, <2>3 DEF remaining_set, RequestParser, RequestStates
  <2>5. u + 1 = P + 0 - 1
    BY <1>8, <2>2 DEF j
  <2>6. u + 1 = PortStart(s) + g.i - 1 /\ Len(g.dest_addr) = AddrSize(s)
    BY <1>7, <1>9, <2>2, <2>4, <2>5
  <2>7. AddressIs(s, u + 1, g)
    BY <1>2, <1>9, <1>14, <2>4, <2>6 DEF AddressIs
  <2> QED
    BY <2>4, <2>7 DEF RequestIs, Header, Body
<1>16. CASE ~remaining_is_done(q)
  <2>1. ~(j >= r.n)
    BY <1>12, <1>16 DEF remaining_is_done
  <2>2. j < L
    BY <1>3, <1>8, <1>13, <2>1 DEF j
  <2>3. u + 1 = A + j - 1
    BY <1>8 DEF j
  <2>4. /\ g = q /\ q.i < AddrSize(s) /\ q.i = Len(q.dest_addr)
        /\ u + 1 = AddrStart(s) + q.i - 1
    BY <1>7, <1>9, <1>11, <1>12, <1>16, <2>2, <2>3
  <2>5. AddressIs(s, u + 1, q)
    BY <1>2, <1>9, <1>12, <1>14, <2>4 DEF AddressIs
  <2> QED
    BY <1>12, <2>4, <2>5 DEF RequestIs, Header, Body
<1> QED
  BY <1>15, <1>16

\* request_parser_feed takes a byte of the port.
LEMMA PortFeed ==
  ASSUME NEW s \in Seq(Byte), NEW u \in Nat, 2 <= u, u < Len(s),
         NEW r \in RequestParser, RequestIs(s, u, r), r.state = "request_dstport",
         NEW b \in Byte, b = s[u + 1], NEW g, g = request_parser_feed(r, b)
  PROVE  g \in RequestParser /\ RequestIs(s, u + 1, g)
<1>1. AddressIs(s, u, r)
  BY DEF RequestIs, Body
<1>2. /\ r.cmd = s[Start(s) + 1] /\ r.dest_addr_type = AtypOf(s)
      /\ AtypOf(s) \in {ipv4, domain, ipv6}
      /\ Part(r.dest_addr, s, AddrStart(s))
      /\ Part(r.dest_port, s, PortStart(s))
      /\ r.i < 2 /\ r.n = 2 /\ r.i = Len(r.dest_port)
      /\ Len(r.dest_addr) = AddrSize(s)
      /\ u = PortStart(s) + r.i - 1
  BY <1>1 DEF AddressIs
<1>3. /\ r.i \in Nat /\ r.dest_addr \in Seq(Byte) /\ r.dest_port \in Seq(Byte)
  BY Bytes DEF RequestParser
<1>4. Start(s) \in Nat
  <2>1. s[2] \in Byte
    OBVIOUS
  <2> QED
    BY <2>1, Bytes DEF Start
<1>5. AtypOf(s) = domain => Start(s) + 4 <= Len(s)
  <2> SUFFICES ASSUME AtypOf(s) = domain
               PROVE  Start(s) + 4 <= Len(s)
    OBVIOUS
  <2>1. PICK L \in Nat : L = AddrSize(s)
    BY <1>2, <1>3
  <2>2. PortStart(s) = Start(s) + 5 + L
    BY <2>1 DEF PortStart, AddrStart
  <2> QED
    BY <1>2, <1>3, <1>4, <2>2
<1>6. PICK P \in Nat, i \in Nat : P = PortStart(s) /\ i = r.i
  <2>1. 2 <= Len(s) /\ AtypOf(s) \in {ipv4, domain, ipv6}
    BY <1>2
  <2>2. PortStart(s) \in Nat
    BY <1>5, <2>1, Layout
  <2> QED
    BY <1>3, <2>2
<1>7. i < 2 /\ u + 1 = P + i /\ i = Len(r.dest_port)
  BY <1>2, <1>6
<1> DEFINE t == Append(r.dest_port, b)
           j == i + 1
<1>8. /\ t \in Seq(Byte) /\ Part(t, s, PortStart(s)) /\ Len(t) = j
      /\ j \in Byte
  <2>1. PICK d \in Seq(Byte) : d = r.dest_port
    BY <1>3
  <2>2. Part(d, s, P) /\ u + 1 = P + Len(d)
    BY <1>2, <1>6, <1>7, <2>1
  <2>3. b = s[P + Len(d)]
    BY <2>2
  <2>4. Part(Append(d, b), s, P) /\ Len(Append(d, b)) = Len(d) + 1 /\ Append(d, b) \in Seq(Byte)
    BY <2>2, <2>3, PartGrows
  <2>5. j \in Byte
    BY <1>7, Bytes
  <2> QED
    BY <1>6, <1>7, <2>1, <2>4, <2>5
<1>9. PICK q : q = [r EXCEPT !.dest_port = Append(@, b), !.i = @ + 1]
  OBVIOUS
<1>10. g = IF remaining_is_done(q) THEN [q EXCEPT !.state = "request_done"] ELSE q
  <2>1. g = dstport(r, b)
    BY DEF request_parser_feed
  <2> QED
    BY <1>9, <2>1 DEF dstport
<1>11. q = [r EXCEPT !.dest_port = t, !.i = j]
  BY <1>6, <1>9
<1> HIDE DEF t, j
<1>12. /\ q \in RequestParser /\ q.dest_addr = r.dest_addr /\ q.i = j /\ q.n = 2
       /\ q.state = "request_dstport" /\ q.dest_port = t
       /\ q.cmd = r.cmd /\ q.dest_addr_type = r.dest_addr_type
  BY <1>2, <1>8, <1>11 DEF RequestParser
<1>13. CASE remaining_is_done(q)
  <2>1. j = 2
    BY <1>7, <1>12, <1>13 DEF remaining_is_done, j
  <2>2. u + 1 = P + 1
    BY <1>7, <2>1 DEF j
  <2>3. u + 1 = PortStart(s) + 1 /\ Len(t) = 2
    BY <1>6, <1>8, <2>1, <2>2
  <2>4. /\ g \in RequestParser /\ g.state = "request_done"
        /\ g.cmd = r.cmd /\ g.dest_addr = r.dest_addr /\ g.dest_port = t
        /\ g.dest_addr_type = r.dest_addr_type
    BY <1>10, <1>12, <1>13 DEF RequestParser, RequestStates
  <2>5. AddressIs(s, u + 1, g)
    BY <1>2, <1>8, <2>3, <2>4 DEF AddressIs
  <2> QED
    BY <2>4, <2>5 DEF RequestIs, Header, Body
<1>14. CASE ~remaining_is_done(q)
  <2>1. j < 2
    BY <1>7, <1>12, <1>14 DEF remaining_is_done, j
  <2>2. u + 1 = P + j - 1
    BY <1>7 DEF j
  <2>3. g = q /\ u + 1 = PortStart(s) + q.i - 1 /\ q.i < 2 /\ q.i = Len(q.dest_port)
    BY <1>6, <1>8, <1>10, <1>12, <1>14, <2>1, <2>2
  <2>4. AddressIs(s, u + 1, q)
    BY <1>2, <1>8, <1>12, <2>3 DEF AddressIs
  <2> QED
    BY <1>12, <2>3, <2>4 DEF RequestIs, Header, Body
<1> QED
  BY <1>13, <1>14

\* request_parser_feed keeps the request parser where the stream says.
LEMMA RequestFeed ==
  ASSUME NEW s \in Seq(Byte), NEW u \in Nat, 2 <= u, u < Len(s),
         NEW r \in RequestParser, RequestIs(s, u, r), ~request_is_done(r)
  PROVE  /\ request_parser_feed(r, s[u + 1]) \in RequestParser
         /\ RequestIs(s, u + 1, request_parser_feed(r, s[u + 1]))
<1>1. s[u + 1] \in Byte
  OBVIOUS
<1>2. r.state \in Header \cup {"request_dstaddr_fqdn", "request_dstaddr", "request_dstport"}
  BY DEF RequestParser, RequestStates, request_is_done, request_errored, Header
<1> QED
  BY <1>1, <1>2, HeaderFeed, NameFeed, AddressFeed, PortFeed
-----------------------------------------------------------------------------
Types ==
  /\ stream \in Seq(Byte) /\ stream \in Streams
  /\ got \in Nat /\ got <= Len(stream) /\ used \in Nat /\ used <= got
  /\ input \in [read : Nat, write : Nat]
  /\ sent \in 0..2 /\ open \in BOOLEAN /\ parsing \in BOOLEAN
  /\ interest \in {"OP_READ", "OP_WRITE"}
  /\ st \in {"HELLO_READ", "HELLO_WRITE", "REQUEST_READ", "AUTH_READ", "PROCESS", "ERROR"}
  /\ hp \in HelloParser /\ rp \in RequestParser

\* The input buffer holds the bytes got and not used, and is rewound when there
\* are none.
Holds ==
  /\ input.read <= input.write /\ input.write <= BUFFER_SIZE
  /\ input.write - input.read = got - used
  /\ used = got => input.write = 0

\* The hello is read: what was offered is settled.
Settled ==
  /\ hp.state = "hello_done" /\ used >= 2
  /\ hp.method = Best(Methods(stream, 2 + stream[2]))

\* What each state of the session's state machine knows.
InHello ==
  /\ st = "HELLO_READ" =>
       /\ HelloIs(stream, used, hp) /\ rp = request_parser_init /\ sent = 0
       /\ ~parsing => used = got /\ ~hello_is_done(hp)
  /\ st = "HELLO_WRITE" =>
       /\ Settled /\ used = 2 + stream[2]
       /\ ~parsing /\ sent < 2 /\ rp = request_parser_init

InRequest ==
  /\ st \in {"AUTH_READ", "REQUEST_READ", "PROCESS"} =>
       Settled /\ sent = 2 /\ RequestIs(stream, used, rp)
  /\ st = "AUTH_READ" => hp.method = METHOD_USERNAME_PASSWORD
  /\ st = "REQUEST_READ" /\ ~parsing =>
       ~request_is_done(rp) /\ (used = got \/ rp.state = "request_version")
  /\ st = "PROCESS" => rp.state = "request_done"

\* The inductive invariant.
Inv == Types /\ Holds /\ InHello /\ InRequest /\ RefusedOnlyForCause

\* The buffer after a recv, and after a byte was read from it.
LEMMA BufferMoves ==
  ASSUME Inv
  PROVE  /\ \A n \in Nat :
              /\ buffer_write_adv(input, n) \in [read : Nat, write : Nat]
              /\ buffer_write_adv(input, n).read = input.read
              /\ buffer_write_adv(input, n).write = input.write + n
         /\ buffer_can_read(input) =>
              LET b == buffer_read_adv(input, 1)
              IN  /\ b \in [read : Nat, write : Nat]
                  /\ b.read <= b.write /\ b.write <= BUFFER_SIZE
                  /\ b.write - b.read = input.write - input.read - 1
                  /\ b.write = b.read => b.write = 0
         /\ input.read \in Nat /\ input.write \in Nat
         /\ buffer_can_read(input) <=> used < got
<1>1. input \in [read : Nat, write : Nat] /\ input.read \in Nat /\ input.write \in Nat
  BY DEF Inv, Types
<1>2. /\ input.read <= input.write /\ input.write <= BUFFER_SIZE
      /\ input.write - input.read = got - used /\ got \in Nat /\ used \in Nat
      /\ used <= got
  BY DEF Inv, Holds, Types
<1>3. buffer_can_read(input) <=> used < got
  BY <1>1, <1>2 DEF buffer_can_read
<1>4. ASSUME NEW n \in Nat
      PROVE  /\ buffer_write_adv(input, n) \in [read : Nat, write : Nat]
             /\ buffer_write_adv(input, n).read = input.read
             /\ buffer_write_adv(input, n).write = input.write + n
  BY <1>1 DEF buffer_write_adv
<1>5. ASSUME buffer_can_read(input), NEW b, b = buffer_read_adv(input, 1)
      PROVE  /\ b \in [read : Nat, write : Nat]
             /\ b.read <= b.write /\ b.write <= BUFFER_SIZE
             /\ b.write - b.read = input.write - input.read - 1
             /\ b.write = b.read => b.write = 0
  <2>1. input.write - input.read > 0
    BY <1>5 DEF buffer_can_read
  <2> DEFINE m == [input EXCEPT !.read = @ + 1]
  <2>2. m \in [read : Nat, write : Nat] /\ m.read = input.read + 1 /\ m.write = input.write
    BY <1>1
  <2>3. b = IF m.read = m.write THEN buffer_reset(m) ELSE m
    BY <1>5 DEF buffer_read_adv
  <2> HIDE DEF m
  <2>4. CASE m.read = m.write
    <3>1. b = [m EXCEPT !.read = 0, !.write = 0]
      BY <2>3, <2>4 DEF buffer_reset
    <3>2. b \in [read : Nat, write : Nat] /\ b.read = 0 /\ b.write = 0
      BY <2>2, <3>1
    <3> QED
      BY <1>1, <2>2, <2>4, <3>2, HandshakeAssumption
  <2>5. CASE m.read # m.write
    BY <1>1, <1>2, <2>1, <2>2, <2>3, <2>5
  <2> QED
    BY <2>4, <2>5
<1> QED
  BY <1>1, <1>3, <1>4, <1>5

\* A session that has no error has none to explain.
LEMMA NoError ==
  ASSUME Types', Holds', InHello', InRequest', st' # "ERROR"
  PROVE  Inv'
BY DEF Inv, RefusedOnlyForCause

\* A recv fills what room there is.
LEMMA RecvStep ==
  ASSUME Inv, NEW n \in 1..BUFFER_SIZE, Recv(n)
  PROVE  Inv'
<1>1. /\ st \in {"HELLO_READ", "REQUEST_READ"} /\ ~parsing
      /\ got' = got + n /\ input' = buffer_write_adv(input, n) /\ parsing' = TRUE
      /\ stream' = stream /\ used' = used /\ sent' = sent /\ st' = st
      /\ interest' = interest /\ hp' = hp /\ rp' = rp /\ open' = open
  BY DEF Recv, Reading
<1>2. /\ got \in Nat /\ used \in Nat /\ used <= got /\ Len(stream) \in Nat
      /\ got <= Len(stream) /\ n \in Nat /\ n >= 1 /\ BUFFER_SIZE \in Nat
      /\ Len(stream) - got \in Nat /\ input.write <= BUFFER_SIZE
      /\ input.read \in Nat /\ input.write \in Nat
      /\ input.read <= input.write /\ input.write - input.read = got - used
  <2>1. stream \in Seq(Byte) /\ got \in Nat /\ used \in Nat /\ used <= got /\ got <= Len(stream)
    BY DEF Inv, Types
  <2>2. Len(stream) \in Nat
    BY <2>1
  <2> QED
    BY <2>1, <2>2, BufferMoves, HandshakeAssumption DEF Inv, Holds
<1>3. n <= BUFFER_SIZE - input.write /\ n <= Len(stream) - got
  <2> DEFINE T == {buffer_write_room(input, BUFFER_SIZE), Len(stream) - got}
  <2>1. buffer_write_room(input, BUFFER_SIZE) = BUFFER_SIZE - input.write
    BY DEF buffer_write_room
  <2>2. T \subseteq Nat /\ T # {}
    BY <1>2, <2>1
  <2>3. n \in 1..Min(T)
    BY DEF Recv
  <2> HIDE DEF T
  <2>4. Min(T) \in T /\ \A k \in T : Min(T) <= k
    BY <2>2, MinIsLeast
  <2>5. Min(T) \in Nat /\ n <= Min(T)
    <3>1. PICK k \in Nat : k = Min(T)
      BY <2>2, <2>4
    <3>2. n \in 1..k
      BY <2>3, <3>1, Zenon
    <3> QED
      BY <3>1, <3>2
  <2>6. Min(T) <= BUFFER_SIZE - input.write /\ Min(T) <= Len(stream) - got
    BY <2>1, <2>4 DEF T
  <2> QED
    BY <1>2, <2>5, <2>6
<1>4. /\ input' \in [read : Nat, write : Nat]
      /\ input'.read = input.read /\ input'.write = input.write + n
  BY <1>1, <1>2, BufferMoves
<1>5. Types'
  <2>1. got' \in Nat /\ got' <= Len(stream) /\ used <= got'
    BY <1>1, <1>2, <1>3
  <2> QED
    BY <1>1, <1>4, <2>1 DEF Inv, Types
<1>6. Holds'
  <2>1. input.read <= input.write + n /\ input.write + n <= BUFFER_SIZE
    BY <1>2, <1>3
  <2>2. (input.write + n) - input.read = (got + n) - used /\ used # got + n
    BY <1>2
  <2> QED
    BY <1>1, <1>4, <2>1, <2>2 DEF Holds
<1>7. InHello'
  BY <1>1 DEF Inv, InHello
<1>8. InRequest'
  BY <1>1 DEF Inv, InRequest, Settled
<1>9. st' # "ERROR"
  BY <1>1
<1> QED
  BY <1>5, <1>6, <1>7, <1>8, <1>9, NoError

\* The counts and the buffer after one byte was consumed.
LEMMA ByteStep ==
  ASSUME Inv, buffer_can_read(input),
         input' = buffer_read_adv(input, 1), used' = used + 1,
         UNCHANGED <<stream, got>>
  PROVE  /\ input' \in [read : Nat, write : Nat] /\ Holds'
         /\ used' \in Nat /\ used' <= got' /\ used < Len(stream)
<1>1. /\ got \in Nat /\ used \in Nat /\ Len(stream) \in Nat /\ got <= Len(stream)
  BY DEF Inv, Types
<1>2. used < got /\ input.read \in Nat /\ input.write \in Nat
  BY BufferMoves
<1>3. input.write - input.read = got - used
  BY DEF Inv, Holds
<1>4. /\ input' \in [read : Nat, write : Nat]
      /\ input'.read <= input'.write /\ input'.write <= BUFFER_SIZE
      /\ input'.write - input'.read = input.write - input.read - 1
      /\ input'.write = input'.read => input'.write = 0
  BY BufferMoves
<1>5. input'.read \in Nat /\ input'.write \in Nat
  BY <1>4
<1>6. Holds'
  BY <1>1, <1>2, <1>3, <1>4, <1>5 DEF Holds
<1> QED
  BY <1>1, <1>2, <1>4, <1>6

\* hello_consume: a byte goes to the hello parser.
LEMMA HelloConsumeStep ==
  ASSUME Inv, hello_consume
  PROVE  Inv'
<1>1. /\ parsing /\ st = "HELLO_READ" /\ ~hello_is_done(hp)
      /\ buffer_can_read(input) /\ input' = buffer_read_adv(input, 1)
      /\ used' = used + 1 /\ hp' = hello_parser_feed(hp, stream[used + 1])
      /\ stream' = stream /\ got' = got /\ sent' = sent /\ st' = st
      /\ interest' = interest /\ rp' = rp /\ parsing' = parsing /\ open' = open
  BY DEF hello_consume
<1>2. /\ input' \in [read : Nat, write : Nat] /\ Holds'
      /\ used' \in Nat /\ used' <= got' /\ used < Len(stream)
  BY <1>1, ByteStep
<1>3. /\ stream \in Seq(Byte) /\ used \in Nat /\ hp \in HelloParser
      /\ HelloIs(stream, used, hp)
  BY <1>1 DEF Inv, Types, InHello
<1>4. hp' \in HelloParser /\ HelloIs(stream', used', hp')
  BY <1>1, <1>2, <1>3, HelloFeed
<1>5. Types'
  BY <1>1, <1>2, <1>4 DEF Inv, Types
<1>6. InHello'
  BY <1>1, <1>4 DEF Inv, InHello
<1>7. InRequest' /\ st' # "ERROR"
  BY <1>1 DEF InRequest
<1> QED
  BY <1>2, <1>5, <1>6, <1>7, NoError

\* request_consume: a byte goes to the request parser.
LEMMA RequestConsumeStep ==
  ASSUME Inv, request_consume
  PROVE  Inv'
<1>1. /\ parsing /\ st = "REQUEST_READ" /\ ~request_is_done(rp)
      /\ buffer_can_read(input) /\ input' = buffer_read_adv(input, 1)
      /\ used' = used + 1 /\ rp' = request_parser_feed(rp, stream[used + 1])
      /\ stream' = stream /\ got' = got /\ sent' = sent /\ st' = st
      /\ interest' = interest /\ hp' = hp /\ parsing' = parsing /\ open' = open
  BY DEF request_consume
<1>2. /\ input' \in [read : Nat, write : Nat] /\ Holds'
      /\ used' \in Nat /\ used' <= got' /\ used < Len(stream)
  BY <1>1, ByteStep
<1>3. /\ stream \in Seq(Byte) /\ used \in Nat /\ rp \in RequestParser
      /\ Settled /\ sent = 2 /\ used >= 2 /\ RequestIs(stream, used, rp)
  BY <1>1 DEF Inv, Types, InRequest, Settled
<1>4. rp' \in RequestParser /\ RequestIs(stream', used', rp')
  <2>1. 2 <= used
    BY <1>3
  <2> QED
    BY <1>1, <1>2, <1>3, <2>1, RequestFeed
<1>5. Types'
  BY <1>1, <1>2, <1>4 DEF Inv, Types
<1>6. InHello' /\ st' # "ERROR"
  BY <1>1 DEF InHello
<1>7. InRequest'
  <2>1. Settled'
    <3>1. used' >= 2
      BY <1>1, <1>3
    <3> QED
      BY <1>1, <1>3, <3>1 DEF Settled
  <2> QED
    BY <1>1, <1>3, <1>4, <2>1 DEF InRequest
<1> QED
  BY <1>2, <1>5, <1>6, <1>7, NoError

\* hello_read after the loop.
LEMMA HelloReadStep ==
  ASSUME Inv, hello_read
  PROVE  Inv'
<1>1. /\ parsing /\ st = "HELLO_READ" /\ (hello_is_done(hp) \/ ~buffer_can_read(input))
      /\ interest' = IF hello_is_done(hp) THEN "OP_WRITE" ELSE interest
      /\ st' = IF hello_errored(hp)
                    \/ (hello_is_done(hp) /\ hp.method = METHOD_NO_ACCEPTABLE_METHODS)
               THEN "ERROR"
               ELSE IF hello_is_done(hp) THEN "HELLO_WRITE" ELSE "HELLO_READ"
      /\ parsing' = FALSE
      /\ stream' = stream /\ got' = got /\ used' = used /\ input' = input /\ sent' = sent
      /\ hp' = hp /\ rp' = rp /\ open' = open
  BY DEF hello_read
<1>2. /\ HelloIs(stream, used, hp) /\ rp = request_parser_init
  BY <1>1 DEF Inv, InHello
<1>3. Types'
  BY <1>1 DEF Inv, Types
<1>4. Holds'
  BY <1>1 DEF Inv, Holds
<1>5. hp \in HelloParser /\ got \in Nat /\ used \in Nat /\ used <= got
  BY DEF Inv, Types
<1>6. CASE hello_errored(hp)
  <2>1. st' = "ERROR" /\ hp.state = "hello_error_unsupported_version" /\ stream[1] # 5
    BY <1>1, <1>2, <1>6 DEF hello_errored, HelloIs
  <2>2. RefusedOnlyForCause'
    BY <1>1, <2>1 DEF RefusedOnlyForCause
  <2> QED
    BY <1>3, <1>4, <2>1, <2>2 DEF Inv, InHello, InRequest
<1>7. CASE hello_is_done(hp) /\ ~hello_errored(hp)
  <2>1. hp.state = "hello_done"
    BY <1>7 DEF hello_is_done, hello_errored
  <2>2. Settled /\ used = 2 + stream[2]
    BY <1>2, <2>1 DEF HelloIs, Settled
  <2>3. hp.method # METHOD_NO_ACCEPTABLE_METHODS
    BY <2>2 DEF Settled, Best, METHOD_NO_ACCEPTABLE_METHODS, METHOD_USERNAME_PASSWORD,
                METHOD_NO_AUTHENTICATION_REQUIRED, UNSET
  <2>4. st' = "HELLO_WRITE"
    BY <1>1, <1>7, <2>3
  <2>5. sent < 2
    BY <1>1 DEF Inv, InHello
  <2>6. InHello'
    BY <1>1, <1>2, <2>2, <2>4, <2>5 DEF InHello, Settled
  <2> QED
    BY <1>3, <1>4, <2>4, <2>6, NoError DEF InRequest
<1>8. CASE ~hello_is_done(hp)
  <2>1. ~hello_errored(hp)
    BY <1>8 DEF hello_is_done, hello_errored
  <2>2. st' = "HELLO_READ" /\ ~buffer_can_read(input)
    BY <1>1, <1>8, <2>1
  <2>3. used = got
    BY <1>5, <2>2, BufferMoves
  <2>4. InHello'
    BY <1>1, <1>2, <1>8, <2>2, <2>3 DEF Inv, InHello
  <2> QED
    BY <1>3, <1>4, <2>2, <2>4, NoError DEF InRequest
<1> QED
  BY <1>6, <1>7, <1>8

\* request_read after the loop.
LEMMA RequestReadStep ==
  ASSUME Inv, request_read
  PROVE  Inv'
<1>1. /\ parsing /\ st = "REQUEST_READ" /\ (request_is_done(rp) \/ ~buffer_can_read(input))
      /\ st' = IF request_errored(rp) THEN "ERROR"
               ELSE IF request_is_done(rp) THEN "PROCESS" ELSE "REQUEST_READ"
      /\ parsing' = FALSE /\ interest' = interest
      /\ stream' = stream /\ got' = got /\ used' = used /\ input' = input /\ sent' = sent
      /\ hp' = hp /\ rp' = rp /\ open' = open
  BY DEF request_read
<1>2. Settled /\ sent = 2 /\ RequestIs(stream, used, rp)
  BY <1>1 DEF Inv, InRequest
<1>3. Types'
  BY <1>1 DEF Inv, Types
<1>4. Holds'
  BY <1>1 DEF Inv, Holds
<1>5. got \in Nat /\ used \in Nat /\ used <= got
  BY DEF Inv, Types
<1>6. Settled'
  BY <1>1, <1>2 DEF Settled
<1>7. CASE request_errored(rp)
  <2>1. st' = "ERROR"
    BY <1>1, <1>7
  <2>2. RefusedOnlyForCause'
    BY <1>1, <1>2, <1>7
    DEF RefusedOnlyForCause, request_errored, RequestIs, RequestAt, Atyp, Start, AtypOf
  <2> QED
    BY <1>3, <1>4, <2>1, <2>2 DEF Inv, InHello, InRequest
<1>8. CASE request_is_done(rp) /\ ~request_errored(rp)
  <2>1. st' = "PROCESS" /\ rp.state = "request_done"
    BY <1>1, <1>8 DEF request_is_done
  <2>2. InRequest'
    BY <1>1, <1>2, <1>6, <2>1 DEF InRequest
  <2> QED
    BY <1>3, <1>4, <2>1, <2>2, NoError DEF InHello
<1>9. CASE ~request_is_done(rp)
  <2>1. ~request_errored(rp)
    BY <1>9 DEF request_is_done
  <2>2. st' = "REQUEST_READ" /\ ~buffer_can_read(input)
    BY <1>1, <1>9, <2>1
  <2>3. used = got
    BY <1>5, <2>2, BufferMoves
  <2>4. InRequest'
    BY <1>1, <1>2, <1>6, <1>9, <2>2, <2>3 DEF InRequest
  <2> QED
    BY <1>3, <1>4, <2>2, <2>4, NoError DEF InHello
<1> QED
  BY <1>7, <1>8, <1>9

\* recv returns 0: there is room for a byte unless a request came with the hello.
LEMMA RecvEndsStep ==
  ASSUME Inv, RecvEnds
  PROVE  Inv'
<1>1. /\ st \in {"HELLO_READ", "REQUEST_READ"} /\ ~parsing
      /\ ~open \/ buffer_write_room(input, BUFFER_SIZE) = 0
      /\ st' = "ERROR"
      /\ stream' = stream /\ got' = got /\ used' = used /\ input' = input /\ sent' = sent
      /\ interest' = interest /\ hp' = hp /\ rp' = rp /\ parsing' = parsing /\ open' = open
  BY DEF RecvEnds, Reading
<1>2. Types' /\ Holds' /\ InHello' /\ InRequest'
  BY <1>1 DEF Inv, Types, Holds, InHello, InRequest
<1>3. CASE ~open
  BY <1>1, <1>2, <1>3 DEF Inv, RefusedOnlyForCause
<1>4. CASE open
  <2>1. BUFFER_SIZE - input.write = 0 /\ BUFFER_SIZE \in Nat /\ BUFFER_SIZE # 0
    BY <1>1, <1>4, HandshakeAssumption DEF buffer_write_room
  <2>2. input.read \in Nat /\ input.write \in Nat
    BY BufferMoves
  <2>3. used # got /\ input.write = BUFFER_SIZE
    BY <2>1, <2>2 DEF Inv, Holds
  <2>4. st = "REQUEST_READ"
    BY <1>1, <2>3 DEF Inv, InHello
  <2>5. rp.state = "request_version" /\ sent = 2 /\ RequestIs(stream, used, rp)
    BY <1>1, <2>3, <2>4 DEF Inv, InRequest
  <2>6. used = Start(stream) - 1
    BY <2>5 DEF RequestIs, Header, HeaderIs
  <2>7. got - used = BUFFER_SIZE - input.read
    BY <2>3 DEF Inv, Holds
  <2>8. RefusedOnlyForCause'
    BY <1>1, <2>5, <2>6, <2>7 DEF RefusedOnlyForCause, RequestAt, Start
  <2> QED
    BY <1>2, <2>8 DEF Inv
<1>5. open \in BOOLEAN
  BY DEF Inv, Types
<1> QED
  BY <1>3, <1>4, <1>5

\* The request parser starts behind the hello.
LEMMA RequestStarts ==
  ASSUME Inv, Settled, used = 2 + stream[2]
  PROVE  request_parser_init \in RequestParser /\ RequestIs(stream, used, request_parser_init)
<1>1. 0 \in Byte
  BY Bytes
<1>2. request_parser_init \in RequestParser
  BY <1>1 DEF request_parser_init, RequestParser, RequestStates
<1>3. used = Start(stream) - 1
  <2>1. stream \in Seq(Byte) /\ 2 <= used /\ used <= Len(stream)
    BY DEF Inv, Types, Settled
  <2>2. stream[2] \in Byte
    BY <2>1 DEF Inv, Types
  <2> QED
    BY <2>2, Bytes DEF Start
<1> QED
  BY <1>2, <1>3 DEF request_parser_init, RequestIs, Header, HeaderIs, Body

\* hello_write: when both bytes are out the request is read, or the process
\* aborts in jump.
LEMMA HelloWriteStep ==
  ASSUME Inv, NEW n \in 1..2, hello_write(n)
  PROVE  Inv'
<1>1. /\ st = "HELLO_WRITE" /\ n \in 1..(2 - sent) /\ sent' = sent + n
      /\ stream' = stream /\ got' = got /\ used' = used /\ input' = input
      /\ hp' = hp /\ parsing' = parsing /\ open' = open
  BY DEF hello_write
<1>2. Settled /\ used = 2 + stream[2] /\ ~parsing /\ sent < 2 /\ rp = request_parser_init
  BY <1>1 DEF Inv, InHello
<1>3. sent \in 0..2 /\ sent' \in 0..2
  BY <1>1 DEF Inv, Types
<1>4. Holds'
  BY <1>1 DEF Inv, Holds
<1>5. Settled'
  BY <1>1, <1>2 DEF Settled
<1>6. CASE sent' < 2
  <2>1. st' = st /\ interest' = interest /\ rp' = rp
    BY <1>6 DEF hello_write
  <2>2. Types'
    BY <1>1, <1>3, <2>1 DEF Inv, Types
  <2>3. InHello' /\ InRequest' /\ st' # "ERROR"
    BY <1>1, <1>2, <1>5, <1>6, <2>1 DEF InHello, InRequest
  <2> QED
    BY <1>4, <2>2, <2>3, NoError
<1>7. CASE ~(sent' < 2)
  <2>1. /\ interest' = "OP_READ" /\ rp' = request_parser_init
        /\ st' = IF hp.method = METHOD_USERNAME_PASSWORD THEN "AUTH_READ" ELSE "REQUEST_READ"
    BY <1>7 DEF hello_write
  <2>2. rp' \in RequestParser /\ RequestIs(stream', used', rp')
    BY <1>1, <1>2, <2>1, RequestStarts
  <2>3. Types'
    BY <1>1, <1>3, <2>1, <2>2 DEF Inv, Types
  <2>4. sent' = 2
    BY <1>3, <1>7
  <2>5. rp'.state = "request_version" /\ ~request_is_done(rp')
    BY <2>1 DEF request_parser_init, request_is_done, request_errored
  <2>6. InHello' /\ InRequest' /\ st' # "ERROR"
    BY <1>1, <1>5, <2>1, <2>2, <2>4, <2>5 DEF InHello, InRequest
  <2> QED
    BY <1>4, <2>3, <2>6, NoError
<1> QED
  BY <1>6, <1>7

\* The remaining steps: a failed send, the client's close, and stuttering.
LEMMA OtherSteps ==
  ASSUME Inv, hello_write_fails \/ ClientCloses \/ UNCHANGED vars
  PROVE  Inv'
<1>1. CASE hello_write_fails
  <2>1. Types' /\ Holds' /\ InHello' /\ InRequest'
    BY <1>1 DEF Inv, hello_write_fails, Types, Holds, InHello, InRequest
  <2> QED
    BY <1>1, <2>1 DEF Inv, hello_write_fails, RefusedOnlyForCause
<1>2. CASE ClientCloses
  <2>1. /\ stream' = stream /\ got' = got /\ used' = used /\ input' = input /\ sent' = sent
        /\ st' = st /\ interest' = interest /\ hp' = hp /\ rp' = rp /\ parsing' = parsing
        /\ st # "ERROR" /\ open' = FALSE
    BY <1>2 DEF ClientCloses
  <2>2. Types' /\ Holds'
    BY <2>1 DEF Inv, Types, Holds
  <2>3. InHello' /\ InRequest'
    BY <2>1 DEF Inv, InHello, InRequest, Settled
  <2> QED
    BY <2>1, <2>2, <2>3, NoError
<1>3. CASE UNCHANGED vars
  <2>1. Types' /\ Holds'
    BY <1>3 DEF Inv, vars, Types, Holds
  <2>2. InHello' /\ InRequest'
    BY <1>3 DEF Inv, vars, InHello, InRequest, Settled
  <2>3. RefusedOnlyForCause'
    BY <1>3 DEF Inv, vars, RefusedOnlyForCause, RequestAt, Atyp
  <2> QED
    BY <2>1, <2>2, <2>3 DEF Inv
<1> QED
  BY <1>1, <1>2, <1>3

\* The session starts with both parsers at the beginning of the stream.
LEMMA Initially == Init => Inv
<1> SUFFICES ASSUME Init
             PROVE  Inv
  OBVIOUS
<1>1. stream \in Seq(Byte) /\ Len(stream) \in Nat
  BY HandshakeAssumption DEF Init
<1>2. 0 \in Byte /\ UNSET \in Byte
  BY Bytes DEF UNSET
<1>3. hp \in HelloParser /\ HelloIs(stream, used, hp) /\ ~hello_is_done(hp)
  BY <1>2 DEF Init, hello_parser_init, HelloParser, HelloStates, HelloIs, hello_is_done
<1>4. rp \in RequestParser
  BY <1>2 DEF Init, request_parser_init, RequestParser, RequestStates
<1>5. Types
  <2>1. open \in BOOLEAN /\ parsing \in BOOLEAN
    BY DEF Init
  <2>2. got \in Nat /\ got <= Len(stream) /\ used \in Nat /\ used <= got /\ sent \in 0..2
    BY <1>1 DEF Init
  <2>3. input \in [read : Nat, write : Nat]
    BY DEF Init
  <2> QED
    BY <1>1, <1>3, <1>4, <2>1, <2>2, <2>3 DEF Init, Types
<1>6. Holds
  BY HandshakeAssumption DEF Init, Holds
<1> QED
  BY <1>3, <1>5, <1>6 DEF Init, Inv, InHello, InRequest, RefusedOnlyForCause

\* Every step keeps the invariant.
LEMMA NextStep == Inv /\ [Next]_vars => Inv'
<1> SUFFICES ASSUME Inv, [Next]_vars
             PROVE  Inv'
  OBVIOUS
<1> USE RecvStep, HelloConsumeStep, HelloReadStep, RequestConsumeStep, RequestReadStep,
        HelloWriteStep, RecvEndsStep, OtherSteps
<1>1. CASE Serve
  BY <1>1 DEF Serve
<1>2. CASE ClientCloses \/ Over \/ Waiting \/ UNCHANGED vars
  BY <1>2 DEF Over, Waiting
<1> QED
  BY <1>1, <1>2 DEF Next

\* The parsers stand where the stream says, whatever recv delivers.
THEOREM InvHolds == Spec => []Inv
BY Initially, NextStep, PTL DEF Spec

\* hello_read and hello_write give the client the best method it offered,
\* whatever the order of the offer and however recv cuts it, and leave the
\* state machine's table only for user and password.
THEOREM BestMethodIsChosen == Spec => []MethodIsBestOffered
<1>1. Inv => MethodIsBestOffered
  <2> SUFFICES ASSUME Inv
               PROVE  MethodIsBestOffered
    OBVIOUS
  <2>1. Offered = Methods(stream, 2 + stream[2])
    BY DEF Offered, Methods
  <2>2. st \in {"HELLO_WRITE", "REQUEST_READ", "AUTH_READ", "PROCESS"} =>
          hp.method = Best(Offered)
    BY <2>1 DEF Inv, InHello, InRequest, Settled
  <2>3. st = "AUTH_READ" => hp.method = METHOD_USERNAME_PASSWORD
    BY DEF Inv, InRequest
  <2> QED
    BY <2>2, <2>3 DEF MethodIsBestOffered, Best, METHOD_USERNAME_PASSWORD,
                      METHOD_NO_AUTHENTICATION_REQUIRED, UNSET
<1> QED
  BY <1>1, InvHolds, PTL

\* A handshake is given up for one of the causes only: the parsers empty the
\* buffer as it fills, so room runs out only behind a hello.
THEOREM HandshakeEndsForCause == Spec => []RefusedOnlyForCause
<1>1. Inv => RefusedOnlyForCause
  BY DEF Inv
<1> QED
  BY <1>1, InvHolds, PTL
-----------------------------------------------------------------------------
\* A part of the stream is a subsequence of it.
LEMMA PartIsSubSeq ==
  ASSUME NEW s \in Seq(Byte), NEW t \in Seq(Byte), NEW a \in Nat, NEW z \in Nat,
         Part(t, s, a), 1 <= a, z = a + Len(t) - 1, z <= Len(s)
  PROVE  t = SubSeq(s, a, z)
<1>1. SubSeq(s, a, z) \in Seq(Byte) /\ Len(SubSeq(s, a, z)) = Len(t)
  OBVIOUS
<1>2. \A k \in 1..Len(t) : SubSeq(s, a, z)[k] = s[a + k - 1]
  OBVIOUS
<1>3. \A k \in 1..Len(t) : t[k] = SubSeq(s, a, z)[k]
  BY <1>2 DEF Part
<1> QED
  BY <1>1, <1>3, SeqEqual

\* Where the definitions of the specification put the fields of the request,
\* once it is parsed.
LEMMA Parsed ==
  ASSUME Inv, st = "PROCESS"
  PROVE  /\ stream \in Seq(Byte) /\ rp \in RequestParser
         /\ RequestAt = Start(stream) /\ AddrAt = AddrStart(stream)
         /\ AddrLen = AddrSize(stream) /\ RequestEnd = PortStart(stream) + 1
         /\ AddrAt \in Nat /\ AddrLen \in Nat /\ RequestAt \in Nat /\ RequestAt >= 3
         /\ AddrLen >= 1 /\ AddrLen <= 255 /\ AddrAt >= 3
         /\ Atyp = domain => AddrAt = RequestAt + 5
         /\ Atyp # domain => AddrAt = RequestAt + 4
         /\ RequestEnd = AddrAt + AddrLen + 1 /\ used = RequestEnd /\ RequestEnd <= Len(stream)
         /\ rp.cmd = Cmd /\ rp.dest_addr_type = Atyp /\ Atyp \in {ipv4, domain, ipv6}
         /\ Part(rp.dest_addr, stream, AddrAt) /\ Len(rp.dest_addr) = AddrLen
         /\ Part(rp.dest_port, stream, RequestEnd - 1) /\ Len(rp.dest_port) = 2
<1>1. /\ stream \in Seq(Byte) /\ rp \in RequestParser /\ Len(stream) \in Nat
      /\ used \in Nat /\ used <= Len(stream)
  BY DEF Inv, Types
<1>2. rp.state = "request_done" /\ used >= 2 /\ AddressIs(stream, used, rp)
  BY DEF Inv, InRequest, Settled, RequestIs, Body
<1>3. /\ rp.cmd = stream[Start(stream) + 1] /\ rp.dest_addr_type = AtypOf(stream)
      /\ AtypOf(stream) \in {ipv4, domain, ipv6}
      /\ Part(rp.dest_addr, stream, AddrStart(stream))
      /\ Part(rp.dest_port, stream, PortStart(stream))
      /\ Len(rp.dest_addr) = AddrSize(stream) /\ Len(rp.dest_port) = 2
      /\ used = PortStart(stream) + 1
  BY <1>2 DEF AddressIs
<1>4. PICK L \in Nat : L = AddrSize(stream)
  <2>1. rp.dest_addr \in Seq(Byte)
    BY <1>1 DEF RequestParser
  <2> QED
    BY <1>3, <2>1
<1>5. Start(stream) \in Nat /\ Start(stream) >= 3
  <2>1. stream[2] \in Byte
    BY <1>1, <1>2
  <2> QED
    BY <2>1, Bytes DEF Start
<1>6. AtypOf(stream) = domain => Start(stream) + 4 <= Len(stream)
  <2> SUFFICES ASSUME AtypOf(stream) = domain
               PROVE  Start(stream) + 4 <= Len(stream)
    OBVIOUS
  <2>1. PortStart(stream) = Start(stream) + 5 + L
    BY <1>4 DEF PortStart, AddrStart
  <2> QED
    BY <1>1, <1>3, <1>5, <2>1
<1>7. /\ AddrStart(stream) \in Nat /\ AddrSize(stream) \in Nat
      /\ 1 <= AddrSize(stream) /\ AddrSize(stream) <= 255
      /\ PortStart(stream) = AddrStart(stream) + AddrSize(stream)
      /\ AtypOf(stream) = domain => AddrStart(stream) = Start(stream) + 5
      /\ AtypOf(stream) # domain => AddrStart(stream) = Start(stream) + 4
  <2>1. 2 <= Len(stream)
    BY <1>1, <1>2
  <2> QED
    BY <1>1, <1>3, <1>6, <2>1, Layout
<1>8. RequestAt = Start(stream) /\ Atyp = AtypOf(stream) /\ Cmd = stream[Start(stream) + 1]
  BY DEF RequestAt, Atyp, Cmd, Start, AtypOf
<1>9. AddrAt = AddrStart(stream)
  BY <1>8 DEF AddrAt, AddrStart
<1>10. AddrLen = AddrSize(stream)
  BY <1>3, <1>8 DEF AddrLen, AddrSize, ipv4, ipv6, domain
<1>11. RequestEnd = AddrAt + AddrLen + 1
  BY DEF RequestEnd
<1>12. PICK P \in Nat, A \in Nat : P = PortStart(stream) /\ A = AddrStart(stream) /\ P = A + L
  BY <1>4, <1>7
<1>13. RequestEnd = A + L + 1
  BY <1>4, <1>9, <1>10, <1>11, <1>12
<1>14. RequestEnd = P + 1 /\ RequestEnd - 1 = P /\ used = P + 1 /\ RequestEnd <= Len(stream)
  BY <1>1, <1>3, <1>12, <1>13
<1>15. AddrAt >= 3
  <2>1. AddrStart(stream) = Start(stream) + 5 \/ AddrStart(stream) = Start(stream) + 4
    BY <1>7
  <2> QED
    BY <1>5, <1>9, <2>1
<1> QED
  BY <1>15, <1>1, <1>3, <1>5, <1>7, <1>8, <1>9, <1>10, <1>11, <1>12, <1>14

\* Types gives the type invariant.
LEMMA TypesGiveTypeOK ==
  ASSUME Inv
  PROVE  TypeOK
<1>1. /\ got \in 0..Len(stream) /\ used \in 0..got
  BY DEF Inv, Types
<1>2. input \in [read : 0..BUFFER_SIZE, write : 0..BUFFER_SIZE]
  <2>1. input \in [read : Nat, write : Nat]
    BY DEF Inv, Types
  <2>2. input.read <= input.write /\ input.write <= BUFFER_SIZE
    BY DEF Inv, Holds
  <2>3. input.read \in 0..BUFFER_SIZE /\ input.write \in 0..BUFFER_SIZE
    BY <2>1, <2>2, HandshakeAssumption
  <2> QED
    BY <2>1, <2>3
<1>3. /\ hp.remaining \in Byte /\ hp.method \in Byte /\ rp.n \in Byte /\ rp.i \in Byte
  BY DEF Inv, Types, HelloParser, RequestParser
<1> QED
  BY <1>1, <1>2, <1>3 DEF Inv, Types, TypeOK

\* request_process sees the command, the address and the port that were sent,
\* and what follows the request is still in the buffer, for every stream and
\* every way recv cuts it.
THEOREM RequestReachesProcess == Spec => []RequestIsDecoded
<1>1. Inv => RequestIsDecoded
  <2> SUFFICES ASSUME Inv
               PROVE  RequestIsDecoded
    OBVIOUS
  <2>1. TypeOK
    BY TypesGiveTypeOK
  <2>2. CASE st = "PROCESS"
    <3>1. PICK A \in Nat, L \in Nat, E \in Nat : A = AddrAt /\ L = AddrLen /\ E = RequestEnd
      BY <2>2, Parsed
    <3>2. /\ A >= 3 /\ E = A + L + 1 /\ E <= Len(stream) /\ L >= 1
      BY <2>2, <3>1, Parsed
    <3>3. /\ rp.dest_addr \in Seq(Byte) /\ rp.dest_port \in Seq(Byte)
          /\ stream \in Seq(Byte) /\ Len(stream) \in Nat
      BY <2>2, Parsed DEF RequestParser
    <3>4. rp.dest_addr = SubSeq(stream, A, A + L - 1)
      <4>1. Part(rp.dest_addr, stream, A) /\ Len(rp.dest_addr) = L
        BY <2>2, <3>1, Parsed
      <4>2. A + L - 1 \in Nat /\ A + L - 1 <= Len(stream) /\ 1 <= A
        BY <3>2, <3>3
      <4> QED
        BY <3>3, <4>1, <4>2, PartIsSubSeq
    <3>5. rp.dest_port = SubSeq(stream, E - 1, E)
      <4>1. /\ Part(rp.dest_port, stream, E - 1) /\ E - 1 \in Nat
            /\ Len(rp.dest_port) = 2 /\ E = (E - 1) + 2 - 1 /\ 1 <= E - 1
        BY <2>2, <3>1, <3>2, Parsed
      <4> QED
        BY <3>2, <3>3, <4>1, PartIsSubSeq
    <3>6. buffer_read_avail(input) = got - used
      BY DEF buffer_read_avail, Inv, Holds
    <3>7. rp.cmd = Cmd /\ rp.dest_addr_type = Atyp /\ used = RequestEnd
      BY <2>2, Parsed
    <3>8. rp.dest_addr = Addr
      BY <3>1, <3>4 DEF Addr
    <3> QED
      BY <2>1, <3>1, <3>5, <3>6, <3>7, <3>8 DEF RequestIsDecoded
  <2> QED
    BY <2>1, <2>2 DEF RequestIsDecoded
<1> QED
  BY <1>1, InvHolds, PTL
-----------------------------------------------------------------------------
\* strlen of a name without a zero is its length.
LEMMA NoZeroInName ==
  ASSUME NEW d \in Seq(Byte), \A k \in 1..Len(d) : d[k] # 0
  PROVE  SubSeq(d, 1, strlen(d)) = d
<1> DEFINE Z == {k - 1 : k \in {j \in DOMAIN d : d[j] = 0}}
<1>1. Z = {}
  OBVIOUS
<1>2. strlen(d) = Min({Len(d)} \cup Z)
  BY DEF strlen
<1>3. {Len(d)} \cup Z = {Len(d)}
  BY <1>1
<1>4. Min({Len(d)}) = Len(d)
  <2>1. {Len(d)} \subseteq Nat /\ {Len(d)} # {}
    OBVIOUS
  <2>2. Min({Len(d)}) \in {Len(d)}
    BY <2>1, MinIsLeast
  <2> QED
    BY <2>2
<1>5. strlen(d) = Len(d)
  BY <1>2, <1>3, <1>4
<1>6. /\ SubSeq(d, 1, Len(d)) \in Seq(Byte) /\ Len(SubSeq(d, 1, Len(d))) = Len(d)
      /\ \A k \in 1..Len(d) : SubSeq(d, 1, Len(d))[k] = d[k]
  OBVIOUS
<1>7. SubSeq(d, 1, Len(d)) = d
  BY <1>6, SeqEqual
<1> QED
  BY <1>5, <1>7

\* Two parts of the stream that follow each other.
LEMMA PartsJoin ==
  ASSUME NEW s, NEW x \in Seq(Byte), NEW y \in Seq(Byte), NEW a \in Nat,
         NEW c \in Nat, c = a + Len(x), Part(x, s, a), Part(y, s, c)
  PROVE  x \o y \in Seq(Byte) /\ Len(x \o y) = Len(x) + Len(y) /\ Part(x \o y, s, a)
<1>1. x \o y \in Seq(Byte) /\ Len(x \o y) = Len(x) + Len(y)
  OBVIOUS
<1>2. ASSUME NEW k \in 1..(Len(x) + Len(y))
      PROVE  (x \o y)[k] = s[a + k - 1]
  <2>1. CASE k <= Len(x)
    <3>1. k \in 1..Len(x) /\ (x \o y)[k] = x[k]
      BY <2>1
    <3> QED
      BY <3>1 DEF Part
  <2>2. CASE ~(k <= Len(x))
    <3>0. k - Len(x) \in 1..Len(y)
      <4>1. Len(x) \in Nat /\ Len(y) \in Nat
        OBVIOUS
      <4> QED
        BY <2>2, <4>1
    <3>1. PICK j \in 1..Len(y) : j = k - Len(x)
      BY <3>0
    <3>2. (x \o y)[k] = y[j]
      BY <2>2, <3>1
    <3>3. c + j - 1 = a + k - 1
      BY <3>1
    <3>4. y[j] = s[c + j - 1]
      BY DEF Part
    <3> QED
      BY <3>2, <3>3, <3>4
  <2> QED
    BY <2>1, <2>2
<1> QED
  BY <1>1, <1>2 DEF Part

\* errno_to_socks claims success for errno 0 only.
LEMMA Status ==
  ASSUME NEW e \in Errno
  PROVE  errno_to_socks(e) \in Byte /\ (errno_to_socks(e) = 0 <=> e = "0")
BY DEF Errno, errno_to_socks, Byte

\* The elements of a concatenation.
LEMMA Joined ==
  ASSUME NEW x \in Seq(Byte), NEW y \in Seq(Byte)
  PROVE  /\ x \o y \in Seq(Byte) /\ Len(x \o y) = Len(x) + Len(y)
         /\ \A k \in 1..Len(x) : (x \o y)[k] = x[k]
         /\ \A k \in (Len(x) + 1)..(Len(x) + Len(y)) : (x \o y)[k] = y[k - Len(x)]
<1>1. x \o y \in Seq(Byte) /\ Len(x \o y) = Len(x) + Len(y)
  OBVIOUS
<1>2. ASSUME NEW k \in 1..Len(x)
      PROVE  (x \o y)[k] = x[k]
  OBVIOUS
<1>3. ASSUME NEW k \in (Len(x) + 1)..(Len(x) + Len(y))
      PROVE  (x \o y)[k] = y[k - Len(x)]
  OBVIOUS
<1> QED
  BY <1>1, <1>2, <1>3

\* The header h ends with the byte b of the stream s, and q is the stream from
\* there to byte z.
Follows(h, q, s, b, c, z) ==
  /\ 1 <= b /\ c = b + 1 /\ z <= Len(s)
  /\ Len(h) = 4 /\ h[4] = s[b]
  /\ Part(q, s, c) /\ z = b + Len(q)

\* From its fourth byte on, h and q are what the stream s has from b to z.
Mirrors(h, q, s, b, z) ==
  /\ SubSeq(h \o q, 4, Len(h \o q)) = SubSeq(s, b, z)
  /\ Len(h \o q) = 4 + Len(q)

\* A header of four bytes before a part of the stream: from its last byte on it
\* is what the stream has.
LEMMA ReplyTail ==
  ASSUME NEW s \in Seq(Byte), NEW b \in Nat, NEW c \in Nat, NEW z \in Nat,
         NEW h \in Seq(Byte), NEW q \in Seq(Byte), Follows(h, q, s, b, c, z)
  PROVE  Mirrors(h, q, s, b, z)
<1> SUFFICES ASSUME 1 <= b, c = b + 1, z <= Len(s), Len(h) = 4, h[4] = s[b],
                    Part(q, s, c), z = b + Len(q)
             PROVE  /\ SubSeq(h \o q, 4, Len(h \o q)) = SubSeq(s, b, z)
                    /\ Len(h \o q) = 4 + Len(q)
  BY DEF Follows, Mirrors
<1>1. PICK n \in Nat : n = Len(q)
  OBVIOUS
<1>2. PICK w \in Seq(Byte) :
        /\ w = h \o q /\ Len(w) = Len(h) + Len(q)
        /\ \A k \in 1..Len(h) : w[k] = h[k]
        /\ \A k \in (Len(h) + 1)..(Len(h) + Len(q)) : w[k] = q[k - Len(h)]
  <2>1. /\ h \o q \in Seq(Byte) /\ Len(h \o q) = Len(h) + Len(q)
        /\ \A k \in 1..Len(h) : (h \o q)[k] = h[k]
        /\ \A k \in (Len(h) + 1)..(Len(h) + Len(q)) : (h \o q)[k] = q[k - Len(h)]
    BY Joined
  <2> QED
    BY <2>1
<1>3. Len(w) = 4 + n
  BY <1>1, <1>2
<1>4. PICK X \in Seq(Byte), Y \in Seq(Byte) :
        X = SubSeq(w, 4, Len(w)) /\ Y = SubSeq(s, b, z)
  <2>1. SubSeq(w, 4, Len(w)) \in Seq(Byte) /\ SubSeq(s, b, z) \in Seq(Byte)
    BY <1>1, <1>3
  <2> QED
    BY <2>1
<1>5. /\ Len(X) = n + 1
      /\ \A k \in 1..(n + 1) : X[k] = w[k + 3]
  BY <1>3, <1>4
<1>6. /\ Len(Y) = n + 1
      /\ \A k \in 1..(n + 1) : Y[k] = s[b + k - 1]
  BY <1>1, <1>4
<1>7. ASSUME NEW k \in 1..(n + 1)
      PROVE  w[k + 3] = s[b + k - 1]
  <2>1. CASE k = 1
    <3>1. w[4] = h[4]
      BY <1>2
    <3>2. k + 3 = 4 /\ b + k - 1 = b
      BY <2>1
    <3> QED
      BY <3>1, <3>2
  <2>2. CASE k # 1
    <3>1. k - 1 \in 1..n
      BY <2>2
    <3>2. PICK j \in 1..n : j = k - 1
      BY <3>1
    <3>3. w[4 + j] = q[j]
      <4>1. 4 + j \in 5..(4 + n) /\ (4 + j) - 4 = j
        OBVIOUS
      <4>2. \A i \in 5..(4 + n) : w[i] = q[i - 4]
        <5>1. Len(h) + 1 = 5 /\ Len(h) + Len(q) = 4 + n /\ Len(h) = 4
          BY <1>1
        <5> QED
          BY <1>2, <5>1
      <4> QED
        BY <4>1, <4>2
    <3>4. q[j] = s[c + j - 1]
      BY <1>1 DEF Part
    <3>5. 4 + j = k + 3 /\ c + j - 1 = b + k - 1
      BY <3>2
    <3> QED
      BY <3>3, <3>4, <3>5
  <2> QED
    BY <2>1, <2>2
<1>8. \A k \in 1..Len(X) : X[k] = Y[k]
  BY <1>5, <1>6, <1>7
<1>9. X = Y
  BY <1>5, <1>6, <1>8, SeqEqual
<1> QED
  BY <1>1, <1>2, <1>3, <1>4, <1>9

\* What request_marshal puts behind the header for a parsed request, a name
\* without a zero.
LEMMA MarshalledAddress ==
  ASSUME Inv, st = "PROCESS",
         Atyp = domain => stream[RequestAt + 4] # 0 /\ 0 \notin ToSet(Addr),
         NEW name, name = SubSeq(rp.dest_addr, 1, strlen(rp.dest_addr)),
         NEW a, a = IF rp.dest_addr_type = domain THEN <<Len(name)>> \o name
                    ELSE rp.dest_addr,
         NEW c \in Nat, c = RequestAt + 4
  PROVE  /\ a \in Seq(Byte) /\ Part(a, stream, c)
         /\ c + Len(a) = RequestEnd - 1
<1>1. PICK d \in Seq(Byte) : d = rp.dest_addr
  BY Parsed DEF RequestParser
<1>2. PICK R \in Nat, A \in Nat, L \in Nat, E \in Nat :
        R = RequestAt /\ A = AddrAt /\ L = AddrLen /\ E = RequestEnd
  BY Parsed
<1>3. /\ Part(d, stream, A) /\ Len(d) = L /\ L >= 1 /\ L <= 255 /\ E = A + L + 1 /\ R >= 3
      /\ rp.dest_addr_type = Atyp /\ E <= Len(stream) /\ stream \in Seq(Byte)
  BY <1>1, <1>2, Parsed
<1>4. c = R + 4 /\ (Atyp = domain => A = R + 5) /\ (Atyp # domain => A = R + 4)
  BY <1>2, Parsed
<1>5. CASE Atyp = domain
  <2>1. L = stream[c]
    <3>1. stream[RequestAt + 4] # 0
      BY <1>5
    <3> QED
      BY <1>2, <1>5, <3>1 DEF AddrLen, ipv4, ipv6, domain
  <2>2. Addr = SubSeq(stream, A, A + L - 1)
    BY <1>2 DEF Addr
  <2>3. d = Addr
    <3>1. A + L - 1 \in Nat /\ A + L - 1 <= Len(stream) /\ 1 <= A
      BY <1>3, <1>4, <1>5
    <3> QED
      BY <1>3, <2>2, <3>1, PartIsSubSeq
  <2>4. \A k \in 1..Len(d) : d[k] # 0
    BY <1>5, <2>3 DEF ToSet
  <2>5. name = d
    BY <1>1, <2>4, NoZeroInName
  <2>6. PICK x \in Seq(Byte) : x = <<L>>
    <3>1. L \in Byte
      BY <1>3, Bytes
    <3>2. <<L>> \in Seq(Byte)
      BY <3>1
    <3> QED
      BY <3>2
  <2>7. a = x \o d
    BY <1>3, <1>5, <2>5, <2>6
  <2>8. Len(x) = 1 /\ x[1] = stream[c]
    BY <2>1, <2>6
  <2>9. Part(x, stream, c)
    <3>1. \A k \in 1..Len(x) : k = 1 /\ c + k - 1 = c
      BY <2>8
    <3> QED
      BY <2>8, <3>1 DEF Part
  <2>10. A = c + Len(x)
    BY <1>4, <1>5, <2>8
  <2>11. x \o d \in Seq(Byte) /\ Len(x \o d) = Len(x) + Len(d) /\ Part(x \o d, stream, c)
    BY <1>3, <2>9, <2>10, PartsJoin
  <2>12. c + (1 + L) = E - 1
    <3>1. c = R + 4 /\ A = R + 5 /\ E = A + L + 1
      BY <1>3, <1>4, <1>5
    <3>2. A = c + 1
      BY <3>1
    <3>3. E = c + 1 + L + 1
      BY <3>1, <3>2
    <3> QED
      BY <3>3
  <2>13. Len(a) = 1 + L
    BY <1>3, <2>7, <2>8, <2>11
  <2> QED
    BY <1>2, <2>7, <2>11, <2>12, <2>13
<1>6. CASE Atyp # domain
  <2>1. a = d /\ A = c
    BY <1>1, <1>3, <1>4, <1>6
  <2>2. c + L = E - 1
    BY <1>3, <2>1
  <2> QED
    BY <1>2, <1>3, <2>1, <2>2
<1> QED
  BY <1>5, <1>6

\* The reply request_marshal writes for a decoded request has the request's own
\* address and port, and claims success for errno 0 only.
THEOREM ReplyRepeatsRequest == Spec => []ReplyMirrorsRequest
<1>1. ASSUME Inv, st = "PROCESS",
             Atyp = domain => stream[RequestAt + 4] # 0 /\ 0 \notin ToSet(Addr),
             NEW e \in Errno,
             NEW reply, reply = request_marshal(BUFFER_SIZE, errno_to_socks(e), rp)
      PROVE  /\ RequestEnd - RequestAt + 1 <= BUFFER_SIZE =>
                  SubSeq(reply, 4, Len(reply)) = SubSeq(stream, RequestAt + 3, RequestEnd)
             /\ reply # <<>> => (reply[2] = 0 <=> e = "0")
  <2>1. PICK name, addr, h, p, whole :
          /\ name = SubSeq(rp.dest_addr, 1, strlen(rp.dest_addr))
          /\ addr = IF rp.dest_addr_type = domain THEN <<Len(name)>> \o name
                    ELSE rp.dest_addr
          /\ h = <<5, errno_to_socks(e), 0, rp.dest_addr_type>>
          /\ p = rp.dest_port
          /\ whole = h \o addr \o p
    OBVIOUS
  <2>2. reply = IF BUFFER_SIZE < Len(whole) THEN <<>> ELSE whole
    BY <1>1, <2>1 DEF request_marshal
  <2>3. PICK R \in Nat, E \in Nat, b \in Nat, c \in Nat :
          R = RequestAt /\ E = RequestEnd /\ b = R + 3 /\ c = R + 4
    <3>1. RequestAt \in Nat /\ RequestEnd \in Nat
      BY <1>1, Parsed
    <3>2. \A r \in Nat : r + 3 \in Nat /\ r + 4 \in Nat
      OBVIOUS
    <3> QED
      BY <3>1, <3>2
  <2>4. addr \in Seq(Byte) /\ Part(addr, stream, c) /\ c + Len(addr) = E - 1
    <3>1. c = RequestAt + 4
      BY <2>3
    <3> QED
      BY <1>1, <2>1, <2>3, <3>1, MarshalledAddress
  <2>5. /\ R >= 3 /\ E <= Len(stream) /\ stream \in Seq(Byte) /\ p \in Seq(Byte)
        /\ Part(p, stream, E - 1) /\ Len(p) = 2
    BY <1>1, <2>1, <2>3, Parsed DEF RequestParser
  <2>6. /\ h \in Seq(Byte) /\ Len(h) = 4 /\ h[4] = rp.dest_addr_type
        /\ h[2] = errno_to_socks(e)
    <3>1. 5 \in Byte /\ 0 \in Byte /\ errno_to_socks(e) \in Byte
      BY <1>1, Status, Bytes
    <3>2. rp.dest_addr_type \in Byte
      BY <1>1, Parsed DEF RequestParser
    <3> QED
      BY <2>1, <3>1, <3>2
  <2>7. h[4] = stream[b]
    BY <1>1, <2>3, <2>6, Parsed DEF Atyp
  <2>8. PICK q \in Seq(Byte) :
          q = addr \o p /\ Len(q) = Len(addr) + 2 /\ Part(q, stream, c) /\ whole = h \o q
    <3>1. PICK i \in Nat : i = E - 1 /\ i = c + Len(addr)
      <4>1. Len(addr) \in Nat
        BY <2>4
      <4> QED
        BY <2>4, <4>1
    <3>2. Part(p, stream, i)
      BY <2>5, <3>1
    <3>3. /\ addr \o p \in Seq(Byte) /\ Len(addr \o p) = Len(addr) + Len(p)
          /\ Part(addr \o p, stream, c)
      BY <2>4, <2>5, <3>1, <3>2, PartsJoin
    <3>4. (h \o addr) \o p = h \o (addr \o p)
      <4>1. h \in Seq(Byte) /\ addr \in Seq(Byte) /\ p \in Seq(Byte)
        BY <2>4, <2>5, <2>6
      <4> QED
        BY <4>1, ConcatAssociative
    <3>5. whole = h \o (addr \o p)
      BY <2>1, <3>4
    <3> QED
      BY <2>5, <3>3, <3>5
  <2>9. PICK n \in Nat : n = Len(q) /\ n = Len(addr) + 2 /\ Len(addr) \in Nat
    BY <2>4, <2>8
  <2>10. E = b + n /\ 1 <= b /\ c = b + 1 /\ 4 + n = E - R + 1
    <3>1. PICK m \in Nat : m = Len(addr)
      BY <2>9
    <3>2. c + m = E - 1 /\ n = m + 2 /\ b = R + 3 /\ c = R + 4
      BY <2>3, <2>4, <2>9, <3>1
    <3> QED
      BY <3>2
  <2>11. /\ SubSeq(whole, 4, Len(whole)) = SubSeq(stream, b, E)
         /\ Len(whole) = 4 + n
    <3>1. Follows(h, q, stream, b, c, E)
      BY <2>5, <2>6, <2>7, <2>8, <2>9, <2>10 DEF Follows
    <3>2. Mirrors(h, q, stream, b, E)
      <4>1. stream \in Seq(Byte) /\ h \in Seq(Byte)
        BY <2>5, <2>6
      <4> QED
        BY <3>1, <4>1, ReplyTail
    <3> QED
      BY <2>8, <2>9, <3>2 DEF Mirrors
  <2>12. whole[2] = errno_to_socks(e)
    <3>1. 2 \in 1..Len(h)
      BY <2>6
    <3>2. (h \o q)[2] = h[2]
      BY <2>6, <3>1, Joined
    <3> QED
      BY <2>6, <2>8, <3>2
  <2>13. RequestEnd - RequestAt + 1 <= BUFFER_SIZE =>
           SubSeq(reply, 4, Len(reply)) = SubSeq(stream, RequestAt + 3, RequestEnd)
    <3> SUFFICES ASSUME E - R + 1 <= BUFFER_SIZE
                 PROVE  SubSeq(reply, 4, Len(reply)) = SubSeq(stream, b, E)
      BY <2>3
    <3>1. ~(BUFFER_SIZE < Len(whole))
      BY <2>10, <2>11, HandshakeAssumption
    <3>2. reply = whole
      BY <2>2, <3>1
    <3> QED
      BY <2>11, <3>2
  <2>14. reply # <<>> => (reply[2] = 0 <=> e = "0")
    <3>1. reply # <<>> => reply = whole
      BY <2>2
    <3> QED
      BY <1>1, <2>12, <3>1, Status
  <2> QED
    BY <2>13, <2>14
<1>2. Inv => ReplyMirrorsRequest
  BY <1>1 DEF ReplyMirrorsRequest
<1> QED
  BY <1>2, InvHolds, PTL
=============================================================================
