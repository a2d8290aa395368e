---------------------------- MODULE MCHandshake -----------------------------
(* Handshake.tla for model checking: the streams a client may send.         *)
EXTENDS Handshake

Hellos == {<<5, 1, 0>>, <<5, 0>>, <<5, 3, 1, 0, 2>>, <<5, 3, 2, 255, 0>>, <<5, 2, 255, 0>>,
           <<5, 2, 1, 3>>, <<4, 1, 0>>}

Tails == {<<>>, <<71, 69>>}

Repeat(n, b) == [k \in 1..n |-> b]

\* CONNECT to each kind of address, BIND, an empty name, a name with a zero,
\* an unknown address type and a bad version.
Shorts == {<<5, 1, 0, 1, 10, 20, 30, 40, 0, 80>>,
           <<5, 1, 0, 4>> \o Repeat(16, 7) \o <<1, 187>>,
           <<5, 1, 0, 3, 3, 97, 98, 99, 0, 80>>,
           <<5, 2, 0, 3, 1, 97, 31, 144>>,
           <<5, 1, 0, 3, 0, 80, 90, 91>>,
           <<5, 1, 0, 3, 3, 97, 0, 99, 0, 80>>,
           <<5, 1, 0, 2, 1, 2, 3, 4>>,
           <<1, 1, 0, 1, 10, 20, 30, 40, 0, 80>>}

\* The longest name, which is longer than the buffer.
Long == <<5, 1, 0, 3, 255>> \o Repeat(255, 97) \o <<0, 80>>

\* Every hello before one request, every request behind one hello, with and
\* without bytes behind the request, and the longest of both.
SomeStreams ==
  {h \o <<5, 1, 0, 1, 10, 20, 30, 40, 0, 80>> \o t : h \in Hellos, t \in Tails}
    \cup {<<5, 2, 255, 0>> \o r \o t : r \in Shorts, t \in Tails}
    \cup {<<5, 1, 0>> \o Long, <<5, 255>> \o Repeat(255, 0) \o <<5, 1, 0, 1, 10, 20, 30, 40, 0, 80>>}
=============================================================================
