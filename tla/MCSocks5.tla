------------------------------ MODULE MCSocks5 ------------------------------
(* Socks5.tla for model checking: values for its constants.                 *)
EXTENDS Socks5

PlainOffer == {<<NO_AUTH>>}
\* Acceptable, not acceptable, and one for which hello_write leaves the table.
SomeOffers == {<<NO_AUTH>>, <<"X'01'">>, <<NO_AUTH, USERPASS>>}
Sym == Permutations(Session)
=============================================================================
