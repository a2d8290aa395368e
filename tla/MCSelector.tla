----------------------------- MODULE MCSelector -----------------------------
(* Selector.tla for model checking.                                         *)
EXTENDS Selector

\* Nothing and both: with one bit at a time the two fd_sets behave alike.
SomeInterests == {{}, {READ, WRITE}}
=============================================================================
