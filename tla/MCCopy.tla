------------------------------- MODULE MCCopy -------------------------------
(* Copy.tla for model checking.                                             *)
EXTENDS Copy
=============================================================================
