------------------------------ MODULE MCBuffer ------------------------------
(* Buffer.tla on a buffer of Limit cells, and mutated forms of its code.    *)
EXTENDS Buffer
=============================================================================
