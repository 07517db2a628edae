------------------------------ MODULE MCVector ------------------------------
(* A small vector for TLC. *)
EXTENDS Vector

MCIndices == -1 .. 7
MCBatches == {<<>>} \cup {<<e, f>> : e, f \in Elem}
=============================================================================
