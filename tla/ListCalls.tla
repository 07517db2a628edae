------------------------------ MODULE ListCalls ------------------------------
(***************************************************************************)
(* The calls of the operations of a vector, and what insertion and removal *)
(* mean.                                                                   *)
(***************************************************************************)
EXTENDS Integers, Sequences

CONSTANTS
  Elem,     \* what is stored
  Batches,  \* the sequences that are appended at once
  Indices   \* the indices that are asked for

ASSUME IndicesAssumption == Indices \subseteq Int
ASSUME BatchesAssumption == Batches \subseteq Seq(Elem)

NoReply == <<>>
Request(operation, at, elements) == [op |-> operation, index |-> at, elems |-> elements]
NoRequest == Request("none", -1, <<>>)

(* A sequence with an element more, or less, at an index, which counts from
   zero. *)
Inserted(seq, index, elem) ==
  [i \in 1 .. Len(seq) + 1 |->
     IF i <= index THEN seq[i] ELSE IF i = index + 1 THEN elem ELSE seq[i - 1]]

Removed(seq, index) ==
  [i \in 1 .. Len(seq) - 1 |-> IF i <= index THEN seq[i] ELSE seq[i + 1]]
=============================================================================
