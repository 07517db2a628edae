-------------------------------- MODULE Terms --------------------------------
(***************************************************************************)
(* The walks of the linking through a whole term, and what they find: the  *)
(* operators that are what Walks says at every node.                       *)
(***************************************************************************)
EXTENDS Walks

RECURSIVE VariablesIn(_)
VariablesIn(term) == VariablesHere(term, VariablesIn)

RECURSIVE CallsIn(_)
CallsIn(term) == CallsHere(term, CallsIn)

RECURSIVE Replace(_, _, _)
Replace(term, variable, function) ==
  ReplacedHere(term, variable, function, LAMBDA inner : Replace(inner, variable, function))

RECURSIVE Callees(_)
Callees(term) == CalleesHere(term, Callees)
=============================================================================
