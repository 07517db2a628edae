-------------------------------- MODULE Walks --------------------------------
(***************************************************************************)
(* How the linking of names goes through a term (parser.y, the functions   *)
(* complete_..._name_map_...): what is to be done at one node, if Inside   *)
(* is what the same function does with a subterm.                          *)
(***************************************************************************)
EXTENDS Syntax, NameMaps

(* The variables in a term, in the order in which they are leased: an assigned
   one before its value. *)
VariablesHere(term, Inside(_)) ==
  CASE term.type = "Int"    -> <<>>
    [] term.type = "Var"    -> <<term.num>>
    [] term.type \in {"Add", "Sub"} -> Inside(term.expr1) \o Inside(term.expr2)
    [] term.type = "Call"   -> Concatenated([i \in DOMAIN term.args |-> Inside(term.args[i])])
    [] term.type = "While"  -> Inside(term.expr) \o Inside(term.comm1)
    [] term.type = "Assign" -> <<term.name>> \o Inside(term.expr)
    [] term.type = "Comp"   -> Inside(term.comm1) \o Inside(term.comm2)
    [] term.type = "Return" -> Inside(term.expr)

(* The names of the functions it calls: a called function before its arguments. *)
CallsHere(term, Inside(_)) ==
  CASE term.type \in {"Int", "Var"} -> <<>>
    [] term.type \in {"Add", "Sub"} -> Inside(term.expr1) \o Inside(term.expr2)
    [] term.type = "Call"   ->
         <<term.num>> \o Concatenated([i \in DOMAIN term.args |-> Inside(term.args[i])])
    [] term.type = "While"  -> Inside(term.expr) \o Inside(term.comm1)
    [] term.type = "Comp"   -> Inside(term.comm1) \o Inside(term.comm2)
    [] term.type \in {"Assign", "Return"} -> Inside(term.expr)

(* The term with its names replaced, as functions from names say. *)
ReplacedHere(term, variable, function, Inside(_)) ==
  CASE term.type = "Int" -> term
    [] term.type = "Var" -> Var_init(variable[term.num])
    [] term.type = "Add" -> Add_init(Inside(term.expr1), Inside(term.expr2))
    [] term.type = "Sub" -> Sub_init(Inside(term.expr1), Inside(term.expr2))
    [] term.type = "Call" ->
         Call_init(function[term.num], [i \in DOMAIN term.args |-> Inside(term.args[i])])
    [] term.type = "While"  -> While_init(Inside(term.expr), Inside(term.comm1))
    [] term.type = "Assign" -> Assign_init(variable[term.name], Inside(term.expr))
    [] term.type = "Comp"   -> Comp_init(Inside(term.comm1), Inside(term.comm2))
    [] term.type = "Return" -> Return_init(Inside(term.expr))

(* The functions that a term calls, in no order. *)
CalleesHere(term, Inside(_)) ==
  (IF term.type = "Call" THEN {term.num} ELSE {})
    \cup UNION {Inside(Subterms(term)[i]) : i \in DOMAIN Subterms(term)}
=============================================================================
