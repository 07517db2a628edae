----------------------------- MODULE CallTables -----------------------------
(***************************************************************************)
(* The tables of the code generator's calls (see IsTable), as Icodegen     *)
(* makes them.                                                             *)
(***************************************************************************)
EXTENDS Icodegen

RECURSIVE Height(_)
Height(term) ==
  LET inner == Subterms(term)
  IN  1 + FoldFunction(LAMBDA m, n : IF m < n THEN n ELSE m, 0,
                       [i \in DOMAIN inner |-> Height(inner[i])])

RECURSIVE ExprsIn(_)
ExprsIn(term) ==
  LET inner == Subterms(term)
  IN  (IF term.type \in {"Int", "Var", "Add", "Sub", "Call"} THEN {term} ELSE {})
        \cup UNION {ExprsIn(inner[i]) : i \in DOMAIN inner}

RECURSIVE CommCallsIn(_, _, _)
CommCallsIn(prog, comm, label) ==
  LET after == icodegen_Comm(prog, comm.comm1, label, 0).next_label
  IN  {<<comm, label>>} \cup
        CASE comm.type = "While" -> CommCallsIn(prog, comm.comm1, label + 2)
          [] comm.type = "Comp"  -> CommCallsIn(prog, comm.comm1, label)
                                      \cup CommCallsIn(prog, comm.comm2, after)
          [] OTHER -> {}

RECURSIVE AlwaysReturns(_)
AlwaysReturns(comm) ==
  \/ comm.type = "Return"
  \/ comm.type = "Comp" /\ (AlwaysReturns(comm.comm1) \/ AlwaysReturns(comm.comm2))

Table(prog, func, label) ==
  LET exprs == ExprsIn(func.body)
      comms == CommCallsIn(prog, func.body, label)
  IN  [exprs      |-> exprs,
       expr_code  |-> [e \in exprs |-> icodegen_Expr(prog, e, 0)],
       expr_depth |-> [e \in exprs |-> Height(e)],
       comms      |-> comms,
       comm_code  |-> [c \in comms |-> icodegen_Comm(prog, c[1], c[2], 0)],
       comm_depth |-> [c \in comms |-> Height(c[1])],
       returning  |-> {c \in comms : AlwaysReturns(c[1])},
       body       |-> <<func.body, label>>]

Tables(prog) ==
  LET label[f \in FunctionNames(prog)] ==
        IF f = 0 THEN Prog_num_funcs(prog)
        ELSE icodegen_Comm(prog, Prog_func(prog, f - 1).body, label[f - 1], 0).next_label
  IN  [f \in FunctionNames(prog) |-> Table(prog, Prog_func(prog, f), label[f])]
=============================================================================
