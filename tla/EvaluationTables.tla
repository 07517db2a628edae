--------------------------- MODULE EvaluationTables ---------------------------
(***************************************************************************)
(* The tables of the interpreter's calls (see IsEvaluation), as            *)
(* Interpreter makes them.                                                 *)
(***************************************************************************)
EXTENDS Interpreter, FiniteSetsExt

CONSTANT Fuel

ResultOf(prog, call) ==
  CASE call[1] = "expr" -> interpret_Expr(prog, call[2], call[3], Fuel)
    [] call[1] = "comm" -> interpret_Comm(prog, call[2], call[3], Fuel)
    [] call[1] = "loop" -> RunLoop(prog, call[2], call[3], Fuel)

(* The calls made in a call. *)
MadeByExpr(prog, expr, store) ==
  LET callee  == Prog_func(prog, expr.num)
      results == [i \in 1 .. Len(expr.args) |-> interpret_Expr(prog, expr.args[i], store, Fuel)]
  IN  CASE expr.type \in {"Int", "Var"} -> {}
        [] expr.type \in {"Add", "Sub"} ->
             {<<"expr", expr.expr1, store>>, <<"expr", expr.expr2, store>>}
        [] expr.type = "Call" ->
             {<<"expr", expr.args[i], store>> : i \in DOMAIN expr.args}
               \cup {<<"comm", callee.body, CalleeStore(callee, results)>>}

MadeByComm(prog, comm, store) ==
  LET fst == interpret_Comm(prog, comm.comm1, store, Fuel)
  IN  IF comm.type = "Comp"
        THEN {<<"comm", comm.comm1, store>>}
               \cup (IF fst.res.returning THEN {} ELSE {<<"comm", comm.comm2, fst.store>>})
        ELSE {<<"expr", comm.expr, store>>}
               \cup (IF /\ comm.type = "While"
                        /\ ~(interpret_Expr(prog, comm.expr, store, Fuel).result < 1)
                       THEN {<<"loop", comm, store>>} ELSE {})

MadeByLoop(prog, comm, store) ==
  LET body == interpret_Comm(prog, comm.comm1, store, Fuel)
  IN  {<<"comm", comm.comm1, store>>}
        \cup (IF body.res.returning THEN {}
              ELSE {<<"expr", comm.expr, body.store>>}
                     \cup (IF interpret_Expr(prog, comm.expr, body.store, Fuel).result < 1
                             THEN {} ELSE {<<"loop", comm, body.store>>}))

MadeBy(prog, call) ==
  CASE call[1] = "expr" -> MadeByExpr(prog, call[2], call[3])
    [] call[1] = "comm" -> MadeByComm(prog, call[2], call[3])
    [] call[1] = "loop" -> MadeByLoop(prog, call[2], call[3])

(* The calls, those made in them, and so on. *)
RECURSIVE Levels(_, _)
Levels(prog, calls) ==
  IF calls = {} THEN <<>>
  ELSE <<calls>> \o Levels(prog, UNION {MadeBy(prog, call) : call \in calls})

(* Of a run that ends well. *)
Run(prog, args) ==
  LET levels == Levels(prog, {<<"expr", MainCall(args), <<>> >>})
      calls  == UNION {levels[i] : i \in DOMAIN levels}
  IN  [calls  |-> calls,
       result |-> [call \in calls |-> ResultOf(prog, call)],
       depth  |-> [call \in calls |->
                     Len(levels) - Max({i \in DOMAIN levels : call \in levels[i]})]]
=============================================================================
