----------------------------- MODULE Interpreter -----------------------------
(***************************************************************************)
(* The syntax-directed interpreter (interpreter.c), as functions from a    *)
(* term and a store to a result, by the recursion that InterpreterSteps    *)
(* leaves open.                                                            *)
(*                                                                         *)
(* The program's own recursion is bounded by fuel: every function call and *)
(* every pass through a loop spends one unit, and a run that needs more    *)
(* ends in "out of fuel", which stops the whole evaluation the way ERROR   *)
(* (the exit of the process) does.                                         *)
(***************************************************************************)
EXTENDS InterpreterSteps

RECURSIVE interpret_Expr(_, _, _, _), interpret_Comm(_, _, _, _),
          RunLoop(_, _, _, _)

interpret_Expr(prog, expr, store, fuel) ==
  ExprResult(prog, expr, store,
             LAMBDA inner : interpret_Expr(prog, inner, store, fuel),
             LAMBDA body, variables :
               IF fuel = 0 THEN Ends(OutOfFuel, variables)
               ELSE interpret_Comm(prog, body, variables, fuel - 1))

RunLoop(prog, comm, store, fuel) ==
  IF fuel = 0 THEN Ends(OutOfFuel, store)
  ELSE LoopResult(comm, store,
                  LAMBDA expr, variables : interpret_Expr(prog, expr, variables, fuel),
                  LAMBDA inner, variables : interpret_Comm(prog, inner, variables, fuel),
                  LAMBDA variables : RunLoop(prog, comm, variables, fuel - 1))

interpret_Comm(prog, comm, store, fuel) ==
  CommResult(comm, store,
             LAMBDA expr, variables : interpret_Expr(prog, expr, variables, fuel),
             LAMBDA inner, variables : interpret_Comm(prog, inner, variables, fuel),
             LAMBDA variables : RunLoop(prog, comm, variables, fuel))

interpret_Prog(prog, args, fuel) == interpret_Expr(prog, MainCall(args), <<>>, fuel)
=============================================================================
