--------------------------- MODULE InterpreterSteps ---------------------------
(***************************************************************************)
(* What one call of a function of the syntax-directed interpreter          *)
(* (interpreter.c) makes of what the calls in it return.  An expression    *)
(* has a result; a command also has the store it leaves, which the code    *)
(* updates in place.                                                       *)
(***************************************************************************)
EXTENDS Syntax

CONSTANT MaxInt

(* int addition: two's complement, as the build computes it. *)
WrapInt(n) ==
  CASE n > MaxInt      -> n - 2 * (MaxInt + 1)
    [] n < -MaxInt - 1 -> n + 2 * (MaxInt + 1)
    [] OTHER           -> n

(* ------------------------------- Results ------------------------------- *)
InterpretResult_init(type, result) ==
  [type |-> type, result |-> result, returning |-> FALSE]

InterpretSuccess_init(result) == InterpretResult_init("iSuccess", result)
IncorrectNumArgs == InterpretResult_init("iFailIncorrectNumArgs", 0)
EndWithoutReturn == InterpretResult_init("iFailEndWithoutReturn", 0)

(* Not results of the code: the process exits, or is still running. *)
ProcessExit == InterpretResult_init("exit", 0)
OutOfFuel   == InterpretResult_init("out of fuel", 0)

Succeeds(res) == res.type = "iSuccess"
Stops(res)    == res.type \in {"exit", "out of fuel"}

Ends(res, store) == [res |-> res, store |-> store]

(* ----------------------------- Expressions ----------------------------- *)
(* Both operands are evaluated, left first; the left one's failure wins. *)
BinaryResult(lhs, rhs, value) ==
  IF Stops(lhs) THEN lhs
  ELSE IF Stops(rhs) THEN rhs
  ELSE IF ~Succeeds(lhs) THEN lhs
  ELSE IF ~Succeeds(rhs) THEN rhs
  ELSE InterpretSuccess_init(WrapInt(value))

(* A function that does not return is an error; its result, returning flag
   included, is otherwise passed on as it is. *)
FuncResult(res) ==
  IF Succeeds(res) /\ ~res.returning THEN EndWithoutReturn ELSE res

(* The arguments, then zeros. *)
CalleeStore(callee, results) ==
  [v \in 0 .. callee.num_vars - 1 |->
     IF v < Len(results) THEN results[v + 1].result ELSE 0]

(* Mutant: only the first argument is looked at. *)
FirstFailed(results) == {i \in DOMAIN results : i = 1 /\ ~Succeeds(results[i])}

Failed(results) == {i \in DOMAIN results : ~Succeeds(results[i])}

(* Arguments are evaluated from the first to the first that fails. *)
CallResult(prog, expr, results, Body(_, _)) ==
  LET callee == Prog_func(prog, expr.num)
      failed == Failed(results)
  IN  IF expr.num \notin FunctionNames(prog) THEN ProcessExit
      ELSE IF callee.num_args # Len(expr.args) THEN IncorrectNumArgs
      ELSE IF failed # {}
             THEN results[CHOOSE i \in failed : \A k \in failed : i <= k]
      ELSE FuncResult(Body(callee.body, CalleeStore(callee, results)).res)

(* interpret_Expr, where Eval is what its calls of itself return, and Body what
   interpret_Comm does for the body of a function. *)
ExprResult(prog, expr, store, Eval(_), Body(_, _)) ==
  CASE expr.type = "Int"  -> InterpretSuccess_init(expr.num)
    [] expr.type = "Var"  -> InterpretSuccess_init(store[expr.num])
    [] expr.type \in {"Add", "Sub"} ->
         LET lhs == Eval(expr.expr1)
             rhs == Eval(expr.expr2)
         IN  BinaryResult(lhs, rhs,
                          IF expr.type = "Add" THEN lhs.result + rhs.result
                                               ELSE lhs.result - rhs.result)
    [] expr.type = "Call" ->
         CallResult(prog, expr, [i \in 1 .. Len(expr.args) |-> Eval(expr.args[i])], Body)

(* ------------------------------- Commands ------------------------------ *)
(* The passes of a loop whose guard has just held: one, and the Passes after it. *)
LoopResult(comm, store, Eval(_, _), Inside(_, _), Passes(_)) ==
  LET body  == Inside(comm.comm1, store)
      guard == Eval(comm.expr, body.store)
  IN  IF ~Succeeds(body.res) \/ body.res.returning THEN body
      ELSE IF ~Succeeds(guard) THEN Ends(guard, body.store)
      ELSE IF guard.result < 1 THEN body
      ELSE Passes(body.store)

(* interpret_Comm, where Eval is the result of an expression, and Inside what its
   calls of itself return. *)
CommResult(comm, store, Eval(_, _), Inside(_, _), Passes(_)) ==
  CASE comm.type = "While" ->
         LET guard == Eval(comm.expr, store)
         IN  IF ~Succeeds(guard) \/ guard.result < 1 THEN Ends(guard, store)
             ELSE Passes(store)
    [] comm.type = "Assign" ->
         LET res == Eval(comm.expr, store)
         IN  IF ~Succeeds(res) THEN Ends(res, store)
             ELSE Ends(res, [store EXCEPT ![comm.name] = res.result])
    [] comm.type = "Return" ->
         LET res == Eval(comm.expr, store)
         IN  IF ~Succeeds(res) THEN Ends(res, store)
             ELSE Ends([res EXCEPT !.returning = TRUE], store)
    [] comm.type = "Comp" ->
         LET fst == Inside(comm.comm1, store)
         IN  IF ~Succeeds(fst.res) \/ fst.res.returning THEN fst
             ELSE Inside(comm.comm2, fst.store)

(* What interpret_Prog evaluates: the arguments are the literals of a call of
   main. *)
MainCall(args) == Call_init(0, [i \in DOMAIN args |-> Int_init(args[i])])
=============================================================================
