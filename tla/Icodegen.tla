------------------------------ MODULE Icodegen ------------------------------
(***************************************************************************)
(* Code generation (icodegen.c): from syntax to icode, by the recursion    *)
(* that IcodegenSteps leaves open.                                         *)
(***************************************************************************)
EXTENDS IcodegenSteps, Terms

RECURSIVE icodegen_Expr(_, _, _)
icodegen_Expr(prog, expr, firstLabel) ==
  ExprCode(prog, expr, firstLabel, LAMBDA inner : icodegen_Expr(prog, inner, firstLabel))

RECURSIVE icodegen_Comm(_, _, _, _)
icodegen_Comm(prog, comm, next_label, firstLabel) ==
  CommCode(comm, next_label,
           LAMBDA expr : icodegen_Expr(prog, expr, firstLabel),
           LAMBDA inner, label : icodegen_Comm(prog, inner, label, firstLabel))

(* Generating the code of a call looks the callee up for its variables, and
   Prog_func ends the process when there is no such function. *)
CanGenerate(prog) ==
  \A f \in FunctionNames(prog) :
    Callees(Prog_func(prog, f).body) \subseteq FunctionNames(prog)

icodegen_Func(prog, func, next_label, firstLabel) ==
  FuncCode(func, firstLabel, icodegen_Comm(prog, func.body, next_label, firstLabel))

(* For programs that CanGenerate. *)
icodegen_Prog(prog, next_label) ==
  ProgCode(prog, next_label,
           LAMBDA func, label : icodegen_Comm(prog, func.body, label, next_label))
=============================================================================
