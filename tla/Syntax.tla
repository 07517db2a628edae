------------------------------- MODULE Syntax -------------------------------
(***************************************************************************)
(* The abstract syntax of the while language (syntax.h, syntax.c), as the  *)
(* parser leaves it: variables and functions are numbers, and a function   *)
(* knows how many of its variables are arguments (the first ones).         *)
(*                                                                         *)
(* A program is the sequence of its functions; function 0 is main.         *)
(***************************************************************************)
EXTENDS Integers, Sequences, FiniteSets

(* ----------------------------- Expressions ----------------------------- *)
Int_init(value)      == [type |-> "Int", num |-> value]
Var_init(name)       == [type |-> "Var", num |-> name]
Add_init(lhs, rhs)   == [type |-> "Add", expr1 |-> lhs, expr2 |-> rhs]
Sub_init(lhs, rhs)   == [type |-> "Sub", expr1 |-> lhs, expr2 |-> rhs]
Call_init(name, arguments) ==
  [type |-> "Call", num |-> name, args |-> arguments]

(* ------------------------------- Commands ------------------------------ *)
While_init(guard, body) == [type |-> "While", expr |-> guard, comm1 |-> body]
Assign_init(var, value) == [type |-> "Assign", name |-> var, expr |-> value]
Comp_init(fst, snd)     == [type |-> "Comp", comm1 |-> fst, comm2 |-> snd]
Return_init(value)      == [type |-> "Return", expr |-> value]

(* ------------------------ Functions and programs ----------------------- *)
(* name is the function's own index into the program. *)
Func_init(index, numArgs, numVars, code) ==
  [name |-> index, num_args |-> numArgs, num_vars |-> numVars, body |-> code]

(* A function as the parser makes it: with its variables' names. *)
Func_init_pos(index, numArgs, localNames, code) ==
  [name |-> index, num_args |-> numArgs, local_name_map |-> localNames, body |-> code]

(* What the later stages use of the functions. *)
Functions(funcs) ==
  [i \in DOMAIN funcs |->
     Func_init(funcs[i].name, funcs[i].num_args, Len(funcs[i].local_name_map),
               funcs[i].body)]

Prog_num_funcs(prog) == Len(prog)

FunctionNames(prog) == 0 .. Prog_num_funcs(prog) - 1

(* Only for a name in FunctionNames: FuncVector_get ends the process on any
   other. *)
Prog_func(prog, name) == prog[name + 1]

(* The subterms of a term, an expression or a command, from left to right. *)
Subterms(term) ==
  CASE term.type \in {"Add", "Sub"}       -> <<term.expr1, term.expr2>>
    [] term.type = "Call"                 -> term.args
    [] term.type = "While"                -> <<term.expr, term.comm1>>
    [] term.type = "Comp"                 -> <<term.comm1, term.comm2>>
    [] term.type \in {"Assign", "Return"} -> <<term.expr>>
    [] term.type \in {"Int", "Var"}       -> <<>>
=============================================================================
