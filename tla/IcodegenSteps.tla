---------------------------- MODULE IcodegenSteps ----------------------------
(***************************************************************************)
(* What one call of a function of the code generator (icodegen.c) makes of *)
(* what the calls in it return: the code of a term from that of its parts, *)
(* with the accumulator strategy.  Expressions leave their value in the    *)
(* accumulator; the stack holds temporaries and frames; the caller does    *)
(* all the work of a call.                                                 *)
(*                                                                         *)
(* A frame has variable i at FRAME_POINTER - i, and below its last         *)
(* variable the caller's return address and then its frame pointer.        *)
(*                                                                         *)
(* Labels are numbered by a counter passed by reference; the commands      *)
(* return it, the expressions do not touch it.                             *)
(***************************************************************************)
EXTENDS ICode, Syntax, NameMaps

(* STORE through the stack pointer, then move it up by one. *)
Push(register) ==
  << ICodeOperation_init("STORE", register, STACK_POINTER),
     ICodeOperation_init("LOADIMM", 1, ACCUMULATOR),
     ICodeOperation_init("ADD", STACK_POINTER, ACCUMULATOR) >>

(* Move the stack pointer down by n. *)
Drop(n) ==
  << ICodeOperation_init("LOADIMM", n, TEMPORARY),
     ICodeOperation_init("SUB", STACK_POINTER, TEMPORARY) >>

(* Move the stack pointer down by one and read what it now points to. *)
Pop(register) ==
  Append(Drop(1), ICodeOperation_init("LOAD", STACK_POINTER, register))

(* Mutant: off by one. *)
LoadNextVariable(name) ==
  << ICodeOperation_init("LOADIMM", name + 1, ACCUMULATOR),
     ICodeOperation_init("MOVE", FRAME_POINTER, TEMPORARY),
     ICodeOperation_init("SUB", TEMPORARY, ACCUMULATOR),
     ICodeOperation_init("LOAD", TEMPORARY, ACCUMULATOR) >>

(* Address FRAME_POINTER - name, and load from it. *)
LoadVariable(name) ==
  << ICodeOperation_init("LOADIMM", name, ACCUMULATOR),
     ICodeOperation_init("MOVE", FRAME_POINTER, TEMPORARY),
     ICodeOperation_init("SUB", TEMPORARY, ACCUMULATOR),
     ICodeOperation_init("LOAD", TEMPORARY, ACCUMULATOR) >>

(* Mutant: off by one. *)
StoreNextVariable(name) ==
  << ICodeOperation_init("LOADIMM", -name - 1, TEMPORARY),
     ICodeOperation_init("ADD", TEMPORARY, FRAME_POINTER),
     ICodeOperation_init("STORE", ACCUMULATOR, TEMPORARY) >>

(* Mutant: the value assigned is also left on the stack. *)
StoreAndPush(name) ==
  << ICodeOperation_init("LOADIMM", -name, TEMPORARY),
     ICodeOperation_init("ADD", TEMPORARY, FRAME_POINTER),
     ICodeOperation_init("STORE", ACCUMULATOR, TEMPORARY) >> \o Push(ACCUMULATOR)

(* The same address, computed from the other end, and store to it. *)
StoreVariable(name) ==
  << ICodeOperation_init("LOADIMM", -name, TEMPORARY),
     ICodeOperation_init("ADD", TEMPORARY, FRAME_POINTER),
     ICodeOperation_init("STORE", ACCUMULATOR, TEMPORARY) >>

(* The frame pointer of the callee is one less than the stack pointer. *)
EnterFrame ==
  << ICodeOperation_init("MOVE", STACK_POINTER, FRAME_POINTER),
     ICodeOperation_init("LOADIMM", 1, TEMPORARY),
     ICodeOperation_init("SUB", FRAME_POINTER, TEMPORARY) >>

(* Mutant: the saved frame pointer is dropped. *)
LeaveFrameWithoutPointer(numVars) == Drop(numVars) \o Pop(RETURN_ADDRESS) \o Drop(1)

(* Mutant: restored in the order they were pushed. *)
LeaveFrameSwapped(numVars) ==
  Drop(numVars) \o Pop(FRAME_POINTER) \o Pop(RETURN_ADDRESS)

(* Back in the caller: drop the frame, then restore what was pushed before it,
   the last first. *)
LeaveFrame(numVars) == Drop(numVars) \o Pop(RETURN_ADDRESS) \o Pop(FRAME_POINTER)

(* Mutant: room for the variable, but no zero in it. *)
SkipCell == << ICodeOperation_init("LOADIMM", 1, ACCUMULATOR),
               ICodeOperation_init("ADD", STACK_POINTER, ACCUMULATOR) >>

(* A local variable starts as zero. *)
PushZero == <<ICodeOperation_init("LOADIMM", 0, ACCUMULATOR)>> \o Push(ACCUMULATOR)

(* The label of a function is its position in the program: icodegen_Prog
   takes the first labels, from firstLabel on, for the functions. *)
FuncLabel(firstLabel, name) == firstLabel + name

(* --------------------------- The calls --------------------------------- *)
(* The pieces of a call before the jump: zeros for the variables that are no
   arguments, then the arguments, the last first. *)
Zeros(numVars, numArgs) ==
  SubSeq([i \in 1 .. numVars |-> PushZero], numArgs + 1, numVars)
PushedArguments(args, Code(_)) ==
  [i \in 1 .. Len(args) |-> Code(args[Len(args) + 1 - i]) \o Push(ACCUMULATOR)]

BinaryCode(rhs, lhs, opc) ==
  rhs \o Push(ACCUMULATOR) \o lhs \o Pop(TEMPORARY)
    \o <<ICodeOperation_init(opc, ACCUMULATOR, TEMPORARY)>>

CallCode(numVars, zeros, args, label) ==
  Push(FRAME_POINTER) \o Push(RETURN_ADDRESS)
    \o Concatenated(zeros) \o Concatenated(args)
    \o EnterFrame \o <<ICodeOperation_init("JUMPLINK", label, 0)>>
    \o LeaveFrame(numVars)

(* icodegen_Expr, where Code is what its calls of itself return. *)
ExprCode(prog, expr, firstLabel, Code(_)) ==
  CASE expr.type = "Int" ->
         <<ICodeOperation_init("LOADIMM", expr.num, ACCUMULATOR)>>
    [] expr.type = "Add" -> BinaryCode(Code(expr.expr2), Code(expr.expr1), "ADD")
    [] expr.type = "Sub" -> BinaryCode(Code(expr.expr2), Code(expr.expr1), "SUB")
    [] expr.type = "Call" ->
         LET numVars == Prog_func(prog, expr.num).num_vars
         IN  CallCode(numVars, Zeros(numVars, Len(expr.args)),
                      PushedArguments(expr.args, Code), FuncLabel(firstLabel, expr.num))
    [] expr.type = "Var" -> LoadVariable(expr.num)

(* Generated commands: the operations and the next free label. *)
Generated(ops, label) == [code |-> ops, next_label |-> label]

(* Mutant: what is tested is a register that no other operation names. *)
WhileOnOwnRegister(guard, body, label) ==
  <<ICodeOperation_init("LABEL", label, 0)>> \o guard
    \o <<ICodeOperation_init("JUMPCOND", label + 1, TEMPORARY + 1)>>
    \o body
    \o <<ICodeOperation_init("JUMP", label, 0),
         ICodeOperation_init("LABEL", label + 1, 0)>>

WhileCode(guard, body, label) ==
  <<ICodeOperation_init("LABEL", label, 0)>> \o guard
    \o <<ICodeOperation_init("JUMPCOND", label + 1, ACCUMULATOR)>>
    \o body
    \o <<ICodeOperation_init("JUMP", label, 0),
         ICodeOperation_init("LABEL", label + 1, 0)>>

(* icodegen_Comm, where Value is the code of an expression, and Inside what its
   calls of itself return. *)
CommCode(comm, next_label, Value(_), Inside(_, _)) ==
  CASE comm.type = "While"  ->
         LET body == Inside(comm.comm1, next_label + 2)
         IN  Generated(WhileCode(Value(comm.expr), body.code, next_label), body.next_label)
    [] comm.type = "Assign" ->
         Generated(Value(comm.expr) \o StoreVariable(comm.name), next_label)
    [] comm.type = "Comp"   ->
         LET fst == Inside(comm.comm1, next_label)
             snd == Inside(comm.comm2, fst.next_label)
         IN  Generated(fst.code \o snd.code, snd.next_label)
    [] comm.type = "Return" ->
         Generated(Append(Value(comm.expr),
                          ICodeOperation_init("JUMPADDR", RETURN_ADDRESS, 0)),
                   next_label)

(* icodegen_Func: a function is its entry label and its body, with no epilogue. *)
FuncCode(func, firstLabel, body) ==
  [body EXCEPT !.code =
     <<ICodeOperation_init("LABEL", FuncLabel(firstLabel, func.name), 0)>> \o @]

(* icodegen_Prog: call main, halt when it returns, then the functions in order.  Body
   is what icodegen_Comm returns for the body of a function. *)
ProgCode(prog, next_label, Body(_, _)) ==
  LET upto[i \in 0 .. Len(prog)] ==
        IF i = 0
        THEN Generated(<<ICodeOperation_init("JUMPLINK", FuncLabel(next_label, 0), 0),
                         ICodeOperation_init("HALT", 0, 0)>>,
                       next_label + Prog_num_funcs(prog))
        ELSE LET next == FuncCode(prog[i], next_label, Body(prog[i], upto[i - 1].next_label))
             IN  Generated(upto[i - 1].code \o next.code, next.next_label)
  IN  upto[Len(prog)]

(* ------------------------------ Starting -------------------------------- *)
(* Mutant: the first argument at the bottom. *)
ArgumentsInOrder(prog, args) ==
  LET numVars == Prog_func(prog, 0).num_vars
  IN  [i \in 1 .. numVars |->
         LET argument == i - (numVars - Len(args))
         IN  IF argument >= 1 THEN args[argument] ELSE 0]

(* "The arguments should be on top of the stack, with zeroed spaces prepared for
   other variables underneath them": how the tests build it, inserting every
   argument, then a zero for every other variable, at the bottom. *)
PreconfiguredStack(prog, args) ==
  LET numVars == Prog_func(prog, 0).num_vars
  IN  [i \in 1 .. numVars |->
         LET variable == numVars - i
         IN  IF variable < Len(args) THEN args[variable + 1] ELSE 0]
=============================================================================
