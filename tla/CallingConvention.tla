-------------------------- MODULE CallingConvention --------------------------
(***************************************************************************)
(* The icode machine running the functions of a program (job.prog), whose  *)
(* calls are followed by a history variable: what the machine looked like  *)
(* when each function that has not returned yet was entered.  What caller  *)
(* and callee owe each other is stated by it.                              *)
(***************************************************************************)
EXTENDS ICodeMachine, IcodegenSteps

VARIABLE activations

cvars == <<job, registers, stack, status, activations>>

SP == registers[STACK_POINTER]
FP == registers[FRAME_POINTER]

(* Labels are given to the functions first: the label is the function. *)
Callee == Prog_func(job.prog, current.arg1)

(* On entry the frame of the callee ends at the stack pointer; everything
   below its variables belongs to the callers. *)
Activation ==
  [fp |-> FP, sp |-> SP, ra |-> pc + 1,
   below |-> [i \in 0 .. FP - Callee.num_vars |-> stack[i]]]

CInit == Init /\ activations = <<>>

Enter == JumpLink /\ activations' = Append(activations, Activation)

Leave == /\ activations # <<>>
         /\ JumpAddr
         /\ activations' = SubSeq(activations, 1, Len(activations) - 1)

(* Every other step of the machine. *)
Within ==
  /\ Next
  /\ ~Executing("JUMPLINK")
  /\ Executing("JUMPADDR") => activations = <<>>
  /\ UNCHANGED activations

CNext == Enter \/ Leave \/ Within

CSpec == CInit /\ [][CNext]_cvars

----------------------------------------------------------------------------
(* Compiled code never touches memory that nobody wrote: not a register it
   reads, not a stack cell it loads.  The zeros pushed for the locals of a
   callee (icodegen.c:205-212) are what makes it so. *)
NothingUninitialisedIsUsed ==
  status = "running" =>
    /\ current.opc \in {"MOVE", "STORE", "ADD", "SUB", "LOAD", "JUMPADDR"} =>
         registers[current.arg1] # Uninit
    /\ current.opc \in {"STORE", "ADD", "SUB", "JUMPCOND"} =>
         registers[current.arg2] # Uninit
    /\ current.opc = "LOAD" /\ registers[current.arg1] \in DOMAIN stack =>
         stack[registers[current.arg1]] # Uninit

(* A function and everything it calls leave alone what lies below its frame:
   the saved return address and frame pointer, and the frames and temporaries
   of all its callers. *)
CallersAreUntouched ==
  \A i \in DOMAIN activations :
    \A cell \in DOMAIN activations[i].below :
      stack[cell] = activations[i].below[cell]

(* A function returns to the call that entered it, with the stack and the frame
   pointer where they were on entry, however many calls it made meanwhile. *)
ReturnsAsEntered ==
  [][Executing("JUMPADDR") =>
       /\ activations # <<>>
       /\ LET entry == activations[Len(activations)]
          IN  pc' = entry.ra /\ SP = entry.sp /\ FP = entry.fp]_cvars

(* Commands leave nothing on the stack: whenever control is at a label (a
   function's entry, the head or the end of a loop) the stack and the frame
   pointer are where they were on entry, so that a loop may run for ever. *)
LabelsAreClean ==
  Executing("LABEL") =>
    /\ activations # <<>>
    /\ SP = activations[Len(activations)].sp
    /\ FP = activations[Len(activations)].fp

(* When the machine halts main has returned, nothing is left on the stack and
   the frame pointer is at main's frame again. *)
HaltsClean ==
  status = "halted" =>
    /\ activations = <<>>
    /\ SP = Len(initial_stack)
    /\ FP = Len(initial_stack) - 1

(* Whether the machine was started with a frame for main on the stack, all of it:
   main.c starts it with the arguments, however many there are. *)
Framed(j) == Prog_func(j.prog, 0).num_vars <= Len(j.initial_stack)

(* Of the errors of the machine compiled code can only meet the stack overflow, and
   the underflow where main has variables below the stack. *)
OnlyOverflowAborts ==
  \/ status \in {"running", "halted", "stack overflow"}
  \/ status = "stack underflow" /\ ~Framed(job)

----------------------------------------------------------------------------
(* For which jobs this is so: for those of generated code.  What the generator did
   with the body of a function is a table t of its calls: exprs and comms are what
   icodegen_Expr and icodegen_Comm were called for (commands with the next free
   label), expr_code and comm_code what they returned, and expr_depth and
   comm_depth how deep further calls were nested in them. *)
ExprInside(t, outer, inner) ==
  inner \in t.exprs /\ t.expr_depth[inner] < t.expr_depth[outer]

CommInside(t, outer, inner) ==
  inner \in t.comms /\ t.comm_depth[inner] < t.comm_depth[outer]

(* Literals are ints; variables are in the frame; functions that are called are there,
   and have room for the arguments among their variables. *)
ExprCalls(prog, numVars, t) ==
  \A e \in t.exprs :
    /\ e.type \in {"Int", "Var", "Add", "Sub", "Call"}
    /\ e.type = "Int" => e.num \in Word
    /\ e.type = "Var" => e.num \in 0 .. numVars - 1
    /\ e.type \in {"Add", "Sub"} => ExprInside(t, e, e.expr1) /\ ExprInside(t, e, e.expr2)
    /\ e.type = "Call" =>
         /\ e.num \in FunctionNames(prog)
         /\ e.args \in Seq(t.exprs)
         /\ Len(e.args) <= Prog_func(prog, e.num).num_vars
         /\ \A i \in DOMAIN e.args : ExprInside(t, e, e.args[i])
    /\ LET Code(inner) == t.expr_code[inner]
       IN  t.expr_code[e] = ExprCode(prog, e, 0, Code)

CommCalls(numVars, t) ==
  \A call \in t.comms :
    LET comm == call[1]
        next_label == call[2]
        CodeOf(e) == t.expr_code[e]
        Inside(inner, label) == t.comm_code[<<inner, label>>]
        Goes(inner, label) == CommInside(t, call, <<inner, label>>)
    IN  /\ next_label \in Int
        /\ comm.type \in {"While", "Assign", "Comp", "Return"}
        /\ comm.type # "Comp" => comm.expr \in t.exprs
        /\ comm.type = "Assign" => comm.name \in 0 .. numVars - 1
        /\ comm.type = "While" => Goes(comm.comm1, next_label + 2)
        /\ comm.type = "Comp" =>
             /\ Goes(comm.comm1, next_label)
             /\ Goes(comm.comm2, Inside(comm.comm1, next_label).next_label)
        /\ t.comm_code[call] = CommCode(comm, next_label, CodeOf, Inside)

(* Commands that end in a return whatever happens. *)
Returning(t) ==
  \A call \in t.returning :
    LET comm == call[1]
        snd  == <<comm.comm2, t.comm_code[<<comm.comm1, call[2]>>].next_label>>
    IN  /\ call \in t.comms
        /\ \/ comm.type = "Return"
           \/ comm.type = "Comp" /\ <<comm.comm1, call[2]>> \in t.returning
           \/ comm.type = "Comp" /\ snd \in t.returning

IsTable(prog, func, t) ==
  /\ t.expr_code \in [t.exprs -> Seq(ICodeOperation)]
  /\ t.expr_depth \in [t.exprs -> Nat]
  /\ t.comm_code \in [t.comms -> [code : Seq(ICodeOperation), next_label : Int]]
  /\ t.comm_depth \in [t.comms -> Nat]
  /\ ExprCalls(prog, func.num_vars, t)
  /\ CommCalls(func.num_vars, t)
  /\ Returning(t)
  /\ t.body \in t.returning

(* The code of a program is generated with one table for each function.  Numbers
   of variables are ints. *)
GeneratedWith(j, tables) ==
  LET Body(func, label) == tables[func.name].comm_code[<<func.body, label>>]
  IN  /\ j.prog \in Seq(Range(j.prog)) \ {<<>>}
      /\ \A f \in FunctionNames(j.prog) :
           /\ Prog_func(j.prog, f).name = f
           /\ Prog_func(j.prog, f).num_vars \in 0 .. MaxInt
           /\ IsTable(j.prog, Prog_func(j.prog, f), tables[f])
           /\ tables[f].body =
                << Prog_func(j.prog, f).body,
                   IF f = 0 THEN Prog_num_funcs(j.prog)
                   ELSE tables[f - 1].comm_code[tables[f - 1].body].next_label >>
      /\ j.code = ProgCode(j.prog, 0, Body).code

IsGenerated(j) == \E tables : GeneratedWith(j, tables)

GeneratedJobs == \A j \in Jobs : IsGenerated(j)
=============================================================================
