-------------------------- MODULE CompiledExecution --------------------------
(***************************************************************************)
(* The icode machine running what the code generator produced, started     *)
(* with the stack the generated code asks for (icodegen.c: "the arguments  *)
(* should be on top of the stack, with zeroed spaces prepared for other    *)
(* variables underneath them"), as the tests of the repository start it.   *)
(***************************************************************************)
EXTENDS Evaluation

CONSTANT Fuel   (* bound on the depth of a run of the syntax interpreter *)

CodeGeneration == INSTANCE Icodegen
Interpretation == INSTANCE Interpreter

(* The job of compiling and executing a case: a program, the arguments of its
   main, and what to expect, if that is known: a sequence of at most one number.
   It also keeps what the interpreter makes of it. *)
Compile(case) ==
  [prog          |-> case.prog,
   args          |-> case.args,
   expected      |-> case.expected,
   code          |-> CodeGeneration!icodegen_Prog(case.prog, 0).code,
   initial_stack |-> PreconfiguredStack(case.prog, case.args),
   outcome       |-> Interpretation!interpret_Prog(case.prog, case.args, Fuel)]

(* The same code on a stack that was not made for it, as main.c starts it: with any
   number of arguments.  What to expect then is not known. *)
NotInterpreted == [type |-> "not interpreted", result |-> 0]

StartOn(numbers, j) ==
  [j EXCEPT !.initial_stack = numbers, !.expected = <<>>, !.outcome = NotInterpreted]

FairCSpec == CSpec /\ WF_cvars(CNext)

----------------------------------------------------------------------------
(* The compiled program computes what it should: the value of the C version for
   a test program. *)
ComputesExpected ==
  status = "halted" =>
    \A i \in DOMAIN job.expected : Result = job.expected[i]

(* A program that the interpreter finishes, the machine finishes. *)
HaltsWhenInterpreterDoes ==
  job.outcome.type = "iSuccess" ~> status = "halted"

(* A program that calls itself for ever is stopped: the machine notices that
   the stack is full. *)
CallsMain(prog) == 0 \in CodeGeneration!Callees(Prog_func(prog, 0).body)

RunawayOverflows ==
  CallsMain(job.prog) /\ job.outcome.type = "out of fuel"
    ~> status = "stack overflow"
=============================================================================
