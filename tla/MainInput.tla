------------------------------ MODULE MainInput ------------------------------
(***************************************************************************)
(* The command lines of Main: what its stages make of a program and the    *)
(* arguments for it.                                                       *)
(***************************************************************************)
EXTENDS Main, Terms

CONSTANT Fuel   (* bound on the depth of a run of the syntax interpreter *)

CodeGeneration == INSTANCE Icodegen
Source == INSTANCE Interpreter

(* A call's value is what an assignment or a guard gets, as it is. *)
RECURSIVE UsesCallDirectly(_)
UsesCallDirectly(term) ==
  \/ term.type \in {"Assign", "While"} /\ term.expr.type = "Call"
  \/ \E i \in DOMAIN CodeGeneration!Subterms(term) :
       UsesCallDirectly(CodeGeneration!Subterms(term)[i])

(* A program without loops, or commands that a return or an assigned call keeps
   from being reached: what it evaluates is all there is in the functions that
   main reaches. *)
RECURSIVE Has(_, _)
Has(term, type) ==
  \/ term.type = type
  \/ \E i \in DOMAIN Subterms(term) : Has(Subterms(term)[i], type)

RECURSIVE StraightTerm(_)
StraightTerm(term) ==
  /\ term.type # "While"
  /\ term.type = "Comp" => ~Has(term.comm1, "Return")
  /\ term.type = "Assign" => term.expr.type # "Call"
  /\ \A i \in DOMAIN Subterms(term) : StraightTerm(Subterms(term)[i])

Straight(program) ==
  \A f \in FunctionNames(program) : StraightTerm(Prog_func(program, f).body)

RECURSIVE Reachable(_, _)
Reachable(program, names) ==
  LET more == names \cup UNION {Callees(Prog_func(program, f).body) :
                                 f \in names \cap FunctionNames(program)}
  IN  IF more = names THEN names ELSE Reachable(program, more)

RECURSIVE CallsFit(_, _)
CallsFit(program, term) ==
  /\ term.type = "Call" /\ term.num \in FunctionNames(program) =>
       Len(term.args) = Prog_func(program, term.num).num_args
  /\ \A i \in DOMAIN Subterms(term) : CallsFit(program, Subterms(term)[i])

(* The runtime errors that are there to be found in the functions that main
   reaches. *)
Faults(program, numArgs) ==
  LET bodies == {Prog_func(program, f).body :
                   f \in Reachable(program, {0}) \cap FunctionNames(program)}
  IN  (IF Prog_func(program, 0).num_args = numArgs
          /\ \A body \in bodies : CallsFit(program, body)
         THEN {} ELSE {"iFailIncorrectNumArgs"})
      \cup (IF \A body \in bodies : Has(body, "Return")
              THEN {} ELSE {"iFailEndWithoutReturn"})

(* What the stages of main make of the input, a record of whether there is a
   file name (has_file), whether the file opens and parses, the program in it and
   the argument strings argv.  Where an earlier stage fails, or code cannot be
   generated, what the later ones make is not used.  preconfigured (prog_args
   happens to be the stack that the generated code expects), uses_call, straight,
   faults and prog only serve to state properties and theorems. *)
CommandLine(input) ==
  LET program == input.program
      argv    == input.argv
      numbers == prog_args(argv)
  IN  [prog          |-> program,
       has_file      |-> input.has_file,
       opens         |-> input.opens,
       parses        |-> input.parses,
       argv          |-> argv,
       initial_stack |-> numbers,
       outcome       |-> Source!interpret_Prog(program, numbers, Fuel),
       preconfigured |-> numbers = CodeGeneration!PreconfiguredStack(program, numbers),
       uses_call     |-> \E f \in FunctionNames(program) :
                           UsesCallDirectly(Prog_func(program, f).body),
       straight      |-> Straight(program),
       faults        |-> Faults(program, Len(argv)),
       can_generate  |-> CodeGeneration!CanGenerate(program),
       code          |-> IF CodeGeneration!CanGenerate(program)
                           THEN CodeGeneration!icodegen_Prog(program, 0).code
                           ELSE <<>>]
=============================================================================
