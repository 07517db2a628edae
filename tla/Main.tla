-------------------------------- MODULE Main --------------------------------
(***************************************************************************)
(* The program itself (main.c): reads a file and arguments, interprets the *)
(* syntax tree, generates icode, and executes it twice, with the icode and *)
(* the VMCode interpreter, printing the three results.                     *)
(*                                                                         *)
(* A command line is modelled by what its stages make of it: whether there *)
(* is a file name, whether the file opens, what the parser returns, and    *)
(* the argument strings.  The two machines run in the same variables, one  *)
(* after the other; icode_interpreter and vmcode_interpreter allocate      *)
(* their state anew.                                                       *)
(***************************************************************************)
EXTENDS Integers, Sequences

LOCAL INSTANCE Functions

CONSTANTS
  CommandLines,  (* The command lines: records with fields has_file (there is *)
                 (* a file name), opens (the file does) and parses, the       *)
                 (* argument strings argv, initial_stack (prog_args of them), *)
                 (* the outcome of interpret_Prog, and can_generate and code: *)
                 (* whether icodegen_Prog returns, and what.  MainInput makes *)
                 (* them of programs and arguments, and adds the program and  *)
                 (* some more that properties are stated with.                *)
  StackSize, MaxInt, Uninit   (* as in ICodeMachine                           *)

VARIABLES
  stage,       (* where main is                                            *)
  printed,     (* the results printed so far                               *)
  cmdline,     (* the command line; never changes                          *)
  registers, stack, status   (* of the machine at work                     *)

mainvars == <<stage, printed, cmdline, registers, stack, status>>

Stages == {"arguments", "open", "parse", "parse arguments", "interpret",
           "generate", "icode", "vmcode", "exit success", "exit failure"}

Printed(kind, value) == [type |-> kind, result |-> value]

NothingPrinted == Printed("nothing", 0)

(* What is executed: the code of a command line that has any, with its prog_args
   as the initial stack. *)
Runnable == {line \in CommandLines : line.can_generate}

ICodeRun  == INSTANCE ICodeMachine  WITH Jobs <- Runnable, job <- cmdline
VMCodeRun == INSTANCE VMCodeMachine WITH Jobs <- Runnable, job <- cmdline,
                                       vmstatus <- status
----------------------------------------------------------------------------
(* str_to_int: a string is a sequence of characters, the digits being the
   numbers 0 to 9 and any other character a greater one.  The value wraps; a
   character that is no digit, a sign included, fails. *)
Digits == 0 .. 9

IsNumber(str) == \A i \in DOMAIN str : str[i] \in Digits

WrapInt(n) == ((n + MaxInt + 1) % (2 * (MaxInt + 1))) - (MaxInt + 1)

(* Mutant: digits are added up without being shifted into place. *)
DigitSum(str) == FoldFunction(LAMBDA d, e : WrapInt(d + e), 0, str)

str_to_int(str) ==
  LET result[i \in 0 .. Len(str)] ==
        IF i = 0 THEN 0 ELSE WrapInt(WrapInt(result[i - 1] * 10) + str[i])
  IN  result[Len(str)]

(* What the argument loop collects; it is not used unless all are numbers. *)
prog_args(argv) ==
  IF \A i \in DOMAIN argv : IsNumber(argv[i])
    THEN [i \in DOMAIN argv |-> str_to_int(argv[i])]
    ELSE <<>>

(* The assumptions of ICodeMachine. *)
ASSUME MainMaxIntAssumption == MaxInt \in Nat \ {0}
ASSUME MainUninitAssumption == Uninit \notin Int
ASSUME MainStackSizeAssumption == StackSize \in 1 .. MaxInt
ASSUME RunnableAssumption == \A line \in Runnable : ICodeRun!WellFormed(line)

(* Arguments are strings, and are given to the program as str_to_int reads them. *)
ASSUME CommandLinesAssumption ==
  \A line \in CommandLines :
    /\ line.argv \in Seq(Seq(Nat))
    /\ line.initial_stack = prog_args(line.argv)

----------------------------------------------------------------------------
MainInit ==
  /\ stage = "arguments"
  /\ printed = [interpreter |-> NothingPrinted, icode |-> NothingPrinted,
                vmcode |-> NothingPrinted]
  /\ cmdline \in CommandLines
  /\ registers = <<>> /\ stack = <<>> /\ status = "not started"

(* A check that ends the process when it fails. *)
Check(here, condition, next) ==
  /\ stage = here
  /\ stage' = IF condition THEN next ELSE "exit failure"
  /\ UNCHANGED <<printed, cmdline, registers, stack, status>>

CheckArguments == Check("arguments", cmdline.has_file, "open")

OpenFile == Check("open", cmdline.opens, "parse")

Parse == Check("parse", cmdline.parses, "parse arguments")

ParseArguments ==
  Check("parse arguments",
        \A i \in DOMAIN cmdline.argv : IsNumber(cmdline.argv[i]), "interpret")

(* The result, or the runtime error, is printed; main goes on either way.  An
   interpreter that runs for ever leaves main here. *)
Interpret ==
  LET res == cmdline.outcome
  IN  /\ stage = "interpret"
      /\ res.type # "out of fuel"
      /\ IF res.type = "exit"
           THEN stage' = "exit failure" /\ UNCHANGED printed
           ELSE /\ stage' = "generate"
                /\ printed' = [printed EXCEPT !.interpreter =
                                 Printed(res.type, res.result)]
      /\ UNCHANGED <<cmdline, registers, stack, status>>

(* Mutant: the second machine continues on the stack of the first. *)
StartOnUsedStack ==
  /\ registers' = ICodeRun!InitialRegisters
  /\ stack' = IF stage = "generate" THEN ICodeRun!InitialStack ELSE stack
  /\ status' = IF ICodeRun!HasNegativeLabel THEN "negative label" ELSE "running"

(* The machines start from the same state: code, and prog_args as the stack. *)
StartMachine ==
  /\ registers' = ICodeRun!InitialRegisters
  /\ stack' = ICodeRun!InitialStack
  /\ status' = IF ICodeRun!HasNegativeLabel THEN "negative label" ELSE "running"

Generate ==
  /\ stage = "generate"
  /\ IF cmdline.can_generate
       THEN stage' = "icode" /\ StartMachine
       ELSE stage' = "exit failure" /\ UNCHANGED <<registers, stack, status>>
  /\ UNCHANGED <<printed, cmdline>>

StepICode ==
  /\ stage = "icode"
  /\ ICodeRun!Next
  /\ UNCHANGED <<stage, printed>>

(* Mutant: a result is printed whether the run succeeded or not. *)
PrintAfterError ==
  /\ stage = "icode" /\ status # "running"
  /\ printed' = [printed EXCEPT !.icode = Printed("iSuccess", ICodeRun!Result)]
  /\ stage' = "vmcode"
  /\ StartMachine
  /\ UNCHANGED cmdline

PrintICodeResult ==
  /\ stage = "icode" /\ status = "halted"
  /\ printed' = [printed EXCEPT !.icode = Printed("iSuccess", ICodeRun!Result)]
  /\ stage' = "vmcode"
  /\ StartMachine
  /\ UNCHANGED cmdline

(* Mutant: an error does not end the process. *)
RetryAfterError ==
  /\ stage = "icode" /\ status \notin {"running", "halted"}
  /\ status' = "running"
  /\ UNCHANGED <<stage, printed, cmdline, registers, stack>>

(* ERROR ends the process. *)
ICodeError ==
  /\ stage = "icode" /\ status \notin {"running", "halted"}
  /\ stage' = "exit failure"
  /\ UNCHANGED <<printed, cmdline, registers, stack, status>>

StepVMCode ==
  /\ stage = "vmcode"
  /\ VMCodeRun!VMNext
  /\ UNCHANGED <<stage, printed>>

PrintVMCodeResult ==
  /\ stage = "vmcode" /\ status = "halted"
  /\ printed' = [printed EXCEPT !.vmcode = Printed("iSuccess", VMCodeRun!VMResult)]
  /\ stage' = "exit success"
  /\ UNCHANGED <<cmdline, registers, stack, status>>

MainNext ==
  \/ CheckArguments \/ OpenFile \/ Parse \/ ParseArguments
  \/ Interpret \/ Generate
  \/ StepICode \/ PrintICodeResult \/ ICodeError
  \/ StepVMCode \/ PrintVMCodeResult

MainSpec == MainInit /\ [][MainNext]_mainvars

FairMainSpec == MainSpec /\ WF_mainvars(MainNext)
----------------------------------------------------------------------------
Ended == stage \in {"exit success", "exit failure"}

MainTypeOK ==
  /\ stage \in Stages
  /\ cmdline \in CommandLines
  /\ stage \in {"icode", "vmcode", "exit success"} =>
       /\ registers \in [ICodeRun!RegisterFile -> ICodeRun!Value]
       /\ stack \in [0 .. StackSize - 1 -> ICodeRun!Value]
       /\ status \in ICodeRun!Statuses \cup VMCodeRun!VMStatuses

(* No step of the first execution depends on memory that nobody wrote, not even in
   a program that is wrong.  Then there is one way that it can go, and the second
   execution goes the same. *)
NoStepIsOpen ==
  stage = "icode" /\ status = "running" =>
    ~ICodeRun!IsOpen(cmdline.code, registers, stack)

(* The interpreter that checks nothing is only ever given a run that the
   checking one has just finished, so none of its accesses goes wild, even for
   programs that are wrong: too few or too many arguments, a function without a
   return, a main with local variables. *)
VMCodeNeverGoesWild ==
  status \notin {"wild access above", "wild access below", "wild fetch"}

(* The second execution prints what the first one did. *)
ExecutionsAgree == stage = "exit success" => printed.icode = printed.vmcode

(* The three results are the same. *)
ResultsAgree ==
  stage = "exit success" =>
    /\ printed.icode = printed.interpreter
    /\ printed.vmcode = printed.interpreter

(* They are, at least, for a program that the interpreter could run, when the
   arguments happen to be the stack that the generated code expects and no call's
   result is taken for a return. *)
ResultsAgreeIfPreconfigured ==
  /\ printed.interpreter.type = "iSuccess"
  /\ cmdline.preconfigured
  /\ ~cmdline.uses_call
  => ResultsAgree

(* With such arguments, a program that the interpreter could run is executed to
   the end, unless it calls a function that does not exist: even a call that is
   never reached ends main where code is generated for it. *)
ExecutesWhatItInterprets ==
  Ended /\ printed.interpreter.type = "iSuccess"
        /\ cmdline.preconfigured /\ cmdline.can_generate
    => stage = "exit success"

(* "Proceeds through the interpreter pipeline, checking the output of each
   stage for errors, and halting early if necessary" (main.c:14-17). *)
HaltsEarly ==
  stage \in {"icode", "vmcode"} => printed.interpreter.type = "iSuccess"

(* A call of a function that does not exist is reported: main has a message
   for it (main.c:105-107), "Runtime Error: Call to an undefined function." *)
UndefinedCallIsReported ==
  stage = "exit failure" /\ cmdline.parses /\ ~cmdline.can_generate =>
    printed.interpreter # NothingPrinted

(* A runtime error is never lost, however deep in arguments of arguments and
   operands it happens, and none is made up (interpreter.c:213-229): a straight
   program is printed a result for if there is no error in what it evaluates,
   and otherwise one of its errors. *)
FailuresReachTheTop ==
  cmdline.straight /\ printed.interpreter # NothingPrinted =>
    IF cmdline.faults = {} THEN printed.interpreter.type = "iSuccess"
                           ELSE printed.interpreter.type \in cmdline.faults

(* The number a string of digits stands for. *)
Decimal(str) ==
  LET value[i \in 0 .. Len(str)] ==
        IF i = 0 THEN 0 ELSE 10 * value[i - 1] + str[i]
  IN  value[Len(str)]

(* Past the argument loop (main.c:72-94) all arguments were digits, and each is
   the number it stands for exactly if that fits an int: str_to_int has no check
   for the ones that do not. *)
ArgumentsAreRead ==
  stage \in {"interpret", "generate", "icode", "vmcode", "exit success"} =>
    \A i \in DOMAIN cmdline.argv :
      /\ IsNumber(cmdline.argv[i])
      /\ cmdline.initial_stack[i] = Decimal(cmdline.argv[i])
           <=> Decimal(cmdline.argv[i]) <= MaxInt

(* Unless the program itself runs for ever, main exits. *)
MainExits == <>Ended
=============================================================================
