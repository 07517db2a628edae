-------------------------------- MODULE MCMain --------------------------------
(* Command lines for TLC. *)
EXTENDS MainInput, TestingPrograms

Input(stages, program, argv) ==
  [has_file |-> "name" \in stages, opens |-> "file" \in stages,
   parses |-> "program" \in stages, program |-> program, argv |-> argv]

Runs(programs, argvs) ==
  {Input({"name", "file", "program"}, p, argv) : p \in programs, argv \in argvs}

(* Argument lists. *)
NotADigit == 10
None == { <<>> }
One  == { << <<0>> >>, << <<2>> >>, << <<1, 2>> >> }
Two  == { << <<1>>, <<2>> >>, << <<2>>, <<2>> >>, << <<3>>, <<1>> >> }

(* Programs whose main has at most one variable, or is also given arguments of
   which it does not matter which is which. *)
AgreeingLines ==
  UNION {Runs({tp0}, None), Runs({tp1, tp4, tp6}, One), Runs({tp2, logic}, Two),
         Runs({fibonacci}, { << <<2>> >>, << <<4>> >> })}

(* Command lines that some stage refuses. *)
RefusedLines ==
  {Input(stages, tp0, <<>>) : stages \in {{}, {"name"}, {"name", "file"}}}
    \cup Runs({tp1}, { << <<NotADigit, 5>> >> })

Main0(body) == Func_init(0, 0, 0, body)

(* main() { return missing() } *)
undefinedCall == <<Main0(Return_init(Call_init(1, <<>>)))>>

(* main() { while 0 do { return missing() }; return 1 } *)
unreachedUndefinedCall ==
  <<Main0(Comp_init(While_init(Int_init(0), Return_init(Call_init(1, <<>>))),
                    Return_init(Int_init(1))))>>

(* main() { return f(1) }  f() { return 3 }: one argument too many. *)
wrongArity == <<Main0(Return_init(Call_init(1, <<Int_init(1)>>))),
                Func_init(1, 0, 0, Return_init(Int_init(3)))>>

(* main(a) { while a do { return 1 } }, followed by nothing or by a function. *)
noReturn ==
  <<Func_init(0, 1, 1, While_init(Var_init(0), Return_init(Int_init(1))))>>

fallsThrough == noReturn \o <<Func_init(1, 1, 2, Return_init(Var_init(0)))>>

(* Arguments in the wrong order or number, or a call that is taken for a return. *)
MisstartedLines ==
  UNION {Runs({tp1, tp3, tp5, nestedCalls}, Two), Runs({assignedCall}, One),
         Runs({tp1}, None)}

WrongLines ==
  UNION {MisstartedLines, Runs({noReturn, fallsThrough}, One),
         Runs({undefinedCall, unreachedUndefinedCall, wrongArity}, None)}

(* main() { return pair(x, y) }, where x and y are or contain calls that may fail,
   pair(a, b) { return a + b }  one() { return 1 }  stuck() { } *)
Pair(x, y) == Call_init(1, <<x, y>>)
OneCall(as) == Call_init(2, as)
Stuck == Call_init(3, <<>>)

pairOf(x, y) ==
  <<Main0(Return_init(Pair(x, y))),
    Func_init(1, 2, 2, Return_init(Add_init(Var_init(0), Var_init(1)))),
    Func_init(2, 0, 0, Return_init(Int_init(1))),
    Func_init(3, 0, 1, Assign_init(0, Int_init(1)))>>

Operands ==
  {Int_init(5), OneCall(<<>>), OneCall(<<Int_init(0)>>), Stuck}

Arguments ==
  Operands \cup {Pair(OneCall(<<>>), Stuck), Add_init(Stuck, Int_init(5)),
                 Sub_init(Int_init(5), OneCall(<<Int_init(0)>>))}

(* main() { return pair(x) }, one argument too few, and
   main() { v := x + 1; return v } *)
oneOf(x) == <<Main0(Return_init(Call_init(1, <<x>>)))>> \o Tail(pairOf(x, x))

assigned(x) ==
  <<Func_init(0, 0, 1, Comp_init(Assign_init(0, Add_init(x, Int_init(1))),
                                 Return_init(Var_init(0))))>>
    \o Tail(pairOf(x, x))

FailingLines ==
  Runs({pairOf(x, y) : x, y \in Arguments}
         \cup {oneOf(x) : x \in Operands} \cup {assigned(x) : x \in Arguments},
       None)

(* Arguments to main(a) { return a } at the limits of an int, which here has ten
   bits, with leading zeros, without a digit, and with a sign. *)
ArgumentStrings ==
  { <<5, 1, 1>>, <<5, 1, 2>>, <<1, 0, 2, 4>>, <<0, 0, 7>>, <<9>>, <<>>,
    <<NotADigit, 5>>, <<5, NotADigit>> }

NumberLines == Runs({tp1}, {<<str>> : str \in ArgumentStrings})

(* The values of these are computed once. *)
Lines(inputs) == {CommandLine(input) : input \in inputs}
Any == Lines(UNION {AgreeingLines, RefusedLines, WrongLines, FailingLines,
                   NumberLines})
AnyLines == Any

(* main(a, b) { a := inc(a); return a - b }  inc(a) { return a + 1 }, of 5 and 2.  It is
   4; 6 if main is left at the assignment; -2 if the arguments are exchanged. *)
assignedDifference ==
  <<Func_init(0, 2, 2, Comp_init(Assign_init(0, Call_init(1, <<Var_init(0)>>)), tp3[1].body)),
    assignedCall[2]>>
DisagreeingLines == Lines(Runs({assignedDifference}, { << <<5>>, <<2>> >> }))
NoReturnLines == Lines(Runs({fallsThrough}, One))
UndefinedCallLines == Lines(Runs({undefinedCall}, None))
----------------------------------------------------------------------------
(* Programs whose functions return, and whose calls fit. *)
Usual == Lines(AgreeingLines \cup MisstartedLines)

Theorems == INSTANCE Evaluation
              WITH Jobs <- Runnable, job <- cmdline, activations <- <<>>

Generator == INSTANCE CallTables
Evaluator == INSTANCE EvaluationTables

(* The theorems about generated code are about these, among others, ... *)
ASSUME \A line \in Usual : Theorems!GeneratedWith(line, Generator!Tables(line.prog))

(* ... and those about the interpreter's results about these of them. *)
Agreeing ==
  {line \in Usual : line.outcome.type = "iSuccess" /\ line.preconfigured /\ ~line.uses_call}

ASSUME \A line \in Agreeing :
  LET numbers == line.initial_stack
  IN  /\ numbers = Theorems!PreconfiguredStack(line.prog, numbers)
      /\ Theorems!IsInterpreted(line.prog, numbers, line.outcome,
                                Evaluator!Run(line.prog, numbers))
=============================================================================
