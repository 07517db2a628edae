# A formal model of MiniJIT

MiniJIT reads a program of a small *while* language (`main a, b { while a - b do
{ a := a - 1 }; return f(a) }`), interprets its syntax tree, compiles it to an
intermediate code, and executes that code twice, with two interpreters. This
directory models those parts in TLA+, checks them with TLC and proves some of
what is checked with TLAPS.

Paths are relative to the repository; the C files are in `src/src/`, the tests in
`src/test/`.

## The system

| component | code | state | operations | what makes it correct |
|---|---|---|---|---|
| main | `main.c` | the stage, the arguments, the three results | check arguments, open, parse, read arguments, interpret, generate, execute twice, print | exits early where something fails; the three results agree |
| lexer | `lexer.l` | the tokens so far, the name map | one token at a time | equal names get equal numbers |
| parser | `parser.y` | the tree, name maps of variables and functions | reduce | every name of a function or variable becomes its own index |
| syntax | `syntax.c` | trees | constructors, equality, printing, freeing | - |
| type checker | `typecheck.c` | - | unfinished, unused | - |
| interpreter | `interpreter.c` | one store per call, a returning flag per result | `interpret_Prog/Func/Comm/Expr` | a function returns at its first return; every failure reaches the caller |
| code generator | `icodegen.c` | the next label | `icodegen_Prog/Func/Comm/Expr` | the calling convention: frames, saved registers, stack discipline; the code computes what the program means |
| icode | `icode.c` | operations | constructor, printing | - |
| icode interpreter | `icode_interpreter.c` | registers, stack, label table | one step per opcode, `ERROR` | every access is inside its array |
| VMCode | `vmcodegen.c`, `vmcode_interpreter.c` | a flat array of ints, and the state of the icode interpreter | the same opcodes, unchecked | does what the icode interpreter does |
| native code | `ncode.c`, `ncodegen.c` | a buffer of bytes, link targets, a label map | generate; linking is not implemented; only the tests run templates | sizes, offsets and targets; each template does what its test asserts |
| utilities | `util.c`, `util.h` | vectors | get, set, append, insert, remove; `str_to_int`; `ERROR` | a vector is a sequence |

How they interact: `main` calls each stage in turn and hands over its result; all
is one thread in one process and nothing is persisted. `ERROR` (`util.h:267`) ends
the process from any depth. The two executions get the same operations and the
same initial stack, and allocate everything else anew; the VMCode interpreter
does so by building an icode interpreter state and taking over its registers,
stack and labels (`vmcode_interpreter.c:18`).

What is hard here is neither concurrency nor recovery, of which there is none, but

- **a protocol between pieces of generated code**: caller and callee, expression
  and temporary, loop head and loop end agree on what is on the stack only if
  `icodegen.c` is right in every combination of nesting;
- **machine code written as bytes**: tables of operand bytes, sizes and offsets kept
  apart from the templates they measure, and relative jumps across them;
- **three implementations of one language** that must agree, at the ends of the
  int range and for wrong programs, too;
- **memory nobody wrote**: `malloc`ed registers, stack and labels are never
  cleared, so an operation may read anything;
- **unchecked accesses** of the VMCode interpreter, safe only because of what ran
  before it;
- **indices into maps** built in one pass and used in another: the lexer's numbers,
  the variables of a function, the functions of a program;
- **failures in the middle** of `main`, after which the next stages may run;
- **termination**: the loops of both machines end only at a `HALT`, or an error.

PROJECT.json lists every hazard with its line and the properties aimed at it.

## The modules

| module | models | how |
|---|---|---|
| `ICode` | `icode.h` | registers, opcodes, operations, and which arguments name a register |
| `ICodeMachine` | `icode_interpreter.c` | `registers`, `stack`, `status`; one action per `case` of `ICodeInterpreterState_step` (two for `JUMPCOND`), one per `ERROR`, and `Halt` for the end of the loop |
| `ICodeMachine_proof` | - | proofs about it: the types of its state, that its steps are determined, and where each operation takes it |
| `Induction` | - | for proofs: induction over numbers, and that a recursive function over them exists |
| `VMCodeMachine` | `vmcodegen.c`, `vmcode_interpreter.c` | the same state; one action per case of the loop, dispatching on cells of the flat array; `WildAccess` and `WildFetch` where it would leave an array |
| `VMCodeMachine_proof` | - | the proof that it implements `ICodeMachine` |
| `HandWrittenCode` | - | code to run on the two machines |
| `Syntax` | `syntax.h`, `syntax.c` | trees as records |
| `InterpreterSteps` | `interpreter.c` | what one call of each function makes of the results of the calls in it; nothing in it is recursive; `ExprResult`, `LoopResult`, `CommResult` and `CallResult` take the calls as operators, and PROJECT.json maps their lines at the functions of `Interpreter` that apply them |
| `Interpreter` | `interpreter.c` | the recursion: operators from a term and a store to a result and a store |
| `IcodegenSteps` | `icodegen.c` | what one call of each function makes of what the calls in it return; nothing in it is recursive, so that it can be proved about; the lines of `ExprCode`, `CommCode` and `ProgCode`, which take the calls as operators, are mapped at the functions of `Icodegen` |
| `Icodegen` | `icodegen.c` | the recursion: operators from a term to operations |
| `CallingConvention` | the machine running the functions of a program | `activations` is a history of the calls; what caller and callee owe each other; for which jobs (`IsGenerated`) |
| `Evaluation` | the machine running a program that the interpreter finishes | what the interpreter did, as a table of its calls (`IsEvaluation`), next to the machine |
| `CallingConvention_proof` | - | the proofs that generated code keeps the convention, and that it computes what the interpreter does |
| `CallTables`, `EvaluationTables` | - | the tables of the generator's and of the interpreter's calls that `IsGenerated` and `IsEvaluation` ask for, made by `Icodegen` and `Interpreter` |
| `CompiledExecution` | generated code from source program to result | composes the machine, the generator and the interpreter |
| `TestingPrograms` | `testing_programs.c`, `examples/` | the programs as trees, with the value of their C versions |
| `Lexer` | `lexer.l` | `tokens`, `name_map`, `next_int_name`, `lexer_result`; one action per kind of word, two for names (known or new), and the end, where the name map is turned round |
| `Parser` | `parser.y` | bison's stack `symbols`, the token read ahead, `errors`, `parse_result`; one action per rule of the grammar with its semantic action, `ReadToken` and `SkipErrorToken` (`yylex`), `Shift`, `SyntaxError`, `Accept`; composed with `Lexer`, which it follows |
| `NameMaps` | `lease_name` of `parser.y` | name maps as sequences, and what a sequence of names makes of one |
| `Walks` | `parser.y`, from line 458 | what the functions that complete the name maps do at one node of a tree |
| `Terms` | the same | the recursive operators that do that at every node. `Parser` has them as the constants `VariablesOf`, `CallsOf`, `Renamed` and `CalleesOf`, so that it declares nothing recursive and can be proved about; the configurations give them their values |
| `Parser_proof` | - | proofs about the lexer, the name maps and the walks, the parser and the linked program |
| `Language` | - | what the parser is held against: the sentences of the grammar, without a machine, and a program read back as words; its properties are recursive over trees |
| `Vector` | `util.h`, `util.c` | `arr`, `size`, `arr_size`, `bytes`, and `call`, the operation being executed; one action per step of a loop or a recursion |
| `ListCalls`, `ListSpec` | - | the calls of a vector, and what it promises: a list |
| `Vector_proof` | - | proofs about it |
| `NCode` | `ncode.h`, `ncode.c` | the templates as sequences of bytes, their sizes and address offsets, the register tables |
| `Ncodegen` | `ncodegen.c` | `ncode_buf` and its index, `link_targets`, `label_map`; one action per kind of turn of the loop of `ncode_gen`, and `ncode_link` |
| `NativeContract` | `test_ncode.c` | what the tests assert of each template: one step on registers and memory |
| `NativeExecution` | `test_ncode.c`, the processor | the code of the tests, decoded and executed from its bytes; composed with `Ncodegen`, whose code of the same operations it is compared with |
| `NativeBasics` | - | what the last two share: bytes of numbers, memory, which operation follows |
| `NativeExecution_proof` | - | proofs about the generator, its templates, the code of the tests and the label map |
| `Main` | `main.c`, `str_to_int` of `util.c` | one action per stage; `cmdline` is what the stages make of a command line; composes both machines, in the same variables one after the other |
| `MainInput` | - | command lines from programs and arguments, by the interpreter and the code generator |
| `Main_proof` | - | proofs about it |
| `MCVMCode`, `MCCompiledExecution`, `MCMain`, `MCParser`, `MCVector`, `MCNative` | - | the instances that TLC checks |

Conventions:

- **Words.** `int` is two's complement with `INT_MAX` = `MaxInt`. Signed overflow
  is undefined in C; the model says what the build computes, which wraps.
- **Uninitialised memory** is the value `Uninit`. It is copied like a value and
  makes a sum `Uninit`; where a step depends on it (as an address, a jump target,
  a guard) the step may take any int. A label that is never defined may be
  any address: its table entry was never written, or lies outside the table.
- **Undefined accesses** of the VMCode interpreter end the run with a `wild`
  status. Nothing is claimed about what happens afterwards.
- **Words of a source.** A source is a sequence of words, as flex splits it; `Literals`
  says which of them are numbers, and how large. Names are strings, and anything
  else is a word flex has no rule for.
- **Tables.** bison's tables are generated. `MayShift`, `OnTop` and `Consistent` state
  what they do for this grammar: shift where that is possible (this settles the
  grammar's conflicts), reduce otherwise, and read a token only in a state that
  has a choice. `AcceptsTheGrammar` checks the statement against the grammar, and
  `SourceIsRecovered` depends on when a token is read.
- **Data.** Messages, printing, deallocation and source positions are left out.
  A command line is what its stages make of it. `Interpreter` and `Icodegen` are
  operators, not actions: nothing observes them half-way, and `main` is stopped
  in them only by `ERROR` (`ProcessExit`, `CanGenerate`) or by an endless program
  (`OutOfFuel`).
- **Bytes.** A byte is a member of 0..255 in code. The numbers that native code
  computes with have bytes of base `ByteBase`, of which the processor has 256
  and TLC's instance 4: TLC's integers could not hold 8 bytes. What is
  truncated to 4 bytes, and what a number looks like in memory, depends on the
  base in the same way.
- **The processor** is external: `NativeExecution` has the instructions that
  templates consist of, as they are encoded, and faults at all others.
- **Mutants.** An operator marked `Mutant:` is the definition that follows it
  with a mistake in it. No specification uses it; PROJECT.json says which
  property fails when it takes the place of the original.

## What the runs check

Twelve runs; each ends within a minute.

**`vmcode`** (61 220 states). The VMCode interpreter on every sequence of three of 14
operations, and on a few special codes, with a stack of 4 and ints from -8 to 7. The
alphabet has every opcode, reads registers and cells before anything is written
to them, writes the program counter, and jumps to labels that exist or do not:
three operations are enough to combine a source of an odd value, a computation,
and a use of it. `ImplementsICodeMachine` is refinement: under the mapping
`StatusOf`, every behaviour is one of the icode interpreter, fairness included.
A `wild` access maps to the `ERROR` the icode interpreter reports at that point.
The icode interpreter's own steps are thereby all taken, errors among them.

**`compiled`** (65 306 states). What the code generator produces, executed from the stack
it asks for, for 698 programs and arguments: the test programs with the values of their C
versions (also at the ends of the int range), both examples, nested calls, and 564
generated programs: every expression of an operation over leaves with a leaf on
one side, returned, and every smaller one in a loop and in a loop with a nested
loop that may return. A callee with a local variable, nested calls and
temporaries on the stack occur in all combinations. Six programs are also started as
`main.c` starts them, with none to four arguments where the code asks for a frame of one to
three cells: 186 jobs more. Nothing is expected of their results (`StartOn`). Safety:

- `TypeOK`, and `RegistersAreAllocated`: the scan that sizes the register file
  covers what every operation uses. It does so only because the code tests no
  register but the accumulator: the scan's branch for `JUMPCOND` is empty
  (`icode_interpreter.c:68`), and a register that only a `JUMPCOND` names, as in the hand-written
  code of `vmcode` (`Special`), is read outside the array. What holds of any code,
  `OnlyTestsMayLeaveTheFile`, is proved below;
- `CallersAreUntouched`: whatever is below the frame of an active function stays
  as it was at its entry;
- `ReturnsAsEntered`: a return goes to the call that entered the function, with
  stack and frame pointer as they were;
- `LabelsAreClean`, `HaltsClean`: commands leave nothing on the stack, so loops
  run in constant space;
- `NothingUninitialisedIsUsed`: no operation uses a register or a cell nobody wrote;
- `OnlyOverflowAborts`: of all errors only a stack overflow may occur, and an underflow
  where main was not given its frame (`Framed`);
- `ComputesExpected`, `AgreesWithInterpreter`: the result is that of the C version,
  and of the syntax interpreter.

Liveness: `HaltsWhenInterpreterDoes`, and `RunawayOverflows` (endless recursion is
caught by the bounds check). A stack of 32 holds Fibonacci of 4 and is overrun by
the programs that call themselves for ever; `MaxInt` = 511 is above every address
and label and low enough that sums overflow; 12 units of `Fuel` are more than the
deepest terminating run spends, so only endless programs run out of it.

**`main`** (17 647 states). 114 command lines: ones that each stage refuses, ones that
work, programs with a wrong number of arguments, without a return, with calls of undefined
functions, reached or not; calls of which one argument, or an argument of an
argument, fails, before or after others; and arguments at the limits of an int,
beyond them, empty, with leading zeros or a sign. `NoStepIsOpen`: none
of these executions, those of wrong programs among them, reads memory that nobody wrote
where a step depends on it; it is what the proofs about `Main` assume.
`VMCodeNeverGoesWild`: the unchecked interpreter is only given runs that the checking
one has finished.
`ExecutionsAgree`, `ResultsAgreeIfPreconfigured`, `ExecutesWhatItInterprets`.
`FailuresReachTheTop`: a failure is printed exactly if something that is evaluated
fails, and is one of those failures. `ArgumentsAreRead`: an argument that gets
past the checks is the number its digits stand for exactly if that fits an int.
`MainExits`.

**`parser`** (81 182 states). 822 sources: every command out of a small set as a body, with
every list of arguments; two to four functions that call each other, of the same
name, too; one program with a second function in which each word in turn is
dropped, doubled, exchanged with the next, or replaced by each kind of word, one
that flex has no rule for among them; the texts of the test programs; and the
empty file. `MaxInt` = 15 is less than one of the literals. `AcceptsTheGrammar` and `SourceIsRecovered`: the program is the source,
nothing lost or exchanged, and there is one exactly for the sentences of the
grammar of `parser.y`. `NestsToTheRight`: no associativity is declared, so `a - b - c` is
`a - (b - c)`. `NamesAreTheirNumbers`, `VariablesAreDistinct`,
`CallsReachTheirFunctionIfNamedOnce`: the three maps give each name an index of its
own, and a call the position of its function. `TestProgramsParse`: the trees of
`TestingPrograms` are what the texts mean. `ParserEnds`. The run also evaluates
`TermsAreWalkedThrough`: what the proofs take of the walks holds of those of `Terms`, here on
the test programs.

**`parser_documented_language`** (violation). The grammar in the repository's `README.md`
is another one, and `AcceptsTheDocumentedLanguage`, which is `AcceptsTheGrammar` for it,
fails. It has a product, which the code refuses: this is the run's trace. And its
programs start with `main`, where `parser.y:169` takes any function: on the other source of
the run alone the property fails as well.

**`parser_duplicate_function`** (violation). The same without "named once": if a
program has two functions of a name, indices and positions differ, and calls go to
other functions than the ones they name.

**`vector`** (74 193 states). Every sequence of calls of a vector of 2 kinds of elements,
with indices inside and outside, whose array of 3 doubles once and would then need
more bytes than an int holds: a limit of the code, not of the run. `ImplementsList`
is refinement: from a call on, the vector is the list that the call is to
leave (`ListOf`), whatever the recursion still carries. `InsideItsBlock`, `CallsReturn`.

**`ncode`** (23 618 states). Native code for `MOVE`, `ADD` and `SUB` on every pair of
registers, with values that overflow; constants, stores and loads through every
register; stores that overlap; branches on both sides of zero; a loop; calls
that return through every register, nested calls, labels out of order and two
at one place; and code that is refused, runs off its end or leaves itself. The
stack is once below and once above what 4 bytes can address, and memory nobody wrote
all zeros or all ones.

- `ImplementsContract` is refinement: the bytes, decoded and executed one
  instruction at a time, do what `NativeContract` does in one step per operation.
  An instruction inside a template is a stutter.
- `GeneratesTheTestedCode`: what `ncode_gen` writes, with its link targets filled
  in, is byte by byte the code that the tests put together by hand.
- `LabelMapFindsLabels`: where labels occur in numerical order, the label map,
  read by number, has their places.
- `GeneratedCodeFits`: the buffer, allocated for the longest template, is never
  overrun, and the addresses to link lie in it apart from each other.
- `NTypeOK`; liveness: `CallsEnd`.

**`ncode_documented`** (violation). The contract says what the templates' tests assert, and
`icode.h` says otherwise of `ADD` and `JUMPCOND` (see below). `ComputesAsDocumented` compares
the result with that of the same operations executed as `icode.h` describes them. The one
program gives a different number for each of the two differences, and for both: 10 as
documented, 5 natively.

Three violations state what the repository says of `main` and the code does not do
(the quotations are in PROJECT.json):

- `main_results` is two mistakes, of which one program shows that neither result is the right one.
  `main a, b { a := inc(a); return a - b }` of 5 and 2 is 4. The interpreter takes the value of
  a call that is assigned for a return, and prints 6. For the executions the arguments are on
  the stack in the wrong order, so they print -2; for the same reason a `main` with
  local variables underflows;
- `main_runtime_error`: after a runtime error of the interpreter main goes on;
- `main_undefined_call`: a call of an undefined function ends the process in
  a bounds check; the result and the message made for it are never used.

`CHECK_DEADLOCK FALSE` everywhere, as every run really ends: at a `HALT`, an
`ERROR`, or the exit of the process. That it ends only there is what the liveness
properties say.

**Fairness** is weak fairness of the whole next-state relation (`FairSpec`,
`FairVMSpec`, `FairCSpec`, `FairMainSpec`, `FairFrontEndSpec`, `FairNSpec`; for vectors of the steps
inside a call, as nobody must call one, `FairVectorSpec`): the process is a single thread in a loop
that takes its next step whenever there is one. Nothing is assumed about which
step is taken where uninitialised memory leaves a choice.

## What is proved

**The icode machine** (`ICodeMachine_proof`), for every set of jobs (any code whatever),
stack size, and width of int:

- `TypeCorrect`: `Spec => []TypeOK`. `TypeOK` is inductive as
  it stands. What it rests on: one wrap brings a sum of two words back (`WrapType`);
  every register an operation other than `JUMPCOND` names was allocated
  (`OperandsAllocated`); a label's address is a word even if the label does
  not exist (`LabelAddressType`); and the two ways a step ends,
  `SetAndAdvance` and `Goto`, keep the types.
- `OnlyTestsLeaveTheFile`: the machine names a register outside its array only in
  a `JUMPCOND`. From `TypeCorrect` and `OperandsAllocated`.

- `StepIsDetermined`: a step that is not open has one outcome. A `Configuration` is
  registers, stack and status, `IsOpen` says of a configuration that its operation
  depends on `Uninit`, and `After` is a function to the next configuration; every
  action with a closed configuration ends in its `After`. This is what makes
  executions comparable.

Assumptions: `MaxInt` is positive, the stack is not larger than an int can index,
`Uninit` is no int, and the jobs (`JobsAssumption`) have well-formed operations
with int arguments and registers from 0 up, no more of them than an int counts,
and an initial stack that fits - the code does not check that one.

**The VMCode interpreter** (`VMCodeMachine_proof`), for the same:

- `VMCodeImplementsICode`: `VMSpec => ICodeState!Spec`, the safety part of the
  refinement that the run `vmcode` checks. The VMCode interpreter reads cells of an
  array of ints and the icode interpreter elements of a vector; `CellOfOperation`
  is the layout that relates them (twelve ints to an operation, whose first is its
  opcode and whose arguments follow), `FetchedIsCurrent` says that the same
  operation is fetched, and `NothingFetched` that outside the code neither
  fetches anything. `StepImplements` then goes through the actions; wherever this
  one goes wild, that one has an `ERROR` to offer.
- `VMTypeCorrect`: `VMSpec => []VMTypeOK`. The steps need the types of the
  state, and these are not proved again: the theorems of `ICodeMachine_proof` are
  taken over through an instance of it under the same mapping (`Proved`), whose
  operators the lemmas named `Same...` show to be those of the refinement.

Assumptions: as above, for the code that both are given.

**Generated code** (`CallingConvention_proof`), for every program, whatever its size and
however deep its calls:

- `RegistersAlwaysAllocated`: `CSpec => []RegistersAreAllocated`;
- `NeverUsesUninitialised`: `CSpec => []NothingUninitialisedIsUsed`;
- `NeverTouchesCallers`: `CSpec => []CallersAreUntouched`;
- `AlwaysReturnsAsEntered`: `CSpec => ReturnsAsEntered`, an action property;
- `LabelsAlwaysClean`: `CSpec => []LabelsAreClean`;
- `AlwaysHaltsClean`: `CSpec => []HaltsClean /\ []OnlyOverflowAborts`;
- `NeverDependsOnLuck`: `CSpec => [](status = "running" => ~IsOpen(code, registers, stack))`,
  that no step has more than one outcome.

All hold with any number of arguments, as `main.c` starts the code: `main`'s frame may lie
partly or wholly below the stack, and then `OnlyOverflowAborts` allows the underflow. What is
above its end is written all the same.

That the jobs are generated is a hypothesis (`GeneratedJobs`). The generator is recursive,
over trees, so it is stated without the recursion: for each function there is a table of
the calls of `icodegen_Expr` and `icodegen_Comm` for its body and what they returned, each
made by `ExprCode` or `CommCode` of `IcodegenSteps` from what the calls inside it returned, and
a depth that decreases (`IsTable`); the code is `ProgCode` of the bodies. The operators of
`Icodegen`, which TLC executes, are that recursion. The rest of the hypothesis is what the
generator relies on and does not check: variables are in the frame (for parsed programs
that is `VariablesAlwaysStayInTheFrame`), a callee exists and has room for the arguments
among its variables, and every function ends in a return, for without one the machine would walk on
into the next function. The run `compiled` evaluates all of it for all its jobs
(`GeneratedWith`, with the tables from `Icodegen`): it is not empty. So does `main` for those of
its command lines whose programs are of this kind.

The proof has three parts, of which only the last knows the generator.

1. Code is typed, as bytecode is. A *point* is an address in a function with what is known
   there of the five registers that generated code names and of the temporaries on the stack: nothing,
   that it was written, a constant, the return address, or how far from the stack pointer on entry
   it points. `Allowed` says what must be known at a point for the operation there to
   be as it should, `Leads` which points come next, and `Consistent` of a set of points that the
   next ones are in it, or know less.
2. If there is such a set from main's entry on (`IsTyped`), the execution stays in it. The
   invariant (`Convention`): each function that has not returned stands at a point
   (`Chain`), the last of them where the machine is (`Holds`), the others at the call of the
   next, with what they know of their temporaries still true in what the callee promises not to touch
   (`Suspended`). That `CallersAreUntouched` is part of it is essential, and that only the
   part of a caller's stack that is below the callee's frame is counted on when it returns. Sums of addresses do not
   wrap, as the stack is not larger than an int can index.
3. The code of a program is such a set (`GeneratedIsTyped`). `Goes` says of a sequence of operations that it
   leads from one knowledge to another, wherever it stands: `GoesThen` composes them, and
   each piece of `IcodegenSteps` has a lemma. An expression leaves a value and the
   stack as it was (`ExprLeavesValue`), a command leaves it clean or never ends
   (`GoesComm`): induction over the depth in the tables. A loop is consistent if its body is, given its head
   (`GoodLoop`): points that are consistent but for some others, taken together with
   those, are consistent (`GoodTogether`). Jumps go where they should because
   no label is there twice: the labels of a command are those between the next free
   label before and after it (`LabelledComm`), expressions have none (`SilentExpr`), and the
   functions have the first (`FunctionLabels`, `ProgramLabels`, `DifferentLabels`).

Assumptions: those of the icode machine.

**The compiler is correct** (the fourth part of `CallingConvention_proof`), for every program:

- `ComputesWhatIsInterpreted`: `CSpec => []AgreesWithInterpreter`. Where the interpreter
  finishes, generated code halts, if it does, with the interpreter's result.

The interpreter is recursive, too, over trees and along the execution, so its run is stated as a table as well:
the calls that were made, what each returned, and a depth that decreases (`IsEvaluation`). A call
is an expression or a command with a store, or the passes of a loop whose guard has just held.
What it returned is what `InterpreterSteps` makes of what the calls in it returned.
`InterpretedJobs`, the hypothesis beside `GeneratedJobs`, says that where there is an outcome to
compare with, it is that of such a table, and the machine was started on the stack that the program asks
for. It leaves out, on purpose, programs at whose runtime errors the interpreter stops (generated code goes
on), and those in which a call's result is assigned, or guards a loop, with its returning flag
set: there the two do differ (`main_results`). The run `compiled` evaluates it for all its
jobs, with the tables of `EvaluationTables`.

The argument:

1. The machine is deterministic on generated code (`NeverDependsOnLuck`), so one can say where it
   gets to without counting steps. A set of configurations is closed backwards (`Backwards`) if a
   configuration is in it whose next one is; one that overflows is in all of them. `Takes`
   says that such a set that has the configurations in `Q` has those in `P`: the machine comes from
   `P` to `Q`, or overflows. It composes (`TakesThen`), and there is a lemma for
   each operation of the code (`TakesMove` to `TakesLabel`). These are facts about the machine,
   and are in the last section of `ICodeMachine_proof`.
2. `View` is the configurations of which one knows the address, the five registers and the cells
   from the bottom up to the stack pointer; `InFrame` says that the frame holds a store: variable
   `i` is `i` cells below the frame pointer. With these each template of `IcodegenSteps`
   has a lemma.
3. `Agrees` says of a call in the table what its code does: from its first address, on a stack
   whose frame holds its store, to its last, with the value in the accumulator and the
   stack as it was; or for a command with the frame changed to the new store; or, if it
   returned, to the caller with the frame removed. By induction on the depth of the
   call (`AllAgree`), one lemma for each kind of term. Here label numbers, frames, saved
   registers and the order of arguments must fit the interpreter's stores.
4. `ProgramAgrees` adds what is before and after main, so that the machine comes from its initial
   configuration to a halted one with the result (`Done`). That it does so from where it is
   (`Underway`) is the invariant.

This is partial correctness. That it halts (`HaltsWhenInterpreterDoes`), and that the
stack is large enough for it, stays with TLC.

**Native code** (`NativeExecution_proof`), for all code:

- `GeneratedCodeAlwaysFits`: `GenSpec => []GeneratedCodeFits`. Not inductive without
  the measure of what is written: after `icode_idx` operations it is between 46
  bytes, the preamble, and 22 more for each (`Counters`). That every template is at
  most that long, and an address lies inside its template, is then enough.
- `TemplatesAreMeasured`: for every operation and address, the length of a template is
  its size macro, the eight bytes of the address are where its offset macro says, and
  no other byte depends on the address. The macros are kept by hand in `ncode.h`, apart
  from the bytes. Lengths of concatenations are reasoned about without opening them
  (`Joined`, `OfLengthConcat`).

and, for all code, places of the code, of the stack and of the
result:

- `AlwaysGeneratesTheTestedCode`: `NSpec => []GeneratesTheTestedCode`. Two programs in
  different languages write this code: `ncode_gen` leaves addresses out and records where
  they belong, the tests lay out all templates first and then write them with their
  addresses. The invariant (`TestInv`) ties them together after each operation: the bytes so
  far, with the addresses filled in, are the test's array so far (`CodeInv`), and
  the generator's index is where the layout puts the next template (`LayoutInv`). A
  step appends a template to both; that filling in an address changes nothing else is
  `TemplatesAreMeasured`, that the recorded targets before it keep their places is
  part of `GenInv`.
- `LabelMapAlwaysFindsLabels`: `NSpec => []LabelMapFindsLabels`. The map has as many entries as
  there were labels, and the entry after those of the earlier labels is this one's
  place (`LabelInv`); if labels occur in numerical order from 0, that entry is
  the one with the label's number. Only labels that are defined are found: nothing
  checks that a jump's label is.

Assumptions: operations are well formed, the base of bytes is at least 2, and `Uninit` is
no byte.

**The lexer** (`Parser_proof`), for every source:

- `NamesKeepTheirNumbers`: `LexSpec => []NamesAreTheirNumbers`. This is not inductive: it
  says nothing of the name map before the end. The invariant adds that an entry's number
  is its place (`Numbered`: the counter and the length of the map agree, which the code
  nowhere says), that no name is in it twice (`NoNameTwice`), that a token's
  number leads to its word (`TokensNamed`), and what the map is after it is turned
  round (`Flipped`).
- `FlipFindsEveryNumber`: `flip_name_map` never runs off the end of the map, where
  `Vector_get` would end the process. From `Numbered`.
- `LexTypeCorrect`.

Assumptions: sources are sequences of strings, literals are natural numbers, and
`MaxInt` is positive.

**Name maps** (`Parser_proof`), for every map and all names:

- `LeasedOneByOne`: `Leased` says at once what the code does one name at a time, and
  this says that they are the same. The lemmas that the rest needs: the map that comes out is
  the one that went in, with the new names behind it, each once (`LeasedExtends`); names
  that are all different get the first places in their order (`FirstNamesFirst`); and the
  search of `lease_name` finds what is in the map (`LeaseNameFound`, `LeaseNameIs`).

**The parser** (`Parser_proof`), for every source. The invariant of the machine, `MachineInv`,
says how far the tokens are read (`ReadSoFar`: without a lookahead there is always
another token, as the end of the input is the last one and only once there,
`EndsOnce`), what is in `yylval` when it matters (`InHand`), and that the result goes with
the errors (`Decided`). From it:

- `ParserTypeCorrect`: `FrontEndSpec => []ParserTypeOK`.
- `NeverReadsPastTheEnd`: `yylex` is not called when there is no token left, where
  `TokenVector_get` would end the process.
- `ActionsSeeTheirToken`: the actions of literals and names read a global variable,
  `yylval`, and not `$1`. That is right only because bison does not read on before
  it reduces them.
- `ParserIsDetermined`: at most one step can be taken. Two right-hand sides are never
  complete at a time (`OneRuleOnTop`), and where bison does not read on, nothing could be
  shifted (`ConsistentHasNoShift`).

Two need to know what can be on the stack; the guards look only at the top of it.

- `ParserNeverStuck`: in every state that has no result some step can be taken. The
  invariant (`Viable`): each symbol fits on the two below it, in a function's header or in
  a body. A reduction uncovers up to seven symbols, so the proof goes that deep
  (`SevenDeep`, `ReduceFits`). That some step's guard holds is what `ENABLED` would say;
  that the steps come to an end is checked (`ParserEnds`), not proved.
- `AcceptsOnlySentences`: what is parsed is a sentence of the grammar. A chart says which
  spans of the tokens a symbol derives; a closed one has what the tokens are and what
  the rules of `Grammar` derive. That every closed chart has the whole file as a program says
  that the least one has, which is what derivable means. The invariant (`Derived`): the
  symbols on the stack derive, one after the other, the tokens that were shifted.
  This is one half of `AcceptsTheGrammar`, by the grammar's rules instead of
  `Language`, and it includes that `OnTop` takes each rule for what it is.

**The linked program** (`Parser_proof`), for every source:

- `VariablesAlwaysDistinct` and `VariablesAlwaysStayInTheFrame`: a variable is the index of one
  local name of its function, and the arguments come first. From `LeasedExtends`, for each
  function when its rule is reduced (`FunctionsAreInFrame`), and because the linking of
  functions leaves the variables alone (`LinkedFunction`).
- `CallsAlwaysReachTheirFunction`: a call's number is the position of its function, if no
  two functions have the same name. From `FirstNamesFirst`: this is what the first of
  the two loops of `complete_func_name_map_FuncVector` is for.

These take a hypothesis about trees, which the provers cannot define. `Trees(E, C)` says that `E`
and `C` are the expressions and commands: closed under what the parser's actions make, and
the least such sets. There is exactly one such pair. `WalkThrough` says that the four
constants do at each of these terms what `Walks` says of a node; the operators of `Terms` do
so by their definitions. With these, induction over terms is a set of terms that is closed
(`TermsAreWalked`, `TermsRenameWell`), and what the values on bison's stack are is an
invariant (`ValuesInv`).

Assumptions: those of the lexer.

**Vectors** (`Vector_proof`), for every set of elements and indices, initial size, size of
a pointer, and width of int:

- `VectorIsAList`: `VectorSpec => ImplementsList`, the refinement of the run `vector`.
  Every action is either a stutter under the mapping or the abstract operation:
  `AppendStutters` for both ways to append and whoever appends, `InsertedAbove`,
  `RemovedBelow` and `RemovedLast` for the steps of the recursions, `CallRefines` for the
  calls, where the list changes. That the recursion never fails its own bounds
  checks is part of it.
- `AlwaysInsideItsBlock`. The invariant says that the block is exactly as large as the
  array, and its size a positive int (`BlockFits`): then twice that size is either an
  int or negative as an int, and never a small number (`ToIntKeeps`).
- `VectorTypeCorrect`: below `size` are only elements that were stored.

Assumptions: the sizes are positive and the first array's bytes fit an int.

**Main** (`Main_proof`), for all command lines:

- `ExecutionsAlwaysAgree`: `MainSpec /\ []NoStepIsOpen => []ExecutionsAgree`. The second
  execution runs after the first, in the same variables, so the invariant
  (`RunInv`) has to remember: there is a sequence of closed configurations, each the
  `After` of the one before, from where both machines start to where the first has
  come (`FirstRun`), and the second is somewhere on it (`SecondRun`). A step of the
  first makes the sequence longer (`RunGoesOn`); a step of the second is one of the
  icode interpreter by the refinement of `VMCodeMachine_proof`, thus to the next element.
- `VMCodeStaysInside`, under the same condition: on that sequence there is no error, and
  where the VMCode interpreter goes wild the icode interpreter reports one.
- The condition is needed: an execution that depends on uninitialised memory may differ from
  the next one. For generated code it is met, and proved to be:
- `GeneratedCodeIsNeverOpen`: `MainSpecWithCalls => [](cmdline \in GeneratedLines =>
  NoStepIsOpen)`, where `GeneratedLines` are the command lines whose code the generator made of a
  program (`IsGenerated`, above). The arguments may be anything. The theorems on generated
  code are taken over through an instance, for which their invariant is one of the stage
  "icode" (`KeepsConvention`). It is about the calls that are open, so
  `MainSpecWithCalls` adds them to `Main` as a history, `activations`: its next value is a
  function of the present state (`OpenCalls`), and it restricts nothing; that each step of
  the machine then is one of `CallingConvention` is `EveryStepIsFollowed`.
- `GeneratedExecutionsAgree`: so for these command lines `ExecutionsAgree` and
  `VMCodeNeverGoesWild` hold without a condition.
- `ResultsAlwaysAgree`: `MainSpecWithCalls => [](cmdline \in InterpretedLines => ResultsAgree)`,
  all three results. The first execution is `Underway` to the result that the
  interpreter has printed, and prints it when it has halted (`ArrivesAtResult`); the second
  prints what the first did, by the above. `InterpretedLines` are those generated lines that
  `Interpreted` of `Evaluation` is true of: their arguments are the stack that the program
  asks for, and the interpreter's run is a table of calls. `ResultsAlwaysAgreeIfPreconfigured` restates it
  in the terms of the property that `main` checks. That such a line's run is such a table is
  evaluated by the run `main`, too, for its usual programs (`Agreeing`).
- For a function without a return, or a call with more arguments than the callee has
  variables, `NoStepIsOpen` is an invariant of the run `main` only.
- `ArgumentsAlwaysRead`: `MainSpec => []ArgumentsAreRead`, for every string and width of
  int. By induction on the prefix that has been read (`StrToIntReads`): what `str_to_int`
  has so far is an int, and the number itself as long as that fits, for then no
  prefix of it was too large and nothing has wrapped (`OneMoreDigit`).
- `MainTypeCorrect`: the machines' types while they run, taken from the theorems of their
  modules. No run lists `MainTypeOK`.

Assumptions: those of the icode machine for the code of each command line that has any
(`RunnableAssumption`), and `CommandLinesAssumption`: arguments are strings, and the initial
stack is what the argument loop makes of them.

**Induction** (`Induction`). The provers cannot instantiate an operator, so the library's
induction theorems are of no use to them. `SetInduction` has a set in place of the
predicate, and is proved from the well-foundedness of `<`. A recursive function
`f[i \in 0 .. n]` stands for *some* function that satisfies its equation, and says nothing
until there is one: `RecursionHasSolution`. With these two, what is recursive over
numbers (`str_to_int`, the layout of native code, name maps) is within reach.

All assumptions are named in the modules and evaluated by TLC.

Only model-checked, and why:

- liveness and the fairness of refinements: TLAPS cannot handle `ENABLED`;
- what is recursive over trees, in RECURSIVE operators that the provers cannot see and with
  no induction to use, as long as nothing but the trees is there to state it with: the
  interpreter on programs that fail (`FailuresReachTheTop`), and what `Language` says of the parser: the other half of `AcceptsTheGrammar`, that sentences are
  accepted, `SourceIsRecovered`, `NestsToTheRight`, and `TestProgramsParse`;
- `ComputesExpected`: the values of the C versions are in a table of the tests; it is the model's check
  against something other than itself. `ExecutesWhatItInterprets` says that the stack is large
  enough, which depends on the program;
- what native code does on a processor (`ImplementsContract`, `NTypeOK`): addresses and
  words are sums of bytes times powers of the base, and the provers have no `^`. It would
  also need a hypothesis on the code: a return may go to any number, into the
  middle of a template.

## Where native code and intermediate code differ

`NativeContract` says what the templates' own tests assert. That is not what `icode.h`
says of the operations, nor what the other two interpreters do:

- `JUMPCOND`: the native code jumps if the value is above zero, as
  `test_ncode.c:143` asserts. `icode.h:34-35` says "less than 1", and both
  interpreters jump then; with native code, generated loops would run while they should
  not (the run `ncode_documented`). (The comment at `ncode.h:130` has a `jg`; the code is a `jge`
  across the jump.)
- `ADD` leaves the sum in its second register, as its test asserts; `icode.h:28-29`,
  and the interpreters, in the first (the same run).
- `MOVE`, `ADD` and `SUB` are on 32 bits, and clear the upper half of an address.
- Loads and stores are of 8 bytes, while generated code moves its stack pointer by 1
  to the next cell; the tests' code does not.
- The frame pointer starts equal to the stack pointer, not one below it.
- `label_map` is in the order in which labels occur. `icodegen.c` numbers them in
  another order where a loop is inside a loop or before another function, so
  linking by number, once there is linking, would jump elsewhere.
  `LabelMapFindsLabels` says what holds.

None of this has an effect today: nothing links native code or runs it except the tests.

## What is not modelled

- The type checker: it is unfinished (all but the cases of expressions end in
  `NOT_IMPLEMENTED`), and nothing calls it, not even a test; there is no behaviour
  to check it against. What there is would need care when it is finished: `Type_eq` compares the pointers of two types
  without an inner type (`typecheck.c:52-66`), and a `Type` is allocated with the
  size of a pointer (`typecheck.c:12`).
- The test registry, printing and deallocation (of executable memory, too), and equality
  of trees; of vectors, `concat`, which nothing uses, comparison, appending a
  vector to itself, which nothing does, and a failing allocation of a new one.
- Of native code, what C keeps in registers across a call: the preamble clears `%ebx`
  and restores it nowhere (`ncode.h:39`), and the model ends at the return.
  `ncode_link` is modelled as it is, as the end of the process.
- The automata that flex and bison generate: how characters become words is left
  out, and what bison's tables do is stated for this grammar. After a syntax error
  the error rules go on to find more; the result is a failure already, and the
  model stops at the first one. Positions of tokens are left out.
- The grammar is that of `parser.y`, the words those of `lexer.l`; the one in the
  repository's README differs in two points, which `parser_documented_language` is about.

## The plan

1. *Done*: icode machine, VMCode machine, syntax, interpreter, code generator,
   compiled execution, main; type correctness of the machine.
2. *Done*: lexer, parser and linking; the lexer's name map proved.
3. *Done*: vectors; the refinement of a list proved.
4. *Done*: the native code generator, the processor under the tests' code, and the
   contract it implements; sizes, offsets and the buffer proved.
5. *Done*: the VMCode interpreter implements the icode interpreter, proved for any code.
6. *Done*: properties of their own for failing arguments of calls, and for `str_to_int`.
7. *Done*: proofs of `Main` and of the native code against the tests' code; of the parser's
   machine, the name maps and the linked program.
8. *Done*: the calling convention of generated code proved for every program, and from
   it that main's two executions agree.
9. *Done*: with a table in the place of the interpreter, the proof that generated code computes
   what the interpreter does, and from it that main's three results agree.
10. `Parser` composed with `Main`, so that programs start as words; a proof that sentences
   are accepted.
11. Equality of trees, which the parser's tests depend on; the type checker, when it is
   finished.
