------------------------- MODULE MCCompiledExecution -------------------------
(* Programs for TLC to compile and execute. *)
EXTENDS CompiledExecution, TestingPrograms

CompileAll(cases) == {Compile(case) : case \in cases}

Ints == {-3, 0, 1, 2}

(* Additions and subtractions that overflow, too. *)
WideInts == Ints \cup {MinInt, MaxInt}

KnownPrograms ==
  UNION {TestPrograms(WideInts, Wrap), Products(1 .. 3), Examples({1, 2}, 4),
         NestedCalls(Ints), AddedCalls(Ints)}

----------------------------------------------------------------------------
(* Programs with every small expression, by its shape: the operations over the
   leaves, then the operations with a leaf on one side.  Calls are of a function
   whose third variable is local. *)
va == Var_init(0)
vb == Var_init(1)
vc == Var_init(2)

Leaves == {Int_init(1), va, vb}

Operations(lefts, rights) ==
  UNION {{Add_init(l, r), Sub_init(l, r), Call_init(1, <<l, r>>)} :
           l \in lefts, r \in rights}

Small  == Leaves \cup Operations(Leaves, Leaves)
Larger == Operations(Small, Leaves) \cup Operations(Leaves, Small)

(* Expressions that are not a call: the interpreter mistakes the value of a
   call that is assigned, or that guards a loop, for a return. *)
Plain == {e \in Small : e.type # "Call"}

WithFunction(body) ==
  <<Func_init(0, 2, 3, body),
    Func_init(1, 2, 3, Comp_init(Assign_init(2, Add_init(vc, va)),
                                 Return_init(Sub_init(vc, vb))))>>

CountDown(then) ==
  Comp_init(While_init(va, Comp_init(then, Assign_init(0, Sub_init(va, Int_init(1))))),
            Return_init(Add_init(vc, vb)))

(* return e;  a loop that assigns c := e;  a loop that assigns c := c - e where
   a nested loop may return. *)
ReturnIt(e)  == Return_init(e)
SumUp(e)     == CountDown(Assign_init(2, Add_init(vc, e)))
LeaveIf(e)   == CountDown(Comp_init(While_init(e, Return_init(Add_init(e, vc))),
                                    Assign_init(2, Sub_init(vc, vb))))

Bodies(exprs, Body(_)) ==
  UNION {CasesToRun(WithFunction(Body(e)), { <<2, -1>> }) : e \in exprs}

SmallPrograms ==
  Bodies(Larger, ReturnIt) \cup Bodies(Small, SumUp) \cup Bodies(Plain, LeaveIf)

----------------------------------------------------------------------------
(* A loop that never ends, and programs that call themselves for ever. *)
EndlessPrograms ==
  CasesToRun(spin, { <<MinInt \div 2>> }) \cup CasesToRun(runaway, Singles(Ints))

(* Any number of arguments, for programs with calls, loops and locals. *)
Stacks == UNION {[1 .. n -> {1, 2}] : n \in 0 .. 4}

AnyArguments(jobs) ==
  {StartOn(numbers, j) : numbers \in Stacks, j \in jobs}

MisstartedPrograms ==
  {WithFunction(body) : body \in {ReturnIt(Call_init(1, <<va, vb>>)), SumUp(Sub_init(va, vb)),
                                  LeaveIf(Add_init(vb, Int_init(1)))}}
    \cup {fibonacci, nestedCalls, spin}

MisstartedJobs ==
  AnyArguments(CompileAll(UNION {CasesToRun(p, { <<1, 1>> }) : p \in MisstartedPrograms}))

(* Compiled once. *)
AllJobs ==
  CompileAll(UNION {KnownPrograms, SmallPrograms, EndlessPrograms}) \cup MisstartedJobs

ProgramJobs == AllJobs

----------------------------------------------------------------------------
Generator == INSTANCE CallTables

Evaluator == INSTANCE EvaluationTables

(* Every program here is one the theorems are about. *)
ASSUME \A j \in ProgramJobs : GeneratedWith(j, Generator!Tables(j.prog))

ASSUME \A j \in ProgramJobs :
  j.outcome.type \notin Unknown =>
    /\ j.initial_stack = PreconfiguredStack(j.prog, j.args)
    /\ IsInterpreted(j.prog, j.args, j.outcome, Evaluator!Run(j.prog, j.args))
=============================================================================
