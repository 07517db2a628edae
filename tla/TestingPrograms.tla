--------------------------- MODULE TestingPrograms ---------------------------
(***************************************************************************)
(* Programs of the language and what they compute: the test programs of    *)
(* testing_programs.c, each with the value of its C version, the programs  *)
(* of examples/, and some more that exercise calls and loops.              *)
(*                                                                         *)
(* A case is a program, arguments for its main, and the expected result,   *)
(* as a sequence of that result or, where it is not known, of none.        *)
(* S is a set of integers from which the arguments are taken.              *)
(***************************************************************************)
EXTENDS Syntax

Cases(program, arguments, Expected(_)) ==
  {[prog |-> program, args |-> as, expected |-> <<Expected(as)>>] : as \in arguments}

CasesToRun(program, arguments) ==
  {[prog |-> program, args |-> as, expected |-> <<>>] : as \in arguments}

LOCAL a == Var_init(0)
LOCAL b == Var_init(1)
LOCAL c == Var_init(2)
LOCAL Decrement(var) == Sub_init(var, Int_init(1))
LOCAL Main(numArgs, numVars, body) == Func_init(0, numArgs, numVars, body)
LOCAL If(guard, value) == While_init(guard, Return_init(value))

NoArguments == { <<>> }
Singles(S) == {<<s>> : s \in S}
Pairs(S) == S \X S

(* main() { return 10 } *)
tp0 == <<Main(0, 0, Return_init(Int_init(10)))>>

(* main(a) { return a } *)
tp1 == <<Main(1, 1, Return_init(a))>>

(* main(a, b) { return a + b }  and  a - b *)
tp2 == <<Main(2, 2, Return_init(Add_init(a, b)))>>
tp3 == <<Main(2, 2, Return_init(Sub_init(a, b)))>>

(* main(a) { a := a + 1; return a } *)
tp4 == <<Main(1, 1, Comp_init(Assign_init(0, Add_init(a, Int_init(1))),
                              Return_init(a)))>>

(* The product of two numbers that are at least 1, by repeated addition. *)
tp5 == <<Main(2, 3,
           Comp_init(Assign_init(2, a),
           Comp_init(While_init(Decrement(b),
                       Comp_init(Assign_init(1, Decrement(b)),
                                 Assign_init(0, Add_init(a, c)))),
                     Return_init(a))))>>

(* main(a) { return foo(a) + a }  foo(a) { return a + 10 } *)
tp6 == <<Main(1, 1, Return_init(Add_init(Call_init(1, <<a>>), a))),
         Func_init(1, 1, 1, Return_init(Add_init(a, Int_init(10))))>>

(* The registered test programs.  C's ints wrap as the language's do. *)
TestPrograms(S, Int32(_)) ==
  UNION {Cases(tp0, NoArguments, LAMBDA as : 10),
         Cases(tp1, Singles(S), LAMBDA as : as[1]),
         Cases(tp2, Pairs(S),   LAMBDA as : Int32(as[1] + as[2])),
         Cases(tp3, Pairs(S),   LAMBDA as : Int32(as[1] - as[2])),
         Cases(tp4, Singles(S), LAMBDA as : Int32(as[1] + 1)),
         Cases(tp6, Singles(S), LAMBDA as : Int32(Int32(as[1] + 10) + as[1]))}

(* For arguments that are at least 1. *)
Products(S) == Cases(tp5, Pairs(S), LAMBDA as : as[1] * as[2])

(* examples/fibonacci *)
fibonacci ==
  LET FibOf(n) == Call_init(1, <<Sub_init(a, Int_init(n))>>)
  IN  <<Main(1, 1, Return_init(Call_init(1, <<a>>))),
        Func_init(1, 1, 1,
          Comp_init(If(Decrement(a), Add_init(FibOf(1), FibOf(2))),
          Comp_init(If(a, Int_init(1)),
                    Return_init(Int_init(0)))))>>

Fib[n \in Nat] == IF n <= 1 THEN n ELSE Fib[n - 1] + Fib[n - 2]

(* examples/logic: are two numbers equal?  Functions 1 to 5 are greater, less,
   equal, not and and. *)
logic ==
  LET Count(var) == While_init(Var_init(var),
                      Comp_init(Assign_init(2, Add_init(c, Int_init(1))),
                                Assign_init(var, Int_init(0))))
      Not(e) == Call_init(4, <<e>>)
  IN  <<Main(2, 2, Return_init(Call_init(3, <<a, b>>))),
        Func_init(1, 2, 2, Comp_init(If(Sub_init(a, b), Int_init(1)),
                                     Return_init(Int_init(0)))),
        Func_init(2, 2, 2, Return_init(Call_init(1, <<b, a>>))),
        Func_init(3, 2, 2,
          Return_init(Call_init(5, <<Not(Call_init(1, <<a, b>>)),
                                     Not(Call_init(2, <<a, b>>))>>))),
        Func_init(4, 1, 1, Comp_init(If(a, Int_init(0)),
                                     Return_init(Int_init(1)))),
        Func_init(5, 2, 3,
          Comp_init(Assign_init(2, Int_init(0)),
          Comp_init(Count(0),
          Comp_init(Count(1),
                    Return_init(Call_init(1, <<c, Int_init(1)>>))))))>>

Examples(S, n) ==
  Cases(fibonacci, Singles(0 .. n), LAMBDA as : Fib[as[1]])
    \cup Cases(logic, Pairs(S), LAMBDA as : IF as[1] = as[2] THEN 1 ELSE 0)

(* A call whose arguments are calls, to a function with a local variable that
   reads it before assigning it, while temporaries are on the stack:
     main(a, b) { c := b; return a - minus(minus(a, c), minus(c, 1)) }
     minus(a, b) { d := d + a; return d - b }                            *)
nestedCalls ==
  LET Minus(e, f) == Call_init(1, <<e, f>>)
  IN  <<Main(2, 3, Comp_init(Assign_init(2, b),
              Return_init(Sub_init(a, Minus(Minus(a, c),
                                            Minus(c, Int_init(1))))))),
        Func_init(1, 2, 3, Comp_init(Assign_init(2, Add_init(c, a)),
                                     Return_init(Sub_init(c, b))))>>

NestedCalls(S) ==
  Cases(nestedCalls, Pairs(S),
        LAMBDA as : as[1] - ((as[1] - as[2]) - (as[2] - 1)))

(* The value of a call is assigned and used afterwards:
     main(a) { a := inc(a); return a + 1 }  inc(a) { return a + 1 }      *)
assignedCall ==
  LET increment == Return_init(Add_init(a, Int_init(1)))
  IN  <<Main(1, 1, Comp_init(Assign_init(0, Call_init(1, <<a>>)), increment)),
        Func_init(1, 1, 1, increment)>>

(* The same, but what is assigned is not the call itself. *)
addedCall ==
  <<Main(1, 1, Comp_init(Assign_init(0, Add_init(Call_init(1, <<a>>), Int_init(0))),
                         assignedCall[2].body)),
    assignedCall[2]>>

AddedCalls(S) == Cases(addedCall, Singles(S), LAMBDA as : as[1] + 2)

(* main(a) { return main(a + 1) }: calls itself for ever. *)
runaway == <<Main(1, 1, Return_init(Call_init(0, <<Add_init(a, Int_init(1))>>)))>>

(* main(a) { while 1 - a do { b := b + a }; return b }: for a < 1, loops for
   ever, in no more space than it started with. *)
spin == <<Main(1, 2, Comp_init(While_init(Sub_init(Int_init(1), a),
                                Assign_init(1, Add_init(b, a))),
                              Return_init(b)))>>
=============================================================================
