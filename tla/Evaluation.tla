------------------------------ MODULE Evaluation ------------------------------
(***************************************************************************)
(* What the syntax-directed interpreter makes of the program of a job,     *)
(* next to what the machine makes of its code.  Jobs here also have an     *)
(* outcome, what interpret_Prog returns.                                   *)
(***************************************************************************)
EXTENDS CallingConvention

Source == INSTANCE InterpreterSteps

(* No run of the interpreter, or none that ends, to compare with. *)
Unknown == {"out of fuel", "not interpreted"}

(* The two ways of running a program agree: the code computes what the
   interpreter finds in the syntax tree. *)
AgreesWithInterpreter ==
  status = "halted" /\ job.outcome.type \notin Unknown =>
    job.outcome.type = "iSuccess" /\ Result = job.outcome.result

----------------------------------------------------------------------------
(* For which jobs this is so: for those the interpreter finishes.  What it did is
   then a table ev of its calls: <<"expr", e, s>> and <<"comm", c, s>> where it
   evaluated an expression or a command with a store, <<"loop", c, s>> where the
   guard of a loop had just held.  It has the result of each call, and its depth:
   how deep further calls were nested in it. *)
Further(ev, outer, inner) ==
  inner \in ev.calls /\ ev.depth[inner] < ev.depth[outer]

Successes == [type : {"iSuccess"}, result : Int, returning : BOOLEAN]

(* What an expression evaluates, and what it returns then. *)
ExprMakes(prog, ev, expr, store) ==
  LET call    == <<"expr", expr, store>>
      callee  == Prog_func(prog, expr.num)
      results == [i \in 1 .. Len(expr.args) |-> ev.result[<<"expr", expr.args[i], store>>]]
  IN  /\ expr.type \in {"Int", "Var", "Add", "Sub", "Call"}
      /\ expr.type \in {"Add", "Sub"} =>
           /\ Further(ev, call, <<"expr", expr.expr1, store>>)
           /\ Further(ev, call, <<"expr", expr.expr2, store>>)
      /\ expr.type = "Call" =>
           /\ \A i \in DOMAIN expr.args : Further(ev, call, <<"expr", expr.args[i], store>>)
           /\ Further(ev, call, <<"comm", callee.body, Source!CalleeStore(callee, results)>>)

ExprReturns(prog, ev, expr, store) ==
  LET Eval(e)    == ev.result[<<"expr", e, store>>]
      Body(c, s) == ev.result[<<"comm", c, s>>]
  IN  ev.result[<<"expr", expr, store>>] = Source!ExprResult(prog, expr, store, Eval, Body)

ExprEvaluated(prog, ev, expr, store) ==
  /\ ExprMakes(prog, ev, expr, store)
  /\ ExprReturns(prog, ev, expr, store)
  /\ ev.result[<<"expr", expr, store>>] \in Successes

(* The same for a command.  No call's result that is assigned, or that guards a
   loop, is taken for a return. *)
CommMakes(ev, comm, store) ==
  LET call  == <<"comm", comm, store>>
      value == ev.result[<<"expr", comm.expr, store>>]
      fst   == ev.result[<<"comm", comm.comm1, store>>]
  IN  /\ comm.type \in {"While", "Assign", "Comp", "Return"}
      /\ comm.type # "Comp" => Further(ev, call, <<"expr", comm.expr, store>>)
      /\ comm.type \in {"While", "Assign"} => ~value.returning
      /\ comm.type = "While" /\ ~(value.result < 1) =>
           Further(ev, call, <<"loop", comm, store>>)
      /\ comm.type = "Comp" =>
           /\ Further(ev, call, <<"comm", comm.comm1, store>>)
           /\ ~fst.res.returning => Further(ev, call, <<"comm", comm.comm2, fst.store>>)

CommReturns(ev, comm, store) ==
  LET Eval(e, s)   == ev.result[<<"expr", e, s>>]
      Inside(c, s) == ev.result[<<"comm", c, s>>]
      Passes(s)    == ev.result[<<"loop", comm, s>>]
  IN  ev.result[<<"comm", comm, store>>] = Source!CommResult(comm, store, Eval, Inside, Passes)

CommEvaluated(ev, comm, store) ==
  /\ CommMakes(ev, comm, store)
  /\ CommReturns(ev, comm, store)
  /\ ev.result[<<"comm", comm, store>>].res \in Successes

(* And for the passes of a loop. *)
LoopMakes(ev, comm, store) ==
  LET call  == <<"loop", comm, store>>
      body  == ev.result[<<"comm", comm.comm1, store>>]
      guard == ev.result[<<"expr", comm.expr, body.store>>]
  IN  /\ Further(ev, call, <<"comm", comm.comm1, store>>)
      /\ ~body.res.returning =>
           /\ Further(ev, call, <<"expr", comm.expr, body.store>>)
           /\ ~(guard.result < 1) => Further(ev, call, <<"loop", comm, body.store>>)

LoopReturns(ev, comm, store) ==
  LET Eval(e, s)   == ev.result[<<"expr", e, s>>]
      Inside(c, s) == ev.result[<<"comm", c, s>>]
      Passes(s)    == ev.result[<<"loop", comm, s>>]
  IN  ev.result[<<"loop", comm, store>>] = Source!LoopResult(comm, store, Eval, Inside, Passes)

LoopEvaluated(ev, comm, store) ==
  /\ LoopMakes(ev, comm, store)
  /\ LoopReturns(ev, comm, store)
  /\ ev.result[<<"loop", comm, store>>].res \in Successes

IsEvaluation(prog, ev) ==
  /\ ev.depth \in [ev.calls -> Nat]
  /\ \A call \in ev.calls :
       LET term  == call[2]
           store == call[3]
       IN  /\ call = <<call[1], term, store>>
           /\ \/ call[1] = "expr" /\ ExprEvaluated(prog, ev, term, store)
              \/ call[1] = "comm" /\ CommEvaluated(ev, term, store)
              \/ call[1] = "loop" /\ LoopEvaluated(ev, term, store)

(* What interpret_Prog called with args returned. *)
IsInterpreted(prog, args, outcome, ev) ==
  LET main == <<"expr", Source!MainCall(args), <<>> >>
  IN  /\ args \in Seq(Int)
      /\ IsEvaluation(prog, ev)
      /\ main \in ev.calls
      /\ outcome = ev.result[main]

(* A job that starts on the stack that its program asks for, with what the interpreter
   returned for the same arguments. *)
Interpreted(j) ==
  \E args, ev : /\ j.initial_stack = PreconfiguredStack(j.prog, args)
               /\ IsInterpreted(j.prog, args, j.outcome, ev)

InterpretedJobs == \A j \in Jobs : j.outcome.type \in Unknown \/ Interpreted(j)
=============================================================================
