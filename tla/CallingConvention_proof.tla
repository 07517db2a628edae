----------------------- MODULE CallingConvention_proof -----------------------
(***************************************************************************)
(* Proofs that generated code keeps the calling convention, and that it    *)
(* computes what its program says.                                         *)
(*                                                                         *)
(* Code is typed: a point is an address in a function together with what   *)
(* is known there of the registers and of the temporaries on the stack.    *)
(* Part 1 says how the points of a job have to follow one another, Part 2  *)
(* that an execution then stays at these points, whatever the code, and    *)
(* Part 3 that the code of a program has such points.  Part 4 is about     *)
(* what the code computes: what the syntax-directed interpreter does.      *)
(***************************************************************************)
EXTENDS CallingConvention, Evaluation, ICodeMachine_proof, Induction, SequenceTheorems, TLAPS

(***************************************************************************)
(* Part 1: points.                                                         *)
(***************************************************************************)
(* What is known of a word: nothing, not even that it was written; that it
   was; its value; that it is the address so far above the stack pointer on
   entry; that it is the return address. *)
Shape == [is : {"any", "word", "const", "cell", "return"}, n : Int]

AnyThing      == [is |-> "any", n |-> 0]
AWord         == [is |-> "word", n |-> 0]
Const(n)      == [is |-> "const", n |-> n]
Cell(n)       == [is |-> "cell", n |-> n]
ReturnAddress == [is |-> "return", n |-> 0]

Written(shape) == shape.is # "any"

(* A word v is as a shape says, in the activation e. *)
Means(shape, v, e) ==
  /\ Written(shape) => v \in Word
  /\ shape.is = "const" => v = shape.n
  /\ shape.is = "cell" => v = e.sp + shape.n
  /\ shape.is = "return" => v = e.ra

(* A shape that says as much as another, or less. *)
Weakens(weak, shape) ==
  \/ weak = shape
  \/ weak = AnyThing
  \/ weak = AWord /\ Written(shape)

Point == [func : Nat, at : Nat, regs : [Named -> Shape], temps : Seq(Shape)]

Covers(q, p) ==
  /\ q.func = p.func
  /\ q.at = p.at
  /\ \A r \in Named : Weakens(q.regs[r], p.regs[r])
  /\ Len(q.temps) <= Len(p.temps)
  /\ \A i \in 1 .. Len(q.temps) : Weakens(q.temps[i], p.temps[i])

VarsOf(j, p) == Prog_func(j.prog, p.func).num_vars
OpAt(j, p) == OperationAt(j.code, p.at)

(* Where a function starts, for whoever calls it ... *)
EntryPoint(f, a) ==
  [func |-> f, at |-> a, temps |-> <<>>,
   regs |-> Regs(Cell(0), Cell(-1), ReturnAddress, AnyThing, AnyThing)]

(* ... and where the caller goes on: the cells of the callee's frame are not known
   any more. *)
Height(p) == p.regs[STACK_POINTER].n
BelowFrame(j, p) == Height(p) - Prog_func(j.prog, OpAt(j, p).arg1).num_vars
Returned(j, p) ==
  [func |-> p.func, at |-> p.at + 1,
   regs |-> Regs(Cell(Height(p)), Cell(Height(p) - 1), AnyThing, AWord, AnyThing),
   temps |-> [i \in 1 .. BelowFrame(j, p) |-> p.temps[i]]]

(* What is known of a cell of the stack, by its height above the stack pointer on
   entry: the variables of the function are below it. *)
CellShape(p, n) == IF n < 0 THEN AWord ELSE p.temps[n + 1]

(* A sum of shapes, if it points into what the function has of the stack, or one
   below. *)
Reachable(j, p, n) == -VarsOf(j, p) - 1 <= n /\ n <= Len(p.temps)

SumOf(j, p, a, b) ==
  IF /\ {a.is, b.is} = {"cell", "const"} 
     /\ Reachable(j, p, a.n + b.n)
  THEN Cell(a.n + b.n) ELSE AWord
DifferenceOf(j, p, a, b) ==
  IF a.is = "cell" /\ b.is = "const" /\ Reachable(j, p, a.n - b.n)
  THEN Cell(a.n - b.n) ELSE AWord

(* The point after one operation. *)
At(p, a, regs, temps) == [func |-> p.func, at |-> a, regs |-> regs, temps |-> temps]
Put(p, r, shape) ==
  At(p, p.at + 1, [q \in Named |-> IF q = r THEN shape ELSE p.regs[q]], p.temps)
Stored(p, n, shape) ==
  At(p, p.at + 1, p.regs, IF n < 0 THEN p.temps ELSE Append(p.temps, shape))
MovedTo(p, a) == At(p, a, p.regs, p.temps)
Forward(p) == MovedTo(p, p.at + 1)

(* What has to be so at a point for the operation there to be as it should ... *)
Allowed(j, p) ==
  LET op == OpAt(j, p)
      x  == p.regs[op.arg1]
      y  == p.regs[op.arg2]
      callee == Prog_func(j.prog, op.arg1)
      Clean == p.regs[STACK_POINTER] = Cell(0) /\ p.regs[FRAME_POINTER] = Cell(-1)
  IN  \/ op.opc = "MOVE" /\ {op.arg1, op.arg2} \subseteq Named /\ Written(x)
      \/ op.opc = "LOADIMM" /\ op.arg2 \in Named
      \/ /\ op.opc \in {"ADD", "SUB"} /\ {op.arg1, op.arg2} \subseteq Named
         /\ Written(x) /\ Written(y)
      \/ /\ op.opc = "LOAD" /\ {op.arg1, op.arg2} \subseteq Named
         /\ x.is = "cell" /\ -VarsOf(j, p) <= x.n /\ x.n < Len(p.temps)
         /\ Written(CellShape(p, x.n))
      \/ /\ op.opc = "STORE" /\ {op.arg1, op.arg2} \subseteq Named
         /\ Written(x) /\ y.is = "cell"
         /\ y.n = Len(p.temps) \/ y.n \in -VarsOf(j, p) .. -1
      \/ op.opc = "LABEL" /\ Clean
      \/ op.opc = "JUMP" /\ LabelSites(j.code, op.arg1) # {}
      \/ op.opc = "JUMPCOND" /\ LabelSites(j.code, op.arg1) # {} /\ op.arg2 \in Named /\ Written(y)
      \/ /\ op.opc = "JUMPLINK" /\ LabelSites(j.code, op.arg1) # {}
         /\ op.arg1 \in FunctionNames(j.prog)
         /\ p.regs[STACK_POINTER] = Cell(Height(p)) /\ p.regs[FRAME_POINTER] = Cell(Height(p) - 1)
         /\ 0 <= BelowFrame(j, p) /\ Height(p) <= Len(p.temps)
         /\ \A i \in BelowFrame(j, p) + 1 .. Height(p) : Written(p.temps[i])
      \/ /\ op.opc = "JUMPADDR" /\ op.arg1 = RETURN_ADDRESS
         /\ p.regs[RETURN_ADDRESS] = ReturnAddress /\ Clean
         /\ Written(p.regs[ACCUMULATOR])

(* ... and the points that come next. *)
Leads(j, p, s) ==
  LET op == OpAt(j, p)
      x  == p.regs[op.arg1]
      y  == p.regs[op.arg2]
  IN  \/ op.opc = "MOVE" /\ s = Put(p, op.arg2, x)
      \/ op.opc = "LOADIMM" /\ s = Put(p, op.arg2, Const(op.arg1))
      \/ op.opc = "ADD" /\ s = Put(p, op.arg1, SumOf(j, p, x, y))
      \/ op.opc = "SUB" /\ s = Put(p, op.arg1, DifferenceOf(j, p, x, y))
      \/ op.opc = "LOAD" /\ s = Put(p, op.arg2, CellShape(p, x.n))
      \/ op.opc = "STORE" /\ s = Stored(p, y.n, x)
      \/ op.opc \in {"LABEL", "JUMPCOND"} /\ s = Forward(p)
      \/ /\ op.opc \in {"JUMP", "JUMPCOND"}
         /\ \E a \in LabelSites(j.code, op.arg1) : s = MovedTo(p, a)
      \/ /\ op.opc = "JUMPLINK"
         /\ \/ s = Returned(j, p)
            \/ \E a \in LabelSites(j.code, op.arg1) : s = EntryPoint(op.arg1, a)

(* A set of points that is left, if at all, to one of others. *)
Consistent(j, P, others) ==
  /\ P \subseteq Point
  /\ \A p \in P :
       /\ p.func \in FunctionNames(j.prog)
       /\ p.at \in Addresses(j.code)
       /\ Allowed(j, p)
       /\ \A s : Leads(j, p, s) => \E q \in P \cup others : Covers(q, s)

(* The code calls main, and halts when that returns. *)
StartsIn(j, P) ==
  /\ Len(j.code) > 1
  /\ OperationAt(j.code, 0).opc = "JUMPLINK" /\ OperationAt(j.code, 0).arg1 = 0
  /\ OperationAt(j.code, 1).opc = "HALT"
  /\ LabelSites(j.code, 0) # {}
  /\ \A a \in LabelSites(j.code, 0) : \E q \in P : Covers(q, EntryPoint(0, a))
  /\ 0 \in FunctionNames(j.prog)

Functional(j) ==
  \A f \in FunctionNames(j.prog) : Prog_func(j.prog, f).num_vars \in Nat

IntSized(j) ==
  \A f \in FunctionNames(j.prog) : Prog_func(j.prog, f).num_vars <= MaxInt

(* Nothing reports a negative label. *)
NoNegativeLabel(j) ==
  \A a \in Addresses(j.code) :
    OperationAt(j.code, a).opc = "LABEL" => OperationAt(j.code, a).arg1 >= 0

IsTyped(j) ==
  /\ Functional(j)
  /\ IntSized(j)
  /\ NoNegativeLabel(j)
  /\ \E P : Consistent(j, P, {}) /\ StartsIn(j, P)

(***************************************************************************)
(* Part 2: an execution stays at the points.                               *)
(***************************************************************************)
(* The machine is at the point p of a function that was entered as e says. *)
Holds(p, e) ==
  /\ pc = p.at
  /\ \A r \in Named : Means(p.regs[r], registers[r], e)
  /\ \A i \in 1 .. Len(p.temps) : Means(p.temps[i], stack[e.sp + i - 1], e)
  /\ \A i \in 1 .. VarsOf(job, p) : i <= e.sp => stack[e.sp - i] \in Word
  /\ e.sp + Len(p.temps) <= StackSize

(* Its frame is there, all of it if main's was, and what is below it is remembered. *)
EnteredAs(j, p, e) ==
  /\ e.sp \in 0 .. StackSize
  /\ VarsOf(j, p) <= MaxInt
  /\ Framed(j) => VarsOf(j, p) <= e.sp
  /\ e.fp = e.sp - 1
  /\ DOMAIN e.below = 0 .. e.sp - VarsOf(j, p) - 1

(* A function that has been at p ever since it called the one that is at q, as e
   and inner remember. *)
Suspended(j, p, e, q, inner) ==
  /\ OpAt(j, p).opc = "JUMPLINK"
  /\ OpAt(j, p).arg1 = q.func
  /\ inner.ra = p.at + 1
  /\ inner.sp = e.sp + Height(p)
  /\ \A i \in 1 .. BelowFrame(j, p) : Means(p.temps[i], inner.below[e.sp + i - 1], e)
  /\ \A i \in 1 .. VarsOf(j, p) : i <= e.sp => inner.below[e.sp - i] \in Word

(* Facts about the machine at a point: its numbers fit, and its registers are there. *)
LEMMA NextAddress ==
  ASSUME job \in Jobs, pc \in Addresses(code)
  PROVE  pc \in Nat /\ Wrap(pc + 1) = pc + 1 /\ pc + 1 \in Word
<1>1. Len(code) \in 1 .. MaxInt
  BY JobsAssumption DEF WellFormed, code
<1>2. pc \in Nat /\ Wrap(pc + 1) = pc + 1
  BY <1>1, MaxIntAssumption DEF Addresses, Wrap, MinInt
<1>3. pc + 1 \in Word
  BY <1>1, <1>2, MaxIntAssumption DEF Addresses, Word, MinInt
<1> QED
  BY <1>2, <1>3

(* A register other than the program counter gets a value. *)
LEMMA SetFacts ==
  ASSUME TypeOK, pc \in Addresses(code), NEW r \in Named, NEW v, SetAndAdvance(r, v)
  PROVE  /\ job' = job /\ status' = status
         /\ pc' = pc + 1
         /\ registers'[r] = v
         /\ \A s \in Named \ {r} : registers'[s] = registers[s]
<1>1. job \in Jobs /\ registers \in [RegisterFile -> Value]
  BY DEF TypeOK
<1>2. r # PROGRAM_COUNTER /\ r \in RegisterFile /\ PROGRAM_COUNTER \in RegisterFile
      /\ \A s \in Named : s # PROGRAM_COUNTER /\ s \in RegisterFile
  BY RegistersThere
<1>3. registers' = [[registers EXCEPT ![r] = v] EXCEPT ![PROGRAM_COUNTER] = Wrap(@ + 1)]
  BY <1>2 DEF SetAndAdvance
<1>4. [registers EXCEPT ![r] = v][PROGRAM_COUNTER] = pc
  BY <1>1, <1>2 DEF pc
<1>5. registers' = [[registers EXCEPT ![r] = v] EXCEPT ![PROGRAM_COUNTER] = pc + 1]
  BY <1>1, <1>3, <1>4, NextAddress
<1>6. pc' = pc + 1
  BY <1>1, <1>2, <1>5 DEF pc
<1>7. registers'[r] = v /\ \A s \in Named \ {r} : registers'[s] = registers[s]
  BY <1>1, <1>2, <1>5
<1> QED
  BY <1>6, <1>7 DEF SetAndAdvance

(* The program counter goes to an address. *)
LEMMA GotoFacts ==
  ASSUME TypeOK, NEW addresses, Goto(addresses)
  PROVE  /\ job' = job /\ status' = status /\ stack' = stack
         /\ pc' \in addresses
         /\ \A s \in Named : registers'[s] = registers[s]
<1>1. registers \in [RegisterFile -> Value]
  BY DEF TypeOK
<1>2. PICK a \in addresses : registers' = [registers EXCEPT ![PROGRAM_COUNTER] = a]
  BY DEF Goto
<1>3. pc' = a
  BY <1>1, <1>2, RegistersThere DEF pc
<1>4. \A s \in Named : registers'[s] = registers[s]
  BY <1>1, <1>2, RegistersThere
<1> QED
  BY <1>2, <1>3, <1>4 DEF Goto

(* What covers a point where the machine is after a step, is one where it is. *)
LEMMA CoveringHolds ==
  ASSUME NEW p \in Point, NEW q \in Point, NEW e, e.sp \in Int, StackSize \in Int,
         Covers(q, p), Holds(p, e)'
  PROVE  Holds(q, e)'
<1>1. ASSUME NEW weak, NEW shape, NEW v, Weakens(weak, shape), Means(shape, v, e)
      PROVE  Means(weak, v, e)
  BY <1>1 DEF Weakens, Means, AnyThing, AWord, Written
<1>2. \A r \in Named : Means(q.regs[r], registers'[r], e)
  BY <1>1 DEF Covers, Holds
<1>3. Len(q.temps) \in Nat /\ Len(p.temps) \in Nat /\ Len(q.temps) <= Len(p.temps)
  BY DEF Covers, Point
<1>4. \A i \in 1 .. Len(q.temps) : Means(q.temps[i], stack'[e.sp + i - 1], e)
  BY <1>1, <1>3 DEF Covers, Holds
<1>5. VarsOf(job, q)' = VarsOf(job, p)'
  BY DEF Covers, VarsOf
<1>6. e.sp + Len(q.temps) <= StackSize
  BY <1>3 DEF Holds
<1> QED
  BY <1>2, <1>4, <1>5, <1>6 DEF Covers, Holds

(* The point after a register was set. *)
LEMMA PutHolds ==
  ASSUME TypeOK, NEW p \in Point, NEW e, Holds(p, e), pc \in Addresses(code),
         NEW r \in Named, NEW v, NEW shape \in Shape, Means(shape, v, e),
         SetAndAdvance(r, v), stack' = stack
  PROVE  Put(p, r, shape) \in Point /\ Holds(Put(p, r, shape), e)'
<1> DEFINE q == Put(p, r, shape)
<1>1. /\ p.regs \in [Named -> Shape] /\ p.at \in Nat /\ p.func \in Nat /\ p.temps \in Seq(Shape)
  BY DEF Point
<1>2. /\ q.func = p.func /\ q.temps = p.temps /\ q.at = p.at + 1
      /\ q.regs = [p.regs EXCEPT ![r] = shape]
      /\ q \in Point
  BY <1>1 DEF Put, At, Point
<1>3. q.regs[r] = shape /\ \A s \in Named \ {r} : q.regs[s] = p.regs[s]
  BY <1>1, <1>2
<1> HIDE DEF q
<1>4. \A s \in Named : Means(q.regs[s], registers'[s], e)
  BY <1>3, SetFacts DEF Holds
<1>5. VarsOf(job, q)' = VarsOf(job, p)
  BY <1>2, SetFacts DEF VarsOf
<1>6. pc' = q.at
  BY <1>2, SetFacts DEF Holds
<1> QED
  BY <1>2, <1>4, <1>5, <1>6 DEF Holds, q

(* Bounds of what a function has of the stack. *)
LEMMA StackBounds ==
  ASSUME NEW p \in Point, NEW e, EnteredAs(job, p, e), VarsOf(job, p) \in Nat
  PROVE  /\ e.sp \in Nat /\ e.sp <= StackSize /\ VarsOf(job, p) <= MaxInt
         /\ Framed(job) => VarsOf(job, p) <= e.sp
         /\ StackSize \in Nat /\ StackSize <= MaxInt /\ MaxInt \in Nat
         /\ Len(p.temps) \in Nat
BY StackSizeAssumption, MaxIntAssumption DEF EnteredAs, Point

(* The shapes of a sum and of a difference are right: where they are addresses
   nothing wraps. *)
LEMMA SumMeans ==
  ASSUME NEW p \in Point, NEW e, EnteredAs(job, p, e), VarsOf(job, p) \in Nat,
         e.sp + Len(p.temps) <= StackSize,
         NEW a \in Shape, NEW b \in Shape, NEW v \in Word, NEW w \in Word,
         Means(a, v, e), Means(b, w, e)
  PROVE  /\ SumOf(job, p, a, b) \in Shape /\ DifferenceOf(job, p, a, b) \in Shape
         /\ Means(SumOf(job, p, a, b), Wrap(v + w), e)
         /\ Means(DifferenceOf(job, p, a, b), Wrap(v - w), e)
<1> DEFINE vs == VarsOf(job, p)
           n == Len(p.temps)
<1>1. /\ e.sp \in Nat /\ e.sp <= StackSize /\ vs <= MaxInt /\ vs \in Nat
      /\ StackSize \in Nat /\ StackSize <= MaxInt /\ MaxInt \in Nat \ {0}
      /\ n \in Nat /\ e.sp + n <= StackSize
  BY StackBounds, MaxIntAssumption
<1>2. a.n \in Int /\ b.n \in Int /\ v \in Int /\ w \in Int
  BY MaxIntAssumption DEF Shape, Word, MinInt
<1>3. Wrap(v + w) \in Word /\ Wrap(v - w) \in Word
  BY WrapType
<1>4. \A k \in Int : Reachable(job, p, k) => e.sp + k \in Word /\ Wrap(e.sp + k) = e.sp + k
  <2> HIDE DEF vs, n
  <2>1. SUFFICES ASSUME NEW k \in Int, -vs - 1 <= k, k <= n
                 PROVE  e.sp + k \in Word /\ Wrap(e.sp + k) = e.sp + k
    BY DEF Reachable, vs, n
  <2>2. e.sp + k \in Int /\ -MaxInt - 1 <= e.sp + k /\ e.sp + k <= MaxInt
    BY <1>1, <2>1
  <2> QED
    BY <2>2, SmallNumbers
<1> HIDE DEF vs, n
<1>5. ASSUME {a.is, b.is} = {"cell", "const"}, Reachable(job, p, a.n + b.n)
      PROVE  v + w = e.sp + (a.n + b.n)
  <2>1. CASE a.is = "cell" /\ b.is = "const"
    <3>1. v = e.sp + a.n /\ w = b.n
      BY <2>1 DEF Means
    <3> QED
      BY <1>1, <1>2, <3>1
  <2>2. CASE a.is = "const" /\ b.is = "cell"
    <3>1. v = a.n /\ w = e.sp + b.n
      BY <2>2 DEF Means
    <3>2. \A x, y, z \in Int : x + (y + z) = y + (x + z)
      OBVIOUS
    <3>3. e.sp \in Int
      BY <1>1
    <3> QED
      BY <1>2, <3>1, <3>2, <3>3
  <2> QED
    BY <1>5, <2>1, <2>2
<1>6. ASSUME a.is = "cell", b.is = "const"
      PROVE  v - w = e.sp + (a.n - b.n)
  BY <1>1, <1>2, <1>6 DEF Means
<1>7. Means(AWord, Wrap(v + w), e) /\ Means(AWord, Wrap(v - w), e) /\ AWord \in Shape
  BY <1>3 DEF Means, AWord, Shape, Written
<1>8. \A k \in Int : Reachable(job, p, k) =>
                       Means(Cell(k), e.sp + k, e) /\ Cell(k) \in Shape
  BY <1>4 DEF Means, Cell, Shape, Written
<1>9. a.n + b.n \in Int /\ a.n - b.n \in Int
  BY <1>2
<1>10. Means(SumOf(job, p, a, b), Wrap(v + w), e) /\ SumOf(job, p, a, b) \in Shape
  BY <1>4, <1>5, <1>7, <1>8, <1>9 DEF SumOf
<1>11. Means(DifferenceOf(job, p, a, b), Wrap(v - w), e) /\ DifferenceOf(job, p, a, b) \in Shape
  BY <1>4, <1>6, <1>7, <1>8, <1>9 DEF DifferenceOf
<1> QED
  BY <1>10, <1>11

(* The address of an access is inside what the function has of the stack, or one
   above it; if main has a frame it is no negative number. *)
LEMMA AddressOf ==
  ASSUME TypeOK, NEW p \in Point, NEW e, EnteredAs(job, p, e), VarsOf(job, p) \in Nat,
         Holds(p, e), NEW r \in Named, p.regs[r].is = "cell",
         -VarsOf(job, p) <= p.regs[r].n, p.regs[r].n <= Len(p.temps)
  PROVE  /\ registers[r] = e.sp + p.regs[r].n
         /\ Framed(job) => registers[r] \in Nat
         /\ Denotes(registers[r]) = {registers[r]}
<1>1. Means(p.regs[r], registers[r], e) /\ p.regs[r].n \in Int
  BY DEF Holds, Point, Shape
<1>2. registers[r] = e.sp + p.regs[r].n /\ registers[r] \in Word
  BY <1>1 DEF Means, Written
<1>3. registers[r] # Uninit
  BY <1>2, UninitIsNoWord
<1> QED
  BY <1>1, <1>2, <1>3, StackBounds DEF Denotes

(* The machine is at a point where its operation is allowed. *)
Located(p, e) ==
  /\ TypeOK
  /\ p \in Point
  /\ VarsOf(job, p) \in Nat
  /\ EnteredAs(job, p, e)
  /\ pc \in Addresses(code)
  /\ Holds(p, e)
  /\ Allowed(job, p)

(* A step takes it to a point that comes next. *)
FollowsOn(p, e) == \E s \in Point : Leads(job, p, s) /\ Holds(s, e)'

LEMMA AtCurrent ==
  ASSUME NEW p, NEW e, Located(p, e)
  PROVE  OpAt(job, p) = current /\ p.at = pc
BY DEF Located, Holds, OpAt, current, code

LEMMA PutFollows ==
  ASSUME NEW p, NEW e, Located(p, e), NEW r \in Named, NEW v, NEW shape \in Shape,
         Means(shape, v, e), SetAndAdvance(r, v), stack' = stack,
         Leads(job, p, Put(p, r, shape))
  PROVE  FollowsOn(p, e)
BY PutHolds DEF Located, FollowsOn

LEMMA MoveFollows ==
  ASSUME NEW p, NEW e, Located(p, e), Move
  PROVE  FollowsOn(p, e)
<1>1. /\ current.opc = "MOVE" /\ OpAt(job, p) = current
      /\ SetAndAdvance(current.arg2, registers[current.arg1]) /\ stack' = stack
  BY AtCurrent DEF Move, Executing
<1>2. {current.arg1, current.arg2} \subseteq Named
  BY <1>1 DEF Located, Allowed
<1> DEFINE shape == p.regs[current.arg1]
<1>3. shape \in Shape /\ Means(shape, registers[current.arg1], e)
  BY <1>2 DEF Located, Point, Holds
<1> HIDE DEF shape
<1>4. Leads(job, p, Put(p, current.arg2, shape))
  BY <1>1 DEF Leads, shape
<1> QED
  BY <1>1, <1>2, <1>3, <1>4, PutFollows

LEMMA LoadImmFollows ==
  ASSUME NEW p, NEW e, Located(p, e), LoadImm
  PROVE  FollowsOn(p, e)
<1>1. /\ current.opc = "LOADIMM" /\ OpAt(job, p) = current
      /\ SetAndAdvance(current.arg2, current.arg1) /\ stack' = stack
  BY AtCurrent DEF LoadImm, Executing
<1>2. current.arg2 \in Named
  BY <1>1 DEF Located, Allowed
<1>3. current.arg1 \in Word
  BY JobsAssumption DEF Located, TypeOK, WellFormed, current, code
<1>4. Const(current.arg1) \in Shape /\ Means(Const(current.arg1), current.arg1, e)
  BY <1>3, MaxIntAssumption DEF Const, Shape, Means, Word, MinInt
<1>5. Leads(job, p, Put(p, current.arg2, Const(current.arg1)))
  BY <1>1 DEF Leads
<1> QED
  BY <1>1, <1>2, <1>4, <1>5, PutFollows

LEMMA SumFollows ==
  ASSUME NEW p, NEW e, Located(p, e), Add \/ Sub
  PROVE  FollowsOn(p, e)
<1> DEFINE a == current.arg1
           b == current.arg2
           v == registers[a]
           w == registers[b]
           x == p.regs[a]
           y == p.regs[b]
<1>1. /\ current.opc \in {"ADD", "SUB"} /\ OpAt(job, p) = current /\ stack' = stack
      /\ Add => current.opc = "ADD" /\ SetAndAdvance(a, Plus(v, w))
      /\ Sub => current.opc = "SUB" /\ SetAndAdvance(a, Minus(v, w))
  BY AtCurrent DEF Add, Sub, Executing
<1>2. a \in Named /\ b \in Named /\ Written(x) /\ Written(y)
  BY <1>1 DEF Located, Allowed
<1>3. x \in Shape /\ y \in Shape /\ Means(x, v, e) /\ Means(y, w, e)
  BY <1>2 DEF Located, Point, Holds
<1>4. v \in Word /\ w \in Word
  BY <1>2, <1>3 DEF Means
<1>5. Plus(v, w) = Wrap(v + w) /\ Minus(v, w) = Wrap(v - w)
  BY <1>4, UninitIsNoWord DEF Plus, Minus
<1>6. /\ SumOf(job, p, x, y) \in Shape /\ DifferenceOf(job, p, x, y) \in Shape
      /\ Means(SumOf(job, p, x, y), Wrap(v + w), e)
      /\ Means(DifferenceOf(job, p, x, y), Wrap(v - w), e)
  BY <1>3, <1>4, SumMeans DEF Located, Holds
<1>7. /\ current.opc = "ADD" => Leads(job, p, Put(p, a, SumOf(job, p, x, y)))
      /\ current.opc = "SUB" => Leads(job, p, Put(p, a, DifferenceOf(job, p, x, y)))
  BY <1>1 DEF Leads
<1> HIDE DEF a, b, v, w, x, y
<1>8. CASE Add
  BY <1>1, <1>2, <1>5, <1>6, <1>7, <1>8, PutFollows
<1>9. CASE Sub
  BY <1>1, <1>2, <1>5, <1>6, <1>7, <1>9, PutFollows
<1> QED
  BY <1>8, <1>9

LEMMA LoadFollows ==
  ASSUME NEW p, NEW e, Located(p, e), Load
  PROVE  FollowsOn(p, e)
<1> DEFINE a == current.arg1
           b == current.arg2
           n == p.regs[a].n
<1>1. /\ current.opc = "LOAD" /\ OpAt(job, p) = current /\ stack' = stack
      /\ \E c \in Denotes(registers[a]) \cap DOMAIN stack : SetAndAdvance(b, stack[c])
  BY AtCurrent DEF Load, Executing
<1>2. /\ a \in Named /\ b \in Named /\ p.regs[a].is = "cell"
      /\ -VarsOf(job, p) <= n /\ n < Len(p.temps) /\ Written(CellShape(p, n))
  BY <1>1 DEF Located, Allowed
<1>3. n \in Int /\ Len(p.temps) \in Nat /\ p.temps \in Seq(Shape) /\ n <= Len(p.temps)
  BY <1>2 DEF Located, Point, Shape
<1> HIDE DEF n
<1>4. registers[a] = e.sp + n /\ Denotes(registers[a]) = {registers[a]}
  <2>1. /\ TypeOK /\ p \in Point /\ EnteredAs(job, p, e) /\ VarsOf(job, p) \in Nat /\ Holds(p, e)
    BY DEF Located
  <2>2. PICK r \in Named : r = a
    BY <1>2
  <2>3. p.regs[r].n = n
    BY <2>2 DEF n
  <2>4. p.regs[r].is = "cell" /\ -VarsOf(job, p) <= p.regs[r].n /\ p.regs[r].n <= Len(p.temps)
    BY <1>2, <1>3, <2>2, <2>3
  <2> HIDE DEF a
  <2>5. registers[r] = e.sp + p.regs[r].n /\ Denotes(registers[r]) = {registers[r]}
    BY <2>1, <2>4, AddressOf
  <2> QED
    BY <2>2, <2>3, <2>5
<1>5. SetAndAdvance(b, stack[e.sp + n]) /\ e.sp + n \in DOMAIN stack
  BY <1>1, <1>4
<1>6. CellShape(p, n) \in Shape /\ Means(CellShape(p, n), stack[e.sp + n], e)
  <2>0. e.sp \in Nat /\ VarsOf(job, p) \in Nat
    BY StackBounds DEF Located
  <2>1. CASE n < 0
    <3>0. 0 <= e.sp + n
      BY <1>5 DEF Located, TypeOK
    <3>1. -n \in 1 .. VarsOf(job, p) /\ e.sp - (-n) = e.sp + n /\ -n <= e.sp
      BY <1>2, <1>3, <2>0, <2>1, <3>0
    <3>2. stack[e.sp + n] \in Word
      BY <3>1 DEF Located, Holds
    <3> QED
      BY <2>1, <3>2 DEF CellShape, AWord, Means, Shape, Written
  <2>2. CASE n >= 0
    <3>1. n + 1 \in 1 .. Len(p.temps) /\ e.sp + (n + 1) - 1 = e.sp + n
      BY <1>2, <1>3, <2>0, <2>2
    <3>2. Means(p.temps[n + 1], stack[e.sp + (n + 1) - 1], e)
      BY <3>1 DEF Located, Holds
    <3>3. CellShape(p, n) = p.temps[n + 1]
      BY <1>3, <2>2 DEF CellShape
    <3> QED
      BY <1>3, <3>1, <3>2, <3>3
  <2> QED
    BY <1>3, <2>1, <2>2
<1>7. Leads(job, p, Put(p, b, CellShape(p, n)))
  BY <1>1 DEF Leads, n
<1> QED
  BY <1>1, <1>2, <1>5, <1>6, <1>7, PutFollows

(* What lies below the frame of the function stays as it is. *)
FrameBelow(p, e) == \A c \in 0 .. e.sp - VarsOf(job, p) - 1 : stack'[c] = stack[c]

LEMMA StoreFollows ==
  ASSUME NEW p, NEW e, Located(p, e), Store
  PROVE  FollowsOn(p, e) /\ FrameBelow(p, e)
<1> DEFINE a == current.arg1
           b == current.arg2
<1>1. /\ current.opc = "STORE" /\ OpAt(job, p) = current /\ p.at = pc
      /\ \E c \in Denotes(registers[b]) \cap DOMAIN stack : stack' = [stack EXCEPT ![c] = registers[a]]
      /\ registers' = [registers EXCEPT ![PROGRAM_COUNTER] = Wrap(pc + 1)]
      /\ job' = job
  BY AtCurrent DEF Store, Executing, pc
<1>2. /\ a \in Named /\ b \in Named /\ Written(p.regs[a]) /\ p.regs[b].is = "cell"
      /\ p.regs[b].n = Len(p.temps) \/ p.regs[b].n \in -VarsOf(job, p) .. -1
  BY <1>1 DEF Located, Allowed
<1>3. PICK n \in Int : n = p.regs[b].n
  BY <1>2 DEF Located, Point, Shape
<1>4. PICK shape \in Shape : shape = p.regs[a]
  BY <1>2 DEF Located, Point
<1>5. PICK v \in Word : v = registers[a] /\ Means(shape, v, e)
  BY <1>2, <1>4 DEF Located, Holds, Means
<1>6. PICK vs \in Nat : vs = VarsOf(job, p)
  BY DEF Located
<1>7. PICK k \in Nat : k = Len(p.temps)
  BY DEF Located, Point
<1>8. n = k \/ n \in -vs .. -1
  BY <1>2, <1>3, <1>6, <1>7
<1>9. /\ e.sp \in Nat /\ e.sp <= StackSize /\ StackSize \in Nat
  BY <1>6, StackBounds DEF Located
<1>10. PICK c : c = e.sp + n
  OBVIOUS
<1>11. Denotes(registers[b]) = {c}
  <2>1. -vs <= n /\ n <= k
    BY <1>8
  <2>2. PICK r \in Named : r = b
    BY <1>2
  <2>3. p.regs[r].is = "cell" /\ p.regs[r].n = n
    BY <1>2, <1>3, <2>2
  <2>4. -VarsOf(job, p) <= p.regs[r].n /\ p.regs[r].n <= Len(p.temps)
    BY <1>6, <1>7, <2>1, <2>3
  <2>5. /\ TypeOK /\ p \in Point /\ EnteredAs(job, p, e) /\ VarsOf(job, p) \in Nat /\ Holds(p, e)
    BY DEF Located
  <2> HIDE DEF b
  <2>6. registers[r] = e.sp + p.regs[r].n /\ Denotes(registers[r]) = {registers[r]}
    BY <2>3, <2>4, <2>5, AddressOf
  <2> QED
    BY <1>10, <2>2, <2>3, <2>6
<1>12. c \in 0 .. StackSize - 1 /\ stack' = [stack EXCEPT ![c] = v]
  BY <1>1, <1>5, <1>11 DEF Located, TypeOK
<1>13. stack'[c] = v /\ \A d \in 0 .. StackSize - 1 : d # c => stack'[d] = stack[d]
  BY <1>12 DEF Located, TypeOK
<1>14. FrameBelow(p, e)
  BY <1>6, <1>8, <1>9, <1>10, <1>12, <1>13 DEF FrameBelow, Located, EnteredAs
<1> DEFINE s == Stored(p, n, shape)
<1>15. /\ s \in Point /\ s.func = p.func /\ s.at = p.at + 1 /\ s.regs = p.regs
       /\ n < 0 => s.temps = p.temps
       /\ ~(n < 0) => s.temps = Append(p.temps, shape)
  BY DEF Located, Point, Stored, At
<1>16. Leads(job, p, s)
  BY <1>1, <1>3, <1>4 DEF Leads
<1> HIDE DEF s
<1>17. /\ pc' = s.at
       /\ \A r \in Named : Means(s.regs[r], registers'[r], e)
  BY <1>1, <1>15, NextAddress, RegistersThere DEF Located, TypeOK, Holds, pc
<1>18. VarsOf(job, s)' = vs
  BY <1>1, <1>6, <1>15 DEF VarsOf
<1>19. \A i \in 1 .. vs : i <= e.sp => stack'[e.sp - i] \in Word
  <2>1. TAKE i \in 1 .. vs
  <2>0. HAVE i <= e.sp
  <2>2. e.sp - i \in 0 .. StackSize - 1
    BY <1>9, <2>0, <2>1
  <2>3. stack[e.sp - i] \in Word
    BY <1>6, <2>0, <2>1 DEF Located, Holds
  <2> QED
    BY <1>13, <2>2, <2>3
<1>20. /\ \A i \in 1 .. Len(s.temps) : Means(s.temps[i], stack'[e.sp + i - 1], e)
       /\ e.sp + Len(s.temps) <= StackSize
  <2>1. /\ e.sp + k <= StackSize
        /\ \A i \in 1 .. k : Means(p.temps[i], stack[e.sp + i - 1], e)
    BY <1>7 DEF Located, Holds
  <2>2. CASE n < 0
    <3>1. \A i \in 1 .. k : e.sp + i - 1 \in 0 .. StackSize - 1 /\ e.sp + i - 1 # c
      BY <1>9, <1>10, <2>1, <2>2
    <3> QED
      BY <1>7, <1>13, <1>15, <2>1, <2>2, <3>1
  <2>3. CASE n = k
    <3>1. /\ Len(s.temps) = k + 1 /\ s.temps[k + 1] = shape
          /\ \A i \in 1 .. k : s.temps[i] = p.temps[i]
      BY <1>7, <1>15, <2>3 DEF Located, Point
    <3>2. \A i \in 1 .. k : e.sp + i - 1 \in 0 .. StackSize - 1 /\ e.sp + i - 1 # c
      BY <1>9, <1>10, <2>1, <2>3
    <3>3. \A i \in 1 .. k : Means(s.temps[i], stack'[e.sp + i - 1], e)
      BY <1>13, <2>1, <3>1, <3>2
    <3>4. e.sp + (k + 1) - 1 = c /\ e.sp + (k + 1) <= StackSize
      BY <1>9, <1>10, <1>12, <2>3
    <3>5. Means(s.temps[k + 1], stack'[e.sp + (k + 1) - 1], e)
      BY <1>5, <1>13, <3>1, <3>4
    <3>6. \A i \in 1 .. k + 1 : i \in 1 .. k \/ i = k + 1
      OBVIOUS
    <3> QED
      BY <3>1, <3>3, <3>4, <3>5, <3>6
  <2> QED
    BY <1>8, <2>2, <2>3
<1>21. Holds(s, e)'
  BY <1>17, <1>18, <1>19, <1>20 DEF Holds
<1> QED
  BY <1>14, <1>15, <1>16, <1>21 DEF FollowsOn

(* A jump, or a step ahead. *)
LEMMA GotoFollows ==
  ASSUME NEW p, NEW e, Located(p, e), NEW addresses, Goto(addresses),
         \A a \in addresses : a \in Nat /\ Leads(job, p, MovedTo(p, a))
  PROVE  FollowsOn(p, e)
<1>1. PICK a \in addresses : a = pc'
  BY GotoFacts DEF Located
<1> DEFINE s == MovedTo(p, a)
<1>2. s \in Point /\ s.func = p.func /\ s.at = a /\ s.regs = p.regs /\ s.temps = p.temps
  BY <1>1 DEF Located, Point, MovedTo, At
<1> HIDE DEF s
<1>3. job' = job /\ stack' = stack /\ \A r \in Named : registers'[r] = registers[r]
  BY GotoFacts DEF Located
<1>4. VarsOf(job, s)' = VarsOf(job, p)
  BY <1>2, <1>3 DEF VarsOf
<1>5. Holds(s, e)'
  BY <1>1, <1>2, <1>3, <1>4 DEF Holds, Located
<1> QED
  BY <1>1, <1>2, <1>5 DEF FollowsOn, s

(* Labels that are there are jumped to. *)
LEMMA SitesLookedUp ==
  ASSUME TypeOK, NEW label, LabelSites(code, label) # {}
  PROVE  \A a \in LookupLabelAddress(label) :
           a \in LabelSites(code, label) /\ a \in Nat
BY DEF LookupLabelAddress, LabelSites, Addresses

LEMMA JumpFollows ==
  ASSUME NEW p, NEW e, Located(p, e), Jump \/ JumpCondTaken
  PROVE  FollowsOn(p, e)
<1>1. /\ current.opc \in {"JUMP", "JUMPCOND"} /\ OpAt(job, p) = current
      /\ Goto(LookupLabelAddress(current.arg1))
  BY AtCurrent DEF Jump, JumpCondTaken, Executing
<1>2. LabelSites(code, current.arg1) # {}
  BY <1>1 DEF Located, Allowed, code
<1>3. \A a \in LookupLabelAddress(current.arg1) : a \in Nat /\ Leads(job, p, MovedTo(p, a))
  BY <1>1, <1>2, SitesLookedUp DEF Located, Leads, code
<1> QED
  BY <1>1, <1>3, GotoFollows

LEMMA AdvanceFollows ==
  ASSUME NEW p, NEW e, Located(p, e), Label \/ JumpCondNotTaken
  PROVE  FollowsOn(p, e)
<1>1. /\ current.opc \in {"LABEL", "JUMPCOND"} /\ OpAt(job, p) = current /\ p.at = pc
      /\ Goto({Wrap(pc + 1)})
  BY AtCurrent DEF Label, JumpCondNotTaken, Executing, Advance
<1>2. pc \in Nat /\ Wrap(pc + 1) = pc + 1
  BY NextAddress DEF Located, TypeOK
<1>3. \A a \in {pc + 1} : a \in Nat /\ Leads(job, p, MovedTo(p, a))
  BY <1>1, <1>2 DEF Leads, Forward
<1> QED
  BY <1>1, <1>2, <1>3, GotoFollows

(* The address of an access is never below the stack if main has a frame. *)
LEMMA AccessesAreAddresses ==
  ASSUME NEW p, NEW e, Located(p, e), AccessingStack, Framed(job)
  PROVE  \A c \in Denotes(registers[AddressRegister]) : c \in Nat
<1>1. OpAt(job, p) = current /\ current.opc \in {"LOAD", "STORE"}
  BY AtCurrent DEF AccessingStack, Executing
<1>2. PICK r : r = AddressRegister
  OBVIOUS
<1>3. Len(p.temps) \in Nat /\ VarsOf(job, p) \in Nat
  BY DEF Located, Point
<1>4. /\ r \in Named /\ p.regs[r].is = "cell"
      /\ \/ -VarsOf(job, p) <= p.regs[r].n /\ p.regs[r].n < Len(p.temps)
         \/ p.regs[r].n = Len(p.temps)
         \/ p.regs[r].n \in -VarsOf(job, p) .. -1
  BY <1>1, <1>2 DEF Located, Allowed, AddressRegister
<1>5. p.regs[r].n \in Int
  BY <1>4 DEF Located, Point, Shape
<1>6. -VarsOf(job, p) <= p.regs[r].n /\ p.regs[r].n <= Len(p.temps)
  BY <1>3, <1>4, <1>5
<1>7. registers[r] \in Nat /\ Denotes(registers[r]) = {registers[r]}
  BY <1>4, <1>6, AddressOf DEF Located
<1> QED
  BY <1>2, <1>7

(* A step within a function: to a point that comes next, or the stack is full, or a
   variable of main would be below it. *)
Fails ==
  \/ status' = "stack overflow"
  \/ status' = "stack underflow" /\ ~Framed(job)

LEMMA WithinFollows ==
  ASSUME NEW p, NEW e, Located(p, e), activations # <<>>, Within
  PROVE  /\ job' = job
         /\ \/ status' = status /\ FollowsOn(p, e) /\ FrameBelow(p, e)
            \/ Fails /\ UNCHANGED <<registers, stack>>
<1>1. OpAt(job, p) = current /\ current.opc # "HALT"
  BY AtCurrent DEF Located, Allowed
<1>2. CASE Move \/ LoadImm \/ Add \/ Sub \/ Load
  <2>1. FollowsOn(p, e)
    BY <1>2, MoveFollows, LoadImmFollows, SumFollows, LoadFollows
  <2>2. stack' = stack /\ job' = job /\ status' = status
    BY <1>2 DEF Move, LoadImm, Add, Sub, Load, SetAndAdvance
  <2> QED
    BY <2>1, <2>2 DEF FrameBelow
<1>3. CASE Store
  BY <1>3, StoreFollows DEF Store
<1>4. CASE Jump \/ JumpCondTaken \/ JumpCondNotTaken \/ Label
  <2>1. FollowsOn(p, e)
    BY <1>4, JumpFollows, AdvanceFollows
  <2>2. stack' = stack /\ job' = job /\ status' = status
    BY <1>4 DEF Jump, JumpCondTaken, JumpCondNotTaken, Label, Advance, Goto
  <2> QED
    BY <2>1, <2>2 DEF FrameBelow
<1>5. CASE JumpLink \/ JumpAddr \/ Halt
  BY <1>1, <1>5 DEF Within, JumpLink, JumpAddr, Halt, Executing
<1>6. CASE StackOverflow
  BY <1>6 DEF StackOverflow, Abort, Fails
<1>7. CASE StackUnderflow
  <2>1. PICK c \in Denotes(registers[AddressRegister]) : c < 0
    BY <1>7 DEF StackUnderflow
  <2>2. Framed(job) => c \in Nat
    BY <1>7, AccessesAreAddresses DEF StackUnderflow
  <2>3. ~Framed(job)
    BY <2>1, <2>2
  <2> QED
    BY <1>7, <2>3 DEF StackUnderflow, Abort, Fails
<1>8. CASE IndexOutOfBounds
  BY <1>8 DEF IndexOutOfBounds, Located
<1> QED
  BY <1>2, <1>3, <1>4, <1>5, <1>6, <1>7, <1>8 DEF Within, Next

(* ------------------------- The activations ------------------------------ *)
PointsOf(j) == CHOOSE P : Consistent(j, P, {}) /\ StartsIn(j, P)

(* The functions that have not returned, each at the point of its call but the last
   at that where the machine is. *)
Chain(j, acts, ps) ==
  /\ acts # <<>> /\ \E S : acts \in Seq(S)
  /\ ps \in Seq(PointsOf(j)) /\ Len(ps) = Len(acts)
  /\ acts[1].ra = 1 /\ acts[1].sp = Len(j.initial_stack)
  /\ \A i \in 1 .. Len(acts) : EnteredAs(j, ps[i], acts[i])
  /\ \A i \in 1 .. Len(acts) - 1 : Suspended(j, ps[i], acts[i], ps[i + 1], acts[i + 1])
  /\ \A k \in 1 .. Len(acts) :
       \A i \in 1 .. k : DOMAIN acts[i].below \subseteq DOMAIN acts[k].below

LEMMA ChainFacts ==
  ASSUME NEW j, NEW acts, NEW ps, Chain(j, acts, ps)
  PROVE  /\ Len(acts) \in Nat \ {0} /\ Len(acts) \in 1 .. Len(acts)
         /\ ps[Len(acts)] \in PointsOf(j)
         /\ EnteredAs(j, ps[Len(acts)], acts[Len(acts)])
BY DEF Chain

(* The last function has moved. *)
LEMMA ChainMoved ==
  ASSUME NEW j, NEW acts, NEW ps, Chain(j, acts, ps), NEW q \in PointsOf(j),
         q.func = ps[Len(acts)].func
  PROVE  \E qs : Chain(j, acts, qs) /\ qs[Len(acts)] = q
<1> DEFINE n == Len(acts)
           qs == [ps EXCEPT ![n] = q]
<1>1. n \in Nat \ {0} /\ ps \in Seq(PointsOf(j)) /\ Len(ps) = n
  BY ChainFacts DEF Chain
<1>2. /\ qs \in Seq(PointsOf(j)) /\ Len(qs) = n /\ qs[n] = q
      /\ \A i \in 1 .. n - 1 : qs[i] = ps[i]
  BY <1>1
<1> HIDE DEF qs
<1>3. EnteredAs(j, q, acts[n])
  BY ChainFacts DEF EnteredAs, VarsOf
<1>4. ASSUME NEW i \in 1 .. n
      PROVE  EnteredAs(j, qs[i], acts[i])
  <2>1. CASE i = n
    BY <1>2, <1>3, <2>1
  <2>2. CASE i # n
    <3>1. i \in 1 .. n - 1
      BY <1>1, <2>2
    <3> QED
      BY <1>2, <3>1 DEF Chain
  <2> QED
    BY <2>1, <2>2
<1>5. ASSUME NEW i \in 1 .. n - 1
      PROVE  Suspended(j, qs[i], acts[i], qs[i + 1], acts[i + 1])
  <2>1. Suspended(j, ps[i], acts[i], ps[i + 1], acts[i + 1])
    BY DEF Chain
  <2>2. qs[i + 1].func = ps[i + 1].func
    <3>1. CASE i + 1 = n
      BY <1>2, <3>1
    <3>2. CASE i + 1 # n
      <4>1. i + 1 \in 1 .. n - 1
        BY <1>1, <3>2
      <4> QED
        BY <1>2, <4>1
    <3> QED
      BY <3>1, <3>2
  <2> QED
    BY <1>2, <2>1, <2>2 DEF Suspended
<1> QED
  <2>1. Chain(j, acts, qs)
    BY <1>2, <1>4, <1>5 DEF Chain
  <2> QED
    BY <1>2, <2>1

(* It has called one more. *)
Extended(j, acts, ps, e, q) ==
  /\ Chain(j, Append(acts, e), Append(ps, q))
  /\ Append(ps, q)[Len(Append(acts, e))] = q
  /\ Append(acts, e)[Len(Append(acts, e))] = e

LEMMA ChainEntered ==
  ASSUME NEW j, NEW acts, NEW ps, Chain(j, acts, ps), NEW q \in PointsOf(j), NEW e,
         EnteredAs(j, q, e), Suspended(j, ps[Len(acts)], acts[Len(acts)], q, e),
         DOMAIN acts[Len(acts)].below \subseteq DOMAIN e.below
  PROVE  Extended(j, acts, ps, e, q)
<1> DEFINE n == Len(acts)
           all == Append(acts, e)
           qs == Append(ps, q)
<1>1. /\ n \in Nat \ {0} /\ ps \in Seq(PointsOf(j)) /\ Len(ps) = n
  BY ChainFacts DEF Chain
<1>2. PICK S : acts \in Seq(S)
  BY DEF Chain
<1>3. acts \in Seq(S \cup {e})
  BY <1>2
<1>4. /\ all \in Seq(S \cup {e}) /\ all # <<>> /\ Len(all) = n + 1 /\ all[n + 1] = e
      /\ \A i \in 1 .. n : all[i] = acts[i]
  BY <1>3
<1>5. /\ qs \in Seq(PointsOf(j)) /\ Len(qs) = n + 1 /\ qs[n + 1] = q
      /\ \A i \in 1 .. n : qs[i] = ps[i]
  BY <1>1
<1> HIDE DEF all, qs
<1>6. all[1] = acts[1]
  BY <1>1, <1>4
<1>7. \A i \in 1 .. n + 1 : EnteredAs(j, qs[i], all[i])
  <2>1. \A i \in 1 .. n : EnteredAs(j, qs[i], all[i])
    BY <1>4, <1>5 DEF Chain
  <2>2. EnteredAs(j, qs[n + 1], all[n + 1])
    BY <1>4, <1>5
  <2>3. \A i \in 1 .. n + 1 : i \in 1 .. n \/ i = n + 1
    BY <1>1
  <2> QED
    BY <2>1, <2>2, <2>3
<1>8. ASSUME NEW i \in 1 .. n
      PROVE  Suspended(j, qs[i], all[i], qs[i + 1], all[i + 1])
  <2>1. CASE i = n
    BY <1>4, <1>5, <2>1
  <2>2. CASE i # n
    <3>1. i \in 1 .. n - 1 /\ i + 1 \in 1 .. n
      BY <1>1, <2>2
    <3> QED
      BY <1>4, <1>5, <3>1 DEF Chain
  <2> QED
    BY <2>1, <2>2
<1>9. ASSUME NEW k \in 1 .. n + 1, NEW i \in 1 .. k
      PROVE  DOMAIN all[i].below \subseteq DOMAIN all[k].below
  <2>1. CASE k \in 1 .. n
    <3>1. i \in 1 .. n
      BY <1>1, <2>1
    <3> QED
      BY <1>4, <2>1, <3>1 DEF Chain
  <2>2. CASE k = n + 1 /\ i \in 1 .. n
    <3>1. DOMAIN acts[i].below \subseteq DOMAIN acts[n].below
      BY <1>1, <2>2 DEF Chain
    <3> QED
      BY <1>4, <2>2, <3>1
  <2>3. CASE k = n + 1 /\ i = n + 1
    BY <2>3
  <2>4. k \in 1 .. n \/ (k = n + 1 /\ i \in 1 .. n) \/ (k = n + 1 /\ i = n + 1)
    BY <1>1
  <2> QED
    BY <2>1, <2>2, <2>3, <2>4
<1>10. n + 1 - 1 = n
  BY <1>1
<1>11. Chain(j, all, qs)
  BY <1>4, <1>5, <1>6, <1>7, <1>8, <1>9, <1>10 DEF Chain
<1> QED
  BY <1>4, <1>5, <1>11 DEF Extended, all, qs

(* It has returned to one. *)
LEMMA ChainLeft ==
  ASSUME NEW j, NEW acts, NEW ps, Chain(j, acts, ps), Len(acts) # 1
  PROVE  LET n == Len(acts)
             rest == SubSeq(acts, 1, n - 1)
             qs == SubSeq(ps, 1, n - 1)
         IN  /\ Chain(j, rest, qs) /\ Len(rest) = n - 1
             /\ rest[n - 1] = acts[n - 1] /\ qs[n - 1] = ps[n - 1]
             /\ Suspended(j, ps[n - 1], acts[n - 1], ps[n], acts[n])
<1> DEFINE n == Len(acts)
           rest == SubSeq(acts, 1, n - 1)
           qs == SubSeq(ps, 1, n - 1)
<1>1. n - 1 \in Nat \ {0} /\ n \in Nat /\ ps \in Seq(PointsOf(j)) /\ Len(ps) = n
  BY ChainFacts DEF Chain
<1>2. PICK S : acts \in Seq(S)
  BY DEF Chain
<1> HIDE DEF n
<1>0. ASSUME NEW T, NEW s \in Seq(T), Len(s) = n
      PROVE  /\ SubSeq(s, 1, n - 1) \in Seq(T) /\ SubSeq(s, 1, n - 1) # <<>>
             /\ Len(SubSeq(s, 1, n - 1)) = n - 1
             /\ \A i \in 1 .. n - 1 : SubSeq(s, 1, n - 1)[i] = s[i]
  <2> DEFINE r == SubSeq(s, 1, n - 1)
  <2>1. \A i \in 1 .. n - 1 : s[i] \in T /\ 1 + i - 1 = i
    BY <1>0, <1>1
  <2>2. n - 1 - 1 + 1 = n - 1 /\ 1 <= n - 1 /\ n - 1 \in Int
    BY <1>1
  <2>3. r \in Seq(T) /\ Len(r) = n - 1 /\ \A i \in 1 .. n - 1 : r[i] = s[1 + i - 1]
    BY <2>1, <2>2, SubSeqProperties
  <2> HIDE DEF r
  <2>4. r # <<>>
    BY <2>2, <2>3
  <2>5. \A i \in 1 .. n - 1 : r[i] = s[i]
    BY <2>1, <2>3
  <2> QED
    BY <2>3, <2>4, <2>5 DEF r
<1>3. /\ rest \in Seq(S) /\ rest # <<>> /\ Len(rest) = n - 1
      /\ \A i \in 1 .. n - 1 : rest[i] = acts[i]
  BY <1>0, <1>1, <1>2 DEF n
<1>4. /\ qs \in Seq(PointsOf(j)) /\ Len(qs) = n - 1
      /\ \A i \in 1 .. n - 1 : qs[i] = ps[i]
  BY <1>0, <1>1, <1>3
<1> HIDE DEF rest, qs
<1>5. \A i \in 1 .. n - 1 : i \in 1 .. n
  BY <1>1
<1>6. \A i \in 1 .. n - 1 - 1 : i \in 1 .. n - 1 /\ i + 1 \in 1 .. n - 1
  BY <1>1
<1>7. 1 \in 1 .. n - 1 /\ n - 1 \in 1 .. n - 1 /\ n - 1 + 1 = n
  BY <1>1
<1>8. rest[1] = acts[1] /\ rest[n - 1] = acts[n - 1] /\ qs[n - 1] = ps[n - 1]
  BY <1>3, <1>4, <1>7
<1>9. \A k \in 1 .. n - 1 : \A i \in 1 .. k : i \in 1 .. n - 1
  BY <1>1
<1>10. Chain(j, rest, qs)
  BY <1>3, <1>4, <1>5, <1>6, <1>8, <1>9 DEF Chain, n
<1>11. Suspended(j, ps[n - 1], acts[n - 1], ps[n], acts[n])
  BY <1>7 DEF Chain, n
<1> QED
  BY <1>3, <1>8, <1>10, <1>11 DEF rest, qs, n

(* -------------------------- The invariant ------------------------------- *)
(* Nothing was called yet, or main has returned. *)
AtTop ==
  /\ activations = <<>>
  /\ pc \in {0, 1}
  /\ SP = Len(initial_stack)
  /\ FP = Len(initial_stack) - 1
  /\ pc = 0 => \A i \in 1 .. Len(initial_stack) : stack[i - 1] \in Word

(* Some function is being executed. *)
Active ==
  \E ps :
    /\ Chain(job, activations, ps)
    /\ Holds(ps[Len(activations)], activations[Len(activations)])

Convention ==
  /\ TypeOK
  /\ OnlyOverflowAborts
  /\ status = "halted" => AtTop
  /\ AtTop \/ Active
  /\ CallersAreUntouched

TypedJobs == \A j \in Jobs : IsTyped(j)

LEMMA TypedJob ==
  ASSUME TypedJobs, NEW j \in Jobs
  PROVE  /\ Functional(j) /\ IntSized(j) /\ NoNegativeLabel(j)
         /\ Consistent(j, PointsOf(j), {}) /\ StartsIn(j, PointsOf(j))
BY DEF TypedJobs, IsTyped, PointsOf

(* The points of a job, one by one. *)
LEMMA PointFacts ==
  ASSUME TypedJobs, NEW j \in Jobs, NEW p \in PointsOf(j)
  PROVE  /\ p \in Point
         /\ p.func \in FunctionNames(j.prog) /\ VarsOf(j, p) \in Nat
         /\ p.at \in Addresses(j.code)
         /\ Allowed(j, p)
         /\ \A s : Leads(j, p, s) => \E q \in PointsOf(j) : Covers(q, s)
BY TypedJob DEF Consistent, Functional, VarsOf

(* The last function is at a point where its operation is allowed. *)
LEMMA ActiveFacts ==
  ASSUME TypedJobs, TypeOK, NEW ps, Chain(job, activations, ps),
         Holds(ps[Len(activations)], activations[Len(activations)])
  PROVE  LET n == Len(activations)
         IN  /\ n \in Nat \ {0} /\ activations # <<>>
             /\ ps[n] \in PointsOf(job)
             /\ Located(ps[n], activations[n])
<1>1. /\ Len(activations) \in Nat \ {0}
      /\ ps[Len(activations)] \in PointsOf(job)
      /\ EnteredAs(job, ps[Len(activations)], activations[Len(activations)])
  BY ChainFacts
<1>2. job \in Jobs
  BY DEF TypeOK
<1> QED
  BY <1>1, <1>2, PointFacts DEF Located, Chain, Holds, code

LEMMA ConventionInitially == TypedJobs /\ CInit => Convention
<1> SUFFICES ASSUME TypedJobs, CInit
             PROVE  Convention
  OBVIOUS
<1>1. TypeOK
  BY InitType DEF CInit
<1>2. job \in Jobs /\ NoNegativeLabel(job)
  BY TypedJob DEF CInit, Init
<1>3. status = "running"
  <2>1. \A a \in Addresses(code) : OperationAt(code, a).arg1 \in Int
    <3>1. Word \subseteq Int
      BY MaxIntAssumption DEF Word, MinInt
    <3> QED
      BY <1>2, <3>1, JobsAssumption DEF WellFormed, code
  <2>2. ~HasNegativeLabel
    BY <1>2, <2>1 DEF HasNegativeLabel, NoNegativeLabel, code
  <2> QED
    BY <2>2 DEF CInit, Init
<1>4. AtTop
  <2>1. /\ PROGRAM_COUNTER \in RegisterFile /\ Named \subseteq RegisterFile
    BY RegistersThere
  <2>2. pc = 0 /\ SP = Len(initial_stack) /\ FP = Len(initial_stack) - 1
    <3>1. {STACK_POINTER, FRAME_POINTER, PROGRAM_COUNTER} \subseteq RegisterFile
      BY <2>1 DEF Named
    <3>2. registers = InitialRegisters
      BY DEF CInit, Init
    <3>3. /\ registers[STACK_POINTER] = Len(initial_stack)
          /\ registers[FRAME_POINTER] = Len(initial_stack) - 1
          /\ registers[PROGRAM_COUNTER] = 0
      BY <3>1, <3>2 DEF InitialRegisters, STACK_POINTER, FRAME_POINTER, PROGRAM_COUNTER,
         RETURN_ADDRESS
    <3> QED
      BY <3>3 DEF pc, SP, FP
  <2>3. initial_stack \in Seq(Word) /\ Len(initial_stack) <= StackSize
    BY <1>2, JobsAssumption DEF WellFormed, initial_stack
  <2>4. ASSUME NEW i \in 1 .. Len(initial_stack)
        PROVE  stack[i - 1] = initial_stack[i - 1 + 1]
    <3>1. i - 1 \in 0 .. StackSize - 1 /\ i - 1 < Len(initial_stack)
      BY <2>3, StackSizeAssumption
    <3> QED
      BY <3>1 DEF CInit, Init, InitialStack
  <2>5. \A i \in 1 .. Len(initial_stack) : i - 1 + 1 = i
    OBVIOUS
  <2>6. \A i \in 1 .. Len(initial_stack) : stack[i - 1] \in Word
    BY <2>3, <2>4, <2>5
  <2> QED
    BY <2>2, <2>6 DEF AtTop, CInit
<1>5. CallersAreUntouched
  BY DEF CInit, CallersAreUntouched
<1> QED
  BY <1>1, <1>3, <1>4, <1>5 DEF Convention, OnlyOverflowAborts

LEMMA NextAsMachine == [CNext]_cvars => [Next]_vars /\ job' = job
<1>1. CNext => Next
  BY DEF CNext, Enter, Leave, Within, Next
<1>2. UNCHANGED cvars => UNCHANGED vars
  BY DEF cvars, vars
<1> QED
  BY <1>1, <1>2, JobNeverChanges DEF vars

(* The history of the calls follows the machine and never stops it: with the calls
   that are open after it, every step of the machine is one here. *)
CallsAfter ==
  IF Executing("JUMPLINK") THEN Append(activations, Activation)
  ELSE IF Executing("JUMPADDR") /\ activations # <<>>
    THEN SubSeq(activations, 1, Len(activations) - 1)
  ELSE activations

LEMMA EveryStepIsFollowed == Next /\ activations' = CallsAfter => CNext
<1>1. Next => /\ Executing("JUMPLINK") => JumpLink
              /\ Executing("JUMPADDR") => JumpAddr
  BY DEF Next, Executing, AccessingStack, Move, LoadImm, Add, Sub, Load, Store, Jump,
     JumpCondTaken, JumpCondNotTaken, JumpLink, JumpAddr, Label, Halt, StackOverflow,
     StackUnderflow, IndexOutOfBounds
<1>2. ~(Executing("JUMPLINK") /\ Executing("JUMPADDR"))
  BY DEF Executing
<1> QED
  BY <1>1, <1>2 DEF CallsAfter, CNext, Enter, Leave, Within

LEMMA RegsValues ==
  ASSUME NEW a \in Shape, NEW b \in Shape, NEW c \in Shape, NEW d \in Shape, NEW t \in Shape
  PROVE  /\ Regs(a, b, c, d, t) \in [Named -> Shape]
         /\ Regs(a, b, c, d, t)[STACK_POINTER] = a
         /\ Regs(a, b, c, d, t)[FRAME_POINTER] = b
         /\ Regs(a, b, c, d, t)[RETURN_ADDRESS] = c
         /\ Regs(a, b, c, d, t)[ACCUMULATOR] = d
         /\ Regs(a, b, c, d, t)[TEMPORARY] = t
BY DEF Regs, Named, STACK_POINTER, FRAME_POINTER, RETURN_ADDRESS, ACCUMULATOR, TEMPORARY

LEMMA ShapeTypes ==
  /\ AnyThing \in Shape /\ AWord \in Shape /\ ReturnAddress \in Shape
  /\ \A n \in Int : Cell(n) \in Shape /\ Const(n) \in Shape
BY DEF Shape, AnyThing, AWord, ReturnAddress, Cell, Const

(* A call of a function, when its frame is on the stack. *)
Calls(f, vs, e) ==
  /\ TypeOK
  /\ pc \in Addresses(code)
  /\ JumpLink
  /\ f \in Nat /\ f = current.arg1 /\ LabelSites(code, f) # {}
  /\ vs \in 0 .. MaxInt /\ vs = Prog_func(job.prog, f).num_vars
  /\ SP \in 0 .. StackSize
  /\ Framed(job) => vs <= SP
  /\ FP = SP - 1
  /\ \A i \in 1 .. vs : i <= SP => stack[SP - i] \in Word
  /\ e = Activation

LEMMA Entering ==
  ASSUME NEW f, NEW vs, NEW e, Calls(f, vs, e)
  PROVE  /\ status' = status /\ job' = job /\ stack' = stack
         /\ e.sp = SP /\ e.ra = pc + 1 /\ DOMAIN e.below = 0 .. SP - vs - 1
         /\ \A c \in DOMAIN e.below : e.below[c] = stack[c]
         /\ \E a \in LabelSites(code, f) :
              /\ EntryPoint(f, a) \in Point
              /\ EnteredAs(job, EntryPoint(f, a), e)
              /\ Holds(EntryPoint(f, a), e)'
<1> USE DEF Calls
<1>1. PICK a \in LabelSites(code, f) :
        /\ registers' = [registers EXCEPT ![RETURN_ADDRESS]  = Wrap(pc + 1),
                                          ![PROGRAM_COUNTER] = a]
        /\ UNCHANGED <<job, stack, status>>
  BY SitesLookedUp DEF JumpLink
<1>2. pc \in Nat /\ Wrap(pc + 1) = pc + 1 /\ pc + 1 \in Word
  BY NextAddress DEF TypeOK
<1>3. a \in Nat
  BY DEF LabelSites, Addresses
<1>4. SP - 1 - vs = SP - vs - 1
  BY MaxIntAssumption, StackSizeAssumption
<1>5. /\ e.sp = SP /\ e.fp = SP - 1 /\ e.ra = pc + 1
      /\ e.below = [i \in 0 .. SP - vs - 1 |-> stack[i]]
  BY <1>4 DEF Activation, Callee
<1> DEFINE q == EntryPoint(f, a)
<1>6. /\ q.func = f /\ q.at = a /\ q.temps = <<>>
      /\ q.regs = Regs(Cell(0), Cell(-1), ReturnAddress, AnyThing, AnyThing)
      /\ q \in Point
  <2>1. /\ Cell(0) \in Shape /\ Cell(-1) \in Shape
        /\ ReturnAddress \in Shape /\ AnyThing \in Shape
    BY ShapeTypes
  <2>2. Regs(Cell(0), Cell(-1), ReturnAddress, AnyThing, AnyThing) \in [Named -> Shape]
    BY <2>1, RegsValues
  <2> QED
    BY <1>3, <2>2 DEF EntryPoint, Point
<1>20. /\ q.regs[STACK_POINTER] = Cell(0) /\ q.regs[FRAME_POINTER] = Cell(-1)
       /\ q.regs[RETURN_ADDRESS] = ReturnAddress
       /\ q.regs[ACCUMULATOR] = AnyThing /\ q.regs[TEMPORARY] = AnyThing
  <2>1. /\ Cell(0) \in Shape /\ Cell(-1) \in Shape
        /\ ReturnAddress \in Shape /\ AnyThing \in Shape
    BY ShapeTypes
  <2> QED
    BY <1>6, <2>1, RegsValues
<1> HIDE DEF q
<1>7. VarsOf(job, q) = vs
  BY <1>6 DEF VarsOf
<1>8. EnteredAs(job, q, e)
  BY <1>5, <1>7 DEF EnteredAs
<1>9. Holds(q, e)'
  <2>1. SP \in Int /\ -1 <= SP - 1 /\ SP <= MaxInt /\ SP - 1 \in Int
    BY StackSizeAssumption, MaxIntAssumption
  <2>2. SP \in Word /\ SP - 1 \in Word
    <3>1. -MaxInt - 1 <= SP - 1 /\ -MaxInt - 1 <= SP /\ SP - 1 <= MaxInt
      BY <2>1, MaxIntAssumption
    <3> QED
      BY <2>1, <3>1, SmallNumbers
  <2>3. /\ pc' = a
        /\ registers'[STACK_POINTER] = SP /\ registers'[FRAME_POINTER] = SP - 1
        /\ registers'[RETURN_ADDRESS] = pc + 1
    BY <1>1, <1>2, RegistersThere DEF TypeOK, SP, FP, pc, Named, STACK_POINTER, FRAME_POINTER,
       RETURN_ADDRESS, PROGRAM_COUNTER, ACCUMULATOR, TEMPORARY
  <2>4. /\ Means(q.regs[STACK_POINTER], registers'[STACK_POINTER], e)
        /\ Means(q.regs[FRAME_POINTER], registers'[FRAME_POINTER], e)
    <3>1. SP = SP + 0 /\ SP - 1 = SP + (-1)
      BY <2>1
    <3> QED
      BY <1>5, <1>20, <2>2, <2>3, <3>1 DEF Means, Cell
  <2>5. Means(q.regs[RETURN_ADDRESS], registers'[RETURN_ADDRESS], e)
    BY <1>2, <1>5, <1>20, <2>3 DEF Means, ReturnAddress
  <2>6. /\ Means(q.regs[ACCUMULATOR], registers'[ACCUMULATOR], e)
        /\ Means(q.regs[TEMPORARY], registers'[TEMPORARY], e)
    BY <1>20 DEF Means, AnyThing, Written
  <2>7. \A r \in Named : Means(q.regs[r], registers'[r], e)
    BY <2>4, <2>5, <2>6 DEF Named
  <2>8. Len(q.temps) = 0
    BY <1>6
  <2>9. SP + 0 <= StackSize
    BY <2>1
  <2>10. VarsOf(job, q)' = vs
    BY <1>1, <1>6 DEF VarsOf
  <2>11. \A i \in 1 .. vs : i <= e.sp => stack'[e.sp - i] \in Word
    BY <1>1, <1>5
  <2>12. 1 .. 0 = {}
    OBVIOUS
  <2> QED
    BY <1>5, <1>6, <2>3, <2>7, <2>8, <2>9, <2>10, <2>11, <2>12 DEF Holds
<1> QED
  BY <1>1, <1>5, <1>6, <1>8, <1>9 DEF q

(* What is remembered of the stack stays as it is when a function is entered. *)
LEMMA StillUntouched ==
  ASSUME CallersAreUntouched, stack' = stack, \E S : activations \in Seq(S),
         NEW e, \A c \in DOMAIN e.below : e.below[c] = stack[c],
         activations' = Append(activations, e)
  PROVE  CallersAreUntouched'
<1>1. PICK S : activations \in Seq(S)
  OBVIOUS
<1>2. activations \in Seq(S \cup {e})
  BY <1>1
<1>3. ASSUME NEW i \in DOMAIN activations'
      PROVE  \A c \in DOMAIN activations'[i].below : stack[c] = activations'[i].below[c]
  <2>1. \/ i \in DOMAIN activations /\ activations'[i] = activations[i]
        \/ activations'[i] = e
    BY <1>2
  <2> QED
    BY <2>1 DEF CallersAreUntouched
<1> QED
  BY <1>3 DEF CallersAreUntouched

(* Main is called. *)
LEMMA EnterMain ==
  ASSUME TypedJobs, Convention, AtTop, Enter
  PROVE  Active' /\ CallersAreUntouched' /\ status' = status
<1>1. job \in Jobs
  BY DEF Convention, TypeOK
<1>2. PICK j : j = job
  OBVIOUS
<1>3. /\ Functional(j) /\ StartsIn(j, PointsOf(j)) /\ Consistent(j, PointsOf(j), {})
  BY <1>1, <1>2, TypedJob
<1>4. /\ pc \in Addresses(code) /\ current.opc = "JUMPLINK" /\ JumpLink
      /\ activations' = Append(activations, Activation)
  BY DEF Enter, JumpLink, Executing
<1>5. pc = 0 /\ current.arg1 = 0
  BY <1>2, <1>3, <1>4 DEF AtTop, StartsIn, current, code
<1>6. PICK vs \in 0 .. MaxInt : vs = Prog_func(job.prog, 0).num_vars
  <2>1. IntSized(j)
    BY <1>1, <1>2, TypedJob
  <2>2. /\ Prog_func(job.prog, 0).num_vars \in Nat
        /\ Prog_func(job.prog, 0).num_vars <= MaxInt
    BY <1>2, <1>3, <2>1 DEF Functional, IntSized, StartsIn
  <2> QED
    BY <2>2, MaxIntAssumption
<1>7. PICK len \in Nat : len = Len(initial_stack) /\ SP = len /\ FP = SP - 1 /\ len <= StackSize
  <2>1. Len(initial_stack) \in Nat /\ Len(initial_stack) <= StackSize
    BY <1>1, JobsAssumption DEF WellFormed, initial_stack
  <2> QED
    BY <2>1 DEF AtTop
<1>8. \A i \in 1 .. vs : i <= SP => stack[SP - i] \in Word
  <2>1. TAKE i \in 1 .. vs
  <2>2. HAVE i <= SP
  <2>3. PICK k \in Int : k = len - i + 1 /\ k - 1 = SP - i
    BY <1>7
  <2>4. k \in 1 .. len
    BY <1>7, <2>2, <2>3
  <2>5. \A a \in 1 .. len : stack[a - 1] \in Word
    BY <1>5, <1>7 DEF AtTop
  <2> QED
    BY <2>3, <2>4, <2>5
<1>9. PICK e : e = Activation
  OBVIOUS
<1>10. /\ SP \in 0 .. StackSize /\ LabelSites(code, 0) # {}
       /\ Framed(job) => vs <= SP
  BY <1>2, <1>3, <1>6, <1>7, StackSizeAssumption DEF StartsIn, code, Framed, initial_stack
<1>21. Calls(0, vs, e)
  BY <1>4, <1>5, <1>6, <1>7, <1>8, <1>9, <1>10 DEF Calls, Convention
<1>11. /\ status' = status /\ job' = job /\ stack' = stack
       /\ e.sp = SP /\ e.ra = pc + 1
       /\ \A c \in DOMAIN e.below : e.below[c] = stack[c]
  BY <1>21, Entering
<1>12. PICK a \in LabelSites(code, 0) :
         /\ EntryPoint(0, a) \in Point
         /\ EnteredAs(job, EntryPoint(0, a), e)
         /\ Holds(EntryPoint(0, a), e)'
  BY <1>21, Entering
<1>13. PICK q \in PointsOf(j) : Covers(q, EntryPoint(0, a))
  BY <1>2, <1>3, <1>12 DEF StartsIn, code
<1>14. q \in Point
  BY <1>3 DEF Consistent
<1>15. Holds(q, e)'
  BY <1>7, <1>11, <1>12, <1>13, <1>14, CoveringHolds, StackSizeAssumption
<1>16. EnteredAs(j, q, e)
  BY <1>2, <1>12, <1>13 DEF EnteredAs, VarsOf, Covers
<1>17. activations' = <<e>>
  BY <1>4, <1>9 DEF AtTop
<1>18. Chain(j, <<e>>, <<q>>)
  <2>1. <<e>> \in Seq({e}) /\ <<q>> \in Seq(PointsOf(j)) /\ Len(<<e>>) = 1 /\ Len(<<q>>) = 1
    OBVIOUS
  <2>2. <<e>>[1] = e /\ <<q>>[1] = q /\ <<e>> # <<>>
    OBVIOUS
  <2>3. e.ra = 1 /\ e.sp = Len(j.initial_stack)
    BY <1>2, <1>5, <1>11 DEF AtTop, initial_stack
  <2>4. \A i \in 1 .. 1 : i = 1
    OBVIOUS
  <2>5. 1 .. 1 - 1 = {}
    OBVIOUS
  <2> QED
    BY <1>16, <2>1, <2>2, <2>3, <2>4, <2>5 DEF Chain
<1>19. Active'
  BY <1>2, <1>11, <1>15, <1>17, <1>18 DEF Active
<1>20. CallersAreUntouched'
  <2>1. activations \in Seq({})
    BY DEF AtTop
  <2>2. activations' = Append(activations, e)
    BY <1>4, <1>9
  <2> QED
    BY <1>11, <2>1, <2>2, StillUntouched DEF Convention
<1> QED
  BY <1>11, <1>19, <1>20

LEMMA CountedUp ==
  ASSUME NEW base \in Nat, NEW m \in Int, NEW n \in Nat, m <= n
  PROVE  \A i \in 1 .. m : base + i - 1 \in 0 .. base + m - 1 /\ i \in 1 .. n
OBVIOUS

(* A function calls another. *)
LEMMA EnterCallee ==
  ASSUME TypedJobs, Convention, Active, Enter
  PROVE  Active' /\ CallersAreUntouched' /\ status' = status
<1>1. PICK ps : Chain(job, activations, ps) /\ Holds(ps[Len(activations)], activations[Len(activations)])
  BY DEF Active
<1>2. job \in Jobs /\ TypeOK
  BY DEF Convention, TypeOK
<1>3. PICK j, acts, n, p, e1 :
        /\ j = job /\ acts = activations /\ n = Len(acts)
        /\ p = ps[n] /\ e1 = acts[n]
  OBVIOUS
<1>4. n \in Nat \ {0} /\ p \in PointsOf(j) /\ Located(p, e1)
  BY <1>1, <1>2, <1>3, ActiveFacts
<1>5. /\ p \in Point /\ Allowed(j, p)
      /\ \A s : Leads(j, p, s) => \E q \in PointsOf(j) : Covers(q, s)
  BY <1>2, <1>3, <1>4, PointFacts
<1>6. /\ pc \in Addresses(code) /\ current.opc = "JUMPLINK" /\ JumpLink
      /\ activations' = Append(activations, Activation)
  BY DEF Enter, JumpLink, Executing
<1>7. OpAt(j, p) = current /\ p.at = pc
  BY <1>3, <1>4, AtCurrent
<1>8. PICK f : f = current.arg1
  OBVIOUS
<1>9. PICK vs : vs = Prog_func(j.prog, f).num_vars
  OBVIOUS
<1>10. PICK h : h = Height(p)
  OBVIOUS
<1>11. /\ LabelSites(code, f) # {} /\ f \in FunctionNames(j.prog)
       /\ p.regs[STACK_POINTER] = Cell(h) /\ p.regs[FRAME_POINTER] = Cell(h - 1)
       /\ BelowFrame(j, p) = h - vs
       /\ 0 <= h - vs /\ h <= Len(p.temps)
       /\ \A i \in h - vs + 1 .. h : Written(p.temps[i])
  BY <1>3, <1>5, <1>6, <1>7, <1>8, <1>9, <1>10 DEF Allowed, code, BelowFrame
<1>12. f \in Nat /\ vs \in Nat /\ vs \in 0 .. MaxInt
  <2>1. Functional(j) /\ IntSized(j)
    BY <1>2, <1>3, TypedJob
  <2>2. f \in Nat /\ vs \in Nat /\ vs <= MaxInt
    BY <1>9, <1>11, <2>1 DEF Functional, IntSized, FunctionNames
  <2> QED
    BY <2>2, MaxIntAssumption
<1>13. h \in Int /\ Len(p.temps) \in Nat
  BY <1>5, <1>10, RegistersThere DEF Point, Height, Shape, Named
<1>14. PICK sp \in Nat : sp = e1.sp /\ sp + Len(p.temps) <= StackSize
  BY <1>4, StackBounds DEF Located, Holds
<1>15. SP = sp + h /\ FP = sp + (h - 1)
  <2>1. \A r \in {STACK_POINTER, FRAME_POINTER} : Means(p.regs[r], registers[r], e1)
    BY <1>4 DEF Located, Holds, Named
  <2> QED
    BY <1>11, <1>14, <2>1 DEF Means, Cell, SP, FP
<1>16. SP \in 0 .. StackSize /\ vs <= SP /\ FP = SP - 1
  <2>1. StackSize \in Int /\ vs \in Int /\ sp \in Nat /\ h \in Int
    BY <1>12, <1>13, <1>14, StackSizeAssumption
  <2>2. vs <= h /\ sp + h <= StackSize
    BY <1>11, <1>12, <1>13, <1>14, <2>1
  <2>3. vs <= sp + h /\ 0 <= sp + h /\ sp + (h - 1) = (sp + h) - 1 /\ sp + h \in Int
    BY <1>12, <2>1, <2>2
  <2> QED
    BY <1>15, <2>1, <2>2, <2>3
<1>17. \A i \in 1 .. vs : stack[SP - i] \in Word
  <2>1. TAKE i \in 1 .. vs
  <2>2. /\ h - i + 1 \in h - vs + 1 .. h /\ h - i + 1 \in 1 .. Len(p.temps)
        /\ sp + (h - i + 1) - 1 = SP - i
    BY <1>11, <1>12, <1>13, <1>14, <1>15, SMTT(30)
  <2>3. Means(p.temps[h - i + 1], stack[sp + (h - i + 1) - 1], e1)
    BY <1>4, <1>14, <2>2 DEF Located, Holds
  <2> QED
    BY <1>11, <2>2, <2>3 DEF Means
<1>18. PICK e : e = Activation
  OBVIOUS
<1>19. Calls(f, vs, e)
  BY <1>2, <1>3, <1>6, <1>8, <1>9, <1>11, <1>12, <1>16, <1>17, <1>18 DEF Calls
<1>20. /\ status' = status /\ job' = job /\ stack' = stack
       /\ e.sp = SP /\ e.ra = pc + 1 /\ DOMAIN e.below = 0 .. SP - vs - 1
       /\ \A c \in DOMAIN e.below : e.below[c] = stack[c]
  BY <1>19, Entering
<1>21. PICK a \in LabelSites(code, f) :
         /\ EntryPoint(f, a) \in Point
         /\ EnteredAs(job, EntryPoint(f, a), e)
         /\ Holds(EntryPoint(f, a), e)'
  BY <1>19, Entering
<1>22. Leads(j, p, EntryPoint(f, a))
  BY <1>3, <1>6, <1>7, <1>8, <1>21 DEF Leads, code
<1>23. PICK q \in PointsOf(j) : Covers(q, EntryPoint(f, a))
  BY <1>5, <1>22
<1>24. q \in Point /\ q.func = f
  <2>1. q \in Point
    BY <1>2, <1>3, PointFacts
  <2> QED
    BY <1>23, <2>1 DEF Covers, EntryPoint
<1>25. Holds(q, e)'
  BY <1>16, <1>20, <1>21, <1>23, <1>24, CoveringHolds, StackSizeAssumption, <1>12
<1>26. EnteredAs(j, q, e)
  BY <1>3, <1>21, <1>23 DEF EnteredAs, VarsOf, Covers
<1>27. PICK vp \in Nat : vp = VarsOf(j, p)
  BY <1>3, <1>4 DEF Located
<1>28. /\ DOMAIN e1.below = 0 .. sp - vp - 1
       /\ \A i \in 1 .. vp : i <= sp => stack[sp - i] \in Word
       /\ \A i \in 1 .. Len(p.temps) : Means(p.temps[i], stack[sp + i - 1], e1)
  BY <1>3, <1>4, <1>14, <1>27 DEF Located, EnteredAs, Holds
<1>29. SP - vs - 1 = sp + (h - vs) - 1
  BY <1>12, <1>13, <1>14, <1>15
<1>30. Suspended(j, p, e1, q, e)
  <2>1. \A i \in 1 .. h - vs : Means(p.temps[i], e.below[sp + i - 1], e1)
    <3>0. PICK m \in Int : m = h - vs /\ SP - vs - 1 = sp + m - 1 /\ m <= Len(p.temps)
      BY <1>11, <1>12, <1>13, <1>14, <1>29
    <3>2. \A i \in 1 .. m : sp + i - 1 \in 0 .. sp + m - 1 /\ i \in 1 .. Len(p.temps)
      <4>1. sp \in Nat /\ Len(p.temps) \in Nat
        BY <1>13, <1>14
      <4> QED
        BY <3>0, <4>1, CountedUp
    <3>1. \A i \in 1 .. h - vs : sp + i - 1 \in 0 .. SP - vs - 1 /\ i \in 1 .. Len(p.temps)
      BY <3>0, <3>2
    <3> QED
      BY <1>20, <1>28, <3>1
  <2>2. \A i \in 1 .. vp : i <= sp => e.below[sp - i] \in Word
    <3>1. sp - 1 <= SP - vs - 1 /\ SP - vs - 1 \in Int
      BY <1>11, <1>12, <1>13, <1>14, <1>29
    <3>2. \A i \in 1 .. vp : i <= sp => sp - i \in 0 .. SP - vs - 1
      BY <1>14, <1>27, <3>1
    <3> QED
      BY <1>20, <1>28, <3>2
  <2> QED
    BY <1>6, <1>7, <1>8, <1>10, <1>11, <1>14, <1>15, <1>20, <1>24, <1>27, <2>1, <2>2 DEF Suspended
<1>31. DOMAIN e1.below \subseteq DOMAIN e.below
  <2>1. sp - vp - 1 <= SP - vs - 1
    BY <1>11, <1>12, <1>13, <1>14, <1>27, <1>29
  <2>2. sp - vp - 1 \in Int /\ SP - vs - 1 \in Int
    BY <1>12, <1>13, <1>14, <1>27, <1>29
  <2>3. \A a1, b1 \in Int : a1 <= b1 => 0 .. a1 \subseteq 0 .. b1
    OBVIOUS
  <2> QED
    BY <1>20, <1>28, <2>1, <2>2, <2>3
<1>32. Extended(j, acts, ps, e, q)
  <2>1. Chain(j, acts, ps)
    BY <1>1, <1>3
  <2>2. /\ Suspended(j, ps[Len(acts)], acts[Len(acts)], q, e)
        /\ DOMAIN acts[Len(acts)].below \subseteq DOMAIN e.below
    BY <1>3, <1>30, <1>31
  <2> QED
    BY <1>26, <2>1, <2>2, ChainEntered
<1>33. activations' = Append(acts, e)
  BY <1>3, <1>6, <1>18
<1>34. Active'
  BY <1>3, <1>20, <1>25, <1>32, <1>33 DEF Active, Extended
<1>35. CallersAreUntouched'
  <2>1. \E S : activations \in Seq(S)
    BY <1>1 DEF Chain
  <2>2. activations' = Append(activations, e)
    BY <1>6, <1>18
  <2> QED
    BY <1>20, <2>1, <2>2, StillUntouched DEF Convention
<1> QED
  BY <1>20, <1>34, <1>35

(* A return goes to where the call was made, with both pointers as they were. *)
LEMMA Leaving ==
  ASSUME TypeOK, NEW p, NEW e, Located(p, e), JumpAddr
  PROVE  /\ job' = job /\ status' = status /\ stack' = stack
         /\ pc' = e.ra
         /\ SP = e.sp /\ FP = e.sp - 1 /\ e.fp = FP
         /\ SP \in Word /\ FP \in Word
         /\ registers[ACCUMULATOR] \in Word
         /\ \A r \in Named : registers'[r] = registers[r]
<1>1. /\ OpAt(job, p) = current /\ current.opc = "JUMPADDR"
      /\ Goto(Denotes(registers[current.arg1]))
  BY AtCurrent DEF JumpAddr, Executing
<1>2. /\ current.arg1 = RETURN_ADDRESS
      /\ p.regs[RETURN_ADDRESS] = ReturnAddress
      /\ p.regs[STACK_POINTER] = Cell(0) /\ p.regs[FRAME_POINTER] = Cell(-1)
      /\ Written(p.regs[ACCUMULATOR])
  BY <1>1 DEF Located, Allowed
<1>3. \A r \in Named : Means(p.regs[r], registers[r], e)
  BY DEF Located, Holds
<1>4. registers[RETURN_ADDRESS] = e.ra /\ registers[RETURN_ADDRESS] \in Word
  BY <1>2, <1>3 DEF Named, Means, ReturnAddress, Written
<1>5. /\ SP = e.sp + 0 /\ FP = e.sp + (-1) /\ SP \in Word /\ FP \in Word
      /\ registers[ACCUMULATOR] \in Word
  BY <1>2, <1>3 DEF Named, Means, Cell, Written, SP, FP
<1>6. e.sp \in Nat
  BY StackBounds DEF Located
<1>7. SP = e.sp /\ FP = e.sp - 1
  BY <1>5, <1>6
<1>8. e.fp = FP
  BY <1>7 DEF Located, EnteredAs
<1>9. Denotes(registers[current.arg1]) = {e.ra}
  BY <1>2, <1>4, UninitIsNoWord DEF Denotes
<1> QED
  BY <1>1, <1>5, <1>7, <1>8, <1>9, GotoFacts

(* Main returns. *)
LEMMA LeaveMain ==
  ASSUME TypedJobs, Convention, Leave, Len(activations) = 1, Active
  PROVE  AtTop' /\ CallersAreUntouched' /\ status' = status
<1>1. PICK ps : Chain(job, activations, ps) /\ Holds(ps[Len(activations)], activations[Len(activations)])
  BY DEF Active
<1>2. PICK e : e = activations[1] /\ e.ra = 1 /\ e.sp = Len(initial_stack)
  BY <1>1 DEF Chain, initial_stack
<1>3. Located(ps[1], e)
  BY <1>1, <1>2, ActiveFacts DEF Convention
<1>4. /\ job' = job /\ status' = status /\ stack' = stack /\ pc' = 1
      /\ SP = e.sp /\ FP = e.sp - 1
      /\ \A r \in Named : registers'[r] = registers[r]
  BY <1>2, <1>3, Leaving DEF Leave, Convention
<1>5. SP' = Len(initial_stack)' /\ FP' = Len(initial_stack)' - 1
  BY <1>2, <1>4 DEF SP, FP, Named, initial_stack
<1>6. activations' = <<>>
  BY <1>1, SubSeqEmpty DEF Leave, Chain
<1> QED
  BY <1>4, <1>5, <1>6 DEF AtTop, CallersAreUntouched

(* A function returns to another. *)
LEMMA LeaveCallee ==
  ASSUME TypedJobs, Convention, Leave, Len(activations) # 1, Active
  PROVE  Active' /\ CallersAreUntouched' /\ status' = status
<1>1. PICK ps : Chain(job, activations, ps) /\ Holds(ps[Len(activations)], activations[Len(activations)])
  BY DEF Active
<1>2. job \in Jobs /\ TypeOK /\ CallersAreUntouched
  BY DEF Convention, TypeOK
<1>3. PICK j, acts, n :
        /\ j = job /\ acts = activations /\ n = Len(acts)
  OBVIOUS
<1>4. PICK q, e, p, e1 :
        /\ q = ps[n] /\ e = acts[n] /\ p = ps[n - 1] /\ e1 = acts[n - 1]
  OBVIOUS
<1>5. n \in Nat \ {0} /\ n # 1 /\ q \in PointsOf(j) /\ Located(q, e)
  BY <1>1, <1>2, <1>3, <1>4, ActiveFacts
<1>6. PICK rest, qs : rest = SubSeq(acts, 1, n - 1) /\ qs = SubSeq(ps, 1, n - 1)
  OBVIOUS
<1>7. /\ Chain(j, rest, qs) /\ Len(rest) = n - 1
      /\ rest[n - 1] = e1 /\ qs[n - 1] = p
      /\ Suspended(j, p, e1, q, e)
  BY <1>1, <1>3, <1>4, <1>5, <1>6, ChainLeft
<1>8. p \in PointsOf(j) /\ EnteredAs(j, p, e1)
  BY <1>7, ChainFacts
<1>9. /\ p \in Point /\ VarsOf(j, p) \in Nat /\ p.at \in Addresses(j.code) /\ Allowed(j, p)
      /\ \A s : Leads(j, p, s) => \E r \in PointsOf(j) : Covers(r, s)
  BY <1>2, <1>3, <1>8, PointFacts
<1>10. /\ job' = job /\ status' = status /\ stack' = stack /\ pc' = e.ra
       /\ SP = e.sp /\ FP = e.sp - 1 /\ SP \in Word /\ FP \in Word
       /\ registers[ACCUMULATOR] \in Word
       /\ \A r \in Named : registers'[r] = registers[r]
  BY <1>2, <1>5, Leaving DEF Leave
<1>11. PICK h, f, vs, vp :
         /\ h = Height(p) /\ f = OpAt(j, p).arg1
         /\ vs = Prog_func(j.prog, f).num_vars /\ vp = VarsOf(j, p)
  OBVIOUS
<1>12. /\ f \in FunctionNames(j.prog) /\ BelowFrame(j, p) = h - vs
       /\ 0 <= h - vs /\ h <= Len(p.temps)
  BY <1>7, <1>9, <1>11 DEF Suspended, Allowed, BelowFrame
<1>13. /\ h \in Int /\ Len(p.temps) \in Nat /\ vp \in Nat /\ vs \in Nat
       /\ p.temps \in Seq(Shape) /\ p.at \in Nat
  <2>1. Functional(j)
    BY <1>2, <1>3, TypedJob
  <2>2. p.regs[STACK_POINTER] \in Shape
    BY <1>9 DEF Point, Named
  <2> QED
    BY <1>9, <1>11, <1>12, <2>1, <2>2 DEF Point, Height, Shape, Functional
<1>14. PICK sp \in Nat : sp = e1.sp /\ StackSize \in Nat
  BY <1>8, <1>11, <1>13, StackSizeAssumption DEF EnteredAs
<1>15. e.sp = sp + h /\ e.ra = p.at + 1
  BY <1>7, <1>11, <1>14 DEF Suspended
<1>16. VarsOf(j, q) = vs
  BY <1>7, <1>11 DEF Suspended, VarsOf
<1>17. DOMAIN e.below = 0 .. sp + h - vs - 1 /\ sp + h <= StackSize
  BY <1>3, <1>5, <1>13, <1>14, <1>15, <1>16 DEF Located, EnteredAs
<1>18. \A c \in 0 .. sp + h - vs - 1 : stack[c] = e.below[c]
  <2>1. n \in DOMAIN activations
    BY <1>1, <1>3, <1>5 DEF Chain
  <2> QED
    BY <1>2, <1>3, <1>4, <1>17, <2>1 DEF CallersAreUntouched
<1> DEFINE s == Returned(j, p)
<1>19. /\ s.func = p.func /\ s.at = p.at + 1
       /\ s.regs = Regs(Cell(h), Cell(h - 1), AnyThing, AWord, AnyThing)
       /\ s.temps = [i \in 1 .. h - vs |-> p.temps[i]]
  BY <1>11, <1>12 DEF Returned
<1>20. /\ Cell(h) \in Shape /\ Cell(h - 1) \in Shape /\ AnyThing \in Shape /\ AWord \in Shape
  BY <1>13, ShapeTypes
<1>21. h - vs \in Nat /\ h - vs <= Len(p.temps)
  BY <1>12, <1>13
<1>22. /\ s.temps \in Seq(Shape) /\ Len(s.temps) = h - vs
       /\ \A i \in 1 .. h - vs : s.temps[i] = p.temps[i]
  BY <1>13, <1>19, <1>21
<1>23. s \in Point
  <2>1. s.regs \in [Named -> Shape]
    BY <1>19, <1>20 DEF Regs, Named, STACK_POINTER, FRAME_POINTER, RETURN_ADDRESS, ACCUMULATOR,
       TEMPORARY
  <2>2. p.func \in Nat /\ p.at + 1 \in Nat
    BY <1>9, <1>13 DEF Point
  <2> QED
    BY <1>22, <2>1, <2>2 DEF Returned, Point
<1>24. Leads(j, p, s)
  BY <1>7 DEF Leads, Suspended
<1>25. PICK r \in PointsOf(j) : Covers(r, s)
  BY <1>9, <1>24
<1>26. r \in Point /\ r.func = p.func
  <2>1. r \in Point
    BY <1>2, <1>3, PointFacts
  <2> QED
    BY <1>19, <1>25, <2>1 DEF Covers
<1> HIDE DEF s
<1>27. Holds(s, e1)'
  <2>1. /\ s.regs[STACK_POINTER] = Cell(h) /\ s.regs[FRAME_POINTER] = Cell(h - 1)
        /\ s.regs[RETURN_ADDRESS] = AnyThing /\ s.regs[ACCUMULATOR] = AWord
        /\ s.regs[TEMPORARY] = AnyThing
    BY <1>19 DEF Regs, Named, STACK_POINTER, FRAME_POINTER, RETURN_ADDRESS, ACCUMULATOR, TEMPORARY
  <2>2. SP = sp + h /\ FP = sp + (h - 1)
    BY <1>10, <1>13, <1>14, <1>15
  <2>3. registers'[STACK_POINTER] = SP /\ registers'[FRAME_POINTER] = FP
        /\ registers'[ACCUMULATOR] = registers[ACCUMULATOR]
    BY <1>10 DEF Named, SP, FP
  <2>4. /\ Means(s.regs[STACK_POINTER], registers'[STACK_POINTER], e1)
        /\ Means(s.regs[FRAME_POINTER], registers'[FRAME_POINTER], e1)
    BY <1>10, <1>14, <2>1, <2>2, <2>3 DEF Means, Cell
  <2>5. /\ Means(s.regs[RETURN_ADDRESS], registers'[RETURN_ADDRESS], e1)
        /\ Means(s.regs[ACCUMULATOR], registers'[ACCUMULATOR], e1)
        /\ Means(s.regs[TEMPORARY], registers'[TEMPORARY], e1)
    BY <1>10, <2>1, <2>3 DEF Means, AnyThing, AWord, Written
  <2>6. \A x \in Named : Means(s.regs[x], registers'[x], e1)
    BY <2>4, <2>5 DEF Named
  <2>7. \A i \in 1 .. h - vs : Means(s.temps[i], stack'[sp + i - 1], e1)
    <3>1. \A i \in 1 .. h - vs : Means(p.temps[i], e.below[sp + i - 1], e1)
      BY <1>7, <1>11, <1>12, <1>14 DEF Suspended
    <3>2. \A i \in 1 .. h - vs : sp + i - 1 \in 0 .. sp + h - vs - 1
      BY <1>13, <1>14
    <3> QED
      BY <1>10, <1>18, <1>22, <3>1, <3>2
  <2>8. \A i \in 1 .. vp : i <= sp => stack'[sp - i] \in Word
    <3>1. \A i \in 1 .. vp : i <= sp => e.below[sp - i] \in Word
      BY <1>7, <1>11, <1>14 DEF Suspended
    <3>2. sp - 1 <= sp + h - vs - 1 /\ sp + h - vs - 1 \in Int
      BY <1>13, <1>14, <1>21
    <3>3. \A i \in 1 .. vp : i <= sp => sp - i \in 0 .. sp + h - vs - 1
      BY <1>13, <1>14, <3>2
    <3> QED
      BY <1>10, <1>18, <3>1, <3>3
  <2>9. VarsOf(job, s)' = vp
    BY <1>3, <1>10, <1>11, <1>19 DEF VarsOf
  <2>10. sp + (h - vs) <= StackSize
    BY <1>13, <1>14, <1>17
  <2> QED
    BY <1>10, <1>14, <1>15, <1>19, <1>22, <2>6, <2>7, <2>8, <2>9, <2>10 DEF Holds
<1>28. Holds(r, e1)'
  BY <1>14, <1>23, <1>25, <1>26, <1>27, CoveringHolds
<1>29. r.func = qs[Len(rest)].func
  BY <1>7, <1>26
<1>30. PICK moved : Chain(j, rest, moved) /\ moved[Len(rest)] = r
  BY <1>7, <1>29, ChainMoved
<1>31. activations' = rest
  BY <1>3, <1>6 DEF Leave
<1>32. rest[Len(rest)] = e1
  BY <1>7
<1>33. Active'
  BY <1>3, <1>10, <1>28, <1>30, <1>31, <1>32 DEF Active
<1>34. CallersAreUntouched'
  <2>1. \A i \in DOMAIN rest : i \in DOMAIN acts /\ rest[i] = acts[i]
    <3>1. acts \in Seq(Range(acts)) /\ rest \in Seq(Range(acts)) /\ Len(rest) = n - 1
          /\ \A i \in 1 .. n - 1 : rest[i] = acts[i]
      <4>1. PICK S : acts \in Seq(S)
        BY <1>1, <1>3 DEF Chain
      <4>2. acts \in Seq(Range(acts))
        BY <4>1 DEF Range
      <4>3. \A i \in 1 .. n - 1 : i \in 1 .. n /\ 1 + i - 1 = i
        BY <1>5
      <4>4. \A i \in 1 .. n - 1 : acts[i] \in Range(acts)
        BY <1>3, <4>2, <4>3
      <4>5. n - 1 \in Int /\ 1 <= n - 1 /\ n - 1 - 1 + 1 = n - 1
        BY <1>5
      <4> QED
        BY <1>6, <4>2, <4>3, <4>4, <4>5, SubSeqProperties
    <3>2. DOMAIN rest = 1 .. n - 1 /\ DOMAIN acts = 1 .. n
      BY <1>3, <3>1
    <3>3. \A i \in 1 .. n - 1 : i \in 1 .. n
      BY <1>5
    <3> QED
      BY <3>1, <3>2, <3>3
  <2> QED
    BY <1>2, <1>3, <1>10, <1>31, <2>1 DEF CallersAreUntouched
<1> QED
  BY <1>10, <1>33, <1>34

(* A function goes on: it is at a point that comes next, or the stack is full. *)
LEMMA WithinFunction ==
  ASSUME TypedJobs, Convention, Active, status = "running", Within
  PROVE  /\ Active' /\ CallersAreUntouched'
         /\ status' = "running" \/ Fails
<1>1. PICK ps : Chain(job, activations, ps) /\ Holds(ps[Len(activations)], activations[Len(activations)])
  BY DEF Active
<1>2. job \in Jobs /\ TypeOK /\ CallersAreUntouched
  BY DEF Convention, TypeOK
<1>3. PICK j, acts, n : j = job /\ acts = activations /\ n = Len(acts)
  OBVIOUS
<1>4. PICK p, e : p = ps[n] /\ e = acts[n]
  OBVIOUS
<1>5. n \in Nat \ {0} /\ p \in PointsOf(j) /\ Located(p, e) /\ activations # <<>>
  BY <1>1, <1>2, <1>3, <1>4, ActiveFacts
<1>6. /\ job' = job
      /\ \/ status' = status /\ FollowsOn(p, e) /\ FrameBelow(p, e)
         \/ Fails /\ UNCHANGED <<registers, stack>>
  BY <1>5, WithinFollows
<1>7. activations' = activations
  BY DEF Within
<1>8. CASE Fails /\ UNCHANGED <<registers, stack>>
  <2>1. CallersAreUntouched'
    BY <1>2, <1>7, <1>8 DEF CallersAreUntouched
  <2>2. Holds(p, e)'
    BY <1>5, <1>6, <1>8 DEF Located, Holds, VarsOf, pc
  <2>3. Active'
    BY <1>1, <1>3, <1>4, <1>6, <1>7, <2>2 DEF Active
  <2> QED
    BY <1>8, <2>1, <2>3
<1>9. CASE status' = status /\ FollowsOn(p, e) /\ FrameBelow(p, e)
  <2>1. PICK s \in Point : Leads(j, p, s) /\ Holds(s, e)'
    BY <1>3, <1>9 DEF FollowsOn
  <2>2. PICK q \in PointsOf(j) : Covers(q, s)
    BY <1>2, <1>3, <1>5, <2>1, PointFacts
  <2>3. q \in Point
    BY <1>2, <1>3, PointFacts
  <2>4. e.sp \in Int /\ StackSize \in Int
    BY <1>5, StackBounds DEF Located
  <2>5. Holds(q, e)'
    BY <2>1, <2>2, <2>3, <2>4, CoveringHolds
  <2>6. s.func = p.func
    <3>1. OpAt(j, p).opc # "JUMPLINK"
      BY <1>3, <1>5, AtCurrent DEF Within, Next, Move, LoadImm, Add, Sub, Load, Store, Jump,
         JumpCondTaken, JumpCondNotTaken, JumpAddr, Label, Halt, StackOverflow, StackUnderflow,
         IndexOutOfBounds, JumpLink, Executing, Located, AccessingStack
    <3> QED
      BY <2>1, <3>1 DEF Leads, Put, Stored, MovedTo, Forward, At
  <2>7. q.func = ps[Len(acts)].func
    BY <1>3, <1>4, <2>2, <2>6 DEF Covers
  <2>8. PICK qs : Chain(j, acts, qs) /\ qs[Len(acts)] = q
    BY <1>1, <1>3, <2>7, ChainMoved
  <2>9. Active'
    BY <1>3, <1>4, <1>6, <1>7, <2>5, <2>8 DEF Active
  <2>10. CallersAreUntouched'
    <3>1. ASSUME NEW i \in DOMAIN activations
          PROVE  DOMAIN activations[i].below \subseteq 0 .. e.sp - VarsOf(job, p) - 1
      <4>1. i \in 1 .. n /\ n \in 1 .. Len(activations)
        <5>1. PICK S : activations \in Seq(S)
          BY <1>1 DEF Chain
        <5> QED
          BY <1>3, <1>5, <5>1
      <4>2. DOMAIN activations[i].below \subseteq DOMAIN activations[n].below
        BY <1>1, <4>1 DEF Chain
      <4> QED
        BY <1>3, <1>4, <1>5, <4>2 DEF Located, EnteredAs
    <3> QED
      BY <1>2, <1>7, <1>9, <3>1 DEF CallersAreUntouched, FrameBelow
  <2> QED
    BY <1>9, <2>9, <2>10
<1> QED
  BY <1>6, <1>8, <1>9

(* Outside of all functions the machine calls main, or halts. *)
LEMMA AtTopSteps ==
  ASSUME TypedJobs, Convention, AtTop, status = "running"
  PROVE  /\ pc \in Addresses(code)
         /\ pc = 0 => current.opc = "JUMPLINK"
         /\ pc = 1 => current.opc = "HALT"
<1>1. job \in Jobs /\ StartsIn(job, PointsOf(job))
  BY TypedJob DEF Convention, TypeOK
<1>2. Len(code) \in Nat
  BY <1>1, JobsAssumption DEF WellFormed, code
<1> QED
  BY <1>1, <1>2 DEF StartsIn, AtTop, Addresses, current, code

LEMMA HaltingAtTop ==
  ASSUME TypedJobs, Convention, AtTop, status = "running", Within
  PROVE  AtTop' /\ CallersAreUntouched' /\ status' = "halted"
<1>1. pc \in Addresses(code) /\ current.opc \in {"JUMPLINK", "HALT"}
  BY AtTopSteps DEF AtTop
<1>2. Halt
  BY <1>1 DEF Within, Next, Move, LoadImm, Add, Sub, Load, Store, Jump, JumpCondTaken,
     JumpCondNotTaken, JumpAddr, Label, StackOverflow, StackUnderflow, IndexOutOfBounds,
     JumpLink, Executing, AccessingStack
<1>3. UNCHANGED <<job, registers, stack, activations>> /\ status' = "halted"
  BY <1>2 DEF Halt, Within
<1> QED
  BY <1>3 DEF AtTop, CallersAreUntouched, pc, SP, FP, initial_stack, Convention

LEMMA ConventionStep == TypedJobs /\ Convention /\ [CNext]_cvars => Convention'
<1> SUFFICES ASSUME TypedJobs, Convention, [CNext]_cvars
             PROVE  Convention'
  OBVIOUS
<1>1. TypeOK'
  BY NextAsMachine, StepType DEF Convention
<1>2. CNext => status = "running"
  BY DEF CNext, Enter, Leave, Within, Next, Move, LoadImm, Add, Sub, Load, Store, Jump,
     JumpCondTaken, JumpCondNotTaken, JumpAddr, Label, Halt, StackOverflow, StackUnderflow,
     IndexOutOfBounds, JumpLink, Executing, AccessingStack
<1>3. CASE Enter
  <2>1. Active' /\ CallersAreUntouched' /\ status' = status
    BY <1>3, EnterMain, EnterCallee DEF Convention
  <2>2. status' = "running"
    BY <1>2, <1>3, <2>1 DEF CNext
  <2> QED
    BY <1>1, <2>1, <2>2 DEF Convention, OnlyOverflowAborts
<1>4. CASE Leave
  <2>1. Active
    BY <1>4 DEF Convention, AtTop, Leave
  <2>2. (AtTop' \/ Active') /\ CallersAreUntouched' /\ status' = status
    BY <1>4, <2>1, LeaveMain, LeaveCallee
  <2>3. status' = "running"
    BY <1>2, <1>4, <2>2 DEF CNext
  <2> QED
    BY <1>1, <2>2, <2>3 DEF Convention, OnlyOverflowAborts
<1>5. CASE Within
  <2>1. status = "running"
    BY <1>2, <1>5 DEF CNext
  <2>2. CASE AtTop
    <3>1. AtTop' /\ CallersAreUntouched' /\ status' = "halted"
      BY <1>5, <2>1, <2>2, HaltingAtTop
    <3> QED
      BY <1>1, <3>1 DEF Convention, OnlyOverflowAborts
  <2>3. CASE Active
    <3>1. Active' /\ CallersAreUntouched' /\ (status' = "running" \/ Fails)
      BY <1>5, <2>1, <2>3, WithinFunction
    <3>2. job' = job
      BY NextAsMachine
    <3>3. OnlyOverflowAborts' /\ status' # "halted"
      BY <3>1, <3>2 DEF OnlyOverflowAborts, Fails, Framed
    <3> QED
      BY <1>1, <3>1, <3>3 DEF Convention
  <2> QED
    BY <2>2, <2>3 DEF Convention
<1>6. CASE UNCHANGED cvars
  <2>1. UNCHANGED <<job, registers, stack, status, activations>>
    BY <1>6 DEF cvars
  <2>2. (AtTop' <=> AtTop) /\ (CallersAreUntouched' <=> CallersAreUntouched)
    BY <2>1 DEF AtTop, CallersAreUntouched, pc, SP, FP, initial_stack
  <2>3. Active => Active'
    BY <2>1 DEF Active, Holds, VarsOf, pc
  <2>4. OnlyOverflowAborts => OnlyOverflowAborts'
    BY <2>1 DEF OnlyOverflowAborts, Framed
  <2> QED
    BY <1>1, <2>1, <2>2, <2>3, <2>4 DEF Convention
<1> QED
  BY <1>3, <1>4, <1>5, <1>6 DEF CNext

(* ----------------------- What it says at each step ----------------------- *)
LEMMA ConventionLabels == TypedJobs /\ Convention => LabelsAreClean
<1> SUFFICES ASSUME TypedJobs, Convention, Executing("LABEL")
             PROVE  /\ activations # <<>>
                    /\ SP = activations[Len(activations)].sp
                    /\ FP = activations[Len(activations)].fp
  BY DEF LabelsAreClean
<1>1. Active
  BY AtTopSteps DEF Convention, AtTop, Executing
<1>2. PICK ps : Chain(job, activations, ps) /\ Holds(ps[Len(activations)], activations[Len(activations)])
  BY <1>1 DEF Active
<1>3. PICK p, e : p = ps[Len(activations)] /\ e = activations[Len(activations)]
  OBVIOUS
<1>4. Located(p, e) /\ activations # <<>>
  BY <1>2, <1>3, ActiveFacts DEF Convention
<1>5. p.regs[STACK_POINTER] = Cell(0) /\ p.regs[FRAME_POINTER] = Cell(-1)
  BY <1>4, AtCurrent DEF Located, Allowed, Executing
<1>6. SP = e.sp + 0 /\ FP = e.sp + (-1)
  <2>1. \A r \in {STACK_POINTER, FRAME_POINTER} : Means(p.regs[r], registers[r], e)
    BY <1>4 DEF Located, Holds, Named
  <2> QED
    BY <1>5, <2>1 DEF Means, Cell, SP, FP
<1>7. e.sp \in Nat /\ e.fp = e.sp - 1
  BY <1>4, StackBounds DEF Located, EnteredAs
<1> QED
  BY <1>3, <1>4, <1>6, <1>7

LEMMA ConventionUses == TypedJobs /\ Convention => NothingUninitialisedIsUsed
<1> SUFFICES ASSUME TypedJobs, Convention, status = "running"
             PROVE  /\ current.opc \in {"MOVE", "STORE", "ADD", "SUB", "LOAD", "JUMPADDR"} =>
                         registers[current.arg1] # Uninit
                    /\ current.opc \in {"STORE", "ADD", "SUB", "JUMPCOND"} =>
                         registers[current.arg2] # Uninit
                    /\ current.opc = "LOAD" /\ registers[current.arg1] \in DOMAIN stack =>
                         stack[registers[current.arg1]] # Uninit
  BY DEF NothingUninitialisedIsUsed
<1>1. CASE AtTop
  <2>1. current.opc \in {"JUMPLINK", "HALT"}
    BY <1>1, AtTopSteps DEF AtTop
  <2> QED
    BY <2>1
<1>2. CASE Active
  <2>1. PICK ps : Chain(job, activations, ps) /\ Holds(ps[Len(activations)], activations[Len(activations)])
    BY <1>2 DEF Active
  <2>2. PICK p, e : p = ps[Len(activations)] /\ e = activations[Len(activations)]
    OBVIOUS
  <2>3. Located(p, e)
    BY <2>1, <2>2, ActiveFacts DEF Convention
  <2>4. OpAt(job, p) = current
    BY <2>3, AtCurrent
  <2>5. \A r \in Named : Written(p.regs[r]) => registers[r] # Uninit
    BY <2>3, UninitIsNoWord DEF Located, Holds, Means
  <2>6. current.opc \in {"MOVE", "STORE", "ADD", "SUB", "LOAD", "JUMPADDR"} =>
          current.arg1 \in Named /\ Written(p.regs[current.arg1])
    BY <2>3, <2>4 DEF Located, Allowed, Written, Named, ReturnAddress
  <2>7. current.opc \in {"STORE", "ADD", "SUB", "JUMPCOND"} =>
          current.arg2 \in Named /\ Written(p.regs[current.arg2])
    BY <2>3, <2>4 DEF Located, Allowed, Written
  <2>8. ASSUME current.opc = "LOAD", registers[current.arg1] \in DOMAIN stack
        PROVE  stack[registers[current.arg1]] # Uninit
    <3>1. PICK r : r = current.arg1
      OBVIOUS
    <3>2. PICK n : n = p.regs[r].n
      OBVIOUS
    <3>3. /\ r \in Named /\ p.regs[r].is = "cell"
          /\ -VarsOf(job, p) <= n /\ n < Len(p.temps) /\ Written(CellShape(p, n))
      BY <2>3, <2>4, <2>8, <3>1, <3>2 DEF Located, Allowed
    <3>4. n \in Int /\ Len(p.temps) \in Nat /\ VarsOf(job, p) \in Nat /\ e.sp \in Nat
      BY <2>3, <3>2, <3>3, StackBounds DEF Located, Point, Shape
    <3>5. n <= Len(p.temps)
      BY <3>3, <3>4
    <3>6. registers[r] = e.sp + n
      BY <2>3, <3>2, <3>3, <3>5, AddressOf DEF Located
    <3>7. CASE n < 0
      <4>0. 0 <= e.sp + n
        BY <2>3, <2>8, <3>1, <3>6 DEF Located, TypeOK
      <4>1. -n \in 1 .. VarsOf(job, p) /\ e.sp - (-n) = e.sp + n /\ -n <= e.sp
        BY <3>3, <3>4, <3>7, <4>0
      <4> QED
        BY <2>3, <3>1, <3>6, <4>1, UninitIsNoWord DEF Located, Holds
    <3>8. CASE n >= 0
      <4>1. n + 1 \in 1 .. Len(p.temps) /\ e.sp + (n + 1) - 1 = e.sp + n
        BY <3>3, <3>4, <3>8
      <4>2. Means(p.temps[n + 1], stack[e.sp + n], e) /\ Written(p.temps[n + 1])
        <5>1. Means(p.temps[n + 1], stack[e.sp + (n + 1) - 1], e)
          BY <2>3, <4>1 DEF Located, Holds
        <5>2. CellShape(p, n) = p.temps[n + 1]
          BY <3>4, <3>8 DEF CellShape
        <5> QED
          BY <3>3, <4>1, <5>1, <5>2
      <4> QED
        BY <3>1, <3>6, <4>2, UninitIsNoWord DEF Means
    <3> QED
      BY <3>4, <3>7, <3>8
  <2> QED
    BY <2>5, <2>6, <2>7, <2>8
<1> QED
  BY <1>1, <1>2 DEF Convention

LEMMA ConventionHalts == TypedJobs /\ Convention => HaltsClean /\ OnlyOverflowAborts
BY DEF Convention, AtTop, HaltsClean

(* Nothing that the step depends on is open: what it reads is written, and the labels
   that it may jump to are there. *)
LEMMA ConventionCloses ==
  ASSUME TypedJobs, Convention, status = "running"
  PROVE  ~IsOpen(code, registers, stack)
<1>1. TypeOK /\ job \in Jobs
  BY DEF Convention, TypeOK
<1>2. CASE AtTop
  <2>1. /\ pc \in Addresses(code)
        /\ (pc = 0 /\ current.opc = "JUMPLINK") \/ current.opc = "HALT"
    BY <1>2, AtTopSteps DEF AtTop
  <2>2. pc = 0 => current.arg1 = 0 /\ LabelSites(code, 0) # {}
    BY <1>1, TypedJob DEF StartsIn, current, code
  <2> QED
    BY <2>1, <2>2 DEF IsOpen, current, pc
<1>3. CASE Active
  <2>1. PICK ps : Chain(job, activations, ps) /\ Holds(ps[Len(activations)], activations[Len(activations)])
    BY <1>3 DEF Active
  <2>2. PICK p, e : p = ps[Len(activations)] /\ e = activations[Len(activations)]
    OBVIOUS
  <2>3. Located(p, e)
    BY <1>1, <2>1, <2>2, ActiveFacts
  <2>4. OpAt(job, p) = current
    BY <2>3, AtCurrent
  <2>5. NothingUninitialisedIsUsed
    BY ConventionUses
  <2>6. /\ current.opc \in {"LOAD", "JUMPADDR"} => registers[current.arg1] # Uninit
        /\ current.opc \in {"STORE", "JUMPCOND"} => registers[current.arg2] # Uninit
    BY <2>5 DEF NothingUninitialisedIsUsed
  <2>7. /\ current.opc \in {"MOVE", "LOAD", "LOADIMM", "JUMPCOND"} => current.arg2 \in Named
        /\ current.opc \in {"ADD", "SUB"} => current.arg1 \in Named
        /\ current.opc \in {"JUMP", "JUMPLINK", "JUMPCOND"} => LabelSites(code, current.arg1) # {}
    BY <2>3, <2>4 DEF Located, Allowed, code
  <2>8. PROGRAM_COUNTER \notin Named /\ Named \subseteq DOMAIN registers
    BY <1>1, RegistersThere DEF TypeOK
  <2> QED
    BY <2>6, <2>7, <2>8 DEF IsOpen, current, pc
<1> QED
  BY <1>2, <1>3 DEF Convention

(* Tests are of registers that the code names, and these are always allocated. *)
LEMMA ConventionRegisters == TypedJobs /\ Convention => RegistersAreAllocated
<1> SUFFICES ASSUME TypedJobs, Convention, status = "running", pc \in Addresses(code)
             PROVE  RegisterOperands(current) \subseteq DOMAIN registers
  BY DEF RegistersAreAllocated
<1>1. job \in Jobs /\ DOMAIN registers = RegisterFile
  BY DEF Convention, TypeOK
<1>2. CASE current.opc # "JUMPCOND"
  BY <1>1, <1>2, OperandsAllocated
<1>3. CASE current.opc = "JUMPCOND"
  <2>1. Active
    BY <1>3, AtTopSteps DEF Convention, AtTop
  <2>2. PICK ps : Chain(job, activations, ps) /\ Holds(ps[Len(activations)], activations[Len(activations)])
    BY <2>1 DEF Active
  <2>3. PICK p, e : p = ps[Len(activations)] /\ e = activations[Len(activations)]
    OBVIOUS
  <2>4. Located(p, e)
    BY <2>1, <2>2, <2>3, ActiveFacts DEF Convention
  <2>5. OpAt(job, p) = current
    BY <2>4, AtCurrent
  <2>6. current.arg2 \in Named
    BY <1>3, <2>4, <2>5 DEF Located, Allowed
  <2>7. RegisterOperands(current) \subseteq {current.arg2}
    BY <1>3 DEF RegisterOperands, TwoRegisters
  <2> QED
    BY <1>1, <2>6, <2>7, RegistersThere
<1> QED
  BY <1>2, <1>3

LEMMA ConventionReturns ==
  ASSUME TypedJobs, Convention, [CNext]_cvars, Executing("JUMPADDR"), ~UNCHANGED cvars
  PROVE  /\ activations # <<>>
         /\ LET entry == activations[Len(activations)]
            IN  pc' = entry.ra /\ SP = entry.sp /\ FP = entry.fp
<1>1. Active
  BY AtTopSteps DEF Convention, AtTop, Executing
<1>2. PICK ps : Chain(job, activations, ps) /\ Holds(ps[Len(activations)], activations[Len(activations)])
  BY <1>1 DEF Active
<1>3. PICK p, e : p = ps[Len(activations)] /\ e = activations[Len(activations)]
  OBVIOUS
<1>4. Located(p, e) /\ activations # <<>> /\ TypeOK
  BY <1>2, <1>3, ActiveFacts DEF Convention
<1>5. JumpAddr
  BY <1>4 DEF CNext, Enter, Leave, Within, JumpLink, Executing
<1>6. pc' = e.ra /\ SP = e.sp /\ e.fp = FP
  BY <1>4, <1>5, Leaving
<1> QED
  BY <1>3, <1>4, <1>6

LEMMA TypedJobsConvention == ASSUME TypedJobs PROVE CSpec => []Convention
<1>1. CInit => Convention
  BY ConventionInitially
<1>2. Convention /\ [CNext]_cvars => Convention'
  BY ConventionStep
<1> QED
  BY <1>1, <1>2, PTL DEF CSpec

(***************************************************************************)
(* Part 3: generated code has points.                                      *)
(***************************************************************************)
(* A point is good if the points that follow it, and those that follow them, and
   so on, are where they may be, up to points X that are taken to be good.  That is
   shown from the end of the code to its start. *)
AllConsistent(j, X) == UNION {P \in SUBSET Point : Consistent(j, P, X)}
Good(j, X, p) == \E q \in AllConsistent(j, X) \cup X : Covers(q, p)

LEMMA CoversItself == \A p : Covers(p, p)
BY DEF Covers, Weakens

LEMMA CoversCovering ==
  ASSUME NEW p \in Point, NEW q \in Point, NEW r \in Point, Covers(r, q), Covers(q, p)
  PROVE  Covers(r, p)
<1>1. ASSUME NEW a, NEW b, NEW c, Weakens(a, b), Weakens(b, c)
      PROVE  Weakens(a, c)
  BY <1>1 DEF Weakens, Written, AnyThing, AWord
<1>2. Len(p.temps) \in Nat /\ Len(q.temps) \in Nat /\ Len(r.temps) \in Nat
  BY DEF Point
<1>3. \A i \in 1 .. Len(r.temps) : Weakens(r.temps[i], p.temps[i])
  BY <1>1, <1>2 DEF Covers
<1>4. \A x \in Named : Weakens(r.regs[x], p.regs[x])
  BY <1>1 DEF Covers
<1> QED
  BY <1>2, <1>3, <1>4 DEF Covers

LEMMA AllAreConsistent ==
  ASSUME NEW j, NEW X
  PROVE  Consistent(j, AllConsistent(j, X), X)
<1>1. ASSUME NEW p \in AllConsistent(j, X)
      PROVE  /\ p \in Point
             /\ p.func \in FunctionNames(j.prog)
             /\ p.at \in Addresses(j.code)
             /\ Allowed(j, p)
             /\ \A s : Leads(j, p, s) => \E q \in AllConsistent(j, X) \cup X : Covers(q, s)
  <2>1. PICK P \in SUBSET Point : Consistent(j, P, X) /\ p \in P
    BY DEF AllConsistent
  <2>2. P \subseteq AllConsistent(j, X)
    BY <2>1 DEF AllConsistent
  <2> QED
    BY <2>1, <2>2 DEF Consistent
<1> QED
  BY <1>1 DEF Consistent

(* A point is good when those after it are. *)
LEMMA GoodBefore ==
  ASSUME NEW j, NEW X, NEW p \in Point,
         p.func \in FunctionNames(j.prog), p.at \in Addresses(j.code), Allowed(j, p),
         \A s : Leads(j, p, s) => Good(j, X, s)
  PROVE  Good(j, X, p)
<1> DEFINE P == AllConsistent(j, X) \cup {p}
<1>1. Consistent(j, P, X)
  <2>1. \A s : Good(j, X, s) => \E q \in P \cup X : Covers(q, s)
    BY DEF Good
  <2>2. \A r \in AllConsistent(j, X) :
          \A s : Leads(j, r, s) => \E q \in P \cup X : Covers(q, s)
    BY AllAreConsistent DEF Consistent
  <2> QED
    BY <2>1, <2>2, AllAreConsistent DEF Consistent
<1>2. P \in SUBSET Point
  BY AllAreConsistent DEF Consistent
<1>3. p \in AllConsistent(j, X)
  <2> HIDE DEF P
  <2>1. p \in P
    BY DEF P
  <2> QED
    BY <1>1, <1>2, <2>1 DEF AllConsistent
<1> QED
  BY <1>3, CoversItself DEF Good

LEMMA GoodCovered ==
  ASSUME NEW j, NEW X \in SUBSET Point, NEW p \in Point, NEW q \in Point,
         Covers(q, p), Good(j, X, q)
  PROVE  Good(j, X, p)
<1>1. PICK r \in AllConsistent(j, X) \cup X : Covers(r, q)
  BY DEF Good
<1>2. r \in Point
  BY AllAreConsistent DEF Consistent
<1> QED
  BY <1>1, <1>2, CoversCovering DEF Good

LEMMA GoodAmongMore ==
  ASSUME NEW j, NEW X, NEW Y, X \subseteq Y, NEW p, Good(j, X, p)
  PROVE  Good(j, Y, p)
<1>1. ASSUME NEW P \in SUBSET Point, Consistent(j, P, X)
      PROVE  Consistent(j, P, Y)
  <2>1. \A s : (\E q \in P \cup X : Covers(q, s)) => \E q \in P \cup Y : Covers(q, s)
    OBVIOUS
  <2> QED
    BY <1>1, <2>1 DEF Consistent
<1>2. AllConsistent(j, X) \subseteq AllConsistent(j, Y)
  BY <1>1 DEF AllConsistent
<1> QED
  BY <1>2 DEF Good

LEMMA GoodTaken ==
  ASSUME NEW j, NEW X, NEW p \in X
  PROVE  Good(j, X, p)
BY CoversItself DEF Good

(* A loop: a point is good when those after it are, if it is itself. *)
LEMMA GoodLoop ==
  ASSUME NEW j, NEW X, NEW p \in Point,
         p.func \in FunctionNames(j.prog), p.at \in Addresses(j.code), Allowed(j, p),
         \A s : Leads(j, p, s) => Good(j, X \cup {p}, s)
  PROVE  Good(j, X, p)
<1> DEFINE Y == X \cup {p}
           P == AllConsistent(j, Y) \cup {p}
<1>1. P \cup X = AllConsistent(j, Y) \cup Y
  OBVIOUS
<1>2. Consistent(j, P, X)
  <2>1. \A s : Good(j, Y, s) => \E q \in P \cup X : Covers(q, s)
    BY <1>1 DEF Good
  <2>2. \A r \in AllConsistent(j, Y) :
          \A s : Leads(j, r, s) => \E q \in P \cup X : Covers(q, s)
    BY <1>1, AllAreConsistent DEF Consistent
  <2> QED
    BY <2>1, <2>2, AllAreConsistent DEF Consistent
<1>3. P \in SUBSET Point
  BY AllAreConsistent DEF Consistent
<1>4. p \in AllConsistent(j, X)
  <2> HIDE DEF P
  <2>1. p \in P
    BY DEF P
  <2> QED
    BY <1>2, <1>3, <2>1 DEF AllConsistent
<1> QED
  BY <1>4, CoversItself DEF Good

(* Points that are all good taken together need no others. *)
LEMMA GoodTogether ==
  ASSUME NEW j, NEW X \in SUBSET Point,
         \A p \in X :
           /\ p.func \in FunctionNames(j.prog) /\ p.at \in Addresses(j.code) /\ Allowed(j, p)
           /\ \A s : Leads(j, p, s) => Good(j, X, s)
  PROVE  Consistent(j, AllConsistent(j, X) \cup X, {})
<1> DEFINE P == AllConsistent(j, X) \cup X
<1>1. \A s : Good(j, X, s) => \E q \in P \cup {} : Covers(q, s)
  BY DEF Good
<1>2. \A r \in AllConsistent(j, X) :
        \A s : Leads(j, r, s) => \E q \in P \cup {} : Covers(q, s)
  BY AllAreConsistent DEF Consistent
<1> QED
  BY <1>1, <1>2, AllAreConsistent DEF Consistent

(* ------------------------ What is known where --------------------------- *)
Knowledge == [temps : Seq(Shape), regs : [Named -> Shape]]

Known(ts, sp, fp, ra, acc, temp) == [temps |-> ts, regs |-> Regs(sp, fp, ra, acc, temp)]

(* Between the pieces of the code: there are the temporaries ts, and the accumulator
   has anything, or a word. *)
Normal(ts)    == Known(ts, Cell(Len(ts)), Cell(-1), ReturnAddress, AnyThing, AnyThing)
WithValue(ts) == Known(ts, Cell(Len(ts)), Cell(-1), ReturnAddress, AWord, AnyThing)

With(k, r, shape) ==
  [temps |-> k.temps, regs |-> [q \in Named |-> IF q = r THEN shape ELSE k.regs[q]]]

OnTop(k, shape) == [temps |-> Append(k.temps, shape), regs |-> k.regs]

(* k says all that l says. *)
Enough(l, k) ==
  /\ \A r \in Named : Weakens(l.regs[r], k.regs[r])
  /\ Len(l.temps) <= Len(k.temps)
  /\ \A i \in 1 .. Len(l.temps) : Weakens(l.temps[i], k.temps[i])

There(f, a, k) == [func |-> f, at |-> a, regs |-> k.regs, temps |-> k.temps]

LEMMA KnownThere ==
  ASSUME NEW ts, NEW s, NEW b, NEW c, NEW d, NEW t
  PROVE  LET k == Known(ts, s, b, c, d, t)
         IN  /\ k.temps = ts
             /\ k.regs[STACK_POINTER] = s /\ k.regs[FRAME_POINTER] = b
             /\ k.regs[RETURN_ADDRESS] = c /\ k.regs[ACCUMULATOR] = d
             /\ k.regs[TEMPORARY] = t
BY RegsThere DEF Known

LEMMA KnownType ==
  ASSUME NEW ts \in Seq(Shape), NEW s \in Shape, NEW b \in Shape, NEW c \in Shape,
         NEW d \in Shape, NEW t \in Shape
  PROVE  Known(ts, s, b, c, d, t) \in Knowledge
<1>1. Regs(s, b, c, d, t) \in [Named -> Shape]
  BY RegsValues
<1> QED
  BY <1>1 DEF Known, Knowledge

LEMMA ThereType ==
  ASSUME NEW f \in Nat, NEW a \in Nat, NEW k \in Knowledge
  PROVE  There(f, a, k) \in Point
BY DEF There, Point, Knowledge

(* After one of them was set. *)
LEMMA KnownWith ==
  ASSUME NEW ts, NEW s, NEW b, NEW c, NEW d, NEW t, NEW x
  PROVE  LET k == Known(ts, s, b, c, d, t)
         IN  /\ With(k, STACK_POINTER, x) = Known(ts, x, b, c, d, t)
             /\ With(k, FRAME_POINTER, x) = Known(ts, s, x, c, d, t)
             /\ With(k, RETURN_ADDRESS, x) = Known(ts, s, b, x, d, t)
             /\ With(k, ACCUMULATOR, x) = Known(ts, s, b, c, x, t)
             /\ With(k, TEMPORARY, x) = Known(ts, s, b, c, d, x)
<1> DEFINE regs == Regs(s, b, c, d, t)
           Set(r) == [q \in Named |-> IF q = r THEN x ELSE regs[q]]
<1>1. /\ \A q \in Named : Set(STACK_POINTER)[q] = Regs(x, b, c, d, t)[q]
      /\ \A q \in Named : Set(FRAME_POINTER)[q] = Regs(s, x, c, d, t)[q]
      /\ \A q \in Named : Set(RETURN_ADDRESS)[q] = Regs(s, b, x, d, t)[q]
      /\ \A q \in Named : Set(ACCUMULATOR)[q] = Regs(s, b, c, x, t)[q]
      /\ \A q \in Named : Set(TEMPORARY)[q] = Regs(s, b, c, d, x)[q]
  BY RegsThere DEF Named, STACK_POINTER, FRAME_POINTER, RETURN_ADDRESS, ACCUMULATOR, TEMPORARY
<1>2. /\ Set(STACK_POINTER) = Regs(x, b, c, d, t) /\ Set(FRAME_POINTER) = Regs(s, x, c, d, t)
      /\ Set(RETURN_ADDRESS) = Regs(s, b, x, d, t) /\ Set(ACCUMULATOR) = Regs(s, b, c, x, t)
      /\ Set(TEMPORARY) = Regs(s, b, c, d, x)
  BY <1>1 DEF Regs
<1>3. Known(ts, s, b, c, d, t).regs = regs /\ Known(ts, s, b, c, d, t).temps = ts
  BY DEF Known
<1>4. \A r : With(Known(ts, s, b, c, d, t), r, x) = [temps |-> ts, regs |-> Set(r)]
  BY <1>3 DEF With
<1> HIDE DEF Set
<1> QED
  BY <1>2, <1>4 DEF Known

LEMMA WithType ==
  ASSUME NEW k \in Knowledge, NEW r, NEW x \in Shape
  PROVE  With(k, r, x) \in Knowledge
BY DEF With, Knowledge

LEMMA NormalTypes ==
  ASSUME NEW ts \in Seq(Shape)
  PROVE  Normal(ts) \in Knowledge /\ WithValue(ts) \in Knowledge
<1>1. /\ Cell(Len(ts)) \in Shape /\ Cell(-1) \in Shape /\ ReturnAddress \in Shape
      /\ AnyThing \in Shape /\ AWord \in Shape
  BY ShapeTypes
<1> QED
  BY <1>1, KnownType DEF Normal, WithValue

LEMMA EnoughCovers ==
  ASSUME NEW f, NEW a, NEW k, NEW l, Enough(l, k)
  PROVE  Covers(There(f, a, l), There(f, a, k))
BY DEF Enough, Covers, There

(* More is known than between the pieces. *)
LEMMA EnoughForNormal ==
  ASSUME NEW ts \in Seq(Shape), NEW us \in Seq(Shape),
         Len(ts) <= Len(us), \A i \in 1 .. Len(ts) : Weakens(ts[i], us[i]),
         NEW acc \in Shape, NEW tmp \in Shape, NEW ra, Weakens(ReturnAddress, ra)
  PROVE  LET k == Known(us, Cell(Len(ts)), Cell(-1), ra, acc, tmp)
         IN  /\ Enough(Normal(ts), k)
             /\ Written(acc) => Enough(WithValue(ts), k)
<1> DEFINE k == Known(us, Cell(Len(ts)), Cell(-1), ra, acc, tmp)
<1>1. \A r \in Named : Weakens(Normal(ts).regs[r], k.regs[r])
  BY KnownThere DEF Named, Weakens, Normal
<1>2. Written(acc) => \A r \in Named : Weakens(WithValue(ts).regs[r], k.regs[r])
  BY KnownThere DEF Named, Weakens, WithValue
<1>3. Normal(ts).temps = ts /\ WithValue(ts).temps = ts /\ k.temps = us
  BY KnownThere DEF Normal, WithValue
<1> HIDE DEF k
<1>4. Enough(Normal(ts), k) /\ (Written(acc) => Enough(WithValue(ts), k))
  BY <1>1, <1>2, <1>3 DEF Enough
<1> QED
  BY <1>4 DEF k

(* ------------------------- From here to there --------------------------- *)
(* Before the operations it is enough to know k, if it is enough to know l after
   them; wherever in the code they are. *)
Goes(j, X, f, ops, k, l) ==
  /\ ops \in Seq(ICodeOperation)
  /\ k \in Knowledge /\ l \in Knowledge
  /\ \A a \in Nat :
       CodeAt(j, a, ops) /\ Good(j, X, There(f, a + Len(ops), l)) => Good(j, X, There(f, a, k))

(* The functions of a job: where they start, points are good. *)
Entries(j) ==
  UNION {{EntryPoint(f, a) : a \in LabelSites(j.code, f)} : f \in FunctionNames(j.prog)}

Setting(j, X, f) ==
  /\ j.code \in Seq(ICodeOperation)
  /\ Prog_num_funcs(j.prog) \in Nat
  /\ Functional(j)
  /\ \A g \in FunctionNames(j.prog) : LabelSites(j.code, g) # {}
  /\ X \in SUBSET Point
  /\ Entries(j) \subseteq X
  /\ f \in FunctionNames(j.prog)

LEMMA SettingFacts ==
  ASSUME NEW j, NEW X, NEW f, Setting(j, X, f)
  PROVE  /\ f \in Nat /\ Len(j.code) \in Nat /\ Prog_func(j.prog, f).num_vars \in Nat
         /\ X \subseteq Point
BY DEF Setting, Functional, FunctionNames

LEMMA SettingMore ==
  ASSUME NEW j, NEW X, NEW f, Setting(j, X, f), NEW x \in Point
  PROVE  Setting(j, X \cup {x}, f)
<1>1. X \cup {x} \in SUBSET Point /\ Entries(j) \subseteq X \cup {x}
  BY DEF Setting
<1> QED
  BY <1>1 DEF Setting

(* Operations one after the other. *)
LEMMA CodeSplit ==
  ASSUME NEW j, Len(j.code) \in Nat, NEW o \in Seq(ICodeOperation), NEW p \in Seq(ICodeOperation),
         NEW a \in Nat, CodeAt(j, a, o \o p)
  PROVE  /\ CodeAt(j, a, o) /\ CodeAt(j, a + Len(o), p)
         /\ a + Len(o \o p) = (a + Len(o)) + Len(p)
<1>1. /\ Len(o) \in Nat /\ Len(p) \in Nat /\ Len(o \o p) = Len(o) + Len(p)
      /\ \A i \in 1 .. Len(o) : (o \o p)[i] = o[i]
      /\ \A i \in 1 .. Len(p) : (o \o p)[Len(o) + i] = p[i]
  OBVIOUS
<1>2. PICK m : m = Len(o)
  OBVIOUS
<1>3. PICK n : n = Len(p)
  OBVIOUS
<1>4. CodeAt(j, a, o)
  <2>1. ASSUME NEW i \in 1 .. m
        PROVE  j.code[a + i] = o[i]
    <3>1. i \in 1 .. Len(o \o p)
      BY <1>1, <1>2, <1>3
    <3> QED
      BY <1>1, <1>2, <3>1 DEF CodeAt
  <2> QED
    BY <1>1, <1>2, <2>1 DEF CodeAt
<1>5. CodeAt(j, a + m, p)
  <2>1. ASSUME NEW i \in 1 .. n
        PROVE  j.code[(a + m) + i] = p[i]
    <3>1. m + i \in 1 .. Len(o \o p) /\ (a + m) + i = a + (m + i) /\ i \in 1 .. Len(p)
      BY <1>1, <1>2, <1>3
    <3>2. j.code[a + (m + i)] = (o \o p)[m + i]
      BY <3>1 DEF CodeAt
    <3> QED
      BY <1>1, <1>2, <3>1, <3>2
  <2>2. (a + m) + n <= Len(j.code)
    BY <1>1, <1>2, <1>3 DEF CodeAt
  <2> QED
    BY <1>3, <2>1, <2>2 DEF CodeAt
<1> QED
  BY <1>1, <1>2, <1>4, <1>5

LEMMA GoesThen ==
  ASSUME NEW j, NEW X, NEW f, Setting(j, X, f), NEW o, NEW p, NEW k, NEW l, NEW m,
         Goes(j, X, f, o, k, l), Goes(j, X, f, p, l, m)
  PROVE  Goes(j, X, f, o \o p, k, m)
<1>1. o \in Seq(ICodeOperation) /\ p \in Seq(ICodeOperation) /\ Len(j.code) \in Nat
  BY DEF Goes, Setting
<1>2. o \o p \in Seq(ICodeOperation) /\ Len(o) \in Nat
  BY <1>1
<1>3. ASSUME NEW a \in Nat, CodeAt(j, a, o \o p), Good(j, X, There(f, a + Len(o \o p), m))
      PROVE  Good(j, X, There(f, a, k))
  <2>1. PICK b \in Nat : b = a + Len(o)
    BY <1>2
  <2>2. CodeAt(j, a, o) /\ CodeAt(j, b, p) /\ a + Len(o \o p) = b + Len(p)
    BY <1>1, <1>3, <2>1, CodeSplit
  <2>3. Good(j, X, There(f, b, l))
    BY <1>3, <2>1, <2>2 DEF Goes
  <2> QED
    BY <2>1, <2>2, <2>3 DEF Goes
<1> QED
  BY <1>2, <1>3 DEF Goes

(* More may be known before, and less after. *)
LEMMA GoesWeaker ==
  ASSUME NEW j, NEW X, NEW f, Setting(j, X, f), NEW o, NEW k, NEW l,
         Goes(j, X, f, o, k, l)
  PROVE  /\ \A h \in Knowledge : Enough(k, h) => Goes(j, X, f, o, h, l)
         /\ \A m \in Knowledge : Enough(m, l) => Goes(j, X, f, o, k, m)
<1>1. ASSUME NEW a \in Nat, NEW h \in Knowledge, NEW m \in Knowledge, Enough(m, h),
             Good(j, X, There(f, a, m))
      PROVE  Good(j, X, There(f, a, h))
  <2>1. There(f, a, h) \in Point /\ There(f, a, m) \in Point
    BY ThereType, SettingFacts
  <2>2. Covers(There(f, a, m), There(f, a, h))
    BY <1>1, EnoughCovers
  <2> QED
    BY <1>1, <2>1, <2>2, GoodCovered, SettingFacts
<1>2. \A a \in Nat : a + Len(o) \in Nat
  BY DEF Goes
<1>3. ASSUME NEW h \in Knowledge, Enough(k, h)
      PROVE  Goes(j, X, f, o, h, l)
  BY <1>1, <1>3 DEF Goes
<1>4. ASSUME NEW m \in Knowledge, Enough(m, l)
      PROVE  Goes(j, X, f, o, k, m)
  BY <1>1, <1>2, <1>4 DEF Goes
<1> QED
  BY <1>3, <1>4

(* ---------------------------- One operation ----------------------------- *)
(* A point of what is known before an operation. *)
Before(j, f, k, op, p) ==
  /\ p \in Point
  /\ p.func = f /\ p.regs = k.regs /\ p.temps = k.temps
  /\ OpAt(j, p) = op

LEMMA GoesOne ==
  ASSUME NEW j, NEW X, NEW f, Setting(j, X, f), NEW k \in Knowledge, NEW l \in Knowledge,
         NEW op \in ICodeOperation,
         \A p : Before(j, f, k, op, p) =>
                  /\ Allowed(j, p)
                  /\ \A s : Leads(j, p, s) => s = There(f, p.at + 1, l)
  PROVE  Goes(j, X, f, <<op>>, k, l)
<1>1. <<op>> \in Seq(ICodeOperation) /\ Len(<<op>>) = 1 /\ <<op>>[1] = op
  OBVIOUS
<1>2. ASSUME NEW a \in Nat, CodeAt(j, a, <<op>>), Good(j, X, There(f, a + 1, l))
      PROVE  Good(j, X, There(f, a, k))
  <2>1. PICK p : p = There(f, a, k)
    OBVIOUS
  <2>2. p \in Point /\ p.func = f /\ p.at = a /\ p.regs = k.regs /\ p.temps = k.temps
    BY <2>1, ThereType, SettingFacts DEF There
  <2>3. j.code[a + 1] = op /\ a + 1 <= Len(j.code)
    BY <1>1, <1>2 DEF CodeAt
  <2>4. Before(j, f, k, op, p)
    BY <2>2, <2>3 DEF Before, OpAt, OperationAt
  <2>5. p.at \in Addresses(j.code)
    BY <2>2, <2>3, SettingFacts DEF Addresses
  <2>6. \A s : Leads(j, p, s) => Good(j, X, s)
    BY <1>2, <2>2, <2>4
  <2> QED
    BY <2>1, <2>2, <2>4, <2>5, <2>6, GoodBefore DEF Setting
<1> QED
  BY <1>1, <1>2 DEF Goes

(* The operations of generated code. *)
LEMMA GoesMove ==
  ASSUME NEW j, NEW X, NEW f, Setting(j, X, f), NEW k \in Knowledge,
         NEW x \in Named, NEW y \in Named, Written(k.regs[x])
  PROVE  Goes(j, X, f, <<ICodeOperation_init("MOVE", x, y)>>, k, With(k, y, k.regs[x]))
<1>1. ICodeOperation_init("MOVE", x, y) \in ICodeOperation
  BY DEF ICodeOperation, ICodeOperation_init, Opcode, Named, STACK_POINTER, FRAME_POINTER,
         RETURN_ADDRESS, ACCUMULATOR, TEMPORARY
<1>2. With(k, y, k.regs[x]) \in Knowledge
  BY WithType DEF Knowledge
<1>3. ASSUME NEW p, Before(j, f, k, ICodeOperation_init("MOVE", x, y), p)
      PROVE  /\ Allowed(j, p)
             /\ \A s : Leads(j, p, s) => s = There(f, p.at + 1, With(k, y, k.regs[x]))
  <2>1. Allowed(j, p)
    BY <1>3 DEF Before, Allowed, ICodeOperation_init
  <2>2. \A s : Leads(j, p, s) => s = Put(p, y, p.regs[x])
    BY <1>3 DEF Before, Leads, ICodeOperation_init
  <2> QED
    BY <1>3, <2>1, <2>2 DEF Before, Put, At, There, With
<1> QED
  BY <1>1, <1>2, <1>3, GoesOne

LEMMA GoesLoadImm ==
  ASSUME NEW j, NEW X, NEW f, Setting(j, X, f), NEW k \in Knowledge,
         NEW n \in Int, NEW y \in Named
  PROVE  Goes(j, X, f, <<ICodeOperation_init("LOADIMM", n, y)>>, k, With(k, y, Const(n)))
<1>1. ICodeOperation_init("LOADIMM", n, y) \in ICodeOperation
  BY DEF ICodeOperation, ICodeOperation_init, Opcode, Named, STACK_POINTER, FRAME_POINTER,
         RETURN_ADDRESS, ACCUMULATOR, TEMPORARY
<1>2. With(k, y, Const(n)) \in Knowledge
  BY WithType, ShapeTypes
<1>3. ASSUME NEW p, Before(j, f, k, ICodeOperation_init("LOADIMM", n, y), p)
      PROVE  /\ Allowed(j, p)
             /\ \A s : Leads(j, p, s) => s = There(f, p.at + 1, With(k, y, Const(n)))
  <2>1. Allowed(j, p)
    BY <1>3 DEF Before, Allowed, ICodeOperation_init
  <2>2. \A s : Leads(j, p, s) => s = Put(p, y, Const(n))
    BY <1>3 DEF Before, Leads, ICodeOperation_init
  <2> QED
    BY <1>3, <2>1, <2>2 DEF Before, Put, At, There, With
<1> QED
  BY <1>1, <1>2, <1>3, GoesOne

(* Adding and subtracting: addresses stay addresses in what the function has of the
   stack, and whatever is written is written then. *)
Computes(j, f, k, opc, x, y, shape) ==
  \/ /\ opc = "ADD"
     /\ {k.regs[x].is, k.regs[y].is} = {"cell", "const"}
     /\ shape = Cell(k.regs[x].n + k.regs[y].n)
     /\ -Prog_func(j.prog, f).num_vars - 1 <= shape.n /\ shape.n <= Len(k.temps)
  \/ /\ opc = "SUB"
     /\ k.regs[x].is = "cell" /\ k.regs[y].is = "const"
     /\ shape = Cell(k.regs[x].n - k.regs[y].n)
     /\ -Prog_func(j.prog, f).num_vars - 1 <= shape.n /\ shape.n <= Len(k.temps)
  \/ k.regs[x] = AWord /\ k.regs[y] = AWord /\ shape = AWord

LEMMA GoesComputing ==
  ASSUME NEW j, NEW X, NEW f, Setting(j, X, f), NEW k \in Knowledge,
         NEW opc \in {"ADD", "SUB"}, NEW x \in Named, NEW y \in Named, NEW shape \in Shape,
         Computes(j, f, k, opc, x, y, shape)
  PROVE  Goes(j, X, f, <<ICodeOperation_init(opc, x, y)>>, k, With(k, x, shape))
<1>1. ICodeOperation_init(opc, x, y) \in ICodeOperation
  BY DEF ICodeOperation, ICodeOperation_init, Opcode, Named, STACK_POINTER, FRAME_POINTER,
         RETURN_ADDRESS, ACCUMULATOR, TEMPORARY
<1>2. With(k, x, shape) \in Knowledge
  BY WithType
<1>3. Written(k.regs[x]) /\ Written(k.regs[y])
  <2>1. CASE k.regs[x] = AWord /\ k.regs[y] = AWord
    BY <2>1 DEF Written, AWord
  <2>2. CASE {k.regs[x].is, k.regs[y].is} = {"cell", "const"}
    BY <2>2 DEF Written
  <2>3. CASE k.regs[x].is = "cell" /\ k.regs[y].is = "const"
    BY <2>3 DEF Written
  <2> QED
    BY <2>1, <2>2, <2>3 DEF Computes
<1>4. ASSUME NEW p, Before(j, f, k, ICodeOperation_init(opc, x, y), p)
      PROVE  /\ Allowed(j, p)
             /\ \A s : Leads(j, p, s) => s = There(f, p.at + 1, With(k, x, shape))
  <2>1. Allowed(j, p)
    BY <1>3, <1>4 DEF Before, Allowed, ICodeOperation_init
  <2>2. opc = "ADD" => shape = SumOf(j, p, p.regs[x], p.regs[y])
    <3>1. k.regs[x] = AWord => {k.regs[x].is, k.regs[y].is} # {"cell", "const"}
      <4>1. AWord.is \notin {"cell", "const"}
        BY DEF AWord
      <4> QED
        BY <4>1
    <3>2. CASE k.regs[x] = AWord /\ k.regs[y] = AWord /\ shape = AWord
      BY <1>4, <3>1, <3>2 DEF Before, SumOf
    <3>3. CASE ~(k.regs[x] = AWord /\ k.regs[y] = AWord /\ shape = AWord)
      BY <1>4, <3>3, SMTT(30) DEF Before, Computes, SumOf, Reachable, VarsOf, Cell
    <3> QED
      BY <3>2, <3>3
  <2>3. opc = "SUB" => shape = DifferenceOf(j, p, p.regs[x], p.regs[y])
    BY <1>4 DEF Before, Computes, DifferenceOf, Reachable, VarsOf, Cell, AWord
  <2>4. \A s : Leads(j, p, s) => s = Put(p, x, shape)
    BY <1>4, <2>2, <2>3 DEF Before, Leads, ICodeOperation_init
  <2> QED
    BY <1>4, <2>1, <2>4 DEF Before, Put, At, There, With
<1> QED
  BY <1>1, <1>2, <1>4, GoesOne

LEMMA GoesLoad ==
  ASSUME NEW j, NEW X, NEW f, Setting(j, X, f), NEW k \in Knowledge,
         NEW x \in Named, NEW y \in Named, NEW n \in Int, k.regs[x] = Cell(n),
         -Prog_func(j.prog, f).num_vars <= n, n < Len(k.temps),
         NEW shape \in Shape, shape = IF n < 0 THEN AWord ELSE k.temps[n + 1], Written(shape)
  PROVE  Goes(j, X, f, <<ICodeOperation_init("LOAD", x, y)>>, k, With(k, y, shape))
<1>1. ICodeOperation_init("LOAD", x, y) \in ICodeOperation
  BY DEF ICodeOperation, ICodeOperation_init, Opcode, Named, STACK_POINTER, FRAME_POINTER,
         RETURN_ADDRESS, ACCUMULATOR, TEMPORARY
<1>2. With(k, y, shape) \in Knowledge
  BY WithType
<1>3. k.regs[x].is = "cell" /\ k.regs[x].n = n
  BY DEF Cell
<1>4. ASSUME NEW p, Before(j, f, k, ICodeOperation_init("LOAD", x, y), p)
      PROVE  /\ Allowed(j, p)
             /\ \A s : Leads(j, p, s) => s = There(f, p.at + 1, With(k, y, shape))
  <2>1. CellShape(p, n) = shape
    BY <1>4 DEF Before, CellShape
  <2>2. Allowed(j, p)
    BY <1>3, <1>4, <2>1 DEF Before, Allowed, ICodeOperation_init, VarsOf
  <2>3. \A s : Leads(j, p, s) => s = Put(p, y, shape)
    BY <1>3, <1>4, <2>1 DEF Before, Leads, ICodeOperation_init
  <2> QED
    BY <1>4, <2>2, <2>3 DEF Before, Put, At, There, With
<1> QED
  BY <1>1, <1>2, <1>4, GoesOne

(* A store to a variable, and one to the top of the stack. *)
LEMMA GoesStore ==
  ASSUME NEW j, NEW X, NEW f, Setting(j, X, f), NEW k \in Knowledge,
         NEW x \in Named, NEW y \in Named, NEW n \in Int, k.regs[y] = Cell(n),
         Written(k.regs[x])
  PROVE  /\ n \in -Prog_func(j.prog, f).num_vars .. -1 =>
              Goes(j, X, f, <<ICodeOperation_init("STORE", x, y)>>, k, k)
         /\ n = Len(k.temps) =>
              Goes(j, X, f, <<ICodeOperation_init("STORE", x, y)>>, k,
                   OnTop(k, k.regs[x]))
<1> DEFINE up == OnTop(k, k.regs[x])
<1>1. ICodeOperation_init("STORE", x, y) \in ICodeOperation
  BY DEF ICodeOperation, ICodeOperation_init, Opcode, Named, STACK_POINTER, FRAME_POINTER,
         RETURN_ADDRESS, ACCUMULATOR, TEMPORARY
<1>2. up \in Knowledge /\ up.temps = Append(k.temps, k.regs[x]) /\ up.regs = k.regs
  BY DEF Knowledge, OnTop
<1>3. k.regs[y].is = "cell" /\ k.regs[y].n = n /\ Len(k.temps) \in Nat
  BY DEF Cell, Knowledge
<1> HIDE DEF up
<1>4. ASSUME NEW p, Before(j, f, k, ICodeOperation_init("STORE", x, y), p)
      PROVE  /\ n = Len(k.temps) \/ n \in -Prog_func(j.prog, f).num_vars .. -1 =>
                  /\ Allowed(j, p)
                  /\ \A s : Leads(j, p, s) => s = Stored(p, n, k.regs[x])
             /\ n < 0 => Stored(p, n, k.regs[x]) = There(f, p.at + 1, k)
             /\ n >= 0 => Stored(p, n, k.regs[x]) = There(f, p.at + 1, up)
  <2>1. n = Len(k.temps) \/ n \in -Prog_func(j.prog, f).num_vars .. -1 => Allowed(j, p)
    BY <1>3, <1>4 DEF Before, Allowed, ICodeOperation_init, VarsOf
  <2>2. \A s : Leads(j, p, s) => s = Stored(p, n, k.regs[x])
    BY <1>3, <1>4 DEF Before, Leads, ICodeOperation_init
  <2>3. /\ n < 0 => Stored(p, n, k.regs[x]) = There(f, p.at + 1, k)
        /\ n >= 0 => Stored(p, n, k.regs[x]) = There(f, p.at + 1, up)
    BY <1>2, <1>4 DEF Before, Stored, At, There
  <2> QED
    BY <2>1, <2>2, <2>3
<1>5. n \in -Prog_func(j.prog, f).num_vars .. -1 =>
        Goes(j, X, f, <<ICodeOperation_init("STORE", x, y)>>, k, k)
  BY <1>1, <1>4, GoesOne, SettingFacts
<1>6. n = Len(k.temps) => Goes(j, X, f, <<ICodeOperation_init("STORE", x, y)>>, k, up)
  BY <1>1, <1>2, <1>3, <1>4, GoesOne
<1> QED
  BY <1>5, <1>6 DEF up

(* ---------------------------- The templates ----------------------------- *)
LEMMA GoesAppend ==
  ASSUME NEW j, NEW X, NEW f, Setting(j, X, f), NEW o, NEW op, NEW k, NEW l, NEW m,
         Goes(j, X, f, o, k, l), Goes(j, X, f, <<op>>, l, m)
  PROVE  Goes(j, X, f, Append(o, op), k, m)
<1>1. Goes(j, X, f, o \o <<op>>, k, m)
  BY GoesThen
<1>2. o \in Seq(ICodeOperation) /\ <<op>> \in Seq(ICodeOperation) /\ <<op>>[1] = op
      /\ Len(<<op>>) = 1
  BY DEF Goes
<1>3. op \in ICodeOperation
  BY <1>2
<1>4. o \o <<op>> = Append(o, op)
  BY <1>2, <1>3
<1> QED
  BY <1>1, <1>4

LEMMA AppendIs ==
  ASSUME NEW S, NEW s \in Seq(S), NEW e \in S, NEW t \in Seq(S), Len(t) = Len(s) + 1,
         \A i \in 1 .. Len(s) : t[i] = s[i], t[Len(t)] = e
  PROVE  Append(s, e) = t
<1>1. PICK u \in Seq(S) : u = Append(s, e)
  OBVIOUS
<1>2. Len(u) = Len(t) /\ Len(s) \in Nat /\ u[Len(t)] = e /\ \A i \in 1 .. Len(s) : u[i] = s[i]
  BY <1>1
<1>3. \A i \in 1 .. Len(u) : u[i] = t[i]
  BY <1>2
<1> QED
  BY <1>1, <1>2, <1>3, SeqEqual

OneOf(a)           == <<a>>
TwoOf(a, b)        == <<a, b>>
ThreeOf(a, b, c)   == <<a, b, c>>
FourOf(a, b, c, d) == <<a, b, c, d>>

LEMMA AppendedTuples ==
  ASSUME NEW S, NEW a \in S, NEW b \in S, NEW c \in S, NEW d \in S
  PROVE  /\ Append(OneOf(a), b) = TwoOf(a, b)
         /\ Append(TwoOf(a, b), c) = ThreeOf(a, b, c)
         /\ Append(ThreeOf(a, b, c), d) = FourOf(a, b, c, d)
<1>1. OneOf(a) \in Seq(S) /\ Len(OneOf(a)) = 1 /\ OneOf(a)[1] = a
  BY DEF OneOf
<1>2. TwoOf(a, b) \in Seq(S) /\ Len(TwoOf(a, b)) = 2 /\ TwoOf(a, b)[1] = a /\ TwoOf(a, b)[2] = b
  BY DEF TwoOf
<1>3. /\ ThreeOf(a, b, c) \in Seq(S) /\ Len(ThreeOf(a, b, c)) = 3
      /\ ThreeOf(a, b, c)[1] = a /\ ThreeOf(a, b, c)[2] = b /\ ThreeOf(a, b, c)[3] = c
  BY DEF ThreeOf
<1>4. /\ FourOf(a, b, c, d) \in Seq(S) /\ Len(FourOf(a, b, c, d)) = 4
      /\ FourOf(a, b, c, d)[1] = a /\ FourOf(a, b, c, d)[2] = b
      /\ FourOf(a, b, c, d)[3] = c /\ FourOf(a, b, c, d)[4] = d
  BY DEF FourOf
<1>5. Append(OneOf(a), b) = TwoOf(a, b)
  <2>1. /\ \A i \in 1 .. Len(OneOf(a)) : TwoOf(a, b)[i] = OneOf(a)[i]
        /\ Len(TwoOf(a, b)) = Len(OneOf(a)) + 1 /\ TwoOf(a, b)[Len(TwoOf(a, b))] = b
    BY <1>1, <1>2
  <2> QED
    BY <1>1, <1>2, <2>1, AppendIs
<1>6. Append(TwoOf(a, b), c) = ThreeOf(a, b, c)
  <2>1. /\ \A i \in 1 .. Len(TwoOf(a, b)) : ThreeOf(a, b, c)[i] = TwoOf(a, b)[i]
        /\ Len(ThreeOf(a, b, c)) = Len(TwoOf(a, b)) + 1
        /\ ThreeOf(a, b, c)[Len(ThreeOf(a, b, c))] = c
    BY <1>2, <1>3
  <2> QED
    BY <1>2, <1>3, <2>1, AppendIs
<1>7. Append(ThreeOf(a, b, c), d) = FourOf(a, b, c, d)
  BY <1>3, <1>4, AppendIs, SMTT(30)
<1> QED
  BY <1>5, <1>6, <1>7

LEMMA GoesSome ==
  ASSUME NEW j, NEW X, NEW f, Setting(j, X, f), NEW a, NEW b,
         NEW k, NEW l, NEW m, Goes(j, X, f, <<a>>, k, l), Goes(j, X, f, <<b>>, l, m)
  PROVE  /\ Goes(j, X, f, <<a, b>>, k, m)
         /\ \A c, n : Goes(j, X, f, <<c>>, m, n) => Goes(j, X, f, <<a, b, c>>, k, n)
         /\ \A c, d, n, o : Goes(j, X, f, <<c>>, m, n) /\ Goes(j, X, f, <<d>>, n, o) =>
                              Goes(j, X, f, <<a, b, c, d>>, k, o)
<1>1. ASSUME NEW c, NEW n, NEW o, Goes(j, X, f, <<c>>, n, o)
      PROVE  c \in ICodeOperation
  <2>1. <<c>> \in Seq(ICodeOperation) /\ Len(<<c>>) = 1 /\ <<c>>[1] = c
    BY <1>1 DEF Goes
  <2> QED
    BY <2>1
<1>2. a \in ICodeOperation /\ b \in ICodeOperation
  BY <1>1
<1>3. Goes(j, X, f, TwoOf(a, b), k, m)
  <2>1. Goes(j, X, f, OneOf(a), k, l)
    BY DEF OneOf
  <2>2. Append(OneOf(a), b) = TwoOf(a, b)
    BY <1>2, AppendedTuples
  <2> QED
    BY <2>1, <2>2, GoesAppend
<1>4. ASSUME NEW c, NEW n, Goes(j, X, f, <<c>>, m, n)
      PROVE  Goes(j, X, f, ThreeOf(a, b, c), k, n)
  <2>1. c \in ICodeOperation
    BY <1>1, <1>4
  <2>2. Append(TwoOf(a, b), c) = ThreeOf(a, b, c)
    BY <1>2, <2>1, AppendedTuples
  <2> QED
    BY <1>3, <1>4, <2>2, GoesAppend
<1>5. ASSUME NEW c, NEW d, NEW n, NEW o, Goes(j, X, f, <<c>>, m, n), Goes(j, X, f, <<d>>, n, o)
      PROVE  Goes(j, X, f, FourOf(a, b, c, d), k, o)
  <2>1. c \in ICodeOperation /\ d \in ICodeOperation
    BY <1>1, <1>5
  <2>2. Append(ThreeOf(a, b, c), d) = FourOf(a, b, c, d)
    BY <1>2, <2>1, AppendedTuples, SMTT(30)
  <2> QED
    BY <1>4, <1>5, <2>2, GoesAppend
<1> QED
  BY <1>3, <1>4, <1>5 DEF TwoOf, ThreeOf, FourOf

LEMMA GoesDrop ==
  ASSUME NEW j, NEW X, NEW f, Setting(j, X, f), NEW ts \in Seq(Shape), NEW h \in Int,
         NEW fp \in Shape, NEW ra \in Shape, NEW acc \in Shape, NEW tmp \in Shape,
         NEW n \in Int, -Prog_func(j.prog, f).num_vars - 1 <= h - n, h - n <= Len(ts)
  PROVE  Goes(j, X, f, Drop(n), Known(ts, Cell(h), fp, ra, acc, tmp),
              Known(ts, Cell(h - n), fp, ra, acc, Const(n)))
<1> DEFINE k == Known(ts, Cell(h), fp, ra, acc, tmp)
           l == Known(ts, Cell(h), fp, ra, acc, Const(n))
           m == Known(ts, Cell(h - n), fp, ra, acc, Const(n))
<1>1. Cell(h) \in Shape /\ Cell(h - n) \in Shape /\ Const(n) \in Shape
  BY ShapeTypes
<1>2. k \in Knowledge /\ l \in Knowledge
  BY <1>1, KnownType
<1>3. With(k, TEMPORARY, Const(n)) = l /\ With(l, STACK_POINTER, Cell(h - n)) = m
  BY KnownWith
<1>4. /\ l.regs[STACK_POINTER] = Cell(h) /\ l.regs[TEMPORARY] = Const(n) /\ l.temps = ts
  BY KnownThere
<1> HIDE DEF k, l, m
<1>5. Goes(j, X, f, <<ICodeOperation_init("LOADIMM", n, TEMPORARY)>>, k, l)
  BY <1>2, <1>3, NamedThere, GoesLoadImm
<1>6. Computes(j, f, l, "SUB", STACK_POINTER, TEMPORARY, Cell(h - n))
  BY <1>4 DEF Computes, Cell, Const
<1>7. Goes(j, X, f, <<ICodeOperation_init("SUB", STACK_POINTER, TEMPORARY)>>, l, m)
  BY <1>1, <1>2, <1>3, <1>6, NamedThere, GoesComputing
<1> QED
  BY <1>5, <1>7, GoesSome DEF Drop, k, m

LEMMA GoesPop ==
  ASSUME NEW j, NEW X, NEW f, Setting(j, X, f), NEW ts \in Seq(Shape), NEW h \in 1 .. Len(ts),
         NEW fp \in Shape, NEW ra \in Shape, NEW acc \in Shape, NEW tmp \in Shape,
         NEW r \in Named, Written(ts[h])
  PROVE  Goes(j, X, f, Pop(r), Known(ts, Cell(h), fp, ra, acc, tmp),
              With(Known(ts, Cell(h - 1), fp, ra, acc, Const(1)), r, ts[h]))
<1> DEFINE k == Known(ts, Cell(h), fp, ra, acc, tmp)
           l == Known(ts, Cell(h - 1), fp, ra, acc, Const(1))
<1>1. Cell(h - 1) \in Shape /\ Const(1) \in Shape /\ ts[h] \in Shape /\ Len(ts) \in Nat
  BY ShapeTypes
<1>2. l \in Knowledge
  BY <1>1, KnownType
<1>3. l.regs[STACK_POINTER] = Cell(h - 1) /\ l.temps = ts
  BY KnownThere
<1>4. Prog_func(j.prog, f).num_vars \in Nat
  BY SettingFacts
<1>5. Goes(j, X, f, Drop(1), k, l)
  <2>1. -Prog_func(j.prog, f).num_vars - 1 <= h - 1 /\ h - 1 <= Len(ts) /\ h \in Int
    BY <1>1, <1>4
  <2> QED
    BY <2>1, GoesDrop
<1> HIDE DEF k, l
<1>6. PICK i \in Nat : i = h - 1
  OBVIOUS
<1>7. Goes(j, X, f, <<ICodeOperation_init("LOAD", STACK_POINTER, r)>>, l, With(l, r, ts[h]))
  <2>1. -Prog_func(j.prog, f).num_vars <= i /\ i < Len(ts) /\ i + 1 = h
    BY <1>1, <1>4, <1>6
  <2>2. ts[h] = IF i < 0 THEN AWord ELSE l.temps[i + 1]
    BY <1>3, <2>1
  <2> QED
    BY <1>1, <1>2, <1>3, <1>6, <2>1, <2>2, NamedThere, GoesLoad
<1> QED
  BY <1>5, <1>7, GoesAppend DEF Pop, k, l

LEMMA GoesPush ==
  ASSUME NEW j, NEW X, NEW f, Setting(j, X, f), NEW ts \in Seq(Shape),
         NEW fp \in Shape, NEW ra \in Shape, NEW acc \in Shape, NEW tmp \in Shape,
         NEW r \in Named, NEW shape \in Shape, Written(shape),
         shape = Known(ts, Cell(Len(ts)), fp, ra, acc, tmp).regs[r]
  PROVE  Goes(j, X, f, Push(r), Known(ts, Cell(Len(ts)), fp, ra, acc, tmp),
              Known(Append(ts, shape), Cell(Len(ts) + 1), fp, ra, Const(1), tmp))
<1> DEFINE n == Len(ts)
           us == Append(ts, shape)
           k == Known(ts, Cell(n), fp, ra, acc, tmp)
           l == Known(us, Cell(n), fp, ra, acc, tmp)
           m == Known(us, Cell(n), fp, ra, Const(1), tmp)
           o == Known(us, Cell(n + 1), fp, ra, Const(1), tmp)
<1>1. n \in Nat /\ us \in Seq(Shape) /\ Len(us) = n + 1
  OBVIOUS
<1>2. Cell(n) \in Shape /\ Cell(n + 1) \in Shape /\ Const(1) \in Shape
  BY <1>1, ShapeTypes
<1>3. k \in Knowledge /\ l \in Knowledge /\ m \in Knowledge
  BY <1>1, <1>2, KnownType
<1>4. /\ k.temps = ts /\ k.regs[STACK_POINTER] = Cell(n)
      /\ m.temps = us /\ m.regs[STACK_POINTER] = Cell(n) /\ m.regs[ACCUMULATOR] = Const(1)
  <2>1. k.temps = ts /\ k.regs[STACK_POINTER] = Cell(n)
    BY KnownThere
  <2>2. m.temps = us /\ m.regs[STACK_POINTER] = Cell(n) /\ m.regs[ACCUMULATOR] = Const(1)
    <3> HIDE DEF us, n
    <3> QED
      BY KnownThere
  <2> QED
    BY <2>1, <2>2
<1>5. /\ l = OnTop(k, k.regs[r])
      /\ With(l, ACCUMULATOR, Const(1)) = m /\ With(m, STACK_POINTER, Cell(n + 1)) = o
  <2>1. l = OnTop(k, k.regs[r])
    BY DEF Known, OnTop
  <2> QED
    BY <2>1, KnownWith
<1>6. shape = k.regs[r]
  OBVIOUS
<1> HIDE DEF k, l, m, o, us, n
<1>7. Goes(j, X, f, <<ICodeOperation_init("STORE", r, STACK_POINTER)>>, k, l)
  BY <1>1, <1>3, <1>4, <1>5, <1>6, NamedThere, GoesStore DEF n
<1>8. Goes(j, X, f, <<ICodeOperation_init("LOADIMM", 1, ACCUMULATOR)>>, l, m)
  BY <1>3, <1>5, NamedThere, GoesLoadImm
<1>9. Computes(j, f, m, "ADD", STACK_POINTER, ACCUMULATOR, Cell(n + 1))
  <2>1. Prog_func(j.prog, f).num_vars \in Nat
    BY SettingFacts
  <2>2. /\ Cell(n).is = "cell" /\ Const(1).is = "const" /\ Cell(n).n = n /\ Const(1).n = 1
        /\ Cell(n + 1).n = n + 1
    BY DEF Cell, Const
  <2>3. -Prog_func(j.prog, f).num_vars - 1 <= n + 1 /\ n + 1 <= Len(us)
    BY <1>1, <2>1
  <2> QED
    BY <1>4, <2>2, <2>3 DEF Computes
<1>10. Goes(j, X, f, <<ICodeOperation_init("ADD", STACK_POINTER, ACCUMULATOR)>>, m, o)
  BY <1>2, <1>3, <1>5, <1>9, NamedThere, GoesComputing
<1> QED
  BY <1>7, <1>8, <1>10, GoesSome DEF Push, k, o, us, n

(* What is pushed: the value of an expression, a zero, the caller's frame pointer and
   return address. *)
LEMMA GoesPushing ==
  ASSUME NEW j, NEW X, NEW f, Setting(j, X, f), NEW ts \in Seq(Shape)
  PROVE  /\ Goes(j, X, f, Push(ACCUMULATOR), WithValue(ts), Normal(Append(ts, AWord)))
         /\ Goes(j, X, f, PushZero, Normal(ts), Normal(Append(ts, AWord)))
         /\ Goes(j, X, f, Push(FRAME_POINTER), Normal(ts), Normal(Append(ts, Cell(-1))))
         /\ Goes(j, X, f, Push(RETURN_ADDRESS), Normal(ts), Normal(Append(ts, ReturnAddress)))
<1> DEFINE h == Cell(Len(ts))
<1>1. /\ AnyThing \in Shape /\ AWord \in Shape /\ ReturnAddress \in Shape /\ Cell(-1) \in Shape
      /\ Const(0) \in Shape /\ Const(1) \in Shape /\ h \in Shape /\ Cell(Len(ts) + 1) \in Shape
  BY ShapeTypes
<1>2. Written(AWord) /\ Written(ReturnAddress) /\ Written(Cell(-1)) /\ Written(Const(0))
  BY DEF Written, AWord, ReturnAddress, Cell, Const
<1>3. ASSUME NEW acc \in Shape, NEW r \in Named, NEW weak \in Shape,
             NEW shape \in Shape, Written(shape), Weakens(weak, shape),
             shape = Known(ts, h, Cell(-1), ReturnAddress, acc, AnyThing).regs[r]
      PROVE  Goes(j, X, f, Push(r), Known(ts, h, Cell(-1), ReturnAddress, acc, AnyThing),
                  Normal(Append(ts, weak)))
  <2> DEFINE us == Append(ts, shape)
             ws == Append(ts, weak)
             k == Known(ts, h, Cell(-1), ReturnAddress, acc, AnyThing)
             l == Known(us, Cell(Len(ts) + 1), Cell(-1), ReturnAddress, Const(1), AnyThing)
  <2>1. Goes(j, X, f, Push(r), k, l)
    BY <1>1, <1>3, GoesPush
  <2>2. /\ us \in Seq(Shape) /\ ws \in Seq(Shape) /\ Len(us) = Len(ts) + 1 /\ Len(ws) = Len(us)
    OBVIOUS
  <2>3. \A i \in 1 .. Len(ws) : Weakens(ws[i], us[i])
    BY <1>3 DEF Weakens
  <2>4. l = Known(us, Cell(Len(ws)), Cell(-1), ReturnAddress, Const(1), AnyThing)
    BY <2>2
  <2>5. Weakens(ReturnAddress, ReturnAddress)
    BY DEF Weakens
  <2>6. Normal(ws) \in Knowledge
    BY <2>2, NormalTypes
  <2> HIDE DEF us, ws, k, l
  <2>7. Enough(Normal(ws), l)
    BY <1>1, <2>2, <2>3, <2>4, <2>5, EnoughForNormal
  <2>8. Goes(j, X, f, Push(r), k, Normal(ws))
    BY <2>1, <2>6, <2>7, GoesWeaker
  <2> QED
    BY <2>8 DEF k, ws
<1>4. Goes(j, X, f, Push(ACCUMULATOR), WithValue(ts), Normal(Append(ts, AWord)))
  BY <1>1, <1>2, <1>3, NamedThere, KnownThere DEF WithValue, Weakens
<1>5. Goes(j, X, f, Push(FRAME_POINTER), Normal(ts), Normal(Append(ts, Cell(-1))))
  BY <1>1, <1>2, <1>3, NamedThere, KnownThere DEF Normal, Weakens
<1>6. Goes(j, X, f, Push(RETURN_ADDRESS), Normal(ts), Normal(Append(ts, ReturnAddress)))
  BY <1>1, <1>2, <1>3, NamedThere, KnownThere DEF Normal, Weakens
<1>7. Goes(j, X, f, PushZero, Normal(ts), Normal(Append(ts, AWord)))
  <2> DEFINE l == Known(ts, h, Cell(-1), ReturnAddress, Const(0), AnyThing)
  <2>1. With(Normal(ts), ACCUMULATOR, Const(0)) = l
    BY KnownWith DEF Normal
  <2>2. Goes(j, X, f, <<ICodeOperation_init("LOADIMM", 0, ACCUMULATOR)>>, Normal(ts), l)
    BY <2>1, NormalTypes, NamedThere, GoesLoadImm
  <2>3. l.regs[ACCUMULATOR] = Const(0)
    BY KnownThere
  <2>4. Goes(j, X, f, Push(ACCUMULATOR), l, Normal(Append(ts, AWord)))
    BY <1>1, <1>2, <1>3, <2>3, NamedThere DEF Weakens
  <2> HIDE DEF l
  <2> QED
    BY <2>2, <2>4, GoesThen DEF PushZero
<1> QED
  BY <1>4, <1>5, <1>6, <1>7

LEMMA GoesLoadVariable ==
  ASSUME NEW j, NEW X, NEW f, Setting(j, X, f), NEW ts \in Seq(Shape),
         NEW name \in 0 .. Prog_func(j.prog, f).num_vars - 1
  PROVE  Goes(j, X, f, LoadVariable(name), Normal(ts), WithValue(ts))
<1> DEFINE h == Cell(Len(ts))
           c == Cell(-1 - name)
           k == Known(ts, h, Cell(-1), ReturnAddress, Const(name), AnyThing)
           l == Known(ts, h, Cell(-1), ReturnAddress, Const(name), Cell(-1))
           m == Known(ts, h, Cell(-1), ReturnAddress, Const(name), c)
           o == Known(ts, h, Cell(-1), ReturnAddress, AWord, c)
<1>1. PICK v \in Nat : v = Prog_func(j.prog, f).num_vars
  BY SettingFacts
<1>2. name \in Int /\ 0 <= name /\ name < v
  BY <1>1
<1>3. /\ AnyThing \in Shape /\ AWord \in Shape /\ ReturnAddress \in Shape /\ Cell(-1) \in Shape
      /\ Const(name) \in Shape /\ h \in Shape /\ c \in Shape
  BY <1>2, ShapeTypes
<1>4. k \in Knowledge /\ l \in Knowledge /\ m \in Knowledge /\ o \in Knowledge
  BY <1>3, KnownType
<1>5. /\ With(Normal(ts), ACCUMULATOR, Const(name)) = k /\ With(k, TEMPORARY, Cell(-1)) = l
      /\ With(l, TEMPORARY, c) = m /\ With(m, ACCUMULATOR, AWord) = o
  BY KnownWith DEF Normal
<1>6. /\ k.regs[FRAME_POINTER] = Cell(-1)
      /\ l.regs[TEMPORARY] = Cell(-1) /\ l.regs[ACCUMULATOR] = Const(name) /\ l.temps = ts
      /\ m.regs[TEMPORARY] = c /\ m.temps = ts
  BY KnownThere
<1>7. Normal(ts) \in Knowledge /\ WithValue(ts) \in Knowledge
  BY NormalTypes
<1>8. Enough(WithValue(ts), o)
  <2>1. Written(AWord) /\ Weakens(ReturnAddress, ReturnAddress)
        /\ \A i \in 1 .. Len(ts) : Weakens(ts[i], ts[i])
    BY DEF Written, AWord, Weakens
  <2> QED
    BY <1>3, <2>1, EnoughForNormal
<1>9. /\ c.is = "cell" /\ c.n = -1 - name /\ Cell(-1).is = "cell" /\ Cell(-1).n = -1
      /\ Const(name).is = "const" /\ Const(name).n = name /\ Len(ts) \in Nat
  BY DEF Cell, Const
<1> HIDE DEF k, l, m, o
<1>10. Goes(j, X, f, <<ICodeOperation_init("LOADIMM", name, ACCUMULATOR)>>, Normal(ts), k)
  BY <1>2, <1>5, <1>7, NamedThere, GoesLoadImm
<1>11. Goes(j, X, f, <<ICodeOperation_init("MOVE", FRAME_POINTER, TEMPORARY)>>, k, l)
  BY <1>4, <1>5, <1>6, <1>9, NamedThere, GoesMove DEF Written
<1>12. Goes(j, X, f, <<ICodeOperation_init("SUB", TEMPORARY, ACCUMULATOR)>>, l, m)
  <2>1. -v - 1 <= -1 - name /\ -1 - name <= Len(ts)
    BY <1>2, <1>9
  <2>2. -1 - name = l.regs[TEMPORARY].n - l.regs[ACCUMULATOR].n
    BY <1>6, <1>9
  <2>3. Computes(j, f, l, "SUB", TEMPORARY, ACCUMULATOR, c)
    BY <1>1, <1>6, <1>9, <2>1, <2>2 DEF Computes
  <2> QED
    BY <1>3, <1>4, <1>5, <2>3, NamedThere, GoesComputing
<1>13. Goes(j, X, f, <<ICodeOperation_init("LOAD", TEMPORARY, ACCUMULATOR)>>, m, o)
  <2>1. PICK i \in Int : i = -1 - name
    BY <1>2
  <2>2. -v <= i /\ i < Len(ts) /\ i < 0
    BY <1>2, <1>9, <2>1
  <2>3. AWord = IF i < 0 THEN AWord ELSE m.temps[i + 1]
    BY <2>2
  <2>4. Written(AWord)
    BY DEF Written, AWord
  <2> QED
    BY <1>1, <1>3, <1>4, <1>5, <1>6, <2>1, <2>2, <2>3, <2>4, NamedThere, GoesLoad
<1>14. Goes(j, X, f, LoadVariable(name), Normal(ts), o)
  BY <1>10, <1>11, <1>12, <1>13, GoesSome DEF LoadVariable
<1> QED
  BY <1>7, <1>8, <1>14, GoesWeaker

LEMMA GoesStoreVariable ==
  ASSUME NEW j, NEW X, NEW f, Setting(j, X, f), NEW ts \in Seq(Shape),
         NEW name \in 0 .. Prog_func(j.prog, f).num_vars - 1
  PROVE  Goes(j, X, f, StoreVariable(name), WithValue(ts), Normal(ts))
<1> DEFINE h == Cell(Len(ts))
           c == Cell(-1 - name)
           k == Known(ts, h, Cell(-1), ReturnAddress, AWord, Const(-name))
           l == Known(ts, h, Cell(-1), ReturnAddress, AWord, c)
<1>1. PICK v \in Nat : v = Prog_func(j.prog, f).num_vars
  BY SettingFacts
<1>2. name \in Int /\ 0 <= name /\ name < v /\ -name \in Int
  BY <1>1
<1>3. /\ AWord \in Shape /\ ReturnAddress \in Shape /\ Cell(-1) \in Shape
      /\ Const(-name) \in Shape /\ h \in Shape /\ c \in Shape
  BY <1>2, ShapeTypes
<1>4. k \in Knowledge /\ l \in Knowledge
  BY <1>3, KnownType
<1>5. With(WithValue(ts), TEMPORARY, Const(-name)) = k /\ With(k, TEMPORARY, c) = l
  BY KnownWith DEF WithValue
<1>6. /\ k.regs[FRAME_POINTER] = Cell(-1) /\ k.regs[TEMPORARY] = Const(-name) /\ k.temps = ts
      /\ l.regs[TEMPORARY] = c /\ l.regs[ACCUMULATOR] = AWord
  BY KnownThere
<1>7. Normal(ts) \in Knowledge /\ WithValue(ts) \in Knowledge
  BY NormalTypes
<1>8. Enough(Normal(ts), l)
  <2>1. Weakens(ReturnAddress, ReturnAddress) /\ \A i \in 1 .. Len(ts) : Weakens(ts[i], ts[i])
    BY DEF Weakens
  <2> QED
    BY <1>3, <2>1, EnoughForNormal
<1>9. /\ c.is = "cell" /\ c.n = -1 - name /\ Cell(-1).is = "cell" /\ Cell(-1).n = -1
      /\ Const(-name).is = "const" /\ Const(-name).n = -name /\ Len(ts) \in Nat
  BY DEF Cell, Const
<1> HIDE DEF k, l
<1>10. Goes(j, X, f, <<ICodeOperation_init("LOADIMM", -name, TEMPORARY)>>, WithValue(ts), k)
  BY <1>2, <1>5, <1>7, NamedThere, GoesLoadImm
<1>11. Goes(j, X, f, <<ICodeOperation_init("ADD", TEMPORARY, FRAME_POINTER)>>, k, l)
  <2>1. -v - 1 <= -1 - name /\ -1 - name <= Len(ts)
    BY <1>2, <1>9
  <2>2. -1 - name = k.regs[TEMPORARY].n + k.regs[FRAME_POINTER].n
    BY <1>2, <1>6, <1>9
  <2>3. Computes(j, f, k, "ADD", TEMPORARY, FRAME_POINTER, c)
    BY <1>1, <1>6, <1>9, <2>1, <2>2 DEF Computes
  <2> QED
    BY <1>3, <1>4, <1>5, <2>3, NamedThere, GoesComputing
<1>12. Goes(j, X, f, <<ICodeOperation_init("STORE", ACCUMULATOR, TEMPORARY)>>, l, l)
  <2>1. PICK i \in Int : i = -1 - name
    BY <1>2
  <2>2. i \in -v .. -1
    BY <1>2, <2>1
  <2>3. Written(AWord)
    BY DEF Written, AWord
  <2> QED
    BY <1>1, <1>4, <1>6, <2>1, <2>2, <2>3, NamedThere, GoesStore
<1>13. Goes(j, X, f, StoreVariable(name), WithValue(ts), l)
  BY <1>10, <1>11, <1>12, GoesSome DEF StoreVariable
<1> QED
  BY <1>7, <1>8, <1>13, GoesWeaker

(* The end of an addition: the left operand is in the accumulator, the right one on
   the stack. *)
LEMMA GoesBinaryEnd ==
  ASSUME NEW j, NEW X, NEW f, Setting(j, X, f), NEW ts \in Seq(Shape), NEW opc \in {"ADD", "SUB"}
  PROVE  \E k : /\ Goes(j, X, f, Pop(TEMPORARY), WithValue(Append(ts, AWord)), k)
                /\ Goes(j, X, f, <<ICodeOperation_init(opc, ACCUMULATOR, TEMPORARY)>>, k,
                        WithValue(ts))
<1> DEFINE us == Append(ts, AWord)
           h == Len(us)
           k == Known(us, Cell(h - 1), Cell(-1), ReturnAddress, AWord, AWord)
<1>1. /\ AnyThing \in Shape /\ AWord \in Shape /\ ReturnAddress \in Shape /\ Cell(-1) \in Shape
      /\ Const(1) \in Shape
  BY ShapeTypes
<1>2. /\ us \in Seq(Shape) /\ h = Len(ts) + 1 /\ Len(ts) \in Nat /\ us[h] = AWord
      /\ \A i \in 1 .. Len(ts) : us[i] = ts[i]
  BY <1>1
<1>3. Written(AWord)
  BY DEF Written, AWord
<1> HIDE DEF us, h
<1>4. Cell(h - 1) \in Shape /\ h - 1 = Len(ts) /\ h \in 1 .. Len(us)
  BY <1>2, ShapeTypes DEF h
<1>5. k \in Knowledge /\ k.regs[ACCUMULATOR] = AWord /\ k.regs[TEMPORARY] = AWord
  <2>1. k \in Knowledge
    BY <1>1, <1>2, <1>4, KnownType
  <2>2. k.regs[ACCUMULATOR] = AWord /\ k.regs[TEMPORARY] = AWord
    BY KnownThere
  <2> QED
    BY <2>1, <2>2
<1>6. /\ With(Known(us, Cell(h - 1), Cell(-1), ReturnAddress, AWord, Const(1)), TEMPORARY, us[h]) = k
      /\ With(k, ACCUMULATOR, AWord) = k
  BY <1>2, KnownWith
<1>7. WithValue(us) = Known(us, Cell(h), Cell(-1), ReturnAddress, AWord, AnyThing)
  BY DEF WithValue, h
<1>8. Goes(j, X, f, Pop(TEMPORARY), WithValue(us), k)
  <2>1. PICK fp \in Shape : fp = Cell(-1)
    BY <1>1
  <2>2. PICK ra \in Shape : ra = ReturnAddress
    BY <1>1
  <2>3. PICK acc \in Shape, tmp \in Shape : acc = AWord /\ tmp = AnyThing
    BY <1>1
  <2>4. TEMPORARY \in Named /\ h \in 1 .. Len(us) /\ us \in Seq(Shape) /\ Written(us[h])
    BY <1>2, <1>3, <1>4, NamedThere
  <2>5. Goes(j, X, f, Pop(TEMPORARY), Known(us, Cell(h), fp, ra, acc, tmp),
             With(Known(us, Cell(h - 1), fp, ra, acc, Const(1)), TEMPORARY, us[h]))
    BY <2>4, GoesPop
  <2> QED
    BY <1>6, <1>7, <2>1, <2>2, <2>3, <2>5
<1>9. Enough(WithValue(ts), k) /\ WithValue(ts) \in Knowledge
  <2>1. /\ Len(ts) <= Len(us) /\ \A i \in 1 .. Len(ts) : Weakens(ts[i], us[i])
        /\ Weakens(ReturnAddress, ReturnAddress)
    BY <1>2, <1>4 DEF Weakens, h
  <2>2. k = Known(us, Cell(Len(ts)), Cell(-1), ReturnAddress, AWord, AWord)
    BY <1>4
  <2> HIDE DEF k
  <2> QED
    BY <1>1, <1>2, <1>3, <2>1, <2>2, EnoughForNormal, NormalTypes
<1> HIDE DEF k
<1>10. Goes(j, X, f, <<ICodeOperation_init(opc, ACCUMULATOR, TEMPORARY)>>, k, k)
  <2>1. Computes(j, f, k, opc, ACCUMULATOR, TEMPORARY, AWord)
    BY <1>5 DEF Computes
  <2> QED
    BY <1>1, <1>5, <1>6, <2>1, NamedThere, GoesComputing
<1>11. Goes(j, X, f, <<ICodeOperation_init(opc, ACCUMULATOR, TEMPORARY)>>, k, WithValue(ts))
  BY <1>9, <1>10, GoesWeaker
<1> QED
  BY <1>8, <1>11 DEF us

LEMMA GoesEnterFrame ==
  ASSUME NEW j, NEW X, NEW f, Setting(j, X, f), NEW us \in Seq(Shape)
  PROVE  Goes(j, X, f, EnterFrame, Normal(us),
              Known(us, Cell(Len(us)), Cell(Len(us) - 1), ReturnAddress, AnyThing, Const(1)))
<1> DEFINE h == Len(us)
           k == Known(us, Cell(h), Cell(h), ReturnAddress, AnyThing, AnyThing)
           l == Known(us, Cell(h), Cell(h), ReturnAddress, AnyThing, Const(1))
           m == Known(us, Cell(h), Cell(h - 1), ReturnAddress, AnyThing, Const(1))
<1>1. PICK v \in Nat : v = Prog_func(j.prog, f).num_vars
  BY SettingFacts
<1>2. /\ AnyThing \in Shape /\ ReturnAddress \in Shape /\ Cell(-1) \in Shape
      /\ Const(1) \in Shape /\ Cell(h) \in Shape /\ Cell(h - 1) \in Shape /\ h \in Nat
  BY ShapeTypes
<1>3. Normal(us) \in Knowledge /\ k \in Knowledge /\ l \in Knowledge
  BY <1>2, KnownType, NormalTypes
<1>4. /\ With(Normal(us), FRAME_POINTER, Cell(h)) = k /\ With(k, TEMPORARY, Const(1)) = l
      /\ With(l, FRAME_POINTER, Cell(h - 1)) = m
  BY KnownWith DEF Normal
<1>5. Normal(us).regs[STACK_POINTER] = Cell(h)
  BY KnownThere DEF Normal
<1>6. l.regs[FRAME_POINTER] = Cell(h) /\ l.regs[TEMPORARY] = Const(1) /\ l.temps = us
  BY KnownThere
<1> HIDE DEF k, l, m, h
<1>7. Goes(j, X, f, <<ICodeOperation_init("MOVE", STACK_POINTER, FRAME_POINTER)>>, Normal(us), k)
  <2>1. Written(Cell(h))
    BY DEF Written, Cell
  <2> QED
    BY <1>3, <1>4, <1>5, <2>1, NamedThere, GoesMove
<1>8. Goes(j, X, f, <<ICodeOperation_init("LOADIMM", 1, TEMPORARY)>>, k, l)
  BY <1>3, <1>4, NamedThere, GoesLoadImm
<1>9. Goes(j, X, f, <<ICodeOperation_init("SUB", FRAME_POINTER, TEMPORARY)>>, l, m)
  <2>1. /\ Cell(h).is = "cell" /\ Cell(h).n = h /\ Const(1).is = "const" /\ Const(1).n = 1
        /\ Cell(h - 1).n = h - 1
    BY DEF Cell, Const
  <2>2. -v - 1 <= h - 1 /\ h - 1 <= Len(us)
    BY <1>2 DEF h
  <2>3. Computes(j, f, l, "SUB", FRAME_POINTER, TEMPORARY, Cell(h - 1))
    BY <1>1, <1>6, <2>1, <2>2 DEF Computes
  <2> QED
    BY <1>2, <1>3, <1>4, <2>3, NamedThere, GoesComputing
<1>10. Goes(j, X, f, EnterFrame, Normal(us), m)
  BY <1>7, <1>8, <1>9, GoesSome DEF EnterFrame
<1> QED
  BY <1>10 DEF m, h

(* What is on the stack when a function is called: its frame is the top of it. *)
FrameOnTop(us, ws, v) ==
  /\ us \in Seq(Shape) /\ ws \in Seq(Shape) /\ v \in Nat
  /\ Len(us) = Len(ws) + v
  /\ \A i \in 1 .. Len(ws) : us[i] = ws[i]
  /\ \A i \in Len(ws) + 1 .. Len(us) : Written(us[i])

LEMMA GoesJumpLink ==
  ASSUME NEW j, NEW X, NEW f, Setting(j, X, f), NEW g \in FunctionNames(j.prog),
         NEW us, NEW ws, FrameOnTop(us, ws, Prog_func(j.prog, g).num_vars)
  PROVE  Goes(j, X, f, <<ICodeOperation_init("JUMPLINK", g, 0)>>,
              Known(us, Cell(Len(us)), Cell(Len(us) - 1), ReturnAddress, AnyThing, Const(1)),
              Known(ws, Cell(Len(us)), Cell(Len(us) - 1), AnyThing, AWord, AnyThing))
<1> DEFINE h == Len(us)
           op == ICodeOperation_init("JUMPLINK", g, 0)
           k == Known(us, Cell(h), Cell(h - 1), ReturnAddress, AnyThing, Const(1))
           l == Known(ws, Cell(h), Cell(h - 1), AnyThing, AWord, AnyThing)
<1>1. PICK v \in Nat : v = Prog_func(j.prog, g).num_vars
  BY SettingFacts DEF FrameOnTop
<1>2. /\ us \in Seq(Shape) /\ ws \in Seq(Shape) /\ h \in Nat /\ Len(ws) \in Nat
      /\ h = Len(ws) + v /\ h - v = Len(ws)
  BY <1>1 DEF FrameOnTop
<1>3. /\ AnyThing \in Shape /\ AWord \in Shape /\ ReturnAddress \in Shape /\ Const(1) \in Shape
      /\ Cell(h) \in Shape /\ Cell(h - 1) \in Shape /\ g \in Int
  BY <1>2, ShapeTypes DEF FunctionNames
<1>4. k \in Knowledge /\ l \in Knowledge
  BY <1>2, <1>3, KnownType
<1>5. op \in ICodeOperation /\ op.opc = "JUMPLINK" /\ op.arg1 = g
  BY <1>3 DEF ICodeOperation_init, ICodeOperation, Opcode
<1>6. /\ k.regs[STACK_POINTER] = Cell(h) /\ k.regs[FRAME_POINTER] = Cell(h - 1)
      /\ k.temps = us
  BY KnownThere
<1>7. LabelSites(j.code, g) # {} /\ \A a \in LabelSites(j.code, g) : EntryPoint(g, a) \in X
  BY DEF Setting, Entries
<1>8. Cell(h).n = h
  BY DEF Cell
<1>9. l = [temps |-> ws, regs |-> Regs(Cell(h), Cell(h - 1), AnyThing, AWord, AnyThing)]
  BY DEF Known
<1> HIDE DEF h, op, k, l
<1>10. ASSUME NEW a \in Nat, CodeAt(j, a, <<op>>), Good(j, X, There(f, a + 1, l))
       PROVE  Good(j, X, There(f, a, k))
  <2>1. PICK p : p = There(f, a, k)
    OBVIOUS
  <2>2. p \in Point /\ p.func = f /\ p.at = a /\ p.regs = k.regs /\ p.temps = us
    BY <1>4, <1>6, <2>1, ThereType, SettingFacts DEF There
  <2>3. j.code[a + 1] = op /\ a + 1 <= Len(j.code)
    <3>1. Len(<<op>>) = 1 /\ <<op>>[1] = op
      OBVIOUS
    <3> QED
      BY <1>10, <3>1 DEF CodeAt
  <2>4. OpAt(j, p) = op
    BY <2>2, <2>3 DEF OpAt, OperationAt
  <2>5. p.at \in Addresses(j.code)
    BY <2>2, <2>3, SettingFacts DEF Addresses
  <2>6. Height(p) = h /\ BelowFrame(j, p) = Len(ws)
    BY <1>1, <1>2, <1>5, <1>6, <1>8, <2>2, <2>4 DEF Height, BelowFrame
  <2>7. Allowed(j, p)
    <3>1. /\ p.regs[STACK_POINTER] = Cell(Height(p))
          /\ p.regs[FRAME_POINTER] = Cell(Height(p) - 1)
          /\ 0 <= BelowFrame(j, p) /\ Height(p) <= Len(p.temps)
      BY <1>2, <1>6, <2>2, <2>6 DEF h
    <3>2. \A i \in BelowFrame(j, p) + 1 .. Height(p) : Written(p.temps[i])
      BY <2>2, <2>6 DEF FrameOnTop, h
    <3> QED
      BY <1>5, <1>7, <2>4, <3>1, <3>2 DEF Allowed
  <2>8. Returned(j, p) = There(f, a + 1, l)
    <3>1. [i \in 1 .. Len(ws) |-> us[i]] = ws
      <4>1. \A i \in 1 .. Len(ws) : us[i] = ws[i]
        BY DEF FrameOnTop
      <4>2. ws = [i \in 1 .. Len(ws) |-> ws[i]]
        BY <1>2
      <4> QED
        BY <4>1, <4>2
    <3>2. l.regs = Regs(Cell(h), Cell(h - 1), AnyThing, AWord, AnyThing) /\ l.temps = ws
      BY <1>9
    <3> QED
      BY <2>2, <2>6, <3>1, <3>2 DEF Returned, There
  <2>9. ASSUME NEW s, Leads(j, p, s)
        PROVE  s = There(f, a + 1, l) \/ s \in X
    BY <1>5, <1>7, <2>4, <2>8, <2>9 DEF Leads
  <2>10. \A s : Leads(j, p, s) => Good(j, X, s)
    BY <1>10, <2>9, GoodTaken
  <2> QED
    BY <2>1, <2>2, <2>5, <2>7, <2>10, GoodBefore DEF Setting
<1>11. <<op>> \in Seq(ICodeOperation) /\ Len(<<op>>) = 1
  BY <1>5
<1> QED
  BY <1>4, <1>10, <1>11 DEF Goes, op, k, l, h

(* What is left there: the caller's frame pointer and return address. *)
LinksOnTop(ws, ts) ==
  /\ ws \in Seq(Shape)
  /\ Len(ws) = Len(ts) + 2
  /\ ws[Len(ts) + 1] = Cell(-1) /\ ws[Len(ts) + 2] = ReturnAddress
  /\ \A i \in 1 .. Len(ts) : ws[i] = ts[i]

LEMMA GoesLeaveFrame ==
  ASSUME NEW j, NEW X, NEW f, Setting(j, X, f), NEW v \in Nat, NEW ts \in Seq(Shape),
         NEW ws, LinksOnTop(ws, ts), NEW fp \in Shape
  PROVE  Goes(j, X, f, LeaveFrame(v),
              Known(ws, Cell(Len(ws) + v), fp, AnyThing, AWord, AnyThing), WithValue(ts))
<1> DEFINE h == Len(ws)
           n == Len(ts)
           k == Known(ws, Cell(h + v), fp, AnyThing, AWord, AnyThing)
           l == Known(ws, Cell(h), fp, AnyThing, AWord, Const(v))
           m == Known(ws, Cell(h - 1), fp, ReturnAddress, AWord, Const(1))
           o == Known(ws, Cell(n), Cell(-1), ReturnAddress, AWord, Const(1))
<1>1. /\ AnyThing \in Shape /\ AWord \in Shape /\ ReturnAddress \in Shape /\ Cell(-1) \in Shape
      /\ Const(1) \in Shape /\ Const(v) \in Shape
  BY ShapeTypes
<1>2. /\ ws \in Seq(Shape) /\ h = n + 2 /\ n \in Nat
      /\ ws[h] = ReturnAddress /\ ws[h - 1] = Cell(-1)
      /\ \A i \in 1 .. n : ws[i] = ts[i]
  <2>1. n \in Nat /\ h = n + 2 /\ h - 1 = n + 1
    BY DEF LinksOnTop
  <2> QED
    BY <2>1 DEF LinksOnTop
<1>3. Written(ReturnAddress) /\ Written(Cell(-1)) /\ Written(AWord)
  BY DEF Written, ReturnAddress, Cell, AWord
<1>4. PICK room \in Nat : room = Prog_func(j.prog, f).num_vars
  BY SettingFacts
<1>5. PICK tall \in Int : tall = h + v
  BY <1>2
<1>6. /\ h \in Int /\ h \in 1 .. Len(ws) /\ h - 1 \in 1 .. Len(ws) /\ (h - 1) - 1 = n
      /\ -room - 1 <= tall - v /\ tall - v <= Len(ws) /\ tall - v = h
  BY <1>2, <1>5
<1> HIDE DEF h, n
<1>7. Goes(j, X, f, Drop(v), k, l)
  <2>1. /\ -Prog_func(j.prog, f).num_vars - 1 <= tall - v /\ tall - v <= Len(ws)
        /\ v \in Int
    BY <1>4, <1>6
  <2>2. Goes(j, X, f, Drop(v), Known(ws, Cell(tall), fp, AnyThing, AWord, AnyThing),
             Known(ws, Cell(tall - v), fp, AnyThing, AWord, Const(v)))
    BY <1>1, <1>2, <2>1, GoesDrop
  <2> QED
    BY <1>5, <1>6, <2>2
<1>8. Goes(j, X, f, Pop(RETURN_ADDRESS), l, m)
  <2>1. With(Known(ws, Cell(h - 1), fp, AnyThing, AWord, Const(1)), RETURN_ADDRESS, ws[h]) = m
    BY <1>2, KnownWith
  <2>2. PICK i \in 1 .. Len(ws) : i = h
    BY <1>6
  <2>3. Written(ws[i])
    BY <1>2, <1>3, <2>2
  <2>4. Goes(j, X, f, Pop(RETURN_ADDRESS), Known(ws, Cell(i), fp, AnyThing, AWord, Const(v)),
             With(Known(ws, Cell(i - 1), fp, AnyThing, AWord, Const(1)), RETURN_ADDRESS, ws[i]))
    BY <1>1, <1>2, <2>2, <2>3, NamedThere, GoesPop
  <2> QED
    BY <2>1, <2>2, <2>4
<1>9. Goes(j, X, f, Pop(FRAME_POINTER), m, o)
  <2>1. With(Known(ws, Cell(n), fp, ReturnAddress, AWord, Const(1)), FRAME_POINTER, ws[h - 1]) = o
    BY <1>2, KnownWith
  <2>2. PICK i \in 1 .. Len(ws) : i = h - 1
    BY <1>6
  <2>3. Written(ws[i]) /\ i - 1 = n
    BY <1>2, <1>3, <1>6, <2>2
  <2> QED
    BY <1>1, <1>2, <2>1, <2>2, <2>3, NamedThere, GoesPop
<1>10. Enough(WithValue(ts), o) /\ WithValue(ts) \in Knowledge
  <2>1. n <= Len(ws) /\ \A i \in 1 .. n : Weakens(ts[i], ws[i])
    BY <1>2, <1>6 DEF Weakens
  <2>2. Weakens(ReturnAddress, ReturnAddress)
    BY DEF Weakens
  <2> QED
    BY <1>1, <1>2, <1>3, <2>1, <2>2, EnoughForNormal, NormalTypes DEF n
<1> HIDE DEF k, l, m, o
<1>11. Goes(j, X, f, Drop(v) \o Pop(RETURN_ADDRESS), k, m)
  BY <1>7, <1>8, GoesThen
<1>12. Goes(j, X, f, LeaveFrame(v), k, o)
  BY <1>9, <1>11, GoesThen DEF LeaveFrame
<1>13. Goes(j, X, f, LeaveFrame(v), k, WithValue(ts))
  BY <1>10, <1>12, GoesWeaker
<1> QED
  BY <1>13 DEF k, h

(* Many pieces. *)
LEMMA ConcatenatedParts ==
  ASSUME NEW T, NEW seqs \in Seq(Seq(T))
  PROVE  \E f \in [0 .. Len(seqs) -> Seq(T)] :
           /\ f[0] = <<>>
           /\ \A i \in 1 .. Len(seqs) : f[i] = f[i - 1] \o seqs[i]
           /\ Concatenated(seqs) = f[Len(seqs)]
<1> DEFINE n == Len(seqs)
           V == Seq(T)
           step == [i \in 1 .. n |-> [v \in V |-> v \o seqs[i]]]
           Is(f) == f = [i \in 0 .. n |-> IF i = 0 THEN <<>> ELSE f[i - 1] \o seqs[i]]
           upto == CHOOSE f : Is(f)
<1>1. n \in Nat /\ (\A i \in 1 .. n : seqs[i] \in V)
  OBVIOUS
<1>2. Concatenated(seqs) = upto[n]
  BY DEF Concatenated
<1>3. \A v \in V, w \in V : v \o w \in V
  OBVIOUS
<1>4. <<>> \in V
  OBVIOUS
<1> HIDE DEF n, V
<1>5. step \in Steps(V, n)
  <2>1. \A i \in 1 .. n : [v \in V |-> v \o seqs[i]] \in [V -> V]
    BY <1>1, <1>3
  <2> QED
    BY <2>1 DEF Steps
<1>6. PICK f \in [0 .. n -> V] : Solves(f, <<>>, step, n)
  <2> HIDE DEF step
  <2> QED
    BY <1>1, <1>4, <1>5, RecursionHasSolution
<1>7. ASSUME NEW i \in 1 .. n
      PROVE  f[i] = f[i - 1] \o seqs[i]
  <2>1. i - 1 \in 0 .. n
    BY <1>1
  <2>2. f[i - 1] \in V
    BY <2>1
  <2>3. step[i][f[i - 1]] = f[i - 1] \o seqs[i]
    BY <2>2
  <2> HIDE DEF step
  <2> QED
    BY <1>6, <2>3 DEF Solves
<1>8. Is(f)
  <2>1. f[0] = <<>>
    BY <1>6 DEF Solves
  <2>2. \A i \in 0 .. n : f[i] = IF i = 0 THEN <<>> ELSE f[i - 1] \o seqs[i]
    <3> SUFFICES ASSUME NEW i \in 0 .. n, i # 0
                 PROVE  f[i] = f[i - 1] \o seqs[i]
      BY <2>1
    <3>1. i \in 1 .. n
      BY <1>1
    <3> QED
      BY <1>7, <3>1
  <2> QED
    BY <2>2
<1>9. Is(upto)
  <2> HIDE DEF Is
  <2> QED
    BY <1>8
<1> HIDE DEF upto
<1>10. upto[0] = <<>>
  BY <1>1, <1>9
<1>11. ASSUME NEW i \in 1 .. n
       PROVE  upto[i] = upto[i - 1] \o seqs[i]
  <2>1. i \in 0 .. n /\ i # 0
    BY <1>1
  <2> QED
    BY <1>9, <2>1
<1>12. ASSUME NEW k \in 0 .. n
       PROVE  upto[k] = f[k]
  <2> DEFINE S == {m \in Nat : m <= n => upto[m] = f[m]}
  <2>1. 0 \in S
    BY <1>6, <1>10 DEF Solves
  <2>2. ASSUME NEW m \in Nat, m \in S
        PROVE  m + 1 \in S
    <3> SUFFICES ASSUME m + 1 <= n
                 PROVE  upto[m + 1] = f[m + 1]
      OBVIOUS
    <3>1. m + 1 \in 1 .. n /\ (m + 1) - 1 = m /\ m <= n
      BY <1>1
    <3>2. upto[m] = f[m]
      BY <2>2, <3>1
    <3> QED
      BY <1>7, <1>11, <3>1, <3>2
  <2> HIDE DEF S
  <2>3. Nat \subseteq S
    BY <2>1, <2>2, SetInduction
  <2> QED
    BY <1>1, <2>3 DEF S
<1>13. Concatenated(seqs) = f[n]
  BY <1>1, <1>2, <1>12
<1>14. f[0] = <<>>
  BY <1>6 DEF Solves
<1> QED
  BY <1>7, <1>13, <1>14 DEF n, V

LEMMA GoesNowhere ==
  ASSUME NEW j, NEW X, NEW f, NEW k \in Knowledge
  PROVE  Goes(j, X, f, <<>>, k, k)
<1>1. <<>> \in Seq(ICodeOperation) /\ Len(<<>>) = 0
  OBVIOUS
<1>2. \A a \in Nat : a + 0 = a
  OBVIOUS
<1> QED
  BY <1>1, <1>2 DEF Goes

LEMMA GoesConcatenated ==
  ASSUME NEW j, NEW X, NEW f, Setting(j, X, f), NEW seqs \in Seq(Seq(ICodeOperation)),
         NEW ks \in [0 .. Len(seqs) -> Knowledge],
         \A i \in 1 .. Len(seqs) : Goes(j, X, f, seqs[i], ks[i - 1], ks[i])
  PROVE  Goes(j, X, f, Concatenated(seqs), ks[0], ks[Len(seqs)])
<1>1. PICK n \in Nat : n = Len(seqs)
  OBVIOUS
<1>2. PICK up \in [0 .. n -> Seq(ICodeOperation)] :
        /\ up[0] = <<>>
        /\ \A i \in 1 .. n : up[i] = up[i - 1] \o seqs[i]
        /\ Concatenated(seqs) = up[n]
  BY <1>1, ConcatenatedParts
<1> DEFINE S == {m \in Nat : m <= n => Goes(j, X, f, up[m], ks[0], ks[m])}
<1>3. 0 \in S
  BY <1>1, <1>2, GoesNowhere
<1>4. ASSUME NEW m \in Nat, m \in S
      PROVE  m + 1 \in S
  <2> SUFFICES ASSUME m + 1 <= n
               PROVE  Goes(j, X, f, up[m + 1], ks[0], ks[m + 1])
    OBVIOUS
  <2>1. m + 1 \in 1 .. n /\ (m + 1) - 1 = m /\ m <= n
    BY <1>1
  <2>2. up[m + 1] = up[m] \o seqs[m + 1]
    BY <1>2, <2>1
  <2>3. Goes(j, X, f, seqs[m + 1], ks[m], ks[m + 1])
    BY <1>1, <2>1
  <2>4. Goes(j, X, f, up[m], ks[0], ks[m])
    BY <1>4, <2>1
  <2> QED
    BY <2>2, <2>3, <2>4, GoesThen
<1> HIDE DEF S
<1>5. Nat \subseteq S
  BY <1>3, <1>4, SetInduction
<1> QED
  BY <1>1, <1>2, <1>5 DEF S

(* More and more words. *)
Words(ts, n) == [i \in 1 .. Len(ts) + n |-> IF i <= Len(ts) THEN ts[i] ELSE AWord]

LEMMA WordsFacts ==
  ASSUME NEW ts \in Seq(Shape), NEW n \in Nat
  PROVE  /\ Words(ts, n) \in Seq(Shape) /\ Len(Words(ts, n)) = Len(ts) + n
         /\ \A i \in 1 .. Len(ts) : Words(ts, n)[i] = ts[i]
         /\ \A i \in Len(ts) + 1 .. Len(ts) + n : Words(ts, n)[i] = AWord
<1>1. AWord \in Shape
  BY ShapeTypes
<1>2. PICK k \in Nat : k = Len(ts)
  OBVIOUS
<1>3. k + n \in Nat
  OBVIOUS
<1>4. \A i \in 1 .. k + n : (IF i <= k THEN ts[i] ELSE AWord) \in Shape
  BY <1>1, <1>2
<1>5. Words(ts, n) = [i \in 1 .. k + n |-> IF i <= k THEN ts[i] ELSE AWord]
  BY <1>2 DEF Words
<1>6. Words(ts, n) \in Seq(Shape) /\ Len(Words(ts, n)) = k + n
  BY <1>3, <1>4, <1>5
<1>7. \A i \in 1 .. k : Words(ts, n)[i] = ts[i]
  BY <1>3, <1>5
<1>8. \A i \in k + 1 .. k + n : Words(ts, n)[i] = AWord
  BY <1>3, <1>5
<1> QED
  BY <1>2, <1>6, <1>7, <1>8

LEMMA OneMoreShape ==
  ASSUME NEW ts \in Seq(Shape), NEW x \in Shape
  PROVE  \E us \in Seq(Shape) :
           /\ us = Append(ts, x)
           /\ Len(us) = Len(ts) + 1 /\ us[Len(ts) + 1] = x
           /\ \A i \in 1 .. Len(ts) : us[i] = ts[i]
<1> DEFINE us == Append(ts, x)
<1>1. /\ us \in Seq(Shape) /\ Len(us) = Len(ts) + 1 /\ us[Len(ts) + 1] = x
      /\ \A i \in 1 .. Len(ts) : us[i] = ts[i]
  OBVIOUS
<1>2. us = Append(ts, x)
  OBVIOUS
<1> HIDE DEF us
<1> QED
  BY <1>1, <1>2

LEMMA OneMoreWord ==
  ASSUME NEW ts \in Seq(Shape), NEW n \in Nat, NEW m \in Nat, m = n + 1
  PROVE  Append(Words(ts, n), AWord) = Words(ts, m)
<1>1. AWord \in Shape
  BY ShapeTypes
<1>2. PICK k \in Nat : k = Len(ts)
  OBVIOUS
<1>3. PICK us \in Seq(Shape) :
        /\ us = Words(ts, n) /\ Len(us) = k + n
        /\ \A i \in 1 .. k : us[i] = ts[i]
        /\ \A i \in k + 1 .. k + n : us[i] = AWord
  <2>1. PICK us : us = Words(ts, n)
    OBVIOUS
  <2>2. /\ us \in Seq(Shape) /\ Len(us) = Len(ts) + n
        /\ \A i \in 1 .. Len(ts) : us[i] = ts[i]
        /\ \A i \in Len(ts) + 1 .. Len(ts) + n : us[i] = AWord
    BY <2>1, WordsFacts
  <2> QED
    BY <1>2, <2>1, <2>2
<1>4. PICK ws \in Seq(Shape) :
        /\ ws = Words(ts, m) /\ Len(ws) = k + m
        /\ \A i \in 1 .. k : ws[i] = ts[i]
        /\ \A i \in k + 1 .. k + m : ws[i] = AWord
  <2>1. PICK ws : ws = Words(ts, m)
    OBVIOUS
  <2>2. /\ ws \in Seq(Shape) /\ Len(ws) = Len(ts) + m
        /\ \A i \in 1 .. Len(ts) : ws[i] = ts[i]
        /\ \A i \in Len(ts) + 1 .. Len(ts) + m : ws[i] = AWord
    BY <2>1, WordsFacts
  <2> QED
    BY <1>2, <2>1, <2>2
<1>5. Len(ws) = Len(us) + 1 /\ Len(ws) \in k + 1 .. k + m
  BY <1>3, <1>4
<1>6. ws[Len(ws)] = AWord
  BY <1>4, <1>5
<1>7. ASSUME NEW i \in 1 .. Len(us)
      PROVE  ws[i] = us[i]
  <2>1. i \in 1 .. k \/ (i \in k + 1 .. k + n /\ i \in k + 1 .. k + m)
    BY <1>3, <1>4
  <2> QED
    BY <1>3, <1>4, <2>1
<1>8. Append(us, AWord) = ws
  BY <1>1, <1>5, <1>6, <1>7, AppendIs
<1> QED
  BY <1>3, <1>4, <1>8

(* A piece pushes one word. *)
PushesOne(j, X, f, ops) ==
  \A ts \in Seq(Shape) : Goes(j, X, f, ops, Normal(ts), Normal(Append(ts, AWord)))

(* The zeros of a call: one for each variable that is no argument. *)
LEMMA ZerosAre ==
  ASSUME NEW v \in Nat, NEW n \in 0 .. v
  PROVE  Zeros(v, n) = [i \in 1 .. v - n |-> PushZero]
<1>1. PICK zero : zero = PushZero
  OBVIOUS
<1>2. PICK all : all = [i \in 1 .. v |-> zero]
  OBVIOUS
<1>3. SubSeq(all, n + 1, v) = [i \in 1 .. v - n |-> zero]
  <2>1. SubSeq(all, n + 1, v) = [i \in 1 .. 1 + v - (n + 1) |-> all[i + (n + 1) - 1]]
    BY DEF SubSeq
  <2>2. 1 + v - (n + 1) = v - n
    OBVIOUS
  <2>3. \A i \in 1 .. v - n : all[i + (n + 1) - 1] = zero
    BY <1>2
  <2> QED
    BY <2>1, <2>2, <2>3
<1> QED
  BY <1>1, <1>2, <1>3 DEF Zeros

LEMMA GoesPieces ==
  ASSUME NEW j, NEW X, NEW f, Setting(j, X, f), NEW seqs \in Seq(Seq(ICodeOperation)),
         \A i \in 1 .. Len(seqs) : PushesOne(j, X, f, seqs[i]), NEW ts \in Seq(Shape)
  PROVE  Goes(j, X, f, Concatenated(seqs), Normal(ts), Normal(Words(ts, Len(seqs))))
<1>1. PICK n \in Nat : n = Len(seqs)
  OBVIOUS
<1> DEFINE ks == [i \in 0 .. n |-> Normal(Words(ts, i))]
<1>2. \A i \in 0 .. n : ks[i] = Normal(Words(ts, i)) /\ ks[i] \in Knowledge
  BY WordsFacts, NormalTypes
<1>3. ks \in [0 .. n -> Knowledge]
  BY <1>2
<1>4. ASSUME NEW i \in 1 .. n
      PROVE  Goes(j, X, f, seqs[i], ks[i - 1], ks[i])
  <2>1. PICK m \in Nat : m = i - 1
    OBVIOUS
  <2>2. /\ i = m + 1 /\ i \in Nat
        /\ ks[m] = Normal(Words(ts, m)) /\ ks[i] = Normal(Words(ts, i))
    BY <1>2, <2>1
  <2>3. Words(ts, m) \in Seq(Shape) /\ Append(Words(ts, m), AWord) = Words(ts, i)
    <3>1. Words(ts, m) \in Seq(Shape)
      BY WordsFacts
    <3>2. Append(Words(ts, m), AWord) = Words(ts, i)
      BY <2>2, OneMoreWord
    <3> QED
      BY <3>1, <3>2
  <2>4. Goes(j, X, f, seqs[i], Normal(Words(ts, m)), Normal(Append(Words(ts, m), AWord)))
    BY <1>1, <2>3 DEF PushesOne
  <2> QED
    BY <2>1, <2>2, <2>3, <2>4
<1> HIDE DEF ks
<1>5. Goes(j, X, f, Concatenated(seqs), ks[0], ks[n])
  BY <1>1, <1>3, <1>4, GoesConcatenated
<1>6. Words(ts, 0) = ts
  <2>1. PICK m \in Nat : m = 0
    OBVIOUS
  <2>2. /\ Words(ts, m) \in Seq(Shape) /\ Len(Words(ts, m)) = Len(ts) + m
        /\ \A i \in 1 .. Len(ts) : Words(ts, m)[i] = ts[i]
    BY WordsFacts
  <2>3. Len(Words(ts, m)) = Len(ts)
    BY <2>1, <2>2
  <2> QED
    BY <2>1, <2>2, <2>3, SeqEqual
<1>7. ks[0] = Normal(ts) /\ ks[n] = Normal(Words(ts, n))
  BY <1>2, <1>6
<1> QED
  BY <1>1, <1>5, <1>7

LEMMA GoesCall ==
  ASSUME NEW j, NEW X, NEW f, Setting(j, X, f), NEW ts \in Seq(Shape),
         NEW g \in FunctionNames(j.prog), NEW v \in Nat, v = Prog_func(j.prog, g).num_vars,
         NEW args \in Seq(Seq(ICodeOperation)), Len(args) <= v,
         \A i \in 1 .. Len(args) : PushesOne(j, X, f, args[i])
  PROVE  Goes(j, X, f, CallCode(v, Zeros(v, Len(args)), args, FuncLabel(0, g)),
              Normal(ts), WithValue(ts))
<1>1. PICK n \in Nat : n = Len(args)
  OBVIOUS
<1>2. PICK z \in Nat : z = v - n
  BY <1>1
<1>3. PICK us \in Seq(Shape) :
        /\ us = Append(ts, Cell(-1))
        /\ Len(us) = Len(ts) + 1 /\ us[Len(ts) + 1] = Cell(-1)
        /\ \A i \in 1 .. Len(ts) : us[i] = ts[i]
  <2>1. PICK x \in Shape : x = Cell(-1)
    BY ShapeTypes
  <2> QED
    BY <2>1, OneMoreShape
<1>4. PICK ws \in Seq(Shape) :
        /\ ws = Append(us, ReturnAddress)
        /\ Len(ws) = Len(us) + 1 /\ ws[Len(us) + 1] = ReturnAddress
        /\ \A i \in 1 .. Len(us) : ws[i] = us[i]
  BY ShapeTypes, OneMoreShape
<1>5. PICK xs \in Seq(Shape) : xs = Words(ws, z) /\ Len(xs) = Len(ws) + z
  BY WordsFacts
<1>6. PICK ys \in Seq(Shape) : ys = Words(xs, n) /\ Len(ys) = Len(xs) + n
  BY WordsFacts
<1>7. LinksOnTop(ws, ts)
  <2>1. PICK k \in Nat : k = Len(ts)
    OBVIOUS
  <2>2. /\ Len(us) = k + 1 /\ Len(ws) = k + 2
        /\ ws[k + 1] = Cell(-1) /\ ws[k + 2] = ReturnAddress
        /\ \A i \in 1 .. k : ws[i] = ts[i]
    <3>1. Len(us) = k + 1 /\ Len(ws) = k + 2 /\ k + 1 \in 1 .. Len(us) /\ (k + 1) + 1 = k + 2
          /\ \A i \in 1 .. k : i \in 1 .. Len(us)
      BY <1>3, <1>4, <2>1
    <3> QED
      BY <1>3, <1>4, <2>1, <3>1
  <2> QED
    BY <2>1, <2>2 DEF LinksOnTop
<1>8. FrameOnTop(ys, ws, v)
  <2>1. Len(ws) \in Nat /\ Len(xs) = Len(ws) + z /\ Len(ys) = Len(xs) + n /\ z + n = v
    <3>1. Len(ws) \in Nat
      BY <1>4
    <3>2. z + n = v
      BY <1>1, <1>2
    <3> QED
      BY <1>5, <1>6, <3>1, <3>2
  <2>2. \A i \in 1 .. Len(ws) : ys[i] = ws[i]
    <3>1. \A i \in 1 .. Len(ws) : i \in 1 .. Len(xs)
      BY <2>1
    <3>2. \A i \in 1 .. Len(xs) : ys[i] = xs[i]
      BY <1>6, WordsFacts
    <3>3. \A i \in 1 .. Len(ws) : xs[i] = ws[i]
      BY <1>5, WordsFacts
    <3> QED
      BY <3>1, <3>2, <3>3
  <2>3. ASSUME NEW i \in Len(ws) + 1 .. Len(ys)
        PROVE  ys[i] = AWord
    <3>1. CASE i <= Len(xs)
      <4>1. i \in 1 .. Len(xs) /\ i \in Len(ws) + 1 .. Len(ws) + z
        BY <2>1, <3>1
      <4>2. ys[i] = xs[i]
        BY <1>6, <4>1, WordsFacts
      <4> QED
        BY <1>5, <4>1, <4>2, WordsFacts
    <3>2. CASE ~(i <= Len(xs))
      <4>1. i \in Len(xs) + 1 .. Len(xs) + n
        BY <2>1, <3>2
      <4> QED
        BY <1>6, <4>1, WordsFacts
    <3> QED
      BY <3>1, <3>2
  <2>4. Len(ys) = Len(ws) + v
    BY <2>1
  <2>5. \A i \in Len(ws) + 1 .. Len(ys) : Written(ys[i])
    <3>1. Written(AWord)
      BY DEF Written, AWord
    <3> QED
      BY <2>3, <3>1
  <2> QED
    BY <2>2, <2>4, <2>5 DEF FrameOnTop
<1> DEFINE before == Known(ys, Cell(Len(ys)), Cell(Len(ys) - 1), ReturnAddress, AnyThing, Const(1))
           after  == Known(ws, Cell(Len(ys)), Cell(Len(ys) - 1), AnyThing, AWord, AnyThing)
           zeros  == Zeros(v, Len(args))
<1>9. Goes(j, X, f, Push(FRAME_POINTER), Normal(ts), Normal(us))
  BY <1>3, GoesPushing
<1>10. Goes(j, X, f, Push(RETURN_ADDRESS), Normal(us), Normal(ws))
  BY <1>4, GoesPushing
<1>11. Goes(j, X, f, Concatenated(zeros), Normal(ws), Normal(xs))
  <2>1. PushesOne(j, X, f, PushZero)
    BY GoesPushing DEF PushesOne
  <2>2. PushZero \in Seq(ICodeOperation)
    BY GoesPushing DEF Goes
  <2>3. zeros = [i \in 1 .. z |-> PushZero]
    <3>1. n \in 0 .. v
      BY <1>1, Len(args) <= v
    <3>2. Zeros(v, n) = [i \in 1 .. v - n |-> PushZero]
      BY <3>1, ZerosAre
    <3> QED
      BY <1>1, <1>2, <3>2
  <2>4. zeros \in Seq(Seq(ICodeOperation)) /\ Len(zeros) = z
    BY <2>2, <2>3
  <2>5. \A i \in 1 .. z : zeros[i] = PushZero
    BY <2>3
  <2> HIDE DEF zeros
  <2> QED
    BY <1>5, <2>1, <2>4, <2>5, GoesPieces
<1>12. Goes(j, X, f, Concatenated(args), Normal(xs), Normal(ys))
  BY <1>1, <1>6, GoesPieces
<1>13. Goes(j, X, f, EnterFrame, Normal(ys), before)
  BY GoesEnterFrame
<1>14. Goes(j, X, f, <<ICodeOperation_init("JUMPLINK", g, 0)>>, before, after)
  BY <1>8, GoesJumpLink
<1>15. Goes(j, X, f, LeaveFrame(v), after, WithValue(ts))
  <2>1. Len(ys) = Len(ws) + v
    BY <1>8 DEF FrameOnTop
  <2>2. PICK fp \in Shape : fp = Cell(Len(ys) - 1)
    BY ShapeTypes
  <2>3. Goes(j, X, f, LeaveFrame(v), Known(ws, Cell(Len(ws) + v), fp, AnyThing, AWord, AnyThing),
             WithValue(ts))
    BY <1>7, GoesLeaveFrame
  <2> QED
    BY <2>1, <2>2, <2>3
<1> HIDE DEF before, after, zeros
<1>16. FuncLabel(0, g) = g
  BY DEF FuncLabel, FunctionNames
<1>17. Goes(j, X, f, Push(FRAME_POINTER) \o Push(RETURN_ADDRESS), Normal(ts), Normal(ws))
  BY <1>9, <1>10, GoesThen
<1>18. Goes(j, X, f, Push(FRAME_POINTER) \o Push(RETURN_ADDRESS) \o Concatenated(zeros),
            Normal(ts), Normal(xs))
  BY <1>11, <1>17, GoesThen
<1>19. Goes(j, X, f, Push(FRAME_POINTER) \o Push(RETURN_ADDRESS) \o Concatenated(zeros)
              \o Concatenated(args), Normal(ts), Normal(ys))
  BY <1>12, <1>18, GoesThen
<1>20. Goes(j, X, f, Push(FRAME_POINTER) \o Push(RETURN_ADDRESS) \o Concatenated(zeros)
              \o Concatenated(args) \o EnterFrame, Normal(ts), before)
  BY <1>13, <1>19, GoesThen
<1>21. Goes(j, X, f, Push(FRAME_POINTER) \o Push(RETURN_ADDRESS) \o Concatenated(zeros)
              \o Concatenated(args) \o EnterFrame \o <<ICodeOperation_init("JUMPLINK", g, 0)>>,
            Normal(ts), after)
  BY <1>14, <1>20, GoesThen
<1>22. Goes(j, X, f, Push(FRAME_POINTER) \o Push(RETURN_ADDRESS) \o Concatenated(zeros)
              \o Concatenated(args) \o EnterFrame \o <<ICodeOperation_init("JUMPLINK", g, 0)>>
              \o LeaveFrame(v), Normal(ts), WithValue(ts))
  BY <1>15, <1>21, GoesThen
<1> QED
  BY <1>16, <1>22 DEF CallCode, zeros

(* ----------------------------- Expressions ------------------------------ *)
(* The table of a function of a job. *)
TableOf(j, f, t) == IsTable(j.prog, Prog_func(j.prog, f), t)

ExprGoes(j, X, f, t, e) ==
  \A ts \in Seq(Shape) : Goes(j, X, f, t.expr_code[e], Normal(ts), WithValue(ts))

IsCall(prog, t, e, args) ==
  LET room == Prog_func(prog, e.num).num_vars
  IN  /\ args = [i \in 1 .. Len(e.args) |->
                   t.expr_code[e.args[Len(e.args) + 1 - i]] \o Push(ACCUMULATOR)]
      /\ t.expr_code[e] =
           CallCode(room, Zeros(room, Len(e.args)), args, FuncLabel(0, e.num))

LEMMA ExprCodeIs ==
  ASSUME NEW prog, NEW room, NEW t, ExprCalls(prog, room, t), NEW e \in t.exprs
  PROVE  /\ e.type = "Int" =>
              t.expr_code[e] = <<ICodeOperation_init("LOADIMM", e.num, ACCUMULATOR)>>
         /\ e.type = "Var" => t.expr_code[e] = LoadVariable(e.num)
         /\ e.type = "Add" =>
              t.expr_code[e] = BinaryCode(t.expr_code[e.expr2], t.expr_code[e.expr1], "ADD")
         /\ e.type = "Sub" =>
              t.expr_code[e] = BinaryCode(t.expr_code[e.expr2], t.expr_code[e.expr1], "SUB")
         /\ e.type = "Call" =>
              \E args : IsCall(prog, t, e, args)
<1>1. e.type \in {"Int", "Var", "Add", "Sub", "Call"}
  BY DEF ExprCalls
<1>2. LET Code(inner) == t.expr_code[inner]
      IN  t.expr_code[e] = ExprCode(prog, e, 0, Code)
  BY DEF ExprCalls
<1>3. CASE e.type = "Int"
  BY <1>2, <1>3 DEF ExprCode
<1>4. CASE e.type = "Var"
  BY <1>2, <1>4 DEF ExprCode
<1>5. CASE e.type = "Add"
  BY <1>2, <1>5 DEF ExprCode
<1>6. CASE e.type = "Sub"
  BY <1>2, <1>6 DEF ExprCode
<1>7. CASE e.type = "Call"
  BY <1>2, <1>7 DEF ExprCode, PushedArguments, IsCall
<1> QED
  BY <1>1, <1>3, <1>4, <1>5, <1>6, <1>7

LEMMA GoesBinary ==
  ASSUME NEW j, NEW X, NEW f, Setting(j, X, f), NEW t, NEW e1, NEW e2,
         ExprGoes(j, X, f, t, e1), ExprGoes(j, X, f, t, e2), NEW opc \in {"ADD", "SUB"},
         NEW ts \in Seq(Shape)
  PROVE  Goes(j, X, f, BinaryCode(t.expr_code[e2], t.expr_code[e1], opc), Normal(ts),
              WithValue(ts))
<1> DEFINE rhs == t.expr_code[e2]
           lhs == t.expr_code[e1]
           op  == <<ICodeOperation_init(opc, ACCUMULATOR, TEMPORARY)>>
<1>1. PICK us \in Seq(Shape) : us = Append(ts, AWord)
  BY ShapeTypes, OneMoreShape
<1>2. Goes(j, X, f, rhs, Normal(ts), WithValue(ts)) /\ Goes(j, X, f, lhs, Normal(us), WithValue(us))
  BY DEF ExprGoes
<1>3. Goes(j, X, f, Push(ACCUMULATOR), WithValue(ts), Normal(us))
  BY <1>1, GoesPushing
<1>4. PICK k : /\ Goes(j, X, f, Pop(TEMPORARY), WithValue(us), k)
               /\ Goes(j, X, f, op, k, WithValue(ts))
  BY <1>1, GoesBinaryEnd
<1> HIDE DEF rhs, lhs, op
<1>5. Goes(j, X, f, rhs \o Push(ACCUMULATOR), Normal(ts), Normal(us))
  BY <1>2, <1>3, GoesThen
<1>6. Goes(j, X, f, rhs \o Push(ACCUMULATOR) \o lhs, Normal(ts), WithValue(us))
  BY <1>2, <1>5, GoesThen
<1>7. Goes(j, X, f, rhs \o Push(ACCUMULATOR) \o lhs \o Pop(TEMPORARY), Normal(ts), k)
  BY <1>4, <1>6, GoesThen
<1>8. Goes(j, X, f, rhs \o Push(ACCUMULATOR) \o lhs \o Pop(TEMPORARY) \o op, Normal(ts),
           WithValue(ts))
  BY <1>4, <1>7, GoesThen
<1> QED
  BY <1>8 DEF BinaryCode, rhs, lhs, op

LEMMA GoesInt ==
  ASSUME NEW j, NEW X, NEW f, Setting(j, X, f), NEW n \in Int, NEW ts \in Seq(Shape)
  PROVE  Goes(j, X, f, <<ICodeOperation_init("LOADIMM", n, ACCUMULATOR)>>, Normal(ts),
              WithValue(ts))
<1> DEFINE k == Known(ts, Cell(Len(ts)), Cell(-1), ReturnAddress, Const(n), AnyThing)
<1>1. With(Normal(ts), ACCUMULATOR, Const(n)) = k
  BY KnownWith DEF Normal
<1>2. Normal(ts) \in Knowledge /\ WithValue(ts) \in Knowledge
  BY NormalTypes
<1>3. Enough(WithValue(ts), k)
  <2>1. /\ Const(n) \in Shape /\ AnyThing \in Shape /\ Written(Const(n))
        /\ Weakens(ReturnAddress, ReturnAddress) /\ \A i \in 1 .. Len(ts) : Weakens(ts[i], ts[i])
    BY ShapeTypes DEF Written, Const, Weakens
  <2> QED
    BY <2>1, EnoughForNormal
<1> HIDE DEF k
<1>4. Goes(j, X, f, <<ICodeOperation_init("LOADIMM", n, ACCUMULATOR)>>, Normal(ts), k)
  BY <1>1, <1>2, NamedThere, GoesLoadImm
<1> QED
  BY <1>2, <1>3, <1>4, GoesWeaker

LEMMA GoesExpr ==
  ASSUME NEW j, NEW X, NEW f, Setting(j, X, f), NEW t, TableOf(j, f, t), NEW e \in t.exprs
  PROVE  ExprGoes(j, X, f, t, e)
<1>1. /\ t.expr_code \in [t.exprs -> Seq(ICodeOperation)]
      /\ t.expr_depth \in [t.exprs -> Nat]
      /\ ExprCalls(j.prog, Prog_func(j.prog, f).num_vars, t)
  BY DEF TableOf, IsTable
<1> DEFINE S == {d \in Nat : \A x \in t.exprs : t.expr_depth[x] < d => ExprGoes(j, X, f, t, x)}
<1>2. 0 \in S
  BY <1>1
<1>3. ASSUME NEW d \in Nat, d \in S, NEW x \in t.exprs, t.expr_depth[x] < d + 1
      PROVE  ExprGoes(j, X, f, t, x)
  <2>1. ASSUME NEW y, ExprInside(t, x, y)
        PROVE  ExprGoes(j, X, f, t, y)
    <3>1. y \in t.exprs /\ t.expr_depth[y] < d
      BY <1>1, <1>3, <2>1 DEF ExprInside
    <3> QED
      BY <1>3, <3>1
  <2> HIDE DEF S
  <2> SUFFICES ASSUME NEW ts \in Seq(Shape)
               PROVE  Goes(j, X, f, t.expr_code[x], Normal(ts), WithValue(ts))
    BY DEF ExprGoes
  <2>2. CASE x.type = "Int"
    <3>1. t.expr_code[x] = <<ICodeOperation_init("LOADIMM", x.num, ACCUMULATOR)>>
      BY <1>1, <2>2, ExprCodeIs
    <3>2. x.num \in Int
      <4>1. PICK op : op = ICodeOperation_init("LOADIMM", x.num, ACCUMULATOR)
        OBVIOUS
      <4>2. <<op>> \in Seq(ICodeOperation) /\ Len(<<op>>) = 1 /\ <<op>>[1] = op
        BY <1>1, <3>1, <4>1
      <4>3. op \in ICodeOperation
        BY <4>2
      <4> QED
        BY <4>1, <4>3 DEF ICodeOperation, ICodeOperation_init
    <3> QED
      BY <3>1, <3>2, GoesInt
  <2>3. CASE x.type = "Var"
    <3>1. t.expr_code[x] = LoadVariable(x.num)
      BY <1>1, <2>3, ExprCodeIs
    <3>2. x.num \in 0 .. Prog_func(j.prog, f).num_vars - 1
      BY <1>1, <2>3 DEF ExprCalls
    <3> QED
      BY <3>1, <3>2, GoesLoadVariable
  <2>4. CASE x.type = "Add"
    <3>1. t.expr_code[x] = BinaryCode(t.expr_code[x.expr2], t.expr_code[x.expr1], "ADD")
      BY <1>1, <2>4, ExprCodeIs
    <3>2. ExprInside(t, x, x.expr1) /\ ExprInside(t, x, x.expr2)
      BY <1>1, <2>4 DEF ExprCalls
    <3> QED
      BY <2>1, <3>1, <3>2, GoesBinary
  <2>5. CASE x.type = "Sub"
    <3>1. t.expr_code[x] = BinaryCode(t.expr_code[x.expr2], t.expr_code[x.expr1], "SUB")
      BY <1>1, <2>5, ExprCodeIs
    <3>2. ExprInside(t, x, x.expr1) /\ ExprInside(t, x, x.expr2)
      BY <1>1, <2>5 DEF ExprCalls
    <3> QED
      BY <2>1, <3>1, <3>2, GoesBinary
  <2>6. CASE x.type = "Call"
    <3>0. PICK args : IsCall(j.prog, t, x, args)
      BY <1>1, <2>6, ExprCodeIs
    <3>1. /\ args = [i \in 1 .. Len(x.args) |->
                       t.expr_code[x.args[Len(x.args) + 1 - i]] \o Push(ACCUMULATOR)]
          /\ t.expr_code[x] = CallCode(Prog_func(j.prog, x.num).num_vars,
                                       Zeros(Prog_func(j.prog, x.num).num_vars, Len(x.args)),
                                       args, FuncLabel(0, x.num))
      BY <3>0 DEF IsCall
    <3>2. /\ x.num \in FunctionNames(j.prog) /\ x.args \in Seq(t.exprs)
          /\ Len(x.args) <= Prog_func(j.prog, x.num).num_vars
          /\ \A i \in DOMAIN x.args : ExprInside(t, x, x.args[i])
      BY <1>1, <2>6 DEF ExprCalls
    <3>3. PICK n \in Nat : n = Len(x.args)
      BY <3>2
    <3>4. PICK v \in Nat : v = Prog_func(j.prog, x.num).num_vars
      BY <3>2 DEF Setting, Functional
    <3>5. ASSUME NEW i \in 1 .. n
          PROVE  PushesOne(j, X, f, args[i])
      <4>1. PICK y : y = x.args[n + 1 - i]
        OBVIOUS
      <4>2. n + 1 - i \in DOMAIN x.args
        BY <3>2, <3>3
      <4>3. ExprGoes(j, X, f, t, y)
        BY <2>1, <3>2, <4>1, <4>2
      <4>4. args[i] = t.expr_code[y] \o Push(ACCUMULATOR)
        BY <3>1, <3>3, <4>1
      <4>5. ASSUME NEW us \in Seq(Shape)
            PROVE  Goes(j, X, f, args[i], Normal(us), Normal(Append(us, AWord)))
        <5>1. Goes(j, X, f, t.expr_code[y], Normal(us), WithValue(us))
          BY <4>3 DEF ExprGoes
        <5>2. Goes(j, X, f, Push(ACCUMULATOR), WithValue(us), Normal(Append(us, AWord)))
          BY GoesPushing
        <5> QED
          BY <4>4, <5>1, <5>2, GoesThen
      <4> QED
        BY <4>5 DEF PushesOne
    <3>6. args \in Seq(Seq(ICodeOperation)) /\ Len(args) = n
      <4>1. \A i \in 1 .. n : args[i] \in Seq(ICodeOperation)
        <5> SUFFICES ASSUME NEW i \in 1 .. n
                     PROVE  args[i] \in Seq(ICodeOperation)
          OBVIOUS
        <5>1. PushesOne(j, X, f, args[i]) /\ <<>> \in Seq(Shape)
          BY <3>5
        <5> QED
          BY <5>1 DEF PushesOne, Goes
      <4>2. args = [i \in 1 .. n |-> args[i]]
        BY <3>1, <3>3
      <4> QED
        BY <4>1, <4>2
    <3> QED
      BY <3>1, <3>2, <3>3, <3>4, <3>5, <3>6, GoesCall
  <2> QED
    BY <1>1, <2>2, <2>3, <2>4, <2>5, <2>6 DEF ExprCalls
<1>4. \A d \in Nat : d \in S => d + 1 \in S
  BY <1>3
<1>5. PICK d \in Nat : d = t.expr_depth[e] + 1
  BY <1>1
<1>6. t.expr_depth[e] < d
  BY <1>1, <1>5
<1> HIDE DEF S
<1>7. d \in S
  BY <1>2, <1>4, SetInduction
<1> QED
  BY <1>6, <1>7 DEF S

(* ------------------------------ Commands -------------------------------- *)
(* The label numbers of a job are used for one label each. *)
UniqueLabels(j) ==
  \A a \in Addresses(j.code), b \in Addresses(j.code) :
    /\ OperationAt(j.code, a).opc = "LABEL" /\ OperationAt(j.code, b).opc = "LABEL"
    /\ OperationAt(j.code, a).arg1 = OperationAt(j.code, b).arg1
    => a = b

LEMMA TheSite ==
  ASSUME NEW j, UniqueLabels(j), NEW a \in Addresses(j.code), NEW n,
         OperationAt(j.code, a) = ICodeOperation_init("LABEL", n, 0)
  PROVE  LabelSites(j.code, n) = {a}
<1>1. OperationAt(j.code, a).opc = "LABEL" /\ OperationAt(j.code, a).arg1 = n
  BY DEF ICodeOperation_init
<1>2. a \in LabelSites(j.code, n)
  BY <1>1 DEF LabelSites
<1>3. \A b \in LabelSites(j.code, n) : b = a
  BY <1>1 DEF LabelSites, UniqueLabels
<1> QED
  BY <1>2, <1>3

(* Where a function has nothing on the stack. *)
Clean == Normal(<<>>)
CleanWithValue == WithValue(<<>>)

LEMMA CleanFacts ==
  /\ Clean \in Knowledge /\ CleanWithValue \in Knowledge
  /\ Enough(Clean, CleanWithValue)
  /\ Clean.regs[STACK_POINTER] = Cell(0) /\ Clean.regs[FRAME_POINTER] = Cell(-1)
  /\ CleanWithValue.regs[STACK_POINTER] = Cell(0) /\ CleanWithValue.regs[FRAME_POINTER] = Cell(-1)
  /\ CleanWithValue.regs[RETURN_ADDRESS] = ReturnAddress
  /\ CleanWithValue.regs[ACCUMULATOR] = AWord
<1>1. <<>> \in Seq(Shape) /\ Len(<<>>) = 0
  OBVIOUS
<1>2. PICK ts \in Seq(Shape) : ts = <<>> /\ Len(ts) = 0
  BY <1>1
<1>3. Normal(ts) \in Knowledge /\ WithValue(ts) \in Knowledge
  BY NormalTypes
<1>4. /\ Normal(ts).regs[STACK_POINTER] = Cell(0) /\ Normal(ts).regs[FRAME_POINTER] = Cell(-1)
      /\ WithValue(ts).regs[STACK_POINTER] = Cell(0) /\ WithValue(ts).regs[FRAME_POINTER] = Cell(-1)
      /\ WithValue(ts).regs[RETURN_ADDRESS] = ReturnAddress
      /\ WithValue(ts).regs[ACCUMULATOR] = AWord
  BY <1>2, KnownThere DEF Normal, WithValue
<1>5. Enough(Normal(ts), WithValue(ts))
  <2>1. /\ AWord \in Shape /\ AnyThing \in Shape /\ Weakens(ReturnAddress, ReturnAddress)
        /\ \A i \in 1 .. Len(ts) : Weakens(ts[i], ts[i])
    BY ShapeTypes DEF Weakens
  <2> QED
    BY <2>1, EnoughForNormal DEF WithValue
<1> QED
  BY <1>2, <1>3, <1>4, <1>5 DEF Clean, CleanWithValue

LEMMA CleanPoints ==
  ASSUME NEW j, NEW X, NEW f, Setting(j, X, f), NEW a \in Nat,
         NEW k, k = Clean \/ k = CleanWithValue, NEW p, p = There(f, a, k)
  PROVE  /\ p \in Point /\ p.func \in FunctionNames(j.prog) /\ p.at = a
         /\ p.regs = k.regs
         /\ p.regs[STACK_POINTER] = Cell(0) /\ p.regs[FRAME_POINTER] = Cell(-1)
         /\ \A b : MovedTo(p, b) = There(f, b, k)
         /\ Forward(p) = There(f, a + 1, k)
         /\ OpAt(j, p) = OperationAt(j.code, a)
<1>1. p \in Point
  BY CleanFacts, ThereType, SettingFacts
<1>2. p.func = f /\ p.at = a /\ p.regs = k.regs /\ p.temps = k.temps
  BY DEF There
<1>3. k.regs[STACK_POINTER] = Cell(0) /\ k.regs[FRAME_POINTER] = Cell(-1)
  BY CleanFacts
<1>4. \A b : MovedTo(p, b) = There(f, b, k)
  BY <1>2 DEF MovedTo, At, There
<1> QED
  BY <1>1, <1>2, <1>3, <1>4 DEF Setting, Forward, OpAt

(* Knowing that the accumulator has a word does no harm. *)
LEMMA GoodWithValue ==
  ASSUME NEW j, NEW X, NEW f, Setting(j, X, f), NEW a \in Nat, Good(j, X, There(f, a, Clean))
  PROVE  Good(j, X, There(f, a, CleanWithValue))
<1>1. There(f, a, Clean) \in Point /\ There(f, a, CleanWithValue) \in Point
  BY CleanFacts, ThereType, SettingFacts
<1>2. Covers(There(f, a, Clean), There(f, a, CleanWithValue))
  BY CleanFacts, EnoughCovers
<1> QED
  BY <1>1, <1>2, GoodCovered, SettingFacts

LEMMA GoodLabel ==
  ASSUME NEW j, NEW X, NEW f, Setting(j, X, f), NEW a \in Nat, NEW n,
         CodeAt(j, a, <<ICodeOperation_init("LABEL", n, 0)>>),
         Good(j, X, There(f, a + 1, Clean))
  PROVE  Good(j, X, There(f, a, Clean))
<1>1. PICK p : p = There(f, a, Clean)
  OBVIOUS
<1>2. OpAt(j, p) = ICodeOperation_init("LABEL", n, 0) /\ p.at \in Addresses(j.code)
  BY <1>1, OneOperation, CleanPoints, SettingFacts
<1>3. Allowed(j, p)
  BY <1>1, <1>2, CleanPoints DEF Allowed, ICodeOperation_init
<1>4. \A s : Leads(j, p, s) => s = Forward(p)
  BY <1>2 DEF Leads, ICodeOperation_init
<1>5. \A s : Leads(j, p, s) => Good(j, X, s)
  BY <1>1, <1>4, CleanPoints
<1> QED
  BY <1>1, <1>2, <1>3, <1>5, GoodBefore, CleanPoints

(* A loop at a label, when what follows the label is good, if the loop is. *)
LEMMA GoodHead ==
  ASSUME NEW j, NEW X, NEW f, Setting(j, X, f), NEW a \in Nat, NEW n,
         CodeAt(j, a, <<ICodeOperation_init("LABEL", n, 0)>>),
         Good(j, X \cup {There(f, a, Clean)}, There(f, a + 1, Clean))
  PROVE  Good(j, X, There(f, a, Clean))
<1>1. PICK p : p = There(f, a, Clean)
  OBVIOUS
<1>2. OpAt(j, p) = ICodeOperation_init("LABEL", n, 0) /\ p.at \in Addresses(j.code)
  BY <1>1, OneOperation, CleanPoints, SettingFacts
<1>3. Allowed(j, p)
  BY <1>1, <1>2, CleanPoints DEF Allowed, ICodeOperation_init
<1>4. \A s : Leads(j, p, s) => s = Forward(p)
  BY <1>2 DEF Leads, ICodeOperation_init
<1>5. \A s : Leads(j, p, s) => Good(j, X \cup {p}, s)
  BY <1>1, <1>4, CleanPoints
<1> QED
  BY <1>1, <1>2, <1>3, <1>5, GoodLoop, CleanPoints

LEMMA GoodJump ==
  ASSUME NEW j, NEW X, NEW f, Setting(j, X, f), NEW a \in Nat, NEW n, NEW b,
         CodeAt(j, a, <<ICodeOperation_init("JUMP", n, 0)>>), LabelSites(j.code, n) = {b},
         Good(j, X, There(f, b, Clean))
  PROVE  Good(j, X, There(f, a, Clean))
<1>1. PICK p : p = There(f, a, Clean)
  OBVIOUS
<1>2. OpAt(j, p) = ICodeOperation_init("JUMP", n, 0) /\ p.at \in Addresses(j.code)
  BY <1>1, OneOperation, CleanPoints, SettingFacts
<1>3. Allowed(j, p)
  BY <1>2 DEF Allowed, ICodeOperation_init
<1>4. \A s : Leads(j, p, s) => s = MovedTo(p, b)
  BY <1>2 DEF Leads, ICodeOperation_init
<1>5. \A s : Leads(j, p, s) => Good(j, X, s)
  BY <1>1, <1>4, CleanPoints
<1> QED
  BY <1>1, <1>2, <1>3, <1>5, GoodBefore, CleanPoints

LEMMA GoodJumpCond ==
  ASSUME NEW j, NEW X, NEW f, Setting(j, X, f), NEW a \in Nat, NEW n, NEW b,
         CodeAt(j, a, <<ICodeOperation_init("JUMPCOND", n, ACCUMULATOR)>>),
         LabelSites(j.code, n) = {b},
         Good(j, X, There(f, b, CleanWithValue)), Good(j, X, There(f, a + 1, CleanWithValue))
  PROVE  Good(j, X, There(f, a, CleanWithValue))
<1>1. PICK p : p = There(f, a, CleanWithValue)
  OBVIOUS
<1>2. OpAt(j, p) = ICodeOperation_init("JUMPCOND", n, ACCUMULATOR) /\ p.at \in Addresses(j.code)
  BY <1>1, OneOperation, CleanPoints, SettingFacts
<1>3. Written(p.regs[ACCUMULATOR])
  <2>1. p.regs[ACCUMULATOR] = AWord
    BY <1>1, CleanFacts, CleanPoints
  <2> QED
    BY <2>1 DEF Written, AWord
<1>4. Allowed(j, p)
  BY <1>2, <1>3, NamedThere DEF Allowed, ICodeOperation_init
<1>5. \A s : Leads(j, p, s) => s = MovedTo(p, b) \/ s = Forward(p)
  BY <1>2 DEF Leads, ICodeOperation_init
<1>6. \A s : Leads(j, p, s) => Good(j, X, s)
  BY <1>1, <1>5, CleanPoints
<1> QED
  BY <1>1, <1>2, <1>4, <1>6, GoodBefore, CleanPoints

LEMMA GoodReturn ==
  ASSUME NEW j, NEW X, NEW f, Setting(j, X, f), NEW a \in Nat,
         CodeAt(j, a, <<ICodeOperation_init("JUMPADDR", RETURN_ADDRESS, 0)>>)
  PROVE  Good(j, X, There(f, a, CleanWithValue))
<1>1. PICK p : p = There(f, a, CleanWithValue)
  OBVIOUS
<1>2. OpAt(j, p) = ICodeOperation_init("JUMPADDR", RETURN_ADDRESS, 0) /\ p.at \in Addresses(j.code)
  BY <1>1, OneOperation, CleanPoints, SettingFacts
<1>3. Written(p.regs[ACCUMULATOR]) /\ p.regs[RETURN_ADDRESS] = ReturnAddress
  <2>1. p.regs[ACCUMULATOR] = AWord /\ p.regs[RETURN_ADDRESS] = ReturnAddress
    BY <1>1, CleanFacts, CleanPoints
  <2> QED
    BY <2>1 DEF Written, AWord
<1>4. Allowed(j, p)
  BY <1>1, <1>2, <1>3, CleanPoints DEF Allowed, ICodeOperation_init
<1>5. \A s : ~Leads(j, p, s)
  BY <1>2 DEF Leads, ICodeOperation_init
<1> QED
  BY <1>1, <1>2, <1>4, <1>5, GoodBefore, CleanPoints

(* Where the pieces of a loop are. *)
LoopAt(j, guard, body, n, a, c, d) ==
  /\ CodeAt(j, a, <<ICodeOperation_init("LABEL", n, 0)>>)
  /\ CodeAt(j, a + 1, guard) /\ c = (a + 1) + Len(guard)
  /\ CodeAt(j, c, <<ICodeOperation_init("JUMPCOND", n + 1, ACCUMULATOR)>>)
  /\ CodeAt(j, c + 1, body) /\ d = (c + 1) + Len(body)
  /\ CodeAt(j, d, <<ICodeOperation_init("JUMP", n, 0)>>)
  /\ CodeAt(j, d + 1, <<ICodeOperation_init("LABEL", n + 1, 0)>>)
  /\ a + Len(WhileCode(guard, body, n)) = (d + 1) + 1

(* q is o and then p. *)
Joins(q, o, p) == q = o \o p

LEMMA JoinsFacts ==
  ASSUME NEW o \in Seq(ICodeOperation), NEW p \in Seq(ICodeOperation), NEW q, Joins(q, o, p)
  PROVE  /\ q \in Seq(ICodeOperation)
         /\ Len(q) = Len(o) + Len(p) /\ Len(o) \in Nat /\ Len(p) \in Nat
BY DEF Joins

LEMMA JoinedAt ==
  ASSUME NEW j, Len(j.code) \in Nat, NEW o \in Seq(ICodeOperation),
         NEW p \in Seq(ICodeOperation), NEW q, Joins(q, o, p), NEW a \in Nat, CodeAt(j, a, q),
         NEW b, b = a + Len(o)
  PROVE  CodeAt(j, a, o) /\ CodeAt(j, b, p) /\ a + Len(q) = b + Len(p)
BY CodeSplit DEF Joins

LEMMA TwoAt ==
  ASSUME NEW j, Len(j.code) \in Nat, NEW x, NEW y, NEW a \in Nat, CodeAt(j, a, <<x, y>>)
  PROVE  CodeAt(j, a, <<x>>) /\ CodeAt(j, a + 1, <<y>>)
<1>1. /\ Len(<<x, y>>) = 2 /\ <<x, y>>[1] = x /\ <<x, y>>[2] = y
      /\ Len(<<x>>) = 1 /\ <<x>>[1] = x /\ Len(<<y>>) = 1 /\ <<y>>[1] = y
  OBVIOUS
<1>2. a + 2 <= Len(j.code) /\ j.code[a + 1] = x /\ j.code[a + 2] = y
  BY <1>1 DEF CodeAt
<1>3. CodeAt(j, a, <<x>>)
  BY <1>1, <1>2 DEF CodeAt
<1>4. PICK b \in Nat : b = a + 1
  OBVIOUS
<1>5. b + 1 <= Len(j.code) /\ j.code[b + 1] = y
  BY <1>2, <1>4
<1>6. CodeAt(j, b, <<y>>)
  BY <1>1, <1>5 DEF CodeAt
<1> QED
  BY <1>3, <1>4, <1>6

LEMMA WhilePieces ==
  ASSUME NEW j, Len(j.code) \in Nat, NEW guard \in Seq(ICodeOperation),
         NEW body \in Seq(ICodeOperation), NEW n \in Int, NEW a \in Nat,
         CodeAt(j, a, WhileCode(guard, body, n))
  PROVE  \E c \in Nat, d \in Nat : LoopAt(j, guard, body, n, a, c, d)
<1>1. PICK head : head = <<ICodeOperation_init("LABEL", n, 0)>>
  OBVIOUS
<1>2. PICK cond : cond = <<ICodeOperation_init("JUMPCOND", n + 1, ACCUMULATOR)>>
  OBVIOUS
<1>3. PICK ends : ends = <<ICodeOperation_init("JUMP", n, 0),
                           ICodeOperation_init("LABEL", n + 1, 0)>>
  OBVIOUS
<1>4. /\ ICodeOperation_init("LABEL", n, 0) \in ICodeOperation
      /\ ICodeOperation_init("JUMPCOND", n + 1, ACCUMULATOR) \in ICodeOperation
      /\ ICodeOperation_init("JUMP", n, 0) \in ICodeOperation
      /\ ICodeOperation_init("LABEL", n + 1, 0) \in ICodeOperation
  BY DEF ICodeOperation, ICodeOperation_init, Opcode, ACCUMULATOR
<1>5. /\ head \in Seq(ICodeOperation) /\ cond \in Seq(ICodeOperation)
      /\ ends \in Seq(ICodeOperation)
      /\ Len(head) = 1 /\ Len(cond) = 1 /\ Len(ends) = 2
  BY <1>1, <1>2, <1>3, <1>4
<1>6. PICK o1 : Joins(o1, head, guard)
  BY DEF Joins
<1>7. PICK o2 : Joins(o2, o1, cond)
  BY DEF Joins
<1>8. PICK o3 : Joins(o3, o2, body)
  BY DEF Joins
<1>9. Joins(WhileCode(guard, body, n), o3, ends)
  BY <1>1, <1>2, <1>3, <1>6, <1>7, <1>8 DEF WhileCode, Joins
<1>10. /\ head \in Seq(ICodeOperation) /\ cond \in Seq(ICodeOperation)
      /\ ends \in Seq(ICodeOperation)
  BY <1>5
<1>11. o1 \in Seq(ICodeOperation) /\ Len(o1) = Len(head) + Len(guard) /\ Len(guard) \in Nat
  BY <1>10, <1>6, JoinsFacts
<1>12. o2 \in Seq(ICodeOperation) /\ Len(o2) = Len(o1) + Len(cond)
  BY <1>10, <1>7, <1>11, JoinsFacts
<1>13. o1 \in Seq(ICodeOperation) /\ Len(o1) = 1 + Len(guard) /\ Len(guard) \in Nat
  BY <1>5, <1>11
<1>14. o2 \in Seq(ICodeOperation) /\ Len(o2) = Len(o1) + 1
  BY <1>5, <1>12
<1>15. o3 \in Seq(ICodeOperation) /\ Len(o3) = Len(o2) + Len(body) /\ Len(body) \in Nat
  BY <1>8, <1>14, JoinsFacts
<1>16. PICK c \in Nat : c = a + Len(o1)
  BY <1>13
<1>17. PICK d \in Nat : d = a + Len(o3)
  BY <1>13, <1>14, <1>15
<1>18. /\ c = (a + 1) + Len(guard) /\ c + 1 = a + Len(o2) /\ d = (c + 1) + Len(body)
  BY <1>13, <1>14, <1>15, <1>16, <1>17
<1>19. PICK ops : ops = WhileCode(guard, body, n)
  OBVIOUS
<1>20. Joins(ops, o3, ends) /\ CodeAt(j, a, ops)
  BY <1>9, <1>19
<1>21. CodeAt(j, a, o3) /\ CodeAt(j, d, ends) /\ a + Len(ops) = d + Len(ends)
  BY <1>10, <1>15, <1>17, <1>20, JoinedAt, SMTT(30)
<1>22. /\ CodeAt(j, d, <<ICodeOperation_init("JUMP", n, 0)>>)
       /\ CodeAt(j, d + 1, <<ICodeOperation_init("LABEL", n + 1, 0)>>)
  BY <1>3, <1>21, TwoAt
<1>23. CodeAt(j, a, o2) /\ CodeAt(j, c + 1, body)
  <2>1. PICK b \in Nat : b = c + 1 /\ b = a + Len(o2)
    BY <1>18
  <2>2. CodeAt(j, a, o2) /\ CodeAt(j, b, body)
    BY <1>8, <1>14, <1>21, <2>1, JoinedAt, SMTT(30)
  <2> QED
    BY <2>1, <2>2
<1>24. CodeAt(j, a, o1) /\ CodeAt(j, c, cond)
  BY <1>10, <1>7, <1>13, <1>16, <1>23, JoinedAt
<1>25. PICK b : b = a + Len(head)
  OBVIOUS
<1>26. CodeAt(j, a, head) /\ CodeAt(j, b, guard)
  BY <1>10, <1>6, <1>24, <1>25, JoinedAt
<1>27. CodeAt(j, a, head) /\ CodeAt(j, b, guard) /\ b = a + 1
  BY <1>5, <1>25, <1>26
<1>28. a + Len(ops) = (d + 1) + 1
  BY <1>5, <1>21
<1>29. LoopAt(j, guard, body, n, a, c, d)
  BY <1>1, <1>2, <1>18, <1>19, <1>22, <1>23, <1>24, <1>27, <1>28 DEF LoopAt
<1> QED
  BY <1>29

(* A loop with a guard that leaves a value, and a body that leaves nothing. *)
LEMMA GoesWhile ==
  ASSUME NEW j, NEW X, NEW f, Setting(j, X, f), UniqueLabels(j), NEW n \in Int,
         NEW guard, \A Y : Setting(j, Y, f) => Goes(j, Y, f, guard, Clean, CleanWithValue),
         NEW body, \A Y : Setting(j, Y, f) => Goes(j, Y, f, body, Clean, Clean)
  PROVE  Goes(j, X, f, WhileCode(guard, body, n), Clean, Clean)
<1>1. guard \in Seq(ICodeOperation) /\ body \in Seq(ICodeOperation)
  BY DEF Goes
<1>2. WhileCode(guard, body, n) \in Seq(ICodeOperation)
  BY <1>1 DEF WhileCode, ICodeOperation, ICodeOperation_init, Opcode, ACCUMULATOR
<1>3. Clean \in Knowledge /\ Len(j.code) \in Nat
  BY CleanFacts, SettingFacts
<1>4. ASSUME NEW a \in Nat, CodeAt(j, a, WhileCode(guard, body, n)),
             Good(j, X, There(f, a + Len(WhileCode(guard, body, n)), Clean))
      PROVE  Good(j, X, There(f, a, Clean))
  <2>0. PICK c \in Nat, d \in Nat : LoopAt(j, guard, body, n, a, c, d)
    BY <1>1, <1>3, <1>4, WhilePieces
  <2>1. /\ CodeAt(j, a, <<ICodeOperation_init("LABEL", n, 0)>>)
        /\ CodeAt(j, a + 1, guard) /\ c = (a + 1) + Len(guard)
        /\ CodeAt(j, c, <<ICodeOperation_init("JUMPCOND", n + 1, ACCUMULATOR)>>)
        /\ CodeAt(j, c + 1, body) /\ d = (c + 1) + Len(body)
        /\ CodeAt(j, d, <<ICodeOperation_init("JUMP", n, 0)>>)
        /\ CodeAt(j, d + 1, <<ICodeOperation_init("LABEL", n + 1, 0)>>)
        /\ a + Len(WhileCode(guard, body, n)) = (d + 1) + 1
    BY <2>0 DEF LoopAt
  <2>2. LabelSites(j.code, n) = {a}
    BY <1>3, <2>1, OneOperation, TheSite
  <2>3. LabelSites(j.code, n + 1) = {d + 1}
    <3>1. PICK e \in Nat, m \in Int : e = d + 1 /\ m = n + 1
      OBVIOUS
    <3>2. CodeAt(j, e, <<ICodeOperation_init("LABEL", m, 0)>>)
      BY <2>1, <3>1
    <3>3. LabelSites(j.code, m) = {e}
      BY <1>3, <3>2, OneOperation, TheSite
    <3> QED
      BY <3>1, <3>3
  <2>4. PICK Y : Y = X \cup {There(f, a, Clean)}
    OBVIOUS
  <2>5. Setting(j, Y, f) /\ X \subseteq Y /\ There(f, a, Clean) \in Y
    <3>1. f \in Nat /\ Clean \in Knowledge
      BY <1>3, SettingFacts
    <3>2. There(f, a, Clean) \in Point
      BY <1>3, <3>1, ThereType
    <3> QED
      BY <1>3, <2>4, <3>2, SettingMore
  <2>6. Good(j, Y, There(f, d + 1, Clean))
    <3>1. Good(j, X, There(f, d + 1, Clean))
      BY <1>4, <2>1, GoodLabel
    <3> QED
      BY <2>5, <3>1, GoodAmongMore
  <2>7. Good(j, Y, There(f, d, Clean))
    <3>1. Good(j, Y, There(f, a, Clean))
      BY <2>5, GoodTaken
    <3> QED
      BY <2>1, <2>2, <2>5, <3>1, GoodJump
  <2>8. Good(j, Y, There(f, c + 1, Clean))
    <3>1. Goes(j, Y, f, body, Clean, Clean) /\ c + 1 \in Nat
      BY <2>5
    <3> QED
      BY <2>1, <2>7, <3>1 DEF Goes
  <2>9. Good(j, Y, There(f, c, CleanWithValue))
    <3>1. Good(j, Y, There(f, c + 1, CleanWithValue)) /\ Good(j, Y, There(f, d + 1, CleanWithValue))
      BY <2>5, <2>6, <2>8, GoodWithValue
    <3> QED
      BY <2>1, <2>3, <2>5, <3>1, GoodJumpCond
  <2>10. Good(j, Y, There(f, a + 1, Clean))
    <3>1. Goes(j, Y, f, guard, Clean, CleanWithValue) /\ a + 1 \in Nat
      BY <2>5
    <3> QED
      BY <2>1, <2>9, <3>1 DEF Goes
  <2> QED
    BY <2>1, <2>4, <2>10, GoodHead
<1> QED
  BY <1>2, <1>3, <1>4 DEF Goes

(* What the code of a command is made of. *)
IsWhile(t, call, body) ==
  /\ call[1].type = "While" /\ call[1].expr \in t.exprs
  /\ body = <<call[1].comm1, call[2] + 2>> /\ CommInside(t, call, body)
  /\ t.comm_code[call] =
       Generated(WhileCode(t.expr_code[call[1].expr], t.comm_code[body].code, call[2]),
                 t.comm_code[body].next_label)

IsAssign(t, room, call) ==
  /\ call[1].type = "Assign" /\ call[1].expr \in t.exprs /\ call[1].name \in 0 .. room - 1
  /\ t.comm_code[call] =
       Generated(t.expr_code[call[1].expr] \o StoreVariable(call[1].name), call[2])

IsComp(t, call, fst, snd) ==
  /\ call[1].type = "Comp"
  /\ fst = <<call[1].comm1, call[2]>> /\ CommInside(t, call, fst)
  /\ snd = <<call[1].comm2, t.comm_code[fst].next_label>> /\ CommInside(t, call, snd)
  /\ t.comm_code[call] =
       Generated(t.comm_code[fst].code \o t.comm_code[snd].code, t.comm_code[snd].next_label)

IsReturn(t, call) ==
  /\ call[1].type = "Return" /\ call[1].expr \in t.exprs
  /\ t.comm_code[call] =
       Generated(Append(t.expr_code[call[1].expr],
                        ICodeOperation_init("JUMPADDR", RETURN_ADDRESS, 0)),
                 call[2])

LEMMA CommIs ==
  ASSUME NEW room, NEW t, CommCalls(room, t), NEW call \in t.comms
  PROVE  /\ call[2] \in Int
         /\ \/ \E body : IsWhile(t, call, body)
            \/ IsAssign(t, room, call)
            \/ \E fst, snd : IsComp(t, call, fst, snd)
            \/ IsReturn(t, call)
<1> DEFINE comm == call[1]
           next_label == call[2]
           CodeOf(e) == t.expr_code[e]
           Inside(inner, label) == t.comm_code[<<inner, label>>]
<1>1. /\ next_label \in Int
      /\ comm.type \in {"While", "Assign", "Comp", "Return"}
      /\ comm.type # "Comp" => comm.expr \in t.exprs
      /\ comm.type = "Assign" => comm.name \in 0 .. room - 1
      /\ comm.type = "While" => CommInside(t, call, <<comm.comm1, next_label + 2>>)
      /\ comm.type = "Comp" =>
           /\ CommInside(t, call, <<comm.comm1, next_label>>)
           /\ CommInside(t, call, <<comm.comm2, Inside(comm.comm1, next_label).next_label>>)
  BY DEF CommCalls
<1>2. t.comm_code[call] = CommCode(comm, next_label, CodeOf, Inside)
  BY DEF CommCalls
<1>3. CASE comm.type = "While"
  <2>1. IsWhile(t, call, <<comm.comm1, next_label + 2>>)
    BY <1>1, <1>2, <1>3 DEF CommCode, IsWhile
  <2> QED
    BY <1>1, <2>1
<1>4. CASE comm.type = "Assign"
  <2>1. IsAssign(t, room, call)
    BY <1>1, <1>2, <1>4 DEF CommCode, IsAssign
  <2> QED
    BY <1>1, <2>1
<1>5. CASE comm.type = "Comp"
  <2>1. IsComp(t, call, <<comm.comm1, next_label>>,
               <<comm.comm2, Inside(comm.comm1, next_label).next_label>>)
    BY <1>1, <1>2, <1>5 DEF CommCode, IsComp
  <2> QED
    BY <1>1, <2>1
<1>6. CASE comm.type = "Return"
  <2>1. IsReturn(t, call)
    BY <1>1, <1>2, <1>6 DEF CommCode, IsReturn
  <2> QED
    BY <1>1, <2>1
<1> QED
  BY <1>1, <1>3, <1>4, <1>5, <1>6

(* The code of a command leaves nothing on the stack, wherever it is. *)
CommGoes(j, f, ops) == \A X : Setting(j, X, f) => Goes(j, X, f, ops, Clean, Clean)
ExprLeaves(j, f, ops) == \A X : Setting(j, X, f) => Goes(j, X, f, ops, Clean, CleanWithValue)

LEMMA ExprLeavesValue ==
  ASSUME NEW j, NEW f, NEW t, TableOf(j, f, t), NEW e \in t.exprs
  PROVE  ExprLeaves(j, f, t.expr_code[e])
<1> SUFFICES ASSUME NEW X, Setting(j, X, f)
             PROVE  Goes(j, X, f, t.expr_code[e], Clean, CleanWithValue)
  BY DEF ExprLeaves
<1>0. <<>> \in Seq(Shape)
  OBVIOUS
<1>1. PICK ts \in Seq(Shape) : ts = <<>>
  BY <1>0
<1>2. Goes(j, X, f, t.expr_code[e], Normal(ts), WithValue(ts))
  BY GoesExpr DEF ExprGoes
<1> QED
  BY <1>1, <1>2 DEF Clean, CleanWithValue

LEMMA GoesAssign ==
  ASSUME NEW j, NEW f, NEW ops, ExprLeaves(j, f, ops),
         NEW name \in 0 .. Prog_func(j.prog, f).num_vars - 1
  PROVE  CommGoes(j, f, ops \o StoreVariable(name))
<1> SUFFICES ASSUME NEW X, Setting(j, X, f)
             PROVE  Goes(j, X, f, ops \o StoreVariable(name), Clean, Clean)
  BY DEF CommGoes
<1>0. <<>> \in Seq(Shape)
  OBVIOUS
<1>1. PICK ts \in Seq(Shape) : ts = <<>>
  BY <1>0
<1>2. Goes(j, X, f, StoreVariable(name), WithValue(ts), Normal(ts))
  BY GoesStoreVariable
<1>3. Goes(j, X, f, StoreVariable(name), CleanWithValue, Clean)
  BY <1>1, <1>2 DEF Clean, CleanWithValue
<1>4. Goes(j, X, f, ops, Clean, CleanWithValue)
  BY DEF ExprLeaves
<1> QED
  BY <1>3, <1>4, GoesThen

(* A function may end here: nothing that follows matters. *)
Ends(j, f, ops) ==
  \A X : Setting(j, X, f) =>
    \A a \in Nat : CodeAt(j, a, ops) => Good(j, X, There(f, a, Clean))

LEMMA GoesReturn ==
  ASSUME NEW j, NEW f, NEW ops, ExprLeaves(j, f, ops)
  PROVE  LET back == Append(ops, ICodeOperation_init("JUMPADDR", RETURN_ADDRESS, 0))
         IN  CommGoes(j, f, back) /\ Ends(j, f, back)
<1> DEFINE op == ICodeOperation_init("JUMPADDR", RETURN_ADDRESS, 0)
           back == Append(ops, op)
<1>1. PICK one : one = <<op>>
  OBVIOUS
<1>2. op \in ICodeOperation
  BY DEF ICodeOperation, ICodeOperation_init, Opcode, RETURN_ADDRESS
<1>3. one \in Seq(ICodeOperation)
  BY <1>1, <1>2
<1>4. ASSUME NEW X, Setting(j, X, f)
      PROVE  /\ Goes(j, X, f, back, Clean, Clean)
             /\ \A a \in Nat : CodeAt(j, a, back) => Good(j, X, There(f, a, Clean))
  <2>1. Goes(j, X, f, ops, Clean, CleanWithValue)
    BY <1>4 DEF ExprLeaves
  <2>2. Goes(j, X, f, one, CleanWithValue, Clean)
    <3>1. \A a \in Nat : CodeAt(j, a, one) => Good(j, X, There(f, a, CleanWithValue))
      BY <1>1, <1>4, GoodReturn
    <3> HIDE DEF op
    <3> QED
      BY <1>3, <3>1, CleanFacts DEF Goes
  <2>3. Goes(j, X, f, back, Clean, Clean)
    <3> HIDE DEF op
    <3> QED
      BY <1>1, <1>4, <2>1, <2>2, GoesAppend
  <2>4. ASSUME NEW a \in Nat, CodeAt(j, a, back)
        PROVE  Good(j, X, There(f, a, Clean))
    <3>1. ops \in Seq(ICodeOperation) /\ Len(j.code) \in Nat
      BY <1>4, <2>1, SettingFacts DEF Goes
    <3> HIDE DEF op
    <3>2. PICK all : all = back
      OBVIOUS
    <3>3. Joins(all, ops, one)
      BY <1>1, <1>2, <3>1, <3>2 DEF Joins
    <3>4. PICK b \in Nat : b = a + Len(ops)
      BY <3>1
    <3>5. CodeAt(j, a, ops) /\ CodeAt(j, b, one)
      BY <1>3, <2>4, <3>1, <3>2, <3>3, <3>4, JoinedAt
    <3>6. Good(j, X, There(f, b, CleanWithValue))
      BY <1>1, <1>4, <3>5, GoodReturn DEF op
    <3> QED
      BY <2>1, <3>4, <3>5, <3>6 DEF Goes
  <2> QED
    BY <2>3, <2>4
<1> QED
  BY <1>4 DEF CommGoes, Ends

(* One command after the other. *)
LEMMA GoesComp ==
  ASSUME NEW j, NEW f, NEW o, NEW p, CommGoes(j, f, o), CommGoes(j, f, p),
         NEW X, Setting(j, X, f)
  PROVE  /\ CommGoes(j, f, o \o p)
         /\ Ends(j, f, o) \/ Ends(j, f, p) => Ends(j, f, o \o p)
<1>1. CommGoes(j, f, o \o p)
  BY GoesThen DEF CommGoes
<1>2. PICK all : all = o \o p
  OBVIOUS
<1>3. o \in Seq(ICodeOperation) /\ p \in Seq(ICodeOperation) /\ Len(j.code) \in Nat
  BY SettingFacts DEF CommGoes, Goes
<1>4. Joins(all, o, p)
  BY <1>2 DEF Joins
<1>5. ASSUME NEW Y, Setting(j, Y, f), NEW a \in Nat, CodeAt(j, a, all),
             Ends(j, f, o) \/ Ends(j, f, p)
      PROVE  Good(j, Y, There(f, a, Clean))
  <2>1. PICK b \in Nat : b = a + Len(o)
    BY <1>3
  <2>2. CodeAt(j, a, o) /\ CodeAt(j, b, p)
    BY <1>3, <1>4, <1>5, <2>1, JoinedAt
  <2>3. CASE Ends(j, f, o)
    BY <1>5, <2>2, <2>3 DEF Ends
  <2>4. CASE Ends(j, f, p)
    <3>1. Good(j, Y, There(f, b, Clean))
      BY <1>5, <2>2, <2>4 DEF Ends
    <3>2. Goes(j, Y, f, o, Clean, Clean)
      BY <1>5 DEF CommGoes
    <3> QED
      BY <2>1, <2>2, <3>1, <3>2 DEF Goes
  <2> QED
    BY <1>5, <2>3, <2>4
<1>6. Ends(j, f, o) \/ Ends(j, f, p) => Ends(j, f, all)
  BY <1>5 DEF Ends
<1> QED
  BY <1>1, <1>2, <1>6

LEMMA GeneratedParts ==
  ASSUME NEW ops, NEW n, NEW g, g = Generated(ops, n)
  PROVE  g.code = ops /\ g.next_label = n
BY DEF Generated

(* By induction on how deep calls are nested in the call. *)
LEMMA GoesComm ==
  ASSUME NEW j, NEW X, NEW f, Setting(j, X, f), UniqueLabels(j), NEW t, TableOf(j, f, t),
         NEW call \in t.comms
  PROVE  /\ CommGoes(j, f, t.comm_code[call].code)
         /\ call \in t.returning => Ends(j, f, t.comm_code[call].code)
<1> DEFINE OpsOf(c) == t.comm_code[c].code
           Well(c) == /\ CommGoes(j, f, OpsOf(c))
                      /\ c \in t.returning => Ends(j, f, OpsOf(c))
           S == {d \in Nat : \A c \in t.comms : t.comm_depth[c] < d => Well(c)}
<1>1. /\ t.comm_depth \in [t.comms -> Nat]
      /\ CommCalls(Prog_func(j.prog, f).num_vars, t)
      /\ Returning(t)
  BY DEF TableOf, IsTable
<1>2. 0 \in S
  BY <1>1
<1>3. ASSUME NEW d \in Nat, d \in S, NEW c \in t.comms, t.comm_depth[c] < d + 1
      PROVE  Well(c)
  <2>1. ASSUME NEW b, CommInside(t, c, b)
        PROVE  Well(b)
    <3>1. b \in t.comms /\ t.comm_depth[b] < d
      BY <1>1, <1>3, <2>1 DEF CommInside
    <3> QED
      BY <1>3, <3>1
  <2> HIDE DEF S
  <2>2. ASSUME NEW b, IsWhile(t, c, b)
        PROVE  Well(c)
    <3>1. /\ c[1].expr \in t.exprs /\ CommInside(t, c, b)
          /\ OpsOf(c) = WhileCode(t.expr_code[c[1].expr], OpsOf(b), c[2])
      BY <2>2 DEF IsWhile, Generated
    <3>2. ExprLeaves(j, f, t.expr_code[c[1].expr]) /\ CommGoes(j, f, OpsOf(b))
      BY <2>1, <3>1, ExprLeavesValue
    <3>3. c[2] \in Int
      BY <1>1, CommIs
    <3>4. ASSUME NEW Y, Setting(j, Y, f)
          PROVE  Goes(j, Y, f, OpsOf(c), Clean, Clean)
      <4> HIDE DEF code
      <4>1. /\ \A Z : Setting(j, Z, f) => Goes(j, Z, f, t.expr_code[c[1].expr], Clean, CleanWithValue)
            /\ \A Z : Setting(j, Z, f) => Goes(j, Z, f, OpsOf(b), Clean, Clean)
        BY <3>2 DEF ExprLeaves, CommGoes
      <4> QED
        BY <3>1, <3>3, <3>4, <4>1, GoesWhile
    <3>5. c \notin t.returning
      BY <1>1, <2>2 DEF Returning, IsWhile
    <3> QED
      BY <3>4, <3>5 DEF CommGoes
  <2>3. CASE IsAssign(t, Prog_func(j.prog, f).num_vars, c)
    <3>1. /\ c[1].expr \in t.exprs /\ c[1].name \in 0 .. Prog_func(j.prog, f).num_vars - 1
          /\ OpsOf(c) = t.expr_code[c[1].expr] \o StoreVariable(c[1].name)
      <4>1. PICK ops : ops = t.expr_code[c[1].expr] \o StoreVariable(c[1].name)
        OBVIOUS
      <4>2. t.comm_code[c] = Generated(ops, c[2])
        BY <2>3, <4>1 DEF IsAssign
      <4>3. OpsOf(c) = ops
        BY <4>2, GeneratedParts
      <4>4. c[1].expr \in t.exprs /\ c[1].name \in 0 .. Prog_func(j.prog, f).num_vars - 1
        BY <2>3 DEF IsAssign
      <4> QED
        BY <4>1, <4>3, <4>4
    <3>2. ExprLeaves(j, f, t.expr_code[c[1].expr])
      BY <3>1, ExprLeavesValue
    <3>3. CommGoes(j, f, OpsOf(c))
      BY <3>1, <3>2, GoesAssign
    <3>4. c \notin t.returning
      BY <1>1, <2>3 DEF Returning, IsAssign
    <3> QED
      BY <3>3, <3>4
  <2>4. ASSUME NEW fst, NEW snd, IsComp(t, c, fst, snd)
        PROVE  Well(c)
    <3>1. /\ CommInside(t, c, fst) /\ CommInside(t, c, snd)
          /\ OpsOf(c) = OpsOf(fst) \o OpsOf(snd)
      <4>1. PICK ops : ops = OpsOf(fst) \o OpsOf(snd)
        OBVIOUS
      <4>2. t.comm_code[c] = Generated(ops, t.comm_code[snd].next_label)
        BY <2>4, <4>1 DEF IsComp
      <4>3. OpsOf(c) = ops
        BY <4>2, GeneratedParts
      <4>4. CommInside(t, c, fst) /\ CommInside(t, c, snd)
        BY <2>4 DEF IsComp
      <4> QED
        BY <4>1, <4>3, <4>4
    <3>2. Well(fst) /\ Well(snd)
      BY <2>1, <3>1
    <3>3. c \in t.returning => fst \in t.returning \/ snd \in t.returning
      BY <1>1, <2>4 DEF Returning, IsComp
    <3>4. /\ CommGoes(j, f, OpsOf(fst) \o OpsOf(snd))
          /\ Ends(j, f, OpsOf(fst)) \/ Ends(j, f, OpsOf(snd)) => Ends(j, f, OpsOf(fst) \o OpsOf(snd))
      <4> HIDE DEF code
      <4> QED
        BY <3>2, GoesComp
    <3> QED
      BY <3>1, <3>2, <3>3, <3>4
  <2>5. CASE IsReturn(t, c)
    <3>1. /\ c[1].expr \in t.exprs
          /\ OpsOf(c) = Append(t.expr_code[c[1].expr],
                              ICodeOperation_init("JUMPADDR", RETURN_ADDRESS, 0))
      BY <2>5 DEF IsReturn, Generated
    <3>2. ExprLeaves(j, f, t.expr_code[c[1].expr])
      BY <3>1, ExprLeavesValue
    <3> QED
      BY <3>1, <3>2, GoesReturn
  <2> QED
    BY <1>1, <2>2, <2>3, <2>4, <2>5, CommIs
<1>4. \A d \in Nat : d \in S => d + 1 \in S
  BY <1>3
<1>5. PICK d \in Nat : d = t.comm_depth[call] + 1
  BY <1>1
<1>6. t.comm_depth[call] < d
  BY <1>1, <1>5
<1> HIDE DEF S, Well
<1>7. d \in S
  BY <1>2, <1>4, SetInduction
<1>8. Well(call)
  BY <1>6, <1>7 DEF S
<1> QED
  BY <1>8 DEF Well

(* -------------------------------- Labels -------------------------------- *)
(* Operations whose labels are different ones from L. *)
Labelled(ops, L) ==
  /\ ops \in Seq(ICodeOperation)
  /\ \A i \in 1 .. Len(ops) : ops[i].opc = "LABEL" => ops[i].arg1 \in L
  /\ \A i \in 1 .. Len(ops), k \in 1 .. Len(ops) :
       ops[i].opc = "LABEL" /\ ops[k].opc = "LABEL" /\ ops[i].arg1 = ops[k].arg1 => i = k

LEMMA LabelledMore ==
  ASSUME NEW ops, NEW L, NEW M, L \subseteq M, Labelled(ops, L)
  PROVE  Labelled(ops, M)
BY DEF Labelled

LEMMA LabelledJoin ==
  ASSUME NEW o, NEW p, NEW q, NEW L, NEW M, Labelled(o, L), Labelled(p, M), Joins(q, o, p),
         \A n \in L : n \notin M
  PROVE  Labelled(q, L \cup M)
<1>1. o \in Seq(ICodeOperation) /\ p \in Seq(ICodeOperation)
  BY DEF Labelled
<1>2. PICK m \in Nat, n \in Nat : m = Len(o) /\ n = Len(p)
  BY <1>1
<1>3. q \in Seq(ICodeOperation) /\ Len(q) = m + n
  BY <1>1, <1>2, JoinsFacts
<1>4. /\ \A i \in 1 .. m : q[i] = o[i]
      /\ \A i \in 1 .. n : q[m + i] = p[i]
  BY <1>1, <1>2 DEF Joins
<1>5. ASSUME NEW i \in 1 .. Len(q)
      PROVE  \/ i \in 1 .. m /\ q[i] = o[i]
             \/ \E k \in 1 .. n : i = m + k /\ q[i] = p[k]
  <2>1. CASE i <= m
    BY <1>2, <1>3, <1>4, <2>1
  <2>2. CASE i > m
    <3>1. PICK k \in 1 .. n : i = m + k
      <4>1. i - m \in 1 .. n /\ i = m + (i - m)
        BY <1>3, <2>2
      <4> QED
        BY <4>1
    <3> QED
      BY <1>4, <3>1
  <2> QED
    BY <2>1, <2>2
<1>6. ASSUME NEW i \in 1 .. Len(q), q[i].opc = "LABEL"
      PROVE  q[i].arg1 \in L \cup M
  BY <1>2, <1>5, <1>6 DEF Labelled
<1>7. ASSUME NEW i \in 1 .. Len(q), NEW k \in 1 .. Len(q),
             q[i].opc = "LABEL", q[k].opc = "LABEL", q[i].arg1 = q[k].arg1
      PROVE  i = k
  <2>1. CASE i \in 1 .. m /\ q[i] = o[i]
    <3>1. q[i].arg1 \in L
      BY <1>2, <1>7, <2>1 DEF Labelled
    <3>2. k \in 1 .. m /\ q[k] = o[k]
      BY <1>2, <1>5, <1>7, <3>1, SMTT(30) DEF Labelled
    <3> QED
      BY <1>2, <1>7, <2>1, <3>2 DEF Labelled
  <2>2. ASSUME NEW b \in 1 .. n, i = m + b, q[i] = p[b]
        PROVE  i = k
    <3>1. q[i].arg1 \in M
      BY <1>2, <1>7, <2>2 DEF Labelled
    <3>2. PICK c \in 1 .. n : k = m + c /\ q[k] = p[c]
      BY <1>2, <1>5, <1>7, <3>1 DEF Labelled
    <3>3. b = c
      BY <1>2, <1>7, <2>2, <3>2 DEF Labelled
    <3> QED
      BY <2>2, <3>2, <3>3
  <2> QED
    BY <1>5, <2>1, <2>2
<1> QED
  BY <1>3, <1>6, <1>7 DEF Labelled

LEMMA LabelledHead ==
  ASSUME NEW n \in Int
  PROVE  Labelled(<<ICodeOperation_init("LABEL", n, 0)>>, {n})
<1>1. PICK op : op = ICodeOperation_init("LABEL", n, 0)
  OBVIOUS
<1>2. op \in ICodeOperation /\ op.arg1 = n
  BY <1>1 DEF ICodeOperation, ICodeOperation_init, Opcode
<1>3. <<op>> \in Seq(ICodeOperation) /\ Len(<<op>>) = 1 /\ <<op>>[1] = op
  BY <1>2
<1> QED
  BY <1>1, <1>2, <1>3 DEF Labelled

(* Operations that are no labels. *)
Silent == {op \in ICodeOperation : op.opc # "LABEL"}

LEMMA SilentLabelled ==
  ASSUME NEW ops \in Seq(Silent)
  PROVE  Labelled(ops, {})
<1>1. \A i \in 1 .. Len(ops) : ops[i] \in Silent
  OBVIOUS
<1>2. \A i \in 1 .. Len(ops) : ops[i].opc # "LABEL" /\ ops[i] \in ICodeOperation
  BY <1>1 DEF Silent
<1>3. ops \in Seq(ICodeOperation)
  BY <1>2
<1> QED
  BY <1>2, <1>3 DEF Labelled

(* No expression has labels. *)
LEMMA SilentOperations ==
  /\ \A opc \in {"MOVE", "LOAD", "STORE", "ADD", "SUB", "LOADIMM", "JUMP", "JUMPCOND",
                 "JUMPLINK", "JUMPADDR"} :
       \A a \in Int, b \in Int : ICodeOperation_init(opc, a, b) \in Silent
  /\ Named \subseteq Int
BY DEF Silent, ICodeOperation, ICodeOperation_init, Opcode, Named, STACK_POINTER,
       FRAME_POINTER, RETURN_ADDRESS, ACCUMULATOR, TEMPORARY

LEMMA SilentPieces ==
  /\ \A r \in Named : Push(r) \in Seq(Silent) /\ Pop(r) \in Seq(Silent)
  /\ \A n \in Int : /\ Drop(n) \in Seq(Silent) /\ LoadVariable(n) \in Seq(Silent)
                    /\ StoreVariable(n) \in Seq(Silent) /\ LeaveFrame(n) \in Seq(Silent)
  /\ EnterFrame \in Seq(Silent) /\ PushZero \in Seq(Silent)
<1> HIDE DEF Silent
<1>0. ASSUME NEW a \in Silent, NEW b \in Silent, NEW c \in Silent, NEW d \in Silent
      PROVE  /\ <<a>> \in Seq(Silent) /\ <<a, b>> \in Seq(Silent)
             /\ <<a, b, c>> \in Seq(Silent) /\ <<a, b, c, d>> \in Seq(Silent)
  OBVIOUS
<1>1. ASSUME NEW r \in Named
      PROVE  Push(r) \in Seq(Silent)
  <2>1. /\ ICodeOperation_init("STORE", r, STACK_POINTER) \in Silent
        /\ ICodeOperation_init("LOADIMM", 1, ACCUMULATOR) \in Silent
        /\ ICodeOperation_init("ADD", STACK_POINTER, ACCUMULATOR) \in Silent
    BY SilentOperations, NamedThere
  <2> QED
    BY <1>0, <2>1 DEF Push
<1>2. ASSUME NEW n \in Int
      PROVE  Drop(n) \in Seq(Silent)
  <2>1. /\ ICodeOperation_init("LOADIMM", n, TEMPORARY) \in Silent
        /\ ICodeOperation_init("SUB", STACK_POINTER, TEMPORARY) \in Silent
    BY SilentOperations, NamedThere
  <2> QED
    BY <1>0, <2>1 DEF Drop
<1>3. ASSUME NEW r \in Named
      PROVE  Pop(r) \in Seq(Silent)
  <2>1. ICodeOperation_init("LOAD", STACK_POINTER, r) \in Silent
    BY SilentOperations, NamedThere
  <2>2. \A ops \in Seq(Silent), op \in Silent : Append(ops, op) \in Seq(Silent)
    OBVIOUS
  <2>3. Drop(1) \in Seq(Silent)
    BY <1>2
  <2> QED
    BY <2>1, <2>2, <2>3 DEF Pop
<1>4. ASSUME NEW n \in Int
      PROVE  LoadVariable(n) \in Seq(Silent)
  <2>1. /\ ICodeOperation_init("LOADIMM", n, ACCUMULATOR) \in Silent
        /\ ICodeOperation_init("MOVE", FRAME_POINTER, TEMPORARY) \in Silent
        /\ ICodeOperation_init("SUB", TEMPORARY, ACCUMULATOR) \in Silent
        /\ ICodeOperation_init("LOAD", TEMPORARY, ACCUMULATOR) \in Silent
    BY SilentOperations, NamedThere
  <2> QED
    BY <1>0, <2>1 DEF LoadVariable
<1>5. ASSUME NEW n \in Int
      PROVE  StoreVariable(n) \in Seq(Silent)
  <2>1. /\ ICodeOperation_init("LOADIMM", -n, TEMPORARY) \in Silent
        /\ ICodeOperation_init("ADD", TEMPORARY, FRAME_POINTER) \in Silent
        /\ ICodeOperation_init("STORE", ACCUMULATOR, TEMPORARY) \in Silent
    BY SilentOperations, NamedThere
  <2> QED
    BY <1>0, <2>1 DEF StoreVariable
<1>6. ASSUME NEW n \in Int
      PROVE  LeaveFrame(n) \in Seq(Silent)
  <2>1. /\ Drop(n) \in Seq(Silent) /\ Pop(RETURN_ADDRESS) \in Seq(Silent)
        /\ Pop(FRAME_POINTER) \in Seq(Silent)
    BY <1>2, <1>3, NamedThere
  <2> QED
    BY <2>1 DEF LeaveFrame
<1>7. EnterFrame \in Seq(Silent)
  <2>1. /\ ICodeOperation_init("MOVE", STACK_POINTER, FRAME_POINTER) \in Silent
        /\ ICodeOperation_init("LOADIMM", 1, TEMPORARY) \in Silent
        /\ ICodeOperation_init("SUB", FRAME_POINTER, TEMPORARY) \in Silent
    BY SilentOperations, NamedThere
  <2> QED
    BY <1>0, <2>1 DEF EnterFrame
<1>8. PushZero \in Seq(Silent)
  <2>1. ICodeOperation_init("LOADIMM", 0, ACCUMULATOR) \in Silent
    BY SilentOperations, NamedThere
  <2>2. Push(ACCUMULATOR) \in Seq(Silent)
    BY <1>1, NamedThere
  <2>3. <<ICodeOperation_init("LOADIMM", 0, ACCUMULATOR)>> \in Seq(Silent)
    BY <1>0, <2>1
  <2> QED
    BY <2>2, <2>3 DEF PushZero
<1> QED
  BY <1>1, <1>2, <1>3, <1>4, <1>5, <1>6, <1>7, <1>8

LEMMA SilentBinary ==
  ASSUME NEW rhs \in Seq(Silent), NEW lhs \in Seq(Silent), NEW opc \in {"ADD", "SUB"}
  PROVE  BinaryCode(rhs, lhs, opc) \in Seq(Silent)
<1> HIDE DEF Silent
<1>1. ICodeOperation_init(opc, ACCUMULATOR, TEMPORARY) \in Silent
  BY SilentOperations, NamedThere
<1>2. PICK push \in Seq(Silent), pop \in Seq(Silent) :
        push = Push(ACCUMULATOR) /\ pop = Pop(TEMPORARY)
  BY SilentPieces, NamedThere
<1>3. PICK op \in Seq(Silent) : op = <<ICodeOperation_init(opc, ACCUMULATOR, TEMPORARY)>>
  <2>1. <<ICodeOperation_init(opc, ACCUMULATOR, TEMPORARY)>> \in Seq(Silent)
    BY <1>1
  <2> QED
    BY <2>1
<1>4. rhs \o push \o lhs \o pop \o op \in Seq(Silent)
  OBVIOUS
<1> QED
  BY <1>2, <1>3, <1>4 DEF BinaryCode

LEMMA SilentCall ==
  ASSUME NEW v \in Nat, NEW n \in 0 .. v, NEW args \in Seq(Seq(Silent)), NEW label \in Int
  PROVE  CallCode(v, Zeros(v, n), args, label) \in Seq(Silent)
<1> HIDE DEF Silent
<1>1. PICK fp \in Seq(Silent), ra \in Seq(Silent), enter \in Seq(Silent), leave \in Seq(Silent) :
        /\ fp = Push(FRAME_POINTER) /\ ra = Push(RETURN_ADDRESS) /\ enter = EnterFrame
        /\ leave = LeaveFrame(v)
  BY SilentPieces, NamedThere
<1>2. PICK zeros \in Seq(Silent) : zeros = Concatenated(Zeros(v, n))
  <2>1. PICK m \in Nat : m = v - n
    OBVIOUS
  <2>2. [i \in 1 .. m |-> PushZero] \in Seq(Seq(Silent))
    <3>1. PICK zero \in Seq(Silent) : zero = PushZero
      BY SilentPieces
    <3>2. [i \in 1 .. m |-> zero] \in Seq(Seq(Silent))
      OBVIOUS
    <3> QED
      BY <3>1, <3>2
  <2>3. Concatenated(Zeros(v, n)) \in Seq(Silent)
    <3>1. PICK zs \in Seq(Seq(Silent)) : zs = Zeros(v, n)
      BY <2>1, <2>2, ZerosAre
    <3>2. PICK f \in [0 .. Len(zs) -> Seq(Silent)] : Concatenated(zs) = f[Len(zs)]
      BY ConcatenatedParts
    <3>3. Len(zs) \in 0 .. Len(zs)
      OBVIOUS
    <3> QED
      BY <3>1, <3>2, <3>3
  <2> QED
    BY <2>3
<1>3. PICK given \in Seq(Silent) : given = Concatenated(args)
  <2>1. PICK f \in [0 .. Len(args) -> Seq(Silent)] : Concatenated(args) = f[Len(args)]
    BY ConcatenatedParts
  <2>2. Len(args) \in 0 .. Len(args)
    OBVIOUS
  <2> QED
    BY <2>1, <2>2
<1>4. PICK link \in Seq(Silent) : link = <<ICodeOperation_init("JUMPLINK", label, 0)>>
  <2>1. ICodeOperation_init("JUMPLINK", label, 0) \in Silent
    BY SilentOperations
  <2>2. <<ICodeOperation_init("JUMPLINK", label, 0)>> \in Seq(Silent)
    BY <2>1
  <2> QED
    BY <2>2
<1>5. fp \o ra \o zeros \o given \o enter \o link \o leave \in Seq(Silent)
  OBVIOUS
<1> QED
  BY <1>1, <1>2, <1>3, <1>4, <1>5 DEF CallCode

LEMMA SilentExpr ==
  ASSUME NEW j, Prog_num_funcs(j.prog) \in Nat, Functional(j), NEW f \in FunctionNames(j.prog),
         NEW t, TableOf(j, f, t), NEW e \in t.exprs
  PROVE  t.expr_code[e] \in Seq(Silent)
<1>1. /\ t.expr_code \in [t.exprs -> Seq(ICodeOperation)]
      /\ t.expr_depth \in [t.exprs -> Nat]
      /\ ExprCalls(j.prog, Prog_func(j.prog, f).num_vars, t)
      /\ Prog_func(j.prog, f).num_vars \in Nat
  BY DEF TableOf, IsTable, Functional
<1> DEFINE S == {d \in Nat : \A x \in t.exprs : t.expr_depth[x] < d =>
                                t.expr_code[x] \in Seq(Silent)}
<1>2. 0 \in S
  BY <1>1
<1>3. ASSUME NEW d \in Nat, d \in S, NEW x \in t.exprs, t.expr_depth[x] < d + 1
      PROVE  t.expr_code[x] \in Seq(Silent)
  <2>1. ASSUME NEW y, ExprInside(t, x, y)
        PROVE  t.expr_code[y] \in Seq(Silent)
    <3>1. y \in t.exprs /\ t.expr_depth[y] < d
      BY <1>1, <1>3, <2>1 DEF ExprInside
    <3> QED
      BY <1>3, <3>1
  <2> HIDE DEF S
  <2>2. CASE x.type = "Int"
    <3>1. t.expr_code[x] = <<ICodeOperation_init("LOADIMM", x.num, ACCUMULATOR)>>
      BY <1>1, <2>2, ExprCodeIs
    <3>2. PICK op : op = ICodeOperation_init("LOADIMM", x.num, ACCUMULATOR)
      OBVIOUS
    <3>3. <<op>> \in Seq(ICodeOperation) /\ Len(<<op>>) = 1 /\ <<op>>[1] = op
      BY <1>1, <3>1, <3>2
    <3>4. op \in Silent
      BY <3>2, <3>3 DEF ICodeOperation_init, Silent
    <3>5. <<op>> \in Seq(Silent)
      BY <3>4
    <3> QED
      BY <3>1, <3>2, <3>5
  <2>3. CASE x.type = "Var"
    <3>1. t.expr_code[x] = LoadVariable(x.num)
      BY <1>1, <2>3, ExprCodeIs
    <3>2. x.num \in 0 .. Prog_func(j.prog, f).num_vars - 1
      BY <1>1, <2>3 DEF ExprCalls
    <3>3. x.num \in Int
      BY <3>2
    <3> QED
      BY <3>1, <3>3, SilentPieces
  <2>4. CASE x.type = "Add"
    <3>1. t.expr_code[x] = BinaryCode(t.expr_code[x.expr2], t.expr_code[x.expr1], "ADD")
      BY <1>1, <2>4, ExprCodeIs
    <3>2. ExprInside(t, x, x.expr1) /\ ExprInside(t, x, x.expr2)
      BY <1>1, <2>4 DEF ExprCalls
    <3> QED
      BY <2>1, <3>1, <3>2, SilentBinary
  <2>5. CASE x.type = "Sub"
    <3>1. t.expr_code[x] = BinaryCode(t.expr_code[x.expr2], t.expr_code[x.expr1], "SUB")
      BY <1>1, <2>5, ExprCodeIs
    <3>2. ExprInside(t, x, x.expr1) /\ ExprInside(t, x, x.expr2)
      BY <1>1, <2>5 DEF ExprCalls
    <3> QED
      BY <2>1, <3>1, <3>2, SilentBinary
  <2>6. CASE x.type = "Call"
    <3>0. PICK args : IsCall(j.prog, t, x, args)
      BY <1>1, <2>6, ExprCodeIs
    <3>1. /\ args = [i \in 1 .. Len(x.args) |->
                       t.expr_code[x.args[Len(x.args) + 1 - i]] \o Push(ACCUMULATOR)]
          /\ t.expr_code[x] = CallCode(Prog_func(j.prog, x.num).num_vars,
                                       Zeros(Prog_func(j.prog, x.num).num_vars, Len(x.args)),
                                       args, FuncLabel(0, x.num))
      BY <3>0 DEF IsCall
    <3>2. /\ x.num \in FunctionNames(j.prog) /\ x.args \in Seq(t.exprs)
          /\ Len(x.args) <= Prog_func(j.prog, x.num).num_vars
          /\ \A i \in DOMAIN x.args : ExprInside(t, x, x.args[i])
      BY <1>1, <2>6 DEF ExprCalls
    <3>3. PICK n \in Nat : n = Len(x.args)
      BY <3>2
    <3>4. PICK v \in Nat : v = Prog_func(j.prog, x.num).num_vars
      BY <3>2 DEF Functional
    <3>5. ASSUME NEW i \in 1 .. n
          PROVE  args[i] \in Seq(Silent)
      <4>1. PICK y : y = x.args[n + 1 - i]
        OBVIOUS
      <4>2. n + 1 - i \in DOMAIN x.args
        BY <3>2, <3>3
      <4>3. t.expr_code[y] \in Seq(Silent)
        BY <2>1, <3>2, <4>1, <4>2
      <4>4. args[i] = t.expr_code[y] \o Push(ACCUMULATOR)
        BY <3>1, <3>3, <4>1
      <4>5. Push(ACCUMULATOR) \in Seq(Silent)
        BY SilentPieces, NamedThere
      <4> HIDE DEF Silent
      <4> QED
        BY <4>3, <4>4, <4>5
    <3>6. args \in Seq(Seq(Silent))
      <4>1. args = [i \in 1 .. n |-> args[i]]
        BY <3>1, <3>3
      <4> QED
        BY <3>5, <4>1
    <3>7. n \in 0 .. v /\ FuncLabel(0, x.num) \in Int
      BY <3>2, <3>3, <3>4 DEF FuncLabel, FunctionNames
    <3> QED
      BY <3>1, <3>3, <3>4, <3>6, <3>7, SilentCall
  <2> QED
    BY <1>1, <2>2, <2>3, <2>4, <2>5, <2>6 DEF ExprCalls
<1>4. \A d \in Nat : d \in S => d + 1 \in S
  BY <1>3
<1>5. PICK d \in Nat : d = t.expr_depth[e] + 1
  BY <1>1
<1>6. t.expr_depth[e] < d
  BY <1>1, <1>5
<1> HIDE DEF S
<1>7. d \in S
  BY <1>2, <1>4, SetInduction
<1> QED
  BY <1>6, <1>7 DEF S

(* The labels of commands are those from the next free one on. *)
LEMMA LabelledThenSilent ==
  ASSUME NEW o, NEW p \in Seq(Silent), NEW q, NEW L, Labelled(o, L), Joins(q, o, p)
  PROVE  Labelled(q, L)
<1>1. Labelled(p, {})
  BY SilentLabelled
<1>2. Labelled(q, L \cup {})
  BY <1>1, LabelledJoin
<1>3. L \cup {} = L
  OBVIOUS
<1> QED
  BY <1>2, <1>3

LEMMA LabelledWhile ==
  ASSUME NEW guard \in Seq(Silent), NEW body, NEW n \in Int, NEW m \in Int, n + 2 <= m,
         Labelled(body, n + 2 .. m - 1)
  PROVE  Labelled(WhileCode(guard, body, n), n .. m - 1)
<1>1. PICK k \in Int : k = n + 1
  OBVIOUS
<1>2. PICK head : head = <<ICodeOperation_init("LABEL", n, 0)>>
  OBVIOUS
<1>3. PICK cond : cond = <<ICodeOperation_init("JUMPCOND", k, ACCUMULATOR)>>
  OBVIOUS
<1>4. PICK back : back = ICodeOperation_init("JUMP", n, 0)
  OBVIOUS
<1>5. PICK end : end = ICodeOperation_init("LABEL", k, 0)
  OBVIOUS
<1>6. PICK ends : ends = <<back, end>>
  OBVIOUS
<1>7. PICK o1 : Joins(o1, head, guard)
  BY DEF Joins
<1>8. PICK o2 : Joins(o2, o1, cond)
  BY DEF Joins
<1>9. PICK o3 : Joins(o3, o2, body)
  BY DEF Joins
<1>10. Joins(WhileCode(guard, body, n), o3, ends)
  BY <1>1, <1>2, <1>3, <1>4, <1>5, <1>6, <1>7, <1>8, <1>9 DEF WhileCode, Joins
<1>11. Labelled(head, {n})
  BY <1>2, LabelledHead
<1>12. cond \in Seq(Silent)
  <2>1. ICodeOperation_init("JUMPCOND", k, ACCUMULATOR) \in Silent
    BY SilentOperations, NamedThere
  <2> QED
    BY <1>3, <2>1
<1>13. Labelled(o1, {n})
  BY <1>7, <1>11, LabelledThenSilent
<1>14. Labelled(o2, {n})
  BY <1>8, <1>12, <1>13, LabelledThenSilent
<1>15. PICK inner : inner = n + 2 .. m - 1
  OBVIOUS
<1>16. Labelled(o3, {n} \cup inner)
  <2>1. \A i \in {n} : i \notin inner
    BY <1>15
  <2>2. Labelled(body, inner)
    BY <1>15
  <2> QED
    BY <1>9, <1>14, <2>1, <2>2, LabelledJoin
<1>17. Labelled(ends, {k})
  <2>1. back \in ICodeOperation /\ end \in ICodeOperation /\ back.opc = "JUMP" /\ end.arg1 = k
    BY <1>1, <1>4, <1>5 DEF ICodeOperation, ICodeOperation_init, Opcode
  <2>2. ends \in Seq(ICodeOperation) /\ Len(ends) = 2 /\ ends[1] = back /\ ends[2] = end
    BY <1>6, <2>1
  <2>3. \A i \in 1 .. Len(ends) : ends[i].opc = "LABEL" => i = 2
    BY <2>1, <2>2
  <2> QED
    BY <2>1, <2>2, <2>3 DEF Labelled
<1>18. PICK before : before = {n} \cup inner
  OBVIOUS
<1>19. \A i \in before : i \notin {k}
  BY <1>1, <1>15, <1>18
<1>20. Labelled(WhileCode(guard, body, n), before \cup {k})
  BY <1>10, <1>16, <1>17, <1>18, <1>19, LabelledJoin
<1>21. before \cup {k} \subseteq n .. m - 1
  BY <1>1, <1>15, <1>18
<1> QED
  BY <1>20, <1>21, LabelledMore

LEMMA LabelledComp ==
  ASSUME NEW o, NEW p, NEW n \in Int, NEW m \in Int, NEW k \in Int, n <= m, m <= k,
         Labelled(o, n .. m - 1), Labelled(p, m .. k - 1)
  PROVE  Labelled(o \o p, n .. k - 1)
<1>1. PICK all : Joins(all, o, p)
  BY DEF Joins
<1>2. PICK L, M : L = n .. m - 1 /\ M = m .. k - 1
  OBVIOUS
<1>3. \A i \in L : i \notin M
  BY <1>2
<1>4. Labelled(all, L \cup M)
  BY <1>1, <1>2, <1>3, LabelledJoin
<1>5. L \cup M \subseteq n .. k - 1
  BY <1>2
<1>6. Labelled(all, n .. k - 1)
  BY <1>4, <1>5, LabelledMore
<1> QED
  BY <1>1, <1>6 DEF Joins

LEMMA LabelledComm ==
  ASSUME NEW j, Prog_num_funcs(j.prog) \in Nat, Functional(j), NEW f \in FunctionNames(j.prog),
         NEW t, TableOf(j, f, t), NEW call \in t.comms
  PROVE  /\ call[2] \in Int /\ t.comm_code[call].next_label \in Int
         /\ call[2] <= t.comm_code[call].next_label
         /\ Labelled(t.comm_code[call].code, call[2] .. t.comm_code[call].next_label - 1)
<1> DEFINE OpsOf(c) == t.comm_code[c].code
           next(c) == t.comm_code[c].next_label
           Well(c) == /\ c[2] \in Int /\ next(c) \in Int /\ c[2] <= next(c)
                      /\ Labelled(OpsOf(c), c[2] .. next(c) - 1)
           S == {d \in Nat : \A c \in t.comms : t.comm_depth[c] < d => Well(c)}
<1>1. /\ t.comm_depth \in [t.comms -> Nat]
      /\ CommCalls(Prog_func(j.prog, f).num_vars, t)
      /\ \A e \in t.exprs : t.expr_code[e] \in Seq(Silent)
  BY SilentExpr DEF TableOf, IsTable
<1>2. 0 \in S
  BY <1>1
<1>3. ASSUME NEW d \in Nat, d \in S, NEW c \in t.comms, t.comm_depth[c] < d + 1
      PROVE  Well(c)
  <2>1. ASSUME NEW b, CommInside(t, c, b)
        PROVE  Well(b)
    <3>1. b \in t.comms /\ t.comm_depth[b] < d
      BY <1>1, <1>3, <2>1 DEF CommInside
    <3> QED
      BY <1>3, <3>1
  <2> HIDE DEF S
  <2>2. c[2] \in Int
    BY <1>1, CommIs
  <2>3. ASSUME NEW ops \in Seq(Silent), t.comm_code[c] = Generated(ops, c[2])
        PROVE  Well(c)
    <3>1. OpsOf(c) = ops /\ next(c) = c[2]
      BY <2>3, GeneratedParts
    <3>2. Labelled(ops, {})
      BY SilentLabelled
    <3>3. Labelled(ops, c[2] .. c[2] - 1)
      BY <3>2, LabelledMore
    <3>4. Labelled(OpsOf(c), c[2] .. next(c) - 1)
      BY <3>1, <3>3
    <3> QED
      BY <2>2, <3>1, <3>4
  <2>4. ASSUME NEW b, IsWhile(t, c, b)
        PROVE  Well(c)
    <3>1. PICK n \in Int : n = c[2]
      BY <2>2
    <3>2. /\ c[1].expr \in t.exprs /\ CommInside(t, c, b) /\ b[2] = n + 2
          /\ OpsOf(c) = WhileCode(t.expr_code[c[1].expr], OpsOf(b), n)
          /\ next(c) = next(b)
      BY <2>4, <3>1 DEF IsWhile, Generated
    <3>3. PICK m \in Int : m = next(b)
      BY <2>1, <3>2
    <3>4. n + 2 <= m /\ Labelled(OpsOf(b), n + 2 .. m - 1)
      BY <2>1, <3>2, <3>3
    <3>5. Labelled(OpsOf(c), n .. m - 1)
      BY <1>1, <3>2, <3>4, LabelledWhile
    <3> QED
      BY <3>1, <3>2, <3>3, <3>4, <3>5
  <2>5. CASE IsAssign(t, Prog_func(j.prog, f).num_vars, c)
    <3>1. t.expr_code[c[1].expr] \in Seq(Silent) /\ StoreVariable(c[1].name) \in Seq(Silent)
      <4>1. c[1].expr \in t.exprs /\ c[1].name \in Int
        BY <2>5 DEF IsAssign
      <4> QED
        BY <1>1, <4>1, SilentPieces
    <3>2. PICK ops : ops = t.expr_code[c[1].expr] \o StoreVariable(c[1].name)
      OBVIOUS
    <3>3. ops \in Seq(Silent)
      <4> HIDE DEF Silent
      <4> QED
        BY <3>1, <3>2
    <3>4. t.comm_code[c] = Generated(ops, c[2])
      BY <2>5, <3>2 DEF IsAssign
    <3> QED
      BY <2>3, <3>3, <3>4
  <2>6. ASSUME NEW fst, NEW snd, IsComp(t, c, fst, snd)
        PROVE  Well(c)
    <3>1. CommInside(t, c, fst) /\ CommInside(t, c, snd) /\ fst[2] = c[2] /\ snd[2] = next(fst)
      BY <2>6 DEF IsComp
    <3>2. PICK ops : ops = OpsOf(fst) \o OpsOf(snd)
      OBVIOUS
    <3>3. t.comm_code[c] = Generated(ops, next(snd))
      BY <2>6, <3>2 DEF IsComp
    <3>4. OpsOf(c) = ops /\ next(c) = next(snd)
      BY <3>3, GeneratedParts
    <3>5. PICK n \in Int, m \in Int, k \in Int : n = c[2] /\ m = next(fst) /\ k = next(snd)
      BY <2>1, <2>2, <3>1
    <3>6. /\ n <= m /\ m <= k
          /\ Labelled(OpsOf(fst), n .. m - 1) /\ Labelled(OpsOf(snd), m .. k - 1)
      BY <2>1, <3>1, <3>5
    <3>7. Labelled(ops, n .. k - 1)
      BY <3>2, <3>6, LabelledComp
    <3> QED
      BY <3>4, <3>5, <3>6, <3>7
  <2>7. CASE IsReturn(t, c)
    <3>1. PICK ops : ops = Append(t.expr_code[c[1].expr],
                                  ICodeOperation_init("JUMPADDR", RETURN_ADDRESS, 0))
      OBVIOUS
    <3>20. t.expr_code[c[1].expr] \in Seq(Silent)
      BY <1>1, <2>7 DEF IsReturn
    <3>21. ICodeOperation_init("JUMPADDR", RETURN_ADDRESS, 0) \in Silent
      BY SilentOperations, NamedThere
    <3>2. /\ t.expr_code[c[1].expr] \in Seq(Silent)
          /\ ICodeOperation_init("JUMPADDR", RETURN_ADDRESS, 0) \in Silent
      BY <3>20, <3>21
    <3>3. ops \in Seq(Silent)
      <4> HIDE DEF Silent
      <4> QED
        BY <3>1, <3>2
    <3>4. t.comm_code[c] = Generated(ops, c[2])
      BY <2>7, <3>1 DEF IsReturn
    <3> QED
      BY <2>3, <3>3, <3>4
  <2> QED
    BY <1>1, <2>4, <2>5, <2>6, <2>7, CommIs
<1>4. \A d \in Nat : d \in S => d + 1 \in S
  BY <1>3
<1>5. PICK d \in Nat : d = t.comm_depth[call] + 1
  BY <1>1
<1>6. t.comm_depth[call] < d
  BY <1>1, <1>5
<1> HIDE DEF S, Well
<1>7. d \in S
  BY <1>2, <1>4, SetInduction
<1>8. Well(call)
  BY <1>6, <1>7 DEF S
<1> QED
  BY <1>8 DEF Well

(* ------------------------------- Programs ------------------------------- *)
(* The code of a program: what it starts with, and then its functions, i being the
   i-th of them. *)
Start == <<ICodeOperation_init("JUMPLINK", 0, 0), ICodeOperation_init("HALT", 0, 0)>>
BodyOf(tables, i) == tables[i - 1].comm_code[tables[i - 1].body]
FunctionOps(tables, i) ==
  <<ICodeOperation_init("LABEL", i - 1, 0)>> \o BodyOf(tables, i).code
FreeAfter(j, tables, i) ==
  IF i = 0 THEN Prog_num_funcs(j.prog) ELSE BodyOf(tables, i).next_label

LaidOut(j, tables, up) ==
  /\ up \in [0 .. Len(j.prog) -> Seq(ICodeOperation)]
  /\ up[0] = Start
  /\ \A i \in 1 .. Len(j.prog) : Joins(up[i], up[i - 1], FunctionOps(tables, i))
  /\ up[Len(j.prog)] = j.code

(* The functions, and where their numbers come from. *)
FunctionIs(j, tables, i) ==
  LET t == tables[i - 1]
      func == j.prog[i]
  IN  /\ i - 1 \in FunctionNames(j.prog)
      /\ func.name = i - 1 /\ func.num_vars \in Nat
      /\ TableOf(j, i - 1, t)
      /\ t.body \in t.comms /\ t.body \in t.returning
      /\ t.body = <<func.body, FreeAfter(j, tables, i - 1)>>
      /\ BodyOf(tables, i) \in [code : Seq(ICodeOperation), next_label : Int]

LEMMA ProgramFacts ==
  ASSUME NEW j, NEW tables, GeneratedWith(j, tables)
  PROVE  /\ Len(j.prog) \in Nat \ {0} /\ Prog_num_funcs(j.prog) = Len(j.prog)
         /\ FunctionNames(j.prog) = 0 .. Len(j.prog) - 1
         /\ Functional(j) /\ IntSized(j)
         /\ \A i \in 1 .. Len(j.prog) : FunctionIs(j, tables, i)
<1>1. j.prog \in Seq(Range(j.prog)) /\ j.prog # <<>>
  BY DEF GeneratedWith
<1>2. Len(j.prog) \in Nat \ {0} /\ Prog_num_funcs(j.prog) = Len(j.prog)
  BY <1>1 DEF Prog_num_funcs
<1>3. FunctionNames(j.prog) = 0 .. Len(j.prog) - 1
  BY <1>2 DEF FunctionNames
<1>4. Functional(j) /\ IntSized(j)
  <2>1. \A n \in 0 .. MaxInt : n \in Nat /\ n <= MaxInt
    BY MaxIntAssumption
  <2>2. \A f \in FunctionNames(j.prog) : Prog_func(j.prog, f).num_vars \in 0 .. MaxInt
    BY DEF GeneratedWith
  <2> QED
    BY <2>1, <2>2 DEF Functional, IntSized
<1>5. ASSUME NEW i \in 1 .. Len(j.prog)
      PROVE  FunctionIs(j, tables, i)
  <2>1. PICK f : f = i - 1
    OBVIOUS
  <2>2. f \in FunctionNames(j.prog) /\ f + 1 = i /\ (f = 0 <=> i = 1)
    BY <1>2, <1>3, <2>1
  <2>3. Prog_func(j.prog, f) = j.prog[i]
    BY <2>2 DEF Prog_func
  <2>4. /\ j.prog[i].name = f /\ j.prog[i].num_vars \in Nat
        /\ TableOf(j, f, tables[f])
        /\ tables[f].body =
             << j.prog[i].body,
                IF f = 0 THEN Prog_num_funcs(j.prog)
                ELSE tables[f - 1].comm_code[tables[f - 1].body].next_label >>
    BY <1>4, <2>2, <2>3 DEF GeneratedWith, TableOf, Functional
  <2>5. /\ tables[f].body \in tables[f].comms /\ tables[f].body \in tables[f].returning
        /\ tables[f].comm_code \in
             [tables[f].comms -> [code : Seq(ICodeOperation), next_label : Int]]
    BY <2>4 DEF TableOf, IsTable, Returning
  <2>6. BodyOf(tables, i) \in [code : Seq(ICodeOperation), next_label : Int]
    BY <2>1, <2>5 DEF BodyOf
  <2>7. FreeAfter(j, tables, f) = IF f = 0 THEN Prog_num_funcs(j.prog)
                                  ELSE tables[f - 1].comm_code[tables[f - 1].body].next_label
    BY DEF FreeAfter, BodyOf
  <2> QED
    BY <2>1, <2>2, <2>4, <2>5, <2>6, <2>7 DEF FunctionIs
<1> QED
  BY <1>2, <1>3, <1>4, <1>5

LabelOps(n) == <<ICodeOperation_init("LABEL", n, 0)>>

LEMMA FuncCodeParts ==
  ASSUME NEW func, NEW body \in [code : Seq(ICodeOperation), next_label : Int], NEW head,
         head = LabelOps(func.name), NEW ops,
         Joins(ops, head, body.code), func.name \in Int
  PROVE  /\ FuncCode(func, 0, body).code = ops
         /\ FuncCode(func, 0, body).next_label = body.next_label
<1>1. FuncLabel(0, func.name) = func.name
  BY DEF FuncLabel
<1>2. FuncCode(func, 0, body) = [body EXCEPT !.code = ops]
  BY <1>1 DEF FuncCode, Joins, LabelOps
<1> QED
  BY <1>2

(* What accumulates in ProgCode. *)
Accumulates(up, n, start, parts) ==
  /\ up \in [0 .. n -> Seq(ICodeOperation)]
  /\ up[0] = start
  /\ \A i \in 1 .. n : Joins(up[i], up[i - 1], parts[i])

LEMMA Accumulated ==
  ASSUME NEW n \in Nat, NEW start \in Seq(ICodeOperation),
         NEW parts \in [1 .. n -> Seq(ICodeOperation)]
  PROVE  \E up : Accumulates(up, n, start, parts)
<1> DEFINE V == Seq(ICodeOperation)
           step == [i \in 1 .. n |-> [v \in V |-> v \o parts[i]]]
<1>1. \A v \in V, w \in V : v \o w \in V
  OBVIOUS
<1> HIDE DEF V
<1>2. step \in Steps(V, n)
  <2>1. \A i \in 1 .. n : [v \in V |-> v \o parts[i]] \in [V -> V]
    BY <1>1 DEF V
  <2> QED
    BY <2>1 DEF Steps
<1>3. PICK up \in [0 .. n -> V] : Solves(up, start, step, n)
  <2> HIDE DEF step
  <2>1. start \in V
    BY DEF V
  <2> QED
    BY <1>2, <2>1, RecursionHasSolution
<1>4. ASSUME NEW i \in 1 .. n
      PROVE  Joins(up[i], up[i - 1], parts[i])
  <2>1. i - 1 \in 0 .. n
    OBVIOUS
  <2>2. up[i - 1] \in V
    BY <2>1
  <2>3. step[i][up[i - 1]] = up[i - 1] \o parts[i]
    BY <2>2
  <2> HIDE DEF step
  <2> QED
    BY <1>3, <2>3 DEF Solves, Joins
<1>5. up[0] = start
  BY <1>3 DEF Solves
<1> QED
  BY <1>4, <1>5 DEF V, Accumulates

LEMMA ProgramLayout ==
  ASSUME NEW j, NEW tables, GeneratedWith(j, tables)
  PROVE  \E up : LaidOut(j, tables, up)
<1> DEFINE n == Len(j.prog)
           Body(func, label) == tables[func.name].comm_code[<<func.body, label>>]
           Is(g) == g = [i \in 0 .. n |->
             IF i = 0
             THEN Generated(<<ICodeOperation_init("JUMPLINK", FuncLabel(0, 0), 0),
                              ICodeOperation_init("HALT", 0, 0)>>,
                            0 + Prog_num_funcs(j.prog))
             ELSE LET next == FuncCode(j.prog[i], 0, Body(j.prog[i], g[i - 1].next_label))
                  IN  Generated(g[i - 1].code \o next.code, next.next_label)]
           upto == CHOOSE g : Is(g)
<1>1. j.code = upto[n].code
  BY DEF GeneratedWith, ProgCode
<1>2. /\ n \in Nat \ {0} /\ Prog_num_funcs(j.prog) = n
      /\ \A i \in 1 .. n : FunctionIs(j, tables, i)
  BY ProgramFacts
<1> HIDE DEF n
<1>3. PICK parts \in [1 .. n -> Seq(ICodeOperation)] :
        \A i \in 1 .. n : parts[i] = FunctionOps(tables, i)
  <2>1. ASSUME NEW i \in 1 .. n
        PROVE  FunctionOps(tables, i) \in Seq(ICodeOperation)
    <3>1. BodyOf(tables, i) \in [code : Seq(ICodeOperation), next_label : Int]
      BY <1>2 DEF FunctionIs
    <3>2. PICK inner \in Seq(ICodeOperation) : inner = BodyOf(tables, i).code
      BY <3>1
    <3>3. PICK head \in Seq(ICodeOperation) :
            head = <<ICodeOperation_init("LABEL", i - 1, 0)>>
      <4>1. i - 1 \in Int
        OBVIOUS
      <4> QED
        BY <4>1, LabelledHead DEF Labelled
    <3>4. head \o inner \in Seq(ICodeOperation)
      OBVIOUS
    <3> QED
      BY <3>2, <3>3, <3>4 DEF FunctionOps
  <2>2. [i \in 1 .. n |-> FunctionOps(tables, i)] \in [1 .. n -> Seq(ICodeOperation)]
    BY <2>1
  <2> QED
    BY <2>2
<1>4. Start \in Seq(ICodeOperation)
  <2>1. /\ ICodeOperation_init("JUMPLINK", 0, 0) \in ICodeOperation
        /\ ICodeOperation_init("HALT", 0, 0) \in ICodeOperation
    BY DEF ICodeOperation, ICodeOperation_init, Opcode
  <2>2. ASSUME NEW link \in ICodeOperation, NEW halt \in ICodeOperation
        PROVE  <<link, halt>> \in Seq(ICodeOperation)
    OBVIOUS
  <2> QED
    BY <2>1, <2>2 DEF Start
<1>5. PICK up : Accumulates(up, n, Start, parts)
  BY <1>2, <1>4, Accumulated
<1>6. /\ up \in [0 .. n -> Seq(ICodeOperation)]
      /\ up[0] = Start /\ \A i \in 1 .. n : Joins(up[i], up[i - 1], parts[i])
  BY <1>5 DEF Accumulates
<1> DEFINE G(i) == Generated(up[i], FreeAfter(j, tables, i))
           F == [i \in 0 .. n |-> G(i)]
<1>7. G(0) = Generated(<<ICodeOperation_init("JUMPLINK", FuncLabel(0, 0), 0),
                         ICodeOperation_init("HALT", 0, 0)>>,
                       0 + Prog_num_funcs(j.prog))
  <2>1. FuncLabel(0, 0) = 0 /\ 0 + Prog_num_funcs(j.prog) = Prog_num_funcs(j.prog)
    BY <1>2 DEF FuncLabel
  <2> QED
    BY <1>6, <2>1 DEF FreeAfter, Start
<1>8. ASSUME NEW i \in 1 .. n, NEW g, g = G(i - 1)
      PROVE  LET next == FuncCode(j.prog[i], 0, Body(j.prog[i], g.next_label))
             IN  Generated(g.code \o next.code, next.next_label) = G(i)
  <2>1. g.code = up[i - 1] /\ g.next_label = FreeAfter(j, tables, i - 1)
    BY <1>8, GeneratedParts
  <2>2. Body(j.prog[i], g.next_label) = BodyOf(tables, i)
    BY <1>2, <2>1 DEF FunctionIs, BodyOf
  <2>3. BodyOf(tables, i) \in [code : Seq(ICodeOperation), next_label : Int] /\ j.prog[i].name = i - 1
    BY <1>2 DEF FunctionIs
  <2>4. PICK head : /\ head = LabelOps(j.prog[i].name)
                    /\ Joins(parts[i], head, BodyOf(tables, i).code)
    BY <1>3, <2>3 DEF FunctionOps, Joins, LabelOps
  <2>5. PICK next : next = FuncCode(j.prog[i], 0, Body(j.prog[i], g.next_label))
    OBVIOUS
  <2>6. next.code = parts[i] /\ next.next_label = BodyOf(tables, i).next_label
    <3>1. PICK body \in [code : Seq(ICodeOperation), next_label : Int] : body = BodyOf(tables, i)
      BY <2>3
    <3>2. next = FuncCode(j.prog[i], 0, body) /\ Joins(parts[i], head, body.code)
      BY <2>2, <2>4, <2>5, <3>1
    <3>3. PICK func, ops : func = j.prog[i] /\ ops = parts[i]
      OBVIOUS
    <3>4. /\ func.name \in Int /\ head = LabelOps(func.name) /\ Joins(ops, head, body.code)
          /\ next = FuncCode(func, 0, body)
      BY <2>3, <2>4, <3>2, <3>3
    <3>5. next.code = ops /\ next.next_label = body.next_label
      BY <3>4, FuncCodeParts
    <3> QED
      BY <3>1, <3>3, <3>5
  <2>7. g.code \o next.code = up[i]
    BY <1>6, <2>1, <2>6 DEF Joins
  <2>8. next.next_label = FreeAfter(j, tables, i)
    BY <2>6 DEF FreeAfter
  <2> QED
    BY <2>5, <2>7, <2>8
<1>9. Is(F)
  <2>1. ASSUME NEW i \in 0 .. n, i # 0
        PROVE  G(i) = LET next == FuncCode(j.prog[i], 0, Body(j.prog[i], F[i - 1].next_label))
                      IN  Generated(F[i - 1].code \o next.code, next.next_label)
    <3>1. i \in 1 .. n /\ i - 1 \in 0 .. n
      BY <1>2, <2>1
    <3>2. F[i - 1] = G(i - 1)
      BY <3>1
    <3> HIDE DEF F, G, Body
    <3> QED
      BY <1>8, <3>1, <3>2
  <2> HIDE DEF G, Body
  <2> QED
    BY <1>7, <2>1
<1>10. Is(upto)
  <2> HIDE DEF Is
  <2> QED
    BY <1>9
<1> HIDE DEF upto
<1>11. upto[0] = G(0)
  <2>1. 0 \in 0 .. n
    BY <1>2
  <2>2. upto[0] = Generated(<<ICodeOperation_init("JUMPLINK", FuncLabel(0, 0), 0),
                              ICodeOperation_init("HALT", 0, 0)>>,
                            0 + Prog_num_funcs(j.prog))
    BY <1>10, <2>1
  <2> HIDE DEF G
  <2> QED
    BY <1>7, <2>2
<1>12. ASSUME NEW i \in 1 .. n, upto[i - 1] = G(i - 1)
       PROVE  upto[i] = G(i)
  <2>1. i \in 0 .. n /\ i # 0
    OBVIOUS
  <2>2. upto[i] = LET next == FuncCode(j.prog[i], 0, Body(j.prog[i], upto[i - 1].next_label))
                  IN  Generated(upto[i - 1].code \o next.code, next.next_label)
    <3> HIDE DEF Body
    <3> QED
      BY <1>10, <2>1
  <2> HIDE DEF G, Body
  <2> QED
    BY <1>8, <1>12, <2>2
<1>13. upto[n] = G(n)
  <2> DEFINE S == {m \in Nat : m <= n => upto[m] = G(m)}
  <2>1. 0 \in S
    BY <1>11
  <2>2. ASSUME NEW m \in Nat, m \in S
        PROVE  m + 1 \in S
    <3> SUFFICES ASSUME m + 1 <= n
                 PROVE  upto[m + 1] = G(m + 1)
      OBVIOUS
    <3>1. m + 1 \in 1 .. n /\ (m + 1) - 1 = m /\ m <= n
      BY <1>2
    <3>2. upto[m] = G(m)
      BY <2>2, <3>1
    <3> HIDE DEF G
    <3> QED
      BY <1>12, <3>1, <3>2
  <2> HIDE DEF S
  <2>3. Nat \subseteq S
    BY <2>1, <2>2, SetInduction
  <2> QED
    BY <1>2, <2>3 DEF S
<1>14. j.code = up[n]
  <2>1. PICK last : last = upto[n]
    OBVIOUS
  <2> QED
    BY <1>1, <1>13, <2>1, GeneratedParts
<1>15. LaidOut(j, tables, up)
  BY <1>3, <1>6, <1>14 DEF LaidOut, n
<1> QED
  BY <1>15

(* A function has the labels its command leaves behind, and that of its name. *)
LEMMA FunctionLabels ==
  ASSUME NEW j, NEW tables, GeneratedWith(j, tables), NEW i \in 1 .. Len(j.prog)
  PROVE  /\ FreeAfter(j, tables, i - 1) \in Int /\ FreeAfter(j, tables, i) \in Int
         /\ FreeAfter(j, tables, i - 1) <= FreeAfter(j, tables, i)
         /\ Labelled(BodyOf(tables, i).code,
                     FreeAfter(j, tables, i - 1) .. FreeAfter(j, tables, i) - 1)
<1>1. /\ Len(j.prog) \in Nat /\ Prog_num_funcs(j.prog) \in Nat /\ Functional(j)
      /\ FunctionIs(j, tables, i)
  BY ProgramFacts
<1>2. PICK t : t = tables[i - 1]
  OBVIOUS
<1>3. PICK f \in FunctionNames(j.prog) : f = i - 1
  BY <1>1 DEF FunctionIs
<1>4. TableOf(j, f, t) /\ t.body \in t.comms /\ t.body[2] = FreeAfter(j, tables, i - 1)
  <2>1. TableOf(j, f, t) /\ t.body \in t.comms
    BY <1>1, <1>2, <1>3 DEF FunctionIs
  <2>2. \E body : t.body = <<body, FreeAfter(j, tables, i - 1)>>
    BY <1>1, <1>2 DEF FunctionIs
  <2> QED
    BY <2>1, <2>2
<1>5. t.comm_code[t.body] = BodyOf(tables, i)
  BY <1>2 DEF BodyOf
<1>6. BodyOf(tables, i).next_label = FreeAfter(j, tables, i)
  BY DEF FreeAfter
<1>7. PICK c \in t.comms : c = t.body
  BY <1>4
<1>8. /\ c[2] \in Int /\ t.comm_code[c].next_label \in Int
      /\ c[2] <= t.comm_code[c].next_label
      /\ Labelled(t.comm_code[c].code, c[2] .. t.comm_code[c].next_label - 1)
  BY <1>1, <1>4, LabelledComm
<1> QED
  BY <1>4, <1>5, <1>6, <1>7, <1>8

LEMMA ProgramLabels ==
  ASSUME NEW j, NEW tables, GeneratedWith(j, tables), NEW up, LaidOut(j, tables, up)
  PROVE  \E L \in SUBSET Nat : Labelled(j.code, L)
<1>1. PICK n \in Nat : n = Len(j.prog) /\ n = Prog_num_funcs(j.prog)
  BY ProgramFacts
<1> DEFINE free(i) == FreeAfter(j, tables, i)
           labels(i) == 0 .. i - 1 \cup n .. free(i) - 1
           Well(i) == free(i) \in Int /\ n <= free(i) /\ Labelled(up[i], labels(i))
<1>2. free(0) = n
  BY <1>1 DEF FreeAfter
<1>3. Well(0)
  <2>1. /\ ICodeOperation_init("JUMPLINK", 0, 0) \in Silent
        /\ ICodeOperation_init("HALT", 0, 0) \in Silent
    BY DEF Silent, ICodeOperation, ICodeOperation_init, Opcode
  <2>2. ASSUME NEW link \in Silent, NEW halt \in Silent
        PROVE  <<link, halt>> \in Seq(Silent)
    OBVIOUS
  <2>3. Start \in Seq(Silent)
    BY <2>1, <2>2 DEF Start
  <2>4. Labelled(up[0], {})
    BY <2>3, SilentLabelled DEF LaidOut
  <2>5. Labelled(up[0], labels(0))
    BY <2>4, LabelledMore
  <2> QED
    BY <1>2, <2>5
<1>4. ASSUME NEW i \in 1 .. n, Well(i - 1)
      PROVE  Well(i)
  <2>1. PICK k \in Int, m \in Int : k = free(i - 1) /\ m = free(i)
    BY <1>1, FunctionLabels
  <2>2. k <= m /\ n <= k /\ Labelled(BodyOf(tables, i).code, k .. m - 1)
    BY <1>1, <1>4, <2>1, FunctionLabels
  <2>3. PICK head : head = LabelOps(i - 1)
    OBVIOUS
  <2>4. Joins(FunctionOps(tables, i), head, BodyOf(tables, i).code)
    BY <2>3 DEF FunctionOps, Joins, LabelOps
  <2>5. i - 1 \in Int
    OBVIOUS
  <2>6. Labelled(head, {i - 1})
    BY <2>3, <2>5, LabelledHead DEF LabelOps
  <2>7. PICK L, M : L = {i - 1} /\ M = k .. m - 1
    OBVIOUS
  <2>8. \A x \in L : x \notin M
    BY <2>2, <2>7
  <2>9. Labelled(FunctionOps(tables, i), L \cup M)
    BY <2>2, <2>4, <2>6, <2>7, <2>8, LabelledJoin
  <2>10. PICK B, N : B = labels(i - 1) /\ N = L \cup M
    OBVIOUS
  <2>11. \A x \in B : x \notin N
    BY <2>1, <2>2, <2>7, <2>10
  <2>12. Joins(up[i], up[i - 1], FunctionOps(tables, i))
    BY <1>1 DEF LaidOut
  <2>13. Labelled(up[i], B \cup N)
    BY <1>4, <2>9, <2>10, <2>11, <2>12, LabelledJoin
  <2>14. B \cup N \subseteq labels(i)
    BY <2>1, <2>2, <2>7, <2>10
  <2>15. Labelled(up[i], labels(i))
    BY <2>13, <2>14, LabelledMore
  <2> QED
    BY <2>1, <2>2, <2>15
<1> HIDE DEF Well
<1>5. Well(n)
  <2> DEFINE S == {m \in Nat : m <= n => Well(m)}
  <2>1. 0 \in S
    BY <1>3
  <2>2. ASSUME NEW m \in Nat, m \in S
        PROVE  m + 1 \in S
    <3> SUFFICES ASSUME m + 1 <= n
                 PROVE  Well(m + 1)
      OBVIOUS
    <3>1. m + 1 \in 1 .. n /\ (m + 1) - 1 = m /\ m <= n
      OBVIOUS
    <3>2. Well(m)
      BY <2>2, <3>1
    <3> QED
      BY <1>4, <3>1, <3>2
  <2> HIDE DEF S
  <2>3. Nat \subseteq S
    BY <2>1, <2>2, SetInduction
  <2> QED
    BY <2>3 DEF S
<1>6. Labelled(j.code, labels(n))
  BY <1>1, <1>5 DEF Well, LaidOut
<1>7. labels(n) \in SUBSET Nat
  BY <1>5 DEF Well
<1> QED
  BY <1>6, <1>7

LEMMA DifferentLabels ==
  ASSUME NEW j, NEW L \in SUBSET Nat, Labelled(j.code, L)
  PROVE  UniqueLabels(j) /\ NoNegativeLabel(j) /\ j.code \in Seq(ICodeOperation)
<1>1. j.code \in Seq(ICodeOperation) /\ Len(j.code) \in Nat
  BY DEF Labelled
<1>2. \A a \in Addresses(j.code) : /\ a + 1 \in 1 .. Len(j.code)
                                   /\ OperationAt(j.code, a) = j.code[a + 1]
  BY <1>1 DEF Addresses, OperationAt
<1>3. NoNegativeLabel(j)
  <2>1. \A a \in Addresses(j.code) :
          OperationAt(j.code, a).opc = "LABEL" => OperationAt(j.code, a).arg1 \in L
    BY <1>2 DEF Labelled
  <2>2. \A n \in L : n >= 0
    OBVIOUS
  <2> QED
    BY <2>1, <2>2 DEF NoNegativeLabel
<1>4. ASSUME NEW a \in Addresses(j.code), NEW b \in Addresses(j.code),
             OperationAt(j.code, a).opc = "LABEL", OperationAt(j.code, b).opc = "LABEL",
             OperationAt(j.code, a).arg1 = OperationAt(j.code, b).arg1
      PROVE  a = b
  <2>1. a + 1 = b + 1
    BY <1>2, <1>4 DEF Labelled
  <2> QED
    BY <1>1, <2>1 DEF Addresses
<1> QED
  BY <1>1, <1>3, <1>4 DEF UniqueLabels

(* Where they are. *)
LEMMA FunctionPlaced ==
  ASSUME NEW j, NEW tables, GeneratedWith(j, tables), NEW up, LaidOut(j, tables, up)
  PROVE  /\ CodeAt(j, 0, Start)
         /\ \A f \in FunctionNames(j.prog) :
              \E a \in Nat : /\ CodeAt(j, a, LabelOps(f))
                             /\ CodeAt(j, a + 1, BodyOf(tables, f + 1).code)
<1>1. PICK n \in Nat : n = Len(j.prog) /\ FunctionNames(j.prog) = 0 .. n - 1
  BY ProgramFacts
<1>2. /\ \A i \in 0 .. n : up[i] \in Seq(ICodeOperation)
      /\ j.code \in Seq(ICodeOperation) /\ Len(j.code) \in Nat
  <2>1. \A i \in 0 .. n : up[i] \in Seq(ICodeOperation)
    BY <1>1 DEF LaidOut
  <2>2. j.code \in Seq(ICodeOperation)
    BY <1>1, <2>1 DEF LaidOut
  <2> QED
    BY <2>1, <2>2
<1>3. ASSUME NEW i \in 1 .. n
      PROVE  /\ BodyOf(tables, i).code \in Seq(ICodeOperation)
             /\ LabelOps(i - 1) \in Seq(ICodeOperation) /\ Len(LabelOps(i - 1)) = 1
             /\ Joins(FunctionOps(tables, i), LabelOps(i - 1), BodyOf(tables, i).code)
             /\ FunctionOps(tables, i) \in Seq(ICodeOperation)
  <2>1. BodyOf(tables, i).code \in Seq(ICodeOperation)
    <3>1. BodyOf(tables, i) \in [code : Seq(ICodeOperation), next_label : Int]
      BY <1>1, ProgramFacts DEF FunctionIs
    <3> QED
      BY <3>1
  <2>2. i - 1 \in Int
    OBVIOUS
  <2>3. LabelOps(i - 1) \in Seq(ICodeOperation) /\ Len(LabelOps(i - 1)) = 1
    BY <2>2, LabelledHead DEF LabelOps, Labelled
  <2>4. Joins(FunctionOps(tables, i), LabelOps(i - 1), BodyOf(tables, i).code)
    BY DEF FunctionOps, Joins, LabelOps
  <2> QED
    BY <2>1, <2>3, <2>4, JoinsFacts
<1>4. ASSUME NEW i \in 1 .. n, CodeAt(j, 0, up[i])
      PROVE  /\ CodeAt(j, 0, up[i - 1])
             /\ CodeAt(j, Len(up[i - 1]), FunctionOps(tables, i))
  <2>1. PICK o \in Seq(ICodeOperation), part \in Seq(ICodeOperation) :
          o = up[i - 1] /\ part = FunctionOps(tables, i)
    <3>1. i - 1 \in 0 .. n
      OBVIOUS
    <3> QED
      BY <1>2, <1>3, <3>1
  <2>2. Joins(up[i], o, part)
    BY <1>1, <2>1 DEF LaidOut
  <2>3. PICK b : b = Len(o) /\ b = 0 + Len(o)
    OBVIOUS
  <2>4. 0 \in Nat
    OBVIOUS
  <2>5. CodeAt(j, 0, o) /\ CodeAt(j, b, part)
    BY <1>2, <1>4, <2>2, <2>3, <2>4, JoinedAt
  <2> QED
    BY <2>1, <2>3, <2>5
<1>5. CodeAt(j, 0, up[n])
  <2>1. up[n] = j.code
    BY <1>1 DEF LaidOut
  <2> QED
    BY <1>2, <2>1 DEF CodeAt
<1>6. ASSUME NEW i \in 0 .. n
      PROVE  CodeAt(j, 0, up[i])
  <2> DEFINE S == {k \in Nat : k <= n => CodeAt(j, 0, up[n - k])}
  <2>1. 0 \in S
    BY <1>5
  <2>2. ASSUME NEW k \in Nat, k \in S
        PROVE  k + 1 \in S
    <3> SUFFICES ASSUME k + 1 <= n
                 PROVE  CodeAt(j, 0, up[n - (k + 1)])
      OBVIOUS
    <3>1. PICK m \in 1 .. n : m = n - k
      OBVIOUS
    <3>2. CodeAt(j, 0, up[m]) /\ n - (k + 1) = m - 1
      BY <2>2, <3>1
    <3> QED
      BY <1>4, <3>2
  <2> HIDE DEF S
  <2>3. Nat \subseteq S
    BY <2>1, <2>2, SetInduction
  <2>4. PICK k \in Nat : k = n - i /\ i = n - k
    OBVIOUS
  <2> QED
    BY <2>3, <2>4 DEF S
<1>7. CodeAt(j, 0, Start)
  BY <1>6 DEF LaidOut
<1>8. ASSUME NEW f \in FunctionNames(j.prog)
      PROVE  \E a \in Nat : /\ CodeAt(j, a, LabelOps(f))
                            /\ CodeAt(j, a + 1, BodyOf(tables, f + 1).code)
  <2>1. PICK i \in 1 .. n : i = f + 1 /\ f = i - 1
    BY <1>1
  <2>2. PICK a \in Nat : a = Len(up[i - 1])
    <3>1. i - 1 \in 0 .. n
      OBVIOUS
    <3> QED
      BY <1>2, <3>1
  <2>3. i \in 0 .. n
    OBVIOUS
  <2>4. CodeAt(j, a, FunctionOps(tables, i))
    BY <1>4, <1>6, <2>2, <2>3
  <2>5. PICK b : b = a + Len(LabelOps(i - 1))
    OBVIOUS
  <2>6. CodeAt(j, a, LabelOps(i - 1)) /\ CodeAt(j, b, BodyOf(tables, i).code)
    <3>1. PICK o \in Seq(ICodeOperation), p \in Seq(ICodeOperation) :
            o = LabelOps(i - 1) /\ p = BodyOf(tables, i).code
      BY <1>3
    <3>2. PICK q : q = FunctionOps(tables, i)
      OBVIOUS
    <3>3. Joins(q, o, p) /\ CodeAt(j, a, q) /\ b = a + Len(o)
      BY <1>3, <2>4, <2>5, <3>1, <3>2
    <3>4. CodeAt(j, a, o) /\ CodeAt(j, b, p)
      BY <1>2, <3>1, <3>3, JoinedAt
    <3> QED
      BY <3>1, <3>4
  <2>7. b = a + 1
    BY <1>3, <2>5
  <2> QED
    BY <2>1, <2>6, <2>7
<1> QED
  BY <1>7, <1>8

(* A function starts where nothing is on the stack. *)
LEMMA EntryIsClean == \A f, a : EntryPoint(f, a) = There(f, a, Clean)
<1>1. Len(<<>>) = 0
  OBVIOUS
<1>2. /\ Clean.temps = <<>>
      /\ Clean.regs = Regs(Cell(0), Cell(-1), ReturnAddress, AnyThing, AnyThing)
  BY <1>1 DEF Clean, Normal, Known
<1> QED
  BY <1>2 DEF EntryPoint, There

(* Where the functions of a job start, and that their labels are there once. *)
LEMMA GeneratedSetting ==
  ASSUME NEW j, NEW tables, GeneratedWith(j, tables), NEW f \in FunctionNames(j.prog)
  PROVE  /\ UniqueLabels(j) /\ NoNegativeLabel(j)
         /\ Setting(j, Entries(j), f)
         /\ \E a \in Nat : /\ LabelSites(j.code, f) = {a}
                           /\ CodeAt(j, a, LabelOps(f))
                           /\ CodeAt(j, a + 1, BodyOf(tables, f + 1).code)
<1>1. PICK up : LaidOut(j, tables, up)
  BY ProgramLayout
<1>2. PICK L \in SUBSET Nat : Labelled(j.code, L)
  BY <1>1, ProgramLabels
<1>3. UniqueLabels(j) /\ NoNegativeLabel(j) /\ j.code \in Seq(ICodeOperation)
  BY <1>2, DifferentLabels
<1>4. Len(j.code) \in Nat
  BY <1>3
<1>5. ASSUME NEW g \in FunctionNames(j.prog)
      PROVE  \E a \in Nat : /\ LabelSites(j.code, g) = {a}
                            /\ CodeAt(j, a, LabelOps(g))
                            /\ CodeAt(j, a + 1, BodyOf(tables, g + 1).code)
  <2>1. PICK a \in Nat : /\ CodeAt(j, a, LabelOps(g))
                         /\ CodeAt(j, a + 1, BodyOf(tables, g + 1).code)
    BY <1>1, FunctionPlaced
  <2>2. LabelSites(j.code, g) = {a}
    BY <1>3, <1>4, <2>1, OneOperation, TheSite DEF LabelOps
  <2> QED
    BY <2>1, <2>2
<1>6. /\ Prog_num_funcs(j.prog) \in Nat /\ Functional(j)
      /\ \A g \in FunctionNames(j.prog) : g \in Nat
  BY ProgramFacts
<1>7. \A g \in FunctionNames(j.prog) : LabelSites(j.code, g) # {}
  BY <1>5
<1>8. Entries(j) \in SUBSET Point
  <2>1. ASSUME NEW g \in FunctionNames(j.prog), NEW a \in LabelSites(j.code, g)
        PROVE  EntryPoint(g, a) \in Point
    <3>1. a \in Nat
      BY <1>4 DEF LabelSites, Addresses
    <3> QED
      BY <1>6, <3>1, EntryIsClean, CleanFacts, ThereType
  <2> QED
    BY <2>1 DEF Entries
<1>9. Setting(j, Entries(j), f)
  BY <1>3, <1>6, <1>7, <1>8 DEF Setting
<1> QED
  BY <1>3, <1>5, <1>9

(* Taken together, the starts of the functions are good. *)
LEMMA GeneratedEntries ==
  ASSUME NEW j, NEW tables, GeneratedWith(j, tables), NEW p \in Entries(j)
  PROVE  /\ p.func \in FunctionNames(j.prog) /\ p.at \in Addresses(j.code) /\ Allowed(j, p)
         /\ \A s : Leads(j, p, s) => Good(j, Entries(j), s)
<1>1. PICK f \in FunctionNames(j.prog) : \E b \in LabelSites(j.code, f) : p = EntryPoint(f, b)
  BY DEF Entries
<1>2. UniqueLabels(j) /\ Setting(j, Entries(j), f)
  BY GeneratedSetting
<1>3. PICK a \in Nat : /\ LabelSites(j.code, f) = {a}
                       /\ CodeAt(j, a, LabelOps(f))
                       /\ CodeAt(j, a + 1, BodyOf(tables, f + 1).code)
  BY GeneratedSetting
<1>4. p = There(f, a, Clean)
  BY <1>1, <1>3, EntryIsClean
<1>5. Len(j.code) \in Nat
  BY <1>2, SettingFacts
<1>6. a \in Addresses(j.code) /\ OperationAt(j.code, a) = ICodeOperation_init("LABEL", f, 0)
  BY <1>3, <1>5, OneOperation DEF LabelOps
<1>7. /\ p.func \in FunctionNames(j.prog) /\ p.at = a
      /\ p.regs[STACK_POINTER] = Cell(0) /\ p.regs[FRAME_POINTER] = Cell(-1)
      /\ Forward(p) = There(f, a + 1, Clean)
      /\ OpAt(j, p) = ICodeOperation_init("LABEL", f, 0)
  BY <1>2, <1>4, <1>6, CleanPoints
<1>8. Allowed(j, p)
  BY <1>7 DEF Allowed, ICodeOperation_init
<1>9. \A s : Leads(j, p, s) => s = Forward(p)
  BY <1>7 DEF Leads, ICodeOperation_init
<1>10. Good(j, Entries(j), There(f, a + 1, Clean))
  <2>1. PICK i \in 1 .. Len(j.prog) : i = f + 1 /\ f = i - 1
    BY ProgramFacts
  <2>2. PICK t : t = tables[f]
    OBVIOUS
  <2>3. TableOf(j, f, t) /\ t.body \in t.comms /\ t.body \in t.returning
    <3>1. FunctionIs(j, tables, i)
      BY ProgramFacts
    <3> QED
      BY <2>1, <2>2, <3>1 DEF FunctionIs
  <2>4. PICK c \in t.comms : c = t.body
    BY <2>3
  <2>5. Ends(j, f, t.comm_code[c].code)
    BY <1>2, <2>3, <2>4, GoesComm
  <2>6. BodyOf(tables, f + 1) = t.comm_code[c]
    BY <2>1, <2>2, <2>4 DEF BodyOf
  <2>7. a + 1 \in Nat
    OBVIOUS
  <2> QED
    BY <1>2, <1>3, <2>5, <2>6, <2>7 DEF Ends
<1> QED
  BY <1>6, <1>7, <1>8, <1>9, <1>10

(* What the generator makes of a program is typed. *)
LEMMA GeneratedIsTyped ==
  ASSUME NEW j, IsGenerated(j)
  PROVE  IsTyped(j)
<1>1. PICK tables : GeneratedWith(j, tables)
  BY DEF IsGenerated
<1>2. Functional(j) /\ IntSized(j) /\ 0 \in FunctionNames(j.prog)
  BY <1>1, ProgramFacts
<1>3. UniqueLabels(j) /\ NoNegativeLabel(j) /\ Setting(j, Entries(j), 0)
  BY <1>1, <1>2, GeneratedSetting
<1>4. Entries(j) \in SUBSET Point
  BY <1>3 DEF Setting
<1> DEFINE P == AllConsistent(j, Entries(j)) \cup Entries(j)
<1>5. Consistent(j, P, {})
  BY <1>1, <1>4, GeneratedEntries, GoodTogether
<1>6. \A a \in LabelSites(j.code, 0) : \E q \in P : Covers(q, EntryPoint(0, a))
  <2>1. \A a \in LabelSites(j.code, 0) : EntryPoint(0, a) \in Entries(j)
    BY <1>2 DEF Entries
  <2> QED
    BY <2>1, CoversItself
<1>7. LabelSites(j.code, 0) # {}
  BY <1>2, <1>3 DEF Setting
<1>8. /\ Len(j.code) > 1
      /\ OperationAt(j.code, 0) = ICodeOperation_init("JUMPLINK", 0, 0)
      /\ OperationAt(j.code, 1) = ICodeOperation_init("HALT", 0, 0)
  <2>1. PICK up : LaidOut(j, tables, up)
    BY <1>1, ProgramLayout
  <2>2. CodeAt(j, 0, Start) /\ Len(j.code) \in Nat
    BY <1>1, <1>3, <2>1, FunctionPlaced, SettingFacts
  <2>3. PICK link, halt : /\ link = ICodeOperation_init("JUMPLINK", 0, 0)
                          /\ halt = ICodeOperation_init("HALT", 0, 0)
    OBVIOUS
  <2>4. CodeAt(j, 0, <<link, halt>>)
    BY <2>2, <2>3 DEF Start
  <2>5. 0 \in Nat
    OBVIOUS
  <2>6. CodeAt(j, 0, <<link>>) /\ CodeAt(j, 0 + 1, <<halt>>)
    BY <2>2, <2>4, <2>5, TwoAt
  <2>7. PICK one \in Nat : one = 0 + 1 /\ one = 1
    OBVIOUS
  <2>8. /\ 0 \in Addresses(j.code) /\ OperationAt(j.code, 0) = link
        /\ one \in Addresses(j.code) /\ OperationAt(j.code, one) = halt
    BY <2>2, <2>5, <2>6, <2>7, OneOperation
  <2>9. Len(j.code) > 1
    BY <2>2, <2>7, <2>8 DEF Addresses
  <2> QED
    BY <2>3, <2>7, <2>8, <2>9
<1>9. StartsIn(j, P)
  <2> HIDE DEF P
  <2> QED
    BY <1>2, <1>6, <1>7, <1>8 DEF StartsIn, ICodeOperation_init
<1> QED
  BY <1>2, <1>3, <1>5, <1>9 DEF IsTyped

(***************************************************************************)
(* The calling convention, for all the programs the generator may be given. *)
(***************************************************************************)
LEMMA GeneratedJobsAreTyped == GeneratedJobs => TypedJobs
BY GeneratedIsTyped DEF GeneratedJobs, TypedJobs

LEMMA GeneratedConvention == ASSUME GeneratedJobs PROVE CSpec => []Convention
BY GeneratedJobsAreTyped, TypedJobsConvention

(* Whatever program it was generated from, the code never reads a register, nor
   loads a stack cell, that nobody wrote. *)
THEOREM NeverUsesUninitialised ==
  ASSUME GeneratedJobs
  PROVE  CSpec => []NothingUninitialisedIsUsed
<1>1. TypedJobs
  BY GeneratedJobsAreTyped
<1>2. Convention => NothingUninitialisedIsUsed
  BY <1>1, ConventionUses
<1> QED
  BY <1>2, GeneratedConvention, PTL

(* The register file, sized by a scan that overlooks the registers of tests, has every
   register that generated code names. *)
THEOREM RegistersAlwaysAllocated ==
  ASSUME GeneratedJobs
  PROVE  CSpec => []RegistersAreAllocated
<1>1. TypedJobs
  BY GeneratedJobsAreTyped
<1>2. Convention => RegistersAreAllocated
  BY <1>1, ConventionRegisters
<1> QED
  BY <1>2, GeneratedConvention, PTL

(* However deep the calls, a function leaves alone what lies below its frame: what
   its callers saved there, their variables and their temporaries. *)
THEOREM NeverTouchesCallers ==
  ASSUME GeneratedJobs
  PROVE  CSpec => []CallersAreUntouched
<1>1. Convention => CallersAreUntouched
  BY DEF Convention
<1> QED
  BY <1>1, GeneratedConvention, PTL

(* A function returns to the call that entered it, with the stack pointer and the
   frame pointer it was entered with. *)
THEOREM AlwaysReturnsAsEntered ==
  ASSUME GeneratedJobs
  PROVE  CSpec => ReturnsAsEntered
<1>1. TypedJobs
  BY GeneratedJobsAreTyped
<1> DEFINE Exits ==
      Executing("JUMPADDR") =>
        /\ activations # <<>>
        /\ LET entry == activations[Len(activations)]
           IN  pc' = entry.ra /\ SP = entry.sp /\ FP = entry.fp
<1>2. Convention /\ [CNext]_cvars => [Exits]_cvars
  BY <1>1, ConventionReturns
<1>3. CSpec => [][Exits]_cvars
  <2> HIDE DEF Exits
  <2> QED
    BY <1>2, GeneratedConvention, PTL DEF CSpec
<1> QED
  BY <1>3 DEF ReturnsAsEntered

(* At every label, in a loop too, the stack is as high as it was on entry. *)
THEOREM LabelsAlwaysClean ==
  ASSUME GeneratedJobs
  PROVE  CSpec => []LabelsAreClean
<1>1. TypedJobs
  BY GeneratedJobsAreTyped
<1>2. Convention => LabelsAreClean
  BY <1>1, ConventionLabels
<1> QED
  BY <1>2, GeneratedConvention, PTL

(* The code halts with nothing but the stack it was started with, and the only errors
   of the machine it can meet are the stack overflow and, if that stack held no frame
   for main, the underflow. *)
THEOREM AlwaysHaltsClean ==
  ASSUME GeneratedJobs
  PROVE  CSpec => []HaltsClean /\ []OnlyOverflowAborts
<1>1. TypedJobs
  BY GeneratedJobsAreTyped
<1>2. Convention => HaltsClean /\ OnlyOverflowAborts
  BY <1>1, ConventionHalts
<1> QED
  BY <1>2, GeneratedConvention, PTL

(* No step depends on memory that nobody wrote, nor on a label that is not there:
   what the machine does next is determined. *)
THEOREM NeverDependsOnLuck ==
  ASSUME GeneratedJobs
  PROVE  CSpec => [](status = "running" => ~IsOpen(code, registers, stack))
<1>1. TypedJobs
  BY GeneratedJobsAreTyped
<1>2. Convention => (status = "running" => ~IsOpen(code, registers, stack))
  BY <1>1, ConventionCloses
<1> QED
  BY <1>2, GeneratedConvention, PTL

(***************************************************************************)
(* Part 4: what generated code computes.                                   *)
(*                                                                         *)
(* The operations take the machine from point to point (Takes, and the     *)
(* lemmas of ICodeMachine_proof), and so does each template of the code    *)
(* generator, and then, by induction on the calls of the interpreter, the  *)
(* code of every term: an expression's puts its value in the accumulator,  *)
(* a command's makes of the frame the store that the interpreter leaves.   *)
(***************************************************************************)
(* A value is pushed. *)
LEMMA TakesPush ==
  ASSUME NEW j, NEW F, Runnable(j, F), NEW a \in Nat, NEW x \in Named,
         x # STACK_POINTER, CodeAt(j, a, Push(x)),
         NEW m \in Seq(Word), Len(m) <= StackSize, NEW fp, NEW ra \in Value, NEW acc, NEW t \in Value,
         NEW v \in Word, Regs(Len(m), fp, ra, acc, t)[x] = v
  PROVE  Takes(j, F, View(F, a, Regs(Len(m), fp, ra, acc, t), m),
               State(F, a + 3, Append(m, v), fp, ra))
<1> DEFINE l == Len(m)
           n == Append(m, v)
           r0 == Regs(l, fp, ra, acc, t)
           r1 == Regs(l, fp, ra, 1, t)
           r2 == Regs(l + 1, fp, ra, 1, t)
<1>1. /\ Len(j.code) \in Nat /\ StackSize \in Nat /\ StackSize <= MaxInt /\ MaxInt \in Nat
      /\ Word \subseteq Value /\ Word \subseteq Int
  BY Numbers
<1>2. /\ CodeAt(j, a, <<ICodeOperation_init("STORE", x, STACK_POINTER)>>)
      /\ CodeAt(j, a + 1, <<ICodeOperation_init("LOADIMM", 1, ACCUMULATOR)>>)
      /\ CodeAt(j, a + 2, <<ICodeOperation_init("ADD", STACK_POINTER, ACCUMULATOR)>>)
  BY <1>1, ThreeAt DEF Push
<1>3. l \in Nat /\ l <= StackSize
  OBVIOUS
<1>4. n \in Seq(Word) /\ Len(n) = l + 1 /\ n[l + 1] = v /\ \A k \in 1 .. l : n[k] = m[k]
  OBVIOUS
<1>5. StoredAt(m, n, l + 1, v)
  BY <1>3, <1>4 DEF StoredAt
<1>6. r0[STACK_POINTER] = (l + 1) - 1 /\ r0[x] = v
  BY <1>3, RegsThere
<1> HIDE DEF n
<1>7. Takes(j, F, View(F, a, r0, m), View(F, a + 1, r0, n))
  <2>1. l + 1 \in Nat \ {0}
    BY <1>3
  <2> HIDE DEF r0, l
  <2> QED
    BY <1>2, <1>5, <1>6, <2>1, NamedThere, TakesStore
<1>8. Takes(j, F, View(F, a + 1, r0, n), View(F, a + 2, r1, n))
  <2>1. IsPut(r1, r0, ACCUMULATOR, 1)
    BY RegsPut
  <2>2. PICK b \in Nat : b = a + 1 /\ b + 1 = a + 2
    OBVIOUS
  <2> HIDE DEF r0, r1
  <2> QED
    BY <1>2, <2>1, <2>2, NamedThere, TakesLoadImm
<1>9. CASE l + 1 <= StackSize
  <2>1. l \in Word /\ 1 \in Word /\ Wrap(l + 1) = l + 1
    BY <1>1, <1>3, <1>9, SmallNumbers
  <2>2. r1[STACK_POINTER] = l /\ r1[ACCUMULATOR] = 1
    BY RegsThere
  <2>3. Combined("ADD", l, 1) = l + 1
    BY <2>1 DEF Combined
  <2>4. IsPut(r2, r1, STACK_POINTER, Combined("ADD", l, 1))
    BY <2>3, RegsPut
  <2>5. PICK b \in Nat : b = a + 2 /\ b + 1 = a + 3
    OBVIOUS
  <2>6. Takes(j, F, View(F, a + 2, r1, n), View(F, a + 3, r2, n))
    <3> HIDE DEF r1, r2
    <3> QED
      BY <1>2, <2>1, <2>2, <2>4, <2>5, NamedThere, TakesCombining
  <2>7. View(F, a + 3, r2, n) \subseteq State(F, a + 3, n, fp, ra)
    <3>1. 1 \in Value
      BY <1>1, <2>1
    <3>2. r2 = Regs(Len(n), fp, ra, 1, t)
      BY <1>4
    <3> HIDE DEF r2
    <3> QED
      BY <3>1, <3>2, ViewIsState
  <2> HIDE DEF r0, r1, r2
  <2>8. Takes(j, F, View(F, a, r0, m), View(F, a + 3, r2, n))
    BY <1>7, <1>8, <2>6, TakesThen
  <2>9. Takes(j, F, View(F, a, r0, m), State(F, a + 3, n, fp, ra))
    BY <2>7, <2>8, TakesFewer
  <2> QED
    BY <2>9 DEF r0, n
<1>10. CASE l + 1 > StackSize
  <2>1. View(F, a + 1, r0, n) = {}
    BY <1>1, <1>3, <1>4, <1>10 DEF View
  <2>2. View(F, a + 1, r0, n) \subseteq State(F, a + 3, n, fp, ra)
    BY <2>1
  <2> HIDE DEF r0
  <2>3. Takes(j, F, View(F, a, r0, m), State(F, a + 3, n, fp, ra))
    BY <1>7, <2>2, TakesFewer
  <2> QED
    BY <2>3 DEF r0, n
<1> QED
  BY <1>1, <1>3, <1>9, <1>10

(* ... the caller's frame pointer, its return address, a result, a zero. *)
LEMMA StatePushes ==
  ASSUME NEW j, NEW F, Runnable(j, F), NEW a \in Nat, NEW m \in Seq(Word),
         NEW fp \in Word, NEW ra \in Value
  PROVE  /\ CodeAt(j, a, Push(FRAME_POINTER)) =>
              Takes(j, F, State(F, a, m, fp, ra), State(F, a + 3, Append(m, fp), fp, ra))
         /\ ra \in Word /\ CodeAt(j, a, Push(RETURN_ADDRESS)) =>
              Takes(j, F, State(F, a, m, fp, ra), State(F, a + 3, Append(m, ra), fp, ra))
<1>1. ASSUME NEW x \in {FRAME_POINTER, RETURN_ADDRESS}, CodeAt(j, a, Push(x)),
             NEW v \in Word, \A acc, t : Regs(Len(m), fp, ra, acc, t)[x] = v
      PROVE  Takes(j, F, State(F, a, m, fp, ra), State(F, a + 3, Append(m, v), fp, ra))
  <2>1. x \in Named /\ x # STACK_POINTER
    BY NamedThere DEF FRAME_POINTER, RETURN_ADDRESS, STACK_POINTER
  <2>2. ASSUME NEW acc \in Value, NEW t \in Value, Len(m) <= StackSize
        PROVE  Takes(j, F, View(F, a, Regs(Len(m), fp, ra, acc, t), m),
                     State(F, a + 3, Append(m, v), fp, ra))
    BY <1>1, <2>1, <2>2, TakesPush
  <2> QED
    BY <2>2, FromState
<1> QED
  BY <1>1, RegsThere

LEMMA HavingPushes ==
  ASSUME NEW j, NEW F, Runnable(j, F), NEW a \in Nat, NEW m \in Seq(Word),
         NEW fp, NEW ra \in Value, NEW v \in Word, CodeAt(j, a, Push(ACCUMULATOR))
  PROVE  Takes(j, F, Having(F, a, m, fp, ra, v), State(F, a + 3, Append(m, v), fp, ra))
<1>1. ACCUMULATOR \in Named /\ ACCUMULATOR # STACK_POINTER
  BY NamedThere DEF ACCUMULATOR, STACK_POINTER
<1>2. ASSUME NEW t \in Value, Len(m) <= StackSize
      PROVE  Takes(j, F, View(F, a, Regs(Len(m), fp, ra, v, t), m),
                   State(F, a + 3, Append(m, v), fp, ra))
  <2>1. Regs(Len(m), fp, ra, v, t)[ACCUMULATOR] = v
    BY RegsThere
  <2> QED
    BY <1>1, <1>2, <2>1, TakesPush
<1> QED
  BY <1>2, FromHaving

(* A literal in the accumulator. *)
LEMMA StateLoads ==
  ASSUME NEW j, NEW F, Runnable(j, F), NEW a \in Nat, NEW m, NEW fp, NEW ra, NEW n,
         CodeAt(j, a, <<ICodeOperation_init("LOADIMM", n, ACCUMULATOR)>>)
  PROVE  /\ n \in Word
         /\ Takes(j, F, State(F, a, m, fp, ra), Having(F, a + 1, m, fp, ra, n))
<1>0. n \in Word /\ Word \subseteq Value
  BY OperationThere DEF ICodeOperation_init
<1>1. ASSUME NEW acc \in Value, NEW t \in Value
      PROVE  Takes(j, F, View(F, a, Regs(Len(m), fp, ra, acc, t), m),
                   Having(F, a + 1, m, fp, ra, n))
  <2> DEFINE r0 == Regs(Len(m), fp, ra, acc, t)
             r1 == Regs(Len(m), fp, ra, n, t)
  <2>1. IsPut(r1, r0, ACCUMULATOR, n)
    BY RegsPut
  <2>2. View(F, a + 1, r1, m) \subseteq Having(F, a + 1, m, fp, ra, n)
    BY <1>0, ViewIsState
  <2> HIDE DEF r0, r1
  <2>3. Takes(j, F, View(F, a, r0, m), View(F, a + 1, r1, m))
    BY <2>1, NamedThere, TakesLoadImm
  <2>4. Takes(j, F, View(F, a, r0, m), Having(F, a + 1, m, fp, ra, n))
    BY <2>2, <2>3, TakesFewer
  <2> QED
    BY <2>4 DEF r0
<1> QED
  BY <1>0, <1>1, FromState

LEMMA StatePushesZero ==
  ASSUME NEW j, NEW F, Runnable(j, F), NEW a \in Nat, NEW m \in Seq(Word),
         NEW fp, NEW ra \in Value, CodeAt(j, a, PushZero)
  PROVE  0 \in Word /\ Takes(j, F, State(F, a, m, fp, ra), State(F, a + 4, Append(m, 0), fp, ra))
<1> DEFINE load == <<ICodeOperation_init("LOADIMM", 0, ACCUMULATOR)>>
           rest == Push(ACCUMULATOR)
<1>1. load \in Seq(ICodeOperation) /\ rest \in Seq(ICodeOperation) /\ Len(load) = 1
  BY DEF Push, ICodeOperation, ICodeOperation_init, Opcode, ACCUMULATOR, STACK_POINTER
<1>2. Joins(PushZero, load, rest)
  BY DEF Joins, PushZero
<1>3. Len(j.code) \in Nat
  BY Numbers
<1>4. PICK b \in Nat : b = a + 1 /\ b + 3 = a + 4
  OBVIOUS
<1>5. CodeAt(j, a, load) /\ CodeAt(j, b, rest)
  <2> HIDE DEF load, rest
  <2> QED
    BY <1>1, <1>2, <1>3, <1>4, JoinedAt
<1>6. 0 \in Word /\ Takes(j, F, State(F, a, m, fp, ra), Having(F, b, m, fp, ra, 0))
  BY <1>4, <1>5, StateLoads
<1>7. Takes(j, F, Having(F, b, m, fp, ra, 0), State(F, a + 4, Append(m, 0), fp, ra))
  BY <1>4, <1>5, <1>6, HavingPushes
<1> QED
  BY <1>6, <1>7, TakesThen

(* What begins with m begins with what m begins with. *)
Begins(p, m) == Len(p) <= Len(m) /\ \A i \in 1 .. Len(p) : m[i] = p[i]

LEMMA ViewBegins ==
  ASSUME NEW F, NEW a, NEW r, NEW m \in Seq(Word), NEW p \in Seq(Word), Begins(p, m)
  PROVE  View(F, a, r, m) \subseteq View(F, a, r, p)
<1>1. Len(p) \in Nat /\ Len(m) \in Nat /\ StackSize \in Nat
  BY StackSizeAssumption, MaxIntAssumption
<1>2. ASSUME NEW c \in View(F, a, r, m)
      PROVE  c \in View(F, a, r, p)
  <2>1. Len(p) <= StackSize
    BY <1>1 DEF View, Begins
  <2>2. \A i \in 1 .. Len(p) : c.stack[i - 1] = p[i]
    BY <1>1 DEF View, Begins
  <2> QED
    BY <2>1, <2>2 DEF View
<1> QED
  BY <1>2

(* The stack pointer moves down. *)
LEMMA TakesDrop ==
  ASSUME NEW j, NEW F, Runnable(j, F), NEW a \in Nat, NEW n \in Nat, CodeAt(j, a, Drop(n)),
         NEW m, NEW s \in Nat, s <= StackSize, n <= s, NEW fp, NEW ra, NEW acc, NEW t
  PROVE  /\ n \in Value
         /\ Takes(j, F, View(F, a, Regs(s, fp, ra, acc, t), m),
                  View(F, a + 2, Regs(s - n, fp, ra, acc, n), m))
<1> DEFINE r0 == Regs(s, fp, ra, acc, t)
           r1 == Regs(s, fp, ra, acc, n)
           r2 == Regs(s - n, fp, ra, acc, n)
<1>1. /\ Len(j.code) \in Nat /\ StackSize \in Nat /\ StackSize <= MaxInt /\ MaxInt \in Nat
      /\ Word \subseteq Value
  BY Numbers
<1>2. /\ CodeAt(j, a, <<ICodeOperation_init("LOADIMM", n, TEMPORARY)>>)
      /\ CodeAt(j, a + 1, <<ICodeOperation_init("SUB", STACK_POINTER, TEMPORARY)>>)
  BY <1>1, TwoAt DEF Drop
<1>3. s \in Word /\ n \in Word /\ Wrap(s - n) = s - n
  BY <1>1, SmallNumbers
<1>4. IsPut(r1, r0, TEMPORARY, n) /\ IsPut(r2, r1, STACK_POINTER, Combined("SUB", s, n))
  BY <1>3, RegsPut DEF Combined
<1>5. r1[STACK_POINTER] = s /\ r1[TEMPORARY] = n
  BY RegsThere
<1>6. PICK b \in Nat : b = a + 1 /\ b + 1 = a + 2
  OBVIOUS
<1> HIDE DEF r0, r1, r2
<1>7. Takes(j, F, View(F, a, r0, m), View(F, b, r1, m))
  BY <1>2, <1>4, <1>6, NamedThere, TakesLoadImm
<1>8. Takes(j, F, View(F, b, r1, m), View(F, a + 2, r2, m))
  BY <1>2, <1>3, <1>4, <1>5, <1>6, NamedThere, TakesCombining
<1>9. Takes(j, F, View(F, a, r0, m), View(F, a + 2, r2, m))
  BY <1>7, <1>8, TakesThen
<1> QED
  BY <1>1, <1>3, <1>9 DEF r0, r2

(* And what it then points to is read. *)
LEMMA TakesPop ==
  ASSUME NEW j, NEW F, Runnable(j, F), NEW a \in Nat, NEW x \in Named, CodeAt(j, a, Pop(x)),
         NEW m \in Seq(Word), NEW s \in 1 .. Len(m), Len(m) <= StackSize,
         NEW fp, NEW ra, NEW acc, NEW t,
         NEW q, IsPut(q, Regs(s - 1, fp, ra, acc, 1), x, m[s])
  PROVE  /\ 1 \in Value
         /\ Takes(j, F, View(F, a, Regs(s, fp, ra, acc, t), m), View(F, a + 3, q, m))
<1> DEFINE r0 == Regs(s, fp, ra, acc, t)
           r1 == Regs(s - 1, fp, ra, acc, 1)
           load == <<ICodeOperation_init("LOAD", STACK_POINTER, x)>>
<1>1. Len(j.code) \in Nat /\ StackSize \in Nat /\ x \in Int
  BY Numbers DEF Named, STACK_POINTER, FRAME_POINTER, RETURN_ADDRESS, ACCUMULATOR, TEMPORARY
<1>2. Drop(1) \in Seq(ICodeOperation) /\ load \in Seq(ICodeOperation) /\ Len(Drop(1)) = 2
  BY <1>1 DEF Drop, ICodeOperation, ICodeOperation_init, Opcode, TEMPORARY, STACK_POINTER
<1>3. Joins(Pop(x), Drop(1), load)
  <2>1. ICodeOperation_init("LOAD", STACK_POINTER, x) \in ICodeOperation
    BY <1>1 DEF ICodeOperation, ICodeOperation_init, Opcode, STACK_POINTER
  <2>2. \A d \in Seq(ICodeOperation), o \in ICodeOperation : Append(d, o) = d \o <<o>>
    OBVIOUS
  <2> QED
    BY <1>2, <2>1, <2>2 DEF Joins, Pop
<1>4. PICK b \in Nat : b = a + 2 /\ b + 1 = a + 3
  OBVIOUS
<1>5. CodeAt(j, a, Drop(1)) /\ CodeAt(j, b, load)
  <2>1. b = a + Len(Drop(1))
    BY <1>2, <1>4
  <2> HIDE DEF load
  <2> QED
    BY <1>1, <1>2, <1>3, <2>1, JoinedAt
<1>6. s \in Nat /\ s <= StackSize /\ 1 <= s /\ 1 \in Nat
  BY <1>1
<1>7. r1[STACK_POINTER] = s - 1
  BY RegsThere
<1>8. 1 \in Value /\ Takes(j, F, View(F, a, r0, m), View(F, b, r1, m))
  BY <1>4, <1>5, <1>6, TakesDrop
<1> HIDE DEF r0, r1
<1>9. Takes(j, F, View(F, b, r1, m), View(F, a + 3, q, m))
  BY <1>4, <1>5, <1>7, NamedThere, TakesLoad DEF r1
<1>10. Takes(j, F, View(F, a, r0, m), View(F, a + 3, q, m))
  BY <1>8, <1>9, TakesThen
<1> QED
  BY <1>8, <1>10 DEF r0

(* The other operand is popped, and the two are combined. *)
BinaryEnd(opc) == Pop(TEMPORARY) \o <<ICodeOperation_init(opc, ACCUMULATOR, TEMPORARY)>>

LEMMA HavingCombines ==
  ASSUME NEW j, NEW F, Runnable(j, F), NEW a \in Nat, NEW opc \in {"ADD", "SUB"},
         CodeAt(j, a, BinaryEnd(opc)), NEW m \in Seq(Word), NEW fp, NEW ra,
         NEW v \in Word, NEW w \in Word
  PROVE  Takes(j, F, Having(F, a, Append(m, w), fp, ra, v),
               Having(F, a + 4, m, fp, ra, Combined(opc, v, w)))
<1> DEFINE s == Len(m) + 1
           n == Append(m, w)
           u == Combined(opc, v, w)
           last == <<ICodeOperation_init(opc, ACCUMULATOR, TEMPORARY)>>
<1>1. /\ Len(j.code) \in Nat /\ Word \subseteq Value
  BY Numbers
<1>2. Pop(TEMPORARY) \in Seq(ICodeOperation) /\ last \in Seq(ICodeOperation)
      /\ Len(Pop(TEMPORARY)) = 3
  BY DEF Pop, Drop, ICodeOperation, ICodeOperation_init, Opcode, TEMPORARY, STACK_POINTER, ACCUMULATOR
<1>3. Joins(BinaryEnd(opc), Pop(TEMPORARY), last)
  BY DEF Joins, BinaryEnd
<1>4. PICK b \in Nat : b = a + 3 /\ b + 1 = a + 4
  OBVIOUS
<1>5. CodeAt(j, a, Pop(TEMPORARY)) /\ CodeAt(j, b, last)
  <2>1. b = a + Len(Pop(TEMPORARY))
    BY <1>2, <1>4
  <2> HIDE DEF last
  <2> QED
    BY <1>1, <1>2, <1>3, <2>1, JoinedAt
<1>6. n \in Seq(Word) /\ Len(n) = s /\ n[s] = w /\ s \in 1 .. Len(n) /\ s - 1 = Len(m) /\ Begins(m, n)
  BY DEF Begins
<1>7. u \in Word
  BY WrapsToWord
<1>8. ASSUME NEW t \in Value, Len(n) <= StackSize
      PROVE  Takes(j, F, View(F, a, Regs(Len(n), fp, ra, v, t), n),
                   Having(F, a + 4, m, fp, ra, u))
  <2> DEFINE r0 == Regs(s, fp, ra, v, t)
             r1 == Regs(s - 1, fp, ra, v, 1)
             r2 == Regs(s - 1, fp, ra, v, w)
             r3 == Regs(s - 1, fp, ra, u, w)
  <2> HIDE DEF n, s, u
  <2>1. IsPut(r2, r1, TEMPORARY, w) /\ IsPut(r3, r2, ACCUMULATOR, u)
    BY RegsPut
  <2>2. r2[ACCUMULATOR] = v /\ r2[TEMPORARY] = w
    BY RegsThere
  <2>3. Takes(j, F, View(F, a, r0, n), View(F, b, r2, n))
    <3>1. IsPut(r2, Regs(s - 1, fp, ra, v, 1), TEMPORARY, n[s])
      BY <1>6, <2>1
    <3> HIDE DEF r2
    <3> QED
      BY <1>4, <1>5, <1>6, <1>8, <3>1, NamedThere, TakesPop
  <2>4. Takes(j, F, View(F, b, r2, n), View(F, b + 1, r3, n))
    <3> HIDE DEF r2, r3
    <3> QED
      BY <1>5, <2>1, <2>2, NamedThere, TakesCombining DEF u
  <2>5. View(F, b + 1, r3, n) \subseteq Having(F, a + 4, m, fp, ra, u)
    <3>1. View(F, b + 1, r3, n) \subseteq View(F, b + 1, r3, m)
      BY <1>6, ViewBegins
    <3>2. View(F, a + 4, Regs(Len(m), fp, ra, u, w), m) \subseteq Having(F, a + 4, m, fp, ra, u)
      BY <1>1, <1>7, ViewIsState
    <3> QED
      BY <1>4, <1>6, <3>1, <3>2
  <2>6. Takes(j, F, View(F, a, r0, n), View(F, b + 1, r3, n))
    BY <2>3, <2>4, TakesThen
  <2> QED
    BY <1>6, <2>5, <2>6, TakesFewer
<1>9. Takes(j, F, Having(F, a, n, fp, ra, v), Having(F, a + 4, m, fp, ra, u))
  BY <1>8, FromHaving
<1> QED
  BY <1>9

(* Variables are read and written where they are in the frame. *)
LEMMA StateReads ==
  ASSUME NEW j, NEW F, Runnable(j, F), NEW a \in Nat, NEW name \in Nat,
         CodeAt(j, a, LoadVariable(name)), NEW m \in Seq(Word), NEW fp \in Word, NEW ra,
         NEW i \in 1 .. Len(m), fp - name = i - 1
  PROVE  Takes(j, F, State(F, a, m, fp, ra), Having(F, a + 4, m, fp, ra, m[i]))
<1>1. /\ Len(j.code) \in Nat /\ StackSize \in Nat /\ StackSize <= MaxInt /\ MaxInt \in Nat
      /\ Word \subseteq Value /\ Word \subseteq Int /\ m[i] \in Word
  BY Numbers
<1>2. /\ CodeAt(j, a, <<ICodeOperation_init("LOADIMM", name, ACCUMULATOR)>>)
      /\ CodeAt(j, a + 1, <<ICodeOperation_init("MOVE", FRAME_POINTER, TEMPORARY)>>)
      /\ CodeAt(j, a + 2, <<ICodeOperation_init("SUB", TEMPORARY, ACCUMULATOR)>>)
      /\ CodeAt(j, a + 3, <<ICodeOperation_init("LOAD", TEMPORARY, ACCUMULATOR)>>)
  BY <1>1, ThreeAt, FourAt DEF LoadVariable
<1>3. PICK b \in Nat : b = a + 1 /\ b + 1 = a + 2
  OBVIOUS
<1>4. PICK c \in Nat : c = a + 2 /\ c + 1 = a + 3
  OBVIOUS
<1>5. PICK d \in Nat : d = a + 3 /\ d + 1 = a + 4
  OBVIOUS
<1>6. name \in Word
  BY <1>2, OperationThere DEF ICodeOperation_init
<1>7. ASSUME NEW acc \in Value, NEW t \in Value, Len(m) <= StackSize
      PROVE  Takes(j, F, View(F, a, Regs(Len(m), fp, ra, acc, t), m),
                   Having(F, a + 4, m, fp, ra, m[i]))
  <2> DEFINE l == Len(m)
             r0 == Regs(l, fp, ra, acc, t)
             r1 == Regs(l, fp, ra, name, t)
             r2 == Regs(l, fp, ra, name, fp)
             r3 == Regs(l, fp, ra, name, i - 1)
             r4 == Regs(l, fp, ra, m[i], i - 1)
  <2>0. i - 1 \in Value /\ i - 1 \in Word /\ Wrap(i - 1) = i - 1
    BY <1>1, <1>7, SmallNumbers
  <2>1. Combined("SUB", fp, name) = i - 1
    BY <2>0 DEF Combined
  <2>2. /\ IsPut(r1, r0, ACCUMULATOR, name) /\ IsPut(r2, r1, TEMPORARY, fp)
        /\ IsPut(r3, r2, TEMPORARY, Combined("SUB", fp, name))
        /\ IsPut(r4, r3, ACCUMULATOR, m[i])
    BY <2>1, RegsPut
  <2>3. /\ r1[FRAME_POINTER] = fp /\ r2[TEMPORARY] = fp /\ r2[ACCUMULATOR] = name
        /\ r3[TEMPORARY] = i - 1
    BY RegsThere
  <2>4. View(F, d + 1, r4, m) \subseteq Having(F, a + 4, m, fp, ra, m[i])
    BY <1>1, <1>5, <2>0, ViewIsState
  <2> HIDE DEF r0, r1, r2, r3, r4
  <2>5. Takes(j, F, View(F, a, r0, m), View(F, b, r1, m))
    BY <1>2, <1>3, <2>2, NamedThere, TakesLoadImm
  <2>6. Takes(j, F, View(F, b, r1, m), View(F, c, r2, m))
    <3>1. fp \in Value
      BY <1>1
    <3> QED
      BY <1>2, <1>3, <1>4, <2>2, <2>3, <3>1, NamedThere, TakesMove
  <2>7. Takes(j, F, View(F, c, r2, m), View(F, d, r3, m))
    BY <1>2, <1>4, <1>5, <1>6, <2>2, <2>3, NamedThere, TakesCombining
  <2>8. Takes(j, F, View(F, d, r3, m), View(F, d + 1, r4, m))
    BY <1>2, <1>5, <2>2, <2>3, NamedThere, TakesLoad
  <2>9. Takes(j, F, View(F, a, r0, m), View(F, d, r3, m))
    BY <2>5, <2>6, <2>7, TakesThen
  <2>10. Takes(j, F, View(F, a, r0, m), View(F, d + 1, r4, m))
    BY <2>8, <2>9, TakesThen
  <2>11. Takes(j, F, View(F, a, r0, m), Having(F, a + 4, m, fp, ra, m[i]))
    BY <2>4, <2>10, TakesFewer
  <2> QED
    BY <2>11 DEF r0
<1> QED
  BY <1>7, FromState

LEMMA HavingWrites ==
  ASSUME NEW j, NEW F, Runnable(j, F), NEW a \in Nat, NEW name \in Nat,
         CodeAt(j, a, StoreVariable(name)), NEW m \in Seq(Word), NEW fp \in Word, NEW ra,
         NEW i \in 1 .. Len(m), fp - name = i - 1, NEW v \in Word,
         NEW n \in Seq(Word), n = [m EXCEPT ![i] = v]
  PROVE  Takes(j, F, Having(F, a, m, fp, ra, v), State(F, a + 3, n, fp, ra))
<1>1. /\ Len(j.code) \in Nat /\ StackSize \in Nat /\ StackSize <= MaxInt /\ MaxInt \in Nat
      /\ Word \subseteq Value /\ Word \subseteq Int
  BY Numbers
<1>2. /\ CodeAt(j, a, <<ICodeOperation_init("LOADIMM", -name, TEMPORARY)>>)
      /\ CodeAt(j, a + 1, <<ICodeOperation_init("ADD", TEMPORARY, FRAME_POINTER)>>)
      /\ CodeAt(j, a + 2, <<ICodeOperation_init("STORE", ACCUMULATOR, TEMPORARY)>>)
  BY <1>1, ThreeAt DEF StoreVariable
<1>3. PICK b \in Nat : b = a + 1 /\ b + 1 = a + 2
  OBVIOUS
<1>4. PICK c \in Nat : c = a + 2 /\ c + 1 = a + 3
  OBVIOUS
<1>5. -name \in Word
  BY <1>2, OperationThere DEF ICodeOperation_init
<1>6. Len(n) = Len(m) /\ n[i] = v /\ \A k \in 1 .. Len(m) : k # i => n[k] = m[k]
  OBVIOUS
<1>7. StoredAt(m, n, i, v)
  BY <1>6 DEF StoredAt
<1>8. ASSUME NEW t \in Value, Len(m) <= StackSize
      PROVE  Takes(j, F, View(F, a, Regs(Len(m), fp, ra, v, t), m), State(F, a + 3, n, fp, ra))
  <2> DEFINE l == Len(m)
             r0 == Regs(l, fp, ra, v, t)
             r1 == Regs(l, fp, ra, v, -name)
             r2 == Regs(l, fp, ra, v, i - 1)
  <2>0. i - 1 \in Value /\ Wrap(i - 1) = i - 1 /\ i \in Nat \ {0} /\ v \in Value
    BY <1>1, <1>8, SmallNumbers
  <2>1. Combined("ADD", -name, fp) = i - 1
    <3>1. -name + fp = i - 1
      BY <1>1
    <3> QED
      BY <2>0, <3>1 DEF Combined
  <2>2. /\ IsPut(r1, r0, TEMPORARY, -name)
        /\ IsPut(r2, r1, TEMPORARY, Combined("ADD", -name, fp))
    BY <2>1, RegsPut
  <2>3. /\ r1[FRAME_POINTER] = fp /\ r1[TEMPORARY] = -name
        /\ r2[TEMPORARY] = i - 1 /\ r2[ACCUMULATOR] = v
    BY RegsThere
  <2>4. View(F, c + 1, r2, n) \subseteq State(F, a + 3, n, fp, ra)
    BY <1>1, <1>4, <1>6, <2>0, ViewIsState
  <2> HIDE DEF r0, r1, r2
  <2>5. Takes(j, F, View(F, a, r0, m), View(F, b, r1, m))
    BY <1>2, <1>3, <2>2, NamedThere, TakesLoadImm
  <2>6. Takes(j, F, View(F, b, r1, m), View(F, c, r2, m))
    BY <1>2, <1>3, <1>4, <1>5, <2>2, <2>3, NamedThere, TakesCombining
  <2>7. Takes(j, F, View(F, c, r2, m), View(F, c + 1, r2, n))
    BY <1>2, <1>4, <1>7, <2>0, <2>3, NamedThere, TakesStore
  <2>8. Takes(j, F, View(F, a, r0, m), View(F, c + 1, r2, n))
    BY <2>5, <2>6, <2>7, TakesThen
  <2>9. Takes(j, F, View(F, a, r0, m), State(F, a + 3, n, fp, ra))
    BY ONLY <2>4, <2>8, TakesFewer
  <2> QED
    BY <2>9 DEF r0
<1> QED
  BY <1>8, FromHaving

(* The frame of a callee ends where the stack does. *)
LEMMA StateEnters ==
  ASSUME NEW j, NEW F, Runnable(j, F), NEW a \in Nat, CodeAt(j, a, EnterFrame),
         NEW m \in Seq(Word), NEW fp, NEW ra
  PROVE  Takes(j, F, State(F, a, m, fp, ra), State(F, a + 3, m, Len(m) - 1, ra))
<1>1. /\ Len(j.code) \in Nat /\ StackSize \in Nat /\ StackSize <= MaxInt /\ MaxInt \in Nat
      /\ Word \subseteq Value /\ Word \subseteq Int
  BY Numbers
<1>2. /\ CodeAt(j, a, <<ICodeOperation_init("MOVE", STACK_POINTER, FRAME_POINTER)>>)
      /\ CodeAt(j, a + 1, <<ICodeOperation_init("LOADIMM", 1, TEMPORARY)>>)
      /\ CodeAt(j, a + 2, <<ICodeOperation_init("SUB", FRAME_POINTER, TEMPORARY)>>)
  BY <1>1, ThreeAt DEF EnterFrame
<1>3. PICK b \in Nat : b = a + 1 /\ b + 1 = a + 2
  OBVIOUS
<1>4. PICK c \in Nat : c = a + 2 /\ c + 1 = a + 3
  OBVIOUS
<1>5. ASSUME NEW acc \in Value, NEW t \in Value, Len(m) <= StackSize
      PROVE  Takes(j, F, View(F, a, Regs(Len(m), fp, ra, acc, t), m),
                   State(F, a + 3, m, Len(m) - 1, ra))
  <2>0. PICK l \in Nat : l = Len(m)
    OBVIOUS
  <2> DEFINE r0 == Regs(l, fp, ra, acc, t)
             r1 == Regs(l, l, ra, acc, t)
             r2 == Regs(l, l, ra, acc, 1)
             r3 == Regs(l, l - 1, ra, acc, 1)
  <2>1. l \in Word /\ l \in Value /\ 1 \in Word /\ 1 \in Value /\ Wrap(l - 1) = l - 1
    <3>1. l <= MaxInt /\ 1 <= MaxInt
      BY <1>1, <1>5, <2>0, MaxIntAssumption
    <3> QED
      BY <1>1, <3>1, SmallNumbers
  <2>2. Combined("SUB", l, 1) = l - 1
    BY <2>1 DEF Combined
  <2>3. /\ IsPut(r1, r0, FRAME_POINTER, l) /\ IsPut(r2, r1, TEMPORARY, 1)
        /\ IsPut(r3, r2, FRAME_POINTER, Combined("SUB", l, 1))
    BY <2>2, RegsPut
  <2>4. r0[STACK_POINTER] = l /\ r2[FRAME_POINTER] = l /\ r2[TEMPORARY] = 1
    BY RegsThere
  <2>5. View(F, c + 1, r3, m) \subseteq State(F, a + 3, m, Len(m) - 1, ra)
    BY <1>4, <2>0, <2>1, ViewIsState
  <2> HIDE DEF r0, r1, r2, r3
  <2>6. Takes(j, F, View(F, a, r0, m), View(F, b, r1, m))
    BY <1>2, <1>3, <2>1, <2>3, <2>4, NamedThere, TakesMove
  <2>7. Takes(j, F, View(F, b, r1, m), View(F, c, r2, m))
    BY <1>2, <1>3, <1>4, <2>3, NamedThere, TakesLoadImm
  <2>8. Takes(j, F, View(F, c, r2, m), View(F, c + 1, r3, m))
    BY <1>2, <1>4, <2>1, <2>3, <2>4, NamedThere, TakesCombining
  <2>9. Takes(j, F, View(F, a, r0, m), View(F, c + 1, r3, m))
    BY <2>6, <2>7, <2>8, TakesThen
  <2>10. Takes(j, F, View(F, a, r0, m), State(F, a + 3, m, Len(m) - 1, ra))
    BY <2>5, <2>9, TakesFewer
  <2> QED
    BY <2>0, <2>10 DEF r0
<1> QED
  BY <1>5, FromState

(* m is on the stack, above it what the caller saved, then a frame of n variables. *)
FrameOver(w, m, fp, ra, n) ==
  /\ w \in Seq(Word)
  /\ Len(w) = Len(m) + 2 + n
  /\ \A i \in 1 .. Len(m) : w[i] = m[i]
  /\ w[Len(m) + 1] = fp
  /\ w[Len(m) + 2] = ra

LEMMA HavingLeaves ==
  ASSUME NEW j, NEW F, Runnable(j, F), NEW a \in Nat, NEW n \in Nat,
         CodeAt(j, a, LeaveFrame(n)), NEW m \in Seq(Word), NEW fp, NEW ra,
         NEW w, FrameOver(w, m, fp, ra, n), NEW inner, NEW here, NEW v
  PROVE  Takes(j, F, Having(F, a, w, inner, here, v), Having(F, a + 8, m, fp, ra, v))
<1> DEFINE l == Len(m)
<1>1. /\ Len(j.code) \in Nat /\ StackSize \in Nat /\ l \in Nat
  BY Numbers
<1>2. /\ Drop(n) \in Seq(ICodeOperation) /\ Pop(RETURN_ADDRESS) \in Seq(ICodeOperation)
      /\ Pop(FRAME_POINTER) \in Seq(ICodeOperation)
      /\ Len(Drop(n)) = 2 /\ Len(Pop(RETURN_ADDRESS)) = 3 /\ Len(Pop(FRAME_POINTER)) = 3
  BY DEF Pop, Drop, ICodeOperation, ICodeOperation_init, Opcode, TEMPORARY, STACK_POINTER,
         RETURN_ADDRESS, FRAME_POINTER
<1>3. PICK o : Joins(o, Drop(n), Pop(RETURN_ADDRESS))
  BY DEF Joins
<1>4. Joins(LeaveFrame(n), o, Pop(FRAME_POINTER))
  BY <1>3 DEF Joins, LeaveFrame
<1>5. o \in Seq(ICodeOperation) /\ Len(o) = 5
  <2>1. o \in Seq(ICodeOperation) /\ Len(o) = Len(Drop(n)) + Len(Pop(RETURN_ADDRESS))
    BY <1>2, <1>3, JoinsFacts
  <2> QED
    BY <1>2, <2>1
<1>6. PICK b \in Nat : b = a + 2
  OBVIOUS
<1>7. PICK c \in Nat : c = a + 5 /\ c = b + 3 /\ c + 3 = a + 8
  BY <1>6
<1>8. CodeAt(j, a, o) /\ CodeAt(j, c, Pop(FRAME_POINTER))
  <2>1. c = a + Len(o)
    BY <1>5, <1>7
  <2> QED
    BY <1>1, <1>2, <1>4, <1>5, <2>1, JoinedAt
<1>9. CodeAt(j, a, Drop(n)) /\ CodeAt(j, b, Pop(RETURN_ADDRESS))
  <2>1. b = a + Len(Drop(n))
    BY <1>2, <1>6
  <2> QED
    BY <1>1, <1>2, <1>3, <1>8, <2>1, JoinedAt
<1>10. /\ w \in Seq(Word) /\ Len(w) = l + 2 + n /\ w[l + 2] = ra /\ w[l + 1] = fp
       /\ l + 2 \in 1 .. Len(w) /\ l + 1 \in 1 .. Len(w) /\ Begins(m, w)
       /\ Len(w) - n = l + 2 /\ (l + 2) - 1 = l + 1 /\ (l + 1) - 1 = l /\ n <= Len(w) /\ Len(w) \in Nat
  BY <1>1 DEF FrameOver, Begins
<1>11. ASSUME NEW t \in Value, Len(w) <= StackSize
       PROVE  Takes(j, F, View(F, a, Regs(Len(w), inner, here, v, t), w),
                    Having(F, a + 8, m, fp, ra, v))
  <2> DEFINE r0 == Regs(Len(w), inner, here, v, t)
             r1 == Regs(l + 2, inner, here, v, n)
             r2 == Regs(l + 1, inner, ra, v, 1)
             r3 == Regs(l, fp, ra, v, 1)
  <2>1. Takes(j, F, View(F, a, r0, w), View(F, b, r1, w))
    <3>1. Takes(j, F, View(F, a, r0, w), View(F, a + 2, Regs(Len(w) - n, inner, here, v, n), w))
      BY <1>9, <1>10, <1>11, TakesDrop
    <3> QED
      BY <1>6, <1>10, <3>1
  <2>2. 1 \in Value /\ Takes(j, F, View(F, b, r1, w), View(F, c, r2, w))
    <3> DEFINE s == l + 2
    <3>1. IsPut(r2, Regs(s - 1, inner, here, v, 1), RETURN_ADDRESS, w[s])
      BY <1>10, RegsPut
    <3>2. s \in 1 .. Len(w)
      BY <1>10
    <3> HIDE DEF r2, s
    <3>3. 1 \in Value /\ Takes(j, F, View(F, b, Regs(s, inner, here, v, n), w), View(F, b + 3, r2, w))
      BY <1>9, <1>10, <1>11, <3>1, <3>2, NamedThere, TakesPop
    <3> QED
      BY <1>7, <3>3 DEF s
  <2>3. Takes(j, F, View(F, c, r2, w), View(F, a + 8, r3, w))
    <3> DEFINE s == l + 1
    <3>1. IsPut(r3, Regs(s - 1, inner, ra, v, 1), FRAME_POINTER, w[s])
      BY <1>10, RegsPut
    <3>2. s \in 1 .. Len(w)
      BY <1>10
    <3> HIDE DEF r3, s
    <3>3. Takes(j, F, View(F, c, Regs(s, inner, ra, v, 1), w), View(F, c + 3, r3, w))
      BY <1>8, <1>10, <1>11, <3>1, <3>2, NamedThere, TakesPop
    <3> QED
      BY <1>7, <3>3 DEF s
  <2>4. View(F, a + 8, r3, w) \subseteq Having(F, a + 8, m, fp, ra, v)
    <3>1. View(F, a + 8, r3, w) \subseteq View(F, a + 8, r3, m)
      BY <1>10, ViewBegins
    <3>2. View(F, a + 8, r3, m) \subseteq Having(F, a + 8, m, fp, ra, v)
      BY <2>2 DEF Having
    <3> QED
      BY <3>1, <3>2
  <2> HIDE DEF r0, r1, r2, r3
  <2>5. Takes(j, F, View(F, a, r0, w), View(F, a + 8, r3, w))
    BY <2>1, <2>2, <2>3, TakesThen
  <2>6. Takes(j, F, View(F, a, r0, w), Having(F, a + 8, m, fp, ra, v))
    BY <2>4, <2>5, TakesFewer
  <2> QED
    BY <2>6 DEF r0
<1> QED
  BY <1>11, FromHaving

(* Steps that keep the accumulator, or everything. *)
LEMMA EachAccumulator ==
  ASSUME NEW j, NEW F, NEW a, NEW b, NEW m, NEW fp, NEW ra, NEW rb,
         \A acc \in Value, t \in Value :
           Takes(j, F, View(F, a, Regs(Len(m), fp, ra, acc, t), m),
                 View(F, b, Regs(Len(m), fp, rb, acc, t), m))
  PROVE  /\ Takes(j, F, State(F, a, m, fp, ra), State(F, b, m, fp, rb))
         /\ \A v \in Value : Takes(j, F, Having(F, a, m, fp, ra, v), Having(F, b, m, fp, rb, v))
<1>1. ASSUME NEW acc \in Value, NEW t \in Value
      PROVE  /\ Takes(j, F, View(F, a, Regs(Len(m), fp, ra, acc, t), m), State(F, b, m, fp, rb))
             /\ Takes(j, F, View(F, a, Regs(Len(m), fp, ra, acc, t), m),
                      Having(F, b, m, fp, rb, acc))
  BY ViewIsState, TakesFewer
<1>2. Takes(j, F, State(F, a, m, fp, ra), State(F, b, m, fp, rb))
  BY <1>1, FromState
<1>3. ASSUME NEW v \in Value
      PROVE  Takes(j, F, Having(F, a, m, fp, ra, v), Having(F, b, m, fp, rb, v))
  BY <1>1, FromHaving
<1> QED
  BY <1>2, <1>3

LEMMA StateLabels ==
  ASSUME NEW j, NEW F, Runnable(j, F), NEW a \in Nat, NEW n, NEW k,
         CodeAt(j, a, <<ICodeOperation_init("LABEL", n, k)>>),
         NEW m, NEW fp, NEW ra \in Value
  PROVE  Takes(j, F, State(F, a, m, fp, ra), State(F, a + 1, m, fp, ra))
<1>1. ASSUME NEW acc \in Value, NEW t \in Value
      PROVE  Takes(j, F, View(F, a, Regs(Len(m), fp, ra, acc, t), m),
                   View(F, a + 1, Regs(Len(m), fp, ra, acc, t), m))
  <2> DEFINE r == Regs(Len(m), fp, ra, acc, t)
  <2>1. r[RETURN_ADDRESS] \in Value
    BY RegsThere
  <2> HIDE DEF r
  <2>2. Takes(j, F, View(F, a, r, m), View(F, a + 1, r, m))
    BY <2>1, TakesLabel
  <2> QED
    BY <2>2 DEF r
<1> QED
  BY <1>1, EachAccumulator

LEMMA StateGoes ==
  ASSUME NEW j, NEW F, Runnable(j, F), NEW a \in Nat, NEW n, NEW k,
         CodeAt(j, a, <<ICodeOperation_init("JUMP", n, k)>>),
         NEW b, LabelSites(j.code, n) = {b}, NEW m, NEW fp, NEW ra \in Value
  PROVE  Takes(j, F, State(F, a, m, fp, ra), State(F, b, m, fp, ra))
<1>1. ASSUME NEW acc \in Value, NEW t \in Value
      PROVE  Takes(j, F, View(F, a, Regs(Len(m), fp, ra, acc, t), m),
                   View(F, b, Regs(Len(m), fp, ra, acc, t), m))
  <2> DEFINE r == Regs(Len(m), fp, ra, acc, t)
  <2>1. r[RETURN_ADDRESS] \in Value
    BY RegsThere
  <2> HIDE DEF r
  <2>2. Takes(j, F, View(F, a, r, m), View(F, b, r, m))
    BY <2>1, TakesGoto
  <2> QED
    BY <2>2 DEF r
<1> QED
  BY <1>1, EachAccumulator

LEMMA StateCalls ==
  ASSUME NEW j, NEW F, Runnable(j, F), NEW a \in Nat, NEW n, NEW k,
         CodeAt(j, a, <<ICodeOperation_init("JUMPLINK", n, k)>>),
         NEW b, LabelSites(j.code, n) = {b}, NEW m, NEW fp, NEW ra
  PROVE  Takes(j, F, State(F, a, m, fp, ra), State(F, b, m, fp, a + 1))
<1>1. ASSUME NEW acc \in Value, NEW t \in Value
      PROVE  Takes(j, F, View(F, a, Regs(Len(m), fp, ra, acc, t), m),
                   View(F, b, Regs(Len(m), fp, a + 1, acc, t), m))
  <2> DEFINE r == Regs(Len(m), fp, ra, acc, t)
             q == Regs(Len(m), fp, a + 1, acc, t)
  <2>1. IsPut(q, r, RETURN_ADDRESS, a + 1)
    BY RegsPut
  <2> HIDE DEF r, q
  <2>2. Takes(j, F, View(F, a, r, m), View(F, b, q, m))
    BY <2>1, TakesCall
  <2> QED
    BY <2>2 DEF r, q
<1> QED
  BY <1>1, EachAccumulator

LEMMA HavingReturns ==
  ASSUME NEW j, NEW F, Runnable(j, F), NEW a \in Nat, NEW k,
         CodeAt(j, a, <<ICodeOperation_init("JUMPADDR", RETURN_ADDRESS, k)>>),
         NEW m, NEW fp, NEW ra \in Word, NEW v \in Value
  PROVE  Takes(j, F, Having(F, a, m, fp, ra, v), Having(F, ra, m, fp, ra, v))
<1>0. ra \in Value
  BY DEF Value
<1>1. ASSUME NEW acc \in Value, NEW t \in Value
      PROVE  Takes(j, F, View(F, a, Regs(Len(m), fp, ra, acc, t), m),
                   View(F, ra, Regs(Len(m), fp, ra, acc, t), m))
  <2> DEFINE r == Regs(Len(m), fp, ra, acc, t)
  <2>1. r[RETURN_ADDRESS] = ra
    BY RegsThere
  <2> HIDE DEF r
  <2>2. Takes(j, F, View(F, a, r, m), View(F, ra, r, m))
    BY <1>0, <2>1, NamedThere, TakesReturn
  <2> QED
    BY <2>2 DEF r
<1> QED
  BY <1>1, EachAccumulator

(* A guard is tested. *)
LEMMA HavingTests ==
  ASSUME NEW j, NEW F, Runnable(j, F), NEW a \in Nat, NEW n,
         CodeAt(j, a, <<ICodeOperation_init("JUMPCOND", n, ACCUMULATOR)>>),
         NEW b, LabelSites(j.code, n) = {b},
         NEW m, NEW fp, NEW ra \in Value, NEW v \in Word
  PROVE  Takes(j, F, Having(F, a, m, fp, ra, v),
               State(F, IF GuardFails(v) THEN b ELSE a + 1, m, fp, ra))
<1> DEFINE d == IF GuardFails(v) THEN b ELSE a + 1
<1>1. ASSUME NEW t \in Value
      PROVE  Takes(j, F, View(F, a, Regs(Len(m), fp, ra, v, t), m), State(F, d, m, fp, ra))
  <2> DEFINE r == Regs(Len(m), fp, ra, v, t)
  <2>1. r[RETURN_ADDRESS] \in Value /\ r[ACCUMULATOR] = v
    BY RegsThere
  <2>2. View(F, d, r, m) \subseteq State(F, d, m, fp, ra)
    <3>1. v \in Value
      BY DEF Value
    <3> QED
      BY <3>1, ViewIsState
  <2> HIDE DEF r
  <2>3. Takes(j, F, View(F, a, r, m), View(F, d, r, m))
    BY <2>1, NamedThere, TakesTest
  <2> HIDE DEF d
  <2>4. Takes(j, F, View(F, a, r, m), State(F, d, m, fp, ra))
    BY ONLY <2>2, <2>3, TakesFewer
  <2> QED
    BY <2>4 DEF r
<1>2. Takes(j, F, Having(F, a, m, fp, ra, v), State(F, d, m, fp, ra))
  BY <1>1, FromHaving
<1> QED
  BY <1>2

(* ------------------------- The interpreter's calls ---------------------- *)
ExprCall(e, s) == <<"expr", e, s>>
CommCall(c, s) == <<"comm", c, s>>
LoopCall(c, s) == <<"loop", c, s>>

(* The value of an expression, and the store of the function that it calls. *)
ValueOf(ev, e, s) == ev.result[ExprCall(e, s)].result

FrameFor(prog, ev, e, s) ==
  [v \in 0 .. Prog_func(prog, e.num).num_vars - 1 |->
     IF v < Len(e.args) THEN ValueOf(ev, e.args[v + 1], s) ELSE 0]

(* What a command or the passes of a loop return: whether with the returning flag, the
   result then, and the store. *)
Returns(ev, call)    == ev.result[call].res.returning
Yields(ev, call)     == ev.result[call].res.result
StoreAfter(ev, call) == ev.result[call].store

(* What a table of calls says of an expression in it. *)
LEMMA EvaluatedExpr ==
  ASSUME NEW prog, NEW ev, IsEvaluation(prog, ev), NEW e, NEW s, ExprCall(e, s) \in ev.calls
  PROVE  /\ ExprMakes(prog, ev, e, s) /\ ExprReturns(prog, ev, e, s)
         /\ ev.result[ExprCall(e, s)] \in Successes
         /\ ev.result[ExprCall(e, s)].type = "iSuccess"
<1> DEFINE call == ExprCall(e, s)
<1>1. call[1] = "expr" /\ call[2] = e /\ call[3] = s
  BY DEF ExprCall
<1>2. ExprEvaluated(prog, ev, call[2], call[3])
  BY <1>1 DEF IsEvaluation
<1>3. ExprEvaluated(prog, ev, e, s)
  BY <1>1, <1>2
<1> QED
  BY <1>3 DEF ExprEvaluated, Successes, ExprCall

(* Literals, variables, sums and differences. *)
LEMMA ExprIs ==
  ASSUME NEW prog, NEW ev, IsEvaluation(prog, ev), NEW e, NEW s, ExprCall(e, s) \in ev.calls
  PROVE  /\ e.type \in {"Int", "Var", "Add", "Sub", "Call"}
         /\ e.type = "Int" => ValueOf(ev, e, s) = e.num
         /\ e.type = "Var" => ValueOf(ev, e, s) = s[e.num]
         /\ e.type \in {"Add", "Sub"} =>
              /\ Further(ev, ExprCall(e, s), ExprCall(e.expr1, s))
              /\ Further(ev, ExprCall(e, s), ExprCall(e.expr2, s))
         /\ e.type = "Add" =>
              ValueOf(ev, e, s)
                = Source!WrapInt(ValueOf(ev, e.expr1, s) + ValueOf(ev, e.expr2, s))
         /\ e.type = "Sub" =>
              ValueOf(ev, e, s)
                = Source!WrapInt(ValueOf(ev, e.expr1, s) - ValueOf(ev, e.expr2, s))
<1> DEFINE res == ev.result[<<"expr", e, s>>]
           lhs == ev.result[<<"expr", e.expr1, s>>]
           rhs == ev.result[<<"expr", e.expr2, s>>]
<1>1. /\ e.type \in {"Int", "Var", "Add", "Sub", "Call"}
      /\ e.type \in {"Add", "Sub"} =>
           /\ Further(ev, ExprCall(e, s), ExprCall(e.expr1, s))
           /\ Further(ev, ExprCall(e, s), ExprCall(e.expr2, s))
  BY EvaluatedExpr DEF ExprMakes, ExprCall
<1>2. ExprReturns(prog, ev, e, s)
  BY EvaluatedExpr
<1>3. CASE e.type = "Int"
  <2>1. res = Source!InterpretSuccess_init(e.num)
    BY <1>2, <1>3 DEF ExprReturns, Source!ExprResult
  <2> QED
    BY <1>1, <1>3, <2>1 DEF Source!InterpretSuccess_init, Source!InterpretResult_init, ValueOf,
                            ExprCall
<1>4. CASE e.type = "Var"
  <2>1. res = Source!InterpretSuccess_init(s[e.num])
    BY <1>2, <1>4 DEF ExprReturns, Source!ExprResult
  <2> QED
    BY <1>1, <1>4, <2>1 DEF Source!InterpretSuccess_init, Source!InterpretResult_init, ValueOf,
                            ExprCall
<1>5. CASE e.type \in {"Add", "Sub"}
  <2>1. lhs.type = "iSuccess" /\ rhs.type = "iSuccess"
    BY <1>1, <1>5, EvaluatedExpr DEF Further, ExprCall
  <2>2. res = Source!BinaryResult(lhs, rhs, IF e.type = "Add" THEN lhs.result + rhs.result
                                                              ELSE lhs.result - rhs.result)
    BY <1>2, <1>5 DEF ExprReturns, Source!ExprResult
  <2>3. res.result = Source!WrapInt(IF e.type = "Add" THEN lhs.result + rhs.result
                                                      ELSE lhs.result - rhs.result)
    <3> HIDE DEF res, lhs, rhs
    <3> QED
      BY <2>1, <2>2 DEF Source!BinaryResult, Source!Stops, Source!Succeeds,
                        Source!InterpretSuccess_init, Source!InterpretResult_init
  <2> QED
    BY <1>1, <1>5, <2>3 DEF ValueOf, ExprCall
<1>6. CASE e.type = "Call"
  BY <1>1, <1>6
<1> QED
  BY <1>1, <1>3, <1>4, <1>5, <1>6

(* A call that ends well: its arguments are evaluated, then the body of the callee,
   which returns. *)
LEMMA CallIs ==
  ASSUME NEW prog, NEW ev, IsEvaluation(prog, ev), NEW e, NEW s, ExprCall(e, s) \in ev.calls,
         e.type = "Call", Len(e.args) \in Nat, DOMAIN e.args = 1 .. Len(e.args),
         NEW inner, inner = CommCall(Prog_func(prog, e.num).body, FrameFor(prog, ev, e, s))
  PROVE  /\ e.num \in FunctionNames(prog)
         /\ Prog_func(prog, e.num).num_args = Len(e.args)
         /\ \A i \in 1 .. Len(e.args) : Further(ev, ExprCall(e, s), ExprCall(e.args[i], s))
         /\ Further(ev, ExprCall(e, s), inner)
         /\ Returns(ev, inner) /\ ValueOf(ev, e, s) = Yields(ev, inner)
<1> DEFINE call    == <<"expr", e, s>>
           callee  == Prog_func(prog, e.num)
           results == [i \in 1 .. Len(e.args) |-> ev.result[<<"expr", e.args[i], s>>]]
           store   == Source!CalleeStore(callee, results)
           body    == <<"comm", callee.body, store>>
           res     == ev.result[body].res
<1>1. /\ \A i \in DOMAIN e.args : Further(ev, call, <<"expr", e.args[i], s>>)
      /\ Further(ev, call, body)
      /\ ev.result[call].type = "iSuccess"
  <2>1. ExprMakes(prog, ev, e, s) /\ ev.result[call].type = "iSuccess"
    BY EvaluatedExpr DEF ExprCall
  <2>2. /\ \A i \in DOMAIN e.args : Further(ev, call, <<"expr", e.args[i], s>>)
        /\ Further(ev, call, <<"comm", Prog_func(prog, e.num).body,
              Source!CalleeStore(Prog_func(prog, e.num),
                [i \in 1 .. Len(e.args) |-> ev.result[<<"expr", e.args[i], s>>]])>>)
    <3> HIDE DEF call, results, callee, store, body, res
    <3> QED
      BY <2>1 DEF ExprMakes, call
  <2> QED
    BY <2>1, <2>2
<1>2. ExprReturns(prog, ev, e, s)
  BY EvaluatedExpr
<1>3. LET Body(c, r) == ev.result[<<"comm", c, r>>]
      IN  ev.result[call] = Source!CallResult(prog, e, results, Body)
  BY <1>2 DEF ExprReturns, Source!ExprResult
<1>4. /\ DOMAIN results = 1 .. Len(e.args)
      /\ \A i \in 1 .. Len(e.args) : results[i] = ev.result[<<"expr", e.args[i], s>>]
  OBVIOUS
<1>5. store = FrameFor(prog, ev, e, s)
  <2>1. Len(results) = Len(e.args)
    BY <1>4
  <2>2. ASSUME NEW v \in 0 .. callee.num_vars - 1, v < Len(e.args)
        PROVE  results[v + 1].result = ValueOf(ev, e.args[v + 1], s)
    <3>1. v + 1 \in 1 .. Len(e.args)
      BY <2>2
    <3> QED
      BY <1>4, <3>1 DEF ValueOf, ExprCall
  <2> HIDE DEF results
  <2> QED
    BY <2>1, <2>2 DEF FrameFor, Source!CalleeStore
<1>6. Source!Failed(results) = {}
  <2>1. ASSUME NEW i \in 1 .. Len(e.args)
        PROVE  results[i].type = "iSuccess"
    <3>1. ExprCall(e.args[i], s) \in ev.calls
      BY <1>1 DEF Further, ExprCall
    <3> QED
      BY <3>1, EvaluatedExpr DEF ExprCall
  <2> HIDE DEF results
  <2> QED
    BY <1>4, <2>1 DEF Source!Failed, Source!Succeeds
<1>7. /\ e.num \in Source!FunctionNames(prog)
      /\ Source!Prog_func(prog, e.num).num_args = Len(e.args)
      /\ ev.result[call] =
           Source!FuncResult(ev.result[<<"comm", Source!Prog_func(prog, e.num).body,
                              Source!CalleeStore(Source!Prog_func(prog, e.num), results)>>].res)
  <2> HIDE DEF results, call
  <2> QED
    BY <1>1, <1>3, <1>6 DEF Source!CallResult, Source!ProcessExit, Source!IncorrectNumArgs,
                            Source!InterpretResult_init
<1>8. /\ e.num \in FunctionNames(prog) /\ callee.num_args = Len(e.args)
      /\ ev.result[call] = Source!FuncResult(res)
  BY <1>7 DEF Source!FunctionNames, Source!Prog_num_funcs, FunctionNames, Prog_num_funcs,
              Source!Prog_func, Prog_func
<1>9. res.returning /\ ev.result[call] = res
  <2> HIDE DEF res, call
  <2> QED
    <3>1. CASE ~res.returning /\ res.type = "iSuccess"
      <4>1. ev.result[call] = Source!EndWithoutReturn
        BY <1>8, <3>1 DEF Source!FuncResult, Source!Succeeds
      <4>2. Source!EndWithoutReturn.type # "iSuccess"
        BY DEF Source!EndWithoutReturn, Source!InterpretResult_init
      <4> QED
        BY <1>1, <4>1, <4>2
    <3>2. CASE res.returning \/ res.type # "iSuccess"
      <4>1. ev.result[call] = res
        BY <1>8, <3>2 DEF Source!FuncResult, Source!Succeeds
      <4> QED
        BY <1>1, <3>2, <4>1
    <3> QED
      BY <3>1, <3>2
<1>10. inner = body
  BY <1>5 DEF CommCall
<1> HIDE DEF callee, results, store, body
<1> QED
  BY <1>1, <1>8, <1>9, <1>10 DEF ValueOf, ExprCall, Returns, Yields, callee

(* The same for commands and loops. *)
LEMMA EvaluatedComm ==
  ASSUME NEW prog, NEW ev, IsEvaluation(prog, ev), NEW c, NEW s, CommCall(c, s) \in ev.calls
  PROVE  /\ CommMakes(ev, c, s) /\ CommReturns(ev, c, s)
         /\ ev.result[CommCall(c, s)].res \in Successes
         /\ ev.result[CommCall(c, s)].res.type = "iSuccess"
<1> DEFINE call == CommCall(c, s)
<1>1. call[1] = "comm" /\ call[2] = c /\ call[3] = s
  BY DEF CommCall
<1>2. CommEvaluated(ev, call[2], call[3])
  BY <1>1 DEF IsEvaluation
<1>3. CommEvaluated(ev, c, s)
  BY <1>1, <1>2
<1> QED
  BY <1>3 DEF CommEvaluated, Successes, CommCall

LEMMA EvaluatedLoop ==
  ASSUME NEW prog, NEW ev, IsEvaluation(prog, ev), NEW c, NEW s, LoopCall(c, s) \in ev.calls
  PROVE  /\ LoopMakes(ev, c, s) /\ LoopReturns(ev, c, s)
         /\ ev.result[LoopCall(c, s)].res \in Successes
         /\ ev.result[LoopCall(c, s)].res.type = "iSuccess"
<1> DEFINE call == LoopCall(c, s)
<1>1. call[1] = "loop" /\ call[2] = c /\ call[3] = s
  BY DEF LoopCall
<1>2. LoopEvaluated(ev, call[2], call[3])
  BY <1>1 DEF IsEvaluation
<1>3. LoopEvaluated(ev, c, s)
  BY <1>1, <1>2
<1> QED
  BY <1>3 DEF LoopEvaluated, Successes, LoopCall

(* Which calls a command makes. *)
LEMMA CommMakesCalls ==
  ASSUME NEW prog, NEW ev, IsEvaluation(prog, ev), NEW c, NEW s, CommCall(c, s) \in ev.calls
  PROVE  LET call == CommCall(c, s)
             fst  == CommCall(c.comm1, s)
         IN  /\ c.type \in {"While", "Assign", "Comp", "Return"}
             /\ c.type # "Comp" => /\ Further(ev, call, ExprCall(c.expr, s))
                                   /\ ev.result[ExprCall(c.expr, s)] \in Successes
             /\ c.type \in {"While", "Assign"} => ~ev.result[ExprCall(c.expr, s)].returning
             /\ c.type = "While" /\ ~(ValueOf(ev, c.expr, s) < 1) =>
                  Further(ev, call, LoopCall(c, s))
             /\ c.type = "Comp" =>
                  /\ Further(ev, call, fst)
                  /\ ev.result[fst].res.type = "iSuccess"
                  /\ ~Returns(ev, fst) =>
                       Further(ev, call, CommCall(c.comm2, StoreAfter(ev, fst)))
<1>1. CommMakes(ev, c, s)
  BY EvaluatedComm
<1>2. /\ c.type \in {"While", "Assign", "Comp", "Return"}
      /\ c.type # "Comp" => Further(ev, CommCall(c, s), ExprCall(c.expr, s))
      /\ c.type \in {"While", "Assign"} => ~ev.result[ExprCall(c.expr, s)].returning
      /\ c.type = "While" /\ ~(ValueOf(ev, c.expr, s) < 1) =>
           Further(ev, CommCall(c, s), LoopCall(c, s))
      /\ c.type = "Comp" =>
           /\ Further(ev, CommCall(c, s), CommCall(c.comm1, s))
           /\ ~Returns(ev, CommCall(c.comm1, s)) =>
                Further(ev, CommCall(c, s),
                        CommCall(c.comm2, StoreAfter(ev, CommCall(c.comm1, s))))
  BY <1>1 DEF CommMakes, ValueOf, ExprCall, CommCall, LoopCall, Returns, StoreAfter
<1>3. c.type # "Comp" => ev.result[ExprCall(c.expr, s)] \in Successes
  BY <1>2, EvaluatedExpr DEF Further
<1>4. c.type = "Comp" => ev.result[CommCall(c.comm1, s)].res.type = "iSuccess"
  BY <1>2, EvaluatedComm DEF Further
<1> QED
  BY <1>2, <1>3, <1>4

(* What it leaves. *)
LEMMA CommLeaves ==
  ASSUME NEW prog, NEW ev, IsEvaluation(prog, ev), NEW c, NEW s, CommCall(c, s) \in ev.calls
  PROVE  LET call == CommCall(c, s)
             fst  == CommCall(c.comm1, s)
             v    == ValueOf(ev, c.expr, s)
         IN  /\ c.type = "Assign" =>
                  ~Returns(ev, call) /\ StoreAfter(ev, call) = [s EXCEPT ![c.name] = v]
             /\ c.type = "Return" =>
                  Returns(ev, call) /\ Yields(ev, call) = v /\ StoreAfter(ev, call) = s
             /\ c.type = "While" =>
                  IF v < 1 THEN ~Returns(ev, call) /\ StoreAfter(ev, call) = s
                           ELSE ev.result[call] = ev.result[LoopCall(c, s)]
             /\ c.type = "Comp" =>
                  ev.result[call] = IF Returns(ev, fst) THEN ev.result[fst]
                                    ELSE ev.result[CommCall(c.comm2, StoreAfter(ev, fst))]
<1> DEFINE call == CommCall(c, s)
           fst  == CommCall(c.comm1, s)
           res  == ev.result[ExprCall(c.expr, s)]
           result == ev.result[call]
<1>1. CommReturns(ev, c, s)
  BY EvaluatedComm
<1>2. /\ c.type # "Comp" => res \in Successes /\ res.type = "iSuccess"
      /\ c.type \in {"While", "Assign"} => ~res.returning
      /\ c.type = "Comp" => ev.result[fst].res.type = "iSuccess"
  BY CommMakesCalls DEF Successes
<1>3. ASSUME c.type = "Assign"
      PROVE  ~Returns(ev, call) /\ StoreAfter(ev, call) = [s EXCEPT ![c.name] = ValueOf(ev, c.expr, s)]
  <2>1. result = IF ~Source!Succeeds(res) THEN Source!Ends(res, s)
                 ELSE Source!Ends(res, [s EXCEPT ![c.name] = res.result])
    BY <1>1, <1>3 DEF CommReturns, Source!CommResult, ExprCall, CommCall
  <2>2. result = Source!Ends(res, [s EXCEPT ![c.name] = res.result])
    BY <1>2, <1>3, <2>1 DEF Source!Succeeds
  <2> QED
    BY <1>2, <1>3, <2>2 DEF Source!Ends, Returns, StoreAfter, ValueOf
<1>4. ASSUME c.type = "Return"
      PROVE  Returns(ev, call) /\ Yields(ev, call) = ValueOf(ev, c.expr, s) /\ StoreAfter(ev, call) = s
  <2>1. result = IF ~Source!Succeeds(res) THEN Source!Ends(res, s)
                 ELSE Source!Ends([res EXCEPT !.returning = TRUE], s)
    BY <1>1, <1>4 DEF CommReturns, Source!CommResult, ExprCall, CommCall
  <2>2. result = Source!Ends([res EXCEPT !.returning = TRUE], s)
    BY <1>2, <1>4, <2>1 DEF Source!Succeeds
  <2>3. /\ [res EXCEPT !.returning = TRUE].returning
        /\ [res EXCEPT !.returning = TRUE].result = res.result
    <3> HIDE DEF res
    <3> QED
      BY <1>2, <1>4 DEF Successes
  <2>4. result.res = [res EXCEPT !.returning = TRUE] /\ result.store = s
    <3> HIDE DEF res, result
    <3> QED
      BY <2>2 DEF Source!Ends
  <2>5. result.res.returning /\ result.res.result = res.result
    <3> HIDE DEF res, result
    <3> QED
      BY <2>3, <2>4
  <2> QED
    BY <2>4, <2>5 DEF Returns, Yields, StoreAfter, ValueOf
<1>5. ASSUME c.type = "While"
      PROVE  IF ValueOf(ev, c.expr, s) < 1 THEN ~Returns(ev, call) /\ StoreAfter(ev, call) = s
             ELSE result = ev.result[LoopCall(c, s)]
  <2>1. result = IF ~Source!Succeeds(res) \/ res.result < 1 THEN Source!Ends(res, s)
                 ELSE ev.result[LoopCall(c, s)]
    BY <1>1, <1>5 DEF CommReturns, Source!CommResult, ExprCall, CommCall, LoopCall
  <2>2. result = IF res.result < 1 THEN Source!Ends(res, s) ELSE ev.result[LoopCall(c, s)]
    BY <1>2, <1>5, <2>1 DEF Source!Succeeds
  <2> QED
    BY <1>2, <1>5, <2>2 DEF Source!Ends, Returns, StoreAfter, ValueOf
<1>6. ASSUME c.type = "Comp"
      PROVE  result = IF Returns(ev, fst) THEN ev.result[fst]
                      ELSE ev.result[CommCall(c.comm2, StoreAfter(ev, fst))]
  <2>1. result = IF ~Source!Succeeds(ev.result[fst].res) \/ ev.result[fst].res.returning
                 THEN ev.result[fst] ELSE ev.result[CommCall(c.comm2, ev.result[fst].store)]
    BY <1>1, <1>6 DEF CommReturns, Source!CommResult, CommCall
  <2> QED
    BY <1>2, <1>6, <2>1 DEF Source!Succeeds, Returns, StoreAfter
<1> QED
  <2>1. c.type \in {"While", "Assign", "Comp", "Return"}
    BY CommMakesCalls
  <2> QED
    BY <1>3, <1>4, <1>5, <1>6, <2>1

(* A pass of a loop returns from the function, or is the last, or another follows. *)
LEMMA LoopIs ==
  ASSUME NEW prog, NEW ev, IsEvaluation(prog, ev), NEW c, NEW s, LoopCall(c, s) \in ev.calls
  PROVE  LET call  == LoopCall(c, s)
             body  == CommCall(c.comm1, s)
             after == StoreAfter(ev, body)
         IN  /\ Further(ev, call, body)
             /\ Returns(ev, body) => ev.result[call] = ev.result[body]
             /\ ~Returns(ev, body) =>
                  /\ Further(ev, call, ExprCall(c.expr, after))
                  /\ IF ValueOf(ev, c.expr, after) < 1 THEN ev.result[call] = ev.result[body]
                     ELSE /\ Further(ev, call, LoopCall(c, after))
                          /\ ev.result[call] = ev.result[LoopCall(c, after)]
<1> DEFINE call  == LoopCall(c, s)
           body  == CommCall(c.comm1, s)
           after == StoreAfter(ev, body)
           guard == ev.result[ExprCall(c.expr, after)]
<1>1. LoopMakes(ev, c, s) /\ LoopReturns(ev, c, s)
  BY EvaluatedLoop
<1>2. /\ Further(ev, call, body)
      /\ ~Returns(ev, body) =>
           /\ Further(ev, call, ExprCall(c.expr, after))
           /\ ~(guard.result < 1) => Further(ev, call, LoopCall(c, after))
  BY <1>1 DEF LoopMakes, ExprCall, CommCall, LoopCall, Returns, StoreAfter
<1>3. ev.result[body].res.type = "iSuccess"
  BY <1>2, EvaluatedComm DEF Further
<1>4. ~Returns(ev, body) => guard.type = "iSuccess"
  BY <1>2, EvaluatedExpr DEF Further
<1>5. ev.result[call] =
        IF ~Source!Succeeds(ev.result[body].res) \/ ev.result[body].res.returning
        THEN ev.result[body]
        ELSE IF ~Source!Succeeds(guard) THEN Source!Ends(guard, ev.result[body].store)
        ELSE IF guard.result < 1 THEN ev.result[body]
        ELSE ev.result[LoopCall(c, ev.result[body].store)]
  BY <1>1 DEF LoopReturns, Source!LoopResult, ExprCall, CommCall, LoopCall, StoreAfter
<1> HIDE DEF call, body, after, guard
<1>6. ev.result[call] =
        IF Returns(ev, body) THEN ev.result[body]
        ELSE IF guard.result < 1 THEN ev.result[body]
        ELSE ev.result[LoopCall(c, after)]
  BY <1>3, <1>4, <1>5 DEF Source!Succeeds, Returns, after, StoreAfter
<1> QED
  BY <1>2, <1>6 DEF call, body, after, guard, ValueOf

(* ------------------------- Pieces of code, anywhere --------------------- *)
(* State and Having, wherever control is. *)
States(F, m, fp, ra)     == [a \in Nat |-> State(F, a, m, fp, ra)]
Havings(F, m, fp, ra, v) == [a \in Nat |-> Having(F, a, m, fp, ra, v)]

(* Operations that take the machine from P to Q, wherever in the code they are. *)
Moves(j, F, ops, P, Q) ==
  /\ ops \in Seq(ICodeOperation)
  /\ \A a \in Nat : CodeAt(j, a, ops) => Takes(j, F, P[a], Q[a + Len(ops)])

(* One piece after the other. *)
LEMMA MovesThen ==
  ASSUME NEW j, NEW F, Len(j.code) \in Nat, NEW o, NEW p, NEW P, NEW Q, NEW R,
         Moves(j, F, o, P, Q), Moves(j, F, p, Q, R)
  PROVE  Moves(j, F, o \o p, P, R)
<1>1. o \in Seq(ICodeOperation) /\ p \in Seq(ICodeOperation)
  BY DEF Moves
<1>2. o \o p \in Seq(ICodeOperation) /\ Len(o) \in Nat
  BY <1>1
<1>3. ASSUME NEW a \in Nat, CodeAt(j, a, o \o p)
      PROVE  Takes(j, F, P[a], R[a + Len(o \o p)])
  <2>1. PICK b \in Nat : b = a + Len(o)
    BY <1>2
  <2>2. CodeAt(j, a, o) /\ CodeAt(j, b, p) /\ a + Len(o \o p) = b + Len(p)
    BY <1>1, <1>3, <2>1, CodeSplit
  <2>3. Takes(j, F, P[a], Q[b])
    BY <2>1, <2>2 DEF Moves
  <2>4. Takes(j, F, Q[b], R[b + Len(p)])
    BY <2>2 DEF Moves
  <2> QED
    BY <2>2, <2>3, <2>4, TakesThen
<1> QED
  BY <1>2, <1>3 DEF Moves

LEMMA MovesNowhere ==
  ASSUME NEW j, NEW F, NEW P
  PROVE  Moves(j, F, <<>>, P, P)
<1>1. <<>> \in Seq(ICodeOperation) /\ Len(<<>>) = 0
  OBVIOUS
<1>2. \A a \in Nat : a + 0 = a
  OBVIOUS
<1> QED
  BY <1>1, <1>2, TakesNothing DEF Moves

LEMMA MovesConcatenated ==
  ASSUME NEW j, NEW F, Len(j.code) \in Nat, NEW seqs \in Seq(Seq(ICodeOperation)), NEW Ps,
         \A i \in 1 .. Len(seqs) : Moves(j, F, seqs[i], Ps[i - 1], Ps[i])
  PROVE  Moves(j, F, Concatenated(seqs), Ps[0], Ps[Len(seqs)])
<1>1. PICK n \in Nat : n = Len(seqs)
  OBVIOUS
<1>2. PICK up \in [0 .. n -> Seq(ICodeOperation)] :
        /\ up[0] = <<>>
        /\ \A i \in 1 .. n : up[i] = up[i - 1] \o seqs[i]
        /\ Concatenated(seqs) = up[n]
  BY <1>1, ConcatenatedParts
<1> DEFINE S == {m \in Nat : m <= n => Moves(j, F, up[m], Ps[0], Ps[m])}
<1>3. 0 \in S
  BY <1>1, <1>2, MovesNowhere
<1>4. ASSUME NEW m \in Nat, m \in S
      PROVE  m + 1 \in S
  <2> SUFFICES ASSUME m + 1 <= n
               PROVE  Moves(j, F, up[m + 1], Ps[0], Ps[m + 1])
    OBVIOUS
  <2>1. m + 1 \in 1 .. n /\ (m + 1) - 1 = m /\ m <= n
    BY <1>1
  <2>2. up[m + 1] = up[m] \o seqs[m + 1]
    BY <1>2, <2>1
  <2>3. Moves(j, F, seqs[m + 1], Ps[m], Ps[m + 1])
    BY <1>1, <2>1
  <2>4. Moves(j, F, up[m], Ps[0], Ps[m])
    BY <1>4, <2>1
  <2> QED
    BY <2>2, <2>3, <2>4, MovesThen
<1> HIDE DEF S
<1>5. Nat \subseteq S
  BY <1>3, <1>4, SetInduction
<1> QED
  BY <1>1, <1>2, <1>5 DEF S

(* ------------------------- The pieces of the code ----------------------- *)
LEMMA Single ==
  ASSUME NEW opc \in Opcode, NEW x \in Int, NEW y \in Int
  PROVE  /\ ICodeOperation_init(opc, x, y) \in ICodeOperation
         /\ <<ICodeOperation_init(opc, x, y)>> \in Seq(ICodeOperation)
         /\ Len(<<ICodeOperation_init(opc, x, y)>>) = 1
<1>1. PICK op : op = ICodeOperation_init(opc, x, y)
  OBVIOUS
<1>2. op \in ICodeOperation
  BY <1>1 DEF ICodeOperation_init, ICodeOperation
<1>3. <<op>> \in Seq(ICodeOperation) /\ Len(<<op>>) = 1
  BY <1>2
<1> QED
  BY <1>1, <1>2, <1>3

(* What the pieces are. *)
LEMMA PieceSizes ==
  /\ \A x \in Nat : Push(x) \in Seq(ICodeOperation) /\ Len(Push(x)) = 3
  /\ \A x \in Nat : Pop(x) \in Seq(ICodeOperation) /\ Len(Pop(x)) = 3
  /\ EnterFrame \in Seq(ICodeOperation) /\ Len(EnterFrame) = 3
  /\ \A n \in Nat : LoadVariable(n) \in Seq(ICodeOperation) /\ Len(LoadVariable(n)) = 4
  /\ \A n \in Nat : StoreVariable(n) \in Seq(ICodeOperation) /\ Len(StoreVariable(n)) = 3
<1> USE DEF ICodeOperation_init, ICodeOperation, Opcode, STACK_POINTER, FRAME_POINTER,
            ACCUMULATOR, TEMPORARY
<1>0. \A x \in Nat : ICodeOperation_init("LOAD", STACK_POINTER, x) \in ICodeOperation
  OBVIOUS
<1>1. \A x \in Nat : Push(x) \in Seq(ICodeOperation) /\ Len(Push(x)) = 3
  BY DEF Push
<1>2. Drop(1) \in Seq(ICodeOperation) /\ Len(Drop(1)) = 2
  BY DEF Drop
<1>3. ASSUME NEW x \in Nat
      PROVE  Pop(x) \in Seq(ICodeOperation) /\ Len(Pop(x)) = 3
  <2>1. PICK op \in ICodeOperation : op = ICodeOperation_init("LOAD", STACK_POINTER, x)
    BY <1>0
  <2>2. PICK drop \in Seq(ICodeOperation) : drop = Drop(1) /\ Len(drop) = 2
    BY <1>2
  <2> HIDE DEF ICodeOperation
  <2>3. Append(drop, op) \in Seq(ICodeOperation) /\ Len(Append(drop, op)) = 3
    BY <2>2
  <2> QED
    BY <2>1, <2>2, <2>3 DEF Pop
<1>4. EnterFrame \in Seq(ICodeOperation) /\ Len(EnterFrame) = 3
  BY DEF EnterFrame
<1>5. \A n \in Nat : LoadVariable(n) \in Seq(ICodeOperation) /\ Len(LoadVariable(n)) = 4
  BY DEF LoadVariable
<1>6. \A n \in Nat : StoreVariable(n) \in Seq(ICodeOperation) /\ Len(StoreVariable(n)) = 3
  BY DEF StoreVariable
<1> QED
  BY <1>1, <1>3, <1>4, <1>5, <1>6

LEMMA MovesPushing ==
  ASSUME NEW j, NEW F, Runnable(j, F), NEW m \in Seq(Word), NEW fp \in Word, NEW ra \in Word
  PROVE  /\ Moves(j, F, Push(FRAME_POINTER), States(F, m, fp, ra),
                  States(F, Append(m, fp), fp, ra))
         /\ Moves(j, F, Push(RETURN_ADDRESS), States(F, m, fp, ra),
                  States(F, Append(m, ra), fp, ra))
         /\ \A v \in Word : Moves(j, F, Push(ACCUMULATOR), Havings(F, m, fp, ra, v),
                                  States(F, Append(m, v), fp, ra))
<1>1. /\ Push(FRAME_POINTER) \in Seq(ICodeOperation) /\ Len(Push(FRAME_POINTER)) = 3
      /\ Push(RETURN_ADDRESS) \in Seq(ICodeOperation) /\ Len(Push(RETURN_ADDRESS)) = 3
      /\ Push(ACCUMULATOR) \in Seq(ICodeOperation) /\ Len(Push(ACCUMULATOR)) = 3
  BY PieceSizes DEF FRAME_POINTER, RETURN_ADDRESS, ACCUMULATOR
<1>2. ra \in Value
  BY Numbers
<1>3. ASSUME NEW a \in Nat
      PROVE  /\ CodeAt(j, a, Push(FRAME_POINTER)) =>
                  Takes(j, F, State(F, a, m, fp, ra), State(F, a + 3, Append(m, fp), fp, ra))
             /\ CodeAt(j, a, Push(RETURN_ADDRESS)) =>
                  Takes(j, F, State(F, a, m, fp, ra), State(F, a + 3, Append(m, ra), fp, ra))
             /\ \A v \in Word : CodeAt(j, a, Push(ACCUMULATOR)) =>
                  Takes(j, F, Having(F, a, m, fp, ra, v), State(F, a + 3, Append(m, v), fp, ra))
  BY <1>2, StatePushes, HavingPushes
<1>4. \A a \in Nat : a + 3 \in Nat
  OBVIOUS
<1> QED
  BY <1>1, <1>3, <1>4 DEF Moves, States, Havings

LEMMA MovesPushingZero ==
  ASSUME NEW j, NEW F, Runnable(j, F), NEW m \in Seq(Word), NEW fp \in Word, NEW ra \in Word
  PROVE  Moves(j, F, PushZero, States(F, m, fp, ra), States(F, Append(m, 0), fp, ra))
<1>1. ra \in Value
  BY Numbers
<1>2. PICK one \in Seq(ICodeOperation) :
        one = <<ICodeOperation_init("LOADIMM", 0, ACCUMULATOR)>> /\ Len(one) = 1
  <2>1. "LOADIMM" \in Opcode /\ 0 \in Int /\ ACCUMULATOR \in Int
    BY DEF Opcode, ACCUMULATOR
  <2> QED
    BY <2>1, Single
<1>3. PICK push \in Seq(ICodeOperation) : push = Push(ACCUMULATOR) /\ Len(push) = 3
  BY PieceSizes DEF ACCUMULATOR
<1>4. PushZero = one \o push
  BY <1>2, <1>3 DEF PushZero
<1>5. PushZero \in Seq(ICodeOperation) /\ Len(PushZero) = 4
  <2>1. Joins(PushZero, one, push)
    BY <1>4 DEF Joins
  <2>2. PushZero \in Seq(ICodeOperation) /\ Len(PushZero) = Len(one) + Len(push)
    BY <1>2, <1>3, <2>1, JoinsFacts
  <2> QED
    BY <1>2, <1>3, <2>2
<1>6. ASSUME NEW a \in Nat, CodeAt(j, a, PushZero)
      PROVE  Takes(j, F, State(F, a, m, fp, ra), State(F, a + 4, Append(m, 0), fp, ra))
  BY <1>1, <1>6, StatePushesZero
<1>7. \A a \in Nat : a + 4 \in Nat
  OBVIOUS
<1> QED
  BY <1>5, <1>6, <1>7 DEF Moves, States

(* The right operand is evaluated first and pushed, then the left one. *)
LEMMA MovesCombining ==
  ASSUME NEW j, NEW F, Runnable(j, F), NEW opc \in {"ADD", "SUB"}, NEW m \in Seq(Word),
         NEW fp \in Word, NEW ra \in Word, NEW v \in Word, NEW w \in Word,
         NEW rhs, Moves(j, F, rhs, States(F, m, fp, ra), Havings(F, m, fp, ra, w)),
         NEW lhs, Moves(j, F, lhs, States(F, Append(m, w), fp, ra),
                        Havings(F, Append(m, w), fp, ra, v))
  PROVE  Moves(j, F, BinaryCode(rhs, lhs, opc), States(F, m, fp, ra),
               Havings(F, m, fp, ra, Combined(opc, v, w)))
<1>1. Len(j.code) \in Nat
  BY Numbers
<1>2. Moves(j, F, Push(ACCUMULATOR), Havings(F, m, fp, ra, w), States(F, Append(m, w), fp, ra))
  BY MovesPushing
<1>3. PICK one \in Seq(ICodeOperation) :
        one = <<ICodeOperation_init(opc, ACCUMULATOR, TEMPORARY)>> /\ Len(one) = 1
  <2>1. opc \in Opcode /\ TEMPORARY \in Int /\ ACCUMULATOR \in Int
    BY DEF Opcode, ACCUMULATOR, TEMPORARY
  <2> QED
    BY <2>1, Single
<1>4. PICK pop \in Seq(ICodeOperation) : pop = Pop(TEMPORARY) /\ Len(pop) = 3
  BY PieceSizes DEF TEMPORARY
<1>5. BinaryEnd(opc) = pop \o one
  BY <1>3, <1>4 DEF BinaryEnd
<1>6. BinaryEnd(opc) \in Seq(ICodeOperation) /\ Len(BinaryEnd(opc)) = 4
  <2>1. Joins(BinaryEnd(opc), pop, one)
    BY <1>5 DEF Joins
  <2>2. BinaryEnd(opc) \in Seq(ICodeOperation) /\ Len(BinaryEnd(opc)) = Len(pop) + Len(one)
    BY <1>3, <1>4, <2>1, JoinsFacts
  <2> QED
    BY <1>3, <1>4, <2>2
<1>7. Moves(j, F, BinaryEnd(opc), Havings(F, Append(m, w), fp, ra, v),
            Havings(F, m, fp, ra, Combined(opc, v, w)))
  <2>1. \A a \in Nat : a + 4 \in Nat
    OBVIOUS
  <2>2. \A a \in Nat : CodeAt(j, a, BinaryEnd(opc)) =>
          Takes(j, F, Having(F, a, Append(m, w), fp, ra, v),
                Having(F, a + 4, m, fp, ra, Combined(opc, v, w)))
    BY HavingCombines
  <2> QED
    BY <1>6, <2>1, <2>2 DEF Moves, Havings
<1>8. PICK most : most = rhs \o Push(ACCUMULATOR) \o lhs
  OBVIOUS
<1>9. Moves(j, F, rhs \o Push(ACCUMULATOR), States(F, m, fp, ra), States(F, Append(m, w), fp, ra))
  BY <1>1, <1>2, MovesThen
<1>10. Moves(j, F, most, States(F, m, fp, ra), Havings(F, Append(m, w), fp, ra, v))
  BY <1>1, <1>8, <1>9, MovesThen
<1>11. BinaryCode(rhs, lhs, opc) = most \o BinaryEnd(opc)
  <2>1. most \in Seq(ICodeOperation)
    BY <1>10 DEF Moves
  <2>2. (most \o pop) \o one = most \o (pop \o one)
    BY <2>1, ConcatAssociative
  <2> QED
    BY <1>3, <1>4, <1>5, <1>8, <2>2 DEF BinaryCode
<1> QED
  BY <1>1, <1>7, <1>10, <1>11, MovesThen

(* -------------------------------- Frames -------------------------------- *)
StoreOf(n) == [0 .. n - 1 -> Word]

(* The n variables of s are on the stack m, the first of them where fp points to. *)
InFrame(m, fp, s, n) ==
  /\ m \in Seq(Word) /\ fp \in Word /\ n \in Nat /\ s \in StoreOf(n)
  /\ n <= fp + 1 /\ fp + 1 <= Len(m)
  /\ \A v \in 0 .. n - 1 : m[fp + 1 - v] = s[v]

(* Pushing leaves the frame where it is. *)
LEMMA FrameUnder ==
  ASSUME NEW m, NEW fp, NEW s, NEW n, InFrame(m, fp, s, n), NEW v \in Word
  PROVE  InFrame(Append(m, v), fp, s, n)
<1>1. PICK k \in Nat : k = Len(m)
  BY DEF InFrame
<1>0. PICK w : w = Append(m, v)
  OBVIOUS
<1>2. w \in Seq(Word) /\ Len(w) = k + 1 /\ \A i \in 1 .. k : w[i] = m[i]
  <2>1. m \in Seq(Word)
    BY DEF InFrame
  <2> QED
    BY <1>0, <1>1, <2>1, AppendProperties
<1>3. fp \in Int /\ n \in Nat
  BY MaxIntAssumption DEF InFrame, Word, MinInt
<1>4. fp + 1 <= k + 1 /\ \A i \in 0 .. n - 1 : fp + 1 - i \in 1 .. k
  BY <1>1, <1>3 DEF InFrame
<1> QED
  BY <1>0, <1>1, <1>2, <1>4 DEF InFrame

LEMMA MovesReading ==
  ASSUME NEW j, NEW F, Runnable(j, F), NEW m, NEW fp, NEW s, NEW n, InFrame(m, fp, s, n),
         NEW ra, NEW name \in 0 .. n - 1
  PROVE  Moves(j, F, LoadVariable(name), States(F, m, fp, ra), Havings(F, m, fp, ra, s[name]))
<1>1. fp \in Int /\ n \in Nat /\ name \in Nat /\ Len(m) \in Nat /\ m \in Seq(Word) /\ fp \in Word
  BY MaxIntAssumption DEF InFrame, Word, MinInt
<1>2. PICK i \in 1 .. Len(m) : i = fp + 1 - name
  BY <1>1 DEF InFrame
<1>3. fp - name = i - 1 /\ m[i] = s[name]
  BY <1>1, <1>2 DEF InFrame
<1>4. LoadVariable(name) \in Seq(ICodeOperation) /\ Len(LoadVariable(name)) = 4
  BY <1>1, PieceSizes
<1>5. \A a \in Nat : CodeAt(j, a, LoadVariable(name)) =>
        Takes(j, F, State(F, a, m, fp, ra), Having(F, a + 4, m, fp, ra, s[name]))
  BY <1>1, <1>3, StateReads
<1>6. \A a \in Nat : a + 4 \in Nat
  OBVIOUS
<1> QED
  BY <1>4, <1>5, <1>6 DEF Moves, States, Havings

(* After a write w is on the stack, which is m everywhere but in the frame. *)
Rewritten(w, m, fp, s, n) ==
  /\ InFrame(w, fp, s, n)
  /\ Len(w) = Len(m)
  /\ \A i \in 1 .. Len(m) : i \notin fp + 2 - n .. fp + 1 => w[i] = m[i]

LEMMA RewrittenTwice ==
  ASSUME NEW m, NEW fp, NEW n, NEW w, NEW s, Rewritten(w, m, fp, s, n),
         NEW x, NEW r, Rewritten(x, w, fp, r, n)
  PROVE  Rewritten(x, m, fp, r, n)
BY DEF Rewritten

LEMMA MovesWriting ==
  ASSUME NEW j, NEW F, Runnable(j, F), NEW m, NEW fp, NEW s, NEW n, InFrame(m, fp, s, n),
         NEW ra, NEW name \in 0 .. n - 1, NEW v \in Word
  PROVE  \E w : /\ Rewritten(w, m, fp, [s EXCEPT ![name] = v], n)
                /\ Moves(j, F, StoreVariable(name), Havings(F, m, fp, ra, v), States(F, w, fp, ra))
<1>1. fp \in Int /\ n \in Nat /\ name \in Nat /\ Len(m) \in Nat /\ m \in Seq(Word) /\ fp \in Word
  BY MaxIntAssumption DEF InFrame, Word, MinInt
<1>2. PICK i \in 1 .. Len(m) : i = fp + 1 - name
  BY <1>1 DEF InFrame
<1>3. fp - name = i - 1
  BY <1>1, <1>2
<1>0. PICK w : w = [m EXCEPT ![i] = v]
  OBVIOUS
<1>4. /\ w \in Seq(Word) /\ Len(w) = Len(m) /\ w[i] = v
      /\ \A k \in 1 .. Len(m) : k # i => w[k] = m[k]
  BY <1>0, <1>1, ExceptSeq
<1>5. StoreVariable(name) \in Seq(ICodeOperation) /\ Len(StoreVariable(name)) = 3
  BY <1>1, PieceSizes
<1>6. \A a \in Nat : CodeAt(j, a, StoreVariable(name)) =>
        Takes(j, F, Having(F, a, m, fp, ra, v), State(F, a + 3, w, fp, ra))
  BY <1>0, <1>1, <1>3, <1>4, HavingWrites
<1>7. \A a \in Nat : a + 3 \in Nat
  OBVIOUS
<1>8. Moves(j, F, StoreVariable(name), Havings(F, m, fp, ra, v), States(F, w, fp, ra))
  BY <1>5, <1>6, <1>7 DEF Moves, States, Havings
<1>9. PICK r : r = [s EXCEPT ![name] = v]
  OBVIOUS
<1>10. r \in StoreOf(n) /\ r[name] = v /\ \A x \in 0 .. n - 1 : x # name => r[x] = s[x]
  <2>1. s \in [0 .. n - 1 -> Word]
    BY DEF InFrame, StoreOf
  <2> QED
    BY <1>9, <2>1 DEF StoreOf
<1>11. ASSUME NEW x \in 0 .. n - 1
       PROVE  w[fp + 1 - x] = r[x]
  <2>1. fp + 1 - x \in 1 .. Len(m) /\ (x # name => fp + 1 - x # i)
    BY <1>1, <1>2 DEF InFrame
  <2>2. m[fp + 1 - x] = s[x]
    BY DEF InFrame
  <2> QED
    BY <1>2, <1>4, <1>10, <2>1, <2>2
<1>12. InFrame(w, fp, r, n)
  BY <1>1, <1>4, <1>10, <1>11 DEF InFrame
<1>13. i \in fp + 2 - n .. fp + 1
  BY <1>1, <1>2
<1>14. Rewritten(w, m, fp, r, n)
  BY <1>4, <1>12, <1>13 DEF Rewritten
<1> QED
  BY <1>8, <1>9, <1>14

(* ------------------------------ A new frame ----------------------------- *)
(* The last k of the n variables of s, on top of m. *)
Pile(m, s, n, k) ==
  [i \in 1 .. Len(m) + k |-> IF i <= Len(m) THEN m[i] ELSE s[n - (i - Len(m))]]

LEMMA PileFacts ==
  ASSUME NEW m \in Seq(Word), NEW n \in Nat, NEW s \in StoreOf(n), NEW k \in 0 .. n
  PROVE  /\ Pile(m, s, n, k) \in Seq(Word) /\ Len(Pile(m, s, n, k)) = Len(m) + k
         /\ \A i \in 1 .. Len(m) : Pile(m, s, n, k)[i] = m[i]
         /\ \A i \in 1 .. k : Pile(m, s, n, k)[Len(m) + i] = s[n - i]
<1>1. PICK l \in Nat : l = Len(m)
  OBVIOUS
<1>2. ASSUME NEW i \in 1 .. l + k
      PROVE  (IF i <= l THEN m[i] ELSE s[n - (i - l)]) \in Word
  <2>1. CASE i <= l
    BY <1>1, <2>1
  <2>2. CASE ~(i <= l)
    <3>1. n - (i - l) \in 0 .. n - 1
      BY <2>2
    <3> QED
      BY <2>2, <3>1 DEF StoreOf
  <2> QED
    BY <2>1, <2>2
<1>3. l + k \in Nat
  OBVIOUS
<1>4. Pile(m, s, n, k) = [i \in 1 .. l + k |-> IF i <= l THEN m[i] ELSE s[n - (i - l)]]
  BY <1>1 DEF Pile
<1>5. Pile(m, s, n, k) \in Seq(Word) /\ Len(Pile(m, s, n, k)) = l + k
  <2>1. PICK f : f = [i \in 1 .. l + k |-> IF i <= l THEN m[i] ELSE s[n - (i - l)]]
    OBVIOUS
  <2>2. f \in [1 .. l + k -> Word]
    BY <1>2, <2>1
  <2>3. f \in Seq(Word) /\ Len(f) = l + k
    BY <1>3, <2>2
  <2> QED
    BY <1>4, <2>1, <2>3
<1>6. \A i \in 1 .. l : i \in 1 .. l + k /\ i <= l
  OBVIOUS
<1>7. \A i \in 1 .. k : l + i \in 1 .. l + k /\ ~(l + i <= l) /\ n - ((l + i) - l) = n - i
  OBVIOUS
<1>8. \A i \in 1 .. l : Pile(m, s, n, k)[i] = m[i]
  BY <1>4, <1>6
<1>9. \A i \in 1 .. k : Pile(m, s, n, k)[l + i] = s[n - i]
  BY <1>4, <1>7
<1> QED
  BY <1>1, <1>5, <1>8, <1>9

(* It is on top of m. *)
LEMMA PileBegins ==
  ASSUME NEW p \in Seq(Word), NEW m \in Seq(Word), Begins(p, m),
         NEW n \in Nat, NEW s \in StoreOf(n), NEW k \in 0 .. n
  PROVE  Begins(p, Pile(m, s, n, k))
<1>1. Len(p) \in Nat /\ Len(m) \in Nat
  OBVIOUS
<1>2. /\ Len(Pile(m, s, n, k)) = Len(m) + k
      /\ \A i \in 1 .. Len(m) : Pile(m, s, n, k)[i] = m[i]
  BY PileFacts
<1> QED
  BY <1>1, <1>2 DEF Begins

LEMMA PileLength ==
  ASSUME NEW m \in Seq(Word), NEW n \in Nat, NEW s \in StoreOf(n)
  PROVE  Pile(m, s, n, n) \in Seq(Word) /\ Len(Pile(m, s, n, n)) = Len(m) + n
<1>1. PICK k \in 0 .. n : k = n
  OBVIOUS
<1>2. Pile(m, s, n, k) \in Seq(Word) /\ Len(Pile(m, s, n, k)) = Len(m) + k
  BY PileFacts
<1> QED
  BY <1>1, <1>2

(* Pushing the next one. *)
LEMMA PileMore ==
  ASSUME NEW m \in Seq(Word), NEW n \in Nat, NEW s \in StoreOf(n), NEW k \in 1 .. n
  PROVE  Append(Pile(m, s, n, k - 1), s[n - k]) = Pile(m, s, n, k)
<1>1. PICK p \in 0 .. n : p = k - 1
  OBVIOUS
<1>2. PICK q \in 0 .. n : q = k
  OBVIOUS
<1>3. /\ Pile(m, s, n, p) \in Seq(Word) /\ Len(Pile(m, s, n, p)) = Len(m) + p
      /\ \A i \in 1 .. Len(m) : Pile(m, s, n, p)[i] = m[i]
      /\ \A i \in 1 .. p : Pile(m, s, n, p)[Len(m) + i] = s[n - i]
  BY PileFacts
<1>4. /\ Pile(m, s, n, q) \in Seq(Word) /\ Len(Pile(m, s, n, q)) = Len(m) + q
      /\ \A i \in 1 .. Len(m) : Pile(m, s, n, q)[i] = m[i]
      /\ \A i \in 1 .. q : Pile(m, s, n, q)[Len(m) + i] = s[n - i]
  BY PileFacts
<1>5. PICK l \in Nat : l = Len(m)
  OBVIOUS
<1>6. ASSUME NEW i \in 1 .. l + p
      PROVE  Pile(m, s, n, q)[i] = Pile(m, s, n, p)[i]
  <2>1. CASE i <= l
    BY <1>3, <1>4, <1>5, <2>1
  <2>2. CASE ~(i <= l)
    <3>1. PICK x \in 1 .. p : i = l + x
      <4>1. i - l \in 1 .. p /\ i = l + (i - l)
        BY <2>2
      <4> QED
        BY <4>1
    <3>2. x \in 1 .. q
      BY <1>1, <1>2
    <3> QED
      BY <1>3, <1>4, <1>5, <3>1, <3>2
  <2> QED
    BY <2>1, <2>2
<1>7. s[n - k] \in Word
  <2>1. n - k \in 0 .. n - 1
    OBVIOUS
  <2> QED
    BY <2>1 DEF StoreOf
<1>8. Pile(m, s, n, q)[l + q] = s[n - k]
  <2>1. q \in 1 .. q
    BY <1>2
  <2> QED
    BY <1>2, <1>4, <1>5, <2>1
<1>9. l + q = (l + p) + 1
  BY <1>1, <1>2
<1> HIDE DEF Pile
<1>10. Append(Pile(m, s, n, p), s[n - k]) = Pile(m, s, n, q)
  <2>1. PICK f \in Seq(Word), g \in Seq(Word) : f = Pile(m, s, n, p) /\ g = Pile(m, s, n, q)
    BY <1>3, <1>4
  <2>2. Len(f) = l + p /\ Len(g) = l + q
    BY <1>3, <1>4, <1>5, <2>1
  <2>3. Len(g) = Len(f) + 1 /\ g[Len(g)] = s[n - k]
    BY <1>8, <1>9, <2>1, <2>2
  <2>4. \A i \in 1 .. Len(f) : g[i] = f[i]
    BY <1>6, <2>1, <2>2
  <2>5. Append(f, s[n - k]) = g
    BY <1>7, <2>3, <2>4, AppendIs
  <2> QED
    BY <2>1, <2>5
<1> QED
  BY <1>1, <1>2, <1>10

LEMMA PileNothing ==
  ASSUME NEW m \in Seq(Word), NEW n \in Nat, NEW s \in StoreOf(n)
  PROVE  Pile(m, s, n, 0) = m
<1>1. PICK p \in 0 .. n : p = 0
  OBVIOUS
<1>2. /\ Pile(m, s, n, p) \in Seq(Word) /\ Len(Pile(m, s, n, p)) = Len(m) + p
      /\ \A i \in 1 .. Len(m) : Pile(m, s, n, p)[i] = m[i]
  BY PileFacts
<1>3. Len(m) + p = Len(m)
  BY <1>1
<1> QED
  BY <1>1, <1>2, <1>3, SeqEqual

(* With all of them m is below a frame. *)
LEMMA PileIsFrame ==
  ASSUME NEW m \in Seq(Word), NEW n \in Nat, NEW s \in StoreOf(n),
         NEW fp, fp = Len(m) + n - 1, fp \in Word
  PROVE  InFrame(Pile(m, s, n, n), fp, s, n)
<1>1. PICK k \in 0 .. n : k = n
  OBVIOUS
<1>2. PICK w \in Seq(Word) : /\ w = Pile(m, s, n, k) /\ Len(w) = Len(m) + k
                             /\ \A i \in 1 .. k : w[Len(m) + i] = s[n - i]
  BY PileFacts
<1>3. PICK l \in Nat : l = Len(m)
  OBVIOUS
<1>4. n <= fp + 1 /\ fp + 1 <= Len(w)
  BY <1>1, <1>2, <1>3
<1>5. ASSUME NEW v \in 0 .. n - 1
      PROVE  w[fp + 1 - v] = s[v]
  <2>1. PICK i \in 1 .. k : i = n - v /\ n - i = v
    <3>1. n - v \in 1 .. k /\ n - (n - v) = v
      BY <1>1
    <3> QED
      BY <3>1
  <2>2. fp + 1 - v = l + i
    BY <1>3, <2>1
  <2> QED
    BY <1>2, <1>3, <2>1, <2>2
<1> QED
  BY <1>1, <1>2, <1>4, <1>5 DEF InFrame

(* Pieces of code that put one after the other there. *)
LEMMA MovesPiling ==
  ASSUME NEW j, NEW F, Len(j.code) \in Nat, NEW pieces \in Seq(Seq(ICodeOperation)),
         NEW m \in Seq(Word), NEW n \in Nat, NEW s \in StoreOf(n), NEW fp, NEW ra, NEW q \in Nat,
         q + Len(pieces) <= n,
         \A i \in 1 .. Len(pieces), x \in Seq(Word) :
           x = Pile(m, s, n, (q + i) - 1) =>
             Moves(j, F, pieces[i], States(F, x, fp, ra), States(F, Append(x, s[n - (q + i)]), fp, ra))
  PROVE  Moves(j, F, Concatenated(pieces), States(F, Pile(m, s, n, q), fp, ra),
               States(F, Pile(m, s, n, q + Len(pieces)), fp, ra))
<1>1. PICK l \in Nat : l = Len(pieces)
  OBVIOUS
<1> DEFINE Ps == [i \in 0 .. l |-> States(F, Pile(m, s, n, q + i), fp, ra)]
<1>2. \A i \in 0 .. l : Ps[i] = States(F, Pile(m, s, n, q + i), fp, ra)
  OBVIOUS
<1>3. ASSUME NEW i \in 1 .. l
      PROVE  Moves(j, F, pieces[i], Ps[i - 1], Ps[i])
  <2>1. PICK k \in 1 .. n : k = q + i /\ k - 1 = q + (i - 1)
    <3>1. q + i \in 1 .. n /\ (q + i) - 1 = q + (i - 1)
      BY <1>1
    <3> QED
      BY <3>1
  <2>2. PICK x \in Seq(Word) : x = Pile(m, s, n, k - 1)
    <3>1. PICK p \in 0 .. n : p = k - 1
      OBVIOUS
    <3> QED
      BY <3>1, PileFacts
  <2>3. Append(x, s[n - k]) = Pile(m, s, n, k)
    BY <2>2, PileMore
  <2>4. i - 1 \in 0 .. l /\ i \in 0 .. l
    OBVIOUS
  <2>5. Ps[i - 1] = States(F, x, fp, ra) /\ Ps[i] = States(F, Append(x, s[n - k]), fp, ra)
    BY <1>2, <2>1, <2>2, <2>3, <2>4
  <2> HIDE DEF Ps
  <2> QED
    BY <1>1, <2>1, <2>2, <2>5
<1> HIDE DEF Ps
<1>4. Moves(j, F, Concatenated(pieces), Ps[0], Ps[l])
  BY <1>1, <1>3, MovesConcatenated
<1>5. 0 \in 0 .. l /\ l \in 0 .. l /\ q + 0 = q
  OBVIOUS
<1> QED
  BY <1>1, <1>2, <1>4, <1>5

LEMMA LeaveSize ==
  ASSUME NEW n \in Nat
  PROVE  LeaveFrame(n) \in Seq(ICodeOperation) /\ Len(LeaveFrame(n)) = 8
<1>1. PICK drop \in Seq(ICodeOperation) : drop = Drop(n) /\ Len(drop) = 2
  <2>1. Drop(n) \in Seq(ICodeOperation) /\ Len(Drop(n)) = 2
    BY DEF Drop, ICodeOperation_init, ICodeOperation, Opcode, STACK_POINTER, TEMPORARY
  <2> QED
    BY <2>1
<1>2. /\ Pop(RETURN_ADDRESS) \in Seq(ICodeOperation) /\ Len(Pop(RETURN_ADDRESS)) = 3
      /\ Pop(FRAME_POINTER) \in Seq(ICodeOperation) /\ Len(Pop(FRAME_POINTER)) = 3
  BY PieceSizes DEF RETURN_ADDRESS, FRAME_POINTER
<1>3. PICK two : Joins(two, drop, Pop(RETURN_ADDRESS))
  BY DEF Joins
<1>4. two \in Seq(ICodeOperation) /\ Len(two) = Len(drop) + Len(Pop(RETURN_ADDRESS))
  BY <1>2, <1>3, JoinsFacts
<1>5. Joins(LeaveFrame(n), two, Pop(FRAME_POINTER))
  BY <1>1, <1>3 DEF LeaveFrame, Joins
<1>6. LeaveFrame(n) \in Seq(ICodeOperation) /\ Len(LeaveFrame(n)) = Len(two) + Len(Pop(FRAME_POINTER))
  BY <1>2, <1>4, <1>5, JoinsFacts
<1> QED
  BY <1>1, <1>2, <1>4, <1>6

(* What is on the stack may grow above a frame. *)
LEMMA FrameBegins ==
  ASSUME NEW m, NEW fp, NEW s, NEW n, InFrame(m, fp, s, n), NEW x \in Seq(Word), Begins(m, x)
  PROVE  InFrame(x, fp, s, n)
<1>1. /\ fp \in Int /\ n \in Nat /\ Len(m) \in Nat /\ Len(x) \in Nat /\ Len(m) <= Len(x)
      /\ fp + 1 <= Len(m) /\ n <= fp + 1
  BY MaxIntAssumption DEF InFrame, Word, MinInt, Begins
<1>2. fp + 1 <= Len(x)
  BY <1>1
<1>3. ASSUME NEW v \in 0 .. n - 1
      PROVE  x[fp + 1 - v] = s[v]
  <2>1. fp + 1 - v \in 1 .. Len(m)
    BY <1>1
  <2>2. m[fp + 1 - v] = s[v]
    BY DEF InFrame
  <2> QED
    BY <2>1, <2>2 DEF Begins
<1> QED
  BY <1>2, <1>3 DEF InFrame

(* Code of an argument pushes its value, on whatever is above the frame. *)
PushesValue(j, F, ops, m, fp, ra, v) ==
  \A x \in Seq(Word) :
    Begins(m, x) => Moves(j, F, ops, States(F, x, fp, ra), States(F, Append(x, v), fp, ra))

(* The code before the jump of a call. *)
ToCall(n, args) ==
  Push(FRAME_POINTER) \o Push(RETURN_ADDRESS) \o Concatenated(Zeros(n, Len(args)))
    \o Concatenated(args) \o EnterFrame

LEMMA MovesEntering ==
  ASSUME NEW j, NEW F, Runnable(j, F), NEW m \in Seq(Word), NEW fp, NEW ra
  PROVE  Moves(j, F, EnterFrame, States(F, m, fp, ra), States(F, m, Len(m) - 1, ra))
<1>1. EnterFrame \in Seq(ICodeOperation) /\ Len(EnterFrame) = 3
  BY PieceSizes
<1>2. \A a \in Nat : CodeAt(j, a, EnterFrame) =>
        Takes(j, F, State(F, a, m, fp, ra), State(F, a + 3, m, Len(m) - 1, ra))
  BY StateEnters
<1>3. \A a \in Nat : a + 3 \in Nat
  OBVIOUS
<1> QED
  BY <1>1, <1>2, <1>3 DEF Moves, States

(* It makes a frame for the callee, above what the caller saved. *)
LEMMA MovesToCall ==
  ASSUME NEW j, NEW F, Runnable(j, F), NEW m \in Seq(Word), NEW fp \in Word, NEW ra \in Word,
         NEW n \in Nat, NEW s \in StoreOf(n), NEW args \in Seq(Seq(ICodeOperation)),
         Len(args) <= n, \A v \in Len(args) .. n - 1 : s[v] = 0,
         \A i \in 1 .. Len(args) : PushesValue(j, F, args[i], m, fp, ra, s[Len(args) - i])
  PROVE  \E w : /\ Moves(j, F, ToCall(n, args), States(F, m, fp, ra),
                         States(F, w, Len(w) - 1, ra))
                /\ FrameOver(w, m, fp, ra, n)
                /\ Len(w) - 1 \in Word => InFrame(w, Len(w) - 1, s, n)
<1>1. PICK k \in Nat : k = Len(args)
  OBVIOUS
<1>2. PICK z \in Nat : z = n - k /\ z + k = n /\ z <= n
  <2>1. n - k \in Nat /\ (n - k) + k = n /\ n - k <= n
    BY <1>1
  <2> QED
    BY <2>1
<1>3. Len(j.code) \in Nat /\ 0 \in Word
  BY MaxIntAssumption, Numbers
<1>4. PICK us : us = Append(m, fp)
  OBVIOUS
<1>5. /\ us \in Seq(Word) /\ Len(us) = Len(m) + 1 /\ us[Len(m) + 1] = fp
      /\ \A i \in 1 .. Len(m) : us[i] = m[i]
  BY <1>4, AppendProperties
<1>6. PICK ws : ws = Append(us, ra)
  OBVIOUS
<1>7. /\ ws \in Seq(Word) /\ Len(ws) = Len(us) + 1 /\ ws[Len(us) + 1] = ra
      /\ \A i \in 1 .. Len(us) : ws[i] = us[i]
  BY <1>5, <1>6, AppendProperties
<1>8. PICK l \in Nat : l = Len(m)
  OBVIOUS
<1>9. /\ Len(ws) = l + 2 /\ ws[l + 1] = fp /\ ws[l + 2] = ra
      /\ \A i \in 1 .. l : ws[i] = m[i]
  <2>1. Len(us) = l + 1 /\ (l + 1) + 1 = l + 2 /\ l + 1 \in 1 .. Len(us)
        /\ \A i \in 1 .. l : i \in 1 .. Len(us)
    BY <1>5, <1>8
  <2> QED
    BY <1>5, <1>7, <1>8, <2>1
<1>0. ws \in Seq(Word) /\ Begins(m, ws)
  BY <1>7, <1>8, <1>9 DEF Begins
<1> DEFINE x == Pile(ws, s, n, z)
           w == Pile(ws, s, n, n)
<1>10. Moves(j, F, Push(FRAME_POINTER), States(F, m, fp, ra), States(F, us, fp, ra))
  BY <1>4, MovesPushing
<1>11. Moves(j, F, Push(RETURN_ADDRESS), States(F, us, fp, ra), States(F, ws, fp, ra))
  BY <1>5, <1>6, MovesPushing
<1>12. Moves(j, F, Concatenated(Zeros(n, k)), States(F, ws, fp, ra), States(F, x, fp, ra))
  <2>1. PICK pieces : pieces = Zeros(n, k)
    OBVIOUS
  <2>2. pieces = [i \in 1 .. z |-> PushZero]
    <3>1. k \in 0 .. n
      BY <1>1
    <3> QED
      BY <1>2, <2>1, <3>1, ZerosAre
  <2>3. PushZero \in Seq(ICodeOperation)
    BY <1>7, MovesPushingZero DEF Moves
  <2>4. pieces \in Seq(Seq(ICodeOperation)) /\ Len(pieces) = z
    BY <2>2, <2>3
  <2>5. ASSUME NEW i \in 1 .. z, NEW y \in Seq(Word)
        PROVE  Moves(j, F, pieces[i], States(F, y, fp, ra),
                     States(F, Append(y, s[n - (0 + i)]), fp, ra))
    <3>1. n - (0 + i) \in k .. n - 1
      BY <1>2
    <3>2. s[n - (0 + i)] = 0 /\ pieces[i] = PushZero
      BY <1>1, <2>2, <3>1
    <3> QED
      BY <3>2, MovesPushingZero
  <2>6. 0 + z <= n /\ 0 + z = z /\ 0 \in Nat
    BY <1>2
  <2>7. Moves(j, F, Concatenated(pieces), States(F, Pile(ws, s, n, 0), fp, ra),
              States(F, Pile(ws, s, n, 0 + Len(pieces)), fp, ra))
    BY <1>3, <1>7, <2>4, <2>5, <2>6, MovesPiling
  <2> QED
    BY <1>7, <2>1, <2>4, <2>6, <2>7, PileNothing
<1>13. Moves(j, F, Concatenated(args), States(F, x, fp, ra), States(F, w, fp, ra))
  <2>1. ASSUME NEW i \in 1 .. k, NEW y \in Seq(Word), y = Pile(ws, s, n, (z + i) - 1)
        PROVE  Moves(j, F, args[i], States(F, y, fp, ra),
                     States(F, Append(y, s[n - (z + i)]), fp, ra))
    <3>1. PICK q \in 0 .. n : q = (z + i) - 1
      <4>1. (z + i) - 1 \in 0 .. n
        BY <1>2
      <4> QED
        BY <4>1
    <3>2. n - (z + i) = k - i
      BY <1>2
    <3>3. Begins(m, y)
      <4>1. y = Pile(ws, s, n, q)
        BY <2>1, <3>1
      <4>2. Begins(m, Pile(ws, s, n, q))
        BY <1>0, PileBegins
      <4> QED
        BY <4>1, <4>2
    <3>4. PushesValue(j, F, args[i], m, fp, ra, s[k - i])
      BY <1>1
    <3> QED
      BY <3>2, <3>3, <3>4 DEF PushesValue
  <2>2. z + Len(args) <= n /\ z + Len(args) = n
    BY <1>1, <1>2
  <2>3. Moves(j, F, Concatenated(args), States(F, Pile(ws, s, n, z), fp, ra),
              States(F, Pile(ws, s, n, z + Len(args)), fp, ra))
    BY <1>1, <1>3, <1>7, <2>1, <2>2, MovesPiling
  <2> QED
    BY <2>2, <2>3
<1>14. /\ w \in Seq(Word) /\ Len(w) = Len(ws) + n
       /\ \A i \in 1 .. Len(ws) : w[i] = ws[i]
  <2>1. w \in Seq(Word) /\ Len(w) = Len(ws) + n
    BY <1>0, PileLength
  <2>2. Begins(ws, w)
    <3>1. Begins(ws, ws)
      BY <1>0 DEF Begins
    <3>2. n \in 0 .. n
      OBVIOUS
    <3> QED
      BY <1>0, <3>1, <3>2, PileBegins
  <2> QED
    BY <2>1, <2>2 DEF Begins
<1>15. Len(w) - 1 \in Word => InFrame(w, Len(w) - 1, s, n)
  <2>1. PICK fq : fq = Len(w) - 1 /\ fq = Len(ws) + n - 1
    BY <1>14
  <2> QED
    BY <1>7, <2>1, PileIsFrame
<1> HIDE DEF w, x
<1>16. FrameOver(w, m, fp, ra, n)
  <2>1. /\ Len(w) = Len(m) + 2 + n /\ Len(m) + 1 = l + 1 /\ Len(m) + 2 = l + 2
        /\ l + 1 \in 1 .. Len(ws) /\ l + 2 \in 1 .. Len(ws)
        /\ \A i \in 1 .. l : i \in 1 .. Len(ws)
    BY <1>8, <1>9, <1>14
  <2> QED
    BY <1>8, <1>9, <1>14, <2>1 DEF FrameOver
<1>17. Moves(j, F, EnterFrame, States(F, w, fp, ra), States(F, w, Len(w) - 1, ra))
  BY <1>14, MovesEntering
<1>18. Moves(j, F, Push(FRAME_POINTER) \o Push(RETURN_ADDRESS), States(F, m, fp, ra),
             States(F, ws, fp, ra))
  BY <1>3, <1>10, <1>11, MovesThen
<1>19. Moves(j, F, Push(FRAME_POINTER) \o Push(RETURN_ADDRESS) \o Concatenated(Zeros(n, k)),
             States(F, m, fp, ra), States(F, x, fp, ra))
  BY <1>3, <1>12, <1>18, MovesThen
<1>20. Moves(j, F, Push(FRAME_POINTER) \o Push(RETURN_ADDRESS) \o Concatenated(Zeros(n, k))
                     \o Concatenated(args), States(F, m, fp, ra), States(F, w, fp, ra))
  BY <1>3, <1>13, <1>19, MovesThen
<1>21. Moves(j, F, ToCall(n, args), States(F, m, fp, ra), States(F, w, Len(w) - 1, ra))
  BY <1>1, <1>3, <1>17, <1>20, MovesThen DEF ToCall
<1> QED
  BY <1>15, <1>16, <1>21

(* A function entered at b with the store s, called from anywhere, returns v. *)
Yielding(j, F, b, s, n, v) ==
  \A m, fp, ra :
    InFrame(m, fp, s, n) /\ Len(m) = fp + 1 /\ ra \in Word =>
      \E w, r : /\ Rewritten(w, m, fp, r, n)
                /\ Takes(j, F, State(F, b, m, fp, ra), Having(F, ra, w, fp, ra, v))

(* The callee writes to its own frame only. *)
LEMMA FrameRewritten ==
  ASSUME NEW w, NEW m \in Seq(Word), NEW fp, NEW ra, NEW n \in Nat, FrameOver(w, m, fp, ra, n),
         NEW x, NEW fq, fq = Len(w) - 1, NEW r, Rewritten(x, w, fq, r, n)
  PROVE  FrameOver(x, m, fp, ra, n)
<1>1. PICK l \in Nat : l = Len(m)
  OBVIOUS
<1>2. /\ w \in Seq(Word) /\ Len(w) = l + 2 + n
      /\ w[l + 1] = fp /\ w[l + 2] = ra /\ \A i \in 1 .. l : w[i] = m[i]
  BY <1>1 DEF FrameOver
<1>3. /\ x \in Seq(Word) /\ Len(x) = Len(w)
      /\ \A i \in 1 .. Len(w) : i \notin fq + 2 - n .. fq + 1 => x[i] = w[i]
  BY DEF Rewritten, InFrame
<1>4. \A i \in 1 .. l + 2 : i \in 1 .. Len(w) /\ i \notin fq + 2 - n .. fq + 1
  BY <1>2
<1>5. /\ x[l + 1] = fp /\ x[l + 2] = ra /\ \A i \in 1 .. l : x[i] = m[i]
  <2>1. l + 1 \in 1 .. l + 2 /\ l + 2 \in 1 .. l + 2 /\ \A i \in 1 .. l : i \in 1 .. l + 2
    OBVIOUS
  <2> QED
    BY <1>2, <1>3, <1>4, <2>1
<1> QED
  BY <1>1, <1>2, <1>3, <1>5 DEF FrameOver

(* The code of a call leaves what the callee returns, and the stack as it was. *)
LEMMA MovesCalling ==
  ASSUME NEW j, NEW F, Runnable(j, F), NEW g \in Nat, NEW b \in Nat, LabelSites(j.code, g) = {b},
         CodeAt(j, b, LabelOps(g)), NEW n \in Nat, NEW s \in StoreOf(n), NEW v \in Word,
         Yielding(j, F, b + 1, s, n, v),
         NEW m \in Seq(Word), NEW fp \in Word, NEW ra \in Word,
         NEW args \in Seq(Seq(ICodeOperation)),
         Len(args) <= n, \A i \in Len(args) .. n - 1 : s[i] = 0,
         \A i \in 1 .. Len(args) : PushesValue(j, F, args[i], m, fp, ra, s[Len(args) - i])
  PROVE  Moves(j, F, CallCode(n, Zeros(n, Len(args)), args, FuncLabel(0, g)),
               States(F, m, fp, ra), Havings(F, m, fp, ra, v))
<1>1. PICK w : /\ Moves(j, F, ToCall(n, args), States(F, m, fp, ra), States(F, w, Len(w) - 1, ra))
               /\ FrameOver(w, m, fp, ra, n)
               /\ Len(w) - 1 \in Word => InFrame(w, Len(w) - 1, s, n)
  BY MovesToCall
<1>2. PICK link \in Seq(ICodeOperation) :
        link = <<ICodeOperation_init("JUMPLINK", g, 0)>> /\ Len(link) = 1
  <2>1. "JUMPLINK" \in Opcode /\ 0 \in Int /\ g \in Int
    BY DEF Opcode
  <2> QED
    BY <2>1, Single
<1>3. LeaveFrame(n) \in Seq(ICodeOperation) /\ Len(LeaveFrame(n)) = 8
  BY LeaveSize
<1>4. PICK to \in Seq(ICodeOperation) : to = ToCall(n, args)
  BY <1>1 DEF Moves
<1>5. PICK linked : Joins(linked, to, link)
  BY DEF Joins
<1>6. linked \in Seq(ICodeOperation) /\ Len(linked) = Len(to) + 1 /\ Len(to) \in Nat
  BY <1>2, <1>4, <1>5, JoinsFacts
<1>7. PICK ops : ops = CallCode(n, Zeros(n, Len(args)), args, FuncLabel(0, g))
  OBVIOUS
<1>8. Joins(ops, linked, LeaveFrame(n))
  <2>1. FuncLabel(0, g) = g
    BY DEF FuncLabel
  <2> QED
    BY <1>2, <1>4, <1>5, <1>7, <2>1 DEF CallCode, ToCall, Joins
<1>9. ops \in Seq(ICodeOperation)
  BY <1>3, <1>6, <1>8, JoinsFacts
<1>10. Len(j.code) \in Nat /\ Word \subseteq Value
  BY Numbers
<1>11. ASSUME NEW a \in Nat, CodeAt(j, a, ops)
       PROVE  Takes(j, F, State(F, a, m, fp, ra), Having(F, a + Len(ops), m, fp, ra, v))
  <2>1. PICK c \in Nat : c = a + Len(to) /\ c + 1 = a + Len(linked)
    <3>1. a + Len(to) \in Nat /\ (a + Len(to)) + 1 = a + Len(linked)
      BY <1>6
    <3> QED
      BY <3>1
  <2>2. PICK back \in Nat : back = c + 1 /\ back + 8 = a + Len(ops)
    <3>1. Len(ops) = Len(linked) + 8
      <4>1. Len(ops) = Len(linked) + Len(LeaveFrame(n))
        BY <1>3, <1>6, <1>8, JoinsFacts
      <4> QED
        BY <1>3, <4>1
    <3>2. PICK q \in Nat : q = Len(linked)
      BY <1>6
    <3>3. c + 1 \in Nat /\ (c + 1) + 8 = a + (q + 8)
      BY <2>1, <3>2
    <3> QED
      BY <3>1, <3>2, <3>3
  <2>3. CodeAt(j, a, linked) /\ CodeAt(j, back, LeaveFrame(n))
    <3>1. back = a + Len(linked)
      BY <2>1, <2>2
    <3>2. PICK leave \in Seq(ICodeOperation) : leave = LeaveFrame(n)
      BY <1>3
    <3>3. Joins(ops, linked, leave)
      BY <1>8, <3>2
    <3>4. CodeAt(j, a, linked) /\ CodeAt(j, back, leave)
      BY <1>6, <1>10, <1>11, <3>1, <3>3, JoinedAt
    <3> QED
      BY <3>2, <3>4
  <2>4. CodeAt(j, a, to) /\ CodeAt(j, c, link)
    <3>1. c = a + Len(to)
      BY <2>1
    <3> QED
      BY <1>5, <1>10, <2>3, <3>1, JoinedAt
  <2>5. back \in Word
    BY <1>2, <2>2, <2>4, OperationThere
  <2> DEFINE k == Len(w) - 1
  <2>6. Takes(j, F, State(F, a, m, fp, ra), State(F, c, w, k, ra))
    BY <1>1, <1>4, <2>1, <2>4 DEF Moves, States
  <2>7. Takes(j, F, State(F, c, w, k, ra), State(F, b, w, k, back))
    BY <1>2, <2>2, <2>4, StateCalls
  <2>8. Takes(j, F, State(F, b, w, k, back), State(F, b + 1, w, k, back))
    BY <1>10, <2>5, StateLabels DEF LabelOps
  <2>9. Takes(j, F, State(F, b + 1, w, k, back), Having(F, back + 8, m, fp, ra, v))
    <3>1. CASE Len(w) <= StackSize
      <4>1. w \in Seq(Word) /\ Len(w) \in Nat
        BY <1>1 DEF FrameOver
      <4>2. k \in Word
        <5>1. k \in Int /\ -MaxInt - 1 <= k /\ k <= MaxInt
          BY <3>1, <4>1, Numbers
        <5> QED
          BY <5>1, Numbers
      <4>3. InFrame(w, k, s, n) /\ Len(w) = k + 1
        BY <1>1, <4>1, <4>2
      <4>4. PICK x, r : /\ Rewritten(x, w, k, r, n)
                        /\ Takes(j, F, State(F, b + 1, w, k, back), Having(F, back, x, k, back, v))
        <5> HIDE DEF k
        <5> QED
          BY <2>5, <4>3 DEF Yielding
      <4>5. FrameOver(x, m, fp, ra, n)
        BY <1>1, <4>4, FrameRewritten
      <4>6. Takes(j, F, Having(F, back, x, k, back, v), Having(F, back + 8, m, fp, ra, v))
        BY <2>3, <4>5, HavingLeaves
      <4> QED
        BY <4>4, <4>6, TakesThen
    <3>2. CASE ~(Len(w) <= StackSize)
      BY <3>2, FromState
    <3> QED
      BY <3>1, <3>2
  <2> HIDE DEF k
  <2>10. Takes(j, F, State(F, a, m, fp, ra), State(F, b, w, k, back))
    BY <2>6, <2>7, TakesThen
  <2>11. Takes(j, F, State(F, a, m, fp, ra), State(F, b + 1, w, k, back))
    BY <2>8, <2>10, TakesThen
  <2> QED
    BY <2>2, <2>9, <2>11, TakesThen
<1>12. \A a \in Nat : Len(ops) \in Nat => a + Len(ops) \in Nat
  OBVIOUS
<1>13. Len(ops) \in Nat
  BY <1>9
<1> QED
  BY <1>7, <1>9, <1>11, <1>12, <1>13 DEF Moves, States, Havings

(* ----------------------- Terms and what they compute -------------------- *)
(* A program, the code of which may be run, and what its interpreter does with it. *)
Compared(j, F, tables, ev) ==
  Runnable(j, F) /\ GeneratedWith(j, tables) /\ IsEvaluation(j.prog, ev)

VarsIn(j, f) == Prog_func(j.prog, f).num_vars

(* The code of an expression leaves the value of it. *)
ExprRuns(j, F, ops, m, fp, ra, v) == Moves(j, F, ops, States(F, m, fp, ra), Havings(F, m, fp, ra, v))

ExprAgrees(j, F, ops, v, s, n) ==
  /\ v \in Word
  /\ \A m, fp, ra : InFrame(m, fp, s, n) /\ ra \in Word => ExprRuns(j, F, ops, m, fp, ra, v)

(* From P the machine comes to what a command leaves, or the passes of a loop: to the
   caller of the function with what is returned, or to b. *)
Leaves(j, F, P, b, m, fp, ra, ev, call, n) ==
  \E w : /\ Rewritten(w, m, fp, StoreAfter(ev, call), n)
         /\ IF Returns(ev, call)
            THEN Takes(j, F, P, Having(F, ra, w, fp, ra, Yields(ev, call)))
            ELSE Takes(j, F, P, State(F, b, w, fp, ra))

Alone(m, fp, ra, s, n) == InFrame(m, fp, s, n) /\ Len(m) = fp + 1 /\ ra \in Word

CommAgrees(j, F, ops, ev, call, s, n) ==
  /\ StoreAfter(ev, call) \in StoreOf(n)
  /\ Returns(ev, call) => Yields(ev, call) \in Word
  /\ \A m, fp, ra : Alone(m, fp, ra, s, n) =>
       \A a \in Nat : CodeAt(j, a, ops) =>
         Leaves(j, F, State(F, a, m, fp, ra), a + Len(ops), m, fp, ra, ev, call, n)

LoopAgrees(j, F, guard, body, label, ev, call, s, n) ==
  /\ StoreAfter(ev, call) \in StoreOf(n)
  /\ Returns(ev, call) => Yields(ev, call) \in Word
  /\ \A m, fp, ra : Alone(m, fp, ra, s, n) =>
       \A a \in Nat, c \in Nat, d \in Nat : LoopAt(j, guard, body, label, a, c, d) =>
         Leaves(j, F, State(F, c + 1, m, fp, ra), (d + 1) + 1, m, fp, ra, ev, call, n)

(* What the interpreter does in a call is what the code does that was generated for the
   same term, of any of the functions. *)
AgreesIn(j, F, t, n, ev, call) ==
  \A s \in StoreOf(n) :
    /\ \A e \in t.exprs :
         call = ExprCall(e, s) => ExprAgrees(j, F, t.expr_code[e], ValueOf(ev, e, s), s, n)
    /\ \A c \in t.comms :
         call = CommCall(c[1], s) => CommAgrees(j, F, t.comm_code[c].code, ev, call, s, n)
    /\ \A c \in t.comms : \A body :
         call = LoopCall(c[1], s) /\ IsWhile(t, c, body) =>
           LoopAgrees(j, F, t.expr_code[c[1].expr], t.comm_code[body].code, c[2], ev, call, s, n)

Agrees(j, F, tables, ev, call) ==
  \A f \in FunctionNames(j.prog) : AgreesIn(j, F, tables[f], VarsIn(j, f), ev, call)

AgreesBelow(j, F, tables, ev, call) ==
  \A inner : Further(ev, call, inner) => Agrees(j, F, tables, ev, inner)

LEMMA FunctionTable ==
  ASSUME NEW j, NEW tables, GeneratedWith(j, tables), NEW f \in FunctionNames(j.prog),
         NEW t, t = tables[f], NEW n, n = VarsIn(j, f)
  PROVE  /\ n \in Nat /\ f \in Nat
         /\ t.expr_code \in [t.exprs -> Seq(ICodeOperation)]
         /\ t.comm_code \in [t.comms -> [code : Seq(ICodeOperation), next_label : Int]]
         /\ ExprCalls(j.prog, n, t) /\ CommCalls(n, t)
         /\ t.body \in t.comms /\ t.body[1] = Prog_func(j.prog, f).body
<1>1. Functional(j) /\ f \in Nat
  BY ProgramFacts
<1>2. n \in Nat
  BY <1>1 DEF Functional, VarsIn
<1>3. PICK i \in 1 .. Len(j.prog) : i = f + 1 /\ f = i - 1
  BY ProgramFacts
<1>4. FunctionIs(j, tables, i)
  BY ProgramFacts
<1>5. j.prog[i] = Prog_func(j.prog, f)
  BY <1>3 DEF Prog_func
<1>6. IsTable(j.prog, Prog_func(j.prog, f), t) /\ t.body \in t.comms
  BY <1>3, <1>4 DEF FunctionIs, TableOf
<1>7. t.body[1] = Prog_func(j.prog, f).body
  BY <1>3, <1>4, <1>5 DEF FunctionIs
<1> QED
  BY <1>1, <1>2, <1>6, <1>7 DEF IsTable, VarsIn

(* What is known of the calls in a call. *)
LEMMA BelowExpr ==
  ASSUME NEW j, NEW F, NEW tables, NEW ev, NEW call, AgreesBelow(j, F, tables, ev, call),
         NEW f \in FunctionNames(j.prog), NEW t, t = tables[f], NEW n, n = VarsIn(j, f),
         NEW s \in StoreOf(n), NEW e \in t.exprs, Further(ev, call, ExprCall(e, s))
  PROVE  ExprAgrees(j, F, t.expr_code[e], ValueOf(ev, e, s), s, n)
BY DEF AgreesBelow, Agrees, AgreesIn

LEMMA BelowComm ==
  ASSUME NEW j, NEW F, NEW tables, NEW ev, NEW call, AgreesBelow(j, F, tables, ev, call),
         NEW f \in FunctionNames(j.prog), NEW t, t = tables[f], NEW n, n = VarsIn(j, f),
         NEW s \in StoreOf(n), NEW c \in t.comms, NEW inner, inner = CommCall(c[1], s),
         Further(ev, call, inner)
  PROVE  CommAgrees(j, F, t.comm_code[c].code, ev, inner, s, n)
BY DEF AgreesBelow, Agrees, AgreesIn

LEMMA BelowLoop ==
  ASSUME NEW j, NEW F, NEW tables, NEW ev, NEW call, AgreesBelow(j, F, tables, ev, call),
         NEW f \in FunctionNames(j.prog), NEW t, t = tables[f], NEW n, n = VarsIn(j, f),
         NEW s \in StoreOf(n), NEW c \in t.comms, NEW inner, inner = LoopCall(c[1], s),
         Further(ev, call, inner), NEW body, IsWhile(t, c, body)
  PROVE  LoopAgrees(j, F, t.expr_code[c[1].expr], t.comm_code[body].code, c[2], ev, inner, s, n)
BY DEF AgreesBelow, Agrees, AgreesIn

LEMMA MovesLoading ==
  ASSUME NEW j, NEW F, Runnable(j, F), NEW m, NEW fp, NEW ra, NEW v \in Word
  PROVE  Moves(j, F, <<ICodeOperation_init("LOADIMM", v, ACCUMULATOR)>>, States(F, m, fp, ra),
               Havings(F, m, fp, ra, v))
<1>1. PICK one \in Seq(ICodeOperation) :
        one = <<ICodeOperation_init("LOADIMM", v, ACCUMULATOR)>> /\ Len(one) = 1
  <2>1. "LOADIMM" \in Opcode /\ v \in Int /\ ACCUMULATOR \in Int
    BY Numbers DEF Opcode, ACCUMULATOR
  <2> QED
    BY <2>1, Single
<1>2. \A a \in Nat : CodeAt(j, a, one) =>
        Takes(j, F, State(F, a, m, fp, ra), Having(F, a + 1, m, fp, ra, v))
  BY <1>1, StateLoads
<1>3. \A a \in Nat : a + 1 \in Nat
  OBVIOUS
<1> QED
  BY <1>1, <1>2, <1>3 DEF Moves, States, Havings

(* int arithmetic of the two is the same. *)
LEMMA SameArithmetic ==
  ASSUME NEW v \in Word, NEW w \in Word
  PROVE  /\ Source!WrapInt(v + w) = Combined("ADD", v, w) /\ Combined("ADD", v, w) \in Word
         /\ Source!WrapInt(v - w) = Combined("SUB", v, w) /\ Combined("SUB", v, w) \in Word
<1>1. Source!WrapInt(v + w) = Wrap(v + w) /\ Source!WrapInt(v - w) = Wrap(v - w)
  BY MaxIntAssumption DEF Source!WrapInt, Wrap, Word, MinInt
<1>2. Combined("ADD", v, w) = Wrap(v + w) /\ Combined("SUB", v, w) = Wrap(v - w)
  BY DEF Combined
<1> QED
  BY <1>1, <1>2, WrapsToWord

(* The templates of expressions compute what the interpreter does, *)
LEMMA SumAgrees ==
  ASSUME NEW j, NEW F, Runnable(j, F), NEW opc \in {"ADD", "SUB"}, NEW s, NEW n,
         NEW lhs, NEW v, ExprAgrees(j, F, lhs, v, s, n),
         NEW rhs, NEW w, ExprAgrees(j, F, rhs, w, s, n)
  PROVE  ExprAgrees(j, F, BinaryCode(rhs, lhs, opc), Combined(opc, v, w), s, n)
<1>1. v \in Word /\ w \in Word
  BY DEF ExprAgrees
<1>2. Combined(opc, v, w) \in Word
  BY <1>1, WrapsToWord
<1>3. ASSUME NEW m, NEW fp, NEW ra, InFrame(m, fp, s, n), ra \in Word
      PROVE  ExprRuns(j, F, BinaryCode(rhs, lhs, opc), m, fp, ra, Combined(opc, v, w))
  <2>1. m \in Seq(Word) /\ fp \in Word
    BY <1>3 DEF InFrame
  <2>2. InFrame(Append(m, w), fp, s, n)
    BY <1>1, <1>3, FrameUnder
  <2>3. ExprRuns(j, F, rhs, m, fp, ra, w) /\ ExprRuns(j, F, lhs, Append(m, w), fp, ra, v)
    BY <1>3, <2>2 DEF ExprAgrees
  <2> QED
    BY <1>1, <1>3, <2>1, <2>3, MovesCombining DEF ExprRuns
<1> QED
  BY <1>2, <1>3 DEF ExprAgrees

(* What the body of a function returns is what the code of it returns. *)
LEMMA BodyYields ==
  ASSUME NEW j, NEW F, NEW tables, NEW ev, Compared(j, F, tables, ev),
         NEW g \in FunctionNames(j.prog), NEW b \in Nat,
         CodeAt(j, b, BodyOf(tables, g + 1).code),
         NEW n, n = VarsIn(j, g), NEW s \in StoreOf(n),
         NEW call, call = CommCall(Prog_func(j.prog, g).body, s),
         Agrees(j, F, tables, ev, call), Returns(ev, call)
  PROVE  Yields(ev, call) \in Word /\ Yielding(j, F, b, s, n, Yields(ev, call))
<1>1. PICK t : t = tables[g]
  OBVIOUS
<1>2. t.body \in t.comms /\ t.body[1] = Prog_func(j.prog, g).body /\ g \in Nat
  BY <1>1, FunctionTable DEF Compared
<1>3. PICK ops : ops = t.comm_code[t.body].code
  OBVIOUS
<1>4. CommAgrees(j, F, ops, ev, call, s, n)
  BY <1>1, <1>2, <1>3 DEF Agrees, AgreesIn
<1>5. BodyOf(tables, g + 1).code = ops
  BY <1>1, <1>2, <1>3 DEF BodyOf
<1>6. ASSUME NEW m, NEW fp, NEW ra, InFrame(m, fp, s, n), Len(m) = fp + 1, ra \in Word
      PROVE  \E w, r : /\ Rewritten(w, m, fp, r, n)
                       /\ Takes(j, F, State(F, b, m, fp, ra),
                                Having(F, ra, w, fp, ra, Yields(ev, call)))
  <2>1. Leaves(j, F, State(F, b, m, fp, ra), b + Len(ops), m, fp, ra, ev, call, n)
    BY <1>4, <1>5, <1>6 DEF CommAgrees, Alone
  <2> QED
    BY <2>1 DEF Leaves
<1> QED
  BY <1>4, <1>6 DEF CommAgrees, Yielding

LEMMA CallAgrees ==
  ASSUME NEW j, NEW F, NEW tables, NEW ev, Compared(j, F, tables, ev),
         NEW f \in FunctionNames(j.prog), NEW t, t = tables[f], NEW n, n = VarsIn(j, f),
         NEW s \in StoreOf(n), NEW e \in t.exprs, ExprCall(e, s) \in ev.calls,
         e.type = "Call", AgreesBelow(j, F, tables, ev, ExprCall(e, s))
  PROVE  ExprAgrees(j, F, t.expr_code[e], ValueOf(ev, e, s), s, n)
<1>1. /\ t.expr_code \in [t.exprs -> Seq(ICodeOperation)]
      /\ ExprCalls(j.prog, n, t)
  BY FunctionTable DEF Compared
<1>2. Runnable(j, F) /\ GeneratedWith(j, tables) /\ IsEvaluation(j.prog, ev)
  BY DEF Compared
<1>3. PICK g \in FunctionNames(j.prog) : g = e.num
  BY <1>1 DEF ExprCalls
<1>4. PICK k \in Nat : k = VarsIn(j, g) /\ g \in Nat
  BY <1>2, FunctionTable
<1>5. e.args \in Seq(t.exprs) /\ Len(e.args) <= k
  BY <1>1, <1>3, <1>4 DEF ExprCalls, VarsIn
<1>6. PICK l \in Nat : l = Len(e.args) /\ l <= k
  BY <1>5
<1>7. DOMAIN e.args = 1 .. l /\ \A i \in 1 .. l : e.args[i] \in t.exprs
  BY <1>5, <1>6
<1>8. PICK args : IsCall(j.prog, t, e, args)
  BY <1>1, ExprCodeIs
<1>9. /\ args = [i \in 1 .. l |-> t.expr_code[e.args[l + 1 - i]] \o Push(ACCUMULATOR)]
      /\ t.expr_code[e] = CallCode(k, Zeros(k, l), args, FuncLabel(0, g))
  BY <1>3, <1>4, <1>6, <1>8 DEF IsCall, VarsIn
<1>10. PICK r : r = FrameFor(j.prog, ev, e, s)
  OBVIOUS
<1>11. PICK body : body = CommCall(Prog_func(j.prog, g).body, r)
  OBVIOUS
<1>12. /\ \A i \in 1 .. l : Further(ev, ExprCall(e, s), ExprCall(e.args[i], s))
       /\ Further(ev, ExprCall(e, s), body)
       /\ Returns(ev, body)
       /\ ValueOf(ev, e, s) = Yields(ev, body)
  BY <1>2, <1>3, <1>6, <1>7, <1>10, <1>11, CallIs
<1>13. ASSUME NEW i \in 1 .. l
       PROVE  ExprAgrees(j, F, t.expr_code[e.args[i]], ValueOf(ev, e.args[i], s), s, n)
  BY <1>7, <1>12, BelowExpr
<1>14. /\ r \in StoreOf(k)
       /\ \A v \in l .. k - 1 : r[v] = 0
       /\ \A i \in 1 .. l : r[l - i] = ValueOf(ev, e.args[l + 1 - i], s)
  <2>1. r = [v \in 0 .. k - 1 |-> IF v < l THEN ValueOf(ev, e.args[v + 1], s) ELSE 0]
    BY <1>3, <1>4, <1>6, <1>10 DEF FrameFor, VarsIn
  <2>2. ASSUME NEW v \in 0 .. k - 1
        PROVE  (IF v < l THEN ValueOf(ev, e.args[v + 1], s) ELSE 0) \in Word
    <3>1. CASE v < l
      <4>1. v + 1 \in 1 .. l
        BY <3>1
      <4> QED
        BY <1>13, <3>1, <4>1 DEF ExprAgrees
    <3>2. CASE ~(v < l)
      BY <3>2, MaxIntAssumption DEF Word, MinInt
    <3> QED
      BY <3>1, <3>2
  <2>3. r \in StoreOf(k)
    BY <2>1, <2>2 DEF StoreOf
  <2>4. ASSUME NEW v \in l .. k - 1
        PROVE  r[v] = 0
    <3>1. v \in 0 .. k - 1 /\ ~(v < l)
      OBVIOUS
    <3> QED
      BY <2>1, <3>1
  <2>5. ASSUME NEW i \in 1 .. l
        PROVE  r[l - i] = ValueOf(ev, e.args[l + 1 - i], s)
    <3>1. l - i \in 0 .. k - 1 /\ l - i < l /\ (l - i) + 1 = l + 1 - i
      BY <1>6
    <3> QED
      BY <2>1, <3>1
  <2> QED
    BY <2>3, <2>4, <2>5
<1>15. PICK b \in Nat : /\ LabelSites(j.code, g) = {b}
                        /\ CodeAt(j, b, LabelOps(g))
                        /\ CodeAt(j, b + 1, BodyOf(tables, g + 1).code)
  BY <1>2, GeneratedSetting
<1>16. PICK v : v = ValueOf(ev, e, s)
  OBVIOUS
<1>17. v \in Word /\ Yielding(j, F, b + 1, r, k, v)
  <2>1. Agrees(j, F, tables, ev, body)
    BY <1>12 DEF AgreesBelow
  <2>2. b + 1 \in Nat
    OBVIOUS
  <2> QED
    BY <1>4, <1>11, <1>12, <1>14, <1>15, <1>16, <2>1, <2>2, BodyYields
<1>18. args \in Seq(Seq(ICodeOperation)) /\ Len(args) = l
  <2>1. Push(ACCUMULATOR) \in Seq(ICodeOperation)
    BY PieceSizes DEF ACCUMULATOR
  <2>2. ASSUME NEW i \in 1 .. l
        PROVE  t.expr_code[e.args[l + 1 - i]] \o Push(ACCUMULATOR) \in Seq(ICodeOperation)
    <3>1. l + 1 - i \in 1 .. l
      OBVIOUS
    <3>2. t.expr_code[e.args[l + 1 - i]] \in Seq(ICodeOperation)
      BY <1>1, <1>7, <3>1
    <3> QED
      BY <2>1, <3>2, ConcatProperties
  <2>3. args \in [1 .. l -> Seq(ICodeOperation)]
    BY <1>9, <2>2
  <2> QED
    BY <2>3
<1>19. ASSUME NEW m, NEW fp, NEW ra, InFrame(m, fp, s, n), ra \in Word
       PROVE  ExprRuns(j, F, t.expr_code[e], m, fp, ra, v)
  <2>1. m \in Seq(Word) /\ fp \in Word
    BY <1>19 DEF InFrame
  <2>2. ASSUME NEW i \in 1 .. l
        PROVE  PushesValue(j, F, args[i], m, fp, ra, r[l - i])
    <3>1. PICK a \in t.exprs, x \in Word :
            /\ a = e.args[l + 1 - i] /\ x = r[l - i]
            /\ args[i] = t.expr_code[a] \o Push(ACCUMULATOR)
            /\ ExprAgrees(j, F, t.expr_code[a], x, s, n)
      <4>1. l + 1 - i \in 1 .. l
        OBVIOUS
      <4>2. ExprAgrees(j, F, t.expr_code[e.args[l + 1 - i]], r[l - i], s, n)
        BY <1>13, <1>14, <4>1
      <4> QED
        BY <1>7, <1>9, <4>1, <4>2 DEF ExprAgrees
    <3>2. ASSUME NEW y \in Seq(Word), Begins(m, y)
          PROVE  Moves(j, F, args[i], States(F, y, fp, ra), States(F, Append(y, x), fp, ra))
      <4>1. InFrame(y, fp, s, n)
        BY <1>19, <3>2, FrameBegins
      <4>2. Moves(j, F, t.expr_code[a], States(F, y, fp, ra), Havings(F, y, fp, ra, x))
        BY <1>19, <3>1, <4>1 DEF ExprAgrees, ExprRuns
      <4>3. Moves(j, F, Push(ACCUMULATOR), Havings(F, y, fp, ra, x), States(F, Append(y, x), fp, ra))
        BY <1>2, <1>19, <2>1, MovesPushing
      <4>4. Len(j.code) \in Nat
        BY <1>2, Numbers
      <4> QED
        BY <3>1, <4>2, <4>3, <4>4, MovesThen
    <3> QED
      BY <3>1, <3>2 DEF PushesValue
  <2>3. Moves(j, F, CallCode(k, Zeros(k, Len(args)), args, FuncLabel(0, g)),
              States(F, m, fp, ra), Havings(F, m, fp, ra, v))
    BY <1>2, <1>4, <1>6, <1>14, <1>15, <1>17, <1>18, <1>19, <2>1, <2>2, MovesCalling
  <2> QED
    BY <1>9, <1>18, <2>3 DEF ExprRuns
<1> QED
  BY <1>16, <1>17, <1>19 DEF ExprAgrees

(* So does every expression. *)
LEMMA ExprStepAgrees ==
  ASSUME NEW j, NEW F, NEW tables, NEW ev, Compared(j, F, tables, ev),
         NEW f \in FunctionNames(j.prog), NEW t, t = tables[f], NEW n, n = VarsIn(j, f),
         NEW s \in StoreOf(n), NEW e \in t.exprs, ExprCall(e, s) \in ev.calls,
         AgreesBelow(j, F, tables, ev, ExprCall(e, s))
  PROVE  ExprAgrees(j, F, t.expr_code[e], ValueOf(ev, e, s), s, n)
<1>1. ExprCalls(j.prog, n, t)
  BY FunctionTable DEF Compared
<1>2. Runnable(j, F) /\ IsEvaluation(j.prog, ev)
  BY DEF Compared
<1>3. e.type \in {"Int", "Var", "Add", "Sub", "Call"}
  BY <1>1 DEF ExprCalls
<1>4. CASE e.type = "Int"
  <2>1. e.num \in Word /\ ValueOf(ev, e, s) = e.num
    <3>1. e.num \in Word
      BY <1>1, <1>4 DEF ExprCalls
    <3>2. ValueOf(ev, e, s) = e.num
      BY <1>2, <1>4, ExprIs
    <3> QED
      BY <3>1, <3>2
  <2>2. t.expr_code[e] = <<ICodeOperation_init("LOADIMM", e.num, ACCUMULATOR)>>
    BY <1>1, <1>4, ExprCodeIs
  <2>3. PICK v \in Word : v = e.num
    BY <2>1
  <2>4. ASSUME NEW m, NEW fp, NEW ra
        PROVE  Moves(j, F, <<ICodeOperation_init("LOADIMM", v, ACCUMULATOR)>>,
                     States(F, m, fp, ra), Havings(F, m, fp, ra, v))
    BY <1>2, MovesLoading
  <2> QED
    BY <2>1, <2>2, <2>3, <2>4 DEF ExprAgrees, ExprRuns
<1>5. CASE e.type = "Var"
  <2>1. PICK i \in 0 .. n - 1 : i = e.num
    BY <1>1, <1>5 DEF ExprCalls
  <2>2. ValueOf(ev, e, s) = s[i]
    BY <1>2, <1>5, <2>1, ExprIs
  <2>3. s[i] \in Word
    BY <2>1 DEF StoreOf
  <2>4. t.expr_code[e] = LoadVariable(i)
    BY <1>1, <1>5, <2>1, ExprCodeIs
  <2>5. ASSUME NEW m, NEW fp, NEW ra, InFrame(m, fp, s, n)
        PROVE  Moves(j, F, LoadVariable(i), States(F, m, fp, ra), Havings(F, m, fp, ra, s[i]))
    BY <1>2, <2>1, <2>5, MovesReading
  <2> QED
    BY <2>2, <2>3, <2>4, <2>5 DEF ExprAgrees, ExprRuns
<1>6. CASE e.type \in {"Add", "Sub"}
  <2>1. PICK e1 \in t.exprs, e2 \in t.exprs : e1 = e.expr1 /\ e2 = e.expr2
    BY <1>1, <1>6 DEF ExprCalls, ExprInside
  <2>2. PICK v, w : v = ValueOf(ev, e1, s) /\ w = ValueOf(ev, e2, s)
    OBVIOUS
  <2>3. Further(ev, ExprCall(e, s), ExprCall(e1, s)) /\ Further(ev, ExprCall(e, s), ExprCall(e2, s))
    BY <1>2, <1>6, <2>1, ExprIs
  <2>4. ExprAgrees(j, F, t.expr_code[e1], v, s, n) /\ ExprAgrees(j, F, t.expr_code[e2], w, s, n)
    BY <2>2, <2>3, BelowExpr
  <2>5. v \in Word /\ w \in Word
    BY <2>4 DEF ExprAgrees
  <2>6. CASE e.type = "Add"
    <3>1. ValueOf(ev, e, s) = Source!WrapInt(v + w)
      BY <1>2, <2>1, <2>2, <2>6, ExprIs
    <3>2. ValueOf(ev, e, s) = Combined("ADD", v, w)
      BY <2>5, <3>1, SameArithmetic
    <3>3. t.expr_code[e] = BinaryCode(t.expr_code[e2], t.expr_code[e1], "ADD")
      BY <1>1, <2>1, <2>6, ExprCodeIs
    <3> QED
      BY <1>2, <2>4, <3>2, <3>3, SumAgrees
  <2>7. CASE e.type = "Sub"
    <3>1. ValueOf(ev, e, s) = Source!WrapInt(v - w)
      BY <1>2, <2>1, <2>2, <2>7, ExprIs
    <3>2. ValueOf(ev, e, s) = Combined("SUB", v, w)
      BY <2>5, <3>1, SameArithmetic
    <3>3. t.expr_code[e] = BinaryCode(t.expr_code[e2], t.expr_code[e1], "SUB")
      BY <1>1, <2>1, <2>7, ExprCodeIs
    <3> QED
      BY <1>2, <2>4, <3>2, <3>3, SumAgrees
  <2> QED
    BY <1>6, <2>6, <2>7
<1>7. CASE e.type = "Call"
  BY <1>7, CallAgrees
<1> QED
  BY <1>3, <1>4, <1>5, <1>6, <1>7

(* and so do those of commands. *)
LEMMA LeavesSame ==
  ASSUME NEW j, NEW F, NEW P, NEW b, NEW m, NEW fp, NEW ra, NEW ev, NEW call, NEW inner, NEW n,
         ev.result[call] = ev.result[inner], Leaves(j, F, P, b, m, fp, ra, ev, inner, n)
  PROVE  Leaves(j, F, P, b, m, fp, ra, ev, call, n)
<1>1. /\ Returns(ev, call) = Returns(ev, inner)
      /\ Yields(ev, call) = Yields(ev, inner)
      /\ StoreAfter(ev, call) = StoreAfter(ev, inner)
  BY DEF Returns, Yields, StoreAfter
<1> QED
  BY <1>1 DEF Leaves

LEMMA LeavesAfter ==
  ASSUME NEW j, NEW F, NEW P, NEW Q, NEW b, NEW m, NEW w, NEW fp, NEW ra, NEW ev, NEW call, NEW n,
         NEW s, Takes(j, F, P, Q), Rewritten(w, m, fp, s, n),
         Leaves(j, F, Q, b, w, fp, ra, ev, call, n)
  PROVE  Leaves(j, F, P, b, m, fp, ra, ev, call, n)
<1>1. PICK x : /\ Rewritten(x, w, fp, StoreAfter(ev, call), n)
               /\ IF Returns(ev, call)
                  THEN Takes(j, F, Q, Having(F, ra, x, fp, ra, Yields(ev, call)))
                  ELSE Takes(j, F, Q, State(F, b, x, fp, ra))
  BY DEF Leaves
<1>2. Rewritten(x, m, fp, StoreAfter(ev, call), n)
  BY <1>1, RewrittenTwice
<1>3. IF Returns(ev, call)
      THEN Takes(j, F, P, Having(F, ra, x, fp, ra, Yields(ev, call)))
      ELSE Takes(j, F, P, State(F, b, x, fp, ra))
  BY <1>1, TakesThen
<1> QED
  BY <1>2, <1>3 DEF Leaves

LEMMA Unwritten ==
  ASSUME NEW m, NEW fp, NEW s, NEW n, InFrame(m, fp, s, n)
  PROVE  Rewritten(m, m, fp, s, n)
BY DEF Rewritten

LEMMA StillAlone ==
  ASSUME NEW w, NEW m, NEW fp, NEW ra, NEW r, NEW s, NEW n, Alone(m, fp, ra, r, n),
         Rewritten(w, m, fp, s, n)
  PROVE  Alone(w, fp, ra, s, n)
BY DEF Alone, Rewritten

LEMMA AssignAgrees ==
  ASSUME NEW j, NEW F, Runnable(j, F), NEW ops \in Seq(ICodeOperation), NEW n \in Nat,
         NEW s \in StoreOf(n), NEW v, ExprAgrees(j, F, ops, v, s, n), NEW name \in 0 .. n - 1,
         NEW ev, NEW call, ~Returns(ev, call), StoreAfter(ev, call) = [s EXCEPT ![name] = v]
  PROVE  CommAgrees(j, F, ops \o StoreVariable(name), ev, call, s, n)
<1>1. v \in Word
  BY DEF ExprAgrees
<1>2. [s EXCEPT ![name] = v] \in StoreOf(n)
  BY <1>1 DEF StoreOf
<1>3. PICK all : all = ops \o StoreVariable(name)
  OBVIOUS
<1>4. ASSUME NEW m, NEW fp, NEW ra, Alone(m, fp, ra, s, n), NEW a \in Nat, CodeAt(j, a, all)
      PROVE  Leaves(j, F, State(F, a, m, fp, ra), a + Len(all), m, fp, ra, ev, call, n)
  <2>1. InFrame(m, fp, s, n) /\ ra \in Word
    BY <1>4 DEF Alone
  <2>2. Moves(j, F, ops, States(F, m, fp, ra), Havings(F, m, fp, ra, v))
    BY <2>1 DEF ExprAgrees, ExprRuns
  <2>3. PICK w : /\ Rewritten(w, m, fp, [s EXCEPT ![name] = v], n)
                 /\ Moves(j, F, StoreVariable(name), Havings(F, m, fp, ra, v),
                          States(F, w, fp, ra))
    BY <1>1, <2>1, MovesWriting
  <2>4. Len(j.code) \in Nat
    BY Numbers
  <2>5. Moves(j, F, all, States(F, m, fp, ra), States(F, w, fp, ra))
    BY <1>3, <2>2, <2>3, <2>4, MovesThen
  <2>6. all \in Seq(ICodeOperation) /\ a + Len(all) \in Nat
    <3>1. all \in Seq(ICodeOperation)
      BY <2>5 DEF Moves
    <3> QED
      BY <3>1
  <2>7. Takes(j, F, State(F, a, m, fp, ra), State(F, a + Len(all), w, fp, ra))
    BY <1>4, <2>5, <2>6 DEF Moves, States
  <2> QED
    BY <2>3, <2>7 DEF Leaves
<1> QED
  BY <1>2, <1>3, <1>4 DEF CommAgrees

LEMMA ReturnAgrees ==
  ASSUME NEW j, NEW F, Runnable(j, F), NEW ops \in Seq(ICodeOperation), NEW n \in Nat,
         NEW s \in StoreOf(n), NEW v, ExprAgrees(j, F, ops, v, s, n),
         NEW ev, NEW call, Returns(ev, call), Yields(ev, call) = v, StoreAfter(ev, call) = s
  PROVE  CommAgrees(j, F, Append(ops, ICodeOperation_init("JUMPADDR", RETURN_ADDRESS, 0)),
                    ev, call, s, n)
<1>1. v \in Word /\ Word \subseteq Value
  BY Numbers DEF ExprAgrees
<1>2. PICK op : op = ICodeOperation_init("JUMPADDR", RETURN_ADDRESS, 0)
  OBVIOUS
<1>3. op \in ICodeOperation /\ <<op>> \in Seq(ICodeOperation) /\ Len(<<op>>) = 1
  <2>1. "JUMPADDR" \in Opcode /\ RETURN_ADDRESS \in Int /\ 0 \in Int
    BY DEF Opcode, RETURN_ADDRESS
  <2> QED
    BY <1>2, <2>1, Single
<1>4. PICK all : all = Append(ops, op)
  OBVIOUS
<1>5. Joins(all, ops, <<op>>)
  BY <1>3, <1>4, AppendIsConcat DEF Joins
<1>6. ASSUME NEW m, NEW fp, NEW ra, Alone(m, fp, ra, s, n), NEW a \in Nat, CodeAt(j, a, all)
      PROVE  Leaves(j, F, State(F, a, m, fp, ra), a + Len(all), m, fp, ra, ev, call, n)
  <2>1. InFrame(m, fp, s, n) /\ ra \in Word
    BY <1>6 DEF Alone
  <2>2. Moves(j, F, ops, States(F, m, fp, ra), Havings(F, m, fp, ra, v))
    BY <2>1 DEF ExprAgrees, ExprRuns
  <2>3. PICK b \in Nat : b = a + Len(ops)
    OBVIOUS
  <2>4. Len(j.code) \in Nat
    BY Numbers
  <2>5. CodeAt(j, a, ops) /\ CodeAt(j, b, <<op>>)
    BY <1>3, <1>5, <1>6, <2>3, <2>4, JoinedAt
  <2>6. Takes(j, F, State(F, a, m, fp, ra), Having(F, b, m, fp, ra, v))
    BY <2>2, <2>3, <2>5 DEF Moves, States, Havings
  <2>7. Takes(j, F, Having(F, b, m, fp, ra, v), Having(F, ra, m, fp, ra, v))
    BY <1>1, <1>2, <2>1, <2>5, HavingReturns
  <2>8. Takes(j, F, State(F, a, m, fp, ra), Having(F, ra, m, fp, ra, v))
    BY <2>6, <2>7, TakesThen
  <2> QED
    BY <2>1, <2>8, Unwritten DEF Leaves
<1> QED
  BY <1>1, <1>2, <1>4, <1>6 DEF CommAgrees

LEMMA CompAgrees ==
  ASSUME NEW j, NEW F, Runnable(j, F), NEW o \in Seq(ICodeOperation), NEW p \in Seq(ICodeOperation),
         NEW n, NEW s, NEW ev, NEW call, NEW fst, NEW snd,
         CommAgrees(j, F, o, ev, fst, s, n),
         ~Returns(ev, fst) => CommAgrees(j, F, p, ev, snd, StoreAfter(ev, fst), n),
         ev.result[call] = IF Returns(ev, fst) THEN ev.result[fst] ELSE ev.result[snd]
  PROVE  CommAgrees(j, F, o \o p, ev, call, s, n)
<1>1. Len(j.code) \in Nat
  BY Numbers
<1>2. PICK all : Joins(all, o, p)
  BY DEF Joins
<1>3. CASE Returns(ev, fst)
  <2>1. ev.result[call] = ev.result[fst]
    BY <1>3
  <2>2. /\ StoreAfter(ev, call) \in StoreOf(n)
        /\ Returns(ev, call) => Yields(ev, call) \in Word
    BY <2>1 DEF CommAgrees, Returns, Yields, StoreAfter
  <2>3. ASSUME NEW m, NEW fp, NEW ra, Alone(m, fp, ra, s, n), NEW a \in Nat, CodeAt(j, a, all)
        PROVE  Leaves(j, F, State(F, a, m, fp, ra), a + Len(all), m, fp, ra, ev, call, n)
    <3>1. PICK b : b = a + Len(o)
      OBVIOUS
    <3>2. CodeAt(j, a, o)
      BY <1>1, <1>2, <2>3, <3>1, JoinedAt
    <3>3. Leaves(j, F, State(F, a, m, fp, ra), b, m, fp, ra, ev, fst, n)
      BY <2>3, <3>1, <3>2 DEF CommAgrees
    <3>4. Leaves(j, F, State(F, a, m, fp, ra), a + Len(all), m, fp, ra, ev, fst, n)
      BY <1>3, <3>3 DEF Leaves
    <3> QED
      BY <2>1, <3>4, LeavesSame
  <2> QED
    BY <1>2, <2>2, <2>3 DEF CommAgrees, Joins
<1>4. CASE ~Returns(ev, fst)
  <2>1. ev.result[call] = ev.result[snd]
    BY <1>4
  <2>2. CommAgrees(j, F, p, ev, snd, StoreAfter(ev, fst), n)
    BY <1>4
  <2>3. /\ StoreAfter(ev, call) \in StoreOf(n)
        /\ Returns(ev, call) => Yields(ev, call) \in Word
    BY <2>1, <2>2 DEF CommAgrees, Returns, Yields, StoreAfter
  <2>4. ASSUME NEW m, NEW fp, NEW ra, Alone(m, fp, ra, s, n), NEW a \in Nat, CodeAt(j, a, all)
        PROVE  Leaves(j, F, State(F, a, m, fp, ra), a + Len(all), m, fp, ra, ev, call, n)
    <3>1. PICK b \in Nat : b = a + Len(o)
      OBVIOUS
    <3>2. CodeAt(j, a, o) /\ CodeAt(j, b, p) /\ a + Len(all) = b + Len(p)
      BY <1>1, <1>2, <2>4, <3>1, JoinedAt
    <3>3. Leaves(j, F, State(F, a, m, fp, ra), b, m, fp, ra, ev, fst, n)
      BY <2>4, <3>1, <3>2 DEF CommAgrees
    <3>4. PICK w : /\ Rewritten(w, m, fp, StoreAfter(ev, fst), n)
                   /\ Takes(j, F, State(F, a, m, fp, ra), State(F, b, w, fp, ra))
      BY <1>4, <3>3 DEF Leaves
    <3>5. Alone(w, fp, ra, StoreAfter(ev, fst), n)
      BY <2>4, <3>4, StillAlone
    <3>6. Leaves(j, F, State(F, b, w, fp, ra), b + Len(p), w, fp, ra, ev, snd, n)
      BY <2>2, <3>2, <3>5 DEF CommAgrees
    <3>7. Leaves(j, F, State(F, a, m, fp, ra), a + Len(all), m, fp, ra, ev, snd, n)
      BY <3>2, <3>4, <3>6, LeavesAfter
    <3> QED
      BY <2>1, <3>7, LeavesSame
  <2> QED
    BY <1>2, <2>3, <2>4 DEF CommAgrees, Joins
<1> QED
  BY <1>3, <1>4

(* -------------------------------- Loops --------------------------------- *)
(* At the head of a loop its guard decides. *)
LEMMA LoopDecides ==
  ASSUME NEW j, NEW F, Runnable(j, F), UniqueLabels(j), NEW guard \in Seq(ICodeOperation),
         NEW body, NEW label \in Int, NEW a \in Nat, NEW c \in Nat, NEW d \in Nat,
         LoopAt(j, guard, body, label, a, c, d),
         NEW v, NEW s, NEW n, ExprAgrees(j, F, guard, v, s, n),
         NEW m, NEW fp, NEW ra, Alone(m, fp, ra, s, n)
  PROVE  /\ v < 1 => Takes(j, F, State(F, a, m, fp, ra), State(F, (d + 1) + 1, m, fp, ra))
         /\ ~(v < 1) => Takes(j, F, State(F, a, m, fp, ra), State(F, c + 1, m, fp, ra))
<1>1. Len(j.code) \in Nat /\ Word \subseteq Value /\ Word \subseteq Int
  BY Numbers
<1>2. InFrame(m, fp, s, n) /\ ra \in Word /\ ra \in Value /\ v \in Word
  BY <1>1 DEF Alone, ExprAgrees
<1>3. PICK head \in Nat : head = a + 1
  OBVIOUS
<1>4. PICK out \in Nat : out = d + 1
  OBVIOUS
<1>5. /\ CodeAt(j, a, <<ICodeOperation_init("LABEL", label, 0)>>)
      /\ CodeAt(j, head, guard) /\ c = head + Len(guard)
      /\ CodeAt(j, c, <<ICodeOperation_init("JUMPCOND", label + 1, ACCUMULATOR)>>)
      /\ CodeAt(j, out, <<ICodeOperation_init("LABEL", label + 1, 0)>>)
  BY <1>3, <1>4 DEF LoopAt
<1>6. LabelSites(j.code, label + 1) = {out}
  BY <1>1, <1>5, OneOperation, TheSite
<1>7. Takes(j, F, State(F, a, m, fp, ra), State(F, head, m, fp, ra))
  BY <1>2, <1>3, <1>5, StateLabels
<1>8. Takes(j, F, State(F, head, m, fp, ra), Having(F, c, m, fp, ra, v))
  <2>1. Moves(j, F, guard, States(F, m, fp, ra), Havings(F, m, fp, ra, v))
    BY <1>2 DEF ExprAgrees, ExprRuns
  <2> QED
    BY <1>5, <2>1 DEF Moves, States, Havings
<1>9. Takes(j, F, Having(F, c, m, fp, ra, v),
            State(F, IF GuardFails(v) THEN out ELSE c + 1, m, fp, ra))
  BY <1>2, <1>5, <1>6, HavingTests
<1>10. GuardFails(v) <=> v < 1
  BY <1>1, <1>2 DEF GuardFails
<1>11. Takes(j, F, State(F, a, m, fp, ra), Having(F, c, m, fp, ra, v))
  BY <1>7, <1>8, TakesThen
<1>12. Takes(j, F, State(F, a, m, fp, ra),
             State(F, IF GuardFails(v) THEN out ELSE c + 1, m, fp, ra))
  BY <1>9, <1>11, TakesThen
<1>13. Takes(j, F, State(F, out, m, fp, ra), State(F, out + 1, m, fp, ra))
  BY <1>2, <1>5, StateLabels
<1>14. CASE v < 1
  <2>1. Takes(j, F, State(F, a, m, fp, ra), State(F, out, m, fp, ra))
    BY <1>10, <1>12, <1>14
  <2> QED
    BY <1>4, <1>13, <1>14, <2>1, TakesThen
<1>15. CASE ~(v < 1)
  BY <1>10, <1>12, <1>15
<1> QED
  BY <1>14, <1>15

LEMMA WhileAgrees ==
  ASSUME NEW j, NEW F, Runnable(j, F), UniqueLabels(j), NEW guard \in Seq(ICodeOperation),
         NEW body \in Seq(ICodeOperation), NEW label \in Int,
         NEW v, NEW s, NEW n, s \in StoreOf(n), ExprAgrees(j, F, guard, v, s, n),
         NEW ev, NEW call, NEW loop,
         v < 1 => ~Returns(ev, call) /\ StoreAfter(ev, call) = s,
         ~(v < 1) => /\ ev.result[call] = ev.result[loop]
                     /\ LoopAgrees(j, F, guard, body, label, ev, loop, s, n)
  PROVE  CommAgrees(j, F, WhileCode(guard, body, label), ev, call, s, n)
<1>1. Len(j.code) \in Nat
  BY Numbers
<1>2. /\ StoreAfter(ev, call) \in StoreOf(n)
      /\ Returns(ev, call) => Yields(ev, call) \in Word
  BY DEF LoopAgrees, Returns, Yields, StoreAfter
<1>3. ASSUME NEW m, NEW fp, NEW ra, Alone(m, fp, ra, s, n), NEW a \in Nat,
             CodeAt(j, a, WhileCode(guard, body, label))
      PROVE  Leaves(j, F, State(F, a, m, fp, ra), a + Len(WhileCode(guard, body, label)),
                    m, fp, ra, ev, call, n)
  <2>1. PICK c \in Nat, d \in Nat : LoopAt(j, guard, body, label, a, c, d)
    BY <1>1, <1>3, WhilePieces
  <2>2. PICK b : b = a + Len(WhileCode(guard, body, label)) /\ b = (d + 1) + 1
    BY <2>1 DEF LoopAt
  <2>3. Rewritten(m, m, fp, s, n)
    BY <1>3, Unwritten DEF Alone
  <2>4. CASE v < 1
    <3>1. Takes(j, F, State(F, a, m, fp, ra), State(F, b, m, fp, ra))
      BY <1>3, <2>1, <2>2, <2>4, LoopDecides
    <3>2. Leaves(j, F, State(F, a, m, fp, ra), b, m, fp, ra, ev, call, n)
      BY <2>3, <2>4, <3>1 DEF Leaves
    <3> QED
      BY <2>2, <3>2
  <2>5. CASE ~(v < 1)
    <3>1. Takes(j, F, State(F, a, m, fp, ra), State(F, c + 1, m, fp, ra))
      BY <1>3, <2>1, <2>5, LoopDecides
    <3>2. Leaves(j, F, State(F, c + 1, m, fp, ra), b, m, fp, ra, ev, loop, n)
      BY <1>3, <2>1, <2>2, <2>5 DEF LoopAgrees
    <3>3. Leaves(j, F, State(F, a, m, fp, ra), b, m, fp, ra, ev, loop, n)
      BY <2>3, <3>1, <3>2, LeavesAfter
    <3>4. Leaves(j, F, State(F, a, m, fp, ra), b, m, fp, ra, ev, call, n)
      BY <2>5, <3>3, LeavesSame
    <3> QED
      BY <2>2, <3>4
  <2> QED
    BY <2>4, <2>5
<1> QED
  BY <1>2, <1>3 DEF CommAgrees

(* One pass of a loop, and those after it. *)
LEMMA PassAgrees ==
  ASSUME NEW j, NEW F, Runnable(j, F), UniqueLabels(j), NEW guard \in Seq(ICodeOperation),
         NEW body \in Seq(ICodeOperation), NEW label \in Int, NEW s, NEW n,
         NEW ev, NEW call, NEW pass, NEW next, NEW v,
         CommAgrees(j, F, body, ev, pass, s, n),
         Returns(ev, pass) => ev.result[call] = ev.result[pass],
         ~Returns(ev, pass) =>
           /\ ExprAgrees(j, F, guard, v, StoreAfter(ev, pass), n)
           /\ v < 1 => ev.result[call] = ev.result[pass]
           /\ ~(v < 1) =>
                /\ ev.result[call] = ev.result[next]
                /\ LoopAgrees(j, F, guard, body, label, ev, next, StoreAfter(ev, pass), n)
  PROVE  LoopAgrees(j, F, guard, body, label, ev, call, s, n)
<1>1. Len(j.code) \in Nat /\ Word \subseteq Value
  BY Numbers
<1>2. /\ StoreAfter(ev, call) \in StoreOf(n)
      /\ Returns(ev, call) => Yields(ev, call) \in Word
  BY DEF LoopAgrees, CommAgrees, Returns, Yields, StoreAfter
<1>3. ASSUME NEW m, NEW fp, NEW ra, Alone(m, fp, ra, s, n),
             NEW a \in Nat, NEW c \in Nat, NEW d \in Nat,
             LoopAt(j, guard, body, label, a, c, d)
      PROVE  Leaves(j, F, State(F, c + 1, m, fp, ra), (d + 1) + 1, m, fp, ra, ev, call, n)
  <2>1. PICK x \in Nat : x = c + 1
    OBVIOUS
  <2>2. CodeAt(j, x, body) /\ d = x + Len(body)
    BY <1>3, <2>1 DEF LoopAt
  <2>3. Leaves(j, F, State(F, x, m, fp, ra), d, m, fp, ra, ev, pass, n)
    BY <1>3, <2>2 DEF CommAgrees
  <2>4. CASE Returns(ev, pass)
    <3>1. Leaves(j, F, State(F, x, m, fp, ra), (d + 1) + 1, m, fp, ra, ev, pass, n)
      BY <2>3, <2>4 DEF Leaves
    <3> QED
      BY <2>1, <2>4, <3>1, LeavesSame
  <2>5. CASE ~Returns(ev, pass)
    <3>1. PICK w : /\ Rewritten(w, m, fp, StoreAfter(ev, pass), n)
                   /\ Takes(j, F, State(F, x, m, fp, ra), State(F, d, w, fp, ra))
      BY <2>3, <2>5 DEF Leaves
    <3>2. Alone(w, fp, ra, StoreAfter(ev, pass), n)
      BY <1>3, <3>1, StillAlone
    <3>3. Takes(j, F, State(F, d, w, fp, ra), State(F, a, w, fp, ra))
      <4>1. /\ CodeAt(j, a, <<ICodeOperation_init("LABEL", label, 0)>>)
            /\ CodeAt(j, d, <<ICodeOperation_init("JUMP", label, 0)>>)
        BY <1>3 DEF LoopAt
      <4>2. LabelSites(j.code, label) = {a}
        BY <1>1, <4>1, OneOperation, TheSite
      <4>3. ra \in Value
        BY <1>1, <1>3 DEF Alone
      <4> QED
        BY <4>1, <4>2, <4>3, StateGoes
    <3>4. Takes(j, F, State(F, x, m, fp, ra), State(F, a, w, fp, ra))
      BY <3>1, <3>3, TakesThen
    <3>5. CASE v < 1
      <4>1. Takes(j, F, State(F, a, w, fp, ra), State(F, (d + 1) + 1, w, fp, ra))
        BY <1>3, <2>5, <3>2, <3>5, LoopDecides
      <4>2. Takes(j, F, State(F, x, m, fp, ra), State(F, (d + 1) + 1, w, fp, ra))
        BY <3>4, <4>1, TakesThen
      <4>3. Leaves(j, F, State(F, x, m, fp, ra), (d + 1) + 1, m, fp, ra, ev, pass, n)
        BY <2>5, <3>1, <4>2 DEF Leaves
      <4> QED
        BY <2>1, <2>5, <3>5, <4>3, LeavesSame
    <3>6. CASE ~(v < 1)
      <4>1. Takes(j, F, State(F, a, w, fp, ra), State(F, x, w, fp, ra))
        BY <1>3, <2>1, <2>5, <3>2, <3>6, LoopDecides
      <4>2. Takes(j, F, State(F, x, m, fp, ra), State(F, x, w, fp, ra))
        BY <3>4, <4>1, TakesThen
      <4>3. Leaves(j, F, State(F, x, w, fp, ra), (d + 1) + 1, w, fp, ra, ev, next, n)
        BY <1>3, <2>1, <2>5, <3>2, <3>6 DEF LoopAgrees
      <4>4. Leaves(j, F, State(F, x, m, fp, ra), (d + 1) + 1, m, fp, ra, ev, next, n)
        BY <3>1, <4>2, <4>3, LeavesAfter
      <4> QED
        BY <2>1, <2>5, <3>6, <4>4, LeavesSame
    <3> QED
      BY <3>5, <3>6
  <2> QED
    BY <2>4, <2>5
<1> QED
  BY <1>2, <1>3 DEF LoopAgrees

(* ------------------------------ All of them ----------------------------- *)
(* A command and the passes of a loop agree if the calls in them do. *)
LEMMA CommStepAgrees ==
  ASSUME NEW j, NEW F, NEW tables, NEW ev, Compared(j, F, tables, ev),
         NEW f \in FunctionNames(j.prog), NEW t, t = tables[f], NEW n, n = VarsIn(j, f),
         NEW s \in StoreOf(n), NEW c \in t.comms, NEW call, call = CommCall(c[1], s),
         call \in ev.calls, AgreesBelow(j, F, tables, ev, call)
  PROVE  CommAgrees(j, F, t.comm_code[c].code, ev, call, s, n)
<1>1. /\ n \in Nat
      /\ t.expr_code \in [t.exprs -> Seq(ICodeOperation)]
      /\ t.comm_code \in [t.comms -> [code : Seq(ICodeOperation), next_label : Int]]
      /\ CommCalls(n, t)
  BY FunctionTable DEF Compared
<1>2. Runnable(j, F) /\ GeneratedWith(j, tables) /\ IsEvaluation(j.prog, ev)
  BY DEF Compared
<1>3. UniqueLabels(j)
  BY <1>2, GeneratedSetting
<1>4. PICK comm : comm = c[1]
  OBVIOUS
<1>0. PICK label \in Int : label = c[2]
  BY <1>1, CommIs
<1>5. ASSUME NEW e \in t.exprs, e = comm.expr, comm.type # "Comp"
      PROVE  ExprAgrees(j, F, t.expr_code[e], ValueOf(ev, e, s), s, n)
  <2>1. Further(ev, call, ExprCall(e, s))
    BY <1>2, <1>4, <1>5, CommMakesCalls
  <2> QED
    BY <2>1, BelowExpr
<1>6. ASSUME NEW body, IsWhile(t, c, body)
      PROVE  CommAgrees(j, F, t.comm_code[c].code, ev, call, s, n)
  <2>0. PICK e \in t.exprs : e = comm.expr
    BY <1>4, <1>6 DEF IsWhile
  <2>1. PICK v : e = comm.expr /\ v = ValueOf(ev, e, s)
    BY <2>0
  <2>2. body \in t.comms /\ comm.type = "While"
    BY <1>4, <1>6 DEF IsWhile, CommInside
  <2>3. PICK guard \in Seq(ICodeOperation), ops \in Seq(ICodeOperation) :
          guard = t.expr_code[e] /\ ops = t.comm_code[body].code
    BY <1>1, <2>2
  <2>4. t.comm_code[c].code = WhileCode(guard, ops, label)
    BY <1>0, <1>4, <1>6, <2>1, <2>3 DEF IsWhile, Generated
  <2>5. ExprAgrees(j, F, guard, v, s, n)
    BY <1>5, <2>1, <2>2, <2>3
  <2>6. PICK loop : loop = LoopCall(comm, s)
    OBVIOUS
  <2>7. v < 1 => ~Returns(ev, call) /\ StoreAfter(ev, call) = s
    BY <1>2, <1>4, <2>1, <2>2, CommLeaves
  <2>8. ~(v < 1) => ev.result[call] = ev.result[loop] /\ Further(ev, call, loop)
    BY <1>2, <1>4, <2>1, <2>2, <2>6, CommLeaves, CommMakesCalls
  <2>9. ~(v < 1) => LoopAgrees(j, F, guard, ops, label, ev, loop, s, n)
    BY <1>0, <1>4, <1>6, <2>1, <2>3, <2>6, <2>8, BelowLoop
  <2> QED
    BY <1>2, <1>3, <2>4, <2>5, <2>7, <2>8, <2>9, WhileAgrees
<1>7. CASE IsAssign(t, n, c)
  <2>0. PICK e \in t.exprs, name \in 0 .. n - 1 :
          e = comm.expr /\ name = comm.name /\ comm.type = "Assign"
    BY <1>4, <1>7 DEF IsAssign
  <2>1. PICK v : /\ e = comm.expr /\ name = comm.name /\ comm.type = "Assign"
                 /\ v = ValueOf(ev, e, s)
    BY <2>0
  <2>2. PICK ops \in Seq(ICodeOperation) : ops = t.expr_code[e]
    BY <1>1
  <2>3. t.comm_code[c].code = ops \o StoreVariable(name)
    <3>1. \E l : t.comm_code[c] = Generated(ops \o StoreVariable(name), l)
      BY <1>4, <1>7, <2>1, <2>2 DEF IsAssign
    <3> QED
      BY <3>1 DEF Generated
  <2>4. ExprAgrees(j, F, ops, v, s, n)
    BY <1>5, <2>1, <2>2
  <2>5. ~Returns(ev, call) /\ StoreAfter(ev, call) = [s EXCEPT ![name] = v]
    BY <1>2, <1>4, <2>1, CommLeaves
  <2> QED
    BY <1>1, <1>2, <2>3, <2>4, <2>5, AssignAgrees
<1>8. ASSUME NEW fst, NEW snd, IsComp(t, c, fst, snd)
      PROVE  CommAgrees(j, F, t.comm_code[c].code, ev, call, s, n)
  <2>1. /\ comm.type = "Comp" /\ fst \in t.comms /\ snd \in t.comms
        /\ fst[1] = comm.comm1 /\ snd[1] = comm.comm2
    BY <1>4, <1>8 DEF IsComp, CommInside
  <2>2. PICK o \in Seq(ICodeOperation), p \in Seq(ICodeOperation) :
          o = t.comm_code[fst].code /\ p = t.comm_code[snd].code
    BY <1>1, <2>1
  <2>3. t.comm_code[c].code = o \o p
    <3>1. \E l : t.comm_code[c] = Generated(o \o p, l)
      BY <1>8, <2>2 DEF IsComp
    <3> QED
      BY <3>1 DEF Generated
  <2>4. PICK one : one = CommCall(comm.comm1, s)
    OBVIOUS
  <2>5. PICK two : two = CommCall(comm.comm2, StoreAfter(ev, one))
    OBVIOUS
  <2>6. /\ Further(ev, call, one)
        /\ ~Returns(ev, one) => Further(ev, call, two)
    BY <1>2, <1>4, <2>1, <2>4, <2>5, CommMakesCalls
  <2>7. ev.result[call] = IF Returns(ev, one) THEN ev.result[one] ELSE ev.result[two]
    BY <1>2, <1>4, <2>1, <2>4, <2>5, CommLeaves
  <2>8. CommAgrees(j, F, o, ev, one, s, n)
    BY <2>1, <2>2, <2>4, <2>6, BelowComm
  <2>9. StoreAfter(ev, one) \in StoreOf(n)
    BY <2>8 DEF CommAgrees
  <2>10. ~Returns(ev, one) => CommAgrees(j, F, p, ev, two, StoreAfter(ev, one), n)
    BY <2>1, <2>2, <2>5, <2>6, <2>9, BelowComm
  <2> QED
    BY <1>2, <2>3, <2>7, <2>8, <2>10, CompAgrees
<1>9. CASE IsReturn(t, c)
  <2>0. PICK e \in t.exprs : e = comm.expr /\ comm.type = "Return"
    BY <1>4, <1>9 DEF IsReturn
  <2>1. PICK v : e = comm.expr /\ v = ValueOf(ev, e, s) /\ comm.type = "Return"
    BY <2>0
  <2>2. PICK ops \in Seq(ICodeOperation) : ops = t.expr_code[e]
    BY <1>1
  <2>3. t.comm_code[c].code = Append(ops, ICodeOperation_init("JUMPADDR", RETURN_ADDRESS, 0))
    <3>1. \E l : t.comm_code[c] = Generated(Append(ops, ICodeOperation_init("JUMPADDR", RETURN_ADDRESS, 0)), l)
      BY <1>4, <1>9, <2>1, <2>2 DEF IsReturn
    <3> QED
      BY <3>1 DEF Generated
  <2>4. ExprAgrees(j, F, ops, v, s, n)
    BY <1>5, <2>1, <2>2
  <2>5. Returns(ev, call) /\ Yields(ev, call) = v /\ StoreAfter(ev, call) = s
    BY <1>2, <1>4, <2>1, CommLeaves
  <2> QED
    BY <1>1, <1>2, <2>3, <2>4, <2>5, ReturnAgrees
<1> QED
  BY <1>1, <1>6, <1>7, <1>8, <1>9, CommIs

LEMMA LoopStepAgrees ==
  ASSUME NEW j, NEW F, NEW tables, NEW ev, Compared(j, F, tables, ev),
         NEW f \in FunctionNames(j.prog), NEW t, t = tables[f], NEW n, n = VarsIn(j, f),
         NEW s \in StoreOf(n), NEW c \in t.comms, NEW call, call = LoopCall(c[1], s),
         call \in ev.calls, AgreesBelow(j, F, tables, ev, call),
         NEW body, IsWhile(t, c, body)
  PROVE  LoopAgrees(j, F, t.expr_code[c[1].expr], t.comm_code[body].code, c[2], ev, call, s, n)
<1>1. /\ t.expr_code \in [t.exprs -> Seq(ICodeOperation)]
      /\ t.comm_code \in [t.comms -> [code : Seq(ICodeOperation), next_label : Int]]
      /\ CommCalls(n, t)
  BY FunctionTable DEF Compared
<1>2. Runnable(j, F) /\ GeneratedWith(j, tables) /\ IsEvaluation(j.prog, ev)
  BY DEF Compared
<1>3. UniqueLabels(j)
  BY <1>2, GeneratedSetting
<1>4. PICK comm : comm = c[1]
  OBVIOUS
<1>0. PICK label \in Int : label = c[2]
  BY <1>1, CommIs
<1>5. PICK e \in t.exprs : e = comm.expr
  BY <1>4 DEF IsWhile
<1>6. body \in t.comms /\ body[1] = comm.comm1
  BY <1>4 DEF IsWhile, CommInside
<1>7. PICK guard \in Seq(ICodeOperation), ops \in Seq(ICodeOperation) :
        guard = t.expr_code[e] /\ ops = t.comm_code[body].code
  BY <1>1, <1>6
<1>8. PICK pass : pass = CommCall(comm.comm1, s)
  OBVIOUS
<1>9. PICK after : after = StoreAfter(ev, pass)
  OBVIOUS
<1>10. PICK next, v : next = LoopCall(comm, after) /\ v = ValueOf(ev, e, after)
  OBVIOUS
<1>11. /\ Further(ev, call, pass)
       /\ Returns(ev, pass) => ev.result[call] = ev.result[pass]
       /\ ~Returns(ev, pass) =>
            /\ Further(ev, call, ExprCall(e, after))
            /\ v < 1 => ev.result[call] = ev.result[pass]
            /\ ~(v < 1) => Further(ev, call, next) /\ ev.result[call] = ev.result[next]
  BY <1>2, <1>4, <1>5, <1>8, <1>9, <1>10, LoopIs
<1>12. CommAgrees(j, F, ops, ev, pass, s, n)
  BY <1>6, <1>7, <1>8, <1>11, BelowComm
<1>13. after \in StoreOf(n)
  BY <1>9, <1>12 DEF CommAgrees
<1>14. ~Returns(ev, pass) => ExprAgrees(j, F, guard, v, after, n)
  BY <1>7, <1>10, <1>11, <1>13, BelowExpr
<1>15. ~Returns(ev, pass) /\ ~(v < 1) =>
         LoopAgrees(j, F, guard, ops, label, ev, next, after, n)
  BY <1>0, <1>4, <1>5, <1>7, <1>10, <1>11, <1>13, BelowLoop
<1>16. LoopAgrees(j, F, guard, ops, label, ev, call, s, n)
  BY <1>2, <1>3, <1>9, <1>11, <1>12, <1>14, <1>15, PassAgrees
<1> QED
  BY <1>0, <1>4, <1>5, <1>7, <1>16

(* By induction on how deep calls are nested in the call. *)
LEMMA AllAgree ==
  ASSUME NEW j, NEW F, NEW tables, NEW ev, Compared(j, F, tables, ev), NEW call \in ev.calls
  PROVE  Agrees(j, F, tables, ev, call)
<1>1. ev.depth \in [ev.calls -> Nat]
  BY DEF Compared, IsEvaluation
<1> DEFINE S == {d \in Nat : \A x \in ev.calls : ev.depth[x] < d => Agrees(j, F, tables, ev, x)}
<1>2. 0 \in S
  BY <1>1
<1>3. ASSUME NEW d \in Nat, d \in S, NEW x \in ev.calls, ev.depth[x] < d + 1
      PROVE  Agrees(j, F, tables, ev, x)
  <2>1. AgreesBelow(j, F, tables, ev, x)
    <3>1. ASSUME NEW y, Further(ev, x, y)
          PROVE  Agrees(j, F, tables, ev, y)
      <4>1. y \in ev.calls /\ ev.depth[y] < d
        BY <1>1, <1>3, <3>1 DEF Further
      <4> QED
        BY <1>3, <4>1
    <3> HIDE DEF S
    <3> QED
      BY <3>1 DEF AgreesBelow
  <2> HIDE DEF S
  <2>2. ASSUME NEW f \in FunctionNames(j.prog), NEW t, t = tables[f], NEW n, n = VarsIn(j, f),
               NEW s \in StoreOf(n)
        PROVE  /\ \A e \in t.exprs : x = ExprCall(e, s) =>
                    ExprAgrees(j, F, t.expr_code[e], ValueOf(ev, e, s), s, n)
               /\ \A c \in t.comms : x = CommCall(c[1], s) =>
                    CommAgrees(j, F, t.comm_code[c].code, ev, x, s, n)
               /\ \A c \in t.comms : \A body : x = LoopCall(c[1], s) /\ IsWhile(t, c, body) =>
                    LoopAgrees(j, F, t.expr_code[c[1].expr], t.comm_code[body].code, c[2], ev,
                               x, s, n)
    BY <1>3, <2>1, <2>2, ExprStepAgrees, CommStepAgrees, LoopStepAgrees
  <2> QED
    BY <2>2 DEF Agrees, AgreesIn
<1>4. \A d \in Nat : d \in S => d + 1 \in S
  BY <1>3
<1>5. Nat \subseteq S
  <2> HIDE DEF S
  <2> QED
    BY <1>2, <1>4, SetInduction
<1>6. ev.depth[call] + 1 \in S
  BY <1>1, <1>5
<1> QED
  BY <1>1, <1>6

(* ------------------------------ Executions ------------------------------ *)
(* What the interpreter starts with: the call of main with the arguments. *)
MainStore(n, args) ==
  [v \in 0 .. n - 1 |-> IF v < Len(args) THEN args[v + 1] ELSE 0]

LEMMA MainIs ==
  ASSUME NEW prog, NEW args, NEW outcome, NEW ev, IsInterpreted(prog, args, outcome, ev),
         NEW n \in Nat, n = Prog_func(prog, 0).num_vars, NEW body,
         body = CommCall(Prog_func(prog, 0).body, MainStore(n, args))
  PROVE  /\ body \in ev.calls /\ Returns(ev, body)
         /\ outcome.type = "iSuccess" /\ outcome.result = Yields(ev, body)
<1>1. args \in Seq(Int) /\ IsEvaluation(prog, ev)
  BY DEF IsInterpreted
<1>2. PICK l \in Nat : l = Len(args) /\ DOMAIN args = 1 .. l
  BY <1>1
<1>3. PICK e : e = Source!MainCall(args)
  OBVIOUS
<1>4. /\ e.type = "Call" /\ e.num = 0
      /\ e.args = [i \in 1 .. l |-> Source!Int_init(args[i])]
  BY <1>2, <1>3 DEF Source!MainCall, Source!Call_init
<1>5. /\ Len(e.args) = l /\ DOMAIN e.args = 1 .. l
      /\ \A i \in 1 .. l : e.args[i].type = "Int" /\ e.args[i].num = args[i]
  BY <1>4 DEF Source!Int_init
<1>6. PICK s : s = << >>
  OBVIOUS
<1>7. ExprCall(e, s) \in ev.calls /\ outcome = ev.result[ExprCall(e, s)]
  BY <1>3, <1>6 DEF IsInterpreted, ExprCall
<1>8. PICK r : r = FrameFor(prog, ev, e, s)
  OBVIOUS
<1>9. PICK inner : inner = CommCall(Prog_func(prog, 0).body, r)
  OBVIOUS
<1>10. /\ \A i \in 1 .. l : Further(ev, ExprCall(e, s), ExprCall(e.args[i], s))
       /\ Further(ev, ExprCall(e, s), inner)
       /\ Returns(ev, inner) /\ ValueOf(ev, e, s) = Yields(ev, inner)
  <2>1. Len(e.args) \in Nat /\ DOMAIN e.args = 1 .. Len(e.args)
    BY <1>5
  <2>2. inner = CommCall(Prog_func(prog, e.num).body, FrameFor(prog, ev, e, s))
    BY <1>4, <1>8, <1>9
  <2>3. /\ \A i \in 1 .. Len(e.args) : Further(ev, ExprCall(e, s), ExprCall(e.args[i], s))
        /\ Further(ev, ExprCall(e, s), inner)
        /\ Returns(ev, inner) /\ ValueOf(ev, e, s) = Yields(ev, inner)
    BY <1>1, <1>4, <1>7, <2>1, <2>2, CallIs, SMTT(20)
  <2> QED
    BY <1>5, <2>3
<1>11. ASSUME NEW i \in 1 .. l
       PROVE  ValueOf(ev, e.args[i], s) = args[i]
  <2>1. ExprCall(e.args[i], s) \in ev.calls
    BY <1>10 DEF Further
  <2> QED
    BY <1>1, <1>5, <2>1, ExprIs
<1>12. r = MainStore(n, args)
  <2>1. r = [v \in 0 .. n - 1 |-> IF v < l THEN ValueOf(ev, e.args[v + 1], s) ELSE 0]
    BY <1>4, <1>5, <1>8 DEF FrameFor
  <2>2. ASSUME NEW v \in 0 .. n - 1, v < l
        PROVE  ValueOf(ev, e.args[v + 1], s) = args[v + 1]
    <3>1. v + 1 \in 1 .. l
      BY <2>2
    <3> QED
      BY <1>11, <3>1
  <2> QED
    BY <1>2, <2>1, <2>2 DEF MainStore
<1>13. body = inner
  BY <1>9, <1>12
<1>14. outcome.type = "iSuccess" /\ outcome.result = ValueOf(ev, e, s)
  BY <1>1, <1>7, EvaluatedExpr DEF ValueOf
<1> QED
  BY <1>10, <1>13, <1>14 DEF Further

(* The same is what the machine starts with. *)
LEMMA MainFramed ==
  ASSUME NEW prog, NEW args, NEW n \in Nat, n = Prog_func(prog, 0).num_vars, n <= MaxInt,
         NEW m \in Seq(Word), m = PreconfiguredStack(prog, args)
  PROVE  Len(m) = n /\ InFrame(m, n - 1, MainStore(n, args), n)
<1>1. m = [i \in 1 .. n |-> IF n - i < Len(args) THEN args[(n - i) + 1] ELSE 0]
  BY DEF PreconfiguredStack
<1>2. Len(m) = n
  BY <1>1
<1>3. ASSUME NEW v \in 0 .. n - 1
      PROVE  m[n - v] = MainStore(n, args)[v]
  <2>1. PICK i \in 1 .. n : i = n - v /\ n - i = v
    OBVIOUS
  <2> QED
    BY <1>1, <2>1 DEF MainStore
<1>4. MainStore(n, args) \in StoreOf(n)
  <2>1. ASSUME NEW v \in 0 .. n - 1
        PROVE  MainStore(n, args)[v] \in Word
    <3>1. n - v \in 1 .. Len(m)
      BY <1>2
    <3> QED
      BY <1>3, <3>1
  <2> QED
    BY <2>1 DEF MainStore, StoreOf
<1>5. n - 1 \in Word
  BY MaxIntAssumption DEF Word, MinInt
<1>6. \A v \in 0 .. n - 1 : m[(n - 1) + 1 - v] = MainStore(n, args)[v]
  <2>1. \A v \in 0 .. n - 1 : (n - 1) + 1 - v = n - v
    OBVIOUS
  <2> QED
    BY <1>3, <2>1
<1>7. n <= (n - 1) + 1 /\ (n - 1) + 1 <= Len(m)
  BY <1>2
<1> QED
  BY <1>2, <1>4, <1>5, <1>6, <1>7 DEF InFrame

(* Together: from where the machine starts it comes to where it halts with the result
   of the interpreter. *)
LEMMA ProgramAgrees ==
  ASSUME NEW j, NEW F, NEW tables, NEW args, NEW ev,
         Runnable(j, F), GeneratedWith(j, tables),
         IsInterpreted(j.prog, args, j.outcome, ev),
         j.initial_stack = PreconfiguredStack(j.prog, args)
  PROVE  /\ j.outcome.type = "iSuccess"
         /\ Takes(j, F, State(F, 0, j.initial_stack, Len(j.initial_stack) - 1, 0),
                  Done(F, j.outcome.result))
<1>1. Compared(j, F, tables, ev)
  BY DEF Compared, IsInterpreted
<1>2. 0 \in FunctionNames(j.prog) /\ Functional(j) /\ IntSized(j)
  BY ProgramFacts
<1>3. PICK n \in Nat : n = VarsIn(j, 0) /\ n <= MaxInt
  BY <1>2 DEF Functional, IntSized, VarsIn
<1>4. PICK m \in Seq(Word) : m = j.initial_stack
  BY DEF Runnable, WellFormed
<1>5. PICK s : s = MainStore(n, args)
  OBVIOUS
<1>6. PICK fp : fp = n - 1
  OBVIOUS
<1>7. Len(m) = n /\ InFrame(m, fp, s, n) /\ Len(m) = fp + 1
  BY <1>3, <1>4, <1>5, <1>6, MainFramed DEF VarsIn
<1>8. PICK call : call = CommCall(Prog_func(j.prog, 0).body, s)
  OBVIOUS
<1>9. PICK v : v = Yields(ev, call)
  OBVIOUS
<1>10. /\ call \in ev.calls /\ Returns(ev, call)
       /\ j.outcome.type = "iSuccess" /\ j.outcome.result = v
  BY <1>3, <1>5, <1>8, <1>9, MainIs DEF VarsIn
<1>11. Agrees(j, F, tables, ev, call)
  BY <1>1, <1>10, AllAgree
<1>12. PICK b \in Nat : /\ LabelSites(j.code, 0) = {b}
                        /\ CodeAt(j, b, LabelOps(0))
                        /\ CodeAt(j, b + 1, BodyOf(tables, 0 + 1).code)
  BY <1>2, GeneratedSetting
<1>13. PICK link, halt : /\ link = ICodeOperation_init("JUMPLINK", 0, 0)
                         /\ halt = ICodeOperation_init("HALT", 0, 0)
  OBVIOUS
<1>14. CodeAt(j, 0, <<link>>) /\ CodeAt(j, 0 + 1, <<halt>>)
  <2>1. PICK up : LaidOut(j, tables, up)
    BY ProgramLayout
  <2>2. CodeAt(j, 0, Start) /\ Len(j.code) \in Nat
    BY <2>1, FunctionPlaced, Numbers
  <2>3. CodeAt(j, 0, <<link, halt>>)
    BY <1>13, <2>2 DEF Start
  <2> QED
    BY <2>2, <2>3, TwoAt
<1>15. PICK one \in Nat : one = 0 + 1 /\ one \in Word /\ one \in Value
  <2>1. 0 + 1 \in Word
    BY MaxIntAssumption DEF Word, MinInt
  <2> QED
    BY <2>1 DEF Value
<1>16. Takes(j, F, State(F, 0, m, fp, 0), State(F, b, m, fp, one))
  BY <1>12, <1>13, <1>14, <1>15, StateCalls
<1>17. Takes(j, F, State(F, b, m, fp, one), State(F, b + 1, m, fp, one))
  BY <1>12, <1>15, StateLabels DEF LabelOps
<1>18. Yielding(j, F, b + 1, s, n, v)
  <2>1. s \in StoreOf(n)
    BY <1>7 DEF InFrame
  <2>2. b + 1 \in Nat
    OBVIOUS
  <2> QED
    BY <1>1, <1>2, <1>3, <1>8, <1>9, <1>10, <1>11, <1>12, <2>1, <2>2, BodyYields
<1>19. PICK w : Takes(j, F, State(F, b + 1, m, fp, one), Having(F, one, w, fp, one, v))
  BY <1>7, <1>15, <1>18 DEF Yielding
<1>20. Takes(j, F, Having(F, one, w, fp, one, v), Done(F, v))
  BY <1>13, <1>14, <1>15, HavingHalts
<1>21. Takes(j, F, State(F, 0, m, fp, 0), Done(F, v))
  BY <1>16, <1>17, <1>19, <1>20, TakesThen
<1> QED
  BY <1>4, <1>6, <1>7, <1>10, <1>21

(* The invariant: so it does from where it is. *)
Here == Configuration(registers, stack, status)

Underway ==
  job.outcome.type \notin Unknown =>
    /\ job.outcome.type = "iSuccess"
    /\ Arrives(job, RegisterFile, Here, job.outcome.result)

LEMMA HereIs ==
  ASSUME TypeOK
  PROVE  /\ Here \in Configurations(RegisterFile)
         /\ Here.registers = registers /\ Here.stack = stack /\ Here.status = status
BY DEF TypeOK, Here, Configuration, Configurations

(* Started on the stack that the program asks for it does. *)
LEMMA UnderwayInitially ==
  ASSUME GeneratedJobs, job.outcome.type \notin Unknown => Interpreted(job), CInit
  PROVE  Underway
<1> SUFFICES ASSUME job.outcome.type \notin Unknown
             PROVE  /\ job.outcome.type = "iSuccess"
                    /\ Arrives(job, RegisterFile, Here, job.outcome.result)
  BY DEF Underway
<1>1. TypeOK /\ job \in Jobs /\ WellFormed(job)
  BY InitType, JobsAssumption DEF CInit, Init
<1>2. PICK tables : GeneratedWith(job, tables)
  BY <1>1 DEF GeneratedJobs, IsGenerated
<1>3. PICK args, ev : /\ job.initial_stack = PreconfiguredStack(job.prog, args)
                      /\ IsInterpreted(job.prog, args, job.outcome, ev)
  BY DEF Interpreted
<1>4. job.initial_stack = PreconfiguredStack(job.prog, args)
  BY <1>3
<1>5. Runnable(job, RegisterFile)
  BY <1>1, RegistersThere DEF Runnable
<1>6. status = "running"
  <2>1. Convention
    BY GeneratedJobsAreTyped, ConventionInitially
  <2>2. ~HasNegativeLabel
    BY <2>1 DEF Convention, OnlyOverflowAborts, CInit, Init
  <2> QED
    BY <2>2 DEF CInit, Init
<1>7. Here \in State(RegisterFile, 0, job.initial_stack, Len(job.initial_stack) - 1, 0)
  <2> DEFINE m == job.initial_stack
             acc == registers[ACCUMULATOR]
             t == registers[TEMPORARY]
             r == Regs(Len(m), Len(m) - 1, 0, acc, t)
  <2>1. registers = InitialRegisters /\ stack = InitialStack
    BY DEF CInit, Init
  <2>2. \A x \in Named : registers[x] = r[x]
    <3>1. ASSUME NEW x \in Named
          PROVE  registers[x] = r[x]
      <4>1. x \in RegisterFile
        BY RegistersThere
      <4> QED
        BY <2>1, <4>1 DEF InitialRegisters, Regs, Named, STACK_POINTER, FRAME_POINTER,
              RETURN_ADDRESS, PROGRAM_COUNTER, ACCUMULATOR, TEMPORARY, initial_stack
    <3> QED
      BY <3>1
  <2>3. registers[PROGRAM_COUNTER] = 0
    BY <2>1, RegistersThere DEF InitialRegisters, STACK_POINTER, FRAME_POINTER, RETURN_ADDRESS,
                                PROGRAM_COUNTER
  <2>4. Len(m) \in Nat /\ Len(m) <= StackSize /\ StackSize \in Nat
    BY <1>1, StackSizeAssumption, MaxIntAssumption DEF WellFormed
  <2>5. \A i \in 1 .. Len(m) : stack[i - 1] = m[i]
    <3>1. ASSUME NEW i \in 1 .. Len(m)
          PROVE  stack[i - 1] = m[i]
      <4>1. i - 1 \in 0 .. StackSize - 1 /\ i - 1 < Len(m) /\ (i - 1) + 1 = i
        BY <2>4
      <4> QED
        BY <2>1, <4>1 DEF InitialStack, initial_stack
    <3> QED
      BY <3>1
  <2>6. acc \in Value /\ t \in Value
    BY <1>1, RegistersThere, NamedThere DEF TypeOK
  <2> HIDE DEF m, acc, t, r
  <2>7. Here \in View(RegisterFile, 0, r, m)
    BY <1>1, <1>6, <2>2, <2>3, <2>4, <2>5, HereIs DEF View
  <2>8. View(RegisterFile, 0, r, m) \subseteq State(RegisterFile, 0, m, Len(m) - 1, 0)
    BY <2>6, ViewIsState DEF r
  <2> QED
    BY <2>7, <2>8 DEF m
<1>8. /\ job.outcome.type = "iSuccess"
      /\ Takes(job, RegisterFile,
               State(RegisterFile, 0, job.initial_stack, Len(job.initial_stack) - 1, 0),
               Done(RegisterFile, job.outcome.result))
  BY <1>2, <1>3, <1>4, <1>5, ProgramAgrees
<1> QED
  BY <1>7, <1>8 DEF Takes, Arrives

LEMMA OnlyRunningSteps == Next => status = "running"
BY DEF Next, Move, LoadImm, Add, Sub, Load, Store, Jump, JumpCondTaken, JumpCondNotTaken,
   JumpLink, JumpAddr, Label, Halt, StackOverflow, StackUnderflow, IndexOutOfBounds, Executing,
   AccessingStack

(* Every step keeps it so, as nothing is open in it. *)
LEMMA UnderwayNext ==
  ASSUME TypedJobs, Convention, Underway, [CNext]_cvars
  PROVE  Underway'
<1>1. TypeOK
  BY DEF Convention
<1>2. CASE UNCHANGED cvars
  <2>1. Here' = Here /\ job' = job /\ RegisterFile' = RegisterFile
    BY <1>2 DEF cvars, Here, RegisterFile, ScannedRegisters, code
  <2> QED
    BY <2>1 DEF Underway
<1>3. CASE CNext
  <2>1. Next
    BY <1>3 DEF CNext, Enter, Leave, Within, Next
  <2>2. job' = job
    BY NextAsMachine
  <2>3. RegisterFile' = RegisterFile
    BY <2>2 DEF RegisterFile, ScannedRegisters, code
  <2>4. status = "running" /\ ~IsOpen(code, registers, stack)
    BY <2>1, OnlyRunningSteps, ConventionCloses
  <2>5. Here' = After(code, registers, stack)
    BY <1>1, <2>1, <2>4, StepIsDetermined DEF Here
  <2>6. ASSUME NEW v, Arrives(job, RegisterFile, Here, v)
        PROVE  Arrives(job, RegisterFile, Here', v)
    BY <1>1, <2>4, <2>5, <2>6, HereIs, NextArrives DEF code
  <2> QED
    BY <2>2, <2>3, <2>6 DEF Underway
<1> QED
  BY <1>2, <1>3

(* Whatever program it was generated from, and whatever arguments main is given: if the
   syntax-directed interpreter finishes, and no call's result in it that is assigned or
   guards a loop is taken for a return, then the code halts, if it does, with the
   interpreter's result. *)
THEOREM ComputesWhatIsInterpreted ==
  ASSUME GeneratedJobs, InterpretedJobs
  PROVE  CSpec => []AgreesWithInterpreter
<1>1. TypedJobs
  BY GeneratedJobsAreTyped
<1>2. CInit => Underway
  BY JobsAssumption, UnderwayInitially DEF CInit, Init, InterpretedJobs
<1>3. Convention /\ Underway /\ [CNext]_cvars => Underway'
  BY <1>1, UnderwayNext
<1>4. Convention /\ Underway => AgreesWithInterpreter
  <2> SUFFICES ASSUME TypeOK, Underway, status = "halted", job.outcome.type \notin Unknown
               PROVE  job.outcome.type = "iSuccess" /\ Result = job.outcome.result
    BY DEF AgreesWithInterpreter, Convention
  <2>1. job.outcome.type = "iSuccess" /\ Arrives(job, RegisterFile, Here, job.outcome.result)
    BY DEF Underway
  <2> QED
    BY <2>1, HereIs, HaltedArrived DEF Result
<1> QED
  BY <1>2, <1>3, <1>4, GeneratedConvention, PTL DEF CSpec
=============================================================================
