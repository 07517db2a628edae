---------------------------- MODULE ICodeMachine ----------------------------
(***************************************************************************)
(* The icode interpreter (icode_interpreter.c): the state it allocates for *)
(* a vector of operations and an initial stack, and one action per way     *)
(* through ICodeInterpreterState_step and the loop around it.              *)
(*                                                                         *)
(* The machine is deterministic except where the program reads memory that *)
(* was never written.  Uninit stands for the contents of such memory: it   *)
(* is copied like a value, and where a step depends on it the step may     *)
(* take any value of the machine's int.                                    *)
(***************************************************************************)
EXTENDS ICode

CONSTANTS
  Jobs,       (* What may be executed: a set of records whose fields code  *)
              (* and initial_stack are the two arguments of execute.       *)
  StackSize,  (* ICodeInterpreterState_STACK_SIZE (100000 in the code).    *)
  MaxInt,     (* INT_MAX; ints are two's complement.                       *)
  Uninit      (* The contents of memory never written.                     *)

MinInt == -MaxInt - 1

Word == MinInt .. MaxInt

Value == Word \cup {Uninit}

ASSUME MaxIntAssumption == MaxInt \in Nat \ {0}

ASSUME UninitAssumption == Uninit \notin Int

(* The stack is an array indexed by ints. *)
ASSUME StackSizeAssumption == StackSize \in 1 .. MaxInt

(* Operations carry ints and name registers from 0 up; code has fewer
   operations than an int can count, and its labels span few enough numbers
   that the size of the label table fits in an int.  The initial stack fits:
   the copy loop of ICodeInterpreterState_init does not check that it does. *)
WellFormed(j) ==
  /\ j.code \in Seq(ICodeOperation)
  /\ Len(j.code) \in 1 .. MaxInt
  /\ \A a \in Addresses(j.code) :
       LET op == OperationAt(j.code, a)
       IN  /\ {op.arg1, op.arg2} \subseteq Word
           /\ RegisterOperands(op) \subseteq Nat
  /\ j.initial_stack \in Seq(Word)
  /\ Len(j.initial_stack) \in 0 .. StackSize

ASSUME JobsAssumption == \A j \in Jobs : WellFormed(j)

VARIABLES
  job,        (* what is executed; never changes                           *)
  registers,  (* state->registers                                          *)
  stack,      (* state->stack                                              *)
  status      (* "running", "halted", or the ERROR that ended the process  *)

vars == <<job, registers, stack, status>>

code          == job.code           (* state->code *)
initial_stack == job.initial_stack

Statuses == {"running", "halted", "stack overflow", "stack underflow",
             "index out of bounds", "negative label"}

----------------------------------------------------------------------------
(* Reading and computing with words that may be uninitialised. *)

(* Mutant: a difference that underflows is not wrapped. *)
WrapOnlyAbove(n) == IF n > MaxInt THEN n - 2 * (MaxInt + 1) ELSE n

(* Two's complement addition leaves at most one multiple of 2^width to take
   off; the build wraps. *)
Wrap(n) ==
  CASE n > MaxInt -> n - 2 * (MaxInt + 1)
    [] n < MinInt -> n + 2 * (MaxInt + 1)
    [] OTHER      -> n

(* The words a value can turn out to be when a step depends on it. *)
Denotes(v) == IF v = Uninit THEN Word ELSE {v}

Plus(v, w)  == IF Uninit \in {v, w} THEN Uninit ELSE Wrap(v + w)
Minus(v, w) == IF Uninit \in {v, w} THEN Uninit ELSE Wrap(v - w)

----------------------------------------------------------------------------
(* ICodeInterpreterState_init *)

(* The register file is sized by a scan over the operations.  The scan skips
   JUMPCOND, so the register it tests does not count. *)
ScannedRegisters ==
  {TEMPORARY} \cup
    UNION {RegisterOperands(OperationAt(code, a)) :
             a \in {b \in Addresses(code) :
                      OperationAt(code, b).opc # "JUMPCOND"}}

RegisterFile == UNION {0 .. r : r \in ScannedRegisters}

HasNegativeLabel ==
  \E a \in Addresses(code) : /\ OperationAt(code, a).opc = "LABEL"
                             /\ OperationAt(code, a).arg1 < 0

(* Mutant: the program counter is not initialised. *)
InitWithoutProgramCounter ==
  [r \in RegisterFile |->
     CASE r = STACK_POINTER -> Len(initial_stack)
       [] r = FRAME_POINTER -> Len(initial_stack) - 1
       [] OTHER             -> Uninit]

InitialRegisters ==
  [r \in RegisterFile |->
     CASE r = STACK_POINTER   -> Len(initial_stack)
       [] r = FRAME_POINTER   -> Len(initial_stack) - 1
       [] r = RETURN_ADDRESS  -> 0
       [] r = PROGRAM_COUNTER -> 0
       [] OTHER               -> Uninit]

InitialStack ==
  [i \in 0 .. StackSize - 1 |->
     IF i < Len(initial_stack) THEN initial_stack[i + 1] ELSE Uninit]

(* The label table is filled in program order, so the last definition of a
   label wins.  An entry nobody filled is as malloc left it, and one outside
   the table is other memory: the jump may go anywhere. *)
LookupLabelAddress(label) ==
  LET sites == LabelSites(code, label)
  IN  IF sites = {} THEN Word
      ELSE {a \in sites : \A b \in sites : b <= a}

Init ==
  /\ job \in Jobs
  /\ registers = InitialRegisters
  /\ stack = InitialStack
  /\ status = IF HasNegativeLabel THEN "negative label" ELSE "running"

----------------------------------------------------------------------------
(* ICodeInterpreterState_step and the loop of ICodeInterpreterState_run *)

pc == registers[PROGRAM_COUNTER]

current == OperationAt(code, pc)

(* ICodeOperationVector_get finds an operation with this opcode. *)
Executing(opc) ==
  /\ status = "running"
  /\ pc \in Addresses(code)
  /\ current.opc = opc

(* JUMPCOND may test a register beyond the allocated file: heap memory. *)
Contents(r) == IF r \in DOMAIN registers THEN registers[r] ELSE Uninit

(* registers[r] = v; registers[PROGRAM_COUNTER]++.  In that order: v may go to
   the program counter, which then has to be some definite word. *)
SetAndAdvance(r, v) ==
  /\ \E w \in IF r = PROGRAM_COUNTER THEN Denotes(v) ELSE {v} :
       registers' = [[registers EXCEPT ![r] = w]
                       EXCEPT ![PROGRAM_COUNTER] = Wrap(@ + 1)]
  /\ UNCHANGED <<job, status>>

Goto(addresses) ==
  /\ \E a \in addresses : registers' = [registers EXCEPT ![PROGRAM_COUNTER] = a]
  /\ UNCHANGED <<job, stack, status>>

Advance == Goto({Wrap(pc + 1)})

Move ==
  /\ Executing("MOVE")
  /\ SetAndAdvance(current.arg2, registers[current.arg1])
  /\ UNCHANGED stack

LoadImm ==
  /\ Executing("LOADIMM")
  /\ SetAndAdvance(current.arg2, current.arg1)
  /\ UNCHANGED stack

Add ==
  /\ Executing("ADD")
  /\ SetAndAdvance(current.arg1,
                   Plus(registers[current.arg1], registers[current.arg2]))
  /\ UNCHANGED stack

Sub ==
  /\ Executing("SUB")
  /\ SetAndAdvance(current.arg1,
                   Minus(registers[current.arg1], registers[current.arg2]))
  /\ UNCHANGED stack

Load ==
  /\ Executing("LOAD")
  /\ \E a \in Denotes(registers[current.arg1]) \cap DOMAIN stack :
       SetAndAdvance(current.arg2, stack[a])
  /\ UNCHANGED stack

Store ==
  /\ Executing("STORE")
  /\ \E a \in Denotes(registers[current.arg2]) \cap DOMAIN stack :
       stack' = [stack EXCEPT ![a] = registers[current.arg1]]
  /\ registers' = [registers EXCEPT ![PROGRAM_COUNTER] = Wrap(@ + 1)]
  /\ UNCHANGED <<job, status>>

Jump ==
  /\ Executing("JUMP")
  /\ Goto(LookupLabelAddress(current.arg1))

(* Mutant: zero counts as true. *)
FailsIfNegative(v) == v < 0

(* A guard fails unless it is positive. *)
GuardFails(v) == v < 1

JumpCondTaken ==
  /\ Executing("JUMPCOND")
  /\ \E v \in Denotes(Contents(current.arg2)) : GuardFails(v)
  /\ Goto(LookupLabelAddress(current.arg1))

JumpCondNotTaken ==
  /\ Executing("JUMPCOND")
  /\ \E v \in Denotes(Contents(current.arg2)) : ~GuardFails(v)
  /\ Advance

(* Mutant: the return address is that of the call. *)
JumpLinkToItself ==
  /\ Executing("JUMPLINK")
  /\ \E a \in LookupLabelAddress(current.arg1) :
       registers' = [registers EXCEPT ![RETURN_ADDRESS]  = pc,
                                      ![PROGRAM_COUNTER] = a]
  /\ UNCHANGED <<job, stack, status>>

JumpLink ==
  /\ Executing("JUMPLINK")
  /\ \E a \in LookupLabelAddress(current.arg1) :
       registers' = [registers EXCEPT ![RETURN_ADDRESS]  = Wrap(pc + 1),
                                      ![PROGRAM_COUNTER] = a]
  /\ UNCHANGED <<job, stack, status>>

JumpAddr ==
  /\ Executing("JUMPADDR")
  /\ Goto(Denotes(registers[current.arg1]))

Label ==
  /\ Executing("LABEL")
  /\ Advance

(* The loop ends at a HALT, where the result is the accumulator. *)
Halt ==
  /\ Executing("HALT")
  /\ status' = "halted"
  /\ UNCHANGED <<job, registers, stack>>

----------------------------------------------------------------------------
(* ERROR: the process prints a message and exits. *)

Abort(error) ==
  /\ status' = error
  /\ UNCHANGED <<job, registers, stack>>

(* The register that LOAD and STORE take an address from. *)
AddressRegister == IF current.opc = "LOAD" THEN current.arg1 ELSE current.arg2

AccessingStack == Executing("LOAD") \/ Executing("STORE")

(* Mutant: the bounds check lets the first index past the stack through. *)
OverflowOffByOne ==
  /\ AccessingStack
  /\ \E a \in Denotes(registers[AddressRegister]) : a > StackSize
  /\ Abort("stack overflow")

StackOverflow ==
  /\ AccessingStack
  /\ \E a \in Denotes(registers[AddressRegister]) : a >= StackSize
  /\ Abort("stack overflow")

StackUnderflow ==
  /\ AccessingStack
  /\ \E a \in Denotes(registers[AddressRegister]) : a < 0
  /\ Abort("stack underflow")

(* ICodeOperationVector_get refuses the program counter. *)
IndexOutOfBounds ==
  /\ status = "running"
  /\ pc \notin Addresses(code)
  /\ Abort("index out of bounds")

(* The step that registers r and stack s lead to in ops depends on memory that was
   never written: an address, a jump's target or guard, the label of a jump, or
   what goes to the program counter.  Every other step has one outcome. *)
IsOpen(ops, r, s) ==
  LET op == OperationAt(ops, r[PROGRAM_COUNTER])
      Tested == IF op.arg2 \in DOMAIN r THEN r[op.arg2] ELSE Uninit
  IN  /\ r[PROGRAM_COUNTER] \in Addresses(ops)
      /\ \/ op.opc \in {"LOAD", "JUMPADDR"} /\ r[op.arg1] = Uninit
         \/ op.opc = "STORE" /\ r[op.arg2] = Uninit
         \/ op.opc = "JUMPCOND" /\ Tested = Uninit
         \/ /\ op.opc \in {"JUMP", "JUMPLINK", "JUMPCOND"}
            /\ op.opc = "JUMPCOND" => GuardFails(Tested)
            /\ LabelSites(ops, op.arg1) = {}
         \/ /\ op.opc = "MOVE" /\ op.arg2 = PROGRAM_COUNTER
            /\ r[op.arg1] = Uninit
         \/ /\ op.opc = "LOAD" /\ op.arg2 = PROGRAM_COUNTER
            /\ r[op.arg1] \in DOMAIN s /\ s[r[op.arg1]] = Uninit
         \/ /\ op.opc \in {"ADD", "SUB"} /\ op.arg1 = PROGRAM_COUNTER
            /\ r[op.arg2] = Uninit

Next ==
  \/ Move \/ LoadImm \/ Add \/ Sub \/ Load \/ Store
  \/ Jump \/ JumpCondTaken \/ JumpCondNotTaken \/ JumpLink \/ JumpAddr
  \/ Label \/ Halt
  \/ StackOverflow \/ StackUnderflow \/ IndexOutOfBounds

Spec == Init /\ [][Next]_vars

(* The loop takes its next step whenever there is one: nothing else runs in
   the process. *)
FairSpec == Spec /\ WF_vars(Next)

(* What execute returns. *)
Result == registers[ACCUMULATOR]
----------------------------------------------------------------------------
(* Type correctness: the two arrays keep the shape they were allocated with,
   every cell holds an int or what malloc left there, and the program counter
   is always a definite int, wherever it may point. *)
TypeOK ==
  /\ job \in Jobs
  /\ registers \in [RegisterFile -> Value]
  /\ pc \in Word
  /\ stack \in [0 .. StackSize - 1 -> Value]
  /\ status \in Statuses

(* The scan of the operations is there to "determine how much memory we need to
   allocate for registers" (icode_interpreter.c:34-37): an operation about to be
   executed names no register outside the allocated file.  The scan has nothing for
   JUMPCOND, so this holds of code whose tests are of registers that are allocated
   for something else, as those of generated code are (icodegen.c:102). *)
RegistersAreAllocated ==
  status = "running" /\ pc \in Addresses(code) =>
    RegisterOperands(current) \subseteq DOMAIN registers

(* In other code the one operation that may do so is JUMPCOND, which only reads: no
   step ever writes past the register file. *)
OnlyTestsMayLeaveTheFile ==
  status = "running" /\ pc \in Addresses(code) /\ current.opc # "JUMPCOND" =>
    RegisterOperands(current) \subseteq DOMAIN registers
============================================================================
