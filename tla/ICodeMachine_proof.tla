------------------------- MODULE ICodeMachine_proof -------------------------
(***************************************************************************)
(* Proofs about the icode machine, for every set of jobs, stack size and   *)
(* width of the machine's int: the types of its state, then where its      *)
(* operations take it, which proofs about generated code build on.         *)
(***************************************************************************)
EXTENDS ICodeMachine, TLAPS

USE DEF STACK_POINTER, FRAME_POINTER, RETURN_ADDRESS, PROGRAM_COUNTER,
        ACCUMULATOR, TEMPORARY

----------------------------------------------------------------------------
(* Arithmetic on words gives a word: one wrap is enough. *)
LEMMA WrapType ==
  ASSUME NEW v \in Word, NEW w \in Word
  PROVE  Wrap(v + w) \in Word /\ Wrap(v - w) \in Word
BY MaxIntAssumption DEF Wrap, Word, MinInt

LEMMA IncrementType ==
  ASSUME NEW v \in Word
  PROVE  Wrap(v + 1) \in Word
BY MaxIntAssumption DEF Wrap, Word, MinInt

(* What a value may denote is a word, and nothing else. *)
LEMMA DenotesType ==
  ASSUME NEW v \in Value
  PROVE  Denotes(v) \subseteq Word
BY DEF Denotes, Value

LEMMA ArithmeticType ==
  ASSUME NEW v \in Value, NEW w \in Value
  PROVE  Plus(v, w) \in Value /\ Minus(v, w) \in Value
BY WrapType DEF Plus, Minus, Value

(* The six named registers are always allocated. *)
LEMMA NamedRegisters == 0 .. 5 \subseteq RegisterFile
<1>1. 5 \in ScannedRegisters
  BY DEF ScannedRegisters
<1>2. 0 .. 5 \in {0 .. r : r \in ScannedRegisters}
  BY <1>1
<1> QED
  BY <1>2 DEF RegisterFile

(* The operation at the program counter, and the words in it. *)
LEMMA CurrentType ==
  ASSUME job \in Jobs, pc \in Addresses(code)
  PROVE  /\ current \in ICodeOperation
         /\ current.arg1 \in Word
         /\ current.arg2 \in Word
         /\ RegisterOperands(current) \subseteq Nat
<1>1. /\ code \in Seq(ICodeOperation)
      /\ \A a \in Addresses(code) :
           /\ {OperationAt(code, a).arg1, OperationAt(code, a).arg2} \subseteq Word
           /\ RegisterOperands(OperationAt(code, a)) \subseteq Nat
  BY JobsAssumption DEF WellFormed, code
<1>2. pc + 1 \in 1 .. Len(code)
  BY <1>1 DEF Addresses
<1>3. current \in ICodeOperation
  BY <1>1, <1>2 DEF current, OperationAt
<1> QED
  BY <1>1, <1>3 DEF current

(* The scan allocates every register that an operation other than JUMPCOND
   names. *)
LEMMA OperandsAllocated ==
  ASSUME job \in Jobs, pc \in Addresses(code), current.opc # "JUMPCOND"
  PROVE  RegisterOperands(current) \subseteq RegisterFile
<1>1. RegisterOperands(current) \subseteq ScannedRegisters
  BY DEF ScannedRegisters, current
<1>2. SUFFICES ASSUME NEW r \in RegisterOperands(current)
               PROVE  r \in RegisterFile
  OBVIOUS
<1>3. r \in 0 .. r /\ r \in ScannedRegisters
  BY <1>1, CurrentType
<1> QED
  BY <1>3 DEF RegisterFile

(* A label is looked up to an address, or to anything if it is not defined. *)
LEMMA LabelAddressType ==
  ASSUME job \in Jobs, NEW label
  PROVE  LookupLabelAddress(label) \subseteq Word
<1>1. Addresses(code) \subseteq Word
  BY JobsAssumption, MaxIntAssumption DEF WellFormed, Addresses, code, Word, MinInt
<1> QED
  BY <1>1 DEF LookupLabelAddress, LabelSites

----------------------------------------------------------------------------
(* The two ways a step ends keep the registers' type. *)
LEMMA SetAndAdvanceType ==
  ASSUME TypeOK, NEW r \in RegisterFile, NEW v \in Value, SetAndAdvance(r, v)
  PROVE  /\ registers' \in [RegisterFile -> Value]
         /\ pc' \in Word
         /\ job' = job
         /\ status' = status
<1>1. PICK w \in IF r = PROGRAM_COUNTER THEN Denotes(v) ELSE {v} :
        registers' = [[registers EXCEPT ![r] = w]
                        EXCEPT ![PROGRAM_COUNTER] = Wrap(@ + 1)]
  BY DEF SetAndAdvance
<1>2. w \in Value /\ (r = PROGRAM_COUNTER => w \in Word)
  BY <1>1, DenotesType DEF Value
<1>3. PROGRAM_COUNTER \in RegisterFile
  BY NamedRegisters
<1> DEFINE set == [registers EXCEPT ![r] = w]
<1>4. set \in [RegisterFile -> Value] /\ set[PROGRAM_COUNTER] \in Word
  BY <1>2, <1>3 DEF TypeOK, pc
<1>5. Wrap(set[PROGRAM_COUNTER] + 1) \in Word
  BY <1>4, IncrementType
<1>6. registers' = [set EXCEPT ![PROGRAM_COUNTER] = Wrap(set[PROGRAM_COUNTER] + 1)]
  BY <1>1
<1> HIDE DEF set
<1>7. registers' \in [RegisterFile -> Value] /\ pc' \in Word
  BY <1>3, <1>4, <1>5, <1>6 DEF pc, Value
<1> QED
  BY <1>7 DEF SetAndAdvance

LEMMA GotoType ==
  ASSUME TypeOK, NEW addresses \in SUBSET Word, Goto(addresses)
  PROVE  TypeOK'
<1>1. PROGRAM_COUNTER \in RegisterFile
  BY NamedRegisters
<1> QED
  BY <1>1 DEF TypeOK, Goto, pc, Value, RegisterFile, ScannedRegisters, code

LEMMA JobNeverChanges == [Next]_vars => UNCHANGED job
BY DEF Next, vars, Move, LoadImm, Add, Sub, Load, Store, Jump, JumpCondTaken,
       JumpCondNotTaken, JumpLink, JumpAddr, Label, Halt, StackOverflow,
       StackUnderflow, IndexOutOfBounds, SetAndAdvance, Goto, Advance, Abort

----------------------------------------------------------------------------
LEMMA InitType == Init => TypeOK
<1> SUFFICES ASSUME Init PROVE TypeOK
  OBVIOUS
<1>1. initial_stack \in Seq(Word) /\ Len(initial_stack) \in 0 .. StackSize
  BY JobsAssumption DEF WellFormed, Init, initial_stack
<1>2. {0, Len(initial_stack), Len(initial_stack) - 1} \subseteq Word
  BY <1>1, StackSizeAssumption, MaxIntAssumption DEF Word, MinInt
<1>3. InitialRegisters \in [RegisterFile -> Value]
  BY <1>2 DEF InitialRegisters, Value
<1>4. InitialRegisters[PROGRAM_COUNTER] = 0
  BY NamedRegisters DEF InitialRegisters
<1>5. InitialStack \in [0 .. StackSize - 1 -> Value]
  <2>1. ASSUME NEW i \in 0 .. StackSize - 1, i < Len(initial_stack)
        PROVE  initial_stack[i + 1] \in Word
    BY <1>1, <2>1, StackSizeAssumption
  <2> QED
    BY <2>1 DEF InitialStack, Value
<1> QED
  BY <1>2, <1>3, <1>4, <1>5 DEF Init, TypeOK, pc, Statuses

(* The types are inductive: no step needs to know more than they say. *)
LEMMA StepType == TypeOK /\ [Next]_vars => TypeOK'
<1> SUFFICES ASSUME TypeOK, [Next]_vars PROVE TypeOK'
  OBVIOUS
<1> USE DEF TypeOK
<1>file. job' = job => RegisterFile' = RegisterFile
  BY DEF RegisterFile, ScannedRegisters, code
<1>op. ASSUME NEW opc, Executing(opc)
       PROVE  /\ current.opc = opc
              /\ current.arg1 \in Word /\ current.arg2 \in Word
              /\ opc # "JUMPCOND" => RegisterOperands(current) \subseteq RegisterFile
  BY <1>op, CurrentType, OperandsAllocated DEF Executing
<1>1. CASE Move
  <2>1. {current.arg1, current.arg2} \subseteq RegisterFile
    BY <1>1, <1>op DEF Move, RegisterOperands, TwoRegisters
  <2> QED
    BY <1>1, <1>file, <2>1, SetAndAdvanceType DEF Move
<1>2. CASE LoadImm
  <2>1. current.arg2 \in RegisterFile /\ current.arg1 \in Value
    BY <1>2, <1>op DEF LoadImm, RegisterOperands, Value
  <2> QED
    BY <1>2, <1>file, <2>1, SetAndAdvanceType DEF LoadImm
<1>3. CASE Add
  <2>1. {current.arg1, current.arg2} \subseteq RegisterFile
    BY <1>3, <1>op DEF Add, RegisterOperands, TwoRegisters
  <2>2. Plus(registers[current.arg1], registers[current.arg2]) \in Value
    BY <2>1, ArithmeticType
  <2> QED
    BY <1>3, <1>file, <2>1, <2>2, SetAndAdvanceType DEF Add
<1>4. CASE Sub
  <2>1. {current.arg1, current.arg2} \subseteq RegisterFile
    BY <1>4, <1>op DEF Sub, RegisterOperands, TwoRegisters
  <2>2. Minus(registers[current.arg1], registers[current.arg2]) \in Value
    BY <2>1, ArithmeticType
  <2> QED
    BY <1>4, <1>file, <2>1, <2>2, SetAndAdvanceType DEF Sub
<1>5. CASE Load
  <2>1. {current.arg1, current.arg2} \subseteq RegisterFile
    BY <1>5, <1>op DEF Load, RegisterOperands, TwoRegisters
  <2>2. PICK a \in DOMAIN stack : SetAndAdvance(current.arg2, stack[a])
    BY <1>5 DEF Load
  <2>3. stack[a] \in Value
    BY <2>2
  <2> QED
    BY <1>5, <1>file, <2>1, <2>2, <2>3, SetAndAdvanceType DEF Load
<1>6. CASE Store
  <2>1. {current.arg1, current.arg2} \subseteq RegisterFile
    BY <1>6, <1>op DEF Store, RegisterOperands, TwoRegisters
  <2>2. stack' \in [0 .. StackSize - 1 -> Value]
    BY <1>6, <2>1 DEF Store
  <2>3. registers' \in [RegisterFile -> Value] /\ pc' \in Word
    <3>1. PROGRAM_COUNTER \in RegisterFile
      BY NamedRegisters
    <3>2. Wrap(pc + 1) \in Word
      BY IncrementType
    <3> QED
      BY <1>6, <3>1, <3>2 DEF Store, pc, Value
  <2> QED
    BY <1>6, <1>file, <2>2, <2>3 DEF Store
<1>7. CASE Jump
  BY <1>7, GotoType, LabelAddressType DEF Jump
<1>8. CASE JumpCondTaken
  BY <1>8, GotoType, LabelAddressType DEF JumpCondTaken
<1>9. Wrap(pc + 1) \in Word
  BY IncrementType
<1>10. CASE JumpCondNotTaken
  BY <1>10, <1>9, GotoType DEF JumpCondNotTaken, Advance
<1>11. CASE JumpLink
  <2>1. PICK a \in LookupLabelAddress(current.arg1) :
          registers' = [registers EXCEPT ![RETURN_ADDRESS]  = Wrap(pc + 1),
                                         ![PROGRAM_COUNTER] = a]
    BY <1>11 DEF JumpLink
  <2>2. a \in Word
    BY <2>1, LabelAddressType
  <2>3. RETURN_ADDRESS \in RegisterFile /\ PROGRAM_COUNTER \in RegisterFile
    BY NamedRegisters
  <2>4. registers' \in [RegisterFile -> Value] /\ pc' \in Word
    BY <1>9, <2>1, <2>2, <2>3 DEF pc, Value
  <2> QED
    BY <1>11, <1>file, <2>4 DEF JumpLink
<1>12. CASE JumpAddr
  <2>1. current.arg1 \in RegisterFile
    BY <1>12, <1>op DEF JumpAddr, RegisterOperands
  <2> QED
    BY <1>12, <2>1, GotoType, DenotesType DEF JumpAddr
<1>13. CASE Label
  BY <1>13, <1>9, GotoType DEF Label, Advance
<1>14. ASSUME NEW outcome \in Statuses, Abort(outcome)
       PROVE  TypeOK'
  BY <1>14, <1>file DEF Abort, pc
<1>15. CASE Halt
  BY <1>15, <1>14 DEF Halt, Abort, Statuses
<1>16. CASE StackOverflow \/ StackUnderflow \/ IndexOutOfBounds
  BY <1>16, <1>14 DEF StackOverflow, StackUnderflow, IndexOutOfBounds, Statuses
<1>17. CASE UNCHANGED vars
  BY <1>17, <1>file DEF vars, pc
<1> QED
  BY <1>1, <1>2, <1>3, <1>4, <1>5, <1>6, <1>7, <1>8, <1>10, <1>11, <1>12,
     <1>13, <1>15, <1>16, <1>17 DEF Next

(* Whatever code the machine is given, the arrays it allocated keep their shape,
   every register an operation writes is one it allocated, no access goes past
   the stack, and the program counter is a definite int. *)
THEOREM TypeCorrect == Spec => []TypeOK
BY InitType, StepType, PTL DEF Spec

(* No operation but a JUMPCOND ever names a register outside the allocated file,
   whatever the code, so the machine never writes past it: the scan and the
   program counter's bounds check together are enough. *)
THEOREM OnlyTestsLeaveTheFile == Spec => []OnlyTestsMayLeaveTheFile
<1>1. TypeOK => OnlyTestsMayLeaveTheFile
  BY OperandsAllocated DEF TypeOK, OnlyTestsMayLeaveTheFile
<1> QED
  BY <1>1, TypeCorrect, PTL
----------------------------------------------------------------------------
(* The step as a function, where it is not open. *)

(* The address that the label table has for a label. *)
LabelAddress(ops, label) ==
  CHOOSE a \in LabelSites(ops, label) : \A b \in LabelSites(ops, label) : b <= a

Configuration(r, s, st) == [registers |-> r, stack |-> s, status |-> st]

RegisterSet(r, n, v) ==
  [[r EXCEPT ![n] = v] EXCEPT ![PROGRAM_COUNTER] = Wrap(@ + 1)]

CounterSet(r, a) == [r EXCEPT ![PROGRAM_COUNTER] = a]

(* The status after an access to the stack. *)
Accessed(a) ==
  CASE a \in 0 .. StackSize - 1 -> "running"
    [] a >= StackSize           -> "stack overflow"
    [] OTHER                    -> "stack underflow"

(* Registers after the operation op, if it is executed to the end. *)
RegistersAfter(ops, op, r, s) ==
  LET next == Wrap(r[PROGRAM_COUNTER] + 1)
  IN  CASE op.opc = "MOVE"     -> RegisterSet(r, op.arg2, r[op.arg1])
        [] op.opc = "LOADIMM"  -> RegisterSet(r, op.arg2, op.arg1)
        [] op.opc = "ADD"      -> RegisterSet(r, op.arg1, Plus(r[op.arg1], r[op.arg2]))
        [] op.opc = "SUB"      -> RegisterSet(r, op.arg1, Minus(r[op.arg1], r[op.arg2]))
        [] op.opc = "LOAD"     -> RegisterSet(r, op.arg2, s[r[op.arg1]])
        [] op.opc = "JUMP"     -> CounterSet(r, LabelAddress(ops, op.arg1))
        [] op.opc = "JUMPCOND" ->
             CounterSet(r, IF GuardFails(IF op.arg2 \in DOMAIN r THEN r[op.arg2] ELSE Uninit)
                             THEN LabelAddress(ops, op.arg1) ELSE next)
        [] op.opc = "JUMPLINK" ->
             [r EXCEPT ![RETURN_ADDRESS]  = next,
                       ![PROGRAM_COUNTER] = LabelAddress(ops, op.arg1)]
        [] op.opc = "JUMPADDR" -> CounterSet(r, r[op.arg1])
        [] op.opc = "HALT"     -> r
        [] OTHER               -> CounterSet(r, next)

StatusAfter(op, r) ==
  CASE op.opc = "LOAD"  -> Accessed(r[op.arg1])
    [] op.opc = "STORE" -> Accessed(r[op.arg2])
    [] op.opc = "HALT"  -> "halted"
    [] OTHER            -> "running"

(* What a running machine does next. *)
After(ops, r, s) ==
  LET op == OperationAt(ops, r[PROGRAM_COUNTER])
  IN  IF r[PROGRAM_COUNTER] \notin Addresses(ops)
        THEN Configuration(r, s, "index out of bounds")
      ELSE IF StatusAfter(op, r) \notin {"running", "halted"}
        THEN Configuration(r, s, StatusAfter(op, r))
      ELSE Configuration(RegistersAfter(ops, op, r, s),
                         IF op.opc = "STORE" THEN [s EXCEPT ![r[op.arg2]] = r[op.arg1]]
                                             ELSE s,
                         StatusAfter(op, r))

LEMMA LabelHasOneAddress ==
  ASSUME NEW label, LabelSites(code, label) # {},
         NEW a \in LookupLabelAddress(label), job \in Jobs
  PROVE  a = LabelAddress(code, label)
<1> DEFINE sites == LabelSites(code, label)
<1>1. sites \subseteq Int
  BY JobsAssumption DEF LabelSites, Addresses, WellFormed, code
<1>2. a \in sites /\ \A b \in sites : b <= a
  BY DEF LookupLabelAddress
<1>3. \A c \in sites : (\A b \in sites : b <= c) => c = a
  BY <1>1, <1>2
<1> QED
  BY <1>2, <1>3 DEF LabelAddress

(* A value that is known denotes itself. *)
LEMMA KnownDenotesItself == \A v : v # Uninit => Denotes(v) = {v}
BY DEF Denotes

LEMMA UninitIsNoWord == Uninit \notin Word
BY UninitAssumption, MaxIntAssumption DEF Word, MinInt

(* An address that is known is accessed, or is above or below the stack. *)
LEMMA AccessedOnce ==
  ASSUME TypeOK, NEW a \in Word
  PROVE  /\ a \in DOMAIN stack => Accessed(a) = "running"
         /\ a >= StackSize => Accessed(a) = "stack overflow"
         /\ a < 0 => Accessed(a) = "stack underflow"
<1>1. a \in Int /\ StackSize \in Int /\ StackSize > 0
  BY MaxIntAssumption, StackSizeAssumption DEF Word, MinInt
<1>2. DOMAIN stack = 0 .. StackSize - 1
  BY DEF TypeOK
<1> QED
  BY <1>1, <1>2 DEF Accessed

(* After, for a step that goes on. *)
LEMMA AfterOperation ==
  ASSUME pc \in Addresses(code), StatusAfter(current, registers) = "running",
         registers' = RegistersAfter(code, current, registers, stack),
         stack' = IF current.opc = "STORE"
                    THEN [stack EXCEPT ![registers[current.arg2]] = registers[current.arg1]]
                    ELSE stack,
         status' = "running"
  PROVE  Configuration(registers', stack', status') = After(code, registers, stack)
BY DEF After, pc, current

LEMMA AfterError ==
  ASSUME pc \in Addresses(code), NEW error, error \notin {"running", "halted"},
         StatusAfter(current, registers) = error, Abort(error)
  PROVE  Configuration(registers', stack', status') = After(code, registers, stack)
BY DEF After, pc, current, Abort

(* Setting a register to a value that is known, or one other than the program
   counter, has one outcome. *)
LEMMA SetOnce ==
  ASSUME NEW r, NEW v, SetAndAdvance(r, v), r = PROGRAM_COUNTER => v # Uninit
  PROVE  registers' = RegisterSet(registers, r, v)
<1>1. PICK w \in IF r = PROGRAM_COUNTER THEN Denotes(v) ELSE {v} :
        registers' = [[registers EXCEPT ![r] = w]
                        EXCEPT ![PROGRAM_COUNTER] = Wrap(@ + 1)]
  BY DEF SetAndAdvance
<1>2. w = v
  BY <1>1, KnownDenotesItself
<1> QED
  BY <1>1, <1>2 DEF RegisterSet

LEMMA GoOnce ==
  ASSUME NEW a, Goto({a})
  PROVE  registers' = CounterSet(registers, a)
BY DEF Goto, CounterSet

LEMMA GoToLabel ==
  ASSUME NEW label, LabelSites(code, label) # {}, job \in Jobs,
         Goto(LookupLabelAddress(label))
  PROVE  registers' = CounterSet(registers, LabelAddress(code, label))
BY LabelHasOneAddress DEF Goto, CounterSet

(* A step that is not open has one outcome. *)
LEMMA StepIsDetermined ==
  ASSUME TypeOK, Next, ~IsOpen(code, registers, stack)
  PROVE  /\ status = "running"
         /\ Configuration(registers', stack', status') = After(code, registers, stack)
<1>job. job \in Jobs
  BY DEF TypeOK
<1>op. ASSUME NEW opc, Executing(opc)
       PROVE  pc \in Addresses(code) /\ current.opc = opc /\ status = "running"
  BY <1>op DEF Executing
<1>open. ~IsOpen(code, registers, stack)
  OBVIOUS
<1>1. CASE Move
  <2>1. current.opc = "MOVE" /\ pc \in Addresses(code) /\ status = "running"
    BY <1>1, <1>op DEF Move
  <2>2. current.arg2 = PROGRAM_COUNTER => registers[current.arg1] # Uninit
    BY <2>1, <1>open DEF IsOpen, current, pc
  <2>3. registers' = RegisterSet(registers, current.arg2, registers[current.arg1])
    BY <1>1, <2>2, SetOnce DEF Move
  <2>4. registers' = RegistersAfter(code, current, registers, stack)
    BY <2>1, <2>3 DEF RegistersAfter
  <2>5. StatusAfter(current, registers) = "running"
    BY <2>1 DEF StatusAfter
  <2> QED
    BY <1>1, <2>1, <2>4, <2>5, AfterOperation DEF Move, SetAndAdvance
<1>2. CASE LoadImm
  <2>1. current.opc = "LOADIMM" /\ pc \in Addresses(code) /\ status = "running"
    BY <1>2, <1>op DEF LoadImm
  <2>2. current.arg1 # Uninit
    BY <1>job, <2>1, CurrentType, UninitIsNoWord
  <2>3. registers' = RegisterSet(registers, current.arg2, current.arg1)
    BY <1>2, <2>2, SetOnce DEF LoadImm
  <2>4. registers' = RegistersAfter(code, current, registers, stack)
    BY <2>1, <2>3 DEF RegistersAfter
  <2>5. StatusAfter(current, registers) = "running"
    BY <2>1 DEF StatusAfter
  <2> QED
    BY <1>2, <2>1, <2>4, <2>5, AfterOperation DEF LoadImm, SetAndAdvance
<1>3. CASE Add
  <2>1. current.opc = "ADD" /\ pc \in Addresses(code) /\ status = "running"
    BY <1>3, <1>op DEF Add
  <2>2. current.arg1 = PROGRAM_COUNTER =>
          Plus(registers[current.arg1], registers[current.arg2]) # Uninit
    <3>1. SUFFICES ASSUME current.arg1 = PROGRAM_COUNTER
                   PROVE  Plus(pc, registers[current.arg2]) # Uninit
      BY DEF pc
    <3>2. registers[current.arg2] # Uninit
      BY <2>1, <3>1, <1>open DEF IsOpen, current, pc
    <3>3. registers[current.arg2] \in Word
      BY <1>job, <2>1, <3>2, OperandsAllocated
         DEF TypeOK, Value, RegisterOperands, TwoRegisters
    <3>4. Plus(pc, registers[current.arg2]) \in Word
      BY <3>3, WrapType, UninitIsNoWord DEF TypeOK, Plus
    <3> QED
      BY <3>4, UninitIsNoWord
  <2>3. registers' = RegisterSet(registers, current.arg1,
                         Plus(registers[current.arg1], registers[current.arg2]))
    BY <1>3, <2>2, SetOnce DEF Add
  <2>4. registers' = RegistersAfter(code, current, registers, stack)
    BY <2>1, <2>3 DEF RegistersAfter
  <2>5. StatusAfter(current, registers) = "running"
    BY <2>1 DEF StatusAfter
  <2> QED
    BY <1>3, <2>1, <2>4, <2>5, AfterOperation DEF Add, SetAndAdvance
<1>4. CASE Sub
  <2>1. current.opc = "SUB" /\ pc \in Addresses(code) /\ status = "running"
    BY <1>4, <1>op DEF Sub
  <2>2. current.arg1 = PROGRAM_COUNTER =>
          Minus(registers[current.arg1], registers[current.arg2]) # Uninit
    <3>1. SUFFICES ASSUME current.arg1 = PROGRAM_COUNTER
                   PROVE  Minus(pc, registers[current.arg2]) # Uninit
      BY DEF pc
    <3>2. registers[current.arg2] # Uninit
      BY <2>1, <3>1, <1>open DEF IsOpen, current, pc
    <3>3. registers[current.arg2] \in Word
      BY <1>job, <2>1, <3>2, OperandsAllocated
         DEF TypeOK, Value, RegisterOperands, TwoRegisters
    <3>4. Minus(pc, registers[current.arg2]) \in Word
      BY <3>3, WrapType, UninitIsNoWord DEF TypeOK, Minus
    <3> QED
      BY <3>4, UninitIsNoWord
  <2>3. registers' = RegisterSet(registers, current.arg1,
                         Minus(registers[current.arg1], registers[current.arg2]))
    BY <1>4, <2>2, SetOnce DEF Sub
  <2>4. registers' = RegistersAfter(code, current, registers, stack)
    BY <2>1, <2>3 DEF RegistersAfter
  <2>5. StatusAfter(current, registers) = "running"
    BY <2>1 DEF StatusAfter
  <2> QED
    BY <1>4, <2>1, <2>4, <2>5, AfterOperation DEF Sub, SetAndAdvance
<1>5. CASE Load
  <2>1. current.opc = "LOAD" /\ pc \in Addresses(code) /\ status = "running"
    BY <1>5, <1>op DEF Load
  <2>2. registers[current.arg1] # Uninit
    BY <2>1, <1>open DEF IsOpen, current, pc
  <2>3. registers[current.arg1] \in Word
    BY <1>job, <2>1, <2>2, OperandsAllocated
       DEF TypeOK, Value, RegisterOperands, TwoRegisters
  <2>4. /\ registers[current.arg1] \in DOMAIN stack
        /\ SetAndAdvance(current.arg2, stack[registers[current.arg1]])
    BY <1>5, <2>2, KnownDenotesItself DEF Load
  <2>5. current.arg2 = PROGRAM_COUNTER => stack[registers[current.arg1]] # Uninit
    BY <2>1, <2>4, <1>open DEF IsOpen, current, pc
  <2>6. registers' = RegisterSet(registers, current.arg2, stack[registers[current.arg1]])
    BY <2>4, <2>5, SetOnce
  <2>7. registers' = RegistersAfter(code, current, registers, stack)
    BY <2>1, <2>6 DEF RegistersAfter
  <2>8. StatusAfter(current, registers) = "running"
    BY <2>1, <2>3, <2>4, AccessedOnce DEF StatusAfter
  <2> QED
    BY <1>5, <2>1, <2>4, <2>7, <2>8, AfterOperation DEF Load, SetAndAdvance
<1>6. CASE Store
  <2>1. current.opc = "STORE" /\ pc \in Addresses(code) /\ status = "running"
    BY <1>6, <1>op DEF Store
  <2>2. registers[current.arg2] # Uninit
    BY <2>1, <1>open DEF IsOpen, current, pc
  <2>3. registers[current.arg2] \in Word
    BY <1>job, <2>1, <2>2, OperandsAllocated
       DEF TypeOK, Value, RegisterOperands, TwoRegisters
  <2>4. /\ registers[current.arg2] \in DOMAIN stack
        /\ stack' = [stack EXCEPT ![registers[current.arg2]] = registers[current.arg1]]
    <3>1. PICK a \in Denotes(registers[current.arg2]) \cap DOMAIN stack :
            stack' = [stack EXCEPT ![a] = registers[current.arg1]]
      BY <1>6 DEF Store
    <3>2. a = registers[current.arg2]
      BY <2>2, <3>1, KnownDenotesItself
    <3> QED
      BY <3>1, <3>2
  <2>5. registers' = CounterSet(registers, Wrap(pc + 1))
    BY <1>6 DEF Store, CounterSet, pc
  <2>6. registers' = RegistersAfter(code, current, registers, stack)
    BY <2>1, <2>5 DEF RegistersAfter, pc
  <2>7. StatusAfter(current, registers) = "running"
    BY <2>1, <2>3, <2>4, AccessedOnce DEF StatusAfter
  <2> QED
    BY <1>6, <2>1, <2>4, <2>6, <2>7, AfterOperation DEF Store
<1>7. CASE Jump
  <2>1. current.opc = "JUMP" /\ pc \in Addresses(code) /\ status = "running"
    BY <1>7, <1>op DEF Jump
  <2>2. LabelSites(code, current.arg1) # {}
    BY <2>1, <1>open DEF IsOpen, current, pc
  <2>3. registers' = CounterSet(registers, LabelAddress(code, current.arg1))
    BY <1>7, <1>job, <2>2, GoToLabel DEF Jump
  <2>4. registers' = RegistersAfter(code, current, registers, stack)
    BY <2>1, <2>3 DEF RegistersAfter
  <2>5. StatusAfter(current, registers) = "running"
    BY <2>1 DEF StatusAfter
  <2> QED
    BY <1>7, <2>1, <2>4, <2>5, AfterOperation DEF Jump, Advance, Goto
<1>8. CASE JumpCondTaken
  <2>1. current.opc = "JUMPCOND" /\ pc \in Addresses(code) /\ status = "running"
    BY <1>8, <1>op DEF JumpCondTaken
  <2>2. Contents(current.arg2) # Uninit
    BY <2>1, <1>open DEF IsOpen, Contents, current, pc
  <2>3. GuardFails(Contents(current.arg2))
    BY <1>8, <2>2, KnownDenotesItself DEF JumpCondTaken
  <2>4. LabelSites(code, current.arg1) # {}
    BY <2>1, <2>3, <1>open DEF IsOpen, Contents, current, pc
  <2>5. registers' = CounterSet(registers, LabelAddress(code, current.arg1))
    BY <1>8, <1>job, <2>4, GoToLabel DEF JumpCondTaken
  <2>6. registers' = RegistersAfter(code, current, registers, stack)
    BY <2>1, <2>3, <2>5 DEF RegistersAfter, Contents
  <2>7. StatusAfter(current, registers) = "running"
    BY <2>1 DEF StatusAfter
  <2> QED
    BY <1>8, <2>1, <2>6, <2>7, AfterOperation DEF JumpCondTaken, Advance, Goto
<1>9. CASE JumpCondNotTaken
  <2>1. current.opc = "JUMPCOND" /\ pc \in Addresses(code) /\ status = "running"
    BY <1>9, <1>op DEF JumpCondNotTaken
  <2>2. Contents(current.arg2) # Uninit
    BY <2>1, <1>open DEF IsOpen, Contents, current, pc
  <2>3. ~GuardFails(Contents(current.arg2))
    BY <1>9, <2>2, KnownDenotesItself DEF JumpCondNotTaken
  <2>4. registers' = CounterSet(registers, Wrap(pc + 1))
    BY <1>9, GoOnce DEF JumpCondNotTaken, Advance
  <2>5. registers' = RegistersAfter(code, current, registers, stack)
    BY <2>1, <2>3, <2>4 DEF RegistersAfter, Contents, pc
  <2>6. StatusAfter(current, registers) = "running"
    BY <2>1 DEF StatusAfter
  <2> QED
    BY <1>9, <2>1, <2>5, <2>6, AfterOperation DEF JumpCondNotTaken, Advance, Goto
<1>10. CASE JumpLink
  <2>1. current.opc = "JUMPLINK" /\ pc \in Addresses(code) /\ status = "running"
    BY <1>10, <1>op DEF JumpLink
  <2>2. LabelSites(code, current.arg1) # {}
    BY <2>1, <1>open DEF IsOpen, current, pc
  <2>3. registers' = [registers EXCEPT
                        ![RETURN_ADDRESS]  = Wrap(pc + 1),
                        ![PROGRAM_COUNTER] = LabelAddress(code, current.arg1)]
    BY <1>10, <1>job, <2>2, LabelHasOneAddress DEF JumpLink
  <2>4. registers' = RegistersAfter(code, current, registers, stack)
    BY <2>1, <2>3 DEF RegistersAfter, pc
  <2>5. StatusAfter(current, registers) = "running"
    BY <2>1 DEF StatusAfter
  <2> QED
    BY <1>10, <2>1, <2>4, <2>5, AfterOperation DEF JumpLink
<1>11. CASE JumpAddr
  <2>1. current.opc = "JUMPADDR" /\ pc \in Addresses(code) /\ status = "running"
    BY <1>11, <1>op DEF JumpAddr
  <2>2. registers[current.arg1] # Uninit
    BY <2>1, <1>open DEF IsOpen, current, pc
  <2>3. registers' = CounterSet(registers, registers[current.arg1])
    BY <1>11, <2>2, KnownDenotesItself, GoOnce DEF JumpAddr
  <2>4. registers' = RegistersAfter(code, current, registers, stack)
    BY <2>1, <2>3 DEF RegistersAfter
  <2>5. StatusAfter(current, registers) = "running"
    BY <2>1 DEF StatusAfter
  <2> QED
    BY <1>11, <2>1, <2>4, <2>5, AfterOperation DEF JumpAddr, Advance, Goto
<1>12. CASE Label
  <2>1. current.opc = "LABEL" /\ pc \in Addresses(code) /\ status = "running"
    BY <1>12, <1>op DEF Label
  <2>2. registers' = CounterSet(registers, Wrap(pc + 1))
    BY <1>12, GoOnce DEF Label, Advance
  <2>3. registers' = RegistersAfter(code, current, registers, stack)
    BY <2>1, <2>2 DEF RegistersAfter, pc
  <2>4. StatusAfter(current, registers) = "running"
    BY <2>1 DEF StatusAfter
  <2> QED
    BY <1>12, <2>1, <2>3, <2>4, AfterOperation DEF Label, Advance, Goto
<1>13. CASE Halt
  <2>1. current.opc = "HALT" /\ pc \in Addresses(code) /\ status = "running"
    BY <1>13, <1>op DEF Halt
  <2>2. RegistersAfter(code, current, registers, stack) = registers
    BY <2>1 DEF RegistersAfter
  <2>3. StatusAfter(current, registers) = "halted"
    BY <2>1 DEF StatusAfter
  <2> QED
    BY <1>13, <2>1, <2>2, <2>3 DEF Halt, After, current, pc
<1>14. CASE StackOverflow \/ StackUnderflow
  <2>1. /\ current.opc \in {"LOAD", "STORE"}
        /\ pc \in Addresses(code) /\ status = "running"
    BY <1>14, <1>op DEF StackOverflow, StackUnderflow, AccessingStack
  <2> DEFINE address == registers[AddressRegister]
  <2>2. address # Uninit
    BY <2>1, <1>open DEF IsOpen, AddressRegister, current, pc
  <2>3. AddressRegister \in RegisterFile
    BY <1>job, <2>1, OperandsAllocated
       DEF AddressRegister, RegisterOperands, TwoRegisters
  <2>4. address \in Word
    BY <2>2, <2>3 DEF TypeOK, Value
  <2>5. StatusAfter(current, registers) = Accessed(address)
    BY <2>1 DEF StatusAfter, AddressRegister
  <2>6. \/ address >= StackSize /\ Abort("stack overflow")
        \/ address < 0 /\ Abort("stack underflow")
    BY <1>14, <2>2, KnownDenotesItself DEF StackOverflow, StackUnderflow
  <2> HIDE DEF address
  <2> QED
    BY <2>1, <2>4, <2>5, <2>6, AccessedOnce, AfterError
<1>15. CASE IndexOutOfBounds
  BY <1>15 DEF IndexOutOfBounds, Abort, After, pc
<1> QED
  BY <1>1, <1>2, <1>3, <1>4, <1>5, <1>6, <1>7, <1>8, <1>9, <1>10, <1>11, <1>12,
     <1>13, <1>14, <1>15 DEF Next
----------------------------------------------------------------------------
(* Where the machine gets to.  A piece of code takes it from where a set P of
   configurations says to where Q does, unless it overflows on the way (Takes).  This
   composes, and each operation does so. *)
HIDE DEF STACK_POINTER, FRAME_POINTER, RETURN_ADDRESS, PROGRAM_COUNTER,
         ACCUMULATOR, TEMPORARY

(* The registers that generated code names. *)
Named == {STACK_POINTER, FRAME_POINTER, RETURN_ADDRESS, ACCUMULATOR, TEMPORARY}

Regs(sp, fp, ra, acc, temp) ==
  [r \in Named |-> CASE r = STACK_POINTER  -> sp
                     [] r = FRAME_POINTER  -> fp
                     [] r = RETURN_ADDRESS -> ra
                     [] r = ACCUMULATOR    -> acc
                     [] r = TEMPORARY      -> temp]

LEMMA NamedThere ==
  /\ STACK_POINTER \in Named /\ FRAME_POINTER \in Named /\ RETURN_ADDRESS \in Named
  /\ ACCUMULATOR \in Named /\ TEMPORARY \in Named
BY DEF Named

(* What is known of the registers, one by one. *)
LEMMA RegsThere ==
  ASSUME NEW s, NEW b, NEW c, NEW d, NEW t
  PROVE  /\ Regs(s, b, c, d, t)[STACK_POINTER] = s
         /\ Regs(s, b, c, d, t)[FRAME_POINTER] = b
         /\ Regs(s, b, c, d, t)[RETURN_ADDRESS] = c
         /\ Regs(s, b, c, d, t)[ACCUMULATOR] = d
         /\ Regs(s, b, c, d, t)[TEMPORARY] = t
BY DEF Regs, Named, STACK_POINTER, FRAME_POINTER, RETURN_ADDRESS, ACCUMULATOR, TEMPORARY

LEMMA RegistersThere ==
  /\ Named \subseteq RegisterFile
  /\ PROGRAM_COUNTER \in RegisterFile
  /\ PROGRAM_COUNTER \notin Named
BY NamedRegisters DEF Named, STACK_POINTER, FRAME_POINTER, RETURN_ADDRESS, PROGRAM_COUNTER,
   ACCUMULATOR, TEMPORARY

(* Nothing from INT_MIN up to INT_MAX wraps. *)
LEMMA SmallNumbers ==
  ASSUME NEW x \in Int, -MaxInt - 1 <= x, x <= MaxInt
  PROVE  x \in Word /\ Wrap(x) = x
BY MaxIntAssumption DEF Word, MinInt, Wrap

(* The operations are in the code from the address a on. *)
CodeAt(j, a, ops) ==
  /\ a + Len(ops) <= Len(j.code)
  /\ \A i \in 1 .. Len(ops) : j.code[a + i] = ops[i]

(* One operation of the code. *)
LEMMA OneOperation ==
  ASSUME NEW j, Len(j.code) \in Nat, NEW a \in Nat, NEW op, CodeAt(j, a, <<op>>)
  PROVE  /\ a \in Addresses(j.code)
         /\ OperationAt(j.code, a) = op
<1>1. Len(<<op>>) = 1 /\ <<op>>[1] = op
  OBVIOUS
<1> QED
  BY <1>1 DEF CodeAt, Addresses, OperationAt

(* What the machine may look like, if it has the registers F. *)
Configurations(F) ==
  [registers : [F -> Value], stack : [0 .. StackSize - 1 -> Value], status : Statuses]

(* Where control is at a, the named registers are r, and the stack begins with m. *)
View(F, a, r, m) ==
  {c \in Configurations(F) :
     /\ c.status = "running"
     /\ c.registers[PROGRAM_COUNTER] = a
     /\ \A x \in Named : c.registers[x] = r[x]
     /\ Len(m) <= StackSize
     /\ \A i \in 1 .. Len(m) : c.stack[i - 1] = m[i]}

(* A set that has, with a configuration, also those of which it is the next, and that
   has all that have overflowed. *)
Backwards(j, F, W) ==
  \A c \in Configurations(F) :
    /\ c.status = "stack overflow" => c \in W
    /\ /\ c.status = "running"
       /\ ~IsOpen(j.code, c.registers, c.stack)
       /\ After(j.code, c.registers, c.stack) \in W
       => c \in W

(* From all configurations in P the machine comes to one in Q, or overflows: every set
   that is closed backwards and has Q has them.  The steps need not be counted. *)
Takes(j, F, P, Q) == \A W : Backwards(j, F, W) /\ Q \subseteq W => P \subseteq W

Runnable(j, F) == WellFormed(j) /\ Named \cup {PROGRAM_COUNTER} \subseteq F

(* Ways follow one another, may start from less and end in more. *)
LEMMA TakesThen ==
  ASSUME NEW j, NEW F, NEW P, NEW Q, NEW R, Takes(j, F, P, Q), Takes(j, F, Q, R)
  PROVE  Takes(j, F, P, R)
BY DEF Takes

LEMMA TakesFewer ==
  ASSUME NEW j, NEW F, NEW P, NEW Q, NEW R, NEW S, Takes(j, F, Q, R), P \subseteq Q, R \subseteq S
  PROVE  Takes(j, F, P, S)
BY DEF Takes

LEMMA TakesNothing ==
  ASSUME NEW j, NEW F, NEW P, NEW Q, P \subseteq Q
  PROVE  Takes(j, F, P, Q)
BY DEF Takes

(* One step. *)
LEMMA TakesStep ==
  ASSUME NEW j, NEW F, NEW P, NEW Q, P \subseteq Configurations(F),
         \A c \in P : /\ c.status = "running"
                      /\ ~IsOpen(j.code, c.registers, c.stack)
                      /\ \/ After(j.code, c.registers, c.stack) \in Q
                         \/ /\ After(j.code, c.registers, c.stack) \in Configurations(F)
                            /\ After(j.code, c.registers, c.stack).status = "stack overflow"
  PROVE  Takes(j, F, P, Q)
<1> SUFFICES ASSUME NEW W, Backwards(j, F, W), Q \subseteq W, NEW c \in P
             PROVE  c \in W
  BY DEF Takes
<1>1. After(j.code, c.registers, c.stack) \in W
  BY DEF Backwards
<1> QED
  BY <1>1 DEF Backwards

(* The operation at an address, which has one after it. *)
LEMMA OperationThere ==
  ASSUME NEW j, NEW F, Runnable(j, F), NEW a \in Nat, NEW op, CodeAt(j, a, <<op>>)
  PROVE  /\ a \in Addresses(j.code) /\ OperationAt(j.code, a) = op
         /\ a + 1 \in Word /\ Wrap(a + 1) = a + 1 /\ a \in Word
         /\ op \in ICodeOperation /\ op.arg1 \in Word /\ op.arg2 \in Word
         /\ PROGRAM_COUNTER \in F /\ PROGRAM_COUNTER \notin Named /\ Named \subseteq F
         /\ Word \subseteq Int /\ Uninit \notin Word /\ Word \subseteq Value
<1>1. j.code \in Seq(ICodeOperation) /\ Len(j.code) \in 1 .. MaxInt /\ MaxInt \in Nat
  BY MaxIntAssumption DEF Runnable, WellFormed
<1>2. a \in Addresses(j.code) /\ OperationAt(j.code, a) = op
  BY <1>1, OneOperation
<1>3. a + 1 \in 1 .. Len(j.code)
  BY <1>1, <1>2 DEF Addresses
<1>4. a + 1 \in Word /\ Wrap(a + 1) = a + 1 /\ a \in Word
  BY <1>1, <1>3, SmallNumbers
<1>5. op \in ICodeOperation
  BY <1>1, <1>2, <1>3 DEF OperationAt
<1>6. op.arg1 \in Word /\ op.arg2 \in Word
  BY <1>2 DEF Runnable, WellFormed
<1>7. /\ PROGRAM_COUNTER \in F /\ PROGRAM_COUNTER \notin Named /\ Named \subseteq F
  BY DEF Runnable, Named, STACK_POINTER, FRAME_POINTER, RETURN_ADDRESS, PROGRAM_COUNTER,
         ACCUMULATOR, TEMPORARY
<1>8. Word \subseteq Int /\ Uninit \notin Word /\ Word \subseteq Value
  BY <1>1, UninitIsNoWord DEF Word, Value, MinInt
<1> QED
  BY <1>2, <1>4, <1>5, <1>6, <1>7, <1>8

(* q is r with x set to v. *)
IsPut(q, r, x, v) == q[x] = v /\ \A y \in Named \ {x} : q[y] = r[y]

(* A step that sets a register. *)
LEMMA TakesSetting ==
  ASSUME NEW j, NEW F, Runnable(j, F), NEW a \in Nat, NEW op, CodeAt(j, a, <<op>>),
         NEW r, NEW m, NEW x \in Named, NEW v \in Value, NEW q, IsPut(q, r, x, v),
         op.opc # "STORE",
         \A c \in View(F, a, r, m) :
           /\ ~IsOpen(j.code, c.registers, c.stack)
           /\ StatusAfter(op, c.registers) = "running"
           /\ RegistersAfter(j.code, op, c.registers, c.stack) = RegisterSet(c.registers, x, v)
  PROVE  Takes(j, F, View(F, a, r, m), View(F, a + 1, q, m))
<1>1. ASSUME NEW c \in View(F, a, r, m)
      PROVE  After(j.code, c.registers, c.stack) \in View(F, a + 1, q, m)
  <2>1. /\ a \in Addresses(j.code) /\ OperationAt(j.code, a) = op
        /\ a + 1 \in Word /\ Wrap(a + 1) = a + 1
        /\ PROGRAM_COUNTER \in F /\ PROGRAM_COUNTER \notin Named /\ Named \subseteq F
        /\ Word \subseteq Value
    BY OperationThere
  <2>2. /\ c.registers \in [F -> Value] /\ c.registers[PROGRAM_COUNTER] = a
        /\ c.stack \in [0 .. StackSize - 1 -> Value]
        /\ \A y \in Named : c.registers[y] = r[y]
        /\ Len(m) <= StackSize /\ \A i \in 1 .. Len(m) : c.stack[i - 1] = m[i]
    BY DEF View, Configurations
  <2> DEFINE regs == RegisterSet(c.registers, x, v)
             d == After(j.code, c.registers, c.stack)
  <2>3. d = Configuration(regs, c.stack, "running")
    BY <1>1, <2>1, <2>2 DEF After
  <2>4. regs = [[c.registers EXCEPT ![x] = v] EXCEPT ![PROGRAM_COUNTER] = a + 1]
    BY <2>1, <2>2 DEF RegisterSet
  <2>5. /\ regs \in [F -> Value] /\ regs[PROGRAM_COUNTER] = a + 1 /\ regs[x] = v
        /\ \A y \in Named \ {x} : regs[y] = c.registers[y]
    BY <2>1, <2>2, <2>4
  <2> HIDE DEF regs, d
  <2>6. \A y \in Named : regs[y] = q[y]
    BY <2>2, <2>5 DEF IsPut
  <2>7. d.registers = regs /\ d.stack = c.stack /\ d.status = "running"
    BY <2>3 DEF Configuration
  <2>8. d \in Configurations(F)
    BY <2>2, <2>3, <2>5 DEF Configurations, Configuration, Statuses
  <2>9. d \in View(F, a + 1, q, m)
    BY <2>2, <2>5, <2>6, <2>7, <2>8 DEF View
  <2> QED
    BY <2>9 DEF d
<1>2. /\ View(F, a, r, m) \subseteq Configurations(F)
      /\ \A c \in View(F, a, r, m) : c.status = "running"
  BY DEF View
<1> QED
  BY <1>1, <1>2, TakesStep

(* What a register's name and a view say of the machine. *)
LEMMA Viewed ==
  ASSUME NEW j, NEW F, Runnable(j, F), NEW a \in Nat, NEW op, CodeAt(j, a, <<op>>),
         NEW r, NEW m, NEW c \in View(F, a, r, m)
  PROVE  /\ OperationAt(j.code, c.registers[PROGRAM_COUNTER]) = op
         /\ c.registers[PROGRAM_COUNTER] \in Addresses(j.code)
         /\ \A y \in Named : c.registers[y] = r[y] /\ y \in DOMAIN c.registers
         /\ DOMAIN c.stack = 0 .. StackSize - 1
         /\ \A i \in 1 .. Len(m) : c.stack[i - 1] = m[i]
BY OperationThere DEF View, Configurations

LEMMA ViewedRegister ==
  ASSUME NEW F, NEW a, NEW r, NEW m, NEW c \in View(F, a, r, m), NEW x \in Named
  PROVE  c.registers[x] = r[x]
BY DEF View

(* ----------------------- The operations, one by one --------------------- *)
LEMMA TakesMove ==
  ASSUME NEW j, NEW F, Runnable(j, F), NEW a \in Nat, NEW x \in Named, NEW y \in Named,
         CodeAt(j, a, <<ICodeOperation_init("MOVE", x, y)>>),
         NEW r, NEW m, NEW q, IsPut(q, r, y, r[x]), r[x] \in Value
  PROVE  Takes(j, F, View(F, a, r, m), View(F, a + 1, q, m))
<1> DEFINE op == ICodeOperation_init("MOVE", x, y)
<1>1. op.opc = "MOVE" /\ op.arg1 = x /\ op.arg2 = y
  BY DEF ICodeOperation_init
<1>0. CodeAt(j, a, <<op>>)
  BY DEF op
<1> HIDE DEF op
<1>2. ASSUME NEW c \in View(F, a, r, m)
      PROVE  /\ ~IsOpen(j.code, c.registers, c.stack)
             /\ StatusAfter(op, c.registers) = "running"
             /\ RegistersAfter(j.code, op, c.registers, c.stack)
                  = RegisterSet(c.registers, y, r[x])
  <2>1. OperationAt(j.code, c.registers[PROGRAM_COUNTER]) = op
    BY <1>0, Viewed
  <2>2. y # PROGRAM_COUNTER
    BY RegistersThere
  <2>3. c.registers[x] = r[x]
    BY ViewedRegister
  <2> QED
    BY <1>1, <2>1, <2>2, <2>3 DEF IsOpen, StatusAfter, RegistersAfter
<1>3. CodeAt(j, a, <<op>>) /\ op.opc # "STORE"
  BY <1>0, <1>1
<1> QED
  BY <1>2, <1>3, TakesSetting

LEMMA TakesLoadImm ==
  ASSUME NEW j, NEW F, Runnable(j, F), NEW a \in Nat, NEW n, NEW y \in Named,
         CodeAt(j, a, <<ICodeOperation_init("LOADIMM", n, y)>>),
         NEW r, NEW m, NEW q, IsPut(q, r, y, n)
  PROVE  Takes(j, F, View(F, a, r, m), View(F, a + 1, q, m))
<1> DEFINE op == ICodeOperation_init("LOADIMM", n, y)
<1>1. op.opc = "LOADIMM" /\ op.arg1 = n /\ op.arg2 = y
  BY DEF ICodeOperation_init
<1>0. CodeAt(j, a, <<op>>)
  BY DEF op
<1> HIDE DEF op
<1>2. ASSUME NEW c \in View(F, a, r, m)
      PROVE  /\ ~IsOpen(j.code, c.registers, c.stack)
             /\ StatusAfter(op, c.registers) = "running"
             /\ RegistersAfter(j.code, op, c.registers, c.stack) = RegisterSet(c.registers, y, n)
  <2>1. OperationAt(j.code, c.registers[PROGRAM_COUNTER]) = op
    BY <1>0, Viewed
  <2> QED
    BY <1>1, <2>1 DEF IsOpen, StatusAfter, RegistersAfter
<1>3. CodeAt(j, a, <<op>>) /\ op.opc # "STORE"
  BY <1>0, <1>1
<1>4. n \in Value
  BY <1>1, <1>3, OperationThere
<1> QED
  BY <1>2, <1>3, <1>4, TakesSetting

(* A sum or a difference. *)
Combined(opc, v, w) == IF opc = "ADD" THEN Wrap(v + w) ELSE Wrap(v - w)

LEMMA WrapsToWord ==
  ASSUME NEW v \in Word, NEW w \in Word, NEW opc
  PROVE  Combined(opc, v, w) \in Word
BY MaxIntAssumption DEF Combined, Wrap, Word, MinInt

LEMMA TakesCombining ==
  ASSUME NEW j, NEW F, Runnable(j, F), NEW a \in Nat, NEW opc \in {"ADD", "SUB"},
         NEW x \in Named, NEW y \in Named, CodeAt(j, a, <<ICodeOperation_init(opc, x, y)>>),
         NEW r, NEW m, r[x] \in Word, r[y] \in Word,
         NEW q, IsPut(q, r, x, Combined(opc, r[x], r[y]))
  PROVE  Takes(j, F, View(F, a, r, m), View(F, a + 1, q, m))
<1> DEFINE op == ICodeOperation_init(opc, x, y)
<1>1. op.opc = opc /\ op.arg1 = x /\ op.arg2 = y
  BY DEF ICodeOperation_init
<1>0. CodeAt(j, a, <<op>>)
  BY DEF op
<1> HIDE DEF op
<1>2. ASSUME NEW c \in View(F, a, r, m)
      PROVE  /\ ~IsOpen(j.code, c.registers, c.stack)
             /\ StatusAfter(op, c.registers) = "running"
             /\ RegistersAfter(j.code, op, c.registers, c.stack)
                  = RegisterSet(c.registers, x, Combined(opc, r[x], r[y]))
  <2>1. OperationAt(j.code, c.registers[PROGRAM_COUNTER]) = op
    BY <1>0, Viewed
  <2>4. c.registers[x] = r[x] /\ c.registers[y] = r[y]
    BY ViewedRegister
  <2>2. x # PROGRAM_COUNTER
    BY RegistersThere
  <2>3. /\ Plus(r[x], r[y]) = Wrap(r[x] + r[y]) /\ Minus(r[x], r[y]) = Wrap(r[x] - r[y])
    BY UninitIsNoWord DEF Plus, Minus
  <2> QED
    BY <1>1, <2>1, <2>2, <2>3, <2>4 DEF IsOpen, StatusAfter, RegistersAfter, Combined
<1>3. CodeAt(j, a, <<op>>) /\ op.opc # "STORE"
  BY <1>0, <1>1
<1>4. Combined(opc, r[x], r[y]) \in Value
  BY WrapsToWord DEF Value
<1> QED
  BY <1>2, <1>3, <1>4, TakesSetting

LEMMA TakesLoad ==
  ASSUME NEW j, NEW F, Runnable(j, F), NEW a \in Nat, NEW x \in Named, NEW y \in Named,
         CodeAt(j, a, <<ICodeOperation_init("LOAD", x, y)>>),
         NEW r, NEW m \in Seq(Word), NEW i \in 1 .. Len(m), r[x] = i - 1,
         NEW q, IsPut(q, r, y, m[i])
  PROVE  Takes(j, F, View(F, a, r, m), View(F, a + 1, q, m))
<1> DEFINE op == ICodeOperation_init("LOAD", x, y)
<1>1. op.opc = "LOAD" /\ op.arg1 = x /\ op.arg2 = y
  BY DEF ICodeOperation_init
<1>0. CodeAt(j, a, <<op>>)
  BY DEF op
<1> HIDE DEF op
<1>2. ASSUME NEW c \in View(F, a, r, m)
      PROVE  /\ ~IsOpen(j.code, c.registers, c.stack)
             /\ StatusAfter(op, c.registers) = "running"
             /\ RegistersAfter(j.code, op, c.registers, c.stack)
                  = RegisterSet(c.registers, y, m[i])
  <2>1. /\ OperationAt(j.code, c.registers[PROGRAM_COUNTER]) = op
        /\ \A k \in 1 .. Len(m) : c.stack[k - 1] = m[k]
    BY <1>0, Viewed
  <2>11. c.registers[x] = r[x]
    BY ViewedRegister
  <2>2. y # PROGRAM_COUNTER
    BY RegistersThere
  <2>3. PICK h : h = i - 1
    OBVIOUS
  <2>4. h \in 0 .. StackSize - 1
    <3>1. Len(m) <= StackSize /\ Len(m) \in Nat /\ StackSize \in Nat
      BY StackSizeAssumption, MaxIntAssumption DEF View
    <3> QED
      BY <2>3, <3>1
  <2>10. h # Uninit
    BY <2>4, UninitAssumption
  <2>5. c.registers[x] = h /\ c.stack[h] = m[i]
    BY <2>1, <2>3, <2>11
  <2>6. Accessed(h) = "running"
    BY <2>4, StackSizeAssumption, MaxIntAssumption DEF Accessed
  <2>7. ~IsOpen(j.code, c.registers, c.stack)
    BY <1>1, <2>1, <2>2, <2>5, <2>10 DEF IsOpen
  <2>8. StatusAfter(op, c.registers) = "running"
    BY <1>1, <2>5, <2>6 DEF StatusAfter
  <2>9. RegistersAfter(j.code, op, c.registers, c.stack) = RegisterSet(c.registers, y, m[i])
    BY <1>1, <2>5 DEF RegistersAfter
  <2> QED
    BY <2>7, <2>8, <2>9
<1>3. CodeAt(j, a, <<op>>) /\ op.opc # "STORE"
  BY <1>0, <1>1
<1>4. m[i] \in Value
  BY DEF Value
<1> QED
  BY <1>2, <1>3, <1>4, TakesSetting

(* A store: below the end of what is known of the stack, or at its end. *)
StoredAt(m, n, i, v) ==
  /\ n \in Seq(Word) /\ n[i] = v
  /\ \A k \in 1 .. Len(m) : k # i => n[k] = m[k]
  /\ \/ i \in 1 .. Len(m) /\ Len(n) = Len(m)
     \/ i = Len(m) + 1 /\ Len(n) = i

LEMMA TakesStore ==
  ASSUME NEW j, NEW F, Runnable(j, F), NEW a \in Nat, NEW x \in Named, NEW y \in Named,
         CodeAt(j, a, <<ICodeOperation_init("STORE", x, y)>>),
         NEW r, NEW m \in Seq(Word), NEW i \in Nat \ {0}, r[y] = i - 1, r[x] \in Word,
         NEW n, StoredAt(m, n, i, r[x])
  PROVE  Takes(j, F, View(F, a, r, m), View(F, a + 1, r, n))
<1> DEFINE op == ICodeOperation_init("STORE", x, y)
<1>1. op.opc = "STORE" /\ op.arg1 = x /\ op.arg2 = y
  BY DEF ICodeOperation_init
<1> HIDE DEF op
<1>2. PICK h : h = i - 1
  OBVIOUS
<1>3. h \in Nat /\ h # Uninit /\ i = h + 1 /\ Len(m) \in Nat /\ StackSize \in Nat
  BY <1>2, UninitAssumption, StackSizeAssumption, MaxIntAssumption
<1>4. CodeAt(j, a, <<op>>)
  BY DEF op
<1>5. ASSUME NEW c \in View(F, a, r, m)
      PROVE  /\ ~IsOpen(j.code, c.registers, c.stack)
             /\ \/ After(j.code, c.registers, c.stack) \in View(F, a + 1, r, n)
                \/ /\ After(j.code, c.registers, c.stack) \in Configurations(F)
                   /\ After(j.code, c.registers, c.stack).status = "stack overflow"
  <2>1. /\ OperationAt(j.code, c.registers[PROGRAM_COUNTER]) = op
        /\ c.registers[PROGRAM_COUNTER] \in Addresses(j.code)
        /\ \A z \in Named : c.registers[z] = r[z]
        /\ \A k \in 1 .. Len(m) : c.stack[k - 1] = m[k]
    BY <1>4, Viewed
  <2>2. /\ c.registers \in [F -> Value] /\ c.registers[PROGRAM_COUNTER] = a
        /\ c.stack \in [0 .. StackSize - 1 -> Value] /\ Len(m) <= StackSize
    BY DEF View, Configurations
  <2>3. /\ a + 1 \in Word /\ Wrap(a + 1) = a + 1
        /\ PROGRAM_COUNTER \in F /\ PROGRAM_COUNTER \notin Named /\ Named \subseteq F
        /\ Word \subseteq Value
    BY <1>4, OperationThere
  <2>4. c.registers[y] = h /\ c.registers[x] = r[x]
    BY <1>2, <2>1
  <2>5. ~IsOpen(j.code, c.registers, c.stack)
    BY <1>1, <1>3, <2>1, <2>4 DEF IsOpen
  <2> DEFINE d == After(j.code, c.registers, c.stack)
  <2>6. CASE h >= StackSize
    <3>0. Accessed(h) = "stack overflow"
      BY <1>3, <2>6 DEF Accessed
    <3>1. StatusAfter(op, c.registers) = "stack overflow"
      BY <1>1, <2>4, <3>0 DEF StatusAfter
    <3>2. d = Configuration(c.registers, c.stack, "stack overflow")
      BY <2>1, <3>1 DEF After
    <3> HIDE DEF d
    <3>3. d \in Configurations(F) /\ d.status = "stack overflow"
      BY <2>2, <3>2 DEF Configurations, Configuration, Statuses
    <3> QED
      BY <2>5, <3>3 DEF d
  <2>7. CASE h < StackSize
    <3>1. h \in 0 .. StackSize - 1
      BY <1>3, <2>7
    <3>2. Accessed(h) = "running"
      BY <1>3, <3>1 DEF Accessed
    <3>20. StatusAfter(op, c.registers) = "running"
      BY <1>1, <2>4, <3>2 DEF StatusAfter
    <3> DEFINE regs == CounterSet(c.registers, a + 1)
               cells == [c.stack EXCEPT ![h] = r[x]]
    <3>3. RegistersAfter(j.code, op, c.registers, c.stack) = regs
      BY <1>1, <2>2, <2>3 DEF RegistersAfter
    <3>4. d = Configuration(regs, cells, "running")
      BY <1>1, <2>1, <2>4, <3>20, <3>3 DEF After
    <3>5. /\ regs \in [F -> Value] /\ regs[PROGRAM_COUNTER] = a + 1
          /\ \A z \in Named : regs[z] = r[z]
      BY <2>1, <2>2, <2>3 DEF CounterSet
    <3>6. /\ cells \in [0 .. StackSize - 1 -> Value] /\ cells[h] = r[x]
          /\ \A k \in 0 .. StackSize - 1 : k # h => cells[k] = c.stack[k]
      BY <2>2, <2>3, <3>1
    <3> HIDE DEF regs, cells, d
    <3>7. Len(n) \in Nat /\ Len(n) <= StackSize /\ (Len(n) = Len(m) \/ (Len(n) = i /\ i = Len(m) + 1))
      BY <1>3, <2>2, <2>7 DEF StoredAt
    <3>8. ASSUME NEW k \in 1 .. Len(n)
          PROVE  cells[k - 1] = n[k]
      <4>1. CASE k = i
        BY <1>2, <3>6, <4>1 DEF StoredAt
      <4>2. CASE k # i
        <5>1. k \in 1 .. Len(m) /\ k - 1 \in 0 .. StackSize - 1 /\ k - 1 # h
          BY <1>2, <1>3, <3>7, <4>2
        <5>2. cells[k - 1] = c.stack[k - 1] /\ c.stack[k - 1] = m[k]
          BY <2>1, <3>6, <5>1
        <5> QED
          BY <4>2, <5>1, <5>2 DEF StoredAt
      <4> QED
        BY <4>1, <4>2
    <3>9. d.registers = regs /\ d.stack = cells /\ d.status = "running" /\ d \in Configurations(F)
      BY <3>4, <3>5, <3>6 DEF Configuration, Configurations, Statuses
    <3>10. d \in View(F, a + 1, r, n)
      BY <3>5, <3>7, <3>8, <3>9 DEF View
    <3> QED
      BY <2>5, <3>10 DEF d
  <2>8. h >= StackSize \/ h < StackSize
    BY <1>3
  <2> QED
    BY <2>6, <2>7, <2>8
<1>6. /\ View(F, a, r, m) \subseteq Configurations(F)
      /\ \A c \in View(F, a, r, m) : c.status = "running"
  BY DEF View
<1> QED
  BY <1>5, <1>6, TakesStep

(* A step that goes elsewhere, and may leave the return address. *)
SetsAndGoes(j, P, op, x, v, b) ==
  \A c \in P :
    /\ ~IsOpen(j.code, c.registers, c.stack)
    /\ StatusAfter(op, c.registers) = "running"
    /\ RegistersAfter(j.code, op, c.registers, c.stack)
         = [c.registers EXCEPT ![x] = v, ![PROGRAM_COUNTER] = b]

LEMMA TakesGoing ==
  ASSUME NEW j, NEW F, Runnable(j, F), NEW a \in Nat, NEW op, CodeAt(j, a, <<op>>),
         NEW r, NEW m, NEW b \in Word, op.opc # "STORE",
         NEW x \in Named, NEW v \in Value, NEW q, IsPut(q, r, x, v),
         SetsAndGoes(j, View(F, a, r, m), op, x, v, b)
  PROVE  Takes(j, F, View(F, a, r, m), View(F, b, q, m))
<1>0. \A c \in View(F, a, r, m) :
        /\ ~IsOpen(j.code, c.registers, c.stack)
        /\ StatusAfter(op, c.registers) = "running"
        /\ RegistersAfter(j.code, op, c.registers, c.stack)
             = [c.registers EXCEPT ![x] = v, ![PROGRAM_COUNTER] = b]
  BY DEF SetsAndGoes
<1>1. ASSUME NEW c \in View(F, a, r, m)
      PROVE  After(j.code, c.registers, c.stack) \in View(F, b, q, m)
  <2>1. /\ a \in Addresses(j.code) /\ OperationAt(j.code, a) = op
        /\ PROGRAM_COUNTER \in F /\ PROGRAM_COUNTER \notin Named /\ Named \subseteq F
        /\ Word \subseteq Value
    BY OperationThere
  <2>2. /\ c.registers \in [F -> Value] /\ c.registers[PROGRAM_COUNTER] = a
        /\ c.stack \in [0 .. StackSize - 1 -> Value]
        /\ \A y \in Named : c.registers[y] = r[y]
        /\ Len(m) <= StackSize /\ \A i \in 1 .. Len(m) : c.stack[i - 1] = m[i]
    BY DEF View, Configurations
  <2> DEFINE regs == [c.registers EXCEPT ![x] = v, ![PROGRAM_COUNTER] = b]
             d == After(j.code, c.registers, c.stack)
  <2>3. d = Configuration(regs, c.stack, "running")
    BY <1>0, <2>1, <2>2 DEF After
  <2>5. /\ regs \in [F -> Value] /\ regs[PROGRAM_COUNTER] = b /\ regs[x] = v
        /\ \A y \in Named \ {x} : regs[y] = c.registers[y]
    BY <2>1, <2>2
  <2> HIDE DEF regs, d
  <2>6. \A y \in Named : regs[y] = q[y]
    BY <2>2, <2>5 DEF IsPut
  <2>7. d.registers = regs /\ d.stack = c.stack /\ d.status = "running"
    BY <2>3 DEF Configuration
  <2>8. d \in Configurations(F)
    BY <2>2, <2>3, <2>5 DEF Configurations, Configuration, Statuses
  <2>9. d \in View(F, b, q, m)
    BY <2>2, <2>5, <2>6, <2>7, <2>8 DEF View
  <2> QED
    BY <2>9 DEF d
<1>2. /\ View(F, a, r, m) \subseteq Configurations(F)
      /\ \A c \in View(F, a, r, m) : c.status = "running"
  BY DEF View
<1> QED
  BY <1>0, <1>1, <1>2, TakesStep

(* A jump changes the program counter only. *)
LEMMA TakesJump ==
  ASSUME NEW j, NEW F, Runnable(j, F), NEW a \in Nat, NEW op, CodeAt(j, a, <<op>>),
         NEW r, NEW m, NEW b \in Word, r[RETURN_ADDRESS] \in Value,
         op.opc \notin {"STORE", "JUMPLINK"},
         \A c \in View(F, a, r, m) :
           /\ ~IsOpen(j.code, c.registers, c.stack)
           /\ StatusAfter(op, c.registers) = "running"
           /\ RegistersAfter(j.code, op, c.registers, c.stack) = CounterSet(c.registers, b)
  PROVE  Takes(j, F, View(F, a, r, m), View(F, b, r, m))
<1> DEFINE ra == r[RETURN_ADDRESS]
<1>1. IsPut(r, r, RETURN_ADDRESS, ra) /\ RETURN_ADDRESS \in Named
  BY NamedThere DEF IsPut
<1>2. ASSUME NEW c \in View(F, a, r, m)
      PROVE  CounterSet(c.registers, b)
               = [c.registers EXCEPT ![RETURN_ADDRESS] = ra, ![PROGRAM_COUNTER] = b]
  <2>1. c.registers \in [F -> Value] /\ c.registers[RETURN_ADDRESS] = ra
    BY NamedThere DEF View, Configurations
  <2>2. [c.registers EXCEPT ![RETURN_ADDRESS] = ra] = c.registers
    BY <2>1
  <2> QED
    BY <2>2 DEF CounterSet
<1>3. SetsAndGoes(j, View(F, a, r, m), op, RETURN_ADDRESS, ra, b)
  BY <1>2 DEF SetsAndGoes
<1> QED
  BY <1>1, <1>3, TakesGoing

(* A label's address. *)
LEMMA LabelThere ==
  ASSUME NEW j, NEW F, Runnable(j, F), NEW n, NEW b, LabelSites(j.code, n) = {b}
  PROVE  LabelAddress(j.code, n) = b /\ b \in Word /\ b \in Nat
<1>1. Len(j.code) \in 1 .. MaxInt /\ MaxInt \in Nat
  BY MaxIntAssumption DEF Runnable, WellFormed
<1>2. b \in Addresses(j.code)
  BY DEF LabelSites
<1>3. b \in Word /\ b \in Nat
  BY <1>1, <1>2, SmallNumbers DEF Addresses
<1>4. b <= b
  BY <1>3
<1> QED
  BY <1>3, <1>4 DEF LabelAddress

LEMMA TakesGoto ==
  ASSUME NEW j, NEW F, Runnable(j, F), NEW a \in Nat, NEW n, NEW k,
         CodeAt(j, a, <<ICodeOperation_init("JUMP", n, k)>>),
         NEW b, LabelSites(j.code, n) = {b}, NEW r, NEW m, r[RETURN_ADDRESS] \in Value
  PROVE  Takes(j, F, View(F, a, r, m), View(F, b, r, m))
<1> DEFINE op == ICodeOperation_init("JUMP", n, k)
<1>1. op.opc = "JUMP" /\ op.arg1 = n
  BY DEF ICodeOperation_init
<1> HIDE DEF op
<1>2. b \in Word /\ LabelAddress(j.code, n) = b
  BY LabelThere
<1>3. CodeAt(j, a, <<op>>)
  BY DEF op
<1>4. ASSUME NEW c \in View(F, a, r, m)
      PROVE  /\ ~IsOpen(j.code, c.registers, c.stack)
             /\ StatusAfter(op, c.registers) = "running"
             /\ RegistersAfter(j.code, op, c.registers, c.stack) = CounterSet(c.registers, b)
  <2>1. OperationAt(j.code, c.registers[PROGRAM_COUNTER]) = op
    BY <1>3, Viewed
  <2> QED
    BY <1>1, <1>2, <2>1 DEF IsOpen, StatusAfter, RegistersAfter
<1> QED
  BY <1>1, <1>2, <1>3, <1>4, TakesJump

(* The test of a guard. *)
LEMMA TakesTest ==
  ASSUME NEW j, NEW F, Runnable(j, F), NEW a \in Nat, NEW n, NEW x \in Named,
         CodeAt(j, a, <<ICodeOperation_init("JUMPCOND", n, x)>>),
         NEW b, LabelSites(j.code, n) = {b}, NEW r, NEW m, r[RETURN_ADDRESS] \in Value,
         r[x] \in Word
  PROVE  Takes(j, F, View(F, a, r, m), View(F, IF GuardFails(r[x]) THEN b ELSE a + 1, r, m))
<1> DEFINE op == ICodeOperation_init("JUMPCOND", n, x)
           d == IF GuardFails(r[x]) THEN b ELSE a + 1
<1>1. op.opc = "JUMPCOND" /\ op.arg1 = n /\ op.arg2 = x
  BY DEF ICodeOperation_init
<1> HIDE DEF op
<1>2. b \in Word /\ LabelAddress(j.code, n) = b
  BY LabelThere
<1>3. CodeAt(j, a, <<op>>)
  BY DEF op
<1>4. a + 1 \in Word /\ Wrap(a + 1) = a + 1 /\ Uninit \notin Word
  BY <1>3, OperationThere
<1>5. ASSUME NEW c \in View(F, a, r, m)
      PROVE  /\ ~IsOpen(j.code, c.registers, c.stack)
             /\ StatusAfter(op, c.registers) = "running"
             /\ RegistersAfter(j.code, op, c.registers, c.stack) = CounterSet(c.registers, d)
  <2>1. OperationAt(j.code, c.registers[PROGRAM_COUNTER]) = op
    BY <1>3, Viewed
  <2>2. c.registers[PROGRAM_COUNTER] = a
    BY DEF View
  <2>3. c.registers[x] = r[x] /\ x \in DOMAIN c.registers
    BY <1>3, Viewed
  <2> QED
    BY <1>1, <1>2, <1>4, <2>1, <2>2, <2>3 DEF IsOpen, StatusAfter, RegistersAfter
<1>6. d \in Word
  BY <1>2, <1>4
<1> HIDE DEF d
<1>7. Takes(j, F, View(F, a, r, m), View(F, d, r, m))
  BY <1>1, <1>3, <1>5, <1>6, TakesJump
<1> QED
  BY <1>7 DEF d

LEMMA TakesCall ==
  ASSUME NEW j, NEW F, Runnable(j, F), NEW a \in Nat, NEW n, NEW k,
         CodeAt(j, a, <<ICodeOperation_init("JUMPLINK", n, k)>>),
         NEW b, LabelSites(j.code, n) = {b}, NEW r, NEW m,
         NEW q, IsPut(q, r, RETURN_ADDRESS, a + 1)
  PROVE  Takes(j, F, View(F, a, r, m), View(F, b, q, m))
<1> DEFINE op == ICodeOperation_init("JUMPLINK", n, k)
<1>1. op.opc = "JUMPLINK" /\ op.arg1 = n
  BY DEF ICodeOperation_init
<1> HIDE DEF op
<1>2. b \in Word /\ LabelAddress(j.code, n) = b
  BY LabelThere
<1>3. CodeAt(j, a, <<op>>)
  BY DEF op
<1>4. a + 1 \in Value /\ Wrap(a + 1) = a + 1
  BY <1>3, OperationThere
<1>5. ASSUME NEW c \in View(F, a, r, m)
      PROVE  /\ ~IsOpen(j.code, c.registers, c.stack)
             /\ StatusAfter(op, c.registers) = "running"
             /\ RegistersAfter(j.code, op, c.registers, c.stack)
                  = [c.registers EXCEPT ![RETURN_ADDRESS] = a + 1, ![PROGRAM_COUNTER] = b]
  <2>1. OperationAt(j.code, c.registers[PROGRAM_COUNTER]) = op
    BY <1>3, Viewed
  <2>2. c.registers[PROGRAM_COUNTER] = a
    BY DEF View
  <2> QED
    BY <1>1, <1>2, <1>4, <2>1, <2>2 DEF IsOpen, StatusAfter, RegistersAfter
<1>6. op.opc # "STORE" /\ RETURN_ADDRESS \in Named
  BY <1>1, NamedThere
<1>7. SetsAndGoes(j, View(F, a, r, m), op, RETURN_ADDRESS, a + 1, b)
  BY <1>5 DEF SetsAndGoes
<1> QED
  BY <1>2, <1>3, <1>4, <1>6, <1>7, TakesGoing

LEMMA TakesReturn ==
  ASSUME NEW j, NEW F, Runnable(j, F), NEW a \in Nat, NEW x \in Named, NEW k,
         CodeAt(j, a, <<ICodeOperation_init("JUMPADDR", x, k)>>),
         NEW r, NEW m, r[x] \in Word, r[RETURN_ADDRESS] \in Value
  PROVE  Takes(j, F, View(F, a, r, m), View(F, r[x], r, m))
<1> DEFINE op == ICodeOperation_init("JUMPADDR", x, k)
<1>1. op.opc = "JUMPADDR" /\ op.arg1 = x
  BY DEF ICodeOperation_init
<1> HIDE DEF op
<1>3. CodeAt(j, a, <<op>>)
  BY DEF op
<1>4. ASSUME NEW c \in View(F, a, r, m)
      PROVE  /\ ~IsOpen(j.code, c.registers, c.stack)
             /\ StatusAfter(op, c.registers) = "running"
             /\ RegistersAfter(j.code, op, c.registers, c.stack) = CounterSet(c.registers, r[x])
  <2>1. OperationAt(j.code, c.registers[PROGRAM_COUNTER]) = op
    BY <1>3, Viewed
  <2>2. c.registers[x] = r[x]
    BY ViewedRegister
  <2> QED
    BY <1>1, <2>1, <2>2, UninitIsNoWord DEF IsOpen, StatusAfter, RegistersAfter
<1> QED
  BY <1>1, <1>3, <1>4, TakesJump

LEMMA TakesLabel ==
  ASSUME NEW j, NEW F, Runnable(j, F), NEW a \in Nat, NEW n, NEW k,
         CodeAt(j, a, <<ICodeOperation_init("LABEL", n, k)>>),
         NEW r, NEW m, r[RETURN_ADDRESS] \in Value
  PROVE  Takes(j, F, View(F, a, r, m), View(F, a + 1, r, m))
<1> DEFINE op == ICodeOperation_init("LABEL", n, k)
<1>1. op.opc = "LABEL"
  BY DEF ICodeOperation_init
<1> HIDE DEF op
<1>3. CodeAt(j, a, <<op>>)
  BY DEF op
<1>4. a + 1 \in Word /\ Wrap(a + 1) = a + 1
  BY <1>3, OperationThere
<1>5. ASSUME NEW c \in View(F, a, r, m)
      PROVE  /\ ~IsOpen(j.code, c.registers, c.stack)
             /\ StatusAfter(op, c.registers) = "running"
             /\ RegistersAfter(j.code, op, c.registers, c.stack) = CounterSet(c.registers, a + 1)
  <2>1. OperationAt(j.code, c.registers[PROGRAM_COUNTER]) = op
    BY <1>3, Viewed
  <2>2. c.registers[PROGRAM_COUNTER] = a
    BY DEF View
  <2> QED
    BY <1>1, <1>4, <2>1, <2>2 DEF IsOpen, StatusAfter, RegistersAfter
<1> QED
  BY <1>1, <1>3, <1>4, <1>5, TakesJump

(* -------------------------- Between operations -------------------------- *)
(* Where a function is between two pieces of code: m is on the stack, of which
   the end is the stack pointer. *)
State(F, a, m, fp, ra) ==
  UNION {View(F, a, Regs(Len(m), fp, ra, p[1], p[2]), m) : p \in Value \X Value}

(* The same, with v in the accumulator. *)
Having(F, a, m, fp, ra, v) ==
  UNION {View(F, a, Regs(Len(m), fp, ra, v, t), m) : t \in Value}

(* What is shown for every accumulator and temporary is shown for a State. *)
LEMMA TakesEach ==
  ASSUME NEW j, NEW F, NEW PP, NEW Q, \A P \in PP : Takes(j, F, P, Q)
  PROVE  Takes(j, F, UNION PP, Q)
BY DEF Takes

LEMMA HavingIsState ==
  ASSUME NEW F, NEW a, NEW m, NEW fp, NEW ra, NEW v \in Value
  PROVE  Having(F, a, m, fp, ra, v) \subseteq State(F, a, m, fp, ra)
<1> SUFFICES ASSUME NEW t \in Value
             PROVE  View(F, a, Regs(Len(m), fp, ra, v, t), m) \subseteq State(F, a, m, fp, ra)
  BY DEF Having
<1>1. <<v, t>> \in Value \X Value /\ <<v, t>>[1] = v /\ <<v, t>>[2] = t
  OBVIOUS
<1> QED
  BY <1>1 DEF State

LEMMA ViewIsState ==
  ASSUME NEW F, NEW a, NEW m, NEW fp, NEW ra, NEW acc \in Value, NEW t \in Value
  PROVE  /\ View(F, a, Regs(Len(m), fp, ra, acc, t), m) \subseteq State(F, a, m, fp, ra)
         /\ View(F, a, Regs(Len(m), fp, ra, acc, t), m) \subseteq Having(F, a, m, fp, ra, acc)
<1>1. View(F, a, Regs(Len(m), fp, ra, acc, t), m) \subseteq Having(F, a, m, fp, ra, acc)
  BY DEF Having
<1> QED
  BY <1>1, HavingIsState

LEMMA EmptyView ==
  ASSUME NEW j, NEW F, NEW a, NEW r, NEW m, NEW Q,
         Len(m) <= StackSize => Takes(j, F, View(F, a, r, m), Q)
  PROVE  Takes(j, F, View(F, a, r, m), Q)
<1>1. CASE ~(Len(m) <= StackSize)
  <2>1. View(F, a, r, m) \subseteq Q
    BY <1>1 DEF View
  <2> QED
    BY <2>1, TakesNothing
<1> QED
  BY <1>1

LEMMA FromState ==
  ASSUME NEW j, NEW F, NEW a, NEW m, NEW fp, NEW ra, NEW Q,
         \A acc \in Value, t \in Value :
           Len(m) <= StackSize => Takes(j, F, View(F, a, Regs(Len(m), fp, ra, acc, t), m), Q)
  PROVE  Takes(j, F, State(F, a, m, fp, ra), Q)
<1> DEFINE PP == {View(F, a, Regs(Len(m), fp, ra, p[1], p[2]), m) : p \in Value \X Value}
<1>1. ASSUME NEW acc \in Value, NEW t \in Value
      PROVE  Takes(j, F, View(F, a, Regs(Len(m), fp, ra, acc, t), m), Q)
  BY EmptyView
<1>2. \A P \in PP : Takes(j, F, P, Q)
  BY <1>1
<1> QED
  BY <1>2, TakesEach DEF State

LEMMA FromHaving ==
  ASSUME NEW j, NEW F, NEW a, NEW m, NEW fp, NEW ra, NEW v, NEW Q,
         \A t \in Value :
           Len(m) <= StackSize => Takes(j, F, View(F, a, Regs(Len(m), fp, ra, v, t), m), Q)
  PROVE  Takes(j, F, Having(F, a, m, fp, ra, v), Q)
<1> DEFINE PP == {View(F, a, Regs(Len(m), fp, ra, v, t), m) : t \in Value}
<1>0. ASSUME NEW t \in Value
      PROVE  Takes(j, F, View(F, a, Regs(Len(m), fp, ra, v, t), m), Q)
  BY EmptyView
<1>1. \A P \in PP : Takes(j, F, P, Q)
  BY <1>0
<1> QED
  BY <1>1, TakesEach DEF Having

(* Setting one register leaves the others. *)
LEMMA RegsPut ==
  ASSUME NEW sp, NEW fp, NEW ra, NEW acc, NEW t, NEW v
  PROVE  /\ IsPut(Regs(v, fp, ra, acc, t), Regs(sp, fp, ra, acc, t), STACK_POINTER, v)
         /\ IsPut(Regs(sp, v, ra, acc, t), Regs(sp, fp, ra, acc, t), FRAME_POINTER, v)
         /\ IsPut(Regs(sp, fp, v, acc, t), Regs(sp, fp, ra, acc, t), RETURN_ADDRESS, v)
         /\ IsPut(Regs(sp, fp, ra, v, t), Regs(sp, fp, ra, acc, t), ACCUMULATOR, v)
         /\ IsPut(Regs(sp, fp, ra, acc, v), Regs(sp, fp, ra, acc, t), TEMPORARY, v)
BY DEF IsPut, Regs, Named, STACK_POINTER, FRAME_POINTER, RETURN_ADDRESS, ACCUMULATOR, TEMPORARY

(* Three or four operations, one after the other. *)
LEMMA ThreeAt ==
  ASSUME NEW j, Len(j.code) \in Nat, NEW x, NEW y, NEW z, NEW a \in Nat,
         CodeAt(j, a, <<x, y, z>>)
  PROVE  CodeAt(j, a, <<x>>) /\ CodeAt(j, a + 1, <<y>>) /\ CodeAt(j, a + 2, <<z>>)
         /\ a + 3 <= Len(j.code)
<1>1. /\ Len(<<x, y, z>>) = 3 /\ <<x, y, z>>[1] = x /\ <<x, y, z>>[2] = y /\ <<x, y, z>>[3] = z
  OBVIOUS
<1>2. a + 3 <= Len(j.code) /\ j.code[a + 1] = x /\ j.code[a + 2] = y /\ j.code[a + 3] = z
  BY <1>1 DEF CodeAt
<1>3. ASSUME NEW b \in Nat, NEW op, b + 1 <= Len(j.code), j.code[b + 1] = op
      PROVE  CodeAt(j, b, <<op>>)
  BY <1>3 DEF CodeAt
<1>4. CodeAt(j, a, <<x>>)
  BY <1>2, <1>3
<1>5. PICK b \in Nat : b = a + 1
  OBVIOUS
<1>6. CodeAt(j, b, <<y>>)
  <2>1. b + 1 = a + 2
    BY <1>5
  <2> QED
    BY <1>2, <1>3, <2>1
<1>7. PICK c \in Nat : c = a + 2
  OBVIOUS
<1>8. CodeAt(j, c, <<z>>)
  <2>1. c + 1 = a + 3
    BY <1>7
  <2> QED
    BY <1>2, <1>3, <2>1
<1> QED
  BY <1>2, <1>4, <1>5, <1>6, <1>7, <1>8

LEMMA FourAt ==
  ASSUME NEW j, Len(j.code) \in Nat, NEW x, NEW y, NEW z, NEW u, NEW a \in Nat,
         CodeAt(j, a, <<x, y, z, u>>)
  PROVE  CodeAt(j, a, <<x, y, z>>) /\ CodeAt(j, a + 3, <<u>>)
<1>1. /\ Len(<<x, y, z, u>>) = 4 /\ <<x, y, z, u>>[1] = x /\ <<x, y, z, u>>[2] = y
      /\ <<x, y, z, u>>[3] = z /\ <<x, y, z, u>>[4] = u
      /\ Len(<<x, y, z>>) = 3 /\ <<x, y, z>>[1] = x /\ <<x, y, z>>[2] = y /\ <<x, y, z>>[3] = z
      /\ Len(<<u>>) = 1 /\ <<u>>[1] = u
  OBVIOUS
<1>2. /\ a + 4 <= Len(j.code) /\ j.code[a + 1] = x /\ j.code[a + 2] = y /\ j.code[a + 3] = z
      /\ j.code[a + 4] = u
  BY <1>1 DEF CodeAt
<1>3. CodeAt(j, a, <<x, y, z>>)
  <2>1. \A i \in 1 .. 3 : i = 1 \/ i = 2 \/ i = 3
    OBVIOUS
  <2> QED
    BY <1>1, <1>2, <2>1 DEF CodeAt
<1>4. PICK b \in Nat : b = a + 3 /\ b + 1 = a + 4
  OBVIOUS
<1>5. CodeAt(j, b, <<u>>)
  <2>1. \A i \in 1 .. 1 : i = 1
    OBVIOUS
  <2> QED
    BY <1>1, <1>2, <1>4, <2>1 DEF CodeAt
<1> QED
  BY <1>3, <1>4, <1>5

(* Numbers the registers hold. *)
LEMMA Numbers ==
  ASSUME NEW j, NEW F, Runnable(j, F)
  PROVE  /\ Len(j.code) \in Nat /\ MaxInt \in Nat /\ StackSize \in Nat /\ StackSize <= MaxInt
         /\ Word \subseteq Value /\ Word \subseteq Int
         /\ \A n \in Int : -MaxInt - 1 <= n /\ n <= MaxInt => n \in Word /\ Wrap(n) = n
<1>1. Len(j.code) \in 1 .. MaxInt /\ MaxInt \in Nat
  BY MaxIntAssumption DEF Runnable, WellFormed
<1>2. StackSize \in Nat /\ StackSize <= MaxInt
  BY <1>1, StackSizeAssumption
<1>3. Word \subseteq Value /\ Word \subseteq Int
  BY <1>1 DEF Word, Value, MinInt
<1> QED
  BY <1>1, <1>2, <1>3, SmallNumbers

(* ------------------------------ Executions ------------------------------ *)
(* Where an execution is to end. *)
Done(F, v) == {c \in Configurations(F) : c.status = "halted" /\ c.registers[ACCUMULATOR] = v}

LEMMA HavingHalts ==
  ASSUME NEW j, NEW F, Runnable(j, F), NEW a \in Nat, NEW x, NEW y,
         CodeAt(j, a, <<ICodeOperation_init("HALT", x, y)>>),
         NEW m, NEW fp, NEW ra, NEW v
  PROVE  Takes(j, F, Having(F, a, m, fp, ra, v), Done(F, v))
<1> DEFINE op == ICodeOperation_init("HALT", x, y)
<1>1. op.opc = "HALT"
  BY DEF ICodeOperation_init
<1> HIDE DEF op
<1>2. CodeAt(j, a, <<op>>)
  BY DEF op
<1>3. ASSUME NEW t \in Value
      PROVE  Takes(j, F, View(F, a, Regs(Len(m), fp, ra, v, t), m), Done(F, v))
  <2> DEFINE r == Regs(Len(m), fp, ra, v, t)
  <2>1. r[ACCUMULATOR] = v
    BY RegsThere
  <2> HIDE DEF r
  <2>2. ASSUME NEW c \in View(F, a, r, m)
        PROVE  ~IsOpen(j.code, c.registers, c.stack)
               /\ After(j.code, c.registers, c.stack) \in Done(F, v)
    <3>1. /\ OperationAt(j.code, c.registers[PROGRAM_COUNTER]) = op
          /\ c.registers[PROGRAM_COUNTER] \in Addresses(j.code)
          /\ c.registers[ACCUMULATOR] = r[ACCUMULATOR]
      BY <1>2, Viewed, NamedThere
    <3>2. c.registers \in [F -> Value] /\ c.stack \in [0 .. StackSize - 1 -> Value]
      BY DEF View, Configurations
    <3>3. ~IsOpen(j.code, c.registers, c.stack)
      BY <1>1, <3>1 DEF IsOpen
    <3>4. StatusAfter(op, c.registers) = "halted"
      BY <1>1 DEF StatusAfter
    <3>5. RegistersAfter(j.code, op, c.registers, c.stack) = c.registers
      BY <1>1 DEF RegistersAfter
    <3>6. After(j.code, c.registers, c.stack) = Configuration(c.registers, c.stack, "halted")
      BY <1>1, <3>1, <3>4, <3>5 DEF After
    <3>7. Configuration(c.registers, c.stack, "halted") \in Done(F, v)
      BY <2>1, <3>1, <3>2 DEF Configuration, Configurations, Done, Statuses
    <3> QED
      BY <3>3, <3>6, <3>7
  <2>3. /\ View(F, a, r, m) \subseteq Configurations(F)
        /\ \A c \in View(F, a, r, m) : c.status = "running"
    BY DEF View
  <2>4. Takes(j, F, View(F, a, r, m), Done(F, v))
    BY <2>2, <2>3, TakesStep
  <2> QED
    BY <2>4 DEF r
<1> QED
  BY <1>3, FromHaving

(* From c the machine comes to where the execution is to end, or overflows. *)
Arrives(j, F, c, v) == \A W : Backwards(j, F, W) /\ Done(F, v) \subseteq W => c \in W

(* Then it does so from the next configuration, *)
LEMMA NextArrives ==
  ASSUME NEW j, NEW F, NEW v, NEW c \in Configurations(F), Arrives(j, F, c, v),
         c.status = "running", ~IsOpen(j.code, c.registers, c.stack),
         NEW d, d = After(j.code, c.registers, c.stack)
  PROVE  Arrives(j, F, d, v)
<1> SUFFICES ASSUME NEW W, Backwards(j, F, W), Done(F, v) \subseteq W, d \notin W
             PROVE  FALSE
  BY DEF Arrives
<1> DEFINE V == W \ {c}
<1>1. Done(F, v) \subseteq V
  BY DEF Done
<1>2. ASSUME NEW x \in Configurations(F), x.status = "running",
             ~IsOpen(j.code, x.registers, x.stack), After(j.code, x.registers, x.stack) \in V
      PROVE  x \in V
  <2>1. x \in W
    BY <1>2 DEF Backwards
  <2>2. x # c
    BY <1>2
  <2> QED
    BY <2>1, <2>2
<1>3. ASSUME NEW x \in Configurations(F), x.status = "stack overflow"
      PROVE  x \in V
  BY <1>3 DEF Backwards
<1>4. Backwards(j, F, V)
  BY <1>2, <1>3 DEF Backwards
<1>5. c \in V
  BY <1>1, <1>4 DEF Arrives
<1> QED
  BY <1>5

(* and where the machine has halted it was to end. *)
LEMMA HaltedArrived ==
  ASSUME NEW j, NEW F, NEW v, NEW c \in Configurations(F), Arrives(j, F, c, v),
         c.status = "halted"
  PROVE  c.registers[ACCUMULATOR] = v
<1> DEFINE W == Configurations(F) \ {c}
<1>1. Backwards(j, F, W)
  BY DEF Backwards
<1>2. c \in Done(F, v)
  <2> SUFFICES ASSUME c \notin Done(F, v) PROVE FALSE
    OBVIOUS
  <2>1. Done(F, v) \subseteq W
    BY DEF Done
  <2>2. c \in W
    BY <1>1, <2>1 DEF Arrives
  <2> QED
    BY <2>2
<1> QED
  BY <1>2 DEF Done
=============================================================================
