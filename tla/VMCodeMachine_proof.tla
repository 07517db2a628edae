------------------------- MODULE VMCodeMachine_proof -------------------------
(***************************************************************************)
(* The VMCode interpreter implements the icode interpreter, for every set  *)
(* of jobs, stack size and width of the machine's int.                     *)
(*                                                                         *)
(* The proof has two halves.  The types that ICodeMachine_proof shows of   *)
(* the icode machine are those of the state this machine maps to, so they  *)
(* need not be shown again; and under these types a step of this machine   *)
(* is the step of that one, because the cell it reads is the operation     *)
(* that one reads.                                                         *)
(***************************************************************************)
EXTENDS VMCodeMachine, TLAPS

(* ICodeMachine again, under the same mapping and with its theorems. *)
Proved == INSTANCE ICodeMachine_proof WITH status <- StatusOf

USE DEF STACK_POINTER, FRAME_POINTER, RETURN_ADDRESS, PROGRAM_COUNTER, TEMPORARY,
        ICodeState!STACK_POINTER, ICodeState!FRAME_POINTER,
        ICodeState!RETURN_ADDRESS, ICodeState!PROGRAM_COUNTER,
        ICodeState!TEMPORARY,
        Proved!STACK_POINTER, Proved!FRAME_POINTER, Proved!RETURN_ADDRESS,
        Proved!PROGRAM_COUNTER, Proved!TEMPORARY

----------------------------------------------------------------------------
(* The two instances of ICodeMachine say the same: their constant operators
   are equal, ... *)
LEMMA SameConstants ==
  /\ Proved!Word = ICodeState!Word
  /\ Proved!Value = ICodeState!Value
  /\ Proved!ICodeOperation = ICodeState!ICodeOperation
BY DEF Proved!Word, ICodeState!Word, Proved!MinInt, ICodeState!MinInt,
       Proved!Value, ICodeState!Value, Proved!ICodeOperation,
       ICodeState!ICodeOperation, Proved!Opcode, ICodeState!Opcode

LEMMA SameOperators ==
  /\ \A c : Proved!Addresses(c) = ICodeState!Addresses(c)
  /\ \A c, a : Proved!OperationAt(c, a) = ICodeState!OperationAt(c, a)
  /\ \A op : Proved!RegisterOperands(op) = ICodeState!RegisterOperands(op)
  /\ \A n : Proved!Wrap(n) = ICodeState!Wrap(n)
<1>1. \A c : Proved!Addresses(c) = ICodeState!Addresses(c)
  BY DEF Proved!Addresses, ICodeState!Addresses
<1>2. \A c, a : Proved!OperationAt(c, a) = ICodeState!OperationAt(c, a)
  BY DEF Proved!OperationAt, ICodeState!OperationAt
<1>3. \A op : Proved!RegisterOperands(op) = ICodeState!RegisterOperands(op)
  BY DEF Proved!RegisterOperands, ICodeState!RegisterOperands,
         Proved!TwoRegisters, ICodeState!TwoRegisters
<1>4. \A n : Proved!Wrap(n) = ICodeState!Wrap(n)
  BY DEF Proved!Wrap, ICodeState!Wrap, Proved!MinInt, ICodeState!MinInt
<1> QED
  BY <1>1, <1>2, <1>3, <1>4

LEMMA SameArithmetic ==
  /\ \A v : Proved!Denotes(v) = ICodeState!Denotes(v)
  /\ \A v, w : Proved!Plus(v, w) = ICodeState!Plus(v, w)
  /\ \A v, w : Proved!Minus(v, w) = ICodeState!Minus(v, w)
  /\ \A v : Proved!GuardFails(v) = ICodeState!GuardFails(v)
BY SameConstants, SameOperators
   DEF Proved!Denotes, ICodeState!Denotes, Proved!Plus, ICodeState!Plus,
       Proved!Minus, ICodeState!Minus, Proved!GuardFails, ICodeState!GuardFails

(* ... so are the assumptions, ... *)
LEMMA SameAssumptions == \A j \in Jobs : Proved!WellFormed(j)
BY VMJobsAssumption, SameConstants, SameOperators
   DEF Proved!WellFormed, ICodeState!WellFormed

(* ... what they read of the state, ... *)
LEMMA SameState ==
  /\ Proved!code = ICodeState!code
  /\ Proved!pc = ICodeState!pc
  /\ Proved!current = ICodeState!current
  /\ \A opc : Proved!Executing(opc) = ICodeState!Executing(opc)
  /\ \A r : Proved!Contents(r) = ICodeState!Contents(r)
  /\ \A label :
       Proved!LookupLabelAddress(label) = ICodeState!LookupLabelAddress(label)
<1>1. /\ Proved!code = ICodeState!code
      /\ Proved!pc = ICodeState!pc
      /\ Proved!current = ICodeState!current
  BY SameOperators
     DEF Proved!code, ICodeState!code, Proved!pc, ICodeState!pc,
         Proved!current, ICodeState!current
<1>2. \A opc : Proved!Executing(opc) = ICodeState!Executing(opc)
  BY <1>1, SameOperators DEF Proved!Executing, ICodeState!Executing
<1>3. \A r : Proved!Contents(r) = ICodeState!Contents(r)
  BY DEF Proved!Contents, ICodeState!Contents
<1>4. \A label : Proved!LabelSites(Proved!code, label)
                   = ICodeState!LabelSites(ICodeState!code, label)
  BY <1>1, SameOperators DEF Proved!LabelSites, ICodeState!LabelSites
<1>5. \A label :
        Proved!LookupLabelAddress(label) = ICodeState!LookupLabelAddress(label)
  BY <1>4, SameConstants
     DEF Proved!LookupLabelAddress, ICodeState!LookupLabelAddress
<1> QED
  BY <1>1, <1>2, <1>3, <1>5

LEMMA SameFile ==
  /\ Proved!RegisterFile = ICodeState!RegisterFile
  /\ Proved!HasNegativeLabel = ICodeState!HasNegativeLabel
<1>1. Proved!ScannedRegisters = ICodeState!ScannedRegisters
  BY SameState, SameOperators
     DEF ICodeState!ScannedRegisters, Proved!ScannedRegisters
<1>2. Proved!RegisterFile = ICodeState!RegisterFile
  BY <1>1 DEF ICodeState!RegisterFile, Proved!RegisterFile
<1>3. Proved!HasNegativeLabel = ICodeState!HasNegativeLabel
  BY SameState, SameOperators
     DEF Proved!HasNegativeLabel, ICodeState!HasNegativeLabel
<1> QED
  BY <1>2, <1>3

(* ... and their types, initial states and steps. *)
LEMMA SameTypes == Proved!TypeOK <=> ICodeState!TypeOK
BY SameFile, SameConstants, SameState
   DEF ICodeState!TypeOK, Proved!TypeOK, Proved!Statuses, ICodeState!Statuses

LEMMA SameInit == ICodeState!Init => Proved!Init
<1>1. Proved!initial_stack = ICodeState!initial_stack
  BY DEF Proved!initial_stack, ICodeState!initial_stack
<1>2. Proved!InitialRegisters = ICodeState!InitialRegisters
  BY <1>1, SameFile DEF Proved!InitialRegisters, ICodeState!InitialRegisters
<1>3. Proved!InitialStack = ICodeState!InitialStack
  BY <1>1 DEF Proved!InitialStack, ICodeState!InitialStack
<1> QED
  BY <1>2, <1>3, SameFile DEF Proved!Init, ICodeState!Init

LEMMA SameNext == [ICodeState!Next]_(ICodeState!vars) => [Proved!Next]_(Proved!vars)
<1>1. \A r, v : ICodeState!SetAndAdvance(r, v) <=> Proved!SetAndAdvance(r, v)
  BY SameOperators, SameArithmetic
     DEF ICodeState!SetAndAdvance, Proved!SetAndAdvance
<1>2. \A a : ICodeState!Goto(a) <=> Proved!Goto(a)
  BY DEF ICodeState!Goto, Proved!Goto
<1>3. ICodeState!Advance <=> Proved!Advance
  BY <1>2, SameState, SameOperators DEF ICodeState!Advance, Proved!Advance
<1>4. \A error : ICodeState!Abort(error) <=> Proved!Abort(error)
  BY DEF ICodeState!Abort, Proved!Abort
<1>5. ICodeState!Move \/ ICodeState!LoadImm <=> Proved!Move \/ Proved!LoadImm
  BY <1>1, SameState DEF ICodeState!Move, Proved!Move, ICodeState!LoadImm,
                         Proved!LoadImm
<1>6. ICodeState!Add \/ ICodeState!Sub <=> Proved!Add \/ Proved!Sub
  BY <1>1, SameState, SameArithmetic
     DEF ICodeState!Add, Proved!Add, ICodeState!Sub, Proved!Sub
<1>7. ICodeState!Load <=> Proved!Load
  BY <1>1, SameState, SameArithmetic DEF ICodeState!Load, Proved!Load
<1>8. ICodeState!Store <=> Proved!Store
  BY SameState, SameArithmetic, SameOperators DEF ICodeState!Store, Proved!Store
<1>9. ICodeState!Jump <=> Proved!Jump
  BY <1>2, SameState DEF ICodeState!Jump, Proved!Jump
<1>10. ICodeState!JumpCondTaken <=> Proved!JumpCondTaken
  BY <1>2, SameState, SameArithmetic
     DEF ICodeState!JumpCondTaken, Proved!JumpCondTaken
<1>11. ICodeState!JumpCondNotTaken <=> Proved!JumpCondNotTaken
  BY <1>3, SameState, SameArithmetic
     DEF ICodeState!JumpCondNotTaken, Proved!JumpCondNotTaken
<1>12. ICodeState!JumpLink <=> Proved!JumpLink
  BY SameState, SameOperators DEF ICodeState!JumpLink, Proved!JumpLink
<1>13. ICodeState!JumpAddr <=> Proved!JumpAddr
  BY <1>2, SameState, SameArithmetic DEF ICodeState!JumpAddr, Proved!JumpAddr
<1>14. ICodeState!Label \/ ICodeState!Halt <=> Proved!Label \/ Proved!Halt
  BY <1>3, SameState DEF ICodeState!Label, Proved!Label, ICodeState!Halt, Proved!Halt
<1>15. ICodeState!AccessingStack <=> Proved!AccessingStack
  BY SameState DEF ICodeState!AccessingStack, Proved!AccessingStack
<1>16. ICodeState!AddressRegister = Proved!AddressRegister
  BY SameState DEF ICodeState!AddressRegister, Proved!AddressRegister
<1>17. ICodeState!StackOverflow <=> Proved!StackOverflow
  BY <1>4, <1>15, <1>16, SameArithmetic
     DEF ICodeState!StackOverflow, Proved!StackOverflow
<1>18. ICodeState!StackUnderflow <=> Proved!StackUnderflow
  BY <1>4, <1>15, <1>16, SameArithmetic
     DEF ICodeState!StackUnderflow, Proved!StackUnderflow
<1>19. ICodeState!IndexOutOfBounds <=> Proved!IndexOutOfBounds
  BY <1>4, SameState, SameOperators
     DEF ICodeState!IndexOutOfBounds, Proved!IndexOutOfBounds
<1>20. ICodeState!Next <=> Proved!Next
  BY <1>5, <1>6, <1>7, <1>8, <1>9, <1>10, <1>11, <1>12, <1>13, <1>14, <1>17,
     <1>18, <1>19 DEF ICodeState!Next, Proved!Next
<1> QED
  BY <1>20 DEF ICodeState!vars, Proved!vars

(* So the types of the icode machine are kept. *)
LEMMA TypesAtFirst == ICodeState!Init => ICodeState!TypeOK
BY Proved!InitType, SameInit, SameTypes, SameAssumptions, VMMaxIntAssumption,
   VMUninitAssumption, VMStackSizeAssumption

LEMMA TypesAreKept ==
  ICodeState!TypeOK /\ [ICodeState!Next]_(ICodeState!vars) => (ICodeState!TypeOK)'
<1>1. Proved!TypeOK /\ [Proved!Next]_(Proved!vars) => (Proved!TypeOK)'
  BY Proved!StepType, SameAssumptions, VMMaxIntAssumption, VMUninitAssumption,
     VMStackSizeAssumption
<1>2. (Proved!TypeOK)' <=> (ICodeState!TypeOK)'
  BY SameTypes, PTL
<1> QED
  BY <1>1, <1>2, SameTypes, SameNext

----------------------------------------------------------------------------
(* The three cells that are read are the operation at the program counter: a
   program counter is inside the array exactly when it is inside the code. *)
LEMMA CellOfOperation ==
  ASSUME NEW pc \in Int, NEW len \in Nat, NEW cell \in {0, 1, 2}
  PROVE  /\ pc * 12 \in 0 .. 12 * len - 1 <=> pc \in 0 .. len - 1
         /\ pc \in 0 .. len - 1 => pc * 12 + cell \in 0 .. 12 * len - 1
         /\ (pc * 12 + cell) \div 12 = pc
         /\ (pc * 12 + cell) % 12 = cell
OBVIOUS

LEMMA CodeIsFinite ==
  ASSUME ICodeState!TypeOK
  PROVE  /\ Len(ICodeState!code) \in Nat
         /\ registers[PROGRAM_COUNTER] \in Int
         /\ ICodeState!pc = registers[PROGRAM_COUNTER]
<1>1. job.code \in Seq(ICodeState!ICodeOperation)
  BY VMJobsAssumption DEF ICodeState!TypeOK, ICodeState!WellFormed
<1>2. ICodeState!Word \subseteq Int
  BY VMMaxIntAssumption DEF ICodeState!Word, ICodeState!MinInt
<1>3. Len(job.code) \in Nat
  <2> DEFINE S == ICodeState!ICodeOperation
  <2> HIDE DEF S
  <2> QED
    BY <1>1 DEF S
<1> QED
  BY <1>2, <1>3 DEF ICodeState!TypeOK, ICodeState!pc, ICodeState!code

LEMMA FetchedIsCurrent ==
  ASSUME ICodeState!TypeOK, Fetching
  PROVE  /\ ICodeState!pc \in ICodeState!Addresses(ICodeState!code)
         /\ OPC = ICodeState!current.opc
         /\ ARG1 = ICodeState!current.arg1
         /\ ARG2 = ICodeState!current.arg2
<1> DEFINE PC  == registers[PROGRAM_COUNTER]
           len == Len(ICodeState!code)
           Laid(i) == LET op == OperationAt(ICodeState!code, i \div 12)
                      IN  CASE i % 12 = 0 -> op.opc
                            [] i % 12 = 1 -> op.arg1
                            [] i % 12 = 2 -> op.arg2
                            [] OTHER      -> Uninit
<1>1. PC \in Int /\ len \in Nat /\ ICodeState!pc = PC
  BY CodeIsFinite
<1>2. vmcode = [i \in 0 .. 12 * len - 1 |-> Laid(i)]
  BY DEF vmcode, VMCodeGen, VMCode_instruction_size
<1>3. PC * 12 \in 0 .. 12 * len - 1
  BY <1>2 DEF Fetching, VMCode_instruction_size
<1>4. PC \in 0 .. len - 1
  BY <1>1, <1>3, CellOfOperation
<1>5. ASSUME NEW cell \in {0, 1, 2}
      PROVE  Cell(cell) = Laid(PC * 12 + cell)
  <2>1. PC * 12 + cell \in 0 .. 12 * len - 1
    BY <1>1, <1>4, CellOfOperation
  <2> HIDE DEF Laid, len, PC
  <2>2. vmcode[PC * 12 + cell] = Laid(PC * 12 + cell)
    BY <1>2, <2>1
  <2> QED
    BY <2>2 DEF Cell, VMCode_instruction_size, PC
<1>6. OperationAt(ICodeState!code, PC) = ICodeState!current
  BY <1>1 DEF OperationAt, ICodeState!OperationAt, ICodeState!current
<1>7. ASSUME NEW cell \in {0, 1, 2}
      PROVE  /\ (PC * 12 + cell) \div 12 = PC
             /\ (PC * 12 + cell) % 12 = cell
  BY <1>1, CellOfOperation
<1> HIDE DEF PC
<1>8. Laid(PC * 12 + 0) = ICodeState!current.opc
  BY <1>6, <1>7
<1>9. Laid(PC * 12 + 1) = ICodeState!current.arg1
  BY <1>6, <1>7
<1>10. Laid(PC * 12 + 2) = ICodeState!current.arg2
  BY <1>6, <1>7
<1>11. ICodeState!pc \in ICodeState!Addresses(ICodeState!code)
  BY <1>1, <1>4 DEF ICodeState!Addresses
<1> HIDE DEF Laid
<1> QED
  BY <1>5, <1>8, <1>9, <1>10, <1>11 DEF OPC, ARG1, ARG2

(* What a step depends on is a word. *)
LEMMA WordsAreDenoted ==
  ASSUME ICodeState!TypeOK, NEW r
  PROVE  /\ ICodeState!Denotes(Contents(r)) \subseteq Int
         /\ r \in ICodeState!RegisterFile =>
              ICodeState!Denotes(registers[r]) \subseteq Int
<1>1. ICodeState!Word \subseteq Int
  BY VMMaxIntAssumption DEF ICodeState!Word, ICodeState!MinInt
<1> QED
  BY <1>1 DEF ICodeState!TypeOK, ICodeState!Value, ICodeState!Denotes, Contents,
              ICodeState!Contents

(* The address register of a LOAD or STORE is one the scan has allocated. *)
LEMMA AddressesAreWords ==
  ASSUME ICodeState!TypeOK, Dispatch("LOAD") \/ Dispatch("STORE")
  PROVE  AccessedAddresses \subseteq Int
<1>1. /\ ICodeState!pc \in ICodeState!Addresses(ICodeState!code)
      /\ ICodeState!current.opc \in {"LOAD", "STORE"}
      /\ OPC = ICodeState!current.opc
      /\ ARG1 = ICodeState!current.arg1
      /\ ARG2 = ICodeState!current.arg2
  BY FetchedIsCurrent DEF Dispatch
<1>2. job \in Jobs
  BY DEF ICodeState!TypeOK
<1>3. Proved!RegisterOperands(Proved!current) \subseteq Proved!RegisterFile
  BY <1>1, <1>2, Proved!OperandsAllocated, SameState, SameOperators,
     SameAssumptions, VMMaxIntAssumption, VMUninitAssumption, VMStackSizeAssumption
<1>4. ICodeState!RegisterOperands(ICodeState!current) \subseteq ICodeState!RegisterFile
  BY <1>3, SameState, SameOperators, SameFile
<1>5. {ARG1, ARG2} \subseteq ICodeState!RegisterFile
  BY <1>1, <1>4 DEF ICodeState!RegisterOperands, ICodeState!TwoRegisters
<1> QED
  BY <1>5, WordsAreDenoted DEF AccessedAddresses

(* Where nothing is fetched the icode machine finds no operation either. *)
LEMMA NothingFetched ==
  ASSUME ICodeState!TypeOK, vmstatus = "running", ~Fetching
  PROVE  ICodeState!pc \notin ICodeState!Addresses(ICodeState!code)
<1> DEFINE len == Len(ICodeState!code)
<1>1. registers[PROGRAM_COUNTER] \in Int /\ len \in Nat
      /\ ICodeState!pc = registers[PROGRAM_COUNTER]
  BY CodeIsFinite
<1>2. DOMAIN vmcode = 0 .. 12 * len - 1
  BY DEF vmcode, VMCodeGen, VMCode_instruction_size
<1>3. registers[PROGRAM_COUNTER] * 12 \notin 0 .. 12 * len - 1
  BY <1>2 DEF Fetching, VMCode_instruction_size
<1>4. registers[PROGRAM_COUNTER] \notin 0 .. len - 1
  BY <1>1, <1>3, CellOfOperation
<1> QED
  BY <1>1, <1>4 DEF ICodeState!Addresses

(* A step of the VMCode interpreter is the icode interpreter's on the operation
   at the program counter, and a wild one is its error. *)
LEMMA StepImplements ==
  ICodeState!TypeOK /\ [VMNext]_vmvars => [ICodeState!Next]_(ICodeState!vars)
<1> SUFFICES ASSUME ICodeState!TypeOK, [VMNext]_vmvars
             PROVE  [ICodeState!Next]_(ICodeState!vars)
  OBVIOUS
<1>running. vmstatus = "running" => StatusOf = "running"
  BY DEF StatusOf
<1>same. vmstatus' = vmstatus => StatusOf' = StatusOf
  BY DEF StatusOf
<1>op. ASSUME NEW opc, Dispatch(opc)
       PROVE  /\ ICodeState!Executing(opc)
              /\ ICodeState!current.opc = opc
              /\ ARG1 = ICodeState!current.arg1
              /\ ARG2 = ICodeState!current.arg2
  BY <1>op, <1>running, FetchedIsCurrent
     DEF Dispatch, ICodeState!Executing, Fetching
<1>set. ASSUME NEW r, NEW v, SetAndAdvance(r, v)
        PROVE  ICodeState!SetAndAdvance(r, v)
  BY <1>set, <1>same DEF SetAndAdvance, ICodeState!SetAndAdvance
<1>goto. ASSUME NEW addresses, Goto(addresses)
         PROVE  ICodeState!Goto(addresses)
  BY <1>goto, <1>same DEF Goto, ICodeState!Goto
<1>adv. Advance => ICodeState!Advance
  BY <1>goto DEF Advance, ICodeState!Advance, ICodeState!pc
<1>1. CASE Move
  BY <1>1, <1>op, <1>set DEF Move, ICodeState!Move, ICodeState!Next
<1>2. CASE LoadImm
  BY <1>2, <1>op, <1>set DEF LoadImm, ICodeState!LoadImm, ICodeState!Next
<1>3. CASE Add
  BY <1>3, <1>op, <1>set DEF Add, ICodeState!Add, ICodeState!Next
<1>4. CASE Sub
  BY <1>4, <1>op, <1>set DEF Sub, ICodeState!Sub, ICodeState!Next
<1>5. CASE Load
  BY <1>5, <1>op, <1>set DEF Load, ICodeState!Load, ICodeState!Next
<1>6. CASE Store
  BY <1>6, <1>op, <1>same DEF Store, ICodeState!Store, ICodeState!Next
<1>7. CASE Jump
  BY <1>7, <1>op, <1>goto DEF Jump, ICodeState!Jump, ICodeState!Next
<1>8. CASE JumpCondTaken
  BY <1>8, <1>op, <1>goto
     DEF JumpCondTaken, ICodeState!JumpCondTaken, Contents,
         ICodeState!GuardFails, ICodeState!Next
<1>9. CASE JumpCondNotTaken
  <2>1. PICK v \in ICodeState!Denotes(Contents(ARG2)) : v >= 1
    BY <1>9 DEF JumpCondNotTaken
  <2>2. ~(v < 1)
    BY <2>1, WordsAreDenoted
  <2> QED
    BY <1>9, <2>1, <2>2, <1>op, <1>adv
       DEF JumpCondNotTaken, ICodeState!JumpCondNotTaken, Contents,
           ICodeState!GuardFails, ICodeState!Next
<1>10. CASE JumpLink
  BY <1>10, <1>op, <1>same
     DEF JumpLink, ICodeState!JumpLink, ICodeState!pc, ICodeState!Next
<1>11. CASE JumpAddr
  BY <1>11, <1>op, <1>goto DEF JumpAddr, ICodeState!JumpAddr, ICodeState!Next
<1>12. CASE Label
  BY <1>12, <1>op, <1>adv DEF Label, ICodeState!Label, ICodeState!Next
<1>13. CASE Halt
  <2>1. StatusOf' = "halted"
    BY <1>13 DEF Halt, StatusOf
  <2> QED
    BY <1>13, <2>1, <1>op DEF Halt, ICodeState!Halt, ICodeState!Next
<1>14. CASE WildAccess
  <2>1. PICK opc \in {"LOAD", "STORE"} : Dispatch(opc)
    BY <1>14 DEF WildAccess
  <2>2. ICodeState!AccessingStack
    BY <2>1, <1>op DEF ICodeState!AccessingStack
  <2>3. AccessedAddresses = ICodeState!Denotes(registers[ICodeState!AddressRegister])
    BY <2>1, <1>op
       DEF AccessedAddresses, ICodeState!AddressRegister, Dispatch
  <2>4. PICK a \in AccessedAddresses \ DOMAIN stack :
          GoWild(IF a >= StackSize THEN "wild access above"
                                   ELSE "wild access below")
    BY <1>14 DEF WildAccess
  <2>5. a \in Int /\ a \notin 0 .. StackSize - 1
    BY <2>1, <2>4, AddressesAreWords DEF ICodeState!TypeOK
  <2>6. CASE a >= StackSize
    <3>1. ICodeState!Abort("stack overflow")
      BY <2>4, <2>6 DEF GoWild, ICodeState!Abort, StatusOf
    <3> QED
      BY <2>2, <2>3, <2>4, <2>6, <3>1 DEF ICodeState!StackOverflow, ICodeState!Next
  <2>7. CASE ~(a >= StackSize)
    <3>1. ICodeState!Abort("stack underflow")
      BY <2>4, <2>7 DEF GoWild, ICodeState!Abort, StatusOf
    <3>2. a < 0
      BY <2>5, <2>7, VMStackSizeAssumption, VMMaxIntAssumption
    <3> QED
      BY <2>2, <2>3, <2>4, <3>1, <3>2 DEF ICodeState!StackUnderflow, ICodeState!Next
  <2> QED
    BY <2>6, <2>7
<1>15. CASE WildFetch
  <2>1. ICodeState!Abort("index out of bounds")
    BY <1>15 DEF WildFetch, GoWild, ICodeState!Abort, StatusOf
  <2> QED
    BY <1>15, <2>1, <1>running, NothingFetched
       DEF WildFetch, ICodeState!IndexOutOfBounds, ICodeState!Next
<1>16. CASE UNCHANGED vmvars
  BY <1>16, <1>same DEF vmvars, ICodeState!vars
<1> QED
  BY <1>1, <1>2, <1>3, <1>4, <1>5, <1>6, <1>7, <1>8, <1>9, <1>10, <1>11, <1>12,
     <1>13, <1>14, <1>15, <1>16 DEF VMNext

(* A step that is not open, and is one of the icode interpreter's, has the outcome
   that one has. *)
LEMMA VMStepIsDetermined ==
  ASSUME ICodeState!TypeOK, VMNext,
         ~ICodeState!IsOpen(ICodeState!code, registers, stack),
         ~UNCHANGED ICodeState!vars
  PROVE  /\ vmstatus = "running"
         /\ Proved!Configuration(registers', stack', StatusOf')
              = Proved!After(ICodeState!code, registers, stack)
<1>1. Proved!TypeOK /\ Proved!code = ICodeState!code
  BY SameTypes, SameState
<1>2. Proved!Next
  BY StepImplements, SameNext DEF ICodeState!vars, Proved!vars
<1>3. ~Proved!IsOpen(Proved!code, registers, stack)
  BY <1>1 DEF Proved!IsOpen, ICodeState!IsOpen, Proved!OperationAt,
              ICodeState!OperationAt, Proved!Addresses, ICodeState!Addresses,
              Proved!GuardFails, ICodeState!GuardFails, Proved!LabelSites,
              ICodeState!LabelSites
<1>4. /\ StatusOf = "running"
      /\ Proved!Configuration(registers', stack', StatusOf')
           = Proved!After(Proved!code, registers, stack)
  BY <1>1, <1>2, <1>3, Proved!StepIsDetermined, SameAssumptions,
     VMMaxIntAssumption, VMUninitAssumption, VMStackSizeAssumption
<1>5. vmstatus = "running"
  BY <1>4 DEF StatusOf
<1> QED
  BY <1>1, <1>4, <1>5

LEMMA StatusStep ==
  vmstatus \in VMStatuses /\ [VMNext]_vmvars => vmstatus' \in VMStatuses
<1> SUFFICES ASSUME vmstatus \in VMStatuses, [VMNext]_vmvars
             PROVE  vmstatus' \in VMStatuses
  OBVIOUS
<1>1. CASE WildAccess \/ WildFetch \/ Halt
  BY <1>1 DEF WildAccess, WildFetch, Halt, GoWild, VMStatuses
<1> QED
  BY <1>1 DEF VMNext, vmvars, Move, LoadImm, Add, Sub, Load, Store, Jump,
     JumpCondTaken, JumpCondNotTaken, JumpLink, JumpAddr, Label,
     SetAndAdvance, Goto, Advance

LEMMA VMJobNeverChanges == [VMNext]_vmvars => UNCHANGED job
BY DEF VMNext, vmvars, Move, LoadImm, Add, Sub, Load, Store, Jump, JumpCondTaken,
       JumpCondNotTaken, JumpLink, JumpAddr, Label, Halt, WildAccess, WildFetch,
       SetAndAdvance, Goto, Advance, GoWild

LEMMA InitImplements == VMInit => ICodeState!Init /\ vmstatus \in VMStatuses
BY DEF VMInit, ICodeState!Init, StatusOf, VMStatuses

(* Whatever code it is given, the VMCode interpreter keeps the shape of the
   arrays it took over from the icode interpreter's state. *)
THEOREM VMTypeCorrect == VMSpec => []VMTypeOK
<1>1. VMInit => VMTypeOK
  BY InitImplements, TypesAtFirst DEF VMTypeOK
<1>2. VMTypeOK /\ [VMNext]_vmvars => VMTypeOK'
  BY StepImplements, TypesAreKept, StatusStep DEF VMTypeOK
<1> QED
  BY <1>1, <1>2, PTL DEF VMSpec

(* The VMCode interpreter, which fetches its operations from an array of ints
   and checks nothing, computes what the icode interpreter computes, step by
   step and whatever the code, up to the point where that one reports an error
   (vmcode_interpreter.c:44-115). *)
THEOREM VMCodeImplementsICode == VMSpec => ICodeState!Spec
<1>1. VMInit => ICodeState!Init
  BY InitImplements
<1>2. ICodeState!TypeOK /\ [VMNext]_vmvars => [ICodeState!Next]_(ICodeState!vars)
  BY StepImplements
<1>3. VMTypeOK => ICodeState!TypeOK
  BY DEF VMTypeOK
<1> QED
  BY <1>1, <1>2, <1>3, VMTypeCorrect, PTL DEF VMSpec, ICodeState!Spec
=============================================================================
