----------------------------- MODULE Main_proof -----------------------------
(***************************************************************************)
(* Proofs about main, for every set of command lines: whatever programs    *)
(* and arguments it is given, and whatever the stages make of them.        *)
(*                                                                         *)
(* The two executions are those of the two machines, so what is proved     *)
(* about these is taken over, under the mapping that Main composes them    *)
(* with.                                                                   *)
(***************************************************************************)
EXTENDS Main, Induction, TLAPS

VARIABLE activations   (* the calls of the first execution that are open *)

Icode == INSTANCE ICodeMachine_proof WITH Jobs <- Runnable, job <- cmdline

VM == INSTANCE VMCodeMachine_proof WITH Jobs <- Runnable, job <- cmdline,
                                        vmstatus <- status

----------------------------------------------------------------------------
(* The machines of Main and the ones that the theorems are about are the same:
   when their definitions are expanded they are the same formulas. *)
LEMMA SameStep == ICodeRun!Next <=> Icode!Next
BY DEF ICodeRun!Next, Icode!Next, ICodeRun!Move, Icode!Move, ICodeRun!LoadImm,
    Icode!LoadImm, ICodeRun!Add, Icode!Add, ICodeRun!Sub, Icode!Sub,
    ICodeRun!Load, Icode!Load, ICodeRun!Store, Icode!Store, ICodeRun!Jump,
    Icode!Jump, ICodeRun!JumpCondTaken, Icode!JumpCondTaken,
    ICodeRun!JumpCondNotTaken, Icode!JumpCondNotTaken, ICodeRun!JumpLink,
    Icode!JumpLink, ICodeRun!JumpAddr, Icode!JumpAddr, ICodeRun!Label,
    Icode!Label, ICodeRun!Halt, Icode!Halt, ICodeRun!StackOverflow,
    Icode!StackOverflow, ICodeRun!StackUnderflow, Icode!StackUnderflow,
    ICodeRun!IndexOutOfBounds, Icode!IndexOutOfBounds, ICodeRun!Executing,
    Icode!Executing, ICodeRun!SetAndAdvance, Icode!SetAndAdvance,
    ICodeRun!current, Icode!current, ICodeRun!Plus, Icode!Plus, ICodeRun!Minus,
    Icode!Minus, ICodeRun!Denotes, Icode!Denotes, ICodeRun!PROGRAM_COUNTER,
    Icode!PROGRAM_COUNTER, ICodeRun!Wrap, Icode!Wrap, ICodeRun!Goto,
    Icode!Goto, ICodeRun!LookupLabelAddress, Icode!LookupLabelAddress,
    ICodeRun!Contents, Icode!Contents, ICodeRun!GuardFails, Icode!GuardFails,
    ICodeRun!Advance, Icode!Advance, ICodeRun!RETURN_ADDRESS,
    Icode!RETURN_ADDRESS, ICodeRun!pc, Icode!pc, ICodeRun!AccessingStack,
    Icode!AccessingStack, ICodeRun!AddressRegister, Icode!AddressRegister,
    ICodeRun!Abort, Icode!Abort, ICodeRun!Addresses, Icode!Addresses,
    ICodeRun!code, Icode!code, ICodeRun!OperationAt, Icode!OperationAt,
    ICodeRun!Word, Icode!Word, ICodeRun!MinInt, Icode!MinInt,
    ICodeRun!LabelSites, Icode!LabelSites

LEMMA SameTypes ==
  /\ ICodeRun!TypeOK <=> Icode!TypeOK
  /\ ICodeRun!RegisterFile = Icode!RegisterFile
  /\ ICodeRun!Value = Icode!Value
  /\ ICodeRun!Statuses = Icode!Statuses
BY DEF ICodeRun!TypeOK, Icode!TypeOK, ICodeRun!RegisterFile,
    Icode!RegisterFile, ICodeRun!Value, Icode!Value, ICodeRun!pc, Icode!pc,
    ICodeRun!Word, Icode!Word, ICodeRun!Statuses, Icode!Statuses,
    ICodeRun!ScannedRegisters, Icode!ScannedRegisters,
    ICodeRun!PROGRAM_COUNTER, Icode!PROGRAM_COUNTER, ICodeRun!MinInt,
    Icode!MinInt, ICodeRun!TEMPORARY, Icode!TEMPORARY,
    ICodeRun!RegisterOperands, Icode!RegisterOperands, ICodeRun!OperationAt,
    Icode!OperationAt, ICodeRun!code, Icode!code, ICodeRun!Addresses,
    Icode!Addresses, ICodeRun!TwoRegisters, Icode!TwoRegisters

LEMMA SameIsOpen ==
  \A ops, r, s : ICodeRun!IsOpen(ops, r, s) <=> Icode!IsOpen(ops, r, s)
BY DEF ICodeRun!IsOpen, Icode!IsOpen, ICodeRun!OperationAt, Icode!OperationAt,
    ICodeRun!PROGRAM_COUNTER, Icode!PROGRAM_COUNTER, ICodeRun!Addresses,
    Icode!Addresses, ICodeRun!GuardFails, Icode!GuardFails,
    ICodeRun!LabelSites, Icode!LabelSites, ICodeRun!code, Icode!code

LEMMA SameStart ==
  /\ ICodeRun!InitialRegisters = Icode!InitialRegisters
  /\ ICodeRun!InitialStack = Icode!InitialStack
  /\ ICodeRun!HasNegativeLabel = Icode!HasNegativeLabel
BY DEF ICodeRun!InitialRegisters, Icode!InitialRegisters,
    ICodeRun!RegisterFile, Icode!RegisterFile, ICodeRun!STACK_POINTER,
    Icode!STACK_POINTER, ICodeRun!initial_stack, Icode!initial_stack,
    ICodeRun!FRAME_POINTER, Icode!FRAME_POINTER, ICodeRun!RETURN_ADDRESS,
    Icode!RETURN_ADDRESS, ICodeRun!PROGRAM_COUNTER, Icode!PROGRAM_COUNTER,
    ICodeRun!ScannedRegisters, Icode!ScannedRegisters, ICodeRun!TEMPORARY,
    Icode!TEMPORARY, ICodeRun!RegisterOperands, Icode!RegisterOperands,
    ICodeRun!OperationAt, Icode!OperationAt, ICodeRun!code, Icode!code,
    ICodeRun!Addresses, Icode!Addresses, ICodeRun!TwoRegisters,
    Icode!TwoRegisters, ICodeRun!InitialStack, Icode!InitialStack,
    ICodeRun!HasNegativeLabel, Icode!HasNegativeLabel

LEMMA SameVMStep == VMCodeRun!VMNext <=> VM!VMNext
BY DEF VMCodeRun!VMNext, VM!VMNext, VMCodeRun!Move, VM!Move,
    VMCodeRun!LoadImm, VM!LoadImm, VMCodeRun!Add, VM!Add, VMCodeRun!Sub,
    VM!Sub, VMCodeRun!Load, VM!Load, VMCodeRun!Store, VM!Store, VMCodeRun!Jump,
    VM!Jump, VMCodeRun!JumpCondTaken, VM!JumpCondTaken,
    VMCodeRun!JumpCondNotTaken, VM!JumpCondNotTaken, VMCodeRun!JumpLink,
    VM!JumpLink, VMCodeRun!JumpAddr, VM!JumpAddr, VMCodeRun!Label, VM!Label,
    VMCodeRun!Halt, VM!Halt, VMCodeRun!WildAccess, VM!WildAccess,
    VMCodeRun!WildFetch, VM!WildFetch, VMCodeRun!Dispatch, VM!Dispatch,
    VMCodeRun!SetAndAdvance, VM!SetAndAdvance, VMCodeRun!ARG2, VM!ARG2,
    VMCodeRun!ARG1, VM!ARG1, VMCodeRun!PROGRAM_COUNTER, VM!PROGRAM_COUNTER,
    VMCodeRun!Goto, VM!Goto, VMCodeRun!Contents, VM!Contents,
    VMCodeRun!Advance, VM!Advance, VMCodeRun!RETURN_ADDRESS, VM!RETURN_ADDRESS,
    VMCodeRun!AccessedAddresses, VM!AccessedAddresses, VMCodeRun!GoWild,
    VM!GoWild, VMCodeRun!Fetching, VM!Fetching, VMCodeRun!OPC, VM!OPC,
    VMCodeRun!Cell, VM!Cell, VMCodeRun!VMCode_instruction_size,
    VM!VMCode_instruction_size, VMCodeRun!vmcode, VM!vmcode,
    VMCodeRun!VMCodeGen, VM!VMCodeGen, VMCodeRun!OperationAt, VM!OperationAt,
    VMCodeRun!ICodeState!Plus, VM!ICodeState!Plus, VMCodeRun!ICodeState!Wrap,
    VM!ICodeState!Wrap, VMCodeRun!ICodeState!MinInt, VM!ICodeState!MinInt,
    VMCodeRun!ICodeState!Minus, VM!ICodeState!Minus,
    VMCodeRun!ICodeState!Denotes, VM!ICodeState!Denotes,
    VMCodeRun!ICodeState!Word, VM!ICodeState!Word,
    VMCodeRun!ICodeState!LookupLabelAddress, VM!ICodeState!LookupLabelAddress,
    VMCodeRun!ICodeState!LabelSites, VM!ICodeState!LabelSites,
    VMCodeRun!ICodeState!code, VM!ICodeState!code,
    VMCodeRun!ICodeState!Addresses, VM!ICodeState!Addresses,
    VMCodeRun!ICodeState!OperationAt, VM!ICodeState!OperationAt,
    VMCodeRun!ICodeState!Contents, VM!ICodeState!Contents

(* The state of the VMCode interpreter is one of the icode interpreter. *)
LEMMA VMSameTypes ==
  /\ VM!ICodeState!RegisterFile = Icode!RegisterFile
  /\ VM!ICodeState!Value = Icode!Value
  /\ VM!VMStatuses = VMCodeRun!VMStatuses
BY DEF VM!VMStatuses, VMCodeRun!VMStatuses,
    Icode!RegisterFile, VM!ICodeState!RegisterFile,
        Icode!ScannedRegisters, VM!ICodeState!ScannedRegisters,
        Icode!TEMPORARY, VM!ICodeState!TEMPORARY, Icode!RegisterOperands,
        VM!ICodeState!RegisterOperands, Icode!OperationAt,
        VM!ICodeState!OperationAt, Icode!code, VM!ICodeState!code,
        Icode!Addresses, VM!ICodeState!Addresses, Icode!TwoRegisters,
        VM!ICodeState!TwoRegisters, Icode!Value, VM!ICodeState!Value,
        Icode!Word, VM!ICodeState!Word, Icode!MinInt, VM!ICodeState!MinInt

LEMMA VMSameStart ==
  /\ VM!ICodeState!InitialRegisters = Icode!InitialRegisters
  /\ VM!ICodeState!InitialStack = Icode!InitialStack
  /\ VM!ICodeState!HasNegativeLabel = Icode!HasNegativeLabel
BY DEF Icode!InitialRegisters, VM!ICodeState!InitialRegisters,
    Icode!RegisterFile, VM!ICodeState!RegisterFile, Icode!STACK_POINTER,
    VM!ICodeState!STACK_POINTER, Icode!initial_stack,
    VM!ICodeState!initial_stack, Icode!FRAME_POINTER,
    VM!ICodeState!FRAME_POINTER, Icode!RETURN_ADDRESS,
    VM!ICodeState!RETURN_ADDRESS, Icode!PROGRAM_COUNTER,
    VM!ICodeState!PROGRAM_COUNTER, Icode!ScannedRegisters,
    VM!ICodeState!ScannedRegisters, Icode!TEMPORARY, VM!ICodeState!TEMPORARY,
    Icode!RegisterOperands, VM!ICodeState!RegisterOperands, Icode!OperationAt,
    VM!ICodeState!OperationAt, Icode!code, VM!ICodeState!code, Icode!Addresses,
    VM!ICodeState!Addresses, Icode!TwoRegisters, VM!ICodeState!TwoRegisters,
    Icode!InitialStack, VM!ICodeState!InitialStack, Icode!HasNegativeLabel,
    VM!ICodeState!HasNegativeLabel

LEMMA VMSameIsOpen ==
  \A ops, r, s : VM!ICodeState!IsOpen(ops, r, s) <=> Icode!IsOpen(ops, r, s)
BY DEF Icode!IsOpen, VM!ICodeState!IsOpen, Icode!OperationAt,
    VM!ICodeState!OperationAt, Icode!PROGRAM_COUNTER,
    VM!ICodeState!PROGRAM_COUNTER, Icode!Addresses, VM!ICodeState!Addresses,
    Icode!GuardFails, VM!ICodeState!GuardFails, Icode!LabelSites,
    VM!ICodeState!LabelSites, Icode!code, VM!ICodeState!code

LEMMA VMSameAfter ==
  \A ops, r, s : VM!Proved!After(ops, r, s) = Icode!After(ops, r, s)
BY DEF Icode!After, VM!Proved!After, Icode!OperationAt, VM!Proved!OperationAt,
    Icode!PROGRAM_COUNTER, VM!Proved!PROGRAM_COUNTER, Icode!Addresses,
    VM!Proved!Addresses, Icode!Configuration, VM!Proved!Configuration,
    Icode!StatusAfter, VM!Proved!StatusAfter, Icode!RegistersAfter,
    VM!Proved!RegistersAfter, Icode!code, VM!Proved!code, Icode!Accessed,
    VM!Proved!Accessed, Icode!Wrap, VM!Proved!Wrap, Icode!RegisterSet,
    VM!Proved!RegisterSet, Icode!Plus, VM!Proved!Plus, Icode!Minus,
    VM!Proved!Minus, Icode!CounterSet, VM!Proved!CounterSet,
    Icode!LabelAddress, VM!Proved!LabelAddress, Icode!GuardFails,
    VM!Proved!GuardFails, Icode!RETURN_ADDRESS, VM!Proved!RETURN_ADDRESS,
    Icode!MinInt, VM!Proved!MinInt, Icode!LabelSites, VM!Proved!LabelSites

LEMMA SameWellFormed == 
  /\ \A line \in Runnable : Icode!WellFormed(line)
  /\ \A line \in Runnable : VM!ICodeState!WellFormed(line)
BY RunnableAssumption DEF ICodeRun!WellFormed, Icode!WellFormed,
    VM!ICodeState!WellFormed, ICodeRun!code, Icode!code, VM!ICodeState!code,
    ICodeRun!ICodeOperation, Icode!ICodeOperation,
    VM!ICodeState!ICodeOperation, ICodeRun!Addresses, Icode!Addresses,
    VM!ICodeState!Addresses, ICodeRun!OperationAt, Icode!OperationAt,
    VM!ICodeState!OperationAt, ICodeRun!Word, Icode!Word, VM!ICodeState!Word,
    ICodeRun!RegisterOperands, Icode!RegisterOperands,
    VM!ICodeState!RegisterOperands, ICodeRun!initial_stack,
    Icode!initial_stack, VM!ICodeState!initial_stack, ICodeRun!Opcode,
    Icode!Opcode, VM!ICodeState!Opcode, ICodeRun!MinInt, Icode!MinInt,
    VM!ICodeState!MinInt, ICodeRun!TwoRegisters, Icode!TwoRegisters,
    VM!ICodeState!TwoRegisters

----------------------------------------------------------------------------
(* What is known of the machines, in the terms of Main. *)
LEMMA IcodeStarts == Icode!Init => Icode!TypeOK
BY Icode!InitType, SameWellFormed, MainMaxIntAssumption, MainUninitAssumption,
   MainStackSizeAssumption

LEMMA IcodeKeepsTypes == Icode!TypeOK /\ [Icode!Next]_(Icode!vars) => (Icode!TypeOK)'
BY Icode!StepType, SameWellFormed, MainMaxIntAssumption, MainUninitAssumption,
   MainStackSizeAssumption

LEMMA IcodeIsDetermined ==
  Icode!TypeOK /\ Icode!Next /\ ~Icode!IsOpen(Icode!code, registers, stack)
    => /\ status = "running"
       /\ Icode!Configuration(registers', stack', status')
            = Icode!After(Icode!code, registers, stack)
BY Icode!StepIsDetermined, SameWellFormed, MainMaxIntAssumption,
   MainUninitAssumption, MainStackSizeAssumption

LEMMA VMStarts == VM!VMInit => VM!VMTypeOK
BY VM!InitImplements, VM!TypesAtFirst, SameWellFormed, MainMaxIntAssumption,
   MainUninitAssumption, MainStackSizeAssumption DEF VM!VMTypeOK

LEMMA VMKeepsTypes == VM!VMTypeOK /\ [VM!VMNext]_(VM!vmvars) => (VM!VMTypeOK)'
<1> SUFFICES ASSUME VM!VMTypeOK, [VM!VMNext]_(VM!vmvars) PROVE (VM!VMTypeOK)'
  OBVIOUS
<1>1. [VM!ICodeState!Next]_(VM!ICodeState!vars)
  BY VM!StepImplements, SameWellFormed, MainMaxIntAssumption,
     MainUninitAssumption, MainStackSizeAssumption DEF VM!VMTypeOK
<1>2. (VM!ICodeState!TypeOK)'
  BY <1>1, VM!TypesAreKept, SameWellFormed, MainMaxIntAssumption,
     MainUninitAssumption, MainStackSizeAssumption DEF VM!VMTypeOK
<1>3. status' \in VM!VMStatuses
  BY VM!StatusStep, SameWellFormed, MainMaxIntAssumption, MainUninitAssumption,
     MainStackSizeAssumption DEF VM!VMTypeOK
<1> QED
  BY <1>2, <1>3 DEF VM!VMTypeOK

LEMMA VMStepsWhileRunning == VM!VMNext => status = "running"
BY DEF VM!VMNext, VM!Move, VM!LoadImm, VM!Add, VM!Sub, VM!Load, VM!Store, VM!Jump,
       VM!JumpCondTaken, VM!JumpCondNotTaken, VM!JumpLink, VM!JumpAddr, VM!Label,
       VM!Halt, VM!WildAccess, VM!WildFetch, VM!Dispatch, VM!Fetching

LEMMA VMIsDetermined ==
  ASSUME VM!VMTypeOK, VM!VMNext,
         ~Icode!IsOpen(cmdline.code, registers, stack),
         ~UNCHANGED VM!ICodeState!vars
  PROVE  /\ status = "running"
         /\ Icode!Configuration(registers', stack', VM!StatusOf')
              = Icode!After(cmdline.code, registers, stack)
<1>1. ~VM!ICodeState!IsOpen(VM!ICodeState!code, registers, stack)
  BY VMSameIsOpen DEF VM!ICodeState!code
<1>2. /\ status = "running"
      /\ VM!Proved!Configuration(registers', stack', VM!StatusOf')
           = VM!Proved!After(VM!ICodeState!code, registers, stack)
  BY <1>1, VM!VMStepIsDetermined, SameWellFormed, MainMaxIntAssumption,
     MainUninitAssumption, MainStackSizeAssumption DEF VM!VMTypeOK
<1> QED
  BY <1>2, VMSameAfter
     DEF VM!Proved!Configuration, Icode!Configuration, VM!ICodeState!code

(* The command line never changes. *)
LEMMA CommandLineNeverChanges == [MainNext]_mainvars => UNCHANGED cmdline
<1> SUFFICES ASSUME [MainNext]_mainvars PROVE UNCHANGED cmdline
  OBVIOUS
<1>1. CASE StepICode
  BY <1>1, SameStep, Icode!JobNeverChanges, SameWellFormed,
     MainMaxIntAssumption, MainUninitAssumption, MainStackSizeAssumption
     DEF StepICode
<1>2. CASE StepVMCode
  BY <1>2, SameVMStep, VM!VMJobNeverChanges, SameWellFormed,
     MainMaxIntAssumption, MainUninitAssumption, MainStackSizeAssumption
     DEF StepVMCode
<1> QED
  BY <1>1, <1>2
     DEF MainNext, mainvars, CheckArguments, OpenFile, Parse, ParseArguments,
         Check, Interpret, Generate, PrintICodeResult, ICodeError,
         PrintVMCodeResult

(* The machines start as they do on their own. *)
LEMMA MachineStarts ==
  ASSUME cmdline \in Runnable, UNCHANGED cmdline, StartMachine
  PROVE  (Icode!TypeOK)' /\ (VM!VMTypeOK)'
<1>1. /\ registers' = Icode!InitialRegisters'
      /\ stack' = Icode!InitialStack'
      /\ status' = IF Icode!HasNegativeLabel' THEN "negative label" ELSE "running"
  <2>1. /\ Icode!InitialRegisters' = Icode!InitialRegisters
        /\ Icode!InitialStack' = Icode!InitialStack
        /\ Icode!HasNegativeLabel' <=> Icode!HasNegativeLabel
    BY DEF Icode!InitialRegisters, Icode!RegisterFile, Icode!STACK_POINTER,
        Icode!initial_stack, Icode!FRAME_POINTER, Icode!RETURN_ADDRESS,
        Icode!PROGRAM_COUNTER, Icode!ScannedRegisters, Icode!TEMPORARY,
        Icode!RegisterOperands, Icode!OperationAt, Icode!code, Icode!Addresses,
        Icode!TwoRegisters, Icode!InitialStack, Icode!HasNegativeLabel
  <2> QED
    BY <2>1, SameStart DEF StartMachine
<1>2. (Icode!Init)'
  BY <1>1 DEF Icode!Init
<1>3. (VM!VMInit)'
  <2>1. (/\ VM!ICodeState!InitialRegisters = Icode!InitialRegisters
         /\ VM!ICodeState!InitialStack = Icode!InitialStack
         /\ VM!ICodeState!HasNegativeLabel = Icode!HasNegativeLabel)'
    BY VMSameStart, PTL
  <2> QED
    BY <1>1, <2>1 DEF VM!VMInit
<1>4. (Icode!Init)' => (Icode!TypeOK)'
  BY IcodeStarts, PTL
<1>5. (VM!VMInit)' => (VM!VMTypeOK)'
  BY VMStarts, PTL
<1> QED
  BY <1>2, <1>3, <1>4, <1>5

----------------------------------------------------------------------------
(* Types. *)

Executing == {"icode", "vmcode", "exit success"}

TypeInv ==
  /\ stage \in Stages
  /\ cmdline \in CommandLines
  /\ stage = "icode" => Icode!TypeOK
  /\ stage \in {"vmcode", "exit success"} => VM!VMTypeOK
  /\ stage \notin Executing => status \in {"not started"} \cup Icode!Statuses

LEMMA TypeInvInit == MainInit => TypeInv
BY DEF MainInit, TypeInv, Stages, Executing

LEMMA TypeInvStep == TypeInv /\ [MainNext]_mainvars => TypeInv'
<1> SUFFICES ASSUME TypeInv, [MainNext]_mainvars PROVE TypeInv'
  OBVIOUS
<1> USE DEF TypeInv, Stages, Executing
<1>1. CASE CheckArguments \/ OpenFile \/ Parse \/ ParseArguments
  BY <1>1 DEF CheckArguments, OpenFile, Parse, ParseArguments, Check
<1>2. CASE Interpret
  BY <1>2 DEF Interpret
<1>3. CASE Generate
  <2>1. CASE cmdline.can_generate
    <3>1. stage' = "icode" /\ StartMachine /\ UNCHANGED cmdline
      BY <1>3, <2>1 DEF Generate
    <3>2. (Icode!TypeOK)'
      BY <2>1, <3>1, MachineStarts DEF Runnable
    <3> QED
      BY <3>1, <3>2
  <2>2. CASE ~cmdline.can_generate
    BY <1>3, <2>2 DEF Generate
  <2> QED
    BY <2>1, <2>2
<1>4. CASE StepICode
  <2>1. stage = "icode" /\ Icode!Next /\ stage' = stage
    BY <1>4, SameStep DEF StepICode
  <2>2. (Icode!TypeOK)'
    BY <2>1, IcodeKeepsTypes
  <2>3. cmdline' \in CommandLines
    BY <2>2 DEF Icode!TypeOK, Runnable
  <2> QED
    BY <2>1, <2>2, <2>3
<1>5. CASE PrintICodeResult
  <2>1. /\ stage = "icode" /\ stage' = "vmcode"
        /\ StartMachine /\ UNCHANGED cmdline
    BY <1>5 DEF PrintICodeResult
  <2>2. (VM!VMTypeOK)'
    BY <2>1, MachineStarts DEF Icode!TypeOK
  <2> QED
    BY <2>1, <2>2
<1>6. CASE ICodeError
  BY <1>6 DEF ICodeError, Icode!TypeOK
<1>7. CASE StepVMCode
  <2>1. stage = "vmcode" /\ VM!VMNext /\ stage' = stage
    BY <1>7, SameVMStep DEF StepVMCode
  <2>2. (VM!VMTypeOK)'
    BY <2>1, VMKeepsTypes
  <2>3. cmdline' \in CommandLines
    BY <2>2 DEF VM!VMTypeOK, VM!ICodeState!TypeOK, Runnable
  <2> QED
    BY <2>1, <2>2, <2>3
<1>8. CASE PrintVMCodeResult
  <2>1. /\ stage = "vmcode" /\ stage' = "exit success"
        /\ UNCHANGED <<cmdline, registers, stack, status>>
    BY <1>8 DEF PrintVMCodeResult
  <2>2. (VM!VMTypeOK)'
    BY <2>1, VMKeepsTypes DEF VM!vmvars
  <2> QED
    BY <2>1, <2>2
<1>9. CASE UNCHANGED mainvars
  <2>1. UNCHANGED <<stage, cmdline, registers, stack, status>>
    BY <1>9 DEF mainvars
  <2>2. stage = "icode" => (Icode!TypeOK)'
    BY <2>1, IcodeKeepsTypes DEF Icode!vars
  <2>3. stage \in {"vmcode", "exit success"} => (VM!VMTypeOK)'
    BY <2>1, VMKeepsTypes DEF VM!vmvars
  <2> QED
    BY <2>1, <2>2, <2>3
<1> QED
  BY <1>1, <1>2, <1>3, <1>4, <1>5, <1>6, <1>7, <1>8, <1>9 DEF MainNext

(* While a machine runs, and after it has, its arrays are as they were allocated
   and hold ints or what malloc left there, whatever the command line. *)
THEOREM MainTypeCorrect == MainSpec => []MainTypeOK
<1>1. TypeInv => MainTypeOK
  <2> SUFFICES ASSUME TypeInv PROVE MainTypeOK
    OBVIOUS
  <2>1. CASE stage = "icode"
    BY <2>1, SameTypes DEF TypeInv, MainTypeOK, Icode!TypeOK
  <2>2. CASE stage \in {"vmcode", "exit success"}
    BY <2>2, SameTypes, VMSameTypes
       DEF TypeInv, MainTypeOK, VM!VMTypeOK, VM!ICodeState!TypeOK
  <2> QED
    BY <2>1, <2>2 DEF TypeInv, MainTypeOK
<1> QED
  BY <1>1, TypeInvInit, TypeInvStep, PTL DEF MainSpec
----------------------------------------------------------------------------
(* Numbers.  str_to_int and Decimal are recursive functions, so what they compute
   is shown by induction on the length of what has been read. *)
LEMMA WrapIntType == \A n \in Int : WrapInt(n) \in -MaxInt - 1 .. MaxInt
BY MainMaxIntAssumption DEF WrapInt

LEMMA WrapIntKeeps == \A n \in -MaxInt - 1 .. MaxInt : WrapInt(n) = n
BY MainMaxIntAssumption DEF WrapInt

LEMMA WrapIntIsInt == \A n \in Int : WrapInt(n) \in Int
BY WrapIntType, MainMaxIntAssumption

LEMMA StringType ==
  ASSUME NEW str \in Seq(Nat)
  PROVE  Len(str) \in Nat /\ \A i \in 1 .. Len(str) : str[i] \in Nat
OBVIOUS

LEMMA ElementType ==
  ASSUME NEW S, NEW s \in Seq(S), NEW i \in DOMAIN s
  PROVE  s[i] \in S
OBVIOUS

(* str_to_int and Decimal go through the string from its first character on. *)
LEMMA StrToIntGoesOn ==
  ASSUME NEW str \in Seq(Nat)
  PROVE  \E f :
           /\ f[0] = 0
           /\ \A i \in 1 .. Len(str) :
                f[i] = WrapInt(WrapInt(f[i - 1] * 10) + str[i])
           /\ str_to_int(str) = f[Len(str)]
<1> DEFINE n == Len(str)
           V == Int
           zero == 0
           step == [i \in 1 .. n |->
                      [v \in Int |-> WrapInt(WrapInt(v * 10) + str[i])]]
           Is(f) == f = [i \in 0 .. n |->
                               IF i = 0 THEN 0
                               ELSE WrapInt(WrapInt(f[i - 1] * 10) + str[i])]
           result == CHOOSE f : Is(f)
<1>1. n \in Nat /\ \A i \in 1 .. n : str[i] \in Int
  BY StringType
<1>2. str_to_int(str) = result[n]
  BY DEF str_to_int
<1> HIDE DEF n
<1>3. step \in Steps(V, n) /\ zero \in V
  <2>1. ASSUME NEW i \in 1 .. n, NEW v \in Int
        PROVE  WrapInt(WrapInt(v * 10) + str[i]) \in Int
    <3> DEFINE shifted == WrapInt(v * 10)
    <3>1. shifted \in Int
      BY WrapIntIsInt
    <3> HIDE DEF shifted
    <3>2. shifted + str[i] \in Int
      BY <1>1, <3>1
    <3> QED
      BY <3>2, WrapIntIsInt DEF shifted
  <2>2. \A i \in 1 .. n :
          [v \in Int |-> WrapInt(WrapInt(v * 10) + str[i])] \in [Int -> Int]
    BY <2>1
  <2> QED
    BY <2>2 DEF Steps
<1>4. PICK f \in [0 .. n -> V] : Solves(f, zero, step, n)
  <2> HIDE DEF step, zero, V
  <2> QED
    BY <1>1, <1>3, RecursionHasSolution
<1>5. ASSUME NEW i \in 1 .. n
      PROVE  step[i][f[i - 1]] = WrapInt(WrapInt(f[i - 1] * 10) + str[i])
  <2>1. i - 1 \in 0 .. n
    BY <1>1
  <2> DEFINE before == f[i - 1]
  <2>2. before \in Int
    BY <2>1
  <2> HIDE DEF before
  <2>3. step[i][before] = WrapInt(WrapInt(before * 10) + str[i])
    BY <2>2
  <2> QED
    BY <2>3 DEF before
<1>6. Is(f)
  <2> HIDE DEF step
  <2> QED
    BY <1>1, <1>4, <1>5 DEF Solves
<1>7. Is(result)
  <2> HIDE DEF Is
  <2> QED
    BY <1>6
<1> HIDE DEF result
<1>8. /\ result[0] = 0
      /\ \A i \in 1 .. n :
           result[i] = WrapInt(WrapInt(result[i - 1] * 10) + str[i])
  BY <1>1, <1>7
<1> QED
  BY <1>2, <1>8 DEF n

LEMMA DecimalGoesOn ==
  ASSUME NEW str \in Seq(Nat)
  PROVE  \E f : /\ f[0] = 0
                /\ \A i \in 1 .. Len(str) : f[i] = 10 * f[i - 1] + str[i]
                /\ Decimal(str) = f[Len(str)]
<1> DEFINE n == Len(str)
           V == Int
           zero == 0
           step == [i \in 1 .. n |-> [v \in Int |-> 10 * v + str[i]]]
           Is(f) == f = [i \in 0 .. n |-> IF i = 0 THEN 0
                                               ELSE 10 * f[i - 1] + str[i]]
           value == CHOOSE f : Is(f)
<1>1. n \in Nat /\ \A i \in 1 .. n : str[i] \in Int
  BY StringType
<1>2. Decimal(str) = value[n]
  BY DEF Decimal
<1> HIDE DEF n
<1>3. step \in Steps(V, n) /\ zero \in V
  BY <1>1 DEF Steps
<1>4. PICK f \in [0 .. n -> V] : Solves(f, zero, step, n)
  <2> HIDE DEF step, zero, V
  <2> QED
    BY <1>1, <1>3, RecursionHasSolution
<1>5. ASSUME NEW i \in 1 .. n
      PROVE  step[i][f[i - 1]] = 10 * f[i - 1] + str[i]
  <2>1. i - 1 \in 0 .. n
    BY <1>1
  <2>2. f[i - 1] \in Int
    BY <2>1
  <2> QED
    BY <2>2
<1>6. Is(f)
  <2> HIDE DEF step
  <2> QED
    BY <1>1, <1>4, <1>5 DEF Solves
<1>7. Is(value)
  <2> HIDE DEF Is
  <2> QED
    BY <1>6
<1> HIDE DEF value
<1>8. /\ value[0] = 0
      /\ \A i \in 1 .. n : value[i] = 10 * value[i - 1] + str[i]
  BY <1>1, <1>7
<1> QED
  BY <1>2, <1>8 DEF n

(* One more digit: while the longer number fits, nothing wraps on the way to it. *)
LEMMA OneMoreDigit ==
  ASSUME NEW a \in Nat, NEW d \in 0 .. 9
  PROVE  /\ 10 * a + d \in Nat
         /\ 10 * a + d <= MaxInt =>
              a <= MaxInt /\ WrapInt(WrapInt(a * 10) + d) = 10 * a + d
<1>1. SUFFICES ASSUME 10 * a + d <= MaxInt
               PROVE  a <= MaxInt /\ WrapInt(WrapInt(a * 10) + d) = 10 * a + d
  OBVIOUS
<1>2. a * 10 \in -MaxInt - 1 .. MaxInt /\ 10 * a + d \in -MaxInt - 1 .. MaxInt
  BY <1>1, MainMaxIntAssumption
<1>3. WrapInt(a * 10) = a * 10 /\ WrapInt(10 * a + d) = 10 * a + d
  BY <1>2, WrapIntKeeps
<1>4. WrapInt(a * 10) + d = 10 * a + d /\ a <= MaxInt
  BY <1>1, <1>3, MainMaxIntAssumption
<1> QED
  BY <1>3, <1>4

(* A string of digits is read as the number it stands for exactly if that fits:
   while the number fits nothing wraps, and when it does not any int is another. *)
LEMMA StrToIntReads ==
  ASSUME NEW str \in Seq(Nat), IsNumber(str)
  PROVE  str_to_int(str) = Decimal(str) <=> Decimal(str) <= MaxInt
<1> DEFINE n == Len(str)
<1>1. PICK f : /\ f[0] = 0
               /\ \A i \in 1 .. n : f[i] = WrapInt(WrapInt(f[i - 1] * 10) + str[i])
               /\ str_to_int(str) = f[n]
  BY StrToIntGoesOn
<1>2. PICK g : /\ g[0] = 0
               /\ \A i \in 1 .. n : g[i] = 10 * g[i - 1] + str[i]
               /\ Decimal(str) = g[n]
  BY DecimalGoesOn
<1>3. n \in Nat /\ \A i \in 1 .. n : str[i] \in 0 .. 9
  BY StringType DEF IsNumber, Digits
<1> HIDE DEF n
<1> DEFINE Read(i) == /\ f[i] \in -MaxInt - 1 .. MaxInt
                      /\ g[i] \in Nat
                      /\ g[i] <= MaxInt => f[i] = g[i]
           S == {i \in Nat : i <= n => Read(i)}
<1>4. 0 \in S
  BY <1>1, <1>2, MainMaxIntAssumption
<1>5. ASSUME NEW i \in Nat, i \in S
      PROVE  i + 1 \in S
  <2>1. SUFFICES ASSUME i + 1 <= n PROVE Read(i + 1)
    OBVIOUS
  <2>2. Read(i) /\ i + 1 \in 1 .. n /\ (i + 1) - 1 = i
    BY <1>3, <1>5, <2>1
  <2> DEFINE d == str[i + 1]
  <2>3. /\ f[i + 1] = WrapInt(WrapInt(f[i] * 10) + d)
        /\ g[i + 1] = 10 * g[i] + d
        /\ d \in 0 .. 9
    BY <1>1, <1>2, <1>3, <2>2
  <2> HIDE DEF d
  <2>4. f[i + 1] \in -MaxInt - 1 .. MaxInt
    <3>1. f[i] \in Int
      BY <2>2, MainMaxIntAssumption
    <3>2. WrapInt(f[i] * 10) \in Int
      BY <3>1, WrapIntIsInt
    <3>3. WrapInt(f[i] * 10) + d \in Int
      BY <2>3, <3>2
    <3> QED
      BY <2>3, <3>3, WrapIntType
  <2>5. g[i + 1] \in Nat /\ (g[i + 1] <= MaxInt => f[i + 1] = g[i + 1])
    <3>1. g[i] \in Nat
      BY <2>2
    <3>2. /\ 10 * g[i] + d \in Nat
          /\ 10 * g[i] + d <= MaxInt =>
               g[i] <= MaxInt /\ WrapInt(WrapInt(g[i] * 10) + d) = 10 * g[i] + d
      BY <2>3, <3>1, OneMoreDigit
    <3> QED
      BY <2>2, <2>3, <3>2
  <2> QED
    BY <2>4, <2>5
<1>6. Read(n)
  <2>1. n \in S
    <3> HIDE DEF S
    <3> QED
      BY <1>3, <1>4, <1>5, SetInduction
  <2> QED
    BY <1>3, <2>1
<1> QED
  BY <1>1, <1>2, <1>6, MainMaxIntAssumption

ReadInv ==
  /\ cmdline \in CommandLines
  /\ stage \in {"interpret", "generate", "icode", "vmcode", "exit success"} =>
       \A i \in DOMAIN cmdline.argv : IsNumber(cmdline.argv[i])

LEMMA ReadInvStep == ReadInv /\ [MainNext]_mainvars => ReadInv'
<1> SUFFICES ASSUME ReadInv, [MainNext]_mainvars PROVE ReadInv'
  OBVIOUS
<1>1. cmdline' = cmdline
  BY CommandLineNeverChanges
<1>2. \/ stage' \notin {"interpret", "generate", "icode", "vmcode", "exit success"}
      \/ stage \in {"interpret", "generate", "icode", "vmcode", "exit success"}
      \/ \A i \in DOMAIN cmdline.argv : IsNumber(cmdline.argv[i])
  BY DEF MainNext, mainvars, CheckArguments, OpenFile, Parse, ParseArguments,
         Check, Interpret, Generate, StepICode, PrintICodeResult, ICodeError,
         StepVMCode, PrintVMCodeResult
<1> QED
  BY <1>1, <1>2 DEF ReadInv

(* Past the argument loop every argument is a number, and it is the number it
   stands for exactly if that fits an int, whatever the strings and the width of an
   int (util.c:68-82). *)
THEOREM ArgumentsAlwaysRead == MainSpec => []ArgumentsAreRead
<1>1. MainInit => ReadInv
  BY DEF MainInit, ReadInv
<1>2. ReadInv => ArgumentsAreRead
  <2> SUFFICES ASSUME ReadInv,
                      stage \in {"interpret", "generate", "icode", "vmcode",
                                 "exit success"},
                      NEW i \in DOMAIN cmdline.argv
               PROVE  /\ IsNumber(cmdline.argv[i])
                      /\ cmdline.initial_stack[i] = Decimal(cmdline.argv[i])
                           <=> Decimal(cmdline.argv[i]) <= MaxInt
    BY DEF ArgumentsAreRead
  <2>1. \A k \in DOMAIN cmdline.argv : IsNumber(cmdline.argv[k])
    BY DEF ReadInv
  <2>2. /\ cmdline.argv \in Seq(Seq(Nat))
        /\ cmdline.initial_stack = prog_args(cmdline.argv)
    BY CommandLinesAssumption DEF ReadInv
  <2>3. cmdline.argv[i] \in Seq(Nat)
    <3> DEFINE Strings == Seq(Nat)
    <3> HIDE DEF Strings
    <3>1. cmdline.argv \in Seq(Strings)
      BY <2>2 DEF Strings
    <3>2. cmdline.argv[i] \in Strings
      BY <3>1, ElementType
    <3> QED
      BY <3>2 DEF Strings
  <2>4. cmdline.initial_stack[i] = str_to_int(cmdline.argv[i])
    BY <2>1, <2>2 DEF prog_args
  <2> QED
    BY <2>1, <2>3, <2>4, StrToIntReads
<1> QED
  BY <1>1, <1>2, ReadInvStep, PTL DEF MainSpec

----------------------------------------------------------------------------
(* The two executions. *)
Now == Icode!Configuration(registers, stack, status)

(* The configuration that both start in; it depends on the command line only. *)
Begin ==
  Icode!Configuration(Icode!InitialRegisters, Icode!InitialStack,
                      IF Icode!HasNegativeLabel THEN "negative label"
                                                ELSE "running")

(* The configurations that the code of line goes through from a given one on, by
   n steps that are not open. *)
IsRun(line, begin, run, n) ==
  /\ run[0] = begin
  /\ \A k \in 0 .. n - 1 :
       /\ run[k].status = "running"
       /\ ~Icode!IsOpen(line.code, run[k].registers, run[k].stack)
       /\ run[k + 1] = Icode!After(line.code, run[k].registers, run[k].stack)

(* While the first machine is at work it has gone through such a run; ... *)
FirstRun ==
  stage = "icode" =>
    \E n \in Nat : \E run : IsRun(cmdline, Begin, run, n) /\ run[n] = Now

(* ... and afterwards that run is complete, its result has been printed, and the
   second machine is somewhere on it. *)
SecondRun ==
  stage \in {"vmcode", "exit success"} =>
    \E n \in Nat : \E run :
      /\ IsRun(cmdline, Begin, run, n)
      /\ run[n].status = "halted"
      /\ printed.icode = Printed("iSuccess", run[n].registers[Icode!ACCUMULATOR])
      /\ \E k \in 0 .. n : run[k] = Now

BothPrinted ==
  stage = "exit success" =>
    status = "halted" /\ printed.vmcode = Printed("iSuccess", registers[Icode!ACCUMULATOR])

HasThreeResults == DOMAIN printed = {"interpreter", "icode", "vmcode"}

RunInv == TypeInv /\ HasThreeResults /\ FirstRun /\ SecondRun /\ BothPrinted

LEMMA BeginIsConstant == UNCHANGED cmdline => Begin' = Begin
BY DEF Begin, Icode!Configuration,
    Icode!InitialRegisters, Icode!RegisterFile, Icode!STACK_POINTER,
        Icode!initial_stack, Icode!FRAME_POINTER, Icode!RETURN_ADDRESS,
        Icode!PROGRAM_COUNTER, Icode!ScannedRegisters, Icode!TEMPORARY,
        Icode!RegisterOperands, Icode!OperationAt, Icode!code, Icode!Addresses,
        Icode!TwoRegisters, Icode!InitialStack, Icode!HasNegativeLabel

(* A machine that is started is where both start. *)
LEMMA BeginsWhereStarted ==
  ASSUME UNCHANGED cmdline, StartMachine
  PROVE  Now' = Begin
BY SameStart DEF StartMachine, Now, Begin, Icode!Configuration

LEMMA RunGoesOn ==
  ASSUME NEW line, NEW begin, NEW run, NEW n \in Nat, IsRun(line, begin, run, n),
         run[n].status = "running",
         ~Icode!IsOpen(line.code, run[n].registers, run[n].stack)
  PROVE  \E longer : /\ IsRun(line, begin, longer, n + 1)
                     /\ longer[n + 1] = Icode!After(line.code, run[n].registers,
                                                    run[n].stack)
<1> DEFINE next == Icode!After(line.code, run[n].registers, run[n].stack)
           longer == [k \in 0 .. n + 1 |-> IF k <= n THEN run[k] ELSE next]
<1> HIDE DEF next
<1>1. longer[0] = begin /\ longer[n + 1] = next
  BY DEF IsRun
<1>2. ASSUME NEW k \in 0 .. n
      PROVE  /\ longer[k].status = "running"
             /\ ~Icode!IsOpen(line.code, longer[k].registers, longer[k].stack)
             /\ longer[k + 1] = Icode!After(line.code, longer[k].registers,
                                            longer[k].stack)
  <2>1. CASE k = n
    BY <2>1 DEF next
  <2>2. CASE k \in 0 .. n - 1
    <3>1. longer[k] = run[k] /\ longer[k + 1] = run[k + 1]
      BY <2>2
    <3> QED
      BY <2>2, <3>1 DEF IsRun
  <2> QED
    BY <2>1, <2>2
<1>3. IsRun(line, begin, longer, n + 1)
  <2> HIDE DEF longer
  <2> QED
    BY <1>1, <1>2 DEF IsRun
<1> QED
  BY <1>1, <1>3 DEF next

LEMMA RunInvInit == MainInit => RunInv
BY TypeInvInit
   DEF MainInit, RunInv, HasThreeResults, FirstRun, SecondRun, BothPrinted

LEMMA RunInvStep == RunInv /\ NoStepIsOpen /\ [MainNext]_mainvars => RunInv'
<1> SUFFICES ASSUME RunInv, NoStepIsOpen, [MainNext]_mainvars PROVE RunInv'
  OBVIOUS
<1>line. cmdline' = cmdline /\ Begin' = Begin
  BY CommandLineNeverChanges, BeginIsConstant
<1>type. TypeInv /\ TypeInv'
  BY TypeInvStep DEF RunInv
<1>three. HasThreeResults'
  BY DEF RunInv, HasThreeResults, MainNext, mainvars, CheckArguments, OpenFile,
         Parse, ParseArguments, Check, Interpret, Generate, StepICode,
         PrintICodeResult, ICodeError, StepVMCode, PrintVMCodeResult
<1>1. CASE stage' \notin {"icode", "vmcode", "exit success"}
  BY <1>1, <1>type, <1>three DEF RunInv, FirstRun, SecondRun, BothPrinted
<1>2. CASE Generate /\ cmdline.can_generate
  <2>1. stage' = "icode" /\ Now' = Begin
    BY <1>2, BeginsWhereStarted DEF Generate
  <2>2. IsRun(cmdline, Begin, [k \in 0 .. 0 |-> Begin], 0)
    BY DEF IsRun
  <2>3. FirstRun'
    BY <1>line, <2>1, <2>2 DEF FirstRun
  <2> QED
    BY <1>type, <1>three, <2>1, <2>3 DEF RunInv, SecondRun, BothPrinted
<1>3. CASE StepICode
  <2>1. stage = "icode" /\ stage' = stage /\ Icode!Next
    BY <1>3, SameStep DEF StepICode
  <2>2. Icode!TypeOK
    BY <1>type, <2>1 DEF TypeInv
  <2>3. status = "running"
    BY <2>1 DEF Icode!Next, Icode!Move, Icode!LoadImm, Icode!Add, Icode!Sub,
                Icode!Load, Icode!Store, Icode!Jump, Icode!JumpCondTaken,
                Icode!JumpCondNotTaken, Icode!JumpLink, Icode!JumpAddr,
                Icode!Label, Icode!Halt, Icode!StackOverflow,
                Icode!StackUnderflow, Icode!IndexOutOfBounds,
                Icode!AccessingStack, Icode!Executing
  <2>4. ~Icode!IsOpen(cmdline.code, registers, stack)
    BY <2>1, <2>3, SameIsOpen DEF NoStepIsOpen
  <2>5. Now' = Icode!After(cmdline.code, registers, stack)
    BY <2>1, <2>2, <2>4, IcodeIsDetermined DEF Now, Icode!code, Icode!Configuration
  <2>6. PICK n \in Nat : \E run : IsRun(cmdline, Begin, run, n) /\ run[n] = Now
    BY <2>1 DEF RunInv, FirstRun
  <2>7. PICK run : IsRun(cmdline, Begin, run, n) /\ run[n] = Now
    BY <2>6
  <2>8. /\ run[n].status = "running"
        /\ run[n].registers = registers
        /\ run[n].stack = stack
    BY <2>3, <2>7 DEF Now, Icode!Configuration
  <2>9. \E longer : /\ IsRun(cmdline, Begin, longer, n + 1)
                    /\ longer[n + 1] = Now'
    BY <2>4, <2>5, <2>7, <2>8, RunGoesOn
  <2>10. FirstRun'
    BY <1>line, <2>9 DEF FirstRun
  <2> QED
    BY <1>type, <1>three, <2>1, <2>10 DEF RunInv, SecondRun, BothPrinted
<1>4. CASE PrintICodeResult
  <2>1. /\ stage = "icode" /\ stage' = "vmcode" /\ status = "halted"
        /\ printed' = [printed EXCEPT !.icode =
                         Printed("iSuccess", registers[Icode!ACCUMULATOR])]
        /\ Now' = Begin
    BY <1>4, <1>line, BeginsWhereStarted
       DEF PrintICodeResult, ICodeRun!Result, ICodeRun!ACCUMULATOR,
           Icode!ACCUMULATOR
  <2>2. PICK n \in Nat : \E run : IsRun(cmdline, Begin, run, n) /\ run[n] = Now
    BY <2>1 DEF RunInv, FirstRun
  <2>3. PICK run : IsRun(cmdline, Begin, run, n) /\ run[n] = Now
    BY <2>2
  <2>4. run[n].status = "halted" /\ run[n].registers = registers
    BY <2>1, <2>3 DEF Now, Icode!Configuration
  <2>5. printed'.icode = Printed("iSuccess", run[n].registers[Icode!ACCUMULATOR])
    BY <2>1, <2>4 DEF RunInv, HasThreeResults
  <2>6. run[0] = Now' /\ 0 \in 0 .. n
    BY <2>1, <2>3 DEF IsRun
  <2>7. SecondRun'
    BY <1>line, <2>3, <2>4, <2>5, <2>6 DEF SecondRun
  <2> QED
    BY <1>type, <1>three, <2>1, <2>7 DEF RunInv, FirstRun, BothPrinted
<1>5. CASE StepVMCode
  <2>1. /\ stage = "vmcode" /\ stage' = stage /\ printed' = printed
        /\ VM!VMNext
    BY <1>5, SameVMStep DEF StepVMCode
  <2>2. VM!VMTypeOK
    BY <1>type, <2>1 DEF TypeInv
  <2>3. PICK n \in Nat : \E run :
          /\ IsRun(cmdline, Begin, run, n)
          /\ run[n].status = "halted"
          /\ printed.icode =
               Printed("iSuccess", run[n].registers[Icode!ACCUMULATOR])
          /\ \E k \in 0 .. n : run[k] = Now
    BY <2>1 DEF RunInv, SecondRun
  <2>4. PICK run :
          /\ IsRun(cmdline, Begin, run, n)
          /\ run[n].status = "halted"
          /\ printed.icode =
               Printed("iSuccess", run[n].registers[Icode!ACCUMULATOR])
          /\ \E k \in 0 .. n : run[k] = Now
    BY <2>3
  <2>5. PICK k \in 0 .. n : run[k] = Now
    BY <2>4
  <2>6. /\ run[k].status = status
        /\ run[k].registers = registers
        /\ run[k].stack = stack
    BY <2>5 DEF Now, Icode!Configuration
  <2>7. \E m \in 0 .. n : run[m] = Now'
    <3>1. CASE UNCHANGED VM!ICodeState!vars
      <4>1. UNCHANGED <<registers, stack>> /\ VM!StatusOf' = VM!StatusOf
        BY <3>1 DEF VM!ICodeState!vars
      <4>2. status \in {"running", "halted"}
        BY <2>4, <2>5, <2>6 DEF IsRun
      <4>3. status' = status
        BY <4>1, <4>2 DEF VM!StatusOf
      <4>4. Now' = Now
        BY <4>1, <4>3 DEF Now, Icode!Configuration
      <4> QED
        BY <2>5, <4>4
    <3>2. CASE ~UNCHANGED VM!ICodeState!vars
      <4>1. status = "running"
        BY <2>1, VMStepsWhileRunning
      <4>2. k \in 0 .. n - 1
        BY <2>4, <2>6, <4>1
      <4>3. /\ ~Icode!IsOpen(cmdline.code, registers, stack)
            /\ run[k + 1] = Icode!After(cmdline.code, registers, stack)
        BY <2>4, <2>6, <4>2 DEF IsRun
      <4>4. Icode!Configuration(registers', stack', VM!StatusOf') = run[k + 1]
        BY <2>1, <2>2, <3>2, <4>3, VMIsDetermined
      <4>5. run[k + 1].status \in {"running", "halted"}
        BY <2>4, <4>2 DEF IsRun
      <4>6. VM!StatusOf' \in {"running", "halted"}
        BY <4>4, <4>5 DEF Icode!Configuration
      <4>7. status' = VM!StatusOf'
        BY <4>6 DEF VM!StatusOf
      <4>8. run[k + 1] = Now'
        BY <4>4, <4>7 DEF Now, Icode!Configuration
      <4> QED
        BY <4>2, <4>8
    <3> QED
      BY <3>1, <3>2
  <2>8. SecondRun'
    BY <1>line, <2>1, <2>4, <2>7 DEF SecondRun
  <2> QED
    BY <1>type, <1>three, <2>1, <2>8 DEF RunInv, FirstRun, BothPrinted
<1>6. CASE PrintVMCodeResult
  <2>1. /\ stage = "vmcode" /\ stage' = "exit success" /\ status = "halted"
        /\ printed' = [printed EXCEPT !.vmcode =
                         Printed("iSuccess", registers[Icode!ACCUMULATOR])]
        /\ UNCHANGED <<registers, stack, status>>
    BY <1>6 DEF PrintVMCodeResult, VMCodeRun!VMResult, VMCodeRun!ACCUMULATOR,
                Icode!ACCUMULATOR
  <2>2. Now' = Now
    BY <2>1 DEF Now, Icode!Configuration
  <2>3. /\ printed'.icode = printed.icode
        /\ printed'.vmcode = Printed("iSuccess", registers[Icode!ACCUMULATOR])
    BY <2>1 DEF RunInv, HasThreeResults
  <2>4. SecondRun'
    BY <1>line, <2>1, <2>2, <2>3 DEF RunInv, SecondRun
  <2> QED
    BY <1>type, <1>three, <2>1, <2>3, <2>4
       DEF RunInv, FirstRun, BothPrinted, Icode!ACCUMULATOR
<1>7. CASE UNCHANGED mainvars
  <2>1. UNCHANGED <<stage, printed, registers, stack, status>> /\ Now' = Now
    BY <1>7 DEF mainvars, Now, Icode!Configuration
  <2> QED
    BY <1>line, <1>type, <1>three, <2>1
       DEF RunInv, FirstRun, SecondRun, BothPrinted, Icode!ACCUMULATOR
<1> QED
  BY <1>1, <1>2, <1>3, <1>4, <1>5, <1>6, <1>7
     DEF MainNext, CheckArguments, OpenFile, Parse, ParseArguments, Check,
         Interpret, Generate, ICodeError

(* On a complete run only the last configuration has halted. *)
LEMMA OnlyTheLastHasHalted ==
  ASSUME NEW line, NEW begin, NEW run, NEW n \in Nat, NEW k \in 0 .. n,
         IsRun(line, begin, run, n), run[k].status = "halted"
  PROVE  k = n
BY DEF IsRun

LEMMA NowIsShown ==
  ASSUME NEW c, c = Now
  PROVE  c.status = status /\ c.registers = registers
BY DEF Now, Icode!Configuration

(* What has been gone through, and printed, is enough for both. *)
LEMMA RunsAgree == RunInv => ExecutionsAgree
<1> SUFFICES ASSUME RunInv, stage = "exit success"
             PROVE  printed.icode = printed.vmcode
  BY DEF ExecutionsAgree
<1>1. PICK n \in Nat : \E run :
        /\ IsRun(cmdline, Begin, run, n)
        /\ printed.icode =
             Printed("iSuccess", run[n].registers[Icode!ACCUMULATOR])
        /\ \E k \in 0 .. n : run[k] = Now
  BY DEF RunInv, SecondRun
<1>2. PICK run :
        /\ IsRun(cmdline, Begin, run, n)
        /\ printed.icode =
             Printed("iSuccess", run[n].registers[Icode!ACCUMULATOR])
        /\ \E k \in 0 .. n : run[k] = Now
  BY <1>1
<1>3. PICK k \in 0 .. n : run[k] = Now
  BY <1>2
<1>4. /\ status = "halted"
      /\ printed.vmcode = Printed("iSuccess", registers[Icode!ACCUMULATOR])
  BY DEF RunInv, BothPrinted
<1>5. run[k].status = status /\ run[k].registers = registers
  BY <1>3, NowIsShown
<1>6. k = n
  BY <1>2, <1>4, <1>5, OnlyTheLastHasHalted
<1> QED
  BY <1>2, <1>4, <1>5, <1>6

LEMMA RunsStayInside == RunInv => VMCodeNeverGoesWild
<1> SUFFICES ASSUME RunInv
             PROVE  status \notin {"wild access above", "wild access below",
                                   "wild fetch"}
  BY DEF VMCodeNeverGoesWild
<1>1. CASE stage \in {"vmcode", "exit success"}
  <2>1. PICK n \in Nat : \E run :
          /\ IsRun(cmdline, Begin, run, n)
          /\ run[n].status = "halted"
          /\ \E k \in 0 .. n : run[k] = Now
    BY <1>1 DEF RunInv, SecondRun
  <2>2. PICK run : /\ IsRun(cmdline, Begin, run, n)
                   /\ run[n].status = "halted"
                   /\ \E k \in 0 .. n : run[k] = Now
    BY <2>1
  <2>3. PICK k \in 0 .. n : run[k] = Now
    BY <2>2
  <2>4. run[k].status \in {"running", "halted"}
    BY <2>2 DEF IsRun
  <2>5. run[k].status = status
    BY <2>3, NowIsShown
  <2> QED
    BY <2>4, <2>5
<1>2. CASE stage = "icode"
  BY <1>2 DEF RunInv, TypeInv, Icode!TypeOK, Icode!Statuses
<1>3. CASE stage \notin {"icode", "vmcode", "exit success"}
  BY <1>3 DEF RunInv, TypeInv, Executing, Icode!Statuses
<1> QED
  BY <1>1, <1>2, <1>3

(* If no step of the first execution depends on memory that nobody wrote, the
   second prints what the first did (main.c:128-131), whatever the code. *)
THEOREM ExecutionsAlwaysAgree == MainSpec /\ []NoStepIsOpen => []ExecutionsAgree
BY RunsAgree, RunInvInit, RunInvStep, PTL DEF MainSpec

(* ... and the interpreter that checks nothing never leaves its arrays: it is only
   given runs that the checking one has been through without an error. *)
THEOREM VMCodeStaysInside == MainSpec /\ []NoStepIsOpen => []VMCodeNeverGoesWild
BY RunsStayInside, RunInvInit, RunInvStep, PTL DEF MainSpec

----------------------------------------------------------------------------
(* Generated code.  Where the code of a command line is what the generator makes of
   its program, the first execution keeps the calling convention, so that no step of
   it is open, whatever the arguments.  The convention is about calls that are open:
   a history of them, which restricts nothing, is added to the variables of Main. *)
CallRun == INSTANCE CallingConvention WITH Jobs <- Runnable, job <- cmdline

GeneratedLines == {line \in Runnable : CallRun!IsGenerated(line)}

Conv == INSTANCE CallingConvention_proof WITH Jobs <- GeneratedLines, job <- cmdline

OpenCalls == IF stage = "icode" THEN Conv!CallsAfter ELSE <<>>

MainInitWithCalls == MainInit /\ activations = <<>>

MainNextWithCalls == MainNext /\ activations' = OpenCalls

MainSpecWithCalls ==
  MainInitWithCalls /\ [][MainNextWithCalls]_<<mainvars, activations>>

LEMMA SameExprCalls ==
  \A prog, n, t : CallRun!ExprCalls(prog, n, t) <=> Conv!ExprCalls(prog, n, t)
BY DEF CallRun!ICodeOperation_init, Conv!ICodeOperation_init,
    CallRun!STACK_POINTER, Conv!STACK_POINTER, CallRun!FRAME_POINTER,
    Conv!FRAME_POINTER, CallRun!RETURN_ADDRESS, Conv!RETURN_ADDRESS,
    CallRun!PROGRAM_COUNTER, Conv!PROGRAM_COUNTER, CallRun!ACCUMULATOR,
    Conv!ACCUMULATOR, CallRun!TEMPORARY, Conv!TEMPORARY, CallRun!Push,
    Conv!Push, CallRun!Pop, Conv!Pop, CallRun!Drop, Conv!Drop,
    CallRun!ExprCalls, Conv!ExprCalls, CallRun!ExprInside, Conv!ExprInside,
    CallRun!ExprCode, Conv!ExprCode, CallRun!CallCode, Conv!CallCode,
    CallRun!BinaryCode, Conv!BinaryCode, CallRun!Zeros, Conv!Zeros,
    CallRun!PushedArguments, Conv!PushedArguments, CallRun!PushZero,
    Conv!PushZero, CallRun!LeaveFrame, Conv!LeaveFrame, CallRun!EnterFrame,
    Conv!EnterFrame, CallRun!LoadVariable, Conv!LoadVariable, CallRun!Prog_func,
    Conv!Prog_func, CallRun!Prog_num_funcs, Conv!Prog_num_funcs,
    CallRun!FunctionNames, Conv!FunctionNames, CallRun!FuncLabel,
    Conv!FuncLabel, CallRun!Concatenated, Conv!Concatenated,
    CallRun!Word, Conv!Word, CallRun!MinInt, Conv!MinInt

LEMMA SameCommCalls ==
  \A n, t : CallRun!CommCalls(n, t) <=> Conv!CommCalls(n, t)
BY DEF CallRun!ICodeOperation_init, Conv!ICodeOperation_init,
    CallRun!STACK_POINTER, Conv!STACK_POINTER, CallRun!FRAME_POINTER,
    Conv!FRAME_POINTER, CallRun!RETURN_ADDRESS, Conv!RETURN_ADDRESS,
    CallRun!PROGRAM_COUNTER, Conv!PROGRAM_COUNTER, CallRun!ACCUMULATOR,
    Conv!ACCUMULATOR, CallRun!TEMPORARY, Conv!TEMPORARY, CallRun!Push,
    Conv!Push, CallRun!Pop, Conv!Pop, CallRun!Drop, Conv!Drop,
    CallRun!CommCalls, Conv!CommCalls, CallRun!CommInside, Conv!CommInside,
    CallRun!CommCode, Conv!CommCode, CallRun!Generated, Conv!Generated,
    CallRun!WhileCode, Conv!WhileCode, CallRun!StoreVariable, Conv!StoreVariable

LEMMA SameReturning == \A t : CallRun!Returning(t) <=> Conv!Returning(t)
BY DEF CallRun!Returning, Conv!Returning

LEMMA SameTable ==
  \A prog, func, t : CallRun!IsTable(prog, func, t) <=> Conv!IsTable(prog, func, t)
BY SameExprCalls, SameCommCalls, SameReturning DEF CallRun!IsTable,
    Conv!IsTable, CallRun!ICodeOperation, Conv!ICodeOperation, CallRun!Opcode,
    Conv!Opcode

LEMMA SameFunctions ==
  \A prog, f : /\ CallRun!Prog_func(prog, f) = Conv!Prog_func(prog, f)
               /\ CallRun!FunctionNames(prog) = Conv!FunctionNames(prog)
               /\ CallRun!Prog_num_funcs(prog) = Conv!Prog_num_funcs(prog)
BY DEF CallRun!Prog_func, Conv!Prog_func, CallRun!Prog_num_funcs,
    Conv!Prog_num_funcs, CallRun!FunctionNames, Conv!FunctionNames

LEMMA SameGenerated ==
  ASSUME NEW line, CallRun!IsGenerated(line)
  PROVE  Conv!IsGenerated(line)
<1>1. PICK tables : CallRun!GeneratedWith(line, tables)
  BY DEF CallRun!IsGenerated
<1> DEFINE Body(func, label) == tables[func.name].comm_code[<<func.body, label>>]
<1>2. CallRun!ProgCode(line.prog, 0, Body) = Conv!ProgCode(line.prog, 0, Body)
  BY DEF CallRun!ProgCode, Conv!ProgCode, CallRun!FuncCode, Conv!FuncCode,
      CallRun!FuncLabel, Conv!FuncLabel, CallRun!Generated, Conv!Generated,
      CallRun!Prog_num_funcs, Conv!Prog_num_funcs, CallRun!ICodeOperation_init,
      Conv!ICodeOperation_init
<1>3. line.code = CallRun!ProgCode(line.prog, 0, Body).code
  BY <1>1 DEF CallRun!GeneratedWith
<1>4. line.code = Conv!ProgCode(line.prog, 0, Body).code
  BY <1>2, <1>3
<1>5. /\ line.prog \in Seq(CallRun!Range(line.prog)) \ {<<>>}
      /\ \A f \in CallRun!FunctionNames(line.prog) :
           /\ CallRun!Prog_func(line.prog, f).name = f
           /\ CallRun!Prog_func(line.prog, f).num_vars \in 0 .. MaxInt
           /\ CallRun!IsTable(line.prog, CallRun!Prog_func(line.prog, f), tables[f])
           /\ tables[f].body =
                << CallRun!Prog_func(line.prog, f).body,
                   IF f = 0 THEN CallRun!Prog_num_funcs(line.prog)
                   ELSE tables[f - 1].comm_code[tables[f - 1].body].next_label >>
  BY <1>1 DEF CallRun!GeneratedWith
<1>6. /\ line.prog \in Seq(Conv!Range(line.prog)) \ {<<>>}
      /\ \A f \in Conv!FunctionNames(line.prog) :
           /\ Conv!Prog_func(line.prog, f).name = f
           /\ Conv!Prog_func(line.prog, f).num_vars \in 0 .. MaxInt
           /\ Conv!IsTable(line.prog, Conv!Prog_func(line.prog, f), tables[f])
           /\ tables[f].body =
                << Conv!Prog_func(line.prog, f).body,
                   IF f = 0 THEN Conv!Prog_num_funcs(line.prog)
                   ELSE tables[f - 1].comm_code[tables[f - 1].body].next_label >>
  BY <1>5, SameTable, SameFunctions DEF CallRun!Range, Conv!Range
<1>7. Conv!GeneratedWith(line, tables)
  BY <1>4, <1>6 DEF Conv!GeneratedWith
<1> QED
  BY <1>7 DEF Conv!IsGenerated

(* This machine, too, is that of Main. *)
LEMMA LinesAreWellFormed == \A line \in GeneratedLines : Conv!WellFormed(line)
BY RunnableAssumption DEF ICodeRun!WellFormed, Conv!WellFormed, ICodeRun!code,
    Conv!code, ICodeRun!ICodeOperation, Conv!ICodeOperation, ICodeRun!Addresses,
    Conv!Addresses, ICodeRun!OperationAt, Conv!OperationAt, ICodeRun!Word,
    Conv!Word, ICodeRun!RegisterOperands, Conv!RegisterOperands,
    ICodeRun!initial_stack, Conv!initial_stack, ICodeRun!Opcode, Conv!Opcode,
    ICodeRun!MinInt, Conv!MinInt, ICodeRun!TwoRegisters, Conv!TwoRegisters,
    GeneratedLines

LEMMA SameGeneratedStep == ICodeRun!Next <=> Conv!Next
BY DEF ICodeRun!Next, Conv!Next, ICodeRun!Move, Conv!Move, ICodeRun!LoadImm,
    Conv!LoadImm, ICodeRun!Add, Conv!Add, ICodeRun!Sub, Conv!Sub, ICodeRun!Load,
    Conv!Load, ICodeRun!Store, Conv!Store, ICodeRun!Jump, Conv!Jump,
    ICodeRun!JumpCondTaken, Conv!JumpCondTaken, ICodeRun!JumpCondNotTaken,
    Conv!JumpCondNotTaken, ICodeRun!JumpLink, Conv!JumpLink, ICodeRun!JumpAddr,
    Conv!JumpAddr, ICodeRun!Label, Conv!Label, ICodeRun!Halt, Conv!Halt,
    ICodeRun!StackOverflow, Conv!StackOverflow, ICodeRun!StackUnderflow,
    Conv!StackUnderflow, ICodeRun!IndexOutOfBounds, Conv!IndexOutOfBounds,
    ICodeRun!Executing, Conv!Executing, ICodeRun!SetAndAdvance,
    Conv!SetAndAdvance, ICodeRun!current, Conv!current, ICodeRun!Plus,
    Conv!Plus, ICodeRun!Minus, Conv!Minus, ICodeRun!Denotes, Conv!Denotes,
    ICodeRun!PROGRAM_COUNTER, Conv!PROGRAM_COUNTER, ICodeRun!Wrap, Conv!Wrap,
    ICodeRun!Goto, Conv!Goto, ICodeRun!LookupLabelAddress,
    Conv!LookupLabelAddress, ICodeRun!Contents, Conv!Contents,
    ICodeRun!GuardFails, Conv!GuardFails, ICodeRun!Advance, Conv!Advance,
    ICodeRun!RETURN_ADDRESS, Conv!RETURN_ADDRESS, ICodeRun!pc, Conv!pc,
    ICodeRun!AccessingStack, Conv!AccessingStack, ICodeRun!AddressRegister,
    Conv!AddressRegister, ICodeRun!Abort, Conv!Abort, ICodeRun!Addresses,
    Conv!Addresses, ICodeRun!code, Conv!code, ICodeRun!OperationAt,
    Conv!OperationAt, ICodeRun!Word, Conv!Word, ICodeRun!MinInt, Conv!MinInt,
    ICodeRun!LabelSites, Conv!LabelSites

LEMMA SameGeneratedStart ==
  /\ ICodeRun!InitialRegisters = Conv!InitialRegisters
  /\ ICodeRun!InitialStack = Conv!InitialStack
  /\ ICodeRun!HasNegativeLabel = Conv!HasNegativeLabel
BY DEF ICodeRun!InitialRegisters, Conv!InitialRegisters, ICodeRun!RegisterFile,
    Conv!RegisterFile, ICodeRun!STACK_POINTER, Conv!STACK_POINTER,
    ICodeRun!initial_stack, Conv!initial_stack, ICodeRun!FRAME_POINTER,
    Conv!FRAME_POINTER, ICodeRun!RETURN_ADDRESS, Conv!RETURN_ADDRESS,
    ICodeRun!PROGRAM_COUNTER, Conv!PROGRAM_COUNTER, ICodeRun!ScannedRegisters,
    Conv!ScannedRegisters, ICodeRun!TEMPORARY, Conv!TEMPORARY,
    ICodeRun!RegisterOperands, Conv!RegisterOperands, ICodeRun!OperationAt,
    Conv!OperationAt, ICodeRun!code, Conv!code, ICodeRun!Addresses,
    Conv!Addresses, ICodeRun!TwoRegisters, Conv!TwoRegisters,
    ICodeRun!InitialStack, Conv!InitialStack, ICodeRun!HasNegativeLabel,
    Conv!HasNegativeLabel

LEMMA SameGeneratedIsOpen ==
  \A ops, r, s : ICodeRun!IsOpen(ops, r, s) <=> Conv!IsOpen(ops, r, s)
BY DEF ICodeRun!IsOpen, Conv!IsOpen, ICodeRun!OperationAt, Conv!OperationAt,
    ICodeRun!PROGRAM_COUNTER, Conv!PROGRAM_COUNTER, ICodeRun!Addresses,
    Conv!Addresses, ICodeRun!GuardFails, Conv!GuardFails, ICodeRun!LabelSites,
    Conv!LabelSites, ICodeRun!code, Conv!code

LEMMA LinesAreTyped == Conv!TypedJobs
<1>1. Conv!GeneratedJobs
  BY SameGenerated DEF Conv!GeneratedJobs, GeneratedLines
<1> QED
  BY <1>1, Conv!GeneratedJobsAreTyped, LinesAreWellFormed, MainMaxIntAssumption,
     MainUninitAssumption, MainStackSizeAssumption

LEMMA ConventionStarts == Conv!CInit => Conv!Convention
BY LinesAreTyped, Conv!ConventionInitially, LinesAreWellFormed,
   MainMaxIntAssumption, MainUninitAssumption, MainStackSizeAssumption

LEMMA ConventionIsKept ==
  Conv!Convention /\ [Conv!CNext]_(Conv!cvars) => (Conv!Convention)'
BY LinesAreTyped, Conv!ConventionStep, LinesAreWellFormed,
   MainMaxIntAssumption, MainUninitAssumption, MainStackSizeAssumption

LEMMA ConventionIsClosed ==
  Conv!Convention /\ status = "running" => ~Conv!IsOpen(cmdline.code, registers, stack)
BY LinesAreTyped, Conv!ConventionCloses, LinesAreWellFormed,
   MainMaxIntAssumption, MainUninitAssumption, MainStackSizeAssumption
   DEF Conv!code

LEMMA CallsAreFollowed ==
  ASSUME stage = "icode", ICodeRun!Next, activations' = OpenCalls
  PROVE  Conv!CNext
BY SameGeneratedStep, Conv!EveryStepIsFollowed, LinesAreWellFormed,
   MainMaxIntAssumption, MainUninitAssumption, MainStackSizeAssumption
   DEF OpenCalls

(* The first machine starts on generated code with no call open. *)
LEMMA GeneratedMachineStarts ==
  ASSUME cmdline \in GeneratedLines, UNCHANGED cmdline, StartMachine,
         activations' = <<>>
  PROVE  (Conv!CInit)' /\ (Conv!Convention)'
<1>1. /\ registers' = Conv!InitialRegisters'
      /\ stack' = Conv!InitialStack'
      /\ status' = IF Conv!HasNegativeLabel' THEN "negative label" ELSE "running"
  <2>1. /\ Conv!InitialRegisters' = Conv!InitialRegisters
        /\ Conv!InitialStack' = Conv!InitialStack
        /\ Conv!HasNegativeLabel' <=> Conv!HasNegativeLabel
    BY DEF Conv!InitialRegisters, Conv!RegisterFile, Conv!STACK_POINTER,
        Conv!initial_stack, Conv!FRAME_POINTER, Conv!RETURN_ADDRESS,
        Conv!PROGRAM_COUNTER, Conv!ScannedRegisters, Conv!TEMPORARY,
        Conv!RegisterOperands, Conv!OperationAt, Conv!code, Conv!Addresses,
        Conv!TwoRegisters, Conv!InitialStack, Conv!HasNegativeLabel
  <2> QED
    BY <2>1, SameGeneratedStart DEF StartMachine
<1>2. (Conv!CInit)'
  BY <1>1 DEF Conv!CInit, Conv!Init
<1>3. (Conv!CInit)' => (Conv!Convention)'
  BY ConventionStarts, PTL
<1> QED
  BY <1>2, <1>3

(* While generated code is executed, the convention is kept. *)
KeepsConvention ==
  stage = "icode" /\ cmdline \in GeneratedLines => Conv!Convention

LEMMA ConventionCloses ==
  KeepsConvention /\ cmdline \in GeneratedLines => NoStepIsOpen
BY ConventionIsClosed, SameGeneratedIsOpen DEF KeepsConvention, NoStepIsOpen

LEMMA KeepsConventionInit == MainInitWithCalls => KeepsConvention
BY DEF MainInitWithCalls, MainInit, KeepsConvention

LEMMA KeepsConventionStep ==
  KeepsConvention /\ [MainNextWithCalls]_<<mainvars, activations>> => KeepsConvention'
<1> SUFFICES ASSUME KeepsConvention, [MainNextWithCalls]_<<mainvars, activations>>,
                    (stage = "icode")', (cmdline \in GeneratedLines)'
             PROVE  (Conv!Convention)'
  BY DEF KeepsConvention
<1>1. UNCHANGED cmdline /\ cmdline \in GeneratedLines
  BY CommandLineNeverChanges DEF MainNextWithCalls, GeneratedLines
<1>2. CASE MainNextWithCalls /\ Generate
  <2>1. stage = "generate" /\ StartMachine /\ activations' = <<>>
    BY <1>2 DEF MainNextWithCalls, Generate, OpenCalls
  <2> QED
    BY <1>1, <2>1, GeneratedMachineStarts
<1>3. CASE MainNextWithCalls /\ StepICode
  <2>1. stage = "icode" /\ ICodeRun!Next /\ activations' = OpenCalls
    BY <1>3 DEF MainNextWithCalls, StepICode
  <2>2. Conv!CNext
    BY <2>1, CallsAreFollowed
  <2> QED
    BY <1>1, <2>1, <2>2, ConventionIsKept DEF KeepsConvention
<1>4. CASE UNCHANGED <<mainvars, activations>>
  <2>1. stage = "icode" /\ UNCHANGED Conv!cvars
    BY <1>4 DEF mainvars, Conv!cvars
  <2> QED
    BY <1>1, <2>1, ConventionIsKept DEF KeepsConvention
<1> QED
  BY <1>2, <1>3, <1>4
     DEF MainNextWithCalls, MainNext, CheckArguments, OpenFile, Parse,
         ParseArguments, Check, Interpret, PrintICodeResult, ICodeError,
         StepVMCode, PrintVMCodeResult

(* No step of an execution of generated code depends on memory that nobody wrote,
   whatever the program and the arguments (icodegen.c:205-212 clears the locals, and
   what main.c passes for a stack may be too short), ... *)
THEOREM GeneratedCodeIsNeverOpen ==
  MainSpecWithCalls => [](cmdline \in GeneratedLines => NoStepIsOpen)
<1>1. KeepsConvention => (cmdline \in GeneratedLines => NoStepIsOpen)
  BY ConventionCloses
<1> QED
  BY <1>1, KeepsConventionInit, KeepsConventionStep, PTL DEF MainSpecWithCalls

(* ... so the interpreter that checks nothing goes the same way, prints the same
   result and never leaves its arrays (main.c:111-131). *)
GeneratedRunInv == KeepsConvention /\ (cmdline \in GeneratedLines => RunInv)

THEOREM GeneratedExecutionsAgree ==
  MainSpecWithCalls =>
    [](cmdline \in GeneratedLines => ExecutionsAgree /\ VMCodeNeverGoesWild)
<1>1. MainInitWithCalls => GeneratedRunInv
  BY KeepsConventionInit, RunInvInit DEF GeneratedRunInv, MainInitWithCalls
<1>2. GeneratedRunInv /\ [MainNextWithCalls]_<<mainvars, activations>>
        => GeneratedRunInv'
  <2> SUFFICES ASSUME GeneratedRunInv, [MainNextWithCalls]_<<mainvars, activations>>
               PROVE  GeneratedRunInv'
    OBVIOUS
  <2>1. KeepsConvention'
    BY KeepsConventionStep DEF GeneratedRunInv
  <2>2. [MainNext]_mainvars
    BY DEF MainNextWithCalls
  <2>3. (cmdline \in GeneratedLines)' => cmdline \in GeneratedLines
    BY <2>2, CommandLineNeverChanges DEF GeneratedLines
  <2>4. cmdline \in GeneratedLines => RunInv'
    BY <2>2, ConventionCloses, RunInvStep DEF GeneratedRunInv
  <2> QED
    BY <2>1, <2>3, <2>4 DEF GeneratedRunInv
<1>3. GeneratedRunInv =>
        (cmdline \in GeneratedLines => ExecutionsAgree /\ VMCodeNeverGoesWild)
  BY RunsAgree, RunsStayInside DEF GeneratedRunInv
<1> QED
  BY <1>1, <1>2, <1>3, PTL DEF MainSpecWithCalls
----------------------------------------------------------------------------
(* And where the interpreter could run the program, started on the stack that its code
   asks for, all three results are the same. *)
InterpretedLines ==
  {line \in GeneratedLines :
     line.outcome.type \notin Conv!Unknown /\ Conv!Interpreted(line)}

LEMMA UnderwayStarts ==
  ASSUME Conv!CInit, cmdline \in InterpretedLines
  PROVE  Conv!Underway
<1>1. Conv!GeneratedJobs
  BY SameGenerated DEF Conv!GeneratedJobs, GeneratedLines
<1> QED
  BY <1>1, Conv!UnderwayInitially, LinesAreWellFormed, MainMaxIntAssumption,
     MainUninitAssumption, MainStackSizeAssumption DEF InterpretedLines

LEMMA UnderwayIsKept ==
  Conv!Convention /\ Conv!Underway /\ [Conv!CNext]_(Conv!cvars) => (Conv!Underway)'
BY LinesAreTyped, Conv!UnderwayNext, LinesAreWellFormed,
   MainMaxIntAssumption, MainUninitAssumption, MainStackSizeAssumption

(* Where the machine under way has halted, it has the result of the interpreter. *)
LEMMA UnderwayEnds ==
  ASSUME Conv!Convention, Conv!Underway, cmdline \in InterpretedLines, status = "halted"
  PROVE  /\ cmdline.outcome.type = "iSuccess"
         /\ ICodeRun!Result = cmdline.outcome.result
<1>1. Conv!TypeOK
  BY DEF Conv!Convention
<1>2. /\ Conv!Here \in Conv!Configurations(Conv!RegisterFile)
      /\ Conv!Here.registers = registers /\ Conv!Here.status = status
  BY <1>1, Conv!HereIs, LinesAreWellFormed, MainMaxIntAssumption, MainUninitAssumption,
     MainStackSizeAssumption
<1>3. /\ cmdline.outcome.type = "iSuccess"
      /\ Conv!Arrives(cmdline, Conv!RegisterFile, Conv!Here, cmdline.outcome.result)
  BY DEF Conv!Underway, InterpretedLines
<1>4. Conv!Here.registers[Conv!ACCUMULATOR] = cmdline.outcome.result
  BY <1>2, <1>3, Conv!HaltedArrived, LinesAreWellFormed, MainMaxIntAssumption,
     MainUninitAssumption, MainStackSizeAssumption
<1> QED
  BY <1>2, <1>3, <1>4 DEF ICodeRun!Result, ICodeRun!ACCUMULATOR, Conv!ACCUMULATOR

(* The interpreter's result is printed, the machine arrives at it, and prints it. *)
InterpretedIsPrinted ==
  stage \in {"generate"} \cup Executing =>
    printed.interpreter = Printed(cmdline.outcome.type, cmdline.outcome.result)

ArrivesAtResult ==
  cmdline \in InterpretedLines =>
    /\ stage = "icode" => Conv!Underway
    /\ stage \in {"vmcode", "exit success"} =>
         /\ cmdline.outcome.type = "iSuccess"
         /\ printed.icode = Printed("iSuccess", cmdline.outcome.result)

ResultInv ==
  KeepsConvention /\ HasThreeResults /\ InterpretedIsPrinted /\ ArrivesAtResult

LEMMA ResultInvInit == MainInitWithCalls => ResultInv
BY KeepsConventionInit
   DEF MainInitWithCalls, MainInit, ResultInv, HasThreeResults, InterpretedIsPrinted,
       ArrivesAtResult, Executing

LEMMA InterpretedIsPrintedStep ==
  ASSUME HasThreeResults, InterpretedIsPrinted, [MainNext]_mainvars
  PROVE  HasThreeResults' /\ InterpretedIsPrinted'
<1>1. cmdline' = cmdline
  BY CommandLineNeverChanges
<1>2. CASE Interpret
  BY <1>1, <1>2 DEF Interpret, HasThreeResults, InterpretedIsPrinted, Executing
<1>3. CASE PrintICodeResult \/ PrintVMCodeResult
  BY <1>1, <1>3
     DEF PrintICodeResult, PrintVMCodeResult, HasThreeResults, InterpretedIsPrinted,
         Executing
<1>4. CASE UNCHANGED printed /\ (stage' \in {"generate"} \cup Executing =>
                                  stage \in {"generate"} \cup Executing)
  BY <1>1, <1>4 DEF HasThreeResults, InterpretedIsPrinted
<1> QED
  BY <1>2, <1>3, <1>4
     DEF MainNext, mainvars, CheckArguments, OpenFile, Parse, ParseArguments, Check,
         Generate, StepICode, ICodeError, StepVMCode, Executing

LEMMA ArrivesAtResultStep ==
  ASSUME ResultInv, [MainNextWithCalls]_<<mainvars, activations>>
  PROVE  ArrivesAtResult'
<1> SUFFICES ASSUME (cmdline \in InterpretedLines)'
             PROVE  /\ stage' = "icode" => (Conv!Underway)'
                    /\ stage' \in {"vmcode", "exit success"} =>
                         /\ cmdline'.outcome.type = "iSuccess"
                         /\ printed'.icode = Printed("iSuccess", cmdline'.outcome.result)
  BY DEF ArrivesAtResult
<1>1. cmdline' = cmdline /\ cmdline \in InterpretedLines /\ cmdline \in GeneratedLines
  BY CommandLineNeverChanges DEF MainNextWithCalls, InterpretedLines, GeneratedLines
<1>2. CASE MainNextWithCalls /\ Generate
  <2>1. /\ stage' \in {"icode", "exit failure"}
        /\ stage' = "icode" => StartMachine /\ activations' = <<>>
    BY <1>2 DEF MainNextWithCalls, Generate, OpenCalls
  <2>2. ASSUME stage' = "icode" PROVE (Conv!CInit)'
    BY <1>1, <2>1, <2>2, GeneratedMachineStarts
  <2>3. (Conv!CInit)' /\ (cmdline \in InterpretedLines)' => (Conv!Underway)'
    BY UnderwayStarts, PTL
  <2> QED
    BY <2>1, <2>2, <2>3
<1>3. CASE MainNextWithCalls /\ StepICode
  <2>1. stage = "icode" /\ stage' = "icode" /\ ICodeRun!Next /\ activations' = OpenCalls
    BY <1>3 DEF MainNextWithCalls, StepICode
  <2>2. Conv!CNext
    BY <2>1, CallsAreFollowed
  <2> QED
    BY <1>1, <2>1, <2>2, UnderwayIsKept DEF ResultInv, ArrivesAtResult, KeepsConvention
<1>4. CASE UNCHANGED <<mainvars, activations>>
  <2>1. UNCHANGED Conv!cvars /\ stage' = stage /\ printed' = printed
    BY <1>4 DEF mainvars, Conv!cvars
  <2> QED
    BY <1>1, <2>1, UnderwayIsKept DEF ResultInv, ArrivesAtResult, KeepsConvention
<1>5. CASE MainNextWithCalls /\ PrintICodeResult
  <2>1. /\ stage = "icode" /\ status = "halted" /\ stage' = "vmcode"
        /\ printed' = [printed EXCEPT !.icode = Printed("iSuccess", ICodeRun!Result)]
    BY <1>5 DEF PrintICodeResult
  <2>2. Conv!Convention /\ Conv!Underway
    BY <1>1, <2>1 DEF ResultInv, KeepsConvention, ArrivesAtResult
  <2>3. /\ cmdline.outcome.type = "iSuccess"
        /\ ICodeRun!Result = cmdline.outcome.result
    BY <1>1, <2>1, <2>2, UnderwayEnds
  <2> QED
    BY <1>1, <2>1, <2>3 DEF ResultInv, HasThreeResults
<1>6. CASE MainNextWithCalls /\ (StepVMCode \/ PrintVMCodeResult)
  <2>1. /\ stage \in {"vmcode", "exit success"} /\ stage' \in {"vmcode", "exit success"}
        /\ printed'.icode = printed.icode
    BY <1>6 DEF StepVMCode, PrintVMCodeResult, ResultInv, HasThreeResults
  <2> QED
    BY <1>1, <2>1 DEF ResultInv, ArrivesAtResult
<1>7. CASE stage' \notin {"icode", "vmcode", "exit success"}
  BY <1>7
<1> QED
  BY <1>2, <1>3, <1>4, <1>5, <1>6, <1>7
     DEF MainNextWithCalls, MainNext, CheckArguments, OpenFile, Parse, ParseArguments,
         Check, Interpret, ICodeError

LEMMA ResultInvStep ==
  ResultInv /\ [MainNextWithCalls]_<<mainvars, activations>> => ResultInv'
<1> SUFFICES ASSUME ResultInv, [MainNextWithCalls]_<<mainvars, activations>>
             PROVE  ResultInv'
  OBVIOUS
<1>1. [MainNext]_mainvars
  BY DEF MainNextWithCalls
<1> QED
  BY <1>1, KeepsConventionStep, InterpretedIsPrintedStep, ArrivesAtResultStep DEF ResultInv

LEMMA ResultsOfInterpreted ==
  ASSUME ResultInv, cmdline \in InterpretedLines, ExecutionsAgree
  PROVE  ResultsAgree
BY DEF ResultInv, InterpretedIsPrinted, ArrivesAtResult, ExecutionsAgree, ResultsAgree,
       Executing

(* Whatever program the code was generated from: what main prints for it is three times
   the same (main.c:98-131). *)
THEOREM ResultsAlwaysAgree ==
  MainSpecWithCalls => [](cmdline \in InterpretedLines => ResultsAgree)
<1>1. (cmdline \in GeneratedLines => ExecutionsAgree /\ VMCodeNeverGoesWild) /\ ResultInv
        => (cmdline \in InterpretedLines => ResultsAgree)
  BY ResultsOfInterpreted DEF InterpretedLines
<1> QED
  BY <1>1, ResultInvInit, ResultInvStep, GeneratedExecutionsAgree, PTL
     DEF MainSpecWithCalls

(* In terms of what the checked property says of a command line: that its arguments
   happen to be that stack, and that no call's result is assigned or guards a loop,
   has to mean that what the interpreter did is a table of calls. *)
AgreeingLines ==
  {line \in GeneratedLines :
     line.outcome.type = "iSuccess" /\ line.preconfigured /\ ~line.uses_call =>
       Conv!Interpreted(line)}

THEOREM ResultsAlwaysAgreeIfPreconfigured ==
  MainSpecWithCalls => [](cmdline \in AgreeingLines => ResultsAgreeIfPreconfigured)
<1>1. (cmdline \in InterpretedLines => ResultsAgree) /\ ResultInv
        => (cmdline \in AgreeingLines => ResultsAgreeIfPreconfigured)
  <2> SUFFICES ASSUME cmdline \in InterpretedLines => ResultsAgree, ResultInv,
                      cmdline \in AgreeingLines, stage = "exit success",
                      printed.interpreter.type = "iSuccess",
                      cmdline.preconfigured, ~cmdline.uses_call
               PROVE  ResultsAgree
    BY DEF ResultsAgreeIfPreconfigured, ResultsAgree
  <2>1. printed.interpreter = Printed(cmdline.outcome.type, cmdline.outcome.result)
    BY DEF ResultInv, InterpretedIsPrinted, Executing
  <2>2. PICK kind, value : kind = cmdline.outcome.type /\ value = cmdline.outcome.result
    OBVIOUS
  <2>3. Printed(kind, value).type = kind
    BY DEF Printed
  <2>4. cmdline.outcome.type = "iSuccess"
    BY <2>1, <2>2, <2>3
  <2> QED
    BY <2>4 DEF AgreeingLines, InterpretedLines, Conv!Unknown
<1> QED
  BY <1>1, ResultInvInit, ResultInvStep, ResultsAlwaysAgree, PTL DEF MainSpecWithCalls
=============================================================================
