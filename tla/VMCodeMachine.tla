---------------------------- MODULE VMCodeMachine ----------------------------
(***************************************************************************)
(* The VMCode interpreter (vmcode_interpreter.c, vmcodegen.c).  VMCode is  *)
(* the operations laid out in one array of ints; the interpreter shares    *)
(* the initial state of the icode interpreter, checks neither the program  *)
(* counter nor the stack bounds, and should otherwise compute the same.    *)
(*                                                                         *)
(* What the unchecked access does when it is out of bounds is undefined.   *)
(* The model stops there, with a status that says which access it was, and *)
(* claims nothing about what follows.                                      *)
(***************************************************************************)
EXTENDS ICode

CONSTANTS
  Jobs, StackSize, MaxInt, Uninit   (* as in ICodeMachine *)

VARIABLES
  job, registers, stack,            (* as in ICodeMachine *)
  vmstatus                          (* how the run stands *)

vmvars == <<job, registers, stack, vmstatus>>

VMStatuses == {"running", "halted", "negative label",
               "wild access above", "wild access below", "wild fetch"}

(* What the icode interpreter reports where this one goes wild. *)
StatusOf ==
  CASE vmstatus = "wild access above" -> "stack overflow"
    [] vmstatus = "wild access below" -> "stack underflow"
    [] vmstatus = "wild fetch"        -> "index out of bounds"
    [] OTHER                          -> vmstatus

(* VMCodeInterpreterState_init takes over the registers, the stack and the
   labels of an icode interpreter state. *)
ICodeState == INSTANCE ICodeMachine WITH status <- StatusOf

(* The assumptions of ICodeMachine. *)
ASSUME VMMaxIntAssumption == MaxInt \in Nat \ {0}
ASSUME VMUninitAssumption == Uninit \notin Int
ASSUME VMStackSizeAssumption == StackSize \in 1 .. MaxInt
ASSUME VMJobsAssumption == \A j \in Jobs : ICodeState!WellFormed(j)

----------------------------------------------------------------------------
(* VMCodeGen: sizeof(ICodeOperation) bytes are three ints, and both the
   generator and the interpreter use that number of bytes as a number of ints:
   of every twelve cells the first three hold the operation. *)
VMCode_instruction_size == 12

VMCodeGen(ops) ==
  [i \in 0 .. VMCode_instruction_size * Len(ops) - 1 |->
     LET op   == OperationAt(ops, i \div VMCode_instruction_size)
         cell == i % VMCode_instruction_size
     IN  CASE cell = 0 -> op.opc
           [] cell = 1 -> op.arg1
           [] cell = 2 -> op.arg2
           [] OTHER    -> Uninit]

vmcode == VMCodeGen(ICodeState!code)

Cell(n) == vmcode[registers[PROGRAM_COUNTER] * VMCode_instruction_size + n]
OPC  == Cell(0)
ARG1 == Cell(1)
ARG2 == Cell(2)

(* The program counter is inside the array. *)
Fetching ==
  /\ vmstatus = "running"
  /\ registers[PROGRAM_COUNTER] * VMCode_instruction_size \in DOMAIN vmcode

Dispatch(opc) == Fetching /\ OPC = opc

----------------------------------------------------------------------------
(* VMCodeInterpreterState_run.  Word arithmetic, uninitialised words and the
   label table are those of ICodeMachine. *)
Contents(r) == ICodeState!Contents(r)

(* Mutant: the program counter is advanced before the register is set. *)
AdvanceThenSet(r, v) ==
  /\ \E w \in IF r = PROGRAM_COUNTER THEN ICodeState!Denotes(v) ELSE {v} :
       registers' = [registers EXCEPT ![PROGRAM_COUNTER] = ICodeState!Wrap(@ + 1),
                                      ![r] = w]
  /\ UNCHANGED <<job, vmstatus>>

SetAndAdvance(r, v) ==
  /\ \E w \in IF r = PROGRAM_COUNTER THEN ICodeState!Denotes(v) ELSE {v} :
       registers' = [[registers EXCEPT ![r] = w]
                       EXCEPT ![PROGRAM_COUNTER] = ICodeState!Wrap(@ + 1)]
  /\ UNCHANGED <<job, vmstatus>>

Goto(addresses) ==
  /\ \E a \in addresses : registers' = [registers EXCEPT ![PROGRAM_COUNTER] = a]
  /\ UNCHANGED <<job, stack, vmstatus>>

Advance == Goto({ICodeState!Wrap(registers[PROGRAM_COUNTER] + 1)})

Move ==
  /\ Dispatch("MOVE")
  /\ SetAndAdvance(ARG2, registers[ARG1])
  /\ UNCHANGED stack

LoadImm ==
  /\ Dispatch("LOADIMM")
  /\ SetAndAdvance(ARG2, ARG1)
  /\ UNCHANGED stack

Add ==
  /\ Dispatch("ADD")
  /\ SetAndAdvance(ARG1, ICodeState!Plus(registers[ARG1], registers[ARG2]))
  /\ UNCHANGED stack

Sub ==
  /\ Dispatch("SUB")
  /\ SetAndAdvance(ARG1, ICodeState!Minus(registers[ARG1], registers[ARG2]))
  /\ UNCHANGED stack

(* stack[registers[ARG1]], where that is inside the array. *)
Load ==
  /\ Dispatch("LOAD")
  /\ \E a \in ICodeState!Denotes(registers[ARG1]) \cap DOMAIN stack :
       SetAndAdvance(ARG2, stack[a])
  /\ UNCHANGED stack

Store ==
  /\ Dispatch("STORE")
  /\ \E a \in ICodeState!Denotes(registers[ARG2]) \cap DOMAIN stack :
       stack' = [stack EXCEPT ![a] = registers[ARG1]]
  /\ registers' = [registers EXCEPT ![PROGRAM_COUNTER] = ICodeState!Wrap(@ + 1)]
  /\ UNCHANGED <<job, vmstatus>>

Jump ==
  /\ Dispatch("JUMP")
  /\ Goto(ICodeState!LookupLabelAddress(ARG1))

JumpCondTaken ==
  /\ Dispatch("JUMPCOND")
  /\ \E v \in ICodeState!Denotes(Contents(ARG2)) : v < 1
  /\ Goto(ICodeState!LookupLabelAddress(ARG1))

JumpCondNotTaken ==
  /\ Dispatch("JUMPCOND")
  /\ \E v \in ICodeState!Denotes(Contents(ARG2)) : v >= 1
  /\ Advance

JumpLink ==
  /\ Dispatch("JUMPLINK")
  /\ \E a \in ICodeState!LookupLabelAddress(ARG1) :
       registers' =
         [registers EXCEPT
            ![RETURN_ADDRESS]  = ICodeState!Wrap(registers[PROGRAM_COUNTER] + 1),
            ![PROGRAM_COUNTER] = a]
  /\ UNCHANGED <<job, stack, vmstatus>>

JumpAddr ==
  /\ Dispatch("JUMPADDR")
  /\ Goto(ICodeState!Denotes(registers[ARG1]))

Label ==
  /\ Dispatch("LABEL")
  /\ Advance

Halt ==
  /\ Dispatch("HALT")
  /\ vmstatus' = "halted"
  /\ UNCHANGED <<job, registers, stack>>

----------------------------------------------------------------------------
(* The accesses that nothing checks. *)
GoWild(kind) ==
  /\ vmstatus' = kind
  /\ UNCHANGED <<job, registers, stack>>

AccessedAddresses ==
  IF OPC = "LOAD" THEN ICodeState!Denotes(registers[ARG1])
                  ELSE ICodeState!Denotes(registers[ARG2])

WildAccess ==
  /\ Dispatch("LOAD") \/ Dispatch("STORE")
  /\ \E a \in AccessedAddresses \ DOMAIN stack :
       GoWild(IF a >= StackSize THEN "wild access above"
                                ELSE "wild access below")

WildFetch ==
  /\ vmstatus = "running"
  /\ ~Fetching
  /\ GoWild("wild fetch")

VMInit ==
  /\ job \in Jobs
  /\ registers = ICodeState!InitialRegisters
  /\ stack = ICodeState!InitialStack
  /\ vmstatus = IF ICodeState!HasNegativeLabel THEN "negative label"
                                               ELSE "running"

VMNext ==
  \/ Move \/ LoadImm \/ Add \/ Sub \/ Load \/ Store
  \/ Jump \/ JumpCondTaken \/ JumpCondNotTaken \/ JumpLink \/ JumpAddr
  \/ Label \/ Halt
  \/ WildAccess \/ WildFetch

VMSpec == VMInit /\ [][VMNext]_vmvars

FairVMSpec == VMSpec /\ WF_vmvars(VMNext)

VMResult == registers[ACCUMULATOR]
----------------------------------------------------------------------------
(* Type correctness, in the terms of the icode machine whose state this is. *)
VMTypeOK ==
  /\ ICodeState!TypeOK
  /\ vmstatus \in VMStatuses

(* The VMCode interpreter computes what the icode interpreter computes, step
   by step, up to the point where that one would report an error. *)
ImplementsICodeMachine == ICodeState!FairSpec
=============================================================================
