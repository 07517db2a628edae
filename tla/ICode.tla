------------------------------- MODULE ICode -------------------------------
(***************************************************************************)
(* The intermediate code of MiniJIT (icode.h, icode.c): an accumulator     *)
(* machine with a stack, addressed by registers, and jumps to numbered     *)
(* labels.  An operation is an opcode with two integer arguments; what an  *)
(* argument means (a register, a literal, a label) depends on the opcode.  *)
(***************************************************************************)
EXTENDS Integers, Sequences

(* ------------------------------ Registers ------------------------------ *)
STACK_POINTER   == 0
FRAME_POINTER   == 1
RETURN_ADDRESS  == 2
PROGRAM_COUNTER == 3
ACCUMULATOR     == 4
TEMPORARY       == 5

(* ------------------------------ Operations ----------------------------- *)
Opcode == {"MOVE", "LOAD", "STORE", "ADD", "SUB", "LOADIMM", "JUMP",
           "JUMPCOND", "JUMPLINK", "JUMPADDR", "LABEL", "HALT"}

ICodeOperation == [opc : Opcode, arg1 : Int, arg2 : Int]

ICodeOperation_init(opc, arg1, arg2) ==
  [opc |-> opc, arg1 |-> arg1, arg2 |-> arg2]

(* The opcodes both of whose arguments are registers. *)
TwoRegisters == {"MOVE", "LOAD", "STORE", "ADD", "SUB"}

(* The registers an operation names.  RETURN_ADDRESS (JUMPLINK) and
   PROGRAM_COUNTER are implicit. *)
RegisterOperands(op) ==
  {r \in {op.arg1, op.arg2} :
     \/ op.opc \in TwoRegisters
     \/ op.opc \in {"LOADIMM", "JUMPCOND"} /\ r = op.arg2
     \/ op.opc = "JUMPADDR" /\ r = op.arg1}

(* A vector of operations is indexed from 0 by the program counter. *)
Addresses(code) == 0 .. Len(code) - 1

OperationAt(code, address) == code[address + 1]

(* The addresses that define a label. *)
LabelSites(code, label) ==
  {a \in Addresses(code) : /\ OperationAt(code, a).opc = "LABEL"
                           /\ OperationAt(code, a).arg1 = label}
============================================================================
