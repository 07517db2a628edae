--------------------------- MODULE NativeContract ---------------------------
(***************************************************************************)
(* What the templates of native code promise, as the tests of them assert  *)
(* it: each is one step on registers of 64 bits and a memory of bytes.     *)
(* Arithmetic and moves are on 32 bits and clear the others; loads and     *)
(* stores are on 64.  (Of ADD and JUMPCOND icode.h says otherwise: see     *)
(* ComputesAsDocumented of MCNative.)                                      *)
(***************************************************************************)
EXTENDS NativeBasics

CONSTANT StackBytes   (* the size of the stack *)

VARIABLES
  ops,          (* the operations: these three never change                *)
  address,      (* where the code of each of them is                       *)
  stack_addr,   (* the address given to the preamble                       *)
  pc, regs, memory, status, result

given == <<ops, address, stack_addr>>

cvars == <<given, pc, regs, memory, status, result>>

CInit ==
  /\ pc = Following(ops, 0)
  /\ regs = [r \in NativeRegisters |->
               IF r \in {STACK_POINTER, FRAME_POINTER} THEN stack_addr ELSE 0]
  /\ memory \in [stack_addr .. stack_addr + StackBytes - 1 -> 0 .. ByteBase - 1]
  /\ status = "running"
  /\ result = 0

op == ops[pc]

(* The generator refuses other registers. *)
At(opc) ==
  status = "running" /\ pc # Nowhere /\ op.opc = opc /\ CHECK_ICODE_REG(op)

Set(r, v) ==
  /\ regs' = [regs EXCEPT ![r] = v]
  /\ pc' = Following(ops, pc)
  /\ UNCHANGED <<memory, status, result>>

Goto(i) == pc' = i /\ UNCHANGED <<regs, memory, status, result>>

Move    == At("MOVE") /\ Set(op.arg2, regs[op.arg1] % Word32)
Add     == At("ADD") /\ Set(op.arg2, (regs[op.arg1] + regs[op.arg2]) % Word32)
Sub     == At("SUB") /\ Set(op.arg1, (regs[op.arg1] - regs[op.arg2]) % Word32)
LoadImm == At("LOADIMM") /\ Set(op.arg2, op.arg1 % Word32)

Load ==
  /\ At("LOAD")
  /\ Accessible(memory, regs[op.arg1], 8)
  /\ Set(op.arg2, Read(memory, regs[op.arg1], 8))

Store ==
  /\ At("STORE")
  /\ Accessible(memory, regs[op.arg2], 8)
  /\ memory' = Overwrite(memory, regs[op.arg2], t64_to_bytes(regs[op.arg1]))
  /\ pc' = Following(ops, pc)
  /\ UNCHANGED <<regs, status, result>>

Jump     == At("JUMP") /\ Goto(Target(ops, op.arg1))
JumpAddr == At("JUMPADDR") /\ Goto(OperationAtAddress(ops, address, regs[op.arg1]))
JumpCond == At("JUMPCOND") /\ Goto(IF Signed32(regs[op.arg2]) > 0
                                   THEN Target(ops, op.arg1)
                                   ELSE Following(ops, pc))

(* The return address is that of the code after this one's. *)
JumpLink ==
  /\ At("JUMPLINK")
  /\ regs' = [regs EXCEPT ![RETURN_ADDRESS] = address[pc + 1]]
  /\ pc' = Target(ops, op.arg1)
  /\ UNCHANGED <<memory, status, result>>

Halt ==
  /\ At("HALT")
  /\ status' = "halted"
  /\ result' = regs[ACCUMULATOR] % Word32
  /\ pc' = Nowhere
  /\ UNCHANGED <<regs, memory>>

(* Beyond the code or the memory nothing is promised. *)
Fault ==
  /\ status = "running"
  /\ \/ pc = Nowhere
     \/ At("LOAD") /\ ~Accessible(memory, regs[op.arg1], 8)
     \/ At("STORE") /\ ~Accessible(memory, regs[op.arg2], 8)
  /\ status' = "fault"
  /\ UNCHANGED <<pc, regs, memory, result>>

CNext ==
  /\ \/ Move \/ Add \/ Sub \/ LoadImm \/ Load \/ Store \/ Jump \/ JumpCond
     \/ JumpLink \/ JumpAddr \/ Halt \/ Fault
  /\ UNCHANGED given

CSpec == CInit /\ [][CNext]_cvars
=============================================================================
