--------------------------- MODULE NativeExecution ---------------------------
(***************************************************************************)
(* Native code in the hands of its tests (test_ncode.c): the preamble and  *)
(* the templates of some operations, with all addresses, in one array,     *)
(* copied into executable memory and called.  The generator first makes    *)
(* its own version of the same operations, to be compared.                 *)
(*                                                                         *)
(* The processor is modelled for the instructions that templates consist   *)
(* of, decoded from their bytes.  The call stack (rsp and what it points   *)
(* to) is a sequence.                                                      *)
(***************************************************************************)
EXTENDS Ncodegen, NativeBasics, FiniteSets

CONSTANTS
  CodeAddress,     (* where mmap puts executable memory                    *)
  CallerAddress,   (* where the C code goes on that called it              *)
  StackAddresses,  (* where the stack may be                               *)
  StackBytes,      (* its size                                             *)
  SaveAddress      (* where the preamble saves the result, an int          *)

VARIABLES
  stack_addr,
  exec_mem,        (* the array                                            *)
  cpu_status,      (* "not loaded", "running", "returned", "fault"         *)
  rip,
  reg,             (* the registers, by their numbers in an instruction    *)
  greater_equal,   (* the flags after a comparison, as jge reads them      *)
  call_stack,
  memory

cpuvars == <<stack_addr, exec_mem, cpu_status, rip, reg, greater_equal,
             call_stack, memory>>

nvars == <<gvars, cpuvars>>

----------------------------------------------------------------------------
(* No code can be written for registers that cannot be used. *)
CodeOf(op, addr) == IF CHECK_ICODE_REG(op) THEN Template(op, addr) ELSE <<>>

(* The array of a test.  layout[i] is the place of operation i in it, and the
   last entry the end.  A jump is given the address of what its label is
   before. *)
layout ==
  LET end[i \in 0 .. Len(ops)] ==
        IF i = 0 THEN Len(x86_64_preamble(NULL, NULL))
        ELSE end[i - 1] + Len(CodeOf(ops[i], NULL))
  IN  [i \in 1 .. Len(ops) + 1 |-> end[i - 1]]

JumpTarget(op) ==
  IF op.opc \in Jumps THEN CodeAddress + layout[LabelPosition(ops, op.arg1)] ELSE NULL

TestArray ==
  LET code[i \in 0 .. Len(ops)] ==
        IF i = 0 THEN x86_64_preamble(stack_addr, SaveAddress)
        ELSE code[i - 1] \o CodeOf(ops[i], JumpTarget(ops[i]))
  IN  code[Len(ops)]

(* Memory never written, and registers the caller left, are all zeros or all
   ones. *)
NInit ==
  /\ GenInit
  /\ stack_addr \in StackAddresses
  /\ exec_mem = <<>>
  /\ cpu_status = "not loaded"
  /\ rip = CallerAddress
  /\ greater_equal = FALSE
  /\ call_stack = <<>>
  /\ \E byte \in {0, ByteBase - 1} :
       /\ reg = [r \in {0, 1, 2, 3, 6, 7} |-> FromBytes([i \in 1 .. 8 |-> byte])]
       /\ memory = [a \in stack_addr .. stack_addr + StackBytes - 1
                            \cup SaveAddress .. SaveAddress + 3 |-> byte]

(* allocate_executable, and the call. *)
CallTest ==
  /\ gen_status = "generated"
  /\ cpu_status = "not loaded"
  /\ exec_mem' = TestArray
  /\ cpu_status' = "running"
  /\ rip' = CodeAddress
  /\ call_stack' = <<CallerAddress>>
  /\ UNCHANGED <<gvars, stack_addr, reg, greater_equal, memory>>

----------------------------------------------------------------------------
(* The processor *)

Offset == rip - CodeAddress

Byte(k) == exec_mem[Offset + k + 1]

(* A prefix makes an instruction one on 64 bits. *)
prefix == IF Byte(0) = \h48 THEN 1 ELSE 0
bytes  == IF prefix = 1 THEN 8 ELSE 4

Truncate(v) == v % ByteBase^bytes

opcode == Byte(prefix)

(* The operand byte: how rm is used (3: the register, 0: the memory it points
   to), and two registers. *)
mod == Byte(prefix + 1) \div 64
r1  == (Byte(prefix + 1) \div 8) % 8
rm  == Byte(prefix + 1) % 8

Immediate(k, size) == FromBytes(SubSeq(exec_mem, Offset + k + 1, Offset + k + size))

(* One byte that is a signed number. *)
SignedByte(k) == IF Byte(k) < 128 THEN Byte(k) ELSE Byte(k) - 256

Fetched(opcodes) ==
  /\ cpu_status = "running"
  /\ Offset \in 0 .. Len(exec_mem) - 1
  /\ opcode \in opcodes

Continue(length) ==
  /\ rip' = rip + prefix + length
  /\ UNCHANGED <<gvars, stack_addr, exec_mem, cpu_status>>

SetRegister(r, v) ==
  /\ reg' = [reg EXCEPT ![r] = v]
  /\ UNCHANGED <<greater_equal, memory>>

MovImmediate ==
  /\ Fetched(\hB8 .. \hBF)
  /\ SetRegister(opcode - \hB8, Immediate(prefix + 1, bytes))
  /\ Continue(1 + bytes)
  /\ UNCHANGED call_stack

MovRegister ==
  /\ Fetched({\h89}) /\ mod = 3
  /\ SetRegister(rm, Truncate(reg[r1]))
  /\ Continue(2)
  /\ UNCHANGED call_stack

MovToMemory ==
  /\ Fetched({\h89}) /\ mod = 0
  /\ Accessible(memory, reg[rm], bytes)
  /\ memory' = Overwrite(memory, reg[rm], ToBytes(Truncate(reg[r1]), bytes))
  /\ Continue(2)
  /\ UNCHANGED <<reg, greater_equal, call_stack>>

MovFromMemory ==
  /\ Fetched({\h8B}) /\ mod = 0
  /\ Accessible(memory, reg[rm], bytes)
  /\ SetRegister(r1, Read(memory, reg[rm], bytes))
  /\ Continue(2)
  /\ UNCHANGED call_stack

AddRegister ==
  /\ Fetched({\h01}) /\ mod = 3
  /\ SetRegister(rm, Truncate(reg[rm] + reg[r1]))
  /\ Continue(2)
  /\ UNCHANGED call_stack

SubRegister ==
  /\ Fetched({\h29}) /\ mod = 3
  /\ SetRegister(rm, Truncate(reg[rm] - reg[r1]))
  /\ Continue(2)
  /\ UNCHANGED call_stack

AddImmediate ==
  /\ Fetched({\h83}) /\ mod = 3 /\ r1 = 0
  /\ SetRegister(rm, Truncate(reg[rm] + SignedByte(prefix + 2)))
  /\ Continue(3)
  /\ UNCHANGED call_stack

Compare ==
  /\ Fetched({\h39}) /\ mod = 3
  /\ greater_equal' = (Signed32(reg[rm]) >= Signed32(reg[r1]))
  /\ Continue(2)
  /\ UNCHANGED <<reg, memory, call_stack>>

JumpGreaterEqual ==
  /\ Fetched({\h7D})
  /\ Continue(2 + (IF greater_equal THEN SignedByte(1) ELSE 0))
  /\ UNCHANGED <<reg, greater_equal, memory, call_stack>>

Call ==
  /\ Fetched({\hE8})
  /\ call_stack' = Append(call_stack, rip + 5)
  /\ Continue(5 + Immediate(1, 4))
  /\ UNCHANGED <<reg, greater_equal, memory>>

Push ==
  /\ Fetched(\h50 .. \h57)
  /\ call_stack' = Append(call_stack, reg[opcode - \h50])
  /\ Continue(1)
  /\ UNCHANGED <<reg, greater_equal, memory>>

Pop ==
  /\ Fetched(\h58 .. \h5F)
  /\ SetRegister(opcode - \h58, call_stack[Len(call_stack)])
  /\ call_stack' = SubSeq(call_stack, 1, Len(call_stack) - 1)
  /\ Continue(1)

Ret ==
  /\ Fetched({\hC3})
  /\ rip' = call_stack[Len(call_stack)]
  /\ call_stack' = SubSeq(call_stack, 1, Len(call_stack) - 1)
  /\ cpu_status' = IF rip' = CallerAddress THEN "returned" ELSE "running"
  /\ UNCHANGED <<gvars, stack_addr, exec_mem, reg, greater_equal, memory>>

(* Nothing there to execute, or to read or write. *)
CpuFault ==
  /\ cpu_status = "running"
  /\ \/ Offset \notin 0 .. Len(exec_mem) - 1
     \/ Fetched({\h89, \h8B}) /\ mod = 0 /\ ~Accessible(memory, reg[rm], bytes)
  /\ cpu_status' = "fault"
  /\ UNCHANGED <<gvars, stack_addr, exec_mem, rip, reg, greater_equal, call_stack,
                 memory>>

Cpu == \/ MovImmediate \/ MovRegister \/ MovToMemory \/ MovFromMemory
       \/ AddRegister \/ SubRegister \/ AddImmediate \/ Compare
       \/ JumpGreaterEqual \/ Call \/ Push \/ Pop \/ Ret \/ CpuFault

NNext ==
  \/ ncode_gen /\ UNCHANGED cpuvars
  \/ ncode_link /\ cpu_status = "not loaded" /\ UNCHANGED cpuvars
  \/ CallTest
  \/ Cpu

NSpec == NInit /\ [][NNext]_nvars

(* The generator's loop and the processor go on whenever they can. *)
FairNSpec == NSpec /\ WF_nvars(NNext)

----------------------------------------------------------------------------
(* What the processor has done so far, in terms of operations.  From the first
   instruction of a template on, its operation counts as executed. *)

EpilogueOffset == x86_64_preamble_size - 13

BeforeCall == cpu_status = "not loaded" \/ Offset \in 0 .. EpilogueOffset - 1

AfterHalt == cpu_status = "returned" \/ Offset \in EpilogueOffset .. x86_64_preamble_size - 1

(* The operation whose template rip is in. *)
Here ==
  LET there == {i \in DOMAIN ops : layout[i] <= Offset /\ Offset < layout[i + 1]}
  IN  IF there = {} THEN Nowhere ELSE CHOOSE i \in there : TRUE

WithinTemplate == Here # Nowhere /\ Offset # layout[Here]

address == [i \in 1 .. Len(ops) + 1 |-> CodeAddress + layout[i]]

NativeNumber ==
  [r \in NativeRegisters |->
     CASE r = ACCUMULATOR -> 0 [] r = RETURN_ADDRESS -> 1 [] r = TEMPORARY -> 3
       [] r = STACK_POINTER -> 6 [] r = FRAME_POINTER -> 7]

(* Where a template under way is going. *)
Destination ==
  CASE ops[Here].opc \in {"JUMP", "JUMPLINK"} -> Target(ops, ops[Here].arg1)
    [] ops[Here].opc = "JUMPCOND" ->
         IF Signed32(reg[NativeNumber[ops[Here].arg2]]) > 0
         THEN Target(ops, ops[Here].arg1) ELSE Following(ops, Here)
    [] OTHER ->
         OperationAtAddress(ops, address, reg[NativeNumber[ops[Here].arg1]])

ContractPc ==
  CASE BeforeCall     -> Following(ops, 0)
    [] AfterHalt      -> Nowhere
    [] WithinTemplate -> Destination
    [] OTHER          -> Here

ContractRegs ==
  [r \in NativeRegisters |->
     CASE BeforeCall -> IF r \in {STACK_POINTER, FRAME_POINTER} THEN stack_addr ELSE 0
       [] ~BeforeCall /\ r = RETURN_ADDRESS /\ WithinTemplate
            /\ ops[Here].opc = "JUMPLINK" -> address[Here + 1]
       [] OTHER -> reg[NativeNumber[r]]]

ContractStatus ==
  CASE cpu_status = "fault" -> "fault" [] AfterHalt -> "halted" [] OTHER -> "running"

(* The result is in the accumulator until it is saved. *)
ContractResult ==
  CASE cpu_status = "returned" -> Read(memory, SaveAddress, 4)
    [] AfterHalt /\ cpu_status # "returned" -> reg[NativeNumber[ACCUMULATOR]] % Word32
    [] OTHER -> 0

Contract ==
  INSTANCE NativeContract WITH
    pc     <- ContractPc,
    regs   <- ContractRegs,
    memory <- [a \in stack_addr .. stack_addr + StackBytes - 1 |-> memory[a]],
    status <- ContractStatus,
    result <- ContractResult

----------------------------------------------------------------------------
(* The type invariant: registers hold 8 bytes, memory cells one, and what is
   called is an array of bytes. *)
NTypeOK ==
  /\ GenTypeOK
  /\ exec_mem \in Seq(0 .. 255)
  /\ cpu_status \in {"not loaded", "running", "returned", "fault"}
  /\ \A r \in DOMAIN reg : reg[r] \in 0 .. Word64 - 1
  /\ \A a \in DOMAIN memory : memory[a] \in 0 .. ByteBase - 1
  /\ cpu_status = "returned" => call_stack = <<>>

(* Instruction by instruction, the code does what its operations promise: the
   tables name the right registers, jumps skip what they should and arrive, a
   linked call returns behind itself, and HALT finds the way back to C with the
   accumulator saved (ncode.h:41-190, test_ncode.c). *)
ImplementsContract == Contract!CSpec

(* Every label and link target filled in, the generator's code is that of the
   test: nothing overlaps, no template is cut off, and an address belongs
   exactly where a link target says (ncodegen.h:4-11). *)
LinkTargetsOf(i) ==
  {k \in DOMAIN link_targets : link_targets[k].jump_address <= i
                                 /\ i < link_targets[k].jump_address + 8}

Filled(i) ==
  CASE i - x86_64_preamble_stack_addr_offset \in 0 .. 7 ->
         t64_to_bytes(stack_addr)[i - x86_64_preamble_stack_addr_offset + 1]
    [] i - x86_64_preamble_save_addr_offset \in 0 .. 7 ->
         t64_to_bytes(SaveAddress)[i - x86_64_preamble_save_addr_offset + 1]
    [] LinkTargetsOf(i) # {} ->
         LET target == link_targets[CHOOSE k \in LinkTargetsOf(i) : TRUE]
             label  == layout[LabelPosition(ops, target.label_no)]
         IN  t64_to_bytes(CodeAddress + label)[i - target.jump_address + 1]
    [] OTHER -> ncode_buf[i]

GeneratesTheTestedCode ==
  gen_status = "generated" =>
    TestArray = [i \in 1 .. ncode_buf_alloc_idx |-> Filled(i - 1)]

(* Read by label number, the label map has the place of each label that is jumped
   to, provided that labels occur in numerical order from 0: it is filled in the
   order in which they occur (ncodegen.c:106). *)
LabelsAmong(places) == {i \in places : ops[i].opc = "LABEL"}

LabelsInOrder ==
  \A i \in LabelsAmong(DOMAIN ops) :
    ops[i].arg1 = Cardinality(LabelsAmong(1 .. i - 1))

LabelMapFindsLabels ==
  gen_status = "generated" /\ LabelsInOrder =>
    \A k \in DOMAIN link_targets :
      LET label == link_targets[k].label_no
      IN  (\E i \in LabelsAmong(DOMAIN ops) : ops[i].arg1 = label) =>
            label_map[label + 1] = layout[LabelPosition(ops, label)]

(* Called code comes back to its caller, or ends in a fault. *)
CallsEnd == cpu_status = "running" ~> cpu_status \in {"returned", "fault"}
=============================================================================
