-------------------------------- MODULE NCode --------------------------------
(***************************************************************************)
(* Native code (ncode.h, ncode.c): for each icode operation a template of  *)
(* x86-64 instructions, byte for byte, into which registers are filled in  *)
(* from tables and numbers as little-endian bytes.                         *)
(*                                                                         *)
(* The bytes of an instruction are those of the code.  Numbers are written *)
(* to base ByteBase, in 4 bytes or 8, as in the code.                      *)
(***************************************************************************)
EXTENDS ICode

CONSTANT ByteBase   (* 256 in the code: how many values a byte has. *)

ASSUME ByteBaseAssumption == ByteBase \in Nat \ {0, 1}

NULL == 0

(* Mutant: a byte is not cut off from those above it. *)
ToBytesUnmasked(n, size) == [i \in 1 .. size |-> n \div ByteBase^(i - 1)]

(* Little-endian, two's complement. *)
ToBytes(n, size) == [i \in 1 .. size |-> (n \div ByteBase^(i - 1)) % ByteBase]

t32_to_bytes(n) == ToBytes(n, 4)
t64_to_bytes(n) == ToBytes(n, 8)

----------------------------------------------------------------------------
(* Registers.  CHECK_ICODE_REG ends the process for any other. *)
NativeRegisters ==
  {STACK_POINTER, FRAME_POINTER, RETURN_ADDRESS, ACCUMULATOR, TEMPORARY}

CHECK_ICODE_REG(op) == RegisterOperands(op) \subseteq NativeRegisters

(* Mutant: two neighbours exchanged. *)
MoveTableSwapped ==
  << (* SP  ESI *) <<\hF6, \hF7, \hF1, \h00, \hF0, \hF3>>,
     (* FP  EDI *) <<\hFE, \hFF, \hF9, \h00, \hF8, \hFB>>,
     (* RA  ECX *) <<\hCE, \hCF, \hC9, \h00, \hC8, \hCB>>,
     (* PC  EIP *) <<\h00, \h00, \h00, \h00, \h00, \h00>>,
     (* ACC EAX *) <<\hC6, \hC7, \hC1, \h00, \hC0, \hC3>>,
     (* TMP EBX *) <<\hDE, \hDF, \hD8, \h00, \hD9, \hDB>> >>

(* The operand byte of an operation on two registers, and of one on a register
   and the memory another one points to; then the opcode bytes that contain a
   register, and the operand byte of a comparison with %edx. *)
MOVE_ADD_SUB_reg_lookup_table ==
  << (* SP  ESI *) <<\hF6, \hF7, \hF1, \h00, \hF0, \hF3>>,
     (* FP  EDI *) <<\hFE, \hFF, \hF9, \h00, \hF8, \hFB>>,
     (* RA  ECX *) <<\hCE, \hCF, \hC9, \h00, \hC8, \hCB>>,
     (* PC  EIP *) <<\h00, \h00, \h00, \h00, \h00, \h00>>,
     (* ACC EAX *) <<\hC6, \hC7, \hC1, \h00, \hC0, \hC3>>,
     (* TMP EBX *) <<\hDE, \hDF, \hD9, \h00, \hD8, \hDB>> >>

LOAD_STORE_reg_lookup_table ==
  << (* SP  RSI *) <<\h36, \h3E, \h0E, \h00, \h06, \h1E>>,
     (* FP  RDI *) <<\h37, \h3F, \h0F, \h00, \h07, \h1F>>,
     (* RA  RCX *) <<\h31, \h39, \h09, \h00, \h01, \h19>>,
     (* PC  RIP *) <<\h00, \h00, \h00, \h00, \h00, \h00>>,
     (* ACC RAX *) <<\h30, \h38, \h08, \h00, \h00, \h18>>,
     (* TMP RBX *) <<\h33, \h3B, \h0B, \h00, \h03, \h1B>> >>

LOADIMM_reg_lookup_table  == <<\hBE, \hBF, \hB9, \h00, \hB8, \hBB>>
push_reg_lookup_table     == <<\h56, \h57, \h51, \h00, \h50, \h53>>
JUMPCOND_reg_lookup_table == <<\hF2, \hFA, \hCA, \h00, \hC2, \hDA>>

MOVE_ADD_SUB_reg_to_x86_64(r1, r2) == MOVE_ADD_SUB_reg_lookup_table[r1 + 1][r2 + 1]
LOAD_STORE_reg_to_x86_64(r1, r2)   == LOAD_STORE_reg_lookup_table[r1 + 1][r2 + 1]
LOADIMM_reg_to_x86_64(r)           == LOADIMM_reg_lookup_table[r + 1]
push_reg_to_x86_64(r)              == push_reg_lookup_table[r + 1]
JUMPCOND_reg_to_x86_64(r)          == JUMPCOND_reg_lookup_table[r + 1]

----------------------------------------------------------------------------
(* The templates, with the sizes and offsets the generator uses for them. *)

LOADIMM_to_x86_64(n, r) == <<LOADIMM_reg_to_x86_64(r)>> \o t32_to_bytes(n)
LOADIMM_x86_64_size     == 5

MOVE_to_x86_64(r1, r2) == <<\h89, MOVE_ADD_SUB_reg_to_x86_64(r1, r2)>>
MOVE_x86_64_size       == 2

ADD_to_x86_64(r1, r2) == <<\h01, MOVE_ADD_SUB_reg_to_x86_64(r1, r2)>>
ADD_x86_64_size       == 2

SUB_to_x86_64(r1, r2) == <<\h29, MOVE_ADD_SUB_reg_to_x86_64(r2, r1)>>
SUB_x86_64_size       == 2

LOAD_to_x86_64(r1, r2) == <<\h48, \h8B, LOAD_STORE_reg_to_x86_64(r1, r2)>>
LOAD_x86_64_size       == 3

STORE_to_x86_64(r1, r2) == <<\h48, \h89, LOAD_STORE_reg_to_x86_64(r2, r1)>>
STORE_x86_64_size       == 3

(* mov $addr, %rdx;  push %rdx;  ret *)
JUMP_to_x86_64(addr)       == <<\h48, \hBA>> \o t64_to_bytes(addr) \o <<\h52, \hC3>>
JUMP_x86_64_size           == 12
JUMP_x86_64_address_offset == 2

(* Mutant: nothing is skipped. *)
JumpCondAlways(addr, value) ==
  <<\hBA, 0, 0, 0, 0, \h39, JUMPCOND_reg_to_x86_64(value), \h7D, 0>>
    \o JUMP_to_x86_64(addr)

(* mov $0, %edx;  cmp %value, %edx;  jge over the jump *)
JUMPCOND_to_x86_64(addr, value) ==
  <<\hBA, 0, 0, 0, 0, \h39, JUMPCOND_reg_to_x86_64(value), \h7D, \h0C>>
    \o JUMP_to_x86_64(addr)
JUMPCOND_x86_64_size           == 21
JUMPCOND_x86_64_address_offset == 11

(* call next;  pop %rcx;  add $17, %rcx: past the jump *)
JUMPLINK_to_x86_64(addr) ==
  <<\hE8, 0, 0, 0, 0, \h59, \h48, \h83, \hC1, \h11>> \o JUMP_to_x86_64(addr)
JUMPLINK_x86_64_size           == 22
JUMPLINK_x86_64_address_offset == 12

JUMPADDR_to_x86_64(reg) == <<push_reg_to_x86_64(reg), \hC3>>
JUMPADDR_x86_64_size    == 2

HALT_to_x86_64   == <<\hC3>>
HALT_x86_64_size == 1

(* Clear three registers, set the stack and frame pointers, call what follows
   the preamble, store the accumulator at save_addr and return to C. *)
x86_64_preamble(stack_addr, save_addr) ==
  LOADIMM_to_x86_64(0, ACCUMULATOR) \o LOADIMM_to_x86_64(0, TEMPORARY)
    \o LOADIMM_to_x86_64(0, RETURN_ADDRESS)
    \o <<\h48, \hBE>> \o t64_to_bytes(stack_addr) \o <<\h48, \h89, \hF7>>
    \o <<\hE8, \h0D, 0, 0, 0>>
    \o <<\h48, \hBA>> \o t64_to_bytes(save_addr) \o <<\h89, \h02, \hC3>>

x86_64_preamble_size              == 3 * LOADIMM_x86_64_size + 31
x86_64_preamble_stack_addr_offset == 3 * LOADIMM_x86_64_size + 2
x86_64_preamble_save_addr_offset  == 3 * LOADIMM_x86_64_size + 20
=============================================================================
