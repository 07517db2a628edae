------------------------------ MODULE Ncodegen ------------------------------
(***************************************************************************)
(* The native code generator (ncodegen.c): one step per turn of the loop   *)
(* of ncode_gen.  It writes the template of each operation into a buffer   *)
(* allocated in advance, with NULL for addresses, and records where the    *)
(* addresses belong (link_targets) and where labels are (label_map).       *)
(***************************************************************************)
EXTENDS NCode

CONSTANTS
  Programs,   (* the vectors of operations ncode_gen may be given *)
  Uninit      (* the contents of memory never written             *)

ASSUME UninitAssumption == Uninit \notin 0 .. 255

ASSUME ProgramsAssumption == Programs \subseteq Seq(ICodeOperation)

VARIABLES
  ops,                    (* what ncode_gen is given; never changes       *)
  icode_idx,
  ncode_buf,              (* a function from the indices of the buffer    *)
  ncode_buf_alloc_idx,
  link_targets,
  label_map,
  gen_status

gvars == <<ops, icode_idx, ncode_buf, ncode_buf_alloc_idx, link_targets,
           label_map, gen_status>>

ncode_buf_size == Len(ops) * JUMPLINK_x86_64_size + x86_64_preamble_size

cur_instr == OperationAt(ops, icode_idx)

Jumps == {"JUMP", "JUMPCOND", "JUMPLINK"}

(* The macro that makes the code of an operation. *)
Template(op, addr) ==
  CASE op.opc = "MOVE"     -> MOVE_to_x86_64(op.arg1, op.arg2)
    [] op.opc = "LOAD"     -> LOAD_to_x86_64(op.arg1, op.arg2)
    [] op.opc = "STORE"    -> STORE_to_x86_64(op.arg1, op.arg2)
    [] op.opc = "ADD"      -> ADD_to_x86_64(op.arg1, op.arg2)
    [] op.opc = "SUB"      -> SUB_to_x86_64(op.arg1, op.arg2)
    [] op.opc = "LOADIMM"  -> LOADIMM_to_x86_64(op.arg1, op.arg2)
    [] op.opc = "JUMP"     -> JUMP_to_x86_64(addr)
    [] op.opc = "JUMPCOND" -> JUMPCOND_to_x86_64(addr, op.arg2)
    [] op.opc = "JUMPLINK" -> JUMPLINK_to_x86_64(addr)
    [] op.opc = "JUMPADDR" -> JUMPADDR_to_x86_64(op.arg1)
    [] op.opc = "HALT"     -> HALT_to_x86_64
    [] op.opc = "LABEL"    -> <<>>

(* How far the generator moves on, and where in a jump the address is. *)
Size ==
  [MOVE     |-> MOVE_x86_64_size,     LOAD     |-> LOAD_x86_64_size,
   STORE    |-> STORE_x86_64_size,    ADD      |-> ADD_x86_64_size,
   SUB      |-> SUB_x86_64_size,      LOADIMM  |-> LOADIMM_x86_64_size,
   JUMP     |-> JUMP_x86_64_size,     JUMPCOND |-> JUMPCOND_x86_64_size,
   JUMPLINK |-> JUMPLINK_x86_64_size, JUMPADDR |-> JUMPADDR_x86_64_size,
   HALT     |-> HALT_x86_64_size]

AddressOffset ==
  [JUMP     |-> JUMP_x86_64_address_offset,
   JUMPCOND |-> JUMPCOND_x86_64_address_offset,
   JUMPLINK |-> JUMPLINK_x86_64_address_offset]

(* memcpy of so many bytes of a template.  Nothing checks that they fit. *)
Written(buf, target, template, size) ==
  [i \in DOMAIN buf |->
     IF i \in target .. target + size - 1
     THEN IF i - target < Len(template) THEN template[i - target + 1] ELSE Uninit
     ELSE buf[i]]

----------------------------------------------------------------------------
GenInit ==
  /\ ops \in Programs
  /\ icode_idx = 0
  /\ ncode_buf = Written([i \in 0 .. ncode_buf_size - 1 |-> Uninit], 0,
                         x86_64_preamble(NULL, NULL), x86_64_preamble_size)
  /\ ncode_buf_alloc_idx = x86_64_preamble_size
  /\ link_targets = <<>>
  /\ label_map = <<>>
  /\ gen_status = "generating"

Generating(opcodes) ==
  /\ gen_status = "generating"
  /\ icode_idx < Len(ops)
  /\ cur_instr.opc \in opcodes

Emit ==
  /\ CHECK_ICODE_REG(cur_instr)
  /\ ncode_buf' = Written(ncode_buf, ncode_buf_alloc_idx,
                          Template(cur_instr, NULL), Size[cur_instr.opc])
  /\ ncode_buf_alloc_idx' = ncode_buf_alloc_idx + Size[cur_instr.opc]
  /\ icode_idx' = icode_idx + 1
  /\ UNCHANGED <<ops, gen_status>>

WriteOperation ==
  /\ Generating(DOMAIN Size \ Jumps)
  /\ Emit
  /\ UNCHANGED <<link_targets, label_map>>

(* Mutant: the address of the template instead of that in it. *)
LinkTheTemplate ==
  /\ Generating(Jumps)
  /\ Emit
  /\ link_targets' = Append(link_targets,
                            [jump_address |-> ncode_buf_alloc_idx,
                             label_no     |-> cur_instr.arg1])
  /\ UNCHANGED label_map

(* Mutant: records after it has moved on. *)
LinkAfterwards ==
  /\ Generating(Jumps)
  /\ Emit
  /\ link_targets' = Append(link_targets,
                            [jump_address |-> ncode_buf_alloc_idx'
                                                + AddressOffset[cur_instr.opc],
                             label_no     |-> cur_instr.arg1])
  /\ UNCHANGED label_map

WriteJump ==
  /\ Generating(Jumps)
  /\ Emit
  /\ link_targets' = Append(link_targets,
                            [jump_address |-> ncode_buf_alloc_idx
                                                + AddressOffset[cur_instr.opc],
                             label_no     |-> cur_instr.arg1])
  /\ UNCHANGED label_map

(* Mutant: the index in the icode. *)
RecordIndex ==
  /\ Generating({"LABEL"})
  /\ label_map' = Append(label_map, icode_idx)
  /\ icode_idx' = icode_idx + 1
  /\ UNCHANGED <<ops, ncode_buf, ncode_buf_alloc_idx, link_targets, gen_status>>

(* The number of the label is not recorded. *)
RecordLabel ==
  /\ Generating({"LABEL"})
  /\ label_map' = Append(label_map, ncode_buf_alloc_idx)
  /\ icode_idx' = icode_idx + 1
  /\ UNCHANGED <<ops, ncode_buf, ncode_buf_alloc_idx, link_targets, gen_status>>

(* ERROR *)
RejectRegister ==
  /\ Generating(Opcode)
  /\ ~CHECK_ICODE_REG(cur_instr)
  /\ gen_status' = "invalid register"
  /\ UNCHANGED <<ops, icode_idx, ncode_buf, ncode_buf_alloc_idx, link_targets,
                 label_map>>

Return ==
  /\ gen_status = "generating"
  /\ icode_idx = Len(ops)
  /\ gen_status' = "generated"
  /\ UNCHANGED <<ops, icode_idx, ncode_buf, ncode_buf_alloc_idx, link_targets,
                 label_map>>

(* ERROR("Not yet implemented.") *)
ncode_link ==
  /\ gen_status = "generated"
  /\ gen_status' = "not implemented"
  /\ UNCHANGED <<ops, icode_idx, ncode_buf, ncode_buf_alloc_idx, link_targets,
                 label_map>>

ncode_gen == WriteOperation \/ WriteJump \/ RecordLabel \/ RejectRegister \/ Return

GenSpec == GenInit /\ [][ncode_gen \/ ncode_link]_gvars

----------------------------------------------------------------------------
(* The type invariant of the generator. *)
GenTypeOK ==
  /\ ops \in Programs
  /\ icode_idx \in 0 .. Len(ops)
  /\ ncode_buf \in [0 .. ncode_buf_size - 1 -> 0 .. 255 \cup {Uninit}]
  /\ ncode_buf_alloc_idx \in Nat
  /\ link_targets \in Seq([jump_address : Nat, label_no : Int])
  /\ label_map \in Seq(Nat)
  /\ gen_status \in {"generating", "generated", "invalid register", "not implemented"}

(* The buffer is large enough for any code (ncodegen.c:36-38), although writing
   to it is never checked; every address to be filled in later lies within the
   code that was written, after the preamble and apart from the others; and so
   does every label. *)
GeneratedCodeFits ==
  /\ ncode_buf_alloc_idx <= ncode_buf_size
  /\ \A k \in DOMAIN link_targets :
       /\ link_targets[k].jump_address >= x86_64_preamble_size
       /\ link_targets[k].jump_address + 8 <= ncode_buf_alloc_idx
       /\ \A j \in 1 .. k - 1 :
            link_targets[j].jump_address + 8 <= link_targets[k].jump_address
  /\ \A k \in DOMAIN label_map :
       label_map[k] \in x86_64_preamble_size .. ncode_buf_alloc_idx
=============================================================================
