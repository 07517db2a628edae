------------------------ MODULE NativeExecution_proof ------------------------
(***************************************************************************)
(* Proofs about the native code generator and the code that the tests put  *)
(* together by hand, for all code and all addresses: the code fits in its  *)
(* buffer, each template has the size that is counted for it, and the two  *)
(* are the same, byte by byte, once the generator's addresses are filled   *)
(* in.                                                                     *)
(***************************************************************************)
EXTENDS NativeExecution, Induction, SequenceTheorems, FiniteSetTheorems, TLAPS

(***************************************************************************)
(* Part 1: the generator.  The invariant: so far each operation has taken  *)
(* at most the bytes of the longest, which is what the buffer was          *)
(* allocated for; that the code fits holds only because of it.             *)
(***************************************************************************)
Counters ==
  /\ ops \in Seq(ICodeOperation)
  /\ icode_idx \in 0 .. Len(ops)
  /\ ncode_buf_alloc_idx \in x86_64_preamble_size
                               .. x86_64_preamble_size + icode_idx * JUMPLINK_x86_64_size

Records ==
  /\ link_targets \in Seq([jump_address : Nat, label_no : Int])
  /\ label_map \in Seq(Nat)

GenInv == Counters /\ Records /\ GeneratedCodeFits

----------------------------------------------------------------------------
LEMMA Sizes == x86_64_preamble_size = 46 /\ JUMPLINK_x86_64_size = 22
BY DEF x86_64_preamble_size, LOADIMM_x86_64_size, JUMPLINK_x86_64_size

LEMMA BufferForTheLongest ==
  ASSUME NEW operations \in Seq(ICodeOperation), NEW i \in 0 .. Len(operations),
         NEW end \in 46 .. 46 + i * 22
  PROVE  end <= Len(operations) * 22 + 46
<1> DEFINE n == Len(operations)
<1>1. n \in Nat /\ i \in 0 .. n
  OBVIOUS
<1> HIDE DEF n
<1>2. end <= n * 22 + 46
  BY <1>1
<1> QED
  BY <1>2 DEF n

(* No template is longer than that of JUMPLINK. *)
LEMMA SizeBound ==
  ASSUME NEW opc \in DOMAIN Size
  PROVE  Size[opc] \in 1 .. 22
BY DEF Size, LOADIMM_x86_64_size, JUMPLINK_x86_64_size, MOVE_x86_64_size,
       LOAD_x86_64_size, STORE_x86_64_size, ADD_x86_64_size, SUB_x86_64_size,
       JUMP_x86_64_size, JUMPCOND_x86_64_size, JUMPADDR_x86_64_size,
       HALT_x86_64_size

LEMMA SizeIsNat ==
  ASSUME NEW opc \in DOMAIN Size
  PROVE  Size[opc] \in Nat
<1>1. Size[opc] \in 1 .. 22
  BY SizeBound
<1> QED
  BY <1>1

(* The address of a jump is inside its template. *)
LEMMA AddressInside ==
  ASSUME NEW opc \in Jumps
  PROVE  /\ opc \in DOMAIN Size
         /\ AddressOffset[opc] \in Nat
         /\ AddressOffset[opc] + 8 <= Size[opc]
BY DEF Jumps, Size, AddressOffset, JUMPLINK_x86_64_size, JUMP_x86_64_size,
       JUMPCOND_x86_64_size,
       JUMP_x86_64_address_offset, JUMPCOND_x86_64_address_offset,
       JUMPLINK_x86_64_address_offset

(* Code that takes at most the bytes of the longest operation for each fits. *)
LEMMA CountersMean ==
  Counters => /\ ops \in Seq(ICodeOperation)
              /\ icode_idx \in 0 .. Len(ops)
              /\ ncode_buf_alloc_idx \in Nat
              /\ ncode_buf_alloc_idx \in 46 .. 46 + icode_idx * 22
              /\ ncode_buf_alloc_idx <= ncode_buf_size
<1> SUFFICES ASSUME Counters
             PROVE  /\ ops \in Seq(ICodeOperation)
                    /\ icode_idx \in 0 .. Len(ops)
                    /\ ncode_buf_alloc_idx \in 46 .. 46 + icode_idx * 22
                    /\ ncode_buf_alloc_idx <= ncode_buf_size
  OBVIOUS
<1>1. /\ ops \in Seq(ICodeOperation)
      /\ icode_idx \in 0 .. Len(ops)
      /\ ncode_buf_alloc_idx \in 46 .. 46 + icode_idx * 22
  BY Sizes DEF Counters
<1> QED
  BY <1>1, Sizes, BufferForTheLongest DEF ncode_buf_size

LEMMA CountersMeanNext ==
  Counters' => /\ ncode_buf_alloc_idx' \in Nat
               /\ ncode_buf_alloc_idx' <= ncode_buf_size'
<1>1. Counters => ncode_buf_alloc_idx \in Nat /\ ncode_buf_alloc_idx <= ncode_buf_size
  BY CountersMean
<1>2. (Counters => ncode_buf_alloc_idx \in Nat /\ ncode_buf_alloc_idx <= ncode_buf_size)'
  BY <1>1, PTL
<1> QED
  BY <1>2

LEMMA LinkTargetType ==
  ASSUME Records, NEW k \in DOMAIN link_targets
  PROVE  link_targets[k].jump_address \in Nat
<1> DEFINE LinkTarget == [jump_address : Nat, label_no : Int]
<1>1. link_targets \in Seq(LinkTarget)
  BY DEF Records
<1> HIDE DEF LinkTarget
<1>2. link_targets[k] \in LinkTarget
  BY <1>1
<1> QED
  BY <1>2 DEF LinkTarget

LEMMA CurrentOperation ==
  ASSUME Counters, icode_idx < Len(ops)
  PROVE  cur_instr \in ICodeOperation
BY CountersMean DEF cur_instr, OperationAt

(* Writing an operation moves both counters on. *)
LEMMA EmitMovesOn ==
  ASSUME Counters, icode_idx < Len(ops), cur_instr.opc \in DOMAIN Size, Emit
  PROVE  /\ Counters'
         /\ ncode_buf_alloc_idx < ncode_buf_alloc_idx'
         /\ ncode_buf_alloc_idx' = ncode_buf_alloc_idx + Size[cur_instr.opc]
<1>1. Size[cur_instr.opc] \in 1 .. 22
  BY SizeBound
<1>2. /\ ncode_buf_alloc_idx' = ncode_buf_alloc_idx + Size[cur_instr.opc]
      /\ icode_idx' = icode_idx + 1
      /\ ops' = ops
  BY DEF Emit
<1>3. /\ ops \in Seq(ICodeOperation)
      /\ icode_idx \in Nat /\ Len(ops) \in Nat
      /\ ncode_buf_alloc_idx \in 46 .. 46 + icode_idx * 22
  BY CountersMean
<1>4. ops' \in Seq(ICodeOperation) /\ icode_idx' \in 0 .. Len(ops')
  BY <1>2, <1>3
<1>5. \A size \in 1 .. 22 :
        /\ ncode_buf_alloc_idx + size \in 46 .. 46 + (icode_idx + 1) * 22
        /\ ncode_buf_alloc_idx < ncode_buf_alloc_idx + size
  BY <1>3
<1>6. /\ ncode_buf_alloc_idx' \in 46 .. 46 + icode_idx' * 22
      /\ ncode_buf_alloc_idx < ncode_buf_alloc_idx'
  BY <1>1, <1>2, <1>5
<1> QED
  BY <1>2, <1>4, <1>6, Sizes DEF Counters

----------------------------------------------------------------------------
LEMMA GenInitInv == GenInit => GenInv
<1> SUFFICES ASSUME GenInit PROVE GenInv
  OBVIOUS
<1>1. ops \in Seq(ICodeOperation)
  BY ProgramsAssumption DEF GenInit
<1>2. Counters
  BY <1>1, Sizes DEF GenInit, Counters
<1>3. Records /\ link_targets = <<>> /\ label_map = <<>>
  BY DEF GenInit, Records
<1>4. ncode_buf_alloc_idx <= ncode_buf_size
  BY <1>2, CountersMean
<1> QED
  BY <1>2, <1>3, <1>4 DEF GenInv, GeneratedCodeFits

LEMMA WriteOperationInv == GenInv /\ WriteOperation => GenInv'
<1> SUFFICES ASSUME GenInv, WriteOperation PROVE GenInv'
  OBVIOUS
<1>1. /\ cur_instr.opc \in DOMAIN Size
      /\ icode_idx < Len(ops)
      /\ Emit
      /\ link_targets' = link_targets /\ label_map' = label_map
  BY DEF WriteOperation, Generating
<1>2. Counters' /\ ncode_buf_alloc_idx < ncode_buf_alloc_idx'
  BY <1>1, EmitMovesOn DEF GenInv
<1>3. ncode_buf_alloc_idx' <= ncode_buf_size'
  BY <1>2, CountersMeanNext
<1>4. ncode_buf_alloc_idx \in Nat /\ ncode_buf_alloc_idx' \in Nat
  BY <1>2, CountersMean, CountersMeanNext DEF GenInv
<1>5. \A k \in DOMAIN link_targets :
        /\ link_targets[k].jump_address >= 46
        /\ link_targets[k].jump_address + 8 <= ncode_buf_alloc_idx'
        /\ \A j \in 1 .. k - 1 :
             link_targets[j].jump_address + 8 <= link_targets[k].jump_address
  <2> SUFFICES ASSUME NEW k \in DOMAIN link_targets
               PROVE  link_targets[k].jump_address + 8 <= ncode_buf_alloc_idx'
    BY Sizes DEF GenInv, GeneratedCodeFits
  <2>1. link_targets[k].jump_address \in Nat
    BY LinkTargetType DEF GenInv
  <2>2. link_targets[k].jump_address + 8 <= ncode_buf_alloc_idx
    BY DEF GenInv, GeneratedCodeFits
  <2> QED
    BY <2>1, <2>2, <1>2, <1>4
<1>6. \A k \in DOMAIN label_map : label_map[k] \in 46 .. ncode_buf_alloc_idx'
  BY <1>2, <1>4, Sizes DEF GenInv, Records, GeneratedCodeFits
<1> QED
  BY <1>1, <1>2, <1>3, <1>5, <1>6, Sizes DEF GenInv, Records, GeneratedCodeFits

LEMMA WriteJumpInv == GenInv /\ WriteJump => GenInv'
<1> SUFFICES ASSUME GenInv, WriteJump PROVE GenInv'
  OBVIOUS
<1> DEFINE opc == cur_instr.opc
           link == [jump_address |-> ncode_buf_alloc_idx + AddressOffset[opc],
                    label_no     |-> cur_instr.arg1]
<1>1. /\ opc \in Jumps
      /\ icode_idx < Len(ops)
      /\ Emit
      /\ link_targets' = Append(link_targets, link)
      /\ label_map' = label_map
  BY DEF WriteJump, Generating
<1>2. /\ opc \in DOMAIN Size
      /\ AddressOffset[opc] \in Nat
      /\ AddressOffset[opc] + 8 <= Size[opc]
      /\ Size[opc] \in 1 .. 22
  BY <1>1, AddressInside, SizeBound
<1>3. /\ Counters'
      /\ ncode_buf_alloc_idx < ncode_buf_alloc_idx'
      /\ ncode_buf_alloc_idx' = ncode_buf_alloc_idx + Size[opc]
  BY <1>1, <1>2, EmitMovesOn DEF GenInv
<1>4. ncode_buf_alloc_idx' <= ncode_buf_size'
  BY <1>3, CountersMeanNext
<1>5. ncode_buf_alloc_idx \in Nat /\ ncode_buf_alloc_idx' \in Nat
      /\ ncode_buf_alloc_idx >= 46
  BY <1>3, CountersMean, CountersMeanNext DEF GenInv
<1>6. /\ link \in [jump_address : Nat, label_no : Int]
      /\ link.jump_address >= ncode_buf_alloc_idx
      /\ link.jump_address + 8 <= ncode_buf_alloc_idx'
  <2>1. cur_instr.arg1 \in Int
    BY <1>1, CurrentOperation DEF GenInv, ICodeOperation
  <2>2. \A offset, size \in Nat : offset + 8 <= size =>
          /\ ncode_buf_alloc_idx + offset \in Nat
          /\ ncode_buf_alloc_idx + offset >= ncode_buf_alloc_idx
          /\ ncode_buf_alloc_idx + offset + 8 <= ncode_buf_alloc_idx + size
    BY <1>5
  <2>3. AddressOffset[opc] \in Nat /\ Size[opc] \in Nat
    BY <1>2
  <2> QED
    BY <2>1, <2>2, <2>3, <1>2, <1>3
<1> HIDE DEF link, opc
<1>7. Records'
  BY <1>1, <1>6 DEF GenInv, Records
<1>8. \A k \in DOMAIN link_targets' :
        /\ link_targets'[k].jump_address >= 46
        /\ link_targets'[k].jump_address + 8 <= ncode_buf_alloc_idx'
        /\ \A j \in 1 .. k - 1 :
             link_targets'[j].jump_address + 8 <= link_targets'[k].jump_address
  <2> SUFFICES ASSUME NEW k \in DOMAIN link_targets'
               PROVE  /\ link_targets'[k].jump_address >= 46
                      /\ link_targets'[k].jump_address + 8 <= ncode_buf_alloc_idx'
                      /\ \A j \in 1 .. k - 1 :
                           link_targets'[j].jump_address + 8
                             <= link_targets'[k].jump_address
    OBVIOUS
  <2>1. /\ link_targets \in Seq([jump_address : Nat, label_no : Int])
        /\ k \in 1 .. Len(link_targets) + 1
        /\ \A i \in 1 .. Len(link_targets) : link_targets'[i] = link_targets[i]
        /\ link_targets'[Len(link_targets) + 1] = link
    BY <1>1, <1>6 DEF GenInv, Records
  <2>2. \A i \in 1 .. Len(link_targets) :
          /\ link_targets[i].jump_address \in Nat
          /\ link_targets[i].jump_address >= 46
          /\ link_targets[i].jump_address + 8 <= ncode_buf_alloc_idx
          /\ \A j \in 1 .. i - 1 :
               link_targets[j].jump_address + 8 <= link_targets[i].jump_address
    <3>1. DOMAIN link_targets = 1 .. Len(link_targets)
      BY <2>1
    <3>2. \A i \in 1 .. Len(link_targets) : link_targets[i].jump_address \in Nat
      BY <3>1, LinkTargetType DEF GenInv
    <3> QED
      BY <3>1, <3>2, Sizes DEF GenInv, GeneratedCodeFits
  <2>3. CASE k \in 1 .. Len(link_targets)
    <3>1. \A j \in 1 .. k - 1 : j \in 1 .. Len(link_targets)
      BY <2>1, <2>3
    <3>2. link_targets[k].jump_address \in Nat
          /\ link_targets[k].jump_address + 8 <= ncode_buf_alloc_idx
      BY <2>2, <2>3
    <3>3. link_targets[k].jump_address + 8 <= ncode_buf_alloc_idx'
      BY <3>2, <1>3, <1>5
    <3> QED
      BY <3>1, <3>3, <2>1, <2>2, <2>3
  <2>4. CASE k = Len(link_targets) + 1
    <3>1. \A j \in 1 .. k - 1 : j \in 1 .. Len(link_targets)
      BY <2>1, <2>4
    <3>2. link.jump_address \in Nat
      BY <1>6
    <3>3. \A j \in 1 .. Len(link_targets) :
            link_targets[j].jump_address + 8 <= link.jump_address
      BY <3>2, <2>2, <1>5, <1>6
    <3>4. link_targets'[k] = link
      BY <2>1, <2>4
    <3>5. link.jump_address >= 46
      BY <3>2, <1>5, <1>6
    <3> QED
      BY <3>1, <3>3, <3>4, <3>5, <2>1, <1>6
  <2>5. k \in 1 .. Len(link_targets) \/ k = Len(link_targets) + 1
    <3>1. Len(link_targets) \in Nat /\ k \in 1 .. Len(link_targets) + 1
      BY <2>1
    <3> QED
      BY <3>1
  <2> QED
    BY <2>3, <2>4, <2>5
<1>9. \A k \in DOMAIN label_map' : label_map'[k] \in 46 .. ncode_buf_alloc_idx'
  BY <1>1, <1>3, <1>5, Sizes DEF GenInv, Records, GeneratedCodeFits
<1> QED
  BY <1>3, <1>4, <1>7, <1>8, <1>9, Sizes DEF GenInv, GeneratedCodeFits

LEMMA RecordLabelInv == GenInv /\ RecordLabel => GenInv'
<1> SUFFICES ASSUME GenInv, RecordLabel PROVE GenInv'
  OBVIOUS
<1>1. /\ icode_idx < Len(ops)
      /\ icode_idx' = icode_idx + 1
      /\ label_map' = Append(label_map, ncode_buf_alloc_idx)
      /\ UNCHANGED <<ops, ncode_buf_alloc_idx, link_targets>>
  BY DEF RecordLabel, Generating
<1>2. Counters'
  <2>1. /\ ops \in Seq(ICodeOperation)
        /\ icode_idx \in 0 .. Len(ops)
        /\ ncode_buf_alloc_idx \in 46 .. 46 + icode_idx * 22
    BY CountersMean DEF GenInv
  <2>2. /\ icode_idx + 1 \in 0 .. Len(ops)
        /\ ncode_buf_alloc_idx \in 46 .. 46 + (icode_idx + 1) * 22
    BY <1>1, <2>1
  <2> QED
    BY <1>1, <2>1, <2>2, Sizes DEF Counters
<1>3. Records'
  BY <1>1, CountersMean DEF GenInv, Records
<1>4. ncode_buf_alloc_idx' <= ncode_buf_size'
  BY <1>2, CountersMeanNext
<1>5. ASSUME NEW k \in DOMAIN label_map'
      PROVE  label_map'[k] \in 46 .. ncode_buf_alloc_idx'
  <2>1. label_map \in Seq(Nat) /\ ncode_buf_alloc_idx \in Nat
        /\ ncode_buf_alloc_idx >= 46
    BY CountersMean DEF GenInv, Records
  <2>2. k \in 1 .. Len(label_map) + 1
    BY <1>1, <2>1
  <2>3. CASE k \in 1 .. Len(label_map)
    BY <1>1, <2>1, <2>3, Sizes DEF GenInv, GeneratedCodeFits
  <2>4. CASE k = Len(label_map) + 1
    BY <1>1, <2>1, <2>4
  <2> QED
    BY <2>2, <2>3, <2>4
<1> QED
  BY <1>1, <1>2, <1>3, <1>4, <1>5, Sizes DEF GenInv, GeneratedCodeFits

LEMMA GenStepInv == GenInv /\ [ncode_gen \/ ncode_link]_gvars => GenInv'
<1> SUFFICES ASSUME GenInv, [ncode_gen \/ ncode_link]_gvars PROVE GenInv'
  OBVIOUS
<1>1. CASE WriteOperation
  BY <1>1, WriteOperationInv
<1>2. CASE WriteJump
  BY <1>2, WriteJumpInv
<1>3. CASE RecordLabel
  BY <1>3, RecordLabelInv
<1>4. CASE \/ RejectRegister \/ Return \/ ncode_link \/ UNCHANGED gvars
  <2>1. UNCHANGED <<ops, icode_idx, ncode_buf_alloc_idx, link_targets, label_map>>
    BY <1>4 DEF RejectRegister, Return, ncode_link, gvars
  <2> QED
    BY <2>1 DEF GenInv, Counters, Records, GeneratedCodeFits, ncode_buf_size
<1> QED
  BY <1>1, <1>2, <1>3, <1>4 DEF ncode_gen

(* For all code: what ncode_gen writes without a check stays inside the buffer it
   allocated for the longest template, and the addresses that linking is to fill
   in lie inside the code, apart from each other. *)
THEOREM GeneratedCodeAlwaysFits == GenSpec => []GeneratedCodeFits
<1>1. GenInit => GenInv
  BY GenInitInv
<1>2. GenInv /\ [ncode_gen \/ ncode_link]_gvars => GenInv'
  BY GenStepInv
<1>3. GenInv => GeneratedCodeFits
  BY DEF GenInv
<1> QED
  BY <1>1, <1>2, <1>3, PTL DEF GenSpec

----------------------------------------------------------------------------
(* A sequence of n elements, whatever they are. *)
OfLength(s, n) == s = [i \in 1 .. n |-> s[i]]

LEMMA OfLengthSeq ==
  ASSUME NEW n \in Nat, NEW s, OfLength(s, n), NEW S, \A i \in 1 .. n : s[i] \in S
  PROVE  s \in Seq(S) /\ Len(s) = n
<1>1. s \in [1 .. n -> S]
  BY DEF OfLength
<1>2. s \in Seq(S)
  BY <1>1, SeqDef
<1>3. DOMAIN s = 1 .. n /\ DOMAIN s = 1 .. Len(s) /\ Len(s) \in Nat
  BY <1>1, <1>2, LenProperties
<1> QED
  BY <1>2, <1>3

LEMMA OfLengthLen ==
  ASSUME NEW n \in Nat, NEW s, OfLength(s, n)
  PROVE  Len(s) = n
<1> DEFINE S == {s[i] : i \in 1 .. n}
<1>1. \A i \in 1 .. n : s[i] \in S
  OBVIOUS
<1> HIDE DEF S
<1> QED
  BY <1>1, OfLengthSeq

(* ... and two one after the other (a name keeps the provers from opening \o). *)
Joined(both, s, t) == both = s \o t

LEMMA OfLengthConcat ==
  ASSUME NEW m \in Nat, NEW n \in Nat, NEW s, NEW t, NEW both, Joined(both, s, t),
         OfLength(s, m), OfLength(t, n)
  PROVE  /\ OfLength(both, m + n)
         /\ \A i \in 1 .. m : both[i] = s[i]
         /\ \A i \in 1 .. n : both[m + i] = t[i]
<1> DEFINE S == {s[i] : i \in 1 .. m} \cup {t[i] : i \in 1 .. n}
<1>1. (\A i \in 1 .. m : s[i] \in S) /\ (\A i \in 1 .. n : t[i] \in S)
  OBVIOUS
<1> HIDE DEF S
<1>2. s \in Seq(S) /\ Len(s) = m /\ t \in Seq(S) /\ Len(t) = n
  BY <1>1, OfLengthSeq
<1>3. /\ both \in Seq(S)
      /\ Len(both) = m + n
      /\ \A i \in 1 .. m + n : both[i] = IF i <= m THEN s[i] ELSE t[i - m]
  BY <1>2, ConcatProperties DEF Joined
<1>4. both \in [1 .. m + n -> S]
  BY <1>3, LenProperties
<1>5. \A i \in 1 .. n : m + i \in 1 .. m + n /\ ~(m + i <= m) /\ m + i - m = i
  OBVIOUS
<1>6. \A i \in 1 .. m : i \in 1 .. m + n /\ i <= m
  OBVIOUS
<1>7. OfLength(both, m + n)
  BY <1>4 DEF OfLength
<1>8. \A i \in 1 .. m : both[i] = s[i]
  BY <1>3, <1>6
<1>9. ASSUME NEW i \in 1 .. n PROVE both[m + i] = t[i]
  <2>1. m + i \in 1 .. m + n /\ ~(m + i <= m) /\ (m + i) - m = i
    BY <1>5
  <2> DEFINE k == m + i
  <2>2. k \in 1 .. m + n /\ ~(k <= m) /\ k - m = i
    BY <2>1
  <2> HIDE DEF k
  <2>3. both[k] = t[i]
    BY <1>3, <2>2
  <2> QED
    BY <2>3 DEF k
<1> QED
  BY <1>3, <1>7, <1>8, <1>9

(* Numbers take as many bytes as they are given. *)
LEMMA Bytes ==
  ASSUME NEW n
  PROVE  OfLength(t32_to_bytes(n), 4) /\ OfLength(t64_to_bytes(n), 8)
BY DEF OfLength, ToBytes, t32_to_bytes, t64_to_bytes

LEMMA JumpLayout ==
  ASSUME NEW addr, NEW jump, jump = JUMP_to_x86_64(addr)
  PROVE  /\ OfLength(jump, 12)
         /\ \A j \in 1 .. 8 : jump[2 + j] = t64_to_bytes(addr)[j]
         /\ jump[1] = \h48 /\ jump[2] = \hBA /\ jump[11] = \h52 /\ jump[12] = \hC3
<1> DEFINE mov     == <<\h48, \hBA>>
           pushRet == <<\h52, \hC3>>
           eight   == t64_to_bytes(addr)
           opening == mov \o eight
<1>1. OfLength(mov, 2) /\ OfLength(eight, 8) /\ OfLength(pushRet, 2)
  BY Bytes DEF OfLength
<1>2. Joined(jump, opening, pushRet)
  BY DEF JUMP_to_x86_64, Joined
<1>3. Joined(opening, mov, eight)
  BY DEF Joined
<1>4. mov[1] = \h48 /\ mov[2] = \hBA /\ pushRet[1] = \h52 /\ pushRet[2] = \hC3
  OBVIOUS
<1> HIDE DEF mov, eight, pushRet, opening
<1>5. /\ OfLength(opening, 10)
      /\ \A j \in 1 .. 2 : opening[j] = mov[j]
      /\ \A j \in 1 .. 8 : opening[2 + j] = eight[j]
  BY <1>1, <1>3, OfLengthConcat
<1>6. /\ OfLength(jump, 12)
      /\ \A i \in 1 .. 10 : jump[i] = opening[i]
      /\ \A i \in 1 .. 2 : jump[10 + i] = pushRet[i]
  BY <1>1, <1>2, <1>5, OfLengthConcat
<1>7. \A j \in 1 .. 8 : jump[2 + j] = eight[j]
  BY <1>5, <1>6
<1>8. jump[1] = \h48 /\ jump[2] = \hBA
  BY <1>4, <1>5, <1>6
<1>9. jump[10 + 1] = \h52 /\ jump[10 + 2] = \hC3
  BY <1>4, <1>6
<1> QED
  BY <1>6, <1>7, <1>8, <1>9 DEF eight

(* In a jump behind other code, too, the address is where the offset says. *)
LEMMA BehindOtherCode ==
  ASSUME NEW addr, NEW before, NEW n \in Nat, OfLength(before, n),
         NEW code, Joined(code, before, JUMP_to_x86_64(addr))
  PROVE  /\ OfLength(code, n + 12)
         /\ \A j \in 1 .. 8 : code[n + 2 + j] = t64_to_bytes(addr)[j]
<1> DEFINE jump == JUMP_to_x86_64(addr)
<1>1. OfLength(jump, 12) /\ \A j \in 1 .. 8 : jump[2 + j] = t64_to_bytes(addr)[j]
  BY JumpLayout
<1>2. Joined(code, before, jump)
  OBVIOUS
<1> HIDE DEF jump
<1>3. OfLength(code, n + 12) /\ \A i \in 1 .. 12 : code[n + i] = jump[i]
  BY <1>1, <1>2, OfLengthConcat
<1>4. \A j \in 1 .. 8 : 2 + j \in 1 .. 12 /\ n + 2 + j = n + (2 + j)
  OBVIOUS
<1> QED
  BY <1>1, <1>3, <1>4

(* ... and the only bytes that depend on it. *)
SameOutside(s, t, n, offset) ==
  \A j \in 1 .. n : j \notin offset + 1 .. offset + 8 => s[j] = t[j]

LEMMA OnlyTheAddress ==
  ASSUME NEW addr, NEW other, NEW before, NEW n \in Nat, OfLength(before, n),
         NEW s, Joined(s, before, JUMP_to_x86_64(addr)),
         NEW t, Joined(t, before, JUMP_to_x86_64(other))
  PROVE  SameOutside(s, t, n + 12, n + 2)
<1> DEFINE j1 == JUMP_to_x86_64(addr)
           j2 == JUMP_to_x86_64(other)
<1>1. /\ OfLength(j1, 12) /\ OfLength(j2, 12)
      /\ j1[1] = j2[1] /\ j1[2] = j2[2] /\ j1[11] = j2[11] /\ j1[12] = j2[12]
  BY JumpLayout
<1>2. Joined(s, before, j1) /\ Joined(t, before, j2)
  OBVIOUS
<1> HIDE DEF j1, j2
<1>3. /\ \A i \in 1 .. n : s[i] = before[i]
      /\ \A i \in 1 .. 12 : s[n + i] = j1[i]
  BY <1>1, <1>2, OfLengthConcat
<1>4. /\ \A i \in 1 .. n : t[i] = before[i]
      /\ \A i \in 1 .. 12 : t[n + i] = j2[i]
  BY <1>1, <1>2, OfLengthConcat
<1>5. \A i \in {1, 2, 11, 12} : s[n + i] = t[n + i]
  BY <1>1, <1>3, <1>4
<1>6. \A j \in 1 .. n + 12 : j \notin n + 2 + 1 .. n + 2 + 8 =>
        j \in 1 .. n \/ j \in {n + 1, n + 2, n + 11, n + 12}
  OBVIOUS
<1> QED
  BY <1>3, <1>4, <1>5, <1>6 DEF SameOutside

LEMMA LoadImmLayout ==
  ASSUME NEW n, NEW register, NEW code, code = LOADIMM_to_x86_64(n, register)
  PROVE  OfLength(code, 5)
<1> DEFINE first == <<LOADIMM_reg_to_x86_64(register)>>
           value == t32_to_bytes(n)
<1>1. OfLength(first, 1) /\ OfLength(value, 4)
  BY Bytes DEF OfLength
<1>2. Joined(code, first, value)
  BY DEF LOADIMM_to_x86_64, Joined
<1> HIDE DEF first, value
<1> QED
  BY <1>1, <1>2, OfLengthConcat

LEMMA JumpCondLayout ==
  ASSUME NEW register, NEW addr, NEW code, code = JUMPCOND_to_x86_64(addr, register)
  PROVE  /\ OfLength(code, 21)
         /\ \A j \in 1 .. 8 : code[11 + j] = t64_to_bytes(addr)[j]
         /\ SameOutside(code, JUMPCOND_to_x86_64(NULL, register), 21, 11)
<1> DEFINE test  == <<\hBA, 0, 0, 0, 0, \h39, JUMPCOND_reg_to_x86_64(register),
                      \h7D, \h0C>>
           other == JUMPCOND_to_x86_64(NULL, register)
<1>1. OfLength(test, 9)
  BY DEF OfLength
<1>2. Joined(code, test, JUMP_to_x86_64(addr))
  BY DEF JUMPCOND_to_x86_64, Joined
<1>3. Joined(other, test, JUMP_to_x86_64(NULL))
  BY DEF JUMPCOND_to_x86_64, Joined
<1> HIDE DEF test, other
<1>4. /\ OfLength(code, 9 + 12)
      /\ \A j \in 1 .. 8 : code[9 + 2 + j] = t64_to_bytes(addr)[j]
  BY <1>1, <1>2, BehindOtherCode
<1>5. SameOutside(code, other, 9 + 12, 9 + 2)
  BY <1>1, <1>2, <1>3, OnlyTheAddress
<1>6. 9 + 12 = 21 /\ 9 + 2 = 11
  OBVIOUS
<1> QED
  BY <1>4, <1>5, <1>6 DEF other

LEMMA JumpLinkLayout ==
  ASSUME NEW addr, NEW code, code = JUMPLINK_to_x86_64(addr)
  PROVE  /\ OfLength(code, 22)
         /\ \A j \in 1 .. 8 : code[12 + j] = t64_to_bytes(addr)[j]
         /\ SameOutside(code, JUMPLINK_to_x86_64(NULL), 22, 12)
<1> DEFINE link  == <<\hE8, 0, 0, 0, 0, \h59, \h48, \h83, \hC1, \h11>>
           other == JUMPLINK_to_x86_64(NULL)
<1>1. OfLength(link, 10)
  BY DEF OfLength
<1>2. Joined(code, link, JUMP_to_x86_64(addr))
  BY DEF JUMPLINK_to_x86_64, Joined
<1>3. Joined(other, link, JUMP_to_x86_64(NULL))
  BY DEF JUMPLINK_to_x86_64, Joined
<1> HIDE DEF link, other
<1>4. /\ OfLength(code, 10 + 12)
      /\ \A j \in 1 .. 8 : code[10 + 2 + j] = t64_to_bytes(addr)[j]
  BY <1>1, <1>2, BehindOtherCode
<1>5. SameOutside(code, other, 10 + 12, 10 + 2)
  BY <1>1, <1>2, <1>3, OnlyTheAddress
<1>6. 10 + 12 = 22 /\ 10 + 2 = 12
  OBVIOUS
<1> QED
  BY <1>4, <1>5, <1>6 DEF other

LEMMA TemplateLayout ==
  ASSUME NEW op \in ICodeOperation, NEW addr, op.opc \in DOMAIN Size
  PROVE  /\ OfLength(Template(op, addr), Size[op.opc])
         /\ op.opc \notin Jumps => Template(op, addr) = Template(op, NULL)
         /\ op.opc \in Jumps =>
              /\ \A j \in 1 .. 8 : Template(op, addr)[AddressOffset[op.opc] + j]
                                     = t64_to_bytes(addr)[j]
              /\ SameOutside(Template(op, addr), Template(op, NULL), Size[op.opc],
                             AddressOffset[op.opc])
<1> USE DEF Template, Size, Jumps, AddressOffset
<1>1. CASE op.opc \in {"MOVE", "LOAD", "STORE", "ADD", "SUB", "JUMPADDR", "HALT"}
  <2>1. Template(op, addr) = Template(op, NULL) /\ op.opc \notin Jumps
    BY <1>1
  <2>2. CASE op.opc \in {"LOAD", "STORE"}
    <3>1. Size[op.opc] = 3 /\ \E a, b, c : Template(op, addr) = <<a, b, c>>
      BY <2>2 DEF LOAD_x86_64_size, STORE_x86_64_size, LOAD_to_x86_64,
                  STORE_to_x86_64
    <3> HIDE DEF Template, Size
    <3> QED
      BY <2>1, <3>1 DEF OfLength
  <2>3. CASE op.opc \in {"MOVE", "ADD", "SUB", "JUMPADDR"}
    <3>1. Size[op.opc] = 2 /\ \E a, b : Template(op, addr) = <<a, b>>
      BY <2>3 DEF MOVE_x86_64_size, ADD_x86_64_size, SUB_x86_64_size,
                  JUMPADDR_x86_64_size, MOVE_to_x86_64, ADD_to_x86_64,
                  SUB_to_x86_64, JUMPADDR_to_x86_64
    <3> HIDE DEF Template, Size
    <3> QED
      BY <2>1, <3>1 DEF OfLength
  <2>4. CASE op.opc = "HALT"
    <3>1. Size[op.opc] = 1 /\ \E a : Template(op, addr) = <<a>>
      BY <2>4 DEF HALT_x86_64_size, HALT_to_x86_64
    <3> HIDE DEF Template, Size
    <3> QED
      BY <2>1, <3>1 DEF OfLength
  <2> QED
    BY <1>1, <2>2, <2>3, <2>4
<1>2. CASE op.opc = "LOADIMM"
  <2>1. /\ Template(op, addr) = LOADIMM_to_x86_64(op.arg1, op.arg2)
        /\ Template(op, NULL) = LOADIMM_to_x86_64(op.arg1, op.arg2)
    BY <1>2
  <2> HIDE DEF Template
  <2>2. OfLength(Template(op, addr), 5)
    BY <2>1, LoadImmLayout
  <2> QED
    BY <1>2, <2>1, <2>2 DEF LOADIMM_x86_64_size
<1>3. CASE op.opc = "JUMP"
  <2>1. /\ Template(op, addr) = JUMP_to_x86_64(addr)
        /\ Template(op, NULL) = JUMP_to_x86_64(NULL)
        /\ Size[op.opc] = 12 /\ AddressOffset[op.opc] = 2
    BY <1>3 DEF JUMP_x86_64_size, JUMP_x86_64_address_offset
  <2> HIDE DEF Template, Size, AddressOffset
  <2>2. /\ OfLength(Template(op, addr), 12)
        /\ \A j \in 1 .. 8 : Template(op, addr)[2 + j] = t64_to_bytes(addr)[j]
        /\ \A j \in {1, 2, 11, 12} : Template(op, addr)[j] = Template(op, NULL)[j]
    BY <2>1, JumpLayout
  <2>3. \A j \in 1 .. 12 : j \notin 2 + 1 .. 2 + 8 => j \in {1, 2, 11, 12}
    OBVIOUS
  <2>4. SameOutside(Template(op, addr), Template(op, NULL), 12, 2)
    BY <2>2, <2>3 DEF SameOutside
  <2> QED
    BY <1>3, <2>1, <2>2, <2>4
<1>4. CASE op.opc = "JUMPCOND"
  <2>1. /\ Template(op, addr) = JUMPCOND_to_x86_64(addr, op.arg2)
        /\ Template(op, NULL) = JUMPCOND_to_x86_64(NULL, op.arg2)
        /\ Size[op.opc] = 21 /\ AddressOffset[op.opc] = 11
    BY <1>4 DEF JUMPCOND_x86_64_size, JUMPCOND_x86_64_address_offset
  <2> HIDE DEF Template, Size, AddressOffset
  <2> QED
    BY <1>4, <2>1, JumpCondLayout
<1>5. CASE op.opc = "JUMPLINK"
  <2>1. /\ Template(op, addr) = JUMPLINK_to_x86_64(addr)
        /\ Template(op, NULL) = JUMPLINK_to_x86_64(NULL)
        /\ Size[op.opc] = 22 /\ AddressOffset[op.opc] = 12
    BY <1>5 DEF JUMPLINK_x86_64_size, JUMPLINK_x86_64_address_offset
  <2> HIDE DEF Template, Size, AddressOffset
  <2> QED
    BY <1>5, <2>1, JumpLinkLayout
<1> QED
  BY <1>1, <1>2, <1>3, <1>4, <1>5

(* Each template has the size by which the generator allocates it, copies it and
   moves on (ncode.h:41-190), and the address in a jump is where its offset
   says, whatever is filled in: a memcpy neither reads behind the template nor
   leaves a part of it out, and linking overwrites the address and nothing else. *)
THEOREM TemplatesAreMeasured ==
  ASSUME NEW op \in ICodeOperation, NEW addr, op.opc \in DOMAIN Size
  PROVE  /\ Len(Template(op, addr)) = Size[op.opc]
         /\ op.opc \in Jumps =>
              LET offset == AddressOffset[op.opc]
              IN  \A j \in 1 .. Size[op.opc] :
                    Template(op, addr)[j] =
                      IF j \in offset + 1 .. offset + 8
                        THEN t64_to_bytes(addr)[j - offset]
                        ELSE Template(op, NULL)[j]
<1> DEFINE size   == Size[op.opc]
           offset == AddressOffset[op.opc]
<1>1. size \in Nat
  BY SizeBound
<1>2. Len(Template(op, addr)) = size
  <2> HIDE DEF size
  <2> QED
    BY <1>1, TemplateLayout, OfLengthLen DEF size
<1>3. ASSUME op.opc \in Jumps, NEW j \in 1 .. size
      PROVE  Template(op, addr)[j] =
               IF j \in offset + 1 .. offset + 8
                 THEN t64_to_bytes(addr)[j - offset] ELSE Template(op, NULL)[j]
  <2>1. offset \in Nat
    BY <1>3, AddressInside
  <2>2. /\ \A i \in 1 .. 8 : Template(op, addr)[offset + i] = t64_to_bytes(addr)[i]
        /\ SameOutside(Template(op, addr), Template(op, NULL), size, offset)
    BY <1>3, TemplateLayout
  <2> HIDE DEF size, offset
  <2>3. CASE j \in offset + 1 .. offset + 8
    <3>1. j - offset \in 1 .. 8 /\ offset + (j - offset) = j
      BY <1>1, <2>1, <2>3
    <3> QED
      BY <2>2, <2>3, <3>1
  <2> QED
    BY <2>2, <2>3 DEF SameOutside
<1> QED
  BY <1>2, <1>3

(***************************************************************************)
(* Part 2: the code that is put together by hand.                          *)
(***************************************************************************)
----------------------------------------------------------------------------
(* The preamble, with the two addresses in it. *)
PreambleStart ==
  LOADIMM_to_x86_64(0, ACCUMULATOR) \o LOADIMM_to_x86_64(0, TEMPORARY)
    \o LOADIMM_to_x86_64(0, RETURN_ADDRESS) \o <<\h48, \hBE>>

LEMMA PreambleStartLength == OfLength(PreambleStart, 17)
<1> DEFINE a == LOADIMM_to_x86_64(0, ACCUMULATOR)
           t == LOADIMM_to_x86_64(0, TEMPORARY)
           r == LOADIMM_to_x86_64(0, RETURN_ADDRESS)
           at == a \o t
           atr == at \o r
           mov == <<\h48, \hBE>>
<1>1. OfLength(a, 5) /\ OfLength(t, 5) /\ OfLength(r, 5)
  BY LoadImmLayout
<1>2. OfLength(mov, 2)
  BY DEF OfLength
<1>3. Joined(at, a, t) /\ Joined(atr, at, r) /\ Joined(PreambleStart, atr, mov)
  BY DEF Joined, PreambleStart
<1> HIDE DEF a, t, r, at, atr, mov
<1>4. OfLength(at, 5 + 5)
  BY <1>1, <1>3, OfLengthConcat
<1>5. OfLength(atr, 10 + 5)
  BY <1>1, <1>3, <1>4, OfLengthConcat
<1>6. OfLength(PreambleStart, 15 + 2)
  BY <1>2, <1>3, <1>5, OfLengthConcat
<1> QED
  BY <1>6

LEMMA PreambleLayout ==
  ASSUME NEW s, NEW a, NEW code, code = x86_64_preamble(s, a)
  PROVE  /\ OfLength(code, 46)
         /\ \A j \in 1 .. 17 : code[j] = PreambleStart[j]
         /\ \A j \in 1 .. 8 : code[17 + j] = t64_to_bytes(s)[j]
         /\ \A j \in 1 .. 3 : code[25 + j] = <<\h48, \h89, \hF7>>[j]
         /\ \A j \in 1 .. 5 : code[28 + j] = <<\hE8, \h0D, 0, 0, 0>>[j]
         /\ \A j \in 1 .. 2 : code[33 + j] = <<\h48, \hBA>>[j]
         /\ \A j \in 1 .. 8 : code[35 + j] = t64_to_bytes(a)[j]
         /\ \A j \in 1 .. 3 : code[43 + j] = <<\h89, \h02, \hC3>>[j]
<1> DEFINE stack == t64_to_bytes(s)
           save  == t64_to_bytes(a)
           move  == <<\h48, \h89, \hF7>>
           call  == <<\hE8, \h0D, 0, 0, 0>>
           mov   == <<\h48, \hBA>>
           store == <<\h89, \h02, \hC3>>
           code1 == PreambleStart \o stack
           code2 == code1 \o move
           code3 == code2 \o call
           code4 == code3 \o mov
           code5 == code4 \o save
<1>1. OfLength(stack, 8) /\ OfLength(save, 8)
  BY Bytes
<1>2. OfLength(move, 3) /\ OfLength(call, 5) /\ OfLength(mov, 2) /\ OfLength(store, 3)
  BY DEF OfLength
<1>3. /\ Joined(code1, PreambleStart, stack) /\ Joined(code2, code1, move)
      /\ Joined(code3, code2, call) /\ Joined(code4, code3, mov)
      /\ Joined(code5, code4, save) /\ Joined(code, code5, store)
  BY DEF Joined, x86_64_preamble, PreambleStart
<1> HIDE DEF stack, save, move, call, mov, store, code1, code2, code3, code4, code5
<1>4. /\ OfLength(code1, 17 + 8)
      /\ \A j \in 1 .. 17 : code1[j] = PreambleStart[j]
      /\ \A j \in 1 .. 8 : code1[17 + j] = stack[j]
  BY <1>1, <1>3, PreambleStartLength, OfLengthConcat
<1>5. /\ OfLength(code2, 25 + 3)
      /\ \A j \in 1 .. 25 : code2[j] = code1[j]
      /\ \A j \in 1 .. 3 : code2[25 + j] = move[j]
  BY <1>2, <1>3, <1>4, OfLengthConcat
<1>6. /\ OfLength(code3, 28 + 5)
      /\ \A j \in 1 .. 28 : code3[j] = code2[j]
      /\ \A j \in 1 .. 5 : code3[28 + j] = call[j]
  BY <1>2, <1>3, <1>5, OfLengthConcat
<1>7. /\ OfLength(code4, 33 + 2)
      /\ \A j \in 1 .. 33 : code4[j] = code3[j]
      /\ \A j \in 1 .. 2 : code4[33 + j] = mov[j]
  BY <1>2, <1>3, <1>6, OfLengthConcat
<1>8. /\ OfLength(code5, 35 + 8)
      /\ \A j \in 1 .. 35 : code5[j] = code4[j]
      /\ \A j \in 1 .. 8 : code5[35 + j] = save[j]
  <2>1. Joined(code5, code4, save) /\ OfLength(code4, 35) /\ OfLength(save, 8)
    BY <1>1, <1>3, <1>7
  <2> QED
    BY <2>1, OfLengthConcat
<1>9. /\ OfLength(code, 43 + 3)
      /\ \A j \in 1 .. 43 : code[j] = code5[j]
      /\ \A j \in 1 .. 3 : code[43 + j] = store[j]
  <2>1. Joined(code, code5, store) /\ OfLength(code5, 43) /\ OfLength(store, 3)
    BY <1>2, <1>3, <1>8
  <2> QED
    BY <2>1, OfLengthConcat
<1>10. /\ \A j \in 1 .. 35 : code[j] = code4[j]
       /\ \A j \in 1 .. 33 : code[j] = code3[j]
       /\ \A j \in 1 .. 28 : code[j] = code2[j]
       /\ \A j \in 1 .. 25 : code[j] = code1[j]
  BY <1>5, <1>6, <1>7, <1>8, <1>9
<1>11. \A j \in 1 .. 17 : code[j] = PreambleStart[j]
  BY <1>4, <1>10
<1>12. \A j \in 1 .. 8 : code[17 + j] = stack[j]
  BY <1>4, <1>10
<1>13. \A j \in 1 .. 3 : code[25 + j] = move[j]
  BY <1>5, <1>10
<1>14. \A j \in 1 .. 5 : code[28 + j] = call[j]
  BY <1>6, <1>10
<1>15. \A j \in 1 .. 2 : code[33 + j] = mov[j]
  BY <1>7, <1>10
<1>16. \A j \in 1 .. 8 : code[35 + j] = save[j]
  BY <1>8, <1>9
<1> QED
  BY <1>9, <1>11, <1>12, <1>13, <1>14, <1>15, <1>16
     DEF stack, save, move, call, mov, store

(* No other byte of it depends on them. *)
LEMMA PreambleFilledIn ==
  ASSUME NEW s, NEW a, NEW j \in 1 .. 46
  PROVE  x86_64_preamble(s, a)[j] =
           IF j - 17 \in 1 .. 8 THEN t64_to_bytes(s)[j - 17]
           ELSE IF j - 35 \in 1 .. 8 THEN t64_to_bytes(a)[j - 35]
           ELSE x86_64_preamble(NULL, NULL)[j]
<1> DEFINE code  == x86_64_preamble(s, a)
           empty == x86_64_preamble(NULL, NULL)
<1>1. /\ \A i \in 1 .. 17 : code[i] = PreambleStart[i]
      /\ \A i \in 1 .. 8 : code[17 + i] = t64_to_bytes(s)[i]
      /\ \A i \in 1 .. 3 : code[25 + i] = <<\h48, \h89, \hF7>>[i]
      /\ \A i \in 1 .. 5 : code[28 + i] = <<\hE8, \h0D, 0, 0, 0>>[i]
      /\ \A i \in 1 .. 2 : code[33 + i] = <<\h48, \hBA>>[i]
      /\ \A i \in 1 .. 8 : code[35 + i] = t64_to_bytes(a)[i]
      /\ \A i \in 1 .. 3 : code[43 + i] = <<\h89, \h02, \hC3>>[i]
  BY PreambleLayout
<1>2. /\ \A i \in 1 .. 17 : empty[i] = PreambleStart[i]
      /\ \A i \in 1 .. 3 : empty[25 + i] = <<\h48, \h89, \hF7>>[i]
      /\ \A i \in 1 .. 5 : empty[28 + i] = <<\hE8, \h0D, 0, 0, 0>>[i]
      /\ \A i \in 1 .. 2 : empty[33 + i] = <<\h48, \hBA>>[i]
      /\ \A i \in 1 .. 3 : empty[43 + i] = <<\h89, \h02, \hC3>>[i]
  BY PreambleLayout
<1> HIDE DEF code, empty
<1>3. CASE j \in 1 .. 17
  <2>1. code[j] = empty[j]
    BY <1>1, <1>2, <1>3
  <2> QED
    BY <1>3, <2>1 DEF code, empty
<1>4. CASE j \in 18 .. 25
  <2>1. j - 17 \in 1 .. 8 /\ 17 + (j - 17) = j
    BY <1>4
  <2>2. code[j] = t64_to_bytes(s)[j - 17]
    BY <1>1, <2>1
  <2> QED
    BY <2>1, <2>2 DEF code
<1>5. CASE j \in 26 .. 35
  <2>1. code[j] = empty[j]
    <3>1. \/ j - 25 \in 1 .. 3 /\ 25 + (j - 25) = j
          \/ j - 28 \in 1 .. 5 /\ 28 + (j - 28) = j
          \/ j - 33 \in 1 .. 2 /\ 33 + (j - 33) = j
      BY <1>5
    <3>2. \A i \in 1 .. 3 : code[25 + i] = empty[25 + i]
      BY <1>1, <1>2
    <3>3. \A i \in 1 .. 5 : code[28 + i] = empty[28 + i]
      BY <1>1, <1>2
    <3>4. \A i \in 1 .. 2 : code[33 + i] = empty[33 + i]
      BY <1>1, <1>2
    <3> QED
      BY <3>1, <3>2, <3>3, <3>4
  <2> QED
    BY <1>5, <2>1 DEF code, empty
<1>6. CASE j \in 36 .. 43
  <2>1. /\ j - 35 \in 1 .. 8 /\ 35 + (j - 35) = j
        /\ j - 17 \notin 1 .. 8
    BY <1>6
  <2>2. code[j] = t64_to_bytes(a)[j - 35]
    BY <1>1, <2>1
  <2> QED
    BY <2>1, <2>2 DEF code
<1>7. CASE j \in 44 .. 46
  <2>1. j - 43 \in 1 .. 3 /\ 43 + (j - 43) = j
    BY <1>7
  <2>2. \A i \in 1 .. 3 : code[43 + i] = empty[43 + i]
    BY <1>1, <1>2
  <2>3. code[j] = empty[j]
    BY <2>1, <2>2
  <2> QED
    BY <1>7, <2>3 DEF code, empty
<1> QED
  BY <1>3, <1>4, <1>5, <1>6, <1>7

----------------------------------------------------------------------------
(* What an operation takes in the code. *)
CodeSize(op) ==
  IF CHECK_ICODE_REG(op) /\ op.opc # "LABEL" THEN Size[op.opc] ELSE 0

LEMMA CodeOfLayout ==
  ASSUME NEW op \in ICodeOperation, NEW addr
  PROVE  CodeSize(op) \in Nat /\ OfLength(CodeOf(op, addr), CodeSize(op))
<1>1. CASE CHECK_ICODE_REG(op) /\ op.opc # "LABEL"
  <2>1. op.opc \in DOMAIN Size
    BY <1>1 DEF ICodeOperation, Opcode, Size
  <2>2. Size[op.opc] \in Nat /\ OfLength(Template(op, addr), Size[op.opc])
    BY <2>1, SizeBound, TemplateLayout
  <2> QED
    BY <1>1, <2>2 DEF CodeSize, CodeOf
<1>2. CASE ~(CHECK_ICODE_REG(op) /\ op.opc # "LABEL")
  <2>1. CodeOf(op, addr) = <<>> /\ CodeSize(op) = 0
    BY <1>2 DEF CodeSize, CodeOf, Template
  <2>2. OfLength(<<>>, 0)
    BY DEF OfLength
  <2> QED
    BY <2>1, <2>2
<1> QED
  BY <1>1, <1>2

LEMMA ElementType ==
  ASSUME NEW S, NEW s \in Seq(S), NEW i \in 1 .. Len(s)
  PROVE  s[i] \in S
OBVIOUS

(* The layout goes from one operation to the next. *)
LEMMA LayoutGoesOn ==
  ASSUME ops \in Seq(ICodeOperation)
  PROVE  /\ layout[1] = 46
         /\ \A i \in 1 .. Len(ops) : layout[i + 1] = layout[i] + CodeSize(ops[i])
<1> DEFINE n     == Len(ops)
           V     == Nat
           first == Len(x86_64_preamble(NULL, NULL))
           size  == [i \in 1 .. n |-> Len(CodeOf(ops[i], NULL))]
           step  == [i \in 1 .. n |-> [v \in Nat |-> v + size[i]]]
           Is(f) == f = [i \in 0 .. n |->
                           IF i = 0 THEN first
                           ELSE f[i - 1] + Len(CodeOf(ops[i], NULL))]
           end   == CHOOSE f : Is(f)
<1>1. n \in Nat /\ first = 46
  <2> DEFINE preamble == x86_64_preamble(NULL, NULL)
  <2>1. OfLength(preamble, 46)
    BY PreambleLayout
  <2> HIDE DEF preamble
  <2>2. Len(preamble) = 46
    BY <2>1, OfLengthLen
  <2> QED
    BY <2>2 DEF preamble
<1>2. \A i \in 1 .. n : size[i] = CodeSize(ops[i]) /\ size[i] \in Nat
  BY ElementType, CodeOfLayout, OfLengthLen
<1>3. layout = [i \in 1 .. n + 1 |-> end[i - 1]]
  BY DEF layout
<1> HIDE DEF n
<1>4. step \in Steps(V, n) /\ first \in V
  <2> HIDE DEF size
  <2> QED
    BY <1>1, <1>2 DEF Steps
<1>5. PICK f \in [0 .. n -> V] : Solves(f, first, step, n)
  <2> HIDE DEF first, step, V
  <2> QED
    BY <1>1, <1>4, RecursionHasSolution
<1>6. ASSUME NEW i \in 1 .. n
      PROVE  step[i][f[i - 1]] = f[i - 1] + Len(CodeOf(ops[i], NULL))
  <2>1. i - 1 \in 0 .. n
    BY <1>1
  <2>2. f[i - 1] \in Nat
    BY <2>1
  <2> QED
    BY <2>2
<1>7. Is(f)
  <2> HIDE DEF step, first
  <2> QED
    BY <1>1, <1>5, <1>6 DEF Solves
<1>8. Is(end)
  <2> HIDE DEF Is
  <2> QED
    BY <1>7
<1> HIDE DEF end
<1>9. /\ end[0] = first
      /\ \A i \in 1 .. n : end[i] = end[i - 1] + Len(CodeOf(ops[i], NULL))
  <2> HIDE DEF first
  <2> QED
    BY <1>1, <1>8
<1>10. layout[1] = 46
  BY <1>1, <1>3, <1>9
<1>11. ASSUME NEW i \in 1 .. n
       PROVE  layout[i + 1] = layout[i] + CodeSize(ops[i])
  <2>1. /\ i + 1 \in 1 .. n + 1 /\ i + 1 - 1 = i
        /\ i \in 1 .. n + 1
    BY <1>1
  <2>2. layout[i + 1] = end[i] /\ layout[i] = end[i - 1]
    BY <1>3, <2>1
  <2>3. Len(CodeOf(ops[i], NULL)) = CodeSize(ops[i])
    BY <1>2
  <2> QED
    BY <1>9, <2>2, <2>3
<1> QED
  BY <1>10, <1>11 DEF n

(* The array of the tests, operation by operation. *)
Prefixes(code) ==
  /\ code[0] = x86_64_preamble(stack_addr, SaveAddress)
  /\ \A i \in 1 .. Len(ops) :
       code[i] = code[i - 1] \o CodeOf(ops[i], JumpTarget(ops[i]))

LEMMA TestArrayGrows ==
  ASSUME ops \in Seq(ICodeOperation)
  PROVE  \E code : Prefixes(code) /\ TestArray = code[Len(ops)]
<1> DEFINE n     == Len(ops)
           first == x86_64_preamble(stack_addr, SaveAddress)
           Of(i) == CodeOf(ops[i], JumpTarget(ops[i]))
           In(i) == {Of(i)[j] : j \in 1 .. CodeSize(ops[i])}
           B     == {first[j] : j \in 1 .. 46} \cup UNION {In(i) : i \in 1 .. n}
           V     == Seq(B)
           step  == [i \in 1 .. n |-> [v \in V |-> v \o Of(i)]]
           Is(f) == f = [i \in 0 .. n |->
                           IF i = 0 THEN first
                           ELSE f[i - 1] \o CodeOf(ops[i], JumpTarget(ops[i]))]
           code  == CHOOSE f : Is(f)
<1>1. n \in Nat
  OBVIOUS
<1>2. first \in V
  <2>1. OfLength(first, 46) /\ \A j \in 1 .. 46 : first[j] \in B
    BY PreambleLayout
  <2> HIDE DEF first, B
  <2> QED
    BY <2>1, OfLengthSeq
<1>3. ASSUME NEW i \in 1 .. n
      PROVE  Of(i) \in V
  <2>1. /\ CodeSize(ops[i]) \in Nat
        /\ OfLength(Of(i), CodeSize(ops[i]))
    BY ElementType, CodeOfLayout
  <2>2. \A j \in 1 .. CodeSize(ops[i]) : Of(i)[j] \in B
    <3>1. \A j \in 1 .. CodeSize(ops[i]) : Of(i)[j] \in In(i)
      OBVIOUS
    <3> HIDE DEF Of, In
    <3>2. In(i) \subseteq B
      OBVIOUS
    <3> QED
      BY <3>1, <3>2
  <2> HIDE DEF Of, B
  <2> QED
    BY <2>1, <2>2, OfLengthSeq
<1>4. TestArray = code[n]
  BY DEF TestArray
<1>5. step \in Steps(V, n)
  <2> HIDE DEF n, Of, B
  <2> QED
    BY <1>1, <1>3 DEF Steps
<1>6. PICK f \in [0 .. n -> V] : Solves(f, first, step, n)
  <2> HIDE DEF first, step, V, n
  <2> QED
    BY <1>1, <1>2, <1>5, RecursionHasSolution
<1>7. ASSUME NEW i \in 1 .. n
      PROVE  step[i][f[i - 1]] = f[i - 1] \o Of(i)
  <2> HIDE DEF n, V, Of
  <2>1. i - 1 \in 0 .. n
    BY <1>1
  <2>2. f[i - 1] \in V
    BY <2>1
  <2> QED
    BY <2>2
<1>8. Is(f)
  <2>1. \A i \in 1 .. n :
          f[i] = f[i - 1] \o CodeOf(ops[i], JumpTarget(ops[i]))
    <3> HIDE DEF step, first, n, V
    <3> QED
      BY <1>6, <1>7 DEF Solves
  <2> HIDE DEF step, first, n, V
  <2> QED
    BY <1>1, <1>6, <2>1 DEF Solves
<1>9. Is(code)
  <2> HIDE DEF Is
  <2> QED
    BY <1>8
<1> HIDE DEF code
<1>10. Prefixes(code)
  <2>1. \A i \in 1 .. n : i \in 0 .. n /\ i # 0
    BY <1>1
  <2> HIDE DEF first
  <2>2. code[0] = first
    <3> HIDE DEF n
    <3> QED
      BY <1>1, <1>9
  <2>3. \A i \in 1 .. n : code[i] = code[i - 1] \o CodeOf(ops[i], JumpTarget(ops[i]))
    <3> HIDE DEF n
    <3> QED
      BY <1>1, <1>9, <2>1
  <2> QED
    BY <2>2, <2>3 DEF Prefixes, first
<1> QED
  BY <1>4, <1>10

----------------------------------------------------------------------------
(***************************************************************************)
(* The invariant: what has been generated so far, with its addresses       *)
(* filled in, is the array of the tests as far as the operations so far    *)
(* take it, and the place of the next operation is where the generator     *)
(* writes next.  The addresses are those of labels that may come later.    *)
(***************************************************************************)
BufferInv == DOMAIN ncode_buf = 0 .. ncode_buf_size - 1

LayoutInv == layout[icode_idx + 1] = ncode_buf_alloc_idx

CodeInv ==
  \A code : Prefixes(code) =>
    /\ OfLength(code[icode_idx], ncode_buf_alloc_idx)
    /\ \A i \in 1 .. ncode_buf_alloc_idx : code[icode_idx][i] = Filled(i - 1)

AllGenerated == gen_status \in {"generated", "not implemented"} => icode_idx = Len(ops)

TestInv == GenInv /\ BufferInv /\ LayoutInv /\ CodeInv /\ AllGenerated

(* None of this changes after it is generated. *)
LEMMA GeneratorGoesOn ==
  [NNext]_nvars => [ncode_gen \/ ncode_link]_gvars /\ UNCHANGED stack_addr
<1> SUFFICES ASSUME [NNext]_nvars
             PROVE  [ncode_gen \/ ncode_link]_gvars /\ UNCHANGED stack_addr
  OBVIOUS
<1>1. CASE Cpu
  BY <1>1 DEF Cpu, MovImmediate, MovRegister, MovToMemory, MovFromMemory,
              AddRegister, SubRegister, AddImmediate, Compare, JumpGreaterEqual,
              Call, Push, Pop, Ret, CpuFault, Continue
<1>2. CASE CallTest
  BY <1>2 DEF CallTest
<1>3. CASE \/ ncode_gen /\ UNCHANGED cpuvars
           \/ ncode_link /\ UNCHANGED cpuvars
           \/ UNCHANGED nvars
  BY <1>3 DEF cpuvars, nvars
<1> QED
  BY <1>1, <1>2, <1>3 DEF NNext

LEMMA OpsNeverChange == [ncode_gen \/ ncode_link]_gvars => UNCHANGED ops
BY DEF ncode_gen, ncode_link, gvars, WriteOperation, WriteJump, RecordLabel,
       RejectRegister, Return, Emit

LEMMA LayoutNeverChanges == UNCHANGED ops => UNCHANGED layout
BY DEF layout

LEMMA PrefixesNeverChange ==
  ASSUME NEW code, UNCHANGED <<ops, stack_addr>>
  PROVE  Prefixes(code)' = Prefixes(code)
BY LayoutNeverChanges DEF Prefixes, JumpTarget

(* What is filled in behind the preamble. *)
LinkedByte(i, k) ==
  t64_to_bytes(CodeAddress + layout[LabelPosition(ops, link_targets[k].label_no)])
    [i - link_targets[k].jump_address + 1]

LEMMA FilledBehindPreamble ==
  \A i \in Nat : i >= 46 =>
    /\ LinkTargetsOf(i) = {} => Filled(i) = ncode_buf[i]
    /\ \A k : LinkTargetsOf(i) = {k} => Filled(i) = LinkedByte(i, k)
<1> SUFFICES ASSUME NEW i \in Nat, i >= 46
             PROVE  /\ LinkTargetsOf(i) = {} => Filled(i) = ncode_buf[i]
                    /\ \A k : LinkTargetsOf(i) = {k} => Filled(i) = LinkedByte(i, k)
  OBVIOUS
<1>1. /\ i - x86_64_preamble_stack_addr_offset \notin 0 .. 7
      /\ i - x86_64_preamble_save_addr_offset \notin 0 .. 7
  BY DEF x86_64_preamble_stack_addr_offset, x86_64_preamble_save_addr_offset,
         LOADIMM_x86_64_size
<1>2. ASSUME LinkTargetsOf(i) = {} PROVE Filled(i) = ncode_buf[i]
  BY <1>1, <1>2 DEF Filled
<1>3. ASSUME NEW k, LinkTargetsOf(i) = {k} PROVE Filled(i) = LinkedByte(i, k)
  <2>1. (CHOOSE l \in LinkTargetsOf(i) : TRUE) = k
    BY <1>3
  <2>2. LinkTargetsOf(i) # {}
    BY <1>3
  <2> QED
    BY <1>1, <2>1, <2>2 DEF Filled, LinkedByte
<1> QED
  BY <1>2, <1>3

LEMMA FilledBehindPreambleNext ==
  \A i \in Nat : i >= 46 =>
    /\ LinkTargetsOf(i)' = {} => Filled(i)' = ncode_buf'[i]
    /\ \A k : LinkTargetsOf(i)' = {k} => Filled(i)' = LinkedByte(i, k)'
<1>1. (\A i \in Nat : i >= 46 =>
         /\ LinkTargetsOf(i) = {} => Filled(i) = ncode_buf[i]
         /\ \A k : LinkTargetsOf(i) = {k} => Filled(i) = LinkedByte(i, k))'
  BY FilledBehindPreamble, PTL
<1> QED
  BY <1>1

(* The targets recorded so far, and the bytes they are for. *)
LEMMA TargetsBehind ==
  ASSUME GenInv
  PROVE  \A k \in DOMAIN link_targets :
           /\ link_targets[k].jump_address \in Nat
           /\ link_targets[k].jump_address >= 46
           /\ link_targets[k].jump_address + 8 <= ncode_buf_alloc_idx
BY LinkTargetType, Sizes DEF GenInv, GeneratedCodeFits

(* A step changes none of the bytes before the ones it writes. *)
LEMMA FilledKept ==
  ASSUME GenInv, UNCHANGED <<ops, stack_addr>>,
         NEW i \in 0 .. ncode_buf_alloc_idx - 1, ncode_buf'[i] = ncode_buf[i],
         NEW link,
         \/ link_targets' = link_targets
         \/ /\ link_targets' = Append(link_targets, link)
            /\ link.jump_address \in Nat
            /\ link.jump_address >= ncode_buf_alloc_idx
  PROVE  Filled(i)' = Filled(i)
<1>1. layout' = layout
  BY LayoutNeverChanges
<1>2. /\ LinkTargetsOf(i)' = LinkTargetsOf(i)
      /\ \A k \in LinkTargetsOf(i) : link_targets'[k] = link_targets[k]
  <2>1. CASE link_targets' = link_targets
    BY <2>1 DEF LinkTargetsOf
  <2>2. CASE /\ link_targets' = Append(link_targets, link)
             /\ link.jump_address \in Nat
             /\ link.jump_address >= ncode_buf_alloc_idx
    <3> DEFINE n == Len(link_targets)
    <3>1. /\ n \in Nat
          /\ DOMAIN link_targets = 1 .. n
          /\ DOMAIN link_targets' = 1 .. n + 1
          /\ \A k \in 1 .. n : link_targets'[k] = link_targets[k]
          /\ link_targets'[n + 1] = link
      BY <2>2 DEF GenInv, Records
    <3>2. ncode_buf_alloc_idx \in Nat
      BY CountersMean DEF GenInv
    <3>3. ~(link.jump_address <= i)
      BY <2>2, <3>2
    <3> HIDE DEF n
    <3> QED
      BY <3>1, <3>3 DEF LinkTargetsOf
  <2> QED
    BY <2>1, <2>2
<1>3. CASE LinkTargetsOf(i) = {}
  BY <1>1, <1>2, <1>3 DEF Filled
<1>4. CASE LinkTargetsOf(i) # {}
  <2> DEFINE k == CHOOSE l \in LinkTargetsOf(i) : TRUE
  <2>1. k \in LinkTargetsOf(i)
    BY <1>4
  <2>2. link_targets'[k] = link_targets[k]
    BY <1>2, <2>1
  <2>3. (CHOOSE l \in LinkTargetsOf(i)' : TRUE) = k
    BY <1>2
  <2> QED
    BY <1>1, <1>2, <1>4, <2>2, <2>3 DEF Filled
<1> QED
  BY <1>3, <1>4

(* memcpy of a whole template. *)
LEMMA WrittenBytes ==
  ASSUME NEW n \in Nat, NEW buf, DOMAIN buf = 0 .. n - 1,
         NEW target \in Nat, NEW size \in Nat, target + size <= n,
         NEW template, Len(template) = size,
         NEW after, after = Written(buf, target, template, size)
  PROVE  /\ DOMAIN after = 0 .. n - 1
         /\ \A i \in 0 .. target - 1 : after[i] = buf[i]
         /\ \A j \in 1 .. size : after[target + j - 1] = template[j]
<1>1. after = [i \in 0 .. n - 1 |->
                 IF i \in target .. target + size - 1
                 THEN IF i - target < Len(template) THEN template[i - target + 1]
                      ELSE Uninit
                 ELSE buf[i]]
  BY DEF Written
<1>2. \A i \in 0 .. target - 1 : after[i] = buf[i]
  BY <1>1
<1>3. ASSUME NEW j \in 1 .. size
      PROVE  after[target + j - 1] = template[j]
  <2> DEFINE i == target + j - 1
  <2>1. /\ i \in 0 .. n - 1
        /\ i \in target .. target + size - 1
        /\ i - target < size
        /\ i - target + 1 = j
    OBVIOUS
  <2> HIDE DEF i
  <2>2. after[i] = template[j]
    BY <1>1, <2>1
  <2> QED
    BY <2>2 DEF i
<1> QED
  BY <1>1, <1>2, <1>3

LEMMA EmitWrites ==
  ASSUME GenInv, BufferInv, icode_idx < Len(ops), cur_instr.opc \in DOMAIN Size, Emit
  PROVE  /\ BufferInv'
         /\ \A i \in 0 .. ncode_buf_alloc_idx - 1 : ncode_buf'[i] = ncode_buf[i]
         /\ \A j \in 1 .. Size[cur_instr.opc] :
              ncode_buf'[ncode_buf_alloc_idx + j - 1] = Template(cur_instr, NULL)[j]
<1> DEFINE size     == Size[cur_instr.opc]
           template == Template(cur_instr, NULL)
           n        == ncode_buf_size
           end      == ncode_buf_alloc_idx
<1>1. /\ Counters' /\ end' = end + size
      /\ size \in Nat
      /\ ncode_buf_size' = n
  <2>1. Counters
    BY DEF GenInv
  <2>2. Counters' /\ ncode_buf_alloc_idx' = ncode_buf_alloc_idx + Size[cur_instr.opc]
    BY <2>1, EmitMovesOn
  <2>3. Size[cur_instr.opc] \in Nat
    BY SizeIsNat, Zenon
  <2>4. ncode_buf_size' = ncode_buf_size
    BY DEF Emit, ncode_buf_size
  <2> QED
    BY <2>2, <2>3, <2>4
<1>2. n \in Nat /\ end \in Nat
  <2>1. Len(ops) \in Nat
    BY CountersMean DEF GenInv
  <2> QED
    BY <2>1, CountersMean, Sizes DEF GenInv, ncode_buf_size
<1>3. end + size <= n
  BY <1>1, CountersMeanNext
<1>4. Len(template) = size
  <2>1. OfLength(template, size)
    BY CurrentOperation, TemplateLayout DEF GenInv
  <2> HIDE DEF size, template
  <2> QED
    BY <1>1, <2>1, OfLengthLen
<1>5. ncode_buf' = Written(ncode_buf, end, template, size)
  BY DEF Emit
<1>6. DOMAIN ncode_buf = 0 .. n - 1
  BY DEF BufferInv
<1> HIDE DEF size, template, n, end
<1>7. /\ DOMAIN ncode_buf' = 0 .. n - 1
      /\ \A i \in 0 .. end - 1 : ncode_buf'[i] = ncode_buf[i]
      /\ \A j \in 1 .. size : ncode_buf'[end + j - 1] = template[j]
  BY <1>1, <1>2, <1>3, <1>4, <1>5, <1>6, WrittenBytes
<1> QED
  BY <1>1, <1>7 DEF size, template, n, end, BufferInv

(* The array of the tests grows by the same template, with an address in it. *)
LEMMA EmitExtends ==
  ASSUME GenInv, CodeInv, icode_idx < Len(ops), cur_instr.opc \in DOMAIN Size, Emit,
         NEW code, Prefixes(code)
  PROVE  /\ OfLength(code[icode_idx'], ncode_buf_alloc_idx')
         /\ \A i \in 1 .. ncode_buf_alloc_idx :
              code[icode_idx'][i] = code[icode_idx][i]
         /\ \A j \in 1 .. Size[cur_instr.opc] :
              code[icode_idx'][ncode_buf_alloc_idx + j]
                = Template(cur_instr, JumpTarget(cur_instr))[j]
<1> DEFINE size     == Size[cur_instr.opc]
           template == Template(cur_instr, JumpTarget(cur_instr))
           end      == ncode_buf_alloc_idx
           before   == code[icode_idx]
           after    == code[icode_idx']
<1>1. /\ icode_idx' = icode_idx + 1
      /\ end' = end + size
      /\ size \in Nat /\ end \in Nat
      /\ icode_idx \in Nat /\ Len(ops) \in Nat
  <2>1. icode_idx' = icode_idx + 1 /\ end' = end + size
    BY DEF Emit
  <2>2. size \in Nat
    BY SizeIsNat, Zenon
  <2>3. end \in Nat /\ icode_idx \in Nat /\ Len(ops) \in Nat
    BY CountersMean DEF GenInv
  <2> QED
    BY <2>1, <2>2, <2>3
<1>2. Joined(after, before, template)
  <2>1. icode_idx + 1 \in 1 .. Len(ops) /\ icode_idx + 1 - 1 = icode_idx
    BY <1>1
  <2>2. \A i \in 1 .. Len(ops) :
          Joined(code[i], code[i - 1], CodeOf(ops[i], JumpTarget(ops[i])))
    BY DEF Prefixes, Joined
  <2>3. ops[icode_idx + 1] = cur_instr
    BY DEF cur_instr, OperationAt
  <2>4. CodeOf(cur_instr, JumpTarget(cur_instr)) = template
    BY DEF CodeOf, Emit
  <2>5. Joined(after, code[icode_idx + 1 - 1],
               CodeOf(ops[icode_idx + 1], JumpTarget(ops[icode_idx + 1])))
    BY <1>1, <2>1, <2>2
  <2> HIDE DEF template, before, after
  <2> QED
    BY <2>1, <2>3, <2>4, <2>5 DEF before
<1>3. OfLength(template, size)
  BY CurrentOperation, TemplateLayout DEF GenInv
<1>4. OfLength(before, end)
  BY DEF CodeInv
<1> HIDE DEF size, template, before, after, end
<1>5. /\ OfLength(after, end + size)
      /\ \A i \in 1 .. end : after[i] = before[i]
      /\ \A i \in 1 .. size : after[end + i] = template[i]
  BY <1>1, <1>2, <1>3, <1>4, OfLengthConcat
<1> QED
  BY <1>1, <1>5 DEF size, template, before, after, end

(* So does the layout. *)
LEMMA EmitPlaces ==
  ASSUME GenInv, LayoutInv, icode_idx < Len(ops), cur_instr.opc \in DOMAIN Size, Emit
  PROVE  LayoutInv'
<1>1. /\ icode_idx' = icode_idx + 1
      /\ ncode_buf_alloc_idx' = ncode_buf_alloc_idx + Size[cur_instr.opc]
      /\ ops' = ops
      /\ icode_idx \in Nat /\ Len(ops) \in Nat
      /\ ops \in Seq(ICodeOperation)
  BY CountersMean DEF GenInv, Emit
<1>2. icode_idx + 1 \in 1 .. Len(ops)
  BY <1>1
<1>3. CodeSize(ops[icode_idx + 1]) = Size[cur_instr.opc]
  <2>1. "LABEL" \notin DOMAIN Size
    BY DEF Size
  <2>2. ops[icode_idx + 1] = cur_instr
    BY DEF cur_instr, OperationAt
  <2> QED
    BY <2>1, <2>2 DEF CodeSize, Emit
<1>4. layout[icode_idx + 1 + 1] = layout[icode_idx + 1] + CodeSize(ops[icode_idx + 1])
  BY <1>1, <1>2, LayoutGoesOn
<1>5. layout' = layout
  BY <1>1, LayoutNeverChanges
<1> QED
  BY <1>1, <1>3, <1>4, <1>5 DEF LayoutInv

(* So do the bytes filled in. *)
LEMMA EmitCode ==
  ASSUME GenInv, BufferInv, CodeInv, UNCHANGED stack_addr,
         icode_idx < Len(ops), cur_instr.opc \in DOMAIN Size, Emit,
         NEW link,
         \/ link_targets' = link_targets
         \/ /\ link_targets' = Append(link_targets, link)
            /\ link.jump_address \in Nat
            /\ link.jump_address >= ncode_buf_alloc_idx,
         \A i \in Nat : \A j \in 1 .. Size[cur_instr.opc] :
           i = ncode_buf_alloc_idx + j - 1 =>
             Filled(i)' = Template(cur_instr, JumpTarget(cur_instr))[j]
  PROVE  CodeInv'
<1> DEFINE size == Size[cur_instr.opc]
           end  == ncode_buf_alloc_idx
<1>1. /\ ops' = ops
      /\ end' = end + size
      /\ end \in Nat /\ size \in Nat
  <2>1. ops' = ops /\ end' = end + size
    BY DEF Emit
  <2>2. size \in Nat
    BY SizeIsNat, Zenon
  <2>3. end \in Nat
    BY CountersMean DEF GenInv
  <2> QED
    BY <2>1, <2>2, <2>3
<1> SUFFICES ASSUME NEW code, Prefixes(code)'
             PROVE  /\ OfLength(code[icode_idx'], end')
                    /\ \A i \in 1 .. end' : code[icode_idx'][i] = Filled(i - 1)'
  BY DEF CodeInv
<1>2. Prefixes(code)
  BY <1>1, PrefixesNeverChange
<1>3. \A i \in 1 .. end : code[icode_idx][i] = Filled(i - 1)
  BY <1>2 DEF CodeInv
<1>4. /\ OfLength(code[icode_idx'], end')
      /\ \A i \in 1 .. end : code[icode_idx'][i] = code[icode_idx][i]
      /\ \A j \in 1 .. size :
           code[icode_idx'][end + j] = Template(cur_instr, JumpTarget(cur_instr))[j]
  BY <1>2, EmitExtends
<1>5. ASSUME NEW i \in 1 .. end
      PROVE  Filled(i - 1)' = Filled(i - 1)
  <2>1. i - 1 \in 0 .. end - 1
    BY <1>1
  <2>2. ncode_buf'[i - 1] = ncode_buf[i - 1]
    BY <2>1, EmitWrites
  <2> QED
    BY <1>1, <2>1, <2>2, FilledKept
<1> DEFINE filled  == [i \in Nat |-> Filled(i - 1)]
           filled2 == [i \in Nat |-> Filled(i - 1)']
           before  == code[icode_idx]
           after   == code[icode_idx']
<1>6. \A i \in 1 .. end : i \in Nat
  BY <1>1
<1>7. \A i \in 1 .. end : before[i] = filled[i] /\ filled2[i] = filled[i]
  BY <1>3, <1>5, <1>6
<1>8. \A j \in 1 .. size : after[end + j] = filled2[end + j]
  <2> SUFFICES ASSUME NEW j \in 1 .. size PROVE after[end + j] = filled2[end + j]
    OBVIOUS
  <2>1. PICK k \in Nat : k = end + j /\ k - 1 \in Nat /\ k - 1 = end + j - 1
    BY <1>1
  <2>2. Filled(k - 1)' = Template(cur_instr, JumpTarget(cur_instr))[j]
    BY <2>1
  <2>3. filled2[k] = Filled(k - 1)'
    OBVIOUS
  <2> QED
    BY <1>4, <2>1, <2>2, <2>3
<1>9. \A i \in 1 .. end : after[i] = before[i]
  BY <1>4
<1>10. \A i \in 1 .. end + size : after[i] = filled2[i]
  <2> HIDE DEF end, size, before, after, filled, filled2
  <2> SUFFICES ASSUME NEW i \in 1 .. end + size PROVE after[i] = filled2[i]
    OBVIOUS
  <2>1. CASE i \in 1 .. end
    BY <1>7, <1>9, <2>1
  <2>2. CASE i \notin 1 .. end
    <3>1. i - end \in 1 .. size /\ end + (i - end) = i
      BY <1>1, <2>2
    <3> QED
      BY <1>8, <3>1
  <2> QED
    BY <2>1, <2>2
<1>11. \A i \in 1 .. end' : after[i] = Filled(i - 1)'
  <2> SUFFICES ASSUME NEW i \in 1 .. end' PROVE after[i] = Filled(i - 1)'
    OBVIOUS
  <2>1. i \in Nat /\ i \in 1 .. end + size
    BY <1>1
  <2>2. filled2[i] = Filled(i - 1)'
    BY <2>1
  <2>3. after[i] = filled2[i]
    BY <1>10, <2>1
  <2> QED
    BY <2>2, <2>3
<1> QED
  BY <1>4, <1>11

LEMMA WriteOperationTest ==
  TestInv /\ WriteOperation /\ UNCHANGED stack_addr => CodeInv' /\ BufferInv' /\ LayoutInv'
<1> SUFFICES ASSUME TestInv, WriteOperation, UNCHANGED stack_addr
             PROVE  CodeInv' /\ BufferInv' /\ LayoutInv'
  OBVIOUS
<1>inv. GenInv /\ BufferInv /\ LayoutInv /\ CodeInv
  BY DEF TestInv
<1>1. /\ icode_idx < Len(ops)
      /\ cur_instr.opc \in DOMAIN Size /\ cur_instr.opc \notin Jumps
      /\ Emit
      /\ link_targets' = link_targets
  BY DEF WriteOperation, Generating
<1>2. BufferInv' /\ LayoutInv'
  BY <1>inv, <1>1, EmitWrites, EmitPlaces
<1>3. ASSUME NEW i \in Nat, NEW j \in 1 .. Size[cur_instr.opc],
             i = ncode_buf_alloc_idx + j - 1
      PROVE  Filled(i)' = Template(cur_instr, JumpTarget(cur_instr))[j]
  <2>1. /\ ncode_buf_alloc_idx \in Nat /\ ncode_buf_alloc_idx >= 46
        /\ Size[cur_instr.opc] \in 1 .. 22
    BY <1>inv, <1>1, CountersMean, SizeBound DEF GenInv
  <2>2. i >= 46 /\ i >= ncode_buf_alloc_idx
    BY <1>3, <2>1
  <2>3. LinkTargetsOf(i) = {}
    <3>1. \A k \in DOMAIN link_targets :
            /\ link_targets[k].jump_address \in Nat
            /\ link_targets[k].jump_address + 8 <= ncode_buf_alloc_idx
      BY <1>inv, TargetsBehind
    <3>2. \A k \in DOMAIN link_targets : ~(i < link_targets[k].jump_address + 8)
      BY <2>1, <2>2, <3>1
    <3> QED
      BY <3>2 DEF LinkTargetsOf
  <2>4. LinkTargetsOf(i)' = {}
    BY <1>1, <2>3 DEF LinkTargetsOf
  <2>5. Filled(i)' = ncode_buf'[i]
    BY <2>2, <2>4, FilledBehindPreambleNext
  <2>6. ncode_buf'[i] = Template(cur_instr, NULL)[j]
    BY <1>inv, <1>1, <1>3, EmitWrites
  <2>7. JumpTarget(cur_instr) = NULL
    BY <1>1 DEF JumpTarget
  <2> QED
    BY <2>5, <2>6, <2>7
<1>4. CodeInv'
  BY <1>inv, <1>1, <1>3, EmitCode
<1> QED
  BY <1>2, <1>4

LEMMA WriteJumpTest ==
  TestInv /\ WriteJump /\ UNCHANGED stack_addr => CodeInv' /\ BufferInv' /\ LayoutInv'
<1> SUFFICES ASSUME TestInv, WriteJump, UNCHANGED stack_addr
             PROVE  CodeInv' /\ BufferInv' /\ LayoutInv'
  OBVIOUS
<1> DEFINE offset == AddressOffset[cur_instr.opc]
           size   == Size[cur_instr.opc]
           end    == ncode_buf_alloc_idx
           link   == [jump_address |-> end + offset, label_no |-> cur_instr.arg1]
           n      == Len(link_targets)
<1>inv. GenInv /\ BufferInv /\ LayoutInv /\ CodeInv
  BY DEF TestInv
<1>1. /\ icode_idx < Len(ops)
      /\ cur_instr.opc \in Jumps
      /\ Emit
      /\ link_targets' = Append(link_targets, link)
  BY DEF WriteJump, Generating
<1>2. /\ cur_instr.opc \in DOMAIN Size
      /\ offset \in Nat
      /\ size \in 1 .. 22
      /\ offset + 8 <= size
  BY <1>1, AddressInside, SizeBound
<1>3. BufferInv' /\ LayoutInv'
  BY <1>inv, <1>1, <1>2, EmitWrites, EmitPlaces
<1>4. end \in Nat /\ end >= 46
  BY <1>inv, CountersMean DEF GenInv
<1>5. /\ n \in Nat
      /\ DOMAIN link_targets = 1 .. n
      /\ DOMAIN link_targets' = 1 .. n + 1
      /\ \A k \in 1 .. n : link_targets'[k] = link_targets[k]
      /\ link_targets'[n + 1] = link
  BY <1>inv, <1>1 DEF GenInv, Records
<1>6. ASSUME NEW i \in Nat, NEW j \in 1 .. size, i = end + j - 1
      PROVE  Filled(i)' = Template(cur_instr, JumpTarget(cur_instr))[j]
  <2>1. i >= 46 /\ i >= end
    BY <1>2, <1>4, <1>6
  <2>2. \A k \in 1 .. n : ~(i < link_targets[k].jump_address + 8)
    <3>1. \A k \in 1 .. n :
            /\ link_targets[k].jump_address \in Nat
            /\ link_targets[k].jump_address + 8 <= end
      BY <1>inv, <1>5, TargetsBehind
    <3> HIDE DEF end, n
    <3> QED
      BY <1>4, <2>1, <3>1
  <2>3. link.jump_address = end + offset /\ link.label_no = cur_instr.arg1
    OBVIOUS
  <2>4. LinkTargetsOf(i)' =
          IF j \in offset + 1 .. offset + 8 THEN {n + 1} ELSE {}
    <3>1. end + offset <= i /\ i < end + offset + 8 <=> j \in offset + 1 .. offset + 8
      <4> HIDE DEF end, offset, size
      <4> QED
        BY <1>2, <1>4, <1>6
    <3> HIDE DEF end, offset, size, link, n
    <3>2. LinkTargetsOf(i)' =
            {k \in 1 .. n + 1 : link_targets'[k].jump_address <= i
                                  /\ i < link_targets'[k].jump_address + 8}
      BY <1>5 DEF LinkTargetsOf
    <3>3. \A k \in 1 .. n : k \notin LinkTargetsOf(i)'
      BY <1>5, <2>2, <3>2
    <3>4. n + 1 \in LinkTargetsOf(i)' <=> j \in offset + 1 .. offset + 8
      BY <1>5, <2>3, <3>1, <3>2
    <3>5. \A k \in LinkTargetsOf(i)' : k \in 1 .. n \/ k = n + 1
      BY <1>5, <3>2
    <3> QED
      BY <3>3, <3>4, <3>5
  <2>5. JumpTarget(cur_instr)
          = CodeAddress + layout[LabelPosition(ops, cur_instr.arg1)]
    BY <1>1 DEF JumpTarget
  <2>6. /\ \A m \in 1 .. 8 :
             Template(cur_instr, JumpTarget(cur_instr))[offset + m]
               = t64_to_bytes(JumpTarget(cur_instr))[m]
        /\ SameOutside(Template(cur_instr, JumpTarget(cur_instr)),
                       Template(cur_instr, NULL), size, offset)
    BY <1>inv, <1>1, <1>2, CurrentOperation, TemplateLayout DEF GenInv
  <2>7. CASE j \in offset + 1 .. offset + 8
    <3>1. PICK k : k = n + 1
      OBVIOUS
    <3>2. Filled(i)' = LinkedByte(i, k)'
      <4>1. LinkTargetsOf(i)' = {k}
        BY <2>4, <2>7, <3>1
      <4> QED
        BY <2>1, <4>1, FilledBehindPreambleNext
    <3>3. link_targets'[k] = link
      BY <1>5, <3>1
    <3>4. layout' = layout /\ ops' = ops
      BY <1>1, LayoutNeverChanges DEF Emit
    <3>5. LinkedByte(i, k)' = t64_to_bytes(JumpTarget(cur_instr))[i - (end + offset) + 1]
      <4> HIDE DEF link, end, offset, n
      <4> QED
        BY <2>3, <2>5, <3>3, <3>4 DEF LinkedByte
    <3>6. i - (end + offset) + 1 = j - offset /\ j - offset \in 1 .. 8
          /\ offset + (j - offset) = j
      <4> HIDE DEF end, offset, size
      <4> QED
        BY <1>2, <1>4, <1>6, <2>7
    <3>7. Template(cur_instr, JumpTarget(cur_instr))[j]
            = t64_to_bytes(JumpTarget(cur_instr))[j - offset]
      <4> HIDE DEF offset
      <4> QED
        BY <2>6, <3>6
    <3> QED
      BY <3>2, <3>5, <3>6, <3>7
  <2>8. CASE j \notin offset + 1 .. offset + 8
    <3>1. Filled(i)' = ncode_buf'[i]
      BY <2>1, <2>4, <2>8, FilledBehindPreambleNext
    <3>2. ncode_buf'[i] = Template(cur_instr, NULL)[j]
      BY <1>inv, <1>1, <1>2, <1>6, EmitWrites
    <3> QED
      BY <2>6, <2>8, <3>1, <3>2 DEF SameOutside
  <2> QED
    BY <2>7, <2>8
<1>7. link.jump_address \in Nat /\ link.jump_address >= end
  BY <1>2, <1>4
<1>8. CodeInv'
  <2> HIDE DEF link
  <2> QED
    BY <1>inv, <1>1, <1>2, <1>6, <1>7, EmitCode
<1> QED
  BY <1>3, <1>8

(* A label takes no code. *)
LEMMA RecordLabelTest ==
  TestInv /\ RecordLabel /\ UNCHANGED stack_addr => CodeInv' /\ BufferInv' /\ LayoutInv'
<1> SUFFICES ASSUME TestInv, RecordLabel, UNCHANGED stack_addr
             PROVE  CodeInv' /\ BufferInv' /\ LayoutInv'
  OBVIOUS
<1> DEFINE end == ncode_buf_alloc_idx
<1>inv. GenInv /\ BufferInv /\ LayoutInv /\ CodeInv
  BY DEF TestInv
<1>1. /\ icode_idx < Len(ops)
      /\ cur_instr.opc = "LABEL"
      /\ icode_idx' = icode_idx + 1
      /\ UNCHANGED <<ops, ncode_buf, ncode_buf_alloc_idx, link_targets>>
  BY DEF RecordLabel, Generating
<1>2. /\ ops \in Seq(ICodeOperation)
      /\ icode_idx \in Nat /\ Len(ops) \in Nat
      /\ end \in Nat
  BY <1>inv, CountersMean DEF GenInv
<1>3. /\ icode_idx + 1 \in 1 .. Len(ops) /\ icode_idx + 1 - 1 = icode_idx
      /\ ops[icode_idx + 1] = cur_instr
  BY <1>1, <1>2 DEF cur_instr, OperationAt
<1>4. layout' = layout
  BY <1>1, LayoutNeverChanges
<1>5. CodeSize(ops[icode_idx + 1]) = 0
  BY <1>1, <1>3 DEF CodeSize
<1>6. LayoutInv'
  <2>1. layout[icode_idx + 1] = end /\ layout[icode_idx + 1 + 1]
                                         = layout[icode_idx + 1] + 0
    BY <1>inv, <1>2, <1>3, <1>5, LayoutGoesOn DEF LayoutInv
  <2> QED
    BY <1>1, <1>2, <1>4, <2>1 DEF LayoutInv
<1>7. BufferInv'
  BY <1>inv, <1>1 DEF BufferInv, ncode_buf_size
<1>8. ASSUME NEW code, Prefixes(code)'
      PROVE  /\ OfLength(code[icode_idx'], end')
             /\ \A i \in 1 .. end' : code[icode_idx'][i] = Filled(i - 1)'
  <2> DEFINE before == code[icode_idx]
             after  == code[icode_idx']
             none   == CodeOf(cur_instr, JumpTarget(cur_instr))
  <2>1. Prefixes(code)
    BY <1>1, <1>8, PrefixesNeverChange
  <2>2. OfLength(before, end) /\ \A i \in 1 .. end : before[i] = Filled(i - 1)
    BY <1>inv, <2>1 DEF CodeInv
  <2>3. Joined(after, before, none)
    <3>1. \A i \in 1 .. Len(ops) :
            Joined(code[i], code[i - 1], CodeOf(ops[i], JumpTarget(ops[i])))
      BY <2>1 DEF Prefixes, Joined
    <3>2. PICK k \in 1 .. Len(ops) :
            k = icode_idx + 1 /\ k - 1 = icode_idx /\ ops[k] = cur_instr
      BY <1>2, <1>3
    <3>3. Joined(code[k], code[k - 1], CodeOf(ops[k], JumpTarget(ops[k])))
      BY <3>1
    <3> QED
      BY <1>1, <3>2, <3>3
  <2>4. OfLength(none, 0)
    BY <1>2, <1>3, <1>5, ElementType, CodeOfLayout
  <2> HIDE DEF before, after, none
  <2>5. OfLength(after, end + 0) /\ \A i \in 1 .. end : after[i] = before[i]
    BY <1>2, <2>2, <2>3, <2>4, OfLengthConcat
  <2>6. ASSUME NEW i \in 1 .. end
        PROVE  Filled(i - 1)' = Filled(i - 1)
    <3>1. i - 1 \in 0 .. end - 1
      BY <1>2
    <3> QED
      BY <1>inv, <1>1, <3>1, FilledKept
  <2> QED
    BY <1>1, <1>2, <2>2, <2>5, <2>6 DEF after
<1>9. CodeInv'
  BY <1>8 DEF CodeInv
<1> QED
  BY <1>6, <1>7, <1>9

(* The preamble. *)
LEMMA TestInit == NInit => TestInv
<1> SUFFICES ASSUME NInit PROVE TestInv
  OBVIOUS
<1> DEFINE empty == x86_64_preamble(NULL, NULL)
<1>1. GenInit
  BY DEF NInit
<1>2. GenInv
  BY <1>1, GenInitInv
<1>3. /\ icode_idx = 0
      /\ ncode_buf_alloc_idx = 46
      /\ link_targets = <<>>
      /\ gen_status = "generating"
      /\ ncode_buf = Written([i \in 0 .. ncode_buf_size - 1 |-> Uninit], 0, empty, 46)
  BY <1>1, Sizes DEF GenInit
<1>4. ops \in Seq(ICodeOperation) /\ ncode_buf_size \in Nat /\ ncode_buf_size >= 46
  <2>1. ops \in Seq(ICodeOperation) /\ Len(ops) \in Nat
    BY <1>2, CountersMean DEF GenInv
  <2> QED
    BY <2>1, Sizes DEF ncode_buf_size
<1>5. Len(empty) = 46
  <2>1. OfLength(empty, 46)
    BY PreambleLayout
  <2> HIDE DEF empty
  <2> QED
    BY <2>1, OfLengthLen
<1>6. /\ DOMAIN ncode_buf = 0 .. ncode_buf_size - 1
      /\ \A j \in 1 .. 46 : ncode_buf[0 + j - 1] = empty[j]
  <2> DEFINE buf == [i \in 0 .. ncode_buf_size - 1 |-> Uninit]
             n   == ncode_buf_size
  <2>1. DOMAIN buf = 0 .. n - 1
    OBVIOUS
  <2>2. PICK start \in Nat, size \in Nat : start = 0 /\ size = 46 /\ start + size <= n
    BY <1>4
  <2>3. n \in Nat
    BY <1>4
  <2>4. ncode_buf = Written(buf, start, empty, size)
    BY <1>3, <2>2
  <2> HIDE DEF buf, empty, n
  <2>5. start + size <= n /\ Len(empty) = size
    BY <1>5, <2>2
  <2>6. /\ DOMAIN ncode_buf = 0 .. n - 1
        /\ \A j \in 1 .. size : ncode_buf[start + j - 1] = empty[j]
    BY <2>1, <2>3, <2>4, <2>5, WrittenBytes
  <2> QED
    BY <2>2, <2>6 DEF n
<1>7. LayoutInv
  BY <1>3, <1>4, LayoutGoesOn DEF LayoutInv
<1>8. ASSUME NEW code, Prefixes(code)
      PROVE  /\ OfLength(code[0], 46)
             /\ \A i \in 1 .. 46 : code[0][i] = Filled(i - 1)
  <2>1. code[0] = x86_64_preamble(stack_addr, SaveAddress)
    BY <1>8 DEF Prefixes
  <2>2. OfLength(code[0], 46)
    BY <2>1, PreambleLayout
  <2>3. ASSUME NEW i \in 1 .. 46
        PROVE  code[0][i] = Filled(i - 1)
    <3>1. code[0][i] =
            IF i - 17 \in 1 .. 8 THEN t64_to_bytes(stack_addr)[i - 17]
            ELSE IF i - 35 \in 1 .. 8 THEN t64_to_bytes(SaveAddress)[i - 35]
            ELSE empty[i]
      BY <2>1, PreambleFilledIn
    <3>2. LinkTargetsOf(i - 1) = {}
      BY <1>3 DEF LinkTargetsOf
    <3>3. ncode_buf[i - 1] = empty[i]
      <4> HIDE DEF empty
      <4>1. 0 + i - 1 = i - 1
        OBVIOUS
      <4> QED
        BY <1>6, <4>1
    <3>4. PICK k \in Nat, s \in Nat, r \in Nat :
            /\ k = i - 1
            /\ s = x86_64_preamble_stack_addr_offset
            /\ r = x86_64_preamble_save_addr_offset
            /\ k - s \in 0 .. 7 <=> i - 17 \in 1 .. 8
            /\ k - r \in 0 .. 7 <=> i - 35 \in 1 .. 8
            /\ k - s + 1 = i - 17
            /\ k - r + 1 = i - 35
      <4>1. x86_64_preamble_stack_addr_offset = 17 /\ x86_64_preamble_save_addr_offset = 35
        BY DEF x86_64_preamble_stack_addr_offset, x86_64_preamble_save_addr_offset,
               LOADIMM_x86_64_size
      <4> QED
        BY <4>1
    <3> HIDE DEF empty
    <3>5. CASE i - 17 \in 1 .. 8
      <4>0. i - 35 \notin 1 .. 8
        BY <3>5
      <4>1. Filled(k) = t64_to_bytes(stack_addr)[k - s + 1]
        BY <3>2, <3>4, <3>5, <4>0 DEF Filled
      <4> QED
        BY <3>1, <3>4, <3>5, <4>1
    <3>6. CASE i - 35 \in 1 .. 8
      <4>1. i - 17 \notin 1 .. 8
        BY <3>6
      <4>2. Filled(k) = t64_to_bytes(SaveAddress)[k - r + 1]
        BY <3>2, <3>4, <3>6, <4>1 DEF Filled
      <4> QED
        BY <3>1, <3>4, <3>6, <4>1, <4>2
    <3>7. CASE i - 17 \notin 1 .. 8 /\ i - 35 \notin 1 .. 8
      <4>1. Filled(k) = ncode_buf[k]
        BY <3>2, <3>4, <3>7 DEF Filled
      <4> QED
        BY <3>1, <3>3, <3>4, <3>7, <4>1
    <3> QED
      BY <3>5, <3>6, <3>7
  <2> QED
    BY <2>2, <2>3
<1>9. CodeInv
  BY <1>3, <1>8 DEF CodeInv
<1> QED
  BY <1>2, <1>3, <1>6, <1>7, <1>9 DEF TestInv, BufferInv, AllGenerated

LEMMA TestStep == TestInv /\ [NNext]_nvars => TestInv'
<1> SUFFICES ASSUME TestInv, [NNext]_nvars PROVE TestInv'
  OBVIOUS
<1>1. [ncode_gen \/ ncode_link]_gvars /\ UNCHANGED stack_addr /\ UNCHANGED ops
  BY GeneratorGoesOn, OpsNeverChange
<1>2. GenInv'
  BY <1>1, GenStepInv DEF TestInv
<1>3. CASE WriteOperation
  <2>1. gen_status' = gen_status /\ gen_status = "generating"
    BY <1>3 DEF WriteOperation, Generating, Emit
  <2> QED
    BY <1>1, <1>2, <1>3, <2>1, WriteOperationTest DEF TestInv, AllGenerated
<1>4. CASE WriteJump
  <2>1. gen_status' = gen_status /\ gen_status = "generating"
    BY <1>4 DEF WriteJump, Generating, Emit
  <2> QED
    BY <1>1, <1>2, <1>4, <2>1, WriteJumpTest DEF TestInv, AllGenerated
<1>5. CASE RecordLabel
  <2>1. gen_status' = gen_status /\ gen_status = "generating"
    BY <1>5 DEF RecordLabel, Generating
  <2> QED
    BY <1>1, <1>2, <1>5, <2>1, RecordLabelTest DEF TestInv, AllGenerated
<1>6. CASE RejectRegister \/ Return \/ ncode_link \/ UNCHANGED gvars
  <2>1. /\ UNCHANGED <<icode_idx, ncode_buf, ncode_buf_alloc_idx, link_targets>>
        /\ AllGenerated'
    BY <1>6 DEF RejectRegister, Return, ncode_link, gvars, TestInv, AllGenerated
  <2>2. UNCHANGED layout
    BY <1>1, LayoutNeverChanges
  <2>3. BufferInv' /\ LayoutInv'
    BY <1>1, <2>1, <2>2 DEF TestInv, BufferInv, LayoutInv, ncode_buf_size
  <2>4. \A i : Filled(i)' = Filled(i)
    BY <1>1, <2>1, <2>2 DEF Filled, LinkTargetsOf
  <2>5. CodeInv'
    BY <1>1, <2>1, <2>4, PrefixesNeverChange DEF TestInv, CodeInv
  <2> QED
    BY <1>2, <2>1, <2>3, <2>5 DEF TestInv
<1> QED
  BY <1>1, <1>3, <1>4, <1>5, <1>6 DEF ncode_gen

(* For all code, and all addresses: once its link targets are filled in, what
   ncode_gen writes is what the tests put together by hand (ncodegen.h:4-11,
   test_ncode.c), so what holds of the one holds of the other. *)
THEOREM AlwaysGeneratesTheTestedCode == NSpec => []GeneratesTheTestedCode
<1>1. TestInv => GeneratesTheTestedCode
  <2> SUFFICES ASSUME TestInv, gen_status = "generated"
               PROVE  TestArray = [i \in 1 .. ncode_buf_alloc_idx |-> Filled(i - 1)]
    BY DEF GeneratesTheTestedCode
  <2>1. ops \in Seq(ICodeOperation)
    BY CountersMean DEF TestInv, GenInv
  <2>2. PICK code : Prefixes(code) /\ TestArray = code[Len(ops)]
    BY <2>1, TestArrayGrows
  <2>3. icode_idx = Len(ops)
    BY DEF TestInv, AllGenerated
  <2>4. /\ OfLength(TestArray, ncode_buf_alloc_idx)
        /\ \A i \in 1 .. ncode_buf_alloc_idx : TestArray[i] = Filled(i - 1)
    BY <2>2, <2>3 DEF TestInv, CodeInv
  <2>5. TestArray = [i \in 1 .. ncode_buf_alloc_idx |-> TestArray[i]]
    BY <2>4 DEF OfLength
  <2> QED
    BY <2>4, <2>5
<1> QED
  BY <1>1, TestInit, TestStep, PTL DEF NSpec

----------------------------------------------------------------------------
(***************************************************************************)
(* The label map: as many entries as there have been labels, and for each  *)
(* of them, behind those of the labels before it, its place.               *)
(***************************************************************************)
LabelsBefore(i) == Cardinality(LabelsAmong(1 .. i - 1))

LabelInv ==
  /\ Len(label_map) = Cardinality(LabelsAmong(1 .. icode_idx))
  /\ \A i \in LabelsAmong(1 .. icode_idx) :
       /\ LabelsBefore(i) + 1 \in 1 .. Len(label_map)
       /\ label_map[LabelsBefore(i) + 1] = layout[i]

LEMMA LabelsAreFinite ==
  ASSUME NEW n \in Nat
  PROVE  /\ IsFiniteSet(LabelsAmong(1 .. n))
         /\ Cardinality(LabelsAmong(1 .. n)) \in Nat
<1>1. IsFiniteSet(1 .. n)
  BY FS_Interval
<1>2. LabelsAmong(1 .. n) \subseteq 1 .. n
  BY DEF LabelsAmong
<1>3. IsFiniteSet(LabelsAmong(1 .. n))
  BY <1>1, <1>2, FS_Subset
<1> QED
  BY <1>3, FS_CardinalityType

(* One operation more: the same labels, or one more of them. *)
LEMMA OneOperationMore ==
  ASSUME NEW n \in Nat
  PROVE  /\ ops[n + 1].opc # "LABEL" => LabelsAmong(1 .. n + 1) = LabelsAmong(1 .. n)
         /\ ops[n + 1].opc = "LABEL" =>
              /\ LabelsAmong(1 .. n + 1) = LabelsAmong(1 .. n) \cup {n + 1}
              /\ Cardinality(LabelsAmong(1 .. n + 1)) = Cardinality(LabelsAmong(1 .. n)) + 1
<1>1. 1 .. n + 1 = (1 .. n) \cup {n + 1} /\ n + 1 \notin 1 .. n
  OBVIOUS
<1>2. ASSUME ops[n + 1].opc # "LABEL"
      PROVE  LabelsAmong(1 .. n + 1) = LabelsAmong(1 .. n)
  BY <1>1, <1>2 DEF LabelsAmong
<1>3. ASSUME ops[n + 1].opc = "LABEL"
      PROVE  /\ LabelsAmong(1 .. n + 1) = LabelsAmong(1 .. n) \cup {n + 1}
             /\ n + 1 \notin LabelsAmong(1 .. n)
  BY <1>1, <1>3 DEF LabelsAmong
<1>4. ASSUME ops[n + 1].opc = "LABEL"
      PROVE  Cardinality(LabelsAmong(1 .. n + 1)) = Cardinality(LabelsAmong(1 .. n)) + 1
  <2> DEFINE before == LabelsAmong(1 .. n)
             after  == LabelsAmong(1 .. n + 1)
             added  == n + 1
  <2>1. IsFiniteSet(before)
    BY LabelsAreFinite
  <2>2. after = before \cup {added} /\ added \notin before
    BY <1>3, <1>4
  <2> HIDE DEF before, after, added
  <2>3. Cardinality(after) = Cardinality(before) + 1
    BY <2>1, <2>2, FS_AddElement
  <2> QED
    BY <2>3 DEF before, after
<1> QED
  BY <1>2, <1>3, <1>4

LEMMA LabelsNeverChange ==
  UNCHANGED ops => \A S : LabelsAmong(S)' = LabelsAmong(S)
BY DEF LabelsAmong

LEMMA EmitLabels ==
  ASSUME GenInv, LabelInv, Emit, icode_idx < Len(ops), cur_instr.opc # "LABEL",
         label_map' = label_map
  PROVE  LabelInv'
<1>1. icode_idx' = icode_idx + 1 /\ ops' = ops
  BY DEF Emit
<1>2. icode_idx \in Nat
  BY CountersMean DEF GenInv
<1>3. layout' = layout
  BY <1>1, LayoutNeverChanges
<1>4. ops[icode_idx + 1].opc # "LABEL"
  BY DEF cur_instr, OperationAt
<1>5. LabelsAmong(1 .. icode_idx)' = LabelsAmong(1 .. icode_idx)
  <2>1. LabelsAmong(1 .. icode_idx + 1) = LabelsAmong(1 .. icode_idx)
    BY <1>2, <1>4, OneOperationMore
  <2> QED
    BY <1>1, <2>1 DEF LabelsAmong
<1>6. \A i : LabelsBefore(i)' = LabelsBefore(i)
  BY <1>1 DEF LabelsBefore, LabelsAmong
<1> QED
  BY <1>3, <1>5, <1>6 DEF LabelInv

LEMMA RecordLabelLabels ==
  ASSUME GenInv, LayoutInv, LabelInv, RecordLabel
  PROVE  LabelInv'
<1> DEFINE n == Len(label_map)
<1>1. /\ icode_idx' = icode_idx + 1 /\ ops' = ops
      /\ label_map' = Append(label_map, ncode_buf_alloc_idx)
      /\ cur_instr.opc = "LABEL"
  BY DEF RecordLabel, Generating
<1>2. icode_idx \in Nat
  BY CountersMean DEF GenInv
<1>3. layout' = layout
  BY <1>1, LayoutNeverChanges
<1>4. ops[icode_idx + 1].opc = "LABEL"
  BY <1>1 DEF cur_instr, OperationAt
<1>5. /\ n \in Nat
      /\ Len(label_map') = n + 1
      /\ \A k \in 1 .. n : label_map'[k] = label_map[k]
      /\ label_map'[n + 1] = ncode_buf_alloc_idx
  BY <1>1 DEF GenInv, Records
<1>6. n = Cardinality(LabelsAmong(1 .. icode_idx))
  BY DEF LabelInv
<1>7. /\ LabelsAmong(1 .. icode_idx)' = LabelsAmong(1 .. icode_idx) \cup {icode_idx + 1}
      /\ Cardinality(LabelsAmong(1 .. icode_idx)') = n + 1
  <2>1. /\ LabelsAmong(1 .. icode_idx + 1) = LabelsAmong(1 .. icode_idx) \cup {icode_idx + 1}
        /\ Cardinality(LabelsAmong(1 .. icode_idx + 1)) = n + 1
    BY <1>2, <1>4, <1>6, OneOperationMore
  <2>2. LabelsAmong(1 .. icode_idx)' = LabelsAmong(1 .. icode_idx + 1)
    BY <1>1 DEF LabelsAmong
  <2> QED
    BY <2>1, <2>2
<1>8. \A i : LabelsBefore(i)' = LabelsBefore(i)
  BY <1>1 DEF LabelsBefore, LabelsAmong
<1>9. LabelsBefore(icode_idx + 1) = n
  <2> DEFINE b == (icode_idx + 1) - 1
  <2>1. LabelsBefore(icode_idx + 1) = Cardinality(LabelsAmong(1 .. b))
    BY DEF LabelsBefore
  <2>2. b = icode_idx
    BY <1>2
  <2> HIDE DEF b
  <2> QED
    BY <1>6, <2>1, <2>2
<1>10. ASSUME NEW i \in LabelsAmong(1 .. icode_idx)'
       PROVE  /\ LabelsBefore(i)' + 1 \in 1 .. Len(label_map')
              /\ label_map'[LabelsBefore(i)' + 1] = layout'[i]
  <2>1. CASE i \in LabelsAmong(1 .. icode_idx)
    <3>1. LabelsBefore(i) + 1 \in 1 .. n /\ label_map[LabelsBefore(i) + 1] = layout[i]
      BY <2>1 DEF LabelInv
    <3>2. LabelsBefore(i) + 1 \in 1 .. n + 1
      BY <1>5, <3>1
    <3> QED
      BY <1>3, <1>5, <1>8, <3>1, <3>2
  <2>2. CASE i = icode_idx + 1
    <3>1. layout[i] = ncode_buf_alloc_idx
      BY <2>2 DEF LayoutInv
    <3>2. n + 1 \in 1 .. n + 1
      BY <1>5
    <3> HIDE DEF n
    <3> QED
      BY <1>3, <1>5, <1>8, <1>9, <2>2, <3>1, <3>2
  <2> QED
    BY <1>7, <2>1, <2>2
<1> QED
  BY <1>5, <1>7, <1>10 DEF LabelInv

LEMMA LabelInit == NInit => LabelInv
<1> SUFFICES ASSUME NInit PROVE LabelInv
  OBVIOUS
<1>1. icode_idx = 0 /\ label_map = <<>>
  BY DEF NInit, GenInit
<1>2. LabelsAmong(1 .. 0) = {}
  BY DEF LabelsAmong
<1>3. Cardinality({}) = 0
  BY FS_EmptySet
<1> QED
  BY <1>1, <1>2, <1>3 DEF LabelInv

LEMMA LabelStep == TestInv /\ LabelInv /\ [NNext]_nvars => LabelInv'
<1> SUFFICES ASSUME TestInv, LabelInv, [NNext]_nvars PROVE LabelInv'
  OBVIOUS
<1>1. [ncode_gen \/ ncode_link]_gvars /\ UNCHANGED ops
  BY GeneratorGoesOn, OpsNeverChange
<1>2. CASE WriteOperation \/ WriteJump
  <2>1. /\ icode_idx < Len(ops)
        /\ cur_instr.opc \in DOMAIN Size
        /\ Emit
        /\ label_map' = label_map
    BY <1>2 DEF WriteOperation, WriteJump, Generating, Jumps, Size
  <2>2. cur_instr.opc # "LABEL"
    BY <2>1 DEF Size
  <2> QED
    BY <2>1, <2>2, EmitLabels DEF TestInv
<1>3. CASE RecordLabel
  BY <1>3, RecordLabelLabels DEF TestInv
<1>4. CASE RejectRegister \/ Return \/ ncode_link \/ UNCHANGED gvars
  <2>1. UNCHANGED <<icode_idx, label_map>>
    BY <1>4 DEF RejectRegister, Return, ncode_link, gvars
  <2>2. UNCHANGED layout
    BY <1>1, LayoutNeverChanges
  <2> QED
    BY <1>1, <2>1, <2>2 DEF LabelInv, LabelsBefore, LabelsAmong
<1> QED
  BY <1>1, <1>2, <1>3, <1>4 DEF ncode_gen

(* For all code whose labels occur in numerical order from 0, each defined label
   that is jumped to is where the label map, read by label number, says
   (ncodegen.c:106; the generator records no label numbers). *)
THEOREM LabelMapAlwaysFindsLabels == NSpec => []LabelMapFindsLabels
<1>1. TestInv /\ LabelInv => LabelMapFindsLabels
  <2> SUFFICES ASSUME TestInv, LabelInv, gen_status = "generated", LabelsInOrder,
                      NEW label, NEW i \in LabelsAmong(DOMAIN ops), ops[i].arg1 = label
               PROVE  label_map[label + 1] = layout[LabelPosition(ops, label)]
    BY DEF LabelMapFindsLabels
  <2> DEFINE p == LabelPosition(ops, label)
  <2>1. p \in DOMAIN ops /\ ops[p].opc = "LABEL" /\ ops[p].arg1 = label
    BY DEF LabelPosition, LabelsAmong
  <2>2. icode_idx = Len(ops) /\ DOMAIN ops = 1 .. Len(ops)
    BY CountersMean DEF TestInv, AllGenerated, GenInv
  <2> HIDE DEF p
  <2>3. p \in LabelsAmong(DOMAIN ops) /\ p \in LabelsAmong(1 .. icode_idx)
    BY <2>1, <2>2 DEF LabelsAmong
  <2>4. label = LabelsBefore(p)
    BY <2>1, <2>3 DEF LabelsInOrder, LabelsBefore
  <2> QED
    BY <2>3, <2>4 DEF LabelInv, p
<1>2. NInit => TestInv /\ LabelInv
  BY TestInit, LabelInit
<1>3. TestInv /\ LabelInv /\ [NNext]_nvars => (TestInv /\ LabelInv)'
  BY TestStep, LabelStep
<1> QED
  BY <1>1, <1>2, <1>3, PTL DEF NSpec
==============================================================================
