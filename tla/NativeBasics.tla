---------------------------- MODULE NativeBasics ----------------------------
(* Numbers in 4 and 8 bytes, memory as a function from addresses to bytes, and
   where control goes in a vector of operations: what native code and its
   contract have in common. *)
EXTENDS NCode

Word32 == ByteBase^4
Word64 == ByteBase^8

Signed32(v) == LET n == v % Word32 IN IF n < Word32 \div 2 THEN n ELSE n - Word32

FromBytes(bytes) ==
  LET sum[i \in 0 .. Len(bytes)] ==
        IF i = 0 THEN 0 ELSE sum[i - 1] + bytes[i] * ByteBase^(i - 1)
  IN  sum[Len(bytes)]

Accessible(mem, a, size) == a .. a + size - 1 \subseteq DOMAIN mem

Read(mem, a, size) == FromBytes([i \in 1 .. size |-> mem[a + i - 1]])

Overwrite(mem, a, bytes) ==
  [x \in DOMAIN mem |->
     IF x \in a .. a + Len(bytes) - 1 THEN bytes[x - a + 1] ELSE mem[x]]

(* Labels have no code: control is always before an operation that has some, or
   nowhere. *)
Nowhere == 0

Following(ops, i) ==
  LET later == {j \in i + 1 .. Len(ops) : ops[j].opc # "LABEL"}
  IN  IF later = {} THEN Nowhere
      ELSE CHOOSE j \in later : \A k \in later : j <= k

LabelPosition(ops, label) ==
  CHOOSE i \in DOMAIN ops : ops[i].opc = "LABEL" /\ ops[i].arg1 = label

Target(ops, label) == Following(ops, LabelPosition(ops, label))

(* address[i] is where the code of operation i is. *)
OperationAtAddress(ops, address, a) ==
  LET there == {i \in DOMAIN ops : ops[i].opc # "LABEL" /\ address[i] = a}
  IN  IF there = {} THEN Nowhere ELSE CHOOSE i \in there : TRUE
=============================================================================
