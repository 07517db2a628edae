---------------------------- MODULE Vector_proof ----------------------------
(***************************************************************************)
(* Proofs about vectors, for every set of elements, initial size of the    *)
(* array and width of an int.                                              *)
(***************************************************************************)
EXTENDS Vector, SequenceTheorems, TLAPS

(***************************************************************************)
(* The invariant: with the types, that the block is as large as the array  *)
(* and its size an int.  The latter is what makes the next doubling show.  *)
(***************************************************************************)
BlockFits ==
  /\ bytes = PointerSize * arr_size
  /\ bytes \in 1 .. MaxInt

VectorInv == VectorTypeOK /\ BlockFits

----------------------------------------------------------------------------
(* A number below 2^w that is not negative as an int is unchanged. *)
LEMMA ToIntKeeps ==
  ASSUME NEW number \in 0 .. 2 * MaxInt, ToInt(number) >= 0
  PROVE  ToInt(number) = number /\ number <= MaxInt
<1>1. MaxInt \in Nat
  BY VectorAssumption
<1>2. number % (2 * (MaxInt + 1)) = number
  BY <1>1
<1> QED
  BY <1>1, <1>2 DEF ToInt

(* Twice the array is twice the block. *)
LEMMA RequestedIsDouble ==
  ASSUME VectorInv
  PROVE  PointerSize * 2 * arr_size = 2 * bytes /\ PointerSize * (2 * arr_size) = 2 * bytes
<1>1. PointerSize \in Nat /\ arr_size \in Nat
  BY VectorAssumption DEF VectorInv, VectorTypeOK
<1>2. PointerSize * 2 * arr_size = 2 * (PointerSize * arr_size)
  BY <1>1
<1>3. PointerSize * (2 * arr_size) = 2 * (PointerSize * arr_size)
  BY <1>1
<1> QED
  BY <1>2, <1>3 DEF VectorInv, BlockFits

LEMMA GrowthFits ==
  ASSUME VectorInv, Requested >= 0
  PROVE  Requested = PointerSize * (2 * arr_size) /\ Requested \in 1 .. MaxInt
<1>1. 2 * bytes \in 0 .. 2 * MaxInt /\ bytes \in 1 .. MaxInt /\ MaxInt \in Nat
  BY VectorAssumption DEF VectorInv, BlockFits
<1>2. Requested = ToInt(2 * bytes)
  BY RequestedIsDouble DEF Requested
<1>3. Requested = 2 * bytes /\ 2 * bytes <= MaxInt
  BY <1>1, <1>2, ToIntKeeps
<1> QED
  BY <1>1, <1>3, RequestedIsDouble

(* What is appended next is an element, and the rest are elements. *)
LEMMA HeadType ==
  ASSUME VectorTypeOK, Appending \/ call.op \in {"append", "insert", "shift"}
  PROVE  /\ call.elems # <<>>
         /\ Head(call.elems) \in Elem
         /\ Tail(call.elems) \in Seq(Elem)
<1>1. call.elems \in Seq(Elem)
  BY DEF VectorTypeOK
<1>2. ASSUME call.op \in {"append", "insert", "shift"} PROVE call.elems # <<>>
  <2>1. Len(call.elems) = 1
    BY <1>2 DEF VectorTypeOK
  <2>2. SUFFICES ASSUME call.elems = <<>> PROVE FALSE
    OBVIOUS
  <2> QED
    BY <2>1, <2>2
<1>3. Appending => call.op \in {"append", "insert"} \/ call.elems # <<>>
  BY DEF Appending
<1>4. call.elems # <<>>
  BY <1>2, <1>3
<1> QED
  BY <1>1, <1>4, HeadTailProperties

(* The calls of a user. *)
Called(req) ==
  /\ req \in [op : Operation, index : Int, elems : Seq(Elem)]
  /\ req.op \in {"append", "append_all", "insert", "get", "remove"}
  /\ req.op \in {"append", "insert"} => Len(req.elems) = 1
  /\ req.op \in {"get", "remove"} => req.elems = <<>>

LEMMA CallsType ==
  ASSUME Calls
  PROVE  \E req : Called(req) /\ Call(req)
<1> USE DEF Called, Request, Operation
<1>1. CASE \E elem \in Elem : Call(Request("append", -1, <<elem>>))
  <2>1. PICK elem \in Elem : Call(Request("append", -1, <<elem>>))
    BY <1>1
  <2>2. Called(Request("append", -1, <<elem>>))
    OBVIOUS
  <2> QED
    BY <2>1, <2>2
<1>2. CASE \E elems \in Batches : Call(Request("append_all", -1, elems))
  <2>1. PICK elems \in Batches : Call(Request("append_all", -1, elems))
    BY <1>2
  <2>2. Called(Request("append_all", -1, elems))
    BY BatchesAssumption
  <2> QED
    BY <2>1, <2>2
<1>3. CASE \E index \in Indices, elem \in Elem : Call(Request("insert", index, <<elem>>))
  <2>1. PICK index \in Indices, elem \in Elem : Call(Request("insert", index, <<elem>>))
    BY <1>3
  <2>2. Called(Request("insert", index, <<elem>>))
    BY IndicesAssumption
  <2> QED
    BY <2>1, <2>2
<1>4. ASSUME NEW op \in {"get", "remove"}, \E index \in Indices : Call(Request(op, index, <<>>))
      PROVE  \E req : Called(req) /\ Call(req)
  <2>1. PICK index \in Indices : Call(Request(op, index, <<>>))
    BY <1>4
  <2>2. Called(Request(op, index, <<>>))
    BY EmptySeq, IndicesAssumption
  <2> QED
    BY <2>1, <2>2
<1> QED
  BY <1>1, <1>2, <1>3, <1>4 DEF Calls

LEMMA NoCallType ==
  NoCall.op = "none" /\ NoCall \in [op : Operation, index : Int, elems : Seq(Elem)]
BY DEF NoCall, NoRequest, Request, Operation

LEMMA ReturnType ==
  ASSUME VectorTypeOK, Appending, Append_return
  PROVE  /\ call' \in [op : Operation, index : Int, elems : Seq(Elem)]
         /\ call'.op \in {"none", "append_all"}
<1>1. Tail(call.elems) \in Seq(Elem)
  BY HeadType
<1> QED
  BY <1>1, NoCallType DEF VectorTypeOK, Append_return, Request, Operation

----------------------------------------------------------------------------
LEMMA InitInv == VectorInit => VectorInv
<1> SUFFICES ASSUME VectorInit PROVE VectorInv
  OBVIOUS
<1>1. PointerSize * VECTOR_INITIAL_ARR_SIZE \in 1 .. MaxInt
  <2>1. PointerSize * VECTOR_INITIAL_ARR_SIZE >= 1
    BY VectorAssumption
  <2> QED
    BY <2>1, VectorAssumption
<1>2. BlockFits
  BY <1>1 DEF VectorInit, BlockFits
<1>3. VectorTypeOK
  BY VectorAssumption, NoCallType
     DEF VectorInit, VectorTypeOK, Cell, NoCall, NoRequest, Request
<1> QED
  BY <1>2, <1>3 DEF VectorInv

LEMMA NextInv == VectorInv /\ [VectorNext]_allVars => VectorInv'
<1> SUFFICES ASSUME VectorInv, [VectorNext]_allVars PROVE VectorInv'
  OBVIOUS
<1> USE DEF VectorInv
<1>1. CASE AppendInPlace
  <2>1. Head(call.elems) \in Elem
    BY <1>1, HeadType DEF AppendInPlace
  <2>2. /\ call' \in [op : Operation, index : Int, elems : Seq(Elem)]
        /\ call'.op \in {"none", "append_all"}
    BY <1>1, ReturnType DEF AppendInPlace
  <2>3. size' \in 0 .. arr_size' /\ arr' \in [0 .. arr_size' - 1 -> Cell]
    BY <1>1, <2>1 DEF AppendInPlace, VectorTypeOK, Cell
  <2>4. \A i \in 0 .. size' - 1 : arr'[i] \in Elem
    BY <1>1, <2>1 DEF AppendInPlace, VectorTypeOK
  <2> QED
    BY <1>1, <2>2, <2>3, <2>4 DEF AppendInPlace, VectorTypeOK, BlockFits
<1>2. CASE AppendGrows
  <2>1. Head(call.elems) \in Elem
    BY <1>2, HeadType DEF AppendGrows
  <2>2. /\ call' \in [op : Operation, index : Int, elems : Seq(Elem)]
        /\ call'.op \in {"none", "append_all"}
    BY <1>2, ReturnType DEF AppendGrows
  <2>3. size = arr_size /\ size' = size + 1 /\ arr_size' = 2 * arr_size
        /\ arr_size \in Nat \ {0} /\ size \in Nat
    BY <1>2 DEF AppendGrows, VectorTypeOK
  <2>4. size' \in 0 .. arr_size' /\ arr_size' \in Nat \ {0}
    BY <2>3
  <2>5. arr' = [i \in 0 .. arr_size' - 1 |->
                 IF i = size THEN Head(call.elems)
                 ELSE IF i < arr_size THEN arr[i] ELSE Uninit]
    BY <1>2 DEF AppendGrows
  <2>6. arr' \in [0 .. arr_size' - 1 -> Cell]
    BY <2>1, <2>3, <2>5 DEF VectorTypeOK, Cell
  <2>7. \A i \in 0 .. size' - 1 : arr'[i] \in Elem
    BY <2>1, <2>3, <2>4, <2>5 DEF VectorTypeOK
  <2>8. BlockFits'
    BY <1>2, GrowthFits DEF AppendGrows, BlockFits
  <2> QED
    BY <1>2, <2>2, <2>4, <2>6, <2>7, <2>8 DEF AppendGrows, VectorTypeOK
<1>3. CASE InsertInMiddle
  <2>1. Head(call.elems) \in Elem
    BY <1>3, HeadType DEF InsertInMiddle, Executing
  <2>2. call.index \in 0 .. size - 1 /\ arr[call.index] \in Elem
    BY <1>3 DEF InsertInMiddle, VectorTypeOK
  <2>3. /\ call' \in [op : Operation, index : Int, elems : Seq(Elem)]
        /\ Len(call'.elems) = 1
    BY <1>3, <2>2 DEF InsertInMiddle, Request, Operation, VectorTypeOK
  <2> QED
    BY <1>3, <2>1, <2>2, <2>3 DEF InsertInMiddle, VectorTypeOK, BlockFits, Cell
<1>4. CASE Remove
  <2>1. arr[call.index] \in Elem
    BY <1>4 DEF Remove, Executing, InBounds, VectorTypeOK
  <2>2. /\ call' \in [op : Operation, index : Int, elems : Seq(Elem)]
        /\ Len(call'.elems) = 1
    BY <1>4, <2>1 DEF Remove, Request, Operation, VectorTypeOK
  <2> QED
    BY <1>4, <2>2 DEF Remove, VectorTypeOK, BlockFits
<1>5. CASE ShiftDown
  BY <1>5 DEF ShiftDown, Executing, VectorTypeOK, BlockFits, Operation, Request, Cell
<1>6. CASE ShiftLast
  <2>1. call.index \in 0 .. size - 1 /\ size' = call.index
    BY <1>6 DEF ShiftLast, Executing, InBounds, VectorTypeOK
  <2>2. /\ arr' \in [0 .. arr_size' - 1 -> Cell]
        /\ \A i \in 0 .. size' - 1 : arr'[i] \in Elem
    BY <1>6, <2>1 DEF ShiftLast, VectorTypeOK, Cell
  <2> QED
    BY <1>6, <2>1, <2>2, NoCallType DEF ShiftLast, VectorTypeOK, BlockFits
<1>7. CASE Get \/ AppendAllReturns
  BY <1>7, NoCallType DEF Get, AppendAllReturns, VectorTypeOK, BlockFits
<1>8. CASE IndexError \/ GrowFails
  BY <1>8 DEF IndexError, GrowFails, vectorVars, VectorTypeOK, BlockFits
<1>9. CASE Calls
  <2>1. PICK req : Called(req) /\ Call(req)
    BY <1>9, CallsType
  <2> QED
    BY <2>1 DEF Called, Call, VectorTypeOK, BlockFits
<1>10. CASE UNCHANGED allVars
  BY <1>10 DEF allVars, vectorVars, VectorTypeOK, BlockFits
<1> QED
  BY <1>1, <1>2, <1>3, <1>4, <1>5, <1>6, <1>7, <1>8, <1>9, <1>10 DEF VectorNext, VectorStep

(* A vector's fields keep their types, and what is below size are elements that
   were stored, never NULL or memory that nobody wrote (all of
   DEFINE_VECTORABLE). *)
THEOREM VectorTypeCorrect == VectorSpec => []VectorTypeOK
<1>1. VectorInv => VectorTypeOK
  BY DEF VectorInv
<1> QED
  BY <1>1, InitInv, NextInv, PTL DEF VectorSpec

(* However often an array doubles, it is inside its block: the int that carries
   the number of bytes is negative before it is too small (Vector_append,
   chrealloc). *)
THEOREM AlwaysInsideItsBlock == VectorSpec => []InsideItsBlock
<1>1. VectorInv => InsideItsBlock
  BY VectorAssumption DEF VectorInv, VectorTypeOK, BlockFits, InsideItsBlock
<1> QED
  BY <1>1, InitInv, NextInv, PTL DEF VectorSpec

----------------------------------------------------------------------------
(* The refinement.  First what the mapping says in each case. *)
LEMMA MappingCases ==
  ASSUME InBounds
  PROVE  /\ StatusOf = status
         /\ call.op \in {"append", "append_all"} => ListOf = Elements \o call.elems
         /\ call.op = "insert" => ListOf = Inserted(Elements, call.index, Head(call.elems))
         /\ call.op \in {"remove", "shift"} => ListOf = Removed(Elements, call.index)
         /\ call.op \in {"none", "get"} => ListOf = Elements
         /\ call.op \in {"get", "remove"} => ReplyOf = <<arr[call.index]>>
         /\ call.op = "shift" => ReplyOf = call.elems
         /\ call.op \in {"none", "append", "append_all", "insert"} => ReplyOf = reply
BY DEF StatusOf, ListOf, ReplyOf

LEMMA MappingCasesNext ==
  ASSUME InBounds'
  PROVE  /\ StatusOf' = status'
         /\ call'.op \in {"append", "append_all"} => ListOf' = Elements' \o call'.elems
         /\ call'.op = "insert" => ListOf' = Inserted(Elements', call'.index, Head(call'.elems))
         /\ call'.op \in {"remove", "shift"} => ListOf' = Removed(Elements', call'.index)
         /\ call'.op \in {"none", "get"} => ListOf' = Elements'
         /\ call'.op \in {"get", "remove"} => ReplyOf' = <<arr'[call'.index]>>
         /\ call'.op = "shift" => ReplyOf' = call'.elems
         /\ call'.op \in {"none", "append", "append_all", "insert"} => ReplyOf' = reply'
BY DEF StatusOf, ListOf, ReplyOf

LEMMA MappingOutOfBounds ==
  ASSUME ~InBounds
  PROVE  ListOf = Elements /\ StatusOf = "error"
BY DEF StatusOf, ListOf, InBounds

(* The elements of a prefix. *)
LEMMA PrefixType ==
  ASSUME NEW n \in Nat, NEW cells, \A i \in 0 .. n - 1 : cells[i] \in Elem
  PROVE  /\ Prefix(cells, n) \in Seq(Elem)
         /\ Len(Prefix(cells, n)) = n
         /\ \A i \in 1 .. n : Prefix(cells, n)[i] = cells[i - 1]
<1>1. Prefix(cells, n) \in [1 .. n -> Elem]
  BY DEF Prefix
<1> QED
  BY <1>1 DEF Prefix

(* A concatenation, element by element. *)
LEMMA ConcatIs ==
  ASSUME NEW s \in Seq(Elem), NEW t \in Seq(Elem), NEW u \in Seq(Elem),
         Len(u) = Len(s) + Len(t),
         \A i \in 1 .. Len(s) : u[i] = s[i],
         \A i \in 1 .. Len(t) : u[Len(s) + i] = t[i]
  PROVE  u = s \o t
<1>1. Len(s) \in Nat /\ Len(t) \in Nat
  OBVIOUS
<1>2. /\ s \o t \in Seq(Elem)
      /\ Len(s \o t) = Len(s) + Len(t)
      /\ \A i \in 1 .. Len(s) + Len(t) :
           (s \o t)[i] = IF i <= Len(s) THEN s[i] ELSE t[i - Len(s)]
  BY ConcatProperties
<1>3. ASSUME NEW i \in 1 .. Len(u) PROVE u[i] = (s \o t)[i]
  <2>1. CASE i <= Len(s)
    BY <1>1, <1>2, <2>1
  <2>2. CASE i > Len(s)
    <3>1. i - Len(s) \in 1 .. Len(t) /\ Len(s) + (i - Len(s)) = i
      BY <1>1, <2>2
    <3>2. u[i] = t[i - Len(s)]
      BY <3>1
    <3> QED
      BY <1>1, <1>2, <2>2, <3>2
  <2> QED
    BY <1>1, <2>1, <2>2
<1> QED
  BY <1>2, <1>3, SeqEqual

LEMMA NothingAppended ==
  ASSUME NEW s \in Seq(Elem)
  PROVE  s \o <<>> = s
BY ConcatEmptySeq

LEMMA Regroup ==
  ASSUME NEW s \in Seq(Elem), NEW t \in Seq(Elem), NEW u \in Seq(Elem)
  PROVE  (s \o t) \o u = s \o (t \o u)
BY ConcatAssociative

(* One cell more is one element more, at the end. *)
LEMMA PrefixGrows ==
  ASSUME NEW n \in Nat, NEW cells, NEW others,
         \A i \in 0 .. n - 1 : cells[i] \in Elem,
         \A i \in 0 .. n - 1 : others[i] = cells[i],
         others[n] \in Elem
  PROVE  Prefix(others, n + 1) = Prefix(cells, n) \o <<others[n]>>
<1>1. /\ Prefix(cells, n) \in Seq(Elem)
      /\ Len(Prefix(cells, n)) = n
      /\ \A i \in 1 .. n : Prefix(cells, n)[i] = cells[i - 1]
  BY PrefixType
<1>2. n + 1 \in Nat /\ \A i \in 0 .. (n + 1) - 1 : others[i] \in Elem
  OBVIOUS
<1>3. /\ Prefix(others, n + 1) \in Seq(Elem)
      /\ Len(Prefix(others, n + 1)) = n + 1
      /\ \A i \in 1 .. n + 1 : Prefix(others, n + 1)[i] = others[i - 1]
  BY <1>2, PrefixType
<1>4. <<others[n]>> \in Seq(Elem) /\ Len(<<others[n]>>) = 1 /\ <<others[n]>>[1] = others[n]
  OBVIOUS
<1>5. \A i \in 1 .. n : Prefix(others, n + 1)[i] = Prefix(cells, n)[i]
  BY <1>1, <1>3
<1>6. \A i \in 1 .. 1 : Prefix(others, n + 1)[n + i] = <<others[n]>>[i]
  BY <1>3, <1>4
<1> QED
  BY <1>1, <1>3, <1>4, <1>5, <1>6, ConcatIs

(* A sequence is its head and its tail. *)
LEMMA HeadThenTail ==
  ASSUME NEW seq \in Seq(Elem), seq # <<>>
  PROVE  seq = <<Head(seq)>> \o Tail(seq)
<1>1. /\ Head(seq) \in Elem
      /\ Tail(seq) \in Seq(Elem)
      /\ Len(Tail(seq)) = Len(seq) - 1
      /\ \A i \in 1 .. Len(Tail(seq)) : Tail(seq)[i] = seq[i + 1]
  BY HeadTailProperties
<1>2. Len(seq) \in Nat \ {0}
  BY EmptySeq
<1>3. <<Head(seq)>> \in Seq(Elem) /\ Len(<<Head(seq)>>) = 1 /\ <<Head(seq)>>[1] = seq[1]
  BY <1>1, <1>2
<1>4. \A i \in 1 .. 1 : seq[i] = <<Head(seq)>>[i]
  BY <1>3
<1>5. \A i \in 1 .. Len(Tail(seq)) : seq[1 + i] = Tail(seq)[i]
  BY <1>1
<1> QED
  BY <1>1, <1>2, <1>3, <1>4, <1>5, ConcatIs

(* What an insertion at the end of the elements, and each step of the two
   recursions, leave of the list. *)
LEMMA InsertedAtEnd ==
  ASSUME NEW seq \in Seq(Elem), NEW elem \in Elem
  PROVE  Inserted(seq, Len(seq), elem) = seq \o <<elem>>
<1>1. Len(seq) \in Nat
  OBVIOUS
<1>2. Inserted(seq, Len(seq), elem) =
        [i \in 1 .. Len(seq) + 1 |-> IF i <= Len(seq) THEN seq[i] ELSE elem]
  BY <1>1 DEF Inserted
<1>3. Inserted(seq, Len(seq), elem) \in [1 .. Len(seq) + 1 -> Elem]
  BY <1>1, <1>2
<1>4. /\ Inserted(seq, Len(seq), elem) \in Seq(Elem)
      /\ Len(Inserted(seq, Len(seq), elem)) = Len(seq) + 1
  BY <1>1, <1>3
<1>5. <<elem>> \in Seq(Elem) /\ Len(<<elem>>) = 1 /\ <<elem>>[1] = elem
  OBVIOUS
<1>6. \A i \in 1 .. Len(seq) : Inserted(seq, Len(seq), elem)[i] = seq[i]
  BY <1>1, <1>2
<1>7. \A i \in 1 .. 1 : Inserted(seq, Len(seq), elem)[Len(seq) + i] = <<elem>>[i]
  BY <1>1, <1>2, <1>5
<1> QED
  BY <1>1, <1>4, <1>5, <1>6, <1>7, ConcatIs

LEMMA InsertedAbove ==
  ASSUME NEW n \in Nat, NEW cells, NEW others, NEW elem, NEW index \in 0 .. n - 1,
         \A i \in 0 .. n - 1 : cells[i] \in Elem,
         elem \in Elem,
         others[index] = elem,
         \A i \in 0 .. n - 1 : i # index => others[i] = cells[i]
  PROVE  Inserted(Prefix(others, n), index + 1, cells[index])
           = Inserted(Prefix(cells, n), index, elem)
<1>1. \A i \in 0 .. n - 1 : others[i] \in Elem
  OBVIOUS
<1>2. /\ Len(Prefix(cells, n)) = n
      /\ \A i \in 1 .. n : Prefix(cells, n)[i] = cells[i - 1]
  BY PrefixType
<1>3. /\ Len(Prefix(others, n)) = n
      /\ \A i \in 1 .. n : Prefix(others, n)[i] = others[i - 1]
  BY <1>1, PrefixType
<1>4. \A i \in 1 .. n + 1 :
        (IF i <= index + 1 THEN Prefix(others, n)[i]
         ELSE IF i = (index + 1) + 1 THEN cells[index] ELSE Prefix(others, n)[i - 1])
        = (IF i <= index THEN Prefix(cells, n)[i]
           ELSE IF i = index + 1 THEN elem ELSE Prefix(cells, n)[i - 1])
  BY <1>2, <1>3
<1> QED
  BY <1>2, <1>3, <1>4 DEF Inserted

LEMMA RemovedBelow ==
  ASSUME NEW n \in Nat, NEW cells, NEW others, NEW index \in 0 .. n - 2,
         \A i \in 0 .. n - 1 : cells[i] \in Elem,
         others[index] = cells[index + 1],
         \A i \in 0 .. n - 1 : i # index => others[i] = cells[i]
  PROVE  Removed(Prefix(others, n), index + 1) = Removed(Prefix(cells, n), index)
<1>1. \A i \in 0 .. n - 1 : others[i] \in Elem
  OBVIOUS
<1>2. /\ Len(Prefix(cells, n)) = n
      /\ \A i \in 1 .. n : Prefix(cells, n)[i] = cells[i - 1]
  BY PrefixType
<1>3. /\ Len(Prefix(others, n)) = n
      /\ \A i \in 1 .. n : Prefix(others, n)[i] = others[i - 1]
  BY <1>1, PrefixType
<1>4. \A i \in 1 .. n - 1 :
        (IF i <= index + 1 THEN Prefix(others, n)[i] ELSE Prefix(others, n)[i + 1])
        = (IF i <= index THEN Prefix(cells, n)[i] ELSE Prefix(cells, n)[i + 1])
  <2> SUFFICES ASSUME NEW i \in 1 .. n - 1
               PROVE  (IF i <= index + 1 THEN others[i - 1] ELSE others[i])
                      = (IF i <= index THEN cells[i - 1] ELSE cells[i])
    <3>1. \A i \in 1 .. n - 1 : i \in 1 .. n /\ i + 1 \in 1 .. n /\ (i + 1) - 1 = i
      OBVIOUS
    <3>2. \A i \in 1 .. n - 1 :
            /\ Prefix(others, n)[i] = others[i - 1] /\ Prefix(others, n)[i + 1] = others[i]
            /\ Prefix(cells, n)[i] = cells[i - 1] /\ Prefix(cells, n)[i + 1] = cells[i]
      BY <1>2, <1>3, <3>1
    <3> QED
      BY <3>2
  <2>1. i \in 0 .. n - 1 /\ i - 1 \in 0 .. n - 1
    OBVIOUS
  <2>2. CASE i <= index
    BY <2>1, <2>2
  <2>3. CASE i = index + 1
    BY <2>3
  <2>4. CASE i > index + 1
    BY <2>1, <2>4
  <2> QED
    BY <2>2, <2>3, <2>4
<1> QED
  BY <1>2, <1>3, <1>4 DEF Removed

LEMMA RemovedLast ==
  ASSUME NEW n \in Nat \ {0}, NEW cells, NEW others,
         \A i \in 0 .. n - 1 : cells[i] \in Elem,
         \A i \in 0 .. n - 2 : others[i] = cells[i]
  PROVE  Removed(Prefix(cells, n), n - 1) = Prefix(others, n - 1)
<1>1. /\ Len(Prefix(cells, n)) = n
      /\ \A i \in 1 .. n : Prefix(cells, n)[i] = cells[i - 1]
  BY PrefixType
<1>2. \A i \in 1 .. n - 1 :
        (IF i <= n - 1 THEN Prefix(cells, n)[i] ELSE Prefix(cells, n)[i + 1]) = others[i - 1]
  BY <1>1
<1> QED
  BY <1>1, <1>2 DEF Removed, Prefix

----------------------------------------------------------------------------
(* The steps.  Most of them leave the list as it is. *)
Stutter == ListOf' = ListOf /\ ReplyOf' = ReplyOf /\ StatusOf' = StatusOf /\ request' = request

LEMMA ElementsType ==
  ASSUME VectorTypeOK
  PROVE  /\ Elements \in Seq(Elem)
         /\ Len(Elements) = size
         /\ \A i \in 1 .. size : Elements[i] = arr[i - 1]
BY PrefixType DEF VectorTypeOK, Elements

(* An append, for whomever it is called: what was to come is there. *)
LEMMA AppendStutters ==
  ASSUME VectorTypeOK, Appending, Append_return,
         \A i \in 0 .. size - 1 : arr'[i] = arr[i],
         arr'[size] = Head(call.elems),
         size' = size + 1,
         UNCHANGED <<request, reply, status>>
  PROVE  Stutter
<1>1. /\ call.elems # <<>>
      /\ Head(call.elems) \in Elem
      /\ Tail(call.elems) \in Seq(Elem)
      /\ call.elems \in Seq(Elem)
      /\ size \in Nat
  BY HeadType DEF VectorTypeOK
<1>2. Elements' = Elements \o <<Head(call.elems)>>
  <2>1. \A i \in 0 .. size - 1 : arr[i] \in Elem
    BY DEF VectorTypeOK
  <2> QED
    BY <1>1, <2>1, PrefixGrows DEF Elements
<1>3. InBounds
  BY <1>1 DEF InBounds, Appending
<1>4. InBounds'
  BY NoCallType DEF InBounds, Append_return, Request
<1>5. CASE call.op = "append"
  <2>1. call.elems = <<Head(call.elems)>>
    BY <1>1, <1>5 DEF VectorTypeOK
  <2>2. ListOf = Elements \o call.elems /\ ReplyOf = reply /\ StatusOf = status
    BY <1>3, <1>5, MappingCases
  <2>3. call'.op = "none"
    BY <1>5, NoCallType DEF Append_return
  <2>4. ListOf' = Elements' /\ ReplyOf' = reply' /\ StatusOf' = status'
    BY <1>4, <2>3, MappingCasesNext
  <2> QED
    BY <1>2, <2>1, <2>2, <2>4 DEF Stutter
<1>6. CASE call.op = "append_all"
  <2>1. call.elems = <<Head(call.elems)>> \o Tail(call.elems)
    BY <1>1, HeadThenTail
  <2>2. ListOf = Elements \o call.elems /\ ReplyOf = reply /\ StatusOf = status
    BY <1>3, <1>6, MappingCases
  <2>3. call'.op = "append_all" /\ call'.elems = Tail(call.elems)
    BY <1>6 DEF Append_return, Request
  <2>4. /\ ListOf' = Elements' \o Tail(call.elems)
        /\ ReplyOf' = reply' /\ StatusOf' = status'
    BY <1>4, <2>3, MappingCasesNext
  <2>5. (Elements \o <<Head(call.elems)>>) \o Tail(call.elems)
          = Elements \o (<<Head(call.elems)>> \o Tail(call.elems))
    <3>1. Elements \in Seq(Elem)
      BY ElementsType
    <3>2. <<Head(call.elems)>> \in Seq(Elem)
      BY <1>1
    <3>3. Tail(call.elems) \in Seq(Elem)
      BY <1>1
    <3> QED
      BY <3>1, <3>2, <3>3, Regroup
  <2> QED
    BY <1>2, <2>1, <2>2, <2>4, <2>5 DEF Stutter
<1>7. CASE call.op = "insert" /\ call.index = size
  <2>1. /\ ListOf = Inserted(Elements, size, Head(call.elems))
        /\ ReplyOf = reply /\ StatusOf = status
    BY <1>3, <1>7, MappingCases
  <2>2. Inserted(Elements, size, Head(call.elems)) = Elements \o <<Head(call.elems)>>
    BY <1>1, ElementsType, InsertedAtEnd
  <2>3. call'.op = "none"
    BY <1>7, NoCallType DEF Append_return
  <2>4. ListOf' = Elements' /\ ReplyOf' = reply' /\ StatusOf' = status'
    BY <1>4, <2>3, MappingCasesNext
  <2> QED
    BY <1>2, <2>1, <2>2, <2>4 DEF Stutter
<1> QED
  BY <1>5, <1>6, <1>7 DEF Appending

LEMMA InitRefines == VectorInit => Promise!ListInit
<1> SUFFICES ASSUME VectorInit PROVE Promise!ListInit
  OBVIOUS
<1>1. call.op = "none" /\ InBounds
  BY NoCallType DEF VectorInit, InBounds
<1>2. ListOf = Elements /\ ReplyOf = reply /\ StatusOf = status
  BY <1>1, MappingCases
<1>3. Elements = <<>>
  BY DEF VectorInit, Elements, Prefix
<1> QED
  BY <1>2, <1>3
     DEF VectorInit, Promise!ListInit, Promise!NoRequest, Promise!NoReply,
         Promise!Request, NoRequest, NoReply, Request

(* A call, seen from outside, is already done. *)
LEMMA CallRefines ==
  ASSUME VectorTypeOK, Calls
  PROVE  Promise!ListNext
<1>1. /\ status = "ok" /\ call = NoCall
      /\ UNCHANGED <<arr, size, arr_size, bytes, reply, status>>
      /\ call' = request'
  BY DEF Calls, Call
<1>2. ListOf = Elements /\ ReplyOf = reply /\ StatusOf = "ok"
  <2>1. call.op = "none" /\ InBounds
    BY <1>1, NoCallType DEF InBounds
  <2> QED
    BY <1>1, <2>1, MappingCases
<1>3. Elements' = Elements
  BY <1>1 DEF Elements
<1>4. Elements \in Seq(Elem) /\ Len(Elements) = size /\ size \in Nat
      /\ \A i \in 1 .. size : Elements[i] = arr[i - 1]
  BY ElementsType DEF VectorTypeOK
<1> USE DEF Promise!Called, Promise!Request, Request, Promise!Inserted, Inserted,
            Promise!Removed, Removed
<1>5. ASSUME NEW elem \in Elem, Call(Request("append", -1, <<elem>>))
      PROVE  Promise!AppendElem(elem)
  <2>1. request' = Request("append", -1, <<elem>>)
    BY <1>5 DEF Call
  <2>2. call'.op = "append" /\ call'.elems = <<elem>> /\ InBounds'
    BY <1>1, <2>1 DEF InBounds
  <2>3. ListOf' = Elements' \o <<elem>> /\ ReplyOf' = reply' /\ StatusOf' = status'
    BY <2>2, MappingCasesNext
  <2> QED
    BY <1>1, <1>2, <1>3, <2>1, <2>3 DEF Promise!AppendElem
<1>6. ASSUME NEW elems \in Batches, Call(Request("append_all", -1, elems))
      PROVE  Promise!AppendElems(elems)
  <2>1. request' = Request("append_all", -1, elems)
    BY <1>6 DEF Call
  <2>2. call'.op = "append_all" /\ call'.elems = elems /\ InBounds'
    BY <1>1, <2>1 DEF InBounds
  <2>3. ListOf' = Elements' \o elems /\ ReplyOf' = reply' /\ StatusOf' = status'
    BY <2>2, MappingCasesNext
  <2> QED
    BY <1>1, <1>2, <1>3, <2>1, <2>3 DEF Promise!AppendElems
<1>7. ASSUME NEW index \in Indices, NEW elem \in Elem,
             Call(Request("insert", index, <<elem>>))
      PROVE  Promise!InsertElem(index, elem) \/ Promise!OutOfBounds("insert", index, <<elem>>)
  <2>1. request' = Request("insert", index, <<elem>>)
    BY <1>7 DEF Call
  <2>2. call'.op = "insert" /\ call'.index = index /\ Head(call'.elems) = elem
    BY <1>1, <2>1
  <2>3. CASE InBounds'
    <3>1. ListOf' = Inserted(Elements', index, elem) /\ ReplyOf' = reply' /\ StatusOf' = status'
      BY <2>2, <2>3, MappingCasesNext
    <3>2. index \in 0 .. Len(ListOf)
      BY <1>1, <1>2, <1>4, <2>2, <2>3 DEF InBounds
    <3> QED
      BY <1>1, <1>2, <1>3, <2>1, <3>1, <3>2 DEF Promise!InsertElem
  <2>4. CASE ~InBounds'
    <3>1. ListOf' = Elements' /\ StatusOf' = "error" /\ ReplyOf' = reply'
      BY <2>2, <2>4 DEF ListOf, StatusOf, ReplyOf
    <3>2. index \notin 0 .. Len(ListOf)
      BY <1>1, <1>2, <1>4, <2>2, <2>4 DEF InBounds
    <3> QED
      BY <1>1, <1>2, <1>3, <2>1, <3>1, <3>2 DEF Promise!OutOfBounds
  <2> QED
    BY <2>3, <2>4
<1>8. ASSUME NEW index \in Indices, Call(Request("get", index, <<>>))
      PROVE  Promise!GetElem(index) \/ Promise!OutOfBounds("get", index, <<>>)
  <2>1. request' = Request("get", index, <<>>)
    BY <1>8 DEF Call
  <2>2. call'.op = "get" /\ call'.index = index
    BY <1>1, <2>1
  <2>3. CASE InBounds'
    <3>1. ListOf' = Elements' /\ ReplyOf' = <<arr'[index]>> /\ StatusOf' = status'
      BY <2>2, <2>3, MappingCasesNext
    <3>2. index \in 0 .. Len(ListOf) - 1
      BY <1>1, <1>2, <1>4, <2>2, <2>3 DEF InBounds
    <3>3. arr'[index] = ListOf[index + 1]
      BY <1>1, <1>2, <1>4, <3>2
    <3> QED
      BY <1>1, <1>2, <1>3, <2>1, <3>1, <3>2, <3>3 DEF Promise!GetElem
  <2>4. CASE ~InBounds'
    <3>1. ListOf' = Elements' /\ StatusOf' = "error" /\ ReplyOf' = reply'
      BY <2>2, <2>4 DEF ListOf, StatusOf, ReplyOf
    <3>2. index \notin 0 .. Len(ListOf) - 1
      BY <1>1, <1>2, <1>4, <2>2, <2>4 DEF InBounds
    <3> QED
      BY <1>1, <1>2, <1>3, <2>1, <3>1, <3>2 DEF Promise!OutOfBounds
  <2> QED
    BY <2>3, <2>4
<1>9. ASSUME NEW index \in Indices, Call(Request("remove", index, <<>>))
      PROVE  Promise!RemoveElem(index) \/ Promise!OutOfBounds("remove", index, <<>>)
  <2>1. request' = Request("remove", index, <<>>)
    BY <1>9 DEF Call
  <2>2. call'.op = "remove" /\ call'.index = index
    BY <1>1, <2>1
  <2>3. CASE InBounds'
    <3>1. /\ ListOf' = Removed(Elements', index)
          /\ ReplyOf' = <<arr'[index]>> /\ StatusOf' = status'
      BY <2>2, <2>3, MappingCasesNext
    <3>2. index \in 0 .. Len(ListOf) - 1
      BY <1>1, <1>2, <1>4, <2>2, <2>3 DEF InBounds
    <3>3. arr'[index] = ListOf[index + 1]
      BY <1>1, <1>2, <1>4, <3>2
    <3> QED
      BY <1>1, <1>2, <1>3, <2>1, <3>1, <3>2, <3>3 DEF Promise!RemoveElem
  <2>4. CASE ~InBounds'
    <3>1. ListOf' = Elements' /\ StatusOf' = "error" /\ ReplyOf' = reply'
      BY <2>2, <2>4 DEF ListOf, StatusOf, ReplyOf
    <3>2. index \notin 0 .. Len(ListOf) - 1
      BY <1>1, <1>2, <1>4, <2>2, <2>4 DEF InBounds
    <3> QED
      BY <1>1, <1>2, <1>3, <2>1, <3>1, <3>2 DEF Promise!OutOfBounds
  <2> QED
    BY <2>3, <2>4
<1> QED
  BY <1>5, <1>6, <1>7, <1>8, <1>9 DEF Calls, Promise!ListNext

LEMMA NextRefines ==
  ASSUME VectorInv, [VectorNext]_allVars
  PROVE  [Promise!ListNext]_(Promise!listVars)
<1> USE DEF VectorInv
<1>1. CASE AppendInPlace
  <2>1. /\ \A i \in 0 .. size - 1 : arr'[i] = arr[i]
        /\ arr'[size] = Head(call.elems)
    BY <1>1 DEF AppendInPlace, VectorTypeOK
  <2>2. Stutter
    BY <1>1, <2>1, AppendStutters DEF AppendInPlace
  <2> QED
    BY <2>2 DEF Stutter, Promise!listVars
<1>2. CASE AppendGrows
  <2>1. /\ \A i \in 0 .. size - 1 : arr'[i] = arr[i]
        /\ arr'[size] = Head(call.elems)
    BY <1>2 DEF AppendGrows, VectorTypeOK
  <2>2. Stutter
    BY <1>2, <2>1, AppendStutters DEF AppendGrows
  <2> QED
    BY <2>2 DEF Stutter, Promise!listVars
<1>3. CASE InsertInMiddle
  <2>1. /\ call.op = "insert" /\ InBounds /\ call.index \in 0 .. size - 1 /\ size \in Nat
        /\ arr' = [arr EXCEPT ![call.index] = Head(call.elems)]
        /\ UNCHANGED <<size, request, reply, status>>
    BY <1>3 DEF InsertInMiddle, Executing, InBounds, VectorTypeOK
  <2>2. /\ call'.op = "insert" /\ call'.index = call.index + 1
        /\ Head(call'.elems) = arr[call.index] /\ InBounds'
    BY <1>3, <2>1 DEF InsertInMiddle, Request, InBounds
  <2>3. Head(call.elems) \in Elem
    BY <2>1, HeadType
  <2>4. Inserted(Elements', call.index + 1, arr[call.index])
          = Inserted(Elements, call.index, Head(call.elems))
    <3>1. /\ \A i \in 0 .. size - 1 : arr[i] \in Elem
          /\ arr'[call.index] = Head(call.elems)
          /\ \A i \in 0 .. size - 1 : i # call.index => arr'[i] = arr[i]
      BY <2>1 DEF VectorTypeOK
    <3>2. size \in Nat /\ call.index \in 0 .. size - 1
      BY <2>1
    <3>3. Inserted(Prefix(arr', size), call.index + 1, arr[call.index])
            = Inserted(Prefix(arr, size), call.index, Head(call.elems))
      BY <2>3, <3>1, <3>2, InsertedAbove
    <3>4. Elements = Prefix(arr, size) /\ Elements' = Prefix(arr', size)
      BY <2>1 DEF Elements
    <3> QED
      BY <3>3, <3>4
  <2>5. ListOf = Inserted(Elements, call.index, Head(call.elems))
        /\ ReplyOf = reply /\ StatusOf = status
    BY <2>1, MappingCases
  <2>6. ListOf' = Inserted(Elements', call.index + 1, arr[call.index])
        /\ ReplyOf' = reply' /\ StatusOf' = status'
    BY <2>2, MappingCasesNext
  <2> QED
    BY <2>1, <2>4, <2>5, <2>6 DEF Promise!listVars
<1>4. CASE Get \/ AppendAllReturns
  <2>1. /\ InBounds /\ UNCHANGED <<arr, size, request, status>>
        /\ call'.op = "none" /\ InBounds'
    BY <1>4, NoCallType DEF Get, AppendAllReturns, Executing, InBounds
  <2>2. Elements' = Elements
    BY <2>1 DEF Elements
  <2>3. ListOf' = Elements' /\ ReplyOf' = reply' /\ StatusOf' = status'
    BY <2>1, MappingCasesNext
  <2>4. CASE Get
    <3>1. ListOf = Elements /\ ReplyOf = <<arr[call.index]>> /\ StatusOf = status
      BY <2>1, <2>4, MappingCases DEF Get, Executing
    <3> QED
      BY <2>1, <2>2, <2>3, <2>4, <3>1 DEF Get, Promise!listVars
  <2>5. CASE AppendAllReturns
    <3>1. ListOf = Elements \o <<>> /\ ReplyOf = reply /\ StatusOf = status
      BY <2>1, <2>5, MappingCases DEF AppendAllReturns, Executing
    <3>2. Elements \o <<>> = Elements
      BY ElementsType, NothingAppended
    <3> QED
      BY <2>1, <2>2, <2>3, <2>5, <3>1, <3>2 DEF AppendAllReturns, Promise!listVars
  <2> QED
    BY <1>4, <2>4, <2>5
<1>5. CASE Remove
  <2>1. /\ call.op = "remove" /\ InBounds
        /\ UNCHANGED <<arr, size, request, reply, status>>
        /\ call'.op = "shift" /\ call'.index = call.index
        /\ call'.elems = <<arr[call.index]>> /\ InBounds'
    BY <1>5 DEF Remove, Executing, Request, InBounds
  <2>2. Elements' = Elements
    BY <2>1 DEF Elements
  <2>3. ListOf = Removed(Elements, call.index) /\ ReplyOf = <<arr[call.index]>>
        /\ StatusOf = status
    BY <2>1, MappingCases
  <2>4. ListOf' = Removed(Elements', call.index) /\ ReplyOf' = <<arr[call.index]>>
        /\ StatusOf' = status'
    BY <2>1, MappingCasesNext
  <2> QED
    BY <2>1, <2>2, <2>3, <2>4 DEF Promise!listVars
<1>6. CASE ShiftDown
  <2>1. /\ call.op = "shift" /\ InBounds /\ call.index \in 0 .. size - 2 /\ size \in Nat
        /\ arr' = [arr EXCEPT ![call.index] = arr[call.index + 1]]
        /\ UNCHANGED <<size, request, reply, status>>
    BY <1>6 DEF ShiftDown, Executing, InBounds, VectorTypeOK
  <2>2. /\ call'.op = "shift" /\ call'.index = call.index + 1
        /\ call'.elems = call.elems /\ InBounds'
    BY <1>6, <2>1 DEF ShiftDown, Request, InBounds
  <2>3. Removed(Elements', call.index + 1) = Removed(Elements, call.index)
    <3>1. /\ \A i \in 0 .. size - 1 : arr[i] \in Elem
          /\ arr'[call.index] = arr[call.index + 1]
          /\ \A i \in 0 .. size - 1 : i # call.index => arr'[i] = arr[i]
      BY <2>1 DEF VectorTypeOK
    <3> QED
      BY <2>1, <3>1, RemovedBelow DEF Elements
  <2>4. ListOf = Removed(Elements, call.index) /\ ReplyOf = call.elems /\ StatusOf = status
    BY <2>1, MappingCases
  <2>5. ListOf' = Removed(Elements', call.index + 1) /\ ReplyOf' = call.elems
        /\ StatusOf' = status'
    BY <2>2, MappingCasesNext
  <2> QED
    BY <2>1, <2>3, <2>4, <2>5 DEF Promise!listVars
<1>7. CASE ShiftLast
  <2>1. /\ call.op = "shift" /\ InBounds /\ call.index = size - 1 /\ size \in Nat \ {0}
        /\ arr' = [arr EXCEPT ![call.index] = NULL]
        /\ size' = size - 1 /\ reply' = call.elems
        /\ UNCHANGED <<request, status>>
    BY <1>7 DEF ShiftLast, Executing, InBounds, VectorTypeOK
  <2>2. call'.op = "none" /\ InBounds'
    BY <1>7, NoCallType DEF ShiftLast, InBounds
  <2>3. Removed(Elements, size - 1) = Elements'
    <3>1. /\ \A i \in 0 .. size - 1 : arr[i] \in Elem
          /\ \A i \in 0 .. size - 2 : arr'[i] = arr[i]
      BY <2>1 DEF VectorTypeOK
    <3> QED
      BY <2>1, <3>1, RemovedLast DEF Elements
  <2>4. ListOf = Removed(Elements, size - 1) /\ ReplyOf = call.elems /\ StatusOf = status
    BY <2>1, MappingCases
  <2>5. ListOf' = Elements' /\ ReplyOf' = reply' /\ StatusOf' = status'
    BY <2>2, MappingCasesNext
  <2> QED
    BY <2>1, <2>3, <2>4, <2>5 DEF Promise!listVars
<1>8. CASE IndexError
  <2>1. UNCHANGED <<arr, size, call, request, reply>> /\ ~InBounds
    BY <1>8 DEF IndexError, vectorVars
  <2>2. ListOf' = ListOf /\ ReplyOf' = ReplyOf /\ StatusOf' = "error" /\ StatusOf = "error"
    BY <2>1 DEF ListOf, ReplyOf, StatusOf, InBounds, Elements
  <2> QED
    BY <2>1, <2>2 DEF Promise!listVars
<1>9. CASE GrowFails
  <2>1. /\ UNCHANGED <<arr, size, call, request, reply>>
        /\ status = "ok" /\ status' = "outOfMemory"
    BY <1>9 DEF GrowFails, vectorVars, Appending
  <2>2. InBounds
    BY <1>9 DEF GrowFails, Appending, InBounds, VectorTypeOK
  <2>3. /\ ListOf' = ListOf /\ ReplyOf' = ReplyOf
        /\ StatusOf = "ok" /\ StatusOf' = "outOfMemory"
    BY <2>1, <2>2 DEF ListOf, ReplyOf, StatusOf, InBounds, Elements
  <2>4. Promise!OutOfMemory
    BY <2>1, <2>3 DEF Promise!OutOfMemory
  <2> QED
    BY <2>4 DEF Promise!ListNext
<1>10. CASE Calls
  BY <1>10, CallRefines
<1>11. CASE UNCHANGED allVars
  BY <1>11 DEF allVars, vectorVars, Promise!listVars, ListOf, ReplyOf, StatusOf, InBounds, Elements
<1> QED
  BY <1>1, <1>2, <1>3, <1>4, <1>5, <1>6, <1>7, <1>8, <1>9, <1>10, <1>11
     DEF VectorNext, VectorStep

(* A vector is a list: whatever moves inside it between a call and its return
   (the recursions of Vector_insert and Vector_shift, the growth of the array),
   the user sees the call done as a whole, and is stopped exactly when the index
   was out of bounds, or there was no memory. *)
THEOREM VectorIsAList == VectorSpec => ImplementsList
<1>1. VectorInv /\ [VectorNext]_allVars => [Promise!ListNext]_(Promise!listVars)
  BY NextRefines
<1> QED
  BY <1>1, InitInv, NextInv, InitRefines, PTL
     DEF VectorSpec, ImplementsList, Promise!ListSpecification
=============================================================================
