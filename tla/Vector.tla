------------------------------- MODULE Vector -------------------------------
(***************************************************************************)
(* A vector (the macro DEFINE_VECTORABLE of util.h): a growing array of    *)
(* pointers.  Its user calls one operation after the other; insertion and  *)
(* removal move the elements one at a time, by recursion, and the parts of *)
(* a call are steps of their own.                                          *)
(*                                                                         *)
(* The loops of append_all are those of concat, too, which nothing uses;   *)
(* what is appended is another vector, given by its elements.              *)
(***************************************************************************)
EXTENDS ListCalls

CONSTANTS
  VECTOR_INITIAL_ARR_SIZE,
  PointerSize,  \* sizeof(ty *)
  MaxInt,       \* INT_MAX
  Uninit,       \* what is in memory that nobody wrote
  NULL

ASSUME VectorAssumption ==
  /\ VECTOR_INITIAL_ARR_SIZE \in Nat \ {0}
  /\ PointerSize \in Nat \ {0}
  /\ MaxInt \in Nat
  /\ PointerSize * VECTOR_INITIAL_ARR_SIZE <= MaxInt

VARIABLES
  arr,       \* the array, with indices from zero
  size,
  arr_size,
  bytes,     \* the size of the array's block of memory
  call,      \* the operation that is being executed, with its arguments
  request,   \* the last call by the user
  reply,     \* what the last call of get or remove has returned
  status     \* "ok", "error" (ERROR has ended the process) or "outOfMemory"

vectorVars == <<arr, size, arr_size, bytes, call>>
allVars == <<vectorVars, request, reply, status>>

NoCall == NoRequest

Operation == {"none", "append", "append_all", "insert", "get", "remove", "shift"}
Cell == Elem \cup {Uninit, NULL}

(* An int from a size. *)
ToInt(number) ==
  LET word == number % (2 * (MaxInt + 1))
  IN  IF word > MaxInt THEN word - 2 * (MaxInt + 1) ELSE word

VectorInit ==
  /\ arr = [i \in 0 .. VECTOR_INITIAL_ARR_SIZE - 1 |-> Uninit]
  /\ size = 0
  /\ arr_size = VECTOR_INITIAL_ARR_SIZE
  /\ bytes = PointerSize * VECTOR_INITIAL_ARR_SIZE
  /\ call = NoCall
  /\ request = NoRequest
  /\ reply = NoReply
  /\ status = "ok"

(* -------------------------------- Calls -------------------------------- *)
Call(req) ==
  /\ status = "ok"
  /\ call = NoCall
  /\ call' = req
  /\ request' = req
  /\ UNCHANGED <<arr, size, arr_size, bytes, reply, status>>

Calls ==
  \/ \E elem \in Elem : Call(Request("append", -1, <<elem>>))
  \/ \E elems \in Batches : Call(Request("append_all", -1, elems))
  \/ \E index \in Indices, elem \in Elem : Call(Request("insert", index, <<elem>>))
  \/ \E index \in Indices : Call(Request("get", index, <<>>))
  \/ \E index \in Indices : Call(Request("remove", index, <<>>))

Executing(ops) == status = "ok" /\ call.op \in ops

(* The checks at the beginning of insert, get, shift and remove. *)
InBounds ==
  /\ call.op = "insert" => call.index \in 0 .. size
  /\ call.op \in {"get", "remove", "shift"} => call.index \in 0 .. size - 1

IndexError ==
  /\ status = "ok"
  /\ ~InBounds
  /\ status' = "error"
  /\ UNCHANGED <<vectorVars, request, reply>>

(* ------------------------------ Appending ------------------------------ *)
(* Vector_append is called: by append_all for its next element, by insert at
   the end of the elements, or by the user. *)
Appending ==
  /\ status = "ok"
  /\ \/ call.op = "append"
     \/ call.op = "append_all" /\ call.elems # <<>>
     \/ call.op = "insert" /\ call.index = size

(* It returns to the loop of append_all, or to the user. *)
Append_return ==
  call' = IF call.op = "append_all" THEN Request("append_all", call.index, Tail(call.elems))
                                    ELSE NoCall

AppendInPlace ==
  /\ Appending
  /\ size < arr_size
  /\ arr' = [arr EXCEPT ![size] = Head(call.elems)]
  /\ size' = size + 1
  /\ Append_return
  /\ UNCHANGED <<arr_size, bytes, request, reply, status>>

(* The number of bytes goes to chrealloc as an int, and to realloc as a size
   again, by which a negative number becomes more than there can be. *)
Requested == ToInt(PointerSize * 2 * arr_size)

(* Mutant: the result of realloc is not checked. *)
GrowUnchecked ==
  /\ Appending
  /\ size >= arr_size
  /\ bytes' = Requested
  /\ arr_size' = 2 * arr_size
  /\ arr' = [i \in 0 .. arr_size' - 1 |->
               IF i = size THEN Head(call.elems) ELSE IF i < arr_size THEN arr[i] ELSE Uninit]
  /\ size' = size + 1
  /\ Append_return
  /\ UNCHANGED <<request, reply, status>>

AppendGrows ==
  /\ Appending
  /\ size >= arr_size
  /\ Requested >= 0
  /\ bytes' = Requested
  /\ arr_size' = 2 * arr_size
  /\ arr' = [i \in 0 .. arr_size' - 1 |->
               IF i = size THEN Head(call.elems) ELSE IF i < arr_size THEN arr[i] ELSE Uninit]
  /\ size' = size + 1
  /\ Append_return
  /\ UNCHANGED <<request, reply, status>>

(* realloc may always fail. *)
GrowFails ==
  /\ Appending
  /\ size >= arr_size
  /\ status' = "outOfMemory"
  /\ UNCHANGED <<vectorVars, request, reply>>

AppendAllReturns ==
  /\ Executing({"append_all"})
  /\ call.elems = <<>>
  /\ call' = NoCall
  /\ UNCHANGED <<arr, size, arr_size, bytes, request, reply, status>>

(* ---------------------------- Insert and get --------------------------- *)
(* Mutant: the new element, and not the old one, is inserted above. *)
InsertAgain ==
  /\ Executing({"insert"})
  /\ call.index \in 0 .. size - 1
  /\ arr' = [arr EXCEPT ![call.index] = Head(call.elems)]
  /\ call' = Request("insert", call.index + 1, call.elems)
  /\ UNCHANGED <<size, arr_size, bytes, request, reply, status>>

(* The new element takes the place of the old one, which is inserted above. *)
InsertInMiddle ==
  /\ Executing({"insert"})
  /\ call.index \in 0 .. size - 1
  /\ arr' = [arr EXCEPT ![call.index] = Head(call.elems)]
  /\ call' = Request("insert", call.index + 1, <<arr[call.index]>>)
  /\ UNCHANGED <<size, arr_size, bytes, request, reply, status>>

Get ==
  /\ Executing({"get"})
  /\ InBounds
  /\ reply' = <<arr[call.index]>>
  /\ call' = NoCall
  /\ UNCHANGED <<arr, size, arr_size, bytes, request, status>>

(* ------------------------------- Removing ------------------------------ *)
Remove ==
  /\ Executing({"remove"})
  /\ InBounds
  /\ call' = Request("shift", call.index, <<arr[call.index]>>)
  /\ UNCHANGED <<arr, size, arr_size, bytes, request, reply, status>>

(* Mutant: the shift goes on with the same index. *)
ShiftInPlace ==
  /\ Executing({"shift"})
  /\ call.index \in 0 .. size - 2
  /\ arr' = [arr EXCEPT ![call.index] = arr[call.index + 1]]
  /\ UNCHANGED <<size, arr_size, bytes, call, request, reply, status>>

ShiftDown ==
  /\ Executing({"shift"})
  /\ call.index \in 0 .. size - 2
  /\ arr' = [arr EXCEPT ![call.index] = arr[call.index + 1]]
  /\ call' = Request("shift", call.index + 1, call.elems)
  /\ UNCHANGED <<size, arr_size, bytes, request, reply, status>>

(* Mutant: the size is not decremented. *)
KeepSize ==
  /\ Executing({"shift"})
  /\ InBounds
  /\ call.index = size - 1
  /\ arr' = [arr EXCEPT ![call.index] = NULL]
  /\ reply' = call.elems
  /\ call' = NoCall
  /\ UNCHANGED <<size, arr_size, bytes, request, status>>

(* The last shift, after which remove returns its element. *)
ShiftLast ==
  /\ Executing({"shift"})
  /\ InBounds
  /\ call.index = size - 1
  /\ arr' = [arr EXCEPT ![call.index] = NULL]
  /\ size' = size - 1
  /\ reply' = call.elems
  /\ call' = NoCall
  /\ UNCHANGED <<arr_size, bytes, request, status>>

VectorStep ==
  \/ IndexError
  \/ AppendInPlace \/ AppendGrows \/ GrowFails \/ AppendAllReturns
  \/ InsertInMiddle \/ Get
  \/ Remove \/ ShiftDown \/ ShiftLast

VectorNext == VectorStep \/ Calls

VectorSpec == VectorInit /\ [][VectorNext]_allVars

(* One thread, which goes on with what it was called for. *)
FairVectorSpec == VectorSpec /\ WF_allVars(VectorStep)

(* ------------------------------ Properties ----------------------------- *)
VectorTypeOK ==
  /\ size \in 0 .. arr_size
  /\ arr_size \in Nat \ {0}
  /\ arr \in [0 .. arr_size - 1 -> Cell]
  /\ \A i \in 0 .. size - 1 : arr[i] \in Elem
  /\ call \in [op : Operation, index : Int, elems : Seq(Elem)]
  /\ call.op \in {"append", "insert", "shift"} => Len(call.elems) = 1
  /\ status \in {"ok", "error", "outOfMemory"}

(* The array is inside its block although the number of bytes overflows an
   int: doubling it makes the number negative before it makes it small
   (Vector_append, chrealloc). *)
InsideItsBlock == PointerSize * arr_size <= bytes

(* Refinement.  From a call on, the vector is the list that the call is to
   leave: the elements, and what the recursion still carries. *)
Prefix(cells, length) == [i \in 1 .. length |-> cells[i - 1]]
Elements == Prefix(arr, size)

ListOf ==
  CASE call.op \in {"append", "append_all"}            -> Elements \o call.elems
    [] call.op = "insert" /\ InBounds                  ->
         Inserted(Elements, call.index, Head(call.elems))
    [] call.op \in {"remove", "shift"} /\ InBounds -> Removed(Elements, call.index)
    [] OTHER                                           -> Elements

ReplyOf ==
  CASE call.op \in {"get", "remove"} /\ InBounds -> <<arr[call.index]>>
    [] call.op = "shift"                         -> call.elems
    [] OTHER                                     -> reply

StatusOf == IF InBounds THEN status ELSE "error"

Promise == INSTANCE ListSpec WITH list <- ListOf, reply <- ReplyOf, status <- StatusOf
ImplementsList == Promise!ListSpecification

(* A call returns, or the process ends: the recursions and the loop come to
   their ends (Vector_insert, Vector_shift, Vector_append_all). *)
CallsReturn == call # NoCall ~> call = NoCall \/ status # "ok"
=============================================================================
