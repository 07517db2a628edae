------------------------------ MODULE ListSpec ------------------------------
(***************************************************************************)
(* What a vector promises its user: it is a list, which a call changes as  *)
(* a whole, and a call out of bounds ends the process, as may a lack of    *)
(* memory.                                                                 *)
(***************************************************************************)
EXTENDS ListCalls

VARIABLES
  list,     \* the elements
  request,  \* the last call
  reply,    \* what the last call of get or remove has returned
  status    \* "ok", "error" or "outOfMemory"

listVars == <<list, request, reply, status>>

ListInit ==
  /\ list = <<>>
  /\ request = NoRequest
  /\ reply = NoReply
  /\ status = "ok"

Called(req) == status = "ok" /\ request' = req

AppendElem(elem) ==
  /\ Called(Request("append", -1, <<elem>>))
  /\ list' = list \o <<elem>>
  /\ UNCHANGED <<reply, status>>

AppendElems(elems) ==
  /\ Called(Request("append_all", -1, elems))
  /\ list' = list \o elems
  /\ UNCHANGED <<reply, status>>

InsertElem(index, elem) ==
  /\ index \in 0 .. Len(list)
  /\ Called(Request("insert", index, <<elem>>))
  /\ list' = Inserted(list, index, elem)
  /\ UNCHANGED <<reply, status>>

GetElem(index) ==
  /\ index \in 0 .. Len(list) - 1
  /\ Called(Request("get", index, <<>>))
  /\ reply' = <<list[index + 1]>>
  /\ UNCHANGED <<list, status>>

RemoveElem(index) ==
  /\ index \in 0 .. Len(list) - 1
  /\ Called(Request("remove", index, <<>>))
  /\ reply' = <<list[index + 1]>>
  /\ list' = Removed(list, index)
  /\ UNCHANGED status

OutOfBounds(op, index, elems) ==
  /\ index \notin 0 .. (IF op = "insert" THEN Len(list) ELSE Len(list) - 1)
  /\ Called(Request(op, index, elems))
  /\ status' = "error"
  /\ UNCHANGED <<list, reply>>

OutOfMemory ==
  /\ status = "ok"
  /\ status' = "outOfMemory"
  /\ UNCHANGED <<list, request, reply>>

ListNext ==
  \/ \E elem \in Elem : AppendElem(elem)
  \/ \E elems \in Batches : AppendElems(elems)
  \/ \E index \in Indices, elem \in Elem :
       InsertElem(index, elem) \/ OutOfBounds("insert", index, <<elem>>)
  \/ \E index \in Indices :
       \/ GetElem(index)
       \/ RemoveElem(index)
       \/ \E op \in {"get", "remove"} : OutOfBounds(op, index, <<>>)
  \/ OutOfMemory

ListSpecification == ListInit /\ [][ListNext]_listVars
=============================================================================
