------------------------------ MODULE MCNative ------------------------------
(* Operations for the generator, and to be called as tests call them. *)
EXTENDS NativeExecution

Op(opc, arg1, arg2) == ICodeOperation_init(opc, arg1, arg2)

Halting(code) == Append(code, Op("HALT", 0, 0))

(* Every pair of registers, on values that overflow 32 bits, too. *)
Values == {<<5, 7, -3>>, <<127, 127, -128>>}

Setup(v) == << Op("LOADIMM", v[1], RETURN_ADDRESS),
               Op("LOADIMM", v[2], ACCUMULATOR),
               Op("LOADIMM", v[3], TEMPORARY) >>

Arithmetic ==
  {Halting(Setup(v) \o <<Op(opc, ra, rb)>>) :
     v \in Values, opc \in {"MOVE", "ADD", "SUB"},
     ra \in NativeRegisters, rb \in NativeRegisters}

Constants ==
  {Halting(<<Op("LOADIMM", n, r)>>) : n \in {-2, 100}, r \in NativeRegisters}

(* Store and load through every register that the address is moved to first;
   moving it cuts it to 32 bits. *)
Through(r) == IF r \in {STACK_POINTER, FRAME_POINTER} THEN <<>>
              ELSE <<Op("MOVE", STACK_POINTER, r)>>

Stores ==
  {Halting(Setup(<<5, 7, -3>>) \o Through(rb) \o <<Op("STORE", ra, rb)>>) :
     ra \in NativeRegisters, rb \in NativeRegisters}

Loads ==
  {Halting(Setup(<<5, 7, -3>>) \o <<Op("STORE", TEMPORARY, STACK_POINTER)>>
             \o Through(ra) \o <<Op("LOAD", ra, rb)>>) :
     ra \in NativeRegisters, rb \in NativeRegisters}

(* Two stores less than 8 bytes apart. *)
Overlapping ==
  {Halting(<< Op("LOADIMM", 77, TEMPORARY), Op("STORE", TEMPORARY, FRAME_POINTER),
              Op("LOADIMM", n, ACCUMULATOR), Op("ADD", ACCUMULATOR, STACK_POINTER),
              Op("STORE", ACCUMULATOR, STACK_POINTER),
              Op("LOAD", FRAME_POINTER, ACCUMULATOR) >>) : n \in {-1, 1, 8, 9}}

Branches ==
  {Halting(<< Op("LOADIMM", n, r), Op("JUMPCOND", 0, r),
              Op("LOADIMM", 1, ACCUMULATOR), Op("HALT", 0, 0), Op("LABEL", 0, 0),
              Op("LOADIMM", 2, ACCUMULATOR) >>) :
     n \in {-128, -1, 0, 1, 127}, r \in NativeRegisters}

Loop ==
  Halting(<< Op("LOADIMM", 3, ACCUMULATOR), Op("LOADIMM", 1, TEMPORARY),
             Op("LABEL", 0, 0), Op("SUB", ACCUMULATOR, TEMPORARY),
             Op("JUMPCOND", 0, ACCUMULATOR) >>)

(* A call that returns through any register, the return address having been in
   memory meanwhile; a call in a called function; labels out of order; two
   labels at one place. *)
Returns ==
  {<< Op("JUMPLINK", 0, 0), Op("HALT", 0, 0), Op("LABEL", 0, 0),
      Op("STORE", RETURN_ADDRESS, FRAME_POINTER), Op("LOADIMM", 1, RETURN_ADDRESS),
      Op("LOAD", FRAME_POINTER, r), Op("JUMPADDR", r, 0) >> : r \in NativeRegisters}

NestedCall ==
  << Op("JUMPLINK", 1, 0), Op("JUMP", 2, 0), Op("LABEL", 0, 0),
     Op("LOADIMM", 9, ACCUMULATOR), Op("JUMPADDR", RETURN_ADDRESS, 0),
     Op("LABEL", 1, 0), Op("STORE", RETURN_ADDRESS, STACK_POINTER),
     Op("JUMPLINK", 0, 0), Op("LOAD", STACK_POINTER, RETURN_ADDRESS),
     Op("JUMPADDR", RETURN_ADDRESS, 0), Op("LABEL", 3, 0), Op("LABEL", 2, 0),
     Op("HALT", 0, 0) >>

(* Control runs off the code, or jumps out of it; registers that cannot be used. *)
Faulty ==
  { <<Op("LOADIMM", 1, ACCUMULATOR)>>, <<>>,
    <<Op("JUMPADDR", RETURN_ADDRESS, 0)>>,
    <<Op("JUMP", 0, 0), Op("LABEL", 0, 0)>> }
  \cup {Halting(<<o>>) :
          o \in {Op("MOVE", PROGRAM_COUNTER, ACCUMULATOR), Op("LOADIMM", 0, 6),
                 Op("JUMPCOND", 0, -1)}}

MCPrograms ==
  UNION {Arithmetic, Constants, Stores, Loads, Overlapping, Branches, {Loop},
         Returns, {NestedCall}, Faulty}

(* The accumulator at the HALT, executed from operation i on registers r as icode.h says
   (some of the operations). *)
RECURSIVE DocumentedResult(_, _)
DocumentedResult(i, r) ==
  LET o == ops[i]
      Then(arg, v) == DocumentedResult(i + 1, [r EXCEPT ![arg] = v])
  IN  CASE o.opc = "HALT"    -> r[ACCUMULATOR]
        [] o.opc = "LOADIMM" -> Then(o.arg2, o.arg1)
        [] o.opc = "ADD"     -> Then(o.arg1, r[o.arg1] + r[o.arg2])
        [] o.opc = "SUB"     -> Then(o.arg1, r[o.arg1] - r[o.arg2])
        [] o.opc = "JUMPCOND" ->
             DocumentedResult(IF r[o.arg2] < 1 THEN Target(ops, o.arg1) ELSE i + 1, r)

(* 5 + 7 is added up in the accumulator; if 0 is less than 1, 2 is subtracted from it.
   It is 10; 12 if the code does not jump, 3 if the sum is in the other register, and 5
   with both. *)
DocumentedPrograms ==
  { << Op("LOADIMM", 5, ACCUMULATOR), Op("LOADIMM", 7, TEMPORARY),
       Op("ADD", ACCUMULATOR, TEMPORARY),
       Op("LOADIMM", 0, RETURN_ADDRESS), Op("JUMPCOND", 0, RETURN_ADDRESS),
       Op("HALT", 0, 0), Op("LABEL", 0, 0),
       Op("LOADIMM", 2, TEMPORARY), Op("SUB", ACCUMULATOR, TEMPORARY), Op("HALT", 0, 0) >> }

(* Native code computes what icode.h:28-35 says of its operations: ADD leaves "the result
   in register arg1", and JUMPCOND jumps "if the value of register arg2 is less than 1". *)
ComputesAsDocumented ==
  cpu_status = "returned" =>
    Signed32(Read(memory, SaveAddress, 4)) = DocumentedResult(1, [r \in NativeRegisters |-> 0])

(* A stack below 4 GiB, and one above. *)
MCStackAddresses == {64, 1000}
=============================================================================
