--------------------------- MODULE HandWrittenCode ---------------------------
(* Code that no compiler produced, for the machines to run: every sequence of
   three operations of an alphabet, and a few more.  The alphabet has each
   opcode, reads registers and cells before anything is written to them, writes
   the program counter, and jumps to a label that may be missing. *)
EXTENDS ICode

Op(opc, arg1, arg2) == ICodeOperation_init(opc, arg1, arg2)

Alphabet == { Op("MOVE", STACK_POINTER, ACCUMULATOR),
               Op("MOVE", TEMPORARY, PROGRAM_COUNTER),
               Op("LOAD", FRAME_POINTER, TEMPORARY),
               Op("LOAD", ACCUMULATOR, ACCUMULATOR),
               Op("STORE", ACCUMULATOR, STACK_POINTER),
               Op("ADD", STACK_POINTER, TEMPORARY),
               Op("SUB", FRAME_POINTER, ACCUMULATOR),
               Op("LOADIMM", 1, ACCUMULATOR),
               Op("JUMP", 0, 0),
               Op("JUMPCOND", 1, ACCUMULATOR),
               Op("JUMPLINK", 0, 0),
               Op("JUMPADDR", RETURN_ADDRESS, 0),
               Op("LABEL", 0, 0),
               Op("HALT", 0, 0) }

Job(ops, initial) == [code |-> ops, initial_stack |-> initial]

AllTriples ==
  {Job(<<op1, op2, op3, Op("HALT", 0, 0)>>, <<2>>) :
     op1 \in Alphabet, op2 \in Alphabet, op3 \in Alphabet}

(* A label twice, a negative label, a test of a register no other operation
   mentions, a label that is never defined, a register only a LOADIMM mentions. *)
Special ==
  { Job(<<Op("LABEL", 1, 0), Op("JUMP", 1, 0), Op("LABEL", 1, 0),
           Op("HALT", 0, 0)>>, <<>>),
     Job(<<Op("LABEL", -1, 0), Op("HALT", 0, 0)>>, <<>>),
     Job(<<Op("LABEL", 3, 0), Op("JUMPCOND", 3, 6), Op("HALT", 0, 0)>>, <<>>),
     Job(<<Op("JUMPLINK", 2, 0), Op("HALT", 0, 0)>>, <<>>),
     Job(<<Op("LOADIMM", 2, 7), Op("HALT", 0, 0)>>, <<>>) }

EveryJob == AllTriples \cup Special
=============================================================================
