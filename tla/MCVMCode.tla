------------------------------- MODULE MCVMCode -------------------------------
(* The VMCode machine on hand-written code. *)
EXTENDS VMCodeMachine, HandWrittenCode

MachineJobs == EveryJob
=============================================================================
