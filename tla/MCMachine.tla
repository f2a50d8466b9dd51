------------------------------ MODULE MCMachine ------------------------------
(***************************************************************************)
(* Machine with the programs of SamplePrograms.                            *)
(***************************************************************************)
EXTENDS Machine, SamplePrograms
=============================================================================
