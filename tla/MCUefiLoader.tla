---------------------------- MODULE MCUefiLoader ----------------------------
(***************************************************************************)
(* Model checking UefiLoader with the files of MCElfFile.                  *)
(***************************************************************************)
EXTENDS UefiLoader, MCElfFile

=============================================================================
