---------------------------- MODULE MCPiperQueue ----------------------------
(***************************************************************************)
(* Small instances of PiperQueue: how many WAV names are in use at a time. *)
(***************************************************************************)
EXTENDS PiperQueue

MCFiles == 1..2
=============================================================================
