---------------------------- MODULE MCBufferSem ----------------------------
(***************************************************************************)
(* Small instances of BufferSem for TLC.                                   *)
(***************************************************************************)
EXTENDS BufferSem
=============================================================================
