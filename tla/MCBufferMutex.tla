--------------------------- MODULE MCBufferMutex ---------------------------
(***************************************************************************)
(* Small instances of BufferMutex for TLC.                                 *)
(***************************************************************************)
EXTENDS BufferMutex
=============================================================================
