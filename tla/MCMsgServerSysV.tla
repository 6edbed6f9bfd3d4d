-------------------------- MODULE MCMsgServerSysV --------------------------
(***************************************************************************)
(* Small request servers for TLC.                                          *)
(***************************************************************************)
EXTENDS MsgServerSysV, TLC
=============================================================================
