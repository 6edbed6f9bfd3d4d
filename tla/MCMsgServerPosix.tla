-------------------------- MODULE MCMsgServerPosix --------------------------
(***************************************************************************)
(* Small systems of request servers for TLC: the constants have their      *)
(* values in the configuration.                                            *)
(***************************************************************************)
EXTENDS MsgServerPosix
=============================================================================
