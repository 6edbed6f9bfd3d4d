--------------------------- MODULE MCSignalCounts ---------------------------
(***************************************************************************)
(* A small family for TLC.                                                 *)
(***************************************************************************)
EXTENDS SignalCounts
=============================================================================
