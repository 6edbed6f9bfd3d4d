-------------------------- MODULE MCCalcServerUdp --------------------------
(***************************************************************************)
(* A small calculator server over datagrams for TLC.                       *)
(***************************************************************************)
EXTENDS CalcServerUdp, TLC

\* Names are not told apart.
Symmetry == Permutations(Names)
=============================================================================
