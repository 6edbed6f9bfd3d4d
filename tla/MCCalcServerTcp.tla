-------------------------- MODULE MCCalcServerTcp --------------------------
(***************************************************************************)
(* Small calculator servers for TLC.                                       *)
(***************************************************************************)
EXTENDS CalcServerTcp

\* Names are not told apart: let one of the processes have a given one.
InitOneNamed ==
  /\ Init
  /\ name[CHOOSE c \in Procs : TRUE] = CHOOSE n \in Names : TRUE

SpecOneNamed == InitOneNamed /\ [][Next]_vars /\ Fairness
=============================================================================
