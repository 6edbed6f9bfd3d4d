---------------------------- MODULE ProcessCounts ----------------------------
(***************************************************************************)
(* Counting processes by where they are in their code.                     *)
(***************************************************************************)
EXTENDS FiniteSets

\* How many processes of P are at one of the labels of L.
CountAt(P, f, L) == Cardinality({x \in P : f[x] \in L})
=============================================================================
