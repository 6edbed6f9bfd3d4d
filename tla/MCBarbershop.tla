---------------------------- MODULE MCBarbershop ----------------------------
(***************************************************************************)
(* Small barbershops for TLC: the constants have their values in the       *)
(* configuration.                                                          *)
(***************************************************************************)
EXTENDS Barbershop
=============================================================================
