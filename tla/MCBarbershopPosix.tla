------------------------- MODULE MCBarbershopPosix -------------------------
(***************************************************************************)
(* Small barbershops with named semaphores for TLC.                        *)
(***************************************************************************)
EXTENDS BarbershopPosix, TLC

\* Once somebody was cut short nothing more is promised but MutualExclusion, which
\* BarbershopProofs proves for those states too: TLC stops there.
SoundSoFar == sound
=============================================================================
