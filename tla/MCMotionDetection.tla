------------------------- MODULE MCMotionDetection -------------------------
(***************************************************************************)
(* A small camera server for TLC.                                          *)
(***************************************************************************)
EXTENDS MotionDetection

Size(h, w) == [height |-> h, width |-> w]
SmallPicture == Size(2, 2)
SmallAreas == {Size(1, 1)}

\* One thread saves areas, says on and off and shows what was detected; the
\* others only show the area.
Speaker == CHOOSE t \in Threads : TRUE
Roles == \A t \in Threads \ {Speaker} : pc[t] = Idle \/ pc[t][1] = "draw"
=============================================================================
