\* Two clients that come twice and two seats: both may sit, the queue wraps around,
\* one may come while the shop opens or between the writes of a barber that was
\* started again, and one process is ended by a signal.
CONSTANTS
  Clients = {c1, c2}
  N = 2
  S = 2
  NoPid = NoPid
  MaxFaults = 1
SPECIFICATION FairSpecPosix
CONSTRAINT SoundSoFar
INVARIANTS
  ShopIsSound
PROPERTIES
  ServedWhileSound
\* A shop whose barber was killed may be left as it is.
CHECK_DEADLOCK FALSE
