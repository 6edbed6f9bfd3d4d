\* Two seats, three clients: the waiting room fills up, clients are turned away
\* and come again, slots are reused and the queue wraps around.  No symmetry:
\* a liveness property is checked too.
CONSTANTS
  Clients = {c1, c2, c3}
  N = 2
  S = 1
  NoPid = NoPid
SPECIFICATION FairSpec
INVARIANTS
  MutualExclusion
  SeatAccounting
  QueueMatchesSeats
  CutsMatchChairs
  SleepsInEmptyShop
  InvitationHasTaker
PROPERTIES
  ServedInOrder
  EveryoneServed
