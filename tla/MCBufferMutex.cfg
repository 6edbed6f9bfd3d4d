\* As many producers as slots: the program must end.  Fewer slots than lines, so
\* that the ring wraps.
CONSTANTS
  Producers = {p1, p2, p3}
  Consumers = {k1, k2}
  N = 3
  Lines = 4
  Main = Main
  Nobody = Nobody
SPECIFICATION FairSpec
INVARIANTS
  NoLostWakeup
PROPERTIES
  ImplementsFairChannel
