\* Fewer producers than slots: the program must end, though main may find the ring
\* not yet empty when the producers have exited.  Fewer slots than lines, so
\* that the ring wraps.
CONSTANTS
  Producers = {p1, p2, p3}
  Consumers = {k1, k2}
  N = 4
  Lines = 6
SPECIFICATION FairSpec
INVARIANTS
  TokensAccounted
PROPERTIES
  ImplementsChannel
  ImplementsFairChannel
