\* Three runs of the server, of which the second may take the name from the first
\* so that the third starts beside it; two clients for one place, which is
\* refused and used again.
CONSTANTS
  Servers = {s1, s2, s3}
  Procs = {c1, c2}
  MAX_CLIENTS = 1
  MaxMsg = 3
  MaxRequests = 1
  Nobody = Nobody
SPECIFICATION FairSpec
INVARIANTS
  TableAgrees
  AnswersAreOwn
  PlacesComeBack
PROPERTIES
  EveryoneAnswered
\* A server may stop, and a client then waits for ever.
CHECK_DEADLOCK FALSE
