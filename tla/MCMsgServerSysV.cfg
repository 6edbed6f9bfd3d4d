\* Three clients, two places: clients are refused, places are used again.
CONSTANTS
  Procs = {c1, c2, c3}
  MAX_CLIENTS = 2
  MaxRequests = 1
  Nobody = Nobody
SPECIFICATION FairSpec
INVARIANTS
  TableAgrees
  AnswersAreOwn
  PlacesComeBack
PROPERTIES
  EveryoneAnswered
\* The server may end, a refused client waits for ever.
CHECK_DEADLOCK FALSE
