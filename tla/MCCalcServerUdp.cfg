\* A local client and one on the web that may have the same name.  The order is
\* the fifth: the first byte of its operation_t reads as REQUEST.
CONSTANTS
  Procs = {p1, p2}
  Local = {p1}
  Names = {a, b}
  CLIENT_MAX = 2
  Earlier = 4
  MaxOrders = 1
  MaxRepeats = 1
SYMMETRY Symmetry
SPECIFICATION Spec
INVARIANTS
  TableAgrees
  AnsweredByAddressee
  ClientsUnderstand
PROPERTIES
  LeavesForCause
\* The server may exit, and every client may leave.
CHECK_DEADLOCK FALSE
