\* Two clients, with the same name or with two, and room for both: names and
\* places are refused and used again, three threads write to each socket, and an
\* order meets clients that come and go.  The model ends with the server.
CONSTANTS
  Procs = {p1, p2}
  Names = {a, b}
  CLIENT_MAX = 2
  MaxOrders = 1
SPECIFICATION SpecOneNamed
INVARIANTS
  SessionsAgree
  ClientsUnderstand
  InactiveCountsPings
  OrdersAnsweredOnce
PROPERTIES
  LeavesForCause
  LoginAnswered
CHECK_DEADLOCK FALSE
