--------------------------- MODULE CalcServerUdp ---------------------------
(***************************************************************************)
(* The calculator server of Operating-systems/lab10/zad2: the server of    *)
(* CalcServerTcp over datagram sockets.  There are no connections: the     *)
(* server has one socket for local clients and one for clients on the web, *)
(* and keeps an address for each client; a client that is taken off the    *)
(* list is not told.  Local datagrams arrive, in order, or the send fails; *)
(* datagrams on the web are lost, overtaken and repeated.                  *)
(*                                                                         *)
(* A handler of main holds clients_mutex for all it does, so taking the    *)
(* mutex and handling the message is one step.                             *)
(***************************************************************************)
EXTENDS Integers, Sequences, FiniteSets, SequencesExt, Functions

CONSTANTS
  Procs,          \* the processes that run client.c
  Local,          \* those that were given LOCAL and not WEB (argv[2])
  Names,          \* the names they may be given (argv[1])
  CLIENT_MAX,
  Earlier,        \* orders given, and done with, before the model begins
  MaxOrders,      \* bound: orders typed in at the server's terminal
  MaxRepeats      \* bound: datagrams the network repeats

ASSUME ClientsAssumption == Local \subseteq Procs /\ CLIENT_MAX \in Nat \ {0}
ASSUME BoundsAssumption == Earlier \in Nat /\ MaxOrders \in Nat /\ MaxRepeats \in Nat

VARIABLES
  clients,           \* clients[0..client_counter-1]; addr is the process
  clients_mutex,     \* the thread that holds it, or "nobody"
  operation_counter,
  socket,            \* the datagrams waiting at, or on the way to, each socket
  inbox,             \* those for each client
  msg,               \* main: the message in hand
  pingAt,            \* ping_procedure: its i, from 1; 0 outside the mutex
  termPc, termAt,    \* terminal_procedure: where it is, its i, from 1
  up,                \* the server process exists
  name, pc, order,   \* each client: its name, where it is, the order in hand
  repeats,           \* datagrams the network has repeated
  sentTo             \* history: the addressee of each order

server == <<clients, clients_mutex, operation_counter, msg, pingAt, termPc, termAt, up, sentTo>>
procs == <<name, pc, order>>
vars == <<server, socket, inbox, procs, repeats>>

\* enum message_type; the values count from 0.
MessageTypes == <<"LOGIN", "LOGOUT", "SUCCESS", "WRONG_SIZE", "WRONG_NAME",
                  "REQUEST", "RESULT", "PING", "PONG">>

\* A datagram: a message_t, the single byte of a type, or an operation_t.
Datagram(type, c, n) == [type |-> type, addr |-> c, operation |-> n]

\* What a client reads when it reads one byte: of an operation_t the lowest
\* byte of its number.  The rest of the datagram is dropped.
FirstByte(d) ==
  IF d.type # "operation_t" THEN d.type
  ELSE IF d.operation % 256 < Len(MessageTypes)
       THEN MessageTypes[(d.operation % 256) + 1] ELSE "unknown"

Kind(c) == IF c \in Local THEN "LOCAL" ELSE "WEB"
Nothing == [type |-> "nothing"]

Init ==
  /\ clients = <<>>
  /\ clients_mutex = "nobody"
  /\ operation_counter = Earlier
  /\ socket = [kind \in {"LOCAL", "WEB"} |-> <<>>]
  /\ inbox = [c \in Procs |-> <<>>]
  /\ msg = Nothing
  /\ pingAt = 0
  /\ termPc = "fgets" /\ termAt = 1
  /\ up = TRUE
  /\ name \in [Procs -> Names]
  /\ pc = [c \in Procs |-> "login"]
  /\ order = [c \in Procs |-> 0]
  /\ repeats = 0
  /\ sentTo = <<>>

\* Which of the datagrams a reader may get next.  One that is lost is one that
\* is never read.
Arriving(kind, queue) ==
  IF kind = "LOCAL" THEN {1} \cap DOMAIN queue ELSE DOMAIN queue

\* Datagram i is read; the web may have another copy of it on the way.
Read(kind, queue, rest, i) ==
  \/ rest = RemoveAt(queue, i) /\ UNCHANGED repeats
  \/ kind = "WEB" /\ repeats < MaxRepeats /\ repeats' = repeats + 1 /\ rest = queue

\* sendto: a local socket that is closed refuses, the web swallows.
Refuses(c) == c \in Local /\ pc[c] = "gone"

Deliver(c, d) ==
  inbox' = IF pc[c] = "gone" THEN inbox ELSE [inbox EXCEPT ![c] = Append(@, d)]

\* A failed sendto that ends the server, print_err_ext_failure.
SendOrDie(c, d) == Deliver(c, d) /\ up' = (up /\ ~Refuses(c))

check_name(n) == SelectInSeq(clients, LAMBDA client : client.name = n)

-----------------------------------------------------------------------------
(* main: epoll_wait and message.  A RESULT is only printed. *)
message(kind) ==
  /\ up /\ msg = Nothing
  /\ \E i \in Arriving(kind, socket[kind]) :
       /\ \E rest \in {socket[kind], RemoveAt(socket[kind], i)} :
            /\ Read(kind, socket[kind], rest, i)
            /\ socket' = [socket EXCEPT ![kind] = rest]
       /\ msg' = IF socket[kind][i].type = "RESULT" THEN Nothing ELSE socket[kind][i]
  /\ UNCHANGED <<clients, clients_mutex, operation_counter, inbox, pingAt, termPc,
                 termAt, up, procs, sentTo>>

Handles(type) ==
  /\ up /\ msg.type = type /\ clients_mutex = "nobody"
  /\ msg' = Nothing
  /\ UNCHANGED <<clients_mutex, operation_counter, socket, pingAt, termPc, termAt,
                 procs, repeats, sentTo>>

Reply(type) == SendOrDie(msg.addr, Datagram(type, msg.addr, 0))

login_client_NoCheck ==
  /\ Handles("LOGIN")
  /\ clients' = Append(clients, [addr |-> msg.addr, name |-> name[msg.addr],
                                 is_inactive |-> 0])
  /\ Reply("SUCCESS")

login_client ==
  /\ Handles("LOGIN")
  /\ \/ /\ Len(clients) = CLIENT_MAX
        /\ Reply("WRONG_SIZE") /\ UNCHANGED clients
     \/ /\ Len(clients) # CLIENT_MAX /\ check_name(name[msg.addr]) # 0
        /\ Reply("WRONG_NAME") /\ UNCHANGED clients
     \/ /\ Len(clients) # CLIENT_MAX /\ check_name(name[msg.addr]) = 0
        /\ clients' = Append(clients, [addr |-> msg.addr, name |-> name[msg.addr],
                                       is_inactive |-> 0])
        /\ Reply("SUCCESS")

\* By name: it may be a namesake's.
logoutClient ==
  /\ Handles("LOGOUT")
  /\ clients' = IF check_name(name[msg.addr]) = 0 THEN clients
                ELSE RemoveAt(clients, check_name(name[msg.addr]))
  /\ UNCHANGED <<inbox, up>>

pong_Twice ==
  /\ Handles("PONG")
  /\ LET i == check_name(name[msg.addr])
     IN clients' = IF i = 0 THEN clients
                   ELSE [clients EXCEPT ![i].is_inactive = (@ + 254) % 256]
  /\ UNCHANGED <<inbox, up>>

\* is_inactive is a uint8_t.
pong ==
  /\ Handles("PONG")
  /\ LET i == check_name(name[msg.addr])
     IN clients' = IF i = 0 THEN clients
                   ELSE [clients EXCEPT ![i].is_inactive = (@ + 255) % 256]
  /\ UNCHANGED <<inbox, up>>

-----------------------------------------------------------------------------
(* ping_procedure. *)
Ping(i) ==
  /\ up /\ pingAt' = i
  /\ UNCHANGED <<operation_counter, socket, msg, termPc, termAt, procs, repeats, sentTo>>

PingLock ==
  /\ pingAt = 0 /\ clients_mutex = "nobody"
  /\ clients_mutex' = "ping"
  /\ Ping(1) /\ UNCHANGED <<clients, inbox, up>>

\* remove_client(i--): the next round of the loop looks at the same place.
PingRemoves ==
  /\ pingAt \in DOMAIN clients
  /\ clients[pingAt].is_inactive # 0
  /\ clients' = RemoveAt(clients, pingAt)
  /\ Ping(pingAt) /\ UNCHANGED <<clients_mutex, inbox, up>>

PingWrites ==
  /\ pingAt \in DOMAIN clients
  /\ clients[pingAt].is_inactive = 0
  /\ SendOrDie(clients[pingAt].addr, Datagram("PING", clients[pingAt].addr, 0))
  /\ clients' = [clients EXCEPT ![pingAt].is_inactive = 1]
  /\ Ping(pingAt + 1) /\ UNCHANGED clients_mutex

PingUnlock ==
  /\ pingAt = Len(clients) + 1 /\ pingAt # 0
  /\ clients_mutex' = "nobody"
  /\ Ping(0) /\ UNCHANGED <<clients, inbox, up>>

-----------------------------------------------------------------------------
(* terminal_procedure.  A line that is no order changes nothing. *)
Term(from, to) ==
  /\ up /\ termPc = from /\ termPc' = to
  /\ UNCHANGED <<clients, socket, msg, pingAt, up, procs, repeats>>

TermOrder_SameNumber ==
  /\ Term("fgets", "lock")
  /\ operation_counter < Earlier + MaxOrders
  /\ UNCHANGED <<operation_counter, clients_mutex, inbox, termAt, sentTo>>

TermOrder ==
  /\ Term("fgets", "lock")
  /\ operation_counter < Earlier + MaxOrders
  /\ operation_counter' = operation_counter + 1
  /\ UNCHANGED <<clients_mutex, inbox, termAt, sentTo>>

\* The "continue" of an order that finds no client: the mutex stays locked.
TermNobody ==
  /\ Term("lock", "fgets")
  /\ clients_mutex = "nobody" /\ clients = <<>>
  /\ clients_mutex' = "terminal"
  /\ UNCHANGED <<operation_counter, inbox, termAt, sentTo>>

TermWriteType_Unlocks ==
  /\ Term("lock", "operation_t")
  /\ clients_mutex = "nobody"
  /\ termAt' \in DOMAIN clients
  /\ Deliver(clients[termAt'].addr, Datagram("REQUEST", clients[termAt'].addr, 0))
  /\ UNCHANGED <<clients_mutex, operation_counter, sentTo>>

\* rand() % client_counter
TermWriteType ==
  /\ Term("lock", "operation_t")
  /\ clients_mutex = "nobody"
  /\ clients_mutex' = "terminal"
  /\ termAt' \in DOMAIN clients
  /\ Deliver(clients[termAt'].addr, Datagram("REQUEST", clients[termAt'].addr, 0))
  /\ UNCHANGED <<operation_counter, sentTo>>

TermWriteOperation ==
  /\ Term("operation_t", "fgets")
  /\ LET c == clients[termAt].addr
     IN /\ Deliver(c, Datagram("operation_t", c, operation_counter))
        /\ sentTo' = [n \in DOMAIN sentTo \cup {operation_counter} |->
                       IF n \in DOMAIN sentTo THEN sentTo[n] ELSE c]
  /\ clients_mutex' = "nobody"
  /\ UNCHANGED <<operation_counter, termAt>>

Server ==
  \/ message("LOCAL") \/ message("WEB") \/ login_client \/ logoutClient \/ pong
  \/ PingLock \/ PingRemoves \/ PingWrites \/ PingUnlock
  \/ TermOrder \/ TermNobody \/ TermWriteType \/ TermWriteOperation

-----------------------------------------------------------------------------
(* The client processes.  The model ends with the server. *)
At(c, from, to) ==
  up /\ pc[c] = from /\ pc' = [pc EXCEPT ![c] = to] /\ UNCHANGED <<server, name>>

\* send_msg
Send(c, type, n) ==
  socket' = [socket EXCEPT ![Kind(c)] = Append(@, Datagram(type, c, n))] /\ UNCHANGED repeats

Takes(c, i) ==
  /\ \E rest \in {inbox[c], RemoveAt(inbox[c], i)} :
       Read(Kind(c), inbox[c], rest, i) /\ inbox' = [inbox EXCEPT ![c] = rest]
  /\ UNCHANGED socket

login(c) == At(c, "login", "response") /\ Send(c, "LOGIN", 0) /\ UNCHANGED <<inbox, order>>

\* Anything but SUCCESS ends the client.
response(c) ==
  \E i \in Arriving(Kind(c), inbox[c]) :
    /\ At(c, "response", IF FirstByte(inbox[c][i]) = "SUCCESS" THEN "read" ELSE "exit")
    /\ Takes(c, i) /\ UNCHANGED order

\* The reading loop; a byte of no known type is skipped.
read(c) ==
  \E i \in Arriving(Kind(c), inbox[c]) :
    /\ At(c, "read", CASE FirstByte(inbox[c][i]) = "REQUEST" -> "calc"
                       [] FirstByte(inbox[c][i]) = "PING" -> "pong"
                       [] OTHER -> "read")
    /\ Takes(c, i) /\ UNCHANGED order

sendPong(c) == At(c, "pong", "read") /\ Send(c, "PONG", 0) /\ UNCHANGED <<inbox, order>>

\* A datagram that is no operation_t ends the client.
calc(c) ==
  \E i \in Arriving(Kind(c), inbox[c]) :
    /\ At(c, "calc", IF inbox[c][i].type = "operation_t" THEN "result" ELSE "exit")
    /\ order' = [order EXCEPT ![c] = inbox[c][i].operation]
    /\ Takes(c, i)

sendResult(c) ==
  /\ At(c, "result", "read") /\ Send(c, "RESULT", order[c])
  /\ order' = [order EXCEPT ![c] = 0] /\ UNCHANGED inbox

sigIntHandler(c) ==
  /\ pc[c] \notin {"exit", "gone"}
  /\ At(c, pc[c], "exit") /\ UNCHANGED <<socket, inbox, repeats, order>>

\* The LOGOUT of any exit, and the end of the socket.
funAtExit(c) ==
  /\ At(c, "exit", "gone") /\ Send(c, "LOGOUT", 0)
  /\ inbox' = [inbox EXCEPT ![c] = <<>>] /\ UNCHANGED order

\* SIGKILL: no LOGOUT is sent.
Killed(c) ==
  /\ pc[c] # "gone" /\ At(c, pc[c], "gone")
  /\ inbox' = [inbox EXCEPT ![c] = <<>>] /\ UNCHANGED <<socket, repeats, order>>

Client(c) ==
  \/ login(c) \/ response(c) \/ read(c) \/ sendPong(c) \/ calc(c) \/ sendResult(c)
  \/ sigIntHandler(c) \/ funAtExit(c) \/ Killed(c)

-----------------------------------------------------------------------------
Next == Server \/ \E c \in Procs : Client(c)

Spec == Init /\ [][Next]_vars

-----------------------------------------------------------------------------
(* What the programs should be right about. *)
Orders == 0..(Earlier + MaxOrders)
Datagrams == [type : Range(MessageTypes) \cup {"operation_t"}, addr : Procs,
              operation : Orders]

\* The state is what the declarations say, the list within its array.
TypeOK ==
  /\ Len(clients) <= CLIENT_MAX
  /\ Range(clients) \subseteq [addr : Procs, name : Names, is_inactive : 0..255]
  /\ clients_mutex \in {"nobody", "ping", "terminal"}
  /\ operation_counter \in Orders
  /\ \A kind \in {"LOCAL", "WEB"} : Range(socket[kind]) \subseteq Datagrams
  /\ \A c \in Procs : Range(inbox[c]) \subseteq Datagrams
  /\ msg \in Datagrams \cup {Nothing}
  /\ pingAt \in 0..(CLIENT_MAX + 1)
  /\ termPc \in {"fgets", "lock", "operation_t"} /\ termAt \in 1..CLIENT_MAX
  /\ up \in BOOLEAN /\ repeats \in 0..MaxRepeats
  /\ name \in [Procs -> Names]
  /\ pc \in [Procs -> {"login", "response", "read", "pong", "calc", "result", "exit", "gone"}]
  /\ order \in [Procs -> Orders]
  /\ DOMAIN sentTo \subseteq Orders /\ Range(sentTo) \subseteq Procs

Listed == {clients[i].addr : i \in DOMAIN clients}

\* A local client whose name no other process was given.
Sole == {c \in Local : \A d \in Procs \ {c} : name[d] # name[c]}

Count(queue, type, c) ==
  Cardinality({i \in DOMAIN queue : queue[i].type = type /\ queue[i].addr = c})

\* The pings to c that the server has not seen answered, wherever they are.
Outstanding(c) ==
  Count(inbox[c], "PING", c) + (IF pc[c] = "pong" THEN 1 ELSE 0)
  + Count(socket[Kind(c)], "PONG", c)
  + (IF msg.type = "PONG" /\ msg.addr = c THEN 1 ELSE 0)

\* No two places of the list have the same name or address, and each is under
\* the name of its process, though the network repeats and reorders LOGIN and
\* LOGOUT and places move while other threads wait (login_client, check_name).
TableAgrees ==
  /\ TypeOK
  /\ \A i, j \in DOMAIN clients : i # j =>
       clients[i].name # clients[j].name /\ clients[i].addr # clients[j].addr
  /\ \A i \in DOMAIN clients : clients[i].name = name[clients[i].addr]

\* A result for an order comes from the one client the order was sent to, even
\* when the order's datagram is repeated, or taken for a REQUEST by the value
\* of its first byte (terminal_procedure, calc).
AnsweredByAddressee ==
  \A kind \in {"LOCAL", "WEB"} : \A i \in DOMAIN socket[kind] :
    LET d == socket[kind][i]
    IN d.type = "RESULT" => d.operation \in DOMAIN sentTo /\ sentTo[d.operation] = d.addr

\* A local client never takes a datagram for what it is not: it finds an
\* answer to its LOGIN first, then PING and REQUEST, and after REQUEST its
\* operation_t, though two threads send to it (terminal_procedure keeps the
\* mutex between the two datagrams).
ClientsUnderstand ==
  \A c \in Local : inbox[c] # <<>> =>
    LET type == Head(inbox[c]).type
    IN CASE pc[c] = "response" -> type \in {"SUCCESS", "WRONG_NAME", "WRONG_SIZE"}
         [] pc[c] = "read" -> type \in {"PING", "REQUEST"}
         [] pc[c] = "calc" -> type = "operation_t"
         [] OTHER -> TRUE

\* A local client with a name of its own is taken off the list only when a
\* ping to it is unanswered or it has exited: nobody else's LOGOUT, late or
\* repeated, is taken for its own.
LeavesForCause ==
  [][\A c \in Sole : c \in Listed /\ c \notin Listed' =>
       Outstanding(c) > 0 \/ pc[c] \in {"exit", "gone"}]_vars
=============================================================================
