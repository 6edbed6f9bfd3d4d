--------------------------- MODULE CalcServerTcp ---------------------------
(***************************************************************************)
(* The calculator server of Operating-systems/lab10/zad1 over stream       *)
(* sockets: server.c with its three threads (the epoll loop of main,       *)
(* ping_procedure and terminal_procedure), and the processes of client.c   *)
(* that log in to it.                                                      *)
(*                                                                         *)
(* Every client process opens one connection, so a process also stands for *)
(* its socket, at both ends.  A message of send_msg is one token of the    *)
(* stream to the server, since a client writes the parts of a message one  *)
(* after the other; the server's threads write to the same sockets, so     *)
(* there every write is a token, and a step, of its own.  What a thread    *)
(* does to the list of clients between locking and unlocking clients_mutex *)
(* is one step.                                                            *)
(***************************************************************************)
EXTENDS Integers, Sequences, FiniteSets, SequencesExt

CONSTANTS
  Procs,        \* the processes that run client.c
  Names,        \* the names they may be given (argv[1])
  CLIENT_MAX,
  MaxOrders     \* bound: orders typed in at the server's terminal

ASSUME MaxAssumption == CLIENT_MAX \in Nat \ {0} /\ MaxOrders \in Nat
ASSUME NobodyAssumption == "nobody" \notin Procs

VARIABLES
  clients,           \* clients[0..client_counter-1]
  clients_mutex,     \* the thread that holds it, or "nobody"
  operation_counter,
  sock,              \* the server's end of each connection
  toServer, toClient, \* the streams of each connection
  mainPc, event, msg_type, \* main: where it is, the socket epoll_wait reported,
                     \* the type of the message it has read, or "none"
  pingPc, pingAt,    \* ping_procedure: where it is, its i (from 1)
  termPc, termAt,    \* terminal_procedure: where it is, its i (from 1)
  up,                \* the server process exists
  name, pc, order,   \* each client: its name, where it is, the order in hand
  closed,            \* each client: its end of the connection is closed
  sentTo, printed,   \* history: the addressee of each order or "nobody", results printed,
  sentLogin          \*          the processes that have sent their LOGIN

main == <<mainPc, event, msg_type>>
ping == <<pingPc, pingAt>>
term == <<termPc, termAt>>
threads == <<main, ping, term>>
procs == <<name, pc, order, closed>>
history == <<sentTo, printed, sentLogin>>
vars == <<clients, clients_mutex, operation_counter, sock, toServer, toClient,
          threads, up, procs, history>>

MessageTypes == {"LOGIN", "LOGOUT", "SUCCESS", "WRONG_SIZE", "WRONG_NAME",
                 "REQUEST", "RESULT", "PING", "PONG"}

\* What is in a stream: a message, or the operation_t that follows REQUEST.
\* RESULT carries its result_t; only the number of the operation matters.
Msg(type) == [type |-> type, operation |-> 0]
Result(n) == [type |-> "RESULT", operation |-> n]
Operation(n) == [type |-> "operation_t", operation |-> n]

Registered == {clients[i].fd : i \in DOMAIN clients}

-----------------------------------------------------------------------------
Init ==
  /\ clients = <<>>
  /\ clients_mutex = "nobody"
  /\ operation_counter = 0
  /\ sock = [c \in Procs |-> "none"]
  /\ toServer = [c \in Procs |-> <<>>]
  /\ toClient = [c \in Procs |-> <<>>]
  /\ mainPc = "epoll_wait" /\ event = "none" /\ msg_type = "none"
  /\ pingPc = "lock" /\ pingAt = 1
  /\ termPc = "fgets" /\ termAt = 1
  /\ up = TRUE
  /\ name \in [Procs -> Names]
  /\ pc = [c \in Procs |-> "init"]
  /\ order = [c \in Procs |-> 0]
  /\ closed = [c \in Procs |-> FALSE]
  /\ sentTo = [n \in 1..MaxOrders |-> "nobody"]
  /\ printed = {}
  /\ sentLogin = {}

\* print_err_ext_failure in any thread, and SIGPIPE, end the whole process.
Exit == up' = FALSE

\* A write to a connection the client has closed may still be taken (the
\* first one over TCP), or fail with EPIPE, which raises SIGPIPE first.
Write(c, token) ==
  \/ /\ toClient' = IF closed[c] THEN toClient
                    ELSE [toClient EXCEPT ![c] = Append(@, token)]
     /\ UNCHANGED up
  \/ closed[c] /\ Exit /\ UNCHANGED toClient

Lock(thread) == clients_mutex = "nobody" /\ clients_mutex' = thread
Unlock == clients_mutex' = "nobody"

\* check_name, from 1; 0 when there is no such client.
check_name(n) == SelectInSeq(clients, LAMBDA client : client.name = n)

\* remove_client without its close_socket.
Without(i) == RemoveAt(clients, i)

\* epoll_ctl(DEL), shutdown, close.  What the client sent and the server has
\* not read is lost with the socket.  shutdown fails if the client closed its
\* end with input unread: TCP has reset the connection (ENOTCONN).
close_socket(c) ==
  /\ sock' = [sock EXCEPT ![c] = "closed"]
  /\ toServer' = [toServer EXCEPT ![c] = <<>>]
  /\ UNCHANGED up \/ (closed[c] /\ Exit)

-----------------------------------------------------------------------------
(* main: the epoll loop. *)
MainGoes(from, to) == up /\ mainPc = from /\ mainPc' = to

\* connectFun, for an event on a listening socket.
connectFun(c) ==
  /\ MainGoes("epoll_wait", "epoll_wait")
  /\ sock[c] = "backlog"
  /\ sock' = [sock EXCEPT ![c] = "open"]
  /\ UNCHANGED <<clients, clients_mutex, operation_counter, toServer,
                 toClient, event, msg_type, ping, term, up, procs, history>>

EpollReports(c) == sock[c] = "open" /\ (toServer[c] # <<>> \/ closed[c])

epoll_wait(c) ==
  /\ MainGoes("epoll_wait", "message")
  /\ EpollReports(c)
  /\ event' = c
  /\ UNCHANGED <<clients, clients_mutex, operation_counter, sock, toServer,
                 toClient, msg_type, ping, term, up, procs, history>>

\* The message and its socket are local variables.
BackToEpoll == mainPc' = "epoll_wait" /\ event' = "none" /\ msg_type' = "none"

\* message: the ping thread may have closed the socket since epoll_wait.
message ==
  /\ up /\ mainPc = "message"
  /\ IF sock[event] # "open" \/ toServer[event] = <<>>
     THEN Exit /\ UNCHANGED <<toServer, main, printed>>
     ELSE LET msg == Head(toServer[event])
          IN /\ toServer' = [toServer EXCEPT ![event] = Tail(@)]
             /\ IF msg.type = "RESULT"
                THEN /\ BackToEpoll
                     /\ printed' = printed \cup {msg.operation}
                ELSE /\ mainPc' = "lock" /\ msg_type' = msg.type
                     /\ UNCHANGED <<event, printed>>
             /\ UNCHANGED up
  /\ UNCHANGED <<clients, clients_mutex, operation_counter, sock, toClient,
                 ping, term, procs, sentTo, sentLogin>>

MainLock ==
  /\ MainGoes("lock", "handle")
  /\ Lock("main")
  /\ UNCHANGED <<clients, operation_counter, sock, toServer, toClient, event,
                 msg_type, ping, term, up, procs, history>>

MainHandles(type) ==
  up /\ mainPc = "handle" /\ msg_type = type /\ Unlock /\ BackToEpoll

Reject(reply) ==
  /\ Write(event, Msg(reply))
  /\ close_socket(event)
  /\ UNCHANGED clients

loginClient_NoCheck ==
  /\ MainHandles("LOGIN")
  /\ IF Len(clients) = CLIENT_MAX
     THEN Reject("WRONG_SIZE")
     ELSE /\ clients' = Append(clients, [fd |-> event, name |-> name[event],
                                         is_inactive |-> 0])
          /\ Write(event, Msg("SUCCESS"))
          /\ UNCHANGED <<sock, toServer>>
  /\ UNCHANGED <<operation_counter, ping, term, procs, history>>

\* Puts the client in the list and leaves it waiting for its answer.
loginClient_Silent ==
  /\ MainHandles("LOGIN")
  /\ Len(clients) # CLIENT_MAX /\ check_name(name[event]) = 0
  /\ clients' = Append(clients, [fd |-> event, name |-> name[event], is_inactive |-> 0])
  /\ UNCHANGED <<operation_counter, sock, toServer, toClient, up, ping, term, procs, history>>

loginClient ==
  /\ MainHandles("LOGIN")
  /\ \/ Len(clients) = CLIENT_MAX /\ Reject("WRONG_SIZE")
     \/ /\ Len(clients) # CLIENT_MAX
        /\ check_name(name[event]) # 0
        /\ Reject("WRONG_NAME")
     \/ /\ Len(clients) # CLIENT_MAX
        /\ check_name(name[event]) = 0
        /\ clients' = Append(clients, [fd |-> event, name |-> name[event],
                                       is_inactive |-> 0])
        /\ Write(event, Msg("SUCCESS"))
        /\ UNCHANGED <<sock, toServer>>
  /\ UNCHANGED <<operation_counter, ping, term, procs, history>>

logoutClient_StaleCount ==
  /\ MainHandles("LOGOUT")
  /\ clients' = IF check_name(name[event]) # 0
                THEN SubSeq(clients, 1, Len(clients) - 1) ELSE clients
  /\ IF check_name(name[event]) # 0
     THEN close_socket(clients[check_name(name[event])].fd)
     ELSE UNCHANGED <<sock, toServer, up>>
  /\ UNCHANGED <<operation_counter, toClient, ping, term, procs, history>>

\* Returns from within the branch that found the client.
logoutClient_KeepsLock ==
  /\ up /\ mainPc = "handle" /\ msg_type = "LOGOUT" /\ BackToEpoll
  /\ LET i == check_name(name[event])
     IN IF i # 0
        THEN /\ clients' = Without(i)
             /\ close_socket(clients[i].fd)
             /\ UNCHANGED clients_mutex
        ELSE Unlock /\ UNCHANGED <<clients, sock, toServer, up>>
  /\ UNCHANGED <<operation_counter, toClient, ping, term, procs, history>>

logoutClient ==
  /\ MainHandles("LOGOUT")
  /\ LET i == check_name(name[event])
     IN IF i # 0
        THEN clients' = Without(i) /\ close_socket(clients[i].fd)
        ELSE UNCHANGED <<clients, sock, toServer, up>>
  /\ UNCHANGED <<operation_counter, toClient, ping, term, procs, history>>

pong_Ignored ==
  /\ MainHandles("PONG")
  /\ UNCHANGED <<clients, operation_counter, sock, toServer, toClient, ping, term, up, procs, history>>

\* is_inactive is a uint8_t.
pong ==
  /\ MainHandles("PONG")
  /\ LET i == check_name(name[event])
     IN clients' = IF i = 0 THEN clients
                   ELSE [clients EXCEPT ![i].is_inactive = (@ + 255) % 256]
  /\ UNCHANGED <<operation_counter, sock, toServer, toClient, ping, term, up, procs, history>>

Main ==
  \/ \E c \in Procs : connectFun(c) \/ epoll_wait(c)
  \/ message \/ MainLock \/ loginClient \/ logoutClient \/ pong

-----------------------------------------------------------------------------
(* ping_procedure.  Its sleep may take any time. *)
PingLock ==
  /\ up /\ pingPc = "lock"
  /\ Lock("ping")
  /\ pingPc' = "for"
  /\ UNCHANGED <<clients, operation_counter, sock, toServer, toClient, pingAt,
                 main, term, up, procs, history>>

PingAtClient ==
  up /\ pingPc = "for" /\ pingAt <= Len(clients) /\ UNCHANGED pingPc

PingRemoves_SkipsNext ==
  /\ PingAtClient
  /\ clients[pingAt].is_inactive # 0
  /\ close_socket(clients[pingAt].fd)
  /\ clients' = Without(pingAt)
  /\ pingAt' = pingAt + 1
  /\ UNCHANGED <<clients_mutex, operation_counter, toClient, main, term,
                 procs, history>>

\* remove_client(i--): the next round of the loop looks at the same place.
PingRemoves ==
  /\ PingAtClient
  /\ clients[pingAt].is_inactive # 0
  /\ close_socket(clients[pingAt].fd)
  /\ clients' = Without(pingAt)
  /\ UNCHANGED <<clients_mutex, operation_counter, toClient, main, pingAt,
                 term, procs, history>>

PingWrites ==
  /\ PingAtClient
  /\ clients[pingAt].is_inactive = 0
  /\ Write(clients[pingAt].fd, Msg("PING"))
  /\ clients' = [clients EXCEPT ![pingAt].is_inactive = (@ + 1) % 256]
  /\ pingAt' = pingAt + 1
  /\ UNCHANGED <<clients_mutex, operation_counter, sock, toServer, main, term,
                 procs, history>>

PingUnlock ==
  /\ up /\ pingPc = "for" /\ pingAt > Len(clients)
  /\ Unlock
  /\ pingPc' = "lock" /\ pingAt' = 1
  /\ UNCHANGED <<clients, operation_counter, sock, toServer, toClient, main,
                 term, up, procs, history>>

Ping == PingLock \/ PingRemoves \/ PingWrites \/ PingUnlock

-----------------------------------------------------------------------------
(* terminal_procedure.  A line that is no order changes nothing. *)
TermGoes(from, to) == up /\ termPc = from /\ termPc' = to

TermOrder ==
  /\ TermGoes("fgets", "lock")
  /\ operation_counter < MaxOrders
  /\ operation_counter' = operation_counter + 1
  /\ UNCHANGED <<clients, clients_mutex, sock, toServer, toClient, termAt,
                 main, ping, up, procs, history>>

TermLock ==
  /\ TermGoes("lock", "choose")
  /\ Lock("terminal")
  /\ UNCHANGED <<clients, operation_counter, sock, toServer, toClient, termAt,
                 main, ping, up, procs, history>>

\* The "continue" of an order that finds no client: the mutex stays locked.
TermNobody ==
  /\ TermGoes("choose", "fgets")
  /\ clients = <<>>
  /\ UNCHANGED <<clients, clients_mutex, operation_counter, sock, toServer,
                 toClient, termAt, main, ping, up, procs, history>>

\* rand() % client_counter
TermChoose ==
  /\ TermGoes("choose", "type")
  /\ termAt' \in DOMAIN clients
  /\ UNCHANGED <<clients, clients_mutex, operation_counter, sock, toServer,
                 toClient, main, ping, up, procs, history>>

TermWriteType_Unlocks ==
  /\ TermGoes("type", "operation_t")
  /\ Write(clients[termAt].fd, Msg("REQUEST"))
  /\ Unlock
  /\ UNCHANGED <<clients, operation_counter, sock, toServer, termAt, main,
                 ping, procs, history>>

TermWriteType ==
  /\ TermGoes("type", "operation_t")
  /\ Write(clients[termAt].fd, Msg("REQUEST"))
  /\ UNCHANGED <<clients, clients_mutex, operation_counter, sock, toServer,
                 termAt, main, ping, procs, history>>

TermWriteOperation_SendsAgain ==
  /\ TermGoes("operation_t", "choose")
  /\ Write(clients[termAt].fd, Operation(operation_counter))
  /\ sentTo' = [sentTo EXCEPT ![operation_counter] = clients[termAt].fd]
  /\ UNCHANGED <<clients, clients_mutex, operation_counter, sock, toServer,
                 termAt, main, ping, procs, printed, sentLogin>>

TermWriteOperation ==
  /\ TermGoes("operation_t", "unlock")
  /\ Write(clients[termAt].fd, Operation(operation_counter))
  /\ sentTo' = [sentTo EXCEPT ![operation_counter] = clients[termAt].fd]
  /\ UNCHANGED <<clients, clients_mutex, operation_counter, sock, toServer,
                 termAt, main, ping, procs, printed, sentLogin>>

TermUnlock ==
  /\ TermGoes("unlock", "fgets")
  /\ Unlock
  /\ termAt' = 1
  /\ UNCHANGED <<clients, operation_counter, sock, toServer, toClient, main,
                 ping, up, procs, history>>

Terminal ==
  \/ TermOrder \/ TermLock \/ TermNobody \/ TermChoose
  \/ TermWriteType \/ TermWriteOperation \/ TermUnlock

-----------------------------------------------------------------------------
(* The client processes.  The model ends with the server: then every client *)
(* reads the end of its connection and exits.                               *)
server == <<clients, clients_mutex, operation_counter, threads, up, sentTo,
            printed>>

ClientGoes(c, from, to) == up /\ pc[c] = from /\ pc' = [pc EXCEPT ![c] = to]

\* A client's write to a connection the server has closed reaches nobody.
Send(c, msg) ==
  toServer' = IF sock[c] = "closed" THEN toServer
              ELSE [toServer EXCEPT ![c] = Append(@, msg)]

init(c) ==
  /\ ClientGoes(c, "init", "login")
  /\ sock' = [sock EXCEPT ![c] = "backlog"]
  /\ UNCHANGED <<server, sentLogin, toServer, toClient, name, order, closed>>

login(c) ==
  /\ ClientGoes(c, "login", "response")
  /\ Send(c, Msg("LOGIN"))
  /\ sentLogin' = sentLogin \cup {c}
  /\ UNCHANGED <<server, sock, toClient, name, order, closed>>

Receives(c) ==
  up /\ toClient[c] # <<>> /\ toClient' = [toClient EXCEPT ![c] = Tail(@)]

\* Anything but SUCCESS ends the client.
response(c) ==
  /\ pc[c] = "response"
  /\ Receives(c)
  /\ pc' = [pc EXCEPT ![c] = IF Head(toClient[c]).type = "SUCCESS"
                             THEN "read" ELSE "exit"]
  /\ UNCHANGED <<server, sentLogin, sock, toServer, name, order, closed>>

\* The reading loop; a byte of no known type is skipped.
read(c) ==
  /\ pc[c] = "read"
  /\ Receives(c)
  /\ pc' = [pc EXCEPT ![c] = CASE Head(toClient[c]).type = "REQUEST" -> "calc"
                               [] Head(toClient[c]).type = "PING" -> "pong"
                               [] OTHER -> "read"]
  /\ UNCHANGED <<server, sentLogin, sock, toServer, name, order, closed>>

sendPong(c) ==
  /\ ClientGoes(c, "pong", "read")
  /\ Send(c, Msg("PONG"))
  /\ UNCHANGED <<server, sentLogin, sock, toClient, name, order, closed>>

\* calc reads sizeof(operation_t) bytes, whatever they are.
calc(c) ==
  /\ ClientGoes(c, "calc", "result")
  /\ Receives(c)
  /\ order' = [order EXCEPT ![c] = Head(toClient[c]).operation]
  /\ UNCHANGED <<server, sentLogin, sock, toServer, name, closed>>

sendResult(c) ==
  /\ ClientGoes(c, "result", "read")
  /\ Send(c, Result(order[c]))
  /\ order' = [order EXCEPT ![c] = 0]
  /\ UNCHANGED <<server, sentLogin, sock, toClient, name, closed>>

\* read returns 0: the server has closed the connection.
EndOfFile(c) ==
  /\ up
  /\ pc[c] \in {"response", "read", "calc"}
  /\ toClient[c] = <<>>
  /\ sock[c] = "closed"
  /\ pc' = [pc EXCEPT ![c] = "exit"]
  /\ UNCHANGED <<server, sentLogin, sock, toServer, toClient, name, order,
                 closed>>

\* SIGINT between two messages.
sigIntHandler(c) ==
  /\ up
  /\ pc[c] \in {"login", "response", "read", "pong", "calc", "result"}
  /\ pc' = [pc EXCEPT ![c] = "exit"]
  /\ UNCHANGED <<server, sentLogin, sock, toServer, toClient, name, order,
                 closed>>

\* What the client has not read goes with its socket.
Close(c) == closed' = [closed EXCEPT ![c] = TRUE]
            /\ toClient' = [toClient EXCEPT ![c] = <<>>]

funAtExit(c) ==
  /\ ClientGoes(c, "exit", "gone")
  /\ Send(c, Msg("LOGOUT"))
  /\ Close(c)
  /\ UNCHANGED <<server, sentLogin, sock, name, order>>

\* SIGKILL, or SIGPIPE: the kernel closes the socket, no LOGOUT is sent.
Killed(c) ==
  /\ up
  /\ pc[c] \notin {"init", "gone"}
  /\ pc' = [pc EXCEPT ![c] = "gone"]
  /\ Close(c)
  /\ UNCHANGED <<server, sentLogin, sock, toServer, name, order>>

Client(c) ==
  \/ init(c) \/ login(c) \/ response(c) \/ read(c) \/ sendPong(c) \/ calc(c)
  \/ sendResult(c) \/ EndOfFile(c) \/ sigIntHandler(c) \/ funAtExit(c) \/ Killed(c)

-----------------------------------------------------------------------------
Next == Main \/ Ping \/ Terminal \/ \E c \in Procs : Client(c)

Spec == Init /\ [][Next]_vars

-----------------------------------------------------------------------------
(* What the programs should be right about. *)
Tokens == [type : MessageTypes \cup {"operation_t"}, operation : 0..MaxOrders]

\* The state is what the declarations say; the counter of missed pings needs
\* no more than its lowest bit.
TypeOK ==
  /\ clients \in BoundedSeq([fd : Procs, name : Names, is_inactive : 0..1], CLIENT_MAX)
  /\ clients_mutex \in {"nobody", "main", "ping", "terminal"}
  /\ operation_counter \in 0..MaxOrders
  /\ sock \in [Procs -> {"none", "backlog", "open", "closed"}]
  /\ \A c \in Procs : Range(toServer[c]) \cup Range(toClient[c]) \subseteq Tokens
  /\ mainPc \in {"epoll_wait", "message", "lock", "handle"}
  /\ event \in Procs \cup {"none"} /\ msg_type \in {"none", "LOGIN", "LOGOUT", "PONG"}
  /\ pingPc \in {"lock", "for"} /\ pingAt \in 1..(CLIENT_MAX + 1)
  /\ termPc \in {"fgets", "lock", "choose", "type", "operation_t", "unlock"}
  /\ termAt \in 1..CLIENT_MAX
  /\ up \in BOOLEAN
  /\ name \in [Procs -> Names]
  /\ pc \in [Procs -> {"init", "login", "response", "read", "pong", "calc", "result",
                       "exit", "gone"}]
  /\ order \in [Procs -> 0..MaxOrders]
  /\ closed \in [Procs -> BOOLEAN]
  /\ sentTo \in [1..MaxOrders -> Procs \cup {"nobody"}]
  /\ printed \subseteq 1..MaxOrders /\ sentLogin \subseteq Procs

InLoop == {"read", "pong", "calc", "result"}
Has(stream, type) == \E i \in DOMAIN stream : stream[i].type = type
Count(stream, type) == Cardinality({i \in DOMAIN stream : stream[i].type = type})

\* The answer to its LOGIN says that c is in, whether or not it has read it yet.
Told(c) == pc[c] \in InLoop \/ Has(toClient[c], "SUCCESS")

\* Beside the types: the list of clients is what the clients believe.  Names
\* and sockets in it are distinct, every socket in it is open and goes with
\* its owner's name, whoever has been told SUCCESS on a connection the server
\* has not closed is in it, and nobody is in it who runs on without having
\* been told so (loginClient, logoutClient, remove_client).
SessionsAgree ==
  /\ TypeOK
  /\ \A i, j \in DOMAIN clients : i # j =>
       clients[i].name # clients[j].name /\ clients[i].fd # clients[j].fd
  /\ \A i \in DOMAIN clients : sock[clients[i].fd] = "open"
                               /\ clients[i].name = name[clients[i].fd]
  /\ up => \A c \in Procs : sock[c] = "open" =>
       /\ Told(c) => c \in Registered
       /\ c \in Registered /\ pc[c] \notin {"exit", "gone"} => Told(c)

\* A client never reads anything it does not expect, though three threads of
\* the server write to its socket: an answer to its LOGIN first, then PING
\* and REQUEST, and after REQUEST its whole operation_t (client.c: main, calc).
ClientsUnderstand ==
  \A c \in Procs : toClient[c] # <<>> =>
    LET type == Head(toClient[c]).type
    IN CASE pc[c] = "response" -> type \in {"SUCCESS", "WRONG_NAME", "WRONG_SIZE"}
         [] pc[c] = "read" -> type \in {"PING", "REQUEST"}
         [] pc[c] = "calc" -> type = "operation_t"
         [] OTHER -> TRUE

\* is_inactive counts the pings a client has not answered, wherever they or
\* their answers are; so only a client that left a ping unanswered for a whole
\* round is dropped, and the uint8_t never goes below 0.  And a round passes
\* over nobody, whoever it removes on the way (ping_procedure, pong).
InHand(type) == mainPc \in {"lock", "handle"} /\ msg_type = type

Unanswered(c) ==
  Count(toClient[c], "PING") + (IF pc[c] = "pong" THEN 1 ELSE 0)
  + Count(toServer[c], "PONG") + (IF InHand("PONG") /\ event = c THEN 1 ELSE 0)

InactiveCountsPings ==
  up => /\ pingPc = "for" => \A i \in DOMAIN clients : i < pingAt => clients[i].is_inactive # 0
        /\ \A i \in DOMAIN clients :
          LET c == clients[i].fd
          IN IF pc[c] \in InLoop \cup {"response"}
             THEN clients[i].is_inactive = Unanswered(c)
             ELSE clients[i].is_inactive >= Unanswered(c)

\* An order is carried out once, by the client it was sent to: its number is
\* in one place, and that is the connection of the addressee.
Places(n) ==
  {<<"asked", c>> : c \in {d \in Procs : Operation(n) \in Range(toClient[d])}}
  \cup {<<"calc", c>> : c \in {d \in Procs : order[d] = n}}
  \cup {<<"answered", c>> : c \in {d \in Procs : Result(n) \in Range(toServer[d])}}
  \cup {<<"printed", sentTo[n]>> : m \in {n} \cap printed}

OrdersAnsweredOnce ==
  \A n \in 1..MaxOrders : /\ Cardinality(Places(n)) <= 1
                          /\ \A place \in Places(n) : place[2] = sentTo[n]

\* A client is taken off the list because it missed a ping, or by the LOGOUT
\* on its own connection.  The one exception: a process of the same name that
\* was interrupted between connecting and sending LOGIN (client.c sends LOGOUT
\* from atexit whether it has logged in or not).
LeavesForCause ==
  [][\A i \in DOMAIN clients :
       clients[i].fd \notin {clients'[j].fd : j \in DOMAIN clients'} =>
         \/ pingPc = "for" /\ i = pingAt /\ clients[i].is_inactive # 0
         \/ InHand("LOGOUT") /\ event = clients[i].fd
         \/ InHand("LOGOUT") /\ event \notin sentLogin /\ pc[event] = "gone"]_vars

-----------------------------------------------------------------------------
(* Liveness.  epoll_wait reports ready sockets in turn, and the other threads *)
(* sleep or wait for input after unlocking, so main gets the mutex in time.   *)
Fairness ==
  /\ \A c \in Procs : /\ SF_vars(connectFun(c) \/ epoll_wait(c))
                      /\ WF_vars(response(c) \/ EndOfFile(c) \/ funAtExit(c))
  /\ WF_vars(message \/ loginClient \/ logoutClient \/ pong) /\ SF_vars(MainLock)
  /\ WF_vars(PingRemoves \/ PingWrites \/ PingUnlock)
  /\ WF_vars(TermNobody \/ TermChoose \/ TermWriteType \/ TermWriteOperation \/ TermUnlock)

FairSpec == Spec /\ Fairness

\* The terminal thread kept the mutex after an order that found no client.
TerminalKeepsMutex == clients_mutex = "terminal" /\ termPc \in {"fgets", "lock"}

\* A process that has sent LOGIN is answered, or the server is gone, unless an
\* order was given while nobody was logged in: the "continue" of
\* terminal_procedure leaves clients_mutex locked for ever.
LoginAnswered ==
  \A c \in Procs : pc[c] = "response" ~> (pc[c] # "response" \/ ~up \/ TerminalKeepsMutex)
=============================================================================
