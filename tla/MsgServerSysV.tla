--------------------------- MODULE MsgServerSysV ---------------------------
(***************************************************************************)
(* The request server of Operating-systems/lab6/zad1 over System V message *)
(* queues: server.c, and the processes of client.c.  Every client has a    *)
(* queue of its own, so a process stands for its queue; the server answers *)
(* to the queue it finds in its table under the id the client sends along. *)
(*                                                                         *)
(* The server is one thread and every handler makes at most one msgsnd, so *)
(* taking a message and handling it is one step.                           *)
(***************************************************************************)
EXTENDS Integers, Sequences, FiniteSets

CONSTANTS
  Procs,         \* the processes that run client.c
  MAX_CLIENTS,
  MaxRequests,   \* bound: commands in a client's file
  Nobody         \* no process: the -1 of a free place in the table

ASSUME MaxAssumption == MAX_CLIENTS \in Nat \ {0} /\ MaxRequests \in Nat
ASSUME NobodyAssumption == Nobody \notin Procs

VARIABLES
  clients,       \* the table of the server: a queue for each id
  up,            \* the server process exists
  serverQ, open, \* its queue, and whether msgctl(IPC_RMID) has not removed it
  queue,         \* each client's queue
  pc,            \* where each client is
  clientId,      \* the id each client was given, or -1
  nr,            \* the number of its current command
  zero           \* whose queue has the identifier 0

vars == <<clients, up, serverQ, open, queue, pc, clientId, nr, zero>>

Ids == 0..(MAX_CLIENTS - 1)

\* A request carries what struct msgbuf1 does; nr stands for its text.
Request(mtype, c) ==
  [mtype |-> mtype, client |-> c, clientId |-> clientId[c], nr |-> nr[c]]

\* What a reply says: the id in an answer to INTRODUCE, else which request of
\* which client the text answers.
Answer(mtype, c, n, id) == [mtype |-> mtype, client |-> c, nr |-> n, id |-> id]

Commands == {"MIRROR", "CALC", "TIME"}

-----------------------------------------------------------------------------
Init ==
  /\ clients = [id \in Ids |-> Nobody]
  /\ up = TRUE
  /\ serverQ = <<>> /\ open = TRUE
  /\ queue = [c \in Procs |-> <<>>]
  /\ pc = [c \in Procs |-> "start"]
  /\ clientId = [c \in Procs |-> -1]
  /\ nr = [c \in Procs |-> 0]
  /\ zero \in Procs \cup {"server", Nobody}

\* A client's queue exists from its start until removeQAtExit.
HasQueue(c) == c \in Procs /\ pc[c] \in {"introduced", "ready", "waiting"}

\* msgsnd fails if the queue is gone, or was never there.
Post(c, message) ==
  queue' = IF HasQueue(c) THEN [queue EXCEPT ![c] = Append(@, message)] ELSE queue

-----------------------------------------------------------------------------
(* The server. *)
FreeIds == {id \in Ids : clients[id] = Nobody}
FirstFree == CHOOSE id \in FreeIds : \A other \in FreeIds : id <= other

\* Gives the place and keeps the answer.
Register_Silent(message) ==
  /\ FreeIds # {}
  /\ clients' = IF HasQueue(message.client)
                THEN [clients EXCEPT ![FirstFree] = message.client] ELSE clients
  /\ UNCHANGED queue
  /\ serverQ' = Tail(serverQ)

\* A client that has gone cannot be answered: its place is free again.
Register(message) ==
  /\ FreeIds # {}
  /\ clients' = IF HasQueue(message.client)
                THEN [clients EXCEPT ![FirstFree] = message.client] ELSE clients
  /\ Post(message.client, Answer("REPLY", message.client, 0, FirstFree))
  /\ serverQ' = Tail(serverQ)

\* The text "Queue full" is written over the identifier of the client's queue
\* before that is read: the message goes to queue 0.
Refuse(message) ==
  /\ FreeIds = {}
  /\ Post(zero, Answer("ERROR", message.client, 0, -1))
  /\ serverQ' = IF zero = "server"
                THEN Append(Tail(serverQ), [message EXCEPT !.mtype = "ERROR"])
                ELSE Tail(serverQ)
  /\ UNCHANGED clients

new_client_LastPlace(message) ==
  /\ clients' = [clients EXCEPT ![MAX_CLIENTS - 1] = message.client]
  /\ Post(message.client, Answer("REPLY", message.client, 0, MAX_CLIENTS - 1))
  /\ serverQ' = Tail(serverQ)
  /\ UNCHANGED up

new_client(message) ==
  (Register(message) \/ Refuse(message)) /\ UNCHANGED up

delete_client_Ignored(message) ==
  serverQ' = Tail(serverQ) /\ UNCHANGED <<clients, queue, up>>

delete_client(message) ==
  /\ clients' = IF message.clientId \in Ids
                THEN [clients EXCEPT ![message.clientId] = Nobody] ELSE clients
  /\ serverQ' = Tail(serverQ)
  /\ UNCHANGED <<queue, up>>

\* mirror_fun, time_fun and calc answer the queue in the table; calc sends
\* ERROR for a statement it cannot read.
Respond_ToNeighbour(message) ==
  /\ Post(clients[(message.clientId + 1) % MAX_CLIENTS],
          Answer("REPLY", message.client, message.nr, -1))
  /\ serverQ' = Tail(serverQ)
  /\ UNCHANGED <<clients, up>>

Respond_Drops(message) ==
  serverQ' = Tail(serverQ) /\ UNCHANGED <<queue, clients, up>>

Respond(message) ==
  /\ \E mtype \in (IF message.mtype = "CALC" THEN {"REPLY", "ERROR"} ELSE {"REPLY"}) :
       Post(clients[message.clientId], Answer(mtype, message.client, message.nr, -1))
  /\ serverQ' = Tail(serverQ)
  /\ UNCHANGED <<clients, up>>

\* calc divides by 0, or compares a word that is missing: the process is
\* killed by a signal, and its queue is not removed.
CalcCrashes(message) ==
  /\ message.mtype = "CALC"
  /\ up' = FALSE
  /\ serverQ' = Tail(serverQ)
  /\ UNCHANGED <<clients, queue>>

\* exit(): removeQAtExit takes the messages nobody has read with the queue.
End == /\ up' = FALSE /\ serverQ' = <<>> /\ open' = FALSE
       /\ UNCHANGED <<clients, queue>>

\* A message of another type, such as its own ERROR, is only printed.
Unrecognized == serverQ' = Tail(serverQ) /\ UNCHANGED <<clients, queue, up>>

Handle(message) ==
  \/ message.mtype = "END" /\ End
  \/ /\ \/ message.mtype = "INTRODUCE" /\ new_client(message)
        \/ message.mtype \in Commands /\ (Respond(message) \/ CalcCrashes(message))
        \/ message.mtype = "STOP" /\ delete_client(message)
        \/ message.mtype = "ERROR" /\ Unrecognized
     /\ UNCHANGED open

ServerReceives ==
  up /\ serverQ # <<>> /\ Handle(Head(serverQ)) /\ UNCHANGED <<pc, clientId, nr, zero>>

\* handlerINT of the server.
ServerInterrupted == up /\ End /\ UNCHANGED <<pc, clientId, nr, zero>>

-----------------------------------------------------------------------------
(* A client. *)
server == <<clients, up, open, zero>>

Goes(c, from, to) == pc[c] = from /\ pc' = [pc EXCEPT ![c] = to]

\* exit(): its queue is removed.
Leaves(c, to) ==
  pc' = [pc EXCEPT ![c] = to] /\ queue' = [queue EXCEPT ![c] = <<>>]

\* msgget and msgsnd find the queue of the server, even one left by a crash.
Connect(c) ==
  /\ Goes(c, "start", "introduced")
  /\ open
  /\ serverQ' = Append(serverQ, Request("INTRODUCE", c))
  /\ UNCHANGED <<server, queue, clientId, nr>>

Introduced(c) ==
  /\ pc[c] = "introduced"
  /\ queue[c] # <<>>
  /\ LET message == Head(queue[c])
     IN IF message.mtype = "REPLY"
        THEN /\ clientId' = [clientId EXCEPT ![c] = message.id]
             /\ pc' = [pc EXCEPT ![c] = "ready"]
             /\ queue' = [queue EXCEPT ![c] = Tail(@)]
        ELSE Leaves(c, "refused") /\ UNCHANGED clientId
  /\ UNCHANGED <<server, serverQ, nr>>

SendCommand(c, mtype) ==
  /\ Goes(c, "ready", "waiting")
  /\ nr[c] < MaxRequests
  /\ open
  /\ nr' = [nr EXCEPT ![c] = @ + 1]
  /\ serverQ' = Append(serverQ, [Request(mtype, c) EXCEPT !.nr = nr[c] + 1])
  /\ UNCHANGED <<server, queue, clientId>>

ReceiveAnswer(c) ==
  /\ Goes(c, "waiting", "ready")
  /\ queue[c] # <<>>
  /\ queue' = [queue EXCEPT ![c] = Tail(@)]
  /\ UNCHANGED <<server, serverQ, clientId, nr>>

SendEnd(c) ==
  /\ pc[c] = "ready"
  /\ open
  /\ serverQ' = Append(serverQ, Request("END", c))
  /\ Leaves(c, "ended")
  /\ UNCHANGED <<server, clientId, nr>>

\* The end of the file.
SendStop(c) ==
  /\ pc[c] = "ready"
  /\ open
  /\ serverQ' = Append(serverQ, Request("STOP", c))
  /\ Leaves(c, "stopped")
  /\ UNCHANGED <<server, clientId, nr>>

\* msgget or msgsnd finds no queue of the server.
NoServer(c) ==
  /\ pc[c] \in {"start", "ready"}
  /\ ~open
  /\ Leaves(c, "ended")
  /\ UNCHANGED <<server, serverQ, clientId, nr>>

\* handlerINT of a client: no STOP is sent.
Interrupted(c) ==
  /\ HasQueue(c)
  /\ Leaves(c, "interrupted")
  /\ UNCHANGED <<server, serverQ, clientId, nr>>

Client(c) ==
  \/ Connect(c) \/ Introduced(c) \/ ReceiveAnswer(c) \/ SendEnd(c) \/ SendStop(c)
  \/ (\E mtype \in Commands : SendCommand(c, mtype)) \/ NoServer(c) \/ Interrupted(c)

-----------------------------------------------------------------------------
Next == ServerReceives \/ ServerInterrupted \/ \E c \in Procs : Client(c)

Spec == Init /\ [][Next]_vars

\* The server is scheduled and every client reads what it is sent; nobody need
\* send a command, stop or be interrupted.
Fairness == WF_vars(ServerReceives)
            /\ \A c \in Procs : WF_vars(Introduced(c)) /\ WF_vars(ReceiveAnswer(c))

FairSpec == Spec /\ Fairness
-----------------------------------------------------------------------------
(* What the programs should be right about. *)
Requests(c) == {i \in DOMAIN serverQ : up /\ serverQ[i].client = c}

TypeOK ==
  /\ clients \in [Ids -> Procs \cup {Nobody}]
  /\ up \in BOOLEAN /\ open \in BOOLEAN
  /\ \A i \in DOMAIN serverQ :
       serverQ[i] \in [mtype : Commands \cup {"INTRODUCE", "STOP", "END", "ERROR"},
                       client : Procs, clientId : {-1} \cup Ids, nr : 0..MaxRequests]
  /\ \A c \in Procs : \A i \in DOMAIN queue[c] :
       queue[c][i] \in [mtype : {"REPLY", "ERROR"}, client : Procs,
                        nr : 0..MaxRequests, id : {-1} \cup Ids]
  /\ pc \in [Procs -> {"start", "introduced", "ready", "waiting", "refused",
                       "stopped", "ended", "interrupted"}]
  /\ clientId \in [Procs -> {-1} \cup Ids]
  /\ nr \in [Procs -> 0..MaxRequests]
  /\ zero \in Procs \cup {"server", Nobody}

\* The table gives each client its own place for as long as it lives: no
\* place is given to a newcomer while its owner, or the owner's STOP, is still
\* to come (new_client, delete_client).
TableAgrees ==
  /\ TypeOK
  /\ \A id, other \in Ids : clients[id] = clients[other] /\ id # other =>
                              clients[id] = Nobody
  /\ up => \A c \in Procs : pc[c] \in {"ready", "waiting"} => clients[clientId[c]] = c

\* A client reads the answer to the command it has just sent, and nothing else
\* is ever in its queue. The exception is the process whose queue has the
\* identifier 0: it gets the refusals of others (new_client), takes them for
\* its answers, and is one answer behind from then on.
AnswersAreOwn ==
  \A c \in Procs \ {zero} :
    /\ Len(queue[c]) <= 1
    /\ queue[c] # <<>> => /\ pc[c] \in {"introduced", "waiting"}
                          /\ queue[c][1].client = c /\ queue[c][1].nr = nr[c]

\* A place in the table comes back when its client goes: its STOP is on the
\* way. Only a client ended by a signal (or by the refusal of another, in
\* queue 0) keeps its place for ever, and one that shuts the server down.
PlacesComeBack ==
  up => \A id \in Ids :
          LET c == clients[id]
          IN \/ c = Nobody \/ HasQueue(c)
             \/ pc[c] = "interrupted" \/ c = zero
             \/ pc[c] \in {"stopped", "ended"} /\ Requests(c) # {}

Introducing(c) == \E i \in Requests(c) : serverQ[i].mtype = "INTRODUCE"

\* Its introduction has been handled, and others have all the places.
TurnedAway(c) == ~Introducing(c) /\ \A id \in Ids : clients[id] \notin {c, Nobody}

\* A client is never left waiting by a server that is up: a command is answered,
\* and so is an introduction that has reached the server, unless it found a
\* table that others fill.
EveryoneAnswered ==
  \A c \in Procs :
    /\ pc[c] = "waiting" ~> (pc[c] # "waiting" \/ ~up)
    /\ pc[c] = "introduced" /\ Introducing(c) ~>
         (pc[c] # "introduced" \/ ~up \/ TurnedAway(c))
=============================================================================
