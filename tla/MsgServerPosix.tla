--------------------------- MODULE MsgServerPosix ---------------------------
(***************************************************************************)
(* The request server of Operating-systems/lab6/zad2 over POSIX message    *)
(* queues: every run of server.c on this machine, and the processes of     *)
(* client.c.  Unlike in zad1 a queue outlives its name: a process that has *)
(* opened it goes on using it, and a message has a priority.               *)
(*                                                                         *)
(* The server is one thread and a handler makes at most one mq_send, so    *)
(* taking a message and handling it is one step.                           *)
(***************************************************************************)
EXTENDS Integers, Sequences, FiniteSets, SequencesExt

CONSTANTS
  Servers,      \* the runs of server.c
  Procs,        \* the processes that run client.c, each with a queue of its own
  MAX_CLIENTS,
  MaxMsg,       \* what a queue holds: mq_maxmsg, 10 on Linux
  MaxRequests,  \* bound: commands in a client's file
  Nobody        \* no process

ASSUME SizesAssumption ==
  MAX_CLIENTS \in Nat \ {0} /\ MaxMsg \in Nat \ {0, 1} /\ MaxRequests \in Nat
ASSUME NobodyAssumption == Nobody \notin Procs \cup Servers

VARIABLES
  name,         \* whose queue "/server" is
  st,           \* where each server is
  clients,      \* the table of each server: a client's queue for each id
  serverQ,      \* the queue of each server, the next message first
  srv,          \* the server whose queue each client has opened
  queue,        \* each client's queue
  pc,           \* where each client is
  clientId,     \* the id each client was given, or -1
  nr            \* the number of its current command

vars == <<name, st, clients, serverQ, srv, queue, pc, clientId, nr>>
server == <<name, st, clients>>

Ids == 0..(MAX_CLIENTS - 1)
\* TIME is answered as MIRROR is.
Commands == {"MIRROR", "CALC"}

Request(mtype, c) ==
  [mtype |-> mtype, client |-> c, clientId |-> clientId[c], nr |-> nr[c]]

\* A client takes its id from the answer to INTRODUCE; the text of another
\* answer is told apart by the command it answers.
Answer(c, n, id) == [client |-> c, nr |-> n, id |-> id]

Init ==
  /\ name = Nobody
  /\ st = [s \in Servers |-> "new"]
  /\ clients = [s \in Servers |-> [id \in Ids |-> Nobody]]
  /\ serverQ = [s \in Servers |-> <<>>]
  /\ srv = [c \in Procs |-> Nobody]
  /\ queue = [c \in Procs |-> <<>>]
  /\ pc = [c \in Procs |-> "new"]
  /\ clientId = [c \in Procs |-> -1]
  /\ nr = [c \in Procs |-> 0]

-----------------------------------------------------------------------------
(* The server. *)

Exits_KeepsName(s) == st' = [st EXCEPT ![s] = "ended"] /\ UNCHANGED name

\* exit(), after END, a SIGINT or an error: removeQAtExit removes the name,
\* whosever queue it is.
Exits(s) == st' = [st EXCEPT ![s] = "ended"] /\ name' = Nobody

\* mq_open with O_EXCL fails if the name is there, because a server is running
\* or has crashed.
StartServer(s) ==
  /\ st[s] = "new"
  /\ IF name = Nobody THEN st' = [st EXCEPT ![s] = "up"] /\ name' = s
                      ELSE st' = [st EXCEPT ![s] = "refused"] /\ UNCHANGED name
  /\ UNCHANGED <<clients, serverQ, srv, queue, pc, clientId, nr>>

\* The name of a client's queue is there from its start until removeQAtExit.
HasName(c) == pc[c] \in {"opened", "introduced", "ready", "waiting", "exiting"}

\* mq_send on an open descriptor: also to a queue that has lost its name.
Post(c, message) ==
  queue' = IF c = Nobody THEN queue ELSE [queue EXCEPT ![c] = Append(@, message)]

FreeIds(s) == {id \in Ids : clients[s][id] = Nobody}
FirstFree(s) == CHOOSE id \in FreeIds(s) : \A other \in FreeIds(s) : id <= other

Register_LastPlace(s, c) ==
  /\ clients' = [clients EXCEPT ![s][MAX_CLIENTS - 1] = c]
  /\ Post(c, Answer(c, 0, MAX_CLIENTS - 1))
  /\ UNCHANGED <<name, st>>

Register_Silent(s, c) ==
  /\ FreeIds(s) # {}
  /\ clients' = [clients EXCEPT ![s][FirstFree(s)] = c]
  /\ UNCHANGED <<name, st, queue>>

Register(s, c) ==
  /\ FreeIds(s) # {}
  /\ clients' = [clients EXCEPT ![s][FirstFree(s)] = c]
  /\ Post(c, Answer(c, 0, FirstFree(s)))
  /\ UNCHANGED <<name, st>>

\* "Queue full" is sent to clients[MAX_CLIENTS].  The word after the calloc'd
\* table is the size of the next block of the heap, which is no descriptor.
Refuse(s) == FreeIds(s) = {} /\ UNCHANGED <<server, queue>>

\* mq_open fails for a client that has gone: the server exits.
new_client(s, message) ==
  \/ HasName(message.client) /\ (Register(s, message.client) \/ Refuse(s))
  \/ ~HasName(message.client) /\ Exits(s) /\ UNCHANGED <<clients, queue>>

delete_client(s, message) ==
  clients' = [clients EXCEPT ![s][message.clientId] = Nobody] /\ UNCHANGED <<name, st, queue>>

\* mirror_fun, time_fun and calc answer the queue in the table; a place that
\* is free makes mq_send fail.
Respond_Twice(s, message) ==
  /\ LET c == clients[s][message.clientId]
         answer == Answer(message.client, message.nr, -1)
     IN queue' = IF c = Nobody THEN queue
                 ELSE [queue EXCEPT ![c] = @ \o <<answer, answer>>]
  /\ UNCHANGED server

Respond_Drops(s, message) == UNCHANGED <<server, queue>>

Respond(s, message) ==
  /\ Post(clients[s][message.clientId], Answer(message.client, message.nr, -1))
  /\ UNCHANGED server

\* calc divides by 0 or compares a word that is missing: the name stays.
CalcCrashes(s) ==
  st' = [st EXCEPT ![s] = "crashed"] /\ UNCHANGED <<name, clients, queue>>

Handle(s, message) ==
  \/ message.mtype = "INTRODUCE" /\ new_client(s, message)
  \/ message.mtype \in Commands /\ Respond(s, message)
  \/ message.mtype = "CALC" /\ CalcCrashes(s)
  \/ message.mtype = "STOP" /\ delete_client(s, message)
  \/ message.mtype = "END" /\ Exits(s) /\ UNCHANGED <<clients, queue>>

ServerReceives(s) ==
  /\ st[s] = "up"
  /\ serverQ[s] # <<>>
  /\ Handle(s, Head(serverQ[s]))
  /\ serverQ' = [serverQ EXCEPT ![s] = Tail(@)]
  /\ UNCHANGED <<srv, pc, clientId, nr>>

\* handlerINT removes the name before it calls exit, which removes it again.
ServerInterrupted(s) ==
  /\ st[s] \in {"up", "refused"}
  /\ st' = [st EXCEPT ![s] = "interrupted"]
  /\ name' = Nobody
  /\ UNCHANGED <<clients, serverQ, srv, queue, pc, clientId, nr>>

\* The exit of a server that has found the name taken, or was interrupted: the
\* name may stand for another server by now.
ServerExits(s) ==
  /\ st[s] \in {"refused", "interrupted"}
  /\ Exits(s)
  /\ UNCHANGED <<clients, serverQ, srv, queue, pc, clientId, nr>>

-----------------------------------------------------------------------------
(* A client. *)
Goes(c, from, to) == pc[c] = from /\ pc' = [pc EXCEPT ![c] = to]

Priority(message) == IF message.mtype = "STOP" THEN 1 ELSE 0

\* mq_receive takes the oldest of the messages with the highest priority.
Insert(q, message) ==
  LET NotBelow == {i \in DOMAIN q : Priority(q[i]) >= Priority(message)}
  IN InsertAt(q, Cardinality(NotBelow) + 1, message)

\* mq_send waits while the queue is full, even if its server is no more.
Send(c, message) ==
  /\ Len(serverQ[srv[c]]) < MaxMsg
  /\ serverQ' = [serverQ EXCEPT ![srv[c]] = Insert(@, message)]

\* Without "/server" the client fails before it has a queue.
Open(c) ==
  /\ Goes(c, "new", IF name = Nobody THEN "gone" ELSE "opened")
  /\ srv' = [srv EXCEPT ![c] = name]
  /\ UNCHANGED <<server, serverQ, queue, clientId, nr>>

Introduce(c) ==
  /\ Goes(c, "opened", "introduced")
  /\ Send(c, Request("INTRODUCE", c))
  /\ UNCHANGED <<server, srv, queue, clientId, nr>>

\* No ERROR comes here (Refuse).
Introduced(c) ==
  /\ Goes(c, "introduced", "ready")
  /\ queue[c] # <<>>
  /\ clientId' = [clientId EXCEPT ![c] = Head(queue[c]).id]
  /\ queue' = [queue EXCEPT ![c] = Tail(@)]
  /\ UNCHANGED <<server, serverQ, srv, nr>>

SendCommand(c) ==
  /\ Goes(c, "ready", "waiting")
  /\ nr[c] < MaxRequests
  /\ nr' = [nr EXCEPT ![c] = @ + 1]
  /\ \E mtype \in Commands :
       Send(c, [Request(mtype, c) EXCEPT !.nr = nr[c] + 1])
  /\ UNCHANGED <<server, srv, queue, clientId>>

ReceiveAnswer(c) ==
  /\ Goes(c, "waiting", "ready")
  /\ queue[c] # <<>>
  /\ queue' = [queue EXCEPT ![c] = Tail(@)]
  /\ UNCHANGED <<server, serverQ, srv, clientId, nr>>

SendEnd(c) ==
  /\ Goes(c, "ready", "exiting")
  /\ Send(c, Request("END", c))
  /\ UNCHANGED <<server, srv, queue, clientId, nr>>

\* handlerINT, and the end of the file.
Leave(c) ==
  /\ \E from \in {"opened", "introduced", "ready", "waiting"} : Goes(c, from, "exiting")
  /\ UNCHANGED <<server, serverQ, srv, queue, clientId, nr>>

removeQAtExit_Silent(c) ==
  Goes(c, "exiting", "gone") /\ UNCHANGED <<server, serverQ, srv, queue, clientId, nr>>

removeQAtExit(c) ==
  /\ Goes(c, "exiting", "gone")
  /\ IF clientId[c] # -1 THEN Send(c, Request("STOP", c)) ELSE UNCHANGED serverQ
  /\ UNCHANGED <<server, srv, queue, clientId, nr>>

Client(c) ==
  \/ Open(c) \/ Introduce(c) \/ Introduced(c) \/ SendCommand(c) \/ ReceiveAnswer(c)
  \/ SendEnd(c) \/ Leave(c) \/ removeQAtExit(c)

-----------------------------------------------------------------------------
Next ==
  \/ \E s \in Servers :
       StartServer(s) \/ ServerReceives(s) \/ ServerInterrupted(s) \/ ServerExits(s)
  \/ \E c \in Procs : Client(c)

Spec == Init /\ [][Next]_vars

\* A server that is up reads its queue and a client reads its own and sends
\* what it has begun to; nobody need be started, send a command or be
\* interrupted.
Fairness ==
  /\ \A s \in Servers : WF_vars(ServerReceives(s))
  /\ \A c \in Procs : WF_vars(Introduce(c) \/ Introduced(c) \/ ReceiveAnswer(c)
                                \/ removeQAtExit(c))

FairSpec == Spec /\ Fairness
-----------------------------------------------------------------------------
(* What the programs should be right about. *)
TypeOK ==
  /\ name \in Servers \cup {Nobody}
  /\ st \in [Servers -> {"new", "up", "interrupted", "ended", "crashed", "refused"}]
  /\ clients \in [Servers -> [Ids -> Procs \cup {Nobody}]]
  /\ \A s \in Servers : \A i \in DOMAIN serverQ[s] :
       serverQ[s][i] \in [mtype : Commands \cup {"INTRODUCE", "STOP", "END"},
                          client : Procs, clientId : {-1} \cup Ids, nr : 0..MaxRequests]
  /\ \A c \in Procs : \A i \in DOMAIN queue[c] :
       queue[c][i] \in [client : Procs, nr : 0..MaxRequests, id : {-1} \cup Ids]
  /\ srv \in [Procs -> Servers \cup {Nobody}]
  /\ pc \in [Procs -> {"new", "opened", "introduced", "ready", "waiting", "exiting", "gone"}]
  /\ clientId \in [Procs -> {-1} \cup Ids]
  /\ nr \in [Procs -> 0..MaxRequests]

\* "/server" names a queue somebody reads, or that of a server that crashed.  A
\* server that is up can lose its name only to another one that came and went,
\* and without such a one there are not two servers.
NameForCause ==
  /\ name # Nobody => st[name] \in {"up", "crashed"}
  /\ \A s \in Servers : st[s] = "up" /\ name # s =>
       \E other \in Servers \ {s} : st[other] \in {"interrupted", "ended"}

\* Every client that opens "/server" is in the right table: the name stands for a
\* server that is up unless there is a cause, and a server that is up holds the
\* place it gave a client until that client's STOP has come, and holds no client
\* twice (new_client, delete_client).  A STOP that overtakes other messages frees
\* its sender's place and no other.
TableAgrees ==
  /\ TypeOK
  /\ NameForCause
  /\ \A s \in Servers : st[s] = "up" =>
       /\ \A id, other \in Ids :
            clients[s][id] = clients[s][other] /\ id # other => clients[s][id] = Nobody
       /\ \A c \in Procs :
            srv[c] = s /\ clientId[c] # -1 /\ HasName(c) => clients[s][clientId[c]] = c

\* The first message of every client is the answer to its own INTRODUCE.  An
\* answer to somebody else's command may follow, if a STOP overtook the command:
\* then its sender has gone, and had the place of the client that reads it.
\* Whatever answers come to a client that way, its queue has room, so that the
\* server's mq_send never waits for one client while the others wait for it.
AnswersAreOwn ==
  \A c \in Procs :
    /\ Len(queue[c]) < MaxMsg
    /\ \A i \in DOMAIN queue[c] :
         LET message == queue[c][i]
             d == message.client
         IN /\ pc[c] = "introduced" /\ i = 1 => d = c /\ message.id # -1
            /\ d # c => /\ pc[d] = "gone" /\ srv[d] = srv[c]
                        /\ clients[srv[c]][clientId[d]] = c \/ clientId[d] = clientId[c]

\* A place comes back when its client goes: its STOP is on the way or still to
\* be sent.  Only a client that goes before it has read its id keeps a place for
\* ever, since removeQAtExit then sends nothing.
PlacesComeBack ==
  \A s \in Servers : st[s] = "up" => \A id \in Ids :
    LET c == clients[s][id]
    IN \/ c = Nobody \/ HasName(c) \/ clientId[c] = -1
       \/ \E i \in DOMAIN serverQ[s] :
            serverQ[s][i].mtype = "STOP" /\ serverQ[s][i].client = c

Introducing(c) ==
  \E i \in DOMAIN serverQ[srv[c]] :
    serverQ[srv[c]][i].client = c /\ serverQ[srv[c]][i].mtype = "INTRODUCE"

\* Its introduction has been handled, and others have all the places.
TurnedAway(c) ==
  ~Introducing(c) /\ \A id \in Ids : clients[srv[c]][id] \notin {c, Nobody}

\* A client waits for ever only for a server that has gone, which it cannot
\* notice, or because its INTRODUCE found a table that others fill, which it is
\* not told.
EveryoneAnswered ==
  \A c \in Procs :
    /\ pc[c] = "waiting" ~> (pc[c] # "waiting" \/ st[srv[c]] # "up")
    /\ pc[c] = "introduced" /\ Introducing(c) ~>
         (pc[c] # "introduced" \/ st[srv[c]] # "up" \/ TurnedAway(c))
=============================================================================
