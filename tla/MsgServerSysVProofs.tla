------------------------ MODULE MsgServerSysVProofs ------------------------
(***************************************************************************)
(* The table of the System V request server agrees with its clients, they  *)
(* read the answers to their own requests, and their places come back, for *)
(* any number of clients, places and requests.                             *)
(***************************************************************************)
EXTENDS MsgServerSysV, FiniteSetTheorems, SequenceTheorems, TLAPS

(* Sequences and numbers. *)
\* What is left of a sequence when its first element is taken.
LEMMA TailAt ==
  ASSUME NEW S, NEW s \in Seq(S), s # <<>>
  PROVE  /\ Tail(s) \in Seq(S) /\ Head(s) = s[1] /\ Head(s) \in S
         /\ 1 \in DOMAIN s
         /\ \A i \in DOMAIN Tail(s) :
              i + 1 \in DOMAIN s /\ i + 1 # 1 /\ Tail(s)[i] = s[i + 1]
         /\ Len(s) \in Nat \ {0} /\ Len(Tail(s)) = Len(s) - 1
BY SMT

\* What it is when an element has been added at its end.
LEMMA AppendAt ==
  ASSUME NEW S, NEW s \in Seq(S), NEW e \in S
  PROVE  /\ Append(s, e) \in Seq(S)
         /\ DOMAIN Append(s, e) = DOMAIN s \cup {Len(s) + 1}
         /\ Len(s) + 1 \notin DOMAIN s
         /\ \A i \in DOMAIN s : i <= Len(s) /\ Append(s, e)[i] = s[i]
         /\ Append(s, e)[Len(s) + 1] = e
BY SMT

\* A set of numbers that is not empty has a least one: the sets 0..x are
\* well-founded by inclusion.
LEMMA LeastNumber ==
  ASSUME NEW T, T \subseteq Nat, T # {}
  PROVE  \E x \in T : \A y \in T : x <= y
<1> DEFINE F == {0..x : x \in T}
<1>1. F \subseteq FiniteSubsetsOf(Nat) /\ F # {}
  <2>1. \A x \in T : IsFiniteSet(0..x)
    BY FS_Interval
  <2>2. \A x \in T : 0..x \in SUBSET Nat
    OBVIOUS
  <2> QED BY <2>1, <2>2 DEF FiniteSubsetsOf
<1>2. IsWellFoundedOn(StrictSubsetOrdering(Nat), FiniteSubsetsOf(Nat))
  BY FS_StrictSubsetOrderingWellFounded
<1>3. PICK X \in F : \A Y \in F : <<Y, X>> \notin StrictSubsetOrdering(Nat)
  <2> HIDE DEF F
  <2> QED BY <1>1, <1>2, WFMin
<1>4. PICK x \in T : X = 0..x
  OBVIOUS
<1>5. ASSUME NEW y \in T PROVE x <= y
  <2> SUFFICES ASSUME y < x PROVE FALSE
    OBVIOUS
  <2>1. 0..y \in SUBSET Nat /\ 0..x \in SUBSET Nat
    OBVIOUS
  <2>2. 0..y \subseteq 0..x /\ x \in 0..x /\ x \notin 0..y
    OBVIOUS
  <2>3. <<0..y, 0..x>> \in StrictSubsetOrdering(Nat)
    <3> DEFINE A == 0..y
               B == 0..x
    <3>1. A # B
      BY <2>2
    <3> HIDE DEF A, B
    <3> QED BY <2>1, <2>2, <3>1 DEF A, B, StrictSubsetOrdering
  <2> QED BY <1>3, <1>4, <2>3
<1> QED BY <1>5

-----------------------------------------------------------------------------
Requested == [mtype : Commands \cup {"INTRODUCE", "STOP", "END", "ERROR"},
              client : Procs, clientId : {-1} \cup Ids, nr : 0..MaxRequests]
Answers == [mtype : {"REPLY", "ERROR"}, client : Procs, nr : 0..MaxRequests,
            id : {-1} \cup Ids]

Types ==
  /\ clients \in [Ids -> Procs \cup {Nobody}]
  /\ up \in BOOLEAN /\ open \in BOOLEAN
  /\ serverQ \in Seq(Requested)
  /\ queue \in [Procs -> Seq(Answers)]
  /\ pc \in [Procs -> {"start", "introduced", "ready", "waiting", "refused",
                       "stopped", "ended", "interrupted"}]
  /\ clientId \in [Procs -> {-1} \cup Ids]
  /\ nr \in [Procs -> 0..MaxRequests]
  /\ zero \in Procs \cup {"server", Nobody}

-----------------------------------------------------------------------------
\* The first of the free places is one of them.
LEMMA FirstFreeIsFree ==
  ASSUME FreeIds # {}
  PROVE  FirstFree \in FreeIds
<1>1. FreeIds \subseteq Nat
  BY MaxAssumption DEF FreeIds, Ids
<1>2. \E id \in FreeIds : \A other \in FreeIds : id <= other
  BY <1>1, LeastNumber
<1> QED BY <1>2 DEF FirstFree

\* What msgsnd to the queue of c does to the queues.
LEMMA PostTypes ==
  ASSUME Types, NEW c, NEW message \in Answers, Post(c, message)
  PROVE  /\ queue' \in [Procs -> Seq(Answers)]
         /\ HasQueue(c) => queue'[c] = Append(queue[c], message)
         /\ \A d \in Procs : d # c \/ ~HasQueue(c) => queue'[d] = queue[d]
<1>1. CASE HasQueue(c)
  <2>1. c \in Procs /\ queue[c] \in Seq(Answers)
    BY <1>1 DEF HasQueue, Types
  <2>2. Append(queue[c], message) \in Seq(Answers)
    BY <2>1
  <2> QED BY <1>1, <2>1, <2>2 DEF Post, Types
<1>2. CASE ~HasQueue(c)
  BY <1>2 DEF Post, Types
<1> QED BY <1>1, <1>2

\* What exit() of a client does.
LEMMA LeavesTypes ==
  ASSUME Types, NEW c \in Procs, NEW to, Leaves(c, to)
  PROVE  /\ queue' \in [Procs -> Seq(Answers)]
         /\ queue'[c] = <<>> /\ pc'[c] = to
         /\ \A d \in Procs : d # c => queue'[d] = queue[d] /\ pc'[d] = pc[d]
<1>1. <<>> \in Seq(Answers)
  BY EmptySeq
<1> QED BY <1>1 DEF Leaves, Types

\* A request that is sent is one of the requests.
LEMMA RequestTypes ==
  ASSUME Types, NEW c \in Procs,
         NEW mtype \in Commands \cup {"INTRODUCE", "STOP", "END", "ERROR"}
  PROVE  Request(mtype, c) \in Requested
BY DEF Request, Requested, Types

LEMMA ServerTypes ==
  ASSUME Types, ServerReceives
  PROVE  Types'
<1> DEFINE message == Head(serverQ)
<1>1. /\ message \in Requested /\ Tail(serverQ) \in Seq(Requested)
      /\ UNCHANGED <<pc, clientId, nr, zero>>
  BY TailAt DEF ServerReceives, Types
<1> HIDE DEF message
<1>2. \A mtype \in {"REPLY", "ERROR"}, id \in {-1} \cup Ids :
        /\ Answer(mtype, message.client, 0, id) \in Answers
        /\ Answer(mtype, message.client, message.nr, id) \in Answers
  BY <1>1, MaxAssumption DEF Answer, Answers, Requested
<1>3. CASE End
  <2>1. serverQ' \in Seq(Requested)
    BY <1>3, EmptySeq DEF End
  <2> QED BY <1>1, <1>3, <2>1 DEF End, Types
<1>4. CASE Register(message) /\ UNCHANGED <<open, up>>
  <2>1. FirstFree \in Ids
    BY <1>4, FirstFreeIsFree DEF Register, FreeIds
  <2>2. queue' \in [Procs -> Seq(Answers)]
    BY <1>2, <1>4, <2>1, PostTypes DEF Register
  <2>3. clients' \in [Ids -> Procs \cup {Nobody}]
    BY <1>4, <2>1 DEF Register, HasQueue, Types
  <2> QED BY <1>1, <1>4, <2>2, <2>3 DEF Register, Types
<1>5. CASE Refuse(message) /\ UNCHANGED <<open, up>>
  <2>1. queue' \in [Procs -> Seq(Answers)]
    BY <1>2, <1>5, PostTypes DEF Refuse
  <2>2. [message EXCEPT !.mtype = "ERROR"] \in Requested
    BY <1>1 DEF Requested
  <2>3. serverQ' \in Seq(Requested)
    BY <1>1, <1>5, <2>2, AppendAt DEF Refuse
  <2> QED BY <1>1, <1>5, <2>1, <2>3 DEF Refuse, Types
<1>6. CASE Respond(message) /\ UNCHANGED open
  <2>1. queue' \in [Procs -> Seq(Answers)]
    BY <1>2, <1>6, PostTypes DEF Respond
  <2> QED BY <1>1, <1>6, <2>1 DEF Respond, Types
<1>7. CASE CalcCrashes(message) /\ UNCHANGED open
  BY <1>1, <1>7 DEF CalcCrashes, Types
<1>8. CASE delete_client(message) /\ UNCHANGED open
  BY <1>1, <1>8 DEF delete_client, Types
<1>9. CASE Unrecognized /\ UNCHANGED open
  BY <1>1, <1>9 DEF Unrecognized, Types
<1> QED BY <1>3, <1>4, <1>5, <1>6, <1>7, <1>8, <1>9
        DEF ServerReceives, Handle, new_client, message

LEMMA ClientTypes ==
  ASSUME Types, NEW c \in Procs, Client(c)
  PROVE  Types'
<1> USE DEF Goes, server
<1>1. \A message \in Requested : Append(serverQ, message) \in Seq(Requested)
  BY AppendAt DEF Types
<1>2. ASSUME NEW to \in {"refused", "stopped", "ended", "interrupted"}, Leaves(c, to)
      PROVE  /\ queue' \in [Procs -> Seq(Answers)]
             /\ pc' \in [Procs -> {"start", "introduced", "ready", "waiting", "refused",
                                   "stopped", "ended", "interrupted"}]
  <2>1. queue' \in [Procs -> Seq(Answers)]
    BY <1>2, LeavesTypes
  <2> QED BY <1>2, <2>1 DEF Leaves, Types
<1>3. CASE Connect(c)
  BY <1>1, <1>3, RequestTypes DEF Connect, Types
<1>4. ASSUME queue[c] # <<>>
      PROVE  Head(queue[c]) \in Answers /\ [queue EXCEPT ![c] = Tail(@)] \in [Procs -> Seq(Answers)]
  <2>1. Head(queue[c]) \in Answers /\ Tail(queue[c]) \in Seq(Answers)
    BY <1>4, TailAt DEF Types
  <2> QED BY <2>1 DEF Types
<1>5. CASE Introduced(c)
  <2>1. CASE Head(queue[c]).mtype = "REPLY"
    <3>1. Head(queue[c]).id \in {-1} \cup Ids
      BY <1>4, <1>5 DEF Introduced, Answers
    <3> QED BY <1>4, <1>5, <2>1, <3>1 DEF Introduced, Types
  <2>2. CASE Head(queue[c]).mtype # "REPLY"
    BY <1>2, <1>5, <2>2 DEF Introduced, Types
  <2> QED BY <2>1, <2>2
<1>6. CASE ReceiveAnswer(c)
  BY <1>4, <1>6 DEF ReceiveAnswer, Types
<1>7. CASE SendEnd(c)
  BY <1>1, <1>2, <1>7, RequestTypes DEF SendEnd, Types
<1>8. CASE SendStop(c)
  BY <1>1, <1>2, <1>8, RequestTypes DEF SendStop, Types
<1>9. ASSUME NEW mtype \in Commands, SendCommand(c, mtype) PROVE Types'
  <2>1. nr[c] + 1 \in 0..MaxRequests
    BY <1>9, MaxAssumption DEF SendCommand, Types
  <2>2. [Request(mtype, c) EXCEPT !.nr = nr[c] + 1] \in Requested
    BY <2>1, RequestTypes DEF Requested
  <2> QED BY <1>1, <1>9, <2>1, <2>2 DEF SendCommand, Types
<1>10. CASE NoServer(c)
  BY <1>2, <1>10 DEF NoServer, Types
<1>11. CASE Interrupted(c)
  BY <1>2, <1>11 DEF Interrupted, Types
<1> QED BY <1>3, <1>5, <1>6, <1>7, <1>8, <1>9, <1>10, <1>11 DEF Client

LEMMA StepTypes == Types /\ [Next]_vars => Types'
<1> SUFFICES ASSUME Types, [Next]_vars PROVE Types'
  OBVIOUS
<1>1. CASE ServerInterrupted
  <2>1. serverQ' \in Seq(Requested)
    BY <1>1, EmptySeq DEF ServerInterrupted, End
  <2> QED BY <1>1, <2>1 DEF ServerInterrupted, End, Types
<1>2. CASE UNCHANGED vars
  BY <1>2 DEF vars, Types
<1> QED BY <1>1, <1>2, ServerTypes, ClientTypes DEF Next

-----------------------------------------------------------------------------
(* What the table, the requests on their way and the queues say together.   *)
Asking(c) == \E i \in DOMAIN serverQ : serverQ[i].client = c

Sent(c, mtype) == \E i \in DOMAIN serverQ : serverQ[i].client = c /\ serverQ[i].mtype = mtype

InTable(c) == \E id \in Ids : clients[id] = c

\* An introduction is the only request of its client, who has no place and no
\* answer yet; the id in a later request is the place of its client, and a STOP
\* is the last request of all.
RequestInv(i) ==
  LET message == serverQ[i]
      c == message.client
  IN /\ message.mtype = "INTRODUCE" =>
          /\ pc[c] \in {"introduced", "refused", "interrupted"}
          /\ ~InTable(c)
          /\ \A j \in DOMAIN serverQ : serverQ[j].client = c => j = i
          /\ \A k \in DOMAIN queue[c] : queue[c][k].mtype # "REPLY"
     /\ message.mtype \in Commands \cup {"STOP"} =>
          /\ message.clientId \in Ids /\ message.clientId = clientId[c]
          /\ up => clients[message.clientId] = c
          /\ pc[c] \notin {"start", "introduced", "refused"}
     /\ message.mtype = "STOP" =>
          /\ pc[c] = "stopped"
          /\ \A j \in DOMAIN serverQ : serverQ[j].client = c => j <= i
     /\ message.mtype = "END" => pc[c] = "ended"

\* The id a client is given, or is about to read, is its place; only the process
\* with queue 0 is ever refused.
ClientInv(c) ==
  /\ ~HasQueue(c) => queue[c] = <<>>
  /\ pc[c] = "start" => ~Asking(c) /\ ~InTable(c)
  /\ pc[c] \in {"start", "introduced"} => nr[c] = 0
  /\ pc[c] = "introduced" =>
       \A k \in DOMAIN queue[c] : queue[c][k].mtype = "REPLY" =>
         queue[c][k].id \in Ids /\ (up => clients[queue[c][k].id] = c)
  /\ pc[c] \in {"ready", "waiting"} => clientId[c] \in Ids /\ (up => clients[clientId[c]] = c)
  /\ pc[c] = "refused" => c = zero

\* Of a client's requests and the answers to them there is at most one.
OwnInv(c) ==
  /\ Len(queue[c]) <= 1
  /\ queue[c] # <<>> =>
       /\ ~Asking(c)
       /\ pc[c] \in {"introduced", "waiting"}
       /\ queue[c][1].client = c /\ queue[c][1].nr = nr[c]
       /\ pc[c] = "introduced" => queue[c][1].mtype = "REPLY"
  /\ \A i, j \in DOMAIN serverQ : serverQ[i].client = c /\ serverQ[j].client = c => i = j
  /\ pc[c] = "ready" => ~Asking(c)
  /\ pc[c] = "waiting" => \A i \in DOMAIN serverQ : serverQ[i].client = c => serverQ[i].nr = nr[c]

\* Who may still have a place in the table.
Keeps(c) ==
  \/ HasQueue(c) \/ pc[c] \in {"interrupted", "refused"}
  \/ pc[c] = "stopped" /\ Sent(c, "STOP")
  \/ pc[c] = "ended" /\ Sent(c, "END")

TableInv ==
  /\ \A id, other \in Ids : clients[id] = clients[other] /\ id # other => clients[id] = Nobody
  /\ up => open
  /\ up => \A id \in Ids : clients[id] # Nobody => Keeps(clients[id])

IInv ==
  /\ \A i \in DOMAIN serverQ : RequestInv(i)
  /\ \A c \in Procs : ClientInv(c)
  /\ \A c \in Procs \ {zero} : OwnInv(c)
  /\ TableInv

-----------------------------------------------------------------------------
(* A step of a client. *)

\* The server and the other clients are left alone, and the requests of others
\* stay where they are.
OnlyClient(c) ==
  /\ UNCHANGED server
  /\ \A d \in Procs \ {c} : /\ pc'[d] = pc[d] /\ queue'[d] = queue[d]
                            /\ nr'[d] = nr[d] /\ clientId'[d] = clientId[d]
  /\ \A i \in DOMAIN serverQ : i \in DOMAIN serverQ' /\ serverQ'[i] = serverQ[i]
  /\ \A i \in DOMAIN serverQ' : i \in DOMAIN serverQ \/ serverQ'[i].client = c

LEMMA OnlyClientSteps ==
  ASSUME Types, NEW c \in Procs, Client(c)
  PROVE  OnlyClient(c)
<1> USE DEF Goes, server, OnlyClient
<1>1. ASSUME NEW message \in Requested, message.client = c,
             serverQ' = Append(serverQ, message)
      PROVE  /\ \A i \in DOMAIN serverQ : i \in DOMAIN serverQ' /\ serverQ'[i] = serverQ[i]
             /\ \A i \in DOMAIN serverQ' : i \in DOMAIN serverQ \/ serverQ'[i].client = c
  BY <1>1, AppendAt DEF Types
<1>2. \A mtype \in Commands \cup {"INTRODUCE", "STOP", "END", "ERROR"} :
        Request(mtype, c) \in Requested /\ Request(mtype, c).client = c
  BY RequestTypes DEF Request
<1>3. CASE Connect(c)
  BY <1>1, <1>2, <1>3 DEF Connect, Types
<1>4. CASE Introduced(c)
  BY <1>4 DEF Introduced, Leaves, Types
<1>5. CASE ReceiveAnswer(c)
  BY <1>5 DEF ReceiveAnswer, Types
<1>6. CASE SendEnd(c)
  BY <1>1, <1>2, <1>6 DEF SendEnd, Leaves, Types
<1>7. CASE SendStop(c)
  BY <1>1, <1>2, <1>7 DEF SendStop, Leaves, Types
<1>8. ASSUME NEW mtype \in Commands, SendCommand(c, mtype) PROVE OnlyClient(c)
  <2>1. nr[c] + 1 \in 0..MaxRequests
    BY <1>8, MaxAssumption DEF SendCommand, Types
  <2> DEFINE message == [Request(mtype, c) EXCEPT !.nr = nr[c] + 1]
  <2>2. message \in Requested /\ message.client = c
    BY <1>2, <2>1 DEF Requested
  <2>3. serverQ' = Append(serverQ, message)
    BY <1>8 DEF SendCommand
  <2> HIDE DEF message
  <2> QED BY <1>1, <1>8, <2>2, <2>3 DEF SendCommand, Types
<1>9. CASE NoServer(c)
  BY <1>9 DEF NoServer, Leaves, Types
<1>10. CASE Interrupted(c)
  BY <1>10 DEF Interrupted, Leaves, Types
<1> QED BY <1>3, <1>4, <1>5, <1>6, <1>7, <1>8, <1>9, <1>10 DEF Client

\* So the invariant has to be shown of the client alone.
LEMMA OthersKept ==
  ASSUME Types, IInv, NEW c \in Procs, OnlyClient(c),
         \A i \in DOMAIN serverQ' : serverQ'[i].client = c => RequestInv(i)',
         ClientInv(c)', c # zero => OwnInv(c)',
         up /\ InTable(c) => Keeps(c)'
  PROVE  IInv'
<1> USE DEF OnlyClient, server
<1>1. \A i \in DOMAIN serverQ : serverQ[i] \in Requested
  BY ElementOfSeq, LenProperties DEF Types
<1>2. ASSUME NEW i \in DOMAIN serverQ' PROVE RequestInv(i)'
  <2>1. CASE serverQ'[i].client = c
    BY <2>1
  <2>2. CASE serverQ'[i].client # c
    <3>1. i \in DOMAIN serverQ /\ serverQ'[i] = serverQ[i] /\ serverQ[i].client \in Procs \ {c}
      BY <1>1, <2>2 DEF Requested
    <3>2. RequestInv(i)
      BY <3>1 DEF IInv
    <3> QED BY <2>2, <3>1, <3>2 DEF RequestInv, InTable
  <2> QED BY <2>1, <2>2
<1>3. ASSUME NEW d \in Procs, d # c PROVE ClientInv(d)'
  <2>1. ClientInv(d)
    BY DEF IInv
  <2> QED BY <1>3, <2>1 DEF ClientInv, HasQueue, Asking, InTable
<1>4. ASSUME NEW d \in Procs \ {zero}, d # c PROVE OwnInv(d)'
  <2>1. OwnInv(d)
    BY DEF IInv
  <2> QED BY <1>4, <2>1 DEF OwnInv, Asking
<1>5. TableInv'
  <2>1. ASSUME up, NEW id \in Ids, clients[id] # Nobody PROVE Keeps(clients[id])'
    <3>1. clients[id] \in Procs /\ Keeps(clients[id])
      BY <2>1 DEF Types, IInv, TableInv
    <3>2. CASE clients[id] = c
      BY <2>1, <3>2 DEF InTable
    <3>3. CASE clients[id] # c
      BY <3>1, <3>3 DEF Keeps, HasQueue, Sent
    <3> QED BY <3>2, <3>3
  <2> QED BY <2>1 DEF TableInv, IInv
<1> QED BY <1>2, <1>3, <1>4, <1>5 DEF IInv

\* Adding one request at the end, for the client that sends it.
LEMMA SendsAt ==
  ASSUME Types, NEW message \in Requested, serverQ' = Append(serverQ, message)
  PROVE  /\ DOMAIN serverQ' = DOMAIN serverQ \cup {Len(serverQ) + 1}
         /\ serverQ'[Len(serverQ) + 1] = message
         /\ \A i \in DOMAIN serverQ : serverQ'[i] = serverQ[i] /\ i <= Len(serverQ) + 1
         /\ Len(serverQ) + 1 \in Nat
BY AppendAt DEF Types

LEMMA ConnectKeeps ==
  ASSUME Types, IInv, NEW c \in Procs, Connect(c)
  PROVE  IInv'
<1> USE DEF Goes, server
<1>1. OnlyClient(c)
  BY OnlyClientSteps DEF Client
<1> DEFINE message == Request("INTRODUCE", c)
<1>2. /\ message \in Requested /\ message.client = c /\ message.mtype = "INTRODUCE"
      /\ serverQ' = Append(serverQ, message)
  BY RequestTypes DEF Connect, Request
<1> HIDE DEF message
<1>3. /\ pc[c] = "start" /\ pc'[c] = "introduced" /\ queue' = queue /\ nr' = nr
      /\ clientId' = clientId
  BY DEF Connect, Types
<1>4. ClientInv(c) /\ (c # zero => OwnInv(c))
  BY DEF IInv
<1>5. queue[c] = <<>> /\ ~Asking(c) /\ ~InTable(c) /\ nr[c] = 0
  BY <1>3, <1>4 DEF ClientInv, HasQueue
<1>6. ASSUME NEW i \in DOMAIN serverQ', serverQ'[i].client = c PROVE RequestInv(i)'
  BY <1>1, <1>2, <1>3, <1>5, <1>6, SendsAt DEF RequestInv, Asking, InTable, OnlyClient, Commands
<1>7. ClientInv(c)'
  BY <1>1, <1>3, <1>5 DEF ClientInv, HasQueue
<1>8. c # zero => OwnInv(c)'
  BY <1>1, <1>2, <1>3, <1>4, <1>5, SendsAt DEF OwnInv, Asking, OnlyClient
<1> QED BY <1>1, <1>5, <1>6, <1>7, <1>8, OthersKept

\* The answer a client takes is the only one.
LEMMA LastAnswer ==
  ASSUME Types, NEW c \in Procs, OwnInv(c), queue[c] # <<>>
  PROVE  Tail(queue[c]) = <<>> /\ Len(Tail(queue[c])) = 0
<1>1. queue[c] \in Seq(Answers)
  BY DEF Types
<1> DEFINE q == queue[c]
<1>2. Len(q) <= 1
  BY DEF OwnInv
<1>3. q # <<>> /\ q \in Seq(Answers)
  BY <1>1
<1> HIDE DEF q
<1>4. Len(q) \in Nat \ {0} /\ Len(Tail(q)) = Len(q) - 1 /\ Tail(q) \in Seq(Answers)
  BY <1>3, TailAt
<1>5. Len(Tail(q)) = 0
  BY <1>2, <1>4
<1>6. Tail(q) = <<>>
  BY <1>4, <1>5, EmptySeq
<1> QED BY <1>5, <1>6 DEF q

LEMMA IntroducedKeeps ==
  ASSUME Types, IInv, NEW c \in Procs, Introduced(c)
  PROVE  IInv'
<1> USE DEF Goes, server
<1>1. OnlyClient(c)
  BY OnlyClientSteps DEF Client
<1>2. ClientInv(c) /\ (c # zero => OwnInv(c)) /\ (\A i \in DOMAIN serverQ : RequestInv(i))
  BY DEF IInv
<1> DEFINE message == Head(queue[c])
<1>3. /\ pc[c] = "introduced" /\ queue[c] # <<>> /\ serverQ' = serverQ /\ nr' = nr
      /\ queue[c] \in Seq(Answers)
  BY DEF Introduced, Types
<1>4. /\ message = queue[c][1] /\ message \in Answers /\ 1 \in DOMAIN queue[c]
      /\ \A k \in DOMAIN Tail(queue[c]) : k + 1 \in DOMAIN queue[c] /\ Tail(queue[c])[k] = queue[c][k + 1]
      /\ Len(Tail(queue[c])) = Len(queue[c]) - 1
      /\ Len(queue[c]) \in Nat \ {0}
  BY <1>3, TailAt
<1>5. CASE message.mtype = "REPLY"
  <2>1. /\ pc'[c] = "ready" /\ clientId'[c] = message.id
        /\ queue'[c] = Tail(queue[c])
    BY <1>5 DEF Introduced, Types
  <2>2. message.id \in Ids /\ (up => clients[message.id] = c)
    BY <1>2, <1>3, <1>4, <1>5 DEF ClientInv
  <2>3. \A i \in DOMAIN serverQ : serverQ[i].client = c =>
          serverQ[i].mtype \notin Commands \cup {"INTRODUCE", "STOP", "END"}
    BY <1>2, <1>3, <1>4, <1>5 DEF RequestInv
  <2> HIDE DEF message
  <2>4. ASSUME NEW i \in DOMAIN serverQ', serverQ'[i].client = c PROVE RequestInv(i)'
    BY <1>3, <2>3, <2>4 DEF RequestInv
  <2>5. ClientInv(c)'
    BY <1>1, <1>3, <2>1, <2>2 DEF ClientInv, HasQueue, OnlyClient
  <2>6. ASSUME c # zero PROVE OwnInv(c)'
    <3>1. queue'[c] = <<>> /\ Len(queue'[c]) = 0
      BY <1>2, <1>3, <2>1, <2>6, LastAnswer
    <3> QED BY <1>2, <1>3, <2>1, <2>6, <3>1 DEF OwnInv, Asking
  <2>7. HasQueue(c)'
    BY <2>1 DEF HasQueue
  <2> QED BY <1>1, <2>4, <2>5, <2>6, <2>7, OthersKept DEF Keeps
<1>6. CASE message.mtype # "REPLY"
  <2>1. pc'[c] = "refused" /\ queue'[c] = <<>> /\ clientId' = clientId
    BY <1>6, LeavesTypes DEF Introduced
  <2>2. c = zero
    BY <1>2, <1>3, <1>4, <1>6 DEF OwnInv
  <2> HIDE DEF message
  <2>3. ASSUME NEW i \in DOMAIN serverQ', serverQ'[i].client = c PROVE RequestInv(i)'
    <3>1. RequestInv(i) /\ DOMAIN queue'[c] = {}
      BY <1>2, <1>3, <2>1
    <3> QED BY <1>1, <1>3, <2>1, <2>3, <3>1 DEF RequestInv, InTable, OnlyClient, Commands
  <2>4. ClientInv(c)'
    BY <1>1, <2>1, <2>2 DEF ClientInv, HasQueue, OnlyClient
  <2> QED BY <1>1, <2>1, <2>2, <2>3, <2>4, OthersKept DEF Keeps
<1> QED BY <1>5, <1>6

LEMMA SendCommandKeeps ==
  ASSUME Types, IInv, NEW c \in Procs, NEW mtype \in Commands, SendCommand(c, mtype)
  PROVE  IInv'
<1> USE DEF Goes, server
<1>1. OnlyClient(c)
  BY OnlyClientSteps DEF Client
<1> DEFINE message == [Request(mtype, c) EXCEPT !.nr = nr[c] + 1]
<1>2. nr[c] + 1 \in 0..MaxRequests
  BY MaxAssumption DEF SendCommand, Types
<1>3. /\ message \in Requested /\ message.client = c /\ message.mtype = mtype
      /\ message.clientId = clientId[c] /\ message.nr = nr[c] + 1
  BY <1>2, RequestTypes DEF Request, Requested
<1>4. /\ pc[c] = "ready" /\ pc'[c] = "waiting" /\ queue' = queue
      /\ nr'[c] = nr[c] + 1 /\ clientId' = clientId /\ serverQ' = Append(serverQ, message)
  BY DEF SendCommand, Types
<1> HIDE DEF message
<1>5. ClientInv(c) /\ (c # zero => OwnInv(c)) /\ (\A i \in DOMAIN serverQ : RequestInv(i))
  BY DEF IInv
<1>6. \A i \in DOMAIN serverQ : serverQ[i].client = c =>
        serverQ[i].mtype \notin {"INTRODUCE", "STOP", "END"}
  BY <1>4, <1>5 DEF RequestInv
<1>7. ASSUME NEW i \in DOMAIN serverQ', serverQ'[i].client = c PROVE RequestInv(i)'
  <2>1. CASE i \in DOMAIN serverQ
    <3>1. serverQ'[i] = serverQ[i]
      BY <1>1, <2>1 DEF OnlyClient
    <3> QED BY <1>1, <1>4, <1>5, <1>6, <1>7, <2>1, <3>1 DEF RequestInv, OnlyClient, Commands
  <2>2. CASE i \notin DOMAIN serverQ
    <3>1. serverQ'[i] = message
      BY <1>3, <1>4, <2>2, SendsAt
    <3> QED BY <1>1, <1>3, <1>4, <1>5, <3>1 DEF RequestInv, ClientInv, OnlyClient, Commands
  <2> QED BY <2>1, <2>2
<1>8. ClientInv(c)'
  BY <1>1, <1>4, <1>5 DEF ClientInv, HasQueue, OnlyClient
<1>9. c # zero => OwnInv(c)'
  <2>1. ASSUME c # zero PROVE OwnInv(c)'
    <3>1. ~Asking(c) /\ queue[c] = <<>>
      BY <1>4, <1>5, <2>1 DEF OwnInv
    <3> QED BY <1>1, <1>3, <1>4, <1>5, <2>1, <3>1, SendsAt DEF OwnInv, Asking, OnlyClient
  <2> QED BY <2>1
<1>10. HasQueue(c)'
  BY <1>4 DEF HasQueue
<1> QED BY <1>1, <1>7, <1>8, <1>9, <1>10, OthersKept DEF Keeps

LEMMA ReceiveAnswerKeeps ==
  ASSUME Types, IInv, NEW c \in Procs, ReceiveAnswer(c)
  PROVE  IInv'
<1> USE DEF Goes, server
<1>1. OnlyClient(c)
  BY OnlyClientSteps DEF Client
<1>2. ClientInv(c) /\ (c # zero => OwnInv(c)) /\ (\A i \in DOMAIN serverQ : RequestInv(i))
  BY DEF IInv
<1>3. /\ pc[c] = "waiting" /\ pc'[c] = "ready" /\ queue[c] # <<>> /\ serverQ' = serverQ
      /\ nr' = nr /\ clientId' = clientId /\ queue[c] \in Seq(Answers)
      /\ queue'[c] = Tail(queue[c])
  BY DEF ReceiveAnswer, Types
<1>4. ASSUME NEW i \in DOMAIN serverQ', serverQ'[i].client = c PROVE RequestInv(i)'
  BY <1>1, <1>2, <1>3, <1>4 DEF RequestInv, OnlyClient, Commands
<1>5. ClientInv(c)'
  BY <1>1, <1>2, <1>3 DEF ClientInv, HasQueue, OnlyClient
<1>6. ASSUME c # zero PROVE OwnInv(c)'
  <2>1. queue'[c] = <<>> /\ Len(queue'[c]) = 0
    BY <1>2, <1>3, <1>6, LastAnswer
  <2> QED BY <1>2, <1>3, <1>6, <2>1 DEF OwnInv, Asking
<1>7. HasQueue(c)'
  BY <1>3 DEF HasQueue
<1> QED BY <1>1, <1>4, <1>5, <1>6, <1>7, OthersKept DEF Keeps

\* SendEnd and SendStop: the last request of a client that leaves.
LEMMA LastRequestKeeps ==
  ASSUME Types, IInv, NEW c \in Procs,
         NEW mtype \in {"STOP", "END"}, NEW to,
         mtype = "STOP" => to = "stopped", mtype = "END" => to = "ended",
         OnlyClient(c), pc[c] = "ready", Leaves(c, to),
         serverQ' = Append(serverQ, Request(mtype, c)),
         nr' = nr, clientId' = clientId
  PROVE  IInv'
<1> DEFINE message == Request(mtype, c)
<1>1. /\ message \in Requested /\ message.client = c /\ message.mtype = mtype
      /\ message.clientId = clientId[c]
  BY RequestTypes DEF Request
<1>2. serverQ' = Append(serverQ, message)
  OBVIOUS
<1> HIDE DEF message
<1>3. pc'[c] = to /\ queue'[c] = <<>> /\ Len(queue'[c]) = 0 /\ DOMAIN queue'[c] = {}
  BY LeavesTypes
<1>4. ClientInv(c) /\ (c # zero => OwnInv(c)) /\ (\A i \in DOMAIN serverQ : RequestInv(i))
  BY DEF IInv
<1>5. \A i \in DOMAIN serverQ : serverQ[i].client = c =>
        serverQ[i].mtype \notin {"INTRODUCE", "STOP", "END"}
  BY <1>4 DEF RequestInv
<1>6. ASSUME NEW i \in DOMAIN serverQ', serverQ'[i].client = c PROVE RequestInv(i)'
  <2>1. CASE i \in DOMAIN serverQ
    <3>1. serverQ'[i] = serverQ[i]
      BY <2>1 DEF OnlyClient
    <3> QED BY <1>3, <1>4, <1>5, <1>6, <2>1, <3>1 DEF RequestInv, OnlyClient, server, Commands
  <2>2. CASE i \notin DOMAIN serverQ
    <3>1. serverQ'[i] = message /\ (\A j \in DOMAIN serverQ' : j <= i)
      BY <1>1, <1>2, <2>2, SendsAt
    <3> QED BY <1>1, <1>3, <1>4, <3>1 DEF RequestInv, ClientInv, OnlyClient, server, Commands
  <2> QED BY <2>1, <2>2
<1>7. ClientInv(c)'
  BY <1>3, <1>4 DEF ClientInv, HasQueue, OnlyClient, server
<1>8. ASSUME c # zero PROVE OwnInv(c)'
  <2>1. ~Asking(c)
    BY <1>4, <1>8 DEF OwnInv
  <2> QED BY <1>1, <1>2, <1>3, <2>1, SendsAt DEF OwnInv, Asking, OnlyClient
<1>9. Keeps(c)'
  BY <1>1, <1>2, <1>3, SendsAt DEF Keeps, Sent
<1> QED BY <1>6, <1>7, <1>8, <1>9, OthersKept

\* NoServer and Interrupted: a client that leaves without a word.
LEMMA SilentLeaveKeeps ==
  ASSUME Types, IInv, NEW c \in Procs, OnlyClient(c),
         NEW to \in {"ended", "interrupted"}, Leaves(c, to),
         to = "ended" => pc[c] \in {"start", "ready"} /\ ~open,
         to = "interrupted" => HasQueue(c),
         UNCHANGED <<serverQ, nr, clientId>>
  PROVE  IInv'
<1>1. pc'[c] = to /\ queue'[c] = <<>> /\ Len(queue'[c]) = 0 /\ DOMAIN queue'[c] = {}
  BY LeavesTypes
<1>2. ClientInv(c) /\ (c # zero => OwnInv(c)) /\ (\A i \in DOMAIN serverQ : RequestInv(i))
  BY DEF IInv
<1>3. ASSUME NEW i \in DOMAIN serverQ', serverQ'[i].client = c PROVE RequestInv(i)'
  <2>1. RequestInv(i) /\ serverQ'[i] = serverQ[i] /\ serverQ' = serverQ
    BY <1>2
  <2>2. CASE to = "ended"
    <3>1. pc[c] = "ready"
      BY <1>2, <1>3, <2>2 DEF ClientInv, Asking
    <3> QED BY <1>1, <1>3, <2>1, <2>2, <3>1 DEF RequestInv, OnlyClient, server, Commands
  <2>3. CASE to = "interrupted"
    BY <1>1, <1>3, <2>1, <2>3 DEF RequestInv, OnlyClient, server, Commands, HasQueue, InTable
  <2> QED BY <2>2, <2>3
<1>4. ClientInv(c)'
  BY <1>1, <1>2 DEF ClientInv, HasQueue, OnlyClient, server
<1>5. c # zero => OwnInv(c)'
  BY <1>1, <1>2 DEF OwnInv, OnlyClient, server
<1>6. up => Keeps(c)'
  BY <1>1 DEF Keeps, IInv, TableInv
<1> QED BY <1>3, <1>4, <1>5, <1>6, OthersKept

LEMMA ClientKeeps ==
  ASSUME Types, IInv, NEW c \in Procs, Client(c)
  PROVE  IInv'
<1>1. OnlyClient(c)
  BY OnlyClientSteps
<1>2. CASE SendEnd(c)
  BY <1>1, <1>2, LastRequestKeeps DEF SendEnd
<1>3. CASE SendStop(c)
  BY <1>1, <1>3, LastRequestKeeps DEF SendStop
<1>4. CASE NoServer(c)
  BY <1>1, <1>4, SilentLeaveKeeps DEF NoServer
<1>5. CASE Interrupted(c)
  BY <1>1, <1>5, SilentLeaveKeeps DEF Interrupted
<1> QED BY <1>2, <1>3, <1>4, <1>5, ConnectKeeps, IntroducedKeeps, SendCommandKeeps,
           ReceiveAnswerKeeps DEF Client

-----------------------------------------------------------------------------
(* A step of the server. *)

\* The clients are left alone and the requests behind the first move up.
OnlyServer ==
  /\ UNCHANGED <<pc, clientId, nr, zero, open>>
  /\ \A i \in DOMAIN serverQ' : i + 1 \in DOMAIN serverQ \ {1} /\ serverQ'[i] = serverQ[i + 1]
  /\ \A j \in DOMAIN serverQ \ {1} : \E i \in DOMAIN serverQ' : j = i + 1
  /\ 1 \in DOMAIN serverQ /\ DOMAIN serverQ \subseteq Nat /\ DOMAIN serverQ' \subseteq Nat

LEMMA OnlyServerSteps ==
  ASSUME Types, serverQ # <<>>, serverQ' = Tail(serverQ),
         UNCHANGED <<pc, clientId, nr, zero, open>>
  PROVE  OnlyServer /\ Head(serverQ) = serverQ[1] /\ Head(serverQ) \in Requested
<1>1. /\ Tail(serverQ) \in Seq(Requested) /\ Head(serverQ) = serverQ[1]
      /\ Head(serverQ) \in Requested /\ 1 \in DOMAIN serverQ
      /\ \A i \in DOMAIN Tail(serverQ) :
            i + 1 \in DOMAIN serverQ /\ i + 1 # 1 /\ Tail(serverQ)[i] = serverQ[i + 1]
      /\ Len(serverQ) \in Nat \ {0} /\ Len(Tail(serverQ)) = Len(serverQ) - 1
  BY TailAt DEF Types
<1>2. DOMAIN serverQ = 1..Len(serverQ) /\ DOMAIN Tail(serverQ) = 1..(Len(serverQ) - 1)
  BY <1>1, LenProperties DEF Types
<1>3. \A j \in DOMAIN serverQ \ {1} : j - 1 \in DOMAIN Tail(serverQ) /\ j = (j - 1) + 1
  BY <1>1, <1>2
<1>4. DOMAIN serverQ \subseteq Nat /\ DOMAIN Tail(serverQ) \subseteq Nat
  BY <1>1, <1>2
<1> QED BY <1>1, <1>3, <1>4 DEF OnlyServer

\* A request in the queue names a client.
LEMMA RequestClient ==
  ASSUME Types, NEW i \in DOMAIN serverQ
  PROVE  serverQ[i] \in Requested /\ serverQ[i].client \in Procs
<1>1. serverQ[i] \in Requested
  BY ElementOfSeq, LenProperties DEF Types
<1> QED BY <1>1 DEF Requested

\* What is left to show of a request that has moved up.
LEMMA RequestKept ==
  ASSUME Types, IInv, OnlyServer, up' => up,
         NEW i \in DOMAIN serverQ', NEW d, serverQ'[i].client = d,
         serverQ'[i].mtype = "INTRODUCE" =>
           ~InTable(d)' /\ \A k \in DOMAIN queue'[d] : queue'[d][k].mtype # "REPLY",
         serverQ'[i].mtype \in Commands \cup {"STOP"} /\ up' =>
           clients'[serverQ'[i].clientId] = d
  PROVE  RequestInv(i)'
<1> USE DEF OnlyServer
<1>1. /\ RequestInv(i + 1) /\ serverQ'[i] = serverQ[i + 1] /\ i \in Nat
  BY DEF IInv
<1>2. ASSUME serverQ'[i].mtype = "INTRODUCE", NEW j \in DOMAIN serverQ',
             serverQ'[j].client = d
      PROVE  j = i
  <2>1. j + 1 \in DOMAIN serverQ /\ serverQ'[j] = serverQ[j + 1] /\ j \in Nat
    OBVIOUS
  <2>2. j + 1 = i + 1
    BY <1>1, <1>2, <2>1 DEF RequestInv
  <2> QED BY <1>1, <2>1, <2>2
<1>3. ASSUME serverQ'[i].mtype = "STOP", NEW j \in DOMAIN serverQ',
             serverQ'[j].client = d
      PROVE  j <= i
  <2>1. j + 1 \in DOMAIN serverQ /\ serverQ'[j] = serverQ[j + 1] /\ j \in Nat
    OBVIOUS
  <2>2. j + 1 <= i + 1
    BY <1>1, <1>3, <2>1 DEF RequestInv
  <2> QED BY <1>1, <2>1, <2>2
<1>4. /\ serverQ'[i].mtype = "INTRODUCE" => pc'[d] \in {"introduced", "refused", "interrupted"}
      /\ serverQ'[i].mtype \in Commands \cup {"STOP"} =>
           /\ serverQ'[i].clientId \in Ids /\ serverQ'[i].clientId = clientId'[d]
           /\ pc'[d] \notin {"start", "introduced", "refused"}
      /\ serverQ'[i].mtype = "STOP" => pc'[d] = "stopped"
      /\ serverQ'[i].mtype = "END" => pc'[d] = "ended"
  BY <1>1 DEF RequestInv
<1> QED BY <1>2, <1>3, <1>4 DEF RequestInv

\* A client that nobody answers has at most the requests it had.
LEMMA OwnKept ==
  ASSUME Types, IInv, OnlyServer, NEW d \in Procs \ {zero}, queue'[d] = queue[d]
  PROVE  OwnInv(d)'
<1> USE DEF OnlyServer
<1>1. OwnInv(d)
  BY DEF IInv
<1>2. Asking(d)' => Asking(d)
  BY DEF Asking
<1>3. ASSUME NEW i \in DOMAIN serverQ', NEW j \in DOMAIN serverQ',
             serverQ'[i].client = d, serverQ'[j].client = d
      PROVE  i = j
  <2>1. i + 1 = j + 1 /\ i \in Nat /\ j \in Nat
    BY <1>1, <1>3 DEF OwnInv
  <2> QED BY <2>1
<1>4. ASSUME pc'[d] = "waiting", NEW i \in DOMAIN serverQ', serverQ'[i].client = d
      PROVE  serverQ'[i].nr = nr'[d]
  BY <1>1, <1>4 DEF OwnInv
<1> QED BY <1>1, <1>2, <1>3, <1>4 DEF OwnInv

\* Who keeps a place is still on the way, except the sender of a STOP or END.
LEMMA KeepsKept ==
  ASSUME Types, IInv, OnlyServer, NEW d, Keeps(d),
         serverQ[1].mtype \in {"STOP", "END"} => serverQ[1].client # d
  PROVE  Keeps(d)'
<1>1. ASSUME NEW mtype \in {"STOP", "END"}, Sent(d, mtype) PROVE Sent(d, mtype)'
  <2>1. PICK j \in DOMAIN serverQ : serverQ[j].client = d /\ serverQ[j].mtype = mtype
    BY <1>1 DEF Sent
  <2>2. j # 1
    BY <2>1
  <2> QED BY <2>1, <2>2 DEF OnlyServer, Sent
<1> QED BY <1>1 DEF Keeps, OnlyServer, HasQueue

\* A request that has no effect: CalcCrashes, Unrecognized, or an answer to a
\* client that has gone.
LEMMA TakenKeeps ==
  ASSUME Types, IInv, OnlyServer, UNCHANGED <<clients, queue>>, up' \in BOOLEAN,
         up' => up /\ serverQ[1].mtype \notin {"STOP", "END"}
  PROVE  IInv'
<1>1. ASSUME NEW i \in DOMAIN serverQ' PROVE RequestInv(i)'
  <2>1. PICK d : serverQ'[i].client = d
    OBVIOUS
  <2>2. RequestInv(i + 1) /\ serverQ'[i] = serverQ[i + 1]
    BY DEF IInv, OnlyServer
  <2>3. serverQ'[i].mtype = "INTRODUCE" =>
           ~InTable(d)' /\ \A k \in DOMAIN queue'[d] : queue'[d][k].mtype # "REPLY"
    BY <2>1, <2>2 DEF RequestInv, InTable
  <2>4. serverQ'[i].mtype \in Commands \cup {"STOP"} /\ up' =>
           clients'[serverQ'[i].clientId] = d
    BY <2>1, <2>2 DEF RequestInv
  <2> QED BY <2>1, <2>3, <2>4, RequestKept
<1>2. ASSUME NEW d \in Procs PROVE ClientInv(d)'
  <2>1. ClientInv(d)
    BY DEF IInv
  <2>2. Asking(d)' => Asking(d)
    BY DEF Asking, OnlyServer
  <2> QED BY <2>1, <2>2 DEF ClientInv, HasQueue, InTable, OnlyServer
<1>3. \A d \in Procs \ {zero} : OwnInv(d)'
  BY OwnKept
<1>4. TableInv'
  <2>1. ASSUME up', NEW id \in Ids, NEW d, clients'[id] = d, d # Nobody PROVE Keeps(d)'
    <3>1. Keeps(d)
      BY <2>1 DEF IInv, TableInv
    <3> QED BY <2>1, <3>1, KeepsKept
  <2> QED BY <2>1 DEF TableInv, IInv, OnlyServer
<1> QED BY <1>1, <1>2, <1>3, <1>4 DEF IInv, OnlyServer

\* An answer at the end of a queue.
LEMMA PostAt ==
  ASSUME Types, NEW c, NEW message \in Answers, Post(c, message)
  PROVE  /\ HasQueue(c) =>
              /\ queue[c] \in Seq(Answers) /\ Len(queue[c]) \in Nat
              /\ Len(queue'[c]) = Len(queue[c]) + 1 /\ queue'[c] # <<>>
              /\ DOMAIN queue'[c] = DOMAIN queue[c] \cup {Len(queue[c]) + 1}
              /\ queue'[c][Len(queue[c]) + 1] = message
              /\ \A k \in DOMAIN queue[c] : queue'[c][k] = queue[c][k]
         /\ \A d \in Procs : d # c \/ ~HasQueue(c) => queue'[d] = queue[d]
         /\ ~HasQueue(c) => queue' = queue
<1>1. ASSUME HasQueue(c)
      PROVE  /\ queue[c] \in Seq(Answers) /\ Len(queue[c]) \in Nat
             /\ Len(queue'[c]) = Len(queue[c]) + 1 /\ queue'[c] # <<>>
             /\ DOMAIN queue'[c] = DOMAIN queue[c] \cup {Len(queue[c]) + 1}
             /\ queue'[c][Len(queue[c]) + 1] = message
             /\ \A k \in DOMAIN queue[c] : queue'[c][k] = queue[c][k]
  <2> DEFINE q == queue[c]
  <2>1. q \in Seq(Answers)
    BY <1>1 DEF HasQueue, Types
  <2>2. queue'[c] = Append(q, message)
    BY <1>1, PostTypes
  <2> HIDE DEF q
  <2>3. Len(q) \in Nat /\ Len(Append(q, message)) = Len(q) + 1 /\ Append(q, message) # <<>>
    BY <2>1
  <2> QED BY <2>1, <2>2, <2>3, AppendAt DEF q
<1> QED BY <1>1, PostTypes DEF Post

\* The only answer in a queue, to the request that has just been taken.
LEMMA AnsweredOwn ==
  ASSUME NEW c \in Procs, NEW message, ~Asking(c)', pc'[c] \in {"introduced", "waiting"},
         Len(queue'[c]) = 1, queue'[c][1] = message,
         message.client = c, message.nr = nr'[c],
         pc'[c] = "introduced" => message.mtype = "REPLY"
  PROVE  OwnInv(c)'
<1>1. \A i \in DOMAIN serverQ' : serverQ'[i].client # c
  BY DEF Asking
<1> QED BY <1>1 DEF OwnInv

LEMMA RegisterKeeps ==
  ASSUME Types, IInv, OnlyServer, up, up' = up, serverQ[1] \in Requested,
         serverQ[1].mtype = "INTRODUCE", Register(serverQ[1])
  PROVE  IInv'
<1>0. PICK c, id, message : c = serverQ[1].client /\ id = FirstFree
                            /\ message = Answer("REPLY", c, 0, id)
  OBVIOUS
<1>1. c \in Procs /\ id \in Ids /\ clients[id] = Nobody
  BY <1>0, FirstFreeIsFree DEF Register, FreeIds, Requested
<1>2. /\ message \in Answers /\ message.mtype = "REPLY" /\ message.client = c
      /\ message.nr = 0 /\ message.id = id
  BY <1>0, <1>1, MaxAssumption DEF Answer, Answers
<1>3. /\ Post(c, message)
      /\ HasQueue(c) => clients' = [clients EXCEPT ![id] = c]
      /\ ~HasQueue(c) => clients' = clients
  BY <1>0 DEF Register
<1>4. RequestInv(1) /\ serverQ[1].client = c
  BY <1>0 DEF IInv, OnlyServer
<1>5. /\ pc[c] \in {"introduced", "refused", "interrupted"} /\ ~InTable(c) /\ c # Nobody
      /\ \A j \in DOMAIN serverQ : serverQ[j].client = c => j = 1
      /\ \A k \in DOMAIN queue[c] : queue[c][k].mtype # "REPLY"
  BY <1>1, <1>4, NobodyAssumption DEF RequestInv
<1>6. CASE ~HasQueue(c)
  BY <1>2, <1>3, <1>6, PostAt, TakenKeeps DEF Types
<1>7. CASE HasQueue(c)
  <2>1. /\ pc[c] = "introduced" /\ Len(queue[c]) \in Nat
        /\ Len(queue'[c]) = Len(queue[c]) + 1
        /\ DOMAIN queue'[c] = DOMAIN queue[c] \cup {Len(queue[c]) + 1}
        /\ queue'[c][Len(queue[c]) + 1] = message
        /\ \A k \in DOMAIN queue[c] : queue'[c][k] = queue[c][k]
        /\ \A d \in Procs : d # c => queue'[d] = queue[d]
    BY <1>2, <1>3, <1>5, <1>7, PostAt DEF HasQueue
  <2>2. /\ clients'[id] = c
        /\ \A other \in Ids \ {id} : clients'[other] = clients[other]
    BY <1>1, <1>3, <1>7 DEF Types
  <2>3. ~Asking(c)'
    BY <1>5 DEF Asking, OnlyServer
  <2>4. ASSUME NEW i \in DOMAIN serverQ' PROVE RequestInv(i)'
    <3>1. PICK d : serverQ'[i].client = d
      OBVIOUS
    <3>2. RequestInv(i + 1) /\ serverQ'[i] = serverQ[i + 1] /\ d # c
      BY <1>5, <3>1 DEF IInv, OnlyServer
    <3>3. d \in Procs
      BY <3>1, <3>2, RequestClient DEF OnlyServer
    <3>4. serverQ'[i].mtype = "INTRODUCE" =>
             ~InTable(d)' /\ \A k \in DOMAIN queue'[d] : queue'[d][k].mtype # "REPLY"
      BY <2>1, <2>2, <3>1, <3>2, <3>3 DEF RequestInv, InTable
    <3>5. serverQ'[i].mtype \in Commands \cup {"STOP"} /\ up' =>
             clients'[serverQ'[i].clientId] = d
      BY <1>1, <2>2, <3>1, <3>2, <3>3, NobodyAssumption DEF RequestInv
    <3> QED BY <3>1, <3>4, <3>5, RequestKept
  <2>5. ASSUME NEW d \in Procs PROVE ClientInv(d)'
    <3>1. ClientInv(d) /\ (Asking(d)' => Asking(d))
      BY DEF IInv, Asking, OnlyServer
    <3>2. CASE d = c
      <4>1. nr'[c] = 0 /\ pc'[c] = "introduced"
        BY <2>1, <3>1, <3>2 DEF ClientInv, OnlyServer
      <4>2. \A k \in DOMAIN queue'[c] : queue'[c][k].mtype = "REPLY" => queue'[c][k].id = id
        BY <1>2, <1>5, <2>1
      <4> QED BY <1>1, <2>2, <3>2, <4>1, <4>2 DEF ClientInv, HasQueue
    <3>3. CASE d # c
      <4>1. InTable(d)' => InTable(d)
        BY <2>2, <3>3 DEF InTable
      <4>2. \A other \in Ids : clients[other] = d => clients'[other] = d
        BY <1>1, <2>2, NobodyAssumption
      <4> QED BY <2>1, <3>1, <3>3, <4>1, <4>2 DEF ClientInv, HasQueue, OnlyServer
    <3> QED BY <3>2, <3>3
  <2>6. ASSUME NEW d \in Procs \ {zero} PROVE OwnInv(d)'
    <3>1. CASE d = c
      <4>1. queue[c] = <<>> /\ nr[c] = 0
        <5>1. Asking(c)
          BY <1>4 DEF Asking, OnlyServer
        <5> QED BY <2>1, <3>1, <5>1 DEF IInv, OwnInv, ClientInv
      <4>2. Len(queue[c]) = 0
        BY <4>1, EmptySeq
      <4>3. Len(queue'[c]) = 1 /\ queue'[c][1] = message
        BY <2>1, <4>2
      <4> QED BY <1>1, <1>2, <2>1, <2>3, <3>1, <4>1, <4>3, AnsweredOwn DEF OnlyServer
    <3>2. CASE d # c
      BY <2>1, <3>2, OwnKept
    <3> QED BY <3>1, <3>2
  <2>7. TableInv'
    <3>1. ASSUME up', NEW other \in Ids, NEW d, clients'[other] = d, d # Nobody PROVE Keeps(d)'
      <4>1. CASE other = id
        BY <1>7, <2>2, <3>1, <4>1 DEF Keeps, HasQueue, OnlyServer
      <4>2. CASE other # id
        BY <2>2, <3>1, <4>2, KeepsKept DEF IInv, TableInv
      <4> QED BY <4>1, <4>2
    <3>2. ASSUME NEW a \in Ids, NEW b \in Ids, clients'[a] = clients'[b], a # b
          PROVE  clients'[a] = Nobody
      BY <1>5, <2>2, <3>2 DEF InTable, IInv, TableInv
    <3> QED BY <3>1, <3>2 DEF TableInv, IInv, OnlyServer
  <2> QED BY <2>4, <2>5, <2>6, <2>7 DEF IInv, OnlyServer
<1> QED BY <1>6, <1>7

LEMMA RespondKeeps ==
  ASSUME Types, IInv, OnlyServer, up, up' = up, serverQ[1] \in Requested,
         serverQ[1].mtype \in Commands, Respond(serverQ[1])
  PROVE  IInv'
<1>0. PICK c, message :
        /\ c = serverQ[1].client
        /\ \E mtype \in {"REPLY", "ERROR"} : message = Answer(mtype, c, serverQ[1].nr, -1)
        /\ Post(clients[serverQ[1].clientId], message)
  BY DEF Respond
<1>1. c \in Procs /\ message \in Answers /\ message.client = c /\ message.nr = serverQ[1].nr
  BY <1>0 DEF Answer, Answers, Requested
<1>2. RequestInv(1) /\ serverQ[1].client = c /\ clients' = clients
  BY <1>0 DEF IInv, OnlyServer, Respond
<1>3. Post(c, message) /\ pc[c] \notin {"start", "introduced", "refused"}
  BY <1>0, <1>2 DEF RequestInv
<1>4. CASE ~HasQueue(c)
  BY <1>1, <1>2, <1>3, <1>4, PostAt, TakenKeeps DEF Commands
<1>5. CASE HasQueue(c)
  <2>1. /\ pc[c] \in {"ready", "waiting"} /\ Len(queue[c]) \in Nat
        /\ Len(queue'[c]) = Len(queue[c]) + 1
        /\ queue'[c][Len(queue[c]) + 1] = message
        /\ \A d \in Procs : d # c => queue'[d] = queue[d]
    BY <1>1, <1>3, <1>5, PostAt DEF HasQueue
  <2>2. Asking(c)
    BY <1>2 DEF Asking, OnlyServer
  <2>3. ASSUME NEW i \in DOMAIN serverQ' PROVE RequestInv(i)'
    <3>1. PICK d : serverQ'[i].client = d
      OBVIOUS
    <3>2. RequestInv(i + 1) /\ serverQ'[i] = serverQ[i + 1]
      BY DEF IInv, OnlyServer
    <3>3. d \in Procs
      BY <3>1, <3>2, RequestClient DEF OnlyServer
    <3>4. serverQ'[i].mtype = "INTRODUCE" =>
             ~InTable(d)' /\ \A k \in DOMAIN queue'[d] : queue'[d][k].mtype # "REPLY"
      <4>1. serverQ'[i].mtype = "INTRODUCE" => d # c
        BY <2>1, <3>1, <3>2 DEF RequestInv
      <4> QED BY <1>2, <2>1, <3>1, <3>2, <3>3, <4>1 DEF RequestInv, InTable
    <3>5. serverQ'[i].mtype \in Commands \cup {"STOP"} /\ up' =>
             clients'[serverQ'[i].clientId] = d
      BY <1>2, <3>1, <3>2 DEF RequestInv
    <3> QED BY <3>1, <3>4, <3>5, RequestKept
  <2>4. ASSUME NEW d \in Procs PROVE ClientInv(d)'
    <3>1. ClientInv(d) /\ (Asking(d)' => Asking(d))
      BY DEF IInv, Asking, OnlyServer
    <3>2. CASE d = c
      BY <1>2, <2>1, <3>1, <3>2 DEF ClientInv, HasQueue, OnlyServer
    <3>3. CASE d # c
      BY <1>2, <2>1, <3>1, <3>3 DEF ClientInv, HasQueue, InTable, OnlyServer
    <3> QED BY <3>2, <3>3
  <2>5. ASSUME NEW d \in Procs \ {zero} PROVE OwnInv(d)'
    <3>1. CASE d = c
      <4>1. OwnInv(c)
        BY <3>1 DEF IInv
      <4>2. queue[c] = <<>> /\ pc[c] = "waiting" /\ serverQ[1].nr = nr[c]
        BY <1>2, <2>1, <2>2, <4>1 DEF OwnInv, OnlyServer
      <4>3. Len(queue[c]) = 0
        BY <4>2, EmptySeq
      <4>4. Len(queue'[c]) = 1 /\ queue'[c][1] = message
        BY <2>1, <4>3
      <4>5. ~Asking(c)'
        BY <1>2, <4>1 DEF OwnInv, Asking, OnlyServer
      <4> QED BY <1>1, <3>1, <4>2, <4>4, <4>5, AnsweredOwn DEF OnlyServer
    <3>2. CASE d # c
      BY <2>1, <3>2, OwnKept
    <3> QED BY <3>1, <3>2
  <2>6. TableInv'
    <3>1. ASSUME up', NEW id \in Ids, NEW d, clients'[id] = d, d # Nobody PROVE Keeps(d)'
      BY <1>2, <3>1, KeepsKept DEF IInv, TableInv, Commands
    <3> QED BY <1>2, <3>1 DEF TableInv, IInv, OnlyServer
  <2> QED BY <2>3, <2>4, <2>5, <2>6 DEF IInv, OnlyServer
<1> QED BY <1>4, <1>5

LEMMA DeleteKeeps ==
  ASSUME Types, IInv, OnlyServer, up, up' = up, serverQ[1] \in Requested,
         serverQ[1].mtype = "STOP", delete_client(serverQ[1])
  PROVE  IInv'
<1>0. PICK c, id : c = serverQ[1].client /\ id = serverQ[1].clientId
  OBVIOUS
<1>1. RequestInv(1) /\ serverQ[1].client = c
  BY <1>0 DEF IInv, OnlyServer
<1>2. /\ c \in Procs /\ id \in Ids /\ clients[id] = c /\ pc[c] = "stopped"
      /\ \A j \in DOMAIN serverQ : serverQ[j].client = c => j <= 1
  BY <1>0, <1>1 DEF RequestInv, Requested
<1>3. /\ queue' = queue /\ clients'[id] = Nobody
      /\ \A other \in Ids \ {id} : clients'[other] = clients[other]
  BY <1>0, <1>2 DEF delete_client, Types
<1>4. ASSUME NEW i \in DOMAIN serverQ' PROVE serverQ'[i].client # c
  <2>1. i + 1 \in DOMAIN serverQ /\ i + 1 # 1 /\ i \in Nat /\ serverQ'[i] = serverQ[i + 1]
    BY DEF OnlyServer
  <2>2. ~(i + 1 <= 1) /\ 0 \notin DOMAIN serverQ
    <3>1. DOMAIN serverQ = 1..Len(serverQ)
      BY LenProperties DEF Types
    <3> QED BY <2>1, <3>1
  <2> QED BY <1>2, <2>1, <2>2
<1>5. ASSUME NEW d \in Procs PROVE InTable(d)' => InTable(d)
  BY <1>3, NobodyAssumption DEF InTable
<1>6. ASSUME NEW d, d # c, NEW other \in Ids, clients[other] = d
      PROVE  clients'[other] = d
  BY <1>2, <1>3, <1>6
<1>7. ASSUME NEW i \in DOMAIN serverQ' PROVE RequestInv(i)'
  <2>1. PICK d : serverQ'[i].client = d
    OBVIOUS
  <2>2. RequestInv(i + 1) /\ serverQ'[i] = serverQ[i + 1] /\ d # c
    BY <1>4, <2>1 DEF IInv, OnlyServer
  <2>3. d \in Procs
    BY <2>1, <2>2, RequestClient DEF OnlyServer
  <2>4. serverQ'[i].mtype = "INTRODUCE" =>
           ~InTable(d)' /\ \A k \in DOMAIN queue'[d] : queue'[d][k].mtype # "REPLY"
    BY <1>3, <1>5, <2>1, <2>2, <2>3 DEF RequestInv
  <2>5. serverQ'[i].mtype \in Commands \cup {"STOP"} /\ up' =>
           clients'[serverQ'[i].clientId] = d
    BY <1>6, <2>1, <2>2 DEF RequestInv
  <2> QED BY <2>1, <2>4, <2>5, RequestKept
<1>8. ASSUME NEW d \in Procs PROVE ClientInv(d)'
  <2>1. ClientInv(d) /\ (Asking(d)' => Asking(d))
    BY DEF IInv, Asking, OnlyServer
  <2>2. pc[d] \in {"introduced", "ready", "waiting"} => d # c
    BY <1>2
  <2> QED BY <1>3, <1>5, <1>6, <2>1, <2>2 DEF ClientInv, HasQueue, OnlyServer
<1>9. \A d \in Procs \ {zero} : OwnInv(d)'
  BY <1>3, OwnKept
<1>10. TableInv'
  <2>1. ASSUME up', NEW other \in Ids, NEW d, clients'[other] = d, d # Nobody PROVE Keeps(d)'
    <3>1. other # id /\ clients[other] = d
      BY <1>3, <2>1
    <3>2. Keeps(d) /\ d # c
      BY <1>2, <2>1, <3>1 DEF IInv, TableInv
    <3> QED BY <1>1, <3>2, KeepsKept
  <2> QED BY <1>3, <2>1 DEF TableInv, IInv, OnlyServer
<1> QED BY <1>7, <1>8, <1>9, <1>10 DEF IInv, OnlyServer

\* A refusal goes to queue 0. If that is the server's own, it is back at its end.
LEMMA RefuseKeeps ==
  ASSUME Types, IInv, up, up' = up, serverQ # <<>>,
         Head(serverQ).mtype = "INTRODUCE", Refuse(Head(serverQ)),
         UNCHANGED <<pc, clientId, nr, zero, open>>
  PROVE  IInv'
<1>0. PICK c, error, message :
        /\ c = Head(serverQ).client
        /\ error = [Head(serverQ) EXCEPT !.mtype = "ERROR"]
        /\ message = Answer("ERROR", c, 0, -1)
  OBVIOUS
<1>1. /\ Tail(serverQ) \in Seq(Requested) /\ Head(serverQ) = serverQ[1]
      /\ Head(serverQ) \in Requested /\ 1 \in DOMAIN serverQ
      /\ \A i \in DOMAIN Tail(serverQ) :
            i + 1 \in DOMAIN serverQ /\ i + 1 # 1 /\ Tail(serverQ)[i] = serverQ[i + 1]
      /\ Len(serverQ) \in Nat \ {0} /\ Len(Tail(serverQ)) = Len(serverQ) - 1
  BY TailAt DEF Types
<1>2. /\ error \in Requested /\ error.client = c /\ error.mtype = "ERROR"
      /\ message \in Answers /\ message.mtype = "ERROR" /\ c \in Procs
  BY <1>0, <1>1, MaxAssumption, SMTT(30) DEF Requested, Answer, Answers
<1>3. /\ RequestInv(1) /\ serverQ[1].client = c /\ serverQ[1].mtype = "INTRODUCE"
      /\ clients' = clients /\ Post(zero, message)
  BY <1>0, <1>1 DEF IInv, Refuse
<1>4. /\ pc[c] \in {"introduced", "refused", "interrupted"}
      /\ \A j \in DOMAIN serverQ : serverQ[j].client = c => j = 1
  BY <1>3 DEF RequestInv
\* A request that is left has moved up, or it is the refusal.
<1> DEFINE Moved(i) == i \in Nat /\ i + 1 \in DOMAIN serverQ \ {1} /\ serverQ'[i] = serverQ[i + 1]
<1>5. /\ serverQ' = IF zero = "server" THEN Append(Tail(serverQ), error) ELSE Tail(serverQ)
      /\ DOMAIN serverQ = 1..Len(serverQ) /\ DOMAIN Tail(serverQ) = 1..(Len(serverQ) - 1)
  BY <1>0, <1>1, LenProperties DEF Refuse, Types
<1>6. \A i \in DOMAIN serverQ' :
        Moved(i) \/ (i = Len(serverQ) /\ serverQ'[i] = error)
  <2>1. CASE zero = "server"
    <3>1. serverQ' = Append(Tail(serverQ), error)
      BY <1>5, <2>1
    <3>2. /\ DOMAIN serverQ' = DOMAIN Tail(serverQ) \cup {Len(Tail(serverQ)) + 1}
          /\ \A i \in DOMAIN Tail(serverQ) : serverQ'[i] = Tail(serverQ)[i]
          /\ serverQ'[Len(Tail(serverQ)) + 1] = error
      BY <1>1, <1>2, <3>1, AppendAt
    <3>3. Len(Tail(serverQ)) + 1 = Len(serverQ)
      BY <1>1
    <3> QED BY <1>1, <1>5, <3>2, <3>3
  <2>2. CASE zero # "server"
    BY <1>1, <1>5, <2>2
  <2> QED BY <2>1, <2>2
<1>7. \A j \in DOMAIN serverQ \ {1} : \E i \in DOMAIN serverQ' : Moved(i) /\ j = i + 1
  <2> SUFFICES ASSUME NEW j \in DOMAIN serverQ, j # 1
               PROVE  j - 1 \in DOMAIN serverQ' /\ Moved(j - 1) /\ j = (j - 1) + 1
    BY Zenon
  <2>1. j \in Nat /\ j - 1 \in 1..(Len(serverQ) - 1) /\ j = (j - 1) + 1
    BY <1>1, <1>5
  <2>2. j - 1 \in DOMAIN serverQ' /\ serverQ'[j - 1] = Tail(serverQ)[j - 1]
    BY <1>1, <1>2, <1>5, <2>1, AppendAt
  <2> QED BY <1>1, <1>5, <2>1, <2>2
<1> HIDE DEF Moved
<1>8. ASSUME NEW i \in DOMAIN serverQ', Moved(i)
      PROVE  /\ RequestInv(i + 1) /\ serverQ'[i] = serverQ[i + 1] /\ i \in Nat
             /\ i + 1 \in DOMAIN serverQ /\ serverQ'[i].client # c
             /\ serverQ'[i].client \in Procs
  BY <1>4, <1>8, RequestClient DEF Moved, IInv
<1>9. /\ \A d \in Procs : d # zero => queue'[d] = queue[d]
      /\ \A d \in Procs : \A k \in DOMAIN queue'[d] :
           \/ k \in DOMAIN queue[d] /\ queue'[d][k] = queue[d][k]
           \/ queue'[d][k].mtype = "ERROR"
      /\ \A d \in Procs : ~HasQueue(d) => queue'[d] = queue[d]
  <2>1. HasQueue(zero) =>
          /\ DOMAIN queue'[zero] = DOMAIN queue[zero] \cup {Len(queue[zero]) + 1}
          /\ queue'[zero][Len(queue[zero]) + 1] = message
          /\ \A k \in DOMAIN queue[zero] : queue'[zero][k] = queue[zero][k]
    BY <1>2, <1>3, PostAt
  <2>2. \A d \in Procs : d # zero \/ ~HasQueue(zero) => queue'[d] = queue[d]
    BY <1>2, <1>3, PostAt
  <2> QED BY <1>2, <2>1, <2>2
<1>10. ASSUME NEW i \in DOMAIN serverQ' PROVE RequestInv(i)'
  <2>1. CASE ~Moved(i)
    <3>1. serverQ'[i] = error
      BY <1>6, <2>1
    <3> QED BY <1>2, <3>1 DEF RequestInv, Commands
  <2>2. CASE Moved(i)
    <3>1. PICK d : serverQ'[i].client = d
      OBVIOUS
    <3>2. /\ RequestInv(i + 1) /\ serverQ'[i] = serverQ[i + 1] /\ i \in Nat
          /\ d # c /\ d \in Procs
      BY <1>8, <2>2, <3>1
    <3>3. ASSUME NEW j \in DOMAIN serverQ', serverQ'[j].client = d
          PROVE  /\ j \in Nat /\ j + 1 \in DOMAIN serverQ /\ serverQ[j + 1].client = d
      <4>1. Moved(j)
        BY <1>2, <1>6, <3>2, <3>3
      <4> QED BY <1>8, <3>3, <4>1
    <3>4. ASSUME serverQ'[i].mtype = "INTRODUCE"
          PROVE  /\ ~InTable(d)' /\ pc'[d] \in {"introduced", "refused", "interrupted"}
                 /\ \A j \in DOMAIN serverQ' : serverQ'[j].client = d => j = i
                 /\ \A k \in DOMAIN queue'[d] : queue'[d][k].mtype # "REPLY"
      <4>1. /\ ~InTable(d) /\ pc[d] \in {"introduced", "refused", "interrupted"}
            /\ \A k \in DOMAIN queue[d] : queue[d][k].mtype # "REPLY"
            /\ \A j \in DOMAIN serverQ : serverQ[j].client = d => j = i + 1
        BY <3>1, <3>2, <3>4 DEF RequestInv
      <4>2. ASSUME NEW j \in DOMAIN serverQ', serverQ'[j].client = d PROVE j = i
        <5>1. j + 1 = i + 1 /\ j \in Nat
          BY <3>3, <4>1, <4>2
        <5> QED BY <3>2, <5>1
      <4>3. ~InTable(d)'
        BY <1>3, <4>1 DEF InTable
      <4>4. \A k \in DOMAIN queue'[d] : queue'[d][k].mtype # "REPLY"
        BY <1>9, <3>2, <4>1
      <4> QED BY <4>1, <4>2, <4>3, <4>4
    <3>5. ASSUME serverQ'[i].mtype = "STOP", NEW j \in DOMAIN serverQ', serverQ'[j].client = d
          PROVE  j <= i
      <4>1. j + 1 <= i + 1 /\ j \in Nat
        BY <3>1, <3>2, <3>3, <3>5 DEF RequestInv
      <4> QED BY <3>2, <4>1
    <3>6. /\ serverQ'[i].mtype \in Commands \cup {"STOP"} =>
               /\ serverQ'[i].clientId \in Ids /\ serverQ'[i].clientId = clientId'[d]
               /\ up' => clients'[serverQ'[i].clientId] = d
               /\ pc'[d] \notin {"start", "introduced", "refused"}
          /\ serverQ'[i].mtype = "STOP" => pc'[d] = "stopped"
          /\ serverQ'[i].mtype = "END" => pc'[d] = "ended"
      BY <1>3, <3>1, <3>2 DEF RequestInv
    <3> QED BY <3>1, <3>4, <3>5, <3>6 DEF RequestInv
  <2> QED BY <2>1, <2>2
<1>11. ASSUME NEW d, Asking(d)' PROVE Asking(d)
  <2>1. PICK i \in DOMAIN serverQ' : serverQ'[i].client = d
    BY <1>11 DEF Asking
  <2>2. CASE Moved(i)
    BY <1>8, <2>1, <2>2 DEF Asking
  <2>3. CASE ~Moved(i)
    BY <1>1, <1>2, <1>3, <1>6, <2>1, <2>3 DEF Asking
  <2> QED BY <2>2, <2>3
<1>12. ASSUME NEW d \in Procs PROVE ClientInv(d)'
  <2>1. ClientInv(d)
    BY DEF IInv
  <2>2. pc[d] = "introduced" => \A k \in DOMAIN queue'[d] : queue'[d][k].mtype = "REPLY" =>
          queue'[d][k].id \in Ids /\ (up' => clients'[queue'[d][k].id] = d)
    BY <1>3, <1>9, <2>1 DEF ClientInv
  <2>3. ~HasQueue(d) => queue'[d] = <<>>
    BY <1>9, <2>1 DEF ClientInv
  <2> QED BY <1>3, <1>11, <2>1, <2>2, <2>3 DEF ClientInv, HasQueue, InTable
<1>13. ASSUME NEW d \in Procs \ {zero} PROVE OwnInv(d)'
  <2>1. OwnInv(d) /\ queue'[d] = queue[d]
    BY <1>9 DEF IInv
  <2>2. ASSUME NEW i \in DOMAIN serverQ', NEW j \in DOMAIN serverQ',
               serverQ'[i].client = d, serverQ'[j].client = d
        PROVE  i = j
    <3>1. CASE d = c
      BY <1>6, <1>8, <2>2, <3>1
    <3>2. CASE d # c
      <4>1. Moved(i) /\ Moved(j)
        BY <1>2, <1>6, <2>2, <3>2
      <4>2. i + 1 = j + 1 /\ i \in Nat /\ j \in Nat
        BY <1>8, <2>1, <2>2, <4>1 DEF OwnInv
      <4> QED BY <4>2
    <3> QED BY <3>1, <3>2
  <2>3. ASSUME pc'[d] = "waiting", NEW i \in DOMAIN serverQ', serverQ'[i].client = d
        PROVE  serverQ'[i].nr = nr'[d]
    <3>1. Moved(i)
      BY <1>2, <1>4, <1>6, <2>3
    <3> QED BY <1>8, <2>1, <2>3, <3>1 DEF OwnInv
  <2> QED BY <1>11, <2>1, <2>2, <2>3 DEF OwnInv
<1>14. TableInv'
  <2>1. ASSUME NEW d, NEW mtype \in {"STOP", "END"}, Sent(d, mtype) PROVE Sent(d, mtype)'
    <3>1. PICK j \in DOMAIN serverQ : serverQ[j].client = d /\ serverQ[j].mtype = mtype
      BY <2>1 DEF Sent
    <3>2. j # 1
      BY <1>3, <3>1
    <3>3. PICK i \in DOMAIN serverQ' : Moved(i) /\ j = i + 1
      BY <1>7, <3>2
    <3> QED BY <1>8, <3>1, <3>3 DEF Sent
  <2>2. ASSUME up', NEW id \in Ids, NEW d, clients'[id] = d, d # Nobody PROVE Keeps(d)'
    <3>1. Keeps(d)
      BY <1>3, <2>2 DEF IInv, TableInv
    <3> QED BY <2>1, <3>1 DEF Keeps, HasQueue
  <2> QED BY <1>3, <2>2 DEF TableInv, IInv
<1> QED BY <1>10, <1>12, <1>13, <1>14 DEF IInv

\* With the queue of the server go the requests in it.
LEMMA EndKeeps ==
  ASSUME Types, IInv, End, UNCHANGED <<pc, clientId, nr, zero>>
  PROVE  IInv'
<1>1. /\ ~up' /\ DOMAIN serverQ' = {} /\ queue' = queue /\ clients' = clients
  BY DEF End
<1>2. \A d : ~Asking(d)'
  BY <1>1 DEF Asking
<1>3. ASSUME NEW d \in Procs PROVE ClientInv(d)'
  BY <1>1, <1>2 DEF IInv, ClientInv, HasQueue, InTable
<1>4. ASSUME NEW d \in Procs \ {zero} PROVE OwnInv(d)'
  BY <1>1, <1>2 DEF IInv, OwnInv
<1> QED BY <1>1, <1>3, <1>4 DEF IInv, TableInv

LEMMA ServerKeeps ==
  ASSUME Types, IInv, ServerReceives
  PROVE  IInv'
<1> DEFINE message == Head(serverQ)
<1>1. /\ up /\ serverQ # <<>> /\ Handle(message)
      /\ UNCHANGED <<pc, clientId, nr, zero>>
  BY DEF ServerReceives
<1>2. ASSUME serverQ' = Tail(serverQ), open' = open
      PROVE  OnlyServer /\ message = serverQ[1] /\ message \in Requested
  BY <1>1, <1>2, OnlyServerSteps
<1>3. CASE message.mtype = "END" /\ End
  BY <1>1, <1>3, EndKeeps
<1>4. CASE message.mtype = "INTRODUCE" /\ new_client(message) /\ UNCHANGED open
  <2>1. CASE Register(message)
    BY <1>1, <1>2, <1>4, <2>1, RegisterKeeps DEF Register, new_client
  <2>2. CASE Refuse(message)
    BY <1>1, <1>4, <2>2, RefuseKeeps DEF new_client
  <2> QED BY <1>4, <2>1, <2>2 DEF new_client
<1>5. CASE message.mtype \in Commands /\ Respond(message) /\ UNCHANGED open
  BY <1>1, <1>2, <1>5, RespondKeeps DEF Respond
<1>6. CASE CalcCrashes(message) /\ UNCHANGED open
  <2>1. ~up' /\ up' \in BOOLEAN
    BY <1>6 DEF CalcCrashes
  <2> QED BY <1>2, <1>6, <2>1, TakenKeeps DEF CalcCrashes
<1>7. CASE message.mtype = "STOP" /\ delete_client(message) /\ UNCHANGED open
  BY <1>1, <1>2, <1>7, DeleteKeeps DEF delete_client
<1>8. CASE message.mtype = "ERROR" /\ Unrecognized /\ UNCHANGED open
  BY <1>1, <1>2, <1>8, TakenKeeps DEF Unrecognized, Types
<1> QED BY <1>1, <1>3, <1>4, <1>5, <1>6, <1>7, <1>8 DEF Handle

LEMMA StepKeeps == Types /\ IInv /\ [Next]_vars => IInv'
<1> SUFFICES ASSUME Types, IInv, [Next]_vars PROVE IInv'
  OBVIOUS
<1>1. CASE ServerInterrupted
  BY <1>1, EndKeeps DEF ServerInterrupted
<1>2. CASE UNCHANGED vars
  BY <1>2 DEF vars, IInv, RequestInv, ClientInv, OwnInv, TableInv, Keeps, HasQueue,
              InTable, Asking, Sent
<1> QED BY <1>1, <1>2, ServerKeeps, ClientKeeps DEF Next

LEMMA Invariant == Spec => [](Types /\ IInv)
<1>1. Init => Types
  <2>1. <<>> \in Seq(Requested) /\ <<>> \in Seq(Answers) /\ 0 \in 0..MaxRequests
    BY EmptySeq, MaxAssumption
  <2> QED BY <2>1 DEF Init, Types
<1>2. Init => IInv
  <2> SUFFICES ASSUME Init PROVE IInv
    OBVIOUS
  <2>1. DOMAIN serverQ = {} /\ \A c : ~Asking(c)
    BY DEF Init, Asking
  <2>2. ASSUME NEW c \in Procs
        PROVE  queue[c] = <<>> /\ Len(queue[c]) = 0 /\ pc[c] = "start" /\ nr[c] = 0
               /\ ~InTable(c)
    BY NobodyAssumption DEF Init, InTable
  <2> QED BY <2>1, <2>2 DEF Init, IInv, ClientInv, OwnInv, TableInv, HasQueue
<1> QED BY <1>1, <1>2, StepTypes, StepKeeps, PTL DEF Spec

-----------------------------------------------------------------------------
(* The theorems. *)
LEMMA TypesAreOK == Types => TypeOK
<1> SUFFICES ASSUME Types PROVE TypeOK
  OBVIOUS
<1>1. \A i \in DOMAIN serverQ : serverQ[i] \in Requested
  BY ElementOfSeq, LenProperties DEF Types
<1>2. ASSUME NEW c \in Procs PROVE \A i \in DOMAIN queue[c] : queue[c][i] \in Answers
  <2>1. queue[c] \in Seq(Answers)
    BY DEF Types
  <2> QED BY <2>1, ElementOfSeq, LenProperties
<1> QED BY <1>1, <1>2 DEF Types, TypeOK, Requested, Answers

\* The table gives each client a place of its own for as long as it lives
\* (new_client, delete_client), whatever is refused, dropped or interrupted.
THEOREM TableStaysRight == Spec => []TableAgrees
<1>1. Types /\ IInv => TableAgrees
  BY TypesAreOK DEF TableAgrees, IInv, TableInv, ClientInv
<1> QED BY <1>1, Invariant, PTL

\* A client reads only the answer to the command it has just sent, unless its
\* queue has the identifier 0 that refusals go to (new_client).
THEOREM AnswersReachTheirAskers == Spec => []AnswersAreOwn
<1>1. Types /\ IInv => AnswersAreOwn
  BY DEF AnswersAreOwn, IInv, OwnInv
<1> QED BY <1>1, Invariant, PTL

\* A place in the table is the place of a client that lives, was killed by a
\* signal or refused, or whose STOP or END is on its way (delete_client).
THEOREM NoPlaceIsLost == Spec => []PlacesComeBack
<1>1. ASSUME Types, IInv, up, NEW id \in Ids, NEW c, c = clients[id], c # Nobody
      PROVE  \/ HasQueue(c) \/ pc[c] = "interrupted" \/ c = zero
             \/ pc[c] \in {"stopped", "ended"} /\ Requests(c) # {}
  <2>1. Keeps(c) /\ c \in Procs
    BY <1>1 DEF IInv, TableInv, Types
  <2>2. Asking(c) => Requests(c) # {}
    BY <1>1 DEF Asking, Requests
  <2> QED BY <1>1, <2>1, <2>2 DEF Keeps, Sent, Asking, IInv, ClientInv
<1>2. Types /\ IInv => PlacesComeBack
  BY <1>1 DEF PlacesComeBack
<1> QED BY <1>2, Invariant, PTL
=============================================================================
