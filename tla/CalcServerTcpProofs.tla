------------------------ MODULE CalcServerTcpProofs ------------------------
(***************************************************************************)
(* The calculator server over stream sockets keeps a list of clients they  *)
(* agree with, its three threads write what the clients can read, it       *)
(* counts pings and hands out orders right, and drops nobody without       *)
(* cause, for any number of processes, names, places and orders.           *)
(***************************************************************************)
EXTENDS CalcServerTcp, FiniteSetTheorems, SequenceTheorems, TLAPS

(* Sequences and numbers. *)
\* What is left of a sequence when its first element is taken.
LEMMA TailAt ==
  ASSUME NEW S, NEW s \in Seq(S), s # <<>>
  PROVE  /\ Tail(s) \in Seq(S) /\ Head(s) = s[1] /\ Head(s) \in S
         /\ 1 \in DOMAIN s
         /\ \A i \in DOMAIN Tail(s) :
              i + 1 \in DOMAIN s /\ i + 1 # 1 /\ Tail(s)[i] = s[i + 1]
         /\ Len(s) \in Nat \ {0} /\ Len(Tail(s)) = Len(s) - 1
BY SMT

\* What it is when an element has been added at its end.
LEMMA AppendAt ==
  ASSUME NEW S, NEW s \in Seq(S), NEW e \in S
  PROVE  /\ Append(s, e) \in Seq(S)
         /\ DOMAIN Append(s, e) = DOMAIN s \cup {Len(s) + 1}
         /\ Len(s) + 1 \notin DOMAIN s
         /\ \A i \in DOMAIN s : i <= Len(s) /\ Append(s, e)[i] = s[i]
         /\ Append(s, e)[Len(s) + 1] = e
BY SMT

\* A set of numbers that is not empty has a least one: the sets 0..x are
\* well-founded by inclusion.
LEMMA LeastNumber ==
  ASSUME NEW T, T \subseteq Nat, T # {}
  PROVE  \E x \in T : \A y \in T : x <= y
<1> DEFINE F == {0..x : x \in T}
<1>1. F \subseteq FiniteSubsetsOf(Nat) /\ F # {}
  <2>1. \A x \in T : IsFiniteSet(0..x)
    BY FS_Interval
  <2>2. \A x \in T : 0..x \in SUBSET Nat
    OBVIOUS
  <2> QED BY <2>1, <2>2 DEF FiniteSubsetsOf
<1>2. IsWellFoundedOn(StrictSubsetOrdering(Nat), FiniteSubsetsOf(Nat))
  BY FS_StrictSubsetOrderingWellFounded
<1>3. PICK X \in F : \A Y \in F : <<Y, X>> \notin StrictSubsetOrdering(Nat)
  <2> HIDE DEF F
  <2> QED BY <1>1, <1>2, WFMin
<1>4. PICK x \in T : X = 0..x
  OBVIOUS
<1>5. ASSUME NEW y \in T PROVE x <= y
  <2> SUFFICES ASSUME y < x PROVE FALSE
    OBVIOUS
  <2>1. 0..y \in SUBSET Nat /\ 0..x \in SUBSET Nat
    OBVIOUS
  <2>2. 0..y \subseteq 0..x /\ x \in 0..x /\ x \notin 0..y
    OBVIOUS
  <2>3. <<0..y, 0..x>> \in StrictSubsetOrdering(Nat)
    <3> DEFINE A == 0..y
               B == 0..x
    <3>1. A # B
      BY <2>2
    <3> HIDE DEF A, B
    <3> QED BY <2>1, <2>2, <3>1 DEF A, B, StrictSubsetOrdering
  <2> QED BY <1>3, <1>4, <2>3
<1> QED BY <1>5

-----------------------------------------------------------------------------
Entry == [fd : Procs, name : Names, is_inactive : 0..255]
Awake == InLoop \cup {"response"}

Types ==
  /\ clients \in Seq(Entry) /\ Len(clients) <= CLIENT_MAX
  /\ clients_mutex \in {"nobody", "main", "ping", "terminal"}
  /\ operation_counter \in 0..MaxOrders
  /\ sock \in [Procs -> {"none", "backlog", "open", "closed"}]
  /\ toServer \in [Procs -> Seq(Tokens)] /\ toClient \in [Procs -> Seq(Tokens)]
  /\ mainPc \in {"epoll_wait", "message", "lock", "handle"}
  /\ event \in Procs \cup {"none"} /\ msg_type \in {"none", "LOGIN", "LOGOUT", "PONG"}
  /\ pingPc \in {"lock", "for"} /\ pingAt \in 1..(CLIENT_MAX + 1)
  /\ termPc \in {"fgets", "lock", "choose", "type", "operation_t", "unlock"}
  /\ termAt \in 1..CLIENT_MAX
  /\ up \in BOOLEAN
  /\ name \in [Procs -> Names]
  /\ pc \in [Procs -> Awake \cup {"init", "login", "exit", "gone"}]
  /\ order \in [Procs -> 0..MaxOrders]
  /\ closed \in [Procs -> BOOLEAN]
  /\ sentTo \in [1..MaxOrders -> Procs \cup {"nobody"}]
  /\ sentLogin \subseteq Procs

-----------------------------------------------------------------------------
(* The invariant: who holds the mutex, what main has in hand, the list of   *)
(* clients, and both streams of every connection.                           *)
Holders ==
  /\ mainPc = "handle" => clients_mutex = "main"
  /\ pingPc = "for" => clients_mutex = "ping" /\ pingAt <= Len(clients) + 1
  /\ pingPc = "lock" => pingAt = 1
  /\ termPc \in {"choose", "type", "operation_t", "unlock"} => clients_mutex = "terminal"
  /\ termPc \in {"type", "operation_t"} => termAt \in DOMAIN clients

\* The LOGIN of c is on its way, or in main's hand.
LoginInHand(c) == InHand("LOGIN") /\ event = c
Pending(c) == Has(toServer[c], "LOGIN") \/ LoginInHand(c)

\* The message in hand: its sender, and that it has not been outrun by what
\* became of the sender's place in the list.
HandInv ==
  /\ mainPc # "epoll_wait" => event \in Procs /\ sock[event] \in {"open", "closed"}
  /\ mainPc \in {"lock", "handle"} => msg_type # "none"
  /\ InHand("LOGIN") => /\ sock[event] = "open" /\ event \in sentLogin
                        /\ ~Has(toServer[event], "LOGIN")
  /\ InHand("LOGOUT") => pc[event] = "gone"
  /\ InHand("PONG") => event \in sentLogin
  /\ InHand("PONG") \/ (InHand("LOGOUT") /\ event \in sentLogin) =>
       \A i \in DOMAIN clients : clients[i].name = name[event] => clients[i].fd = event

ListInv ==
  /\ \A i, j \in DOMAIN clients : i # j =>
       clients[i].name # clients[j].name /\ clients[i].fd # clients[j].fd
  /\ \A i \in DOMAIN clients :
       LET c == clients[i].fd
       IN clients[i].name = name[c] /\ sock[c] = "open" /\ c \in sentLogin /\ ~Pending(c)

\* What c sends: LOGIN first if at all, LOGOUT when it is gone, and nothing
\* but these two before LOGIN has been handled.
StreamInv(c) ==
  /\ \A i \in DOMAIN toServer[c] :
       /\ toServer[c][i].type \in {"LOGIN", "LOGOUT", "PONG", "RESULT"}
       /\ toServer[c][i].type = "LOGIN" => i = 1
       /\ toServer[c][i].type = "LOGOUT" => pc[c] = "gone"
       /\ Pending(c) \/ c \notin sentLogin => toServer[c][i].type \in {"LOGIN", "LOGOUT"}
  /\ sock[c] \in {"none", "closed"} => toServer[c] = <<>>

ConnInv(c) ==
  /\ pc[c] = "init" <=> sock[c] = "none"
  /\ closed[c] <=> pc[c] = "gone"
  /\ c \notin sentLogin => pc[c] \notin Awake /\ toClient[c] = <<>>
  /\ pc[c] \in {"init", "login"} => c \notin sentLogin
  /\ Pending(c) => /\ c \in sentLogin /\ pc[c] \notin InLoop
                   /\ toClient[c] = <<>> /\ sock[c] \in {"backlog", "open"}
  /\ c \in sentLogin /\ ~Pending(c) =>
       sock[c] = "closed" \/ (sock[c] = "open" /\ c \in Registered)

AgreeInv == Holders /\ HandInv /\ ListInv /\ \A c \in Procs : StreamInv(c) /\ ConnInv(c)

-----------------------------------------------------------------------------
\* What is in the streams.
LEMMA TokenTypes ==
  /\ \A type \in MessageTypes : Msg(type) \in Tokens /\ Msg(type).type = type
  /\ \A n \in 0..MaxOrders : /\ Result(n) \in Tokens /\ Operation(n) \in Tokens
                             /\ Result(n).type = "RESULT" /\ Result(n).operation = n
                             /\ Operation(n).type = "operation_t" /\ Operation(n).operation = n
BY MaxAssumption DEF Msg, Result, Operation, Tokens, MessageTypes

\* What a write of the server does.
LEMMA WriteDoes ==
  ASSUME Types, NEW c \in Procs, NEW token \in Tokens, Write(c, token)
  PROVE  /\ toClient' \in [Procs -> Seq(Tokens)] /\ up' \in BOOLEAN
         /\ ~closed[c] => toClient'[c] = Append(toClient[c], token)
         /\ \A d \in Procs : d # c \/ closed[c] => toClient'[d] = toClient[d]
<1>1. Append(toClient[c], token) \in Seq(Tokens)
  BY AppendAt DEF Types
<1> QED BY <1>1 DEF Write, Exit, Types

\* What the closing of a socket does.
LEMMA CloseDoes ==
  ASSUME Types, NEW c \in Procs, close_socket(c)
  PROVE  /\ toServer' \in [Procs -> Seq(Tokens)] /\ up' \in BOOLEAN
         /\ sock' \in [Procs -> {"none", "backlog", "open", "closed"}]
         /\ sock'[c] = "closed" /\ toServer'[c] = <<>>
         /\ \A d \in Procs : d # c => sock'[d] = sock[d] /\ toServer'[d] = toServer[d]
<1>1. <<>> \in Seq(Tokens)
  BY EmptySeq
<1> QED BY <1>1 DEF close_socket, Exit, Types

\* What a client's sending does.
LEMMA SendDoes ==
  ASSUME Types, NEW c \in Procs, NEW msg \in Tokens, Send(c, msg)
  PROVE  /\ toServer' \in [Procs -> Seq(Tokens)]
         /\ sock[c] # "closed" => toServer'[c] = Append(toServer[c], msg)
         /\ \A d \in Procs : d # c \/ sock[c] = "closed" => toServer'[d] = toServer[d]
<1>1. Append(toServer[c], msg) \in Seq(Tokens)
  BY AppendAt DEF Types
<1> QED BY <1>1 DEF Send, Types

\* And its reading.
LEMMA ReceiveDoes ==
  ASSUME Types, NEW c \in Procs, Receives(c)
  PROVE  /\ toClient' \in [Procs -> Seq(Tokens)]
         /\ Head(toClient[c]) \in Tokens /\ toClient'[c] = Tail(toClient[c])
         /\ \A d \in Procs : d # c => toClient'[d] = toClient[d]
<1>1. Head(toClient[c]) \in Tokens /\ Tail(toClient[c]) \in Seq(Tokens)
  BY TailAt DEF Receives, Types
<1> QED BY <1>1 DEF Receives, Types

\* And the end of its connection.
LEMMA ClosedDoes ==
  ASSUME Types, NEW c \in Procs, Close(c)
  PROVE  /\ toClient' \in [Procs -> Seq(Tokens)] /\ closed' \in [Procs -> BOOLEAN]
         /\ closed'[c] /\ toClient'[c] = <<>>
         /\ \A d \in Procs : d # c => toClient'[d] = toClient[d] /\ closed'[d] = closed[d]
<1>1. <<>> \in Seq(Tokens)
  BY EmptySeq
<1> QED BY <1>1 DEF Close, Types

\* The clients in the list, and the list when is_inactive of one of them changes.
LEMMA EntryAt ==
  ASSUME Types, NEW i \in DOMAIN clients
  PROVE  /\ i \in 1..Len(clients) /\ clients[i] \in Entry
         /\ clients[i].fd \in Procs /\ clients[i].is_inactive \in 0..255
<1>1. clients \in Seq(Entry)
  BY DEF Types
<1>2. i \in 1..Len(clients) /\ clients[i] \in Entry
  BY <1>1
<1> QED BY <1>2 DEF Entry

LEMMA EntryChanges ==
  ASSUME Types, NEW i \in DOMAIN clients, NEW n \in 0..255,
         clients' = [clients EXCEPT ![i].is_inactive = n]
  PROVE  /\ clients' \in Seq(Entry) /\ Len(clients') = Len(clients)
         /\ DOMAIN clients' = DOMAIN clients
         /\ clients'[i].is_inactive = n
         /\ \A j \in DOMAIN clients :
              /\ clients'[j].fd = clients[j].fd /\ clients'[j].name = clients[j].name
              /\ j # i => clients'[j] = clients[j]
<1> DEFINE e == [clients[i] EXCEPT !.is_inactive = n]
<1>1. clients \in Seq(Entry)
  BY DEF Types
<1>2. e \in Entry /\ e.fd = clients[i].fd /\ e.name = clients[i].name /\ e.is_inactive = n
  BY EntryAt, ZenonT(30) DEF Entry
<1>3. clients' = [clients EXCEPT ![i] = e]
  OBVIOUS
<1> HIDE DEF e
<1> QED BY <1>1, <1>2, <1>3

\* check_name finds a client of the name, if there is one.
LEMMA NameFound ==
  ASSUME Types, NEW n
  PROVE  \/ check_name(n) = 0 /\ \A i \in DOMAIN clients : clients[i].name # n
         \/ check_name(n) \in DOMAIN clients /\ clients[check_name(n)].name = n
<1> DEFINE I == {i \in 1..Len(clients) : clients[i].name = n}
<1>1. check_name(n) = IF I # {} THEN Min(I) ELSE 0
  BY DEF check_name, SelectInSeq
<1>2. I # {} => Min(I) \in I
  <2>1. I \subseteq Nat
    OBVIOUS
  <2> HIDE DEF I
  <2> QED BY <2>1, LeastNumber DEF Min
<1>3. clients \in Seq(Entry)
  BY DEF Types
<1> QED BY <1>1, <1>2, <1>3

\* What is left of a sequence when the element at i is removed.
LEMMA RemoveAtIs ==
  ASSUME NEW S, NEW s \in Seq(S), NEW i \in DOMAIN s
  PROVE  /\ RemoveAt(s, i) \in Seq(S) /\ Len(RemoveAt(s, i)) = Len(s) - 1
         /\ \A j \in 1..(Len(s) - 1) : RemoveAt(s, i)[j] = IF j < i THEN s[j] ELSE s[j+1]
<1>1. i \in 1..Len(s) /\ Len(s) \in Nat
  OBVIOUS
<1>2. /\ SubSeq(s, 1, i-1) \in Seq(S) /\ Len(SubSeq(s, 1, i-1)) = i - 1
      /\ \A j \in 1..(i-1) : SubSeq(s, 1, i-1)[j] = s[j]
  BY <1>1
<1>3. /\ SubSeq(s, i+1, Len(s)) \in Seq(S) /\ Len(SubSeq(s, i+1, Len(s))) = Len(s) - i
      /\ \A j \in 1..(Len(s)-i) : SubSeq(s, i+1, Len(s))[j] = s[i+j]
  BY <1>1
<1>4. RemoveAt(s, i) = SubSeq(s, 1, i-1) \o SubSeq(s, i+1, Len(s))
  BY DEF RemoveAt
<1>5. ASSUME NEW u \in Seq(S), NEW v \in Seq(S), Len(u) = i - 1, Len(v) = Len(s) - i,
             \A j \in 1..(i-1) : u[j] = s[j], \A j \in 1..(Len(s)-i) : v[j] = s[i+j]
      PROVE  /\ u \o v \in Seq(S) /\ Len(u \o v) = Len(s) - 1
             /\ \A j \in 1..(Len(s) - 1) : (u \o v)[j] = IF j < i THEN s[j] ELSE s[j+1]
  <2>1. u \o v \in Seq(S) /\ Len(u \o v) = Len(s) - 1
    BY <1>1, <1>5, SMT
  <2>2. ASSUME NEW j \in 1..(Len(s) - 1)
        PROVE  (u \o v)[j] = IF j < i THEN s[j] ELSE s[j+1]
    <3>1. CASE j < i
      BY <1>1, <1>5, <3>1, SMT
    <3>2. CASE ~(j < i)
      <4>1. (u \o v)[j] = v[j - (i - 1)]
        BY <1>1, <1>5, <3>2, SMTT(30)
      <4>2. j - (i - 1) \in 1..(Len(s)-i) /\ i + (j - (i - 1)) = j + 1
        BY <1>1, <3>2, SMT
      <4>3. v[j - (i - 1)] = s[i + (j - (i - 1))]
        BY <1>5, <4>2, Zenon
      <4> QED BY <3>2, <4>1, <4>2, <4>3
    <3> QED BY <3>1, <3>2
  <2> QED BY <2>1, <2>2
<1> DEFINE u == SubSeq(s, 1, i-1)
           v == SubSeq(s, i+1, Len(s))
<1>6. /\ u \in Seq(S) /\ Len(u) = i - 1 /\ \A j \in 1..(i-1) : u[j] = s[j]
      /\ v \in Seq(S) /\ Len(v) = Len(s) - i /\ \A j \in 1..(Len(s)-i) : v[j] = s[i+j]
      /\ RemoveAt(s, i) = u \o v
  BY <1>2, <1>3, <1>4
<1> HIDE DEF u, v
<1> QED BY <1>5, <1>6

\* What is left of the list when the client at i is removed: those before it
\* stay where they are, and those behind it move up.
LEMMA Removed ==
  ASSUME Types, NEW i \in DOMAIN clients
  PROVE  /\ Without(i) \in Seq(Entry) /\ Len(Without(i)) = Len(clients) - 1
         /\ \A j \in DOMAIN Without(i) :
              /\ j < i => j \in DOMAIN clients /\ Without(i)[j] = clients[j]
              /\ j >= i => j + 1 \in DOMAIN clients /\ Without(i)[j] = clients[j + 1]
         /\ \A j \in DOMAIN clients :
              /\ j < i => j \in DOMAIN Without(i) /\ Without(i)[j] = clients[j]
              /\ j > i => j - 1 \in DOMAIN Without(i) /\ Without(i)[j - 1] = clients[j]
<1> DEFINE s == clients
<1>0. s \in Seq(Entry) /\ i \in DOMAIN s
  BY DEF Types
<1> HIDE DEF s
<1>1. i \in 1..Len(s) /\ Len(s) \in Nat
  BY <1>0
<1>4. /\ RemoveAt(s, i) \in Seq(Entry) /\ Len(RemoveAt(s, i)) = Len(s) - 1
      /\ \A j \in 1..(Len(s) - 1) : RemoveAt(s, i)[j] = IF j < i THEN s[j] ELSE s[j+1]
  BY <1>0, RemoveAtIs
<1> DEFINE r == RemoveAt(s, i)
<1>5. r \in Seq(Entry) /\ Len(r) = Len(s) - 1 /\ DOMAIN r = 1..(Len(s) - 1) /\ DOMAIN s = 1..Len(s)
  BY <1>0, <1>1, <1>4
<1>6. \A j \in 1..(Len(s) - 1) : r[j] = IF j < i THEN s[j] ELSE s[j+1]
  BY <1>4
<1>7. Without(i) = r
  BY DEF Without, s
<1> HIDE DEF r
<1>8. /\ \A j \in DOMAIN r :
              /\ j < i => j \in DOMAIN s /\ r[j] = s[j]
              /\ j >= i => j + 1 \in DOMAIN s /\ r[j] = s[j + 1]
  BY <1>1, <1>5, <1>6
<1>9. \A j \in DOMAIN s :
              /\ j < i => j \in DOMAIN r /\ r[j] = s[j]
              /\ j > i => j - 1 \in DOMAIN r /\ r[j - 1] = s[j]
  BY <1>1, <1>5, <1>6
<1> QED BY <1>5, <1>7, <1>8, <1>9 DEF s

-----------------------------------------------------------------------------
(* Types, action by action. *)
LEMMA MainTypes ==
  ASSUME Types, AgreeInv, Main
  PROVE  Types'
<1> USE DEF MainGoes, MainHandles, BackToEpoll, Lock, Unlock, Exit, ping, term, procs, history
<1>1. ASSUME NEW c \in Procs, connectFun(c) \/ epoll_wait(c) PROVE Types'
  <2>1. CASE connectFun(c)
    BY <2>1 DEF connectFun, Types
  <2>2. CASE epoll_wait(c)
    BY <2>2 DEF epoll_wait, Types
  <2> QED BY <1>1, <2>1, <2>2
<1>2. CASE message
  <2>1. event \in Procs
    BY <1>2 DEF message, AgreeInv, HandInv
  <2>2. CASE sock[event] # "open" \/ toServer[event] = <<>>
    BY <1>2, <2>2 DEF message, Types, main
  <2>3. CASE ~(sock[event] # "open" \/ toServer[event] = <<>>)
    <3> DEFINE msg == Head(toServer[event])
    <3>1. /\ Tail(toServer[event]) \in Seq(Tokens) /\ 1 \in DOMAIN toServer[event]
          /\ msg = toServer[event][1]
      BY <2>1, <2>3, TailAt DEF Types
    <3>2. msg.type \in {"LOGIN", "LOGOUT", "PONG", "RESULT"}
      BY <2>1, <3>1 DEF AgreeInv, StreamInv
    <3> HIDE DEF msg
    <3>3. toServer' \in [Procs -> Seq(Tokens)]
      BY <1>2, <2>1, <2>3, <3>1 DEF message, Types
    <3>4. mainPc' \in {"epoll_wait", "lock"} /\ event' \in Procs \cup {"none"}
          /\ msg_type' \in {"none", "LOGIN", "LOGOUT", "PONG"}
      BY <1>2, <2>1, <2>3, <3>2 DEF message, Types, msg
    <3> QED BY <1>2, <2>3, <3>3, <3>4 DEF message, Types
  <2> QED BY <2>2, <2>3
<1>3. CASE MainLock
  BY <1>3 DEF MainLock, Types
<1>4. ASSUME mainPc = "handle" PROVE event \in Procs
  BY <1>4 DEF AgreeInv, HandInv
<1>5. ASSUME mainPc = "handle", NEW reply \in MessageTypes, Reject(reply)
      PROVE  /\ UNCHANGED clients /\ toClient' \in [Procs -> Seq(Tokens)]
             /\ toServer' \in [Procs -> Seq(Tokens)] /\ up' \in BOOLEAN
             /\ sock' \in [Procs -> {"none", "backlog", "open", "closed"}]
  BY <1>4, <1>5, TokenTypes, WriteDoes, CloseDoes DEF Reject
<1>6. CASE loginClient
  <2>1. CASE Len(clients) = CLIENT_MAX /\ Reject("WRONG_SIZE")
    BY <1>5, <1>6, <2>1 DEF loginClient, Types, MessageTypes
  <2>2. CASE Reject("WRONG_NAME")
    BY <1>5, <1>6, <2>2 DEF loginClient, Types, MessageTypes
  <2>3. CASE Len(clients) # CLIENT_MAX /\ check_name(name[event]) = 0
             /\ clients' = Append(clients, [fd |-> event, name |-> name[event],
                                            is_inactive |-> 0])
             /\ Write(event, Msg("SUCCESS")) /\ UNCHANGED <<sock, toServer>>
    <3> DEFINE e == [fd |-> event, name |-> name[event], is_inactive |-> 0]
    <3>1. event \in Procs
      BY <1>4, <1>6 DEF loginClient
    <3>2. e \in Entry
      BY <3>1 DEF Entry, Types
    <3>3. Write(event, Msg("SUCCESS")) /\ clients' = Append(clients, e)
          /\ UNCHANGED <<sock, toServer>>
      BY <1>6, <2>3 DEF loginClient
    <3> HIDE DEF e
    <3>4. clients' \in Seq(Entry) /\ Len(clients') <= CLIENT_MAX
      BY <2>3, <3>2, <3>3, MaxAssumption DEF Types
    <3>5. toClient' \in [Procs -> Seq(Tokens)] /\ up' \in BOOLEAN
      BY <3>1, <3>3, TokenTypes, WriteDoes DEF MessageTypes
    <3> QED BY <1>6, <3>3, <3>4, <3>5 DEF loginClient, Types
  <2> QED BY <1>6, <2>1, <2>2, <2>3 DEF loginClient
<1>7. CASE logoutClient
  <2> DEFINE i == check_name(name[event])
  <2>1. CASE i = 0
    BY <1>7, <2>1 DEF logoutClient, Types
  <2>2. CASE i # 0
    <3>1. i \in DOMAIN clients
      BY <2>2, NameFound
    <3>2. clients' = Without(i) /\ close_socket(clients[i].fd)
      BY <1>7, <2>2 DEF logoutClient
    <3> HIDE DEF i
    <3>3. clients[i].fd \in Procs
      BY <3>1, EntryAt
    <3>4. clients' \in Seq(Entry) /\ Len(clients') <= CLIENT_MAX
      BY <3>1, <3>2, Removed, MaxAssumption DEF Types
    <3> QED BY <1>7, <3>2, <3>3, <3>4, CloseDoes DEF logoutClient, Types
  <2> QED BY <2>1, <2>2
<1>8. CASE pong
  <2> DEFINE i == check_name(name[event])
  <2>1. CASE i = 0
    BY <1>8, <2>1 DEF pong, Types
  <2>2. CASE i # 0
    <3>1. i \in DOMAIN clients
      BY <2>2, NameFound
    <3>2. clients' = [clients EXCEPT ![i].is_inactive = (@ + 255) % 256]
      BY <1>8, <2>2 DEF pong
    <3> HIDE DEF i
    <3>3. clients' \in Seq(Entry) /\ Len(clients') = Len(clients)
      <4> DEFINE n == (clients[i].is_inactive + 255) % 256
      <4>1. n \in 0..255
        <5>1. clients[i].is_inactive \in 0..255
          BY <3>1, EntryAt
        <5> QED BY <5>1
      <4>2. clients' = [clients EXCEPT ![i].is_inactive = n]
        BY <3>2
      <4> HIDE DEF n
      <4> QED BY <3>1, <4>1, <4>2, EntryChanges
    <3> QED BY <1>8, <3>3 DEF pong, Types
  <2> QED BY <2>1, <2>2
<1> QED BY <1>1, <1>2, <1>3, <1>6, <1>7, <1>8 DEF Main

LEMMA PingTypes ==
  ASSUME Types, Ping
  PROVE  Types'
<1> USE DEF Lock, Unlock, PingAtClient, main, term, procs, history
<1>1. CASE PingLock
  BY <1>1 DEF PingLock, Types
<1>2. ASSUME PingAtClient PROVE pingAt \in DOMAIN clients /\ clients[pingAt].fd \in Procs
  <2>1. pingAt \in DOMAIN clients
    BY <1>2 DEF Types
  <2> QED BY <2>1, EntryAt
<1>3. CASE PingRemoves
  <2>1. clients' \in Seq(Entry) /\ Len(clients') <= CLIENT_MAX
    BY <1>2, <1>3, Removed, MaxAssumption DEF PingRemoves, Types
  <2> QED BY <1>2, <1>3, <2>1, CloseDoes, SMTT(30) DEF PingRemoves, Types
<1>4. CASE PingWrites
  <2>1. clients' \in Seq(Entry) /\ Len(clients') = Len(clients)
    <3> DEFINE n == (clients[pingAt].is_inactive + 1) % 256
    <3>1. pingAt \in DOMAIN clients /\ n \in 0..255
      BY <1>2, <1>4, EntryAt DEF PingWrites
    <3>2. clients' = [clients EXCEPT ![pingAt].is_inactive = n]
      BY <1>4 DEF PingWrites
    <3> HIDE DEF n
    <3> QED BY <3>1, <3>2, EntryChanges
  <2>2. pingAt + 1 \in 1..(CLIENT_MAX + 1)
    BY <1>4, MaxAssumption DEF PingWrites, Types
  <2>3. toClient' \in [Procs -> Seq(Tokens)] /\ up' \in BOOLEAN
    BY <1>2, <1>4, TokenTypes, WriteDoes DEF PingWrites, MessageTypes
  <2> QED BY <1>4, <2>1, <2>2, <2>3 DEF PingWrites, Types
<1>5. CASE PingUnlock
  BY <1>5, MaxAssumption DEF PingUnlock, Types
<1> QED BY <1>1, <1>3, <1>4, <1>5 DEF Ping

LEMMA TermTypes ==
  ASSUME Types, Holders, Terminal
  PROVE  Types'
<1> USE DEF Lock, Unlock, TermGoes, main, ping, procs, history
<1>1. CASE TermOrder
  BY <1>1, MaxAssumption DEF TermOrder, Types
<1>2. CASE TermLock \/ TermNobody
  BY <1>2 DEF TermLock, TermNobody, Types
<1>3. CASE TermChoose
  <2>1. termAt' \in 1..CLIENT_MAX
    BY <1>3, MaxAssumption DEF TermChoose, Types
  <2> QED BY <1>3, <2>1 DEF TermChoose, Types
<1>4. ASSUME termPc \in {"type", "operation_t"}
      PROVE  termAt \in DOMAIN clients /\ clients[termAt].fd \in Procs
  BY <1>4, EntryAt DEF Holders
<1>5. CASE TermWriteType
  BY <1>4, <1>5, TokenTypes, WriteDoes DEF TermWriteType, Types, MessageTypes
<1>6. CASE TermWriteOperation
  <2>1. Operation(operation_counter) \in Tokens
    BY TokenTypes DEF Types
  <2> QED BY <1>4, <1>6, <2>1, WriteDoes DEF TermWriteOperation, Types
<1>7. CASE TermUnlock
  BY <1>7, MaxAssumption DEF TermUnlock, Types
<1> QED BY <1>1, <1>2, <1>3, <1>5, <1>6, <1>7 DEF Terminal

LEMMA ClientTypes ==
  ASSUME Types, NEW c \in Procs, Client(c)
  PROVE  Types'
<1> USE DEF ClientGoes, server, threads, main, ping, term
<1> DEFINE Labels == Awake \cup {"init", "login", "exit", "gone"}
<1>1. \A to \in Labels : [pc EXCEPT ![c] = to] \in [Procs -> Labels]
  BY DEF Types
<1>2. {"init", "login", "response", "read", "pong", "calc", "result", "exit", "gone"}
        \subseteq Labels
  BY DEF Awake, InLoop
<1> HIDE DEF Labels
<1>3. CASE init(c)
  BY <1>1, <1>2, <1>3 DEF init, Types, Labels
<1>4. CASE login(c)
  BY <1>1, <1>2, <1>4, TokenTypes, SendDoes, SMTT(30) DEF login, Types, Labels, MessageTypes
<1>5. CASE response(c)
  BY <1>1, <1>2, <1>5, ReceiveDoes, SMTT(30) DEF response, Types, Labels
<1>6. CASE read(c)
  BY <1>1, <1>2, <1>6, ReceiveDoes, SMTT(30) DEF read, Types, Labels
<1>7. CASE sendPong(c)
  BY <1>1, <1>2, <1>7, TokenTypes, SendDoes DEF sendPong, Types, Labels, MessageTypes
<1>8. CASE calc(c)
  <2>1. Head(toClient[c]).operation \in 0..MaxOrders
    BY <1>8, ReceiveDoes DEF calc, Tokens
  <2> QED BY <1>1, <1>2, <1>8, <2>1, ReceiveDoes, SMTT(30) DEF calc, Types, Labels
<1>9. CASE sendResult(c)
  <2>1. Result(order[c]) \in Tokens
    BY TokenTypes DEF Types
  <2> QED BY <1>1, <1>2, <1>9, <2>1, SendDoes, MaxAssumption DEF sendResult, Types, Labels
<1>10. CASE EndOfFile(c) \/ sigIntHandler(c)
  <2>1. pc' = [pc EXCEPT ![c] = "exit"] /\ UNCHANGED <<server, sentLogin, sock, toServer,
                                             toClient, name, order, closed>>
    BY <1>10 DEF EndOfFile, sigIntHandler
  <2> QED BY <1>1, <1>2, <2>1 DEF Types, Labels
<1>11. CASE funAtExit(c)
  BY <1>1, <1>2, <1>11, TokenTypes, SendDoes, ClosedDoes, SMTT(30)
     DEF funAtExit, Types, Labels, MessageTypes
<1>12. CASE Killed(c)
  BY <1>1, <1>2, <1>12, ClosedDoes DEF Killed, Types, Labels
<1> QED BY <1>3, <1>4, <1>5, <1>6, <1>7, <1>8, <1>9, <1>10, <1>11, <1>12 DEF Client

LEMMA InitTypes == Init => Types
<1> SUFFICES ASSUME Init PROVE Types
  OBVIOUS
<1>1. <<>> \in Seq(Entry) /\ <<>> \in Seq(Tokens) /\ Len(<<>>) = 0
  BY EmptySeq
<1> QED BY <1>1, MaxAssumption DEF Init, Types

LEMMA StepTypes == Types /\ AgreeInv /\ [Next]_vars => Types'
<1> SUFFICES ASSUME Types, AgreeInv, [Next]_vars PROVE Types'
  OBVIOUS
<1>1. CASE UNCHANGED vars
  BY <1>1 DEF vars, threads, main, ping, term, procs, history, Types
<1> QED BY <1>1, MainTypes, PingTypes, TermTypes, ClientTypes DEF Next, AgreeInv

-----------------------------------------------------------------------------
(* The list of clients agrees with them. *)
\* What is in a stream after a write, and after a read.
LEMMA HasAppend ==
  ASSUME NEW s \in Seq(Tokens), NEW e \in Tokens, NEW type
  PROVE  Has(Append(s, e), type) <=> Has(s, type) \/ e.type = type
<1>1. Has(s, type) => Has(Append(s, e), type)
  BY AppendAt DEF Has
<1>2. e.type = type => Has(Append(s, e), type)
  BY AppendAt DEF Has
<1>3. Has(Append(s, e), type) => Has(s, type) \/ e.type = type
  BY AppendAt DEF Has
<1> QED BY <1>1, <1>2, <1>3

LEMMA HasTail ==
  ASSUME NEW s \in Seq(Tokens), s # <<>>, NEW type
  PROVE  /\ Has(Tail(s), type) => \E i \in DOMAIN s : i # 1 /\ s[i].type = type
         /\ Has(s, type) => Head(s).type = type \/ Has(Tail(s), type)
<1>1. Has(Tail(s), type) => \E i \in DOMAIN s : i # 1 /\ s[i].type = type
  BY TailAt DEF Has
<1>2. ASSUME NEW i \in DOMAIN s, s[i].type = type
      PROVE  Head(s).type = type \/ Has(Tail(s), type)
  <2>1. CASE i = 1
    BY <1>2, <2>1, TailAt
  <2>2. CASE i # 1
    <3>1. i - 1 \in DOMAIN Tail(s) /\ (i - 1) + 1 = i
      BY <1>2, <2>2
    <3>2. Tail(s)[i - 1] = s[i]
      BY <3>1, TailAt
    <3> QED BY <1>2, <3>1, <3>2 DEF Has
  <2> QED BY <2>1, <2>2
<1> QED BY <1>1, <1>2 DEF Has

\* What a step leaves alone of the connection of d.
Same(d) ==
  /\ sock'[d] = sock[d] /\ toServer'[d] = toServer[d] /\ pc'[d] = pc[d]
  /\ closed'[d] = closed[d] /\ (d \in sentLogin' <=> d \in sentLogin)
  /\ LoginInHand(d)' <=> LoginInHand(d)

\* Main keeps the message in hand, or has handled it (or one of no such kind).
HandKept ==
  \/ UNCHANGED main
  \/ mainPc = "lock" /\ mainPc' = "handle" /\ UNCHANGED <<event, msg_type>>
  \/ mainPc' = "epoll_wait" /\ ~InHand("LOGIN")

LEMMA HandKeptInHand ==
  ASSUME HandKept
  PROVE  /\ \A type : InHand(type)' => InHand(type) /\ event' = event
         /\ mainPc' # "epoll_wait" => mainPc # "epoll_wait" /\ event' = event
         /\ mainPc' \in {"lock", "handle"} => mainPc \in {"lock", "handle"} /\ msg_type' = msg_type
         /\ \A d : LoginInHand(d)' <=> LoginInHand(d)
BY DEF HandKept, main, InHand, LoginInHand

LEMMA ConnKept ==
  ASSUME Types, NEW d \in Procs, Same(d), StreamInv(d), ConnInv(d),
         toClient'[d] = toClient[d] \/ (d \in sentLogin /\ ~Pending(d)),
         d \in Registered => d \in Registered' \/ sock[d] # "open"
  PROVE  StreamInv(d)' /\ ConnInv(d)' /\ (Pending(d)' <=> Pending(d))
<1>1. Pending(d)' <=> Pending(d)
  BY DEF Same, Pending, Has
<1>2. StreamInv(d)'
  BY <1>1 DEF Same, StreamInv
<1>3. ConnInv(d)'
  BY <1>1 DEF Same, ConnInv
<1> QED BY <1>1, <1>2, <1>3

\* The clients in the list stay there, each in its place.
ListKept ==
  /\ DOMAIN clients' = DOMAIN clients
  /\ \A i \in DOMAIN clients : clients'[i].fd = clients[i].fd /\ clients'[i].name = clients[i].name

\* A step that only writes to clients in the list, and handles no LOGIN.
LEMMA QuietAgrees ==
  ASSUME Types, HandInv, ListInv, \A c \in Procs : StreamInv(c) /\ ConnInv(c),
         HandKept, ListKept, UNCHANGED <<sock, toServer, name, pc, closed, sentLogin>>,
         \A d \in Procs : toClient'[d] = toClient[d] \/ d \in Registered
  PROVE  HandInv' /\ ListInv' /\ \A c \in Procs : StreamInv(c)' /\ ConnInv(c)'
<1>1. Registered' = Registered
  BY DEF Registered, ListKept
<1>2. \A d \in Registered : d \in Procs /\ d \in sentLogin /\ ~Pending(d)
  BY EntryAt DEF Registered, ListInv
<1>3. \A d \in Procs : Same(d)
  BY HandKeptInHand DEF Same
<1>4. \A c \in Procs : StreamInv(c)' /\ ConnInv(c)' /\ (Pending(c)' <=> Pending(c))
  BY <1>1, <1>2, <1>3, ConnKept
<1>5. ListInv'
  <2>1. \A i \in DOMAIN clients : clients[i].fd \in Registered
    BY DEF Registered
  <2> QED BY <1>2, <1>4, <2>1 DEF ListInv, ListKept
<1>6. HandInv'
  <2>1. \A c : Has(toServer[c], "LOGIN")' <=> Has(toServer[c], "LOGIN")
    BY DEF Has
  <2> QED BY <2>1, HandKeptInHand DEF HandInv, ListKept
<1> QED BY <1>4, <1>5, <1>6

\* A step that takes a client off the list and closes its socket.
LEMMA RemovesAgree ==
  ASSUME Types, HandInv, ListInv, \A c \in Procs : StreamInv(c) /\ ConnInv(c),
         NEW i \in DOMAIN clients, HandKept, clients' = Without(i),
         close_socket(clients[i].fd), UNCHANGED <<toClient, name, pc, closed, sentLogin>>
  PROVE  HandInv' /\ ListInv' /\ \A c \in Procs : StreamInv(c)' /\ ConnInv(c)'
<1>1. PICK c \in Procs : c = clients[i].fd
  BY EntryAt
<1>2. /\ sock'[c] = "closed" /\ toServer'[c] = <<>>
      /\ \A d \in Procs : d # c => sock'[d] = sock[d] /\ toServer'[d] = toServer[d]
  BY <1>1, CloseDoes
<1>3. \A d \in Procs : d # c => Same(d)
  BY <1>2, HandKeptInHand DEF Same
<1>4. \A d \in Registered : d # c => d \in Registered'
  <2> SUFFICES ASSUME NEW j \in DOMAIN clients, clients[j].fd # c
               PROVE  \E k \in DOMAIN clients' : clients'[k].fd = clients[j].fd
    BY DEF Registered
  <2>1. j # i /\ j \in Nat /\ i \in Nat
    BY <1>1, EntryAt
  <2>2. CASE j < i
    BY <2>2, Removed
  <2>3. CASE j > i
    BY <2>3, Removed
  <2> QED BY <2>1, <2>2, <2>3
<1>5. \A d \in Procs : d # c => StreamInv(d)' /\ ConnInv(d)' /\ (Pending(d)' <=> Pending(d))
  BY <1>3, <1>4, ConnKept
<1>6. sock[c] = "open" /\ c \in sentLogin /\ ~Pending(c)
  BY <1>1 DEF ListInv
<1>7. ~Pending(c)' /\ ~LoginInHand(c)
  <2>1. ~Has(toServer'[c], "LOGIN")
    BY <1>2 DEF Has
  <2> QED BY <1>6, <2>1, HandKeptInHand DEF Pending
<1>8. StreamInv(c)' /\ ConnInv(c)'
  <2>1. DOMAIN toServer'[c] = {}
    BY <1>2
  <2>2. StreamInv(c)'
    BY <1>2, <2>1 DEF StreamInv
  <2>3. ConnInv(c)'
    BY <1>2, <1>6, <1>7 DEF ConnInv
  <2> QED BY <2>2, <2>3
<1>9. ListInv'
  <2>1. \A j \in DOMAIN clients' : \E k \in DOMAIN clients :
          k # i /\ clients'[j] = clients[k] /\ k = (IF j < i THEN j ELSE j + 1)
    BY Removed, EntryAt
  <2>2. ASSUME NEW j \in DOMAIN clients'
        PROVE  \E d \in Procs : /\ clients'[j].fd = d /\ clients'[j].name = name'[d]
                                /\ sock'[d] = "open" /\ d \in sentLogin' /\ ~Pending(d)'
    <3>1. PICK k \in DOMAIN clients : k # i /\ clients'[j] = clients[k]
      BY <2>1
    <3>2. PICK d \in Procs : d = clients[k].fd
      BY EntryAt
    <3>3. d # c /\ clients[k].name = name[d] /\ sock[d] = "open" /\ d \in sentLogin /\ ~Pending(d)
      BY <1>1, <3>1, <3>2 DEF ListInv
    <3> QED BY <1>2, <1>5, <3>1, <3>2, <3>3
  <2>3. ASSUME NEW j \in DOMAIN clients', NEW k \in DOMAIN clients', j # k
        PROVE  clients'[j].name # clients'[k].name /\ clients'[j].fd # clients'[k].fd
    <3>1. j \in Nat /\ k \in Nat
      BY Removed
    <3>2. PICK l \in DOMAIN clients : clients'[j] = clients[l] /\ l = (IF j < i THEN j ELSE j + 1)
      BY <2>1
    <3>3. PICK m \in DOMAIN clients : clients'[k] = clients[m] /\ m = (IF k < i THEN k ELSE k + 1)
      BY <2>1
    <3>4. l # m
      BY <2>3, <3>1, <3>2, <3>3, EntryAt
    <3> QED BY <3>2, <3>3, <3>4 DEF ListInv
  <2> QED BY <2>2, <2>3 DEF ListInv
<1>10. HandInv'
  <2>1. \A j \in DOMAIN clients' : \E k \in DOMAIN clients : clients'[j] = clients[k]
    BY Removed, EntryAt
  <2>2. mainPc' # "epoll_wait" => /\ event' = event /\ event \in Procs
                                  /\ sock'[event] \in {"open", "closed"}
    BY <1>2, HandKeptInHand DEF HandInv
  <2>3. ASSUME InHand("LOGIN")'
        PROVE  /\ sock'[event'] = "open" /\ event' \in sentLogin'
               /\ ~Has(toServer'[event'], "LOGIN")
    <3>1. InHand("LOGIN") /\ event' = event /\ event \in Procs /\ event # c
      BY <1>7, <2>2, <2>3, HandKeptInHand DEF InHand, LoginInHand
    <3> QED BY <1>2, <3>1 DEF HandInv
  <2>4. ASSUME InHand("PONG")' \/ (InHand("LOGOUT")' /\ event' \in sentLogin'),
               NEW j \in DOMAIN clients', clients'[j].name = name'[event']
        PROVE  clients'[j].fd = event'
    BY <2>1, <2>4, HandKeptInHand DEF HandInv
  <2> QED BY <2>2, <2>3, <2>4, HandKeptInHand DEF HandInv
<1> QED BY <1>5, <1>8, <1>9, <1>10

\* Who holds the mutex, over any step.
LEMMA HoldersKept ==
  ASSUME Types, Holders, Next
  PROVE  Holders'
<1> USE DEF MainGoes, MainHandles, BackToEpoll, Lock, Unlock, TermGoes,
            main, ping, term, procs, history
<1>1. ASSUME NEW c \in Procs, connectFun(c) \/ epoll_wait(c) PROVE Holders'
  BY <1>1 DEF connectFun, epoll_wait, Holders
<1>2. CASE message
  BY <1>2 DEF message, Holders
<1>3. CASE MainLock
  BY <1>3 DEF MainLock, Holders
<1>4. CASE loginClient \/ logoutClient \/ pong
  <2>1. /\ mainPc = "handle" /\ mainPc' = "epoll_wait" /\ clients_mutex' = "nobody"
        /\ UNCHANGED <<ping, term>>
    BY <1>4 DEF loginClient, logoutClient, pong
  <2> QED BY <2>1 DEF Holders, Types
<1>5. CASE PingLock
  BY <1>5, MaxAssumption DEF PingLock, Holders, Types
<1>6. CASE PingRemoves
  <2>1. pingAt \in DOMAIN clients /\ pingAt \in Nat
    BY <1>6 DEF PingRemoves, PingAtClient, Types
  <2>2. Len(clients') = Len(clients) - 1 /\ Len(clients) \in Nat
    BY <1>6, <2>1, Removed DEF PingRemoves, Types
  <2> QED BY <1>6, <2>1, <2>2 DEF PingRemoves, PingAtClient, Holders
<1>7. CASE PingWrites
  <2>1. Len(clients') = Len(clients) /\ pingAt' <= Len(clients) + 1
    BY <1>7 DEF PingWrites, PingAtClient, Types
  <2> QED BY <1>7, <2>1 DEF PingWrites, PingAtClient, Holders
<1>8. CASE PingUnlock
  BY <1>8 DEF PingUnlock, Holders
<1>9. CASE Terminal
  BY <1>9 DEF Terminal, TermOrder, TermLock, TermNobody, TermChoose, TermWriteType,
              TermWriteOperation, TermUnlock, Holders
<1>10. ASSUME NEW c \in Procs, Client(c) PROVE Holders'
  <2>1. UNCHANGED <<clients, clients_mutex, main, ping, term>>
    BY <1>10 DEF Client, server, threads, init, login, response, read, sendPong, calc,
                 sendResult, EndOfFile, sigIntHandler, funAtExit, Killed
  <2> QED BY <2>1 DEF Holders
<1> QED BY <1>1, <1>2, <1>3, <1>4, <1>5, <1>6, <1>7, <1>8, <1>9, <1>10
        DEF Next, Main, Ping

\* What a step should keep, beside the mutex.
Agreed == HandInv /\ ListInv /\ \A c \in Procs : StreamInv(c) /\ ConnInv(c)

LEMMA PingAgrees ==
  ASSUME Types, Agreed, Ping
  PROVE  Agreed'
<1> USE DEF Agreed
<1>1. HandKept /\ UNCHANGED <<name, pc, closed, sentLogin>>
  BY DEF Ping, PingLock, PingRemoves, PingWrites, PingUnlock, HandKept, procs, history
<1>2. CASE PingLock \/ PingUnlock
  <2>1. UNCHANGED <<clients, sock, toServer, toClient>>
    BY <1>2 DEF PingLock, PingUnlock
  <2> QED BY <1>1, <2>1, QuietAgrees DEF ListKept
<1>3. ASSUME PingAtClient PROVE pingAt \in DOMAIN clients /\ clients[pingAt].fd \in Procs
  <2>1. pingAt \in DOMAIN clients
    BY <1>3 DEF Types, PingAtClient
  <2> QED BY <2>1, EntryAt
<1>4. CASE PingRemoves
  BY <1>1, <1>3, <1>4, RemovesAgree DEF PingRemoves
<1>5. CASE PingWrites
  <2>1. ListKept
    <3> DEFINE n == (clients[pingAt].is_inactive + 1) % 256
    <3>1. pingAt \in DOMAIN clients /\ n \in 0..255
      BY <1>3, <1>5, EntryAt DEF PingWrites
    <3>2. clients' = [clients EXCEPT ![pingAt].is_inactive = n]
      BY <1>5 DEF PingWrites
    <3> HIDE DEF n
    <3> QED BY <3>1, <3>2, EntryChanges DEF ListKept
  <2>2. \A d \in Procs : toClient'[d] = toClient[d] \/ d \in Registered
    BY <1>3, <1>5, TokenTypes, WriteDoes DEF PingWrites, Registered, MessageTypes
  <2> QED BY <1>1, <1>5, <2>1, <2>2, QuietAgrees DEF PingWrites
<1> QED BY <1>2, <1>4, <1>5 DEF Ping

LEMMA TermAgrees ==
  ASSUME Types, Holders, Agreed, Terminal
  PROVE  Agreed'
<1> USE DEF Agreed
<1>1. /\ HandKept /\ ListKept
      /\ UNCHANGED <<clients, sock, toServer, name, pc, closed, sentLogin>>
  BY DEF Terminal, TermOrder, TermLock, TermNobody, TermChoose, TermWriteType,
         TermWriteOperation, TermUnlock, HandKept, ListKept, procs, history
<1>2. \A d \in Procs : toClient'[d] = toClient[d] \/ d \in Registered
  <2>1. CASE TermWriteType \/ TermWriteOperation
    <3>1. termAt \in DOMAIN clients /\ clients[termAt].fd \in Procs
      BY <2>1, EntryAt DEF TermWriteType, TermWriteOperation, TermGoes, Holders
    <3>2. Msg("REQUEST") \in Tokens /\ Operation(operation_counter) \in Tokens
      BY TokenTypes DEF MessageTypes, Types
    <3> QED BY <2>1, <3>1, <3>2, WriteDoes DEF TermWriteType, TermWriteOperation, Registered
  <2>2. CASE ~(TermWriteType \/ TermWriteOperation)
    BY <2>2 DEF Terminal, TermOrder, TermLock, TermNobody, TermChoose, TermUnlock
  <2> QED BY <2>1, <2>2
<1> QED BY <1>1, <1>2, QuietAgrees

\* The steps of main that change neither the list nor a stream.
LEMMA MainWaitsAgrees ==
  ASSUME Types, Agreed, NEW c \in Procs, connectFun(c) \/ epoll_wait(c) \/ MainLock
  PROVE  Agreed'
<1> USE DEF Agreed, MainGoes
<1>1. CASE MainLock
  <2>1. HandKept /\ ListKept
        /\ UNCHANGED <<sock, toServer, toClient, name, pc, closed, sentLogin>>
    BY <1>1 DEF MainLock, HandKept, ListKept, procs, history
  <2> QED BY <2>1, QuietAgrees
<1>2. CASE epoll_wait(c)
  <2>1. /\ UNCHANGED <<clients, sock, toServer, toClient, msg_type, name, pc, closed, sentLogin>>
        /\ mainPc = "epoll_wait" /\ mainPc' = "message" /\ event' = c /\ sock[c] = "open"
    BY <1>2 DEF epoll_wait, EpollReports, procs, history
  <2>2. \A d \in Procs : ~LoginInHand(d) /\ ~LoginInHand(d)'
    BY <2>1 DEF LoginInHand, InHand
  <2>3. \A d \in Procs : Same(d)
    BY <2>1, <2>2 DEF Same
  <2>4. \A d \in Procs : StreamInv(d)' /\ ConnInv(d)' /\ (Pending(d)' <=> Pending(d))
    BY <2>1, <2>3, ConnKept DEF Registered
  <2>5. ListInv'
    BY <2>1, <2>4, EntryAt DEF ListInv
  <2>6. HandInv'
    BY <2>1 DEF HandInv, InHand
  <2> QED BY <2>4, <2>5, <2>6
<1>3. CASE connectFun(c)
  <2>1. /\ UNCHANGED <<clients, toServer, toClient, event, msg_type, name, pc, closed, sentLogin>>
        /\ mainPc = "epoll_wait" /\ mainPc' = "epoll_wait" /\ sock[c] = "backlog"
        /\ sock'[c] = "open" /\ \A d \in Procs : d # c => sock'[d] = sock[d]
    BY <1>3 DEF connectFun, procs, history, Types
  <2>2. \A d \in Procs : ~LoginInHand(d) /\ ~LoginInHand(d)'
    BY <2>1 DEF LoginInHand, InHand
  <2>3. \A d \in Procs : d # c => Same(d)
    BY <2>1, <2>2 DEF Same
  <2>4. \A d \in Procs : d # c => StreamInv(d)' /\ ConnInv(d)' /\ (Pending(d)' <=> Pending(d))
    BY <2>1, <2>3, ConnKept DEF Registered
  <2>5. Pending(c)' <=> Pending(c)
    BY <2>1, <2>2 DEF Pending, Has
  <2>6. StreamInv(c)' /\ ConnInv(c)'
    BY <2>1, <2>5 DEF StreamInv, ConnInv
  <2>7. ListInv'
    <3>1. \A i \in DOMAIN clients : clients[i].fd \in Procs /\ clients[i].fd # c
      BY <2>1, EntryAt DEF ListInv
    <3> QED BY <2>1, <2>4, <3>1 DEF ListInv
  <2>8. HandInv'
    BY <2>1 DEF HandInv, InHand
  <2> QED BY <2>4, <2>6, <2>7, <2>8
<1> QED BY <1>1, <1>2, <1>3

\* A message is read: what is pending stays pending, now in main's hand.
LEMMA MessageAgrees ==
  ASSUME Types, Agreed, message
  PROVE  Agreed'
<1> USE DEF Agreed
<1>1. PICK e \in Procs : e = event
  BY DEF message, HandInv
<1>2. CASE sock[e] # "open" \/ toServer[e] = <<>>
  <2>1. HandKept /\ ListKept
        /\ UNCHANGED <<sock, toServer, toClient, name, pc, closed, sentLogin>>
    BY <1>1, <1>2 DEF message, HandKept, ListKept, procs
  <2> QED BY <2>1, QuietAgrees
<1>3. CASE sock[e] = "open" /\ toServer[e] # <<>>
  <2> DEFINE s == toServer[e]
  <2>1. /\ s \in Seq(Tokens) /\ Tail(s) \in Seq(Tokens) /\ s # <<>> /\ Head(s) = s[1]
        /\ 1 \in DOMAIN s
        /\ \A i \in DOMAIN Tail(s) : i + 1 \in DOMAIN s /\ i + 1 # 1 /\ Tail(s)[i] = s[i + 1]
    BY <1>3, TailAt DEF Types
  <2>2. /\ toServer'[e] = Tail(s) /\ \A d \in Procs : d # e => toServer'[d] = toServer[d]
        /\ UNCHANGED <<clients, sock, toClient, name, pc, closed, sentLogin>>
        /\ mainPc = "message"
    BY <1>1, <1>3 DEF message, procs, Types
  <2>3. IF Head(s).type = "RESULT"
        THEN mainPc' = "epoll_wait"
        ELSE mainPc' = "lock" /\ msg_type' = Head(s).type /\ event' = e
    BY <1>1, <1>3 DEF message, BackToEpoll
  <2>4. /\ s[1].type \in {"LOGIN", "LOGOUT", "PONG", "RESULT"}
        /\ s[1].type = "LOGOUT" => pc[e] = "gone"
        /\ Pending(e) \/ e \notin sentLogin => s[1].type \in {"LOGIN", "LOGOUT"}
        /\ \A i \in DOMAIN s : s[i].type = "LOGIN" => i = 1
    BY <2>1 DEF StreamInv
  <2>5. ~Has(Tail(s), "LOGIN") /\ (Has(s, "LOGIN") <=> s[1].type = "LOGIN")
    <3>1. ~Has(Tail(s), "LOGIN")
      BY <2>1, <2>4, HasTail
    <3>2. Has(s, "LOGIN") => Head(s).type = "LOGIN"
      BY <2>1, <3>1, HasTail
    <3>3. s[1].type = "LOGIN" => Has(s, "LOGIN")
      BY <2>1 DEF Has
    <3> QED BY <2>1, <3>1, <3>2, <3>3
  <2>6. \A d : ~LoginInHand(d)
    BY <2>2 DEF LoginInHand, InHand
  <2>7. \A d \in Procs : d # e => Same(d)
    BY <1>1, <2>2, <2>3, <2>6 DEF Same, LoginInHand, InHand
  <2>8. \A d \in Procs : d # e => StreamInv(d)' /\ ConnInv(d)' /\ (Pending(d)' <=> Pending(d))
    BY <2>2, <2>7, ConnKept DEF Registered
  <2>9. Pending(e) <=> s[1].type = "LOGIN"
    BY <2>5, <2>6 DEF Pending
  <2>10. Pending(e)' <=> s[1].type = "LOGIN"
    <3>1. LoginInHand(e)' <=> s[1].type = "LOGIN"
      BY <2>1, <2>3 DEF LoginInHand, InHand
    <3>2. Pending(e)' <=> Has(toServer'[e], "LOGIN") \/ LoginInHand(e)'
      BY DEF Pending
    <3> QED BY <2>2, <2>5, <3>1, <3>2
  <2>11. StreamInv(e)'
    <3>1. \A i \in DOMAIN Tail(s) :
            /\ Tail(s)[i].type \in {"LOGIN", "LOGOUT", "PONG", "RESULT"}
            /\ Tail(s)[i].type # "LOGIN"
            /\ Tail(s)[i].type = "LOGOUT" => pc[e] = "gone"
            /\ Pending(e) \/ e \notin sentLogin => Tail(s)[i].type \in {"LOGIN", "LOGOUT"}
      BY <2>1 DEF StreamInv
    <3> HIDE DEF s
    <3> QED BY <1>3, <2>2, <2>9, <2>10, <3>1 DEF StreamInv
  <2>12. ConnInv(e)'
    BY <2>2, <2>9, <2>10 DEF ConnInv, Registered
  <2>13. ListInv'
    BY <2>2, <2>8, <2>9, <2>10, EntryAt DEF ListInv
  <2>14. HandInv'
    <3>1. CASE s[1].type = "RESULT"
      BY <2>1, <2>3, <3>1 DEF HandInv, InHand
    <3>2. CASE s[1].type = "LOGIN"
      <4>1. e \in sentLogin
        BY <2>9, <3>2 DEF ConnInv
      <4>2. /\ mainPc' = "lock" /\ msg_type' = "LOGIN" /\ event' = e
            /\ sock'[e] = "open" /\ ~Has(toServer'[e], "LOGIN") /\ e \in sentLogin'
        BY <1>3, <2>1, <2>2, <2>3, <2>5, <3>2, <4>1
      <4> QED BY <4>2 DEF HandInv, InHand
    <3>3. CASE s[1].type \in {"LOGOUT", "PONG"}
      <4>1. /\ mainPc' = "lock" /\ msg_type' = s[1].type /\ event' = e /\ sock'[e] = "open"
        BY <1>3, <2>1, <2>2, <2>3, <3>3
      <4>2. /\ s[1].type = "LOGOUT" => pc'[e] = "gone"
            /\ s[1].type = "PONG" => e \in sentLogin'
        BY <2>2, <2>4, <2>9
      <4>3. ASSUME e \in sentLogin, NEW i \in DOMAIN clients, clients[i].name = name[e]
            PROVE  clients[i].fd = e
        <5>1. PICK k \in DOMAIN clients : clients[k].fd = e
          BY <1>3, <2>9, <3>3, <4>3 DEF ConnInv, Registered
        <5>2. clients[k].name = name[e]
          BY <5>1 DEF ListInv
        <5> QED BY <4>3, <5>1, <5>2 DEF ListInv
      <4> HIDE DEF s
      <4> QED BY <2>2, <3>3, <4>1, <4>2, <4>3 DEF HandInv, InHand
    <3> QED BY <2>4, <3>1, <3>2, <3>3
  <2> QED BY <2>8, <2>11, <2>12, <2>13, <2>14
<1> QED BY <1>2, <1>3

\* A LOGIN that is refused: the sender is in nobody's list.
LEMMA RejectAgrees ==
  ASSUME Types, Agreed, NEW reply \in MessageTypes, MainHandles("LOGIN"), Reject(reply),
         UNCHANGED <<procs, history>>
  PROVE  Agreed'
<1> USE DEF Agreed
<1>1. PICK e \in Procs : e = event
  BY DEF MainHandles, HandInv
<1>2. LoginInHand(e) /\ e \in sentLogin /\ mainPc' = "epoll_wait"
  BY <1>1 DEF LoginInHand, InHand, MainHandles, HandInv, BackToEpoll
<1>3. \A d : ~LoginInHand(d)' /\ (LoginInHand(d) => d = e)
  BY <1>1, <1>2 DEF LoginInHand, InHand
<1>4. /\ sock'[e] = "closed" /\ toServer'[e] = <<>>
      /\ \A d \in Procs : d # e => sock'[d] = sock[d] /\ toServer'[d] = toServer[d]
                                   /\ toClient'[d] = toClient[d]
      /\ UNCHANGED <<clients, name, pc, closed, sentLogin>>
  BY <1>1, TokenTypes, WriteDoes, CloseDoes DEF Reject, procs, history
<1>5. \A d \in Procs : d # e => Same(d)
  BY <1>3, <1>4 DEF Same
<1>6. \A d \in Procs : d # e => StreamInv(d)' /\ ConnInv(d)' /\ (Pending(d)' <=> Pending(d))
  BY <1>4, <1>5, ConnKept DEF Registered
<1>7. ~Pending(e)' /\ StreamInv(e)'
  <2>1. DOMAIN toServer'[e] = {}
    BY <1>4
  <2> QED BY <1>3, <1>4, <2>1 DEF Pending, Has, StreamInv
<1>8. ConnInv(e)'
  <2>1. Pending(e) /\ sock[e] # "none"
    BY <1>1, <1>2 DEF Pending, MainHandles, HandInv
  <2> QED BY <1>2, <1>4, <1>7, <2>1 DEF ConnInv
<1>9. ListInv'
  <2>1. \A i \in DOMAIN clients : clients[i].fd \in Procs /\ clients[i].fd # e
    BY <1>2, EntryAt DEF ListInv, Pending
  <2> QED BY <1>4, <1>6, <2>1 DEF ListInv
<1>10. HandInv'
  BY <1>2 DEF HandInv, InHand
<1> QED BY <1>6, <1>7, <1>8, <1>9, <1>10

\* A LOGIN that is accepted: the list grows by its sender.
LEMMA AcceptAgrees ==
  ASSUME Types, Agreed, MainHandles("LOGIN"), check_name(name[event]) = 0,
         clients' = Append(clients, [fd |-> event, name |-> name[event], is_inactive |-> 0]),
         Write(event, Msg("SUCCESS")), UNCHANGED <<sock, toServer, procs, history>>
  PROVE  Agreed'
<1> USE DEF Agreed
<1>1. PICK e \in Procs : e = event
  BY DEF MainHandles, HandInv
<1>2. /\ LoginInHand(e) /\ e \in sentLogin /\ mainPc' = "epoll_wait"
      /\ sock[e] = "open" /\ ~Has(toServer[e], "LOGIN")
  BY <1>1 DEF LoginInHand, InHand, MainHandles, HandInv, BackToEpoll
<1>3. \A d : ~LoginInHand(d)' /\ (LoginInHand(d) => d = e)
  BY <1>1, <1>2 DEF LoginInHand, InHand
<1>4. /\ UNCHANGED <<sock, toServer, name, pc, closed, sentLogin>>
      /\ \A d \in Procs : d # e => toClient'[d] = toClient[d]
  BY <1>1, TokenTypes, WriteDoes DEF MessageTypes, procs, history
<1> DEFINE entry == [fd |-> e, name |-> name[e], is_inactive |-> 0]
           n == Len(clients) + 1
<1>5. entry \in Entry /\ entry.fd = e /\ entry.name = name[e]
  BY <1>1 DEF Entry, Types
<1>6. /\ DOMAIN clients' = DOMAIN clients \cup {n} /\ n \notin DOMAIN clients
      /\ clients'[n].fd = e /\ clients'[n].name = name[e]
      /\ \A i \in DOMAIN clients : clients'[i] = clients[i]
  <2>1. clients' = Append(clients, entry) /\ clients \in Seq(Entry)
    BY <1>1 DEF Types
  <2> HIDE DEF entry
  <2> QED BY <1>5, <2>1, AppendAt
<1> HIDE DEF entry, n
<1>7. Registered' = Registered \cup {e}
  BY <1>6 DEF Registered
<1>8. \A d \in Procs : d # e => Same(d)
  BY <1>3, <1>4 DEF Same
<1>9. \A d \in Procs : d # e => StreamInv(d)' /\ ConnInv(d)' /\ (Pending(d)' <=> Pending(d))
  BY <1>4, <1>7, <1>8, ConnKept
<1>10. Pending(e) /\ ~Pending(e)'
  BY <1>2, <1>3, <1>4 DEF Pending, Has
<1>11. StreamInv(e)' /\ ConnInv(e)'
  BY <1>2, <1>4, <1>7, <1>10 DEF StreamInv, ConnInv
<1>12. ListInv'
  <2>1. \A i \in DOMAIN clients : clients[i].fd \in Procs /\ clients[i].fd # e
                                  /\ clients[i].name # name[e]
    BY <1>1, <1>10, EntryAt, NameFound, MaxAssumption DEF ListInv
  <2>2. \A i, j \in DOMAIN clients' : i # j =>
          clients'[i].name # clients'[j].name /\ clients'[i].fd # clients'[j].fd
    BY <1>6, <2>1 DEF ListInv
  <2>3. ASSUME NEW i \in DOMAIN clients'
        PROVE  \E d \in Procs : /\ clients'[i].fd = d /\ clients'[i].name = name'[d]
                                /\ sock'[d] = "open" /\ d \in sentLogin' /\ ~Pending(d)'
    <3>1. CASE i = n
      BY <1>2, <1>4, <1>6, <1>10, <3>1
    <3>2. CASE i # n
      <4>1. PICK d \in Procs : d = clients[i].fd
        BY <1>6, <3>2, EntryAt
      <4>2. /\ clients[i].name = name[d] /\ sock[d] = "open" /\ d \in sentLogin
            /\ ~Pending(d) /\ d # e
        BY <1>6, <2>1, <3>2, <4>1 DEF ListInv
      <4> QED BY <1>4, <1>6, <1>9, <3>2, <4>1, <4>2
    <3> QED BY <3>1, <3>2
  <2> QED BY <2>2, <2>3 DEF ListInv
<1>13. HandInv'
  BY <1>2 DEF HandInv, InHand
<1> QED BY <1>9, <1>11, <1>12, <1>13

\* The handlers of LOGOUT and PONG.
LEMMA LogoutAgrees ==
  ASSUME Types, Agreed, logoutClient
  PROVE  Agreed'
<1> USE DEF Agreed
<1>1. HandKept /\ UNCHANGED <<toClient, name, pc, closed, sentLogin>>
  BY DEF logoutClient, MainHandles, BackToEpoll, HandKept, InHand, procs, history
<1> DEFINE i == check_name(name[event])
<1>2. CASE i = 0
  <2>1. UNCHANGED <<clients, sock, toServer>>
    BY <1>2 DEF logoutClient
  <2> QED BY <1>1, <2>1, QuietAgrees DEF ListKept
<1>3. CASE i # 0
  <2>1. i \in DOMAIN clients
    BY <1>3, NameFound
  <2>2. clients' = Without(i) /\ close_socket(clients[i].fd)
    BY <1>3 DEF logoutClient
  <2> HIDE DEF i
  <2> QED BY <1>1, <2>1, <2>2, RemovesAgree
<1> QED BY <1>2, <1>3

\* What pong does to the list.
LEMMA PongDoes ==
  ASSUME Types, pong
  PROVE  /\ ListKept
         /\ \A i \in DOMAIN clients :
              clients'[i].is_inactive = IF i = check_name(name[event])
                                        THEN (clients[i].is_inactive + 255) % 256
                                        ELSE clients[i].is_inactive
<1> DEFINE i == check_name(name[event])
<1>1. CASE i = 0
  <2>1. \A j \in DOMAIN clients : j # 0
    BY EntryAt
  <2> QED BY <1>1, <2>1 DEF pong, ListKept
<1>2. CASE i # 0
  <2> DEFINE n == (clients[i].is_inactive + 255) % 256
  <2>1. i \in DOMAIN clients
    BY <1>2, NameFound
  <2>2. clients' = [clients EXCEPT ![i].is_inactive = n]
    BY <1>2 DEF pong
  <2> HIDE DEF i
  <2>3. n \in 0..255
    <3>1. clients[i].is_inactive \in 0..255
      BY <2>1, EntryAt
    <3> QED BY <3>1
  <2> HIDE DEF n
  <2>4. ListKept /\ clients'[i].is_inactive = n
        /\ \A j \in DOMAIN clients : j # i => clients'[j] = clients[j]
    BY <2>1, <2>2, <2>3, EntryChanges DEF ListKept
  <2> QED BY <2>4 DEF i, n
<1> QED BY <1>1, <1>2

LEMMA MainAgrees ==
  ASSUME Types, Agreed, Main
  PROVE  Agreed'
<1>1. CASE loginClient
  <2>1. CASE Reject("WRONG_SIZE") \/ Reject("WRONG_NAME")
    <3>1. MainHandles("LOGIN") /\ UNCHANGED <<procs, history>>
      BY <1>1 DEF loginClient
    <3>2. "WRONG_SIZE" \in MessageTypes /\ "WRONG_NAME" \in MessageTypes
      BY DEF MessageTypes
    <3> QED BY <2>1, <3>1, <3>2, RejectAgrees
  <2>2. CASE ~(Reject("WRONG_SIZE") \/ Reject("WRONG_NAME"))
    BY <1>1, <2>2, AcceptAgrees DEF loginClient
  <2> QED BY <2>1, <2>2
<1>2. CASE pong
  <2>1. HandKept /\ UNCHANGED <<sock, toServer, toClient, name, pc, closed, sentLogin>>
    BY <1>2 DEF pong, MainHandles, BackToEpoll, HandKept, InHand, procs, history
  <2> QED BY <1>2, <2>1, PongDoes, QuietAgrees DEF Agreed
<1>3. CASE MainLock
  <2>1. event \in Procs
    BY <1>3 DEF MainLock, MainGoes, Agreed, HandInv
  <2> QED BY <1>3, <2>1, MainWaitsAgrees
<1> QED BY <1>1, <1>2, <1>3, MainWaitsAgrees, MessageAgrees, LogoutAgrees DEF Main

-----------------------------------------------------------------------------
\* What one client's steps leave alone.
LEMMA OnlyClient ==
  ASSUME Types, NEW c \in Procs, Client(c)
  PROVE  /\ UNCHANGED <<server, name>>
         /\ \A d \in Procs : d # c =>
              /\ Same(d) /\ toClient'[d] = toClient[d] /\ order'[d] = order[d]
         /\ sentLogin \subseteq sentLogin'
         /\ \A d : LoginInHand(d)' <=> LoginInHand(d)
<1>1. UNCHANGED <<server, name>>
  BY DEF Client, init, login, response, read, sendPong, calc, sendResult, EndOfFile,
         sigIntHandler, funAtExit, Killed
<1>2. \A d : LoginInHand(d)' <=> LoginInHand(d)
  BY <1>1 DEF LoginInHand, InHand, server, threads, main
<1>3. \A d \in Procs : d # c => pc'[d] = pc[d]
  BY DEF Client, ClientGoes, init, login, response, read, sendPong, calc, sendResult,
         EndOfFile, sigIntHandler, funAtExit, Killed, Types
<1>4. \A d \in Procs : d # c => sock'[d] = sock[d] /\ order'[d] = order[d]
  BY DEF Client, init, login, response, read, sendPong, calc, sendResult,
         EndOfFile, sigIntHandler, funAtExit, Killed, Types
<1>5. \A d \in Procs : d # c => toServer'[d] = toServer[d]
  BY DEF Client, Send, init, login, response, read, sendPong, calc, sendResult,
         EndOfFile, sigIntHandler, funAtExit, Killed, Types
<1>6. \A d \in Procs : d # c => toClient'[d] = toClient[d] /\ closed'[d] = closed[d]
  BY DEF Client, Receives, Close, init, login, response, read, sendPong, calc, sendResult,
         EndOfFile, sigIntHandler, funAtExit, Killed, Types
<1>7. /\ sentLogin \subseteq sentLogin'
      /\ \A d \in Procs : d # c => (d \in sentLogin' <=> d \in sentLogin)
  BY DEF Client, init, login, response, read, sendPong, calc, sendResult,
         EndOfFile, sigIntHandler, funAtExit, Killed
<1> QED BY <1>1, <1>2, <1>3, <1>4, <1>5, <1>6, <1>7 DEF Same

\* A client that sends no LOGIN adds none to its stream.
LEMMA SendKeepsPending ==
  ASSUME Types, NEW c \in Procs, NEW msg \in Tokens, msg.type # "LOGIN", Send(c, msg),
         LoginInHand(c)' <=> LoginInHand(c)
  PROVE  /\ Pending(c)' <=> Pending(c)
         /\ \A i \in DOMAIN toServer'[c] :
              \/ i \in DOMAIN toServer[c] /\ toServer'[c][i] = toServer[c][i]
              \/ i = Len(toServer[c]) + 1 /\ toServer'[c][i] = msg /\ sock[c] # "closed"
<1>1. toServer[c] \in Seq(Tokens)
  BY DEF Types
<1>2. CASE sock[c] = "closed"
  <2>1. toServer'[c] = toServer[c]
    BY <1>2, SendDoes
  <2> QED BY <2>1 DEF Pending, Has
<1>3. CASE sock[c] # "closed"
  <2>1. toServer'[c] = Append(toServer[c], msg)
    BY <1>3, SendDoes
  <2>2. Has(toServer'[c], "LOGIN") <=> Has(toServer[c], "LOGIN")
    BY <1>1, <2>1, HasAppend
  <2>3. Has(toServer[c], "LOGIN")' <=> Has(toServer'[c], "LOGIN")
    BY DEF Has
  <2>4. Pending(c)' <=> Pending(c)
    BY <2>2, <2>3 DEF Pending
  <2>5. /\ DOMAIN toServer'[c] = DOMAIN toServer[c] \cup {Len(toServer[c]) + 1}
        /\ \A i \in DOMAIN toServer[c] : toServer'[c][i] = toServer[c][i]
        /\ toServer'[c][Len(toServer[c]) + 1] = msg
    BY <1>1, <2>1, AppendAt
  <2> QED BY <1>3, <2>4, <2>5
<1> QED BY <1>2, <1>3

\* The client's own end of the agreement: LOGIN, the only step that makes
\* something pending, and the others.
LEMMA LoginConn ==
  ASSUME Types, Agreed, NEW c \in Procs, login(c)
  PROVE  StreamInv(c)' /\ ConnInv(c)' /\ c \notin sentLogin
<1> USE DEF Agreed
<1>1. /\ pc[c] = "login" /\ pc'[c] = "response" /\ Send(c, Msg("LOGIN"))
      /\ sentLogin' = sentLogin \cup {c} /\ UNCHANGED <<server, sock, toClient, closed>>
  BY DEF login, ClientGoes, Types
<1>2. c \notin sentLogin /\ toClient[c] = <<>> /\ ~Pending(c) /\ sock[c] # "none"
      /\ closed[c] = FALSE
  BY <1>1 DEF ConnInv, Types
<1>3. toServer[c] = <<>>
  <2>1. \A i \in DOMAIN toServer[c] : FALSE
    BY <1>1, <1>2 DEF StreamInv, Pending, Has
  <2>2. toServer[c] \in Seq(Tokens)
    BY DEF Types
  <2> QED BY <2>1, <2>2, TailAt
<1>4. Msg("LOGIN") \in Tokens /\ Msg("LOGIN").type = "LOGIN"
  BY TokenTypes DEF MessageTypes
<1>5. ~LoginInHand(c)' /\ ~LoginInHand(c)
  BY <1>1, <1>2 DEF LoginInHand, InHand, server, threads, main, Pending
<1>6. CASE sock[c] = "closed"
  <2>1. toServer'[c] = <<>>
    BY <1>1, <1>3, <1>4, <1>6, SendDoes
  <2>2. ~Pending(c)' /\ StreamInv(c)'
    BY <1>5, <2>1 DEF Pending, Has, StreamInv
  <2>3. ConnInv(c)'
    BY <1>1, <1>2, <1>6, <2>2 DEF ConnInv, Awake
  <2> QED BY <1>2, <2>2, <2>3
<1>7. CASE sock[c] # "closed"
  <2>1. toServer'[c] = <<Msg("LOGIN")>>
    BY <1>1, <1>3, <1>4, <1>7, SendDoes
  <2>2. DOMAIN toServer'[c] = {1} /\ toServer'[c][1].type = "LOGIN"
    BY <1>4, <2>1
  <2>3. Pending(c)'
    BY <2>2 DEF Pending, Has
  <2>4. StreamInv(c)'
    BY <1>1, <1>2, <1>7, <2>2, <2>3 DEF StreamInv
  <2>5. sock[c] \in {"backlog", "open"}
    BY <1>2, <1>7 DEF Types
  <2>6. ConnInv(c)'
    BY <1>1, <1>2, <2>3, <2>5 DEF ConnInv, InLoop
  <2> QED BY <1>2, <2>4, <2>6
<1> QED BY <1>6, <1>7

LEMMA ClientConn ==
  ASSUME Types, Agreed, NEW c \in Procs, Client(c), ~login(c)
  PROVE  StreamInv(c)' /\ ConnInv(c)' /\ (Pending(c)' <=> Pending(c))
<1> USE DEF Agreed
<1>1. /\ UNCHANGED <<server, sentLogin>> /\ (LoginInHand(c)' <=> LoginInHand(c))
      /\ (c \in Registered' <=> c \in Registered)
  <2>1. UNCHANGED sentLogin
    BY DEF Client, init, response, read, sendPong, calc, sendResult, EndOfFile,
           sigIntHandler, funAtExit, Killed
  <2> QED BY <2>1, OnlyClient DEF server, Registered
<1>2. StreamInv(c) /\ ConnInv(c)
  OBVIOUS
<1>3. ASSUME UNCHANGED <<sock, toServer>>, pc[c] # "gone" \/ pc'[c] = "gone"
      PROVE  StreamInv(c)' /\ (Pending(c)' <=> Pending(c))
  BY <1>1, <1>2, <1>3 DEF StreamInv, Pending, Has
<1>4. CASE init(c)
  <2>1. pc[c] = "init" /\ pc'[c] = "login" /\ sock'[c] = "backlog"
        /\ UNCHANGED <<toServer, toClient, closed>>
    BY <1>4 DEF init, ClientGoes, Types
  <2>2. sock[c] = "none" /\ c \notin sentLogin /\ DOMAIN toServer[c] = {}
    BY <1>2, <2>1 DEF ConnInv, StreamInv
  <2>3. StreamInv(c)' /\ (Pending(c)' <=> Pending(c))
    BY <1>1, <2>1, <2>2 DEF StreamInv, Pending, Has
  <2>4. ConnInv(c)'
    BY <1>1, <1>2, <2>1, <2>2, <2>3 DEF ConnInv, Awake, InLoop
  <2> QED BY <2>3, <2>4
<1>5. CASE response(c) \/ read(c) \/ calc(c)
  <2>1. /\ UNCHANGED <<sock, toServer, closed>> /\ pc[c] \in {"response", "read", "calc"}
        /\ toClient[c] # <<>> /\ pc[c] \in Awake
    BY <1>5 DEF response, read, calc, ClientGoes, Receives, Awake, InLoop
  <2>2. pc'[c] \in {"read", "pong", "calc", "result", "exit"}
    BY <1>5 DEF response, read, calc, ClientGoes, Types
  <2>3. StreamInv(c)' /\ (Pending(c)' <=> Pending(c))
    BY <1>3, <2>1
  <2>4. ConnInv(c)'
    BY <1>1, <1>2, <2>1, <2>2, <2>3 DEF ConnInv
  <2> QED BY <2>3, <2>4
<1>6. CASE sendPong(c) \/ sendResult(c)
  <2>1. PICK msg \in Tokens : Send(c, msg) /\ msg.type \in {"PONG", "RESULT"}
    BY <1>6, TokenTypes, ZenonT(30) DEF sendPong, sendResult, MessageTypes, Types
  <2>2. pc[c] \in {"pong", "result"} /\ pc'[c] = "read" /\ UNCHANGED <<sock, toClient, closed>>
    BY <1>6 DEF sendPong, sendResult, ClientGoes, Types
  <2>3. c \in sentLogin /\ ~Pending(c)
    BY <1>2, <2>2 DEF ConnInv, Awake, InLoop
  <2>4. ~Pending(c)' /\ \A i \in DOMAIN toServer'[c] :
              \/ i \in DOMAIN toServer[c] /\ toServer'[c][i] = toServer[c][i]
              \/ toServer'[c][i] = msg /\ sock[c] # "closed"
    BY <1>1, <2>1, <2>3, SendKeepsPending
  <2>5. sock[c] = "closed" => toServer'[c] = <<>>
    BY <1>2, <2>1, SendDoes DEF StreamInv
  <2>6. sock[c] # "none"
    BY <1>2, <2>2 DEF ConnInv
  <2>7. StreamInv(c)'
    BY <1>1, <1>2, <2>1, <2>2, <2>3, <2>4, <2>5, <2>6 DEF StreamInv
  <2>8. ConnInv(c)'
    BY <1>1, <1>2, <2>2, <2>3, <2>4 DEF ConnInv, Awake, InLoop
  <2> QED BY <2>3, <2>4, <2>7, <2>8
<1>7. CASE EndOfFile(c) \/ sigIntHandler(c)
  <2>1. UNCHANGED <<sock, toServer, toClient, closed>> /\ pc'[c] = "exit"
        /\ pc[c] \notin {"init", "gone"}
    BY <1>7 DEF EndOfFile, sigIntHandler, Types
  <2>2. StreamInv(c)' /\ (Pending(c)' <=> Pending(c))
    BY <1>3, <2>1
  <2>3. ConnInv(c)'
    BY <1>1, <1>2, <2>1, <2>2 DEF ConnInv, Awake, InLoop
  <2> QED BY <2>2, <2>3
<1>8. CASE funAtExit(c)
  <2>1. Msg("LOGOUT") \in Tokens /\ Msg("LOGOUT").type = "LOGOUT"
    BY TokenTypes DEF MessageTypes
  <2>2. /\ pc[c] = "exit" /\ pc'[c] = "gone" /\ Send(c, Msg("LOGOUT")) /\ UNCHANGED sock
        /\ closed'[c] /\ toClient'[c] = <<>>
    BY <1>8, ClosedDoes DEF funAtExit, ClientGoes, Types
  <2>3. (Pending(c)' <=> Pending(c)) /\ \A i \in DOMAIN toServer'[c] :
              \/ i \in DOMAIN toServer[c] /\ toServer'[c][i] = toServer[c][i]
              \/ toServer'[c][i] = Msg("LOGOUT") /\ sock[c] # "closed"
    BY <1>1, <2>1, <2>2, SendKeepsPending
  <2>4. sock[c] = "closed" => toServer'[c] = <<>>
    BY <1>2, <2>1, <2>2, SendDoes DEF StreamInv
  <2>5. sock[c] # "none"
    BY <1>2, <2>2 DEF ConnInv
  <2>6. StreamInv(c)'
    BY <1>1, <1>2, <2>1, <2>2, <2>3, <2>4, <2>5 DEF StreamInv
  <2>7. ConnInv(c)'
    BY <1>1, <1>2, <2>2, <2>3, <2>5 DEF ConnInv, Awake, InLoop
  <2> QED BY <2>3, <2>6, <2>7
<1>9. CASE Killed(c)
  <2>1. /\ pc[c] \notin {"init", "gone"} /\ pc'[c] = "gone" /\ UNCHANGED <<sock, toServer>>
        /\ closed'[c] /\ toClient'[c] = <<>>
    BY <1>9, ClosedDoes DEF Killed, Types
  <2>2. StreamInv(c)' /\ (Pending(c)' <=> Pending(c))
    BY <1>3, <2>1
  <2>3. ConnInv(c)'
    BY <1>1, <1>2, <2>1, <2>2 DEF ConnInv, Awake, InLoop
  <2> QED BY <2>2, <2>3
<1> QED BY <1>4, <1>5, <1>6, <1>7, <1>8, <1>9 DEF Client

LEMMA ClientAgrees ==
  ASSUME Types, Agreed, NEW c \in Procs, Client(c)
  PROVE  Agreed'
<1> USE DEF Agreed
<1>1. /\ UNCHANGED <<clients, main, name>> /\ Registered' = Registered
      /\ sentLogin \subseteq sentLogin'
      /\ \A d : LoginInHand(d)' <=> LoginInHand(d)
  BY OnlyClient DEF server, threads, Registered
<1>2. \A d \in Procs : d # c => StreamInv(d)' /\ ConnInv(d)' /\ (Pending(d)' <=> Pending(d))
  BY <1>1, OnlyClient, ConnKept
<1>3. StreamInv(c)' /\ ConnInv(c)' /\ ((Pending(c)' <=> Pending(c)) \/ c \notin sentLogin)
  BY LoginConn, ClientConn
<1>4. sock[c] # "none" => sock'[c] = sock[c]
  BY DEF Client, init, login, response, read, sendPong, calc, sendResult, EndOfFile,
         sigIntHandler, funAtExit, Killed, ClientGoes, ConnInv
<1>5. pc[c] = "gone" => pc'[c] = "gone"
  BY DEF Client, init, login, response, read, sendPong, calc, sendResult, EndOfFile,
         sigIntHandler, funAtExit, Killed, ClientGoes
<1>6. \A d \in Procs : sock[d] # "none" => sock'[d] = sock[d]
  BY <1>4, OnlyClient DEF Same
<1>7. ListInv'
  <2>1. \A i \in DOMAIN clients : \E d \in Procs :
          /\ d = clients[i].fd /\ clients[i].name = name[d] /\ sock'[d] = "open"
          /\ d \in sentLogin' /\ ~Pending(d)'
    BY <1>1, <1>2, <1>3, <1>6, EntryAt DEF ListInv
  <2> QED BY <1>1, <2>1 DEF ListInv
<1>8. HandInv'
  <2>1. mainPc # "epoll_wait" => event \in Procs /\ sock'[event] \in {"open", "closed"}
    BY <1>6 DEF HandInv
  <2>2. InHand("LOGIN") => /\ sock'[event] = "open" /\ event \in sentLogin'
                           /\ ~Has(toServer'[event], "LOGIN")
    <3> SUFFICES ASSUME InHand("LOGIN")
                 PROVE  /\ sock'[event] = "open" /\ event \in sentLogin'
                        /\ ~Has(toServer'[event], "LOGIN")
      OBVIOUS
    <3>1. event \in Procs /\ sock[event] = "open" /\ event \in sentLogin
          /\ ~Has(toServer[event], "LOGIN")
      BY DEF HandInv, InHand
    <3>2. ~Has(toServer'[event], "LOGIN")
      <4>1. CASE event # c
        BY <3>1, <4>1, OnlyClient DEF Same
      <4>2. CASE event = c
        <5>1. ~login(c)
          BY <3>1, <4>2, LoginConn
        <5>2. toServer'[c] = toServer[c] \/ (\E msg \in Tokens : msg.type # "LOGIN" /\ Send(c, msg))
          BY <5>1, TokenTypes DEF Client, init, response, read, sendPong, calc, sendResult,
             EndOfFile, sigIntHandler, funAtExit, Killed, MessageTypes, Types
        <5>3. ASSUME NEW msg \in Tokens, msg.type # "LOGIN", Send(c, msg)
              PROVE  ~Has(toServer'[c], "LOGIN")
          <6>1. \A i \in DOMAIN toServer'[c] :
                  \/ i \in DOMAIN toServer[c] /\ toServer'[c][i] = toServer[c][i]
                  \/ i = Len(toServer[c]) + 1 /\ toServer'[c][i] = msg /\ sock[c] # "closed"
            BY <1>1, <5>3, SendKeepsPending
          <6>2. \A i \in DOMAIN toServer[c] : toServer[c][i].type # "LOGIN"
            BY <3>1, <4>2 DEF Has
          <6> QED BY <5>3, <6>1, <6>2 DEF Has
        <5>4. ~Has(toServer'[c], "LOGIN")
          <6>1. toServer'[c] = toServer[c] => ~Has(toServer'[c], "LOGIN")
            BY <3>1, <4>2
          <6> QED BY <5>2, <5>3, <6>1
        <5> QED BY <4>2, <5>4
      <4> QED BY <4>1, <4>2
    <3> QED BY <1>1, <1>6, <3>1, <3>2
  <2>3. InHand("LOGOUT") => pc'[event] = "gone"
    BY <1>5, OnlyClient DEF HandInv, InHand, Same
  <2>4. InHand("LOGOUT") /\ event \in sentLogin' => event \in sentLogin
    <3> SUFFICES ASSUME InHand("LOGOUT") PROVE (event \in sentLogin' => event \in sentLogin)
      OBVIOUS
    <3>1. event \in Procs /\ pc[event] = "gone"
      BY DEF HandInv, InHand
    <3>2. CASE event = c
      BY <3>1, <3>2 DEF Client, init, login, response, read, sendPong, calc, sendResult,
         EndOfFile, sigIntHandler, funAtExit, Killed, ClientGoes
    <3>3. CASE event # c
      BY <3>1, <3>3, OnlyClient DEF Same
    <3> QED BY <3>2, <3>3
  <2>5. \A type : InHand(type)' <=> InHand(type)
    BY <1>1 DEF InHand, main
  <2> QED BY <1>1, <2>1, <2>2, <2>3, <2>4, <2>5 DEF HandInv, main
<1> QED BY <1>2, <1>3, <1>7, <1>8

LEMMA StepAgrees == Types /\ AgreeInv /\ [Next]_vars => AgreeInv'
<1> SUFFICES ASSUME Types, AgreeInv, [Next]_vars PROVE AgreeInv'
  OBVIOUS
<1>1. CASE UNCHANGED vars
  <2>1. Holders'
    BY <1>1 DEF vars, threads, main, ping, term, AgreeInv, Holders
  <2>2. HandKept /\ ListKept /\ UNCHANGED <<sock, toServer, toClient, name, pc, closed, sentLogin>>
    BY <1>1 DEF vars, threads, HandKept, ListKept, procs, history
  <2> QED BY <2>1, <2>2, QuietAgrees DEF AgreeInv
<1>2. CASE Next
  <2>1. Holders' /\ Agreed
    BY <1>2, HoldersKept DEF AgreeInv, Agreed
  <2>2. Agreed'
    BY <1>2, <2>1, MainAgrees, PingAgrees, TermAgrees, ClientAgrees DEF Next, AgreeInv
  <2> QED BY <2>1, <2>2 DEF AgreeInv, Agreed
<1> QED BY <1>1, <1>2

LEMMA InitAgrees == Init => AgreeInv
<1> SUFFICES ASSUME Init PROVE AgreeInv
  OBVIOUS
<1>1. DOMAIN clients = {} /\ Len(clients) = 0
  BY DEF Init
<1>2. Holders /\ HandInv /\ ListInv
  BY <1>1 DEF Init, Holders, HandInv, ListInv, InHand
<1>3. ASSUME NEW c \in Procs PROVE StreamInv(c) /\ ConnInv(c)
  <2>1. /\ sock[c] = "none" /\ toServer[c] = <<>> /\ toClient[c] = <<>> /\ pc[c] = "init"
        /\ closed[c] = FALSE /\ c \notin sentLogin /\ DOMAIN toServer[c] = {}
    BY DEF Init
  <2>2. ~Pending(c)
    BY <2>1 DEF Init, Pending, Has, LoginInHand, InHand
  <2> QED BY <2>1, <2>2 DEF StreamInv, ConnInv, Awake, InLoop
<1> QED BY <1>2, <1>3 DEF AgreeInv

-----------------------------------------------------------------------------
(* Nobody is taken off the list without cause. *)
\* Whoever is not at the place that is removed stays in the list.
LEMMA RemovedOnly ==
  ASSUME Types, NEW i \in DOMAIN clients, clients' = Without(i),
         NEW j \in DOMAIN clients, j # i
  PROVE  clients[j].fd \in Registered'
<1>1. j \in Nat /\ i \in Nat
  BY EntryAt
<1>2. CASE j < i
  BY <1>2, Removed DEF Registered
<1>3. CASE j > i
  BY <1>3, Removed DEF Registered
<1> QED BY <1>1, <1>2, <1>3

\* Only two steps remove anybody, and only one adds to the list.
LEMMA ListSteps ==
  ASSUME Types, AgreeInv, Next
  PROVE  \/ ListKept
         \/ PingRemoves
         \/ logoutClient /\ check_name(name[event]) # 0
         \/ /\ loginClient /\ mainPc = "handle" /\ event \in Procs /\ name[event] \in Names
            /\ clients' = Append(clients, [fd |-> event, name |-> name[event],
                                           is_inactive |-> 0])
<1>1. clients' = clients => ListKept
  BY DEF ListKept
<1>2. CASE Terminal
  BY <1>1, <1>2 DEF Terminal, TermOrder, TermLock, TermNobody, TermChoose, TermWriteType,
                    TermWriteOperation, TermUnlock
<1>3. ASSUME NEW c \in Procs, Client(c) PROVE ListKept
  BY <1>1, <1>3, OnlyClient DEF server
<1>4. ASSUME PingWrites PROVE ListKept
  <2> DEFINE n == (clients[pingAt].is_inactive + 1) % 256
  <2>1. pingAt \in DOMAIN clients
    BY <1>4 DEF Types, PingWrites, PingAtClient
  <2>2. n \in 0..255
    <3>1. clients[pingAt].is_inactive \in 0..255
      BY <2>1, EntryAt
    <3> QED BY <3>1
  <2>3. clients' = [clients EXCEPT ![pingAt].is_inactive = n]
    BY <1>4 DEF PingWrites
  <2> HIDE DEF n
  <2> QED BY <2>1, <2>2, <2>3, EntryChanges DEF ListKept
<1>5. CASE Ping
  BY <1>1, <1>4, <1>5 DEF Ping, PingLock, PingUnlock
<1>6. CASE Main
  <2>1. mainPc = "handle" => event \in Procs /\ name[event] \in Names
    BY DEF AgreeInv, HandInv, Types
  <2>2. ASSUME NEW c \in Procs, connectFun(c) \/ epoll_wait(c) PROVE ListKept
    BY <1>1, <2>2 DEF connectFun, epoll_wait
  <2>3. CASE message \/ MainLock
    BY <1>1, <2>3 DEF message, MainLock
  <2>4. CASE logoutClient
    BY <1>1, <2>4 DEF logoutClient
  <2>5. CASE loginClient
    BY <1>1, <2>1, <2>5 DEF loginClient, Reject, MainHandles
  <2> QED BY <1>6, <2>2, <2>3, <2>4, <2>5, PongDoes DEF Main
<1> QED BY <1>2, <1>3, <1>5, <1>6 DEF Next

LEMMA StepLeaves ==
  ASSUME Types, AgreeInv, Next, NEW i \in DOMAIN clients, clients[i].fd \notin Registered'
  PROVE  \/ pingPc = "for" /\ i = pingAt /\ clients[i].is_inactive # 0
         \/ InHand("LOGOUT") /\ event = clients[i].fd
         \/ InHand("LOGOUT") /\ event \notin sentLogin /\ pc[event] = "gone"
<1>1. ~ListKept
  BY DEF ListKept, Registered
<1>2. CASE PingRemoves
  <2>1. pingAt \in DOMAIN clients
    BY <1>2 DEF Types, PingRemoves, PingAtClient
  <2> QED BY <1>2, <2>1, RemovedOnly DEF PingRemoves, PingAtClient
<1>3. CASE logoutClient /\ check_name(name[event]) # 0
  <2> DEFINE k == check_name(name[event])
  <2>1. k \in DOMAIN clients /\ clients[k].name = name[event]
    BY <1>3, NameFound
  <2>2. clients' = Without(k) /\ InHand("LOGOUT")
    BY <1>3 DEF logoutClient, MainHandles, InHand
  <2> HIDE DEF k
  <2>3. i = k
    BY <2>1, <2>2, RemovedOnly
  <2> QED BY <2>1, <2>2, <2>3 DEF AgreeInv, HandInv
<1>4. CASE clients' = Append(clients, [fd |-> event, name |-> name[event], is_inactive |-> 0])
           /\ event \in Procs /\ name[event] \in Names
  <2> DEFINE e == [fd |-> event, name |-> name[event], is_inactive |-> 0]
  <2>1. e \in Entry /\ clients \in Seq(Entry) /\ clients' = Append(clients, e)
    BY <1>4 DEF Entry, Types
  <2> HIDE DEF e
  <2>2. i \in DOMAIN clients' /\ clients'[i] = clients[i]
    BY <2>1, AppendAt
  <2> QED BY <2>2 DEF Registered
<1> QED BY <1>1, <1>2, <1>3, <1>4, ListSteps

-----------------------------------------------------------------------------
(* What the server writes to a client, and what the client makes of it. *)
Answers == {"SUCCESS", "WRONG_SIZE", "WRONG_NAME"}

\* The terminal thread has written REQUEST to c and not yet its operation_t.
Half(c) == termPc = "operation_t" /\ clients[termAt].fd = c

\* What is at i of the stream to c should be an operation_t.
Expects(c, i) == IF i = 1 THEN pc[c] = "calc" ELSE toClient[c][i - 1].type = "REQUEST"

TalkInv(c) == pc[c] \in Awake =>
  /\ \A i \in DOMAIN toClient[c] :
       LET type == toClient[c][i].type
       IN /\ type = "operation_t" <=> Expects(c, i)
          /\ type \in Answers <=> (pc[c] = "response" /\ i = 1)
          /\ type \in Answers \cup {"PING", "REQUEST", "operation_t"}
  /\ Half(c) <=> Expects(c, Len(toClient[c]) + 1)
  /\ pc[c] = "response" /\ c \in Registered =>
       toClient[c] # <<>> /\ toClient[c][1].type = "SUCCESS"

\* A step that does not touch the stream, nor what is expected of it.
LEMMA TalkKept ==
  ASSUME Types, NEW c \in Procs, TalkInv(c), toClient'[c] = toClient[c],
         Half(c)' <=> Half(c), c \in Registered' => c \in Registered,
         pc'[c] \in Awake => /\ pc[c] \in Awake
                             /\ (pc'[c] = "calc" <=> pc[c] = "calc")
                             /\ (pc'[c] = "response" <=> pc[c] = "response")
  PROVE  TalkInv(c)'
BY DEF TalkInv, Expects

\* A write of the server. An answer goes to an empty stream only, and an
\* operation_t where one is expected.
LEMMA TalkWritten ==
  ASSUME Types, NEW c \in Procs, TalkInv(c), NEW token \in Tokens,
         toClient'[c] = Append(toClient[c], token), pc'[c] = pc[c],
         token.type = "operation_t" <=> Half(c),
         token.type \in Answers <=> (pc[c] = "response" /\ toClient[c] = <<>>),
         token.type \in Answers \cup {"PING", "REQUEST", "operation_t"},
         Half(c)' <=> token.type = "REQUEST",
         c \in Registered' => c \in Registered \/ token.type = "SUCCESS"
  PROVE  TalkInv(c)'
<1> DEFINE s == toClient[c]
           t == toClient'[c]
           Wants(i) == IF i = 1 THEN pc'[c] = "calc" ELSE t[i - 1].type = "REQUEST"
<1>1. /\ s \in Seq(Tokens) /\ t \in Seq(Tokens) /\ Len(t) = Len(s) + 1 /\ Len(s) \in Nat
      /\ DOMAIN t = DOMAIN s \cup {Len(s) + 1} /\ t[Len(s) + 1] = token
      /\ \A i \in DOMAIN s : t[i] = s[i] /\ i <= Len(s)
      /\ DOMAIN s = 1..Len(s) /\ t # <<>>
  <2>1. s \in Seq(Tokens) /\ t = Append(s, token)
    BY DEF Types
  <2> HIDE DEF s, t
  <2> QED BY <2>1, AppendAt
<1>2. s = <<>> <=> Len(s) = 0
  BY <1>1
<1> HIDE DEF s, t
<1>3. \A i \in 1..(Len(s) + 1) : Wants(i) <=> Expects(c, i)
  <2> SUFFICES ASSUME NEW i \in 1..(Len(s) + 1), i # 1
               PROVE  t[i - 1] = s[i - 1]
    BY DEF Expects, s, t
  <2>1. i - 1 \in DOMAIN s
    BY <1>1
  <2> QED BY <1>1, <2>1
<1>4. Wants(Len(t) + 1) <=> token.type = "REQUEST"
  <2>1. Len(t) + 1 # 1 /\ (Len(t) + 1) - 1 = Len(s) + 1
    BY <1>1
  <2> QED BY <1>1, <2>1
<1>5. SUFFICES ASSUME pc[c] \in Awake PROVE TalkInv(c)'
  BY DEF TalkInv
<1>6. ASSUME NEW i \in DOMAIN t
      PROVE  /\ t[i].type = "operation_t" <=> Wants(i)
             /\ t[i].type \in Answers <=> (pc'[c] = "response" /\ i = 1)
             /\ t[i].type \in Answers \cup {"PING", "REQUEST", "operation_t"}
  <2>1. CASE i \in DOMAIN s
    BY <1>1, <1>3, <1>5, <2>1, SMTT(30) DEF TalkInv, s
  <2>2. CASE i = Len(s) + 1
    <3>1. Wants(i) <=> Half(c)
      BY <1>1, <1>3, <1>5, <2>2 DEF TalkInv, s
    <3>2. i = 1 <=> s = <<>>
      BY <1>1, <1>2, <2>2
    <3> QED BY <1>1, <2>2, <3>1, <3>2 DEF s
  <2> QED BY <1>1, <1>6, <2>1, <2>2
<1>7. Half(c)' <=> Wants(Len(t) + 1)
  BY <1>4
<1>8. ASSUME pc'[c] = "response", c \in Registered'
      PROVE  t # <<>> /\ t[1].type = "SUCCESS"
  <2>1. CASE s = <<>>
    <3>1. c \notin Registered
      BY <1>5, <1>8, <2>1 DEF TalkInv, s
    <3> QED BY <1>1, <1>2, <1>8, <2>1, <3>1
  <2>2. CASE s # <<>>
    <3>1. token.type # "SUCCESS"
      BY <2>2 DEF Answers, s
    <3>2. 1 \in DOMAIN s /\ t[1] = s[1]
      BY <1>1, <1>2, <2>2
    <3> QED BY <1>1, <1>5, <1>8, <3>1, <3>2 DEF TalkInv, s
  <2> QED BY <2>1, <2>2
<1> QED BY <1>1, <1>6, <1>7, <1>8 DEF TalkInv, Expects, t

\* The client takes the next token and goes where it sends it.
LEMMA TalkRead ==
  ASSUME Types, NEW c \in Procs, TalkInv(c), pc[c] \in Awake, toClient[c] # <<>>,
         toClient'[c] = Tail(toClient[c]), Half(c)' <=> Half(c), pc'[c] # "response",
         pc'[c] \in Awake => (pc'[c] = "calc" <=> Head(toClient[c]).type = "REQUEST")
  PROVE  TalkInv(c)'
<1> DEFINE s == toClient[c]
           t == toClient'[c]
           Wants(i) == IF i = 1 THEN pc'[c] = "calc" ELSE t[i - 1].type = "REQUEST"
<1>1. /\ s \in Seq(Tokens) /\ t \in Seq(Tokens) /\ Len(t) = Len(s) - 1 /\ Len(s) \in Nat \ {0}
      /\ \A i \in DOMAIN t : i + 1 \in DOMAIN s /\ i + 1 # 1 /\ t[i] = s[i + 1]
      /\ Head(s) = s[1] /\ DOMAIN t = 1..Len(t)
  <2>1. s \in Seq(Tokens) /\ t = Tail(s) /\ s # <<>>
    BY DEF Types
  <2> HIDE DEF s, t
  <2> QED BY <2>1, TailAt
<1> HIDE DEF s, t
<1>2. SUFFICES ASSUME pc'[c] \in Awake PROVE TalkInv(c)'
  BY DEF TalkInv
<1>3. ASSUME NEW i \in 1..Len(s) PROVE Wants(i) <=> Expects(c, i + 1)
  <2>1. CASE i = 1
    <3>1. (i + 1) - 1 = 1 /\ i + 1 # 1
      BY <2>1
    <3> QED BY <1>1, <1>2, <2>1, <3>1 DEF Expects, s
  <2>2. CASE i # 1
    <3>1. i - 1 \in DOMAIN t /\ (i - 1) + 1 = i /\ (i + 1) - 1 = i /\ i + 1 # 1
      BY <1>1, <2>2
    <3>2. t[i - 1] = s[i]
      BY <1>1, <3>1
    <3> QED BY <2>2, <3>1, <3>2 DEF Expects, s, t
  <2> QED BY <2>1, <2>2
<1>4. ASSUME NEW i \in DOMAIN t
      PROVE  /\ t[i].type = "operation_t" <=> Wants(i)
             /\ t[i].type \in Answers <=> (pc'[c] = "response" /\ i = 1)
             /\ t[i].type \in Answers \cup {"PING", "REQUEST", "operation_t"}
  <2>1. i \in 1..Len(s)
    BY <1>1
  <2>2. /\ i + 1 \in DOMAIN s /\ t[i] = s[i + 1] /\ i + 1 # 1
    BY <1>1
  <2>3. /\ s[i + 1].type = "operation_t" <=> Expects(c, i + 1)
        /\ s[i + 1].type \notin Answers
        /\ s[i + 1].type \in Answers \cup {"PING", "REQUEST", "operation_t"}
    BY <2>2 DEF TalkInv, s
  <2> QED BY <1>3, <2>1, <2>2, <2>3
<1>5. Half(c)' <=> Wants(Len(t) + 1)
  <2>1. Len(t) + 1 = Len(s) /\ Len(s) \in 1..Len(s)
    BY <1>1
  <2>2. Wants(Len(s)) <=> Expects(c, Len(s) + 1)
    BY <1>3, <2>1
  <2>3. Half(c) <=> Expects(c, Len(s) + 1)
    BY DEF TalkInv, s
  <2> QED BY <2>1, <2>2, <2>3
<1> QED BY <1>4, <1>5 DEF TalkInv, Expects, t

\* An order is half written only while the terminal thread holds the mutex.
LEMMA HalfKept ==
  ASSUME Types, AgreeInv, Main \/ Ping \/ (\E c \in Procs : Client(c))
  PROVE  \A c : Half(c)' <=> Half(c)
<1>1. UNCHANGED term
  <2>1. ASSUME NEW c \in Procs, Client(c) PROVE UNCHANGED term
    BY <2>1, OnlyClient DEF server, threads
  <2>2. ASSUME NEW c \in Procs, connectFun(c) \/ epoll_wait(c) PROVE UNCHANGED term
    BY <2>2 DEF connectFun, epoll_wait
  <2> QED BY <2>1, <2>2 DEF Main, message, MainLock, loginClient, logoutClient, pong,
                            Ping, PingLock, PingRemoves, PingWrites, PingUnlock
<1>2. ASSUME termPc = "operation_t" PROVE UNCHANGED clients
  <2>1. clients_mutex = "terminal" /\ mainPc # "handle" /\ pingPc # "for"
    BY <1>2 DEF AgreeInv, Holders
  <2>2. ASSUME NEW c \in Procs, Client(c) PROVE UNCHANGED clients
    BY <2>2, OnlyClient DEF server
  <2>3. ASSUME NEW c \in Procs, connectFun(c) \/ epoll_wait(c) PROVE UNCHANGED clients
    BY <2>3 DEF connectFun, epoll_wait
  <2> QED BY <2>1, <2>2, <2>3
          DEF Main, message, MainLock, loginClient, logoutClient, pong, MainHandles,
              Ping, PingLock, PingRemoves, PingWrites, PingUnlock, PingAtClient
<1> QED BY <1>1, <1>2 DEF Half, term

\* Nobody but the sender of the LOGIN that is handled gets into the list.
LEMMA OnlyNewcomer ==
  ASSUME Types, AgreeInv, Next, NEW d \in Registered', d \notin Registered
  PROVE  loginClient /\ d = event
<1>1. ~ListKept
  BY DEF ListKept, Registered
<1>2. ASSUME NEW i \in DOMAIN clients, clients' = Without(i) PROVE FALSE
  <2>1. PICK j \in DOMAIN clients' : clients'[j].fd = d
    BY DEF Registered
  <2>2. i \in Nat /\ j \in Nat
    BY <1>2, EntryAt, Removed
  <2>3. \E k \in DOMAIN clients : clients'[j] = clients[k]
    BY <1>2, <2>2, Removed
  <2> QED BY <2>1, <2>3 DEF Registered
<1>3. ~PingRemoves
  <2>1. PingRemoves => pingAt \in DOMAIN clients
    BY DEF Types, PingRemoves, PingAtClient
  <2> QED BY <1>2, <2>1 DEF PingRemoves
<1>4. ~(logoutClient /\ check_name(name[event]) # 0)
  BY <1>2, NameFound DEF logoutClient
<1>5. /\ loginClient /\ event \in Procs /\ name[event] \in Names
      /\ clients' = Append(clients, [fd |-> event, name |-> name[event], is_inactive |-> 0])
  BY <1>1, <1>3, <1>4, ListSteps
<1>6. d = event
  <2> DEFINE e == [fd |-> event, name |-> name[event], is_inactive |-> 0]
  <2>1. e \in Entry /\ clients \in Seq(Entry) /\ clients' = Append(clients, e) /\ e.fd = event
    BY <1>5 DEF Entry, Types
  <2> HIDE DEF e
  <2> QED BY <2>1, AppendAt DEF Registered
<1> QED BY <1>5, <1>6

LEMMA LoginTalks ==
  ASSUME Types, AgreeInv, \A c \in Procs : TalkInv(c), loginClient, NEW d \in Procs
  PROVE  TalkInv(d)'
<1>1. PICK e \in Procs : e = event
  BY DEF AgreeInv, HandInv, loginClient, MainHandles
<1>2. PICK type \in Answers : Write(e, Msg(type)) /\ (type = "SUCCESS" \/ UNCHANGED clients)
  BY <1>1 DEF loginClient, Reject, Answers
<1>3. Msg(type) \in Tokens /\ Msg(type).type = type
  BY TokenTypes DEF MessageTypes, Answers
<1>4. /\ toClient[e] = <<>> /\ pc[e] \notin InLoop /\ (closed[e] <=> pc[e] = "gone")
      /\ mainPc = "handle" /\ UNCHANGED pc
  <2>1. Pending(e)
    BY <1>1 DEF Pending, LoginInHand, InHand, loginClient, MainHandles
  <2> QED BY <2>1 DEF AgreeInv, ConnInv, loginClient, MainHandles, procs
<1>5. ~Half(d) /\ ~Half(d)'
  <2>1. ~Half(d)
    BY <1>4 DEF Half, AgreeInv, Holders
  <2> QED BY <2>1, HalfKept DEF Main
<1>6. CASE d # e
  <2>1. toClient'[d] = toClient[d]
    BY <1>2, <1>3, <1>6, WriteDoes
  <2>2. d \in Registered' => d \in Registered
    BY <1>1, <1>6, OnlyNewcomer DEF Next, Main
  <2> QED BY <1>4, <1>5, <2>1, <2>2, TalkKept
<1>7. CASE d = e /\ pc[e] \in Awake
  <2>1. pc[e] = "response" /\ closed[e] = FALSE
    BY <1>4, <1>7 DEF Awake, Types
  <2>2. toClient'[e] = Append(toClient[e], Msg(type))
    BY <1>2, <1>3, <2>1, WriteDoes
  <2>3. type # "operation_t" /\ type # "REQUEST"
    BY DEF Answers
  <2>4. e \in Registered' => e \in Registered \/ type = "SUCCESS"
    BY <1>2 DEF Registered
  <2> QED BY <1>3, <1>4, <1>5, <1>7, <2>1, <2>2, <2>3, <2>4, TalkWritten
<1>8. CASE d = e /\ pc[e] \notin Awake
  BY <1>4, <1>8 DEF TalkInv
<1> QED BY <1>6, <1>7, <1>8

\* PING and the two parts of an order go to a client in the list.
LEMMA WriteTalks ==
  ASSUME Types, AgreeInv, \A c \in Procs : TalkInv(c), NEW d \in Procs,
         NEW e \in Registered, NEW token \in Tokens, Write(e, token),
         token.type \in {"PING", "REQUEST", "operation_t"},
         token.type = "operation_t" <=> Half(e), Half(e)' <=> token.type = "REQUEST",
         d # e => (Half(d)' <=> Half(d)), UNCHANGED <<pc, Registered>>
  PROVE  TalkInv(d)'
<1>1. e \in Procs
  BY EntryAt DEF Registered
<1>2. token.type \notin Answers
  BY DEF Answers
<1>3. CASE d # e
  BY <1>1, <1>3, WriteDoes, TalkKept
<1>4. CASE d = e /\ pc[e] \in Awake
  <2>1. closed[e] = FALSE /\ (pc[e] = "response" => toClient[e] # <<>>)
    BY <1>1, <1>4 DEF AgreeInv, ConnInv, Types, TalkInv, Awake, InLoop
  <2>2. toClient'[e] = Append(toClient[e], token)
    BY <1>1, <2>1, WriteDoes
  <2> QED BY <1>1, <1>2, <1>4, <2>1, <2>2, TalkWritten
<1>5. CASE d = e /\ pc[e] \notin Awake
  BY <1>5 DEF TalkInv
<1> QED BY <1>3, <1>4, <1>5

LEMMA PingTalks ==
  ASSUME Types, AgreeInv, \A c \in Procs : TalkInv(c), Ping, NEW d \in Procs
  PROVE  TalkInv(d)'
<1>1. UNCHANGED pc /\ (Half(d)' <=> Half(d))
  BY HalfKept DEF Ping, PingLock, PingRemoves, PingWrites, PingUnlock, procs
<1>2. d \in Registered' => d \in Registered
  <2>1. ~loginClient
    BY DEF Ping, PingLock, PingRemoves, PingWrites, PingUnlock, PingAtClient, loginClient,
           MainHandles, BackToEpoll, main
  <2> QED BY <2>1, OnlyNewcomer DEF Next
<1>3. CASE UNCHANGED toClient
  BY <1>1, <1>2, <1>3, TalkKept
<1>4. CASE PingWrites
  <2>1. pingAt \in DOMAIN clients
    BY <1>4 DEF Types, PingWrites, PingAtClient
  <2>2. PICK e \in Registered : e = clients[pingAt].fd
    BY <2>1 DEF Registered
  <2>3. Msg("PING") \in Tokens /\ Msg("PING").type = "PING" /\ Write(e, Msg("PING"))
    BY <1>4, <2>2, TokenTypes DEF PingWrites, MessageTypes
  <2>4. Registered' = Registered
    <3>1. ListKept
      <4> DEFINE n == (clients[pingAt].is_inactive + 1) % 256
      <4>1. n \in 0..255
        <5>1. clients[pingAt].is_inactive \in 0..255
          BY <2>1, EntryAt
        <5> QED BY <5>1
      <4>2. clients' = [clients EXCEPT ![pingAt].is_inactive = n]
        BY <1>4 DEF PingWrites
      <4> HIDE DEF n
      <4> QED BY <2>1, <4>1, <4>2, EntryChanges DEF ListKept
    <3> QED BY <3>1 DEF ListKept, Registered
  <2>5. ~Half(e) /\ ~Half(e)'
    <3>1. ~Half(e)
      BY <1>4 DEF Half, AgreeInv, Holders, PingWrites, PingAtClient
    <3> QED BY <3>1, HalfKept
  <2> QED BY <1>1, <2>3, <2>4, <2>5, WriteTalks
<1> QED BY <1>3, <1>4 DEF Ping, PingLock, PingRemoves, PingUnlock

LEMMA TermTalks ==
  ASSUME Types, AgreeInv, \A c \in Procs : TalkInv(c), Terminal, NEW d \in Procs
  PROVE  TalkInv(d)'
<1>1. UNCHANGED <<clients, pc>> /\ Registered' = Registered
  BY DEF Terminal, TermOrder, TermLock, TermNobody, TermChoose, TermWriteType,
         TermWriteOperation, TermUnlock, procs, Registered
<1>2. CASE TermWriteType \/ TermWriteOperation
  <2>1. PICK e \in Registered : e = clients[termAt].fd
    BY <1>2 DEF TermWriteType, TermWriteOperation, TermGoes, AgreeInv, Holders, Registered
  <2>2. PICK token \in Tokens : Write(e, token)
                                /\ token.type = IF TermWriteType THEN "REQUEST" ELSE "operation_t"
    BY <1>2, <2>1, TokenTypes DEF TermWriteType, TermWriteOperation, MessageTypes, Types
  <2>3. /\ TermWriteType => termPc = "type" /\ termPc' = "operation_t"
        /\ ~TermWriteType => termPc = "operation_t" /\ termPc' = "unlock"
        /\ UNCHANGED termAt
    BY <1>2 DEF TermWriteType, TermWriteOperation, TermGoes
  <2>4. /\ token.type = "operation_t" <=> Half(e)
        /\ Half(e)' <=> token.type = "REQUEST"
    BY <1>1, <2>1, <2>2, <2>3 DEF Half
  <2>5. d # e => (Half(d)' <=> Half(d))
    BY <1>1, <2>1 , <2>3 DEF Half
  <2> QED BY <1>1, <2>2, <2>4, <2>5, WriteTalks
<1>3. CASE ~(TermWriteType \/ TermWriteOperation)
  <2>1. UNCHANGED toClient /\ ~Half(d) /\ ~Half(d)'
    BY <1>3 DEF Terminal, TermOrder, TermLock, TermNobody, TermChoose, TermUnlock, TermGoes, Half
  <2> QED BY <1>1, <2>1, TalkKept
<1> QED BY <1>2, <1>3

LEMMA ClientTalks ==
  ASSUME Types, AgreeInv, \A c \in Procs : TalkInv(c), NEW c \in Procs, Client(c), NEW d \in Procs
  PROVE  TalkInv(d)'
<1>1. /\ Half(d)' <=> Half(d)
      /\ d # c => toClient'[d] = toClient[d] /\ pc'[d] = pc[d]
      /\ Registered' = Registered
  BY OnlyClient, HalfKept DEF server, Registered, Same
<1>2. CASE d # c
  BY <1>1, <1>2, TalkKept
<1>3. CASE d = c
  <2>1. CASE response(c) \/ read(c) \/ calc(c)
    <3>1. /\ toClient[c] # <<>> /\ toClient'[c] = Tail(toClient[c]) /\ pc[c] \in Awake
      BY <2>1, ReceiveDoes DEF response, read, calc, Receives, ClientGoes, Awake, InLoop
    <3> DEFINE type == Head(toClient[c]).type
    <3>2. /\ type = "operation_t" <=> pc[c] = "calc"
          /\ type \in Answers <=> pc[c] = "response"
      <4>1. 1 \in DOMAIN toClient[c] /\ Head(toClient[c]) = toClient[c][1]
        BY <3>1, TailAt DEF Types
      <4> QED BY <3>1, <4>1 DEF TalkInv, Expects
    <3>3. pc'[c] # "response"
          /\ (pc'[c] \in Awake => (pc'[c] = "calc" <=> type = "REQUEST"))
      <4>1. CASE response(c)
        BY <3>2, <4>1 DEF response, Types, Answers, Awake, InLoop
      <4>2. CASE read(c)
        BY <4>2 DEF read, Types
      <4>3. CASE calc(c)
        BY <3>2, <4>3 DEF calc, ClientGoes, Types
      <4> QED BY <2>1, <4>1, <4>2, <4>3
    <3> QED BY <1>1, <1>3, <3>1, <3>3, TalkRead
  <2>2. CASE sendPong(c) \/ sendResult(c)
    <3>1. UNCHANGED toClient /\ pc[c] \in {"pong", "result"} /\ pc'[c] = "read"
      BY <2>2 DEF sendPong, sendResult, ClientGoes, Types
    <3> QED BY <1>1, <1>3, <3>1, TalkKept DEF Awake, InLoop
  <2>3. CASE login(c)
    <3>1. toClient'[c] = <<>> /\ pc'[c] = "response" /\ c \notin sentLogin
      BY <2>3, LoginConn DEF login, ClientGoes, Types, Agreed, AgreeInv, ConnInv
    <3>2. c \notin Registered /\ ~Half(c)
      BY <3>1 DEF Registered, Half, AgreeInv, ListInv, Holders
    <3>3. DOMAIN toClient'[c] = {} /\ Len(toClient'[c]) + 1 = 1
      BY <3>1
    <3> QED BY <1>1, <1>3, <3>1, <3>2, <3>3 DEF TalkInv, Expects
  <2>4. CASE init(c) \/ EndOfFile(c) \/ sigIntHandler(c) \/ funAtExit(c) \/ Killed(c)
    <3>1. pc'[c] \in {"login", "exit", "gone"}
      BY <2>4 DEF init, EndOfFile, sigIntHandler, funAtExit, Killed, ClientGoes, Types
    <3> QED BY <1>3, <3>1 DEF TalkInv, Awake, InLoop
  <2> QED BY <2>1, <2>2, <2>3, <2>4 DEF Client
<1> QED BY <1>2, <1>3

LEMMA StepTalks ==
  ASSUME Types, AgreeInv, \A c \in Procs : TalkInv(c), [Next]_vars
  PROVE  \A c \in Procs : TalkInv(c)'
<1> SUFFICES ASSUME NEW d \in Procs PROVE TalkInv(d)'
  OBVIOUS
<1>1. CASE UNCHANGED vars
  <2>1. UNCHANGED <<clients, toClient, pc, termPc, termAt>>
    BY <1>1 DEF vars, threads, term, procs
  <2> QED BY <2>1, TalkKept DEF Half, Registered
<1>2. CASE Main
  <2>1. CASE loginClient
    BY <2>1, LoginTalks
  <2>2. CASE ~loginClient
    <3>1. ASSUME NEW c \in Procs, connectFun(c) \/ epoll_wait(c) PROVE UNCHANGED <<toClient, pc>>
      BY <3>1 DEF connectFun, epoll_wait, procs
    <3>2. UNCHANGED <<toClient, pc>>
      BY <1>2, <2>2, <3>1 DEF Main, message, MainLock, logoutClient, pong, procs
    <3>3. (Half(d)' <=> Half(d)) /\ (d \in Registered' => d \in Registered)
      BY <1>2, <2>2, HalfKept, OnlyNewcomer DEF Next
    <3> QED BY <3>2, <3>3, TalkKept
  <2> QED BY <2>1, <2>2
<1> QED BY <1>1, <1>2, PingTalks, TermTalks, ClientTalks DEF Next

-----------------------------------------------------------------------------
(* The pings that are counted.                                             *)
\* How many tokens of a type there are after a write, and after a read.
LEMMA CountTypes ==
  ASSUME NEW s \in Seq(Tokens), NEW type
  PROVE  /\ IsFiniteSet({i \in DOMAIN s : s[i].type = type}) /\ Count(s, type) \in Nat
         /\ (\A i \in DOMAIN s : s[i].type # type) => Count(s, type) = 0
<1> DEFINE A == {i \in DOMAIN s : s[i].type = type}
<1>1. IsFiniteSet(A)
  <2>1. A \subseteq 1..Len(s) /\ Len(s) \in Nat
    OBVIOUS
  <2> QED BY <2>1, FS_Interval, FS_Subset
<1>2. Count(s, type) = Cardinality(A)
  BY DEF Count
<1>3. (\A i \in DOMAIN s : s[i].type # type) => A = {}
  OBVIOUS
<1> HIDE DEF A
<1>4. Cardinality(A) \in Nat /\ (A = {} => Cardinality(A) = 0)
  BY <1>1, FS_CardinalityType, FS_EmptySet
<1> QED BY <1>1, <1>2, <1>3, <1>4 DEF A

LEMMA CountAppend ==
  ASSUME NEW s \in Seq(Tokens), NEW e \in Tokens, NEW type
  PROVE  Count(Append(s, e), type) = Count(s, type) + IF e.type = type THEN 1 ELSE 0
<1> DEFINE t == Append(s, e)
           A == {i \in DOMAIN s : s[i].type = type}
           B == {i \in DOMAIN t : t[i].type = type}
           n == Len(s) + 1
<1>1. IsFiniteSet(A) /\ Count(s, type) = Cardinality(A) /\ Count(t, type) = Cardinality(B)
      /\ Count(s, type) \in Nat
  BY CountTypes DEF Count
<1>2. DOMAIN t = DOMAIN s \cup {n} /\ t[n] = e /\ n \notin DOMAIN s
      /\ \A i \in DOMAIN s : t[i] = s[i]
  BY AppendAt
<1> HIDE DEF t, n
<1>3. CASE e.type = type
  <2>1. B = A \cup {n} /\ n \notin A
    BY <1>2, <1>3
  <2> HIDE DEF A, B
  <2> QED BY <1>1, <1>3, <2>1, FS_AddElement, ZenonT(30) DEF t
<1>4. CASE e.type # type
  <2>1. B = A
    BY <1>2, <1>4
  <2> HIDE DEF A, B
  <2> QED BY <1>1, <1>4, <2>1 DEF t
<1> QED BY <1>3, <1>4

LEMMA CountTail ==
  ASSUME NEW s \in Seq(Tokens), s # <<>>, NEW type
  PROVE  Count(s, type) = Count(Tail(s), type) + IF Head(s).type = type THEN 1 ELSE 0
<1> DEFINE t == Tail(s)
           A == {i \in DOMAIN s : s[i].type = type}
           B == {i \in DOMAIN t : t[i].type = type}
           C == {i \in DOMAIN s : i # 1 /\ s[i].type = type}
           f == [i \in B |-> i + 1]
<1>1. /\ t \in Seq(Tokens) /\ Head(s) = s[1] /\ 1 \in DOMAIN s
      /\ \A i \in DOMAIN t : i \in Nat /\ i + 1 \in DOMAIN s /\ i + 1 # 1 /\ t[i] = s[i + 1]
      /\ \A i \in DOMAIN s : i # 1 => i - 1 \in DOMAIN t /\ (i - 1) + 1 = i
  BY TailAt
<1> HIDE DEF t
<1>2. IsFiniteSet(B) /\ Count(t, type) = Cardinality(B) /\ Count(s, type) = Cardinality(A)
      /\ Count(t, type) \in Nat
  <2>1. IsFiniteSet(B) /\ Count(t, type) \in Nat
    BY <1>1, CountTypes
  <2> QED BY <2>1 DEF Count
<1>3. f \in Bijection(B, C)
  <2>1. \A i \in B : i + 1 \in C
    BY <1>1
  <2>2. f \in [B -> C] /\ \A i \in B : f[i] = i + 1
    BY <2>1
  <2>3. \A i, j \in B : f[i] = f[j] => i = j
    BY <1>1, <2>2
  <2>4. ASSUME NEW i \in C PROVE \E j \in B : f[j] = i
    <3>1. i - 1 \in DOMAIN t /\ (i - 1) + 1 = i
      BY <1>1
    <3>2. i - 1 \in B
      BY <1>1, <3>1
    <3> QED BY <2>2, <3>1, <3>2
  <2> HIDE DEF f, B, C
  <2> QED BY <2>2, <2>3, <2>4 DEF Bijection, Injection, Surjection, IsInjective
<1>4. IsFiniteSet(C) /\ Cardinality(C) = Cardinality(B)
  <2> HIDE DEF f, B, C
  <2> QED BY <1>2, <1>3, FS_Bijection DEF ExistsBijection
<1>5. CASE Head(s).type = type
  <2>1. A = C \cup {1} /\ 1 \notin C
    BY <1>1, <1>5
  <2> HIDE DEF A, B, C
  <2>2. Cardinality(A) = Cardinality(B) + 1
    <3>1. Cardinality(C \cup {1}) = IF 1 \in C THEN Cardinality(C) ELSE Cardinality(C) + 1
      BY <1>4, FS_AddElement
    <3> QED BY <1>4, <2>1, <3>1
  <2> QED BY <1>2, <1>5, <2>2 DEF t
<1>6. CASE Head(s).type # type
  <2>1. A = C
    BY <1>1, <1>6
  <2> HIDE DEF A, B, C
  <2> QED BY <1>2, <1>4, <1>6, <2>1 DEF t
<1> QED BY <1>5, <1>6

PingInv ==
  /\ pingPc = "for" => \A i \in DOMAIN clients : i < pingAt => clients[i].is_inactive # 0
  /\ \A i \in DOMAIN clients, c \in Procs : c = clients[i].fd =>
       /\ clients[i].is_inactive \in 0..1
       /\ clients[i].is_inactive >= Unanswered(c)
       /\ pc[c] \in Awake => clients[i].is_inactive = Unanswered(c)

PongInHand(c) == InHand("PONG") /\ event = c

\* The pings of c that are not answered, as they are counted.
LEMMA UnansweredIs ==
  ASSUME Types, NEW c \in Procs
  PROVE  /\ Unanswered(c) = Count(toClient[c], "PING") + (IF pc[c] = "pong" THEN 1 ELSE 0)
              + Count(toServer[c], "PONG") + (IF PongInHand(c) THEN 1 ELSE 0)
         /\ Unanswered(c) \in Nat
         /\ Count(toClient[c], "PING") \in Nat /\ Count(toServer[c], "PONG") \in Nat
         /\ PongInHand(c) => Unanswered(c) >= 1
<1>1. toClient[c] \in Seq(Tokens) /\ toServer[c] \in Seq(Tokens)
  BY DEF Types
<1>2. Count(toClient[c], "PING") \in Nat /\ Count(toServer[c], "PONG") \in Nat
  BY <1>1, CountTypes
<1>3. Unanswered(c) = Count(toClient[c], "PING") + (IF pc[c] = "pong" THEN 1 ELSE 0)
              + Count(toServer[c], "PONG") + (IF PongInHand(c) THEN 1 ELSE 0)
  BY DEF Unanswered, PongInHand
<1> QED BY <1>2, <1>3

\* The same after a step, for a connection of which the step changes no more
\* than what the new values say.
LEMMA UnansweredNext ==
  ASSUME Types', NEW c \in Procs
  PROVE  /\ Unanswered(c)' = Count(toClient'[c], "PING") + (IF pc'[c] = "pong" THEN 1 ELSE 0)
              + Count(toServer'[c], "PONG") + (IF PongInHand(c)' THEN 1 ELSE 0)
         /\ Unanswered(c)' \in Nat
         /\ Count(toClient'[c], "PING") \in Nat /\ Count(toServer'[c], "PONG") \in Nat
<1>1. toClient'[c] \in Seq(Tokens) /\ toServer'[c] \in Seq(Tokens)
  BY DEF Types
<1>2. Count(toClient'[c], "PING") \in Nat /\ Count(toServer'[c], "PONG") \in Nat
  BY <1>1, CountTypes
<1>3. Unanswered(c)' = Count(toClient'[c], "PING") + (IF pc'[c] = "pong" THEN 1 ELSE 0)
              + Count(toServer'[c], "PONG") + (IF PongInHand(c)' THEN 1 ELSE 0)
  BY DEF Unanswered, PongInHand, Count
<1> QED BY <1>2, <1>3

LEMMA UnansweredKept ==
  ASSUME Types, Types', NEW c \in Procs, toClient'[c] = toClient[c],
         toServer'[c] = toServer[c], pc'[c] = pc[c], PongInHand(c)' <=> PongInHand(c)
  PROVE  Unanswered(c)' = Unanswered(c)
BY UnansweredIs, UnansweredNext

\* A registered client and its own steps: the ping it reads, the pong it sends.
LEMMA ClientCounts ==
  ASSUME Types, Types', AgreeInv, \A d \in Procs : TalkInv(d), NEW c \in Procs, Client(c),
         c \in Registered
  PROVE  /\ Unanswered(c)' <= Unanswered(c)
         /\ pc'[c] \in Awake => pc[c] \in Awake /\ Unanswered(c)' = Unanswered(c)
<1>1. /\ sock[c] = "open" /\ c \in sentLogin
  BY DEF Registered, AgreeInv, ListInv
<1>2. PongInHand(c)' <=> PongInHand(c)
  BY OnlyClient DEF server, threads, main, PongInHand, InHand
<1>3. toClient[c] \in Seq(Tokens) /\ toServer[c] \in Seq(Tokens)
  BY DEF Types
<1>4. /\ pc[c] # "init" /\ pc[c] # "login"
  BY <1>1 DEF AgreeInv, ConnInv
<1>5. CASE response(c) \/ read(c) \/ calc(c)
  <2>1. /\ toClient[c] # <<>> /\ toClient'[c] = Tail(toClient[c]) /\ toServer'[c] = toServer[c]
        /\ pc[c] \in {"response", "read", "calc"}
    BY <1>5, ReceiveDoes DEF response, read, calc, Receives, ClientGoes
  <2>2. Count(toClient[c], "PING")
          = Count(toClient'[c], "PING") + IF Head(toClient[c]).type = "PING" THEN 1 ELSE 0
    BY <1>3, <2>1, CountTail
  <2>3. pc'[c] = "pong" <=> pc[c] = "read" /\ Head(toClient[c]).type = "PING"
    BY <1>5 DEF response, read, calc, ClientGoes, Types
  <2>4. pc'[c] \in Awake /\ pc[c] # "read" => Head(toClient[c]).type # "PING"
    <3>1. CASE response(c)
      BY <3>1 DEF response, Types, Awake, InLoop
    <3>2. CASE calc(c)
      <4>1. 1 \in DOMAIN toClient[c] /\ Head(toClient[c]) = toClient[c][1]
        BY <1>3, <2>1, TailAt
      <4>2. pc[c] = "calc"
        BY <3>2 DEF calc, ClientGoes
      <4> QED BY <4>1, <4>2 DEF TalkInv, Expects, Awake, InLoop
    <3>3. CASE read(c)
      BY <3>3 DEF read
    <3> QED BY <1>5, <3>1, <3>2, <3>3
  <2>5. pc[c] \in Awake
    BY <2>1 DEF Awake, InLoop
  <2> QED BY <1>2, <2>1, <2>2, <2>3, <2>4, <2>5, UnansweredIs, UnansweredNext
<1>6. CASE sendPong(c) \/ sendResult(c)
  <2>1. PICK msg \in Tokens : Send(c, msg) /\ (msg.type = "PONG" <=> pc[c] = "pong")
    BY <1>6, TokenTypes DEF sendPong, sendResult, MessageTypes, Types, ClientGoes
  <2>2. pc[c] \in {"pong", "result"} /\ pc'[c] = "read" /\ toClient'[c] = toClient[c]
    BY <1>6 DEF sendPong, sendResult, ClientGoes, Types
  <2>3. toServer'[c] = Append(toServer[c], msg)
    BY <1>1, <2>1, SendDoes
  <2>4. Count(toServer'[c], "PONG") = Count(toServer[c], "PONG") + IF msg.type = "PONG" THEN 1 ELSE 0
    BY <1>3, <2>3, CountAppend
  <2>5. pc[c] \in Awake
    BY <2>2 DEF Awake, InLoop
  <2> QED BY <1>2, <2>1, <2>2, <2>4, <2>5, UnansweredIs, UnansweredNext
<1>7. CASE EndOfFile(c) \/ sigIntHandler(c)
  <2>1. toClient'[c] = toClient[c] /\ toServer'[c] = toServer[c] /\ pc'[c] = "exit"
    BY <1>7 DEF EndOfFile, sigIntHandler, Types
  <2>2. pc'[c] \notin Awake
    BY <2>1 DEF Awake, InLoop
  <2> QED BY <1>2, <2>1, <2>2, UnansweredIs, UnansweredNext
<1>8. CASE funAtExit(c) \/ Killed(c)
  <2>1. toClient'[c] = <<>> /\ pc'[c] = "gone"
    BY <1>8, ClosedDoes DEF funAtExit, Killed, ClientGoes, Types
  <2>2. Count(toServer'[c], "PONG") = Count(toServer[c], "PONG")
    <3>1. CASE Killed(c)
      BY <3>1 DEF Killed
    <3>2. CASE funAtExit(c)
      <4>1. Msg("LOGOUT") \in Tokens /\ Msg("LOGOUT").type = "LOGOUT"
        BY TokenTypes DEF MessageTypes
      <4>2. toServer'[c] = Append(toServer[c], Msg("LOGOUT"))
        BY <1>1, <3>2, <4>1, SendDoes DEF funAtExit
      <4>3. Count(toServer'[c], "PONG") = Count(toServer[c], "PONG") + 0
        BY <1>3, <4>1, <4>2, CountAppend
      <4> QED BY <4>3, UnansweredIs
    <3> QED BY <1>8, <3>1, <3>2
  <2>3. Count(toClient'[c], "PING") = 0
    <3>1. <<>> \in Seq(Tokens) /\ DOMAIN <<>> = {}
      BY EmptySeq
    <3> QED BY <2>1, <3>1, CountTypes
  <2>4. pc'[c] \notin Awake
    BY <2>1 DEF Awake, InLoop
  <2> QED BY <1>2, <2>1, <2>2, <2>3, <2>4, UnansweredIs, UnansweredNext
<1> QED BY <1>4, <1>5, <1>6, <1>7, <1>8 DEF Client, init, login, ClientGoes

LEMMA ClientPings ==
  ASSUME Types, Types', AgreeInv, \A d \in Procs : TalkInv(d), PingInv, NEW c \in Procs, Client(c)
  PROVE  PingInv'
<1>1. UNCHANGED <<clients, pingPc, pingAt>>
  BY OnlyClient DEF server, threads, ping
<1>2. ASSUME NEW i \in DOMAIN clients, NEW d \in Procs, d = clients[i].fd
      PROVE  /\ clients[i].is_inactive \in 0..1 /\ clients[i].is_inactive >= Unanswered(d)'
             /\ pc'[d] \in Awake => clients[i].is_inactive = Unanswered(d)'
  <2>1. clients[i].is_inactive \in 0..1 /\ clients[i].is_inactive >= Unanswered(d)
        /\ (pc[d] \in Awake => clients[i].is_inactive = Unanswered(d))
    BY <1>2 DEF PingInv
  <2>2. Unanswered(d) \in Nat /\ Unanswered(d)' \in Nat
    BY UnansweredIs, UnansweredNext
  <2>3. CASE d # c
    <3>1. PongInHand(d)' <=> PongInHand(d)
      BY OnlyClient DEF server, threads, main, PongInHand, InHand
    <3>2. Unanswered(d)' = Unanswered(d) /\ pc'[d] = pc[d]
      BY <2>3, <3>1, OnlyClient, UnansweredKept DEF Same
    <3> QED BY <2>1, <3>2
  <2>4. CASE d = c
    <3>1. c \in Registered
      BY <1>2, <2>4 DEF Registered
    <3> QED BY <2>1, <2>2, <2>4, <3>1, ClientCounts
  <2> QED BY <2>3, <2>4
<1> QED BY <1>1, <1>2 DEF PingInv

\* What counts of the connections stays, and so does the list.
LEMMA PingsKept ==
  ASSUME Types, Types', PingInv, ListKept,
         \A i \in DOMAIN clients : clients'[i].is_inactive = clients[i].is_inactive,
         pingPc' = "for" => pingPc = "for" /\ pingAt' = pingAt,
         \A d \in Registered : Unanswered(d)' = Unanswered(d) /\ pc'[d] = pc[d]
  PROVE  PingInv'
BY DEF PingInv, ListKept, Registered

LEMMA TermPings ==
  ASSUME Types, Types', AgreeInv, PingInv, Terminal
  PROVE  PingInv'
<1>1. UNCHANGED <<clients, ping, main, toServer, pc>>
  BY DEF Terminal, TermOrder, TermLock, TermNobody, TermChoose, TermWriteType,
         TermWriteOperation, TermUnlock, procs
<1>2. \A d \in Procs : Count(toClient'[d], "PING") = Count(toClient[d], "PING")
  <2>1. CASE TermWriteType \/ TermWriteOperation
    <3>1. PICK e \in Procs : e = clients[termAt].fd
      BY <2>1, EntryAt DEF TermWriteType, TermWriteOperation, TermGoes, AgreeInv, Holders
    <3>2. PICK token \in Tokens : Write(e, token) /\ token.type # "PING"
      BY <2>1, <3>1, TokenTypes DEF TermWriteType, TermWriteOperation, MessageTypes, Types
    <3>3. toClient[e] \in Seq(Tokens)
      BY DEF Types
    <3>4. Count(Append(toClient[e], token), "PING") = Count(toClient[e], "PING") + 0
      BY <3>2, <3>3, CountAppend
    <3>5. Count(toClient[e], "PING") \in Nat
      BY <3>3, CountTypes
    <3>6. \A d \in Procs : toClient'[d] = toClient[d]
                           \/ (d = e /\ toClient'[d] = Append(toClient[e], token))
      BY <3>2, WriteDoes, ZenonT(30) DEF Types
    <3>7. Count(Append(toClient[e], token), "PING") = Count(toClient[e], "PING")
      BY <3>4, <3>5
    <3>8. TAKE d \in Procs
    <3>9. CASE toClient'[d] = toClient[d]
      BY <3>9
    <3>10. CASE d = e /\ toClient'[d] = Append(toClient[e], token)
      BY <3>7, <3>10
    <3> QED BY <3>6, <3>9, <3>10
  <2>2. CASE ~(TermWriteType \/ TermWriteOperation)
    BY <2>2 DEF Terminal, TermOrder, TermLock, TermNobody, TermChoose, TermUnlock
  <2> QED BY <2>1, <2>2
<1>3. \A d \in Procs : PongInHand(d)' <=> PongInHand(d)
  BY <1>1 DEF main, PongInHand, InHand
<1>4. \A d \in Procs : Unanswered(d)' = Unanswered(d)
  BY <1>1, <1>2, <1>3, UnansweredIs, UnansweredNext
<1>5. Registered \subseteq Procs
  BY EntryAt DEF Registered
<1> QED BY <1>1, <1>4, <1>5, PingsKept DEF ListKept, ping

\* A client is removed: the others are counted as before, and those that the
\* round has passed stay before its place.
LEMMA RemovedPings ==
  ASSUME Types, Types', AgreeInv, PingInv, NEW i \in DOMAIN clients, clients' = Without(i),
         close_socket(clients[i].fd), UNCHANGED <<toClient, pc>>,
         \A d \in Procs : PongInHand(d)' <=> PongInHand(d),
         pingPc' = "for" => pingPc = "for" /\ pingAt' = pingAt /\ pingAt = i
  PROVE  PingInv'
<1>1. PICK c \in Procs : c = clients[i].fd
  BY EntryAt
<1>2. \A d \in Procs : d # c => Unanswered(d)' = Unanswered(d)
  BY <1>1, CloseDoes, UnansweredKept
<1>3. i \in Nat /\ DOMAIN clients' \subseteq Nat
  BY EntryAt, Removed
<1>4. \A j \in DOMAIN clients' : /\ j < i => j \in DOMAIN clients /\ clients'[j] = clients[j]
                                 /\ \E k \in DOMAIN clients : clients'[j] = clients[k] /\ k # i
  <2> SUFFICES ASSUME NEW j \in DOMAIN clients'
               PROVE  /\ j < i => j \in DOMAIN clients /\ clients'[j] = clients[j]
                      /\ \E k \in DOMAIN clients : clients'[j] = clients[k] /\ k # i
    OBVIOUS
  <2>1. CASE j < i
    BY <2>1, Removed
  <2>2. CASE j >= i
    <3>1. j + 1 \in DOMAIN clients /\ clients'[j] = clients[j + 1] /\ j + 1 # i /\ ~(j < i)
      BY <1>3, <2>2, Removed
    <3> QED BY <3>1
  <2> QED BY <1>3, <2>1, <2>2
<1>5. pingPc' = "for" => \A j \in DOMAIN clients' : j < pingAt' => clients'[j].is_inactive # 0
  BY <1>4 DEF PingInv
<1>6. ASSUME NEW j \in DOMAIN clients', NEW d \in Procs, d = clients'[j].fd
      PROVE  /\ clients'[j].is_inactive \in 0..1 /\ clients'[j].is_inactive >= Unanswered(d)'
             /\ pc'[d] \in Awake => clients'[j].is_inactive = Unanswered(d)'
  <2>1. PICK k \in DOMAIN clients : clients'[j] = clients[k] /\ k # i
    BY <1>4, <1>6
  <2>2. clients[k].fd = d /\ d # c
    BY <1>1, <1>6, <2>1 DEF AgreeInv, ListInv
  <2>3. Unanswered(d)' = Unanswered(d)
    BY <1>2, <2>2
  <2> QED BY <2>1, <2>2, <2>3 DEF PingInv
<1> QED BY <1>5, <1>6 DEF PingInv

LEMMA PingPings ==
  ASSUME Types, Types', AgreeInv, PingInv, Ping
  PROVE  PingInv'
<1>1. /\ UNCHANGED <<main, pc>>
      /\ \A d \in Procs : PongInHand(d)' <=> PongInHand(d)
  BY DEF Ping, PingLock, PingRemoves, PingWrites, PingUnlock, procs, PongInHand, InHand, main
<1>2. CASE PingLock \/ PingUnlock
  <2>1. /\ UNCHANGED <<clients, toServer, toClient>>
        /\ pingPc' = "for" => pingAt' = 1
    BY <1>2 DEF PingLock, PingUnlock, AgreeInv, Holders
  <2>2. \A d \in Procs : Unanswered(d)' = Unanswered(d)
    BY <1>1, <2>1, UnansweredKept
  <2>3. \A i \in DOMAIN clients : ~(i < 1)
    BY EntryAt
  <2> QED BY <1>1, <2>1, <2>2, <2>3 DEF PingInv
<1>3. ASSUME PingAtClient PROVE pingAt \in DOMAIN clients
  BY <1>3 DEF Types, PingAtClient
<1>4. CASE PingRemoves
  BY <1>1, <1>3, <1>4, RemovedPings DEF PingRemoves, PingAtClient
<1>5. CASE PingWrites
  <2>1. PICK e \in Procs : e = clients[pingAt].fd
    BY <1>3, <1>5, EntryAt DEF PingWrites
  <2>2. pingAt \in DOMAIN clients /\ clients[pingAt].is_inactive = 0 /\ UNCHANGED toServer
        /\ pingAt' = pingAt + 1 /\ pingPc = "for"
    BY <1>3, <1>5 DEF PingWrites, PingAtClient
  <2>3. /\ ListKept /\ clients'[pingAt].is_inactive = 1
        /\ \A i \in DOMAIN clients : i # pingAt => clients'[i] = clients[i]
    <3> DEFINE n == (clients[pingAt].is_inactive + 1) % 256
    <3>1. n = 1 /\ n \in 0..255
      BY <2>2
    <3>2. clients' = [clients EXCEPT ![pingAt].is_inactive = n]
      BY <1>5 DEF PingWrites
    <3> HIDE DEF n
    <3> QED BY <2>2, <3>1, <3>2, EntryChanges, ZenonT(30) DEF ListKept
  <2>4. /\ \A d \in Procs : d # e \/ closed[e] => toClient'[d] = toClient[d]
        /\ ~closed[e] => Count(toClient'[e], "PING") = Count(toClient[e], "PING") + 1
    <3>1. Msg("PING") \in Tokens /\ Msg("PING").type = "PING" /\ Write(e, Msg("PING"))
      BY <1>5, <2>1, TokenTypes DEF PingWrites, MessageTypes
    <3>2. toClient[e] \in Seq(Tokens)
      BY DEF Types
    <3>3. Count(Append(toClient[e], Msg("PING")), "PING") = Count(toClient[e], "PING") + 1
      BY <3>1, <3>2, CountAppend
    <3> QED BY <3>1, <3>3, WriteDoes
  <2>5. \A d \in Procs : d # e => Unanswered(d)' = Unanswered(d)
    BY <1>1, <2>2, <2>4, UnansweredKept
  <2>6. /\ Unanswered(e) = 0
        /\ Unanswered(e)' = IF closed[e] THEN 0 ELSE 1
        /\ closed[e] => pc[e] \notin Awake
    <3>1. Unanswered(e) = 0
      BY <2>1, <2>2, UnansweredIs DEF PingInv
    <3>2. closed[e] => pc[e] \notin Awake
      BY DEF AgreeInv, ConnInv, Awake, InLoop
    <3>3. closed[e] => Unanswered(e)' = 0
      BY <1>1, <2>2, <2>4, <3>1, UnansweredKept
    <3>4. ~closed[e] => Unanswered(e)' = 1
      BY <1>1, <2>2, <2>4, <3>1, UnansweredIs, UnansweredNext
    <3> QED BY <3>1, <3>2, <3>3, <3>4
  <2>7. \A i \in DOMAIN clients : i \in Nat /\ (i # pingAt => clients[i].fd # e)
    BY <2>1, <2>2, EntryAt DEF AgreeInv, ListInv
  <2>8. \A i \in DOMAIN clients' : i < pingAt' => clients'[i].is_inactive # 0
    <3>1. \A i \in DOMAIN clients : i < pingAt + 1 => i = pingAt \/ i < pingAt
      BY <2>2, <2>7
    <3> QED BY <2>2, <2>3, <3>1 DEF PingInv, ListKept
  <2>9. ASSUME NEW i \in DOMAIN clients', NEW d \in Procs, d = clients'[i].fd
        PROVE  /\ clients'[i].is_inactive \in 0..1 /\ clients'[i].is_inactive >= Unanswered(d)'
               /\ pc'[d] \in Awake => clients'[i].is_inactive = Unanswered(d)'
    <3>1. i \in DOMAIN clients /\ clients[i].fd = d
      BY <2>3, <2>9 DEF ListKept
    <3>2. CASE i = pingAt
      BY <1>1, <2>1, <2>3, <2>6, <3>1, <3>2
    <3>3. CASE i # pingAt
      <4>1. d # e
        BY <2>7, <3>1, <3>3
      <4> QED BY <1>1, <2>3, <2>5, <3>1, <3>3, <4>1 DEF PingInv
    <3> QED BY <3>2, <3>3
  <2> QED BY <2>8, <2>9 DEF PingInv
<1> QED BY <1>2, <1>4, <1>5 DEF Ping

\* A PONG that is read is in main's hand instead of the stream.
LEMMA MessagePings ==
  ASSUME Types, Types', AgreeInv, PingInv, message
  PROVE  PingInv'
<1>1. PICK e \in Procs : e = event
  BY DEF message, AgreeInv, HandInv
<1>2. UNCHANGED <<clients, toClient, pc, ping>> /\ mainPc = "message"
  BY DEF message, procs
<1>3. \A d \in Procs : ~PongInHand(d)
  BY <1>2 DEF PongInHand, InHand
<1>4. \A d \in Procs : Unanswered(d)' = Unanswered(d)
  <2>1. CASE sock[e] # "open" \/ toServer[e] = <<>>
    <3>1. UNCHANGED <<toServer, main>>
      BY <1>1, <2>1 DEF message
    <3>2. \A d \in Procs : ~PongInHand(d)'
      BY <1>2, <3>1 DEF PongInHand, InHand, main
    <3> QED BY <1>2, <1>3, <3>1, <3>2, UnansweredKept
  <2>2. CASE sock[e] = "open" /\ toServer[e] # <<>>
    <3> DEFINE type == Head(toServer[e]).type
    <3>1. /\ toServer'[e] = Tail(toServer[e])
          /\ \A d \in Procs : d # e => toServer'[d] = toServer[d]
          /\ IF type = "RESULT" THEN mainPc' = "epoll_wait"
             ELSE mainPc' = "lock" /\ msg_type' = type /\ event' = e
      BY <1>1, <2>2 DEF message, BackToEpoll, Types
    <3> HIDE DEF type
    <3>2. \A d \in Procs : PongInHand(d)' <=> (d = e /\ type = "PONG")
      BY <3>1 DEF PongInHand, InHand
    <3>3. \A d \in Procs : d # e => Unanswered(d)' = Unanswered(d)
      BY <1>2, <1>3, <3>1, <3>2, UnansweredKept
    <3>4. toServer[e] \in Seq(Tokens)
      BY DEF Types
    <3>5. Count(toServer[e], "PONG")
            = Count(toServer'[e], "PONG") + IF type = "PONG" THEN 1 ELSE 0
      BY <2>2, <3>1, <3>4, CountTail DEF type
    <3>6. Unanswered(e)' = Unanswered(e)
      BY <1>2, <1>3, <3>2, <3>5, UnansweredIs, UnansweredNext
    <3> QED BY <3>3, <3>6
  <2> QED BY <2>1, <2>2
<1>5. Registered \subseteq Procs
  BY EntryAt DEF Registered
<1> QED BY <1>2, <1>4, <1>5, PingsKept DEF ListKept, ping

\* A newcomer has been sent no ping.
LEMMA LoginPings ==
  ASSUME Types, Types', AgreeInv, PingInv, loginClient
  PROVE  PingInv'
<1>1. PICK e \in Procs : e = event
  BY DEF loginClient, MainHandles, AgreeInv, HandInv
<1>2. /\ UNCHANGED <<pc, ping>> /\ mainPc = "handle" /\ mainPc' = "epoll_wait"
      /\ msg_type = "LOGIN"
  BY DEF loginClient, MainHandles, BackToEpoll, procs
<1>3. \A d \in Procs : ~PongInHand(d) /\ ~PongInHand(d)'
  BY <1>2 DEF PongInHand, InHand
<1>4. PICK type \in Answers : Write(e, Msg(type))
  BY <1>1 DEF loginClient, Reject, Answers
<1>5. Msg(type) \in Tokens /\ Msg(type).type # "PING"
  BY TokenTypes DEF MessageTypes, Answers
<1>6. \A d \in Procs : d # e => toClient'[d] = toClient[d] /\ toServer'[d] = toServer[d]
  BY <1>1, <1>4, <1>5, WriteDoes, CloseDoes DEF loginClient, Reject
<1>7. \A d \in Procs : d # e => Unanswered(d)' = Unanswered(d)
  BY <1>2, <1>3, <1>6, UnansweredKept
<1>8. \A i \in DOMAIN clients : clients[i].fd # e
  <2>1. Pending(e)
    BY <1>1, <1>2 DEF Pending, LoginInHand, InHand
  <2> QED BY <2>1 DEF AgreeInv, ListInv
<1>9. pingPc # "for"
  BY <1>2 DEF AgreeInv, Holders
<1>10. CASE UNCHANGED clients
  <2>1. \A d \in Registered : d \in Procs /\ d # e
    BY <1>8, EntryAt DEF Registered
  <2> QED BY <1>2, <1>7, <1>10, <2>1, PingsKept DEF ListKept, ping
<1>11. CASE /\ clients' = Append(clients, [fd |-> event, name |-> name[event], is_inactive |-> 0])
            /\ UNCHANGED toServer
  <2> DEFINE entry == [fd |-> e, name |-> name[e], is_inactive |-> 0]
             n == Len(clients) + 1
  <2>1. entry \in Entry /\ entry.fd = e /\ entry.is_inactive = 0
    BY DEF Entry, Types
  <2>2. /\ DOMAIN clients' = DOMAIN clients \cup {n}
        /\ clients'[n].fd = e /\ clients'[n].is_inactive = 0
        /\ \A i \in DOMAIN clients : clients'[i] = clients[i]
    <3>1. clients' = Append(clients, entry) /\ clients \in Seq(Entry)
      BY <1>1, <1>11 DEF Types
    <3> HIDE DEF entry
    <3> QED BY <2>1, <3>1, AppendAt
  <2> HIDE DEF entry, n
  <2>3. Unanswered(e)' = 0
    <3>1. Pending(e) /\ StreamInv(e) /\ ConnInv(e)
      BY <1>1, <1>2 DEF Pending, LoginInHand, InHand, AgreeInv
    <3>2. toServer[e] \in Seq(Tokens) /\ \A i \in DOMAIN toServer[e] : toServer[e][i].type # "PONG"
      BY <3>1 DEF StreamInv, Types
    <3>3. Count(toServer'[e], "PONG") = 0
      BY <1>11, <3>2, CountTypes
    <3>4. toClient[e] = <<>> /\ pc[e] # "pong"
      BY <3>1 DEF ConnInv, InLoop
    <3>5. Count(toClient'[e], "PING") = 0
      <4>1. <<>> \in Seq(Tokens) /\ DOMAIN <<>> = {}
        BY EmptySeq
      <4>2. Count(<<>>, "PING") = 0
        BY <4>1, CountTypes
      <4>3. Count(Append(<<>>, Msg(type)), "PING") = 0
        <5>1. PICK token \in Tokens : token = Msg(type)
          BY <1>5
        <5>2. Count(Append(<<>>, token), "PING")
                = Count(<<>>, "PING") + IF token.type = "PING" THEN 1 ELSE 0
          BY <4>1, CountAppend
        <5>3. token.type # "PING"
          BY <1>5, <5>1
        <5> QED BY <4>2, <5>1, <5>2, <5>3
      <4>4. toClient'[e] = <<>> \/ toClient'[e] = Append(<<>>, Msg(type))
        BY <1>4, <1>5, <3>4, WriteDoes
      <4> QED BY <4>2, <4>3, <4>4
    <3> QED BY <1>2, <1>3, <3>3, <3>4, <3>5, UnansweredNext
  <2>4. ASSUME NEW i \in DOMAIN clients', NEW d \in Procs, d = clients'[i].fd
        PROVE  /\ clients'[i].is_inactive \in 0..1 /\ clients'[i].is_inactive >= Unanswered(d)'
               /\ pc'[d] \in Awake => clients'[i].is_inactive = Unanswered(d)'
    <3>1. CASE i = n
      BY <2>2, <2>3, <2>4, <3>1
    <3>2. CASE i # n
      <4>1. i \in DOMAIN clients /\ clients'[i] = clients[i]
        BY <2>2, <3>2
      <4>2. Unanswered(d)' = Unanswered(d) /\ clients[i].fd = d
        BY <1>7, <1>8, <2>4, <4>1
      <4> QED BY <1>2, <4>1, <4>2 DEF PingInv
    <3> QED BY <3>1, <3>2
  <2>5. pingPc' # "for"
    BY <1>2, <1>9 DEF ping
  <2> QED BY <2>4, <2>5 DEF PingInv
<1> QED BY <1>10, <1>11 DEF loginClient, Reject

\* A pong that is counted is one that was asked for: is_inactive was 1.
LEMMA PongPings ==
  ASSUME Types, Types', AgreeInv, PingInv, pong
  PROVE  PingInv'
<1>1. PICK e \in Procs : e = event
  BY DEF pong, MainHandles, AgreeInv, HandInv
<1>2. /\ UNCHANGED <<pc, ping, toClient, toServer>> /\ mainPc = "handle"
      /\ mainPc' = "epoll_wait" /\ msg_type = "PONG"
  BY DEF pong, MainHandles, BackToEpoll, procs
<1>3. \A d \in Procs : (PongInHand(d) <=> d = e) /\ ~PongInHand(d)'
  BY <1>1, <1>2 DEF PongInHand, InHand
<1>4. \A d \in Procs : d # e => Unanswered(d)' = Unanswered(d)
  BY <1>2, <1>3, UnansweredKept
<1>5. Unanswered(e)' = Unanswered(e) - 1 /\ Unanswered(e) >= 1 /\ Unanswered(e) \in Nat
  BY <1>2, <1>3, UnansweredIs, UnansweredNext
<1>6. pingPc # "for"
  BY <1>2 DEF AgreeInv, Holders
<1>7. \A i \in DOMAIN clients : clients[i].fd = e <=> i = check_name(name[e])
  <2>1. \A i \in DOMAIN clients : clients[i].name = name[e] => clients[i].fd = e
    BY <1>1, <1>2 DEF AgreeInv, HandInv, InHand
  <2>2. \A i \in DOMAIN clients : clients[i].fd = e => clients[i].name = name[e]
    BY DEF AgreeInv, ListInv
  <2>3. \A i, j \in DOMAIN clients : clients[i].name = clients[j].name => i = j
    BY DEF AgreeInv, ListInv
  <2>4. \A i \in DOMAIN clients : i # 0
    BY EntryAt
  <2> QED BY <2>1, <2>2, <2>3, <2>4, NameFound
<1>8. ASSUME NEW i \in DOMAIN clients', NEW d \in Procs, d = clients'[i].fd
      PROVE  /\ clients'[i].is_inactive \in 0..1 /\ clients'[i].is_inactive >= Unanswered(d)'
             /\ pc'[d] \in Awake => clients'[i].is_inactive = Unanswered(d)'
  <2>1. i \in DOMAIN clients /\ clients[i].fd = d
    BY <1>8, PongDoes DEF ListKept
  <2>2. clients[i].is_inactive \in 0..1 /\ clients[i].is_inactive >= Unanswered(d)
        /\ (pc[d] \in Awake => clients[i].is_inactive = Unanswered(d))
    BY <2>1 DEF PingInv
  <2>3. CASE d = e
    <3>1. i = check_name(name[event])
      BY <1>1, <1>7, <2>1, <2>3
    <3>2. clients[i].is_inactive = 1 /\ Unanswered(d)' = 0
      BY <1>5, <2>2, <2>3
    <3>3. clients'[i].is_inactive = (clients[i].is_inactive + 255) % 256
      BY <2>1, <3>1, PongDoes
    <3>4. clients'[i].is_inactive = 0
      BY <3>2, <3>3
    <3> QED BY <3>2, <3>4
  <2>4. CASE d # e
    <3>1. i # check_name(name[event])
      BY <1>1, <1>7, <2>1, <2>4
    <3>2. clients'[i].is_inactive = clients[i].is_inactive
      BY <2>1, <3>1, PongDoes
    <3> QED BY <1>2, <1>4, <2>2, <2>4, <3>2
  <2> QED BY <2>3, <2>4
<1>9. pingPc' # "for"
  BY <1>2, <1>6 DEF ping
<1> QED BY <1>8, <1>9 DEF PingInv

LEMMA StepPings ==
  ASSUME Types, Types', AgreeInv, \A d \in Procs : TalkInv(d), PingInv, [Next]_vars
  PROVE  PingInv'
<1>1. Registered \subseteq Procs
  BY EntryAt DEF Registered
<1>2. ASSUME UNCHANGED <<clients, toClient, toServer, pc, ping>>,
             \A d \in Procs : PongInHand(d)' <=> PongInHand(d)
      PROVE  PingInv'
  <2>1. \A d \in Procs : Unanswered(d)' = Unanswered(d)
    BY <1>2, UnansweredKept
  <2> QED BY <1>1, <1>2, <2>1, PingsKept DEF ListKept, ping
<1>3. CASE UNCHANGED vars
  BY <1>2, <1>3 DEF vars, threads, main, procs, PongInHand, InHand
<1>4. ASSUME NEW c \in Procs, connectFun(c) \/ epoll_wait(c) \/ MainLock PROVE PingInv'
  <2>1. UNCHANGED <<clients, toClient, toServer, pc, ping>>
    BY <1>4 DEF connectFun, epoll_wait, MainLock, procs
  <2>2. \A d \in Procs : PongInHand(d)' <=> PongInHand(d)
    BY <1>4 DEF connectFun, epoll_wait, MainLock, MainGoes, PongInHand, InHand
  <2> QED BY <1>2, <2>1, <2>2
<1>5. CASE logoutClient
  <2>1. UNCHANGED <<toClient, pc, ping>> /\ mainPc = "handle" /\ mainPc' = "epoll_wait"
        /\ msg_type = "LOGOUT"
    BY <1>5 DEF logoutClient, MainHandles, BackToEpoll, procs
  <2>2. (\A d \in Procs : PongInHand(d)' <=> PongInHand(d)) /\ pingPc # "for"
    BY <2>1 DEF PongInHand, InHand, AgreeInv, Holders
  <2> DEFINE i == check_name(name[event])
  <2>3. CASE i = 0
    <3>1. UNCHANGED <<clients, toServer>>
      BY <1>5, <2>3 DEF logoutClient
    <3> QED BY <1>2, <2>1, <2>2, <3>1
  <2>4. CASE i # 0
    <3>1. i \in DOMAIN clients
      BY <2>4, NameFound
    <3>2. clients' = Without(i) /\ close_socket(clients[i].fd)
      BY <1>5, <2>4 DEF logoutClient
    <3> HIDE DEF i
    <3>3. pingPc' # "for"
      BY <2>1, <2>2 DEF ping
    <3> QED BY <2>1, <2>2, <3>1, <3>2, <3>3, RemovedPings
  <2> QED BY <2>3, <2>4
<1>6. CASE Main
  <2>1. CASE MainLock
    <3>1. event \in Procs
      BY <2>1 DEF MainLock, MainGoes, AgreeInv, HandInv
    <3> QED BY <1>4, <2>1, <3>1
  <2> QED BY <1>4, <1>5, <1>6, <2>1, MessagePings, LoginPings, PongPings DEF Main
<1> QED BY <1>3, <1>6, PingPings, TermPings, ClientPings DEF Next
LEMMA InitTalks == Init => \A c \in Procs : TalkInv(c)
BY DEF Init, TalkInv, Awake, InLoop

LEMMA InitPings == Init => PingInv
BY DEF Init, PingInv

-----------------------------------------------------------------------------
(* The orders and where they are.                                          *)
In(s, e) == \E i \in DOMAIN s : s[i] = e
Once(s, e) == \A i, j \in DOMAIN s : s[i] = e /\ s[j] = e => i = j

OrderTokens == {e \in Tokens : e.type \in {"operation_t", "RESULT"}}

\* No order has come into the stream.
Fewer(t, s) ==
  \A e \in OrderTokens : (In(t, e) => In(s, e)) /\ (Once(s, e) => Once(t, e))

\* The numbers that have been sent: those before the one in the terminal
\* thread's hand.
CounterInv ==
  /\ termPc \notin {"fgets", "unlock"} => operation_counter # 0
  /\ \A n \in 1..MaxOrders :
       n > operation_counter \/ (n = operation_counter /\ termPc \notin {"fgets", "unlock"}) =>
         sentTo[n] = "nobody"
  /\ printed \subseteq {n \in 1..MaxOrders : sentTo[n] # "nobody"}

\* The places of an order that a connection has room for.
Asked(c, n) == In(toClient[c], Operation(n))
Answered(c, n) == In(toServer[c], Result(n))

OrderInv(c) ==
  /\ pc[c] = "result" => order[c] # 0
  /\ ~Asked(c, 0) /\ ~Answered(c, 0)
  /\ \A n \in 1..MaxOrders :
       /\ Asked(c, n) \/ order[c] = n \/ Answered(c, n) => sentTo[n] = c /\ n \notin printed
       /\ Once(toClient[c], Operation(n)) /\ Once(toServer[c], Result(n))
       /\ Asked(c, n) => order[c] # n /\ ~Answered(c, n)
       /\ order[c] = n => ~Answered(c, n)

LEMMA InAppend ==
  ASSUME NEW s \in Seq(Tokens), NEW token \in Tokens, NEW e
  PROVE  /\ In(Append(s, token), e) <=> (In(s, e) \/ token = e)
         /\ Once(s, e) /\ (token = e => ~In(s, e)) => Once(Append(s, token), e)
<1> DEFINE t == Append(s, token)
           n == Len(s) + 1
<1>1. DOMAIN t = DOMAIN s \cup {n} /\ t[n] = token /\ \A i \in DOMAIN s : t[i] = s[i]
  BY AppendAt
<1> HIDE DEF t, n
<1>2. In(t, e) <=> (In(s, e) \/ token = e)
  BY <1>1 DEF In
<1>3. Once(s, e) /\ (token = e => ~In(s, e)) => Once(t, e)
  BY <1>1 DEF In, Once
<1> QED BY <1>2, <1>3 DEF t

LEMMA InTail ==
  ASSUME NEW s \in Seq(Tokens), s # <<>>, NEW e
  PROVE  /\ Head(s) \in Tokens /\ In(s, Head(s))
         /\ In(Tail(s), e) => In(s, e)
         /\ Once(s, e) => Once(Tail(s), e) /\ (Head(s) = e => ~In(Tail(s), e))
<1> DEFINE t == Tail(s)
<1>1. /\ Head(s) = s[1] /\ 1 \in DOMAIN s /\ Head(s) \in Tokens
      /\ \A i \in DOMAIN t : i \in Nat /\ i + 1 \in DOMAIN s /\ i + 1 # 1 /\ t[i] = s[i + 1]
  BY TailAt
<1> HIDE DEF t
<1>2. In(s, Head(s)) /\ (In(t, e) => In(s, e))
  BY <1>1 DEF In
<1>3. Once(s, e) => Once(t, e)
  <2> SUFFICES ASSUME Once(s, e), NEW i \in DOMAIN t, NEW j \in DOMAIN t, t[i] = e, t[j] = e
               PROVE  i = j
    BY DEF Once
  <2>1. i + 1 = j + 1 /\ i \in Nat /\ j \in Nat
    BY <1>1 DEF Once
  <2> QED BY <2>1
<1>4. Once(s, e) /\ Head(s) = e => ~In(t, e)
  BY <1>1 DEF Once, In
<1> QED BY <1>1, <1>2, <1>3, <1>4 DEF t

LEMMA FewerNow ==
  ASSUME NEW s \in Seq(Tokens)
  PROVE  /\ Fewer(s, s) /\ Fewer(<<>>, s)
         /\ s # <<>> => Fewer(Tail(s), s)
         /\ \A token \in Tokens \ OrderTokens : Fewer(Append(s, token), s)
<1>1. Fewer(s, s) /\ Fewer(<<>>, s)
  <2>1. DOMAIN <<>> = {}
    BY EmptySeq
  <2> QED BY <2>1 DEF Fewer, In, Once
<1>2. s # <<>> => Fewer(Tail(s), s)
  BY InTail DEF Fewer
<1>3. ASSUME NEW token \in Tokens \ OrderTokens PROVE Fewer(Append(s, token), s)
  <2> SUFFICES ASSUME NEW e \in OrderTokens
               PROVE  /\ In(Append(s, token), e) => In(s, e)
                      /\ Once(s, e) => Once(Append(s, token), e)
    BY DEF Fewer
  <2> QED BY InAppend
<1> QED BY <1>1, <1>2, <1>3

LEMMA OrderTokensAre ==
  /\ \A n \in 0..MaxOrders : Operation(n) \in OrderTokens /\ Result(n) \in OrderTokens
  /\ \A n, m \in 0..MaxOrders : /\ Operation(n) = Operation(m) => n = m
                                /\ Result(n) = Result(m) => n = m
                                /\ Operation(n) # Result(m)
  /\ \A type \in MessageTypes \ {"RESULT"} : Msg(type) \in Tokens \ OrderTokens
  /\ \A e \in OrderTokens : /\ e.operation \in 0..MaxOrders
                            /\ e = IF e.type = "RESULT" THEN Result(e.operation)
                                   ELSE Operation(e.operation)
BY MaxAssumption DEF OrderTokens, Tokens, Operation, Result, Msg, MessageTypes

\* A step that puts no order of c anywhere.
LEMMA OrderKept ==
  ASSUME Types, NEW c \in Procs, OrderInv(c),
         Fewer(toClient'[c], toClient[c]), Fewer(toServer'[c], toServer[c]),
         order'[c] \in {order[c], 0}, pc'[c] = "result" => order'[c] # 0,
         \A n \in 1..MaxOrders : sentTo[n] = c => /\ sentTo'[n] = c
                                                  /\ n \in printed' => n \in printed
  PROVE  OrderInv(c)'
<1>1. \A n \in 0..MaxOrders : /\ In(toClient'[c], Operation(n)) => Asked(c, n)
                              /\ In(toServer'[c], Result(n)) => Answered(c, n)
                              /\ Once(toClient[c], Operation(n)) => Once(toClient'[c], Operation(n))
                              /\ Once(toServer[c], Result(n)) => Once(toServer'[c], Result(n))
  BY OrderTokensAre DEF Fewer, Asked, Answered
<1>2. ~In(toClient'[c], Operation(0)) /\ ~In(toServer'[c], Result(0))
  BY <1>1, MaxAssumption DEF OrderInv
<1>3. ASSUME NEW n \in 1..MaxOrders
      PROVE  /\ In(toClient'[c], Operation(n)) \/ order'[c] = n \/ In(toServer'[c], Result(n)) =>
                  sentTo'[n] = c /\ n \notin printed'
             /\ Once(toClient'[c], Operation(n)) /\ Once(toServer'[c], Result(n))
             /\ In(toClient'[c], Operation(n)) => order'[c] # n /\ ~In(toServer'[c], Result(n))
             /\ order'[c] = n => ~In(toServer'[c], Result(n))
  <2>1. n \in 0..MaxOrders /\ n # 0
    OBVIOUS
  <2>2. order'[c] = n => order[c] = n
    BY <2>1
  <2> QED BY <1>1, <2>1, <2>2 DEF OrderInv
<1> QED BY <1>2, <1>3 DEF OrderInv, Asked, Answered

\* The terminal thread sends an order that has not been sent yet.
LEMMA OrderAsked ==
  ASSUME Types, NEW c \in Procs, OrderInv(c), NEW n \in 1..MaxOrders, sentTo[n] = "nobody",
         toClient'[c] = Append(toClient[c], Operation(n)),
         sentTo' = [sentTo EXCEPT ![n] = c], n \notin printed,
         UNCHANGED <<toServer, order, pc, printed>>
  PROVE  OrderInv(c)'
<1>1. \A m \in 0..MaxOrders : /\ In(toClient'[c], Operation(m)) <=> (Asked(c, m) \/ m = n)
                              /\ Once(toClient[c], Operation(m)) /\ (m = n => ~Asked(c, m)) =>
                                   Once(toClient'[c], Operation(m))
  <2> SUFFICES ASSUME NEW m \in 0..MaxOrders
               PROVE  /\ In(toClient'[c], Operation(m)) <=> (Asked(c, m) \/ m = n)
                      /\ Once(toClient[c], Operation(m)) /\ (m = n => ~Asked(c, m)) =>
                           Once(toClient'[c], Operation(m))
    OBVIOUS
  <2>1. n \in 0..MaxOrders /\ Operation(n) \in Tokens /\ (Operation(n) = Operation(m) <=> m = n)
    BY OrderTokensAre DEF OrderTokens
  <2>2. toClient[c] \in Seq(Tokens)
    BY DEF Types
  <2> QED BY <2>1, <2>2, InAppend DEF Asked
<1>2. ~Asked(c, n) /\ order[c] # n /\ ~Answered(c, n)
  BY NobodyAssumption DEF OrderInv
<1>3. \A m \in 1..MaxOrders : sentTo'[m] = IF m = n THEN c ELSE sentTo[m]
  BY DEF Types
<1>4. ~In(toClient'[c], Operation(0)) /\ ~In(toServer'[c], Result(0))
  BY <1>1, MaxAssumption DEF OrderInv, Answered
<1>5. ASSUME NEW m \in 1..MaxOrders
      PROVE  /\ In(toClient'[c], Operation(m)) \/ order'[c] = m \/ In(toServer'[c], Result(m)) =>
                  sentTo'[m] = c /\ m \notin printed'
             /\ Once(toClient'[c], Operation(m)) /\ Once(toServer'[c], Result(m))
             /\ In(toClient'[c], Operation(m)) => order'[c] # m /\ ~In(toServer'[c], Result(m))
             /\ order'[c] = m => ~In(toServer'[c], Result(m))
  <2>1. m \in 0..MaxOrders /\ order'[c] = order[c] /\ toServer'[c] = toServer[c]
    OBVIOUS
  <2> QED BY <1>1, <1>2, <1>3, <2>1 DEF OrderInv, Answered
<1> QED BY <1>4, <1>5 DEF OrderInv, Asked, Answered

\* The client takes an order from the stream.
LEMMA OrderTaken ==
  ASSUME Types, NEW c \in Procs, OrderInv(c), TalkInv(c), calc(c)
  PROVE  OrderInv(c)'
<1>1. /\ toClient[c] \in Seq(Tokens) /\ toClient[c] # <<>> /\ toClient'[c] = Tail(toClient[c])
      /\ order'[c] = Head(toClient[c]).operation /\ pc[c] = "calc"
      /\ UNCHANGED <<toServer, sentTo, printed>>
  BY DEF Types, calc, ClientGoes, Receives, server
<1>2. PICK n \in 1..MaxOrders : Head(toClient[c]) = Operation(n)
  <2>1. Head(toClient[c]) \in Tokens /\ In(toClient[c], Head(toClient[c]))
    BY <1>1, InTail
  <2>2. Head(toClient[c]).type = "operation_t"
    <3>1. 1 \in DOMAIN toClient[c] /\ Head(toClient[c]) = toClient[c][1]
      BY <1>1, TailAt
    <3> QED BY <1>1, <3>1 DEF TalkInv, Expects, Awake, InLoop
  <2>3. PICK m \in 0..MaxOrders : Head(toClient[c]) = Operation(m)
    BY <2>1, <2>2, OrderTokensAre DEF OrderTokens
  <2>4. m # 0
    BY <2>1, <2>3 DEF OrderInv, Asked
  <2>5. m \in 1..MaxOrders
    BY <2>4, MaxAssumption
  <2> QED BY <2>3, <2>5
<1>3. order'[c] = n /\ Asked(c, n)
  <2>1. Operation(n).operation = n
    BY DEF Operation
  <2> QED BY <1>1, <1>2, <2>1, InTail DEF Asked
<1>4. \A m \in 0..MaxOrders : /\ In(toClient'[c], Operation(m)) => Asked(c, m)
                              /\ Once(toClient[c], Operation(m)) =>
                                   /\ Once(toClient'[c], Operation(m))
                                   /\ m = n => ~In(toClient'[c], Operation(m))
  BY <1>1, <1>2, InTail DEF Asked
<1>5. ~In(toClient'[c], Operation(0)) /\ ~In(toServer'[c], Result(0))
  BY <1>1, <1>4, MaxAssumption DEF OrderInv, Answered
<1>6. ASSUME NEW m \in 1..MaxOrders
      PROVE  /\ In(toClient'[c], Operation(m)) \/ order'[c] = m \/ In(toServer'[c], Result(m)) =>
                  sentTo'[m] = c /\ m \notin printed'
             /\ Once(toClient'[c], Operation(m)) /\ Once(toServer'[c], Result(m))
             /\ In(toClient'[c], Operation(m)) => order'[c] # m /\ ~In(toServer'[c], Result(m))
             /\ order'[c] = m => ~In(toServer'[c], Result(m))
  <2>1. m \in 0..MaxOrders /\ toServer'[c] = toServer[c]
    BY <1>1
  <2> QED BY <1>1, <1>3, <1>4, <2>1 DEF OrderInv, Answered
<1>7. order'[c] # 0
  BY <1>3
<1> QED BY <1>5, <1>6, <1>7 DEF OrderInv, Asked, Answered

\* The client sends the result, which may reach nobody.
LEMMA OrderCarriedOut ==
  ASSUME Types, NEW c \in Procs, OrderInv(c), sendResult(c)
  PROVE  OrderInv(c)'
<1>1. /\ toServer[c] \in Seq(Tokens) /\ Send(c, Result(order[c])) /\ order'[c] = 0
      /\ pc[c] = "result" /\ pc'[c] = "read" /\ UNCHANGED <<toClient, sentTo, printed>>
  BY DEF Types, sendResult, ClientGoes, server
<1>2. PICK n \in 1..MaxOrders : order[c] = n
  BY <1>1 DEF OrderInv, Types
<1>3. CASE sock[c] = "closed"
  <2>1. toServer'[c] = toServer[c] /\ toClient'[c] = toClient[c] /\ toClient[c] \in Seq(Tokens)
    BY <1>1, <1>3 DEF Send, Types
  <2>2. Fewer(toClient'[c], toClient[c]) /\ Fewer(toServer'[c], toServer[c])
    BY <1>1, <2>1, FewerNow
  <2> QED BY <1>1, <2>2, OrderKept
<1>4. CASE sock[c] # "closed"
  <2>1. Result(n) \in Tokens /\ n \in 0..MaxOrders
    BY OrderTokensAre DEF OrderTokens
  <2>2. toServer'[c] = Append(toServer[c], Result(n))
    BY <1>1, <1>2, <1>4, <2>1, SendDoes
  <2>3. ASSUME NEW m \in 0..MaxOrders
        PROVE  /\ In(toServer'[c], Result(m)) <=> (Answered(c, m) \/ m = n)
               /\ Once(toServer[c], Result(m)) /\ (m = n => ~Answered(c, m)) =>
                    Once(toServer'[c], Result(m))
    <3>1. Result(n) = Result(m) <=> m = n
      BY <2>1, OrderTokensAre
    <3> QED BY <1>1, <2>1, <2>2, <3>1, InAppend DEF Answered
  <2>4. ~In(toClient'[c], Operation(0)) /\ ~In(toServer'[c], Result(0))
    BY <1>1, <2>3, MaxAssumption DEF OrderInv, Asked
  <2>5. ASSUME NEW m \in 1..MaxOrders
        PROVE  /\ In(toClient'[c], Operation(m)) \/ order'[c] = m \/ In(toServer'[c], Result(m)) =>
                    sentTo'[m] = c /\ m \notin printed'
               /\ Once(toClient'[c], Operation(m)) /\ Once(toServer'[c], Result(m))
               /\ In(toClient'[c], Operation(m)) => order'[c] # m /\ ~In(toServer'[c], Result(m))
               /\ order'[c] = m => ~In(toServer'[c], Result(m))
    <3>1. m \in 0..MaxOrders /\ toClient'[c] = toClient[c] /\ order'[c] # m
      BY <1>1
    <3> QED BY <1>1, <1>2, <2>3, <3>1 DEF OrderInv, Asked
  <2> QED BY <1>1, <2>4, <2>5 DEF OrderInv, Asked, Answered
<1> QED BY <1>3, <1>4

\* main prints a result: its order is at no other place any more.
LEMMA OrderPrinted ==
  ASSUME Types, \A c \in Procs : OrderInv(c), AgreeInv, message, NEW d \in Procs
  PROVE  OrderInv(d)'
<1>1. PICK e \in Procs : e = event
  BY DEF message, AgreeInv, HandInv
<1>2. /\ UNCHANGED <<toClient, pc, order, sentTo>> /\ toClient[d] \in Seq(Tokens)
      /\ toServer[d] \in Seq(Tokens) /\ toServer[e] \in Seq(Tokens)
      /\ OrderInv(d) /\ OrderInv(e)
  BY DEF message, procs, Types
<1>3. Fewer(toClient'[d], toClient[d])
  <2>1. toClient'[d] = toClient[d]
    BY <1>2
  <2> QED BY <1>2, <2>1, FewerNow
<1>4. /\ order'[d] = order[d] /\ (pc'[d] = "result" => order'[d] # 0)
      /\ \A n \in 1..MaxOrders : sentTo'[n] = sentTo[n]
  BY <1>2 DEF OrderInv
<1>5. CASE UNCHANGED <<toServer, printed>>
  <2>1. toServer'[d] = toServer[d]
    BY <1>5
  <2>2. Fewer(toServer'[d], toServer[d])
    BY <1>2, <2>1, FewerNow
  <2> QED BY <1>2, <1>3, <1>4, <1>5, <2>2, OrderKept
<1>6. CASE sock[e] = "open" /\ toServer[e] # <<>>
  <2>1. /\ toServer'[e] = Tail(toServer[e]) /\ (d # e => toServer'[d] = toServer[d])
        /\ IF Head(toServer[e]).type = "RESULT"
           THEN printed' = printed \cup {Head(toServer[e]).operation}
           ELSE printed' = printed
    BY <1>1, <1>6 DEF message, Types
  <2>2. Fewer(toServer'[d], toServer[d])
    BY <1>2, <1>6, <2>1, FewerNow
  <2>3. CASE printed' = printed
    BY <1>2, <1>3, <1>4, <2>2, <2>3, OrderKept
  <2>4. CASE Head(toServer[e]).type = "RESULT"
    <3>1. PICK n \in 0..MaxOrders : Head(toServer[e]) = Result(n) /\ Head(toServer[e]).operation = n
      <4>1. Head(toServer[e]) \in OrderTokens
        BY <1>2, <1>6, <2>4, InTail DEF OrderTokens
      <4> QED BY <2>4, <4>1, OrderTokensAre
    <3>2. Answered(e, n)
      BY <1>2, <1>6, <3>1, InTail DEF Answered
    <3>3. n \in 1..MaxOrders
      <4>1. n # 0
        BY <1>2, <3>2 DEF OrderInv
      <4> QED BY <4>1, MaxAssumption
    <3>4. sentTo[n] = e /\ ~Asked(e, n) /\ order[e] # n
      BY <1>2, <3>2, <3>3 DEF OrderInv
    <3>5. printed' = printed \cup {n}
      BY <2>1, <2>4, <3>1
    <3>6. CASE d # e
      <4>1. \A m \in 1..MaxOrders : sentTo[m] = d => (m \in printed' => m \in printed)
        BY <3>4, <3>5, <3>6
      <4> QED BY <1>2, <1>3, <1>4, <2>2, <4>1, OrderKept
    <3>7. CASE d = e
      <4>1. \A m \in 0..MaxOrders : /\ In(toServer'[d], Result(m)) => Answered(d, m)
                                    /\ Once(toServer[d], Result(m)) =>
                                         /\ Once(toServer'[d], Result(m))
                                         /\ m = n => ~In(toServer'[d], Result(m))
        BY <1>2, <1>6, <2>1, <3>1, <3>7, InTail DEF Answered
      <4>2. ~In(toClient'[d], Operation(0)) /\ ~In(toServer'[d], Result(0))
        BY <1>2, <4>1, MaxAssumption DEF OrderInv, Asked
      <4>3. ASSUME NEW m \in 1..MaxOrders
            PROVE  /\ In(toClient'[d], Operation(m)) \/ order'[d] = m \/ In(toServer'[d], Result(m)) =>
                        sentTo'[m] = d /\ m \notin printed'
                   /\ Once(toClient'[d], Operation(m)) /\ Once(toServer'[d], Result(m))
                   /\ In(toClient'[d], Operation(m)) => order'[d] # m /\ ~In(toServer'[d], Result(m))
                   /\ order'[d] = m => ~In(toServer'[d], Result(m))
        <5>1. m \in 0..MaxOrders /\ toClient'[d] = toClient[d] /\ order'[d] = order[d]
              /\ sentTo'[m] = sentTo[m]
          BY <1>2
        <5> QED BY <1>2, <3>4, <3>5, <3>7, <4>1, <5>1 DEF OrderInv, Asked
      <4> QED BY <1>4, <4>2, <4>3 DEF OrderInv, Asked, Answered
    <3> QED BY <3>6, <3>7
  <2> QED BY <2>1, <2>3, <2>4
<1>7. CASE sock[e] # "open" \/ toServer[e] = <<>>
  <2>1. UNCHANGED <<toServer, printed>>
    BY <1>1, <1>7 DEF message
  <2> QED BY <1>5, <2>1
<1> QED BY <1>6, <1>7

LEMMA WriteFewer ==
  ASSUME Types, NEW c \in Procs, NEW token \in Tokens \ OrderTokens, Write(c, token),
         NEW d \in Procs
  PROVE  Fewer(toClient'[d], toClient[d])
<1>1. toClient[d] \in Seq(Tokens)
  BY DEF Types
<1>2. toClient'[d] = toClient[d] \/ toClient'[d] = Append(toClient[d], token)
  BY WriteDoes
<1> QED BY <1>1, <1>2, FewerNow

LEMMA CloseFewer ==
  ASSUME Types, NEW c \in Procs, close_socket(c), NEW d \in Procs
  PROVE  Fewer(toServer'[d], toServer[d])
<1>1. toServer[d] \in Seq(Tokens)
  BY DEF Types
<1>2. toServer'[d] = toServer[d] \/ toServer'[d] = <<>>
  BY CloseDoes
<1> QED BY <1>1, <1>2, FewerNow

\* A step of the server's that gives and prints no order.
LEMMA QuietOrders ==
  ASSUME Types, NEW d \in Procs, OrderInv(d), UNCHANGED <<order, pc, sentTo, printed>>,
         toClient' = toClient \/ Fewer(toClient'[d], toClient[d]),
         toServer' = toServer \/ Fewer(toServer'[d], toServer[d])
  PROVE  OrderInv(d)'
<1>1. toClient[d] \in Seq(Tokens) /\ toServer[d] \in Seq(Tokens)
  BY DEF Types
<1>2. Fewer(toClient'[d], toClient[d])
  <2>1. CASE toClient' = toClient
    <3>1. toClient'[d] = toClient[d]
      BY <2>1
    <3> QED BY <1>1, <3>1, FewerNow
  <2> QED BY <2>1
<1>3. Fewer(toServer'[d], toServer[d])
  <2>1. CASE toServer' = toServer
    <3>1. toServer'[d] = toServer[d]
      BY <2>1
    <3> QED BY <1>1, <3>1, FewerNow
  <2> QED BY <2>1
<1>4. pc'[d] = "result" => order'[d] # 0
  BY DEF OrderInv
<1> QED BY <1>2, <1>3, <1>4, OrderKept

LEMMA MainOrders ==
  ASSUME Types, AgreeInv, \A c \in Procs : OrderInv(c), Main, NEW d \in Procs
  PROVE  OrderInv(d)'
<1>1. CASE message
  BY <1>1, OrderPrinted
<1>2. CASE ~message
  <2>1. UNCHANGED <<order, pc, sentTo, printed>>
    BY <1>2 DEF Main, connectFun, epoll_wait, MainLock, loginClient, logoutClient, pong,
                procs, history
  <2>2. CASE loginClient
    <3>1. PICK e \in Procs : e = event
      BY <2>2 DEF loginClient, MainHandles, AgreeInv, HandInv
    <3>2. PICK type \in MessageTypes \ {"RESULT"} : Write(e, Msg(type))
      <4>1. {"SUCCESS", "WRONG_SIZE", "WRONG_NAME"} \subseteq MessageTypes \ {"RESULT"}
        BY DEF MessageTypes
      <4> QED BY <2>2, <3>1, <4>1 DEF loginClient, Reject
    <3>3. toServer' = toServer \/ close_socket(e)
      BY <2>2, <3>1 DEF loginClient, Reject
    <3>4. Fewer(toClient'[d], toClient[d])
      BY <3>2, OrderTokensAre, WriteFewer
    <3> QED BY <2>1, <3>3, <3>4, CloseFewer, QuietOrders
  <2>3. CASE logoutClient
    <3>1. toClient' = toClient
      BY <2>3 DEF logoutClient
    <3>2. toServer' = toServer \/ Fewer(toServer'[d], toServer[d])
      <4> DEFINE i == check_name(name[event])
      <4>1. CASE i = 0
        BY <2>3, <4>1 DEF logoutClient
      <4>2. CASE i # 0
        <5>1. i \in DOMAIN clients
          BY <4>2, NameFound
        <5>2. clients[i].fd \in Procs
          BY <5>1, EntryAt
        <5>3. close_socket(clients[i].fd)
          BY <2>3, <4>2 DEF logoutClient
        <5> HIDE DEF i
        <5> QED BY <5>2, <5>3, CloseFewer
      <4> QED BY <4>1, <4>2
    <3> QED BY <2>1, <3>1, <3>2, QuietOrders
  <2>4. CASE ~loginClient /\ ~logoutClient
    <3>1. UNCHANGED <<toClient, toServer>>
      BY <1>2, <2>4 DEF Main, connectFun, epoll_wait, MainLock, pong
    <3> QED BY <2>1, <3>1, QuietOrders
  <2> QED BY <2>2, <2>3, <2>4
<1> QED BY <1>1, <1>2

LEMMA PingOrders ==
  ASSUME Types, \A c \in Procs : OrderInv(c), Ping, NEW d \in Procs
  PROVE  OrderInv(d)'
<1>1. UNCHANGED <<order, pc, sentTo, printed>>
  BY DEF Ping, PingLock, PingRemoves, PingWrites, PingUnlock, procs, history
<1>2. PingAtClient => clients[pingAt].fd \in Procs
  <2>1. PingAtClient => pingAt \in DOMAIN clients
    BY DEF Types, PingAtClient
  <2> QED BY <2>1, EntryAt
<1>3. CASE PingRemoves
  <2>1. toClient' = toClient /\ Fewer(toServer'[d], toServer[d])
    BY <1>2, <1>3, CloseFewer DEF PingRemoves
  <2> QED BY <1>1, <2>1, QuietOrders
<1>4. CASE PingWrites
  <2>1. Msg("PING") \in Tokens \ OrderTokens
    BY OrderTokensAre DEF MessageTypes
  <2>2. toServer' = toServer /\ Fewer(toClient'[d], toClient[d])
    BY <1>2, <1>4, <2>1, WriteFewer DEF PingWrites
  <2> QED BY <1>1, <2>2, QuietOrders
<1>5. CASE PingLock \/ PingUnlock
  <2>1. UNCHANGED <<toClient, toServer>>
    BY <1>5 DEF PingLock, PingUnlock
  <2> QED BY <1>1, <2>1, QuietOrders
<1> QED BY <1>3, <1>4, <1>5 DEF Ping

LEMMA TermOrders ==
  ASSUME Types, AgreeInv, CounterInv, \A c \in Procs : OrderInv(c), Terminal, NEW d \in Procs
  PROVE  OrderInv(d)'
<1>1. UNCHANGED <<toServer, order, pc, printed>>
  BY DEF Terminal, TermOrder, TermLock, TermNobody, TermChoose, TermWriteType,
         TermWriteOperation, TermUnlock, procs, history
<1>2. ASSUME termPc \in {"type", "operation_t"}
      PROVE  termAt \in DOMAIN clients /\ clients[termAt].fd \in Procs
  <2>1. termAt \in DOMAIN clients
    BY <1>2 DEF AgreeInv, Holders
  <2> QED BY <2>1, EntryAt
<1>3. CASE TermWriteType
  <2>1. Msg("REQUEST") \in Tokens \ OrderTokens
    BY OrderTokensAre DEF MessageTypes
  <2>2. sentTo' = sentTo /\ Fewer(toClient'[d], toClient[d])
    BY <1>2, <1>3, <2>1, WriteFewer DEF TermWriteType, TermGoes, history
  <2> QED BY <1>1, <2>2, QuietOrders
<1>4. CASE TermWriteOperation
  <2>1. PICK c \in Procs, n \in 1..MaxOrders :
          /\ Write(c, Operation(n)) /\ sentTo' = [sentTo EXCEPT ![n] = c]
          /\ sentTo[n] = "nobody" /\ n \notin printed
    <3>1. termPc = "operation_t" /\ clients[termAt].fd \in Procs
      BY <1>2, <1>4 DEF TermWriteOperation, TermGoes
    <3>2. operation_counter \in 1..MaxOrders
      BY <3>1 DEF CounterInv, Types
    <3>3. sentTo[operation_counter] = "nobody" /\ operation_counter \notin printed
      BY <3>1, <3>2 DEF CounterInv, Types
    <3> QED BY <1>4, <3>1, <3>2, <3>3 DEF TermWriteOperation
  <2>2. Operation(n) \in Tokens
    BY OrderTokensAre DEF OrderTokens
  <2>3. \A m \in 1..MaxOrders : sentTo[m] = d => sentTo'[m] = d
    BY <2>1, NobodyAssumption DEF Types
  <2>4. CASE toClient'[d] = toClient[d]
    <3>1. /\ toClient[d] \in Seq(Tokens) /\ toServer[d] \in Seq(Tokens)
          /\ toServer'[d] = toServer[d] /\ order'[d] = order[d]
          /\ (pc'[d] = "result" => order'[d] # 0)
      BY <1>1 DEF Types, OrderInv
    <3>2. Fewer(toClient'[d], toClient[d]) /\ Fewer(toServer'[d], toServer[d])
      BY <2>4, <3>1, FewerNow
    <3> QED BY <1>1, <2>3, <3>1, <3>2, OrderKept
  <2>5. CASE toClient'[d] # toClient[d]
    <3>1. d = c /\ toClient'[c] = Append(toClient[c], Operation(n))
      BY <2>1, <2>2, <2>5, WriteDoes DEF Types
    <3> QED BY <1>1, <2>1, <3>1, OrderAsked
  <2> QED BY <2>4, <2>5
<1>5. CASE ~TermWriteType /\ ~TermWriteOperation
  <2>1. UNCHANGED <<toClient, sentTo>>
    BY <1>5 DEF Terminal, TermOrder, TermLock, TermNobody, TermChoose, TermUnlock, history
  <2> QED BY <1>1, <2>1, QuietOrders
<1> QED BY <1>3, <1>4, <1>5

LEMMA ClientOrders ==
  ASSUME Types, \A e \in Procs : OrderInv(e), \A e \in Procs : TalkInv(e),
         NEW c \in Procs, Client(c), NEW d \in Procs
  PROVE  OrderInv(d)'
<1>1. UNCHANGED <<sentTo, printed>> /\ toClient[d] \in Seq(Tokens) /\ toServer[d] \in Seq(Tokens)
  BY OnlyClient DEF server, Types
<1>2. CASE d # c
  <2>1. /\ toClient'[d] = toClient[d] /\ toServer'[d] = toServer[d] /\ order'[d] = order[d]
        /\ pc'[d] = pc[d]
    BY <1>2, OnlyClient DEF Same
  <2>2. Fewer(toClient'[d], toClient[d]) /\ Fewer(toServer'[d], toServer[d])
    BY <1>1, <2>1, FewerNow
  <2>3. pc'[d] = "result" => order'[d] # 0
    BY <2>1 DEF OrderInv
  <2> QED BY <1>1, <2>1, <2>2, <2>3, OrderKept
<1>3. CASE calc(c)
  BY <1>2, <1>3, OrderTaken
<1>4. CASE sendResult(c)
  BY <1>2, <1>4, OrderCarriedOut
<1>5. CASE d = c /\ ~calc(c) /\ ~sendResult(c)
  <2>1. order'[c] = order[c] /\ pc'[c] # "result"
    BY <1>5 DEF Client, init, login, response, read, sendPong, EndOfFile, sigIntHandler,
                funAtExit, Killed, ClientGoes, Types
  <2>2. Fewer(toClient'[c], toClient[c])
    <3>1. toClient'[c] = toClient[c] \/ Receives(c) \/ toClient'[c] = <<>>
      BY <1>5, ClosedDoes DEF Client, init, login, response, read, sendPong, EndOfFile,
                              sigIntHandler, funAtExit, Killed
    <3>2. Receives(c) => toClient[c] # <<>> /\ toClient'[c] = Tail(toClient[c])
      BY ReceiveDoes DEF Receives
    <3> QED BY <1>1, <1>5, <3>1, <3>2, FewerNow
  <2>3. Fewer(toServer'[c], toServer[c])
    <3>1. \/ toServer'[c] = toServer[c]
          \/ \E type \in MessageTypes \ {"RESULT"} : Send(c, Msg(type))
      BY <1>5 DEF Client, init, login, response, read, sendPong, EndOfFile,
                  sigIntHandler, funAtExit, Killed, MessageTypes
    <3>2. ASSUME NEW type \in MessageTypes \ {"RESULT"}, Send(c, Msg(type))
          PROVE  \/ toServer'[c] = toServer[c]
                 \/ \E token \in Tokens \ OrderTokens : toServer'[c] = Append(toServer[c], token)
      <4>1. Msg(type) \in Tokens \ OrderTokens
        BY <3>2, OrderTokensAre
      <4> QED BY <3>2, <4>1, SendDoes
    <3> QED BY <1>1, <1>5, <3>1, <3>2, FewerNow
  <2> QED BY <1>1, <1>5, <2>1, <2>2, <2>3, OrderKept
<1> QED BY <1>2, <1>3, <1>4, <1>5

\* Numbers are given out one after the other.
LEMMA StepCounts ==
  ASSUME Types, AgreeInv, CounterInv, \A c \in Procs : OrderInv(c), [Next]_vars
  PROVE  CounterInv'
<1>1. CASE UNCHANGED <<termPc, operation_counter, sentTo, printed>>
  BY <1>1 DEF CounterInv
<1>2. CASE message
  <2>1. PICK e \in Procs : e = event
    BY <1>2 DEF message, AgreeInv, HandInv
  <2>2. UNCHANGED <<termPc, operation_counter, sentTo>>
    BY <1>2 DEF message, term
  <2>3. CASE printed' = printed
    BY <1>1, <2>2, <2>3
  <2>4. CASE printed' # printed
    <3>1. /\ toServer[e] \in Seq(Tokens) /\ toServer[e] # <<>> /\ Head(toServer[e]).type = "RESULT"
          /\ printed' = printed \cup {Head(toServer[e]).operation}
      BY <1>2, <2>1, <2>4 DEF message, Types
    <3>2. Head(toServer[e]) \in OrderTokens /\ In(toServer[e], Head(toServer[e]))
      BY <3>1, InTail DEF OrderTokens
    <3>3. PICK n \in 0..MaxOrders : Head(toServer[e]) = Result(n) /\ Head(toServer[e]).operation = n
      BY <3>1, <3>2, OrderTokensAre
    <3>4. Answered(e, n)
      BY <3>2, <3>3 DEF Answered
    <3>5. n # 0
      BY <3>4 DEF OrderInv
    <3>6. n \in 1..MaxOrders
      BY <3>5, MaxAssumption
    <3>7. sentTo[n] # "nobody"
      BY <3>4, <3>6, NobodyAssumption DEF OrderInv
    <3> QED BY <2>2, <3>1, <3>3, <3>6, <3>7 DEF CounterInv
  <2> QED BY <2>3, <2>4
<1>3. CASE TermOrder
  BY <1>3 DEF TermOrder, TermGoes, CounterInv, Types, history
<1>4. CASE TermWriteOperation
  <2>1. /\ termPc = "operation_t" /\ termPc' = "unlock" /\ UNCHANGED <<operation_counter, printed>>
        /\ sentTo' = [sentTo EXCEPT ![operation_counter] = clients[termAt].fd]
    BY <1>4 DEF TermWriteOperation, TermGoes
  <2>2. clients[termAt].fd \in Procs
    <3>1. termAt \in DOMAIN clients
      BY <2>1 DEF AgreeInv, Holders
    <3> QED BY <3>1, EntryAt
  <2>3. \A m \in 1..MaxOrders :
          sentTo'[m] = IF m = operation_counter THEN clients[termAt].fd ELSE sentTo[m]
    BY <2>1 DEF Types
  <2> QED BY <2>1, <2>2, <2>3, NobodyAssumption DEF CounterInv, Types
<1>5. CASE TermLock \/ TermNobody \/ TermChoose \/ TermWriteType \/ TermUnlock
  <2>1. UNCHANGED <<operation_counter, sentTo, printed>>
    BY <1>5 DEF TermLock, TermNobody, TermChoose, TermWriteType, TermUnlock, history
  <2>2. termPc' \notin {"fgets", "unlock"} => termPc \notin {"fgets", "unlock"}
    BY <1>5 DEF TermLock, TermNobody, TermChoose, TermWriteType, TermUnlock, TermGoes
  <2>3. termPc' \in {"fgets", "unlock"} \/ termPc \notin {"fgets", "unlock"}
    BY <2>2
  <2> QED BY <2>1, <2>3 DEF CounterInv
<1>6. CASE UNCHANGED vars
  BY <1>1, <1>6 DEF vars, threads, term, history
<1>7. CASE Main /\ ~message
  BY <1>1, <1>7 DEF Main, connectFun, epoll_wait, MainLock, loginClient, logoutClient, pong,
                    term, history
<1>8. CASE Ping
  BY <1>1, <1>8 DEF Ping, PingLock, PingRemoves, PingWrites, PingUnlock, term, history
<1>9. ASSUME NEW c \in Procs, Client(c) PROVE CounterInv'
  BY <1>1, <1>9, OnlyClient DEF server, threads, term
<1> QED BY <1>2, <1>3, <1>4, <1>5, <1>6, <1>7, <1>8, <1>9 DEF Next, Terminal

LEMMA StepOrders ==
  ASSUME Types, AgreeInv, \A c \in Procs : TalkInv(c), CounterInv, \A c \in Procs : OrderInv(c),
         [Next]_vars
  PROVE  \A c \in Procs : OrderInv(c)'
<1> SUFFICES ASSUME NEW d \in Procs PROVE OrderInv(d)'
  OBVIOUS
<1>1. CASE UNCHANGED vars
  <2>1. UNCHANGED <<toClient, toServer, order, pc, sentTo, printed>>
    BY <1>1 DEF vars, procs, history
  <2> QED BY <2>1, QuietOrders
<1> QED BY <1>1, MainOrders, PingOrders, TermOrders, ClientOrders DEF Next

LEMMA InitOrders == Init => CounterInv /\ \A c \in Procs : OrderInv(c)
<1> SUFFICES ASSUME Init PROVE CounterInv /\ \A c \in Procs : OrderInv(c)
  OBVIOUS
<1>1. CounterInv
  BY DEF Init, CounterInv
<1>2. ASSUME NEW c \in Procs PROVE OrderInv(c)
  <2>1. toClient[c] = <<>> /\ toServer[c] = <<>> /\ order[c] = 0 /\ pc[c] = "init"
    BY DEF Init
  <2>2. DOMAIN <<>> = {}
    BY EmptySeq
  <2> QED BY <2>1, <2>2 DEF OrderInv, Asked, Answered, In, Once
<1> QED BY <1>1, <1>2

-----------------------------------------------------------------------------
AllInv ==
  /\ Types /\ AgreeInv /\ (\A c \in Procs : TalkInv(c)) /\ PingInv
  /\ CounterInv /\ (\A c \in Procs : OrderInv(c))

LEMMA Invariant == Spec => []AllInv
<1>1. Init => AllInv
  BY InitTypes, InitAgrees, InitTalks, InitPings, InitOrders DEF AllInv
<1>2. AllInv /\ [Next]_vars => AllInv'
  <2> SUFFICES ASSUME AllInv, [Next]_vars PROVE AllInv'
    OBVIOUS
  <2>1. /\ Types /\ AgreeInv /\ (\A c \in Procs : TalkInv(c)) /\ PingInv
        /\ CounterInv /\ (\A c \in Procs : OrderInv(c))
    BY DEF AllInv
  <2>2. Types' /\ AgreeInv'
    BY <2>1, StepTypes, StepAgrees
  <2>3. \A c \in Procs : TalkInv(c)'
    BY <2>1, StepTalks
  <2>4. PingInv'
    BY <2>1, <2>2, StepPings
  <2>5. CounterInv'
    BY <2>1, StepCounts
  <2>6. \A c \in Procs : OrderInv(c)'
    BY <2>1, StepOrders
  <2> QED BY <2>2, <2>3, <2>4, <2>5, <2>6 DEF AllInv
<1> QED BY <1>1, <1>2, PTL DEF Spec

LEMMA TypesHold == AllInv => TypeOK
<1> SUFFICES ASSUME AllInv PROVE TypeOK
  OBVIOUS
<1> USE DEF AllInv
<1>1. clients \in BoundedSeq([fd : Procs, name : Names, is_inactive : 0..1], CLIENT_MAX)
  <2> DEFINE Known == [fd : Procs, name : Names, is_inactive : 0..1]
             n == Len(clients)
  <2>1. \A i \in DOMAIN clients : clients[i] \in Known
    <3> SUFFICES ASSUME NEW i \in DOMAIN clients PROVE clients[i] \in Known
      OBVIOUS
    <3>1. clients[i] \in Entry /\ clients[i].fd \in Procs
      BY EntryAt
    <3>2. PICK c \in Procs : c = clients[i].fd
      BY <3>1
    <3>3. clients[i].is_inactive \in 0..1
      BY <3>2 DEF PingInv
    <3> QED BY <3>1, <3>3 DEF Entry
  <2>2. n \in 0..CLIENT_MAX /\ clients \in [1..n -> Known]
    <3>1. clients \in Seq(Entry) /\ n \in Nat /\ n <= CLIENT_MAX
      BY DEF Types
    <3>2. clients = [i \in 1..n |-> clients[i]] /\ DOMAIN clients = 1..n
      BY <3>1
    <3> HIDE DEF n, Known
    <3> QED BY <2>1, <3>1, <3>2, MaxAssumption
  <2> HIDE DEF n, Known
  <2>3. clients \in BoundedSeq(Known, CLIENT_MAX)
    BY <2>2 DEF BoundedSeq, SeqOf
  <2> QED BY <2>3 DEF Known
<1>2. \A c \in Procs : Range(toServer[c]) \cup Range(toClient[c]) \subseteq Tokens
  <2> SUFFICES ASSUME NEW c \in Procs
               PROVE  Range(toServer[c]) \cup Range(toClient[c]) \subseteq Tokens
    OBVIOUS
  <2>1. toServer[c] \in Seq(Tokens) /\ toClient[c] \in Seq(Tokens)
    BY DEF Types
  <2> QED BY <2>1 DEF Range
<1>3. printed \subseteq 1..MaxOrders
  BY DEF CounterInv
<1>4. pc \in [Procs -> {"init", "login", "response", "read", "pong", "calc", "result",
                        "exit", "gone"}]
  BY DEF Types, Awake, InLoop
<1> QED BY <1>1, <1>2, <1>3, <1>4 DEF Types, TypeOK

\* The list of clients is what the clients believe: no name and no socket is
\* in it twice, its sockets are open, a process that has been told SUCCESS on a
\* connection that is still open is in it, and nobody is in it who runs on
\* without having been told (loginClient, logoutClient, remove_client).
THEOREM ListIsBelieved == Spec => []SessionsAgree
<1>1. AllInv => SessionsAgree
  <2> SUFFICES ASSUME AllInv PROVE SessionsAgree
    OBVIOUS
  <2> USE DEF AllInv
  <2>1. TypeOK
    BY TypesHold
  <2>2. ASSUME NEW c \in Procs, sock[c] = "open", Told(c)
        PROVE  c \in Registered
    <3>1. StreamInv(c) /\ ConnInv(c)
      BY DEF AgreeInv
    <3>2. c \in sentLogin
      BY <2>2, <3>1 DEF ConnInv, Told, Has, Awake
    <3>3. ~Pending(c)
      BY <2>2, <3>1 DEF ConnInv, Told, Has
    <3> QED BY <2>2, <3>1, <3>2, <3>3 DEF ConnInv
  <2>3. ASSUME NEW c \in Procs, c \in Registered, pc[c] \notin {"exit", "gone"}
        PROVE  Told(c)
    <3>1. ConnInv(c) /\ TalkInv(c) /\ c \in sentLogin
      BY <2>3 DEF AgreeInv, ListInv, Registered
    <3>2. pc[c] \in Awake
      BY <2>3, <3>1 DEF ConnInv, Types
    <3>3. CASE pc[c] = "response"
      <4>1. toClient[c] # <<>> /\ toClient[c][1].type = "SUCCESS"
        BY <2>3, <3>1, <3>2, <3>3 DEF TalkInv
      <4>2. 1 \in DOMAIN toClient[c]
        BY <4>1, TailAt DEF Types
      <4> QED BY <4>1, <4>2 DEF Told, Has
    <3> QED BY <3>2, <3>3 DEF Told, Awake
  <2> QED BY <2>1, <2>2, <2>3 DEF SessionsAgree, AgreeInv, ListInv
<1> QED BY <1>1, Invariant, PTL

\* Whatever three threads of the server write to its socket, a client reads an
\* answer to its LOGIN first, PING and REQUEST after that, and behind REQUEST
\* its operation_t (client.c: main, calc).
THEOREM ClientsReadSense == Spec => []ClientsUnderstand
<1>1. AllInv => ClientsUnderstand
  <2> SUFFICES ASSUME AllInv, NEW c \in Procs, toClient[c] # <<>>, pc[c] \in {"response", "read", "calc"}
               PROVE  LET type == Head(toClient[c]).type
                      IN CASE pc[c] = "response" -> type \in {"SUCCESS", "WRONG_NAME", "WRONG_SIZE"}
                           [] pc[c] = "read" -> type \in {"PING", "REQUEST"}
                           [] pc[c] = "calc" -> type = "operation_t"
                           [] OTHER -> TRUE
    BY DEF ClientsUnderstand
  <2>1. 1 \in DOMAIN toClient[c] /\ Head(toClient[c]) = toClient[c][1]
    <3>1. toClient[c] \in Seq(Tokens)
      BY DEF AllInv, Types
    <3> QED BY <3>1, TailAt
  <2>2. TalkInv(c) /\ pc[c] \in Awake
    BY DEF AllInv, Awake, InLoop
  <2>3. LET type == toClient[c][1].type
        IN /\ type = "operation_t" <=> pc[c] = "calc"
           /\ type \in Answers <=> pc[c] = "response"
           /\ type \in Answers \cup {"PING", "REQUEST", "operation_t"}
    BY <2>1, <2>2 DEF TalkInv, Expects
  <2> QED BY <2>1, <2>3 DEF Answers
<1> QED BY <1>1, Invariant, PTL

\* is_inactive is the number of pings a client has left unanswered, never
\* more than one, and a round of ping_procedure passes over nobody.
THEOREM PingsAreCounted == Spec => []InactiveCountsPings
<1>1. AllInv => InactiveCountsPings
  <2> SUFFICES ASSUME AllInv, NEW i \in DOMAIN clients
               PROVE  /\ pingPc = "for" /\ i < pingAt => clients[i].is_inactive # 0
                      /\ LET c == clients[i].fd
                         IN IF pc[c] \in InLoop \cup {"response"}
                            THEN clients[i].is_inactive = Unanswered(c)
                            ELSE clients[i].is_inactive >= Unanswered(c)
    BY DEF InactiveCountsPings
  <2>1. clients[i].fd \in Procs
    BY EntryAt DEF AllInv
  <2> QED BY <2>1 DEF AllInv, PingInv, Awake
<1> QED BY <1>1, Invariant, PTL

\* An order is at one place at most, and that is the connection of the client
\* it was sent to: on its way there, in calc, on its way back, or printed.
THEOREM OrdersAreInOnePlace == Spec => []OrdersAnsweredOnce
<1>1. AllInv => OrdersAnsweredOnce
  <2> SUFFICES ASSUME AllInv, NEW n \in 1..MaxOrders
               PROVE  /\ Cardinality(Places(n)) <= 1
                      /\ \A place \in Places(n) : place[2] = sentTo[n]
    BY DEF OrdersAnsweredOnce
  <2>1. \A c \in Procs : OrderInv(c)
    BY DEF AllInv
  <2>2. \A c \in Procs : /\ Operation(n) \in Range(toClient[c]) <=> Asked(c, n)
                         /\ Result(n) \in Range(toServer[c]) <=> Answered(c, n)
    BY DEF Range, Asked, Answered, In
  <2>3. ASSUME NEW place \in Places(n)
        PROVE  \/ place = <<"asked", sentTo[n]>> /\ Asked(sentTo[n], n) /\ sentTo[n] \in Procs
               \/ place = <<"calc", sentTo[n]>> /\ order[sentTo[n]] = n /\ sentTo[n] \in Procs
               \/ place = <<"answered", sentTo[n]>> /\ Answered(sentTo[n], n) /\ sentTo[n] \in Procs
               \/ place = <<"printed", sentTo[n]>> /\ n \in printed
    BY <2>1, <2>2 DEF Places, OrderInv
  <2>4. ASSUME NEW p \in Places(n), NEW q \in Places(n) PROVE p = q
    BY <2>1, <2>3 DEF OrderInv
  <2>5. Cardinality(Places(n)) <= 1
    <3>1. CASE Places(n) = {}
      BY <3>1, FS_EmptySet
    <3>2. ASSUME NEW p \in Places(n) PROVE Cardinality(Places(n)) <= 1
      <4>1. Places(n) = {p}
        BY <2>4
      <4> QED BY <4>1, FS_Singleton
    <3> QED BY <3>1, <3>2
  <2> QED BY <2>3, <2>5
<1> QED BY <1>1, Invariant, PTL

\* Nobody is taken off the list but for a ping it has missed or a LOGOUT on
\* its own connection, or by that of a process of its name that never sent
\* LOGIN (ping_procedure, logoutClient, funAtExit).
THEOREM NobodyLeavesUncaused == Spec => LeavesForCause
<1> DEFINE Step == \A i \in DOMAIN clients :
       clients[i].fd \notin {clients'[j].fd : j \in DOMAIN clients'} =>
         \/ pingPc = "for" /\ i = pingAt /\ clients[i].is_inactive # 0
         \/ InHand("LOGOUT") /\ event = clients[i].fd
         \/ InHand("LOGOUT") /\ event \notin sentLogin /\ pc[event] = "gone"
<1>1. AllInv /\ [Next]_vars => [Step]_vars
  BY StepLeaves DEF AllInv, Registered
<1> QED BY <1>1, Invariant, PTL DEF Spec, LeavesForCause
=============================================================================
