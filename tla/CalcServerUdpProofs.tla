------------------------ MODULE CalcServerUdpProofs ------------------------
(***************************************************************************)
(* The calculator server over datagram sockets keeps a sound list whatever *)
(* the network does to its datagrams, an order is answered by the client   *)
(* it was sent to, and local clients understand what they read and are not *)
(* dropped without cause, for any number of processes, names and orders.   *)
(***************************************************************************)
EXTENDS CalcServerUdp, FiniteSetTheorems, SequenceTheorems, TLAPS

(* Numbers. *)
\* A set of numbers that is not empty has a least one: the sets 0..x are
\* well-founded by inclusion.
LEMMA LeastNumber ==
  ASSUME NEW T, T \subseteq Nat, T # {}
  PROVE  \E x \in T : \A y \in T : x <= y
<1> DEFINE F == {0..x : x \in T}
<1>1. F \subseteq FiniteSubsetsOf(Nat) /\ F # {}
  <2>1. \A x \in T : IsFiniteSet(0..x)
    BY FS_Interval
  <2>2. \A x \in T : 0..x \in SUBSET Nat
    OBVIOUS
  <2> QED BY <2>1, <2>2 DEF FiniteSubsetsOf
<1>2. IsWellFoundedOn(StrictSubsetOrdering(Nat), FiniteSubsetsOf(Nat))
  BY FS_StrictSubsetOrderingWellFounded
<1>3. PICK X \in F : \A Y \in F : <<Y, X>> \notin StrictSubsetOrdering(Nat)
  <2> HIDE DEF F
  <2> QED BY <1>1, <1>2, WFMin
<1>4. PICK x \in T : X = 0..x
  OBVIOUS
<1>5. ASSUME NEW y \in T PROVE x <= y
  <2> SUFFICES ASSUME y < x PROVE FALSE
    OBVIOUS
  <2>1. 0..y \in SUBSET Nat /\ 0..x \in SUBSET Nat
    OBVIOUS
  <2>2. 0..y \subseteq 0..x /\ x \in 0..x /\ x \notin 0..y
    OBVIOUS
  <2>3. <<0..y, 0..x>> \in StrictSubsetOrdering(Nat)
    <3> DEFINE A == 0..y
               B == 0..x
    <3>1. A # B
      BY <2>2
    <3> HIDE DEF A, B
    <3> QED BY <2>1, <2>2, <3>1 DEF A, B, StrictSubsetOrdering
  <2> QED BY <1>3, <1>4, <2>3
<1> QED BY <1>5

-----------------------------------------------------------------------------
Entry == [addr : Procs, name : Names, is_inactive : 0..255]
Kinds == {"LOCAL", "WEB"}
ClientPcs == {"login", "response", "read", "pong", "calc", "result", "exit", "gone"}

\* Who holds the mutex, and what stays in its place meanwhile.
Holders ==
  /\ pingAt # 0 <=> clients_mutex = "ping"
  /\ pingAt <= Len(clients) + 1
  /\ termPc = "operation_t" => clients_mutex = "terminal" /\ termAt \in DOMAIN clients

Types ==
  /\ clients \in Seq(Entry) /\ Len(clients) <= CLIENT_MAX
  /\ clients_mutex \in {"nobody", "ping", "terminal"}
  /\ operation_counter \in Orders
  /\ socket \in [Kinds -> Seq(Datagrams)]
  /\ inbox \in [Procs -> Seq(Datagrams)]
  /\ msg \in Datagrams \cup {Nothing}
  /\ pingAt \in Nat
  /\ termPc \in {"fgets", "lock", "operation_t"} /\ termAt \in 1..CLIENT_MAX
  /\ up \in BOOLEAN /\ repeats \in 0..MaxRepeats
  /\ name \in [Procs -> Names]
  /\ pc \in [Procs -> ClientPcs]
  /\ order \in [Procs -> Orders]
  /\ DOMAIN sentTo \subseteq Orders /\ \A n \in DOMAIN sentTo : sentTo[n] \in Procs
  /\ Holders

ListInv ==
  /\ \A i, j \in DOMAIN clients : i # j => clients[i].name # clients[j].name
  /\ \A i \in DOMAIN clients : clients[i].name = name[clients[i].addr]

-----------------------------------------------------------------------------
(* The constants and the datagrams. *)
LEMMA Sizes ==
  /\ CLIENT_MAX \in Nat /\ CLIENT_MAX > 0 /\ Local \subseteq Procs
  /\ Earlier \in Nat /\ MaxOrders \in Nat /\ MaxRepeats \in Nat
  /\ Orders = 0..(Earlier + MaxOrders) /\ 0 \in Orders
BY ClientsAssumption, BoundsAssumption DEF Orders

LEMMA KnownTypes ==
  {"LOGIN", "LOGOUT", "SUCCESS", "WRONG_SIZE", "WRONG_NAME", "REQUEST", "RESULT", "PING",
   "PONG", "operation_t"} \subseteq Range(MessageTypes) \cup {"operation_t"}
<1>1. /\ DOMAIN MessageTypes = 1..9
      /\ MessageTypes[1] = "LOGIN" /\ MessageTypes[2] = "LOGOUT"
      /\ MessageTypes[3] = "SUCCESS" /\ MessageTypes[4] = "WRONG_SIZE"
      /\ MessageTypes[5] = "WRONG_NAME" /\ MessageTypes[6] = "REQUEST"
      /\ MessageTypes[7] = "RESULT" /\ MessageTypes[8] = "PING"
      /\ MessageTypes[9] = "PONG"
  BY DEF MessageTypes
<1> QED BY <1>1 DEF Range

LEMMA DatagramType ==
  ASSUME NEW type \in Range(MessageTypes) \cup {"operation_t"}, NEW c \in Procs,
         NEW n \in Orders
  PROVE  /\ Datagram(type, c, n) \in Datagrams
         /\ Datagram(type, c, n).type = type /\ Datagram(type, c, n).addr = c
         /\ Datagram(type, c, n).operation = n
BY DEF Datagram, Datagrams

LEMMA DatagramFields ==
  ASSUME NEW d \in Datagrams
  PROVE  d.addr \in Procs /\ d.operation \in Orders
         /\ d.type \in Range(MessageTypes) \cup {"operation_t"}
BY DEF Datagrams

LEMMA NothingType == Nothing.type = "nothing"
BY DEF Nothing

LEMMA KindOf ==
  ASSUME NEW c
  PROVE  Kind(c) \in Kinds /\ (c \in Local <=> Kind(c) = "LOCAL")
BY DEF Kind, Kinds

\* What is left of a sequence when the element at i is removed.
LEMMA RemoveAtIs ==
  ASSUME NEW S, NEW s \in Seq(S), NEW i \in DOMAIN s
  PROVE  /\ RemoveAt(s, i) \in Seq(S) /\ Len(RemoveAt(s, i)) = Len(s) - 1
         /\ \A j \in 1..(Len(s) - 1) : RemoveAt(s, i)[j] = IF j < i THEN s[j] ELSE s[j+1]
<1>1. i \in 1..Len(s) /\ Len(s) \in Nat
  OBVIOUS
<1>2. /\ SubSeq(s, 1, i-1) \in Seq(S) /\ Len(SubSeq(s, 1, i-1)) = i - 1
      /\ \A j \in 1..(i-1) : SubSeq(s, 1, i-1)[j] = s[j]
  BY <1>1
<1>3. /\ SubSeq(s, i+1, Len(s)) \in Seq(S) /\ Len(SubSeq(s, i+1, Len(s))) = Len(s) - i
      /\ \A j \in 1..(Len(s)-i) : SubSeq(s, i+1, Len(s))[j] = s[i+j]
  BY <1>1
<1>4. RemoveAt(s, i) = SubSeq(s, 1, i-1) \o SubSeq(s, i+1, Len(s))
  BY DEF RemoveAt
<1>5. ASSUME NEW u \in Seq(S), NEW v \in Seq(S), Len(u) = i - 1, Len(v) = Len(s) - i,
             \A j \in 1..(i-1) : u[j] = s[j], \A j \in 1..(Len(s)-i) : v[j] = s[i+j]
      PROVE  /\ u \o v \in Seq(S) /\ Len(u \o v) = Len(s) - 1
             /\ \A j \in 1..(Len(s) - 1) : (u \o v)[j] = IF j < i THEN s[j] ELSE s[j+1]
  <2>1. u \o v \in Seq(S) /\ Len(u \o v) = Len(s) - 1
    BY <1>1, <1>5, SMT
  <2>2. ASSUME NEW j \in 1..(Len(s) - 1)
        PROVE  (u \o v)[j] = IF j < i THEN s[j] ELSE s[j+1]
    <3>1. CASE j < i
      BY <1>1, <1>5, <3>1, SMT
    <3>2. CASE ~(j < i)
      <4>1. (u \o v)[j] = v[j - (i - 1)]
        BY <1>1, <1>5, <3>2, SMTT(30)
      <4>2. j - (i - 1) \in 1..(Len(s)-i) /\ i + (j - (i - 1)) = j + 1
        BY <1>1, <3>2, SMT
      <4>3. v[j - (i - 1)] = s[i + (j - (i - 1))]
        BY <1>5, <4>2, Zenon
      <4> QED BY <3>2, <4>1, <4>2, <4>3
    <3> QED BY <3>1, <3>2
  <2> QED BY <2>1, <2>2
<1> DEFINE u == SubSeq(s, 1, i-1)
           v == SubSeq(s, i+1, Len(s))
<1>6. /\ u \in Seq(S) /\ Len(u) = i - 1 /\ \A j \in 1..(i-1) : u[j] = s[j]
      /\ v \in Seq(S) /\ Len(v) = Len(s) - i /\ \A j \in 1..(Len(s)-i) : v[j] = s[i+j]
      /\ RemoveAt(s, i) = u \o v
  BY <1>2, <1>3, <1>4
<1> HIDE DEF u, v
<1> QED BY <1>5, <1>6

LEMMA RemovedFrom ==
  ASSUME NEW S, NEW s \in Seq(S), NEW i \in DOMAIN s, NEW r, r = RemoveAt(s, i)
  PROVE  /\ r \in Seq(S) /\ Len(r) = Len(s) - 1 /\ Len(s) \in Nat /\ i \in Nat
         /\ i > 0 /\ i <= Len(s)
         /\ \A j \in DOMAIN r :
              /\ j \in Nat
              /\ j < i => j \in DOMAIN s /\ r[j] = s[j]
              /\ j >= i => j + 1 \in DOMAIN s /\ r[j] = s[j + 1]
<1>1. i \in 1..Len(s) /\ Len(s) \in Nat /\ DOMAIN s = 1..Len(s)
  OBVIOUS
<1>2. /\ r \in Seq(S) /\ Len(r) = Len(s) - 1
      /\ \A j \in 1..(Len(s) - 1) : r[j] = IF j < i THEN s[j] ELSE s[j+1]
  BY RemoveAtIs, Zenon
<1>3. DOMAIN r = 1..(Len(s) - 1)
  BY <1>1, <1>2
<1> QED BY <1>1, <1>2, <1>3

\* Each place of what is left is a place of what there was, and two are two.
LEMMA RemovedPlaces ==
  ASSUME NEW S, NEW s \in Seq(S), NEW i \in DOMAIN s, NEW r, r = RemoveAt(s, i)
  PROVE  /\ \A j \in DOMAIN r : \E k \in DOMAIN s : k # i /\ r[j] = s[k]
         /\ \A j1, j2 \in DOMAIN r : j1 # j2 =>
              \E k1, k2 \in DOMAIN s : k1 # k2 /\ r[j1] = s[k1] /\ r[j2] = s[k2]
<1>1. /\ r \in Seq(S) /\ Len(r) = Len(s) - 1 /\ Len(s) \in Nat /\ i \in Nat
      /\ i > 0 /\ i <= Len(s)
      /\ \A j \in DOMAIN r :
           /\ j \in Nat
           /\ j < i => j \in DOMAIN s /\ r[j] = s[j]
           /\ j >= i => j + 1 \in DOMAIN s /\ r[j] = s[j + 1]
  BY RemovedFrom
<1>2. i \in Nat
  OBVIOUS
<1> DEFINE k(j) == IF j < i THEN j ELSE j + 1
<1>3. \A j \in DOMAIN r : k(j) \in DOMAIN s /\ r[j] = s[k(j)] /\ k(j) # i
  BY <1>1, <1>2
<1>4. \A j1, j2 \in DOMAIN r : j1 # j2 => k(j1) # k(j2)
  BY <1>1, <1>2
<1> HIDE DEF k
<1> QED BY <1>3, <1>4

-----------------------------------------------------------------------------
(* What sending, delivering and taking do to the sequences. *)
LEMMA DeliverDoes ==
  ASSUME Types, NEW c \in Procs, NEW d \in Datagrams, Deliver(c, d)
  PROVE  /\ inbox' \in [Procs -> Seq(Datagrams)]
         /\ \A e \in Procs : e # c => inbox'[e] = inbox[e]
         /\ pc[c] = "gone" => inbox'[c] = inbox[c]
         /\ pc[c] # "gone" => inbox'[c] = Append(inbox[c], d)
<1>1. inbox \in [Procs -> Seq(Datagrams)] /\ inbox[c] \in Seq(Datagrams)
  BY DEF Types
<1>2. Append(inbox[c], d) \in Seq(Datagrams)
  BY <1>1
<1> QED BY <1>1, <1>2 DEF Deliver

LEMMA SendDoes ==
  ASSUME Types, NEW c \in Procs, NEW type \in Range(MessageTypes) \cup {"operation_t"},
         NEW n \in Orders, Send(c, type, n)
  PROVE  /\ socket' \in [Kinds -> Seq(Datagrams)]
         /\ \A k \in Kinds : k # Kind(c) => socket'[k] = socket[k]
         /\ socket'[Kind(c)] = Append(socket[Kind(c)], Datagram(type, c, n))
         /\ repeats' = repeats
<1>1. socket \in [Kinds -> Seq(Datagrams)] /\ socket[Kind(c)] \in Seq(Datagrams)
  BY KindOf DEF Types
<1>2. PICK d \in Datagrams : d = Datagram(type, c, n)
  BY DatagramType
<1>3. Append(socket[Kind(c)], d) \in Seq(Datagrams)
  BY <1>1
<1>4. socket' = [socket EXCEPT ![Kind(c)] = Append(@, d)] /\ repeats' = repeats
  BY <1>2 DEF Send
<1> QED BY <1>1, <1>2, <1>3, <1>4, KindOf

\* What is left of a queue when a datagram of it has been read.
LEMMA ReadDoes ==
  ASSUME NEW kind \in Kinds, NEW q \in Seq(Datagrams), NEW i \in Arriving(kind, q),
         NEW rest, Read(kind, q, rest, i), repeats \in 0..MaxRepeats
  PROVE  /\ i \in DOMAIN q /\ rest \in Seq(Datagrams) /\ repeats' \in 0..MaxRepeats
         /\ rest = q \/ rest = RemoveAt(q, i)
         /\ kind = "LOCAL" => i = 1 /\ rest = RemoveAt(q, 1)
         /\ \A j \in DOMAIN rest : \E k \in DOMAIN q : rest[j] = q[k]
<1>1. i \in DOMAIN q /\ (kind = "LOCAL" => i = 1)
  BY DEF Arriving
<1>2. rest = q \/ rest = RemoveAt(q, i)
  BY DEF Read
<1>3. CASE rest = q
  BY <1>1, <1>3, Sizes DEF Read
<1>4. CASE rest = RemoveAt(q, i)
  <2>1. rest \in Seq(Datagrams)
    BY <1>1, <1>4, RemovedFrom, Zenon
  <2>2. /\ \A j \in DOMAIN rest : \E k \in DOMAIN q : k # i /\ rest[j] = q[k]
        /\ \A j1, j2 \in DOMAIN rest : j1 # j2 =>
             \E k1, k2 \in DOMAIN q : k1 # k2 /\ rest[j1] = q[k1] /\ rest[j2] = q[k2]
    BY <1>1, <1>4, RemovedPlaces
  <2>3. repeats' \in 0..MaxRepeats
    BY Sizes DEF Read
  <2> QED BY <1>1, <1>4, <2>1, <2>2, <2>3 DEF Read
<1> QED BY <1>2, <1>3, <1>4

LEMMA TakesDoes ==
  ASSUME Types, NEW c \in Procs, NEW i \in Arriving(Kind(c), inbox[c]), Takes(c, i)
  PROVE  /\ inbox' \in [Procs -> Seq(Datagrams)] /\ socket' = socket
         /\ i \in DOMAIN inbox[c] /\ inbox[c][i] \in Datagrams /\ repeats' \in 0..MaxRepeats
         /\ \A e \in Procs : e # c => inbox'[e] = inbox[e]
         /\ c \in Local => i = 1 /\ inbox'[c] = RemoveAt(inbox[c], 1)
         /\ \A j \in DOMAIN inbox'[c] : \E k \in DOMAIN inbox[c] : inbox'[c][j] = inbox[c][k]
<1>1. PICK rest : Read(Kind(c), inbox[c], rest, i) /\ inbox' = [inbox EXCEPT ![c] = rest]
  BY DEF Takes
<1>2. inbox \in [Procs -> Seq(Datagrams)] /\ repeats \in 0..MaxRepeats /\ Kind(c) \in Kinds
  BY KindOf DEF Types
<1>3. PICK q \in Seq(Datagrams) : q = inbox[c]
  BY <1>2
<1>4. PICK kind \in Kinds : kind = Kind(c)
  BY <1>2
<1>5. Read(kind, q, rest, i) /\ i \in Arriving(kind, q)
  BY <1>1, <1>3, <1>4
<1>6. /\ i \in DOMAIN q /\ rest \in Seq(Datagrams) /\ repeats' \in 0..MaxRepeats
      /\ rest = q \/ rest = RemoveAt(q, i)
      /\ kind = "LOCAL" => i = 1 /\ rest = RemoveAt(q, 1)
      /\ \A j \in DOMAIN rest : \E k \in DOMAIN q : rest[j] = q[k]
  BY <1>2, <1>5, ReadDoes
<1>7. inbox' \in [Procs -> Seq(Datagrams)] /\ inbox'[c] = rest
      /\ \A e \in Procs : e # c => inbox'[e] = inbox[e]
  BY <1>1, <1>2, <1>6
<1>8. q[i] \in Datagrams /\ socket' = socket
  BY <1>6 DEF Takes
<1> QED BY <1>3, <1>4, <1>6, <1>7, <1>8, KindOf

-----------------------------------------------------------------------------
(* The list. *)
LEMMA NameFound ==
  ASSUME clients \in Seq(Entry), NEW n
  PROVE  \/ check_name(n) = 0 /\ \A i \in DOMAIN clients : clients[i].name # n
         \/ check_name(n) \in DOMAIN clients /\ clients[check_name(n)].name = n
<1> DEFINE I == {i \in 1..Len(clients) : clients[i].name = n}
<1>1. check_name(n) = IF I # {} THEN Min(I) ELSE 0
  BY DEF check_name, SelectInSeq
<1>2. I # {} => Min(I) \in I
  <2>1. I \subseteq Nat
    OBVIOUS
  <2> HIDE DEF I
  <2> QED BY <2>1, LeastNumber DEF Min
<1> QED BY <1>1, <1>2

\* The entry of a client with another count of unanswered pings.
LEMMA EntryChanges ==
  ASSUME clients \in Seq(Entry), NEW i \in DOMAIN clients, NEW x \in 0..255,
         clients' = [clients EXCEPT ![i].is_inactive = x]
  PROVE  /\ clients' \in Seq(Entry) /\ Len(clients') = Len(clients)
         /\ DOMAIN clients' = DOMAIN clients
         /\ \A j \in DOMAIN clients :
              /\ clients'[j].addr = clients[j].addr /\ clients'[j].name = clients[j].name
              /\ clients'[j].is_inactive = IF j = i THEN x ELSE clients[j].is_inactive
<1> DEFINE e == [clients[i] EXCEPT !.is_inactive = x]
<1>1. clients[i] \in Entry
  OBVIOUS
<1>2. e \in Entry /\ e.addr = clients[i].addr /\ e.name = clients[i].name /\ e.is_inactive = x
  BY <1>1 DEF Entry
<1>3. clients' = [clients EXCEPT ![i] = e]
  OBVIOUS
<1> HIDE DEF e
<1> QED BY <1>2, <1>3

\* What becomes of the list: it loses a place, gains one behind the others, or
\* keeps its addresses and names.
SameList ==
  /\ DOMAIN clients' = DOMAIN clients
  /\ \A j \in DOMAIN clients :
       clients'[j].addr = clients[j].addr /\ clients'[j].name = clients[j].name

LEMMA ListKept ==
  ASSUME ListInv, SameList, name' = name
  PROVE  ListInv'
BY DEF ListInv, SameList

LEMMA ListShrinks ==
  ASSUME Types, ListInv, NEW i \in DOMAIN clients, clients' = RemoveAt(clients, i), name' = name
  PROVE  /\ ListInv' /\ clients' \in Seq(Entry) /\ Len(clients') = Len(clients) - 1
         /\ \A j \in DOMAIN clients' :
              \E k \in DOMAIN clients : k # i /\ clients'[j] = clients[k]
<1>1. clients \in Seq(Entry) /\ Len(clients) \in Nat
  BY DEF Types
<1>2. PICK s \in Seq(Entry) : s = clients
  BY <1>1
<1>3. PICK r : r = RemoveAt(s, i)
  OBVIOUS
<1>4. i \in DOMAIN s /\ clients' = r
  BY <1>2, <1>3
<1>5. r \in Seq(Entry) /\ Len(r) = Len(s) - 1
  BY <1>3, <1>4, RemovedFrom
<1>6. /\ \A j \in DOMAIN r : \E k \in DOMAIN s : k # i /\ r[j] = s[k]
      /\ \A j1, j2 \in DOMAIN r : j1 # j2 =>
           \E k1, k2 \in DOMAIN s : k1 # k2 /\ r[j1] = s[k1] /\ r[j2] = s[k2]
  BY <1>3, <1>4, RemovedPlaces
<1>7. ListInv'
  BY <1>2, <1>4, <1>6 DEF ListInv
<1> QED BY <1>2, <1>4, <1>5, <1>6, <1>7

LEMMA ListGrows ==
  ASSUME Types, ListInv, NEW e \in Entry, clients' = Append(clients, e), name' = name,
         e.name = name[e.addr], \A i \in DOMAIN clients : clients[i].name # e.name
  PROVE  /\ ListInv' /\ clients' \in Seq(Entry) /\ Len(clients') = Len(clients) + 1
         /\ clients'[Len(clients) + 1] = e
         /\ DOMAIN clients' = DOMAIN clients \cup {Len(clients) + 1}
         /\ Len(clients) + 1 \notin DOMAIN clients
         /\ \A j \in DOMAIN clients : clients'[j] = clients[j]
<1>1. clients \in Seq(Entry)
  BY DEF Types
<1>2. /\ clients' \in Seq(Entry) /\ Len(clients') = Len(clients) + 1
      /\ clients'[Len(clients) + 1] = e
      /\ DOMAIN clients' = DOMAIN clients \cup {Len(clients) + 1}
      /\ Len(clients) + 1 \notin DOMAIN clients
      /\ \A j \in DOMAIN clients : clients'[j] = clients[j]
  BY <1>1
<1> QED BY <1>2 DEF ListInv

-----------------------------------------------------------------------------
(* Types and the list are kept by the server. *)
LEMMA messageTypes ==
  ASSUME Types, ListInv, NEW kind \in Kinds, message(kind)
  PROVE  Types' /\ ListInv'
<1>0. PICK i \in Arriving(kind, socket[kind]) : \E rest :
        /\ Read(kind, socket[kind], rest, i) /\ socket' = [socket EXCEPT ![kind] = rest]
        /\ msg' = IF socket[kind][i].type = "RESULT" THEN Nothing ELSE socket[kind][i]
  BY DEF message
<1>1. PICK rest :
        /\ Read(kind, socket[kind], rest, i) /\ socket' = [socket EXCEPT ![kind] = rest]
        /\ msg' = IF socket[kind][i].type = "RESULT" THEN Nothing ELSE socket[kind][i]
  BY <1>0
<1>2. PICK q \in Seq(Datagrams) : q = socket[kind]
  BY DEF Types
<1>3. Read(kind, q, rest, i) /\ i \in Arriving(kind, q) /\ repeats \in 0..MaxRepeats
  BY <1>1, <1>2 DEF Types
<1>4. /\ i \in DOMAIN q /\ rest \in Seq(Datagrams) /\ repeats' \in 0..MaxRepeats
  BY <1>3, ReadDoes
<1>5. socket' \in [Kinds -> Seq(Datagrams)] /\ q[i] \in Datagrams
  BY <1>1, <1>4 DEF Types
<1>6. msg' \in Datagrams \cup {Nothing}
  BY <1>1, <1>2, <1>5
<1>7. UNCHANGED <<clients, clients_mutex, operation_counter, inbox, pingAt, termPc,
                  termAt, up, name, pc, order, sentTo>>
  BY DEF message, procs
<1> QED BY <1>4, <1>5, <1>6, <1>7 DEF Types, Holders, ListInv

\* A handler has a message of a client in hand, and nobody holds the mutex.
LEMMA HandlesTypes ==
  ASSUME Types, NEW type \in Range(MessageTypes), Handles(type)
  PROVE  /\ up /\ msg \in Datagrams /\ msg.type = type /\ msg.addr \in Procs
         /\ clients_mutex = "nobody" /\ pingAt = 0 /\ termPc # "operation_t"
         /\ msg' = Nothing
         /\ UNCHANGED <<clients_mutex, operation_counter, socket, pingAt, termPc, termAt,
                        name, pc, order, repeats, sentTo>>
<1>1. /\ up /\ msg.type = type /\ clients_mutex = "nobody" /\ msg' = Nothing
      /\ UNCHANGED <<clients_mutex, operation_counter, socket, pingAt, termPc, termAt,
                     name, pc, order, repeats, sentTo>>
  BY DEF Handles, procs
<1>2. type # "nothing"
  BY DEF MessageTypes, Range
<1>3. msg \in Datagrams
  BY <1>1, <1>2, NothingType DEF Types
<1> QED BY <1>1, <1>3, DatagramFields DEF Types, Holders

LEMMA ReplyTypes ==
  ASSUME Types, msg \in Datagrams, NEW type \in Range(MessageTypes), Reply(type)
  PROVE  /\ inbox' \in [Procs -> Seq(Datagrams)] /\ up' \in BOOLEAN
         /\ Deliver(msg.addr, Datagram(type, msg.addr, 0))
         /\ Datagram(type, msg.addr, 0) \in Datagrams
<1>1. PICK c \in Procs : c = msg.addr
  BY DatagramFields
<1>2. PICK d \in Datagrams : d = Datagram(type, c, 0)
  BY DatagramType, Sizes
<1>3. Deliver(c, d)
  BY <1>1, <1>2 DEF Reply, SendOrDie
<1>4. inbox' \in [Procs -> Seq(Datagrams)]
  BY <1>3, DeliverDoes
<1>5. up' = (up /\ ~Refuses(c))
  BY <1>1 DEF Reply, SendOrDie
<1>6. up' \in BOOLEAN
  BY <1>5, Zenon
<1> QED BY <1>1, <1>2, <1>3, <1>4, <1>6

LEMMA login_clientTypes ==
  ASSUME Types, ListInv, login_client
  PROVE  Types' /\ ListInv'
<1>1. Handles("LOGIN") /\ "LOGIN" \in Range(MessageTypes)
  BY KnownTypes DEF login_client
<1>2. /\ msg \in Datagrams /\ msg.addr \in Procs
      /\ clients_mutex = "nobody" /\ pingAt = 0 /\ termPc # "operation_t"
      /\ msg' = Nothing
      /\ UNCHANGED <<clients_mutex, operation_counter, socket, pingAt, termPc, termAt,
                     name, pc, order, repeats, sentTo>>
  BY <1>1, HandlesTypes
<1>3. inbox' \in [Procs -> Seq(Datagrams)] /\ up' \in BOOLEAN
  <2>1. {"WRONG_SIZE", "WRONG_NAME", "SUCCESS"} \subseteq Range(MessageTypes)
    BY KnownTypes
  <2> QED BY <1>2, <2>1, ReplyTypes DEF login_client
<1>4. CASE clients' = clients
  BY <1>2, <1>3, <1>4 DEF Types, Holders, ListInv
<1>5. CASE /\ Len(clients) # CLIENT_MAX /\ check_name(name[msg.addr]) = 0
           /\ clients' = Append(clients, [addr |-> msg.addr, name |-> name[msg.addr],
                                          is_inactive |-> 0])
  <2>1. PICK e : e = [addr |-> msg.addr, name |-> name[msg.addr], is_inactive |-> 0]
    OBVIOUS
  <2>2. e \in Entry /\ e.name = name[e.addr] /\ e.name = name[msg.addr]
    BY <2>1, <1>2 DEF Types, Entry
  <2>3. \A i \in DOMAIN clients : clients[i].name # e.name
    <3>1. clients \in Seq(Entry) /\ check_name(e.name) = 0
      BY <1>5, <2>2 DEF Types
    <3>2. ~(0 \in DOMAIN clients)
      BY <3>1
    <3> QED BY <3>1, <3>2, NameFound
  <2>4. clients' = Append(clients, e)
    BY <1>5, <2>1
  <2>5. ListInv' /\ clients' \in Seq(Entry) /\ Len(clients') = Len(clients) + 1
    BY <1>2, <2>2, <2>3, <2>4, ListGrows
  <2>6. Len(clients') <= CLIENT_MAX
    BY <1>5, <2>5, Sizes DEF Types
  <2> QED BY <1>2, <1>3, <2>5, <2>6 DEF Types, Holders
<1> QED BY <1>4, <1>5 DEF login_client

LEMMA logoutClientTypes ==
  ASSUME Types, ListInv, logoutClient
  PROVE  Types' /\ ListInv'
<1>1. Handles("LOGOUT") /\ "LOGOUT" \in Range(MessageTypes) /\ UNCHANGED <<inbox, up>>
  BY KnownTypes DEF logoutClient
<1>2. /\ clients_mutex = "nobody" /\ pingAt = 0 /\ termPc # "operation_t"
      /\ msg' = Nothing
      /\ UNCHANGED <<clients_mutex, operation_counter, socket, pingAt, termPc, termAt,
                     name, pc, order, repeats, sentTo>>
  BY <1>1, HandlesTypes
<1>3. PICK i : i = check_name(name[msg.addr])
  OBVIOUS
<1>4. clients' = IF i = 0 THEN clients ELSE RemoveAt(clients, i)
  BY <1>3 DEF logoutClient
<1>5. CASE clients' = clients
  BY <1>1, <1>2, <1>5 DEF Types, Holders, ListInv
<1>6. CASE i # 0
  <2>1. i \in DOMAIN clients
    BY <1>3, <1>6, NameFound DEF Types
  <2>2. ListInv' /\ clients' \in Seq(Entry) /\ Len(clients') = Len(clients) - 1
    BY <1>2, <1>4, <1>6, <2>1, ListShrinks
  <2>3. Len(clients) \in Nat /\ Len(clients) > 0
    BY <2>1 DEF Types
  <2> QED BY <1>1, <1>2, <2>2, <2>3, Sizes DEF Types, Holders
<1> QED BY <1>4, <1>5, <1>6

LEMMA pongTypes ==
  ASSUME Types, ListInv, pong
  PROVE  /\ Types' /\ ListInv' /\ SameList
<1>1. Handles("PONG") /\ "PONG" \in Range(MessageTypes) /\ UNCHANGED <<inbox, up>>
  BY KnownTypes DEF pong
<1>2. /\ clients_mutex = "nobody" /\ pingAt = 0 /\ termPc # "operation_t"
      /\ msg' = Nothing
      /\ UNCHANGED <<clients_mutex, operation_counter, socket, pingAt, termPc, termAt,
                     name, pc, order, repeats, sentTo>>
  BY <1>1, HandlesTypes
<1>3. PICK i : i = check_name(name[msg.addr])
  OBVIOUS
<1>4. clients' = IF i = 0 THEN clients
                 ELSE [clients EXCEPT ![i].is_inactive = (@ + 255) % 256]
  BY <1>3 DEF pong
<1>5. CASE clients' = clients
  BY <1>1, <1>2, <1>5 DEF Types, Holders, ListInv, SameList
<1>6. CASE i # 0
  <2>1. i \in DOMAIN clients /\ clients \in Seq(Entry)
    BY <1>3, <1>6, NameFound DEF Types
  <2>2. clients[i].is_inactive \in 0..255
    <3>1. clients[i] \in Entry
      BY <2>1
    <3> QED BY <3>1 DEF Entry
  <2>3. PICK x \in 0..255 : x = (clients[i].is_inactive + 255) % 256
    BY <2>2
  <2>4. clients' = [clients EXCEPT ![i].is_inactive = x]
    BY <1>4, <1>6, <2>3
  <2>5. /\ clients' \in Seq(Entry) /\ Len(clients') = Len(clients) /\ SameList
    BY <2>1, <2>4, EntryChanges DEF SameList
  <2> QED BY <1>1, <1>2, <2>5, ListKept DEF Types, Holders
<1> QED BY <1>4, <1>5, <1>6

LEMMA PingTypes ==
  ASSUME Types, ListInv, PingLock \/ PingRemoves \/ PingWrites \/ PingUnlock
  PROVE  Types' /\ ListInv'
<1>1. /\ up
      /\ UNCHANGED <<operation_counter, socket, msg, termPc, termAt, name, pc, order, repeats,
                     sentTo>>
  BY DEF PingLock, PingRemoves, PingWrites, PingUnlock, Ping, procs
<1>2. clients \in Seq(Entry) /\ Len(clients) \in Nat /\ DOMAIN clients = 1..Len(clients)
  BY DEF Types
<1>3. CASE PingLock
  BY <1>1, <1>2, <1>3 DEF PingLock, Ping, Types, Holders, ListInv
<1>4. CASE PingUnlock
  BY <1>1, <1>2, <1>4 DEF PingUnlock, Ping, Types, Holders, ListInv
<1>5. CASE PingRemoves
  <2>1. /\ pingAt \in DOMAIN clients /\ clients' = RemoveAt(clients, pingAt)
        /\ pingAt' = pingAt /\ UNCHANGED <<clients_mutex, inbox, up>>
    BY <1>5 DEF PingRemoves, Ping
  <2>2. ListInv' /\ clients' \in Seq(Entry) /\ Len(clients') = Len(clients) - 1
    <3>1. PICK i \in DOMAIN clients : i = pingAt
      BY <2>1
    <3> QED BY <1>1, <2>1, <3>1, ListShrinks
  <2>3. pingAt # 0 /\ pingAt <= Len(clients)
    BY <1>2, <2>1
  <2>4. termPc # "operation_t"
    BY <2>3 DEF Types, Holders
  <2> QED BY <1>1, <1>2, <2>1, <2>2, <2>3, <2>4, Sizes DEF Types, Holders
<1>6. CASE PingWrites
  <2>1. /\ pingAt \in DOMAIN clients /\ clients' = [clients EXCEPT ![pingAt].is_inactive = 1]
        /\ pingAt' = pingAt + 1 /\ clients_mutex' = clients_mutex
        /\ SendOrDie(clients[pingAt].addr, Datagram("PING", clients[pingAt].addr, 0))
    BY <1>6 DEF PingWrites, Ping
  <2>2. PICK i \in DOMAIN clients : i = pingAt
    BY <2>1
  <2>3. /\ clients' \in Seq(Entry) /\ Len(clients') = Len(clients) /\ SameList
        /\ DOMAIN clients' = DOMAIN clients
    <3>1. PICK x \in 0..255 : x = 1
      OBVIOUS
    <3>2. clients' = [clients EXCEPT ![i].is_inactive = x]
      BY <2>1, <2>2, <3>1
    <3> QED BY <1>2, <3>2, EntryChanges DEF SameList
  <2>4. PICK c \in Procs : c = clients[i].addr
    <3>1. clients[i] \in Entry
      BY <1>2
    <3> QED BY <3>1 DEF Entry
  <2>5. PICK d \in Datagrams : d = Datagram("PING", c, 0)
    BY DatagramType, KnownTypes, Sizes
  <2>6. SendOrDie(c, d)
    BY <2>1, <2>2, <2>4, <2>5
  <2>7. inbox' \in [Procs -> Seq(Datagrams)]
    BY <2>6, DeliverDoes DEF SendOrDie
  <2>8. up' \in BOOLEAN
    BY <2>6, Zenon DEF SendOrDie
  <2>9. ListInv'
    BY <1>1, <2>3, ListKept
  <2>10. pingAt # 0 /\ pingAt + 1 <= Len(clients) + 1
    BY <1>2, <2>1
  <2> QED BY <1>1, <1>2, <2>1, <2>3, <2>7, <2>8, <2>9, <2>10 DEF Types, Holders
<1> QED BY <1>3, <1>4, <1>5, <1>6

LEMMA TermTypes ==
  ASSUME Types, ListInv, TermOrder \/ TermNobody \/ TermWriteType \/ TermWriteOperation
  PROVE  Types' /\ ListInv'
<1>1. up /\ UNCHANGED <<clients, socket, msg, pingAt, up, name, pc, order, repeats>>
  BY DEF TermOrder, TermNobody, TermWriteType, TermWriteOperation, Term, procs
<1>2. clients \in Seq(Entry) /\ Len(clients) \in Nat /\ DOMAIN clients = 1..Len(clients)
  BY DEF Types
<1>3. ListInv'
  BY <1>1 DEF ListInv
<1>4. CASE TermOrder
  <2>1. operation_counter' \in Orders
    BY <1>4, Sizes DEF TermOrder, Types
  <2> QED BY <1>1, <1>3, <1>4, <2>1 DEF TermOrder, Term, Types, Holders
<1>5. CASE TermNobody
  BY <1>1, <1>3, <1>5 DEF TermNobody, Term, Types, Holders
<1>6. CASE TermWriteType
  <2>1. PICK i \in DOMAIN clients : i = termAt'
    BY <1>6 DEF TermWriteType
  <2>2. PICK c \in Procs : c = clients[i].addr
    <3>1. clients[i] \in Entry
      BY <1>2
    <3> QED BY <3>1 DEF Entry
  <2>3. PICK d \in Datagrams : d = Datagram("REQUEST", c, 0)
    BY DatagramType, KnownTypes, Sizes
  <2>4. Deliver(c, d)
    BY <1>6, <2>1, <2>2, <2>3 DEF TermWriteType
  <2>5. inbox' \in [Procs -> Seq(Datagrams)]
    BY <2>4, DeliverDoes
  <2>6. i \in 1..CLIENT_MAX
    BY <1>2, Sizes DEF Types
  <2> QED BY <1>1, <1>3, <1>6, <2>1, <2>5, <2>6 DEF TermWriteType, Term, Types, Holders
<1>7. CASE TermWriteOperation
  <2>1. termPc = "operation_t" /\ termPc' = "fgets" /\ clients_mutex = "terminal"
        /\ clients_mutex' = "nobody" /\ UNCHANGED <<operation_counter, termAt>>
    BY <1>7 DEF TermWriteOperation, Term, Types, Holders
  <2>2. PICK i \in DOMAIN clients : i = termAt
    BY <2>1 DEF Types, Holders
  <2>3. PICK c \in Procs : c = clients[i].addr
    <3>1. clients[i] \in Entry
      BY <1>2
    <3> QED BY <3>1 DEF Entry
  <2>4. PICK n \in Orders : n = operation_counter
    BY DEF Types
  <2>5. PICK d \in Datagrams : d = Datagram("operation_t", c, n)
    BY DatagramType
  <2>6. /\ Deliver(c, d)
        /\ sentTo' = [m \in DOMAIN sentTo \cup {n} |->
                      IF m \in DOMAIN sentTo THEN sentTo[m] ELSE c]
    BY <1>7, <2>2, <2>3, <2>4, <2>5 DEF TermWriteOperation
  <2>7. inbox' \in [Procs -> Seq(Datagrams)]
    BY <2>6, DeliverDoes
  <2>8. DOMAIN sentTo' \subseteq Orders /\ \A m \in DOMAIN sentTo' : sentTo'[m] \in Procs
    BY <2>6 DEF Types
  <2>9. Holders'
    BY <1>1, <2>1 DEF Types, Holders
  <2> QED BY <1>1, <1>3, <2>1, <2>7, <2>8, <2>9 DEF Types
<1> QED BY <1>4, <1>5, <1>6, <1>7

-----------------------------------------------------------------------------
(* ... and by the clients, which do not touch it. *)
LEMMA ClientDoes ==
  ASSUME Types, NEW c \in Procs, NEW from, NEW to \in ClientPcs, At(c, from, to)
  PROVE  /\ up /\ pc[c] = from /\ pc' \in [Procs -> ClientPcs] /\ pc'[c] = to
         /\ \A d \in Procs : d # c => pc'[d] = pc[d]
         /\ UNCHANGED <<clients, clients_mutex, operation_counter, msg, pingAt, termPc, termAt,
                        up, sentTo, name>>
BY DEF At, Types, server

\* What a client's step does: its place, its queue, its order, and its socket's.
LEMMA ClientTypes ==
  ASSUME Types, ListInv, NEW c \in Procs, Client(c)
  PROVE  Types' /\ ListInv'
<1>1. \E from, to \in ClientPcs : At(c, from, to)
  <2>1. pc[c] \in ClientPcs
    BY DEF Types
  <2> QED BY <2>1 DEF Client, login, response, read, sendPong, calc, sendResult, sigIntHandler,
                      funAtExit, Killed, ClientPcs
<1>2. /\ pc' \in [Procs -> ClientPcs]
      /\ UNCHANGED <<clients, clients_mutex, operation_counter, msg, pingAt, termPc, termAt,
                     up, sentTo, name>>
  BY <1>1, ClientDoes
<1>3. socket' \in [Kinds -> Seq(Datagrams)] /\ repeats' \in 0..MaxRepeats
  <2>1. CASE login(c) \/ sendPong(c) \/ funAtExit(c)
    BY <2>1, SendDoes, KnownTypes, Sizes DEF login, sendPong, funAtExit, Types
  <2>2. CASE sendResult(c)
    <3>1. PICK n \in Orders : n = order[c]
      BY DEF Types
    <3>2. Send(c, "RESULT", n)
      BY <2>2, <3>1 DEF sendResult
    <3> QED BY <3>2, SendDoes, KnownTypes DEF Types
  <2>3. CASE response(c) \/ read(c) \/ calc(c)
    BY <2>3, TakesDoes DEF response, read, calc, Types
  <2>4. CASE sigIntHandler(c) \/ Killed(c)
    BY <2>4 DEF sigIntHandler, Killed, Types
  <2> QED BY <2>1, <2>2, <2>3, <2>4 DEF Client
<1>4. inbox' \in [Procs -> Seq(Datagrams)]
  <2>1. CASE response(c) \/ read(c) \/ calc(c)
    BY <2>1, TakesDoes DEF response, read, calc
  <2>2. CASE funAtExit(c) \/ Killed(c)
    <3>1. <<>> \in Seq(Datagrams)
      BY EmptySeq
    <3> QED BY <2>2, <3>1 DEF funAtExit, Killed, Types
  <2>3. CASE login(c) \/ sendPong(c) \/ sendResult(c) \/ sigIntHandler(c)
    BY <2>3 DEF login, sendPong, sendResult, sigIntHandler, Types
  <2> QED BY <2>1, <2>2, <2>3 DEF Client
<1>5. order' \in [Procs -> Orders]
  <2>1. CASE calc(c)
    <3>1. PICK i \in Arriving(Kind(c), inbox[c]) :
            order' = [order EXCEPT ![c] = inbox[c][i].operation] /\ Takes(c, i)
      BY <2>1 DEF calc
    <3>2. inbox[c][i] \in Datagrams
      BY <3>1, TakesDoes
    <3>3. inbox[c][i].operation \in Orders
      BY <3>2, DatagramFields
    <3> QED BY <3>1, <3>3 DEF Types
  <2>2. CASE sendResult(c)
    BY <2>2, Sizes DEF sendResult, Types
  <2>3. CASE \/ login(c) \/ response(c) \/ read(c) \/ sendPong(c) \/ sigIntHandler(c)
             \/ funAtExit(c) \/ Killed(c)
    BY <2>3 DEF login, response, read, sendPong, sigIntHandler, funAtExit, Killed, Types
  <2> QED BY <2>1, <2>2, <2>3 DEF Client
<1>6. Holders' /\ ListInv'
  BY <1>2 DEF Types, Holders, ListInv
<1> QED BY <1>2, <1>3, <1>4, <1>5, <1>6 DEF Types

LEMMA StepTypes == Types /\ ListInv /\ [Next]_vars => Types' /\ ListInv'
<1> SUFFICES ASSUME Types, ListInv, [Next]_vars PROVE Types' /\ ListInv'
  OBVIOUS
<1>1. CASE Server
  BY <1>1, messageTypes, login_clientTypes, logoutClientTypes, pongTypes, PingTypes, TermTypes
  DEF Server, Kinds
<1>2. CASE \E c \in Procs : Client(c)
  BY <1>2, ClientTypes
<1>3. CASE UNCHANGED vars
  BY <1>3 DEF vars, server, procs, Types, Holders, ListInv
<1> QED BY <1>1, <1>2, <1>3 DEF Next

LEMMA InitTypes == Init => Types /\ ListInv
<1> SUFFICES ASSUME Init PROVE Types /\ ListInv
  OBVIOUS
<1>1. /\ clients = <<>> /\ sentTo = <<>> /\ <<>> \in Seq(Entry) /\ <<>> \in Seq(Datagrams)
      /\ Len(clients) = 0 /\ DOMAIN clients = {} /\ DOMAIN sentTo = {}
  BY DEF Init
<1>2. Earlier \in Orders
  BY Sizes
<1> QED BY <1>1, <1>2, Sizes DEF Init, Types, Holders, ListInv, Kinds, ClientPcs

\* The list of clients is sound, whatever the network does to datagrams.
THEOREM ListStaysSound == Spec => []TableAgrees
<1>1. Types /\ ListInv => TableAgrees
  <2> SUFFICES ASSUME Types, ListInv PROVE TableAgrees
    OBVIOUS
  <2>1. clients \in Seq(Entry)
    BY DEF Types
  <2>2. Range(clients) \subseteq [addr : Procs, name : Names, is_inactive : 0..255]
    <3>1. \A i \in DOMAIN clients : clients[i] \in Entry
      BY <2>1
    <3>2. Range(clients) \subseteq Entry
      BY <3>1, Zenon DEF Range
    <3> QED BY <3>2 DEF Entry
  <2>3. \A kind \in {"LOCAL", "WEB"} : Range(socket[kind]) \subseteq Datagrams
    BY DEF Types, Range, Kinds
  <2>4. \A c \in Procs : Range(inbox[c]) \subseteq Datagrams
    BY DEF Types, Range
  <2>5. pingAt \in 0..(CLIENT_MAX + 1)
    BY <2>1, Sizes DEF Types, Holders
  <2>6. DOMAIN sentTo \subseteq Orders /\ Range(sentTo) \subseteq Procs
    BY DEF Types, Range
  <2>7. \A i, j \in DOMAIN clients : i # j =>
          clients[i].name # clients[j].name /\ clients[i].addr # clients[j].addr
    BY DEF ListInv
  <2>8. TypeOK
    BY <2>2, <2>3, <2>4, <2>5, <2>6 DEF TypeOK, Types, ClientPcs
  <2> QED BY <2>7, <2>8 DEF TableAgrees, ListInv
<1> QED BY InitTypes, StepTypes, <1>1, PTL DEF Spec

-----------------------------------------------------------------------------
(* Orders.  The order with this number was sent to this client. *)
Asked(sent, n, c) == n \in DOMAIN sent /\ sent[n] = c

\* What is on the way, or in a client's hand, was sent to that client: an
\* operation_t has the number of an order of its own, a RESULT answers one.
OrderInv ==
  /\ \A n \in DOMAIN sentTo : n <= operation_counter
  /\ termPc \in {"lock", "operation_t"} => operation_counter \notin DOMAIN sentTo
  /\ \A c \in Procs : \A i \in DOMAIN inbox[c] :
       inbox[c][i].type = "operation_t" => Asked(sentTo, inbox[c][i].operation, c)
  /\ \A c \in Procs : pc[c] = "result" => Asked(sentTo, order[c], c)
  /\ \A kind \in Kinds : \A i \in DOMAIN socket[kind] :
       socket[kind][i].type = "RESULT" =>
         Asked(sentTo, socket[kind][i].operation, socket[kind][i].addr)

\* Where the datagrams of a queue come from that a step leaves behind.
From(queue, d) == \E k \in DOMAIN queue : queue[k] = d

LEMMA AppendedFrom ==
  ASSUME NEW q \in Seq(Datagrams), NEW d \in Datagrams, NEW r, r = Append(q, d)
  PROVE  /\ r \in Seq(Datagrams) /\ Len(r) = Len(q) + 1 /\ DOMAIN r = 1..(Len(q) + 1)
         /\ Len(q) \in Nat /\ DOMAIN q = 1..Len(q)
         /\ \A i \in DOMAIN q : r[i] = q[i]
         /\ r[Len(q) + 1] = d
         /\ \A i \in DOMAIN r : From(q, r[i]) \/ r[i] = d
<1>1. /\ r \in Seq(Datagrams) /\ Len(r) = Len(q) + 1 /\ DOMAIN r = 1..(Len(q) + 1)
      /\ Len(q) \in Nat /\ DOMAIN q = 1..Len(q)
      /\ \A i \in DOMAIN q : r[i] = q[i]
      /\ r[Len(q) + 1] = d
  OBVIOUS
<1>2. \A i \in DOMAIN r : i \in DOMAIN q \/ i = Len(q) + 1
  BY <1>1
<1> QED BY <1>1, <1>2 DEF From

\* A step that asks for nothing leaves what was asked.
AsksNothing == sentTo' = sentTo /\ operation_counter' = operation_counter

\* What is in the sockets was there, or has just been sent and is no RESULT, or
\* is the RESULT of a client at sendResult.
SocketsFrom ==
  \A kind \in Kinds : \A i \in DOMAIN socket'[kind] :
    \/ From(socket[kind], socket'[kind][i])
    \/ socket'[kind][i].type # "RESULT"
    \/ \E c \in Procs : pc[c] = "result" /\ socket'[kind][i].addr = c
                        /\ socket'[kind][i].operation = order[c]

\* What is in a client's queue was there, or has just been sent and is no order.
InboxesFrom ==
  \A c \in Procs : \A i \in DOMAIN inbox'[c] :
    From(inbox[c], inbox'[c][i]) \/ inbox'[c][i].type # "operation_t"

LEMMA OrdersKept ==
  ASSUME OrderInv, AsksNothing, SocketsFrom, InboxesFrom,
         termPc' = termPc \/ termPc' \notin {"lock", "operation_t"}
           \/ (termPc = "lock" /\ termPc' = "operation_t"),
         \A c \in Procs : pc'[c] = "result" =>
           \/ pc[c] = "result" /\ order'[c] = order[c]
           \/ \E i \in DOMAIN inbox[c] : inbox[c][i].type = "operation_t"
                                          /\ order'[c] = inbox[c][i].operation
  PROVE  OrderInv'
<1>1. \A n, c : Asked(sentTo', n, c) <=> Asked(sentTo, n, c)
  BY DEF AsksNothing, Asked
<1>2. \A c \in Procs : \A i \in DOMAIN inbox'[c] :
        inbox'[c][i].type = "operation_t" => Asked(sentTo, inbox'[c][i].operation, c)
  BY DEF OrderInv, InboxesFrom, From
<1>3. \A c \in Procs : pc'[c] = "result" => Asked(sentTo, order'[c], c)
  BY DEF OrderInv
<1>4. \A kind \in Kinds : \A i \in DOMAIN socket'[kind] :
        socket'[kind][i].type = "RESULT" =>
          Asked(sentTo, socket'[kind][i].operation, socket'[kind][i].addr)
  BY DEF OrderInv, SocketsFrom, From
<1> QED BY <1>1, <1>2, <1>3, <1>4 DEF OrderInv, AsksNothing, Asked

LEMMA UnchangedQueues ==
  /\ socket' = socket => SocketsFrom
  /\ inbox' = inbox => InboxesFrom
BY DEF SocketsFrom, InboxesFrom, From

LEMMA DeliverFrom ==
  ASSUME Types, NEW c \in Procs, NEW type \in Range(MessageTypes), NEW n \in Orders,
         Deliver(c, Datagram(type, c, n))
  PROVE  InboxesFrom
<1>1. PICK d \in Datagrams : d = Datagram(type, c, n) /\ d.type = type
  BY DatagramType
<1>2. type # "operation_t"
  BY DEF MessageTypes, Range
<1>3. inbox[c] \in Seq(Datagrams)
  BY DEF Types
<1>4. /\ \A e \in Procs : e # c => inbox'[e] = inbox[e]
      /\ inbox'[c] = inbox[c] \/ inbox'[c] = Append(inbox[c], d)
  BY <1>1, DeliverDoes
<1>5. \A i \in DOMAIN inbox'[c] : From(inbox[c], inbox'[c][i]) \/ inbox'[c][i] = d
  <2>1. PICK q, r : q \in Seq(Datagrams) /\ q = inbox[c] /\ r = inbox'[c]
    BY <1>3
  <2>2. CASE r = q
    BY <2>1, <2>2 DEF From
  <2>3. CASE r = Append(q, d)
    <3>1. q \in Seq(Datagrams)
      BY <2>1
    <3>2. d \in Datagrams
      BY <1>1
    <3>3. \A i \in DOMAIN r : From(q, r[i]) \/ r[i] = d
      BY ONLY <2>3, <3>1, <3>2, AppendedFrom
    <3> QED BY <2>1, <3>3
  <2> QED BY <1>4, <2>1, <2>2, <2>3
<1> QED BY <1>1, <1>2, <1>4, <1>5 DEF InboxesFrom, From

LEMMA TakesFrom ==
  ASSUME Types, NEW c \in Procs, NEW i \in Arriving(Kind(c), inbox[c]), Takes(c, i)
  PROVE  SocketsFrom /\ InboxesFrom
BY TakesDoes DEF SocketsFrom, InboxesFrom, From

LEMMA SendFrom ==
  ASSUME Types, NEW c \in Procs, NEW type \in Range(MessageTypes), NEW n \in Orders,
         Send(c, type, n), type = "RESULT" => pc[c] = "result" /\ n = order[c]
  PROVE  SocketsFrom
<1>1. PICK d \in Datagrams : d = Datagram(type, c, n) /\ d.type = type /\ d.addr = c
                             /\ d.operation = n
  BY DatagramType
<1>2. /\ \A k \in Kinds : k # Kind(c) => socket'[k] = socket[k]
      /\ socket'[Kind(c)] = Append(socket[Kind(c)], d)
  BY <1>1, SendDoes
<1>3. PICK kind \in Kinds : kind = Kind(c)
  BY KindOf
<1>4. PICK q, r : q \in Seq(Datagrams) /\ q = socket[kind] /\ r = socket'[kind]
  BY DEF Types
<1>5. \A i \in DOMAIN r : From(q, r[i]) \/ r[i] = d
  <2>1. q \in Seq(Datagrams) /\ r = Append(q, d)
    BY <1>2, <1>3, <1>4
  <2> QED BY ONLY <2>1, AppendedFrom
<1> QED BY <1>1, <1>2, <1>3, <1>4, <1>5, SMTT(30) DEF SocketsFrom, From

LEMMA messageOrder ==
  ASSUME Types, OrderInv, NEW kind \in Kinds, message(kind)
  PROVE  OrderInv'
<1>1. PICK i \in Arriving(kind, socket[kind]) : \E rest :
        Read(kind, socket[kind], rest, i) /\ socket' = [socket EXCEPT ![kind] = rest]
  BY DEF message
<1>2. PICK rest :
        Read(kind, socket[kind], rest, i) /\ socket' = [socket EXCEPT ![kind] = rest]
  BY <1>1
<1>3. PICK q \in Seq(Datagrams) : q = socket[kind]
  BY DEF Types
<1>4. Read(kind, q, rest, i) /\ i \in Arriving(kind, q) /\ repeats \in 0..MaxRepeats
  BY <1>1, <1>2, <1>3 DEF Types
<1>5. \A j \in DOMAIN rest : \E k \in DOMAIN q : rest[j] = q[k]
  BY <1>4, ReadDoes
<1>6. socket'[kind] = rest /\ \A k \in Kinds : k # kind => socket'[k] = socket[k]
  BY <1>2 DEF Types
<1>7. SocketsFrom
  BY <1>3, <1>5, <1>6 DEF SocketsFrom, From
<1>8. /\ InboxesFrom /\ AsksNothing /\ termPc' = termPc /\ pc' = pc /\ order' = order
  BY UnchangedQueues DEF message, procs, AsksNothing
<1> QED BY <1>7, <1>8, OrdersKept

LEMMA HandlersOrder ==
  ASSUME Types, OrderInv, login_client \/ logoutClient \/ pong
  PROVE  OrderInv'
<1>1. \E type \in {"LOGIN", "LOGOUT", "PONG"} : Handles(type)
  BY DEF login_client, logoutClient, pong
<1>2. {"LOGIN", "LOGOUT", "PONG", "WRONG_SIZE", "WRONG_NAME", "SUCCESS"}
        \subseteq Range(MessageTypes)
  BY KnownTypes
<1>3. /\ msg \in Datagrams
      /\ AsksNothing /\ socket' = socket /\ termPc' = termPc /\ pc' = pc /\ order' = order
  BY <1>1, <1>2, HandlesTypes DEF AsksNothing
<1>4. InboxesFrom
  <2>1. CASE logoutClient \/ pong
    BY <2>1, UnchangedQueues DEF logoutClient, pong
  <2>2. CASE login_client
    <3>1. PICK type \in Range(MessageTypes) : Reply(type)
      BY <1>2, <2>2 DEF login_client
    <3>2. PICK c \in Procs : c = msg.addr
      BY <1>3, DatagramFields
    <3>3. Deliver(c, Datagram(type, c, 0))
      BY <1>3, <3>1, <3>2, ReplyTypes
    <3> QED BY <3>3, DeliverFrom, Sizes
  <2> QED BY <2>1, <2>2
<1> QED BY <1>3, <1>4, UnchangedQueues, OrdersKept

LEMMA PingOrder ==
  ASSUME Types, OrderInv, PingLock \/ PingRemoves \/ PingWrites \/ PingUnlock
  PROVE  OrderInv'
<1>1. /\ AsksNothing /\ UNCHANGED <<socket, termPc, pc, order>>
  BY DEF PingLock, PingRemoves, PingWrites, PingUnlock, Ping, procs, AsksNothing
<1>2. InboxesFrom
  <2>1. CASE PingLock \/ PingRemoves \/ PingUnlock
    BY <2>1, UnchangedQueues DEF PingLock, PingRemoves, PingUnlock
  <2>2. CASE PingWrites
    <3>1. PICK i \in DOMAIN clients : i = pingAt
      BY <2>2 DEF PingWrites
    <3>2. PICK c \in Procs : c = clients[i].addr
      <4>1. clients[i] \in Entry
        BY DEF Types
      <4> QED BY <4>1 DEF Entry
    <3>3. Deliver(c, Datagram("PING", c, 0))
      BY <2>2, <3>1, <3>2 DEF PingWrites, SendOrDie
    <3>4. "PING" \in Range(MessageTypes)
      BY KnownTypes
    <3> QED BY <3>3, <3>4, DeliverFrom, Sizes
  <2> QED BY <2>1, <2>2
<1> QED BY <1>1, <1>2, UnchangedQueues, OrdersKept

LEMMA TermOrderKept ==
  ASSUME Types, OrderInv, TermOrder \/ TermNobody \/ TermWriteType
  PROVE  OrderInv'
<1>1. /\ sentTo' = sentTo /\ UNCHANGED <<socket, pc, order>>
  BY DEF TermOrder, TermNobody, TermWriteType, Term, procs
<1>2. CASE TermOrder
  <2>1. operation_counter \in Nat /\ operation_counter' = operation_counter + 1
        /\ inbox' = inbox
    BY <1>2, Sizes DEF TermOrder, Types
  <2>2. \A n \in DOMAIN sentTo : n \in Nat
    BY Sizes DEF Types
  <2>3. /\ \A n \in DOMAIN sentTo' : n <= operation_counter'
        /\ operation_counter' \notin DOMAIN sentTo'
    BY <1>1, <2>1, <2>2 DEF OrderInv
  <2> QED BY <1>1, <2>1, <2>3 DEF OrderInv, Asked
<1>3. CASE TermNobody
  BY <1>1, <1>3, UnchangedQueues, OrdersKept DEF TermNobody, Term, AsksNothing
<1>4. CASE TermWriteType
  <2>1. PICK i \in DOMAIN clients : i = termAt'
    BY <1>4 DEF TermWriteType
  <2>2. PICK c \in Procs : c = clients[i].addr
    <3>1. clients[i] \in Entry
      BY DEF Types
    <3> QED BY <3>1 DEF Entry
  <2>3. Deliver(c, Datagram("REQUEST", c, 0)) /\ "REQUEST" \in Range(MessageTypes)
    BY <1>4, <2>1, <2>2, KnownTypes DEF TermWriteType
  <2>4. InboxesFrom
    BY <2>3, DeliverFrom, Sizes
  <2> QED BY <1>1, <1>4, <2>4, UnchangedQueues, OrdersKept DEF TermWriteType, Term, AsksNothing
<1> QED BY <1>2, <1>3, <1>4

\* The datagram with the order itself is the one that makes an order asked.
LEMMA TermWriteOperationOrder ==
  ASSUME Types, OrderInv, TermWriteOperation
  PROVE  OrderInv'
<1>1. /\ termPc = "operation_t" /\ termPc' = "fgets"
      /\ UNCHANGED <<operation_counter, socket, pc, order>>
  BY DEF TermWriteOperation, Term, procs
<1>2. PICK i \in DOMAIN clients : i = termAt
  BY <1>1 DEF Types, Holders
<1>3. PICK c \in Procs : c = clients[i].addr
  <2>1. clients[i] \in Entry
    BY DEF Types
  <2> QED BY <2>1 DEF Entry
<1>4. PICK n \in Orders : n = operation_counter
  BY DEF Types
<1>5. PICK d \in Datagrams : d = Datagram("operation_t", c, n) /\ d.operation = n
  BY DatagramType
<1>6. /\ Deliver(c, d)
      /\ sentTo' = [m \in DOMAIN sentTo \cup {n} |->
                      IF m \in DOMAIN sentTo THEN sentTo[m] ELSE c]
  BY <1>2, <1>3, <1>4, <1>5 DEF TermWriteOperation
<1>7. n \notin DOMAIN sentTo
  BY <1>1, <1>4 DEF OrderInv
<1>8. /\ \A m, e : Asked(sentTo, m, e) => Asked(sentTo', m, e)
      /\ Asked(sentTo', n, c)
  BY <1>6, <1>7 DEF Asked
<1>9. \A m \in DOMAIN sentTo' : m <= operation_counter'
  BY <1>1, <1>4, <1>6, Sizes DEF OrderInv
<1>10. \A e \in Procs : \A j \in DOMAIN inbox'[e] :
         inbox'[e][j].type = "operation_t" => Asked(sentTo', inbox'[e][j].operation, e)
  <2>1. /\ \A e \in Procs : e # c => inbox'[e] = inbox[e]
        /\ inbox'[c] = inbox[c] \/ inbox'[c] = Append(inbox[c], d)
    BY <1>6, DeliverDoes
  <2>2. PICK q, r : q \in Seq(Datagrams) /\ q = inbox[c] /\ r = inbox'[c]
    BY DEF Types
  <2>3. \A j \in DOMAIN r : From(q, r[j]) \/ r[j] = d
    <3>1. CASE r = q
      BY <3>1 DEF From
    <3>2. CASE r = Append(q, d)
      <4>1. q \in Seq(Datagrams)
        BY <2>2
      <4> QED BY ONLY <3>2, <4>1, AppendedFrom
    <3> QED BY <2>1, <2>2, <3>1, <3>2
  <2>4. \A j \in DOMAIN q : q[j].type = "operation_t" => Asked(sentTo', q[j].operation, c)
    BY <2>2, <1>8 DEF OrderInv
  <2>5. \A j \in DOMAIN r : r[j].type = "operation_t" => Asked(sentTo', r[j].operation, c)
    BY <1>5, <1>8, <2>3, <2>4 DEF From
  <2> QED BY <1>8, <2>1, <2>2, <2>5 DEF OrderInv
<1>11. \A e \in Procs : pc'[e] = "result" => Asked(sentTo', order'[e], e)
  BY <1>1, <1>8 DEF OrderInv
<1>12. \A kind \in Kinds : \A j \in DOMAIN socket'[kind] :
         socket'[kind][j].type = "RESULT" =>
           Asked(sentTo', socket'[kind][j].operation, socket'[kind][j].addr)
  BY <1>1, <1>8 DEF OrderInv
<1> QED BY <1>1, <1>9, <1>10, <1>11, <1>12 DEF OrderInv

LEMMA ClientOrder ==
  ASSUME Types, OrderInv, NEW c \in Procs, Client(c)
  PROVE  OrderInv'
<1>1. PICK from, to \in ClientPcs : At(c, from, to)
  <2>1. pc[c] \in ClientPcs
    BY DEF Types
  <2> QED BY <2>1 DEF Client, login, response, read, sendPong, calc, sendResult, sigIntHandler,
                      funAtExit, Killed, ClientPcs
<1>2. /\ AsksNothing /\ termPc' = termPc /\ pc'[c] = to /\ pc[c] = from
      /\ \A d \in Procs : d # c => pc'[d] = pc[d]
  BY <1>1, ClientDoes DEF AsksNothing
<1>3. \A d \in Procs : d # c => order'[d] = order[d]
  BY DEF Client, login, response, read, sendPong, calc, sendResult, sigIntHandler,
         funAtExit, Killed, Types
<1>4. SocketsFrom
  <2>1. CASE login(c) \/ sendPong(c) \/ funAtExit(c)
    <3>1. {"LOGIN", "PONG", "LOGOUT"} \subseteq Range(MessageTypes) \ {"RESULT"}
      BY KnownTypes
    <3> QED BY <2>1, <3>1, SendFrom, Sizes DEF login, sendPong, funAtExit
  <2>2. CASE sendResult(c)
    <3>1. PICK n \in Orders : n = order[c]
      BY DEF Types
    <3>2. Send(c, "RESULT", n) /\ pc[c] = "result" /\ "RESULT" \in Range(MessageTypes)
      BY <2>2, <3>1, KnownTypes DEF sendResult, At
    <3> QED BY <3>1, <3>2, SendFrom
  <2>3. CASE response(c) \/ read(c) \/ calc(c)
    BY <2>3, TakesFrom DEF response, read, calc
  <2>4. CASE sigIntHandler(c) \/ Killed(c)
    BY <2>4, UnchangedQueues DEF sigIntHandler, Killed
  <2> QED BY <2>1, <2>2, <2>3, <2>4 DEF Client
<1>5. InboxesFrom
  <2>1. CASE response(c) \/ read(c) \/ calc(c)
    BY <2>1, TakesFrom DEF response, read, calc
  <2>2. CASE funAtExit(c) \/ Killed(c)
    <3>1. inbox' = [inbox EXCEPT ![c] = <<>>]
      BY <2>2 DEF funAtExit, Killed
    <3> QED BY <3>1 DEF Types, InboxesFrom, From
  <2>3. CASE login(c) \/ sendPong(c) \/ sendResult(c) \/ sigIntHandler(c)
    BY <2>3, UnchangedQueues DEF login, sendPong, sendResult, sigIntHandler
  <2> QED BY <2>1, <2>2, <2>3 DEF Client
<1>6. pc'[c] = "result" =>
        \/ pc[c] = "result" /\ order'[c] = order[c]
        \/ \E i \in DOMAIN inbox[c] : inbox[c][i].type = "operation_t"
                                       /\ order'[c] = inbox[c][i].operation
  <2>1. CASE calc(c)
    <3>1. PICK i \in Arriving(Kind(c), inbox[c]) :
            /\ At(c, "calc", IF inbox[c][i].type = "operation_t" THEN "result" ELSE "exit")
            /\ order' = [order EXCEPT ![c] = inbox[c][i].operation] /\ Takes(c, i)
      BY <2>1 DEF calc
    <3>2. i \in DOMAIN inbox[c]
      BY <3>1, TakesDoes
    <3>3. pc'[c] = "result" => inbox[c][i].type = "operation_t"
      BY <3>1 DEF At, Types
    <3> QED BY <3>1, <3>2, <3>3 DEF Types
  <2>2. CASE ~calc(c)
    BY <2>2 DEF Client, login, response, read, sendPong, sendResult, sigIntHandler,
                funAtExit, Killed, At, Types
  <2> QED BY <2>1, <2>2
<1> QED BY <1>2, <1>3, <1>4, <1>5, <1>6, OrdersKept

LEMMA OrderStep == Types /\ OrderInv /\ [Next]_vars => OrderInv'
<1> SUFFICES ASSUME Types, OrderInv, [Next]_vars PROVE OrderInv'
  OBVIOUS
<1>1. CASE Server
  BY <1>1, messageOrder, HandlersOrder, PingOrder, TermOrderKept, TermWriteOperationOrder
  DEF Server, Kinds
<1>2. CASE \E c \in Procs : Client(c)
  BY <1>2, ClientOrder
<1>3. CASE UNCHANGED vars
  BY <1>3 DEF vars, server, procs, OrderInv, Asked
<1> QED BY <1>1, <1>2, <1>3 DEF Next

\* A result comes from the client its order was sent to.
THEOREM OrdersAreTheAddressees == Spec => []AnsweredByAddressee
<1>1. Init => OrderInv
  <2> SUFFICES ASSUME Init PROVE OrderInv
    OBVIOUS
  <2>1. DOMAIN sentTo = {} /\ \A c \in Procs : inbox[c] = <<>> /\ pc[c] = "login"
    BY DEF Init
  <2>2. \A kind \in Kinds : socket[kind] = <<>>
    BY DEF Init, Kinds
  <2>3. termPc = "fgets"
    BY DEF Init
  <2> QED BY <2>1, <2>2, <2>3 DEF OrderInv
<1>2. OrderInv => AnsweredByAddressee
  BY DEF OrderInv, AnsweredByAddressee, Asked, Kinds
<1> QED BY InitTypes, StepTypes, OrderStep, <1>1, <1>2, PTL DEF Spec

-----------------------------------------------------------------------------
(* A local client's queue.  A LOGIN of it is on its way, or in main's hand. *)
LoginOf(c, d) == d.type = "LOGIN" /\ d.addr = c

Pending(c) ==
  LoginOf(c, msg) \/ \E i \in DOMAIN socket["LOCAL"] : LoginOf(c, socket["LOCAL"][i])

Answers == {"SUCCESS", "WRONG_SIZE", "WRONG_NAME"}

\* A client at p finds in its queue q what it expects: the answer first when it
\* waits for it, and an operation_t behind each REQUEST and nowhere else.
Talks(p, q) ==
  \A i \in DOMAIN q :
    /\ q[i].type \in Answers \cup {"PING", "REQUEST", "operation_t"}
    /\ q[i].type \in Answers <=> i = 1 /\ p = "response"
    /\ q[i].type = "operation_t" <=>
         (i = 1 /\ p = "calc") \/ (i # 1 /\ q[i - 1].type = "REQUEST")

\* The last REQUEST has no operation_t behind it.
Owes(p, q) == IF q = <<>> THEN p = "calc" ELSE q[Len(q)].type = "REQUEST"

\* The terminal is between the two datagrams of an order to c.
Half(c) == termPc = "operation_t" /\ clients[termAt].addr = c

Talking == {"response", "read", "pong", "calc", "result"}

\* The socket for the web has no datagram of a local client; a local client is
\* in the socket with one LOGIN at most, and not while main has that in hand.
LoginOnce ==
  /\ \A i \in DOMAIN socket["WEB"] : socket["WEB"][i].addr \notin Local
  /\ \A c \in Local :
       /\ \A i, j \in DOMAIN socket["LOCAL"] :
            LoginOf(c, socket["LOCAL"][i]) /\ LoginOf(c, socket["LOCAL"][j]) => i = j
       /\ LoginOf(c, msg) => \A i \in DOMAIN socket["LOCAL"] : ~LoginOf(c, socket["LOCAL"][i])

\* Before its LOGIN is handled a client is not listed and nothing is sent to it.
Starts(c) ==
  /\ Pending(c) => c \notin Listed /\ inbox[c] = <<>> /\ pc[c] \in {"response", "exit", "gone"}
  /\ pc[c] = "login" => c \notin Listed /\ inbox[c] = <<>>
  /\ pc[c] = "response" => Pending(c) \/ inbox[c] # <<>>

Follows(c) ==
  pc[c] \in Talking => Talks(pc[c], inbox[c]) /\ (Owes(pc[c], inbox[c]) <=> Half(c))

LocalInv == LoginOnce /\ \A c \in Local : Starts(c) /\ Follows(c)

LEMMA HeadRemoved ==
  ASSUME NEW q \in Seq(Datagrams), NEW r, r = RemoveAt(q, 1), q # <<>>
  PROVE  /\ 1 \in DOMAIN q /\ r \in Seq(Datagrams) /\ Len(r) = Len(q) - 1
         /\ Len(q) \in Nat /\ DOMAIN q = 1..Len(q) /\ DOMAIN r = 1..(Len(q) - 1)
         /\ \A i \in DOMAIN r : i + 1 \in DOMAIN q /\ r[i] = q[i + 1]
<1>1. 1 \in DOMAIN q /\ Len(q) \in Nat /\ DOMAIN q = 1..Len(q)
  OBVIOUS
<1>2. /\ r \in Seq(Datagrams) /\ Len(r) = Len(q) - 1
      /\ \A j \in DOMAIN r :
           /\ j \in Nat
           /\ j < 1 => j \in DOMAIN q /\ r[j] = q[j]
           /\ j >= 1 => j + 1 \in DOMAIN q /\ r[j] = q[j + 1]
  <2>1. PICK i \in DOMAIN q : i = 1
    BY <1>1
  <2>2. r = RemoveAt(q, i)
    BY <2>1
  <2>3. /\ r \in Seq(Datagrams) /\ Len(r) = Len(q) - 1
        /\ \A j \in DOMAIN r :
             /\ j \in Nat
             /\ j < i => j \in DOMAIN q /\ r[j] = q[j]
             /\ j >= i => j + 1 \in DOMAIN q /\ r[j] = q[j + 1]
    BY ONLY <2>2, RemovedFrom
  <2> QED BY <2>1, <2>3
<1>3. DOMAIN r = 1..Len(r)
  BY <1>2
<1>4. \A j \in DOMAIN r : j >= 1
  BY <1>2, <1>3
<1> QED BY <1>1, <1>2, <1>3, <1>4

LEMMA Grows ==
  ASSUME NEW q \in Seq(Datagrams), NEW d \in Datagrams, NEW r, r = Append(q, d), NEW p,
         Talks(p, q),
         d.type \in Answers \cup {"PING", "REQUEST", "operation_t"},
         d.type \in Answers <=> q = <<>> /\ p = "response",
         d.type = "operation_t" <=> Owes(p, q)
  PROVE  Talks(p, r) /\ (Owes(p, r) <=> d.type = "REQUEST")
<1>1. /\ r \in Seq(Datagrams) /\ Len(r) = Len(q) + 1 /\ DOMAIN r = 1..(Len(q) + 1)
      /\ Len(q) \in Nat /\ DOMAIN q = 1..Len(q)
      /\ \A i \in DOMAIN q : r[i] = q[i]
      /\ r[Len(q) + 1] = d
  BY AppendedFrom
<1>2. r # <<>> /\ (q = <<>> <=> Len(q) = 0)
  BY <1>1
<1>3. Owes(p, r) <=> d.type = "REQUEST"
  BY <1>1, <1>2 DEF Owes
<1>4. ASSUME NEW i \in DOMAIN r
      PROVE  /\ r[i].type \in Answers \cup {"PING", "REQUEST", "operation_t"}
             /\ r[i].type \in Answers <=> i = 1 /\ p = "response"
             /\ r[i].type = "operation_t" <=>
                  (i = 1 /\ p = "calc") \/ (i # 1 /\ r[i - 1].type = "REQUEST")
  <2>1. CASE i \in DOMAIN q
    <3>1. i # 1 => r[i - 1] = q[i - 1]
      BY <1>1, <2>1
    <3>2. r[i] = q[i]
      BY <1>1, <2>1
    <3> QED BY <2>1, <3>1, <3>2 DEF Talks
  <2>2. CASE i = Len(q) + 1
    <3>1. r[i] = d
      BY <1>1, <2>2
    <3>2. CASE q = <<>>
      BY <1>2, <2>2, <3>1, <3>2 DEF Owes
    <3>3. CASE q # <<>>
      <4>1. i # 1 /\ i - 1 = Len(q) /\ Len(q) \in DOMAIN q
        BY <1>1, <1>2, <2>2, <3>3
      <4>2. r[i - 1] = q[Len(q)]
        BY <1>1, <4>1
      <4> QED BY <3>1, <3>3, <4>1, <4>2 DEF Owes
    <3> QED BY <3>2, <3>3
  <2> QED BY <1>1, <2>1, <2>2
<1> QED BY <1>3, <1>4 DEF Talks

LEMMA Shrinks ==
  ASSUME NEW q \in Seq(Datagrams), q # <<>>, NEW r, r = RemoveAt(q, 1), NEW p, NEW p2,
         Talks(p, q),
         \/ p = "response" /\ p2 = "read"
         \/ p = "read" /\ q[1].type = "REQUEST" /\ p2 = "calc"
         \/ p = "read" /\ q[1].type # "REQUEST" /\ p2 = "pong"
         \/ p = "calc" /\ p2 = "result"
  PROVE  Talks(p2, r) /\ (Owes(p2, r) <=> Owes(p, q))
<1>1. /\ 1 \in DOMAIN q /\ r \in Seq(Datagrams) /\ Len(r) = Len(q) - 1
      /\ Len(q) \in Nat /\ DOMAIN q = 1..Len(q) /\ DOMAIN r = 1..(Len(q) - 1)
      /\ \A i \in DOMAIN r : i + 1 \in DOMAIN q /\ r[i] = q[i + 1]
  BY HeadRemoved
<1>2. p2 = "calc" <=> q[1].type = "REQUEST"
  BY <1>1 DEF Talks, Answers
<1>3. p2 # "response"
  OBVIOUS
<1>4. Talks(p2, r)
  <2> SUFFICES ASSUME NEW i \in DOMAIN r
               PROVE  /\ r[i].type \in Answers \cup {"PING", "REQUEST", "operation_t"}
                      /\ r[i].type \in Answers <=> i = 1 /\ p2 = "response"
                      /\ r[i].type = "operation_t" <=>
                           (i = 1 /\ p2 = "calc") \/ (i # 1 /\ r[i - 1].type = "REQUEST")
    BY DEF Talks
  <2>1. i + 1 \in DOMAIN q /\ r[i] = q[i + 1] /\ i + 1 # 1 /\ (i + 1) - 1 = i
    BY <1>1
  <2>2. i # 1 => r[i - 1] = q[i]
    <3>1. i # 1 => i - 1 \in DOMAIN r /\ (i - 1) + 1 = i
      BY <1>1
    <3> QED BY <1>1, <3>1
  <2>3. /\ q[i + 1].type \in Answers \cup {"PING", "REQUEST", "operation_t"}
        /\ ~(q[i + 1].type \in Answers)
        /\ q[i + 1].type = "operation_t" <=> q[i].type = "REQUEST"
    BY <2>1 DEF Talks
  <2>4. i = 1 \/ i # 1
    OBVIOUS
  <2> QED BY <1>2, <1>3, <2>1, <2>2, <2>3, <2>4
<1>5. Owes(p2, r) <=> Owes(p, q)
  <2>1. CASE r = <<>>
    <3>1. Len(q) = 1
      BY <1>1, <2>1
    <3> QED BY <1>2, <2>1, <3>1 DEF Owes
  <2>2. CASE r # <<>>
    <3>1. Len(r) \in DOMAIN r /\ Len(r) + 1 = Len(q)
      BY <1>1, <2>2
    <3>2. r[Len(r)] = q[Len(q)]
      BY <1>1, <3>1
    <3> QED BY <2>2, <3>2 DEF Owes
  <2> QED BY <2>1, <2>2
<1> QED BY <1>4, <1>5

\* Main takes a datagram in hand.
LEMMA PassedOn ==
  ASSUME Types, LoginOnce, NEW kind \in Kinds, message(kind)
  PROVE  LoginOnce' /\ \A c \in Local : Pending(c)' <=> Pending(c)
<1>1. PICK i \in Arriving(kind, socket[kind]) : \E rest :
        /\ Read(kind, socket[kind], rest, i) /\ socket' = [socket EXCEPT ![kind] = rest]
        /\ msg' = IF socket[kind][i].type = "RESULT" THEN Nothing ELSE socket[kind][i]
  BY DEF message
<1>2. PICK rest :
        /\ Read(kind, socket[kind], rest, i) /\ socket' = [socket EXCEPT ![kind] = rest]
        /\ msg' = IF socket[kind][i].type = "RESULT" THEN Nothing ELSE socket[kind][i]
  BY <1>1
<1>3. PICK q \in Seq(Datagrams) : q = socket[kind]
  BY DEF Types
<1>4. Read(kind, q, rest, i) /\ i \in Arriving(kind, q) /\ repeats \in 0..MaxRepeats
  BY <1>1, <1>2, <1>3 DEF Types
<1>5. /\ i \in DOMAIN q
      /\ kind = "LOCAL" => i = 1 /\ rest = RemoveAt(q, 1)
      /\ \A j \in DOMAIN rest : \E k \in DOMAIN q : rest[j] = q[k]
  BY <1>4, ReadDoes
<1>6. socket'[kind] = rest /\ \A k \in Kinds : k # kind => socket'[k] = socket[k]
  BY <1>2 DEF Types
<1>7. \A c : ~LoginOf(c, msg) /\ (LoginOf(c, msg') <=> LoginOf(c, q[i]))
  <2>1. \A c : ~LoginOf(c, Nothing)
    BY NothingType DEF LoginOf
  <2>2. msg = Nothing
    BY DEF message
  <2>3. \A c : LoginOf(c, msg') <=> LoginOf(c, q[i])
    <3>1. CASE q[i].type = "RESULT"
      BY <1>2, <1>3, <2>1, <3>1 DEF LoginOf
    <3>2. CASE q[i].type # "RESULT"
      BY <1>2, <1>3, <3>2
    <3> QED BY <3>1, <3>2
  <2> QED BY <2>1, <2>2, <2>3
<1>8. CASE kind = "WEB"
  <2>1. socket'["LOCAL"] = socket["LOCAL"] /\ socket'["WEB"] = rest /\ q = socket["WEB"]
    BY <1>3, <1>6, <1>8 DEF Kinds
  <2>2. \A c \in Local : ~LoginOf(c, q[i])
    BY <1>5, <2>1 DEF LoginOnce, LoginOf
  <2>3. \A c \in Local : ~LoginOf(c, msg) /\ ~LoginOf(c, msg')
    BY <1>7, <2>2
  <2>4. \A j \in DOMAIN rest : rest[j].addr \notin Local
    BY <1>5, <2>1 DEF LoginOnce
  <2> QED BY <2>1, <2>3, <2>4 DEF LoginOnce, Pending
<1>9. CASE kind = "LOCAL"
  <2>1. socket'["WEB"] = socket["WEB"] /\ socket'["LOCAL"] = rest /\ q = socket["LOCAL"]
    BY <1>3, <1>6, <1>9 DEF Kinds
  <2>2. i = 1 /\ rest = RemoveAt(q, 1) /\ q # <<>>
    BY <1>5, <1>9
  <2>3. /\ DOMAIN q = 1..Len(q) /\ Len(q) \in Nat /\ DOMAIN rest = 1..(Len(q) - 1)
        /\ \A j \in DOMAIN rest : j + 1 \in DOMAIN q /\ rest[j] = q[j + 1]
    BY <2>2, HeadRemoved
  <2>4. /\ \A j, k \in DOMAIN rest : j + 1 = k + 1 => j = k
        /\ \A j \in DOMAIN rest : j + 1 # 1
        /\ \A k \in DOMAIN q : k = 1 \/ \E j \in DOMAIN rest : k = j + 1
    <3>1. \A k \in DOMAIN q : k # 1 => k - 1 \in DOMAIN rest /\ k = (k - 1) + 1
      BY <2>3
    <3> QED BY <2>3, <3>1
  <2>5. ASSUME NEW c \in Local
        PROVE  /\ \A j, k \in DOMAIN rest : LoginOf(c, rest[j]) /\ LoginOf(c, rest[k]) => j = k
               /\ LoginOf(c, msg') => \A j \in DOMAIN rest : ~LoginOf(c, rest[j])
               /\ Pending(c)' <=> Pending(c)
    <3>1. \A j, k \in DOMAIN q : LoginOf(c, q[j]) /\ LoginOf(c, q[k]) => j = k
      BY <2>1 DEF LoginOnce
    <3>2. \A j, k \in DOMAIN rest : LoginOf(c, rest[j]) /\ LoginOf(c, rest[k]) => j = k
      BY <2>3, <2>4, <3>1
    <3>3. LoginOf(c, msg') => \A j \in DOMAIN rest : ~LoginOf(c, rest[j])
      BY <1>5, <1>7, <2>2, <2>3, <2>4, <3>1
    <3>4. (\E k \in DOMAIN q : LoginOf(c, q[k]))
            <=> LoginOf(c, q[1]) \/ \E j \in DOMAIN rest : LoginOf(c, rest[j])
      <4>1. \A k \in DOMAIN q : k # 1 =>
              \E j \in DOMAIN rest : q[k] = rest[j]
        BY <2>3, <2>4
      <4>2. 1 \in DOMAIN q
        BY <1>5, <2>2
      <4> QED BY <2>3, <4>1, <4>2
    <3>5. Pending(c)' <=> Pending(c)
      BY <1>7, <2>1, <2>2, <3>4 DEF Pending
    <3> QED BY <3>2, <3>3, <3>5
  <2> QED BY <2>1, <2>5 DEF LoginOnce
<1> QED BY <1>8, <1>9 DEF Kinds

\* Main has handled the message in hand.
LEMMA Handled ==
  ASSUME LoginOnce, socket' = socket, msg' = Nothing
  PROVE  /\ LoginOnce'
         /\ \A c \in Local : /\ LoginOf(c, msg) => Pending(c) /\ ~Pending(c)'
                             /\ ~LoginOf(c, msg) => (Pending(c)' <=> Pending(c))
<1>1. \A c : ~LoginOf(c, msg')
  BY NothingType DEF LoginOf
<1> QED BY <1>1 DEF LoginOnce, Pending

LEMMA NothingMoves ==
  ASSUME LoginOnce, socket' = socket, msg' = msg
  PROVE  LoginOnce' /\ \A c \in Local : Pending(c)' <=> Pending(c)
BY DEF LoginOnce, Pending

\* A client has sent a datagram.
LEMMA SendLogin ==
  ASSUME Types, LoginOnce, NEW c \in Procs, NEW type \in Range(MessageTypes), NEW n \in Orders,
         Send(c, type, n), msg' = msg, type = "LOGIN" /\ c \in Local => ~Pending(c)
  PROVE  /\ LoginOnce'
         /\ \A e \in Local :
              Pending(e)' <=> Pending(e) \/ (e = c /\ type = "LOGIN")
<1>1. PICK d \in Datagrams : d = Datagram(type, c, n) /\ d.type = type /\ d.addr = c
  BY DatagramType
<1>2. /\ \A k \in Kinds : k # Kind(c) => socket'[k] = socket[k]
      /\ socket'[Kind(c)] = Append(socket[Kind(c)], d)
  BY <1>1, SendDoes
<1>3. PICK kind \in Kinds : kind = Kind(c) /\ (c \in Local <=> kind = "LOCAL")
  BY KindOf
<1>4. PICK q, r : q \in Seq(Datagrams) /\ q = socket[kind] /\ r = socket'[kind]
  BY DEF Types
<1>5. r = Append(q, d)
  BY <1>2, <1>3, <1>4
<1>6. /\ Len(q) \in Nat /\ DOMAIN q = 1..Len(q) /\ DOMAIN r = 1..(Len(q) + 1)
      /\ \A i \in DOMAIN q : r[i] = q[i]
      /\ r[Len(q) + 1] = d
  <2>1. q \in Seq(Datagrams) /\ d \in Datagrams
    BY <1>1, <1>4
  <2> QED BY ONLY <1>5, <2>1, AppendedFrom
<1>7. /\ \A i \in DOMAIN r : i \in DOMAIN q \/ i = Len(q) + 1
      /\ Len(q) + 1 \in DOMAIN r /\ Len(q) + 1 \notin DOMAIN q
      /\ \A i \in DOMAIN q : i \in DOMAIN r
  BY <1>6
<1>8. \A e : LoginOf(e, d) <=> e = c /\ type = "LOGIN"
  BY <1>1 DEF LoginOf
<1>9. CASE kind = "WEB"
  <2>1. /\ socket'["LOCAL"] = socket["LOCAL"] /\ socket'["WEB"] = r /\ q = socket["WEB"]
        /\ c \notin Local
    BY <1>2, <1>3, <1>4, <1>9 DEF Kinds
  <2>2. \A i \in DOMAIN r : r[i].addr \notin Local
    BY <1>1, <1>6, <1>7, <2>1 DEF LoginOnce
  <2> QED BY <2>1, <2>2 DEF LoginOnce, Pending
<1>10. CASE kind = "LOCAL"
  <2>1. /\ socket'["WEB"] = socket["WEB"] /\ socket'["LOCAL"] = r /\ q = socket["LOCAL"]
        /\ c \in Local
    BY <1>2, <1>3, <1>4, <1>10 DEF Kinds
  <2>2. ASSUME NEW e \in Local
        PROVE  /\ \A j, k \in DOMAIN r : LoginOf(e, r[j]) /\ LoginOf(e, r[k]) => j = k
               /\ LoginOf(e, msg') => \A j \in DOMAIN r : ~LoginOf(e, r[j])
               /\ Pending(e)' <=> Pending(e) \/ (e = c /\ type = "LOGIN")
    <3>1. /\ \A j, k \in DOMAIN q : LoginOf(e, q[j]) /\ LoginOf(e, q[k]) => j = k
          /\ LoginOf(e, msg) => \A j \in DOMAIN q : ~LoginOf(e, q[j])
      BY <2>1 DEF LoginOnce
    <3>2. (\E j \in DOMAIN r : LoginOf(e, r[j]))
            <=> (\E j \in DOMAIN q : LoginOf(e, q[j])) \/ LoginOf(e, d)
      BY <1>6, <1>7
    <3>3. Pending(e)' <=> Pending(e) \/ (e = c /\ type = "LOGIN")
      BY <1>8, <2>1, <3>2 DEF Pending
    <3>4. LoginOf(e, d) => ~LoginOf(e, msg) /\ \A j \in DOMAIN q : ~LoginOf(e, q[j])
      BY <1>8, <2>1 DEF Pending
    <3>5. \A j, k \in DOMAIN r : LoginOf(e, r[j]) /\ LoginOf(e, r[k]) => j = k
      BY <1>6, <1>7, <3>1, <3>4
    <3>6. LoginOf(e, msg') => \A j \in DOMAIN r : ~LoginOf(e, r[j])
      BY <1>6, <1>7, <3>1, <3>4
    <3> QED BY <3>3, <3>5, <3>6
  <2> QED BY <2>1, <2>2 DEF LoginOnce
<1> QED BY <1>9, <1>10 DEF Kinds

-----------------------------------------------------------------------------
(* A step that leaves a local client alone. *)
LEMMA Undisturbed ==
  ASSUME NEW c, Starts(c), Follows(c), Pending(c)' <=> Pending(c),
         c \in Listed' => c \in Listed, inbox'[c] = inbox[c], pc'[c] = pc[c],
         Half(c)' <=> Half(c)
  PROVE  Starts(c)' /\ Follows(c)'
BY DEF Starts, Follows

LEMMA SameListed == SameList => Listed' = Listed
<1> SUFFICES ASSUME SameList PROVE Listed' = Listed
  OBVIOUS
<1> QED BY DEF SameList, Listed

LEMMA KeptListed == clients' = clients => SameList /\ Listed' = Listed
BY DEF SameList, Listed

LEMMA HalfListed ==
  ASSUME Types, NEW c, Half(c)
  PROVE  c \in Listed
BY DEF Types, Holders, Half, Listed

\* The terminal or the ping thread writes to a client on the list.
LEMMA Receives ==
  ASSUME Types, NEW c \in Local, Starts(c), Follows(c), c \in Listed, NEW d \in Datagrams,
         Deliver(c, d), pc' = pc, Pending(c)' <=> Pending(c),
         d.type \in {"PING", "REQUEST", "operation_t"},
         d.type = "operation_t" <=> Half(c), d.type = "REQUEST" <=> Half(c)'
  PROVE  Starts(c)' /\ Follows(c)'
<1>1. c \in Procs
  BY Sizes
<1>2. PICK q, r : q \in Seq(Datagrams) /\ q = inbox[c] /\ r = inbox'[c]
  BY <1>1 DEF Types
<1>3. /\ pc[c] = "gone" => r = q
      /\ pc[c] # "gone" => r = Append(q, d)
  BY <1>1, <1>2, DeliverDoes
<1>4. ~Pending(c) /\ ~Pending(c)' /\ pc[c] # "login" /\ (pc[c] = "response" => q # <<>>)
  BY <1>2 DEF Starts
<1>5. pc[c] # "gone" => r # <<>>
  BY <1>2, <1>3, AppendedFrom
<1>6. Starts(c)'
  BY <1>2, <1>4, <1>5 DEF Starts
<1>7. ASSUME pc[c] \in Talking
      PROVE  Talks(pc[c], r) /\ (Owes(pc[c], r) <=> Half(c)')
  <2>1. Talks(pc[c], q) /\ (Owes(pc[c], q) <=> Half(c))
    BY <1>2, <1>7 DEF Follows
  <2>2. r = Append(q, d)
    BY <1>3, <1>7 DEF Talking
  <2>3. /\ d.type \in Answers \cup {"PING", "REQUEST", "operation_t"}
        /\ ~(d.type \in Answers) /\ ~(q = <<>> /\ pc[c] = "response")
    BY <1>4 DEF Answers
  <2>4. PICK p : p = pc[c]
    OBVIOUS
  <2>5. Talks(p, r) /\ (Owes(p, r) <=> d.type = "REQUEST")
    BY <1>2, <2>1, <2>2, <2>3, <2>4, Grows
  <2> QED BY <2>4, <2>5
<1>8. Follows(c)'
  BY <1>2, <1>7 DEF Follows
<1> QED BY <1>6, <1>8

\* Main answers a LOGIN.
LEMMA IsAnswered ==
  ASSUME Types, NEW c \in Local, Starts(c), Follows(c), Pending(c), ~Pending(c)',
         NEW d \in Datagrams, Deliver(c, d), d.type \in Answers, pc' = pc, ~Half(c)'
  PROVE  Starts(c)' /\ Follows(c)'
<1>1. c \in Procs
  BY Sizes
<1>2. inbox[c] = <<>> /\ pc[c] \in {"response", "exit", "gone"}
  BY DEF Starts
<1>3. PICK q, r : q \in Seq(Datagrams) /\ q = inbox[c] /\ r = inbox'[c]
  BY <1>1 DEF Types
<1>4. pc[c] # "gone" => r = Append(q, d)
  BY <1>1, <1>3, DeliverDoes
<1>5. ASSUME pc[c] = "response"
      PROVE  r # <<>> /\ Talks("response", r) /\ ~Owes("response", r)
  <2>1. r = Append(q, d) /\ q = <<>>
    BY <1>2, <1>3, <1>4, <1>5
  <2>2. /\ Talks("response", q) /\ ~Owes("response", q)
        /\ d.type # "operation_t" /\ d.type # "REQUEST"
    BY <2>1 DEF Talks, Owes, Answers
  <2>3. Talks("response", r) /\ (Owes("response", r) <=> d.type = "REQUEST")
    BY <1>3, <2>1, <2>2, Grows
  <2>4. r # <<>>
    BY <1>3, <2>1, AppendedFrom
  <2> QED BY <2>2, <2>3, <2>4
<1>6. pc'[c] \in Talking => pc[c] = "response"
  BY <1>2 DEF Talking
<1> QED BY <1>2, <1>3, <1>5, <1>6 DEF Starts, Follows

-----------------------------------------------------------------------------
(* The server's steps. *)
LEMMA messageLocal ==
  ASSUME Types, LocalInv, NEW kind \in Kinds, message(kind)
  PROVE  LocalInv'
<1>1. LoginOnce' /\ \A c \in Local : Pending(c)' <=> Pending(c)
  BY PassedOn DEF LocalInv
<1>2. UNCHANGED <<clients, inbox, pc, termPc, termAt>>
  BY DEF message, procs
<1>3. \A c : Half(c)' <=> Half(c)
  BY <1>2 DEF Half
<1> QED BY <1>1, <1>2, <1>3, KeptListed, Undisturbed DEF LocalInv

LEMMA HandlersLocal ==
  ASSUME Types, ListInv, LocalInv, login_client \/ logoutClient \/ pong
  PROVE  LocalInv'
<1>1. PICK type \in {"LOGIN", "LOGOUT", "PONG"} :
        /\ Handles(type)
        /\ type = "LOGIN" => login_client
        /\ type = "LOGOUT" => logoutClient
        /\ type = "PONG" => pong
  BY DEF login_client, logoutClient, pong
<1>2. type \in Range(MessageTypes)
  BY <1>1, KnownTypes
<1>3. /\ msg \in Datagrams /\ msg.type = type /\ msg.addr \in Procs /\ termPc # "operation_t"
      /\ UNCHANGED <<socket, termPc, termAt, pc, name>> /\ msg' = Nothing
  BY <1>1, <1>2, HandlesTypes
<1>4. \A c : ~Half(c) /\ ~Half(c)'
  BY <1>3 DEF Half
<1>5. /\ LoginOnce'
      /\ \A c \in Local : /\ LoginOf(c, msg) => Pending(c) /\ ~Pending(c)'
                          /\ ~LoginOf(c, msg) => (Pending(c)' <=> Pending(c))
  BY <1>3, Handled DEF LocalInv
<1>6. CASE type = "LOGIN"
  <2>1. PICK a \in Procs : a = msg.addr
    BY <1>3
  <2>2. PICK answer \in Answers : Reply(answer)
    BY <1>1, <1>6 DEF login_client, Answers
  <2>3. answer \in Range(MessageTypes)
    BY <2>2, KnownTypes DEF Answers
  <2>4. PICK d \in Datagrams : d = Datagram(answer, a, 0) /\ d.type = answer
    BY <2>3, DatagramType, Sizes
  <2>5. Deliver(a, d)
    BY <1>3, <2>1, <2>2, <2>3, <2>4, ReplyTypes
  <2>6. \A c \in Procs : c # a => inbox'[c] = inbox[c]
    BY <2>5, DeliverDoes
  <2>7. \A c : c # a => (c \in Listed' => c \in Listed)
    <3>1. CASE clients' = clients
      BY <3>1, KeptListed
    <3>2. CASE clients' = Append(clients, [addr |-> msg.addr, name |-> name[msg.addr],
                                           is_inactive |-> 0])
      <4>1. PICK e : e = [addr |-> msg.addr, name |-> name[msg.addr], is_inactive |-> 0]
        OBVIOUS
      <4>2. e \in Entry /\ e.addr = a
        BY <4>1, <1>3, <2>1 DEF Types, Entry
      <4>3. clients \in Seq(Entry) /\ clients' = Append(clients, e)
        BY <3>2, <4>1 DEF Types
      <4>4. \A i \in DOMAIN clients' :
              clients'[i] = e \/ (i \in DOMAIN clients /\ clients'[i] = clients[i])
        <5>1. PICK s, t : s \in Seq(Entry) /\ s = clients /\ t = clients'
          BY <4>3
        <5>2. t = Append(s, e) /\ e \in Entry /\ Len(s) \in Nat
          BY <4>2, <4>3, <5>1
        <5>3. /\ DOMAIN t = 1..(Len(s) + 1) /\ DOMAIN s = 1..Len(s)
              /\ t[Len(s) + 1] = e
              /\ \A i \in 1..Len(s) : t[i] = s[i]
          BY <5>1, <5>2
        <5>4. ASSUME NEW i \in DOMAIN t
              PROVE  t[i] = e \/ (i \in DOMAIN s /\ t[i] = s[i])
          <6>1. i \in 1..(Len(s) + 1)
            BY <5>3, Zenon
          <6>2. i = Len(s) + 1 \/ i \in 1..Len(s)
            BY ONLY <5>2, <6>1
          <6> QED BY <5>3, <6>2, Zenon
        <5> QED BY <5>1, <5>4
      <4> QED BY <4>2, <4>4 DEF Listed
    <3> QED BY <1>1, <1>6, <3>1, <3>2 DEF login_client
  <2>8. ASSUME NEW c \in Local
        PROVE  Starts(c)' /\ Follows(c)'
    <3>1. CASE c = a
      BY <1>3, <1>4, <1>5, <1>6, <2>1, <2>4, <2>5, <3>1, IsAnswered DEF LocalInv, LoginOf
    <3>2. CASE c # a
      <4>1. ~LoginOf(c, msg) /\ c \in Procs
        BY <2>1, <3>2, Sizes DEF LoginOf
      <4> QED BY <1>3, <1>4, <1>5, <2>6, <2>7, <3>2, <4>1, Undisturbed DEF LocalInv
    <3> QED BY <3>1, <3>2
  <2> QED BY <1>5, <2>8 DEF LocalInv
<1>7. CASE type # "LOGIN"
  <2>1. inbox' = inbox /\ \A c : ~LoginOf(c, msg)
    BY <1>1, <1>3, <1>7 DEF logoutClient, pong, LoginOf
  <2>2. \A c : c \in Listed' => c \in Listed
    <3>1. CASE type = "PONG"
      BY <1>1, <3>1, pongTypes, SameListed
    <3>2. CASE type = "LOGOUT"
      <4>1. PICK i : i = check_name(name[msg.addr])
        OBVIOUS
      <4>2. clients' = IF i = 0 THEN clients ELSE RemoveAt(clients, i)
        BY <1>1, <3>2, <4>1 DEF logoutClient
      <4>3. CASE i = 0
        BY <4>2, <4>3, KeptListed
      <4>4. CASE i # 0
        <5>1. i \in DOMAIN clients
          BY <4>1, <4>4, NameFound DEF Types
        <5>2. \A j \in DOMAIN clients' : \E k \in DOMAIN clients : clients'[j] = clients[k]
          BY <1>3, <4>2, <4>4, <5>1, ListShrinks
        <5> QED BY <5>2 DEF Listed
      <4> QED BY <4>3, <4>4
    <3> QED BY <1>7, <3>1, <3>2
  <2> QED BY <1>3, <1>4, <1>5, <2>1, <2>2, Undisturbed DEF LocalInv
<1> QED BY <1>6, <1>7

LEMMA PingLocal ==
  ASSUME Types, ListInv, LocalInv, PingLock \/ PingRemoves \/ PingWrites \/ PingUnlock
  PROVE  LocalInv'
<1>1. UNCHANGED <<socket, msg, termPc, termAt, name, pc>>
  BY DEF PingLock, PingRemoves, PingWrites, PingUnlock, Ping, procs
<1>2. LoginOnce' /\ \A c \in Local : Pending(c)' <=> Pending(c)
  BY <1>1, NothingMoves DEF LocalInv
<1>3. CASE PingLock \/ PingUnlock
  <2>1. clients' = clients /\ inbox' = inbox
    BY <1>3 DEF PingLock, PingUnlock
  <2>2. \A c : Half(c)' <=> Half(c)
    BY <1>1, <2>1 DEF Half
  <2> QED BY <1>1, <1>2, <2>1, <2>2, KeptListed, Undisturbed DEF LocalInv
<1>4. CASE PingRemoves \/ PingWrites
  <2>1. PICK i \in DOMAIN clients : i = pingAt
    BY <1>4 DEF PingRemoves, PingWrites
  <2>2. \A c : ~Half(c) /\ ~Half(c)'
    <3>1. clients \in Seq(Entry)
      BY DEF Types
    <3>2. pingAt # 0
      BY <2>1, <3>1
    <3>3. termPc # "operation_t"
      BY <3>2 DEF Types, Holders
    <3> QED BY <1>1, <3>3 DEF Half
  <2>3. CASE PingRemoves
    <3>1. clients' = RemoveAt(clients, i) /\ inbox' = inbox
      BY <2>1, <2>3 DEF PingRemoves
    <3>2. \A j \in DOMAIN clients' : \E k \in DOMAIN clients : clients'[j] = clients[k]
      BY <1>1, <3>1, ListShrinks
    <3>3. \A c : c \in Listed' => c \in Listed
      BY <3>2 DEF Listed
    <3> QED BY <1>1, <1>2, <2>2, <3>1, <3>3, Undisturbed DEF LocalInv
  <2>4. CASE PingWrites
    <3>1. clients \in Seq(Entry) /\ clients[i] \in Entry
      BY DEF Types
    <3>2. PICK a \in Procs : a = clients[i].addr
      BY <3>1 DEF Entry
    <3>3. PICK d \in Datagrams : d = Datagram("PING", a, 0) /\ d.type = "PING"
      BY DatagramType, KnownTypes, Sizes
    <3>4. Deliver(a, d)
      BY <2>1, <2>4, <3>2, <3>3 DEF PingWrites, SendOrDie
    <3>5. Listed' = Listed /\ a \in Listed
      <4>1. PICK x \in 0..255 : x = 1
        OBVIOUS
      <4>2. clients' = [clients EXCEPT ![i].is_inactive = x]
        BY <2>1, <2>4, <4>1 DEF PingWrites
      <4>3. SameList
        BY <3>1, <4>2, EntryChanges DEF SameList
      <4> QED BY <3>2, <4>3, SameListed DEF Listed
    <3>6. \A c \in Procs : c # a => inbox'[c] = inbox[c]
      BY <3>4, DeliverDoes
    <3>7. ASSUME NEW c \in Local
          PROVE  Starts(c)' /\ Follows(c)'
      <4>1. CASE c = a
        BY <1>1, <1>2, <2>2, <3>3, <3>4, <3>5, <4>1, Receives DEF LocalInv
      <4>2. CASE c # a
        <5>1. c \in Procs
          BY Sizes
        <5> QED BY <1>1, <1>2, <2>2, <3>5, <3>6, <4>2, <5>1, Undisturbed DEF LocalInv
      <4> QED BY <4>1, <4>2
    <3> QED BY <1>2, <3>7 DEF LocalInv
  <2> QED BY <1>4, <2>3, <2>4
<1> QED BY <1>3, <1>4

\* The two datagrams of an order follow each other.
LEMMA TermLocal ==
  ASSUME Types, LocalInv, TermOrder \/ TermNobody \/ TermWriteType \/ TermWriteOperation
  PROVE  LocalInv'
<1>1. UNCHANGED <<clients, socket, msg, name, pc>>
  BY DEF TermOrder, TermNobody, TermWriteType, TermWriteOperation, Term, procs
<1>2. LoginOnce' /\ \A c \in Local : Pending(c)' <=> Pending(c)
  BY <1>1, NothingMoves DEF LocalInv
<1>3. clients \in Seq(Entry) /\ Listed' = Listed
  BY <1>1, KeptListed DEF Types
<1>4. CASE TermOrder \/ TermNobody
  <2>1. /\ inbox' = inbox
        /\ \A c : ~Half(c) /\ ~Half(c)'
    BY <1>4 DEF TermOrder, TermNobody, Term, Half
  <2> QED BY <1>1, <1>2, <1>3, <2>1, Undisturbed DEF LocalInv
<1>5. ASSUME NEW i \in DOMAIN clients, NEW type \in {"REQUEST", "operation_t"},
             NEW n \in Orders, Deliver(clients[i].addr, Datagram(type, clients[i].addr, n)),
             \A c : Half(c) <=> type = "operation_t" /\ c = clients[i].addr,
             \A c : Half(c)' <=> type = "REQUEST" /\ c = clients[i].addr
      PROVE  LocalInv'
  <2>1. clients[i] \in Entry
    BY <1>3
  <2>2. PICK a \in Procs : a = clients[i].addr
    BY <2>1 DEF Entry
  <2>3. PICK d \in Datagrams : d = Datagram(type, a, n) /\ d.type = type
    BY DatagramType, KnownTypes
  <2>4. Deliver(a, d) /\ a \in Listed
    BY <1>5, <2>2, <2>3 DEF Listed
  <2>5. \A c \in Procs : c # a => inbox'[c] = inbox[c]
    BY <2>4, DeliverDoes
  <2>6. ASSUME NEW c \in Local
        PROVE  Starts(c)' /\ Follows(c)'
    <3>1. CASE c = a
      BY <1>1, <1>2, <1>5, <2>2, <2>3, <2>4, <3>1, Receives DEF LocalInv
    <3>2. CASE c # a
      <4>1. c \in Procs /\ ~Half(c) /\ ~Half(c)'
        BY <1>5, <2>2, <3>2, Sizes
      <4> QED BY <1>1, <1>2, <1>3, <2>5, <3>2, <4>1, Undisturbed DEF LocalInv
    <3> QED BY <3>1, <3>2
  <2> QED BY <1>2, <2>6 DEF LocalInv
<1>6. CASE TermWriteType
  <2>1. PICK i \in DOMAIN clients : i = termAt'
    BY <1>6 DEF TermWriteType
  <2>2. Deliver(clients[i].addr, Datagram("REQUEST", clients[i].addr, 0))
    BY <1>6, <2>1 DEF TermWriteType
  <2>3. termPc = "lock" /\ termPc' = "operation_t"
    BY <1>6 DEF TermWriteType, Term
  <2>4. \A c : ~Half(c) /\ (Half(c)' <=> c = clients[i].addr)
    BY <1>1, <2>1, <2>3 DEF Half
  <2> QED BY <1>5, <2>2, <2>4, Sizes
<1>7. CASE TermWriteOperation
  <2>1. termPc = "operation_t" /\ termPc' = "fgets"
    BY <1>7 DEF TermWriteOperation, Term
  <2>2. PICK i \in DOMAIN clients : i = termAt
    BY <2>1 DEF Types, Holders
  <2>3. PICK n \in Orders : n = operation_counter
    BY DEF Types
  <2>4. Deliver(clients[i].addr, Datagram("operation_t", clients[i].addr, n))
    BY <1>7, <2>2, <2>3 DEF TermWriteOperation
  <2>5. \A c : ~Half(c)' /\ (Half(c) <=> c = clients[i].addr)
    BY <2>1, <2>2 DEF Half
  <2> QED BY <1>5, <2>4, <2>5
<1> QED BY <1>4, <1>6, <1>7

-----------------------------------------------------------------------------
(* The clients' steps. *)
LEMMA ReadsHead ==
  ASSUME Types, NEW c \in Local, Follows(c), pc[c] \in Talking,
         NEW i \in Arriving(Kind(c), inbox[c]), Takes(c, i), pc'[c] \in ClientPcs,
         pc[c] = "response" => pc'[c] \in {"read", "exit"},
         pc[c] = "read" => pc'[c] = CASE FirstByte(inbox[c][i]) = "REQUEST" -> "calc"
                                      [] FirstByte(inbox[c][i]) = "PING" -> "pong"
                                      [] OTHER -> "read",
         pc[c] = "calc" => pc'[c] \in {"result", "exit"},
         pc[c] \in {"response", "read", "calc"}, Half(c)' <=> Half(c)
  PROVE  Follows(c)' /\ inbox[c] # <<>>
<1>1. c \in Procs
  BY Sizes
<1>2. PICK q, r, p, p2 : /\ q \in Seq(Datagrams) /\ q = inbox[c] /\ r = inbox'[c]
                         /\ p = pc[c] /\ p2 = pc'[c]
  BY <1>1 DEF Types
<1>3. i \in DOMAIN q /\ i = 1 /\ r = RemoveAt(q, 1)
  BY <1>1, <1>2, TakesDoes
<1>4. q # <<>>
  BY <1>3
<1>5. Talks(p, q) /\ (Owes(p, q) <=> Half(c))
  BY <1>2 DEF Follows
<1>6. p = "read" => q[1].type \in {"REQUEST", "PING"}
  BY <1>3, <1>5 DEF Talks
<1>7. p = "read" => p2 = IF q[1].type = "REQUEST" THEN "calc" ELSE "pong"
  BY <1>2, <1>3, <1>6 DEF FirstByte
<1>8. p2 = "exit" \/ (Talks(p2, r) /\ (Owes(p2, r) <=> Owes(p, q)))
  <2>1. p2 # "exit" =>
          \/ p = "response" /\ p2 = "read"
          \/ p = "read" /\ q[1].type = "REQUEST" /\ p2 = "calc"
          \/ p = "read" /\ q[1].type # "REQUEST" /\ p2 = "pong"
          \/ p = "calc" /\ p2 = "result"
    BY <1>2, <1>7
  <2> QED BY <1>2, <1>3, <1>4, <1>5, <2>1, Shrinks
<1> QED BY <1>2, <1>4, <1>5, <1>8 DEF Follows, Talking

LEMMA ClientLocal ==
  ASSUME Types, LocalInv, NEW c \in Procs, Client(c)
  PROVE  LocalInv'
<1>1. PICK from, to \in ClientPcs : At(c, from, to)
  <2>1. pc[c] \in ClientPcs
    BY DEF Types
  <2> QED BY <2>1 DEF Client, login, response, read, sendPong, calc, sendResult, sigIntHandler,
                      funAtExit, Killed, ClientPcs
<1>2. /\ pc'[c] = to /\ pc[c] = from /\ \A d \in Procs : d # c => pc'[d] = pc[d]
      /\ UNCHANGED <<clients, termPc, termAt, msg>>
  BY <1>1, ClientDoes
<1>3. Listed' = Listed /\ \A d : Half(d)' <=> Half(d)
  BY <1>2, KeptListed DEF Half
<1>4. \A d \in Procs : d # c => inbox'[d] = inbox[d]
  <2>1. CASE response(c) \/ read(c) \/ calc(c)
    BY <2>1, TakesDoes DEF response, read, calc
  <2>2. CASE ~(response(c) \/ read(c) \/ calc(c))
    BY <2>2 DEF Client, login, sendPong, sendResult, sigIntHandler, funAtExit, Killed, Types
  <2> QED BY <2>1, <2>2
<1>5. ASSUME NEW type \in Range(MessageTypes) \ {"LOGIN"}, NEW n \in Orders, Send(c, type, n)
      PROVE  LoginOnce' /\ \A d \in Local : Pending(d)' <=> Pending(d)
  BY <1>2, <1>5, SendLogin DEF LocalInv
<1>6. CASE login(c)
  <2>1. /\ from = "login" /\ to = "response" /\ inbox' = inbox /\ Send(c, "LOGIN", 0)
    BY <1>2, <1>6 DEF login, At, Types
  <2>2. c \in Local => ~Pending(c) /\ c \notin Listed /\ inbox[c] = <<>>
    BY <1>2, <2>1 DEF LocalInv, Starts
  <2>3. /\ LoginOnce'
        /\ \A e \in Local : Pending(e)' <=> Pending(e) \/ e = c
    BY <1>2, <2>1, <2>2, SendLogin, KnownTypes, Sizes DEF LocalInv
  <2>4. ASSUME NEW d \in Local
        PROVE  Starts(d)' /\ Follows(d)'
    <3>1. CASE d # c
      BY <1>2, <1>3, <1>4, <2>3, <3>1, Sizes, Undisturbed DEF LocalInv
    <3>2. CASE d = c
      <4>1. /\ Pending(c)' /\ c \notin Listed' /\ inbox'[c] = <<>> /\ pc'[c] = "response"
            /\ ~Half(c)'
        BY <1>2, <1>3, <2>1, <2>2, <2>3, <3>2, HalfListed
      <4>2. Talks("response", <<>>) /\ ~Owes("response", <<>>)
        BY DEF Talks, Owes
      <4> QED BY <3>2, <4>1, <4>2 DEF Starts, Follows
    <3> QED BY <3>1, <3>2
  <2> QED BY <2>3, <2>4 DEF LocalInv
<1>7. ASSUME LoginOnce', \A d \in Local : Pending(d)' <=> Pending(d),
             c \in Local => Starts(c)' /\ Follows(c)'
      PROVE  LocalInv'
  <2>1. ASSUME NEW d \in Local
        PROVE  Starts(d)' /\ Follows(d)'
    <3>1. CASE d # c
      BY <1>2, <1>3, <1>4, <1>7, <3>1, Sizes, Undisturbed DEF LocalInv
    <3> QED BY <1>7, <3>1
  <2> QED BY <1>7, <2>1 DEF LocalInv
<1>8. CASE response(c) \/ read(c) \/ calc(c)
  <2>1. PICK i \in Arriving(Kind(c), inbox[c]) :
          /\ Takes(c, i) /\ pc[c] \in {"response", "read", "calc"}
          /\ pc[c] = "response" => pc'[c] \in {"read", "exit"}
          /\ pc[c] = "read" => pc'[c] = CASE FirstByte(inbox[c][i]) = "REQUEST" -> "calc"
                                          [] FirstByte(inbox[c][i]) = "PING" -> "pong"
                                          [] OTHER -> "read"
          /\ pc[c] = "calc" => pc'[c] \in {"result", "exit"}
    BY <1>8 DEF response, read, calc, At, Types
  <2>2. socket' = socket
    BY <2>1 DEF Takes
  <2>3. LoginOnce' /\ \A d \in Local : Pending(d)' <=> Pending(d)
    BY <1>2, <2>2, NothingMoves DEF LocalInv
  <2>4. ASSUME c \in Local
        PROVE  Starts(c)' /\ Follows(c)'
    <3>1. Starts(c) /\ Follows(c) /\ pc[c] \in Talking /\ pc'[c] \in ClientPcs
      BY <1>2, <2>1, <2>4 DEF LocalInv, Talking
    <3>2. Follows(c)' /\ inbox[c] # <<>>
      BY <1>3, <2>1, <2>4, <3>1, ReadsHead
    <3>3. ~Pending(c)' /\ pc'[c] # "login" /\ pc'[c] # "response"
      <4>1. ~Pending(c)'
        BY <2>3, <2>4, <3>1, <3>2 DEF Starts
      <4>2. pc'[c] \in {"read", "exit", "calc", "pong", "result"}
        BY <2>1
      <4> QED BY <4>1, <4>2
    <3> QED BY <3>2, <3>3 DEF Starts
  <2> QED BY <1>7, <2>3, <2>4
<1>9. CASE sendPong(c) \/ sendResult(c)
  <2>1. /\ from \in {"pong", "result"} /\ to = "read" /\ inbox' = inbox
        /\ \E type \in {"PONG", "RESULT"}, n \in Orders : Send(c, type, n)
    <3>1. order[c] \in Orders
      BY DEF Types
    <3> QED BY <1>2, <1>9, <3>1, Sizes DEF sendPong, sendResult, At, Types
  <2>2. LoginOnce' /\ \A d \in Local : Pending(d)' <=> Pending(d)
    BY <1>5, <2>1, KnownTypes
  <2>3. ASSUME c \in Local
        PROVE  Starts(c)' /\ Follows(c)'
    <3>1. Starts(c) /\ Follows(c) /\ pc[c] \in Talking
      BY <1>2, <2>1, <2>3 DEF LocalInv, Talking
    <3>2. ~Pending(c)'
      BY <1>2, <2>1, <2>2, <2>3, <3>1 DEF Starts
    <3>3. Talks("read", inbox[c]) /\ (Owes("read", inbox[c]) <=> Half(c))
      BY <1>2, <2>1, <3>1 DEF Follows, Talks, Owes
    <3> QED BY <1>2, <1>3, <2>1, <3>2, <3>3 DEF Starts, Follows
  <2> QED BY <1>7, <2>2, <2>3
<1>10. CASE sigIntHandler(c) \/ funAtExit(c) \/ Killed(c)
  <2>1. to \in {"exit", "gone"} /\ (inbox'[c] = inbox[c] \/ inbox'[c] = <<>>)
    BY <1>2, <1>10 DEF sigIntHandler, funAtExit, Killed, At, Types
  <2>2. LoginOnce' /\ \A d \in Local : Pending(d)' <=> Pending(d)
    <3>1. CASE funAtExit(c)
      BY <1>5, <3>1, KnownTypes, Sizes DEF funAtExit
    <3>2. CASE sigIntHandler(c) \/ Killed(c)
      <4>1. socket' = socket
        BY <3>2 DEF sigIntHandler, Killed
      <4> QED BY <1>2, <4>1, NothingMoves DEF LocalInv
    <3> QED BY <1>10, <3>1, <3>2
  <2>3. c \in Local => Starts(c)' /\ Follows(c)'
    BY <1>2, <1>3, <2>1, <2>2 DEF LocalInv, Starts, Follows, Talking
  <2> QED BY <1>7, <2>2, <2>3
<1> QED BY <1>6, <1>8, <1>9, <1>10 DEF Client

LEMMA LocalStep == Types /\ ListInv /\ LocalInv /\ [Next]_vars => LocalInv'
<1> SUFFICES ASSUME Types, ListInv, LocalInv, [Next]_vars PROVE LocalInv'
  OBVIOUS
<1>1. CASE Server
  BY <1>1, messageLocal, HandlersLocal, PingLocal, TermLocal DEF Server, Kinds
<1>2. CASE \E c \in Procs : Client(c)
  BY <1>2, ClientLocal
<1>3. CASE UNCHANGED vars
  <2>1. /\ UNCHANGED <<clients, inbox, pc, termPc, termAt, socket, msg>>
    BY <1>3 DEF vars, server, procs
  <2>2. \A c : Half(c)' <=> Half(c)
    BY <2>1 DEF Half
  <2> QED BY <2>1, <2>2, NothingMoves, KeptListed, Undisturbed DEF LocalInv
<1> QED BY <1>1, <1>2, <1>3 DEF Next

LEMMA InitLocal == Init => LocalInv
<1> SUFFICES ASSUME Init PROVE LocalInv
  OBVIOUS
<1>1. /\ socket["WEB"] = <<>> /\ socket["LOCAL"] = <<>> /\ clients = <<>> /\ msg = Nothing
      /\ DOMAIN clients = {} /\ \A c \in Procs : inbox[c] = <<>> /\ pc[c] = "login"
  BY DEF Init
<1>2. \A c : ~LoginOf(c, msg) /\ ~Pending(c) /\ c \notin Listed
  BY <1>1, NothingType DEF LoginOf, Pending, Listed
<1> QED BY <1>1, <1>2, Sizes DEF LocalInv, LoginOnce, Starts, Follows, Talking

\* A local client never takes a datagram for what it is not.
THEOREM LocalClientsUnderstand == Spec => []ClientsUnderstand
<1>1. Types /\ LocalInv => ClientsUnderstand
  <2> SUFFICES ASSUME Types, LocalInv, NEW c \in Local, inbox[c] # <<>>
               PROVE  LET type == Head(inbox[c]).type
                      IN CASE pc[c] = "response" ->
                                type \in {"SUCCESS", "WRONG_NAME", "WRONG_SIZE"}
                           [] pc[c] = "read" -> type \in {"PING", "REQUEST"}
                           [] pc[c] = "calc" -> type = "operation_t"
                           [] OTHER -> TRUE
    BY DEF ClientsUnderstand
  <2>1. inbox[c] \in Seq(Datagrams)
    BY Sizes DEF Types
  <2>2. 1 \in DOMAIN inbox[c] /\ Head(inbox[c]) = inbox[c][1]
    BY <2>1
  <2>3. pc[c] \in Talking => Talks(pc[c], inbox[c])
    BY DEF LocalInv, Follows
  <2>4. pc[c] = "response" => Head(inbox[c]).type \in {"SUCCESS", "WRONG_NAME", "WRONG_SIZE"}
    BY <2>2, <2>3 DEF Talks, Talking, Answers
  <2>5. pc[c] = "read" => Head(inbox[c]).type \in {"PING", "REQUEST"}
    BY <2>2, <2>3 DEF Talks, Talking
  <2>6. pc[c] = "calc" => Head(inbox[c]).type = "operation_t"
    BY <2>2, <2>3 DEF Talks, Talking
  <2> QED BY <2>4, <2>5, <2>6
<1> QED BY InitTypes, StepTypes, InitLocal, LocalStep, <1>1, PTL DEF Spec

-----------------------------------------------------------------------------
(* Pings.  The datagrams of one kind and client in a queue. *)
Places(q, type, c) == {i \in DOMAIN q : q[i].type = type /\ q[i].addr = c}

Match(d, type, c) == IF d.type = type /\ d.addr = c THEN 1 ELSE 0

LEMMA CountIs ==
  ASSUME NEW q \in Seq(Datagrams), NEW type, NEW c
  PROVE  /\ Count(q, type, c) = Cardinality(Places(q, type, c))
         /\ IsFiniteSet(Places(q, type, c)) /\ Count(q, type, c) \in Nat
<1>1. Count(q, type, c) = Cardinality(Places(q, type, c))
  BY DEF Count, Places
<1>2. IsFiniteSet(1..Len(q)) /\ Places(q, type, c) \subseteq 1..Len(q)
  BY FS_Interval DEF Places
<1>3. IsFiniteSet(Places(q, type, c))
  BY <1>2, FS_Subset
<1> QED BY <1>1, <1>3, FS_CardinalityType

LEMMA CountNone ==
  ASSUME NEW type, NEW c
  PROVE  Count(<<>>, type, c) = 0
<1>1. {i \in DOMAIN <<>> : <<>>[i].type = type /\ <<>>[i].addr = c} = {}
  OBVIOUS
<1> QED BY <1>1, FS_EmptySet DEF Count

Added(q, d, r) == r = Append(q, d)

LEMMA CountAppend ==
  ASSUME NEW q \in Seq(Datagrams), NEW d \in Datagrams, NEW r, Added(q, d, r),
         NEW type, NEW c
  PROVE  Count(r, type, c) = Count(q, type, c) + Match(d, type, c)
<1>1. /\ r \in Seq(Datagrams) /\ DOMAIN r = 1..(Len(q) + 1)
      /\ Len(q) \in Nat /\ DOMAIN q = 1..Len(q)
      /\ \A i \in DOMAIN q : r[i] = q[i]
      /\ r[Len(q) + 1] = d
  BY AppendedFrom DEF Added
<1>2. /\ \A i \in DOMAIN r : i \in DOMAIN q \/ i = Len(q) + 1
      /\ \A i \in DOMAIN q : i \in DOMAIN r
      /\ Len(q) + 1 \in DOMAIN r /\ Len(q) + 1 \notin DOMAIN q
  BY <1>1
<1>3. Count(r, type, c) = Cardinality(Places(r, type, c))
  BY <1>1, CountIs
<1>4. /\ Count(q, type, c) = Cardinality(Places(q, type, c))
      /\ IsFiniteSet(Places(q, type, c)) /\ Count(q, type, c) \in Nat
  BY CountIs
<1>5. CASE d.type = type /\ d.addr = c
  <2>1. Places(r, type, c) = Places(q, type, c) \cup {Len(q) + 1}
    BY <1>1, <1>2, <1>5 DEF Places
  <2>2. Len(q) + 1 \notin Places(q, type, c)
    BY <1>2 DEF Places
  <2>3. Cardinality(Places(r, type, c)) = Cardinality(Places(q, type, c)) + 1
    BY <1>4, <2>1, <2>2, FS_AddElement
  <2> QED BY <1>3, <1>4, <1>5, <2>3 DEF Match
<1>6. CASE ~(d.type = type /\ d.addr = c)
  <2>1. Places(r, type, c) = Places(q, type, c)
    BY <1>1, <1>2, <1>6 DEF Places
  <2> QED BY <1>3, <1>4, <1>6, <2>1 DEF Match
<1> QED BY <1>5, <1>6

LEMMA CountHead ==
  ASSUME NEW q \in Seq(Datagrams), q # <<>>, NEW r, r = RemoveAt(q, 1), NEW type, NEW c
  PROVE  Count(q, type, c) = Count(r, type, c) + Match(q[1], type, c)
<1>1. /\ 1 \in DOMAIN q /\ r \in Seq(Datagrams)
      /\ Len(q) \in Nat /\ DOMAIN q = 1..Len(q) /\ DOMAIN r = 1..(Len(q) - 1)
      /\ \A i \in DOMAIN r : i + 1 \in DOMAIN q /\ r[i] = q[i + 1]
  BY HeadRemoved
<1> DEFINE R == Places(r, type, c)
           Q == Places(q, type, c)
           f == [i \in R |-> i + 1]
<1>2. /\ Count(r, type, c) = Cardinality(R) /\ IsFiniteSet(R) /\ Count(r, type, c) \in Nat
      /\ Count(q, type, c) = Cardinality(Q) /\ IsFiniteSet(Q)
  BY <1>1, CountIs
<1>3. /\ \A i \in R : i \in Int /\ f[i] \in Q \ {1}
      /\ \A i, j \in R : f[i] = f[j] => i = j
      /\ \A k \in Q \ {1} : k - 1 \in R /\ f[k - 1] = k
  <2>1. \A i \in R : i \in 1..(Len(q) - 1) /\ f[i] = i + 1
    BY <1>1 DEF Places
  <2>2. \A i \in R : i + 1 \in Q \ {1}
    BY <1>1, <2>1 DEF Places
  <2>3. \A k \in Q \ {1} : k \in 1..Len(q) /\ k # 1
    BY <1>1 DEF Places
  <2>4. \A k \in Q \ {1} : k - 1 \in DOMAIN r /\ (k - 1) + 1 = k
    BY <1>1, <2>3
  <2>5. \A k \in Q \ {1} : k - 1 \in R
    BY <1>1, <2>4 DEF Places
  <2> QED BY <2>1, <2>2, <2>4, <2>5
<1>4. f \in Bijection(R, Q \ {1})
  <2>1. f \in [R -> Q \ {1}]
    BY <1>3
  <2> HIDE DEF f
  <2>2. f \in Injection(R, Q \ {1}) /\ f \in Surjection(R, Q \ {1})
    BY <1>3, <2>1 DEF Injection, Surjection, IsInjective
  <2> QED BY <2>2 DEF Bijection
<1>5. Cardinality(Q \ {1}) = Cardinality(R)
  <2>1. ExistsBijection(R, Q \ {1})
    BY <1>4 DEF ExistsBijection
  <2> QED BY <1>2, <2>1, FS_Bijection
<1>6. 1 \in Q <=> q[1].type = type /\ q[1].addr = c
  BY <1>1 DEF Places
<1> HIDE DEF Q, R, f
<1>7. CASE 1 \in Q
  <2>1. Cardinality(Q \ {1}) = Cardinality(Q) - 1 /\ Cardinality(Q) \in Nat
    BY <1>2, <1>7, FS_RemoveElement, FS_CardinalityType
  <2> QED BY <1>2, <1>5, <1>6, <1>7, <2>1 DEF Match
<1>8. CASE 1 \notin Q
  <2>1. Q \ {1} = Q
    BY <1>8
  <2>2. Cardinality(Q) = Cardinality(R)
    BY <1>5, <2>1, Zenon
  <2> QED BY <1>2, <1>6, <1>8, <2>2 DEF Match
<1> QED BY <1>7, <1>8

\* The four places a ping that is not answered yet may be at.
Ponging(p) == IF p = "pong" THEN 1 ELSE 0

Pings == [inbox : Nat, pc : Nat, socket : Nat, msg : Nat]

LEMMA OutstandingParts ==
  ASSUME Types, Types', NEW c \in Local
  PROVE  \E x, y \in Pings :
           /\ x.inbox = Count(inbox[c], "PING", c) /\ y.inbox = Count(inbox'[c], "PING", c)
           /\ x.pc = Ponging(pc[c]) /\ y.pc = Ponging(pc'[c])
           /\ x.socket = Count(socket["LOCAL"], "PONG", c)
           /\ y.socket = Count(socket'["LOCAL"], "PONG", c)
           /\ x.msg = Match(msg, "PONG", c) /\ y.msg = Match(msg', "PONG", c)
           /\ Outstanding(c) = x.inbox + x.pc + x.socket + x.msg
           /\ Outstanding(c)' = y.inbox + y.pc + y.socket + y.msg
<1>1. c \in Procs /\ Kind(c) = "LOCAL"
  BY Sizes, KindOf
<1>2. /\ inbox[c] \in Seq(Datagrams) /\ inbox'[c] \in Seq(Datagrams)
      /\ socket["LOCAL"] \in Seq(Datagrams) /\ socket'["LOCAL"] \in Seq(Datagrams)
  BY <1>1 DEF Types, Kinds
<1>3. PICK x : x = [inbox |-> Count(inbox[c], "PING", c), pc |-> Ponging(pc[c]),
                    socket |-> Count(socket["LOCAL"], "PONG", c),
                    msg |-> Match(msg, "PONG", c)]
  OBVIOUS
<1>4. PICK y : y = [inbox |-> Count(inbox'[c], "PING", c), pc |-> Ponging(pc'[c]),
                    socket |-> Count(socket'["LOCAL"], "PONG", c),
                    msg |-> Match(msg', "PONG", c)]
  OBVIOUS
<1>5. x \in Pings /\ y \in Pings
  BY <1>2, <1>3, <1>4, CountIs DEF Pings, Ponging, Match
<1>6. Outstanding(c) = x.inbox + x.pc + x.socket + x.msg
  BY <1>1, <1>3 DEF Outstanding, Ponging, Match
<1>7. Outstanding(c)' = y.inbox + y.pc + y.socket + y.msg
  BY <1>1, <1>4 DEF Outstanding, Ponging, Match
<1> QED BY <1>3, <1>4, <1>5, <1>6, <1>7

Gone(c) == pc[c] \in {"exit", "gone"}

LogoutOf(c, d) == d.type = "LOGOUT" /\ d.addr = c

Leaving(c) ==
  LogoutOf(c, msg) \/ \E i \in DOMAIN socket["LOCAL"] : LogoutOf(c, socket["LOCAL"][i])

\* The server's count for c is that of the pings c has not been seen to answer.
Counted(c) ==
  ~Gone(c) =>
    /\ \A i \in DOMAIN clients : clients[i].addr = c => clients[i].is_inactive = Outstanding(c)
    /\ pc[c] = "login" \/ Pending(c) => Outstanding(c) = 0

\* What is in a client's queue was sent to that client.
OwnQueues == \A c \in Procs : \A i \in DOMAIN inbox[c] : inbox[c][i].addr = c

PingInv ==
  /\ OwnQueues
  /\ \A c \in Local : Leaving(c) => pc[c] = "gone"
  /\ \A c \in Sole : Counted(c)

-----------------------------------------------------------------------------
(* What the steps do to the counts. *)
LEMMA Recounted ==
  ASSUME NEW c, Counted(c), Gone(c) => Gone(c)', Outstanding(c)' = Outstanding(c),
         pc'[c] = "login" \/ Pending(c)' => pc[c] = "login" \/ Pending(c),
         \A j \in DOMAIN clients' : clients'[j].addr = c =>
           \E k \in DOMAIN clients : clients[k].addr = c
                                     /\ clients[k].is_inactive = clients'[j].is_inactive
  PROVE  Counted(c)'
BY DEF Counted

LEMMA KeptPlaces ==
  ASSUME clients' = clients, NEW c
  PROVE  \A j \in DOMAIN clients' : clients'[j].addr = c =>
           \E k \in DOMAIN clients : clients[k].addr = c
                                     /\ clients[k].is_inactive = clients'[j].is_inactive
OBVIOUS

LEMMA SoleName ==
  ASSUME NEW c \in Sole
  PROVE  c \in Local /\ c \in Procs /\ \A d \in Procs : name[d] = name[c] => d = c
BY Sizes DEF Sole

LEMMA SameSole == name' = name => Sole' = Sole
BY DEF Sole

LEMMA DeliverCounts ==
  ASSUME Types, OwnQueues, NEW a \in Procs, NEW d \in Datagrams, d.addr = a, Deliver(a, d)
  PROVE  /\ OwnQueues'
         /\ \A c \in Procs :
              Count(inbox'[c], "PING", c) =
                Count(inbox[c], "PING", c)
                  + (IF c = a /\ pc[a] # "gone" /\ d.type = "PING" THEN 1 ELSE 0)
<1>1. /\ \A c \in Procs : c # a => inbox'[c] = inbox[c]
      /\ pc[a] = "gone" => inbox'[a] = inbox[a]
      /\ pc[a] # "gone" => inbox'[a] = Append(inbox[a], d)
  BY DeliverDoes
<1>2. PICK q, r : q \in Seq(Datagrams) /\ q = inbox[a] /\ r = inbox'[a]
  BY DEF Types
<1>3. q \in Seq(Datagrams) /\ \A c \in Procs : inbox[c] \in Seq(Datagrams)
  BY <1>2 DEF Types
<1>4. \A i \in DOMAIN r : r[i].addr = a
  <2>1. \A i \in DOMAIN q : q[i].addr = a
    BY <1>2 DEF OwnQueues
  <2>2. CASE r = q
    BY <2>1, <2>2
  <2>3. CASE r = Append(q, d)
    <3>1. \A i \in DOMAIN r : From(q, r[i]) \/ r[i] = d
      BY <1>3, <2>3, AppendedFrom
    <3> QED BY <2>1, <3>1 DEF From
  <2> QED BY <1>1, <1>2, <2>2, <2>3
<1>5. OwnQueues'
  BY <1>1, <1>2, <1>4 DEF OwnQueues
<1>6. ASSUME NEW c \in Procs
      PROVE  Count(inbox'[c], "PING", c) =
               Count(inbox[c], "PING", c)
                 + (IF c = a /\ pc[a] # "gone" /\ d.type = "PING" THEN 1 ELSE 0)
  <2>1. Count(inbox[c], "PING", c) \in Nat
    BY <1>3, CountIs
  <2>2. CASE c = a /\ pc[a] # "gone"
    <3>1. r = Append(q, d)
      BY <1>1, <1>2, <2>2
    <3>2. Count(r, "PING", a) = Count(q, "PING", a) + Match(d, "PING", a)
      <4>1. Added(q, d, r)
        BY <3>1 DEF Added
      <4> QED BY <1>3, <4>1, CountAppend
    <3> QED BY <1>2, <2>2, <3>2 DEF Match
  <2>3. CASE ~(c = a /\ pc[a] # "gone")
    <3>1. inbox'[c] = inbox[c]
      BY <1>1, <2>3
    <3> QED BY <2>1, <2>3, <3>1
  <2> QED BY <2>2, <2>3
<1> QED BY <1>5, <1>6

LEMMA SendCounts ==
  ASSUME Types, NEW a \in Procs, NEW type \in Range(MessageTypes), NEW n \in Orders,
         Send(a, type, n), msg' = msg, NEW c \in Local
  PROVE  /\ Count(socket'["LOCAL"], "PONG", c) =
              Count(socket["LOCAL"], "PONG", c) + (IF c = a /\ type = "PONG" THEN 1 ELSE 0)
         /\ Leaving(c)' => Leaving(c) \/ (c = a /\ type = "LOGOUT")
<1>1. PICK d \in Datagrams : d = Datagram(type, a, n) /\ d.type = type /\ d.addr = a
  BY DatagramType
<1>2. /\ \A k \in Kinds : k # Kind(a) => socket'[k] = socket[k]
      /\ socket'[Kind(a)] = Append(socket[Kind(a)], d)
  BY <1>1, SendDoes
<1>3. PICK q, r : q \in Seq(Datagrams) /\ q = socket["LOCAL"] /\ r = socket'["LOCAL"]
  BY DEF Types, Kinds
<1>4. q \in Seq(Datagrams) /\ d \in Datagrams /\ Count(q, "PONG", c) \in Nat
  BY <1>1, <1>3, CountIs
<1>5. CASE a \in Local
  <2>1. r = Append(q, d)
    BY <1>2, <1>3, <1>5, KindOf
  <2>2. Count(r, "PONG", c) = Count(q, "PONG", c) + Match(d, "PONG", c)
    <3>1. Added(q, d, r)
      BY <2>1 DEF Added
    <3> QED BY <1>4, <3>1, CountAppend
  <2>3. \A i \in DOMAIN r : From(q, r[i]) \/ r[i] = d
    BY ONLY <1>4, <2>1, AppendedFrom
  <2>4. Leaving(c)' => Leaving(c) \/ (c = a /\ type = "LOGOUT")
    BY <1>1, <1>3, <2>3 DEF Leaving, LogoutOf, From
  <2> QED BY <1>1, <1>3, <2>2, <2>4 DEF Match
<1>6. CASE a \notin Local
  <2>1. r = q
    BY <1>2, <1>3, <1>6, KindOf DEF Kinds
  <2> QED BY <1>3, <1>4, <1>6, <2>1 DEF Leaving
<1> QED BY <1>5, <1>6

LEMMA messageCounts ==
  ASSUME Types, Types', LoginOnce, NEW kind \in Kinds, message(kind), NEW c \in Local
  PROVE  Outstanding(c)' = Outstanding(c) /\ (Leaving(c)' => Leaving(c))
<1>1. PICK i \in Arriving(kind, socket[kind]) : \E rest :
        /\ Read(kind, socket[kind], rest, i) /\ socket' = [socket EXCEPT ![kind] = rest]
        /\ msg' = IF socket[kind][i].type = "RESULT" THEN Nothing ELSE socket[kind][i]
  BY DEF message
<1>2. PICK rest :
        /\ Read(kind, socket[kind], rest, i) /\ socket' = [socket EXCEPT ![kind] = rest]
        /\ msg' = IF socket[kind][i].type = "RESULT" THEN Nothing ELSE socket[kind][i]
  BY <1>1
<1>3. PICK q \in Seq(Datagrams) : q = socket[kind]
  BY DEF Types
<1>4. Read(kind, q, rest, i) /\ i \in Arriving(kind, q) /\ repeats \in 0..MaxRepeats
  BY <1>1, <1>2, <1>3 DEF Types
<1>5. /\ i \in DOMAIN q /\ rest \in Seq(Datagrams)
      /\ kind = "LOCAL" => i = 1 /\ rest = RemoveAt(q, 1)
      /\ \A j \in DOMAIN rest : \E k \in DOMAIN q : rest[j] = q[k]
  BY <1>4, ReadDoes
<1>6. socket'[kind] = rest /\ \A k \in Kinds : k # kind => socket'[k] = socket[k]
  BY <1>2 DEF Types
<1>7. /\ inbox' = inbox /\ pc' = pc /\ msg = Nothing
      /\ Match(msg, "PONG", c) = 0 /\ ~LogoutOf(c, msg)
  BY NothingType DEF message, procs, Match, LogoutOf
<1>8. /\ Match(msg', "PONG", c) = Match(q[i], "PONG", c)
      /\ LogoutOf(c, msg') => LogoutOf(c, q[i])
  <2>1. CASE q[i].type = "RESULT"
    BY <1>2, <1>3, <2>1, NothingType DEF Match, LogoutOf
  <2>2. CASE q[i].type # "RESULT"
    BY <1>2, <1>3, <2>2
  <2> QED BY <2>1, <2>2
<1>9. PICK x, y \in Pings :
        /\ x.inbox = Count(inbox[c], "PING", c) /\ y.inbox = Count(inbox'[c], "PING", c)
        /\ x.pc = Ponging(pc[c]) /\ y.pc = Ponging(pc'[c])
        /\ x.socket = Count(socket["LOCAL"], "PONG", c)
        /\ y.socket = Count(socket'["LOCAL"], "PONG", c)
        /\ x.msg = Match(msg, "PONG", c) /\ y.msg = Match(msg', "PONG", c)
        /\ Outstanding(c) = x.inbox + x.pc + x.socket + x.msg
        /\ Outstanding(c)' = y.inbox + y.pc + y.socket + y.msg
  BY OutstandingParts
<1>10. x.inbox = y.inbox /\ x.pc = y.pc /\ x.msg = 0
  BY <1>7, <1>9
<1>11. CASE kind = "WEB"
  <2>1. socket'["LOCAL"] = socket["LOCAL"] /\ q = socket["WEB"]
    BY <1>3, <1>6, <1>11 DEF Kinds
  <2>2. q[i].addr # c
    BY <1>5, <2>1 DEF LoginOnce
  <2>3. y.msg = 0 /\ y.socket = x.socket
    BY <1>8, <1>9, <2>1, <2>2 DEF Match
  <2>4. Leaving(c)' => Leaving(c)
    BY <1>8, <2>1, <2>2 DEF Leaving, LogoutOf
  <2> QED BY <1>9, <1>10, <2>3, <2>4
<1>12. CASE kind = "LOCAL"
  <2>1. socket'["LOCAL"] = rest /\ q = socket["LOCAL"]
    BY <1>3, <1>6, <1>12
  <2>2. i = 1 /\ rest = RemoveAt(q, 1) /\ q # <<>>
    BY <1>5, <1>12
  <2>3. Count(q, "PONG", c) = Count(rest, "PONG", c) + Match(q[1], "PONG", c)
    BY <2>2, CountHead
  <2>4. x.socket = y.socket + y.msg
    BY <1>8, <1>9, <2>1, <2>2, <2>3
  <2>5. Leaving(c)' => Leaving(c)
    BY <1>5, <1>8, <2>1 DEF Leaving
  <2> QED BY <1>9, <1>10, <2>4, <2>5 DEF Pings
<1> QED BY <1>11, <1>12 DEF Kinds

\* Main handles a message: what it had in hand is gone.
LEMMA HandledCounts ==
  ASSUME Types, Types', socket' = socket, msg' = Nothing, pc' = pc, NEW c \in Local,
         Count(inbox'[c], "PING", c) = Count(inbox[c], "PING", c)
  PROVE  /\ Outstanding(c)' = Outstanding(c) - Match(msg, "PONG", c)
         /\ Outstanding(c) \in Nat /\ Outstanding(c)' \in Nat
         /\ Leaving(c)' => Leaving(c)
<1>1. Match(msg', "PONG", c) = 0 /\ ~LogoutOf(c, msg')
  BY NothingType DEF Match, LogoutOf
<1>2. PICK x, y \in Pings :
        /\ x.inbox = Count(inbox[c], "PING", c) /\ y.inbox = Count(inbox'[c], "PING", c)
        /\ x.pc = Ponging(pc[c]) /\ y.pc = Ponging(pc'[c])
        /\ x.socket = Count(socket["LOCAL"], "PONG", c)
        /\ y.socket = Count(socket'["LOCAL"], "PONG", c)
        /\ x.msg = Match(msg, "PONG", c) /\ y.msg = Match(msg', "PONG", c)
        /\ Outstanding(c) = x.inbox + x.pc + x.socket + x.msg
        /\ Outstanding(c)' = y.inbox + y.pc + y.socket + y.msg
  BY OutstandingParts
<1>3. y.inbox = x.inbox /\ y.pc = x.pc /\ y.socket = x.socket /\ y.msg = 0
  BY <1>1, <1>2
<1>4. PICK m \in Nat : m = Match(msg, "PONG", c)
  BY DEF Match
<1>5. Outstanding(c)' = Outstanding(c) - m /\ Outstanding(c) \in Nat /\ Outstanding(c)' \in Nat
  BY <1>2, <1>3, <1>4 DEF Pings
<1> QED BY <1>1, <1>4, <1>5 DEF Leaving

\* Another thread writes to a client, or nobody does.
LEMMA WrittenCounts ==
  ASSUME Types, Types', socket' = socket, msg' = msg, pc' = pc, NEW c \in Local,
         NEW n \in {0, 1},
         Count(inbox'[c], "PING", c) = Count(inbox[c], "PING", c) + n
  PROVE  /\ Outstanding(c)' = Outstanding(c) + n
         /\ Outstanding(c) \in Nat
         /\ Leaving(c)' => Leaving(c)
<1>1. PICK x, y \in Pings :
        /\ x.inbox = Count(inbox[c], "PING", c) /\ y.inbox = Count(inbox'[c], "PING", c)
        /\ x.pc = Ponging(pc[c]) /\ y.pc = Ponging(pc'[c])
        /\ x.socket = Count(socket["LOCAL"], "PONG", c)
        /\ y.socket = Count(socket'["LOCAL"], "PONG", c)
        /\ x.msg = Match(msg, "PONG", c) /\ y.msg = Match(msg', "PONG", c)
        /\ Outstanding(c) = x.inbox + x.pc + x.socket + x.msg
        /\ Outstanding(c)' = y.inbox + y.pc + y.socket + y.msg
  BY OutstandingParts
<1>2. y.inbox = x.inbox + n /\ y.pc = x.pc /\ y.socket = x.socket /\ y.msg = x.msg
  BY <1>1
<1>3. Outstanding(c)' = Outstanding(c) + n /\ Outstanding(c) \in Nat
  BY <1>1, <1>2 DEF Pings
<1> QED BY <1>3 DEF Leaving

-----------------------------------------------------------------------------
(* The server's steps. *)
LEMMA messagePing ==
  ASSUME Types, Types', LoginOnce, PingInv, NEW kind \in Kinds, message(kind)
  PROVE  PingInv'
<1>1. UNCHANGED <<clients, inbox, pc, name>>
  BY DEF message, procs
<1>2. \A c \in Local : /\ Outstanding(c)' = Outstanding(c) /\ (Leaving(c)' => Leaving(c))
                       /\ Pending(c)' <=> Pending(c)
  BY messageCounts, PassedOn
<1>3. OwnQueues'
  BY <1>1 DEF PingInv, OwnQueues
<1>4. ASSUME NEW c \in Sole
      PROVE  Counted(c)'
  <2>1. c \in Local /\ Counted(c) /\ (Gone(c) => Gone(c)')
    BY <1>1, SoleName DEF PingInv, Gone
  <2> QED BY <1>1, <1>2, <2>1, KeptPlaces, Recounted
<1> QED BY <1>1, <1>2, <1>3, <1>4, SameSole DEF PingInv

LEMMA HandlersPing ==
  ASSUME Types, Types', ListInv, LocalInv, PingInv, login_client \/ logoutClient \/ pong
  PROVE  PingInv'
<1>1. PICK type \in {"LOGIN", "LOGOUT", "PONG"} :
        /\ Handles(type)
        /\ type = "LOGIN" => login_client
        /\ type = "LOGOUT" => logoutClient
        /\ type = "PONG" => pong
  BY DEF login_client, logoutClient, pong
<1>2. type \in Range(MessageTypes)
  BY <1>1, KnownTypes
<1>3. /\ msg \in Datagrams /\ msg.type = type /\ msg.addr \in Procs
      /\ UNCHANGED <<socket, pc, name>> /\ msg' = Nothing
  BY <1>1, <1>2, HandlesTypes
<1>4. PICK a \in Procs : a = msg.addr
  BY <1>3
<1>5. \A c \in Local : /\ LoginOf(c, msg) => Pending(c) /\ ~Pending(c)'
                       /\ ~LoginOf(c, msg) => (Pending(c)' <=> Pending(c))
  BY <1>3, Handled DEF LocalInv
<1>6. \A c : Gone(c)' <=> Gone(c)
  BY <1>3 DEF Gone
<1>7. OwnQueues' /\ \A c \in Procs : Count(inbox'[c], "PING", c) = Count(inbox[c], "PING", c)
  <2>1. CASE type = "LOGIN"
    <3>1. PICK answer \in Answers : Reply(answer)
      BY <1>1, <2>1 DEF login_client, Answers
    <3>2. answer \in Range(MessageTypes) /\ answer # "PING"
      BY <3>1, KnownTypes DEF Answers
    <3>3. PICK d \in Datagrams : d = Datagram(answer, a, 0) /\ d.type = answer /\ d.addr = a
      BY <3>2, DatagramType, Sizes
    <3>4. Deliver(a, d)
      BY <1>3, <1>4, <3>1, <3>2, <3>3, ReplyTypes
    <3>5. /\ OwnQueues'
          /\ \A c \in Procs : Count(inbox'[c], "PING", c) =
                Count(inbox[c], "PING", c)
                  + (IF c = a /\ pc[a] # "gone" /\ d.type = "PING" THEN 1 ELSE 0)
      BY <3>3, <3>4, DeliverCounts DEF PingInv
    <3>6. \A c \in Procs : Count(inbox[c], "PING", c) \in Nat
      BY CountIs DEF Types
    <3> QED BY <3>2, <3>3, <3>5, <3>6
  <2>2. CASE type # "LOGIN"
    <3>1. inbox' = inbox
      BY <1>1, <2>2 DEF logoutClient, pong
    <3> QED BY <3>1 DEF PingInv, OwnQueues
  <2> QED BY <2>1, <2>2
<1>8. \A c \in Local : /\ Outstanding(c)' = Outstanding(c) - Match(msg, "PONG", c)
                       /\ Outstanding(c) \in Nat /\ Outstanding(c)' \in Nat
                       /\ Leaving(c)' => Leaving(c)
  BY <1>3, <1>7, Sizes, HandledCounts
<1>9. ASSUME NEW c \in Sole
      PROVE  Counted(c)'
  <2>1. c \in Local /\ c \in Procs /\ Counted(c)
        /\ \A d \in Procs : name[d] = name[c] => d = c
    BY SoleName DEF PingInv
  <2>2. ASSUME \A j \in DOMAIN clients' : clients'[j].addr = c =>
                 \E k \in DOMAIN clients : clients[k].addr = c
                                           /\ clients[k].is_inactive = clients'[j].is_inactive,
               ~LoginOf(c, msg), Match(msg, "PONG", c) = 0
        PROVE  Counted(c)'
    <3>1. Outstanding(c)' = Outstanding(c)
      BY <1>8, <2>1, <2>2
    <3>2. pc'[c] = "login" \/ Pending(c)' => pc[c] = "login" \/ Pending(c)
      BY <1>3, <1>5, <2>1, <2>2
    <3> QED BY <1>6, <2>1, <2>2, <3>1, <3>2, Recounted
  <2>3. CASE type = "LOGIN"
    <3>1. Match(msg, "PONG", c) = 0
      BY <1>3, <2>3 DEF Match
    <3>2. \/ clients' = clients
          \/ clients' = Append(clients, [addr |-> a, name |-> name[a], is_inactive |-> 0])
      BY <1>1, <1>4, <2>3 DEF login_client
    <3>3. \A j \in DOMAIN clients' :
            \/ \E k \in DOMAIN clients : clients'[j] = clients[k]
            \/ clients'[j].addr = a /\ clients'[j].is_inactive = 0
      <4>1. CASE clients' = clients
        BY <4>1
      <4>2. CASE clients' = Append(clients, [addr |-> a, name |-> name[a], is_inactive |-> 0])
        <5>1. PICK e : e = [addr |-> a, name |-> name[a], is_inactive |-> 0]
          OBVIOUS
        <5>2. e \in Entry /\ e.addr = a /\ e.is_inactive = 0
          BY <5>1 DEF Types, Entry
        <5>3. PICK s, t : s \in Seq(Entry) /\ s = clients /\ t = clients'
          BY DEF Types
        <5>4. t = Append(s, e) /\ Len(s) \in Nat
          BY <4>2, <5>1, <5>3
        <5>5. /\ DOMAIN t = 1..(Len(s) + 1) /\ DOMAIN s = 1..Len(s)
              /\ t[Len(s) + 1] = e
              /\ \A i \in 1..Len(s) : t[i] = s[i]
          BY <5>2, <5>3, <5>4
        <5>6. ASSUME NEW j \in DOMAIN t
              PROVE  t[j] = e \/ \E k \in DOMAIN s : t[j] = s[k]
          <6>1. j \in 1..(Len(s) + 1)
            BY <5>5, Zenon
          <6>2. j = Len(s) + 1 \/ j \in 1..Len(s)
            BY ONLY <5>4, <6>1
          <6> QED BY <5>5, <6>2, Zenon
        <5> QED BY <5>2, <5>3, <5>6
      <4> QED BY <3>2, <4>1, <4>2
    <3>4. CASE c # a
      <4>1. ~LoginOf(c, msg)
        BY <1>4, <3>4 DEF LoginOf
      <4> QED BY <2>2, <3>1, <3>3, <3>4, <4>1
    <3>5. CASE c = a
      <4>1. Pending(c) /\ ~Pending(c)' /\ c \notin Listed
        <5>1. LoginOf(c, msg)
          BY <1>3, <1>4, <2>3, <3>5 DEF LoginOf
        <5>2. Pending(c) /\ ~Pending(c)'
          BY <1>5, <2>1, <5>1
        <5> QED BY <2>1, <5>2 DEF LocalInv, Starts
      <4>2. \A j \in DOMAIN clients' : clients'[j].addr = c => clients'[j].is_inactive = 0
        BY <3>3, <4>1 DEF Listed
      <4>3. ~Gone(c) => Outstanding(c)' = 0
        BY <1>8, <2>1, <3>1, <4>1 DEF Counted
      <4> QED BY <1>6, <4>2, <4>3 DEF Counted
    <3> QED BY <3>4, <3>5
  <2>4. CASE type = "LOGOUT"
    <3>1. ~LoginOf(c, msg) /\ Match(msg, "PONG", c) = 0
      BY <1>3, <2>4 DEF LoginOf, Match
    <3>2. \A j \in DOMAIN clients' : \E k \in DOMAIN clients : clients'[j] = clients[k]
      <4>1. PICK i : i = check_name(name[msg.addr])
        OBVIOUS
      <4>2. clients' = IF i = 0 THEN clients ELSE RemoveAt(clients, i)
        BY <1>1, <2>4, <4>1 DEF logoutClient
      <4>3. CASE i = 0
        BY <4>2, <4>3
      <4>4. CASE i # 0
        <5>1. i \in DOMAIN clients
          BY <4>1, <4>4, NameFound DEF Types
        <5> QED BY <1>3, <4>2, <4>4, <5>1, ListShrinks
      <4> QED BY <4>3, <4>4
    <3> QED BY <2>2, <3>1, <3>2
  <2>5. CASE type = "PONG"
    <3>1. PICK i : i = check_name(name[a])
      OBVIOUS
    <3>2. clients' = IF i = 0 THEN clients
                     ELSE [clients EXCEPT ![i].is_inactive = (@ + 255) % 256]
      BY <1>1, <1>4, <2>5, <3>1 DEF pong
    <3>3. clients \in Seq(Entry) /\ ~LoginOf(c, msg)
      BY <1>3, <2>5 DEF Types, LoginOf
    <3>4. \/ i = 0 /\ \A j \in DOMAIN clients : clients[j].name # name[a]
          \/ i \in DOMAIN clients /\ clients[i].name = name[a]
      BY <3>1, <3>3, NameFound
    <3>5. i # 0 => /\ i \in DOMAIN clients /\ DOMAIN clients' = DOMAIN clients
                   /\ \A j \in DOMAIN clients :
                        /\ clients'[j].addr = clients[j].addr
                        /\ clients'[j].is_inactive =
                             IF j = i THEN (clients[i].is_inactive + 255) % 256
                             ELSE clients[j].is_inactive
      <4> SUFFICES ASSUME i # 0
                   PROVE  /\ i \in DOMAIN clients /\ DOMAIN clients' = DOMAIN clients
                          /\ \A j \in DOMAIN clients :
                               /\ clients'[j].addr = clients[j].addr
                               /\ clients'[j].is_inactive =
                                    IF j = i THEN (clients[i].is_inactive + 255) % 256
                                    ELSE clients[j].is_inactive
        OBVIOUS
      <4>1. i \in DOMAIN clients /\ clients[i] \in Entry
        BY <3>3, <3>4
      <4>2. PICK x \in 0..255 : x = (clients[i].is_inactive + 255) % 256
        BY <4>1 DEF Entry
      <4>3. clients' = [clients EXCEPT ![i].is_inactive = x]
        BY <3>2, <4>2
      <4>4. /\ DOMAIN clients' = DOMAIN clients
            /\ \A j \in DOMAIN clients :
                 /\ clients'[j].addr = clients[j].addr
                 /\ clients'[j].is_inactive = IF j = i THEN x ELSE clients[j].is_inactive
        BY <3>3, <4>1, <4>3, EntryChanges
      <4> QED BY <4>1, <4>2, <4>4
    <3>6. CASE c # a
      <4>1. Match(msg, "PONG", c) = 0
        BY <1>4, <3>6 DEF Match
      <4>2. \A j \in DOMAIN clients' : clients'[j].addr = c =>
              \E k \in DOMAIN clients : clients[k].addr = c
                                        /\ clients[k].is_inactive = clients'[j].is_inactive
        <5>1. CASE i = 0
          BY <3>2, <5>1, KeptPlaces
        <5>2. CASE i # 0
          <6>1. \A j \in DOMAIN clients : clients[j].addr = c => j # i
            BY <2>1, <3>4, <3>6, <5>2 DEF ListInv
          <6> QED BY <3>5, <5>2, <6>1
        <5> QED BY <5>1, <5>2
      <4> QED BY <2>2, <3>3, <4>1, <4>2
    <3>7. CASE c = a
      <4>1. Match(msg, "PONG", c) = 1
        BY <1>3, <1>4, <2>5, <3>7 DEF Match
      <4>2. PICK n \in Nat : n = Outstanding(c)
        BY <1>8, <2>1
      <4>3. Outstanding(c)' = n - 1 /\ n # 0
        BY <1>8, <2>1, <4>1, <4>2
      <4>4. ASSUME ~Gone(c), NEW j \in DOMAIN clients', clients'[j].addr = c
            PROVE  clients'[j].is_inactive = n - 1
        <5>1. j \in DOMAIN clients /\ clients[j].addr = c
          BY <3>2, <3>5, <4>4
        <5>2. clients[j].name = name[c]
          BY <5>1 DEF ListInv
        <5>3. i # 0 /\ i = j
          <6>1. i \in DOMAIN clients /\ clients[i].name = clients[j].name
            BY <3>4, <3>7, <5>1, <5>2
          <6>2. 0 \notin DOMAIN clients
            BY <3>3
          <6> QED BY <5>1, <6>1, <6>2 DEF ListInv
        <5>4. clients[j].is_inactive = n
          BY <2>1, <4>2, <4>4, <5>1 DEF Counted
        <5>5. n \in 0..255
          <6>1. clients[j] \in Entry
            BY <3>3, <5>1
          <6> QED BY <5>4, <6>1 DEF Entry
        <5>6. (n + 255) % 256 = n - 1
          BY <4>3, <5>5
        <5> QED BY <3>5, <5>1, <5>3, <5>4, <5>6
      <4>5. ~Gone(c) => ~(pc'[c] = "login" \/ Pending(c)')
        <5>1. pc'[c] = "login" \/ Pending(c)' => pc[c] = "login" \/ Pending(c)
          BY <1>3, <1>5, <2>1, <3>3
        <5> QED BY <2>1, <4>2, <4>3, <5>1 DEF Counted
      <4> QED BY <1>6, <4>3, <4>4, <4>5 DEF Counted
    <3> QED BY <3>6, <3>7
  <2> QED BY <1>1, <2>3, <2>4, <2>5
<1> QED BY <1>3, <1>7, <1>8, <1>9, SameSole DEF PingInv

LEMMA PingPing ==
  ASSUME Types, Types', ListInv, LocalInv, PingInv,
         PingLock \/ PingRemoves \/ PingWrites \/ PingUnlock
  PROVE  PingInv'
<1>1. UNCHANGED <<socket, msg, name, pc>>
  BY DEF PingLock, PingRemoves, PingWrites, PingUnlock, Ping, procs
<1>2. \A c \in Local : Pending(c)' <=> Pending(c)
  BY <1>1, NothingMoves DEF LocalInv
<1>3. \A c : Gone(c)' <=> Gone(c)
  BY <1>1 DEF Gone
<1>4. \A c \in Procs : Count(inbox[c], "PING", c) \in Nat
  BY CountIs DEF Types
<1>5. CASE PingLock \/ PingUnlock \/ PingRemoves
  <2>1. inbox' = inbox
    BY <1>5 DEF PingLock, PingUnlock, PingRemoves
  <2>2. \A c \in Local : Outstanding(c)' = Outstanding(c) /\ (Leaving(c)' => Leaving(c))
    <3>1. PICK n \in {0, 1} : n = 0
      OBVIOUS
    <3>2. \A c \in Local : Count(inbox'[c], "PING", c) = Count(inbox[c], "PING", c) + n
      BY <1>4, <2>1, <3>1, Sizes
    <3>3. \A c \in Local : /\ Outstanding(c)' = Outstanding(c) + n /\ Outstanding(c) \in Nat
                           /\ Leaving(c)' => Leaving(c)
      BY <1>1, <3>2, WrittenCounts
    <3> QED BY <3>1, <3>3
  <2>3. \A j \in DOMAIN clients' : \E k \in DOMAIN clients : clients'[j] = clients[k]
    <3>1. CASE PingLock \/ PingUnlock
      BY <3>1 DEF PingLock, PingUnlock
    <3>2. CASE PingRemoves
      <4>1. PICK i \in DOMAIN clients : i = pingAt
        BY <3>2 DEF PingRemoves
      <4>2. clients' = RemoveAt(clients, i)
        BY <3>2, <4>1 DEF PingRemoves
      <4> QED BY <1>1, <4>2, ListShrinks
    <3> QED BY <1>5, <3>1, <3>2
  <2>4. ASSUME NEW c \in Sole
        PROVE  Counted(c)'
    <3>1. c \in Local /\ Counted(c)
      BY SoleName DEF PingInv
    <3> QED BY <1>1, <1>2, <1>3, <2>2, <2>3, <3>1, Recounted
  <2>5. OwnQueues'
    BY <2>1 DEF PingInv, OwnQueues
  <2> QED BY <1>1, <2>2, <2>4, <2>5, SameSole DEF PingInv
<1>6. CASE PingWrites
  <2>1. PICK i \in DOMAIN clients : i = pingAt
    BY <1>6 DEF PingWrites
  <2>2. clients \in Seq(Entry) /\ clients[i] \in Entry
    BY DEF Types
  <2>3. PICK a \in Procs : a = clients[i].addr
    BY <2>2 DEF Entry
  <2>4. PICK d \in Datagrams : d = Datagram("PING", a, 0) /\ d.type = "PING" /\ d.addr = a
    BY DatagramType, KnownTypes, Sizes
  <2>5. Deliver(a, d) /\ clients[i].is_inactive = 0
    BY <1>6, <2>1, <2>3, <2>4 DEF PingWrites, SendOrDie
  <2>6. /\ DOMAIN clients' = DOMAIN clients
        /\ \A j \in DOMAIN clients :
             /\ clients'[j].addr = clients[j].addr
             /\ clients'[j].is_inactive = IF j = i THEN 1 ELSE clients[j].is_inactive
    <3>1. PICK x \in 0..255 : x = 1
      OBVIOUS
    <3>2. clients' = [clients EXCEPT ![i].is_inactive = x]
      BY <1>6, <2>1, <3>1 DEF PingWrites
    <3>3. /\ DOMAIN clients' = DOMAIN clients
          /\ \A j \in DOMAIN clients :
               /\ clients'[j].addr = clients[j].addr
               /\ clients'[j].is_inactive = IF j = i THEN x ELSE clients[j].is_inactive
      BY <2>2, <3>2, EntryChanges
    <3> QED BY <3>1, <3>3
  <2>7. /\ OwnQueues'
        /\ \A c \in Procs : Count(inbox'[c], "PING", c) =
              Count(inbox[c], "PING", c)
                + (IF c = a /\ pc[a] # "gone" /\ d.type = "PING" THEN 1 ELSE 0)
    BY <2>4, <2>5, DeliverCounts DEF PingInv
  <2>8. ASSUME NEW c \in Local
        PROVE  /\ Leaving(c)' => Leaving(c)
               /\ Outstanding(c)' = Outstanding(c) + (IF c = a /\ pc[a] # "gone" THEN 1 ELSE 0)
               /\ Outstanding(c) \in Nat
    <3>1. PICK n \in {0, 1} : n = IF c = a /\ pc[a] # "gone" THEN 1 ELSE 0
      OBVIOUS
    <3>2. Count(inbox'[c], "PING", c) = Count(inbox[c], "PING", c) + n
      BY <2>4, <2>7, <3>1, Sizes
    <3>3. /\ Outstanding(c)' = Outstanding(c) + n /\ Outstanding(c) \in Nat
          /\ Leaving(c)' => Leaving(c)
      BY <1>1, <3>2, WrittenCounts
    <3> QED BY <3>1, <3>3
  <2>9. ASSUME NEW c \in Sole
        PROVE  Counted(c)'
    <3>1. c \in Local /\ c \in Procs /\ Counted(c) /\ Starts(c)
      BY SoleName DEF PingInv, LocalInv
    <3>2. CASE c # a
      <4>1. Outstanding(c)' = Outstanding(c)
        BY <2>8, <3>1, <3>2
      <4>2. \A j \in DOMAIN clients' : clients'[j].addr = c =>
              \E k \in DOMAIN clients : clients[k].addr = c
                                        /\ clients[k].is_inactive = clients'[j].is_inactive
        BY <2>3, <2>6, <3>2
      <4> QED BY <1>1, <1>2, <1>3, <3>1, <4>1, <4>2, Recounted
    <3>3. CASE c = a
      <4>1. c \in Listed
        BY <2>3, <3>3 DEF Listed
      <4>2. ~Pending(c)' /\ pc'[c] # "login"
        BY <1>1, <1>2, <3>1, <4>1 DEF Starts
      <4>3. ASSUME ~Gone(c)'
            PROVE  /\ Outstanding(c)' = 1
                   /\ \A j \in DOMAIN clients' :
                        clients'[j].addr = c => clients'[j].is_inactive = 1
        <5>1. ~Gone(c) /\ pc[a] # "gone"
          BY <1>3, <3>3, <4>3 DEF Gone
        <5>2. Outstanding(c) = 0
          BY <2>3, <2>5, <3>1, <3>3, <5>1 DEF Counted
        <5>3. Outstanding(c)' = 1
          BY <2>8, <3>1, <3>3, <5>1, <5>2
        <5>4. \A j \in DOMAIN clients : clients[j].addr = c => j = i
          BY <2>3, <3>3 DEF ListInv
        <5> QED BY <2>6, <5>3, <5>4
      <4> QED BY <4>2, <4>3 DEF Counted
    <3> QED BY <3>2, <3>3
  <2> QED BY <1>1, <2>7, <2>8, <2>9, SameSole DEF PingInv
<1> QED BY <1>5, <1>6

LEMMA TermPing ==
  ASSUME Types, Types', LoginOnce, PingInv,
         TermOrder \/ TermNobody \/ TermWriteType \/ TermWriteOperation
  PROVE  PingInv'
<1>1. UNCHANGED <<clients, socket, msg, name, pc>>
  BY DEF TermOrder, TermNobody, TermWriteType, TermWriteOperation, Term, procs
<1>2. \A c \in Local : Pending(c)' <=> Pending(c)
  BY <1>1, NothingMoves
<1>3. ASSUME NEW i \in DOMAIN clients, NEW type \in {"REQUEST", "operation_t"},
             NEW n \in Orders, Deliver(clients[i].addr, Datagram(type, clients[i].addr, n))
      PROVE  /\ OwnQueues'
             /\ \A c \in Procs : Count(inbox'[c], "PING", c) = Count(inbox[c], "PING", c)
  <2>1. clients[i] \in Entry
    BY DEF Types
  <2>2. PICK a \in Procs : a = clients[i].addr
    BY <2>1 DEF Entry
  <2>3. PICK d \in Datagrams : d = Datagram(type, a, n) /\ d.type = type /\ d.addr = a
    BY DatagramType, KnownTypes
  <2>4. /\ OwnQueues'
        /\ \A c \in Procs : Count(inbox'[c], "PING", c) =
              Count(inbox[c], "PING", c)
                + (IF c = a /\ pc[a] # "gone" /\ d.type = "PING" THEN 1 ELSE 0)
    BY <1>3, <2>2, <2>3, DeliverCounts DEF PingInv
  <2>5. \A c \in Procs : Count(inbox[c], "PING", c) \in Nat
    BY CountIs DEF Types
  <2> QED BY <2>3, <2>4, <2>5
<1>4. OwnQueues' /\ \A c \in Procs : Count(inbox'[c], "PING", c) = Count(inbox[c], "PING", c)
  <2>1. CASE TermOrder \/ TermNobody
    <3>1. inbox' = inbox
      BY <2>1 DEF TermOrder, TermNobody
    <3> QED BY <3>1 DEF PingInv, OwnQueues
  <2>2. CASE TermWriteType
    <3>1. PICK i \in DOMAIN clients : i = termAt'
      BY <2>2 DEF TermWriteType
    <3>2. Deliver(clients[i].addr, Datagram("REQUEST", clients[i].addr, 0))
      BY <2>2, <3>1 DEF TermWriteType
    <3> QED BY <1>3, <3>2, Sizes
  <2>3. CASE TermWriteOperation
    <3>1. termPc = "operation_t"
      BY <2>3 DEF TermWriteOperation, Term
    <3>2. PICK i \in DOMAIN clients : i = termAt
      BY <3>1 DEF Types, Holders
    <3>3. PICK n \in Orders : n = operation_counter
      BY DEF Types
    <3>4. Deliver(clients[i].addr, Datagram("operation_t", clients[i].addr, n))
      BY <2>3, <3>2, <3>3 DEF TermWriteOperation
    <3> QED BY <1>3, <3>4
  <2> QED BY <2>1, <2>2, <2>3
<1>5. \A c \in Local : Outstanding(c)' = Outstanding(c) /\ (Leaving(c)' => Leaving(c))
  <2>1. PICK n \in {0, 1} : n = 0
    OBVIOUS
  <2>2. \A c \in Local : Count(inbox'[c], "PING", c) = Count(inbox[c], "PING", c) + n
    <3>1. \A c \in Procs : Count(inbox[c], "PING", c) \in Nat
      BY CountIs DEF Types
    <3> QED BY <1>4, <2>1, <3>1, Sizes
  <2>3. \A c \in Local : /\ Outstanding(c)' = Outstanding(c) + n /\ Outstanding(c) \in Nat
                         /\ Leaving(c)' => Leaving(c)
    BY <1>1, <2>2, WrittenCounts
  <2> QED BY <2>1, <2>3
<1>6. ASSUME NEW c \in Sole
      PROVE  Counted(c)'
  <2>1. c \in Local /\ Counted(c) /\ (Gone(c) => Gone(c)')
    BY <1>1, SoleName DEF PingInv, Gone
  <2> QED BY <1>1, <1>2, <1>5, <2>1, KeptPlaces, Recounted
<1> QED BY <1>1, <1>4, <1>5, <1>6, SameSole DEF PingInv

-----------------------------------------------------------------------------
(* The clients' steps. *)
\* A client sends: only a PONG counts, and moves from its hand to the socket.
LEMMA SentCounts ==
  ASSUME Types, Types', NEW c \in Local, NEW a \in Procs, NEW type \in Range(MessageTypes),
         NEW n \in Orders, Send(a, type, n), msg' = msg, inbox'[c] = inbox[c],
         c = a /\ type = "PONG" => pc[c] = "pong" /\ pc'[c] # "pong",
         ~(c = a /\ type = "PONG") => Ponging(pc'[c]) = Ponging(pc[c])
  PROVE  Outstanding(c)' = Outstanding(c)
<1>1. PICK x, y \in Pings :
        /\ x.inbox = Count(inbox[c], "PING", c) /\ y.inbox = Count(inbox'[c], "PING", c)
        /\ x.pc = Ponging(pc[c]) /\ y.pc = Ponging(pc'[c])
        /\ x.socket = Count(socket["LOCAL"], "PONG", c)
        /\ y.socket = Count(socket'["LOCAL"], "PONG", c)
        /\ x.msg = Match(msg, "PONG", c) /\ y.msg = Match(msg', "PONG", c)
        /\ Outstanding(c) = x.inbox + x.pc + x.socket + x.msg
        /\ Outstanding(c)' = y.inbox + y.pc + y.socket + y.msg
  BY OutstandingParts
<1>2. y.socket = x.socket + (IF c = a /\ type = "PONG" THEN 1 ELSE 0)
  BY <1>1, SendCounts
<1>3. y.inbox = x.inbox /\ y.msg = x.msg
  BY <1>1
<1>4. x.pc = y.pc + (IF c = a /\ type = "PONG" THEN 1 ELSE 0)
  <2>1. CASE c = a /\ type = "PONG"
    BY <1>1, <2>1 DEF Ponging
  <2>2. CASE ~(c = a /\ type = "PONG")
    BY <1>1, <2>2 DEF Pings
  <2> QED BY <2>1, <2>2
<1> QED BY <1>1, <1>2, <1>3, <1>4 DEF Pings

\* A local client takes its next datagram: a PING moves to its hand.
LEMMA TakenCounts ==
  ASSUME Types, Types', OwnQueues, NEW c \in Local, NEW i \in Arriving(Kind(c), inbox[c]),
         Takes(c, i), msg' = msg, pc[c] # "pong",
         pc'[c] = "pong" <=> inbox[c][i].type = "PING"
  PROVE  Outstanding(c)' = Outstanding(c)
<1>1. PICK x, y \in Pings :
        /\ x.inbox = Count(inbox[c], "PING", c) /\ y.inbox = Count(inbox'[c], "PING", c)
        /\ x.pc = Ponging(pc[c]) /\ y.pc = Ponging(pc'[c])
        /\ x.socket = Count(socket["LOCAL"], "PONG", c)
        /\ y.socket = Count(socket'["LOCAL"], "PONG", c)
        /\ x.msg = Match(msg, "PONG", c) /\ y.msg = Match(msg', "PONG", c)
        /\ Outstanding(c) = x.inbox + x.pc + x.socket + x.msg
        /\ Outstanding(c)' = y.inbox + y.pc + y.socket + y.msg
  BY OutstandingParts
<1>2. c \in Procs
  BY Sizes
<1>3. PICK q, r : q \in Seq(Datagrams) /\ q = inbox[c] /\ r = inbox'[c]
  BY <1>2 DEF Types
<1>4. i \in DOMAIN q /\ i = 1 /\ r = RemoveAt(q, 1) /\ socket' = socket
  BY <1>2, <1>3, TakesDoes
<1>5. q \in Seq(Datagrams) /\ q # <<>>
  BY <1>3, <1>4
<1>6. Count(q, "PING", c) = Count(r, "PING", c) + Match(q[1], "PING", c)
  BY <1>4, <1>5, CountHead
<1>7. q[1].addr = c
  BY <1>2, <1>3, <1>4 DEF OwnQueues
<1>8. Match(q[1], "PING", c) = Ponging(pc'[c]) /\ Ponging(pc[c]) = 0
  BY <1>3, <1>4, <1>7 DEF Match, Ponging
<1>9. x.inbox = y.inbox + y.pc /\ x.pc = 0 /\ x.socket = y.socket /\ x.msg = y.msg
  BY <1>1, <1>3, <1>4, <1>6, <1>8
<1> QED BY <1>1, <1>9 DEF Pings

LEMMA ClientPing ==
  ASSUME Types, Types', LocalInv, PingInv, NEW a \in Procs, Client(a)
  PROVE  PingInv'
<1>1. PICK from, to \in ClientPcs : At(a, from, to)
  <2>1. pc[a] \in ClientPcs
    BY DEF Types
  <2> QED BY <2>1 DEF Client, login, response, read, sendPong, calc, sendResult, sigIntHandler,
                      funAtExit, Killed, ClientPcs
<1>2. /\ pc'[a] = to /\ pc[a] = from /\ \A d \in Procs : d # a => pc'[d] = pc[d]
      /\ UNCHANGED <<clients, msg, name>>
  BY <1>1, ClientDoes
<1>3. \A d \in Procs : d # a => inbox'[d] = inbox[d]
  <2>1. CASE response(a) \/ read(a) \/ calc(a)
    BY <2>1, TakesDoes DEF response, read, calc
  <2>2. CASE ~(response(a) \/ read(a) \/ calc(a))
    BY <2>2 DEF Client, login, sendPong, sendResult, sigIntHandler, funAtExit, Killed, Types
  <2> QED BY <2>1, <2>2
<1>4. OwnQueues'
  <2>1. \A j \in DOMAIN inbox'[a] : From(inbox[a], inbox'[a][j])
    <3>1. CASE response(a) \/ read(a) \/ calc(a)
      BY <3>1, TakesDoes DEF response, read, calc, From
    <3>2. CASE funAtExit(a) \/ Killed(a)
      BY <3>2 DEF funAtExit, Killed, Types
    <3>3. CASE login(a) \/ sendPong(a) \/ sendResult(a) \/ sigIntHandler(a)
      BY <3>3 DEF login, sendPong, sendResult, sigIntHandler, From
    <3> QED BY <3>1, <3>2, <3>3 DEF Client
  <2> QED BY <1>3, <2>1 DEF PingInv, OwnQueues, From
<1>5. from # "gone" /\ (from = "exit" => to = "gone")
  <2>1. from # "gone" /\ (from = "exit" => funAtExit(a) \/ Killed(a))
    BY <1>2 DEF Client, login, response, read, sendPong, calc, sendResult, sigIntHandler,
                funAtExit, Killed, At
  <2>2. funAtExit(a) \/ Killed(a) => pc' = [pc EXCEPT ![a] = "gone"]
    BY DEF funAtExit, Killed, At
  <2>3. pc \in [Procs -> ClientPcs]
    BY DEF Types
  <2> QED BY <1>2, <2>1, <2>2, <2>3
<1>6. \A c \in Procs : (Gone(c) => Gone(c)') /\ (pc[c] = "gone" => pc'[c] = "gone")
                       /\ (pc'[c] = "login" => pc[c] = "login")
  <2>1. to # "login" \/ from = "login"
    BY <1>1, <1>2, ZenonT(30)
       DEF Client, login, response, read, sendPong, calc, sendResult, sigIntHandler, funAtExit,
           Killed, At, Types
  <2> QED BY <1>2, <1>5, <2>1 DEF Gone
<1>7. ASSUME \A c \in Local : Leaving(c)' => Leaving(c) \/ pc'[c] = "gone",
             \A c \in Local : Pending(c)' => Pending(c) \/ pc[c] = "login",
             \A c \in Local : ~Gone(c)' => Outstanding(c)' = Outstanding(c)
      PROVE  PingInv'
  <2>1. ASSUME NEW c \in Sole
        PROVE  Counted(c)'
    <3>1. c \in Local /\ c \in Procs /\ Counted(c)
      BY SoleName DEF PingInv
    <3>2. CASE Gone(c)'
      BY <3>2 DEF Counted
    <3>3. CASE ~Gone(c)'
      <4>1. pc'[c] = "login" \/ Pending(c)' => pc[c] = "login" \/ Pending(c)
        BY <1>6, <1>7, <3>1
      <4> QED BY <1>2, <1>6, <1>7, <3>1, <3>3, <4>1, KeptPlaces, Recounted
    <3> QED BY <3>2, <3>3
  <2>2. \A c \in Local : Leaving(c)' => pc'[c] = "gone"
    BY <1>6, <1>7, Sizes DEF PingInv
  <2> QED BY <1>2, <1>4, <2>1, <2>2, SameSole DEF PingInv
<1>8. ASSUME NEW type \in Range(MessageTypes), NEW n \in Orders, Send(a, type, n),
             type = "LOGIN" => pc[a] = "login", type = "LOGOUT" => to = "gone",
             to = "gone" \/ inbox' = inbox,
             type = "PONG" => from = "pong" /\ to = "read",
             type # "PONG" => from # "pong" /\ to # "pong"
      PROVE  PingInv'
  <2>1. a \in Local /\ type = "LOGIN" => ~Pending(a)
    BY <1>8 DEF LocalInv, Starts
  <2>2. \A c \in Local : Pending(c)' => Pending(c) \/ pc[c] = "login"
    BY <1>2, <1>8, <2>1, SendLogin DEF LocalInv
  <2>3. \A c \in Local : Leaving(c)' => Leaving(c) \/ pc'[c] = "gone"
    BY <1>2, <1>8, SendCounts
  <2>4. ASSUME NEW c \in Local, ~Gone(c)'
        PROVE  Outstanding(c)' = Outstanding(c)
    <3>1. c \in Procs
      BY Sizes
    <3>2. inbox'[c] = inbox[c]
      BY <1>2, <1>3, <1>8, <2>4, <3>1 DEF Gone
    <3>3. /\ c = a /\ type = "PONG" => pc[c] = "pong" /\ pc'[c] # "pong"
          /\ ~(c = a /\ type = "PONG") => Ponging(pc'[c]) = Ponging(pc[c])
      BY <1>2, <1>8, <3>1 DEF Ponging
    <3> QED BY <1>2, <1>8, <3>2, <3>3, SentCounts
  <2> QED BY <1>7, <2>2, <2>3, <2>4
<1>9. CASE login(a) \/ sendPong(a) \/ funAtExit(a)
  <2>1. {"LOGIN", "PONG", "LOGOUT"} \subseteq Range(MessageTypes)
    BY KnownTypes
  <2>2. CASE login(a)
    <3>1. from = "login" /\ to = "response" /\ Send(a, "LOGIN", 0) /\ inbox' = inbox
      BY <1>2, <2>2 DEF login, At, Types
    <3> QED BY <1>2, <1>8, <2>1, <3>1, Sizes
  <2>3. CASE sendPong(a)
    <3>1. from = "pong" /\ to = "read" /\ Send(a, "PONG", 0) /\ inbox' = inbox
      BY <1>2, <2>3 DEF sendPong, At, Types
    <3> QED BY <1>2, <1>8, <2>1, <3>1, Sizes
  <2>4. CASE funAtExit(a)
    <3>1. from = "exit" /\ to = "gone" /\ Send(a, "LOGOUT", 0)
      BY <1>2, <2>4 DEF funAtExit, At, Types
    <3> QED BY <1>2, <1>8, <2>1, <3>1, Sizes
  <2> QED BY <1>9, <2>2, <2>3, <2>4
<1>10. CASE sendResult(a)
  <2>1. PICK n \in Orders : n = order[a]
    BY DEF Types
  <2>2. from = "result" /\ to = "read" /\ Send(a, "RESULT", n) /\ inbox' = inbox
    BY <1>2, <1>10, <2>1 DEF sendResult, At, Types
  <2> QED BY <1>2, <1>8, <2>2, KnownTypes
<1>11. ASSUME socket' = socket,
              a \in Local /\ ~Gone(a)' => Outstanding(a)' = Outstanding(a)
       PROVE  PingInv'
  <2>1. \A c \in Local : Pending(c)' <=> Pending(c)
    BY <1>2, <1>11, NothingMoves DEF LocalInv
  <2>2. \A c \in Local : Leaving(c)' => Leaving(c)
    BY <1>2, <1>11 DEF Leaving
  <2>3. ASSUME NEW c \in Local, c # a
        PROVE  Outstanding(c)' = Outstanding(c)
    <3>1. inbox'[c] = inbox[c] /\ pc'[c] = pc[c]
      BY <1>2, <1>3, <2>3, Sizes
    <3> QED BY <1>2, <1>11, <3>1 DEF Outstanding
  <2> QED BY <1>7, <1>11, <2>1, <2>2, <2>3
<1>12. CASE sigIntHandler(a) \/ Killed(a)
  <2>1. socket' = socket /\ to \in {"exit", "gone"}
    BY <1>2, <1>12 DEF sigIntHandler, Killed, At, Types
  <2> QED BY <1>2, <1>11, <2>1 DEF Gone
<1>13. CASE response(a) \/ read(a) \/ calc(a)
  <2>1. PICK i \in Arriving(Kind(a), inbox[a]) :
          /\ Takes(a, i) /\ pc[a] \in {"response", "read", "calc"}
          /\ pc[a] = "response" => pc'[a] \in {"read", "exit"}
          /\ pc[a] = "read" => pc'[a] = CASE FirstByte(inbox[a][i]) = "REQUEST" -> "calc"
                                          [] FirstByte(inbox[a][i]) = "PING" -> "pong"
                                          [] OTHER -> "read"
          /\ pc[a] = "calc" => pc'[a] \in {"result", "exit"}
    BY <1>13 DEF response, read, calc, At, Types
  <2>2. socket' = socket
    BY <2>1 DEF Takes
  <2>3. ASSUME a \in Local
        PROVE  Outstanding(a)' = Outstanding(a)
    <3>1. i \in DOMAIN inbox[a] /\ i = 1
      BY <2>1, <2>3, TakesDoes
    <3>2. Talks(pc[a], inbox[a])
      BY <2>1, <2>3 DEF LocalInv, Follows, Talking
    <3>3. /\ pc[a] \in {"response", "calc"} => inbox[a][i].type # "PING"
          /\ pc[a] = "read" => inbox[a][i].type \in {"PING", "REQUEST"}
      BY <3>1, <3>2 DEF Talks, Answers
    <3>4. pc'[a] = "pong" <=> inbox[a][i].type = "PING"
      BY <2>1, <3>3 DEF FirstByte
    <3>5. pc[a] # "pong"
      BY <2>1
    <3> QED BY <1>2, <2>1, <2>3, <3>4, <3>5, TakenCounts DEF PingInv
  <2> QED BY <1>11, <2>2, <2>3
<1> QED BY <1>9, <1>10, <1>12, <1>13 DEF Client

LEMMA PingStep == Types /\ Types' /\ ListInv /\ LocalInv /\ PingInv /\ [Next]_vars => PingInv'
<1> SUFFICES ASSUME Types, Types', ListInv, LocalInv, PingInv, [Next]_vars PROVE PingInv'
  OBVIOUS
<1>1. CASE Server
  BY <1>1, messagePing, HandlersPing, PingPing, TermPing DEF Server, Kinds, LocalInv
<1>2. CASE \E c \in Procs : Client(c)
  BY <1>2, ClientPing
<1>3. CASE UNCHANGED vars
  <2>1. UNCHANGED <<clients, inbox, pc, socket, msg, name>>
    BY <1>3 DEF vars, server, procs
  <2>2. \A c : /\ Outstanding(c)' = Outstanding(c) /\ Pending(c)' = Pending(c)
               /\ Leaving(c)' = Leaving(c) /\ Gone(c)' = Gone(c)
    BY <2>1 DEF Outstanding, Pending, Leaving, Gone
  <2> QED BY <2>1, <2>2, SameSole DEF PingInv, OwnQueues, Counted
<1> QED BY <1>1, <1>2, <1>3 DEF Next

LEMMA InitPing == Init => PingInv
<1> SUFFICES ASSUME Init PROVE PingInv
  OBVIOUS
<1>1. /\ socket["LOCAL"] = <<>> /\ clients = <<>> /\ msg = Nothing /\ DOMAIN clients = {}
      /\ \A c \in Procs : inbox[c] = <<>> /\ pc[c] = "login"
  BY DEF Init
<1>2. OwnQueues /\ \A c : ~Leaving(c)
  BY <1>1, NothingType DEF OwnQueues, Leaving, LogoutOf
<1>3. ASSUME NEW c \in Local
      PROVE  Outstanding(c) = 0
  <2>1. inbox[c] = <<>> /\ pc[c] # "pong" /\ Kind(c) = "LOCAL" /\ msg.type # "PONG"
    BY <1>1, Sizes, KindOf, NothingType
  <2>2. Count(inbox[c], "PING", c) = 0 /\ Count(socket[Kind(c)], "PONG", c) = 0
    BY <1>1, <2>1, CountNone
  <2> QED BY <2>1, <2>2 DEF Outstanding
<1> QED BY <1>1, <1>2, <1>3, SoleName DEF PingInv, Counted

\* Nobody's LOGOUT but its own takes a local client with a name of its own off
\* the list, and no ping procedure that has seen all its pings answered.
LEMMA LeavesStep ==
  ASSUME Types, Types', ListInv, LocalInv, PingInv, [Next]_vars, NEW c \in Sole,
         c \in Listed, c \notin Listed'
  PROVE  Outstanding(c) > 0 \/ pc[c] \in {"exit", "gone"}
<1>1. c \in Local /\ c \in Procs /\ Counted(c)
      /\ \A d \in Procs : name[d] = name[c] => d = c
  BY SoleName DEF PingInv
<1>2. PICK k \in DOMAIN clients : clients[k].addr = c
  BY DEF Listed
<1>3. clients \in Seq(Entry) /\ clients[k] \in Entry /\ clients[k].name = name[c]
  BY <1>2 DEF Types, ListInv
<1>4. clients' # clients /\ ~SameList
  BY KeptListed, SameListed
<1>5. \/ login_client \/ logoutClient \/ pong \/ PingRemoves \/ PingWrites
  <2>1. ~(\E d \in Procs : Client(d))
    BY <1>4 DEF Client, login, response, read, sendPong, calc, sendResult, sigIntHandler,
                funAtExit, Killed, At, server
  <2>2. clients' # clients
    BY <1>4
  <2>3. ~UNCHANGED vars /\ ~message("LOCAL") /\ ~message("WEB") /\ ~PingLock /\ ~PingUnlock
        /\ ~TermOrder /\ ~TermNobody /\ ~TermWriteType /\ ~TermWriteOperation
    BY <2>2 DEF vars, server, message, PingLock, PingUnlock, TermOrder, TermNobody,
                TermWriteType, TermWriteOperation, Term
  <2> QED BY <2>1, <2>3 DEF Next, Server
<1>6. CASE login_client
  <2>1. clients' = Append(clients, [addr |-> msg.addr, name |-> name[msg.addr],
                                    is_inactive |-> 0])
    BY <1>4, <1>6 DEF login_client
  <2>2. PICK s, t, e : s \in Seq(Entry) /\ s = clients /\ t = clients'
          /\ e = [addr |-> msg.addr, name |-> name[msg.addr], is_inactive |-> 0]
    BY <1>3
  <2>3. t = Append(s, e) /\ k \in 1..Len(s)
    BY <1>3, <2>1, <2>2
  <2>4. k \in DOMAIN t /\ t[k] = s[k]
    BY <2>2, <2>3
  <2>5. c \in Listed'
    BY <1>2, <2>2, <2>4 DEF Listed
  <2> QED BY <2>5
<1>7. CASE pong
  BY <1>4, <1>7, pongTypes
<1>8. CASE PingWrites
  <2>1. PICK i \in DOMAIN clients, x \in 0..255 : i = pingAt /\ x = 1
    BY <1>8 DEF PingWrites
  <2>2. clients' = [clients EXCEPT ![i].is_inactive = x]
    BY <1>8, <2>1 DEF PingWrites
  <2>3. SameList
    BY <1>3, <2>2, EntryChanges DEF SameList
  <2> QED BY <1>4, <2>3
<1>9. ASSUME NEW i \in DOMAIN clients, clients' = RemoveAt(clients, i)
      PROVE  i = k
  <2>1. PICK s, t : s \in Seq(Entry) /\ s = clients /\ t = clients'
    BY <1>3
  <2>2. /\ s \in Seq(Entry) /\ i \in DOMAIN s /\ k \in DOMAIN s /\ t = RemoveAt(s, i)
        /\ \A j \in DOMAIN t : t[j] # s[k]
    BY <1>2, <1>9, <2>1 DEF Listed
  <2>3. /\ Len(t) = Len(s) - 1 /\ Len(s) \in Nat /\ i \in Nat /\ t \in Seq(Entry)
        /\ \A j \in DOMAIN t :
              /\ j < i => t[j] = s[j]
              /\ j >= i => t[j] = s[j + 1]
    BY <2>2, RemovedFrom
  <2>4. k \in 1..Len(s) /\ i \in 1..Len(s) /\ DOMAIN t = 1..(Len(s) - 1)
    BY <2>2, <2>3
  <2>5. ~(k < i)
    <3>1. k < i => k \in DOMAIN t
      BY <2>3, <2>4
    <3> QED BY <2>2, <2>3, <3>1
  <2>6. ~(k > i)
    <3>1. k > i => k - 1 \in DOMAIN t /\ k - 1 >= i /\ (k - 1) + 1 = k
      BY <2>3, <2>4
    <3> QED BY <2>2, <2>3, <3>1
  <2> QED BY <2>4, <2>5, <2>6
<1>10. CASE logoutClient
  <2>1. Handles("LOGOUT") /\ "LOGOUT" \in Range(MessageTypes)
    BY <1>10, KnownTypes DEF logoutClient
  <2>2. msg.addr \in Procs /\ msg.type = "LOGOUT"
    BY <2>1, HandlesTypes
  <2>3. PICK i : i = check_name(name[msg.addr])
    OBVIOUS
  <2>4. i # 0 /\ clients' = RemoveAt(clients, i)
    BY <1>4, <1>10, <2>3 DEF logoutClient
  <2>5. i \in DOMAIN clients /\ clients[i].name = name[msg.addr]
    BY <1>3, <2>3, <2>4, NameFound
  <2>6. msg.addr = c
    BY <1>1, <1>3, <1>9, <2>2, <2>4, <2>5
  <2> QED BY <1>1, <2>2, <2>6 DEF PingInv, Leaving, LogoutOf
<1>11. CASE PingRemoves
  <2>1. PICK i \in DOMAIN clients : i = pingAt
    BY <1>11 DEF PingRemoves
  <2>2. clients' = RemoveAt(clients, i) /\ clients[i].is_inactive # 0
    BY <1>11, <2>1 DEF PingRemoves
  <2>3. clients[k].is_inactive # 0 /\ clients[k].is_inactive \in Nat
    <3>1. i = k
      BY <1>9, <2>2
    <3>2. clients[k].is_inactive \in 0..255
      BY <1>3 DEF Entry
    <3> QED BY <2>2, <3>1, <3>2
  <2>4. ~Gone(c) => clients[k].is_inactive = Outstanding(c)
    BY <1>1, <1>2 DEF Counted
  <2> QED BY <2>3, <2>4 DEF Gone
<1> QED BY <1>5, <1>6, <1>7, <1>8, <1>10, <1>11

\* A local client with a name of its own leaves the list for a cause of its own.
THEOREM NobodyLeavesUncaused == Spec => LeavesForCause
<1>1. Types /\ Types' /\ ListInv /\ LocalInv /\ PingInv /\ [Next]_vars =>
        [\A c \in Sole : c \in Listed /\ c \notin Listed' =>
           Outstanding(c) > 0 \/ pc[c] \in {"exit", "gone"}]_vars
  BY LeavesStep
<1> QED BY InitTypes, StepTypes, InitLocal, LocalStep, InitPing, PingStep, <1>1, PTL
    DEF Spec, LeavesForCause
=============================================================================
