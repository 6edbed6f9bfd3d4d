------------------------ MODULE MsgServerPosixProofs ------------------------
(***************************************************************************)
(* The request server over POSIX message queues keeps its tables right,    *)
(* loses no place, and its clients' queues hold their own answers and have *)
(* room, for any number of servers, clients, places and requests.          *)
(***************************************************************************)
EXTENDS MsgServerPosix, FiniteSetTheorems, SequenceTheorems, TLAPS

(* Sequences and numbers. *)
\* What is left of a sequence when its first element is taken.
LEMMA TailAt ==
  ASSUME NEW S, NEW s \in Seq(S), s # <<>>
  PROVE  /\ Tail(s) \in Seq(S) /\ Head(s) = s[1] /\ Head(s) \in S
         /\ 1 \in DOMAIN s
         /\ \A i \in DOMAIN Tail(s) :
              i + 1 \in DOMAIN s /\ i + 1 # 1 /\ Tail(s)[i] = s[i + 1]
         /\ Len(s) \in Nat \ {0} /\ Len(Tail(s)) = Len(s) - 1
BY SMT

\* What it is when an element has been added at its end.
LEMMA AppendAt ==
  ASSUME NEW S, NEW s \in Seq(S), NEW e \in S
  PROVE  /\ Append(s, e) \in Seq(S)
         /\ DOMAIN Append(s, e) = DOMAIN s \cup {Len(s) + 1}
         /\ Len(s) + 1 \notin DOMAIN s
         /\ \A i \in DOMAIN s : i <= Len(s) /\ Append(s, e)[i] = s[i]
         /\ Append(s, e)[Len(s) + 1] = e
BY SMT

\* A set of numbers that is not empty has a least one: the sets 0..x are
\* well-founded by inclusion.
LEMMA LeastNumber ==
  ASSUME NEW T, T \subseteq Nat, T # {}
  PROVE  \E x \in T : \A y \in T : x <= y
<1> DEFINE F == {0..x : x \in T}
<1>1. F \subseteq FiniteSubsetsOf(Nat) /\ F # {}
  <2>1. \A x \in T : IsFiniteSet(0..x)
    BY FS_Interval
  <2>2. \A x \in T : 0..x \in SUBSET Nat
    OBVIOUS
  <2> QED BY <2>1, <2>2 DEF FiniteSubsetsOf
<1>2. IsWellFoundedOn(StrictSubsetOrdering(Nat), FiniteSubsetsOf(Nat))
  BY FS_StrictSubsetOrderingWellFounded
<1>3. PICK X \in F : \A Y \in F : <<Y, X>> \notin StrictSubsetOrdering(Nat)
  <2> HIDE DEF F
  <2> QED BY <1>1, <1>2, WFMin
<1>4. PICK x \in T : X = 0..x
  OBVIOUS
<1>5. ASSUME NEW y \in T PROVE x <= y
  <2> SUFFICES ASSUME y < x PROVE FALSE
    OBVIOUS
  <2>1. 0..y \in SUBSET Nat /\ 0..x \in SUBSET Nat
    OBVIOUS
  <2>2. 0..y \subseteq 0..x /\ x \in 0..x /\ x \notin 0..y
    OBVIOUS
  <2>3. <<0..y, 0..x>> \in StrictSubsetOrdering(Nat)
    <3> DEFINE A == 0..y
               B == 0..x
    <3>1. A # B
      BY <2>2
    <3> HIDE DEF A, B
    <3> QED BY <2>1, <2>2, <3>1 DEF A, B, StrictSubsetOrdering
  <2> QED BY <1>3, <1>4, <2>3
<1> QED BY <1>5

-----------------------------------------------------------------------------
\* What the assumptions say of the constants, as the proofs use it.
LEMMA Constants ==
  /\ MaxMsg \in Nat /\ MaxMsg > 1
  /\ MAX_CLIENTS \in Nat /\ MAX_CLIENTS > 0 /\ MaxRequests \in Nat
  /\ Nobody \notin Procs \cup Servers
  /\ Ids \subseteq Nat /\ -1 \notin Ids /\ MAX_CLIENTS - 1 \in Ids
BY SizesAssumption, NobodyAssumption DEF Ids

-----------------------------------------------------------------------------
Requested ==
  [mtype : Commands \cup {"INTRODUCE", "STOP", "END"}, client : Procs,
   clientId : {-1} \cup Ids, nr : 0..MaxRequests]
Answers == [client : Procs, nr : 0..MaxRequests, id : {-1} \cup Ids]

Types ==
  /\ name \in Servers \cup {Nobody}
  /\ st \in [Servers -> {"new", "up", "interrupted", "ended", "crashed", "refused"}]
  /\ clients \in [Servers -> [Ids -> Procs \cup {Nobody}]]
  /\ serverQ \in [Servers -> Seq(Requested)]
  /\ queue \in [Procs -> Seq(Answers)]
  /\ srv \in [Procs -> Servers \cup {Nobody}]
  /\ pc \in [Procs -> {"new", "opened", "introduced", "ready", "waiting", "exiting", "gone"}]
  /\ clientId \in [Procs -> {-1} \cup Ids]
  /\ nr \in [Procs -> 0..MaxRequests]
  /\ \A c \in Procs : pc[c] \notin {"new", "gone"} => srv[c] \in Servers

\* r is q with m put in at p.
Between(q, p, m, r) ==
  /\ p \in 1..(Len(q) + 1) /\ Len(r) = Len(q) + 1 /\ r[p] = m
  /\ \A i \in 1..(p - 1) : r[i] = q[i]
  /\ \A i \in p..Len(q) : r[i + 1] = q[i]

\* InsertAt of SequencesExt puts one element in and moves what is behind it.
LEMMA InsertAtIs ==
  ASSUME NEW S, NEW q \in Seq(S), NEW m \in S, NEW p \in 1..(Len(q) + 1)
  PROVE  InsertAt(q, p, m) \in Seq(S) /\ Between(q, p, m, InsertAt(q, p, m))
<1> DEFINE a == SubSeq(q, 1, p - 1)
           b == SubSeq(q, p, Len(q))
<1>1. Len(q) \in Nat /\ p \in Nat
  OBVIOUS
<1>2. /\ a \in Seq(S) /\ Len(a) = p - 1 /\ \A i \in 1..(p - 1) : a[i] = q[i]
  OBVIOUS
<1>3. /\ b \in Seq(S) /\ Len(b) = Len(q) - p + 1
      /\ \A i \in 1..(Len(q) - p + 1) : b[i] = q[i + p - 1]
  OBVIOUS
<1> HIDE DEF a, b
<1>4. PICK x : x = a \o <<m>>
  OBVIOUS
<1>5. x \in Seq(S) /\ Len(x) = p /\ x[p] = m /\ \A i \in 1..(p - 1) : x[i] = q[i]
  BY <1>1, <1>2, <1>4
<1>6. PICK r : r = x \o b
  OBVIOUS
<1>7. /\ r \in Seq(S) /\ Len(r) = Len(q) + 1
      /\ \A i \in 1..p : r[i] = x[i]
      /\ \A i \in 1..(Len(q) - p + 1) : r[p + i] = b[i]
  <2>1. r \in Seq(S) /\ Len(r) = p + Len(b)
    BY <1>3, <1>5, <1>6
  <2>2. \A i \in 1..(p + Len(b)) : r[i] = IF i <= p THEN x[i] ELSE b[i - p]
    BY <1>1, <1>3, <1>5, <1>6, ConcatProperties
  <2>3. \A i \in 1..p : i \in 1..(p + Len(b)) /\ i <= p
    BY <1>1, <1>3
  <2>4. \A i \in 1..(Len(q) - p + 1) :
          p + i \in 1..(p + Len(b)) /\ ~(p + i <= p) /\ (p + i) - p = i
    BY <1>1, <1>3
  <2> QED BY <1>1, <1>3, <2>1, <2>2, <2>3, <2>4
<1>8. \A i \in p..Len(q) : r[i + 1] = q[i]
  <2> TAKE i \in p..Len(q)
  <2>1. PICK k \in 1..(Len(q) - p + 1) : p + k = i + 1 /\ k + p - 1 = i
    <3>1. i - p + 1 \in 1..(Len(q) - p + 1) /\ p + (i - p + 1) = i + 1 /\ (i - p + 1) + p - 1 = i
      BY <1>1
    <3> QED BY <3>1
  <2>2. r[p + k] = b[k] /\ b[k] = q[k + p - 1]
    BY <1>3, <1>7
  <2> QED BY <2>1, <2>2
<1>9. InsertAt(q, p, m) = r
  BY <1>4, <1>6 DEF InsertAt, a, b
<1> QED BY <1>1, <1>5, <1>7, <1>8, <1>9 DEF Between

\* mq_send puts a message before those of a lower priority; nothing is behind
\* one that is no STOP.
LEMMA InsertIs ==
  ASSUME NEW q \in Seq(Requested), NEW m \in Requested, NEW r, r = Insert(q, m)
  PROVE  /\ r \in Seq(Requested)
         /\ \E p : Between(q, p, m, r) /\ (m.mtype # "STOP" => p = Len(q) + 1)
<1> DEFINE NotBelow == {i \in DOMAIN q : Priority(q[i]) >= Priority(m)}
<1>1. DOMAIN q = 1..Len(q) /\ Len(q) \in Nat
  OBVIOUS
<1>2. IsFiniteSet(1..Len(q)) /\ Cardinality(1..Len(q)) = Len(q)
  BY <1>1, FS_Interval
<1>3. IsFiniteSet(NotBelow) /\ Cardinality(NotBelow) \in Nat /\ Cardinality(NotBelow) <= Len(q)
  BY <1>1, <1>2, FS_Subset, FS_CardinalityType
<1>4. m.mtype # "STOP" => NotBelow = 1..Len(q)
  BY <1>1 DEF Priority
<1>5. r = InsertAt(q, Cardinality(NotBelow) + 1, m)
  BY DEF Insert
<1> HIDE DEF NotBelow
<1>6. Cardinality(NotBelow) + 1 \in 1..(Len(q) + 1)
  BY <1>1, <1>3
<1>7. r \in Seq(Requested) /\ Between(q, Cardinality(NotBelow) + 1, m, r)
  BY <1>5, <1>6, InsertAtIs
<1> QED BY <1>2, <1>4, <1>7

\* What is in r is m or was in q, and what was in q is in r.
LEMMA BetweenFacts ==
  ASSUME NEW S, NEW q \in Seq(S), NEW r \in Seq(S), NEW m, NEW p, Between(q, p, m, r)
  PROVE  /\ p \in DOMAIN r /\ r[p] = m
         /\ \A i \in DOMAIN r : r[i] = m \/ \E j \in DOMAIN q : r[i] = q[j]
         /\ \A j \in DOMAIN q : \E i \in DOMAIN r : r[i] = q[j]
<1>1. /\ DOMAIN q = 1..Len(q) /\ DOMAIN r = 1..Len(r) /\ Len(q) \in Nat
      /\ Len(r) = Len(q) + 1 /\ p \in 1..(Len(q) + 1) /\ r[p] = m
      /\ \A i \in 1..(p - 1) : r[i] = q[i]
      /\ \A i \in p..Len(q) : r[i + 1] = q[i]
  BY DEF Between
<1>2. ASSUME NEW i \in DOMAIN r, i # p PROVE \E j \in DOMAIN q : r[i] = q[j]
  <2>1. CASE i < p
    <3>1. i \in 1..(p - 1) /\ i \in DOMAIN q
      BY <1>1, <2>1
    <3> QED BY <1>1, <3>1
  <2>2. CASE i > p
    <3>1. i - 1 \in p..Len(q) /\ i - 1 \in DOMAIN q /\ (i - 1) + 1 = i
      BY <1>1, <2>2
    <3> QED BY <1>1, <3>1
  <2> QED BY <1>1, <1>2, <2>1, <2>2
<1>3. ASSUME NEW j \in DOMAIN q PROVE \E i \in DOMAIN r : r[i] = q[j]
  <2>1. CASE j < p
    <3>1. j \in 1..(p - 1) /\ j \in DOMAIN r
      BY <1>1, <2>1
    <3> QED BY <1>1, <3>1
  <2>2. CASE j >= p
    <3>1. j \in p..Len(q) /\ j + 1 \in DOMAIN r
      BY <1>1, <2>2
    <3> QED BY <1>1, <3>1
  <2> QED BY <1>1, <2>1, <2>2
<1>4. p \in DOMAIN r
  BY <1>1
<1> QED BY <1>1, <1>2, <1>3, <1>4

-----------------------------------------------------------------------------
(* The lives of the clients. *)
StopIsSent(c) ==
  \E s \in Servers : \E i \in DOMAIN serverQ[s] :
    serverQ[s][i].mtype = "STOP" /\ serverQ[s][i].client = c

Listed(s, c) == \E id \in Ids : clients[s][id] = c

\* A request is from a client of this server. Who introduces itself has no place
\* and no answer yet; a command and a STOP come with the sender's id.
RequestOf(s, m) ==
  /\ srv[m.client] = s /\ pc[m.client] \notin {"new", "opened"}
  /\ m.mtype = "INTRODUCE" =>
       clientId[m.client] = -1 /\ queue[m.client] = <<>> /\ ~Listed(s, m.client)
  /\ m.mtype \in Commands \cup {"STOP"} =>
       m.clientId = clientId[m.client] /\ clientId[m.client] # -1
  /\ m.mtype = "STOP" => pc[m.client] = "gone"

\* A client introduces itself once and stops once.
SameOne(m, n) ==
  m.client = n.client /\ m.mtype = n.mtype /\ m.mtype \in {"INTRODUCE", "STOP"}

Once(q) == \A i, j \in DOMAIN q : SameOne(q[i], q[j]) => i = j

\* A client that has no id yet finds its place in the first answer; one that
\* has an id has the place until its STOP is handled.
LifeOf(c) ==
  /\ pc[c] \in {"new", "opened"} => queue[c] = <<>> /\ \A s \in Servers : ~Listed(s, c)
  /\ pc[c] \in {"new", "opened", "introduced"} => clientId[c] = -1
  /\ pc[c] \in {"ready", "waiting"} => clientId[c] # -1
  /\ clientId[c] = -1 /\ queue[c] # <<>> =>
       /\ srv[c] \in Servers /\ queue[c][1].id \in Ids /\ queue[c][1].client = c
       /\ clients[srv[c]][queue[c][1].id] = c
  /\ clientId[c] # -1 /\ (HasName(c) \/ StopIsSent(c)) =>
       srv[c] \in Servers /\ clients[srv[c]][clientId[c]] = c

\* Who has a place knows it, or will read of it, and a place that is left has
\* its STOP on the way.
PlaceOf(s, id, c) ==
  /\ srv[c] = s
  /\ clientId[c] = id \/ (clientId[c] = -1 /\ queue[c] # <<>> /\ queue[c][1].id = id)
  /\ pc[c] = "gone" /\ clientId[c] # -1 => StopIsSent(c)

PlaceInv ==
  \A s \in Servers : \A id \in Ids :
    clients[s][id] # Nobody => PlaceOf(s, id, clients[s][id])

LifeInv ==
  /\ \A s \in Servers : \A i \in DOMAIN serverQ[s] : RequestOf(s, serverQ[s][i])
  /\ \A s \in Servers : Once(serverQ[s])
  /\ \A c \in Procs : LifeOf(c)
  /\ PlaceInv

\* A message that is like none in the queue does not disturb Once.
LEMMA OncePut ==
  ASSUME NEW S, NEW q \in Seq(S), NEW r \in Seq(S), NEW m, NEW p, Between(q, p, m, r),
         Once(q), \A j \in DOMAIN q : ~SameOne(m, q[j]) /\ ~SameOne(q[j], m)
  PROVE  Once(r)
<1>1. /\ DOMAIN q = 1..Len(q) /\ DOMAIN r = 1..Len(r) /\ Len(q) \in Nat
      /\ Len(r) = Len(q) + 1 /\ p \in 1..(Len(q) + 1) /\ r[p] = m
      /\ \A i \in 1..(p - 1) : r[i] = q[i]
      /\ \A i \in p..Len(q) : r[i + 1] = q[i]
  BY DEF Between
<1> DEFINE was(i) == IF i < p THEN i ELSE i - 1
<1>2. ASSUME NEW i \in DOMAIN r, i # p PROVE was(i) \in DOMAIN q /\ r[i] = q[was(i)]
  <2>1. CASE i < p
    <3>1. i \in 1..(p - 1) /\ i \in DOMAIN q
      BY <1>1, <2>1
    <3> QED BY <1>1, <2>1, <3>1
  <2>2. CASE i > p
    <3>1. i - 1 \in p..Len(q) /\ i - 1 \in DOMAIN q /\ (i - 1) + 1 = i /\ ~(i < p)
      BY <1>1, <2>2
    <3> QED BY <1>1, <3>1
  <2> QED BY <1>1, <1>2, <2>1, <2>2
<1>3. ASSUME NEW i \in DOMAIN r, NEW j \in DOMAIN r, SameOne(r[i], r[j]) PROVE i = j
  <2>1. CASE i = p /\ j # p
    BY <1>1, <1>2, <1>3, <2>1
  <2>2. CASE i # p /\ j = p
    BY <1>1, <1>2, <1>3, <2>2
  <2>3. CASE i # p /\ j # p
    <3>1. was(i) = was(j)
      BY <1>2, <1>3, <2>3 DEF Once
    <3> QED BY <1>1, <2>3, <3>1
  <2> QED BY <2>1, <2>2, <2>3
<1> QED BY <1>3 DEF Once

\* A message in a queue of a server is a request of a client.
LEMMA RequestIn ==
  ASSUME Types, NEW s \in Servers, NEW i \in DOMAIN serverQ[s]
  PROVE  serverQ[s][i] \in Requested /\ serverQ[s][i].client \in Procs
<1>1. serverQ[s] \in Seq(Requested)
  BY DEF Types
<1>2. serverQ[s][i] \in Requested
  BY <1>1
<1> QED BY <1>2 DEF Requested

\* What mq_send of a client does.
LEMMA SendIs ==
  ASSUME Types, NEW c \in Procs, srv[c] \in Servers, NEW m \in Requested,
         Send(c, m)
  PROVE  /\ serverQ' \in [Servers -> Seq(Requested)]
         /\ Len(serverQ[srv[c]]) < MaxMsg
         /\ \A s \in Servers : s # srv[c] => serverQ'[s] = serverQ[s]
         /\ \E p : Between(serverQ[srv[c]], p, m, serverQ'[srv[c]])
                   /\ (m.mtype # "STOP" => p = Len(serverQ[srv[c]]) + 1)
<1>1. PICK q \in Seq(Requested) : q = serverQ[srv[c]]
  BY DEF Types
<1>2. PICK r : r = Insert(q, m)
  OBVIOUS
<1>3. r \in Seq(Requested) /\ \E p : Between(q, p, m, r) /\ (m.mtype # "STOP" => p = Len(q) + 1)
  BY <1>2, InsertIs
<1>4. serverQ' = [serverQ EXCEPT ![srv[c]] = r]
  BY <1>1, <1>2 DEF Send
<1>5. serverQ' \in [Servers -> Seq(Requested)] /\ serverQ'[srv[c]] = r
      /\ \A s \in Servers : s # srv[c] => serverQ'[s] = serverQ[s]
  BY <1>3, <1>4 DEF Types
<1> QED BY <1>1, <1>3, <1>5 DEF Send

-----------------------------------------------------------------------------
(* The steps of a client leave the others alone. *)
OnlyClient(c) ==
  /\ clients' = clients
  /\ \A d \in Procs : d # c =>
       srv'[d] = srv[d] /\ pc'[d] = pc[d] /\ clientId'[d] = clientId[d] /\ queue'[d] = queue[d]
  /\ \A s \in Servers : \A i \in DOMAIN serverQ'[s] :
       serverQ'[s][i].client = c \/ \E j \in DOMAIN serverQ[s] : serverQ'[s][i] = serverQ[s][j]
  /\ \A s \in Servers : \A j \in DOMAIN serverQ[s] :
       \E i \in DOMAIN serverQ'[s] : serverQ'[s][i] = serverQ[s][j]

\* So of a step of c only what LifeInv says about c is to be shown.
LEMMA OthersKept ==
  ASSUME Types, LifeInv, NEW c \in Procs, OnlyClient(c),
         \A s \in Servers : \A i \in DOMAIN serverQ'[s] :
           serverQ'[s][i].client = c => RequestOf(s, serverQ[s][i])',
         \A s \in Servers : Once(serverQ[s])',
         LifeOf(c)',
         \A s \in Servers : \A id \in Ids : clients[s][id] = c => PlaceOf(s, id, c)'
  PROVE  LifeInv'
<1> USE DEF OnlyClient
<1>1. ASSUME NEW s \in Servers, NEW i \in DOMAIN serverQ'[s]
      PROVE  RequestOf(s, serverQ[s][i])'
  <2>1. CASE serverQ'[s][i].client = c
    BY <2>1
  <2>2. CASE serverQ'[s][i].client # c
    <3>1. PICK j \in DOMAIN serverQ[s] : serverQ'[s][i] = serverQ[s][j]
      BY <2>2
    <3>2. serverQ[s][j].client \in Procs /\ RequestOf(s, serverQ[s][j])
      BY RequestIn DEF LifeInv
    <3>3. serverQ'[s][i].client \in Procs /\ RequestOf(s, serverQ'[s][i])
      BY <3>1, <3>2
    <3> QED BY <2>2, <3>3 DEF RequestOf, Listed
  <2> QED BY <2>1, <2>2
<1>2. ASSUME NEW d, d # c PROVE StopIsSent(d)' <=> StopIsSent(d)
  <2>1. ASSUME StopIsSent(d) PROVE StopIsSent(d)'
    <3>0. PICK s \in Servers : \E j \in DOMAIN serverQ[s] :
            serverQ[s][j].mtype = "STOP" /\ serverQ[s][j].client = d
      BY <2>1 DEF StopIsSent
    <3>1. PICK j \in DOMAIN serverQ[s] :
            serverQ[s][j].mtype = "STOP" /\ serverQ[s][j].client = d
      BY <3>0
    <3>2. PICK i \in DOMAIN serverQ'[s] : serverQ'[s][i] = serverQ[s][j]
      OBVIOUS
    <3> QED BY <3>1, <3>2 DEF StopIsSent
  <2>2. ASSUME StopIsSent(d)' PROVE StopIsSent(d)
    <3>0. PICK s \in Servers : \E i \in DOMAIN serverQ'[s] :
            serverQ'[s][i].mtype = "STOP" /\ serverQ'[s][i].client = d
      BY <2>2 DEF StopIsSent
    <3>1. PICK i \in DOMAIN serverQ'[s] :
            serverQ'[s][i].mtype = "STOP" /\ serverQ'[s][i].client = d
      BY <3>0
    <3>2. PICK j \in DOMAIN serverQ[s] : serverQ'[s][i] = serverQ[s][j]
      BY <1>2, <3>1
    <3> QED BY <3>1, <3>2 DEF StopIsSent
  <2> QED BY <2>1, <2>2
<1>3. ASSUME NEW d \in Procs, d # c PROVE LifeOf(d)'
  <2>1. LifeOf(d)
    BY DEF LifeInv
  <2> QED BY <1>2, <1>3, <2>1 DEF LifeOf, Listed, HasName
<1>4. ASSUME NEW s \in Servers, NEW id \in Ids, clients'[s][id] # Nobody
      PROVE  PlaceOf(s, id, clients[s][id])'
  <2>1. PICK d \in Procs : d = clients[s][id]
    BY <1>4 DEF Types
  <2>2. PlaceOf(s, id, d)
    BY <1>4, <2>1 DEF LifeInv, PlaceInv
  <2>3. PlaceOf(s, id, d)'
    <3>1. CASE d = c
      BY <2>1, <3>1
    <3>2. CASE d # c
      BY <1>2, <2>2, <3>2 DEF PlaceOf
    <3> QED BY <3>1, <3>2
  <2> QED BY <2>1, <2>3
<1> QED BY <1>1, <1>3, <1>4 DEF LifeInv, PlaceInv

\* What LifeInv says about one client.
LEMMA LifeFacts ==
  ASSUME Types, LifeInv, NEW c \in Procs
  PROVE  /\ LifeOf(c)
         /\ \A s \in Servers : \A i \in DOMAIN serverQ[s] : RequestOf(s, serverQ[s][i])
         /\ \A s \in Servers : \A id \in Ids : clients[s][id] = c => PlaceOf(s, id, c)
         /\ c # Nobody
<1>1. c # Nobody
  BY Constants DEF Types
<1> QED BY <1>1 DEF LifeInv, PlaceInv

\* A step of a client that sends m, and changes nothing but its label.
LEMMA SendKeeps ==
  ASSUME Types, LifeInv, NEW c \in Procs, NEW m \in Requested, m.client = c,
         srv[c] \in Servers, Send(c, m), UNCHANGED <<clients, srv, queue, clientId>>,
         NEW from, NEW to, Goes(c, from, to),
         from # "gone", to \in {"introduced", "waiting", "exiting", "gone"},
         to = "introduced" => clientId[c] = -1,
         to = "waiting" => clientId[c] # -1,
         m.mtype = "INTRODUCE" => from = "opened",
         m.mtype \in Commands \cup {"STOP"} => m.clientId = clientId[c] /\ clientId[c] # -1,
         m.mtype = "STOP" <=> to = "gone",
         from \in {"opened", "introduced", "ready", "waiting", "exiting"}
  PROVE  LifeInv'
<1>0. PICK s \in Servers : s = srv[c]
  OBVIOUS
<1>1. /\ serverQ' \in [Servers -> Seq(Requested)]
      /\ \A t \in Servers : t # s => serverQ'[t] = serverQ[t]
  BY <1>0, SendIs
<1>2. PICK p : Between(serverQ[s], p, m, serverQ'[s])
  BY <1>0, SendIs
<1>3. serverQ[s] \in Seq(Requested) /\ serverQ'[s] \in Seq(Requested)
  BY <1>1 DEF Types
<1>4. /\ p \in DOMAIN serverQ'[s] /\ serverQ'[s][p] = m
      /\ \A i \in DOMAIN serverQ'[s] :
           serverQ'[s][i] = m \/ \E j \in DOMAIN serverQ[s] : serverQ'[s][i] = serverQ[s][j]
      /\ \A j \in DOMAIN serverQ[s] : \E i \in DOMAIN serverQ'[s] : serverQ'[s][i] = serverQ[s][j]
  BY <1>2, <1>3, BetweenFacts
<1>5. /\ pc[c] = from /\ pc'[c] = to /\ \A d \in Procs : d # c => pc'[d] = pc[d]
  BY DEF Goes, Types
<1>6. OnlyClient(c)
  <2>1. ASSUME NEW t \in Servers, NEW i \in DOMAIN serverQ'[t]
        PROVE  \/ serverQ'[t][i].client = c
               \/ \E j \in DOMAIN serverQ[t] : serverQ'[t][i] = serverQ[t][j]
    <3>1. CASE t = s
      BY <1>4, <3>1
    <3>2. CASE t # s
      BY <1>1, <3>2
    <3> QED BY <3>1, <3>2
  <2>2. ASSUME NEW t \in Servers, NEW j \in DOMAIN serverQ[t]
        PROVE  \E i \in DOMAIN serverQ'[t] : serverQ'[t][i] = serverQ[t][j]
    BY <1>1, <1>4
  <2> QED BY <1>5, <2>1, <2>2 DEF OnlyClient
<1>7. /\ LifeOf(c)
      /\ \A t \in Servers : \A i \in DOMAIN serverQ[t] : RequestOf(t, serverQ[t][i])
      /\ \A t \in Servers : \A id \in Ids : clients[t][id] = c => PlaceOf(t, id, c)
  BY LifeFacts
<1>8. ASSUME NEW t \in Servers, NEW n, n.client = c, RequestOf(t, n) PROVE RequestOf(t, n)'
  BY <1>5, <1>8 DEF RequestOf, Listed
<1>9. RequestOf(s, m)'
  <2>1. m.mtype = "INTRODUCE" => clientId[c] = -1 /\ queue[c] = <<>> /\ ~Listed(s, c)
    BY <1>0, <1>5, <1>7 DEF LifeOf
  <2> QED BY <1>0, <1>5, <2>1 DEF RequestOf, Listed
<1>10. ASSUME NEW t \in Servers, NEW i \in DOMAIN serverQ'[t], serverQ'[t][i].client = c
       PROVE  RequestOf(t, serverQ[t][i])'
  <2>1. CASE t = s /\ serverQ'[t][i] = m
    BY <1>9, <2>1
  <2>2. CASE ~(t = s /\ serverQ'[t][i] = m)
    <3>1. PICK j \in DOMAIN serverQ[t] : serverQ'[t][i] = serverQ[t][j]
      BY <1>1, <1>4, <2>2
    <3>2. PICK n : n = serverQ[t][j]
      OBVIOUS
    <3>3. RequestOf(t, n) /\ n.client = c
      BY <1>7, <1>10, <3>1, <3>2
    <3>4. RequestOf(t, n)'
      BY <1>8, <3>3
    <3> QED BY <3>1, <3>2, <3>4
  <2> QED BY <2>1, <2>2
<1>11. ASSUME NEW t \in Servers PROVE Once(serverQ[t])'
  <2>1. CASE t # s
    BY <1>1, <2>1 DEF LifeInv
  <2>2. CASE t = s
    <3>1. ASSUME NEW j \in DOMAIN serverQ[s]
          PROVE  ~SameOne(m, serverQ[s][j]) /\ ~SameOne(serverQ[s][j], m)
      <4>1. RequestOf(s, serverQ[s][j])
        BY <1>7, <2>2
      <4> QED BY <1>5, <4>1 DEF SameOne, RequestOf
    <3>2. Once(serverQ[s])
      BY <2>2 DEF LifeInv
    <3>3. Once(serverQ'[s])
      BY <1>2, <1>3, <3>1, <3>2, OncePut
    <3> QED BY <2>2, <3>3
  <2> QED BY <2>1, <2>2
<1>12. to = "gone" => StopIsSent(c)'
  BY <1>4 DEF StopIsSent
<1>13. LifeOf(c)'
  BY <1>5, <1>7 DEF LifeOf, Listed, HasName
<1>14. ASSUME NEW t \in Servers, NEW id \in Ids, clients[t][id] = c PROVE PlaceOf(t, id, c)'
  <2>1. PlaceOf(t, id, c)
    BY <1>7, <1>14
  <2> QED BY <1>5, <1>12, <2>1 DEF PlaceOf
<1> QED BY <1>6, <1>10, <1>11, <1>13, <1>14, OthersKept

-----------------------------------------------------------------------------
(* Types of the steps. *)
\* What a client sends.
LEMMA RequestTypes ==
  ASSUME Types, NEW c \in Procs, NEW mtype \in Commands \cup {"INTRODUCE", "STOP", "END"},
         NEW n \in 0..MaxRequests
  PROVE  /\ Request(mtype, c) \in Requested
         /\ Request(mtype, c).client = c /\ Request(mtype, c).mtype = mtype
         /\ Request(mtype, c).clientId = clientId[c]
         /\ [Request(mtype, c) EXCEPT !.nr = n] \in Requested
         /\ [Request(mtype, c) EXCEPT !.nr = n].client = c
         /\ [Request(mtype, c) EXCEPT !.nr = n].mtype = mtype
         /\ [Request(mtype, c) EXCEPT !.nr = n].clientId = clientId[c]
BY DEF Request, Requested, Types

\* The queue of a client after it has read its first message.
LEMMA QueueRead ==
  ASSUME Types, NEW c \in Procs, queue[c] # <<>>, queue' = [queue EXCEPT ![c] = Tail(@)]
  PROVE  /\ queue' \in [Procs -> Seq(Answers)]
         /\ Head(queue[c]) = queue[c][1] /\ queue[c][1] \in Answers
         /\ queue[c][1].id \in {-1} \cup Ids
         /\ queue'[c] = Tail(queue[c])
         /\ \A d \in Procs : d # c => queue'[d] = queue[d]
<1>1. queue[c] \in Seq(Answers)
  BY DEF Types
<1>2. /\ Tail(queue[c]) \in Seq(Answers) /\ Head(queue[c]) = queue[c][1]
      /\ Head(queue[c]) \in Answers
  BY <1>1, TailAt
<1> QED BY <1>2 DEF Types, Answers

\* A step of a client, and below of a server, keeps the types.
LEMMA ClientTypes ==
  ASSUME Types, NEW c \in Procs, Client(c)
  PROVE  Types'
<1> USE DEF server, Goes
<1>1. ASSUME NEW m \in Requested, Send(c, m), srv[c] \in Servers
      PROVE  serverQ' \in [Servers -> Seq(Requested)]
  BY <1>1, SendIs
<1>2. pc[c] \notin {"new", "gone"} => srv[c] \in Servers
  BY DEF Types
<1>3. 0 \in 0..MaxRequests
  BY Constants DEF Types
<1>4. ASSUME NEW mtype \in Commands \cup {"INTRODUCE", "STOP", "END"}
      PROVE  Request(mtype, c) \in Requested
  BY <1>3, RequestTypes
<1>5. CASE Open(c)
  BY <1>5, Constants DEF Open, Types
<1>6. CASE Introduce(c)
  <2>1. serverQ' \in [Servers -> Seq(Requested)]
    BY <1>1, <1>2, <1>4, <1>6 DEF Introduce
  <2> QED BY <1>6, <2>1 DEF Introduce, Types
<1>7. CASE Introduced(c)
  <2>1. queue' \in [Procs -> Seq(Answers)] /\ Head(queue[c]).id \in {-1} \cup Ids
    BY <1>7, QueueRead DEF Introduced
  <2> QED BY <1>7, <2>1 DEF Introduced, Types
<1>8. CASE SendCommand(c)
  <2>1. nr[c] + 1 \in 0..MaxRequests
    BY <1>8, Constants DEF SendCommand, Types
  <2>2. PICK mtype \in Commands : Send(c, [Request(mtype, c) EXCEPT !.nr = nr[c] + 1])
    BY <1>8 DEF SendCommand
  <2>3. [Request(mtype, c) EXCEPT !.nr = nr[c] + 1] \in Requested
    BY <2>1, RequestTypes
  <2>4. serverQ' \in [Servers -> Seq(Requested)]
    BY <1>1, <1>2, <1>8, <2>2, <2>3 DEF SendCommand
  <2> QED BY <1>8, <2>1, <2>4 DEF SendCommand, Types
<1>9. CASE ReceiveAnswer(c)
  <2>1. queue' \in [Procs -> Seq(Answers)]
    BY <1>9, QueueRead DEF ReceiveAnswer
  <2> QED BY <1>9, <2>1 DEF ReceiveAnswer, Types
<1>10. CASE SendEnd(c)
  <2>1. serverQ' \in [Servers -> Seq(Requested)]
    BY <1>1, <1>2, <1>4, <1>10 DEF SendEnd
  <2> QED BY <1>10, <2>1 DEF SendEnd, Types
<1>11. CASE Leave(c)
  BY <1>11 DEF Leave, Types
<1>12. CASE removeQAtExit(c)
  <2>1. serverQ' \in [Servers -> Seq(Requested)]
    <3>1. CASE clientId[c] # -1
      BY <1>1, <1>2, <1>4, <1>12, <3>1 DEF removeQAtExit
    <3>2. CASE clientId[c] = -1
      BY <1>12, <3>2 DEF removeQAtExit, Types
    <3> QED BY <3>1, <3>2
  <2> QED BY <1>12, <2>1 DEF removeQAtExit, Types
<1> QED BY <1>5, <1>6, <1>7, <1>8, <1>9, <1>10, <1>11, <1>12 DEF Client

\* new_client finds a place that is free.
LEMMA FirstFreeIsFree ==
  ASSUME Types, NEW s \in Servers, FreeIds(s) # {}
  PROVE  FirstFree(s) \in Ids /\ clients[s][FirstFree(s)] = Nobody
<1>1. FreeIds(s) \subseteq Nat
  BY Constants DEF FreeIds, Types
<1>2. \E id \in FreeIds(s) : \A other \in FreeIds(s) : id <= other
  BY <1>1, LeastNumber
<1>3. FirstFree(s) \in FreeIds(s)
  BY <1>2 DEF FirstFree
<1> QED BY <1>3 DEF FreeIds

\* mq_send of the server.
LEMMA PostIs ==
  ASSUME Types, NEW c \in Procs \cup {Nobody}, NEW a \in Answers, Post(c, a)
  PROVE  /\ queue' \in [Procs -> Seq(Answers)]
         /\ c # Nobody => queue'[c] = Append(queue[c], a)
         /\ \A d \in Procs : d # c => queue'[d] = queue[d]
         /\ c = Nobody => queue' = queue
<1>1. CASE c = Nobody
  <2>1. Nobody \notin Procs
    BY Constants DEF Types
  <2> QED BY <1>1, <2>1 DEF Post, Types
<1>2. CASE c # Nobody
  <2>1. c \in Procs /\ queue[c] \in Seq(Answers)
    BY <1>2 DEF Types
  <2>2. Append(queue[c], a) \in Seq(Answers)
    BY <2>1
  <2> QED BY <1>2, <2>1, <2>2 DEF Post, Types
<1> QED BY <1>1, <1>2

\* The queue of a server after it has taken its first message.
LEMMA HeadTaken ==
  ASSUME Types, NEW s \in Servers, serverQ[s] # <<>>,
         serverQ' = [serverQ EXCEPT ![s] = Tail(@)]
  PROVE  /\ serverQ' \in [Servers -> Seq(Requested)]
         /\ Head(serverQ[s]) = serverQ[s][1] /\ 1 \in DOMAIN serverQ[s]
         /\ serverQ[s][1] \in Requested /\ serverQ[s][1].client \in Procs
         /\ serverQ'[s] = Tail(serverQ[s]) /\ Len(serverQ'[s]) = Len(serverQ[s]) - 1
         /\ \A i \in DOMAIN serverQ'[s] :
              /\ i \in Nat /\ i + 1 \in DOMAIN serverQ[s] /\ i + 1 # 1
              /\ serverQ'[s][i] = serverQ[s][i + 1]
         /\ \A j \in DOMAIN serverQ[s] : j # 1 =>
              \E i \in DOMAIN serverQ'[s] : i + 1 = j /\ serverQ'[s][i] = serverQ[s][j]
         /\ \A t \in Servers : t # s => serverQ'[t] = serverQ[t]
<1>1. PICK q \in Seq(Requested) : q = serverQ[s]
  BY DEF Types
<1>2. q # <<>>
  BY <1>1
<1>3. PICK r : r = Tail(q)
  OBVIOUS
<1>4. /\ r \in Seq(Requested) /\ Head(q) = q[1] /\ q[1] \in Requested /\ 1 \in DOMAIN q
      /\ Len(r) = Len(q) - 1 /\ Len(q) \in Nat \ {0}
      /\ \A i \in DOMAIN r : i + 1 \in DOMAIN q /\ i + 1 # 1 /\ r[i] = q[i + 1]
  BY <1>2, <1>3, TailAt
<1>5. DOMAIN q = 1..Len(q) /\ DOMAIN r = 1..(Len(q) - 1)
  BY <1>4
<1>6. \A i \in DOMAIN r : i \in Nat
  BY <1>5
<1>7. ASSUME NEW j \in DOMAIN q, j # 1 PROVE \E i \in DOMAIN r : i + 1 = j /\ r[i] = q[j]
  <2>1. j - 1 \in DOMAIN r /\ (j - 1) + 1 = j
    BY <1>4, <1>5, <1>7
  <2>2. r[j - 1] = q[j]
    BY <1>4, <2>1
  <2> QED BY <2>1, <2>2
<1>8. serverQ' = [serverQ EXCEPT ![s] = r]
  BY <1>1, <1>3
<1>9. /\ serverQ' \in [Servers -> Seq(Requested)] /\ serverQ'[s] = r
      /\ \A t \in Servers : t # s => serverQ'[t] = serverQ[t]
  BY <1>4, <1>8 DEF Types
<1>10. q[1].client \in Procs
  BY <1>4 DEF Requested
<1> QED BY <1>1, <1>3, <1>4, <1>6, <1>7, <1>9, <1>10

LEMMA ServerTypes ==
  ASSUME Types, LifeInv, NEW s \in Servers, ServerReceives(s)
  PROVE  Types'
<1>1. PICK m : m = serverQ[s][1]
  OBVIOUS
<1>2. /\ serverQ' \in [Servers -> Seq(Requested)] /\ Head(serverQ[s]) = m
      /\ m \in Requested /\ m.client \in Procs
  BY <1>1, HeadTaken DEF ServerReceives
<1>3. /\ Handle(s, m) /\ UNCHANGED <<srv, pc, clientId, nr>>
  BY <1>2 DEF ServerReceives
<1>4. /\ m.clientId \in {-1} \cup Ids /\ m.nr \in 0..MaxRequests /\ 0 \in 0..MaxRequests
  BY <1>2, Constants DEF Requested, Types
<1>5. CASE Register(s, m.client)
  <2>1. PICK id \in Ids : id = FirstFree(s)
    BY <1>5, FirstFreeIsFree DEF Register
  <2>2. Answer(m.client, 0, id) \in Answers
    BY <1>2, <1>4 DEF Answer, Answers
  <2>3. queue' \in [Procs -> Seq(Answers)]
    BY <1>2, <1>5, <2>1, <2>2, PostIs DEF Register
  <2>4. clients' \in [Servers -> [Ids -> Procs \cup {Nobody}]]
    BY <1>2, <1>5, <2>1 DEF Register, Types
  <2> QED BY <1>2, <1>3, <1>5, <2>3, <2>4 DEF Register, Types
<1>6. CASE Refuse(s)
  BY <1>2, <1>3, <1>6 DEF Refuse, server, Types
<1>7. CASE Exits(s) /\ UNCHANGED <<clients, queue>>
  BY <1>2, <1>3, <1>7 DEF Exits, Types
<1>8. CASE Respond(s, m) /\ m.clientId \in Ids
  <2>1. PICK c \in Procs \cup {Nobody} : c = clients[s][m.clientId]
    BY <1>8 DEF Types
  <2>2. Answer(m.client, m.nr, -1) \in Answers
    BY <1>2, <1>4 DEF Answer, Answers
  <2>3. queue' \in [Procs -> Seq(Answers)]
    BY <1>8, <2>1, <2>2, PostIs DEF Respond
  <2> QED BY <1>2, <1>3, <1>8, <2>3 DEF Respond, server, Types
<1>9. CASE CalcCrashes(s)
  BY <1>2, <1>3, <1>9 DEF CalcCrashes, Types
<1>10. CASE delete_client(s, m)
  BY <1>2, <1>3, <1>10 DEF delete_client, Types
<1>11. m.mtype \in Commands => m.clientId \in Ids
  <2>1. RequestOf(s, m)
    BY <1>1, HeadTaken DEF ServerReceives, LifeInv
  <2> QED BY <1>2, <1>4, <2>1 DEF RequestOf
<1> QED BY <1>3, <1>5, <1>6, <1>7, <1>8, <1>9, <1>10, <1>11 DEF Handle, new_client

LEMMA StepTypes == Types /\ LifeInv /\ [Next]_vars => Types'
<1> SUFFICES ASSUME Types, LifeInv, [Next]_vars PROVE Types'
  OBVIOUS
<1>1. ASSUME NEW s \in Servers, StartServer(s) PROVE Types'
  BY <1>1 DEF StartServer, Types
<1>2. ASSUME NEW s \in Servers, ServerInterrupted(s) \/ ServerExits(s) PROVE Types'
  BY <1>2 DEF ServerInterrupted, ServerExits, Exits, Types
<1>3. CASE UNCHANGED vars
  BY <1>3 DEF vars, Types
<1> QED BY <1>1, <1>2, <1>3, ServerTypes, ClientTypes DEF Next

-----------------------------------------------------------------------------
(* The steps of a client keep LifeInv. *)
\* A client that opens "/server" has nothing in any queue or table.
LEMMA OpenKeeps ==
  ASSUME Types, LifeInv, NEW c \in Procs, Open(c)
  PROVE  LifeInv'
<1>1. /\ pc[c] = "new" /\ pc'[c] \in {"gone", "opened"}
      /\ \A d \in Procs : d # c => pc'[d] = pc[d] /\ srv'[d] = srv[d]
      /\ UNCHANGED <<clients, serverQ, queue, clientId>>
  BY DEF Open, Goes, Types, server
<1>2. /\ LifeOf(c)
      /\ \A s \in Servers : \A i \in DOMAIN serverQ[s] : RequestOf(s, serverQ[s][i])
      /\ \A s \in Servers : \A id \in Ids : clients[s][id] = c => PlaceOf(s, id, c)
  BY LifeFacts
<1>3. OnlyClient(c)
  BY <1>1 DEF OnlyClient
<1>4. \A s \in Servers : \A i \in DOMAIN serverQ[s] : serverQ[s][i].client # c
  BY <1>1, <1>2 DEF RequestOf
<1>5. clientId[c] = -1 /\ queue[c] = <<>> /\ \A s \in Servers : ~Listed(s, c)
  BY <1>1, <1>2 DEF LifeOf
<1>6. LifeOf(c)'
  BY <1>1, <1>5 DEF LifeOf, Listed
<1>7. \A s \in Servers : Once(serverQ[s])'
  BY <1>1 DEF LifeInv
<1>8. \A s \in Servers : \A id \in Ids : clients[s][id] # c
  BY <1>5 DEF Listed
<1> QED BY <1>1, <1>3, <1>4, <1>6, <1>7, <1>8, OthersKept

\* A client that goes without a STOP has no id or is still there.
LEMMA LeaveKeeps ==
  ASSUME Types, LifeInv, NEW c \in Procs,
         Leave(c) \/ (removeQAtExit(c) /\ clientId[c] = -1)
  PROVE  LifeInv'
<1>1. /\ \/ /\ pc[c] \in {"opened", "introduced", "ready", "waiting"} /\ pc'[c] = "exiting"
         \/ pc[c] = "exiting" /\ pc'[c] = "gone" /\ clientId[c] = -1
      /\ \A d \in Procs : d # c => pc'[d] = pc[d]
      /\ UNCHANGED <<clients, serverQ, queue, clientId, srv>>
  BY DEF Leave, removeQAtExit, Goes, Types, server
<1>2. /\ LifeOf(c)
      /\ \A s \in Servers : \A i \in DOMAIN serverQ[s] : RequestOf(s, serverQ[s][i])
      /\ \A s \in Servers : \A id \in Ids : clients[s][id] = c => PlaceOf(s, id, c)
  BY LifeFacts
<1>3. OnlyClient(c)
  BY <1>1 DEF OnlyClient
<1>4. \A s \in Servers : \A i \in DOMAIN serverQ[s] :
        serverQ[s][i].client = c => RequestOf(s, serverQ[s][i])'
  BY <1>1, <1>2 DEF RequestOf, Listed
<1>5. StopIsSent(c)' <=> StopIsSent(c)
  BY <1>1 DEF StopIsSent
<1>6. LifeOf(c)'
  BY <1>1, <1>2, <1>5 DEF LifeOf, Listed, HasName
<1>7. \A s \in Servers : Once(serverQ[s])'
  BY <1>1 DEF LifeInv
<1>8. \A s \in Servers : \A id \in Ids : clients[s][id] = c => PlaceOf(s, id, c)'
  BY <1>1, <1>2, <1>5 DEF PlaceOf
<1> QED BY <1>1, <1>3, <1>4, <1>6, <1>7, <1>8, OthersKept

\* The first answer brings the id of the place the client has.
LEMMA ReadKeeps ==
  ASSUME Types, LifeInv, NEW c \in Procs, Introduced(c) \/ ReceiveAnswer(c)
  PROVE  LifeInv'
<1>1. /\ queue[c] # <<>> /\ queue' = [queue EXCEPT ![c] = Tail(@)]
      /\ \/ pc[c] = "introduced" /\ clientId'[c] = Head(queue[c]).id
         \/ pc[c] = "waiting" /\ clientId'[c] = clientId[c]
      /\ pc'[c] = "ready"
      /\ \A d \in Procs : d # c => pc'[d] = pc[d] /\ clientId'[d] = clientId[d]
      /\ UNCHANGED <<clients, serverQ, srv>>
  BY DEF Introduced, ReceiveAnswer, Goes, Types, server
<1>2. /\ LifeOf(c)
      /\ \A s \in Servers : \A i \in DOMAIN serverQ[s] : RequestOf(s, serverQ[s][i])
      /\ \A s \in Servers : \A id \in Ids : clients[s][id] = c => PlaceOf(s, id, c)
      /\ c # Nobody
  BY LifeFacts
<1>3. Head(queue[c]) = queue[c][1] /\ \A d \in Procs : d # c => queue'[d] = queue[d]
  BY <1>1, QueueRead
<1>4. OnlyClient(c)
  BY <1>1, <1>3 DEF OnlyClient
<1>5. /\ clientId'[c] # -1 /\ srv[c] \in Servers /\ clients[srv[c]][clientId'[c]] = c
      /\ clientId[c] # -1 => clientId'[c] = clientId[c]
  BY <1>1, <1>2, <1>3, Constants DEF LifeOf, HasName, Types
<1>6. ASSUME NEW s \in Servers, NEW i \in DOMAIN serverQ[s], serverQ[s][i].client = c
      PROVE  RequestOf(s, serverQ[s][i])'
  <2>1. RequestOf(s, serverQ[s][i])
    BY <1>2
  <2> QED BY <1>1, <1>5, <1>6, <2>1 DEF RequestOf
<1>7. LifeOf(c)'
  BY <1>1, <1>5 DEF LifeOf
<1>8. \A s \in Servers : Once(serverQ[s])'
  BY <1>1 DEF LifeInv
<1>9. ASSUME NEW s \in Servers, NEW id \in Ids, clients[s][id] = c PROVE PlaceOf(s, id, c)'
  <2>1. PlaceOf(s, id, c)
    BY <1>2, <1>9
  <2>2. clientId'[c] = id
    <3>1. CASE clientId[c] = -1
      <4>1. pc[c] = "introduced"
        BY <1>1, <1>2, <3>1 DEF LifeOf
      <4>2. queue[c][1].id = id
        BY <2>1, <3>1, Constants DEF PlaceOf, Types
      <4> QED BY <1>1, <1>3, <4>1, <4>2
    <3>2. CASE clientId[c] # -1
      BY <1>5, <2>1, <3>2 DEF PlaceOf
    <3> QED BY <3>1, <3>2
  <2> QED BY <1>1, <2>1, <2>2 DEF PlaceOf
<1> QED BY <1>1, <1>4, <1>6, <1>7, <1>8, <1>9, OthersKept

\* Every step of a client keeps LifeInv.
LEMMA ClientKeeps ==
  ASSUME Types, LifeInv, NEW c \in Procs, Client(c)
  PROVE  LifeInv'
<1>1. /\ pc[c] \notin {"new", "gone"} => srv[c] \in Servers
      /\ nr[c] \in 0..MaxRequests
  BY DEF Types
<1>2. LifeOf(c)
  BY DEF LifeInv
<1>3. CASE Introduce(c)
  <2>0. PICK m : m = Request("INTRODUCE", c)
    OBVIOUS
  <2>1. m \in Requested /\ m.client = c /\ m.mtype = "INTRODUCE" /\ Send(c, m)
    <3>1. m \in Requested /\ m.client = c /\ m.mtype = "INTRODUCE"
      BY <2>0 DEF Request, Requested, Types
    <3> QED BY <1>3, <2>0, <3>1 DEF Introduce
  <2>2. Goes(c, "opened", "introduced") /\ UNCHANGED <<clients, srv, queue, clientId>>
    BY <1>3 DEF Introduce, server
  <2>3. srv[c] \in Servers /\ clientId[c] = -1
    BY <1>1, <1>2, <2>2 DEF Goes, LifeOf
  <2> QED BY <2>1, <2>2, <2>3, SendKeeps DEF Commands
<1>4. CASE SendCommand(c)
  <2>1. nr[c] + 1 \in 0..MaxRequests
    BY <1>4, Constants DEF SendCommand, Types
  <2>2. PICK mtype \in Commands : Send(c, [Request(mtype, c) EXCEPT !.nr = nr[c] + 1])
    BY <1>4 DEF SendCommand
  <2>0. PICK m : m = [Request(mtype, c) EXCEPT !.nr = nr[c] + 1]
    OBVIOUS
  <2>3. /\ m \in Requested /\ m.client = c /\ m.mtype \in Commands
        /\ m.clientId = clientId[c] /\ Send(c, m)
    BY <2>0, <2>1, <2>2, RequestTypes
  <2>4. Goes(c, "ready", "waiting") /\ UNCHANGED <<clients, srv, queue, clientId>>
    BY <1>4 DEF SendCommand, server
  <2>5. srv[c] \in Servers /\ clientId[c] # -1
    BY <1>1, <1>2, <2>4 DEF Goes, LifeOf
  <2>6. m.mtype \notin {"INTRODUCE", "STOP"}
    BY <2>3 DEF Commands
  <2> QED BY <2>3, <2>4, <2>5, <2>6, SendKeeps
<1>5. CASE SendEnd(c)
  <2>0. PICK m : m = Request("END", c)
    OBVIOUS
  <2>1. m \in Requested /\ m.client = c /\ m.mtype = "END" /\ Send(c, m)
    <3>1. m \in Requested /\ m.client = c /\ m.mtype = "END"
      BY <2>0 DEF Request, Requested, Types
    <3> QED BY <1>5, <2>0, <3>1 DEF SendEnd
  <2>2. Goes(c, "ready", "exiting") /\ UNCHANGED <<clients, srv, queue, clientId>>
    BY <1>5 DEF SendEnd, server
  <2>3. srv[c] \in Servers
    BY <1>1, <2>2 DEF Goes
  <2> QED BY <2>1, <2>2, <2>3, SendKeeps DEF Commands
<1>6. CASE removeQAtExit(c) /\ clientId[c] # -1
  <2>0. PICK m : m = Request("STOP", c)
    OBVIOUS
  <2>1. /\ m \in Requested /\ m.client = c /\ m.mtype = "STOP"
        /\ m.clientId = clientId[c] /\ Send(c, m)
    BY <1>1, <1>6, <2>0, RequestTypes DEF removeQAtExit
  <2>2. Goes(c, "exiting", "gone") /\ UNCHANGED <<clients, srv, queue, clientId>>
    BY <1>6 DEF removeQAtExit, server
  <2>3. srv[c] \in Servers
    BY <1>1, <2>2 DEF Goes
  <2> QED BY <1>6, <2>1, <2>2, <2>3, SendKeeps
<1> QED BY <1>3, <1>4, <1>5, <1>6, OpenKeeps, LeaveKeeps, ReadKeeps DEF Client

-----------------------------------------------------------------------------
(* The steps of a server keep LifeInv: it takes its first message.           *)
OnlyServer(s) ==
  /\ UNCHANGED <<srv, pc, clientId, nr>>
  /\ 1 \in DOMAIN serverQ[s]
  /\ \A i \in DOMAIN serverQ'[s] :
       /\ i \in Nat /\ i + 1 \in DOMAIN serverQ[s] /\ i + 1 # 1
       /\ serverQ'[s][i] = serverQ[s][i + 1]
  /\ \A j \in DOMAIN serverQ[s] : j # 1 =>
       \E i \in DOMAIN serverQ'[s] : i + 1 = j /\ serverQ'[s][i] = serverQ[s][j]
  /\ \A t \in Servers : t # s => serverQ'[t] = serverQ[t]

\* What is left are requests that were there; only a STOP that is handled goes.
LEMMA StillSent ==
  ASSUME Types, LifeInv, NEW s \in Servers, OnlyServer(s)
  PROVE  /\ \A t \in Servers : \A i \in DOMAIN serverQ'[t] :
              \E j \in DOMAIN serverQ[t] : serverQ'[t][i] = serverQ[t][j] /\ (t = s => j # 1)
         /\ \A t \in Servers : Once(serverQ[t])'
         /\ \A d : StopIsSent(d)' => StopIsSent(d)
         /\ \A d : StopIsSent(d) /\ ~(serverQ[s][1].mtype = "STOP" /\ serverQ[s][1].client = d)
                     => StopIsSent(d)'
         /\ \A d : serverQ[s][1].mtype = "STOP" /\ serverQ[s][1].client = d => ~StopIsSent(d)'
<1> USE DEF OnlyServer
<1>1. ASSUME NEW t \in Servers, NEW i \in DOMAIN serverQ'[t]
      PROVE  \E j \in DOMAIN serverQ[t] : serverQ'[t][i] = serverQ[t][j] /\ (t = s => j # 1)
  <2>1. CASE t = s
    BY <2>1
  <2>2. CASE t # s
    BY <2>2
  <2> QED BY <2>1, <2>2
<1>2. ASSUME NEW t \in Servers PROVE Once(serverQ[t])'
  <2>1. Once(serverQ[t])
    BY DEF LifeInv
  <2>2. CASE t # s
    BY <2>1, <2>2
  <2>3. CASE t = s
    <3>1. ASSUME NEW i \in DOMAIN serverQ'[s], NEW j \in DOMAIN serverQ'[s],
                 SameOne(serverQ'[s][i], serverQ'[s][j])
          PROVE  i = j
      <4>1. /\ i \in Nat /\ i + 1 \in DOMAIN serverQ[s] /\ serverQ'[s][i] = serverQ[s][i + 1]
            /\ j \in Nat /\ j + 1 \in DOMAIN serverQ[s] /\ serverQ'[s][j] = serverQ[s][j + 1]
        OBVIOUS
      <4>2. i + 1 = j + 1
        BY <2>1, <2>3, <3>1, <4>1 DEF Once
      <4> QED BY <4>1, <4>2
    <3> QED BY <2>3, <3>1 DEF Once
  <2> QED BY <2>2, <2>3
<1>3. ASSUME NEW d, StopIsSent(d)' PROVE StopIsSent(d)
  <2>1. PICK t \in Servers : \E i \in DOMAIN serverQ'[t] :
          serverQ'[t][i].mtype = "STOP" /\ serverQ'[t][i].client = d
    BY <1>3 DEF StopIsSent
  <2>2. PICK i \in DOMAIN serverQ'[t] :
          serverQ'[t][i].mtype = "STOP" /\ serverQ'[t][i].client = d
    BY <2>1
  <2>3. PICK j \in DOMAIN serverQ[t] : serverQ'[t][i] = serverQ[t][j]
    BY <1>1
  <2> QED BY <2>2, <2>3 DEF StopIsSent
<1>4. ASSUME NEW d, StopIsSent(d), ~(serverQ[s][1].mtype = "STOP" /\ serverQ[s][1].client = d)
      PROVE  StopIsSent(d)'
  <2>1. PICK t \in Servers : \E j \in DOMAIN serverQ[t] :
          serverQ[t][j].mtype = "STOP" /\ serverQ[t][j].client = d
    BY <1>4 DEF StopIsSent
  <2>2. PICK j \in DOMAIN serverQ[t] :
          serverQ[t][j].mtype = "STOP" /\ serverQ[t][j].client = d
    BY <2>1
  <2>3. \E i \in DOMAIN serverQ'[t] : serverQ'[t][i] = serverQ[t][j]
    BY <1>4, <2>2
  <2> QED BY <2>2, <2>3 DEF StopIsSent
<1>5. ASSUME NEW d, serverQ[s][1].mtype = "STOP", serverQ[s][1].client = d, StopIsSent(d)'
      PROVE  FALSE
  <2>1. PICK t \in Servers : \E i \in DOMAIN serverQ'[t] :
          serverQ'[t][i].mtype = "STOP" /\ serverQ'[t][i].client = d
    BY <1>5 DEF StopIsSent
  <2>2. PICK i \in DOMAIN serverQ'[t] :
          serverQ'[t][i].mtype = "STOP" /\ serverQ'[t][i].client = d
    BY <2>1
  <2>3. PICK j \in DOMAIN serverQ[t] : serverQ'[t][i] = serverQ[t][j] /\ (t = s => j # 1)
    BY <1>1
  <2>4. RequestOf(t, serverQ[t][j]) /\ RequestOf(s, serverQ[s][1]) /\ Once(serverQ[s])
    BY DEF LifeInv
  <2>5. t = s
    BY <1>5, <2>2, <2>3, <2>4 DEF RequestOf
  <2>6. SameOne(serverQ[s][j], serverQ[s][1])
    BY <1>5, <2>2, <2>3, <2>5 DEF SameOne
  <2> QED BY <2>3, <2>4, <2>5, <2>6 DEF Once
<1> QED BY <1>1, <1>2, <1>3, <1>4, <1>5

\* Who has still to be introduced has no answer and no place.
Newcomer(t, m) ==
  m.mtype = "INTRODUCE" => queue[m.client] = <<>> /\ ~Listed(t, m.client)

\* A message that is left was in its queue before.
LEMMA RequestKnown ==
  ASSUME Types, LifeInv, NEW s \in Servers, OnlyServer(s),
         NEW t \in Servers, NEW i \in DOMAIN serverQ'[t]
  PROVE  \E m \in Requested :
           /\ m = serverQ'[t][i] /\ m.client \in Procs /\ RequestOf(t, m)
           /\ \E j \in DOMAIN serverQ[t] : m = serverQ[t][j] /\ (t = s => j # 1)
<1>1. PICK j \in DOMAIN serverQ[t] : serverQ'[t][i] = serverQ[t][j] /\ (t = s => j # 1)
  BY StillSent
<1>2. serverQ[t][j] \in Requested /\ serverQ[t][j].client \in Procs
  BY RequestIn
<1>3. RequestOf(t, serverQ[t][j])
  BY DEF LifeInv
<1> QED BY <1>1, <1>2, <1>3

\* So what is to be shown is what the step does to the queues of clients and to
\* the table.
LEMMA ServerFrame ==
  ASSUME Types, LifeInv, NEW s \in Servers, OnlyServer(s),
         \A t \in Servers : \A i \in DOMAIN serverQ'[t] : Newcomer(t, serverQ[t][i])',
         \A d \in Procs : LifeOf(d)', PlaceInv'
  PROVE  LifeInv'
<1>1. ASSUME NEW t \in Servers, NEW i \in DOMAIN serverQ'[t]
      PROVE  RequestOf(t, serverQ[t][i])'
  <2>1. PICK m : m = serverQ'[t][i] /\ RequestOf(t, m)
    BY RequestKnown
  <2>2. UNCHANGED <<srv, pc, clientId>>
    BY DEF OnlyServer
  <2>3. Newcomer(t, m)'
    BY <2>1
  <2>4. RequestOf(t, m)'
    BY <2>1, <2>2, <2>3 DEF RequestOf, Newcomer
  <2> QED BY <2>1, <2>4
<1> QED BY <1>1, StillSent DEF LifeInv

\* A request that changes neither table nor queues is taken.
LEMMA DropKeeps ==
  ASSUME Types, LifeInv, NEW s \in Servers, OnlyServer(s),
         UNCHANGED <<clients, queue>>, serverQ[s][1].mtype # "STOP"
  PROVE  LifeInv'
<1> USE DEF OnlyServer
<1>1. \A d : StopIsSent(d)' <=> StopIsSent(d)
  BY StillSent
<1>2. ASSUME NEW d \in Procs PROVE LifeOf(d)'
  <2>1. LifeOf(d)
    BY DEF LifeInv
  <2> QED BY <1>1, <2>1 DEF LifeOf, Listed, HasName
<1>3. PlaceInv'
  BY <1>1 DEF LifeInv, PlaceInv, PlaceOf
<1>4. ASSUME NEW t \in Servers, NEW i \in DOMAIN serverQ'[t] PROVE Newcomer(t, serverQ[t][i])'
  <2>1. PICK m : m = serverQ'[t][i] /\ RequestOf(t, m)
    BY RequestKnown
  <2>2. Newcomer(t, m)'
    BY <2>1 DEF RequestOf, Newcomer, Listed
  <2> QED BY <2>1, <2>2
<1> QED BY <1>2, <1>3, <1>4, ServerFrame

\* Of all tables the step changes one entry.
EntrySet(s, id, c) ==
  /\ clients'[s][id] = c
  /\ \A t \in Servers : \A k \in Ids : t # s \/ k # id => clients'[t][k] = clients[t][k]

\* new_client: the newcomer's first answer is that of its new place.
LEMMA RegisterKeeps ==
  ASSUME Types, LifeInv, NEW s \in Servers, OnlyServer(s),
         NEW m, m = serverQ[s][1], m.mtype = "INTRODUCE", Register(s, m.client)
  PROVE  LifeInv'
<1> USE DEF OnlyServer
<1>1. PICK c \in Procs : c = m.client /\ m \in Requested
  BY RequestIn
<1>2. PICK id \in Ids : id = FirstFree(s) /\ clients[s][id] = Nobody
  BY FirstFreeIsFree DEF Register
<1>3. PICK a : a = Answer(c, 0, id)
  OBVIOUS
<1>4. a \in Answers /\ a.id = id /\ a.client = c
  BY <1>3, Constants DEF Answer, Answers, Types
<1>5. EntrySet(s, id, c)
  BY <1>1, <1>2 DEF Register, Types, EntrySet
<1>6. /\ srv[c] = s /\ pc[c] \notin {"new", "opened"} /\ clientId[c] = -1
      /\ queue[c] = <<>> /\ ~Listed(s, c)
  BY <1>1 DEF LifeInv, RequestOf
<1>7. queue'[c] = Append(queue[c], a) /\ \A d \in Procs : d # c => queue'[d] = queue[d]
  <2>1. Post(c, a) /\ c # Nobody
    BY <1>1, <1>2, <1>3, Constants DEF Register, Types
  <2> QED BY <1>4, <2>1, PostIs
<1>8. queue'[c] # <<>> /\ queue'[c][1] = a
  BY <1>6, <1>7
<1>9. \A d : StopIsSent(d)' <=> StopIsSent(d)
  BY <1>1, StillSent
<1>10. \A d : d # Nobody => c # Nobody
  BY Constants DEF Types
<1>11. ASSUME NEW t \in Servers, NEW d \in Procs, d # c PROVE Listed(t, d)' <=> Listed(t, d)
  BY <1>2, <1>5, <1>11, Constants, ZenonT(30) DEF Listed, EntrySet, Types
<1>12. ASSUME NEW d \in Procs PROVE LifeOf(d)'
  <2>1. LifeOf(d)
    BY DEF LifeInv
  <2>2. CASE d = c
    BY <1>4, <1>5, <1>6, <1>8, <2>1, <2>2 DEF LifeOf, EntrySet
  <2>3. CASE d # c
    <3>1. \A t \in Servers : \A k \in Ids : clients[t][k] = d => clients'[t][k] = d
      BY <1>2, <1>5, Constants DEF EntrySet, Types
    <3>2. clientId[d] \in {-1} \cup Ids
      BY DEF Types
    <3> QED BY <1>7, <1>9, <1>11, <2>1, <2>3, <3>1, <3>2 DEF LifeOf, HasName
  <2> QED BY <2>2, <2>3
<1>13. PlaceInv'
  <2> SUFFICES ASSUME NEW t \in Servers, NEW k \in Ids, clients'[t][k] # Nobody
               PROVE  PlaceOf(t, k, clients[t][k])'
    BY DEF PlaceInv
  <2>1. PICK d : d = clients'[t][k]
    OBVIOUS
  <2>2. CASE t = s /\ k = id
    <3>1. d = c
      BY <1>5, <2>1, <2>2 DEF EntrySet
    <3>2. PlaceOf(s, id, c)'
      BY <1>4, <1>6, <1>8 DEF PlaceOf
    <3> QED BY <2>1, <2>2, <3>1, <3>2
  <2>3. CASE t # s \/ k # id
    <3>1. d = clients[t][k] /\ PlaceOf(t, k, d) /\ d \in Procs
      BY <1>5, <2>1, <2>3 DEF EntrySet, LifeInv, PlaceInv, Types
    <3>2. d # c
      BY <1>6, <3>1 DEF PlaceOf, Listed
    <3>3. PlaceOf(t, k, d)'
      BY <1>7, <1>9, <3>1, <3>2 DEF PlaceOf
    <3> QED BY <2>1, <3>3
  <2> QED BY <2>2, <2>3
<1>14. ASSUME NEW t \in Servers, NEW i \in DOMAIN serverQ'[t] PROVE Newcomer(t, serverQ[t][i])'
  <2>1. PICK n \in Requested : /\ n = serverQ'[t][i] /\ n.client \in Procs /\ RequestOf(t, n)
                 /\ \E j \in DOMAIN serverQ[t] : n = serverQ[t][j] /\ (t = s => j # 1)
    BY RequestKnown
  <2>2. ASSUME n.mtype = "INTRODUCE" PROVE n.client # c
    <3> SUFFICES ASSUME n.client = c PROVE FALSE
      OBVIOUS
    <3>1. t = s
      BY <1>6, <2>1 DEF RequestOf
    <3>2. PICK j \in DOMAIN serverQ[s] : n = serverQ[s][j] /\ j # 1
      BY <2>1, <3>1
    <3>3. SameOne(serverQ[s][j], serverQ[s][1])
      BY <1>1, <2>2, <3>2 DEF SameOne
    <3> QED BY <3>2, <3>3 DEF LifeInv, Once
  <2>3. Newcomer(t, n)'
    BY <1>7, <1>11, <2>1, <2>2 DEF RequestOf, Newcomer
  <2> QED BY <2>1, <2>3
<1> QED BY <1>12, <1>13, <1>14, ServerFrame

\* An answer to a command goes behind what the owner of the place has to read.
LEMMA RespondKeeps ==
  ASSUME Types, LifeInv, NEW s \in Servers, OnlyServer(s),
         NEW m, m = serverQ[s][1], m.mtype \in Commands, Respond(s, m)
  PROVE  LifeInv'
<1> USE DEF OnlyServer
<1>1. m \in Requested /\ m.client \in Procs /\ m.clientId \in Ids /\ clients' = clients
  <2>1. m \in Requested /\ m.client \in Procs /\ RequestOf(s, m)
    BY RequestIn DEF LifeInv
  <2> QED BY <2>1 DEF RequestOf, Respond, server, Types
<1>2. PICK c \in Procs \cup {Nobody} : c = clients[s][m.clientId]
  BY <1>1 DEF Types
<1>3. PICK a \in Answers : a = Answer(m.client, m.nr, -1)
  BY <1>1 DEF Answer, Answers, Requested
<1>4. Post(c, a)
  BY <1>2, <1>3 DEF Respond
<1>5. CASE c = Nobody
  BY <1>1, <1>4, <1>5, PostIs, DropKeeps DEF Commands
<1>6. CASE c # Nobody
  <2>1. /\ c \in Procs /\ queue'[c] = Append(queue[c], a)
        /\ \A d \in Procs : d # c => queue'[d] = queue[d]
    BY <1>4, <1>6, PostIs
  <2>2. PlaceOf(s, m.clientId, c) /\ Listed(s, c) /\ srv[c] = s
    BY <1>1, <1>2, <1>6 DEF LifeInv, PlaceInv, PlaceOf, Listed
  <2>3. queue[c] \in Seq(Answers)
    BY <2>1 DEF Types
  <2>4. queue[c] # <<>> => queue'[c] # <<>> /\ queue'[c][1] = queue[c][1]
    BY <2>1, <2>3
  <2>5. \A d : StopIsSent(d)' <=> StopIsSent(d)
    BY StillSent DEF Commands
  <2>6. queue[c] = <<>> => clientId[c] # -1
    BY <1>1, <2>2, Constants DEF PlaceOf, Types
  <2>7. ASSUME NEW d \in Procs PROVE LifeOf(d)'
    <3>1. LifeOf(d)
      BY DEF LifeInv
    <3>2. CASE d = c
      BY <1>1, <2>2, <2>4, <2>5, <2>6, <3>1, <3>2 DEF LifeOf, Listed, HasName
    <3>3. CASE d # c
      BY <1>1, <2>1, <2>5, <3>1, <3>3 DEF LifeOf, Listed, HasName
    <3> QED BY <3>2, <3>3
  <2>8. ASSUME NEW t \in Servers, NEW k \in Ids, clients'[t][k] # Nobody
        PROVE  PlaceOf(t, k, clients[t][k])'
    <3>1. PICK d \in Procs : d = clients[t][k] /\ PlaceOf(t, k, d)
      BY <1>1, <2>8 DEF LifeInv, PlaceInv, Types
    <3>2. PlaceOf(t, k, d)'
      BY <2>1, <2>4, <2>5, <3>1 DEF PlaceOf
    <3> QED BY <1>1, <3>1, <3>2
  <2>9. ASSUME NEW t \in Servers, NEW i \in DOMAIN serverQ'[t] PROVE Newcomer(t, serverQ[t][i])'
    <3>1. PICK n \in Requested : n = serverQ'[t][i] /\ n.client \in Procs /\ RequestOf(t, n)
      BY RequestKnown
    <3>2. n.mtype = "INTRODUCE" => n.client # c
      BY <2>2, <3>1 DEF RequestOf
    <3>3. Newcomer(t, n)'
      BY <1>1, <2>1, <3>1, <3>2 DEF RequestOf, Newcomer, Listed
    <3> QED BY <3>1, <3>3
  <2>10. PlaceInv'
    BY <2>8 DEF PlaceInv
  <2> QED BY <2>7, <2>9, <2>10, ServerFrame
<1> QED BY <1>5, <1>6

\* delete_client: the STOP is its sender's only one, and frees its sender's place.
LEMMA DeleteKeeps ==
  ASSUME Types, LifeInv, NEW s \in Servers, OnlyServer(s),
         NEW m, m = serverQ[s][1], m.mtype = "STOP", delete_client(s, m)
  PROVE  /\ LifeInv'
         /\ \E c \in Procs : \E id \in Ids :
              /\ clients[s][id] = c /\ clientId[c] = id /\ srv[c] = s
              /\ id = m.clientId /\ EntrySet(s, id, Nobody)
<1> USE DEF OnlyServer
<1>1. PICK c \in Procs : c = m.client /\ m \in Requested
  BY RequestIn
<1>2. RequestOf(s, m) /\ StopIsSent(c) /\ LifeOf(c)
  BY <1>1 DEF LifeInv, StopIsSent
<1>3. PICK id \in Ids : id = m.clientId /\ id = clientId[c]
  BY <1>1, <1>2 DEF RequestOf, Types
<1>4. srv[c] = s /\ pc[c] = "gone" /\ clientId[c] # -1 /\ clients[s][id] = c
  BY <1>1, <1>2, <1>3 DEF RequestOf, LifeOf
<1>5. EntrySet(s, id, Nobody) /\ queue' = queue
  BY <1>3 DEF delete_client, Types, EntrySet
<1>6. ~StopIsSent(c)' /\ \A d : d # c => (StopIsSent(d)' <=> StopIsSent(d))
  BY <1>1, StillSent
<1>7. Nobody \notin Procs
  BY Constants DEF Types
<1>8. \A t \in Servers : \A d \in Procs : Listed(t, d)' => Listed(t, d)
  BY <1>5, <1>7 DEF Listed, EntrySet
<1>9. ASSUME NEW d \in Procs PROVE LifeOf(d)'
  <2>1. LifeOf(d)
    BY DEF LifeInv
  <2>2. CASE d = c
    BY <1>4, <1>6, <2>2 DEF LifeOf, HasName
  <2>3. CASE d # c
    <3>1. \A t \in Servers : \A k \in Ids : clients[t][k] = d => clients'[t][k] = d
      BY <1>4, <1>5, <2>3 DEF EntrySet
    <3>2. clientId[d] \in {-1} \cup Ids
      BY DEF Types
    <3> QED BY <1>5, <1>6, <1>8, <2>1, <2>3, <3>1, <3>2 DEF LifeOf, HasName
  <2> QED BY <2>2, <2>3
<1>10. ASSUME NEW t \in Servers, NEW k \in Ids, clients'[t][k] # Nobody
       PROVE  PlaceOf(t, k, clients[t][k])'
  <2>1. clients'[t][k] = clients[t][k] /\ (t # s \/ k # id)
    BY <1>5, <1>10 DEF EntrySet
  <2>2. PICK d \in Procs : d = clients[t][k] /\ PlaceOf(t, k, d)
    BY <1>10, <2>1 DEF LifeInv, PlaceInv, Types
  <2>3. d # c
    BY <1>3, <1>4, <2>1, <2>2 DEF PlaceOf
  <2>4. PlaceOf(t, k, d)'
    BY <1>5, <1>6, <2>2, <2>3 DEF PlaceOf
  <2> QED BY <2>1, <2>2, <2>4
<1>11. ASSUME NEW t \in Servers, NEW i \in DOMAIN serverQ'[t] PROVE Newcomer(t, serverQ[t][i])'
  <2>1. PICK n \in Requested : n = serverQ'[t][i] /\ n.client \in Procs /\ RequestOf(t, n)
    BY RequestKnown
  <2>2. Newcomer(t, n)'
    BY <1>5, <1>8, <2>1 DEF RequestOf, Newcomer
  <2> QED BY <2>1, <2>2
<1>12. PlaceInv'
  BY <1>10 DEF PlaceInv
<1>13. LifeInv'
  BY <1>9, <1>11, <1>12, ServerFrame
<1> QED BY <1>3, <1>4, <1>5, <1>13

\* Every step of a server keeps LifeInv.
LEMMA ServerKeeps ==
  ASSUME Types, LifeInv, NEW s \in Servers, ServerReceives(s)
  PROVE  LifeInv' /\ OnlyServer(s) /\ Handle(s, serverQ[s][1])
<1>1. PICK m : m = serverQ[s][1]
  OBVIOUS
<1>2. OnlyServer(s) /\ Handle(s, m)
  BY <1>1, HeadTaken DEF ServerReceives, OnlyServer
<1>3. CASE m.mtype = "INTRODUCE" /\ Register(s, m.client)
  BY <1>1, <1>2, <1>3, RegisterKeeps
<1>4. CASE m.mtype # "STOP" /\ UNCHANGED <<clients, queue>>
  BY <1>1, <1>2, <1>4, DropKeeps
<1>5. CASE m.mtype \in Commands /\ Respond(s, m)
  BY <1>1, <1>2, <1>5, RespondKeeps
<1>6. CASE m.mtype = "STOP" /\ delete_client(s, m)
  BY <1>1, <1>2, <1>6, DeleteKeeps
<1>7. LifeInv'
  BY <1>2, <1>3, <1>4, <1>5, <1>6
  DEF Handle, new_client, Refuse, CalcCrashes, Exits, server, Commands
<1> QED BY <1>1, <1>2, <1>7

LEMMA LifeStep == Types /\ LifeInv /\ [Next]_vars => LifeInv'
<1> SUFFICES ASSUME Types, LifeInv, [Next]_vars PROVE LifeInv'
  OBVIOUS
<1>1. CASE UNCHANGED <<clients, serverQ, srv, queue, pc, clientId, nr>>
  BY <1>1 DEF LifeInv, LifeOf, RequestOf, PlaceInv, PlaceOf, StopIsSent, Listed, HasName
<1> QED BY <1>1, ServerKeeps, ClientKeeps
    DEF Next, StartServer, ServerInterrupted, ServerExits, vars

LEMMA InitGives == Init => Types /\ LifeInv
<1> SUFFICES ASSUME Init PROVE Types /\ LifeInv
  OBVIOUS
<1>1. <<>> \in Seq(Requested) /\ <<>> \in Seq(Answers) /\ DOMAIN <<>> = {}
  BY EmptySeq
<1>2. Types
  BY <1>1, Constants DEF Init, Types
<1>3. \A c \in Procs : ~StopIsSent(c) /\ \A s \in Servers : ~Listed(s, c)
  BY <1>1, Constants DEF Init, StopIsSent, Listed
<1>4. LifeInv
  BY <1>1, <1>3 DEF Init, LifeInv, LifeOf, PlaceInv, Once
<1> QED BY <1>2, <1>4

\* "/server" in every run.
LEMMA NameStep == Types /\ LifeInv /\ NameForCause /\ [Next]_vars => NameForCause'
<1> SUFFICES ASSUME Types, LifeInv, NameForCause, [Next]_vars PROVE NameForCause'
  OBVIOUS
<1>1. name \in Servers \cup {Nobody} /\ \A s \in Servers : s # Nobody
  BY Constants DEF Types
<1>2. ASSUME NEW s \in Servers, StartServer(s) PROVE NameForCause'
  BY <1>1, <1>2, ZenonT(30) DEF StartServer, NameForCause, Types
<1>3. ASSUME NEW s \in Servers, st[s] \in {"up", "refused", "interrupted"}, name' = Nobody,
             st' = [st EXCEPT ![s] = "ended"] \/ st' = [st EXCEPT ![s] = "interrupted"]
      PROVE  NameForCause'
  BY <1>1, <1>3 DEF NameForCause, Types
<1>4. ASSUME NEW s \in Servers, st[s] = "up", CalcCrashes(s) PROVE NameForCause'
  BY <1>1, <1>4 DEF CalcCrashes, NameForCause, Types
<1>5. CASE UNCHANGED <<name, st>>
  BY <1>5 DEF NameForCause
<1>6. ASSUME NEW s \in Servers, ServerReceives(s) PROVE NameForCause'
  <2>1. PICK m : Handle(s, m) /\ st[s] = "up"
    BY <1>6 DEF ServerReceives
  <2>2. UNCHANGED <<name, st>> \/ Exits(s) \/ CalcCrashes(s)
    BY <2>1 DEF Handle, new_client, Register, Refuse, Respond, delete_client, server
  <2> QED BY <1>3, <1>4, <1>5, <2>1, <2>2 DEF Exits
<1>7. ASSUME NEW s \in Servers, ServerInterrupted(s) \/ ServerExits(s) PROVE NameForCause'
  BY <1>3, <1>7 DEF ServerInterrupted, ServerExits, Exits
<1>8. ASSUME NEW c \in Procs, Client(c) PROVE UNCHANGED <<name, st>>
  BY <1>8 DEF Client, Open, Introduce, Introduced, SendCommand, ReceiveAnswer, SendEnd, Leave,
     removeQAtExit, server
<1>9. CASE UNCHANGED vars
  BY <1>5, <1>9 DEF vars
<1> QED BY <1>2, <1>5, <1>6, <1>7, <1>8, <1>9 DEF Next

\* Types says what TypeOK does, with sequences in place of their elements.
LEMMA TypesAreOK == Types => TypeOK
<1> SUFFICES ASSUME Types PROVE TypeOK
  OBVIOUS
<1>1. \A s \in Servers : \A i \in DOMAIN serverQ[s] : serverQ[s][i] \in Requested
  BY RequestIn
<1>2. ASSUME NEW c \in Procs PROVE \A i \in DOMAIN queue[c] : queue[c][i] \in Answers
  <2>1. queue[c] \in Seq(Answers)
    BY DEF Types
  <2> QED BY <2>1, ElementOfSeq, LenProperties
<1> QED BY <1>1, <1>2 DEF Types, TypeOK, Requested, Answers

\* Every client that opens "/server" is in the right table (TableAgrees): the name
\* stands for a server that is up unless another one came and went, a server that
\* is up has each client in one place (new_client), and a client that has an id and
\* has not gone has that place (delete_client handles no STOP but its own).
THEOREM TablesStayRight == Spec => []TableAgrees
<1>1. Init => NameForCause
  BY Constants DEF Init, NameForCause
<1>2. ASSUME Types, LifeInv, NEW s \in Servers
      PROVE  /\ \A id, other \in Ids :
                  clients[s][id] = clients[s][other] /\ id # other => clients[s][id] = Nobody
             /\ \A c \in Procs :
                  srv[c] = s /\ clientId[c] # -1 /\ HasName(c) => clients[s][clientId[c]] = c
  <2>1. ASSUME NEW id \in Ids, NEW other \in Ids, clients[s][id] = clients[s][other], id # other
        PROVE  clients[s][id] = Nobody
    <3> SUFFICES ASSUME clients[s][id] # Nobody PROVE FALSE
      OBVIOUS
    <3>1. PICK c \in Procs : c = clients[s][id] /\ PlaceOf(s, id, c) /\ PlaceOf(s, other, c)
      BY <1>2, <2>1 DEF Types, LifeInv, PlaceInv
    <3> QED BY <1>2, <2>1, <3>1, Constants DEF PlaceOf, Types
  <2>2. \A c \in Procs : LifeOf(c)
    BY <1>2 DEF LifeInv
  <2> QED BY <2>1, <2>2 DEF LifeOf
<1>3. Types /\ LifeInv /\ NameForCause => TableAgrees
  BY <1>2, TypesAreOK DEF TableAgrees
<1> QED BY <1>1, <1>3, InitGives, StepTypes, LifeStep, NameStep, PTL DEF Spec

\* No place is lost (PlacesComeBack): while a server is up, the client in a place is
\* still there, or never read its id, or its STOP is in the queue of this server,
\* however far that STOP overtook what was sent before it (removeQAtExit).
THEOREM EveryPlaceComesBack == Spec => []PlacesComeBack
<1>1. ASSUME Types, LifeInv, NEW s \in Servers, NEW id \in Ids, NEW c, c = clients[s][id]
      PROVE  \/ c = Nobody \/ HasName(c) \/ clientId[c] = -1
             \/ \E i \in DOMAIN serverQ[s] :
                  serverQ[s][i].mtype = "STOP" /\ serverQ[s][i].client = c
  <2> SUFFICES ASSUME c # Nobody, ~HasName(c), clientId[c] # -1
               PROVE  \E i \in DOMAIN serverQ[s] :
                        serverQ[s][i].mtype = "STOP" /\ serverQ[s][i].client = c
    OBVIOUS
  <2>1. c \in Procs /\ PlaceOf(s, id, c) /\ LifeOf(c)
    BY <1>1 DEF LifeInv, PlaceInv, Types
  <2>2. pc[c] = "gone"
    BY <1>1, <2>1 DEF HasName, LifeOf, Types
  <2>3. PICK t \in Servers : \E i \in DOMAIN serverQ[t] :
          serverQ[t][i].mtype = "STOP" /\ serverQ[t][i].client = c
    BY <2>1, <2>2 DEF PlaceOf, StopIsSent
  <2>4. t = s
    BY <1>1, <2>1, <2>3 DEF PlaceOf, LifeInv, RequestOf
  <2> QED BY <2>3, <2>4
<1>2. Types /\ LifeInv => PlacesComeBack
  BY <1>1 DEF PlacesComeBack
<1> QED BY <1>2, InitGives, StepTypes, LifeStep, PTL DEF Spec

-----------------------------------------------------------------------------
(* Answers to somebody else.                                                 *)
Foreign(c, d) ==
  d # c =>
    /\ pc[d] = "gone" /\ clientId[d] \in Ids /\ srv[d] = srv[c] /\ srv[c] \in Servers
    /\ clients[srv[c]][clientId[d]] = c \/ clientId[d] = clientId[c]

OthersInv == \A c \in Procs : \A i \in DOMAIN queue[c] : Foreign(c, queue[c][i].client)

\* A message in a queue of a client is an answer.
LEMMA AnswerIn ==
  ASSUME Types, NEW c \in Procs, NEW i \in DOMAIN queue[c]
  PROVE  queue[c][i] \in Answers /\ queue[c][i].client \in Procs /\ queue[c] # <<>>
<1>1. queue[c] \in Seq(Answers)
  BY DEF Types
<1>2. queue[c][i] \in Answers /\ queue[c] # <<>>
  BY <1>1
<1> QED BY <1>2 DEF Answers

\* What a client's step changes in its own state.
LEMMA ClientMoves ==
  ASSUME Types, NEW c \in Procs, Client(c)
  PROVE  /\ pc[c] # "gone" /\ clients' = clients
         /\ \A d \in Procs : d # c =>
              /\ pc'[d] = pc[d] /\ clientId'[d] = clientId[d]
              /\ srv'[d] = srv[d] /\ queue'[d] = queue[d]
         /\ pc[c] = "new" \/ srv'[c] = srv[c]
         /\ clientId'[c] = clientId[c] \/ pc[c] = "introduced"
         /\ \/ queue' = queue
            \/ queue[c] # <<>> /\ queue' = [queue EXCEPT ![c] = Tail(@)]
<1> USE DEF Types, Goes, server
<1>1. CASE Open(c)
  BY <1>1 DEF Open
<1>2. CASE Introduce(c) \/ SendCommand(c) \/ SendEnd(c) \/ Leave(c) \/ removeQAtExit(c)
  BY <1>2 DEF Introduce, SendCommand, SendEnd, Leave, removeQAtExit
<1>3. CASE Introduced(c)
  BY <1>3 DEF Introduced
<1>4. CASE ReceiveAnswer(c)
  BY <1>4 DEF ReceiveAnswer
<1> QED BY <1>1, <1>2, <1>3, <1>4 DEF Client

\* A step of a client: who has gone takes none, and an id that is set is not -1.
LEMMA ForeignClient ==
  ASSUME Types, LifeInv, NEW c \in Procs, NEW d \in Procs, queue[c] # <<>>, Foreign(c, d),
         NEW e \in Procs, Client(e)
  PROVE  Foreign(c, d)'
<1>1. /\ pc[e] # "gone" /\ clients' = clients
      /\ \A f \in Procs : f # e => pc'[f] = pc[f] /\ clientId'[f] = clientId[f] /\ srv'[f] = srv[f]
      /\ pc[e] = "new" \/ srv'[e] = srv[e]
      /\ clientId'[e] = clientId[e] \/ pc[e] = "introduced"
  BY ClientMoves
<1>2. LifeOf(c)
  BY DEF LifeInv
<1>3. CASE d = c
  BY <1>3 DEF Foreign
<1>4. CASE d # c
  <2>1. d # e
    BY <1>1, <1>4 DEF Foreign
  <2>2. pc'[d] = "gone" /\ clientId'[d] = clientId[d] /\ srv'[d] = srv[d] /\ srv'[c] = srv[c]
    BY <1>1, <1>2, <1>4, <2>1 DEF Foreign, LifeOf
  <2>3. clients[srv[c]][clientId[d]] = c \/ clientId[d] = clientId'[c]
    <3>1. CASE clientId'[c] = clientId[c]
      BY <1>4, <3>1 DEF Foreign
    <3>2. CASE clientId'[c] # clientId[c]
      <4>1. clientId[c] = -1
        BY <1>1, <1>2, <3>2 DEF LifeOf
      <4> QED BY <1>4, <4>1, Constants DEF Foreign, Types
    <3> QED BY <3>1, <3>2
  <2> QED BY <1>1, <1>4, <2>2, <2>3 DEF Foreign
<1> QED BY <1>3, <1>4

\* The table a server step leaves.
LEMMA TableMoves ==
  ASSUME Types, LifeInv, NEW s \in Servers, OnlyServer(s), Handle(s, serverQ[s][1])
  PROVE  \/ UNCHANGED clients
         \/ \E c \in Procs : \E id \in Ids :
              /\ Register(s, c) /\ serverQ[s][1].client = c /\ serverQ[s][1].mtype = "INTRODUCE"
              /\ id = FirstFree(s) /\ clients[s][id] = Nobody /\ EntrySet(s, id, c)
         \/ \E c \in Procs : \E id \in Ids :
              /\ serverQ[s][1].mtype = "STOP" /\ queue' = queue
              /\ clients[s][id] = c /\ clientId[c] = id /\ srv[c] = s /\ EntrySet(s, id, Nobody)
<1>1. PICK m : m = serverQ[s][1]
  OBVIOUS
<1>2. PICK c \in Procs : c = m.client
  BY <1>1, RequestIn DEF OnlyServer
<1>3. CASE m.mtype = "INTRODUCE" /\ Register(s, c)
  <2>1. PICK id \in Ids : id = FirstFree(s) /\ clients[s][id] = Nobody
    BY <1>3, FirstFreeIsFree DEF Register
  <2>2. EntrySet(s, id, c)
    BY <1>3, <2>1 DEF Register, Types, EntrySet
  <2> QED BY <1>1, <1>2, <1>3, <2>1, <2>2
<1>4. CASE m.mtype = "STOP" /\ delete_client(s, m)
  <2>1. queue' = queue
    BY <1>4 DEF delete_client
  <2> QED BY <1>1, <1>4, <2>1, DeleteKeeps
<1> QED BY <1>1, <1>2, <1>3, <1>4
    DEF Handle, new_client, Refuse, Respond, CalcCrashes, Exits, server

\* A step of a server: a place that is freed is the id of its last owner.
LEMMA ForeignServer ==
  ASSUME Types, LifeInv, NEW c \in Procs, NEW d \in Procs, Foreign(c, d),
         NEW s \in Servers, OnlyServer(s), Handle(s, serverQ[s][1])
  PROVE  Foreign(c, d)'
<1>1. UNCHANGED <<srv, pc, clientId>>
  BY DEF OnlyServer
<1>2. c # Nobody
  BY Constants DEF Types
<1>3. CASE UNCHANGED clients
  BY <1>1, <1>3 DEF Foreign
<1>4. ASSUME NEW e, NEW id \in Ids, clients[s][id] = Nobody, EntrySet(s, id, e)
      PROVE  Foreign(c, d)'
  BY <1>1, <1>2, <1>4 DEF Foreign, EntrySet
<1>5. ASSUME NEW e \in Procs, NEW id \in Ids, clients[s][id] = e, clientId[e] = id,
             EntrySet(s, id, Nobody)
      PROVE  Foreign(c, d)'
  BY <1>1, <1>2, <1>5 DEF Foreign, EntrySet
<1> QED BY <1>3, <1>4, <1>5, TableMoves

\* An answer goes to who asked, or to the next owner of its place.
LEMMA AnswerMoves ==
  ASSUME Types, LifeInv, NEW s \in Servers, OnlyServer(s), Handle(s, serverQ[s][1])
  PROVE  \/ queue' = queue
         \/ \E c \in Procs, a \in Answers :
              /\ queue'[c] = Append(queue[c], a)
              /\ \A d \in Procs : d # c => queue'[d] = queue[d]
              /\ Foreign(c, a.client)'
<1>1. PICK m : m = serverQ[s][1]
  OBVIOUS
<1>2. m \in Requested /\ m.client \in Procs /\ RequestOf(s, m)
  BY <1>1, RequestIn DEF OnlyServer, LifeInv
<1>3. UNCHANGED <<srv, pc, clientId>>
  BY DEF OnlyServer
<1>4. CASE Register(s, m.client)
  <2>1. PICK id \in Ids : id = FirstFree(s)
    BY <1>4, FirstFreeIsFree DEF Register
  <2>2. PICK a : a = Answer(m.client, 0, id)
    OBVIOUS
  <2>3. a \in Answers /\ a.client = m.client
    BY <1>2, <2>2, Constants DEF Answer, Answers, Types
  <2>4. Post(m.client, a) /\ m.client # Nobody
    BY <1>2, <1>4, <2>1, <2>2, Constants DEF Register, Types
  <2>5. /\ queue'[m.client] = Append(queue[m.client], a)
        /\ \A d \in Procs : d # m.client => queue'[d] = queue[d]
    BY <1>2, <2>3, <2>4, PostIs
  <2>6. Foreign(m.client, a.client)'
    BY <2>3 DEF Foreign
  <2> QED BY <1>2, <2>3, <2>5, <2>6
<1>5. CASE m.mtype \in Commands /\ Respond(s, m)
  <2>1. /\ m.clientId \in Ids /\ m.clientId = clientId[m.client]
        /\ srv[m.client] = s /\ clients' = clients
    BY <1>2, <1>5 DEF RequestOf, Types, Respond, server
  <2>2. PICK c \in Procs \cup {Nobody} : c = clients[s][m.clientId]
    BY <2>1 DEF Types
  <2>9. PICK a : a = Answer(m.client, m.nr, -1)
    OBVIOUS
  <2>3. a \in Answers /\ a.client = m.client
    BY <1>2, <2>9 DEF Answer, Answers, Requested
  <2>4. Post(c, a)
    BY <1>5, <2>2, <2>9 DEF Respond
  <2>5. CASE c = Nobody
    BY <2>3, <2>4, <2>5, PostIs
  <2>6. CASE c # Nobody
    <3>1. /\ c \in Procs /\ queue'[c] = Append(queue[c], a)
          /\ \A d \in Procs : d # c => queue'[d] = queue[d]
      BY <2>3, <2>4, <2>6, PostIs
    <3>2. PlaceOf(s, m.clientId, c) /\ LifeOf(m.client)
      BY <1>2, <2>1, <2>2, <2>6 DEF LifeInv, PlaceInv
    <3>3. m.client # c => pc[m.client] = "gone"
      BY <1>2, <2>1, <2>2, <3>2, Constants DEF LifeOf, HasName, RequestOf, Types
    <3>4. Foreign(c, m.client)
      BY <2>1, <2>2, <3>2, <3>3 DEF Foreign, PlaceOf
    <3>5. Foreign(c, m.client)'
      BY <1>3, <2>1, <3>4 DEF Foreign
    <3> QED BY <2>3, <3>1, <3>5
  <2> QED BY <2>5, <2>6
<1>6. Handle(s, m)
  BY <1>1
<1> QED BY <1>4, <1>5, <1>6 DEF Handle, new_client, Refuse, CalcCrashes, delete_client

LEMMA OthersStep == Types /\ LifeInv /\ OthersInv /\ [Next]_vars => OthersInv'
<1> SUFFICES ASSUME Types, LifeInv, OthersInv, [Next]_vars PROVE OthersInv'
  OBVIOUS
<1>1. CASE UNCHANGED <<clients, srv, queue, pc, clientId>>
  BY <1>1 DEF OthersInv, Foreign
<1>2. ASSUME NEW e \in Procs, Client(e) PROVE OthersInv'
  <2>1. ASSUME NEW c \in Procs, NEW i \in DOMAIN queue'[c] PROVE Foreign(c, queue[c][i].client)'
    <3>1. \E j \in DOMAIN queue[c] : queue'[c][i] = queue[c][j]
      <4>1. CASE queue'[c] = queue[c]
        BY <4>1
      <4>2. CASE c = e /\ queue[c] # <<>> /\ queue' = [queue EXCEPT ![c] = Tail(@)]
        <5>1. queue[c] \in Seq(Answers) /\ queue'[c] = Tail(queue[c])
          BY <4>2 DEF Types
        <5> QED BY <4>2, <5>1, TailAt
      <4> QED BY <1>2, <4>1, <4>2, ClientMoves
    <3>2. PICK j \in DOMAIN queue[c] : queue'[c][i] = queue[c][j]
      BY <3>1
    <3>3. PICK d \in Procs : d = queue[c][j].client /\ queue[c] # <<>>
      BY AnswerIn
    <3>4. Foreign(c, d)
      BY <3>3 DEF OthersInv
    <3>5. Foreign(c, d)'
      BY <1>2, <3>3, <3>4, ForeignClient
    <3> QED BY <3>2, <3>3, <3>5
  <2> QED BY <2>1 DEF OthersInv
<1>3. ASSUME NEW s \in Servers, ServerReceives(s) PROVE OthersInv'
  <2>1. OnlyServer(s) /\ Handle(s, serverQ[s][1])
    BY <1>3, ServerKeeps
  <2>2. ASSUME NEW c \in Procs, NEW j \in DOMAIN queue[c], NEW n, n = queue[c][j]
        PROVE  Foreign(c, n.client)'
    <3>1. n.client \in Procs /\ Foreign(c, n.client)
      BY <2>2, AnswerIn DEF OthersInv
    <3> QED BY <2>1, <3>1, ForeignServer
  <2>3. CASE queue' = queue
    <3>1. ASSUME NEW c \in Procs, NEW i \in DOMAIN queue'[c] PROVE Foreign(c, queue[c][i].client)'
      <4>1. PICK n : n = queue[c][i]
        OBVIOUS
      <4>2. Foreign(c, n.client)'
        BY <2>2, <2>3, <4>1
      <4> QED BY <2>3, <4>1, <4>2
    <3> QED BY <3>1 DEF OthersInv
  <2>4. ASSUME NEW c \in Procs, NEW a \in Answers, queue'[c] = Append(queue[c], a),
               \A d \in Procs : d # c => queue'[d] = queue[d], Foreign(c, a.client)'
        PROVE  OthersInv'
    <3>1. ASSUME NEW d \in Procs, NEW i \in DOMAIN queue'[d] PROVE Foreign(d, queue[d][i].client)'
      <4>1. PICK n : n = queue'[d][i]
        OBVIOUS
      <4>2. (d = c /\ n = a) \/ \E j \in DOMAIN queue[d] : n = queue[d][j]
        <5>1. CASE d # c
          BY <2>4, <4>1, <5>1
        <5>2. CASE d = c
          <6>1. queue[c] \in Seq(Answers)
            BY DEF Types
          <6> QED BY <2>4, <4>1, <5>2, <6>1, AppendAt
        <5> QED BY <5>1, <5>2
      <4>3. Foreign(d, n.client)'
        BY <2>2, <2>4, <4>2
      <4> QED BY <4>1, <4>3
    <3> QED BY <3>1 DEF OthersInv
  <2> QED BY <2>1, <2>3, <2>4, AnswerMoves
<1> QED BY <1>1, <1>2, <1>3 DEF Next, StartServer, ServerInterrupted, ServerExits, vars

-----------------------------------------------------------------------------
(* Room in the queues: the commands in a queue that are sent with an id.     *)
Asks(m, id) == m.mtype \in Commands /\ m.clientId = id
Places(q, id) == {i \in DOMAIN q : Asks(q[i], id)}
Commanded(q, id) == Cardinality(Places(q, id))
Asked(m, id) == IF Asks(m, id) THEN 1 ELSE 0

\* At most the whole queue, and not its head if that is no such command.
LEMMA CommandedType ==
  ASSUME NEW S, NEW q \in Seq(S), NEW id
  PROVE  /\ IsFiniteSet(Places(q, id)) /\ Commanded(q, id) \in Nat
         /\ q # <<>> /\ ~Asks(q[1], id) => Commanded(q, id) <= Len(q) - 1
         /\ Commanded(q, id) <= Len(q)
<1>1. DOMAIN q = 1..Len(q) /\ Len(q) \in Nat
  OBVIOUS
<1>2. IsFiniteSet(1..Len(q)) /\ Cardinality(1..Len(q)) = Len(q)
  BY <1>1, FS_Interval
<1>3. Places(q, id) \subseteq 1..Len(q)
  BY <1>1 DEF Places
<1>4. /\ IsFiniteSet(Places(q, id)) /\ Commanded(q, id) \in Nat
      /\ Commanded(q, id) <= Len(q)
  BY <1>2, <1>3, FS_Subset, FS_CardinalityType DEF Commanded
<1>5. ASSUME q # <<>>, ~Asks(q[1], id) PROVE Commanded(q, id) <= Len(q) - 1
  <2>1. Len(q) > 0
    BY <1>1, <1>5
  <2>2. Places(q, id) \subseteq 2..Len(q)
    BY <1>1, <1>5, <2>1 DEF Places
  <2>3. IsFiniteSet(2..Len(q)) /\ Cardinality(2..Len(q)) = Len(q) - 1
    BY <1>1, <2>1, FS_Interval
  <2> QED BY <2>2, <2>3, FS_Subset DEF Commanded
<1> QED BY <1>4, <1>5

\* A message that is put in counts for itself alone.
LEMMA CommandedPut ==
  ASSUME NEW S, NEW q \in Seq(S), NEW r \in Seq(S), NEW m, NEW p, Between(q, p, m, r), NEW id
  PROVE  Commanded(r, id) = Commanded(q, id) + Asked(m, id)
<1>1. /\ DOMAIN q = 1..Len(q) /\ DOMAIN r = 1..Len(r) /\ Len(q) \in Nat
      /\ Len(r) = Len(q) + 1 /\ p \in 1..(Len(q) + 1) /\ r[p] = m
      /\ \A i \in 1..(p - 1) : r[i] = q[i]
      /\ \A i \in p..Len(q) : r[i + 1] = q[i]
  BY DEF Between
<1> DEFINE Q == Places(q, id)
           R == Places(r, id)
           now(i) == IF i < p THEN i ELSE i + 1
           f == [i \in Q |-> now(i)]
<1>2. ASSUME NEW i \in DOMAIN q
      PROVE  i \in Int /\ now(i) \in DOMAIN r /\ now(i) # p /\ r[now(i)] = q[i]
  <2>1. CASE i < p
    <3>1. i \in 1..(p - 1) /\ i \in DOMAIN r /\ i \in Int
      BY <1>1, <2>1
    <3> QED BY <1>1, <2>1, <3>1
  <2>2. CASE ~(i < p)
    <3>1. i \in p..Len(q) /\ i + 1 \in DOMAIN r /\ i + 1 # p /\ i \in Int
      BY <1>1, <2>2
    <3> QED BY <1>1, <2>2, <3>1
  <2> QED BY <2>1, <2>2
<1>3. ASSUME NEW k \in DOMAIN r, k # p PROVE \E i \in DOMAIN q : now(i) = k
  <2>1. CASE k < p
    <3>1. k \in DOMAIN q
      BY <1>1, <2>1
    <3> QED BY <2>1, <3>1
  <2>2. CASE ~(k < p)
    <3>1. k - 1 \in DOMAIN q /\ ~(k - 1 < p) /\ (k - 1) + 1 = k
      BY <1>1, <1>3, <2>2
    <3> QED BY <3>1
  <2> QED BY <2>1, <2>2
<1>4. \A i, j \in DOMAIN q : now(i) = now(j) => i = j
  BY <1>1
<1> HIDE DEF now
<1>5. /\ \A i \in Q : f[i] \in R \ {p}
      /\ \A i, j \in Q : f[i] = f[j] => i = j
      /\ \A k \in R \ {p} : \E i \in Q : f[i] = k
  <2>1. \A i \in Q : i \in DOMAIN q /\ f[i] = now(i) /\ Asks(q[i], id)
    BY DEF Places
  <2>2. \A i \in Q : now(i) \in R \ {p}
    BY <1>2, <2>1 DEF Places
  <2>3. ASSUME NEW k \in R \ {p} PROVE \E i \in Q : f[i] = k
    <3>1. k \in DOMAIN r /\ k # p /\ Asks(r[k], id)
      BY DEF Places
    <3>2. PICK i \in DOMAIN q : now(i) = k
      BY <1>3, <3>1
    <3>3. i \in Q
      BY <1>2, <3>1, <3>2 DEF Places
    <3> QED BY <3>2, <3>3
  <2> QED BY <1>4, <2>1, <2>2, <2>3
<1>6. f \in Bijection(Q, R \ {p})
  <2>1. f \in [Q -> R \ {p}]
    BY <1>5
  <2> HIDE DEF f
  <2>2. f \in Injection(Q, R \ {p}) /\ f \in Surjection(Q, R \ {p})
    BY <1>5, <2>1 DEF Injection, Surjection, IsInjective
  <2> QED BY <2>2 DEF Bijection
<1>7. IsFiniteSet(Q) /\ IsFiniteSet(R) /\ Cardinality(Q) \in Nat /\ Cardinality(R) \in Nat
  BY CommandedType DEF Commanded
<1>8. Cardinality(R \ {p}) = Cardinality(Q)
  <2>1. ExistsBijection(Q, R \ {p})
    BY <1>6 DEF ExistsBijection
  <2> QED BY <1>7, <2>1, FS_Bijection
<1>9. p \in R <=> Asks(m, id)
  BY <1>1 DEF Places
<1> HIDE DEF Q, R, f
<1>10. CASE p \in R
  <2>1. Cardinality(R \ {p}) = Cardinality(R) - 1
    BY <1>7, <1>10, FS_RemoveElement
  <2> QED BY <1>7, <1>8, <1>9, <1>10, <2>1 DEF Commanded, Asked, Q, R
<1>11. CASE p \notin R
  <2>1. R \ {p} = R
    BY <1>11
  <2>2. Cardinality(R) = Cardinality(Q)
    BY <1>8, <2>1, Zenon
  <2> QED BY <1>7, <1>9, <1>11, <2>2 DEF Commanded, Asked, Q, R
<1> QED BY <1>10, <1>11

\* The owner of a place can read all the answers that may still come to it, and
\* what it sends before.
Ready(c) == IF pc[c] = "ready" THEN 1 ELSE 0

RoomOf(s, id, c) == Len(queue[c]) + Commanded(serverQ[s], id) + Ready(c) < MaxMsg

RoomInv ==
  /\ \A s \in Servers : Len(serverQ[s]) <= MaxMsg
  /\ \A c \in Procs : Len(queue[c]) < MaxMsg
  /\ \A s \in Servers : \A id \in Ids :
       /\ clients[s][id] # Nobody => RoomOf(s, id, clients[s][id])
       /\ clients[s][id] = Nobody /\ serverQ[s] # <<>> /\ serverQ[s][1].mtype = "INTRODUCE" =>
            Commanded(serverQ[s], id) + 2 <= MaxMsg

\* The numbers RoomInv adds up.
LEMMA RoomTypes ==
  ASSUME Types
  PROVE  /\ \A s \in Servers : Len(serverQ[s]) \in Nat
         /\ \A c \in Procs : Len(queue[c]) \in Nat
         /\ \A s \in Servers : \A id : Commanded(serverQ[s], id) \in Nat
         /\ \A m, id : Asked(m, id) \in {0, 1}
         /\ \A c : Ready(c) \in {0, 1}
         /\ MaxMsg \in Nat /\ MaxMsg > 1
<1>1. ASSUME NEW s \in Servers
      PROVE  Len(serverQ[s]) \in Nat /\ \A id : Commanded(serverQ[s], id) \in Nat
  <2>1. serverQ[s] \in Seq(Requested)
    BY DEF Types
  <2> QED BY <2>1, CommandedType
<1>2. ASSUME NEW c \in Procs PROVE Len(queue[c]) \in Nat
  <2>1. queue[c] \in Seq(Answers)
    BY DEF Types
  <2> QED BY <2>1
<1> QED BY <1>1, <1>2, Constants DEF Asked, Ready, Types

\* A step after which a queue is no longer and nobody new is ready.
LEMMA RoomQuiet ==
  ASSUME RoomInv, UNCHANGED <<clients, serverQ, queue>>, Types, Types',
         \A d \in Procs : pc'[d] = "ready" => pc[d] = "ready"
  PROVE  RoomInv'
<1>1. ASSUME NEW s \in Servers, NEW id \in Ids, clients[s][id] # Nobody
      PROVE  RoomOf(s, id, clients[s][id])'
  <2>1. PICK d \in Procs : d = clients[s][id] /\ RoomOf(s, id, d)
    BY <1>1 DEF RoomInv, Types
  <2>2. Ready(d)' <= Ready(d)
    BY DEF Ready
  <2>3. RoomOf(s, id, d)'
    BY <2>1, <2>2, RoomTypes DEF RoomOf, Ready
  <2> QED BY <2>1, <2>3
<1> QED BY <1>1 DEF RoomInv

\* A client that reads has one message less and may send one command.
LEMMA RoomRead ==
  ASSUME Types, Types', RoomInv, NEW c \in Procs,
         queue[c] # <<>>, queue' = [queue EXCEPT ![c] = Tail(@)], pc[c] # "ready",
         \A d \in Procs : d # c => pc'[d] = pc[d],
         UNCHANGED <<clients, serverQ>>
  PROVE  RoomInv'
<1>1. /\ Len(queue'[c]) = Len(queue[c]) - 1
      /\ \A d \in Procs : d # c => queue'[d] = queue[d]
  <2>1. queue[c] \in Seq(Answers)
    BY DEF Types
  <2> QED BY <2>1, QueueRead, TailAt
<1>2. ASSUME NEW d \in Procs
      PROVE  /\ Len(queue'[d]) <= Len(queue[d])
             /\ Len(queue'[d]) + Ready(d)' <= Len(queue[d]) + Ready(d)
  <2>1. CASE d = c
    <3>1. Ready(c) = 0 /\ Ready(c)' \in {0, 1} /\ Len(queue[c]) \in Nat
      BY RoomTypes DEF Ready
    <3>2. Len(queue'[c]) <= Len(queue[c]) /\ Len(queue'[c]) + Ready(c)' <= Len(queue[c]) + Ready(c)
      BY <1>1, <3>1
    <3> QED BY <2>1, <3>2
  <2>2. CASE d # c
    <3>1. Ready(d)' = Ready(d) /\ Ready(d) \in {0, 1} /\ Len(queue[d]) \in Nat
      BY <2>2, RoomTypes DEF Ready
    <3> QED BY <1>1, <2>2, <3>1
  <2> QED BY <2>1, <2>2
<1>3. ASSUME NEW d \in Procs PROVE Len(queue'[d]) \in Nat /\ Ready(d)' \in Nat
  BY <1>1, RoomTypes DEF Ready
<1>4. ASSUME NEW s \in Servers, NEW id \in Ids, clients[s][id] # Nobody
      PROVE  RoomOf(s, id, clients[s][id])'
  <2>1. PICK d \in Procs : d = clients[s][id] /\ RoomOf(s, id, d)
    BY <1>4 DEF RoomInv, Types
  <2>2. Commanded(serverQ'[s], id) = Commanded(serverQ[s], id)
    OBVIOUS
  <2>3. PICK n \in Nat : n = Commanded(serverQ[s], id)
    BY RoomTypes
  <2>4. Len(queue[d]) + n + Ready(d) < MaxMsg
    BY <2>1, <2>3 DEF RoomOf
  <2>5. Len(queue'[d]) + n + Ready(d)' < MaxMsg
    <3>1. Len(queue[d]) \in Nat /\ Ready(d) \in {0, 1} /\ MaxMsg \in Nat
      BY RoomTypes
    <3>2. Len(queue'[d]) + Ready(d)' <= Len(queue[d]) + Ready(d)
      BY <1>2
    <3>3. Len(queue'[d]) \in Nat /\ Ready(d)' \in Nat
      BY <1>3
    <3> QED BY <2>3, <2>4, <3>1, <3>2, <3>3
  <2>6. RoomOf(s, id, d)'
    BY <2>2, <2>3, <2>5 DEF RoomOf
  <2> QED BY <2>1, <2>6
<1>5. \A d \in Procs : Len(queue'[d]) < MaxMsg
  BY <1>2, <1>3, RoomTypes DEF RoomInv
<1> QED BY <1>4, <1>5 DEF RoomInv

\* A client that sends a command was ready, and has the place of its id.
LEMMA RoomSend ==
  ASSUME Types, LifeInv, RoomInv, Types', NEW c \in Procs, NEW m \in Requested,
         srv[c] \in Servers, Send(c, m), UNCHANGED <<clients, queue>>,
         pc'[c] # "ready", \A d \in Procs : d # c => pc'[d] = pc[d],
         m.mtype \in Commands => pc[c] = "ready" /\ m.clientId = clientId[c]
  PROVE  RoomInv'
<1>1. PICK s \in Servers : s = srv[c]
  OBVIOUS
<1>2. /\ Len(serverQ[s]) < MaxMsg
      /\ \A t \in Servers : t # s => serverQ'[t] = serverQ[t]
  BY <1>1, SendIs
<1>3. PICK p : /\ Between(serverQ[s], p, m, serverQ'[s])
               /\ m.mtype # "STOP" => p = Len(serverQ[s]) + 1
  BY <1>1, SendIs
<1>4. serverQ[s] \in Seq(Requested) /\ serverQ'[s] \in Seq(Requested)
  BY DEF Types
<1>5. \A id : Commanded(serverQ'[s], id) = Commanded(serverQ[s], id) + Asked(m, id)
  BY <1>3, <1>4, CommandedPut
<1>6. LifeOf(c)
  BY DEF LifeInv
<1>7. ASSUME NEW id, Asks(m, id)
      PROVE  pc[c] = "ready" /\ clientId[c] = id /\ clients[s][id] = c
  <2>1. pc[c] = "ready" /\ clientId[c] = id
    BY <1>7 DEF Asks
  <2> QED BY <1>1, <1>6, <2>1 DEF LifeOf, HasName
<1>8. ASSUME NEW d \in Procs
      PROVE  Ready(d)' <= Ready(d) /\ (d = c => Ready(d)' = 0)
             /\ (d = c /\ pc[c] = "ready" => Ready(d) = 1)
  BY DEF Ready
<1>9. ASSUME NEW t \in Servers, NEW id \in Ids, NEW d \in Procs, d = clients[t][id]
      PROVE  RoomOf(t, id, d)'
  <2>1. PICK n \in Nat : n = Commanded(serverQ[t], id)
    BY RoomTypes
  <2>2. d # Nobody
    BY Constants DEF Types
  <2>3. Len(queue[d]) + n + Ready(d) < MaxMsg
    BY <1>9, <2>1, <2>2 DEF RoomInv, RoomOf
  <2>4. PICK k : k = Commanded(serverQ'[t], id)
    OBVIOUS
  <2>5. k + Ready(d)' <= n + Ready(d) /\ k \in Nat
    <3>1. CASE t = s /\ Asks(m, id)
      <4>1. k = n + 1
        BY <1>5, <2>1, <2>4, <3>1 DEF Asked
      <4>2. d = c /\ pc[c] = "ready"
        BY <1>7, <1>9, <3>1
      <4> QED BY <1>8, <2>1, <4>1, <4>2
    <3>2. CASE t = s /\ ~Asks(m, id)
      <4>1. k = n
        BY <1>5, <2>1, <2>4, <3>2 DEF Asked
      <4> QED BY <1>8, <2>1, <4>1 DEF Ready
    <3>3. CASE t # s
      <4>1. k = n
        BY <1>2, <2>1, <2>4, <3>3
      <4> QED BY <1>8, <2>1, <4>1 DEF Ready
    <3> QED BY <3>1, <3>2, <3>3
  <2>6. Len(queue[d]) + k + Ready(d)' < MaxMsg
    <3>1. Ready(d)' \in {0, 1}
      BY DEF Ready
    <3> QED BY <2>1, <2>3, <2>5, <3>1, RoomTypes
  <2> QED BY <2>4, <2>6 DEF RoomOf
<1>10. ASSUME NEW t \in Servers, NEW id \in Ids, clients[t][id] = Nobody, serverQ'[t] # <<>>,
              serverQ'[t][1].mtype = "INTRODUCE"
       PROVE  Commanded(serverQ'[t], id) + 2 <= MaxMsg
  <2>1. CASE t # s
    BY <1>2, <1>10, <2>1 DEF RoomInv
  <2>2. CASE t = s
    <3>1. c # Nobody
      BY Constants DEF Types
    <3>2. Commanded(serverQ'[s], id) = Commanded(serverQ[s], id)
      <4>1. ~Asks(m, id)
        BY <1>7, <1>10, <2>2, <3>1
      <4> QED BY <1>5, <4>1, RoomTypes DEF Asked
    <3>3. /\ p \in 1..(Len(serverQ[s]) + 1) /\ serverQ'[s][p] = m /\ Len(serverQ[s]) \in Nat
          /\ \A i \in 1..(p - 1) : serverQ'[s][i] = serverQ[s][i]
      BY <1>3, RoomTypes DEF Between
    <3>4. CASE p = 1
      <4>1. m.mtype = "INTRODUCE"
        BY <1>10, <2>2, <3>3, <3>4
      <4>2. Len(serverQ[s]) = 0
        BY <1>3, <3>3, <3>4, <4>1
      <4>3. Commanded(serverQ[s], id) <= 0
        BY <1>4, <4>2, CommandedType
      <4> QED BY <2>2, <3>2, <4>3, RoomTypes
    <3>5. CASE p # 1
      <4>1. 1 \in 1..(p - 1) /\ Len(serverQ[s]) > 0
        BY <3>3, <3>5
      <4>2. serverQ[s][1].mtype = "INTRODUCE" /\ serverQ[s] # <<>>
        BY <1>4, <1>10, <2>2, <3>3, <4>1
      <4> QED BY <1>10, <2>2, <3>2, <4>2 DEF RoomInv
    <3> QED BY <3>4, <3>5
  <2> QED BY <2>1, <2>2
<1>11. \A t \in Servers : Len(serverQ'[t]) <= MaxMsg
  <2>1. Len(serverQ'[s]) = Len(serverQ[s]) + 1
    BY <1>3 DEF Between
  <2>2. Len(serverQ'[s]) <= MaxMsg
    BY <1>2, <2>1, RoomTypes
  <2> QED BY <1>2, <2>2 DEF RoomInv
<1>12. ASSUME NEW t \in Servers, NEW id \in Ids, clients[t][id] # Nobody
       PROVE  RoomOf(t, id, clients[t][id])'
  <2>1. PICK d \in Procs : d = clients[t][id]
    BY <1>12 DEF Types
  <2>2. RoomOf(t, id, d)'
    BY <1>9, <2>1
  <2> QED BY <2>1, <2>2
<1> QED BY <1>10, <1>11, <1>12 DEF RoomInv

\* Every step of a client keeps RoomInv.
LEMMA RoomClient ==
  ASSUME Types, LifeInv, RoomInv, NEW c \in Procs, Client(c)
  PROVE  RoomInv'
<1> USE DEF server
<1>1. Types'
  BY ClientTypes
<1>2. pc[c] \notin {"new", "gone"} => srv[c] \in Servers
  BY DEF Types
<1>3. \A from, to : Goes(c, from, to) =>
        pc[c] = from /\ pc'[c] = to /\ \A d \in Procs : d # c => pc'[d] = pc[d]
  BY DEF Goes, Types
<1>4. CASE Introduce(c)
  <2>1. PICK m : m = Request("INTRODUCE", c)
    OBVIOUS
  <2>2. 0 \in 0..MaxRequests
    BY Constants DEF Types
  <2>3. m \in Requested /\ m.mtype = "INTRODUCE" /\ Send(c, m)
    <3>1. m \in Requested /\ m.mtype = "INTRODUCE"
      BY <2>1, <2>2 DEF Request, Requested, Types
    <3> QED BY <1>4, <2>1, <3>1 DEF Introduce
  <2> QED BY <1>1, <1>2, <1>3, <1>4, <2>3, RoomSend DEF Introduce, Commands
<1>5. CASE SendCommand(c)
  <2>1. nr[c] + 1 \in 0..MaxRequests
    BY <1>5, Constants DEF SendCommand, Types
  <2>2. PICK mtype \in Commands : Send(c, [Request(mtype, c) EXCEPT !.nr = nr[c] + 1])
    BY <1>5 DEF SendCommand
  <2>3. PICK m : m = [Request(mtype, c) EXCEPT !.nr = nr[c] + 1]
    OBVIOUS
  <2>4. m \in Requested /\ m.clientId = clientId[c] /\ Send(c, m)
    BY <2>1, <2>2, <2>3, RequestTypes
  <2> QED BY <1>1, <1>2, <1>3, <1>5, <2>4, RoomSend DEF SendCommand
<1>6. CASE SendEnd(c)
  <2>1. PICK m : m = Request("END", c)
    OBVIOUS
  <2>2. 0 \in 0..MaxRequests
    BY Constants DEF Types
  <2>3. m \in Requested /\ m.mtype = "END" /\ Send(c, m)
    <3>1. m \in Requested /\ m.mtype = "END"
      BY <2>1, <2>2 DEF Request, Requested, Types
    <3> QED BY <1>6, <2>1, <3>1 DEF SendEnd
  <2> QED BY <1>1, <1>2, <1>3, <1>6, <2>3, RoomSend DEF SendEnd, Commands
<1>7. CASE removeQAtExit(c) /\ clientId[c] # -1
  <2>1. PICK m : m = Request("STOP", c)
    OBVIOUS
  <2>2. 0 \in 0..MaxRequests
    BY Constants DEF Types
  <2>3. m \in Requested /\ m.mtype = "STOP" /\ Send(c, m)
    BY <1>7, <2>1, <2>2, RequestTypes DEF removeQAtExit
  <2> QED BY <1>1, <1>2, <1>3, <1>7, <2>3, RoomSend DEF removeQAtExit, Commands
<1>8. CASE Open(c) \/ Leave(c) \/ (removeQAtExit(c) /\ clientId[c] = -1)
  <2>1. UNCHANGED <<clients, serverQ, queue>>
    BY <1>8 DEF Open, Leave, removeQAtExit
  <2>2. pc'[c] # "ready" /\ \A d \in Procs : d # c => pc'[d] = pc[d]
    BY <1>3, <1>8 DEF Open, Leave, removeQAtExit
  <2> QED BY <1>1, <2>1, <2>2, RoomQuiet
<1>9. CASE Introduced(c) \/ ReceiveAnswer(c)
  BY <1>1, <1>3, <1>9, RoomRead DEF Introduced, ReceiveAnswer
<1> QED BY <1>4, <1>5, <1>6, <1>7, <1>8, <1>9 DEF Client

\* The queue of a server without its first message.
LEMMA RoomHead ==
  ASSUME Types, RoomInv, Types', NEW s \in Servers, serverQ[s] # <<>>,
         serverQ' = [serverQ EXCEPT ![s] = Tail(@)]
  PROVE  /\ \A t \in Servers : Len(serverQ'[t]) <= MaxMsg
         /\ \A t \in Servers : \A id : Commanded(serverQ'[t], id) <= Commanded(serverQ[t], id)
         /\ \A id :
              Commanded(serverQ'[s], id) + Asked(serverQ[s][1], id) = Commanded(serverQ[s], id)
         /\ \A id : serverQ'[s] # <<>> /\ serverQ'[s][1].mtype = "INTRODUCE" =>
              Commanded(serverQ'[s], id) + 2 <= MaxMsg
         /\ \A t \in Servers : t # s => serverQ'[t] = serverQ[t]
<1>1. PICK q \in Seq(Requested) : q = serverQ[s]
  BY DEF Types
<1>2. PICK r \in Seq(Requested) : r = serverQ'[s]
  BY DEF Types
<1>3. r = Tail(q) /\ \A t \in Servers : t # s => serverQ'[t] = serverQ[t]
  BY <1>1, <1>2 DEF Types
<1>4. /\ Len(q) \in Nat \ {0} /\ Len(r) = Len(q) - 1
      /\ \A i \in 1..(Len(q) - 1) : r[i] = q[i + 1]
  BY <1>1, <1>3
<1>5. Len(q) <= MaxMsg /\ MaxMsg \in Nat
  BY <1>1, RoomTypes DEF RoomInv
<1>6. Between(r, 1, q[1], q)
  <2>1. \A i \in 1..Len(r) : q[i + 1] = r[i]
    BY <1>4
  <2>2. 1 \in 1..(Len(r) + 1) /\ Len(q) = Len(r) + 1
    BY <1>4
  <2>3. \A i \in 1..(1 - 1) : FALSE
    OBVIOUS
  <2> QED BY <2>1, <2>2, <2>3 DEF Between
<1>7. \A id : Commanded(q, id) = Commanded(r, id) + Asked(q[1], id)
  BY <1>6, CommandedPut
<1>8. \A id : Commanded(r, id) \in Nat /\ Commanded(q, id) \in Nat /\ Asked(q[1], id) \in {0, 1}
  BY CommandedType DEF Asked
<1>9. ASSUME NEW id, r # <<>>, r[1].mtype = "INTRODUCE" PROVE Commanded(r, id) + 2 <= MaxMsg
  <2>1. ~Asks(r[1], id)
    BY <1>9 DEF Asks, Commands
  <2>2. Commanded(r, id) <= Len(r) - 1
    BY <1>9, <2>1, CommandedType
  <2> QED BY <1>4, <1>5, <1>8, <2>2
<1>10. ASSUME NEW t \in Servers
       PROVE  /\ Len(serverQ'[t]) <= MaxMsg
              /\ \A id : Commanded(serverQ'[t], id) <= Commanded(serverQ[t], id)
  <2>1. CASE t = s
    <3>1. Len(r) <= MaxMsg
      BY <1>4, <1>5
    <3>2. \A id : Commanded(r, id) <= Commanded(q, id)
      BY <1>7, <1>8
    <3> QED BY <1>1, <1>2, <2>1, <3>1, <3>2
  <2>2. CASE t # s
    <3>1. serverQ'[t] = serverQ[t]
      BY <1>3, <2>2
    <3>2. \A id : Commanded(serverQ[t], id) \in Nat
      BY RoomTypes
    <3>3. \A id : Commanded(serverQ[t], id) <= Commanded(serverQ[t], id)
      BY <3>2
    <3> QED BY <3>1, <3>3 DEF RoomInv
  <2> QED BY <2>1, <2>2
<1>11. \A id : Commanded(r, id) + Asked(q[1], id) = Commanded(q, id)
  BY <1>7
<1> QED BY <1>1, <1>2, <1>3, <1>9, <1>10, <1>11

\* What is to be shown of a server's step: the places, and the queues of clients.
LEMMA RoomFrame ==
  ASSUME Types, RoomInv, Types', NEW s \in Servers, serverQ[s] # <<>>,
         serverQ' = [serverQ EXCEPT ![s] = Tail(@)],
         \A c \in Procs : Len(queue'[c]) < MaxMsg,
         \A t \in Servers : \A id \in Ids : clients'[t][id] # Nobody =>
           RoomOf(t, id, clients[t][id])',
         \A t \in Servers : \A id \in Ids :
           t # s /\ clients'[t][id] = Nobody => clients[t][id] = Nobody
  PROVE  RoomInv'
<1>1. ASSUME NEW t \in Servers, NEW id \in Ids, clients'[t][id] = Nobody, serverQ'[t] # <<>>,
             serverQ'[t][1].mtype = "INTRODUCE"
      PROVE  Commanded(serverQ'[t], id) + 2 <= MaxMsg
  <2>1. CASE t = s
    BY <1>1, <2>1, RoomHead
  <2>2. CASE t # s
    <3>1. serverQ'[t] = serverQ[t] /\ clients[t][id] = Nobody
      BY <1>1, <2>2, RoomHead
    <3> QED BY <1>1, <3>1 DEF RoomInv
  <2> QED BY <2>1, <2>2
<1> QED BY <1>1, RoomHead DEF RoomInv

\* A place whose owner and whose owner's queue stay.
LEMMA RoomKept ==
  ASSUME Types, RoomInv, Types', NEW s \in Servers, serverQ[s] # <<>>,
         serverQ' = [serverQ EXCEPT ![s] = Tail(@)], pc' = pc,
         NEW t \in Servers, NEW id \in Ids, NEW d \in Procs, clients[t][id] = d,
         queue'[d] = queue[d]
  PROVE  RoomOf(t, id, d)'
<1>1. d # Nobody
  BY Constants DEF Types
<1>2. RoomOf(t, id, d)
  BY <1>1 DEF RoomInv
<1>3. PICK n \in Nat : n = Commanded(serverQ[t], id)
  BY RoomTypes
<1>4. PICK k \in Nat : k = Commanded(serverQ'[t], id)
  <2>1. serverQ'[t] \in Seq(Requested)
    BY DEF Types
  <2> QED BY <2>1, CommandedType
<1>5. k <= n
  BY <1>3, <1>4, RoomHead
<1>6. Len(queue[d]) + n + Ready(d) < MaxMsg
  BY <1>2, <1>3 DEF RoomOf
<1>7. Len(queue[d]) \in Nat /\ Ready(d) \in {0, 1} /\ MaxMsg \in Nat
  BY RoomTypes
<1>8. Len(queue[d]) + k + Ready(d) < MaxMsg
  BY <1>5, <1>6, <1>7
<1>9. Ready(d)' = Ready(d)
  BY DEF Ready
<1> QED BY <1>4, <1>8, <1>9 DEF RoomOf

\* The client that introduces itself has an empty queue, and its place had none
\* to answer to.
LEMMA RoomRegister ==
  ASSUME Types, LifeInv, RoomInv, Types', NEW s \in Servers, OnlyServer(s),
         serverQ[s] # <<>>, serverQ' = [serverQ EXCEPT ![s] = Tail(@)],
         NEW m, m = serverQ[s][1], m.mtype = "INTRODUCE", Register(s, m.client)
  PROVE  RoomInv'
<1> USE DEF OnlyServer
<1>1. PICK c \in Procs : c = m.client /\ m \in Requested
  BY RequestIn
<1>2. PICK id \in Ids : id = FirstFree(s) /\ clients[s][id] = Nobody
  BY FirstFreeIsFree DEF Register
<1>3. PICK a : a = Answer(c, 0, id)
  OBVIOUS
<1>4. a \in Answers
  BY <1>3, Constants DEF Answer, Answers, Types
<1>5. EntrySet(s, id, c)
  BY <1>1, <1>2 DEF Register, Types, EntrySet
<1>6. /\ srv[c] = s /\ clientId[c] = -1 /\ queue[c] = <<>> /\ ~Listed(s, c) /\ LifeOf(c)
  BY <1>1 DEF LifeInv, RequestOf
<1>7. queue'[c] = Append(queue[c], a) /\ \A d \in Procs : d # c => queue'[d] = queue[d]
  <2>1. Post(c, a) /\ c # Nobody
    BY <1>1, <1>2, <1>3, Constants DEF Register, Types
  <2> QED BY <1>4, <2>1, PostIs
<1>8. Len(queue'[c]) = 1
  BY <1>6, <1>7
<1>9. Ready(c)' = 0
  BY <1>6 DEF LifeOf, Ready
<1>10. RoomOf(s, id, c)'
  <2>1. PICK n \in Nat : n = Commanded(serverQ[s], id)
    BY RoomTypes
  <2>2. n + 2 <= MaxMsg
    BY <1>1, <1>2, <2>1 DEF RoomInv
  <2>3. serverQ'[s] \in Seq(Requested)
    BY DEF Types
  <2>4. PICK k \in Nat : k = Commanded(serverQ'[s], id)
    BY <2>3, CommandedType
  <2>5. k <= n
    BY <2>1, <2>4, RoomHead
  <2>6. 1 + k + 0 < MaxMsg
    BY <2>2, <2>5, RoomTypes
  <2> QED BY <1>8, <1>9, <2>4, <2>6 DEF RoomOf
<1>11. ASSUME NEW t \in Servers, NEW k \in Ids, clients'[t][k] # Nobody
       PROVE  RoomOf(t, k, clients[t][k])'
  <2>1. CASE t = s /\ k = id
    <3>1. clients'[t][k] = c
      BY <1>5, <2>1 DEF EntrySet
    <3> QED BY <1>10, <2>1, <3>1
  <2>2. CASE t # s \/ k # id
    <3>1. PICK d \in Procs : d = clients[t][k] /\ d = clients'[t][k] /\ PlaceOf(t, k, d)
      BY <1>5, <1>11, <2>2 DEF EntrySet, LifeInv, PlaceInv, Types
    <3>2. d # c
      BY <1>6, <3>1 DEF PlaceOf, Listed
    <3>3. RoomOf(t, k, d)'
      BY <1>7, <3>1, <3>2, RoomKept
    <3> QED BY <3>1, <3>3
  <2> QED BY <2>1, <2>2
<1>12. ASSUME NEW d \in Procs PROVE Len(queue'[d]) < MaxMsg
  <2>1. CASE d = c
    BY <1>8, <2>1, RoomTypes
  <2>2. CASE d # c
    BY <1>7, <2>2 DEF RoomInv
  <2> QED BY <2>1, <2>2
<1>13. \A t \in Servers : \A k \in Ids : t # s /\ clients'[t][k] = Nobody => clients[t][k] = Nobody
  BY <1>5 DEF EntrySet
<1> QED BY <1>11, <1>12, <1>13, RoomFrame

\* The command that is answered is one less to be answered.
LEMMA RoomRespond ==
  ASSUME Types, LifeInv, RoomInv, Types', NEW s \in Servers, OnlyServer(s),
         serverQ[s] # <<>>, serverQ' = [serverQ EXCEPT ![s] = Tail(@)],
         NEW m, m = serverQ[s][1], m.mtype \in Commands, Respond(s, m)
  PROVE  RoomInv'
<1> USE DEF OnlyServer
<1>1. /\ m \in Requested /\ m.client \in Procs /\ m.clientId \in Ids
      /\ clients' = clients /\ pc' = pc
  <2>1. m \in Requested /\ m.client \in Procs /\ RequestOf(s, m)
    BY RequestIn DEF LifeInv
  <2> QED BY <2>1 DEF RequestOf, Respond, server, Types
<1>2. PICK id \in Ids : id = m.clientId
  BY <1>1
<1>3. PICK c \in Procs \cup {Nobody} : c = clients[s][id]
  BY DEF Types
<1>4. PICK a : a = Answer(m.client, m.nr, -1)
  OBVIOUS
<1>5. a \in Answers
  BY <1>1, <1>4 DEF Answer, Answers, Requested
<1>6. Post(c, a)
  BY <1>2, <1>3, <1>4 DEF Respond
<1>7. \A d \in Procs : d # c => queue'[d] = queue[d]
  BY <1>5, <1>6, PostIs
<1>8. ASSUME c # Nobody PROVE RoomOf(s, id, c)' /\ Len(queue'[c]) < MaxMsg
  <2>1. c \in Procs /\ queue'[c] = Append(queue[c], a)
    BY <1>5, <1>6, <1>8, PostIs
  <2>2. queue[c] \in Seq(Answers)
    BY <2>1 DEF Types
  <2>3. Len(queue'[c]) = Len(queue[c]) + 1 /\ Len(queue[c]) \in Nat
    BY <1>5, <2>1, <2>2
  <2>4. PICK n \in Nat : n = Commanded(serverQ[s], id)
    BY RoomTypes
  <2>5. serverQ'[s] \in Seq(Requested)
    BY DEF Types
  <2>6. PICK k \in Nat : k = Commanded(serverQ'[s], id)
    BY <2>5, CommandedType
  <2>7. k + 1 = n
    <3>1. Asked(serverQ[s][1], id) = 1
      BY <1>2 DEF Asked, Asks
    <3>2. \A j : Commanded(serverQ'[s], j) + Asked(serverQ[s][1], j) = Commanded(serverQ[s], j)
      BY RoomHead
    <3>3. Commanded(serverQ'[s], id) + Asked(serverQ[s][1], id) = Commanded(serverQ[s], id)
      BY <3>2
    <3> QED BY <2>4, <2>6, <3>1, <3>3
  <2>8. Len(queue[c]) + n + Ready(c) < MaxMsg
    BY <1>3, <1>8, <2>4 DEF RoomInv, RoomOf
  <2>9. Ready(c)' = Ready(c) /\ Ready(c) \in {0, 1} /\ MaxMsg \in Nat
    BY <1>1, RoomTypes DEF Ready
  <2>10. Len(queue'[c]) + k + Ready(c) < MaxMsg /\ Len(queue'[c]) < MaxMsg
    BY <2>3, <2>7, <2>8, <2>9
  <2> QED BY <2>6, <2>9, <2>10 DEF RoomOf
<1>9. ASSUME NEW t \in Servers, NEW k \in Ids, clients'[t][k] # Nobody
      PROVE  RoomOf(t, k, clients[t][k])'
  <2>1. PICK d \in Procs : d = clients[t][k] /\ d # Nobody /\ PlaceOf(t, k, d)
    BY <1>1, <1>9 DEF LifeInv, PlaceInv, Types
  <2>2. CASE d = c
    <3>1. PlaceOf(s, id, c)
      BY <1>3, <2>1, <2>2 DEF LifeInv, PlaceInv
    <3>2. t = s /\ k = id
      BY <2>1, <2>2, <3>1, Constants DEF PlaceOf, Types
    <3> QED BY <1>1, <1>3, <1>8, <2>1, <2>2, <3>2
  <2>3. CASE d # c
    <3>1. RoomOf(t, k, d)'
      BY <1>1, <1>7, <2>1, <2>3, RoomKept
    <3> QED BY <1>1, <2>1, <3>1
  <2> QED BY <2>2, <2>3
<1>10. ASSUME NEW d \in Procs PROVE Len(queue'[d]) < MaxMsg
  <2>1. CASE d = c
    <3>1. c # Nobody
      BY <2>1, Constants DEF Types
    <3> QED BY <1>8, <2>1, <3>1
  <2>2. CASE d # c
    BY <1>7, <2>2 DEF RoomInv
  <2> QED BY <2>1, <2>2
<1> QED BY <1>1, <1>9, <1>10, RoomFrame

LEMMA RoomStep == Types /\ LifeInv /\ RoomInv /\ [Next]_vars => RoomInv'
<1> SUFFICES ASSUME Types, LifeInv, RoomInv, [Next]_vars PROVE RoomInv'
  OBVIOUS
<1>1. Types'
  BY StepTypes
<1>2. CASE UNCHANGED <<clients, serverQ, queue, pc>>
  BY <1>1, <1>2, RoomQuiet
<1>3. ASSUME NEW s \in Servers, ServerReceives(s) PROVE RoomInv'
  <2>1. PICK m : m = serverQ[s][1]
    OBVIOUS
  <2>2. /\ OnlyServer(s) /\ Handle(s, m) /\ serverQ[s] # <<>>
        /\ serverQ' = [serverQ EXCEPT ![s] = Tail(@)] /\ pc' = pc
    BY <1>3, <2>1, ServerKeeps DEF ServerReceives
  <2>3. CASE m.mtype = "INTRODUCE" /\ Register(s, m.client)
    BY <1>1, <2>1, <2>2, <2>3, RoomRegister
  <2>4. CASE m.mtype \in Commands /\ Respond(s, m)
    BY <1>1, <2>1, <2>2, <2>4, RoomRespond
  <2>5. CASE queue' = queue
    <3>1. \/ UNCHANGED clients
          \/ \E c \in Procs : \E id \in Ids :
               Register(s, c) /\ m.client = c /\ m.mtype = "INTRODUCE"
          \/ \E id \in Ids : EntrySet(s, id, Nobody)
      BY <2>1, <2>2, TableMoves
    <3>2. CASE UNCHANGED clients \/ \E id \in Ids : EntrySet(s, id, Nobody)
      <4>1. ASSUME NEW t \in Servers, NEW k \in Ids, clients'[t][k] # Nobody
            PROVE  RoomOf(t, k, clients[t][k])'
        <5>0. clients[t][k] = clients'[t][k]
          <6>1. CASE UNCHANGED clients
            BY <6>1
          <6>2. ASSUME NEW id \in Ids, EntrySet(s, id, Nobody) PROVE clients[t][k] = clients'[t][k]
            BY <4>1, <6>2 DEF EntrySet
          <6> QED BY <3>2, <6>1, <6>2
        <5>1. PICK d \in Procs : d = clients[t][k] /\ d = clients'[t][k]
          BY <4>1, <5>0 DEF Types
        <5>2. RoomOf(t, k, d)'
          BY <1>1, <2>2, <2>5, <5>1, RoomKept
        <5> QED BY <5>1, <5>2
      <4>2. \A c \in Procs : Len(queue'[c]) < MaxMsg
        BY <2>5 DEF RoomInv
      <4>3. \A t \in Servers : \A k \in Ids :
              t # s /\ clients'[t][k] = Nobody => clients[t][k] = Nobody
        BY <3>2 DEF EntrySet
      <4> QED BY <1>1, <2>2, <4>1, <4>2, <4>3, RoomFrame
    <3> QED BY <2>3, <3>1, <3>2
  <2>6. \/ m.mtype = "INTRODUCE" /\ Register(s, m.client)
        \/ m.mtype \in Commands /\ Respond(s, m)
        \/ queue' = queue
    BY <2>2 DEF Handle, new_client, Refuse, CalcCrashes, delete_client, server
  <2> QED BY <2>3, <2>4, <2>5, <2>6
<1> QED BY <1>2, <1>3, RoomClient DEF Next, StartServer, ServerInterrupted, ServerExits, vars

LEMMA RoomInit == Init => OthersInv /\ RoomInv
<1> SUFFICES ASSUME Init PROVE OthersInv /\ RoomInv
  OBVIOUS
<1>1. DOMAIN <<>> = {} /\ Len(<<>>) = 0
  BY EmptySeq
<1> QED BY <1>1, Constants DEF Init, OthersInv, RoomInv

\* A client that introduces itself reads the answer to that first; what else comes
\* to it that it did not ask for was asked by the owner of its place before it; and
\* its queue never fills, so that mq_send of the server does not wait
\* (AnswersAreOwn: mirror_fun, time_fun and calc answer the queue in the table).
THEOREM AnswersFindTheirAskers == Spec => []AnswersAreOwn
<1>1. ASSUME Types, LifeInv, OthersInv, RoomInv, NEW c \in Procs, NEW i \in DOMAIN queue[c],
             NEW n, n = queue[c][i], NEW d, d = n.client
      PROVE  /\ pc[c] = "introduced" /\ i = 1 => d = c /\ n.id # -1
             /\ d # c => /\ pc[d] = "gone" /\ srv[d] = srv[c]
                         /\ clients[srv[c]][clientId[d]] = c \/ clientId[d] = clientId[c]
  <2>1. queue[c] # <<>> /\ d \in Procs /\ LifeOf(c) /\ Foreign(c, d)
    BY <1>1, AnswerIn DEF LifeInv, OthersInv
  <2>2. ASSUME pc[c] = "introduced", i = 1 PROVE d = c /\ n.id # -1
    BY <1>1, <2>1, <2>2, Constants DEF LifeOf, Types
  <2> QED BY <2>1, <2>2 DEF Foreign
<1>2. Types /\ LifeInv /\ OthersInv /\ RoomInv => AnswersAreOwn
  BY <1>1 DEF AnswersAreOwn, RoomInv
<1> QED BY <1>2, InitGives, RoomInit, StepTypes, LifeStep, OthersStep, RoomStep, PTL DEF Spec
=============================================================================
