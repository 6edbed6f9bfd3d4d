-------------------------- MODULE BarbershopProofs --------------------------
(***************************************************************************)
(* The barbershop keeps its accounts for any number of clients, seats and  *)
(* cuts.  The inductive invariant says where the tokens of each semaphore, *)
(* the seats, the queue entries and the calls of clients are: each is an   *)
(* equation between a semaphore or counter and the processes at certain    *)
(* labels, and every step moves one process and at most one token.  The    *)
(* last part is about the shop that opens and closes: the same accounts    *)
(* hold without a barber, and so for the next one.                         *)
(***************************************************************************)
EXTENDS BarbershopPosix, ProcessCounts, FiniteSetTheorems, SequenceTheorems, TLAPS

(* Indices that wrap around, and processes counted by their labels. *)
\* The remainder by n is an index of an array of n places.
LEMMA ModRange ==
  ASSUME NEW n \in Nat \ {0}, NEW a \in Nat
  PROVE  a % n \in 0..(n-1)
BY SMT

\* Division with remainder.
LEMMA ModDiv ==
  ASSUME NEW n \in Nat \ {0}, NEW a \in Nat
  PROVE  a = n * (a \div n) + (a % n) /\ a \div n \in Nat
BY SMT

\* Quotient and remainder are unique.
LEMMA ModUnique ==
  ASSUME NEW n \in Nat \ {0}, NEW q \in Nat, NEW r \in 0..(n-1)
  PROVE  (n*q+r) % n = r
BY SMT

\* An index that is moved on by (i + 1) % n, as writeTo and readFrom are, stays
\* the remainder of a counter that only grows.
LEMMA ModSucc ==
  ASSUME NEW n \in Nat \ {0}, NEW a \in Nat
  PROVE  ((a % n) + 1) % n = (a+1) % n
<1> DEFINE q == a \div n
           r == a % n
<1>1. q \in Nat /\ r \in 0..(n-1) /\ a = n * q + r
  BY ModDiv, ModRange
<1> HIDE DEF q, r
<1>2. CASE r + 1 < n
  <2>1. a + 1 = n * q + (r + 1) /\ r + 1 \in 0..(n-1)
    BY <1>1, <1>2, SMT
  <2>2. (a + 1) % n = r + 1
    BY <2>1, <1>1, ModUnique
  <2>3. (n * 0 + (r + 1)) % n = r + 1
    BY <2>1, ModUnique
  <2>4. n * 0 + (r + 1) = r + 1
    BY <1>1, SMT
  <2> QED BY <2>2, <2>3, <2>4 DEF r
<1>3. CASE r + 1 = n
  <2>1. a + 1 = n * (q + 1) + 0
    BY <1>1, <1>3, SMT
  <2>2. (a + 1) % n = 0
    BY <2>1, <1>1, ModUnique
  <2>3. (n * 1 + 0) % n = 0 /\ n * 1 + 0 = n
    BY ModUnique, SMT
  <2> QED BY <2>2, <2>3, <1>3 DEF r
<1> QED BY <1>1, <1>2, <1>3, SMT

\* The place that lies b further than that of counter a is that of a + b.
LEMMA ModAdd ==
  ASSUME NEW n \in Nat \ {0}, NEW a \in Nat, NEW b \in Nat
  PROVE  ((a % n) + b) % n = (a + b) % n
<1> DEFINE q == a \div n
           r == a % n
           q2 == (r + b) \div n
           r2 == (r + b) % n
<1>1. q \in Nat /\ r \in 0..(n-1) /\ a = n * q + r
  BY ModDiv, ModRange
<1>2. q2 \in Nat /\ r2 \in 0..(n-1) /\ r + b = n * q2 + r2
  <2>1. r + b \in Nat
    BY <1>1
  <2> HIDE DEF q, r
  <2> QED BY <2>1, ModDiv, ModRange
<1> HIDE DEF q, r, q2, r2
<1>3. a + b = n * (q + q2) + r2
  <2>1. n * (q + q2) = n * q + n * q2
    BY <1>1, <1>2, SMT
  <2> QED BY <2>1, <1>1, <1>2, SMT
<1>4. (a + b) % n = r2
  <2>1. q + q2 \in Nat
    BY <1>1, <1>2
  <2> QED BY <2>1, <1>2, <1>3, ModUnique
<1> QED BY <1>4 DEF r, r2

\* Counters less than n apart fall on different places of a ring of n.
LEMMA ModApart ==
  ASSUME NEW n \in Nat \ {0}, NEW a \in Nat, NEW b \in Nat, a < b, b - a < n
  PROVE  a % n # b % n
<1> DEFINE qa == a \div n
           qb == b \div n
           r == a % n
<1>1. qa \in Nat /\ r \in 0..(n-1) /\ a = n * qa + r
  BY ModDiv, ModRange
<1> SUFFICES ASSUME b % n = r PROVE FALSE
  OBVIOUS
<1>2. qb \in Nat /\ b = n * qb + r
  BY ModDiv
<1> HIDE DEF qa, qb, r
<1>3. n * qa < n * qb /\ n * qb - n * qa < n
  BY <1>1, <1>2, SMT
<1>4. CASE qa >= qb
  <2>1. n * qa >= n * qb
    BY <1>1, <1>2, <1>4, SMT
  <2> QED BY <2>1, <1>3, <1>1, <1>2, SMT
<1>5. CASE qb >= qa + 1
  <2>1. n * qb >= n * (qa + 1)
    BY <1>1, <1>2, <1>5, SMT
  <2>2. n * (qa + 1) = n * qa + n
    BY <1>1, SMT
  <2> QED BY <2>1, <2>2, <1>3, <1>1, <1>2, SMT
<1> QED BY <1>1, <1>2, <1>4, <1>5, SMT

-----------------------------------------------------------------------------
\* The count is a natural number, and not 0 if somebody is there.
LEMMA CountType ==
  ASSUME NEW P, IsFiniteSet(P), NEW f, NEW L
  PROVE  /\ CountAt(P, f, L) \in Nat
         /\ \A p \in P : f[p] \in L => CountAt(P, f, L) > 0
<1> DEFINE A == {x \in P : f[x] \in L}
<1>1. IsFiniteSet(A)
  <2>1. A \subseteq P
    OBVIOUS
  <2> QED BY <2>1, FS_Subset
<1>2. Cardinality(A) \in Nat
  BY <1>1, FS_CardinalityType
<1>3. ASSUME NEW p \in P, f[p] \in L PROVE Cardinality(A) > 0
  <2>1. A # {}
    BY <1>3
  <2>2. Cardinality(A) # 0
    BY <1>1, <2>1, FS_EmptySet
  <2> QED BY <1>2, <2>2
<1> QED BY <1>2, <1>3 DEF CountAt

\* Where at most one process is, two processes are the same.
LEMMA CountUnique ==
  ASSUME NEW P, IsFiniteSet(P), NEW f, NEW L, CountAt(P, f, L) <= 1,
         NEW p \in P, NEW q \in P, f[p] \in L, f[q] \in L
  PROVE  p = q
<1> DEFINE A == {x \in P : f[x] \in L}
<1>1. IsFiniteSet(A)
  <2>1. A \subseteq P
    OBVIOUS
  <2> QED BY <2>1, FS_Subset
<1>2. Cardinality(A) = 1
  <2>1. CountAt(P, f, L) \in Nat /\ CountAt(P, f, L) > 0
    BY CountType
  <2>2. CountAt(P, f, L) = 1
    BY <2>1
  <2> QED BY <2>2 DEF CountAt
<1>3. p \in A /\ q \in A
  OBVIOUS
<1> HIDE DEF A
<1>4. PICK x : A = {x}
  BY <1>1, <1>2, FS_Singleton
<1> QED BY <1>3, <1>4

\* In the step from f to g, process p of P moves to the label to. The lemmas are
\* cited with MovesOne unexpanded.
MovesOne(P, X, f, p, to, g) == f \in [P -> X] /\ p \in P /\ g = [f EXCEPT ![p] = to]

One(L, l) == IF l \in L THEN 1 ELSE 0

\* When one process moves, the count changes by that process alone.
LEMMA CountMove ==
  ASSUME NEW P, IsFiniteSet(P), NEW X, NEW f, NEW p, NEW to, NEW g,
         MovesOne(P, X, f, p, to, g), NEW L
  PROVE  CountAt(P, g, L) = CountAt(P, f, L) + One(L, to) - One(L, f[p])
<1> USE DEF MovesOne, One
<1> DEFINE A == {x \in P : f[x] \in L}
           B == {x \in P : g[x] \in L}
           R == {x \in P : x # p /\ f[x] \in L}
<1>1. IsFiniteSet(A) /\ IsFiniteSet(B) /\ IsFiniteSet(R)
  <2>1. A \subseteq P /\ B \subseteq P /\ R \subseteq P
    OBVIOUS
  <2> QED BY <2>1, FS_Subset
<1>2. p \notin R /\ Cardinality(R) \in Nat
  BY <1>1, FS_CardinalityType
<1>3. Cardinality(R \cup {p}) = Cardinality(R) + 1
  BY <1>1, <1>2, FS_AddElement
<1>4. A = IF f[p] \in L THEN R \cup {p} ELSE R
  OBVIOUS
<1>5. B = IF to \in L THEN R \cup {p} ELSE R
  OBVIOUS
<1>6. Cardinality(A) = Cardinality(R) + (IF f[p] \in L THEN 1 ELSE 0)
  <2> HIDE DEF A, R
  <2> QED BY <1>2, <1>3, <1>4
<1>7. Cardinality(B) = Cardinality(R) + (IF to \in L THEN 1 ELSE 0)
  <2> HIDE DEF B, R
  <2> QED BY <1>2, <1>3, <1>5
<1> HIDE DEF A, B, R
<1>8. Cardinality(B) = Cardinality(A) + (IF to \in L THEN 1 ELSE 0)
                         - (IF f[p] \in L THEN 1 ELSE 0)
  BY <1>2, <1>6, <1>7
<1> QED BY <1>8 DEF CountAt, A, B

-----------------------------------------------------------------------------
-----------------------------------------------------------------------------
(* The waiting-room queue is a FIFO queue, for any size and any clients,     *)
(* although front and end share a slot when it holds none or one.            *)
\* A queue of an array of size slots; Queues says in addition that n <= size.
Rings(Pids, size) ==
  [front : 0..(size - 1), end : 0..(size - 1), size : {size}, n : Nat,
   queue : [0..(size - 1) -> [id : 0..(size - 1), pid : Pids \cup {NoPid}]]]

\* The last entry is where end points, and so is front in a queue of none or one.
Linked(q) == q.end = (q.front + (IF q.n = 0 THEN 0 ELSE q.n - 1)) % q.size

\* The parts of a queue of Rings.
LEMMA RingParts ==
  ASSUME NEW size \in Nat \ {0}, NEW Pids, NEW q \in Rings(Pids, size)
  PROVE  /\ q.front \in 0..(size - 1) /\ q.end \in 0..(size - 1)
         /\ q.size = size /\ q.n \in Nat
         /\ q.queue \in [0..(size - 1) -> [id : 0..(size - 1), pid : Pids \cup {NoPid}]]
BY DEF Rings

\* enqueue keeps the type and counts the client.
LEMMA EnqueueType ==
  ASSUME NEW size \in Nat \ {0}, NEW Pids, NEW q \in Rings(Pids, size), NEW pid \in Pids
  PROVE  /\ EnqueueSlot(q) \in 0..(size - 1)
         /\ Enqueue(q, pid) \in Rings(Pids, size)
         /\ Enqueue(q, pid).n = q.n + 1
<1> DEFINE slot == EnqueueSlot(q)
           entry == Slot(slot, pid)
           end == IF q.n = 0 THEN q.end ELSE slot
           Index == 0..(size - 1)
           Arrays == [Index -> [id : Index, pid : Pids \cup {NoPid}]]
<1>1. slot \in Index
  <2>1. (q.end + 1) % size \in 0..(size - 1)
    <3>1. q.end + 1 \in Nat
      BY RingParts
    <3> QED BY <3>1, ModRange
  <2> QED BY <2>1, RingParts DEF EnqueueSlot
<1>2. end \in Index
  BY <1>1, RingParts
<1>3. [q.queue EXCEPT ![slot] = entry] \in Arrays
  BY <1>1, RingParts DEF Slot
<1>4. Rings(Pids, size) =
        [front : Index, end : Index, size : {size}, n : Nat, queue : Arrays]
  BY DEF Rings
<1>5. Enqueue(q, pid) = [q EXCEPT !.n = @ + 1, !.end = end, !.queue[slot] = entry]
  BY DEF Enqueue
<1>6. q.n + 1 \in Nat
  BY RingParts
<1>7. q \in [front : Index, end : Index, size : {size}, n : Nat, queue : Arrays]
  BY <1>4
<1> HIDE DEF Index, Arrays, end, entry, slot
<1>8. Enqueue(q, pid) \in Rings(Pids, size)
  BY <1>2, <1>3, <1>4, <1>5, <1>6, <1>7
<1>9. Enqueue(q, pid).n = q.n + 1
  BY <1>5, <1>7
<1> QED BY <1>1, <1>8, <1>9 DEF slot, Index

\* And its other fields.
LEMMA EnqueueParts ==
  ASSUME NEW size \in Nat \ {0}, NEW Pids, NEW q \in Rings(Pids, size), NEW pid \in Pids
  PROVE  /\ Enqueue(q, pid).front = q.front
         /\ Enqueue(q, pid).size = size
         /\ Enqueue(q, pid).end = IF q.n = 0 THEN q.end ELSE EnqueueSlot(q)
         /\ Enqueue(q, pid).queue =
              [q.queue EXCEPT ![EnqueueSlot(q)] = Slot(EnqueueSlot(q), pid)]
<1> DEFINE slot == EnqueueSlot(q)
<1>1. Enqueue(q, pid) =
        [q EXCEPT !.n = @ + 1, !.end = IF q.n = 0 THEN @ ELSE slot,
                  !.queue[slot] = Slot(slot, pid)]
  BY DEF Enqueue
<1> HIDE DEF slot
<1>2. /\ Enqueue(q, pid).front = q.front
      /\ Enqueue(q, pid).size = q.size
      /\ Enqueue(q, pid).end = IF q.n = 0 THEN q.end ELSE slot
      /\ Enqueue(q, pid).queue = [q.queue EXCEPT ![slot] = Slot(slot, pid)]
  BY <1>1 DEF Rings
<1> QED BY <1>2, RingParts DEF slot

\* dequeue, field by field.
LEMMA DequeueParts ==
  ASSUME NEW size \in Nat \ {0}, NEW Pids, NEW q \in Rings(Pids, size), q.n > 0
  PROVE  /\ Dequeued(q) \in [id : 0..(size - 1), pid : Pids \cup {NoPid}]
         /\ Dequeue(q) \in Rings(Pids, size)
         /\ Dequeue(q).n = q.n - 1
         /\ Dequeue(q).front = IF q.n <= 1 THEN q.front ELSE (q.front + 1) % size
         /\ Dequeue(q).size = size
         /\ Dequeue(q).end = q.end
         /\ Dequeue(q).queue = q.queue
<1>1. (q.front + 1) % size \in 0..(size - 1)
  <2>1. q.front + 1 \in Nat
    BY RingParts
  <2> QED BY <2>1, ModRange
<1>2. Dequeue(q) =
        [q EXCEPT !.n = @ - 1, !.front = IF q.n <= 1 THEN @ ELSE (@ + 1) % size]
  BY RingParts DEF Dequeue
<1>3. (IF q.n <= 1 THEN q.front ELSE (q.front + 1) % size) \in 0..(size - 1)
  BY <1>1, RingParts
<1>4. q.n - 1 \in Nat
  BY RingParts
<1>5. Dequeue(q) \in Rings(Pids, size)
  BY <1>2, <1>3, <1>4 DEF Rings
<1>6. /\ Dequeue(q).n = q.n - 1
      /\ Dequeue(q).front = IF q.n <= 1 THEN q.front ELSE (q.front + 1) % size
      /\ Dequeue(q).size = q.size
      /\ Dequeue(q).end = q.end
      /\ Dequeue(q).queue = q.queue
  BY <1>2 DEF Rings
<1>7. Dequeued(q) \in [id : 0..(size - 1), pid : Pids \cup {NoPid}]
  BY RingParts DEF Dequeued
<1> QED BY <1>5, <1>6, <1>7, RingParts

-----------------------------------------------------------------------------
\* The contents are a sequence of n pids.
LEMMA ContentsSeq ==
  ASSUME NEW size \in Nat \ {0}, NEW Pids, NEW q \in Rings(Pids, size)
  PROVE  /\ Contents(q) \in Seq(Pids \cup {NoPid}) /\ Len(Contents(q)) = q.n
         /\ \A i \in 1..q.n : Contents(q)[i] = q.queue[(q.front + i - 1) % size].pid
<1>1. \A i \in 1..q.n : (q.front + i - 1) % size \in 0..(size - 1)
  <2> TAKE i \in 1..q.n
  <2>1. q.front + i - 1 \in Nat
    BY RingParts
  <2> QED BY <2>1, ModRange
<1>2. \A i \in 1..q.n : q.queue[(q.front + i - 1) % size].pid \in Pids \cup {NoPid}
  <2> TAKE i \in 1..q.n
  <2> DEFINE x == (q.front + i - 1) % size
  <2>1. x \in 0..(size - 1)
    BY <1>1
  <2> HIDE DEF x
  <2>2. q.queue[x] \in [id : 0..(size - 1), pid : Pids \cup {NoPid}]
    BY <2>1, RingParts
  <2>3. q.queue[x].pid \in Pids \cup {NoPid}
    BY <2>2
  <2> QED BY <2>3 DEF x
<1>3. q.size = size /\ q.n \in Nat
  BY RingParts
<1>4. Contents(q) = [i \in 1..q.n |-> q.queue[(q.front + i - 1) % size].pid]
  BY <1>3 DEF Contents
<1> QED BY <1>2, <1>3, <1>4

\* The slot of the next client follows those of the n clients in the queue.
LEMMA EnqueueSlotFollows ==
  ASSUME NEW size \in Nat \ {0}, NEW Pids, NEW q \in Rings(Pids, size), Linked(q)
  PROVE  EnqueueSlot(q) = (q.front + q.n) % size
<1>1. q.front \in Nat /\ q.front \in 0..(size - 1) /\ q.n \in Nat /\ q.size = size
  BY RingParts
<1>2. CASE q.n = 0
  <2>1. q.front % size = q.front
    <3>1. (size * 0 + q.front) % size = q.front
      BY <1>1, ModUnique
    <3>2. size * 0 + q.front = q.front
      BY <1>1
    <3> QED BY <3>1, <3>2
  <2> QED BY <1>2, <2>1, <1>1 DEF EnqueueSlot
<1>3. CASE q.n > 0
  <2>1. q.end = (q.front + (q.n - 1)) % size
    BY <1>1, <1>3 DEF Linked
  <2>2. q.front + (q.n - 1) \in Nat /\ (q.front + (q.n - 1)) + 1 = q.front + q.n
    BY <1>1, <1>3
  <2>3. (q.end + 1) % size = (q.front + q.n) % size
    BY <2>1, <2>2, ModSucc
  <2> QED BY <1>3, <2>3, <1>1 DEF EnqueueSlot
<1> QED BY <1>1, <1>2, <1>3

\* enqueue appends the client and keeps the queue linked.
LEMMA EnqueueAppends ==
  ASSUME NEW size \in Nat \ {0}, NEW Pids, NEW q \in Rings(Pids, size), NEW pid \in Pids,
         Linked(q), q.n < size
  PROVE  /\ Linked(Enqueue(q, pid))
         /\ Contents(Enqueue(q, pid)) = Append(Contents(q), pid)
<1> DEFINE r == Enqueue(q, pid)
           slot == EnqueueSlot(q)
<1>1. /\ r \in Rings(Pids, size) /\ r.n = q.n + 1 /\ r.front = q.front /\ r.size = size
      /\ r.end = IF q.n = 0 THEN q.end ELSE slot
      /\ r.queue = [q.queue EXCEPT ![slot] = Slot(slot, pid)]
      /\ slot \in 0..(size - 1)
  BY EnqueueType, EnqueueParts
<1>2. /\ q.front \in Nat /\ q.front \in 0..(size - 1) /\ q.n \in Nat /\ q.size = size
      /\ DOMAIN q.queue = 0..(size - 1)
  BY RingParts
<1>3. slot = (q.front + q.n) % size
  BY EnqueueSlotFollows
<1> HIDE DEF r, slot
<1>4. Linked(r)
  <2>1. CASE q.n = 0
    <3>1. r.end = (q.front + 0) % size
      BY <1>1, <1>2, <2>1 DEF Linked
    <3> QED BY <3>1, <1>1, <1>2, <2>1 DEF Linked
  <2>2. CASE q.n > 0
    <3>1. r.end = (q.front + q.n) % size
      BY <1>1, <1>2, <1>3, <2>2
    <3>2. (IF r.n = 0 THEN 0 ELSE r.n - 1) = q.n
      BY <1>1, <1>2
    <3> QED BY <3>1, <3>2, <1>1 DEF Linked
  <2> QED BY <1>2, <2>1, <2>2
<1>8. \A j \in 1..r.n : Contents(r)[j] = r.queue[(r.front + j - 1) % size].pid
  <2>1. r \in Rings(Pids, size)
    BY <1>1
  <2> QED BY <2>1, ContentsSeq
<1>5. \A i \in 1..q.n : Contents(r)[i] = Contents(q)[i]
  <2> TAKE i \in 1..q.n
  <2>1. (q.front + i - 1) % size # slot
    <3>1. /\ q.front + i - 1 \in Nat /\ q.front + q.n \in Nat
          /\ q.front + i - 1 < q.front + q.n
          /\ (q.front + q.n) - (q.front + i - 1) < size
      BY <1>2
    <3> QED BY <3>1, <1>3, ModApart
  <2>2. r.queue[(q.front + i - 1) % size] = q.queue[(q.front + i - 1) % size]
    <3>1. q.front + i - 1 \in Nat
      BY <1>2
    <3>2. (q.front + i - 1) % size \in 0..(size - 1)
      BY <3>1, ModRange
    <3> QED BY <3>2, <2>1, <1>1, <1>2
  <2>3. i \in 1..r.n
    BY <1>1, <1>2
  <2>4. Contents(r)[i] = r.queue[(r.front + i - 1) % size].pid
    BY <2>3, <1>8
  <2>5. Contents(q)[i] = q.queue[(q.front + i - 1) % size].pid
    BY ContentsSeq
  <2> QED BY <2>2, <2>4, <2>5, <1>1
<1>6. Contents(r)[q.n + 1] = pid
  <2>1. q.n + 1 \in 1..r.n /\ q.front + (q.n + 1) - 1 = q.front + q.n
    BY <1>1, <1>2
  <2>2. Contents(r)[q.n + 1] = r.queue[slot].pid
    <3>2. Contents(r)[q.n + 1] = r.queue[(q.front + (q.n + 1) - 1) % size].pid
      BY <2>1, <1>8, <1>1
    <3> QED BY <2>1, <3>2, <1>3
  <2>3. r.queue[slot] = Slot(slot, pid)
    BY <1>1, <1>2
  <2> QED BY <2>2, <2>3 DEF Slot
<1>7. Contents(r) = Append(Contents(q), pid)
  <2> DEFINE s == Contents(q)
             t == Contents(r)
  <2>1. /\ s \in Seq(Pids \cup {NoPid}) /\ Len(s) = q.n
        /\ t \in Seq(Pids \cup {NoPid}) /\ Len(t) = q.n + 1
    BY <1>1, ContentsSeq
  <2>2. (\A i \in 1..q.n : t[i] = s[i]) /\ t[q.n + 1] = pid
    BY <1>5, <1>6
  <2> HIDE DEF s, t
  <2>3. Append(s, pid) \in Seq(Pids \cup {NoPid}) /\ Len(Append(s, pid)) = q.n + 1
    BY <2>1
  <2>4. \A i \in 1..(q.n + 1) : Append(s, pid)[i] = t[i]
    BY <2>1, <2>2, <1>2
  <2>5. t = Append(s, pid)
    BY <2>1, <2>3, <2>4, SeqEqual
  <2> QED BY <2>5 DEF s, t
<1> QED BY <1>4, <1>7 DEF r

\* dequeue returns the head, leaves the tail and keeps the queue linked.
LEMMA DequeueTakesHead ==
  ASSUME NEW size \in Nat \ {0}, NEW Pids, NEW q \in Rings(Pids, size), Linked(q), q.n > 0
  PROVE  /\ Linked(Dequeue(q))
         /\ Contents(q) # <<>> /\ Dequeued(q).pid = Head(Contents(q))
         /\ Contents(Dequeue(q)) = Tail(Contents(q))
<1> DEFINE r == Dequeue(q)
<1>1. /\ r \in Rings(Pids, size) /\ r.n = q.n - 1 /\ r.size = size
      /\ r.front = IF q.n <= 1 THEN q.front ELSE (q.front + 1) % size
      /\ r.end = q.end /\ r.queue = q.queue
  BY DequeueParts
<1>2. q.front \in Nat /\ q.front \in 0..(size - 1) /\ q.n \in Nat /\ q.size = size
  BY RingParts
<1>3. q.front % size = q.front
  <2>1. (size * 0 + q.front) % size = q.front
    BY <1>2, ModUnique
  <2>2. size * 0 + q.front = q.front
    BY <1>2
  <2> QED BY <2>1, <2>2
<1> HIDE DEF r
<1>4. q.end = (q.front + (q.n - 1)) % size
  BY <1>2 DEF Linked
<1>5. q.n > 1 => \A b \in Nat : (r.front + b) % size = ((q.front + 1) + b) % size
  <2> SUFFICES ASSUME q.n > 1, NEW b \in Nat
               PROVE  (r.front + b) % size = ((q.front + 1) + b) % size
    OBVIOUS
  <2>1. r.front = (q.front + 1) % size /\ q.front + 1 \in Nat
    BY <1>1, <1>2
  <2>2. (((q.front + 1) % size) + b) % size = ((q.front + 1) + b) % size
    BY <2>1, ModAdd
  <2> QED BY <2>1, <2>2
<1>6. Linked(r)
  <2>1. CASE q.n = 1
    <3>1. (IF r.n = 0 THEN 0 ELSE r.n - 1) = 0 /\ r.front = q.front /\ q.n - 1 = 0
      BY <1>1, <1>2, <2>1
    <3> QED BY <1>1, <1>4, <3>1 DEF Linked
  <2>2. CASE q.n > 1
    <3>1. (IF r.n = 0 THEN 0 ELSE r.n - 1) = q.n - 2 /\ q.n - 2 \in Nat
      BY <1>1, <1>2, <2>2
    <3>2. (r.front + (q.n - 2)) % size = ((q.front + 1) + (q.n - 2)) % size
      BY <1>5, <2>2, <3>1
    <3>3. (q.front + 1) + (q.n - 2) = q.front + (q.n - 1)
      BY <1>2
    <3> QED BY <1>1, <1>4, <3>1, <3>2, <3>3 DEF Linked
  <2> QED BY <1>2, <2>1, <2>2
<1>7. Contents(q)[1] = Dequeued(q).pid
  <2>1. 1 \in 1..q.n /\ q.front + 1 - 1 = q.front
    BY <1>2
  <2>2. Contents(q)[1] = q.queue[(q.front + 1 - 1) % size].pid
    BY <2>1, ContentsSeq
  <2> QED BY <2>1, <2>2, <1>3 DEF Dequeued
<1>8. \A i \in 1..(q.n - 1) : Contents(r)[i] = Contents(q)[i + 1]
  <2> TAKE i \in 1..(q.n - 1)
  <2>1. i \in 1..r.n /\ i + 1 \in 1..q.n /\ q.n > 1 /\ i - 1 \in Nat
    BY <1>1, <1>2
  <2>2. Contents(r)[i] = q.queue[(r.front + i - 1) % size].pid
    <3>1. \A j \in 1..r.n : Contents(r)[j] = r.queue[(r.front + j - 1) % size].pid
      BY <1>1, ContentsSeq
    <3> QED BY <2>1, <3>1, <1>1
  <2>3. Contents(q)[i + 1] = q.queue[(q.front + (i + 1) - 1) % size].pid
    BY <2>1, ContentsSeq
  <2>4. (r.front + (i - 1)) % size = ((q.front + 1) + (i - 1)) % size
    BY <1>5, <2>1
  <2>5. r.front \in Nat
    <3>1. r \in Rings(Pids, size)
      BY <1>1
    <3>2. r.front \in 0..(size - 1)
      BY <3>1, RingParts
    <3> QED BY <3>2
  <2>6. r.front + i - 1 = r.front + (i - 1) /\ (q.front + 1) + (i - 1) = q.front + (i + 1) - 1
    BY <1>2, <2>5
  <2> QED BY <2>2, <2>3, <2>4, <2>6
<1>9. Contents(q) # <<>> /\ Head(Contents(q)) = Contents(q)[1]
      /\ Contents(r) = Tail(Contents(q))
  <2> DEFINE s == Contents(q)
             t == Contents(r)
  <2>1. /\ s \in Seq(Pids \cup {NoPid}) /\ Len(s) = q.n
        /\ t \in Seq(Pids \cup {NoPid}) /\ Len(t) = q.n - 1
    BY <1>1, ContentsSeq
  <2>2. \A i \in 1..(q.n - 1) : t[i] = s[i + 1]
    BY <1>8
  <2> HIDE DEF s, t
  <2>3. s # <<>> /\ Head(s) = s[1]
    BY <2>1, <1>2
  <2>4. Tail(s) \in Seq(Pids \cup {NoPid}) /\ Len(Tail(s)) = q.n - 1
    BY <2>1, <2>3
  <2>5. \A i \in 1..(q.n - 1) : Tail(s)[i] = t[i]
    BY <2>1, <2>2, <2>3, <1>2
  <2>6. t = Tail(s)
    BY <2>1, <2>4, <2>5, SeqEqual
  <2> QED BY <2>3, <2>6 DEF s, t
<1> QED BY <1>6, <1>7, <1>9 DEF r
-----------------------------------------------------------------------------
\* The slots of the clients in the queue, and that each entry has its own as id.
Slots(q) == {(q.front + k) % q.size : k \in 0..(q.n - 1)}
Named(q) == \A i \in Slots(q) : q.queue[i].id = i

\* enqueue gives the client a slot that nobody in the queue has.
LEMMA EnqueueTakesSlot ==
  ASSUME NEW size \in Nat \ {0}, NEW Pids, NEW q \in Rings(Pids, size), NEW pid \in Pids,
         Linked(q), q.n < size, Named(q)
  PROVE  /\ EnqueueSlot(q) \notin Slots(q)
         /\ Slots(Enqueue(q, pid)) = Slots(q) \cup {EnqueueSlot(q)}
         /\ Named(Enqueue(q, pid))
<1> DEFINE r == Enqueue(q, pid)
           slot == EnqueueSlot(q)
<1>1. /\ r.n = q.n + 1 /\ r.front = q.front /\ r.size = size /\ slot \in 0..(size - 1)
      /\ r.queue = [q.queue EXCEPT ![slot] = Slot(slot, pid)]
  <2>1. r.n = q.n + 1 /\ slot \in 0..(size - 1)
    BY EnqueueType
  <2>2. /\ r.front = q.front /\ r.size = size
        /\ r.queue = [q.queue EXCEPT ![slot] = Slot(slot, pid)]
    BY EnqueueParts
  <2> QED BY <2>1, <2>2
<1>2. q.front \in Nat /\ q.n \in Nat /\ q.size = size /\ DOMAIN q.queue = 0..(size - 1)
  BY RingParts
<1>3. slot = (q.front + q.n) % size
  BY EnqueueSlotFollows
<1> HIDE DEF r, slot
<1>4. slot \notin Slots(q)
  <2> SUFFICES ASSUME NEW k \in 0..(q.n - 1) PROVE (q.front + k) % size # slot
    BY <1>2 DEF Slots
  <2>1. q.front \in Nat /\ q.n \in Nat
    BY <1>2
  <2>2. k \in Nat /\ k < q.n
    BY <2>1
  <2>3. q.front + k \in Nat /\ q.front + q.n \in Nat /\ q.front + k < q.front + q.n
    BY <2>1, <2>2
  <2>4. (q.front + q.n) - (q.front + k) < size
    BY <2>1, <2>2
  <2> QED BY <2>3, <2>4, <1>3, ModApart
<1>5. Slots(r) = Slots(q) \cup {slot}
  <2>1. 0..(r.n - 1) = 0..(q.n - 1) \cup {q.n}
    BY <1>1, <1>2
  <2>2. Slots(r) = {(q.front + k) % size : k \in 0..(r.n - 1)}
    BY <1>1 DEF Slots
  <2>3. Slots(q) = {(q.front + k) % size : k \in 0..(q.n - 1)}
    BY <1>2 DEF Slots
  <2> QED BY <2>1, <2>2, <2>3, <1>3
<1>6. Named(r)
  <2> SUFFICES ASSUME NEW i \in Slots(r) PROVE r.queue[i].id = i
    BY DEF Named
  <2>1. CASE i = slot
    BY <2>1, <1>1, <1>2 DEF Slot
  <2>2. CASE i \in Slots(q) /\ i # slot
    <3>1. q.queue[i].id = i
      BY <2>2 DEF Named
    <3>2. r.queue[i] = q.queue[i]
      <4>1. i \in 0..(size - 1)
        <5>1. PICK k \in 0..(q.n - 1) : i = (q.front + k) % size
          BY <2>2, <1>2 DEF Slots
        <5>2. q.front + k \in Nat
          BY <1>2
        <5> QED BY <5>1, <5>2, ModRange
      <4> QED BY <4>1, <2>2, <1>1, <1>2
    <3> QED BY <3>1, <3>2
  <2> QED BY <2>1, <2>2, <1>5
<1> QED BY <1>4, <1>5, <1>6 DEF r, slot

\* dequeue returns the slot of the head, and the others stay.
LEMMA DequeueFreesSlot ==
  ASSUME NEW size \in Nat \ {0}, NEW Pids, NEW q \in Rings(Pids, size), Linked(q),
         q.n > 0, q.n <= size, Named(q)
  PROVE  /\ Dequeued(q).id \in Slots(q)
         /\ Slots(Dequeue(q)) = Slots(q) \ {Dequeued(q).id}
         /\ Named(Dequeue(q))
<1> DEFINE r == Dequeue(q)
<1>1. /\ r.n = q.n - 1 /\ r.size = size /\ r.queue = q.queue
      /\ r.front = IF q.n <= 1 THEN q.front ELSE (q.front + 1) % size
  BY DequeueParts
<1>2. q.front \in Nat /\ q.front \in 0..(size - 1) /\ q.n \in Nat /\ q.size = size
  BY RingParts
<1> HIDE DEF r
<1>3. q.front % size = q.front /\ q.front + 0 = q.front
  <2>1. (size * 0 + q.front) % size = q.front
    BY <1>2, ModUnique
  <2>2. size * 0 + q.front = q.front
    BY <1>2
  <2> QED BY <2>1, <2>2, <1>2
<1>4. Slots(q) = {(q.front + k) % size : k \in 0..(q.n - 1)}
  BY <1>2 DEF Slots
<1>5. q.front \in Slots(q)
  <2>1. 0 \in 0..(q.n - 1)
    BY <1>2
  <2> QED BY <2>1, <1>3, <1>4
<1>6. Dequeued(q).id = q.front
  BY <1>5 DEF Named, Dequeued
<1>7. Slots(r) = {(q.front + k) % size : k \in 1..(q.n - 1)}
  <2>1. CASE q.n = 1
    <3>1. 0..(r.n - 1) = {} /\ 1..(q.n - 1) = {}
      BY <2>1, <1>1
    <3> QED BY <3>1 DEF Slots
  <2>2. CASE q.n > 1
    <3>1. r.front = (q.front + 1) % size /\ q.front + 1 \in Nat
      BY <2>2, <1>1, <1>2
    <3>2. \A k \in Nat : (r.front + k) % size = (q.front + (k + 1)) % size
      <4> TAKE k \in Nat
      <4>1. (r.front + k) % size = ((q.front + 1) + k) % size
        BY <3>1, ModAdd
      <4>2. (q.front + 1) + k = q.front + (k + 1)
        BY <1>2
      <4> QED BY <4>1, <4>2
    <3>3. \A k \in 0..(r.n - 1) : k \in Nat /\ k + 1 \in 1..(q.n - 1)
      BY <1>1, <1>2
    <3>4. \A k \in 1..(q.n - 1) : k - 1 \in 0..(r.n - 1) /\ k - 1 \in Nat /\ (k - 1) + 1 = k
      BY <1>1, <1>2
    <3>5. Slots(r) = {(r.front + k) % size : k \in 0..(r.n - 1)}
      BY <1>1 DEF Slots
    <3>6. Slots(r) \subseteq {(q.front + k) % size : k \in 1..(q.n - 1)}
      BY <3>2, <3>3, <3>5
    <3>7. ASSUME NEW k \in 1..(q.n - 1) PROVE (q.front + k) % size \in Slots(r)
      <4>1. (r.front + (k - 1)) % size = (q.front + k) % size
        BY <3>2, <3>4
      <4> QED BY <4>1, <3>4, <3>5
    <3> QED BY <3>6, <3>7
  <2> QED BY <2>1, <2>2, <1>2
<1>8. \A k \in 1..(q.n - 1) : (q.front + k) % size # q.front
  <2> TAKE k \in 1..(q.n - 1)
  <2>1. /\ q.front + k \in Nat /\ q.front < q.front + k
        /\ (q.front + k) - q.front < size
    BY <1>2
  <2>2. q.front % size # (q.front + k) % size
    BY <2>1, <1>2, ModApart
  <2> QED BY <2>2, <1>3
<1>9. Slots(r) = Slots(q) \ {q.front}
  <2>1. 0..(q.n - 1) = {0} \cup 1..(q.n - 1)
    BY <1>2
  <2>2. (q.front + 0) % size = q.front
    BY <1>3
  <2> QED BY <2>1, <2>2, <1>4, <1>7, <1>8
<1>10. Named(r)
  BY <1>9, <1>1 DEF Named
<1> QED BY <1>5, <1>6, <1>9, <1>10 DEF r

-----------------------------------------------------------------------------
(* The shop. *)

\* Clients and barber between a WAIT and the SIGNAL that gives the token back.
RoomC == {"waitBS", "look", "wake_sigWR", "sit_sigWR", "full_sigBS", "full_sigWR",
          "sit_leave", "sit_sigWR2"}
RoomB == {"waitBS", "look", "sleep_sigWR", "call_sigWR"}
SleepC == {"look", "wake_sigWR", "wake_sigBS", "sit_sigWR", "sit_sigBS", "full_sigBS"}
SleepB == {"look", "sleep_sigWR", "sleep_sigBS", "call_sigWR", "call_sigBS"}

\* Clients that have still to announce themselves, and the barber until it takes
\* an announcement.
ComingC == {"wake_sigWR", "wake_sigBS", "wake_sigCR", "sit_sigWR", "sit_sigBS",
            "sit_sigCR"}
ComingB == {"sleep_sigWR", "sleep_sigBS", "sleep_waitCR",
            "call_sigWR", "call_sigBS", "call_waitCR"}

\* Clients on their way to the chair, and the barber until somebody sits in it.
BoundC == {"wake_sigWR", "wake_sigBS", "wake_sigCR", "sit_sigWR2", "chair"}
BoundB == ComingB \cup {"sleep_waitSeat", "call_invite", "call_waitSeat"}

\* Clients that were invited and hold their seat still, and the barber before it
\* invites.
CalledC == {"sit_waitWR", "sit_leave"}
CalledB == {"call_sigWR", "call_sigBS", "call_waitCR", "call_invite"}

ChairC == {"waitCut"}
CutB == {"sleep_cut", "call_cut"}

nRoom == CountAt(Clients, pc, RoomC)
nSleep == CountAt(Clients, pc, SleepC)
nComing == CountAt(Clients, pc, ComingC)
nBound == CountAt(Clients, pc, BoundC)
nCalled == CountAt(Clients, pc, CalledC)
nChair == CountAt(Clients, pc, ChairC)

bRoom == One(RoomB, bpc)
bSleep == One(SleepB, bpc)
bComing == One(ComingB, bpc)
bBound == One(BoundB, bpc)
bCalled == One(CalledB, bpc)
bCut == One(CutB, bpc)

tRoom == sem["WRSeats"]
tSleep == sem["BarberSleeps"]
tReady == sem["CustReady"]
tSeat == sem["BSSeat"]
tDone == sem["CutDone"]

queued == fifo.n
Flag == IF barberSleeps THEN 1 ELSE 0
Inviting == IF \E i \in 0..(N - 1) : invites[i] # 0 THEN 1 ELSE 0

\* The books of the shop: each of these sums stays while a client moves. Who has the
\* room and the flag; the seats; announcements that no seat in the queue stands for;
\* who is bound for the chair; who is called; the chairs no token has been given for.
inRoom == tRoom + nRoom
inSleep == tSleep + nSleep
places == free + Seats
announced == tReady + nComing + Flag - queued
bound == tSeat + nBound + (Seats - queued) + Flag
called == Seats - queued - Inviting - nCalled
seated == nChair - tSeat - tDone

books == <<inRoom, inSleep, places, announced, bound, called, seated>>

\* Where processes may be with the named semaphores of zad2 as well.
AnyClientLabel == ClientLabels \cup {"start", "opening", "failed", "forgotten", "ended"}
AnyBarberLabel == BarberLabels \cup WritingLabels \cup {"off", "opening", "closed"}

\* The types; that free and fifo.n are at most N follows from the accounts.
TypeInv ==
  /\ free \in Nat
  /\ barberSleeps \in BOOLEAN
  /\ fifo \in Rings(Clients, N) /\ Linked(fifo)
  /\ clientThatCame \in Clients \cup {NoPid}
  /\ sem \in [Semaphores -> Nat]
  /\ invites \in [0..(N - 1) -> Nat]
  /\ bpc \in AnyBarberLabel
  /\ toCut \in [id : 0..(N - 1), pid : Clients \cup {NoPid}]
  /\ pc \in [Clients -> AnyClientLabel]
  /\ myID \in [Clients -> 0..(N - 1)]
  /\ cutsNr \in [Clients -> 0..S]

\* One invitation at a time.
InviteInv ==
  /\ \A i \in 0..(N - 1) : invites[i] \in {0, 1}
  /\ \A i, j \in 0..(N - 1) : invites[i] # 0 /\ invites[j] # 0 => i = j

\* The flag is up only in an empty waiting room.
FlagLow == barberSleeps => Seats = 0

\* What the clients keep by themselves, wherever the barber is.
ShopInv == TypeInv /\ InviteInv /\ FlagLow /\ places = N /\ called >= 0

\* What the books say while the barber is at a label of its loop.
Accounts ==
  /\ inRoom = 1 - bRoom /\ inSleep = 1 - bSleep
  /\ places = N
  /\ announced = bComing /\ bound = bBound /\ called = bCalled
  /\ seated = bCut

FlagInv ==
  barberSleeps => Seats = 0 /\ bpc \in {"sleep_sigWR", "sleep_sigBS", "sleep_waitCR"}

\* A client that is in the shop or outside has a cut to get.
CutsInv == \A c \in Clients : pc[c] # "done" => cutsNr[c] > 0

IInv == TypeInv /\ InviteInv /\ Accounts /\ FlagInv

-----------------------------------------------------------------------------
\* The change of the counts when one client moves.
CountsMove(from, to) ==
  /\ nRoom' = nRoom + One(RoomC, to) - One(RoomC, from)
  /\ nSleep' = nSleep + One(SleepC, to) - One(SleepC, from)
  /\ nComing' = nComing + One(ComingC, to) - One(ComingC, from)
  /\ nBound' = nBound + One(BoundC, to) - One(BoundC, from)
  /\ nCalled' = nCalled + One(CalledC, to) - One(CalledC, from)
  /\ nChair' = nChair + One(ChairC, to) - One(ChairC, from)
  /\ Seats' = Seats + One(SeatLabels, to) - One(SeatLabels, from)

\* A client that moves changes each count by what its two labels are worth.
LEMMA ClientCounts ==
  ASSUME pc \in [Clients -> AnyClientLabel], NEW c \in Clients, NEW from, NEW to,
         ClientAt(c, from, to)
  PROVE  CountsMove(from, to)
<1>1. MovesOne(Clients, AnyClientLabel, pc, c, to, pc') /\ pc[c] = from
  BY DEF ClientAt, MovesOne
<1>2. IsFiniteSet(Clients)
  BY ClientsAssumption
<1> QED BY <1>1, <1>2, CountMove
    DEF CountsMove, nRoom, nSleep, nComing, nBound, nCalled, nChair, Seats

\* A client at one of the labels of a count makes it positive.
LEMMA ClientCounted ==
  ASSUME NEW c \in Clients, NEW L, pc[c] \in L
  PROVE  CountAt(Clients, pc, L) \in Nat /\ CountAt(Clients, pc, L) > 0
BY CountType, ClientsAssumption

CountsType ==
  /\ nRoom \in Nat /\ nSleep \in Nat /\ nComing \in Nat /\ nBound \in Nat
  /\ nCalled \in Nat /\ nChair \in Nat /\ Seats \in Nat

\* The counts are natural numbers.
LEMMA CountsAreNaturals == CountsType
BY CountType, ClientsAssumption
DEF CountsType, nRoom, nSleep, nComing, nBound, nCalled, nChair, Seats

\* While the barber moves the clients' counts stay, and the other way round.
LEMMA BarberCounts ==
  ASSUME pc' = pc
  PROVE  UNCHANGED <<nRoom, nSleep, nComing, nBound, nCalled, nChair, Seats>>
BY DEF nRoom, nSleep, nComing, nBound, nCalled, nChair, Seats

\* While the barber stays so does its share of the accounts.
LEMMA ClientOnes ==
  ASSUME bpc' = bpc
  PROVE  UNCHANGED <<bRoom, bSleep, bComing, bBound, bCalled, bCut>>
BY DEF bRoom, bSleep, bComing, bBound, bCalled, bCut

TokensType ==
  /\ tRoom \in Nat /\ tSleep \in Nat /\ tReady \in Nat /\ tSeat \in Nat /\ tDone \in Nat
  /\ bRoom \in {0, 1} /\ bSleep \in {0, 1} /\ bComing \in {0, 1} /\ bBound \in {0, 1}
  /\ bCalled \in {0, 1} /\ bCut \in {0, 1}
  /\ Flag \in {0, 1} /\ Inviting \in {0, 1} /\ queued \in Nat /\ free \in Nat

\* The types of the other terms of the books.
LEMMA TokensAreNaturals == TypeInv => TokensType
<1> SUFFICES ASSUME TypeInv PROVE TokensType
  OBVIOUS
<1>1. queued \in Nat /\ free \in Nat
  BY RingParts, NAssumption DEF TypeInv, queued
<1>2. tRoom \in Nat /\ tSleep \in Nat /\ tReady \in Nat /\ tSeat \in Nat /\ tDone \in Nat
  BY DEF TypeInv, Semaphores, tRoom, tSleep, tReady, tSeat, tDone
<1> QED BY <1>1, <1>2
    DEF TokensType, Flag, Inviting, One, bRoom, bSleep, bComing, bBound, bCalled, bCut

\* When the barber looks at the room nobody is called and everybody who sits is
\* in the queue.
LEMMA QuietAtLook ==
  ASSUME IInv, bpc \in {"waitWR", "waitBS", "look"}
  PROVE  queued = Seats /\ Flag = 0 /\ bBound = 0 /\ bCalled = 0 /\ bComing = 0
<1>1. bBound = 0 /\ bCalled = 0 /\ bComing = 0
  BY DEF One, BoundB, ComingB, CalledB, bBound, bCalled, bComing
<1>2. TokensType /\ Accounts
  BY TokensAreNaturals DEF IInv
<1> QED BY <1>1, <1>2, CountsAreNaturals
    DEF Accounts, announced, bound, called, CountsType, TokensType

-----------------------------------------------------------------------------
\* A semaphore call s moves d (-1 or 1) tokens of s.
On(s, t, d) == IF s = t THEN d ELSE 0

TokenMove(s, d) ==
  /\ tRoom' = tRoom + On(s, "WRSeats", d)
  /\ tSleep' = tSleep + On(s, "BarberSleeps", d)
  /\ tReady' = tReady + On(s, "CustReady", d)
  /\ tSeat' = tSeat + On(s, "BSSeat", d)
  /\ tDone' = tDone + On(s, "CutDone", d)

\* A call changes one semaphore by one.
LEMMA WaitMove ==
  ASSUME sem \in [Semaphores -> Nat], NEW s \in Semaphores, Wait(s)
  PROVE  TokenMove(s, -1) /\ sem' \in [Semaphores -> Nat] /\ sem[s] > 0
BY DEF Wait, TokenMove, On, Semaphores, tRoom, tSleep, tReady, tSeat, tDone

\* The other direction.
LEMMA SignalMove ==
  ASSUME sem \in [Semaphores -> Nat], NEW s \in Semaphores, Signal(s)
  PROVE  TokenMove(s, 1) /\ sem' \in [Semaphores -> Nat]
BY DEF Signal, TokenMove, On, Semaphores, tRoom, tSleep, tReady, tSeat, tDone

\* A client that goes from one label to another with a semaphore call changes
\* both sides of each account alike.
ClientBalanced(from, s, d, to) ==
  /\ On(s, "WRSeats", d) + One(RoomC, to) - One(RoomC, from) = 0
  /\ On(s, "BarberSleeps", d) + One(SleepC, to) - One(SleepC, from) = 0
  /\ One(SeatLabels, to) = One(SeatLabels, from)
  /\ On(s, "CustReady", d) + One(ComingC, to) - One(ComingC, from) = 0
  /\ On(s, "BSSeat", d) + One(BoundC, to) - One(BoundC, from) = 0
  /\ One(CalledC, to) = One(CalledC, from)
  /\ On(s, "BSSeat", d) + On(s, "CutDone", d) = One(ChairC, to) - One(ChairC, from)

\* And so does the barber.
BarberBalanced(from, s, d, to) ==
  /\ On(s, "WRSeats", d) + One(RoomB, to) - One(RoomB, from) = 0
  /\ On(s, "BarberSleeps", d) + One(SleepB, to) - One(SleepB, from) = 0
  /\ On(s, "CustReady", d) = One(ComingB, to) - One(ComingB, from)
  /\ On(s, "BSSeat", d) = One(BoundB, to) - One(BoundB, from)
  /\ One(CalledB, to) = One(CalledB, from)
  /\ On(s, "BSSeat", d) + On(s, "CutDone", d) + One(CutB, to) - One(CutB, from) = 0

\* The balance of each call of a client: label and token change by the same.
LEMMA ClientBalance ==
  ASSUME TypeInv, NEW from, NEW to, NEW s, NEW d \in {-1, 1},
         CountsMove(from, to), TokenMove(s, d), ClientBalanced(from, s, d, to),
         UNCHANGED <<free, queued, Flag, Inviting>>
  PROVE  UNCHANGED books /\ Seats' = Seats
<1>1. TokensType /\ CountsType
  BY TokensAreNaturals, CountsAreNaturals
<1>2. \A L, l : One(L, l) \in Int
  BY DEF One
<1>3. \A t : On(s, t, d) \in Int
  BY DEF On
<1>4. inRoom' = inRoom
  <2>1. /\ tRoom' = tRoom + On(s, "WRSeats", d)
        /\ nRoom' = nRoom + One(RoomC, to) - One(RoomC, from)
        /\ On(s, "WRSeats", d) + One(RoomC, to) - One(RoomC, from) = 0
    BY DEF TokenMove, CountsMove, ClientBalanced
  <2>2. tRoom \in Int /\ nRoom \in Int
    BY <1>1 DEF TokensType, CountsType
  <2> QED BY <2>1, <2>2, <1>2, <1>3 DEF inRoom
<1>5. inSleep' = inSleep
  <2>1. /\ tSleep' = tSleep + On(s, "BarberSleeps", d)
        /\ nSleep' = nSleep + One(SleepC, to) - One(SleepC, from)
        /\ On(s, "BarberSleeps", d) + One(SleepC, to) - One(SleepC, from) = 0
    BY DEF TokenMove, CountsMove, ClientBalanced
  <2>2. tSleep \in Int /\ nSleep \in Int
    BY <1>1 DEF TokensType, CountsType
  <2> QED BY <2>1, <2>2, <1>2, <1>3 DEF inSleep
<1>6. Seats' = Seats
  BY <1>1, <1>2 DEF CountsType, CountsMove, ClientBalanced
<1>7. places' = places
  BY <1>6 DEF places
<1>8. announced' = announced
  BY <1>1, <1>2, <1>3
  DEF TokensType, CountsType, CountsMove, TokenMove, ClientBalanced, announced
<1>9. tSeat' + nBound' = tSeat + nBound
  <2>1. tSeat' = tSeat + On(s, "BSSeat", d)
    BY DEF TokenMove
  <2>2. nBound' = nBound + One(BoundC, to) - One(BoundC, from)
    BY DEF CountsMove
  <2>3. On(s, "BSSeat", d) + One(BoundC, to) - One(BoundC, from) = 0
    BY DEF ClientBalanced
  <2>4. tSeat \in Int /\ nBound \in Int
    BY <1>1 DEF TokensType, CountsType
  <2> QED BY <2>1, <2>2, <2>3, <2>4, <1>2, <1>3
<1>10. bound' = bound
  BY <1>6, <1>9 DEF bound
<1>11. nCalled' = nCalled
  BY <1>1, <1>2 DEF CountsType, CountsMove, ClientBalanced
<1>12. called' = called
  BY <1>6, <1>11 DEF called
<1>13. seated' = seated
  BY <1>1, <1>2, <1>3
  DEF TokensType, CountsType, CountsMove, TokenMove, ClientBalanced, seated
<1> QED BY <1>4, <1>5, <1>6, <1>7, <1>8, <1>10, <1>12, <1>13 DEF books

\* And of each call of the barber.
LEMMA BarberBalance ==
  ASSUME IInv, NEW from, NEW to, NEW s, NEW d \in {-1, 1}, BarberAt(from, to),
         pc' = pc, TokenMove(s, d), BarberBalanced(from, s, d, to),
         UNCHANGED <<free, queued, Flag, Inviting>>
  PROVE  Accounts'
<1>1. TokensType /\ Accounts /\ CountsType
  BY TokensAreNaturals, CountsAreNaturals DEF IInv
<1>2. UNCHANGED <<nRoom, nSleep, nComing, nBound, nCalled, nChair, Seats>>
  BY BarberCounts
<1>3. /\ bRoom' = One(RoomB, to) /\ bRoom = One(RoomB, from)
      /\ bSleep' = One(SleepB, to) /\ bSleep = One(SleepB, from)
      /\ bComing' = One(ComingB, to) /\ bComing = One(ComingB, from)
      /\ bBound' = One(BoundB, to) /\ bBound = One(BoundB, from)
      /\ bCalled' = One(CalledB, to) /\ bCalled = One(CalledB, from)
      /\ bCut' = One(CutB, to) /\ bCut = One(CutB, from)
  BY DEF BarberAt, bRoom, bSleep, bComing, bBound, bCalled, bCut
<1>4. /\ bRoom' \in Int /\ bSleep' \in Int /\ bComing' \in Int
      /\ bBound' \in Int /\ bCalled' \in Int /\ bCut' \in Int
  BY <1>3 DEF One
<1>5. \A t : On(s, t, d) \in Int
  BY DEF On
<1>6. /\ On(s, "WRSeats", d) + bRoom' - bRoom = 0
      /\ On(s, "BarberSleeps", d) + bSleep' - bSleep = 0
      /\ On(s, "CustReady", d) = bComing' - bComing
      /\ On(s, "BSSeat", d) = bBound' - bBound
      /\ bCalled' = bCalled
      /\ On(s, "BSSeat", d) + On(s, "CutDone", d) + bCut' - bCut = 0
  BY <1>3 DEF BarberBalanced
<1>7. (inRoom = 1 - bRoom)'
  <2>1. /\ tRoom' = tRoom + On(s, "WRSeats", d) /\ tRoom + nRoom = 1 - bRoom
        /\ On(s, "WRSeats", d) + bRoom' - bRoom = 0
    BY <1>1, <1>6 DEF TokenMove, Accounts, inRoom
  <2>2. tRoom \in Int /\ nRoom \in Int /\ bRoom \in Int
    BY <1>1 DEF TokensType, CountsType
  <2> QED BY <2>1, <2>2, <1>2, <1>4, <1>5 DEF inRoom
<1>8. (inSleep = 1 - bSleep)'
  <2>1. /\ tSleep' = tSleep + On(s, "BarberSleeps", d) /\ tSleep + nSleep = 1 - bSleep
        /\ On(s, "BarberSleeps", d) + bSleep' - bSleep = 0
    BY <1>1, <1>6 DEF TokenMove, Accounts, inSleep
  <2>2. tSleep \in Int /\ nSleep \in Int /\ bSleep \in Int
    BY <1>1 DEF TokensType, CountsType
  <2> QED BY <2>1, <2>2, <1>2, <1>4, <1>5 DEF inSleep
<1>9. (announced = bComing)'
  BY <1>1, <1>2, <1>4, <1>5, <1>6
  DEF TokensType, CountsType, Accounts, TokenMove, announced
<1>10. (bound = bBound)'
  <2>1. /\ tSeat' = tSeat + On(s, "BSSeat", d) /\ On(s, "BSSeat", d) \in Int
        /\ bBound' = bBound + On(s, "BSSeat", d)
    BY <1>1, <1>4, <1>5, <1>6 DEF TokensType, TokenMove
  <2>2. /\ tSeat + nBound + (Seats - queued) + Flag = bBound
        /\ UNCHANGED <<nBound, Seats, queued, Flag>>
    BY <1>1, <1>2 DEF Accounts, bound
  <2>3. /\ tSeat \in Int /\ nBound \in Int /\ Seats \in Int /\ queued \in Int
        /\ Flag \in Int /\ bBound \in Int
    BY <1>1 DEF TokensType, CountsType
  <2> QED BY <2>1, <2>2, <2>3 DEF bound
<1>11. (seated = bCut)'
  <2>1. /\ tSeat' = tSeat + On(s, "BSSeat", d) /\ tDone' = tDone + On(s, "CutDone", d)
        /\ On(s, "BSSeat", d) + On(s, "CutDone", d) + bCut' - bCut = 0
    BY <1>6 DEF TokenMove
  <2>2. nChair - tSeat - tDone = bCut /\ nChair' = nChair
    BY <1>1, <1>2 DEF Accounts, seated
  <2>3. tSeat \in Int /\ tDone \in Int /\ bCut \in Int /\ nChair \in Int
    BY <1>1 DEF TokensType, CountsType
  <2> QED BY <2>1, <2>2, <2>3, <1>4, <1>5 DEF seated
<1>12. UNCHANGED <<places, called>>
  BY <1>2 DEF places, called
<1> QED BY <1>1, <1>6, <1>7, <1>8, <1>9, <1>10, <1>11, <1>12 DEF Accounts

-----------------------------------------------------------------------------
\* A step that keeps what clients keep and the books.
Kept ==
  /\ TypeInv' /\ InviteInv' /\ FlagLow'
  /\ UNCHANGED books /\ (barberSleeps' => barberSleeps)

\* Such a step keeps what clients keep by themselves.
LEMMA KeptShop == ShopInv /\ Kept => ShopInv'
BY DEF ShopInv, Kept, books

\* While the barber stays where it is such a step keeps its accounts.
LEMMA KeptAccounts ==
  ASSUME IInv, Kept, bpc' = bpc
  PROVE  IInv'
<1>1. UNCHANGED <<bRoom, bSleep, bComing, bBound, bCalled, bCut>>
  BY ClientOnes
<1>2. Accounts'
  BY <1>1 DEF IInv, Accounts, Kept, books
<1> QED BY <1>2 DEF IInv, Kept, FlagInv, FlagLow

\* With its accounts right the barber leaves the shop to the clients.
LEMMA AccountsShop == IInv => ShopInv
<1> SUFFICES ASSUME IInv PROVE ShopInv
  OBVIOUS
<1>1. TokensType /\ Accounts
  BY TokensAreNaturals DEF IInv
<1> QED BY <1>1 DEF IInv, ShopInv, Accounts, FlagInv, FlagLow, TokensType

\* A balanced semaphore call of a client.
LEMMA ClientSemStep ==
  ASSUME ShopInv, NEW c \in Clients, NEW s \in Semaphores, NEW d \in {-1, 1},
         NEW from, NEW to \in AnyClientLabel, ClientAt(c, from, to),
         TokenMove(s, d), sem' \in [Semaphores -> Nat], ClientBalanced(from, s, d, to),
         UNCHANGED <<shared, invites, toCut, myID, bpc>>, cutsNr' \in [Clients -> 0..S]
  PROVE  Kept
<1>1. TypeInv /\ InviteInv /\ FlagLow
  BY DEF ShopInv
<1>2. UNCHANGED <<free, barberSleeps, fifo, clientThatCame>>
  BY DEF shared
<1>3. UNCHANGED <<free, queued, Flag, Inviting>>
  BY <1>2 DEF queued, Flag, Inviting
<1>4. CountsMove(from, to)
  BY <1>1, ClientCounts DEF TypeInv
<1>5. UNCHANGED books /\ Seats' = Seats
  BY <1>1, <1>3, <1>4, ClientBalance
<1>6. pc' \in [Clients -> AnyClientLabel]
  BY <1>1 DEF TypeInv, ClientAt
<1>7. TypeInv'
  BY <1>1, <1>2, <1>6 DEF TypeInv, Linked
<1>8. InviteInv' /\ FlagLow'
  BY <1>1, <1>2, <1>5 DEF InviteInv, FlagLow
<1> QED BY <1>2, <1>5, <1>7, <1>8 DEF Kept

\* A balanced semaphore call of the barber keeps it if the barber stays in the
\* places where it may sleep as long as the flag is up.
LEMMA BarberSemStep ==
  ASSUME IInv, NEW s \in Semaphores, NEW d \in {-1, 1},
         NEW from, NEW to \in BarberLabels, BarberAt(from, to),
         TokenMove(s, d), sem' \in [Semaphores -> Nat], BarberBalanced(from, s, d, to),
         UNCHANGED <<shared, invites, locals, pc>>,
         barberSleeps => to \in {"sleep_sigWR", "sleep_sigBS", "sleep_waitCR"}
  PROVE  IInv'
<1>1. TypeInv /\ InviteInv /\ FlagInv
  BY DEF IInv
<1>2. UNCHANGED <<free, barberSleeps, fifo, clientThatCame>>
  BY DEF shared
<1>3. UNCHANGED <<free, queued, Flag, Inviting, Seats>>
  BY <1>2, BarberCounts DEF queued, Flag, Inviting
<1>4. Accounts'
  BY <1>3, BarberBalance
<1>5. TypeInv'
  BY <1>1, <1>2 DEF TypeInv, BarberAt, locals, Linked, AnyBarberLabel
<1>6. InviteInv' /\ FlagInv'
  BY <1>1, <1>2, <1>3 DEF InviteInv, FlagInv, BarberAt
<1> QED BY <1>4, <1>5, <1>6 DEF IInv

\* It takes a token.
LEMMA ClientWaitStep ==
  ASSUME ShopInv, NEW c \in Clients, NEW s \in Semaphores, NEW from,
         NEW to \in AnyClientLabel,
         ClientWait(c, from, s, to), ClientBalanced(from, s, -1, to)
  PROVE  Kept
<1>1. /\ ClientAt(c, from, to) /\ Wait(s) /\ UNCHANGED <<shared, invites, toCut, myID, bpc>>
      /\ cutsNr' = cutsNr
  BY DEF ClientWait, locals
<1>2. TokenMove(s, -1) /\ sem' \in [Semaphores -> Nat]
  BY <1>1, WaitMove DEF ShopInv, TypeInv
<1>3. cutsNr' \in [Clients -> 0..S]
  BY <1>1 DEF ShopInv, TypeInv
<1> QED BY <1>1, <1>2, <1>3, ClientSemStep

\* It gives one.
LEMMA ClientSignalStep ==
  ASSUME ShopInv, NEW c \in Clients, NEW s \in Semaphores, NEW from,
         NEW to \in AnyClientLabel,
         ClientSignal(c, from, s, to), ClientBalanced(from, s, 1, to)
  PROVE  Kept
<1>1. /\ ClientAt(c, from, to) /\ Signal(s) /\ UNCHANGED <<shared, invites, toCut, myID, bpc>>
      /\ cutsNr' = cutsNr
  BY DEF ClientSignal, locals
<1>2. TokenMove(s, 1) /\ sem' \in [Semaphores -> Nat]
  BY <1>1, SignalMove DEF ShopInv, TypeInv
<1>3. cutsNr' \in [Clients -> 0..S]
  BY <1>1 DEF ShopInv, TypeInv
<1> QED BY <1>1, <1>2, <1>3, ClientSemStep

\* The same of the barber.
LEMMA BarberWaitStep ==
  ASSUME IInv, NEW s \in Semaphores, NEW from, NEW to \in BarberLabels,
         BarberWait(from, s, to), BarberBalanced(from, s, -1, to),
         barberSleeps => to \in {"sleep_sigWR", "sleep_sigBS", "sleep_waitCR"}
  PROVE  IInv'
<1>1. BarberAt(from, to) /\ Wait(s) /\ UNCHANGED <<shared, invites, locals, pc>>
  BY DEF BarberWait
<1>2. TokenMove(s, -1) /\ sem' \in [Semaphores -> Nat]
  BY <1>1, WaitMove DEF IInv, TypeInv
<1> QED BY <1>1, <1>2, BarberSemStep

\* And its posts.
LEMMA BarberSignalStep ==
  ASSUME IInv, NEW s \in Semaphores, NEW from, NEW to \in BarberLabels,
         BarberSignal(from, s, to), BarberBalanced(from, s, 1, to),
         barberSleeps => to \in {"sleep_sigWR", "sleep_sigBS", "sleep_waitCR"}
  PROVE  IInv'
<1>1. BarberAt(from, to) /\ Signal(s) /\ UNCHANGED <<shared, invites, locals, pc>>
  BY DEF BarberSignal
<1>2. TokenMove(s, 1) /\ sem' \in [Semaphores -> Nat]
  BY <1>1, SignalMove DEF IInv, TypeInv
<1> QED BY <1>1, <1>2, BarberSemStep

\* A semaphore call of a client: of the semaphore its label is about, and balanced.
ClientCall(c, from, s, to) ==
  /\ from \in ClientLabels \ {"done"} /\ to \in ClientLabels
  /\ s \in Semaphores /\ s \in Uses(from)
  /\ \/ ClientWait(c, from, s, to) /\ ClientBalanced(from, s, -1, to)
     \/ ClientSignal(c, from, s, to) /\ ClientBalanced(from, s, 1, to)

\* The semaphore of a label, label by label.
LEMMA UsesOf ==
  /\ \A l \in {"waitWR", "wake_sigWR", "sit_sigWR", "sit_waitWR", "sit_sigWR2",
               "full_sigWR"} : Uses(l) = {"WRSeats"}
  /\ \A l \in {"waitBS", "wake_sigBS", "sit_sigBS", "full_sigBS"} :
       Uses(l) = {"BarberSleeps"}
  /\ \A l \in {"wake_sigCR", "sit_sigCR"} : Uses(l) = {"CustReady"}
  /\ Uses("chair") = {"BSSeat"} /\ Uses("waitCut") = {"CutDone"}
BY DEF Uses

\* The semaphore calls, one after the other; LeaveShop does more than its call.
LEMMA ClientCalls ==
  ASSUME NEW c \in Clients,
         ClientLock(c) \/ ClientUnlock(c) \/ Announce(c) \/ SitInChair(c)
           \/ ClientWait(c, "sit_waitWR", "WRSeats", "sit_leave")
           \/ ClientSignal(c, "sit_sigWR2", "WRSeats", "chair")
  PROVE  \E from, s, to : ClientCall(c, from, s, to)
<1> USE UsesOf
    DEF ClientCall, ClientBalanced, One, On, RoomC, SleepC, ComingC, BoundC, CalledC,
        ChairC, SeatLabels, ClientLabels, Semaphores
<1>1. CASE ClientLock(c)
  <2>1. \/ ClientCall(c, "waitWR", "WRSeats", "waitBS")
        \/ ClientCall(c, "waitBS", "BarberSleeps", "look")
    BY <1>1 DEF ClientLock
  <2> HIDE DEF ClientCall
  <2> QED BY <2>1
<1>2. CASE ClientUnlock(c)
  <2>1. \/ ClientCall(c, "wake_sigWR", "WRSeats", "wake_sigBS")
        \/ ClientCall(c, "wake_sigBS", "BarberSleeps", "wake_sigCR")
        \/ ClientCall(c, "sit_sigWR", "WRSeats", "sit_sigBS")
        \/ ClientCall(c, "sit_sigBS", "BarberSleeps", "sit_sigCR")
        \/ ClientCall(c, "full_sigBS", "BarberSleeps", "full_sigWR")
        \/ ClientCall(c, "full_sigWR", "WRSeats", "waitWR")
    BY <1>2 DEF ClientUnlock
  <2> HIDE DEF ClientCall
  <2> QED BY <2>1
<1>3. CASE Announce(c)
  <2>1. \/ ClientCall(c, "wake_sigCR", "CustReady", "chair")
        \/ ClientCall(c, "sit_sigCR", "CustReady", "sit_waitInvite")
    BY <1>3 DEF Announce
  <2> HIDE DEF ClientCall
  <2> QED BY <2>1
<1>4. CASE SitInChair(c)
  <2>1. ClientCall(c, "chair", "BSSeat", "waitCut")
    BY <1>4 DEF SitInChair
  <2> HIDE DEF ClientCall
  <2> QED BY <2>1
<1>5. CASE \/ ClientWait(c, "sit_waitWR", "WRSeats", "sit_leave")
           \/ ClientSignal(c, "sit_sigWR2", "WRSeats", "chair")
  <2>1. \/ ClientCall(c, "sit_waitWR", "WRSeats", "sit_leave")
        \/ ClientCall(c, "sit_sigWR2", "WRSeats", "chair")
    BY <1>5
  <2> HIDE DEF ClientCall
  <2> QED BY <2>1
<1> QED BY <1>1, <1>2, <1>3, <1>4, <1>5

\* Whatever a client calls, the books stay.
LEMMA ClientCallsStep ==
  ASSUME ShopInv, NEW c \in Clients, NEW from, NEW s, NEW to, ClientCall(c, from, s, to)
  PROVE  Kept
BY ClientWaitStep, ClientSignalStep DEF ClientCall, AnyClientLabel

\* While the flag is up nobody has announced himself.
LEMMA FlagMeansSilence ==
  ASSUME IInv, barberSleeps
  PROVE  tReady = 0 /\ queued = 0
<1>1. TokensType /\ CountsType /\ Accounts
  BY TokensAreNaturals, CountsAreNaturals DEF IInv
<1>2. Seats = 0 /\ Flag = 1 /\ bComing = 1
  BY DEF IInv, FlagInv, Flag, bComing, One, ComingB
<1>3. queued = 0
  BY <1>1, <1>2 DEF TokensType, CountsType, Accounts, announced, called
<1> QED BY <1>1, <1>2, <1>3 DEF TokensType, CountsType, Accounts, announced, called

\* The semaphore calls of the barber.
LEMMA BarberCallsStep ==
  ASSUME IInv, BarberLock \/ BarberUnlock \/ AwaitClient \/ AwaitSeated \/ FinishCut
  PROVE  IInv'
<1> USE DEF BarberBalanced, One, On, RoomB, SleepB, ComingB, BoundB, CalledB, CutB,
            BarberLabels, Semaphores
<1>0. barberSleeps => bpc \in {"sleep_sigWR", "sleep_sigBS", "sleep_waitCR"}
  BY DEF IInv, FlagInv
<1>1. CASE BarberLock
  <2>1. /\ BarberBalanced("waitWR", "WRSeats", -1, "waitBS")
        /\ BarberBalanced("waitBS", "BarberSleeps", -1, "look")
    OBVIOUS
  <2>2. ~barberSleeps
    BY <1>0, <1>1 DEF BarberLock, BarberWait, BarberAt
  <2> QED BY <1>1, <2>1, <2>2, BarberWaitStep DEF BarberLock
<1>2. CASE BarberUnlock
  <2>1. /\ BarberBalanced("sleep_sigWR", "WRSeats", 1, "sleep_sigBS")
        /\ BarberBalanced("sleep_sigBS", "BarberSleeps", 1, "sleep_waitCR")
        /\ BarberBalanced("call_sigWR", "WRSeats", 1, "call_sigBS")
        /\ BarberBalanced("call_sigBS", "BarberSleeps", 1, "call_waitCR")
    OBVIOUS
  <2>2. bpc \in {"call_sigWR", "call_sigBS"} => ~barberSleeps
    BY <1>0
  <2>3. CASE BarberSignal("sleep_sigWR", "WRSeats", "sleep_sigBS")
    BY <2>1, <2>3, BarberSignalStep
  <2>4. CASE BarberSignal("sleep_sigBS", "BarberSleeps", "sleep_waitCR")
    BY <2>1, <2>4, BarberSignalStep
  <2>5. CASE BarberSignal("call_sigWR", "WRSeats", "call_sigBS")
    <3>1. ~barberSleeps
      BY <2>2, <2>5 DEF BarberSignal, BarberAt
    <3> QED BY <2>1, <2>5, <3>1, BarberSignalStep
  <2>6. CASE BarberSignal("call_sigBS", "BarberSleeps", "call_waitCR")
    <3>1. ~barberSleeps
      BY <2>2, <2>6 DEF BarberSignal, BarberAt
    <3> QED BY <2>1, <2>6, <3>1, BarberSignalStep
  <2> QED BY <1>2, <2>3, <2>4, <2>5, <2>6 DEF BarberUnlock
<1>3. CASE AwaitClient
  <2>1. /\ BarberBalanced("sleep_waitCR", "CustReady", -1, "sleep_waitSeat")
        /\ BarberBalanced("call_waitCR", "CustReady", -1, "call_invite")
    OBVIOUS
  <2>2. ~barberSleeps
    <3>1. tReady > 0
      BY <1>3 DEF AwaitClient, BarberWait, Wait, tReady
    <3> QED BY <3>1, FlagMeansSilence
  <2> QED BY <1>3, <2>1, <2>2, BarberWaitStep DEF AwaitClient
<1>4. CASE AwaitSeated
  <2>1. /\ BarberBalanced("sleep_waitSeat", "BSSeat", -1, "sleep_cut")
        /\ BarberBalanced("call_waitSeat", "BSSeat", -1, "call_cut")
    OBVIOUS
  <2>2. ~barberSleeps
    BY <1>0, <1>4 DEF AwaitSeated, BarberWait, BarberAt
  <2> QED BY <1>4, <2>1, <2>2, BarberWaitStep DEF AwaitSeated
<1>5. CASE FinishCut
  <2>1. /\ BarberBalanced("sleep_cut", "CutDone", 1, "waitWR")
        /\ BarberBalanced("call_cut", "CutDone", 1, "waitWR")
    OBVIOUS
  <2>2. ~barberSleeps
    BY <1>0, <1>5 DEF FinishCut, BarberSignal, BarberAt
  <2> QED BY <1>5, <2>1, <2>2, BarberSignalStep DEF FinishCut
<1> QED BY <1>1, <1>2, <1>3, <1>4, <1>5

-----------------------------------------------------------------------------
\* A client finds the barber asleep.
LEMMA WakeBarberStep ==
  ASSUME ShopInv, NEW c \in Clients, WakeBarber(c)
  PROVE  Kept
<1>1. TypeInv /\ InviteInv /\ TokensType /\ CountsType
  BY TokensAreNaturals, CountsAreNaturals DEF ShopInv
<1>2. /\ ClientAt(c, "look", "wake_sigWR") /\ barberSleeps /\ barberSleeps' = FALSE
      /\ UNCHANGED <<free, fifo, sem, invites, bpc, toCut, myID, cutsNr>>
      /\ clientThatCame' = c
  BY DEF WakeBarber, locals
<1>3. CountsMove("look", "wake_sigWR")
  BY <1>1, <1>2, ClientCounts DEF TypeInv
<1>4. /\ nRoom' = nRoom /\ nSleep' = nSleep /\ nComing' = nComing + 1
      /\ nBound' = nBound + 1 /\ nCalled' = nCalled /\ nChair' = nChair /\ Seats' = Seats
  BY <1>1, <1>3
  DEF CountsMove, CountsType, One, RoomC, SleepC, ComingC, BoundC, CalledC, ChairC,
      SeatLabels
<1>5. Flag = 1 /\ Flag' = 0
  BY <1>2 DEF Flag
<1>6. UNCHANGED <<tRoom, tSleep, tReady, tSeat, tDone, queued, Inviting>>
  BY <1>2 DEF tRoom, tSleep, tReady, tSeat, tDone, queued, Inviting
<1>7. UNCHANGED books
  BY <1>1, <1>2, <1>4, <1>5, <1>6
  DEF books, inRoom, inSleep, places, announced, bound, called, seated, TokensType,
      CountsType
<1>8. TypeInv'
  <2>1. pc' \in [Clients -> AnyClientLabel]
    BY <1>1, <1>2 DEF TypeInv, ClientAt, ClientLabels, AnyClientLabel
  <2> QED BY <1>1, <1>2, <2>1 DEF TypeInv, Linked
<1>9. InviteInv' /\ FlagLow'
  BY <1>1, <1>2 DEF InviteInv, FlagLow
<1> QED BY <1>2, <1>7, <1>8, <1>9 DEF Kept

\* The queue is shorter than the room while a seat is free.
LEMMA QueueHasPlace ==
  ASSUME ShopInv
  PROVE  fifo.n <= N /\ (free > 0 => fifo.n < N)
<1>1. /\ free \in Nat /\ Seats \in Nat /\ queued \in Nat /\ Inviting \in {0, 1}
      /\ nCalled \in Nat
  BY TokensAreNaturals, CountsAreNaturals DEF ShopInv, TokensType, CountsType
<1>2. free + Seats = N /\ queued <= Seats
  BY <1>1 DEF ShopInv, places, called
<1> QED BY <1>1, <1>2, NAssumption DEF queued

\* A client sits down in the waiting room.
LEMMA TakeSeatStep ==
  ASSUME ShopInv, NEW c \in Clients, TakeSeat(c)
  PROVE  /\ Kept
         /\ Contents(fifo') = Append(Contents(fifo), c)
<1>1. TypeInv /\ InviteInv /\ TokensType /\ CountsType
  BY TokensAreNaturals, CountsAreNaturals DEF ShopInv
<1>2. /\ ClientAt(c, "look", "sit_sigWR") /\ ~barberSleeps /\ free > 0 /\ free' = free - 1
      /\ UNCHANGED <<barberSleeps, clientThatCame, sem, invites, bpc, toCut, cutsNr>>
      /\ myID' = [myID EXCEPT ![c] = EnqueueSlot(fifo)]
      /\ fifo' = Enqueue(fifo, c)
  BY DEF TakeSeat
<1>3. CountsMove("look", "sit_sigWR")
  BY <1>1, <1>2, ClientCounts DEF TypeInv
<1>4. /\ nRoom' = nRoom /\ nSleep' = nSleep /\ nComing' = nComing + 1
      /\ nBound' = nBound /\ nCalled' = nCalled /\ nChair' = nChair /\ Seats' = Seats + 1
  BY <1>1, <1>3
  DEF CountsMove, CountsType, One, RoomC, SleepC, ComingC, BoundC, CalledC, ChairC,
      SeatLabels
<1>5. fifo \in Rings(Clients, N) /\ Linked(fifo) /\ N \in Nat \ {0}
  BY <1>1, NAssumption DEF TypeInv
<1>6. fifo.n < N
  BY <1>2, QueueHasPlace
<1>7. /\ fifo' \in Rings(Clients, N) /\ fifo'.n = fifo.n + 1
      /\ EnqueueSlot(fifo) \in 0..(N - 1)
  <2>1. /\ Enqueue(fifo, c) \in Rings(Clients, N) /\ Enqueue(fifo, c).n = fifo.n + 1
        /\ EnqueueSlot(fifo) \in 0..(N - 1)
    BY <1>5, EnqueueType
  <2> QED BY <1>2, <2>1
<1>8. Linked(fifo') /\ Contents(fifo') = Append(Contents(fifo), c)
  BY <1>2, <1>5, <1>6, EnqueueAppends
<1>9. /\ UNCHANGED <<tRoom, tSleep, tReady, tSeat, tDone, Flag, Inviting>>
      /\ queued' = queued + 1
  BY <1>2, <1>7 DEF tRoom, tSleep, tReady, tSeat, tDone, queued, Inviting, Flag
<1>10. UNCHANGED books
  BY <1>1, <1>2, <1>4, <1>9
  DEF books, inRoom, inSleep, places, announced, bound, called, seated, TokensType,
      CountsType
<1>11. TypeInv'
  <2>1. pc' \in [Clients -> AnyClientLabel]
    BY <1>1, <1>2 DEF TypeInv, ClientAt, ClientLabels, AnyClientLabel
  <2>2. myID' \in [Clients -> 0..(N - 1)]
    BY <1>1, <1>2, <1>7 DEF TypeInv
  <2>3. free' \in Nat
    BY <1>1, <1>2 DEF TypeInv
  <2> QED BY <1>1, <1>2, <1>7, <1>8, <2>1, <2>2, <2>3 DEF TypeInv
<1>12. InviteInv' /\ FlagLow'
  BY <1>1, <1>2 DEF InviteInv, FlagLow
<1> QED BY <1>2, <1>8, <1>10, <1>11, <1>12 DEF Kept

\* A client is turned away.
LEMMA TurnAwayStep ==
  ASSUME ShopInv, NEW c \in Clients, TurnAway(c)
  PROVE  Kept
<1>1. TypeInv /\ InviteInv /\ FlagLow /\ CountsType
  BY CountsAreNaturals DEF ShopInv
<1>2. /\ ClientAt(c, "look", "full_sigBS")
      /\ UNCHANGED <<free, barberSleeps, fifo, clientThatCame, sem, invites, bpc, toCut,
                     myID, cutsNr>>
  BY DEF TurnAway, shared, locals
<1>3. CountsMove("look", "full_sigBS")
  BY <1>1, <1>2, ClientCounts DEF TypeInv
<1>4. UNCHANGED <<nRoom, nSleep, nComing, nBound, nCalled, nChair, Seats>>
  BY <1>1, <1>3
  DEF CountsMove, CountsType, One, RoomC, SleepC, ComingC, BoundC, CalledC, ChairC,
      SeatLabels
<1>5. UNCHANGED <<tRoom, tSleep, tReady, tSeat, tDone, queued, Inviting, Flag>>
  BY <1>2 DEF tRoom, tSleep, tReady, tSeat, tDone, queued, Inviting, Flag
<1>6. UNCHANGED books
  BY <1>2, <1>4, <1>5
  DEF books, inRoom, inSleep, places, announced, bound, called, seated
<1>7. pc' \in [Clients -> AnyClientLabel]
  BY <1>1, <1>2 DEF TypeInv, ClientAt, ClientLabels, AnyClientLabel
<1>8. TypeInv' /\ InviteInv' /\ FlagLow'
  BY <1>1, <1>2, <1>4, <1>7 DEF TypeInv, Linked, InviteInv, FlagLow
<1> QED BY <1>2, <1>6, <1>8 DEF Kept

\* A client takes the invitation of its slot, the only one there is.
LEMMA AwaitInviteStep ==
  ASSUME ShopInv, NEW c \in Clients, AwaitInvite(c)
  PROVE  Kept
<1>1. TypeInv /\ InviteInv /\ FlagLow /\ CountsType /\ TokensType
  BY TokensAreNaturals, CountsAreNaturals DEF ShopInv
<1> DEFINE i == myID[c]
<1>2. /\ ClientAt(c, "sit_waitInvite", "sit_waitWR")
      /\ invites[i] > 0 /\ invites' = [invites EXCEPT ![i] = @ - 1]
      /\ UNCHANGED <<free, barberSleeps, fifo, clientThatCame, sem, bpc, toCut, myID,
                     cutsNr>>
  BY DEF AwaitInvite, shared, locals
<1>3. i \in 0..(N - 1)
  BY <1>1 DEF TypeInv
<1> HIDE DEF i
<1>4. /\ invites[i] = 1
      /\ invites' \in [0..(N - 1) -> Nat] /\ \A j \in 0..(N - 1) : invites'[j] = 0
  <2>1. invites[i] = 1
    BY <1>1, <1>2, <1>3 DEF InviteInv
  <2>2. \A j \in 0..(N - 1) : j # i => invites[j] = 0
    BY <1>1, <1>3, <2>1 DEF InviteInv
  <2> QED BY <1>1, <1>2, <1>3, <2>1, <2>2 DEF TypeInv
<1>5. Inviting = 1 /\ Inviting' = 0 /\ InviteInv'
  BY <1>3, <1>4 DEF Inviting, InviteInv
<1>6. CountsMove("sit_waitInvite", "sit_waitWR")
  BY <1>1, <1>2, ClientCounts DEF TypeInv
<1>7. UNCHANGED <<nRoom, nSleep, nComing, nBound, nChair, Seats>> /\ nCalled' = nCalled + 1
  BY <1>1, <1>6
  DEF CountsMove, CountsType, One, RoomC, SleepC, ComingC, BoundC, CalledC, ChairC,
      SeatLabels
<1>8. UNCHANGED <<tRoom, tSleep, tReady, tSeat, tDone, queued, Flag>>
  BY <1>2 DEF tRoom, tSleep, tReady, tSeat, tDone, queued, Flag
<1>9. UNCHANGED books
  BY <1>1, <1>2, <1>5, <1>7, <1>8
  DEF books, inRoom, inSleep, places, announced, bound, called, seated, TokensType,
      CountsType
<1>10. pc' \in [Clients -> AnyClientLabel]
  BY <1>1, <1>2 DEF TypeInv, ClientAt, ClientLabels, AnyClientLabel
<1>11. TypeInv' /\ FlagLow'
  BY <1>1, <1>2, <1>4, <1>7, <1>10 DEF TypeInv, Linked, FlagLow
<1> QED BY <1>2, <1>5, <1>9, <1>11 DEF Kept

\* A called client gives its seat back.
GiveSeatBack(c) ==
  /\ ClientAt(c, "sit_leave", "sit_sigWR2")
  /\ free' = free + 1
  /\ UNCHANGED <<barberSleeps, fifo, clientThatCame, sem, invites, locals, bpc>>

\* A seat is given back: free grows as the sitting clients become one less.
LEMMA GiveSeatBackStep ==
  ASSUME ShopInv, NEW c \in Clients, GiveSeatBack(c)
  PROVE  Kept
<1>1. TypeInv /\ InviteInv /\ FlagLow /\ CountsType /\ TokensType
  BY TokensAreNaturals, CountsAreNaturals DEF ShopInv
<1>2. /\ ClientAt(c, "sit_leave", "sit_sigWR2") /\ free' = free + 1
      /\ UNCHANGED <<barberSleeps, fifo, clientThatCame, sem, invites, bpc, toCut, myID,
                     cutsNr>>
  BY DEF GiveSeatBack, locals
<1>3. CountsMove("sit_leave", "sit_sigWR2")
  BY <1>1, <1>2, ClientCounts DEF TypeInv
<1>4. /\ UNCHANGED <<nRoom, nSleep, nComing, nChair>> /\ nBound' = nBound + 1
      /\ nCalled' = nCalled - 1 /\ Seats' = Seats - 1
  BY <1>1, <1>3
  DEF CountsMove, CountsType, One, RoomC, SleepC, ComingC, BoundC, CalledC, ChairC,
      SeatLabels
<1>5. UNCHANGED <<tRoom, tSleep, tReady, tSeat, tDone, queued, Flag, Inviting>>
  BY <1>2 DEF tRoom, tSleep, tReady, tSeat, tDone, queued, Flag, Inviting
<1>6. Seats > 0
  BY <1>2, ClientCounted DEF ClientAt, Seats, SeatLabels
<1>7. UNCHANGED books
  BY <1>1, <1>2, <1>4, <1>5
  DEF books, inRoom, inSleep, places, announced, bound, called, seated, TokensType,
      CountsType
<1>8. pc' \in [Clients -> AnyClientLabel] /\ free' \in Nat
  BY <1>1, <1>2 DEF TypeInv, ClientAt, ClientLabels, AnyClientLabel
<1>9. TypeInv' /\ InviteInv'
  BY <1>1, <1>2, <1>8 DEF TypeInv, Linked, InviteInv
<1>10. FlagLow'
  BY <1>1, <1>2, <1>6 DEF FlagLow, CountsType
<1> QED BY <1>2, <1>7, <1>9, <1>10 DEF Kept

\* A client leaves the chair.
LEMMA LeaveShopStep ==
  ASSUME ShopInv, CutsInv, NEW c \in Clients, LeaveShop(c)
  PROVE  Kept
<1>1. TypeInv
  BY DEF ShopInv
<1> DEFINE to == IF cutsNr[c] > 1 THEN "waitWR" ELSE "done"
<1>2. /\ ClientAt(c, "waitCut", to) /\ Wait("CutDone")
      /\ UNCHANGED <<shared, invites, toCut, myID, bpc>>
      /\ cutsNr' = [cutsNr EXCEPT ![c] = @ - 1]
  BY DEF LeaveShop, ClientAt
<1>3. to \in {"waitWR", "done"} /\ to \in AnyClientLabel
  BY DEF ClientLabels, AnyClientLabel
<1> HIDE DEF to
<1>4. ClientBalanced("waitCut", "CutDone", -1, to)
  BY <1>3
  DEF ClientBalanced, One, On, RoomC, SleepC, ComingC, BoundC, CalledC, ChairC, SeatLabels
<1>5. TokenMove("CutDone", -1) /\ sem' \in [Semaphores -> Nat]
  BY <1>1, <1>2, WaitMove DEF Semaphores, TypeInv
<1>6. cutsNr' \in [Clients -> 0..S]
  <2>1. cutsNr[c] \in 0..S /\ cutsNr[c] > 0
    BY <1>1, <1>2 DEF CutsInv, TypeInv, ClientAt
  <2>2. cutsNr[c] - 1 \in 0..S
    BY <2>1, SAssumption
  <2> QED BY <1>1, <1>2, <2>2 DEF TypeInv
<1> QED BY <1>2, <1>3, <1>4, <1>5, <1>6, ClientSemStep DEF Semaphores

\* Each step of a client keeps the books.
LEMMA ClientStep ==
  ASSUME ShopInv, CutsInv, NEW c \in Clients, Client(c)
  PROVE  Kept /\ bpc' = bpc
<1>1. Kept
  <2>1. CASE LeaveSeat(c)
    BY <2>1, ClientCalls, ClientCallsStep, GiveSeatBackStep DEF LeaveSeat, GiveSeatBack
  <2>2. CASE ~LeaveSeat(c)
    BY <2>2, ClientCalls, ClientCallsStep, WakeBarberStep, TakeSeatStep, TurnAwayStep,
       AwaitInviteStep, LeaveShopStep
    DEF Client
  <2> QED BY <2>1, <2>2
<1>2. bpc' = bpc
  BY DEF Client, ClientLock, WakeBarber, TakeSeat, TurnAway, ClientUnlock, Announce,
         AwaitInvite, LeaveSeat, SitInChair, LeaveShop, ClientWait, ClientSignal
<1> QED BY <1>1, <1>2

\* Nobody comes in again without a cut to get.
LEMMA CutsStep ==
  ASSUME TypeInv, CutsInv, [Next]_vars
  PROVE  CutsInv'
<1>1. ASSUME NEW c \in Clients, LeaveShop(c) PROVE CutsInv'
  <2>1. /\ pc' = [pc EXCEPT ![c] = IF cutsNr[c] > 1 THEN "waitWR" ELSE "done"]
        /\ cutsNr' = [cutsNr EXCEPT ![c] = @ - 1]
    BY <1>1 DEF LeaveShop
  <2> QED BY <2>1 DEF CutsInv, TypeInv
<1>2. ASSUME NEW c \in Clients, Client(c), ~LeaveShop(c) PROVE CutsInv'
  <2>1. /\ cutsNr' = cutsNr /\ pc[c] # "done"
        /\ \A d \in Clients : d # c => pc'[d] = pc[d]
    BY <1>2
    DEF Client, ClientLock, WakeBarber, TakeSeat, TurnAway, ClientUnlock, Announce,
        AwaitInvite, LeaveSeat, SitInChair, ClientWait, ClientSignal, ClientAt, locals,
        TypeInv
  <2> QED BY <2>1 DEF CutsInv
<1>3. CASE Barber \/ Closed \/ UNCHANGED vars
  <2>1. cutsNr' = cutsNr /\ pc' = pc
    BY <1>3
    DEF Barber, BarberLock, FallAsleep, CallNext, BarberUnlock, AwaitClient, Invite,
        AwaitSeated, FinishCut, BarberWait, BarberSignal, Closed, vars, locals
  <2> QED BY <2>1 DEF CutsInv
<1> QED BY <1>1, <1>2, <1>3 DEF Next

-----------------------------------------------------------------------------
\* The barber raises the flag in an empty waiting room.
LEMMA FallAsleepStep ==
  ASSUME IInv, FallAsleep
  PROVE  IInv'
<1>1. TypeInv /\ InviteInv /\ FlagInv /\ Accounts /\ CountsType /\ TokensType
  BY TokensAreNaturals, CountsAreNaturals DEF IInv
<1>2. /\ BarberAt("look", "sleep_sigWR") /\ free = N /\ barberSleeps' = TRUE
      /\ UNCHANGED <<free, fifo, clientThatCame, sem, invites, toCut, myID, cutsNr, pc>>
  BY DEF FallAsleep, locals
<1>3. queued = Seats /\ Flag = 0 /\ bBound = 0 /\ bCalled = 0 /\ bComing = 0
  BY <1>2, QuietAtLook DEF BarberAt
<1>4. Seats = 0
  BY <1>1, <1>2, NAssumption DEF Accounts, places, CountsType
<1>5. /\ bRoom' = bRoom /\ bSleep' = bSleep /\ bComing' = 1 /\ bBound' = 1
      /\ bCalled' = 0 /\ bCut' = bCut
  BY <1>2
  DEF BarberAt, One, bRoom, bSleep, bComing, bBound, bCalled, bCut, RoomB, SleepB, ComingB,
      BoundB, CalledB, CutB
<1>6. /\ UNCHANGED <<tRoom, tSleep, tReady, tSeat, tDone, queued, Inviting>> /\ Flag' = 1
      /\ UNCHANGED <<nRoom, nSleep, nComing, nBound, nCalled, nChair, Seats>>
  BY <1>2, BarberCounts DEF tRoom, tSleep, tReady, tSeat, tDone, queued, Inviting, Flag
<1>7. Accounts'
  BY <1>1, <1>2, <1>3, <1>5, <1>6
  DEF Accounts, inRoom, inSleep, places, announced, bound, called, seated, TokensType,
      CountsType
<1>8. bpc' \in AnyBarberLabel
  BY <1>2 DEF BarberAt, BarberLabels, AnyBarberLabel
<1>9. TypeInv' /\ InviteInv'
  BY <1>1, <1>2, <1>8 DEF TypeInv, Linked, InviteInv
<1>10. FlagInv'
  BY <1>2, <1>4, <1>6 DEF FlagInv, BarberAt
<1> QED BY <1>7, <1>9, <1>10 DEF IInv

\* The barber calls the client at the head of the queue, which is not empty.
LEMMA CallNextStep ==
  ASSUME IInv, CallNext
  PROVE  /\ IInv'
         /\ fifo.n > 0 /\ Contents(fifo) # <<>>
         /\ toCut'.pid = Head(Contents(fifo)) /\ Contents(fifo') = Tail(Contents(fifo))
<1>1. TypeInv /\ InviteInv /\ FlagInv /\ Accounts /\ CountsType /\ TokensType
  BY TokensAreNaturals, CountsAreNaturals DEF IInv
<1>2. /\ BarberAt("look", "call_sigWR") /\ free # N
      /\ toCut' = Dequeued(fifo) /\ fifo' = Dequeue(fifo)
      /\ UNCHANGED <<free, barberSleeps, clientThatCame, sem, invites, myID, cutsNr, pc>>
  BY DEF CallNext
<1>3. queued = Seats /\ Flag = 0 /\ bBound = 0 /\ bCalled = 0 /\ bComing = 0
  BY <1>2, QuietAtLook DEF BarberAt
<1>4. fifo.n > 0
  <2>1. queued > 0
    BY <1>1, <1>2, <1>3, NAssumption DEF Accounts, places, CountsType, TokensType
  <2> QED BY <2>1 DEF queued
<1>5. fifo \in Rings(Clients, N) /\ Linked(fifo) /\ N \in Nat \ {0}
  BY <1>1, NAssumption DEF TypeInv
<1>6. /\ Dequeued(fifo) \in [id : 0..(N - 1), pid : Clients \cup {NoPid}]
      /\ Dequeue(fifo) \in Rings(Clients, N) /\ Dequeue(fifo).n = fifo.n - 1
  BY <1>4, <1>5, DequeueParts
<1>7. /\ Linked(Dequeue(fifo)) /\ Contents(fifo) # <<>>
      /\ Dequeued(fifo).pid = Head(Contents(fifo))
      /\ Contents(Dequeue(fifo)) = Tail(Contents(fifo))
  BY <1>4, <1>5, DequeueTakesHead
<1>8. /\ bRoom' = bRoom /\ bSleep' = bSleep /\ bComing' = 1 /\ bBound' = 1
      /\ bCalled' = 1 /\ bCut' = bCut
  BY <1>2
  DEF BarberAt, One, bRoom, bSleep, bComing, bBound, bCalled, bCut, RoomB, SleepB, ComingB,
      BoundB, CalledB, CutB
<1>9. /\ UNCHANGED <<tRoom, tSleep, tReady, tSeat, tDone, Inviting, Flag>>
      /\ queued' = queued - 1
      /\ UNCHANGED <<nRoom, nSleep, nComing, nBound, nCalled, nChair, Seats>>
  BY <1>2, <1>6, BarberCounts
  DEF tRoom, tSleep, tReady, tSeat, tDone, queued, Inviting, Flag
<1>10. Accounts'
  BY <1>1, <1>2, <1>3, <1>8, <1>9
  DEF Accounts, inRoom, inSleep, places, announced, bound, called, seated, TokensType,
      CountsType
<1>11. bpc' \in AnyBarberLabel
  BY <1>2 DEF BarberAt, BarberLabels, AnyBarberLabel
<1>12. TypeInv' /\ InviteInv'
  BY <1>1, <1>2, <1>6, <1>7, <1>11 DEF TypeInv, InviteInv
<1>13. FlagInv'
  BY <1>1, <1>2 DEF FlagInv, BarberAt
<1> QED BY <1>2, <1>4, <1>7, <1>10, <1>12, <1>13 DEF IInv

\* The barber invites: no other invitation is open.
LEMMA InviteStep ==
  ASSUME IInv, Invite
  PROVE  IInv'
<1>1. TypeInv /\ InviteInv /\ FlagInv /\ Accounts /\ CountsType /\ TokensType
  BY TokensAreNaturals, CountsAreNaturals DEF IInv
<1> DEFINE i == toCut.id
<1>2. /\ BarberAt("call_invite", "call_waitSeat")
      /\ invites' = [invites EXCEPT ![i] = @ + 1]
      /\ UNCHANGED <<free, barberSleeps, fifo, clientThatCame, sem, toCut, myID, cutsNr, pc>>
  BY DEF Invite, shared, locals
<1>3. i \in 0..(N - 1)
  BY <1>1 DEF TypeInv
<1> HIDE DEF i
<1>4. bCalled = 1 /\ bBound = 1
  BY <1>2 DEF BarberAt, bCalled, bBound, One, CalledB, BoundB, ComingB
<1>5. Inviting = 0
  BY <1>1, <1>4
  DEF Accounts, inRoom, inSleep, places, announced, bound, called, seated, TokensType,
      CountsType
<1>6. \A j \in 0..(N - 1) : invites[j] = 0
  BY <1>1, <1>5 DEF Inviting, InviteInv
<1>7. /\ invites' \in [0..(N - 1) -> Nat] /\ invites'[i] = 1
      /\ \A j \in 0..(N - 1) : j # i => invites'[j] = 0
  BY <1>1, <1>2, <1>3, <1>6 DEF TypeInv
<1>8. InviteInv' /\ Inviting' = 1
  BY <1>3, <1>7 DEF InviteInv, Inviting
<1>9. /\ bRoom' = bRoom /\ bSleep' = bSleep /\ bComing' = bComing /\ bBound' = 1
      /\ bCalled' = 0 /\ bCut' = bCut
  BY <1>2
  DEF BarberAt, One, bRoom, bSleep, bComing, bBound, bCalled, bCut, RoomB, SleepB, ComingB,
      BoundB, CalledB, CutB
<1>10. /\ UNCHANGED <<tRoom, tSleep, tReady, tSeat, tDone, queued, Flag>>
       /\ UNCHANGED <<nRoom, nSleep, nComing, nBound, nCalled, nChair, Seats>>
  BY <1>2, BarberCounts DEF tRoom, tSleep, tReady, tSeat, tDone, queued, Flag
<1>11. Accounts'
  BY <1>1, <1>2, <1>4, <1>5, <1>8, <1>9, <1>10
  DEF Accounts, inRoom, inSleep, places, announced, bound, called, seated, TokensType,
      CountsType
<1>12. bpc' \in AnyBarberLabel
  BY <1>2 DEF BarberAt, BarberLabels, AnyBarberLabel
<1>13. TypeInv'
  BY <1>1, <1>2, <1>7, <1>12 DEF TypeInv, Linked
<1>14. FlagInv'
  BY <1>1, <1>2 DEF FlagInv, BarberAt
<1> QED BY <1>8, <1>11, <1>13, <1>14 DEF IInv

\* Each step of the barber keeps the accounts.
LEMMA BarberStep ==
  ASSUME IInv, Barber
  PROVE  IInv' /\ pc' = pc /\ bpc \in BarberLabels /\ bpc' \in BarberLabels
<1>1. IInv'
  BY BarberCallsStep, FallAsleepStep, CallNextStep, InviteStep DEF Barber
<1>2. pc' = pc /\ bpc \in BarberLabels /\ bpc' \in BarberLabels
  BY DEF Barber, BarberLock, FallAsleep, CallNext, BarberUnlock, AwaitClient, Invite,
         AwaitSeated, FinishCut, BarberWait, BarberSignal, BarberAt, locals, BarberLabels
<1> QED BY <1>1, <1>2

\* A stutter keeps everything.
LEMMA NothingKept == ShopInv /\ UNCHANGED vars => Kept
<1> SUFFICES ASSUME ShopInv, UNCHANGED vars PROVE Kept
  OBVIOUS
<1>1. UNCHANGED <<nRoom, nSleep, nComing, nBound, nCalled, nChair, Seats>>
  BY BarberCounts DEF vars
<1>2. UNCHANGED <<tRoom, tSleep, tReady, tSeat, tDone, queued, Inviting, Flag, free>>
  BY DEF vars, tRoom, tSleep, tReady, tSeat, tDone, queued, Inviting, Flag
<1>3. UNCHANGED books
  BY <1>1, <1>2 DEF books, inRoom, inSleep, places, announced, bound, called, seated
<1>4. TypeInv' /\ InviteInv' /\ FlagLow'
  BY <1>1 DEF vars, ShopInv, TypeInv, Linked, InviteInv, FlagLow
<1> QED BY <1>3, <1>4 DEF vars, Kept

\* So each step does.
LEMMA IInvStep == IInv /\ CutsInv /\ [Next]_vars => IInv'
<1> SUFFICES ASSUME IInv, CutsInv, [Next]_vars PROVE IInv'
  OBVIOUS
<1>1. CASE Barber
  BY <1>1, BarberStep
<1>2. ASSUME NEW c \in Clients, Client(c) PROVE IInv'
  BY <1>2, ClientStep, AccountsShop, KeptAccounts
<1>3. CASE UNCHANGED vars
  BY <1>3, NothingKept, AccountsShop, KeptAccounts DEF vars
<1> QED BY <1>1, <1>2, <1>3 DEF Next, Closed

\* init_Q empties a queue that holds nobody, in each of its writes.
LEMMA WrittenQueue ==
  ASSUME NEW q \in Rings(Clients, N), Linked(q), q.n = 0,
         NEW r \in {ClearSlots(q), ClearEnds(q), SetSize(q, N)}
  PROVE  r \in Rings(Clients, N) /\ Linked(r) /\ r.n = 0
<1> USE NAssumption
<1>1. 0 % N = 0
  <2>1. (N * 0 + 0) % N = 0
    BY ModUnique
  <2>2. N * 0 + 0 = 0
    OBVIOUS
  <2> QED BY <2>1, <2>2
<1> DEFINE Index == 0..(N - 1)
           Arrays == [Index -> [id : Index, pid : Clients \cup {NoPid}]]
           cleared == [i \in Index |-> Slot(0, NoPid)]
<1>2. /\ Rings(Clients, N) =
           [front : Index, end : Index, size : {N}, n : Nat, queue : Arrays]
      /\ 0 \in Index
  BY DEF Rings
<1>3. cleared \in Arrays /\ ClearSlots(q) = [q EXCEPT !.queue = cleared]
  BY RingParts DEF Slot, ClearSlots
<1> HIDE DEF Index, Arrays, cleared
<1>4. q \in [front : Index, end : Index, size : {N}, n : Nat, queue : Arrays]
  BY <1>2
<1>5. CASE r = ClearSlots(q)
  BY <1>2, <1>3, <1>4, <1>5 DEF Linked
<1>6. CASE r = ClearEnds(q)
  <2>1. r = [q EXCEPT !.front = 0, !.end = 0]
    BY <1>6 DEF ClearEnds
  <2>2. r \in Rings(Clients, N) /\ r.front = 0 /\ r.end = 0 /\ r.n = 0 /\ r.size = N
    BY <1>2, <1>4, <2>1
  <2> QED BY <1>1, <2>2 DEF Linked
<1>7. CASE r = SetSize(q, N)
  BY <1>2, <1>4, <1>7 DEF SetSize, Linked
<1> QED BY <1>5, <1>6, <1>7

\* The same of a segment that is new.
LEMMA FreshQueue ==
  /\ ClearSlots(FreshSegment(N)) = FreshSegment(N)
  /\ ClearEnds(FreshSegment(N)) = FreshSegment(N)
  /\ SetSize(FreshSegment(N), N) \in Rings(Clients, N)
  /\ Linked(SetSize(FreshSegment(N), N))
  /\ SetSize(FreshSegment(N), N).n = 0
<1> USE NAssumption
<1>1. 0 % N = 0
  <2>1. (N * 0 + 0) % N = 0
    BY ModUnique
  <2>2. N * 0 + 0 = 0
    OBVIOUS
  <2> QED BY <2>1, <2>2
<1> DEFINE cleared == [i \in 0..(N - 1) |-> Slot(0, NoPid)]
<1>2. ClearSlots(FreshSegment(N)) = FreshSegment(N)
  <2>1. DOMAIN cleared = 0..(N - 1)
    OBVIOUS
  <2>2. FreshSegment(N) = [front |-> 0, end |-> 0, size |-> 0, n |-> 0, queue |-> cleared]
    BY DEF FreshSegment
  <2>3. ClearSlots(FreshSegment(N)) = [FreshSegment(N) EXCEPT !.queue = cleared]
    BY <2>1, <2>2 DEF ClearSlots
  <2> HIDE DEF cleared
  <2> QED BY <2>2, <2>3
<1>3. ClearEnds(FreshSegment(N)) = FreshSegment(N)
  <2>1. FreshSegment(N) = [front |-> 0, end |-> 0, size |-> 0, n |-> 0, queue |-> cleared]
    BY DEF FreshSegment
  <2> HIDE DEF cleared
  <2>2. FreshSegment(N).front = 0 /\ FreshSegment(N).end = 0
    BY <2>1
  <2>3. FreshSegment(N) \in
          [front : {0}, end : {0}, size : {0}, n : {0}, queue : {cleared}]
    BY <2>1
  <2>4. ClearEnds(FreshSegment(N)) \in
          [front : {0}, end : {0}, size : {0}, n : {0}, queue : {cleared}]
    BY <2>3 DEF ClearEnds
  <2> QED BY <2>3, <2>4
<1>4. SetSize(FreshSegment(N), N) =
        [front |-> 0, end |-> 0, size |-> N, n |-> 0,
         queue |-> [i \in 0..(N - 1) |-> Slot(0, NoPid)]]
  BY DEF SetSize, FreshSegment
<1>5. SetSize(FreshSegment(N), N) \in Rings(Clients, N)
  BY <1>4 DEF Slot, Rings
<1>6. Linked(SetSize(FreshSegment(N), N)) /\ SetSize(FreshSegment(N), N).n = 0
  BY <1>1, <1>4 DEF Linked
<1> QED BY <1>2, <1>3, <1>5, <1>6

\* The shop opens with its accounts in order.
LEMMA InitIInv == Init => IInv /\ CutsInv
<1> SUFFICES ASSUME Init PROVE IInv /\ CutsInv
  OBVIOUS
<1> USE NAssumption, SAssumption
<1>2. fifo \in Rings(Clients, N) /\ Linked(fifo) /\ fifo.n = 0
  <2>1. fifo = SetSize(FreshSegment(N), N)
    BY FreshQueue DEF Init, InitQ
  <2> QED BY <2>1, FreshQueue
<1>3. TypeInv
  <2>1. sem \in [Semaphores -> Nat] /\ invites \in [0..(N - 1) -> Nat]
    BY DEF Init
  <2>2. toCut \in [id : 0..(N - 1), pid : Clients \cup {NoPid}]
    BY DEF Init, Slot
  <2>3. pc \in [Clients -> AnyClientLabel] /\ bpc \in AnyBarberLabel
    BY DEF Init, ClientLabels, BarberLabels, AnyClientLabel, AnyBarberLabel
  <2>4. myID \in [Clients -> 0..(N - 1)] /\ cutsNr \in [Clients -> 0..S]
    BY DEF Init
  <2> QED BY <1>2, <2>1, <2>2, <2>3, <2>4 DEF Init, TypeInv
<1>4. \A L : "waitWR" \notin L => CountAt(Clients, pc, L) = 0
  <2> SUFFICES ASSUME NEW L, "waitWR" \notin L PROVE CountAt(Clients, pc, L) = 0
    OBVIOUS
  <2>1. {c \in Clients : pc[c] \in L} = {}
    BY DEF Init
  <2> QED BY <2>1, FS_EmptySet DEF CountAt
<1>5. /\ nRoom = 0 /\ nSleep = 0 /\ nComing = 0 /\ nBound = 0 /\ nCalled = 0
      /\ nChair = 0 /\ Seats = 0
  BY <1>4
  DEF nRoom, nSleep, nComing, nBound, nCalled, nChair, Seats, RoomC, SleepC, ComingC,
      BoundC, CalledC, ChairC, SeatLabels
<1>6. /\ bRoom = 0 /\ bSleep = 0 /\ bComing = 0 /\ bBound = 0 /\ bCalled = 0 /\ bCut = 0
  BY DEF Init, One, bRoom, bSleep, bComing, bBound, bCalled, bCut, RoomB, SleepB, ComingB,
         BoundB, CalledB, CutB
<1>7. /\ tRoom = 1 /\ tSleep = 1 /\ tReady = 0 /\ tSeat = 0 /\ tDone = 0
      /\ Flag = 0 /\ queued = 0 /\ free = N
  BY <1>2 DEF Init, tRoom, tSleep, tReady, tSeat, tDone, Flag, queued, Semaphores
<1>8. InviteInv /\ Inviting = 0
  BY DEF Init, InviteInv, Inviting
<1>9. Accounts
  BY <1>5, <1>6, <1>7, <1>8
  DEF Accounts, inRoom, inSleep, places, announced, bound, called, seated
<1>10. FlagInv /\ CutsInv
  BY DEF Init, FlagInv, CutsInv
<1> QED BY <1>3, <1>8, <1>9, <1>10 DEF IInv

\* The accounts hold in every behaviour of zad1.
LEMMA IInvInductive == Spec => [](IInv /\ CutsInv)
<1>1. IInv /\ CutsInv /\ [Next]_vars => CutsInv'
  BY CutsStep DEF IInv
<1> QED BY <1>1, InitIInv, IInvStep, PTL DEF Spec

-----------------------------------------------------------------------------
\* Who holds WRSeats is alone with the shared state.
LEMMA RoomIsExclusive ==
  ASSUME inRoom + bRoom <= 1, tRoom \in Nat
  PROVE  MutualExclusion
<1>1. nRoom \in Nat /\ bRoom \in {0, 1}
  BY CountsAreNaturals DEF CountsType, bRoom, One
<1>2. nRoom + bRoom <= 1
  BY <1>1 DEF inRoom
<1>3. ASSUME NEW c \in Clients, pc[c] \in {"look", "sit_leave"}, bpc = "look" PROVE FALSE
  <2>1. nRoom > 0
    BY <1>3, ClientCounted DEF nRoom, RoomC
  <2>2. bRoom = 1
    BY <1>3 DEF bRoom, One, RoomB
  <2> QED BY <1>1, <1>2, <2>1, <2>2
<1>4. ASSUME NEW c \in Clients, NEW d \in Clients,
             pc[c] \in {"look", "sit_leave"}, pc[d] \in {"look", "sit_leave"}
      PROVE  c = d
  <2>1. pc[c] \in RoomC /\ pc[d] \in RoomC
    BY <1>4 DEF RoomC
  <2>2. nRoom <= 1
    BY <1>1, <1>2
  <2> QED BY <2>1, <2>2, CountUnique, ClientsAssumption DEF nRoom
<1> QED BY <1>3, <1>4 DEF MutualExclusion

\* What the accounts say of the seats, the queue, the cuts and the barber's sleep.
LEMMA AccountsMean ==
  ASSUME IInv
  PROVE  SeatAccounting /\ QueueMatchesSeats /\ CutsMatchChairs /\ SleepsInEmptyShop
<1>1. TokensType /\ CountsType /\ Accounts
  BY TokensAreNaturals, CountsAreNaturals DEF IInv
<1>2. free \in Nat /\ Seats \in Nat /\ free + Seats = N
  BY <1>1 DEF Accounts, places, TokensType, CountsType
<1>3. SeatAccounting
  BY <1>2 DEF SeatAccounting
<1>4. QueueMatchesSeats
  <2> SUFFICES ASSUME bpc = "look" PROVE fifo.n = N - free
    BY DEF QueueMatchesSeats
  <2>1. fifo.n = Seats
    BY QuietAtLook DEF queued
  <2> QED BY <2>1, <1>2, NAssumption
<1>5. CutsMatchChairs
  <2>1. nChair - tSeat - tDone = bCut
    BY <1>1 DEF Accounts, seated
  <2>2. nChair = tSeat + tDone + bCut
    BY <2>1, <1>1 DEF TokensType, CountsType
  <2>3. bCut = IF bpc \in {"sleep_cut", "call_cut"} THEN 1 ELSE 0
    BY DEF bCut, One, CutB
  <2> QED BY <2>2, <2>3 DEF CutsMatchChairs, tSeat, tDone, nChair, ChairC
<1>6. SleepsInEmptyShop
  BY FlagMeansSilence DEF IInv, FlagInv, SleepsInEmptyShop, tReady
<1> QED BY <1>3, <1>4, <1>5, <1>6

\* The barber's and the clients' work on barbershop_state never overlaps.
THEOREM OneProcessInRoom == Spec => []MutualExclusion
<1>1. IInv => MutualExclusion
  <2> SUFFICES ASSUME IInv PROVE MutualExclusion
    OBVIOUS
  <2>1. TokensType /\ CountsType /\ inRoom = 1 - bRoom
    BY TokensAreNaturals, CountsAreNaturals DEF IInv, Accounts
  <2>2. inRoom + bRoom <= 1 /\ tRoom \in Nat
    BY <2>1 DEF TokensType
  <2> QED BY <2>2, RoomIsExclusive
<1> QED BY <1>1, IInvInductive, PTL

\* nr_of_free_seats is always N less the clients that sit.
THEOREM SeatsAreAccounted == Spec => []SeatAccounting
<1>1. IInv => SeatAccounting
  BY AccountsMean
<1> QED BY <1>1, IInvInductive, PTL

\* When the barber looks, the queue holds exactly the clients that sit.
THEOREM QueueIsSeats == Spec => []QueueMatchesSeats
<1>1. IInv => QueueMatchesSeats
  BY AccountsMean
<1> QED BY <1>1, IInvInductive, PTL

\* Every client in the chair is matched by one cut.
THEOREM CutsAreMatched == Spec => []CutsMatchChairs
<1>1. IInv => CutsMatchChairs
  BY AccountsMean
<1> QED BY <1>1, IInvInductive, PTL

\* The barber sleeps only while the waiting room is empty and nobody calls.
THEOREM BarberSleepsInEmptyShop == Spec => []SleepsInEmptyShop
<1>1. IInv => SleepsInEmptyShop
  BY AccountsMean
<1> QED BY <1>1, IInvInductive, PTL

\* The processes of zad1 stay at the labels of zad1.
LabelInv == bpc \in BarberLabels /\ pc \in [Clients -> ClientLabels]

\* In zad1 nobody is ever at one of the labels of zad2.
LEMMA LabelInvInductive == Spec => []LabelInv
<1>1. Init => LabelInv
  BY DEF Init, LabelInv, BarberLabels, ClientLabels
<1>2. IInv /\ LabelInv /\ [Next]_vars => LabelInv'
  <2> SUFFICES ASSUME IInv, LabelInv, [Next]_vars PROVE LabelInv'
    OBVIOUS
  <2>1. CASE Barber
    BY <2>1, BarberStep DEF LabelInv
  <2>2. ASSUME NEW c \in Clients, Client(c) PROVE LabelInv'
    <3>1. bpc' = bpc /\ \E to \in ClientLabels : pc' = [pc EXCEPT ![c] = to]
      BY <2>2
      DEF Client, ClientLock, WakeBarber, TakeSeat, TurnAway, ClientUnlock, Announce,
          AwaitInvite, LeaveSeat, SitInChair, LeaveShop, ClientWait, ClientSignal,
          ClientAt, ClientLabels
    <3> QED BY <3>1 DEF LabelInv
  <2>3. CASE UNCHANGED vars
    BY <2>3 DEF vars, LabelInv
  <2> QED BY <2>1, <2>2, <2>3 DEF Next, Closed
<1> QED BY <1>1, <1>2, IInvInductive, PTL DEF Spec

\* All variables keep their types; the queue never overflows or runs empty.
THEOREM TypeCorrect == Spec => []TypeOK
<1>1. IInv /\ LabelInv => TypeOK
  <2> SUFFICES ASSUME IInv, LabelInv PROVE TypeOK
    OBVIOUS
  <2>1. TypeInv /\ Accounts /\ TokensType /\ CountsType
    BY TokensAreNaturals, CountsAreNaturals DEF IInv
  <2>2. free \in 0..N
    <3>1. free \in Nat /\ Seats \in Nat /\ free + Seats = N
      BY <2>1 DEF Accounts, places, TokensType, CountsType
    <3> QED BY <3>1, NAssumption
  <2>3. fifo \in Queues(Clients, N)
    <3>1. fifo.n <= N
      BY AccountsShop, QueueHasPlace
    <3>2. fifo.n \in 0..N
      BY <2>1, <3>1, NAssumption DEF TokensType, queued
    <3> QED BY <2>1, <3>2 DEF TypeInv, Rings, Queues
  <2> QED BY <2>1, <2>2, <2>3 DEF TypeInv, TypeOK, LabelInv
<1> QED BY <1>1, IInvInductive, LabelInvInductive, PTL

\* A step that moves neither the queue nor a client into it.
LEMMA QueueUntouched ==
  ASSUME IInv, [Next]_vars, ~CallNext, \A c \in Clients : ~TakeSeat(c)
  PROVE  fifo' = fifo
BY DEF Next, Barber, BarberLock, FallAsleep, BarberUnlock, AwaitClient, Invite, AwaitSeated,
       FinishCut, BarberWait, BarberSignal, Closed, vars, shared, Client, ClientLock,
       WakeBarber, TurnAway, ClientUnlock, Announce, AwaitInvite, LeaveSeat, SitInChair,
       LeaveShop, ClientWait, ClientSignal

\* The clients are called in the order in which they sat down.
THEOREM ClientsServedInOrder == Spec => ServedInOrder
<1> DEFINE InOrder ==
      \/ fifo.n' = fifo.n /\ Contents(fifo') = Contents(fifo)
      \/ \E c \in Clients :
           pc'[c] = "sit_sigWR" /\ Contents(fifo') = Append(Contents(fifo), c)
      \/ /\ fifo.n > 0
         /\ toCut'.pid = Head(Contents(fifo))
         /\ Contents(fifo') = Tail(Contents(fifo))
<1>1. IInv /\ [Next]_vars => [InOrder]_vars
  <2> SUFFICES ASSUME IInv, [Next]_vars PROVE InOrder
    OBVIOUS
  <2>1. CASE CallNext
    BY <2>1, CallNextStep
  <2>2. ASSUME NEW c \in Clients, TakeSeat(c) PROVE InOrder
    <3>1. Contents(fifo') = Append(Contents(fifo), c)
      BY <2>2, TakeSeatStep, AccountsShop
    <3>2. pc'[c] = "sit_sigWR"
      BY <2>2 DEF IInv, TypeInv, TakeSeat, ClientAt
    <3> QED BY <3>1, <3>2
  <2>3. CASE ~CallNext /\ \A c \in Clients : ~TakeSeat(c)
    BY <2>3, QueueUntouched
  <2> QED BY <2>1, <2>2, <2>3
<1> QED BY <1>1, IInvInductive, PTL DEF Spec, ServedInOrder
-----------------------------------------------------------------------------
\* Invitations. Two clients may have the same slot, for dequeue leaves front where
\* it is when it takes the last entry; so what can be said is how many: those that
\* wait for the semaphore of a slot are as many as its entry in the queue, the call
\* the barber is at and the invitations open for it.
Sharers(i) == {c \in AwaitingInvite : myID[c] = i}

Due(i) ==
  (IF i \in Slots(fifo) THEN 1 ELSE 0) +
  (IF bpc \in CalledB /\ toCut.id = i THEN 1 ELSE 0) + invites[i]

SlotInv == Named(fifo) /\ \A i \in 0..(N - 1) : Cardinality(Sharers(i)) = Due(i)

\* Finitely many clients share a slot.
LEMMA SharersFinite ==
  ASSUME NEW i
  PROVE  IsFiniteSet(Sharers(i)) /\ Cardinality(Sharers(i)) \in Nat
<1>1. Sharers(i) \subseteq Clients
  BY DEF Sharers, AwaitingInvite
<1> QED BY <1>1, ClientsAssumption, FS_Subset, FS_CardinalityType

\* A client sits down: one more waits for its slot, which is new in the queue.
LEMMA TakeSeatSlots ==
  ASSUME IInv, SlotInv, NEW c \in Clients, TakeSeat(c), fifo.n < N
  PROVE  SlotInv'
<1>1. TypeInv
  BY DEF IInv
<1> DEFINE slot == EnqueueSlot(fifo)
<1>2. /\ pc[c] = "look" /\ pc' = [pc EXCEPT ![c] = "sit_sigWR"]
      /\ myID' = [myID EXCEPT ![c] = slot] /\ fifo' = Enqueue(fifo, c)
      /\ UNCHANGED <<invites, bpc, toCut>>
  BY DEF TakeSeat, ClientAt
<1>3. fifo \in Rings(Clients, N) /\ Linked(fifo) /\ N \in Nat \ {0} /\ Named(fifo)
  BY <1>1, NAssumption DEF TypeInv, SlotInv
<1>4. /\ slot \in 0..(N - 1) /\ slot \notin Slots(fifo)
      /\ Slots(Enqueue(fifo, c)) = Slots(fifo) \cup {slot} /\ Named(Enqueue(fifo, c))
  BY <1>3, EnqueueType, EnqueueTakesSlot
<1> HIDE DEF slot
<1>5. ASSUME NEW i \in 0..(N - 1) PROVE Cardinality(Sharers(i)') = Due(i)'
  <2>1. Sharers(i)' = IF i = slot THEN Sharers(i) \cup {c} ELSE Sharers(i)
    BY <1>1, <1>2 DEF Sharers, AwaitingInvite, TypeInv
  <2>2. c \notin Sharers(i)
    BY <1>2 DEF Sharers, AwaitingInvite
  <2>3. Cardinality(Sharers(i)') = Cardinality(Sharers(i)) + (IF i = slot THEN 1 ELSE 0)
    <3>1. Cardinality(Sharers(i) \cup {c}) = Cardinality(Sharers(i)) + 1
      BY <2>2, SharersFinite, FS_AddElement
    <3> QED BY <2>1, <3>1, SharersFinite
  <2>4. Due(i)' = Due(i) + (IF i = slot THEN 1 ELSE 0)
    <3>1. i \in Slots(fifo)' <=> i \in Slots(fifo) \/ i = slot
      BY <1>2, <1>4
    <3>2. invites[i] \in Nat
      BY <1>1 DEF TypeInv
    <3> QED BY <3>1, <3>2, <1>2, <1>4 DEF Due
  <2> QED BY <2>3, <2>4 DEF SlotInv
<1> QED BY <1>2, <1>4, <1>5 DEF SlotInv

\* The barber calls: the slot passes from the queue to the call.
LEMMA CallNextSlots ==
  ASSUME IInv, SlotInv, CallNext, fifo.n > 0, fifo.n <= N
  PROVE  SlotInv'
<1>1. TypeInv
  BY DEF IInv
<1>2. /\ bpc = "look" /\ bpc' = "call_sigWR"
      /\ toCut' = Dequeued(fifo) /\ fifo' = Dequeue(fifo)
      /\ UNCHANGED <<invites, myID, pc>>
  BY DEF CallNext, BarberAt
<1>3. fifo \in Rings(Clients, N) /\ Linked(fifo) /\ N \in Nat \ {0} /\ Named(fifo)
  BY <1>1, NAssumption DEF TypeInv, SlotInv
<1>4. /\ Dequeued(fifo).id \in Slots(fifo) /\ Named(Dequeue(fifo))
      /\ Slots(Dequeue(fifo)) = Slots(fifo) \ {Dequeued(fifo).id}
  BY <1>3, DequeueFreesSlot
<1>5. ASSUME NEW i \in 0..(N - 1) PROVE Cardinality(Sharers(i)') = Due(i)'
  <2>1. Sharers(i)' = Sharers(i)
    BY <1>2 DEF Sharers, AwaitingInvite
  <2>2. bpc \notin CalledB /\ bpc' \in CalledB
    BY <1>2 DEF CalledB
  <2>3. Due(i)' = Due(i)
    BY <2>2, <1>1, <1>2, <1>4 DEF Due, TypeInv
  <2> QED BY <2>1, <2>3 DEF SlotInv
<1> QED BY <1>2, <1>4, <1>5 DEF SlotInv

\* The barber invites: the slot passes from the call to its semaphore.
LEMMA InviteSlots ==
  ASSUME IInv, SlotInv, Invite
  PROVE  SlotInv'
<1>1. TypeInv
  BY DEF IInv
<1>2. /\ bpc = "call_invite" /\ bpc' = "call_waitSeat"
      /\ invites' = [invites EXCEPT ![toCut.id] = @ + 1]
      /\ UNCHANGED <<fifo, toCut, myID, pc>>
  BY DEF Invite, BarberAt, shared, locals
<1>3. ASSUME NEW i \in 0..(N - 1) PROVE Cardinality(Sharers(i)') = Due(i)'
  <2>1. Sharers(i)' = Sharers(i)
    BY <1>2 DEF Sharers, AwaitingInvite
  <2>2. bpc \in CalledB /\ bpc' \notin CalledB
    BY <1>2 DEF CalledB
  <2>3. invites'[i] = invites[i] + (IF toCut.id = i THEN 1 ELSE 0) /\ invites[i] \in Nat
    BY <1>1, <1>2 DEF TypeInv
  <2>4. Due(i)' = Due(i)
    BY <2>2, <2>3, <1>2 DEF Due
  <2> QED BY <2>1, <2>4 DEF SlotInv
<1> QED BY <1>2, <1>3 DEF SlotInv

\* A client takes the invitation of its slot, be it meant for it or not.
LEMMA AwaitInviteSlots ==
  ASSUME IInv, SlotInv, NEW c \in Clients, AwaitInvite(c)
  PROVE  SlotInv'
<1>1. TypeInv
  BY DEF IInv
<1>2. /\ pc[c] = "sit_waitInvite" /\ pc' = [pc EXCEPT ![c] = "sit_waitWR"]
      /\ invites' = [invites EXCEPT ![myID[c]] = @ - 1]
      /\ UNCHANGED <<fifo, toCut, myID, bpc>>
  BY DEF AwaitInvite, ClientAt, shared, locals
<1>3. ASSUME NEW i \in 0..(N - 1) PROVE Cardinality(Sharers(i)') = Due(i)'
  <2>1. Sharers(i)' = IF i = myID[c] THEN Sharers(i) \ {c} ELSE Sharers(i)
    BY <1>1, <1>2 DEF Sharers, AwaitingInvite, TypeInv
  <2>2. Cardinality(Sharers(i)') = Cardinality(Sharers(i)) - (IF i = myID[c] THEN 1 ELSE 0)
    <3>1. CASE i = myID[c]
      <4>1. c \in Sharers(i)
        BY <1>2, <3>1 DEF Sharers, AwaitingInvite
      <4>2. Cardinality(Sharers(i) \ {c}) = Cardinality(Sharers(i)) - 1
        BY <4>1, SharersFinite, FS_RemoveElement
      <4> QED BY <2>1, <3>1, <4>2
    <3>2. CASE i # myID[c]
      BY <2>1, <3>2, SharersFinite
    <3> QED BY <3>1, <3>2
  <2>3. invites'[i] = invites[i] - (IF i = myID[c] THEN 1 ELSE 0) /\ invites[i] \in Nat
    <3>1. invites \in [0..(N - 1) -> Nat] /\ myID[c] \in 0..(N - 1)
      BY <1>1 DEF TypeInv
    <3>2. invites'[i] = IF i = myID[c] THEN invites[i] - 1 ELSE invites[i]
      BY <1>2, <3>1
    <3>3. invites[i] \in Nat
      BY <3>1
    <3> QED BY <3>2, <3>3
  <2>4. Due(i)' = Due(i) - (IF i = myID[c] THEN 1 ELSE 0)
    BY <2>3, <1>2 DEF Due
  <2> QED BY <2>2, <2>4 DEF SlotInv
<1> QED BY <1>2, <1>3 DEF SlotInv

\* No other step has to do with a slot.
LEMMA OtherSlots ==
  ASSUME IInv, SlotInv, [Next]_vars, ~CallNext, ~Invite,
         \A c \in Clients : ~TakeSeat(c) /\ ~AwaitInvite(c)
  PROVE  SlotInv'
<1>1. TypeInv
  BY DEF IInv
<1>2. fifo' = fifo
  BY QueueUntouched
<1>3. UNCHANGED <<invites, toCut, myID>> /\ (bpc' \in CalledB <=> bpc \in CalledB)
  BY DEF Next, Barber, BarberLock, FallAsleep, BarberUnlock, AwaitClient, AwaitSeated,
         FinishCut, BarberWait, BarberSignal, BarberAt, CalledB, Closed, vars, locals,
         Client, ClientLock, WakeBarber, TurnAway, ClientUnlock, Announce, LeaveSeat,
         SitInChair, LeaveShop, ClientWait, ClientSignal
<1>4. AwaitingInvite' = AwaitingInvite
  <2>1. CASE Barber \/ Closed \/ UNCHANGED vars
    BY <2>1
    DEF Barber, BarberLock, FallAsleep, BarberUnlock, AwaitClient, AwaitSeated, FinishCut,
        BarberWait, BarberSignal, Closed, vars, AwaitingInvite
  <2>2. ASSUME NEW c \in Clients, Client(c) PROVE AwaitingInvite' = AwaitingInvite
    BY <2>2, <1>1
    DEF Client, ClientLock, WakeBarber, TurnAway, ClientUnlock, Announce, LeaveSeat,
        SitInChair, LeaveShop, ClientWait, ClientSignal, ClientAt, TypeInv, AwaitingInvite
  <2> QED BY <2>1, <2>2 DEF Next
<1>5. \A i \in 0..(N - 1) : Sharers(i)' = Sharers(i) /\ Due(i)' = Due(i)
  BY <1>2, <1>3, <1>4 DEF Sharers, Due
<1> QED BY <1>2, <1>5 DEF SlotInv

\* The slots are accounted for in every behaviour.
LEMMA SlotInvInductive == Spec => []SlotInv
<1>1. Init => SlotInv
  <2> SUFFICES ASSUME Init PROVE SlotInv
    OBVIOUS
  <2>1. 0..(fifo.n - 1) = {} /\ invites = [i \in 0..(N - 1) |-> 0] /\ bpc \notin CalledB
    BY FreshQueue DEF Init, InitQ, CalledB
  <2>2. Slots(fifo) = {}
    BY <2>1 DEF Slots
  <2>3. \A i : Sharers(i) = {}
    BY DEF Init, Sharers, AwaitingInvite
  <2> QED BY <2>1, <2>2, <2>3, FS_EmptySet DEF SlotInv, Named, Due
<1>2. IInv /\ SlotInv /\ [Next]_vars => SlotInv'
  <2> SUFFICES ASSUME IInv, SlotInv, [Next]_vars PROVE SlotInv'
    OBVIOUS
  <2>2. fifo.n <= N /\ (free > 0 => fifo.n < N)
    BY AccountsShop, QueueHasPlace
  <2>3. CASE CallNext
    BY <2>2, <2>3, CallNextStep, CallNextSlots
  <2>4. ASSUME NEW c \in Clients, TakeSeat(c) PROVE SlotInv'
    BY <2>2, <2>4, TakeSeatSlots DEF TakeSeat
  <2>5. ASSUME NEW c \in Clients, AwaitInvite(c) PROVE SlotInv'
    BY <2>5, AwaitInviteSlots
  <2> QED BY <2>3, <2>4, <2>5, InviteSlots, OtherSlots
<1> QED BY <1>1, <1>2, IInvInductive, PTL DEF Spec

\* At most one invitation is open, and somebody waits for it.
THEOREM InvitationsAreTaken == Spec => []InvitationHasTaker
<1>1. IInv /\ SlotInv => InvitationHasTaker
  <2> SUFFICES ASSUME IInv, SlotInv, NEW i \in 0..(N - 1), invites[i] > 0
               PROVE  /\ invites[i] = 1
                      /\ \A j \in 0..(N - 1) \ {i} : invites[j] = 0
                      /\ \E c \in AwaitingInvite : myID[c] = i
    BY DEF InvitationHasTaker
  <2>1. invites[i] = 1 /\ \A j \in 0..(N - 1) \ {i} : invites[j] = 0
    BY DEF IInv, InviteInv
  <2>2. Cardinality(Sharers(i)) > 0
    BY <2>1 DEF SlotInv, Due
  <2>3. Sharers(i) # {}
    BY <2>2, FS_EmptySet
  <2> QED BY <2>1, <2>3 DEF Sharers
<1> QED BY <1>1, IInvInductive, SlotInvInductive, PTL
-----------------------------------------------------------------------------
(* The shop that opens and closes. *)
\* The semaphores and the room, whatever has happened: nobody has what is not made.
MadeInv ==
  /\ sem \in [Semaphores -> Nat]
  /\ pc \in [Clients -> AnyClientLabel]
  /\ bpc \in AnyBarberLabel
  /\ handles \in [Clients -> SUBSET Semaphores]
  /\ made \in SUBSET Semaphores
  /\ inRoom + bRoom <= 1
  /\ bpc # "closed" =>
       /\ \A c \in Clients : handles[c] \subseteq made
       /\ \A s \in Semaphores \ made : sem[s] = 0
       /\ "WRSeats" \notin made => inRoom = 0
  /\ bpc \in WritingLabels \cup {"off"} => opened = 0
  /\ bpc = "opening" => opened \in 0..5 /\ \A i \in 1..opened : Order[i] \in made
  /\ bpc \in BarberLabels => made = Semaphores
  /\ bpc \in BarberLabels \cup WritingLabels \cup {"opening"} => seg

\* Until a barber has written the whole segment for the first time: no semaphore is
\* made, and a client can do no more than come and end.
Blank ==
  /\ bpc \in WritingLabels \cup {"off"} /\ made = {}
  /\ free \in {0, N} /\ (bpc \in WritingLabels \ {"init_seats"} => free = N)
  /\ ~barberSleeps /\ fifo = FreshSegment(N) /\ clientThatCame = NoPid
  /\ sem = [s \in Semaphores |-> 0] /\ invites = [i \in 0..(N - 1) |-> 0]
  /\ toCut = Slot(0, NoPid)
  /\ pc \in [Clients -> {"start", "failed", "opening", "waitWR", "ended"}]
  /\ myID = [c \in Clients |-> 0] /\ cutsNr = [c \in Clients |-> S]

Exists(s) == IF s \in made THEN 1 ELSE 0

\* Where the flag has been written.
FlagWritten == {"init_slots", "init_ends", "init_size", "opening"}

\* Without a barber in its loop the books are those of one that is about to look at
\* the room (asleep = 0), or of one that sleeps (asleep = 1).  Clients that come in
\* keep them so; a write of the next barber does if it finds the shop empty.
Left(asleep) ==
  /\ bpc \in WritingLabels \cup {"off", "opening"} /\ seg
  /\ bpc \in FlagWritten => asleep = 0 /\ ~barberSleeps
  /\ invites = [i \in 0..(N - 1) |-> 0]
  /\ ShopInv /\ CutsInv
  /\ inRoom = Exists("WRSeats") /\ inSleep = Exists("BarberSleeps")
  /\ announced = asleep /\ bound = asleep /\ called = 0 /\ seated = 0

Serving == bpc \in BarberLabels /\ IInv /\ CutsInv

SoundInv ==
  sound => bpc = "closed" \/ Blank \/ Left(0) \/ Left(1) \/ Serving

\* A client that moves, as far as the named semaphores and the room go.
KeepsRoom(c) ==
  /\ pc[c] \in ClientLabels \ {"done"} /\ bpc' = bpc
  /\ pc' \in [Clients -> AnyClientLabel] /\ sem' \in [Semaphores -> Nat]
  /\ inRoom' = inRoom
  /\ \A s \in Semaphores \ Uses(pc[c]) : sem'[s] = sem[s]

\* A move that calls no semaphore, or a balanced call of the one the label is about.
LEMMA PlainRoom ==
  ASSUME sem \in [Semaphores -> Nat], pc \in [Clients -> AnyClientLabel],
         NEW c \in Clients, NEW from \in ClientLabels \ {"done"}, NEW to \in AnyClientLabel,
         ClientAt(c, from, to), One(RoomC, to) = One(RoomC, from),
         UNCHANGED <<sem, bpc>>
  PROVE  KeepsRoom(c)
<1>1. nRoom' = nRoom + One(RoomC, to) - One(RoomC, from)
  BY ClientCounts DEF CountsMove
<1>2. nRoom \in Nat /\ One(RoomC, from) \in Int
  BY CountsAreNaturals DEF CountsType, One
<1>3. inRoom' = inRoom
  BY <1>1, <1>2 DEF inRoom, tRoom
<1>4. pc[c] = from /\ pc' \in [Clients -> AnyClientLabel]
  BY DEF ClientAt
<1> QED BY <1>3, <1>4 DEF KeepsRoom

\* A call of the client.
LEMMA CallRoom ==
  ASSUME sem \in [Semaphores -> Nat], pc \in [Clients -> AnyClientLabel],
         NEW c \in Clients, NEW from, NEW s, NEW to, ClientCall(c, from, s, to)
  PROVE  KeepsRoom(c)
<1>1. /\ from \in ClientLabels \ {"done"} /\ to \in AnyClientLabel
      /\ s \in Semaphores /\ s \in Uses(from)
      /\ ClientAt(c, from, to) /\ bpc' = bpc
  BY DEF ClientCall, AnyClientLabel, ClientWait, ClientSignal
<1>2. PICK d \in {-1, 1} :
        /\ On(s, "WRSeats", d) + One(RoomC, to) - One(RoomC, from) = 0
        /\ TokenMove(s, d) /\ sem' \in [Semaphores -> Nat]
        /\ \A t \in Semaphores \ {s} : sem'[t] = sem[t]
  <2>1. CASE ClientWait(c, from, s, to) /\ ClientBalanced(from, s, -1, to)
    <3>1. Wait(s) /\ On(s, "WRSeats", -1) + One(RoomC, to) - One(RoomC, from) = 0
      BY <2>1 DEF ClientWait, ClientBalanced
    <3>2. TokenMove(s, -1) /\ sem' \in [Semaphores -> Nat]
      BY <1>1, <3>1, WaitMove
    <3>3. \A t \in Semaphores \ {s} : sem'[t] = sem[t]
      BY <1>1, <3>1 DEF Wait
    <3> QED BY <3>1, <3>2, <3>3
  <2>2. CASE ClientSignal(c, from, s, to) /\ ClientBalanced(from, s, 1, to)
    <3>1. Signal(s) /\ On(s, "WRSeats", 1) + One(RoomC, to) - One(RoomC, from) = 0
      BY <2>2 DEF ClientSignal, ClientBalanced
    <3>2. TokenMove(s, 1) /\ sem' \in [Semaphores -> Nat]
      BY <1>1, <3>1, SignalMove
    <3>3. \A t \in Semaphores \ {s} : sem'[t] = sem[t]
      BY <1>1, <3>1 DEF Signal
    <3> QED BY <3>1, <3>2, <3>3
  <2> QED BY <2>1, <2>2 DEF ClientCall
<1>3. nRoom' = nRoom + One(RoomC, to) - One(RoomC, from)
  BY <1>1, ClientCounts DEF CountsMove
<1>4. inRoom' = inRoom
  <2>1. tRoom' = tRoom + On(s, "WRSeats", d)
    BY <1>2 DEF TokenMove
  <2>2. nRoom \in Int /\ tRoom \in Int /\ On(s, "WRSeats", d) \in Int
        /\ One(RoomC, to) \in Int /\ One(RoomC, from) \in Int
    BY CountsAreNaturals DEF CountsType, One, On, tRoom, Semaphores
  <2> QED BY <1>2, <1>3, <2>1, <2>2 DEF inRoom
<1>5. pc[c] = from /\ pc' \in [Clients -> AnyClientLabel]
  BY <1>1 DEF ClientAt
<1> QED BY <1>1, <1>2, <1>4, <1>5 DEF KeepsRoom

\* Each step of a client is one of these.
LEMMA ClientRoom ==
  ASSUME sem \in [Semaphores -> Nat], pc \in [Clients -> AnyClientLabel],
         NEW c \in Clients, Client(c)
  PROVE  KeepsRoom(c)
<1> USE DEF One, RoomC, ClientLabels, AnyClientLabel
<1>1. CASE WakeBarber(c)
  BY <1>1, PlainRoom DEF WakeBarber
<1>2. CASE TakeSeat(c)
  BY <1>2, PlainRoom DEF TakeSeat
<1>3. CASE TurnAway(c)
  BY <1>3, PlainRoom DEF TurnAway
<1>4. CASE AwaitInvite(c)
  BY <1>4, PlainRoom DEF AwaitInvite
<1>5. CASE GiveSeatBack(c)
  BY <1>5, PlainRoom DEF GiveSeatBack
<1>6. CASE LeaveShop(c)
  <2> DEFINE to == IF cutsNr[c] > 1 THEN "waitWR" ELSE "done"
  <2>1. ClientAt(c, "waitCut", to) /\ Wait("CutDone") /\ bpc' = bpc
    BY <1>6 DEF LeaveShop, ClientAt
  <2>2. to \in AnyClientLabel /\ One(RoomC, to) = 0 /\ One(RoomC, "waitCut") = 0
    OBVIOUS
  <2> HIDE DEF to, One, RoomC, ClientLabels, AnyClientLabel
  <2>3. /\ TokenMove("CutDone", -1) /\ sem' \in [Semaphores -> Nat]
        /\ \A t \in Semaphores \ {"CutDone"} : sem'[t] = sem[t]
    BY <2>1, WaitMove DEF Wait, Semaphores
  <2>4. nRoom' = nRoom + One(RoomC, to) - One(RoomC, "waitCut") /\ nRoom \in Nat
    BY <2>1, ClientCounts, CountsAreNaturals DEF CountsMove, CountsType
  <2>5. inRoom' = inRoom
    BY <2>2, <2>3, <2>4 DEF inRoom, tRoom, Semaphores
  <2>6. pc[c] = "waitCut" /\ pc' \in [Clients -> AnyClientLabel]
    BY <2>1, <2>2 DEF ClientAt
  <2>7. pc[c] \in ClientLabels \ {"done"}
    BY <2>6 DEF ClientLabels
  <2>8. \A t \in Semaphores \ Uses(pc[c]) : sem'[t] = sem[t]
    BY <2>3, <2>6, UsesOf
  <2> QED BY <2>1, <2>3, <2>5, <2>6, <2>7, <2>8 DEF KeepsRoom
<1>7. CASE \/ ClientLock(c) \/ ClientUnlock(c) \/ Announce(c) \/ SitInChair(c)
           \/ ClientWait(c, "sit_waitWR", "WRSeats", "sit_leave")
           \/ ClientSignal(c, "sit_sigWR2", "WRSeats", "chair")
  BY <1>7, ClientCalls, CallRoom
<1> QED BY <1>1, <1>2, <1>3, <1>4, <1>5, <1>6, <1>7 DEF Client, LeaveSeat, GiveSeatBack

\* The barber in its loop passes the room on as the clients do.
LEMMA BarberRoom ==
  ASSUME sem \in [Semaphores -> Nat], Barber
  PROVE  /\ sem' \in [Semaphores -> Nat] /\ pc' = pc
         /\ bpc \in BarberLabels /\ bpc' \in BarberLabels
         /\ inRoom' + bRoom' = inRoom + bRoom
<1>1. pc' = pc /\ bpc \in BarberLabels /\ bpc' \in BarberLabels
  BY DEF Barber, BarberLock, FallAsleep, CallNext, BarberUnlock, AwaitClient, Invite,
         AwaitSeated, FinishCut, BarberWait, BarberSignal, BarberAt, locals, BarberLabels
<1>2. /\ sem' \in [Semaphores -> Nat]
      /\ \E d \in {-1, 0, 1} : tRoom' = tRoom + d /\ bRoom' = bRoom - d
  <2> USE DEF bRoom, One, RoomB, tRoom, Semaphores
  <2>1. CASE FallAsleep \/ CallNext \/ Invite
    BY <2>1 DEF FallAsleep, CallNext, Invite, BarberAt
  <2>2. CASE BarberLock
    BY <2>2 DEF BarberLock, BarberWait, Wait, BarberAt
  <2>3. CASE BarberUnlock
    BY <2>3 DEF BarberUnlock, BarberSignal, Signal, BarberAt
  <2>4. CASE AwaitClient \/ AwaitSeated
    BY <2>4 DEF AwaitClient, AwaitSeated, BarberWait, Wait, BarberAt
  <2>5. CASE FinishCut
    BY <2>5 DEF FinishCut, BarberSignal, Signal, BarberAt
  <2> QED BY <2>1, <2>2, <2>3, <2>4, <2>5 DEF Barber
<1>3. nRoom' = nRoom /\ nRoom \in Nat
  BY <1>1, BarberCounts, CountsAreNaturals DEF CountsType
<1>4. tRoom \in Int /\ bRoom \in Int
  BY DEF bRoom, One, tRoom, Semaphores
<1>5. inRoom' + bRoom' = inRoom + bRoom
  <2>1. PICK d \in {-1, 0, 1} : tRoom' = tRoom + d /\ bRoom' = bRoom - d
    BY <1>2
  <2>2. inRoom' = tRoom' + nRoom' /\ inRoom = tRoom + nRoom
    BY DEF inRoom
  <2> QED BY <1>3, <1>4, <2>1, <2>2
<1> QED BY <1>1, <1>2, <1>5

-----------------------------------------------------------------------------
\* The names init_shared asks for are those of the protocol.
LEMMA OrderIs == \A i \in 1..5 : Order[i] \in Semaphores
BY DEF Order, Semaphores

\* And all of them.
LEMMA OrderIsAll ==
  ASSUME \A i \in 1..5 : Order[i] \in made, made \in SUBSET Semaphores
  PROVE  made = Semaphores
<1>1. /\ Order[1] = "BarberSleeps" /\ Order[2] = "CustReady" /\ Order[3] = "WRSeats"
      /\ Order[4] = "BSSeat" /\ Order[5] = "CutDone"
  BY DEF Order
<1>2. /\ "BarberSleeps" \in made /\ "CustReady" \in made /\ "WRSeats" \in made
      /\ "BSSeat" \in made /\ "CutDone" \in made
  BY <1>1
<1> QED BY <1>2 DEF Semaphores

\* What the barber writes to the segment.
Writing == WriteSeats \/ WriteFlag \/ WriteQueue

\* Each of its writes goes from one label to the next.
LEMMA WritingIs ==
  ASSUME Writing
  PROVE  \E from \in WritingLabels, to \in WritingLabels \cup {"opening"} : Writes(from, to)
BY DEF Writing, WriteSeats, WriteFlag, WriteQueue, WritingLabels

\* What the barber does when it opens the shop.
LEMMA MadeOpening ==
  ASSUME MadeInv, OpenSegment \/ Writing \/ CreateSemaphore \/ InitInvites
  PROVE  MadeInv'
<1> USE DEF MadeInv
<1>1. CASE OpenSegment \/ Writing
  <2>1. /\ bpc \in WritingLabels \cup {"off"}
        /\ bpc' \in WritingLabels \cup {"opening"} /\ seg'
        /\ UNCHANGED <<sem, pc, made, opened, handles>>
    BY <1>1, WritingIs DEF OpenSegment, Writes, names, BarberAt, WritingLabels
  <2>2. inRoom' = inRoom /\ bRoom' = bRoom
    BY <2>1 DEF inRoom, nRoom, tRoom, bRoom, One, RoomB, WritingLabels
  <2>3. /\ bpc' \in AnyBarberLabel /\ bpc' \notin BarberLabels \cup {"off", "closed"}
        /\ bpc # "closed"
    BY <2>1 DEF AnyBarberLabel, BarberLabels, WritingLabels
  <2>4. opened' \in 0..5 /\ 1..opened' = {}
    BY <2>1
  <2> QED BY <2>1, <2>2, <2>3, <2>4
<1>2. CASE CreateSemaphore
  <2> DEFINE n == opened + 1
             s == Order[n]
             initial == IF s \in {"WRSeats", "BarberSleeps"} THEN 1 ELSE 0
  <2>1. /\ bpc = "opening" /\ opened < 5 /\ made' = made \cup {s} /\ opened' = n
        /\ sem' = IF s \in made THEN sem ELSE [sem EXCEPT ![s] = initial]
        /\ UNCHANGED <<bpc, pc, seg, handles>>
    BY <1>2 DEF CreateSemaphore, Order
  <2>2. opened \in 0..5 /\ \A i \in 1..opened : Order[i] \in made
    BY <2>1
  <2>3. n \in 1..5 /\ s \in Semaphores
    BY <2>1, <2>2, OrderIs
  <2>4. \A i \in 1..n : Order[i] \in made'
    BY <2>1, <2>2
  <2>5. initial \in Nat /\ (s = "WRSeats" => initial = 1)
    OBVIOUS
  <2> HIDE DEF n, s, initial
  <2>6. sem' \in [Semaphores -> Nat]
    BY <2>1, <2>3, <2>5
  <2>7. bRoom' = 0 /\ bRoom = 0 /\ bpc' \notin BarberLabels \cup WritingLabels \cup {"off"}
    BY <2>1 DEF bRoom, One, RoomB, BarberLabels, WritingLabels
  <2>8. nRoom' = nRoom /\ nRoom \in Nat
    BY <2>1, BarberCounts, CountsAreNaturals DEF CountsType
  <2>9. inRoom' + bRoom' <= 1 /\ ("WRSeats" \notin made' => inRoom' = 0)
    <3>1. CASE s # "WRSeats" \/ s \in made
      <4>1. tRoom' = tRoom
        BY <2>1, <2>3, <3>1 DEF tRoom, Semaphores
      <4> QED BY <2>1, <2>7, <2>8, <4>1 DEF inRoom
    <3>2. CASE s = "WRSeats" /\ s \notin made
      <4>1. inRoom = 0 /\ bpc # "closed"
        BY <2>1, <3>2
      <4>2. nRoom = 0
        BY <4>1, <2>8 DEF inRoom, tRoom, Semaphores
      <4>3. tRoom' = 1
        BY <2>1, <2>3, <2>5, <3>2 DEF tRoom
      <4> QED BY <2>1, <2>7, <2>8, <3>2, <4>2, <4>3 DEF inRoom
    <3> QED BY <3>1, <3>2
  <2>10. \A t \in Semaphores \ made' : sem'[t] = 0
    BY <2>1, <2>3
  <2>11. \A c \in Clients : handles'[c] \subseteq made'
    BY <2>1
  <2> QED BY <2>1, <2>3, <2>4, <2>6, <2>7, <2>9, <2>10, <2>11
<1>3. CASE InitInvites
  <2>1. PICK forgotten \in SUBSET {c \in Clients : pc[c] = "sit_waitInvite"} :
          pc' = [c \in Clients |-> IF c \in forgotten THEN "forgotten" ELSE pc[c]]
    BY <1>3 DEF InitInvites
  <2>2. /\ bpc = "opening" /\ opened = 5 /\ bpc' = "waitWR"
        /\ UNCHANGED <<sem, seg, made, opened, handles>>
    BY <1>3 DEF InitInvites, Order, names
  <2>3. made = Semaphores
    BY <2>2, OrderIsAll
  <2>4. pc' \in [Clients -> AnyClientLabel]
    BY <2>1 DEF AnyClientLabel
  <2>5. nRoom' = nRoom
    <3>1. \A c \in Clients : pc'[c] \in RoomC <=> pc[c] \in RoomC
      BY <2>1 DEF RoomC
    <3>2. {c \in Clients : pc'[c] \in RoomC} = {c \in Clients : pc[c] \in RoomC}
      BY <3>1
    <3> QED BY <3>2 DEF nRoom, CountAt
  <2>6. inRoom' = inRoom /\ bRoom' = 0 /\ bRoom = 0
    BY <2>2, <2>5 DEF inRoom, tRoom, bRoom, One, RoomB
  <2>7. /\ bpc' \in BarberLabels /\ bpc' \in AnyBarberLabel
        /\ bpc' \notin WritingLabels \cup {"off", "opening"}
    BY <2>2 DEF BarberLabels, AnyBarberLabel, WritingLabels
  <2> QED BY <2>2, <2>3, <2>4, <2>6, <2>7
<1> QED BY <1>1, <1>2, <1>3

\* Its loop and its ends.
LEMMA MadeBarber ==
  ASSUME MadeInv, \/ Barber /\ UNCHANGED <<names, sound>>
                  \/ KillBarber \/ TerminateBarber
  PROVE  MadeInv'
<1> USE DEF MadeInv
<1>1. CASE Barber /\ UNCHANGED <<names, sound>>
  <2>1. UNCHANGED <<seg, made, opened, handles>>
    BY <1>1 DEF names
  <2>2. /\ sem' \in [Semaphores -> Nat] /\ pc' = pc
        /\ bpc \in BarberLabels /\ bpc' \in BarberLabels
        /\ inRoom' + bRoom' = inRoom + bRoom
    BY <1>1, BarberRoom
  <2>3. bpc' \in AnyBarberLabel /\ bpc' \notin WritingLabels \cup {"off", "opening", "closed"}
        /\ bpc \notin WritingLabels \cup {"off", "opening", "closed"}
    BY <2>2 DEF AnyBarberLabel, BarberLabels, WritingLabels
  <2>4. made = Semaphores
    BY <2>2
  <2>5. inRoom' + bRoom' <= 1
    BY <2>2
  <2>6. (\A s \in Semaphores \ made' : sem'[s] = 0) /\ "WRSeats" \in made'
    BY <2>1, <2>4 DEF Semaphores
  <2> QED BY <2>1, <2>2, <2>3, <2>4, <2>5, <2>6
<1>2. CASE KillBarber \/ TerminateBarber
  <2>1. \/ bpc' = "off" /\ opened' = 0 /\ made' = made /\ seg' = seg /\ bpc # "closed"
        \/ bpc' = "closed" /\ made' = {}
    BY <1>2 DEF KillBarber, TerminateBarber
  <2>2. UNCHANGED <<sem, pc, handles>>
    BY <1>2 DEF KillBarber, TerminateBarber
  <2>3. inRoom' = inRoom /\ inRoom \in Nat
    <3>1. nRoom' = nRoom /\ nRoom \in Nat /\ tRoom' = tRoom /\ tRoom \in Nat
      BY <2>2, BarberCounts, CountsAreNaturals DEF CountsType, tRoom, Semaphores
    <3> QED BY <3>1 DEF inRoom
  <2>4. bRoom' = 0 /\ bRoom \in {0, 1}
    BY <2>1 DEF bRoom, One, RoomB
  <2>5. bpc' \in AnyBarberLabel /\ bpc' \notin BarberLabels \cup WritingLabels \cup {"opening"}
    BY <2>1 DEF AnyBarberLabel, BarberLabels, WritingLabels
  <2>6. inRoom' + bRoom' <= 1
    BY <2>3, <2>4
  <2>7. CASE bpc' = "off" /\ opened' = 0 /\ made' = made /\ seg' = seg /\ bpc # "closed"
    BY <2>2, <2>3, <2>5, <2>6, <2>7
  <2>8. CASE bpc' = "closed" /\ made' = {}
    BY <2>2, <2>5, <2>6, <2>8
  <2> QED BY <2>1, <2>7, <2>8
<1> QED BY <1>1, <1>2

\* A client that goes and calls no semaphore; where it holds the room, it may end.
LEMMA MadeClientMoves ==
  ASSUME MadeInv, NEW c \in Clients, NEW to \in AnyClientLabel \ RoomC,
         pc' = [pc EXCEPT ![c] = to], UNCHANGED <<sem, bpc, seg, made, opened>>,
         handles' \in [Clients -> SUBSET Semaphores],
         bpc # "closed" => \A d \in Clients : handles'[d] \subseteq made
  PROVE  MadeInv'
<1> USE DEF MadeInv
<1>1. PICK e \in {0, 1} : nRoom' = nRoom - e /\ nRoom \in Int
  <2>1. ClientAt(c, pc[c], to) /\ pc[c] \in AnyClientLabel
    BY DEF ClientAt
  <2>2. nRoom' = nRoom + One(RoomC, to) - One(RoomC, pc[c]) /\ nRoom \in Nat
    BY <2>1, ClientCounts, CountsAreNaturals DEF CountsMove, CountsType
  <2>3. One(RoomC, to) = 0 /\ One(RoomC, pc[c]) \in {0, 1}
    BY DEF One
  <2> QED BY <2>2, <2>3
<1>2. nRoom' >= 0
  BY CountType, ClientsAssumption DEF nRoom
<1>3. tRoom' = tRoom /\ tRoom \in Nat /\ bRoom' = bRoom /\ bRoom \in {0, 1}
  BY DEF tRoom, Semaphores, bRoom, One
<1>4. inRoom' + bRoom' <= 1
  BY <1>1, <1>3 DEF inRoom
<1>5. inRoom = 0 => inRoom' = 0
  BY <1>1, <1>2, <1>3 DEF inRoom
<1>6. pc' \in [Clients -> AnyClientLabel]
  OBVIOUS
<1> QED BY <1>4, <1>5, <1>6

\* A client uses only what it has opened.
LEMMA UsableSubset == \A h : Usable(h) \subseteq h
<1> SUFFICES ASSUME NEW h, NEW x \in Usable(h) PROVE x \in h
  OBVIOUS
<1>1. PICK j \in 1..5 : x = FirstUses[j] /\ \A k \in 1..j : FirstUses[k] \in h
  BY DEF Usable
<1> QED BY <1>1

\* What clients do with the names.
LEMMA MadeClient ==
  ASSUME MadeInv, NEW c \in Clients, ClientPosix(c) \/ KillClient(c)
  PROVE  MadeInv'
<1> USE DEF MadeInv
<1>1. CASE FindSegment(c)
  <2> DEFINE to == IF seg THEN "opening" ELSE "failed"
  <2>1. to \in AnyClientLabel \ RoomC
    BY DEF AnyClientLabel, RoomC
  <2>2. pc' = [pc EXCEPT ![c] = to] /\ UNCHANGED <<sem, bpc, seg, made, opened, handles>>
    BY <1>1 DEF FindSegment, ClientAt, names
  <2> HIDE DEF to
  <2> QED BY <2>1, <2>2, MadeClientMoves
<1>2. CASE OpenSemaphores(c)
  <2> DEFINE last == IF bpc = "opening" THEN tried[c] + 1 ELSE Len(Order)
             new == {Order[i] : i \in (tried[c] + 1)..last} \cap made
             now == handles[c] \cup new
  <2> HIDE DEF last
  <2>1. /\ pc[c] = "opening" /\ UNCHANGED <<sem, bpc, seg, made, opened>>
        /\ \/ pc' = pc /\ handles' = [handles EXCEPT ![c] = now]
           \/ /\ pc' = [pc EXCEPT ![c] = "waitWR"]
              /\ handles' = [handles EXCEPT ![c] = Usable(now)]
    BY <1>2 DEF OpenSemaphores, last
  <2>2. new \subseteq made
    OBVIOUS
  <2> HIDE DEF new
  <2>3. now \subseteq handles[c] \cup made /\ Usable(now) \subseteq handles[c] \cup made
    BY <2>2, UsableSubset
  <2> HIDE DEF now
  <2>4. PICK h \in SUBSET (handles[c] \cup made) : handles' = [handles EXCEPT ![c] = h]
    BY <2>1, <2>3
  <2>5. handles' \in [Clients -> SUBSET Semaphores]
    BY <2>4
  <2>6. bpc # "closed" => \A d \in Clients : handles'[d] \subseteq made
    BY <2>4
  <2>7. \E to \in {"opening", "waitWR"} : pc' = [pc EXCEPT ![c] = to]
    BY <2>1
  <2> QED BY <2>1, <2>5, <2>6, <2>7, MadeClientMoves DEF AnyClientLabel, ClientLabels, RoomC
<1>3. CASE clientProc(c)
  <2>1. /\ Uses(pc[c]) \subseteq handles[c] /\ UNCHANGED <<seg, made, opened, handles>>
        /\ KeepsRoom(c)
    BY <1>3, ClientRoom DEF clientProc, names
  <2>2. /\ bpc' = bpc /\ pc' \in [Clients -> AnyClientLabel]
        /\ sem' \in [Semaphores -> Nat] /\ inRoom' = inRoom
        /\ \A s \in Semaphores \ Uses(pc[c]) : sem'[s] = sem[s]
    BY <2>1 DEF KeepsRoom
  <2>3. bRoom' = bRoom
    BY <2>2 DEF bRoom
  <2>4. bpc # "closed" => \A s \in Semaphores \ made : sem'[s] = 0
    <3> SUFFICES ASSUME bpc # "closed", NEW s \in Semaphores \ made PROVE sem'[s] = 0
      OBVIOUS
    <3>1. s \notin Uses(pc[c])
      BY <2>1
    <3> QED BY <2>2, <3>1
  <2> QED BY <2>1, <2>2, <2>3, <2>4
<1>4. CASE EndClient(c)
  <2>1. /\ pc' = [pc EXCEPT ![c] = "ended"] /\ handles' = [handles EXCEPT ![c] = {}]
        /\ UNCHANGED <<sem, bpc, seg, made, opened>>
    BY <1>4 DEF EndClient
  <2>2. handles' \in [Clients -> SUBSET Semaphores]
    BY <2>1
  <2>3. bpc # "closed" => \A d \in Clients : handles'[d] \subseteq made
    BY <2>1
  <2> QED BY <2>1, <2>2, <2>3, MadeClientMoves DEF AnyClientLabel, RoomC
<1> QED BY <1>1, <1>2, <1>3, <1>4 DEF ClientPosix, Crash, KillClient

\* Names and room agree in every behaviour of zad2.
LEMMA MadeInvInductive == SpecPosix => []MadeInv
<1>1. InitPosix => MadeInv
  <2> SUFFICES ASSUME InitPosix PROVE MadeInv
    OBVIOUS
  <2>1. {c \in Clients : pc[c] \in RoomC} = {}
    BY DEF InitPosix, RoomC
  <2>2. nRoom = 0 /\ tRoom = 0 /\ bRoom = 0
    BY <2>1, FS_EmptySet DEF InitPosix, nRoom, CountAt, tRoom, Semaphores, bRoom, One, RoomB
  <2>3. /\ bpc \in AnyBarberLabel /\ bpc \notin BarberLabels
        /\ pc \in [Clients -> AnyClientLabel]
    BY DEF InitPosix, AnyBarberLabel, BarberLabels, AnyClientLabel
  <2>4. bpc \notin WritingLabels \cup {"opening", "closed"}
    BY DEF InitPosix, WritingLabels
  <2> QED BY <2>2, <2>3, <2>4 DEF InitPosix, MadeInv, inRoom
<1>2. MadeInv /\ [NextPosix]_varsPosix => MadeInv'
  <2> SUFFICES ASSUME MadeInv, [NextPosix]_varsPosix PROVE MadeInv'
    OBVIOUS
  <2>1. CASE BarberPosix \/ KillBarber \/ TerminateBarber
    BY <2>1, MadeOpening, MadeBarber DEF BarberPosix, Writing
  <2>2. ASSUME NEW c \in Clients, ClientPosix(c) \/ KillClient(c) PROVE MadeInv'
    BY <2>2, MadeClient
  <2>3. CASE UNCHANGED varsPosix
    <3>1. UNCHANGED <<sem, pc, bpc, handles, made, opened, seg>>
      BY <2>3 DEF varsPosix, vars, names
    <3>2. UNCHANGED <<inRoom, bRoom>>
      BY <3>1 DEF inRoom, nRoom, tRoom, bRoom
    <3> QED BY <3>1, <3>2 DEF MadeInv
  <2> QED BY <2>1, <2>2, <2>3 DEF NextPosix
<1> QED BY <1>1, <1>2, PTL DEF SpecPosix

-----------------------------------------------------------------------------
\* Nobody is counted in an empty shop.
LEMMA EmptyShop ==
  ASSUME ShopIsEmpty
  PROVE  /\ nRoom = 0 /\ nSleep = 0 /\ nComing = 0 /\ nBound = 0 /\ nCalled = 0
         /\ nChair = 0 /\ Seats = 0
<1>1. \A L : L \cap Outside = {} => CountAt(Clients, pc, L) = 0
  <2> SUFFICES ASSUME NEW L, L \cap Outside = {} PROVE CountAt(Clients, pc, L) = 0
    OBVIOUS
  <2>1. {c \in Clients : pc[c] \in L} = {}
    BY DEF ShopIsEmpty
  <2> QED BY <2>1, FS_EmptySet DEF CountAt
<1>2. /\ RoomC \cap Outside = {} /\ SleepC \cap Outside = {} /\ ComingC \cap Outside = {}
      /\ BoundC \cap Outside = {} /\ CalledC \cap Outside = {} /\ ChairC \cap Outside = {}
      /\ SeatLabels \cap Outside = {}
  BY DEF RoomC, SleepC, ComingC, BoundC, CalledC, ChairC, SeatLabels, Outside
<1> QED BY <1>1, <1>2 DEF nRoom, nSleep, nComing, nBound, nCalled, nChair, Seats

\* A client that comes, opens its semaphores or ends outside disturbs nobody.
LEMMA OutsideMove ==
  ASSUME ShopInv, CutsInv, NEW c \in Clients, NEW from \in Outside \ {"done"},
         NEW to \in Outside \ {"done"}, ClientAt(c, from, to),
         UNCHANGED <<shared, sem, invites, bpc, locals>>
  PROVE  Kept /\ CutsInv'
<1>1. /\ One(RoomC, to) = 0 /\ One(RoomC, from) = 0 /\ One(SleepC, to) = 0
      /\ One(SleepC, from) = 0 /\ One(ComingC, to) = 0 /\ One(ComingC, from) = 0
      /\ One(BoundC, to) = 0 /\ One(BoundC, from) = 0 /\ One(CalledC, to) = 0
      /\ One(CalledC, from) = 0 /\ One(ChairC, to) = 0 /\ One(ChairC, from) = 0
      /\ One(SeatLabels, to) = 0 /\ One(SeatLabels, from) = 0
  BY DEF One, RoomC, SleepC, ComingC, BoundC, CalledC, ChairC, SeatLabels, Outside
<1>2. TypeInv /\ InviteInv /\ FlagLow
  BY DEF ShopInv
<1>3. CountsMove(from, to)
  BY <1>2, ClientCounts DEF TypeInv
<1>4. UNCHANGED <<nRoom, nSleep, nComing, nBound, nCalled, nChair, Seats>>
  BY <1>1, <1>3, CountsAreNaturals DEF CountsMove, CountsType
<1>5. UNCHANGED <<tRoom, tSleep, tReady, tSeat, tDone, queued, Inviting, Flag, free>>
  BY DEF shared, tRoom, tSleep, tReady, tSeat, tDone, queued, Inviting, Flag
<1>6. UNCHANGED books
  BY <1>4, <1>5 DEF books, inRoom, inSleep, places, announced, bound, called, seated
<1>7. pc' \in [Clients -> AnyClientLabel]
  BY <1>2 DEF ClientAt, TypeInv, Outside, AnyClientLabel, ClientLabels
<1>8. TypeInv' /\ InviteInv' /\ FlagLow'
  BY <1>2, <1>4, <1>7 DEF shared, locals, TypeInv, Linked, InviteInv, FlagLow
<1>9. CutsInv'
  <2>1. \A d \in Clients : pc'[d] # "done" => pc[d] # "done"
    BY <1>2 DEF ClientAt, TypeInv
  <2> QED BY <2>1 DEF CutsInv, locals
<1> QED BY <1>6, <1>8, <1>9 DEF Kept, shared

\* Without an open invitation no client changes the invitations.
LEMMA ClientInvites ==
  ASSUME TypeInv, invites = [i \in 0..(N - 1) |-> 0], NEW c \in Clients, Client(c)
  PROVE  invites' = invites
<1>1. ~AwaitInvite(c)
  <2>1. invites[myID[c]] = 0
    BY DEF TypeInv
  <2> QED BY <2>1 DEF AwaitInvite
<1> QED BY <1>1 DEF Client, ClientLock, WakeBarber, TakeSeat, TurnAway, ClientUnlock,
     Announce, LeaveSeat, SitInChair, LeaveShop, ClientWait, ClientSignal

\* What a client does that is not cut short inside the shop.
LEMMA SoundClient ==
  ASSUME ShopInv, CutsInv, seg, NEW c \in Clients, ClientPosix(c) \/ KillClient(c), sound'
  PROVE  /\ Kept /\ CutsInv' /\ UNCHANGED <<bpc, seg, made>>
         /\ invites = [i \in 0..(N - 1) |-> 0] => invites' = invites
<1>1. CASE FindSegment(c)
  <2>1. /\ ClientAt(c, "start", "opening")
        /\ UNCHANGED <<shared, sem, invites, bpc, locals, seg, made>>
    BY <1>1 DEF FindSegment, names
  <2> QED BY <2>1, OutsideMove DEF Outside
<1>2. CASE OpenSemaphores(c)
  <2>1. /\ UNCHANGED <<shared, sem, invites, bpc, locals, seg, made>>
        /\ \E to \in {"opening", "waitWR"} : ClientAt(c, "opening", to)
    <3>1. pc[c] = "opening" /\ UNCHANGED <<shared, sem, invites, bpc, locals, seg, made>>
      BY <1>2 DEF OpenSemaphores
    <3>2. pc' = pc \/ pc' = [pc EXCEPT ![c] = "waitWR"]
      BY <1>2 DEF OpenSemaphores
    <3>3. pc = [pc EXCEPT ![c] = "opening"]
      BY <3>1 DEF ShopInv, TypeInv
    <3> QED BY <3>1, <3>2, <3>3 DEF ClientAt
  <2> QED BY <2>1, OutsideMove DEF Outside
<1>3. CASE clientProc(c)
  <2>1. Client(c) /\ UNCHANGED <<seg, made>>
    BY <1>3 DEF clientProc, names
  <2>2. Kept /\ bpc' = bpc
    BY <2>1, ClientStep
  <2>3. TypeInv /\ [Next]_vars
    BY <2>1 DEF ShopInv, Next
  <2> QED BY <2>1, <2>2, <2>3, CutsStep, ClientInvites
<1>4. CASE EndClient(c)
  <2>1. ClientAt(c, "waitWR", "ended")
    BY <1>4 DEF EndClient, ClientAt, ClientLabels, Outside
  <2>2. UNCHANGED <<shared, sem, invites, bpc, locals, seg, made>>
    BY <1>4 DEF EndClient
  <2> QED BY <2>1, <2>2, OutsideMove DEF Outside
<1> QED BY <1>1, <1>2, <1>3, <1>4 DEF ClientPosix, Crash, KillClient

\* A shop that is left stays as it is while clients come and wait.
LEMMA KeptLeft ==
  ASSUME NEW g \in {0, 1}, Left(g), Kept, CutsInv', UNCHANGED <<bpc, seg, made, invites>>
  PROVE  Left(g)'
<1>1. ShopInv'
  BY KeptShop DEF Left
<1>2. UNCHANGED <<inRoom, inSleep, announced, bound, called, seated>>
  BY DEF Kept, books
<1>3. UNCHANGED <<Exists("WRSeats"), Exists("BarberSleeps")>>
  BY DEF Exists
<1>4. barberSleeps' => barberSleeps
  BY DEF Kept
<1> QED BY <1>1, <1>2, <1>3, <1>4 DEF Left

\* So does one that is open.
LEMMA KeptServing ==
  ASSUME Serving, Kept, CutsInv', bpc' = bpc
  PROVE  Serving'
BY KeptAccounts DEF Serving

-----------------------------------------------------------------------------
\* A shop that is left and empty: nothing is pending but what the flag says.
LEMMA LeftEmpty ==
  ASSUME NEW g \in {0, 1}, Left(g), ShopIsEmpty
  PROVE  /\ tReady = 0 /\ tSeat = 0 /\ tDone = 0 /\ queued = 0 /\ Inviting = 0
         /\ Flag = g /\ free = N
<1>1. TokensType
  BY TokensAreNaturals DEF Left, ShopInv
<1>2. /\ nComing = 0 /\ nBound = 0 /\ nCalled = 0 /\ nChair = 0 /\ Seats = 0
  BY EmptyShop
<1>3. Seats - queued - Inviting - nCalled = 0 /\ nChair - tSeat - tDone = 0
  BY DEF Left, called, seated
<1>4. queued = 0 /\ Inviting = 0 /\ tSeat = 0 /\ tDone = 0
  BY <1>1, <1>2, <1>3 DEF TokensType
<1>5. tReady + nComing + Flag - queued = tSeat + nBound + (Seats - queued) + Flag
  BY DEF Left, announced, bound
<1>6. tReady = 0
  BY <1>1, <1>2, <1>4, <1>5 DEF TokensType
<1>7. Flag = g
  BY <1>1, <1>2, <1>4, <1>6 DEF Left, announced, TokensType
<1>8. free = N
  BY <1>1, <1>2 DEF Left, ShopInv, places, TokensType
<1> QED BY <1>4, <1>6, <1>7, <1>8

\* A write that finds the shop empty, nothing pending and every seat free leaves the
\* books in order.
LEMMA WriteEmpty ==
  ASSUME NEW from, NEW to \in WritingLabels \cup {"opening"}, Writes(from, to), seg,
         ShopIsEmpty, NEW g \in {0, 1}, Flag' = g, to \in FlagWritten => g = 0,
         free' = N, barberSleeps' \in BOOLEAN,
         fifo' \in Rings(Clients, N), Linked(fifo)', queued' = 0,
         tReady = 0, tSeat = 0, tDone = 0,
         tRoom = Exists("WRSeats"), tSleep = Exists("BarberSleeps"),
         invites = [i \in 0..(N - 1) |-> 0],
         clientThatCame \in Clients \cup {NoPid}, sem \in [Semaphores -> Nat],
         toCut \in [id : 0..(N - 1), pid : Clients \cup {NoPid}],
         pc \in [Clients -> AnyClientLabel],
         myID \in [Clients -> 0..(N - 1)], cutsNr \in [Clients -> 0..S], CutsInv
  PROVE  Left(g)'
<1>1. /\ bpc' = to /\ UNCHANGED <<clientThatCame, sem, invites, locals, pc, seg, made>>
  BY DEF Writes, BarberAt, names
<1>2. bpc' \in FlagWritten => ~barberSleeps'
  BY <1>1 DEF Flag
<1>3. /\ nRoom' = 0 /\ nSleep' = 0 /\ nComing' = 0 /\ nBound' = 0 /\ nCalled' = 0
      /\ nChair' = 0 /\ Seats' = 0
  BY <1>1, EmptyShop, BarberCounts
<1>4. /\ tReady' = 0 /\ tSeat' = 0 /\ tDone' = 0
      /\ tRoom' = Exists("WRSeats")' /\ tSleep' = Exists("BarberSleeps")'
  BY <1>1 DEF tReady, tSeat, tDone, tRoom, tSleep, Exists
<1>5. Inviting' = 0 /\ InviteInv'
  BY <1>1 DEF Inviting, InviteInv
<1>6. TypeInv'
  <2>1. bpc' \in AnyBarberLabel
    BY <1>1 DEF AnyBarberLabel
  <2>2. invites' \in [0..(N - 1) -> Nat]
    BY <1>1
  <2>3. free' \in Nat
    BY NAssumption
  <2> QED BY <1>1, <2>1, <2>2, <2>3 DEF TypeInv, locals
<1>7. /\ inRoom' = Exists("WRSeats")' /\ inSleep' = Exists("BarberSleeps")'
      /\ places' = N /\ announced' = g /\ bound' = g /\ called' = 0 /\ seated' = 0
  <2>1. Exists("WRSeats")' \in Nat /\ Exists("BarberSleeps")' \in Nat
    BY DEF Exists
  <2> QED BY <1>1, <1>3, <1>4, <1>5, <2>1, NAssumption
      DEF inRoom, inSleep, places, announced, bound, called, seated
<1>8. ShopInv'
  BY <1>3, <1>5, <1>6, <1>7 DEF ShopInv, FlagLow
<1>9. CutsInv'
  BY <1>1 DEF CutsInv, locals
<1> QED BY <1>1, <1>2, <1>7, <1>8, <1>9 DEF Left

\* Before the segment is written for the first time a client finds no segment, or no
\* semaphore in it, and the first barber may be killed and another start.
LEMMA BlankStep ==
  ASSUME MadeInv, Blank, NextPosix, sound'
  PROVE  Blank' \/ Left(0)'
<1> USE DEF WritingLabels
<1>1. /\ \A c \in Clients : pc[c] \in {"start", "failed", "opening", "waitWR", "ended"}
      /\ pc \in [Clients -> {"start", "failed", "opening", "waitWR", "ended"}]
  BY DEF Blank
<1>2. CASE OpenSegment
  BY <1>2 DEF OpenSegment, Blank, shared, locals
<1>3. CASE WriteSeats
  BY <1>3 DEF WriteSeats, Writes, BarberAt, Blank, names, locals
<1>4. CASE WriteFlag
  BY <1>4 DEF WriteFlag, Writes, BarberAt, Blank, names, locals
<1>5. CASE WriteQueue
  <2>1. UNCHANGED <<free, barberSleeps>>
    BY <1>5 DEF WriteQueue
  <2>2. CASE Writes("init_slots", "init_ends") /\ fifo' = ClearSlots(fifo)
    <3>1. fifo' = fifo
      BY <2>2, FreshQueue DEF Blank
    <3> QED BY <2>1, <2>2, <3>1 DEF Writes, BarberAt, Blank, names, locals
  <2>3. CASE Writes("init_ends", "init_size") /\ fifo' = ClearEnds(fifo)
    <3>1. fifo' = fifo
      BY <2>3, FreshQueue DEF Blank
    <3> QED BY <2>1, <2>3, <3>1 DEF Writes, BarberAt, Blank, names, locals
  <2>4. CASE Writes("init_size", "opening") /\ fifo' = SetSize(fifo, N)
    <3>1. ShopIsEmpty /\ seg
      BY <1>1, <2>4 DEF ShopIsEmpty, Outside, MadeInv, Blank, Writes, BarberAt
    <3>2. /\ fifo' \in Rings(Clients, N) /\ Linked(fifo)' /\ queued' = 0
      BY <2>4, FreshQueue DEF Blank, queued, Linked
    <3>3. /\ tReady = 0 /\ tSeat = 0 /\ tDone = 0 /\ tRoom = 0 /\ tSleep = 0
          /\ Exists("WRSeats") = 0 /\ Exists("BarberSleeps") = 0
      BY DEF Blank, tReady, tSeat, tDone, tRoom, tSleep, Semaphores, Exists
    <3>4. /\ sem \in [Semaphores -> Nat] /\ clientThatCame \in Clients \cup {NoPid}
          /\ pc \in [Clients -> AnyClientLabel]
      BY DEF Blank, AnyClientLabel, ClientLabels
    <3>5. toCut \in [id : 0..(N - 1), pid : Clients \cup {NoPid}]
      BY NAssumption DEF Blank, Slot
    <3>6. myID \in [Clients -> 0..(N - 1)] /\ cutsNr \in [Clients -> 0..S] /\ CutsInv
      BY NAssumption, SAssumption DEF Blank, CutsInv
    <3>7. invites = [i \in 0..(N - 1) |-> 0]
      BY DEF Blank
    <3>8. free' = N /\ barberSleeps' = FALSE /\ Flag' = 0
      BY <2>1, <2>4 DEF Blank, Writes, BarberAt, Flag
    <3> QED BY <2>4, <3>1, <3>2, <3>3, <3>4, <3>5, <3>6, <3>7, <3>8, WriteEmpty
  <2> QED BY <1>5, <2>2, <2>3, <2>4 DEF WriteQueue
<1>6. CASE KillBarber
  BY <1>6 DEF KillBarber, Blank, shared
<1>7. ASSUME NEW c \in Clients, ClientPosix(c) \/ KillClient(c) PROVE Blank'
  <2>1. ASSUME NEW to \in {"failed", "opening", "waitWR", "ended"},
               pc' = pc \/ pc' = [pc EXCEPT ![c] = to],
               UNCHANGED <<shared, sem, invites, bpc, locals, made>>
        PROVE  Blank'
    <3>1. pc' \in [Clients -> {"start", "failed", "opening", "waitWR", "ended"}]
      BY <1>1, <2>1
    <3> QED BY <2>1, <3>1 DEF Blank, shared, locals
  <2>2. CASE FindSegment(c)
    <3>1. \E to \in {"failed", "opening"} : pc' = [pc EXCEPT ![c] = to]
      BY <2>2 DEF FindSegment, ClientAt
    <3> QED BY <2>1, <2>2, <3>1 DEF FindSegment, names
  <2>3. CASE OpenSemaphores(c)
    <3>1. pc' = pc \/ pc' = [pc EXCEPT ![c] = "waitWR"]
      BY <2>3 DEF OpenSemaphores
    <3> QED BY <2>1, <2>3, <3>1 DEF OpenSemaphores
  <2>4. ~clientProc(c)
    <3>1. CASE pc[c] = "waitWR"
      <4>1. Uses(pc[c]) = {"WRSeats"} /\ handles[c] = {}
        BY <3>1 DEF Uses, MadeInv, Blank
      <4> QED BY <4>1 DEF clientProc
    <3>2. CASE pc[c] # "waitWR"
      <4>1. pc[c] \notin ClientLabels
        BY <1>1, <3>2 DEF ClientLabels
      <4>2. ~Client(c)
        BY <4>1
        DEF Client, ClientLock, WakeBarber, TakeSeat, TurnAway, ClientUnlock, Announce,
           AwaitInvite, LeaveSeat, SitInChair, LeaveShop, ClientWait, ClientSignal, ClientAt,
           ClientLabels
      <4> QED BY <4>2 DEF clientProc
    <3> QED BY <3>1, <3>2
  <2>5. CASE EndClient(c)
    BY <2>1, <2>5 DEF EndClient
  <2> QED BY <1>7, <2>2, <2>3, <2>4, <2>5 DEF ClientPosix, KillClient, Crash
<1>8. ~(TerminateBarber \/ CreateSemaphore \/ InitInvites \/ Barber)
  <2>1. bpc \notin BarberLabels \cup {"opening"}
    BY DEF Blank, BarberLabels
  <2> QED BY <2>1, BarberRoom DEF MadeInv, TerminateBarber, CreateSemaphore, InitInvites
<1> QED BY <1>2, <1>3, <1>4, <1>5, <1>6, <1>7, <1>8 DEF NextPosix, BarberPosix

\* sem_open makes a semaphore with its initial value, or finds the one of before.
LEMMA CreateStep ==
  ASSUME MadeInv, Left(0), CreateSemaphore
  PROVE  Left(0)'
<1> DEFINE s == Order[opened + 1]
           initial == IF s \in {"WRSeats", "BarberSleeps"} THEN 1 ELSE 0
<1>1. /\ bpc = "opening" /\ opened < 5 /\ made' = made \cup {s}
      /\ sem' = IF s \in made THEN sem ELSE [sem EXCEPT ![s] = initial]
      /\ UNCHANGED <<shared, invites, bpc, locals, pc, seg>>
  BY DEF CreateSemaphore, Order
<1>2. s \in Semaphores
  <2>1. opened + 1 \in 1..5
    BY <1>1 DEF MadeInv
  <2> QED BY <2>1, OrderIs
<1>3. s \notin made => sem[s] = 0
  BY <1>1, <1>2 DEF MadeInv
<1>4. initial \in Nat /\ (s \in {"WRSeats", "BarberSleeps"} => initial = 1)
      /\ (s \notin {"WRSeats", "BarberSleeps"} => initial = 0)
  OBVIOUS
<1> HIDE DEF s, initial
<1>5. sem \in [Semaphores -> Nat]
  BY DEF MadeInv
<1>6. sem' \in [Semaphores -> Nat]
  BY <1>1, <1>2, <1>4, <1>5
<1>7. \A t \in Semaphores \ {"WRSeats", "BarberSleeps"} : sem'[t] = sem[t]
  BY <1>1, <1>2, <1>3, <1>4, <1>5
<1>8. tReady' = tReady /\ tSeat' = tSeat /\ tDone' = tDone
  BY <1>7 DEF tReady, tSeat, tDone, Semaphores
<1>9. \A t \in {"WRSeats", "BarberSleeps"} : \E d \in {0, 1} :
        sem'[t] = sem[t] + d /\ Exists(t)' = Exists(t) + d
  <2> SUFFICES ASSUME NEW t \in {"WRSeats", "BarberSleeps"}
               PROVE  \E d \in {0, 1} : sem'[t] = sem[t] + d /\ Exists(t)' = Exists(t) + d
    OBVIOUS
  <2>1. t \in Semaphores
    BY DEF Semaphores
  <2>2. CASE t # s \/ s \in made
    BY <1>1, <1>2, <1>5, <2>1, <2>2 DEF Exists
  <2>3. CASE t = s /\ s \notin made
    BY <1>1, <1>2, <1>3, <1>4, <1>5, <2>1, <2>3 DEF Exists
  <2> QED BY <2>2, <2>3
<1>10. UNCHANGED <<nRoom, nSleep, nComing, nBound, nCalled, nChair, Seats>>
  BY <1>1, BarberCounts
<1>11. UNCHANGED <<queued, Inviting, Flag, free>>
  BY <1>1 DEF queued, Inviting, Flag, shared
<1>12. inRoom' = Exists("WRSeats")' /\ inSleep' = Exists("BarberSleeps")'
  <2>1. PICK d \in {0, 1} :
          tRoom' = tRoom + d /\ Exists("WRSeats")' = Exists("WRSeats") + d
    BY <1>9 DEF tRoom
  <2>2. PICK e \in {0, 1} :
          tSleep' = tSleep + e /\ Exists("BarberSleeps")' = Exists("BarberSleeps") + e
    BY <1>9 DEF tSleep
  <2>3. inRoom = Exists("WRSeats") /\ inSleep = Exists("BarberSleeps")
    BY DEF Left
  <2>4. tRoom \in Int /\ tSleep \in Int /\ nRoom \in Int /\ nSleep \in Int
    BY <1>5, CountsAreNaturals DEF tRoom, tSleep, Semaphores, CountsType
  <2> QED BY <1>10, <2>1, <2>2, <2>3, <2>4 DEF inRoom, inSleep
<1>13. UNCHANGED <<places, announced, bound, called, seated>>
  BY <1>8, <1>10, <1>11 DEF places, announced, bound, called, seated
<1>14. ShopInv'
  <2>1. TypeInv'
    BY <1>1, <1>6 DEF Left, ShopInv, TypeInv, Linked, shared, locals
  <2> QED BY <1>1, <1>10, <1>13, <2>1 DEF Left, ShopInv, InviteInv, FlagLow, shared
<1>15. CutsInv'
  BY <1>1 DEF Left, CutsInv, locals
<1> QED BY <1>1, <1>12, <1>13, <1>14, <1>15 DEF Left, shared

\* A barber that has made all five starts where it would look at the room.
LEMMA ServeStep ==
  ASSUME MadeInv, Left(0), InitInvites, sound'
  PROVE  Serving'
<1>1. /\ bpc = "opening" /\ opened = 5 /\ bpc' = "waitWR"
      /\ invites' = invites /\ UNCHANGED <<shared, sem, locals>>
  BY DEF InitInvites, Order, Left
<1>2. pc' = pc
  <2>1. PICK forgotten \in SUBSET {c \in Clients : pc[c] = "sit_waitInvite"} :
          /\ pc' = [c \in Clients |-> IF c \in forgotten THEN "forgotten" ELSE pc[c]]
          /\ sound' = (sound /\ forgotten = {})
    BY DEF InitInvites
  <2>2. pc \in [Clients -> AnyClientLabel]
    BY DEF MadeInv
  <2> QED BY <2>1, <2>2
<1>3. made = Semaphores
  BY <1>1, OrderIsAll DEF MadeInv
<1>4. Exists("WRSeats") = 1 /\ Exists("BarberSleeps") = 1
  BY <1>3 DEF Exists, Semaphores
<1>5. UNCHANGED books
  <2>1. UNCHANGED <<nRoom, nSleep, nComing, nBound, nCalled, nChair, Seats>>
    BY <1>2, BarberCounts
  <2>2. UNCHANGED <<tRoom, tSleep, tReady, tSeat, tDone, queued, Inviting, Flag, free>>
    BY <1>1 DEF shared, tRoom, tSleep, tReady, tSeat, tDone, queued, Inviting, Flag
  <2> QED BY <2>1, <2>2 DEF books, inRoom, inSleep, places, announced, bound, called, seated
<1>6. /\ bRoom' = 0 /\ bSleep' = 0 /\ bComing' = 0 /\ bBound' = 0
      /\ bCalled' = 0 /\ bCut' = 0
  BY <1>1 DEF One, bRoom, bSleep, bComing, bBound, bCalled, bCut, RoomB, SleepB, ComingB,
              BoundB, CalledB, CutB
<1>7. Accounts'
  BY <1>4, <1>5, <1>6 DEF Left, ShopInv, Accounts, books
<1>8. TypeInv' /\ InviteInv' /\ FlagInv'
  <2>1. bpc' \in AnyBarberLabel
    BY <1>1 DEF AnyBarberLabel, BarberLabels
  <2>2. TypeInv'
    BY <1>1, <1>2, <2>1 DEF Left, ShopInv, TypeInv, Linked, shared, locals
  <2>3. InviteInv'
    BY <1>1 DEF Left, ShopInv, InviteInv
  <2>4. ~barberSleeps'
    BY <1>1 DEF Left, FlagWritten, shared
  <2> QED BY <2>2, <2>3, <2>4 DEF FlagInv
<1>9. CutsInv'
  BY <1>1, <1>2 DEF Left, CutsInv, locals
<1>10. bpc' \in BarberLabels
  BY <1>1 DEF BarberLabels
<1> QED BY <1>7, <1>8, <1>9, <1>10 DEF Serving, IInv

\* A barber that is killed changes no book, nor does the next when it starts.
LEMMA KilledBooks ==
  ASSUME KillBarber \/ OpenSegment, ShopInv, CutsInv
  PROVE  ShopInv' /\ CutsInv' /\ UNCHANGED books
<1>1. /\ bpc' \in {"off", "init_seats"} /\ toCut' \in {toCut, Slot(0, NoPid)}
      /\ UNCHANGED <<shared, sem, invites, pc, myID, cutsNr>>
  BY DEF KillBarber, OpenSegment, locals
<1>2. UNCHANGED <<nRoom, nSleep, nComing, nBound, nCalled, nChair, Seats>>
  BY <1>1, BarberCounts
<1>3. UNCHANGED <<tRoom, tSleep, tReady, tSeat, tDone, queued, Inviting, Flag, free>>
  BY <1>1 DEF shared, tRoom, tSleep, tReady, tSeat, tDone, queued, Inviting, Flag
<1>4. UNCHANGED books
  BY <1>2, <1>3 DEF books, inRoom, inSleep, places, announced, bound, called, seated
<1>5. bpc' \in AnyBarberLabel /\ toCut' \in [id : 0..(N - 1), pid : Clients \cup {NoPid}]
  BY <1>1, NAssumption DEF AnyBarberLabel, WritingLabels, Slot, ShopInv, TypeInv
<1>6. TypeInv'
  BY <1>1, <1>5 DEF ShopInv, TypeInv, Linked, shared
<1>7. ShopInv'
  BY <1>1, <1>2, <1>4, <1>6 DEF ShopInv, InviteInv, FlagLow, shared, books
<1> QED BY <1>1, <1>4, <1>7 DEF CutsInv

\* Killed in an empty shop, it leaves the books for the next one.
LEMMA KillServing ==
  ASSUME MadeInv, Serving, KillBarber, sound'
  PROVE  Left(0)' \/ Left(1)'
<1>1. /\ bpc' = "off" /\ ShopIsEmpty
      /\ bpc \in WritingLabels \cup {"opening", "waitWR", "sleep_waitCR"}
      /\ UNCHANGED <<shared, sem, invites, pc, made, seg>>
  BY DEF KillBarber
<1>2. bpc \in {"waitWR", "sleep_waitCR"} /\ seg /\ made = Semaphores
  BY <1>1 DEF Serving, MadeInv, BarberLabels, WritingLabels
<1>3. IInv /\ CutsInv /\ Accounts /\ TokensType
  BY TokensAreNaturals DEF Serving, IInv
<1>4. ShopInv' /\ CutsInv' /\ UNCHANGED books
  BY <1>3, AccountsShop, KilledBooks
<1>5. Exists("WRSeats")' = 1 /\ Exists("BarberSleeps")' = 1
  BY <1>1, <1>2 DEF Exists, Semaphores
<1>6. bRoom = 0 /\ bSleep = 0 /\ bCalled = 0 /\ bCut = 0
  BY <1>2 DEF One, bRoom, bSleep, bCalled, bCut, RoomB, SleepB, ComingB, CalledB, CutB
<1>7. invites' = [i \in 0..(N - 1) |-> 0]
  <2>1. nCalled = 0 /\ Seats = 0
    BY <1>1, EmptyShop
  <2>2. Seats - queued - Inviting - nCalled = 0
    BY <1>3, <1>6 DEF Accounts, called
  <2>3. Inviting = 0
    BY <1>3, <2>1, <2>2 DEF TokensType
  <2>4. \A i \in 0..(N - 1) : invites[i] = 0
    BY <2>3 DEF Inviting
  <2>5. invites \in [0..(N - 1) -> Nat]
    BY <1>3 DEF IInv, TypeInv
  <2> QED BY <1>1, <2>4, <2>5
<1>8. /\ inRoom' = Exists("WRSeats")' /\ inSleep' = Exists("BarberSleeps")'
      /\ called' = 0 /\ seated' = 0
  BY <1>3, <1>4, <1>5, <1>6 DEF Accounts, books
<1>9. CASE bpc = "waitWR"
  <2>1. bComing = 0 /\ bBound = 0
    BY <1>9 DEF One, bComing, bBound, ComingB, BoundB
  <2>2. announced' = 0 /\ bound' = 0
    BY <1>3, <1>4, <2>1 DEF Accounts, books
  <2> QED BY <1>1, <1>2, <1>4, <1>7, <1>8, <2>2 DEF Left, FlagWritten
<1>10. CASE bpc = "sleep_waitCR"
  <2>1. bComing = 1 /\ bBound = 1
    BY <1>10 DEF One, bComing, bBound, ComingB, BoundB
  <2>2. announced' = 1 /\ bound' = 1
    BY <1>3, <1>4, <2>1 DEF Accounts, books
  <2> QED BY <1>1, <1>2, <1>4, <1>7, <1>8, <2>2 DEF Left, FlagWritten
<1> QED BY <1>2, <1>9, <1>10

\* Killed while it opens, it leaves the books as they are, and the next takes them over.
LEMMA ReopenStep ==
  ASSUME NEW g \in {0, 1}, Left(g), KillBarber \/ OpenSegment
  PROVE  Left(g)'
<1>1. /\ bpc' \in {"off", "init_seats"} /\ seg' /\ UNCHANGED <<shared, invites, made>>
  BY DEF KillBarber, OpenSegment, Left
<1>2. ShopInv' /\ CutsInv' /\ UNCHANGED books
  BY KilledBooks DEF Left
<1>3. UNCHANGED <<Exists("WRSeats"), Exists("BarberSleeps")>>
  BY <1>1 DEF Exists
<1> QED BY <1>1, <1>2, <1>3 DEF Left, FlagWritten, WritingLabels, books

\* It may write to it while nobody is inside: the flag may have been left up, the queue
\* with its front anywhere.
LEMMA WriteStep ==
  ASSUME NEW g \in {0, 1}, Left(g), Writing, sound'
  PROVE  Left(0)' \/ Left(1)'
<1>1. PICK from \in WritingLabels, to \in WritingLabels \cup {"opening"} : Writes(from, to)
  BY WritingIs
<1>2. ShopIsEmpty /\ bpc = from /\ bpc' = to
  BY <1>1 DEF Writes, BarberAt
<1>3. /\ tReady = 0 /\ tSeat = 0 /\ tDone = 0 /\ queued = 0 /\ Flag = g /\ free = N
  BY <1>2, LeftEmpty
<1>4. nRoom = 0 /\ nSleep = 0
  BY <1>2, EmptyShop
<1>5. /\ TypeInv /\ CutsInv /\ invites = [i \in 0..(N - 1) |-> 0] /\ seg
      /\ inRoom = Exists("WRSeats") /\ inSleep = Exists("BarberSleeps")
  BY DEF Left, ShopInv
<1>6. tRoom \in Nat /\ tSleep \in Nat
  BY <1>5, TokensAreNaturals DEF TokensType
<1>7. tRoom = Exists("WRSeats") /\ tSleep = Exists("BarberSleeps")
  BY <1>4, <1>5, <1>6 DEF inRoom, inSleep
<1>8. /\ fifo \in Rings(Clients, N) /\ Linked(fifo) /\ barberSleeps \in BOOLEAN
      /\ clientThatCame \in Clients \cup {NoPid} /\ sem \in [Semaphores -> Nat]
      /\ toCut \in [id : 0..(N - 1), pid : Clients \cup {NoPid}]
      /\ pc \in [Clients -> AnyClientLabel]
      /\ myID \in [Clients -> 0..(N - 1)] /\ cutsNr \in [Clients -> 0..S]
  BY <1>5 DEF TypeInv
<1>9. ASSUME NEW h \in {0, 1}, Flag' = h, to \in FlagWritten => h = 0, free' = N,
             barberSleeps' \in BOOLEAN,
             fifo' \in Rings(Clients, N), Linked(fifo)', queued' = 0
      PROVE  Left(h)'
  BY <1>1, <1>2, <1>3, <1>5, <1>7, <1>8, <1>9, WriteEmpty
<1>10. CASE WriteSeats
  <2>1. free' = N /\ UNCHANGED <<barberSleeps, fifo>> /\ bpc' = "init_flag"
    BY <1>10 DEF WriteSeats, Writes, BarberAt
  <2>2. Flag' = g /\ queued' = 0 /\ Linked(fifo)'
    BY <1>3, <1>8, <2>1 DEF Flag, queued, Linked
  <2>3. to \notin FlagWritten
    BY <1>2, <2>1 DEF FlagWritten
  <2>4. Left(g)'
    BY <1>8, <1>9, <2>1, <2>2, <2>3
  <2> QED BY <2>4
<1>11. CASE WriteFlag
  <2>1. barberSleeps' = FALSE /\ UNCHANGED <<free, fifo>>
    BY <1>11 DEF WriteFlag
  <2>2. Flag' = 0 /\ queued' = 0 /\ Linked(fifo)' /\ free' = N
    BY <1>3, <1>8, <2>1 DEF Flag, queued, Linked
  <2> QED BY <1>8, <1>9, <2>1, <2>2
<1>12. CASE WriteQueue
  <2>1. /\ UNCHANGED <<free, barberSleeps>> /\ bpc \in {"init_slots", "init_ends", "init_size"}
        /\ fifo' \in {ClearSlots(fifo), ClearEnds(fifo), SetSize(fifo, N)}
    BY <1>12 DEF WriteQueue, Writes, BarberAt
  <2>2. g = 0
    BY <2>1 DEF Left, FlagWritten
  <2>3. fifo' \in Rings(Clients, N) /\ Linked(fifo') /\ fifo'.n = 0
    BY <1>3, <1>8, <2>1, WrittenQueue DEF queued
  <2>4. Linked(fifo)' /\ queued' = 0
    BY <2>3 DEF Linked, queued
  <2>5. Flag' = 0 /\ free' = N /\ barberSleeps' \in BOOLEAN
    BY <1>3, <1>8, <2>1, <2>2 DEF Flag
  <2> QED BY <1>9, <2>3, <2>4, <2>5
<1> QED BY <1>10, <1>11, <1>12 DEF Writing

\* What becomes of a shop without a barber in its loop.
LEMMA LeftStep ==
  ASSUME MadeInv, NEW g \in {0, 1}, Left(g), NextPosix, sound'
  PROVE  Left(0)' \/ Left(1)' \/ Serving'
<1>1. ASSUME NEW c \in Clients, ClientPosix(c) \/ KillClient(c) PROVE Left(g)'
  BY <1>1, SoundClient, KeptLeft DEF Left
<1>2. CASE OpenSegment \/ KillBarber
  <2>1. Left(g)'
    BY <1>2, ReopenStep
  <2> QED BY <2>1
<1>3. CASE Writing
  BY <1>3, WriteStep
<1>4. CASE CreateSemaphore \/ InitInvites
  <2>1. g = 0
    BY <1>4 DEF Left, FlagWritten, CreateSemaphore, InitInvites
  <2> QED BY <1>4, <2>1, CreateStep, ServeStep
<1>5. ~(TerminateBarber \/ Barber)
  BY BarberRoom DEF Left, MadeInv, TerminateBarber, BarberLabels, WritingLabels
<1>6. g = 0 \/ g = 1
  OBVIOUS
<1>7. (\E c \in Clients : ClientPosix(c) \/ KillClient(c)) => Left(0)' \/ Left(1)'
  BY <1>1, <1>6
<1> QED BY <1>2, <1>3, <1>4, <1>5, <1>7 DEF NextPosix, BarberPosix, Writing

\* What becomes of a shop that is open.
LEMMA ServingStep ==
  ASSUME MadeInv, Serving, NextPosix, sound'
  PROVE  Serving' \/ Left(0)' \/ Left(1)' \/ bpc' = "closed"
<1>1. ASSUME NEW c \in Clients, ClientPosix(c) \/ KillClient(c) PROVE Serving'
  <2>1. ShopInv /\ CutsInv /\ seg
    BY AccountsShop DEF Serving, MadeInv
  <2> QED BY <1>1, <2>1, SoundClient, KeptServing
<1>2. CASE Barber
  <2>1. IInv /\ CutsInv /\ TypeInv /\ [Next]_vars
    BY <1>2 DEF Serving, IInv, Next
  <2> QED BY <1>2, <2>1, BarberStep, CutsStep DEF Serving
<1>3. CASE KillBarber
  BY <1>3, KillServing
<1>4. CASE TerminateBarber
  BY <1>4 DEF TerminateBarber
<1>5. ~(OpenSegment \/ Writing \/ CreateSemaphore \/ InitInvites)
  BY WritingIs DEF Serving, OpenSegment, CreateSemaphore, InitInvites, BarberLabels,
     WritingLabels, Writes, BarberAt
<1> QED BY <1>1, <1>2, <1>3, <1>4, <1>5 DEF NextPosix, BarberPosix, Writing

\* What was cut short stays cut short, and a shop that is closed closed.
LEMMA SoundSteps ==
  ASSUME MadeInv, NextPosix
  PROVE  (sound' => sound) /\ (bpc = "closed" => bpc' = "closed")
<1>1. ASSUME NEW c \in Clients, ClientPosix(c) \/ KillClient(c)
      PROVE  (sound' => sound) /\ bpc' = bpc
  <2>1. CASE FindSegment(c) \/ OpenSemaphores(c)
    <3>1. sound' = sound /\ bpc' = bpc
      BY <2>1 DEF FindSegment, OpenSemaphores
    <3> QED BY <3>1
  <2>3. CASE EndClient(c)
    <3>1. sound' = (sound /\ pc[c] \in Outside) /\ bpc' = bpc
      BY <2>3 DEF EndClient
    <3> QED BY <3>1, Zenon
  <2>2. CASE clientProc(c)
    <3>1. KeepsRoom(c)
      BY <2>2, ClientRoom DEF clientProc, MadeInv
    <3> QED BY <2>2, <3>1 DEF clientProc, KeepsRoom
  <2> QED BY <1>1, <2>1, <2>2, <2>3 DEF ClientPosix, Crash, KillClient
<1>2. CASE Barber /\ UNCHANGED <<names, sound>>
  BY <1>2, BarberRoom DEF MadeInv, BarberLabels
<1>3. CASE OpenSegment \/ CreateSemaphore \/ TerminateBarber
  <2>1. sound' = sound /\ bpc # "closed"
    BY <1>3 DEF OpenSegment, CreateSemaphore, TerminateBarber, BarberLabels
  <2> QED BY <2>1
<1>4. CASE Writing
  <2>1. sound' = (sound /\ ShopIsEmpty) /\ bpc # "closed"
    BY <1>4, WritingIs DEF Writes, BarberAt, WritingLabels
  <2> QED BY <2>1, Zenon
<1>5. CASE KillBarber
  <2>1. /\ sound' = (sound /\ ShopIsEmpty
                     /\ bpc \in WritingLabels \cup {"opening", "waitWR", "sleep_waitCR"})
        /\ bpc # "closed"
    BY <1>5 DEF KillBarber
  <2> QED BY <2>1, Zenon
<1>6. CASE InitInvites
  <2>1. \E forgotten : sound' = (sound /\ forgotten = {})
    BY <1>6 DEF InitInvites
  <2>2. bpc # "closed"
    BY <1>6 DEF InitInvites
  <2> QED BY <2>1, <2>2, Zenon
<1> QED BY <1>1, <1>2, <1>3, <1>4, <1>5, <1>6 DEF NextPosix, BarberPosix, Writing

\* One of the five cases holds until somebody is cut short inside.
LEMMA SoundInvInductive == SpecPosix => []SoundInv
<1>1. InitPosix => SoundInv
  <2> SUFFICES ASSUME InitPosix PROVE Blank
    BY DEF SoundInv
  <2>1. pc \in [Clients -> {"start", "failed", "opening", "waitWR", "ended"}]
    BY DEF InitPosix
  <2> QED BY <2>1 DEF InitPosix, Blank, WritingLabels
<1>2. MadeInv /\ SoundInv /\ [NextPosix]_varsPosix => SoundInv'
  <2> SUFFICES ASSUME MadeInv, SoundInv, [NextPosix]_varsPosix, sound'
               PROVE  bpc' = "closed" \/ Blank' \/ Left(0)' \/ Left(1)' \/ Serving'
    BY DEF SoundInv
  <2>1. CASE NextPosix
    <3>1. sound /\ (bpc = "closed" => bpc' = "closed")
      BY <2>1, SoundSteps
    <3>2. bpc = "closed" \/ Blank \/ Left(0) \/ Left(1) \/ Serving
      BY <3>1 DEF SoundInv
    <3>3. CASE Blank
      BY <2>1, <3>3, BlankStep
    <3>4. CASE Left(0) \/ Left(1)
      BY <2>1, <3>4, LeftStep
    <3>5. CASE Serving
      BY <2>1, <3>5, ServingStep
    <3> QED BY <3>1, <3>2, <3>3, <3>4, <3>5
  <2>2. CASE UNCHANGED varsPosix
    <3>1. UNCHANGED vars /\ UNCHANGED <<seg, made, sound>>
      BY <2>2 DEF varsPosix, names
    <3>2. CASE Blank
      BY <3>1, <3>2 DEF Blank, vars
    <3>3. ASSUME ShopInv PROVE Kept
      BY <3>1, <3>3, NothingKept
    <3>4. CutsInv => CutsInv'
      BY <3>1 DEF CutsInv, vars
    <3>5. CASE Left(0) \/ Left(1)
      <4>1. Kept /\ CutsInv' /\ UNCHANGED <<bpc, seg, made, invites>>
        BY <3>1, <3>3, <3>4, <3>5 DEF Left, vars
      <4> QED BY <3>5, <4>1, KeptLeft
    <3>6. CASE Serving
      <4>1. Kept /\ CutsInv' /\ bpc' = bpc
        BY <3>1, <3>3, <3>4, <3>6, AccountsShop DEF Serving, vars
      <4> QED BY <3>6, <4>1, KeptServing
    <3>7. sound /\ bpc' = bpc
      BY <3>1 DEF vars
    <3> QED BY <3>2, <3>5, <3>6, <3>7 DEF SoundInv
  <2> QED BY <2>1, <2>2
<1> QED BY <1>1, <1>2, MadeInvInductive, PTL DEF SpecPosix

\* No two processes are ever in the room together, and as long as nobody was cut short
\* inside, or was inside at one of the writes of init_shared, the books of a shop that
\* was left empty and taken over by the next barber are right again, whoever comes
\* between the writes and after them: init_shared may reuse what it finds.
THEOREM ShopOpensSound == SpecPosix => []ShopIsSound
<1>1. MadeInv /\ SoundInv => ShopIsSound
  <2> SUFFICES ASSUME MadeInv, SoundInv PROVE ShopIsSound
    OBVIOUS
  <2>1. MutualExclusion
    <3>1. inRoom + bRoom <= 1 /\ tRoom \in Nat
      BY DEF MadeInv, tRoom, Semaphores
    <3> QED BY <3>1, RoomIsExclusive
  <2>2. sound /\ bpc \in BarberLabels => IInv
    BY DEF SoundInv, Blank, Left, Serving, BarberLabels, WritingLabels
  <2> QED BY <2>1, <2>2, AccountsMean DEF ShopIsSound
<1> QED BY <1>1, MadeInvInductive, SoundInvInductive, PTL
=============================================================================
