---------------------------- MODULE BufferProofs ----------------------------
(***************************************************************************)
(* The producers-and-consumers programs, for any number of threads, slots  *)
(* and lines: the one with semaphores keeps its tokens and its ring in     *)
(* order, the one with a mutex and condition variables loses no wake-up,   *)
(* and both implement the bounded channel, which delivers the book.        *)
(***************************************************************************)
EXTENDS BufferSem, ProcessCounts, FiniteSetTheorems, SequenceTheorems, TLAPS

(* Indices that wrap around, rings, and threads counted by their labels. *)
\* The remainder by n is an index of an array of n places.
LEMMA ModRange ==
  ASSUME NEW n \in Nat \ {0}, NEW a \in Nat
  PROVE  a % n \in 0..(n-1)
BY SMT

\* Division with remainder.
LEMMA ModDiv ==
  ASSUME NEW n \in Nat \ {0}, NEW a \in Nat
  PROVE  a = n * (a \div n) + (a % n) /\ a \div n \in Nat
BY SMT

\* Quotient and remainder are unique.
LEMMA ModUnique ==
  ASSUME NEW n \in Nat \ {0}, NEW q \in Nat, NEW r \in 0..(n-1)
  PROVE  (n*q+r) % n = r
BY SMT

\* An index that is moved on by (i + 1) % n, as writeTo and readFrom are, stays
\* the remainder of a counter that only grows.
LEMMA ModSucc ==
  ASSUME NEW n \in Nat \ {0}, NEW a \in Nat
  PROVE  ((a % n) + 1) % n = (a+1) % n
<1> DEFINE q == a \div n
           r == a % n
<1>1. q \in Nat /\ r \in 0..(n-1) /\ a = n * q + r
  BY ModDiv, ModRange
<1> HIDE DEF q, r
<1>2. CASE r + 1 < n
  <2>1. a + 1 = n * q + (r + 1) /\ r + 1 \in 0..(n-1)
    BY <1>1, <1>2, SMT
  <2>2. (a + 1) % n = r + 1
    BY <2>1, <1>1, ModUnique
  <2>3. (n * 0 + (r + 1)) % n = r + 1
    BY <2>1, ModUnique
  <2>4. n * 0 + (r + 1) = r + 1
    BY <1>1, SMT
  <2> QED BY <2>2, <2>3, <2>4 DEF r
<1>3. CASE r + 1 = n
  <2>1. a + 1 = n * (q + 1) + 0
    BY <1>1, <1>3, SMT
  <2>2. (a + 1) % n = 0
    BY <2>1, <1>1, ModUnique
  <2>3. (n * 1 + 0) % n = 0 /\ n * 1 + 0 = n
    BY ModUnique, SMT
  <2> QED BY <2>2, <2>3, <1>3 DEF r
<1> QED BY <1>1, <1>2, <1>3, SMT

\* The place that lies b further than that of counter a is that of a + b.
LEMMA ModAdd ==
  ASSUME NEW n \in Nat \ {0}, NEW a \in Nat, NEW b \in Nat
  PROVE  ((a % n) + b) % n = (a + b) % n
<1> DEFINE q == a \div n
           r == a % n
           q2 == (r + b) \div n
           r2 == (r + b) % n
<1>1. q \in Nat /\ r \in 0..(n-1) /\ a = n * q + r
  BY ModDiv, ModRange
<1>2. q2 \in Nat /\ r2 \in 0..(n-1) /\ r + b = n * q2 + r2
  <2>1. r + b \in Nat
    BY <1>1
  <2> HIDE DEF q, r
  <2> QED BY <2>1, ModDiv, ModRange
<1> HIDE DEF q, r, q2, r2
<1>3. a + b = n * (q + q2) + r2
  <2>1. n * (q + q2) = n * q + n * q2
    BY <1>1, <1>2, SMT
  <2> QED BY <2>1, <1>1, <1>2, SMT
<1>4. (a + b) % n = r2
  <2>1. q + q2 \in Nat
    BY <1>1, <1>2
  <2> QED BY <2>1, <1>2, <1>3, ModUnique
<1> QED BY <1>4 DEF r, r2

\* Counters less than n apart fall on different places of a ring of n.
LEMMA ModApart ==
  ASSUME NEW n \in Nat \ {0}, NEW a \in Nat, NEW b \in Nat, a < b, b - a < n
  PROVE  a % n # b % n
<1> DEFINE qa == a \div n
           qb == b \div n
           r == a % n
<1>1. qa \in Nat /\ r \in 0..(n-1) /\ a = n * qa + r
  BY ModDiv, ModRange
<1> SUFFICES ASSUME b % n = r PROVE FALSE
  OBVIOUS
<1>2. qb \in Nat /\ b = n * qb + r
  BY ModDiv
<1> HIDE DEF qa, qb, r
<1>3. n * qa < n * qb /\ n * qb - n * qa < n
  BY <1>1, <1>2, SMT
<1>4. CASE qa >= qb
  <2>1. n * qa >= n * qb
    BY <1>1, <1>2, <1>4, SMT
  <2> QED BY <2>1, <1>3, <1>1, <1>2, SMT
<1>5. CASE qb >= qa + 1
  <2>1. n * qb >= n * (qa + 1)
    BY <1>1, <1>2, <1>5, SMT
  <2>2. n * (qa + 1) = n * qa + n
    BY <1>1, SMT
  <2> QED BY <2>1, <2>2, <1>3, <1>1, <1>2, SMT
<1> QED BY <1>1, <1>2, <1>4, <1>5, SMT

-----------------------------------------------------------------------------
\* The sequence of the numbers k + 1..k + m. Cited with Numbers unexpanded.
Numbers(k, m) == [i \in 1..m |-> k + i]

\* Its type, its length, and what one more number at the end makes of it.
LEMMA NumbersAppend ==
  ASSUME NEW k \in Nat, NEW m \in Nat
  PROVE  /\ Numbers(k, m) \in Seq(Nat) /\ Len(Numbers(k, m)) = m
         /\ Append(Numbers(k, m), k + (m + 1)) = Numbers(k, m + 1)
BY DEF Numbers

\* Its first element and the rest.
LEMMA NumbersHeadTail ==
  ASSUME NEW k \in Nat, NEW m \in Nat, m > 0
  PROVE  /\ Numbers(k, m) # <<>> /\ Head(Numbers(k, m)) = k + 1
         /\ Tail(Numbers(k, m)) = Numbers(k + 1, m - 1)
<1> DEFINE s == Numbers(k, m)
<1>1. s \in Seq(Nat) /\ Len(s) = m
  BY NumbersAppend
<1>2. s # <<>> /\ Head(s) = s[1] /\ s[1] = k + 1
  BY <1>1 DEF Numbers
<1>3. \A i \in 1..(m - 1) : s[i + 1] = (k + 1) + i
  BY DEF Numbers
<1>4. Numbers(k + 1, m - 1) \in Seq(Nat) /\ Len(Numbers(k + 1, m - 1)) = m - 1
  <2>1. k + 1 \in Nat /\ m - 1 \in Nat
    OBVIOUS
  <2> QED BY <2>1, NumbersAppend
<1>5. \A i \in 1..(m - 1) : Numbers(k + 1, m - 1)[i] = (k + 1) + i
  BY DEF Numbers
<1> HIDE DEF s
<1>6. Tail(s) \in Seq(Nat) /\ Len(Tail(s)) = m - 1
  BY <1>1, <1>2
<1>7. \A i \in 1..(m - 1) : Tail(s)[i] = s[i + 1]
  BY <1>1, <1>2
<1>8. \A i \in 1..(m - 1) : Tail(s)[i] = Numbers(k + 1, m - 1)[i]
  BY <1>3, <1>5, <1>7
<1>9. Tail(s) = Numbers(k + 1, m - 1)
  BY <1>4, <1>6, <1>8, SeqEqual
<1> QED BY <1>2, <1>9 DEF s

-----------------------------------------------------------------------------
\* The numbers k + 1..m lie in a ring b of n places, each in the place of the
\* number before it.
Placed(b, n, k, m) == \A j \in (k + 1)..m : b[(j - 1) % n] = j

\* While there is room, the next number overwrites none of them.
LEMMA PlacedPut ==
  ASSUME NEW n \in Nat \ {0}, NEW k \in Nat, NEW m \in Nat, k <= m, m - k < n,
         NEW X, NEW b \in [0..(n-1) -> X], Placed(b, n, k, m)
  PROVE  Placed([b EXCEPT ![m % n] = m + 1], n, k, m + 1)
<1> SUFFICES ASSUME NEW j \in (k + 1)..(m + 1)
             PROVE  [b EXCEPT ![m % n] = m + 1][(j - 1) % n] = j
  BY DEF Placed
<1>1. j - 1 \in Nat /\ j \in Nat
  OBVIOUS
<1>2. (j - 1) % n \in 0..(n-1) /\ m % n \in 0..(n-1)
  BY <1>1, ModRange
<1>3. CASE j = m + 1
  <2>1. j - 1 = m
    BY <1>3
  <2> QED BY <2>1, <1>2, <1>3
<1>4. CASE j \in (k + 1)..m
  <2>1. j - 1 < m /\ m - (j - 1) < n
    BY <1>1, <1>4
  <2>2. (j - 1) % n # m % n
    BY <1>1, <2>1, ModApart
  <2>3. b[(j - 1) % n] = j
    BY <1>4 DEF Placed
  <2> QED BY <1>2, <2>2, <2>3
<1> QED BY <1>3, <1>4

\* The oldest of them is found, and taken, at the place of k.
LEMMA PlacedTake ==
  ASSUME NEW n \in Nat \ {0}, NEW k \in Nat, NEW m \in Nat, k < m,
         NEW b, Placed(b, n, k, m)
  PROVE  b[k % n] = k + 1 /\ Placed(b, n, k + 1, m)
<1>1. k + 1 \in (k + 1)..m /\ (k + 1) - 1 = k
  OBVIOUS
<1>2. b[((k + 1) - 1) % n] = k + 1
  BY <1>1 DEF Placed
<1>3. \A j \in ((k + 1) + 1)..m : j \in (k + 1)..m
  OBVIOUS
<1> QED BY <1>1, <1>2, <1>3 DEF Placed

-----------------------------------------------------------------------------
\* The count is a natural number, and not 0 if somebody is there.
LEMMA CountType ==
  ASSUME NEW P, IsFiniteSet(P), NEW f, NEW L
  PROVE  /\ CountAt(P, f, L) \in Nat
         /\ \A p \in P : f[p] \in L => CountAt(P, f, L) > 0
<1> DEFINE A == {x \in P : f[x] \in L}
<1>1. IsFiniteSet(A)
  <2>1. A \subseteq P
    OBVIOUS
  <2> QED BY <2>1, FS_Subset
<1>2. Cardinality(A) \in Nat
  BY <1>1, FS_CardinalityType
<1>3. ASSUME NEW p \in P, f[p] \in L PROVE Cardinality(A) > 0
  <2>1. A # {}
    BY <1>3
  <2>2. Cardinality(A) # 0
    BY <1>1, <2>1, FS_EmptySet
  <2> QED BY <1>2, <2>2
<1> QED BY <1>2, <1>3 DEF CountAt

\* In the step from f to g, process p of P moves to the label to. The lemmas are
\* cited with MovesOne unexpanded.
MovesOne(P, X, f, p, to, g) == f \in [P -> X] /\ p \in P /\ g = [f EXCEPT ![p] = to]

One(L, l) == IF l \in L THEN 1 ELSE 0

\* When one process moves, the count changes by that process alone.
LEMMA CountMove ==
  ASSUME NEW P, IsFiniteSet(P), NEW X, NEW f, NEW p, NEW to, NEW g,
         MovesOne(P, X, f, p, to, g), NEW L
  PROVE  CountAt(P, g, L) = CountAt(P, f, L) + One(L, to) - One(L, f[p])
<1> USE DEF MovesOne, One
<1> DEFINE A == {x \in P : f[x] \in L}
           B == {x \in P : g[x] \in L}
           R == {x \in P : x # p /\ f[x] \in L}
<1>1. IsFiniteSet(A) /\ IsFiniteSet(B) /\ IsFiniteSet(R)
  <2>1. A \subseteq P /\ B \subseteq P /\ R \subseteq P
    OBVIOUS
  <2> QED BY <2>1, FS_Subset
<1>2. p \notin R /\ Cardinality(R) \in Nat
  BY <1>1, FS_CardinalityType
<1>3. Cardinality(R \cup {p}) = Cardinality(R) + 1
  BY <1>1, <1>2, FS_AddElement
<1>4. A = IF f[p] \in L THEN R \cup {p} ELSE R
  OBVIOUS
<1>5. B = IF to \in L THEN R \cup {p} ELSE R
  OBVIOUS
<1>6. Cardinality(A) = Cardinality(R) + (IF f[p] \in L THEN 1 ELSE 0)
  <2> HIDE DEF A, R
  <2> QED BY <1>2, <1>3, <1>4
<1>7. Cardinality(B) = Cardinality(R) + (IF to \in L THEN 1 ELSE 0)
  <2> HIDE DEF B, R
  <2> QED BY <1>2, <1>3, <1>5
<1> HIDE DEF A, B, R
<1>8. Cardinality(B) = Cardinality(A) + (IF to \in L THEN 1 ELSE 0)
                         - (IF f[p] \in L THEN 1 ELSE 0)
  BY <1>2, <1>6, <1>7
<1> QED BY <1>8 DEF CountAt, A, B

-----------------------------------------------------------------------------
\* The types of the variables; the bounds that TypeOK adds follow from the
\* accounts of places and lines.
TypeInv ==
  /\ buffer \in [0..(N - 1) -> 0..Lines]
  /\ writeTo \in 0..(N - 1) /\ readFrom \in 0..(N - 1) /\ count \in Nat
  /\ bookPos \in 0..Lines
  /\ counting \in {0, 1} /\ notEmpty \in Nat /\ notFull \in Nat
  /\ ppc \in [Producers -> ProducerLabels]
  /\ cpc \in [Consumers -> ConsumerLabels]
  /\ mpc \in MainLabels
  /\ consumed \in Seq(0..Lines)

\* counting_sem is 0 while somebody is between its wait and its post.
LockInv ==
  /\ \A t, u \in Holders : t = u
  /\ mpc \in {"check", "postCounting"} => Holders = {}
  /\ counting = 1 => Holders = {} /\ mpc \notin {"check", "postCounting"}

Inv1 == TypeInv /\ LockInv /\ TokensAccounted

-----------------------------------------------------------------------------
PHold == {"getline", "advance", "postNotEmpty", "postCounting"}
CHold == {"read", "advance", "postNotFull", "postCounting"}

\* The effect of one thread's move on who holds the lock.
LEMMA ProducerMovesHolders ==
  ASSUME TypeInv, NEW p \in Producers, NEW from, NEW to, ProducerAt(p, from, to)
  PROVE  /\ from \in PHold => p \in Holders
         /\ Holders' = IF to \in PHold THEN Holders \cup {p} ELSE Holders \ {p}
BY ThreadsAssumption DEF TypeInv, ProducerAt, Holders, PHold

LEMMA ConsumerMovesHolders ==
  ASSUME TypeInv, NEW c \in Consumers, NEW from, NEW to, ConsumerAt(c, from, to)
  PROVE  /\ from \in CHold => c \in Holders
         /\ Holders' = IF to \in CHold THEN Holders \cup {c} ELSE Holders \ {c}
BY ThreadsAssumption DEF TypeInv, ConsumerAt, Holders, CHold

\* Somebody who has claimed a line finds one: dequeueing never meets an empty ring.
LEMMA ClaimedLineExists ==
  ASSUME Inv1, NEW c \in Consumers, cpc[c] \in {"waitCounting", "read", "advance"}
  PROVE  count > 0
<1>1. /\ CountAt(Consumers, cpc, {"waitCounting", "read", "advance"}) \in Nat
      /\ CountAt(Consumers, cpc, {"waitCounting", "read", "advance"}) > 0
  BY CountType, ThreadsAssumption
<1>2. CountAt(Producers, ppc, {"postNotEmpty"}) \in Nat
  BY CountType, ThreadsAssumption
<1> QED BY <1>1, <1>2 DEF Inv1, TypeInv, TokensAccounted, LinesAccounted

\* A producer on its way to the ring finds a free place in it.
LEMMA OwnedPlaceExists ==
  ASSUME Inv1, NEW p \in Producers, ppc[p] \in {"waitCounting", "getline", "advance"}
  PROVE  count < N
<1> DEFINE Owners == CountAt(Producers, ppc, {"waitCounting", "getline", "advance", "exited"})
           Returns == CountAt(Consumers, cpc, {"postNotFull"})
<1>1. Owners \in Nat /\ Owners > 0
  BY CountType, ThreadsAssumption
<1>2. Returns \in Nat
  BY CountType, ThreadsAssumption
<1>3. N = notFull + count + Returns + Owners
  BY DEF Inv1, TokensAccounted, PlacesAccounted
<1> HIDE DEF Owners, Returns
<1> QED BY <1>1, <1>2, <1>3, NAssumption DEF Inv1, TypeInv

-----------------------------------------------------------------------------
\* Every step keeps the types.
LEMMA TypeStep == Inv1 /\ [Next]_vars => TypeInv'
<1> SUFFICES ASSUME Inv1, [Next]_vars PROVE TypeInv'
  OBVIOUS
<1> USE NAssumption, LinesAssumption DEF Inv1, TypeInv, ring, sems, Lock, Unlock
<1>1. ASSUME NEW p \in Producers, Producer(p) PROVE TypeInv'
  <2>1. CASE WaitNotFull(p)
    BY <2>1 DEF WaitNotFull, ProducerAt, ProducerLabels
  <2>2. CASE ProducerLock(p)
    BY <2>2 DEF ProducerLock, ProducerAt, ProducerLabels
  <2>3. CASE PutLine(p)
    BY <2>3 DEF PutLine, ProducerAt, ProducerLabels
  <2>4. CASE ProducerExit(p)
    <3>1. counting = 0
      BY <2>4, ProducerMovesHolders DEF ProducerExit, LockInv, PHold
    <3> QED BY <2>4, <3>1 DEF ProducerExit, ProducerAt, ProducerLabels
  <2>5. CASE AdvanceWrite(p)
    BY <2>5, ModRange DEF AdvanceWrite, ProducerAt, ProducerLabels
  <2>6. CASE PostNotEmpty(p)
    BY <2>6 DEF PostNotEmpty, ProducerAt, ProducerLabels
  <2>7. CASE ProducerUnlock(p)
    <3>1. counting = 0
      BY <2>7, ProducerMovesHolders DEF ProducerUnlock, LockInv, PHold
    <3> QED BY <2>7, <3>1 DEF ProducerUnlock, ProducerAt, ProducerLabels
  <2> QED BY <1>1, <2>1, <2>2, <2>3, <2>4, <2>5, <2>6, <2>7 DEF Producer
<1>2. ASSUME NEW c \in Consumers, Consumer(c) PROVE TypeInv'
  <2>1. CASE WaitNotEmpty(c)
    BY <2>1 DEF WaitNotEmpty, ConsumerAt, ConsumerLabels
  <2>2. CASE ConsumerLock(c)
    BY <2>2 DEF ConsumerLock, ConsumerAt, ConsumerLabels
  <2>3. CASE ReadLine(c)
    BY <2>3 DEF ReadLine, ConsumerAt, ConsumerLabels
  <2>4. CASE AdvanceRead(c)
    <3>1. count > 0
      BY <2>4, ClaimedLineExists DEF AdvanceRead, ConsumerAt
    <3> QED BY <2>4, <3>1, ModRange DEF AdvanceRead, ConsumerAt, ConsumerLabels
  <2>5. CASE PostNotFull(c)
    BY <2>5 DEF PostNotFull, ConsumerAt, ConsumerLabels
  <2>6. CASE ConsumerUnlock(c)
    <3>1. counting = 0
      BY <2>6, ConsumerMovesHolders DEF ConsumerUnlock, LockInv, CHold
    <3> QED BY <2>6, <3>1 DEF ConsumerUnlock, ConsumerAt, ConsumerLabels
  <2> QED BY <1>2, <2>1, <2>2, <2>3, <2>4, <2>5, <2>6 DEF Consumer
<1>3. CASE Main
  <2>1. CASE Join \/ Finish \/ LookAgain
    BY <2>1 DEF Join, Finish, LookAgain, MainAt, MainLabels
  <2>2. CASE MainLock
    BY <2>2 DEF MainLock, MainAt, MainLabels
  <2>3. CASE MainUnlock
    <3>1. counting = 0
      BY <2>3 DEF MainUnlock, MainAt, LockInv
    <3> QED BY <2>3, <3>1 DEF MainUnlock, MainAt, MainLabels
  <2> QED BY <1>3, <2>1, <2>2, <2>3 DEF Main
<1>4. CASE Kill
  BY <1>4 DEF Kill, MainLabels
<1>5. CASE UNCHANGED vars
  BY <1>5 DEF vars
<1> QED BY <1>1, <1>2, <1>3, <1>4, <1>5 DEF Next, Terminated

\* Every step keeps counting_sem a lock.
LEMMA LockStep == Inv1 /\ [Next]_vars => LockInv'
<1> SUFFICES ASSUME Inv1, [Next]_vars PROVE LockInv'
  OBVIOUS
<1>0. TypeInv /\ LockInv
  BY DEF Inv1
<1>1. ASSUME NEW p \in Producers, Producer(p) PROVE LockInv'
  <2>1. CASE ProducerLock(p)
    <3>1. Holders = {} /\ mpc \notin {"check", "postCounting"} /\ counting' = 0
      BY <2>1, <1>0 DEF ProducerLock, Lock, LockInv, TypeInv
    <3>2. Holders' = {p} /\ mpc' = mpc
      BY <2>1, <1>0, <3>1, ProducerMovesHolders DEF ProducerLock, PHold, ProducerAt
    <3> QED BY <3>1, <3>2 DEF LockInv
  <2>2. CASE ProducerExit(p) \/ ProducerUnlock(p)
    <3>1. p \in Holders /\ Holders' = Holders \ {p} /\ mpc' = mpc
      BY <2>2, <1>0, ProducerMovesHolders
      DEF ProducerExit, ProducerUnlock, PHold, ProducerAt
    <3>2. Holders' = {} /\ mpc \notin {"check", "postCounting"}
      BY <3>1, <1>0 DEF LockInv
    <3> QED BY <3>1, <3>2 DEF LockInv
  <2>3. CASE PutLine(p) \/ AdvanceWrite(p) \/ PostNotEmpty(p)
    <3>1. p \in Holders /\ Holders' = Holders \cup {p} /\ mpc' = mpc /\ counting' = counting
      BY <2>3, <1>0, ProducerMovesHolders
      DEF PutLine, AdvanceWrite, PostNotEmpty, PHold, ProducerAt, sems
    <3> QED BY <3>1, <1>0 DEF LockInv
  <2>4. CASE WaitNotFull(p)
    <3>1. Holders' = Holders \ {p} /\ mpc' = mpc /\ counting' = counting
      BY <2>4, <1>0, ProducerMovesHolders DEF WaitNotFull, PHold, ProducerAt
    <3> QED BY <3>1, <1>0 DEF LockInv
  <2> QED BY <1>1, <2>1, <2>2, <2>3, <2>4 DEF Producer
<1>2. ASSUME NEW c \in Consumers, Consumer(c) PROVE LockInv'
  <2>1. CASE ConsumerLock(c)
    <3>1. Holders = {} /\ mpc \notin {"check", "postCounting"} /\ counting' = 0
      BY <2>1, <1>0 DEF ConsumerLock, Lock, LockInv, TypeInv
    <3>2. Holders' = {c} /\ mpc' = mpc
      BY <2>1, <1>0, <3>1, ConsumerMovesHolders DEF ConsumerLock, CHold, ConsumerAt
    <3> QED BY <3>1, <3>2 DEF LockInv
  <2>2. CASE ConsumerUnlock(c)
    <3>0. ConsumerAt(c, "postCounting", "waitNotEmpty")
      BY <2>2 DEF ConsumerUnlock
    <3>1. c \in Holders /\ Holders' = Holders \ {c} /\ mpc' = mpc
      <4>1. "postCounting" \in CHold /\ "waitNotEmpty" \notin CHold
        BY DEF CHold
      <4> QED BY <3>0, <4>1, <1>0, ConsumerMovesHolders DEF ConsumerAt
    <3>2. Holders' = {} /\ mpc \notin {"check", "postCounting"}
      BY <3>1, <1>0 DEF LockInv
    <3> QED BY <3>1, <3>2 DEF LockInv
  <2>3. CASE ReadLine(c) \/ AdvanceRead(c) \/ PostNotFull(c)
    <3>1. c \in Holders /\ Holders' = Holders \cup {c} /\ mpc' = mpc /\ counting' = counting
      BY <2>3, <1>0, ConsumerMovesHolders
      DEF ReadLine, AdvanceRead, PostNotFull, CHold, ConsumerAt, sems
    <3> QED BY <3>1, <1>0 DEF LockInv
  <2>4. CASE WaitNotEmpty(c)
    <3>1. Holders' = Holders \ {c} /\ mpc' = mpc /\ counting' = counting
      BY <2>4, <1>0, ConsumerMovesHolders DEF WaitNotEmpty, CHold, ConsumerAt
    <3> QED BY <3>1, <1>0 DEF LockInv
  <2> QED BY <1>2, <2>1, <2>2, <2>3, <2>4 DEF Consumer
<1>3. CASE Main
  <2>0. Holders' = Holders
    BY <1>3 DEF Main, Join, MainLock, Finish, LookAgain, MainUnlock, MainAt, Holders
  <2>1. CASE MainLock
    BY <2>0, <2>1, <1>0 DEF MainLock, MainAt, Lock, LockInv, TypeInv
  <2>2. CASE MainUnlock
    BY <2>0, <2>2, <1>0 DEF MainUnlock, MainAt, Unlock, LockInv
  <2>3. CASE Join \/ Finish \/ LookAgain
    BY <2>0, <2>3, <1>0 DEF Join, Finish, LookAgain, MainAt, LockInv, sems
  <2> QED BY <1>3, <2>1, <2>2, <2>3 DEF Main
<1>4. CASE Kill
  BY <1>4, <1>0 DEF Kill, LockInv, Holders, sems
<1>5. CASE UNCHANGED vars
  BY <1>5, <1>0 DEF vars, LockInv, Holders
<1> QED BY <1>1, <1>2, <1>3, <1>4, <1>5 DEF Next, Terminated

-----------------------------------------------------------------------------
\* The effect of one producer's move, or one consumer's, on the two accounts.
Owners == CountAt(Producers, ppc, {"waitCounting", "getline", "advance", "exited"})
Posting == CountAt(Producers, ppc, {"postNotEmpty"})
Returning == CountAt(Consumers, cpc, {"postNotFull"})
Claimants == CountAt(Consumers, cpc, {"waitCounting", "read", "advance"})

LEMMA CountsAreNaturals ==
  Owners \in Nat /\ Posting \in Nat /\ Returning \in Nat /\ Claimants \in Nat
BY CountType, ThreadsAssumption DEF Owners, Posting, Returning, Claimants

LEMMA ProducerMovesCounts ==
  ASSUME TypeInv, NEW p \in Producers, NEW from, NEW to, ProducerAt(p, from, to)
  PROVE  LET Own == {"waitCounting", "getline", "advance", "exited"}
         IN  /\ Owners' = Owners + One(Own, to) - One(Own, from)
             /\ Posting' = Posting + One({"postNotEmpty"}, to) - One({"postNotEmpty"}, from)
             /\ Returning' = Returning /\ Claimants' = Claimants
<1>1. ppc[p] = from /\ cpc' = cpc /\ MovesOne(Producers, ProducerLabels, ppc, p, to, ppc')
  BY DEF TypeInv, ProducerAt, MovesOne
<1>2. IsFiniteSet(Producers)
  BY ThreadsAssumption
<1>3. ASSUME NEW L
      PROVE  CountAt(Producers, ppc', L)
               = CountAt(Producers, ppc, L) + One(L, to) - One(L, ppc[p])
  BY <1>1, <1>2, CountMove
<1> QED BY <1>1, <1>3 DEF Owners, Posting, Returning, Claimants, CountAt

LEMMA ConsumerMovesCounts ==
  ASSUME TypeInv, NEW c \in Consumers, NEW from, NEW to, ConsumerAt(c, from, to)
  PROVE  LET Claim == {"waitCounting", "read", "advance"}
         IN  /\ Claimants' = Claimants + One(Claim, to) - One(Claim, from)
             /\ Returning' = Returning + One({"postNotFull"}, to) - One({"postNotFull"}, from)
             /\ Owners' = Owners /\ Posting' = Posting
<1>1. cpc[c] = from /\ ppc' = ppc /\ MovesOne(Consumers, ConsumerLabels, cpc, c, to, cpc')
  BY DEF TypeInv, ConsumerAt, MovesOne
<1>2. IsFiniteSet(Consumers)
  BY ThreadsAssumption
<1>3. ASSUME NEW L
      PROVE  CountAt(Consumers, cpc', L)
               = CountAt(Consumers, cpc, L) + One(L, to) - One(L, cpc[c])
  BY <1>1, <1>2, CountMove
<1> QED BY <1>1, <1>3 DEF Owners, Posting, Returning, Claimants, CountAt

\* Every step keeps the accounts of places and lines.
LEMMA CountStep == Inv1 /\ [Next]_vars => TokensAccounted'
<1> SUFFICES ASSUME Inv1, [Next]_vars PROVE TokensAccounted'
  OBVIOUS
<1>0. /\ TypeInv
      /\ N = notFull + count + Returning + Owners
      /\ count = notEmpty + Posting + Claimants
      /\ notFull \in Nat /\ notEmpty \in Nat /\ count \in Nat /\ N \in Nat
  BY NAssumption
  DEF Inv1, TokensAccounted, PlacesAccounted, LinesAccounted, Owners, Posting, Returning,
      Claimants, TypeInv
<1> SUFFICES /\ N = notFull' + count' + Returning' + Owners'
             /\ count' = notEmpty' + Posting' + Claimants'
  BY DEF TokensAccounted, PlacesAccounted, LinesAccounted, Owners, Posting, Returning, Claimants
<1> USE CountsAreNaturals
<1>1. ASSUME NEW p \in Producers, Producer(p)
      PROVE  /\ N = notFull' + count' + Returning' + Owners'
             /\ count' = notEmpty' + Posting' + Claimants'
  <2>1. CASE WaitNotFull(p)
    <3>1. /\ Owners' = Owners + 1 /\ Posting' = Posting
          /\ Returning' = Returning /\ Claimants' = Claimants
      BY <2>1, <1>0, ProducerMovesCounts DEF WaitNotFull, One
    <3> QED BY <3>1, <2>1, <1>0 DEF WaitNotFull, ring
  <2>2. CASE ProducerLock(p)
    BY <2>2, <1>0, ProducerMovesCounts DEF ProducerLock, One, ring
  <2>3. CASE PutLine(p)
    BY <2>3, <1>0, ProducerMovesCounts DEF PutLine, One, sems
  <2>4. CASE ProducerExit(p)
    BY <2>4, <1>0, ProducerMovesCounts DEF ProducerExit, One, ring
  <2>5. CASE AdvanceWrite(p)
    BY <2>5, <1>0, ProducerMovesCounts DEF AdvanceWrite, One, sems
  <2>6. CASE PostNotEmpty(p)
    BY <2>6, <1>0, ProducerMovesCounts DEF PostNotEmpty, One, ring
  <2>7. CASE ProducerUnlock(p)
    <3>1. /\ Owners' = Owners /\ Posting' = Posting
          /\ Returning' = Returning /\ Claimants' = Claimants
      BY <2>7, <1>0, ProducerMovesCounts DEF ProducerUnlock, One
    <3> QED BY <3>1, <2>7, <1>0 DEF ProducerUnlock, ring
  <2> QED BY <1>1, <2>1, <2>2, <2>3, <2>4, <2>5, <2>6, <2>7 DEF Producer
<1>2. ASSUME NEW c \in Consumers, Consumer(c)
      PROVE  /\ N = notFull' + count' + Returning' + Owners'
             /\ count' = notEmpty' + Posting' + Claimants'
  <2>1. CASE WaitNotEmpty(c)
    BY <2>1, <1>0, ConsumerMovesCounts DEF WaitNotEmpty, One, ring
  <2>2. CASE ConsumerLock(c)
    <3>1. /\ Owners' = Owners /\ Posting' = Posting
          /\ Returning' = Returning /\ Claimants' = Claimants
      BY <2>2, <1>0, ConsumerMovesCounts DEF ConsumerLock, One
    <3> QED BY <3>1, <2>2, <1>0 DEF ConsumerLock, ring
  <2>3. CASE ReadLine(c)
    <3>1. /\ Owners' = Owners /\ Posting' = Posting
          /\ Returning' = Returning /\ Claimants' = Claimants
      BY <2>3, <1>0, ConsumerMovesCounts DEF ReadLine, One
    <3> QED BY <3>1, <2>3, <1>0 DEF ReadLine, ring, sems
  <2>4. CASE AdvanceRead(c)
    <3>1. /\ Owners' = Owners /\ Posting' = Posting
          /\ Returning' = Returning + 1 /\ Claimants' = Claimants - 1
      BY <2>4, <1>0, ConsumerMovesCounts DEF AdvanceRead, One
    <3> QED BY <3>1, <2>4, <1>0 DEF AdvanceRead, sems
  <2>5. CASE PostNotFull(c)
    BY <2>5, <1>0, ConsumerMovesCounts DEF PostNotFull, One, ring
  <2>6. CASE ConsumerUnlock(c)
    BY <2>6, <1>0, ConsumerMovesCounts DEF ConsumerUnlock, One, ring
  <2> QED BY <1>2, <2>1, <2>2, <2>3, <2>4, <2>5, <2>6 DEF Consumer
<1>3. CASE Main \/ Kill \/ UNCHANGED vars
  <2>1. /\ UNCHANGED <<count, notFull, notEmpty, ppc, cpc>>
    BY <1>3
    DEF Main, Join, MainLock, Finish, LookAgain, MainUnlock, MainAt, Kill, ring, sems, vars
  <2>2. UNCHANGED <<Owners, Posting, Returning, Claimants>>
    BY <2>1 DEF Owners, Posting, Returning, Claimants, CountAt
  <2> QED BY <2>1, <2>2, <1>0
<1> QED BY <1>1, <1>2, <1>3 DEF Next, Terminated

\* The invariant of types, lock and accounts holds throughout.
LEMMA Inv1Inductive == Spec => []Inv1
<1>1. Init => Inv1
  <2> SUFFICES ASSUME Init PROVE Inv1
    OBVIOUS
  <2>1. TypeInv
    BY NAssumption, LinesAssumption
    DEF Init, TypeInv, ProducerLabels, ConsumerLabels, MainLabels, NoLine
  <2>2. Holders = {}
    BY DEF Init, Holders
  <2>3. LockInv
    BY <2>2 DEF Init, LockInv
  <2>4. /\ CountAt(Producers, ppc, {"waitCounting", "getline", "advance", "exited"}) = 0
        /\ CountAt(Producers, ppc, {"postNotEmpty"}) = 0
        /\ CountAt(Consumers, cpc, {"postNotFull"}) = 0
        /\ CountAt(Consumers, cpc, {"waitCounting", "read", "advance"}) = 0
    <3>1. /\ {p \in Producers : ppc[p] \in {"waitCounting", "getline", "advance", "exited"}} = {}
          /\ {p \in Producers : ppc[p] \in {"postNotEmpty"}} = {}
          /\ {c \in Consumers : cpc[c] \in {"postNotFull"}} = {}
          /\ {c \in Consumers : cpc[c] \in {"waitCounting", "read", "advance"}} = {}
      BY DEF Init
    <3> QED BY <3>1, FS_EmptySet DEF CountAt
  <2>5. TokensAccounted
    BY <2>4, NAssumption DEF Init, TokensAccounted, PlacesAccounted, LinesAccounted
  <2> QED BY <2>1, <2>3, <2>5 DEF Inv1
<1>2. Inv1 /\ [Next]_vars => Inv1'
  BY TypeStep, LockStep, CountStep DEF Inv1
<1> QED BY <1>1, <1>2, PTL DEF Spec

\* One thread at a time works on the ring.
THEOREM OneThreadInRing == Spec => []MutualExclusion
<1>1. Inv1 => MutualExclusion
  BY DEF Inv1, LockInv, MutualExclusion
<1> QED BY <1>1, Inv1Inductive, PTL

\* Every variable stays in its range; in particular the ring never holds more
\* than N lines.
THEOREM TypeCorrect == Spec => []TypeOK
<1>1. Inv1 => TypeOK
  <2> SUFFICES ASSUME Inv1 PROVE TypeOK
    OBVIOUS
  <2>1. /\ N = notFull + count + Returning + Owners
        /\ count = notEmpty + Posting + Claimants
    BY DEF Inv1, TokensAccounted, PlacesAccounted, LinesAccounted, Owners, Posting, Returning,
           Claimants
  <2>2. notFull \in 0..N /\ count \in 0..N /\ notEmpty \in 0..N
    BY <2>1, CountsAreNaturals, NAssumption DEF Inv1, TypeInv
  <2> QED BY <2>2 DEF Inv1, TypeInv, TypeOK
<1> QED BY <1>1, Inv1Inductive, PTL

\* No place of the ring is lost or used twice, and no line is without its token
\* nor a token without its line.
THEOREM TokensAreAccounted == Spec => []TokensAccounted
BY Inv1Inductive, PTL DEF Inv1

\* A producer that exits keeps the place it took, so at most N of them exit: the
\* joins of main cannot all return when there are more.
THEOREM ExitsAreBounded == Spec => []ExitsBoundedBySlots
<1> DEFINE Keepers == {"waitCounting", "getline", "advance", "exited"}
<1>1. Inv1 => ExitsBoundedBySlots
  <2> SUFFICES ASSUME Inv1 PROVE Cardinality(Exited) <= N
    BY DEF ExitsBoundedBySlots
  <2> DEFINE A == {p \in Producers : ppc[p] \in Keepers}
  <2>1. Exited \subseteq A /\ A \subseteq Producers
    BY DEF Exited
  <2>2. IsFiniteSet(A)
    BY <2>1, ThreadsAssumption, FS_Subset
  <2>3. Cardinality(Exited) <= Cardinality(A) /\ Cardinality(Exited) \in Nat
    BY <2>1, <2>2, FS_Subset, FS_CardinalityType
  <2>4. Cardinality(A) = CountAt(Producers, ppc, Keepers)
    BY DEF CountAt
  <2>5. /\ CountAt(Producers, ppc, Keepers) \in Nat
        /\ CountAt(Consumers, cpc, {"postNotFull"}) \in Nat
    BY ThreadsAssumption, CountType
  <2>6. N = notFull + count + CountAt(Consumers, cpc, {"postNotFull"})
              + CountAt(Producers, ppc, Keepers)
    BY DEF Inv1, TokensAccounted, PlacesAccounted
  <2> HIDE DEF A, Keepers
  <2>7. notFull \in Nat /\ count \in Nat
    BY DEF Inv1, TypeInv
  <2> QED BY <2>3, <2>4, <2>5, <2>6, <2>7, NAssumption
<1> QED BY <1>1, Inv1Inductive, PTL

-----------------------------------------------------------------------------
\* What the ring holds. A producer at "advance" has put a line that count does
\* not show yet; a consumer at "advance" has read one that count still shows.
Putting == \E p \in Producers : ppc[p] = "advance"
Taken == Len(consumed) - (IF Reading = {} THEN 0 ELSE 1)

\* Lines 1..Taken are gone, Taken + 1..bookPos lie in the ring, each in the place
\* of its number, and what was consumed is 1..Len(consumed).
RingInv ==
  /\ Taken \in Nat /\ Sent \in Nat /\ Sent = Taken + count
  /\ readFrom = Taken % N
  /\ writeTo = Sent % N
  /\ Placed(buffer, N, Taken, bookPos)
  /\ ConsumedInOrder

\* No producer leaves before the end of the book, nor main before the producers.
EndInv ==
  /\ \A p \in Producers : ppc[p] = "exited" => bookPos = Lines
  /\ mpc \in {"waitCounting", "check", "postCounting", "finished"} =>
       \A p \in Producers : ppc[p] = "exited"

Inv2 == Inv1 /\ RingInv

\* While a thread holds the lock no other one is putting or reading.
LEMMA HolderIsAlone ==
  ASSUME LockInv, NEW t \in Holders
  PROVE  /\ Putting => t \in Producers /\ ppc[t] = "advance"
         /\ Reading # {} => t \in Consumers /\ cpc[t] = "advance"
BY DEF LockInv, Holders, Putting, Reading

\* A step that moves nobody to or from "advance" and leaves the ring alone keeps
\* the invariant of the ring.
LEMMA RingUntouched ==
  ASSUME RingInv, UNCHANGED <<ring, bookPos, consumed, Putting, Reading>>
  PROVE  RingInv'
BY DEF RingInv, ring, Taken, Sent, Putting, ConsumedInOrder

\* getline and the copy into the free place.
LEMMA PutLineStep ==
  ASSUME Inv2, NEW p \in Producers, PutLine(p)
  PROVE  RingInv'
<1> USE NAssumption, LinesAssumption
<1>1. TypeInv /\ LockInv /\ RingInv
  BY DEF Inv1, Inv2
<1>2. ppc[p] = "getline" /\ p \in Holders
  BY <1>1, ProducerMovesHolders DEF PutLine, ProducerAt, PHold
<1>3. ~Putting /\ Reading = {} /\ p \notin Consumers
  BY <1>1, <1>2, HolderIsAlone, ThreadsAssumption
<1>4. Putting' /\ Reading' = {}
  BY <1>1, <1>3 DEF PutLine, ProducerAt, Putting, Reading, TypeInv
<1>5. Sent = bookPos /\ Taken = Len(consumed)
  BY <1>1, <1>3 DEF Sent, Putting, Taken, TypeInv
<1>6. Sent' = Sent /\ Taken' = Taken /\ bookPos' = bookPos + 1 /\ consumed' = consumed
  BY <1>1, <1>3, <1>4, <1>5 DEF Sent, Putting, Taken, TypeInv, PutLine
<1>7. count < N
  BY <1>2, OwnedPlaceExists DEF Inv2
<1>8. Taken <= bookPos /\ bookPos - Taken < N /\ Taken \in Nat /\ bookPos \in Nat
  BY <1>1, <1>5, <1>7 DEF RingInv, TypeInv
<1>9. buffer' = [buffer EXCEPT ![bookPos % N] = bookPos + 1]
  BY <1>1, <1>5 DEF PutLine, RingInv
<1>10. Placed(buffer', N, Taken, bookPos + 1)
  <2>1. buffer \in [0..(N - 1) -> 0..Lines] /\ Placed(buffer, N, Taken, bookPos)
    BY <1>1 DEF TypeInv, RingInv
  <2> QED BY <1>8, <1>9, <2>1, PlacedPut
<1>11. UNCHANGED <<writeTo, readFrom, count>>
  BY DEF PutLine
<1> QED BY <1>1, <1>6, <1>10, <1>11 DEF RingInv, ConsumedInOrder

\* count++ and the move of writeTo.
LEMMA AdvanceWriteStep ==
  ASSUME Inv2, NEW p \in Producers, AdvanceWrite(p)
  PROVE  RingInv'
<1> USE NAssumption, LinesAssumption
<1>1. TypeInv /\ LockInv /\ RingInv
  BY DEF Inv1, Inv2
<1>2. ppc[p] = "advance" /\ p \in Holders
  BY <1>1, ProducerMovesHolders DEF AdvanceWrite, ProducerAt, PHold
<1>3. Putting /\ Reading = {} /\ p \notin Consumers
  BY <1>1, <1>2, HolderIsAlone, ThreadsAssumption DEF Putting
<1>4. ~Putting' /\ Reading' = {}
  <2>1. \A r \in Producers : r # p => ppc[r] # "advance"
    BY <1>1, <1>2 DEF LockInv, Holders
  <2> QED BY <2>1, <1>1, <1>3 DEF AdvanceWrite, ProducerAt, Putting, Reading, TypeInv
<1>5. Sent = bookPos - 1 /\ bookPos \in Nat
  BY <1>1, <1>3 DEF Sent, Putting, TypeInv
<1>6. /\ Sent' = Sent + 1 /\ Taken' = Taken /\ count' = count + 1
      /\ UNCHANGED <<buffer, bookPos, readFrom, consumed>>
  BY <1>1, <1>3, <1>4, <1>5 DEF Sent, Putting, Taken, TypeInv, AdvanceWrite
<1>7. writeTo' = Sent' % N
  BY <1>1, <1>6, ModSucc DEF AdvanceWrite, RingInv
<1> QED BY <1>1, <1>6, <1>7 DEF RingInv, ConsumedInOrder, TypeInv

\* A consumer reads the oldest line.
LEMMA ReadLineStep ==
  ASSUME Inv2, NEW c \in Consumers, ReadLine(c)
  PROVE  /\ RingInv'
         /\ buffer[readFrom] = Len(consumed) + 1
         /\ Reading = {} /\ Reading' # {}
         /\ Putting' = Putting
<1> USE NAssumption, LinesAssumption
<1>1. TypeInv /\ LockInv /\ RingInv
  BY DEF Inv1, Inv2
<1>2. cpc[c] = "read" /\ c \in Holders
  BY <1>1, ConsumerMovesHolders DEF ReadLine, ConsumerAt, CHold
<1>3. ~Putting /\ Reading = {} /\ c \notin Producers
  BY <1>1, <1>2, HolderIsAlone, ThreadsAssumption
<1>4. Reading' # {} /\ Putting' = Putting
  BY <1>1 DEF ReadLine, ConsumerAt, Putting, Reading, TypeInv
<1>5. Taken = Len(consumed) /\ Len(consumed) \in Nat /\ Sent = bookPos
  BY <1>1, <1>3 DEF Taken, Sent, Putting, TypeInv
<1>6. count > 0
  BY <1>2, ClaimedLineExists DEF Inv2
<1>7. buffer[readFrom] = Taken + 1
  <2>1. Taken < bookPos /\ Taken \in Nat /\ bookPos \in Nat
    BY <1>1, <1>5, <1>6 DEF RingInv, TypeInv
  <2> QED BY <2>1, <1>1, PlacedTake DEF RingInv
<1>8. /\ consumed' \in Seq(Nat) /\ Len(consumed') = Len(consumed) + 1
      /\ consumed'[Len(consumed) + 1] = Len(consumed) + 1
      /\ \A i \in 1..Len(consumed) : consumed'[i] = consumed[i]
  BY <1>1, <1>5, <1>7 DEF ReadLine, TypeInv
<1>9. Taken' = Taken /\ Sent' = Sent /\ UNCHANGED <<ring, bookPos>>
  BY <1>4, <1>5, <1>8 DEF ReadLine, Taken, Sent, Putting
<1>10. ConsumedInOrder'
  <2> SUFFICES ASSUME NEW i \in 1..Len(consumed') PROVE consumed'[i] = i
    BY DEF ConsumedInOrder
  <2>1. CASE i = Len(consumed) + 1
    BY <2>1, <1>8
  <2>2. CASE i \in 1..Len(consumed)
    BY <2>2, <1>1, <1>8 DEF RingInv, ConsumedInOrder
  <2> QED BY <2>1, <2>2, <1>5, <1>8
<1>11. RingInv'
  BY <1>1, <1>9, <1>10 DEF RingInv, ring
<1> QED BY <1>3, <1>4, <1>5, <1>7, <1>11

\* count-- and the move of readFrom.
LEMMA AdvanceReadStep ==
  ASSUME Inv2, NEW c \in Consumers, AdvanceRead(c)
  PROVE  RingInv'
<1> USE NAssumption, LinesAssumption
<1>1. TypeInv /\ LockInv /\ RingInv
  BY DEF Inv1, Inv2
<1>2. cpc[c] = "advance" /\ c \in Holders
  BY <1>1, ConsumerMovesHolders DEF AdvanceRead, ConsumerAt, CHold
<1>3. ~Putting /\ Reading # {} /\ c \notin Producers
  BY <1>1, <1>2, HolderIsAlone, ThreadsAssumption DEF Reading
<1>4. Reading' = {} /\ ~Putting'
  <2>1. \A r \in Consumers : r # c => cpc[r] # "advance"
    BY <1>1, <1>2 DEF LockInv, Holders
  <2> QED BY <2>1, <1>1, <1>3 DEF AdvanceRead, ConsumerAt, Putting, Reading, TypeInv
<1>5. count > 0
  BY <1>2, ClaimedLineExists DEF Inv2
<1>6. /\ Sent' = Sent /\ count' = count - 1
      /\ UNCHANGED <<buffer, bookPos, writeTo, consumed>>
  BY <1>3, <1>4 DEF Sent, Putting, AdvanceRead
<1>7. Taken' = Taken + 1
  BY <1>1, <1>3, <1>4, <1>6 DEF Taken, TypeInv
<1>8. readFrom' = Taken' % N
  BY <1>1, <1>7, ModSucc DEF AdvanceRead, RingInv
<1>9. Taken < bookPos /\ Taken \in Nat /\ bookPos \in Nat
  BY <1>1, <1>3, <1>5 DEF RingInv, TypeInv, Sent, Putting
<1>10. Placed(buffer', N, Taken', bookPos')
  BY <1>1, <1>6, <1>7, <1>9, PlacedTake DEF RingInv
<1>11. Sent' \in Nat /\ Taken' \in Nat /\ Sent' = Taken' + count'
  BY <1>1, <1>6, <1>7 DEF RingInv, TypeInv
<1>12. readFrom' = Taken' % N /\ writeTo' = Sent' % N
  BY <1>1, <1>6, <1>8 DEF RingInv
<1>13. ConsumedInOrder'
  BY <1>1, <1>6 DEF RingInv, ConsumedInOrder
<1> QED BY <1>10, <1>11, <1>12, <1>13 DEF RingInv

\* The steps that move no line.
QuietStep ==
  \/ \E p \in Producers :
       WaitNotFull(p) \/ ProducerLock(p) \/ ProducerExit(p) \/ PostNotEmpty(p)
         \/ ProducerUnlock(p)
  \/ \E c \in Consumers :
       WaitNotEmpty(c) \/ ConsumerLock(c) \/ PostNotFull(c) \/ ConsumerUnlock(c)
  \/ Main \/ Kill \/ UNCHANGED vars

LEMMA QuietStepUntouched ==
  ASSUME TypeInv, QuietStep
  PROVE  UNCHANGED <<ring, bookPos, consumed, Putting, Reading>>
<1>1. ASSUME NEW p \in Producers,
             WaitNotFull(p) \/ ProducerLock(p) \/ ProducerExit(p) \/ PostNotEmpty(p)
               \/ ProducerUnlock(p)
      PROVE  UNCHANGED <<ring, bookPos, consumed, Putting, Reading>>
  <2>1. UNCHANGED <<ring, bookPos, consumed, cpc>>
    BY <1>1
    DEF WaitNotFull, ProducerLock, ProducerExit, PostNotEmpty, ProducerUnlock, ProducerAt
  <2>2. \A r \in Producers : ppc'[r] = "advance" <=> ppc[r] = "advance"
    BY <1>1
    DEF WaitNotFull, ProducerLock, ProducerExit, PostNotEmpty, ProducerUnlock, ProducerAt,
        TypeInv
  <2>3. Putting' = Putting
    BY <2>2 DEF Putting
  <2>4. Reading' = Reading
    BY <2>1 DEF Reading
  <2> QED BY <2>1, <2>3, <2>4
<1>2. ASSUME NEW c \in Consumers,
             WaitNotEmpty(c) \/ ConsumerLock(c) \/ PostNotFull(c) \/ ConsumerUnlock(c)
      PROVE  UNCHANGED <<ring, bookPos, consumed, Putting, Reading>>
  <2>1. UNCHANGED <<ring, bookPos, consumed, ppc>>
    BY <1>2 DEF WaitNotEmpty, ConsumerLock, PostNotFull, ConsumerUnlock, ConsumerAt
  <2>2. \A r \in Consumers : cpc'[r] = "advance" <=> cpc[r] = "advance"
    BY <1>2
    DEF WaitNotEmpty, ConsumerLock, PostNotFull, ConsumerUnlock, ConsumerAt, TypeInv
  <2>3. Putting' = Putting
    BY <2>1 DEF Putting
  <2>4. Reading' = Reading
    BY <2>2 DEF Reading
  <2> QED BY <2>1, <2>3, <2>4
<1>3. ASSUME Main \/ Kill \/ UNCHANGED vars
      PROVE  UNCHANGED <<ring, bookPos, consumed, Putting, Reading>>
  <2>1. UNCHANGED <<ring, bookPos, consumed, ppc, cpc>>
    BY <1>3
    DEF Main, Join, MainLock, Finish, LookAgain, MainUnlock, MainAt, Kill, vars, ring
  <2> QED BY <2>1 DEF Putting, Reading
<1> QED BY <1>1, <1>2, <1>3 DEF QuietStep

\* Every step is one that moves a line or a quiet one.
LEMMA StepKinds ==
  [Next]_vars =>
    \/ \E p \in Producers : PutLine(p) \/ AdvanceWrite(p)
    \/ \E c \in Consumers : ReadLine(c) \/ AdvanceRead(c)
    \/ QuietStep
BY DEF Next, Producer, Consumer, Terminated, QuietStep

\* The ring keeps its lines.
LEMMA RingStep == Inv2 /\ [Next]_vars => RingInv'
BY StepKinds, PutLineStep, AdvanceWriteStep, ReadLineStep, AdvanceReadStep,
   QuietStepUntouched, RingUntouched
DEF Inv2, Inv1

\* Types, lock, accounts and ring together.
LEMMA Inv2Inductive == Spec => []Inv2
<1>1. Init => RingInv
  <2> SUFFICES ASSUME Init PROVE RingInv
    OBVIOUS
  <2>1. ~Putting /\ Reading = {} /\ Len(consumed) = 0 /\ bookPos = 0
    BY DEF Init, Putting, Reading
  <2>2. Taken = 0 /\ Sent = 0
    <3>1. Taken = 0
      BY <2>1 DEF Taken
    <3>2. Sent = 0
      <4>1. ~(\E p \in Producers : ppc[p] = "advance")
        BY <2>1 DEF Putting
      <4> QED BY <4>1, <2>1 DEF Sent
    <3> QED BY <3>1, <3>2
  <2>3. 0 % N = 0
    <3>1. (N * 0 + 0) % N = 0
      BY ModUnique, NAssumption
    <3>2. N * 0 + 0 = 0
      BY NAssumption
    <3> QED BY <3>1, <3>2
  <2> QED BY <2>1, <2>2, <2>3 DEF Init, RingInv, Placed, ConsumedInOrder
<1>2. Inv1 /\ Inv1' /\ RingInv /\ [Next]_vars => RingInv'
  BY RingStep DEF Inv2
<1> QED BY <1>1, <1>2, Inv1Inductive, PTL DEF Spec, Inv2

\* The consumers get the lines of the book in order, none lost and none twice.
THEOREM LinesComeOutInOrder == Spec => []ConsumedInOrder
BY Inv2Inductive, PTL DEF Inv2, RingInv

-----------------------------------------------------------------------------
\* Threads leave in order: producers after the book, main after the producers.
LEMMA EndInvInductive == Spec => []EndInv
<1>1. Init => EndInv
  BY DEF Init, EndInv
<1>2. Inv1 /\ EndInv /\ [Next]_vars => EndInv'
  <2> SUFFICES ASSUME Inv1, EndInv, [Next]_vars PROVE EndInv'
    OBVIOUS
  <2>0. TypeInv
    BY DEF Inv1
  <2>1. ASSUME NEW p \in Producers, Producer(p) PROVE EndInv'
    <3>1. CASE PutLine(p)
      <4>1. bookPos # Lines
        BY <3>1, LinesAssumption DEF PutLine
      <4> QED BY <3>1, <4>1, <2>0 DEF PutLine, ProducerAt, EndInv, TypeInv
    <3>2. CASE ProducerExit(p)
      BY <3>2, <2>0 DEF ProducerExit, ProducerAt, EndInv, TypeInv
    <3>3. CASE \/ WaitNotFull(p) \/ ProducerLock(p) \/ AdvanceWrite(p)
               \/ PostNotEmpty(p) \/ ProducerUnlock(p)
      <4>1. /\ UNCHANGED <<bookPos, mpc>> /\ ppc[p] # "exited"
            /\ \A r \in Producers : ppc'[r] = "exited" <=> ppc[r] = "exited"
        BY <3>3, <2>0
        DEF WaitNotFull, ProducerLock, AdvanceWrite, PostNotEmpty, ProducerUnlock,
            ProducerAt, TypeInv
      <4> QED BY <4>1 DEF EndInv
    <3> QED BY <2>1, <3>1, <3>2, <3>3 DEF Producer
  <2>2. ASSUME NEW c \in Consumers, Consumer(c) PROVE EndInv'
    <3>1. UNCHANGED <<bookPos, mpc, ppc>>
      BY <2>2
      DEF Consumer, WaitNotEmpty, ConsumerLock, ReadLine, AdvanceRead, PostNotFull,
          ConsumerUnlock, ConsumerAt
    <3> QED BY <3>1 DEF EndInv
  <2>3. CASE Main
    BY <2>3
    DEF Main, Join, MainLock, Finish, LookAgain, MainUnlock, MainAt, EndInv
  <2>4. CASE Kill
    BY <2>4 DEF Kill, EndInv
  <2>5. CASE UNCHANGED vars
    BY <2>5 DEF vars, EndInv
  <2> QED BY <2>1, <2>2, <2>3, <2>4, <2>5 DEF Next, Terminated
<1> QED BY <1>1, <1>2, Inv1Inductive, PTL DEF Spec

\* The lines in the ring are the ones after those that were consumed.
InFlightIs ==
  /\ Sent - Len(consumed) \in Nat
  /\ InFlight = Numbers(Len(consumed), Sent - Len(consumed))

LEMMA InFlightLines == Inv2 => InFlightIs
<1> SUFFICES ASSUME Inv2 PROVE InFlightIs
  OBVIOUS
<1> USE NAssumption
<1>1. TypeInv /\ RingInv /\ LockInv
  BY DEF Inv1, Inv2
<1> DEFINE r == IF Reading = {} THEN 0 ELSE 1
<1>2. Len(consumed) \in Nat /\ bookPos \in Nat /\ Sent <= bookPos
  BY <1>1 DEF TypeInv, Sent
<1>3. r \in {0, 1} /\ Taken + r = Len(consumed) /\ Taken \in Nat /\ count \in Nat
      /\ Sent = Taken + count /\ Sent \in Nat
  BY <1>1, <1>2 DEF Taken, RingInv, TypeInv
<1>4. r = 1 => count > 0
  BY ClaimedLineExists DEF Inv2, Reading
<1>5. count - r = Sent - Len(consumed) /\ count - r \in Nat
  BY <1>3, <1>4, <1>2
<1>6. readFrom = Taken % N
  BY <1>1 DEF RingInv
<1>7. InFlight = [i \in 1..(count - r) |-> buffer[(readFrom + r + i - 1) % N]]
  BY DEF InFlight
<1> HIDE DEF r
<1>8. ASSUME NEW i \in 1..(count - r)
      PROVE  buffer[(readFrom + r + i - 1) % N] = Len(consumed) + i
  <2> DEFINE j == Len(consumed) + i
             b == r + i - 1
  <2>1. b \in Nat /\ Taken + b = j - 1 /\ j \in (Taken + 1)..bookPos
    BY <1>2, <1>3, <1>5
  <2>2. readFrom + r + i - 1 = (Taken % N) + b
    BY <1>1, <1>3, <1>6 DEF TypeInv
  <2>3. ((Taken % N) + b) % N = (Taken + b) % N
    BY <2>1, <1>3, ModAdd
  <2>4. buffer[(j - 1) % N] = j
    BY <2>1, <1>1 DEF RingInv, Placed
  <2> QED BY <2>1, <2>2, <2>3, <2>4
<1> QED BY <1>5, <1>7, <1>8 DEF InFlightIs, Numbers

\* And they still are after a step.
LEMMA InFlightLinesNext == Inv2' => InFlightIs'
BY InFlightLines, PTL

\* The channel of the refinement, step by step: what decides it is Sent and
\* consumed alone.
LEMMA SameChannel ==
  ASSUME Inv2, Inv2', UNCHANGED <<Sent, consumed>>
  PROVE  InFlight' = InFlight
<1>1. InFlight = Numbers(Len(consumed), Sent - Len(consumed))
  BY InFlightLines DEF InFlightIs
<1>2. InFlight' = Numbers(Len(consumed'), Sent' - Len(consumed'))
  BY InFlightLinesNext DEF InFlightIs
<1> QED BY <1>1, <1>2

\* count++ is Send.
LEMMA AdvanceWriteSends ==
  ASSUME Inv2, Inv2', NEW p \in Producers, AdvanceWrite(p)
  PROVE  Channel!Send
<1> USE NAssumption, LinesAssumption
<1>1. TypeInv /\ LockInv /\ RingInv
  BY DEF Inv1, Inv2
<1>2. ppc[p] = "advance" /\ p \in Holders
  BY <1>1, ProducerMovesHolders DEF AdvanceWrite, ProducerAt, PHold
<1>3. Putting /\ Reading = {} /\ p \notin Consumers
  BY <1>1, <1>2, HolderIsAlone, ThreadsAssumption DEF Putting
<1>4. ~Putting'
  <2>1. \A r \in Producers : r # p => ppc[r] # "advance"
    BY <1>1, <1>2 DEF LockInv, Holders
  <2> QED BY <2>1, <1>1 DEF AdvanceWrite, ProducerAt, Putting, TypeInv
<1>5. /\ Sent = bookPos - 1 /\ Sent' = bookPos /\ bookPos \in 0..Lines
      /\ consumed' = consumed /\ mpc' = mpc /\ Running
      /\ Len(consumed) \in Nat /\ consumed \in Seq(0..Lines)
  BY <1>1, <1>3, <1>4 DEF Sent, Putting, TypeInv, AdvanceWrite, ProducerAt
<1>6. /\ Sent - Len(consumed) \in Nat
      /\ InFlight = Numbers(Len(consumed), Sent - Len(consumed))
  BY InFlightLines DEF InFlightIs
<1>7. InFlight' = Numbers(Len(consumed'), Sent' - Len(consumed'))
  BY InFlightLinesNext DEF InFlightIs
<1>8. InFlight \in Seq(Nat) /\ Len(InFlight) = Sent - Len(consumed)
  BY <1>5, <1>6, NumbersAppend
<1>9. InFlight' = Append(InFlight, Sent + 1)
  <2> DEFINE k == Len(consumed)
             m == Sent - Len(consumed)
  <2>1. k \in Nat /\ m \in Nat /\ Sent' - Len(consumed') = m + 1 /\ k + (m + 1) = Sent + 1
    BY <1>5, <1>6
  <2>2. InFlight = Numbers(k, m) /\ InFlight' = Numbers(k, m + 1)
    BY <1>5, <1>6, <1>7, <2>1
  <2> HIDE DEF k, m
  <2> QED BY <2>1, <2>2, NumbersAppend
<1>10. Sent - Len(consumed) < N
  <2>1. count < N
    BY <1>2, OwnedPlaceExists DEF Inv2
  <2>2. Taken = Len(consumed)
    BY <1>3, <1>5 DEF Taken
  <2> QED BY <2>1, <2>2, <1>1, <1>5 DEF RingInv, TypeInv
<1>11. Status = "open" /\ Status' = Status
  BY <1>5 DEF Status, Running
<1> QED BY <1>5, <1>8, <1>9, <1>10, <1>11 DEF Channel!Send

\* Reading the oldest line is Receive.
LEMMA ReadLineReceives ==
  ASSUME Inv2, Inv2', NEW c \in Consumers, ReadLine(c)
  PROVE  Channel!Receive
<1> USE NAssumption, LinesAssumption
<1>1. TypeInv /\ RingInv
  BY DEF Inv1, Inv2
<1>2. /\ buffer[readFrom] = Len(consumed) + 1 /\ Reading = {} /\ Putting' = Putting
      /\ cpc[c] = "read"
  BY ReadLineStep DEF ReadLine, ConsumerAt
<1>3. /\ consumed' = Append(consumed, Len(consumed) + 1)
      /\ bookPos' = bookPos /\ mpc' = mpc /\ Running
      /\ Len(consumed) \in Nat /\ Len(consumed') = Len(consumed) + 1
  BY <1>1, <1>2 DEF ReadLine, ConsumerAt, TypeInv
<1>4. Sent' = Sent
  BY <1>2, <1>3 DEF Sent, Putting
<1>5. /\ Sent - Len(consumed) \in Nat
      /\ InFlight = Numbers(Len(consumed), Sent - Len(consumed))
  BY InFlightLines DEF InFlightIs
<1>6. InFlight' = Numbers(Len(consumed'), Sent' - Len(consumed'))
  BY InFlightLinesNext DEF InFlightIs
<1>7. Sent - Len(consumed) > 0
  <2>1. count > 0
    BY <1>2, ClaimedLineExists DEF Inv2
  <2>2. Taken = Len(consumed)
    BY <1>2, <1>3 DEF Taken
  <2> QED BY <2>1, <2>2, <1>1, <1>5 DEF RingInv, TypeInv
<1>8. /\ InFlight # <<>> /\ Head(InFlight) = Len(consumed) + 1
      /\ Tail(InFlight) = InFlight'
  <2> DEFINE k == Len(consumed)
             m == Sent - Len(consumed)
  <2>1. k \in Nat /\ m \in Nat /\ m > 0 /\ Sent' - Len(consumed') = m - 1
        /\ Len(consumed') = k + 1
    BY <1>1, <1>3, <1>4, <1>5, <1>7 DEF RingInv
  <2>2. InFlight = Numbers(k, m) /\ InFlight' = Numbers(k + 1, m - 1)
    BY <1>5, <1>6, <2>1
  <2>3. k = Len(consumed)
    OBVIOUS
  <2> HIDE DEF k, m
  <2> QED BY <2>1, <2>2, <2>3, NumbersHeadTail
<1>9. Status = "open" /\ Status' = Status
  BY <1>3 DEF Status, Running
<1> QED BY <1>3, <1>4, <1>8, <1>9 DEF Channel!Receive

\* A step that neither sends nor receives and leaves main's status alone.
LEMMA StutterStep ==
  ASSUME Inv2, Inv2', UNCHANGED <<Sent, consumed, Status>>
  PROVE  UNCHANGED Channel!cvars
BY SameChannel DEF Channel!cvars

\* exit() from main finds the lock held, so no line is in motion, and all
\* producers gone, so the book is read to its end: that is the channel's Finish.
LEMMA FinishFinishes ==
  ASSUME Inv2, Inv2', EndInv, Finish
  PROVE  Channel!Finish
<1> USE NAssumption, LinesAssumption
<1>1. TypeInv /\ LockInv /\ RingInv
  BY DEF Inv1, Inv2
<1>2. mpc = "check" /\ mpc' = "finished" /\ count = 0
      /\ UNCHANGED <<ring, bookPos, consumed, ppc, cpc>>
  BY DEF Finish, MainAt
<1>3. Holders = {}
  BY <1>1, <1>2 DEF LockInv
<1>4. ~Putting /\ Reading = {}
  BY <1>3 DEF Holders, Putting, Reading
<1>5. bookPos = Lines
  <2>1. \A p \in Producers : ppc[p] = "exited"
    BY <1>2 DEF EndInv
  <2> QED BY <2>1, ThreadsAssumption DEF EndInv
<1>6. Sent = Lines /\ Sent' = Sent /\ Taken = Len(consumed)
  BY <1>2, <1>4, <1>5, <1>1 DEF Sent, Putting, Taken, TypeInv
<1>7. InFlight' = InFlight
  BY <1>2, <1>6, SameChannel
<1>8. Len(consumed) = Sent
  BY <1>1, <1>2, <1>6 DEF RingInv, TypeInv
<1>9. InFlight = <<>>
  <2>1. InFlight = Numbers(Len(consumed), 0)
    BY <1>6, <1>8, InFlightLines DEF InFlightIs
  <2>2. Len(consumed) \in Nat
    BY <1>6, <1>8
  <2>3. Numbers(Len(consumed), 0) \in Seq(Nat) /\ Len(Numbers(Len(consumed), 0)) = 0
    BY <2>2, NumbersAppend
  <2> QED BY <2>1, <2>3
<1>10. Status = "open" /\ Status' = "finished"
  BY <1>2 DEF Status
<1> QED BY <1>2, <1>6, <1>7, <1>9, <1>10 DEF Channel!Finish

\* Every step of the program is one of the channel or invisible in it.
LEMMA RefineStep ==
  Inv2 /\ Inv2' /\ EndInv /\ [Next]_vars => [Channel!Next]_(Channel!cvars)
<1> SUFFICES ASSUME Inv2, Inv2', EndInv, [Next]_vars
             PROVE  [Channel!Next]_(Channel!cvars)
  OBVIOUS
<1>1. TypeInv /\ LockInv /\ RingInv
  BY DEF Inv1, Inv2
<1>2. ASSUME NEW p \in Producers, PutLine(p) PROVE UNCHANGED Channel!cvars
  <2>1. Sent' = Sent
    <3>1. ppc[p] = "getline" /\ p \in Holders
      BY <1>1, <1>2, ProducerMovesHolders DEF PutLine, ProducerAt, PHold
    <3>2. ~Putting
      BY <1>1, <3>1, HolderIsAlone
    <3>3. Putting'
      BY <1>1, <1>2 DEF PutLine, ProducerAt, Putting, TypeInv
    <3> QED BY <3>2, <3>3, <1>1, <1>2, LinesAssumption DEF Sent, Putting, PutLine, TypeInv
  <2>2. UNCHANGED <<consumed, Status>>
    BY <1>2 DEF PutLine, ProducerAt, Status
  <2> QED BY <2>1, <2>2, StutterStep
<1>3. ASSUME NEW c \in Consumers, AdvanceRead(c) PROVE UNCHANGED Channel!cvars
  <2>1. UNCHANGED <<consumed, bookPos, ppc, mpc>>
    BY <1>3 DEF AdvanceRead, ConsumerAt
  <2>2. UNCHANGED <<Sent, Status>>
    BY <2>1 DEF Sent, Status
  <2> QED BY <2>1, <2>2, StutterStep
<1>4. ASSUME QuietStep, Status' = Status PROVE UNCHANGED Channel!cvars
  <2>1. UNCHANGED <<ring, bookPos, consumed, Putting, Reading>>
    BY <1>1, <1>4, QuietStepUntouched
  <2>2. Sent' = Sent
    BY <2>1 DEF Sent, Putting
  <2> QED BY <1>4, <2>1, <2>2, StutterStep
<1>5. ASSUME Kill PROVE Channel!Kill
  <2>1. UNCHANGED <<bookPos, consumed, ppc>> /\ Running /\ mpc' = "killed"
    BY <1>5 DEF Kill
  <2>2. Sent' = Sent
    BY <2>1 DEF Sent
  <2>3. InFlight' = InFlight
    BY <2>1, <2>2, SameChannel
  <2>4. Status = "open" /\ Status' = "killed"
    BY <2>1 DEF Status, Running
  <2> QED BY <2>1, <2>2, <2>3, <2>4 DEF Channel!Kill
<1>6. ASSUME QuietStep, Status' # Status PROVE Finish \/ Kill
  <2>1. mpc' # mpc
    BY <1>6 DEF Status
  <2>2. Main \/ Kill
    BY <1>6, <2>1
    DEF QuietStep, vars, WaitNotFull, ProducerLock, ProducerExit, PostNotEmpty,
        ProducerUnlock, ProducerAt, WaitNotEmpty, ConsumerLock, PostNotFull,
        ConsumerUnlock, ConsumerAt
  <2>3. ASSUME Join \/ MainLock \/ LookAgain \/ MainUnlock PROVE FALSE
    BY <1>6, <2>3 DEF Join, MainLock, LookAgain, MainUnlock, MainAt, Status
  <2> QED BY <2>2, <2>3 DEF Main
<1>7. CASE QuietStep
  <2>1. CASE Status' = Status
    BY <1>7, <2>1, <1>4
  <2>2. CASE Finish
    BY <2>2, FinishFinishes DEF Channel!Next
  <2>3. CASE Kill
    BY <2>3, <1>5 DEF Channel!Next
  <2> QED BY <1>7, <1>6, <2>1, <2>2, <2>3
<1>8. ASSUME NEW p \in Producers, AdvanceWrite(p) PROVE Channel!Next
  BY <1>8, AdvanceWriteSends DEF Channel!Next
<1>9. ASSUME NEW c \in Consumers, ReadLine(c) PROVE Channel!Next
  BY <1>9, ReadLineReceives DEF Channel!Next
<1> QED BY StepKinds, <1>2, <1>3, <1>7, <1>8, <1>9

\* The empty ring is the empty channel.
LEMMA RefineInit == Init /\ Inv2 => Channel!Init
<1> SUFFICES ASSUME Init, Inv2 PROVE Channel!Init
  OBVIOUS
<1>1. consumed = <<>> /\ Len(consumed) = 0 /\ Sent = 0 /\ Status = "open"
  BY DEF Init, Sent, Status
<1>2. InFlight = Numbers(0, 0)
  BY <1>1, InFlightLines DEF InFlightIs
<1>3. Numbers(0, 0) \in Seq(Nat) /\ Len(Numbers(0, 0)) = 0
  BY NumbersAppend
<1>4. InFlight = <<>>
  BY <1>2, <1>3
<1> QED BY <1>1, <1>4 DEF Channel!Init

\* The program with semaphores implements the bounded channel: sending is
\* count++, receiving is reading the oldest line, and it ends only when all is read.
THEOREM SemaphoresImplementChannel == Spec => ImplementsChannel
BY Inv2Inductive, EndInvInductive, RefineInit, RefineStep, PTL
DEF ImplementsChannel, Channel!Spec, Spec

-----------------------------------------------------------------------------
(* The program with a mutex and condition variables, over the same ring,     *)
(* book and threads.                                                         *)
CONSTANTS MainT, Nobody
VARIABLES mutex, emptyWaiters, fullWaiters, pc

CV == INSTANCE BufferMutex WITH Main <- MainT

\* What BufferMutex assumes of its constants beside what BufferSem does.
Apart ==
  /\ MainT \notin Producers \cup Consumers
  /\ Nobody \notin Producers \cup Consumers \cup {MainT}

\* Where a thread is between pthread_mutex_lock, or the return from a wait, and
\* the unlock or wait that follows. A wait gives the mutex back.
Hold == {"test", "getline", "advance", "signalEmpty", "unlock", "read"}

CVLockInv == \A t \in CV!Threads : pc[t] \in Hold => mutex = t

\* What a thread has found in the ring is still so when it works on it, although
\* others have run while it was asleep.
RoomInv ==
  /\ \A p \in Producers : pc[p] \in {"getline", "advance"} => count < N
  /\ \A c \in Consumers : pc[c] \in {"read", "advance"} => count > 0

\* Who waits on a condition variable is asleep.
WaitInv == \A t \in emptyWaiters \cup fullWaiters : pc[t] = "asleep"

CVInv1 == Apart /\ CV!TypeOK /\ CVLockInv /\ RoomInv /\ WaitInv

-----------------------------------------------------------------------------
\* The move of one thread.
LEMMA AtMoves ==
  ASSUME CV!TypeOK, NEW t \in CV!Threads, NEW from, NEW to, CV!At(t, from, to)
  PROVE  /\ pc[t] = from /\ pc'[t] = to
         /\ \A u \in CV!Threads : u # t => pc'[u] = pc[u]
BY DEF CV!TypeOK, CV!At

\* pthread_cond_signal moves the thread that calls it and may wake one that
\* sleeps; it does nothing to the others.
LEMMA SignalMoves ==
  ASSUME CV!TypeOK, WaitInv, NEW t \in CV!Threads, pc[t] # "asleep", NEW W, NEW to,
         W \subseteq emptyWaiters \/ W \subseteq fullWaiters, CV!SignalOne(W, t, to)
  PROVE  /\ pc'[t] = to
         /\ \A u \in CV!Threads : u # t =>
              pc'[u] = pc[u] \/ (u \in W /\ pc[u] = "asleep" /\ pc'[u] = "relock")
         /\ W # {} => \E u \in W : pc'[u] = "relock"
<1>1. W \subseteq CV!Threads /\ \A w \in W : pc[w] = "asleep"
  BY DEF CV!TypeOK, WaitInv, CV!Threads
<1>2. CASE W = {} /\ pc' = [pc EXCEPT ![t] = to]
  BY <1>2 DEF CV!TypeOK
<1>3. ASSUME NEW w \in W, pc' = [pc EXCEPT ![t] = to, ![w] = "relock"]
      PROVE  /\ pc'[t] = to
             /\ \A u \in CV!Threads : u # t =>
                  pc'[u] = pc[u] \/ (u \in W /\ pc[u] = "asleep" /\ pc'[u] = "relock")
             /\ W # {} => \E u \in W : pc'[u] = "relock"
  BY <1>1, <1>3 DEF CV!TypeOK
<1> QED BY <1>2, <1>3 DEF CV!SignalOne

\* Threads are not mixed up with one another, nor with nobody.
LEMMA ThreadKinds ==
  Apart =>
  /\ Producers \subseteq CV!Threads /\ Consumers \subseteq CV!Threads /\ MainT \in CV!Threads
  /\ Producers \cap Consumers = {} /\ MainT \notin Producers /\ MainT \notin Consumers
  /\ Nobody \notin CV!Threads
BY ThreadsAssumption DEF Apart, CV!Threads

LEMMA CVInv1Apart == CVInv1 => Apart
BY DEF CVInv1

-----------------------------------------------------------------------------
\* Every step keeps the types; the bounds of count are those its threads found.
LEMMA CVTypeStep == CVInv1 /\ [CV!Next]_(CV!vars) => CV!TypeOK'
<1> SUFFICES ASSUME CVInv1, [CV!Next]_(CV!vars) PROVE CV!TypeOK'
  OBVIOUS
<1> USE NAssumption, LinesAssumption, ThreadKinds, CVInv1Apart
    DEF CVInv1, CV!TypeOK, CV!ring, CV!waiters, CV!At, CV!Acquire, CV!Release, CV!Labels
<1>1. ASSUME NEW t \in CV!Threads, CV!LockMutex(t) PROVE CV!TypeOK'
  BY <1>1 DEF CV!LockMutex
<1>2. ASSUME NEW p \in Producers, CV!Producer(p) PROVE CV!TypeOK'
  <2>1. CASE CV!WaitWhileFull(p)
    BY <2>1 DEF CV!WaitWhileFull
  <2>2. CASE CV!FoundRoom(p)
    BY <2>2 DEF CV!FoundRoom
  <2>3. CASE CV!PutLine(p)
    BY <2>3 DEF CV!PutLine
  <2>4. CASE CV!ProducerExit(p) \/ CV!ProducerUnlock(p)
    BY <2>4 DEF CV!ProducerExit, CV!ProducerUnlock
  <2>5. CASE CV!AdvanceWrite(p)
    <3>1. count < N
      BY <2>5 DEF CV!AdvanceWrite, RoomInv
    <3> QED BY <2>5, <3>1, ModRange DEF CV!AdvanceWrite
  <2>6. CASE CV!SignalEmpty(p)
    <3>1. pc' \in [CV!Threads -> CV!Labels]
      BY <2>6 DEF CV!SignalEmpty, CV!SignalOne
    <3> QED BY <2>6, <3>1 DEF CV!SignalEmpty, CV!WokenBy
  <2> QED BY <1>1, <1>2, <2>1, <2>2, <2>3, <2>4, <2>5, <2>6 DEF CV!Producer
<1>3. ASSUME NEW c \in Consumers, CV!Consumer(c) PROVE CV!TypeOK'
  <2>1. CASE CV!WaitWhileEmpty(c)
    BY <2>1 DEF CV!WaitWhileEmpty
  <2>2. CASE CV!FoundLine(c)
    BY <2>2 DEF CV!FoundLine
  <2>3. CASE CV!ReadLine(c)
    BY <2>3 DEF CV!ReadLine
  <2>4. CASE CV!ConsumerUnlock(c)
    BY <2>4 DEF CV!ConsumerUnlock
  <2>5. CASE CV!AdvanceRead(c)
    <3>1. count > 0
      BY <2>5 DEF CV!AdvanceRead, RoomInv
    <3> QED BY <2>5, <3>1, ModRange DEF CV!AdvanceRead
  <2>6. CASE CV!SignalFull(c)
    <3>1. pc' \in [CV!Threads -> CV!Labels]
      BY <2>6 DEF CV!SignalFull, CV!SignalOne
    <3> QED BY <2>6, <3>1 DEF CV!SignalFull, CV!WokenBy
  <2> QED BY <1>1, <1>3, <2>1, <2>2, <2>3, <2>4, <2>5, <2>6 DEF CV!Consumer
<1>4. ASSUME NEW t \in Producers \cup Consumers, CV!WakeSpuriously(t) PROVE CV!TypeOK'
  BY <1>4 DEF CV!WakeSpuriously
<1>5. CASE CV!MainThread \/ CV!Kill
  BY <1>1, <1>5 DEF CV!MainThread, CV!Join, CV!Finish, CV!LookAgain, CV!MainUnlock, CV!Kill
<1>6. CASE UNCHANGED CV!vars
  BY <1>6 DEF CV!vars
<1> QED BY <1>2, <1>3, <1>4, <1>5, <1>6 DEF CV!Next, CV!Terminated

-----------------------------------------------------------------------------
\* A step after which nobody is between lock and unlock that was not before.
LEMMA NobodyComesIn ==
  ASSUME CVLockInv, UNCHANGED mutex,
         \A u \in CV!Threads : pc'[u] \in Hold => pc[u] \in Hold
  PROVE  CVLockInv'
BY DEF CVLockInv

\* The mutex is given back by the one that has it.
LEMMA GivesBack ==
  ASSUME CV!TypeOK, CVLockInv, NEW t \in CV!Threads, NEW from \in Hold, NEW to,
         CV!At(t, from, to), to \notin Hold
  PROVE  \A u \in CV!Threads : pc'[u] \notin Hold
BY AtMoves DEF CVLockInv

\* Every step keeps the mutex a lock.
LEMMA CVLockStep == CVInv1 /\ [CV!Next]_(CV!vars) => CVLockInv'
<1> SUFFICES ASSUME CVInv1, [CV!Next]_(CV!vars) PROVE CVLockInv'
  OBVIOUS
<1> USE ThreadKinds, CVInv1Apart
<1>0. CV!TypeOK /\ CVLockInv /\ WaitInv
  BY DEF CVInv1
<1>1. ASSUME NEW t \in CV!Threads, CV!LockMutex(t) PROVE CVLockInv'
  <2>1. \A u \in CV!Threads : pc[u] \notin Hold
    BY <1>0, <1>1 DEF CV!LockMutex, CV!Acquire, CVLockInv
  <2>2. \A u \in CV!Threads : u # t => pc'[u] = pc[u]
    BY <1>0, <1>1, AtMoves DEF CV!LockMutex
  <2> QED BY <1>1, <2>1, <2>2 DEF CV!LockMutex, CV!Acquire, CVLockInv
<1>2. ASSUME NEW t \in CV!Threads,
             \/ CV!At(t, "test", "asleep") \/ CV!At(t, "getline", "exited")
             \/ CV!At(t, "unlock", "lock") \/ CV!At(t, "unlock", "signalFull")
      PROVE  CVLockInv'
  <2>1. \A u \in CV!Threads : pc'[u] \notin Hold
    BY <1>0, <1>2, GivesBack DEF Hold
  <2> QED BY <2>1 DEF CVLockInv
<1>3. ASSUME NEW t \in CV!Threads, NEW from, NEW to, CV!At(t, from, to), UNCHANGED mutex,
             from \in Hold \/ to \notin Hold
      PROVE  CVLockInv'
  <2>1. \A u \in CV!Threads : pc'[u] \in Hold => pc[u] \in Hold
    BY <1>0, <1>3, AtMoves
  <2> QED BY <1>0, <1>3, <2>1, NobodyComesIn
<1>4. ASSUME NEW p \in Producers, CV!Producer(p) PROVE CVLockInv'
  <2>1. CASE CV!SignalEmpty(p)
    <3>1. \A u \in CV!Threads : pc'[u] \in Hold => pc[u] \in Hold
      BY <1>0, <2>1, SignalMoves DEF CV!SignalEmpty, Hold
    <3> QED BY <1>0, <2>1, <3>1, NobodyComesIn DEF CV!SignalEmpty
  <2>2. CASE CV!WaitWhileFull(p) \/ CV!ProducerExit(p) \/ CV!ProducerUnlock(p)
    BY <1>2, <2>2 DEF CV!WaitWhileFull, CV!ProducerExit, CV!ProducerUnlock
  <2>3. CASE CV!FoundRoom(p) \/ CV!PutLine(p) \/ CV!AdvanceWrite(p)
    BY <1>3, <2>3 DEF CV!FoundRoom, CV!PutLine, CV!AdvanceWrite, Hold
  <2> QED BY <1>1, <1>4, <2>1, <2>2, <2>3 DEF CV!Producer
<1>5. ASSUME NEW c \in Consumers, CV!Consumer(c) PROVE CVLockInv'
  <2>1. CASE CV!SignalFull(c)
    <3>1. \A u \in CV!Threads : pc'[u] \in Hold => pc[u] \in Hold
      BY <1>0, <2>1, SignalMoves DEF CV!SignalFull, Hold
    <3> QED BY <1>0, <2>1, <3>1, NobodyComesIn DEF CV!SignalFull
  <2>2. CASE CV!WaitWhileEmpty(c) \/ CV!ConsumerUnlock(c)
    BY <1>2, <2>2 DEF CV!WaitWhileEmpty, CV!ConsumerUnlock
  <2>3. CASE CV!FoundLine(c) \/ CV!ReadLine(c) \/ CV!AdvanceRead(c)
    BY <1>3, <2>3 DEF CV!FoundLine, CV!ReadLine, CV!AdvanceRead, Hold
  <2> QED BY <1>1, <1>5, <2>1, <2>2, <2>3 DEF CV!Consumer
<1>6. ASSUME NEW t \in Producers \cup Consumers, CV!WakeSpuriously(t) PROVE CVLockInv'
  BY <1>3, <1>6 DEF CV!WakeSpuriously, Hold
<1>7. CASE CV!MainThread
  BY <1>1, <1>2, <1>3, <1>7 DEF CV!MainThread, CV!Join, CV!Finish, CV!LookAgain, CV!MainUnlock,
                                Hold
<1>8. CASE CV!Kill
  BY <1>0, <1>8, NobodyComesIn DEF CV!Kill, CV!TypeOK, Hold
<1>9. CASE UNCHANGED CV!vars
  BY <1>0, <1>9, NobodyComesIn DEF CV!vars
<1> QED BY <1>4, <1>5, <1>6, <1>7, <1>8, <1>9 DEF CV!Next, CV!Terminated

-----------------------------------------------------------------------------
\* Every step keeps what the threads that hold the mutex have found.
LEMMA RoomStep == CVInv1 /\ [CV!Next]_(CV!vars) => RoomInv'
<1> SUFFICES ASSUME CVInv1, [CV!Next]_(CV!vars) PROVE RoomInv'
  OBVIOUS
<1> USE ThreadKinds, CVInv1Apart
<1>0. CV!TypeOK /\ CVLockInv /\ RoomInv /\ WaitInv
  BY DEF CVInv1
<1> DEFINE Found == {"getline", "advance", "read"}
<1>1. ASSUME NEW t \in CV!Threads, NEW from, NEW to, CV!At(t, from, to), UNCHANGED count,
             to \notin Found
      PROVE  RoomInv'
  BY <1>0, <1>1, AtMoves DEF RoomInv
<1>2. ASSUME NEW t \in CV!Threads, NEW to, CV!At(t, "advance", to), to \notin Found
      PROVE  RoomInv'
  <2>1. \A u \in CV!Threads : u # t => pc[u] \notin Hold
    BY <1>0, <1>2, AtMoves DEF CVLockInv, Hold
  <2>2. \A u \in CV!Threads : pc'[u] \notin Found
    BY <1>0, <1>2, <2>1, AtMoves DEF Hold
  <2> QED BY <2>2 DEF RoomInv
<1>3. ASSUME UNCHANGED count, \A u \in CV!Threads : pc'[u] = pc[u] \/ pc'[u] \notin Found
      PROVE  RoomInv'
  BY <1>0, <1>3 DEF RoomInv
<1>4. ASSUME NEW t \in CV!Threads, CV!LockMutex(t) PROVE RoomInv'
  BY <1>1, <1>4 DEF CV!LockMutex, CV!ring
<1>5. ASSUME NEW p \in Producers, CV!Producer(p) PROVE RoomInv'
  <2>1. CASE CV!SignalEmpty(p)
    BY <1>0, <1>3, <2>1, SignalMoves DEF CV!SignalEmpty, CV!ring
  <2>2. CASE CV!WaitWhileFull(p) \/ CV!ProducerExit(p) \/ CV!ProducerUnlock(p)
    BY <1>1, <2>2 DEF CV!WaitWhileFull, CV!ProducerExit, CV!ProducerUnlock, CV!ring
  <2>3. CASE CV!AdvanceWrite(p)
    BY <1>2, <2>3 DEF CV!AdvanceWrite
  <2>4. CASE CV!FoundRoom(p) \/ CV!PutLine(p)
    BY <1>0, <2>4, AtMoves DEF CV!FoundRoom, CV!PutLine, RoomInv, CV!ring
  <2> QED BY <1>4, <1>5, <2>1, <2>2, <2>3, <2>4 DEF CV!Producer
<1>6. ASSUME NEW c \in Consumers, CV!Consumer(c) PROVE RoomInv'
  <2>1. CASE CV!SignalFull(c)
    BY <1>0, <1>3, <2>1, SignalMoves DEF CV!SignalFull, CV!ring
  <2>2. CASE CV!WaitWhileEmpty(c) \/ CV!ConsumerUnlock(c)
    BY <1>1, <2>2 DEF CV!WaitWhileEmpty, CV!ConsumerUnlock, CV!ring
  <2>3. CASE CV!AdvanceRead(c)
    BY <1>2, <2>3 DEF CV!AdvanceRead
  <2>4. CASE CV!FoundLine(c) \/ CV!ReadLine(c)
    BY <1>0, <2>4, AtMoves DEF CV!FoundLine, CV!ReadLine, RoomInv, CV!ring
  <2> QED BY <1>4, <1>6, <2>1, <2>2, <2>3, <2>4 DEF CV!Consumer
<1>7. ASSUME NEW t \in Producers \cup Consumers, CV!WakeSpuriously(t) PROVE RoomInv'
  BY <1>1, <1>7 DEF CV!WakeSpuriously, CV!ring
<1>8. CASE CV!MainThread
  BY <1>1, <1>4, <1>8 DEF CV!MainThread, CV!Join, CV!Finish, CV!LookAgain, CV!MainUnlock,
                          CV!ring
<1>9. CASE CV!Kill
  BY <1>0, <1>3, <1>9 DEF CV!Kill, CV!TypeOK, CV!ring
<1>10. CASE UNCHANGED CV!vars
  BY <1>3, <1>10 DEF CV!vars
<1> QED BY <1>5, <1>6, <1>7, <1>8, <1>9, <1>10 DEF CV!Next, CV!Terminated

\* Every step keeps those asleep that wait on a condition variable.
LEMMA WaitStep == CVInv1 /\ [CV!Next]_(CV!vars) => WaitInv'
<1> SUFFICES ASSUME CVInv1, [CV!Next]_(CV!vars) PROVE WaitInv'
  OBVIOUS
<1> USE ThreadKinds, CVInv1Apart
<1>0. CV!TypeOK /\ WaitInv /\ emptyWaiters \cup fullWaiters \subseteq CV!Threads
  BY DEF CVInv1, CV!TypeOK
<1>1. ASSUME NEW t \in CV!Threads, NEW from, NEW to, CV!At(t, from, to), UNCHANGED CV!waiters,
             from # "asleep"
      PROVE  WaitInv'
  BY <1>0, <1>1, AtMoves DEF WaitInv, CV!waiters
<1>2. ASSUME NEW t \in CV!Threads, CV!LockMutex(t) PROVE WaitInv'
  BY <1>1, <1>2 DEF CV!LockMutex
<1>3. ASSUME NEW p \in Producers, CV!Producer(p) PROVE WaitInv'
  <2>1. CASE CV!SignalEmpty(p)
    <3>1. \A u \in fullWaiters : pc'[u] = "asleep"
      BY <1>0, <2>1, SignalMoves DEF CV!SignalEmpty, WaitInv, CV!TypeOK
    <3>2. \A u \in emptyWaiters' : pc'[u] = "asleep"
      BY <2>1 DEF CV!SignalEmpty, CV!WokenBy
    <3> QED BY <2>1, <3>1, <3>2 DEF CV!SignalEmpty, WaitInv
  <2>2. CASE CV!WaitWhileFull(p)
    BY <1>0, <2>2, AtMoves DEF CV!WaitWhileFull, WaitInv
  <2>3. CASE \/ CV!FoundRoom(p) \/ CV!PutLine(p) \/ CV!ProducerExit(p) \/ CV!AdvanceWrite(p)
             \/ CV!ProducerUnlock(p)
    BY <1>1, <2>3 DEF CV!FoundRoom, CV!PutLine, CV!ProducerExit, CV!AdvanceWrite,
                      CV!ProducerUnlock
  <2> QED BY <1>2, <1>3, <2>1, <2>2, <2>3 DEF CV!Producer
<1>4. ASSUME NEW c \in Consumers, CV!Consumer(c) PROVE WaitInv'
  <2>1. CASE CV!SignalFull(c)
    <3>1. \A u \in emptyWaiters : pc'[u] = "asleep"
      BY <1>0, <2>1, SignalMoves DEF CV!SignalFull, WaitInv, CV!TypeOK
    <3>2. \A u \in fullWaiters' : pc'[u] = "asleep"
      BY <2>1 DEF CV!SignalFull, CV!WokenBy
    <3> QED BY <2>1, <3>1, <3>2 DEF CV!SignalFull, WaitInv
  <2>2. CASE CV!WaitWhileEmpty(c)
    BY <1>0, <2>2, AtMoves DEF CV!WaitWhileEmpty, WaitInv
  <2>3. CASE CV!FoundLine(c) \/ CV!ReadLine(c) \/ CV!AdvanceRead(c) \/ CV!ConsumerUnlock(c)
    BY <1>1, <2>3 DEF CV!FoundLine, CV!ReadLine, CV!AdvanceRead, CV!ConsumerUnlock
  <2> QED BY <1>2, <1>4, <2>1, <2>2, <2>3 DEF CV!Consumer
<1>5. ASSUME NEW t \in Producers \cup Consumers, CV!WakeSpuriously(t) PROVE WaitInv'
  BY <1>0, <1>5, AtMoves DEF CV!WakeSpuriously, WaitInv
<1>6. CASE CV!MainThread
  BY <1>1, <1>2, <1>6 DEF CV!MainThread, CV!Join, CV!Finish, CV!LookAgain, CV!MainUnlock
<1>7. CASE CV!Kill
  BY <1>0, <1>7 DEF CV!Kill, WaitInv, CV!TypeOK, CV!waiters
<1>8. CASE UNCHANGED CV!vars
  BY <1>0, <1>8 DEF CV!vars, WaitInv
<1> QED BY <1>3, <1>4, <1>5, <1>6, <1>7, <1>8 DEF CV!Next, CV!Terminated

\* Types, mutex, what was found and who sleeps, together.
LEMMA CVInv1Inductive == Apart /\ CV!Spec => []CVInv1
<1>1. Apart /\ CV!Init => CVInv1
  <2> SUFFICES ASSUME Apart, CV!Init PROVE CVInv1
    OBVIOUS
  <2>1. CV!TypeOK
    BY NAssumption, LinesAssumption, ThreadKinds DEF CV!Init, CV!TypeOK, CV!Labels, CV!NoLine
  <2>2. \A t \in CV!Threads : pc[t] \in {"join", "lock"}
    BY DEF CV!Init
  <2> QED BY <2>1, <2>2, ThreadKinds DEF CV!Init, CVInv1, CVLockInv, RoomInv, WaitInv, Hold
<1>2. CVInv1 /\ [CV!Next]_(CV!vars) => CVInv1'
  BY CVTypeStep, CVLockStep, RoomStep, WaitStep DEF CVInv1
<1> QED BY <1>1, <1>2, PTL DEF CV!Spec

-----------------------------------------------------------------------------
\* The two halves of NoLostWakeup.
RoomIsNoticed ==
  fullWaiters # {} /\ count < N /\ CV!Exited = {} =>
    \/ \E c \in Consumers : pc[c] \in {"unlock", "signalFull"}
    \/ \E p \in Producers : pc[p] \notin {"asleep", "exited"}

LineIsNoticed ==
  emptyWaiters # {} /\ count > 0 =>
    \/ \E p \in Producers : pc[p] = "signalEmpty"
    \/ \E c \in Consumers : pc[c] # "asleep"

\* A producer that moves is awake afterwards, and a consumer too, unless it has just
\* looked at count; so only the steps of the consumers bear on sleeping producers,
\* and the other way about.
LEMMA RoomNoticedStep == CVInv1 /\ RoomIsNoticed /\ [CV!Next]_(CV!vars) => RoomIsNoticed'
<1> SUFFICES ASSUME CVInv1, RoomIsNoticed, [CV!Next]_(CV!vars) PROVE RoomIsNoticed'
  OBVIOUS
<1> USE ThreadKinds, CVInv1Apart
<1>0. CV!TypeOK /\ WaitInv
  BY DEF CVInv1
<1>1. ASSUME NEW p \in Producers, pc'[p] \notin {"asleep", "exited"} PROVE RoomIsNoticed'
  BY <1>1 DEF RoomIsNoticed
<1>2. ASSUME NEW t \in CV!Threads \ Producers, NEW from, NEW to, CV!At(t, from, to),
             UNCHANGED <<count, fullWaiters>>, from \notin {"unlock", "signalFull"}
      PROVE  RoomIsNoticed'
  BY <1>0, <1>2, AtMoves DEF RoomIsNoticed, CV!Exited
<1>3. ASSUME NEW t \in CV!Threads, CV!LockMutex(t) PROVE RoomIsNoticed'
  <2>1. CASE t \in Producers
    BY <1>0, <1>1, <1>3, <2>1, AtMoves DEF CV!LockMutex
  <2>2. CASE t \notin Producers
    BY <1>2, <1>3, <2>2 DEF CV!LockMutex, CV!ring, CV!waiters
  <2> QED BY <2>1, <2>2
<1>4. ASSUME NEW p \in Producers, CV!Producer(p) PROVE RoomIsNoticed'
  <2>1. CASE CV!WaitWhileFull(p)
    <3>1. count' >= N
      BY <2>1 DEF CV!WaitWhileFull, CV!ring
    <3>2. count' \in Nat /\ N \in Nat
      BY <1>0, <2>1, NAssumption DEF CV!WaitWhileFull, CV!ring, CV!TypeOK
    <3> QED BY <3>1, <3>2 DEF RoomIsNoticed
  <2>2. CASE CV!ProducerExit(p)
    <3>1. p \in CV!Exited'
      BY <1>0, <2>2, AtMoves DEF CV!ProducerExit, CV!Exited
    <3> QED BY <3>1 DEF RoomIsNoticed
  <2>3. CASE CV!SignalEmpty(p)
    BY <1>0, <1>1, <2>3, SignalMoves DEF CV!SignalEmpty
  <2>4. CASE CV!FoundRoom(p) \/ CV!PutLine(p) \/ CV!AdvanceWrite(p) \/ CV!ProducerUnlock(p)
    BY <1>0, <1>1, <2>4, AtMoves DEF CV!FoundRoom, CV!PutLine, CV!AdvanceWrite,
                                     CV!ProducerUnlock
  <2> QED BY <1>3, <1>4, <2>1, <2>2, <2>3, <2>4 DEF CV!Producer
<1>5. ASSUME NEW c \in Consumers, CV!Consumer(c) PROVE RoomIsNoticed'
  <2>1. CASE CV!AdvanceRead(c) \/ CV!ConsumerUnlock(c)
    <3>1. pc'[c] \in {"unlock", "signalFull"}
      BY <1>0, <2>1, AtMoves DEF CV!AdvanceRead, CV!ConsumerUnlock
    <3> QED BY <3>1 DEF RoomIsNoticed
  <2>2. CASE CV!SignalFull(c) /\ fullWaiters = {}
    <3>1. fullWaiters' = {}
      BY <2>2 DEF CV!SignalFull, CV!WokenBy
    <3> QED BY <3>1 DEF RoomIsNoticed
  <2>3. CASE CV!SignalFull(c) /\ fullWaiters # {}
    <3>1. \E p \in fullWaiters : pc'[p] = "relock"
      BY <1>0, <2>3, SignalMoves DEF CV!SignalFull
    <3> QED BY <1>0, <1>1, <3>1 DEF CV!TypeOK
  <2>4. CASE CV!WaitWhileEmpty(c) \/ CV!FoundLine(c) \/ CV!ReadLine(c)
    BY <1>2, <2>4 DEF CV!WaitWhileEmpty, CV!FoundLine, CV!ReadLine, CV!ring, CV!waiters
  <2> QED BY <1>3, <1>5, <2>1, <2>2, <2>3, <2>4 DEF CV!Consumer
<1>6. ASSUME NEW t \in Producers \cup Consumers, CV!WakeSpuriously(t) PROVE RoomIsNoticed'
  <2>1. CASE t \in Producers
    BY <1>0, <1>1, <1>6, <2>1, AtMoves DEF CV!WakeSpuriously
  <2>2. CASE t \in Consumers
    <3>1. fullWaiters' = fullWaiters
      BY <1>0, <1>6, <2>2 DEF CV!WakeSpuriously, CV!TypeOK
    <3> QED BY <1>2, <1>6, <2>2, <3>1 DEF CV!WakeSpuriously, CV!ring
  <2> QED BY <1>6, <2>1, <2>2
<1>7. CASE CV!MainThread
  <2>1. CASE CV!Join \/ CV!Finish \/ CV!LookAgain
    BY <1>2, <2>1 DEF CV!Join, CV!Finish, CV!LookAgain, CV!ring, CV!waiters
  <2>2. CASE CV!MainUnlock
    BY <1>0, <2>2, AtMoves DEF CV!MainUnlock, RoomIsNoticed, CV!Exited, CV!ring, CV!waiters
  <2> QED BY <1>3, <1>7, <2>1, <2>2 DEF CV!MainThread
<1>8. CASE CV!Kill
  BY <1>0, <1>8 DEF CV!Kill, CV!TypeOK, RoomIsNoticed, CV!Exited, CV!ring, CV!waiters
<1>9. CASE UNCHANGED CV!vars
  BY <1>9 DEF CV!vars, RoomIsNoticed, CV!Exited
<1> QED BY <1>4, <1>5, <1>6, <1>7, <1>8, <1>9 DEF CV!Next, CV!Terminated

\* As above, with the producers' steps and the consumers' steps changed round.
LEMMA LineNoticedStep == CVInv1 /\ LineIsNoticed /\ [CV!Next]_(CV!vars) => LineIsNoticed'
<1> SUFFICES ASSUME CVInv1, LineIsNoticed, [CV!Next]_(CV!vars) PROVE LineIsNoticed'
  OBVIOUS
<1> USE ThreadKinds, CVInv1Apart
<1>0. CV!TypeOK /\ WaitInv
  BY DEF CVInv1
<1>1. ASSUME NEW c \in Consumers, pc'[c] # "asleep" PROVE LineIsNoticed'
  BY <1>1 DEF LineIsNoticed
<1>2. ASSUME NEW t \in CV!Threads \ Consumers, NEW from, NEW to, CV!At(t, from, to),
             UNCHANGED <<count, emptyWaiters>>, from # "signalEmpty"
      PROVE  LineIsNoticed'
  BY <1>0, <1>2, AtMoves DEF LineIsNoticed
<1>3. ASSUME NEW t \in CV!Threads, CV!LockMutex(t) PROVE LineIsNoticed'
  <2>1. CASE t \in Consumers
    BY <1>0, <1>1, <1>3, <2>1, AtMoves DEF CV!LockMutex
  <2>2. CASE t \notin Consumers
    BY <1>2, <1>3, <2>2 DEF CV!LockMutex, CV!ring, CV!waiters
  <2> QED BY <2>1, <2>2
<1>4. ASSUME NEW p \in Producers, CV!Producer(p) PROVE LineIsNoticed'
  <2>1. CASE CV!AdvanceWrite(p)
    <3>1. pc'[p] = "signalEmpty"
      BY <1>0, <2>1, AtMoves DEF CV!AdvanceWrite
    <3> QED BY <3>1 DEF LineIsNoticed
  <2>2. CASE CV!SignalEmpty(p) /\ emptyWaiters = {}
    <3>1. emptyWaiters' = {}
      BY <2>2 DEF CV!SignalEmpty, CV!WokenBy
    <3> QED BY <3>1 DEF LineIsNoticed
  <2>3. CASE CV!SignalEmpty(p) /\ emptyWaiters # {}
    <3>1. \E c \in emptyWaiters : pc'[c] = "relock"
      BY <1>0, <2>3, SignalMoves DEF CV!SignalEmpty
    <3> QED BY <1>0, <1>1, <3>1 DEF CV!TypeOK
  <2>4. CASE \/ CV!WaitWhileFull(p) \/ CV!FoundRoom(p) \/ CV!PutLine(p) \/ CV!ProducerExit(p)
             \/ CV!ProducerUnlock(p)
    BY <1>2, <2>4
    DEF CV!WaitWhileFull, CV!FoundRoom, CV!PutLine, CV!ProducerExit, CV!ProducerUnlock,
        CV!ring, CV!waiters
  <2> QED BY <1>3, <1>4, <2>1, <2>2, <2>3, <2>4 DEF CV!Producer
<1>5. ASSUME NEW c \in Consumers, CV!Consumer(c) PROVE LineIsNoticed'
  <2>1. CASE CV!WaitWhileEmpty(c)
    <3>1. ~(count' > 0)
      BY <1>0, <2>1 DEF CV!WaitWhileEmpty, CV!ring, CV!TypeOK
    <3> QED BY <3>1 DEF LineIsNoticed
  <2>2. CASE CV!SignalFull(c)
    BY <1>0, <1>1, <2>2, SignalMoves DEF CV!SignalFull
  <2>3. CASE CV!FoundLine(c) \/ CV!ReadLine(c) \/ CV!AdvanceRead(c) \/ CV!ConsumerUnlock(c)
    BY <1>0, <1>1, <2>3, AtMoves DEF CV!FoundLine, CV!ReadLine, CV!AdvanceRead,
                                     CV!ConsumerUnlock
  <2> QED BY <1>3, <1>5, <2>1, <2>2, <2>3 DEF CV!Consumer
<1>6. ASSUME NEW t \in Producers \cup Consumers, CV!WakeSpuriously(t) PROVE LineIsNoticed'
  <2>1. CASE t \in Consumers
    BY <1>0, <1>1, <1>6, <2>1, AtMoves DEF CV!WakeSpuriously
  <2>2. CASE t \in Producers
    <3>1. emptyWaiters' = emptyWaiters
      BY <1>0, <1>6, <2>2 DEF CV!WakeSpuriously, CV!TypeOK
    <3> QED BY <1>2, <1>6, <2>2, <3>1 DEF CV!WakeSpuriously, CV!ring
  <2> QED BY <1>6, <2>1, <2>2
<1>7. CASE CV!MainThread
  BY <1>2, <1>3, <1>7 DEF CV!MainThread, CV!Join, CV!Finish, CV!LookAgain, CV!MainUnlock,
                          CV!ring, CV!waiters
<1>8. CASE CV!Kill
  BY <1>0, <1>8 DEF CV!Kill, CV!TypeOK, LineIsNoticed, CV!ring, CV!waiters
<1>9. CASE UNCHANGED CV!vars
  BY <1>9 DEF CV!vars, LineIsNoticed
<1> QED BY <1>4, <1>5, <1>6, <1>7, <1>8, <1>9 DEF CV!Next, CV!Terminated

\* Producers do not sleep while there is room, nor consumers while there is a line,
\* without somebody awake who will see it.
THEOREM NoWakeupIsLost == Apart /\ CV!Spec => []CV!NoLostWakeup
<1>1. CV!Init => RoomIsNoticed /\ LineIsNoticed
  BY DEF CV!Init, RoomIsNoticed, LineIsNoticed
<1>2. CVInv1 /\ RoomIsNoticed /\ LineIsNoticed /\ [CV!Next]_(CV!vars)
        => (RoomIsNoticed /\ LineIsNoticed)'
  BY RoomNoticedStep, LineNoticedStep
<1>3. CVInv1 /\ RoomIsNoticed /\ LineIsNoticed => CV!NoLostWakeup
  BY DEF CVInv1, RoomIsNoticed, LineIsNoticed, CV!NoLostWakeup
<1> QED BY <1>1, <1>2, <1>3, CVInv1Inductive, PTL DEF CV!Spec

-----------------------------------------------------------------------------
\* What the ring holds. A producer at "advance" has put a line that count does
\* not show yet; a consumer at "advance" has read one that count still shows.
CVPutting == \E p \in Producers : pc[p] = "advance"
CVReading == \E c \in Consumers : pc[c] = "advance"
CVTaken == Len(consumed) - (IF CVReading THEN 1 ELSE 0)

\* Lines 1..Taken are gone and the next ones lie in the ring.
CVRingInv ==
  /\ CVTaken \in Nat /\ CV!Sent \in Nat /\ CV!Sent = CVTaken + count
  /\ readFrom = CVTaken % N
  /\ writeTo = CV!Sent % N
  /\ Placed(buffer, N, CVTaken, bookPos)

CVInv2 == CVInv1 /\ CVRingInv

LEMMA CVInv2Apart == CVInv2 => Apart
BY DEF CVInv1, CVInv2

\* While a thread is between lock and unlock no other one is putting or reading.
LEMMA CVHolderIsAlone ==
  ASSUME CVLockInv, NEW t \in CV!Threads, pc[t] \in Hold
  PROVE  \A u \in CV!Threads : u # t => pc[u] \notin Hold
BY DEF CVLockInv

\* The copy of the next line into the free place.
LEMMA CVPutLineStep ==
  ASSUME CVInv2, NEW p \in Producers, CV!PutLine(p)
  PROVE  CVRingInv' /\ ~CVPutting /\ CVPutting' /\ CV!Sent' = CV!Sent
<1> USE NAssumption, LinesAssumption, ThreadKinds, CVInv2Apart
<1>1. CV!TypeOK /\ CVLockInv /\ RoomInv /\ CVRingInv
  BY DEF CVInv1, CVInv2
<1>2. pc[p] = "getline" /\ pc'[p] = "advance" /\ \A u \in CV!Threads : u # p => pc'[u] = pc[u]
  BY <1>1, AtMoves DEF CV!PutLine
<1>3. \A u \in CV!Threads : pc[u] # "advance"
  BY <1>1, <1>2, CVHolderIsAlone DEF Hold
<1>4. ~CVPutting /\ ~CVReading /\ CVPutting' /\ ~CVReading'
  BY <1>2, <1>3 DEF CVPutting, CVReading
<1>5. CV!Sent = bookPos /\ CV!Sent' = CV!Sent /\ CVTaken' = CVTaken
  BY <1>1, <1>4 DEF CV!Sent, CVPutting, CVTaken, CV!PutLine, CV!TypeOK
<1>6. /\ count < N /\ CVTaken <= bookPos /\ bookPos - CVTaken < N
      /\ CVTaken \in Nat /\ bookPos \in Nat
  BY <1>1, <1>2, <1>5 DEF RoomInv, CVRingInv, CV!TypeOK
<1>7. buffer' = [buffer EXCEPT ![bookPos % N] = bookPos + 1] /\ bookPos' = bookPos + 1
  BY <1>1, <1>5 DEF CV!PutLine, CVRingInv
<1>8. Placed(buffer', N, CVTaken, bookPos')
  <2>1. buffer \in [0..(N - 1) -> 0..Lines] /\ Placed(buffer, N, CVTaken, bookPos)
    BY <1>1 DEF CV!TypeOK, CVRingInv
  <2> QED BY <1>6, <1>7, <2>1, PlacedPut
<1> QED BY <1>1, <1>4, <1>5, <1>8 DEF CVRingInv, CV!PutLine

\* count++ and the move of writeTo.
LEMMA CVAdvanceWriteStep ==
  ASSUME CVInv2, NEW p \in Producers, CV!AdvanceWrite(p)
  PROVE  /\ CVRingInv' /\ CV!Sent' = CV!Sent + 1
         /\ count < N /\ CVTaken = Len(consumed) /\ CV!Sent < Lines
<1> USE NAssumption, LinesAssumption, ThreadKinds, CVInv2Apart
<1>1. CV!TypeOK /\ CVLockInv /\ RoomInv /\ CVRingInv
  BY DEF CVInv1, CVInv2
<1>2. /\ pc[p] = "advance" /\ pc'[p] = "signalEmpty"
      /\ \A u \in CV!Threads : u # p => pc'[u] = pc[u]
  BY <1>1, AtMoves DEF CV!AdvanceWrite
<1>3. \A u \in CV!Threads : u # p => pc[u] # "advance"
  BY <1>1, <1>2, CVHolderIsAlone DEF Hold
<1>4. CVPutting /\ ~CVReading /\ ~CVPutting' /\ ~CVReading'
  BY <1>2, <1>3 DEF CVPutting, CVReading
<1>5. CV!Sent = bookPos - 1 /\ bookPos \in 0..Lines /\ CV!Sent' = bookPos'
  BY <1>1, <1>4 DEF CV!Sent, CVPutting, CV!TypeOK
<1>6. /\ CV!Sent' = CV!Sent + 1 /\ CVTaken' = CVTaken
      /\ CVTaken = Len(consumed) /\ count' = count + 1
      /\ UNCHANGED <<buffer, bookPos, readFrom, consumed>>
  BY <1>1, <1>4, <1>5 DEF CVTaken, CV!TypeOK, CV!AdvanceWrite
<1>7. writeTo' = CV!Sent' % N
  BY <1>1, <1>6, ModSucc DEF CV!AdvanceWrite, CVRingInv
<1>8. count < N /\ CV!Sent < Lines
  BY <1>1, <1>2, <1>5 DEF RoomInv
<1>9. CV!Sent' \in Nat /\ CVTaken' \in Nat /\ CV!Sent' = CVTaken' + count'
  BY <1>1, <1>6 DEF CVRingInv, CV!TypeOK
<1>10. CVRingInv'
  BY <1>1, <1>6, <1>7, <1>9 DEF CVRingInv
<1> QED BY <1>6, <1>8, <1>10

\* A consumer reads the oldest line.
LEMMA CVReadLineStep ==
  ASSUME CVInv2, NEW c \in Consumers, CV!ReadLine(c)
  PROVE  /\ CVRingInv' /\ CV!Sent' = CV!Sent
         /\ CVTaken = Len(consumed) /\ CV!Sent > Len(consumed)
         /\ consumed' = Append(consumed, Len(consumed) + 1)
<1> USE NAssumption, LinesAssumption, ThreadKinds, CVInv2Apart
<1>1. CV!TypeOK /\ CVLockInv /\ RoomInv /\ CVRingInv
  BY DEF CVInv1, CVInv2
<1>2. pc[c] = "read" /\ pc'[c] = "advance" /\ \A u \in CV!Threads : u # c => pc'[u] = pc[u]
  BY <1>1, AtMoves DEF CV!ReadLine
<1>3. \A u \in CV!Threads : pc[u] # "advance"
  BY <1>1, <1>2, CVHolderIsAlone DEF Hold
<1>4. ~CVPutting /\ ~CVReading /\ ~CVPutting' /\ CVReading'
  BY <1>2, <1>3 DEF CVPutting, CVReading
<1>5. /\ CVTaken = Len(consumed) /\ Len(consumed) \in Nat
      /\ CV!Sent = bookPos /\ CV!Sent' = CV!Sent /\ bookPos \in Nat
  BY <1>1, <1>4 DEF CVTaken, CV!Sent, CVPutting, CV!TypeOK, CV!ReadLine
<1>6. count > 0 /\ CVTaken < bookPos /\ CVTaken \in Nat
  BY <1>1, <1>2, <1>5 DEF RoomInv, CVRingInv, CV!TypeOK
<1>7. buffer[readFrom] = CVTaken + 1
  BY <1>1, <1>5, <1>6, PlacedTake DEF CVRingInv
<1>8. consumed' = Append(consumed, Len(consumed) + 1) /\ Len(consumed') = Len(consumed) + 1
  BY <1>1, <1>5, <1>7 DEF CV!ReadLine, CV!TypeOK
<1>9. CVTaken' = CVTaken
  BY <1>4, <1>5, <1>8 DEF CVTaken
<1> QED BY <1>1, <1>5, <1>6, <1>8, <1>9 DEF CVRingInv, CV!ReadLine, CV!ring

\* count-- and the move of readFrom.
LEMMA CVAdvanceReadStep ==
  ASSUME CVInv2, NEW c \in Consumers, CV!AdvanceRead(c)
  PROVE  CVRingInv' /\ CV!Sent' = CV!Sent
<1> USE NAssumption, LinesAssumption, ThreadKinds, CVInv2Apart
<1>1. CV!TypeOK /\ CVLockInv /\ RoomInv /\ CVRingInv
  BY DEF CVInv1, CVInv2
<1>2. /\ pc[c] = "advance" /\ pc'[c] = "unlock"
      /\ \A u \in CV!Threads : u # c => pc'[u] = pc[u]
  BY <1>1, AtMoves DEF CV!AdvanceRead
<1>3. \A u \in CV!Threads : u # c => pc[u] # "advance"
  BY <1>1, <1>2, CVHolderIsAlone DEF Hold
<1>4. ~CVPutting /\ CVReading /\ ~CVPutting' /\ ~CVReading'
  BY <1>2, <1>3 DEF CVPutting, CVReading
<1>5. /\ CV!Sent = bookPos /\ CV!Sent' = CV!Sent /\ count' = count - 1 /\ CVTaken' = CVTaken + 1
      /\ UNCHANGED <<buffer, bookPos, writeTo>>
  BY <1>1, <1>4 DEF CV!Sent, CVPutting, CVTaken, CV!AdvanceRead, CV!TypeOK
<1>6. count > 0 /\ count \in Nat /\ CVTaken < bookPos /\ CVTaken \in Nat /\ bookPos \in Nat
  BY <1>1, <1>2, <1>5 DEF RoomInv, CVRingInv, CV!TypeOK
<1>7. readFrom' = CVTaken' % N
  BY <1>1, <1>5, <1>6, ModSucc DEF CV!AdvanceRead, CVRingInv
<1>8. Placed(buffer', N, CVTaken', bookPos')
  BY <1>1, <1>5, <1>6, PlacedTake DEF CVRingInv
<1> QED BY <1>1, <1>5, <1>6, <1>7, <1>8 DEF CVRingInv

\* The other steps move no line.
CVQuietStep ==
  \/ \E p \in Producers :
       \/ CV!LockMutex(p) \/ CV!WaitWhileFull(p) \/ CV!FoundRoom(p) \/ CV!ProducerExit(p)
       \/ CV!SignalEmpty(p) \/ CV!ProducerUnlock(p)
  \/ \E c \in Consumers :
       \/ CV!LockMutex(c) \/ CV!WaitWhileEmpty(c) \/ CV!FoundLine(c) \/ CV!ConsumerUnlock(c)
       \/ CV!SignalFull(c)
  \/ \E t \in Producers \cup Consumers : CV!WakeSpuriously(t)
  \/ CV!MainThread \/ CV!Kill \/ UNCHANGED CV!vars

LEMMA CVStepKinds ==
  [CV!Next]_(CV!vars) =>
    \/ \E p \in Producers : CV!PutLine(p) \/ CV!AdvanceWrite(p)
    \/ \E c \in Consumers : CV!ReadLine(c) \/ CV!AdvanceRead(c)
    \/ CVQuietStep
BY DEF CV!Next, CV!Producer, CV!Consumer, CV!Terminated, CVQuietStep

\* A thread that is not at "advance" before nor after.
LEMMA AdvanceUntouched ==
  ASSUME Apart, \A u \in CV!Threads : pc'[u] = "advance" <=> pc[u] = "advance"
  PROVE  CVPutting' = CVPutting /\ CVReading' = CVReading
BY ThreadKinds DEF CVPutting, CVReading

LEMMA CVQuietStepUntouched ==
  ASSUME CVInv1, CVQuietStep
  PROVE  UNCHANGED <<CV!ring, bookPos, consumed, CVPutting, CVReading>>
<1> USE ThreadKinds, CVInv1Apart
<1>0. CV!TypeOK /\ WaitInv
  BY DEF CVInv1
<1>1. UNCHANGED <<CV!ring, bookPos, consumed>>
  BY DEF CVQuietStep, CV!LockMutex, CV!WaitWhileFull, CV!FoundRoom, CV!ProducerExit,
         CV!SignalEmpty, CV!ProducerUnlock, CV!WaitWhileEmpty, CV!FoundLine, CV!ConsumerUnlock,
         CV!SignalFull, CV!WakeSpuriously, CV!MainThread, CV!Join, CV!Finish, CV!LookAgain,
         CV!MainUnlock, CV!Kill, CV!vars, CV!ring
<1>2. ASSUME NEW t \in CV!Threads, NEW from, NEW to, CV!At(t, from, to),
             from # "advance", to # "advance"
      PROVE  CVPutting' = CVPutting /\ CVReading' = CVReading
  BY <1>0, <1>2, AtMoves, AdvanceUntouched
<1>3. ASSUME NEW t \in CV!Threads, CV!LockMutex(t)
      PROVE  CVPutting' = CVPutting /\ CVReading' = CVReading
  BY <1>2, <1>3 DEF CV!LockMutex
<1>4. ASSUME NEW p \in Producers, CV!SignalEmpty(p)
      PROVE  CVPutting' = CVPutting /\ CVReading' = CVReading
  BY <1>0, <1>4, SignalMoves, AdvanceUntouched DEF CV!SignalEmpty
<1>5. ASSUME NEW c \in Consumers, CV!SignalFull(c)
      PROVE  CVPutting' = CVPutting /\ CVReading' = CVReading
  BY <1>0, <1>5, SignalMoves, AdvanceUntouched DEF CV!SignalFull
<1>6. ASSUME NEW p \in Producers,
             CV!WaitWhileFull(p) \/ CV!FoundRoom(p) \/ CV!ProducerExit(p) \/ CV!ProducerUnlock(p)
      PROVE  CVPutting' = CVPutting /\ CVReading' = CVReading
  BY <1>2, <1>6 DEF CV!WaitWhileFull, CV!FoundRoom, CV!ProducerExit, CV!ProducerUnlock
<1>7. ASSUME NEW c \in Consumers, CV!WaitWhileEmpty(c) \/ CV!FoundLine(c) \/ CV!ConsumerUnlock(c)
      PROVE  CVPutting' = CVPutting /\ CVReading' = CVReading
  BY <1>2, <1>7 DEF CV!WaitWhileEmpty, CV!FoundLine, CV!ConsumerUnlock
<1>8. ASSUME NEW t \in Producers \cup Consumers, CV!WakeSpuriously(t)
      PROVE  CVPutting' = CVPutting /\ CVReading' = CVReading
  BY <1>2, <1>8 DEF CV!WakeSpuriously
<1>9. ASSUME CV!MainThread
      PROVE  CVPutting' = CVPutting /\ CVReading' = CVReading
  BY <1>2, <1>3, <1>9 DEF CV!MainThread, CV!Join, CV!Finish, CV!LookAgain, CV!MainUnlock
<1>10. ASSUME CV!Kill
       PROVE  CVPutting' = CVPutting /\ CVReading' = CVReading
  BY <1>0, <1>10 DEF CV!Kill, CV!TypeOK, CVPutting, CVReading
<1>11. ASSUME UNCHANGED CV!vars
       PROVE  CVPutting' = CVPutting /\ CVReading' = CVReading
  BY <1>11 DEF CV!vars, CVPutting, CVReading
<1> QED BY <1>1, <1>3, <1>4, <1>5, <1>6, <1>7, <1>8, <1>9, <1>10, <1>11 DEF CVQuietStep

\* Types, mutex and ring together.
LEMMA CVInv2Inductive == Apart /\ CV!Spec => []CVInv2
<1>1. Apart /\ CV!Init => CVRingInv
  <2> SUFFICES ASSUME Apart, CV!Init PROVE CVRingInv
    OBVIOUS
  <2>1. \A t \in CV!Threads : pc[t] # "advance"
    BY DEF CV!Init
  <2>2. ~CVPutting /\ ~CVReading /\ Len(consumed) = 0 /\ bookPos = 0
    BY <2>1, ThreadKinds DEF CV!Init, CVPutting, CVReading
  <2>3. CVTaken = 0 /\ CV!Sent = 0
    <3>1. ~(\E p \in Producers : pc[p] = "advance")
      BY <2>2 DEF CVPutting
    <3>2. CV!Sent = 0
      BY <2>2, <3>1 DEF CV!Sent
    <3>3. CVTaken = 0
      <4>1. ~CVReading /\ Len(consumed) \in Nat
        BY <2>2
      <4>2. CVTaken = Len(consumed)
        BY <4>1 DEF CVTaken
      <4> QED BY <2>2, <4>2
    <3> QED BY <3>2, <3>3
  <2>4. 0 % N = 0
    <3>1. (N * 0 + 0) % N = 0 /\ N * 0 + 0 = 0
      BY ModUnique, NAssumption
    <3> QED BY <3>1
  <2> QED BY <2>2, <2>3, <2>4 DEF CV!Init, CVRingInv, Placed
<1>2. CVInv1 /\ CVRingInv /\ [CV!Next]_(CV!vars) => CVRingInv'
  <2> SUFFICES ASSUME CVInv2, [CV!Next]_(CV!vars) PROVE CVRingInv'
    BY DEF CVInv2
  <2>1. CASE CVQuietStep
    <3>1. UNCHANGED <<CV!ring, bookPos, consumed, CVPutting, CVReading>>
      BY <2>1, CVQuietStepUntouched DEF CVInv2
    <3> QED BY <3>1 DEF CVInv2, CVRingInv, CV!ring, CVTaken, CV!Sent, CVPutting
  <2> QED BY <2>1, CVStepKinds, CVPutLineStep, CVAdvanceWriteStep, CVReadLineStep, CVAdvanceReadStep
<1> QED BY <1>1, <1>2, CVInv1Inductive, PTL DEF CV!Spec, CVInv2

-----------------------------------------------------------------------------
\* Threads leave in order: producers after the book, main after the producers.
CVEndInv ==
  /\ \A p \in Producers : pc[p] = "exited" => bookPos = Lines
  /\ pc[MainT] \notin {"join", "killed"} => \A p \in Producers : pc[p] = "exited"

LEMMA CVEndInvInductive == Apart /\ CV!Spec => []CVEndInv
<1> USE ThreadKinds, CVInv1Apart
<1>1. Apart /\ CV!Init => CVEndInv
  BY DEF CV!Init, CVEndInv
<1>2. CVInv1 /\ CVEndInv /\ [CV!Next]_(CV!vars) => CVEndInv'
  <2> SUFFICES ASSUME CVInv1, CVEndInv, [CV!Next]_(CV!vars) PROVE CVEndInv'
    OBVIOUS
  <2>0. CV!TypeOK /\ WaitInv
    BY DEF CVInv1
  <2>1. ASSUME NEW t \in Producers \cup Consumers, NEW from, NEW to, CV!At(t, from, to),
               UNCHANGED bookPos, from # "exited", to # "exited"
        PROVE  CVEndInv'
    BY <2>0, <2>1, AtMoves DEF CVEndInv
  <2>2. ASSUME UNCHANGED bookPos, pc'[MainT] = pc[MainT],
               \A p \in Producers : pc'[p] = "exited" <=> pc[p] = "exited"
        PROVE  CVEndInv'
    BY <2>2 DEF CVEndInv
  <2>3. ASSUME NEW t \in Producers \cup Consumers, CV!LockMutex(t) PROVE CVEndInv'
    BY <2>1, <2>3 DEF CV!LockMutex
  <2>4. ASSUME NEW p \in Producers, CV!Producer(p) PROVE CVEndInv'
    <3>1. CASE CV!PutLine(p)
      <4>1. \A r \in Producers : pc[r] # "exited" /\ pc'[r] # "exited"
        BY <2>0, <3>1, LinesAssumption, AtMoves DEF CV!PutLine, CVEndInv, CV!TypeOK
      <4>2. pc'[MainT] = pc[MainT]
        BY <2>0, <3>1, AtMoves DEF CV!PutLine
      <4> QED BY <4>1, <4>2, ThreadsAssumption DEF CVEndInv
    <3>2. CASE CV!ProducerExit(p)
      BY <2>0, <3>2, AtMoves DEF CV!ProducerExit, CVEndInv
    <3>3. CASE CV!SignalEmpty(p)
      BY <2>0, <2>2, <3>3, SignalMoves DEF CV!SignalEmpty, CV!TypeOK
    <3>4. CASE CV!WaitWhileFull(p) \/ CV!FoundRoom(p) \/ CV!AdvanceWrite(p) \/ CV!ProducerUnlock(p)
      BY <2>1, <3>4 DEF CV!WaitWhileFull, CV!FoundRoom, CV!AdvanceWrite, CV!ProducerUnlock
    <3> QED BY <2>3, <2>4, <3>1, <3>2, <3>3, <3>4 DEF CV!Producer
  <2>5. ASSUME NEW c \in Consumers, CV!Consumer(c) PROVE CVEndInv'
    <3>1. CASE CV!SignalFull(c)
      BY <2>0, <2>2, <3>1, SignalMoves DEF CV!SignalFull, CV!TypeOK
    <3>2. CASE \/ CV!WaitWhileEmpty(c) \/ CV!FoundLine(c) \/ CV!ReadLine(c) \/ CV!AdvanceRead(c)
               \/ CV!ConsumerUnlock(c)
      BY <2>1, <3>2
      DEF CV!WaitWhileEmpty, CV!FoundLine, CV!ReadLine, CV!AdvanceRead, CV!ConsumerUnlock
    <3> QED BY <2>3, <2>5, <3>1, <3>2 DEF CV!Consumer
  <2>6. ASSUME NEW t \in Producers \cup Consumers, CV!WakeSpuriously(t) PROVE CVEndInv'
    BY <2>1, <2>6 DEF CV!WakeSpuriously
  <2>7. CASE CV!MainThread
    BY <2>0, <2>7, AtMoves
    DEF CV!MainThread, CV!Join, CV!LockMutex, CV!Finish, CV!LookAgain, CV!MainUnlock, CVEndInv
  <2>8. CASE CV!Kill
    BY <2>0, <2>8 DEF CV!Kill, CV!TypeOK, CVEndInv
  <2>9. CASE UNCHANGED CV!vars
    BY <2>9 DEF CV!vars, CVEndInv
  <2> QED BY <2>4, <2>5, <2>6, <2>7, <2>8, <2>9 DEF CV!Next, CV!Terminated
<1> QED BY <1>1, <1>2, CVInv1Inductive, PTL DEF CV!Spec

-----------------------------------------------------------------------------
\* The lines in the ring are the ones after those that were consumed.
CVInFlightIs ==
  /\ CV!Sent - Len(consumed) \in Nat /\ Len(consumed) \in Nat
  /\ CV!InFlight = Numbers(Len(consumed), CV!Sent - Len(consumed))

LEMMA CVInFlightLines == CVInv2 => CVInFlightIs
<1> SUFFICES ASSUME CVInv2 PROVE CVInFlightIs
  OBVIOUS
<1> USE NAssumption
<1>1. CV!TypeOK /\ RoomInv /\ CVRingInv
  BY DEF CVInv1, CVInv2
<1> DEFINE r == IF CVReading THEN 1 ELSE 0
           l == count - r
<1>2. Len(consumed) \in Nat /\ bookPos \in Nat /\ CV!Sent <= bookPos /\ count \in Nat
  BY <1>1 DEF CV!TypeOK, CV!Sent
<1>3. r = 1 => count > 0
  BY <1>1 DEF CVReading, RoomInv
<1>4. r \in {0, 1} /\ CVTaken + r = Len(consumed) /\ CVTaken \in Nat
  BY <1>1, <1>2 DEF CVTaken, CVRingInv
<1>5. l \in Nat /\ l = CV!Sent - Len(consumed) /\ CVTaken + r + l <= bookPos
  BY <1>1, <1>2, <1>3, <1>4 DEF CVRingInv
<1>6. CV!InFlight = [i \in 1..l |-> buffer[((CVTaken % N) + r + i - 1) % N]]
  BY <1>1 DEF CV!InFlight, CVReading, CVRingInv
<1> HIDE DEF r, l
<1>7. CV!InFlight = Numbers(CVTaken + r, l)
  <2>1. /\ r \in Nat /\ l \in Nat /\ CVTaken \in Nat /\ CVTaken + r + l <= bookPos
        /\ bookPos \in Nat /\ Placed(buffer, N, CVTaken, bookPos)
    BY <1>1, <1>2, <1>4, <1>5 DEF CVRingInv
  <2>2. ASSUME NEW i \in 1..l
        PROVE  buffer[((CVTaken % N) + r + i - 1) % N] = (CVTaken + r) + i
    <3> DEFINE d == r + i - 1
               j == CVTaken + r + i
    <3>1. d \in Nat /\ CVTaken + d = j - 1 /\ j \in (CVTaken + 1)..bookPos
      BY <2>1
    <3>2. (CVTaken % N) + r + i - 1 = (CVTaken % N) + d
      BY <2>1, ModRange
    <3>3. ((CVTaken % N) + d) % N = (CVTaken + d) % N
      BY <2>1, <3>1, ModAdd
    <3>4. buffer[(j - 1) % N] = j
      BY <2>1, <3>1 DEF Placed
    <3> QED BY <3>1, <3>2, <3>3, <3>4
  <2> QED BY <1>6, <2>2 DEF Numbers
<1> QED BY <1>2, <1>4, <1>5, <1>7 DEF CVInFlightIs

\* And they still are after a step.
LEMMA CVInFlightLinesNext == CVInv2' => CVInFlightIs'
BY CVInFlightLines, PTL

\* A step that neither sends nor receives and leaves main's status alone.
LEMMA CVStutterStep ==
  ASSUME CVInv2, CVInv2', UNCHANGED <<CV!Sent, consumed>>
  PROVE  CV!InFlight' = CV!InFlight /\ (CV!Status' = CV!Status => UNCHANGED CV!Channel!cvars)
<1>1. /\ CV!InFlight = Numbers(Len(consumed), CV!Sent - Len(consumed))
      /\ CV!InFlight' = Numbers(Len(consumed'), CV!Sent' - Len(consumed'))
  BY CVInFlightLines, CVInFlightLinesNext DEF CVInFlightIs
<1>2. CV!InFlight' = CV!InFlight
  BY <1>1
<1> QED BY <1>2 DEF CV!Channel!cvars

\* The status is main's place alone.
LEMMA OpenWhileRunning ==
  ASSUME CV!Running, pc'[MainT] = pc[MainT]
  PROVE  CV!Status = "open" /\ CV!Status' = CV!Status
BY DEF CV!Running, CV!Status

\* count++ is Send.
LEMMA CVAdvanceWriteSends ==
  ASSUME CVInv2, CVInv2', NEW p \in Producers, CV!AdvanceWrite(p)
  PROVE  CV!Channel!Send
<1> USE NAssumption, LinesAssumption, ThreadKinds, CVInv2Apart
<1>1. /\ CV!Sent' = CV!Sent + 1 /\ CV!Sent < Lines /\ CV!Sent \in Nat /\ consumed' = consumed
      /\ count < N /\ count \in Nat /\ CVTaken = Len(consumed) /\ CV!Sent = CVTaken + count
  <2>1. CV!Sent' = CV!Sent + 1 /\ CV!Sent < Lines /\ count < N /\ CVTaken = Len(consumed)
    BY CVAdvanceWriteStep
  <2>2. CV!Sent \in Nat /\ CV!Sent = CVTaken + count /\ count \in Nat
    BY DEF CVInv1, CVInv2, CVRingInv, CV!TypeOK
  <2>3. consumed' = consumed
    BY DEF CV!AdvanceWrite
  <2> QED BY <2>1, <2>2, <2>3
<1> DEFINE k == Len(consumed)
           m == CV!Sent - Len(consumed)
<1>2. /\ k \in Nat /\ m \in Nat /\ CV!InFlight = Numbers(k, m)
      /\ CV!InFlight' = Numbers(k, CV!Sent' - k)
  BY <1>1, CVInFlightLines, CVInFlightLinesNext DEF CVInFlightIs
<1>3. CV!Sent' - k = m + 1 /\ k + (m + 1) = CV!Sent + 1 /\ m < N
  BY <1>1, <1>2
<1> HIDE DEF k, m
<1>4. Len(CV!InFlight) = m /\ CV!InFlight' = Append(CV!InFlight, CV!Sent + 1)
  BY <1>2, <1>3, NumbersAppend
<1>5. CV!Status = "open" /\ CV!Status' = CV!Status
  <2>1. CV!Running /\ pc'[MainT] = pc[MainT]
    BY AtMoves DEF CV!AdvanceWrite, CV!At, CVInv1, CVInv2
  <2> QED BY <2>1, OpenWhileRunning
<1> QED BY <1>1, <1>3, <1>4, <1>5 DEF CV!Channel!Send

\* Reading the oldest line is Receive.
LEMMA CVReadLineReceives ==
  ASSUME CVInv2, CVInv2', NEW c \in Consumers, CV!ReadLine(c)
  PROVE  CV!Channel!Receive
<1> USE NAssumption, LinesAssumption, ThreadKinds, CVInv2Apart
<1>1. /\ CV!Sent' = CV!Sent /\ CV!Sent \in Nat /\ CV!Sent > Len(consumed)
      /\ consumed' = Append(consumed, Len(consumed) + 1) /\ consumed \in Seq(0..Lines)
  BY CVReadLineStep DEF CVInv1, CVInv2, CVRingInv, CV!TypeOK
<1> DEFINE k == Len(consumed)
           m == CV!Sent - Len(consumed)
<1>2. Len(consumed') = k + 1
  BY <1>1
<1>3. /\ k \in Nat /\ m \in Nat /\ CV!InFlight = Numbers(k, m)
      /\ CV!InFlight' = Numbers(k + 1, CV!Sent' - (k + 1))
  BY <1>2, CVInFlightLines, CVInFlightLinesNext DEF CVInFlightIs
<1>4. m > 0 /\ CV!Sent' - (k + 1) = m - 1
  BY <1>1, <1>3
<1>5. consumed' = Append(consumed, k + 1)
  BY <1>1
<1> HIDE DEF k, m
<1>6. CV!InFlight # <<>> /\ Head(CV!InFlight) = k + 1 /\ Tail(CV!InFlight) = CV!InFlight'
  BY <1>3, <1>4, NumbersHeadTail
<1>7. CV!Status = "open" /\ CV!Status' = CV!Status
  <2>1. CV!Running /\ pc'[MainT] = pc[MainT]
    BY AtMoves DEF CV!ReadLine, CV!At, CVInv1, CVInv2
  <2> QED BY <2>1, OpenWhileRunning
<1> QED BY <1>1, <1>5, <1>6, <1>7 DEF CV!Channel!Receive

\* exit() from main finds the mutex its own, so no line is in motion, and all
\* producers gone, so the book is read to its end: that is the channel's Finish.
LEMMA CVFinishFinishes ==
  ASSUME CVInv2, CVInv2', CVEndInv, CV!Finish
  PROVE  CV!Channel!Finish
<1> USE NAssumption, LinesAssumption, ThreadKinds, CVInv2Apart
<1>1. CV!TypeOK /\ CVLockInv /\ CVRingInv
  BY DEF CVInv1, CVInv2
<1>2. /\ pc[MainT] = "test" /\ pc'[MainT] = "finished" /\ count = 0
      /\ \A u \in CV!Threads : u # MainT => pc'[u] = pc[u]
      /\ UNCHANGED <<CV!ring, bookPos, consumed>>
  BY <1>1, AtMoves DEF CV!Finish
<1>3. \A u \in CV!Threads : pc[u] # "advance" /\ pc'[u] # "advance"
  BY <1>1, <1>2, CVHolderIsAlone DEF Hold
<1>4. ~CVPutting /\ ~CVReading /\ ~CVPutting'
  BY <1>3 DEF CVPutting, CVReading
<1>5. bookPos = Lines
  BY <1>2, ThreadsAssumption DEF CVEndInv
<1>6. CV!Sent = Lines /\ CV!Sent' = Lines /\ CVTaken = Len(consumed) /\ Len(consumed) \in Nat
  BY <1>1, <1>2, <1>4, <1>5 DEF CV!Sent, CVPutting, CVTaken, CV!TypeOK
<1>7. CV!InFlight' = CV!InFlight
  BY <1>2, <1>6, CVStutterStep
<1>8. CV!InFlight = <<>>
  <2>1. CV!Sent - Len(consumed) = 0
    BY <1>1, <1>2, <1>6 DEF CVRingInv
  <2>2. CV!InFlight = Numbers(Len(consumed), 0)
    BY <2>1, CVInFlightLines DEF CVInFlightIs
  <2>3. Numbers(Len(consumed), 0) \in Seq(Nat) /\ Len(Numbers(Len(consumed), 0)) = 0
    BY <1>6, NumbersAppend
  <2> QED BY <2>2, <2>3
<1>9. CV!Status = "open" /\ CV!Status' = "finished"
  BY <1>2 DEF CV!Status
<1> QED BY <1>2, <1>6, <1>7, <1>8, <1>9 DEF CV!Channel!Finish

\* Every step of the program is one of the channel or invisible in it.
LEMMA CVRefineStep ==
  CVInv2 /\ CVInv2' /\ CVEndInv /\ [CV!Next]_(CV!vars) => [CV!Channel!Next]_(CV!Channel!cvars)
<1> SUFFICES ASSUME CVInv2, CVInv2', CVEndInv, [CV!Next]_(CV!vars)
             PROVE  [CV!Channel!Next]_(CV!Channel!cvars)
  OBVIOUS
<1> USE ThreadKinds, CVInv2Apart
<1>0. CVInv1 /\ CV!TypeOK /\ WaitInv
  BY DEF CVInv1, CVInv2
<1>1. ASSUME NEW p \in Producers, CV!PutLine(p) PROVE UNCHANGED CV!Channel!cvars
  <2>1. UNCHANGED <<CV!Sent, consumed>> /\ CV!Running /\ pc'[MainT] = pc[MainT]
    BY <1>0, <1>1, CVPutLineStep, AtMoves DEF CV!PutLine, CV!At
  <2> QED BY <2>1, OpenWhileRunning, CVStutterStep
<1>2. ASSUME NEW c \in Consumers, CV!AdvanceRead(c) PROVE UNCHANGED CV!Channel!cvars
  <2>1. UNCHANGED <<CV!Sent, consumed>> /\ CV!Running /\ pc'[MainT] = pc[MainT]
    BY <1>0, <1>2, CVAdvanceReadStep, AtMoves DEF CV!AdvanceRead, CV!At
  <2> QED BY <2>1, OpenWhileRunning, CVStutterStep
<1>3. ASSUME NEW p \in Producers, CV!AdvanceWrite(p) PROVE CV!Channel!Next
  BY <1>3, CVAdvanceWriteSends DEF CV!Channel!Next
<1>4. ASSUME NEW c \in Consumers, CV!ReadLine(c) PROVE CV!Channel!Next
  BY <1>4, CVReadLineReceives DEF CV!Channel!Next
<1>5. ASSUME CVQuietStep
      PROVE  UNCHANGED <<CV!Sent, consumed>> /\ CV!InFlight' = CV!InFlight
  <2>1. UNCHANGED <<bookPos, consumed, CVPutting>>
    BY <1>0, <1>5, CVQuietStepUntouched
  <2>2. CV!Sent' = CV!Sent
    BY <2>1 DEF CV!Sent, CVPutting
  <2> QED BY <2>1, <2>2, CVStutterStep
<1>6. CASE CVQuietStep
  <2>1. CASE CV!Kill
    <3>1. CV!Status = "open" /\ CV!Status' = "killed"
      BY <1>0, <2>1 DEF CV!Kill, CV!Running, CV!Status, CV!TypeOK
    <3>2. CV!Channel!Kill
      BY <1>5, <1>6, <3>1 DEF CV!Channel!Kill
    <3> QED BY <3>2 DEF CV!Channel!Next
  <2>2. CASE CV!Finish
    BY <2>2, CVFinishFinishes DEF CV!Channel!Next
  <2>3. CASE ~CV!Kill /\ ~CV!Finish
    <3>1. CV!Status' = CV!Status
      <4>1. ASSUME NEW t \in CV!Threads, NEW from, NEW to, CV!At(t, from, to), to # "finished",
                   to # "killed"
            PROVE  CV!Status' = CV!Status
        BY <1>0, <4>1, AtMoves DEF CV!At, CV!Running, CV!Status
      <4>2. ASSUME NEW t \in CV!Threads, CV!LockMutex(t) PROVE CV!Status' = CV!Status
        BY <4>1, <4>2 DEF CV!LockMutex
      <4>3. ASSUME NEW p \in Producers, CV!SignalEmpty(p) PROVE CV!Status' = CV!Status
        <5>1. CV!Running /\ pc'[MainT] = pc[MainT]
          BY <1>0, <4>3, SignalMoves DEF CV!SignalEmpty, CV!TypeOK
        <5> QED BY <5>1, OpenWhileRunning
      <4>4. ASSUME NEW c \in Consumers, CV!SignalFull(c) PROVE CV!Status' = CV!Status
        <5>1. CV!Running /\ pc'[MainT] = pc[MainT]
          BY <1>0, <4>4, SignalMoves DEF CV!SignalFull, CV!TypeOK
        <5> QED BY <5>1, OpenWhileRunning
      <4>5. ASSUME NEW p \in Producers,
                   CV!WaitWhileFull(p) \/ CV!FoundRoom(p) \/ CV!ProducerExit(p) \/ CV!ProducerUnlock(p)
            PROVE  CV!Status' = CV!Status
        BY <4>1, <4>5 DEF CV!WaitWhileFull, CV!FoundRoom, CV!ProducerExit, CV!ProducerUnlock
      <4>6. ASSUME NEW c \in Consumers,
                   CV!WaitWhileEmpty(c) \/ CV!FoundLine(c) \/ CV!ConsumerUnlock(c)
            PROVE  CV!Status' = CV!Status
        BY <4>1, <4>6 DEF CV!WaitWhileEmpty, CV!FoundLine, CV!ConsumerUnlock
      <4>7. ASSUME NEW t \in Producers \cup Consumers, CV!WakeSpuriously(t)
            PROVE  CV!Status' = CV!Status
        BY <4>1, <4>7 DEF CV!WakeSpuriously
      <4>8. ASSUME CV!Join \/ CV!LookAgain \/ CV!MainUnlock PROVE CV!Status' = CV!Status
        BY <4>1, <4>8 DEF CV!Join, CV!LookAgain, CV!MainUnlock
      <4>9. ASSUME UNCHANGED CV!vars PROVE CV!Status' = CV!Status
        BY <4>9 DEF CV!vars, CV!Status
      <4> QED BY <1>6, <2>3, <4>2, <4>3, <4>4, <4>5, <4>6, <4>7, <4>8, <4>9
          DEF CVQuietStep, CV!MainThread
    <3> QED BY <1>5, <1>6, <3>1, CVStutterStep
  <2> QED BY <2>1, <2>2, <2>3
<1> QED BY <1>1, <1>2, <1>3, <1>4, <1>6, CVStepKinds

\* The empty ring is the empty channel.
LEMMA CVRefineInit == CV!Init /\ CVInv2 => CV!Channel!Init
<1> SUFFICES ASSUME CV!Init, CVInv2 PROVE CV!Channel!Init
  OBVIOUS
<1>1. ~(\E p \in Producers : pc[p] = "advance")
  BY ThreadKinds, CVInv2Apart DEF CV!Init
<1>2. consumed = <<>> /\ Len(consumed) = 0 /\ CV!Sent = 0 /\ CV!Status = "open"
  BY <1>1, ThreadKinds, CVInv2Apart DEF CV!Init, CV!Sent, CV!Status
<1>3. CV!InFlight = Numbers(0, 0)
  BY <1>2, CVInFlightLines DEF CVInFlightIs
<1>4. Numbers(0, 0) \in Seq(Nat) /\ Len(Numbers(0, 0)) = 0
  BY NumbersAppend
<1>5. CV!InFlight = <<>>
  BY <1>3, <1>4
<1> QED BY <1>2, <1>5 DEF CV!Channel!Init

\* The program with a mutex and condition variables implements the bounded
\* channel, as the one with semaphores does, however often a wait returns for
\* nothing and however few wake-ups arrive.
THEOREM CVImplementsChannel == Apart /\ CV!Spec => CV!ImplementsChannel
BY CVInv2Inductive, CVEndInvInductive, CVRefineInit, CVRefineStep, PTL
DEF CV!ImplementsChannel, CV!Channel!Spec, CV!Spec

-----------------------------------------------------------------------------
(* The abstract channel by itself, of any capacity and not only of this      *)
(* program's ring: it delivers the book in order.                            *)
CONSTANT Capacity
VARIABLES chan, sent, received, status

Abstract == INSTANCE BoundedChannel

\* The inductive invariant: the sequences are what NothingLost says, and a
\* finished channel is empty with everything sent.
ChannelInv ==
  /\ Abstract!TypeOK
  /\ Abstract!NothingLost
  /\ status = "finished" => sent = Lines /\ chan = <<>>

\* The invariant holds at the start and is kept by every operation.
LEMMA ChannelInvInductive ==
  ASSUME Capacity \in Nat, Lines \in Nat
  PROVE  Abstract!Init /\ [][Abstract!Next]_(Abstract!cvars) => []ChannelInv
<1>1. Abstract!Init => ChannelInv
  BY DEF Abstract!Init, ChannelInv, Abstract!TypeOK, Abstract!NothingLost
<1>2. ChannelInv /\ [Abstract!Next]_(Abstract!cvars) => ChannelInv'
  <2> SUFFICES ASSUME ChannelInv, [Abstract!Next]_(Abstract!cvars) PROVE ChannelInv'
    OBVIOUS
  <2> USE DEF ChannelInv, Abstract!TypeOK, Abstract!NothingLost
  <2>1. CASE Abstract!Send
    <3>1. /\ chan' \in Seq(1..Lines)
          /\ Len(chan') = Len(chan) + 1
          /\ chan'[Len(chan) + 1] = sent + 1
          /\ \A i \in 1..Len(chan) : chan'[i] = chan[i]
      BY <2>1 DEF Abstract!Send
    <3>2. /\ sent' = sent + 1 /\ received' = received /\ status' = status
          /\ sent < Lines /\ Len(chan) < Capacity /\ status = "open"
      BY <2>1 DEF Abstract!Send
    <3>3. Abstract!TypeOK'
      BY <3>1, <3>2
    <3>4. \A i \in 1..Len(chan') : chan'[i] = Len(received') + i
      <4> TAKE i \in 1..Len(chan')
      <4>1. CASE i \in 1..Len(chan)
        BY <4>1, <3>1, <3>2
      <4>2. CASE i = Len(chan) + 1
        BY <4>2, <3>1, <3>2
      <4> QED BY <4>1, <4>2, <3>1
    <3> QED BY <3>1, <3>2, <3>3, <3>4
  <2>2. CASE Abstract!Receive
    <3>1. Head(chan) = Len(received) + 1 /\ Head(chan) \in 1..Lines /\ Len(chan) > 0
      BY <2>2 DEF Abstract!Receive
    <3>2. /\ chan' \in Seq(1..Lines)
          /\ Len(chan') = Len(chan) - 1
          /\ \A i \in 1..Len(chan') : chan'[i] = chan[i + 1]
      BY <2>2, <3>1 DEF Abstract!Receive
    <3>3. /\ received' \in Seq(1..Lines)
          /\ Len(received') = Len(received) + 1
          /\ received'[Len(received) + 1] = Len(received) + 1
          /\ \A i \in 1..Len(received) : received'[i] = received[i]
      BY <2>2, <3>1 DEF Abstract!Receive
    <3> QED BY <2>2, <3>1, <3>2, <3>3 DEF Abstract!Receive
  <2>3. CASE Abstract!Finish
    BY <2>3 DEF Abstract!Finish
  <2>4. CASE Abstract!Kill
    BY <2>4 DEF Abstract!Kill
  <2>5. CASE UNCHANGED Abstract!cvars
    BY <2>5 DEF Abstract!cvars
  <2> QED BY <2>1, <2>2, <2>3, <2>4, <2>5 DEF Abstract!Next
<1> QED BY <1>1, <1>2, PTL

\* The buffer never holds more than Capacity lines, all of them lines of the book.
THEOREM ChannelTypeCorrect ==
  ASSUME Capacity \in Nat, Lines \in Nat
  PROVE  Abstract!Spec => []Abstract!TypeOK
BY ChannelInvInductive, PTL DEF Abstract!Spec, ChannelInv

\* No line is lost, repeated or overtaken on its way through the buffer.
THEOREM ChannelLosesNothing ==
  ASSUME Capacity \in Nat, Lines \in Nat
  PROVE  Abstract!Spec => []Abstract!NothingLost
BY ChannelInvInductive, PTL DEF Abstract!Spec, ChannelInv

\* A channel that has finished has delivered the whole book in order.
THEOREM ChannelDelivers ==
  ASSUME Capacity \in Nat, Lines \in Nat
  PROVE  Abstract!Spec => []Abstract!FinishedMeansDelivered
<1>1. ChannelInv => Abstract!FinishedMeansDelivered
  BY DEF ChannelInv, Abstract!TypeOK, Abstract!NothingLost, Abstract!FinishedMeansDelivered
<1> QED BY <1>1, ChannelInvInductive, PTL DEF Abstract!Spec
=============================================================================
