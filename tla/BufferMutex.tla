----------------------------- MODULE BufferMutex -----------------------------
(***************************************************************************)
(* Producers and consumers with a mutex and two condition variables:       *)
(* Operating-systems/lab9/zad1. The ring and the threads are those of      *)
(* BufferSem; what differs is how the threads wait. A thread that waits on *)
(* a condition variable has given the mutex back and must take it again    *)
(* when it is woken, and it may be woken for nothing.                      *)
(***************************************************************************)
EXTENDS Naturals, FiniteSets, Sequences

CONSTANTS
  Producers, Consumers,   \* the threads (P and K of the configuration)
  N,                      \* slots of the ring
  Lines,                  \* lines of the book
  Main, Nobody            \* the main thread; the owner of a free mutex

ASSUME NAssumption == N \in Nat \ {0}
ASSUME LinesAssumption == Lines \in Nat
ASSUME ThreadsAssumption ==
  /\ IsFiniteSet(Producers) /\ IsFiniteSet(Consumers)
  /\ Producers \cap Consumers = {} /\ Producers # {}
  /\ Main \notin Producers \cup Consumers
  /\ Nobody \notin Producers \cup Consumers \cup {Main}

VARIABLES
  buffer, writeTo, readFrom, count,   \* the ring
  bookPos,                            \* lines getline has delivered
  mutex,                              \* the owner of msgs_in_buffer_count
  emptyWaiters, fullWaiters,          \* asleep on buffIsEmpty_cv, on buffIsFull_cv
  pc,                                 \* where each thread is, main included
  consumed                            \* history: the lines the consumers read

ring == <<buffer, writeTo, readFrom, count>>
waiters == <<emptyWaiters, fullWaiters>>
vars == <<buffer, writeTo, readFrom, count, bookPos, mutex, emptyWaiters,
          fullWaiters, pc, consumed>>

Threads == Producers \cup Consumers \cup {Main}

\* "asleep": in pthread_cond_wait, not woken; "relock": woken, before the mutex
\* is its own again.
Labels ==
  {"lock", "test", "asleep", "relock", "unlock",
   "getline", "advance", "signalEmpty", "exited",
   "read", "signalFull", "join", "finished", "killed"}

NoLine == 0

Running == pc[Main] \notin {"finished", "killed"}

Init ==
  /\ buffer = [i \in 0..(N - 1) |-> NoLine]
  /\ writeTo = 0 /\ readFrom = 0 /\ count = 0
  /\ bookPos = 0
  /\ mutex = Nobody
  /\ emptyWaiters = {} /\ fullWaiters = {}
  /\ pc = [t \in Threads |-> IF t = Main THEN "join" ELSE "lock"]
  /\ consumed = <<>>

At(t, from, to) == Running /\ pc[t] = from /\ pc' = [pc EXCEPT ![t] = to]

Acquire(t) == mutex = Nobody /\ mutex' = t
Release == mutex' = Nobody

\* pthread_cond_signal wakes one waiter; without a waiter it is lost.
SignalOne(W, t, to) ==
  \/ W = {} /\ pc' = [pc EXCEPT ![t] = to]
  \/ \E w \in W : pc' = [pc EXCEPT ![t] = to, ![w] = "relock"]

WokenBy(W) == {w \in W : pc'[w] = "asleep"}

-----------------------------------------------------------------------------
\* Every thread: taking the mutex, first or after having been woken.
LockMutex_IfNotWhile(t) ==
  /\ \/ At(t, "lock", "test")
     \/ t \in Producers /\ At(t, "relock", "getline")
     \/ t \in Consumers /\ At(t, "relock", "read")
  /\ Acquire(t)
  /\ UNCHANGED <<ring, bookPos, waiters, consumed>>

LockMutex(t) ==
  /\ \/ At(t, "lock", "test")
     \/ At(t, "relock", "test")
  /\ Acquire(t)
  /\ UNCHANGED <<ring, bookPos, waiters, consumed>>

\* POSIX allows pthread_cond_wait to return although nobody signalled.
WakeSpuriously(t) ==
  /\ At(t, "asleep", "relock")
  /\ emptyWaiters' = emptyWaiters \ {t}
  /\ fullWaiters' = fullWaiters \ {t}
  /\ UNCHANGED <<ring, bookPos, mutex, consumed>>

-----------------------------------------------------------------------------
\* producer_procedure
WaitWhileFull(p) ==
  /\ At(p, "test", "asleep")
  /\ count >= N
  /\ Release
  /\ fullWaiters' = fullWaiters \cup {p}
  /\ UNCHANGED <<ring, bookPos, emptyWaiters, consumed>>

FoundRoom(p) ==
  /\ At(p, "test", "getline")
  /\ count < N
  /\ UNCHANGED <<ring, bookPos, mutex, waiters, consumed>>

PutLine(p) ==
  /\ At(p, "getline", "advance")
  /\ bookPos < Lines
  /\ bookPos' = bookPos + 1
  /\ buffer' = [buffer EXCEPT ![writeTo] = bookPos + 1]
  /\ UNCHANGED <<writeTo, readFrom, count, mutex, waiters, consumed>>

\* The producer that meets the end of the book wakes nobody.
ProducerExit(p) ==
  /\ At(p, "getline", "exited")
  /\ bookPos = Lines
  /\ Release
  /\ UNCHANGED <<ring, bookPos, waiters, consumed>>

AdvanceWrite(p) ==
  /\ At(p, "advance", "signalEmpty")
  /\ count' = count + 1
  /\ writeTo' = (writeTo + 1) % N
  /\ UNCHANGED <<buffer, readFrom, bookPos, mutex, waiters, consumed>>

SignalEmpty(p) ==
  /\ Running /\ pc[p] = "signalEmpty"
  /\ SignalOne(emptyWaiters, p, "unlock")
  /\ emptyWaiters' = WokenBy(emptyWaiters)
  /\ UNCHANGED <<ring, bookPos, mutex, fullWaiters, consumed>>

ProducerUnlock(p) ==
  /\ At(p, "unlock", "lock")
  /\ Release
  /\ UNCHANGED <<ring, bookPos, waiters, consumed>>

Producer(p) ==
  LockMutex(p) \/ WaitWhileFull(p) \/ FoundRoom(p) \/ PutLine(p) \/ ProducerExit(p)
    \/ AdvanceWrite(p) \/ SignalEmpty(p) \/ ProducerUnlock(p)

-----------------------------------------------------------------------------
\* consumer_procedure
WaitWhileEmpty(c) ==
  /\ At(c, "test", "asleep")
  /\ count <= 0
  /\ Release
  /\ emptyWaiters' = emptyWaiters \cup {c}
  /\ UNCHANGED <<ring, bookPos, fullWaiters, consumed>>

FoundLine(c) ==
  /\ At(c, "test", "read")
  /\ count > 0
  /\ UNCHANGED <<ring, bookPos, mutex, waiters, consumed>>

\* The consumer looks at the line and prints it if its length is wanted.
ReadLine(c) ==
  /\ At(c, "read", "advance")
  /\ consumed' = Append(consumed, buffer[readFrom])
  /\ UNCHANGED <<ring, bookPos, mutex, waiters>>

AdvanceRead(c) ==
  /\ At(c, "advance", "unlock")
  /\ readFrom' = (readFrom + 1) % N
  /\ count' = count - 1
  /\ UNCHANGED <<buffer, writeTo, bookPos, mutex, waiters, consumed>>

ConsumerUnlock(c) ==
  /\ At(c, "unlock", "signalFull")
  /\ Release
  /\ UNCHANGED <<ring, bookPos, waiters, consumed>>

\* After the mutex is free again: another producer may have filled the place.
SignalFull_Lost(c) ==
  /\ At(c, "signalFull", "lock")
  /\ UNCHANGED <<ring, bookPos, mutex, waiters, consumed>>

SignalFull(c) ==
  /\ Running /\ pc[c] = "signalFull"
  /\ SignalOne(fullWaiters, c, "lock")
  /\ fullWaiters' = WokenBy(fullWaiters)
  /\ UNCHANGED <<ring, bookPos, mutex, emptyWaiters, consumed>>

Consumer(c) ==
  LockMutex(c) \/ WaitWhileEmpty(c) \/ FoundLine(c) \/ ReadLine(c) \/ AdvanceRead(c)
    \/ ConsumerUnlock(c) \/ SignalFull(c)

-----------------------------------------------------------------------------
\* main
Join ==
  /\ At(Main, "join", "lock")
  /\ \A p \in Producers : pc[p] = "exited"
  /\ UNCHANGED <<ring, bookPos, mutex, waiters, consumed>>

\* exit() with the mutex held: the consumers end where they are.
Finish ==
  /\ At(Main, "test", "finished")
  /\ count = 0
  /\ UNCHANGED <<ring, bookPos, mutex, waiters, consumed>>

LookAgain ==
  /\ At(Main, "test", "unlock")
  /\ count # 0
  /\ UNCHANGED <<ring, bookPos, mutex, waiters, consumed>>

MainUnlock ==
  /\ At(Main, "unlock", "lock")
  /\ Release
  /\ UNCHANGED <<ring, bookPos, waiters, consumed>>

MainThread == Join \/ LockMutex(Main) \/ Finish \/ LookAgain \/ MainUnlock

\* SIGINT (sigexit_handler) or the alarm of NK seconds ends the process.
Kill ==
  /\ Running
  /\ pc' = [pc EXCEPT ![Main] = "killed"]
  /\ UNCHANGED <<ring, bookPos, mutex, waiters, consumed>>

Terminated == ~Running /\ UNCHANGED vars

Next ==
  \/ \E p \in Producers : Producer(p)
  \/ \E c \in Consumers : Consumer(c)
  \/ \E t \in Producers \cup Consumers : WakeSpuriously(t)
  \/ MainThread \/ Kill \/ Terminated

\* Threads are scheduled, and a thread that wants the mutex is not passed over
\* for ever. A spurious wake-up need never happen.
Fairness ==
  /\ \A p \in Producers : SF_vars(Producer(p))
  /\ \A c \in Consumers : SF_vars(Consumer(c))
  /\ SF_vars(MainThread)

Spec == Init /\ [][Next]_vars
FairSpec == Spec /\ Fairness
-----------------------------------------------------------------------------
\* Properties.
Exited == {p \in Producers : pc[p] = "exited"}

TypeOK ==
  /\ buffer \in [0..(N - 1) -> 0..Lines]
  /\ writeTo \in 0..(N - 1) /\ readFrom \in 0..(N - 1) /\ count \in 0..N
  /\ bookPos \in 0..Lines
  /\ mutex \in Threads \cup {Nobody}
  /\ emptyWaiters \subseteq Consumers /\ fullWaiters \subseteq Producers
  /\ pc \in [Threads -> Labels]
  /\ consumed \in Seq(0..Lines)

\* Beside the types, no wake-up is lost: if producers sleep although there is room, somebody that
\* will see the room is on its way: a woken producer, or a consumer that has yet
\* to signal. The signal comes after the unlock, so others run in between.
NoLostWakeup ==
  /\ TypeOK
  /\ fullWaiters # {} /\ count < N /\ Exited = {} =>
       \/ \E c \in Consumers : pc[c] \in {"unlock", "signalFull"}
       \/ \E p \in Producers : pc[p] \notin {"asleep", "exited"}
  /\ emptyWaiters # {} /\ count > 0 =>
       \/ \E p \in Producers : pc[p] = "signalEmpty"
       \/ \E c \in Consumers : pc[c] # "asleep"

InFlight ==
  LET r == IF \E c \in Consumers : pc[c] = "advance" THEN 1 ELSE 0
  IN  [i \in 1..(count - r) |-> buffer[(readFrom + r + i - 1) % N]]

Sent == IF \E p \in Producers : pc[p] = "advance" THEN bookPos - 1 ELSE bookPos

Status == IF pc[Main] \in {"finished", "killed"} THEN pc[Main] ELSE "open"

Channel == INSTANCE BoundedChannel
  WITH Capacity <- N, chan <- InFlight, sent <- Sent, received <- consumed,
       status <- Status

\* The program is a bounded channel: each critical section that moves a line is
\* one Send or one Receive, and it finishes only with everything received.
ImplementsChannel == Channel!Spec

\* And it moves lines, and ends, as the fair channel does: with no more producers
\* than slots the whole book comes out and main finds the ring empty, or the
\* process is killed, whatever the interleaving.
ImplementsFairChannel == Channel!FairSpec

=============================================================================
