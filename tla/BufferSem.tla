------------------------------ MODULE BufferSem ------------------------------
(***************************************************************************)
(* Producers and consumers with semaphores: Operating-systems/lab9/zad2.   *)
(* Producer threads read the lines of the book and put them into a ring of *)
(* N slots, consumer threads take them out, main joins the producers and   *)
(* ends the process when it finds the ring empty.  Each semaphore call and *)
(* each half of a critical section is a step.                              *)
(***************************************************************************)
EXTENDS Naturals, Sequences, ProcessCounts

CONSTANTS
  Producers, Consumers,   \* the threads (P and K of the configuration)
  N,                      \* slots of the ring
  Lines                   \* lines of the book

ASSUME NAssumption == N \in Nat \ {0}
ASSUME LinesAssumption == Lines \in Nat
ASSUME ThreadsAssumption ==
  /\ IsFiniteSet(Producers) /\ IsFiniteSet(Consumers)
  /\ Producers \cap Consumers = {} /\ Producers # {}

VARIABLES
  buffer, writeTo, readFrom, count,   \* the ring
  bookPos,                            \* lines getline has delivered
  counting, notEmpty, notFull,        \* counting_sem, buffNotEmpty_sem, buffIsNotFull_sem
  ppc, cpc, mpc,                      \* where producers, consumers and main are
  consumed                            \* history: the lines the consumers read

ring == <<buffer, writeTo, readFrom, count>>
sems == <<counting, notEmpty, notFull>>
vars == <<buffer, writeTo, readFrom, count, bookPos, counting, notEmpty, notFull,
          ppc, cpc, mpc, consumed>>

ProducerLabels ==
  {"waitNotFull", "waitCounting", "getline", "advance", "postNotEmpty",
   "postCounting", "exited"}
ConsumerLabels ==
  {"waitNotEmpty", "waitCounting", "read", "advance", "postNotFull", "postCounting"}
MainLabels ==
  {"join", "waitCounting", "check", "postCounting", "finished", "killed"}

NoLine == 0                 \* calloc leaves null pointers in the ring

Running == mpc \notin {"finished", "killed"}

Init ==
  /\ buffer = [i \in 0..(N - 1) |-> NoLine]
  /\ writeTo = 0 /\ readFrom = 0 /\ count = 0
  /\ bookPos = 0
  /\ counting = 1 /\ notEmpty = 0 /\ notFull = N
  /\ ppc = [p \in Producers |-> "waitNotFull"]
  /\ cpc = [c \in Consumers |-> "waitNotEmpty"]
  /\ mpc = "join"
  /\ consumed = <<>>

ProducerAt(p, from, to) ==
  Running /\ ppc[p] = from /\ ppc' = [ppc EXCEPT ![p] = to] /\ UNCHANGED <<cpc, mpc>>
ConsumerAt(c, from, to) ==
  Running /\ cpc[c] = from /\ cpc' = [cpc EXCEPT ![c] = to] /\ UNCHANGED <<ppc, mpc>>
MainAt(from, to) == mpc = from /\ mpc' = to /\ UNCHANGED <<ppc, cpc>>

Lock == counting > 0 /\ counting' = counting - 1
Unlock == counting' = counting + 1

-----------------------------------------------------------------------------
\* producer_procedure
WaitNotFull_Ignored(p) ==
  /\ ProducerAt(p, "waitNotFull", "waitCounting")
  /\ notFull' = IF notFull > 0 THEN notFull - 1 ELSE 0
  /\ UNCHANGED <<ring, bookPos, counting, notEmpty, consumed>>

WaitNotFull(p) ==
  /\ ProducerAt(p, "waitNotFull", "waitCounting")
  /\ notFull > 0
  /\ notFull' = notFull - 1
  /\ UNCHANGED <<ring, bookPos, counting, notEmpty, consumed>>

ProducerLock(p) ==
  /\ ProducerAt(p, "waitCounting", "getline")
  /\ Lock
  /\ UNCHANGED <<ring, bookPos, notEmpty, notFull, consumed>>

\* getline delivers the next line and the producer copies it into its slot.
PutLine(p) ==
  /\ ProducerAt(p, "getline", "advance")
  /\ bookPos < Lines
  /\ bookPos' = bookPos + 1
  /\ buffer' = [buffer EXCEPT ![writeTo] = bookPos + 1]
  /\ UNCHANGED <<writeTo, readFrom, count, sems, consumed>>

\* At the end of the book the producer gives counting_sem back and exits; the
\* place it took from buffIsNotFull_sem is not given back.
ProducerExit_KeepsLock(p) ==
  /\ ProducerAt(p, "getline", "exited")
  /\ bookPos = Lines
  /\ UNCHANGED <<ring, bookPos, sems, consumed>>

ProducerExit(p) ==
  /\ ProducerAt(p, "getline", "exited")
  /\ bookPos = Lines
  /\ Unlock
  /\ UNCHANGED <<ring, bookPos, notEmpty, notFull, consumed>>

AdvanceWrite(p) ==
  /\ ProducerAt(p, "advance", "postNotEmpty")
  /\ count' = count + 1
  /\ writeTo' = (writeTo + 1) % N
  /\ UNCHANGED <<buffer, readFrom, bookPos, sems, consumed>>

PostNotEmpty_Twice(p) ==
  /\ ProducerAt(p, "postNotEmpty", "postCounting")
  /\ notEmpty' = notEmpty + 2
  /\ UNCHANGED <<ring, bookPos, counting, notFull, consumed>>

PostNotEmpty(p) ==
  /\ ProducerAt(p, "postNotEmpty", "postCounting")
  /\ notEmpty' = notEmpty + 1
  /\ UNCHANGED <<ring, bookPos, counting, notFull, consumed>>

ProducerUnlock(p) ==
  /\ ProducerAt(p, "postCounting", "waitNotFull")
  /\ Unlock
  /\ UNCHANGED <<ring, bookPos, notEmpty, notFull, consumed>>

Producer(p) ==
  WaitNotFull(p) \/ ProducerLock(p) \/ PutLine(p) \/ ProducerExit(p)
    \/ AdvanceWrite(p) \/ PostNotEmpty(p) \/ ProducerUnlock(p)

-----------------------------------------------------------------------------
\* consumer_procedure
WaitNotEmpty(c) ==
  /\ ConsumerAt(c, "waitNotEmpty", "waitCounting")
  /\ notEmpty > 0
  /\ notEmpty' = notEmpty - 1
  /\ UNCHANGED <<ring, bookPos, counting, notFull, consumed>>

ConsumerLock(c) ==
  /\ ConsumerAt(c, "waitCounting", "read")
  /\ Lock
  /\ UNCHANGED <<ring, bookPos, notEmpty, notFull, consumed>>

\* The consumer looks at the line and prints it if its length is wanted.
ReadLine(c) ==
  /\ ConsumerAt(c, "read", "advance")
  /\ consumed' = Append(consumed, buffer[readFrom])
  /\ UNCHANGED <<ring, bookPos, sems>>

AdvanceRead_NoWrap(c) ==
  /\ ConsumerAt(c, "advance", "postNotFull")
  /\ readFrom' = IF readFrom + 1 < N THEN readFrom + 1 ELSE readFrom
  /\ count' = count - 1
  /\ UNCHANGED <<buffer, writeTo, bookPos, sems, consumed>>

AdvanceRead(c) ==
  /\ ConsumerAt(c, "advance", "postNotFull")
  /\ readFrom' = (readFrom + 1) % N
  /\ count' = count - 1
  /\ UNCHANGED <<buffer, writeTo, bookPos, sems, consumed>>

PostNotFull(c) ==
  /\ ConsumerAt(c, "postNotFull", "postCounting")
  /\ notFull' = notFull + 1
  /\ UNCHANGED <<ring, bookPos, counting, notEmpty, consumed>>

ConsumerUnlock(c) ==
  /\ ConsumerAt(c, "postCounting", "waitNotEmpty")
  /\ Unlock
  /\ UNCHANGED <<ring, bookPos, notEmpty, notFull, consumed>>

Consumer(c) ==
  WaitNotEmpty(c) \/ ConsumerLock(c) \/ ReadLine(c) \/ AdvanceRead(c)
    \/ PostNotFull(c) \/ ConsumerUnlock(c)

-----------------------------------------------------------------------------
\* main
Join ==
  /\ MainAt("join", "waitCounting")
  /\ \A p \in Producers : ppc[p] = "exited"
  /\ UNCHANGED <<ring, bookPos, sems, consumed>>

MainLock ==
  /\ MainAt("waitCounting", "check")
  /\ Lock
  /\ UNCHANGED <<ring, bookPos, notEmpty, notFull, consumed>>

Finish_LastLine ==
  /\ MainAt("check", "finished")
  /\ count <= 1
  /\ UNCHANGED <<ring, bookPos, sems, consumed>>

\* exit() while counting_sem is held: the other threads end where they are.
Finish ==
  /\ MainAt("check", "finished")
  /\ count = 0
  /\ UNCHANGED <<ring, bookPos, sems, consumed>>

LookAgain ==
  /\ MainAt("check", "postCounting")
  /\ count # 0
  /\ UNCHANGED <<ring, bookPos, sems, consumed>>

MainUnlock ==
  /\ MainAt("postCounting", "waitCounting")
  /\ Unlock
  /\ UNCHANGED <<ring, bookPos, notEmpty, notFull, consumed>>

Main == Join \/ MainLock \/ Finish \/ LookAgain \/ MainUnlock

\* SIGINT (sigexit_handler) or the alarm of NK seconds ends the process.
Kill ==
  /\ Running
  /\ mpc' = "killed"
  /\ UNCHANGED <<ring, bookPos, sems, ppc, cpc, consumed>>

Terminated == ~Running /\ UNCHANGED vars

Next ==
  \/ \E p \in Producers : Producer(p)
  \/ \E c \in Consumers : Consumer(c)
  \/ Main \/ Kill \/ Terminated

\* Threads are scheduled, and a thread that waits for a semaphore is not
\* passed over for ever.
Fairness ==
  /\ \A p \in Producers : SF_vars(Producer(p))
  /\ \A c \in Consumers : SF_vars(Consumer(c))
  /\ SF_vars(Main)

Spec == Init /\ [][Next]_vars
FairSpec == Spec /\ Fairness
-----------------------------------------------------------------------------
\* Properties.
Reading == {c \in Consumers : cpc[c] = "advance"}
Exited == {p \in Producers : ppc[p] = "exited"}

TypeOK ==
  /\ buffer \in [0..(N - 1) -> 0..Lines]
  /\ writeTo \in 0..(N - 1) /\ readFrom \in 0..(N - 1) /\ count \in 0..N
  /\ bookPos \in 0..Lines
  /\ counting \in {0, 1} /\ notEmpty \in 0..N /\ notFull \in 0..N
  /\ ppc \in [Producers -> ProducerLabels]
  /\ cpc \in [Consumers -> ConsumerLabels]
  /\ mpc \in MainLabels
  /\ consumed \in Seq(0..Lines)

\* The threads between sem_wait(&counting_sem) and the sem_post that follows.
Holders ==
  {p \in Producers : ppc[p] \in {"getline", "advance", "postNotEmpty", "postCounting"}}
    \cup {c \in Consumers : cpc[c] \in {"read", "advance", "postNotFull", "postCounting"}}

\* The ring, the book and count are touched by one thread at a time, main's
\* check of count included.
MutualExclusion ==
  /\ \A t, u \in Holders : t = u
  /\ mpc = "check" => Holders = {}

\* Every place of the ring is accounted for: free in buffIsNotFull_sem, owned by
\* a producer (for ever by one that met the end of the book), full, or being
\* given back by a consumer. So count never exceeds N and no unread line is
\* overwritten.
PlacesAccounted ==
  N = notFull + count + CountAt(Consumers, cpc, {"postNotFull"})
        + CountAt(Producers, ppc, {"waitCounting", "getline", "advance", "exited"})

\* Every line in the ring has one token: in buffNotEmpty_sem, taken by a
\* consumer that has not removed its line, or about to be posted. So a consumer
\* never reads an empty ring.
LinesAccounted ==
  count = notEmpty + CountAt(Producers, ppc, {"postNotEmpty"})
            + CountAt(Consumers, cpc, {"waitCounting", "read", "advance"})

\* What the two semaphores count and what lies in the ring agree, at every step
\* of the calls (producer and consumer of main.c).
TokensAccounted == PlacesAccounted /\ LinesAccounted

\* The lines come out in the order of the book, none lost, none twice, none of
\* an empty slot, whichever threads move them.
ConsumedInOrder == \A i \in 1..Len(consumed) : consumed[i] = i

\* Only what the ring holds: a line is in the ring until a consumer has read it.
InFlight ==
  LET r == IF Reading = {} THEN 0 ELSE 1
  IN  [i \in 1..(count - r) |-> buffer[(readFrom + r + i - 1) % N]]

Sent == IF \E p \in Producers : ppc[p] = "advance" THEN bookPos - 1 ELSE bookPos

Status == IF mpc \in {"finished", "killed"} THEN mpc ELSE "open"

Channel == INSTANCE BoundedChannel
  WITH Capacity <- N, chan <- InFlight, sent <- Sent, received <- consumed,
       status <- Status

\* The program is a bounded channel: each critical section that moves a line is
\* one Send or one Receive, and it finishes only with everything received.
ImplementsChannel == Channel!Spec

\* And it moves lines, and ends, as the fair channel does: with no more producers
\* than slots the whole book comes out and main finds the ring empty, or the
\* process is killed, whatever the interleaving.
ImplementsFairChannel == Channel!FairSpec

\* The places producers keep when they exit bound how many can exit: with more
\* than N producers the others wait for ever and main never returns from its
\* joins.
ExitsBoundedBySlots == Cardinality(Exited) <= N

=============================================================================
