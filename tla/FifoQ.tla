------------------------------- MODULE FifoQ -------------------------------
(***************************************************************************)
(* The waiting-room queue of the barbershop: fifo_Q and its operations     *)
(* (Operating-systems/lab7/zad1/barbershop.h).  A queue is a value: the    *)
(* shop keeps it in shared memory and changes it only under its semaphores.*)
(* Slot i of the array is also semaphore i of barberInvites, so the slot a *)
(* client gets is what the barber later signals.                           *)
(***************************************************************************)
EXTENDS Integers, Sequences

CONSTANT NoPid      \* the pid 0 that init_Q stores in every slot

Slot(id, pid) == [id |-> id, pid |-> pid]

\* front and end are equal as long as the queue holds at most one client.
Queues(Pids, size) ==
  [front : 0..(size - 1), end : 0..(size - 1), size : {size}, n : 0..size,
   queue : [0..(size - 1) -> [id : 0..(size - 1), pid : Pids \cup {NoPid}]]]

\* Shared memory that has just been created is filled with zeros.
FreshSegment(size) ==
  [front |-> 0, end |-> 0, size |-> 0, n |-> 0,
   queue |-> [i \in 0..(size - 1) |-> Slot(0, NoPid)]]

\* What init_Q writes, one after the other; it leaves n as it finds it.
ClearSlots(q) == [q EXCEPT !.queue = [i \in DOMAIN q.queue |-> Slot(0, NoPid)]]
ClearEnds(q) == [q EXCEPT !.front = 0, !.end = 0]
SetSize(q, size) == [q EXCEPT !.size = size]
InitQ(q, size) == SetSize(ClearEnds(ClearSlots(q)), size)

\* The slot the next client is given: the front slot of an empty queue,
\* which dequeue left where the last client to be called had it.
EnqueueSlot(q) == IF q.n = 0 THEN q.front ELSE (q.end + 1) % q.size

Enqueue(q, pid) ==
  LET slot == EnqueueSlot(q)
  IN  [q EXCEPT !.n = @ + 1,
                !.end = IF q.n = 0 THEN @ ELSE slot,
                !.queue[slot] = Slot(slot, pid)]

\* What dequeue returns, the queue it leaves.
Dequeued(q) == q.queue[q.front]

Dequeue_AlwaysAdvance(q) ==
  [q EXCEPT !.n = @ - 1, !.front = (@ + 1) % q.size]

Dequeue(q) ==
  [q EXCEPT !.n = @ - 1,
            !.front = IF q.n <= 1 THEN @ ELSE (@ + 1) % q.size]

\* The pids in the queue, the next to be called first.
Contents(q) == [i \in 1..q.n |-> q.queue[(q.front + i - 1) % q.size].pid]
=============================================================================
