----------------------------- MODULE Barbershop -----------------------------
(***************************************************************************)
(* The sleeping-barber program of Operating-systems/lab7/zad1: one barber  *)
(* process (barber.c), Clients forked by client.c, the barbershop_state    *)
(* they share and the System V semaphores they meet on.                    *)
(*                                                                         *)
(* Every semop is a step of its own, so that the processes interleave      *)
(* wherever the kernel may switch.  The shared state is read and written   *)
(* between a WAIT and the SIGNAL after it; such a block is one step, and   *)
(* MutualExclusion says why that is sound: no two processes are ever in    *)
(* such blocks at the same time.                                           *)
(***************************************************************************)
EXTENDS Integers, FifoQ, ProcessCounts

CONSTANTS
  Clients,      \* the processes client.c forks
  N,            \* seats in the waiting room (barber's argument)
  S             \* haircuts each client wants (client's second argument)

ASSUME NAssumption == N \in Nat \ {0}
ASSUME SAssumption == S \in Nat \ {0}
ASSUME ClientsAssumption == IsFiniteSet(Clients) /\ NoPid \notin Clients

VARIABLES
  free,           \* nr_of_free_seats
  barberSleeps,   \* the flag barberSleeps, not the semaphore BarberSleeps
  fifo,           \* the waiting clients
  clientThatCame, \* the client that woke the barber
  sem,            \* the five semaphores of semID
  invites,        \* barberInvites: one semaphore per slot of fifo
  bpc, toCut,     \* where the barber is; clientToCut
  pc, myID, cutsNr \* where each client is; its slot; its cuts to go

shared == <<free, barberSleeps, fifo, clientThatCame>>
locals == <<toCut, myID, cutsNr>>
vars == <<free, barberSleeps, fifo, clientThatCame, sem, invites,
          bpc, toCut, pc, myID, cutsNr>>

Semaphores == {"WRSeats", "BarberSleeps", "CustReady", "BSSeat", "CutDone"}

\* The labels say what the process does next.  sleep_*: the branch of an
\* empty waiting room, call_*: the branch that calls the next client.
BarberLabels ==
  {"waitWR", "waitBS", "look",
   "sleep_sigWR", "sleep_sigBS", "sleep_waitCR", "sleep_waitSeat", "sleep_cut",
   "call_sigWR", "call_sigBS", "call_waitCR", "call_invite", "call_waitSeat",
   "call_cut"}

\* wake_*: the client finds the barber asleep, sit_*: it sits down in the
\* waiting room, full_*: there is no free seat.
ClientLabels ==
  {"waitWR", "waitBS", "look",
   "wake_sigWR", "wake_sigBS", "wake_sigCR",
   "sit_sigWR", "sit_sigBS", "sit_sigCR", "sit_waitInvite", "sit_waitWR",
   "sit_leave", "sit_sigWR2",
   "full_sigBS", "full_sigWR", "chair", "waitCut", "done"}

-----------------------------------------------------------------------------
Init ==
  /\ free = N
  /\ barberSleeps = FALSE
  /\ fifo = InitQ(FreshSegment(N), N)
  /\ clientThatCame = NoPid
  /\ sem = [s \in Semaphores |-> IF s \in {"WRSeats", "BarberSleeps"} THEN 1 ELSE 0]
  /\ invites = [i \in 0..(N - 1) |-> 0]
  /\ bpc = "waitWR"
  /\ toCut = Slot(0, NoPid)
  /\ pc = [c \in Clients |-> "waitWR"]
  /\ myID = [c \in Clients |-> 0]
  /\ cutsNr = [c \in Clients |-> S]

\* semop with sem_op -1 and +1.
Wait(s) == sem[s] > 0 /\ sem' = [sem EXCEPT ![s] = @ - 1]
Signal(s) == sem' = [sem EXCEPT ![s] = @ + 1]

BarberAt(from, to) == bpc = from /\ bpc' = to
ClientAt(c, from, to) == pc[c] = from /\ pc' = [pc EXCEPT ![c] = to]

-----------------------------------------------------------------------------
\* The barber.
BarberWait(from, s, to) ==
  BarberAt(from, to) /\ Wait(s) /\ UNCHANGED <<shared, invites, locals, pc>>

BarberSignal(from, s, to) ==
  BarberAt(from, to) /\ Signal(s) /\ UNCHANGED <<shared, invites, locals, pc>>

BarberLock ==
  \/ BarberWait("waitWR", "WRSeats", "waitBS")
  \/ BarberWait("waitBS", "BarberSleeps", "look")

FallAsleep ==
  /\ BarberAt("look", "sleep_sigWR")
  /\ free = N
  /\ barberSleeps' = TRUE
  /\ UNCHANGED <<free, fifo, clientThatCame, sem, invites, locals, pc>>

CallNext ==
  /\ BarberAt("look", "call_sigWR")
  /\ free # N
  /\ toCut' = Dequeued(fifo)
  /\ fifo' = Dequeue(fifo)
  /\ UNCHANGED <<free, barberSleeps, clientThatCame, sem, invites, myID, cutsNr, pc>>

BarberUnlock ==
  \/ BarberSignal("sleep_sigWR", "WRSeats", "sleep_sigBS")
  \/ BarberSignal("sleep_sigBS", "BarberSleeps", "sleep_waitCR")
  \/ BarberSignal("call_sigWR", "WRSeats", "call_sigBS")
  \/ BarberSignal("call_sigBS", "BarberSleeps", "call_waitCR")

\* The barber takes the signal of one client, whichever sent it.
AwaitClient ==
  \/ BarberWait("sleep_waitCR", "CustReady", "sleep_waitSeat")
  \/ BarberWait("call_waitCR", "CustReady", "call_invite")

Invite ==
  /\ BarberAt("call_invite", "call_waitSeat")
  /\ invites' = [invites EXCEPT ![toCut.id] = @ + 1]
  /\ UNCHANGED <<shared, sem, locals, pc>>

AwaitSeated_Skip ==
  \/ BarberWait("sleep_waitSeat", "BSSeat", "sleep_cut")
  \/ BarberAt("call_waitSeat", "call_cut") /\ UNCHANGED <<shared, sem, invites, locals, pc>>

AwaitSeated ==
  \/ BarberWait("sleep_waitSeat", "BSSeat", "sleep_cut")
  \/ BarberWait("call_waitSeat", "BSSeat", "call_cut")

FinishCut ==
  \/ BarberSignal("sleep_cut", "CutDone", "waitWR")
  \/ BarberSignal("call_cut", "CutDone", "waitWR")

Barber ==
  BarberLock \/ FallAsleep \/ CallNext \/ BarberUnlock \/ AwaitClient \/ Invite
    \/ AwaitSeated \/ FinishCut

-----------------------------------------------------------------------------
\* A client.
ClientWait(c, from, s, to) ==
  ClientAt(c, from, to) /\ Wait(s) /\ UNCHANGED <<shared, invites, locals, bpc>>

ClientSignal(c, from, s, to) ==
  ClientAt(c, from, to) /\ Signal(s) /\ UNCHANGED <<shared, invites, locals, bpc>>

ClientLock(c) ==
  \/ ClientWait(c, "waitWR", "WRSeats", "waitBS")
  \/ ClientWait(c, "waitBS", "BarberSleeps", "look")

WakeBarber_KeepFlag(c) ==
  /\ ClientAt(c, "look", "wake_sigWR")
  /\ free > 0
  /\ barberSleeps
  /\ clientThatCame' = c
  /\ UNCHANGED <<free, barberSleeps, fifo, sem, invites, locals, bpc>>

WakeBarber(c) ==
  /\ ClientAt(c, "look", "wake_sigWR")
  /\ free > 0
  /\ barberSleeps
  /\ barberSleeps' = FALSE
  /\ clientThatCame' = c
  /\ UNCHANGED <<free, fifo, sem, invites, locals, bpc>>

TakeSeat(c) ==
  /\ ClientAt(c, "look", "sit_sigWR")
  /\ free > 0
  /\ ~barberSleeps
  /\ free' = free - 1
  /\ myID' = [myID EXCEPT ![c] = EnqueueSlot(fifo)]
  /\ fifo' = Enqueue(fifo, c)
  /\ UNCHANGED <<barberSleeps, clientThatCame, sem, invites, bpc, toCut, cutsNr>>

TurnAway(c) ==
  /\ ClientAt(c, "look", "full_sigBS")
  /\ free <= 0
  /\ UNCHANGED <<shared, sem, invites, locals, bpc>>

ClientUnlock(c) ==
  \/ ClientSignal(c, "wake_sigWR", "WRSeats", "wake_sigBS")
  \/ ClientSignal(c, "wake_sigBS", "BarberSleeps", "wake_sigCR")
  \/ ClientSignal(c, "sit_sigWR", "WRSeats", "sit_sigBS")
  \/ ClientSignal(c, "sit_sigBS", "BarberSleeps", "sit_sigCR")
  \/ ClientSignal(c, "full_sigBS", "BarberSleeps", "full_sigWR")
  \/ ClientSignal(c, "full_sigWR", "WRSeats", "waitWR")  \* and usleep

Announce(c) ==
  \/ ClientSignal(c, "wake_sigCR", "CustReady", "chair")
  \/ ClientSignal(c, "sit_sigCR", "CustReady", "sit_waitInvite")

\* WAIT(barberInvites, myID)
AwaitInvite(c) ==
  /\ ClientAt(c, "sit_waitInvite", "sit_waitWR")
  /\ invites[myID[c]] > 0
  /\ invites' = [invites EXCEPT ![myID[c]] = @ - 1]
  /\ UNCHANGED <<shared, sem, locals, bpc>>

\* The seat is given back under WRSeats alone.
LeaveSeat_Unlocked(c) ==
  \/ ClientAt(c, "sit_waitWR", "sit_leave") /\ UNCHANGED <<shared, sem, invites, locals, bpc>>
  \/ /\ ClientAt(c, "sit_leave", "chair")
     /\ free' = free + 1
     /\ UNCHANGED <<barberSleeps, fifo, clientThatCame, sem, invites, locals, bpc>>

LeaveSeat_Late(c) ==
  \/ ClientSignal(c, "sit_waitWR", "BSSeat", "sit_leave")
  \/ ClientWait(c, "sit_leave", "WRSeats", "sit_sigWR2")
  \/ /\ pc[c] = "sit_sigWR2"
     /\ pc' = [pc EXCEPT ![c] = "waitCut"]
     /\ free' = free + 1
     /\ Signal("WRSeats")
     /\ UNCHANGED <<barberSleeps, fifo, clientThatCame, invites, locals, bpc>>

LeaveSeat(c) ==
  \/ ClientWait(c, "sit_waitWR", "WRSeats", "sit_leave")
  \/ /\ ClientAt(c, "sit_leave", "sit_sigWR2")
     /\ free' = free + 1
     /\ UNCHANGED <<barberSleeps, fifo, clientThatCame, sem, invites, locals, bpc>>
  \/ ClientSignal(c, "sit_sigWR2", "WRSeats", "chair")

SitInChair(c) == ClientSignal(c, "chair", "BSSeat", "waitCut")

\* WAIT(CutDone), and the test of the loop.
LeaveShop_Early(c) ==
  /\ pc[c] = "waitCut"
  /\ cutsNr' = [cutsNr EXCEPT ![c] = @ - 1]
  /\ pc' = [pc EXCEPT ![c] = IF cutsNr[c] > 1 THEN "waitWR" ELSE "done"]
  /\ UNCHANGED <<shared, sem, invites, bpc, toCut, myID>>

LeaveShop_Uncounted(c) ==
  /\ pc[c] = "waitCut"
  /\ Wait("CutDone")
  /\ pc' = [pc EXCEPT ![c] = "waitWR"]
  /\ UNCHANGED <<shared, invites, bpc, toCut, myID, cutsNr>>

LeaveShop(c) ==
  /\ pc[c] = "waitCut"
  /\ Wait("CutDone")
  /\ cutsNr' = [cutsNr EXCEPT ![c] = @ - 1]
  /\ pc' = [pc EXCEPT ![c] = IF cutsNr[c] > 1 THEN "waitWR" ELSE "done"]
  /\ UNCHANGED <<shared, invites, bpc, toCut, myID>>

Client(c) ==
  ClientLock(c) \/ WakeBarber(c) \/ TakeSeat(c) \/ TurnAway(c) \/ ClientUnlock(c)
    \/ Announce(c) \/ AwaitInvite(c) \/ LeaveSeat(c) \/ SitInChair(c) \/ LeaveShop(c)

-----------------------------------------------------------------------------
\* When every client has gone the barber sleeps on CustReady for ever.
Closed ==
  /\ \A c \in Clients : pc[c] = "done"
  /\ bpc = "sleep_waitCR"
  /\ UNCHANGED vars

Next == Barber \/ (\E c \in Clients : Client(c)) \/ Closed

\* A process that can run does run; one that waits for a semaphore again and
\* again posted is served: the kernel keeps the waiters of a System V
\* semaphore in a queue.
Fairness ==
  /\ SF_vars(Barber)
  /\ \A c \in Clients : SF_vars(Client(c))

Spec == Init /\ [][Next]_vars
FairSpec == Spec /\ Fairness
-----------------------------------------------------------------------------
\* Properties.
SeatLabels ==
  {"sit_sigWR", "sit_sigBS", "sit_sigCR", "sit_waitInvite", "sit_waitWR", "sit_leave"}

Seats == CountAt(Clients, pc, SeatLabels)

AwaitingInvite ==
  {c \in Clients : pc[c] \in {"sit_sigWR", "sit_sigBS", "sit_sigCR", "sit_waitInvite"}}

TypeOK ==
  /\ free \in 0..N
  /\ barberSleeps \in BOOLEAN
  /\ fifo \in Queues(Clients, N)
  /\ clientThatCame \in Clients \cup {NoPid}
  /\ sem \in [Semaphores -> Nat]
  /\ invites \in [0..(N - 1) -> Nat]
  /\ bpc \in BarberLabels
  /\ toCut \in [id : 0..(N - 1), pid : Clients \cup {NoPid}]
  /\ pc \in [Clients -> ClientLabels]
  /\ myID \in [Clients -> 0..(N - 1)]
  /\ cutsNr \in [Clients -> 0..S]

\* The blocks that touch barbershop_state never overlap: the barber's and the
\* clients' look at the room (both semaphores) and a client's giving back of
\* its seat (WRSeats only).
MutualExclusion ==
  /\ \A c \in Clients : pc[c] \in {"look", "sit_leave"} => bpc # "look"
  /\ \A c, d \in Clients :
       pc[c] \in {"look", "sit_leave"} /\ pc[d] \in {"look", "sit_leave"} => c = d

\* nr_of_free_seats counts the seats: it is N less the clients that sit, so it
\* can neither go below 0 nor above N.
SeatAccounting == free = N - Seats

\* When the barber decides, the queue holds one entry for each taken seat:
\* free # N is exactly "somebody is in the queue", and dequeue is never called
\* on an empty one.
QueueMatchesSeats == bpc = "look" => fifo.n = N - free

\* The clients are called in the order in which they sat down, each once,
\* however enqueue and dequeue move front and end around the array.
ServedInOrder ==
  [][\/ fifo.n' = fifo.n /\ Contents(fifo') = Contents(fifo)
     \/ \E c \in Clients :
          pc'[c] = "sit_sigWR" /\ Contents(fifo') = Append(Contents(fifo), c)
     \/ /\ fifo.n > 0
        /\ toCut'.pid = Head(Contents(fifo))
        /\ Contents(fifo') = Tail(Contents(fifo))]_vars

\* A cut is neither lost nor given twice: whoever waits in the chair is matched
\* by its own BSSeat the barber has still to take, by the cut in progress, or by
\* a CutDone it may take.
CutsMatchChairs ==
  CountAt(Clients, pc, {"waitCut"}) =
    sem["BSSeat"] + sem["CutDone"]
      + (IF bpc \in {"sleep_cut", "call_cut"} THEN 1 ELSE 0)

\* The barber sleeps only in an empty shop: while the flag is up nobody sits in
\* the waiting room and no signal of a client is pending, so nobody can be
\* waiting for a barber who does not know.
SleepsInEmptyShop ==
  barberSleeps => /\ Seats = 0
                  /\ sem["CustReady"] = 0
                  /\ bpc \in {"sleep_sigWR", "sleep_sigBS", "sleep_waitCR"}

\* No invitation is lost: at most one is open, and a client that sits at its
\* slot will take it.
InvitationHasTaker ==
  \A i \in 0..(N - 1) :
    invites[i] > 0 => /\ invites[i] = 1
                      /\ \A j \in 0..(N - 1) \ {i} : invites[j] = 0
                      /\ \E c \in AwaitingInvite : myID[c] = i

\* Nobody is starved or forgotten: every client gets its S cuts and goes.
EveryoneServed == \A c \in Clients : <>(pc[c] = "done")

=============================================================================
