--------------------------- MODULE BarbershopPosix ---------------------------
(***************************************************************************)
(* The sleeping barber of Operating-systems/lab7/zad2.  Barber and clients *)
(* follow the protocol of zad1 (module Barbershop), over objects that have *)
(* names: a POSIX segment and five POSIX semaphores, which init_shared     *)
(* creates one after the other and which outlive a barber that is killed.  *)
(* This module is about how the shop opens and closes: a client that comes *)
(* while it opens, a barber that is killed and started again, a process    *)
(* that is ended in the middle of the shop.                                *)
(***************************************************************************)
EXTENDS Barbershop

CONSTANT MaxFaults    \* bound: how often a process is ended by a signal

ASSUME MaxFaultsAssumption == MaxFaults \in Nat

VARIABLES
  seg,         \* the segment /barbershop exists
  made,        \* the named semaphores that exist
  opened,      \* how many sem_open the barber has made
  tried,       \* how many sem_open each client has made
  handles,     \* those that succeeded
  faults,      \* counted for the bound
  sound        \* history: nobody was cut short inside the shop, or was inside
               \* while a barber that starts wrote to it

names == <<seg, made, opened, tried, handles, faults>>
varsPosix == <<vars, names, sound>>

\* The order of the calls in both versions of init_shared.
Order == <<"BarberSleeps", "CustReady", "WRSeats", "BSSeat", "CutDone">>

\* Where the barber has opened the segment and writes to it.
WritingLabels == {"init_seats", "init_flag", "init_slots", "init_ends", "init_size"}

Outside == {"start", "opening", "failed", "waitWR", "done", "ended"}
ShopIsEmpty == \A c \in Clients : pc[c] \in Outside

InitPosix ==
  /\ free = 0 /\ barberSleeps = FALSE
  /\ fifo = FreshSegment(N)
  /\ clientThatCame = NoPid
  /\ sem = [s \in Semaphores |-> 0]
  /\ invites = [i \in 0..(N - 1) |-> 0]
  /\ bpc = "off"
  /\ toCut = Slot(0, NoPid)
  /\ pc = [c \in Clients |-> "start"]
  /\ myID = [c \in Clients |-> 0]
  /\ cutsNr = [c \in Clients |-> S]
  /\ seg = FALSE /\ made = {} /\ opened = 0
  /\ tried = [c \in Clients |-> 0]
  /\ handles = [c \in Clients |-> {}]
  /\ faults = 0
  /\ sound = TRUE

-----------------------------------------------------------------------------
(* The barber: init_shared, the loop of zad1, and its ends. *)
\* shm_open without O_EXCL: a segment that is left from before is used again.
OpenSegment ==
  /\ bpc = "off" /\ bpc' = "init_seats"
  /\ seg' = TRUE
  /\ UNCHANGED <<shared, sem, invites, locals, pc, made, opened, tried, handles, faults, sound>>

\* A write to the segment.  No semaphore is taken for it: a client may come in, by
\* the semaphores that are left, between any two of them.
Writes(from, to) ==
  /\ BarberAt(from, to)
  /\ sound' = (sound /\ ShopIsEmpty)
  /\ UNCHANGED <<clientThatCame, sem, invites, locals, pc, names>>

WriteSeats ==
  Writes("init_seats", "init_flag") /\ free' = N /\ UNCHANGED <<barberSleeps, fifo>>

WriteFlag_Keeps ==
  Writes("init_flag", "init_slots") /\ UNCHANGED <<free, barberSleeps, fifo>>

WriteFlag ==
  Writes("init_flag", "init_slots") /\ barberSleeps' = FALSE /\ UNCHANGED <<free, fifo>>

\* init_Q.
WriteQueue ==
  /\ \/ Writes("init_slots", "init_ends") /\ fifo' = ClearSlots(fifo)
     \/ Writes("init_ends", "init_size") /\ fifo' = ClearEnds(fifo)
     \/ Writes("init_size", "opening") /\ fifo' = SetSize(fifo, N)
  /\ UNCHANGED <<free, barberSleeps>>

CreateSemaphore_Resets ==
  /\ bpc = "opening" /\ opened < Len(Order)
  /\ LET s == Order[opened + 1]
     IN /\ made' = made \cup {s}
        /\ sem' = [sem EXCEPT ![s] = IF s \in {"WRSeats", "BarberSleeps"} THEN 1 ELSE 0]
  /\ opened' = opened + 1
  /\ UNCHANGED <<shared, invites, bpc, locals, pc, seg, tried, handles, faults, sound>>

CreateSemaphore_AllZero ==
  /\ bpc = "opening" /\ opened < Len(Order)
  /\ LET s == Order[opened + 1]
     IN made' = made \cup {s}
  /\ opened' = opened + 1
  /\ UNCHANGED <<shared, sem, invites, bpc, locals, pc, seg, tried, handles, faults, sound>>

\* sem_open with O_CREAT: a semaphore that is left keeps its value.
CreateSemaphore ==
  /\ bpc = "opening" /\ opened < Len(Order)
  /\ LET s == Order[opened + 1]
         initial == IF s \in {"WRSeats", "BarberSleeps"} THEN 1 ELSE 0
     IN /\ made' = made \cup {s}
        /\ sem' = IF s \in made THEN sem ELSE [sem EXCEPT ![s] = initial]
  /\ opened' = opened + 1
  /\ UNCHANGED <<shared, invites, bpc, locals, pc, seg, tried, handles, faults, sound>>

\* sem_init of barberInvites, which also forgets that somebody waits there: a
\* client that does may sleep through every later sem_post.
InitInvites ==
  /\ bpc = "opening" /\ opened = Len(Order) /\ bpc' = "waitWR"
  /\ invites' = [i \in 0..(N - 1) |-> 0]
  /\ \E forgotten \in SUBSET {c \in Clients : pc[c] = "sit_waitInvite"} :
       /\ pc' = [c \in Clients |-> IF c \in forgotten THEN "forgotten" ELSE pc[c]]
       /\ sound' = (sound /\ forgotten = {})
  /\ UNCHANGED <<shared, sem, locals, names>>

BarberPosix ==
  \/ OpenSegment \/ WriteSeats \/ WriteFlag \/ WriteQueue \/ CreateSemaphore \/ InitInvites
  \/ Barber /\ UNCHANGED <<names, sound>>

\* Killed, the barber leaves everything as it is.  It is in nobody's way where it
\* holds no semaphore and has no client.
KillBarber ==
  /\ bpc \notin {"off", "closed"} /\ bpc' = "off"
  /\ faults < MaxFaults /\ faults' = faults + 1
  /\ toCut' = Slot(0, NoPid) /\ opened' = 0
  /\ sound' = (sound /\ ShopIsEmpty
               /\ bpc \in WritingLabels \cup {"opening", "waitWR", "sleep_waitCR"})
  /\ UNCHANGED <<shared, sem, invites, pc, myID, cutsNr, seg, made, tried, handles>>

\* SIGTERM or SIGINT: funAtExit removes the names.  Whoever has opened the objects
\* keeps them, and the next barber makes new ones: that is InitPosix again.
TerminateBarber ==
  /\ bpc \in BarberLabels /\ bpc' = "closed"
  /\ faults < MaxFaults /\ faults' = faults + 1
  /\ seg' = FALSE /\ made' = {}
  /\ UNCHANGED <<shared, sem, invites, locals, pc, opened, tried, handles, sound>>

-----------------------------------------------------------------------------
(* A client: its init_shared, clientProc, and how it may end. *)
FindSegment(c) ==
  /\ ClientAt(c, "start", IF seg THEN "opening" ELSE "failed")
  /\ UNCHANGED <<shared, sem, invites, bpc, locals, names, sound>>

\* clientProc ends at the first of these it needs and has not got; what it has of
\* the rest makes no difference.
FirstUses == <<"WRSeats", "BarberSleeps", "CustReady", "BSSeat", "CutDone">>
Usable(h) == {FirstUses[i] : i \in {j \in 1..5 : \A k \in 1..j : FirstUses[k] \in h}}

\* A sem_open that finds nothing is not noticed.  The calls are told apart while
\* the barber makes its own.
OpenSemaphores(c) ==
  LET last == IF bpc = "opening" THEN tried[c] + 1 ELSE Len(Order)
      now == handles[c] \cup ({Order[i] : i \in (tried[c] + 1)..last} \cap made)
  IN /\ pc[c] = "opening"
     /\ IF last < Len(Order)
        THEN /\ tried' = [tried EXCEPT ![c] = last]
             /\ handles' = [handles EXCEPT ![c] = now]
             /\ UNCHANGED pc
        ELSE /\ tried' = [tried EXCEPT ![c] = 0]
             /\ handles' = [handles EXCEPT ![c] = Usable(now)]
             /\ pc' = [pc EXCEPT ![c] = "waitWR"]
     /\ UNCHANGED <<shared, sem, invites, bpc, locals, seg, made, opened, faults, sound>>

\* The named semaphore the next step of a client is about, if it is about one.
Uses(label) ==
  CASE label \in {"waitWR", "wake_sigWR", "sit_sigWR", "sit_waitWR", "sit_sigWR2",
                  "full_sigWR"} -> {"WRSeats"}
    [] label \in {"waitBS", "wake_sigBS", "sit_sigBS", "full_sigBS"} -> {"BarberSleeps"}
    [] label \in {"wake_sigCR", "sit_sigCR"} -> {"CustReady"}
    [] label = "chair" -> {"BSSeat"}
    [] label = "waitCut" -> {"CutDone"}
    [] OTHER -> {}

clientProc(c) ==
  Uses(pc[c]) \subseteq handles[c] /\ Client(c) /\ UNCHANGED <<names, sound>>

\* What a client that ends holds stays held.
EndClient(c) ==
  /\ pc[c] \in ClientLabels \ {"done"}
  /\ pc' = [pc EXCEPT ![c] = "ended"]
  /\ handles' = [handles EXCEPT ![c] = {}]
  /\ sound' = (sound /\ pc[c] \in Outside)
  /\ UNCHANGED <<shared, sem, invites, bpc, locals, seg, made, opened, tried>>

\* sem_wait and sem_post of what sem_open did not find.
Crash(c) == ~(Uses(pc[c]) \subseteq handles[c]) /\ EndClient(c) /\ UNCHANGED faults

\* SIGTERM, SIGINT or SIGKILL.
KillClient(c) == faults < MaxFaults /\ faults' = faults + 1 /\ EndClient(c)

ClientPosix(c) == FindSegment(c) \/ OpenSemaphores(c) \/ clientProc(c) \/ Crash(c)

-----------------------------------------------------------------------------
NextPosix ==
  \/ BarberPosix \/ KillBarber \/ TerminateBarber
  \/ \E c \in Clients : ClientPosix(c) \/ KillClient(c)

SpecPosix == InitPosix /\ [][NextPosix]_varsPosix

\* As in Barbershop: a process that can run again and again does.
FairSpecPosix ==
  /\ SpecPosix
  /\ SF_varsPosix(BarberPosix)
  /\ \A c \in Clients : SF_varsPosix(ClientPosix(c))
-----------------------------------------------------------------------------
(* What the programs should be right about. *)
\* No two processes are in the room together, and the shop opens as it should, also
\* after the barber was killed waiting in an empty shop, although init_shared takes
\* over what is there, and although clients may come in while it does: as long as none
\* was inside at one of its writes, what Barbershop promises of seats, cuts and sleep
\* holds, for whoever came after the last write too.
ShopIsSound ==
  /\ MutualExclusion
  /\ sound /\ bpc \in BarberLabels =>
       SeatAccounting /\ QueueMatchesSeats /\ CutsMatchChairs /\ SleepsInEmptyShop

\* A client that has come gets all its cuts or ends, even if it came while the
\* shop was opening, unless somebody was cut short inside or met a write of
\* init_shared there, or there is no barber.
ServedWhileSound ==
  \A c \in Clients :
    pc[c] = "waitWR" ~>
      pc[c] \in {"done", "ended"} \/ ~sound \/ bpc \in {"off", "closed"}
=============================================================================
