--------------------------- MODULE BoundedChannel ---------------------------
(***************************************************************************)
(* What the producers-and-consumers programs of Operating-systems/lab9     *)
(* promise: the lines of a book go through a buffer of Capacity places and *)
(* come out once each and in order; the program ends by itself only when   *)
(* all of them have come out.  zad2 (BufferSem) and zad1 (BufferMutex)     *)
(* implement it.                                                           *)
(***************************************************************************)
EXTENDS Naturals, Sequences

CONSTANTS
  Capacity,   \* places in the buffer
  Lines       \* lines of the book, known by their numbers

VARIABLES
  chan,       \* the lines in the buffer
  sent,       \* how many lines were put in
  received,   \* the lines taken out
  status      \* "open", "finished" (ended by itself) or "killed" (by a signal)

cvars == <<chan, sent, received, status>>

Init ==
  /\ chan = <<>>
  /\ sent = 0
  /\ received = <<>>
  /\ status = "open"

Send ==
  /\ status = "open"
  /\ sent < Lines
  /\ Len(chan) < Capacity
  /\ sent' = sent + 1
  /\ chan' = Append(chan, sent + 1)
  /\ UNCHANGED <<received, status>>

Receive ==
  /\ status = "open"
  /\ chan # <<>>
  /\ received' = Append(received, Head(chan))
  /\ chan' = Tail(chan)
  /\ UNCHANGED <<sent, status>>

Finish ==
  /\ status = "open"
  /\ sent = Lines
  /\ chan = <<>>
  /\ status' = "finished"
  /\ UNCHANGED <<chan, sent, received>>

Kill ==
  /\ status = "open"
  /\ status' = "killed"
  /\ UNCHANGED <<chan, sent, received>>

Next == Send \/ Receive \/ Finish \/ Kill

Fairness == WF_cvars(Send) /\ WF_cvars(Receive) /\ WF_cvars(Finish)

Spec == Init /\ [][Next]_cvars
FairSpec == Spec /\ Fairness
-----------------------------------------------------------------------------
\* Properties.
TypeOK ==
  /\ chan \in Seq(1..Lines)
  /\ Len(chan) <= Capacity
  /\ sent \in 0..Lines
  /\ received \in Seq(1..Lines)
  /\ status \in {"open", "finished", "killed"}

\* What was received, followed by what is still in the buffer, is the book up to
\* the last line put in: no line is lost, repeated, changed or overtaken.
NothingLost ==
  /\ sent = Len(received) + Len(chan)
  /\ \A i \in 1..Len(received) : received[i] = i
  /\ \A i \in 1..Len(chan) : chan[i] = Len(received) + i

\* The program ends by itself only after the last line has come out.
FinishedMeansDelivered ==
  status = "finished" => received = [i \in 1..Lines |-> i]
=============================================================================
