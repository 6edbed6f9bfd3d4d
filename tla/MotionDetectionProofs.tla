----------------------- MODULE MotionDetectionProofs -----------------------
(***************************************************************************)
(* The area to watch is neither lost nor doubled by the threads and        *)
(* processes of the camera server, but for the ways the code leaves open,  *)
(* for any number of threads, processes, areas and requests.               *)
(***************************************************************************)
EXTENDS MotionDetection, ProcessCounts, FiniteSetTheorems, SequenceTheorems, TLAPS

(* Threads and processes counted by their labels. *)
\* The count is a natural number, and not 0 if somebody is there.
LEMMA CountType ==
  ASSUME NEW P, IsFiniteSet(P), NEW f, NEW L
  PROVE  /\ CountAt(P, f, L) \in Nat
         /\ \A y \in P : f[y] \in L => CountAt(P, f, L) > 0
<1> DEFINE A == {x \in P : f[x] \in L}
<1>1. IsFiniteSet(A)
  <2>1. A \subseteq P
    OBVIOUS
  <2> QED BY <2>1, FS_Subset
<1>2. Cardinality(A) \in Nat
  BY <1>1, FS_CardinalityType
<1>3. ASSUME NEW y \in P, f[y] \in L PROVE Cardinality(A) > 0
  <2>1. A # {}
    BY <1>3
  <2>2. Cardinality(A) # 0
    BY <1>1, <2>1, FS_EmptySet
  <2> QED BY <1>2, <2>2
<1> QED BY <1>2, <1>3 DEF CountAt

\* Where at most one process is, two processes are the same.
LEMMA CountUnique ==
  ASSUME NEW P, IsFiniteSet(P), NEW f, NEW L, CountAt(P, f, L) <= 1,
         NEW y \in P, NEW z \in P, f[y] \in L, f[z] \in L
  PROVE  y = z
<1> DEFINE A == {x \in P : f[x] \in L}
<1>1. IsFiniteSet(A)
  <2>1. A \subseteq P
    OBVIOUS
  <2> QED BY <2>1, FS_Subset
<1>2. Cardinality(A) = 1
  <2>1. CountAt(P, f, L) \in Nat /\ CountAt(P, f, L) > 0
    BY CountType
  <2>2. CountAt(P, f, L) = 1
    BY <2>1
  <2> QED BY <2>2 DEF CountAt
<1>3. y \in A /\ z \in A
  OBVIOUS
<1> HIDE DEF A
<1>4. PICK x : A = {x}
  BY <1>1, <1>2, FS_Singleton
<1> QED BY <1>3, <1>4

\* In the step from f to g, process y of P moves to the label to. The lemmas are
\* cited with MovesOne unexpanded.
MovesOne(P, X, f, y, to, g) == f \in [P -> X] /\ y \in P /\ g = [f EXCEPT ![y] = to]

One(L, l) == IF l \in L THEN 1 ELSE 0

\* When one process moves, the count changes by that process alone.
LEMMA CountMove ==
  ASSUME NEW P, IsFiniteSet(P), NEW X, NEW f, NEW y, NEW to, NEW g,
         MovesOne(P, X, f, y, to, g), NEW L
  PROVE  CountAt(P, g, L) = CountAt(P, f, L) + One(L, to) - One(L, f[y])
<1> USE DEF MovesOne, One
<1> DEFINE A == {x \in P : f[x] \in L}
           B == {x \in P : g[x] \in L}
           R == {x \in P : x # y /\ f[x] \in L}
<1>1. IsFiniteSet(A) /\ IsFiniteSet(B) /\ IsFiniteSet(R)
  <2>1. A \subseteq P /\ B \subseteq P /\ R \subseteq P
    OBVIOUS
  <2> QED BY <2>1, FS_Subset
<1>2. y \notin R /\ Cardinality(R) \in Nat
  BY <1>1, FS_CardinalityType
<1>3. Cardinality(R \cup {y}) = Cardinality(R) + 1
  BY <1>1, <1>2, FS_AddElement
<1>4. A = IF f[y] \in L THEN R \cup {y} ELSE R
  OBVIOUS
<1>5. B = IF to \in L THEN R \cup {y} ELSE R
  OBVIOUS
<1>6. Cardinality(A) = Cardinality(R) + (IF f[y] \in L THEN 1 ELSE 0)
  <2> HIDE DEF A, R
  <2> QED BY <1>2, <1>3, <1>4
<1>7. Cardinality(B) = Cardinality(R) + (IF to \in L THEN 1 ELSE 0)
  <2> HIDE DEF B, R
  <2> QED BY <1>2, <1>3, <1>5
<1> HIDE DEF A, B, R
<1>8. Cardinality(B) = Cardinality(A) + (IF to \in L THEN 1 ELSE 0)
                         - (IF f[y] \in L THEN 1 ELSE 0)
  BY <1>2, <1>6, <1>7
<1> QED BY <1>8 DEF CountAt, A, B

-----------------------------------------------------------------------------
\* Where a thread or a process can be.
ThreadLabels ==
  {Idle, <<"input", "look">>, <<"input", "put">>, <<"output", "look">>, <<"output", "get">>,
   <<"on", "check">>, <<"on", "start">>, <<"off", "terminate">>,
   <<"draw", "look">>, <<"draw", "get">>, <<"draw", "put">>,
   <<"mark", "look">>, <<"mark", "get">>, <<"mark", "put">>,
   <<"save", "look">>, <<"save", "get">>, <<"save", "put">>}
ClassifierLabels ==
  {Idle, <<"exit", "">>, <<"frame", "look">>, <<"frame", "get">>, <<"detections", "put">>,
   <<"crop", "look">>, <<"crop", "get">>, <<"crop", "put">>}
LabelsOf(a) == IF a \in Threads THEN ThreadLabels ELSE ClassifierLabels

\* Where an area is about to be put, and where one to be saved is on its way.
Held == {<<"draw", "put">>, <<"mark", "put">>, <<"save", "put">>, <<"crop", "put">>}
Looking == {<<"save", "look">>}
Saving == {<<"save", "look">>, <<"save", "get">>}

Items == [at : {"room", "buffer", "pipe", "gone"},
          by : Classifiers \cup {"server", "none"}, area : Sizes \cup {NoArea}]

Types ==
  /\ queue \in [Queues -> Items]
  /\ jammed \subseteq Queues
  /\ writing \in [Queues -> Classifiers \cup {"none", "dead"}]
  /\ pc \in [Actors -> ThreadLabels \cup ClassifierLabels]
  /\ hand \in [Actors -> Areas \cup {Nothing, NoArea}]
  /\ first_frame \in [Classifiers -> Areas \cup {Picture, NoArea}]
  /\ p \in Classifiers \cup {"None"} /\ clients \in 0..modes
  /\ terminated \subseteq Classifiers
  /\ saves \in 0..MaxSaves /\ modes \in 0..MaxModes
  /\ saved \in Areas \cup {Nothing} /\ added \in Nat /\ lost \in Nat

LabelInv == \A a \in Actors : pc[a] \in LabelsOf(a)

\* An area is in hand exactly where it is to be put or saved.
HandInv == \A a \in Actors : hand[a] # NoArea <=> pc[a] \in Held \cup Saving

\* Only what waits for a feeder thread is somebody's, and what lies in the
\* queue of areas is an area.
QueueInv ==
  /\ \A q \in Queues : queue[q].by # "none" => queue[q].at = "buffer"
  /\ HasArea => queue["rectangle"].area \in Areas \cup {Nothing}

InQueue == IF HasArea THEN 1 ELSE 0

\* The areas there are, and the saves that may still add one.
CountInv == CountAt(Actors, pc, Held) + InQueue = 1 + added - lost
SaveInv == CountAt(Actors, pc, Looking) + added <= saves

\* While no save has added an area, all see the one saved last.
SavedInv ==
  added = 0 => /\ HasArea => queue["rectangle"].area = saved
               /\ \A a \in Actors : pc[a] \in Held \ {<<"save", "put">>} => hand[a] = saved

IInv == Types /\ LabelInv /\ HandInv /\ QueueInv /\ CountInv /\ SaveInv /\ SavedInv

-----------------------------------------------------------------------------
LEMMA LabelFacts ==
  /\ Held \subseteq ThreadLabels \cup ClassifierLabels
  /\ Held \cap (Saving \cup {Idle, <<"exit", "">>, <<"frame", "look">>, <<"frame", "get">>,
                 <<"detections", "put">>, <<"crop", "look">>, <<"crop", "get">>,
                 <<"input", "look">>, <<"input", "put">>, <<"output", "look">>,
                 <<"output", "get">>, <<"on", "check">>, <<"on", "start">>,
                 <<"off", "terminate">>, <<"draw", "look">>, <<"draw", "get">>,
                 <<"mark", "look">>, <<"mark", "get">>}) = {}
BY DEF Held, Saving, ThreadLabels, ClassifierLabels, Idle

\* The areas are no NoArea.
LEMMA AreasAreReal ==
  /\ NoArea \notin Areas \cup {Nothing, Picture}
  /\ Areas \cup {Nothing, Picture} \subseteq Sizes
BY SizeAssumption DEF Sizes, NoArea, Nothing

LEMMA ActorsFinite == IsFiniteSet(Actors)
BY ActorAssumption, FS_Union DEF Actors

\* The counts when one actor moves.
LEMMA CountsMove ==
  ASSUME Types, NEW a \in Actors, NEW to, pc' = [pc EXCEPT ![a] = to]
  PROVE  /\ CountAt(Actors, pc', Held) =
              CountAt(Actors, pc, Held) + One(Held, to) - One(Held, pc[a])
         /\ CountAt(Actors, pc', Looking) =
              CountAt(Actors, pc, Looking) + One(Looking, to) - One(Looking, pc[a])
         /\ CountAt(Actors, pc, Held) \in Nat /\ CountAt(Actors, pc, Looking) \in Nat
<1>1. MovesOne(Actors, ThreadLabels \cup ClassifierLabels, pc, a, to, pc')
  BY DEF MovesOne, Types
<1> QED BY <1>1, CountMove, CountType, ActorsFinite

\* One actor moves: what becomes of the labels.
LEMMA LabelsMove ==
  ASSUME IInv, NEW a \in Actors, NEW to \in LabelsOf(a), pc' = [pc EXCEPT ![a] = to]
  PROVE  /\ pc' \in [Actors -> ThreadLabels \cup ClassifierLabels] /\ LabelInv'
         /\ pc'[a] = to /\ \A b \in Actors : b # a => pc'[b] = pc[b]
<1>1. to \in ThreadLabels \cup ClassifierLabels
  BY DEF LabelsOf
<1> QED BY <1>1 DEF IInv, Types, LabelInv

\* The variables a step changes beside the queue, the hands, the counters of
\* areas and the labels.
OthersTyped ==
  /\ jammed' \subseteq Queues
  /\ writing' \in [Queues -> Classifiers \cup {"none", "dead"}]
  /\ first_frame' \in [Classifiers -> Areas \cup {Picture, NoArea}]
  /\ p' \in Classifiers \cup {"None"} /\ clients' \in 0..modes'
  /\ terminated' \subseteq Classifiers
  /\ modes' \in 0..MaxModes

\* A step of one actor that neither takes, puts nor saves an area.
LEMMA QuietStep ==
  ASSUME IInv, OthersTyped, NEW a \in Actors, NEW to \in LabelsOf(a) \ (Held \cup Saving),
         pc' = [pc EXCEPT ![a] = to], pc[a] \notin Held \cup Saving,
         queue' \in [Queues -> Items], queue'["rectangle"] = queue["rectangle"],
         \A q \in Queues : queue'[q].by # "none" => queue'[q].at = "buffer",
         UNCHANGED <<hand, saves, saved, added, lost>>
  PROVE  IInv'
<1>1. /\ pc' \in [Actors -> ThreadLabels \cup ClassifierLabels] /\ LabelInv'
      /\ pc'[a] = to /\ \A b \in Actors : b # a => pc'[b] = pc[b]
  BY LabelsMove
<1>2. Types'
  BY <1>1 DEF IInv, Types, OthersTyped
<1>3. HasArea' = HasArea /\ InQueue' = InQueue
  BY DEF HasArea, InQueue
<1>4. HandInv'
  BY <1>1 DEF IInv, HandInv
<1>5. QueueInv'
  BY <1>3 DEF IInv, QueueInv
<1>6. /\ One(Held, to) = 0 /\ One(Held, pc[a]) = 0
      /\ One(Looking, to) = 0 /\ One(Looking, pc[a]) = 0
  BY DEF One, Looking, Saving
<1>7. /\ CountAt(Actors, pc', Held) = CountAt(Actors, pc, Held)
      /\ CountAt(Actors, pc', Looking) = CountAt(Actors, pc, Looking)
  <2>1. Types
    BY DEF IInv
  <2>2. /\ CountAt(Actors, pc', Held) =
             CountAt(Actors, pc, Held) + One(Held, to) - One(Held, pc[a])
        /\ CountAt(Actors, pc', Looking) =
             CountAt(Actors, pc, Looking) + One(Looking, to) - One(Looking, pc[a])
        /\ CountAt(Actors, pc, Held) \in Nat /\ CountAt(Actors, pc, Looking) \in Nat
    BY <2>1, CountsMove, Zenon
  <2> QED BY <1>6, <2>2
<1>8. CountInv' /\ SaveInv'
  BY <1>3, <1>7 DEF IInv, CountInv, SaveInv
<1>9. SavedInv'
  BY <1>1, <1>3 DEF IInv, SavedInv
<1> QED BY <1>1, <1>2, <1>4, <1>5, <1>8, <1>9 DEF IInv

LEMMA QueueFacts == {"rectangle", "input_queue", "output_queue"} = Queues
BY DEF Queues

\* What put, get and a feeder thread make of the queue they are about.
LEMMA PutTypes ==
  ASSUME IInv, NEW q \in Queues, NEW a \in Actors, NEW area \in Sizes \cup {NoArea}, Put(q, a, area)
  PROVE  /\ queue' \in [Queues -> Items] /\ queue[q].at = "room"
         /\ queue'[q].at = "buffer" /\ queue'[q].area = area
         /\ \A r \in Queues : r # q => queue'[r] = queue[r]
         /\ \A r \in Queues : queue'[r].by # "none" => queue'[r].at = "buffer"
<1>1. [at |-> "buffer", by |-> ProcessOf(a), area |-> area] \in Items
  BY DEF Items, ProcessOf
<1> QED BY <1>1 DEF IInv, Types, QueueInv, Put

LEMMA GetTypes ==
  ASSUME IInv, NEW q \in Queues, Get(q)
  PROVE  /\ queue' \in [Queues -> Items] /\ queue[q].at = "pipe" /\ queue'[q].at = "room"
         /\ \A r \in Queues : r # q => queue'[r] = queue[r]
         /\ \A r \in Queues : queue'[r].by # "none" => queue'[r].at = "buffer"
<1>1. Room \in Items /\ Room.by = "none" /\ Room.at = "room"
  BY DEF Items, Room
<1> QED BY <1>1 DEF IInv, Types, QueueInv, Get, CanGet

\* The actors that play a site: threads, or a process for its crops.
Plays(a, site) ==
  \/ a \in Threads /\ site \in {"draw", "mark"}
  \/ a \in Classifiers /\ site = "crop"

LEMMA PlaysLabels ==
  ASSUME NEW a \in Actors, NEW site, Plays(a, site)
  PROVE  /\ <<site, "get">> \in LabelsOf(a) \ (Held \cup Saving)
         /\ <<site, "look">> \notin Held \cup Saving
         /\ <<site, "put">> \in LabelsOf(a) /\ <<site, "put">> \in Held \ (Saving \cup {<<"save", "put">>})
<1>1. CASE a \in Threads /\ site \in {"draw", "mark"}
  BY <1>1 DEF LabelsOf, ThreadLabels, Held, Saving
<1>2. CASE a \in Classifiers /\ site = "crop"
  <2>1. a \notin Threads
    BY <1>2, ActorAssumption
  <2> QED BY <1>2, <2>1 DEF LabelsOf, ClassifierLabels, Held, Saving
<1> QED BY <1>1, <1>2 DEF Plays

\* What is done with the area leaves no area in hand.
LEMMA UsesTypes ==
  ASSUME IInv, NEW a \in Actors, NEW site, Plays(a, site),
         NEW size \in Areas \cup {Nothing, Picture}, Uses(a, site, size)
  PROVE  /\ \E to \in LabelsOf(a) \ (Held \cup Saving) : pc' = [pc EXCEPT ![a] = to]
         /\ first_frame' \in [Classifiers -> Areas \cup {Picture, NoArea}]
<1>1. CASE a \in Threads /\ site \in {"draw", "mark"}
  <2>1. \E to \in {<<"draw", "look">>, <<"mark", "look">>, <<"input", "look">>} :
          pc' = [pc EXCEPT ![a] = to]
    BY <1>1 DEF Uses, Goes
  <2>2. {<<"draw", "look">>, <<"mark", "look">>, <<"input", "look">>}
          \subseteq LabelsOf(a) \ (Held \cup Saving)
    BY <1>1 DEF LabelsOf, ThreadLabels, Held, Saving
  <2>3. first_frame' = first_frame
    BY <1>1 DEF Uses
  <2> QED BY <2>1, <2>2, <2>3 DEF IInv, Types
<1>2. CASE a \in Classifiers /\ site = "crop"
  <2>1. a \notin Threads
    BY <1>2, ActorAssumption
  <2>2. pc' = [pc EXCEPT ![a] = Compare(a, size)]
    BY <1>2 DEF Uses
  <2>3. Compare(a, size) \in {<<"exit", "">>, <<"frame", "look">>, <<"detections", "put">>}
    BY DEF Compare
  <2>4. {<<"exit", "">>, <<"frame", "look">>, <<"detections", "put">>}
          \subseteq LabelsOf(a) \ (Held \cup Saving)
    BY <2>1 DEF LabelsOf, ClassifierLabels, Held, Saving
  <2>5. size = Nothing => ~(size.height * size.width # 0)
    BY DEF Nothing
  <2>6. first_frame' \in [Classifiers -> Areas \cup {Picture, NoArea}]
    BY <1>2, <2>5 DEF Uses, IInv, Types
  <2> QED BY <2>2, <2>3, <2>4, <2>6
<1> QED BY <1>1, <1>2 DEF Plays

-----------------------------------------------------------------------------
(* The steps that look for the area, take it and put it back.               *)
LEMMA BorrowLookKeeps ==
  ASSUME IInv, NEW a \in Actors, NEW site, Plays(a, site), BorrowLook(a, site)
  PROVE  IInv'
<1>1. /\ pc[a] = <<site, "look">> /\ pc[a] \notin Held \cup Saving
      /\ UNCHANGED <<queue, jammed, writing, hand, control, history>>
  BY PlaysLabels DEF BorrowLook
<1>2. /\ \E to \in LabelsOf(a) \ (Held \cup Saving) : pc' = [pc EXCEPT ![a] = to]
      /\ first_frame' \in [Classifiers -> Areas \cup {Picture, NoArea}]
  <2>1. CASE IsEmpty("rectangle")
    BY <2>1, UsesTypes DEF BorrowLook
  <2>2. CASE ~IsEmpty("rectangle")
    BY <2>2, PlaysLabels DEF BorrowLook, Goes, IInv, Types
  <2> QED BY <2>1, <2>2
<1>3. OthersTyped
  BY <1>1, <1>2 DEF OthersTyped, IInv, Types, control, history
<1>4. \A q \in Queues : queue'[q].by # "none" => queue'[q].at = "buffer"
  BY <1>1 DEF IInv, QueueInv
<1> QED BY <1>1, <1>2, <1>3, <1>4, QuietStep DEF IInv, Types, control, history

LEMMA BorrowGetKeeps ==
  ASSUME IInv, NEW a \in Actors, NEW site, Plays(a, site), BorrowGet(a, site)
  PROVE  IInv'
<1> DEFINE to == <<site, "put">>
<1>1. /\ pc[a] = <<site, "get">> /\ pc' = [pc EXCEPT ![a] = to]
      /\ pc[a] \notin Held \cup Saving
      /\ to \in LabelsOf(a) /\ to \in Held /\ to \notin Saving /\ to # <<"save", "put">>
      /\ UNCHANGED <<jammed, writing, first_frame, control, history>>
      /\ hand' = [hand EXCEPT ![a] = queue["rectangle"].area]
  BY PlaysLabels DEF BorrowGet, Moves
<1> HIDE DEF to
<1>2. /\ queue' \in [Queues -> Items] /\ queue["rectangle"].at = "pipe"
      /\ queue'["rectangle"].at = "room"
      /\ \A r \in Queues : queue'[r].by # "none" => queue'[r].at = "buffer"
  BY GetTypes, QueueFacts DEF BorrowGet
<1>3. HasArea /\ ~HasArea' /\ InQueue = 1 /\ InQueue' = 0
  BY <1>2 DEF HasArea, InQueue
<1>4. /\ queue["rectangle"].area \in Areas \cup {Nothing}
      /\ queue["rectangle"].area # NoArea
  BY <1>3, AreasAreReal DEF IInv, QueueInv
<1>5. /\ pc' \in [Actors -> ThreadLabels \cup ClassifierLabels] /\ LabelInv'
      /\ pc'[a] = to /\ \A b \in Actors : b # a => pc'[b] = pc[b]
  BY <1>1, LabelsMove
<1>6. /\ hand' \in [Actors -> Areas \cup {Nothing, NoArea}]
      /\ hand'[a] = queue["rectangle"].area /\ \A b \in Actors : b # a => hand'[b] = hand[b]
  BY <1>1, <1>4 DEF IInv, Types
<1>7. Types'
  BY <1>1, <1>2, <1>5, <1>6 DEF IInv, Types, control, history
<1>8. HandInv'
  BY <1>1, <1>4, <1>5, <1>6 DEF IInv, HandInv
<1>9. /\ One(Held, to) = 1 /\ One(Held, pc[a]) = 0
      /\ One(Looking, to) = 0 /\ One(Looking, pc[a]) = 0
  BY <1>1 DEF One, Looking, Saving
<1>10. /\ CountAt(Actors, pc', Held) =
             CountAt(Actors, pc, Held) + One(Held, to) - One(Held, pc[a])
        /\ CountAt(Actors, pc', Looking) =
             CountAt(Actors, pc, Looking) + One(Looking, to) - One(Looking, pc[a])
        /\ CountAt(Actors, pc, Held) \in Nat /\ CountAt(Actors, pc, Looking) \in Nat
  <2>1. Types
    BY DEF IInv
  <2> QED BY <1>1, <2>1, CountsMove, Zenon
<1>11. CountInv' /\ SaveInv'
  BY <1>1, <1>3, <1>9, <1>10 DEF IInv, CountInv, SaveInv, control, history
<1>12. SavedInv'
  BY <1>1, <1>3, <1>5, <1>6 DEF IInv, SavedInv, control, history
<1>13. QueueInv'
  BY <1>2, <1>3 DEF QueueInv
<1> QED BY <1>5, <1>7, <1>8, <1>11, <1>12, <1>13 DEF IInv

LEMMA BorrowPutKeeps ==
  ASSUME IInv, NEW a \in Actors, NEW site, Plays(a, site), BorrowPut(a, site)
  PROVE  IInv'
<1>1. /\ pc[a] = <<site, "put">> /\ pc[a] \in Held /\ pc[a] \notin Saving
      /\ pc[a] # <<"save", "put">>
      /\ UNCHANGED <<jammed, writing, control, history>>
      /\ hand' = [hand EXCEPT ![a] = NoArea]
  BY PlaysLabels DEF BorrowPut
<1>2. hand[a] \in Areas \cup {Nothing}
  BY <1>1 DEF IInv, HandInv, Types
<1>3. /\ queue' \in [Queues -> Items] /\ queue["rectangle"].at = "room"
      /\ queue'["rectangle"].at = "buffer" /\ queue'["rectangle"].area = hand[a]
      /\ \A r \in Queues : queue'[r].by # "none" => queue'[r].at = "buffer"
  BY <1>2, PutTypes, QueueFacts, AreasAreReal DEF BorrowPut
<1>4. ~HasArea /\ HasArea' /\ InQueue = 0 /\ InQueue' = 1
  BY <1>3 DEF HasArea, InQueue
<1>5. PICK to \in LabelsOf(a) \ (Held \cup Saving) : pc' = [pc EXCEPT ![a] = to]
  BY <1>2, UsesTypes DEF BorrowPut
<1>6. first_frame' \in [Classifiers -> Areas \cup {Picture, NoArea}]
  BY <1>2, UsesTypes DEF BorrowPut
<1>7. /\ pc' \in [Actors -> ThreadLabels \cup ClassifierLabels] /\ LabelInv'
      /\ pc'[a] = to /\ \A b \in Actors : b # a => pc'[b] = pc[b]
  BY <1>5, LabelsMove
<1>8. /\ hand' \in [Actors -> Areas \cup {Nothing, NoArea}]
      /\ hand'[a] = NoArea /\ \A b \in Actors : b # a => hand'[b] = hand[b]
  BY <1>1 DEF IInv, Types
<1>9. Types'
  BY <1>1, <1>3, <1>6, <1>7, <1>8 DEF IInv, Types, control, history
<1>10. HandInv'
  BY <1>5, <1>7, <1>8 DEF IInv, HandInv
<1>11. /\ One(Held, to) = 0 /\ One(Held, pc[a]) = 1
       /\ One(Looking, to) = 0 /\ One(Looking, pc[a]) = 0
  BY <1>1, <1>5 DEF One, Looking, Saving
<1>12. /\ CountAt(Actors, pc', Held) =
             CountAt(Actors, pc, Held) + One(Held, to) - One(Held, pc[a])
        /\ CountAt(Actors, pc', Looking) =
             CountAt(Actors, pc, Looking) + One(Looking, to) - One(Looking, pc[a])
        /\ CountAt(Actors, pc, Held) \in Nat /\ CountAt(Actors, pc, Looking) \in Nat
  <2>1. Types
    BY DEF IInv
  <2> QED BY <1>5, <2>1, CountsMove, Zenon
<1>13. CountInv' /\ SaveInv'
  BY <1>1, <1>4, <1>11, <1>12 DEF IInv, CountInv, SaveInv, control, history
<1>14. SavedInv'
  BY <1>1, <1>3, <1>5, <1>7, <1>8 DEF IInv, SavedInv, control, history
<1>15. QueueInv'
  BY <1>2, <1>3 DEF QueueInv
<1> QED BY <1>7, <1>9, <1>10, <1>13, <1>14, <1>15 DEF IInv

-----------------------------------------------------------------------------
(* The steps of a save.                                                      *)
LEMMA ThreadIsActor ==
  ASSUME NEW a \in Threads
  PROVE  a \in Actors /\ LabelsOf(a) = ThreadLabels
BY DEF Actors, LabelsOf

LEMMA IdleIsFree == Idle \notin Held \cup Saving \cup Looking
BY DEF Idle, Held, Saving, Looking

LEMMA SaveKeeps ==
  ASSUME IInv, NEW a \in Threads, Save(a)
  PROVE  IInv'
<1> DEFINE to == <<"save", "look">>
<1>1. PICK area \in Areas : hand' = [hand EXCEPT ![a] = area]
  BY DEF Save
<1>2. /\ pc[a] = Idle /\ pc' = [pc EXCEPT ![a] = to]
      /\ to \in LabelsOf(a) /\ to \notin Held /\ to \in Saving /\ to \in Looking
      /\ saves < MaxSaves /\ saves' = saves + 1
      /\ UNCHANGED <<queue, jammed, writing, first_frame, p, clients, terminated, modes, saved,
                     added, lost>>
  BY ThreadIsActor DEF Save, Moves, ThreadLabels, Held, Saving, Looking, history
<1>3. pc[a] \notin Held \cup Saving \cup Looking
  BY <1>2, IdleIsFree
<1> HIDE DEF to
<1>4. a \in Actors
  BY ThreadIsActor
<1>5. /\ pc' \in [Actors -> ThreadLabels \cup ClassifierLabels] /\ LabelInv'
      /\ pc'[a] = to /\ \A b \in Actors : b # a => pc'[b] = pc[b]
  BY <1>2, <1>4, LabelsMove
<1>6. /\ hand' \in [Actors -> Areas \cup {Nothing, NoArea}]
      /\ hand'[a] = area /\ \A b \in Actors : b # a => hand'[b] = hand[b]
      /\ area # NoArea
  BY <1>1, <1>4, AreasAreReal DEF IInv, Types
<1>7. Types'
  BY <1>2, <1>5, <1>6, SizeAssumption DEF IInv, Types
<1>8. HandInv'
  BY <1>2, <1>5, <1>6 DEF IInv, HandInv
<1>9. HasArea' = HasArea /\ InQueue' = InQueue
  BY <1>2 DEF HasArea, InQueue
<1>10. /\ One(Held, to) = 0 /\ One(Held, pc[a]) = 0
       /\ One(Looking, to) = 1 /\ One(Looking, pc[a]) = 0
  BY <1>2, <1>3 DEF One
<1>11. /\ CountAt(Actors, pc', Held) =
             CountAt(Actors, pc, Held) + One(Held, to) - One(Held, pc[a])
        /\ CountAt(Actors, pc', Looking) =
             CountAt(Actors, pc, Looking) + One(Looking, to) - One(Looking, pc[a])
        /\ CountAt(Actors, pc, Held) \in Nat /\ CountAt(Actors, pc, Looking) \in Nat
  <2>1. Types
    BY DEF IInv
  <2> QED BY <1>2, <1>4, <2>1, CountsMove, Zenon
<1>12. CountInv' /\ SaveInv'
  BY <1>2, <1>9, <1>10, <1>11 DEF IInv, CountInv, SaveInv, Types
<1>13. SavedInv'
  BY <1>2, <1>5, <1>6, <1>9 DEF IInv, SavedInv
<1>14. QueueInv'
  BY <1>2, <1>9 DEF IInv, QueueInv
<1> QED BY <1>5, <1>7, <1>8, <1>12, <1>13, <1>14 DEF IInv

LEMMA SaveLookKeeps ==
  ASSUME IInv, NEW a \in Threads, SaveLook(a)
  PROVE  IInv'
<1> DEFINE to == IF IsEmpty("rectangle") THEN <<"save", "put">> ELSE <<"save", "get">>
<1>1. /\ pc[a] = <<"save", "look">> /\ pc' = [pc EXCEPT ![a] = to]
      /\ added' = added + One(Held, to)
      /\ UNCHANGED <<queue, jammed, writing, hand, first_frame, p, clients, terminated, saves,
                     modes, saved, lost>>
  <2>1. added + 0 = added
    BY DEF IInv, Types
  <2>2. CASE IsEmpty("rectangle")
    <3>1. to = <<"save", "put">> /\ One(Held, to) = 1
      BY <2>2 DEF One, Held
    <3> HIDE DEF to
    <3> QED BY <2>2, <3>1 DEF SaveLook, Goes, control
  <2>3. CASE ~IsEmpty("rectangle")
    <3>1. to = <<"save", "get">> /\ One(Held, to) = 0
      BY <2>3 DEF One, Held
    <3> HIDE DEF to
    <3> QED BY <2>1, <2>3, <3>1 DEF SaveLook, Goes, control
  <2> QED BY <2>2, <2>3
<1>2. /\ to \in LabelsOf(a) /\ to \in Held \cup Saving /\ to \notin Looking
      /\ to \in Held => to = <<"save", "put">>
  BY ThreadIsActor DEF ThreadLabels, Held, Saving, Looking
<1>3. pc[a] \notin Held /\ pc[a] \in Saving /\ pc[a] \in Looking
  BY <1>1 DEF Held, Saving, Looking
<1> HIDE DEF to
<1>4. a \in Actors /\ One(Held, to) \in {0, 1}
  BY ThreadIsActor DEF One
<1>5. /\ pc' \in [Actors -> ThreadLabels \cup ClassifierLabels] /\ LabelInv'
      /\ pc'[a] = to /\ \A b \in Actors : b # a => pc'[b] = pc[b]
  BY <1>1, <1>2, <1>4, LabelsMove
<1>6. Types'
  BY <1>1, <1>4, <1>5 DEF IInv, Types
<1>7. HandInv'
  BY <1>1, <1>2, <1>3, <1>4, <1>5 DEF IInv, HandInv
<1>8. HasArea' = HasArea /\ InQueue' = InQueue /\ InQueue \in {0, 1}
  BY <1>1 DEF HasArea, InQueue
<1>9. One(Held, pc[a]) = 0 /\ One(Looking, to) = 0 /\ One(Looking, pc[a]) = 1
  BY <1>2, <1>3 DEF One
<1>10. /\ CountAt(Actors, pc', Held) =
             CountAt(Actors, pc, Held) + One(Held, to) - One(Held, pc[a])
        /\ CountAt(Actors, pc', Looking) =
             CountAt(Actors, pc, Looking) + One(Looking, to) - One(Looking, pc[a])
        /\ CountAt(Actors, pc, Held) \in Nat /\ CountAt(Actors, pc, Looking) \in Nat
  <2>1. Types
    BY DEF IInv
  <2> QED BY <1>1, <1>4, <2>1, CountsMove, Zenon
<1>11. CountInv'
  BY <1>1, <1>4, <1>8, <1>9, <1>10 DEF IInv, CountInv, Types
<1>12. SaveInv'
  BY <1>1, <1>4, <1>9, <1>10 DEF IInv, SaveInv, Types
<1>13. SavedInv'
  <2>1. added' = 0 => added = 0
    BY <1>1, <1>4 DEF IInv, Types
  <2> QED BY <1>1, <1>2, <1>5, <1>8, <2>1 DEF IInv, SavedInv
<1>14. QueueInv'
  BY <1>1, <1>8 DEF IInv, QueueInv
<1> QED BY <1>5, <1>6, <1>7, <1>11, <1>12, <1>13, <1>14 DEF IInv

LEMMA SaveGetKeeps ==
  ASSUME IInv, NEW a \in Threads, SaveGet(a)
  PROVE  IInv'
<1> DEFINE to == <<"save", "put">>
<1>1. /\ pc[a] = <<"save", "get">> /\ pc' = [pc EXCEPT ![a] = to]
      /\ UNCHANGED <<jammed, writing, hand, first_frame, p, clients, terminated, saves, modes,
                     saved, added, lost>>
  BY DEF SaveGet, Moves, control, history
<1>2. to \in LabelsOf(a) /\ to \in Held /\ to \notin Looking /\ to = <<"save", "put">>
  BY ThreadIsActor DEF ThreadLabels, Held, Looking
<1>3. pc[a] \notin Held /\ pc[a] \in Saving /\ pc[a] \notin Looking
  BY <1>1 DEF Held, Saving, Looking
<1> HIDE DEF to
<1>4. a \in Actors
  BY ThreadIsActor
<1>5. /\ pc' \in [Actors -> ThreadLabels \cup ClassifierLabels] /\ LabelInv'
      /\ pc'[a] = to /\ \A b \in Actors : b # a => pc'[b] = pc[b]
  BY <1>1, <1>2, <1>4, LabelsMove
<1>6. /\ queue' \in [Queues -> Items] /\ queue["rectangle"].at = "pipe"
      /\ queue'["rectangle"].at = "room"
      /\ \A r \in Queues : queue'[r].by # "none" => queue'[r].at = "buffer"
  BY GetTypes, QueueFacts DEF SaveGet
<1>7. HasArea /\ ~HasArea' /\ InQueue = 1 /\ InQueue' = 0
  BY <1>6 DEF HasArea, InQueue
<1>8. Types'
  BY <1>1, <1>5, <1>6 DEF IInv, Types
<1>9. HandInv'
  BY <1>1, <1>2, <1>3, <1>4, <1>5 DEF IInv, HandInv
<1>10. /\ One(Held, to) = 1 /\ One(Held, pc[a]) = 0
       /\ One(Looking, to) = 0 /\ One(Looking, pc[a]) = 0
  BY <1>2, <1>3 DEF One
<1>11. /\ CountAt(Actors, pc', Held) =
             CountAt(Actors, pc, Held) + One(Held, to) - One(Held, pc[a])
        /\ CountAt(Actors, pc', Looking) =
             CountAt(Actors, pc, Looking) + One(Looking, to) - One(Looking, pc[a])
        /\ CountAt(Actors, pc, Held) \in Nat /\ CountAt(Actors, pc, Looking) \in Nat
  <2>1. Types
    BY DEF IInv
  <2> QED BY <1>1, <1>4, <2>1, CountsMove, Zenon
<1>12. CountInv' /\ SaveInv'
  BY <1>1, <1>7, <1>10, <1>11 DEF IInv, CountInv, SaveInv, Types
<1>13. SavedInv'
  BY <1>1, <1>2, <1>5, <1>7 DEF IInv, SavedInv
<1>14. QueueInv'
  BY <1>6, <1>7 DEF QueueInv
<1> QED BY <1>5, <1>8, <1>9, <1>12, <1>13, <1>14 DEF IInv

\* What is saved is the only area there is, if no save has added one.
LEMMA SavePutKeeps ==
  ASSUME IInv, NEW a \in Threads, SavePut(a)
  PROVE  IInv'
<1> DEFINE to == Idle
<1>1. /\ pc[a] = <<"save", "put">> /\ pc' = [pc EXCEPT ![a] = to]
      /\ Put("rectangle", a, hand[a])
      /\ saved' = hand[a] /\ hand' = [hand EXCEPT ![a] = NoArea]
      /\ UNCHANGED <<jammed, writing, first_frame, p, clients, terminated, saves, modes, added,
                     lost>>
  BY DEF SavePut, Moves, control
<1>2. to \in LabelsOf(a) /\ to \notin Held \cup Saving \cup Looking
  BY ThreadIsActor DEF ThreadLabels, Idle, Held, Saving, Looking
<1>3. pc[a] \in Held /\ pc[a] \notin Looking
  BY <1>1 DEF Held, Looking
<1> HIDE DEF to
<1>4. a \in Actors
  BY ThreadIsActor
<1>5. /\ pc' \in [Actors -> ThreadLabels \cup ClassifierLabels] /\ LabelInv'
      /\ pc'[a] = to /\ \A b \in Actors : b # a => pc'[b] = pc[b]
  BY <1>1, <1>2, <1>4, LabelsMove
<1>6. hand[a] \in Areas \cup {Nothing}
  BY <1>3, <1>4 DEF IInv, HandInv, Types
<1>7. /\ hand' \in [Actors -> Areas \cup {Nothing, NoArea}]
      /\ hand'[a] = NoArea /\ \A b \in Actors : b # a => hand'[b] = hand[b]
  BY <1>1, <1>4 DEF IInv, Types
<1>8. /\ queue' \in [Queues -> Items] /\ queue["rectangle"].at = "room"
      /\ queue'["rectangle"].at = "buffer" /\ queue'["rectangle"].area = hand[a]
      /\ \A r \in Queues : queue'[r].by # "none" => queue'[r].at = "buffer"
  BY <1>1, <1>4, <1>6, PutTypes, QueueFacts, AreasAreReal
<1>9. ~HasArea /\ HasArea' /\ InQueue = 0 /\ InQueue' = 1
  BY <1>8 DEF HasArea, InQueue
<1>10. Types'
  BY <1>1, <1>5, <1>6, <1>7, <1>8 DEF IInv, Types
<1>11. HandInv'
  BY <1>2, <1>5, <1>7 DEF IInv, HandInv
<1>12. /\ One(Held, to) = 0 /\ One(Held, pc[a]) = 1
       /\ One(Looking, to) = 0 /\ One(Looking, pc[a]) = 0
  BY <1>2, <1>3 DEF One
<1>13. /\ CountAt(Actors, pc', Held) =
             CountAt(Actors, pc, Held) + One(Held, to) - One(Held, pc[a])
        /\ CountAt(Actors, pc', Looking) =
             CountAt(Actors, pc, Looking) + One(Looking, to) - One(Looking, pc[a])
        /\ CountAt(Actors, pc, Held) \in Nat /\ CountAt(Actors, pc, Looking) \in Nat
  <2>1. Types
    BY DEF IInv
  <2> QED BY <1>1, <1>4, <2>1, CountsMove, Zenon
<1>14. CountInv' /\ SaveInv'
  BY <1>1, <1>9, <1>12, <1>13 DEF IInv, CountInv, SaveInv, Types
<1>15. SavedInv'
  <2>1. ASSUME added' = 0, NEW b \in Actors, pc'[b] \in Held PROVE FALSE
    <3>1. b # a /\ pc[b] \in Held
      BY <1>2, <1>5, <2>1
    <3>2. CountAt(Actors, pc, Held) <= 1
      BY <1>1, <1>9, <1>13, <2>1 DEF IInv, CountInv, Types
    <3>3. a = b
      BY <1>3, <1>4, <3>1, <3>2, CountUnique, ActorsFinite
    <3> QED BY <3>1, <3>3
  <2> QED BY <1>1, <1>8, <2>1 DEF SavedInv
<1>16. QueueInv'
  BY <1>6, <1>8 DEF QueueInv
<1> QED BY <1>5, <1>10, <1>11, <1>14, <1>15, <1>16 DEF IInv

-----------------------------------------------------------------------------
(* The steps that leave the area alone.                                      *)
FreeThreadLabels ==
  {Idle, <<"input", "look">>, <<"input", "put">>, <<"output", "look">>, <<"output", "get">>,
   <<"on", "check">>, <<"on", "start">>, <<"off", "terminate">>,
   <<"draw", "look">>, <<"mark", "look">>}
FreeClassifierLabels ==
  {Idle, <<"exit", "">>, <<"frame", "look">>, <<"frame", "get">>, <<"detections", "put">>,
   <<"crop", "look">>}

LEMMA FreeLabels ==
  /\ \A a \in Threads : FreeThreadLabels \subseteq LabelsOf(a) \ (Held \cup Saving)
  /\ \A a \in Classifiers : FreeClassifierLabels \subseteq LabelsOf(a) \ (Held \cup Saving)
<1>1. FreeThreadLabels \subseteq ThreadLabels /\ FreeClassifierLabels \subseteq ClassifierLabels
  BY DEF FreeThreadLabels, FreeClassifierLabels, ThreadLabels, ClassifierLabels
<1>2. /\ FreeThreadLabels \cap (Held \cup Saving) = {}
      /\ FreeClassifierLabels \cap (Held \cup Saving) = {}
  BY DEF FreeThreadLabels, FreeClassifierLabels, Held, Saving, Idle
<1>3. \A a \in Classifiers : a \notin Threads
  BY ActorAssumption
<1> QED BY <1>1, <1>2, <1>3 DEF LabelsOf

LEMMA TurnKeeps ==
  ASSUME IInv, NEW a \in Actors, NEW from, NEW to,
         from \notin Held \cup Saving, to \in LabelsOf(a) \ (Held \cup Saving),
         Turns(a, from, to)
  PROVE  IInv'
<1>1. /\ pc[a] = from /\ pc' = [pc EXCEPT ![a] = to] /\ queue' = queue
      /\ UNCHANGED <<jammed, writing, hand, first_frame, p, clients, terminated, saves, modes,
                     saved, added, lost>>
  BY DEF Turns, Moves, local, control, history
<1>2. /\ OthersTyped /\ queue' \in [Queues -> Items]
      /\ \A q \in Queues : queue'[q].by # "none" => queue'[q].at = "buffer"
  BY <1>1 DEF OthersTyped, IInv, Types, QueueInv
<1> QED BY <1>1, <1>2, QuietStep

\* A picture or a list of detections is put or taken.
LEMMA FrameTurnKeeps ==
  ASSUME IInv, NEW a \in Actors, NEW from, NEW to,
         from \notin Held \cup Saving, to \in LabelsOf(a) \ (Held \cup Saving),
         Moves(a, from, to), UNCHANGED local,
         NEW q \in {"input_queue", "output_queue"}, Put(q, a, NoArea) \/ Get(q)
  PROVE  IInv'
<1>1. /\ pc[a] = from /\ pc' = [pc EXCEPT ![a] = to]
      /\ UNCHANGED <<jammed, writing, hand, first_frame, p, clients, terminated, saves, modes,
                     saved, added, lost>>
  BY DEF Moves, local, control, history
<1>2. /\ queue' \in [Queues -> Items] /\ queue'["rectangle"] = queue["rectangle"]
      /\ \A r \in Queues : queue'[r].by # "none" => queue'[r].at = "buffer"
  <2>1. q \in Queues /\ "rectangle" \in Queues /\ "rectangle" # q
    BY QueueFacts
  <2> QED BY <2>1, PutTypes, GetTypes
<1>3. OthersTyped
  BY <1>1 DEF OthersTyped, IInv, Types
<1> QED BY <1>1, <1>2, <1>3, QuietStep

LEMMA PostKeeps ==
  ASSUME IInv, NEW a \in Threads, NEW to \in FreeThreadLabels, NEW change \in {1, -1},
         change = -1 => clients > 0, Post(a, to, change)
  PROVE  IInv'
<1>1. /\ pc[a] = Idle /\ pc' = [pc EXCEPT ![a] = to] /\ queue' = queue
      /\ clients' = clients + change /\ modes' = modes + 1 /\ modes < MaxModes
      /\ UNCHANGED <<jammed, writing, hand, first_frame, p, terminated, saves, saved, added, lost>>
  BY DEF Post, Moves, history
<1>2. clients' \in 0..modes' /\ modes' \in 0..MaxModes
  <2>1. clients \in 0..modes /\ modes \in 0..MaxModes /\ MaxModes \in Nat
    BY SizeAssumption DEF IInv, Types
  <2> QED BY <1>1, <2>1
<1>3. /\ OthersTyped /\ queue' \in [Queues -> Items]
      /\ \A q \in Queues : queue'[q].by # "none" => queue'[q].at = "buffer"
  BY <1>1, <1>2 DEF OthersTyped, IInv, Types, QueueInv
<1> QED BY <1>1, <1>3, FreeLabels, IdleIsFree, ThreadIsActor, QuietStep

LEMMA ThreadTurnKeeps ==
  ASSUME IInv, NEW a \in Threads, NEW from \in FreeThreadLabels, NEW to \in FreeThreadLabels,
         Turns(a, from, to)
  PROVE  IInv'
BY FreeLabels, ThreadIsActor, TurnKeeps

LEMMA ThreadFrameKeeps ==
  ASSUME IInv, NEW a \in Threads, NEW from \in FreeThreadLabels, NEW to \in FreeThreadLabels,
         Moves(a, from, to), UNCHANGED local,
         NEW q \in {"input_queue", "output_queue"}, Put(q, a, NoArea) \/ Get(q)
  PROVE  IInv'
BY FreeLabels, ThreadIsActor, FrameTurnKeeps

\* A thread starts a process: two labels change.
LEMMA OnStartKeeps ==
  ASSUME IInv, NEW t \in Threads, OnStart(t)
  PROVE  IInv'
<1> DEFINE toThread == <<"input", "look">>
           toProcess == <<"frame", "look">>
<1>1. PICK k \in Classifiers :
        /\ pc[k] = Idle /\ p' = k
        /\ pc' = [pc EXCEPT ![t] = toThread, ![k] = toProcess]
  BY DEF OnStart, Alive
<1>2. /\ pc[t] = <<"on", "start">>
      /\ UNCHANGED <<queue, jammed, writing, hand, first_frame, clients, terminated, saves, modes,
                     saved, added, lost>>
  BY DEF OnStart, history
<1>3. /\ toThread \in LabelsOf(t) \ (Held \cup Saving)
      /\ toProcess \in LabelsOf(k) \ (Held \cup Saving)
      /\ pc[t] \notin Held \cup Saving /\ pc[k] \notin Held \cup Saving
  BY <1>1, <1>2, FreeLabels, IdleIsFree DEF FreeThreadLabels, FreeClassifierLabels
<1>4. t \in Actors /\ k \in Actors /\ k # t
  BY ActorAssumption DEF Actors
<1> HIDE DEF toThread, toProcess
<1> DEFINE between == [pc EXCEPT ![t] = toThread]
           all == ThreadLabels \cup ClassifierLabels
<1>5. MovesOne(Actors, all, pc, t, toThread, between)
  BY <1>4 DEF MovesOne, IInv, Types
<1>6. between[k] = pc[k] /\ between \in [Actors -> all]
  BY <1>3, <1>4 DEF IInv, Types, LabelsOf
<1>7. pc' = [between EXCEPT ![k] = toProcess]
  BY <1>1
<1>8. MovesOne(Actors, all, between, k, toProcess, pc')
  BY <1>4, <1>6, <1>7 DEF MovesOne
<1>9. /\ pc' \in [Actors -> all] /\ pc'[t] = toThread /\ pc'[k] = toProcess
      /\ \A b \in Actors : b # t /\ b # k => pc'[b] = pc[b]
  BY <1>1, <1>3, <1>4 DEF IInv, Types, LabelsOf
<1> HIDE DEF between
<1>10. ASSUME NEW L, L \in {Held, Looking}
       PROVE  CountAt(Actors, pc', L) = CountAt(Actors, pc, L)
  <2>1. One(L, toThread) = 0 /\ One(L, toProcess) = 0 /\ One(L, pc[t]) = 0 /\ One(L, pc[k]) = 0
    BY <1>3, <1>10 DEF One, Looking, Saving
  <2>2. CountAt(Actors, between, L) = CountAt(Actors, pc, L) + One(L, toThread) - One(L, pc[t])
    BY <1>5, CountMove, ActorsFinite
  <2>3. CountAt(Actors, pc', L) = CountAt(Actors, between, L) + One(L, toProcess) - One(L, between[k])
    BY <1>8, CountMove, ActorsFinite
  <2>4. CountAt(Actors, pc, L) \in Nat
    BY CountType, ActorsFinite
  <2> QED BY <1>6, <2>1, <2>2, <2>3, <2>4
<1>11. HasArea' = HasArea /\ InQueue' = InQueue
  BY <1>2 DEF HasArea, InQueue
<1>12. CountInv' /\ SaveInv'
  BY <1>2, <1>10, <1>11 DEF IInv, CountInv, SaveInv
<1>13. Types'
  BY <1>1, <1>2, <1>9 DEF IInv, Types
<1>14. LabelInv'
  BY <1>3, <1>9 DEF IInv, LabelInv
<1>15. HandInv'
  BY <1>2, <1>3, <1>9 DEF IInv, HandInv
<1>16. SavedInv'
  BY <1>2, <1>3, <1>9, <1>11 DEF IInv, SavedInv
<1>17. QueueInv'
  BY <1>2, <1>11 DEF IInv, QueueInv
<1> QED BY <1>12, <1>13, <1>14, <1>15, <1>16, <1>17 DEF IInv

LEMMA ThreadKeeps ==
  ASSUME IInv, NEW t \in Threads, Thread(t)
  PROVE  IInv'
<1> USE DEF FreeThreadLabels
<1>1. ASSUME NEW site \in {"draw", "mark"}, Borrow(t, site) PROVE IInv'
  <2>1. t \in Actors /\ Plays(t, site)
    BY ThreadIsActor DEF Plays
  <2> QED BY <1>1, <2>1, BorrowLookKeeps, BorrowGetKeeps, BorrowPutKeeps DEF Borrow
<1>2. CASE View(t) \/ Draw(t) \/ Leave(t) \/ InputLook(t) \/ OutputLook(t) \/ OnCheck(t)
  BY <1>2, ThreadTurnKeeps DEF View, Draw, Leave, InputLook, OutputLook, OnCheck
<1>3. CASE InputPut(t)
  BY <1>3, ThreadFrameKeeps DEF InputPut
<1>4. CASE OutputGet(t)
  BY <1>4, ThreadFrameKeeps DEF OutputGet
<1>5. CASE On(t)
  BY <1>5, PostKeeps DEF On
<1>6. CASE Off(t)
  BY <1>6, PostKeeps DEF Off
<1>7. CASE OffTerminate(t)
  <2>1. /\ pc[t] = <<"off", "terminate">> /\ pc' = [pc EXCEPT ![t] = Idle] /\ queue' = queue
        /\ terminated' = terminated \cup {k \in {p} \cap Classifiers : Alive(k)}
        /\ UNCHANGED <<jammed, writing, hand, first_frame, p, clients, saves, modes, saved, added,
                       lost>>
    BY <1>7 DEF OffTerminate, Moves, history
  <2>2. /\ OthersTyped /\ queue' \in [Queues -> Items]
        /\ \A q \in Queues : queue'[q].by # "none" => queue'[q].at = "buffer"
    BY <2>1 DEF OthersTyped, IInv, Types, QueueInv
  <2>3. pc[t] \notin Held \cup Saving /\ Idle \in LabelsOf(t) \ (Held \cup Saving)
    BY <2>1, FreeLabels
  <2> QED BY <2>1, <2>2, <2>3, ThreadIsActor, QuietStep
<1> QED BY <1>1, <1>2, <1>3, <1>4, <1>5, <1>6, <1>7, SaveKeeps, SaveLookKeeps, SaveGetKeeps,
           SavePutKeeps, OnStartKeeps DEF Thread

-----------------------------------------------------------------------------
(* The steps of a process, and of the feeder threads.                        *)
LEMMA ProcessIsActor ==
  ASSUME NEW k \in Classifiers
  PROVE  k \in Actors /\ k # "none" /\ LabelsOf(k) = ClassifierLabels
<1>1. k \notin Threads /\ k # "none"
  BY ActorAssumption
<1> QED BY <1>1 DEF Actors, LabelsOf

LEMMA ExitKeeps ==
  ASSUME IInv, NEW k \in Classifiers, Exit(k)
  PROVE  IInv'
<1>1. /\ pc[k] = <<"exit", "">> /\ pc' = [pc EXCEPT ![k] = Idle] /\ queue' = queue
      /\ hand' = [hand EXCEPT ![k] = NoArea]
      /\ first_frame' = [first_frame EXCEPT ![k] = NoArea] /\ terminated' = terminated \ {k}
      /\ UNCHANGED <<jammed, writing, p, clients, saves, modes, saved, added, lost>>
  BY DEF Exit, Dies
<1>2. k \in Actors /\ pc[k] \notin Held \cup Saving /\ Idle \in LabelsOf(k) \ (Held \cup Saving)
  BY <1>1, FreeLabels, ProcessIsActor DEF FreeClassifierLabels
<1>3. hand' = hand
  <2>1. hand[k] = NoArea
    BY <1>2 DEF IInv, HandInv
  <2> QED BY <1>1, <1>2, <2>1 DEF IInv, Types
<1>4. /\ OthersTyped /\ queue' \in [Queues -> Items]
      /\ \A q \in Queues : queue'[q].by # "none" => queue'[q].at = "buffer"
  BY <1>1 DEF OthersTyped, IInv, Types, QueueInv
<1> QED BY <1>1, <1>2, <1>3, <1>4, QuietStep

\* A process that is ended takes along what is in the places, and its area.
LEMMA TakesKeeps ==
  ASSUME IInv, NEW k \in Classifiers, NEW places \in SUBSET Queues, NEW jams \in SUBSET Queues,
         NEW stalls \in SUBSET Queues,
         \A q \in places : queue[q].at \in {"buffer", "pipe"},
         Takes(k, places, jams, stalls), Dies(k)
  PROVE  IInv'
<1> DEFINE to == Idle
           area == IF hand[k] # NoArea THEN 1 ELSE 0
           taken == Cardinality({"rectangle"} \cap places)
<1>1. /\ pc' = [pc EXCEPT ![k] = to] /\ hand' = [hand EXCEPT ![k] = NoArea]
      /\ first_frame' = [first_frame EXCEPT ![k] = NoArea] /\ terminated' = terminated \ {k}
      /\ queue' = [q \in Queues |-> IF q \in places THEN Gone ELSE queue[q]]
      /\ jammed' = jammed \cup jams /\ lost' = lost + taken + area
      /\ UNCHANGED <<p, clients, saves, modes, saved, added>>
  BY DEF Takes, Dies
<1>2. /\ k \in Actors /\ to \in LabelsOf(k) /\ to \notin Held \cup Saving \cup Looking
      /\ pc[k] \notin Saving \cup Looking
  <2>1. k \in Actors /\ LabelsOf(k) = ClassifierLabels
    BY ProcessIsActor
  <2>2. pc[k] \in ClassifierLabels
    BY <2>1 DEF IInv, LabelInv
  <2>3. to \in LabelsOf(k) /\ to \notin Held \cup Saving \cup Looking
    BY <2>1, IdleIsFree DEF ClassifierLabels
  <2>4. pc[k] \notin Saving \cup Looking
    <3>1. ASSUME NEW step, <<"save", step>> \in ClassifierLabels PROVE FALSE
      BY <3>1 DEF ClassifierLabels, Idle
    <3> QED BY <2>2, <3>1 DEF Saving, Looking
  <2> QED BY <2>1, <2>3, <2>4
<1> HIDE DEF to
<1>3. Gone \in Items /\ Gone.at = "gone" /\ Gone.by = "none"
  BY DEF Gone, Room, Items
<1>4. /\ queue' \in [Queues -> Items]
      /\ \A q \in Queues : queue'[q].by # "none" => queue'[q].at = "buffer"
      /\ queue'["rectangle"] = IF "rectangle" \in places THEN Gone ELSE queue["rectangle"]
  BY <1>1, <1>3, QueueFacts DEF IInv, Types, QueueInv
<1>5. taken \in {0, 1} /\ InQueue = InQueue' + taken /\ (HasArea' => HasArea /\ taken = 0)
  <2>1. CASE "rectangle" \in places
    <3>1. {"rectangle"} \cap places = {"rectangle"} /\ HasArea /\ ~HasArea'
      BY <1>3, <1>4, <2>1 DEF HasArea
    <3>2. taken = 1
      BY <3>1, FS_Singleton
    <3> QED BY <3>1, <3>2 DEF InQueue
  <2>2. CASE "rectangle" \notin places
    <3>1. {"rectangle"} \cap places = {} /\ HasArea' = HasArea
      BY <1>4, <2>2 DEF HasArea
    <3>2. taken = 0
      BY <3>1, FS_EmptySet
    <3> QED BY <3>1, <3>2 DEF InQueue
  <2> QED BY <2>1, <2>2
<1>6. HasArea' => queue'["rectangle"] = queue["rectangle"]
  BY <1>3, <1>4 DEF HasArea
<1>7. /\ pc' \in [Actors -> ThreadLabels \cup ClassifierLabels] /\ LabelInv'
      /\ pc'[k] = to /\ \A b \in Actors : b # k => pc'[b] = pc[b]
  BY <1>1, <1>2, LabelsMove
<1>8. /\ hand' \in [Actors -> Areas \cup {Nothing, NoArea}]
      /\ hand'[k] = NoArea /\ \A b \in Actors : b # k => hand'[b] = hand[b]
  BY <1>1, <1>2 DEF IInv, Types
<1>9. area \in {0, 1} /\ area = One(Held, pc[k])
  BY <1>2 DEF IInv, HandInv, One
<1> HIDE DEF taken, area
<1>10. Types'
  <2>1. lost' \in Nat
    BY <1>1, <1>5, <1>9 DEF IInv, Types
  <2>2. writing' \in [Queues -> Classifiers \cup {"none", "dead"}]
    BY DEF Takes, IInv, Types
  <2> QED BY <1>1, <1>4, <1>7, <1>8, <2>1, <2>2 DEF IInv, Types
<1>11. HandInv'
  BY <1>2, <1>7, <1>8 DEF IInv, HandInv
<1>12. One(Held, to) = 0 /\ One(Looking, to) = 0 /\ One(Looking, pc[k]) = 0
  BY <1>2 DEF One
<1>13. /\ CountAt(Actors, pc', Held) =
             CountAt(Actors, pc, Held) + One(Held, to) - One(Held, pc[k])
        /\ CountAt(Actors, pc', Looking) =
             CountAt(Actors, pc, Looking) + One(Looking, to) - One(Looking, pc[k])
        /\ CountAt(Actors, pc, Held) \in Nat /\ CountAt(Actors, pc, Looking) \in Nat
  <2>1. Types
    BY DEF IInv
  <2> QED BY <1>1, <1>2, <2>1, CountsMove, Zenon
<1>14. InQueue' \in {0, 1}
  BY DEF InQueue
<1>15. CountInv'
  <2>1. /\ CountAt(Actors, pc, Held) + InQueue = 1 + added - lost
        /\ added \in Nat /\ lost \in Nat /\ added' = added
    BY <1>1 DEF IInv, CountInv, Types
  <2>2. CountAt(Actors, pc', Held) + InQueue' = 1 + added - (lost + taken + area)
    BY <1>5, <1>9, <1>12, <1>13, <1>14, <2>1
  <2> QED BY <1>1, <2>1, <2>2 DEF CountInv
<1>16. SaveInv'
  BY <1>1, <1>12, <1>13 DEF IInv, SaveInv
<1>17. SavedInv'
  BY <1>1, <1>2, <1>5, <1>6, <1>7, <1>8 DEF IInv, SavedInv
<1>18. QueueInv'
  BY <1>4, <1>5, <1>6 DEF IInv, QueueInv
<1> QED BY <1>7, <1>10, <1>11, <1>15, <1>16, <1>17, <1>18 DEF IInv

LEMMA KilledKeeps ==
  ASSUME IInv, NEW k \in Classifiers, Killed(k)
  PROVE  IInv'
<1> DEFINE unfed == {q \in Queues : queue[q].by = k}
           reading == {q \in Queues \ jammed : pc[k] \in {<<"frame", "get">>, <<"crop", "get">>}
                                                /\ q = QueueOf(pc[k][1])}
           received == {q \in reading : CanGet(q)}
<1>1. unfed \in SUBSET Queues /\ reading \in SUBSET Queues /\ received \in SUBSET Queues
  OBVIOUS
<1>2. PICK taken \in {{}, received}, jams \in {{}, reading},
           stalls \in SUBSET {q \in unfed : writing[q] = "none"} :
        Takes(k, unfed \cup taken, jams, stalls) /\ Dies(k)
  BY DEF Killed
<1>3. \A q \in unfed : queue[q].at = "buffer"
  BY ProcessIsActor DEF IInv, QueueInv
<1>4. \A q \in received : queue[q].at = "pipe"
  BY DEF CanGet
<1>5. stalls \in SUBSET Queues
  BY <1>1, <1>2
<1> HIDE DEF unfed, reading, received
<1>6. unfed \cup taken \in SUBSET Queues /\ jams \in SUBSET Queues
  BY <1>1, <1>2
<1>7. \A q \in unfed \cup taken : queue[q].at \in {"buffer", "pipe"}
  BY <1>2, <1>3, <1>4
<1> QED BY <1>2, <1>5, <1>6, <1>7, TakesKeeps

LEMMA ClassifierKeeps ==
  ASSUME IInv, NEW k \in Classifiers, Classifier(k)
  PROVE  IInv'
<1>1. k \in Actors /\ Plays(k, "crop")
  BY ProcessIsActor DEF Plays
<1>2. FreeClassifierLabels \subseteq LabelsOf(k) \ (Held \cup Saving)
  BY FreeLabels
<1>3. /\ <<"frame", "look">> \in FreeClassifierLabels /\ <<"frame", "get">> \in FreeClassifierLabels
      /\ <<"crop", "look">> \in FreeClassifierLabels
      /\ <<"detections", "put">> \in FreeClassifierLabels
  BY DEF FreeClassifierLabels
<1>4. CASE FrameLook(k)
  BY <1>1, <1>2, <1>3, <1>4, TurnKeeps DEF FrameLook
<1>5. CASE FrameGet(k)
  BY <1>1, <1>2, <1>3, <1>5, FrameTurnKeeps DEF FrameGet
<1>6. CASE DetectionsPut(k)
  BY <1>1, <1>2, <1>3, <1>6, FrameTurnKeeps DEF DetectionsPut
<1>7. CASE Borrow(k, "crop")
  BY <1>1, <1>7, BorrowLookKeeps, BorrowGetKeeps, BorrowPutKeeps DEF Borrow
<1> QED BY <1>4, <1>5, <1>6, <1>7, ExitKeeps, KilledKeeps DEF Classifier

LEMMA FeedWriteKeeps ==
  ASSUME IInv, NEW q \in Queues, FeedWrite(q)
  PROVE  IInv'
<1>1. /\ queue[q].at = "buffer"
      /\ queue' = [queue EXCEPT ![q] = [queue[q] EXCEPT !.at = "pipe", !.by = "none"]]
      /\ writing' = [writing EXCEPT ![q] = IF queue[q].by \in Classifiers THEN queue[q].by ELSE @]
      /\ UNCHANGED <<jammed, pc, hand, first_frame, p, clients, terminated, saves, modes,
                     saved, added, lost>>
  BY DEF FeedWrite, control, history, IInv, Types
<1>2. /\ queue' \in [Queues -> Items] /\ queue'[q].at = "pipe" /\ queue'[q].by = "none"
      /\ queue'[q].area = queue[q].area
      /\ \A r \in Queues : r # q => queue'[r] = queue[r]
  <2>1. [queue[q] EXCEPT !.at = "pipe", !.by = "none"] \in Items
    BY DEF IInv, Types, Items
  <2> QED BY <1>1, <2>1 DEF IInv, Types, Items
<1>3. HasArea' = HasArea /\ InQueue' = InQueue
      /\ queue'["rectangle"].area = queue["rectangle"].area
  BY <1>1, <1>2, QueueFacts DEF HasArea, InQueue
<1>4. writing' \in [Queues -> Classifiers \cup {"none", "dead"}]
  BY <1>1 DEF IInv, Types
<1>5. Types'
  BY <1>1, <1>2, <1>4 DEF IInv, Types
<1>6. QueueInv'
  BY <1>2, <1>3 DEF IInv, QueueInv
<1>7. LabelInv' /\ HandInv' /\ CountInv' /\ SaveInv' /\ SavedInv'
  BY <1>1, <1>3 DEF IInv, LabelInv, HandInv, CountInv, SaveInv, SavedInv
<1> QED BY <1>5, <1>6, <1>7 DEF IInv

LEMMA FeedReleaseKeeps ==
  ASSUME IInv, NEW q \in Queues, FeedRelease(q)
  PROVE  IInv'
<1>1. /\ writing' = [writing EXCEPT ![q] = "none"]
      /\ UNCHANGED <<queue, jammed, pc, hand, first_frame, p, clients, terminated, saves, modes,
                     saved, added, lost>>
  BY DEF FeedRelease, control, history
<1>2. Types'
  BY <1>1 DEF IInv, Types
<1>3. HasArea' = HasArea /\ InQueue' = InQueue
  BY <1>1 DEF HasArea, InQueue
<1> QED BY <1>1, <1>2, <1>3 DEF IInv, LabelInv, HandInv, QueueInv, CountInv, SaveInv, SavedInv

-----------------------------------------------------------------------------
LEMMA NoneHeld ==
  ASSUME Init
  PROVE  CountAt(Actors, pc, Held) = 0 /\ CountAt(Actors, pc, Looking) = 0
<1>1. /\ {a \in Actors : pc[a] \in Held} = {}
      /\ {a \in Actors : pc[a] \in Looking} = {}
  BY IdleIsFree DEF Init
<1> QED BY <1>1, FS_EmptySet DEF CountAt

LEMMA InitGives == Init => IInv
<1> SUFFICES ASSUME Init PROVE IInv
  OBVIOUS
<1>1. Idle \in ThreadLabels /\ Idle \in ClassifierLabels
  BY DEF ThreadLabels, ClassifierLabels
<1>2. /\ Room \in Items /\ [Room EXCEPT !.at = "pipe", !.area = Nothing] \in Items
      /\ Room.by = "none" /\ Room.at = "room"
  BY AreasAreReal DEF Room, Items
<1>3. /\ queue \in [Queues -> Items] /\ \A q \in Queues : queue[q].by = "none"
      /\ queue["rectangle"].at = "pipe" /\ queue["rectangle"].area = Nothing
  BY <1>2, QueueFacts DEF Init, Room
<1>4. Types
  BY <1>1, <1>3, SizeAssumption DEF Init, Types
<1>5. LabelInv
  BY <1>1 DEF Init, LabelInv, LabelsOf
<1>6. HandInv
  BY IdleIsFree DEF Init, HandInv
<1>7. HasArea /\ InQueue = 1
  BY <1>3 DEF HasArea, InQueue
<1>8. QueueInv
  BY <1>3 DEF QueueInv
<1>9. CountInv /\ SaveInv
  BY <1>7, NoneHeld DEF Init, CountInv, SaveInv
<1>10. SavedInv
  BY <1>3, IdleIsFree DEF Init, SavedInv
<1> QED BY <1>4, <1>5, <1>6, <1>8, <1>9, <1>10 DEF IInv

LEMMA StepKeeps == IInv /\ [Next]_vars => IInv'
<1> SUFFICES ASSUME IInv, [Next]_vars PROVE IInv'
  OBVIOUS
<1>1. CASE UNCHANGED vars
  BY <1>1 DEF vars, control, history, IInv, Types, LabelInv, HandInv, QueueInv, CountInv,
              SaveInv, SavedInv, HasArea, InQueue
<1> QED BY <1>1, FeedWriteKeeps, FeedReleaseKeeps, ThreadKeeps, ClassifierKeeps DEF Next

\* The labels at which an area is held are those the property speaks of.
LEMMA HoldersAreHeld ==
  ASSUME IInv
  PROVE  Holders = {a \in Actors : pc[a] \in Held}
<1>1. /\ \A site \in {"input", "output", "detections"} : QueueOf(site) # "rectangle"
      /\ \A site \in {"draw", "mark", "save", "crop"} : QueueOf(site) = "rectangle"
  BY DEF QueueOf
<1>2. ASSUME NEW label \in ThreadLabels \cup ClassifierLabels
      PROVE  (label[2] \in {"put"} /\ QueueOf(label[1]) = "rectangle") <=> label \in Held
  <2>1. Idle[2] # "put" /\ <<"exit", "">>[2] # "put"
    BY DEF Idle
  <2>2. Idle \notin Held /\ <<"exit", "">> \notin Held
    BY LabelFacts
  <2>3. CASE label \in {Idle, <<"exit", "">>}
    BY <2>1, <2>2, <2>3
  <2>4. CASE label \in ThreadLabels \ {Idle}
    <3>1. \/ label = <<"input", "put">> \/ label[2] # "put"
          \/ label \in {<<"draw", "put">>, <<"mark", "put">>, <<"save", "put">>}
      BY <2>4 DEF ThreadLabels
    <3>2. label[2] # "put" => label \notin Held
      BY DEF Held
    <3>3. label = <<"input", "put">> => label[1] = "input" /\ label \notin Held
      BY DEF Held
    <3>4. label \in {<<"draw", "put">>, <<"mark", "put">>, <<"save", "put">>} =>
            label[2] = "put" /\ label[1] \in {"draw", "mark", "save"} /\ label \in Held
      BY DEF Held
    <3> QED BY <1>1, <3>1, <3>2, <3>3, <3>4
  <2>5. CASE label \in ClassifierLabels \ {Idle, <<"exit", "">>}
    <3>1. label = <<"detections", "put">> \/ label[2] # "put" \/ label = <<"crop", "put">>
      <4>1. label \in {<<"frame", "look">>, <<"frame", "get">>, <<"detections", "put">>,
                       <<"crop", "look">>, <<"crop", "get">>, <<"crop", "put">>}
        BY <2>5 DEF ClassifierLabels
      <4> QED BY <4>1
    <3>2. label[2] # "put" => label \notin Held
      BY DEF Held
    <3>3. label = <<"detections", "put">> => label[1] = "detections" /\ label \notin Held
      BY DEF Held
    <3>4. label = <<"crop", "put">> => label[2] = "put" /\ label[1] = "crop" /\ label \in Held
      BY DEF Held
    <3> QED BY <1>1, <3>1, <3>2, <3>3, <3>4
  <2> QED BY <2>3, <2>4, <2>5
<1> QED BY <1>2 DEF IInv, Types, Holders, AtArea

LEMMA TypesGive ==
  ASSUME IInv
  PROVE  TypeOK
<1>1. ThreadLabels \cup ClassifierLabels
        \subseteq UsedAt \X Steps
  <2> DEFINE Pairs == UsedAt \X Steps
  <2>1. \A site \in UsedAt, step \in Steps : <<site, step>> \in Pairs
    OBVIOUS
  <2> HIDE DEF Pairs
  <2>2. Idle \in Pairs /\ <<"exit", "">> \in Pairs
    BY <2>1 DEF Idle, UsedAt, Steps
  <2>3. ThreadLabels \subseteq Pairs
    BY <2>1, <2>2 DEF ThreadLabels, UsedAt, Steps
  <2>4. ClassifierLabels \subseteq Pairs
    BY <2>1, <2>2 DEF ClassifierLabels, UsedAt, Steps
  <2>5. ThreadLabels \cup ClassifierLabels \subseteq Pairs
    BY <2>3, <2>4
  <2> QED BY <2>5 DEF Pairs
<1>2. added \in 0..saves
  <2>1. CountAt(Actors, pc, Looking) \in Nat
    BY CountType, ActorsFinite
  <2> QED BY <2>1 DEF IInv, SaveInv, Types
<1> QED BY <1>1, <1>2 DEF IInv, Types, TypeOK, Items

LEMMA InvGives == IInv => AreaIsSaved
<1> SUFFICES ASSUME IInv PROVE AreaIsSaved
  OBVIOUS
<1>1. Cardinality(Holders) = CountAt(Actors, pc, Held)
  BY HoldersAreHeld DEF CountAt
<1>2. Cardinality(Holders) + (IF HasArea THEN 1 ELSE 0) = 1 + added - lost
  BY <1>1 DEF IInv, CountInv, InQueue
<1>3. \A a \in Holders : a \in Actors /\ pc[a] \in Held
  BY HoldersAreHeld
<1>4. added = 0 => /\ HasArea => queue["rectangle"].area = saved
                   /\ \A a \in Holders : pc[a][1] # "save" => hand[a] = saved
  BY <1>3 DEF IInv, SavedInv
<1> QED BY <1>2, <1>4, TypesGive DEF AreaIsSaved

\* The area users chose goes round among any number of threads and processes
\* without being lost or doubled, but for the saves that add one and the
\* processes that die with one; and as long as no save adds one, everybody
\* gets the area saved last (video_viewer_conf, draw_area, process_frame and
\* classify_frame).
THEOREM AreaGoesRound == Spec => []AreaIsSaved
<1>1. Spec => []IInv
  BY InitGives, StepKeeps, PTL DEF Spec
<1> QED BY <1>1, InvGives, PTL
=============================================================================
