-------------------------- MODULE MotionDetection --------------------------
(***************************************************************************)
(* OpenCV-detection-server/motion_detection.py: the threads of the web     *)
(* server, one for each request, and the processes that classify_frame     *)
(* runs in.  They share three queues of one place; the area to watch is an *)
(* item that goes round in one of them.                                    *)
(*                                                                         *)
(* A thread or process is at <<site, step>>, where a site is a use of a    *)
(* queue in the code and its steps are the look (empty()), the get and the *)
(* put.  Pictures, contours and the lamp are left out; a frame may have any *)
(* number of contours.                                                     *)
(***************************************************************************)
EXTENDS Integers, FiniteSets

CONSTANTS
  Threads,      \* the threads of the web server
  Classifiers,  \* the processes it may start
  Picture,      \* what the camera sees: [height, width]
  Areas,        \* what a user may choose, as the part of the picture it leaves
  MaxSaves, MaxModes  \* bounds: requests that save an area, that say on or off

Sizes == [height : Nat, width : Nat]

ASSUME ActorAssumption ==
  IsFiniteSet(Threads) /\ IsFiniteSet(Classifiers)
  /\ Threads \cap Classifiers = {} /\ {"none", "server", "dead"} \cap Classifiers = {}

ASSUME SizeAssumption ==
  Picture \in Sizes /\ Areas \subseteq Sizes /\ {MaxSaves, MaxModes} \subseteq Nat

Nothing == [height |-> 0, width |-> 0]   \* [0, 0, 0, 0]
NoArea == [height |-> -1, width |-> -1]
Actors == Threads \cup Classifiers
Queues == {"rectangle", "input_queue", "output_queue"}

QueueOf(site) == CASE site \in {"input", "frame"} -> "input_queue"
                   [] site \in {"output", "detections"} -> "output_queue"
                   [] OTHER -> "rectangle"

VARIABLES
  queue,        \* the place of each queue: where its item is, if it has one
  jammed,       \* queues whose reader died holding the lock of get
  writing,      \* the process that has written to each queue and holds its write
                \* lock, or "none"; "dead" if it died holding it
  pc,           \* where each thread and process is
  hand,         \* the area each has taken, or is to save, or NoArea
  first_frame,  \* each process: the size of its first frame, or NoArea
  p, clients,   \* the last process started, or "None"; the viewers counted
  terminated,   \* the processes that have been sent SIGTERM
  saves, modes, \* requests so far
  saved, added, lost \* history: the area saved last; saves that found the
                \* queue empty; areas that died with a process

control == <<p, clients, terminated, saves, modes>>
history == <<saved, added, lost>>
vars == <<queue, jammed, writing, pc, hand, first_frame, control, history>>

-----------------------------------------------------------------------------
(* multiprocessing.Queue(maxsize=1).  put waits for the place and leaves the *)
(* item with its process, whose feeder thread takes the write lock, writes   *)
(* the item to the pipe and releases the lock; empty() looks at the pipe,    *)
(* and get frees the place, be the lock released or not.                     *)
Room == [at |-> "room", by |-> "none", area |-> NoArea]
Gone == [Room EXCEPT !.at = "gone"]   \* the place was never freed
ProcessOf(a) == IF a \in Classifiers THEN a ELSE "server"

IsEmpty(q) == queue[q].at # "pipe"
CanGet(q) == queue[q].at = "pipe" /\ q \notin jammed
Get(q) == CanGet(q) /\ queue' = [queue EXCEPT ![q] = Room]
Put(q, a, area) ==
  /\ queue[q].at = "room"
  /\ queue' = [queue EXCEPT ![q] = [at |-> "buffer", by |-> ProcessOf(a), area |-> area]]

\* Nobody notices that the server has a lock for a while, as nobody ends it:
\* its feeder threads write and release in one step.
FeedWrite(q) ==
  /\ queue[q].at = "buffer" /\ writing[q] = "none"
  /\ queue' = [queue EXCEPT ![q].at = "pipe", ![q].by = "none"]
  /\ writing' = [writing EXCEPT ![q] = IF queue[q].by \in Classifiers THEN queue[q].by ELSE @]
  /\ UNCHANGED <<jammed, pc, hand, first_frame, control, history>>

FeedRelease(q) ==
  /\ writing[q] \in Classifiers
  /\ writing' = [writing EXCEPT ![q] = "none"]
  /\ UNCHANGED <<queue, jammed, pc, hand, first_frame, control, history>>

-----------------------------------------------------------------------------
Goes(a, site, step) == pc' = [pc EXCEPT ![a] = <<site, step>>]
Moves(a, from, to) == pc[a] = from /\ pc' = [pc EXCEPT ![a] = to]
Idle == <<"idle", "">>

local == <<jammed, writing, hand, first_frame, control, history>>
Turns(a, from, to) == Moves(a, from, to) /\ UNCHANGED <<queue, local>>

Init ==
  /\ queue = [q \in Queues |-> IF q = "rectangle" THEN [Room EXCEPT !.at = "pipe", !.area = Nothing]
                               ELSE Room]
  /\ jammed = {}
  /\ writing = [q \in Queues |-> "none"]
  /\ pc = [a \in Actors |-> Idle]
  /\ hand = [a \in Actors |-> NoArea]
  /\ first_frame = [k \in Classifiers |-> NoArea]
  /\ p = "None" /\ clients = 0
  /\ terminated = {}
  /\ saves = 0 /\ modes = 0
  /\ saved = Nothing /\ added = 0 /\ lost = 0

-----------------------------------------------------------------------------
(* The area is taken, put back and used: to draw it, to mark it and every    *)
(* contour in the threads, to crop the frame in the processes.               *)
Sites == {"draw", "mark", "crop"}

\* What follows in the loop when the area has been looked at.  A process
\* converts the frame, which fails on nothing, and compares it with its first.
Compare(k, size) ==
  CASE size.height = 0 \/ size.width = 0 -> <<"exit", "">>
    [] first_frame[k] = NoArea -> <<"frame", "look">>
    [] size.height # first_frame[k].height -> <<"frame", "look">>
    [] size.width # first_frame[k].width -> <<"exit", "">>
    [] OTHER -> <<"detections", "put">>

Uses(a, site, size) ==
  /\ CASE site = "draw" -> Goes(a, "draw", "look")
       [] site = "mark" -> Goes(a, "mark", "look") \/ Goes(a, "input", "look")
       [] site = "crop" -> pc' = [pc EXCEPT ![a] = Compare(a, size)]
  /\ first_frame' = IF site = "crop" /\ first_frame[a] = NoArea /\ size.height * size.width # 0
                    THEN [first_frame EXCEPT ![a] = size] ELSE first_frame

BorrowLook(a, site) ==
  /\ pc[a] = <<site, "look">>
  /\ IF IsEmpty("rectangle") THEN Uses(a, site, Picture)
     ELSE Goes(a, site, "get") /\ UNCHANGED first_frame
  /\ UNCHANGED <<queue, jammed, writing, hand, control, history>>

BorrowGet(a, site) ==
  /\ Moves(a, <<site, "get">>, <<site, "put">>)
  /\ Get("rectangle")
  /\ hand' = [hand EXCEPT ![a] = queue["rectangle"].area]
  /\ UNCHANGED <<jammed, writing, first_frame, control, history>>

\* The frame is used before the area is put back.
BorrowPut_AfterUse(a, site) ==
  /\ pc[a] = <<site, "put">>
  /\ Uses(a, site, hand[a])
  /\ IF pc'[a] = <<"exit", "">> THEN UNCHANGED queue ELSE Put("rectangle", a, hand[a])
  /\ hand' = [hand EXCEPT ![a] = NoArea]
  /\ UNCHANGED <<jammed, writing, control, history>>

BorrowPut(a, site) ==
  /\ pc[a] = <<site, "put">>
  /\ Put("rectangle", a, hand[a])
  /\ Uses(a, site, hand[a])
  /\ hand' = [hand EXCEPT ![a] = NoArea]
  /\ UNCHANGED <<jammed, writing, control, history>>

Borrow(a, site) == BorrowLook(a, site) \/ BorrowGet(a, site) \/ BorrowPut(a, site)

-----------------------------------------------------------------------------
(* video_viewer_conf: a POST saves the area.                                 *)
Save(t) ==
  /\ Moves(t, Idle, <<"save", "look">>)
  /\ saves < MaxSaves /\ saves' = saves + 1
  /\ \E area \in Areas : hand' = [hand EXCEPT ![t] = area]
  /\ UNCHANGED <<queue, jammed, writing, first_frame, p, clients, terminated, modes, history>>

SaveLook(t) ==
  /\ pc[t] = <<"save", "look">>
  /\ IF IsEmpty("rectangle")
     THEN Goes(t, "save", "put") /\ added' = added + 1
     ELSE Goes(t, "save", "get") /\ UNCHANGED added
  /\ UNCHANGED <<queue, jammed, writing, hand, first_frame, control, saved, lost>>

SaveGet_NoGet(t) ==
  /\ Moves(t, <<"save", "get">>, <<"save", "put">>)
  /\ UNCHANGED <<queue, jammed, writing, hand, first_frame, control, history>>

SaveGet(t) ==
  /\ Moves(t, <<"save", "get">>, <<"save", "put">>)
  /\ Get("rectangle")
  /\ UNCHANGED <<jammed, writing, hand, first_frame, control, history>>

SavePut(t) ==
  /\ Moves(t, <<"save", "put">>, Idle)
  /\ Put("rectangle", t, hand[t])
  /\ saved' = hand[t]
  /\ hand' = [hand EXCEPT ![t] = NoArea]
  /\ UNCHANGED <<jammed, writing, first_frame, control, added, lost>>

-----------------------------------------------------------------------------
(* The threads that send pictures: a GET of either page, or a POST below.    *)
View(t) == Turns(t, Idle, <<"input", "look">>)
Draw(t) == Turns(t, Idle, <<"draw", "look">>)

\* The browser has gone, which a thread finds out when it yields a picture.
Leave(t) == \E site \in {"input", "draw"} : Turns(t, <<site, "look">>, Idle)

InputLook(t) ==
  Turns(t, <<"input", "look">>, IF IsEmpty("input_queue") THEN <<"input", "put">>
                                ELSE <<"output", "look">>)

InputPut(t) ==
  /\ Moves(t, <<"input", "put">>, <<"output", "look">>)
  /\ Put("input_queue", t, NoArea)
  /\ UNCHANGED local

OutputLook(t) ==
  Turns(t, <<"output", "look">>, IF IsEmpty("output_queue") THEN <<"mark", "look">>
                                 ELSE <<"output", "get">>)

OutputGet(t) ==
  /\ Moves(t, <<"output", "get">>, <<"mark", "look">>)
  /\ Get("output_queue")
  /\ UNCHANGED local

-----------------------------------------------------------------------------
(* video_viewer: a POST turns the system on or off.                          *)
Alive(k) == pc[k] # Idle

Post(t, to, change) ==
  /\ Moves(t, Idle, to)
  /\ modes < MaxModes /\ modes' = modes + 1
  /\ clients' = clients + change
  /\ UNCHANGED <<queue, jammed, writing, hand, first_frame, p, terminated, saves, history>>

On(t) == Post(t, <<"on", "check">>, 1)

OnCheck(t) ==
  Turns(t, <<"on", "check">>, IF p \in Classifiers /\ Alive(p) THEN <<"input", "look">>
                              ELSE <<"on", "start">>)

\* Another thread may have started one since the check.
OnStart(t) ==
  /\ pc[t] = <<"on", "start">>
  /\ \E k \in Classifiers :
       /\ ~Alive(k)
       /\ p' = k
       /\ pc' = [pc EXCEPT ![t] = <<"input", "look">>, ![k] = <<"frame", "look">>]
  /\ UNCHANGED <<queue, jammed, writing, hand, first_frame, clients, terminated, saves, modes,
                 history>>

\* The button of index.html says off only after on.
Off(t) ==
  /\ clients > 0
  /\ Post(t, IF clients - 1 # 0 THEN <<"input", "look">> ELSE <<"off", "terminate">>, -1)

\* terminate does nothing to a process that has ended.
OffTerminate(t) ==
  /\ Moves(t, <<"off", "terminate">>, Idle)
  /\ terminated' = terminated \cup {k \in {p} \cap Classifiers : Alive(k)}
  /\ UNCHANGED <<queue, jammed, writing, hand, first_frame, p, clients, saves, modes, history>>

Thread(t) ==
  \/ \E site \in {"draw", "mark"} : Borrow(t, site)
  \/ Save(t) \/ SaveLook(t) \/ SaveGet(t) \/ SavePut(t)
  \/ View(t) \/ Draw(t) \/ Leave(t)
  \/ InputLook(t) \/ InputPut(t) \/ OutputLook(t) \/ OutputGet(t)
  \/ On(t) \/ OnCheck(t) \/ OnStart(t) \/ Off(t) \/ OffTerminate(t)

-----------------------------------------------------------------------------
(* classify_frame *)
FrameLook(k) ==
  ~IsEmpty("input_queue") /\ Turns(k, <<"frame", "look">>, <<"frame", "get">>)

FrameGet(k) ==
  /\ Moves(k, <<"frame", "get">>, <<"crop", "look">>)
  /\ Get("input_queue")
  /\ UNCHANGED local

DetectionsPut(k) ==
  /\ Moves(k, <<"detections", "put">>, <<"frame", "look">>)
  /\ Put("output_queue", k, NoArea)
  /\ UNCHANGED local

Dies(k) ==
  /\ pc' = [pc EXCEPT ![k] = Idle]
  /\ hand' = [hand EXCEPT ![k] = NoArea]
  /\ first_frame' = [first_frame EXCEPT ![k] = NoArea]
  /\ terminated' = terminated \ {k}
  /\ UNCHANGED <<p, clients, saves, modes, saved, added>>

\* An error ends the process when its feeder threads have done.
Exit(k) ==
  /\ pc[k] = <<"exit", "">>
  /\ \A q \in Queues : queue[q].by # k /\ writing[q] # k
  /\ Dies(k)
  /\ UNCHANGED <<queue, jammed, writing, lost>>

\* What dies with a process: the items in places, the locks of get of the
\* queues jams, and the write locks that it has, or takes in the queues stalls.
Takes(k, places, jams, stalls) ==
  /\ queue' = [q \in Queues |-> IF q \in places THEN Gone ELSE queue[q]]
  /\ jammed' = jammed \cup jams
  /\ writing' = [q \in Queues |-> IF writing[q] = k \/ q \in stalls THEN "dead" ELSE writing[q]]
  /\ lost' = lost + Cardinality({"rectangle"} \cap places)
                  + (IF hand[k] # NoArea THEN 1 ELSE 0)

\* SIGTERM takes what the process holds: an area in hand; items its feeder
\* threads have not written, one of them perhaps between lock and write; and in
\* a get the lock, the item and its place, or one of both.
Killed(k) ==
  /\ k \in terminated
  /\ LET unfed == {q \in Queues : queue[q].by = k}
         reading == {q \in Queues \ jammed : pc[k] \in {<<"frame", "get">>, <<"crop", "get">>}
                                              /\ q = QueueOf(pc[k][1])}
         received == {q \in reading : CanGet(q)}
     IN \E taken \in {{}, received}, jams \in {{}, reading},
           stalls \in SUBSET {q \in unfed : writing[q] = "none"} :
          Takes(k, unfed \cup taken, jams, stalls)
  /\ Dies(k)

Classifier(k) ==
  FrameLook(k) \/ FrameGet(k) \/ Borrow(k, "crop") \/ DetectionsPut(k) \/ Exit(k) \/ Killed(k)

Next ==
  \/ \E q \in Queues : FeedWrite(q) \/ FeedRelease(q)
  \/ \E t \in Threads : Thread(t)
  \/ \E k \in Classifiers : Classifier(k)

Spec == Init /\ [][Next]_vars

-----------------------------------------------------------------------------
(* What the programs should be right about. *)
UsedAt == {"idle", "exit", "on", "off", "input", "output", "draw", "mark", "save",
           "frame", "detections", "crop"}
Steps == {"look", "get", "put", "check", "start", "terminate", ""}

TypeOK ==
  /\ queue \in [Queues -> [at : {"room", "buffer", "pipe", "gone"},
                           by : Classifiers \cup {"server", "none"}, area : Sizes \cup {NoArea}]]
  /\ jammed \subseteq Queues
  /\ writing \in [Queues -> Classifiers \cup {"none", "dead"}]
  /\ pc \in [Actors -> UsedAt \X Steps]
  /\ hand \in [Actors -> Areas \cup {Nothing, NoArea}]
  /\ first_frame \in [Classifiers -> Areas \cup {Picture, NoArea}]
  /\ p \in Classifiers \cup {"None"} /\ clients \in 0..modes
  /\ terminated \subseteq Classifiers
  /\ saves \in 0..MaxSaves /\ modes \in 0..MaxModes
  /\ saved \in Areas \cup {Nothing} /\ added \in 0..saves /\ lost \in Nat

\* The areas there are: one may lie in the queue, others are about to be put.
HasArea == queue["rectangle"].at \in {"buffer", "pipe"}
AtArea(a, steps) == pc[a][2] \in steps /\ QueueOf(pc[a][1]) = "rectangle"
Holders == {a \in Actors : AtArea(a, {"put"})}

\* Beside the types: looks, gets and puts of a dozen users neither lose the
\* area nor make a second one, but for the two ways the code leaves open: a
\* save that finds the queue empty while another has the area adds one, and a
\* process ended by "off" may take one along.  If no save added one, the area
\* everybody gets is the one saved last (video_viewer_conf, draw_area,
\* process_frame, classify_frame).
AreaIsSaved ==
  /\ TypeOK
  /\ Cardinality(Holders) + (IF HasArea THEN 1 ELSE 0) = 1 + added - lost
  /\ added = 0 => /\ HasArea => queue["rectangle"].area = saved
                  /\ \A a \in Holders : pc[a][1] # "save" => hand[a] = saved

-----------------------------------------------------------------------------
(* Liveness.  The feeder threads write what they have and release their lock, *)
(* an area in hand is put back; and of those that wait for the lock of get,   *)
(* each has it in time.                                                       *)
AreaGet(a) == SaveGet(a) \/ \E site \in Sites : BorrowGet(a, site)
AreaPut(a) == SavePut(a) \/ \E site \in Sites : BorrowPut(a, site)

Fairness ==
  /\ WF_vars(\/ FeedWrite("rectangle") \/ FeedRelease("rectangle")
             \/ \E a \in Actors : AreaPut(a))
  /\ \A a \in Actors : SF_vars(AreaGet(a))

FairSpec == Spec /\ Fairness

\* Whoever waits for the area, or to put it back, goes on, unless a save added
\* a second one, for which there is no place, or a process that was ended took
\* the area or one of the two locks of its queue along.
AreaComesBack ==
  \A a \in Actors :
    AtArea(a, {"get", "put"}) ~>
      \/ ~AtArea(a, {"get", "put"})
      \/ added > 0 \/ lost > 0
      \/ "rectangle" \in jammed \/ writing["rectangle"] = "dead"
=============================================================================
