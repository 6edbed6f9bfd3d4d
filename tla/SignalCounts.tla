--------------------------- MODULE SignalCounts ---------------------------
(***************************************************************************)
(* A parent and its children: Operating-systems/lab4/zad2.  The parent     *)
(* forks N children; each works for a while and asks with SIGUSR1 to go    *)
(* on; the parent lets nobody go on before K have asked, and ends when it  *)
(* has counted the end of every child.  The signals are standard ones: one *)
(* that comes while an equal one is pending is gone.  Handlers interrupt   *)
(* the parent anywhere, one another too, but not themselves.               *)
(***************************************************************************)
EXTENDS Integers, FiniteSets, SequencesExt

CONSTANT N                \* children (argv[1])

ASSUME NAssumption == N \in Nat \ {0}

Kids == 1..N              \* in the order of the forks; 0 is no child

VARIABLES
  K,                      \* argv[2]
  up, pc, forked,         \* the parent: is it there, its place in the loop of main, i
  pidSet,                 \* has pid been assigned a child's?
  n, loaded,              \* n, and the register that holds it in n++
  children, waitList,     \* children[], and wait_list[] with k its length
  stack,                  \* the handlers that are running, the innermost last
  usr, chld, real,        \* pending: the sender of SIGUSR1, SIGCHLD, real-time signals
  kid,                    \* where each child is
  lost, early             \* history: a signal was lost; n-- came while main forked

counts == <<n, loaded, children, waitList>>
pending == <<usr, chld, real>>
main == <<pc, forked, pidSet>>
history == <<lost, early>>
vars == <<K, up, pc, forked, pidSet, n, loaded, children, waitList, stack, usr, chld, real,
          kid, lost, early>>

Init ==
  /\ K \in 0..N
  /\ up = TRUE /\ pc = "fork" /\ forked = 0 /\ pidSet = FALSE
  /\ n = 0 /\ loaded = 0
  /\ children = [i \in 0..(N - 1) |-> 0] /\ waitList = <<>>
  /\ stack = <<>>
  /\ usr = 0 /\ chld = FALSE /\ real = 0
  /\ kid = [c \in Kids |-> "unborn"]
  /\ lost = FALSE /\ early = FALSE

-----------------------------------------------------------------------------
\* main, while no handler runs.
MainAt(from, to) == up /\ stack = <<>> /\ pc = from /\ pc' = to

Fork ==
  /\ MainAt("fork", "assign")
  /\ forked' = forked + 1
  /\ kid' = [kid EXCEPT ![forked + 1] = "asleep"]
  /\ UNCHANGED <<K, up, pidSet, counts, stack, pending, history>>

\* pid = what fork returned.
Assign ==
  /\ MainAt("assign", "store")
  /\ pidSet' = TRUE
  /\ UNCHANGED <<K, up, forked, counts, stack, pending, kid, history>>

\* children[n] = pid.  What is written outside the array is not found again.
Store ==
  /\ MainAt("store", "load")
  /\ children' = [i \in 0..(N - 1) |-> IF i = n THEN forked ELSE children[i]]
  /\ UNCHANGED <<K, up, forked, pidSet, n, loaded, waitList, stack, pending, kid, history>>

\* n++ reads n and writes it back: an n-- of a handler in between is undone.
Load ==
  /\ MainAt("load", "write")
  /\ loaded' = n
  /\ UNCHANGED <<K, up, forked, pidSet, n, children, waitList, stack, pending, kid, history>>

Write ==
  /\ MainAt("write", IF forked = N THEN "wait" ELSE "fork")
  /\ n' = loaded + 1
  /\ UNCHANGED <<K, up, forked, pidSet, loaded, children, waitList, stack, pending, kid,
                 history>>

-----------------------------------------------------------------------------
\* Handlers.
Top == stack[Len(stack)]
TopIs(handler) == up /\ stack # <<>> /\ Top.handler = handler
ReplaceTop(frame) == stack' = Append(Front(stack), frame)
Return == stack' = Front(stack)
Exit == up' = FALSE /\ UNCHANGED stack

\* A signal that comes while handler_USR is in waitpid ends the waiting (there
\* is no SA_RESTART); one that comes just before waitpid does not.
Interrupted ==
  {stack} \cup (IF stack # <<>> /\ Top.handler = "USR"
                THEN {Append(Front(stack), [Top EXCEPT !.waitsFor = 0])} ELSE {})

\* A handler is not entered while it runs.
Enter(handler, frame) ==
  /\ up
  /\ \A i \in DOMAIN stack : stack[i].handler # handler
  /\ \E below \in Interrupted : stack' = Append(below, frame)

USRFrame(release) == [handler |-> "USR", todo |-> release, waitsFor |-> 0]

\* The Kth request lets everybody on the list go.
Allowed_LastForgotten(list) == IF Len(list) = K THEN Front(list) ELSE <<>>

Allowed(list) == IF Len(list) = K THEN list ELSE <<>>

\* handler_USR up to its calls of kill.  A request after the Kth lets its sender
\* go.  Before pid is first assigned the parent takes itself for a child, and
\* the request is lost.
handler_USR ==
  /\ usr # 0 /\ usr' = 0
  /\ IF ~pidSet
     THEN Enter("USR", USRFrame(<<>>)) /\ lost' = TRUE /\ UNCHANGED waitList
     ELSE /\ IF Len(waitList) >= K
             THEN Enter("USR", USRFrame(<<usr>>)) /\ UNCHANGED waitList
             ELSE /\ Enter("USR", USRFrame(Allowed(Append(waitList, usr))))
                  /\ waitList' = Append(waitList, usr)
          /\ UNCHANGED lost
  /\ UNCHANGED <<K, up, main, n, loaded, children, chld, real, kid, early>>

\* kill(c, SIGUSR1), and waitpid(c) begins.
LetGo ==
  /\ TopIs("USR") /\ Top.waitsFor = 0 /\ Top.todo # <<>>
  /\ LET c == Head(Top.todo)
     IN /\ kid' = [kid EXCEPT ![c] = IF @ = "waiting" THEN "released" ELSE @]
        /\ ReplaceTop([Top EXCEPT !.todo = Tail(@), !.waitsFor = c])
  /\ UNCHANGED <<K, up, main, counts, pending, history>>

Waited ==
  /\ TopIs("USR") /\ Top.waitsFor # 0
  /\ kid[Top.waitsFor] = "gone"
  /\ ReplaceTop([Top EXCEPT !.waitsFor = 0])
  /\ UNCHANGED <<K, up, main, counts, pending, kid, history>>

USRReturns ==
  /\ TopIs("USR") /\ Top.waitsFor = 0 /\ Top.todo = <<>>
  /\ Return
  /\ UNCHANGED <<K, up, main, counts, pending, kid, history>>

\* handler_CHLD counts one child whoever has ended, and however many have.
\* (removeChildFromArr is given the status and finds no child of that number.)
handler_CHLD ==
  /\ chld /\ chld' = FALSE
  /\ Enter("CHLD", [handler |-> "CHLD", counted |-> FALSE])
  /\ UNCHANGED <<K, up, main, counts, usr, real, kid, history>>

CountDown ==
  /\ TopIs("CHLD") /\ ~Top.counted
  /\ n' = n - 1
  /\ early' = (early \/ pc # "wait")
  /\ ReplaceTop([Top EXCEPT !.counted = TRUE])
  /\ UNCHANGED <<K, up, main, loaded, children, waitList, pending, kid, lost>>

TestCount ==
  /\ TopIs("CHLD") /\ Top.counted
  /\ IF n = 0 THEN Exit ELSE Return /\ UNCHANGED up
  /\ UNCHANGED <<K, main, counts, pending, kid, history>>

\* handler_REAL only prints, but it ends a waitpid.
handler_REAL ==
  /\ up /\ real > 0 /\ real' = real - 1
  /\ stack' \in Interrupted
  /\ UNCHANGED <<K, up, main, counts, usr, chld, kid, history>>

-----------------------------------------------------------------------------
\* The children.
PendCHLD == chld' = TRUE /\ lost' = (lost \/ chld)

Ask(c) ==
  /\ up /\ kid[c] = "asleep"
  /\ kid' = [kid EXCEPT ![c] = "waiting"]
  /\ usr' = IF usr = 0 THEN c ELSE usr
  /\ lost' = (lost \/ usr # 0)
  /\ UNCHANGED <<K, up, main, counts, stack, chld, real, early>>

\* sigsuspend lets SIGUSR1 in; the child's handler answers with a real-time
\* signal of a random number, all of which are kept.
Answer(c) ==
  /\ up /\ kid[c] = "released"
  /\ kid' = [kid EXCEPT ![c] = "leaving"]
  /\ real' = real + 1
  /\ UNCHANGED <<K, up, main, counts, stack, usr, chld, history>>

Leave(c) ==
  /\ up /\ kid[c] = "leaving"
  /\ kid' = [kid EXCEPT ![c] = "gone"]
  /\ PendCHLD
  /\ UNCHANGED <<K, up, main, counts, stack, usr, real, early>>

childProcedure(c) == Ask(c) \/ Answer(c) \/ Leave(c)

-----------------------------------------------------------------------------
\* SIGINT, which does nothing before pid is assigned.
handler_INT ==
  /\ pidSet
  /\ Enter("INT", [handler |-> "INT", at |-> 0])
  /\ UNCHANGED <<K, up, main, counts, pending, kid, history>>

Kill(c) ==
  IF c = 0 \/ kid[c] = "gone" THEN UNCHANGED <<kid, chld, lost>>
  ELSE kid' = [kid EXCEPT ![c] = "gone"] /\ PendCHLD

\* The parent kills everyone in children[] and waits for them; then it exits.
killEmAll_UpToCount ==
  /\ TopIs("INT")
  /\ \/ /\ Top.at < n
        /\ Kill(children[Top.at])
        /\ ReplaceTop([Top EXCEPT !.at = @ + 1])
        /\ UNCHANGED up
     \/ Top.at >= n /\ Exit /\ UNCHANGED <<kid, chld, lost>>
  /\ UNCHANGED <<K, main, counts, usr, real, early>>

killEmAll ==
  /\ TopIs("INT")
  /\ \/ /\ Top.at < N
        /\ Kill(children[Top.at])
        /\ ReplaceTop([Top EXCEPT !.at = @ + 1])
        /\ UNCHANGED up
     \/ Top.at = N /\ Exit /\ UNCHANGED <<kid, chld, lost>>
  /\ UNCHANGED <<K, main, counts, usr, real, early>>

-----------------------------------------------------------------------------
Main == Fork \/ Assign \/ Store \/ Load \/ Write

Handlers ==
  handler_USR \/ LetGo \/ Waited \/ USRReturns \/ handler_CHLD \/ CountDown \/ TestCount
    \/ handler_REAL \/ killEmAll

Ended == ~up /\ UNCHANGED vars

Next == Main \/ Handlers \/ (\E c \in Kids : childProcedure(c)) \/ handler_INT \/ Ended

Spec == Init /\ [][Next]_vars

\* Processes run and pending signals are delivered; nobody need press ^C.
Fairness ==
  /\ WF_vars(Main) /\ WF_vars(Handlers)
  /\ \A c \in Kids : WF_vars(childProcedure(c))

FairSpec == Spec /\ Fairness
-----------------------------------------------------------------------------
(* What the program should be right about. *)
\* Every child is let go and counted, and the parent ends, however the handlers
\* and main interrupt one another, unless a signal was merged with another or a
\* child's end was counted while main was still counting the children.
EndsUnlessLost == <>(~up \/ lost \/ early)

\* The parent that ends because it has counted everybody out ("Brak dzieci.
\* KONIEC"), or by SIGINT, leaves no child behind, although main and the handlers
\* count in the same n.  The exceptions: one child, while main has forked one it
\* has not counted; and after an n-- during the forks children[n] is a place in
\* use, so that killEmAll may miss the child that was there.
NoChildLeftBehind ==
  LET left == {c \in 1..forked : kid[c] # "gone"}
      counting == pc \in {"assign", "store", "load", "write"}
  IN ~up => \/ left = {}
            \/ Top.handler = "CHLD" /\ counting /\ Cardinality(left) = 1
            \/ Top.handler = "INT" /\ (early \/ (counting /\ left = {forked}))
=============================================================================
