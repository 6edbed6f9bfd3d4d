------------------------ MODULE SignalCountsProofs ------------------------
(***************************************************************************)
(* The parent of lab4/zad2 leaves no child behind, but in the cases that   *)
(* NoChildLeftBehind names, for any number of children.                    *)
(***************************************************************************)
EXTENDS SignalCounts, FiniteSetTheorems, TLAPS

Labels == {"fork", "assign", "store", "load", "write", "wait"}
KidStates == {"unborn", "asleep", "waiting", "released", "leaving", "gone"}

Frames ==
  [handler : {"USR"}, todo : Seq(Kids), waitsFor : 0..N]
    \cup [handler : {"CHLD"}, counted : BOOLEAN]
    \cup [handler : {"INT"}, at : 0..N]

\* main has forked a child and has not yet written n.
Counting == pc \in {"assign", "store", "load", "write"}

TypeInv ==
  /\ up \in BOOLEAN /\ chld \in BOOLEAN /\ early \in BOOLEAN
  /\ pc \in Labels
  /\ forked \in 0..N
  /\ pc = "fork" => forked < N
  /\ pc = "wait" => forked = N
  /\ Counting => forked > 0
  /\ n \in Int /\ loaded \in Int
  /\ children \in [0..(N - 1) -> 0..forked]
  /\ waitList \in Seq(Kids)
  /\ usr \in 0..N
  /\ kid \in [Kids -> KidStates]
  /\ stack \in Seq(Frames)

\* Who has not been forked does nothing.
BornInv == \A c \in Kids : kid[c] # "unborn" => c <= forked

\* No handler runs twice at a time; only a running handler ends the program.
StackInv ==
  /\ \A i, j \in DOMAIN stack : stack[i].handler = stack[j].handler => i = j
  /\ ~up => stack # <<>>

\* The children that are not counted out by their end.
Left == {c \in 1..forked : kid[c] # "gone"}

\* An end that handler_CHLD has still to count: pending, or in its hands.
Uncounted == \E i \in DOMAIN stack : stack[i].handler = "CHLD" /\ ~stack[i].counted

Owed == (IF chld THEN 1 ELSE 0) + (IF Uncounted THEN 1 ELSE 0)

\* n is never below what it should be: an n-- is for a child that is gone, and
\* an n-- that n++ undoes leaves n too high.
CountInv ==
  /\ Cardinality(Left) + Owed <= n + (IF Counting THEN 1 ELSE 0)
  /\ pc = "write" => Cardinality(Left) + Owed <= loaded + 1

\* Until an end is counted during the forks, n is the number of children that are
\* in the array, in the order of their forks.
Counted == IF Counting THEN forked - 1 ELSE forked

ArrayInv ==
  ~early =>
    /\ pc # "wait" => n = Counted
    /\ pc = "write" => loaded = n
    /\ \A i \in 0..(Counted - 1) : children[i] = i + 1
    /\ pc \in {"load", "write"} => children[forked - 1] = forked

\* Whom killEmAll has passed is gone.
KillInv ==
  \A i \in DOMAIN stack : stack[i].handler = "INT" =>
    \A j \in 0..(stack[i].at - 1) : children[j] # 0 => kid[children[j]] = "gone"

SignalInv ==
  TypeInv /\ StackInv /\ CountInv /\ ArrayInv /\ KillInv /\ NoChildLeftBehind

-----------------------------------------------------------------------------
(* The stack of handlers. *)

LEMMA Constants == N \in Nat /\ N > 0
BY NAssumption

LEMMA FrameKinds ==
  ASSUME NEW f \in Frames
  PROVE  /\ f.handler \in {"USR", "CHLD", "INT"}
         /\ f.handler = "USR" => f.todo \in Seq(Kids) /\ f.waitsFor \in 0..N
         /\ f.handler = "CHLD" => f.counted \in BOOLEAN
         /\ f.handler = "INT" => f.at \in 0..N
BY Constants DEF Frames

\* A frame with another value of one field.
LEMMA WaitsForSet ==
  ASSUME NEW f \in Frames, f.handler = "USR", NEW w \in 0..N
  PROVE  [f EXCEPT !.waitsFor = w] \in Frames /\ [f EXCEPT !.waitsFor = w].handler = "USR"
<1>1. f \in [handler : {"USR"}, todo : Seq(Kids), waitsFor : 0..N]
  BY DEF Frames
<1>2. /\ [f EXCEPT !.waitsFor = w] \in [handler : {"USR"}, todo : Seq(Kids), waitsFor : 0..N]
      /\ [f EXCEPT !.waitsFor = w].handler = "USR"
  BY <1>1
<1> QED BY <1>2 DEF Frames

\* The last frame, the rest, and a stack with another frame on the rest.
LEMMA TopFacts ==
  ASSUME stack \in Seq(Frames), stack # <<>>
  PROVE  /\ Len(stack) \in Nat /\ Len(stack) > 0
         /\ Len(stack) \in DOMAIN stack /\ Top = stack[Len(stack)] /\ Top \in Frames
         /\ Front(stack) \in Seq(Frames) /\ Len(Front(stack)) = Len(stack) - 1
         /\ \A i \in DOMAIN Front(stack) :
              i \in DOMAIN stack /\ i # Len(stack) /\ Front(stack)[i] = stack[i]
         /\ \A i \in DOMAIN stack : i # Len(stack) => i \in DOMAIN Front(stack)
<1>1. Len(stack) \in Nat /\ Len(stack) > 0 /\ DOMAIN stack = 1..Len(stack)
  OBVIOUS
<1>2. Len(stack) \in DOMAIN stack
  BY <1>1
<1>3. Top = stack[Len(stack)] /\ Top \in Frames
  BY <1>2 DEF Top
<1>4. /\ Front(stack) \in Seq(Frames) /\ Len(Front(stack)) = Len(stack) - 1
      /\ \A i \in 1..(Len(stack) - 1) : Front(stack)[i] = stack[i]
  BY <1>1 DEF Front
<1>5. DOMAIN Front(stack) = 1..(Len(stack) - 1)
  BY <1>1, <1>4
<1>6. /\ \A i \in DOMAIN Front(stack) :
           i \in DOMAIN stack /\ i # Len(stack) /\ Front(stack)[i] = stack[i]
      /\ \A i \in DOMAIN stack : i # Len(stack) => i \in DOMAIN Front(stack)
  BY <1>1, <1>4, <1>5
<1> QED BY <1>1, <1>2, <1>3, <1>4, <1>6

LEMMA Replaced ==
  ASSUME stack \in Seq(Frames), stack # <<>>, NEW f \in Frames
  PROVE  \A s : s = Append(Front(stack), f) =>
           /\ s \in Seq(Frames) /\ DOMAIN s = DOMAIN stack
           /\ s # <<>>
           /\ s[Len(stack)] = f
           /\ \A i \in DOMAIN stack : i # Len(stack) => s[i] = stack[i]
<1> DEFINE r == Front(stack)
<1>1. r \in Seq(Frames) /\ Len(r) = Len(stack) - 1 /\ Len(stack) \in Nat
      /\ (\A i \in DOMAIN r : i # Len(stack) /\ r[i] = stack[i])
  BY TopFacts
<1> SUFFICES ASSUME NEW s, s = Append(r, f)
             PROVE  /\ s \in Seq(Frames) /\ DOMAIN s = DOMAIN stack
                    /\ s # <<>>
                    /\ s[Len(stack)] = f
                    /\ \A i \in DOMAIN stack : i # Len(stack) => s[i] = stack[i]
  OBVIOUS
<1> HIDE DEF r
<1> QED BY <1>1

\* A signal that comes changes no more than how long handler_USR waits.
LEMMA InterruptedIsLike ==
  ASSUME stack \in Seq(Frames), NEW s \in Interrupted
  PROVE  /\ s \in Seq(Frames) /\ DOMAIN s = DOMAIN stack /\ Len(s) = Len(stack)
         /\ \A i \in DOMAIN stack :
              /\ s[i].handler = stack[i].handler
              /\ stack[i].handler # "USR" => s[i] = stack[i]
<1>1. CASE s = stack
  BY <1>1
<1>2. ASSUME stack # <<>>, Top.handler = "USR",
             s = Append(Front(stack), [Top EXCEPT !.waitsFor = 0])
      PROVE  /\ s \in Seq(Frames) /\ DOMAIN s = DOMAIN stack /\ Len(s) = Len(stack)
             /\ \A i \in DOMAIN stack :
                  /\ s[i].handler = stack[i].handler
                  /\ stack[i].handler # "USR" => s[i] = stack[i]
  <2>1. 0 \in 0..N
    BY Constants
  <2>2. Top = stack[Len(stack)] /\ Len(stack) \in DOMAIN stack /\ Top \in Frames
    BY <1>2, TopFacts
  <2>3. PICK f \in Frames : f.handler = "USR" /\ s = Append(Front(stack), f)
    BY <1>2, <2>1, <2>2, WaitsForSet
  <2>4. stack # <<>>
    BY <1>2
  <2>5. stack[Len(stack)].handler = "USR"
    BY <1>2, <2>2
  <2>6. /\ s \in Seq(Frames) /\ DOMAIN s = DOMAIN stack
        /\ s[Len(stack)] = f
        /\ \A i \in DOMAIN stack : i # Len(stack) => s[i] = stack[i]
    <3>1. \A z : z = Append(Front(stack), f) =>
           /\ z \in Seq(Frames) /\ DOMAIN z = DOMAIN stack
           /\ z # <<>>
           /\ z[Len(stack)] = f
           /\ \A i \in DOMAIN stack : i # Len(stack) => z[i] = stack[i]
      BY <2>4, Replaced, Zenon
    <3> QED BY <3>1, <2>3, Zenon
  <2>7. Len(s) = Len(stack)
    BY <2>6
  <2> QED BY <2>2, <2>3, <2>5, <2>6, <2>7
<1> QED BY <1>1, <1>2 DEF Interrupted

Unique(s) == \A i, j \in DOMAIN s : s[i].handler = s[j].handler => i = j

\* A handler is entered: its frame is the last, and the others are as they were.
LEMMA Entered ==
  ASSUME TypeInv, StackInv, NEW h, NEW f \in Frames, f.handler = h, Enter(h, f)
  PROVE  /\ stack' \in Seq(Frames) /\ Unique(stack') /\ up
         /\ Len(stack) + 1 \in DOMAIN stack' /\ stack'[Len(stack) + 1] = f
         /\ DOMAIN stack' = DOMAIN stack \cup {Len(stack) + 1}
         /\ Len(stack) + 1 \notin DOMAIN stack
         /\ \A i \in DOMAIN stack : 
              /\ stack'[i].handler = stack[i].handler
              /\ stack[i].handler # "USR" => stack'[i] = stack[i]
              /\ stack[i].handler # h
<1>1. up /\ (\A i \in DOMAIN stack : stack[i].handler # h)
  BY DEF Enter
<1>2. PICK below \in Interrupted : stack' = Append(below, f)
  BY DEF Enter
<1>3. stack \in Seq(Frames) /\ Len(stack) \in Nat /\ DOMAIN stack = 1..Len(stack)
  BY DEF TypeInv
<1>4. /\ below \in Seq(Frames) /\ DOMAIN below = DOMAIN stack /\ Len(below) = Len(stack)
      /\ \A i \in DOMAIN stack :
           /\ below[i].handler = stack[i].handler
           /\ stack[i].handler # "USR" => below[i] = stack[i]
  BY <1>3, InterruptedIsLike
<1>5. /\ stack' \in Seq(Frames) /\ DOMAIN stack' = 1..(Len(stack) + 1)
      /\ stack'[Len(stack) + 1] = f
      /\ \A i \in 1..Len(stack) : stack'[i] = below[i]
  BY <1>2, <1>3, <1>4
<1>6. \A i \in DOMAIN stack : stack'[i].handler = stack[i].handler /\ i \in DOMAIN stack'
  BY <1>3, <1>4, <1>5
<1>7. ASSUME NEW i \in DOMAIN stack', NEW j \in DOMAIN stack',
             stack'[i].handler = stack'[j].handler
      PROVE  i = j
  <2>1. i \in DOMAIN stack \/ i = Len(stack) + 1
    BY <1>3, <1>5
  <2>2. j \in DOMAIN stack \/ j = Len(stack) + 1
    BY <1>3, <1>5
  <2> QED BY <2>1, <2>2, <1>1, <1>5, <1>6, <1>7 DEF StackInv
<1>8. Unique(stack')
  BY <1>7 DEF Unique
<1>9. DOMAIN stack' = DOMAIN stack \cup {Len(stack) + 1} /\ Len(stack) + 1 \notin DOMAIN stack
  BY <1>3, <1>5
<1>10. \A i \in DOMAIN stack : stack[i].handler # "USR" => stack'[i] = stack[i]
  BY <1>3, <1>4, <1>5
<1> QED BY <1>1, <1>5, <1>6, <1>8, <1>9, <1>10

-----------------------------------------------------------------------------
(* How many children are not gone. *)

LEMMA LeftFinite ==
  ASSUME TypeInv
  PROVE  /\ IsFiniteSet(Left) /\ Cardinality(Left) \in Nat
         /\ Left \subseteq 1..forked /\ Left \subseteq Kids
<1>1. forked \in Int /\ forked \in Nat /\ forked <= N
  BY Constants DEF TypeInv
<1>2. IsFiniteSet(1..forked)
  BY <1>1, FS_Interval
<1>3. Left \subseteq 1..forked
  BY DEF Left
<1>4. IsFiniteSet(Left)
  BY <1>2, <1>3, FS_Subset
<1>5. 1..forked \subseteq Kids
  BY <1>1, Constants DEF Kids
<1> QED BY <1>3, <1>4, <1>5, FS_CardinalityType

LEMMA OwedNumber == Owed \in 0..2 /\ Owed' \in 0..2
BY DEF Owed

\* Nothing of the accounts changes if nobody goes and the frames of handler_CHLD
\* and handler_INT stay where they are.
Quiet ==
  /\ up /\ up' = up
  /\ UNCHANGED <<pc, forked, n, loaded, children, chld, early>>
  /\ stack' \in Seq(Frames) /\ Unique(stack')
  /\ \A i \in DOMAIN stack' : stack'[i].handler # "USR" =>
       i \in DOMAIN stack /\ stack[i] = stack'[i]
  /\ \A i \in DOMAIN stack : stack[i].handler # "USR" =>
       i \in DOMAIN stack' /\ stack'[i] = stack[i]
  /\ \A c \in Kids : kid'[c] = "gone" <=> kid[c] = "gone"

LEMMA QuietKeeps ==
  ASSUME SignalInv, TypeInv', Quiet
  PROVE  SignalInv'
<1>1. StackInv'
  BY DEF Quiet, StackInv, Unique
<1>2. Left' = Left
  <2>1. 1..forked \subseteq Kids
    BY Constants DEF SignalInv, TypeInv, Kids
  <2> QED BY <2>1 DEF Quiet, Left
<1>3. Uncounted' = Uncounted
  BY DEF Quiet, Uncounted
<1>4. Owed' = Owed
  BY <1>3 DEF Quiet, Owed
<1>5. Counting' = Counting
  BY DEF Quiet, Counting
<1>6. CountInv'
  BY <1>2, <1>4, <1>5 DEF SignalInv, CountInv, Quiet
<1>7. ArrayInv'
  BY <1>5 DEF SignalInv, ArrayInv, Quiet, Counted
<1>8. KillInv'
  <2> SUFFICES ASSUME NEW i \in DOMAIN stack', stack'[i].handler = "INT",
                      NEW j \in 0..(stack'[i].at - 1), children'[j] # 0
               PROVE  kid'[children'[j]] = "gone"
    BY DEF KillInv
  <2>1. i \in DOMAIN stack /\ stack[i] = stack'[i] /\ children' = children
    BY DEF Quiet
  <2>2. kid[children[j]] = "gone"
    BY <2>1 DEF SignalInv, KillInv
  <2>3. stack'[i] \in Frames
    BY DEF Quiet
  <2>4. stack'[i].at \in 0..N
    BY <2>3, FrameKinds
  <2>5. j \in 0..(N - 1)
    BY <2>4, Constants
  <2>6. children[j] \in 0..forked /\ forked \in 0..N /\ children[j] # 0
    BY <2>1, <2>5 DEF SignalInv, TypeInv
  <2>7. children[j] \in Kids
    BY <2>6, Constants DEF Kids
  <2> QED BY <2>1, <2>2, <2>7 DEF Quiet
<1>9. NoChildLeftBehind'
  BY DEF Quiet, NoChildLeftBehind
<1> QED BY <1>1, <1>6, <1>7, <1>8, <1>9 DEF SignalInv

-----------------------------------------------------------------------------
(* The steps of main, which no handler is in the middle of. *)

\* With no handler running there is nothing to say of one.
LEMMA NoFrames ==
  ASSUME stack = <<>>
  PROVE  /\ stack \in Seq(Frames) /\ Unique(stack) /\ ~Uncounted /\ KillInv
         /\ DOMAIN stack = {}
BY DEF Unique, Uncounted, KillInv

LEMMA MainStep ==
  ASSUME SignalInv, Main
  PROVE  SignalInv'
<1> USE DEF SignalInv
<1>1. up /\ up' = up /\ stack = <<>> /\ stack' = stack /\ chld' = chld /\ early' = early
      /\ waitList' = waitList /\ usr' = usr
  BY DEF Main, Fork, Assign, Store, Load, Write, MainAt, counts, pending, history
<1>2. stack' \in Seq(Frames) /\ Unique(stack') /\ ~Uncounted' /\ DOMAIN stack' = {}
  BY <1>1 DEF Unique, Uncounted
<1>3. StackInv' /\ KillInv' /\ NoChildLeftBehind'
  BY <1>1, <1>2 DEF StackInv, Unique, KillInv, NoChildLeftBehind
<1>4. Owed' = Owed
  BY <1>1, <1>2, NoFrames DEF Owed
<1>5. Owed \in 0..2 /\ Cardinality(Left) \in Nat
  BY OwedNumber, LeftFinite
<1>6. CASE Fork
  <2>1. /\ pc = "fork" /\ pc' = "assign" /\ forked' = forked + 1
        /\ kid' = [kid EXCEPT ![forked + 1] = "asleep"]
        /\ UNCHANGED <<n, loaded, children, waitList>>
        /\ forked \in Nat /\ forked < N
    BY <1>6, Constants DEF Fork, MainAt, counts, TypeInv
  <2>2. forked + 1 \in Kids
    BY <2>1, Constants DEF Kids
  <2>3. TypeInv'
    BY <1>1, <1>2, <2>1, <2>2, Constants DEF TypeInv, Counting, Labels, KidStates
  <2>4. Left' = Left \cup {forked + 1}
    <3>1. \A c \in 1..forked : c \in Kids /\ c # forked + 1 /\ kid'[c] = kid[c]
      BY <2>1, Constants DEF Kids, TypeInv
    <3>2. kid'[forked + 1] = "asleep"
      BY <2>1, <2>2 DEF TypeInv
    <3>3. 1..forked' = 1..forked \cup {forked + 1}
      BY <2>1
    <3> QED BY <3>1, <3>2, <3>3 DEF Left
  <2>5. forked + 1 \notin Left
    BY <2>1 DEF Left
  <2>6. Cardinality(Left') = Cardinality(Left) + 1
    BY <2>4, <2>5, LeftFinite, FS_AddElement
  <2>7. CountInv'
    BY <1>4, <1>5, <2>1, <2>6 DEF CountInv, Counting, TypeInv
  <2>8. ArrayInv'
    BY <1>1, <2>1 DEF ArrayInv, Counted, Counting, TypeInv
  <2> QED BY <1>3, <2>3, <2>7, <2>8
<1>7. CASE Assign \/ Load \/ Store \/ Write
  <2>1. /\ forked' = forked /\ kid' = kid /\ forked \in Nat
        /\ Counting
    BY <1>7, Constants
    DEF Assign, Load, Store, Write, MainAt, counts, TypeInv, Counting
  <2>2. Left' = Left
    BY <2>1 DEF Left
  <2>3. forked > 0 /\ n \in Int /\ loaded \in Int /\ forked - 1 \in 0..(N - 1)
    BY <2>1, Constants DEF TypeInv
  <2>4. CASE Assign
    <3>1. pc = "assign" /\ pc' = "store" /\ UNCHANGED <<n, loaded, children, waitList>>
      BY <2>4 DEF Assign, MainAt, counts
    <3>2. TypeInv'
      BY <1>1, <1>2, <2>1, <3>1 DEF TypeInv, Labels, Counting
    <3>3. CountInv'
      BY <1>4, <1>5, <2>2, <3>1 DEF CountInv, Counting
    <3>4. ArrayInv'
      BY <1>1, <2>1, <3>1 DEF ArrayInv, Counted, Counting
    <3> QED BY <1>3, <3>2, <3>3, <3>4
  <2>5. CASE Store
    <3>1. /\ pc = "store" /\ pc' = "load" /\ UNCHANGED <<n, loaded, waitList>>
          /\ children' = [i \in 0..(N - 1) |-> IF i = n THEN forked ELSE children[i]]
      BY <2>5 DEF Store, MainAt
    <3>2. children' \in [0..(N - 1) -> 0..forked]
      BY <2>1, <3>1 DEF TypeInv
    <3>3. TypeInv'
      BY <1>1, <1>2, <2>1, <3>1, <3>2 DEF TypeInv, Labels, Counting
    <3>4. CountInv'
      BY <1>4, <1>5, <2>2, <3>1 DEF CountInv, Counting
    <3>5. ASSUME ~early PROVE ArrayInv'
      <4>1. n = forked - 1 /\ \A i \in 0..(forked - 1 - 1) : children[i] = i + 1
        BY <3>1, <3>5 DEF ArrayInv, Counted, Counting
      <4>2. children'[forked - 1] = forked
        BY <4>1, <3>1, <2>3
      <4>3. \A i \in 0..(forked - 1 - 1) : children'[i] = i + 1
        <5> TAKE i \in 0..(forked - 1 - 1)
        <5>1. i \in 0..(N - 1) /\ i # n
          BY <4>1, <2>1, <2>3, Constants
        <5> QED BY <5>1, <4>1, <3>1
      <4> QED BY <1>1, <2>1, <3>1, <4>1, <4>2, <4>3 DEF ArrayInv, Counted, Counting
    <3>6. ArrayInv'
      BY <3>5, <1>1 DEF ArrayInv
    <3> QED BY <1>3, <3>3, <3>4, <3>6
  <2>6. CASE Load
    <3>1. /\ pc = "load" /\ pc' = "write" /\ UNCHANGED <<n, children, waitList>>
          /\ loaded' = n
      BY <2>6 DEF Load, MainAt
    <3>2. TypeInv'
      BY <1>1, <1>2, <2>1, <3>1 DEF TypeInv, Labels, Counting
    <3>3. CountInv'
      BY <1>4, <1>5, <2>2, <3>1 DEF CountInv, Counting
    <3>4. ArrayInv'
      BY <1>1, <2>1, <3>1 DEF ArrayInv, Counted, Counting
    <3> QED BY <1>3, <3>2, <3>3, <3>4
  <2>7. CASE Write
    <3>1. /\ pc = "write" /\ pc' = (IF forked = N THEN "wait" ELSE "fork")
          /\ UNCHANGED <<loaded, children, waitList>>
          /\ n' = loaded + 1
      BY <2>7 DEF Write, MainAt
    <3>2. TypeInv'
      BY <1>1, <1>2, <2>1, <3>1, Constants DEF TypeInv, Labels, Counting
    <3>3. CountInv'
      BY <1>4, <1>5, <2>2, <2>3, <3>1 DEF CountInv, Counting
    <3>4. ASSUME ~early PROVE ArrayInv'
      <4>1. /\ loaded = n /\ n = forked - 1 /\ children[forked - 1] = forked
            /\ \A i \in 0..(forked - 1 - 1) : children[i] = i + 1
        BY <3>1, <3>4 DEF ArrayInv, Counted, Counting
      <4>2. \A i \in 0..(forked - 1) : children[i] = i + 1
        <5> TAKE i \in 0..(forked - 1)
        <5>1. i = forked - 1 \/ i \in 0..(forked - 1 - 1)
          BY <2>1
        <5> QED BY <5>1, <4>1, <2>1
      <4>3. n' = forked
        BY <4>1, <3>1, <2>1
      <4> QED BY <1>1, <2>1, <3>1, <4>2, <4>3 DEF ArrayInv, Counted, Counting
    <3>5. ArrayInv'
      BY <3>4, <1>1 DEF ArrayInv
    <3> QED BY <1>3, <3>2, <3>3, <3>5
  <2> QED BY <1>7, <2>4, <2>5, <2>6, <2>7
<1> QED BY <1>6, <1>7 DEF Main

-----------------------------------------------------------------------------
(* The handlers that count nobody, and the children that do not go. *)

\* A frame of handler_USR in the place of another leaves the accounts alone.
LEMMA UsrReplaced ==
  ASSUME SignalInv, stack # <<>>, Top.handler = "USR",
         NEW f \in Frames, f.handler = "USR", ReplaceTop(f)
  PROVE  /\ stack' \in Seq(Frames) /\ Unique(stack')
         /\ \A i \in DOMAIN stack' : stack'[i].handler # "USR" =>
              i \in DOMAIN stack /\ stack[i] = stack'[i]
         /\ \A i \in DOMAIN stack : stack[i].handler # "USR" =>
              i \in DOMAIN stack' /\ stack'[i] = stack[i]
<1>1. stack \in Seq(Frames)
  BY DEF SignalInv, TypeInv
<1>2. /\ stack' \in Seq(Frames) /\ DOMAIN stack' = DOMAIN stack
      /\ stack'[Len(stack)] = f
      /\ \A i \in DOMAIN stack : i # Len(stack) => stack'[i] = stack[i]
  <2>1. \A z : z = Append(Front(stack), f) =>
           /\ z \in Seq(Frames) /\ DOMAIN z = DOMAIN stack
           /\ z # <<>>
           /\ z[Len(stack)] = f
           /\ \A i \in DOMAIN stack : i # Len(stack) => z[i] = stack[i]
    BY <1>1, Replaced, Zenon
  <2> QED BY <2>1, Zenon DEF ReplaceTop
<1>3. stack[Len(stack)].handler = "USR"
  BY <1>1, TopFacts
<1>4. \A i \in DOMAIN stack : stack'[i].handler = stack[i].handler
  BY <1>2, <1>3
<1>5. Unique(stack')
  BY <1>2, <1>4 DEF SignalInv, StackInv, Unique
<1> QED BY <1>2, <1>3, <1>4, <1>5

\* What an interrupt leaves, and a frame of handler_USR on top of it.
LEMMA UsrEntered ==
  ASSUME SignalInv, NEW f \in Frames, f.handler = "USR", Enter("USR", f)
  PROVE  /\ stack' \in Seq(Frames) /\ Unique(stack') /\ up
         /\ \A i \in DOMAIN stack' : stack'[i].handler # "USR" =>
              i \in DOMAIN stack /\ stack[i] = stack'[i]
         /\ \A i \in DOMAIN stack : stack[i].handler # "USR" =>
              i \in DOMAIN stack' /\ stack'[i] = stack[i]
<1>1. /\ stack' \in Seq(Frames) /\ Unique(stack') /\ up
      /\ Len(stack) + 1 \in DOMAIN stack' /\ stack'[Len(stack) + 1] = f
      /\ DOMAIN stack' = DOMAIN stack \cup {Len(stack) + 1}
      /\ \A i \in DOMAIN stack : 
           /\ stack'[i].handler = stack[i].handler
           /\ stack[i].handler # "USR" => stack'[i] = stack[i]
  BY Entered DEF SignalInv
<1> QED BY <1>1

LEMMA USRFrameType ==
  ASSUME NEW release \in Seq(Kids)
  PROVE  USRFrame(release) \in Frames /\ USRFrame(release).handler = "USR"
BY Constants DEF USRFrame, Frames

LEMMA handler_USRStep ==
  ASSUME SignalInv, handler_USR
  PROVE  SignalInv'
<1> USE DEF SignalInv
<1>1. PICK release \in Seq(Kids) : Enter("USR", USRFrame(release))
  <2>1. <<>> \in Seq(Kids) /\ usr \in Kids
    BY Constants DEF handler_USR, TypeInv, Kids
  <2>2. <<usr>> \in Seq(Kids) /\ Append(waitList, usr) \in Seq(Kids)
    BY <2>1 DEF TypeInv
  <2>3. Allowed(Append(waitList, usr)) \in Seq(Kids)
    BY <2>1, <2>2 DEF Allowed
  <2> QED BY <2>1, <2>2, <2>3 DEF handler_USR
<1>2. waitList' \in Seq(Kids)
  <2>1. usr \in Kids
    BY Constants DEF handler_USR, TypeInv, Kids
  <2>2. Append(waitList, usr) \in Seq(Kids)
    BY <2>1 DEF TypeInv
  <2> QED BY <2>2 DEF handler_USR, TypeInv
<1>3. /\ UNCHANGED <<up, pc, forked, n, loaded, children, chld, early, kid>> /\ usr' = 0
  BY DEF handler_USR, main, Enter
<1>4. /\ stack' \in Seq(Frames) /\ Unique(stack') /\ up
      /\ \A i \in DOMAIN stack' : stack'[i].handler # "USR" =>
           i \in DOMAIN stack /\ stack[i] = stack'[i]
      /\ \A i \in DOMAIN stack : stack[i].handler # "USR" =>
           i \in DOMAIN stack' /\ stack'[i] = stack[i]
  <2>1. USRFrame(release) \in Frames /\ USRFrame(release).handler = "USR"
    BY USRFrameType
  <2>2. PICK f \in Frames : f = USRFrame(release)
    BY <2>1
  <2>3. f.handler = "USR" /\ Enter("USR", f)
    BY <2>1, <2>2, <1>1
  <2> QED BY <2>3, UsrEntered, Zenon
<1>5. TypeInv'
  BY <1>2, <1>3, <1>4, Constants DEF TypeInv, Counting
<1>6. Quiet
  BY <1>3, <1>4 DEF Quiet
<1> QED BY <1>5, <1>6, QuietKeeps

\* handler_USR goes on: its frame changes, and at most a waiting child is let go.
LEMMA UsrContinues ==
  ASSUME SignalInv, up, stack # <<>>, Top.handler = "USR", NEW f \in Frames, f.handler = "USR",
         ReplaceTop(f), UNCHANGED <<up, main, counts, pending, early>>,
         kid' \in [Kids -> KidStates],
         \A c \in Kids : kid'[c] = "gone" <=> kid[c] = "gone"
  PROVE  SignalInv'
<1>1. /\ stack' \in Seq(Frames) /\ Unique(stack')
      /\ \A i \in DOMAIN stack' : stack'[i].handler # "USR" =>
           i \in DOMAIN stack /\ stack[i] = stack'[i]
      /\ \A i \in DOMAIN stack : stack[i].handler # "USR" =>
           i \in DOMAIN stack' /\ stack'[i] = stack[i]
  BY UsrReplaced, Zenon
<1>2. UNCHANGED <<up, pc, forked, n, loaded, children, waitList, usr, chld, early>>
  BY DEF main, counts, pending
<1>3. TypeInv'
  BY <1>1, <1>2 DEF SignalInv, TypeInv, Counting
<1>4. Quiet
  BY <1>1, <1>2 DEF Quiet
<1> QED BY <1>3, <1>4, QuietKeeps

LEMMA TopUSR ==
  ASSUME SignalInv, TopIs("USR")
  PROVE  /\ stack # <<>> /\ up /\ Top.handler = "USR" /\ Top \in Frames
         /\ Top \in [handler : {"USR"}, todo : Seq(Kids), waitsFor : 0..N]
         /\ Top.todo \in Seq(Kids) /\ Top.waitsFor \in 0..N
<1>1. stack # <<>> /\ up /\ Top.handler = "USR" /\ Top \in Frames
  BY TopFacts DEF TopIs, SignalInv, TypeInv
<1>2. PICK f \in Frames : f = Top
  BY <1>1
<1>3. f \in [handler : {"USR"}, todo : Seq(Kids), waitsFor : 0..N]
  BY <1>1, <1>2 DEF Frames
<1> QED BY <1>1, <1>2, <1>3

LEMMA LetGoStep ==
  ASSUME SignalInv, LetGo
  PROVE  SignalInv'
<1>1. TopIs("USR") /\ Top.todo # <<>>
  BY DEF LetGo
<1>2. /\ stack # <<>> /\ up /\ Top.handler = "USR" 
      /\ Top \in [handler : {"USR"}, todo : Seq(Kids), waitsFor : 0..N]
      /\ Top.todo \in Seq(Kids)
  BY <1>1, TopUSR
<1>3. PICK t \in [handler : {"USR"}, todo : Seq(Kids), waitsFor : 0..N] : t = Top
  BY <1>2
<1>4. PICK c \in Kids : c = Head(t.todo)
  BY <1>1, <1>2, <1>3
<1>5. c \in 0..N /\ Tail(t.todo) \in Seq(Kids)
  BY <1>1, <1>2, <1>3, Constants DEF Kids
<1>6. /\ kid' = [kid EXCEPT ![c] = IF @ = "waiting" THEN "released" ELSE @]
      /\ ReplaceTop([t EXCEPT !.todo = Tail(@), !.waitsFor = c])
      /\ UNCHANGED <<up, main, counts, pending, early>>
  BY <1>3, <1>4 DEF LetGo, history
<1>7. PICK f : f = [t EXCEPT !.todo = Tail(@), !.waitsFor = c]
  OBVIOUS
<1>8. f \in [handler : {"USR"}, todo : Seq(Kids), waitsFor : 0..N]
  BY <1>5, <1>7
<1>9. f \in Frames /\ f.handler = "USR" /\ ReplaceTop(f)
  BY <1>6, <1>7, <1>8 DEF Frames
<1>10. /\ kid' \in [Kids -> KidStates]
       /\ \A d \in Kids : kid'[d] = "gone" <=> kid[d] = "gone"
  BY <1>6 DEF SignalInv, TypeInv, KidStates
<1> QED BY <1>2, <1>6, <1>9, <1>10, UsrContinues

LEMMA WaitedStep ==
  ASSUME SignalInv, Waited
  PROVE  SignalInv'
<1>1. TopIs("USR") /\ UNCHANGED <<up, main, counts, pending, kid, early>>
      /\ ReplaceTop([Top EXCEPT !.waitsFor = 0])
  BY DEF Waited, history
<1>2. stack # <<>> /\ up /\ Top.handler = "USR" /\ Top \in Frames
  BY <1>1, TopUSR
<1>3. PICK t \in Frames : t = Top
  BY <1>2
<1>4. 0 \in 0..N
  BY Constants
<1>5. [t EXCEPT !.waitsFor = 0] \in Frames /\ [t EXCEPT !.waitsFor = 0].handler = "USR"
  BY <1>2, <1>3, <1>4, WaitsForSet
<1>6. PICK f \in Frames : f = [t EXCEPT !.waitsFor = 0]
  BY <1>5
<1>7. f.handler = "USR" /\ ReplaceTop(f)
  BY <1>1, <1>3, <1>5, <1>6
<1>8. /\ kid' \in [Kids -> KidStates]
      /\ \A d \in Kids : kid'[d] = "gone" <=> kid[d] = "gone"
  BY <1>1 DEF SignalInv, TypeInv
<1> QED BY <1>1, <1>2, <1>7, <1>8, UsrContinues

\* The last frame is gone and the others are as they were.
LEMMA Returned ==
  ASSUME SignalInv, stack # <<>>, Return
  PROVE  /\ stack' \in Seq(Frames) /\ Unique(stack')
         /\ \A i \in DOMAIN stack' :
              i \in DOMAIN stack /\ i # Len(stack) /\ stack'[i] = stack[i]
         /\ \A i \in DOMAIN stack : i # Len(stack) => i \in DOMAIN stack'
         /\ Top = stack[Len(stack)] /\ Len(stack) \in DOMAIN stack
<1>1. stack \in Seq(Frames) /\ stack' = Front(stack)
  BY DEF SignalInv, TypeInv, Return
<1>2. /\ stack' \in Seq(Frames)
      /\ \A i \in DOMAIN stack' :
           i \in DOMAIN stack /\ i # Len(stack) /\ stack'[i] = stack[i]
      /\ \A i \in DOMAIN stack : i # Len(stack) => i \in DOMAIN stack'
      /\ Top = stack[Len(stack)] /\ Len(stack) \in DOMAIN stack
  BY <1>1, TopFacts
<1>3. Unique(stack')
  BY <1>2 DEF SignalInv, StackInv, Unique
<1> QED BY <1>2, <1>3

LEMMA USRReturnsStep ==
  ASSUME SignalInv, USRReturns
  PROVE  SignalInv'
<1>1. TopIs("USR") /\ Return /\ UNCHANGED <<up, main, counts, pending, kid, early>>
  BY DEF USRReturns, history
<1>2. stack # <<>> /\ up /\ Top.handler = "USR"
  BY <1>1, TopUSR
<1>3. /\ stack' \in Seq(Frames) /\ Unique(stack')
      /\ \A i \in DOMAIN stack' :
           i \in DOMAIN stack /\ i # Len(stack) /\ stack'[i] = stack[i]
      /\ \A i \in DOMAIN stack : i # Len(stack) => i \in DOMAIN stack'
      /\ Top = stack[Len(stack)]
  BY <1>1, <1>2, Returned
<1>4. UNCHANGED <<up, pc, forked, n, loaded, children, waitList, usr, chld, early>>
  BY <1>1 DEF main, counts, pending
<1>5. TypeInv'
  BY <1>1, <1>3, <1>4 DEF SignalInv, TypeInv, Counting
<1>6. Quiet
  BY <1>1, <1>2, <1>3, <1>4 DEF Quiet
<1> QED BY <1>5, <1>6, QuietKeeps

LEMMA handler_REALStep ==
  ASSUME SignalInv, handler_REAL
  PROVE  SignalInv'
<1>1. /\ up /\ stack' \in Interrupted 
      /\ UNCHANGED <<up, pc, forked, n, loaded, children, waitList, usr, chld, early, kid>>
  BY DEF handler_REAL, main, counts, history
<1>2. stack \in Seq(Frames)
  BY DEF SignalInv, TypeInv
<1>3. /\ stack' \in Seq(Frames) /\ DOMAIN stack' = DOMAIN stack
      /\ \A i \in DOMAIN stack :
           /\ stack'[i].handler = stack[i].handler
           /\ stack[i].handler # "USR" => stack'[i] = stack[i]
  BY <1>1, <1>2, InterruptedIsLike, Zenon
<1>4. Unique(stack')
  BY <1>3 DEF SignalInv, StackInv, Unique
<1>5. TypeInv'
  BY <1>1, <1>3 DEF SignalInv, TypeInv, Counting
<1>6. Quiet
  BY <1>1, <1>3, <1>4 DEF Quiet
<1> QED BY <1>5, <1>6, QuietKeeps

\* A child that asks or answers is not gone before or after.
LEMMA ChildTalks ==
  ASSUME SignalInv, NEW c \in Kids, Ask(c) \/ Answer(c)
  PROVE  SignalInv'
<1>1. /\ up /\ UNCHANGED <<up, pc, forked, n, loaded, children, waitList, stack, chld, early>>
      /\ kid' \in [Kids -> KidStates]
      /\ \A d \in Kids : kid'[d] = "gone" <=> kid[d] = "gone"
  BY DEF Ask, Answer, main, counts, history, SignalInv, TypeInv, KidStates
<1>2. usr' \in 0..N
  BY Constants DEF Ask, Answer, SignalInv, TypeInv, Kids
<1>3. stack' \in Seq(Frames) /\ Unique(stack')
  BY <1>1 DEF SignalInv, TypeInv, StackInv, Unique
<1>4. TypeInv'
  BY <1>1, <1>2 DEF SignalInv, TypeInv, Counting
<1>5. Quiet
  BY <1>1, <1>3 DEF Quiet
<1> QED BY <1>4, <1>5, QuietKeeps

-----------------------------------------------------------------------------
(* handler_CHLD. *)

\* The one frame of handler_CHLD is on top: what it says is what there is to say.
LEMMA TopCHLD ==
  ASSUME SignalInv, TopIs("CHLD")
  PROVE  /\ stack # <<>> /\ up /\ Top \in Frames /\ Top = stack[Len(stack)]
         /\ Top.handler = "CHLD" /\ Top.counted \in BOOLEAN
         /\ Len(stack) \in DOMAIN stack
         /\ \A i \in DOMAIN stack : stack[i].handler = "CHLD" => i = Len(stack)
         /\ Uncounted <=> ~Top.counted
<1>1. stack # <<>> /\ up /\ Top.handler = "CHLD"
  BY DEF TopIs
<1>2. Top \in Frames /\ Top = stack[Len(stack)] /\ Len(stack) \in DOMAIN stack
  BY <1>1, TopFacts DEF SignalInv, TypeInv
<1>3. Top.counted \in BOOLEAN
  BY <1>1, <1>2, FrameKinds
<1>4. \A i \in DOMAIN stack : stack[i].handler = "CHLD" => i = Len(stack)
  BY <1>1, <1>2 DEF SignalInv, StackInv
<1>5. Uncounted <=> ~Top.counted
  BY <1>1, <1>2, <1>4 DEF Uncounted
<1> QED BY <1>1, <1>2, <1>3, <1>4, <1>5

\* Two stacks with the same frames of handler_INT say the same of killEmAll.
LEMMA KillKept ==
  ASSUME KillInv, children' = children, kid' = kid,
         \A i \in DOMAIN stack' : stack'[i].handler = "INT" =>
           i \in DOMAIN stack /\ stack[i] = stack'[i]
  PROVE  KillInv'
BY DEF KillInv

LEMMA handler_CHLDStep ==
  ASSUME SignalInv, handler_CHLD
  PROVE  SignalInv'
<1> USE DEF SignalInv
<1>1. /\ chld /\ chld' = FALSE
      /\ UNCHANGED <<up, pc, forked, n, loaded, children, waitList, usr, kid, early>>
      /\ Enter("CHLD", [handler |-> "CHLD", counted |-> FALSE])
  BY DEF handler_CHLD, main, counts, history, Enter
<1>2. PICK f : f = [handler |-> "CHLD", counted |-> FALSE]
  OBVIOUS
<1>3. f \in Frames /\ f.handler = "CHLD" /\ f.counted = FALSE /\ Enter("CHLD", f)
  BY <1>1, <1>2 DEF Frames
<1>4. /\ stack' \in Seq(Frames) /\ Unique(stack') /\ up
      /\ Len(stack) + 1 \in DOMAIN stack' /\ stack'[Len(stack) + 1] = f
      /\ DOMAIN stack' = DOMAIN stack \cup {Len(stack) + 1}
      /\ Len(stack) + 1 \notin DOMAIN stack
      /\ \A i \in DOMAIN stack : 
           /\ stack'[i].handler = stack[i].handler
           /\ stack[i].handler # "USR" => stack'[i] = stack[i]
           /\ stack[i].handler # "CHLD"
  BY <1>3, Entered
<1>5. TypeInv'
  BY <1>1, <1>4 DEF TypeInv, Counting
<1>6. StackInv'
  BY <1>1, <1>4 DEF StackInv, Unique
<1>7. ~Uncounted /\ Uncounted'
  BY <1>3, <1>4 DEF Uncounted
<1>8. Owed' = Owed
  BY <1>1, <1>7 DEF Owed
<1>9. CountInv'
  BY <1>1, <1>8 DEF CountInv, Left, Counting
<1>10. ArrayInv'
  BY <1>1 DEF ArrayInv, Counted, Counting
<1>11. KillInv'
  BY <1>1, <1>3, <1>4, KillKept
<1>12. NoChildLeftBehind'
  BY <1>1, <1>4 DEF NoChildLeftBehind
<1> QED BY <1>5, <1>6, <1>9, <1>10, <1>11, <1>12

LEMMA CountDownStep ==
  ASSUME SignalInv, CountDown
  PROVE  SignalInv'
<1> USE DEF SignalInv
<1>1. /\ TopIs("CHLD") /\ ~Top.counted
      /\ UNCHANGED <<up, pc, forked, loaded, children, waitList, usr, chld, kid>>
      /\ n' = n - 1
      /\ ReplaceTop([Top EXCEPT !.counted = TRUE])
  BY DEF CountDown, main, pending
<1>2. early' = (early \/ pc # "wait")
  BY DEF CountDown
<1>3. /\ stack # <<>> /\ up /\ Top \in Frames /\ Top = stack[Len(stack)]
      /\ Top.handler = "CHLD" /\ Uncounted
      /\ Len(stack) \in DOMAIN stack
      /\ \A i \in DOMAIN stack : stack[i].handler = "CHLD" => i = Len(stack)
  BY <1>1, TopCHLD
<1>4. PICK f \in Frames : f.handler = "CHLD" /\ f.counted = TRUE /\ ReplaceTop(f)
  <2>1. PICK t \in Frames : t = Top
    BY <1>3
  <2>2. t \in [handler : {"CHLD"}, counted : BOOLEAN]
    BY <1>3, <2>1 DEF Frames
  <2>3. PICK f : f = [t EXCEPT !.counted = TRUE]
    OBVIOUS
  <2>4. f \in [handler : {"CHLD"}, counted : BOOLEAN] /\ f.counted = TRUE
    BY <2>2, <2>3
  <2>5. f \in Frames /\ f.handler = "CHLD" /\ f.counted = TRUE
    BY <2>4 DEF Frames
  <2>6. ReplaceTop(f)
    BY <1>1, <2>1, <2>3
  <2> QED BY <2>5, <2>6
<1>5. /\ stack' \in Seq(Frames) /\ DOMAIN stack' = DOMAIN stack /\ stack' # <<>>
      /\ stack'[Len(stack)] = f
      /\ \A i \in DOMAIN stack : i # Len(stack) => stack'[i] = stack[i]
  <2>1. stack \in Seq(Frames)
    BY DEF TypeInv
  <2>2. \A z : z = Append(Front(stack), f) =>
           /\ z \in Seq(Frames) /\ DOMAIN z = DOMAIN stack
           /\ z # <<>>
           /\ z[Len(stack)] = f
           /\ \A i \in DOMAIN stack : i # Len(stack) => z[i] = stack[i]
    BY <1>3, <2>1, Replaced, Zenon
  <2> QED BY <2>2, <1>4, Zenon DEF ReplaceTop
<1>6. \A i \in DOMAIN stack : stack'[i].handler = stack[i].handler
  BY <1>3, <1>4, <1>5
<1>7. StackInv'
  BY <1>5, <1>6 DEF StackInv
<1>8. early' \in BOOLEAN
  BY <1>2, Zenon
<1>9. TypeInv'
  BY <1>1, <1>5, <1>8 DEF TypeInv, Counting
<1>10. ~Uncounted'
  <2> SUFFICES ASSUME NEW i \in DOMAIN stack', stack'[i].handler = "CHLD",
                      ~stack'[i].counted
               PROVE  FALSE
    BY DEF Uncounted
  <2>1. i \in DOMAIN stack /\ i = Len(stack)
    BY <1>3, <1>5, <1>6
  <2> QED BY <2>1, <1>4, <1>5
<1>11. Owed \in 1..2 /\ Owed' = Owed - 1
  BY <1>1, <1>3, <1>10 DEF Owed
<1>12. Left' = Left /\ (Counting' <=> Counting)
  BY <1>1 DEF Left, Counting
<1>13. CountInv'
  <2>1. Cardinality(Left) \in Nat /\ n \in Int /\ loaded \in Int
    BY LeftFinite DEF TypeInv
  <2>2. PICK d \in 1..2 : d = Owed
    BY <1>11
  <2>3. PICK left \in Nat : left = Cardinality(Left)
    BY <2>1
  <2>4. Cardinality(Left') = left /\ Owed' = d - 1
    BY <1>11, <1>12, <2>2, <2>3
  <2>5. /\ left + d <= n + (IF Counting THEN 1 ELSE 0)
        /\ pc = "write" => left + d <= loaded + 1
    BY <2>2, <2>3 DEF CountInv
  <2> QED BY <1>1, <1>12, <2>1, <2>4, <2>5 DEF CountInv
<1>14. ArrayInv'
  <2>1. CASE pc = "wait"
    <3>1. early' = early
      BY <1>2, <2>1, Zenon DEF TypeInv
    <3> QED BY <1>1, <2>1, <3>1, <1>12 DEF ArrayInv, Counted
  <2>2. CASE pc # "wait"
    <3>1. early'
      BY <1>2, <2>2, Zenon
    <3> QED BY <3>1 DEF ArrayInv
  <2> QED BY <2>1, <2>2
<1>15. KillInv'
  <2>1. \A i \in DOMAIN stack' : stack'[i].handler = "INT" => i # Len(stack)
    BY <1>3, <1>5, <1>6
  <2> QED BY <1>1, <1>5, <2>1, KillKept
<1>16. NoChildLeftBehind'
  BY <1>1, <1>3 DEF NoChildLeftBehind
<1> QED BY <1>7, <1>9, <1>13, <1>14, <1>15, <1>16

\* What the parent has when it counts the last child out.
LEMMA TestCountStep ==
  ASSUME SignalInv, TestCount
  PROVE  SignalInv'
<1> USE DEF SignalInv
<1>1. /\ TopIs("CHLD") /\ Top.counted
      /\ UNCHANGED <<pc, forked, n, loaded, children, waitList, usr, chld, kid, early>>
  BY DEF TestCount, main, counts, pending, history
<1>2. /\ stack # <<>> /\ up /\ Top \in Frames /\ Top = stack[Len(stack)]
      /\ Top.handler = "CHLD" /\ ~Uncounted
      /\ Len(stack) \in DOMAIN stack
      /\ \A i \in DOMAIN stack : stack[i].handler = "CHLD" => i = Len(stack)
  BY <1>1, TopCHLD
<1>3. Left' = Left /\ (Counting' <=> Counting)
  BY <1>1 DEF Left, Counting
<1>4. ArrayInv'
  BY <1>1, <1>3 DEF ArrayInv, Counted
<1>5. CASE n = 0 /\ up' = FALSE /\ stack' = stack
  <2>1. TypeInv'
    BY <1>1, <1>5 DEF TypeInv, Counting
  <2>2. StackInv' /\ KillInv'
    BY <1>1, <1>2, <1>5 DEF StackInv, KillInv
  <2>3. Owed' = Owed
    BY <1>1, <1>5 DEF Owed, Uncounted
  <2>4. CountInv'
    BY <1>1, <1>3, <2>3 DEF CountInv
  <2>5. Cardinality(Left) <= (IF Counting THEN 1 ELSE 0)
    <3>1. Cardinality(Left) \in Nat /\ Owed \in 0..2
      BY LeftFinite, OwedNumber
    <3> QED BY <3>1, <1>5 DEF CountInv
  <2>6. Left = {} \/ (Counting /\ Cardinality(Left) = 1)
    <3>1. IsFiniteSet(Left) /\ Cardinality(Left) \in Nat
      BY LeftFinite
    <3>2. Cardinality(Left) = 0 => Left = {}
      BY <3>1, FS_EmptySet
    <3> QED BY <2>5, <3>1, <3>2
  <2>7. Top' = Top
    BY <1>5 DEF Top
  <2>8. NoChildLeftBehind'
    BY <1>1, <1>2, <2>6, <2>7 DEF NoChildLeftBehind, Left, Counting
  <2> QED BY <1>4, <2>1, <2>2, <2>4, <2>8
<1>6. CASE Return /\ up' = up
  <2>1. /\ stack' \in Seq(Frames) /\ Unique(stack')
        /\ \A i \in DOMAIN stack' :
             i \in DOMAIN stack /\ i # Len(stack) /\ stack'[i] = stack[i]
    BY <1>2, <1>6, Returned
  <2>2. TypeInv'
    BY <1>1, <1>6, <2>1 DEF TypeInv, Counting
  <2>3. StackInv'
    BY <1>2, <1>6, <2>1 DEF StackInv, Unique
  <2>4. ~Uncounted'
    BY <1>2, <2>1 DEF Uncounted
  <2>5. Owed' = Owed
    BY <1>1, <1>2, <2>4 DEF Owed
  <2>6. CountInv'
    BY <1>1, <1>3, <2>5 DEF CountInv
  <2>7. KillInv'
    BY <1>1, <2>1, KillKept
  <2>8. NoChildLeftBehind'
    BY <1>2, <1>6 DEF NoChildLeftBehind
  <2> QED BY <1>4, <2>2, <2>3, <2>6, <2>7, <2>8
<1> QED BY <1>5, <1>6 DEF TestCount, Exit

-----------------------------------------------------------------------------
(* The ends of children, and killEmAll. *)

LEMMA OneGoes ==
  ASSUME TypeInv, NEW c \in Left, kid' = [kid EXCEPT ![c] = "gone"], forked' = forked
  PROVE  /\ Cardinality(Left') = Cardinality(Left) - 1
         /\ kid' \in [Kids -> KidStates] /\ kid'[c] = "gone"
         /\ \A d \in Kids : kid[d] = "gone" => kid'[d] = "gone"
<1>1. c \in Kids /\ Left \subseteq Kids /\ 1..forked \subseteq Kids
  BY LeftFinite, Constants DEF TypeInv, Kids
<1>2. /\ kid' \in [Kids -> KidStates] /\ kid'[c] = "gone"
      /\ \A d \in Kids : kid[d] = "gone" => kid'[d] = "gone"
      /\ \A d \in Kids : d # c => kid'[d] = kid[d]
  BY <1>1 DEF TypeInv, KidStates
<1>3. Left' = Left \ {c}
  BY <1>1, <1>2 DEF Left
<1>4. Cardinality(Left \ {c}) = Cardinality(Left) - 1
  BY LeftFinite, FS_RemoveElement
<1> QED BY <1>2, <1>3, <1>4

\* Somebody's end is pending for handler_CHLD, or already was.
LEMMA EndPends ==
  ASSUME SignalInv, NEW c \in Left, kid' = [kid EXCEPT ![c] = "gone"], chld' = TRUE,
         UNCHANGED <<pc, forked, n, loaded>>, Uncounted' = Uncounted
  PROVE  CountInv'
<1>1. Cardinality(Left') = Cardinality(Left) - 1
  BY OneGoes DEF SignalInv
<1>2. Cardinality(Left) \in Nat /\ n \in Int /\ loaded \in Int
  BY LeftFinite DEF SignalInv, TypeInv
<1>3. PICK left \in Nat : left = Cardinality(Left)
  BY <1>2
<1>4. PICK owed \in 0..2 : owed = Owed
  BY OwedNumber
<1>5. Owed' <= owed + 1 /\ Owed' \in 0..2
  BY <1>4, OwedNumber DEF Owed, SignalInv, TypeInv
<1>6. PICK now \in 0..2 : now = Owed'
  BY <1>5
<1>7. now <= owed + 1 /\ Cardinality(Left') = left - 1
  BY <1>1, <1>3, <1>5, <1>6
<1>8. /\ left + owed <= n + (IF Counting THEN 1 ELSE 0)
      /\ pc = "write" => left + owed <= loaded + 1
  BY <1>3, <1>4 DEF SignalInv, CountInv
<1>9. (Counting' <=> Counting) /\ n' = n /\ loaded' = loaded /\ pc' = pc
  BY DEF Counting
<1>10. /\ (left - 1) + now <= n + (IF Counting THEN 1 ELSE 0)
       /\ pc = "write" => (left - 1) + now <= loaded + 1
  BY <1>2, <1>7, <1>8
<1> QED BY <1>6, <1>7, <1>9, <1>10 DEF CountInv

LEMMA LeaveStep ==
  ASSUME SignalInv, BornInv, NEW c \in Kids, Leave(c)
  PROVE  SignalInv'
<1> USE DEF SignalInv
<1>1. /\ up /\ kid[c] = "leaving" /\ kid' = [kid EXCEPT ![c] = "gone"] /\ chld' = TRUE
      /\ UNCHANGED <<up, pc, forked, n, loaded, children, waitList, usr, stack, early>>
  BY DEF Leave, PendCHLD, main, counts
<1>2. c \in Left
  <2>1. c <= forked
    BY <1>1 DEF BornInv
  <2> QED BY <2>1, <1>1, Constants DEF Left, Kids, TypeInv
<1>3. Uncounted' = Uncounted
  BY <1>1 DEF Uncounted
<1>4. CountInv'
  BY <1>1, <1>2, <1>3, EndPends
<1>5. /\ kid' \in [Kids -> KidStates]
      /\ \A d \in Kids : kid[d] = "gone" => kid'[d] = "gone"
  BY <1>1, <1>2, OneGoes
<1>6. TypeInv'
  BY <1>1, <1>5 DEF TypeInv, Counting
<1>7. StackInv' /\ ArrayInv'
  BY <1>1 DEF StackInv, ArrayInv, Counted, Counting
<1>8. KillInv'
  <2> SUFFICES ASSUME NEW i \in DOMAIN stack, stack[i].handler = "INT",
                      NEW j \in 0..(stack[i].at - 1), children[j] # 0
               PROVE  kid'[children[j]] = "gone"
    BY <1>1 DEF KillInv
  <2>1. kid[children[j]] = "gone"
    BY DEF KillInv
  <2>2. kid'[children[j]] = kid[children[j]] \/ kid'[children[j]] = "gone"
    BY <1>1 DEF TypeInv
  <2> QED BY <2>1, <2>2
<1>9. NoChildLeftBehind'
  BY <1>1 DEF NoChildLeftBehind
<1> QED BY <1>4, <1>6, <1>7, <1>8, <1>9

LEMMA handler_INTStep ==
  ASSUME SignalInv, handler_INT
  PROVE  SignalInv'
<1> USE DEF SignalInv
<1>1. /\ UNCHANGED <<pc, forked, n, loaded, children, waitList, usr, chld, kid, early, up>>
      /\ Enter("INT", [handler |-> "INT", at |-> 0])
  BY DEF handler_INT, main, counts, history, pending
<1>2. PICK f : f = [handler |-> "INT", at |-> 0]
  OBVIOUS
<1>3. f \in Frames /\ f.handler = "INT" /\ f.at = 0 /\ Enter("INT", f)
  BY <1>1, <1>2, Constants DEF Frames
<1>4. /\ stack' \in Seq(Frames) /\ Unique(stack') /\ up
      /\ Len(stack) + 1 \in DOMAIN stack' /\ stack'[Len(stack) + 1] = f
      /\ DOMAIN stack' = DOMAIN stack \cup {Len(stack) + 1}
      /\ \A i \in DOMAIN stack : 
           /\ stack'[i].handler = stack[i].handler
           /\ stack[i].handler # "USR" => stack'[i] = stack[i]
  BY <1>3, Entered
<1>5. TypeInv'
  BY <1>1, <1>4 DEF TypeInv, Counting
<1>6. StackInv'
  BY <1>1, <1>4 DEF StackInv, Unique
<1>7. Uncounted' = Uncounted
  BY <1>3, <1>4 DEF Uncounted
<1>8. CountInv'
  BY <1>1, <1>7 DEF CountInv, Left, Counting, Owed
<1>9. ArrayInv'
  BY <1>1 DEF ArrayInv, Counted, Counting
<1>10. KillInv'
  <2> SUFFICES ASSUME NEW i \in DOMAIN stack', stack'[i].handler = "INT",
                      NEW j \in 0..(stack'[i].at - 1), children[j] # 0
               PROVE  kid[children[j]] = "gone"
    BY <1>1 DEF KillInv
  <2>1. CASE i \in DOMAIN stack
    <3>1. stack[i] = stack'[i]
      BY <2>1, <1>4
    <3> QED BY <2>1, <3>1 DEF KillInv
  <2>2. CASE i = Len(stack) + 1
    BY <2>2, <1>3, <1>4
  <2> QED BY <2>1, <2>2, <1>4
<1>11. NoChildLeftBehind'
  BY <1>1, <1>4 DEF NoChildLeftBehind
<1> QED BY <1>5, <1>6, <1>8, <1>9, <1>10, <1>11

\* What killEmAll leaves is no child, or the one main has not put in the array.
LEMMA KilledAll ==
  ASSUME SignalInv, ~early, NEW i \in DOMAIN stack, stack[i].handler = "INT", stack[i].at = N
  PROVE  Left = {} \/ (Counting /\ Left = {forked})
<1>1. ASSUME NEW c \in Left PROVE Counting /\ c = forked
  <2>1. c \in 1..forked /\ forked \in 0..N /\ kid[c] # "gone"
    BY DEF Left, SignalInv, TypeInv
  <2>2. \A j \in 0..(Counted - 1) : children[j] = j + 1
    BY DEF SignalInv, ArrayInv
  <2>3. \A j \in 0..(N - 1) : children[j] # 0 => kid[children[j]] = "gone"
    BY DEF SignalInv, KillInv
  <2>4. ASSUME c <= Counted PROVE FALSE
    <3>1. c - 1 \in 0..(Counted - 1) /\ c - 1 \in 0..(N - 1) /\ (c - 1) + 1 = c /\ c # 0
      BY <2>1, <2>4, Constants DEF Counted
    <3>2. children[c - 1] = c
      BY <2>2, <3>1
    <3> QED BY <2>1, <2>3, <3>1, <3>2
  <2> QED BY <2>1, <2>4 DEF Counted
<1> QED BY <1>1

LEMMA killEmAllStep ==
  ASSUME SignalInv, killEmAll
  PROVE  SignalInv'
<1> USE DEF SignalInv
<1>1. /\ TopIs("INT") /\ up /\ stack # <<>> /\ Top.handler = "INT"
      /\ UNCHANGED <<pc, forked, n, loaded, children, waitList, usr, early>>
  BY DEF killEmAll, main, counts, TopIs
<1>2. stack \in Seq(Frames)
  BY DEF TypeInv
<1>3. /\ Top = stack[Len(stack)] /\ Len(stack) \in DOMAIN stack /\ Top \in Frames
      /\ Top.at \in 0..N
  BY <1>1, <1>2, TopFacts, FrameKinds
<1>4. \A i \in DOMAIN stack : stack[i].handler = "INT" => i = Len(stack)
  BY <1>1, <1>3 DEF StackInv
<1>5. ArrayInv'
  BY <1>1 DEF ArrayInv, Counted, Counting
<1>6. CASE Top.at = N /\ up' = FALSE /\ UNCHANGED <<stack, kid, chld, lost>>
  <2>1. TypeInv' /\ StackInv' /\ KillInv'
    BY <1>1, <1>6 DEF TypeInv, Counting, StackInv, KillInv
  <2>2. CountInv'
    BY <1>1, <1>6 DEF CountInv, Left, Counting, Owed, Uncounted
  <2>3. early \/ Left = {} \/ (Counting /\ Left = {forked})
    BY <1>1, <1>3, <1>6, KilledAll
  <2>4. Top' = Top /\ Left' = Left /\ (Counting' <=> Counting)
    BY <1>1, <1>6 DEF Top, Left, Counting
  <2>5. NoChildLeftBehind'
    BY <1>1, <2>3, <2>4 DEF NoChildLeftBehind, Left, Counting
  <2> QED BY <1>5, <2>1, <2>2, <2>5
<1>7. CASE /\ Top.at < N /\ Kill(children[Top.at])
           /\ ReplaceTop([Top EXCEPT !.at = @ + 1]) /\ UNCHANGED up
  <2>1. PICK t \in Frames : t = Top
    BY <1>3
  <2>2. t \in [handler : {"INT"}, at : 0..N] /\ t.at + 1 \in 0..N /\ t.at \in 0..(N - 1)
    BY <1>1, <1>3, <1>7, <2>1, Constants DEF Frames
  <2>3. PICK f : f = [t EXCEPT !.at = @ + 1]
    OBVIOUS
  <2>4. f \in [handler : {"INT"}, at : 0..N] /\ f.at = t.at + 1
    BY <2>2, <2>3
  <2>5. f \in Frames /\ f.handler = "INT"
    BY <2>4 DEF Frames
  <2>6. ReplaceTop(f)
    BY <1>7, <2>1, <2>3
  <2>7. /\ stack' \in Seq(Frames) /\ DOMAIN stack' = DOMAIN stack /\ stack' # <<>>
        /\ stack'[Len(stack)] = f
        /\ \A i \in DOMAIN stack : i # Len(stack) => stack'[i] = stack[i]
    <3>1. \A z : z = Append(Front(stack), f) =>
             /\ z \in Seq(Frames) /\ DOMAIN z = DOMAIN stack
             /\ z # <<>>
             /\ z[Len(stack)] = f
             /\ \A i \in DOMAIN stack : i # Len(stack) => z[i] = stack[i]
      BY <1>1, <1>2, <2>5, Replaced, Zenon
    <3> QED BY <3>1, <2>6, Zenon DEF ReplaceTop
  <2>8. \A i \in DOMAIN stack : stack'[i].handler = stack[i].handler
    BY <1>1, <1>3, <2>5, <2>7
  <2>9. StackInv'
    BY <2>7, <2>8 DEF StackInv
  <2>10. Uncounted' = Uncounted
    BY <1>1, <1>3, <2>5, <2>7 DEF Uncounted
  <2>11. PICK c \in 0..forked : c = children[t.at]
    BY <2>2 DEF TypeInv
  <2>12. Kill(c)
    BY <1>7, <2>1, <2>11
  <2>13. forked \in 0..N /\ 1..forked \subseteq Kids
    BY Constants DEF TypeInv, Kids
  <2>14. CASE c = 0 \/ kid[c] = "gone"
    <3>1. UNCHANGED <<kid, chld>>
      BY <2>12, <2>14 DEF Kill
    <3>2. TypeInv'
      BY <1>1, <1>7, <2>7, <3>1 DEF TypeInv, Counting
    <3>3. CountInv'
      BY <1>1, <3>1, <2>10 DEF CountInv, Left, Counting, Owed
    <3>4. KillInv'
      <4> SUFFICES ASSUME NEW i \in DOMAIN stack', stack'[i].handler = "INT",
                          NEW j \in 0..(stack'[i].at - 1), children[j] # 0
                   PROVE  kid[children[j]] = "gone"
        BY <1>1, <3>1 DEF KillInv
      <4>1. i = Len(stack) /\ i \in DOMAIN stack /\ stack'[i] = f
        BY <1>4, <2>7, <2>8
      <4>2. j = t.at \/ j \in 0..(t.at - 1)
        BY <4>1, <2>2, <2>4
      <4>3. CASE j = t.at
        BY <4>3, <2>11, <2>14
      <4>4. CASE j \in 0..(t.at - 1)
        BY <4>4, <4>1, <1>1, <1>3, <2>1 DEF KillInv
      <4> QED BY <4>2, <4>3, <4>4
    <3>5. NoChildLeftBehind'
      BY <1>1, <1>7 DEF NoChildLeftBehind
    <3> QED BY <1>5, <2>9, <3>2, <3>3, <3>4, <3>5
  <2>15. CASE ~(c = 0 \/ kid[c] = "gone")
    <3>1. kid' = [kid EXCEPT ![c] = "gone"] /\ chld' = TRUE
      BY <2>12, <2>15 DEF Kill, PendCHLD
    <3>2. c \in Left
      BY <2>13, <2>15 DEF Left
    <3>3. /\ kid' \in [Kids -> KidStates] /\ kid'[c] = "gone"
          /\ \A d \in Kids : kid[d] = "gone" => kid'[d] = "gone"
      BY <1>1, <3>1, <3>2, OneGoes
    <3>4. TypeInv'
      BY <1>1, <1>7, <2>7, <3>1, <3>3 DEF TypeInv, Counting
    <3>5. CountInv'
      BY <1>1, <2>10, <3>1, <3>2, EndPends
    <3>6. KillInv'
      <4> SUFFICES ASSUME NEW i \in DOMAIN stack', stack'[i].handler = "INT",
                          NEW j \in 0..(stack'[i].at - 1), children[j] # 0
                   PROVE  kid'[children[j]] = "gone"
        BY <1>1 DEF KillInv
      <4>1. i = Len(stack) /\ i \in DOMAIN stack /\ stack'[i] = f
        BY <1>4, <2>7, <2>8
      <4>2. j = t.at \/ j \in 0..(t.at - 1)
        BY <4>1, <2>2, <2>4
      <4>3. CASE j = t.at
        BY <4>3, <2>11, <3>3
      <4>4. CASE j \in 0..(t.at - 1)
        <5>1. kid[children[j]] = "gone"
          BY <4>4, <4>1, <1>1, <1>3, <2>1 DEF KillInv
        <5>2. j \in 0..(N - 1)
          BY <4>4, <2>2, Constants
        <5>3. children[j] \in 0..forked /\ children[j] # 0
          BY <5>2 DEF TypeInv
        <5>4. children[j] \in Kids
          BY <5>3, <2>13, Constants
        <5> QED BY <5>1, <5>4, <3>3
      <4> QED BY <4>2, <4>3, <4>4
    <3>7. NoChildLeftBehind'
      BY <1>1, <1>7 DEF NoChildLeftBehind
    <3> QED BY <1>5, <2>9, <3>4, <3>5, <3>6, <3>7
  <2> QED BY <2>14, <2>15
<1> QED BY <1>6, <1>7 DEF killEmAll, Exit

-----------------------------------------------------------------------------
LEMMA BornStep ==
  ASSUME TypeInv, BornInv, [Next]_vars
  PROVE  BornInv'
<1> USE DEF TypeInv
<1>1. CASE Fork
  <2>1. forked' = forked + 1 /\ kid' = [kid EXCEPT ![forked + 1] = "asleep"]
        /\ forked \in Nat
    BY <1>1, Constants DEF Fork
  <2> QED BY <2>1, Constants DEF BornInv, Kids
<1>2. CASE LetGo \/ (\E c \in Kids : childProcedure(c))
  <2>1. forked' = forked /\ \A c \in Kids : kid'[c] # "unborn" => kid[c] # "unborn"
    BY <1>2 DEF LetGo, childProcedure, Ask, Answer, Leave, main
  <2> QED BY <2>1 DEF BornInv
<1>3. CASE killEmAll
  <2>1. forked' = forked
    BY <1>3 DEF killEmAll, main
  <2>2. CASE kid' = kid
    BY <2>1, <2>2 DEF BornInv
  <2>3. CASE Top.at < N /\ Kill(children[Top.at]) /\ kid' # kid
    <3>1. stack # <<>> /\ Top.handler = "INT" /\ Top \in Frames
      BY <1>3, TopFacts DEF killEmAll, TopIs
    <3>2. Top.at \in 0..(N - 1)
      BY <2>3, <3>1, FrameKinds, Constants
    <3>3. PICK c \in 0..forked : c = children[Top.at]
      BY <3>2
    <3>4. kid' = [kid EXCEPT ![c] = "gone"]
      BY <2>3, <3>3 DEF Kill
    <3> QED BY <2>1, <3>3, <3>4 DEF BornInv
  <2> QED BY <1>3, <2>2, <2>3 DEF killEmAll
<1>4. CASE \/ Assign \/ Store \/ Load \/ Write \/ handler_USR \/ Waited \/ USRReturns
           \/ handler_CHLD \/ CountDown \/ TestCount \/ handler_REAL \/ handler_INT
           \/ UNCHANGED vars
  <2>1. forked' = forked /\ kid' = kid
    BY <1>4 DEF Assign, Store, Load, Write, handler_USR, Waited, USRReturns, handler_CHLD,
       CountDown, TestCount, handler_REAL, handler_INT, vars, main
  <2> QED BY <2>1 DEF BornInv
<1> QED BY <1>1, <1>2, <1>3, <1>4 DEF Next, Main, Handlers, Ended

LEMMA Start == Init => SignalInv /\ BornInv
<1> SUFFICES ASSUME Init PROVE SignalInv /\ BornInv
  OBVIOUS
<1>1. /\ up = TRUE /\ pc = "fork" /\ forked = 0 /\ n = 0 /\ loaded = 0
      /\ children = [i \in 0..(N - 1) |-> 0] /\ waitList = <<>> /\ stack = <<>>
      /\ usr = 0 /\ chld = FALSE /\ kid = [c \in Kids |-> "unborn"] /\ early = FALSE
  BY DEF Init
<1>2. stack \in Seq(Frames) /\ ~Uncounted /\ KillInv /\ DOMAIN stack = {}
  BY <1>1, NoFrames
<1>3. TypeInv
  BY <1>1, <1>2, Constants DEF TypeInv, Labels, Counting, KidStates
<1>4. StackInv
  BY <1>1, <1>2 DEF StackInv
<1>5. Left = {} /\ Owed = 0
  BY <1>1, <1>2 DEF Left, Owed
<1>6. CountInv
  BY <1>1, <1>5, FS_EmptySet DEF CountInv, Counting
<1>7. ArrayInv
  BY <1>1 DEF ArrayInv, Counted, Counting
<1>8. NoChildLeftBehind /\ BornInv
  BY <1>1 DEF NoChildLeftBehind, BornInv
<1> QED BY <1>2, <1>3, <1>4, <1>6, <1>7, <1>8 DEF SignalInv

LEMMA SignalStep ==
  ASSUME SignalInv, BornInv, [Next]_vars
  PROVE  SignalInv'
<1>1. CASE Main
  BY <1>1, MainStep
<1>2. CASE Handlers
  BY <1>2, handler_USRStep, LetGoStep, WaitedStep, USRReturnsStep, handler_CHLDStep,
     CountDownStep, TestCountStep, handler_REALStep, killEmAllStep DEF Handlers
<1>3. CASE \E c \in Kids : childProcedure(c)
  BY <1>3, ChildTalks, LeaveStep DEF childProcedure
<1>4. CASE handler_INT
  BY <1>4, handler_INTStep
<1>5. CASE UNCHANGED vars
  BY <1>5 DEF vars, SignalInv, TypeInv, StackInv, CountInv, ArrayInv, KillInv,
     NoChildLeftBehind, Counting, Counted, Left, Owed, Uncounted, Top
<1> QED BY <1>1, <1>2, <1>3, <1>4, <1>5 DEF Next, Ended

\* The parent that counts in one n with main, its handlers and what it misses ends
\* with every child gone, but in the named cases, for any number of children and
\* of requests it waits for.
THEOREM ParentLeavesNobody == Spec => []NoChildLeftBehind
<1>1. SignalInv /\ BornInv /\ [Next]_vars => (SignalInv /\ BornInv)'
  BY SignalStep, BornStep DEF SignalInv
<1>2. SignalInv => NoChildLeftBehind
  BY DEF SignalInv
<1> QED BY Start, <1>1, <1>2, PTL DEF Spec
=============================================================================
