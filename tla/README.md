# Verification of AGH-UST-Projects

TLA+ modules, TLC configurations and TLAPS proofs for the programs in `src/`. Paths
below are relative to `src/`; `labN` stands for `Operating-systems/labN`.

The repository is a collection, not one system. Its hard part is the set of concurrent C
programs of the operating-systems course: barbers and clients over shared memory and
semaphores, producers and consumers over a ring of lines, request servers over message
queues, calculator servers over sockets, a parent that talks to its children with
signals. All of these are modelled, and so are the trading rules and the form of
StockWinner (Java) and the processes of the OpenCV detection server (Python). The
sequential labs follow in the plan.

## 1. Inventory

| Component | State | Operations and interaction | What is hard | What makes it correct |
|---|---|---|---|---|
| **Sleeping barber, System V** `lab7/zad1` | shared segment: `nr_of_free_seats`, `barberSleeps`, `fifo` (array queue), `clientThatCame`; 5 semaphores and one per seat | barber: look, sleep, invite, cut; client: wake, sit, wait for its invitation, give the seat back, sit in the chair, leave, come again | two programs nest semaphores; `BSSeat` and `CutDone` do not name a client; queue slots are reused at once; one block is guarded by `WRSeats` alone | the room's data is touched by one process; seats, queue and cuts agree; order of arrival; a sleeping barber is woken; everybody gets its cuts |
| **Sleeping barber, POSIX** `lab7/zad2` | the same in a named segment with five named semaphores; `handles` of each process | the same protocol; barber: open the shop name by name, close it; client: open what is there | names outlive a killed barber; a client that comes while the shop opens; nothing is undone for a process that is ended inside | as zad1, as long as nobody was cut short inside the shop |
| **Producers and consumers, semaphores** `lab9/zad2` | ring `buffer`, `count`, `writeTo`, `readFrom`; three semaphores; the file | producers read a line and put it, consumers take and print it, `main` joins the producers and ends the process when the ring is empty | a producer exits keeping a place; `main` checks while consumers run; alarm and SIGINT | no line lost, repeated or overtaken; an end only with everything consumed |
| **Producers and consumers, condition variables** `lab9/zad1` | the ring, one mutex, two condition variables | the same; the signal is given after the unlock | lost and stolen wake-ups, spurious ones | the same, and no thread sleeps on room or a line nobody will announce |
| **Calculator server, streams** `lab10/zad1` | `clients[]`, `client_counter`, `clients_mutex`, `operation_counter`; a connection per client | main: epoll, login, logout, results, pongs; ping thread: ping or drop each client; terminal thread: send orders; client: login, read loop, pong, calc | three threads write to one socket; sockets closed between `epoll_wait` and `read`; late PONGs; SIGPIPE | list and clients agree; a client reads what it expects; an order is answered once, by its addressee; a login is answered |
| **Calculator server, datagrams** `lab10/zad2` | the same with addresses instead of connections | the same over two datagram sockets | loss, reordering, repetition; nobody tells a client it was dropped; LOGOUT goes by name | the same as far as UDP allows: the list is sound whatever the network does, local clients are not disturbed by it |
| **Request server, System V queues** `lab6/zad1` | `clients[MAX_CLIENTS]` of queue ids; a queue per process | INTRODUCE, MIRROR, CALC, TIME, END, STOP | ids are reused; full table; clients that die; a request that kills the server | one place per living client, answers to their owners, places come back |
| **Request server, POSIX queues** `lab6/zad2` | `clients[MAX_CLIENTS]` of open queues; the name `/server`; a queue per process | the same; STOP has a priority of its own | STOP overtakes requests; a queue outlives its name; a server that cannot start removes the name of the one that runs | the same; the name stands for a server that runs |
| **Signals** `lab4/zad2` | `n`, `children[]`, `wait_list[]`, changed by handlers | children ask with SIGUSR1; the parent lets them go on, receives real-time signals, counts SIGCHLD | standard signals merge while pending; handlers interrupt main and one another, and share its data | every child is answered and waited for, and none is left behind |
| **Signals** `lab4/zad1`, `lab4/zad3` | a clock; counters | SIGTSTP stops and starts; signals are sent to a child and counted | as zad2 | what was sent is counted |
| **Pipelines and FIFOs** `lab5` | pipes, child processes | recursive set-up of a pipeline; master and slaves over a FIFO | a stage waiting for another while a pipe is full | no stage waits for one that waits for it |
| **Image filter** `lab8` | picture, filter, output | threads filter a range of columns each | ranges by division | every column is filtered once |
| **Batch interpreters, record files, block management** `lab1`–`lab3` | files, a table of blocks | sequential | input and output errors | sorting sorts; blocks are not lost |
| **StockWinner** `StockWinner` | `Portfolio`, rules of `Strategy`s, prices, the form | buttons edit rules; `handleDoneButton` tries them on each day of a file and trades | buttons in any order; a flag that outlives its rule; roundings of `BigDecimal` | the list shown is the list tried; rules act on their conditions; trades keep the value |
| **OpenCV detection server** `OpenCV-detection-server` | three queues of one place (frames, detections, the area); `p`, `clients` | a thread per request shows pictures, saves the area, says on or off; a process looks for motion | look, get and put are three calls; the process is ended anywhere | the area is neither lost nor doubled and is the one saved last |
| **Conferences** | slides | – | – | – |

`PROJECT.json` lists every component with its status, and each hazard at its line with
the properties that watch it.

## 2. Modules

```
ProcessCounts                   how many processes are at given labels
FifoQ                           barbershop.h: the array queue
Barbershop      EXTENDS FifoQ, ProcessCounts      lab7/zad1
BarbershopPosix EXTENDS Barbershop                lab7/zad2
BoundedChannel                  what both lab9 programs promise
BufferSem       implements BoundedChannel         lab9/zad2
BufferMutex     implements BoundedChannel         lab9/zad1
CalcServerTcp                                     lab10/zad1
CalcServerUdp                                     lab10/zad2
MsgServerSysV                                     lab6/zad1
MsgServerPosix                                    lab6/zad2
SignalCounts                                      lab4/zad2
Decimals                                          java.math.BigDecimal, as far as it is used
StockWinner     EXTENDS Decimals                  StockWinner: model and form
MotionDetection                                   OpenCV-detection-server

BarbershopProofs, BufferProofs, CalcServerTcpProofs, CalcServerUdpProofs,
MsgServerSysVProofs, MsgServerPosixProofs, SignalCountsProofs, MotionDetectionProofs
                                EXTEND the module they are about; each begins with the
                                facts about remainders, counts and sequences it uses
MC<module>                      instances for TLC, one .cfg per question
```

All modules share one reading of the code. A process is its program counter, a label per
statement that another process can interleave with; a handler that runs under a lock
nobody gives up in between is one action, otherwise each semaphore call, write and
critical-section half is one. Names follow the code. An operator `X_Something` next to
an `X` is a mutation: what a plausible bug in the code would make of `X`. `PROJECT.json`
says which property notices it.

### FifoQ and Barbershop

`FifoQ` is `init_Q`, `enqueue`, `dequeue` of `barbershop.h` as operators on a record
`[front, end, size, n, queue]`: `EnqueueSlot` is the index `enqueue` returns, which is
also the index of the client's own semaphore; `Dequeue` leaves `front` where it is when
the last entry goes, as the code does. `init_Q` is composed of its three writes, of
which each counts where nobody waits for them (`BarbershopPosix`). `Contents` is the
sequence the array stands for.

`Barbershop` has `bpc` for `barber.c` and `pc[c]` for each client of `client.c`. Labels
are named by branch and call (`wake_sigWR`, `sit_waitInvite`, `sleep_waitCR`, …). `sem`
holds the five fixed semaphores and `invites[i]` the semaphore of slot `i`. `Look` of
either side is a block between its two waits and signals. Clients come `S` times, at any
time. Signals that end a process are not modelled: the semaphores are used without
`SEM_UNDO` and the code has no recovery from them.

`BarbershopPosix` keeps the protocol of `Barbershop`, statement for statement the same
in `zad2`, and adds what `zad2` changes: the segment and the five semaphores have names,
which `init_shared` creates one after the other (`OpenSegment`, `CreateSemaphore`),
which a client opens one after the other (`handles` are those it found: no `sem_open` of
a client is checked), and which stay behind when the barber is killed. A barber that
starts again finds their old values, since `O_CREAT` changes nothing that exists, and
its `sem_init` of `barberInvites` forgets whoever waits there. It also writes to the
segment that is there: the seats, the flag, then the slots, ends and size of the queue
(`WriteSeats`, `WriteFlag`, `WriteQueue`). No semaphore is taken for these writes, and
clients of the killed barber may come in by the semaphores that are left, before, after
and between them. A client's own block under its semaphores stays one step: a write of
the barber can fall into it only while that client is inside, and then `sound` is given
up whichever side of the block the write is put on. For the same reason the writes to
the slots are one: a client that came in to an empty shop cannot be out of it before the
last of them, since nobody cuts.

`MaxFaults` bounds how often a process is ended by a signal. The history `sound` says
that nobody has been cut short inside the shop, nor was inside at a write of
`init_shared`, which would take its seat, its flag or its place in the queue: those are
the states from which the program does not recover. Each client opens the names for
itself; in the program the children of one client program share what their parent
opened.

### BoundedChannel, BufferSem, BufferMutex

`BoundedChannel` is a channel of `Capacity` places for the lines `1..Lines`, with a
status: `open`, `finished` (the process ended itself, with everything delivered) or
`killed` (SIGINT or the alarm). Both programs are shown to implement it; the mapping
takes the lines a consumer has not yet claimed as the channel. A line is its number; its
text, the choice of the lines to print and the configuration file are left out.

`BufferSem` steps at every `sem_wait`/`sem_post` and splits a critical section into the
copy and the move of the index. `ProducerExit` posts `counting_sem` but not
`buffIsNotFull_sem`, as the code. `BufferMutex` has the threads asleep on either
condition variable as sets, `pthread_cond_signal` wakes any one of them or nobody, and a
thread may wake up for nothing.

### CalcServerTcp and CalcServerUdp

Both have main, ping and terminal thread, and the client processes. In `CalcServerTcp` a
connection is two streams; a message of a client is one token, while every `write` of
the server is a token and a step of its own. A write to a closed connection may succeed
or end the server (SIGPIPE). In `CalcServerUdp` a datagram socket is a queue. Local
datagrams stay in order, and a local client that is gone refuses the datagram; a
datagram on the web may be read in any order, never, or twice. `event` and `msg_type` of
`CalcServerTcp` are "none" between two messages, as locals of `message`. `FirstByte` is
what a client gets that reads one byte of an `operation_t`: the low byte of its number,
on the little-endian machines the code is built for. `Earlier` orders lie behind when
the model begins, so that the next number reads as REQUEST. Arithmetic of `is_inactive`
is modulo 256. The models end with the server; what a client does afterwards is to fail
on its next call. The limit on datagrams that wait at a local socket is left out.

### MsgServerSysV

A queue per process; the server handles a message in one step since it is one thread
that makes at most one `msgsnd` per message. `zero` is the process whose queue has
identifier 0, or the server, or nobody: the refusal in `new_client` takes its address
from a text that was already overwritten and is sent there. Commands are of four kinds;
`parse_command` can return an uninitialized value, which the free choice of the next
command covers.

### MsgServerPosix

Several runs of `server.c` on one machine, since a POSIX queue has a name and outlives
it: `name` says whose queue `/server` is, `srv[c]` which server a client has opened. A
server that fails to create the queue (`O_EXCL`) removes the name at its exit all the
same, in a step of its own (`ServerExits`) before which the name may have come to stand
for another server; so does one that was interrupted, after `handlerINT` has removed it
once. A message is put in by priority (`Insert`). `MaxMsg` is the capacity of a queue,
2 or more: with 1, a single answer would fill the queue of its owner.
The refusal of `server.c:70` reads the word behind a table from `calloc`, which is the
size of the next heap chunk and no open queue: the refused client is never told. Not
modelled: a process id that is used again, a second signal while a process exits.

### SignalCounts

`main` is taken apart where a handler can come between, `n++` into its load and its
store. `stack` holds the handlers that run, the innermost last; a handler blocks its own
signal and no other. `usr`, `chld` and `real` are what is pending: one of each standard
signal, all of the real-time signals. A standard signal that comes while an equal one is
pending sets the history `lost`, and so does a request that the parent handles before
`pid` is first assigned, since it then takes itself for a child. A `waitpid` that a
signal cuts short loses nothing: the handler goes on to its next `kill`, and nothing in
the count hangs on the wait. `early` says that the end of a child was counted while main
was still forking. `killEmAll` and the search in
`children[]` are modelled with the index the code really uses, beyond the end included.
Left out: children that are stopped, or killed by others than the parent.

### Decimals and StockWinner

`Decimals` is a number of units and a scale; `divide` without a scale keeps that of the
dividend. The base is a constant: the roundings are the same in any, and in base 2 TLC
has few digits to keep. `StockWinner` has an action per button of the form, with what is
selected, enabled and left over between them, and `handleDoneButton` round by round, a
rule at a time, during which the user can do nothing. An exception leaves the handler as
it does in the code. Fields hold what their patterns let pass, "00" included. The choice
of a file, the readers, the charts and their zoom are left out.

### MotionDetection

Each request is a thread, `classify_frame` a process; an actor is at a site (a use of a
queue in the code) and a step of it: `look` (`empty()`), `get`, `put`. A queue is the
place of its one item: free (`room`), with the feeder thread of a process (`buffer`:
`put` has returned and `empty()` is still true), in the pipe, or gone. `draw`, `mark`
and `crop` borrow the area the same way and share their actions; `Compare` is what a
process makes of the size of the frame it gets. `Killed` is `terminate` at any point: it
takes along what the process holds. `jammed` and `writing` are the two locks of a queue,
as far as a process can die with them: that of `get`, and the write lock, which a feeder
thread takes, keeps while it writes the item to the pipe (`FeedWrite`) and releases
(`FeedRelease`). The item can be taken before the release, so a process may be killed
with the lock in its hand although the item has long gone round; then nobody's puts to
that queue arrive any more. Killed between the lock and the write, the process takes the
item along as well. A write counts as whole, as that of an area is; a process killed
within the write of a long list of contours also stops the thread that begins to read
it, which is not modelled. The server's feeder threads write and release in one step,
since nothing ends the server. The histories `added` and `lost` count the two ways the
code has to change the number of areas. The increments of `clients` and the making of a
process are one step each.

## 3. Runs

| Run | Instance | Shows |
|---|---|---|
| `barbershop` | 3 clients, 2 seats, 1 visit | seats, queue, cuts, invitations and order agree in every interleaving; everyone is served although clients are turned away |
| `barbershop_posix` | 2 clients, 2 seats, 2 visits, 1 process ended | the shop opens, and opens again write by write, soundly; whoever came is served while nobody was cut short inside or met a write there |
| `buffer_sem` | 3 producers, 2 consumers, 4 slots, 6 lines | tokens and ring agree; the program implements the channel, with its fairness, so it ends |
| `buffer_mutex` | 3 producers, 2 consumers, 3 slots, 4 lines | no wake-up is lost; the program implements the fair channel, so it ends |
| `calc_server` | 2 clients, 2 names, room for 2, 1 order | list and clients agree; clients read what they expect; pings are counted and reach all; an order is answered once; nobody is dropped without cause; a login is answered |
| `calc_server_udp` | a local and a web client, 2 names, room for 2, order 5, one repeat | the list is sound; the local client is not disturbed by the web |
| `msg_server` | 3 clients, 2 places, 1 command each | table, ids and answers agree; places come back; whoever asks or introduces itself is answered unless others have all the places |
| `msg_server_posix` | 3 servers, 2 clients, 1 place, 1 command each | tables and the name are right; overtaken requests are answered to the next owner of the place or to nobody, and never fill its queue |
| `signal_counts` | 3 children, every K | the parent ends unless a signal was merged, and leaves no child but in the named windows |
| `motion_detection` | 2 threads, 1 process, 1 save, 2 of on and off | the area is neither lost nor doubled but in the named ways, is the one saved last, and comes to whoever waits; one thread saves, says on and off and marks, the other shows the area |
| `stockwinner` | 3 files of 2 or 3 days, up to 3 conditions | the form shows the rules; rules act on their verdicts; trades keep the value |
| `stockwinner_percent` | one file, 1 condition | *violation*: a rise to 150 percent meets a condition that asks for 200 |

**Bounds.** Each instance is the smallest in which the case of interest arises: more
actors than places (a full waiting room, table or ring), more rounds than places (so
that slots, names and ids are reused and indices wrap), and two actors of every kind
whose steps can collide. `S`, `Lines`, `MaxOrders`, `MaxRequests`, `MaxRepeats` bound
how often an actor does a thing; nothing depends on their values but the length of
behaviours. Where section 4 has proofs, they remove the bounds: for both barbershops,
both rings, both calculator servers, both request servers, the signals and the motion
detection. `MaxFaults` is 1: of what a second death adds, most is unsound already, and a
barber killed while it takes over a shop is in the proof. The run ends each behaviour
where `sound` is given up (`SoundSoFar`): of the properties, only `MutualExclusion`
promises anything beyond, and that is proved for all those states. Two seats and two
visits make the queue wrap around, and let one client meet the slot another was given
before the barber's writes. `motion_detection` gives the two threads roles (`Roles`),
which removes only requests that nobody need make: the ways of taking the area (save,
mark, draw) meet each other and the process two at a time. Three servers are needed for one to take the name of
another and a third to start beside it. Symmetry is used in `calc_server_udp` alone, for
sets the module treats alike; the other runs check liveness, with which TLC's symmetry
is unsound. `calc_server` instead lets one process have a given name (`InitOneNamed`):
names are only compared.

**Fairness.** Barber, clients and threads get strong fairness where they wait for a
semaphore or mutex: kernel and libc keep the waiters of a semaphore queued or wake one
of them at each post, and the code sleeps or does other work between its critical
sections. In `CalcServerTcp` the mutex is strongly fair for main for this reason (the
ping thread sleeps 10 s after each round, the terminal thread waits for a line), and so
is `epoll_wait`, which returns one event at a time and rotates the ready list; the rest
of main, and what a thread does with the mutex in hand, is weakly fair. So are the
servers and waiting clients of `MsgServerPosix` and `MsgServerSysV`, each a loop over a
blocking receive, and main, the handlers and the children of `SignalCounts`, since the
kernel runs them. In `MotionDetection` the feeder threads of the area's queue, to write
and to release, and the holder of the area are weakly fair, which asks nothing of a
feeder thread whose lock has died with another process, and whoever waits for the area
is strongly fair: the lock of `get` is a semaphore. Nothing the environment does is
fair: nobody need type an order, leave, be killed, save an area or be woken spuriously.

**What the liveness properties leave open**, since the code does:

- `lab9`: with more producers than slots `main` may never return from its joins. In
  `zad2` exactly because a producer that meets the end of the book keeps the place it
  took (`lab9/zad2/main.c:102`); in `zad1` because it signals nobody. `ExitsAreBounded`
  proves the first as a fact, and `ImplementsFairChannel`, under which the program ends,
  is checked where it holds.
- `lab10`: an order typed while nobody is logged in leaves `clients_mutex` locked
  (`continue` at `lab10/zad1/server.c:297`, `lab10/zad2/server.c:260`); from then on
  nobody is answered. `LoginAnswered` names this exception.
- `lab6/zad1`: a refused client waits for ever, for the refusal goes to queue 0. In
  `zad2` a client waits for ever for a server that has gone, or when its INTRODUCE found
  a table that others fill. `EveryoneAnswered` names these exceptions (`TurnedAway`); a
  client whose own registration fills the table is answered.
- `lab7/zad2`: a process that ends inside the shop takes semaphores with it, and a
  client that is inside at a write of `init_shared` finds the flag of the barber before
  or loses its entry in the queue, so that it and the barber may wait for each other;
  `ServedWhileSound` asks nothing after either.
- `lab4/zad2`: a merged signal is a child that is never let go or never counted;
  `EndsUnlessLost` names it. The parent may also end with a child alive while main
  counts it (`NoChildLeftBehind`).
- `OpenCV-detection-server`: a save that finds the queue empty (line 40) adds a second
  area, and somebody then waits to put one back until another takes one; `terminate`
  (line 69) may take the area along, or one of the two locks of its queue: after that of
  `get` nobody takes the area any more, after that of the feeder threads nobody's put
  arrives. `AreaComesBack` names all of these. Viewers and
  process can also come to a stop together, with a frame and detections in both queues;
  no property denies it.

**Divergence found.** `PercentIsReached` (run `stockwinner_percent`): `divide` without a
scale rounds the change of the price to the digits of the price (`Strategy.java:46`), so
that a rise from 20 to 30 meets a condition that asks for 200 percent.
`StrategyTest.testEvaluateWithInvalidBuy` (`StrategyTest.java:108`) expects the
contrary, and passes because its mocked list has no index.

**Worth knowing, though no text of the repository contradicts it.**

- `lab7`: `CustReady` and `BSSeat` name no client, so the barber may print the start of
  a cut on a client that still sits in the waiting room while another has the chair. The
  cuts themselves are right (`CutsMatchChairs`, proved).
- `lab10/zad2`: a client refused because its name is taken sends LOGOUT at its exit and
  so logs out the holder of the name; `LeavesForCause` is therefore stated for local
  clients with a name of their own. A local client that was killed refuses the next
  ping, which ends the server.
- `lab6/zad2`: STOP overtakes the requests sent before it, and their answers may reach
  the next owner of the place (`AnswersAreOwn` says which). A server that could not
  start leaves the running one without a name.
- StockWinner: `BUY 100` never buys, for it would leave nothing (`Portfolio.java:35`),
  though the field prompts for 1 to 100; the percentage of a condition is rounded to a
  whole number (`Strategy.java:22`), so that a rise by 5 percent is any day without a
  fall. A rule that cannot be evaluated acts on the verdict of the rule before
  (`RulesActOnVerdicts`).
- `OpenCV-detection-server`: on without an area ends the process at its first frame (the
  crop is empty), and an area saved while the system is on stops the detections (the
  size no longer matches the first frame). An on that comes before a terminated process
  has ended starts none.

## 4. Proofs

`tlapm` checks every theorem for all values of the constants, under the named
assumptions of the modules: finite sets of processes, at least one seat or slot, natural
bounds, and that the processes and queues a module tells apart are different things.

**Barbershop** (`BarbershopProofs`). `TypeCorrect`,
`OneProcessInRoom`, `SeatsAreAccounted`, `QueueIsSeats`, `CutsAreMatched`,
`BarberSleepsInEmptyShop` and `ClientsServedInOrder`. None of the properties is
inductive: to know that a seat is free one must know who was called and has not left
yet, and to know that, which tokens are about. `IInv` adds `Accounts`, seven equations
between semaphore values and the number of processes at sets of labels (who has the
room, who has the flag, seats, announced, bound for the chair, called, in the chair),
`FlagInv` (the flag is up only in an empty room) and `InviteInv` (one invitation at a
time). A semaphore call moves a process and a token and so changes both sides of each
equation alike (`ClientBalance`, `BarberBalance`); only the steps that touch the shared
segment need arguments of their own. `ClientsServedInOrder` uses lemmas about
`FifoQ`: `Enqueue` appends to `Contents`, `Dequeue` takes its head, whatever the
wrap-around. `InvitationsAreTaken` needs more: `Dequeue` leaves `front` where it is when
it takes the last entry, so the next client is given a slot whose last owner has not yet
left the waiting room. `SlotInv` therefore does not say that slots are unique; it counts
for each slot the clients that wait there, as many as there are queue entries, calls in
progress and open invitations of that slot together.

`ShopOpensSound` is about `BarbershopPosix` and uses the lemmas about each call again:
they speak of `books`, the left-hand sides of `Accounts`, which a client keeps wherever
the barber is (`Kept`). `SoundInv` has a case for each way the shop may be found while
nobody was cut short inside: not yet written for the first time (`Blank`), closed,
served (`IInv`), or left (`Left`) with the books of a barber that is about to look (0)
or that sleeps (1). `Left` covers the writes of `init_shared` too: a client may come in
by the semaphores that are left before, between and after them, and keeps the books as
it does anywhere, while a write that finds the shop empty leaves them in order
(`WriteEmpty`, `WrittenQueue`). The flag is where the two meet: before the write of
`barberSleeps` the books may be those of a sleeping barber, and a client may answer the
flag with a `CustReady` nobody waits for. It is inside then, so that the write gives
`sound` up; one that comes later finds the flag down.
`MutualExclusion` holds even after somebody was cut short: `MadeInv` says that the room
is never passed to more than one and that `sem_open` makes `WRSeats` once.

**The two rings** (`BufferProofs`). Both programs of `lab9` are in one module, since
they share the ring and the channel they implement. `BufferSem` is extended: its
theorems are `OneThreadInRing`, `TypeCorrect`, `TokensAreAccounted`, `ExitsAreBounded`
(more producers than slots never all exit), `LinesComeOutInOrder` and
`SemaphoresImplementChannel`. `Inv1` is types, `LockInv` (who holds `counting_sem`) and
the two accounts; `Inv2` adds `RingInv`: indices are the numbers of lines put and taken
modulo `N`, and line `j` lies in slot `(j - 1) % N` from its copy to its claim. With
`EndInv` (no producer leaves before the end of the book) each step is shown to be a step
of `BoundedChannel` or a stutter.

`BufferMutex` is the instance `CV`, over the same constants and the same ring; what it
assumes beyond them, that main and nobody are not among the threads
(`ThreadsAssumption` of that module), is the hypothesis `Apart`. The theorems are
`NoWakeupIsLost` and `CVImplementsChannel`. `CVInv1` is types, `CVLockInv` (who works
between lock and unlock has the mutex), `RoomInv` (what a thread found in the ring still
holds when it acts on it) and `WaitInv` (who waits is asleep). On top of it the two
halves of `NoLostWakeup` are inductive: the one who is awake and will see the room or
the line hands over by its signal to the one it wakes. The refinement takes a ring and
an end invariant as for `BufferSem`, with a line or place that `count` does not show yet
while its thread is between copy and count.

`BoundedChannel` is the instance `Abstract`: `ChannelTypeCorrect`, `ChannelLosesNothing`
and `ChannelDelivers` are what both programs inherit.

**CalcServerTcp** (`CalcServerTcpProofs`). `ListIsBelieved`, `ClientsReadSense`,
`PingsAreCounted`, `OrdersAreInOnePlace` and `NobodyLeavesUncaused`. The invariant is
built in four layers, each of which uses the ones before. `AgreeInv` is about sessions:
who holds the mutex (`Holders`), what the message in main's hand says of its sender
(`HandInv`), that a LOGIN is the first thing in a stream and nothing but a LOGOUT
follows before it is handled (`StreamInv`), and that a process that has sent LOGIN is
pending, closed or in the list (`ConnInv`). It has to say of a PONG in hand, whose
sender main looks up by name only, that nobody else has that name: a LOGOUT and a LOGIN
of a namesake cannot come between, since main handles one message at a time. `TalkInv`
is the grammar of the stream to a client: an `operation_t` stands behind REQUEST and
nowhere else, and the terminal thread owes one just while it is half through
(`Half`); no ping comes between, for the ping thread needs the mutex. `PingInv` is
`InactiveCountsPings` with the bound of 1 that keeps the `uint8_t` from wrapping.
`CounterInv` and `OrderInv` say that numbers from `operation_counter` on were sent to
nobody and follow an order from place to place. `NobodyLeavesUncaused` is an action
property and needs the first layer alone.

**CalcServerUdp** (`CalcServerUdpProofs`). `ListStaysSound`, `OrdersAreTheAddressees`,
`LocalClientsUnderstand` and `NobodyLeavesUncaused`: for any number of clients, orders
and repeated datagrams, whatever the network loses, repeats or puts in another order.
The invariant has four layers. `Types` and `ListInv` are about the server: the ping and
terminal threads hold the mutex while they go through the list (`Holders`), so that the
place they are at stays that of the same client. `OrderInv` says that the number of an
order becomes known only to its addressee: it is inductive only together with what is
in each queue and in each client's hand. `LocalInv` is about local clients. It is the
grammar of their queue (`Talks`: an answer first, an `operation_t` behind each REQUEST
and nowhere else), with the `operation_t` the terminal still owes (`Owes` just while
`Half`); and, since a client that is listed twice or answered twice would break it,
that its LOGIN is on the way at most once (`LoginOnce`) and that nothing is sent to it
before (`Starts`). `PingInv` counts: as long as a local client with a name of its own is
there, `is_inactive` is the number of pings it has not been seen to answer, be they in
its queue, in its hand, in the server's socket or in main's hand (`Counted`). A drop by
the ping thread therefore means that the client owes a PONG, which is what
`LeavesForCause` asks of a step that takes it off the list; the other cause, a LOGOUT,
is sent only by a client that is gone (`Leaving`).

**MsgServerSysV** (`MsgServerSysVProofs`). `TableStaysRight`, `AnswersReachTheirAskers`
and `NoPlaceIsLost`, from one invariant. `RequestInv` says what lies in the server's
queue (an introduction is all its client has sent, a STOP is its last), `ClientInv` what
a client at each label has sent and been sent, `OwnInv` that of one request and its
answer at most one is on its way, but for `zero`, `TableInv` that who was given a place
keeps it until its STOP is handled. Each handler is shown to disturb only the client it
is about. The refusal of a newcomer, sent to identifier 0, may end up in a client's
queue, in the server's own queue or nowhere; each is a case.

**MsgServerPosix** (`MsgServerPosixProofs`). `TablesStayRight`, `EveryPlaceComesBack`
and `AnswersFindTheirAskers`, for any number of clients and of runs of the server. STOP
overtakes, so the order in a server's queue says less than in `MsgServerSysV`: `Between`
describes a queue in which a message was put in anywhere (`InsertAtIs`), and all that
`LifeInv` says of a queue stays true of it. `RequestOf` says of each message what it
tells about its sender, `Once` that a client introduces itself and stops once, `LifeOf`
that a client without an identifier finds its place in its first answer and one with an
identifier has that place until its STOP is handled. On it rests `PlaceInv` (who is in
the table was given that place and has not taken its leave), and on both the first two
theorems. `OthersInv` is for the third: an answer a client did not ask for comes from a
command of the previous owner of its place (`Foreign`). `RoomInv` shows that such
commands never fill the queue of an owner, on which the server would wait: the messages
in that queue, the commands with its identifier that wait at the server, and one more
while the owner may send, stay below `MaxMsg`. When a place is handed on, its new owner
finds two places more than the old commands can take, since the new owner's INTRODUCE is
in the same queue as they are.

**SignalCounts** (`SignalCountsProofs`). `ParentLeavesNobody`, for any number of
children. `handler_CHLD` ends the parent when it has counted `n` down to 0, while main,
which it interrupts, counts `n` up (load and store apart). `CountInv` bounds it
from below: the children that are not gone, and the end of one that is pending or in the
hands of the handler (`Owed`), are at most `n`, with one more while main is counting
the child it has just forked; the same for the value main has loaded. Signals that are
merged, and an `n--` that the store of main undoes, only leave `n` too high. `ArrayInv`
and `KillInv` are for SIGINT: until an end has been counted during the forks, the array
holds the children in the order of their forks, and those `killEmAll` has passed are
gone. `StackInv` says that no handler runs twice at a time, which the counting needs;
`BornInv`, that who has not been forked does nothing.

**MotionDetection** (`MotionDetectionProofs`). `AreaGoesRound`. The number of areas is
that of the actors at a put of the area and of the queue: `CountInv`. To count a kill
right one must know that an area is in hand just at these labels (`HandInv`), and that
only what waits for a feeder thread belongs to a process (`QueueInv`). The two locks
that may die with it stop others, but change no number of areas. `SaveInv` bounds
the areas a save may still add, and `SavedInv` is kept by the end of a save because its
area is then the only one there is (`CountUnique`).

**Only model-checked.** Liveness and fairness refinement, which need `ENABLED` and are
out of the prover's reach. `StockWinner` and `Decimals`: `TradesKeepValue` rests on
powers of the base, whose laws need induction over the exponent; `FormShowsRules` and
`RulesActOnVerdicts` speak of lists of any length through `FlattenSeq`, `SelectSeq` and
`FoldLeft`, of which only induction over the list shows anything.
No module that is proved about declares a RECURSIVE operator, and what needs induction
over data was stated through functions of an index instead.

## 5. Plan

Done: (1) `FifoQ`, `Barbershop` and their proofs; (2) `BoundedChannel`, `BufferSem`,
`BufferMutex`; (3) `CalcServerTcp` and its proofs, `CalcServerUdp`; (4)
`MsgServerSysV` and its proofs; (5) `MsgServerPosix`; (6) `BarbershopPosix`, its proof
in `BarbershopProofs`; (7) `SignalCounts`; (8) `Decimals`, `StockWinner`; (9)
`MotionDetection` and its proof.

(10) `BufferProofs`, `SignalCountsProofs`, `CalcServerUdpProofs`,
`MsgServerPosixProofs`.

Next proofs: those of `StockWinner`, with a prover that has induction over data, or with
the lists of the form read through functions of an index.

Next modules: `Pipeline` (`lab5/zad1`: a stage starts only when the one that feeds it
has ended, so a full pipe stops both); the two queues of `face_detection.py`; pure
functions against reference definitions: the columns of `lab8/zad1`, the sort of
`lab2/zad1`, the block table of `lab1`.

## 6. Not modelled

- In modelled programs: printing, formatting, parsing of arguments and configuration,
  what `calc` computes, memory management (the freed ring in `funAtExit` of `lab9`, the
  missing byte of `calloc(strlen)`), a message cut in two by SIGINT in `lab10/zad1`,
  pictures and contours of the OpenCV server, the charts of StockWinner.
- Programs still to come: `lab4/zad1` and `lab4/zad3` (smaller uses of what `lab4/zad2`
  has), `lab5`, `lab8`, the sort and the block table of `lab1` and `lab2`,
  `face_detection.py`.
- `lab3` and the rest of `lab1` and `lab2`: sequential reading and writing of files,
  walking of directories. The readers of JSON, XML and CSV, the JavaFX views and the
  computer-vision library: input and output. The slides of `Conferences`.
