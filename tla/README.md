# Specifications of EOS_2025

TLA+ modules, TLC runs and TLAPS proofs for the programs of this repository.
The first part is an inventory of the whole repository; the rest describes what
is modelled, checked and proved, and what is still to come. Line numbers refer
to the files under `src/`.

## 1. Inventory

| Component | Source | State | Operations | Modelled |
|---|---|---|---|---|
| Couriers and scheduling | `hw2/hw2/hw2.c` | `delivery_persons[2]`, `delivery_mutex` | `order_point_to`, `update_logic`, the quote in `confirm` | yes |
| Client sessions | `hw2/hw2/hw2.c` | locals of `handle_client`: restaurant, distance, six counters, amount | `shop list`, `order`, `confirm`, `cancel`, prompt, end of connection | yes |
| Shop table | `hw2/hw2/hw2.c` | `shops[3]`, constant | five lookup functions | yes |
| Web ATM server | `lab6/server.c` | `account_balance`, semaphore `SEM_KEY` in the kernel | start, `P`, `V`, deposit, withdraw, `cleanup` | yes |
| ATM client | `lab6/client.c` | one connection | request, wait for ACK, repeat | as environment |
| Number guessing | `lab7/game.c`, `guess.c` | shared `guess` and `result`, the interval of `guess`, pending signals | timer, `SIGUSR1`, clean-up | yes |
| Shared memory demo | `lab7/shm_server.c`, `shm_client.c` | 27 bytes of shared memory and the key's binding | write a..z, read, answer `*`, remove | yes |
| Train server | `lab5/lab5.c` | descriptors of each process, children, `SIGCHLD` | accept and fork, reap, SIGINT | yes |
| Seven segment driver | `lab3/lab3_driver.c`, `lab3_writter.c` | `id_buffer`, `id_length`, `idx` | `read`, `write` | yes |
| Sixteen segment pipeline | `lab4/mydev.c`, `writer.c`, `reader.c`, `seg.py` | `display_buf`, frames on their way | write, read, display | yes |
| Menu program and driver | `hw1/HW1_writer.c`, `HW1_driver.c` | order of one person, LEDs, digits, what `scanf` leaves | menu, confirm, show | yes |
| Build files, kernel build output | `Makefile`s, `*.mod.c`, `demo.sh` | none | start the programs | no |

**hw2, couriers and scheduling.** One thread per client and one background
thread meet in the array `delivery_persons`, the seconds of work each of two
couriers still has. `order_point_to` (l.167) picks the courier with less work,
adds the trip, returns the sum, and the client's thread sleeps that long;
`update_logic` (l.199) takes one second off both every second. Nothing else ties
a thread's sleep to its courier's counter: that the two countdowns agree is a
property of the whole, as is the first come, first served order that
`src/README.md` asks for. *Hard:* interleavings of assignments, ticks and quotes;
two timers with a phase of their own; the quote, read in a first critical
section (l.402) and acted on in a second (l.451) with a prompt in between.
*Correct when:* the couriers stay balanced, no order's time is lost from the
array, nobody queues while a courier is idle, orders of one courier arrive a trip
apart and all are set out for in the order of assignment; a quote is wrong by no
more than the orders that came in between; nobody hangs in the mutex.

**hw2, client sessions.** `handle_client` (l.233) runs a loop over `recv`. The
first order of a sold dish fixes the restaurant and the distance. `confirm`
refuses an amount of 0, asks the client if the wait is long (30 or more), then
assigns, sleeps and delivers. Every error path ends in `close`. *Hard:* sequences
of commands (dishes nobody sells, quantities that are zero, negative or
overflow), clients that leave at any point, including during the prompt and the
sleep, a process that dies of SIGPIPE. *Correct when:* an order never mixes
restaurants, the amount is the bill of the counters, and every session ends.

**lab6, Web ATM.** A thread per connection changes a balance in the memory of
its process between `P` and `V` on a System V semaphore. The semaphore belongs
to the kernel: a second server finds it, a killed server leaves it behind in
whatever state it was, and `cleanup` removes it from under everybody. `P` and
`V` report failures that `handle_client` does not look at. *Hard:* the window
between `semget` and `SETVAL`, kills between `P` and `V`, a second server, reads
and writes of the balance in separate steps. *Correct when:* the threads of a
server that takes requests change the balance one at a time, no update is lost,
no covered withdrawal overdraws, the semaphore's unit is neither doubled nor
lost except with a killed process, and every request is answered.

**lab7, guessing.** `guess` fires a timer every second, reads the shared result,
halves its interval, writes the next guess and sends `SIGUSR1`; `game` compares
in the handler. Nothing but the length of a second orders the answer before the
timer. *Hard:* a result that is still the one of the previous guess, a word that
is being copied, signals that merge or meet a process without its handler, the
segment of an earlier game that was killed with its hint in it, perhaps under a guess
that still runs. *Correct when:* the interval always holds the number,
the two processes are a binary search, and it ends.

**lab7, demo.** A server writes a..z into a segment found by key and waits for a
`*` in the first cell; a client prints up to the terminator and writes the `*`.
*Hard:* several servers share the segment, several clients answer, a killed server
leaves it with old contents, and it is removed by identifier while others are
attached. *Correct when:* a reader gets the letters from the first on, the server
ends, and the segment is removed.

**lab5, trains.** The server forks a child per connection, which becomes the
program `sl`. Descriptors are copied by `fork`: a connection or the port is only
given back when all copies are closed. `SIGCHLD`s merge; SIGINT closes the
listening socket but the loop goes on. *Correct when:* no child stays a zombie,
every connection ends for its client, nobody waits for another's train, and
after Ctrl-C the port becomes free.

**lab3, seven segments.** `write` replaces a text, every `read` shows one
character and moves an index, without a lock. *Hard:* a write between a read's
test of the length and its use, two writes at once. *Correct when:* the display
is a marquee of the last text, and no read leaves the buffer.

**lab4, sixteen segments.** Writer, one-character device, reader and display each
sleep on their own, and `recv(16)` may return a part of a frame: the display then shows
halves of two letters, the second half of one in the place of the first, until it has
caught up. *Correct when:* no part of the display goes back to an earlier letter, and
once the display has caught up both parts keep the last one; in between letters may be
lost, repeated or mixed.

**hw1.** A menu over a driver that counts a distance down on LEDs and shows the
bill. *Hard:* `scanf` never removes a word; two programs light and clear
the same LEDs. *Correct when:* the LEDs are off when nobody is in the driver.

The components do not interact with each other: every exercise is a program, or
a pair of programs, of its own.

## 2. Modules

    Menu ------------------------------- MCMenuServer
    OrderCart --- DeliveryServer ------- MCDeliveryServer, MCMenuServer
        |              | implements
        |         CourierPool ---------- MCCourierPool
        |              |
    DeliveryServerProofs  CourierPoolProofs
                  \    /
            DeliveryPoolProofs

    AtmServer -------------------------- MCAtmServer           AtmServerProofs
        | implements Account
    GuessGame ---------- MCGuessGame --- MCLab7 --- ShmDemo    GuessGameProofs, Lab7Proofs
        | implements BinarySearch
    TrainServer ------------------------ MCConnections --- CommandStream
                                                               ConnectionsProofs
    SegmentDriver ---------------------- MCDevices --- SegmentPipeline, MealDisplay
        | implements Marquee                                   DevicesProofs

**CourierPool** is the abstract specification of the platform: an order is
assigned in one step (`Assign`), a second passes for every sleeper (`Elapse`), a
round of `update_logic` takes a second off both couriers (`Tick`), a thread wakes
up (`Arrive`). `remain` is the array; `left[c]` is what is left of the sleep of
c's thread. `turn` and `tickets` are history variables: the order of assignment.

**OrderCart** is the order in the locals of `handle_client`: `Refused` is the
comparison of restaurants, `AddDish` the effect of an accepted `order d q`, with
the arithmetic of a C `int` of any width. **Menu** is the shop table and its
lookup functions; the runs on the real menu take their constants from it.

**DeliveryServer** is the server with its threads. A step is what a thread does
between two points where another thread, its client or the clock can matter: a
blocking call, an access to the array, an unlock.

| Code | Actions |
|---|---|
| `main` l.537-556 | `Accept`, `AcceptFails` |
| the loop of `handle_client` l.250-268 | `RecvOther`, `RecvEof` |
| `order` l.269-391 | `RecvOrderRefused`, `RecvOrder` |
| `confirm` l.392-401 | `RecvConfirmEmpty`, `RecvConfirm` |
| the quote l.402-424 | `QuoteLock`, `QuoteRead`, `QuoteUnlock` |
| the prompt l.426-448 | `PromptAccept`, `PromptNo`, `RecvEof` |
| `order_point_to` l.167-192 | `OrderLock`, `OrderSelect`, `OrderAdd`, `OrderStore`, `OrderUnlock` |
| l.450-468, 487 | `Notify`, `Arrive` |
| `cancel` l.471-476 | `RecvCancel` |
| `update_logic` l.199-226 | `UpdateLock`, `UpdateDec0`, `UpdateDec1`, `UpdateUnlock` |
| `sleep` | `Elapse` |
| `sigint_handler` l.64-70; an unhandled SIGPIPE | `Interrupted`, `WritesToClosed` |
| the client closes | `ClientLeaves` |

It implements CourierPool (`ImplementsPool`): an order is assigned when its total
is stored, a round of `update_logic` happens at its first decrement, and the pool
sees a courier's time as it will be at the end of the round (`poolRemain`).

**AtmServer** is the ATM: server processes (`Start`; the first semget, `Create` or
`Exists`; the second, `Find` or `FindFails`; `SetVal`, `Listen`, `ListenFails`, `Exit`;
Ctrl-C before the process has a semaphore, `InterruptEarly`, and later, `Interrupt`;
`Kill`), the one semaphore that the key names,
and the thread of each connection (`Recv`, `P`, `Check`, `Load`, `Store`, `V`,
`Ack`). The read and the write of `account_balance +=` are two steps. Identifiers
of semaphores are not reused, so that a server can be left with one that is gone.
A server is `Sound` while it takes requests and its semaphore is still there. A
sound server implements **Account** (`ImplementsAccount`), in which a request is
carried out in one step, on the balance of that moment and before its answer; a
server that is not sound shows an account of 0 and no requests there.

**GuessGame** has each access of `game` and `guess` to the segment as a step: the
comparisons of `sigusr1_handler` (`Deliver`, `Compare`), the copying of the
word in pieces (`CopyBegin`, `CopyEnd`), the comparisons of `timer_handler`
(`HandlerBingo`, `HandlerSmaller`, `HandlerBigger`), the new guess and its signal
(`Guess`, `Kill`), and Ctrl-C and restarts on either side. `Die` is any other signal: game
ends at any point and leaves the segment with the hint as far as it is written.
`StartGame` follows with that segment, also while guess still runs, or with a new one;
`paired` says whether guess was started with the PID of the game that runs, and
the search is what such a guess does (`Searching`). `Late` says whether the timer may
overtake game. It implements **BinarySearch**: begin with everything,
halve at the guess, end when the guess is right.

**ShmDemo** has the servers (`Create`, `Write` letter by letter, `Poll`, `Remove`,
`Kill`) and the clients (`Attach`, `Read`, `WriteStar`) of the demo. A segment is
called by the server that made it and `named` is what the key finds.

**TrainServer** has `main` (`Accept`, `Fork`, `ForkFailed`, `Close`), its handlers
(`HandlerBegins`, `Reap`, `HandlerEnds`, `Interrupt`), the children (`CloseListening`,
`Exec`, `End`) and the kernel's part (`Connect`, `Leave`, `Reset`, `EndOfFile`). Which
process holds which descriptor follows from where it is.

**CommandStream** is the assumption DeliveryServer makes of `recv`, one command
per call: commands are pieces and a line end, `recv` returns some of the pieces that
have arrived, and the code keeps what precedes the first line end (`FirstLine`). A command
is of a kind: most are answered (`Stay`), cancel and confirm end the session (`End`), and a
confirm may ask and receive once more (`Ask`, `RecvAnswer`, where any line is an answer).

**SegmentDriver** has `lab3_write` (`Copy`, `Terminate`, `SetLength`, `Reset`)
and `lab3_read` (`Check`, `Fetch`, `Advance`, `Store`) access by access; `together`
says whether programs may be in the driver at the same time. One after the other
they implement **Marquee**: a text, a place, and one character shown at a time.

**SegmentPipeline** has writer, device, reader and display (`WriteLetter`,
`ReadDevice`, `Send`, `Update`, `Interrupt`, `CallFails`); a letter is its place
in the name, a frame two halves. `Receive` gets one or two halves from wherever the last
call stopped, and shows the first in the first part of the display; `segs` is what the two
parts show. `split` says whether the connection may still cut (`CutNoMore`).

**MealDisplay** has the menu (`Main`, `Shop`, `Item`, `Amount`, each a `Scan`) and
the loops of the driver (`Light`, `Clear`, `ShowDigit`). `Scan` is `scanf("%d")`:
once the input starts with a word it fails for ever and the variable keeps what it
had.

The programs share nothing. A run that checks several of them starts with a choice
of one (`pair` in MCLab7, `used` in MCConnections, `device` in MCDevices), the
others stand still, and the fairness of a module holds for its own behaviours. The
states of such a run are the sum of the instances', not their product.

Operators commented "A bug:" stand beside the operators they vary. No run uses
them; each shows that some property notices that mistake.

## 3. Runs

Each passing run checks its instance completely. Deadlock checking is off because
every program may stop for good: all orders delivered and nobody typing, or the
processes ended.

| Run | Instance | Distinct states | Shows |
|---|---|---|---|
| `pool` | 4 orders, distances 3 and 8 km, the nearest and farthest shop | 903 337 | all safety properties of the pool |
| `race` | 3 clients, distances 2 and 3, one piece each, long wait 4 | 510 116 | types, `QuoteHolds`, `ImplementsPool` |
| `sessions` | 2 clients that leave at any point or get no thread, dishes 1 and 2 s away, long wait 2, fairness | 74 649 | `OrderServed`, `CouriersRest`, `SessionEnds` |
| `ordering` | 1 client, all commands, Ctrl-C, the real menu and a dish nobody sells, quantities -1, 0, 2, a 9 bit int | 144 130 | `CartsOneRestaurant`, `CartsCharged` |
| `atm` | 2 clients, two servers with all faults, fairness | 188 761 | types, `OneInSoundServer`, `SemaphoreAccounted`, `ImplementsAccount`, `RequestServed` |
| `lab7` | numbers 1 to 15; two servers and two clients of the demo, three letters; fairness | 124 647 | types, `TargetInInterval`, `ImplementsBinarySearch`, `UntilGuessed`; `ReadsFromTheStart`, `NothingLeft`, `ServerEnds` |
| `connections` | 3 clients of the train server; 3 commands of 2 pieces, each of any kind; fairness | 96 241 | types, `ZombieNoticed`, `NobodyKeptWaiting`, `ConnectionEnds`, `PortFreed`; `NothingMixed`, `LockstepAnswered` |
| `devices` | lab3: 3 programs, texts of 1, 3 and 4 characters, buffer 4; lab4: a name of 4, 3 frames on their way; hw1: 2 programs, 2 shops, 3 LEDs; fairness | 162 625 | types, `ImplementsMarquee`, `EveryCharacterShown`, `ReadsInside`; `NeverBackwards`, `LastLetterStays`; `AllOffAtRest` |
| `long_wait` | as `race` | violation | a long wait that was never announced |
| `nothing_ordered` | 1 client, the real menu, quantities -3 and 4 | violation | "Please order" to a client with four cookies |
| `atm_second` | 2 clients, two servers | violation | two threads in the critical section |
| `guess_late` | numbers 1 to 5, a timer that may overtake game | violation | the number excluded by an old hint, a search without end |

**Why these bounds.** *pool:* with four orders on two couriers there are queues
of two and three and orders that overtake nothing; the distances are the extremes
of the table, and no counter is cut: the state space is finite because each client
orders once. *race:* three clients give a client whose quote goes stale twice,
once for each courier, and races of all three with the updater inside each
other's critical sections; distances are longer than the one second of phase
between the timers, and the long wait (4) is met by a second order on a courier
and not by a first, as with 30 in the code. Faults are off there: a client that
leaves touches neither the mutex nor the array, which `Outside` in the proofs
states for every instance. *sessions:* one order each, one shop below and one at
the long wait, so that both branches of `confirm` are taken and left at any
point. *ordering:* the counters are kept within
`MaxCount` = 4 pieces, the int is narrowed to nine bits, so that four pieces of
a dish exceed it and the amount wraps around. *atm:* one amount suffices because
only equality of sums and being covered matter, and a second request may find 0, 1 or
2; `MaxBalance` stops new requests beyond it. (Negative amounts, which `sscanf` reads as
well, are in the theorems and not in the run.) Two servers are enough for every case
of the code: the first one, one that finds the semaphore, one that finds the port
taken, one after a killed one. *lab7:* fifteen numbers are
four halvings, and games, interrupted or killed anywhere, follow each other without bound;
the int holds every sum. Three letters have a first, a middle and a last.
*connections:* three children so that two may end while the handler reaps the third;
demo.sh starts as many. A second recv can begin inside a command, at its end, or
behind it; three commands of any kind are one before and one after the one that ends the
session. *devices:* a text shorter than, as long as and longer than the buffer takes;
with three programs one can come between two accesses of each of two others. Lengths
are 3 of a buffer of 4 where the code has 127 of 128. A distance above and one below
the number of LEDs, an amount that counts and one that does not.
Symmetry of clients is used in safety runs only.

**Fairness.** Threads that can run do (weak fairness: the kernel schedules them).
A thread that waits for `delivery_mutex` gets it if it is free again and again
(strong fairness): the only thread that takes it for ever, `update_logic`, sleeps a
second between two takes, and every client takes it twice at most. The semaphore
serves its waiters in turn (System V semaphores queue), hence strong fairness of
`PTakes`. A server between `semget` and `SETVAL` goes on. Seconds pass (weak
fairness of `Elapse`). In the other modules every process that is started goes on
(weak fairness of each), the timer of guess repeats, and the kernel closes and
resets connections; a train need not end, because `sl` waits for a terminal that does
not read. The display of lab4 polls ten times a second (`seg.py:67`) and reader sends once
(`reader.c:67`), so it catches up, which fairness of `Update` does not say:
`LastLetterStays` has it as a condition, together with the end of cuts. Without that
condition the halves of the last letter may stay in each other's place, which TLC shows
at once. Clients, faults and the start of programs have no fairness: nobody has
to type anything.

**Assumptions on time.** `sleep` counts whole seconds. `update_logic` and a
client's thread count them with a phase of their own, which is why the pool's
properties are exact up to one second (`Slack`). A second does not end between
the addition in `order_point_to` and the start of the sleep: there is a `printf`
and a `send` into an empty socket buffer between them. `update_logic`, on the
other hand, may be late by any number of seconds.

**What the violations say.** `long_wait`: the comment at `hw2.c:417`
says that clients are asked if the time exceeds 30 seconds; the decision is taken
on a value read in another critical section than the one that assigns the order.
`ServerQuoteHolds` below bounds the error. `nothing_ordered`: the comment at
`hw2.c:395` takes an amount of 0 for an empty order, but quantities may be
negative. `atm_second`: the comment at `server.c:82` promises that `P` and `V` leave
one thread alone with the balance; a second server on the same port fails to bind and
removes the semaphore of the first, whose `P` then fails unnoticed.
`guess_late`: `src/README.md` says that the hints narrow the range until the number is
guessed; `timer_handler` takes whatever hint is there when its second is over.

**What the modules show but no run is kept for.** With the constants changed, each of
these is a counterexample of a few steps; none of them contradicts what a run checks. A
sum of bounds above `INT_MAX` makes guess leave its interval (`IntMax` below 2N,
`guess.c:34`). A demo client that comes while the letters are written answers `*` although
it has not seen them all. Two writes to lab3 that interleave leave the text of one with
the length of the other. A letter of lab4 that is overwritten before reader looks is never
shown, and after a cut frame the second half of one letter stands in the first part of the
display and half of the next in the second, for as long as the display is behind. Of two
commands in one `recv` hw2 drops the second, and of one in two parts it executes each
part. A guess whose game was killed ends on the `bingo` of an earlier one. After a word
hw1's menu takes no option any more.

## 4. Proofs

Every invariant, action property and refinement that a passing run checks is a
theorem, for every value of the constants that the assumptions allow. TLC evaluates each
assumption on the instances.

| Assumption | Says | Used by |
|---|---|---|
| `DistancesAssumption` | distances between 1 and `MaxDistance` | CourierPoolProofs |
| `MenuAssumption` | finitely many dishes, each with a restaurant or none; a dish nobody sells costs nothing; exactly "no restaurant" has distance 0 | the delivery server |
| `IntAssumption`, `ServerAssumption`, `ThreadsAssumption` | the range of int contains 0 inside; quantities are ints; the two markers are no clients | the delivery server |
| `AtmAssumption` | finitely many clients; the markers are no members of the sets | AtmServerProofs |
| `GuessAssumption`, and `Timely` in two theorems | numbers are ints; game answers within a second and no sum of bounds overflows | GuessGameProofs, Lab7Proofs |
| `DemoAssumption` | at least one letter; no process is both a server and a client | Lab7Proofs |
| `TrainAssumption`, `DeliveryAssumption` | the marker is no client; at least one command of at least one piece | ConnectionsProofs |
| `SegmentAssumption`, `DeviceAssumption`, and `Payable` in one theorem | room for a character and the terminator; a name; distances of at least 1; a bill of at most ten digits, as an int has | DevicesProofs |

`Timely` is a hypothesis and not an assumption because the runs also use instances in which
it is false: `guess_late` shows that without its first half the theorem fails, and
section 3 tells of its second.

| Module | Theorem | Says |
|---|---|---|
| CourierPoolProofs | `PoolTypeOK`, `PoolBalanced`, `PoolCovered`, `PoolWorkConserving`, `PoolTripsApart`, `PoolFcfs` | the invariants of the pool |
| DeliveryServerProofs | `ServerTypeOK` | types of the server |
| | `ServerMutex` | a thread is in a critical section exactly if it holds the mutex |
| | `ServerCarts`, `ServerCharges` | an order is of one restaurant; its amount is the bill |
| | `ServerQuoteHolds` | the bound on a stale quote |
| DeliveryPoolProofs | `ServerImplementsPool` | the threads implement the pool |
| | `ServerKeepsPromises` | hence the pool's invariants hold of the threads |
| AtmServerProofs | `TypeCorrect`, `OneUnit`, `OneInSound` | types; the semaphore's unit; mutual exclusion in a sound server |
| | `AccountImplemented` | a sound server is an account with atomic requests |
| GuessGameProofs | `TypeCorrect`, `TargetStays` | types; the number stays in the interval |
| | `BinarySearchImplemented` | the two processes are a binary search |
| Lab7Proofs | `TypesCorrect`, `NoLetterSkipped`, `NoSegmentLeft` | the demo: types, what a client reads, what servers leave behind |
| ConnectionsProofs | `NoZombieForgotten` | every zombie has a handler or a signal that will reap it |
| | `TypesCorrect`, `CommandsInOrder` | types; a line is of one command, and lines are in order |
| DevicesProofs | `NoReadOutside`, `MarqueeImplemented` | lab3: reads within the text; the marquee |
| | `LettersInOrder` | lab4: letters never go back |
| | `LedsOff` | hw1: no LED stays on |
| | `TypesCorrect` | the types of the three, digits included |

**The pool.** `IInv` is the conjunction of the six invariants and
`TicketsIssued`: nobody holds a ticket that was not issued, so that a new order
comes after all others. `TripsApart` and `Fcfs` compare two orders; when the later one is
assigned they need what the counters promise about the earlier one, which is
`CountdownCovered` for the same courier and `BothBusyWhileQueued` for the other.
`BalancedLoad` says that choosing the courier with less work keeps the couriers
within a trip.

**The delivery server.** `SInv` adds to the types:
`LockDiscipline` (mutual exclusion); `Carts` (`Sound` orders: `OneRestaurant` is
not inductive, because while no restaurant is chosen there must be nothing in
the cart and nothing to pay, or an order could be confirmed that has no
distance); `Turns` (who has an order with a courier); `Choice` (inside
`order_point_to` the choice and the sum are up to date, because the holder of the
mutex is the only one to write). Each step lemma has one step per action; commands
that touch neither mutex nor array are one step, `Talks`, and clients that leave,
signals and stuttering another, `Outside`.
`Quotes` strengthens `QuoteHolds` to the time before the assignment: what an order
would have to wait now is at most its quote and a trip for each order assigned
since. An assignment adds at most one trip to the less loaded courier, a tick never
adds anything.

**The amount.** `CartsCharged` is inductive; what is hard is its sum. The fold of the
community modules is unfolded to a function that satisfies its recursive equation
(`SumIs`), that such a function exists for a finite set is shown size by size
(`AddsExists`), and `SumChanged` says what one number contributes. Induction is by `Descent`: a
set of naturals without a least member is empty, which the library's `WFMin` gives without an
operator as parameter. `WrapShift` and `WrapUnique` then reduce the
three results that wrap around in `AddDish` to one multiple of the width of an int.

**The pool implemented.** `PoolStep` shows step by step that `OrderStore` is
`Assign`, `UpdateDec0` is `Tick`, `Elapse` is `Elapse`, `Arrive` is `Arrive`, and that
everything else is invisible to the pool. `Choice` and mutual exclusion carry
the first two. `ServerKeepsPromises` instantiates the theorems of CourierPoolProofs
with the refinement mapping.

**The ATM.** That a sound server has one thread in its critical section follows from the count
of the unit, `SemaphoreAccounted`, and not the other way round. The count is not
inductive: `Threads` adds that whoever is past `P` while the semaphore of its server is in
place has taken its unit (a `P` that failed saw it gone, and identifiers do not
come back, `Identifiers`), and `SetOnce` that before `SETVAL` nobody can have taken one and no
other server will set it. For the refinement, `Steady` says that what a thread of a
sound server has tested and read still holds when it stores, `OnePort` that only one server
takes requests, and `Untouched` that nobody changes the account of one that does not yet.

**Guessing.** The interval is only halved rightly if the hint belongs to the guess
beside it. `Turns` says from when to when each of the two cells of the segment does:
the guess from `Guess` until the handler has applied its hint, the hint from
`Compare` until the next `Guess`. It says so of `Searching`, the time between the
start of guess and the end of the game it was started for; outside of it the segment holds
what an earlier game has left, whatever that is. When the timer of the first guess ends,
game has answered (`Timely`), so that the first hint of a search is its own.

**The demo.** A client compares cells with what it has printed, so `Printed` ties its
place to the length of what it has seen, and `Contents` says what any cell can hold: its letter,
nothing, or in the first one a star. The segment that the key names is still to be
removed by the server that made it (`Maker`), which `NoSegmentLeft` needs of servers that
have ended or never started.

**Trains and commands.** `ZombieNoticed` alone does not survive the exit of the server,
after which no handler runs: `Adopted` says that init has reaped the children by then. For the
stream, order alone does not separate two commands: `Parted` says that there is
an end of line between pieces of two commands and behind the last, `Behind` and `WasSent`
compare what is executed with what is on its way and what is not sent yet.

**The devices.** Every length that the lab3 driver can compute with is that of some text,
and every index lies in some text (`Lengths`), although it need not be the text that is in
the buffer; that is enough for `ReadsInside` and all that is true of programs that run
together. One after the other, `InTurn` adds that each access finds what the last one
left. In lab4 `Procession` orders display, connection, reader and device, each letter
being at most the one closer to the writer and blank being the least, half by half: what a
part of the display shows is followed by all that is on its way, wherever frames begin. In
hw1 `Owed` says that each LED that is lit is owed by some program that has lit it and is
still to clear it: a program may clear another's LED early, never leave its own. `BillInv`
says that the loop over the digits is within the number that is shown.

**Only model-checked.** Liveness and everything under fairness, which are out of
the prover's reach here: `OrderServed`, `CouriersRest`, `SessionEnds`, `RequestServed`,
`UntilGuessed`, `ServerEnds`, `NobodyKeptWaiting`, `ConnectionEnds`, `PortFreed`,
`LockstepAnswered`, `EveryCharacterShown`, `LastLetterStays`. The four violations are runs
of TLC. Menu, the shop table, has no theorem: its values are constants that TLC computes.

## 5. Not modelled, and why

- Commands sent ahead, in DeliveryServer: one `recv` returns one command there. CommandStream
  shows what happens otherwise, and of the commands only whether they end the session.
- The width of the ATM's balance (`server.c:17, 108`): it is an integer without bound, so that
  `ImplementsAccount` and `AccountImplemented` say nothing of deposits that add up to more than
  `INT_MAX`. An operation or amount that `sscanf` does not find is any of them.
- Guesses beside each other, and PIDs used twice: one guess plays at a time in GuessGame. Once
  its segment is removed and a new one made, a guess that still runs has the old one to
  itself, and what it does there is left out.
- Cuts of a frame of lab4 other than at its middle.
- Uses of the fixed buffers at their limits: memory, not control.
- Threads that are never joined: exhaustion takes thousands of connections.
  `AcceptFails` lets `pthread_create` fail at any time instead.
- In `race` and the proofs a `send` does not block. A client that stops reading
  cannot fill a socket buffer with the few messages of a session.
- ATM ports: there is one. Failing `malloc`, `accept` and `pthread_create` there.
- Loading and unloading the kernel modules, pin set-up, and failing copies to or from
  user memory (lab3, lab4, hw1); failing `shmat`, `socket`, `bind` and `listen` where the code
  goes on without looking (lab5, lab7). They change no state the models have.
- Reads and writes outside of arrays: a negative `char` as an index in lab3, a bill of eight
  digits in hw1, a command of exactly 256 bytes in hw2.
- The pixels of the 16 segments: a glyph is the letter it stands for.
- Build files, demo scripts, kernel build output.

## 6. Plan

1. *(done)* CourierPool and its proofs: the heart of hw2.
2. *(done)* OrderCart, Menu, DeliveryServer: refinement, quotes, sessions,
   liveness; the proofs of safety and of the refinement.
3. *(done)* AtmServer: runs with one, two successive and two concurrent servers.
4. *(done)* Account and what a sound ATM promises; CommandStream; GuessGame with
   BinarySearch, ShmDemo, TrainServer, SegmentDriver with Marquee, SegmentPipeline,
   MealDisplay.
5. *(done)* Every end of a process at every line: the start of an ATM server, games killed with a
   hint in the segment, sessions ended by a command, frames cut and put together.
6. *(done)* Proofs about AtmServer, GuessGame, ShmDemo, TrainServer, CommandStream,
   SegmentDriver, SegmentPipeline and MealDisplay: every safety property, action property
   and refinement that a run checks.
7. Shorter proofs where one step lemma repeats another, and theorems about what the abstract
   specifications themselves promise (Account, BinarySearch, Marquee), so that the
   refinements carry over more than the shape of a step.
