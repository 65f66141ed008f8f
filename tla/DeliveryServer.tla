--------------------------- MODULE DeliveryServer ---------------------------
(***************************************************************************)
(* The delivery server of hw2: one thread per client (handle_client), the  *)
(* background thread (update_logic), and the array delivery_persons they   *)
(* share under delivery_mutex.                                             *)
(*                                                                         *)
(* A step is what a thread does between two points where another thread,   *)
(* the client or the clock can matter: a blocking call (recv, sleep,       *)
(* pthread_mutex_lock), the accesses to the array, an unlock.  The text    *)
(* of messages is abstracted to their kind; what a client types is any     *)
(* command of Commands.                                                    *)
(***************************************************************************)
EXTENDS OrderCart

CONSTANTS
  Clients,      (* the connections, one thread each                         *)
  Commands,     (* kinds of commands the clients use                        *)
  Quantities,   (* quantities they order                                    *)
  Faults,       (* what else may happen: a client closes, pthread_create    *)
                (* fails, the operator interrupts the server                *)
  MaxCount,     (* bound: no counter of a cart leaves -MaxCount .. MaxCount *)
  LongWait      (* a wait from here on is announced (30 in hw2.c)           *)

ASSUME ServerAssumption ==
  /\ Commands \subseteq {"shop list", "order", "bad order", "confirm",
                         "cancel", "other"}
  /\ Quantities \subseteq CInt
  /\ Faults \subseteq {"close", "no thread", "interrupt"}
  /\ MaxCount \in Nat
  /\ LongWait \in Nat

Couriers == {0, 1}

Updater == "update_logic"

Free == "free"

ASSUME ThreadsAssumption == Updater \notin Clients /\ Free \notin Clients

VARIABLES
  up,              (* the server process exists                             *)
  delivery_mutex,  (* the thread that holds it, or Free                     *)
  remain,          (* delivery_persons[k].current_remain_time               *)
  upc,             (* where update_logic is                                 *)
  pc,              (* where each client's thread is                         *)
  cart,            (* its order                                             *)
  reply,           (* the kind of message it sent last                      *)
  peer,            (* its client: "open", or "gone" once it closed          *)
  quote,           (* the wait_time on which the prompt was decided         *)
  selected,        (* the courier order_point_to picked                     *)
  wait,            (* wait_time; while asleep, what is left of the sleep    *)
  turn,            (* history: place in the order of assignments, 0: none   *)
  tickets,         (* history: assignments so far                           *)
  quotedAt         (* history: tickets when the quote was read              *)

shared == <<delivery_mutex, remain, upc>>
session == <<cart, reply, quote, selected, wait>>
history == <<turn, tickets, quotedAt>>
vars == <<up, shared, pc, session, peer, history>>

PCs == {"accept", "recv", "quote_lock", "quote_read", "quote_unlock",
        "prompt", "order_lock", "order_select", "order_add", "order_store",
        "order_unlock", "notify", "sleep", "closed"}

Replies == {"none", "shop_list", "order_list", "other_restaurant",
            "invalid_order", "invalid_command", "please_order",
            "long_wait", "please_wait", "canceled", "arrived"}

TypeOK ==
  /\ up \in BOOLEAN
  /\ delivery_mutex \in Clients \cup {Updater, Free}
  /\ remain \in [Couriers -> Nat]
  /\ upc \in {"sleep", "lock", "dec0", "dec1", "unlock"}
  /\ pc \in [Clients -> PCs]
  /\ cart \in [Clients -> Cart]
  /\ reply \in [Clients -> Replies]
  /\ peer \in [Clients -> {"open", "gone"}]
  /\ quote \in [Clients -> Nat]
  /\ selected \in [Clients -> Couriers]
  /\ wait \in [Clients -> Nat]
  /\ turn \in [Clients -> Nat]
  /\ tickets \in Nat
  /\ quotedAt \in [Clients -> Nat]

Init ==
  /\ up = TRUE
  /\ delivery_mutex = Free
  /\ remain = [k \in Couriers |-> 0]
  /\ upc = "sleep"
  /\ pc = [c \in Clients |-> "accept"]
  /\ cart = [c \in Clients |-> NewCart]
  /\ reply = [c \in Clients |-> "none"]
  /\ peer = [c \in Clients |-> "open"]
  /\ quote = [c \in Clients |-> 0]
  /\ selected = [c \in Clients |-> 0]
  /\ wait = [c \in Clients |-> 0]
  /\ turn = [c \in Clients |-> 0]
  /\ tickets = 0
  /\ quotedAt = [c \in Clients |-> 0]

-----------------------------------------------------------------------------
(* Steps of a thread. *)

(* A bug: the decrement is not guarded.                                    *)
DecBelowZero(n) == n - 1

(* One second less, down to zero.                                          *)
Dec(n) == IF n > 0 THEN n - 1 ELSE n

(* The courier with less work, the first one on a tie.                     *)
Select(r) == IF r[0] <= r[1] THEN 0 ELSE 1

Goto(c, from, to) ==
  /\ up
  /\ pc[c] = from
  /\ pc' = [pc EXCEPT ![c] = to]

Send(c, kind) == reply' = [reply EXCEPT ![c] = kind]

Lock(t) == delivery_mutex = Free /\ delivery_mutex' = t

Unlock == delivery_mutex' = Free

(* main accepts the connection and creates its thread ...                  *)
Accept(c) ==
  /\ Goto(c, "accept", "recv")
  /\ UNCHANGED <<up, shared, session, peer, history>>

(* ... or pthread_create fails and main closes the connection.             *)
AcceptFails(c) ==
  /\ "no thread" \in Faults
  /\ Goto(c, "accept", "closed")
  /\ UNCHANGED <<up, shared, session, peer, history>>

(* A command that is answered and changes nothing else.                    *)
Answer(c, command, kind) ==
  /\ command \in Commands
  /\ Goto(c, "recv", "recv")
  /\ Send(c, kind)
  /\ UNCHANGED <<up, shared, cart, quote, selected, wait, peer, history>>

RecvOther(c) ==
  \/ Answer(c, "shop list", "shop_list")
  \/ Answer(c, "bad order", "invalid_order")
  \/ Answer(c, "other", "invalid_command")

(* "order d q" for another restaurant than the one chosen                  *)
RecvOrderRefused(c, d) ==
  /\ Refused(cart[c], d)
  /\ Answer(c, "order", "other_restaurant")

RecvOrder(c, d, q) ==
  /\ "order" \in Commands
  /\ ~Refused(cart[c], d)
  /\ cart[c].cnt[d] + q \in -MaxCount .. MaxCount
  /\ Goto(c, "recv", "recv")
  /\ cart' = [cart EXCEPT ![c] = AddDish(@, d, q)]
  /\ Send(c, "order_list")
  /\ UNCHANGED <<up, shared, quote, selected, wait, peer, history>>

RecvConfirmEmpty(c) ==
  /\ cart[c].totalCost = 0
  /\ Answer(c, "confirm", "please_order")

RecvConfirm(c) ==
  /\ "confirm" \in Commands
  /\ cart[c].totalCost # 0
  /\ Goto(c, "recv", "quote_lock")
  /\ UNCHANGED <<up, shared, session, peer, history>>

RecvCancel(c) ==
  /\ "cancel" \in Commands
  /\ Goto(c, "recv", "closed")
  /\ Send(c, "canceled")
  /\ UNCHANGED <<up, shared, cart, quote, selected, wait, peer, history>>

(* A bug: at the prompt the thread keeps calling recv until it succeeds.   *)
RecvEofRetried(c) ==
  /\ peer[c] = "gone"
  /\ Goto(c, "recv", "closed")
  /\ UNCHANGED <<up, shared, session, peer, history>>

(* recv returns 0 or an error, in the loop or at the prompt.  The client   *)
(* has closed, though commands it sent before may still be received.       *)
RecvEof(c) ==
  /\ peer[c] = "gone"
  /\ Goto(c, "recv", "closed") \/ Goto(c, "prompt", "closed")
  /\ UNCHANGED <<up, shared, session, peer, history>>

-----------------------------------------------------------------------------
(* "confirm": the wait is quoted in one critical section ...               *)

QuoteLock(c) ==
  /\ Goto(c, "quote_lock", "quote_read")
  /\ Lock(c)
  /\ UNCHANGED <<up, remain, upc, session, peer, history>>

QuoteRead(c) ==
  /\ Goto(c, "quote_read", "quote_unlock")
  /\ quote' = [quote EXCEPT ![c] = remain[Select(remain)] + cart[c].distanceWait]
  /\ quotedAt' = [quotedAt EXCEPT ![c] = tickets]
  /\ UNCHANGED <<up, shared, cart, reply, selected, wait, peer, turn, tickets>>

(* A bug: the branch that asks the client leaves without unlocking.        *)
QuoteUnlockForgotten(c) ==
  /\ IF quote[c] >= LongWait
     THEN Goto(c, "quote_unlock", "prompt") /\ Send(c, "long_wait")
          /\ UNCHANGED delivery_mutex
     ELSE Goto(c, "quote_unlock", "order_lock") /\ Unlock /\ UNCHANGED reply
  /\ UNCHANGED <<up, remain, upc, cart, quote, selected, wait, peer, history>>

(* ... after which a long wait is announced, and the client asked.         *)
QuoteUnlock(c) ==
  /\ Unlock
  /\ IF quote[c] >= LongWait
     THEN Goto(c, "quote_unlock", "prompt") /\ Send(c, "long_wait")
     ELSE Goto(c, "quote_unlock", "order_lock") /\ UNCHANGED reply
  /\ UNCHANGED <<up, remain, upc, cart, quote, selected, wait, peer, history>>

(* Every answer but "No" accepts the wait.                                 *)
PromptAccept(c) ==
  /\ Goto(c, "prompt", "order_lock")
  /\ UNCHANGED <<up, shared, session, peer, history>>

PromptNo(c) ==
  /\ Goto(c, "prompt", "closed")
  /\ Send(c, "canceled")
  /\ UNCHANGED <<up, shared, cart, quote, selected, wait, peer, history>>

(* A bug: order_point_to does not lock.                                    *)
OrderWithoutLock(c) ==
  /\ Goto(c, "order_lock", "order_select")
  /\ UNCHANGED <<up, shared, session, peer, history>>

(* order_point_to: the courier is picked and given the order in another    *)
(* critical section.                                                       *)
OrderLock(c) ==
  /\ Goto(c, "order_lock", "order_select")
  /\ Lock(c)
  /\ UNCHANGED <<up, remain, upc, session, peer, history>>

(* A bug: every order goes to the first courier.                           *)
OrderSelectFirst(c) ==
  /\ Goto(c, "order_select", "order_add")
  /\ selected' = [selected EXCEPT ![c] = 0]
  /\ UNCHANGED <<up, shared, cart, reply, quote, wait, peer, history>>

OrderSelect(c) ==
  /\ Goto(c, "order_select", "order_add")
  /\ selected' = [selected EXCEPT ![c] = Select(remain)]
  /\ UNCHANGED <<up, shared, cart, reply, quote, wait, peer, history>>

OrderAdd(c) ==
  /\ Goto(c, "order_add", "order_store")
  /\ wait' = [wait EXCEPT ![c] = remain[selected[c]] + cart[c].distanceWait]
  /\ UNCHANGED <<up, shared, cart, reply, quote, selected, peer, history>>

OrderStore(c) ==
  /\ Goto(c, "order_store", "order_unlock")
  /\ remain' = [remain EXCEPT ![selected[c]] = wait[c]]
  /\ turn' = [turn EXCEPT ![c] = tickets + 1]
  /\ tickets' = tickets + 1
  /\ UNCHANGED <<up, delivery_mutex, upc, session, peer, quotedAt>>

OrderUnlock(c) ==
  /\ Goto(c, "order_unlock", "notify")
  /\ Unlock
  /\ UNCHANGED <<up, remain, upc, session, peer, history>>

(* "Please wait a few minutes...", and the thread goes to sleep.           *)
Notify(c) ==
  /\ Goto(c, "notify", "sleep")
  /\ Send(c, "please_wait")
  /\ UNCHANGED <<up, shared, cart, quote, selected, wait, peer, history>>

Arrive(c) ==
  /\ Goto(c, "sleep", "closed")
  /\ wait[c] = 0
  /\ Send(c, "arrived")
  /\ UNCHANGED <<up, shared, cart, quote, selected, wait, peer, history>>

-----------------------------------------------------------------------------
(* update_logic *)

UpdateLock ==
  /\ up /\ upc = "lock"
  /\ Lock(Updater)
  /\ upc' = "dec0"
  /\ UNCHANGED <<up, remain, pc, session, peer, history>>

Decrement(k, from, to) ==
  /\ up /\ upc = from
  /\ remain' = [remain EXCEPT ![k] = Dec(@)]
  /\ upc' = to
  /\ UNCHANGED <<up, delivery_mutex, pc, session, peer, history>>

UpdateDec0 == Decrement(0, "dec0", "dec1")

(* A bug: the loop ends one courier early.                                 *)
UpdateDec1Skipped ==
  /\ up /\ upc = "dec1"
  /\ upc' = "unlock"
  /\ UNCHANGED <<up, delivery_mutex, remain, pc, session, peer, history>>

UpdateDec1 == Decrement(1, "dec1", "unlock")

UpdateUnlock ==
  /\ up /\ upc = "unlock"
  /\ Unlock
  /\ upc' = "sleep"
  /\ UNCHANGED <<up, remain, pc, session, peer, history>>

-----------------------------------------------------------------------------
(* The clock, the clients and the process. *)

(* A second passes for every thread in sleep().  The code between          *)
(* order_point_to's addition and the sleep does not block, and is assumed  *)
(* to take less than a second.                                             *)
Elapse ==
  /\ up
  /\ \A c \in Clients : pc[c] \notin {"order_unlock", "notify"}
  /\ wait' = [c \in Clients |-> IF pc[c] = "sleep" THEN Dec(wait[c]) ELSE wait[c]]
  /\ upc' = IF upc = "sleep" THEN "lock" ELSE upc
  /\ UNCHANGED <<up, delivery_mutex, remain, pc, cart, reply, quote, selected,
                 peer, history>>

(* A client closes its end, at any time.                                   *)
ClientLeaves(c) ==
  /\ "close" \in Faults
  /\ up
  /\ peer[c] = "open" /\ pc[c] # "closed"
  /\ peer' = [peer EXCEPT ![c] = "gone"]
  /\ UNCHANGED <<up, shared, pc, session, history>>

(* A thread writes to a connection that its client has reset.  SIGPIPE is  *)
(* not handled and send is called without MSG_NOSIGNAL: the process dies.  *)
WritesToClosed(c) ==
  /\ up
  /\ peer[c] = "gone"
  /\ \/ pc[c] \in {"recv", "prompt", "notify"}
     \/ pc[c] = "quote_unlock" /\ quote[c] >= LongWait
     \/ pc[c] = "sleep" /\ wait[c] = 0
  /\ up' = FALSE
  /\ UNCHANGED <<shared, pc, session, peer, history>>

(* Ctrl-C: sigint_handler exits.                                           *)
Interrupted ==
  /\ "interrupt" \in Faults
  /\ up
  /\ up' = FALSE
  /\ UNCHANGED <<shared, pc, session, peer, history>>

-----------------------------------------------------------------------------

(* What a client makes its thread do.                                      *)
Request(c) ==
  \/ RecvOther(c)
  \/ \E d \in Dishes :
       \/ RecvOrderRefused(c, d)
       \/ \E q \in Quantities : RecvOrder(c, d, q)
  \/ RecvConfirmEmpty(c)
  \/ RecvConfirm(c)
  \/ RecvCancel(c)
  \/ PromptAccept(c)
  \/ PromptNo(c)
  \/ ClientLeaves(c)

(* What a thread does by itself, the waits for the mutex apart.            *)
Internal(c) ==
  \/ Accept(c) \/ AcceptFails(c)
  \/ RecvEof(c)
  \/ QuoteRead(c) \/ QuoteUnlock(c)
  \/ OrderSelect(c) \/ OrderAdd(c) \/ OrderStore(c) \/ OrderUnlock(c)
  \/ Notify(c) \/ Arrive(c)

UpdateInternal == UpdateDec0 \/ UpdateDec1 \/ UpdateUnlock

Next ==
  \/ \E c \in Clients :
       \/ Request(c)
       \/ Internal(c)
       \/ QuoteLock(c) \/ OrderLock(c)
       \/ WritesToClosed(c)
  \/ UpdateLock \/ UpdateInternal
  \/ Elapse
  \/ Interrupted

(* Every runnable thread runs, sleeps end, and a thread that waits for the *)
(* mutex gets it if it is free again and again (the only thread that takes *)
(* it forever sleeps a second in between).  Clients need do nothing.       *)
Fairness ==
  /\ \A c \in Clients :
       /\ WF_vars(Internal(c))
       /\ SF_vars(QuoteLock(c)) /\ SF_vars(OrderLock(c))
  /\ SF_vars(UpdateLock) /\ WF_vars(UpdateInternal)
  /\ WF_vars(Elapse)

Spec == Init /\ [][Next]_vars

FairSpec == Spec /\ Fairness

-----------------------------------------------------------------------------
(* Safety *)

(* Every cart holds dishes of one restaurant and has that one's distance.  *)
CartsOneRestaurant == \A c \in Clients : OneRestaurant(cart[c])

(* Every client is charged for exactly what its counters say.              *)
CartsCharged == \A c \in Clients : Charged(cart[c])

(* Orders that overtook c's: assigned between the reading of c's quote and *)
(* its own assignment.                                                     *)
Overtaking(c) ==
  IF turn[c] > 0 THEN turn[c] - 1 - quotedAt[c] ELSE tickets - quotedAt[c]

(* The quote is read in one critical section and acted upon in another.    *)
(* It goes stale only through the orders assigned in between, and by no    *)
(* more than a trip for each.                                              *)
QuoteHolds ==
  \A c \in Clients :
    turn[c] > 0 => wait[c] <= quote[c] + MaxDistance * Overtaking(c)

(* hw2.c:417 "if the time exceeds 30 seconds, ask the customer whether to  *)
(* wait": nobody is given a long wait without having been asked.           *)
LongWaitAsked ==
  \A c \in Clients :
    turn[c] > 0 /\ wait[c] >= LongWait => quote[c] >= LongWait

(* hw2.c:395 "no meal has been ordered yet": what a client is told who     *)
(* confirms an order without meals, and only such a client.                *)
PleaseOrderMeansEmpty ==
  \A c \in Clients :
    reply[c] = "please_order" => \A d \in Dishes : cart[c].cnt[d] <= 0

-----------------------------------------------------------------------------
(* The threads implement the pool of CourierPool: an order is assigned     *)
(* when its total is stored, and a round of update_logic happens at its    *)
(* first decrement.                                                        *)

Distances == {DistanceOf[r] : r \in Restaurants \ {0}}

InPool(c) == turn[c] > 0

poolRemain == IF upc = "dec1" THEN [remain EXCEPT ![1] = Dec(@)] ELSE remain

poolTickDue == upc \in {"lock", "dec0"}

poolCourier == [c \in Clients |-> IF InPool(c) THEN selected[c] ELSE 0]

poolDist == [c \in Clients |-> IF InPool(c) THEN cart[c].distanceWait ELSE 0]

poolLeft == [c \in Clients |-> IF InPool(c) THEN wait[c] ELSE 0]

poolArrived == {c \in Clients : InPool(c) /\ pc[c] = "closed"}

Pool == INSTANCE CourierPool WITH
  remain <- poolRemain, tickDue <- poolTickDue, courier <- poolCourier,
  dist <- poolDist, left <- poolLeft, arrived <- poolArrived

(* Every step of the threads is a step of the pool or invisible to it.     *)
ImplementsPool == Pool!Spec

-----------------------------------------------------------------------------
(* Liveness, as long as the process exists *)

(* A confirmed order is asked about or delivered, and one whose wait was   *)
(* accepted is delivered: nobody hangs in the mutex or in a sleep.         *)
OrderServed ==
  \A c \in Clients :
    /\ pc[c] = "quote_lock" ~> (~up \/ pc[c] \in {"prompt", "closed"})
    /\ pc[c] = "order_lock" ~> (~up \/ (pc[c] = "closed" /\ reply[c] = "arrived"))

(* The couriers' work is done one day.                                     *)
CouriersRest ==
  \A k \in Couriers : remain[k] > 0 ~> (~up \/ remain[k] = 0)

(* The thread of a client that has gone ends, wherever it was.             *)
SessionEnds ==
  \A c \in Clients : peer[c] = "gone" ~> (~up \/ pc[c] = "closed")

=============================================================================
