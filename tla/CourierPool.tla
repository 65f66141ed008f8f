---------------------------- MODULE CourierPool ----------------------------
(***************************************************************************)
(* What the delivery platform of hw2 promises about its two couriers.      *)
(*                                                                         *)
(* The pool is the array delivery_persons[2] of hw2.c: how many seconds of *)
(* work each courier still has.  Every confirmed order is given, in one    *)
(* step, to the courier with less work (order_point_to), and the order's   *)
(* thread then sleeps the total; a background thread takes one second off  *)
(* each courier every second (update_logic).  Orders and the background    *)
(* thread only meet in the array, so the two countdowns -- the thread's    *)
(* sleep and the courier's remaining time -- can drift apart.              *)
(*                                                                         *)
(* This is the abstract level: an assignment and a tick are atomic.        *)
(* DeliveryServer splits them into the reads, writes and mutex calls of    *)
(* the threads and implements this module.                                 *)
(*                                                                         *)
(* Time passes in whole seconds (action Elapse).  Everything a thread does *)
(* between two of them happens "in" the same second, in any order.         *)
(***************************************************************************)
EXTENDS Integers

CONSTANTS
  Clients,      (* client connections; each places at most one order        *)
  Distances,    (* the distances a shop can have, in km = seconds of work   *)
  MaxDistance   (* a bound on them                                          *)

ASSUME DistancesAssumption ==
  /\ MaxDistance \in Nat
  /\ Distances \subseteq 1 .. MaxDistance   (* hw2.c: 3, 5 and 8            *)

Couriers == {0, 1}

VARIABLES
  remain,     (* [Couriers -> Nat]: delivery_persons[k].current_remain_time *)
  tickDue,    (* update_logic's sleep(1) is over and its decrement is due   *)
  turn,       (* turn[c]: c's place in the order of assignments, 0: not yet *)
  tickets,    (* number of assignments so far                               *)
  courier,    (* courier[c]: the courier that has c's order                 *)
  dist,       (* dist[c]: distance of c's order                             *)
  left,       (* left[c]: seconds until c's thread ends its sleep           *)
  arrived     (* the clients that were told their delivery has arrived      *)

vars == <<remain, tickDue, turn, tickets, courier, dist, left, arrived>>

Abs(n) == IF n < 0 THEN -n ELSE n

(* One second off a counter that stops at zero.                            *)
Dec(n) == IF n > 0 THEN n - 1 ELSE n

(* A bug: the comparison is the wrong way round.                           *)
SelectBusier(r) == IF r[0] >= r[1] THEN 0 ELSE 1

(* The courier an order goes to: the first one on a tie.                   *)
Select(r) == IF r[0] <= r[1] THEN 0 ELSE 1

-----------------------------------------------------------------------------

TypeOK ==
  /\ remain \in [Couriers -> Nat]
  /\ tickDue \in BOOLEAN
  /\ turn \in [Clients -> Nat]
  /\ tickets \in Nat
  /\ courier \in [Clients -> Couriers]
  /\ dist \in [Clients -> Nat]
  /\ left \in [Clients -> Nat]
  /\ arrived \in SUBSET Clients

Init ==
  /\ remain = [k \in Couriers |-> 0]
  /\ tickDue = FALSE
  /\ turn = [c \in Clients |-> 0]
  /\ tickets = 0
  /\ courier = [c \in Clients |-> 0]
  /\ dist = [c \in Clients |-> 0]
  /\ left = [c \in Clients |-> 0]
  /\ arrived = {}

(* A bug: the thread sleeps for its own trip only, not for the queue.      *)
AssignOwnTrip(c, d) ==
  LET k == Select(remain) IN
  /\ turn[c] = 0
  /\ turn' = [turn EXCEPT ![c] = tickets + 1]
  /\ tickets' = tickets + 1
  /\ remain' = [remain EXCEPT ![k] = @ + d]
  /\ courier' = [courier EXCEPT ![c] = k]
  /\ dist' = [dist EXCEPT ![c] = d]
  /\ left' = [left EXCEPT ![c] = d]
  /\ UNCHANGED <<tickDue, arrived>>

(* order_point_to(d) by c's thread and the sleep(wait_time) that follows.  *)
Assign(c, d) ==
  LET k == Select(remain) IN
  /\ turn[c] = 0
  /\ turn' = [turn EXCEPT ![c] = tickets + 1]
  /\ tickets' = tickets + 1
  /\ remain' = [remain EXCEPT ![k] = @ + d]
  /\ courier' = [courier EXCEPT ![c] = k]
  /\ dist' = [dist EXCEPT ![c] = d]
  /\ left' = [left EXCEPT ![c] = remain[k] + d]
  /\ UNCHANGED <<tickDue, arrived>>

(* A second passes for every sleeping thread.  update_logic may still be   *)
(* busy with, or kept from, the previous tick: then it is not asleep and   *)
(* this second does not count for it.                                      *)
Elapse ==
  /\ left' = [c \in Clients |-> Dec(left[c])]
  /\ tickDue' \in {tickDue, TRUE}
  /\ UNCHANGED <<remain, turn, tickets, courier, dist, arrived>>

(* A bug: the ticks do not wait for the second to pass.                    *)
TickAnyTime ==
  /\ remain' = [k \in Couriers |-> Dec(remain[k])]
  /\ tickDue' = FALSE
  /\ UNCHANGED <<turn, tickets, courier, dist, left, arrived>>

(* A bug: the decrement is not guarded by current_remain_time > 0.         *)
TickBelowZero ==
  /\ tickDue
  /\ remain' = [k \in Couriers |-> remain[k] - 1]
  /\ tickDue' = FALSE
  /\ UNCHANGED <<turn, tickets, courier, dist, left, arrived>>

(* One round of update_logic.                                              *)
Tick ==
  /\ tickDue
  /\ remain' = [k \in Couriers |-> Dec(remain[k])]
  /\ tickDue' = FALSE
  /\ UNCHANGED <<turn, tickets, courier, dist, left, arrived>>

(* The thread wakes up and tells its client that the delivery is there.    *)
Arrive(c) ==
  /\ turn[c] > 0
  /\ c \notin arrived
  /\ left[c] = 0
  /\ arrived' = arrived \cup {c}
  /\ UNCHANGED <<remain, tickDue, turn, tickets, courier, dist, left>>

Next ==
  \/ \E c \in Clients, d \in Distances : Assign(c, d)
  \/ Elapse
  \/ Tick
  \/ \E c \in Clients : Arrive(c)

Spec == Init /\ [][Next]_vars

-----------------------------------------------------------------------------
(* How far a courier's counter may run ahead of the sleeping threads: the  *)
(* ticks that fall into n elapsed seconds are at most n + 1, and one less  *)
(* while a tick is still due.                                              *)
Slack == IF tickDue THEN 0 ELSE 1

Assigned(c) == turn[c] > 0

OnTheWay(c) == Assigned(c) /\ left[c] > 0

(* Seconds until c's courier sets out for c; exact while c is on the way.  *)
SetsOutIn(c) == left[c] - dist[c]

(* The two couriers never differ by more than one trip, because choosing   *)
(* the courier and adding the trip are one critical section of             *)
(* delivery_mutex and update_logic takes the same second off both.         *)
BalancedLoad == Abs(remain[0] - remain[1]) <= MaxDistance

(* No order is lost from the array: a courier's counter never says that    *)
(* the work is done while a client it was given still waits for more than  *)
(* the one second of phase between the two timers.  A lost update of       *)
(* current_remain_time, or a tick too many, breaks it.                     *)
CountdownCovered ==
  \A c \in Clients : Assigned(c) => left[c] <= remain[courier[c]] + Slack

(* An order waits for its courier only while both couriers have work: an   *)
(* idle courier is never passed over (again up to the timers' phase).      *)
BothBusyWhileQueued ==
  \A c \in Clients, k \in Couriers :
    OnTheWay(c) => SetsOutIn(c) <= remain[k] + Slack

(* Two orders of one courier are delivered in the order of assignment, and *)
(* a whole trip apart but for that second: the deadlines the sleeping      *)
(* threads have chosen add up although each was computed on its own.       *)
TripsApart ==
  \A a, b \in Clients :
    /\ Assigned(a) /\ turn[a] < turn[b] /\ courier[a] = courier[b]
    /\ OnTheWay(a)
    => left[a] + dist[b] <= left[b] + 1

(* README "FCFS": of two orders, whichever couriers have them, the one     *)
(* assigned first is set out for first, up to one second.                  *)
Fcfs ==
  \A a, b \in Clients :
    OnTheWay(a) /\ OnTheWay(b) /\ turn[a] < turn[b]
      => SetsOutIn(a) <= SetsOutIn(b) + 1

=============================================================================
