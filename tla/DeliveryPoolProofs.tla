-------------------------- MODULE DeliveryPoolProofs --------------------------
(***************************************************************************)
(* The threads of DeliveryServer implement CourierPool, for any number of  *)
(* clients and any menu: what is proved about atomic assignments and ticks *)
(* holds of the reads and writes under delivery_mutex.                     *)
(***************************************************************************)
EXTENDS DeliveryServerProofs

(* The distances of the shop table are distances of the pool.              *)
LEMMA PoolDistances == Distances \subseteq 1 .. MaxDistance
  BY MenuAssumption DEF Distances

(* Before the first accept the pool is idle.                               *)
LEMMA PoolInit == ASSUME Init PROVE Pool!Init
  BY DEF Init, Pool!Init, poolRemain, poolTickDue, poolCourier, poolDist,
         poolLeft, poolArrived, InPool, Pool!Couriers, Couriers

(* A round of update_logic's two decrements is the pool's tick.            *)
LEMMA RoundOfTwo ==
  ASSUME NEW r, r \in [Couriers -> Nat],
         NEW r1, r1 = [r EXCEPT ![0] = Dec(r[0])]
  PROVE  [r1 EXCEPT ![1] = Dec(r1[1])]
           = [k \in Pool!Couriers |-> Pool!Dec(r[k])]
<1>1. Couriers = {0, 1} /\ Pool!Couriers = {0, 1}
  BY DEF Couriers, Pool!Couriers
<1>2. r1[0] = Dec(r[0]) /\ r1[1] = r[1] /\ DOMAIN r1 = {0, 1}
  BY <1>1
<1>3. \A n : Pool!Dec(n) = Dec(n)
  BY DEF Dec, Pool!Dec
<1>4. [r1 EXCEPT ![1] = Dec(r1[1])] = [k \in {0, 1} |-> Dec(r[k])]
  BY <1>1, <1>2
<1> QED
  BY <1>1, <1>3, <1>4

(* Every step of the threads is a step of the pool or invisible to it: an  *)
(* order is assigned when its total is stored, under the mutex, and a round*)
(* of update_logic happens at its first decrement.                         *)
LEMMA PoolStep ==
  ASSUME SInv, SInv', [Next]_vars
  PROVE  [Pool!Next]_(Pool!vars)
<1> USE DEF poolRemain, poolTickDue, poolCourier, poolDist, poolLeft,
            poolArrived, InPool, SInv, TypeOK, shared, session, history, Goto
<1>1. ASSUME NEW c \in Clients, Talks(c) PROVE UNCHANGED Pool!vars
  BY <1>1 DEF Talks, Pool!vars, Turns, Confirmed, Waiting
<1>2. ASSUME NEW c \in Clients, NEW d \in Dishes, NEW q \in Quantities,
          RecvOrder(c, d, q)
     PROVE  UNCHANGED Pool!vars
  BY <1>2 DEF RecvOrder, Pool!vars, Turns, Confirmed, Waiting
<1>3. ASSUME NEW c \in Clients, QuoteLock(c) PROVE UNCHANGED Pool!vars
  BY <1>3 DEF QuoteLock, Pool!vars, Turns, Confirmed, Waiting
<1>4. ASSUME NEW c \in Clients, QuoteRead(c) PROVE UNCHANGED Pool!vars
  BY <1>4 DEF QuoteRead, Pool!vars, Turns, Confirmed, Waiting
<1>5. ASSUME NEW c \in Clients, QuoteUnlock(c) PROVE UNCHANGED Pool!vars
  BY <1>5 DEF QuoteUnlock, Pool!vars, Turns, Confirmed, Waiting
<1>6. ASSUME NEW c \in Clients, OrderLock(c) PROVE UNCHANGED Pool!vars
  BY <1>6 DEF OrderLock, Pool!vars, Turns, Confirmed, Waiting
<1>7. ASSUME NEW c \in Clients, OrderSelect(c) PROVE UNCHANGED Pool!vars
  BY <1>7 DEF OrderSelect, Pool!vars, Turns, Confirmed, Waiting
<1>8. ASSUME NEW c \in Clients, OrderAdd(c) PROVE UNCHANGED Pool!vars
  BY <1>8 DEF OrderAdd, Pool!vars, Turns, Confirmed, Waiting
<1>9. ASSUME NEW c \in Clients, OrderStore(c)
      PROVE  Pool!Assign(c, cart[c].distanceWait)
  <2> USE <1>9 DEF OrderStore
  <2>1. turn[c] = 0
    BY DEF Turns, Waiting
  <2>2. upc # "dec1" /\ upc' = upc
    BY ThreadsAssumption DEF LockDiscipline, InCritical
  <2>3. /\ selected[c] = Select(remain)
        /\ wait[c] = remain[selected[c]] + cart[c].distanceWait
    BY DEF Choice
  <2>4. poolRemain = remain /\ poolRemain' = remain'
    BY <2>2
  <2>5. Select(remain) = Pool!Select(poolRemain) /\ Select(remain) \in Couriers
    BY <2>4, SelectIn DEF Select, Pool!Select
  <2>6. turn'[c] > 0 /\ \A b \in Clients \ {c} : turn'[b] = turn[b]
    OBVIOUS
  <2>7. poolCourier' = [poolCourier EXCEPT ![c] = Select(remain)]
    BY <2>3, <2>6
  <2>8. poolDist' = [poolDist EXCEPT ![c] = cart[c].distanceWait]
    BY <2>6
  <2>9. poolLeft' =
          [poolLeft EXCEPT ![c] = remain[Select(remain)] + cart[c].distanceWait]
    BY <2>3, <2>6
  <2>10. poolArrived' = poolArrived /\ poolTickDue' = poolTickDue
    BY <2>1, <2>2
  <2>11. poolRemain' =
           [poolRemain EXCEPT ![Select(remain)] = @ + cart[c].distanceWait]
    BY <2>3, <2>4, <2>5
  <2> QED
    BY <2>1, <2>4, <2>5, <2>7, <2>8, <2>9, <2>10, <2>11 DEF Pool!Assign
<1>10. ASSUME NEW c \in Clients, OrderUnlock(c) PROVE UNCHANGED Pool!vars
  BY <1>10 DEF OrderUnlock, Pool!vars, Turns, Confirmed, Waiting
<1>11. ASSUME NEW c \in Clients, Notify(c) PROVE UNCHANGED Pool!vars
  BY <1>11 DEF Notify, Pool!vars, Turns, Confirmed, Waiting
<1>12. ASSUME NEW c \in Clients, Arrive(c) PROVE Pool!Arrive(c)
  BY <1>12 DEF Arrive, Pool!Arrive, Turns, Waiting
<1>13. ASSUME UpdateLock PROVE UNCHANGED Pool!vars
  BY <1>13 DEF UpdateLock, Pool!vars, Turns, Confirmed, Waiting
<1>14. ASSUME UpdateDec0 PROVE Pool!Tick
  <2> USE <1>14 DEF UpdateDec0, Decrement
  <2>1. poolTickDue /\ poolTickDue' = FALSE
    OBVIOUS
  <2>2. poolRemain' = [k \in Pool!Couriers |-> Pool!Dec(poolRemain[k])]
    <3>1. /\ poolRemain = remain
          /\ poolRemain' = [remain' EXCEPT ![1] = Dec(remain'[1])]
      OBVIOUS
    <3>2. remain' = [remain EXCEPT ![0] = Dec(remain[0])]
      OBVIOUS
    <3>3. remain \in [Couriers -> Nat]
      OBVIOUS
    <3>4. [remain' EXCEPT ![1] = Dec(remain'[1])]
            = [k \in Pool!Couriers |-> Pool!Dec(remain[k])]
      <4> HIDE <1>14 DEF UpdateDec0, Decrement, SInv, TypeOK
      <4> QED
        BY <3>2, <3>3, RoundOfTwo
    <3> QED
      BY ONLY <3>1, <3>4, Zenon
  <2>3. UNCHANGED <<turn, tickets, poolCourier, poolDist, poolLeft, poolArrived>>
    OBVIOUS
  <2> QED
    BY <2>1, <2>2, <2>3 DEF Pool!Tick
<1>15. ASSUME UpdateDec1 PROVE UNCHANGED Pool!vars
  BY <1>15 DEF UpdateDec1, Pool!vars, Decrement
<1>16. ASSUME UpdateUnlock PROVE UNCHANGED Pool!vars
  BY <1>16 DEF UpdateUnlock, Pool!vars, Turns, Confirmed, Waiting
<1>17. ASSUME Elapse PROVE Pool!Elapse
  <2> USE <1>17 DEF Elapse
  <2>1. poolLeft' = [c \in Clients |-> Pool!Dec(poolLeft[c])]
    <3>1. ASSUME NEW c \in Clients
          PROVE  poolLeft'[c] = Pool!Dec(poolLeft[c])
      <4>1. CASE ~InPool(c)
        BY <4>1 DEF Pool!Dec
      <4>2. CASE pc[c] = "sleep"
        BY <4>2 DEF Turns, Waiting, Dec, Pool!Dec
      <4>3. CASE InPool(c) /\ pc[c] = "closed"
        BY <4>3 DEF Turns, Pool!Dec
      <4> QED
        BY <4>1, <4>2, <4>3 DEF Turns, Waiting
    <3> QED
      BY <3>1
  <2>2. poolTickDue' \in {poolTickDue, TRUE}
    <3>1. upc \in {"sleep", "lock", "dec0"} => poolTickDue' = TRUE
      OBVIOUS
    <3>2. upc \notin {"sleep", "lock", "dec0"} => poolTickDue' = poolTickDue
      OBVIOUS
    <3> QED
      BY <3>1, <3>2
  <2>3. UNCHANGED <<poolRemain, turn, tickets, poolCourier, poolDist, poolArrived>>
    OBVIOUS
  <2> QED
    BY <2>1, <2>2, <2>3 DEF Pool!Elapse
<1>18. ASSUME Outside PROVE UNCHANGED Pool!vars
  BY <1>18 DEF Outside, Pool!vars, Turns, Confirmed, Waiting
<1>19. ASSUME NEW c \in Clients, OrderStore(c)
       PROVE  Pool!Next
  <2>1. cart[c].distanceWait \in Distances
    BY <1>19, SoundDistance DEF OrderStore, Carts, Turns, Confirmed
  <2>2. Pool!Assign(c, cart[c].distanceWait)
    BY <1>9, <1>19
  <2> HIDE DEF poolRemain, poolTickDue, poolCourier, poolDist, poolLeft,
               poolArrived, InPool, SInv, TypeOK, shared, session, history, Goto
  <2> QED
    BY <2>1, <2>2 DEF Pool!Next
<1>20. ASSUME NEW c \in Clients, Arrive(c)
       PROVE  Pool!Next
  BY <1>20, <1>12 DEF Pool!Next
<1>21. UpdateDec0 \/ Elapse => Pool!Next
  BY <1>14, <1>17 DEF Pool!Next
<1> QED
  <2> HIDE DEF poolRemain, poolTickDue, poolCourier, poolDist, poolLeft,
               poolArrived, InPool, SInv, TypeOK, shared, session, history, Goto
  <2> QED
    BY NextCases, <1>1, <1>2, <1>3, <1>4, <1>5, <1>6, <1>7, <1>8, <1>10, <1>11,
       <1>13, <1>15, <1>16, <1>18, <1>19, <1>20, <1>21

(* The threads implement the pool: locking order_point_to and update_logic *)
(* makes assignments and ticks atomic, and a second's sleep is all that    *)
(* separates two ticks.                                                    *)
THEOREM ServerImplementsPool == Spec => ImplementsPool
<1>1. Init => Pool!Init
  BY PoolInit
<1>2. SInv /\ SInv' /\ [Next]_vars => [Pool!Next]_(Pool!vars)
  BY PoolStep
<1> QED
  BY <1>1, <1>2, ServerInvariant, PTL DEF Spec, ImplementsPool, Pool!Spec

-----------------------------------------------------------------------------
(* What the threads inherit from the pool *)

(* The theorems about CourierPool, for the pool of the threads.            *)
PoolThms == INSTANCE CourierPoolProofs WITH
  remain <- poolRemain, tickDue <- poolTickDue, courier <- poolCourier,
  dist <- poolDist, left <- poolLeft, arrived <- poolArrived

(* What the couriers' array promises to the clients: see CourierPool.      *)
PoolPromises ==
  /\ Pool!BalancedLoad
  /\ Pool!CountdownCovered
  /\ Pool!BothBusyWhileQueued
  /\ Pool!TripsApart
  /\ Pool!Fcfs

(* The pool of DeliveryServer is the one CourierPoolProofs is about.       *)
LEMMA SamePool == Pool!Spec => PoolThms!Spec
<1>1. Pool!Init => PoolThms!Init
  BY DEF Pool!Init, PoolThms!Init, Pool!Couriers, PoolThms!Couriers
<1>2. [Pool!Next]_(Pool!vars) => [PoolThms!Next]_(PoolThms!vars)
  <2>1. /\ Pool!Elapse => PoolThms!Elapse
        /\ Pool!Tick => PoolThms!Tick
    BY DEF Pool!Elapse, PoolThms!Elapse, Pool!Tick, PoolThms!Tick,
           Pool!Dec, PoolThms!Dec, Pool!Couriers, PoolThms!Couriers
  <2>2. ASSUME NEW c \in Clients
        PROVE  /\ Pool!Arrive(c) => PoolThms!Arrive(c)
               /\ \A d \in Distances :
                    Pool!Assign(c, d) => PoolThms!Assign(c, d)
    BY DEF Pool!Arrive, PoolThms!Arrive, Pool!Assign, PoolThms!Assign,
           Pool!Select, PoolThms!Select
  <2>3. UNCHANGED Pool!vars => UNCHANGED PoolThms!vars
    BY DEF Pool!vars, PoolThms!vars
  <2> QED
    BY <2>1, <2>2, <2>3 DEF Pool!Next, PoolThms!Next
<1> QED
  BY <1>1, <1>2, PTL DEF Pool!Spec, PoolThms!Spec

(* The promises of the pool hold of the threads: balanced couriers, no order*)
(* lost from the array, no queueing while a courier is idle, deliveries of *)
(* one courier a trip apart, first come first served.                      *)
THEOREM ServerKeepsPromises == Spec => []PoolPromises
<1>1. PoolThms!DistancesAssumption
  BY PoolDistances, MenuAssumption DEF PoolThms!DistancesAssumption
<1>2. PoolThms!Spec => []PoolThms!IInv
  BY <1>1, PoolThms!PoolInvariant
<1>3. PoolThms!IInv => PoolPromises
  <2> USE DEF PoolThms!IInv
  <2>1. PoolThms!IInv => Pool!BalancedLoad
    BY DEF PoolThms!BalancedLoad, Pool!BalancedLoad, Pool!Abs, PoolThms!Abs
  <2>2. PoolThms!IInv => Pool!CountdownCovered
    BY DEF PoolThms!CountdownCovered, Pool!CountdownCovered,
           Pool!Assigned, PoolThms!Assigned, Pool!Slack, PoolThms!Slack
  <2>3. PoolThms!IInv => Pool!BothBusyWhileQueued
    BY DEF PoolThms!BothBusyWhileQueued, Pool!BothBusyWhileQueued,
           Pool!Assigned, PoolThms!Assigned, Pool!Slack, PoolThms!Slack,
           Pool!OnTheWay, PoolThms!OnTheWay, Pool!SetsOutIn,
           PoolThms!SetsOutIn, Pool!Couriers, PoolThms!Couriers
  <2>4. PoolThms!IInv => Pool!TripsApart /\ Pool!Fcfs
    BY DEF PoolThms!TripsApart, Pool!TripsApart, PoolThms!Fcfs, Pool!Fcfs,
           Pool!Assigned, PoolThms!Assigned, Pool!OnTheWay, PoolThms!OnTheWay,
           Pool!SetsOutIn, PoolThms!SetsOutIn
  <2> QED
    BY <2>1, <2>2, <2>3, <2>4 DEF PoolPromises
<1> QED
  BY <1>1, <1>2, <1>3, ServerImplementsPool, SamePool, PTL DEF ImplementsPool

=============================================================================
