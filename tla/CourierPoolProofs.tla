------------------------- MODULE CourierPoolProofs -------------------------
(***************************************************************************)
(* The invariants of CourierPool, for any set of clients and any distances *)
(* up to MaxDistance.                                                      *)
(***************************************************************************)
EXTENDS CourierPool, TLAPS

(* Nobody holds a ticket that has not been issued: needed so that a new    *)
(* order comes after every earlier one.                                    *)
TicketsIssued == \A c \in Clients : turn[c] <= tickets

(* The inductive invariant.  BalancedLoad stands on TypeOK alone;          *)
(* TripsApart needs CountdownCovered, and Fcfs needs BothBusyWhileQueued,  *)
(* at the step that assigns the later of the two orders.                   *)
IInv ==
  /\ TypeOK
  /\ TicketsIssued
  /\ BalancedLoad
  /\ CountdownCovered
  /\ BothBusyWhileQueued
  /\ TripsApart
  /\ Fcfs

(* Choosing the courier with less work really chooses the least loaded.    *)
LEMMA SelectLeast ==
  ASSUME NEW r \in [Couriers -> Nat]
  PROVE  /\ Select(r) \in Couriers
         /\ \A k \in Couriers : r[Select(r)] <= r[k]
  BY DEF Select, Couriers

(* A counter that stops at zero stays a natural number.                    *)
LEMMA DecNat ==
  ASSUME NEW n \in Nat
  PROVE  Dec(n) \in Nat
  BY DEF Dec

(* An idle pool satisfies the invariant.                                   *)
LEMMA InitIInv ==
  ASSUME Init
  PROVE  IInv
<1>1. TypeOK
  BY DEF Init, TypeOK, Couriers
<1>2. BalancedLoad
  BY DistancesAssumption DEF Init, BalancedLoad, Abs, Couriers
<1>3. QED
  BY <1>1, <1>2 DEF Init, IInv, TicketsIssued, CountdownCovered,
     BothBusyWhileQueued, TripsApart, Fcfs, Assigned, OnTheWay

(* order_point_to keeps it: the order goes to the courier with less work,  *)
(* behind everything promised before.                                      *)
LEMMA AssignIInv ==
  ASSUME IInv, NEW x \in Clients, NEW d \in Distances, Assign(x, d)
  PROVE  IInv'
<1> DEFINE k == Select(remain)
<1>1. /\ k \in Couriers
      /\ \A j \in Couriers : remain[k] <= remain[j]
  BY SelectLeast DEF IInv, TypeOK
<1>2. d \in Nat /\ d <= MaxDistance /\ d > 0 /\ MaxDistance \in Nat
  BY DistancesAssumption
<1> USE DEF IInv, TypeOK
<1>3. TypeOK'
  BY <1>1, <1>2 DEF Assign
<1>4. TicketsIssued'
  BY DEF Assign, TicketsIssued
<1>5. BalancedLoad'
  BY <1>1, <1>2 DEF Assign, BalancedLoad, Couriers, Abs
<1>6. CountdownCovered'
  BY <1>1, <1>2 DEF Assign, CountdownCovered, Assigned, Slack
<1>7. BothBusyWhileQueued'
  BY <1>1, <1>2 DEF Assign, BothBusyWhileQueued, OnTheWay, Assigned,
                    SetsOutIn, Slack
<1>8. TripsApart'
  BY <1>1, <1>2 DEF Assign, TripsApart, TicketsIssued, CountdownCovered,
                    OnTheWay, Assigned, Slack
<1>9. Fcfs'
  BY <1>1, <1>2 DEF Assign, Fcfs, TicketsIssued, BothBusyWhileQueued,
                    OnTheWay, Assigned, SetsOutIn, Slack
<1>10. QED
  BY <1>3, <1>4, <1>5, <1>6, <1>7, <1>8, <1>9

(* A second keeps it: waits only become shorter, and a tick becomes due at *)
(* most once.                                                              *)
LEMMA ElapseIInv ==
  ASSUME IInv, Elapse
  PROVE  IInv'
<1> USE DEF IInv, TypeOK
<1>1. TypeOK'
  <2>1. tickDue' \in BOOLEAN
    BY Zenon DEF Elapse
  <2>2. left' \in [Clients -> Nat]
    BY DecNat DEF Elapse
  <2>3. QED
    BY <2>1, <2>2 DEF Elapse
<1>2. TicketsIssued'
  BY DEF Elapse, TicketsIssued
<1>3. BalancedLoad'
  BY DEF Elapse, BalancedLoad
<1>4. CountdownCovered'
  BY DEF Elapse, CountdownCovered, Assigned, Slack, Dec
<1>5. BothBusyWhileQueued'
  BY DEF Elapse, BothBusyWhileQueued, OnTheWay, Assigned, SetsOutIn, Slack,
         Dec, Couriers
<1>6. TripsApart'
  BY DEF Elapse, TripsApart, OnTheWay, Assigned, Dec
<1>7. Fcfs'
  BY DEF Elapse, Fcfs, OnTheWay, Assigned, SetsOutIn, Dec
<1>8. QED
  BY <1>1, <1>2, <1>3, <1>4, <1>5, <1>6, <1>7

(* A round of update_logic keeps it: it takes the second that is due off   *)
(* both couriers.                                                          *)
LEMMA TickIInv ==
  ASSUME IInv, Tick
  PROVE  IInv'
<1> USE DEF IInv, TypeOK
<1>1. TypeOK'
  <2>1. tickDue' \in BOOLEAN
    BY Zenon DEF Tick
  <2>2. remain' \in [Couriers -> Nat]
    BY DecNat DEF Tick
  <2>3. QED
    BY <2>1, <2>2 DEF Tick
<1>2. TicketsIssued'
  BY DEF Tick, TicketsIssued
<1>3. BalancedLoad'
  BY DistancesAssumption DEF Tick, BalancedLoad, Abs, Dec, Couriers
<1>4. CountdownCovered'
  BY DEF Tick, CountdownCovered, Assigned, Slack, Dec
<1>5. BothBusyWhileQueued'
  BY DEF Tick, BothBusyWhileQueued, OnTheWay, Assigned, SetsOutIn, Slack, Dec
<1>6. TripsApart'
  BY DEF Tick, TripsApart, OnTheWay, Assigned
<1>7. Fcfs'
  BY DEF Tick, Fcfs, OnTheWay, Assigned, SetsOutIn
<1>8. QED
  BY <1>1, <1>2, <1>3, <1>4, <1>5, <1>6, <1>7

(* Arrive and stuttering change nothing that IInv reads but arrived.       *)
LEMMA ArriveIInv ==
  ASSUME IInv, UNCHANGED <<remain, tickDue, turn, tickets, courier, dist, left>>,
         arrived' \in SUBSET Clients
  PROVE  IInv'
  BY DEF IInv, TypeOK, TicketsIssued, BalancedLoad, CountdownCovered,
         BothBusyWhileQueued, TripsApart, Fcfs, Assigned, OnTheWay, SetsOutIn,
         Slack

(* The invariant of the pool: whatever the interleaving of orders, ticks   *)
(* and seconds.                                                            *)
THEOREM PoolInvariant == Spec => []IInv
<1>1. Init => IInv
  BY InitIInv
<1>2. IInv /\ [Next]_vars => IInv'
  <2> SUFFICES ASSUME IInv, [Next]_vars
               PROVE  IInv'
    OBVIOUS
  <2>1. ASSUME NEW c \in Clients, NEW d \in Distances, Assign(c, d)
        PROVE  IInv'
    BY <2>1, AssignIInv
  <2>2. CASE Elapse
    BY <2>2, ElapseIInv
  <2>3. CASE Tick
    BY <2>3, TickIInv
  <2>4. ASSUME NEW c \in Clients, Arrive(c)
        PROVE  IInv'
    BY <2>4, ArriveIInv DEF Arrive, IInv, TypeOK
  <2>5. CASE UNCHANGED vars
    BY <2>5, ArriveIInv DEF vars, IInv, TypeOK
  <2>6. QED
    BY <2>1, <2>2, <2>3, <2>4, <2>5 DEF Next
<1>3. QED
  BY <1>1, <1>2, PTL DEF Spec

(* The variables of the pool keep their types.                             *)
THEOREM PoolTypeOK == Spec => []TypeOK
<1>1. IInv => TypeOK
  BY DEF IInv
<1>2. QED
  BY <1>1, PoolInvariant, PTL

(* The couriers' loads never differ by more than one trip.                 *)
THEOREM PoolBalanced == Spec => []BalancedLoad
<1>1. IInv => BalancedLoad
  BY DEF IInv
<1>2. QED
  BY <1>1, PoolInvariant, PTL

(* A courier's counter covers every wait it has promised.                  *)
THEOREM PoolCovered == Spec => []CountdownCovered
<1>1. IInv => CountdownCovered
  BY DEF IInv
<1>2. QED
  BY <1>1, PoolInvariant, PTL

(* No order queues while a courier is idle.                                *)
THEOREM PoolWorkConserving == Spec => []BothBusyWhileQueued
<1>1. IInv => BothBusyWhileQueued
  BY DEF IInv
<1>2. QED
  BY <1>1, PoolInvariant, PTL

(* One courier's deliveries follow each other a trip apart.                *)
THEOREM PoolTripsApart == Spec => []TripsApart
<1>1. IInv => TripsApart
  BY DEF IInv
<1>2. QED
  BY <1>1, PoolInvariant, PTL

(* Orders are set out for in the order of assignment.                      *)
THEOREM PoolFcfs == Spec => []Fcfs
<1>1. IInv => Fcfs
  BY DEF IInv
<1>2. QED
  BY <1>1, PoolInvariant, PTL

=============================================================================
