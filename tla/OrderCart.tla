----------------------------- MODULE OrderCart -----------------------------
(***************************************************************************)
(* The order that handle_client of hw2.c keeps in its locals while a       *)
(* client is choosing: the restaurant, its distance, the six counters and  *)
(* the amount to pay.  The menu is a parameter; MC modules give it the     *)
(* table of module Menu.                                                   *)
(***************************************************************************)
EXTENDS Integers, FiniteSets, Functions

CONSTANTS
  Dishes,        (* the words a client may order, sold or not               *)
  Restaurants,   (* the numbers get_restaurant returns, 0 for "not sold"    *)
  RestaurantOf,  (* get_restaurant, get_price and get_distance as functions *)
  PriceOf,
  DistanceOf,
  MaxDistance,   (* a bound on the distances                                *)
  IntMin, IntMax (* the range of a C int                                    *)

ASSUME MenuAssumption ==
  /\ IsFiniteSet(Dishes)
  /\ 0 \in Restaurants
  /\ RestaurantOf \in [Dishes -> Restaurants]
  /\ PriceOf \in [Dishes -> Nat]
  /\ \A d \in Dishes : RestaurantOf[d] = 0 => PriceOf[d] = 0
  /\ MaxDistance \in Nat
  /\ DistanceOf \in [Restaurants -> 0 .. MaxDistance]
  /\ \A r \in Restaurants : DistanceOf[r] = 0 <=> r = 0

ASSUME IntAssumption ==
  /\ IntMin \in Int /\ IntMax \in Int
  /\ IntMin < 0 /\ 0 < IntMax

CInt == IntMin .. IntMax

(* Signed arithmetic as the build does it: the result wraps around.        *)
Wrap(n) == IntMin + ((n - IntMin) % (IntMax - IntMin + 1))

Cart == [chosenRest   : Restaurants,
         distanceWait : 0 .. MaxDistance,
         totalCost    : CInt,
         cnt          : [Dishes -> CInt]]

NewCart == [chosenRest   |-> 0,
            distanceWait |-> 0,
            totalCost    |-> 0,
            cnt          |-> [d \in Dishes |-> 0]]

(* A bug: the restaurant is not compared.                                  *)
RefusedNever(cart, d) == FALSE

(* The restaurant of the first order decides; a dish nobody sells leaves   *)
(* it undecided.                                                           *)
Refused(cart, d) ==
  cart.chosenRest # 0 /\ RestaurantOf[d] # cart.chosenRest

(* A bug: the quantity is counted but one piece is charged.                *)
AddDishOnePrice(cart, d, q) ==
  [chosenRest   |-> RestaurantOf[d],
   distanceWait |-> DistanceOf[RestaurantOf[d]],
   totalCost    |-> Wrap(cart.totalCost + PriceOf[d]),
   cnt          |-> IF RestaurantOf[d] = 0 THEN cart.cnt
                    ELSE [cart.cnt EXCEPT ![d] = Wrap(@ + q)]]

(* "order d q" by a client that is not refused.  A dish nobody sells has   *)
(* no counter and costs nothing.                                           *)
AddDish(cart, d, q) ==
  [chosenRest   |-> RestaurantOf[d],
   distanceWait |-> DistanceOf[RestaurantOf[d]],
   totalCost    |-> Wrap(cart.totalCost + Wrap(PriceOf[d] * q)),
   cnt          |-> IF RestaurantOf[d] = 0 THEN cart.cnt
                    ELSE [cart.cnt EXCEPT ![d] = Wrap(@ + q)]]

-----------------------------------------------------------------------------
(* A cart holds dishes of one restaurant only, and the courier will be     *)
(* sent the distance of that very restaurant.                              *)
OneRestaurant(cart) ==
  /\ cart.distanceWait = DistanceOf[cart.chosenRest]
  /\ \A d \in Dishes : cart.cnt[d] # 0 => RestaurantOf[d] = cart.chosenRest

(* What the dishes counted so far cost.                                    *)
Bill(cnt) == SumFunction([d \in Dishes |-> PriceOf[d] * cnt[d]])

(* The amount asked for is the bill of the counters, to the width of int.  *)
Charged(cart) == cart.totalCost = Wrap(Bill(cart.cnt))

=============================================================================
