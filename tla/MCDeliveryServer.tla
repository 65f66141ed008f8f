-------------------------- MODULE MCDeliveryServer --------------------------
(* Instances of DeliveryServer for TLC in which the threads race: a menu   *)
(* of two dishes from two shops, one near and one far.                     *)
EXTENDS DeliveryServer, TLC

CONSTANTS c1, c2, c3

MCClients2 == {c1, c2}

MCClients3 == {c1, c2, c3}

ClientSymmetry == Permutations(MCClients3)

MCDishes == {"cookie", "tea"}

MCRestaurants == 0 .. 2

MCRestaurantOf == [d \in MCDishes |-> IF d = "cookie" THEN 1 ELSE 2]

MCPriceOf == [d \in MCDishes |-> IF d = "cookie" THEN 3 ELSE 2]

(* A trip is longer than the one second of the clock's phase.              *)
MCDistanceOf == [r \in MCRestaurants |-> IF r = 0 THEN 0 ELSE r + 1]

MCShortDistanceOf == [r \in MCRestaurants |-> r]

MCOrdering == {"order", "confirm"}

MCIntMin == -8

MCNoFaults == {}

MCSessionFaults == {"close", "no thread"}

MCOnePiece == {1}

=============================================================================
