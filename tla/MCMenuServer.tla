---------------------------- MODULE MCMenuServer ----------------------------
(* Instances of DeliveryServer for TLC with the shops of hw2.c, for what a *)
(* single client can do to its order.                                      *)
EXTENDS DeliveryServer, TLC

M == INSTANCE Menu

MCClients == {"client"}

(* Everything the shops sell, and something they do not.                   *)
MCDishes ==
  {"cookie", "cake", "tea", "boba", "fried-rice", "Egg-drop-soup", "pizza"}

MCRestaurants == 0 .. M!shops_num

MCRestaurantOf == [d \in MCDishes |-> M!get_restaurant(d)]

MCPriceOf == [d \in MCDishes |-> M!get_price(d)]

MCDistanceOf == [r \in MCRestaurants |-> M!get_distance(r)]

MCAllCommands == {"shop list", "order", "bad order", "confirm", "cancel", "other"}

MCInterrupt == {"interrupt"}

(* More, less and no change.                                               *)
MCQuantities == {-1, 0, 2}

(* Four cookies and minus three cakes cost nothing.                        *)
MCRefunds == {-3, 4}

(* An int of nine bits, which an order of this size overflows ...          *)
MCNarrowMin == -256

(* ... and one of sixteen, which it does not.                              *)
MCWideMin == -32768

=============================================================================
