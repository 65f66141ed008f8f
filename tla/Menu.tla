-------------------------------- MODULE Menu --------------------------------
(***************************************************************************)
(* The shop table of hw2.c and the functions that look a dish up in it.    *)
(* C arrays start at 0, TLA+ sequences at 1.                               *)
(***************************************************************************)
EXTENDS Integers, Sequences

Food(n, p) == [name |-> n, price |-> p]

Shop(n, d, f) == [name |-> n, distance |-> d, items |-> f]

shops == <<
  Shop("Dessert shop",  3, << Food("cookie", 60), Food("cake", 80) >>),
  Shop("Beverage shop", 5, << Food("tea", 40), Food("boba", 70) >>),
  Shop("Diner",         8, << Food("fried-rice", 120), Food("Egg-drop-soup", 50) >>) >>

shops_num == Len(shops)

(* Index of the first element of s that passes the test, or -1.            *)
FirstIndex(s, Test(_)) ==
  LET hits == {i \in 0 .. Len(s) - 1 : Test(s[i + 1])} IN
  IF hits = {} THEN -1 ELSE CHOOSE i \in hits : \A j \in hits : i <= j

find_food_index(shop, food) == FirstIndex(shop.items, LAMBDA f : f.name = food)

find_shop_by_food(food) ==
  FirstIndex(shops, LAMBDA s : find_food_index(s, food) # -1)

(* Restaurants are numbered from 1; 0 is a dish that nobody sells.         *)
get_restaurant(dishes) == find_shop_by_food(dishes) + 1

get_price(dishes) ==
  LET s == find_shop_by_food(dishes) IN
  IF s = -1 THEN 0
  ELSE shops[s + 1].items[find_food_index(shops[s + 1], dishes) + 1].price

get_distance(restaurant) ==
  IF restaurant \in 1 .. shops_num THEN shops[restaurant].distance ELSE 0

=============================================================================
