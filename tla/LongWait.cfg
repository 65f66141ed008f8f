\* hw2.c:417 against the second critical section: two clients confirm while
\* a third one, told nothing, stands between its quote and its order.
SPECIFICATION Spec
CONSTANTS
  c1 = c1
  c2 = c2
  c3 = c3
  Clients <- MCClients3
  Commands <- MCOrdering
  Quantities <- MCOnePiece
  Faults <- MCNoFaults
  MaxCount = 1
  LongWait = 4
  Dishes <- MCDishes
  Restaurants <- MCRestaurants
  RestaurantOf <- MCRestaurantOf
  PriceOf <- MCPriceOf
  DistanceOf <- MCDistanceOf
  MaxDistance = 3
  IntMin <- MCIntMin
  IntMax = 7
SYMMETRY ClientSymmetry
INVARIANT LongWaitAsked
CHECK_DEADLOCK FALSE
