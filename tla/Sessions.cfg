\* Liveness: two clients that leave, or are cut off, at any point; the wait of
\* the far shop is asked about, that of the near one is not.
SPECIFICATION FairSpec
CONSTANTS
  c1 = c1
  c2 = c2
  c3 = c3
  Clients <- MCClients2
  Commands <- MCOrdering
  Quantities <- MCOnePiece
  Faults <- MCSessionFaults
  MaxCount = 1
  LongWait = 2
  Dishes <- MCDishes
  Restaurants <- MCRestaurants
  RestaurantOf <- MCRestaurantOf
  PriceOf <- MCPriceOf
  DistanceOf <- MCShortDistanceOf
  MaxDistance = 2
  IntMin <- MCIntMin
  IntMax = 7
PROPERTIES OrderServed CouriersRest SessionEnds
\* the process may be interrupted
CHECK_DEADLOCK FALSE
