\* Three clients that confirm at the same time, with update_logic ticking
\* between them.
SPECIFICATION Spec
CONSTANTS
  c1 = c1
  c2 = c2
  c3 = c3
  Clients <- MCClients3
  Commands <- MCOrdering
  Quantities <- MCOnePiece
  Faults <- MCNoFaults
  MaxCount = 1
  LongWait = 4
  Dishes <- MCDishes
  Restaurants <- MCRestaurants
  RestaurantOf <- MCRestaurantOf
  PriceOf <- MCPriceOf
  DistanceOf <- MCDistanceOf
  MaxDistance = 3
  IntMin <- MCIntMin
  IntMax = 7
SYMMETRY ClientSymmetry
INVARIANTS
  TypeOK
  QuoteHolds
PROPERTY ImplementsPool
\* all orders delivered and the clients gone quiet: nothing is left to happen
CHECK_DEADLOCK FALSE
