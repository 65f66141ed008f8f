\* hw2.c:395 against quantities that cancel out.
SPECIFICATION Spec
CONSTANTS
  Clients <- MCClients
  Commands <- MCAllCommands
  Quantities <- MCRefunds
  Faults <- MCInterrupt
  MaxCount = 4
  LongWait = 30
  Dishes <- MCDishes
  Restaurants <- MCRestaurants
  RestaurantOf <- MCRestaurantOf
  PriceOf <- MCPriceOf
  DistanceOf <- MCDistanceOf
  MaxDistance = 8
  IntMin <- MCWideMin
  IntMax = 32767
INVARIANT PleaseOrderMeansEmpty
\* a delivered client has nothing left to do
CHECK_DEADLOCK FALSE
