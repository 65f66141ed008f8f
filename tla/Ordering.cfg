\* One client and the menu of hw2.c: every sequence of commands.
SPECIFICATION Spec
CONSTANTS
  Clients <- MCClients
  Commands <- MCAllCommands
  Quantities <- MCQuantities
  Faults <- MCInterrupt
  MaxCount = 4
  LongWait = 8
  Dishes <- MCDishes
  Restaurants <- MCRestaurants
  RestaurantOf <- MCRestaurantOf
  PriceOf <- MCPriceOf
  DistanceOf <- MCDistanceOf
  MaxDistance = 8
  IntMin <- MCNarrowMin
  IntMax = 255
INVARIANTS
  CartsOneRestaurant
  CartsCharged
\* a delivered client has nothing left to do
CHECK_DEADLOCK FALSE
