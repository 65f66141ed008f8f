\* Four orders over the real distances of hw2.c, every order of seconds,
\* ticks, assignments and arrivals.
SPECIFICATION Spec
CONSTANTS
  c1 = c1
  c2 = c2
  c3 = c3
  c4 = c4
  Clients <- MCClients
  Distances <- MCDistances
  MaxDistance = 8
SYMMETRY ClientSymmetry
INVARIANTS
  TypeOK
  BalancedLoad
  CountdownCovered
  BothBusyWhileQueued
  TripsApart
  Fcfs
\* every order delivered and no tick due: nothing is left to happen
CHECK_DEADLOCK FALSE
