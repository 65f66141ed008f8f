\* Fifteen numbers, an int that holds every sum, the timer slower than game.
\* Two servers that may be killed and two clients, in any order.
SPECIFICATION Lab7Spec
CONSTANTS
  Targets <- MCNumbers
  N = 15
  IntMax = 31
  Late = FALSE
  p1 = p1
  p2 = p2
  c1 = c1
  c2 = c2
  Servers <- MCServers
  Clients <- MCClients
  Letters = 3
  Kills = TRUE
INVARIANTS TypesOK TargetInInterval ReadsFromTheStart NothingLeft
PROPERTIES ImplementsBinarySearch UntilGuessed ServerEnds
\* the processes of the second pair end
CHECK_DEADLOCK FALSE
