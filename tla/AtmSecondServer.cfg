\* server.c:82 against a second server started on the same port.
SPECIFICATION Spec
CONSTANTS
  s1 = s1
  s2 = s2
  c1 = c1
  c2 = c2
  Servers <- MCServers
  Clients <- MCClients2
  Amounts <- MCAmounts
  Faults <- MCTwoServers
  MaxBalance = 2
SYMMETRY ClientSymmetry
INVARIANT OnlyOneChanges
\* both servers may have ended
CHECK_DEADLOCK FALSE
