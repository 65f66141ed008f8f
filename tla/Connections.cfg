\* Three clients of the train server, Ctrl-C at any time, a fork that may fail.
\* Three commands to the delivery server, sent ahead or not, whole or cut.
SPECIFICATION ConnectionsSpec
CONSTANTS
  c1 = c1
  c2 = c2
  c3 = c3
  Clients <- MCClients
  ForkFails = TRUE
  Commands = 3
  Pieces = 2
INVARIANTS TypesOK ZombieNoticed NothingMixed
PROPERTIES NobodyKeptWaiting ConnectionEnds PortFreed LockstepAnswered
\* the client of the delivery server may have left
CHECK_DEADLOCK FALSE
