\* Two clients and two servers with all faults: side by side, one after the
\* other, interrupted, killed, unable to bind.
SPECIFICATION FairSpec
CONSTANTS
  s1 = s1
  s2 = s2
  c1 = c1
  c2 = c2
  Servers <- MCServers
  Clients <- MCClients2
  Amounts <- MCOneAmount
  Faults <- MCAllFaults
  MaxBalance = 2
INVARIANTS TypeOK OneInSoundServer SemaphoreAccounted
PROPERTIES RequestServed ImplementsAccount
\* both servers may have ended
CHECK_DEADLOCK FALSE
