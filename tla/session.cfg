\* One client that saves and two that never read, two commands each; a command
\* writes nothing, a block, or more than the socket takes.
SPECIFICATION FairSpec
CONSTANTS
  c1 = c1
  c2 = c2
  c3 = c3
  None = None
  Clients <- ThreeClients
  Savers <- One
  SockCap = 1
  Outputs = {0, 1, 2}
  MaxCmds = 2
INVARIANTS UnreadKills
PROPERTIES OwnOutput AcceptedOrStalled
\* The server may end, and clients may wait for ever.
CHECK_DEADLOCK FALSE
