\* Two clients of two commands each, streams for two commands.
SPECIFICATION FairSpec
CONSTANTS
  c1 = c1
  c2 = c2
  None = None
  Clients <- TwoClients
  MaxStreams = 2
  Outputs = {0, 1}
  MaxCmds = 2
PROPERTIES LeakKills
\* The server may stop, and nobody has to connect.
CHECK_DEADLOCK FALSE
