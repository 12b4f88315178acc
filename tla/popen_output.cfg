\* Two clients of two commands each, streams for three commands.
SPECIFICATION Spec
CONSTANTS
  c1 = c1
  c2 = c2
  None = None
  Clients <- TwoClients
  MaxStreams = 3
  Outputs = {0, 1, 2}
  MaxCmds = 2
INVARIANTS OutputRedirected
\* The server may stop, and nobody has to connect.
CHECK_DEADLOCK FALSE
