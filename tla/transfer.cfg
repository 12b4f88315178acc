\* Three clients with sizes of one, two and three digits, files of two pieces.
SPECIFICATION FairSpec
CONSTANTS
  c1 = c1
  c2 = c2
  c3 = c3
  None = None
  Clients <- ThreeClients
  Digits <- AllLengths
  Chunks = 2
INVARIANTS TypeOK SuccessIsStored OnlyOneAnswered
PROPERTIES StoresOneFile AcceptedOrStuck
\* The server and the client it serves may wait for each other.
CHECK_DEADLOCK FALSE
