\* Three clients, room in the queue for one; messages that may be cut before and
\* behind "exit".
SPECIFICATION FairSpec
CONSTANTS
  c1 = c1
  c2 = c2
  c3 = c3
  None = None
  Clients <- ThreeClients
  Backlog = 1
  Messages <- Typed
INVARIANTS MessagePrinted
PROPERTIES AcceptedOrHeldUp
\* The server may spin, and nobody has to connect.
CHECK_DEADLOCK FALSE
