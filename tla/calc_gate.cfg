\* The semaphore: three clients that keep typing, a window of two requests.
SPECIFICATION FairSpec
CONSTANTS
  c1 = c1
  c2 = c2
  c3 = c3
  None = None
  Clients <- ThreeClients
  MaxClients = 3
  Window = 2
  MaxSent <- OneOnly
  Kinds = {"mul"}
  Pipelined <- NoClient
INVARIANTS TypeOK PermitAccounting HandOver
PROPERTIES NeverBlockedAgain StrandedForever WaiterServed
\* The process may die, and every client may have sent its last request.
CHECK_DEADLOCK FALSE
