\* Three clients for the two slots of a table of one; c1 asks once and may
\* leave, c2 asks twice, c3 never.  A command writes nothing, or more than one
\* read and the pipe take when the read is short, or one block if it cannot be
\* executed; behind a header there is room for two blocks or headers.
SPECIFICATION FairSpec
CONSTANTS
  c1 = c1
  c2 = c2
  c3 = c3
  Clients <- ThreeClients
  MaxCons = 1
  PipeCap = 1
  RespCap = 2
  Outputs = {0, 3}
  MaxReqs <- OnceAndTwice
  Leavers <- OnlyC1
INVARIANTS TypeOK ChildrenMatchWaits OwnAnswers
PROPERTIES HeldUp OrphanEnds
\* Commands blocked by full pipes, and clients that have nothing to ask.
CHECK_DEADLOCK FALSE
