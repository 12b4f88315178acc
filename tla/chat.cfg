\* A table of two slots and three clients, of whom the last one is one too many.
\* c1 sends two messages, c2 may leave; the words nobody has written hold junk
\* or what will be the descriptor of c2.
SPECIFICATION FairSpec
CONSTANTS
  c1 = c1
  c2 = c2
  c3 = c3
  Junk = Junk
  Clients <- ThreeClients
  MaxCon = 2
  MaxSent <- TwoByC1
  Garbage <- JunkOrC2
  Leavers <- OnlyC2
INVARIANTS TypeOK NoEcho LateBinding NewestServed InOrder
PROPERTIES Delivered
\* Main spins for ever and nobody has anything left to send.
CHECK_DEADLOCK FALSE
