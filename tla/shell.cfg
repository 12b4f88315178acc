\* Three clients for the two thread slots of a table of one (the third would
\* overwrite the count); c1 sends two commands, c2 one and c3 none.  A command
\* writes nothing, or more than one read and the pipe together take.  There
\* are descriptors for one pipe and a half; c2 may be interrupted and is the
\* one for whom pthread_create and fork may fail.
SPECIFICATION FairSpec
CONSTANTS
  c1 = c1
  c2 = c2
  c3 = c3
  Clients <- ThreeClients
  MaxClients = 1
  MaxFd = 5
  PipeCap = 1
  Outputs = {0, 3}
  MaxCmds <- TwoByC1
  Leavers <- OnlyC2
  Unlucky <- OnlyC2
INVARIANTS TypeOK DescriptorsOwned OwnFirstOutput EnoughChildren
PROPERTIES WaitEnds FirstOutputArrives
\* Children blocked by full pipes and clients waiting for empty answers.
CHECK_DEADLOCK FALSE
