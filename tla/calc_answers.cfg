\* Every kind of request; c1 sends ahead, c2 waits for each answer; one client
\* more than there is a place for.
SPECIFICATION Spec
CONSTANTS
  c1 = c1
  c2 = c2
  c3 = c3
  None = None
  Clients <- TwoClients
  MaxClients = 1
  Window = 2
  MaxSent <- TwoThree
  Kinds = {"mul", "other", "plain", "lone"}
  Pipelined <- One
INVARIANTS OwnOperands LockstepAnswers AnswersInOrder
\* The process may die, and every client may have sent its last request.
CHECK_DEADLOCK FALSE
