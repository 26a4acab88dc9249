SPECIFICATION Spec
CONSTANTS
  None = None
  Nodes = {n1, n2} First = n1 Writers = {w1, w2} Ids = {q1, q2}
  Kinds = {"add", "upsert", "remove"} MaxOps = 2 MaxMoves = 2
  Straggle = TRUE LiveLeaseExpires = FALSE RestartsMidMove = FALSE
CHECK_DEADLOCK FALSE
INVARIANT ServesEveryWrite
