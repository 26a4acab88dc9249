SPECIFICATION LocksSpec
CONSTANTS
  Movers = {m1, m2}
  Readers = {r1, r2}
  Timed = {r2}
  None = None
  Attempts = 1
  MaxMoves = 2
  Ids = {a, b}
  Writers = {w1, w2, w3}
  Loaders = {l}
  Nobody = Nobody
  MaxLocks = 3
CHECK_DEADLOCK FALSE
INVARIANTS FenceIsSafe LocksAreSafe
PROPERTY NobodyWaitsForever
