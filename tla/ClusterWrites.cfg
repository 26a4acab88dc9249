SPECIFICATION Spec
CONSTANTS
  Shards <- MCShards
  Placements <- MCPlacements
  Titles <- MCTitles
  Budgets <- MCBudgets
  None = None
  Attempts = 1
  Ids = {a}
  Writers = {w1, w2}
  Readers = {r}
  MaxWrites = 3
CHECK_DEADLOCK FALSE
SYMMETRY Symmetry
INVARIANTS RowsAreExact ReadsAreExact
