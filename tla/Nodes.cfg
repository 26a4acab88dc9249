SPECIFICATION NodesSpec
CONSTANTS
  Calls = {k1, k2, k3}
  Candidates = {"A", "B"}
  Unowned = Unowned
  Handlers = {h1, h2}
  Owners = {"A", "B"}
  Shards = {s1, s2}
  Settings <- MCSettings
  MaxFence = 1
  Nobody = Nobody
  Nothing = Nothing
SYMMETRY HandlerSymmetry
CHECK_DEADLOCK FALSE
INVARIANTS LeaseIsSafe SlotsAreSafe
