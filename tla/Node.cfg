SPECIFICATION Spec
CONSTANTS
  r1 = r1  r2 = r2  r3 = r3
  g1 = g1  i1 = i1  i2 = i2
  t1 = t1  t2 = t2  t3 = t3
  Reqs <- MCReqs
  Groups = {g1}
  Ids = {i1}
  Texts = {t1, t2, t3}
  Unstorable = {t3}
  Traits <- MCTraits
  Overflows <- MCOverflows
  Mentions <- MCMentions
  IntegerOf <- MCIntegerOf
  Scenarios <- MCScenarios
  WritePermits = 2
  HealthPermits = 1
CHECK_DEADLOCK FALSE
INVARIANTS ReplyIsVisible SnapshotsAreFresh IngestIsExact
PROPERTY EveryRequestEnds
