SPECIFICATION QueriesSpec
CONSTANTS
  Positions = {1, 2}
  Queries = {1, 2}
  Scores = {1, 2}
  SearchTitles = {"t1", "t2"}
  MatchOf <- MCMatchOf
  Placements <- MCPlacements
  Sizes = {1}
  UpTo = 1
  OpenLimit = 1
  MaxPits = 1
  MaxWrites = 2
  MaxGen = 1
  MaxClock = 1
  Cases <- MCCases
  Numbers = {}
  Years = {}
  NumberContext = {}
  Vocabularies <- MCVocabularies
  Titles <- MCTitles
  Features <- MCFeatures
  HotSlots = 1
  MaxFreq = 4
  TagsOf <- MCTagsOf
  Settings <- MCSettings
  Thetas = {0, 2}
  MaxAdds = 2
  MaxMerges = 1
  MaxMoves = 1
CHECK_DEADLOCK FALSE
INVARIANTS PagesAreOneInstant SourceIsOfTheMatch CasesAreExact AnswersAreExact CompletionIsExact
