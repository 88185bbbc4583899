SPECIFICATION FairSpec
CONSTANTS
  Games <- MCGames
  NoRule = NoRule
  Users = {u1}
  MaxQueue = 2
  IntWidth = 3
INVARIANTS
  StackIsRulePath
  LoopVariablesAreScoped
  TimedRulesRun
  BodyRunsOncePerElement
  ListsKeepTheirElements
PROPERTY FinishingGamesEnd
CHECK_DEADLOCK FALSE
