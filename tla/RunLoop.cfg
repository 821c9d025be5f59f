SPECIFICATION FairSpec
CONSTANTS
  Hooks = 2
  MaxSteps = 3
  Budget = 3
  MaxCost = 2
INVARIANTS BudgetsHonest HistoryWhole ExitsTidy
PROPERTIES FollowsProtocol RunEnds
CHECK_DEADLOCK FALSE
