SPECIFICATION FairSpec
CONSTANTS
  lead = lead  helper = helper  worker = worker  expert = expert
  read = read  send = send  NoAgent = NoAgent
  Agent = {lead, helper, worker, expert}
  Top = {lead}
  Cascading = {worker}
  SasFirst = {worker}
  Delegates <- MCDelegates
  Tools <- MCTools
  Declared <- MCDeclared
  ReadPrivate = read
  MaxDepth <- MCMaxDepth
  Escalation <- MCEscalation
  MaxAttempts <- MCTwo
  MaxCascade <- MCOne
  MaxTurns = 1
  Permits = 4
  Runs = 1
  MaxCalls = 2
  TurnNodes <- MCTurnNodes
  MaxNodes = 9
INVARIANTS ParentsOutlive ToolsWithinGrant LimitsHold
PROPERTIES RunsReturn
CHECK_DEADLOCK FALSE
