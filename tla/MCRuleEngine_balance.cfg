SPECIFICATION Spec
CONSTANTS
  None = None
  NoField = NoField
  Unparseable = Unparseable
  Topics = {}
  MaxConditions = 2
  Rules = {r1}
  Docs <- BalanceDocs
  BalanceValues <- MCBalance
  TopicPayloads <- Nothing
  Outcomes = {"fired"}
  ClockSteps = {}
  MaxTime = 6
INVARIANT TypeOK
PROPERTIES HysteresisBand HoldIsUnbroken OneStartPerEpisode
CHECK_DEADLOCK FALSE
