SPECIFICATION Spec
CONSTANTS
  None = None
  NoField = NoField
  Unparseable = Unparseable
  Topics = {t1}
  MaxConditions = 1
  Rules = {r1}
  Docs <- SwitchDocs
  BalanceValues <- Nothing
  TopicPayloads <- MCTopicPayloads
  Outcomes = {"fired"}
  ClockSteps = {}
  MaxTime = 7
PROPERTIES HoldStartsOverWhenUnmet
CHECK_DEADLOCK FALSE
