SPECIFICATION SteppedSpec
CONSTANTS
  None = None
  NoField = NoField
  Unparseable = Unparseable
  Topics = {t1}
  MaxConditions = 1
  Rules = {r1}
  Docs <- SwitchDocs
  BalanceValues <- Nothing
  TopicPayloads <- MCTopicPayloads
  Outcomes = {"fired"}
  ClockSteps = {3}
  MaxTime = 7
PROPERTIES FirstTriggerNotEarly
CHECK_DEADLOCK FALSE
