SPECIFICATION Spec
CONSTANTS
  None = None
  NoField = NoField
  Unparseable = Unparseable
  Topics = {t1}
  MaxConditions = 1
  Rules = {r1}
  Docs <- SpacingDocs
  BalanceValues <- Nothing
  TopicPayloads <- MCTopicPayloads
  Outcomes = {"fired"}
  ClockSteps = {}
  MaxTime = 7
INVARIANTS TriggerNotLost
PROPERTIES PublishSpacing FirstTriggerNotEarly
CHECK_DEADLOCK FALSE
