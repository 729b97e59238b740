SPECIFICATION Spec
CONSTANTS
  None = None
  NoField = NoField
  Unparseable = Unparseable
  Topics = {t1}
  MaxConditions = 1
  a1 = a1
  a2 = a2
  Scenarios = {s1}
  Actions = {a1, a2}
  Docs <- MCDocs
  BalanceValues <- MCBalance
  TopicPayloads = {1}
  Choices = {"sent", "blocked"}
  MaxTime = 5
INVARIANTS TypeOK RunningKnowsItsEnd
PROPERTIES LifecycleSpec StaleEndsNothing FallbackNotLate HoldStartsOverWhenUnmet
CHECK_DEADLOCK FALSE
