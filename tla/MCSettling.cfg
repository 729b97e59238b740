SPECIFICATION Spec
CONSTANTS
  None = None
  Absent = Absent
  Regulators <- LoopRegulators
  Loads <- LoopLoads
  Powers <- LoopPowers
  MaxChanges = 2
  a = a
  b1 = b1
  r1 = r1
  r2 = r2
  Browsers <- MCBrowsers
  Rows <- MCRows
  Stores <- MCStores
  Modes = {"always", "on-demand"}
  Throws = {"offer", "deliver"}
  MaxJoins = 2
  MaxQueue = 2
  MaxEvents = 1
  
PROPERTIES NeverRaisedPastIdeal ComesToRest 
CHECK_DEADLOCK FALSE
