SPECIFICATION HistorySpec
CONSTANTS
  Rules = {r1, r2}
  Limits = {2}
  Persists = {TRUE}
  Recorders = {"scheduler", "network"}
  MaxEntries = 3
INVARIANTS EntriesSurvive
