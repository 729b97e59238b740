SPECIFICATION Spec
CONSTANTS
  None = None
  Days <- MCDays
  Weekdays = 2
  Calendars <- MCCalendars
  SunTimes <- MCSunTimes
  Windows <- MCWindows
  MaxTime = 9
  MaxMessages = 4
  MaxFeedTime = 5
  MaxAge = 1
  Rules = {r1, r2}
  Limits = {1, 2}
  Persists = {TRUE, FALSE}
  Recorders = {"scheduler", "network"}
  MaxEntries = 4
  NoSample = NoSample
  Runs = {1, 2}
  Minute = 1
  FiveMinutes = 2
  RawWindow = 1
  MinuteWindow = 2
  Grace = 1
  RawBytes = 3
  RollupBytes = 4
  Configs <- MCConfigs
  EvictChunk = 2
  MaxClock = 3
  MaxEvents = 1
INVARIANTS TypeOK ActsOnFreshBalance FileIsCurrent BytesTrue NothingMissing WindowsKeepTheirDays
CHECK_DEADLOCK FALSE
