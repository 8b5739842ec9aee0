SPECIFICATION BackfillSpec
CONSTANTS
  Cves <- MCCves
  Malformed <- MCNone
  FeedWindow = 2
  GapThreshold = 2
  CriticalGap = 9
  Span = 1
  PageSize = 2
  Capacity = 1
  Faults = {}
  MaxFails = 0
  MaxTime = 3
  YearOf <- MCYearOf
  LastYear = 2
  Loaded = FALSE
  BackfillFaults = {"abort"}
  MaxStarts = 2
INVARIANTS  LaterChangesCovered
