SPECIFICATION FairSpec
CONSTANTS
  t = t
  u = u
  Runs = {1, 2}
  Tools = {t}
  Targets <- One
  Lag = 0
  Overlap = FALSE
  Faults = {"cancel", "raise", "thread", "row", "restart"}
  MaxFound = 1
  MaxFaults = 1
CHECK_DEADLOCK FALSE
INVARIANTS TypeOK MarkCovers SingleFlight EnrichedComplete
PROPERTIES NoLateInsert CancelStopsFetch RunsFinish
