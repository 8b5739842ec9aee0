SPECIFICATION Spec
CONSTANTS
  None = None
  Given <- MCGiven
  RawVectors <- MCRaw
  Points <- MCPoints
  Runs <- MCRuns
  Assets <- MCAssets
  Nvd <- MCNvd
  EpssOf <- MCEpss
  Kev <- MCKev
  EpssLimit = 1
  Threshold = 1
  Releases <- MCReleases
  Slots = {1, 2}
  Kinds = {"enrich", "rescore", "backfill", "upgrade", "reenrich", "retry"}
  Budgets <- MCBudgets
CHECK_DEADLOCK FALSE
INVARIANTS ScoreCurrent CatalogWhole
 
