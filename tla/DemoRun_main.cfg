SPECIFICATION FairSpec
CONSTANTS
  Scoops <- ImageScoops
  Families <- TwoFamilies
  MaxSample = 2
  Pools <- RealRuns
  Modes = {"auto", "hitl", "review"}
  HitlCap = 1
  AutoFix = TRUE
  Results <- FixResults
  MaxReview = 2
  MaxFaults = 1
CHECK_DEADLOCK FALSE
INVARIANTS  StopsSoon
 
