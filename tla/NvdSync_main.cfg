SPECIFICATION FairSpec
CONSTANTS
  Cves <- MCCves
  Malformed <- MCBadRecord
  FeedWindow = 4
  GapThreshold = 4
  CriticalGap = 9
  Span = 1
  PageSize = 2
  Capacity = 2
  Faults = {"fetch", "write", "slow", "killed"}
  MaxFails = 2
  MaxTime = 6
INVARIANTS TypeOK CheckpointCovers EarlyExitSafe
PROPERTIES MirrorSpec CatchesUp
