SPECIFICATION FairSpec
CONSTANTS
  a = a
  b = b
  f = f
  g = g
  c1 = c1
  c2 = c2
  Packages = {a, b}
  Files = {f, g}
  FileOf <- OwnFiles
  Reviewed = {a, b}
  Git = {b}
  Clients = {c1, c2}
  ActOn = {"awaiting_approval", "rolled_back", "review_rejected"}
  Allowed = {"github", "ssm", "restart", "write"}
  MaxRuns = 3
  MaxFaults = 1
CHECK_DEADLOCK FALSE
INVARIANTS TypeOK  
PROPERTIES ReviewGate NoLateOutcome DispatchEnds
