SPECIFICATION FairSpec
CONSTANTS
  r1 = r1
  r2 = r2
  r3 = r3
  p1 = p1
  p2 = p2
  NoRun = NoRun
  Runs = {r1, r2}
  Procs = {p1}
  Schemas = {"public"}
  ProcOf <- OneProc
  SchemaOf <- Public
  Family = "code"
  Hitl = {r2}
  Faults = {"raise", "db", "process"}
CHECK_DEADLOCK FALSE
PROPERTIES RowsClose RunsEnd
