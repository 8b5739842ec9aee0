SPECIFICATION Spec
CONSTANTS
  r1 = r1
  r2 = r2
  r3 = r3
  p1 = p1
  p2 = p2
  NoRun = NoRun
  Runs = {r1}
  Procs = {p1}
  Schemas = {"public"}
  ProcOf <- OneProc
  SchemaOf <- Public
  Family = "code"
  Hitl = {}
  Faults = {}
CHECK_DEADLOCK FALSE
PROPERTY AbortTriesRollback
