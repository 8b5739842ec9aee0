SPECIFICATION Spec
CONSTANTS
  r1 = r1
  r2 = r2
  r3 = r3
  p1 = p1
  p2 = p2
  NoRun = NoRun
  Runs = {r1, r2}
  Procs = {p1}
  Schemas = {"public", "demo"}
  ProcOf <- OneProc
  SchemaOf <- BothSchemas
  Family = "iac"
  Hitl = {r2}
  Faults = {"raise", "cancel"}
CHECK_DEADLOCK FALSE
INVARIANTS TypeOK Serialized BackupCurrent
PROPERTIES FinalStands SuccessSurvives LeaseSpec
