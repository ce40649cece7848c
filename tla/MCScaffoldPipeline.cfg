CONSTANTS
  Absent = Absent
  NameOrder <- MCNames
  Versions = {1, 2, 3, 4}
  Initial = {1}
  Compiled <- MCCompiled
  Contracts = {Absent, "B"}
  Orders = {1}
  MaxShards = 2
  MaxCommands = 3
  MaxEdits = 2
  MaxInterrupts = 2
  MaxDisturbances = 3
SPECIFICATION Spec
CHECK_DEADLOCK FALSE
INVARIANTS VerdictSound SummariesCurrent ForceRepairs
