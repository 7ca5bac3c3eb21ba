CONSTANTS
  Cmd = {0, 1, 2}
  Aer = {2}
  SqSize = 4
  TailMod = 4
  CqSize = 3
  Window = 3
  AerLimit = 1
  Faults = {"fetch", "post", "delete", "create", "down"}
SPECIFICATION Spec
INVARIANTS TypeOK NoOverrun ReportedHeadIsPast QuietLeavesRoom
PROPERTY FifoSpec
