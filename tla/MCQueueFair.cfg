CONSTANTS
  Cmd = {0, 1, 2}
  Aer = {2}
  SqSize = 3
  TailMod = 3
  CqSize = 2
  Window = 2
  AerLimit = 1
  Faults = {}
SPECIFICATION FairSpec
PROPERTY FifoFairSpec
