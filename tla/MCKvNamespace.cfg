CONSTANTS
  Byte <- MCByte
  Zero = 0
  Word = 1
  MaxVal = 2
  MaxNumKeys = 3
  Cmds <- MCCmds
  HostBufs <- MCHostBufs
  InitialEntries = 2
  MaxEntries = 4
  MaxTransfer = 16
  NrkMod = 65536
SPECIFICATION Spec
INVARIANTS TypeOK UniqueKeys NuseExact FreeSlotsZeroed ListCountsKeys TransferFitsBuffer
PROPERTY MapSpec
