CONSTANTS
  Byte <- MCByte
  Zero = 0
  Word = 1
  MaxVal = 1
  MaxNumKeys = 1
  Cmds <- MCCmds
  HostBufs <- MCHostBufs
  Queue = {q1, q2}
  Depth = 2
SPECIFICATION Spec
INVARIANTS TypeOK AckedIsTrue
