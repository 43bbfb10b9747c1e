CONSTANTS
  Ops = {p1, p2, p3}
  Blocks = {b1, b2, b3}
  Val = {0, 1}
  Zero = 0
  NoVal = NoVal
  NoBlock = NoBlock
  MAXOPBLOCKS = 1
  LOGSIZE = 3
  LogBlocks = 3
  AfterLog = b1
SPECIFICATION Spec
INVARIANTS LogFits
