CONSTANTS
  Ops = {p1, p2}
  Blocks = {b1, b2, b3}
  Val = {0, 1}
  Zero = 0
  NoVal = NoVal
  NoBlock = NoBlock
  MAXOPBLOCKS = 2
  LOGSIZE = 4
  LogBlocks = 4
  AfterLog = b1
SPECIFICATION Spec
PROPERTIES Atomic
