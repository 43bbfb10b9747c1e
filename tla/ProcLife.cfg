CONSTANTS
  NPROC = 3
  NCPU = 1
  MIN_TICKETS = 1
  MAX_TICKETS = 1
  DEFAULT_TICKETS = 1
  STRIDE1 = 1
  INT_MAX = 1
  Calls = {"fork", "exit", "wait", "kill", "sleep", "fault"}
  TicketArgs = {0}
  KillArgs = {0, 2, 3}
  MaxPid = 3
SPECIFICATION Spec
INVARIANTS TypeOK ParentCanWait NoMissedExit PidsDistinct MemoryOwned
CHECK_DEADLOCK FALSE
