CONSTANTS
  NPROC = 3
  NCPU = 1
  MIN_TICKETS = 1
  MAX_TICKETS = 2
  DEFAULT_TICKETS = 1
  STRIDE1 = 2
  INT_MAX = 3
  Calls = {"fork", "wait"}
  TicketArgs = {0, 2}
  KillArgs = {}
  MaxPid = 3
SPECIFICATION FairSpec
INVARIANTS ScanPicksMin
PROPERTIES LastSlotRuns
CHECK_DEADLOCK FALSE
