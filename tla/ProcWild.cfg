CONSTANTS
  NPROC = 3
  NCPU = 2
  MIN_TICKETS = 1
  MAX_TICKETS = 1
  DEFAULT_TICKETS = 1
  STRIDE1 = 1
  INT_MAX = 7
  Calls = {"fork", "wait"}
  TicketArgs = {0}
  KillArgs = {}
  MaxPid = 3
SPECIFICATION Spec
INVARIANTS NotTakenTwice
CHECK_DEADLOCK FALSE
