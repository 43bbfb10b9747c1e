CONSTANTS
  NPROC = 3
  NCPU = 1
  MIN_TICKETS = 1
  MAX_TICKETS = 1
  DEFAULT_TICKETS = 1
  STRIDE1 = 1
  INT_MAX = 7
  Calls = {"fork", "exit", "wait", "sleep"}
  TicketArgs = {0}
  KillArgs = {}
  MaxPid = 3
SPECIFICATION Spec
PROPERTIES ZombieUntilWait
CHECK_DEADLOCK FALSE
