CONSTANTS
  NPROC = 2
  NCPU = 2
  MIN_TICKETS = 1
  MAX_TICKETS = 1
  DEFAULT_TICKETS = 1
  STRIDE1 = 1
  INT_MAX = 1
  Calls = {"fork", "exit", "wait", "kill", "sleep", "fault"}
  TicketArgs = {0}
  KillArgs = {2}
  MaxPid = 3
SPECIFICATION Spec
INVARIANT RunningOnOneCPU
CHECK_DEADLOCK FALSE
