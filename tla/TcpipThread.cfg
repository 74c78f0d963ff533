SPECIFICATION Spec
CONSTANTS
  Callers = {"telnet", "xvc"}
  Order <- MCOrder
  Tcp = "tcp"
  Interval <- MCInterval
  MBOX_SIZE = 1
  POOL_SIZE = 3
  MAX_DELAY = 3
  MaxLag = 1
INVARIANTS MessageAlive TimersKept
PROPERTIES TimersOnTime TcpTimerRuns CallReturns PeriodicServed
