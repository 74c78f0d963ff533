SPECIFICATION FairSpec
CONSTANTS
  Priorities <- MCPriorities
  MaxBits = 2
INVARIANTS
  IndInv
  ShiftNeverInterrupted
  ReportIsTrue
PROPERTIES
  ImplementsPort
  ConfigTerminates
  DisableRequestHonoured
  CableGetsPort
