SPECIFICATION Spec
CONSTANTS
  Writers <- OneWriter
  Stray <- Ethint
  Size = 3
  MaxFrames = 4
INVARIANT
  ReportedIsWritten
CHECK_DEADLOCK FALSE
