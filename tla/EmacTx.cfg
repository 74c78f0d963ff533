SPECIFICATION FairSpec
CONSTANTS
  Writers <- TwoWriters
  Stray <- Ethint
  Size = 3
  MaxFrames = 4
INVARIANT
  QueueIntact
PROPERTIES
  AllTransmitted
  OutputReturns
CHECK_DEADLOCK FALSE
