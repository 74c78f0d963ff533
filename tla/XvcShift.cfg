SPECIFICATION LoopSpec
CONSTANTS
  ByteBits = 2
  MaxLength = 6
INVARIANTS
  SentInOrder
  TdoReturned
CHECK_DEADLOCK FALSE
