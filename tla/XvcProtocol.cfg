SPECIFICATION Spec
CONSTANTS
  Sessions <- MCSessions
  MaxChain = 3
  MaxBytes = 4
  MaxConnections = 2
INVARIANTS
  TypeOK
  CommandsInOrder
  AllAnswered
  StopsForCause
PROPERTY
  LoopConsumes
CHECK_DEADLOCK FALSE
