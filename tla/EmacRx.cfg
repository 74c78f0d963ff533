SPECIFICATION FairSpec
CONSTANTS
  Size = 4
  MaxPieces = 5
  Capacity = 2
  MaxFrames = 3
INVARIANTS
  FramesInOrder
  OwnedInOrder
PROPERTIES
  AllDelivered
  Recovers
