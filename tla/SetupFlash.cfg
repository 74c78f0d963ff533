SPECIFICATION Spec
CONSTANTS
  b0 = b0
  b1 = b1
  Bit = {b0, b1}
  Oui = {b0}
  Low <- MCLow
  Stack <- MCStack
  Alnum <- MCAlnum
INVARIANTS SetupSurvives ChipInStep
PROPERTY CommandEnds
