SPECIFICATION Spec
CONSTANT MaxLength = 3
INVARIANT SuccessMeansWritten
