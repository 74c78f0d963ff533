SPECIFICATION FairSpec
CONSTANT MaxLength = 3
INVARIANTS
  ReadIsTrue
  WriteIsTrue
  RestsBetweenCalls
PROPERTY CallReturns
