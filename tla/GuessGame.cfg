SPECIFICATION FairSpec
CONSTANTS
  Upper = 25
  Numbers <- MCAll
  MaxRestarts = 1
CHECK_DEADLOCK FALSE
INVARIANTS
  NumberInInterval
  BingoIsRight
PROPERTIES
  MisledByHaste
  NumberIsFound
