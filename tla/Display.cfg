SPECIFICATION FairSpec
CONSTANTS
  Names <- DriverNames
  Pins <- GPIOs
  init <- driver_init
  exit <- driver_exit
  Wanted = {"21", "7", "8", "2"}
  Arguments <- MCArguments
  Quantities <- MCQuantities
  MaxItems = 2
  Capitals = {"A", "T", "E"}
  SmallLetters = {"n"}
  Others = {"-"}
  Persons <- MCPersons
  MaxNames = 3
  MaxQueue = 2
CHECK_DEADLOCK FALSE
INVARIANTS
  NothingIsLeft
  CountsDown
  DigitsAreShown
PROPERTIES
  PinsAreKept
  LettersInOrder
  LastLetterIsShown
