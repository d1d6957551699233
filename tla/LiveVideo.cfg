SPECIFICATION FairSpec
CONSTANTS
  Chunks = 3
  Clicks = {"check", "cross", "quit"}
  MaxClicks = 2
  MaxLost = 4
CHECK_DEADLOCK FALSE
INVARIANTS
  ImageFits
  ShownInPlace
  ShownIsOneFrame
PROPERTIES
  ClickIsAnswered
