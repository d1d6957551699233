SPECIFICATION FairSpec
CONSTANTS
  Period = 2
  MaxVotes = 6
CHECK_DEADLOCK FALSE
INVARIANTS
  LitIsTimed
PROPERTIES
  LightsGoOff
