SPECIFICATION FairHouse
CONSTANTS
  Period = 1
  MaxVotes = 4
  Residents = {r1, r2}
  MaxRuns = 2
CHECK_DEADLOCK FALSE
INVARIANTS
  LightMeansBoth
PROPERTIES
  BothAlarmsLight
