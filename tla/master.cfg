SPECIFICATION FairSpec
CONSTANTS
  Workers = 3
  MaxPid = 6
  MaxFails = 1
  MaxTerms = 2
  MaxStarts = 3
INVARIANTS
  TableMatches
  OneGeneration
PROPERTIES
  SurvivesDeaths
  AllStop
CHECK_DEADLOCK FALSE
