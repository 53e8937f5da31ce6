CONSTANTS
  c1 = c1 c2 = c2 p1 = p1 None = None Garbled = Garbled
  Callers <- TwoCallers
  Processes <- OneProcess
  Home <- OneHome
  Contents <- TwoContents
  Returned = 6
  MaxRuns = 2
  MaxCrashes = 0
SPECIFICATION FairSpec
CHECK_DEADLOCK FALSE
PROPERTY EndedIsRecorded
