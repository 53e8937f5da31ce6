CONSTANTS
  c1 = c1 c2 = c2 p1 = p1 None = None Garbled = Garbled
  Callers <- TwoCallers
  Processes <- OneProcess
  Home <- OneHome
  Contents <- TwoContents
  Returned = 6
  MaxRuns = 4
  MaxCrashes = 2
SPECIFICATION FairSpec
CHECK_DEADLOCK FALSE
INVARIANT LaunchIsBacked LaunchIsRecorded
PROPERTY CallsEnd
