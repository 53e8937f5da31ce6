CONSTANTS
  c1 = c1 c2 = c2 p1 = p1 a = a b = b None = None
  Callers <- TwoCallers
  Processes <- OneProcess
  Home <- OneHome
  Contents <- TwoContents
  Mode <- Modes
  Stamps <- TwoStamps
  MaxSubmits = 3
  MaxCrashes = 1
SPECIFICATION FairSpec
CHECK_DEADLOCK FALSE
INVARIANT AcceptedHasHandoff AcceptedIsRecorded
PROPERTY DecisionStays RequestsAreAnswered
