CONSTANTS
  None = None
  Runners <- TwoRunners
  Paths <- OnePath
  Defects <- FewDefects
  Commands <- Suite
  Configured <- OneCommand
  Operations <- SmallOperations
  ModelAnswers <- SmallAnswers
  MaxRuns = 2
  MaxCrashes = 1
SPECIFICATION FairSpec
CHECK_DEADLOCK FALSE
INVARIANT ClaimIsClear GroundedIsAccepted 
PROPERTY RunsReturn
