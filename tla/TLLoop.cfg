CONSTANTS
  BackendTools <- Scan
  FrontendTools <- Read
  ApprovalTools <- Shell
  BlockedTools <- WriteTool
  MaxIterations = 3
  MaxCalls = 2
  MaxIds = 4
  MaxLegs = 2
SPECIFICATION Spec
CHECK_DEADLOCK FALSE
INVARIANT PolicyHolds AnswersFollowCalls
