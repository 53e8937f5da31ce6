CONSTANTS
  scan = scan read = read write = write typo = typo Null = Null
  Backend <- BackendTools
  Frontend <- FrontendTools
  Guarded <- GuardedTools
  Replies <- FewReplies
  MaxLoops = 2
  MaxTasks = 3
SPECIFICATION FairChat
CHECK_DEADLOCK FALSE
INVARIANT CallsAreAnswered ControlReturns
PROPERTY TasksEnd
