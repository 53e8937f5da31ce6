CONSTANTS
  h1 = h1 tab1 = tab1 tab2 = tab2 read = read shell = shell k1 = k1
  None = None
  Threads <- OneThread
  Adapters <- AllAdapters
  Kinds <- AllKinds
  Claimants <- Tabs
  PlainCalls <- Read
  ApprovalCalls <- Shell
  RetryKeys <- OneKey
  MaxRequests = 5
  MaxHistory = 6
  MaxSid = 3
  MaxCrashes = 1
SPECIFICATION Spec
INVARIANT GrantIsPending ApprovalBeforeExecution
PROPERTY ImplementsLifecycle
SYMMETRY Symmetry
CHECK_DEADLOCK FALSE
