SPECIFICATION FairSpec
CONSTANTS
    NumTasks = 3
    DependsOn <- MCChain
    Procs = {p1, p2}
    Resumers = {p1}
    Requests <- MCRequests
    None = None
    MaxCalls = 3
    MaxCrashes = 2
INVARIANTS KeyRunsOnce ScopeIsExclusive VerdictIsEarned
PROPERTY ImplementsBuildRun CallsEnd
CHECK_DEADLOCK FALSE
