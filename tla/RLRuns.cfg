CONSTANTS
  a = a b = b draft = draft Null = Null
  Submissions <- OnePlan
  Drafts <- OneDraft
  ContentOf <- Contents
  MaxRuns = 2
  MaxFaults = 1
SPECIFICATION FairLifecycle
CHECK_DEADLOCK FALSE
INVARIANT ImprovedIsEarned ErrorHasIssue MarkerIsCleared
PROPERTY SubmissionsAreAnswered
