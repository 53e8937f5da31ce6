CONSTANTS
  r1 = r1 r2 = r2 h1 = h1 l1 = l1 t1 = t1 t2 = t2 None = None Torn = Torn Bad = Bad Absent = Absent
  Reviews <- TwoReviews
  Hooks <- OneHook
  Launches <- OneLaunch
  Ops <- TwoOps
  Plans <- FewPlans
  Content <- Contents
  Calls <- FewCalls
  SliceFiles <- OneSliceFile
  Trees <- TwoTrees
  Files <- Tree
  Before <- TreeBefore
  Afters <- TreesAfter
  MaxUpsets = 1
SPECIFICATION Spec
SYMMETRY TreesAreAlike
CHECK_DEADLOCK FALSE
INVARIANT LockIsEarned AllowedIsReviewed ProvenIsEarned
