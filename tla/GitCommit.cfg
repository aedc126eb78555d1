CONSTANTS
  r1 = r1
  r2 = r2
  s1 = s1
  k1 = k1
  Request = {r1, r2, s1}
  CommitAll = {r1, r2}
  Key <- OneKey
  LockRetries = 1
  MaxAgent = 2
  None = None
SPECIFICATION FairSpec
INVARIANTS Alone Cancellable
PROPERTIES RollbackIsExact FailureRestores RequestsEnd
CHECK_DEADLOCK FALSE
