CONSTANTS
  a1 = a1
  a2 = a2
  b1 = b1
  s1 = s1
  k1 = k1
  k2 = k2
  None = None
  Agent <- TwoRuntimes
  Session = {s1}
  SessionOf <- TwoRuntimesOf
  Child = {}
  Run = {}
  Request = {q1}
  Handle = {1, 2}
  Settings <- TurnSettings
  MAX_DETACHED = 1
  MaxTurn = 1
  MaxRevision = 2

SPECIFICATION FairSpec
INVARIANTS AlertIsCurrent GoalSpeaksAlone
PROPERTIES OneAlertPerTurn OutcomeIsTold
CHECK_DEADLOCK FALSE
