CONSTANTS
  a1 = a1
  a2 = a2
  b1 = b1
  s1 = s1
  k1 = k1
  k2 = k2
  None = None
  Agent <- LocalSubagent
  Session <- SubagentSessions
  SessionOf <- LocalSubagentOf
  Child <- SubagentSessions
  Run = {r1, r2}
  Request = {}
  Handle = {1, 2}
  Settings <- SubagentSettings
  MAX_DETACHED = 1
  MaxTurn = 1
  MaxRevision = 1

SPECIFICATION Spec
INVARIANTS NoOrphanAlert
CHECK_DEADLOCK FALSE
