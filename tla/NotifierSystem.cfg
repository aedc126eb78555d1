CONSTANTS
  c1 = c1
  c2 = c2
  s1 = s1
  finished = finished
  Granted = Granted
  Denied = Denied
  None = None
  Client <- MCClient
  Session <- MCSession
  Group <- MCGroup
  Permission <- MCPermission
  Event <- MCEvent
  Presence <- MCPresence
  Config <- MCConfig
  Id = {i1}
  Token = {t1, t2}
  MaxSequence = 2
  RPC_TIMEOUT = 1
  MaxStrays = 1
  CLIENT_TTL = 1
  FOCUS_TTL = 1
  EVENT_TTL = 1
  LEASE_TTL = 1
  MAX_PENDING = 1
  MAX_CLIENTS = 2

SYMMETRY Symmetry
SPECIFICATION SystemSpec
INVARIANTS OneHolder SoundOnce ClosedHoldsNoLease
PROPERTIES ImplementsAlertLease
CHECK_DEADLOCK FALSE
