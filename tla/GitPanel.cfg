SPECIFICATION FairSpec
CONSTANTS
  Kind = {"write", "commit", "stash", "create"}
  Path = {p1, p2}
  Session = Session
  GitFailed = GitFailed
  Degraded = Degraded
  Hook = Hook
  Refusal = {GitFailed, Degraded, Hook}
  None = None
  Window = 2
  PageCap = 1
  FirstHead = 2
  MaxWrites = 2
  MaxEvents = 3
  SESSION_RETRY_LIMIT = 1
CHECK_DEADLOCK FALSE
INVARIANTS ShowsWhatWasAsked
PROPERTIES NeverOlder BusyEnds SessionHeals
