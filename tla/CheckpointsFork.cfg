SPECIFICATION Spec
CONSTANTS
  Session = {s1, s2}
  Roots = {s1}
  Path = {p1}
  Data = {d1}
  Large = {}
  Committed <- NoCommit
  Missing = Missing
  Unseen = Unseen
  Cut = Cut
  None = None
  MayStop = FALSE
  Torn = {}
  MaxTurn = 2
  MaxWrites = 1
  MaxOthers = 1
  MaxRewinds = 1
  MaxCrashes = 0
  MaxQueue = 1
INVARIANTS InheritanceKept HeirIsServed
PROPERTIES ConversationEnds
CHECK_DEADLOCK FALSE
