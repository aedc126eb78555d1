SPECIFICATION Spec
CONSTANTS
  Session = {s1}
  Roots = {s1}
  Path = {p1, p2}
  Data = {d1, d2}
  Large = {d2}
  Committed <- NoCommit
  Missing = Missing
  Unseen = Unseen
  Cut = Cut
  None = None
  MayStop = TRUE
  Torn = {"state"}
  MaxTurn = 2
  MaxWrites = 1
  MaxOthers = 0
  MaxRewinds = 1
  MaxCrashes = 1
  MaxQueue = 2
SYMMETRY PathSymmetry
INVARIANTS TurnsInOrder RestoresTree BaselineIsSafe
PROPERTIES NoToolWriteDuringRewind ConversationEnds
CHECK_DEADLOCK FALSE
