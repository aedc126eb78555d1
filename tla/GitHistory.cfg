SPECIFICATION HistorySpec
CONSTANTS
  p1 = p1
  p2 = p2
  main = main
  other = other
  w1 = w1
  Nil = Nil
  Plan = {p1, p2}
  Choice <- MCChoice
  Steps = 1
  Work = {w1}
  Branch = {main, other}
  First = main
  MaxAgent = 2
  MaxCrash = 1
PROPERTIES WorkKept OnlyOwn
CHECK_DEADLOCK FALSE
