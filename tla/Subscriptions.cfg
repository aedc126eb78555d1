CONSTANTS
  Families = 2
  Ported <- PortedFamilies
  Attempt = {a1}
  Request = {r1}
  Page = {p1}
  Shown = {1}
  Ops = {"apply", "remove", "refresh"}
  Model = {m1}
  Listed <- ListedSets
  Granted <- GrantedSets
  None = None
  Early = FALSE
  MaxClicks = 2
  MaxOutside = 1
SPECIFICATION Spec
INVARIANTS SignInIsOwned SignedOutStaysOut
CHECK_DEADLOCK FALSE
