CONSTANTS
  Provider = {p1}
  Url = {u1, u2}
  Key = {x1, x2}
  Editor = {e1}
  Evaluation = {v1}
  None = None
  Keep = Keep
  MAX_PROVIDERS = 1
  MAX_ACTIVE = 1
  MAX_PER_PROVIDER = 1
  MaxGeneration = 2
  MaxBoot = 1
  MaxOutside = 1

SPECIFICATION FairSpec
INVARIANTS StoresAgree
PROPERTIES SentAsSaved CommitsWhatWasSeen ChangesEnd
CHECK_DEADLOCK FALSE
