SPECIFICATION FairProcess
CONSTANTS
  Hook = {h1, h2}
  MaxBuffer = 1
  MaxOutput = 2
  Unknown = Unknown
  Nil = Nil
INVARIANTS SuccessIsComplete
PROPERTIES ImplementsGitCall IsAnswered
CHECK_DEADLOCK FALSE
