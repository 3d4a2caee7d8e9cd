\* An account is deleted; no request fails but for that.
CONSTANTS
  n1 = n1
  n2 = n2
  None = None
  Unset = Unset
  Patience <- MCPatience
  Lists <- MCLists
  Legacies <- MCLegacies
  Blank = Blank
  Every = Every
  MaxErrors = 0
  MaxExits = 0
  MaxRemovals = 0
  Accounts = {a}
  Callers = {c}
  Lifetimes = {None, 2, 5}
  Unstated = 2
  MaxTTL = 2
  MaxJitter = 2
  MaxNow = 3
  MaxChanges = 1
  MaxFaults = 0
  Nil = Nil
  Inputs <- MCInputs
  Templates = {}
  Spoilt <- MCSpoilt
  Paths = {}
  PathChars <- MCPathChars
  Texts = {}
  Bytes <- MCBytes
  Contexts <- MCContexts
  Encode <- MCEncode
SPECIFICATION Spec
CHECK_DEADLOCK FALSE
INVARIANTS KeptValid
