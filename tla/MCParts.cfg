\* One caller, as the controller has one worker, for two ServiceAccounts.
CONSTANTS
  n1 = n1
  n2 = n2
  None = None
  Unset = Unset
  Patience <- MCPatience
  Lists <- MCLists
  Legacies <- MCLegacies
  Blank = Blank
  Every = Every
  MaxErrors = 2
  MaxExits = 1
  MaxRemovals = 1
  Accounts = {a, b}
  Callers = {c}
  Lifetimes = {None, 2, 5}
  Unstated = 2
  MaxTTL = 2
  MaxJitter = 2
  MaxNow = 3
  MaxChanges = 2
  MaxFaults = 1
  Nil = Nil
  Inputs <- MCInputs
  Templates <- MCTemplates
  Spoilt <- MCSpoilt
  Paths <- MCPaths
  PathChars <- MCPathChars
  Texts <- MCTexts
  Bytes <- MCBytes
  Contexts <- MCContexts
  Encode <- MCEncode
SPECIFICATION Spec
CHECK_DEADLOCK FALSE
INVARIANTS StartTypeOK TokenTypeOK HandedOutUnexpired OfLiveAccount Young
INVARIANTS PathTypeOK StackSound TranslatesReferences
INVARIANTS ExpandTypeOK ExpandsReferences DoublingProtects
INVARIANTS AsMeant OrderIrrelevant
PROPERTIES GivesUpLate Decides Starts ExpiredLeaves
