\* maxSecretAge is set: timers make up for lost updates, also over a restart.  An input names another.
CONSTANTS
  None = None
  Templates = {"t"}
  Names = {"a", "b", "t"}
  Others = {}
  Types = {"Opaque"}
  Values <- MCValues
  Specs <- Bad_Specs
  InitSpec <- Bad_InitSpec
  InitValue <- Bad_InitValue
  InitOther <- NoOthers
  InitType = "Opaque"
  UserActs = {"createSecret", "editSecret", "deleteSecret", "age", "resync"}
  UserSpecs <- Bad_UserSpecs
  UserValues <- Bad_UserValues
  UserOwners <- One_UserOwners
  MaxAge = TRUE
  MaxOps = 1
  MaxFaults = 0
  MaxCrashes = 1
  MaxLag = 2
  Versions = {1, 2, 3, 4, 5}
  NameIn <- MCNameIn
  Render <- MCRender
  MaxTries = 2
SPECIFICATION FairSpec
CHECK_DEADLOCK FALSE
PROPERTIES Converges
