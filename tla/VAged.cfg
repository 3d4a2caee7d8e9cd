\* The output Secret outlives maxSecretAge.
CONSTANTS
  None = None
  Templates = {"t"}
  Names = {"a", "t"}
  Others = {}
  Types = {"Opaque"}
  Values <- One_Values
  Specs <- One_Specs
  InitSpec <- One_InitSpec
  InitValue <- One_InitValue
  InitOther <- NoOthers
  InitType = "Opaque"
  UserActs = {"age"}
  UserSpecs <- One_UserSpecs
  UserValues <- One_UserValues
  UserOwners <- One_UserOwners
  MaxAge = TRUE
  MaxOps = 1
  MaxFaults = 0
  MaxCrashes = 0
  MaxLag = 2
  Versions = {1, 2, 3, 4, 5}
  NameIn <- MCNameIn
  Render <- MCRender
  MaxTries = 2
SPECIFICATION Spec
CHECK_DEADLOCK FALSE
PROPERTIES AgedRegenerated
