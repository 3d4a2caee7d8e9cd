\* Requests fail.  A ServiceAccount reads a ConfigMap, until the spec changes.
CONSTANTS
  None = None
  Templates = {"t"}
  Names = {"a", "t"}
  Others = {"o"}
  Types = {"Opaque"}
  Values <- One_Values
  Specs <- Any_Specs
  InitSpec <- Any_InitSpec
  InitValue <- One_InitValue
  InitOther <- Any_InitOther
  InitType = "Opaque"
  UserActs = {"editTemplate", "changeOther"}
  UserSpecs <- Any_UserSpecs
  UserValues <- Any_UserValues
  UserOwners <- One_UserOwners
  MaxAge = FALSE
  MaxOps = 1
  MaxFaults = 2
  MaxCrashes = 0
  MaxLag = 2
  Versions = {1, 2, 3, 4, 5}
  NameIn <- MCNameIn
  Render <- MCRender
  MaxTries = 2
SPECIFICATION FairSpec
CHECK_DEADLOCK FALSE
PROPERTIES SecretConverges
