\* An input is edited once while its template is first reconciled.
CONSTANTS
  None = None
  Templates = {"t"}
  Names = {"a", "t"}
  Others = {}
  Types = {"Opaque"}
  Values <- One_Values
  Specs <- One_Specs
  InitSpec <- One_InitSpec
  InitValue <- One_InitValue
  InitOther <- NoOthers
  InitType = "Opaque"
  UserActs = {"editSecret"}
  UserSpecs <- One_UserSpecs
  UserValues <- In_UserValues
  UserOwners <- One_UserOwners
  MaxAge = FALSE
  MaxOps = 1
  MaxFaults = 0
  MaxCrashes = 0
  MaxLag = 2
  Versions = {1, 2, 3, 4, 5}
  NameIn <- MCNameIn
  Render <- MCRender
  MaxTries = 2
SPECIFICATION Spec
CHECK_DEADLOCK FALSE
INVARIANTS NoLostUpdate
