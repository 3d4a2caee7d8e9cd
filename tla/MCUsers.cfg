\* Users delete and re-create the template, edit it and its type, and write its output, also as another controller's.
CONSTANTS
  None = None
  Templates = {"t"}
  Names = {"a", "t"}
  Others = {}
  Types = {"Opaque", "tls"}
  Values <- One_Values
  Specs <- Type_Specs
  InitSpec <- One_InitSpec
  InitValue <- One_InitValue
  InitOther <- NoOthers
  InitType = "Opaque"
  UserActs = {"createTemplate", "editTemplate", "deleteTemplate", "createSecret", "editSecret"}
  UserSpecs <- Type_UserSpecs
  UserValues <- Out_UserValues
  UserOwners <- Take_UserOwners
  MaxAge = FALSE
  MaxOps = 2
  MaxFaults = 0
  MaxCrashes = 0
  MaxLag = 2
  Versions = {1, 2, 3, 4, 5}
  NameIn <- MCNameIn
  Render <- MCRender
  MaxTries = 2
SPECIFICATION Spec
CHECK_DEADLOCK FALSE
INVARIANTS TypeOK SettledSecret SettledStatus SettledTracker TypeKept
PROPERTIES ForeignUntouched
