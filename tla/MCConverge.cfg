\* Users act once on the template or on its output; the controller may restart.
CONSTANTS
  None = None
  Templates = {"t"}
  Names = {"a", "t"}
  Others = {}
  Types = {"Opaque"}
  Values <- One_Values
  Specs <- One_Specs
  InitSpec <- One_InitSpec
  InitValue <- One_InitValue
  InitOther <- NoOthers
  InitType = "Opaque"
  UserActs = {"editTemplate", "deleteTemplate", "markDeleting", "createSecret", "editSecret", "deleteSecret"}
  UserSpecs <- One_UserSpecs
  UserValues <- Out_UserValues
  UserOwners <- Out_UserOwners
  MaxAge = FALSE
  MaxOps = 1
  MaxFaults = 0
  MaxCrashes = 1
  MaxLag = 2
  Versions = {1, 2, 3, 4, 5}
  NameIn <- MCNameIn
  Render <- MCRender
  MaxTries = 2
SPECIFICATION FairSpec
CHECK_DEADLOCK FALSE
INVARIANTS SettledTracker
PROPERTIES Converges OrphansGone Quiescent
