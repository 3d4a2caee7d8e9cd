\* One template copies what a Secret names, the output of the other or its input.
CONSTANTS
  None = None
  Templates = {"t", "u"}
  Names = {"a", "b", "t", "u"}
  Others = {}
  Types = {"Opaque"}
  Values <- MCValues
  Specs <- Chain_Specs
  InitSpec <- Chain_InitSpec
  InitValue <- Chain_InitValue
  InitOther <- NoOthers
  InitType = "Opaque"
  UserActs = {"editSecret"}
  UserSpecs <- Chain_UserSpecs
  UserValues <- Chain_UserValues
  UserOwners <- One_UserOwners
  MaxAge = FALSE
  MaxOps = 1
  MaxFaults = 0
  MaxCrashes = 0
  MaxLag = 1
  Versions = {1, 2, 3, 4, 5}
  NameIn <- MCNameIn
  Render <- MCRender
  MaxTries = 2
SPECIFICATION RacedSpec
CHECK_DEADLOCK FALSE
INVARIANTS OnlyRacedUpdatesLost
