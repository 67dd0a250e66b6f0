SPECIFICATION Spec
CONSTANTS
  Trim <- Trimmed
  Upper <- Uppered
  Texts = {"", "host", "25", "465", "user"}
  Invalid = Invalid
  Handlers = {h1, h2}
  Requests <- SomeRequests
  Keep = Keep
  Flags <- FlagValues
  StorageTypes <- Types
  Policies <- FolderPolicies
  Servers <- SomeServers
  Releases <- ReleasedServers
  ServersFiles <- GivenServers
  NoFile = NoFile
  Torn = Torn
  SweepMayFail = TRUE
  WriteMayFail = TRUE
  MaxCrashes = 1
INVARIANTS TypeOK FileIsMemory
PROPERTIES SavedSettingsSurvive PutsAnswered
