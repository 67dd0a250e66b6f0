SPECIFICATION ServerSpec
CONSTANTS
  gateway = gateway
  ops = ops
  NoUser = NoUser
  NoFolder = NoFolder
  Sessions = {s1}
  Usernames = {gateway, ops}
  Folders <- AllFolders
  FolderOf <- FolderOfUser
  FolderLists <- SomeLists
  StoreMayFail = TRUE
  MaxMails = 2
  rude = rude
  flagged = flagged
  Jims = {flagged, rude}
  NoJim = NoJim
  Flagged = flagged
  Refuses <- RefusedByJim
  Picky = {flagged}
  Callers = {c1, c2}
  NoConn = NoConn
  MaxCalls = 3
INVARIANT ServerTypeOK
INVARIANT ForcedMeansListed
INVARIANT FolderIsGranted
INVARIANT QueuedIsStored
INVARIANT ChaosOnlyWhenInvited
CHECK_DEADLOCK FALSE
