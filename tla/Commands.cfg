\* Purges, bulk upgrades, markers and configurations.
SPECIFICATION FairCommandSpec
CONSTANTS
  Uploads <- SmallUploads
  Sourced <- SmallSourced
  MaxVisitors = 2
  Documents <- SmallDocuments
  View <- SmallView
  BulkProfiles <- BothProfiles
  Concurrency = 2
  MaxChanges = 1
  Lower <- SmallLower
  Devices <- SmallDevices
  Inputs <- SmallInputs
  Members <- SmallMembers
  Bodies <- SmallBodies
  Values <- SmallValues
  Profiles <- SmallProfiles
  Paths <- SmallPaths
  Listed <- SmallListed
  Malformed <- SmallMalformed
  Requests <- SmallRequests
INVARIANTS
  TypesOK
  DeclaredNames
  PreparedIsDeclarable
  PurgeTrue
  BulkTrue
  SettingsExplained
PROPERTIES
  UpgradeKeepsAddresses
  CommandsEnd
CHECK_DEADLOCK FALSE
