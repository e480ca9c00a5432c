SPECIFICATION FairSpec
CONSTANTS
  Channels = {1, 2}
  Checked = {1, 2}
  AutoSync = {2}
  Models = {"a", "b", "alias"}
  Offered <- MCOffered
  Initial <- MCInitial
  Found <- MCFound
  Sources <- MCSources
  Targets <- MCTargets
  NoChannel = 0
  RelayTimeout = 60
  Jobs = {1, 2}
  MaxFaults = 1
INVARIANTS AliasesKept IgnoredNotOffered OffersMakeSense AbilitiesFollowModels
PROPERTIES OnlyApprovedChanges IgnoresAreKept 
CHECK_DEADLOCK FALSE
