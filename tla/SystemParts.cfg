SPECIFICATION PartsSpec
CONSTANTS
  Servers <- ServersMC
  MayFollow <- MayFollowMC
  InitialMaster <- InitialMasterMC
  BacklogSizes = {1, 2}
  EventSets <- EventSetsMC
  Waits = {1}
  MaxWrites = 2
  SlotKeys = {k1, k2}
  Source = src
  Target = dst
  NoNode = none
  MaxValues = 2
  MaxGiveUps = 2
  Policies = {"always", "everysec"}
  MaxMem = 3
  Happenings <- SmallHappenings
  Fds = {0, 1, 2}
  Sizes = {2, 3}
  MaxNew = 2
  SecMs = 2
  Period = 2
  MaxNow = 4
INVARIANTS ReplicationSound ReshardingSound PersistenceSound EventLoopSound
CHECK_DEADLOCK FALSE
