CONSTANTS
  s1 = s1
  n1 = n1
  n2 = n2
  RkDeployments = {1, 2}
  RkEntries <- MCEntries
  RkDamages <- MCDamages
  RkTrials = {0, 2}
  RkStorages = {"gpt", "ubi"}
  RkFaults = 2
  Ssids = {s1}
  MaxSerial = 2
  MaxOps = 2
  RdNames = {n1, n2}
  RdNone = RdNone
  RdRanges <- MCRanges
  RdFast <- MCFast
  RdTurns = 3
  RdEvents = 2
  RelMounts <- MCMounts
  RelParent <- MCParent
  RelDevice <- MCDevice
  RelLoops <- MCLoops
  RelBacking <- MCBacking
  RelMaps <- MCMaps
  RelSlave <- MCSlave
  WatchdogTime = 20
  RelLimits = {6}
  RelClock = 26
  RelFaults = 1
SPECIFICATION Spec
INVARIANTS RunkitSafe ProvisioningSafe ReleaseSafe
PROPERTIES UpkeepEnds
CHECK_DEADLOCK FALSE
