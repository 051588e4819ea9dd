CONSTANTS
  A = A
  B = B
  None = None
  Lists <- MCLists
  FlagMax = 3
  FwPolicies <- MCFwPolicies
  FwLength <- MCFwLength
  FwFirst = 1
  FwEfiMax = 3
  FwLoaderMax = 6
  FwEnv = 1
  FwMaxSectors = 6
  FwWord = 32
  FwSize = 8
  FwErase = 2
  FwEvents = 4
  OvDeployments = {"d1", "d2", "d3"}
  OvSets = {"s1", "s2", "s3"}
  OvFirst = {"d1", "s1"}
  OvOf <- MCOf
  OvBytes <- MCBytes
  OvLeb = 2
  OvCapacity = 8
  OvReserve = 1
  OvOps = 5
  BoardPorts = {"eth0"}
  DevActions <- MCActions
  DevIntents = {"none", "wipe", "apps", "here", "malformed"}
  NoIntent = "none"
  Papers <- MCPapers
  NoPaper = NoPaper
  BadDirs = {"other"}
  DevCuts = 1
  DevFails = 1
  DevOps = 2
  Bundles <- MCBundles
  AppOps = 1
  AppFaults = 1
  AppOffers = 2
  SnRequests = {"q1", "q2"}
  SnMax = 2
  SnTotal = 4
  SnOne = 3
  SnSizes = {1, 3, 4}
  SnSections <- MCSections
  SnDeadline = 3
  SnTimeout = 2
  SnDeletes = 1
  SnCuts = 1
  PwCalls = {"h1", "h2", "h3"}
  PwMin = 2
  PwApiMax = 3
  PwBusMax = 5
  PwLengths = {1, 2, 4, 6}
  PwFaults = 1
  PwStops = 3
  IdRequests = {"r1", "r2"}
  IdTimes = {0, 1, 2}
  IdStops = 2
SPECIFICATION DeviceSpec
INVARIANTS EnvironmentSafe MediumSafe StartSafe AppsSafe SnapshotsSafe CredentialsSafe
PROPERTIES ImplementsRegister DevicePromises
CHECK_DEADLOCK FALSE
