CONSTANTS
  AcqReleases <- MCReleases
  AcqEnvelope <- MCEnvelope
  AcqSize <- MCSize
  AcqBudget = 13
  AcqHead = 1
  AcqChunk = 1
  AcqSources = {"a"}
  AcqIndexes = {"none", "right"}
  AcqRanges = {TRUE, FALSE}
  AcqFaults = 1
  AcqOps = 1
  DscNames <- MCNames
  DscImage <- MCImage
  DscEntries <- MCEntries
  DscApps <- MCApps
  DscAppEntry <- MCAppEntry
  DscMax = 3
  DscHosts = {"h", "g"}
  DscAddrs = {"e"}
  DscChanges = 2
  DscFaults = 1
  CatManifests <- MCManifests
  CatDocuments <- MCDocuments
  CatEnvelopes <- MCEnvelopes
  CatGood <- MCGood
  CatSources = {"a", "b"}
  CatDevice <- MCCatDevice
  CatFirst = "s1"
  CatChannels = {"general", "edge"}
  HashFanout = 2
  CatLevels = 6
  CatMaxSet = 2
  CatChecks = 3
  CatWords <- MCWords
  CatTrees = {1, 2, 3, 4, 5, 8, 9, 16, 17, 31, 32, 33}
SPECIFICATION Spec
INVARIANTS VerifiedIsWhole HeardIsRecorded CatalogSafe
PROPERTY OffersArrive
CHECK_DEADLOCK FALSE
