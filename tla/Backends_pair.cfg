CONSTANTS
  d1 = d1
  d2 = d2
  d3 = d3
  s1 = s1
  s2 = s2
  s3 = s3
  x1 = x1
  general = general
  edge = edge
  None = None
  Deployments = {d1, d2, d3}
  Sets = {s1, s2, s3}
  GENERAL = general
  Generation <- MCGeneration
  Channel <- MCChannel
  SetGeneration <- MCSetGeneration
  ImageSet <- MCImageSet
  Runs <- MCRuns
  ObjectsOf <- MCObjectsOf
  ComponentsOf <- MCComponentsOf
  Factory = d1
  FactorySet = s1
  Attempts = 1
  TrialAttempts = 1
  MaxFailed = 1
  Backend = "uefi"
  Parts = {"uefi"}
SPECIFICATION BackendsSpec
PROPERTIES PendingBootedBecomesCurrent
CHECK_DEADLOCK FALSE
