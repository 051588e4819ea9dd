CONSTANTS
  r1 = r1
  r2 = r2
  p1 = p1
  p2 = p2
  b1 = b1
  b2 = b2
  c1 = c1
  c2 = c2
  f1 = f1
  f2 = f2
  NuWrites = 2
  NuFaults = 1
  NrRequests = {r1, r2}
  NrPeers = {"p", "q"}
  NrMaxServed = 2
  SvcKinds = {"sshd", "web", "time", "mqtt", "container", "dns", "ifupdown", "user"}
  SvcCfgs = {c1, c2}
  NoCfg = NoCfg
  SvcWrites = 2
  SvcFaults = 2
  Radios = {"wlan0", "wlan1"}
  WifWrites = 1
  WifFaults = 1
  WifScans = 1
  Peers = {p1, p2}
  BtCalls = {b1, b2}
  MaxOpenings = 2
  MaxPairings = 2
  BusNames <- MCBusNames
  RgAnswers <- MCAnswers
  RgCallers = {f1, f2}
  MandatoryPaths <- MCPaths
  RgMaxInt = 8
  RgMaxExact = 8
  RgChanges = 2
SPECIFICATION NetworkSpec
SYMMETRY Symmetry
INVARIANTS NetworkSafe ServicesSafe RadiosSafe RegistrySafe
PROPERTIES NothingLeftBehind
CHECK_DEADLOCK FALSE
