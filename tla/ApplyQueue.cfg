CONSTANTS
  None = None
  Calls = {c1, c2}
  Keys = {eth0, eth1, ssh}
  Network = {eth0, eth1}
  Paths = {{eth0}, {eth0, eth1, ssh}, {ssh}}
  MaxTasks = 2
  AppFlows = 1
SPECIFICATION FairSpec
INVARIANTS QueueSafe
PROPERTIES NewerWriteStays WritesApplied
