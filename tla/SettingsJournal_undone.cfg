CONSTANTS
  network = network
  state = state
  text = text
  other = other
  r1 = r1
  r2 = r2
  Journal = Journal
  None = None
  Docs = {network, state}
  StateDocs = {state}
  Texts = {text}
  Position <- MCPosition
  RtRequests = {r1, r2}
  RtNames = {"a", "b", "c"}
  RtMaxKeys = 2
  RtMaxServed = 3
SPECIFICATION SettingsSpec
INVARIANTS DurableBeforeForgotten
CHECK_DEADLOCK FALSE
