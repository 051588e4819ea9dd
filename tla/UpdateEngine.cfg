CONSTANTS
  None = None
  Sets = {c1}
  Systems = {y1}
  Generation <- FirstGeneration
  Policies <- OperatorsDocuments
  Budget = 2
  Events = 2
SPECIFICATION FairSpec
INVARIANTS EngineSafe
PROPERTIES DriverPromises OfferTaken
CHECK_DEADLOCK FALSE
