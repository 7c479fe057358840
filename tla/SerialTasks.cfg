\* One handler at a time and no store failure, every kind of evidence, one uninjected fault.
SPECIFICATION FairSpec
CONSTANTS
  Handlers = {h1}
  Scenario <- Checkout
  Evaluated = FALSE
  GatePasses = TRUE
  Evidence <- Changes
  Probes = {"probe"}
  MaxRequests = 3
  MaxFaults = 1
  MayFail = FALSE
  h1 = h1
CHECK_DEADLOCK FALSE
INVARIANTS
  RestsOnCurrentInputs
PROPERTIES
  InvalidatesOnlyTheClosure
  HistoryIsKept
  InvalidatedIsRecomputed
