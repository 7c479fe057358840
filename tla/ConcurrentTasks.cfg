\* Two handlers share one run; evidence, injected faults, and any store access may raise.
SPECIFICATION Spec
CONSTANTS
  Handlers = {h1, h2}
  Scenario <- Fixture
  Evaluated = TRUE
  GatePasses = TRUE
  Evidence <- Configuration
  Probes = {"probe"}
  MaxRequests = 3
  MaxFaults = 0
  MayFail = TRUE
  h1 = h1
  h2 = h2
CHECK_DEADLOCK FALSE
SYMMETRY Symmetry
INVARIANTS
  OnlyAcceptedAnswers
  DependenciesAtHand
