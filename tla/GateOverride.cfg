\* One handler: a human approval overrides a failed quality gate.
SPECIFICATION Spec
CONSTANTS
  Handlers = {h1}
  Evidence = {e1, demo}
  DemoEvidence = {demo}
  NoEvidence = NoEvidence
  MaxRequests = 2
  MaxCoordination = 0
  MayFail = FALSE
  h1 = h1
  e1 = e1
  demo = demo
INVARIANTS
  FailedQualityIsNotApproved
