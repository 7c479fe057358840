\* One request at a time; a store access may fail and end its handler.
SPECIFICATION FairSpec
CONSTANTS
  Handlers = {h1}
  Evidence = {e1, demo}
  DemoEvidence = {demo}
  NoEvidence = NoEvidence
  MaxRequests = 4
  MaxCoordination = 1
  MayFail = TRUE
  h1 = h1
  e1 = e1
  demo = demo
INVARIANTS
  ApprovalsCoverEvidence
PROPERTIES
  EvidenceEventuallyObserved
