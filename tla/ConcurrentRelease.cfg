\* Two concurrent handlers whose store accesses may fail.
SPECIFICATION Spec
CONSTANTS
  Handlers = {h1, h2}
  Evidence = {e1, demo}
  DemoEvidence = {demo}
  NoEvidence = NoEvidence
  MaxRequests = 3
  MaxCoordination = 1
  MayFail = TRUE
  h1 = h1
  h2 = h2
  e1 = e1
  demo = demo
SYMMETRY Symmetry
INVARIANTS
  TypeOK
  LogIsDense
  AtMostOneApproved
  EvidenceObservedOnce
  CompletedIsApproved
  AuditTrailIsSound
PROPERTIES
  ImplementsLedger
