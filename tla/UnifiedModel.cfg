\* Three clients of one incident and one policy.
SPECIFICATION Spec
CONSTANTS
  c1 = c1
  c2 = c2
  c3 = c3
  d1 = d1
  d2 = d2
  d3 = d3
  Clients = {c1, c2, c3}
  Changes = {d1, d2, d3}
  Versions = {"1.0.0", "1.1.0"}
  Limit = 2
  MaxCalls = 4
SYMMETRY Symmetry
INVARIANTS
  NoLostUpdate
  ReadsAreConsistent
  OneActivePolicy
