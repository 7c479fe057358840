\* The directory is reused by a second run, which is not ready; two writers, two stops, main moves.
SPECIFICATION FairSpec
CONSTANTS
  Clis = {c1}
  Scripts = {s1}
  Runs = {r1, r3}
  Stems <- MCStems
  Stem <- MCStem
  Ready <- MCReady
  Completed <- MCCompleted
  Overlaps = FALSE
  PipelineStops = FALSE
  MaxStops = 2
  MaxMain = 1
  NoFile = NoFile
  Empty = Empty
  NoRun = NoRun
  NoResult = NoResult
  r1 = r1
  r2 = r2
  r3 = r3
  h1 = h1
  h2 = h2
  c1 = c1
  s1 = s1
INVARIANTS
  PublishedIsOneReadyRun
  DigestsMatch
PROPERTIES
  ImplementsDrafts
  PublishedEventually
