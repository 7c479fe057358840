\* timeline, then replay and gate, which nobody can do; three client calls anywhere.
SPECIFICATION Spec
CONSTANTS
  timeline = timeline
  replay = replay
  gate = gate
  first = first
  second = second
  e1 = e1
  Tasks = {timeline, replay, gate}
  Unassigned = {gate}
  Workers = {first, second}
  Evidence = {e1}
  DependsOn <- MCFork
  Rank <- MCRank
  Candidates <- MCCandidates
  MaxAttempts <- MCMaxAttempts
  MaxCalls = 3
CHECK_DEADLOCK FALSE
INVARIANTS
  DependenciesFirst
  ExecutedOnce
PROPERTIES
  PauseStartsNothing
  StallsOnlyWhenStuck
  ResumesOnReviewedEvidence
  RunReturns
