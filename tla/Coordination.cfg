\* Approved or not, with every set of handlers that may raise.
SPECIFICATION CoordinationSpec
CONSTANTS
  timeline = timeline
  baseline = baseline
  hypotheses = hypotheses
  tournament = tournament
  riskGate = riskGate
  configAudit = configAudit
  configPool = configPool
  postPatchSlo = postPatchSlo
  Tasks = {timeline, baseline, hypotheses, tournament, riskGate, configAudit}
  Evidence = {configPool, postPatchSlo}
  MayRaise = {timeline, hypotheses, tournament}
  Workers <- MCWorkers
  Candidates <- MCCandidates
  DependsOn <- AwaitedBy
  Rank <- Priority
  MaxAttempts <- Budget
  MaxCalls = 8
CHECK_DEADLOCK FALSE
INVARIANTS
  GateAwaitsApproval
  EvidenceIsAuditedFirst
PROPERTIES
  CoordinationEnds
