\* Incidents the simulator computes, two candidates each.
SPECIFICATION Spec
CONSTANTS
  Hypotheses = {h1, h2, h3}
  Interventions <- MCInterventions
  Extras <- GeneratedNames
  Scenarios <- Simulations
  Assignments <- MCAssignments
  Baselines <- MCBaselines
  InterventionOf <- MCInterventionOf
  SeedsOf <- MCSeedsOf
  PatchLists <- MCPatchLists
  People = {person}
  Bots = {bot}
  Nobody = Nobody
  None = None
  person = person
  bot = bot
  h1 = h1
  h2 = h2
  h3 = h3
CHECK_DEADLOCK FALSE
INVARIANTS
  ReleasesAreJustified
  FlowAgreesWithGate
  PathsAgree
  BestEligibleWins
  ReleasedRepairs
