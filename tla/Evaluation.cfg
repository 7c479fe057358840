\* Every file with two hypotheses, every pair with one.
SPECIFICATION EvaluationSpec
CONSTANTS
  HypothesisIds = {h1, h2}
  Corpora <- MCCorpora
  NoReport = NoReport
  h1 = h1
  h2 = h2
  stranger = stranger
CHECK_DEADLOCK FALSE
INVARIANTS
  SummaryAddsUp
