\* Two clients whose calls may overlap and who may die.
SPECIFICATION FairSpec
CONSTANTS
  c2 = c2
  c1 = c1
  experiment1 = experiment1
  experiment2 = experiment2
  riskgate = riskgate
  Keys = {experiment1, experiment2, riskgate}
  Topic <- Topics3
  MaxAttempts <- Budgets
  Clients = {c1, c2}
  MaxPublishes = 3
  MaxFailures = 2
  MaxDeaths = 1
CHECK_DEADLOCK FALSE
INVARIANTS
  DeadAfterBudget
PROPERTIES
  ImplementsQueue
  MessagesSettle
