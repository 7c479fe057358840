--------------------------- MODULE MCTaskExecution ---------------------------
(***************************************************************************)
(* Small instances of TaskExecution: the scenarios of the repository come  *)
(* in two shapes, one with patch candidates and one without.               *)
(***************************************************************************)
EXTENDS TaskExecution, TLC

\* scenarios/checkout-timeout and the other pipeline scenarios.
Checkout ==
  [ signals |-> {"commit", "dependency", "configuration", "traffic", "incident"},
    hypotheses |-> TRUE, patches |-> TRUE, conflict |-> FALSE ]

\* scenarios/evaluation-fixtures/code-regression-unmodeled.
Fixture ==
  [ signals |-> {"commit", "incident"}, hypotheses |-> TRUE, patches |-> FALSE, conflict |-> FALSE ]

Payload(kind, conflict) == [kind |-> kind, signal |-> Absent, conflict |-> conflict]

Symmetry == Permutations(Handlers)

Changes ==
  { Payload("configuration", FALSE), Payload("policy", FALSE), Payload("topology", FALSE),
    Payload(Empty, FALSE) }

Configuration == {Payload("configuration", FALSE)}
=============================================================================
