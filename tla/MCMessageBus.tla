----------------------------- MODULE MCMessageBus -----------------------------
(***************************************************************************)
(* Small instances of MessageBus: two messages of a topic, one of another. *)
(***************************************************************************)
EXTENDS MessageBus, TLC

CONSTANTS experiment1, experiment2, riskgate

Topics3 == experiment1 :> "experiment.done" @@ experiment2 :> "experiment.done" @@ riskgate :> "riskgate.waiting"

Budgets == experiment1 :> 2 @@ experiment2 :> 1 @@ riskgate :> 2
=============================================================================
