------------------------ MODULE MCSimulatedRelease --------------------------
(* Instances of SimulatedRelease for TLC: the factors, pools and candidates  *)
(* of scenarios/, two patches competing in each; approved by a person, by a  *)
(* name that is not a person's, or not at all, with or without a name given. *)
EXTENDS SimulatedRelease

CONSTANTS h1, h2, h3, person, bot

MCInterventions == {"code", "dependency", "pool"}
MCInterventionOf ==
    [i \in MCInterventions |->
        CASE i = "code"       -> [version |-> "before", code |-> 10]
          [] i = "dependency" -> [dependency |-> 10]
          [] i = "pool"       -> [pool |-> 24]]

MCBaselines ==
    {[traffic |-> t, pool |-> p, dependency |-> l[1], code |-> l[2], version |-> "after",
      adaptive |-> FALSE] :
        t \in {100, 150}, p \in {8, 14, 20}, l \in {<<10, 10>>, <<13, 10>>, <<26, 10>>, <<10, 24>>}}

(* A mutation milder than the incident, so that the generated variants      *)
(* count; or one that a generated variant shares its name with (nothing     *)
(* forbids it), and an optional one that not every patch passes.             *)
MCSeedsOf(b) ==
    IF b.traffic = 100
    THEN <<[name |-> "quiet", mandatory |-> TRUE, changes |-> [traffic |-> b.traffic \div 2]]>>
    ELSE <<[name |-> "silent-config-drift", mandatory |-> TRUE, changes |-> [traffic |-> 160]],
           [name |-> "blackout", mandatory |-> FALSE, changes |-> [pool |-> 4, dependency |-> 16]]>>

(* The candidates of scenarios/, with rollbacks that match some baselines.   *)
MCCandidates ==
    {[patch |-> [version |-> "before", code |-> 10], rollback |-> [version |-> "after", code |-> 24],
      risk |-> 1500, cost |-> 2000],
     [patch |-> [dependency |-> 10], rollback |-> [dependency |-> 26], risk |-> 3000, cost |-> 3500],
     [patch |-> [pool |-> 24], rollback |-> [pool |-> 8], risk |-> 3000, cost |-> 1500],
     [patch |-> [pool |-> 24, adaptive |-> TRUE], rollback |-> [pool |-> 8, adaptive |-> FALSE],
      risk |-> 2000, cost |-> 2500],
     [patch |-> [pool |-> 24, adaptive |-> TRUE, version |-> "before"],
      rollback |-> [pool |-> 14, adaptive |-> FALSE], risk |-> 2000, cost |-> 2500],
     [patch |-> [pool |-> 16, adaptive |-> TRUE, code |-> 10],
      rollback |-> [pool |-> 14, adaptive |-> FALSE, code |-> 24], risk |-> 7500, cost |-> 2500]}

MCPatchLists == {<<c, d>> : c \in MCCandidates, d \in MCCandidates}

MCAssignments ==
    {[h \in Hypotheses |-> IF h = h1 THEN "code" ELSE IF h = h2 THEN "dependency" ELSE "pool"],
     [h \in Hypotheses |-> IF h = h1 THEN "code" ELSE "pool"]}
=============================================================================
