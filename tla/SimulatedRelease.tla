-------------------------- MODULE SimulatedRelease --------------------------
(* ReleaseGate on incidents the simulator computes: what an approval says    *)
(* about the service, not only about the records of the pipeline.            *)
EXTENDS ReleaseGate, CheckoutSimulator

CONSTANTS
    Baselines,      \* service states of incidents
    InterventionOf, \* what each intervention changes
    Assignments,    \* the interventions the hypotheses name
    SeedsOf(_),     \* the scenario's own mutations
    PatchLists      \* sequences of candidates: changes, rollback, risk and cost

ASSUME InterventionOfAssumption == DOMAIN InterventionOf = Interventions
ASSUME ExtrasAssumption == Extras = GeneratedNames

(* The changes of every variant, the scenario's own first.                   *)
Suite(b) == [i \in DOMAIN SeedsOf(b) |-> SeedsOf(b)[i].changes] \o Generated(b)

RiskLevel(risk) == IF risk >= 7000 THEN "high" ELSE IF risk >= 2500 THEN "medium" ELSE "low"

(* A candidate, simulated against every variant.                             *)
Scored(b, c) ==
    LET states == [i \in DOMAIN Suite(b) |-> Patched(b, Suite(b)[i], c.patch)]
    IN [patch |-> c.patch, risk |-> RiskLevel(c.risk),
        score |-> TotalScore([i \in DOMAIN states |-> FailureRate(states[i])], c.risk, c.cost),
        text |-> TRUE, reverse |-> DOMAIN c.rollback # {},
        restores |-> Restores(b, c.patch, c.rollback), rollback |-> c.rollback,
        changes |-> DOMAIN c.patch # {},
        healthy |-> [i \in DOMAIN states |-> Healthy(states[i])]]

(* The scenario of an incident: everything ReleaseGate takes as input.       *)
Simulated(b, of, patches, approval) ==
    [baseline |-> b, intervention |-> of,
     effect |-> [i \in Interventions |-> EffectClass(b, InterventionOf[i])],
     seeds |-> [i \in DOMAIN SeedsOf(b) |->
                   [name |-> SeedsOf(b)[i].name, mandatory |-> SeedsOf(b)[i].mandatory]],
     candidates |-> [k \in DOMAIN patches |-> Scored(b, patches[k])],
     approved |-> approval.approved, approver |-> approval.approver]

(* cli.main: --approve requires --approver, which may be given without it.   *)
CommandLines ==
    {a \in [approved : BOOLEAN, approver : People \cup Bots \cup {Nobody}] :
        a.approved => a.approver # Nobody}

Simulations ==
    {Simulated(b, of, patches, approval) :
        b \in Baselines, of \in Assignments, patches \in PatchLists,
        approval \in CommandLines}

(* The scenarios are simulated, from service states by patches that leave    *)
(* service states.                                                           *)
ASSUME SimulatedAssumption ==
    /\ Scenarios = Simulations
    /\ Baselines \subseteq States
    /\ \A b \in Baselines, patches \in PatchLists : \A k \in DOMAIN patches :
          Evolve(b, patches[k].patch) \in States

-----------------------------------------------------------------------------
(* Properties. *)

Released == flow # None /\ flow.readiness = "ready"
After == Evolve(scenario.baseline, Candidate.patch)

(* The incident's own state, at its traffic and up to the recovery spike's,  *)
(* is healthy once patched.                                                  *)
ServesTheIncident ==
    \A percent \in {50, 98, 100, 110, 148} :
        Healthy([After EXCEPT !.traffic = (@ * percent) \div 100])

(* Every field the patch changed is one the rollback sets to the baseline's  *)
(* value.                                                                    *)
RollsBack ==
    \A f \in DOMAIN scenario.baseline :
        \/ After[f] = scenario.baseline[f]
        \/ f \in DOMAIN Candidate.rollback /\ Candidate.rollback[f] = scenario.baseline[f]

(* orchestrator.py 96-100, 416-475: the records a release rests on mean what *)
(* they say of the service: it is healthy once patched, and the patch can be *)
(* taken back completely.                                                    *)
ReleasedRepairs == Released => ServesTheIncident /\ RollsBack

=============================================================================
