------------------------------ MODULE AgentPlan ------------------------------
(***************************************************************************)
(* How the Manager plans: the recommender (runtime/recommender.py) chooses *)
(* the agents that the observed signals call for, the compiler turns the   *)
(* composition into a DAG of tasks, the catalog lists the worker instances *)
(* of a capability, and _impact_agents with its closure                    *)
(* (runtime/controller.py) says which tasks new evidence affects.          *)
(*                                                                         *)
(* Pure operators: a scenario is the set of the kinds of its events and    *)
(* whether it has hypotheses, patch candidates and conflicting evidence;   *)
(* an evidence payload is its kind, its signal and its conflict flag.      *)
(* Roles, reasons, strategy texts and confidence are left out.             *)
(***************************************************************************)
EXTENDS Integers, Sequences, FiniteSets, SequencesExt

Absent == "absent"       \* no kind or signal
Empty == "empty"         \* a kind or signal that is given as an empty string

Scenarios ==
  [ signals : SUBSET STRING, hypotheses : BOOLEAN, patches : BOOLEAN,
    conflict : BOOLEAN ]

Payloads == [kind : STRING, signal : STRING, conflict : BOOLEAN]

-----------------------------------------------------------------------------
(***************************************************************************)
(* The catalog.                                                            *)
(***************************************************************************)
Capability ==
  [ incident_commander   |-> "incident-control",
    timeline_analyst     |-> "evidence",
    hypothesis_scientist |-> "hypothesis",
    universe_builder     |-> "replay",
    patch_engineer       |-> "patch-contract",
    adversarial_verifier |-> "patch-tournament",
    release_auditor      |-> "risk-gate",
    skill_curator        |-> "skill" ]

\* An instance is a logical worker, its number and what it is capable of; the
\* backups, number 2, have the lower priority.
Instance(worker, number, capabilities) ==
  [worker |-> worker, number |-> number, capabilities |-> capabilities]

WorkerInstances ==
  { Instance("incident_commander", 1, {"incident-control"}),
    Instance("universe_builder", 1, {"replay", "fault-genome"}),
    Instance("patch_engineer", 1, {"patch-contract"}),
    Instance("release_auditor", 1, {"risk-gate", "attestation"}),
    Instance("skill_curator", 1, {"skill"}) }
  \cup { Instance("timeline_analyst", n, {"timeline", "evidence"}) : n \in 1..2 }
  \cup { Instance("hypothesis_scientist", n, {"hypothesis"}) : n \in 1..2 }
  \cup { Instance("adversarial_verifier", n, {"patch-tournament"}) : n \in 1..2 }

\* The names of the capable instances, best first.
CapableInstances(capability) ==
  LET capable == {i \in WorkerInstances : capability \in i.capabilities}
      sorted  == SetToSortSeq(capable, LAMBDA i, j : i.number < j.number)
  IN  [k \in DOMAIN sorted |-> <<sorted[k].worker, sorted[k].number>>]

Capabilities == UNION {i.capabilities : i \in WorkerInstances}

Pools == [c \in Capabilities |-> CapableInstances(c)]

-----------------------------------------------------------------------------
(***************************************************************************)
(* The recommender.                                                        *)
(***************************************************************************)
Signals(scenario, evidence) ==
  scenario.signals
    \cup (UNION {{e.kind, e.signal} : e \in evidence} \ {Absent, Empty})

HasEvidenceConflict(scenario, evidence) ==
  scenario.conflict \/ \E e \in evidence : e.conflict

CoveredKinds ==
  {"commit", "dependency", "configuration", "traffic", "incident", "policy"}

\* agent joins the composition when needed, after the upstream agents.
Add(composition, needed, agent, upstream) ==
  IF needed
  THEN Append(composition, [agent |-> agent, depends_on |-> {upstream}])
  ELSE composition

Previous(composition) == Last(composition).agent

Recommend(scenario, evidence) ==
  LET signals  == Signals(scenario, evidence)
      abstain  == HasEvidenceConflict(scenario, evidence)
      repair   == ~abstain /\ scenario.patches
      first    == <<[agent |-> "incident_commander", depends_on |-> {}]>>
      timeline == Add(first, signals # {} \/ scenario.hypotheses, "timeline_analyst", "incident_commander")
      causes   == Add(timeline, scenario.hypotheses, "hypothesis_scientist", "timeline_analyst")
      universe == Add(causes, ~abstain, "universe_builder", Previous(causes))
      patch    == Add(universe, repair, "patch_engineer", "universe_builder")
      verify   == Add(patch, repair, "adversarial_verifier", "patch_engineer")
      audit    == Add(verify, repair, "release_auditor", "adversarial_verifier")
  IN  Add(audit, ~abstain /\ ~(signals \subseteq CoveredKinds), "skill_curator", Previous(audit))

-----------------------------------------------------------------------------
(***************************************************************************)
(* The compiler.  A task id is the agent with its place in the plan.       *)
(***************************************************************************)
Compile(composition) ==
  [i \in DOMAIN composition |->
     [ task       |-> <<i, composition[i].agent>>,
       agent      |-> composition[i].agent,
       depends_on |-> {<<j, composition[j].agent>> : j \in
                         {k \in 1..i-1 : composition[k].agent \in composition[i].depends_on}} ]]

\* The compiler raises on a repeated agent or an upstream agent that no earlier
\* item provides.
CompileFails(composition) ==
  \E i \in DOMAIN composition :
    \/ \E j \in 1..i-1 : composition[j].agent = composition[i].agent
    \/ \E u \in composition[i].depends_on : \A j \in 1..i-1 : composition[j].agent # u

Plan(scenario, evidence) == Compile(Recommend(scenario, evidence))

PlannedTasks(dag) == {dag[i].task : i \in DOMAIN dag}

-----------------------------------------------------------------------------
(***************************************************************************)
(* What evidence of a kind affects.                                        *)
(***************************************************************************)
CausalAgents ==
  { "timeline_analyst", "hypothesis_scientist", "universe_builder",
    "patch_engineer", "adversarial_verifier", "release_auditor" }

\* A mutant takes every kind it does not know for a cause.
ImpactAgentsUnmapped(kind) ==
  CASE kind = "policy" -> {"release_auditor"}
    [] kind = Absent   -> {}
    [] OTHER           -> CausalAgents

ImpactAgents(kind) ==
  CASE kind \in {"commit", "dependency", "configuration", "traffic", "incident", "slo"} -> CausalAgents
    [] kind = "policy" -> {"release_auditor"}
    [] kind = Absent   -> {}
    [] OTHER           -> {"skill_curator"}

\* A mutant takes the tasks of the impacted agents and no others.
Impacted(dag, kind) == {dag[i].task : i \in {j \in DOMAIN dag : dag[j].agent \in ImpactAgents(kind)}}

\* The tasks of the impacted agents and every task that depends on one of tasks
\* are among them.
Closed(dag, kind, tasks) ==
  \A i \in DOMAIN dag :
    dag[i].agent \in ImpactAgents(kind) \/ dag[i].depends_on \cap tasks # {} => dag[i].task \in tasks

\* The loop adds dependents until nothing changes: it ends with the least closed
\* set, what no closed set leaves out.
Affected(dag, kind) ==
  LET spared == {PlannedTasks(dag) \ s : s \in {s \in SUBSET PlannedTasks(dag) : Closed(dag, kind, s)}}
  IN  PlannedTasks(dag) \ UNION spared
=============================================================================
