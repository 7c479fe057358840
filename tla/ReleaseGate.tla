---------------------------- MODULE ReleaseGate -----------------------------
(* From a scenario to a release verdict, on the two paths the code has: the  *)
(* pipeline of orchestrator.py (experiments, patch tournament, checks, risk  *)
(* gate, evidence passport, readiness of the draft pull request), and the    *)
(* release auditor of agent_steps.py, the worker that decides for the local  *)
(* Controller.                                                               *)
(*                                                                           *)
(* What the simulator computes (effects of interventions, health of patched  *)
(* variants, scores, whether a rollback restores the baseline) is an input,  *)
(* so that every combination occurs; CheckoutSimulator computes them.        *)
EXTENDS Integers, Sequences, FiniteSets

CONSTANTS
    Hypotheses,     \* hypothesis ids
    Interventions,  \* counterfactual changes
    Extras,         \* names of the variants evolve_fault_family adds, in order
    Scenarios,      \* the scenarios, with the approval given on the command line
    People, Bots,   \* approver names: the rest, and _NON_HUMAN_APPROVERS
    Nobody, None

ASSUME PeopleAssumption == Nobody \notin People \cup Bots /\ People \cap Bots = {}
ASSUME NamesAssumption == Extras \in Seq(STRING)

IsList(list) == list \in Seq({list[i] : i \in DOMAIN list})

ASSUME ScenarioAssumption ==
    \A s \in Scenarios :
        /\ s.intervention \in [Hypotheses -> Interventions]
        /\ s.effect \in [Interventions -> {"primary-cause", "amplifier", "not-causal"}]
        /\ s.approved \in BOOLEAN /\ s.approver \in People \cup Bots \cup {Nobody}
        /\ s.seeds \in Seq([name : STRING, mandatory : BOOLEAN]) /\ Len(s.seeds) > 0
        /\ IsList(s.candidates) /\ Len(s.candidates) > 0
        /\ \A k \in DOMAIN s.candidates :
              /\ s.candidates[k].score \in Int
              /\ DOMAIN s.candidates[k].healthy = 1..(Len(s.seeds) + Len(Extras))
              /\ s.candidates[k].risk \in {"low", "medium", "high"}
              /\ {s.candidates[k].text, s.candidates[k].reverse, s.candidates[k].restores,
                   s.candidates[k].changes} \subseteq BOOLEAN

VARIABLES
    scenario,
    step,           \* the pipeline's place
    experiments,    \* each hypothesis's classification
    patch,          \* the index of the selected candidate
    checks,         \* execution checks
    claims,         \* evidence gaps found before the gate
    gate,           \* evaluate_gate's verdict
    missing,        \* the passport's missing claims
    flow,           \* readiness, checks payload and summary of the draft
    auditor         \* the worker's verdict

vars == <<scenario, step, experiments, patch, checks, claims, gate, missing, flow, auditor>>

-----------------------------------------------------------------------------
(* Causality. *)

(* replay_hypothesis: the class follows from the intervention's effect.      *)
Replayed(s) == [h \in Hypotheses |-> s.effect[s.intervention[h]]]

Primary(e) == {h \in Hypotheses : e[h] = "primary-cause"}

(* A mutant that keeps the first of several indistinguishable hypotheses. *)
ResolvedButOne(s, e) ==
    [h \in Hypotheses |->
        IF h \in Primary(e) /\ \E g \in Primary(e) \ {h} : s.intervention[g] = s.intervention[h]
           /\ h # CHOOSE f \in Primary(e) : s.intervention[f] = s.intervention[h]
        THEN "indeterminate" ELSE e[h]]

(* resolve_indistinguishable_interventions: primary hypotheses that change   *)
(* the same thing cannot be told apart and none of them is proven.           *)
Resolved(s, e) ==
    [h \in Hypotheses |->
        IF h \in Primary(e) /\ \E g \in Primary(e) \ {h} : s.intervention[g] = s.intervention[h]
        THEN "indeterminate" ELSE e[h]]

-----------------------------------------------------------------------------
(* Variants and patches. *)

(* evolve_fault_family: the scenario's own mutations, optional if they say   *)
(* so, then the generated ones.                                              *)
Variants(s) ==
    s.seeds \o [i \in DOMAIN Extras |-> [name |-> Extras[i], mandatory |-> TRUE]]

(* score_patch: one result per variant, in order.                            *)
Results(s, k) ==
    [i \in DOMAIN Variants(s) |->
        [name |-> Variants(s)[i].name, mandatory |-> Variants(s)[i].mandatory,
         healthy |-> s.candidates[k].healthy[i]]]

AllMandatoryHealthy(results) ==
    /\ \E i \in DOMAIN results : results[i].mandatory
    /\ \A i \in DOMAIN results : results[i].mandatory => results[i].healthy

(* A mutant of the key that only looks at the score. *)
RanksBeforeByScore(s, k, l) ==
    \/ s.candidates[k].score > s.candidates[l].score
    \/ s.candidates[k].score = s.candidates[l].score /\ k < l

(* run_tournament's key: eligible first, then the score, then the id.        *)
RanksBefore(s, k, l) ==
    LET eligible(j) == AllMandatoryHealthy(Results(s, j))
        c == s.candidates
    IN IF eligible(k) # eligible(l) THEN eligible(k)
       ELSE \/ c[k].score > c[l].score
            \/ c[k].score = c[l].score /\ k < l

Winner(s) ==
    CHOOSE k \in DOMAIN s.candidates :
        \A l \in DOMAIN s.candidates \ {k} : RanksBefore(s, k, l)

(* A rollback text, rollback changes, and the changes undone by them.        *)
RollbackVerified(c) == c.text /\ c.reverse /\ c.restores

(* The three checks, from what was just executed.                            *)
Check(ok) == [required |-> TRUE, executed |-> TRUE, exit |-> IF ok THEN 0 ELSE 1,
              conclusion |-> IF ok THEN "success" ELSE "failure"]
ExecutionChecks(s, e, k) ==
    [replay   |-> Check(Primary(e) # {}),
     suite    |-> Check(AllMandatoryHealthy(Results(s, k))),
     rollback |-> Check(RollbackVerified(s.candidates[k]))]

(* A mutant that also misses a cause when only some cannot be told apart. *)
MissingClaimsOfAny(s, e, k) ==
    {x \in {"cause", "variants"} :
        \/ x = "cause" /\ \E h \in Hypotheses : e[h] = "indeterminate"
        \/ x = "variants" /\ \E i \in DOMAIN Variants(s) :
              Results(s, k)[i].mandatory /\ ~Results(s, k)[i].healthy}

(* collect_pre_gate_missing_claims.                                          *)
MissingClaims(s, e, k) ==
    {x \in {"cause", "variants", "rollback-changes"} :
        \/ x = "cause" /\ Primary(e) = {}
        \/ x = "variants" /\ \E i \in DOMAIN Variants(s) :
              Results(s, k)[i].mandatory /\ ~Results(s, k)[i].healthy
        \/ x = "rollback-changes"
              /\ ~(s.candidates[k].text /\ s.candidates[k].reverse)}

-----------------------------------------------------------------------------
(* evaluate_gate. *)

RequiresHuman(c) == c.risk \in {"medium", "high"}

(* The results the gate looks at: of each mandatory name, the last result.   *)
LastResult(results, n) ==
    CHOOSE i \in DOMAIN results :
        results[i].name = n /\ \A j \in DOMAIN results : results[j].name = n => j <= i
Unhealthy(results, names) ==
    {n \in names : ~results[LastResult(results, n)].healthy}

(* Execution evidence, a clean exit code and a successful conclusion.        *)
CheckFails(check) == ~check.executed \/ check.exit # 0 \/ check.conclusion # "success"

(* What keeps the quality gate closed; no approval opens it.                 *)
QualityBlockers(c, results, proven, gaps, verified, done, names) ==
    {x \in {"cause", "no-variants", "unhealthy", "claims", "rollback-contract",
            "rollback", "no-checks", "checks"} :
        \/ x = "cause" /\ ~proven
        \/ x = "no-variants" /\ names = {}
        \/ x = "unhealthy" /\ Unhealthy(results, names) # {}
        \/ x = "claims" /\ gaps # {}
        \/ x = "rollback-contract" /\ ~c.text
        \/ x = "rollback" /\ ~verified
        \/ x = "no-checks" /\ \A n \in DOMAIN done : ~done[n].required
        \/ x = "checks" /\ \E n \in DOMAIN done : done[n].required /\ CheckFails(done[n])}

(* A mutant that accepts the legacy boolean. *)
HumanApprovalReadyByStatus(approval) == approval.status = "approved"

(* A named approver who is a person.                                         *)
HumanApprovalReady(approval) ==
    /\ approval.status = "approved"
    /\ approval.approver \notin Bots \cup {Nobody}
    /\ approval.is_human

(* The verdict: quality first, then the person. *)
Gate(c, results, proven, gaps, verified, done, names, approval) ==
    LET human == HumanApprovalReady(approval)
        quality == QualityBlockers(c, results, proven, gaps, verified, done, names)
        waiting == RequiresHuman(c) /\ ~human
        decision == IF quality # {} THEN "blocked-quality-gate"
                    ELSE IF waiting THEN "blocked-awaiting-human" ELSE "approved"
    IN [requires_human |-> RequiresHuman(c), decision |-> decision,
        quality_gate |-> IF quality = {} THEN "passed" ELSE "failed",
        blockers |-> quality \cup (IF waiting THEN {"human"} ELSE {}),
        release_ready |-> decision = "approved"]

-----------------------------------------------------------------------------
(* The passport and the draft pull request (github_flow.py). *)

(* build_evidence_passport: the gaps, the gate's blockers, the approval.     *)
PassportMissing(gaps, verdict) ==
    gaps \cup verdict.blockers
         \cup (IF verdict.decision # "approved" THEN {"approval"} ELSE {})

(* _normalise_validation_checks: what a measured check concludes.            *)
Normalised(check) ==
    IF ~check.executed THEN "pending"
    ELSE IF check.exit # 0 THEN "failure" ELSE check.conclusion

(* _human_approval_ready, the flow's own copy of the gate's test.            *)
FlowApprovalReady(approval) ==
    /\ approval.status = "approved"
    /\ approval.approver \notin Bots \cup {Nobody}
    /\ approval.is_human

RiskGateConclusion(verdict) ==
    CASE verdict.quality_gate = "failed" -> "failure"
      [] verdict.release_ready -> "success"
      [] OTHER -> "action_required"

(* _approval_check; it is not required where no person is.                   *)
ApprovalConclusion(verdict, approval) ==
    IF ~verdict.requires_human THEN "neutral"
    ELSE IF FlowApprovalReady(approval) THEN "success" ELSE "action_required"

(* The conclusions of the required checks, measured and derived.             *)
Required(done, verdict, approval) ==
    {Normalised(done[n]) : n \in {m \in DOMAIN done : done[m].required}}
        \cup {RiskGateConclusion(verdict)}
        \cup (IF verdict.requires_human THEN {ApprovalConclusion(verdict, approval)} ELSE {})

(* _checks_payload. *)
ChecksStatus(required) ==
    IF required = {"success"} THEN "completed"
    ELSE IF "failure" \in required THEN "blocked" ELSE "pending"

(* What _readiness finds failed, and what it finds missing.                  *)
FailedEvidence(done, verdict, gaps, required) ==
    {x \in {"validation", "riskgate", "passport", "checks"} :
        \/ x = "validation" /\ \E n \in DOMAIN done : Normalised(done[n]) = "failure"
        \/ x = "riskgate" /\ ~verdict.release_ready /\ verdict.quality_gate = "failed"
        \/ x = "passport" /\ gaps # {}
        \/ x = "checks" /\ "failure" \in required}
MissingEvidence(c, done, verdict, approval, required) ==
    {x \in {"changes", "rollback", "validation", "riskgate", "approval", "checks"} :
        \/ x = "changes" /\ ~c.changes
        \/ x = "rollback" /\ ~c.reverse
        \/ x = "validation" /\ \E n \in DOMAIN done : Normalised(done[n]) = "pending"
        \/ x = "riskgate" /\ ~verdict.release_ready /\ verdict.quality_gate # "failed"
        \/ x = "approval" /\ verdict.requires_human /\ ~FlowApprovalReady(approval)
        \/ x = "checks" /\ "failure" \notin required /\ required # {"success"}}
Readiness(failed, absent) ==
    IF failed # {} THEN "blocked" ELSE IF absent # {} THEN "pending" ELSE "ready"

-----------------------------------------------------------------------------
(* run_pipeline, one action per stage. *)

Init ==
    /\ scenario \in Scenarios
    /\ step = "replay"
    /\ experiments = [h \in Hypotheses |-> None] /\ patch = 0
    /\ checks = <<>> /\ claims = {} /\ gate = None /\ missing = {}
    /\ flow = None /\ auditor = None

Advance(from, to) == step = from /\ step' = to

Candidate == scenario.candidates[patch]

Replay ==
    /\ Advance("replay", "rank")
    /\ experiments' = Resolved(scenario, Replayed(scenario))
    /\ UNCHANGED <<scenario, patch, checks, claims, gate, missing, flow, auditor>>

Rank ==
    /\ Advance("rank", "check")
    /\ patch' = Winner(scenario)
    /\ UNCHANGED <<scenario, experiments, checks, claims, gate, missing, flow, auditor>>

CheckPatch ==
    /\ Advance("check", "gate")
    /\ checks' = ExecutionChecks(scenario, experiments, patch)
    /\ claims' = MissingClaims(scenario, experiments, patch)
    /\ UNCHANGED <<scenario, experiments, patch, gate, missing, flow, auditor>>

(* The approval of the command line: whoever is named counts as human until  *)
(* the gate looks at the name.                                               *)
Approval == [status |-> IF scenario.approved THEN "approved" ELSE "not-approved",
             approver |-> scenario.approver, is_human |-> scenario.approver # Nobody]

(* The names the pipeline calls mandatory: those of all variants.            *)
PipelineNames == {Variants(scenario)[i].name : i \in DOMAIN Variants(scenario)}

EvaluateGate ==
    /\ Advance("gate", "passport")
    /\ gate' = Gate(Candidate, Results(scenario, patch), Primary(experiments) # {}, claims,
                    RollbackVerified(Candidate), checks, PipelineNames, Approval)
    /\ UNCHANGED <<scenario, experiments, patch, checks, claims, missing, flow, auditor>>

BuildPassport ==
    /\ Advance("passport", "flow")
    /\ missing' = PassportMissing(claims, gate)
    /\ UNCHANGED <<scenario, experiments, patch, checks, claims, gate, flow, auditor>>

WriteFlow ==
    /\ Advance("flow", "done")
    /\ LET required == Required(checks, gate, Approval)
           failed == FailedEvidence(checks, gate, missing, required)
           absent == MissingEvidence(Candidate, checks, gate, Approval, required)
       IN flow' = [readiness |-> Readiness(failed, absent), checks |-> ChecksStatus(required)]
    /\ UNCHANGED <<scenario, experiments, patch, checks, claims, gate, missing, auditor>>

-----------------------------------------------------------------------------
(* The release auditor's worker computes everything again from the scenario, *)
(* passes no claims and only the mandatory names.                            *)
AuditorNames ==
    {Variants(scenario)[i].name : i \in {j \in DOMAIN Variants(scenario) :
                                            Variants(scenario)[j].mandatory}}

(* What the worker is told of the approval.                                  *)
AuditorApproval ==
    [status |-> IF scenario.approved THEN "approved" ELSE "not-approved",
     approver |-> IF scenario.approved THEN scenario.approver ELSE Nobody,
     is_human |-> scenario.approved]

Audit ==
    /\ auditor = None
    /\ LET e == Resolved(scenario, Replayed(scenario))
           k == Winner(scenario)
           c == scenario.candidates[k]
       IN auditor' = Gate(c, Results(scenario, k), Primary(e) # {}, {}, RollbackVerified(c),
                          ExecutionChecks(scenario, e, k), AuditorNames, AuditorApproval)
    /\ UNCHANGED <<scenario, step, experiments, patch, checks, claims, gate, missing, flow>>

Next == Replay \/ Rank \/ CheckPatch \/ EvaluateGate \/ BuildPassport \/ WriteFlow \/ Audit

Spec == Init /\ [][Next]_vars

-----------------------------------------------------------------------------
(* Properties. *)

Classes == {"primary-cause", "amplifier", "not-causal", "indeterminate", None}
Verdicts == [requires_human : BOOLEAN, quality_gate : {"passed", "failed"},
             decision : {"approved", "blocked-awaiting-human", "blocked-quality-gate"},
             blockers : SUBSET {"cause", "no-variants", "unhealthy", "claims",
                                "rollback-contract", "rollback", "no-checks", "checks", "human"},
             release_ready : BOOLEAN]

(* Types; a verdict is well formed, and approved exactly without blockers.   *)
VerdictOK(v) == v # None => v \in Verdicts /\ (v.decision = "approved" <=> v.blockers = {})
TypeOK ==
    /\ experiments \in [Hypotheses -> Classes]
    /\ patch \in 0..Len(scenario.candidates)
    /\ claims \subseteq {"cause", "variants", "rollback-changes"}
    /\ VerdictOK(gate) /\ VerdictOK(auditor)

(* What a release must rest on: a hypothesis whose intervention removes the  *)
(* incident and which no other hypothesis explains as well; every mandatory  *)
(* result healthy, even of variants that share a name; a rollback that       *)
(* restores the baseline; a person's name for medium and high risk.          *)
Justified(k) ==
    /\ \E h \in Hypotheses :
          /\ scenario.effect[scenario.intervention[h]] = "primary-cause"
          /\ \A g \in Hypotheses \ {h} : scenario.intervention[g] # scenario.intervention[h]
    /\ AllMandatoryHealthy(Results(scenario, k))
    /\ scenario.candidates[k].text /\ scenario.candidates[k].restores
    /\ RequiresHuman(scenario.candidates[k]) => scenario.approved /\ scenario.approver \in People

(* The drafts of github_flow.py 360-428, and agent_steps.py 170-192.         *)
ReadyIsJustified == flow # None /\ flow.readiness = "ready" => Justified(patch)
AuditedIsJustified ==
    auditor # None /\ auditor.release_ready => Justified(Winner(scenario))

(* orchestrator.py 416-475: a draft is ready only when the release is        *)
(* justified, and so is an approval of the release auditor, who collects no  *)
(* claims.                                                                   *)
ReleasesAreJustified == ReadyIsJustified /\ AuditedIsJustified

(* github_flow.py 196-428: the readiness, computed again from the checks,    *)
(* the approval record and the passport, agrees with the gate and with the   *)
(* checks payload the external writer reads; an empty change is never ready. *)
FlowAgreesWithGate ==
    flow # None =>
        /\ flow.readiness = "ready" <=> gate.release_ready /\ Candidate.changes
        /\ flow.checks = "completed" <=> gate.release_ready
        /\ flow.readiness = "blocked" <=> ~gate.release_ready

(* The pipeline and the release auditor decide alike, though they collect    *)
(* claims, names and the approval differently; unless an optional variant    *)
(* fails, which only the pipeline counts.                                    *)
OptionalFailure ==
    \E i \in DOMAIN Results(scenario, patch) :
        ~Results(scenario, patch)[i].mandatory /\ ~Results(scenario, patch)[i].healthy
PathsAgree ==
    gate # None /\ auditor # None /\ ~OptionalFailure => auditor.decision = gate.decision

(* patch_tournament.py 60-63: a candidate that passes the mandatory suite is *)
(* never outranked by one that does not, and among those that pass the best  *)
(* score wins.                                                               *)
BestEligibleWins ==
    patch # 0 =>
        LET eligible == {k \in DOMAIN scenario.candidates :
                            AllMandatoryHealthy(Results(scenario, k))}
        IN eligible # {} =>
              /\ patch \in eligible
              /\ \A k \in eligible : scenario.candidates[k].score <= Candidate.score

=============================================================================
