-------------------------- MODULE ReleaseGateProofs --------------------------
(* Proofs about ReleaseGate, for every scenario, hypothesis and approval:    *)
(* what is released is justified, the copies of the verdict agree, and what  *)
(* is released repairs the incident.  The last section is about Evaluation,  *)
(* which classifies the hypotheses of a corpus with the same replay.         *)
EXTENDS SimulatedRelease, Evaluation, FiniteSetTheorems, WellFoundedInduction, SequenceTheorems, TLAPS

(* The scenario's own experiments and the checks they give.                  *)
Experiments(s) == Resolved(s, Replayed(s))
Measured(s, k) == ExecutionChecks(s, Experiments(s), k)

-----------------------------------------------------------------------------
(* The quality gate. *)

(* What an open quality gate says. *)
LEMMA OpenGate ==
    ASSUME NEW c, NEW outcomes, NEW proven, NEW gaps, NEW verified, NEW done, NEW names,
           QualityBlockers(c, outcomes, proven, gaps, verified, done, names) = {}
    PROVE  /\ proven /\ gaps = {} /\ c.text /\ verified
           /\ \A n \in DOMAIN done : done[n].required => ~CheckFails(done[n])
<1> DEFINE Closed(x) ==
        \/ x = "cause" /\ ~proven
        \/ x = "no-variants" /\ names = {}
        \/ x = "unhealthy" /\ Unhealthy(outcomes, names) # {}
        \/ x = "claims" /\ gaps # {}
        \/ x = "rollback-contract" /\ ~c.text
        \/ x = "rollback" /\ ~verified
        \/ x = "no-checks" /\ \A n \in DOMAIN done : ~done[n].required
        \/ x = "checks" /\ \E n \in DOMAIN done : done[n].required /\ CheckFails(done[n])
<1>1. \A x \in {"cause", "no-variants", "unhealthy", "claims", "rollback-contract",
                "rollback", "no-checks", "checks"} : ~Closed(x)
  BY DEF QualityBlockers
<1>2. ~Closed("cause") /\ ~Closed("claims") /\ ~Closed("rollback-contract")
        /\ ~Closed("rollback") /\ ~Closed("checks")
  BY <1>1
<1> QED
  BY <1>2

(* The verdict is a release exactly when quality and person allow it.        *)
LEMMA Verdict ==
    ASSUME NEW c, NEW outcomes, NEW proven, NEW gaps, NEW verified, NEW done, NEW names,
           NEW approval
    PROVE  LET v == Gate(c, outcomes, proven, gaps, verified, done, names, approval)
               quality == QualityBlockers(c, outcomes, proven, gaps, verified, done, names)
           IN /\ v.release_ready \in BOOLEAN
              /\ v.release_ready <=> quality = {} /\ (RequiresHuman(c) => HumanApprovalReady(approval))
              /\ v.requires_human = RequiresHuman(c)
              /\ v.quality_gate = IF quality = {} THEN "passed" ELSE "failed"
              /\ v.release_ready => v.blockers = {} /\ v.decision = "approved"
              /\ ~v.release_ready => v.decision # "approved"
  BY DEF Gate

(* Each measured check is required, was executed, and succeeds exactly when  *)
(* what it measures holds.                                                   *)
LEMMA MeasuredChecks ==
    ASSUME NEW s, NEW k
    PROVE  LET done == Measured(s, k)
           IN /\ DOMAIN done = {"replay", "suite", "rollback"}
              /\ \A n \in DOMAIN done :
                    /\ done[n].required
                    /\ CheckFails(done[n]) <=> Normalised(done[n]) = "failure"
                    /\ ~CheckFails(done[n]) <=> Normalised(done[n]) = "success"
                    /\ Normalised(done[n]) # "pending"
              /\ ~CheckFails(done["replay"]) <=> Primary(Experiments(s)) # {}
              /\ ~CheckFails(done["suite"]) <=> AllMandatoryHealthy(Results(s, k))
              /\ ~CheckFails(done["rollback"]) <=> RollbackVerified(s.candidates[k])
  BY DEF Measured, ExecutionChecks, Check, CheckFails, Normalised

(* A primary cause that stays is one that nothing else explains.             *)
LEMMA UniqueCause ==
    ASSUME NEW s \in Scenarios, Primary(Experiments(s)) # {}
    PROVE  \E h \in Hypotheses :
              /\ s.effect[s.intervention[h]] = "primary-cause"
              /\ \A g \in Hypotheses \ {h} : s.intervention[g] # s.intervention[h]
<1> DEFINE e == Replayed(s)
<1>1. PICK h \in Hypotheses : Experiments(s)[h] = "primary-cause"
  BY DEF Primary
<1>2. Experiments(s)[h] = IF h \in Primary(e) /\ \E g \in Primary(e) \ {h} :
                                s.intervention[g] = s.intervention[h]
                          THEN "indeterminate" ELSE e[h]
  BY DEF Experiments, Resolved
<1>3. e[h] = "primary-cause" /\ h \in Primary(e)
  BY <1>1, <1>2 DEF Primary
<1>4. \A g \in Primary(e) \ {h} : s.intervention[g] # s.intervention[h]
  BY <1>1, <1>2, <1>3
<1>5. \A g \in Hypotheses : e[g] = s.effect[s.intervention[g]]
  BY DEF Replayed
<1>6. ASSUME NEW g \in Hypotheses \ {h}, s.intervention[g] = s.intervention[h]
      PROVE  FALSE
  BY <1>3, <1>4, <1>5, <1>6 DEF Primary
<1> QED
  BY <1>3, <1>5, <1>6

-----------------------------------------------------------------------------
(* What is released. *)

(* The record of an approval, as both paths write it.                        *)
ApprovalOf(s, approval) ==
    /\ approval.status = "approved" => s.approved
    /\ approval.status = "approved" => approval.approver = s.approver

(* A verdict on the scenario's own measurements approves only what is        *)
(* justified, whatever the claims and the names it looks at.                 *)
LEMMA ReleasedIsJustified ==
    ASSUME NEW k, scenario \in Scenarios, NEW gaps, NEW names, NEW approval,
           ApprovalOf(scenario, approval),
           Gate(scenario.candidates[k], Results(scenario, k),
                Primary(Experiments(scenario)) # {}, gaps,
                RollbackVerified(scenario.candidates[k]), Measured(scenario, k), names,
                approval).release_ready
    PROVE  Justified(k)
<1> DEFINE c == scenario.candidates[k]
           done == Measured(scenario, k)
           proven == Primary(Experiments(scenario)) # {}
           verified == RollbackVerified(c)
           quality == QualityBlockers(c, Results(scenario, k), proven, gaps, verified, done, names)
<1>1. quality = {} /\ (RequiresHuman(c) => HumanApprovalReady(approval))
  BY Verdict
<1>2. /\ proven /\ verified
      /\ \A n \in DOMAIN done : done[n].required => ~CheckFails(done[n])
  <2> HIDE DEF proven, verified, done, c
  <2> QED
    BY <1>1, OpenGate
<1>3. \E h \in Hypotheses :
         /\ scenario.effect[scenario.intervention[h]] = "primary-cause"
         /\ \A g \in Hypotheses \ {h} : scenario.intervention[g] # scenario.intervention[h]
  BY <1>2, UniqueCause
<1>4. AllMandatoryHealthy(Results(scenario, k))
  <2>1. "suite" \in DOMAIN done /\ done["suite"].required
    BY MeasuredChecks
  <2>2. ~CheckFails(done["suite"])
    BY <1>2, <2>1
  <2> QED
    BY <2>2, MeasuredChecks
<1>5. c.text /\ c.restores
  BY <1>2 DEF RollbackVerified
<1>6. RequiresHuman(c) => scenario.approved /\ scenario.approver \in People
  BY <1>1, ScenarioAssumption DEF HumanApprovalReady, ApprovalOf
<1> QED
  BY <1>3, <1>4, <1>5, <1>6 DEF Justified

(* The two ways of recording the command line's approval.                    *)
LEMMA Approvals == ApprovalOf(scenario, Approval) /\ ApprovalOf(scenario, AuditorApproval)
  BY DEF ApprovalOf, Approval, AuditorApproval

-----------------------------------------------------------------------------
(* The copies of the verdict. *)

(* A release's required checks all succeed, and only a release's do.         *)
LEMMA RequiredOfRelease ==
    ASSUME NEW s, NEW k, NEW gaps, NEW names, NEW approval, NEW v,
           v = Gate(s.candidates[k], Results(s, k), Primary(Experiments(s)) # {}, gaps,
                    RollbackVerified(s.candidates[k]), Measured(s, k), names, approval)
    PROVE  LET required == Required(Measured(s, k), v, approval)
           IN /\ required = {"success"} <=> v.release_ready
              /\ v.release_ready => \A n \in DOMAIN Measured(s, k) :
                                      Normalised(Measured(s, k)[n]) = "success"
<1> DEFINE c == s.candidates[k]
           done == Measured(s, k)
           proven == Primary(Experiments(s)) # {}
           verified == RollbackVerified(c)
           quality == QualityBlockers(c, Results(s, k), proven, gaps, verified, done, names)
           required == Required(done, v, approval)
<1>1. /\ v.release_ready \in BOOLEAN
      /\ v.release_ready <=> quality = {} /\ (RequiresHuman(c) => HumanApprovalReady(approval))
      /\ v.requires_human = RequiresHuman(c)
      /\ v.quality_gate = IF quality = {} THEN "passed" ELSE "failed"
  BY Verdict
<1>2. ASSUME v.release_ready
      PROVE  required = {"success"} /\ \A n \in DOMAIN done : Normalised(done[n]) = "success"
  <2>1. \A n \in DOMAIN done : done[n].required => ~CheckFails(done[n])
    <3> HIDE DEF proven, verified, done, c
    <3> QED
      BY <1>1, <1>2, OpenGate
  <2>2. /\ "replay" \in DOMAIN done
        /\ \A n \in DOMAIN done : done[n].required
        /\ \A n \in DOMAIN done : ~CheckFails(done[n]) <=> Normalised(done[n]) = "success"
    <3>1. DOMAIN done = {"replay", "suite", "rollback"}
      BY MeasuredChecks
    <3>2. \A n \in DOMAIN done :
             done[n].required /\ (~CheckFails(done[n]) <=> Normalised(done[n]) = "success")
      BY MeasuredChecks
    <3> QED
      BY <3>1, <3>2
  <2>3. \A n \in DOMAIN done : Normalised(done[n]) = "success"
    BY <2>1, <2>2
  <2>4. {Normalised(done[n]) : n \in {m \in DOMAIN done : done[m].required}} = {"success"}
    <3> HIDE DEF done
    <3> QED
      BY <2>2, <2>3
  <2>5. RiskGateConclusion(v) = "success"
    BY <1>1, <1>2 DEF RiskGateConclusion
  <2>6. v.requires_human => ApprovalConclusion(v, approval) = "success"
    BY <1>1, <1>2 DEF ApprovalConclusion, FlowApprovalReady, HumanApprovalReady
  <2>7. required = {"success"}
    BY <2>4, <2>5, <2>6 DEF Required
  <2> QED
    BY <2>3, <2>7
<1>3. ASSUME ~v.release_ready
      PROVE  required # {"success"}
  <2>1. RiskGateConclusion(v) # "success"
    BY <1>3 DEF RiskGateConclusion
  <2>2. RiskGateConclusion(v) \in required
    BY DEF Required
  <2> QED
    BY <2>1, <2>2
<1> QED
  BY <1>1, <1>2, <1>3

(* Readiness and checks payload say of a release what a verdict says.        *)
FlowAgrees(c, done, v, passport, approval) ==
    LET required == Required(done, v, approval)
        failed == FailedEvidence(done, v, passport, required)
        absent == MissingEvidence(c, done, v, approval, required)
    IN /\ Readiness(failed, absent) = "ready" <=> v.release_ready /\ c.changes
       /\ ChecksStatus(required) = "completed" <=> v.release_ready
       /\ Readiness(failed, absent) = "blocked" <=> ~v.release_ready

(* They do with the gate's verdict, from the same measurements.              *)
LEMMA Agreement ==
    ASSUME NEW s, NEW k, NEW gaps, NEW names, NEW approval, NEW v,
           v = Gate(s.candidates[k], Results(s, k), Primary(Experiments(s)) # {}, gaps,
                    RollbackVerified(s.candidates[k]), Measured(s, k), names, approval)
    PROVE  FlowAgrees(s.candidates[k], Measured(s, k), v, PassportMissing(gaps, v), approval)
<1> DEFINE c == s.candidates[k]
           done == Measured(s, k)
           proven == Primary(Experiments(s)) # {}
           verified == RollbackVerified(c)
           quality == QualityBlockers(c, Results(s, k), proven, gaps, verified, done, names)
           required == Required(done, v, approval)
           failed == FailedEvidence(done, v, PassportMissing(gaps, v), required)
           absent == MissingEvidence(c, done, v, approval, required)
<1>1. /\ v.release_ready \in BOOLEAN
      /\ v.release_ready <=> quality = {} /\ (RequiresHuman(c) => HumanApprovalReady(approval))
      /\ v.requires_human = RequiresHuman(c)
      /\ v.release_ready => v.blockers = {} /\ v.decision = "approved"
      /\ ~v.release_ready => v.decision # "approved"
  BY Verdict
<1>2. required = {"success"} <=> v.release_ready
  BY RequiredOfRelease
<1>3. ASSUME v.release_ready
      PROVE  failed = {} /\ (absent = {} <=> c.changes)
  <2>1. gaps = {} /\ verified
    <3> HIDE DEF proven, verified, done, c
    <3> QED
      BY <1>1, <1>3, OpenGate
  <2>2. PassportMissing(gaps, v) = {}
    BY <1>1, <1>3, <2>1 DEF PassportMissing
  <2>3. \A n \in DOMAIN done : Normalised(done[n]) = "success"
    BY <1>3, RequiredOfRelease
  <2>4. required = {"success"}
    BY <1>2, <1>3
  <2>5. failed = {}
    <3> HIDE DEF done, required
    <3> QED
      BY <1>3, <2>2, <2>3, <2>4 DEF FailedEvidence
  <2>6. c.reverse
    BY <2>1 DEF RollbackVerified
  <2>7. v.requires_human => FlowApprovalReady(approval)
    BY <1>1, <1>3 DEF FlowApprovalReady, HumanApprovalReady
  <2>8. absent = {x \in {"changes"} : ~c.changes}
    <3> HIDE DEF done, required, c
    <3> QED
      BY <1>3, <2>3, <2>4, <2>6, <2>7 DEF MissingEvidence
  <2> QED
    BY <2>5, <2>8
<1>4. ASSUME ~v.release_ready
      PROVE  failed # {}
  <2>1. "approval" \in PassportMissing(gaps, v)
    BY <1>1, <1>4 DEF PassportMissing
  <2>2. "passport" \in failed
    BY <2>1 DEF FailedEvidence
  <2> QED
    BY <2>2
<1>5. ChecksStatus(required) = "completed" <=> v.release_ready
  BY <1>2 DEF ChecksStatus
<1>6. /\ Readiness(failed, absent) = "ready" <=> v.release_ready /\ c.changes
      /\ Readiness(failed, absent) = "blocked" <=> ~v.release_ready
  BY <1>1, <1>3, <1>4 DEF Readiness
<1> QED
  BY <1>5, <1>6 DEF FlowAgrees

-----------------------------------------------------------------------------
(* The pipeline's places. *)

(* The gate's verdict as EvaluateGate computes it, on the scenario's own     *)
(* experiments and checks.                                                   *)
OwnVerdict ==
    Gate(Candidate, Results(scenario, patch), Primary(Experiments(scenario)) # {}, claims,
         RollbackVerified(Candidate), Measured(scenario, patch), PipelineNames, Approval)

Ranked   == {"rank", "check", "gate", "passport", "flow", "done"}
Checked  == {"gate", "passport", "flow", "done"}
Gated    == {"passport", "flow", "done"}
Credited == {"flow", "done"}

(* Every stage has left what it computes, from this scenario and for the     *)
(* patch it selected; nothing is recomputed from something newer.            *)
StagesFollow ==
    /\ scenario \in Scenarios
    /\ step \in Ranked => experiments = Experiments(scenario)
    /\ step \in Checked => checks = Measured(scenario, patch)
    /\ step \in Gated => gate = OwnVerdict
    /\ step \in Credited => missing = PassportMissing(claims, gate)
    /\ flow # None => step = "done"
IInv == StagesFollow /\ ReadyIsJustified /\ AuditedIsJustified /\ FlowAgreesWithGate

(* Nothing is released and nothing computed at the start. *)
LEMMA Start == Init => IInv
  BY DEF Init, IInv, StagesFollow, Ranked, Checked, Gated, Credited, ReadyIsJustified,
         AuditedIsJustified, FlowAgreesWithGate

(* Each stage, the auditor at any moment, and a stutter keep the invariant.  *)
LEMMA StagesStep == IInv /\ [Next]_vars => IInv'
<1> SUFFICES ASSUME IInv, [Next]_vars
             PROVE  IInv'
  OBVIOUS
<1> USE DEF IInv, Ranked, Checked, Gated, Credited
<1>1. CASE Replay
  BY <1>1 DEF Replay, Advance, StagesFollow, ReadyIsJustified, AuditedIsJustified,
              FlowAgreesWithGate, Justified, Experiments
<1>2. CASE Rank
  BY <1>2 DEF Rank, Advance, StagesFollow, ReadyIsJustified, AuditedIsJustified,
              FlowAgreesWithGate, Justified
<1>3. CASE CheckPatch
  BY <1>3 DEF CheckPatch, Advance, StagesFollow, ReadyIsJustified, AuditedIsJustified,
              FlowAgreesWithGate, Justified, Measured
<1>4. CASE EvaluateGate
  BY <1>4 DEF EvaluateGate, Advance, StagesFollow, ReadyIsJustified, AuditedIsJustified,
              FlowAgreesWithGate, Justified, OwnVerdict, Candidate, PipelineNames, Approval
<1>5. CASE BuildPassport
  BY <1>5 DEF BuildPassport, Advance, StagesFollow, ReadyIsJustified, AuditedIsJustified,
              FlowAgreesWithGate, Justified, OwnVerdict, Candidate, PipelineNames, Approval
<1>6. CASE WriteFlow
  <2>1. /\ step = "flow" /\ step' = "done"
        /\ UNCHANGED <<scenario, experiments, patch, checks, claims, gate, missing, auditor>>
    BY <1>6 DEF WriteFlow, Advance
  <2>2. checks = Measured(scenario, patch) /\ gate = OwnVerdict
        /\ missing = PassportMissing(claims, gate) /\ scenario \in Scenarios
    BY <2>1 DEF StagesFollow
  <2> DEFINE required == Required(checks, gate, Approval)
             failed == FailedEvidence(checks, gate, missing, required)
             absent == MissingEvidence(Candidate, checks, gate, Approval, required)
  <2>3. flow' = [readiness |-> Readiness(failed, absent), checks |-> ChecksStatus(required)]
    BY <1>6 DEF WriteFlow
  <2>4. /\ Readiness(failed, absent) = "ready" <=> gate.release_ready /\ Candidate.changes
        /\ ChecksStatus(required) = "completed" <=> gate.release_ready
        /\ Readiness(failed, absent) = "blocked" <=> ~gate.release_ready
    <3>1. FlowAgrees(Candidate, checks, gate, missing, Approval)
      BY <2>2, Agreement DEF OwnVerdict, Candidate
    <3> QED
      BY <3>1 DEF FlowAgrees
  <2>5. FlowAgreesWithGate'
    <3> HIDE DEF required, failed, absent
    <3> QED
      BY <2>1, <2>3, <2>4 DEF FlowAgreesWithGate, Candidate
  <2>6. gate.release_ready => Justified(patch)
    BY <2>2, ReleasedIsJustified, Approvals DEF OwnVerdict, Candidate
  <2>7. ReadyIsJustified'
    <3>1. flow'.readiness = "ready" => gate.release_ready
      <4> HIDE DEF required, failed, absent
      <4> QED
        BY <2>3, <2>4
    <3>2. Justified(patch)' <=> Justified(patch)
      BY <2>1 DEF Justified
    <3> QED
      BY <2>6, <3>1, <3>2 DEF ReadyIsJustified
  <2>8. AuditedIsJustified'
    BY <2>1 DEF AuditedIsJustified, Justified
  <2>9. StagesFollow'
    BY <2>1 DEF StagesFollow, OwnVerdict, Candidate, PipelineNames, Approval
  <2> QED
    BY <2>5, <2>7, <2>8, <2>9
<1>7. CASE Audit
  <2>1. UNCHANGED <<scenario, step, experiments, patch, checks, claims, gate, missing, flow>>
    BY <1>7 DEF Audit
  <2>2. scenario \in Scenarios
    BY DEF StagesFollow
  <2> DEFINE k == Winner(scenario)
             c == scenario.candidates[k]
             verdict == Gate(c, Results(scenario, k), Primary(Experiments(scenario)) # {}, {},
                             RollbackVerified(c), Measured(scenario, k), AuditorNames,
                             AuditorApproval)
  <2>3. auditor' = verdict
    BY <1>7 DEF Audit, Experiments, Measured
  <2>4. verdict.release_ready => Justified(k)
    <3> HIDE DEF k
    <3> QED
      BY <2>2, ReleasedIsJustified, Approvals
  <2>5. AuditedIsJustified'
    <3>1. Justified(Winner(scenario))' <=> Justified(Winner(scenario))
      BY <2>1 DEF Justified
    <3> QED
      BY <2>3, <2>4, <3>1 DEF AuditedIsJustified
  <2>6. ReadyIsJustified' /\ FlowAgreesWithGate'
    BY <2>1 DEF ReadyIsJustified, FlowAgreesWithGate, Justified, Candidate
  <2>7. StagesFollow'
    BY <2>1 DEF StagesFollow, OwnVerdict, Candidate, PipelineNames, Approval
  <2> QED
    BY <2>5, <2>6, <2>7
<1>8. CASE UNCHANGED vars
  BY <1>8 DEF vars, StagesFollow, ReadyIsJustified, AuditedIsJustified, FlowAgreesWithGate,
              Justified, OwnVerdict, Candidate, PipelineNames, Approval
<1> QED
  BY <1>1, <1>2, <1>3, <1>4, <1>5, <1>6, <1>7, <1>8 DEF Next

(* What StagesFollow says holds in every reachable state. *)
THEOREM StagesInvariant == Spec => []IInv
  BY Start, StagesStep, PTL DEF Spec

(* orchestrator.py 416-475 and agent_steps.py 170-192: whatever the scenario *)
(* and the approval, a ready draft and an approval of the release auditor    *)
(* rest on a cause that nothing else explains, a healthy mandatory suite, a  *)
(* rollback that restores the baseline and, where one is needed, a person.   *)
THEOREM JustifiedReleases == Spec => []ReleasesAreJustified
<1>1. IInv => ReleasesAreJustified
  BY DEF IInv, ReleasesAreJustified
<1> QED
  BY <1>1, StagesInvariant, PTL

(* github_flow.py 196-428: whatever the scenario, the readiness and the      *)
(* checks payload that the external writer reads say of a release what the   *)
(* gate says.                                                                *)
THEOREM AgreeingFlow == Spec => []FlowAgreesWithGate
<1>1. IInv => FlowAgreesWithGate
  BY DEF IInv
<1> QED
  BY <1>1, StagesInvariant, PTL

-----------------------------------------------------------------------------
(* Choosing among finitely many. *)

(* Of finitely many elements one has none before it.                         *)
LEMMA FirstOfFinite ==
    ASSUME NEW D, IsFiniteSet(D), D # {}, NEW R,
           \A x \in D : <<x, x>> \notin R,
           \A x, y, z \in D : <<x, y>> \in R /\ <<y, z>> \in R => <<x, z>> \in R
    PROVE  \E x \in D : \A y \in D : <<y, x>> \notin R
<1> DEFINE Before(x) == {y \in D : <<y, x>> \in R}
           all == {Before(x) : x \in D}
<1>1. all \subseteq FiniteSubsetsOf(D) /\ all # {}
  <2>1. FiniteSubsetsOf(D) = SUBSET D
    BY FS_FiniteSubsetsOfFinite
  <2>2. all \subseteq SUBSET D
    OBVIOUS
  <2>3. all # {}
    <3>1. PICK x \in D : TRUE
      OBVIOUS
    <3>2. Before(x) \in all
      OBVIOUS
    <3> QED
      BY <3>2
  <2> HIDE DEF all
  <2> QED
    BY <2>1, <2>2, <2>3
<1>2. PICK least \in all : \A before \in all : <<before, least>> \notin StrictSubsetOrdering(D)
  <2>1. IsWellFoundedOn(StrictSubsetOrdering(D), FiniteSubsetsOf(D))
    BY FS_StrictSubsetOrderingWellFounded
  <2> HIDE DEF all
  <2> QED
    BY <1>1, <2>1, WFMin
<1>3. PICK x \in D : least = Before(x)
  OBVIOUS
<1>4. ASSUME NEW y \in D, <<y, x>> \in R
      PROVE  FALSE
  <2>1. Before(y) \subseteq Before(x) /\ y \in Before(x) /\ y \notin Before(y)
    BY <1>4
  <2>2. <<Before(y), least>> \in StrictSubsetOrdering(D)
    BY <1>3, <2>1 DEF StrictSubsetOrdering
  <2> QED
    BY <1>2, <2>2
<1> QED
  BY <1>4

(* The candidates and the variants are finite lists.                         *)
LEMMA Lists ==
    ASSUME NEW s \in Scenarios
    PROVE  /\ IsFiniteSet(DOMAIN s.candidates) /\ DOMAIN s.candidates # {}
           /\ DOMAIN s.candidates \subseteq Nat \ {0}
           /\ IsFiniteSet(DOMAIN Variants(s)) /\ DOMAIN Variants(s) \subseteq Nat
<1>1. PICK n \in Nat \ {0} : DOMAIN s.candidates = 1..n
  <2>1. IsList(s.candidates) /\ Len(s.candidates) > 0
    BY ScenarioAssumption
  <2>2. Len(s.candidates) \in Nat /\ DOMAIN s.candidates = 1..Len(s.candidates)
    BY <2>1, LenProperties DEF IsList
  <2> QED
    BY <2>1, <2>2
<1>2. PICK m \in Nat : DOMAIN Variants(s) = 1..m
  <2> DEFINE records == [name : STRING, mandatory : BOOLEAN]
             extras == [i \in DOMAIN Extras |-> [name |-> Extras[i], mandatory |-> TRUE]]
  <2>1. s.seeds \in Seq(records)
    BY ScenarioAssumption
  <2>2. extras \in Seq(records)
    <3>1. /\ Len(Extras) \in Nat /\ DOMAIN Extras = 1..Len(Extras)
          /\ \A i \in 1..Len(Extras) : Extras[i] \in STRING
      BY NamesAssumption, LenProperties, ElementOfSeq
    <3>2. extras \in [1..Len(Extras) -> records]
      BY <3>1
    <3> QED
      BY <3>1, <3>2, SeqDef
  <2>3. s.seeds \o extras \in Seq(records)
    <3> HIDE DEF extras, records
    <3> QED
      BY <2>1, <2>2, ConcatProperties
  <2>4. Variants(s) \in Seq(records)
    BY <2>3 DEF Variants
  <2> HIDE DEF records
  <2>5. Len(Variants(s)) \in Nat /\ DOMAIN Variants(s) = 1..Len(Variants(s))
    BY <2>4, LenProperties
  <2> QED
    BY <2>5
<1>3. 1..n \subseteq Nat \ {0} /\ 1..m \subseteq Nat
  OBVIOUS
<1>4. IsFiniteSet(1..n) /\ IsFiniteSet(1..m)
  BY FS_Interval
<1>5. 1 \in 1..n
  OBVIOUS
<1> QED
  BY <1>1, <1>2, <1>3, <1>4, <1>5

(* The selected candidate ranks before all others.                           *)
LEMMA WinnerRanksFirst ==
    ASSUME NEW s \in Scenarios
    PROVE  /\ Winner(s) \in DOMAIN s.candidates
           /\ \A l \in DOMAIN s.candidates \ {Winner(s)} : RanksBefore(s, Winner(s), l)
<1> DEFINE D == DOMAIN s.candidates
           eligible == [k \in D |-> AllMandatoryHealthy(Results(s, k))]
           score == [k \in D |-> s.candidates[k].score]
           R == {e \in D \X D : RanksBefore(s, e[1], e[2])}
<1>1. IsFiniteSet(D) /\ D # {} /\ D \subseteq Nat
  BY Lists
<1>2. eligible \in [D -> BOOLEAN] /\ score \in [D -> Int]
  BY ScenarioAssumption DEF AllMandatoryHealthy
<1>3. \A k, l \in D : RanksBefore(s, k, l) <=>
                        IF eligible[k] # eligible[l] THEN eligible[k]
                        ELSE (score[k] > score[l] \/ (score[k] = score[l] /\ k < l))
  BY DEF RanksBefore
<1>4. \A k, l \in D : <<k, l>> \in R <=> RanksBefore(s, k, l)
  OBVIOUS
<1> HIDE DEF D, eligible, score, R
<1>5. PICK k \in D : \A l \in D : <<l, k>> \notin R
  <2>1. \A x \in D : <<x, x>> \notin R
    BY <1>1, <1>2, <1>3, <1>4
  <2>2. \A x, y, z \in D : <<x, y>> \in R /\ <<y, z>> \in R => <<x, z>> \in R
    BY <1>1, <1>2, <1>3, <1>4
  <2> QED
    BY <1>1, <2>1, <2>2, FirstOfFinite
<1>6. ASSUME NEW l \in D \ {k}
      PROVE  RanksBefore(s, k, l)
  <2>1. ~RanksBefore(s, l, k)
    BY <1>4, <1>5
  <2>2. ~IF eligible[l] # eligible[k] THEN eligible[l]
         ELSE (score[l] > score[k] \/ (score[l] = score[k] /\ l < k))
    BY <1>3, <2>1
  <2>3. /\ eligible[k] \in BOOLEAN /\ eligible[l] \in BOOLEAN
        /\ score[k] \in Int /\ score[l] \in Int /\ k \in Nat /\ l \in Nat /\ k # l
    BY <1>1, <1>2
  <2>4. IF eligible[k] # eligible[l] THEN eligible[k]
        ELSE (score[k] > score[l] \/ (score[k] = score[l] /\ k < l))
    BY <2>2, <2>3
  <2> QED
    BY <1>3, <2>4
<1> QED
  BY <1>6 DEF Winner, D

(* Every name has a last result.                                             *)
LEMMA LastResultExists ==
    ASSUME NEW s \in Scenarios, NEW k, NEW i \in DOMAIN Variants(s)
    PROVE  LET name == Results(s, k)[i].name
           IN LastResult(Results(s, k), name) \in DOMAIN Variants(s)
<1> DEFINE outcomes == Results(s, k)
           name == outcomes[i].name
           D == {j \in DOMAIN outcomes : outcomes[j].name = name}
           R == {e \in Nat \X Nat : e[1] > e[2]}
<1>1. DOMAIN outcomes = DOMAIN Variants(s)
  BY DEF Results
<1>2. IsFiniteSet(D) /\ i \in D /\ D \subseteq Nat
  <2>1. IsFiniteSet(DOMAIN outcomes) /\ DOMAIN outcomes \subseteq Nat
    BY <1>1, Lists
  <2>2. D \in SUBSET DOMAIN outcomes
    OBVIOUS
  <2> QED
    BY <1>1, <2>1, <2>2, FS_Subset
<1>3. PICK j \in D : \A l \in D : <<l, j>> \notin R
  <2>1. \A x \in D : <<x, x>> \notin R
    BY <1>2
  <2>2. \A x, y, z \in D : <<x, y>> \in R /\ <<y, z>> \in R => <<x, z>> \in R
    BY <1>2
  <2> HIDE DEF D, R
  <2> QED
    BY <1>2, <2>1, <2>2, FirstOfFinite
<1>4. ASSUME NEW l \in D
      PROVE  l <= j
  <2>1. l \in Nat /\ j \in Nat /\ ~(l > j)
    BY <1>2, <1>3
  <2> QED
    BY <2>1
<1>5. outcomes[j].name = name /\ \A l \in DOMAIN outcomes : outcomes[l].name = name => l <= j
  BY <1>3, <1>4
<1> HIDE DEF outcomes
<1> QED
  BY <1>1, <1>3, <1>5 DEF LastResult, outcomes

-----------------------------------------------------------------------------
(* The two paths. *)

(* The quality gate opens when nothing it looks at is missing.               *)
LEMMA NothingBlocks ==
    ASSUME NEW c, NEW outcomes, NEW proven, NEW gaps, NEW verified, NEW done, NEW names,
           proven, names # {}, Unhealthy(outcomes, names) = {}, gaps = {}, c.text, verified,
           \E n \in DOMAIN done : done[n].required,
           \A n \in DOMAIN done : ~CheckFails(done[n])
    PROVE  QualityBlockers(c, outcomes, proven, gaps, verified, done, names) = {}
  BY DEF QualityBlockers

OptionalFailureOf(s, k) ==
    \E i \in DOMAIN Results(s, k) : ~Results(s, k)[i].mandatory /\ ~Results(s, k)[i].healthy

(* What both quality gates come down to.                                     *)
Good(s, k) ==
    /\ Primary(Experiments(s)) # {}
    /\ AllMandatoryHealthy(Results(s, k))
    /\ RollbackVerified(s.candidates[k])

(* The claims add nothing to the measurements.                               *)
LEMMA GoodHasNoClaims ==
    ASSUME NEW s, NEW k, Good(s, k)
    PROVE  MissingClaims(s, Experiments(s), k) = {}
<1>1. Primary(Experiments(s)) # {}
  BY DEF Good
<1>2. \A i \in DOMAIN Variants(s) : Results(s, k)[i].mandatory => Results(s, k)[i].healthy
  BY DEF Good, AllMandatoryHealthy, Results
<1>3. s.candidates[k].text /\ s.candidates[k].reverse
  BY DEF Good, RollbackVerified
<1> QED
  BY <1>1, <1>2, <1>3 DEF MissingClaims

(* The quality gate opens for a good candidate only, and for a good one with *)
(* no optional failure it does, whichever names of variants it looks at.     *)
LEMMA QualityIsGood ==
    ASSUME NEW s \in Scenarios, NEW k, ~OptionalFailureOf(s, k), NEW gaps, NEW names,
           Good(s, k) => gaps = {},
           names \subseteq {Variants(s)[i].name : i \in DOMAIN Variants(s)},
           {Variants(s)[i].name : i \in {j \in DOMAIN Variants(s) : Variants(s)[j].mandatory}}
             \subseteq names
    PROVE  QualityBlockers(s.candidates[k], Results(s, k), Primary(Experiments(s)) # {}, gaps,
                           RollbackVerified(s.candidates[k]), Measured(s, k), names) = {}
             <=> Good(s, k)
<1> DEFINE c == s.candidates[k]
           outcomes == Results(s, k)
           proven == Primary(Experiments(s)) # {}
           verified == RollbackVerified(c)
           done == Measured(s, k)
           quality == QualityBlockers(c, outcomes, proven, gaps, verified, done, names)
<1>1. /\ DOMAIN done = {"replay", "suite", "rollback"}
      /\ \A n \in DOMAIN done : done[n].required
      /\ ~CheckFails(done["replay"]) <=> proven
      /\ ~CheckFails(done["suite"]) <=> AllMandatoryHealthy(outcomes)
      /\ ~CheckFails(done["rollback"]) <=> verified
  BY MeasuredChecks
<1>2. ASSUME quality = {}
      PROVE  Good(s, k)
  <2>1. proven /\ verified /\ \A n \in DOMAIN done : done[n].required => ~CheckFails(done[n])
    <3> HIDE DEF proven, verified, done, c, outcomes
    <3> QED
      BY <1>2, OpenGate
  <2>2. AllMandatoryHealthy(outcomes)
    BY <1>1, <2>1
  <2> QED
    BY <2>1, <2>2 DEF Good
<1>3. ASSUME Good(s, k)
      PROVE  quality = {}
  <2>1. proven /\ AllMandatoryHealthy(outcomes) /\ verified
    BY <1>3 DEF Good
  <2>2. /\ DOMAIN outcomes = DOMAIN Variants(s)
        /\ \A i \in DOMAIN Variants(s) : /\ outcomes[i].name = Variants(s)[i].name
                                          /\ outcomes[i].mandatory = Variants(s)[i].mandatory
    BY DEF Results
  <2>3. names # {}
    <3>1. PICK i \in DOMAIN Variants(s) : Variants(s)[i].mandatory
      BY <2>1, <2>2 DEF AllMandatoryHealthy
    <3> QED
      BY <3>1
  <2>4. \A i \in DOMAIN Variants(s) : outcomes[i].healthy
    BY <2>1, <2>2 DEF AllMandatoryHealthy, OptionalFailureOf
  <2>5. Unhealthy(outcomes, names) = {}
    <3> SUFFICES ASSUME NEW n \in names
                 PROVE  outcomes[LastResult(outcomes, n)].healthy
      BY DEF Unhealthy
    <3>1. PICK i \in DOMAIN Variants(s) : n = outcomes[i].name
      BY <2>2
    <3>2. LastResult(outcomes, n) \in DOMAIN Variants(s)
      BY <3>1, LastResultExists
    <3> QED
      BY <2>4, <3>2
  <2>6. c.text
    BY <2>1 DEF RollbackVerified
  <2>7. /\ \E n \in DOMAIN done : done[n].required
        /\ \A n \in DOMAIN done : ~CheckFails(done[n])
    BY <1>1, <2>1
  <2> HIDE DEF proven, verified, done, c, outcomes
  <2> QED
    BY <1>3, <2>1, <2>3, <2>5, <2>6, <2>7, NothingBlocks
<1> QED
  BY <1>2, <1>3

(* A decision, from the quality gate and the person.                         *)
LEMMA Decision ==
    ASSUME NEW c, NEW outcomes, NEW proven, NEW gaps, NEW verified, NEW done, NEW names,
           NEW approval
    PROVE  Gate(c, outcomes, proven, gaps, verified, done, names, approval).decision =
             IF QualityBlockers(c, outcomes, proven, gaps, verified, done, names) # {}
             THEN "blocked-quality-gate"
             ELSE IF RequiresHuman(c) /\ ~HumanApprovalReady(approval)
                  THEN "blocked-awaiting-human" ELSE "approved"
  BY DEF Gate

(* Whoever the command line names, both records of the approval are ready or *)
(* neither is.                                                               *)
LEMMA SameApproval ==
    ASSUME scenario \in Scenarios
    PROVE  HumanApprovalReady(Approval) <=> HumanApprovalReady(AuditorApproval)
  BY ScenarioAssumption DEF HumanApprovalReady, Approval, AuditorApproval

(* The verdict of the release auditor's worker.                              *)
AuditorVerdict ==
    LET k == Winner(scenario)
        c == scenario.candidates[k]
    IN Gate(c, Results(scenario, k), Primary(Experiments(scenario)) # {}, {},
            RollbackVerified(c), Measured(scenario, k), AuditorNames, AuditorApproval)

(* The pipeline and the auditor look at the candidate that wins, the claims  *)
(* are this scenario's and patch's, and a verdict is what its path computes. *)
PathsFollow ==
    /\ patch = IF step \in Ranked \ {"rank"} THEN Winner(scenario) ELSE 0
    /\ step \in Checked => claims = MissingClaims(scenario, Experiments(scenario), patch)
    /\ gate # None => step \in Gated
    /\ auditor # None => auditor = AuditorVerdict

LEMMA PathsStart == Init => PathsFollow
  BY DEF Init, PathsFollow, Ranked, Checked, Gated

(* Each stage, the auditor at any moment, and a stutter keep it.             *)
LEMMA PathsStep == IInv /\ PathsFollow /\ [Next]_vars => PathsFollow'
<1> SUFFICES ASSUME IInv, PathsFollow, [Next]_vars
             PROVE  PathsFollow'
  OBVIOUS
<1> USE DEF IInv, StagesFollow, PathsFollow, Ranked, Checked, Gated, AuditorVerdict,
            AuditorNames, AuditorApproval
<1>1. CASE Replay
  BY <1>1 DEF Replay, Advance
<1>2. CASE Rank
  BY <1>2 DEF Rank, Advance
<1>3. CASE CheckPatch
  BY <1>3 DEF CheckPatch, Advance
<1>4. CASE EvaluateGate
  BY <1>4 DEF EvaluateGate, Advance
<1>5. CASE BuildPassport
  BY <1>5 DEF BuildPassport, Advance
<1>6. CASE WriteFlow
  BY <1>6 DEF WriteFlow, Advance
<1>7. CASE Audit
  BY <1>7 DEF Audit, Experiments, Measured
<1>8. CASE UNCHANGED vars
  BY <1>8 DEF vars
<1> QED
  BY <1>1, <1>2, <1>3, <1>4, <1>5, <1>6, <1>7, <1>8 DEF Next

(* What PathsFollow says holds in every reachable state.                     *)
LEMMA PathsInvariant == Spec => [](IInv /\ PathsFollow)
  BY Start, StagesStep, PathsStart, PathsStep, PTL DEF Spec

(* orchestrator.py 416-475 and agent_steps.py 170-192: unless an optional    *)
(* variant fails, the pipeline and the release auditor reach one decision,   *)
(* though only one collects claims, they name different variants mandatory   *)
(* and each writes the approval down in its own way.                         *)
THEOREM AgreeingPaths == Spec => []PathsAgree
<1>1. ASSUME IInv, PathsFollow, gate # None, auditor # None, ~OptionalFailure
      PROVE  auditor.decision = gate.decision
  <2>1. scenario \in Scenarios /\ step \in Gated
    BY <1>1 DEF IInv, StagesFollow, PathsFollow
  <2>2. /\ patch = Winner(scenario)
        /\ claims = MissingClaims(scenario, Experiments(scenario), patch)
        /\ gate = OwnVerdict
        /\ auditor = AuditorVerdict
    BY <1>1, <2>1 DEF IInv, StagesFollow, PathsFollow, Gated, Checked, Ranked
  <2>3. ~OptionalFailureOf(scenario, patch)
    BY <1>1 DEF OptionalFailure, OptionalFailureOf
  <2> DEFINE outcomes == Results(scenario, patch)
             proven == Primary(Experiments(scenario)) # {}
             verified == RollbackVerified(Candidate)
             done == Measured(scenario, patch)
             Quality(gaps, names) ==
               QualityBlockers(Candidate, outcomes, proven, gaps, verified, done, names)
  <2>4. Quality(claims, PipelineNames) = {} <=> Good(scenario, patch)
    <3>1. Good(scenario, patch) => claims = {}
      BY <2>2, GoodHasNoClaims
    <3>2. PipelineNames \subseteq {Variants(scenario)[i].name : i \in DOMAIN Variants(scenario)}
      BY DEF PipelineNames
    <3>3. {Variants(scenario)[i].name :
             i \in {j \in DOMAIN Variants(scenario) : Variants(scenario)[j].mandatory}}
            \subseteq PipelineNames
      BY DEF PipelineNames
    <3> QED
      BY <2>1, <2>3, <3>1, <3>2, <3>3, QualityIsGood DEF Candidate
  <2>5. Quality({}, AuditorNames) = {} <=> Good(scenario, patch)
    <3>1. AuditorNames \subseteq {Variants(scenario)[i].name : i \in DOMAIN Variants(scenario)}
      BY DEF AuditorNames
    <3>2. {Variants(scenario)[i].name :
             i \in {j \in DOMAIN Variants(scenario) : Variants(scenario)[j].mandatory}}
            \subseteq AuditorNames
      BY DEF AuditorNames
    <3> QED
      BY <2>1, <2>3, <3>1, <3>2, QualityIsGood DEF Candidate
  <2>6. gate.decision = IF Quality(claims, PipelineNames) # {} THEN "blocked-quality-gate"
                        ELSE IF RequiresHuman(Candidate) /\ ~HumanApprovalReady(Approval)
                             THEN "blocked-awaiting-human" ELSE "approved"
    BY <2>2, Decision DEF OwnVerdict
  <2>7. auditor.decision = IF Quality({}, AuditorNames) # {} THEN "blocked-quality-gate"
                           ELSE IF RequiresHuman(Candidate) /\ ~HumanApprovalReady(AuditorApproval)
                                THEN "blocked-awaiting-human" ELSE "approved"
    BY <2>2, Decision DEF AuditorVerdict, Candidate
  <2> HIDE DEF Quality
  <2> QED
    BY <2>1, <2>4, <2>5, <2>6, <2>7, SameApproval
<1>2. IInv /\ PathsFollow => PathsAgree
  BY <1>1 DEF PathsAgree
<1> QED
  BY <1>2, PathsInvariant, PTL

(* patch_tournament.py 60-63: of any number of candidates the one selected   *)
(* passes the mandatory suite if one does, and then has the best score of    *)
(* those that pass.                                                          *)
THEOREM BestCandidateWins == Spec => []BestEligibleWins
<1>1. ASSUME IInv, PathsFollow, patch # 0,
             NEW eligible, eligible = {k \in DOMAIN scenario.candidates :
                                         AllMandatoryHealthy(Results(scenario, k))},
             eligible # {}
      PROVE  /\ patch \in eligible
             /\ \A k \in eligible : scenario.candidates[k].score <= Candidate.score
  <2>1. scenario \in Scenarios /\ patch = Winner(scenario)
    BY <1>1 DEF IInv, StagesFollow, PathsFollow
  <2>2. /\ patch \in DOMAIN scenario.candidates
        /\ \A l \in DOMAIN scenario.candidates \ {patch} : RanksBefore(scenario, patch, l)
    BY <2>1, WinnerRanksFirst
  <2>3. patch \in eligible
    BY <1>1, <2>2 DEF RanksBefore, AllMandatoryHealthy
  <2>4. ASSUME NEW k \in eligible
        PROVE  scenario.candidates[k].score <= scenario.candidates[patch].score
    <3>1. scenario.candidates[k].score \in Int /\ scenario.candidates[patch].score \in Int
      BY <1>1, <2>1, <2>2, ScenarioAssumption
    <3>2. k # patch => /\ RanksBefore(scenario, patch, k)
                       /\ AllMandatoryHealthy(Results(scenario, patch)) =
                            AllMandatoryHealthy(Results(scenario, k))
      BY <1>1, <2>2, <2>3 DEF AllMandatoryHealthy
    <3> QED
      BY <3>1, <3>2 DEF RanksBefore
  <2> QED
    BY <2>3, <2>4 DEF Candidate
<1>2. IInv /\ PathsFollow => BestEligibleWins
  BY <1>1 DEF BestEligibleWins
<1> QED
  BY <1>2, PathsInvariant, PTL

-----------------------------------------------------------------------------
(* Incidents the simulator computes. *)

LEMMA MaxOfTwo ==
    ASSUME NEW a \in Int, NEW b \in Int
    PROVE  Max({a, b}) = IF a >= b THEN a ELSE b
<1>1. \E x \in {a, b} : \A y \in {a, b} : x >= y
  OBVIOUS
<1> QED
  BY <1>1 DEF Max

LEMMA MinOfTwo ==
    ASSUME NEW a \in Int, NEW b \in Int
    PROVE  Min({a, b}) = IF a <= b THEN a ELSE b
<1>1. \E x \in {a, b} : \A y \in {a, b} : x <= y
  OBVIOUS
<1> QED
  BY <1>1 DEF Min

(* Products grow with their factors.                                         *)
LEMMA Products ==
    ASSUME NEW a \in Int, NEW b \in Int, a <= b, NEW n \in Nat
    PROVE  n * a <= n * b /\ n * a \in Int /\ n * b \in Int
<1>1. PICK k \in Nat : b = a + k
  <2>1. b - a \in Nat /\ b = a + (b - a)
    OBVIOUS
  <2> QED
    BY <2>1
<1>2. n * k \in Nat /\ n * b = n * a + n * k
  BY <1>1
<1> QED
  BY <1>2

(* The part of a demand that a pool cannot serve falls with the demand, and  *)
(* so does its share.                                                        *)
LEMMA SharesFall ==
    ASSUME NEW small \in Nat, NEW large \in Nat, small <= large,
           NEW few \in Nat, NEW many \in Nat, few = many \/ small <= 1000 * few,
           NEW room \in Int, room <= 18000,
           NEW over \in Int, over = IF 0 >= large - 1000 * many THEN 0 ELSE large - 1000 * many,
           NEW left \in Int, left = IF 0 >= small - 1000 * few THEN 0 ELSE small - 1000 * few,
           100 * over <= 8 * large, 18000 * over <= room * large
    PROVE  100 * left <= 8 * small /\ 18000 * left <= room * small
<1>1. CASE small = 0
  BY <1>1
<1>2. CASE small > 0 /\ small <= 1000 * few
  <2>1. left = 0
    BY <1>2
  <2>2. ~(room < 0)
    <3>1. SUFFICES ASSUME room < 0
                   PROVE  FALSE
      OBVIOUS
    <3>2. large * room <= large * (-1)
      BY <3>1, Products
    <3>3. room * large = large * room /\ large * (-1) = -large
      OBVIOUS
    <3> QED
      BY <1>2, <3>2, <3>3
  <2>3. small * 0 <= small * room /\ small * 0 = 0 /\ room * small = small * room
    BY <2>2, Products
  <2> QED
    BY <2>1, <2>3
<1>3. CASE small > 1000 * few
  <2>1. few = many /\ left = small - 1000 * many /\ over = large - 1000 * many
    BY <1>3
  <2>2. PICK n \in Nat : n = 18000 - room
    OBVIOUS
  <2>3. n * small <= n * large
    BY Products
  <2>4. n * small = 18000 * small - room * small /\ n * large = 18000 * large - room * large
    BY <2>2
  <2>5. room * small \in Int /\ room * large \in Int
    OBVIOUS
  <2> QED
    BY <2>1, <2>3, <2>4, <2>5
<1> QED
  BY <1>1, <1>2, <1>3

(* A service that is healthy is so with less traffic, though an adaptive     *)
(* pool then grows less.                                                     *)
LEMMA HealthyBelow ==
    ASSUME NEW s \in States, NEW r \in States,
           r.pool = s.pool, r.dependency = s.dependency, r.code = s.code,
           r.adaptive = s.adaptive, r.traffic <= s.traffic, Healthy(s)
    PROVE  Healthy(r)
<1>1. PICK l \in Nat : l = Latency(s) /\ l = Latency(r)
  <2>1. s.dependency * s.code \in Nat /\ r.dependency * r.code = s.dependency * s.code
    BY DEF States
  <2> QED
    BY <2>1 DEF Latency
<1>2. PICK large \in Nat : large = Demand(s)
  <2>1. s.traffic * l \in Nat
    BY DEF States
  <2> QED
    BY <1>1, <2>1 DEF Demand
<1>3. PICK small \in Nat : small = Demand(r) /\ small <= large
  <2>1. r.traffic \in Nat /\ s.traffic \in Nat
    BY DEF States
  <2>2. r.traffic * l \in Nat /\ r.traffic * l = l * r.traffic /\ s.traffic * l = l * s.traffic
    BY <2>1
  <2>3. l * r.traffic <= l * s.traffic
    BY <2>1, Products
  <2> QED
    BY <1>1, <1>2, <2>2, <2>3 DEF Demand
<1>4. PICK many \in Nat, few \in Nat :
        /\ many = EffectivePool(s) /\ few = EffectivePool(r)
        /\ few = many \/ small <= 1000 * few
  <2>1. s.pool \in Nat /\ r.pool = s.pool /\ r.adaptive = s.adaptive
    BY DEF States
  <2>2. CASE ~s.adaptive
    BY <2>1, <2>2 DEF EffectivePool
  <2>3. CASE s.adaptive
    <3>0. PICK n \in Nat : n = s.pool
      BY <2>1
    <3>1. PICK q \in Nat : q = CeilDiv(large, 1000)
      BY DEF CeilDiv
    <3>2. PICK p \in Nat : p = CeilDiv(small, 1000)
      BY DEF CeilDiv
    <3>3. p <= q /\ small <= 1000 * p
      BY <1>3, <3>1, <3>2 DEF CeilDiv
    <3>4. PICK x \in Nat : x = Min({q, 32}) /\ x = IF q <= 32 THEN q ELSE 32
      BY MinOfTwo
    <3>5. PICK y \in Nat : y = Min({p, 32}) /\ y = IF p <= 32 THEN p ELSE 32
      BY MinOfTwo
    <3>6. PICK many \in Nat : many = Max({n, x}) /\ many = IF n >= x THEN n ELSE x
      BY MaxOfTwo
    <3>7. PICK few \in Nat : few = Max({n, y}) /\ few = IF n >= y THEN n ELSE y
      BY MaxOfTwo
    <3>8. many = EffectivePool(s) /\ few = EffectivePool(r)
      BY <1>2, <1>3, <2>1, <2>3, <3>0, <3>1, <3>2, <3>4, <3>5, <3>6, <3>7 DEF EffectivePool
    <3>9. few = many \/ small <= 1000 * few
      <4>1. CASE p <= 32
        <5>1. y = p
          BY <3>5, <4>1
        <5>2. few \in {n, y} /\ few >= y
          BY <3>7
        <5> QED
          BY <3>3, <5>1, <5>2
      <4>2. CASE p > 32
        <5>1. q > 32
          BY <3>3, <4>2
        <5>2. x = 32
          BY <3>4, <5>1
        <5>3. y = 32
          BY <3>5, <4>2
        <5> QED
          BY <3>6, <3>7, <5>2, <5>3
      <4> QED
        BY <4>1, <4>2
    <3> QED
      BY <3>8, <3>9
  <2> QED
    BY <2>1, <2>2, <2>3
<1>5. PICK over \in Int : /\ over = Failed(s)
                          /\ over = IF 0 >= large - 1000 * many THEN 0 ELSE large - 1000 * many
  BY <1>2, <1>4, MaxOfTwo DEF Failed
<1>6. PICK left \in Int : /\ left = Failed(r)
                          /\ left = IF 0 >= small - 1000 * few THEN 0 ELSE small - 1000 * few
  BY <1>3, <1>4, MaxOfTwo DEF Failed
<1>7. PICK room \in Int : room = 3800 - 9 * l /\ room <= 18000
  OBVIOUS
<1>8. 100 * over <= 8 * large /\ 18000 * over <= room * large
  BY <1>1, <1>2, <1>5, <1>7 DEF Healthy
<1>9. 100 * left <= 8 * small /\ 18000 * left <= room * small
  BY <1>3, <1>4, <1>5, <1>6, <1>7, <1>8, SharesFall
<1> QED
  BY <1>1, <1>3, <1>6, <1>7, <1>9 DEF Healthy

(* The recovery spike is among the mandatory variants of every incident.     *)
LEMMA SpikeIsMandatory ==
    ASSUME NEW s \in Scenarios, NEW k \in DOMAIN s.candidates,
           AllMandatoryHealthy(Results(s, k))
    PROVE  LET n == Len(s.seeds) + 2
           IN /\ n \in Nat /\ s.candidates[k].healthy[n]
              /\ DOMAIN s.candidates[k].healthy = 1..(Len(s.seeds) + 4)
<1> DEFINE records == [name : STRING, mandatory : BOOLEAN]
           extras == [i \in DOMAIN Extras |-> [name |-> Extras[i], mandatory |-> TRUE]]
<1>1. PICK m \in Nat : m = Len(s.seeds) /\ s.seeds \in Seq(records)
  BY ScenarioAssumption, LenProperties
<1>2. Len(Extras) = 4 /\ DOMAIN Extras = 1..4
  BY ExtrasAssumption DEF GeneratedNames
<1>3. extras \in Seq(records) /\ Len(extras) = 4 /\ extras[2].mandatory
  <2>1. \A i \in 1..4 : Extras[i] \in STRING
    BY <1>2, NamesAssumption, ElementOfSeq
  <2>2. extras \in [1..4 -> records]
    BY <1>2, <2>1
  <2>3. extras \in Seq(records)
    BY <2>2, SeqDef
  <2>4. DOMAIN extras = 1..4
    BY <1>2
  <2>5. Len(extras) = 4
    BY <2>3, <2>4, LenProperties
  <2> QED
    BY <1>2, <2>3, <2>5
<1> HIDE DEF records, extras
<1>4. PICK own \in Seq(records), more \in Seq(records) : own = s.seeds /\ more = extras
  BY <1>1, <1>3
<1>5. PICK all \in Seq(records) :
        /\ all = own \o more /\ Len(all) = m + 4
        /\ \A i \in 1..(m + 4) : all[i] = IF i <= m THEN own[i] ELSE more[i - m]
  <2>1. Len(own) = m /\ Len(more) = 4
    BY <1>1, <1>3, <1>4
  <2>2. /\ own \o more \in Seq(records) /\ Len(own \o more) = Len(own) + Len(more)
        /\ \A i \in 1..(Len(own) + Len(more)) :
              (own \o more)[i] = IF i <= Len(own) THEN own[i] ELSE more[i - Len(own)]
    BY ConcatProperties
  <2> QED
    BY <2>1, <2>2
<1>6. Variants(s) = all
  BY <1>4, <1>5 DEF Variants, extras
<1>7. m + 2 \in DOMAIN all /\ all[m + 2].mandatory
  <2>1. m + 2 \in 1..(m + 4) /\ ~(m + 2 <= m) /\ (m + 2) - m = 2
    OBVIOUS
  <2>2. all[m + 2] = more[2]
    BY <1>5, <2>1
  <2>3. DOMAIN all = 1..(m + 4)
    BY <1>5, LenProperties
  <2> QED
    BY <1>3, <1>4, <2>1, <2>2, <2>3
<1>8. Results(s, k)[m + 2].mandatory /\ Results(s, k)[m + 2].healthy = s.candidates[k].healthy[m + 2]
      /\ m + 2 \in DOMAIN Results(s, k)
  BY <1>6, <1>7 DEF Results
<1>9. DOMAIN s.candidates[k].healthy = 1..(m + 4)
  BY <1>1, <1>2, ScenarioAssumption
<1> QED
  BY <1>1, <1>8, <1>9 DEF AllMandatoryHealthy

(* An incident's service and candidates.                                     *)
LEMMA SimulatedParts ==
    ASSUME NEW s \in Scenarios
    PROVE  \E b \in Baselines, patches \in PatchLists :
              /\ s.baseline = b /\ b \in States
              /\ s.seeds = [i \in DOMAIN SeedsOf(b) |->
                    [name |-> SeedsOf(b)[i].name, mandatory |-> SeedsOf(b)[i].mandatory]]
              /\ s.candidates = [k \in DOMAIN patches |-> Scored(b, patches[k])]
              /\ \A k \in DOMAIN patches : Evolve(b, patches[k].patch) \in States
<1>1. PICK b \in Baselines, of \in Assignments, patches \in PatchLists,
           approval \in CommandLines :
             s = Simulated(b, of, patches, approval)
  BY SimulatedAssumption DEF Simulations
<1>2. /\ s.baseline = b
      /\ s.seeds = [i \in DOMAIN SeedsOf(b) |->
            [name |-> SeedsOf(b)[i].name, mandatory |-> SeedsOf(b)[i].mandatory]]
      /\ s.candidates = [k \in DOMAIN patches |-> Scored(b, patches[k])]
  BY <1>1 DEF Simulated
<1>3. b \in States /\ \A k \in DOMAIN patches : Evolve(b, patches[k].patch) \in States
  BY SimulatedAssumption
<1> QED
  BY <1>2, <1>3

(* The recovery spike's changes are in their place in the suite.             *)
LEMMA SpikeInSuite ==
    ASSUME NEW s \in Scenarios, NEW b,
           s.seeds = [i \in DOMAIN SeedsOf(b) |->
             [name |-> SeedsOf(b)[i].name, mandatory |-> SeedsOf(b)[i].mandatory]]
    PROVE  Suite(b)[Len(s.seeds) + 2] = Generated(b)[2]
<1>1. PICK m \in Nat : m = Len(s.seeds) /\ DOMAIN s.seeds = 1..m
  BY ScenarioAssumption, LenProperties
<1>2. DOMAIN SeedsOf(b) = 1..m
  BY <1>1
<1>3. PICK S : S = {SeedsOf(b)[i].changes : i \in 1..m} \cup {Generated(b)[i] : i \in 1..4}
  OBVIOUS
<1>4. PICK own \in Seq(S) : own = [i \in DOMAIN SeedsOf(b) |-> SeedsOf(b)[i].changes] /\ Len(own) = m
  <2>1. PICK own : own = [i \in DOMAIN SeedsOf(b) |-> SeedsOf(b)[i].changes]
    OBVIOUS
  <2>2. own \in [1..m -> S]
    BY <1>2, <1>3, <2>1
  <2>3. own \in Seq(S) /\ DOMAIN own = 1..m
    BY <2>2, SeqDef
  <2>4. PICK q \in Nat : q = Len(own) /\ DOMAIN own = 1..q
    BY <2>3, LenProperties
  <2>5. q = m
    <3>1. CASE q < m
      <4>1. m \in 1..m /\ m \notin 1..q
        BY <3>1
      <4> QED
        BY <2>3, <2>4, <4>1
    <3>2. CASE m < q
      <4>1. q \in 1..q /\ q \notin 1..m
        BY <3>2
      <4> QED
        BY <2>3, <2>4, <4>1
    <3> QED
      BY <3>1, <3>2
  <2> QED
    BY <2>1, <2>3, <2>4, <2>5
<1>5. PICK more \in Seq(S) : more = Generated(b) /\ Len(more) = 4
  <2>1. PICK more : more = Generated(b)
    OBVIOUS
  <2>2. Len(more) = 4 /\ DOMAIN more = 1..4 /\ more = [i \in 1..4 |-> more[i]]
    BY <2>1 DEF Generated
  <2>3. more \in [1..4 -> S]
    BY <1>3, <2>1, <2>2
  <2>4. more \in Seq(S)
    BY <2>3, SeqDef
  <2> QED
    BY <2>1, <2>2, <2>4
<1>6. m + 2 \in 1..(Len(own) + Len(more)) /\ ~(m + 2 <= m) /\ (m + 2) - m = 2
  BY <1>4, <1>5
<1>7. (own \o more)[m + 2] = more[2]
  <2>1. (own \o more)[m + 2] = IF m + 2 <= Len(own) THEN own[m + 2] ELSE more[(m + 2) - Len(own)]
    BY <1>6, ConcatProperties
  <2> QED
    BY <1>4, <1>6, <2>1
<1> QED
  BY <1>1, <1>4, <1>5, <1>7 DEF Suite

(* A patch that leaves the traffic alone meets the spike's.                  *)
LEMMA PatchedSpike ==
    ASSUME NEW b \in States, NEW c, "traffic" \notin DOMAIN c, Evolve(b, c) \in States
    PROVE  /\ Patched(b, Generated(b)[2], c) \in States
           /\ Patched(b, Generated(b)[2], c).traffic = (b.traffic * 148) \div 100
           /\ Evolve(b, c).traffic = b.traffic
           /\ \A f \in {"pool", "dependency", "code", "adaptive"} :
                 Patched(b, Generated(b)[2], c)[f] = Evolve(b, c)[f]
<1>1. PICK n \in Nat : n = (b.traffic * 148) \div 100
  <2>1. b.traffic \in Nat
    BY DEF States
  <2>2. (b.traffic * 148) \div 100 \in Nat
    BY <2>1
  <2> QED
    BY <2>2
<1>2. PICK v : v = Generated(b)[2] /\ v = [traffic |-> n, dependency |-> b.dependency]
  BY <1>1 DEF Generated
<1>3. DOMAIN b = {"traffic", "pool", "dependency", "code", "version", "adaptive"}
  BY DEF States
<1>4. PICK d : d = Evolve(b, v)
  OBVIOUS
<1>5. /\ DOMAIN d = DOMAIN b /\ d.traffic = n
      /\ \A f \in DOMAIN b \ {"traffic"} : d[f] = b[f]
  BY <1>2, <1>3, <1>4 DEF Evolve
<1>6. PICK p : p = Evolve(d, c) /\ p = Patched(b, Generated(b)[2], c)
  BY <1>2, <1>4 DEF Patched
<1>7. PICK a \in States : a = Evolve(b, c)
  OBVIOUS
<1>8. /\ p = [f \in DOMAIN b |-> IF f \in DOMAIN c THEN c[f] ELSE d[f]]
      /\ a = [f \in DOMAIN b |-> IF f \in DOMAIN c THEN c[f] ELSE b[f]]
  BY <1>5, <1>6, <1>7 DEF Evolve
<1>9. p.traffic = n /\ a.traffic = b.traffic /\ \A f \in DOMAIN b \ {"traffic"} : p[f] = a[f]
  BY <1>3, <1>5, <1>8
<1>10. p = [a EXCEPT !.traffic = n]
  BY <1>3, <1>8, <1>9 DEF States
<1>11. p \in States
  BY <1>1, <1>10 DEF States
<1> QED
  BY <1>1, <1>3, <1>6, <1>7, <1>9, <1>11

(* No patch claims to change the traffic.                                    *)
KeepsTraffic ==
    \A patches \in PatchLists : \A k \in DOMAIN patches : "traffic" \notin DOMAIN patches[k].patch

(* A patch that is healthy in the recovery spike is so at the incident's own *)
(* traffic.                                                                  *)
LEMMA HealthySpikeServes ==
    ASSUME KeepsTraffic, scenario \in Scenarios, patch \in DOMAIN scenario.candidates,
           AllMandatoryHealthy(Results(scenario, patch))
    PROVE  ServesTheIncident
<1>1. PICK b \in Baselines, patches \in PatchLists :
              /\ scenario.baseline = b /\ b \in States
              /\ scenario.seeds = [i \in DOMAIN SeedsOf(b) |->
                    [name |-> SeedsOf(b)[i].name, mandatory |-> SeedsOf(b)[i].mandatory]]
              /\ scenario.candidates = [k \in DOMAIN patches |-> Scored(b, patches[k])]
              /\ \A k \in DOMAIN patches : Evolve(b, patches[k].patch) \in States
  BY SimulatedParts
<1>2. PICK c : c = patches[patch].patch /\ "traffic" \notin DOMAIN c /\ Evolve(b, c) \in States
  BY <1>1 DEF KeepsTraffic
<1>3. Candidate = Scored(b, patches[patch])
  BY <1>1 DEF Candidate
<1>4. PICK healthy : /\ healthy = Candidate.healthy
                     /\ healthy = [i \in DOMAIN Suite(b) |-> Healthy(Patched(b, Suite(b)[i], c))]
  BY <1>2, <1>3 DEF Scored
<1>5. PICK n \in Nat : /\ n = Len(scenario.seeds) + 2 /\ healthy[n] /\ n \in DOMAIN healthy
  <2>1. LET n == Len(scenario.seeds) + 2
        IN /\ n \in Nat /\ scenario.candidates[patch].healthy[n]
           /\ DOMAIN scenario.candidates[patch].healthy = 1..(Len(scenario.seeds) + 4)
    BY SpikeIsMandatory
  <2>2. PICK m \in Nat : m = Len(scenario.seeds)
    BY ScenarioAssumption, LenProperties
  <2>3. m + 2 \in 1..(m + 4) /\ m + 2 \in Nat
    OBVIOUS
  <2> QED
    BY <1>4, <2>1, <2>2, <2>3 DEF Candidate
<1>6. Healthy(Patched(b, Generated(b)[2], c))
  BY <1>1, <1>4, <1>5, SpikeInSuite
<1>7. PICK p \in States : /\ p = Patched(b, Generated(b)[2], c) /\ Healthy(p)
                          /\ p.traffic = (b.traffic * 148) \div 100
                          /\ \A f \in {"pool", "dependency", "code", "adaptive"} :
                                p[f] = Evolve(b, c)[f]
  BY <1>1, <1>2, <1>6, PatchedSpike
<1>8. PICK a \in States : a = After /\ a = Evolve(b, c) /\ a.traffic = b.traffic
  <2>1. After = Evolve(b, c)
    BY <1>1, <1>2, <1>3 DEF After, Scored
  <2> QED
    BY <1>1, <1>2, <2>1, PatchedSpike
<1>9. PICK t \in Nat : t = b.traffic
  BY <1>1 DEF States
<1>10. ASSUME NEW percent \in {50, 98, 100, 110, 148}
       PROVE  Healthy([After EXCEPT !.traffic = (@ * percent) \div 100])
  <2>1. PICK u \in Nat : u = (t * percent) \div 100 /\ u <= (t * 148) \div 100
    <3>1. (t * 50) \div 100 <= (t * 148) \div 100 /\ (t * 50) \div 100 \in Nat
      OBVIOUS
    <3>2. (t * 98) \div 100 <= (t * 148) \div 100 /\ (t * 98) \div 100 \in Nat
      OBVIOUS
    <3>3. (t * 100) \div 100 <= (t * 148) \div 100 /\ (t * 100) \div 100 \in Nat
      OBVIOUS
    <3>4. (t * 110) \div 100 <= (t * 148) \div 100 /\ (t * 110) \div 100 \in Nat
      OBVIOUS
    <3>5. (t * 148) \div 100 \in Nat
      OBVIOUS
    <3> QED
      BY <3>1, <3>2, <3>3, <3>4, <3>5
  <2>2. PICK r : r = [a EXCEPT !.traffic = u]
    OBVIOUS
  <2>3. r = [After EXCEPT !.traffic = (@ * percent) \div 100]
    BY <1>8, <1>9, <2>1, <2>2 DEF States
  <2>4. r \in States
    BY <2>2 DEF States
  <2>5. r.traffic = u /\ r.pool = a.pool /\ r.dependency = a.dependency /\ r.code = a.code
        /\ r.adaptive = a.adaptive
    BY <2>2 DEF States
  <2>6. p.pool = a.pool /\ p.dependency = a.dependency /\ p.code = a.code /\ p.adaptive = a.adaptive
    BY <1>7, <1>8
  <2>7. r.traffic <= p.traffic
    BY <1>7, <1>9, <2>1, <2>5
  <2>8. Healthy(r)
    BY <1>7, <2>4, <2>5, <2>6, <2>7, HealthyBelow
  <2> QED
    BY <2>3, <2>8
<1> QED
  BY <1>10 DEF ServesTheIncident

(* A verified rollback writes the baseline's value wherever the patch wrote  *)
(* another.                                                                  *)
LEMMA VerifiedRollsBack ==
    ASSUME scenario \in Scenarios, patch \in DOMAIN scenario.candidates, Candidate.restores
    PROVE  RollsBack
<1>1. PICK b \in Baselines, patches \in PatchLists :
              /\ scenario.baseline = b /\ b \in States
              /\ scenario.seeds = [i \in DOMAIN SeedsOf(b) |->
                    [name |-> SeedsOf(b)[i].name, mandatory |-> SeedsOf(b)[i].mandatory]]
              /\ scenario.candidates = [k \in DOMAIN patches |-> Scored(b, patches[k])]
              /\ \A k \in DOMAIN patches : Evolve(b, patches[k].patch) \in States
  BY SimulatedParts
<1>2. PICK c : c = patches[patch] /\ Candidate = Scored(b, c)
  BY <1>1 DEF Candidate
<1>3. /\ Candidate.patch = c.patch /\ Candidate.rollback = c.rollback
      /\ Restores(b, c.patch, c.rollback)
  BY <1>2 DEF Scored
<1>4. PICK a : a = After /\ a = Evolve(b, c.patch)
  BY <1>1, <1>3 DEF After
<1>5. Evolve(a, c.rollback) = b
  BY <1>3, <1>4 DEF Restores
<1>6. DOMAIN a = DOMAIN b
  BY <1>4 DEF Evolve
<1>7. ASSUME NEW f \in DOMAIN b, a[f] # b[f]
      PROVE  f \in DOMAIN c.rollback /\ c.rollback[f] = b[f]
  <2>1. Evolve(a, c.rollback)[f] = IF f \in DOMAIN c.rollback THEN c.rollback[f] ELSE a[f]
    BY <1>6 DEF Evolve
  <2> QED
    BY <1>5, <1>7, <2>1
<1> QED
  BY <1>1, <1>3, <1>4, <1>7 DEF RollsBack

(* orchestrator.py 96-100, 416-475: what is released repairs the service, at *)
(* the incident's traffic and up to the recovery spike's, and can be taken   *)
(* back, for every incident the simulator computes and any patches that      *)
(* leave the traffic alone.                                                  *)
THEOREM RepairingReleases ==
    ASSUME KeepsTraffic
    PROVE  Spec => []ReleasedRepairs
<1>1. ASSUME IInv, PathsFollow
      PROVE  ReleasedRepairs
  <2>1. SUFFICES ASSUME Released
                 PROVE  ServesTheIncident /\ RollsBack
    BY DEF ReleasedRepairs
  <2>2. scenario \in Scenarios /\ Justified(patch)
    BY <1>1, <2>1 DEF IInv, StagesFollow, ReadyIsJustified, Released
  <2>3. patch \in DOMAIN scenario.candidates
    BY <1>1, <2>1, <2>2, WinnerRanksFirst DEF IInv, StagesFollow, PathsFollow, Released, Ranked
  <2> QED
    BY <2>2, <2>3, HealthySpikeServes, VerifiedRollsBack DEF Justified, Candidate
<1> QED
  BY <1>1, PathsInvariant, PTL

-----------------------------------------------------------------------------
(***************************************************************************)
(* The evaluation replays hypotheses with the functions of the pipeline,   *)
(* but shares no state with it.                                            *)
(***************************************************************************)
(* The files of all corpora.                                                 *)
ScenarioFiles == UNION {Range(corpus) : corpus \in Corpora}
Valid == {file \in ScenarioFiles : Validated(file)}

(* Every result is the evaluation of a valid file, and the report, if there  *)
(* is one once all files are results, is computed from these results.      *)
EvaluationInv ==
    /\ files \in Seq(ScenarioFiles)
    /\ results \in Seq({Evaluated(file) : file \in Valid})
    /\ files = << >> /\ report # NoReport => report = Summary(results)

(* Two groups of cases that have none in common are counted as one.          *)
LEMMA CountsAdd ==
    ASSUME NEW S, IsFiniteSet(S), NEW A, NEW B, NEW C,
           A \subseteq S, A = B \cup C, B \cap C = {}
    PROVE  Cardinality(A) = Cardinality(B) + Cardinality(C)
<1>1. IsFiniteSet(B) /\ IsFiniteSet(C)
  BY FS_Subset
<1>2. Cardinality(B \cup C) = Cardinality(B) + Cardinality(C) - Cardinality(B \cap C)
  BY <1>1, FS_Union
<1>3. Cardinality(B \cap C) = 0
  BY FS_EmptySet
<1>4. Cardinality(B) \in Nat /\ Cardinality(C) \in Nat
  BY <1>1, FS_CardinalityType
<1> QED
  BY <1>2, <1>3, <1>4

LEMMA EvaluationInvariant == EvaluationSpec => []EvaluationInv
<1> DEFINE Items == {Evaluated(file) : file \in Valid}
<1>1. EvaluationInit => EvaluationInv
  <2>1. \A corpus \in Corpora : corpus \in Seq(ScenarioFiles)
    <3>1. \A corpus \in Corpora : Range(corpus) \subseteq ScenarioFiles
      BY DEF ScenarioFiles
    <3> QED
      BY <3>1, CorporaAssumption, SeqMonotonic
  <2> QED
    BY <2>1, EmptySeq DEF EvaluationInit, EvaluationInv
<1>2. EvaluationInv /\ [EvaluationNext]_evaluation_vars => EvaluationInv'
  <2>1. SUFFICES ASSUME EvaluationInv, [EvaluationNext]_evaluation_vars
                 PROVE  EvaluationInv'
    OBVIOUS
  <2>2. CASE Evaluate
    <3>1. /\ report = NoReport /\ files # << >> /\ files' = Tail(files)
          /\ results' = Append(results, Evaluated(Head(files)))
          /\ report' = report /\ Validated(Head(files))
      BY <2>2 DEF Evaluate
    <3>2. Head(files) \in ScenarioFiles /\ Tail(files) \in Seq(ScenarioFiles)
      BY <2>1, <3>1, HeadTailProperties DEF EvaluationInv
    <3>3. Evaluated(Head(files)) \in Items
      BY <3>1, <3>2 DEF Valid
    <3>4. results \in Seq(Items)
      BY <2>1 DEF EvaluationInv
    <3> HIDE DEF Items
    <3>5. results' \in Seq(Items)
      BY <3>1, <3>3, <3>4, AppendProperties
    <3> USE DEF Items
    <3>6. report' = NoReport
      BY <3>1
    <3> QED
      BY <3>1, <3>2, <3>5, <3>6 DEF EvaluationInv
  <2>3. CASE Refuse
    BY <2>1, <2>3 DEF Refuse, EvaluationInv
  <2>4. CASE Report
    <3>1. /\ report' = Summary(results) /\ files' = files /\ results' = results
      BY <2>4 DEF Report
    <3>2. Summary(results)' = Summary(results)
      BY <3>1
    <3> QED
      BY <2>1, <3>1, <3>2 DEF EvaluationInv
  <2>5. CASE UNCHANGED evaluation_vars
    BY <2>1, <2>5 DEF evaluation_vars, EvaluationInv, Summary
  <2> QED
    BY <2>1, <2>2, <2>3, <2>4, <2>5 DEF EvaluationNext
<1> QED
  BY <1>1, <1>2, PTL DEF EvaluationSpec

(* evaluation.py 233-316: for every corpus the figures of the report come    *)
(* from one another, though each is counted apart.                           *)
THEOREM FiguresAddUp == EvaluationSpec => []SummaryAddsUp
<1>1. ASSUME EvaluationInv
      PROVE  SummaryAddsUp
  <2> DEFINE all == DOMAIN results
             correct == WithStatus(results, "correct")
             incorrect == WithStatus(results, "incorrect")
             abstain == WithStatus(results, "abstain")
             met == Met(results)
             diagnoses == SupportedDiagnoses(results)
             abstentions == Abstentions(results)
             unsupported == Unsupported(results)
             unexpected == Unexpected(results)
  <2>1. /\ \A i \in all : \E file \in Valid : results[i] = Evaluated(file)
        /\ Len(results) \in Nat /\ all = 1..Len(results)
    BY <1>1, ElementOfSeq, LenProperties DEF EvaluationInv
  <2>2. \A i \in all :
          LET c == results[i]
              file == c.file
          IN /\ file.outcome \in {"diagnose", "abstain"}
             /\ file.support \in {"supported", "unsupported"}
             /\ c.status = Status(file)
             /\ c.met = IF file.outcome = "diagnose" THEN c.status = "correct" ELSE c.status = "abstain"
             /\ c.unexpected = (file.outcome = "abstain"
                                 /\ Observed(file)["primary-cause"] # {})
    BY <2>1 DEF Evaluated, Validated, Valid
  <2>3. \A i \in all :
          LET c == results[i]
              file == c.file
          IN /\ c.status \in {"correct", "incorrect", "abstain"}
             /\ c.status = "abstain" <=> Observed(file)["primary-cause"] = {}
             /\ c.status = "correct" => file.outcome = "diagnose"
                                        /\ Observed(file) = file.expected
    BY <2>2 DEF Status
  <2>4. IsFiniteSet(all) /\ Cardinality(all) = Len(results)
    BY <2>1, FS_Interval
  <2> USE DEF WithStatus, Met, SupportedDiagnoses, Abstentions,
              Unsupported, Unexpected
  <2>5. /\ correct \cup incorrect \cup abstain = all
        /\ correct \cap incorrect = {}
        /\ (correct \cup incorrect) \cap abstain = {}
    BY <2>3
  <2>6. /\ met = correct \cup (abstentions \cap abstain)
        /\ correct \cap (abstentions \cap abstain) = {}
    BY <2>2, <2>3
  <2>7. /\ abstentions = unexpected \cup (abstentions \cap abstain)
        /\ unexpected \cap (abstentions \cap abstain) = {}
    BY <2>2, <2>3
  <2>8. unexpected \subseteq incorrect
    BY <2>2, <2>3
  <2>9. unsupported \cap unexpected \subseteq unsupported \ met
    BY <2>2, <2>3
  <2>10. diagnoses \cap correct = NamedRight
    BY <2>2, <2>3 DEF NamedRight
  <2>11. /\ correct \in SUBSET all /\ incorrect \in SUBSET all /\ abstain \in SUBSET all
         /\ met \in SUBSET all /\ abstentions \in SUBSET all /\ unsupported \in SUBSET all
    OBVIOUS
  <2> HIDE DEF WithStatus, Met, SupportedDiagnoses, Abstentions,
               Unsupported, Unexpected
  <2>12. SUFFICES ASSUME Reported
                  PROVE  /\ report.total = report.correct + report.incorrect + report.abstain
                         /\ report.met = report.correct + report.correct_abstentions
                         /\ report.unexpected = report.abstentions - report.correct_abstentions
                         /\ report.unexpected <= report.incorrect
                         /\ report.unsupported_assertions <= report.unsupported_failures
                         /\ report.supported_correct = Cardinality(diagnoses \cap correct)
    BY <2>10 DEF SummaryAddsUp
  <2>13. report = Summary(results)
    BY <1>1, <2>12 DEF EvaluationInv, Reported
  <2>14. /\ report.total = Len(results)
         /\ report.correct = Cardinality(correct)
         /\ report.incorrect = Cardinality(incorrect)
         /\ report.abstain = Cardinality(abstain)
         /\ report.met = Cardinality(met)
         /\ report.supported_correct = Cardinality(diagnoses \cap correct)
         /\ report.abstentions = Cardinality(abstentions)
         /\ report.correct_abstentions = Cardinality(abstentions \cap abstain)
         /\ report.unsupported_failures = Cardinality(unsupported \ met)
         /\ report.unsupported_assertions = Cardinality(unsupported \cap unexpected)
         /\ report.unexpected = Cardinality(unexpected)
    BY <2>13 DEF Summary
  <2> HIDE DEF all, correct, incorrect, abstain, met, diagnoses, abstentions, unsupported, unexpected
  <2>15. Cardinality(all) = Cardinality(correct) + Cardinality(incorrect)
                            + Cardinality(abstain)
    <3>1. PICK told : told = correct \cup incorrect
      OBVIOUS
    <3>2. told \subseteq all /\ told \cap abstain = {} /\ all = told \cup abstain
      BY <2>5, <3>1
    <3>3. Cardinality(told) = Cardinality(correct) + Cardinality(incorrect)
      BY <2>4, <2>5, <3>1, <3>2, CountsAdd
    <3>4. Cardinality(all) = Cardinality(told) + Cardinality(abstain)
      BY <2>4, <3>2, CountsAdd
    <3> QED
      BY <3>3, <3>4
  <2>16. Cardinality(met)
           = Cardinality(correct) + Cardinality(abstentions \cap abstain)
    <3>1. PICK kept : kept = abstentions \cap abstain
      OBVIOUS
    <3> QED
      BY <2>4, <2>6, <2>11, <3>1, CountsAdd
  <2>17. /\ Cardinality(abstentions)
              = Cardinality(unexpected) + Cardinality(abstentions \cap abstain)
         /\ Cardinality(unexpected) \in Nat
         /\ Cardinality(abstentions \cap abstain) \in Nat
    <3>1. PICK kept : kept = abstentions \cap abstain
      OBVIOUS
    <3>2. abstentions \subseteq all /\ abstentions = unexpected \cup kept /\ unexpected \cap kept = {}
      BY <2>7, <2>11, <3>1
    <3>3. Cardinality(abstentions) = Cardinality(unexpected) + Cardinality(kept)
      BY <2>4, <3>2, CountsAdd
    <3>4. Cardinality(unexpected) \in Nat /\ Cardinality(kept) \in Nat
      BY <2>4, <3>2, FS_Subset, FS_CardinalityType
    <3> QED
      BY <3>1, <3>3, <3>4
  <2>18. Cardinality(unexpected) <= Cardinality(incorrect)
    BY <2>4, <2>8, <2>11, FS_Subset
  <2>19. Cardinality(unsupported \cap unexpected) <= Cardinality(unsupported \ met)
    <3>1. IsFiniteSet(unsupported \ met)
      BY <2>4, <2>11, FS_Subset
    <3> QED
      BY <2>9, <3>1, FS_Subset
  <2> QED
    BY <2>4, <2>14, <2>15, <2>16, <2>17, <2>18, <2>19
<1> QED
  BY <1>1, EvaluationInvariant, PTL

=============================================================================
