--------------------------- MODULE ReleaseControl ---------------------------
(***************************************************************************)
(* The control plane of one incident run: the HTTP handlers of             *)
(* runtime/server.py, each running one method of LocalController           *)
(* (runtime/controller.py) on the tables of RunStore.                      *)
(*                                                                         *)
(* ThreadingHTTPServer runs every request in a thread of its own, no lock  *)
(* guards a run, and every store call opens its own connection; so a       *)
(* handler is a sequence of store accesses, and the accesses of concurrent *)
(* handlers interleave.  append_event alone is three accesses: it reads    *)
(* the revision, then the largest sequence, then writes.                   *)
(*                                                                         *)
(* A handler is at a step: an event type while it appends that event (its  *)
(* phase says which of the three accesses is next), or the name of another *)
(* store access.  Planning, DAG execution and worker attempts appear as a  *)
(* loop of coordination events that may end in an exhausted retry budget.  *)
(***************************************************************************)
EXTENDS RunStore

CONSTANTS
  Handlers,          \* the server's request threads
  DemoEvidence,      \* evidence ids that only stale_approval_demo generates
  MaxRequests,       \* bound: requests accepted in a behaviour
  MaxCoordination,   \* bound: coordination events of one planning round
  MayFail            \* whether a store access may raise (lock timeout, crash)

ASSUME ReleaseControlAssumption ==
  /\ DemoEvidence \subseteq Evidence
  /\ MaxRequests \in Nat
  /\ MaxCoordination \in Nat
  /\ MayFail \in BOOLEAN

VARIABLES
  req,        \* what each handler is doing
  accepted,   \* number of requests accepted so far
  returned,   \* whether create_run has answered, so clients know the run id
  lost,       \* history: evidence whose handler died before logging it
  unheld,     \* history: after how many approvals a handler died that had withdrawn
              \* one and had still to hold the run
  overtaken   \* history: after how many approvals a handler completed the run
              \* when none was in force any more

history == <<lost, unheld, overtaken>>

vars == <<store, req, accepted, returned, history>>

Phases == {"revision", "sequence", "write"}

AccessSteps ==
  { "idle", "insert_run", "add_evidence", "hold_release", "coordinate",
    "mark_exhausted", "verdict", "mark_abstained", "read_current",
    "check_revision", "add_approval", "mark_completed", "mark_paused",
    "mark_denied" }

Steps == EventTypes \cup AccessSteps

Requests ==
  [ purpose  : {"none", "create", "demo", "other"},
    step     : Steps,
    phase    : Phases,
    evidence : Evidence \cup {NoEvidence},  \* the evidence being ingested
    expected : Nat,                         \* the revision an approval names
    revision : Nat,                         \* append_event's local revision
    sequence : Nat,                         \* append_event's local sequence
    rounds   : 0..MaxCoordination ]         \* coordination events appended

IdleRequest ==
  [ purpose |-> "none", step |-> "idle", phase |-> "revision",
    evidence |-> NoEvidence, expected |-> 0, revision |-> 0, sequence |-> 0,
    rounds |-> 0 ]

TypeOK ==
  /\ StoreTypeOK
  /\ req \in [Handlers -> Requests]
  /\ accepted \in Nat
  /\ returned \in BOOLEAN
  /\ lost \subseteq Evidence
  /\ unheld \subseteq Nat
  /\ overtaken \subseteq Nat

Init ==
  /\ StoreInit
  /\ req = [t \in Handlers |-> IdleRequest]
  /\ accepted = 0
  /\ returned = FALSE
  /\ lost = {}
  /\ unheld = {}
  /\ overtaken = {}

-----------------------------------------------------------------------------
(***************************************************************************)
(* Control flow of a handler.                                              *)
(***************************************************************************)
Idle(t) == req[t].step = "idle"

Goto(t, step) ==
  /\ req' = [req EXCEPT ![t].step = step, ![t].phase = "revision"]
  /\ UNCHANGED <<accepted, returned, history>>

\* The handler sends its response: create_run's carries the run id.  Its last
\* access may have completed a run that has no approval any more.
Answer(t) ==
  /\ req' = [req EXCEPT ![t] = IdleRequest]
  /\ returned' = (returned \/ req[t].purpose = "create")
  /\ overtaken' = IF req[t].step = "mark_completed" /\ ~Standing
                  THEN overtaken \cup {Len(approvals)}
                  ELSE overtaken
  /\ UNCHANGED <<accepted, lost, unheld>>

\* An exception reaches do_POST, which answers with an error; the accesses the
\* handler still had to make never happen.
Raise(t) ==
  /\ req' = [req EXCEPT ![t] = IdleRequest]
  /\ lost' = IF req[t].step = "evidence_observed" THEN lost \cup {req[t].evidence} ELSE lost
  /\ unheld' = IF req[t].step = "hold_release" THEN unheld \cup {Len(approvals)} ELSE unheld
  /\ UNCHANGED <<accepted, returned, overtaken>>

\* A client's request for the run is accepted by an idle thread.
Accept(t, purpose, step, e, expected) ==
  /\ Idle(t)
  /\ accepted < MaxRequests
  /\ accepted' = accepted + 1
  /\ req' = [req EXCEPT ![t] =
       [IdleRequest EXCEPT !.purpose = purpose, !.step = step, !.evidence = e, !.expected = expected]]
  /\ UNCHANGED <<store, returned, history>>

\* POST /api/runs; the run id exists nowhere before, so this request is alone.
ReceiveCreate(t) ==
  /\ run = NoRun
  /\ \A u \in Handlers : Idle(u)
  /\ Accept(t, "create", "insert_run", NoEvidence, 0)

\* POST evidence: clients may deliver the same event id any number of times.
ReceiveEvidence(t) ==
  /\ returned
  /\ \E e \in Evidence \ DemoEvidence : Accept(t, "other", "add_evidence", e, 0)

\* POST approvals: the reviewer names a revision, of some snapshot of the run or
\* one the run has not reached.
ReceiveApproval(t) ==
  /\ returned
  /\ \E r \in 0..(run.revision + 1) : Accept(t, "other", "check_revision", NoEvidence, r)

\* POST actions/resume: approves whatever revision is current.
ReceiveResume(t) ==
  /\ returned
  /\ Accept(t, "other", "read_current", NoEvidence, 0)

\* POST actions/pause.
ReceivePause(t) ==
  /\ returned
  /\ Accept(t, "other", "human_pause", NoEvidence, 0)

\* POST actions/tool-denied.
ReceiveDenial(t) ==
  /\ returned
  /\ Accept(t, "other", "tool_permission_denied", NoEvidence, 0)

\* POST recommendation, worker-timeout, worker-crash and retry-exhausted.
ReceiveWork(t) ==
  /\ returned
  /\ Accept(t, "other", "coordinate", NoEvidence, 0)

\* POST actions/stale-approval: reads the revision, ingests evidence of its own
\* making, then tries to approve the revision it read.
ReceiveStaleDemo(t) ==
  /\ returned
  /\ \E e \in DemoEvidence :
       /\ e \notin evidence
       /\ \A u \in Handlers : req[u].evidence # e
       /\ Accept(t, "demo", "add_evidence", e, run.revision)

Receive(t) ==
  \/ ReceiveCreate(t)
  \/ ReceiveEvidence(t)
  \/ ReceiveApproval(t)
  \/ ReceiveResume(t)
  \/ ReceivePause(t)
  \/ ReceiveDenial(t)
  \/ ReceiveWork(t)
  \/ ReceiveStaleDemo(t)

-----------------------------------------------------------------------------
(***************************************************************************)
(* append_event: two reads, then one write transaction.                    *)
(***************************************************************************)
Appending(t, phase) == req[t].step \in EventTypes /\ req[t].phase = phase

\* A mutant forgets to advance the revision.
ReadRevisionFlat(t) ==
  /\ Appending(t, "revision")
  /\ req' = [req EXCEPT ![t].phase = "sequence", ![t].revision = run.revision]
  /\ UNCHANGED <<store, accepted, returned, history>>

ReadRevision(t) ==
  /\ Appending(t, "revision")
  /\ req' = [req EXCEPT ![t].phase = "sequence",
                        ![t].revision = run.revision + (IF Advances(req[t].step) THEN 1 ELSE 0)]
  /\ UNCHANGED <<store, accepted, returned, history>>

ReadSequence(t) ==
  /\ Appending(t, "sequence")
  /\ req' = [req EXCEPT ![t].phase = "write", ![t].sequence = NextSequence]
  /\ UNCHANGED <<store, accepted, returned, history>>

\* Only the evidence events name the evidence being ingested.
Source(t) ==
  IF req[t].step \in {"evidence_observed", "evidence_deduplicated", "approval_invalidated"}
  THEN req[t].evidence
  ELSE NoEvidence

Approved(t) ==
  IF req[t].step \in {"approval_recorded", "approval_rejected_stale"}
  THEN req[t].expected
  ELSE 0

\* The step after an event that does not end its handler.  A mutant loses the hold: a stale approval is only logged.
FollowingNoHold(type, stale) ==
  CASE type = "evidence_observed" -> IF stale THEN "approval_invalidated" ELSE "coordinate"
    [] type \in {"controller_run_created", "coordination", "approval_invalidated"} -> "coordinate"
    [] type = "abstention_recorded"    -> "mark_abstained"
    [] type = "approval_recorded"      -> "add_approval"
    [] type = "human_pause"            -> "mark_paused"
    [] type = "tool_permission_denied" -> "mark_denied"

Following(type, stale) ==
  CASE type = "evidence_observed" -> IF stale THEN "hold_release" ELSE "coordinate"
    [] type \in {"controller_run_created", "coordination", "approval_invalidated"} -> "coordinate"
    [] type = "abstention_recorded"    -> "mark_abstained"
    [] type = "approval_recorded"      -> "add_approval"
    [] type = "human_pause"            -> "mark_paused"
    [] type = "tool_permission_denied" -> "mark_denied"

CommitEvent(t) ==
  /\ Appending(t, "write")
  /\ AppendEvent(req[t].step, Source(t), Approved(t), req[t].revision, req[t].sequence)
  /\ CASE req[t].step = "evidence_deduplicated" -> Answer(t)
       [] req[t].step \in {"approval_rejected_stale", "retry_exhausted"} -> Raise(t)
       [] OTHER -> Goto(t, Following(req[t].step, Standing))

\* IntegrityError on the sequence: the transaction rolls back, the handler
\* answers 500 and none of its later steps happens.
CollideEvent(t) ==
  /\ Appending(t, "write")
  /\ ~SequenceFree(req[t].sequence)
  /\ Raise(t)
  /\ UNCHANGED store

-----------------------------------------------------------------------------
(***************************************************************************)
(* ingest_evidence.                                                        *)
(***************************************************************************)
\* A mutant plans on the stored evidence without logging it.
StoreEvidenceUnlogged(t) ==
  /\ req[t].step = "add_evidence"
  /\ AddEvidence(req[t].evidence)
  /\ Goto(t, "coordinate")

StoreEvidence(t) ==
  /\ req[t].step = "add_evidence"
  /\ AddEvidence(req[t].evidence)
  /\ Goto(t, "evidence_observed")

\* A mutant treats a duplicate delivery as new evidence.
DuplicateEvidenceObserved(t) ==
  /\ req[t].step = "add_evidence"
  /\ req[t].evidence \in evidence
  /\ Goto(t, "evidence_observed")
  /\ UNCHANGED store

DuplicateEvidence(t) ==
  /\ req[t].step = "add_evidence"
  /\ req[t].evidence \in evidence
  /\ Goto(t, "evidence_deduplicated")
  /\ UNCHANGED store

HoldRelease(t) ==
  /\ req[t].step = "hold_release"
  /\ UpdateRun("PAUSED_AWAITING_HUMAN", run.gate, "blocked-awaiting-human")
  /\ Goto(t, "approval_invalidated")

-----------------------------------------------------------------------------
(***************************************************************************)
(* Planning, DAG execution and worker attempts, up to what they append and *)
(* the one run update they may make.                                       *)
(***************************************************************************)
Coordinate(t) ==
  /\ req[t].step = "coordinate"
  /\ req[t].rounds < MaxCoordination
  /\ req' = [req EXCEPT ![t].step = "coordination", ![t].rounds = @ + 1]
  /\ UNCHANGED <<store, accepted, returned, history>>

\* The planning round is over: create_run judges the run, the demo replays its
\* old approval, every other handler answers.
FinishCoordination(t) ==
  /\ req[t].step = "coordinate"
  /\ CASE req[t].purpose = "create" -> Goto(t, "verdict")
       [] req[t].purpose = "demo"   -> Goto(t, "check_revision")
       [] OTHER                     -> Answer(t)
  /\ UNCHANGED store

\* Every capable worker failed its attempt.
ExhaustRetries(t) ==
  /\ req[t].step = "coordinate"
  /\ Goto(t, "mark_exhausted")
  /\ UNCHANGED store

MarkExhausted(t) ==
  /\ req[t].step = "mark_exhausted"
  /\ UpdateRun("BLOCKED_RETRY_EXHAUSTED", "failed", "blocked-quality")
  /\ Goto(t, "retry_exhausted")

-----------------------------------------------------------------------------
(***************************************************************************)
(* The end of create_run: what the release auditor and the evaluation      *)
(* decided is an input here.                                               *)
(***************************************************************************)
GateOutcomes ==
  { [gate |-> "passed", decision |-> "approved"],               \* low risk
    [gate |-> "passed", decision |-> "blocked-awaiting-human"],
    [gate |-> "failed", decision |-> "blocked-quality-gate"] }

JudgeGate(t) ==
  /\ req[t].step = "verdict"
  /\ \E outcome \in GateOutcomes, autoApprove \in BOOLEAN :
       /\ UpdateRun("PAUSED_AWAITING_HUMAN", outcome.gate, outcome.decision)
       /\ IF autoApprove /\ outcome.gate = "passed"
          THEN Goto(t, "read_current")
          ELSE Answer(t)

JudgeInsufficient(t) ==
  /\ req[t].step = "verdict"
  /\ UpdateRun("BLOCKED_INSUFFICIENT_EVIDENCE", "not-run", "blocked-insufficient-evidence")
  /\ Answer(t)

\* An evaluation-only fixture abstains, or leaves the run as it is.
JudgeEvaluation(t) ==
  /\ req[t].step = "verdict"
  /\ Goto(t, "abstention_recorded") \/ Answer(t)
  /\ UNCHANGED store

MarkAbstained(t) ==
  /\ req[t].step = "mark_abstained"
  /\ UpdateRun("ABSTAINED", "not-run", "blocked-insufficient-evidence")
  /\ Answer(t)

StartRun(t) ==
  /\ req[t].step = "insert_run"
  /\ InsertRun
  /\ Goto(t, "controller_run_created")

-----------------------------------------------------------------------------
(***************************************************************************)
(* approve, resume, pause and deny_tool.                                   *)
(***************************************************************************)
ReadCurrent(t) ==
  /\ req[t].step = "read_current"
  /\ req' = [req EXCEPT ![t].step = "check_revision", ![t].expected = run.revision]
  /\ UNCHANGED <<store, accepted, returned, history>>

\* A mutant accepts an approval of any revision.
CheckRevisionSkipped(t) ==
  /\ req[t].step = "check_revision"
  /\ Goto(t, "approval_recorded")
  /\ UNCHANGED store

CheckRevision(t) ==
  /\ req[t].step = "check_revision"
  /\ Goto(t, IF req[t].expected = run.revision THEN "approval_recorded"
                                               ELSE "approval_rejected_stale")
  /\ UNCHANGED store

GrantApproval(t) ==
  /\ req[t].step = "add_approval"
  /\ AddApproval(req[t].revision)
  /\ Goto(t, "mark_completed")

MarkCompleted(t) ==
  /\ req[t].step = "mark_completed"
  /\ UpdateRun("COMPLETED", run.gate, "approved")
  /\ Answer(t)

\* A mutant swaps two columns of the UPDATE.
MarkPausedSwapped(t) ==
  /\ req[t].step = "mark_paused"
  /\ UpdateRun("PAUSED_AWAITING_HUMAN", "blocked-awaiting-human", run.gate)
  /\ Answer(t)

MarkPaused(t) ==
  /\ req[t].step = "mark_paused"
  /\ UpdateRun("PAUSED_AWAITING_HUMAN", run.gate, "blocked-awaiting-human")
  /\ Answer(t)

MarkDenied(t) ==
  /\ req[t].step = "mark_denied"
  /\ UpdateRun("BLOCKED_PERMISSION_DENIED", "failed", "blocked-quality")
  /\ Answer(t)

-----------------------------------------------------------------------------
\* A store access raises: the database stays locked past the connection's
\* timeout, or the server dies and its threads with it.
Fail(t) ==
  /\ MayFail
  /\ ~Idle(t)
  /\ Raise(t)
  /\ UNCHANGED store

Step(t) ==
  \/ ReadRevision(t)
  \/ ReadSequence(t)
  \/ CommitEvent(t)
  \/ CollideEvent(t)
  \/ StoreEvidence(t)
  \/ DuplicateEvidence(t)
  \/ HoldRelease(t)
  \/ Coordinate(t)
  \/ FinishCoordination(t)
  \/ ExhaustRetries(t)
  \/ MarkExhausted(t)
  \/ StartRun(t)
  \/ JudgeGate(t)
  \/ JudgeInsufficient(t)
  \/ JudgeEvaluation(t)
  \/ MarkAbstained(t)
  \/ ReadCurrent(t)
  \/ CheckRevision(t)
  \/ GrantApproval(t)
  \/ MarkCompleted(t)
  \/ MarkPaused(t)
  \/ MarkDenied(t)

\* No handler is busy and no request is left to accept.
Quiescent ==
  /\ \A t \in Handlers : Idle(t)
  /\ accepted = MaxRequests \/ (run # NoRun /\ ~returned)
  /\ UNCHANGED vars

Next ==
  \/ \E t \in Handlers : Receive(t) \/ Step(t) \/ Fail(t)
  \/ Quiescent

Spec == Init /\ [][Next]_vars

\* The interpreter and the operating system keep scheduling every thread, and a
\* store access always returns or raises; clients need not send anything.
FairSpec == Spec /\ \A t \in Handlers : WF_vars(Step(t))

-----------------------------------------------------------------------------
(***************************************************************************)
(* What the log and the approvals promise under every interleaving.        *)
(***************************************************************************)
\* A single request thread: requests follow one another.
OneAtATime == \A t, u \in Handlers : t = u

EventsOf(type) == {e \in events : e.type = type}

\* The sequences of a run's events are 1, 2, ..., n without a gap or a repeat,
\* although append_event computes them by a read that races (store.py 196-229).
LogIsDense == Sequences = 1..Cardinality(events)

\* A run never has two approvals in force, whichever reviewers and evidence
\* handlers overlap (add_approval's transaction, store.py 301-315).
AtMostOneApproved ==
  \A i, j \in DOMAIN approvals :
    approvals[i].status = "APPROVED" /\ approvals[j].status = "APPROVED" => i = j

Observed(x) == \E o \in EventsOf("evidence_observed") : o.source = x

\* Handler t has stored evidence x and has yet to log it.
Observing(t, x) == req[t].step = "evidence_observed" /\ req[t].evidence = x

\* However often an evidence id is delivered, and by however many threads at
\* once, it is observed at most once, and only after its row is stored; what is
\* stored is observed, or one handler is about to observe it, or that handler
\* died and it never will be, as every later delivery counts as a duplicate
\* (ingest_evidence, controller.py 648-663).
EvidenceObservedOnce ==
  /\ \A e \in EventsOf("evidence_observed") :
       /\ e.source \in evidence
       /\ \A f \in EventsOf("evidence_observed") : e.source = f.source => e = f
  /\ \A x \in evidence : Observed(x) \/ x \in lost \/ \E t \in Handlers : Observing(t, x)
  /\ \A x \in lost : x \in evidence /\ ~Observed(x)

\* A COMPLETED run has an approval in force, with two exceptions that are all:
\* the handler that withdrew the approval has not held the run yet, or died
\* before it could; or two requests overlapped, and the approver completed the
\* run after new evidence had withdrawn its approval.  Either exception lasts at
\* most until the next approval (ingest_evidence and approve, controller.py
\* 657-673 and 703-715).
CompletedIsApproved ==
  run.status = "COMPLETED" /\ ~Standing =>
    \/ \E t \in Handlers : req[t].step = "hold_release"
    \/ Len(approvals) \in unheld
    \/ ~OneAtATime /\ Len(approvals) \in overtaken

\* An approval is never removed or rewritten, and once STALE or SUPERSEDED it
\* keeps that status (both UPDATEs select APPROVED rows only).
ApprovalsAreFinal ==
  [][ \A i \in DOMAIN approvals :
        /\ i \in DOMAIN approvals'
        /\ approvals'[i].revision = approvals[i].revision
        /\ approvals[i].status # "APPROVED" => approvals'[i] = approvals[i] ]_approvals

-----------------------------------------------------------------------------
(***************************************************************************)
(* The concurrent handlers implement ReleaseLedger, where logging, observ- *)
(* ing evidence and granting an approval are each one atomic step.         *)
(***************************************************************************)
EventAt(n) == CHOOSE e \in events : e.sequence = n

Ledger == INSTANCE ReleaseLedger WITH
  log      <- [n \in 1..Cardinality(events) |->
                 [type |-> EventAt(n).type, source |-> EventAt(n).source]],
  standing <- Standing,
  granted  <- Len(approvals)

\* Every behaviour of the handlers is one of the atomic ledger: an append-only
\* log, each evidence observed once and withdrawing the approval in force, and
\* no more approvals than approval_recorded entries.
ImplementsLedger == Ledger!Spec

-----------------------------------------------------------------------------
(***************************************************************************)
(* The log as an audit trail.                                              *)
(***************************************************************************)
\* The run's revision after the first n events.
RevisionAt(n) == IF n = 0 THEN 0 ELSE EventAt(n).revision

\* Every event's revision continues the one the run had at some earlier point of
\* the log, and rises by one with every event but a duplicate's; the run carries
\* the revision of the last event.  Overlapping handlers may both continue the
\* same point; when requests follow one another it is always the last event
\* ("monotone revision", append_event, store.py 192-229).
RevisionsFollowTheLog ==
  /\ run.revision = RevisionAt(Cardinality(events))
  /\ \A f \in events :
       \E n \in 0..(f.sequence - 1) :
         /\ f.revision = RevisionAt(n) + (IF Advances(f.type) THEN 1 ELSE 0)
         /\ OneAtATime => n = f.sequence - 1

\* What the log calls a duplicate was stored before: it is observed, earlier in
\* the log if requests follow one another; or its handler died and it is lost; or
\* another handler is about to observe it (controller.py 648-656).
DuplicatesWereStored ==
  \A d \in EventsOf("evidence_deduplicated") :
    \/ \E o \in EventsOf("evidence_observed") :
         o.source = d.source /\ (OneAtATime => o.sequence < d.sequence)
    \/ d.source \in lost
    \/ ~OneAtATime /\ \E t \in Handlers : Observing(t, d.source)

\* The log can be read as an audit trail, whatever overlaps or fails: its
\* revisions continue one another, and what it calls a duplicate was stored
\* (store.py 192-229, controller.py 648-656).
AuditTrailIsSound == RevisionsFollowTheLog /\ DuplicatesWereStored

-----------------------------------------------------------------------------
(***************************************************************************)
(* What holds when requests come one at a time, even if some of them die.  *)
(***************************************************************************)
\* A reviewer whose approval is recorded has seen all the evidence observed
\* before it (approve compares the reviewed revision, controller.py 684-702).
ReviewedAllEvidence ==
  \A a \in EventsOf("approval_recorded") :
    \A e \in EventsOf("evidence_observed") :
      e.sequence < a.sequence => e.revision <= a.approved

\* An approval in force is bound to a revision later than every evidence the
\* run has observed (approve's revision check, controller.py 684-713).
ApprovalPostdatesEvidence ==
  \A i \in DOMAIN approvals :
    approvals[i].status = "APPROVED" =>
      \A e \in EventsOf("evidence_observed") : e.revision < approvals[i].revision

\* An approval covers all the evidence: the reviewer saw what was observed before
\* the approval, and none has been observed since while it is in force
\* (controller.py 657-673 and 684-713).
ApprovalsCoverEvidence == ReviewedAllEvidence /\ ApprovalPostdatesEvidence

\* Stored evidence is eventually observed in the log, however its delivery is
\* repeated, unless the handler that stored it died before it could log it
\* (ingest_evidence, controller.py 648-663).
EvidenceEventuallyObserved ==
  \A e \in Evidence : e \in evidence ~> Observed(e) \/ e \in lost

\* "A human may accept risk, but not approve failed quality"
\* (docs/safety-and-audit.md 3): a released run has passed its quality gate.
FailedQualityIsNotApproved == run.decision = "approved" => run.gate = "passed"
=============================================================================
