------------------------ MODULE ReleaseControlProofs ------------------------
(***************************************************************************)
(* Proofs about ReleaseControl, for any number of handlers, evidence ids,  *)
(* requests and coordination events, with or without failures.             *)
(***************************************************************************)
EXTENDS ReleaseControl, FiniteSetTheorems, SequenceTheorems, TLAPS

-----------------------------------------------------------------------------
(***************************************************************************)
(* The transactions of RunStore.                                           *)
(***************************************************************************)
\* Retiring changes no approval's place or revision, and leaves none in force.
LEMMA RetiredFacts ==
  ASSUME approvals \in Seq(ApprovalRows), NEW s \in {"STALE", "SUPERSEDED"}
  PROVE  /\ Retired(s) \in Seq(ApprovalRows)
         /\ Len(Retired(s)) = Len(approvals)
         /\ DOMAIN Retired(s) = DOMAIN approvals
         /\ \A i \in DOMAIN approvals :
              /\ Retired(s)[i].status # "APPROVED"
              /\ Retired(s)[i].revision = approvals[i].revision
              /\ approvals[i].status # "APPROVED" => Retired(s)[i] = approvals[i]
<1> DEFINE n == Len(approvals)
<1>1. n \in Nat /\ approvals \in [1..n -> ApprovalRows] /\ DOMAIN approvals = 1..n
  BY LenProperties
<1>2. Retired(s) \in [1..n -> ApprovalRows]
  BY <1>1 DEF Retired, ApprovalRows, ApprovalStatuses
<1>3. Retired(s) \in Seq(ApprovalRows)
  BY <1>1, <1>2, SeqDef
<1>4. DOMAIN Retired(s) = 1..n
  BY <1>2
<1>5. Len(Retired(s)) = n
  BY <1>1, <1>3, <1>4, LenProperties
<1>6. ASSUME NEW i \in DOMAIN approvals
      PROVE  /\ Retired(s)[i].status # "APPROVED"
             /\ Retired(s)[i].revision = approvals[i].revision
             /\ approvals[i].status # "APPROVED" => Retired(s)[i] = approvals[i]
  BY <1>1, <1>6 DEF Retired, ApprovalRows, ApprovalStatuses
<1> QED
  BY <1>1, <1>3, <1>4, <1>5, <1>6

\* What add_approval makes of the approvals.
LEMMA GrantedFacts ==
  ASSUME approvals \in Seq(ApprovalRows), NEW r \in Nat, AddApproval(r)
  PROVE  /\ approvals' \in Seq(ApprovalRows)
         /\ Len(approvals') = Len(approvals) + 1
         /\ \A i \in DOMAIN approvals : approvals'[i] = Retired("SUPERSEDED")[i]
         /\ approvals'[Len(approvals) + 1] = [revision |-> r, status |-> "APPROVED"]
<1> DEFINE row == [revision |-> r, status |-> "APPROVED"]
           old == Retired("SUPERSEDED")
<1>1. row \in ApprovalRows
  BY DEF ApprovalRows, ApprovalStatuses
<1>2. old \in Seq(ApprovalRows) /\ Len(old) = Len(approvals) /\ DOMAIN old = DOMAIN approvals
  BY RetiredFacts
<1>3. approvals' = Append(old, row)
  BY DEF AddApproval
<1> HIDE DEF row, old
<1>4. DOMAIN old = 1..Len(old)
  BY <1>2, LenProperties
<1>5. /\ Append(old, row) \in Seq(ApprovalRows)
      /\ Len(Append(old, row)) = Len(old) + 1
      /\ \A i \in 1..Len(old) : Append(old, row)[i] = old[i]
      /\ Append(old, row)[Len(old) + 1] = row
  BY <1>1, <1>2
<1> QED
  BY <1>2, <1>3, <1>4, <1>5 DEF row, old

LEMMA UpdateRunType ==
  ASSUME StoreTypeOK, NEW s \in Statuses, NEW g \in Gates, NEW d \in Decisions,
         UpdateRun(s, g, d)
  PROVE  StoreTypeOK'
BY DEF StoreTypeOK, UpdateRun

LEMMA AppendEventType ==
  ASSUME StoreTypeOK, NEW type \in EventTypes, NEW source \in Evidence \cup {NoEvidence},
         NEW approved \in Nat, NEW revision \in Nat, NEW sequence \in Nat,
         AppendEvent(type, source, approved, revision, sequence)
  PROVE  StoreTypeOK'
<1>1. run' \in [status : Statuses, gate : Gates, decision : Decisions, revision : Nat]
  BY DEF StoreTypeOK, AppendEvent
<1>2. approvals' \in Seq(ApprovalRows)
  BY RetiredFacts DEF StoreTypeOK, AppendEvent
<1>3. events' \subseteq EventRows
  BY DEF StoreTypeOK, AppendEvent, EventRows
<1> QED
  BY <1>1, <1>2, <1>3 DEF StoreTypeOK, AppendEvent

\* A dense log's next sequence is one past its end.
LEMMA NextSequenceIsNext ==
  ASSUME NEW n \in Nat, Sequences = 1..n
  PROVE  NextSequence = n + 1
<1> DEFINE S == Sequences \cup {0}
<1>1. n \in S /\ \A y \in S : n >= y
  OBVIOUS
<1>2. \A x \in S : (\A y \in S : x >= y) => x = n
  BY <1>1
<1>3. Max(S) = n
  BY <1>1, <1>2 DEF Max
<1> QED
  BY <1>3 DEF NextSequence

-----------------------------------------------------------------------------
(***************************************************************************)
(* Type correctness.                                                       *)
(***************************************************************************)
(***************************************************************************)
(* The inductive invariant.  A type invariant alone is not inductive here: *)
(* the next sequence is a number only because the log is dense, and what a *)
(* handler stores is an evidence id only because of the step it is at.     *)
(***************************************************************************)
\* A handler about to write an event read a sequence at most one past the end of
\* the log: the log may have grown since, never shrunk.
LogInv ==
  /\ IsFiniteSet(events)
  /\ LogIsDense
  /\ \A t \in Handlers :
       req[t].phase = "write" => req[t].sequence \in 1..(Cardinality(events) + 1)

\* A handler about to observe evidence is the one that stored it: no event names
\* that evidence yet and no other handler is about to observe it.
ObserverInv ==
  \A t \in Handlers :
    /\ req[t].step = "add_evidence" => req[t].evidence \in Evidence
    /\ req[t].step = "evidence_observed" =>
         /\ req[t].evidence \in evidence
         /\ req[t].evidence \notin lost
         /\ \A e \in EventsOf("evidence_observed") : e.source # req[t].evidence
         /\ \A u \in Handlers :
              req[u].step = "evidence_observed" /\ req[u].evidence = req[t].evidence => u = t

IInv ==
  /\ TypeOK
  /\ LogInv
  /\ ObserverInv
  /\ EvidenceObservedOnce
  /\ AtMostOneApproved

ControlTypeOK ==
  /\ req \in [Handlers -> Requests]
  /\ accepted \in Nat
  /\ returned \in BOOLEAN
  /\ lost \subseteq Evidence
  /\ unheld \subseteq Nat
  /\ overtaken \subseteq Nat

LEMMA IdleRequestType == IdleRequest \in Requests
BY ReleaseControlAssumption DEF IdleRequest, Requests, Steps, AccessSteps, Phases

LEMMA GotoType ==
  ASSUME ControlTypeOK, NEW t \in Handlers, NEW s \in Steps, Goto(t, s)
  PROVE  ControlTypeOK'
<1>1. req' \in [Handlers -> Requests]
  BY DEF ControlTypeOK, Goto, Requests, Phases
<1>2. UNCHANGED <<accepted, returned, lost, unheld, overtaken>>
  BY DEF Goto, history
<1> QED
  BY <1>1, <1>2 DEF ControlTypeOK

LEMMA AnswerType ==
  ASSUME StoreTypeOK, ControlTypeOK, NEW t \in Handlers, Answer(t)
  PROVE  ControlTypeOK'
<1>1. Len(approvals) \in Nat
  BY LenProperties DEF StoreTypeOK
<1> QED
  BY <1>1, IdleRequestType DEF ControlTypeOK, Answer

LEMMA RaiseType ==
  ASSUME StoreTypeOK, ControlTypeOK, ObserverInv, NEW t \in Handlers, Raise(t)
  PROVE  ControlTypeOK'
<1>1. Len(approvals) \in Nat
  BY LenProperties DEF StoreTypeOK
<1>2. req[t].step = "evidence_observed" => req[t].evidence \in Evidence
  BY DEF ObserverInv, StoreTypeOK
<1>3. lost' \subseteq Evidence
  BY <1>2 DEF ControlTypeOK, Raise
<1> QED
  BY <1>1, <1>3, IdleRequestType DEF ControlTypeOK, Raise

LEMMA AcceptType ==
  ASSUME ControlTypeOK, NEW t \in Handlers,
         NEW purpose \in {"create", "demo", "other"}, NEW s \in Steps,
         NEW e \in Evidence \cup {NoEvidence}, NEW x \in Nat,
         Accept(t, purpose, s, e, x)
  PROVE  ControlTypeOK'
<1>1. [IdleRequest EXCEPT !.purpose = purpose, !.step = s, !.evidence = e, !.expected = x]
        \in Requests
  BY IdleRequestType DEF Requests
<1> QED
  BY <1>1 DEF ControlTypeOK, Accept, history

LEMMA InitType == Init => TypeOK
<1> SUFFICES ASSUME Init PROVE TypeOK
  OBVIOUS
<1>1. StoreTypeOK
  BY EmptySeq DEF Init, StoreInit, StoreTypeOK, NoRun, Statuses, Gates, Decisions
<1>2. ControlTypeOK
  BY IdleRequestType DEF Init, ControlTypeOK
<1> QED
  BY <1>1, <1>2 DEF TypeOK, ControlTypeOK

\* A client's request is accepted.
LEMMA ReceiveType ==
  ASSUME TypeOK, NEW t \in Handlers, Receive(t)
  PROVE  TypeOK'
<1> USE DEF Steps, AccessSteps, EventTypes
<1>1. StoreTypeOK /\ ControlTypeOK
  BY DEF TypeOK, ControlTypeOK
<1>2. UNCHANGED store
  BY DEF Receive, ReceiveCreate, ReceiveEvidence, ReceiveApproval, ReceiveResume,
         ReceivePause, ReceiveDenial, ReceiveWork, ReceiveStaleDemo, Accept
<1>3. \E purpose \in {"create", "demo", "other"}, s \in Steps,
         e \in Evidence \cup {NoEvidence}, x \in Nat : Accept(t, purpose, s, e, x)
  <2>1. CASE ReceiveCreate(t)
    BY <2>1 DEF ReceiveCreate
  <2>2. CASE ReceiveEvidence(t)
    BY <2>2 DEF ReceiveEvidence
  <2>3. CASE ReceiveApproval(t)
    <3>1. run.revision \in Nat
      BY <1>1 DEF StoreTypeOK
    <3>2. PICK x \in 0..(run.revision + 1) : Accept(t, "other", "check_revision", NoEvidence, x)
      BY <2>3 DEF ReceiveApproval
    <3>3. x \in Nat
      BY <3>1
    <3> QED
      BY <3>2, <3>3
  <2>4. CASE ReceiveResume(t)
    BY <2>4 DEF ReceiveResume
  <2>5. CASE ReceivePause(t)
    BY <2>5 DEF ReceivePause
  <2>6. CASE ReceiveDenial(t)
    BY <2>6 DEF ReceiveDenial
  <2>7. CASE ReceiveWork(t)
    BY <2>7 DEF ReceiveWork
  <2>8. CASE ReceiveStaleDemo(t)
    BY <2>8, <1>1, ReleaseControlAssumption DEF ReceiveStaleDemo, StoreTypeOK
  <2> QED
    BY <2>1, <2>2, <2>3, <2>4, <2>5, <2>6, <2>7, <2>8 DEF Receive
<1>4. ControlTypeOK'
  BY <1>1, <1>3, AcceptType
<1>5. StoreTypeOK'
  BY <1>1, <1>2 DEF StoreTypeOK, store
<1> QED
  BY <1>4, <1>5 DEF TypeOK, ControlTypeOK

\* One store access of a handler.
LEMMA StepType ==
  ASSUME TypeOK, LogInv, ObserverInv, NEW t \in Handlers, Step(t)
  PROVE  TypeOK'
<1>1. StoreTypeOK /\ ControlTypeOK
  BY DEF TypeOK, ControlTypeOK
<1>2. req[t] \in Requests
  BY <1>1 DEF ControlTypeOK
<1>3. ASSUME UNCHANGED store PROVE StoreTypeOK'
  BY <1>1, <1>3 DEF StoreTypeOK, store
<1> SUFFICES StoreTypeOK' /\ ControlTypeOK'
  BY DEF TypeOK, ControlTypeOK
<1>4. /\ "coordinate" \in Steps /\ "evidence_observed" \in Steps /\ "evidence_deduplicated" \in Steps
      /\ "approval_invalidated" \in Steps /\ "verdict" \in Steps /\ "check_revision" \in Steps
      /\ "mark_exhausted" \in Steps /\ "retry_exhausted" \in Steps /\ "read_current" \in Steps
      /\ "abstention_recorded" \in Steps /\ "controller_run_created" \in Steps
      /\ "approval_recorded" \in Steps /\ "approval_rejected_stale" \in Steps
      /\ "mark_completed" \in Steps /\ "coordination" \in Steps
  BY DEF Steps, AccessSteps, EventTypes
<1>5. CASE ReadRevision(t)
  <2>1. run.revision + (IF Advances(req[t].step) THEN 1 ELSE 0) \in Nat
    BY <1>1 DEF StoreTypeOK
  <2>2. ControlTypeOK'
    BY <1>1, <1>2, <2>1, <1>5 DEF ReadRevision, ControlTypeOK, Requests, Phases, history
  <2> QED
    BY <1>3, <1>5, <2>2 DEF ReadRevision
<1>6. CASE ReadSequence(t)
  <2>1. NextSequence \in Nat
    BY FS_CardinalityType, NextSequenceIsNext DEF LogInv, LogIsDense
  <2> QED
    BY <1>1, <1>2, <2>1, <1>3, <1>6 DEF ReadSequence, ControlTypeOK, Requests, Phases, history
<1>7. CASE CommitEvent(t)
  <2>1. req[t].step \in EventTypes
    BY <1>7 DEF CommitEvent, Appending
  <2>2. Source(t) \in Evidence \cup {NoEvidence} /\ Approved(t) \in Nat
    BY <1>2 DEF Source, Approved, Requests
  <2>3. StoreTypeOK'
    BY <1>1, <1>2, <1>7, <2>1, <2>2, AppendEventType DEF CommitEvent, Requests
  <2>4. ASSUME req[t].step \notin {"evidence_deduplicated", "approval_rejected_stale", "retry_exhausted"},
               NEW stale \in BOOLEAN
        PROVE  Following(req[t].step, stale) \in Steps
    BY <2>1, <2>4 DEF Following, Steps, AccessSteps, EventTypes
  <2>5. Standing \in BOOLEAN
    BY DEF Standing
  <2>6. \/ Answer(t)
        \/ Raise(t)
        \/ /\ req[t].step \notin {"evidence_deduplicated", "approval_rejected_stale", "retry_exhausted"}
           /\ Goto(t, Following(req[t].step, Standing))
    BY <1>7 DEF CommitEvent
  <2>7. ControlTypeOK'
    BY <1>1, <2>4, <2>5, <2>6, GotoType, AnswerType, RaiseType
  <2> QED
    BY <2>3, <2>7
<1>8. CASE CollideEvent(t)
  BY <1>1, <1>3, <1>8, RaiseType DEF CollideEvent
<1>9. CASE StoreEvidence(t)
  <2>1. req[t].evidence \in Evidence
    BY <1>9 DEF StoreEvidence, ObserverInv
  <2>2. StoreTypeOK'
    BY <1>1, <1>9, <2>1 DEF StoreEvidence, AddEvidence, StoreTypeOK
  <2> QED
    BY <1>1, <1>4, <1>9, <2>2, GotoType DEF StoreEvidence
<1>10. CASE DuplicateEvidence(t)
  BY <1>1, <1>3, <1>4, <1>10, GotoType DEF DuplicateEvidence
<1>11. CASE HoldRelease(t)
  <2>1. StoreTypeOK'
    BY <1>1, <1>11, UpdateRunType DEF HoldRelease, StoreTypeOK, Statuses, Decisions
  <2> QED
    BY <1>1, <1>4, <1>11, <2>1, GotoType DEF HoldRelease
<1>12. CASE Coordinate(t)
  <2>1. ControlTypeOK'
    BY <1>1, <1>2, <1>4, <1>12, ReleaseControlAssumption DEF Coordinate, ControlTypeOK, Requests, history
  <2> QED
    BY <1>3, <1>12, <2>1 DEF Coordinate
<1>13. CASE FinishCoordination(t)
  BY <1>1, <1>3, <1>4, <1>13, GotoType, AnswerType DEF FinishCoordination
<1>14. CASE ExhaustRetries(t)
  BY <1>1, <1>3, <1>4, <1>14, GotoType DEF ExhaustRetries
<1>15. CASE MarkExhausted(t)
  <2>1. StoreTypeOK'
    BY <1>1, <1>15, UpdateRunType DEF MarkExhausted, Statuses, Gates, Decisions
  <2> QED
    BY <1>1, <1>4, <1>15, <2>1, GotoType DEF MarkExhausted
<1>16. CASE StartRun(t)
  <2>1. StoreTypeOK'
    BY <1>1, <1>16 DEF StartRun, InsertRun, StoreTypeOK, Statuses, Gates, Decisions
  <2> QED
    BY <1>1, <1>4, <1>16, <2>1, GotoType DEF StartRun
<1>17. CASE JudgeGate(t)
  <2>1. PICK outcome \in GateOutcomes, autoApprove \in BOOLEAN :
          /\ UpdateRun("PAUSED_AWAITING_HUMAN", outcome.gate, outcome.decision)
          /\ IF autoApprove /\ outcome.gate = "passed" THEN Goto(t, "read_current") ELSE Answer(t)
    BY <1>17 DEF JudgeGate
  <2>2. outcome.gate \in Gates /\ outcome.decision \in Decisions
    BY DEF GateOutcomes, Gates, Decisions
  <2>3. StoreTypeOK'
    BY <1>1, <2>1, <2>2, UpdateRunType DEF Statuses
  <2> QED
    BY <1>1, <1>4, <2>1, <2>3, GotoType, AnswerType
<1>18. CASE JudgeInsufficient(t)
  <2>1. StoreTypeOK'
    BY <1>1, <1>18, UpdateRunType DEF JudgeInsufficient, Statuses, Gates, Decisions
  <2> QED
    BY <1>1, <1>18, <2>1, AnswerType DEF JudgeInsufficient
<1>19. CASE JudgeEvaluation(t)
  BY <1>1, <1>3, <1>4, <1>19, GotoType, AnswerType DEF JudgeEvaluation
<1>20. CASE MarkAbstained(t)
  <2>1. StoreTypeOK'
    BY <1>1, <1>20, UpdateRunType DEF MarkAbstained, Statuses, Gates, Decisions
  <2> QED
    BY <1>1, <1>20, <2>1, AnswerType DEF MarkAbstained
<1>21. CASE ReadCurrent(t)
  <2>1. ControlTypeOK'
    BY <1>1, <1>2, <1>4, <1>21 DEF ReadCurrent, ControlTypeOK, Requests, StoreTypeOK, history
  <2> QED
    BY <1>3, <1>21, <2>1 DEF ReadCurrent
<1>22. CASE CheckRevision(t)
  BY <1>1, <1>3, <1>4, <1>22, GotoType DEF CheckRevision
<1>23. CASE GrantApproval(t)
  <2>1. StoreTypeOK'
    BY <1>1, <1>2, <1>23, GrantedFacts DEF GrantApproval, AddApproval, StoreTypeOK, Requests
  <2> QED
    BY <1>1, <1>4, <1>23, <2>1, GotoType DEF GrantApproval
<1>24. CASE MarkCompleted(t)
  <2>1. StoreTypeOK'
    BY <1>1, <1>24, UpdateRunType DEF MarkCompleted, StoreTypeOK, Statuses, Decisions
  <2> QED
    BY <1>1, <1>24, <2>1, AnswerType DEF MarkCompleted
<1>25. CASE MarkPaused(t)
  <2>1. StoreTypeOK'
    BY <1>1, <1>25, UpdateRunType DEF MarkPaused, StoreTypeOK, Statuses, Decisions
  <2> QED
    BY <1>1, <1>25, <2>1, AnswerType DEF MarkPaused
<1>26. CASE MarkDenied(t)
  <2>1. StoreTypeOK'
    BY <1>1, <1>26, UpdateRunType DEF MarkDenied, Statuses, Gates, Decisions
  <2> QED
    BY <1>1, <1>26, <2>1, AnswerType DEF MarkDenied
<1> QED
  BY <1>5, <1>6, <1>7, <1>8, <1>9, <1>10, <1>11, <1>12, <1>13, <1>14, <1>15, <1>16, <1>17,
     <1>18, <1>19, <1>20, <1>21, <1>22, <1>23, <1>24, <1>25, <1>26 DEF Step
-----------------------------------------------------------------------------
(***************************************************************************)
(* The log.                                                                *)
(***************************************************************************)
\* Outside append_event a handler's phase is "revision", so only two accesses
\* can bring a handler to the write of an event or change what it will write.
LEMMA LogShape ==
  ASSUME TypeOK, NEW t \in Handlers, Receive(t) \/ Step(t) \/ Fail(t)
  PROVE  \/ CommitEvent(t)
         \/ ReadSequence(t)
         \/ /\ UNCHANGED events
            /\ \A u \in Handlers :
                 req'[u].phase = "write" =>
                   req[u].phase = "write" /\ req'[u].sequence = req[u].sequence
<1> DEFINE Quiet == \A u \in Handlers :
                      req'[u].phase = "write" =>
                        req[u].phase = "write" /\ req'[u].sequence = req[u].sequence
<1>1. req \in [Handlers -> Requests]
  BY DEF TypeOK
<1>2. ASSUME NEW s, Goto(t, s) PROVE Quiet
  BY <1>1, <1>2 DEF Goto, Requests
<1>3. ASSUME Answer(t) \/ Raise(t) PROVE Quiet
  BY <1>1, <1>3 DEF Answer, Raise, IdleRequest
<1>4. ASSUME NEW purpose, NEW s, NEW e, NEW x, Accept(t, purpose, s, e, x) PROVE Quiet
  BY <1>1, <1>4 DEF Accept, IdleRequest
<1>5. CASE Receive(t)
  <2>1. Quiet
    BY <1>4, <1>5 DEF Receive, ReceiveCreate, ReceiveEvidence, ReceiveApproval,
       ReceiveResume, ReceivePause, ReceiveDenial, ReceiveWork, ReceiveStaleDemo
  <2>2. UNCHANGED events
    BY <1>5 DEF Receive, ReceiveCreate, ReceiveEvidence, ReceiveApproval, ReceiveResume,
       ReceivePause, ReceiveDenial, ReceiveWork, ReceiveStaleDemo, Accept, store
  <2> QED
    BY <2>1, <2>2
<1>6. CASE Fail(t)
  BY <1>3, <1>6 DEF Fail, store
<1>7. CASE ReadRevision(t)
  BY <1>1, <1>7 DEF ReadRevision, Requests, store
<1>8. CASE Coordinate(t)
  BY <1>1, <1>8 DEF Coordinate, Requests, store
<1>9. CASE ReadCurrent(t)
  BY <1>1, <1>9 DEF ReadCurrent, Requests, store
<1>10. CASE CollideEvent(t) \/ StoreEvidence(t) \/ DuplicateEvidence(t) \/ HoldRelease(t)
            \/ FinishCoordination(t) \/ ExhaustRetries(t) \/ MarkExhausted(t) \/ StartRun(t)
  BY <1>2, <1>3, <1>10 DEF CollideEvent, StoreEvidence, DuplicateEvidence, HoldRelease,
     FinishCoordination, ExhaustRetries, MarkExhausted, StartRun, store, AddEvidence,
     UpdateRun, InsertRun
<1>11. CASE JudgeGate(t) \/ JudgeInsufficient(t) \/ JudgeEvaluation(t) \/ MarkAbstained(t)
            \/ CheckRevision(t) \/ GrantApproval(t) \/ MarkCompleted(t) \/ MarkPaused(t)
            \/ MarkDenied(t)
  BY <1>2, <1>3, <1>11 DEF JudgeGate, JudgeInsufficient, JudgeEvaluation, MarkAbstained,
     CheckRevision, GrantApproval, MarkCompleted, MarkPaused, MarkDenied, store, UpdateRun,
     AddApproval
<1> QED
  BY <1>5, <1>6, <1>7, <1>8, <1>9, <1>10, <1>11 DEF Step

\* A committed event takes the sequence right after the log's last: its sequence
\* was at most that, and the smaller ones are taken.
LEMMA CommitLog ==
  ASSUME TypeOK, LogInv, NEW t \in Handlers, CommitEvent(t)
  PROVE  /\ IsFiniteSet(events')
         /\ Cardinality(events') = Cardinality(events) + 1
         /\ LogIsDense'
<1> DEFINE n == Cardinality(events)
           new == [sequence |-> req[t].sequence, type |-> req[t].step,
                   revision |-> req[t].revision, source |-> Source(t),
                   approved |-> Approved(t)]
<1>1. n \in Nat /\ IsFiniteSet(events) /\ Sequences = 1..n
  BY FS_CardinalityType DEF LogInv, LogIsDense
<1>2. events' = events \cup {new} /\ SequenceFree(req[t].sequence)
  BY DEF CommitEvent, AppendEvent
<1>3. req[t].sequence \in 1..(n + 1)
  BY DEF CommitEvent, Appending, LogInv
<1>4. new.sequence = n + 1
  BY <1>1, <1>2, <1>3 DEF SequenceFree
<1> HIDE DEF new
<1>5. new \notin events
  <2>1. \A e \in events : e.sequence \in 1..n
    BY <1>1 DEF Sequences
  <2>2. n + 1 \notin 1..n
    BY <1>1
  <2> HIDE DEF n
  <2> QED
    BY <1>4, <2>1, <2>2
<1>6. IsFiniteSet(events') /\ Cardinality(events') = n + 1
  BY <1>1, <1>2, <1>5, FS_AddElement
<1>7. Sequences' = Sequences \cup {n + 1}
  BY <1>2, <1>4 DEF Sequences
<1>8. Sequences' = 1..(n + 1)
  BY <1>1, <1>7
<1> QED
  BY <1>6, <1>8 DEF LogIsDense

LEMMA LogPreserved ==
  ASSUME TypeOK, LogInv, NEW t \in Handlers, Receive(t) \/ Step(t) \/ Fail(t)
  PROVE  LogInv'
<1> DEFINE n == Cardinality(events)
<1>0. n \in Nat /\ Sequences = 1..n
  BY FS_CardinalityType DEF LogInv, LogIsDense
<1>1. CASE CommitEvent(t)
  <2>1. \A u \in Handlers : req'[u].phase = "write" =>
           req[u].phase = "write" /\ req'[u].sequence = req[u].sequence
    <3>1. req \in [Handlers -> Requests]
      BY DEF TypeOK
    <3>2. CASE Answer(t) \/ Raise(t)
      BY <3>1, <3>2 DEF Answer, Raise, IdleRequest
    <3>3. CASE \E s : Goto(t, s)
      BY <3>1, <3>3 DEF Goto, Requests
    <3> QED
      BY <1>1, <3>2, <3>3 DEF CommitEvent
  <2>2. \A u \in Handlers : req'[u].phase = "write" => req'[u].sequence \in 1..(n + 2)
    BY <1>0, <2>1 DEF LogInv
  <2> QED
    BY <1>0, <1>1, <2>2, CommitLog DEF LogInv
<1>2. CASE ReadSequence(t)
  <2>1. NextSequence = n + 1
    BY <1>0, NextSequenceIsNext
  <2>2. \A u \in Handlers : req'[u].phase = "write" => req'[u].sequence \in 1..(n + 1)
    BY <1>0, <1>2, <2>1 DEF ReadSequence, TypeOK, Requests, LogInv
  <2> QED
    BY <1>2, <2>2 DEF ReadSequence, store, LogInv, LogIsDense, Sequences
<1>3. CASE /\ UNCHANGED events
           /\ \A u \in Handlers : req'[u].phase = "write" =>
                req[u].phase = "write" /\ req'[u].sequence = req[u].sequence
  BY <1>3 DEF LogInv, LogIsDense, Sequences
<1> QED
  BY <1>1, <1>2, <1>3, LogShape
-----------------------------------------------------------------------------
(***************************************************************************)
(* Evidence.                                                               *)
(***************************************************************************)
\* Which handlers may come to store or to observe evidence.  StoreEvidence alone
\* brings a handler to "evidence_observed"; accepting a delivery alone brings
\* one to "add_evidence".
Delivers(t) ==
  \A u \in Handlers :
    /\ req'[u].step = "add_evidence" => req'[u].evidence \in Evidence
    /\ req'[u].step = "evidence_observed" =>
         req[u].step = "evidence_observed" /\ req'[u].evidence = req[u].evidence

\* A handler stays about to observe its evidence until it dies: the evidence is
\* then lost, and no other is.
Accounts(t) ==
  /\ \A u \in Handlers : req[u].step = "evidence_observed" =>
       \/ req'[u].step = "evidence_observed" /\ req'[u].evidence = req[u].evidence
       \/ req[u].evidence \in lost'
  /\ \/ lost' = lost
     \/ /\ req[t].step = "evidence_observed" /\ req'[t].step # "evidence_observed"
        /\ lost' = lost \cup {req[t].evidence}

LEMMA GotoDelivers ==
  ASSUME TypeOK, ObserverInv, NEW t \in Handlers, NEW s, Goto(t, s),
         s \notin {"add_evidence", "evidence_observed"}
  PROVE  /\ Delivers(t)
         /\ req[t].step # "evidence_observed" => Accounts(t)
BY DEF Delivers, Accounts, Goto, TypeOK, Requests, ObserverInv, history

LEMMA AnswerDelivers ==
  ASSUME TypeOK, ObserverInv, NEW t \in Handlers, Answer(t)
  PROVE  /\ Delivers(t)
         /\ req[t].step # "evidence_observed" => Accounts(t)
BY DEF Delivers, Accounts, Answer, IdleRequest, TypeOK, ObserverInv

LEMMA RaiseDelivers ==
  ASSUME TypeOK, ObserverInv, NEW t \in Handlers, Raise(t)
  PROVE  Delivers(t) /\ Accounts(t)
<1>1. req' = [req EXCEPT ![t] = IdleRequest] /\ IdleRequest.step = "idle"
  BY DEF Raise, IdleRequest
<1>2. \A u \in Handlers : IF u = t THEN req'[u].step = "idle" ELSE req'[u] = req[u]
  BY <1>1 DEF TypeOK
<1>3. lost' = IF req[t].step = "evidence_observed" THEN lost \cup {req[t].evidence} ELSE lost
  BY DEF Raise
<1> QED
  BY <1>2, <1>3 DEF Delivers, Accounts, ObserverInv

LEMMA AcceptDelivers ==
  ASSUME TypeOK, ObserverInv, NEW t \in Handlers,
         NEW purpose, NEW s, NEW e, NEW x, Accept(t, purpose, s, e, x),
         s # "evidence_observed", s = "add_evidence" => e \in Evidence
  PROVE  Delivers(t) /\ Accounts(t)
BY DEF Delivers, Accounts, Accept, Idle, IdleRequest, TypeOK, ObserverInv, history

LEMMA EvidenceShape ==
  ASSUME TypeOK, ObserverInv, NEW t \in Handlers, Receive(t) \/ Step(t) \/ Fail(t)
  PROVE  \/ CommitEvent(t)
         \/ StoreEvidence(t)
         \/ UNCHANGED <<events, evidence>> /\ Delivers(t) /\ Accounts(t)
<1>1. req \in [Handlers -> Requests]
  BY DEF TypeOK
<1>2. CASE Receive(t)
  <2>1. Delivers(t) /\ Accounts(t)
    BY <1>2, AcceptDelivers, ReleaseControlAssumption DEF Receive, ReceiveCreate,
       ReceiveEvidence, ReceiveApproval, ReceiveResume, ReceivePause, ReceiveDenial,
       ReceiveWork, ReceiveStaleDemo
  <2>2. UNCHANGED <<events, evidence>>
    BY <1>2 DEF Receive, ReceiveCreate, ReceiveEvidence, ReceiveApproval, ReceiveResume,
       ReceivePause, ReceiveDenial, ReceiveWork, ReceiveStaleDemo, Accept, store
  <2> QED
    BY <2>1, <2>2
<1>3. CASE Fail(t) \/ CollideEvent(t)
  BY <1>3, RaiseDelivers DEF Fail, CollideEvent, store
<1>4. CASE ReadRevision(t) \/ ReadSequence(t) \/ Coordinate(t) \/ ReadCurrent(t)
  <2>1. Delivers(t) /\ Accounts(t)
    BY <1>1, <1>4 DEF ReadRevision, ReadSequence, Coordinate, ReadCurrent, Appending,
       Requests, Delivers, Accounts, ObserverInv, history
  <2> QED
    BY <1>4, <2>1 DEF ReadRevision, ReadSequence, Coordinate, ReadCurrent, store
<1>5. CASE DuplicateEvidence(t) \/ HoldRelease(t) \/ FinishCoordination(t)
           \/ ExhaustRetries(t) \/ MarkExhausted(t) \/ StartRun(t)
  BY <1>5, GotoDelivers, AnswerDelivers DEF DuplicateEvidence, HoldRelease,
     FinishCoordination, ExhaustRetries, MarkExhausted, StartRun, store, UpdateRun, InsertRun
<1>6. CASE JudgeGate(t) \/ JudgeInsufficient(t) \/ JudgeEvaluation(t) \/ MarkAbstained(t)
  BY <1>6, GotoDelivers, AnswerDelivers DEF JudgeGate, JudgeInsufficient, JudgeEvaluation,
     MarkAbstained, store, UpdateRun
<1>7. CASE CheckRevision(t) \/ GrantApproval(t) \/ MarkCompleted(t) \/ MarkPaused(t)
           \/ MarkDenied(t)
  BY <1>7, GotoDelivers, AnswerDelivers DEF CheckRevision, GrantApproval, MarkCompleted,
     MarkPaused, MarkDenied, store, UpdateRun, AddApproval
<1> QED
  BY <1>2, <1>3, <1>4, <1>5, <1>6, <1>7 DEF Step

\* A committed event ends its handler's observation: the handler moves on.
LEMMA CommitDelivers ==
  ASSUME TypeOK, ObserverInv, NEW t \in Handlers, CommitEvent(t)
  PROVE  /\ Delivers(t) /\ req'[t].step # "evidence_observed"
         /\ lost' = lost
         /\ \A u \in Handlers \ {t} : req'[u] = req[u]
<1>1. CASE Answer(t) \/ (Raise(t) /\ req[t].step # "evidence_observed")
  <2>1. Delivers(t)
    BY <1>1, AnswerDelivers, RaiseDelivers
  <2> QED
    BY <1>1, <2>1 DEF Answer, Raise, IdleRequest, TypeOK
<1>2. CASE /\ req[t].step \notin {"evidence_deduplicated", "approval_rejected_stale", "retry_exhausted"}
           /\ Goto(t, Following(req[t].step, Standing))
  <2>1. req[t].step \in EventTypes
    BY DEF CommitEvent, Appending
  <2>2. Following(req[t].step, Standing) \notin {"add_evidence", "evidence_observed"}
    BY <1>2, <2>1 DEF Following, EventTypes
  <2>3. Delivers(t)
    BY <1>2, <2>2, GotoDelivers
  <2>4. req'[t].step = Following(req[t].step, Standing)
    BY <1>2 DEF Goto, TypeOK, Requests
  <2>5. lost' = lost /\ \A u \in Handlers \ {t} : req'[u] = req[u]
    BY <1>2 DEF Goto, TypeOK, history
  <2> QED
    BY <2>2, <2>3, <2>4, <2>5
<1> QED
  BY <1>1, <1>2 DEF CommitEvent

LEMMA EvidencePreserved ==
  ASSUME TypeOK, ObserverInv, EvidenceObservedOnce, NEW t \in Handlers,
         Receive(t) \/ Step(t) \/ Fail(t)
  PROVE  ObserverInv' /\ EvidenceObservedOnce' /\ lost \subseteq lost'
<1>1. req \in [Handlers -> Requests]
  BY DEF TypeOK
<1>2. CASE UNCHANGED <<events, evidence>> /\ Delivers(t) /\ Accounts(t)
  <2>1. EventsOf("evidence_observed")' = EventsOf("evidence_observed")
    BY <1>2 DEF EventsOf
  <2>2. lost \subseteq lost'
    BY <1>2 DEF Accounts
  <2>3. ASSUME NEW u \in Handlers, req'[u].step = "evidence_observed"
        PROVE  req'[u].evidence \notin lost'
    <3>1. req[u].step = "evidence_observed" /\ req'[u].evidence = req[u].evidence
      BY <1>2, <2>3 DEF Delivers
    <3>2. CASE lost' = lost
      BY <3>1, <3>2 DEF ObserverInv
    <3>3. CASE /\ req[t].step = "evidence_observed" /\ req'[t].step # "evidence_observed"
               /\ lost' = lost \cup {req[t].evidence}
      <4>1. u # t
        BY <2>3, <3>3
      <4>2. req[u].evidence # req[t].evidence /\ req[u].evidence \notin lost
        BY <3>1, <3>3, <4>1 DEF ObserverInv
      <4> QED
        BY <3>1, <3>3, <4>2
    <3> QED
      BY <1>2, <3>2, <3>3 DEF Accounts
  <2>4. ObserverInv'
    BY <1>2, <2>1, <2>3 DEF Delivers, ObserverInv
  <2>5. ASSUME NEW x \in evidence
        PROVE  Observed(x)' \/ x \in lost' \/ \E u \in Handlers : Observing(u, x)'
    <3>1. CASE Observed(x) \/ x \in lost
      BY <2>1, <2>2, <3>1 DEF Observed
    <3>2. CASE \E u \in Handlers : Observing(u, x)
      BY <1>2, <3>2 DEF Accounts, Observing
    <3> QED
      BY <3>1, <3>2 DEF EvidenceObservedOnce
  <2>6. ASSUME NEW x \in lost' PROVE x \in evidence /\ ~Observed(x)
    BY <1>2, <2>6 DEF Accounts, ObserverInv, EvidenceObservedOnce, Observed
  <2>7. EvidenceObservedOnce'
    BY <1>2, <2>1, <2>5, <2>6 DEF EvidenceObservedOnce, Observed
  <2> QED
    BY <2>2, <2>4, <2>7
<1>3. CASE StoreEvidence(t)
  <2>1. /\ req[t].evidence \in Evidence
        /\ req[t].evidence \notin evidence
        /\ evidence' = evidence \cup {req[t].evidence}
        /\ events' = events /\ lost' = lost
        /\ req[t].step = "add_evidence"
    BY <1>3 DEF StoreEvidence, AddEvidence, ObserverInv, Goto, history
  <2>2. /\ \A e \in EventsOf("evidence_observed") : e.source # req[t].evidence
        /\ req[t].evidence \notin lost
    BY <2>1 DEF EvidenceObservedOnce
  <2>3. /\ req'[t].step = "evidence_observed"
        /\ req'[t].evidence = req[t].evidence
        /\ \A u \in Handlers \ {t} : req'[u] = req[u]
    BY <1>1, <1>3 DEF StoreEvidence, Goto, Requests
  <2>4. ObserverInv'
    BY <2>1, <2>2, <2>3 DEF ObserverInv, EventsOf
  <2>5. \A x \in evidence' : Observed(x)' \/ x \in lost' \/ \E u \in Handlers : Observing(u, x)'
    <3>2. \A u \in Handlers, x \in evidence : Observing(u, x) => Observing(u, x)'
      BY <2>1, <2>3 DEF Observing
    <3>3. \A x \in evidence : Observed(x) => Observed(x)'
      BY <2>1 DEF Observed, EventsOf
    <3>4. \A x \in evidence : Observed(x)' \/ x \in lost \/ \E u \in Handlers : Observing(u, x)'
      BY <3>2, <3>3 DEF EvidenceObservedOnce
    <3>5. \A x \in evidence' : x \in evidence \/ x = req[t].evidence
      BY <2>1
    <3>6. ASSUME NEW x, x = req[t].evidence PROVE Observing(t, x)'
      BY <2>3, <3>6 DEF Observing
    <3> QED
      BY <2>1, <3>4, <3>5, <3>6
  <2>6. EvidenceObservedOnce'
    BY <2>1, <2>5 DEF EvidenceObservedOnce, Observed, EventsOf
  <2> QED
    BY <2>1, <2>4, <2>6
<1>4. CASE CommitEvent(t)
  <2> DEFINE new == [sequence |-> req[t].sequence, type |-> req[t].step,
                     revision |-> req[t].revision, source |-> Source(t),
                     approved |-> Approved(t)]
  <2>1. events' = events \cup {new} /\ evidence' = evidence
    BY <1>4 DEF CommitEvent, AppendEvent
  <2>2. /\ Delivers(t) /\ req'[t].step # "evidence_observed" /\ lost' = lost
        /\ \A u \in Handlers \ {t} : req'[u] = req[u]
    BY <1>4, CommitDelivers
  <2>3. new.type = req[t].step
    OBVIOUS
  <2>4. req[t].step = "evidence_observed" => new.source = req[t].evidence
    BY DEF Source
  <2> HIDE DEF new
  <2>5. ASSUME NEW e \in EventsOf("evidence_observed")'
        PROVE  e \in EventsOf("evidence_observed")
                 \/ (e = new /\ req[t].step = "evidence_observed" /\ e.source = req[t].evidence)
    BY <2>1, <2>3, <2>4, <2>5 DEF EventsOf
  <2>6. ObserverInv'
    BY <2>1, <2>2, <2>5 DEF ObserverInv, Delivers
  <2>7. ASSUME NEW x \in evidence
        PROVE  Observed(x)' \/ x \in lost \/ \E u \in Handlers : Observing(u, x)'
    <3>1. CASE Observed(x)
      BY <2>1, <3>1 DEF Observed, EventsOf
    <3>2. CASE Observing(t, x)
      BY <2>1, <2>3, <2>4, <3>2 DEF Observed, Observing, EventsOf
    <3>3. ASSUME NEW u \in Handlers, Observing(u, x), u # t
          PROVE  Observing(u, x)'
      BY <2>2, <3>3 DEF Observing
    <3> QED
      BY <3>1, <3>2, <3>3 DEF EvidenceObservedOnce
  <2>8. ASSUME NEW x \in lost PROVE x \in evidence /\ ~Observed(x)'
    <3>1. x \in evidence /\ ~Observed(x)
      BY <2>8 DEF EvidenceObservedOnce
    <3>2. req[t].step = "evidence_observed" => x # req[t].evidence
      BY <2>8 DEF ObserverInv
    <3> QED
      BY <2>5, <3>1, <3>2 DEF Observed
  <2>9. \A e \in EventsOf("evidence_observed")' :
           /\ e.source \in evidence
           /\ \A f \in EventsOf("evidence_observed")' : e.source = f.source => e = f
    BY <2>5 DEF EvidenceObservedOnce, ObserverInv
  <2>10. EvidenceObservedOnce'
    BY <2>1, <2>2, <2>7, <2>8, <2>9 DEF EvidenceObservedOnce
  <2> QED
    BY <2>2, <2>6, <2>10
<1> QED
  BY <1>2, <1>3, <1>4, EvidenceShape

-----------------------------------------------------------------------------
(***************************************************************************)
(* Approvals.                                                              *)
(***************************************************************************)
LEMMA ApprovalShape ==
  ASSUME TypeOK, NEW t \in Handlers, Receive(t) \/ Step(t) \/ Fail(t)
  PROVE  \/ UNCHANGED approvals
         \/ approvals' = Retired("STALE")
         \/ \E r \in Nat : AddApproval(r)
<1>1. CASE Receive(t)
  BY <1>1 DEF Receive, ReceiveCreate, ReceiveEvidence, ReceiveApproval, ReceiveResume,
     ReceivePause, ReceiveDenial, ReceiveWork, ReceiveStaleDemo, Accept, store
<1>2. CASE CommitEvent(t)
  BY <1>2 DEF CommitEvent, AppendEvent
<1>3. CASE GrantApproval(t)
  BY <1>3 DEF GrantApproval, TypeOK, Requests
<1>4. CASE Fail(t) \/ ReadRevision(t) \/ ReadSequence(t) \/ CollideEvent(t) \/ StoreEvidence(t)
           \/ DuplicateEvidence(t) \/ HoldRelease(t) \/ Coordinate(t) \/ FinishCoordination(t)
           \/ ExhaustRetries(t) \/ MarkExhausted(t) \/ StartRun(t)
  BY <1>4 DEF Fail, ReadRevision, ReadSequence, CollideEvent, StoreEvidence, DuplicateEvidence,
     HoldRelease, Coordinate, FinishCoordination, ExhaustRetries, MarkExhausted, StartRun,
     store, AddEvidence, UpdateRun, InsertRun
<1>5. CASE JudgeGate(t) \/ JudgeInsufficient(t) \/ JudgeEvaluation(t) \/ MarkAbstained(t)
           \/ ReadCurrent(t) \/ CheckRevision(t) \/ MarkCompleted(t) \/ MarkPaused(t)
           \/ MarkDenied(t)
  BY <1>5 DEF JudgeGate, JudgeInsufficient, JudgeEvaluation, MarkAbstained, ReadCurrent,
     CheckRevision, MarkCompleted, MarkPaused, MarkDenied, store, UpdateRun
<1> QED
  BY <1>1, <1>2, <1>3, <1>4, <1>5 DEF Step

ApprovalStep ==
  \A i \in DOMAIN approvals :
    /\ i \in DOMAIN approvals'
    /\ approvals'[i].revision = approvals[i].revision
    /\ approvals[i].status # "APPROVED" => approvals'[i] = approvals[i]

LEMMA ApprovalsPreserved ==
  ASSUME TypeOK, AtMostOneApproved, NEW t \in Handlers, Receive(t) \/ Step(t) \/ Fail(t)
  PROVE  AtMostOneApproved' /\ ApprovalStep
<1> DEFINE n == Len(approvals)
<1>1. approvals \in Seq(ApprovalRows)
  BY DEF TypeOK, StoreTypeOK
<1>2. n \in Nat /\ DOMAIN approvals = 1..n
  BY <1>1, LenProperties
<1>3. CASE UNCHANGED approvals
  BY <1>3 DEF AtMostOneApproved, ApprovalStep
<1>4. CASE approvals' = Retired("STALE")
  BY <1>1, <1>4, RetiredFacts DEF AtMostOneApproved, ApprovalStep
<1>5. CASE \E r \in Nat : AddApproval(r)
  <2> PICK r \in Nat : AddApproval(r)
    BY <1>5
  <2>1. /\ approvals' \in Seq(ApprovalRows)
        /\ Len(approvals') = n + 1
        /\ \A i \in 1..n : approvals'[i] = Retired("SUPERSEDED")[i]
    BY <1>1, <1>2, GrantedFacts
  <2>2. DOMAIN approvals' = 1..(n + 1)
    BY <2>1, LenProperties
  <2>3. \A i \in 1..n :
          /\ approvals'[i].status # "APPROVED"
          /\ approvals'[i].revision = approvals[i].revision
          /\ approvals[i].status # "APPROVED" => approvals'[i] = approvals[i]
    BY <1>1, <1>2, <2>1, RetiredFacts
  <2>4. AtMostOneApproved'
    BY <1>2, <2>2, <2>3 DEF AtMostOneApproved
  <2>5. ApprovalStep
    BY <1>2, <2>2, <2>3 DEF ApprovalStep
  <2> QED
    BY <2>4, <2>5
<1> QED
  BY <1>3, <1>4, <1>5, ApprovalShape

-----------------------------------------------------------------------------
(***************************************************************************)
(* The inductive invariant and what it gives.                              *)
(***************************************************************************)
LEMMA InitIInv == Init => IInv
<1> SUFFICES ASSUME Init PROVE IInv
  OBVIOUS
<1>1. TypeOK
  BY InitType
<1>2. events = {} /\ evidence = {} /\ approvals = << >>
  BY DEF Init, StoreInit
<1>3. \A t \in Handlers : req[t].phase = "revision" /\ req[t].step = "idle"
  BY DEF Init, IdleRequest
<1>4. LogInv
  BY <1>2, <1>3, FS_EmptySet DEF LogInv, LogIsDense, Sequences
<1>5. ObserverInv
  BY <1>3 DEF ObserverInv
<1>6. EvidenceObservedOnce
  BY <1>2 DEF EvidenceObservedOnce, EventsOf, Init
<1>7. AtMostOneApproved
  BY <1>2 DEF AtMostOneApproved
<1> QED
  BY <1>1, <1>4, <1>5, <1>6, <1>7 DEF IInv

LEMMA StutterIInv == IInv /\ UNCHANGED vars => IInv' /\ UNCHANGED approvals
<1> SUFFICES ASSUME IInv, UNCHANGED vars PROVE IInv' /\ UNCHANGED approvals
  OBVIOUS
<1> USE DEF vars, store, history
<1>1. TypeOK'
  BY DEF IInv, TypeOK, StoreTypeOK
<1>2. LogInv'
  BY DEF IInv, LogInv, LogIsDense, Sequences
<1>3. ObserverInv'
  BY DEF IInv, ObserverInv, EventsOf
<1>4. EvidenceObservedOnce' /\ AtMostOneApproved'
  BY DEF IInv, EvidenceObservedOnce, AtMostOneApproved, EventsOf, Observed, Observing
<1> QED
  BY <1>1, <1>2, <1>3, <1>4 DEF IInv

LEMMA FailType ==
  ASSUME TypeOK, ObserverInv, NEW t \in Handlers, Fail(t)
  PROVE  TypeOK'
BY RaiseType DEF Fail, TypeOK, ControlTypeOK, StoreTypeOK, store

LEMMA NextIInv == IInv /\ [Next]_vars => IInv' /\ [ApprovalStep]_approvals
<1> SUFFICES ASSUME IInv, [Next]_vars PROVE IInv' /\ [ApprovalStep]_approvals
  OBVIOUS
<1>1. ASSUME NEW t \in Handlers, Receive(t) \/ Step(t) \/ Fail(t)
      PROVE  IInv' /\ ApprovalStep
  <2>1. TypeOK'
    BY <1>1, ReceiveType, StepType, FailType DEF IInv
  <2>2. LogInv'
    BY <1>1, LogPreserved DEF IInv
  <2>3. ObserverInv' /\ EvidenceObservedOnce'
    BY <1>1, EvidencePreserved DEF IInv
  <2>4. AtMostOneApproved' /\ ApprovalStep
    BY <1>1, ApprovalsPreserved DEF IInv
  <2> QED
    BY <2>1, <2>2, <2>3, <2>4 DEF IInv
<1>2. CASE UNCHANGED vars
  BY <1>2, StutterIInv
<1>3. CASE Quiescent
  BY <1>3, StutterIInv DEF Quiescent
<1> QED
  BY <1>1, <1>2, <1>3 DEF Next

LEMMA SpecIInv == Spec => []IInv
BY InitIInv, NextIInv, PTL DEF Spec

\* Every reachable state of the handlers and of their tables is well typed; in
\* particular append_event always computes a sequence number.
THEOREM TypeCorrectness == Spec => []TypeOK
<1>1. IInv => TypeOK
  BY DEF IInv
<1> QED
  BY <1>1, SpecIInv, PTL

\* For any number of request threads the log's sequences are 1..n with no gap and
\* no repeat, despite the race between append_event's read and its write.
THEOREM DenseLog == Spec => []LogIsDense
<1>1. IInv => LogIsDense
  BY DEF IInv, LogInv
<1> QED
  BY <1>1, SpecIInv, PTL

\* An evidence id is observed at most once and only after it is stored, for any
\* number of concurrent deliveries and failures.
THEOREM EvidenceOnce == Spec => []EvidenceObservedOnce
<1>1. IInv => EvidenceObservedOnce
  BY DEF IInv
<1> QED
  BY <1>1, SpecIInv, PTL

\* No interleaving of reviewers and evidence leaves two approvals in force.
THEOREM OneApproval == Spec => []AtMostOneApproved
<1>1. IInv => AtMostOneApproved
  BY DEF IInv
<1> QED
  BY <1>1, SpecIInv, PTL

\* Approvals are never rewritten, and a retired one never comes back in force.
THEOREM FinalApprovals == Spec => ApprovalsAreFinal
<1>1. IInv /\ [Next]_vars => [ApprovalStep]_approvals
  BY NextIInv
<1>2. Spec => [][ApprovalStep]_approvals
  BY <1>1, SpecIInv, PTL DEF Spec
<1> QED
  BY <1>2 DEF ApprovalsAreFinal, ApprovalStep
-----------------------------------------------------------------------------
(***************************************************************************)
(* The handlers implement the ledger.                                      *)
(***************************************************************************)
\* Two events never share a sequence (the UNIQUE constraint).
SequencesUnique == \A e, f \in events : e.sequence = f.sequence => e = f

\* Where the log says an approval was recorded.
Recorded == {e.sequence : e \in EventsOf("approval_recorded")}

\* The handlers that logged their approval and have yet to store it.
Granting == {t \in Handlers : req[t].step = "add_approval"}

\* Every approval stored, and every one about to be, has an entry of the log of its own.
GrantsAreLogged ==
  /\ IsFiniteSet(Granting)
  /\ IsFiniteSet(Recorded)
  /\ Len(approvals) + Cardinality(Granting) <= Cardinality(Recorded)

LedgerInv == IInv /\ SequencesUnique /\ GrantsAreLogged

\* Which accesses touch the log or the approvals; no other brings a handler to
\* the storing of an approval.
LEMMA GrantShape ==
  ASSUME TypeOK, NEW t \in Handlers, Receive(t) \/ Step(t) \/ Fail(t)
  PROVE  \/ CommitEvent(t)
         \/ GrantApproval(t)
         \/ UNCHANGED <<events, approvals>> /\ Granting' \subseteq Granting
<1> DEFINE Quiet == \A u \in Handlers : req'[u].step = "add_approval" => req[u].step = "add_approval"
<1>0. Quiet => Granting' \subseteq Granting
  BY DEF Granting
<1>1. req \in [Handlers -> Requests]
  BY DEF TypeOK
<1>2. ASSUME NEW s, Goto(t, s), s # "add_approval" PROVE Quiet
  BY <1>1, <1>2 DEF Goto, Requests
<1>3. ASSUME Answer(t) \/ Raise(t) PROVE Quiet
  BY <1>1, <1>3 DEF Answer, Raise, IdleRequest
<1>4. ASSUME NEW purpose, NEW s, NEW e, NEW x, Accept(t, purpose, s, e, x), s # "add_approval"
      PROVE  Quiet
  BY <1>1, <1>4 DEF Accept, IdleRequest
<1>5. CASE Receive(t)
  <2>1. Quiet
    BY <1>4, <1>5 DEF Receive, ReceiveCreate, ReceiveEvidence, ReceiveApproval,
       ReceiveResume, ReceivePause, ReceiveDenial, ReceiveWork, ReceiveStaleDemo
  <2>2. UNCHANGED <<events, approvals>>
    BY <1>5 DEF Receive, ReceiveCreate, ReceiveEvidence, ReceiveApproval, ReceiveResume,
       ReceivePause, ReceiveDenial, ReceiveWork, ReceiveStaleDemo, Accept, store
  <2> QED
    BY <1>0, <2>1, <2>2
<1>6. CASE Fail(t)
  BY <1>0, <1>3, <1>6 DEF Fail, store
<1>7. CASE ReadRevision(t) \/ ReadSequence(t) \/ Coordinate(t) \/ ReadCurrent(t)
  <2>1. Quiet
    BY <1>1, <1>7 DEF ReadRevision, ReadSequence, Coordinate, ReadCurrent, Requests
  <2> QED
    BY <1>0, <1>7, <2>1 DEF ReadRevision, ReadSequence, Coordinate, ReadCurrent, store
<1>8. CASE CollideEvent(t) \/ StoreEvidence(t) \/ DuplicateEvidence(t) \/ HoldRelease(t)
           \/ FinishCoordination(t) \/ ExhaustRetries(t) \/ MarkExhausted(t) \/ StartRun(t)
  BY <1>0, <1>2, <1>3, <1>8 DEF CollideEvent, StoreEvidence, DuplicateEvidence, HoldRelease,
     FinishCoordination, ExhaustRetries, MarkExhausted, StartRun, store, AddEvidence,
     UpdateRun, InsertRun
<1>9. CASE JudgeGate(t) \/ JudgeInsufficient(t) \/ JudgeEvaluation(t) \/ MarkAbstained(t)
           \/ CheckRevision(t) \/ MarkCompleted(t) \/ MarkPaused(t) \/ MarkDenied(t)
  BY <1>0, <1>2, <1>3, <1>9 DEF JudgeGate, JudgeInsufficient, JudgeEvaluation, MarkAbstained,
     CheckRevision, MarkCompleted, MarkPaused, MarkDenied, store, UpdateRun
<1> QED
  BY <1>5, <1>6, <1>7, <1>8, <1>9 DEF Step

\* What a committed event adds to the log.
LEMMA CommitAdds ==
  ASSUME TypeOK, LogInv, NEW t \in Handlers, CommitEvent(t)
  PROVE  \E new \in EventRows :
           /\ events' = events \cup {new}
           /\ new.sequence = Cardinality(events) + 1
           /\ new.sequence \notin Sequences
           /\ new.type = req[t].step
           /\ new.source = Source(t)
           /\ new.revision = req[t].revision
           /\ new.approved = Approved(t)
<1> DEFINE n == Cardinality(events)
           new == [sequence |-> req[t].sequence, type |-> req[t].step,
                   revision |-> req[t].revision, source |-> Source(t),
                   approved |-> Approved(t)]
<1>1. n \in Nat /\ Sequences = 1..n
  BY FS_CardinalityType DEF LogInv, LogIsDense
<1>2. events' = events \cup {new} /\ req[t].sequence \notin Sequences
  BY DEF CommitEvent, AppendEvent, SequenceFree
<1>3. req[t].sequence \in 1..(n + 1)
  BY DEF CommitEvent, Appending, LogInv
<1>4. req[t].sequence = n + 1
  BY <1>1, <1>2, <1>3
<1>5. req[t] \in Requests /\ req[t].step \in EventTypes
  BY DEF TypeOK, CommitEvent, Appending
<1>6. Source(t) \in Evidence \cup {NoEvidence} /\ Approved(t) \in Nat
  BY <1>5 DEF Source, Approved, Requests
<1>7. new \in EventRows
  BY <1>5, <1>6 DEF EventRows, Requests
<1> QED
  BY <1>2, <1>4, <1>7

LEMMA UniquePreserved ==
  ASSUME TypeOK, LogInv, SequencesUnique, NEW t \in Handlers, Receive(t) \/ Step(t) \/ Fail(t)
  PROVE  SequencesUnique'
<1>1. CASE CommitEvent(t)
  <2>1. PICK new \in EventRows : events' = events \cup {new} /\ new.sequence \notin Sequences
    BY <1>1, CommitAdds
  <2> QED
    BY <2>1 DEF SequencesUnique, Sequences
<1>2. CASE UNCHANGED events
  BY <1>2 DEF SequencesUnique
<1> QED
  BY <1>1, <1>2, LogShape DEF ReadSequence, store

\* A handler comes to add_approval only by committing its approval_recorded, and
\* leaves it as it stores the approval.
LEMMA GrantsPreserved ==
  ASSUME TypeOK, LogInv, GrantsAreLogged, NEW t \in Handlers, Receive(t) \/ Step(t) \/ Fail(t)
  PROVE  GrantsAreLogged'
<1>1. req \in [Handlers -> Requests] /\ approvals \in Seq(ApprovalRows)
  BY DEF TypeOK, StoreTypeOK
<1>2. Len(approvals) \in Nat
  BY <1>1, LenProperties
<1>3. Cardinality(Granting) \in Nat /\ Cardinality(Recorded) \in Nat
  BY FS_CardinalityType DEF GrantsAreLogged
<1>4. ASSUME Granting' \subseteq Granting
      PROVE  IsFiniteSet(Granting') /\ Cardinality(Granting') \in Nat
               /\ Cardinality(Granting') <= Cardinality(Granting)
  BY <1>4, FS_Subset, FS_CardinalityType DEF GrantsAreLogged
<1>5. CASE UNCHANGED <<events, approvals>> /\ Granting' \subseteq Granting
  <2>1. Recorded' = Recorded
    BY <1>5 DEF Recorded, EventsOf
  <2> QED
    BY <1>2, <1>3, <1>4, <1>5, <2>1 DEF GrantsAreLogged
<1>6. CASE CommitEvent(t)
  <2>1. PICK new \in EventRows :
          events' = events \cup {new} /\ new.sequence \notin Sequences /\ new.type = req[t].step
    BY <1>6, CommitAdds
  <2>2. Len(approvals') = Len(approvals)
    BY <1>1, <1>6, RetiredFacts DEF CommitEvent, AppendEvent
  <2>3. Granting' \subseteq Granting \cup {t}
           /\ (req[t].step # "approval_recorded" => Granting' \subseteq Granting)
    <3>1. \A u \in Handlers \ {t} : req'[u] = req[u]
      BY <1>1, <1>6 DEF CommitEvent, Goto, Answer, Raise
    <3>2. CASE Answer(t) \/ Raise(t)
      <4>1. req'[t].step = "idle"
        BY <1>1, <3>2 DEF Answer, Raise, IdleRequest
      <4> QED
        BY <3>1, <4>1 DEF Granting
    <3>3. CASE /\ req[t].step \notin {"evidence_deduplicated", "approval_rejected_stale", "retry_exhausted"}
               /\ Goto(t, Following(req[t].step, Standing))
      <4>1. req'[t].step = Following(req[t].step, Standing)
        BY <1>1, <3>3 DEF Goto, Requests
      <4>2. req[t].step \in EventTypes
        BY <1>6 DEF CommitEvent, Appending
      <4>3. req[t].step # "approval_recorded" => Following(req[t].step, Standing) # "add_approval"
        BY <3>3, <4>2 DEF Following, EventTypes
      <4> QED
        BY <3>1, <4>1, <4>3 DEF Granting
    <3> QED
      BY <1>6, <3>2, <3>3 DEF CommitEvent
  <2>4. CASE req[t].step = "approval_recorded"
    <3>1. Recorded' = Recorded \cup {new.sequence}
      BY <2>1, <2>4 DEF Recorded, EventsOf
    <3>2. new.sequence \notin Recorded
      BY <2>1 DEF Recorded, EventsOf, Sequences
    <3>3. IsFiniteSet(Recorded') /\ Cardinality(Recorded') = Cardinality(Recorded) + 1
      BY <3>1, <3>2, FS_AddElement DEF GrantsAreLogged
    <3>4. IsFiniteSet(Granting \cup {t})
             /\ Cardinality(Granting \cup {t}) <= Cardinality(Granting) + 1
             /\ Cardinality(Granting \cup {t}) \in Nat
      <4>1. IsFiniteSet(Granting)
        BY DEF GrantsAreLogged
      <4>2. /\ IsFiniteSet(Granting \cup {t})
            /\ Cardinality(Granting \cup {t}) =
                 IF t \in Granting THEN Cardinality(Granting) ELSE Cardinality(Granting) + 1
        BY <4>1, FS_AddElement
      <4> QED
        BY <1>3, <4>2
    <3>5. IsFiniteSet(Granting') /\ Cardinality(Granting') <= Cardinality(Granting \cup {t})
             /\ Cardinality(Granting') \in Nat
      BY <2>3, <3>4, FS_Subset, FS_CardinalityType
    <3> QED
      BY <1>2, <1>3, <2>2, <3>3, <3>4, <3>5 DEF GrantsAreLogged
  <2>5. CASE req[t].step # "approval_recorded"
    <3>1. Recorded' = Recorded
      BY <2>1, <2>5 DEF Recorded, EventsOf
    <3> QED
      BY <1>2, <1>3, <1>4, <2>2, <2>3, <2>5, <3>1 DEF GrantsAreLogged
  <2> QED
    BY <2>4, <2>5
<1>7. CASE GrantApproval(t)
  <2>1. Recorded' = Recorded
    BY <1>7 DEF GrantApproval, AddApproval, Recorded, EventsOf
  <2>2. req[t].revision \in Nat
    BY <1>1 DEF Requests
  <2>3. Len(approvals') = Len(approvals) + 1
    BY <1>1, <1>7, <2>2, GrantedFacts DEF GrantApproval
  <2>4. t \in Granting /\ Granting' = Granting \ {t}
    BY <1>1, <1>7 DEF GrantApproval, Goto, Granting, Requests
  <2>5. IsFiniteSet(Granting') /\ Cardinality(Granting') = Cardinality(Granting) - 1
    BY <2>4, FS_RemoveElement DEF GrantsAreLogged
  <2> QED
    BY <1>2, <1>3, <2>1, <2>3, <2>5 DEF GrantsAreLogged
<1> QED
  BY <1>5, <1>6, <1>7, GrantShape

LEMMA InitLedgerInv == Init => LedgerInv
<1> SUFFICES ASSUME Init PROVE LedgerInv
  OBVIOUS
<1>1. events = {} /\ approvals = << >> /\ \A t \in Handlers : req[t].step = "idle"
  BY DEF Init, StoreInit, IdleRequest
<1>2. Recorded = {} /\ Granting = {} /\ Len(approvals) = 0
  BY <1>1 DEF Recorded, Granting, EventsOf
<1>3. GrantsAreLogged
  BY <1>2, FS_EmptySet DEF GrantsAreLogged
<1> QED
  BY <1>1, <1>3, InitIInv DEF LedgerInv, SequencesUnique

LEMMA NextLedgerInv == LedgerInv /\ [Next]_vars => LedgerInv'
<1> SUFFICES ASSUME LedgerInv, [Next]_vars PROVE LedgerInv'
  OBVIOUS
<1>1. IInv /\ IInv'
  BY NextIInv DEF LedgerInv
<1>2. ASSUME NEW t \in Handlers, Receive(t) \/ Step(t) \/ Fail(t)
      PROVE  SequencesUnique' /\ GrantsAreLogged'
  BY <1>1, <1>2, UniquePreserved, GrantsPreserved DEF LedgerInv, IInv
<1>3. CASE UNCHANGED vars
  <2>1. UNCHANGED <<events, approvals, req>>
    BY <1>3 DEF vars, store
  <2> QED
    BY <1>1, <2>1 DEF LedgerInv, SequencesUnique, GrantsAreLogged, Recorded, Granting, EventsOf
<1> QED
  BY <1>1, <1>2, <1>3 DEF Next, Quiescent, LedgerInv

LEMMA SpecLedgerInv == Spec => []LedgerInv
BY InitLedgerInv, NextLedgerInv, PTL DEF Spec

\* The log the ledger sees.
LogEntries == [type : EventTypes, source : Evidence \cup {NoEvidence}]

Log == [n \in 1..Cardinality(events) |-> [type |-> EventAt(n).type, source |-> EventAt(n).source]]

\* The event at a place of the log.
LEMMA EventAtFacts ==
  ASSUME LedgerInv
  PROVE  /\ Cardinality(events) \in Nat
         /\ \A n \in 1..Cardinality(events) : EventAt(n) \in events /\ EventAt(n).sequence = n
         /\ \A e \in events : e.sequence \in 1..Cardinality(events) /\ EventAt(e.sequence) = e
<1>1. Cardinality(events) \in Nat /\ Sequences = 1..Cardinality(events)
  BY FS_CardinalityType DEF LedgerInv, IInv, LogInv, LogIsDense
<1>2. ASSUME NEW n \in 1..Cardinality(events)
      PROVE  EventAt(n) \in events /\ EventAt(n).sequence = n
  <2>1. \E e \in events : e.sequence = n
    BY <1>1 DEF Sequences
  <2> QED
    BY <2>1 DEF EventAt
<1>3. ASSUME NEW e \in events
      PROVE  e.sequence \in 1..Cardinality(events) /\ EventAt(e.sequence) = e
  <2>1. e.sequence \in 1..Cardinality(events)
    BY <1>1 DEF Sequences
  <2> QED
    BY <1>2, <2>1 DEF LedgerInv, SequencesUnique
<1> QED
  BY <1>1, <1>2, <1>3

LEMMA LogFacts ==
  ASSUME LedgerInv
  PROVE  /\ Log \in Seq(LogEntries)
         /\ Len(Log) = Cardinality(events)
         /\ DOMAIN Log = 1..Cardinality(events)
<1> DEFINE N == Cardinality(events)
<1>1. N \in Nat /\ \A n \in 1..N : EventAt(n) \in events
  BY EventAtFacts
<1>2. \A n \in 1..N : EventAt(n) \in EventRows
  BY <1>1 DEF LedgerInv, IInv, TypeOK, StoreTypeOK
<1>3. Log \in [1..N -> LogEntries]
  BY <1>2 DEF Log, LogEntries, EventRows
<1> HIDE DEF N
<1>4. Log \in Seq(LogEntries)
  BY <1>1, <1>3, SeqDef
<1>5. Len(Log) = N /\ DOMAIN Log = 1..N
  BY <1>1, <1>3, <1>4, LenProperties
<1> QED
  BY <1>4, <1>5 DEF N

\* The ledger's entries are the events, at their sequences.
LEMMA LedgerEntries ==
  ASSUME LedgerInv, NEW type
  PROVE  Ledger!Entries(type) = {e.sequence : e \in EventsOf(type)}
<1>1. Ledger!Entries(type) = {n \in 1..Cardinality(events) : EventAt(n).type = type}
  BY LogFacts DEF Ledger!Entries, Log
<1>2. \A n \in 1..Cardinality(events) : EventAt(n).type = type =>
        n \in {e.sequence : e \in EventsOf(type)}
  BY EventAtFacts DEF EventsOf
<1>3. \A e \in EventsOf(type) : e.sequence \in 1..Cardinality(events) /\ EventAt(e.sequence).type = type
  BY EventAtFacts DEF EventsOf
<1> QED
  BY <1>1, <1>2, <1>3

\* A committed event is appended to the ledger's log.
LEMMA CommitAppends ==
  ASSUME LedgerInv, LedgerInv', NEW t \in Handlers, CommitEvent(t)
  PROVE  Log' = Append(Log, [type |-> req[t].step, source |-> Source(t)])
<1>1. PICK N \in Nat : N = Cardinality(events)
  BY EventAtFacts
<1>2. PICK new \in EventRows :
         /\ events' = events \cup {new} /\ new.sequence = N + 1
         /\ new.type = req[t].step /\ new.source = Source(t)
  BY <1>1, CommitAdds DEF LedgerInv, IInv
<1>3. Cardinality(events') = N + 1
  BY <1>1, CommitLog DEF LedgerInv, IInv
<1>4. \A n \in 1..N : EventAt(n) \in events /\ EventAt(n).sequence = n
  BY <1>1, EventAtFacts
<1>5. \A n \in 1..N : EventAt(n)' = EventAt(n)
  BY <1>2, <1>4 DEF EventAt, LedgerInv, SequencesUnique
<1>6. EventAt(N + 1)' = new
  BY <1>2 DEF EventAt, LedgerInv, SequencesUnique
<1> DEFINE entry == [type |-> req[t].step, source |-> Source(t)]
<1>7. Log' = [n \in 1..(N + 1) |-> [type |-> EventAt(n)'.type, source |-> EventAt(n)'.source]]
  BY <1>3 DEF Log
<1>8. PICK old : old = Log
  OBVIOUS
<1>9. old \in Seq(LogEntries) /\ Len(old) = N
  BY <1>1, <1>8, LogFacts
<1>10. \A n \in 1..N : old[n] = [type |-> EventAt(n).type, source |-> EventAt(n).source]
  BY <1>1, <1>8 DEF Log
<1>11. entry \in LogEntries /\ entry = [type |-> new.type, source |-> new.source]
  BY <1>2 DEF EventRows, LogEntries
<1> HIDE DEF entry
<1>12. /\ Append(old, entry) \in Seq(LogEntries)
       /\ Len(Append(old, entry)) = N + 1
       /\ \A n \in 1..N : Append(old, entry)[n] = old[n]
       /\ Append(old, entry)[N + 1] = entry
  BY <1>9, <1>11, AppendProperties
<1>13. Append(old, entry) \in [1..(N + 1) -> LogEntries]
  BY <1>12, LenProperties
<1>14. \A n \in 1..(N + 1) :
         Append(old, entry)[n] = [type |-> EventAt(n)'.type, source |-> EventAt(n)'.source]
  <2> TAKE n \in 1..(N + 1)
  <2>1. CASE n \in 1..N
    BY <2>1, <1>5, <1>10, <1>12
  <2>2. CASE n = N + 1
    BY <2>2, <1>6, <1>11, <1>12
  <2>3. n \in 1..N \/ n = N + 1
    <3> HIDE DEF entry
    <3> QED
      BY <1>1
  <2> QED
    BY <2>1, <2>2, <2>3
<1>15. Log' = Append(old, entry)
  BY <1>7, <1>13, <1>14
<1> QED
  BY <1>8, <1>15 DEF entry

LEMMA LedgerStart == Init => Ledger!Init
<1> SUFFICES ASSUME Init PROVE Ledger!Init
  OBVIOUS
<1>1. events = {} /\ approvals = << >>
  BY DEF Init, StoreInit
<1>2. Cardinality(events) = 0
  BY <1>1, FS_EmptySet
<1>3. Len(Log) = 0 /\ Log \in Seq(LogEntries)
  BY <1>2, InitLedgerInv, LogFacts
<1>4. Log = << >>
  BY <1>3, EmptySeq
<1>5. Standing = FALSE /\ Len(approvals) = 0
  BY <1>1 DEF Standing
<1> QED
  BY <1>4, <1>5 DEF Ledger!Init, Log

\* A committed observation is the ledger's Observe; any other committed event is
\* its Record; storing an approval is its Grant; the rest is invisible to it.
LEMMA LedgerStep ==
  ASSUME LedgerInv, LedgerInv', [Next]_vars
  PROVE  [Ledger!Next]_(Ledger!ledger)
<1>a. TypeOK /\ req \in [Handlers -> Requests] /\ approvals \in Seq(ApprovalRows)
  BY DEF LedgerInv, IInv, TypeOK, StoreTypeOK
<1>1. ASSUME UNCHANGED <<events, approvals>>
      PROVE  UNCHANGED Ledger!ledger
  <2>1. Log' = Log /\ Standing' = Standing
    BY <1>1 DEF Log, EventAt, Standing
  <2> QED
    BY <1>1, <2>1 DEF Ledger!ledger, Log
<1>2. ASSUME NEW t \in Handlers, CommitEvent(t), req[t].step = "evidence_observed"
      PROVE  Ledger!Next
  <2>1. PICK e : e = req[t].evidence
    OBVIOUS
  <2>2. Source(t) = e
    BY <1>2, <2>1 DEF Source
  <2>3. e \in Evidence
    BY <1>2, <2>1 DEF LedgerInv, IInv, ObserverInv, TypeOK, StoreTypeOK
  <2>4. Log' = Append(Log, [type |-> "evidence_observed", source |-> e])
    BY <1>2, <2>2, CommitAppends
  <2>5. e \notin Ledger!Observed
    <3>1. ASSUME NEW n \in Ledger!Entries("evidence_observed") PROVE Log[n].source # e
      <4>1. PICK f \in EventsOf("evidence_observed") : n = f.sequence
        BY LedgerEntries
      <4>2. n \in 1..Cardinality(events) /\ EventAt(n) = f
        BY <4>1, EventAtFacts DEF EventsOf
      <4>3. f.source # e
        BY <1>2, <2>1 DEF LedgerInv, IInv, ObserverInv
      <4> QED
        BY <4>2, <4>3 DEF Log
    <3> QED
      BY <3>1 DEF Ledger!Observed, Log
  <2>6. approvals' = Retired("STALE")
    BY <1>2 DEF CommitEvent, AppendEvent, Invalidates
  <2>7. Standing' = FALSE
    BY <1>a, <2>6, RetiredFacts DEF Standing
  <2>8. Len(approvals') = Len(approvals)
    BY <1>a, <2>6, RetiredFacts
  <2>9. Ledger!Observe(e)
    BY <2>4, <2>5, <2>7, <2>8 DEF Ledger!Observe, Log
  <2> QED
    BY <2>3, <2>9 DEF Ledger!Next
<1>3. ASSUME NEW t \in Handlers, CommitEvent(t), req[t].step # "evidence_observed"
      PROVE  Ledger!Next
  <2>1. UNCHANGED approvals
    BY <1>3 DEF CommitEvent, AppendEvent, Invalidates
  <2>2. UNCHANGED <<Standing, Len(approvals)>>
    BY <2>1 DEF Standing
  <2>3. PICK entry : entry = [type |-> req[t].step, source |-> Source(t)]
    OBVIOUS
  <2>4. PICK old : old = Log
    OBVIOUS
  <2>5. PICK long : long = Log'
    OBVIOUS
  <2>6. long = Append(old, entry)
    BY <1>3, <2>3, <2>4, <2>5, CommitAppends
  <2>7. old \in Seq(LogEntries)
    BY <2>4, LogFacts
  <2>8. entry \in LogEntries /\ entry.type # "evidence_observed"
    <3>1. \E new \in EventRows : new.type = req[t].step /\ new.source = Source(t)
      BY <1>3, CommitAdds DEF LedgerInv, IInv
    <3> QED
      BY <1>3, <2>3, <3>1 DEF EventRows, LogEntries
  <2>9. Len(long) = Len(old) + 1 /\ long[Len(long)] = entry /\ SubSeq(long, 1, Len(old)) = old
    <3>1. /\ long \in Seq(LogEntries) /\ Len(long) = Len(old) + 1
          /\ long[Len(long)] = entry
          /\ \A n \in 1..Len(old) : long[n] = old[n]
      BY <2>6, <2>7, <2>8, AppendProperties
    <3>2. Len(old) \in Nat /\ old \in [1..Len(old) -> LogEntries]
      BY <2>7, LenProperties
    <3>3. SubSeq(long, 1, Len(old)) = old
      BY <3>1, <3>2
    <3> QED
      BY <3>1, <3>3
  <2>10. Ledger!Record
    BY <2>2, <2>4, <2>5, <2>8, <2>9 DEF Ledger!Record, Log
  <2> QED
    BY <2>10 DEF Ledger!Next
<1>4. ASSUME NEW t \in Handlers, GrantApproval(t)
      PROVE  Ledger!Next
  <2>1. UNCHANGED events
    BY <1>4 DEF GrantApproval, AddApproval
  <2>2. Log' = Log
    BY <2>1 DEF Log, EventAt
  <2>3. PICK r \in Nat : AddApproval(r)
    BY <1>4, <1>a DEF GrantApproval, Requests
  <2>4. /\ approvals' \in Seq(ApprovalRows)
        /\ Len(approvals') = Len(approvals) + 1
        /\ approvals'[Len(approvals) + 1].status = "APPROVED"
    <3>1. approvals \in Seq(ApprovalRows)
      BY <1>a
    <3>2. /\ approvals' \in Seq(ApprovalRows)
          /\ Len(approvals') = Len(approvals) + 1
          /\ approvals'[Len(approvals) + 1] = [revision |-> r, status |-> "APPROVED"]
      BY <2>3, <3>1, GrantedFacts
    <3> QED
      BY <3>2
  <2>5. Len(approvals) \in Nat /\ DOMAIN approvals' = 1..(Len(approvals) + 1)
    BY <1>a, <2>4, LenProperties
  <2>6. Standing' = TRUE
    BY <2>4, <2>5 DEF Standing
  <2>7. Len(approvals) < Cardinality(Ledger!Entries("approval_recorded"))
    <3>1. t \in Granting
      BY <1>4 DEF GrantApproval, Granting
    <3>2. Cardinality(Granting) \in Nat /\ Cardinality(Granting) # 0
      BY <3>1, FS_CardinalityType, FS_EmptySet DEF LedgerInv, GrantsAreLogged
    <3>3. Cardinality(Recorded) \in Nat
      BY FS_CardinalityType DEF LedgerInv, GrantsAreLogged
    <3>4. Ledger!Entries("approval_recorded") = Recorded
      BY LedgerEntries DEF Recorded
    <3> QED
      BY <2>5, <3>2, <3>3, <3>4 DEF LedgerInv, GrantsAreLogged
  <2>8. Ledger!Cardinality(Ledger!Entries("approval_recorded"))
          = Cardinality(Ledger!Entries("approval_recorded"))
    BY DEF Ledger!Cardinality, Cardinality
  <2>9. UNCHANGED Log
    BY <2>2
  <2>10. Len(approvals)' = Len(approvals) + 1
    BY <2>4
  <2>11. Ledger!Grant
    BY <2>6, <2>7, <2>8, <2>9, <2>10 DEF Ledger!Grant, Log
  <2> QED
    BY <2>11 DEF Ledger!Next
<1>5. ASSUME NEW t \in Handlers, Receive(t) \/ Step(t) \/ Fail(t)
      PROVE  [Ledger!Next]_(Ledger!ledger)
  BY <1>a, <1>1, <1>2, <1>3, <1>4, <1>5, GrantShape
<1>6. CASE UNCHANGED vars
  BY <1>1, <1>6 DEF vars, store
<1> QED
  BY <1>5, <1>6 DEF Next, Quiescent

\* store.py 192-236 and 301-315: however many request threads interleave their
\* store accesses, collide and die, what they do to the log and the approvals is
\* what the atomic ledger allows.
THEOREM HandlersImplementLedger == Spec => ImplementsLedger
BY LedgerStart, LedgerStep, SpecLedgerInv, PTL DEF Spec, ImplementsLedger, Ledger!Spec

-----------------------------------------------------------------------------
(***************************************************************************)
(* What one access of a handler changes.                                   *)
(***************************************************************************)
\* An access that is none of append_event's, of ingest_evidence's or of an
\* approval's: it leaves the tables alone but for the run's row.
Quiet(t) ==
  /\ UNCHANGED <<events, evidence, approvals, history>>
  /\ run'.revision = run.revision
  /\ run'.status = "COMPLETED" => run.status = "COMPLETED"
  /\ req[t].step \in AccessSteps \ {"hold_release"}
  /\ req'[t].step \notin {"approval_recorded", "add_approval", "mark_completed",
                          "hold_release", "evidence_deduplicated", "evidence_observed"}
  /\ req'[t].phase \in {"revision", req[t].phase}

\* The handler dies and changes nothing.
Dies(t) == UNCHANGED store /\ Raise(t)

LEMMA GotoShape ==
  ASSUME TypeOK, NEW t \in Handlers, NEW s, Goto(t, s)
  PROVE  /\ req'[t].step = s /\ req'[t].phase = "revision"
         /\ req'[t].evidence = req[t].evidence /\ req'[t].revision = req[t].revision
         /\ req'[t].expected = req[t].expected /\ req'[t].sequence = req[t].sequence
         /\ UNCHANGED history
<1>1. req \in [Handlers -> Requests] /\ req[t] \in Requests
  BY DEF TypeOK
<1>2. req'[t] = [req[t] EXCEPT !.step = s, !.phase = "revision"]
  BY <1>1 DEF Goto
<1>3. UNCHANGED history
  BY DEF Goto
<1> QED
  BY <1>1, <1>2, <1>3 DEF Requests

\* A handler that ends is idle; an answer leaves the histories alone unless it
\* completes a run without an approval, an exception unless work is left undone.
LEMMA EndShape ==
  ASSUME TypeOK, NEW t \in Handlers, Answer(t) \/ Raise(t)
  PROVE  /\ req'[t].step = "idle" /\ req'[t].phase = "revision"
         /\ lost \subseteq lost' /\ unheld \subseteq unheld' /\ overtaken \subseteq overtaken'
         /\ req[t].step \notin {"mark_completed", "hold_release", "evidence_observed"}
              => UNCHANGED history
<1>1. req'[t].step = "idle" /\ req'[t].phase = "revision"
  BY DEF Answer, Raise, IdleRequest, TypeOK
<1>2. CASE Answer(t)
  BY <1>1, <1>2 DEF Answer, history
<1>3. CASE Raise(t)
  BY <1>1, <1>3 DEF Raise, history
<1> QED
  BY <1>2, <1>3

LEMMA HandlerShape ==
  ASSUME TypeOK, NEW t \in Handlers, Receive(t) \/ Step(t) \/ Fail(t)
  PROVE  \/ CommitEvent(t) \/ ReadRevision(t) \/ ReadSequence(t) \/ StoreEvidence(t)
         \/ DuplicateEvidence(t) \/ HoldRelease(t) \/ CheckRevision(t) \/ GrantApproval(t)
         \/ MarkCompleted(t)
         \/ Dies(t)
         \/ Quiet(t)
<1>1. req \in [Handlers -> Requests] /\ req[t] \in Requests
  BY DEF TypeOK
<1>2. run \in [status : Statuses, gate : Gates, decision : Decisions, revision : Nat]
  BY DEF TypeOK, StoreTypeOK
<1>4. ASSUME Answer(t), req[t].step \in AccessSteps \ {"mark_completed", "hold_release"}
      PROVE  /\ req'[t].step = "idle" /\ req'[t].phase = "revision"
             /\ UNCHANGED history
  BY <1>4, EndShape DEF AccessSteps
<1>5. ASSUME NEW status, NEW gate, NEW decision, UpdateRun(status, gate, decision)
      PROVE  /\ UNCHANGED <<events, evidence, approvals>>
             /\ run'.revision = run.revision /\ run'.status = status
  BY <1>2, <1>5 DEF UpdateRun
<1>6. CASE Receive(t)
  <2>1. UNCHANGED store /\ req[t].step = "idle"
    BY <1>6 DEF Receive, ReceiveCreate, ReceiveEvidence, ReceiveApproval, ReceiveResume,
       ReceivePause, ReceiveDenial, ReceiveWork, ReceiveStaleDemo, Accept, Idle
  <2>2. \E purpose, e, x : \E s \in {"insert_run", "add_evidence", "check_revision", "read_current",
                                     "human_pause", "tool_permission_denied", "coordinate"} :
          Accept(t, purpose, s, e, x)
    BY <1>6 DEF Receive, ReceiveCreate, ReceiveEvidence, ReceiveApproval, ReceiveResume,
       ReceivePause, ReceiveDenial, ReceiveWork, ReceiveStaleDemo
  <2>3. UNCHANGED history /\ req'[t].phase = "revision"
           /\ req'[t].step \in {"insert_run", "add_evidence", "check_revision", "read_current",
                                "human_pause", "tool_permission_denied", "coordinate"}
    BY <1>1, <2>2 DEF Accept, IdleRequest
  <2> QED
    BY <2>1, <2>3 DEF Quiet, store, AccessSteps
<1>7. CASE Fail(t) \/ CollideEvent(t)
  BY <1>7 DEF Fail, CollideEvent, Dies
<1>8. CASE Coordinate(t)
  BY <1>1, <1>8 DEF Coordinate, Requests, Quiet, store, AccessSteps, history
<1>9. CASE ReadCurrent(t)
  BY <1>1, <1>9 DEF ReadCurrent, Requests, Quiet, store, AccessSteps, history
<1>10. CASE FinishCoordination(t)
  <2>1. UNCHANGED store /\ req[t].step = "coordinate"
    BY <1>10 DEF FinishCoordination
  <2>2. Goto(t, "verdict") \/ Goto(t, "check_revision") \/ Answer(t)
    BY <1>10 DEF FinishCoordination
  <2>3. /\ req'[t].step \in {"verdict", "check_revision", "idle"} /\ req'[t].phase = "revision"
        /\ UNCHANGED history
    BY <1>4, <2>1, <2>2, GotoShape DEF AccessSteps
  <2> QED
    BY <2>1, <2>3 DEF Quiet, store, AccessSteps
<1>11. CASE ExhaustRetries(t)
  <2>1. req'[t].step = "mark_exhausted" /\ req'[t].phase = "revision" /\ UNCHANGED history
    BY <1>11, GotoShape DEF ExhaustRetries
  <2> QED
    BY <1>11, <2>1 DEF ExhaustRetries, Quiet, store, AccessSteps
<1>12. CASE MarkExhausted(t)
  <2>1. req'[t].step = "retry_exhausted" /\ req'[t].phase = "revision" /\ UNCHANGED history
    BY <1>12, GotoShape DEF MarkExhausted
  <2>2. /\ UNCHANGED <<events, evidence, approvals>>
        /\ run'.revision = run.revision /\ run'.status = "BLOCKED_RETRY_EXHAUSTED"
    BY <1>5, <1>12 DEF MarkExhausted
  <2>3. req[t].step = "mark_exhausted"
    BY <1>12 DEF MarkExhausted
  <2> QED
    BY <2>1, <2>2, <2>3 DEF Quiet, AccessSteps
<1>13. CASE StartRun(t)
  <2>1. req'[t].step = "controller_run_created" /\ req'[t].phase = "revision" /\ UNCHANGED history
    BY <1>13, GotoShape DEF StartRun
  <2>2. /\ UNCHANGED <<events, evidence, approvals>>
        /\ run'.revision = run.revision /\ run'.status = "RUNNING"
    BY <1>13 DEF StartRun, InsertRun, NoRun
  <2>3. req[t].step = "insert_run"
    BY <1>13 DEF StartRun
  <2> QED
    BY <2>1, <2>2, <2>3 DEF Quiet, AccessSteps
<1>14. CASE JudgeGate(t) \/ JudgeInsufficient(t)
  <2>1. req[t].step = "verdict"
    BY <1>14 DEF JudgeGate, JudgeInsufficient
  <2>2. Goto(t, "read_current") \/ Answer(t)
    BY <1>14 DEF JudgeGate, JudgeInsufficient
  <2>3. /\ req'[t].step \in {"read_current", "idle"} /\ req'[t].phase = "revision"
        /\ UNCHANGED history
    BY <1>4, <2>1, <2>2, GotoShape DEF AccessSteps
  <2>4. \E gate, decision :
           \/ UpdateRun("PAUSED_AWAITING_HUMAN", gate, decision)
           \/ UpdateRun("BLOCKED_INSUFFICIENT_EVIDENCE", gate, decision)
    BY <1>14 DEF JudgeGate, JudgeInsufficient
  <2>5. /\ UNCHANGED <<events, evidence, approvals>>
        /\ run'.revision = run.revision /\ run'.status # "COMPLETED"
    BY <1>5, <2>4
  <2> QED
    BY <2>1, <2>3, <2>5 DEF Quiet, AccessSteps
<1>15. CASE JudgeEvaluation(t)
  <2>1. /\ req'[t].step \in {"abstention_recorded", "idle"} /\ req'[t].phase = "revision"
        /\ UNCHANGED history
    BY <1>4, <1>15, GotoShape DEF JudgeEvaluation, AccessSteps
  <2> QED
    BY <1>15, <2>1 DEF JudgeEvaluation, Quiet, store, AccessSteps
<1>16. CASE MarkAbstained(t) \/ MarkPaused(t) \/ MarkDenied(t)
  <2>1. req[t].step \in {"mark_abstained", "mark_paused", "mark_denied"} /\ Answer(t)
    BY <1>16 DEF MarkAbstained, MarkPaused, MarkDenied
  <2>2. \E gate, decision :
           \/ UpdateRun("ABSTAINED", gate, decision)
           \/ UpdateRun("PAUSED_AWAITING_HUMAN", gate, decision)
           \/ UpdateRun("BLOCKED_PERMISSION_DENIED", gate, decision)
    BY <1>16 DEF MarkAbstained, MarkPaused, MarkDenied
  <2>3. /\ UNCHANGED <<events, evidence, approvals>>
        /\ run'.revision = run.revision /\ run'.status # "COMPLETED"
    BY <1>5, <2>2
  <2> QED
    BY <1>4, <2>1, <2>3 DEF Quiet, AccessSteps
<1> QED
  BY <1>6, <1>7, <1>8, <1>9, <1>10, <1>11, <1>12, <1>13, <1>14, <1>15, <1>16 DEF Step

\* A handler's access leaves the other handlers where they are.
LEMMA StepAlone ==
  ASSUME TypeOK, NEW t \in Handlers, Receive(t) \/ Step(t) \/ Fail(t)
  PROVE  \A u \in Handlers \ {t} : req'[u] = req[u]
<1>1. req \in [Handlers -> Requests]
  BY DEF TypeOK
<1>2. SUFFICES \E r : req' = [req EXCEPT ![t] = r]
  BY <1>1
<1>3. ASSUME NEW s, Goto(t, s) PROVE \E r : req' = [req EXCEPT ![t] = r]
  <2>1. req' = [req EXCEPT ![t] = [req[t] EXCEPT !.step = s, !.phase = "revision"]]
    BY <1>1, <1>3 DEF Goto
  <2> QED
    BY <2>1
<1>4. ASSUME Answer(t) \/ Raise(t) PROVE \E r : req' = [req EXCEPT ![t] = r]
  BY <1>4 DEF Answer, Raise
<1>5. ASSUME NEW purpose, NEW s, NEW e, NEW x, Accept(t, purpose, s, e, x)
      PROVE  \E r : req' = [req EXCEPT ![t] = r]
  BY <1>5 DEF Accept
<1>6. CASE Receive(t)
  BY <1>5, <1>6 DEF Receive, ReceiveCreate, ReceiveEvidence, ReceiveApproval, ReceiveResume,
     ReceivePause, ReceiveDenial, ReceiveWork, ReceiveStaleDemo
<1>7. CASE Fail(t) \/ CollideEvent(t) \/ CommitEvent(t)
  BY <1>3, <1>4, <1>7 DEF Fail, CollideEvent, CommitEvent
<1>8. CASE ReadRevision(t)
  <2>1. req' = [req EXCEPT ![t] = [req[t] EXCEPT !.phase = "sequence",
                  !.revision = run.revision + (IF Advances(req[t].step) THEN 1 ELSE 0)]]
    BY <1>1, <1>8 DEF ReadRevision
  <2> QED
    BY <2>1
<1>9. CASE ReadSequence(t)
  <2>1. req' = [req EXCEPT ![t] = [req[t] EXCEPT !.phase = "write", !.sequence = NextSequence]]
    BY <1>1, <1>9 DEF ReadSequence
  <2> QED
    BY <2>1
<1>10. CASE Coordinate(t)
  <2>1. req' = [req EXCEPT ![t] = [req[t] EXCEPT !.step = "coordination", !.rounds = req[t].rounds + 1]]
    BY <1>1, <1>10 DEF Coordinate
  <2> QED
    BY <2>1
<1>11. CASE ReadCurrent(t)
  <2>1. req' = [req EXCEPT ![t] = [req[t] EXCEPT !.step = "check_revision", !.expected = run.revision]]
    BY <1>1, <1>11 DEF ReadCurrent
  <2> QED
    BY <2>1
<1>12. CASE StoreEvidence(t) \/ DuplicateEvidence(t) \/ HoldRelease(t)
            \/ FinishCoordination(t) \/ ExhaustRetries(t) \/ MarkExhausted(t) \/ StartRun(t)
  BY <1>3, <1>4, <1>12 DEF StoreEvidence, DuplicateEvidence, HoldRelease,
     FinishCoordination, ExhaustRetries, MarkExhausted, StartRun
<1>13. CASE JudgeGate(t) \/ JudgeInsufficient(t) \/ JudgeEvaluation(t) \/ MarkAbstained(t)
            \/ CheckRevision(t) \/ GrantApproval(t) \/ MarkCompleted(t) \/ MarkPaused(t)
            \/ MarkDenied(t)
  BY <1>3, <1>4, <1>13 DEF JudgeGate, JudgeInsufficient, JudgeEvaluation, MarkAbstained,
     CheckRevision, GrantApproval, MarkCompleted, MarkPaused, MarkDenied
<1> QED
  BY <1>6, <1>7, <1>8, <1>9, <1>10, <1>11, <1>12, <1>13 DEF Step

\* An approval's handler never touches the revision but through append_event.
LEMMA RunRows ==
  ASSUME TypeOK, NEW status, NEW gate, NEW decision, UpdateRun(status, gate, decision)
  PROVE  /\ UNCHANGED <<events, evidence, approvals>>
         /\ run'.revision = run.revision /\ run'.status = status
BY DEF TypeOK, StoreTypeOK, UpdateRun

\* What a committed event does to the run's row and to its handler.
LEMMA CommitShape ==
  ASSUME TypeOK, NEW t \in Handlers, CommitEvent(t)
  PROVE  /\ run'.revision = req[t].revision /\ run'.status = run.status
         /\ evidence' = evidence /\ UNCHANGED history
         /\ req[t].step \in EventTypes
         /\ req'[t].phase = "revision"
         /\ req'[t].step \notin {"mark_completed", "approval_recorded", "evidence_deduplicated"}
         /\ req'[t].step = "add_approval" =>
              req[t].step = "approval_recorded" /\ req'[t].revision = req[t].revision
         /\ req[t].step = "evidence_observed" /\ Standing => req'[t].step = "hold_release"
<1>1. run \in [status : Statuses, gate : Gates, decision : Decisions, revision : Nat]
  BY DEF TypeOK, StoreTypeOK
<1>2. run' = [run EXCEPT !.revision = req[t].revision] /\ evidence' = evidence
  BY DEF CommitEvent, AppendEvent
<1>3. run'.revision = req[t].revision /\ run'.status = run.status
  BY <1>1, <1>2
<1>4. req[t].step \in EventTypes
  BY DEF CommitEvent, Appending
<1>5. CASE /\ req[t].step \in {"evidence_deduplicated", "approval_rejected_stale", "retry_exhausted"}
           /\ Answer(t) \/ Raise(t)
  BY <1>2, <1>3, <1>4, <1>5, EndShape
<1>6. CASE /\ req[t].step \notin {"evidence_deduplicated", "approval_rejected_stale", "retry_exhausted"}
           /\ Goto(t, Following(req[t].step, Standing))
  <2>1. /\ req'[t].step = Following(req[t].step, Standing) /\ req'[t].phase = "revision"
        /\ req'[t].revision = req[t].revision /\ UNCHANGED history
    BY <1>6, GotoShape
  <2>2. /\ Following(req[t].step, Standing) \notin
             {"mark_completed", "approval_recorded", "evidence_deduplicated"}
        /\ Following(req[t].step, Standing) = "add_approval" => req[t].step = "approval_recorded"
        /\ req[t].step = "evidence_observed" /\ Standing =>
             Following(req[t].step, Standing) = "hold_release"
    BY <1>4, <1>6 DEF Following, EventTypes
  <2> QED
    BY <1>2, <1>3, <1>4, <2>1, <2>2
<1> QED
  BY <1>5, <1>6 DEF CommitEvent

-----------------------------------------------------------------------------
(***************************************************************************)
(* Completed runs.                                                         *)
(***************************************************************************)
\* A handler that has granted its approval and not yet completed the run still
\* has it in force, unless a second handler can withdraw it in between.
CompletionOK ==
  /\ CompletedIsApproved
  /\ OneAtATime => \A t \in Handlers : req[t].step = "mark_completed" => Standing

LEMMA CompletionPreserved ==
  ASSUME TypeOK, CompletionOK, NEW t \in Handlers, Receive(t) \/ Step(t) \/ Fail(t)
  PROVE  CompletionOK'
<1>1. req \in [Handlers -> Requests] /\ req[t] \in Requests /\ approvals \in Seq(ApprovalRows)
  BY DEF TypeOK, StoreTypeOK
<1>2. \A u \in Handlers \ {t} : req'[u] = req[u]
  BY StepAlone
<1>3. ASSUME UNCHANGED approvals,
             run'.status = "COMPLETED" => run.status = "COMPLETED",
             unheld \subseteq unheld', overtaken \subseteq overtaken',
             req[t].step # "hold_release", req'[t].step # "mark_completed"
      PROVE  CompletionOK'
  <2>1. Standing' <=> Standing
    BY <1>3 DEF Standing
  <2>2. \A u \in Handlers : req[u].step = "hold_release" => req'[u].step = "hold_release"
    BY <1>2, <1>3
  <2>3. CompletedIsApproved'
    BY <1>3, <2>1, <2>2 DEF CompletionOK, CompletedIsApproved, OneAtATime
  <2>4. \A u \in Handlers : req'[u].step = "mark_completed" => req[u].step = "mark_completed"
    BY <1>2, <1>3
  <2> QED
    BY <2>1, <2>3, <2>4 DEF CompletionOK, OneAtATime
<1>4. CASE Quiet(t)
  BY <1>3, <1>4 DEF Quiet, history
<1>5. CASE Dies(t)
  <2>1. /\ UNCHANGED store /\ req'[t].step = "idle"
        /\ unheld \subseteq unheld' /\ overtaken \subseteq overtaken'
    BY <1>5, EndShape DEF Dies
  <2>2. CASE req[t].step # "hold_release"
    BY <1>3, <2>1, <2>2 DEF store
  <2>3. CASE req[t].step = "hold_release"
    <3>1. Len(approvals) \in unheld' /\ UNCHANGED approvals
      BY <1>5, <2>3 DEF Dies, Raise, store
    <3>2. CompletedIsApproved'
      BY <3>1 DEF CompletedIsApproved
    <3>3. \A u \in Handlers : req'[u].step = "mark_completed" => req[u].step = "mark_completed"
      BY <1>2, <2>1
    <3> QED
      BY <3>1, <3>2, <3>3 DEF CompletionOK, OneAtATime, Standing
  <2> QED
    BY <2>2, <2>3
<1>6. CASE ReadRevision(t) \/ ReadSequence(t)
  <2>1. UNCHANGED store /\ req[t].step \in EventTypes /\ UNCHANGED history
    BY <1>6 DEF ReadRevision, ReadSequence, Appending
  <2>2. req'[t].step = req[t].step
    BY <1>1, <1>6 DEF ReadRevision, ReadSequence, Requests
  <2>3. req[t].step # "hold_release" /\ req[t].step # "mark_completed"
    BY <2>1 DEF EventTypes
  <2> QED
    BY <1>3, <2>1, <2>2, <2>3 DEF store, history
<1>7. CASE StoreEvidence(t) \/ DuplicateEvidence(t) \/ CheckRevision(t)
  <2>1. UNCHANGED <<run, approvals>>
    BY <1>7 DEF StoreEvidence, DuplicateEvidence, CheckRevision, AddEvidence, store
  <2>2. req'[t].step # "mark_completed" /\ req[t].step # "hold_release" /\ UNCHANGED history
    BY <1>7, GotoShape DEF StoreEvidence, DuplicateEvidence, CheckRevision
  <2> QED
    BY <1>3, <2>1, <2>2 DEF history
<1>8. CASE HoldRelease(t)
  <2>1. run'.status # "COMPLETED" /\ req'[t].step = "approval_invalidated" /\ UNCHANGED approvals
    BY <1>8, RunRows, GotoShape DEF HoldRelease
  <2>2. \A u \in Handlers : req'[u].step = "mark_completed" => req[u].step = "mark_completed"
    BY <1>2, <2>1
  <2> QED
    BY <2>1, <2>2 DEF CompletionOK, CompletedIsApproved, OneAtATime, Standing
<1>9. CASE GrantApproval(t)
  <2>1. PICK r \in Nat : AddApproval(r)
    BY <1>1, <1>9 DEF GrantApproval, Requests
  <2>2. /\ approvals' \in Seq(ApprovalRows)
        /\ Len(approvals') = Len(approvals) + 1
        /\ approvals'[Len(approvals) + 1] = [revision |-> r, status |-> "APPROVED"]
    BY <1>1, <2>1, GrantedFacts
  <2>3. Len(approvals) + 1 \in DOMAIN approvals'
    BY <1>1, <2>2, LenProperties
  <2>4. Standing'
    BY <2>2, <2>3 DEF Standing
  <2> QED
    BY <2>4 DEF CompletionOK, CompletedIsApproved
<1>10. CASE MarkCompleted(t)
  <2>1. /\ req[t].step = "mark_completed" /\ UNCHANGED approvals
        /\ ~Standing => Len(approvals) \in overtaken'
    BY <1>10 DEF MarkCompleted, UpdateRun, Answer
  <2>2. Standing' <=> Standing
    BY <2>1 DEF Standing
  <2>3. OneAtATime => Standing
    BY <2>1 DEF CompletionOK
  <2>4. CompletedIsApproved'
    BY <2>1, <2>2, <2>3 DEF CompletedIsApproved, OneAtATime
  <2> QED
    BY <2>2, <2>3, <2>4 DEF CompletionOK, OneAtATime
<1>11. CASE CommitEvent(t)
  <2>1. /\ run'.status = run.status /\ req[t].step \in EventTypes /\ UNCHANGED history
        /\ req'[t].step # "mark_completed"
        /\ req[t].step = "evidence_observed" /\ Standing => req'[t].step = "hold_release"
    BY <1>11, CommitShape
  <2>2. req[t].step # "hold_release"
    BY <2>1 DEF EventTypes
  <2>3. CASE req[t].step # "evidence_observed"
    <3>1. UNCHANGED approvals
      BY <1>11, <2>3 DEF CommitEvent, AppendEvent, Invalidates
    <3> QED
      BY <1>3, <2>1, <2>2, <3>1 DEF history
  <2>4. CASE req[t].step = "evidence_observed" /\ Standing
    <3>1. CompletedIsApproved'
      BY <2>1, <2>4 DEF CompletedIsApproved
    <3>2. OneAtATime => \A u \in Handlers : req'[u].step # "mark_completed"
      BY <2>1 DEF OneAtATime
    <3> QED
      BY <3>1, <3>2 DEF CompletionOK, OneAtATime
  <2>5. CASE req[t].step = "evidence_observed" /\ ~Standing
    <3>1. approvals' = approvals
      <4>1. approvals' = Retired("STALE")
        BY <1>11, <2>5 DEF CommitEvent, AppendEvent, Invalidates
      <4>2. \A i \in DOMAIN approvals : Retired("STALE")[i] = approvals[i]
        BY <1>1, <2>5, RetiredFacts DEF Standing
      <4>3. /\ Retired("STALE") \in Seq(ApprovalRows)
            /\ Len(Retired("STALE")) = Len(approvals)
        BY <1>1, RetiredFacts
      <4> QED
        BY <1>1, <4>1, <4>2, <4>3, SeqEqual, LenProperties
    <3> QED
      BY <1>3, <2>1, <2>2, <3>1 DEF history
  <2> QED
    BY <2>3, <2>4, <2>5
<1> QED
  BY <1>4, <1>5, <1>6, <1>7, <1>8, <1>9, <1>10, <1>11, HandlerShape

LEMMA CompletionNext ==
  ASSUME IInv, CompletionOK, [Next]_vars
  PROVE  CompletionOK'
<1>1. TypeOK
  BY DEF IInv
<1>2. CASE UNCHANGED vars
  <2>1. UNCHANGED <<run, approvals, req, unheld, overtaken>>
    BY <1>2 DEF vars, store, history
  <2> QED
    BY <2>1 DEF CompletionOK, CompletedIsApproved, OneAtATime, Standing
<1> QED
  BY <1>1, <1>2, CompletionPreserved DEF Next, Quiescent

\* However many requests overlap and wherever a handler dies, a completed run has
\* an approval in force, or is about to be held, or the handler that should have
\* held it died, or an approver overtook the evidence that withdrew its approval;
\* the last cannot happen when requests follow one another (controller.py
\* 657-673, 703-715).
THEOREM CompletedRunsAreApproved == Spec => []CompletedIsApproved
<1>1. Init => CompletionOK
  BY DEF Init, StoreInit, NoRun, IdleRequest, CompletionOK, CompletedIsApproved
<1>2. IInv /\ CompletionOK /\ [Next]_vars => CompletionOK'
  BY CompletionNext
<1>3. CompletionOK => CompletedIsApproved
  BY DEF CompletionOK
<1> QED
  BY <1>1, <1>2, <1>3, SpecIInv, PTL DEF Spec

-----------------------------------------------------------------------------
(***************************************************************************)
(* The audit trail.                                                        *)
(***************************************************************************)
\* A handler that has read the run's revision read the one the run had at some
\* point of the log; if requests follow one another that is still the log's end.
Continues(t) ==
  \E n \in 0..Cardinality(events) :
    /\ req[t].revision = RevisionAt(n) + (IF Advances(req[t].step) THEN 1 ELSE 0)
    /\ OneAtATime => n = Cardinality(events)

TrailOK ==
  /\ RevisionsFollowTheLog
  /\ \A t \in Handlers :
       req[t].phase # "revision" => req[t].step \in EventTypes /\ Continues(t)

\* The log grows at its end, so the revision at an earlier point stays.
LEMMA RevisionAtKept ==
  ASSUME LedgerInv, LedgerInv', NEW t \in Handlers, CommitEvent(t)
  PROVE  /\ Cardinality(events)' = Cardinality(events) + 1
         /\ \A n \in 0..Cardinality(events) : RevisionAt(n)' = RevisionAt(n)
         /\ \A e \in events : e.sequence \in 1..Cardinality(events)
         /\ \E new \in EventRows :
              /\ events' = events \cup {new} /\ new.sequence = Cardinality(events) + 1
              /\ new.type = req[t].step /\ new.revision = req[t].revision
              /\ RevisionAt(Cardinality(events))' = new.revision
<1>1. TypeOK /\ LogInv
  BY DEF LedgerInv, IInv
<1>2. Cardinality(events) \in Nat /\ Cardinality(events)' = Cardinality(events) + 1
  BY <1>1, CommitLog, EventAtFacts
<1>3. PICK new \in EventRows :
        /\ events' = events \cup {new} /\ new.sequence = Cardinality(events) + 1
        /\ new.type = req[t].step /\ new.revision = req[t].revision
  BY <1>1, CommitAdds
<1>4. \A n \in 1..Cardinality(events) : EventAt(n) \in events /\ EventAt(n).sequence = n
  BY EventAtFacts
<1>6. \A n \in 1..Cardinality(events) : EventAt(n)' = EventAt(n)
  BY <1>3, <1>4 DEF EventAt, LedgerInv, SequencesUnique
<1>7. \A n \in 0..Cardinality(events) : RevisionAt(n)' = RevisionAt(n)
  BY <1>2, <1>6 DEF RevisionAt
<1>8. EventAt(Cardinality(events))' = new
  BY <1>2, <1>3 DEF EventAt, LedgerInv, SequencesUnique
<1>9. RevisionAt(Cardinality(events))' = new.revision
  BY <1>2, <1>8 DEF RevisionAt
<1>10. \A e \in events : e.sequence \in 1..Cardinality(events)
  BY EventAtFacts
<1> QED
  BY <1>2, <1>3, <1>7, <1>9, <1>10

\* Accesses that neither write an event nor read for one leave the trail alone.
LEMMA TrailStays ==
  ASSUME TypeOK, TrailOK, NEW t \in Handlers, UNCHANGED events, run'.revision = run.revision,
         \A u \in Handlers \ {t} : req'[u] = req[u],
         req'[t].phase # "revision" => req'[t].step \in EventTypes /\ Continues(t)'
  PROVE  TrailOK'
<1>1. \A n : RevisionAt(n)' = RevisionAt(n)
  BY DEF RevisionAt, EventAt
<1>2. RevisionsFollowTheLog'
  BY <1>1 DEF TrailOK, RevisionsFollowTheLog, OneAtATime
<1>3. ASSUME NEW u \in Handlers, u # t, req'[u].phase # "revision"
      PROVE  req'[u].step \in EventTypes /\ Continues(u)'
  BY <1>1, <1>3 DEF TrailOK, Continues, OneAtATime
<1> QED
  BY <1>2, <1>3 DEF TrailOK

LEMMA TrailPreserved ==
  ASSUME LedgerInv, LedgerInv', TrailOK, NEW t \in Handlers, Receive(t) \/ Step(t) \/ Fail(t)
  PROVE  TrailOK'
<1>0. TypeOK /\ LogInv
  BY DEF LedgerInv, IInv
<1>1. req \in [Handlers -> Requests] /\ req[t] \in Requests
  BY <1>0 DEF TypeOK
<1>2. \A u \in Handlers \ {t} : req'[u] = req[u]
  BY <1>0, StepAlone
<1>3. Cardinality(events) \in Nat
  BY EventAtFacts
<1>4. ASSUME UNCHANGED events, run'.revision = run.revision, req'[t].phase = "revision"
      PROVE  TrailOK'
  BY <1>0, <1>2, <1>4, TrailStays
<1>5. CASE Quiet(t)
  <2>1. req[t].phase = "revision"
    BY <1>5 DEF Quiet, TrailOK, AccessSteps, EventTypes
  <2> QED
    BY <1>4, <1>5, <2>1 DEF Quiet
<1>6. CASE Dies(t)
  BY <1>0, <1>4, <1>6, EndShape DEF Dies, store
<1>7. CASE ReadRevision(t)
  <2>1. UNCHANGED store /\ req[t].step \in EventTypes
    BY <1>7 DEF ReadRevision, Appending
  <2>2. PICK r : r = run.revision + (IF Advances(req[t].step) THEN 1 ELSE 0)
    OBVIOUS
  <2>3. req'[t] = [req[t] EXCEPT !.phase = "sequence", !.revision = r]
    BY <1>1, <1>7, <2>2 DEF ReadRevision
  <2>4. req'[t].step = req[t].step /\ req'[t].revision = r
    BY <1>1, <2>3 DEF Requests
  <2>5. r = RevisionAt(Cardinality(events)) + (IF Advances(req[t].step) THEN 1 ELSE 0)
    BY <2>2 DEF TrailOK, RevisionsFollowTheLog
  <2>6. UNCHANGED events /\ run'.revision = run.revision
    BY <2>1 DEF store
  <2>7. RevisionAt(Cardinality(events))' = RevisionAt(Cardinality(events))
    BY <2>6 DEF RevisionAt, EventAt
  <2>8. Continues(t)'
    BY <1>3, <2>4, <2>5, <2>6, <2>7 DEF Continues
  <2> QED
    BY <1>0, <1>2, <2>1, <2>4, <2>6, <2>8, TrailStays
<1>8. CASE ReadSequence(t)
  <2>1. UNCHANGED store /\ req[t].step \in EventTypes /\ req[t].phase = "sequence"
    BY <1>8 DEF ReadSequence, Appending
  <2>2. req'[t].step = req[t].step /\ req'[t].revision = req[t].revision
    BY <1>1, <1>8 DEF ReadSequence, Requests
  <2>3. UNCHANGED events /\ run'.revision = run.revision
    BY <2>1 DEF store
  <2>4. \A n : RevisionAt(n)' = RevisionAt(n)
    BY <2>3 DEF RevisionAt, EventAt
  <2>5. Continues(t)
    BY <2>1 DEF TrailOK
  <2>6. Continues(t)'
    BY <2>2, <2>3, <2>4, <2>5 DEF Continues, OneAtATime
  <2> QED
    BY <1>0, <1>2, <2>1, <2>2, <2>3, <2>6, TrailStays
<1>9. CASE StoreEvidence(t) \/ DuplicateEvidence(t) \/ CheckRevision(t) \/ GrantApproval(t)
  <2>1. UNCHANGED <<events, run>>
    BY <1>9 DEF StoreEvidence, DuplicateEvidence, CheckRevision, GrantApproval, AddEvidence,
       AddApproval, store
  <2>2. req'[t].phase = "revision"
    BY <1>0, <1>9, GotoShape DEF StoreEvidence, DuplicateEvidence, CheckRevision, GrantApproval
  <2> QED
    BY <1>4, <2>1, <2>2
<1>10. CASE HoldRelease(t) \/ MarkCompleted(t)
  <2>1. UNCHANGED events /\ run'.revision = run.revision
    BY <1>0, <1>10, RunRows DEF HoldRelease, MarkCompleted
  <2>2. req'[t].phase = "revision"
    BY <1>0, <1>10, GotoShape, EndShape DEF HoldRelease, MarkCompleted
  <2> QED
    BY <1>4, <2>1, <2>2
<1>11. CASE CommitEvent(t)
  <2> DEFINE c == Cardinality(events)
  <2>1. /\ Cardinality(events)' = c + 1 /\ c \in Nat
        /\ \A n \in 0..c : RevisionAt(n)' = RevisionAt(n)
        /\ \A e \in events : e.sequence \in 1..c
    BY <1>3, <1>11, RevisionAtKept
  <2>2. PICK new \in EventRows :
           /\ events' = events \cup {new} /\ new.sequence = c + 1
           /\ new.type = req[t].step /\ new.revision = req[t].revision
           /\ RevisionAt(Cardinality(events))' = new.revision
    BY <1>11, RevisionAtKept
  <2>3. run'.revision = req[t].revision /\ req'[t].phase = "revision"
    BY <1>0, <1>11, CommitShape
  <2>4. PICK m \in 0..c :
           /\ req[t].revision = RevisionAt(m) + (IF Advances(req[t].step) THEN 1 ELSE 0)
           /\ OneAtATime => m = c
    BY <1>11 DEF TrailOK, Continues, CommitEvent, Appending
  <2> HIDE DEF c
  <2>5. run'.revision = RevisionAt(Cardinality(events))'
    BY <2>2, <2>3
  <2>6. ASSUME NEW f \in events'
        PROVE  \E n \in 0..(f.sequence - 1) :
                 /\ f.revision = RevisionAt(n)' + (IF Advances(f.type) THEN 1 ELSE 0)
                 /\ OneAtATime => n = f.sequence - 1
    <3>1. CASE f \in events
      <4>1. PICK n \in 0..(f.sequence - 1) :
               /\ f.revision = RevisionAt(n) + (IF Advances(f.type) THEN 1 ELSE 0)
               /\ OneAtATime => n = f.sequence - 1
        BY <3>1 DEF TrailOK, RevisionsFollowTheLog
      <4>2. f.sequence \in 1..c
        BY <2>1, <3>1
      <4>3. n \in 0..c
        BY <2>1, <4>2
      <4>4. RevisionAt(n)' = RevisionAt(n)
        BY <2>1, <4>3
      <4> QED
        BY <4>1, <4>4
    <3>2. CASE f = new
      <4>1. f.sequence - 1 = c
        BY <2>1, <2>2, <3>2
      <4>2. RevisionAt(m)' = RevisionAt(m)
        BY <2>1, <2>4
      <4> QED
        BY <2>2, <2>4, <3>2, <4>1, <4>2
    <3> QED
      BY <2>2, <3>1, <3>2
  <2>7. RevisionsFollowTheLog'
    BY <2>5, <2>6 DEF RevisionsFollowTheLog, OneAtATime
  <2>8. ASSUME NEW u \in Handlers, req'[u].phase # "revision"
        PROVE  req'[u].step \in EventTypes /\ Continues(u)'
    <3>1. u # t /\ req'[u] = req[u]
      BY <1>2, <2>3, <2>8
    <3>2. ~OneAtATime
      BY <3>1 DEF OneAtATime
    <3>3. PICK n \in 0..c :
             req[u].revision = RevisionAt(n) + (IF Advances(req[u].step) THEN 1 ELSE 0)
      BY <2>8, <3>1 DEF TrailOK, Continues, c
    <3>4. n \in 0..Cardinality(events)' /\ RevisionAt(n)' = RevisionAt(n)
      BY <2>1, <3>3
    <3>5. Continues(u)'
      BY <3>1, <3>2, <3>3, <3>4 DEF Continues, OneAtATime
    <3> QED
      BY <2>8, <3>1, <3>5 DEF TrailOK
  <2> QED
    BY <2>7, <2>8 DEF TrailOK
<1> QED
  BY <1>0, <1>5, <1>6, <1>7, <1>8, <1>9, <1>10, <1>11, HandlerShape

\* What is called a duplicate, or is about to be, is stored; if requests follow
\* one another it was observed before, or is lost.
DeliveriesOK ==
  /\ \A d \in EventsOf("evidence_deduplicated") :
       /\ d.source \in evidence
       /\ OneAtATime =>
            \/ d.source \in lost
            \/ \E o \in EventsOf("evidence_observed") :
                 o.source = d.source /\ o.sequence < d.sequence
  /\ \A t \in Handlers :
       req[t].step = "evidence_deduplicated" =>
         /\ req[t].evidence \in evidence
         /\ OneAtATime => req[t].evidence \in lost \/ Observed(req[t].evidence)

LEMMA DeliveriesPreserved ==
  ASSUME IInv, DeliveriesOK, NEW t \in Handlers, Receive(t) \/ Step(t) \/ Fail(t)
  PROVE  DeliveriesOK'
<1>0. TypeOK /\ LogInv /\ ObserverInv /\ EvidenceObservedOnce
  BY DEF IInv
<1>1. req \in [Handlers -> Requests] /\ req[t] \in Requests
  BY <1>0 DEF TypeOK
<1>2. \A u \in Handlers \ {t} : req'[u] = req[u]
  BY <1>0, StepAlone
<1>3. lost \subseteq lost'
  BY <1>0, EvidencePreserved
<1>4. ASSUME UNCHANGED events, evidence \subseteq evidence',
             req'[t].step = "evidence_deduplicated" =>
               /\ req'[t].evidence \in evidence
               /\ OneAtATime => req'[t].evidence \in lost \/ Observed(req'[t].evidence)
      PROVE  DeliveriesOK'
  <2>1. \A type : EventsOf(type)' = EventsOf(type)
    BY <1>4 DEF EventsOf
  <2>2. ASSUME NEW d \in EventsOf("evidence_deduplicated")
        PROVE  /\ d.source \in evidence'
               /\ OneAtATime =>
                    \/ d.source \in lost'
                    \/ \E o \in EventsOf("evidence_observed") :
                         o.source = d.source /\ o.sequence < d.sequence
    BY <1>3, <1>4 DEF DeliveriesOK
  <2>3. ASSUME NEW u \in Handlers, req'[u].step = "evidence_deduplicated"
        PROVE  /\ req'[u].evidence \in evidence
               /\ OneAtATime => req'[u].evidence \in lost \/ Observed(req'[u].evidence)
    BY <1>2, <1>4, <2>3 DEF DeliveriesOK
  <2>4. ASSUME NEW u \in Handlers, req'[u].step = "evidence_deduplicated"
        PROVE  /\ req'[u].evidence \in evidence'
               /\ OneAtATime => req'[u].evidence \in lost' \/ Observed(req[u].evidence)'
    BY <1>3, <1>4, <2>1, <2>3, <2>4 DEF Observed
  <2> QED
    BY <2>1, <2>2, <2>4 DEF DeliveriesOK, OneAtATime
<1>5. CASE Quiet(t)
  BY <1>4, <1>5 DEF Quiet
<1>6. CASE Dies(t)
  BY <1>0, <1>4, <1>6, EndShape DEF Dies, store
<1>7. CASE ReadRevision(t) \/ ReadSequence(t)
  <2>1. UNCHANGED store
    BY <1>7 DEF ReadRevision, ReadSequence
  <2>2. req'[t].step = req[t].step /\ req'[t].evidence = req[t].evidence
    BY <1>1, <1>7 DEF ReadRevision, ReadSequence, Requests
  <2> QED
    BY <1>4, <2>1, <2>2 DEF DeliveriesOK, store
<1>8. CASE StoreEvidence(t) \/ CheckRevision(t) \/ GrantApproval(t) \/ HoldRelease(t)
           \/ MarkCompleted(t)
  <2>1. UNCHANGED events /\ evidence \subseteq evidence'
    BY <1>8 DEF StoreEvidence, CheckRevision, GrantApproval, HoldRelease, MarkCompleted,
       AddEvidence, AddApproval, UpdateRun, store
  <2>2. req'[t].step # "evidence_deduplicated"
    BY <1>0, <1>8, GotoShape, EndShape DEF StoreEvidence, CheckRevision, GrantApproval,
       HoldRelease, MarkCompleted
  <2> QED
    BY <1>4, <2>1, <2>2
<1>9. CASE DuplicateEvidence(t)
  <2>1. /\ UNCHANGED <<events, evidence>>
        /\ req[t].step = "add_evidence" /\ req[t].evidence \in evidence
    BY <1>9 DEF DuplicateEvidence, store
  <2>2. req'[t].evidence = req[t].evidence
    BY <1>0, <1>9, GotoShape DEF DuplicateEvidence
  <2>3. OneAtATime => \A u \in Handlers : ~Observing(u, req[t].evidence)
    BY <2>1 DEF OneAtATime, Observing
  <2>4. OneAtATime => req[t].evidence \in lost \/ Observed(req[t].evidence)
    BY <1>0, <2>1, <2>3 DEF EvidenceObservedOnce
  <2> QED
    BY <1>4, <2>1, <2>2, <2>4
<1>10. CASE CommitEvent(t)
  <2>1. /\ evidence' = evidence /\ req'[t].step # "evidence_deduplicated"
    BY <1>0, <1>10, CommitShape
  <2>2. PICK new \in EventRows :
           /\ events' = events \cup {new} /\ new.sequence = Cardinality(events) + 1
           /\ new.type = req[t].step /\ new.source = Source(t)
    BY <1>0, <1>10, CommitAdds
  <2>3. \A e \in events : e.sequence < new.sequence
    <3>1. PICK n \in Nat : n = Cardinality(events) /\ Sequences = 1..n
      BY <1>0, FS_CardinalityType DEF LogInv, LogIsDense
    <3>2. \A e \in events : e.sequence \in 1..n
      BY <3>1 DEF Sequences
    <3> QED
      BY <2>2, <3>1, <3>2
  <2>4. EventsOf("evidence_observed") \subseteq EventsOf("evidence_observed")'
    BY <2>2 DEF EventsOf
  <2>5. ASSUME NEW d \in EventsOf("evidence_deduplicated")'
        PROVE  /\ d.source \in evidence
               /\ OneAtATime =>
                    \/ d.source \in lost
                    \/ \E o \in EventsOf("evidence_observed") :
                         o.source = d.source /\ o.sequence < d.sequence
    <3>1. CASE d \in events
      BY <2>5, <3>1 DEF EventsOf, DeliveriesOK
    <3>2. CASE d = new
      <4>1. req[t].step = "evidence_deduplicated" /\ d.source = req[t].evidence
        BY <2>2, <2>5, <3>2 DEF EventsOf, Source
      <4>2. \A o \in EventsOf("evidence_observed") : o.sequence < d.sequence
        BY <2>3, <3>2 DEF EventsOf
      <4> QED
        BY <4>1, <4>2 DEF DeliveriesOK, Observed
    <3> QED
      BY <2>2, <2>5, <3>1, <3>2 DEF EventsOf
  <2>6. ASSUME NEW u \in Handlers, req'[u].step = "evidence_deduplicated"
        PROVE  /\ req'[u].evidence \in evidence
               /\ OneAtATime => req'[u].evidence \in lost \/ Observed(req'[u].evidence)
    BY <1>2, <2>1, <2>6 DEF DeliveriesOK
  <2>7. ASSUME NEW u \in Handlers, req'[u].step = "evidence_deduplicated"
        PROVE  /\ req'[u].evidence \in evidence
               /\ OneAtATime => req'[u].evidence \in lost' \/ Observed(req[u].evidence)'
    BY <1>3, <2>4, <2>6, <2>7 DEF Observed
  <2> QED
    BY <1>3, <2>1, <2>4, <2>5, <2>7 DEF DeliveriesOK, OneAtATime
<1> QED
  BY <1>0, <1>5, <1>6, <1>7, <1>8, <1>9, <1>10, HandlerShape

LEMMA TrailNext ==
  ASSUME LedgerInv, LedgerInv', TrailOK, DeliveriesOK, [Next]_vars
  PROVE  TrailOK' /\ DeliveriesOK'
<1>1. IInv
  BY DEF LedgerInv
<1>2. CASE UNCHANGED vars
  <2>1. UNCHANGED <<run, events, evidence, req, lost>>
    BY <1>2 DEF vars, store, history
  <2>2. TrailOK'
    BY <2>1 DEF TrailOK, RevisionsFollowTheLog, RevisionAt, EventAt, Continues, OneAtATime
  <2>3. DeliveriesOK'
    BY <2>1 DEF DeliveriesOK, EventsOf, Observed, OneAtATime
  <2> QED
    BY <2>2, <2>3
<1> QED
  BY <1>1, <1>2, TrailPreserved, DeliveriesPreserved DEF Next, Quiescent

LEMMA TrailInit == Init => TrailOK /\ DeliveriesOK
<1> SUFFICES ASSUME Init PROVE TrailOK /\ DeliveriesOK
  OBVIOUS
<1>1. events = {} /\ run.revision = 0
  BY DEF Init, StoreInit, NoRun
<1>2. \A t \in Handlers : req[t].step = "idle" /\ req[t].phase = "revision"
  BY DEF Init, IdleRequest
<1>3. TrailOK
  BY <1>1, <1>2, FS_EmptySet DEF TrailOK, RevisionsFollowTheLog, RevisionAt
<1>4. DeliveriesOK
  BY <1>1, <1>2 DEF DeliveriesOK, EventsOf
<1> QED
  BY <1>3, <1>4

\* However many requests overlap and wherever a handler dies, every event's
\* revision continues an earlier point of the log and what the log calls a
\* duplicate was stored and is observed, about to be, or lost; when requests
\* follow one another the point is the last event, and the duplicate's evidence
\* was observed before it or is lost (store.py 192-229, controller.py 648-656).
THEOREM AuditTrail == Spec => []AuditTrailIsSound
<1>1. IInv /\ TrailOK /\ DeliveriesOK => AuditTrailIsSound
  <2> SUFFICES ASSUME IInv, TrailOK, DeliveriesOK PROVE AuditTrailIsSound
    OBVIOUS
  <2>1. ASSUME NEW d \in EventsOf("evidence_deduplicated")
        PROVE  \/ \E o \in EventsOf("evidence_observed") :
                    o.source = d.source /\ (OneAtATime => o.sequence < d.sequence)
               \/ d.source \in lost
               \/ ~OneAtATime /\ \E t \in Handlers : Observing(t, d.source)
    BY <2>1 DEF IInv, EvidenceObservedOnce, Observed, DeliveriesOK
  <2> QED
    BY <2>1 DEF AuditTrailIsSound, DuplicatesWereStored, TrailOK
<1>2. LedgerInv => IInv
  BY DEF LedgerInv
<1>3. LedgerInv /\ LedgerInv' /\ TrailOK /\ DeliveriesOK /\ [Next]_vars => TrailOK' /\ DeliveriesOK'
  BY TrailNext
<1> QED
  BY <1>1, <1>2, <1>3, TrailInit, SpecLedgerInv, PTL DEF Spec

-----------------------------------------------------------------------------
(***************************************************************************)
(* One request at a time, even if some of them die.  What follows is not   *)
(* true of overlapping requests: evidence may be observed between an       *)
(* approval's check and its record, and two handlers may continue the same *)
(* revision.                                                               *)
(***************************************************************************)
\* The run carries the largest revision of the log, and a handler that is
\* appending has read it.
RevisionsOK ==
  /\ \A e \in events : e.revision <= run.revision
  /\ \A t \in Handlers :
       req[t].phase # "revision" =>
         /\ req[t].step \in EventTypes
         /\ req[t].revision = run.revision + (IF Advances(req[t].step) THEN 1 ELSE 0)

\* An approval on its way into the log is of the current revision, and one on its
\* way into the table is bound to a revision later than all the evidence.
ApprovalsOK ==
  /\ ReviewedAllEvidence
  /\ ApprovalPostdatesEvidence
  /\ \A t \in Handlers :
       /\ req[t].step = "approval_recorded" => req[t].expected = run.revision
       /\ req[t].step = "add_approval" =>
            \A e \in EventsOf("evidence_observed") : e.revision < req[t].revision

LEMMA CommitRevision ==
  ASSUME TypeOK, RevisionsOK, NEW t \in Handlers, CommitEvent(t)
  PROVE  /\ run'.revision = req[t].revision
         /\ req[t].revision = run.revision + (IF Advances(req[t].step) THEN 1 ELSE 0)
         /\ run.revision \in Nat /\ req[t].revision \in Nat
<1>1. req[t] \in Requests /\ run.revision \in Nat
  BY DEF TypeOK, StoreTypeOK
<1>2. req[t].phase = "write"
  BY DEF CommitEvent, Appending
<1> QED
  BY <1>1, <1>2, CommitShape DEF RevisionsOK, Requests

LEMMA RevisionsPreserved ==
  ASSUME OneAtATime, TypeOK, LogInv, RevisionsOK, NEW t \in Handlers,
         Receive(t) \/ Step(t) \/ Fail(t)
  PROVE  RevisionsOK'
<1>1. req \in [Handlers -> Requests] /\ req[t] \in Requests
  BY DEF TypeOK
<1>2. \A u \in Handlers : u = t
  BY DEF OneAtATime
<1>3. run.revision \in Nat /\ \A e \in events : e.revision \in Nat
  BY DEF TypeOK, StoreTypeOK, EventRows
<1>4. ASSUME UNCHANGED events, run'.revision = run.revision,
             req'[t].phase = "revision"
      PROVE  RevisionsOK'
  BY <1>2, <1>4 DEF RevisionsOK
<1>5. CASE Quiet(t)
  <2>1. req[t].phase = "revision"
    BY <1>5 DEF Quiet, RevisionsOK, AccessSteps, EventTypes
  <2> QED
    BY <1>4, <1>5, <2>1 DEF Quiet
<1>6. CASE Dies(t)
  BY <1>4, <1>6, EndShape DEF Dies, store
<1>7. CASE ReadRevision(t)
  <2>1. UNCHANGED store /\ req[t].step \in EventTypes
    BY <1>7 DEF ReadRevision, Appending
  <2>2. PICK r : r = run.revision + (IF Advances(req[t].step) THEN 1 ELSE 0)
    OBVIOUS
  <2>3. req'[t] = [req[t] EXCEPT !.phase = "sequence", !.revision = r]
    BY <1>1, <1>7, <2>2 DEF ReadRevision
  <2>4. req'[t].step = req[t].step /\ req'[t].revision = r
    BY <1>1, <2>3 DEF Requests
  <2> QED
    BY <1>2, <2>1, <2>2, <2>4 DEF RevisionsOK, store
<1>8. CASE ReadSequence(t)
  <2>1. UNCHANGED store /\ req[t].phase = "sequence"
    BY <1>8 DEF ReadSequence, Appending
  <2>2. req'[t].step = req[t].step /\ req'[t].revision = req[t].revision
    BY <1>1, <1>8 DEF ReadSequence, Requests
  <2> QED
    BY <1>2, <2>1, <2>2 DEF RevisionsOK, store
<1>9. CASE StoreEvidence(t) \/ DuplicateEvidence(t) \/ CheckRevision(t) \/ GrantApproval(t)
  <2>1. UNCHANGED <<events, run>>
    BY <1>9 DEF StoreEvidence, DuplicateEvidence, CheckRevision, GrantApproval, AddEvidence,
       AddApproval, store
  <2>2. req'[t].phase = "revision"
    BY <1>9, GotoShape DEF StoreEvidence, DuplicateEvidence, CheckRevision, GrantApproval
  <2> QED
    BY <1>4, <2>1, <2>2
<1>10. CASE HoldRelease(t) \/ MarkCompleted(t)
  <2>1. UNCHANGED events /\ run'.revision = run.revision
    BY <1>10, RunRows DEF HoldRelease, MarkCompleted
  <2>2. req'[t].phase = "revision"
    BY <1>10, GotoShape, EndShape DEF HoldRelease, MarkCompleted
  <2> QED
    BY <1>4, <2>1, <2>2
<1>11. CASE CommitEvent(t)
  <2>1. /\ run'.revision = req[t].revision
        /\ req[t].revision = run.revision + (IF Advances(req[t].step) THEN 1 ELSE 0)
    BY <1>11, CommitRevision
  <2>2. PICK new \in EventRows : events' = events \cup {new} /\ new.revision = req[t].revision
    BY <1>11, CommitAdds
  <2>3. \A e \in events' : e.revision <= run'.revision
    BY <1>3, <2>1, <2>2 DEF RevisionsOK
  <2>4. req'[t].phase = "revision"
    BY <1>11, CommitShape
  <2> QED
    BY <1>2, <2>3, <2>4 DEF RevisionsOK
<1> QED
  BY <1>5, <1>6, <1>7, <1>8, <1>9, <1>10, <1>11, HandlerShape

LEMMA ReviewsPreserved ==
  ASSUME OneAtATime, TypeOK, LogInv, RevisionsOK, ApprovalsOK, NEW t \in Handlers,
         Receive(t) \/ Step(t) \/ Fail(t)
  PROVE  ApprovalsOK'
<1>1. req \in [Handlers -> Requests] /\ req[t] \in Requests /\ approvals \in Seq(ApprovalRows)
  BY DEF TypeOK, StoreTypeOK
<1>2. \A u \in Handlers : u = t
  BY DEF OneAtATime
<1>3. ASSUME UNCHANGED <<events, approvals>>,
             req'[t].step \notin {"approval_recorded", "add_approval"}
      PROVE  ApprovalsOK'
  BY <1>2, <1>3 DEF ApprovalsOK, ReviewedAllEvidence, ApprovalPostdatesEvidence, EventsOf
<1>4. CASE Quiet(t)
  BY <1>3, <1>4 DEF Quiet
<1>5. CASE Dies(t)
  BY <1>3, <1>5, EndShape DEF Dies, store
<1>6. CASE ReadRevision(t) \/ ReadSequence(t)
  <2>1. UNCHANGED store /\ req[t].step \in EventTypes
    BY <1>6 DEF ReadRevision, ReadSequence, Appending
  <2>2. req'[t].step = req[t].step /\ req'[t].expected = req[t].expected
    BY <1>1, <1>6 DEF ReadRevision, ReadSequence, Requests
  <2>3. req'[t].step # "add_approval"
    BY <2>1, <2>2 DEF EventTypes
  <2> QED
    BY <1>2, <2>1, <2>2, <2>3 DEF ApprovalsOK, ReviewedAllEvidence, ApprovalPostdatesEvidence,
       EventsOf, store
<1>7. CASE StoreEvidence(t) \/ DuplicateEvidence(t)
  <2>1. UNCHANGED <<events, approvals>>
    BY <1>7 DEF StoreEvidence, DuplicateEvidence, AddEvidence, store
  <2>2. req'[t].step \in {"evidence_observed", "evidence_deduplicated"}
    BY <1>7, GotoShape DEF StoreEvidence, DuplicateEvidence
  <2> QED
    BY <1>3, <2>1, <2>2
<1>8. CASE HoldRelease(t) \/ MarkCompleted(t)
  <2>1. UNCHANGED <<events, approvals>>
    BY <1>8 DEF HoldRelease, MarkCompleted, UpdateRun
  <2>2. req'[t].step \in {"approval_invalidated", "idle"}
    BY <1>8, GotoShape, EndShape DEF HoldRelease, MarkCompleted
  <2> QED
    BY <1>3, <2>1, <2>2
<1>9. CASE CheckRevision(t)
  <2>1. UNCHANGED store
    BY <1>9 DEF CheckRevision
  <2>2. \/ req'[t].step = "approval_rejected_stale"
        \/ /\ req'[t].step = "approval_recorded" /\ req'[t].expected = req[t].expected
           /\ req[t].expected = run.revision
    BY <1>9, GotoShape DEF CheckRevision
  <2> QED
    BY <1>2, <2>1, <2>2 DEF ApprovalsOK, ReviewedAllEvidence, ApprovalPostdatesEvidence,
       EventsOf, store
<1>10. CASE GrantApproval(t)
  <2>1. UNCHANGED events /\ req[t].step = "add_approval"
    BY <1>10 DEF GrantApproval, AddApproval
  <2>2. req'[t].step = "mark_completed"
    BY <1>10, GotoShape DEF GrantApproval
  <2>3. PICK r \in Nat : r = req[t].revision /\ AddApproval(r)
    BY <1>1, <1>10 DEF GrantApproval, Requests
  <2>4. /\ approvals' \in Seq(ApprovalRows)
        /\ Len(approvals') = Len(approvals) + 1
        /\ \A i \in DOMAIN approvals : approvals'[i] = Retired("SUPERSEDED")[i]
        /\ approvals'[Len(approvals) + 1] = [revision |-> r, status |-> "APPROVED"]
    BY <1>1, <2>3, GrantedFacts
  <2>5. \A i \in DOMAIN approvals : approvals'[i].status # "APPROVED"
    BY <1>1, <2>4, RetiredFacts
  <2>6. \A i \in DOMAIN approvals' : i \in DOMAIN approvals \/ i = Len(approvals) + 1
    BY <1>1, <2>4, LenProperties
  <2>7. \A i \in DOMAIN approvals' :
           approvals'[i].status = "APPROVED" => approvals'[i].revision = req[t].revision
    BY <2>3, <2>4, <2>5, <2>6
  <2>8. ApprovalPostdatesEvidence'
    BY <2>1, <2>7 DEF ApprovalsOK, ApprovalPostdatesEvidence, EventsOf
  <2> QED
    BY <1>2, <2>1, <2>2, <2>8 DEF ApprovalsOK, ReviewedAllEvidence, EventsOf
<1>11. CASE CommitEvent(t)
  <2>1. /\ run'.revision = req[t].revision
        /\ req[t].revision = run.revision + (IF Advances(req[t].step) THEN 1 ELSE 0)
        /\ run.revision \in Nat /\ req[t].revision \in Nat
    BY <1>11, CommitRevision
  <2>2. PICK new \in EventRows :
           /\ events' = events \cup {new} /\ new.sequence = Cardinality(events) + 1
           /\ new.type = req[t].step /\ new.revision = req[t].revision
           /\ new.approved = Approved(t)
    BY <1>11, CommitAdds
  <2>3. /\ \A e \in events : e.sequence \in Nat /\ e.revision \in Nat /\ e.sequence < new.sequence
        /\ new.sequence \in Nat
    <3>1. PICK n \in Nat : n = Cardinality(events) /\ Sequences = 1..n
      BY FS_CardinalityType DEF LogInv, LogIsDense
    <3>2. \A e \in events : e.sequence \in 1..n
      BY <3>1 DEF Sequences
    <3> QED
      BY <2>2, <3>1, <3>2 DEF TypeOK, StoreTypeOK, EventRows
  <2>4. \A e \in events : e.revision <= run.revision
    BY DEF RevisionsOK
  <2>5. ReviewedAllEvidence'
    <3> SUFFICES ASSUME NEW a \in EventsOf("approval_recorded")',
                        NEW e \in EventsOf("evidence_observed")', e.sequence < a.sequence
                 PROVE  e.revision <= a.approved
      BY DEF ReviewedAllEvidence
    <3>1. a \in events' /\ a.type = "approval_recorded" /\ e \in events' /\ e.type = "evidence_observed"
      BY DEF EventsOf
    <3>2. CASE a \in events
      <4>1. e \in events
        BY <2>2, <2>3, <3>1, <3>2
      <4> QED
        BY <3>1, <3>2, <4>1 DEF ApprovalsOK, ReviewedAllEvidence, EventsOf
    <3>3. CASE a = new
      <4>1. req[t].step = "approval_recorded"
        BY <2>2, <3>1, <3>3
      <4>2. a.approved = run.revision
        BY <2>2, <3>3, <4>1 DEF Approved, ApprovalsOK
      <4>3. e \in events
        BY <2>2, <3>1, <3>3
      <4> QED
        BY <2>4, <4>2, <4>3
    <3> QED
      BY <2>2, <3>1, <3>2, <3>3
  <2>6. ApprovalPostdatesEvidence'
    <3>1. CASE req[t].step = "evidence_observed"
      <4>1. approvals' = Retired("STALE")
        BY <1>11, <3>1 DEF CommitEvent, AppendEvent, Invalidates
      <4>2. \A i \in DOMAIN approvals' : approvals'[i].status # "APPROVED"
        BY <1>1, <4>1, RetiredFacts
      <4> QED
        BY <4>2 DEF ApprovalPostdatesEvidence
    <3>2. CASE req[t].step # "evidence_observed"
      <4>1. UNCHANGED approvals
        BY <1>11, <3>2 DEF CommitEvent, AppendEvent, Invalidates
      <4>2. EventsOf("evidence_observed")' = EventsOf("evidence_observed")
        BY <2>2, <3>2 DEF EventsOf
      <4> QED
        BY <4>1, <4>2 DEF ApprovalsOK, ApprovalPostdatesEvidence
    <3> QED
      BY <3>1, <3>2
  <2>7. req'[t].step # "approval_recorded"
           /\ (req'[t].step = "add_approval" =>
                 req[t].step = "approval_recorded" /\ req'[t].revision = req[t].revision)
    BY <1>11, CommitShape
  <2>8. ASSUME req'[t].step = "add_approval", NEW e \in EventsOf("evidence_observed")'
        PROVE  e.revision < req'[t].revision
    <3>1. req[t].step = "approval_recorded" /\ req'[t].revision = req[t].revision
      BY <2>7, <2>8
    <3>2. e \in events
      BY <2>2, <3>1 DEF EventsOf
    <3> QED
      BY <2>1, <2>3, <2>4, <3>1, <3>2 DEF Advances
  <2> QED
    BY <1>2, <2>5, <2>6, <2>7, <2>8 DEF ApprovalsOK
<1> QED
  BY <1>4, <1>5, <1>6, <1>7, <1>8, <1>9, <1>10, <1>11, HandlerShape

LEMMA SerialInit == Init => RevisionsOK /\ ApprovalsOK
<1> SUFFICES ASSUME Init PROVE RevisionsOK /\ ApprovalsOK
  OBVIOUS
<1>1. events = {} /\ approvals = << >>
  BY DEF Init, StoreInit
<1>2. \A t \in Handlers : req[t].step = "idle" /\ req[t].phase = "revision"
  BY DEF Init, IdleRequest
<1> QED
  BY <1>1, <1>2 DEF RevisionsOK, ApprovalsOK, ReviewedAllEvidence, ApprovalPostdatesEvidence, EventsOf

LEMMA ReviewsNext ==
  ASSUME OneAtATime, IInv, RevisionsOK, ApprovalsOK, [Next]_vars
  PROVE  RevisionsOK' /\ ApprovalsOK'
<1>1. TypeOK /\ LogInv
  BY DEF IInv
<1>2. CASE UNCHANGED vars
  <2>1. UNCHANGED <<run, events, approvals, req>>
    BY <1>2 DEF vars, store
  <2> QED
    BY <2>1 DEF RevisionsOK, ApprovalsOK, ReviewedAllEvidence,
       ApprovalPostdatesEvidence, EventsOf
<1> QED
  BY <1>1, <1>2, RevisionsPreserved, ReviewsPreserved DEF Next, Quiescent

\* As long as requests follow one another, even if some die on the way, no
\* approval is recorded or in force whose reviewer has not seen all the evidence
\* (approve and ingest_evidence, controller.py 657-713).
THEOREM SerialApprovalsCoverEvidence ==
  ASSUME OneAtATime
  PROVE  Spec => []ApprovalsCoverEvidence
<1>1. Init => RevisionsOK /\ ApprovalsOK
  BY SerialInit
<1>2. IInv /\ RevisionsOK /\ ApprovalsOK /\ [Next]_vars => RevisionsOK' /\ ApprovalsOK'
  BY ReviewsNext
<1>3. ApprovalsOK => ApprovalsCoverEvidence
  BY DEF ApprovalsOK, ApprovalsCoverEvidence
<1> QED
  BY <1>1, <1>2, <1>3, SpecIInv, PTL DEF Spec
=============================================================================
