------------------------------ MODULE RunStore ------------------------------
(***************************************************************************)
(* The SQLite tables behind one incident run (runtime/store.py) and the    *)
(* transactions the controller runs on them.                               *)
(*                                                                         *)
(* Python's sqlite3 connection opens a transaction at the first INSERT or  *)
(* UPDATE, so a SELECT of a store method is a step of its own and the      *)
(* writes that follow it commit together or not at all.  Each operator     *)
(* below is one such committed write; the reads that precede a write       *)
(* (the current revision, NextSequence) are taken by the caller's earlier  *)
(* steps and passed in.                                                    *)
(***************************************************************************)
EXTENDS Integers, Sequences, FiniteSets, FiniteSetsExt

CONSTANTS
  Evidence,     \* the evidence event ids that clients deliver
  NoEvidence    \* the source of an event that is about no evidence

ASSUME NoEvidenceAssumption == NoEvidence \notin Evidence

VARIABLES
  run,          \* the row of table runs
  events,       \* the rows of table events
  evidence,     \* the event ids of table evidence
  approvals     \* the rows of table approvals, oldest first

store == <<run, events, evidence, approvals>>

(***************************************************************************)
(* Event types.  "coordination" stands for every event of planning, DAG    *)
(* execution and worker attempts: they all advance the revision, concern   *)
(* no approval and differ only in their payload.                           *)
(***************************************************************************)
EventTypes ==
  { "controller_run_created", "coordination", "abstention_recorded",
    "evidence_observed", "evidence_deduplicated", "approval_invalidated",
    "approval_rejected_stale", "approval_recorded", "human_pause",
    "tool_permission_denied", "retry_exhausted" }

\* advance_revision is FALSE for a duplicate delivery only.
Advances(type) == type # "evidence_deduplicated"

\* invalidate_approval is TRUE for newly observed evidence only; a mutant never
\* passes it.
InvalidatesNothing(type) == FALSE
Invalidates(type) == type = "evidence_observed"

NoRun ==
  [status |-> "ABSENT", gate |-> "pending", decision |-> "pending", revision |-> 0]

\* Of the payload, source is the evidence the event is about and approved the
\* revision an approval event says the reviewer approved.
EventRows ==
  [sequence : Nat, type : EventTypes, revision : Nat,
   source : Evidence \cup {NoEvidence}, approved : Nat]

ApprovalStatuses == {"APPROVED", "STALE", "SUPERSEDED"}

ApprovalRows == [revision : Nat, status : ApprovalStatuses]

Statuses ==
  { "ABSENT", "RUNNING", "ABSTAINED", "BLOCKED_INSUFFICIENT_EVIDENCE",
    "PAUSED_AWAITING_HUMAN", "COMPLETED", "BLOCKED_PERMISSION_DENIED",
    "BLOCKED_RETRY_EXHAUSTED" }

Gates == {"pending", "not-run", "passed", "failed"}

Decisions ==
  { "pending", "approved", "blocked-awaiting-human", "blocked-quality",
    "blocked-quality-gate", "blocked-insufficient-evidence" }

StoreTypeOK ==
  /\ run \in [status : Statuses, gate : Gates, decision : Decisions, revision : Nat]
  /\ events \subseteq EventRows
  /\ evidence \subseteq Evidence
  /\ approvals \in Seq(ApprovalRows)

StoreInit ==
  /\ run = NoRun
  /\ events = {}
  /\ evidence = {}
  /\ approvals = << >>

-----------------------------------------------------------------------------

Sequences == {e.sequence : e \in events}

\* SELECT COALESCE(MAX(sequence), 0) + 1
NextSequence == Max(Sequences \cup {0}) + 1

\* UNIQUE (run_id, sequence): a mutant table has no such constraint.
SequenceFreeUnchecked(n) == TRUE
SequenceFree(n) == n \notin Sequences

\* Whether an APPROVED row exists: the rowcount the invalidation returns.
Standing == \E i \in DOMAIN approvals : approvals[i].status = "APPROVED"

\* The approvals once every APPROVED row got the status s.  A mutant retires none.
RetiredNever(s) == approvals

Retired(s) ==
  [i \in DOMAIN approvals |->
     IF approvals[i].status = "APPROVED"
     THEN [approvals[i] EXCEPT !.status = s]
     ELSE approvals[i]]

InsertRun ==
  /\ run = NoRun
  /\ run' = [status |-> "RUNNING", gate |-> "pending", decision |-> "pending", revision |-> 0]
  /\ UNCHANGED <<events, evidence, approvals>>

UpdateRun(status, gate, decision) ==
  /\ run' = [run EXCEPT !.status = status, !.gate = gate, !.decision = decision]
  /\ UNCHANGED <<events, evidence, approvals>>

\* The write transaction of append_event, with the revision and the sequence
\* that its two SELECTs returned.  (Evidence brings its own event id; should an
\* event have it already the insert raises, which is ReleaseControl's Fail.)
AppendEvent(type, source, approved, revision, sequence) ==
  /\ SequenceFree(sequence)
  /\ run' = [run EXCEPT !.revision = revision]
  /\ approvals' = IF Invalidates(type) THEN Retired("STALE") ELSE approvals
  /\ events' = events \cup
       {[sequence |-> sequence, type |-> type, revision |-> revision,
         source |-> source, approved |-> approved]}
  /\ UNCHANGED evidence

AddEvidence(e) ==
  /\ e \notin evidence
  /\ evidence' = evidence \cup {e}
  /\ UNCHANGED <<run, events, approvals>>

AddApproval(revision) ==
  /\ approvals' = Append(Retired("SUPERSEDED"), [revision |-> revision, status |-> "APPROVED"])
  /\ UNCHANGED <<run, events, evidence>>
=============================================================================
