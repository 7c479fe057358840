--------------------------- MODULE ReleaseLedger ----------------------------
(***************************************************************************)
(* What a run's release record promises, with every operation atomic: an   *)
(* append-only log in which an evidence id is observed at most once, an    *)
(* approval in force that the next observation withdraws, and approvals    *)
(* that are granted only against an approval_recorded entry of the log.    *)
(***************************************************************************)
EXTENDS Integers, Sequences, FiniteSets

CONSTANTS Evidence, NoEvidence

VARIABLES
  log,        \* the entries [type, source], in order
  standing,   \* whether an approval is in force
  granted     \* how many approvals were ever granted

ledger == <<log, standing, granted>>

Entries(type) == {n \in DOMAIN log : log[n].type = type}

Observed == {log[n].source : n \in Entries("evidence_observed")}

Init ==
  /\ log = << >>
  /\ standing = FALSE
  /\ granted = 0

\* New evidence is observed and withdraws the approval in force.
Observe(e) ==
  /\ e \notin Observed
  /\ log' = Append(log, [type |-> "evidence_observed", source |-> e])
  /\ standing' = FALSE
  /\ UNCHANGED granted

\* Any other entry is logged; it concerns no approval.
Record ==
  /\ Len(log') = Len(log) + 1
  /\ SubSeq(log', 1, Len(log)) = log
  /\ log'[Len(log')].type # "evidence_observed"
  /\ UNCHANGED <<standing, granted>>

\* An approval takes effect; the log must hold an entry for each one granted.
Grant ==
  /\ granted < Cardinality(Entries("approval_recorded"))
  /\ granted' = granted + 1
  /\ standing' = TRUE
  /\ UNCHANGED log

Next ==
  \/ \E e \in Evidence : Observe(e)
  \/ Record
  \/ Grant

Spec == Init /\ [][Next]_ledger
=============================================================================
