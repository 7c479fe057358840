----------------------------- MODULE UnifiedModel -----------------------------
(***************************************************************************)
(* The incident, policy and gateway parts of infra.py, shared by the       *)
(* processes that open the same database file.                             *)
(*                                                                         *)
(* A client reads an incident, computes a new state from what it read and  *)
(* swaps it in if the revision is still the one it read.  The state is the *)
(* set of the changes it contains.  What a call returns is read in a       *)
(* transaction of its own, after the call's: other clients run in between. *)
(***************************************************************************)
EXTENDS Integers, FiniteSets

CONSTANTS
  Clients,       \* the processes
  Changes,       \* the changes clients make to the incident's state
  Versions,      \* versions of the policy
  Limit,         \* the gateway's calls per trace
  MaxCalls       \* bound: gateway calls of the trace

ASSUME UnifiedModelAssumption == Limit \in Nat /\ MaxCalls \in Nat

VARIABLES
  incident,      \* table incidents: the row
  policies,      \* table policies: the active flag of the versions there are
  clients,       \* each client's call and what it read last
  accepted,      \* the changes whose compare_and_swap succeeded
  calls,         \* LocalToolGateway.calls of the trace
  routed         \* calls that were routed

vars == <<incident, policies, clients, accepted, calls, routed>>

NoIncident == [revision |-> -1, state |-> {}]

TypeOK ==
  /\ incident.revision \in Nat \cup {-1}
  /\ incident.state \subseteq Changes
  /\ DOMAIN policies \subseteq Versions
  /\ \A v \in DOMAIN policies : policies[v] \in BOOLEAN
  /\ DOMAIN clients = Clients
  /\ \A c \in Clients :
       /\ clients[c].step \in {"idle", "read", "rollback"}
       /\ clients[c].base.revision \in Nat \cup {-1}
       /\ clients[c].base.state \subseteq Changes
       /\ clients[c].version \in Versions \cup {"none"}
  /\ accepted \subseteq Changes
  /\ calls \in Nat /\ routed \in 0..calls

Init ==
  /\ incident = NoIncident
  /\ policies = [v \in {} |-> TRUE]
  /\ clients = [c \in Clients |-> [step |-> "idle", base |-> NoIncident, version |-> "none"]]
  /\ accepted = {}
  /\ calls = 0
  /\ routed = 0

Exists == incident.revision >= 0

-----------------------------------------------------------------------------
CreateIncident(c) ==
  /\ clients[c].step = "idle"
  /\ ~Exists
  /\ incident' = [revision |-> 0, state |-> {}]
  /\ clients' = [clients EXCEPT ![c].step = "read"]
  /\ UNCHANGED <<policies, accepted, calls, routed>>

\* The row as it is now, which another client may have written since.
GetIncident(c) ==
  /\ clients[c].step = "read" \/ (clients[c].step = "idle" /\ Exists)
  /\ clients' = [clients EXCEPT ![c] = [@ EXCEPT !.step = "idle", !.base = incident]]
  /\ UNCHANGED <<incident, policies, accepted, calls, routed>>

\* A mutant asks only whether there is an incident.
MatchesAny(base) == Exists

Matches(base) == Exists /\ incident.revision = base.revision

\* A conflict raises and changes nothing: the client keeps what it had read.  A
\* mutant leaves the revision alone.
CompareAndSwapUnversioned(c, change) ==
  /\ clients[c].step = "idle"
  /\ change \notin accepted
  /\ Matches(clients[c].base)
  /\ incident' = [incident EXCEPT !.state = clients[c].base.state \cup {change}]
  /\ accepted' = accepted \cup {change}
  /\ clients' = [clients EXCEPT ![c].step = "read"]
  /\ UNCHANGED <<policies, calls, routed>>

CompareAndSwap(c, change) ==
  /\ clients[c].step = "idle"
  /\ change \notin accepted
  /\ Matches(clients[c].base)
  /\ incident' = [revision |-> incident.revision + 1, state |-> clients[c].base.state \cup {change}]
  /\ accepted' = accepted \cup {change}
  /\ clients' = [clients EXCEPT ![c].step = "read"]
  /\ UNCHANGED <<policies, calls, routed>>

-----------------------------------------------------------------------------
\* One transaction deactivates every version and inserts the new one; a version
\* there is already rolls it back.  A mutant commits the deactivation.
PublishPolicyTwice(version) ==
  /\ policies' = IF version \in DOMAIN policies THEN [v \in DOMAIN policies |-> FALSE]
                 ELSE [v \in DOMAIN policies \cup {version} |-> v = version]
  /\ UNCHANGED <<incident, clients, accepted, calls, routed>>

PublishPolicy(version) ==
  /\ version \notin DOMAIN policies
  /\ policies' = [v \in DOMAIN policies \cup {version} |-> v = version]
  /\ UNCHANGED <<incident, clients, accepted, calls, routed>>

\* rollback_policy looks for its target before its transaction.
FindPolicy(c, version) ==
  /\ clients[c].step = "idle"
  /\ version \in DOMAIN policies
  /\ clients' = [clients EXCEPT ![c] = [@ EXCEPT !.step = "rollback", !.version = version]]
  /\ UNCHANGED <<incident, policies, accepted, calls, routed>>

RollbackPolicy(c) ==
  /\ clients[c].step = "rollback"
  /\ policies' = [v \in DOMAIN policies |-> v = clients[c].version]
  /\ clients' = [clients EXCEPT ![c] = [@ EXCEPT !.step = "idle", !.version = "none"]]
  /\ UNCHANGED <<incident, accepted, calls, routed>>

-----------------------------------------------------------------------------

\* Only calls with the token and an allowed operation are counted.
WithinLimit(count) == count <= Limit

Invoke ==
  /\ calls < MaxCalls
  /\ calls' = calls + 1
  /\ routed' = IF WithinLimit(calls + 1) THEN routed + 1 ELSE routed
  /\ UNCHANGED <<incident, policies, clients, accepted>>

Next ==
  \/ \E c \in Clients :
       \/ CreateIncident(c) \/ GetIncident(c)
       \/ \E change \in Changes : CompareAndSwap(c, change)
       \/ \E v \in Versions : FindPolicy(c, v)
       \/ RollbackPolicy(c)
  \/ \E v \in Versions : PublishPolicy(v)
  \/ Invoke

Spec == Init /\ [][Next]_vars

-----------------------------------------------------------------------------
\* No accepted change is lost, whichever clients read the same revision, and the
\* revision counts the accepted changes (infra.py:109-123).
NoLostUpdate ==
  Exists => /\ incident.state = accepted
            /\ incident.revision = Cardinality(accepted)

\* Once a policy was published exactly one version is active, whatever publish
\* and rollback calls overlap and also when one is refused (infra.py:198-227).
OneActivePolicy ==
  DOMAIN policies # {} => Cardinality({v \in DOMAIN policies : policies[v]}) = 1

\* What a client last read is a revision with the state it had: a client that saw
\* the current revision saw the current state (infra.py:102-123).
ReadsAreConsistent ==
  \A c \in Clients : clients[c].base.revision = incident.revision =>
    clients[c].base.state = incident.state

\* A trace gets no more routed calls than the gateway's limit, and the first ones
\* are not refused (infra.py:243-258).
RoutedToTheLimit == routed = IF calls < Limit THEN calls ELSE Limit
=============================================================================
