-------------------------- MODULE UnifiedModelProofs --------------------------
(***************************************************************************)
(* Proofs about UnifiedModel, for any clients, changes, versions and       *)
(* bounds.                                                                 *)
(***************************************************************************)
EXTENDS UnifiedModel, FiniteSetTheorems, TLAPS

\* What a client has read is not newer than the row, and the same as the row if
\* it is as new; this is what lets an update made from it lose nothing.
BasesLag ==
  \A c \in Clients :
    /\ clients[c].base.revision <= incident.revision
    /\ clients[c].base.revision = incident.revision => clients[c].base.state = incident.state

RowCountsChanges ==
  /\ IsFiniteSet(accepted)
  /\ incident.state = accepted
  /\ Exists => incident.revision = Cardinality(accepted)
  /\ ~Exists => accepted = {}

OneActive ==
  DOMAIN policies # {} => \E v \in DOMAIN policies : {w \in DOMAIN policies : policies[w]} = {v}

TargetExists ==
  \A c \in Clients : clients[c].step = "rollback" => clients[c].version \in DOMAIN policies

\* The inductive invariant.
IInv == TypeOK /\ BasesLag /\ RowCountsChanges /\ OneActive /\ TargetExists /\ RoutedToTheLimit

ClientFields ==
  [ step : {"idle", "read", "rollback"}, base : [revision : Nat \cup {-1}, state : SUBSET Changes],
    version : Versions \cup {"none"} ]

\* The types as function sets, which the provers need for EXCEPT.
Shapes ==
  /\ incident \in [revision : Nat \cup {-1}, state : SUBSET Changes]
  /\ clients \in [Clients -> ClientFields]

Shaped == IInv /\ Shapes

LEMMA ShapedInit == Init => Shaped
<1> SUFFICES ASSUME Init PROVE Shaped
  OBVIOUS
<1>1. TypeOK /\ Shapes
  BY UnifiedModelAssumption DEF Init, TypeOK, Shapes, NoIncident, ClientFields
<1>2. BasesLag /\ OneActive /\ TargetExists
  BY DEF Init, BasesLag, OneActive, TargetExists, NoIncident
<1>3. RowCountsChanges
  BY FS_EmptySet DEF Init, RowCountsChanges, Exists, NoIncident
<1>4. RoutedToTheLimit
  BY UnifiedModelAssumption DEF Init, RoutedToTheLimit
<1> QED
  BY <1>1, <1>2, <1>3, <1>4 DEF Shaped, IInv

LEMMA CreateStep ==
  ASSUME Shaped, NEW c \in Clients, CreateIncident(c)
  PROVE  Shaped'
<1> USE DEF Shaped, IInv
<1>1. TypeOK' /\ Shapes'
  BY DEF CreateIncident, TypeOK, Shapes, ClientFields
<1>2. BasesLag'
  <2>1. \A d \in Clients : clients'[d].base = clients[d].base
    BY DEF CreateIncident, Shapes, ClientFields
  <2>2. incident.revision = -1 /\ incident'.revision = 0
    BY DEF CreateIncident, Exists, Shapes
  <2>3. \A d \in Clients : clients[d].base.revision <= -1
    BY <2>2 DEF BasesLag
  <2> QED
    BY <2>1, <2>2, <2>3 DEF BasesLag, Shapes, ClientFields
<1>3. RowCountsChanges'
  BY FS_EmptySet DEF CreateIncident, RowCountsChanges, Exists
<1>4. OneActive' /\ RoutedToTheLimit'
  BY DEF CreateIncident, OneActive, RoutedToTheLimit
<1>5. TargetExists'
  BY DEF CreateIncident, TargetExists, Shapes, ClientFields
<1> QED
  BY <1>1, <1>2, <1>3, <1>4, <1>5

LEMMA ReadStep ==
  ASSUME Shaped, NEW c \in Clients, GetIncident(c)
  PROVE  Shaped'
<1> USE DEF Shaped, IInv
<1>1. TypeOK' /\ Shapes'
  <2>1. clients' \in [Clients -> ClientFields]
    <3>1. [clients[c] EXCEPT !.step = "idle", !.base = incident] \in ClientFields
      BY DEF Shapes, ClientFields
    <3>2. clients' = [clients EXCEPT ![c] = [clients[c] EXCEPT !.step = "idle", !.base = incident]]
      BY DEF GetIncident, Shapes
    <3> QED
      BY <3>1, <3>2 DEF Shapes
  <2>2. incident' = incident /\ calls' = calls /\ routed' = routed /\ accepted' = accepted
    BY DEF GetIncident
  <2>3. DOMAIN policies' \subseteq Versions /\ \A v \in DOMAIN policies' : policies'[v] \in BOOLEAN
    BY DEF GetIncident, TypeOK
  <2> QED
    BY <2>1, <2>2, <2>3 DEF TypeOK, Shapes, ClientFields
<1>2. BasesLag'
  BY DEF GetIncident, BasesLag, Shapes, ClientFields
<1>3. RowCountsChanges' /\ OneActive' /\ RoutedToTheLimit'
  BY DEF GetIncident, RowCountsChanges, Exists, OneActive, RoutedToTheLimit
<1>4. TargetExists'
  BY DEF GetIncident, TargetExists, Shapes, ClientFields
<1> QED
  BY <1>1, <1>2, <1>3, <1>4

\* The heart of it: the client's base is the row as it stands, so the new state
\* is the accepted changes and one more.
LEMMA SwapStep ==
  ASSUME Shaped, NEW c \in Clients, NEW change \in Changes, CompareAndSwap(c, change)
  PROVE  Shaped'
<1> USE DEF Shaped, IInv
<1>1. TypeOK' /\ Shapes'
  BY DEF CompareAndSwap, Matches, Exists, TypeOK, Shapes, ClientFields
<1>2. clients[c].base.state = accepted
  BY DEF CompareAndSwap, Matches, BasesLag, RowCountsChanges
<1>3. RowCountsChanges'
  <2>1. /\ IsFiniteSet(accepted \cup {change})
        /\ Cardinality(accepted \cup {change}) = Cardinality(accepted) + 1
    BY FS_AddElement DEF CompareAndSwap, RowCountsChanges
  <2>2. /\ incident'.state = accepted \cup {change} /\ accepted' = accepted \cup {change}
        /\ incident'.revision = incident.revision + 1
    BY <1>2 DEF CompareAndSwap
  <2>3. Exists /\ Exists'
    BY <2>2 DEF CompareAndSwap, Matches, Exists, Shapes
  <2> QED
    BY <2>1, <2>2, <2>3 DEF RowCountsChanges
<1>4. BasesLag'
  <2>1. \A d \in Clients : clients'[d].base = clients[d].base
    BY DEF CompareAndSwap, Shapes, ClientFields
  <2>2. incident'.revision = incident.revision + 1
    BY DEF CompareAndSwap
  <2> QED
    BY <2>1, <2>2 DEF BasesLag, Shapes, ClientFields
<1>5. OneActive' /\ RoutedToTheLimit'
  BY DEF CompareAndSwap, OneActive, RoutedToTheLimit
<1>6. TargetExists'
  BY DEF CompareAndSwap, TargetExists, Shapes, ClientFields
<1> QED
  BY <1>1, <1>3, <1>4, <1>5, <1>6

LEMMA PublishStep ==
  ASSUME Shaped, NEW version \in Versions, PublishPolicy(version)
  PROVE  Shaped'
<1> USE DEF Shaped, IInv
<1>1. TypeOK' /\ Shapes'
  BY DEF PublishPolicy, TypeOK, Shapes
<1>2. BasesLag' /\ RowCountsChanges' /\ RoutedToTheLimit'
  BY DEF PublishPolicy, BasesLag, RowCountsChanges, Exists, RoutedToTheLimit
<1>3. OneActive'
  <2>1. {w \in DOMAIN policies' : policies'[w]} = {version} /\ version \in DOMAIN policies'
    BY DEF PublishPolicy
  <2> QED
    BY <2>1 DEF OneActive
<1>4. TargetExists'
  BY DEF PublishPolicy, TargetExists
<1> QED
  BY <1>1, <1>2, <1>3, <1>4

LEMMA FindStep ==
  ASSUME Shaped, NEW c \in Clients, NEW version \in Versions, FindPolicy(c, version)
  PROVE  Shaped'
<1> USE DEF Shaped, IInv
<1>1. TypeOK' /\ Shapes'
  <2>1. clients' \in [Clients -> ClientFields]
    <3>1. clients[c] \in ClientFields
      BY DEF Shapes
    <3>2. [clients[c] EXCEPT !.step = "rollback", !.version = version] \in ClientFields
      BY <3>1 DEF ClientFields
    <3>3. clients' = [clients EXCEPT ![c] = [clients[c] EXCEPT !.step = "rollback", !.version = version]]
      BY DEF FindPolicy
    <3> QED
      BY <3>2, <3>3 DEF Shapes
  <2>2. incident' = incident /\ calls' = calls /\ routed' = routed /\ accepted' = accepted
    BY DEF FindPolicy
  <2>3. DOMAIN policies' \subseteq Versions /\ \A v \in DOMAIN policies' : policies'[v] \in BOOLEAN
    BY DEF FindPolicy, TypeOK
  <2> QED
    BY <2>1, <2>2, <2>3 DEF TypeOK, Shapes, ClientFields
<1>2. BasesLag' /\ TargetExists'
  BY DEF FindPolicy, BasesLag, TargetExists, Shapes, ClientFields
<1>3. RowCountsChanges' /\ OneActive' /\ RoutedToTheLimit'
  BY DEF FindPolicy, RowCountsChanges, Exists, OneActive, RoutedToTheLimit
<1> QED
  BY <1>1, <1>2, <1>3

LEMMA RollbackStep ==
  ASSUME Shaped, NEW c \in Clients, RollbackPolicy(c)
  PROVE  Shaped'
<1> USE DEF Shaped, IInv
<1>1. TypeOK' /\ Shapes'
  <2>1. clients' \in [Clients -> ClientFields]
    <3>1. clients[c] \in ClientFields
      BY DEF Shapes
    <3>2. [clients[c] EXCEPT !.step = "idle", !.version = "none"] \in ClientFields
      BY <3>1 DEF ClientFields
    <3>3. clients' = [clients EXCEPT ![c] = [clients[c] EXCEPT !.step = "idle", !.version = "none"]]
      BY DEF RollbackPolicy
    <3> QED
      BY <3>2, <3>3 DEF Shapes
  <2>2. incident' = incident /\ calls' = calls /\ routed' = routed /\ accepted' = accepted
    BY DEF RollbackPolicy
  <2>3. DOMAIN policies' \subseteq Versions /\ \A v \in DOMAIN policies' : policies'[v] \in BOOLEAN
    BY DEF RollbackPolicy, TypeOK
  <2> QED
    BY <2>1, <2>2, <2>3 DEF TypeOK, Shapes, ClientFields
<1>2. BasesLag'
  BY DEF RollbackPolicy, BasesLag, Shapes, ClientFields
<1>3. RowCountsChanges' /\ RoutedToTheLimit'
  BY DEF RollbackPolicy, RowCountsChanges, Exists, RoutedToTheLimit
<1>4. DOMAIN policies' = DOMAIN policies
  BY DEF RollbackPolicy
<1>5. OneActive'
  <2>1. clients[c].version \in DOMAIN policies
    BY DEF RollbackPolicy, TargetExists
  <2>2. {w \in DOMAIN policies' : policies'[w]} = {clients[c].version}
    BY <2>1 DEF RollbackPolicy
  <2> QED
    BY <1>4, <2>1, <2>2 DEF OneActive
<1>6. TargetExists'
  BY <1>4 DEF RollbackPolicy, TargetExists, Shapes, ClientFields
<1> QED
  BY <1>1, <1>2, <1>3, <1>5, <1>6

LEMMA InvokeStep ==
  ASSUME Shaped, Invoke
  PROVE  Shaped'
<1> USE DEF Shaped, IInv
<1>1. RoutedToTheLimit'
  BY UnifiedModelAssumption DEF Invoke, WithinLimit, RoutedToTheLimit, TypeOK
<1>2. calls' \in Nat /\ routed' \in 0..calls'
  BY UnifiedModelAssumption DEF Invoke, TypeOK
<1>3. TypeOK' /\ Shapes'
  BY <1>2 DEF Invoke, TypeOK, Shapes
<1>4. BasesLag' /\ RowCountsChanges' /\ OneActive' /\ TargetExists'
  BY DEF Invoke, BasesLag, RowCountsChanges, Exists, OneActive, TargetExists
<1> QED
  BY <1>1, <1>3, <1>4

LEMMA StutterStep == ASSUME Shaped, UNCHANGED vars PROVE Shaped'
<1> USE DEF Shaped, IInv, vars
<1>1. TypeOK' /\ Shapes'
  BY DEF TypeOK, Shapes
<1>2. BasesLag' /\ RowCountsChanges' /\ OneActive' /\ TargetExists' /\ RoutedToTheLimit'
  BY DEF BasesLag, RowCountsChanges, Exists, OneActive, TargetExists, RoutedToTheLimit
<1> QED
  BY <1>1, <1>2

THEOREM Inductive == Spec => []Shaped
<1>1. Shaped /\ [Next]_vars => Shaped'
  BY CreateStep, ReadStep, SwapStep, FindStep, RollbackStep, PublishStep, InvokeStep, StutterStep
  DEF Next
<1> QED
  BY ShapedInit, <1>1, PTL DEF Spec

\* Every reachable state is well typed.
THEOREM TypeCorrectness == Spec => []TypeOK
<1>1. Shaped => TypeOK
  BY DEF Shaped, IInv
<1> QED
  BY <1>1, Inductive, PTL

\* No accepted change of any client is lost (infra.py:109-123).
THEOREM UpdatesAreKept == Spec => []NoLostUpdate
<1>1. Shaped => NoLostUpdate
  BY DEF Shaped, IInv, RowCountsChanges, NoLostUpdate
<1> QED
  BY <1>1, Inductive, PTL

\* A client's revision and state belong together (infra.py:102-123).
THEOREM ConsistentReads == Spec => []ReadsAreConsistent
<1>1. Shaped => ReadsAreConsistent
  BY DEF Shaped, IInv, BasesLag, ReadsAreConsistent
<1> QED
  BY <1>1, Inductive, PTL

\* Exactly one version of a published policy is active (infra.py:198-227).
THEOREM ActivePolicy == Spec => []OneActivePolicy
<1>1. Shaped => OneActivePolicy
  <2> SUFFICES ASSUME Shaped, DOMAIN policies # {}
      PROVE  Cardinality({v \in DOMAIN policies : policies[v]}) = 1
    BY DEF OneActivePolicy
  <2>1. PICK v \in DOMAIN policies : {w \in DOMAIN policies : policies[w]} = {v}
    BY DEF Shaped, IInv, OneActive
  <2> QED
    BY <2>1, FS_Singleton
<1> QED
  BY <1>1, Inductive, PTL

\* The gateway routes the first calls of a trace and no more than its limit
\* (infra.py:243-258).
THEOREM RoutedCalls == Spec => []RoutedToTheLimit
<1>1. Shaped => RoutedToTheLimit
  BY DEF Shaped, IInv
<1> QED
  BY <1>1, Inductive, PTL
=============================================================================
