------------------------- MODULE TaskExecutionProofs -------------------------
(***************************************************************************)
(* Proofs about TaskExecution, for any scenario, handlers, evidence and    *)
(* bounds.                                                                 *)
(***************************************************************************)
EXTENDS TaskExecution, TLAPS

-----------------------------------------------------------------------------
(***************************************************************************)
(* Plans.                                                                  *)
(***************************************************************************)
\* Tasks are numbered by their place, so a DAG has no task twice, and what a
\* task depends on has a smaller number and is at that place of the DAG, if the
\* DAG has the place.
LEMMA PlanShape ==
  ASSUME NEW e \in SUBSET Evidence, NEW i \in DOMAIN Plans[e]
  PROVE  /\ Plans[e][i].task = <<i, Plans[e][i].agent>>
         /\ Plans[e][i].task \in TaskIds
         /\ \A d \in Plans[e][i].depends_on : \E j \in 1..i-1 :
              d[1] = j /\ (j \in DOMAIN Plans[e] => d = Plans[e][j].task)
<1> DEFINE c == Recommend(Scenario, e)
<1>1. Plans[e] = Compile(c)
  BY DEF Plans, Plan
<1>2. i \in DOMAIN c
  BY <1>1 DEF Compile
<1>3. /\ Plans[e][i].task = <<i, c[i].agent>> /\ Plans[e][i].agent = c[i].agent
      /\ Plans[e][i].depends_on =
           {<<j, c[j].agent>> : j \in {k \in 1..i-1 : c[k].agent \in c[i].depends_on}}
  BY <1>1, <1>2 DEF Compile
<1>4. \A j \in DOMAIN Plans[e] : Plans[e][j].task = <<j, c[j].agent>>
  BY <1>1 DEF Compile
<1>5. Plans[e][i].task \in TaskIds
  <2>1. Plans[e][i].task \in PlannedTasks(Plans[e])
    BY DEF PlannedTasks
  <2>2. PlannedTasks(Plans[e]) \in {PlannedTasks(Plans[f]) : f \in SUBSET Evidence}
    OBVIOUS
  <2>3. Plans[e][i].task \in PlanTasks
    BY <2>1, <2>2 DEF PlanTasks
  <2> QED
    BY <2>3 DEF TaskIds
<1> QED
  BY <1>3, <1>4, <1>5

LEMMA OtherTasks == Evaluation \in TaskIds /\ ProbeTasks \subseteq TaskIds
  BY DEF TaskIds

\* What evidence affects are tasks of the plan.
LEMMA AffectedArePlanned ==
  ASSUME NEW e \in SUBSET Evidence, NEW kind, NEW t \in Affected(Plans[e], kind)
  PROVE  t \in TaskIds /\ \E i \in DOMAIN Plans[e] : t = Plans[e][i].task
<1>1. t \in PlannedTasks(Plans[e])
  BY DEF Affected
<1> QED
  BY <1>1, PlanShape DEF PlannedTasks

\* The recommender appends items: a composition is a sequence without gaps, of
\* agents in A.  Nothing precedes the commander, only the curator follows the
\* auditor, and nothing follows the curator.
Agents == DOMAIN Capability

Items ==
  {i \in [agent : Agents, depends_on : SUBSET Agents] :
     /\ i.agent = "incident_commander" => i.depends_on = {}
     /\ "release_auditor" \in i.depends_on => i.agent = "skill_curator"
     /\ "skill_curator" \notin i.depends_on}

Composition(c, A) ==
  c \in Seq(Items) /\ Len(c) > 0 /\ \A k \in 1..Len(c) : c[k].agent \in A

LEMMA PreviousIsAgent ==
  ASSUME NEW c, NEW A \in SUBSET Agents, Composition(c, A)
  PROVE  Previous(c) \in A
<1>1. Len(c) \in 1..Len(c)
  BY DEF Composition
<1> QED
  BY <1>1 DEF Previous, Last, Composition

LEMMA AddShape ==
  ASSUME NEW A \in SUBSET Agents, NEW c, Composition(c, A), NEW needed,
         NEW agent \in Agents \ {"incident_commander"}, NEW upstream \in Agents \ {"skill_curator"},
         upstream = "release_auditor" => agent = "skill_curator"
  PROVE  Composition(Add(c, needed, agent, upstream), A \cup {agent})
<1> DEFINE item == [agent |-> agent, depends_on |-> {upstream}]
<1>1. item \in Items /\ item.agent = agent
  BY DEF Items
<1>2. CASE needed
  <2> HIDE DEF item
  <2>1. c \in Seq(Items) /\ Len(c) \in Nat
    BY DEF Composition
  <2>2. /\ Append(c, item) \in Seq(Items) /\ Len(Append(c, item)) = Len(c) + 1
        /\ \A k \in 1..(Len(c) + 1) :
             Append(c, item)[k] = IF k = Len(c) + 1 THEN item ELSE c[k]
    BY <1>1, <2>1
  <2>3. \A k \in 1..(Len(c) + 1) : Append(c, item)[k].agent \in A \cup {agent}
    BY <1>1, <2>1, <2>2 DEF Composition
  <2>4. Add(c, needed, agent, upstream) = Append(c, item)
    BY <1>2 DEF Add, item
  <2> QED
    BY <2>1, <2>2, <2>3, <2>4 DEF Composition
<1>3. CASE ~needed
  BY <1>3 DEF Add, Composition
<1> QED
  BY <1>2, <1>3

\* The composition up to the auditor: evidence matters to it only in whether
\* anything was observed and whether there is a conflict.
Core(scenario, observed, abstain) ==
  LET repair   == ~abstain /\ scenario.patches
      first    == <<[agent |-> "incident_commander", depends_on |-> {}]>>
      timeline == Add(first, observed, "timeline_analyst", "incident_commander")
      causes   == Add(timeline, scenario.hypotheses, "hypothesis_scientist", "timeline_analyst")
      universe == Add(causes, ~abstain, "universe_builder", Previous(causes))
      patch    == Add(universe, repair, "patch_engineer", "universe_builder")
      verify   == Add(patch, repair, "adversarial_verifier", "patch_engineer")
  IN  Add(verify, repair, "release_auditor", "adversarial_verifier")

Observed(scenario, e) == Signals(scenario, e) # {} \/ scenario.hypotheses

Uncovered(scenario, e) ==
  ~HasEvidenceConflict(scenario, e) /\ ~(Signals(scenario, e) \subseteq CoveredKinds)

CoreOf(e) == Core(Scenario, Observed(Scenario, e), HasEvidenceConflict(Scenario, e))

LEMMA AgentNames ==
  Agents = { "incident_commander", "timeline_analyst", "hypothesis_scientist",
             "universe_builder", "patch_engineer", "adversarial_verifier",
             "release_auditor", "skill_curator" }
  BY DEF Agents, Capability

LEMMA CoreShape ==
  ASSUME NEW scenario, NEW observed, NEW abstain
  PROVE  Composition(Core(scenario, observed, abstain), Agents \ {"skill_curator"})
<1> DEFINE
  repair   == ~abstain /\ scenario.patches
  first    == <<[agent |-> "incident_commander", depends_on |-> {}]>>
  timeline == Add(first, observed, "timeline_analyst", "incident_commander")
  causes   == Add(timeline, scenario.hypotheses, "hypothesis_scientist", "timeline_analyst")
  universe == Add(causes, ~abstain, "universe_builder", Previous(causes))
  patch    == Add(universe, repair, "patch_engineer", "universe_builder")
  verify   == Add(patch, repair, "adversarial_verifier", "patch_engineer")
  audit    == Add(verify, repair, "release_auditor", "adversarial_verifier")
  A3 == {"incident_commander", "timeline_analyst", "hypothesis_scientist"}
  A5 == A3 \cup {"universe_builder"} \cup {"patch_engineer"}
<1>1. Composition(first, {"incident_commander"})
  <2>1. [agent |-> "incident_commander", depends_on |-> {}] \in Items
    BY AgentNames DEF Items
  <2> QED
    BY <2>1 DEF Composition
<1> HIDE DEF first
<1>2. Composition(timeline, {"incident_commander"} \cup {"timeline_analyst"})
  BY <1>1, AgentNames, AddShape
<1> HIDE DEF timeline
<1>3. Composition(causes, A3)
  <2>1. Composition(causes, {"incident_commander"} \cup {"timeline_analyst"} \cup {"hypothesis_scientist"})
    BY <1>2, AgentNames, AddShape
  <2>2. {"incident_commander"} \cup {"timeline_analyst"} \cup {"hypothesis_scientist"} = A3
    OBVIOUS
  <2> QED
    BY <2>1, <2>2
<1> HIDE DEF causes
<1>4. Composition(universe, A3 \cup {"universe_builder"})
  <2>1. Previous(causes) \in A3
    BY <1>3, AgentNames, PreviousIsAgent
  <2> QED
    BY <1>3, <2>1, AgentNames, AddShape
<1> HIDE DEF universe
<1>5. Composition(patch, A5)
  BY <1>4, AgentNames, AddShape
<1> HIDE DEF patch
<1>6. Composition(verify, A5 \cup {"adversarial_verifier"})
  BY <1>5, AgentNames, AddShape
<1> HIDE DEF verify
<1>7. Composition(audit, A5 \cup {"adversarial_verifier"} \cup {"release_auditor"})
  BY <1>6, AgentNames, AddShape
<1>8. A5 \cup {"adversarial_verifier"} \cup {"release_auditor"} = Agents \ {"skill_curator"}
  BY AgentNames
<1>9. Core(scenario, observed, abstain) = audit
  BY DEF Core, audit, verify, patch, universe, causes, timeline, first
<1> QED
  BY <1>7, <1>8, <1>9

LEMMA RecommendShape ==
  ASSUME NEW e
  PROVE  /\ Recommend(Scenario, e) =
              Add(CoreOf(e), Uncovered(Scenario, e), "skill_curator", Previous(CoreOf(e)))
         /\ Composition(Recommend(Scenario, e), Agents)
<1>1. Recommend(Scenario, e) =
        Add(CoreOf(e), Uncovered(Scenario, e), "skill_curator", Previous(CoreOf(e)))
  BY DEF Recommend, CoreOf, Core, Observed, Uncovered
<1>2. Composition(CoreOf(e), Agents \ {"skill_curator"})
  BY CoreShape DEF CoreOf
<1>3. Previous(CoreOf(e)) \in Agents \ {"skill_curator"}
  BY <1>2, PreviousIsAgent
<1>4. Composition(Recommend(Scenario, e), (Agents \ {"skill_curator"}) \cup {"skill_curator"})
  BY <1>1, <1>2, <1>3, AgentNames, AddShape
<1>5. (Agents \ {"skill_curator"}) \cup {"skill_curator"} = Agents
  BY AgentNames
<1> QED
  BY <1>1, <1>4, <1>5

\* A plan is a sequence without gaps.
LEMMA PlanPlaces ==
  ASSUME NEW e \in SUBSET Evidence, NEW i \in DOMAIN Plans[e]
  PROVE  /\ i \in Nat \ {0} /\ 1..i \subseteq DOMAIN Plans[e]
         /\ Plans[e][i].agent \in Agents
<1> DEFINE c == Recommend(Scenario, e)
<1>1. Plans[e] = Compile(c)
  BY DEF Plans, Plan
<1>2. DOMAIN Plans[e] = DOMAIN c /\ Plans[e][i].agent = c[i].agent
  BY <1>1 DEF Compile
<1>3. c \in Seq(Items)
  BY RecommendShape DEF Composition
<1> HIDE DEF c
<1>4. DOMAIN c = 1..Len(c) /\ Len(c) \in Nat /\ c[i] \in Items
  BY <1>2, <1>3
<1> QED
  BY <1>2, <1>4 DEF Items

\* What a task depends on is the task of an earlier place of the same DAG.
LEMMA DependsOnEarlier ==
  ASSUME NEW e \in SUBSET Evidence, NEW i \in DOMAIN Plans[e], NEW d \in Plans[e][i].depends_on
  PROVE  \E j \in 1..i-1 : j \in DOMAIN Plans[e] /\ d = Plans[e][j].task
<1>1. PICK j \in 1..i-1 : j \in DOMAIN Plans[e] => d = Plans[e][j].task
  BY PlanShape
<1>2. i \in Nat \ {0} /\ 1..i \subseteq DOMAIN Plans[e]
  BY PlanPlaces
<1> QED
  BY <1>1, <1>2

-----------------------------------------------------------------------------
(***************************************************************************)
(* Types, as function sets.                                                *)
(***************************************************************************)
Rows == [status : {"ABSENT", "PENDING", "COMPLETED", "FAILED", "INVALIDATED"}, result : Nat]

ResultMaps == UNION {[S -> Nat] : S \in SUBSET TaskIds}

Modes == {"normal", "timeout", "crash"}

WorkerRows ==
  [ task : TaskIds, state : {"running", "answered", "crashed", "killed"},
    expired : BOOLEAN, mode : Modes, upstream : ResultMaps ]

CapabilityNames ==
  {Capability[a] : a \in Agents} \cup {"none", "timeline", "hypothesis", "patch-tournament"}

AttemptRows ==
  [ pid : Nat, status : {"RUNNING", "COMPLETED", "FAILED"},
    instance : {Pools[c][i] : c \in CapabilityNames, i \in 1..2} ]

Requests ==
  [ step : Steps, request : {"none", "create", "evidence", "recommend", "probe"},
    seen : SUBSET Evidence, kind : {ChangedKind(e) : e \in Evidence} \cup {Absent},
    todo : SUBSET TaskIds, done : SUBSET TaskIds, results : ResultMaps,
    cursor : Nat \ {0}, task : TaskIds \cup {NoTask}, capability : CapabilityNames,
    modes : [1..2 -> Modes], base : Nat \ {0}, offset : 0..1, pid : Nat ]

Runs ==
  [ status : { "ABSENT", "RUNNING", "ABSTAINED", "BLOCKED_INSUFFICIENT_EVIDENCE",
               "PAUSED_AWAITING_HUMAN", "BLOCKED_RETRY_EXHAUSTED" },
    gate : {"pending", "not-run", "passed", "failed"} ]

TasksTyped == tasks \in [TaskIds -> Rows]
AttemptsTyped == attempts \in [TaskIds -> Seq(AttemptRows)]
WorkersTyped == workers \in Seq(WorkerRows)
RequestsTyped == req \in [Handlers -> Requests]
CountersTyped ==
  /\ evidence \subseteq Evidence /\ run \in Runs
  /\ accepted \in 0..MaxRequests /\ returned \in BOOLEAN /\ faults \in 0..MaxFaults

-----------------------------------------------------------------------------
(***************************************************************************)
(* The invariant of any number of handlers.                                *)
(***************************************************************************)
\* A row has a result exactly when it is COMPLETED, and that result counts.
RowsOK ==
  \A t \in TaskIds :
    /\ (tasks[t].result # 0) = (tasks[t].status = "COMPLETED")
    /\ tasks[t].status = "COMPLETED" => Answered(tasks[t].result, t)

AttemptsOK ==
  \A t \in TaskIds : \A n \in DOMAIN attempts[t] : attempts[t][n].pid \in DOMAIN workers

\* Within execute_task, and there with a worker of its own.
Executing(r) ==
  r.step \in { "register", "number", "spawn", "dispatch", "wait", "terminate",
               "complete", "failed", "block" }

Holding(r) == r.step \in {"dispatch", "wait", "terminate", "complete"}

\* Within execute_task for a task of the plan.
DagTask(r) == Executing(r) /\ r.request # "probe" /\ r.task # Evaluation

\* The results of a request are accepted answers; the worker it waits for runs its task
\* and has its lease until the handler says otherwise; an accepted answer counts.
WorkersOK(r) ==
  /\ r.pid \in 0..Len(workers)
  /\ \A t \in DOMAIN r.results : Answered(r.results[t], t)
  /\ Holding(r) => r.pid \in DOMAIN workers /\ workers[r.pid].task = r.task
  /\ r.step \in {"dispatch", "wait"} => ~workers[r.pid].expired
  /\ r.step = "complete" => Answered(r.pid, r.task)

\* The loop has a result for every row it reuses and every place it passed, and
\* runs a task only with the results of all its dependencies.
LoopOK(r) ==
  /\ Executing(r) => r.task \in TaskIds
  /\ r.step = "next" \/ DagTask(r) =>
       /\ r.done \subseteq DOMAIN r.results
       /\ \A j \in DOMAIN Plans[r.seen] :
            j < r.cursor => Plans[r.seen][j].task \in DOMAIN r.results
  /\ DagTask(r) =>
       /\ r.cursor \in DOMAIN Plans[r.seen]
       /\ r.task = Plans[r.seen][r.cursor].task
       /\ Plans[r.seen][r.cursor].depends_on \subseteq DOMAIN r.results

RequestsOK == \A h \in Handlers : WorkersOK(req[h]) /\ LoopOK(req[h])

\* What a worker was given as a dependency's result is the accepted answer of an
\* earlier worker.
GivenOK ==
  \A p \in DOMAIN workers : \A d \in DOMAIN workers[p].upstream :
    workers[p].upstream[d] < p /\ Answered(workers[p].upstream[d], d)

\* No two handlers wait for the same worker.
OwnWorkers ==
  \A g, h \in Handlers : g # h /\ Holding(req[g]) /\ Holding(req[h]) => req[g].pid # req[h].pid

Typed == TasksTyped /\ AttemptsTyped /\ WorkersTyped /\ RequestsTyped /\ CountersTyped

\* The inductive invariant.
IInv == Typed /\ RowsOK /\ AttemptsOK /\ GivenOK /\ RequestsOK /\ OwnWorkers

LEMMA IdleTyped ==
  /\ IdleRequest \in Requests
  /\ << >> \in ResultMaps
<1>1. << >> \in [{} -> Nat]
  OBVIOUS
<1>2. << >> \in ResultMaps
  BY <1>1 DEF ResultMaps
<1>3. <<"normal", "normal">> \in [1..2 -> Modes]
  BY DEF Modes
<1> QED
  BY <1>2, <1>3 DEF IdleRequest, Requests, Steps, CapabilityNames, NoTask

LEMMA IInvInit == Init => IInv
<1> SUFFICES ASSUME Init
             PROVE  IInv
  OBVIOUS
<1>1. TasksTyped /\ AttemptsTyped /\ WorkersTyped
  BY DEF Init, TasksTyped, AttemptsTyped, WorkersTyped, NoRow, Rows
<1>2. RequestsTyped
  BY IdleTyped DEF Init, RequestsTyped
<1>3. CountersTyped
  <2>1. 0 \in 0..MaxRequests /\ 0 \in 0..MaxFaults
    BY TaskExecutionAssumption
  <2>2. [status |-> "ABSENT", gate |-> "pending"] \in Runs
    BY DEF Runs
  <2> QED
    BY <2>1, <2>2 DEF Init, CountersTyped
<1>4. RowsOK /\ AttemptsOK /\ GivenOK
  BY DEF Init, RowsOK, AttemptsOK, GivenOK, NoRow
<1>5. RequestsOK /\ OwnWorkers
  <2>1. DOMAIN IdleRequest.results = {}
    BY DEF IdleRequest
  <2>2. IdleRequest.step = "idle" /\ IdleRequest.pid = 0
    BY DEF IdleRequest
  <2>3. WorkersOK(IdleRequest) /\ LoopOK(IdleRequest)
    BY <2>1, <2>2 DEF Init, WorkersOK, LoopOK, Executing, DagTask, Holding
  <2> QED
    BY <2>2, <2>3 DEF Init, RequestsOK, OwnWorkers, Holding
<1> QED
  BY <1>1, <1>2, <1>3, <1>4, <1>5 DEF IInv, Typed

-----------------------------------------------------------------------------
(***************************************************************************)
(* What a step of a handler has to show.                                   *)
(***************************************************************************)
LEMMA HandlerStep ==
  ASSUME IInv, NEW h \in Handlers, NEW r \in Requests,
         req' = [req EXCEPT ![h] = r], workers' = workers,
         WorkersOK(r), LoopOK(r),
         Holding(r) => Holding(req[h]) /\ r.pid = req[h].pid
  PROVE  RequestsTyped' /\ WorkersTyped' /\ GivenOK' /\ RequestsOK' /\ OwnWorkers'
<1>1. RequestsTyped' /\ WorkersTyped' /\ GivenOK'
  BY DEF IInv, Typed, RequestsTyped, WorkersTyped, GivenOK, Answered
<1>2. \A g \in Handlers : req'[g] = IF g = h THEN r ELSE req[g]
  BY DEF IInv, Typed, RequestsTyped
<1>3. RequestsOK'
  <2>1. ASSUME NEW q
        PROVE  /\ WorkersOK(q) => WorkersOK(q)'
               /\ LoopOK(q) => LoopOK(q)'
    BY DEF WorkersOK, LoopOK, Answered
  <2>2. \A g \in Handlers : WorkersOK(req'[g]) /\ LoopOK(req'[g])
    BY <1>2 DEF IInv, RequestsOK
  <2>3. ASSUME NEW g \in Handlers
        PROVE  WorkersOK(req[g])' /\ LoopOK(req[g])'
    BY <2>2 DEF WorkersOK, LoopOK, Answered
  <2> QED
    BY <2>3 DEF RequestsOK
<1>4. OwnWorkers'
  BY <1>2 DEF IInv, OwnWorkers
<1> QED
  BY <1>1, <1>3, <1>4

LEMMA LocalStep ==
  ASSUME IInv, NEW h \in Handlers, NEW r \in Requests,
         req' = [req EXCEPT ![h] = r], UNCHANGED <<tasks, attempts, workers>>,
         CountersTyped', WorkersOK(r), LoopOK(r), ~Holding(r)
  PROVE  IInv'
<1>1. RequestsTyped' /\ WorkersTyped' /\ GivenOK' /\ RequestsOK' /\ OwnWorkers'
  BY HandlerStep
<1>2. TasksTyped' /\ AttemptsTyped' /\ RowsOK' /\ AttemptsOK'
  BY DEF IInv, Typed, TasksTyped, AttemptsTyped, RowsOK, AttemptsOK, Answered
<1> QED
  BY <1>1, <1>2 DEF IInv, Typed

LEMMA EndStep ==
  ASSUME IInv, NEW h \in Handlers, req' = Ended(h), UNCHANGED <<tasks, attempts, workers>>,
         CountersTyped'
  PROVE  IInv'
<1>1. WorkersOK(IdleRequest) /\ LoopOK(IdleRequest) /\ ~Holding(IdleRequest)
  <2>1. Len(workers) \in Nat
    BY DEF IInv, Typed, WorkersTyped
  <2> QED
    BY <2>1 DEF IdleRequest, WorkersOK, LoopOK, Executing, DagTask, Holding
<1> QED
  BY <1>1, IdleTyped, LocalStep DEF Ended

\* A request accepted by an idle handler.
LEMMA AcceptStep ==
  ASSUME IInv, NEW h \in Handlers, NEW r \in Requests, Accept(h, r),
         r.results = << >>, r.pid = 0,
         r.step \in {"start", "store_evidence", "plan", "register"},
         r.step = "register" => r.request = "probe" /\ r.task \in TaskIds
  PROVE  IInv'
<1>1. CountersTyped'
  BY TaskExecutionAssumption DEF Accept, IInv, Typed, CountersTyped, rows
<1>2. WorkersOK(r)
  <2>1. Len(workers) \in Nat
    BY DEF IInv, Typed, WorkersTyped
  <2>2. DOMAIN r.results = {}
    OBVIOUS
  <2> QED
    BY <2>1, <2>2 DEF WorkersOK, Holding
<1>3. LoopOK(r) /\ ~Holding(r)
  BY DEF LoopOK, Executing, DagTask, Holding
<1>4. UNCHANGED <<tasks, attempts, workers>> /\ req' = [req EXCEPT ![h] = r]
  BY DEF Accept, rows
<1> QED
  BY <1>1, <1>2, <1>3, <1>4, LocalStep

LEMMA ReceiveStep ==
  ASSUME IInv, NEW h \in Handlers, Receive(h)
  PROVE  IInv'
<1>1. CASE ReceiveCreate(h)
  <2> DEFINE r == Request("create", "start")
  <2>1. r \in Requests /\ r.results = << >> /\ r.pid = 0 /\ r.step = "start"
    BY IdleTyped DEF Request, IdleRequest, Requests, Steps
  <2>2. Accept(h, r)
    BY <1>1 DEF ReceiveCreate
  <2> HIDE DEF r
  <2> QED
    BY <2>1, <2>2, AcceptStep
<1>2. CASE ReceiveEvidence(h)
  <2>1. PICK e \in Evidence :
          Accept(h, [Request("evidence", "store_evidence") EXCEPT !.seen = {e}, !.kind = ChangedKind(e)])
    BY <1>2 DEF ReceiveEvidence
  <2> DEFINE r == [Request("evidence", "store_evidence") EXCEPT !.seen = {e}, !.kind = ChangedKind(e)]
  <2>2. r \in Requests /\ r.results = << >> /\ r.pid = 0 /\ r.step = "store_evidence"
    BY IdleTyped DEF Request, IdleRequest, Requests, Steps
  <2>3. Accept(h, r)
    BY <2>1
  <2> HIDE DEF r
  <2> QED
    BY <2>2, <2>3, AcceptStep
<1>3. CASE ReceiveRecommendation(h)
  <2> DEFINE r == Request("recommend", "plan")
  <2>1. r \in Requests /\ r.results = << >> /\ r.pid = 0 /\ r.step = "plan"
    BY IdleTyped DEF Request, IdleRequest, Requests, Steps
  <2>2. Accept(h, r)
    BY <1>3 DEF ReceiveRecommendation
  <2> HIDE DEF r
  <2> QED
    BY <2>1, <2>2, AcceptStep
<1>4. CASE ReceiveProbe(h)
  <2>1. PICK t \in ProbeTasks,
             p \in { <<"timeline", <<"timeout", "normal">>>>,
                     <<"hypothesis", <<"crash", "normal">>>>,
                     <<"patch-tournament", <<"crash", "crash">>>> } :
          Accept(h, [Request("probe", "register") EXCEPT
                       !.task = t, !.capability = p[1], !.modes = p[2]])
    BY <1>4 DEF ReceiveProbe
  <2> DEFINE r == [Request("probe", "register") EXCEPT
                     !.task = t, !.capability = p[1], !.modes = p[2]]
  <2>2. t \in TaskIds
    BY OtherTasks
  <2>3. p[1] \in CapabilityNames /\ p[2] \in [1..2 -> Modes]
    BY DEF CapabilityNames, Modes
  <2>4. /\ r \in Requests /\ r.results = << >> /\ r.pid = 0 /\ r.step = "register"
        /\ r.request = "probe" /\ r.task = t
    BY <2>2, <2>3, IdleTyped DEF Request, IdleRequest, Requests, Steps
  <2>5. Accept(h, r)
    BY <2>1
  <2> HIDE DEF r
  <2> QED
    BY <2>2, <2>4, <2>5, AcceptStep
<1> QED
  BY <1>1, <1>2, <1>3, <1>4 DEF Receive

LEMMA RequestOK ==
  ASSUME IInv, NEW h \in Handlers
  PROVE  /\ req[h] \in Requests /\ WorkersOK(req[h]) /\ LoopOK(req[h])
         /\ Plans[req[h].seen] = Dag(h)
  BY DEF IInv, Typed, RequestsTyped, RequestsOK, Dag

\* A step between the phases of a request.
LEMMA QuietStep ==
  ASSUME IInv, NEW h \in Handlers, NEW r \in Requests, req' = [req EXCEPT ![h] = r],
         UNCHANGED <<tasks, attempts, workers>>, CountersTyped',
         r.pid = req[h].pid, r.results = req[h].results,
         r.step \in {"plan", "recompute", "invalidate", "load", "verdict"}
  PROVE  IInv'
<1>1. WorkersOK(r)
  BY RequestOK DEF WorkersOK, Holding
<1>2. LoopOK(r) /\ ~Holding(r)
  BY DEF LoopOK, Executing, DagTask, Holding
<1> QED
  BY <1>1, <1>2, LocalStep

LEMMA PlanningStep ==
  ASSUME IInv, NEW h \in Handlers,
         StartRun(h) \/ StoreEvidence(h) \/ PlanAgents(h) \/ Recompute(h) \/ Invalidated(h)
  PROVE  IInv'
<1>0. req[h] \in Requests /\ Plans[req[h].seen] = Dag(h)
  BY RequestOK
<1>1. UNCHANGED <<tasks, attempts, workers>> /\ CountersTyped'
  <2>1. UNCHANGED <<tasks, attempts, workers, bounds>>
    BY DEF StartRun, StoreEvidence, PlanAgents, Recompute, Invalidated, rows
  <2>2. run' \in Runs
    BY DEF StartRun, StoreEvidence, PlanAgents, Recompute, Invalidated, rows, IInv, Typed,
           CountersTyped, Runs
  <2>3. evidence' \subseteq Evidence
    BY DEF StartRun, StoreEvidence, PlanAgents, Recompute, Invalidated, rows, IInv, Typed,
           CountersTyped, Requests, RequestsTyped
  <2> QED
    BY <2>1, <2>2, <2>3 DEF bounds, IInv, Typed, CountersTyped
<1>2. CASE req' = Ended(h)
  BY <1>1, <1>2, EndStep
<1>3. CASE \E s \in {"load", "plan", "recompute"} : \E e \in SUBSET Evidence :
             req' = [req EXCEPT ![h].seen = e, ![h].step = s]
  <2>1. PICK s \in {"load", "plan", "recompute"}, e \in SUBSET Evidence :
          req' = [req EXCEPT ![h].seen = e, ![h].step = s]
    BY <1>3
  <2> DEFINE r == [req[h] EXCEPT !.seen = e, !.step = s]
  <2>2. r \in Requests /\ r.pid = req[h].pid /\ r.results = req[h].results /\ r.step = s
    BY <1>0 DEF Requests, Steps
  <2>3. req' = [req EXCEPT ![h] = r]
    BY <2>1 DEF IInv, Typed, RequestsTyped
  <2> HIDE DEF r
  <2> QED
    BY <1>1, <2>2, <2>3, QuietStep
<1>4. CASE \E s \in {"invalidate", "load"} : \E todo \in SUBSET TaskIds :
             req' = [req EXCEPT ![h].todo = todo, ![h].step = s]
  <2>1. PICK s \in {"invalidate", "load"}, todo \in SUBSET TaskIds :
          req' = [req EXCEPT ![h].todo = todo, ![h].step = s]
    BY <1>4
  <2> DEFINE r == [req[h] EXCEPT !.todo = todo, !.step = s]
  <2>2. r \in Requests /\ r.pid = req[h].pid /\ r.results = req[h].results /\ r.step = s
    BY <1>0 DEF Requests, Steps
  <2>3. req' = [req EXCEPT ![h] = r]
    BY <2>1 DEF IInv, Typed, RequestsTyped
  <2> HIDE DEF r
  <2> QED
    BY <1>1, <2>2, <2>3, QuietStep
<1>5. CASE StartRun(h) \/ StoreEvidence(h) \/ PlanAgents(h)
  <2>1. \A s : [req EXCEPT ![h].step = s] = [req EXCEPT ![h].seen = req[h].seen, ![h].step = s]
    BY <1>0 DEF IInv, Typed, RequestsTyped, Requests
  <2>2. evidence \in SUBSET Evidence /\ req[h].seen \in SUBSET Evidence
    BY <1>0 DEF IInv, Typed, CountersTyped, Requests
  <2> QED
    BY <1>2, <1>3, <1>5, <2>1, <2>2 DEF StartRun, StoreEvidence, PlanAgents
<1>6. CASE Recompute(h)
  <2> DEFINE todo(dag) == {t \in Affected(dag, req[h].kind) : tasks[t].status = "COMPLETED"}
  <2>1. req' = [req EXCEPT ![h].todo = todo(Dag(h)), ![h].step = "invalidate"]
    BY <1>6 DEF Recompute
  <2>2. Affected(Dag(h), req[h].kind) \subseteq TaskIds
    BY <1>0, AffectedArePlanned DEF Requests
  <2>3. todo(Dag(h)) \in SUBSET TaskIds
    BY <2>2
  <2> QED
    BY <1>4, <2>1, <2>3
<1>7. CASE Invalidated(h)
  <2>1. \A s : [req EXCEPT ![h].step = s] = [req EXCEPT ![h].todo = req[h].todo, ![h].step = s]
    BY <1>0 DEF IInv, Typed, RequestsTyped, Requests
  <2>2. req[h].todo \in SUBSET TaskIds
    BY <1>0 DEF Requests
  <2> QED
    BY <1>4, <1>7, <2>1, <2>2 DEF Invalidated, Goto
<1> QED
  BY <1>5, <1>6, <1>7

LEMMA LoadStep ==
  ASSUME IInv, NEW h \in Handlers, Load(h)
  PROVE  IInv'
<1> DEFINE loaded == [t \in {u \in Reusable : tasks[u].result # 0} |-> tasks[t].result]
           r == [req[h] EXCEPT !.done = Reusable, !.results = loaded, !.cursor = 1, !.step = "next"]
<1>1. Reusable \subseteq TaskIds /\ \A t \in Reusable : tasks[t].result \in Nat \ {0}
  BY DEF Reusable, IInv, RowsOK, Typed, TasksTyped, Rows
<1>2. {u \in Reusable : tasks[u].result # 0} = Reusable
  BY <1>1
<1>3. loaded \in [Reusable -> Nat]
  BY <1>1, <1>2
<1>4. loaded \in ResultMaps
  BY <1>1, <1>3 DEF ResultMaps
<1>5. \A t \in DOMAIN loaded : Answered(loaded[t], t)
  BY <1>1 DEF Reusable, IInv, RowsOK
<1>6. DOMAIN loaded = Reusable
  BY <1>2
<1> HIDE DEF loaded
<1>7. /\ r \in Requests /\ r.step = "next" /\ r.pid = req[h].pid /\ r.results = loaded
      /\ r.done = Reusable /\ r.cursor = 1 /\ r.seen = req[h].seen
  <2>1. req[h] \in Requests
    BY RequestOK
  <2>2. "next" \in Steps /\ 1 \in Nat \ {0}
    BY DEF Steps
  <2>3. Reusable \in SUBSET TaskIds
    BY <1>1
  <2>4. [req[h] EXCEPT !.done = Reusable, !.results = loaded] \in Requests
    BY <1>4, <2>1, <2>3 DEF Requests
  <2>5. r \in Requests
    BY <2>2, <2>4 DEF Requests
  <2> QED
    BY <2>1, <2>5 DEF Requests
<1>8. req' = [req EXCEPT ![h] = r] /\ UNCHANGED <<tasks, attempts, workers>>
  BY DEF Load, loaded, IInv, Typed, RequestsTyped, rows
<1> HIDE DEF r
<1>9. WorkersOK(r)
  BY <1>5, <1>7, RequestOK DEF WorkersOK, Holding
<1>10. LoopOK(r) /\ ~Holding(r)
  <2>1. \A j \in DOMAIN Plans[r.seen] : ~(j < 1)
    BY <1>7, PlanPlaces DEF Requests
  <2> QED
    BY <1>6, <1>7, <2>1 DEF LoopOK, Executing, DagTask, Holding
<1>11. CountersTyped'
  BY DEF Load, rows, bounds, IInv, Typed, CountersTyped
<1> QED
  BY <1>7, <1>8, <1>9, <1>10, <1>11, LocalStep

LEMMA ReuseStep ==
  ASSUME IInv, NEW h \in Handlers, Reuse(h)
  PROVE  IInv'
<1> DEFINE r == [req[h] EXCEPT !.cursor = @ + 1]
<1>1. /\ r \in Requests /\ r.step = "next" /\ r.pid = req[h].pid /\ r.results = req[h].results
      /\ r.done = req[h].done /\ r.cursor = req[h].cursor + 1 /\ r.seen = req[h].seen
  BY RequestOK DEF Requests, Reuse, InDag, At
<1>2. req' = [req EXCEPT ![h] = r] /\ UNCHANGED <<tasks, attempts, workers>>
  BY DEF Reuse, IInv, Typed, RequestsTyped, rows
<1> HIDE DEF r
<1>3. WorkersOK(r)
  BY <1>1, RequestOK DEF WorkersOK, Holding
<1>4. LoopOK(r) /\ ~Holding(r)
  <2>1. req[h].step = "next" /\ req[h].cursor \in Nat /\ r.seen \in SUBSET Evidence
    BY <1>1, RequestOK DEF Reuse, InDag, At, Requests
  <2>2. /\ r.done \subseteq DOMAIN r.results
        /\ \A j \in DOMAIN Plans[r.seen] :
             j < req[h].cursor => Plans[r.seen][j].task \in DOMAIN r.results
    BY <1>1, <2>1, RequestOK DEF LoopOK
  <2>3. Plans[r.seen][req[h].cursor].task \in DOMAIN r.results
    BY <1>1, <2>2, RequestOK DEF Reuse, Current, Dag
  <2>4. \A j \in DOMAIN Plans[r.seen] : Plans[r.seen][j].task \in DOMAIN r.results
          \/ ~(j < r.cursor)
    BY <1>1, <2>1, <2>2, <2>3, PlanPlaces
  <2> QED
    BY <1>1, <2>2, <2>4 DEF LoopOK, Executing, DagTask, Holding
<1>5. CountersTyped'
  BY DEF Reuse, rows, bounds, IInv, Typed, CountersTyped
<1> QED
  BY <1>1, <1>2, <1>3, <1>4, <1>5, LocalStep

LEMMA NextTaskStep ==
  ASSUME IInv, NEW h \in Handlers, NextTask(h)
  PROVE  IInv'
<1>1. CountersTyped' /\ UNCHANGED <<tasks, attempts, workers>>
  BY DEF NextTask, rows, bounds, IInv, Typed, CountersTyped
<1>2. CASE Unmet(h) # {}
  BY <1>1, <1>2, EndStep DEF NextTask
<1>3. CASE Unmet(h) = {}
  <2> DEFINE r == [req[h] EXCEPT !.task = Current(h).task,
                                 !.capability = Capability[Current(h).agent],
                                 !.step = "register"]
  <2>1. /\ req[h].seen \in SUBSET Evidence /\ Dag(h) = Plans[req[h].seen]
        /\ req[h].cursor \in DOMAIN Plans[req[h].seen] /\ req[h].step = "next"
        /\ Current(h) = Plans[req[h].seen][req[h].cursor]
    BY RequestOK DEF NextTask, InDag, Requests, At, Current
  <2>2. Current(h).task \in TaskIds
    BY <2>1, PlanShape
  <2>3. Capability[Current(h).agent] \in CapabilityNames
    BY <2>1, PlanPlaces DEF CapabilityNames
  <2>4. /\ r \in Requests /\ r.step = "register" /\ r.pid = req[h].pid
        /\ r.results = req[h].results /\ r.done = req[h].done /\ r.cursor = req[h].cursor
        /\ r.seen = req[h].seen /\ r.task = Current(h).task
    <3>1. req[h] \in Requests
      BY RequestOK
    <3>2. "register" \in Steps
      BY DEF Steps
    <3> HIDE DEF Current
    <3> QED
      BY <2>2, <2>3, <3>1, <3>2 DEF Requests
  <2>5. req' = [req EXCEPT ![h] = r]
    BY <1>3 DEF NextTask, IInv, Typed, RequestsTyped
  <2> HIDE DEF r
  <2>6. WorkersOK(r)
    BY <2>4, RequestOK DEF WorkersOK, Holding
  <2>7. LoopOK(r) /\ ~Holding(r)
    <3>1. Plans[r.seen][r.cursor].depends_on \subseteq DOMAIN r.results
      BY <1>3, <2>1, <2>4 DEF Unmet
    <3>2. /\ r.done \subseteq DOMAIN r.results
          /\ \A j \in DOMAIN Plans[r.seen] :
               j < r.cursor => Plans[r.seen][j].task \in DOMAIN r.results
      BY <2>1, <2>4, RequestOK DEF LoopOK
    <3> QED
      BY <2>1, <2>2, <2>4, <3>1, <3>2 DEF LoopOK, Holding
  <2> QED
    BY <1>1, <2>4, <2>5, <2>6, <2>7, LocalStep
<1> QED
  BY <1>2, <1>3

LEMMA FinishDagStep ==
  ASSUME IInv, NEW h \in Handlers, FinishDag(h)
  PROVE  IInv'
<1>1. CountersTyped' /\ UNCHANGED <<tasks, attempts, workers>>
  BY DEF FinishDag, rows, bounds, IInv, Typed, CountersTyped
<1>2. CASE req[h].request # "create"
  BY <1>1, <1>2, EndStep DEF FinishDag
<1>3. CASE req[h].request = "create" /\ Evaluated
  <2> DEFINE r == [req[h] EXCEPT !.step = "register", !.task = Evaluation, !.capability = "hypothesis"]
  <2>1. /\ r \in Requests /\ r.step = "register" /\ r.pid = req[h].pid
        /\ r.results = req[h].results /\ r.task = Evaluation
    <3>1. req[h] \in Requests
      BY RequestOK
    <3>2. "register" \in Steps /\ "hypothesis" \in CapabilityNames
      BY DEF Steps, CapabilityNames
    <3> QED
      BY <3>1, <3>2, OtherTasks DEF Requests
  <2>2. req' = [req EXCEPT ![h] = r]
    BY <1>3 DEF FinishDag, IInv, Typed, RequestsTyped
  <2> HIDE DEF r
  <2>3. WorkersOK(r)
    BY <2>1, RequestOK DEF WorkersOK, Holding
  <2>4. LoopOK(r) /\ ~Holding(r)
    BY <2>1, OtherTasks DEF LoopOK, DagTask, Executing, Holding
  <2> QED
    BY <1>1, <2>1, <2>2, <2>3, <2>4, LocalStep
<1>4. CASE req[h].request = "create" /\ ~Evaluated
  <2> DEFINE r == [req[h] EXCEPT !.step = "verdict"]
  <2>1. r \in Requests /\ r.step = "verdict" /\ r.pid = req[h].pid /\ r.results = req[h].results
    BY RequestOK DEF Requests, Steps
  <2>2. req' = [req EXCEPT ![h] = r]
    BY <1>4 DEF FinishDag, IInv, Typed, RequestsTyped, Requests
  <2> HIDE DEF r
  <2> QED
    BY <1>1, <2>1, <2>2, QuietStep
<1> QED
  BY <1>2, <1>3, <1>4

LEMMA RowUpdate ==
  ASSUME IInv, NEW t \in TaskIds, NEW status, NEW result, workers' = workers,
         UpdateTask(t, status, result), [status |-> status, result |-> result] \in Rows,
         (result # 0) = (status = "COMPLETED"),
         status = "COMPLETED" => Answered(result, t)
  PROVE  TasksTyped' /\ RowsOK'
<1>1. tasks' = [tasks EXCEPT ![t] = [status |-> status, result |-> result]]
  BY DEF UpdateTask
<1>2. TasksTyped'
  BY <1>1 DEF IInv, Typed, TasksTyped
<1>3. \A u \in TaskIds :
        tasks'[u] = IF u = t THEN [status |-> status, result |-> result] ELSE tasks[u]
  BY <1>1 DEF IInv, Typed, TasksTyped
<1>4. \A u \in TaskIds :
        /\ (tasks'[u].result # 0) = (tasks'[u].status = "COMPLETED")
        /\ tasks'[u].status = "COMPLETED" => Answered(tasks'[u].result, u)
  BY <1>3 DEF IInv, RowsOK
<1>5. RowsOK'
  BY <1>4 DEF RowsOK, Answered
<1> QED
  BY <1>2, <1>5

LEMMA AttemptUpsert ==
  ASSUME IInv, NEW h \in Handlers, NEW status \in {"RUNNING", "COMPLETED", "FAILED"},
         Holding(req[h]), UpsertAttempt(h, status), workers' = workers
  PROVE  AttemptsTyped' /\ AttemptsOK'
<1> DEFINE t == req[h].task
           n == req[h].base + req[h].offset
           row == [pid |-> req[h].pid, status |-> status, instance |-> Pool(h)[req[h].offset + 1]]
           new == IF n \in DOMAIN attempts[t]
                  THEN [attempts[t] EXCEPT ![n] = [row EXCEPT !.instance = attempts[t][n].instance]]
                  ELSE Append(attempts[t], row)
<1>1. req[h] \in Requests
  BY RequestOK
<1>2. t \in TaskIds /\ req[h].pid \in DOMAIN workers /\ req[h].pid \in Nat
  BY <1>1, RequestOK DEF Holding, WorkersOK, LoopOK, Executing, Requests
<1>3. row \in AttemptRows
  <2>1. req[h].offset + 1 \in 1..2 /\ req[h].capability \in CapabilityNames
    BY <1>1 DEF Requests
  <2>2. Pool(h)[req[h].offset + 1] \in {Pools[c][i] : c \in CapabilityNames, i \in 1..2}
    BY <2>1 DEF Pool
  <2> QED
    BY <1>2, <2>2 DEF AttemptRows
<1>4. attempts[t] \in Seq(AttemptRows)
  BY <1>2 DEF IInv, Typed, AttemptsTyped
<1>5. attempts' = [attempts EXCEPT ![t] = new]
  BY DEF UpsertAttempt
<1>6. row.pid = req[h].pid
  OBVIOUS
<1> HIDE DEF t, n
<1>7. CASE n \in DOMAIN attempts[t]
  <2> DEFINE changed == [row EXCEPT !.instance = attempts[t][n].instance]
  <2>1. attempts[t][n] \in AttemptRows
    BY <1>4, <1>7
  <2>2. changed \in AttemptRows /\ changed.pid = req[h].pid
    BY <1>3, <1>6, <2>1 DEF AttemptRows
  <2>3. new = [attempts[t] EXCEPT ![n] = changed]
    BY <1>7
  <2> HIDE DEF changed, new, row
  <2>4. new \in Seq(AttemptRows)
    BY <1>4, <1>7, <2>2, <2>3
  <2>5. AttemptsTyped'
    BY <1>2, <1>5, <2>4 DEF IInv, Typed, AttemptsTyped
  <2>6. \A m \in DOMAIN new : new[m].pid \in DOMAIN workers
    BY <1>2, <1>4, <1>7, <2>2, <2>3 DEF IInv, AttemptsOK
  <2> QED
    BY <1>2, <1>5, <2>5, <2>6 DEF IInv, Typed, AttemptsTyped, AttemptsOK
<1>8. CASE n \notin DOMAIN attempts[t]
  <2>1. new = Append(attempts[t], row)
    BY <1>8
  <2> HIDE DEF new, row
  <2>2. new \in Seq(AttemptRows)
    BY <1>3, <1>4, <2>1
  <2>3. AttemptsTyped'
    BY <1>2, <1>5, <2>2 DEF IInv, Typed, AttemptsTyped
  <2>4. \A m \in DOMAIN new : new[m].pid \in DOMAIN workers
    <3>1. \A m \in DOMAIN new : new[m] = row \/ (m \in DOMAIN attempts[t] /\ new[m] = attempts[t][m])
      <4> DEFINE s == attempts[t]
      <4>1. s \in Seq(AttemptRows) /\ new = Append(s, row)
        BY <1>4, <2>1
      <4> HIDE DEF s
      <4>2. /\ Len(s) \in Nat /\ DOMAIN s = 1..Len(s) /\ DOMAIN new = 1..(Len(s) + 1)
            /\ new[Len(s) + 1] = row /\ \A m \in 1..Len(s) : new[m] = s[m]
        BY <1>3, <4>1
      <4>3. \A m \in 1..(Len(s) + 1) : m = Len(s) + 1 \/ m \in 1..Len(s)
        BY <4>2
      <4> QED
        <5>1. \A m \in DOMAIN new : new[m] = row \/ (m \in DOMAIN s /\ new[m] = s[m])
          BY <4>2, <4>3
        <5> QED
          BY <5>1 DEF s
    <3> QED
      BY <1>2, <1>6, <3>1 DEF IInv, AttemptsOK
  <2> QED
    BY <1>2, <1>5, <2>3, <2>4 DEF IInv, Typed, AttemptsTyped, AttemptsOK
<1> QED
  BY <1>7, <1>8

\* A step within execute_task.
LEMMA ExecutionStep ==
  ASSUME IInv, NEW h \in Handlers, NEW r \in Requests, req' = [req EXCEPT ![h] = r],
         workers' = workers, CountersTyped', TasksTyped', RowsOK', AttemptsTyped', AttemptsOK',
         Executing(req[h]), Executing(r),
         r.request = req[h].request, r.seen = req[h].seen, r.done = req[h].done,
         r.results = req[h].results, r.cursor = req[h].cursor, r.task = req[h].task,
         r.pid = req[h].pid,
         Holding(r) => Holding(req[h]),
         r.step \in {"dispatch", "wait"} => req[h].step \in {"dispatch", "wait"},
         r.step = "complete" => Answered(req[h].pid, req[h].task)
  PROVE  IInv'
<1>1. LoopOK(r)
  BY RequestOK DEF LoopOK, DagTask, Executing
<1>2. WorkersOK(r)
  BY RequestOK DEF WorkersOK
<1>3. RequestsTyped' /\ WorkersTyped' /\ GivenOK' /\ RequestsOK' /\ OwnWorkers'
  BY <1>1, <1>2, HandlerStep
<1> QED
  BY <1>3 DEF IInv, Typed

\* The step of a handler that only goes on.
LEMMA GotoShape ==
  ASSUME IInv, NEW h \in Handlers, NEW s \in Steps, Goto(h, s)
  PROVE  \E r \in Requests :
           /\ req' = [req EXCEPT ![h] = r] /\ r = [req[h] EXCEPT !.step = s]
           /\ r.step = s /\ r.request = req[h].request /\ r.seen = req[h].seen
           /\ r.done = req[h].done /\ r.results = req[h].results /\ r.cursor = req[h].cursor
           /\ r.task = req[h].task /\ r.pid = req[h].pid /\ r.base = req[h].base
           /\ r.offset = req[h].offset
<1> DEFINE r == [req[h] EXCEPT !.step = s]
<1>1. req[h] \in Requests
  BY RequestOK
<1>2. r \in Requests /\ r.step = s /\ r.request = req[h].request /\ r.seen = req[h].seen
      /\ r.done = req[h].done /\ r.results = req[h].results /\ r.cursor = req[h].cursor
      /\ r.task = req[h].task /\ r.pid = req[h].pid /\ r.base = req[h].base
      /\ r.offset = req[h].offset
  BY <1>1 DEF Requests
<1>3. req' = [req EXCEPT ![h] = r]
  BY DEF Goto, IInv, Typed, RequestsTyped
<1> QED
  BY <1>2, <1>3

LEMMA TablesKept ==
  ASSUME IInv, UNCHANGED workers
  PROVE  /\ UNCHANGED tasks => TasksTyped' /\ RowsOK'
         /\ UNCHANGED attempts => AttemptsTyped' /\ AttemptsOK'
         /\ UNCHANGED <<evidence, run, bounds>> => CountersTyped'
         /\ GivenOK'
  BY DEF IInv, Typed, TasksTyped, RowsOK, Answered, AttemptsTyped, AttemptsOK, CountersTyped, bounds,
     GivenOK

LEMMA RegisterStep ==
  ASSUME IInv, NEW h \in Handlers, Register(h)
  PROVE  IInv'
<1>1. Executing(req[h]) /\ req[h].task \in TaskIds /\ ~Holding(req[h])
  BY RequestOK DEF Register, At, Executing, LoopOK, Holding
<1>2. /\ UNCHANGED <<attempts, evidence, run, workers, bounds>> /\ Goto(h, "number")
      /\ tasks' = [tasks EXCEPT ![req[h].task] = IF @ = NoRow THEN [@ EXCEPT !.status = "PENDING"] ELSE @]
  BY DEF Register
<1>3. TasksTyped' /\ RowsOK'
  <2> DEFINE t == req[h].task
             row == IF tasks[t] = NoRow THEN [tasks[t] EXCEPT !.status = "PENDING"] ELSE tasks[t]
  <2>1. tasks[t] \in Rows
    BY <1>1 DEF IInv, Typed, TasksTyped
  <2>2. /\ row \in Rows /\ (row.result # 0) = (row.status = "COMPLETED")
        /\ row.status = "COMPLETED" => Answered(row.result, t)
    BY <1>1, <2>1 DEF Rows, NoRow, IInv, RowsOK
  <2>3. tasks' = [tasks EXCEPT ![t] = row]
    BY <1>2
  <2>4. row = [status |-> row.status, result |-> row.result]
    BY <2>2 DEF Rows
  <2> HIDE DEF row, t
  <2>5. UpdateTask(t, row.status, row.result)
    BY <2>3, <2>4 DEF UpdateTask
  <2>6. t \in TaskIds /\ [status |-> row.status, result |-> row.result] \in Rows
    BY <1>1, <2>2, <2>4 DEF t
  <2> QED
    BY <1>2, <2>2, <2>5, <2>6, RowUpdate
<1>4. AttemptsTyped' /\ AttemptsOK' /\ CountersTyped'
  BY <1>2, TablesKept
<1>5. PICK r \in Requests :
        /\ req' = [req EXCEPT ![h] = r]
        /\ r.step = "number" /\ r.request = req[h].request /\ r.seen = req[h].seen
        /\ r.done = req[h].done /\ r.results = req[h].results /\ r.cursor = req[h].cursor
        /\ r.task = req[h].task /\ r.pid = req[h].pid
  BY <1>2, GotoShape DEF Steps
<1> QED
  BY <1>1, <1>2, <1>3, <1>4, <1>5, ExecutionStep DEF Executing, Holding

\* The number of an attempt and its instance.
LEMMA NumberStep ==
  ASSUME IInv, NEW h \in Handlers, Number(h) \/ Reassign(h)
  PROVE  IInv'
<1> DEFINE r == IF Number(h)
                THEN [req[h] EXCEPT !.base = NextAttempt(req[h].task), !.offset = 0, !.step = "spawn"]
                ELSE [req[h] EXCEPT !.offset = 1, !.step = "spawn"]
<1>1. req[h] \in Requests /\ Executing(req[h]) /\ req[h].task \in TaskIds
  BY RequestOK DEF Number, Reassign, At, Executing, LoopOK
<1>2. NextAttempt(req[h].task) \in Nat \ {0}
  BY <1>1 DEF IInv, Typed, AttemptsTyped, NextAttempt
<1>3. /\ r \in Requests /\ r.step = "spawn" /\ r.request = req[h].request /\ r.seen = req[h].seen
      /\ r.done = req[h].done /\ r.results = req[h].results /\ r.cursor = req[h].cursor
      /\ r.task = req[h].task /\ r.pid = req[h].pid
  <2>1. "spawn" \in Steps /\ 0 \in 0..1 /\ 1 \in 0..1
    BY DEF Steps
  <2>2. CASE Number(h)
    BY <1>1, <1>2, <2>1, <2>2 DEF Requests
  <2>3. CASE ~Number(h)
    BY <1>1, <2>1, <2>3 DEF Requests
  <2> QED
    BY <2>2, <2>3
<1>4. req' = [req EXCEPT ![h] = r]
  BY DEF Number, Reassign, IInv, Typed, RequestsTyped
<1>5. UNCHANGED <<rows, workers, bounds>>
  BY DEF Number, Reassign
<1> HIDE DEF r
<1>6. Executing(r) /\ ~Holding(r)
  BY <1>3 DEF Executing, Holding
<1>7. /\ TasksTyped' /\ RowsOK' /\ AttemptsTyped' /\ AttemptsOK' /\ CountersTyped'
      /\ UNCHANGED workers
  BY <1>5, TablesKept DEF rows
<1> QED
  BY <1>1, <1>3, <1>4, <1>6, <1>7, ExecutionStep

\* A row of table attempts is written.
LEMMA AttemptStep ==
  ASSUME IInv, NEW h \in Handlers,
         Dispatch(h) \/ RecordExpiry(h) \/ RecordExit(h) \/ RecordAnswer(h)
  PROVE  IInv'
<1>1. PICK s \in {"wait", "failed", "complete"}, status \in {"RUNNING", "COMPLETED", "FAILED"} :
        /\ Goto(h, s) /\ UpsertAttempt(h, status)
        /\ UNCHANGED <<tasks, evidence, run, workers, bounds>>
        /\ s = "wait" => At(h, "dispatch")
        /\ s = "complete" => At(h, "wait") /\ Worker(h).state = "answered"
  BY DEF Dispatch, RecordExpiry, RecordExit, RecordAnswer
<1>2. Executing(req[h]) /\ Holding(req[h])
  BY DEF Dispatch, RecordExpiry, RecordExit, RecordAnswer, At, Executing, Holding
<1>3. AttemptsTyped' /\ AttemptsOK'
  BY <1>1, <1>2, AttemptUpsert
<1>4. TasksTyped' /\ RowsOK' /\ CountersTyped'
  BY <1>1, TablesKept
<1>5. PICK r \in Requests :
        /\ req' = [req EXCEPT ![h] = r]
        /\ r.step = s /\ r.request = req[h].request /\ r.seen = req[h].seen
        /\ r.done = req[h].done /\ r.results = req[h].results /\ r.cursor = req[h].cursor
        /\ r.task = req[h].task /\ r.pid = req[h].pid
  <2>1. s \in Steps
    BY DEF Steps
  <2> QED
    BY <1>1, <2>1, GotoShape
<1>6. s = "complete" => Answered(req[h].pid, req[h].task)
  BY <1>1, <1>2, RequestOK DEF WorkersOK, Answered, Worker, At
<1>7. Executing(r) /\ (s = "wait" => req[h].step = "dispatch")
  BY <1>1, <1>5 DEF Executing, At
<1> QED
  BY <1>1, <1>2, <1>3, <1>4, <1>5, <1>6, <1>7, ExecutionStep

LEMMA ExhaustStep ==
  ASSUME IInv, NEW h \in Handlers, Exhaust(h)
  PROVE  IInv'
<1>1. Executing(req[h]) /\ req[h].task \in TaskIds
  BY RequestOK DEF Exhaust, At, Executing, LoopOK
<1>2. /\ UNCHANGED <<attempts, evidence, run, workers, bounds>> /\ Goto(h, "block")
      /\ UpdateTask(req[h].task, "FAILED", 0)
  BY DEF Exhaust
<1>3. TasksTyped' /\ RowsOK'
  <2>1. [status |-> "FAILED", result |-> 0] \in Rows
    BY DEF Rows
  <2> QED
    BY <1>1, <1>2, <2>1, RowUpdate
<1>4. AttemptsTyped' /\ AttemptsOK' /\ CountersTyped'
  BY <1>2, TablesKept
<1>5. PICK r \in Requests :
        /\ req' = [req EXCEPT ![h] = r]
        /\ r.step = "block" /\ r.request = req[h].request /\ r.seen = req[h].seen
        /\ r.done = req[h].done /\ r.results = req[h].results /\ r.cursor = req[h].cursor
        /\ r.task = req[h].task /\ r.pid = req[h].pid
  BY <1>2, GotoShape DEF Steps
<1> QED
  BY <1>1, <1>2, <1>3, <1>4, <1>5, ExecutionStep DEF Executing, Holding

LEMMA InvalidateStep ==
  ASSUME IInv, NEW h \in Handlers, Invalidate(h)
  PROVE  IInv'
<1>1. PICK t \in req[h].todo :
        /\ UpdateTask(t, "INVALIDATED", 0)
        /\ req' = [req EXCEPT ![h].todo = @ \ {t}]
  BY DEF Invalidate
<1>2. UNCHANGED <<attempts, evidence, run, workers, bounds>> /\ req[h].step = "invalidate"
  BY DEF Invalidate, At
<1>3. req[h] \in Requests
  BY RequestOK
<1>4. TasksTyped' /\ RowsOK'
  <2>1. t \in TaskIds /\ [status |-> "INVALIDATED", result |-> 0] \in Rows
    BY <1>3 DEF Requests, Rows
  <2> QED
    BY <1>1, <1>2, <2>1, RowUpdate
<1>5. AttemptsTyped' /\ AttemptsOK' /\ CountersTyped'
  BY <1>2, TablesKept
<1> DEFINE r == [req[h] EXCEPT !.todo = @ \ {t}]
<1>6. r \in Requests /\ r.step = "invalidate" /\ r.pid = req[h].pid /\ r.results = req[h].results
  BY <1>2, <1>3 DEF Requests
<1>7. req' = [req EXCEPT ![h] = r]
  BY <1>1 DEF IInv, Typed, RequestsTyped
<1> HIDE DEF r
<1>8. WorkersOK(r) /\ LoopOK(r) /\ ~Holding(r)
  BY <1>6, RequestOK DEF WorkersOK, LoopOK, Executing, DagTask, Holding
<1>9. RequestsTyped' /\ WorkersTyped' /\ GivenOK' /\ RequestsOK' /\ OwnWorkers'
  BY <1>2, <1>6, <1>7, <1>8, HandlerStep
<1> QED
  BY <1>4, <1>5, <1>9 DEF IInv, Typed

\* The last steps of a request.
LEMMA LastStep ==
  ASSUME IInv, NEW h \in Handlers, Block(h) \/ Verdict(h) \/ Evaluate(h) \/ Fail(h)
  PROVE  IInv'
<1>1. req' = Ended(h) /\ UNCHANGED <<tasks, attempts, workers, evidence, accepted, faults>>
  BY DEF Block, Verdict, Evaluate, Fail, rows, bounds
<1>2. run' \in Runs
  BY DEF Block, Verdict, Evaluate, Fail, rows, IInv, Typed, CountersTyped, Runs
<1>3. returned' \in BOOLEAN
  BY DEF Block, Verdict, Evaluate, Fail, bounds, IInv, Typed, CountersTyped
<1>4. CountersTyped'
  BY <1>1, <1>2, <1>3 DEF IInv, Typed, CountersTyped
<1> QED
  BY <1>1, <1>4, EndStep

LEMMA WithResultShape ==
  ASSUME NEW results \in ResultMaps, NEW t \in TaskIds, NEW p \in Nat
  PROVE  /\ WithResult(results, t, p) \in ResultMaps
         /\ DOMAIN WithResult(results, t, p) = DOMAIN results \cup {t}
         /\ \A u \in DOMAIN WithResult(results, t, p) :
              WithResult(results, t, p)[u] = IF u = t THEN p ELSE results[u]
<1>1. PICK S \in SUBSET TaskIds : results \in [S -> Nat]
  BY DEF ResultMaps
<1>2. WithResult(results, t, p) \in [S \cup {t} -> Nat]
  BY <1>1 DEF WithResult
<1>3. S \cup {t} \in SUBSET TaskIds
  BY <1>1
<1>4. WithResult(results, t, p) \in ResultMaps
  BY <1>2, <1>3 DEF ResultMaps
<1> QED
  BY <1>1, <1>4 DEF WithResult

LEMMA CompleteStep ==
  ASSUME IInv, NEW h \in Handlers, Complete(h)
  PROVE  IInv'
<1> DEFINE t == req[h].task
           p == req[h].pid
<1>1. /\ req[h] \in Requests /\ Executing(req[h]) /\ t \in TaskIds /\ Answered(p, t)
      /\ p \in Nat \ {0} /\ Holding(req[h])
  <2>1. req[h].step = "complete"
    BY DEF Complete, At
  <2>2. Len(workers) \in Nat /\ DOMAIN workers = 1..Len(workers)
    BY DEF IInv, Typed, WorkersTyped
  <2> QED
    BY <2>1, <2>2, RequestOK DEF Executing, LoopOK, WorkersOK, Answered, Holding
<1>2. /\ UNCHANGED <<attempts, evidence, run, workers, bounds>> /\ ReturnResult(h)
      /\ UpdateTask(t, "COMPLETED", p)
  BY DEF Complete
<1>3. TasksTyped' /\ RowsOK'
  <2>1. [status |-> "COMPLETED", result |-> p] \in Rows
    BY <1>1 DEF Rows
  <2> QED
    BY <1>1, <1>2, <2>1, RowUpdate
<1>4. AttemptsTyped' /\ AttemptsOK' /\ CountersTyped'
  BY <1>2, TablesKept
<1>5. ASSUME NEW r \in Requests, req' = [req EXCEPT ![h] = r], WorkersOK(r), LoopOK(r), ~Holding(r)
      PROVE  IInv'
  <2>1. RequestsTyped' /\ WorkersTyped' /\ GivenOK' /\ RequestsOK' /\ OwnWorkers'
    BY <1>2, <1>5, HandlerStep
  <2> QED
    BY <1>3, <1>4, <2>1 DEF IInv, Typed
<1>6. CASE req[h].request = "probe"
  <2>1. req' = [req EXCEPT ![h] = IdleRequest]
    BY <1>2, <1>6 DEF ReturnResult, Ended
  <2>2. WorkersOK(IdleRequest) /\ LoopOK(IdleRequest) /\ ~Holding(IdleRequest)
    <3>1. Len(workers) \in Nat
      BY DEF IInv, Typed, WorkersTyped
    <3> QED
      BY <3>1 DEF IdleRequest, WorkersOK, LoopOK, Executing, DagTask, Holding
  <2> QED
    BY <1>5, <2>1, <2>2, IdleTyped
<1>7. CASE req[h].request # "probe" /\ t = Evaluation
  <2>1. Goto(h, "evaluated")
    BY <1>2, <1>7 DEF ReturnResult
  <2>2. PICK r \in Requests :
          /\ req' = [req EXCEPT ![h] = r] /\ r.step = "evaluated"
          /\ r.results = req[h].results /\ r.pid = req[h].pid
    BY <2>1, GotoShape DEF Steps
  <2>3. WorkersOK(r)
    BY <2>2, RequestOK DEF WorkersOK, Holding
  <2>4. LoopOK(r) /\ ~Holding(r)
    BY <2>2 DEF LoopOK, Executing, DagTask, Holding
  <2> QED
    BY <1>5, <2>2, <2>3, <2>4
<1>8. CASE req[h].request # "probe" /\ t # Evaluation
  <2> DEFINE new == WithResult(req[h].results, t, p)
             r == [req[h] EXCEPT !.results = new, !.cursor = @ + 1, !.step = "next"]
  <2>1. /\ new \in ResultMaps /\ DOMAIN new = DOMAIN req[h].results \cup {t}
        /\ \A u \in DOMAIN new : new[u] = IF u = t THEN p ELSE req[h].results[u]
    <3>1. req[h].results \in ResultMaps
      BY <1>1 DEF Requests
    <3>2. p \in Nat
      BY <1>1
    <3>3. PICK results \in ResultMaps, u \in TaskIds, q \in Nat :
            results = req[h].results /\ u = t /\ q = p
      BY <1>1, <3>1, <3>2
    <3>4. /\ WithResult(results, u, q) \in ResultMaps
          /\ DOMAIN WithResult(results, u, q) = DOMAIN results \cup {u}
          /\ \A v \in DOMAIN WithResult(results, u, q) :
               WithResult(results, u, q)[v] = IF v = u THEN q ELSE results[v]
      BY WithResultShape
    <3>5. new = WithResult(results, u, q)
      BY <3>3
    <3> HIDE DEF new, t, p
    <3> QED
      BY <3>3, <3>4, <3>5
  <2> HIDE DEF new
  <2>2. req' = [req EXCEPT ![h] = r]
    BY <1>2, <1>8 DEF ReturnResult, IInv, Typed, RequestsTyped, new
  <2>3. /\ r \in Requests /\ r.step = "next" /\ r.results = new /\ r.pid = p
        /\ r.cursor = req[h].cursor + 1 /\ r.done = req[h].done /\ r.seen = req[h].seen
    <3>1. "next" \in Steps /\ req[h].cursor + 1 \in Nat \ {0}
      BY <1>1 DEF Steps, Requests
    <3>2. [req[h] EXCEPT !.results = new, !.cursor = @ + 1] \in Requests
      BY <1>1, <2>1, <3>1 DEF Requests
    <3>3. r \in Requests
      BY <3>1, <3>2 DEF Requests
    <3> QED
      BY <1>1, <3>3 DEF Requests
  <2> HIDE DEF r
  <2>4. WorkersOK(r)
    <3>1. \A u \in DOMAIN req[h].results : Answered(req[h].results[u], u)
      BY RequestOK DEF WorkersOK
    <3>2. \A u \in DOMAIN new : Answered(new[u], u)
      BY <1>1, <2>1, <3>1
    <3> QED
      BY <2>3, <3>2, RequestOK DEF WorkersOK, Holding
  <2>5. LoopOK(r) /\ ~Holding(r)
    <3>1. DagTask(req[h])
      BY <1>1, <1>8 DEF DagTask
    <3>2. /\ req[h].done \subseteq DOMAIN req[h].results
          /\ \A j \in DOMAIN Plans[r.seen] :
               j < req[h].cursor => Plans[r.seen][j].task \in DOMAIN req[h].results
          /\ t = Plans[r.seen][req[h].cursor].task
      BY <2>3, <3>1, RequestOK DEF LoopOK
    <3>3. \A j \in DOMAIN Plans[r.seen] : j \in Nat
      BY <2>3, PlanPlaces DEF Requests
    <3>4. req[h].cursor \in Nat
      BY <1>1 DEF Requests
    <3>5. \A j \in DOMAIN Plans[r.seen] : j < r.cursor => Plans[r.seen][j].task \in DOMAIN new
      BY <2>1, <2>3, <3>2, <3>3, <3>4
    <3> QED
      BY <2>1, <2>3, <3>2, <3>5 DEF LoopOK, Executing, DagTask, Holding
  <2> QED
    BY <1>5, <2>2, <2>3, <2>4, <2>5
<1> QED
  BY <1>6, <1>7, <1>8

-----------------------------------------------------------------------------
(***************************************************************************)
(* Steps that start or change workers.                                     *)
(***************************************************************************)
\* Workers are never forgotten, keep their task and what they were given, and an
\* answer within the lease stays one.
WorkersEvolve ==
  /\ Len(workers) <= Len(workers') /\ DOMAIN workers \subseteq DOMAIN workers'
  /\ \A p \in DOMAIN workers :
       /\ workers'[p].task = workers[p].task /\ workers'[p].upstream = workers[p].upstream
       /\ workers[p].state = "answered" /\ ~workers[p].expired =>
            workers'[p].state = "answered" /\ ~workers'[p].expired

LEMMA AnswersStay ==
  ASSUME WorkersEvolve, NEW p, NEW t, Answered(p, t)
  PROVE  Answered(p, t)'
  BY DEF Answered, WorkersEvolve

LEMMA TablesEvolve ==
  ASSUME IInv, WorkersEvolve, UNCHANGED <<tasks, attempts>>
  PROVE  TasksTyped' /\ RowsOK' /\ AttemptsTyped' /\ AttemptsOK'
<1>1. TasksTyped' /\ AttemptsTyped'
  BY DEF IInv, Typed, TasksTyped, AttemptsTyped
<1>2. RowsOK'
  BY AnswersStay DEF IInv, RowsOK
<1>3. AttemptsOK'
  BY DEF IInv, AttemptsOK, WorkersEvolve
<1> QED
  BY <1>1, <1>2, <1>3

LEMMA GivenEvolves ==
  ASSUME IInv, WorkersEvolve, DOMAIN workers' = DOMAIN workers
  PROVE  GivenOK'
<1>1. ASSUME NEW p \in DOMAIN workers, NEW d \in DOMAIN workers'[p].upstream,
             NEW q, q = workers'[p].upstream[d]
      PROVE  q < p /\ Answered(q, d)'
  <2>1. d \in DOMAIN workers[p].upstream /\ q = workers[p].upstream[d]
    BY <1>1 DEF WorkersEvolve
  <2>2. q < p /\ Answered(q, d)
    BY <2>1 DEF IInv, GivenOK
  <2> QED
    BY <2>2, AnswersStay
<1> QED
  BY <1>1 DEF GivenOK, Answered

LEMMA RequestEvolves ==
  ASSUME IInv, WorkersEvolve, WorkersTyped', NEW q \in Requests, WorkersOK(q),
         q.step \in {"dispatch", "wait"} => workers'[q.pid].expired = workers[q.pid].expired
  PROVE  WorkersOK(q)'
<1>1. Len(workers) \in Nat /\ Len(workers') \in Nat
  BY DEF IInv, Typed, WorkersTyped
<1>2. q.pid \in 0..Len(workers')
  BY <1>1 DEF WorkersOK, WorkersEvolve
<1>3. \A t \in DOMAIN q.results : Answered(q.results[t], t)'
  BY AnswersStay DEF WorkersOK
<1>4. Holding(q) => q.pid \in DOMAIN workers' /\ workers'[q.pid].task = q.task
  BY DEF WorkersOK, WorkersEvolve
<1>5. q.step \in {"dispatch", "wait"} => ~workers'[q.pid].expired
  BY DEF WorkersOK
<1>6. q.step = "complete" => Answered(q.pid, q.task)'
  BY DEF WorkersOK, Answered, WorkersEvolve
<1> QED
  BY <1>2, <1>3, <1>4, <1>5, <1>6 DEF WorkersOK, Holding

LEMMA RequestsOKPrimed ==
  ASSUME RequestsTyped',
         \A g \in Handlers, q \in Requests : q = req'[g] => WorkersOK(q)' /\ LoopOK(q)
  PROVE  RequestsOK'
<1> SUFFICES ASSUME NEW g \in Handlers
             PROVE  WorkersOK(req[g])' /\ LoopOK(req[g])'
  BY DEF RequestsOK
<1>1. PICK q \in Requests : q = req'[g]
  BY DEF RequestsTyped
<1>2. WorkersOK(q)' /\ LoopOK(q)
  BY <1>1
<1> QED
  BY <1>1, <1>2 DEF WorkersOK, LoopOK, Answered

LEMMA SpawnStep ==
  ASSUME IInv, NEW h \in Handlers, Spawn(h)
  PROVE  IInv'
<1> DEFINE upstream == IF req[h].request = "probe" \/ req[h].task = Evaluation
                       THEN {} ELSE Current(h).depends_on
           w == [ task |-> req[h].task, state |-> "running", expired |-> FALSE,
                  mode |-> req[h].modes[req[h].offset + 1],
                  upstream |-> [d \in upstream |-> req[h].results[d]] ]
           n == Len(workers)
           new == [req[h] EXCEPT !.pid = n + 1, !.step = "dispatch"]
<1>1. req[h] \in Requests /\ Executing(req[h]) /\ req[h].task \in TaskIds
  BY RequestOK DEF Spawn, At, Executing, LoopOK
<1>2. upstream \subseteq DOMAIN req[h].results
  BY <1>1, RequestOK DEF LoopOK, DagTask, Current
<1>3. [d \in upstream |-> req[h].results[d]] \in ResultMaps
  <2>1. PICK S \in SUBSET TaskIds : req[h].results \in [S -> Nat]
    BY <1>1 DEF Requests, ResultMaps
  <2>2. upstream \in SUBSET TaskIds /\ [d \in upstream |-> req[h].results[d]] \in [upstream -> Nat]
    BY <1>2, <2>1
  <2> HIDE DEF upstream
  <2> QED
    BY <2>2 DEF ResultMaps
<1>4. w \in WorkerRows
  <2>1. req[h].modes[req[h].offset + 1] \in Modes
    BY <1>1 DEF Requests
  <2> HIDE DEF upstream
  <2> QED
    BY <1>1, <1>3, <2>1 DEF WorkerRows
<1>5. w.task = req[h].task /\ ~w.expired
  OBVIOUS
<1>6. workers \in Seq(WorkerRows) /\ n \in Nat /\ DOMAIN workers = 1..n
  BY DEF IInv, Typed, WorkersTyped
<1>7. workers' = Append(workers, w)
  BY DEF Spawn
<1>8. req' = [req EXCEPT ![h] = new]
  BY DEF Spawn, IInv, Typed, RequestsTyped
<1>9. UNCHANGED <<tasks, attempts>> /\ CountersTyped'
  BY DEF Spawn, rows, bounds, IInv, Typed, CountersTyped
<1> HIDE DEF w
<1>10. /\ WorkersTyped' /\ Len(workers') = n + 1 /\ DOMAIN workers' = 1..(n + 1)
       /\ workers'[n + 1] = w /\ \A p \in 1..n : workers'[p] = workers[p]
  BY <1>4, <1>6, <1>7 DEF WorkersTyped
<1> HIDE DEF n
<1>11. WorkersEvolve
  <2>1. n <= n + 1 /\ 1..n \subseteq 1..(n + 1)
    BY <1>6
  <2>2. \A p \in DOMAIN workers : p \in DOMAIN workers' /\ workers'[p] = workers[p]
    BY <1>6, <1>10, <2>1 DEF n
  <2> QED
    BY <1>6, <1>10, <2>1, <2>2 DEF WorkersEvolve, n
<1>12. PICK r \in Requests :
         /\ r = new /\ r.pid = n + 1 /\ r.step = "dispatch" /\ r.results = req[h].results
         /\ r.task = req[h].task /\ r.request = req[h].request /\ r.seen = req[h].seen
         /\ r.done = req[h].done /\ r.cursor = req[h].cursor
  <2>1. "dispatch" \in Steps /\ n + 1 \in Nat
    BY <1>6 DEF Steps
  <2>2. /\ new \in Requests /\ new.pid = n + 1 /\ new.step = "dispatch"
        /\ new.results = req[h].results /\ new.task = req[h].task
        /\ new.request = req[h].request /\ new.seen = req[h].seen
        /\ new.done = req[h].done /\ new.cursor = req[h].cursor
    BY <1>1, <2>1 DEF Requests
  <2> HIDE DEF new
  <2> QED
    BY <2>2
<1> HIDE DEF new
<1>13. \A g \in Handlers : req'[g] = IF g = h THEN r ELSE req[g]
  BY <1>8, <1>12 DEF IInv, Typed, RequestsTyped
<1>14. RequestsTyped'
  BY <1>8, <1>12 DEF IInv, Typed, RequestsTyped
<1>15. WorkersOK(r)' /\ LoopOK(r)
  <2>1. \A t \in DOMAIN r.results : Answered(r.results[t], t)'
    BY <1>11, <1>12, RequestOK, AnswersStay DEF WorkersOK
  <2>2. n + 1 \in 1..(n + 1) /\ n + 1 \in 0..(n + 1)
    BY <1>6
  <2>3. WorkersOK(r)'
    BY <1>5, <1>10, <1>12, <2>1, <2>2 DEF WorkersOK, Holding
  <2>4. LoopOK(r)
    BY <1>1, <1>12, RequestOK DEF LoopOK, DagTask, Executing
  <2> QED
    BY <2>3, <2>4
<1>16. \A g \in Handlers : g # h => WorkersOK(req[g]) /\ LoopOK(req[g]) /\ req[g] \in Requests
  BY RequestOK
<1>17. \A g \in Handlers, q \in Requests : g # h /\ q = req'[g] => WorkersOK(q)'
  <2> SUFFICES ASSUME NEW g \in Handlers, NEW q \in Requests, g # h, q = req'[g]
               PROVE  WorkersOK(q)'
    OBVIOUS
  <2>1. WorkersOK(q)
    BY <1>13, <1>16
  <2>2. q.step \in {"dispatch", "wait"} => q.pid \in 1..n
    BY <1>6, <2>1 DEF WorkersOK, Holding
  <2> QED
    BY <1>10, <1>11, <2>1, <2>2, RequestEvolves
<1>18. RequestsOK'
  <2>1. \A g \in Handlers, q \in Requests : q = req'[g] => WorkersOK(q)' /\ LoopOK(q)
    BY <1>13, <1>15, <1>16, <1>17
  <2> QED
    BY <1>14, <2>1, RequestsOKPrimed
<1>19. OwnWorkers'
  <2>1. \A g \in Handlers : g # h /\ Holding(req[g]) => req[g].pid # n + 1
    BY <1>6, <1>16 DEF WorkersOK
  <2> QED
    BY <1>12, <1>13, <2>1 DEF IInv, OwnWorkers
<1>20. GivenOK'
  <2>1. \A d \in DOMAIN w.upstream : w.upstream[d] < n + 1 /\ Answered(w.upstream[d], d)
    <3>1. \A d \in DOMAIN w.upstream : d \in DOMAIN req[h].results /\ w.upstream[d] = req[h].results[d]
      BY <1>2 DEF w
    <3>2. \A d \in DOMAIN req[h].results : Answered(req[h].results[d], d)
      BY RequestOK DEF WorkersOK
    <3>3. \A p : p \in 1..n => p < n + 1
      BY <1>6
    <3> QED
      BY <1>6, <3>1, <3>2, <3>3 DEF Answered
  <2>2. \A p \in 1..n : \A d \in DOMAIN workers[p].upstream :
          workers[p].upstream[d] < p /\ Answered(workers[p].upstream[d], d)
    BY <1>6 DEF IInv, GivenOK
  <2>3. \A p \in 1..(n + 1) : p = n + 1 \/ p \in 1..n
    BY <1>6
  <2>4. \A p \in DOMAIN workers' : \A d \in DOMAIN workers'[p].upstream :
          workers'[p].upstream[d] < p /\ Answered(workers'[p].upstream[d], d)
    BY <1>10, <2>1, <2>2, <2>3
  <2>5. ASSUME NEW p \in DOMAIN workers', NEW d \in DOMAIN workers'[p].upstream,
               NEW q, q = workers'[p].upstream[d]
        PROVE  q < p /\ Answered(q, d)'
    BY <1>11, <2>4, <2>5, AnswersStay
  <2> QED
    BY <2>5 DEF GivenOK, Answered
<1> QED
  BY <1>9, <1>10, <1>11, <1>14, <1>18, <1>19, <1>20, TablesEvolve DEF IInv, Typed

LEMMA ExpireStep ==
  ASSUME IInv, NEW h \in Handlers, Expire(h)
  PROVE  IInv'
<1> DEFINE p == req[h].pid
<1>1. /\ req[h] \in Requests /\ Holding(req[h]) /\ Executing(req[h]) /\ req[h].step = "wait"
      /\ p \in DOMAIN workers /\ workers[p].state = "running"
  BY RequestOK DEF Expire, At, Worker, Holding, Executing, WorkersOK
<1>2. /\ workers' = [workers EXCEPT ![p].expired = TRUE] /\ Goto(h, "terminate")
      /\ UNCHANGED <<rows, accepted, returned>>
  BY DEF Expire
<1>3. faults' \in 0..MaxFaults
  BY TaskExecutionAssumption DEF Expire, IInv, Typed, CountersTyped
<1>4. CountersTyped'
  BY <1>2, <1>3 DEF rows, IInv, Typed, CountersTyped
<1>5. workers \in Seq(WorkerRows)
  BY DEF IInv, Typed, WorkersTyped
<1>6. /\ Len(workers') = Len(workers) /\ DOMAIN workers' = DOMAIN workers
      /\ Len(workers) \in Nat
      /\ \A q \in DOMAIN workers :
           workers'[q] = IF q = p THEN [workers[q] EXCEPT !.expired = TRUE] ELSE workers[q]
  <2>1. workers' = [workers EXCEPT ![p] = [workers[p] EXCEPT !.expired = TRUE]]
    BY <1>2
  <2> DEFINE w == [workers[p] EXCEPT !.expired = TRUE]
  <2> HIDE DEF w, p
  <2>2. workers' = [workers EXCEPT ![p] = w]
    BY <2>1 DEF w
  <2>3. /\ Len(workers') = Len(workers) /\ DOMAIN workers' = DOMAIN workers
        /\ Len(workers) \in Nat
        /\ \A q \in DOMAIN workers : workers'[q] = IF q = p THEN w ELSE workers[q]
    BY <1>1, <1>5, <2>2
  <2> QED
    BY <2>3 DEF w
<1>7. WorkersTyped'
  <2>1. [workers[p] EXCEPT !.expired = TRUE] \in WorkerRows
    <3>1. workers[p] \in WorkerRows
      BY <1>1, <1>5
    <3> QED
      BY <3>1 DEF WorkerRows
  <2>2. workers' = [workers EXCEPT ![p] = [workers[p] EXCEPT !.expired = TRUE]]
    BY <1>1, <1>2, <1>5
  <2> QED
    BY <1>1, <1>5, <2>1, <2>2 DEF WorkersTyped
<1>8. \A q \in DOMAIN workers : workers[q] \in WorkerRows
  BY <1>5
<1>9. WorkersEvolve
  <2>1. ASSUME NEW q \in DOMAIN workers
        PROVE  /\ workers'[q].task = workers[q].task /\ workers'[q].state = workers[q].state
               /\ workers'[q].upstream = workers[q].upstream
               /\ q # p => workers'[q].expired = workers[q].expired
    BY <1>6, <1>8 DEF WorkerRows
  <2> QED
    BY <1>1, <1>6, <2>1 DEF WorkersEvolve
<1>10. \A q \in DOMAIN workers : q # p => workers'[q].expired = workers[q].expired
  BY <1>6
<1>11. PICK r \in Requests :
         /\ req' = [req EXCEPT ![h] = r]
         /\ r.step = "terminate" /\ r.request = req[h].request /\ r.seen = req[h].seen
         /\ r.done = req[h].done /\ r.results = req[h].results /\ r.cursor = req[h].cursor
         /\ r.task = req[h].task /\ r.pid = req[h].pid
  BY <1>2, GotoShape DEF Steps
<1>12. RequestsTyped' /\ \A g \in Handlers : req'[g] = IF g = h THEN r ELSE req[g]
  BY <1>11 DEF IInv, Typed, RequestsTyped
<1>13. WorkersOK(r) /\ LoopOK(r)
  BY <1>1, <1>11, RequestOK DEF WorkersOK, LoopOK, DagTask, Executing, Holding
<1>14. \A g \in Handlers, q \in Requests : q = req'[g] => WorkersOK(q)' /\ LoopOK(q)
  <2> SUFFICES ASSUME NEW g \in Handlers, NEW q \in Requests, q = req'[g]
               PROVE  WorkersOK(q)' /\ LoopOK(q)
    OBVIOUS
  <2>1. WorkersOK(q) /\ LoopOK(q)
    BY <1>12, <1>13, RequestOK
  <2>2. q.step \in {"dispatch", "wait"} => q.pid \in DOMAIN workers /\ q.pid # p
    <3>1. g = h => q.step = "terminate"
      BY <1>11, <1>12
    <3>2. g # h => q = req[g]
      BY <1>12
    <3> QED
      BY <1>1, <2>1, <3>1, <3>2 DEF WorkersOK, Holding, IInv, OwnWorkers
  <2> QED
    BY <1>7, <1>9, <1>10, <2>1, <2>2, RequestEvolves
<1>15. RequestsOK'
  BY <1>12, <1>14, RequestsOKPrimed
<1>16. OwnWorkers'
  BY <1>1, <1>11, <1>12 DEF IInv, OwnWorkers
<1>17. UNCHANGED <<tasks, attempts>>
  BY <1>2 DEF rows
<1>18. GivenOK'
  BY <1>6, <1>8, <1>9, GivenEvolves DEF WorkersEvolve
<1> QED
  BY <1>4, <1>7, <1>9, <1>12, <1>15, <1>16, <1>17, <1>18, TablesEvolve DEF IInv, Typed

LEMMA WorkerStepOK ==
  ASSUME IInv, NEW p \in DOMAIN workers, WorkerStep(p)
  PROVE  IInv'
<1>1. PICK s \in {"answered", "crashed", "killed"} : workers' = [workers EXCEPT ![p].state = s]
  BY DEF WorkerStep, WorkerAnswers, WorkerCrashes, WorkerTerminated
<1>2. workers[p].state = "running" /\ UNCHANGED <<rows, req, accepted, returned>>
  BY DEF WorkerStep, WorkerAnswers, WorkerCrashes, WorkerTerminated, bounds
<1>3. faults' \in 0..MaxFaults
  BY TaskExecutionAssumption DEF WorkerStep, WorkerAnswers, WorkerCrashes, WorkerTerminated, bounds,
     IInv, Typed, CountersTyped
<1>4. CountersTyped' /\ RequestsTyped'
  BY <1>2, <1>3 DEF rows, IInv, Typed, CountersTyped, RequestsTyped
<1>5. workers \in Seq(WorkerRows)
  BY DEF IInv, Typed, WorkersTyped
<1>6. /\ Len(workers') = Len(workers) /\ DOMAIN workers' = DOMAIN workers
      /\ Len(workers) \in Nat
      /\ \A q \in DOMAIN workers :
           workers'[q] = IF q = p THEN [workers[q] EXCEPT !.state = s] ELSE workers[q]
  BY <1>1, <1>5
<1>7. WorkersTyped'
  <2>1. [workers[p] EXCEPT !.state = s] \in WorkerRows
    <3>1. workers[p] \in WorkerRows
      BY <1>5
    <3> QED
      BY <3>1 DEF WorkerRows
  <2>2. workers' = [workers EXCEPT ![p] = [workers[p] EXCEPT !.state = s]]
    BY <1>1, <1>5
  <2> QED
    BY <1>5, <2>1, <2>2 DEF WorkersTyped
<1>8. \A q \in DOMAIN workers : workers[q] \in WorkerRows
  BY <1>5
<1>9. ASSUME NEW q \in DOMAIN workers
      PROVE  /\ workers'[q].task = workers[q].task /\ workers'[q].expired = workers[q].expired
             /\ workers'[q].upstream = workers[q].upstream
             /\ q # p => workers'[q].state = workers[q].state
  BY <1>6, <1>8 DEF WorkerRows
<1>10. WorkersEvolve
  BY <1>2, <1>6, <1>9 DEF WorkersEvolve
<1>11. \A g \in Handlers, q \in Requests : q = req'[g] => WorkersOK(q)' /\ LoopOK(q)
  <2> SUFFICES ASSUME NEW g \in Handlers, NEW q \in Requests, q = req'[g]
               PROVE  WorkersOK(q)' /\ LoopOK(q)
    OBVIOUS
  <2>1. WorkersOK(q) /\ LoopOK(q)
    BY <1>2, RequestOK
  <2>2. q.step \in {"dispatch", "wait"} => q.pid \in DOMAIN workers
    BY <2>1 DEF WorkersOK, Holding
  <2> QED
    BY <1>7, <1>9, <1>10, <2>1, <2>2, RequestEvolves
<1>12. RequestsOK'
  BY <1>4, <1>11, RequestsOKPrimed
<1>13. OwnWorkers'
  BY <1>2 DEF IInv, OwnWorkers
<1>14. UNCHANGED <<tasks, attempts>>
  BY <1>2 DEF rows
<1>15. GivenOK'
  BY <1>6, <1>10, GivenEvolves
<1> QED
  BY <1>4, <1>7, <1>10, <1>12, <1>13, <1>14, <1>15, TablesEvolve DEF IInv, Typed

LEMMA IInvNext == IInv /\ [Next]_vars => IInv'
<1> SUFFICES ASSUME IInv, [Next]_vars
             PROVE  IInv'
  OBVIOUS
<1>1. ASSUME NEW h \in Handlers, Advance(h)
      PROVE  IInv'
  BY <1>1, PlanningStep, InvalidateStep, LoadStep, ReuseStep, NextTaskStep, FinishDagStep,
     RegisterStep, NumberStep, SpawnStep, AttemptStep, CompleteStep, ExhaustStep, LastStep
     DEF Advance
<1>2. CASE UNCHANGED vars
  <2>1. CountersTyped' /\ RequestsTyped' /\ WorkersTyped' /\ OwnWorkers'
    BY <1>2 DEF vars, IInv, Typed, CountersTyped, RequestsTyped, WorkersTyped, OwnWorkers
  <2>2. TasksTyped' /\ RowsOK' /\ AttemptsTyped' /\ AttemptsOK' /\ GivenOK'
    BY <1>2, TablesKept DEF vars
  <2>3. RequestsOK'
    BY <1>2 DEF vars, IInv, RequestsOK, WorkersOK, LoopOK, Answered
  <2> QED
    BY <2>1, <2>2, <2>3 DEF IInv, Typed
<1> QED
  BY <1>1, <1>2, ReceiveStep, ExpireStep, LastStep, WorkerStepOK DEF Next

\* The invariant holds however many handlers run, with store failures, worker
\* faults and any evidence.
THEOREM InductiveInvariant == Spec => []IInv
  BY IInvInit, IInvNext, PTL DEF Spec

-----------------------------------------------------------------------------
(***************************************************************************)
(* What holds however many handlers run.                                   *)
(***************************************************************************)
\* Rows, workers and requests keep their types, results and workers exist.
THEOREM TypeCorrectness == Spec => []TypeOK
<1>1. IInv => TypeOK
  <2> SUFFICES ASSUME IInv
               PROVE  TypeOK
    OBVIOUS
  <2>1. Len(workers) \in Nat /\ DOMAIN workers = 1..Len(workers) /\ workers \in Seq(WorkerRows)
    BY DEF IInv, Typed, WorkersTyped
  <2>2. ASSUME NEW t \in TaskIds
        PROVE  /\ tasks[t].status \in {"ABSENT", "PENDING", "COMPLETED", "FAILED", "INVALIDATED"}
               /\ tasks[t].result \in 0..Len(workers)
               /\ (tasks[t].result # 0) = (tasks[t].status = "COMPLETED")
    BY <2>1 DEF IInv, Typed, TasksTyped, Rows, RowsOK, Answered
  <2>3. ASSUME NEW t \in TaskIds, NEW n \in DOMAIN attempts[t]
        PROVE  /\ attempts[t][n].pid \in DOMAIN workers
               /\ attempts[t][n].status \in {"RUNNING", "COMPLETED", "FAILED"}
    <3>1. attempts[t] \in Seq(AttemptRows)
      BY DEF IInv, Typed, AttemptsTyped
    <3>2. attempts[t][n] \in AttemptRows
      BY <3>1
    <3> QED
      BY <3>2 DEF AttemptRows, IInv, AttemptsOK
  <2>4. ASSUME NEW p \in DOMAIN workers
        PROVE  /\ workers[p].task \in DOMAIN tasks
               /\ workers[p].state \in {"running", "answered", "crashed", "killed"}
               /\ workers[p].expired \in BOOLEAN
    <3>1. workers[p] \in WorkerRows
      BY <2>1
    <3> QED
      BY <3>1 DEF WorkerRows, IInv, Typed, TasksTyped
  <2>5. ASSUME NEW h \in Handlers
        PROVE  RequestTypeOK(req[h])
    <3>1. req[h] \in Requests /\ WorkersOK(req[h])
      BY RequestOK
    <3>2. DOMAIN tasks = TaskIds
      BY DEF IInv, Typed, TasksTyped
    <3>3. DOMAIN req[h].results \subseteq TaskIds
      <4>1. PICK S \in SUBSET TaskIds : req[h].results \in [S -> Nat]
        BY <3>1 DEF Requests, ResultMaps
      <4> QED
        BY <4>1
    <3>4. \A t \in DOMAIN req[h].results : req[h].results[t] \in DOMAIN workers
      BY <3>1 DEF WorkersOK, Answered
    <3> QED
      BY <3>1, <3>2, <3>3, <3>4 DEF RequestTypeOK, Requests, WorkersOK
  <2>6. /\ DOMAIN tasks = TaskIds /\ DOMAIN attempts = TaskIds /\ DOMAIN req = Handlers
        /\ evidence \subseteq Evidence
        /\ accepted \in 0..MaxRequests /\ returned \in BOOLEAN /\ faults \in 0..MaxFaults
    BY DEF IInv, Typed, TasksTyped, AttemptsTyped, RequestsTyped, CountersTyped
  <2>7. /\ run.status \in { "ABSENT", "RUNNING", "ABSTAINED", "BLOCKED_INSUFFICIENT_EVIDENCE",
                            "PAUSED_AWAITING_HUMAN", "BLOCKED_RETRY_EXHAUSTED" }
        /\ run.gate \in {"pending", "not-run", "passed", "failed"}
    BY DEF IInv, Typed, CountersTyped, Runs
  <2> QED
    BY <2>2, <2>3, <2>4, <2>5, <2>6, <2>7 DEF TypeOK
<1> QED
  BY <1>1, InductiveInvariant, PTL

\* A COMPLETED task carries an answer that its own worker gave within its lease,
\* whichever handlers ran the task and whatever died in between.
THEOREM AnswersAreAccepted == Spec => []OnlyAcceptedAnswers
<1>1. IInv => OnlyAcceptedAnswers
  BY DEF IInv, RowsOK, OnlyAcceptedAnswers
<1> QED
  BY <1>1, InductiveInvariant, PTL

\* Whatever other handlers complete or invalidate meanwhile, a handler runs a
\* task with an accepted answer of each dependency, and every worker was given
\* accepted answers of earlier workers only.
THEOREM DependenciesAreAtHand == Spec => []DependenciesAtHand
<1>1. IInv => DependenciesAtHand
  <2> SUFFICES ASSUME IInv, NEW h \in Handlers, InDag(h), NEW d \in Current(h).depends_on
               PROVE  d \in DOMAIN req[h].results /\ Answered(req[h].results[d], d)
    BY DEF DependenciesAtHand, IInv, GivenOK
  <2> DEFINE e == req[h].seen
             i == req[h].cursor
  <2>1. /\ e \in SUBSET Evidence /\ i \in DOMAIN Plans[e] /\ req[h].step = "next"
        /\ Current(h) = Plans[e][i]
    BY RequestOK DEF InDag, At, Requests, Current
  <2>2. PICK j \in 1..i-1 : j \in DOMAIN Plans[e] /\ d = Plans[e][j].task
    BY <2>1, DependsOnEarlier
  <2>3. \A k \in DOMAIN Plans[e] : k < i => Plans[e][k].task \in DOMAIN req[h].results
    BY <2>1, RequestOK DEF LoopOK
  <2>4. i \in Nat
    BY <2>1, PlanPlaces
  <2>5. j < i
    BY <2>2, <2>4
  <2>6. d \in DOMAIN req[h].results
    BY <2>2, <2>3, <2>5
  <2> QED
    BY <2>6, RequestOK DEF WorkersOK
<1> QED
  BY <1>1, InductiveInvariant, PTL

-----------------------------------------------------------------------------
(***************************************************************************)
(* The history of attempts, as long as no two handlers execute one task.   *)
(* (When they do, both number their attempts from the same maximum.)       *)
(***************************************************************************)
TasksApart ==
  \A g, h \in Handlers : g # h /\ Executing(req[g]) /\ Executing(req[h]) => req[g].task # req[h].task

\* The number of a request's attempt is the next free one until its row is
\* written; then it is the last one and the row is RUNNING with its worker.
AttemptOK(r) ==
  /\ r.step \in {"spawn", "dispatch"} => Len(attempts[r.task]) = r.base + r.offset - 1
  /\ r.step \in {"wait", "terminate", "failed"} => Len(attempts[r.task]) = r.base + r.offset
  /\ r.step \in {"wait", "terminate"} =>
       /\ attempts[r.task][r.base + r.offset].pid = r.pid
       /\ attempts[r.task][r.base + r.offset].status = "RUNNING"

HistoryOK == \A h \in Handlers : AttemptOK(req[h])

\* What HistoryIsKept says of one step.
HistoryKept ==
  \A t \in TaskIds : \A n \in DOMAIN attempts[t] :
    /\ n \in DOMAIN attempts'[t]
    /\ attempts'[t][n].pid = attempts[t][n].pid
    /\ attempts[t][n].status # "RUNNING" => attempts'[t][n] = attempts[t][n]

LEMMA HistoryInit == Init => HistoryOK
  BY DEF Init, HistoryOK, AttemptOK, IdleRequest

\* Steps that write no row: the handler ends up outside an attempt, begins one,
\* or goes on within it.
LEMMA NoRowWritten ==
  ASSUME IInv, HistoryOK, NEW h \in Handlers, UNCHANGED attempts,
         \A g \in Handlers : g # h => req'[g] = req[g],
         AttemptOK(req[h])'
  PROVE  HistoryOK' /\ HistoryKept
<1>1. HistoryOK'
  BY DEF HistoryOK, AttemptOK
<1>2. HistoryKept
  BY DEF HistoryKept
<1> QED
  BY <1>1, <1>2

LEMMA OutsideAttempts ==
  ASSUME IInv, HistoryOK, NEW h \in Handlers,
         \/ Receive(h) \/ Fail(h) \/ StartRun(h) \/ StoreEvidence(h) \/ PlanAgents(h)
         \/ Recompute(h) \/ Invalidate(h) \/ Invalidated(h) \/ Load(h) \/ Reuse(h) \/ NextTask(h)
         \/ FinishDag(h) \/ Register(h) \/ Complete(h) \/ Exhaust(h) \/ Block(h) \/ Verdict(h)
         \/ Evaluate(h)
  PROVE  HistoryOK' /\ HistoryKept
<1> DEFINE within == {"spawn", "dispatch", "wait", "terminate", "failed"}
<1>0. req \in [Handlers -> Requests] /\ IdleRequest.step \notin within
  BY DEF IInv, Typed, RequestsTyped, IdleRequest
<1>1. UNCHANGED attempts /\ (\A g \in Handlers : g # h => req'[g] = req[g]) /\ req'[h].step \notin within
  <2>1. CASE Receive(h)
    <3>1. PICK r : Accept(h, r) /\ r.step \in {"start", "store_evidence", "plan", "register"}
      <4>1. CASE ReceiveCreate(h)
        <5>1. Accept(h, Request("create", "start"))
          BY <4>1 DEF ReceiveCreate
        <5>2. Request("create", "start").step = "start"
          BY DEF Request, IdleRequest
        <5> QED
          BY <5>1, <5>2
      <4>2. CASE ReceiveEvidence(h)
        <5>1. PICK e : Accept(h, [Request("evidence", "store_evidence") EXCEPT
                                    !.seen = {e}, !.kind = ChangedKind(e)])
          BY <4>2 DEF ReceiveEvidence
        <5>2. [Request("evidence", "store_evidence") EXCEPT
                 !.seen = {e}, !.kind = ChangedKind(e)].step = "store_evidence"
          BY DEF Request, IdleRequest
        <5> QED
          BY <5>1, <5>2
      <4>3. CASE ReceiveRecommendation(h)
        <5>1. Accept(h, Request("recommend", "plan"))
          BY <4>3 DEF ReceiveRecommendation
        <5>2. Request("recommend", "plan").step = "plan"
          BY DEF Request, IdleRequest
        <5> QED
          BY <5>1, <5>2
      <4>4. CASE ReceiveProbe(h)
        <5>1. PICK t, p : Accept(h, [Request("probe", "register") EXCEPT
                                       !.task = t, !.capability = p[1], !.modes = p[2]])
          BY <4>4 DEF ReceiveProbe
        <5>2. [Request("probe", "register") EXCEPT
                 !.task = t, !.capability = p[1], !.modes = p[2]].step = "register"
          BY DEF Request, IdleRequest
        <5> QED
          BY <5>1, <5>2
      <4> QED
        BY <2>1, <4>1, <4>2, <4>3, <4>4 DEF Receive
    <3> QED
      BY <1>0, <3>1 DEF Accept, rows
  <2>2. CASE Fail(h) \/ Block(h) \/ Verdict(h) \/ Evaluate(h)
    BY <1>0, <2>2 DEF Fail, Block, Verdict, Evaluate, Ended, rows
  <2>3. CASE StartRun(h) \/ StoreEvidence(h) \/ PlanAgents(h)
    BY <1>0, <2>3 DEF StartRun, StoreEvidence, PlanAgents, Ended, rows, Requests
  <2>4. CASE Recompute(h) \/ Invalidated(h) \/ Register(h) \/ Exhaust(h)
    BY <1>0, <2>4 DEF Recompute, Invalidated, Register, Exhaust, Goto, rows, Requests
  <2>5. CASE Invalidate(h) \/ Reuse(h)
    BY <1>0, <2>5 DEF Invalidate, Reuse, InDag, At, rows, Requests
  <2>6. CASE Load(h) \/ NextTask(h) \/ FinishDag(h)
    <3>1. CASE Load(h)
      BY <1>0, <3>1 DEF Load, rows, Requests
    <3>2. CASE NextTask(h)
      BY <1>0, <3>2 DEF NextTask, Ended, rows, Requests
    <3>3. CASE FinishDag(h)
      BY <1>0, <3>3 DEF FinishDag, Ended, rows, Requests
    <3> QED
      BY <2>6, <3>1, <3>2, <3>3
  <2>7. CASE Complete(h)
    BY <1>0, <2>7 DEF Complete, ReturnResult, Goto, Ended, Requests
  <2> QED
    BY <2>1, <2>2, <2>3, <2>4, <2>5, <2>6, <2>7
<1>2. AttemptOK(req[h])'
  BY <1>1 DEF AttemptOK
<1> QED
  BY <1>1, <1>2, NoRowWritten

LEMMA WithinAttempts ==
  ASSUME IInv, HistoryOK, NEW h \in Handlers, Number(h) \/ Spawn(h) \/ Expire(h) \/ Reassign(h)
  PROVE  HistoryOK' /\ HistoryKept
<1>1. req \in [Handlers -> Requests] /\ req[h] \in Requests
  BY RequestOK DEF IInv, Typed, RequestsTyped
<1>2. UNCHANGED attempts /\ \A g \in Handlers : g # h => req'[g] = req[g]
  BY <1>1 DEF Number, Spawn, Expire, Reassign, Goto, rows
<1>3. AttemptOK(req[h]) /\ req[h].base \in Nat /\ req[h].offset \in 0..1
  BY <1>1 DEF HistoryOK, Requests
<1>4. AttemptOK(req[h])'
  <2>1. CASE Number(h)
    <3>1. req[h].task \in TaskIds
      BY <2>1, RequestOK DEF Number, At, LoopOK, Executing
    <3>2. Len(attempts[req[h].task]) \in Nat
      BY <3>1 DEF IInv, Typed, AttemptsTyped
    <3>3. /\ req'[h].step = "spawn" /\ req'[h].task = req[h].task
          /\ req'[h].base = Len(attempts[req[h].task]) + 1 /\ req'[h].offset = 0
      BY <1>1, <2>1 DEF Number, NextAttempt, Requests
    <3> QED
      BY <1>2, <3>2, <3>3 DEF AttemptOK
  <2>2. CASE Spawn(h)
    <3>1. /\ req'[h].step = "dispatch" /\ req'[h].task = req[h].task
          /\ req'[h].base = req[h].base /\ req'[h].offset = req[h].offset /\ req[h].step = "spawn"
      BY <1>1, <2>2 DEF Spawn, At, Requests
    <3> QED
      BY <1>2, <1>3, <3>1 DEF AttemptOK
  <2>3. CASE Expire(h)
    <3>1. /\ req'[h].step = "terminate" /\ req'[h].task = req[h].task /\ req'[h].pid = req[h].pid
          /\ req'[h].base = req[h].base /\ req'[h].offset = req[h].offset /\ req[h].step = "wait"
      BY <1>1, <2>3 DEF Expire, Goto, At, Requests
    <3> QED
      BY <1>2, <1>3, <3>1 DEF AttemptOK
  <2>4. CASE Reassign(h)
    <3>1. /\ req'[h].step = "spawn" /\ req'[h].task = req[h].task
          /\ req'[h].base = req[h].base /\ req'[h].offset = 1 /\ req[h].offset = 0
          /\ req[h].step = "failed"
      BY <1>1, <2>4 DEF Reassign, HasNext, At, Requests
    <3> QED
      BY <1>2, <1>3, <3>1 DEF AttemptOK
  <2> QED
    BY <2>1, <2>2, <2>3, <2>4
<1> QED
  BY <1>2, <1>4, NoRowWritten

LEMMA UpsertShape ==
  ASSUME IInv, NEW h \in Handlers, NEW status \in {"RUNNING", "COMPLETED", "FAILED"},
         Holding(req[h]), UpsertAttempt(h, status)
  PROVE  \E new \in Seq(AttemptRows), row \in AttemptRows :
           /\ attempts' = [attempts EXCEPT ![req[h].task] = new]
           /\ row.pid = req[h].pid /\ row.status = status
           /\ new = IF req[h].base + req[h].offset \in DOMAIN attempts[req[h].task]
                    THEN [attempts[req[h].task] EXCEPT ![req[h].base + req[h].offset] = row]
                    ELSE Append(attempts[req[h].task], row)
<1> DEFINE t == req[h].task
           n == req[h].base + req[h].offset
           fresh == [pid |-> req[h].pid, status |-> status, instance |-> Pool(h)[req[h].offset + 1]]
           row == IF n \in DOMAIN attempts[t]
                  THEN [fresh EXCEPT !.instance = attempts[t][n].instance] ELSE fresh
           new == IF n \in DOMAIN attempts[t]
                  THEN [attempts[t] EXCEPT ![n] = row] ELSE Append(attempts[t], row)
<1>1. req[h] \in Requests
  BY RequestOK
<1>2. t \in TaskIds /\ req[h].pid \in Nat
  BY <1>1, RequestOK DEF Holding, LoopOK, Executing, Requests
<1>3. fresh \in AttemptRows
  <2>1. req[h].offset + 1 \in 1..2 /\ req[h].capability \in CapabilityNames
    BY <1>1 DEF Requests
  <2>2. Pool(h)[req[h].offset + 1] \in {Pools[c][i] : c \in CapabilityNames, i \in 1..2}
    BY <2>1 DEF Pool
  <2> QED
    BY <1>2, <2>2 DEF AttemptRows
<1>4. attempts[t] \in Seq(AttemptRows)
  BY <1>2 DEF IInv, Typed, AttemptsTyped
<1>5. fresh.pid = req[h].pid /\ fresh.status = status
  OBVIOUS
<1>6. attempts' = [attempts EXCEPT ![t] = new]
  BY DEF UpsertAttempt
<1> HIDE DEF t, n, fresh
<1>7. row \in AttemptRows /\ row.pid = req[h].pid /\ row.status = status
  <2>1. CASE n \in DOMAIN attempts[t]
    <3>1. attempts[t][n] \in AttemptRows
      BY <1>4, <2>1
    <3> QED
      BY <1>3, <1>5, <2>1, <3>1 DEF AttemptRows
  <2> QED
    BY <1>3, <1>5, <2>1
<1> HIDE DEF row
<1>8. new \in Seq(AttemptRows)
  BY <1>4, <1>7
<1> QED
  BY <1>6, <1>7, <1>8 DEF t, n

\* What is left to show of a new sequence of rows for the handler's task.
LEMMA RowWrittenKeeps ==
  ASSUME IInv, HistoryOK, TasksApart, NEW h \in Handlers, Executing(req[h]),
         req[h].task \in TaskIds,
         \A g \in Handlers : g # h => req'[g] = req[g],
         \A u \in TaskIds : u # req[h].task => attempts'[u] = attempts[u],
         AttemptOK(req[h])',
         \A m \in DOMAIN attempts[req[h].task] :
           /\ m \in DOMAIN attempts'[req[h].task]
           /\ attempts'[req[h].task][m].pid = attempts[req[h].task][m].pid
           /\ attempts[req[h].task][m].status # "RUNNING" =>
                attempts'[req[h].task][m] = attempts[req[h].task][m]
  PROVE  HistoryOK' /\ HistoryKept
<1>1. HistoryKept
  BY DEF HistoryKept
<1>2. ASSUME NEW g \in Handlers, g # h
      PROVE  AttemptOK(req[g])'
  <2>1. req'[g] = req[g] /\ AttemptOK(req[g])
    BY <1>2 DEF HistoryOK
  <2>2. Executing(req[g]) => req[g].task \in TaskIds /\ req[g].task # req[h].task
    BY <1>2, RequestOK DEF LoopOK, TasksApart
  <2>3. Executing(req[g]) => attempts'[req[g].task] = attempts[req[g].task]
    BY <2>2
  <2> QED
    BY <2>1, <2>3 DEF AttemptOK, Executing
<1>3. HistoryOK'
  BY <1>2 DEF HistoryOK, AttemptOK
<1> QED
  BY <1>1, <1>3

\* A row is written: the next one, or the handler's own RUNNING one again.
LEMMA RowWritten ==
  ASSUME IInv, HistoryOK, TasksApart, NEW h \in Handlers,
         Dispatch(h) \/ RecordExpiry(h) \/ RecordExit(h) \/ RecordAnswer(h)
  PROVE  HistoryOK' /\ HistoryKept
<1> DEFINE t == req[h].task
           n == req[h].base + req[h].offset
           p == req[h].pid
<1>1. PICK s \in {"wait", "failed", "complete"}, status \in {"RUNNING", "COMPLETED", "FAILED"} :
        /\ Goto(h, s) /\ UpsertAttempt(h, status)
        /\ At(h, "dispatch") => s = "wait" /\ status = "RUNNING"
        /\ ~At(h, "dispatch") => At(h, "wait") \/ At(h, "terminate")
        /\ ~At(h, "dispatch") => s # "wait"
  BY DEF Dispatch, RecordExpiry, RecordExit, RecordAnswer, At
<1>2. req \in [Handlers -> Requests] /\ req[h] \in Requests /\ Executing(req[h]) /\ t \in TaskIds
  BY <1>1, RequestOK DEF IInv, Typed, RequestsTyped, At, Executing, LoopOK
<1>3. /\ \A g \in Handlers : g # h => req'[g] = req[g]
      /\ req'[h].step = s /\ req'[h].task = t /\ req'[h].pid = p
      /\ req'[h].base = req[h].base /\ req'[h].offset = req[h].offset
  BY <1>1, <1>2 DEF Goto, Requests
<1>4. attempts \in [TaskIds -> Seq(AttemptRows)] /\ attempts[t] \in Seq(AttemptRows)
  BY <1>2 DEF IInv, Typed, AttemptsTyped
<1>5. n \in Nat \ {0}
  BY <1>2 DEF Requests
<1>6. /\ At(h, "dispatch") => Len(attempts[t]) = n - 1
      /\ ~At(h, "dispatch") =>
           Len(attempts[t]) = n /\ attempts[t][n].pid = p /\ attempts[t][n].status = "RUNNING"
  <2>1. AttemptOK(req[h])
    BY DEF HistoryOK
  <2>2. At(h, "dispatch") => req[h].step \in {"spawn", "dispatch"}
    BY DEF At
  <2>3. ~At(h, "dispatch") =>
          req[h].step \in {"wait", "terminate", "failed"} /\ req[h].step \in {"wait", "terminate"}
    BY <1>1 DEF At
  <2>4. req[h].step \in {"spawn", "dispatch"} => Len(attempts[t]) = n - 1
    <3>1. req[h].base \in Nat /\ req[h].offset \in Nat
      BY <1>2 DEF Requests
    <3> QED
      BY <2>1, <3>1 DEF AttemptOK
  <2>5. /\ req[h].step \in {"wait", "terminate", "failed"} => Len(attempts[t]) = n
        /\ req[h].step \in {"wait", "terminate"} =>
             attempts[t][n].pid = p /\ attempts[t][n].status = "RUNNING"
    BY <2>1 DEF AttemptOK
  <2> QED
    BY <2>2, <2>3, <2>4, <2>5
<1>7. PICK new \in Seq(AttemptRows), row \in AttemptRows :
        /\ attempts' = [attempts EXCEPT ![t] = new]
        /\ row.pid = p /\ row.status = status
        /\ new = IF n \in DOMAIN attempts[t] THEN [attempts[t] EXCEPT ![n] = row]
                 ELSE Append(attempts[t], row)
  BY <1>1, <1>2, UpsertShape DEF Holding, At
<1>8. \A u \in TaskIds : u # t => attempts'[u] = attempts[u]
  BY <1>4, <1>7
<1>9. attempts'[t] = new
  BY <1>2, <1>4, <1>7
<1> DEFINE old == attempts[t]
<1> HIDE DEF old, t, n, p
<1>10. Len(old) \in Nat /\ DOMAIN old = 1..Len(old)
  BY <1>4 DEF old
<1>11. CASE At(h, "dispatch")
  <2>1. Len(old) = n - 1
    BY <1>6, <1>11 DEF old
  <2>2. n \notin DOMAIN old
    BY <1>5, <1>10, <2>1
  <2>3. new = Append(old, row)
    BY <1>7, <2>2 DEF old
  <2>4. Len(new) = n /\ new[n] = row /\ DOMAIN new = 1..n /\ \A m \in DOMAIN old : new[m] = old[m]
    BY <1>4, <1>5, <1>7, <1>10, <2>1, <2>3 DEF old
  <2>5. DOMAIN old \subseteq DOMAIN new
    BY <1>5, <1>10, <2>1, <2>4
  <2>6. AttemptOK(req[h])'
    <3>1. /\ req'[h].step = "wait" /\ req'[h].base + req'[h].offset = n
          /\ attempts'[req'[h].task] = new /\ req'[h].pid = p
      BY <1>1, <1>3, <1>9, <1>11 DEF n
    <3> QED
      BY <1>1, <1>7, <1>11, <2>4, <3>1 DEF AttemptOK
  <2> QED
    BY <1>2, <1>3, <1>8, <1>9, <2>4, <2>5, <2>6, RowWrittenKeeps DEF old, t
<1>12. CASE ~At(h, "dispatch")
  <2>1. Len(old) = n /\ old[n].pid = p /\ old[n].status = "RUNNING"
    BY <1>6, <1>12 DEF old
  <2>2. n \in DOMAIN old
    BY <1>5, <1>10, <2>1
  <2>3. new = [old EXCEPT ![n] = row]
    BY <1>7, <2>2 DEF old
  <2>4. Len(new) = n /\ DOMAIN new = DOMAIN old /\ new[n] = row
        /\ \A m \in DOMAIN old : m # n => new[m] = old[m]
    BY <1>4, <1>7, <1>10, <2>1, <2>2, <2>3 DEF old
  <2>5. AttemptOK(req[h])'
    <3>1. /\ req'[h].step \in {"failed", "complete"} /\ req'[h].base + req'[h].offset = n
          /\ attempts'[req'[h].task] = new
      BY <1>1, <1>3, <1>9, <1>12 DEF n
    <3> QED
      BY <2>4, <3>1 DEF AttemptOK
  <2>6. \A m \in DOMAIN old :
          /\ m \in DOMAIN new /\ new[m].pid = old[m].pid
          /\ old[m].status # "RUNNING" => new[m] = old[m]
    BY <1>7, <2>1, <2>4
  <2> QED
    BY <1>2, <1>3, <1>8, <1>9, <2>5, <2>6, RowWrittenKeeps DEF old, t
<1> QED
  BY <1>11, <1>12

LEMMA HistoryStep ==
  ASSUME IInv, HistoryOK, TasksApart, [Next]_vars
  PROVE  HistoryOK' /\ HistoryKept
<1>1. ASSUME NEW h \in Handlers, Receive(h) \/ Advance(h) \/ Expire(h) \/ Fail(h)
      PROVE  HistoryOK' /\ HistoryKept
  BY <1>1, OutsideAttempts, WithinAttempts, RowWritten DEF Advance
<1>2. ASSUME UNCHANGED <<attempts, req>>
      PROVE  HistoryOK' /\ HistoryKept
  BY <1>2 DEF HistoryOK, HistoryKept, AttemptOK
<1>3. ASSUME NEW p \in DOMAIN workers, WorkerStep(p)
      PROVE  UNCHANGED <<attempts, req>>
  BY <1>3 DEF WorkerStep, WorkerAnswers, WorkerCrashes, WorkerTerminated, rows
<1> QED
  BY <1>1, <1>2, <1>3 DEF Next, vars

\* While no two handlers execute the same task, an attempt that ended is never
\* rewritten and a running one stays the same worker's.
THEOREM HistoryKeptApart == Spec /\ []TasksApart => HistoryIsKept
<1>1. Init => HistoryOK
  BY HistoryInit
<1>2. IInv /\ HistoryOK /\ TasksApart /\ [Next]_vars => HistoryOK' /\ HistoryKept
  BY HistoryStep
<1>3. HistoryKept => (\A t \in TaskIds : \A n \in DOMAIN attempts[t] :
         /\ n \in DOMAIN attempts'[t]
         /\ attempts'[t][n].pid = attempts[t][n].pid
         /\ attempts[t][n].status # "RUNNING" => attempts'[t][n] = attempts[t][n])
  BY DEF HistoryKept
<1> QED
  BY <1>1, <1>2, <1>3, InductiveInvariant, PTL DEF Spec, HistoryIsKept

\* One handler at a time keeps the history: requests that follow each other
\* number their attempts after all earlier ones, whatever failed before.
THEOREM SerialHistoryIsKept ==
  ASSUME \A g, h \in Handlers : g = h
  PROVE  Spec => HistoryIsKept
<1>1. TasksApart
  BY DEF TasksApart
<1>2. []TasksApart
  BY <1>1, PTL
<1> QED
  BY <1>2, HistoryKeptApart, PTL

-----------------------------------------------------------------------------
(***************************************************************************)
(* What evidence invalidates.                                              *)
(***************************************************************************)
LEMMA AffectedMembers ==
  ASSUME NEW dag, NEW kind, NEW t
  PROVE  t \in Affected(dag, kind) <=>
           /\ t \in PlannedTasks(dag)
           /\ \A s \in SUBSET PlannedTasks(dag) : Closed(dag, kind, s) => t \in s
<1> DEFINE planned == PlannedTasks(dag)
           closed == {s \in SUBSET planned : Closed(dag, kind, s)}
           spared == {planned \ s : s \in closed}
<1>1. Affected(dag, kind) = planned \ UNION spared
  BY DEF Affected
<1> HIDE DEF planned
<1>2. t \in UNION spared <=> \E s \in closed : t \in planned \ s
  OBVIOUS
<1> QED
  BY <1>1, <1>2 DEF planned

\* The set is closed: what depends on an affected task is affected.
LEMMA AffectedIsClosed ==
  ASSUME NEW dag, NEW kind, NEW i \in DOMAIN dag, NEW d \in dag[i].depends_on,
         d \in Affected(dag, kind)
  PROVE  dag[i].task \in Affected(dag, kind)
<1>1. dag[i].task \in PlannedTasks(dag)
  BY DEF PlannedTasks
<1>2. ASSUME NEW s \in SUBSET PlannedTasks(dag), Closed(dag, kind, s)
      PROVE  dag[i].task \in s
  <2>1. d \in s
    BY <1>2, AffectedMembers
  <2> QED
    BY <1>2, <2>1 DEF Closed
<1> QED
  BY <1>1, <1>2, AffectedMembers

\* The edges that a plan may have.
LEMMA PlanEdges ==
  ASSUME NEW e \in SUBSET Evidence, NEW i \in DOMAIN Plans[e], NEW d \in Plans[e][i].depends_on
  PROVE  /\ Plans[e][i].agent # "incident_commander"
         /\ d[2] = "release_auditor" => Plans[e][i].agent = "skill_curator"
         /\ d[2] # "skill_curator"
<1> DEFINE c == Recommend(Scenario, e)
<1>1. Plans[e] = Compile(c)
  BY DEF Plans, Plan
<1>2. i \in DOMAIN c
  BY <1>1 DEF Compile
<1>3. /\ Plans[e][i].agent = c[i].agent
      /\ Plans[e][i].depends_on =
           {<<j, c[j].agent>> : j \in {k \in 1..i-1 : c[k].agent \in c[i].depends_on}}
  BY <1>1, <1>2 DEF Compile
<1>4. d[2] \in c[i].depends_on
  BY <1>3
<1>5. c \in Seq(Items)
  BY RecommendShape DEF Composition
<1> HIDE DEF c
<1>6. c[i] \in Items
  BY <1>2, <1>5
<1> QED
  BY <1>3, <1>4, <1>6 DEF Items

\* A set of agents that contains the impacted ones and every agent with an edge
\* from one of them bounds what is affected.
LEMMA AffectedWithin ==
  ASSUME NEW e \in SUBSET Evidence, NEW kind, NEW G, ImpactAgents(kind) \subseteq G,
         \A i \in DOMAIN Plans[e] : \A d \in Plans[e][i].depends_on :
           d[2] \in G => Plans[e][i].agent \in G,
         NEW t \in Affected(Plans[e], kind)
  PROVE  t[2] \in G
<1> DEFINE dag == Plans[e]
           s == {dag[i].task : i \in {j \in DOMAIN dag : dag[j].agent \in G}}
<1>1. \A i \in DOMAIN dag : dag[i].task = <<i, dag[i].agent>>
  BY PlanShape
<1>2. \A u \in s : u[2] \in G
  BY <1>1
<1>3. s \in SUBSET PlannedTasks(dag)
  BY DEF PlannedTasks
<1>4. Closed(dag, kind, s)
  <2> SUFFICES ASSUME NEW i \in DOMAIN dag,
                      dag[i].agent \in ImpactAgents(kind) \/ dag[i].depends_on \cap s # {}
               PROVE  dag[i].agent \in G
    BY DEF Closed
  <2>1. CASE dag[i].depends_on \cap s # {}
    BY <1>2, <2>1
  <2> QED
    BY <2>1
<1> HIDE DEF s
<1>5. t \in s
  BY <1>3, <1>4, AffectedMembers
<1> QED
  BY <1>2, <1>5

\* What InvalidatesOnlyTheClosure allows evidence of a kind to invalidate.
Allowed(kind, t) ==
  CASE kind = "policy" -> t[2] \in {"release_auditor", "skill_curator"}
    [] kind \in {"unknown", "topology"} -> t[2] = "skill_curator"
    [] OTHER -> t[2] # "incident_commander"

LEMMA AffectedIsAllowed ==
  ASSUME NEW e \in SUBSET Evidence, NEW kind, NEW t \in Affected(Plans[e], kind)
  PROVE  Allowed(kind, t)
<1>1. CASE kind = "policy"
  <2>1. ImpactAgents(kind) \subseteq {"release_auditor", "skill_curator"}
    BY <1>1 DEF ImpactAgents
  <2>2. t[2] \in {"release_auditor", "skill_curator"}
    BY <2>1, PlanEdges, AffectedWithin
  <2> QED
    BY <1>1, <2>2 DEF Allowed
<1>2. CASE kind \in {"unknown", "topology"}
  <2>1. ImpactAgents(kind) \subseteq {"skill_curator"}
    BY <1>2 DEF ImpactAgents, Absent
  <2>2. t[2] \in {"skill_curator"}
    BY <2>1, PlanEdges, AffectedWithin
  <2> QED
    BY <1>2, <2>2 DEF Allowed
<1>3. CASE kind \notin {"policy", "unknown", "topology"}
  <2> DEFINE G == Agents \ {"incident_commander"}
  <2>1. ImpactAgents(kind) \subseteq G
    BY <1>3, AgentNames DEF ImpactAgents, CausalAgents
  <2>2. \A i \in DOMAIN Plans[e] : \A d \in Plans[e][i].depends_on : Plans[e][i].agent \in G
    BY PlanEdges, PlanPlaces
  <2> HIDE DEF G
  <2>3. t[2] \in G
    BY <2>1, <2>2, AffectedWithin
  <2> QED
    BY <1>3, <2>3 DEF Allowed, G
<1> QED
  BY <1>1, <1>2, <1>3

\* The rows a recompute is about to invalidate are affected by its evidence.
RecomputeOK(r) == r.step = "invalidate" => r.todo \subseteq Affected(Plans[r.seen], r.kind)

ClosureOK == \A h \in Handlers : RecomputeOK(req[h])

\* What InvalidatesOnlyTheClosure says of one step.
OnlyTheClosure ==
  \A t \in TaskIds : (tasks[t].status = "COMPLETED" /\ tasks'[t].status = "INVALIDATED") =>
    \E h \in Handlers : At(h, "invalidate") /\ Allowed(req[h].kind, t)

LEMMA ClosureInit == Init => ClosureOK
  BY DEF Init, ClosureOK, RecomputeOK, IdleRequest

\* Only a recompute comes to invalidating, and only there rows are invalidated.
LEMMA NoInvalidation ==
  ASSUME IInv, NEW h \in Handlers,
         \/ Receive(h) \/ Fail(h) \/ Expire(h) \/ StartRun(h) \/ StoreEvidence(h) \/ PlanAgents(h)
         \/ Invalidated(h) \/ Load(h) \/ Reuse(h) \/ NextTask(h) \/ FinishDag(h) \/ Register(h)
         \/ Number(h) \/ Spawn(h) \/ Dispatch(h) \/ RecordExpiry(h) \/ RecordExit(h)
         \/ RecordAnswer(h) \/ Complete(h) \/ Reassign(h) \/ Exhaust(h) \/ Block(h) \/ Verdict(h)
         \/ Evaluate(h)
  PROVE  /\ \A g \in Handlers : g # h => req'[g] = req[g]
         /\ req'[h].step # "invalidate"
         /\ \A t \in TaskIds : tasks'[t].status = "INVALIDATED" => tasks[t].status = "INVALIDATED"
<1>0. req \in [Handlers -> Requests] /\ tasks \in [TaskIds -> Rows] /\ IdleRequest.step = "idle"
  BY DEF IInv, Typed, RequestsTyped, TasksTyped, IdleRequest
<1>1. CASE Receive(h)
  <2>1. PICK r : Accept(h, r) /\ r.step # "invalidate"
    <3>1. CASE ReceiveCreate(h)
      <4>1. Accept(h, Request("create", "start")) /\ Request("create", "start").step = "start"
        BY <3>1 DEF ReceiveCreate, Request, IdleRequest
      <4> QED
        BY <4>1
    <3>2. CASE ReceiveEvidence(h)
      <4>1. PICK e : Accept(h, [Request("evidence", "store_evidence") EXCEPT
                                  !.seen = {e}, !.kind = ChangedKind(e)])
        BY <3>2 DEF ReceiveEvidence
      <4>2. [Request("evidence", "store_evidence") EXCEPT
               !.seen = {e}, !.kind = ChangedKind(e)].step = "store_evidence"
        BY DEF Request, IdleRequest
      <4> QED
        BY <4>1, <4>2
    <3>3. CASE ReceiveRecommendation(h)
      <4>1. Accept(h, Request("recommend", "plan")) /\ Request("recommend", "plan").step = "plan"
        BY <3>3 DEF ReceiveRecommendation, Request, IdleRequest
      <4> QED
        BY <4>1
    <3>4. CASE ReceiveProbe(h)
      <4>1. PICK t, p : Accept(h, [Request("probe", "register") EXCEPT
                                     !.task = t, !.capability = p[1], !.modes = p[2]])
        BY <3>4 DEF ReceiveProbe
      <4>2. [Request("probe", "register") EXCEPT
               !.task = t, !.capability = p[1], !.modes = p[2]].step = "register"
        BY DEF Request, IdleRequest
      <4> QED
        BY <4>1, <4>2
    <3> QED
      BY <1>1, <3>1, <3>2, <3>3, <3>4 DEF Receive
  <2> QED
    BY <1>0, <2>1 DEF Accept, rows
<1>2. CASE Fail(h) \/ Block(h) \/ Verdict(h) \/ Evaluate(h)
  BY <1>0, <1>2 DEF Fail, Block, Verdict, Evaluate, Ended, rows
<1>3. CASE StartRun(h) \/ StoreEvidence(h) \/ PlanAgents(h)
  BY <1>0, <1>3 DEF StartRun, StoreEvidence, PlanAgents, Ended, rows, Requests
<1>4. CASE Invalidated(h) \/ Dispatch(h) \/ RecordExpiry(h) \/ RecordExit(h) \/ RecordAnswer(h)
  BY <1>0, <1>4 DEF Invalidated, Dispatch, RecordExpiry, RecordExit, RecordAnswer, Goto, rows, Requests
<1>5. CASE Reuse(h) \/ Load(h) \/ NextTask(h) \/ FinishDag(h)
  <2>1. CASE Reuse(h)
    BY <1>0, <2>1 DEF Reuse, InDag, At, rows, Requests
  <2>2. CASE Load(h)
    BY <1>0, <2>2 DEF Load, rows, Requests
  <2>3. CASE NextTask(h)
    BY <1>0, <2>3 DEF NextTask, Ended, rows, Requests
  <2>4. CASE FinishDag(h)
    BY <1>0, <2>4 DEF FinishDag, Ended, rows, Requests
  <2> QED
    BY <1>5, <2>1, <2>2, <2>3, <2>4
<1>6. CASE Number(h) \/ Spawn(h) \/ Reassign(h) \/ Expire(h)
  BY <1>0, <1>6 DEF Number, Spawn, Reassign, Expire, Goto, rows, Requests
<1>7. CASE Register(h) \/ Exhaust(h)
  <2>1. CASE Register(h)
    BY <1>0, <2>1 DEF Register, Goto, Rows, Requests
  <2>2. CASE Exhaust(h)
    BY <1>0, <2>2 DEF Exhaust, UpdateTask, Goto, Rows, Requests
  <2> QED
    BY <1>7, <2>1, <2>2
<1>8. CASE Complete(h)
  <2>1. \A t \in TaskIds : tasks'[t].status = "INVALIDATED" => tasks[t].status = "INVALIDATED"
    BY <1>0, <1>8 DEF Complete, UpdateTask
  <2>2. (\A g \in Handlers : g # h => req'[g] = req[g]) /\ req'[h].step # "invalidate"
    BY <1>0, <1>8 DEF Complete, ReturnResult, Goto, Ended, Requests
  <2> QED
    BY <2>1, <2>2
<1> QED
  BY <1>1, <1>2, <1>3, <1>4, <1>5, <1>6, <1>7, <1>8

LEMMA ClosureStep ==
  ASSUME IInv, ClosureOK, [Next]_vars
  PROVE  ClosureOK' /\ OnlyTheClosure
<1>1. ASSUME NEW h \in Handlers, RecomputeOK(req[h])',
             \A g \in Handlers : g # h => req'[g] = req[g]
      PROVE  ClosureOK'
  BY <1>1 DEF ClosureOK, RecomputeOK
<1>2. ASSUME NEW h \in Handlers, Recompute(h)
      PROVE  ClosureOK' /\ OnlyTheClosure
  <2> DEFINE todo(dag) == {t \in Affected(dag, req[h].kind) : tasks[t].status = "COMPLETED"}
  <2>1. req' = [req EXCEPT ![h].todo = todo(Dag(h)), ![h].step = "invalidate"]
    BY <1>2 DEF Recompute
  <2>2. todo(Dag(h)) \subseteq Affected(Plans[req[h].seen], req[h].kind)
    BY DEF Dag
  <2> HIDE DEF todo
  <2>3. /\ \A g \in Handlers : g # h => req'[g] = req[g]
        /\ req'[h].todo = todo(Dag(h)) /\ req'[h].seen = req[h].seen /\ req'[h].kind = req[h].kind
    BY <2>1 DEF IInv, Typed, RequestsTyped, Requests
  <2>4. RecomputeOK(req[h])'
    BY <2>2, <2>3 DEF RecomputeOK
  <2>5. OnlyTheClosure
    BY <1>2 DEF OnlyTheClosure, Recompute, rows
  <2> QED
    BY <1>1, <2>3, <2>4, <2>5
<1>3. ASSUME NEW h \in Handlers, Invalidate(h)
      PROVE  ClosureOK' /\ OnlyTheClosure
  <2>1. PICK t \in req[h].todo :
          UpdateTask(t, "INVALIDATED", 0) /\ req' = [req EXCEPT ![h].todo = @ \ {t}]
    BY <1>3 DEF Invalidate
  <2>2. req[h].step = "invalidate" /\ RecomputeOK(req[h]) /\ req[h].seen \in SUBSET Evidence
    BY <1>3, RequestOK DEF Invalidate, At, ClosureOK, Requests
  <2>3. /\ \A g \in Handlers : g # h => req'[g] = req[g]
        /\ req'[h].todo = req[h].todo \ {t} /\ req'[h].seen = req[h].seen
        /\ req'[h].kind = req[h].kind
    BY <2>1 DEF IInv, Typed, RequestsTyped, Requests
  <2>4. RecomputeOK(req[h])'
    BY <2>2, <2>3 DEF RecomputeOK
  <2>5. Allowed(req[h].kind, t)
    BY <2>2, AffectedIsAllowed DEF RecomputeOK
  <2>6. \A u \in TaskIds : u # t => tasks'[u] = tasks[u]
    BY <2>1 DEF UpdateTask, IInv, Typed, TasksTyped
  <2>7. OnlyTheClosure
    BY <2>2, <2>5, <2>6 DEF OnlyTheClosure, At
  <2> QED
    BY <1>1, <2>3, <2>4, <2>7
<1>4. ASSUME NEW h \in Handlers, Receive(h) \/ Advance(h) \/ Expire(h) \/ Fail(h)
      PROVE  ClosureOK' /\ OnlyTheClosure
  <2>1. CASE Recompute(h) \/ Invalidate(h)
    BY <1>2, <1>3, <2>1
  <2>2. CASE ~(Recompute(h) \/ Invalidate(h))
    <3>1. /\ \A g \in Handlers : g # h => req'[g] = req[g]
          /\ req'[h].step # "invalidate"
          /\ \A t \in TaskIds : tasks'[t].status = "INVALIDATED" => tasks[t].status = "INVALIDATED"
      BY <1>4, <2>2, NoInvalidation DEF Advance
    <3>2. RecomputeOK(req[h])'
      BY <3>1 DEF RecomputeOK
    <3>3. OnlyTheClosure
      BY <3>1 DEF OnlyTheClosure
    <3> QED
      BY <1>1, <3>1, <3>2, <3>3
  <2> QED
    BY <2>1, <2>2
<1>5. ASSUME UNCHANGED <<tasks, req>>
      PROVE  ClosureOK' /\ OnlyTheClosure
  BY <1>5 DEF ClosureOK, RecomputeOK, OnlyTheClosure
<1>6. ASSUME NEW p \in DOMAIN workers, WorkerStep(p)
      PROVE  UNCHANGED <<tasks, req>>
  BY <1>6 DEF WorkerStep, WorkerAnswers, WorkerCrashes, WorkerTerminated, rows
<1> QED
  BY <1>4, <1>5, <1>6 DEF Next, vars

\* Evidence invalidates only conclusions that depend on what it is about, in
\* every plan the recommender may choose and however many handlers recompute.
THEOREM ClosureIsAllItInvalidates == Spec => InvalidatesOnlyTheClosure
<1>1. Init => ClosureOK
  BY ClosureInit
<1>2. IInv /\ ClosureOK /\ [Next]_vars => ClosureOK' /\ OnlyTheClosure
  BY ClosureStep
<1>3. OnlyTheClosure => (\A t \in TaskIds : (tasks[t].status = "COMPLETED" /\ tasks'[t].status = "INVALIDATED") =>
       \E h \in Handlers :
         /\ At(h, "invalidate")
         /\ CASE req[h].kind = "policy" -> t[2] \in {"release_auditor", "skill_curator"}
              [] req[h].kind \in {"unknown", "topology"} -> t[2] = "skill_curator"
              [] OTHER -> t[2] # "incident_commander")
  BY DEF OnlyTheClosure, Allowed
<1> QED
  BY <1>1, <1>2, <1>3, InductiveInvariant, PTL DEF Spec, InvalidatesOnlyTheClosure

-----------------------------------------------------------------------------
(***************************************************************************)
(* One request at a time and no store failure: completed results rest on   *)
(* what their dependencies have now.  (Two requests may interleave their   *)
(* rows, and a request that dies among its invalidations leaves conclusions*)
(* without their premises.)  Evidence may extend the plan, as long as it   *)
(* neither puts an agent in its middle nor, by a conflict the scenario     *)
(* does not have, takes agents out of it.                                  *)
(***************************************************************************)
OneAtATime == (\A g, h \in Handlers : g = h) /\ ~MayFail

StablePlan ==
  /\ Scenario.conflict \/ \A p \in Evidence : ~p.conflict
  /\ Scenario.hypotheses \/ Scenario.signals # {}

LEMMA CoreIsStable ==
  ASSUME StablePlan, NEW e \in SUBSET Evidence, NEW f \in SUBSET Evidence, e \subseteq f
  PROVE  CoreOf(e) = CoreOf(f) /\ (Uncovered(Scenario, e) => Uncovered(Scenario, f))
<1>1. HasEvidenceConflict(Scenario, e) <=> HasEvidenceConflict(Scenario, f)
  BY DEF StablePlan, HasEvidenceConflict
<1>2. Signals(Scenario, e) \subseteq Signals(Scenario, f)
  BY DEF Signals
<1>3. Observed(Scenario, e) /\ Observed(Scenario, f)
  <2>1. Scenario.signals \subseteq Signals(Scenario, e)
    BY DEF Signals
  <2> QED
    BY <1>2, <2>1 DEF StablePlan, Observed
<1>4. CoreOf(e) = CoreOf(f)
  <2>1. HasEvidenceConflict(Scenario, e) = HasEvidenceConflict(Scenario, f)
    BY <1>1 DEF HasEvidenceConflict
  <2>2. Observed(Scenario, e) = Observed(Scenario, f)
    BY <1>3 DEF Observed
  <2> QED
    BY <2>1, <2>2 DEF CoreOf
<1> QED
  BY <1>1, <1>2, <1>4 DEF Uncovered

\* What a plan has at a place, the plan for more evidence has there too.
LEMMA PlanGrows ==
  ASSUME StablePlan, NEW e \in SUBSET Evidence, NEW f \in SUBSET Evidence, e \subseteq f,
         NEW i \in DOMAIN Plans[e]
  PROVE  i \in DOMAIN Plans[f] /\ Plans[f][i] = Plans[e][i]
<1> DEFINE core == CoreOf(e)
           curator == [agent |-> "skill_curator", depends_on |-> {Previous(core)}]
           c == Recommend(Scenario, e)
           d == Recommend(Scenario, f)
<1>1. core \in Seq(Items)
  BY CoreShape DEF CoreOf, Composition
<1>2. /\ c = IF Uncovered(Scenario, e) THEN Append(core, curator) ELSE core
      /\ d = IF Uncovered(Scenario, f) THEN Append(core, curator) ELSE core
  BY CoreIsStable, RecommendShape DEF Add
<1>3. c \in Seq(Items) /\ d \in Seq(Items)
  BY RecommendShape DEF Composition
<1>4. Plans[e] = Compile(c) /\ Plans[f] = Compile(d)
  BY DEF Plans, Plan
<1>5. Uncovered(Scenario, e) => Uncovered(Scenario, f)
  BY CoreIsStable
<1> HIDE DEF core, curator, c, d
<1>6. \A k \in DOMAIN c : k \in DOMAIN d /\ d[k] = c[k]
  <2>1. CASE c = d
    BY <2>1
  <2>2. CASE c # d
    <3>1. c = core /\ d = Append(core, curator)
      BY <1>2, <1>5, <2>2
    <3>2. Len(core) \in Nat /\ DOMAIN core = 1..Len(core) /\ DOMAIN d = 1..(Len(core) + 1)
          /\ \A k \in 1..Len(core) : d[k] = core[k]
      BY <1>1, <3>1
    <3> QED
      BY <3>1, <3>2
  <2> QED
    BY <2>1, <2>2
<1>7. i \in DOMAIN c /\ i \in Nat /\ 1..i \subseteq DOMAIN c
  BY <1>4, PlanPlaces DEF Compile
<1>8. i \in DOMAIN Plans[f]
  BY <1>4, <1>6, <1>7 DEF Compile
<1>9. {<<j, c[j].agent>> : j \in {k \in 1..i-1 : c[k].agent \in c[i].depends_on}}
        = {<<j, d[j].agent>> : j \in {k \in 1..i-1 : d[k].agent \in d[i].depends_on}}
  <2>1. \A k \in 1..i-1 : c[k] = d[k]
    BY <1>6, <1>7
  <2>2. c[i] = d[i]
    BY <1>6, <1>7
  <2> QED
    BY <2>1, <2>2
<1>10. Plans[e][i] = [ task |-> <<i, c[i].agent>>, agent |-> c[i].agent,
         depends_on |-> {<<j, c[j].agent>> : j \in {k \in 1..i-1 : c[k].agent \in c[i].depends_on}} ]
  BY <1>4, <1>7 DEF Compile
<1>11. Plans[f][i] = [ task |-> <<i, d[i].agent>>, agent |-> d[i].agent,
         depends_on |-> {<<j, d[j].agent>> : j \in {k \in 1..i-1 : d[k].agent \in d[i].depends_on}} ]
  BY <1>4, <1>6, <1>7 DEF Compile
<1> QED
  BY <1>6, <1>7, <1>8, <1>9, <1>10, <1>11

Completed(t) == tasks[t].status = "COMPLETED"

\* What worker p was given is what its dependencies have.
InputsCurrent(p) ==
  \A d \in DOMAIN workers[p].upstream :
    Completed(d) /\ tasks[d].result = workers[p].upstream[d]

\* t depends on d in a plan the run may have had.
Edge(t, d) ==
  \E e \in SUBSET evidence : \E i \in DOMAIN Plans[e] :
    t = Plans[e][i].task /\ d \in Plans[e][i].depends_on

UpstreamOK ==
  \A p \in DOMAIN workers : \A d \in DOMAIN workers[p].upstream : Edge(workers[p].task, d)

\* A COMPLETED task has its inputs, or lost one and is about to be invalidated.
PremisesOK ==
  \A t \in TaskIds : Completed(t) =>
    \A d \in DOMAIN workers[tasks[t].result].upstream :
      \/ Completed(d) /\ tasks[d].result = workers[tasks[t].result].upstream[d]
      \/ ~Completed(d) /\ \E h \in Handlers : req[h].step = "invalidate" /\ t \in req[h].todo

\* A request plans with evidence the run has; a recompute leaves no affected row out.
PlannedOK(r) ==
  /\ r.step # "store_evidence" => r.seen \subseteq evidence
  /\ r.step \in {"recompute", "invalidate"} => r.seen = evidence
  /\ r.step = "invalidate" =>
       \A t \in Affected(Plans[r.seen], r.kind) : Completed(t) => t \in r.todo
  /\ r.request = "probe" => Executing(r) /\ r.task \in ProbeTasks

Looping(r) == r.step = "next" \/ (DagTask(r) /\ r.step # "block")

\* The loop's results are those of the rows, which were reused or computed by it,
\* and the task it executes is not COMPLETED yet.
ResultsOK(r) ==
  /\ Holding(r) => InputsCurrent(r.pid)
  /\ Looping(r) =>
       /\ \A t \in DOMAIN r.results : Completed(t) /\ tasks[t].result = r.results[t]
       /\ \A t \in TaskIds : Completed(t) =>
            t \in r.done \/ \E j \in DOMAIN Plans[r.seen] : j < r.cursor /\ t = Plans[r.seen][j].task
  /\ DagTask(r) /\ r.step # "block" => ~Completed(r.task)

SerialOK == \A h \in Handlers : PlannedOK(req[h]) /\ ResultsOK(req[h])

\* The inductive invariant of serial requests, next to IInv and ClosureOK.
SInv == UpstreamOK /\ PremisesOK /\ SerialOK

LEMMA UpstreamTasks ==
  ASSUME IInv, NEW p \in DOMAIN workers
  PROVE  DOMAIN workers[p].upstream \subseteq TaskIds
<1>1. workers \in Seq(WorkerRows)
  BY DEF IInv, Typed, WorkersTyped
<1>2. workers[p].upstream \in ResultMaps
  <2>1. workers[p] \in WorkerRows
    BY <1>1
  <2> QED
    BY <2>1 DEF WorkerRows
<1>3. PICK S \in SUBSET TaskIds : workers[p].upstream \in [S -> Nat]
  BY <1>2 DEF ResultMaps
<1> QED
  BY <1>3

LEMMA ResultTasks ==
  ASSUME NEW q \in Requests
  PROVE  DOMAIN q.results \subseteq TaskIds
<1>1. PICK S \in SUBSET TaskIds : q.results \in [S -> Nat]
  BY DEF Requests, ResultMaps
<1> QED
  BY <1>1

\* Edges lead from a task to an earlier one of the plan, and stay.
LEMMA EdgeFacts ==
  ASSUME StablePlan, evidence \subseteq Evidence, NEW t, NEW d, Edge(t, d)
  PROVE  /\ d[1] # 0 /\ t # d
         /\ \E i \in DOMAIN Plans[evidence] :
              t = Plans[evidence][i].task /\ d \in Plans[evidence][i].depends_on
<1>1. PICK e \in SUBSET evidence : \E i \in DOMAIN Plans[e] :
        t = Plans[e][i].task /\ d \in Plans[e][i].depends_on
  BY DEF Edge
<1>2. PICK i \in DOMAIN Plans[e] : t = Plans[e][i].task /\ d \in Plans[e][i].depends_on
  BY <1>1
<1>3. e \in SUBSET Evidence /\ evidence \in SUBSET Evidence
  BY <1>1
<1>4. i \in DOMAIN Plans[evidence] /\ Plans[evidence][i] = Plans[e][i]
  BY <1>1, <1>3, PlanGrows
<1>5. t = <<i, Plans[e][i].agent>> /\ \E j \in 1..i-1 : d[1] = j
  BY <1>2, <1>3, PlanShape
<1>6. i \in Nat
  BY <1>3, PlanPlaces
<1>7. d[1] \in 1..i-1 /\ t[1] = i
  BY <1>5
<1> QED
  BY <1>2, <1>4, <1>6, <1>7

LEMMA EdgesStay ==
  ASSUME evidence \subseteq evidence', NEW t, NEW d, Edge(t, d)
  PROVE  Edge(t, d)'
  BY DEF Edge

-----------------------------------------------------------------------------
(***************************************************************************)
(* Steps that conclude nothing.                                            *)
(***************************************************************************)
SameConclusions ==
  /\ \A t \in TaskIds : /\ Completed(t)' <=> Completed(t)
                        /\ Completed(t) => tasks'[t].result = tasks[t].result
  /\ DOMAIN workers' = DOMAIN workers
  /\ \A p \in DOMAIN workers :
       workers'[p].task = workers[p].task /\ workers'[p].upstream = workers[p].upstream
  /\ evidence \subseteq evidence'

LEMMA UnchangedConcludesNothing ==
  ASSUME UNCHANGED <<tasks, workers>>, evidence \subseteq evidence'
  PROVE  SameConclusions
  BY DEF SameConclusions, Completed

\* Outside a recompute every COMPLETED task has its inputs.
LEMMA PremisesStand ==
  ASSUME OneAtATime, SInv, NEW h \in Handlers, req[h].step # "invalidate" \/ req[h].todo = {},
         NEW t \in TaskIds, Completed(t)
  PROVE  InputsCurrent(tasks[t].result)
<1>1. \A g \in Handlers : ~(req[g].step = "invalidate" /\ t \in req[g].todo)
  BY DEF OneAtATime
<1> QED
  BY <1>1 DEF SInv, PremisesOK, InputsCurrent

LEMMA InputsStay ==
  ASSUME IInv, SameConclusions, NEW p \in DOMAIN workers, InputsCurrent(p)
  PROVE  InputsCurrent(p)'
<1>1. \A d \in DOMAIN workers[p].upstream :
        d \in TaskIds /\ Completed(d) /\ tasks[d].result = workers[p].upstream[d]
  BY UpstreamTasks DEF InputsCurrent
<1>2. workers'[p].upstream = workers[p].upstream
  BY DEF SameConclusions
<1>3. \A d \in DOMAIN workers[p].upstream :
        Completed(d)' /\ tasks'[d].result = workers[p].upstream[d]
  BY <1>1 DEF SameConclusions
<1> QED
  BY <1>2, <1>3 DEF InputsCurrent, Completed

\* If every COMPLETED task has its inputs, the premises are in order.
LEMMA CurrentPremises ==
  ASSUME \A t \in TaskIds : Completed(t)' => InputsCurrent(tasks[t].result)'
  PROVE  PremisesOK'
  BY DEF PremisesOK, InputsCurrent, Completed

LEMMA ConclusionsKept ==
  ASSUME IInv, SInv, OneAtATime, SameConclusions, NEW h \in Handlers,
         req[h].step # "invalidate" \/ req[h].todo = {}
  PROVE  UpstreamOK' /\ PremisesOK'
<1>1. UpstreamOK'
  <2> SUFFICES ASSUME NEW p \in DOMAIN workers', NEW d \in DOMAIN workers'[p].upstream
               PROVE  Edge(workers[p].task, d)'
    BY DEF UpstreamOK
  <2>1. Edge(workers[p].task, d)
    BY DEF SameConclusions, SInv, UpstreamOK
  <2>2. workers'[p].task = workers[p].task /\ evidence \subseteq evidence'
    BY DEF SameConclusions
  <2> QED
    BY <2>1, <2>2 DEF Edge
<1>2. PremisesOK'
  <2>1. ASSUME NEW t \in TaskIds, Completed(t)'
        PROVE  InputsCurrent(tasks[t].result)'
    <3>1. Completed(t) /\ tasks'[t].result = tasks[t].result
      BY <2>1 DEF SameConclusions
    <3>2. tasks[t].result \in DOMAIN workers
      BY <3>1 DEF IInv, RowsOK, Answered, Completed
    <3>3. PICK p \in DOMAIN workers : p = tasks[t].result
      BY <3>2
    <3>4. InputsCurrent(p)
      BY <3>1, <3>3, PremisesStand
    <3>5. InputsCurrent(p)'
      BY <3>4, InputsStay
    <3> QED
      BY <3>1, <3>3, <3>5 DEF InputsCurrent
  <2> QED
    BY <2>1, CurrentPremises
<1> QED
  BY <1>1, <1>2

LEMMA ResultsStay ==
  ASSUME IInv, SameConclusions, NEW q \in Requests, ResultsOK(q),
         Holding(q) => q.pid \in DOMAIN workers,
         Executing(q) => q.task \in TaskIds
  PROVE  ResultsOK(q)'
<1>1. Holding(q) => InputsCurrent(q.pid)'
  BY InputsStay DEF ResultsOK
<1>2. Looping(q) =>
        /\ \A t \in DOMAIN q.results : Completed(t)' /\ tasks'[t].result = q.results[t]
        /\ \A t \in TaskIds : Completed(t)' =>
             t \in q.done \/ \E j \in DOMAIN Plans[q.seen] : j < q.cursor /\ t = Plans[q.seen][j].task
  <2>1. DOMAIN q.results \subseteq TaskIds
    BY ResultTasks
  <2> QED
    BY <2>1 DEF ResultsOK, SameConclusions
<1>3. DagTask(q) /\ q.step # "block" => ~Completed(q.task)'
  BY DEF ResultsOK, SameConclusions, DagTask
<1> QED
  BY <1>1, <1>2, <1>3 DEF ResultsOK, Looping, DagTask, Executing, Holding

\* With one handler, its request is all there is to show.
LEMMA SerialAssembled ==
  ASSUME OneAtATime, NEW h \in Handlers, NEW q, q = req'[h], UpstreamOK', PremisesOK',
         PlannedOK(q)', ResultsOK(q)'
  PROVE  SInv'
<1>1. \A g \in Handlers : req'[g] = q
  BY DEF OneAtATime
<1>2. SerialOK'
  <2> SUFFICES ASSUME NEW g \in Handlers
               PROVE  PlannedOK(req[g])' /\ ResultsOK(req[g])'
    BY DEF SerialOK
  <2>1. PlannedOK(req[g])'
    BY <1>1 DEF PlannedOK, Completed
  <2>2. ResultsOK(req[g])'
    BY <1>1 DEF ResultsOK, Completed, InputsCurrent, Looping, DagTask, Executing, Holding
  <2> QED
    BY <2>1, <2>2
<1> QED
  BY <1>2 DEF SInv

LEMMA NewRequest ==
  ASSUME IInv', NEW h \in Handlers
  PROVE  /\ req'[h] \in Requests
         /\ Holding(req'[h]) => req'[h].pid \in DOMAIN workers'
         /\ Executing(req'[h]) => req'[h].task \in TaskIds
<1>1. req'[h] \in Requests /\ WorkersOK(req[h])' /\ LoopOK(req[h])'
  BY DEF IInv, Typed, RequestsTyped, RequestsOK
<1> QED
  BY <1>1 DEF WorkersOK, LoopOK, Holding, Executing

\* A step that neither concludes anything nor learns of evidence.
LEMMA QuietSerial ==
  ASSUME IInv, IInv', SInv, OneAtATime, SameConclusions, evidence' = evidence,
         NEW h \in Handlers, req[h].step # "invalidate" \/ req[h].todo = {},
         NEW q, q = req'[h], PlannedOK(q), ResultsOK(q), q.step # "invalidate"
  PROVE  SInv'
<1>1. UpstreamOK' /\ PremisesOK'
  BY ConclusionsKept
<1>2. /\ q \in Requests
      /\ Holding(q) => q.pid \in DOMAIN workers
      /\ Executing(q) => q.task \in TaskIds
  BY NewRequest DEF SameConclusions, Executing, Holding
<1>3. ResultsOK(q)'
  BY <1>2, ResultsStay
<1>4. PlannedOK(q)'
  BY DEF PlannedOK
<1> QED
  BY <1>1, <1>3, <1>4, SerialAssembled

LEMMA EndedSerial ==
  ASSUME IInv, IInv', SInv, OneAtATime, SameConclusions, evidence' = evidence,
         NEW h \in Handlers, req[h].step # "invalidate" \/ req[h].todo = {}, req' = Ended(h)
  PROVE  SInv'
<1>1. req'[h] = IdleRequest
  BY DEF IInv, Typed, RequestsTyped, Ended
<1>2. IdleRequest.step = "idle" /\ IdleRequest.seen = {} /\ IdleRequest.request = "none"
  BY DEF IdleRequest
<1>3. PlannedOK(IdleRequest) /\ ResultsOK(IdleRequest)
  BY <1>2 DEF PlannedOK, ResultsOK, Looping, DagTask, Executing, Holding
<1> QED
  BY <1>1, <1>2, <1>3, QuietSerial

LEMMA ReceiveSerial ==
  ASSUME IInv, IInv', SInv, OneAtATime, NEW h \in Handlers, Receive(h)
  PROVE  SInv'
<1>1. PICK r : /\ Accept(h, r)
               /\ r.step \in {"start", "store_evidence", "plan", "register"}
               /\ r.step # "store_evidence" => r.seen = {}
               /\ IF r.step = "register" THEN r.request = "probe" /\ r.task \in ProbeTasks
                  ELSE r.request # "probe"
  <2>1. CASE ReceiveCreate(h)
    <3>1. Accept(h, Request("create", "start"))
      BY <2>1 DEF ReceiveCreate
    <3>2. /\ Request("create", "start").step = "start" /\ Request("create", "start").seen = {}
          /\ Request("create", "start").request = "create"
      BY DEF Request, IdleRequest
    <3> QED
      BY <3>1, <3>2
  <2>2. CASE ReceiveEvidence(h)
    <3>1. PICK e : Accept(h, [Request("evidence", "store_evidence") EXCEPT
                                !.seen = {e}, !.kind = ChangedKind(e)])
      BY <2>2 DEF ReceiveEvidence
    <3> DEFINE r == [Request("evidence", "store_evidence") EXCEPT
                       !.seen = {e}, !.kind = ChangedKind(e)]
    <3>2. r.step = "store_evidence" /\ r.request = "evidence"
      BY DEF Request, IdleRequest
    <3> QED
      BY <3>1, <3>2
  <2>3. CASE ReceiveRecommendation(h)
    <3>1. Accept(h, Request("recommend", "plan"))
      BY <2>3 DEF ReceiveRecommendation
    <3>2. /\ Request("recommend", "plan").step = "plan" /\ Request("recommend", "plan").seen = {}
          /\ Request("recommend", "plan").request = "recommend"
      BY DEF Request, IdleRequest
    <3> QED
      BY <3>1, <3>2
  <2>4. CASE ReceiveProbe(h)
    <3>1. PICK t \in ProbeTasks : \E p :
            Accept(h, [Request("probe", "register") EXCEPT
                         !.task = t, !.capability = p[1], !.modes = p[2]])
      BY <2>4 DEF ReceiveProbe
    <3>2. PICK p : Accept(h, [Request("probe", "register") EXCEPT
                                !.task = t, !.capability = p[1], !.modes = p[2]])
      BY <3>1
    <3> DEFINE r == [Request("probe", "register") EXCEPT
                       !.task = t, !.capability = p[1], !.modes = p[2]]
    <3>3. r.step = "register" /\ r.seen = {} /\ r.request = "probe" /\ r.task = t
      BY DEF Request, IdleRequest
    <3> HIDE DEF r
    <3>4. Accept(h, r)
      BY <3>2 DEF r
    <3> QED
      BY <3>3, <3>4
  <2> QED
    BY <2>1, <2>2, <2>3, <2>4 DEF Receive
<1>2. req'[h] = r /\ req[h].step = "idle" /\ UNCHANGED <<tasks, workers, evidence>>
  BY <1>1 DEF Accept, At, rows, IInv, Typed, RequestsTyped
<1>3. PlannedOK(r) /\ ResultsOK(r)
  BY <1>1 DEF PlannedOK, ResultsOK, Looping, DagTask, Executing, Holding
<1> QED
  BY <1>1, <1>2, <1>3, QuietSerial, UnchangedConcludesNothing

LEMMA PlanningSerial ==
  ASSUME IInv, IInv', SInv, OneAtATime, NEW h \in Handlers,
         StartRun(h) \/ StoreEvidence(h) \/ PlanAgents(h) \/ Recompute(h) \/ Invalidated(h)
  PROVE  SInv'
<1>1. UNCHANGED <<tasks, workers>> /\ evidence \subseteq evidence'
  BY DEF StartRun, StoreEvidence, PlanAgents, Recompute, Invalidated, rows
<1>2. /\ SameConclusions /\ req \in [Handlers -> Requests] /\ req[h] \in Requests
      /\ PlannedOK(req[h]) /\ (req[h].step # "invalidate" \/ req[h].todo = {})
  <2>1. req[h].step # "invalidate" \/ req[h].todo = {}
    BY DEF StartRun, StoreEvidence, PlanAgents, Recompute, Invalidated, At
  <2> QED
    BY <1>1, <2>1, UnchangedConcludesNothing DEF IInv, Typed, RequestsTyped, SInv, SerialOK
<1>3. UpstreamOK' /\ PremisesOK'
  BY <1>2, ConclusionsKept
<1> DEFINE q == req'[h]
<1>4. CASE req' = Ended(h)
  <2>1. evidence' = evidence
    <3>1. CASE StoreEvidence(h)
      <4>1. req[h].step # IdleRequest.step
        BY <3>1 DEF StoreEvidence, At, IdleRequest
      <4>2. req'[h] = IdleRequest
        BY <1>2, <1>4 DEF Ended
      <4>3. req[h].seen \subseteq evidence
        <5>1. ~(req[h].seen \subseteq evidence) => req'[h].step = "plan"
          BY <1>2, <3>1 DEF StoreEvidence, Requests
        <5> QED
          BY <4>2, <5>1 DEF IdleRequest
      <4> QED
        BY <3>1, <4>3 DEF StoreEvidence
    <3>2. CASE ~StoreEvidence(h)
      BY <3>2 DEF StartRun, PlanAgents, Recompute, Invalidated, rows
    <3> QED
      BY <3>1, <3>2
  <2> QED
    BY <1>2, <1>4, <2>1, EndedSerial
<1>5. CASE req' # Ended(h)
  <2>1. /\ q.step # "store_evidence" => q.seen \subseteq evidence'
        /\ q.step \in {"recompute", "invalidate"} => q.seen = evidence'
        /\ q.step \in {"plan", "load", "recompute", "invalidate"}
        /\ q.request = req[h].request /\ ~Executing(req[h])
    <3>1. CASE StartRun(h)
      <4>1. q.step = "load" /\ q.seen = req[h].seen /\ req[h].step = "start"
            /\ q.request = req[h].request
        BY <1>2, <1>5, <3>1 DEF StartRun, At, Requests
      <4> QED
        BY <1>1, <1>2, <4>1 DEF PlannedOK, Executing
    <3>2. CASE StoreEvidence(h)
      <4>1. q.step = "plan" /\ q.seen = req[h].seen /\ evidence' = evidence \cup req[h].seen
            /\ q.request = req[h].request /\ req[h].step = "store_evidence"
        BY <1>2, <1>5, <3>2 DEF StoreEvidence, At, Requests
      <4> QED
        BY <4>1 DEF Executing
    <3>3. CASE PlanAgents(h)
      <4>1. q.step \in {"load", "recompute"} /\ q.seen = evidence /\ evidence' = evidence
            /\ q.request = req[h].request /\ req[h].step = "plan"
        BY <1>2, <1>5, <3>3 DEF PlanAgents, At, Requests, rows
      <4> QED
        BY <4>1 DEF Executing
    <3>4. CASE Recompute(h)
      <4>1. q.step = "invalidate" /\ q.seen = req[h].seen /\ evidence' = evidence
            /\ req[h].step = "recompute" /\ q.request = req[h].request
        BY <1>2, <3>4 DEF Recompute, Requests, rows, At
      <4> QED
        BY <1>2, <4>1 DEF PlannedOK, Executing
    <3>5. CASE Invalidated(h)
      <4>1. q.step = "load" /\ q.seen = req[h].seen /\ evidence' = evidence
            /\ req[h].step = "invalidate" /\ q.request = req[h].request
        BY <1>2, <3>5 DEF Invalidated, Goto, Requests, rows, At
      <4> QED
        BY <1>2, <4>1 DEF PlannedOK, Executing
    <3> QED
      BY <3>1, <3>2, <3>3, <3>4, <3>5
  <2>2. q.step = "invalidate" => \A t \in Affected(Plans[q.seen], q.kind) : Completed(t) => t \in q.todo
    <3>1. CASE Recompute(h)
      <4> DEFINE todo(dag) == {t \in Affected(dag, req[h].kind) : tasks[t].status = "COMPLETED"}
      <4>1. req' = [req EXCEPT ![h].todo = todo(Dag(h)), ![h].step = "invalidate"]
        BY <3>1 DEF Recompute
      <4> HIDE DEF todo
      <4>2. q.todo = todo(Dag(h)) /\ q.seen = req[h].seen /\ q.kind = req[h].kind
        BY <1>2, <4>1 DEF Requests
      <4> QED
        BY <4>2 DEF todo, Completed, Dag
    <3>2. CASE ~Recompute(h)
      BY <1>2, <1>5, <3>2 DEF StartRun, StoreEvidence, PlanAgents, Invalidated, Goto, Requests
    <3> QED
      BY <3>1, <3>2
  <2>3. PICK r : r = req'[h]
    OBVIOUS
  <2>4. PlannedOK(r)'
    BY <1>1, <1>2, <2>1, <2>2, <2>3 DEF PlannedOK, Executing, Completed
  <2>5. ResultsOK(r)'
    BY <2>1, <2>3 DEF ResultsOK, Looping, DagTask, Executing, Holding
  <2> QED
    BY <1>3, <2>3, <2>4, <2>5, SerialAssembled
<1> QED
  BY <1>4, <1>5

LEMMA LoadSerial ==
  ASSUME IInv, IInv', SInv, OneAtATime, NEW h \in Handlers, Load(h)
  PROVE  SInv'
<1> DEFINE loaded == [t \in {u \in Reusable : tasks[u].result # 0} |-> tasks[t].result]
<1>1. /\ req \in [Handlers -> Requests] /\ req[h] \in Requests /\ PlannedOK(req[h])
      /\ req[h].step = "load"
  BY DEF Load, At, IInv, Typed, RequestsTyped, SInv, SerialOK
<1>2. UNCHANGED <<tasks, workers, evidence>>
  BY DEF Load, rows
<1>3. DOMAIN loaded \subseteq Reusable /\ \A t \in DOMAIN loaded : loaded[t] = tasks[t].result
  OBVIOUS
<1>4. req' = [req EXCEPT ![h].done = Reusable, ![h].results = loaded, ![h].cursor = 1, ![h].step = "next"]
  BY DEF Load
<1> HIDE DEF loaded
<1>5. PICK q : q = req'[h]
  OBVIOUS
<1>6. /\ q.done = Reusable /\ q.results = loaded /\ q.step = "next" /\ q.seen = req[h].seen
      /\ q.request = req[h].request
  BY <1>1, <1>4, <1>5 DEF Requests
<1>7. PlannedOK(q)
  BY <1>1, <1>6 DEF PlannedOK, Executing
<1>8. ResultsOK(q)
  <2>1. \A t \in Reusable : Completed(t)
    BY DEF Reusable, Completed
  <2>2. \A t \in TaskIds : Completed(t) => t \in Reusable
    BY DEF Reusable, Completed
  <2> QED
    BY <1>3, <1>6, <2>1, <2>2 DEF ResultsOK, DagTask, Executing, Holding
<1> QED
  BY <1>1, <1>2, <1>5, <1>6, <1>7, <1>8, QuietSerial, UnchangedConcludesNothing

LEMMA ReuseSerial ==
  ASSUME IInv, IInv', SInv, OneAtATime, NEW h \in Handlers, Reuse(h)
  PROVE  SInv'
<1>1. /\ req \in [Handlers -> Requests] /\ req[h] \in Requests /\ PlannedOK(req[h])
      /\ ResultsOK(req[h]) /\ req[h].step = "next"
  BY DEF Reuse, InDag, At, IInv, Typed, RequestsTyped, SInv, SerialOK
<1>2. UNCHANGED <<tasks, workers, evidence>>
  BY DEF Reuse, rows
<1>3. PICK q : q = req'[h]
  OBVIOUS
<1>4. /\ q.done = req[h].done /\ q.results = req[h].results /\ q.step = "next"
      /\ q.seen = req[h].seen /\ q.cursor = req[h].cursor + 1 /\ q.request = req[h].request
  BY <1>1, <1>3 DEF Reuse, Requests
<1>5. PlannedOK(q)
  BY <1>1, <1>4 DEF PlannedOK, Executing
<1>6. ResultsOK(q)
  <2>1. Looping(req[h])
    BY <1>1 DEF Looping
  <2>2. req[h].cursor \in Nat /\ \A j \in DOMAIN Plans[req[h].seen] : j \in Nat
    BY <1>1, PlanPlaces DEF Requests
  <2>3. \A j \in DOMAIN Plans[req[h].seen] : j < req[h].cursor => j < q.cursor
    BY <1>4, <2>2
  <2>4. \A t \in DOMAIN q.results : Completed(t) /\ tasks[t].result = q.results[t]
    BY <1>1, <1>4, <2>1 DEF ResultsOK
  <2>5. \A t \in TaskIds : Completed(t) =>
          t \in q.done \/ \E j \in DOMAIN Plans[q.seen] : j < q.cursor /\ t = Plans[q.seen][j].task
    BY <1>1, <1>4, <2>1, <2>3 DEF ResultsOK
  <2> QED
    BY <1>4, <2>4, <2>5 DEF ResultsOK, DagTask, Executing, Holding
<1> QED
  BY <1>1, <1>2, <1>3, <1>4, <1>5, <1>6, QuietSerial, UnchangedConcludesNothing

LEMMA NextTaskSerial ==
  ASSUME IInv, IInv', SInv, OneAtATime, NEW h \in Handlers, NextTask(h)
  PROVE  SInv'
<1>1. /\ req \in [Handlers -> Requests] /\ req[h] \in Requests /\ PlannedOK(req[h])
      /\ ResultsOK(req[h]) /\ req[h].step = "next"
  BY DEF NextTask, InDag, At, IInv, Typed, RequestsTyped, SInv, SerialOK
<1>2. UNCHANGED <<tasks, workers, evidence>>
  BY DEF NextTask, rows
<1>3. CASE req' = Ended(h)
  BY <1>1, <1>2, <1>3, EndedSerial, UnchangedConcludesNothing
<1>4. CASE req' # Ended(h)
  <2> DEFINE e == req[h].seen
             i == req[h].cursor
  <2>1. PICK q : q = req'[h]
    OBVIOUS
  <2>2. /\ q.done = req[h].done /\ q.results = req[h].results /\ q.step = "register"
        /\ q.seen = e /\ q.cursor = i /\ q.task = Current(h).task /\ q.request = req[h].request
    BY <1>1, <1>4, <2>1 DEF NextTask, Requests
  <2>3. /\ e \in SUBSET Evidence /\ i \in DOMAIN Plans[e] /\ q.task = Plans[e][i].task
        /\ q.task \notin q.done
    BY <1>1, <2>2 DEF NextTask, InDag, Current, Dag, Requests
  <2>4. Looping(req[h])
    BY <1>1 DEF Looping
  <2>5. ~Completed(q.task)
    <3>1. q.task = <<i, Plans[e][i].agent>> /\ q.task \in TaskIds
      BY <2>3, PlanShape
    <3>2. \A j \in DOMAIN Plans[e] : Plans[e][j].task = <<j, Plans[e][j].agent>> /\ j \in Nat
      BY <2>3, PlanShape, PlanPlaces
    <3>3. \A j \in DOMAIN Plans[e] : j < i => q.task # Plans[e][j].task
      BY <3>1, <3>2
    <3> QED
      BY <1>1, <2>2, <2>3, <2>4, <3>1, <3>3 DEF ResultsOK
  <2>6. req[h].request # "probe"
    BY <1>1 DEF PlannedOK, Executing
  <2>7. PlannedOK(q)
    BY <1>1, <2>2, <2>6 DEF PlannedOK
  <2>8. ResultsOK(q)
    BY <1>1, <2>2, <2>4, <2>5 DEF ResultsOK, Looping, DagTask, Executing, Holding
  <2> QED
    BY <1>1, <1>2, <2>1, <2>2, <2>7, <2>8, QuietSerial, UnchangedConcludesNothing
<1> QED
  BY <1>3, <1>4

LEMMA FinishDagSerial ==
  ASSUME IInv, IInv', SInv, OneAtATime, NEW h \in Handlers, FinishDag(h)
  PROVE  SInv'
<1>1. /\ req \in [Handlers -> Requests] /\ req[h] \in Requests /\ PlannedOK(req[h])
      /\ req[h].step = "next"
  BY DEF FinishDag, At, IInv, Typed, RequestsTyped, SInv, SerialOK
<1>2. UNCHANGED <<tasks, workers, evidence>>
  BY DEF FinishDag, rows
<1>3. CASE req' = Ended(h)
  BY <1>1, <1>2, <1>3, EndedSerial, UnchangedConcludesNothing
<1>4. CASE req' # Ended(h)
  <2>1. PICK q : q = req'[h]
    OBVIOUS
  <2>2. /\ q.seen = req[h].seen /\ q.request = "create"
        /\ q.step = "verdict" \/ (q.step = "register" /\ q.task = Evaluation)
    BY <1>1, <1>4, <2>1 DEF FinishDag, Requests
  <2>3. PlannedOK(q) /\ ResultsOK(q)
    BY <1>1, <2>2 DEF PlannedOK, ResultsOK, Looping, DagTask, Executing, Holding
  <2> QED
    BY <1>1, <1>2, <2>1, <2>2, <2>3, QuietSerial, UnchangedConcludesNothing
<1> QED
  BY <1>3, <1>4

\* The last steps of a request.
LEMMA LastSerial ==
  ASSUME IInv, IInv', SInv, OneAtATime, NEW h \in Handlers,
         Block(h) \/ Verdict(h) \/ Evaluate(h) \/ Fail(h)
  PROVE  SInv'
<1>1. UNCHANGED <<tasks, workers, evidence>> /\ req' = Ended(h) /\ req[h].step # "invalidate"
  BY DEF Block, Verdict, Evaluate, Fail, At, OneAtATime
<1> QED
  BY <1>1, EndedSerial, UnchangedConcludesNothing

-----------------------------------------------------------------------------
(***************************************************************************)
(* execute_task.                                                           *)
(***************************************************************************)
LEMMA ExecutionSerial ==
  ASSUME IInv, IInv', SInv, OneAtATime, SameConclusions, evidence' = evidence,
         NEW h \in Handlers, Executing(req[h]), req[h].step # "block",
         NEW q, q = req'[h], Executing(q), Holding(q) => Holding(req[h]),
         q.request = req[h].request, q.seen = req[h].seen, q.done = req[h].done,
         q.results = req[h].results, q.cursor = req[h].cursor, q.task = req[h].task,
         q.pid = req[h].pid
  PROVE  SInv'
<1>1. PlannedOK(req[h]) /\ ResultsOK(req[h])
  BY DEF SInv, SerialOK
<1>2. PlannedOK(q)
  BY <1>1 DEF PlannedOK, Executing
<1>3. ResultsOK(q)
  BY <1>1 DEF ResultsOK, Looping, DagTask, Executing
<1>4. req[h].step # "invalidate" /\ q.step # "invalidate"
  BY DEF Executing
<1> QED
  BY <1>2, <1>3, <1>4, QuietSerial

LEMMA RegisterConcludesNothing ==
  ASSUME IInv, NEW h \in Handlers, Register(h)
  PROVE  SameConclusions
<1> DEFINE t == req[h].task
<1>1. t \in TaskIds
  BY RequestOK DEF Register, At, LoopOK, Executing
<1>2. tasks \in [TaskIds -> Rows]
  BY DEF IInv, Typed, TasksTyped
<1>3. tasks' = [tasks EXCEPT ![t] = IF tasks[t] = NoRow THEN [tasks[t] EXCEPT !.status = "PENDING"] ELSE tasks[t]]
  BY DEF Register
<1>4. UNCHANGED <<workers, evidence>>
  BY DEF Register
<1>5. \A u \in TaskIds : u # t => tasks'[u] = tasks[u]
  BY <1>2, <1>3
<1>6. tasks'[t] = IF tasks[t] = NoRow THEN [tasks[t] EXCEPT !.status = "PENDING"] ELSE tasks[t]
  BY <1>1, <1>2, <1>3
<1>7. tasks[t] = NoRow => tasks[t].status = "ABSENT" /\ tasks'[t].status = "PENDING"
  BY <1>6 DEF NoRow
<1>8. \A u \in TaskIds : /\ Completed(u)' <=> Completed(u)
                         /\ Completed(u) => tasks'[u].result = tasks[u].result
  BY <1>5, <1>6, <1>7 DEF Completed
<1> QED
  BY <1>4, <1>8 DEF SameConclusions

LEMMA WithinSerial ==
  ASSUME IInv, IInv', SInv, OneAtATime, NEW h \in Handlers,
         \/ Register(h) \/ Number(h) \/ Reassign(h) \/ Dispatch(h)
         \/ RecordExpiry(h) \/ RecordExit(h) \/ RecordAnswer(h)
  PROVE  SInv'
<1>1. req \in [Handlers -> Requests] /\ req[h] \in Requests
  BY DEF IInv, Typed, RequestsTyped
<1>2. SameConclusions /\ evidence' = evidence
  <2>1. CASE Register(h)
    BY <2>1, RegisterConcludesNothing DEF Register
  <2>2. CASE ~Register(h)
    <3>1. UNCHANGED <<tasks, workers, evidence>>
      BY <2>2 DEF Number, Reassign, Dispatch, RecordExpiry, RecordExit, RecordAnswer, rows
    <3> QED
      BY <3>1, UnchangedConcludesNothing
  <2> QED
    BY <2>1, <2>2
<1>3. PICK q : q = req'[h]
  OBVIOUS
<1>4. /\ q.request = req[h].request /\ q.seen = req[h].seen /\ q.done = req[h].done
      /\ q.results = req[h].results /\ q.cursor = req[h].cursor /\ q.task = req[h].task
      /\ q.pid = req[h].pid
      /\ Executing(req[h]) /\ req[h].step # "block" /\ Executing(q)
      /\ Holding(q) => Holding(req[h])
  <2>1. CASE Register(h)
    BY <1>1, <1>3, <2>1 DEF Register, Goto, At, Requests, Executing, Holding
  <2>2. CASE Number(h) \/ Reassign(h)
    BY <1>1, <1>3, <2>2 DEF Number, Reassign, At, Requests, Executing, Holding
  <2>3. CASE Dispatch(h) \/ RecordExpiry(h) \/ RecordExit(h) \/ RecordAnswer(h)
    <3>1. \E s \in {"wait", "failed", "complete"} : Goto(h, s)
      BY <2>3 DEF Dispatch, RecordExpiry, RecordExit, RecordAnswer
    <3>2. req[h].step \in {"dispatch", "terminate", "wait"}
      BY <2>3 DEF Dispatch, RecordExpiry, RecordExit, RecordAnswer, At
    <3> QED
      BY <1>1, <1>3, <3>1, <3>2 DEF Goto, Requests, Executing, Holding
  <2> QED
    BY <2>1, <2>2, <2>3
<1> QED
  BY <1>2, <1>3, <1>4, ExecutionSerial

\* Workers change their state and lose their lease, never what they are for.
LEMMA WorkersConcludeNothing ==
  ASSUME IInv, UNCHANGED <<tasks, evidence>>, NEW p \in DOMAIN workers,
         \/ \E s : workers' = [workers EXCEPT ![p].state = s]
         \/ workers' = [workers EXCEPT ![p].expired = TRUE]
  PROVE  SameConclusions
<1>1. workers \in Seq(WorkerRows)
  BY DEF IInv, Typed, WorkersTyped
<1>2. \A r \in DOMAIN workers : workers[r] \in WorkerRows
  BY <1>1
<1>3. PICK w : workers' = [workers EXCEPT ![p] = w] /\ w.task = workers[p].task
               /\ w.upstream = workers[p].upstream
  <2>1. CASE \E s : workers' = [workers EXCEPT ![p].state = s]
    <3>1. PICK s : workers' = [workers EXCEPT ![p].state = s]
      BY <2>1
    <3>2. workers' = [workers EXCEPT ![p] = [workers[p] EXCEPT !.state = s]]
      BY <3>1
    <3>3. /\ [workers[p] EXCEPT !.state = s].task = workers[p].task
          /\ [workers[p] EXCEPT !.state = s].upstream = workers[p].upstream
      BY <1>2 DEF WorkerRows
    <3> QED
      BY <3>2, <3>3
  <2>2. CASE workers' = [workers EXCEPT ![p].expired = TRUE]
    <3>1. workers' = [workers EXCEPT ![p] = [workers[p] EXCEPT !.expired = TRUE]]
      BY <2>2
    <3>2. /\ [workers[p] EXCEPT !.expired = TRUE].task = workers[p].task
          /\ [workers[p] EXCEPT !.expired = TRUE].upstream = workers[p].upstream
      BY <1>2 DEF WorkerRows
    <3> QED
      BY <3>1, <3>2
  <2> QED
    BY <2>1, <2>2
<1>4. DOMAIN workers' = DOMAIN workers
  BY <1>3
<1>5. \A r \in DOMAIN workers :
        workers'[r].task = workers[r].task /\ workers'[r].upstream = workers[r].upstream
  BY <1>3
<1> QED
  BY <1>4, <1>5 DEF SameConclusions, Completed

LEMMA ExpireSerial ==
  ASSUME IInv, IInv', SInv, OneAtATime, NEW h \in Handlers, Expire(h)
  PROVE  SInv'
<1>1. /\ req \in [Handlers -> Requests] /\ req[h] \in Requests /\ req[h].pid \in DOMAIN workers
      /\ req[h].step = "wait"
  BY RequestOK DEF IInv, Typed, RequestsTyped, Expire, At, WorkersOK, Holding
<1>2. SameConclusions /\ evidence' = evidence
  BY <1>1, WorkersConcludeNothing DEF Expire, rows
<1>3. PICK q : q = req'[h]
  OBVIOUS
<1>4. /\ q.request = req[h].request /\ q.seen = req[h].seen /\ q.done = req[h].done
      /\ q.results = req[h].results /\ q.cursor = req[h].cursor /\ q.task = req[h].task
      /\ q.pid = req[h].pid /\ q.step = "terminate"
  BY <1>1, <1>3 DEF Expire, Goto, Requests
<1>5. /\ Executing(req[h]) /\ req[h].step # "block" /\ Executing(q) /\ Holding(req[h])
  BY <1>1, <1>4 DEF Executing, Holding
<1> QED
  BY <1>2, <1>3, <1>4, <1>5, ExecutionSerial

\* Steps of no handler.
LEMMA OthersSerial ==
  ASSUME IInv, IInv', SInv, SameConclusions, UNCHANGED <<req, evidence>>
  PROVE  SInv'
<1>1. UpstreamOK'
  <2> SUFFICES ASSUME NEW p \in DOMAIN workers', NEW d \in DOMAIN workers'[p].upstream
               PROVE  Edge(workers[p].task, d)'
    BY DEF UpstreamOK
  <2>1. Edge(workers[p].task, d)
    BY DEF SameConclusions, SInv, UpstreamOK
  <2>2. workers'[p].task = workers[p].task
    BY DEF SameConclusions
  <2> QED
    BY <2>1, <2>2 DEF Edge
<1>2. PremisesOK'
  <2> SUFFICES ASSUME NEW t \in TaskIds, Completed(t)',
                      NEW d \in DOMAIN workers'[tasks'[t].result].upstream
               PROVE  \/ /\ Completed(d)'
                         /\ tasks'[d].result = workers'[tasks'[t].result].upstream[d]
                      \/ ~Completed(d)' /\ \E h \in Handlers : req'[h].step = "invalidate" /\ t \in req'[h].todo
    BY DEF PremisesOK
  <2>1. Completed(t) /\ tasks'[t].result = tasks[t].result
    BY DEF SameConclusions
  <2>2. PICK p \in DOMAIN workers : p = tasks[t].result
    BY <2>1 DEF IInv, RowsOK, Answered, Completed
  <2>3. workers'[p].upstream = workers[p].upstream
    BY DEF SameConclusions
  <2>4. d \in DOMAIN workers[p].upstream /\ d \in TaskIds
    BY <2>1, <2>2, <2>3, UpstreamTasks
  <2>5. \/ Completed(d) /\ tasks[d].result = workers[p].upstream[d]
        \/ ~Completed(d) /\ \E h \in Handlers : req[h].step = "invalidate" /\ t \in req[h].todo
    BY <2>1, <2>2, <2>4 DEF SInv, PremisesOK
  <2>6. (Completed(d)' <=> Completed(d)) /\ (Completed(d) => tasks'[d].result = tasks[d].result)
    BY <2>4 DEF SameConclusions
  <2> QED
    BY <2>1, <2>2, <2>3, <2>5, <2>6
<1>3. SerialOK'
  <2> SUFFICES ASSUME NEW h \in Handlers
               PROVE  PlannedOK(req[h])' /\ ResultsOK(req[h])'
    BY DEF SerialOK
  <2>1. PICK q \in Requests : q = req[h] /\ q = req'[h]
    BY DEF IInv, Typed, RequestsTyped
  <2>2. PlannedOK(q) /\ ResultsOK(q)
    BY <2>1 DEF SInv, SerialOK
  <2>3. /\ Holding(q) => q.pid \in DOMAIN workers
        /\ Executing(q) => q.task \in TaskIds
    BY <2>1, RequestOK DEF WorkersOK, LoopOK
  <2>4. ResultsOK(q)'
    BY <2>2, <2>3, ResultsStay
  <2>5. PlannedOK(q)'
    <3>1. q.step = "invalidate" => \A t \in Affected(Plans[q.seen], q.kind) : t \in TaskIds
      BY AffectedArePlanned DEF Requests
    <3>2. q.step = "invalidate" => \A t \in Affected(Plans[q.seen], q.kind) : Completed(t)' => t \in q.todo
      BY <2>2, <3>1 DEF PlannedOK, SameConclusions
    <3> QED
      BY <2>2, <3>2 DEF PlannedOK, Completed
  <2>6. PlannedOK(req[h])'
    BY <2>1, <2>5 DEF PlannedOK, Completed
  <2>7. ResultsOK(req[h])'
    BY <2>1, <2>4 DEF ResultsOK, Completed, InputsCurrent, Looping, DagTask, Executing, Holding
  <2> QED
    BY <2>6, <2>7
<1> QED
  BY <1>1, <1>2, <1>3 DEF SInv

-----------------------------------------------------------------------------
(***************************************************************************)
(* Steps that change what is concluded.                                    *)
(***************************************************************************)
\* No completed conclusion rests on t.
NoneRestsOn(t) ==
  \A u \in TaskIds : Completed(u) => t \notin DOMAIN workers[tasks[u].result].upstream

\* Nothing rests on the task that a request executes, for it is not COMPLETED.
LEMMA NoneRestsOnExecuted ==
  ASSUME StablePlan, IInv, SInv, OneAtATime, NEW h \in Handlers, Executing(req[h]),
         req[h].step # "block"
  PROVE  NoneRestsOn(req[h].task)
<1> DEFINE t == req[h].task
<1> SUFFICES ASSUME NEW u \in TaskIds, Completed(u),
                    t \in DOMAIN workers[tasks[u].result].upstream
             PROVE  FALSE
  BY DEF NoneRestsOn
<1>1. PICK p \in DOMAIN workers : p = tasks[u].result
  BY DEF IInv, RowsOK, Answered, Completed
<1>2. InputsCurrent(p)
  BY <1>1, PremisesStand DEF Executing
<1>3. Completed(t)
  BY <1>1, <1>2 DEF InputsCurrent
<1>4. Edge(workers[p].task, t)
  BY <1>1 DEF SInv, UpstreamOK
<1>5. t[1] # 0
  <2>1. evidence \subseteq Evidence
    BY DEF IInv, Typed, CountersTyped
  <2> QED
    BY <1>4, <2>1, EdgeFacts
<1>6. t # Evaluation /\ t \notin ProbeTasks
  BY <1>5 DEF Evaluation, ProbeTasks
<1>7. DagTask(req[h])
  BY <1>6 DEF SInv, SerialOK, PlannedOK, DagTask
<1> QED
  BY <1>3, <1>7 DEF SInv, SerialOK, ResultsOK

\* The row of a task nothing rests on is written; if it is COMPLETED then with a
\* worker whose inputs are current.
LEMMA RowSerial ==
  ASSUME IInv, SInv, OneAtATime, NEW h \in Handlers, req[h].step # "invalidate",
         NEW t \in TaskIds, NoneRestsOn(t), NEW status, NEW result,
         UpdateTask(t, status, result), UNCHANGED <<workers, evidence>>,
         status = "COMPLETED" =>
           /\ InputsCurrent(result)
           /\ t \notin DOMAIN workers[result].upstream
           /\ result \in DOMAIN workers
  PROVE  UpstreamOK' /\ PremisesOK'
<1>1. UpstreamOK'
  BY DEF SInv, UpstreamOK, Edge
<1>2. tasks \in [TaskIds -> Rows] /\ tasks' = [tasks EXCEPT ![t] = [status |-> status, result |-> result]]
  BY DEF IInv, Typed, TasksTyped, UpdateTask
<1>3. /\ tasks'[t].status = status /\ tasks'[t].result = result
      /\ \A u \in TaskIds : u # t => tasks'[u] = tasks[u]
  BY <1>2
<1>4. ASSUME NEW p \in DOMAIN workers, InputsCurrent(p), t \notin DOMAIN workers[p].upstream
      PROVE  InputsCurrent(p)'
  <2>1. \A d \in DOMAIN workers[p].upstream : d \in TaskIds /\ d # t
    BY <1>4, UpstreamTasks
  <2>2. \A d \in DOMAIN workers[p].upstream : tasks'[d] = tasks[d]
    BY <1>3, <2>1
  <2> QED
    BY <1>4, <2>2 DEF InputsCurrent, Completed
<1>5. ASSUME NEW u \in TaskIds, Completed(u)'
      PROVE  InputsCurrent(tasks[u].result)'
  <2>1. CASE u = t
    <3>1. status = "COMPLETED" /\ tasks'[u].result = result
      BY <1>3, <1>5, <2>1 DEF Completed
    <3>2. PICK p \in DOMAIN workers : p = result
      BY <3>1
    <3>3. InputsCurrent(p)'
      BY <1>4, <3>1, <3>2
    <3> QED
      BY <3>1, <3>2, <3>3 DEF InputsCurrent, Completed
  <2>2. CASE u # t
    <3>1. Completed(u) /\ tasks'[u] = tasks[u]
      BY <1>3, <1>5, <2>2 DEF Completed
    <3>2. PICK p \in DOMAIN workers : p = tasks[u].result
      BY <3>1 DEF IInv, RowsOK, Answered, Completed
    <3>3. InputsCurrent(p) /\ t \notin DOMAIN workers[p].upstream
      BY <3>1, <3>2, PremisesStand DEF NoneRestsOn
    <3>4. InputsCurrent(p)'
      BY <1>4, <3>3
    <3> QED
      BY <3>1, <3>2, <3>4 DEF InputsCurrent, Completed
  <2> QED
    BY <2>1, <2>2
<1> QED
  BY <1>1, <1>5, CurrentPremises

LEMMA ExhaustSerial ==
  ASSUME StablePlan, IInv, IInv', SInv, OneAtATime, NEW h \in Handlers, Exhaust(h)
  PROVE  SInv'
<1>1. /\ req \in [Handlers -> Requests] /\ req[h] \in Requests /\ req[h].step = "failed"
      /\ req[h].task \in TaskIds
  BY RequestOK DEF IInv, Typed, RequestsTyped, Exhaust, At, LoopOK, Executing
<1>2. UNCHANGED <<workers, evidence>> /\ UpdateTask(req[h].task, "FAILED", 0)
  BY DEF Exhaust
<1>3. NoneRestsOn(req[h].task)
  BY <1>1, NoneRestsOnExecuted DEF Executing
<1>4. UpstreamOK' /\ PremisesOK'
  BY <1>1, <1>2, <1>3, RowSerial
<1>5. PICK q : q = req'[h]
  OBVIOUS
<1>6. /\ q.request = req[h].request /\ q.seen = req[h].seen /\ q.task = req[h].task
      /\ q.step = "block"
  BY <1>1, <1>5 DEF Exhaust, Goto, Requests
<1>7. PlannedOK(req[h])
  BY DEF SInv, SerialOK
<1>8. PlannedOK(q)'
  BY <1>1, <1>2, <1>6, <1>7 DEF PlannedOK, Executing
<1>9. ResultsOK(q)'
  BY <1>6 DEF ResultsOK, Looping, Holding
<1> QED
  BY <1>4, <1>5, <1>8, <1>9, SerialAssembled

LEMMA CompleteSerial ==
  ASSUME StablePlan, IInv, IInv', SInv, OneAtATime, NEW h \in Handlers, Complete(h)
  PROVE  SInv'
<1> DEFINE t == req[h].task
           p == req[h].pid
<1>1. /\ req \in [Handlers -> Requests] /\ req[h] \in Requests /\ req[h].step = "complete"
      /\ t \in TaskIds /\ p \in DOMAIN workers /\ workers[p].task = t
  BY RequestOK DEF IInv, Typed, RequestsTyped, Complete, At, LoopOK, WorkersOK, Answered, Executing
<1>2. UNCHANGED <<workers, evidence>> /\ UpdateTask(t, "COMPLETED", p) /\ ReturnResult(h)
  BY DEF Complete
<1>3. PlannedOK(req[h]) /\ ResultsOK(req[h])
  BY DEF SInv, SerialOK
<1>4. t \notin DOMAIN workers[p].upstream
  <2>1. ASSUME t \in DOMAIN workers[p].upstream
        PROVE  FALSE
    <3>1. Edge(t, t)
      BY <1>1, <2>1 DEF SInv, UpstreamOK
    <3>2. evidence \subseteq Evidence
      BY DEF IInv, Typed, CountersTyped
    <3> QED
      BY <3>1, <3>2, EdgeFacts
  <2> QED
    BY <2>1
<1>5. UpstreamOK' /\ PremisesOK'
  <2>1. NoneRestsOn(t)
    BY <1>1, NoneRestsOnExecuted DEF Executing
  <2>2. InputsCurrent(p)
    BY <1>1, <1>3 DEF ResultsOK, Holding
  <2> QED
    BY <1>1, <1>2, <1>4, <2>1, <2>2, RowSerial
<1>6. PICK q : q = req'[h]
  OBVIOUS
<1>7. CASE req[h].request = "probe"
  <2>1. q = IdleRequest
    BY <1>1, <1>2, <1>6, <1>7 DEF ReturnResult, Ended
  <2>2. q.step = "idle" /\ q.seen = {} /\ q.request = "none"
    BY <2>1 DEF IdleRequest
  <2>3. PlannedOK(q)' /\ ResultsOK(q)'
    BY <2>2 DEF PlannedOK, ResultsOK, Looping, DagTask, Executing, Holding
  <2> QED
    BY <1>5, <1>6, <2>3, SerialAssembled
<1>8. CASE req[h].request # "probe" /\ t = Evaluation
  <2>1. q.step = "evaluated" /\ q.seen = req[h].seen /\ q.request = req[h].request
    BY <1>1, <1>2, <1>6, <1>8 DEF ReturnResult, Goto, Requests
  <2>2. PlannedOK(q)' /\ ResultsOK(q)'
    BY <1>1, <1>2, <1>3, <1>8, <2>1 DEF PlannedOK, ResultsOK, Looping, DagTask, Executing, Holding
  <2> QED
    BY <1>5, <1>6, <2>2, SerialAssembled
<1>9. CASE req[h].request # "probe" /\ t # Evaluation
  <2> DEFINE new == WithResult(req[h].results, t, p)
             e == req[h].seen
             i == req[h].cursor
  <2>1. /\ DOMAIN new = DOMAIN req[h].results \cup {t}
        /\ \A u \in DOMAIN new : new[u] = IF u = t THEN p ELSE req[h].results[u]
    BY DEF WithResult
  <2>2. /\ q.step = "next" /\ q.results = new /\ q.cursor = i + 1
        /\ q.done = req[h].done /\ q.seen = e /\ q.request = req[h].request
    <3>1. req' = [req EXCEPT ![h].results = new, ![h].cursor = i + 1, ![h].step = "next"]
      BY <1>2, <1>9 DEF ReturnResult
    <3> HIDE DEF new
    <3> QED
      BY <1>1, <1>6, <3>1 DEF Requests
  <2> HIDE DEF new
  <2>3. DagTask(req[h]) /\ Looping(req[h])
    BY <1>1, <1>9 DEF DagTask, Executing, Looping
  <2>4. /\ i \in DOMAIN Plans[e] /\ t = Plans[e][i].task /\ i \in Nat
        /\ \A j \in DOMAIN Plans[e] : j \in Nat
    <3>1. i \in DOMAIN Plans[e] /\ t = Plans[e][i].task
      BY <2>3, RequestOK DEF LoopOK
    <3> QED
      BY <1>1, <3>1, PlanPlaces DEF Requests
  <2>5. /\ tasks'[t].status = "COMPLETED" /\ tasks'[t].result = p
        /\ \A u \in TaskIds : u # t => tasks'[u] = tasks[u]
    BY <1>1, <1>2 DEF UpdateTask, IInv, Typed, TasksTyped
  <2>6. \A u \in DOMAIN new : Completed(u)' /\ tasks'[u].result = new[u]
    <3>1. DOMAIN req[h].results \subseteq TaskIds
      BY <1>1, ResultTasks
    <3>2. \A u \in DOMAIN req[h].results : Completed(u) /\ tasks[u].result = req[h].results[u]
      BY <1>3, <2>3 DEF ResultsOK
    <3> HIDE DEF t, p
    <3> QED
      BY <2>1, <2>5, <3>1, <3>2 DEF Completed
  <2>7. \A u \in TaskIds : Completed(u)' =>
          u \in q.done \/ \E j \in DOMAIN Plans[q.seen] : j < q.cursor /\ u = Plans[q.seen][j].task
    <3> SUFFICES ASSUME NEW u \in TaskIds, Completed(u)', u \notin q.done
                 PROVE  \E j \in DOMAIN Plans[q.seen] : j < q.cursor /\ u = Plans[q.seen][j].task
      OBVIOUS
    <3>1. CASE u = t
      BY <2>2, <2>4, <3>1
    <3>2. CASE u # t
      <4>1. Completed(u)
        BY <2>5, <3>2 DEF Completed
      <4>2. PICK j \in DOMAIN Plans[e] : j < i /\ u = Plans[e][j].task
        BY <1>3, <2>2, <2>3, <4>1 DEF ResultsOK
      <4>3. j < i + 1
        BY <2>4, <4>2
      <4> QED
        BY <2>2, <4>2, <4>3
    <3> QED
      BY <3>1, <3>2
  <2>8. ResultsOK(q)'
    <3>1. \A u \in DOMAIN q.results : Completed(u)' /\ tasks'[u].result = q.results[u]
      BY <2>2, <2>6
    <3> QED
      BY <2>2, <2>7, <3>1 DEF ResultsOK, Looping, DagTask, Executing, Holding, Completed
  <2>9. PlannedOK(q)'
    BY <1>1, <1>2, <1>3, <1>9, <2>2 DEF PlannedOK
  <2> QED
    BY <1>5, <1>6, <2>8, <2>9, SerialAssembled
<1> QED
  BY <1>7, <1>8, <1>9

LEMMA InvalidateSerial ==
  ASSUME StablePlan, IInv, IInv', ClosureOK, SInv, OneAtATime, NEW h \in Handlers, Invalidate(h)
  PROVE  SInv'
<1>1. PICK t \in req[h].todo :
        /\ UpdateTask(t, "INVALIDATED", 0)
        /\ req' = [req EXCEPT ![h].todo = @ \ {t}]
  BY DEF Invalidate
<1>2. /\ UNCHANGED <<workers, evidence>> /\ req[h].step = "invalidate"
      /\ req \in [Handlers -> Requests] /\ req[h] \in Requests
      /\ PlannedOK(req[h]) /\ RecomputeOK(req[h])
      /\ evidence \in SUBSET Evidence
  BY DEF Invalidate, At, IInv, Typed, RequestsTyped, CountersTyped, SInv, SerialOK, ClosureOK
<1>3. req[h].seen = evidence /\ t \in TaskIds /\ t \in Affected(Plans[evidence], req[h].kind)
  BY <1>2 DEF PlannedOK, RecomputeOK, Requests
<1>4. /\ tasks'[t].status = "INVALIDATED"
      /\ \A u \in TaskIds : u # t => tasks'[u] = tasks[u]
  BY <1>1, <1>3 DEF UpdateTask, IInv, Typed, TasksTyped
<1>5. PICK q : q = req'[h]
  OBVIOUS
<1>6. /\ q.step = "invalidate" /\ q.todo = req[h].todo \ {t} /\ q.seen = req[h].seen
      /\ q.kind = req[h].kind /\ q.request = req[h].request
  BY <1>1, <1>2, <1>5 DEF Requests
<1>7. UpstreamOK'
  BY <1>2 DEF SInv, UpstreamOK, Edge
<1>8. PremisesOK'
  <2> SUFFICES ASSUME NEW u \in TaskIds, Completed(u)',
                      NEW d \in DOMAIN workers'[tasks'[u].result].upstream
               PROVE  \/ /\ Completed(d)'
                         /\ tasks'[d].result = workers'[tasks'[u].result].upstream[d]
                      \/ ~Completed(d)' /\ \E g \in Handlers : req'[g].step = "invalidate" /\ u \in req'[g].todo
    BY DEF PremisesOK
  <2>1. u # t /\ Completed(u) /\ tasks'[u] = tasks[u]
    BY <1>4 DEF Completed
  <2>2. PICK p \in DOMAIN workers : p = tasks[u].result /\ workers[p].task = u
    BY <2>1 DEF IInv, RowsOK, Answered, Completed
  <2>3. d \in DOMAIN workers[p].upstream /\ d \in TaskIds
    BY <1>2, <2>1, <2>2, UpstreamTasks
  <2>4. CASE d = t
    <3>1. Edge(u, t)
      BY <2>2, <2>3, <2>4 DEF SInv, UpstreamOK
    <3>2. PICK i \in DOMAIN Plans[evidence] :
            u = Plans[evidence][i].task /\ t \in Plans[evidence][i].depends_on
      BY <1>2, <3>1, EdgeFacts
    <3>3. u \in Affected(Plans[evidence], req[h].kind)
      BY <1>3, <3>2, AffectedIsClosed
    <3>4. u \in q.todo
      BY <1>2, <1>3, <1>6, <2>1, <3>3 DEF PlannedOK
    <3> QED
      BY <1>4, <1>5, <1>6, <2>4, <3>4 DEF Completed
  <2>5. CASE d # t
    <3>1. \/ Completed(d) /\ tasks[d].result = workers[p].upstream[d]
          \/ ~Completed(d) /\ \E g \in Handlers : req[g].step = "invalidate" /\ u \in req[g].todo
      BY <2>1, <2>2, <2>3 DEF SInv, PremisesOK
    <3>2. tasks'[d] = tasks[d]
      BY <1>4, <2>3, <2>5
    <3>3. (\E g \in Handlers : req[g].step = "invalidate" /\ u \in req[g].todo) => u \in q.todo
      BY <1>6, <2>1 DEF OneAtATime
    <3> QED
      BY <1>2, <1>5, <1>6, <2>1, <2>2, <3>1, <3>2, <3>3 DEF Completed
  <2> QED
    BY <2>4, <2>5
<1>9. PlannedOK(q)'
  <2>1. \A u \in Affected(Plans[evidence], req[h].kind) : u \in TaskIds
    BY <1>2, AffectedArePlanned
  <2>2. \A u \in Affected(Plans[evidence], req[h].kind) : Completed(u)' => u # t /\ Completed(u)
    BY <1>4, <2>1 DEF Completed
  <2>3. \A u \in Affected(Plans[q.seen], q.kind) : Completed(u)' => u \in q.todo
    BY <1>2, <1>3, <1>6, <2>2 DEF PlannedOK
  <2> QED
    BY <1>2, <1>3, <1>6, <2>3 DEF PlannedOK, Executing, Completed
<1>10. ResultsOK(q)'
  BY <1>6 DEF ResultsOK, Looping, DagTask, Executing, Holding
<1> QED
  BY <1>5, <1>7, <1>8, <1>9, <1>10, SerialAssembled

LEMMA SpawnSerial ==
  ASSUME IInv, IInv', SInv, OneAtATime, NEW h \in Handlers, Spawn(h)
  PROVE  SInv'
<1> DEFINE r == req[h]
           n == Len(workers)
           upstream == IF r.request = "probe" \/ r.task = Evaluation THEN {} ELSE Current(h).depends_on
<1>1. /\ req \in [Handlers -> Requests] /\ r \in Requests /\ r.step = "spawn"
      /\ PlannedOK(r) /\ ResultsOK(r)
  BY DEF Spawn, At, IInv, Typed, RequestsTyped, SInv, SerialOK
<1>2. UNCHANGED <<tasks, evidence>>
  BY DEF Spawn, rows
<1>3. workers \in Seq(WorkerRows) /\ n \in Nat /\ DOMAIN workers = 1..n
  BY DEF IInv, Typed, WorkersTyped
<1>4. PICK w : /\ workers' = Append(workers, w) /\ w.task = r.task
               /\ DOMAIN w.upstream = upstream
               /\ \A d \in upstream : w.upstream[d] = r.results[d]
  <2> DEFINE w == [ task |-> r.task, state |-> "running", expired |-> FALSE,
                    mode |-> r.modes[r.offset + 1],
                    upstream |-> [d \in upstream |-> r.results[d]] ]
  <2>1. workers' = Append(workers, w)
    BY DEF Spawn
  <2>2. /\ w.task = r.task /\ DOMAIN w.upstream = upstream
        /\ \A d \in upstream : w.upstream[d] = r.results[d]
    OBVIOUS
  <2> HIDE DEF w, upstream
  <2> QED
    BY <2>1, <2>2
<1>5. /\ DOMAIN workers' = 1..(n + 1) /\ workers'[n + 1] = w
      /\ \A p \in 1..n : workers'[p] = workers[p]
  <2> HIDE DEF upstream
  <2> QED
    BY <1>3, <1>4
<1>6. \A d \in upstream : DagTask(r) /\ d \in Plans[r.seen][r.cursor].depends_on
        /\ r.cursor \in DOMAIN Plans[r.seen] /\ r.task = Plans[r.seen][r.cursor].task
        /\ d \in DOMAIN r.results
  <2> SUFFICES ASSUME NEW d \in upstream
               PROVE  DagTask(r) /\ d \in Plans[r.seen][r.cursor].depends_on
                      /\ r.cursor \in DOMAIN Plans[r.seen] /\ r.task = Plans[r.seen][r.cursor].task
                      /\ d \in DOMAIN r.results
    OBVIOUS
  <2>1. DagTask(r) /\ d \in Current(h).depends_on
    BY <1>1 DEF DagTask, Executing
  <2> QED
    BY <2>1, RequestOK DEF Current, LoopOK
<1> HIDE DEF upstream, n
<1>7. \A d \in upstream : Completed(d) /\ tasks[d].result = r.results[d]
  <2>1. DagTask(r) => Looping(r)
    BY <1>1 DEF Looping
  <2> QED
    BY <1>1, <1>6, <2>1 DEF ResultsOK
<1>8. UpstreamOK'
  <2> SUFFICES ASSUME NEW p \in DOMAIN workers', NEW d \in DOMAIN workers'[p].upstream
               PROVE  Edge(workers[p].task, d)'
    BY DEF UpstreamOK
  <2>1. CASE p = n + 1
    <3>1. d \in upstream
      BY <1>4, <1>5, <2>1
    <3>2. r.seen \in SUBSET evidence
      BY <1>1 DEF PlannedOK
    <3>3. Edge(r.task, d)
      BY <1>6, <3>1, <3>2 DEF Edge
    <3>4. workers'[p].task = r.task
      BY <1>4, <1>5, <2>1
    <3> QED
      BY <1>2, <3>3, <3>4 DEF Edge
  <2>2. CASE p # n + 1
    <3>1. p \in 1..n /\ p \in DOMAIN workers
      BY <1>3, <1>5, <2>2
    <3>2. Edge(workers[p].task, d)
      BY <1>5, <3>1 DEF SInv, UpstreamOK
    <3> QED
      BY <1>2, <1>5, <3>1, <3>2 DEF Edge
  <2> QED
    BY <2>1, <2>2
<1>9. ASSUME NEW p \in DOMAIN workers, InputsCurrent(p)
      PROVE  InputsCurrent(p)'
  BY <1>2, <1>3, <1>5, <1>9 DEF InputsCurrent, Completed
<1>10. PremisesOK'
  <2>1. ASSUME NEW t \in TaskIds, Completed(t)'
        PROVE  InputsCurrent(tasks[t].result)'
    <3>1. Completed(t) /\ tasks'[t] = tasks[t]
      BY <1>2, <2>1 DEF Completed
    <3>2. PICK p \in DOMAIN workers : p = tasks[t].result
      BY <3>1 DEF IInv, RowsOK, Answered, Completed
    <3>3. InputsCurrent(p)
      BY <1>1, <3>1, <3>2, PremisesStand
    <3>4. InputsCurrent(p)'
      BY <1>9, <3>3
    <3> QED
      BY <3>1, <3>2, <3>4 DEF InputsCurrent, Completed
  <2> QED
    BY <2>1, CurrentPremises
<1>11. PICK q : q = req'[h]
  OBVIOUS
<1>12. /\ q.request = r.request /\ q.seen = r.seen /\ q.done = r.done /\ q.results = r.results
       /\ q.cursor = r.cursor /\ q.task = r.task /\ q.pid = n + 1 /\ q.step = "dispatch"
  BY <1>1, <1>11 DEF Spawn, Requests, n
<1>13. PlannedOK(q)'
  BY <1>1, <1>2, <1>12 DEF PlannedOK, Executing
<1>14. ResultsOK(q)'
  <2>1. InputsCurrent(q.pid)'
    <3>1. \A d \in DOMAIN workers'[q.pid].upstream :
            tasks'[d].status = "COMPLETED" /\ tasks'[d].result = workers'[q.pid].upstream[d]
      <4>1. workers'[q.pid] = w
        BY <1>5, <1>12
      <4>2. \A d \in DOMAIN w.upstream :
              tasks[d].status = "COMPLETED" /\ tasks[d].result = w.upstream[d]
        BY <1>4, <1>7 DEF Completed
      <4>3. tasks' = tasks
        BY <1>2
      <4> QED
        BY <4>1, <4>2, <4>3
    <3> QED
      BY <3>1 DEF InputsCurrent, Completed
  <2>2. (Looping(q) <=> Looping(r)) /\ (DagTask(q) <=> DagTask(r)) /\ r.step # "block"
    BY <1>1, <1>12 DEF Looping, DagTask, Executing
  <2>3. Looping(q) =>
          /\ \A t \in DOMAIN q.results : Completed(t) /\ tasks[t].result = q.results[t]
          /\ \A t \in TaskIds : Completed(t) =>
               t \in q.done \/ \E j \in DOMAIN Plans[q.seen] : j < q.cursor /\ t = Plans[q.seen][j].task
    BY <1>1, <1>12, <2>2 DEF ResultsOK
  <2>4. DagTask(q) => ~Completed(q.task)
    BY <1>1, <1>12, <2>2 DEF ResultsOK
  <2> QED
    BY <1>2, <2>1, <2>3, <2>4 DEF ResultsOK, Completed, Looping, DagTask, Executing, Holding
<1> QED
  BY <1>8, <1>10, <1>11, <1>13, <1>14, SerialAssembled

LEMMA SInvInit == OneAtATime /\ Init => SInv
<1> SUFFICES ASSUME Init
             PROVE  SInv
  OBVIOUS
<1>1. UpstreamOK
  BY DEF Init, UpstreamOK
<1>2. PremisesOK
  BY DEF Init, PremisesOK, Completed, NoRow
<1>3. SerialOK
  <2>1. IdleRequest.step = "idle" /\ IdleRequest.seen = {} /\ IdleRequest.request = "none"
    BY DEF IdleRequest
  <2> QED
    BY <2>1 DEF Init, SerialOK, PlannedOK, ResultsOK, Looping, DagTask, Executing, Holding
<1> QED
  BY <1>1, <1>2, <1>3 DEF SInv

LEMMA SInvNext ==
  ASSUME StablePlan, OneAtATime, IInv, IInv', ClosureOK, SInv, [Next]_vars
  PROVE  SInv'
<1>1. ASSUME NEW h \in Handlers, Receive(h) \/ Advance(h) \/ Expire(h) \/ Fail(h)
      PROVE  SInv'
  BY <1>1, ReceiveSerial, PlanningSerial, InvalidateSerial, LoadSerial, ReuseSerial,
     NextTaskSerial, FinishDagSerial, WithinSerial, SpawnSerial, CompleteSerial, ExhaustSerial,
     LastSerial, ExpireSerial DEF Advance
<1>2. ASSUME NEW p \in DOMAIN workers, WorkerStep(p)
      PROVE  SInv'
  <2>1. UNCHANGED <<req, tasks, evidence>>
    BY <1>2 DEF WorkerStep, WorkerAnswers, WorkerCrashes, WorkerTerminated, rows
  <2>2. \E s : workers' = [workers EXCEPT ![p].state = s]
    BY <1>2 DEF WorkerStep, WorkerAnswers, WorkerCrashes, WorkerTerminated
  <2> QED
    BY <2>1, <2>2, WorkersConcludeNothing, OthersSerial
<1>3. CASE UNCHANGED vars
  <2>1. UNCHANGED <<req, tasks, workers, evidence>>
    BY <1>3 DEF vars
  <2> QED
    BY <2>1, UnchangedConcludesNothing, OthersSerial
<1> QED
  BY <1>1, <1>2, <1>3 DEF Next

\* However often evidence re-runs the DAG, workers fail and runs get blocked: as
\* long as requests follow one another and no store access raises, no completed
\* conclusion outlives the premises it was drawn from.
THEOREM SerialConclusionsAreCurrent ==
  ASSUME OneAtATime, StablePlan
  PROVE  Spec => []RestsOnCurrentInputs
<1>1. Init => SInv
  BY SInvInit
<1>2. IInv /\ IInv' /\ ClosureOK /\ SInv /\ [Next]_vars => SInv'
  BY SInvNext
<1>3. Init => ClosureOK
  BY ClosureInit
<1>4. IInv /\ ClosureOK /\ [Next]_vars => ClosureOK'
  BY ClosureStep
<1>5. IInv /\ SInv => RestsOnCurrentInputs
  BY DEF SInv, PremisesOK, RestsOnCurrentInputs, Completed
<1> QED
  BY <1>1, <1>2, <1>3, <1>4, <1>5, InductiveInvariant, PTL DEF Spec

=============================================================================
