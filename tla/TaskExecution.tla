---------------------------- MODULE TaskExecution ----------------------------
(***************************************************************************)
(* How the controller executes a plan (runtime/controller.py): planning,   *)
(* incremental recompute, execute_task with its worker subprocesses, and   *)
(* the rows of tables tasks and attempts that it reads and writes.         *)
(*                                                                         *)
(* Every request is a handler thread.  One action is one store access      *)
(* (with the event appended next to it) or one operation on a worker       *)
(* process; handlers and workers interleave between them.  A worker is a   *)
(* process of its own: it answers, exits with an error or hangs past its   *)
(* lease whatever its handler does.                                        *)
(*                                                                         *)
(* A result is identified by the worker that computed it, so two equal     *)
(* answers of two workers are told apart; what a result was computed from  *)
(* is kept with the worker (upstream_result_digests of its payload).       *)
(* Approvals, revisions and the event log are ReleaseControl's: here no    *)
(* approval is in force, so none is invalidated.                           *)
(***************************************************************************)
EXTENDS AgentPlan

CONSTANTS
  Handlers,      \* the server's request threads
  Scenario,      \* the scenario of the run
  Evaluated,     \* whether it is an evaluation-only fixture
  GatePasses,    \* whether the scenario's patch passes the gate
  Evidence,      \* the payloads that clients may deliver, each under one id
  Probes,        \* the fresh ids of fault-injection tasks
  MaxRequests,   \* bound: requests accepted in a behaviour
  MaxFaults,     \* bound: workers that fail or hang uninjected
  MayFail        \* whether a store access may raise

ASSUME TaskExecutionAssumption ==
  /\ Scenario \in Scenarios
  /\ Evidence \subseteq Payloads
  /\ {Evaluated, GatePasses, MayFail} \subseteq BOOLEAN
  /\ MaxRequests \in Nat /\ MaxFaults \in Nat

VARIABLES
  tasks,       \* table tasks: status and result of a task
  attempts,    \* table attempts: the rows of a task by attempt number
  workers,     \* the worker processes by pid
  evidence,    \* table evidence
  run,         \* status and quality_gate of the run's row
  req,         \* what each handler is doing
  accepted,    \* number of requests accepted so far
  returned,    \* whether create_run has answered
  faults       \* number of uninjected worker faults so far

vars == <<tasks, attempts, workers, evidence, run, req, accepted, returned, faults>>

-----------------------------------------------------------------------------
(***************************************************************************)
(* Tasks and rows.                                                         *)
(***************************************************************************)
Evaluation == <<0, "counterfactual-evaluation">>

ProbeTasks == {<<0, p>> : p \in Probes}

\* The plan for every set of evidence.
Plans == [e \in SUBSET Evidence |-> Plan(Scenario, e)]

\* A payload without a kind counts as evidence of kind unknown; an empty kind is
\* passed on, and _incremental_recompute takes it for none.
ChangedKind(e) ==
  CASE e.kind = Absent -> "unknown" [] e.kind = Empty -> Absent [] OTHER -> e.kind

PlanTasks == UNION {PlannedTasks(Plans[e]) : e \in SUBSET Evidence}

TaskIds == PlanTasks \cup {Evaluation} \cup ProbeTasks

NoRow == [status |-> "ABSENT", result |-> 0]

NoTask == <<0, "none">>

\* What a handler is doing: of a planning request, the evidence it planned with
\* (seen) and its kind; of _incremental_recompute, the tasks still to invalidate;
\* of _execute_agent_dag, the completed rows it loaded (done), its results and
\* its place in the DAG; of execute_task, the task, its capability and modes, the
\* next free attempt number (base), the attempt's offset and the worker.
IdleRequest ==
  [ step |-> "idle", request |-> "none", seen |-> {}, kind |-> Absent, todo |-> {},
    done |-> {}, results |-> << >>, cursor |-> 1, task |-> NoTask, capability |-> "none",
    modes |-> <<"normal", "normal">>, base |-> 1, offset |-> 0, pid |-> 0 ]

Steps ==
  { "idle", "start", "store_evidence", "plan", "recompute", "invalidate", "load",
    "next", "register", "number", "spawn", "dispatch", "wait", "terminate", "accept",
    "complete", "failed", "block", "verdict", "evaluated" }

RequestTypeOK(r) ==
  /\ r.step \in Steps
  /\ r.request \in {"none", "create", "evidence", "recommend", "probe"}
  /\ r.seen \subseteq Evidence
  /\ r.todo \subseteq DOMAIN tasks
  /\ r.done \subseteq DOMAIN tasks
  /\ DOMAIN r.results \subseteq DOMAIN tasks
  /\ \A t \in DOMAIN r.results : r.results[t] \in DOMAIN workers
  /\ r.task \in DOMAIN tasks \cup {NoTask}
  /\ r.pid \in 0..Len(workers)
  /\ r.offset \in 0..1 /\ r.base \in Nat \ {0} /\ r.cursor \in Nat \ {0}

TypeOK ==
  /\ DOMAIN tasks = TaskIds
  /\ \A t \in TaskIds :
       /\ tasks[t].status \in {"ABSENT", "PENDING", "COMPLETED", "FAILED", "INVALIDATED"}
       /\ tasks[t].result \in 0..Len(workers)
       /\ (tasks[t].result # 0) = (tasks[t].status = "COMPLETED")
  /\ DOMAIN attempts = TaskIds
  /\ \A t \in TaskIds : \A n \in DOMAIN attempts[t] :
       /\ attempts[t][n].pid \in DOMAIN workers
       /\ attempts[t][n].status \in {"RUNNING", "COMPLETED", "FAILED"}
  /\ \A p \in DOMAIN workers :
       /\ workers[p].task \in DOMAIN tasks
       /\ workers[p].state \in {"running", "answered", "crashed", "killed"}
       /\ workers[p].expired \in BOOLEAN
  /\ evidence \subseteq Evidence
  /\ run.status \in { "ABSENT", "RUNNING", "ABSTAINED", "BLOCKED_INSUFFICIENT_EVIDENCE",
                      "PAUSED_AWAITING_HUMAN", "BLOCKED_RETRY_EXHAUSTED" }
  /\ run.gate \in {"pending", "not-run", "passed", "failed"}
  /\ DOMAIN req = Handlers
  /\ \A h \in Handlers : RequestTypeOK(req[h])
  /\ accepted \in 0..MaxRequests /\ returned \in BOOLEAN /\ faults \in 0..MaxFaults

Init ==
  /\ tasks = [t \in TaskIds |-> NoRow]
  /\ attempts = [t \in TaskIds |-> << >>]
  /\ workers = << >>
  /\ evidence = {}
  /\ run = [status |-> "ABSENT", gate |-> "pending"]
  /\ req = [h \in Handlers |-> IdleRequest]
  /\ accepted = 0
  /\ returned = FALSE
  /\ faults = 0

Dag(h) == Plans[req[h].seen]

At(h, step) == req[h].step = step

Goto(h, step) == req' = [req EXCEPT ![h].step = step]

\* The handler ends with its response, or with an exception that do_POST turns
\* into an error response.
Ended(h) == [req EXCEPT ![h] = IdleRequest]

rows == <<tasks, attempts, evidence, run>>
bounds == <<accepted, returned, faults>>

-----------------------------------------------------------------------------
(***************************************************************************)
(* Requests.                                                               *)
(***************************************************************************)
Accept(h, request) ==
  /\ At(h, "idle")
  /\ accepted < MaxRequests
  /\ accepted' = accepted + 1
  /\ req' = [req EXCEPT ![h] = request]
  /\ UNCHANGED <<rows, workers, returned, faults>>

Request(name, step) == [IdleRequest EXCEPT !.request = name, !.step = step]

ReceiveCreate(h) ==
  /\ run.status = "ABSENT"
  /\ \A g \in Handlers : At(g, "idle")
  /\ Accept(h, Request("create", "start"))

\* Only the answer of create_run names the run: its id has a random part and no
\* route lists the runs.
ReceiveEvidence(h) ==
  /\ returned
  /\ \E e \in Evidence :
       Accept(h, [Request("evidence", "store_evidence") EXCEPT !.seen = {e}, !.kind = ChangedKind(e)])

ReceiveRecommendation(h) ==
  /\ returned
  /\ Accept(h, Request("recommend", "plan"))

\* trigger_failover and retry_exhausted run one fresh task with injected modes.
ReceiveProbe(h) ==
  /\ returned
  /\ \E t \in ProbeTasks :
       /\ tasks[t].status = "ABSENT"
       /\ \A g \in Handlers : req[g].task # t
       /\ \E p \in { <<"timeline", <<"timeout", "normal">>>>,
                     <<"hypothesis", <<"crash", "normal">>>>,
                     <<"patch-tournament", <<"crash", "crash">>>> } :
            Accept(h, [Request("probe", "register") EXCEPT
                         !.task = t, !.capability = p[1], !.modes = p[2]])

-----------------------------------------------------------------------------
(***************************************************************************)
(* Planning.                                                               *)
(***************************************************************************)
StartRun(h) ==
  /\ At(h, "start")
  /\ run' = [run EXCEPT !.status = "RUNNING"]
  /\ req' = IF CompileFails(Recommend(Scenario, {})) THEN Ended(h) ELSE [req EXCEPT ![h].step = "load"]
  /\ UNCHANGED <<tasks, attempts, evidence, workers, bounds>>

\* A duplicate event id ends the request; new evidence is planned for.
StoreEvidence(h) ==
  /\ At(h, "store_evidence")
  /\ req' = IF req[h].seen \subseteq evidence THEN Ended(h) ELSE [req EXCEPT ![h].step = "plan"]
  /\ evidence' = evidence \cup req[h].seen
  /\ UNCHANGED <<tasks, attempts, run, workers, bounds>>

\* recommend reads the evidence, plans and logs the plan.
PlanAgents(h) ==
  /\ At(h, "plan")
  /\ req' = IF CompileFails(Recommend(Scenario, evidence))
            THEN Ended(h)
            ELSE [req EXCEPT ![h].seen = evidence,
                             ![h].step = IF req[h].kind = Absent THEN "load" ELSE "recompute"]
  /\ UNCHANGED <<rows, workers, bounds>>

\* _incremental_recompute reads the rows and decides which to invalidate.  (The
\* plan is bound so that TLC computes it once.)
Recompute(h) ==
  /\ At(h, "recompute")
  /\ \E dag \in {Dag(h)} :
       req' = [req EXCEPT
         ![h].todo = {t \in Affected(dag, req[h].kind) : tasks[t].status = "COMPLETED"},
         ![h].step = "invalidate"]
  /\ UNCHANGED <<rows, workers, bounds>>

\* update_task overwrites status and result.
UpdateTask(t, status, result) ==
  tasks' = [tasks EXCEPT ![t] = [status |-> status, result |-> result]]

\* In the order of the task ids.
Invalidate(h) ==
  /\ At(h, "invalidate")
  /\ \E t \in req[h].todo :
       /\ \A u \in req[h].todo : t[1] <= u[1]
       /\ UpdateTask(t, "INVALIDATED", 0)
       /\ req' = [req EXCEPT ![h].todo = @ \ {t}]
  /\ UNCHANGED <<attempts, evidence, run, workers, bounds>>

Invalidated(h) ==
  /\ At(h, "invalidate")
  /\ req[h].todo = {}
  /\ Goto(h, "load")
  /\ UNCHANGED <<rows, workers, bounds>>

-----------------------------------------------------------------------------
(***************************************************************************)
(* _execute_agent_dag.                                                     *)
(***************************************************************************)
\* The rows that are reused.  A mutant reuses every row a worker completed.
ReusableEver == {t \in TaskIds : tasks[t].status \in {"COMPLETED", "INVALIDATED"}}

Reusable == {t \in TaskIds : tasks[t].status = "COMPLETED"}

\* The loop starts from the results of the reused rows.  A mutant starts from none.
LoadWithoutResults(h) ==
  /\ At(h, "load")
  /\ req' = [req EXCEPT ![h].done = Reusable, ![h].results = << >>, ![h].cursor = 1, ![h].step = "next"]
  /\ UNCHANGED <<rows, workers, bounds>>

Load(h) ==
  /\ At(h, "load")
  /\ req' = [req EXCEPT ![h].done = Reusable,
                        ![h].results = [t \in {u \in Reusable : tasks[u].result # 0} |-> tasks[t].result],
                        ![h].cursor = 1,
                        ![h].step = "next"]
  /\ UNCHANGED <<rows, workers, bounds>>

InDag(h) == At(h, "next") /\ req[h].cursor \in DOMAIN Dag(h)

Current(h) == Dag(h)[req[h].cursor]

Reuse(h) ==
  /\ InDag(h)
  /\ Current(h).task \in req[h].done
  /\ req' = [req EXCEPT ![h].cursor = @ + 1]
  /\ UNCHANGED <<rows, workers, bounds>>

\* The dependencies a task needs a result of.
Unmet(h) == Current(h).depends_on \ DOMAIN req[h].results

\* A task whose dependencies have no result raises.
NextTask(h) ==
  /\ InDag(h)
  /\ Current(h).task \notin req[h].done
  /\ req' = IF Unmet(h) # {} THEN Ended(h)
            ELSE [req EXCEPT ![h].task = Current(h).task,
                             ![h].capability = Capability[Current(h).agent],
                             ![h].step = "register"]
  /\ UNCHANGED <<rows, workers, bounds>>

\* recommend and ingest_evidence answer; create_run goes on to its verdict, or
\* to the evaluation of a fixture.
FinishDag(h) ==
  /\ At(h, "next")
  /\ ~InDag(h)
  /\ IF req[h].request # "create"
     THEN req' = Ended(h)
     ELSE req' = [req EXCEPT
            ![h].step = IF Evaluated THEN "register" ELSE "verdict",
            ![h].task = IF Evaluated THEN Evaluation ELSE @,
            ![h].capability = IF Evaluated THEN "hypothesis" ELSE @]
  /\ UNCHANGED <<rows, workers, bounds>>

-----------------------------------------------------------------------------
(***************************************************************************)
(* execute_task.                                                           *)
(***************************************************************************)
Pool(h) == Pools[req[h].capability]

\* The insert keeps status and result of a row that exists.
Register(h) ==
  /\ At(h, "register")
  /\ tasks' = [tasks EXCEPT ![req[h].task] = IF @ = NoRow THEN [@ EXCEPT !.status = "PENDING"] ELSE @]
  /\ Goto(h, "number")
  /\ UNCHANGED <<attempts, evidence, run, workers, bounds>>

\* next_attempt_number.  A mutant numbers the attempts of every execution from 1.
NextAttemptFirst(t) == 1

NextAttempt(t) == Len(attempts[t]) + 1

Number(h) ==
  /\ At(h, "number")
  /\ req' = [req EXCEPT ![h].base = NextAttempt(req[h].task), ![h].offset = 0, ![h].step = "spawn"]
  /\ UNCHANGED <<rows, workers, bounds>>

\* Popen: the command carries the results of the dependencies.
Spawn(h) ==
  /\ At(h, "spawn")
  /\ LET upstream == IF req[h].request = "probe" \/ req[h].task = Evaluation
                     THEN {} ELSE Current(h).depends_on
     IN  workers' = Append(workers,
           [ task |-> req[h].task, state |-> "running", expired |-> FALSE,
             mode |-> req[h].modes[req[h].offset + 1],
             upstream |-> [d \in upstream |-> req[h].results[d]] ])
  /\ req' = [req EXCEPT ![h].pid = Len(workers) + 1, ![h].step = "dispatch"]
  /\ UNCHANGED <<rows, bounds>>

\* upsert_attempt inserts a row or overwrites all but its instance.
UpsertAttempt(h, status) ==
  LET t == req[h].task
      n == req[h].base + req[h].offset
      row == [pid |-> req[h].pid, status |-> status, instance |-> Pool(h)[req[h].offset + 1]]
  IN  attempts' = [attempts EXCEPT ![t] =
        IF n \in DOMAIN @ THEN [@ EXCEPT ![n] = [row EXCEPT !.instance = attempts[t][n].instance]]
        ELSE Append(@, row)]

Dispatch(h) ==
  /\ At(h, "dispatch")
  /\ UpsertAttempt(h, "RUNNING")
  /\ Goto(h, "wait")
  /\ UNCHANGED <<tasks, evidence, run, workers, bounds>>

Worker(h) == workers[req[h].pid]

\* The lease expires: the worker is told to terminate.
Expire(h) ==
  /\ At(h, "wait")
  /\ Worker(h).state = "running"
  /\ IF Worker(h).mode = "timeout" THEN faults' = faults
     ELSE faults < MaxFaults /\ faults' = faults + 1
  /\ workers' = [workers EXCEPT ![req[h].pid].expired = TRUE]
  /\ Goto(h, "terminate")
  /\ UNCHANGED <<rows, accepted, returned>>

\* Once it ended, an expired worker's attempt failed, even if it answered late.
\* A mutant takes the late answer.
RecordExpiryUnlessAnswered(h) ==
  /\ At(h, "terminate")
  /\ Worker(h).state # "running"
  /\ UpsertAttempt(h, "FAILED")
  /\ Goto(h, IF Worker(h).state = "answered" THEN "complete" ELSE "failed")
  /\ UNCHANGED <<tasks, evidence, run, workers, bounds>>

RecordExpiry(h) ==
  /\ At(h, "terminate")
  /\ Worker(h).state # "running"
  /\ UpsertAttempt(h, "FAILED")
  /\ Goto(h, "failed")
  /\ UNCHANGED <<tasks, evidence, run, workers, bounds>>

RecordExit(h) ==
  /\ At(h, "wait")
  /\ Worker(h).state = "crashed"
  /\ UpsertAttempt(h, "FAILED")
  /\ Goto(h, "failed")
  /\ UNCHANGED <<tasks, evidence, run, workers, bounds>>

\* The attempt is COMPLETED before its task is.
RecordAnswer(h) ==
  /\ At(h, "wait")
  /\ Worker(h).state = "answered"
  /\ UpsertAttempt(h, "COMPLETED")
  /\ Goto(h, "complete")
  /\ UNCHANGED <<tasks, evidence, run, workers, bounds>>

WithResult(results, t, p) == [u \in DOMAIN results \cup {t} |-> IF u = t THEN p ELSE results[u]]

\* execute_task returns the result to the DAG loop or to its other callers.
ReturnResult(h) ==
  IF req[h].request = "probe" THEN req' = Ended(h)
  ELSE IF req[h].task = Evaluation THEN Goto(h, "evaluated")
  ELSE req' = [req EXCEPT ![h].results = WithResult(@, req[h].task, req[h].pid),
                          ![h].cursor = @ + 1, ![h].step = "next"]

\* The task is COMPLETED with the worker's result.
Complete(h) ==
  /\ At(h, "complete")
  /\ UpdateTask(req[h].task, "COMPLETED", req[h].pid)
  /\ ReturnResult(h)
  /\ UNCHANGED <<attempts, evidence, run, workers, bounds>>

\* Whether another instance takes the task after this attempt.
HasNext(h) == req[h].offset = 0 /\ Len(Pool(h)) > 1

Reassign(h) ==
  /\ At(h, "failed")
  /\ HasNext(h)
  /\ req' = [req EXCEPT ![h].offset = 1, ![h].step = "spawn"]
  /\ UNCHANGED <<rows, workers, bounds>>

Exhaust(h) ==
  /\ At(h, "failed")
  /\ ~HasNext(h)
  /\ UpdateTask(req[h].task, "FAILED", 0)
  /\ Goto(h, "block")
  /\ UNCHANGED <<attempts, evidence, run, workers, bounds>>

\* The run is blocked and execute_task raises, which ends every caller.
Block(h) ==
  /\ At(h, "block")
  /\ run' = [status |-> "BLOCKED_RETRY_EXHAUSTED", gate |-> "failed"]
  /\ req' = Ended(h)
  /\ UNCHANGED <<tasks, attempts, evidence, workers, bounds>>

-----------------------------------------------------------------------------
(***************************************************************************)
(* create_run's verdict, taken from the release auditor's result.          *)
(***************************************************************************)
Audits(t) == t[2] = "release_auditor"

Verdict(h) ==
  /\ At(h, "verdict")
  /\ run' = IF \E t \in DOMAIN req[h].results : Audits(t)
            THEN [status |-> "PAUSED_AWAITING_HUMAN", gate |-> IF GatePasses THEN "passed" ELSE "failed"]
            ELSE [status |-> "BLOCKED_INSUFFICIENT_EVIDENCE", gate |-> "not-run"]
  /\ req' = Ended(h)
  /\ returned' = TRUE
  /\ UNCHANGED <<tasks, attempts, evidence, workers, accepted, faults>>

\* A fixture whose evaluation abstains ends as ABSTAINED, any other stays RUNNING.
Evaluate(h) ==
  /\ At(h, "evaluated")
  /\ run' \in {[status |-> "ABSTAINED", gate |-> "not-run"], run}
  /\ req' = Ended(h)
  /\ returned' = TRUE
  /\ UNCHANGED <<tasks, attempts, evidence, workers, accepted, faults>>

-----------------------------------------------------------------------------
(***************************************************************************)
(* Workers, failures, and the specification.                               *)
(***************************************************************************)
\* A worker in mode crash exits with an error at once, one in mode timeout
\* sleeps longer than its lease; any other may also crash.
WorkerAnswers(p) ==
  /\ workers[p].state = "running"
  /\ workers[p].mode # "crash"
  /\ workers[p].mode = "timeout" => workers[p].expired
  /\ workers' = [workers EXCEPT ![p].state = "answered"]
  /\ UNCHANGED <<rows, req, bounds>>

WorkerCrashes(p) ==
  /\ workers[p].state = "running"
  /\ IF workers[p].mode = "crash" THEN faults' = faults
     ELSE faults < MaxFaults /\ faults' = faults + 1
  /\ workers' = [workers EXCEPT ![p].state = "crashed"]
  /\ UNCHANGED <<rows, req, accepted, returned>>

WorkerTerminated(p) ==
  /\ workers[p].state = "running"
  /\ workers[p].expired
  /\ workers' = [workers EXCEPT ![p].state = "killed"]
  /\ UNCHANGED <<rows, req, bounds>>

\* A store access raises, for instance on a locked database.
Fail(h) ==
  /\ MayFail
  /\ ~At(h, "idle")
  /\ req' = Ended(h)
  /\ UNCHANGED <<rows, workers, bounds>>

Receive(h) ==
  ReceiveCreate(h) \/ ReceiveEvidence(h) \/ ReceiveRecommendation(h) \/ ReceiveProbe(h)

Advance(h) ==
  \/ StartRun(h) \/ StoreEvidence(h) \/ PlanAgents(h)
  \/ Recompute(h) \/ Invalidate(h) \/ Invalidated(h)
  \/ Load(h) \/ Reuse(h) \/ NextTask(h) \/ FinishDag(h)
  \/ Register(h) \/ Number(h) \/ Spawn(h) \/ Dispatch(h)
  \/ RecordExpiry(h) \/ RecordExit(h) \/ RecordAnswer(h)
  \/ Complete(h) \/ Reassign(h) \/ Exhaust(h) \/ Block(h)
  \/ Verdict(h) \/ Evaluate(h)

WorkerStep(p) == WorkerAnswers(p) \/ WorkerCrashes(p) \/ WorkerTerminated(p)

Next ==
  \/ \E h \in Handlers : Receive(h) \/ Advance(h) \/ Expire(h) \/ Fail(h)
  \/ \E p \in DOMAIN workers : WorkerStep(p)

Spec == Init /\ [][Next]_vars

\* Threads and processes are scheduled: a handler that can go on does, be it
\* because the lease expired, and a worker ends.  Nothing makes clients send
\* requests.
FairSpec ==
  /\ Spec
  /\ \A h \in Handlers : WF_vars(Advance(h) \/ Expire(h))
  /\ WF_vars(\E p \in DOMAIN workers : WorkerStep(p))
-----------------------------------------------------------------------------
(***************************************************************************)
(* Properties.                                                             *)
(***************************************************************************)
\* Worker p counts for task t: it was started for it and exited with success
\* within its lease.
Answered(p, t) ==
  /\ p \in DOMAIN workers
  /\ workers[p].task = t /\ workers[p].state = "answered" /\ ~workers[p].expired

\* A COMPLETED task carries the answer of a worker that was started for it and
\* exited with success within its lease, whichever handlers ran the task: a late
\* answer of an expired worker never counts (controller.py:530-567).
OnlyAcceptedAnswers ==
  \A t \in TaskIds : tasks[t].status = "COMPLETED" => Answered(tasks[t].result, t)

\* The attempt rows of a task are its audit trail: an attempt that ended is never
\* rewritten, and a running one stays the same worker's (store.py:259-288; the
\* recomputed task gets new attempt numbers).
HistoryIsKept ==
  [][\A t \in TaskIds : \A n \in DOMAIN attempts[t] :
       /\ n \in DOMAIN attempts'[t]
       /\ attempts'[t][n].pid = attempts[t][n].pid
       /\ attempts[t][n].status # "RUNNING" => attempts'[t][n] = attempts[t][n]]_vars

\* Every answer rests on accepted answers, however handlers, worker faults and
\* recomputes interleave: the next task to run has an accepted answer of each of
\* its dependencies at hand, loaded or just computed, so no request dies for a
\* missing one; and what a worker was given as the result of a dependency is the
\* accepted answer of an earlier worker of that dependency, never a late or a
\* failed one (controller.py:236-263 and 462-509).  It need not be the answer the
\* dependency's row has now: another handler may have invalidated or replaced that
\* one since, which RestsOnCurrentInputs rules out for one handler only.
DependenciesAtHand ==
  /\ \A h \in Handlers : InDag(h) /\ Current(h).task \notin req[h].done =>
       \A d \in Current(h).depends_on :
         d \in DOMAIN req[h].results /\ Answered(req[h].results[d], d)
  /\ \A p \in DOMAIN workers : \A d \in DOMAIN workers[p].upstream :
       workers[p].upstream[d] < p /\ Answered(workers[p].upstream[d], d)

\* A COMPLETED result was computed from the results its dependencies have now:
\* no completed conclusion outlives the premises it was drawn from
\* (controller.py:336-415; the recompute invalidates the whole closure).
RestsOnCurrentInputs ==
  \A t \in TaskIds : tasks[t].status = "COMPLETED" =>
    LET upstream == workers[tasks[t].result].upstream IN
      \A d \in DOMAIN upstream :
        tasks[d].status = "COMPLETED" => tasks[d].result = upstream[d]

\* Evidence invalidates only conclusions that depend on what it is about: a
\* signal no skill knows leaves every causal conclusion and the gate in place,
\* and a policy change leaves everything before the gate (controller.py:312-334
\* and 356-370).
InvalidatesOnlyTheClosure ==
  [][\A t \in TaskIds : (tasks[t].status = "COMPLETED" /\ tasks'[t].status = "INVALIDATED") =>
       \E h \in Handlers :
         /\ At(h, "invalidate")
         /\ CASE req[h].kind = "policy" -> t[2] \in {"release_auditor", "skill_curator"}
              [] req[h].kind \in {"unknown", "topology"} -> t[2] = "skill_curator"
              [] OTHER -> t[2] # "incident_commander"]_vars

\* An invalidated task is computed again, unless the run gets blocked
\* (controller.py:393-409 and 796).
InvalidatedIsRecomputed ==
  (\E t \in TaskIds : tasks[t].status = "INVALIDATED") ~>
    \/ run.status = "BLOCKED_RETRY_EXHAUSTED"
    \/ \A t \in TaskIds : tasks[t].status # "INVALIDATED"

=============================================================================
