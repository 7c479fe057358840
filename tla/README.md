# ChronosFix: TLA+ specifications and proofs

ChronosFix repairs incidents with a team of workers under an audit trail: every
observation, task and approval is an event with a *sequence* and a *revision*, and a
release may proceed only on a human approval bound to the latest revision. These
modules model the parts of `src/src/chronosfix` that carry this promise, check them
on small instances with TLC, and prove with TLAPS every safety and action property
and refinement that the passing runs check. Paths below are relative to
`src/src/chronosfix`.

## Inventory

| Component | State it keeps | Operations | Hard behaviours | What makes it correct |
|---|---|---|---|---|
| Run store, `runtime/store.py` | SQLite tables runs, events, tasks, attempts, evidence, approvals | `create_run`, `update_run`, `append_event`, `register_task`, `update_task`, `upsert_attempt`, `add_evidence`, `add_approval` | each call opens its own connection; reads of a call precede its write transaction | dense log, monotone revision, at most one approval in force |
| Release control, `runtime/controller.py` + `runtime/server.py` | none besides the store; one thread per HTTP request | `create_run`, `ingest_evidence`, `approve`, `resume`, `pause`, `deny_tool`, `stale_approval_demo` | concurrent handlers, check-then-act across store calls, a failure between two store calls, duplicate deliveries | evidence observed once; approvals cover the evidence; failed quality is not released |
| Task execution, `controller.py` `execute_task`, `worker_main.py` | attempts, leases, subprocesses | dispatch, time out, crash, reassign, block; invalidate and recompute | a timeout racing a late answer; retries exhausted; recompute with stale reads | one accepted result per task; conclusions rest on current premises |
| Recommender and DAG compiler, `runtime/recommender.py`, `catalog.py` | none | recommend, compile, impact closure | tasks that leave the plan | the closure of new evidence, no more and no less |
| Dynamic scheduler, `dynamic.py` | tasks, attempts, events, idempotency records, shared incident state | `register`, `cancel`, `run`, `pause`, `resume`, `ingest_evidence`, `replay` | callbacks that cancel, pause and register while the scheduler iterates; retries; lost acknowledgements | a task runs after its dependencies; a result is produced once; resume needs the current revision |
| Orchestrator, `orchestrator.py` | a scheduler and the incident's artefacts | `_run_dynamic_coordination` with its callback, `run_pipeline` | tasks inserted and pauses made inside `run`; handlers that raise | the gate waits for the approval and for nothing else |
| Local infrastructure, `infra.py` | SQLite tables incidents, messages, policies; gateway counters | `compare_and_swap`, `publish`, `consume`, `ack`, `fail`, `publish_policy`, `rollback_policy`, `invoke` | concurrent consumers, consumer death, retries and dead letters | no lost update, a delivery queue, one active policy |
| Skills, `skills/*.py`, `simulator.py` | none | `replay_hypothesis`, `evolve_fault_family`, `run_tournament`, `evaluate_gate`, `build_evidence_passport` | verdicts computed several times from copies of one rule | what is released is justified and repairs the incident |
| GitHub writer and flow, `github_adapter.py`, `github_flow.py`, `integrity.py`, `cli.py` | an output directory; branches and pull requests on GitHub | write the artefacts, plan, six kinds of request, bind the result | a chain of requests that stops half-way and is retried; a directory that is reused | one draft per ready run, with that run's evidence |
| Evaluation, `evaluation.py` | none | `evaluate_corpus` | figures counted apart | the figures fit together |
| Attestation, engineering and observability reports, schema, models, skill registry, cloud skills, CLI parsing, scripts, cockpit | none after loading | digests, reports, validation | none | content of documents |

Handlers interact only through the store; the scheduler and its callbacks call
each other synchronously; consumers interact only through the messages table;
the pipeline and the writer interact through the files of one directory.

## Modules

Each module is instantiated by the `MC` module of the same name; a definition
called a mutant is a plausible bug that the property of the same run must refute.

`RunStore` holds the tables and one operator per committed write. A sqlite3
connection opens its transaction at the first INSERT or UPDATE, so the SELECTs
of a store method are earlier steps of their own. The row of `runs` keeps
status, quality gate, release decision and revision; an event keeps sequence,
type, revision, the evidence it is about and the revision a reviewer named.

`ReleaseControl` composes request threads over it. `req[t]` is the program
counter and the locals of thread `t`: its step is the type of the event it is
appending (with the phase of `append_event`: read the revision, read the
sequence, write) or the name of another store access. `Receive*` accept the HTTP
requests, the other actions are one store access each. Planning, DAG execution
and worker attempts are a loop of `coordination` events that may end in an
exhausted retry budget; the verdicts of the gate are inputs (`GateOutcomes`).
`Fail` is a raising store access or a dying server. Three history variables, which
no action reads, let the properties name what interleaving and failure may spoil and
nothing else: `lost`, the evidence whose handler failed between storing and observing
it; `unheld`, the approvals (by their number in the table) after whose invalidation
the handler failed before it held the run; `overtaken`, those that were invalidated
before the run was completed on them.

`ReleaseLedger` is the abstract specification: log, approval in force and grants
changed by atomic steps. `ImplementsLedger` checks that the handlers refine it.

`DynamicScheduler` models `dynamic.py`. The scheduler is single-threaded, but
each event it emits runs the `on_event` callback before the next statement, and
the orchestrator's callbacks register tasks, ingest evidence, pause and resume.
A step is therefore the code between two emitted events (`ctl.at` names the
point, `ctl.ready` the rest of `run`'s ready list), and the client's calls may
come between any two steps. Rank stands for the order by priority and task id,
`Candidates[t]` for the sorted workers with `t`'s capability. An event is kept
only as the revision it advances, an idempotency key as the pair of task and
revision it digests. Left out: an exception raised by a callback, a `register`
from inside a cancellation of `_ready` (it raises, the dict changes while it is
iterated), a `run` or `replay` from inside a callback, and `replay` of a task
that has not completed, which no caller does.

`Coordination` extends `DynamicScheduler` with its only client,
`_run_dynamic_coordination`: `program` is its place, `callback` the calls that
`on_event` has still to make. Nothing is free but the approval and the set of
tasks whose handlers raise, so the module shows what the scheduler's general
freedom amounts to in use. The branch that resumes after `run` is left out
because `GateAwaitsApproval` shows it is never taken.

`AgentPlan` holds the pure part of planning (signals, recommendation, compiled
DAG, worker instances, impact closure) and `TaskExecution` what is done with a
plan: `req[h]` is a handler's program counter and locals, `workers` the
subprocesses, which go on whatever their handler does. One action is one store
access or one operation on a process. A result is the pid that computed it, so
that equal answers of two workers differ. Event log and approvals are
`ReleaseControl`'s; the two modules abstract the same handlers from two sides
and are not composed: their product is too large to check.

`MessageBus` and `UnifiedModel` model `infra.py`. As above a SELECT is a step of
its own before the write. `contended` and `deaths` are history variables: the
messages that two clients selected before either marked its own INFLIGHT, and the
clients that died. `DeliveryQueue` is the abstract queue. It covers every overlap:
a message becomes contended only by the step `Contend`, and from then on is delivered
at least once, each client that has it delivering, acknowledging and failing it;
every other message goes to one client at a time.

`CheckoutSimulator` is the capacity model in exact arithmetic (factors in tenths,
rates in 1/10000; the code's doubles can differ at ties only). `ReleaseGate` takes a
scenario from the experiments to a verdict, on the pipeline's path and on the
release auditor's, with the simulator's answers as inputs; `SimulatedRelease`
composes the two: its scenarios are those the simulator computes (`Simulations`)
from service states and lists of patches. The stages run in one thread; what is
interesting is that readiness is decided four times (gate, passport, checks payload,
flow) and once more by the auditor.

`GithubWriter` models the directory (a file's content is the run that wrote it,
`Empty` while it is truncated), the pipeline that overwrites it file by file, the
writer's accesses and requests, and GitHub: a branch is created once and has one
open pull request. A process may stop anywhere in the writer, and a request given
up may be lost or arrive later. `DraftPublication` is the abstract promise: a
draft appears at once, with the whole evidence of one ready run. The switches
`Overlaps` and `PipelineStops` let a pipeline run beside another process, or stop
half-way; both are off, which is the documented use (one command at a time).

`Evaluation` validates, classifies and counts a corpus; what the replay observed
in a case is an input. A list comprehension of `evaluate_corpus` is the set of the
places of its members.

The proofs are in eight modules, each named after the module it is about:
`ReleaseControlProofs`, `TaskExecutionProofs`, `DynamicSchedulerProofs`,
`CoordinationProofs` (which builds on the former's), `MessageBusProofs`,
`UnifiedModelProofs`, `GithubWriterProofs`, and `ReleaseGateProofs`, which extends
`SimulatedRelease` and ends with a section on `Evaluation`.

## What the runs check

| Run | Instance | What it shows |
|---|---|---|
| `concurrent_release` | 2 threads, 3 requests, 1 client evidence and 1 of the demo, store accesses may fail | `TypeOK`; `LogIsDense`, `AtMostOneApproved`, `EvidenceObservedOnce`, `CompletedIsApproved`, `AuditTrailIsSound` under every interleaving and failure; the handlers implement `ReleaseLedger` |
| `serial_release` | 1 thread, 4 requests, store accesses may fail, fair | what holds when requests do not overlap: `ApprovalsCoverEvidence`; and `EvidenceEventuallyObserved`, unless the store failed in the handler |
| `gate_override` (violation) | 1 thread, 2 requests | `FailedQualityIsNotApproved` fails: `resume` releases a run whose gate failed |
| `scheduler` | 3 tasks, two awaiting the first, one without worker, retries, 3 client calls, fair | `DependenciesFirst`, `ExecutedOnce`; `PauseStartsNothing`; `StallsOnlyWhenStuck`; `ResumesOnReviewedEvidence`; `RunReturns` |
| `coordination` | the pipeline's six tasks, approved or not, every subset of three raising handlers, fair | `GateAwaitsApproval`, `EvidenceIsAuditedFirst`, `CoordinationEnds` |
| `concurrent_tasks` | 2 handlers, 3 requests, 1 evidence, injected faults, store accesses may fail | `OnlyAcceptedAnswers`, `DependenciesAtHand` |
| `serial_tasks` | 1 handler, 3 requests, 3 kinds of evidence and one without a kind, injected faults and one more anywhere, fair | `RestsOnCurrentInputs`, `InvalidatesOnlyTheClosure`, `HistoryIsKept`, `InvalidatedIsRecomputed` |
| `bus` | 2 clients, 2 topics, 3 publishes, 2 failures a message, 1 death, fair | `DeadAfterBudget`, `ImplementsQueue`, `MessagesSettle` |
| `unified_model` | 3 clients, 3 changes, 2 policy versions, 4 gateway calls with a limit of 2 | `NoLostUpdate`, `ReadsAreConsistent`, `OneActivePolicy` |
| `github` | a ready run and one that is not, 2 writers, 2 stops, main moves once, fair | `PublishedIsOneReadyRun`, `DigestsMatch`, `ImplementsDrafts`, `PublishedEventually` |
| `release_gate` | 24 baselines, 36 pairs of candidates, 2 assignments of 3 hypotheses, 5 command lines | `ReleasesAreJustified`, `FlowAgreesWithGate`, `PathsAgree`, `BestEligibleWins`, `ReleasedRepairs` |
| `evaluation` | every file about 2 hypotheses, valid or not; every pair of valid files about one | `SummaryAddsUp` |

**Bounds.** Three requests are enough for the races: the run's creation and two
that overlap. Four serial requests hold an approval, evidence, a redelivery and
another approval. `MaxCoordination` 1 gives a handler an event between its other
store accesses; more only repeat it. Three client calls hold a pause, evidence and
an approval, rejected or accepted; `register` is bounded by the tasks; two
tasks are ready at once, or doomed when the first fails. The coordination needs no bound
of its own: its eight client calls are those it makes. In the bus, budgets of one
and two failures are both reached, and a key is published again. In the task runs
`Fixture` is the small plan and `Checkout` the full one. Two stops let the writer
be stopped and stopped again in its retry. The baselines and candidates of
`release_gate` are those of the repository's scenarios and the combinations between
them; candidates tie in score, rollbacks match or miss, variants share a name,
optional variants fail, and an approver may be named without an approval. `CHECK_DEADLOCK` is off where the system rests when its
bounded inputs are spent; the release models have a `Quiescent` step instead, and
the writer can always be run again.

**Fairness.** `ReleaseControl!FairSpec` is weakly fair to the step of each
thread: interpreter and operating system keep scheduling it and a store access
returns or raises within its timeout. Clients owe nothing. The scheduler's
`Spec` is weakly fair to its own step: a called `run` executes, and a handler
returns or raises (the code has no way to stop one); so is `CoordinationSpec`.
`TaskExecution!FairSpec` is fair to each handler, which `communicate(timeout)`
wakes at the latest when the lease ends, and to the worker processes, which answer,
crash or are killed. In `MessageBus!FairSpec` clients finish their calls and consume
what is ready; nobody has to publish. In `GithubWriter!FairSpec` processes go on and
a person runs the writer again, as the documentation advises.

**Combined properties.** `ApprovalsCoverEvidence`, `AuditTrailIsSound`,
`GateAwaitsApproval`, `ReleasesAreJustified` and `ReleasedRepairs` are conjunctions
of named parts, each of them one half of one promise.

## Where the code and its documents part

`gate_override` is a run of its own: `approve` never looks at the quality gate,
though docs/safety-and-audit.md says that a human cannot approve failed quality.
The same models refute other promises once an assumption of a run is taken away;
to see it, change the named constant of its configuration.

- *Release, 2 handlers* (`serial_release` with `Handlers = {h1, h2}`): evidence slips between the revision check
  and the recorded approval (`ReviewedAllEvidence`), or between the event and the
  approval row (`ApprovalPostdatesEvidence`).
- *Release, overlap or failure*: `concurrent_release` reaches what its properties
  except by name. Two handlers repeat a revision or set it back
  (`RevisionsFollowTheLog`); evidence is `lost`, its redeliveries dropped as
  duplicates of what nobody observed; a run stays COMPLETED on a stale approval, be
  it `unheld` or `overtaken`. Take an exception out of a property to see the trace.
- *Tasks, 2 handlers* (`serial_tasks` with `Handlers = {h1, h2}`): two executions of
  one task take the same attempt number and overwrite each other (`HistoryIsKept`);
  a worker may be given an answer that another handler has
  invalidated or replaced since it was read. `DependenciesAtHand` says that it was an
  accepted answer of that dependency, not that it is still the row's.
- *Tasks, failing store or conflicting evidence*: a recompute that dies half way, or
  whose new plan lacks tasks of the old one, leaves conclusions COMPLETED whose
  premises are then replaced (`RestsOnCurrentInputs`). The gate verdict is written by
  `create_run` alone and is never computed again.
- *Bus*: a message whose consumer dies stays INFLIGHT for good (`Abandoned`); a
  contended message is delivered twice, its overlapping failures are counted once, so
  that it can outlive its budget, and a late one brings it back after its end.
- *GitHub*: a writer stopped between the branch and the pull request can never be
  repeated with success (the branch exists, `stops > 0` in `PublishedEventually`); a
  second write replaces the recorded commit by null; with `PipelineStops` and two
  ready runs the files of both are published together (`DigestsMatch`).
- *Gate*: an optional variant that fails blocks the pipeline but not the auditor
  (`OptionalFailure` in `PathsAgree`). A patch that overwrites what a variant of the
  fault family perturbs never meets that perturbation.
- *Evaluation*: a case with the right primary causes counts as incorrect when its
  amplifiers differ, against the legend of the report; an unsupported case that is a
  pipeline fixture is missing among the known limitations.

## What is proved

A theorem holds for all values of the constants that satisfy the assumptions of its
module; these only say of what kind a constant is, unless something else is stated
here. A hypothesis beyond them is an `ASSUME` of the theorem and comes with the
behaviour of the code that makes it necessary.

### Release control

`ReleaseControlProofs`, for any number of request threads and store accesses that
may fail (`ReleaseControlAssumption`, `NoEvidenceAssumption`): `TypeOK`,
`LogIsDense`, `EvidenceObservedOnce`, `AtMostOneApproved`, `CompletedIsApproved`,
`AuditTrailIsSound`, `ApprovalsAreFinal` as an action property, and
`ImplementsLedger`. The invariant `IInv` adds `LogInv`, a
sequence waiting to be written is at most one past the end of the log, so that the
UNIQUE constraint lets exactly the next one in; and `ObserverInv`, a stored
evidence id has at most one handler on its way to observing it, and none once it is
observed. Neither safety property is inductive without them, since the reads precede
the write. The refinement needs `GrantsAreLogged` besides: every approval in the table,
and every one that a handler is about to store, has an entry of its own in the log.

`CompletedIsApproved` and `AuditTrailIsSound` make no hypothesis either: their
statements name the exceptions that interleaving and failure really make, and a part
of each that is exact for a single handler carries `OneAtATime` inside the statement.
A completed run without an approval in force is about to be held, or is `unheld`, or,
with several handlers, `overtaken`; the invariant says in which of its steps a handler
is when it owes the hold. A revision continues an earlier point of the log, because
what a handler has read is the revision at some point and points are never rewritten;
with one handler it is the last point.

With `OneAtATime` (a single handler) also `ApprovalsCoverEvidence`, though handlers
die between any two accesses. Two handlers break it: evidence may be observed between
the check of an approval and its record. The strengthening says what is under way: an
event being appended carries the run's revision, advanced if it must be
(`RevisionsOK`), an approval on its way into the table is bound to a revision after all
evidence (`ApprovalsOK`).

### Tasks

`TaskExecutionProofs`, for any handlers, evidence and faults: `TypeOK`,
`OnlyAcceptedAnswers`, `DependenciesAtHand` and `InvalidatesOnlyTheClosure`. The
invariant relates three things that different accesses write, rows, attempts and
requests: a stored result is a worker of that task whose answer was accepted, and a
request in its loop holds an accepted answer of each task its cursor has passed; since a
compiled task depends on tasks before it only, its dependencies are at hand, and a worker
is given accepted answers of earlier workers only (`GivenOK`). The last of the
four needs that the tasks a recompute has still to invalidate are affected by its
evidence in the plan it made (`ClosureOK`).

`HistoryIsKept` is proved from `TasksApart`, no two requests execute the same task at
the same time, and so for a single handler, with failures: interleaved requests number
their attempts from the same maximum. `RestsOnCurrentInputs` is proved for one request
at a time without store failure (`OneAtATime`) and a `StablePlan`. A request that
dies among its invalidations leaves conclusions without their premises, and conflicting
evidence takes agents out of the plan, whose rows nobody invalidates any more. Its
`SInv` says that every worker was given results of tasks its own depends on, that a
completed task whose premise is gone is among those about to be invalidated, and that
the results a loop holds are those of the rows.

### Scheduler and coordination

`DynamicSchedulerProofs`, for every task graph, workers, budgets and client calls
(`DynamicSchedulerAssumption`): `TypeOK`, `DependenciesFirst`, `ExecutedOnce`, and
as action properties `PauseStartsNothing` and `ResumesOnReviewedEvidence`. Its
`IInv` says that what is completed stays so: listed tasks are never completed while
their dependencies are (`ReadyInv`), nor is the task in flight, which is not listed
(`FlightInv`), and a completed task has its last key on record, so a replay is
answered from it (`KeysInv`). `PacedInv` adds what the action properties compare:
attempts are numbered from 1, evidence is observed at a revision of the past, only
the attempt in flight runs, and a scan leaves behind no task that it should have
cancelled or taken. `StallsOnlyWhenStuck` assumes `Acyclic`, dependencies are
well-founded: the scheduler never looks for cycles, and tasks that await each other
are BLOCKED with nothing missing. The proof takes a minimal pending task.

`CoordinationProofs`, whatever handlers raise and with any workers:
`GateAwaitsApproval` and `EvidenceIsAuditedFirst`. The coordinator is a client of
the scheduler, so the invariants above hold of it; `PlanAssumption` gives the
scheduler the program's six tasks with their dependencies, priorities and budgets, a
handler of the audit that cannot raise (it returns a constant) and a worker for it.
The rest of `CInv` says where the program and its callbacks are (`ProgramInv`), that
a task taken has settled dependencies (`TasksInv`), that the audit is registered
before a second pass and is ahead of `baseline` in every ready list (`AuditInv`),
and that an approved incident is paused only inside the callback that resumes it,
and one that is not stays paused from the end of `tournament` on (`GateInv`). `CInv`
holds in every state of the `coordination` run.

### Local infrastructure

`MessageBusProofs`, for any clients and messages, calls that overlap and clients that
die: `TypeOK`, `DeadAfterBudget`, and `ImplementsQueue`, that every step is a step of
`DeliveryQueue` or a stutter, with no exception for overlaps. What a call has read is
what the row holds only for a message that is not contended (`ReadsAreCurrent`: such a
message is with at most one client), which gives the exact budget (`Budgeted`); of
every message, contended or not, a row never counts more failures than were reported
(`Counted`), which is why none dies early.

`UnifiedModelProofs`, for any clients, changes, versions and bounds
(`UnifiedModelAssumption`): `TypeOK`, `NoLostUpdate`, `ReadsAreConsistent`,
`OneActivePolicy` and `RoutedToTheLimit`. Its `IInv` says that what a client has
read is not newer than the row and equal to it if it is as new (`BasesLag`), so a
swap accepted at the read revision builds on the row's own state; that the revision
counts the accepted changes (`RowCountsChanges`, with the finite-set theorems); and
that the target of a rollback still exists when it is activated (`TargetExists`).

### Gate, simulator and evaluation

`ReleaseGateProofs`, for any hypotheses, interventions, variants, candidates and
approvals (`PeopleAssumption`, `NamesAssumption`, `ScenarioAssumption`):
`ReleasesAreJustified`, `FlowAgreesWithGate`, `PathsAgree` and `BestEligibleWins`. Its
`IInv` says that each stage has left what it computes from this scenario and the
selected patch (`StagesFollow`), so the verdict is the gate's on the scenario's own
measurements. An approval on such measurements is justified whatever claims and names
were collected (`ReleasedIsJustified`, for pipeline and auditor alike); the flow's
copies of the decision agree with such a verdict (`Agreement`); and, as long as no
optional variant fails, so does the auditor, which sees other records of the same
measurements. That a list of candidates has a best one is not an induction over data
here: the order is a relation on finitely many places, and a minimal element exists
because it is well-founded.

`ReleasedRepairs` is proved of the scenarios the simulator computes
(`SimulatedAssumption`), if no patch sets the traffic (`KeepsTraffic`). The code never
simulates the incident's own state with the patch. What makes a healthy release serve it
is that the recovery spike of the fault family is mandatory and heavier than the
incident, and that the failure rate falls with the traffic, in the exact arithmetic of
the capacity model (`HealthyBelow`); the rollback half is `_verify_rollback`'s comparison.
A patch that sets `traffic_rps` overwrites what the spike sets and never meets it;
the repository's patches do not, but `schema.py` asks only that changes be an object.

`FiguresAddUp`, on `Evaluation`: for any lists of files, valid or not, `SummaryAddsUp`.
Every result is the evaluation of a valid file and the report is computed from these; the
figures are then cardinalities of sets of places that partition or contain each other.

### The GitHub writer

`GithubWriterProofs`, for any number of writers and pipelines, writers that stop
anywhere and requests that arrive late: `PublishedIsOneReadyRun`, `DigestsMatch` and
`ImplementsDrafts`. All three assume `Quiet`, the two switches off: a pipeline that
is killed half-way, or runs beside a writer, leaves a directory of two runs. Writers
may overlap each other: one may read the manifest while another rewrites it, and the
commit it then makes is not faithful, but it names a branch that exists already, so
GitHub refuses it. `IInv` carries this disjunction with every commit and every late
request (`WriterOK`, `LateOK`), and `OnceOK` that a branch has one creator, which is the
only one to ask for its pull request.

### Only model-checked

Liveness, which rests on fairness and is out of the prover's reach:
`EvidenceEventuallyObserved`, `InvalidatedIsRecomputed`, `RunReturns`,
`CoordinationEnds`, `MessagesSettle` and `PublishedEventually`. The refuted promise
of `gate_override` has nothing to prove.

## Not modelled, and the plan

Left out: signed attestations and canonical JSON (content of data; the manifest's
digests are in `GithubWriter`); schema validation, data classes and the skill
registry (no state after loading); the skills that order the timeline or write
proof reports; engineering and observability reports; cloud skills, argument
parsing, packaging scripts and the cockpit page (I/O and layout); of `infra.py`
`add_evidence` and `save_otlp`, one insert each, and the OTLP conversion.

What is left to prove:

1. `RestsOnCurrentInputs` with failures, if the exception is stated: what rests on a
   replaced premise is a task that a request died before invalidating.
2. `DigestsMatch` with `PipelineStops`, if one run at most is ready.
3. `ApprovalsCoverEvidence` for several handlers, if the evidence observed between
   an approval's check and its record is kept in a history variable.
4. That the event log and the approvals of `ReleaseControl` and the rows of
   `TaskExecution` can be composed: that the handlers of one refine those of the other.
