---------------------------- MODULE Coordination ----------------------------
(***************************************************************************)
(* The pipeline's coordination of one incident: the program and the        *)
(* callback of _run_dynamic_coordination (orchestrator.py) as the client   *)
(* of DynamicScheduler.                                                    *)
(*                                                                         *)
(* The client is single-threaded: a callback runs to its end before the    *)
(* scheduler goes on, and the program waits for run.  A callback's own     *)
(* calls emit events too; the callback ignores those.                      *)
(***************************************************************************)
EXTENDS DynamicScheduler

CONSTANTS
  timeline, baseline, hypotheses, tournament, riskGate,   \* the tasks
  configAudit,                    \* the task that evidence inserts
  configPool, postPatchSlo,       \* the evidence event ids
  MayRaise                        \* the tasks whose handlers can raise

TaskIds == <<timeline, baseline, hypotheses, tournament, riskGate, configAudit>>

ASSUME CoordinationAssumption ==
  /\ Tasks = {TaskIds[i] : i \in 1..6}
  /\ \A i, j \in 1..6 : TaskIds[i] = TaskIds[j] => i = j
  /\ Evidence = {configPool, postPatchSlo}
  /\ MayRaise \subseteq Tasks

VARIABLES
  approved,   \* human_approved
  faulty,     \* the tasks whose handlers raise on this scenario
  program,    \* where _run_dynamic_coordination is
  callback    \* the calls on_event has still to make

program_vars == <<approved, faulty, program, callback>>
all_vars == <<vars, program_vars>>

-----------------------------------------------------------------------------
(* The tasks and their order. *)

Registered == <<timeline, baseline, hypotheses, tournament, riskGate>>

\* What each task awaits: the one before it; the audit awaits timeline.
AwaitedBy ==
  [t \in Tasks |->
     CASE t = baseline -> {timeline}     [] t = hypotheses -> {baseline}
       [] t = tournament -> {hypotheses} [] t = riskGate -> {tournament}
       [] t = configAudit -> {timeline}  [] OTHER -> {}]

Priority ==
  [t \in Tasks |->
     CASE t = configAudit -> 5 [] t = timeline -> 10   [] t = baseline -> 20
       [] t = hypotheses -> 30 [] t = tournament -> 40 [] t = riskGate -> 50]

\* The audit and the default: TaskSpec.max_attempts.
Budget == [t \in Tasks |-> IF t = configAudit THEN 1 ELSE 2]

\* The scheduler's constants are the program's.  The handler of the audit returns
\* a constant, and the default workers are capable of its task.
ASSUME PlanAssumption ==
  /\ DependsOn = AwaitedBy /\ Rank = Priority /\ MaxAttempts = Budget
  /\ configAudit \notin MayRaise /\ Candidates[configAudit] # << >>

\* failure_plan: the first attempt of two tasks times out.
FailurePlan(t) == IF t \in {timeline, tournament} THEN 1 ELSE 0

-----------------------------------------------------------------------------
(* on_event. *)

\* A mutant that resumes for whoever asks.
PatchCallbackUnasked == <<"pause", "ingest-slo", "resume", "review", "resume">>

\* A new signal arrives while a person is awaited: the revision read before it
\* is refused, the one read after it resumes.  Without approval it stays paused.
PatchCallback ==
  IF approved THEN <<"pause", "ingest-slo", "resume", "review", "resume">> ELSE <<"pause">>

\* New evidence, delivered twice, inserts a task.
TimelineCallback == <<"ingest-config", "ingest-config", "register-audit">>

\* A mutant that meets the evidence only when the patches are there.
OnCompletedLate(t) == IF t = tournament THEN TimelineCallback \o PatchCallback ELSE << >>

OnCompleted(t) ==
  CASE t = timeline -> TimelineCallback
    [] t = tournament -> PatchCallback
    [] OTHER -> << >>

Perform(call) ==
  \/ call = "ingest-config" /\ IngestEvidence(configPool)
  \/ call = "ingest-slo" /\ IngestEvidence(postPatchSlo)
  \/ call = "register-audit" /\ Register(configAudit)
  \/ call = "pause" /\ Pause
  \/ call = "review" /\ Review
  \/ call = "resume" /\ Resume

CallBack ==
  /\ callback # << >>
  /\ Perform(Head(callback))
  /\ callback' = Tail(callback)
  /\ UNCHANGED <<approved, faulty, program>>

-----------------------------------------------------------------------------
(* The program. *)

At(from, to) == program = from /\ program' = to /\ UNCHANGED <<approved, faulty, callback>>

RegisterTasks ==
  /\ program = "register"
  /\ Register(Registered[Len(tasks) + 1])
  /\ program' = IF Len(tasks) + 1 = Len(Registered) THEN "call" ELSE "register"
  /\ UNCHANGED <<approved, faulty, callback>>

CallRun == Run /\ At("call", "running")

\* A handler ends as the failure plan and the scenario say.
Raises == Current.attempt <= FailurePlan(Current.task) \/ Current.task \in faulty
Handler == ctl.at = "handler" /\ IF Raises THEN Raise ELSE Succeed

\* run, or replay if it has to execute the task, between two callbacks.
Schedule ==
  /\ program \in {"running", "collect"} /\ callback = << >>
  /\ \/ Handler /\ UNCHANGED callback
     \/ Complete /\ callback' = OnCompleted(Current.task)
     \/ (Stop \/ Scan \/ TakeNext \/ Reassign \/ Retry \/ Escalate) /\ UNCHANGED callback
  /\ UNCHANGED <<approved, faulty, program>>

\* run has returned.  The code resumes and runs again if an approved incident is
\* still paused; ApprovedIsResumed says it never is.
Returned ==
  /\ ctl.at = "idle"
  /\ At("running", IF approved /\ shared.status = "COMPLETED" THEN "replay" ELSE "collect")
  /\ UNCHANGED vars

\* A lost acknowledgement: the same task is delivered again.
ReplayBaseline == Replay(baseline) /\ At("replay", "collect")

\* The results of the four tasks are read; a missing one raises KeyError.
Collect ==
  /\ ctl.at = "idle"
  /\ At("collect", IF \A t \in {timeline, baseline, hypotheses, tournament} : status[t] = "COMPLETED"
                   THEN "done" ELSE "raised")
  /\ UNCHANGED vars

CoordinationInit ==
  /\ Init
  /\ approved \in BOOLEAN
  /\ faulty \in SUBSET MayRaise
  /\ program = "register"
  /\ callback = << >>

CoordinationNext ==
  RegisterTasks \/ CallRun \/ Schedule \/ CallBack \/ Returned \/ ReplayBaseline \/ Collect

\* One thread, whose handlers return or raise.
CoordinationSpec ==
  CoordinationInit /\ [][CoordinationNext]_all_vars /\ WF_all_vars(CoordinationNext)

-----------------------------------------------------------------------------
Calls == {"ingest-config", "ingest-slo", "register-audit", "pause", "review", "resume"}

CoordinationTypeOK ==
  /\ TypeOK
  /\ approved \in BOOLEAN /\ faulty \subseteq MayRaise
  /\ program \in {"register", "call", "running", "replay", "collect", "done", "raised"}
  /\ callback \in Seq(Calls)

Started(t) == \E i \in DOMAIN attempts : attempts[i].task = t

\* Without an approval the risk gate never starts, whatever fails and is retried
\* (on_event, orchestrator.py 208-213).
UnapprovedStopsAtTheGate == ~approved => ~Started(riskGate)

\* No patch competes before the audit that the new evidence asked for has
\* completed, though it is inserted while run is inside a pass (188-206, 249-268).
EvidenceIsAuditedFirst == Started(tournament) => status[configAudit] = "COMPLETED"

\* The stale approval of the callback is refused and the fresh one is not: when
\* run has returned, an approved incident is not awaiting anybody (208-224, 270).
ApprovedIsResumed ==
  approved /\ program \in {"replay", "collect", "done"} => shared.status # "PAUSED_AWAITING_HUMAN"

\* The gate waits for the approval and for nothing else.
GateAwaitsApproval == UnapprovedStopsAtTheGate /\ ApprovedIsResumed

\* What the acceptance script expects of a run without faults
\* (run_semifinal_acceptance.py 281-291): an approved one completes at revision
\* 36, another stays paused; neither runs a handler twice.
AsAccepted ==
    /\ approved => shared = [status |-> "COMPLETED", revision |-> 36]
    /\ ~approved => shared.status = "PAUSED_AWAITING_HUMAN"
    /\ ExecutedOnce /\ Len(attempts) = (IF approved THEN 8 ELSE 7)

\* The coordination ends as accepted; only a handler that raises makes it end in
\* KeyError, and then it does (orchestrator.py 284-287).
CoordinationEnds ==
  <>IF faulty = {} THEN program = "done" /\ AsAccepted ELSE program = "raised"
=============================================================================
