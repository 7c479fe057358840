------------------------- MODULE CoordinationProofs -------------------------
(***************************************************************************)
(* Proofs about Coordination: whatever fails and is retried, no patch      *)
(* competes before the audit that the new evidence asked for, and the risk *)
(* gate waits for the approval and for nothing else.                       *)
(*                                                                         *)
(* The argument: the program is a client of DynamicScheduler, so its       *)
(* invariants hold here.  No callback cancels a task, so a task has been   *)
(* taken only if its dependencies have completed; the audit, registered by *)
(* the callback of timeline, is ahead of baseline in every ready list; and *)
(* between the end of tournament and the next pass its callback has paused *)
(* the incident.                                                           *)
(***************************************************************************)
EXTENDS Coordination, DynamicSchedulerProofs

\* A task that has been given to its handler, and perhaps is still there.
Taken(t) == status[t] \in {"RUNNING", "COMPLETED", "FAILED"}

\* What a task in a ready list, on record, or settled by a scan is.
TasksInv ==
  /\ \A key \in seen : status[key[1]] = "COMPLETED"
  /\ \A t \in ctl.ready : status[t] = "PENDING"
  /\ \A i \in DOMAIN attempts : Taken(attempts[i].task)
  /\ \A t \in Tasks : Taken(t) => Settled(t)
  /\ ctl.at = "scan" => \E t \in Tasks : status[t] = "FAILED"

\* The calls that a callback has still to make.
AfterTimeline ==
  {TimelineCallback, <<"ingest-config", "register-audit">>, <<"register-audit">>}
AfterPause ==
  {<<"ingest-slo", "resume", "review", "resume">>, <<"resume", "review", "resume">>,
   <<"review", "resume">>, <<"resume">>}
AfterPatch == IF approved THEN AfterPause \cup {PatchCallback} ELSE {PatchCallback}

\* The end of timeline is known, its callback not over.
TimelineEnding ==
  \/ ctl.at = "updated" /\ Current.task = timeline
  \/ callback \in AfterTimeline

\* The program waits for run, run for the callbacks.
ProgramInv ==
  /\ approved \in BOOLEAN
  /\ program = "register" => Len(tasks) < Len(Registered)
  /\ program # "running" => ctl.at = "idle" /\ callback = << >>
  /\ ctl.caller = "run"
  /\ callback # << >> => ctl.at = "loop" /\ callback \in AfterTimeline \cup AfterPatch
  /\ callback \in AfterTimeline => status[timeline] = "COMPLETED"
  /\ ctl.at = "updated" => attempts # << >> /\ status[Current.task] = "COMPLETED"

\* The audit never fails, and is ahead of baseline.
AuditInv ==
  /\ faulty \subseteq MayRaise
  /\ status[configAudit] \in {"ABSENT", "PENDING", "RUNNING", "COMPLETED"}
  /\ status[configAudit] # "ABSENT" => status[timeline] = "COMPLETED"
  /\ status[configAudit] = "ABSENT" /\ status[timeline] = "COMPLETED" => TimelineEnding
  /\ ctl.at \in {"failed", "reassigned"} => Current.task # configAudit
  /\ Taken(baseline) => status[configAudit] = "COMPLETED"
  /\ baseline \in ctl.ready =>
       \/ status[configAudit] = "COMPLETED"
       \/ configAudit \in ctl.ready
       \/ ctl.at = "handler" /\ Current.task = configAudit

\* An approved incident is paused only within the callback that resumes it; one
\* that is not stays so.
GateInv ==
  /\ approved /\ shared.status = "PAUSED_AWAITING_HUMAN" =>
       callback \in AfterPause /\ (callback = <<"resume">> => reviewed = Revision)
  /\ ~approved /\ status[tournament] = "COMPLETED" =>
       \/ ctl.at = "updated" /\ Current.task = tournament
       \/ callback = <<"pause">>
       \/ shared.status # "RUNNING"
  /\ ~approved => ~Taken(riskGate)

CInv == IInv /\ PacedInv /\ TasksInv /\ ProgramInv /\ AuditInv /\ GateInv

-----------------------------------------------------------------------------
(***************************************************************************)
(* The plan.                                                               *)
(***************************************************************************)
LEMMA Plan ==
  /\ Tasks = {timeline, baseline, hypotheses, tournament, riskGate, configAudit}
  /\ timeline \notin {baseline, hypotheses, tournament, riskGate, configAudit}
  /\ baseline \notin {hypotheses, tournament, riskGate, configAudit}
  /\ hypotheses \notin {tournament, riskGate, configAudit}
  /\ tournament \notin {riskGate, configAudit}
  /\ riskGate # configAudit
  /\ DependsOn[timeline] = {} /\ DependsOn[baseline] = {timeline}
  /\ DependsOn[hypotheses] = {baseline} /\ DependsOn[tournament] = {hypotheses}
  /\ DependsOn[riskGate] = {tournament} /\ DependsOn[configAudit] = {timeline}
  /\ \A t \in Tasks : t # configAudit => ~(Rank[t] <= Rank[configAudit])
<1>1. /\ TaskIds[1] = timeline /\ TaskIds[2] = baseline /\ TaskIds[3] = hypotheses
      /\ TaskIds[4] = tournament /\ TaskIds[5] = riskGate /\ TaskIds[6] = configAudit
  BY DEF TaskIds
<1>2. Tasks = {timeline, baseline, hypotheses, tournament, riskGate, configAudit}
  BY <1>1, CoordinationAssumption
<1>3. /\ timeline \notin {baseline, hypotheses, tournament, riskGate, configAudit}
      /\ baseline \notin {hypotheses, tournament, riskGate, configAudit}
      /\ hypotheses \notin {tournament, riskGate, configAudit}
      /\ tournament \notin {riskGate, configAudit}
      /\ riskGate # configAudit
  BY <1>1, CoordinationAssumption
<1>4. /\ DependsOn[timeline] = {} /\ DependsOn[baseline] = {timeline}
      /\ DependsOn[hypotheses] = {baseline} /\ DependsOn[tournament] = {hypotheses}
      /\ DependsOn[riskGate] = {tournament} /\ DependsOn[configAudit] = {timeline}
  BY <1>2, <1>3, PlanAssumption DEF AwaitedBy
<1>5. \A t \in Tasks : t # configAudit => ~(Rank[t] <= Rank[configAudit])
  BY <1>2, <1>3, PlanAssumption DEF Priority
<1> QED
  BY <1>2, <1>3, <1>4, <1>5

\* The names of the callbacks' lists tell them apart.
LEMMA Callbacks ==
  /\ << >> \notin AfterTimeline \cup AfterPatch
  /\ AfterTimeline \cap AfterPatch = {}
  /\ ~approved => AfterPatch = {<<"pause">>}
  /\ approved => AfterPatch = AfterPause \cup {PatchCallback} /\ PatchCallback \notin AfterPause
BY DEF AfterTimeline, AfterPatch, AfterPause, TimelineCallback, PatchCallback

\* The client is a client: each of its steps is one of the scheduler's, or none.
LEMMA ClientSteps ==
  ASSUME TypeOK, ProgramInv, [CoordinationNext]_all_vars
  PROVE  [Next]_vars
<1>1. {timeline, baseline, hypotheses, tournament, riskGate, configAudit} \subseteq Tasks
  BY Plan
<1>2. CASE RegisterTasks
  <2>1. Len(tasks) + 1 \in 1..5
    BY <1>2, LenProperties DEF RegisterTasks, ProgramInv, TypeOK, Registered
  <2>2. PICK t : t = Registered[Len(tasks) + 1] /\ t \in Tasks
    BY <1>1, <2>1 DEF Registered
  <2>3. Register(t)
    BY <1>2, <2>2 DEF RegisterTasks
  <2> QED
    BY <2>2, <2>3 DEF Next, Client
<1>3. CASE CallRun
  BY <1>3 DEF CallRun, Next
<1>4. CASE Schedule
  BY <1>4 DEF Schedule, Handler, Next, Step
<1>5. CASE CallBack
  <2>1. configPool \in Evidence /\ postPatchSlo \in Evidence
    BY CoordinationAssumption
  <2> QED
    BY <1>1, <1>5, <2>1 DEF CallBack, Perform, Next, Client
<1>6. CASE Returned \/ Collect \/ UNCHANGED all_vars
  BY <1>6 DEF Returned, Collect, all_vars
<1>7. CASE ReplayBaseline
  BY <1>1, <1>7 DEF ReplayBaseline, Next
<1> QED
  BY <1>2, <1>3, <1>4, <1>5, <1>6, <1>7 DEF CoordinationNext

LEMMA SchedulerKept ==
  ASSUME CInv, [CoordinationNext]_all_vars
  PROVE  IInv' /\ PacedInv'
BY ClientSteps, NextIInv, PacedNext DEF CInv, IInv

-----------------------------------------------------------------------------
(***************************************************************************)
(* What holds of the tasks.                                                *)
(***************************************************************************)
\* Once timeline has completed and while baseline awaits its turn, nothing can
\* have failed.
LEMMA NothingFailed ==
  ASSUME CInv, status[timeline] = "COMPLETED", status[baseline] = "PENDING", NEW t \in Tasks
  PROVE  status[t] # "FAILED"
<1>1. \A u \in Tasks : Taken(u) => \A d \in DependsOn[u] : Taken(d) /\ status[d] = "COMPLETED"
  BY DEF CInv, TasksInv, Settled, Taken
<1>2. ~Taken(baseline)
  BY DEF Taken
<1>3. ~Taken(hypotheses)
  BY <1>1, <1>2, Plan
<1>4. ~Taken(tournament)
  BY <1>1, <1>3, Plan
<1>5. ~Taken(riskGate)
  BY <1>1, <1>4, Plan
<1>6. status[configAudit] # "FAILED"
  BY DEF CInv, AuditInv
<1> QED
  BY <1>2, <1>3, <1>4, <1>5, <1>6, Plan DEF Taken

\* The tasks that a pass of run may take one from.
Offered(ready) ==
  \/ ctl.at = "loop" /\ ready = ctl.ready
  \/ \E from \in 1..(Len(tasks) + 1) : Scanned(from, ready)

LEMMA OfferedFacts ==
  ASSUME CInv, callback = << >>, NEW ready, Offered(ready)
  PROVE  /\ ready \subseteq Tasks
         /\ \A t \in ready : status[t] = "PENDING" /\ Settled(t) /\ Open(t)
         /\ baseline \in ready => status[configAudit] = "COMPLETED" \/ configAudit \in ready
         /\ ctl.at \in {"loop", "scan"}
<1>0. /\ tasks \in Seq(Tasks) /\ ctl.ready \subseteq Tasks
      /\ ctl.at \in {"loop", "scan"}
  BY DEF Offered, Scanned, Scanning, CInv, IInv, TypeOK, Controls
<1>1. \A t \in ctl.ready : status[t] = "PENDING" /\ Settled(t)
  BY DEF CInv, IInv, ReadyInv, TasksInv
<1>2. CASE ctl.at = "loop" /\ ready = ctl.ready
  BY <1>0, <1>1, <1>2 DEF CInv, AuditInv, Open
<1>3. ASSUME NEW from \in 1..(Len(tasks) + 1), Scanned(from, ready)
      PROVE  /\ ready \subseteq Tasks
             /\ \A t \in ready : status[t] = "PENDING" /\ Settled(t)
             /\ baseline \in ready => status[configAudit] = "COMPLETED" \/ configAudit \in ready
  <2>1. \A n \in from..Len(tasks) : tasks[n] \in Tasks
    BY <1>0, LenProperties, ElementOfSeq
  <2>2. ready = ctl.ready \cup {t \in {tasks[n] : n \in from..Len(tasks)} : IsReady(t)}
    BY <1>3 DEF Scanned, ReadyUpTo
  <2>3. ready \subseteq Tasks /\ \A t \in ready : status[t] = "PENDING" /\ Settled(t)
    BY <1>0, <1>1, <2>1, <2>2 DEF IsReady, Settled
  <2>4. ASSUME baseline \in ready, status[configAudit] # "COMPLETED"
        PROVE  configAudit \in ready
    <3>1. status[baseline] = "PENDING" /\ status[timeline] = "COMPLETED"
      BY <2>3, <2>4, Plan DEF Settled
    <3>2. ctl.at = "loop" /\ from = 1
      BY <1>3, <3>1, NothingFailed DEF Scanned, Scanning, CInv, TasksInv
    <3>3. ~TimelineEnding
      BY <3>2, Callbacks DEF TimelineEnding
    <3>4. status[configAudit] = "PENDING"
      BY <2>4, <3>1, <3>2, <3>3, Plan DEF CInv, AuditInv, PacedInv, RunningInv, InFlight
    <3>5. IsReady(configAudit)
      BY <3>1, <3>4, Plan DEF IsReady
    <3>6. PICK n \in 1..Len(tasks) : tasks[n] = configAudit
      BY <3>4, Plan DEF CInv, PacedInv, RegisteredInv
    <3> QED
      BY <2>2, <3>2, <3>5, <3>6
  <2> QED
    BY <2>3, <2>4
<1> QED
  BY <1>0, <1>2, <1>3 DEF Offered, Open

\* A step that moves no task's status, starts none and makes none ready.
LEMMA TasksKept ==
  ASSUME CInv, UNCHANGED <<status, seen>>,
         DOMAIN attempts' = DOMAIN attempts,
         \A i \in DOMAIN attempts : attempts'[i].task = attempts[i].task,
         ctl'.ready \subseteq ctl.ready, ctl'.at = "scan" => ctl.at = "scan"
  PROVE  TasksInv'
<1>1. \A t : Taken(t)' <=> Taken(t)
  BY DEF Taken
<1>2. \A t : Settled(t)' <=> Settled(t)
  BY DEF Settled
<1> QED
  BY <1>1, <1>2 DEF CInv, TasksInv

LEMMA AuditKept ==
  ASSUME CInv, UNCHANGED <<status, faulty>>,
         ctl'.ready \in {ctl.ready, {}},
         TimelineEnding => TimelineEnding' \/ status[configAudit] # "ABSENT",
         ctl'.at \in {"failed", "reassigned"} => Current'.task # configAudit,
         ctl.at = "handler" =>
           (ctl'.at = "handler" /\ Current'.task = Current.task) \/ Current.task # configAudit
  PROVE  AuditInv'
BY DEF CInv, AuditInv, Taken

-----------------------------------------------------------------------------
(***************************************************************************)
(* The scheduler's steps.                                                  *)
(***************************************************************************)
\* A task is taken: the audit is before baseline, the risk gate only of an
\* incident that nobody paused.
LEMMA TakeCInv ==
  ASSUME CInv, callback = << >>, UNCHANGED <<approved, faulty, program, callback>>,
         IInv', PacedInv', NEW ready, Offered(ready), NEW t \in Tasks, Take(t, ready)
  PROVE  CInv'
<1>1. /\ ready \subseteq Tasks
      /\ \A u \in ready : status[u] = "PENDING" /\ Settled(u) /\ Open(u)
      /\ baseline \in ready => status[configAudit] = "COMPLETED" \/ configAudit \in ready
      /\ ctl.at \in {"loop", "scan"}
  BY OfferedFacts
<1>2. /\ t \in ready /\ status[t] = "PENDING" /\ Settled(t)
      /\ \A u \in ready : Rank[t] <= Rank[u]
      /\ shared.status = "RUNNING"
      /\ UNCHANGED <<tasks, seen, last, observed, reviewed, calls>>
  BY <1>1 DEF Take, GoesOn
<1>3. /\ TypeOK /\ status \in [Tasks -> TaskStatuses] /\ ctl \in Controls
  BY DEF CInv, IInv, TypeOK
<1>4. <<t, Revision>> \notin seen
  BY <1>2 DEF CInv, TasksInv
<1>5. program = "running" /\ ctl.caller = "run"
  BY <1>1 DEF CInv, ProgramInv
<1>6. PICK s \in {"RUNNING", "FAILED"} :
        /\ status' = [status EXCEPT ![t] = s]
        /\ ctl'.ready = ready \ {t} /\ ctl'.caller = "run"
        /\ shared'.status = "RUNNING"
        /\ s = "FAILED" => Candidates[t] = << >> /\ ctl'.at = "loop" /\ UNCHANGED attempts
        /\ s = "RUNNING" =>
             /\ ctl'.at = "handler" /\ Current'.task = t
             /\ DOMAIN attempts' = 1..(Len(attempts) + 1)
             /\ \A i \in DOMAIN attempts : attempts'[i] = attempts[i]
  <2>1. CASE Candidates[t] = << >>
    <3>1. ctl' = [ctl EXCEPT !.at = "loop", !.ready = ready \ {t}]
      BY <1>5, <2>1 DEF Take, Return
    <3>2. ctl'.ready = ready \ {t} /\ ctl'.caller = "run" /\ ctl'.at = "loop"
      BY <1>3, <1>5, <3>1 DEF Controls
    <3>3. shared'.status = "RUNNING" /\ status' = [status EXCEPT ![t] = "FAILED"] /\ UNCHANGED attempts
      BY <1>2, <2>1 DEF Take, Emit, EmitStatus
    <3> QED
      BY <2>1, <3>2, <3>3
  <2>2. CASE Candidates[t] # << >>
    <3>1. /\ Dispatch(t, 1, Revision)
          /\ ctl' = [ctl EXCEPT !.at = "handler", !.ready = ready \ {t}]
      BY <1>4, <2>2 DEF Take
    <3>2. /\ DOMAIN attempts' = 1..(Len(attempts) + 1)
          /\ \A i \in DOMAIN attempts : attempts'[i] = attempts[i]
          /\ Current'.task = t
      BY <1>3, <2>2, <3>1, DispatchFacts
    <3>3. status' = [status EXCEPT ![t] = "RUNNING"] /\ shared'.status = "RUNNING"
      BY <1>2, <3>1 DEF Dispatch, Emit, EmitStatus
    <3>4. ctl'.ready = ready \ {t} /\ ctl'.caller = "run" /\ ctl'.at = "handler"
      BY <1>3, <1>5, <3>1 DEF Controls
    <3> QED
      BY <3>2, <3>3, <3>4
  <2> QED
    BY <2>1, <2>2
<1>7. /\ status'[t] = s /\ \A u \in Tasks : u # t => status'[u] = status[u]
  BY <1>3, <1>6
<1>8. /\ \A u \in Tasks : status'[u] = "COMPLETED" <=> status[u] = "COMPLETED"
      /\ \A u \in Tasks : Taken(u)' <=> Taken(u) \/ u = t
  BY <1>2, <1>7 DEF Taken
<1>9. \A u \in Tasks : Settled(u)' <=> Settled(u)
  BY <1>8, DynamicSchedulerAssumption DEF Settled
<1>10. TasksInv'
  <2>1. \A key \in seen' : status'[key[1]] = "COMPLETED"
    BY <1>2, <1>8, <1>3 DEF CInv, TasksInv, TypeOK
  <2>2. \A u \in ctl'.ready : status'[u] = "PENDING"
    BY <1>1, <1>6, <1>7
  <2>3. \A i \in DOMAIN attempts' : Taken(attempts[i].task)'
    <3>1. /\ DOMAIN attempts = 1..Len(attempts) /\ Len(attempts) \in Nat
          /\ \A i \in DOMAIN attempts : attempts[i].task \in Tasks
      BY <1>3, AttemptType
    <3>2. \A i \in DOMAIN attempts : status'[attempts[i].task] \in {"RUNNING", "COMPLETED", "FAILED"}
      BY <1>8, <3>1 DEF CInv, TasksInv, Taken
    <3>3. CASE s = "FAILED"
      BY <1>6, <3>2, <3>3 DEF Taken
    <3>4. CASE s = "RUNNING"
      <4>1. /\ DOMAIN attempts' = 1..(Len(attempts) + 1)
            /\ \A i \in DOMAIN attempts : attempts'[i] = attempts[i]
            /\ attempts'[Len(attempts')].task = t
        BY <1>6, <3>4 DEF Current
      <4>2. Len(attempts') = Len(attempts) + 1
        BY <3>1, <4>1, LenProperties DEF IInv, TypeOK
      <4>3. ASSUME NEW i \in DOMAIN attempts'
            PROVE  Taken(attempts[i].task)'
        <5>1. CASE i = Len(attempts) + 1
          BY <1>6, <1>7, <4>1, <4>2, <5>1 DEF Taken
        <5>2. CASE i \in DOMAIN attempts
          BY <3>2, <4>1, <5>2 DEF Taken
        <5> QED
          BY <3>1, <4>1, <5>1, <5>2
      <4> QED
        BY <4>3
    <3> QED
      BY <3>3, <3>4
  <2>4. \A u \in Tasks : Taken(u)' => Settled(u)'
    BY <1>2, <1>8, <1>9 DEF CInv, TasksInv
  <2> QED
    <3>1. ctl'.at # "scan"
      BY <1>6
    <3> QED
      BY <2>1, <2>2, <2>3, <2>4, <3>1 DEF TasksInv
<1>11. ProgramInv'
  <2>1. timeline \in Tasks
    BY Plan
  <2> QED
    BY <1>2, <1>5, <1>6, <1>8, <2>1, Callbacks DEF CInv, ProgramInv
<1>12. AuditInv'
  <2>1. t = configAudit => s = "RUNNING" /\ status[timeline] = "COMPLETED"
    BY <1>2, <1>6, Plan, PlanAssumption DEF Settled
  <2>2. configAudit \in ready => t = configAudit
    BY <1>2, Plan
  <2>3. t = baseline => status[configAudit] = "COMPLETED"
    BY <1>1, <1>2, <2>2, Plan
  <2>4. status[configAudit] = "ABSENT" => status[timeline] # "COMPLETED"
    <3>1. ~TimelineEnding
      BY <1>1, Callbacks DEF TimelineEnding
    <3> QED
      BY <3>1 DEF CInv, AuditInv
  <2>5. {timeline, baseline, configAudit} \subseteq Tasks
    BY Plan
  <2>6. baseline \in ctl'.ready =>
          status'[configAudit] = "COMPLETED" \/ (ctl'.at = "handler" /\ Current'.task = configAudit)
    BY <1>1, <1>6, <1>8, <2>1, <2>2, <2>5
  <2> QED
    BY <1>6, <1>7, <1>8, <2>1, <2>3, <2>4, <2>5, <2>6 DEF CInv, AuditInv
<1>13. GateInv'
  <2>1. ~approved => status[tournament] # "COMPLETED"
    BY <1>1, <1>2, Callbacks DEF CInv, GateInv
  <2>2. ~approved => t # riskGate
    BY <1>2, <2>1, Plan DEF Settled
  <2>3. riskGate \in Tasks /\ tournament \in Tasks
    BY Plan
  <2> QED
    BY <1>6, <1>8, <2>1, <2>2, <2>3 DEF CInv, GateInv
<1> QED
  BY <1>10, <1>11, <1>12, <1>13 DEF CInv

\* A pass ends, or a task that awaits a failed one is cancelled.
LEMMA CancelCInv ==
  ASSUME CInv, callback = << >>, UNCHANGED <<approved, faulty, program, callback>>,
         IInv', PacedInv', NEW from \in 1..(Len(tasks) + 1), CancelDoomed(from)
  PROVE  CInv'
<1>0. /\ status \in [Tasks -> TaskStatuses] /\ ctl \in Controls /\ tasks \in Seq(Tasks)
  BY DEF CInv, IInv, TypeOK
<1>1. PICK n \in from..Len(tasks) :
        /\ IsDoomed(tasks[n])
        /\ status' = [status EXCEPT ![tasks[n]] = "CANCELLED"]
        /\ ctl' = [ctl EXCEPT !.at = "scan", !.index = n + 1, !.ready = ReadyUpTo(from, n - 1)]
  BY DEF CancelDoomed
<1>2. PICK u \in Tasks : u = tasks[n]
  BY <1>0, <1>1, LenProperties, ElementOfSeq
<1>3. PICK f \in DependsOn[u] : f \in Tasks /\ status[f] = "FAILED" /\ status[u] = "PENDING"
  BY <1>1, <1>2, DynamicSchedulerAssumption DEF IsDoomed
<1>4. /\ status'[u] = "CANCELLED" /\ \A t \in Tasks : t # u => status'[t] = status[t]
      /\ ctl'.at = "scan" /\ ctl'.caller = ctl.caller /\ ctl'.ready = ReadyUpTo(from, n - 1)
  BY <1>0, <1>1, <1>2 DEF Controls
<1>5. \A t \in ctl'.ready : status[t] = "PENDING" /\ Settled(t) /\ t \in Tasks /\ t # u
  <2>1. \A m \in from..(n - 1) : tasks[m] \in Tasks
    BY <1>0, LenProperties, ElementOfSeq
  <2>2. \A t \in ctl.ready : status[t] = "PENDING" /\ Settled(t) /\ t \in Tasks
    BY <1>0 DEF CInv, IInv, ReadyInv, TasksInv, Controls
  <2>3. \A t \in ctl'.ready : status[t] = "PENDING" /\ Settled(t) /\ t \in Tasks
    BY <1>4, <2>1, <2>2 DEF ReadyUpTo, IsReady, Settled
  <2> QED
    BY <1>3, <2>3 DEF Settled
<1>6. /\ UNCHANGED <<tasks, attempts, seen>> /\ shared'.status = shared.status
      /\ ctl.at \in {"loop", "scan"}
  BY DEF CancelDoomed, Emit, EmitStatus, Scanning
<1>7. program = "running" /\ ctl.caller = "run"
  BY <1>6 DEF CInv, ProgramInv
<1>8. \A t \in Tasks : /\ status'[t] = "COMPLETED" <=> status[t] = "COMPLETED"
                       /\ Taken(t)' <=> Taken(t)
                       /\ status'[t] = "ABSENT" <=> status[t] = "ABSENT"
  BY <1>3, <1>4 DEF Taken
<1>9. \A t \in Tasks : Settled(t)' <=> Settled(t)
  BY <1>8, DynamicSchedulerAssumption DEF Settled
<1>10. TasksInv'
  <2>1. \A key \in seen' : status'[key[1]] = "COMPLETED"
    BY <1>6, <1>8 DEF CInv, IInv, TypeOK, TasksInv
  <2>2. \A i \in DOMAIN attempts' : Taken(attempts[i].task)'
    <3>1. DOMAIN attempts = 1..Len(attempts) /\ \A i \in DOMAIN attempts : attempts[i].task \in Tasks
      BY AttemptType DEF CInv, IInv
    <3>2. \A i \in DOMAIN attempts : status'[attempts[i].task] \in {"RUNNING", "COMPLETED", "FAILED"}
      BY <1>8, <3>1 DEF CInv, TasksInv, Taken
    <3> QED
      BY <1>6, <3>2 DEF Taken
  <2>3. \E t \in Tasks : status'[t] = "FAILED"
    BY <1>3, <1>4
  <2>4. \A t \in ctl'.ready : status'[t] = "PENDING"
    BY <1>4, <1>5
  <2>5. \A t \in Tasks : Taken(t)' => Settled(t)'
    BY <1>8, <1>9 DEF CInv, TasksInv
  <2> QED
    BY <2>1, <2>2, <2>3, <2>4, <2>5 DEF TasksInv
<1>11. ProgramInv'
  BY <1>4, <1>6, <1>7, <1>8, Callbacks DEF CInv, ProgramInv
<1>12. AuditInv'
  <2>1. u # configAudit
    <3>1. u = configAudit => f = timeline /\ status[timeline] = "COMPLETED"
      BY <1>3, Plan DEF CInv, AuditInv
    <3> QED
      BY <1>3, <3>1
  <2>2. baseline \notin ctl'.ready
    <3>1. baseline \in ctl'.ready => status[timeline] = "COMPLETED" /\ status[baseline] = "PENDING"
      BY <1>5, Plan DEF Settled
    <3> QED
      BY <1>3, <3>1, NothingFailed
  <2>3. status[configAudit] = "ABSENT" => status[timeline] # "COMPLETED"
    <3>1. ~TimelineEnding
      BY <1>6, Callbacks DEF TimelineEnding
    <3> QED
      BY <3>1 DEF CInv, AuditInv
  <2>4. {timeline, baseline, configAudit} \subseteq Tasks
    BY Plan
  <2> QED
    BY <1>4, <1>8, <2>1, <2>2, <2>3, <2>4 DEF CInv, AuditInv
<1>13. GateInv'
  <2>1. riskGate \in Tasks /\ tournament \in Tasks
    BY Plan
  <2> QED
    BY <1>6, <1>8, <2>1, Callbacks DEF CInv, GateInv
<1> QED
  BY <1>10, <1>11, <1>12, <1>13 DEF CInv

LEMMA EndOfPassCInv ==
  ASSUME CInv, callback = << >>, UNCHANGED <<approved, faulty, program, callback>>,
         IInv', PacedInv',
         Stop \/ \E from \in 1..(Len(tasks) + 1) : Stall(from) \/ StopAfterScan(from)
  PROVE  CInv'
<1>1. /\ ctl.at \in {"loop", "scan"} /\ ctl' = [ctl EXCEPT !.at = "idle"]
      /\ UNCHANGED <<tasks, status, attempts, seen>>
      /\ shared'.status \in {shared.status, "BLOCKED", "COMPLETED"}
  BY DEF Stop, Stall, StopAfterScan, Scanned, Scanning, Goto, EmitStatus
<1>2. ctl'.at = "idle" /\ ctl'.caller = ctl.caller /\ ctl'.ready = ctl.ready
  BY <1>1 DEF CInv, IInv, TypeOK, Controls
<1>3. program = "running"
  BY <1>1 DEF CInv, ProgramInv
<1>4. TasksInv'
  BY <1>1, <1>2, TasksKept
<1>5. ~TimelineEnding
  BY <1>1, Callbacks DEF TimelineEnding
<1>6. AuditInv'
  BY <1>1, <1>2, <1>5, AuditKept
<1>7. ProgramInv'
  BY <1>1, <1>2, <1>3, Callbacks DEF CInv, ProgramInv
<1>8. GateInv'
  BY <1>1, Callbacks DEF CInv, GateInv, Taken
<1> QED
  BY <1>4, <1>6, <1>7, <1>8 DEF CInv

\* The task in flight ends.
LEMMA EndingCInv ==
  ASSUME CInv, callback = << >>, UNCHANGED <<approved, faulty, program, callback>>,
         IInv', PacedInv', Succeed \/ Escalate
  PROVE  CInv'
<1>1. InFlight /\ ctl.at \in {"handler", "failed"} /\ UNCHANGED tasks
  BY DEF Succeed, Escalate, InFlight
<1>2. PICK u \in Tasks : /\ u = Current.task /\ Open(u) /\ Settled(u) /\ u \notin ctl.ready
                         /\ attempts # << >>
  BY <1>1, Flying DEF CInv
<1>3. /\ TypeOK /\ status \in [Tasks -> TaskStatuses] /\ ctl \in Controls
  BY DEF CInv, IInv, TypeOK
<1>4. Taken(u)
  <2>1. Len(attempts) \in DOMAIN attempts
    BY <1>1, <1>3, Flying, AttemptType DEF CInv
  <2> QED
    BY <1>2, <2>1 DEF CInv, TasksInv, Current
<1>5. program = "running" /\ ctl.caller = "run"
  BY <1>1 DEF CInv, ProgramInv
<1>6. PICK s \in {"COMPLETED", "FAILED"} :
        /\ status' = [status EXCEPT ![u] = s]
        /\ ctl'.ready = ctl.ready /\ ctl'.caller = "run"
        /\ shared'.status = shared.status
        /\ DOMAIN attempts' = DOMAIN attempts
        /\ \A i \in DOMAIN attempts : attempts'[i].task = attempts[i].task
        /\ Current'.task = u
        /\ s = "COMPLETED" => ctl'.at = "updated" /\ \A key \in seen' : key \in seen \/ key[1] = u
        /\ s = "FAILED" => u # configAudit /\ ctl'.at = "loop" /\ UNCHANGED seen
  <2>1. CASE Succeed
    <3>1. /\ DOMAIN attempts' = DOMAIN attempts
          /\ \A i \in DOMAIN attempts : attempts'[i].task = attempts[i].task
          /\ Current'.task = u
      BY <1>2, <1>3, <2>1, FinishedFacts DEF Succeed
    <3>2. ctl'.ready = ctl.ready /\ ctl'.caller = "run" /\ ctl'.at = "updated"
      BY <1>3, <1>5, <2>1 DEF Succeed, Goto, Controls
    <3>3. /\ status' = [status EXCEPT ![u] = "COMPLETED"] /\ shared'.status = shared.status
          /\ \A key \in seen' : key \in seen \/ key[1] = u
      BY <1>2, <2>1 DEF Succeed, Emit, EmitStatus
    <3> QED
      BY <3>1, <3>2, <3>3
  <2>2. CASE Escalate
    <3>1. ctl' = [ctl EXCEPT !.at = "loop", !.ready = ctl.ready]
      BY <1>5, <2>2 DEF Escalate, Return
    <3>2. ctl'.ready = ctl.ready /\ ctl'.caller = "run" /\ ctl'.at = "loop"
      BY <1>3, <1>5, <3>1 DEF Controls
    <3>3. /\ status' = [status EXCEPT ![u] = "FAILED"] /\ shared'.status = shared.status
          /\ UNCHANGED <<attempts, seen>>
      BY <1>2, <2>2 DEF Escalate, Emit, EmitStatus
    <3>4. u # configAudit
      BY <1>2, <2>2 DEF Escalate, CInv, AuditInv
    <3> QED
      BY <1>2, <3>2, <3>3, <3>4 DEF Current
  <2> QED
    BY <2>1, <2>2
<1>7. status'[u] = s /\ \A t \in Tasks : t # u => status'[t] = status[t]
  BY <1>3, <1>6
<1>8. /\ \A t \in Tasks : status[t] = "COMPLETED" => status'[t] = "COMPLETED"
      /\ \A t \in Tasks : Taken(t)' <=> Taken(t)
  BY <1>2, <1>4, <1>7 DEF Taken, Open
<1>9. \A t \in Tasks : Settled(t) => Settled(t)'
  BY <1>8, DynamicSchedulerAssumption DEF Settled
<1>10. TasksInv'
  <2>1. \A key \in seen' : status'[key[1]] = "COMPLETED"
    BY <1>3, <1>6, <1>7, <1>8 DEF CInv, TasksInv, TypeOK
  <2>2. \A i \in DOMAIN attempts' : Taken(attempts[i].task)'
    <3>1. DOMAIN attempts = 1..Len(attempts) /\ \A i \in DOMAIN attempts : attempts[i].task \in Tasks
      BY <1>3, AttemptType
    <3>2. \A i \in DOMAIN attempts : status'[attempts[i].task] \in {"RUNNING", "COMPLETED", "FAILED"}
      BY <1>8, <3>1 DEF CInv, TasksInv, Taken
    <3> QED
      BY <1>6, <3>2 DEF Taken
  <2>3. \A t \in ctl'.ready : status'[t] = "PENDING"
    BY <1>2, <1>3, <1>6, <1>7 DEF CInv, TasksInv, Controls
  <2>4. \A t \in Tasks : Taken(t)' => Settled(t)'
    BY <1>8, <1>9 DEF CInv, TasksInv
  <2>5. ctl'.at # "scan"
    BY <1>6
  <2> QED
    BY <2>1, <2>2, <2>3, <2>4, <2>5 DEF TasksInv
<1>11. ProgramInv'
  <2>1. s = "COMPLETED" => attempts' # << >> /\ status'[Current'.task] = "COMPLETED"
    <3>1. DOMAIN attempts # {}
      BY <1>1, <1>3, Flying, AttemptType DEF CInv
    <3> QED
      BY <1>6, <1>7, <3>1
  <2>2. ctl'.at = "updated" => s = "COMPLETED"
    BY <1>6
  <2> QED
    BY <1>1, <1>5, <1>6, <2>1, <2>2, Callbacks DEF CInv, ProgramInv
<1>12. AuditInv'
  <2>1. {timeline, baseline, configAudit} \subseteq Tasks
    BY Plan
  <2>2. status[configAudit] = "ABSENT" => status[timeline] # "COMPLETED"
    <3>1. ~TimelineEnding
      BY <1>1, Callbacks DEF TimelineEnding
    <3> QED
      BY <3>1 DEF CInv, AuditInv
  <2>3. status'[timeline] = "COMPLETED" /\ status[timeline] # "COMPLETED" => TimelineEnding'
    BY <1>6, <1>7, <2>1 DEF TimelineEnding
  <2>4. u = configAudit => s = "COMPLETED"
    BY <1>6
  <2>5. u # configAudit => status'[configAudit] = status[configAudit]
    BY <1>7, <2>1
  <2>6. u = configAudit => status'[configAudit] = "COMPLETED" /\ status[configAudit] # "ABSENT"
    BY <1>2, <1>7, <2>4 DEF Open
  <2>7. ctl'.at \notin {"failed", "reassigned"}
    BY <1>6
  <2> QED
    BY <1>2, <1>6, <1>8, <2>1, <2>2, <2>3, <2>5, <2>6, <2>7 DEF CInv, AuditInv
<1>13. GateInv'
  <2>1. riskGate \in Tasks /\ tournament \in Tasks
    BY Plan
  <2>2. status'[tournament] = "COMPLETED" =>
          status[tournament] = "COMPLETED" \/ (ctl'.at = "updated" /\ Current'.task = tournament)
    BY <1>6, <1>7, <2>1
  <2>3. ctl.at # "updated" /\ callback # <<"pause">> /\ shared'.status = shared.status
    BY <1>1, <1>6, Callbacks
  <2> QED
    BY <1>6, <1>8, <2>1, <2>2, <2>3, Callbacks DEF CInv, GateInv
<1> QED
  BY <1>10, <1>11, <1>12, <1>13 DEF CInv

\* task_completed calls back: the end of timeline and of tournament have calls to
\* make, and nothing comes between.
LEMMA CompleteCInv ==
  ASSUME CInv, callback = << >>, UNCHANGED <<approved, faulty, program>>,
         IInv', PacedInv', Complete, callback' = OnCompleted(Current.task)
  PROVE  CInv'
<1>1. /\ ctl.at = "updated" /\ UNCHANGED <<tasks, status, attempts, seen>>
      /\ shared'.status = shared.status
  BY DEF Complete, Emit, EmitStatus
<1>2. program = "running" /\ ctl.caller = "run" /\ status[Current.task] = "COMPLETED"
  BY <1>1 DEF CInv, ProgramInv
<1>3. ctl' = [ctl EXCEPT !.at = "loop", !.ready = ctl.ready]
  BY <1>2 DEF Complete, Return
<1>4. ctl'.at = "loop" /\ ctl'.caller = "run" /\ ctl'.ready = ctl.ready
  BY <1>2, <1>3 DEF CInv, IInv, TypeOK, Controls
<1>5. AfterPatch' = AfterPatch /\ PatchCallback \in AfterPatch /\ TimelineCallback \in AfterTimeline
  BY DEF AfterPatch, PatchCallback, AfterTimeline
<1>6. \/ Current.task = timeline /\ callback' = TimelineCallback
      \/ Current.task = tournament /\ callback' = PatchCallback
      \/ Current.task \notin {timeline, tournament} /\ callback' = << >>
  BY Plan DEF OnCompleted
<1>7. TasksInv'
  BY <1>1, <1>4, TasksKept
<1>8. AuditInv'
  <2>1. TimelineEnding => TimelineEnding'
    BY <1>5, <1>6, Plan, Callbacks DEF TimelineEnding
  <2> QED
    BY <1>1, <1>4, <2>1, AuditKept
<1>9. ProgramInv'
  BY <1>1, <1>2, <1>4, <1>5, <1>6, Callbacks DEF CInv, ProgramInv
<1>10. GateInv'
  <2>1. ~(approved /\ shared.status = "PAUSED_AWAITING_HUMAN")
    BY Callbacks DEF CInv, GateInv
  <2>2. ~approved /\ Current.task = tournament => callback' = <<"pause">>
    BY <1>6, Plan DEF PatchCallback
  <2> QED
    BY <1>1, <2>1, <2>2, Callbacks DEF CInv, GateInv, Taken
<1> QED
  BY <1>7, <1>8, <1>9, <1>10 DEF CInv

\* A handler raises, never that of the audit, and its task is given to another
\* worker.
LEMMA FailingCInv ==
  ASSUME CInv, callback = << >>, UNCHANGED <<approved, faulty, program, callback>>,
         IInv', PacedInv', (Raises /\ Raise) \/ Reassign
  PROVE  CInv'
<1>1. /\ InFlight /\ ctl.at # "updated" /\ UNCHANGED <<tasks, status, seen>>
      /\ shared'.status = shared.status
  BY DEF Raise, Reassign, InFlight, Emit, EmitStatus
<1>2. /\ TypeOK /\ attempts # << >> /\ Len(attempts) \in DOMAIN attempts
      /\ DOMAIN attempts = 1..Len(attempts)
  BY <1>1, Flying, AttemptType DEF CInv, IInv
<1>3. program = "running" /\ ctl.caller = "run"
  BY <1>1 DEF CInv, ProgramInv, InFlight
<1>4. Current.task # configAudit
  <2>1. CASE Reassign
    BY <2>1 DEF Reassign, CInv, AuditInv
  <2>2. CASE Raises
    <3>1. Current.attempt > 0 /\ Current.attempt \in Nat
      BY <1>1, <1>2, Flying DEF CInv, PacedInv, NumberInv, Current, Attempts
    <3>2. FailurePlan(configAudit) = 0
      BY Plan DEF FailurePlan
    <3>3. configAudit \notin faulty
      BY PlanAssumption DEF CInv, AuditInv
    <3> QED
      BY <2>2, <3>1, <3>2, <3>3 DEF Raises
  <2> QED
    BY <2>1, <2>2
<1>5. /\ DOMAIN attempts' = DOMAIN attempts
      /\ \A i \in DOMAIN attempts : attempts'[i].task = attempts[i].task
      /\ Current'.task = Current.task
  <2>1. CASE Raise
    BY <1>2, <2>1, FinishedFacts DEF Raise
  <2>2. CASE Reassign
    BY <2>2 DEF Reassign, Current
  <2> QED
    BY <2>1, <2>2
<1>6. ctl'.at \in {"failed", "reassigned"} /\ ctl'.caller = "run" /\ ctl'.ready = ctl.ready
  BY <1>2, <1>3 DEF Raise, Reassign, Goto, TypeOK, Controls
<1>7. TasksInv'
  BY <1>1, <1>5, <1>6, TasksKept
<1>8. AuditInv'
  <2>1. ~TimelineEnding
    BY <1>1, Callbacks DEF TimelineEnding
  <2> QED
    BY <1>1, <1>4, <1>5, <1>6, <2>1, AuditKept
<1>9. ProgramInv'
  BY <1>1, <1>3, <1>6, Callbacks DEF CInv, ProgramInv
<1>10. GateInv'
  BY <1>1, Callbacks DEF CInv, GateInv, Taken
<1> QED
  BY <1>7, <1>8, <1>9, <1>10 DEF CInv

\* The other worker gets the task: no key answers a task that is still open.
LEMMA RetryCInv ==
  ASSUME CInv, callback = << >>, UNCHANGED <<approved, faulty, program, callback>>,
         IInv', PacedInv', Retry
  PROVE  CInv'
<1>1. InFlight /\ ctl.at = "reassigned" /\ UNCHANGED <<tasks, seen>>
  BY DEF Retry, InFlight
<1>2. /\ TypeOK /\ ctl \in Controls /\ Len(attempts) \in DOMAIN attempts
      /\ DOMAIN attempts = 1..Len(attempts)
  BY <1>1, Flying, AttemptType DEF CInv, IInv, TypeOK
<1>3. PICK u \in Tasks : u = Current.task /\ Open(u) /\ Candidates[u] # << >> /\ u # configAudit
  BY <1>1, Flying DEF CInv, AuditInv
<1>4. program = "running" /\ ctl.caller = "run"
  BY <1>1 DEF CInv, ProgramInv
<1>5. PICK n \in Nat \ {0} : n = Current.attempt + 1 /\ n # 1
  <2>1. Current.attempt > 0 /\ Current.attempt \in Nat
    BY <1>1, <1>2, Flying DEF CInv, PacedInv, NumberInv, Current, Attempts
  <2> QED
    BY <2>1
<1>6. <<u, Revision>> \notin seen
  BY <1>3 DEF CInv, TasksInv, Open
<1>7. Dispatch(u, n, Revision) /\ Goto("handler")
  BY <1>3, <1>5, <1>6 DEF Retry
<1>8. /\ DOMAIN attempts' = 1..(Len(attempts) + 1)
      /\ \A i \in DOMAIN attempts : attempts'[i] = attempts[i]
      /\ Current'.task = u
  BY <1>2, <1>3, <1>7, DispatchFacts
<1>9. UNCHANGED status /\ shared'.status = shared.status
  BY <1>5, <1>7 DEF Dispatch, Emit, EmitStatus
<1>10. ctl'.at = "handler" /\ ctl'.caller = "run" /\ ctl'.ready = ctl.ready
  BY <1>2, <1>4, <1>7 DEF Goto, Controls
<1>11. TasksInv'
  <2>1. \A i \in DOMAIN attempts' : Taken(attempts[i].task)'
    <3>1. Len(attempts') = Len(attempts) + 1
      BY <1>2, <1>8, LenProperties DEF IInv, TypeOK
    <3>2. Taken(u)
      BY <1>2, <1>3 DEF CInv, TasksInv, Current
    <3>3. ASSUME NEW i \in DOMAIN attempts'
          PROVE  status[attempts'[i].task] \in {"RUNNING", "COMPLETED", "FAILED"}
      <4>1. CASE i \in DOMAIN attempts
        BY <1>8, <4>1 DEF CInv, TasksInv, Taken
      <4>2. CASE i = Len(attempts')
        BY <1>8, <3>2, <4>2 DEF Current, Taken
      <4> QED
        BY <1>2, <1>8, <3>1, <4>1, <4>2
    <3> QED
      BY <1>9, <3>3 DEF Taken
  <2> QED
    BY <1>1, <1>9, <1>10, <2>1 DEF CInv, TasksInv, Taken, Settled
<1>12. AuditInv'
  <2>1. ~TimelineEnding
    BY <1>1, Callbacks DEF TimelineEnding
  <2> QED
    BY <1>1, <1>9, <1>10, <2>1, AuditKept
<1>13. ProgramInv'
  BY <1>1, <1>4, <1>9, <1>10, Callbacks DEF CInv, ProgramInv
<1>14. GateInv'
  BY <1>1, <1>9, Callbacks DEF CInv, GateInv, Taken
<1> QED
  BY <1>11, <1>12, <1>13, <1>14 DEF CInv

-----------------------------------------------------------------------------
(***************************************************************************)
(* The client's steps.                                                     *)
(***************************************************************************)
LEMMA RegisterKept ==
  ASSUME CInv, NEW t \in Tasks, Register(t)
  PROVE  /\ TasksInv' /\ UNCHANGED ctl /\ status'[t] = "PENDING" /\ status[t] = "ABSENT"
         /\ \A u \in Tasks : u # t => status'[u] = status[u]
         /\ \A u \in Tasks : Taken(u)' <=> Taken(u)
         /\ Len(tasks') = Len(tasks) + 1
         /\ shared'.status = shared.status
         /\ UNCHANGED attempts
<1>1. /\ TypeOK /\ status \in [Tasks -> TaskStatuses] /\ tasks \in Seq(Tasks)
      /\ ctl.ready \subseteq Tasks /\ seen \subseteq Tasks \X Nat
      /\ \A i \in DOMAIN attempts : attempts[i].task \in Tasks
  BY AttemptType DEF CInv, IInv, TypeOK, Controls
<1>2. /\ UNCHANGED <<attempts, seen, ctl>> /\ status[t] = "ABSENT"
      /\ status' = [status EXCEPT ![t] = "PENDING"]
      /\ tasks' = Append(tasks, t)
      /\ shared'.status = shared.status
  BY DEF Register, Emit, EmitStatus
<1>3. status'[t] = "PENDING" /\ \A u \in Tasks : u # t => status'[u] = status[u]
  BY <1>1, <1>2
<1>4. \A u \in Tasks : /\ Taken(u)' <=> Taken(u)
                       /\ status'[u] = "COMPLETED" <=> status[u] = "COMPLETED"
  BY <1>2, <1>3 DEF Taken
<1>5. \A u \in Tasks : Settled(u)' <=> Settled(u)
  BY <1>4, DynamicSchedulerAssumption DEF Settled
<1>6. TasksInv'
  <2>1. \A i \in DOMAIN attempts' : Taken(attempts[i].task)'
    <3>1. \A i \in DOMAIN attempts : status'[attempts[i].task] \in {"RUNNING", "COMPLETED", "FAILED"}
      BY <1>1, <1>4 DEF CInv, TasksInv, Taken
    <3> QED
      BY <1>2, <3>1 DEF Taken
  <2>2. \A u \in ctl'.ready : status'[u] = "PENDING"
    BY <1>1, <1>2, <1>3 DEF CInv, TasksInv
  <2>3. \A key \in seen' : status'[key[1]] = "COMPLETED"
    BY <1>1, <1>2, <1>4 DEF CInv, TasksInv
  <2>4. \A u \in Tasks : Taken(u)' => Settled(u)'
    BY <1>4, <1>5 DEF CInv, TasksInv
  <2>5. ctl'.at # "scan"
    BY <1>2 DEF Register
  <2> QED
    BY <2>1, <2>2, <2>3, <2>4, <2>5 DEF TasksInv
<1>7. Len(tasks') = Len(tasks) + 1
  BY <1>1, <1>2, AppendProperties
<1> QED
  BY <1>2, <1>3, <1>4, <1>6, <1>7

\* The program registers its tasks before it calls run.
LEMMA RegisterTasksCInv ==
  ASSUME CInv, IInv', PacedInv', RegisterTasks
  PROVE  CInv'
<1>1. /\ program = "register" /\ ctl.at = "idle" /\ callback = << >> /\ ctl.caller = "run"
      /\ UNCHANGED <<approved, faulty, callback>>
      /\ Len(tasks) < 5 /\ Len(tasks) \in Nat
  BY LenProperties DEF RegisterTasks, CInv, ProgramInv, Registered, IInv, TypeOK
<1>2. PICK t : t = Registered[Len(tasks) + 1] /\ Register(t)
  BY DEF RegisterTasks
<1>3. t \in {timeline, baseline, hypotheses, tournament, riskGate}
  <2>1. Len(tasks) + 1 \in 1..5
    BY <1>1
  <2> QED
    BY <1>2, <2>1 DEF Registered
<1>4. t \in Tasks /\ t # configAudit
  BY <1>3, Plan
<1>5. /\ TasksInv' /\ UNCHANGED ctl /\ status'[t] = "PENDING" /\ status[t] = "ABSENT"
      /\ \A u \in Tasks : u # t => status'[u] = status[u]
      /\ \A u \in Tasks : Taken(u)' <=> Taken(u)
      /\ Len(tasks') = Len(tasks) + 1
      /\ shared'.status = shared.status
  BY <1>2, <1>4, RegisterKept
<1>6. {timeline, baseline, tournament, riskGate, configAudit} \subseteq Tasks
  BY Plan
<1>7. ProgramInv'
  <2>1. program' \in {"register", "call"} /\ (program' = "register" => Len(tasks') < Len(Registered))
    BY <1>1, <1>5 DEF RegisterTasks, Registered
  <2> QED
    BY <1>1, <1>5, <2>1, Callbacks DEF CInv, ProgramInv
<1>8. AuditInv'
  <2>1. status'[timeline] = "COMPLETED" <=> status[timeline] = "COMPLETED"
    BY <1>5, <1>6
  <2>2. ~TimelineEnding
    BY <1>1, Callbacks DEF TimelineEnding
  <2> QED
    BY <1>1, <1>4, <1>5, <1>6, <2>1, <2>2 DEF CInv, AuditInv
<1>9. GateInv'
  <2>1. status'[tournament] = "COMPLETED" <=> status[tournament] = "COMPLETED"
    BY <1>5, <1>6
  <2> QED
    BY <1>1, <1>5, <1>6, <2>1, Callbacks DEF CInv, GateInv
<1> QED
  BY <1>5, <1>7, <1>8, <1>9 DEF CInv

LEMMA CallRunCInv ==
  ASSUME CInv, IInv', PacedInv', CallRun
  PROVE  CInv'
<1>1. /\ program = "call" /\ program' = "running" /\ ctl.at = "idle" /\ callback = << >>
      /\ UNCHANGED <<tasks, status, attempts, seen, shared, approved, faulty, callback>>
  BY DEF CallRun, Run, At, CInv, ProgramInv
<1>2. ctl'.at = "loop" /\ ctl'.caller = "run" /\ ctl'.ready = {}
  BY DEF CallRun, Run, CInv, IInv, TypeOK, Controls
<1>3. TasksInv'
  BY <1>1, <1>2, TasksKept
<1>4. AuditInv'
  <2>1. ~TimelineEnding
    BY <1>1, Callbacks DEF TimelineEnding
  <2> QED
    BY <1>1, <1>2, <2>1, AuditKept
<1>5. ProgramInv'
  BY <1>1, <1>2, Callbacks DEF CInv, ProgramInv
<1>6. GateInv'
  BY <1>1, <1>2, Callbacks DEF CInv, GateInv, Taken
<1> QED
  BY <1>3, <1>4, <1>5, <1>6 DEF CInv

\* The program goes on without the scheduler.
LEMMA QuietCInv ==
  ASSUME CInv, IInv', PacedInv',
         UNCHANGED <<tasks, status, attempts, seen, shared, reviewed, ctl>>,
         UNCHANGED <<approved, faulty, callback>>,
         program' = program \/ (ctl.at = "idle" /\ program' # "register")
  PROVE  CInv'
<1>1. TasksInv'
  BY TasksKept
<1>2. AuditInv'
  BY DEF CInv, AuditInv, TimelineEnding, Taken, Current
<1>3. ProgramInv'
  BY Callbacks DEF CInv, ProgramInv, Current, AfterPatch, PatchCallback
<1>4. GateInv'
  BY DEF CInv, GateInv, Taken, Current, Revision
<1> QED
  BY <1>1, <1>2, <1>3, <1>4 DEF CInv

\* A task whose result is on record is answered from the record.
LEMMA ReplayCInv ==
  ASSUME CInv, IInv', PacedInv', ReplayBaseline
  PROVE  CInv'
<1>1. baseline \in Tasks /\ status \in [Tasks -> TaskStatuses]
  BY Plan DEF CInv, IInv, TypeOK
<1>2. status[baseline] = "COMPLETED" /\ <<baseline, ReplayKey(baseline)>> \in seen
  BY <1>1 DEF ReplayBaseline, Replay, ReplayKey, CInv, IInv, KeysInv
<1>3. /\ UNCHANGED <<tasks, attempts, seen, shared, reviewed, ctl>>
      /\ status' = [status EXCEPT ![baseline] = "COMPLETED"]
  BY <1>2 DEF ReplayBaseline, Replay, Deduplicate
<1>4. UNCHANGED status
  BY <1>1, <1>2, <1>3
<1> QED
  BY <1>3, <1>4, QuietCInv DEF ReplayBaseline, Replay, At

\* A call of a callback that registers nothing.
LEMMA CallKept ==
  ASSUME CInv, CallBack, UNCHANGED <<tasks, status, attempts, seen, ctl>>,
         callback' # << >> => callback' \in AfterTimeline \cup AfterPatch,
         callback' \in AfterTimeline <=> callback \in AfterTimeline
  PROVE  TasksInv' /\ ProgramInv' /\ AuditInv'
<1>1. /\ callback # << >> /\ ctl.at = "loop" /\ UNCHANGED <<approved, faulty, program>>
      /\ program = "running"
  BY DEF CallBack, CInv, ProgramInv
<1>2. AfterPatch' = AfterPatch
  BY <1>1 DEF AfterPatch, PatchCallback
<1>3. TasksInv'
  BY TasksKept
<1>4. ProgramInv'
  BY <1>1, <1>2, Callbacks DEF CInv, ProgramInv
<1>5. AuditInv'
  BY <1>1, AuditKept DEF TimelineEnding
<1> QED
  BY <1>3, <1>4, <1>5

\* What is left of each callback after its first call.
LEMMA CallsLeft ==
  /\ Head(TimelineCallback) = "ingest-config"
  /\ Tail(TimelineCallback) = <<"ingest-config", "register-audit">>
  /\ Head(<<"ingest-config", "register-audit">>) = "ingest-config"
  /\ Tail(<<"ingest-config", "register-audit">>) = <<"register-audit">>
  /\ Tail(<<"ingest-slo", "resume", "review", "resume">>) = <<"resume", "review", "resume">>
  /\ Tail(<<"resume", "review", "resume">>) = <<"review", "resume">>
  /\ Tail(<<"review", "resume">>) = <<"resume">>
  /\ Tail(<<"resume">>) = << >>
<1>1. Tail(TimelineCallback) = <<"ingest-config", "register-audit">>
  BY DEF TimelineCallback
<1>2. Tail(<<"ingest-config", "register-audit">>) = <<"register-audit">>
  OBVIOUS
<1>3. Tail(<<"ingest-slo", "resume", "review", "resume">>) = <<"resume", "review", "resume">>
  OBVIOUS
<1>4. Tail(<<"resume", "review", "resume">>) = <<"review", "resume">>
  OBVIOUS
<1>5. Tail(<<"review", "resume">>) = <<"resume">> /\ Tail(<<"resume">>) = << >>
  OBVIOUS
<1>6. /\ Head(TimelineCallback) = "ingest-config"
      /\ Head(<<"ingest-config", "register-audit">>) = "ingest-config"
  BY DEF TimelineCallback
<1> QED
  BY <1>1, <1>2, <1>3, <1>4, <1>5, <1>6

\* The callback of timeline observes the evidence and registers the audit.
LEMMA TimelineCallCInv ==
  ASSUME CInv, IInv', PacedInv', CallBack, callback \in AfterTimeline
  PROVE  CInv'
<1>1. /\ callback # << >> /\ ctl.at = "loop" /\ UNCHANGED <<approved, faulty, program>>
      /\ program = "running" /\ ctl.caller = "run" /\ status[timeline] = "COMPLETED"
      /\ callback' = Tail(callback)
      /\ Perform(Head(callback))
  BY DEF CallBack, CInv, ProgramInv
<1>2. /\ ~(approved /\ shared.status = "PAUSED_AWAITING_HUMAN")
      /\ ~approved /\ status[tournament] = "COMPLETED" => shared.status # "RUNNING"
      /\ ~approved => ~Taken(riskGate)
  BY <1>1, Callbacks DEF CInv, GateInv, AfterPatch
<1>3. CASE callback \in {TimelineCallback, <<"ingest-config", "register-audit">>}
  <2>1. /\ Head(callback) = "ingest-config"
        /\ callback' \in {<<"ingest-config", "register-audit">>, <<"register-audit">>}
    BY <1>1, <1>3, CallsLeft
  <2>2. IngestEvidence(configPool)
    BY <1>1, <2>1 DEF Perform
  <2>3. UNCHANGED <<tasks, status, attempts, seen, ctl>> /\ shared'.status = shared.status
    BY <2>2 DEF IngestEvidence, Emit, EmitStatus
  <2>4. callback' \in AfterTimeline
    BY <2>1 DEF AfterTimeline
  <2>5. TasksInv' /\ ProgramInv' /\ AuditInv'
    BY <2>3, <2>4, CallKept
  <2>6. GateInv'
    BY <1>1, <1>2, <2>3 DEF GateInv, Taken
  <2> QED
    BY <2>5, <2>6 DEF CInv
<1>4. CASE callback = <<"register-audit">>
  <2>1. Head(callback) = "register-audit" /\ callback' = << >>
    BY <1>1, <1>4
  <2>2. Register(configAudit) /\ configAudit \in Tasks
    BY <1>1, <2>1, Plan DEF Perform
  <2>3. /\ TasksInv' /\ UNCHANGED <<ctl, attempts>>
        /\ status'[configAudit] = "PENDING" /\ status[configAudit] = "ABSENT"
        /\ \A u \in Tasks : u # configAudit => status'[u] = status[u]
        /\ \A u \in Tasks : Taken(u)' <=> Taken(u)
        /\ shared'.status = shared.status
    BY <2>2, RegisterKept
  <2>4. {timeline, baseline, tournament, riskGate} \subseteq Tasks \ {configAudit}
    BY Plan
  <2>5. ProgramInv'
    BY <1>1, <2>1, <2>3, Callbacks DEF CInv, ProgramInv
  <2>6. AuditInv'
    <3>1. baseline \notin ctl.ready
      BY <1>1, <2>3 DEF CInv, AuditInv, TasksInv
    <3>2. ~Taken(baseline)
      BY <2>3 DEF CInv, AuditInv
    <3> QED
      BY <1>1, <2>3, <2>4, <3>1, <3>2 DEF CInv, AuditInv
  <2>7. GateInv'
    BY <1>1, <1>2, <2>3, <2>4 DEF GateInv
  <2> QED
    BY <2>3, <2>5, <2>6, <2>7 DEF CInv
<1> QED
  BY <1>3, <1>4 DEF AfterTimeline

\* The callback of tournament pauses the incident, and resumes it for a person
\* who has seen all that there is.
LEMMA PatchCallCInv ==
  ASSUME CInv, IInv', PacedInv', CallBack, callback \in AfterPatch
  PROVE  CInv'
<1>1. /\ callback # << >> /\ ctl.at = "loop" /\ UNCHANGED <<approved, faulty, program>>
      /\ callback' = Tail(callback) /\ approved \in BOOLEAN
      /\ Perform(Head(callback))
  BY DEF CallBack, CInv, ProgramInv
<1>2. callback \notin AfterTimeline
  BY Callbacks
<1>3. ~approved => ~Taken(riskGate)
  BY DEF CInv, GateInv
<1>4. CASE callback = PatchCallback
  <2>1. Head(callback) = "pause"
    BY <1>4 DEF PatchCallback
  <2>2. Pause
    BY <1>1, <2>1 DEF Perform
  <2>3. /\ UNCHANGED <<tasks, status, attempts, seen, ctl>>
        /\ shared'.status = "PAUSED_AWAITING_HUMAN"
    BY <2>2 DEF Pause, EmitStatus
  <2>4. /\ approved => callback' = <<"ingest-slo", "resume", "review", "resume">>
        /\ ~approved => callback' = << >>
    BY <1>1, <1>4 DEF PatchCallback
  <2>5. approved => callback' \in AfterPause /\ callback' # <<"resume">>
    BY <2>4 DEF AfterPause
  <2>6. callback' # << >> => callback' \in AfterPatch
    BY <2>4, <2>5 DEF AfterPatch
  <2>7. TasksInv' /\ ProgramInv' /\ AuditInv'
    BY <1>1, <1>2, <2>3, <2>4, <2>6, Callbacks, CallKept
  <2>8. GateInv'
    BY <1>1, <1>3, <2>3, <2>5 DEF GateInv, Taken
  <2> QED
    BY <2>7, <2>8 DEF CInv
<1>5. CASE approved /\ callback \in AfterPause
  <2>0. /\ callback = <<"ingest-slo", "resume", "review", "resume">> =>
              callback' = <<"resume", "review", "resume">>
        /\ callback = <<"resume", "review", "resume">> => callback' = <<"review", "resume">>
        /\ callback = <<"review", "resume">> => callback' = <<"resume">>
        /\ callback = <<"resume">> => callback' = << >>
    BY <1>1, CallsLeft
  <2>1. callback' # << >> => callback' \in AfterPause
    BY <1>5, <2>0 DEF AfterPause
  <2>2. callback' # << >> => callback' \in AfterPatch
    BY <1>5, <2>1 DEF AfterPatch
  <2>3. IngestEvidence(postPatchSlo) \/ Resume \/ Review
    BY <1>1, <1>5 DEF AfterPause, Perform
  <2>4. UNCHANGED <<tasks, status, attempts, seen, ctl>>
    BY <2>3 DEF IngestEvidence, Resume, Review
  <2>5. TasksInv' /\ ProgramInv' /\ AuditInv'
    BY <1>2, <2>2, <2>4, Callbacks, CallKept
  <2>6. GateInv'
    <3>1. SUFFICES ASSUME shared'.status = "PAUSED_AWAITING_HUMAN"
                   PROVE  /\ callback' \in AfterPause
                          /\ callback' = <<"resume">> => reviewed' = Revision'
      BY <1>1, <1>5 DEF GateInv
    <3>2. callback = <<"review", "resume">> => reviewed' = Revision'
      BY <1>1 DEF Perform, Review, Revision
    <3>3. callback' = <<"resume">> => callback = <<"review", "resume">>
      BY <1>5, <2>0 DEF AfterPause
    <3>4. callback # <<"resume">>
      <4>1. ASSUME callback = <<"resume">>
            PROVE  FALSE
        <5>1. Resume
          BY <1>1, <4>1 DEF Perform
        <5>2. reviewed = Revision
          BY <1>5, <4>1, <5>1 DEF Resume, CInv, GateInv
        <5> QED
          BY <3>1, <5>1, <5>2 DEF Resume, EmitStatus
      <4> QED
        BY <4>1
    <3>5. callback' # << >>
      BY <1>5, <2>0, <3>4 DEF AfterPause
    <3> QED
      BY <2>1, <3>2, <3>3, <3>5
  <2> QED
    BY <2>5, <2>6 DEF CInv
<1> QED
  BY <1>4, <1>5 DEF AfterPatch

-----------------------------------------------------------------------------
LEMMA InitCInv ==
  CoordinationInit => CInv
<1> SUFFICES ASSUME CoordinationInit
             PROVE  CInv
  OBVIOUS
<1>1. IInv /\ PacedInv
  BY InitIInv, PacedInit DEF CoordinationInit
<1>2. /\ approved \in BOOLEAN /\ faulty \subseteq MayRaise /\ program = "register" /\ callback = << >>
      /\ ctl.at = "idle" /\ ctl.caller = "run" /\ ctl.ready = {}
      /\ seen = {} /\ DOMAIN attempts = {} /\ tasks = << >>
      /\ \A t \in Tasks : status[t] = "ABSENT"
      /\ shared.status = "RUNNING"
  BY DEF CoordinationInit, Init
<1>3. TasksInv
  BY <1>2 DEF TasksInv, Taken
<1>4. {timeline, baseline, tournament, riskGate, configAudit} \subseteq Tasks
  BY Plan
<1>5. ProgramInv
  BY <1>2, Callbacks DEF ProgramInv, Registered
<1>6. AuditInv /\ GateInv
  BY <1>2, <1>4 DEF AuditInv, GateInv, Taken
<1> QED
  BY <1>1, <1>3, <1>5, <1>6 DEF CInv

LEMMA NextCInv ==
  ASSUME CInv, [CoordinationNext]_all_vars
  PROVE  CInv'
<1>1. IInv' /\ PacedInv'
  BY SchedulerKept
<1>2. CASE RegisterTasks
  BY <1>1, <1>2, RegisterTasksCInv
<1>3. CASE CallRun
  BY <1>1, <1>3, CallRunCInv
<1>4. CASE Schedule
  <2>1. callback = << >> /\ UNCHANGED <<approved, faulty, program>>
    BY <1>4 DEF Schedule
  <2>2. CASE Complete /\ callback' = OnCompleted(Current.task)
    BY <1>1, <2>1, <2>2, CompleteCInv
  <2>3. CASE UNCHANGED callback /\ (Handler \/ Reassign \/ Retry \/ Escalate)
    <3>1. (Raises /\ Raise) \/ Reassign \/ Retry \/ Succeed \/ Escalate
      BY <2>3 DEF Handler
    <3> QED
      BY <1>1, <2>1, <2>3, <3>1, FailingCInv, RetryCInv, EndingCInv
  <2>4. CASE UNCHANGED callback /\ (Stop \/ Scan \/ TakeNext)
    <3>1. CASE Stop
      BY <1>1, <2>1, <2>4, <3>1, EndOfPassCInv
    <3>2. CASE TakeNext
      <4>1. PICK t \in Tasks : Take(t, ctl.ready)
        BY <3>2 DEF TakeNext
      <4>2. Offered(ctl.ready)
        BY <3>2 DEF TakeNext, Offered
      <4> QED
        BY <1>1, <2>1, <2>4, <4>1, <4>2, TakeCInv
    <3>3. CASE Scan
      <4>1. PICK from \in 1..(Len(tasks) + 1) :
              CancelDoomed(from) \/ Stall(from) \/ StopAfterScan(from) \/ TakeFirst(from)
        BY <3>3 DEF Scan
      <4>2. CASE TakeFirst(from)
        <5>1. PICK ready \in SUBSET Tasks : Scanned(from, ready) /\ \E t \in Tasks : Take(t, ready)
          BY <4>2 DEF TakeFirst
        <5>2. PICK t \in Tasks : Take(t, ready)
          BY <5>1
        <5>3. Offered(ready)
          BY <5>1 DEF Offered
        <5> QED
          BY <1>1, <2>1, <2>4, <5>2, <5>3, TakeCInv
      <4>3. CASE CancelDoomed(from)
        BY <1>1, <2>1, <2>4, <4>3, CancelCInv
      <4>4. CASE Stall(from) \/ StopAfterScan(from)
        BY <1>1, <2>1, <2>4, <4>4, EndOfPassCInv
      <4> QED
        BY <4>1, <4>2, <4>3, <4>4
    <3> QED
      BY <2>4, <3>1, <3>2, <3>3
  <2> QED
    BY <1>4, <2>2, <2>3, <2>4 DEF Schedule
<1>5. CASE CallBack
  <2>1. callback \in AfterTimeline \cup AfterPatch
    BY <1>5 DEF CallBack, CInv, ProgramInv
  <2> QED
    BY <1>1, <1>5, <2>1, TimelineCallCInv, PatchCallCInv
<1>6. CASE Returned \/ Collect \/ UNCHANGED all_vars
  BY <1>1, <1>6, QuietCInv DEF Returned, Collect, At, all_vars, vars, program_vars
<1>7. CASE ReplayBaseline
  BY <1>1, <1>7, ReplayCInv
<1> QED
  BY <1>2, <1>3, <1>4, <1>5, <1>6, <1>7 DEF CoordinationNext

LEMMA SpecCInv ==
  CoordinationSpec => []CInv
<1> QED
  BY InitCInv, NextCInv, PTL DEF CoordinationSpec

\* Whatever fails and is retried, the risk gate starts only of an approved
\* incident, and an approved incident awaits nobody once run has returned
\* (on_event, orchestrator.py 208-224).
THEOREM GateIsHeld ==
  CoordinationSpec => []GateAwaitsApproval
<1>1. CInv => GateAwaitsApproval
  <2> SUFFICES ASSUME CInv
               PROVE  GateAwaitsApproval
    OBVIOUS
  <2>1. UnapprovedStopsAtTheGate
    BY DEF UnapprovedStopsAtTheGate, Started, CInv, TasksInv, GateInv
  <2>2. ApprovedIsResumed
    BY Callbacks DEF ApprovedIsResumed, CInv, ProgramInv, GateInv, AfterPatch
  <2> QED
    BY <2>1, <2>2 DEF GateAwaitsApproval
<1> QED
  BY <1>1, SpecCInv, PTL

\* No patch competes before the audit that the new evidence asked for, though it
\* is registered between the scans of run (orchestrator.py 188-206, 249-268).
THEOREM AuditBeforePatches ==
  CoordinationSpec => []EvidenceIsAuditedFirst
<1>1. CInv => EvidenceIsAuditedFirst
  <2> SUFFICES ASSUME CInv, Started(tournament)
               PROVE  status[configAudit] = "COMPLETED"
    BY DEF EvidenceIsAuditedFirst
  <2>1. status[hypotheses] = "COMPLETED"
    BY Plan DEF Started, CInv, IInv, AttemptsInv, Settled
  <2>2. Taken(hypotheses) /\ hypotheses \in Tasks
    BY <2>1, Plan DEF Taken
  <2>3. Taken(baseline)
    BY <2>2, Plan DEF CInv, TasksInv, Settled, Taken
  <2> QED
    BY <2>3 DEF CInv, AuditInv
<1> QED
  BY <1>1, SpecCInv, PTL

=============================================================================
