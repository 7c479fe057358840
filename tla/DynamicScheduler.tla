-------------------------- MODULE DynamicScheduler --------------------------
(***************************************************************************)
(* The event-driven task scheduler of dynamic.py.                          *)
(*                                                                         *)
(* The scheduler is single-threaded, but every event it emits runs the     *)
(* on_event callback before the next statement, and a callback (like a     *)
(* task's handler) may register and cancel tasks, ingest evidence, pause   *)
(* and resume.  So one step here is the code between two emitted events,   *)
(* and the client's calls may come between any two steps.  A client calls  *)
(* run and replay only when neither is active.                             *)
(*                                                                         *)
(* Of an event only its effect on the revision is kept; the idempotency    *)
(* key digests the task and the revision it ran at, and is that pair.      *)
(***************************************************************************)
EXTENDS Integers, Sequences, FiniteSets

CONSTANTS
  Tasks,          \* the task ids a client may register
  Workers,        \* the worker names
  Evidence,       \* the evidence event ids that clients deliver
  DependsOn,      \* DependsOn[t]: the tasks whose completion t awaits
  Rank,           \* Rank[t]: the place of t in the order by priority and id
  Candidates,     \* Candidates[t]: the workers capable of t, best first
  MaxAttempts,    \* MaxAttempts[t]: the attempts t may take
  MaxCalls        \* bound: calls to cancel, ingest_evidence, pause, resume and replay

ASSUME DynamicSchedulerAssumption ==
  /\ DependsOn \in [Tasks -> SUBSET Tasks]
  /\ Rank \in [Tasks -> Nat]
  /\ \A t, u \in Tasks : Rank[t] = Rank[u] => t = u
  /\ Candidates \in [Tasks -> Seq(Workers)]
  /\ MaxAttempts \in [Tasks -> Nat \ {0}]
  /\ MaxCalls \in Nat

VARIABLES
  tasks,      \* the registered tasks in registration order (a Python dict)
  status,     \* task_status; ABSENT before registration
  attempts,   \* the TaskAttempt records, oldest first
  seen,       \* the keys of _seen_idempotency
  last,       \* _last_idempotency: the revision of t's last key, 0 if none
  shared,     \* status and revision of SharedIncidentState
  observed,   \* the revision each evidence id was observed at, 0 if unseen
  reviewed,   \* the revision the human awaited last read, else 0
  ctl,        \* where run or replay is, and the locals of run
  calls       \* number of bounded client calls so far

vars == <<tasks, status, attempts, seen, last, shared, observed, reviewed, ctl, calls>>

TaskStatuses == {"ABSENT", "PENDING", "RUNNING", "COMPLETED", "FAILED", "CANCELLED"}

SharedStatuses == {"RUNNING", "PAUSED_AWAITING_HUMAN", "BLOCKED", "COMPLETED"}

Attempts ==
  [task : Tasks, attempt : Nat, worker : Workers, revision : Nat,
   status : {"RUNNING", "COMPLETED", "FAILED"}]

\* at names the point between two events; ready holds the tasks of run's ready
\* list not taken yet (the list is sorted by rank), index is _ready's place in
\* tasks.  The locals of _run_task are those of the last attempt.
Points == {"idle", "loop", "scan", "handler", "failed", "reassigned", "updated"}

Controls ==
  [at : Points, caller : {"run", "replay"}, index : Nat, ready : SUBSET Tasks]

TypeOK ==
  /\ tasks \in Seq(Tasks)
  /\ status \in [Tasks -> TaskStatuses]
  /\ attempts \in Seq(Attempts)
  /\ seen \subseteq Tasks \X Nat
  /\ last \in [Tasks -> Nat]
  /\ shared \in [status : SharedStatuses, revision : Nat]
  /\ observed \in [Evidence -> Nat]
  /\ reviewed \in Nat
  /\ ctl \in Controls
  /\ calls \in 0..MaxCalls

Init ==
  /\ tasks = << >>
  /\ status = [t \in Tasks |-> "ABSENT"]
  /\ attempts = << >>
  /\ seen = {}
  /\ last = [t \in Tasks |-> 0]
  /\ shared = [status |-> "RUNNING", revision |-> 0]
  /\ observed = [e \in Evidence |-> 0]
  /\ reviewed = 0
  /\ ctl = [at |-> "idle", caller |-> "run", index |-> 1, ready |-> {}]
  /\ calls = 0

-----------------------------------------------------------------------------
(***************************************************************************)
(* Emitting an event, possibly with a change of the incident's status.     *)
(***************************************************************************)
Revision == shared.revision

EmitStatus(s) == shared' = [status |-> s, revision |-> Revision + 1]

Emit == EmitStatus(shared.status)

Call ==
  /\ calls < MaxCalls
  /\ calls' = calls + 1

-----------------------------------------------------------------------------
(***************************************************************************)
(* The client's calls.                                                     *)
(***************************************************************************)
\* _ready iterates over the dict that register grows, which raises: no client
\* registers while a cancellation of _ready calls back.
Register(t) ==
  /\ status[t] = "ABSENT"
  /\ ctl.at # "scan"
  /\ tasks' = Append(tasks, t)
  /\ status' = [status EXCEPT ![t] = "PENDING"]
  /\ Emit
  /\ UNCHANGED <<attempts, seen, last, observed, reviewed, ctl, calls>>

Cancel(t) ==
  /\ status[t] \notin {"ABSENT", "COMPLETED", "CANCELLED"}
  /\ Call
  /\ status' = [status EXCEPT ![t] = "CANCELLED"]
  /\ Emit
  /\ UNCHANGED <<tasks, attempts, seen, last, observed, reviewed, ctl>>

IngestEvidence(e) ==
  /\ Call
  /\ IF observed[e] # 0
     THEN UNCHANGED <<shared, observed>>
     ELSE Emit /\ observed' = [observed EXCEPT ![e] = Revision + 1]
  /\ UNCHANGED <<tasks, status, attempts, seen, last, reviewed, ctl>>

\* The human awaited looks at the scheduler's revision.
Review ==
  /\ shared.status = "PAUSED_AWAITING_HUMAN"
  /\ reviewed # Revision
  /\ reviewed' = Revision
  /\ UNCHANGED <<tasks, status, attempts, seen, last, shared, observed, ctl, calls>>

\* pause returns the checkpoint revision, which is its own event's.
Pause ==
  /\ Call
  /\ EmitStatus("PAUSED_AWAITING_HUMAN")
  /\ reviewed' = Revision + 1
  /\ UNCHANGED <<tasks, status, attempts, seen, last, observed, ctl>>

\* The human approves the revision read last.  A mutant accepts any approval.
ResumeUnchecked ==
  /\ shared.status = "PAUSED_AWAITING_HUMAN"
  /\ Call
  /\ EmitStatus("RUNNING")
  /\ reviewed' = 0
  /\ UNCHANGED <<tasks, status, attempts, seen, last, observed, ctl>>

Resume ==
  /\ shared.status = "PAUSED_AWAITING_HUMAN"
  /\ Call
  /\ IF reviewed = Revision THEN EmitStatus("RUNNING") /\ reviewed' = 0
                            ELSE Emit /\ UNCHANGED reviewed
  /\ UNCHANGED <<tasks, status, attempts, seen, last, observed, ctl>>

Client ==
  \/ \E t \in Tasks : Register(t) \/ Cancel(t)
  \/ \E e \in Evidence : IngestEvidence(e)
  \/ Review
  \/ Pause
  \/ Resume

-----------------------------------------------------------------------------
(***************************************************************************)
(* run: scan for ready tasks, run each, repeat.                            *)
(***************************************************************************)
Goto(point) == ctl' = [ctl EXCEPT !.at = point]

Run ==
  /\ ctl.at = "idle"
  /\ shared.status = "RUNNING"
  /\ ctl' = [ctl EXCEPT !.at = "loop", !.caller = "run", !.ready = {}]
  /\ UNCHANGED <<tasks, status, attempts, seen, last, shared, observed, reviewed, calls>>

\* The while and the for loop go on only while the incident is RUNNING.  A
\* mutant never looks at the status.
GoesOnRegardless == TRUE

GoesOn == shared.status = "RUNNING"

Stop ==
  /\ ctl.at = "loop"
  /\ ~GoesOn
  /\ Goto("idle")
  /\ UNCHANGED <<tasks, status, attempts, seen, last, shared, observed, reviewed, calls>>

\* A mutant asks only that no dependency is still to run.
IsReadyEarly(t) ==
  /\ status[t] = "PENDING"
  /\ \A d \in DependsOn[t] : status[d] # "PENDING"

IsReady(t) ==
  /\ status[t] = "PENDING"
  /\ \A d \in DependsOn[t] : status[d] = "COMPLETED"

\* A mutant never cancels the dependents of a failed task.
IsDoomedNever(t) == FALSE

IsDoomed(t) ==
  /\ status[t] = "PENDING"
  /\ \E d \in DependsOn[t] : status[d] = "FAILED"

\* _ready is at tasks[from]: at the start of a pass, or after a cancellation.
Scanning(from) ==
  \/ ctl.at = "loop" /\ GoesOn /\ ctl.ready = {} /\ from = 1
  \/ ctl.at = "scan" /\ from = ctl.index

ReadyUpTo(from, to) == ctl.ready \cup {t \in {tasks[n] : n \in from..to} : IsReady(t)}

\* _ready cancels a task with a failed dependency, and calls back.
CancelDoomed(from) ==
  /\ Scanning(from)
  /\ \E n \in from..Len(tasks) :
       /\ IsDoomed(tasks[n])
       /\ \A m \in from..(n - 1) : ~IsDoomed(tasks[m])
       /\ status' = [status EXCEPT ![tasks[n]] = "CANCELLED"]
       /\ ctl' = [ctl EXCEPT !.at = "scan", !.index = n + 1, !.ready = ReadyUpTo(from, n - 1)]
  /\ Emit
  /\ UNCHANGED <<tasks, attempts, seen, last, observed, reviewed, calls>>

\* _ready reaches the end of tasks and returns the ready ones.
Scanned(from, ready) ==
  /\ Scanning(from)
  /\ \A n \in from..Len(tasks) : ~IsDoomed(tasks[n])
  /\ ready = ReadyUpTo(from, Len(tasks))

\* Nothing is ready: the incident is blocked or completed, whatever its status
\* was.  A mutant waits for the tasks still pending.
StallWhenSettled(from) ==
  /\ Scanned(from, {})
  /\ \A t \in Tasks : status[t] # "PENDING"
  /\ EmitStatus("COMPLETED")
  /\ Goto("idle")
  /\ UNCHANGED <<tasks, status, attempts, seen, last, observed, reviewed, calls>>

Stall(from) ==
  /\ Scanned(from, {})
  /\ EmitStatus(IF \E t \in Tasks : status[t] = "PENDING" THEN "BLOCKED" ELSE "COMPLETED")
  /\ Goto("idle")
  /\ UNCHANGED <<tasks, status, attempts, seen, last, observed, reviewed, calls>>

\* A callback of this scan paused the incident: no task is taken.
StopAfterScan(from) ==
  /\ \E ready \in SUBSET Tasks \ {{}} : Scanned(from, ready)
  /\ ~GoesOn
  /\ Goto("idle")
  /\ UNCHANGED <<tasks, status, attempts, seen, last, shared, observed, reviewed, calls>>

-----------------------------------------------------------------------------
(***************************************************************************)
(* _run_task.                                                              *)
(***************************************************************************)
\* _run_task is over: back to the loop of run, or out of replay.
Return(ready) ==
  ctl' = [ctl EXCEPT !.at = IF ctl.caller = "run" THEN "loop" ELSE "idle", !.ready = ready]

\* _worker_for(spec, n).
WorkerFor(t, n) ==
  Candidates[t][IF n < Len(Candidates[t]) THEN n ELSE Len(Candidates[t])]

\* The n-th attempt of t under a key: answered from the idempotency records, or
\* dispatched.
Deduplicate(t) ==
  /\ status' = [status EXCEPT ![t] = "COMPLETED"]
  /\ UNCHANGED <<attempts, shared>>

Dispatch(t, n, key) ==
  /\ attempts' = Append(attempts,
       [task |-> t, attempt |-> n, worker |-> WorkerFor(t, n), revision |-> key,
        status |-> "RUNNING"])
  /\ status' = IF n = 1 THEN [status EXCEPT ![t] = "RUNNING"] ELSE status
  /\ Emit

\* run takes a ready task t, whatever t's status has become since the scan.
Take(t, ready) ==
  /\ t \in ready
  /\ \A u \in ready : Rank[t] <= Rank[u]
  /\ GoesOn
  /\ IF Candidates[t] = << >>
     THEN /\ status' = [status EXCEPT ![t] = "FAILED"]
          /\ Emit
          /\ Return(ready \ {t})
          /\ UNCHANGED attempts
     ELSE IF <<t, Revision>> \in seen
     THEN /\ Deduplicate(t)
          /\ Return(ready \ {t})
     ELSE /\ Dispatch(t, 1, Revision)
          /\ ctl' = [ctl EXCEPT !.at = "handler", !.ready = ready \ {t}]
  /\ UNCHANGED <<tasks, seen, last, observed, reviewed, calls>>

TakeNext ==
  /\ ctl.at = "loop"
  /\ \E t \in Tasks : Take(t, ctl.ready)

TakeFirst(from) ==
  \E ready \in SUBSET Tasks : Scanned(from, ready) /\ \E t \in Tasks : Take(t, ready)

Current == attempts[Len(attempts)]

Finished(s) == [attempts EXCEPT ![Len(attempts)].status = s]

\* The handler returns: the result is recorded under the attempt's key.
Succeed ==
  /\ ctl.at = "handler"
  /\ attempts' = Finished("COMPLETED")
  /\ seen' = seen \cup {<<Current.task, Current.revision>>}
  /\ last' = [last EXCEPT ![Current.task] = Current.revision]
  /\ status' = [status EXCEPT ![Current.task] = "COMPLETED"]
  /\ Goto("updated")
  /\ Emit
  /\ UNCHANGED <<tasks, observed, reviewed, calls>>

\* After state_updated comes task_completed.
Complete ==
  /\ ctl.at = "updated"
  /\ Return(ctl.ready)
  /\ Emit
  /\ UNCHANGED <<tasks, status, attempts, seen, last, observed, reviewed, calls>>

\* The failure plan or the handler raises.
Raise ==
  /\ ctl.at = "handler"
  /\ attempts' = Finished("FAILED")
  /\ Goto("failed")
  /\ Emit
  /\ UNCHANGED <<tasks, status, seen, last, observed, reviewed, calls>>

Reassign ==
  /\ ctl.at = "failed"
  /\ Current.attempt < MaxAttempts[Current.task]
  /\ Goto("reassigned")
  /\ Emit
  /\ UNCHANGED <<tasks, status, attempts, seen, last, observed, reviewed, calls>>

Retry ==
  /\ ctl.at = "reassigned"
  /\ IF <<Current.task, Revision>> \in seen
     THEN Deduplicate(Current.task) /\ Return(ctl.ready)
     ELSE Dispatch(Current.task, Current.attempt + 1, Revision) /\ Goto("handler")
  /\ UNCHANGED <<tasks, seen, last, observed, reviewed, calls>>

Escalate ==
  /\ ctl.at = "failed"
  /\ Current.attempt >= MaxAttempts[Current.task]
  /\ status' = [status EXCEPT ![Current.task] = "FAILED"]
  /\ Return(ctl.ready)
  /\ Emit
  /\ UNCHANGED <<tasks, attempts, seen, last, observed, reviewed, calls>>

-----------------------------------------------------------------------------
(***************************************************************************)
(* replay: the acknowledgement of a completed task was lost, and the task  *)
(* is delivered again.  Every caller replays a completed task only.        *)
(***************************************************************************)
\* The key of the task's last result; a mutant computes a new one.
ReplayKeyFresh(t) == Revision

ReplayKey(t) == IF last[t] # 0 THEN last[t] ELSE Revision

Replay(t) ==
  /\ ctl.at = "idle"
  /\ status[t] = "COMPLETED"
  /\ Call
  /\ IF <<t, ReplayKey(t)>> \in seen
     THEN Deduplicate(t) /\ UNCHANGED ctl
     ELSE /\ Dispatch(t, 1, ReplayKey(t))
          /\ ctl' = [ctl EXCEPT !.at = "handler", !.caller = "replay", !.ready = {}]
  /\ UNCHANGED <<tasks, seen, last, observed, reviewed>>

-----------------------------------------------------------------------------
Scan ==
  \E from \in 1..(Len(tasks) + 1) :
    CancelDoomed(from) \/ Stall(from) \/ StopAfterScan(from) \/ TakeFirst(from)

Step ==
  \/ Stop
  \/ Scan
  \/ TakeNext
  \/ Succeed
  \/ Complete
  \/ Raise
  \/ Reassign
  \/ Retry
  \/ Escalate

Next ==
  \/ Client
  \/ Run
  \/ \E t \in Tasks : Replay(t)
  \/ Step

\* Once called, run and replay keep executing: a handler returns or raises.
Spec == Init /\ [][Next]_vars /\ WF_vars(Step)

-----------------------------------------------------------------------------

Runnable(t) == status[t] = "PENDING" /\ \A d \in DependsOn[t] : status[d] = "COMPLETED"

\* A task is dispatched only after everything it depends on has completed, and
\* what completed stays so (_ready, dynamic.py 238-249), though the ready list
\* may be stale by the time the task is taken.
DependenciesFirst ==
  \A i \in DOMAIN attempts :
    \A d \in DependsOn[attempts[i].task] : status[d] = "COMPLETED"

\* However often a task is retried, cancelled or replayed, its handler returns a
\* result at most once ("without invoking the handler", replay, 402-413).
ExecutedOnce ==
  \A i, j \in DOMAIN attempts :
    /\ attempts[i].task = attempts[j].task
    /\ attempts[i].status = "COMPLETED"
    /\ attempts[j].status = "COMPLETED"
    => i = j

\* While the incident awaits its human no new task starts: a pause from inside a
\* callback lets the task in flight go on with its retries, no other (run, 385-400).
PauseStartsNothing ==
  [][ shared.status # "RUNNING" =>
        \A i \in DOMAIN attempts' \ DOMAIN attempts : attempts'[i].attempt > 1 ]_attempts

\* An approval resumes the incident only if the human has seen all the evidence
\* observed so far (resume compares with the current revision, 219-236).
ResumesOnReviewedEvidence ==
  [][ shared.status = "PAUSED_AWAITING_HUMAN" /\ shared'.status = "RUNNING" =>
        \A e \in Evidence : observed[e] <= reviewed ]_shared

\* run gives up only when nothing can run: it ends COMPLETED with every task
\* settled, or BLOCKED on a dependency that was cancelled or never registered;
\* a failed dependency does not block, its dependents are cancelled (385-396).
StallsOnlyWhenStuck ==
  [][ /\ shared'.status = "COMPLETED" =>
           shared.status = "COMPLETED" \/ \A t \in Tasks : status[t] # "PENDING"
      /\ shared'.status = "BLOCKED" /\ shared.status # "BLOCKED" =>
           /\ \A t \in Tasks : ~Runnable(t)
           /\ \E t \in Tasks : /\ status[t] = "PENDING"
                               /\ \E d \in DependsOn[t] : status[d] \in {"ABSENT", "CANCELLED"}
    ]_shared

\* run and replay return: attempts, retries and callbacks come to an end.
RunReturns == ctl.at # "idle" ~> ctl.at = "idle"
=============================================================================
