----------------------- MODULE DynamicSchedulerProofs -----------------------
(***************************************************************************)
(* Proofs about DynamicScheduler: types, the order of dependencies, and    *)
(* that a task's handler returns a result at most once.                    *)
(*                                                                         *)
(* The argument: what is COMPLETED stays COMPLETED.  run's ready list may  *)
(* be stale, but its tasks are never COMPLETED and their dependencies      *)
(* always are; the task in flight is not COMPLETED either and not in the   *)
(* list; and a replayed task still has its last key among the records, so  *)
(* it is answered without a dispatch.                                      *)
(***************************************************************************)
EXTENDS DynamicScheduler, SequenceTheorems, WellFoundedInduction, TLAPS

Settled(t) == \A d \in DependsOn[t] : status[d] = "COMPLETED"

\* A task that may still be given to its handler.
Open(t) == status[t] \notin {"ABSENT", "COMPLETED"}

\* The last key of a task that has one is on record.
KeysInv ==
  /\ \A t \in Tasks : status[t] = "COMPLETED" => last[t] # 0
  /\ \A t \in Tasks : last[t] # 0 => <<t, last[t]>> \in seen
  /\ \A key \in seen : last[key[1]] # 0
  /\ \A t \in Tasks : status[t] # "ABSENT" => Revision > 0

ReadyInv == \A t \in ctl.ready : Open(t) /\ Settled(t)

InFlight == ctl.at \in {"handler", "failed", "reassigned"}

FlightInv ==
  InFlight =>
    /\ attempts # << >>
    /\ Open(Current.task)
    /\ Current.task \notin ctl.ready
    /\ Current.revision # 0

AttemptsInv ==
  \A i \in DOMAIN attempts :
    /\ Settled(attempts[i].task)
    /\ Candidates[attempts[i].task] # << >>
    /\ attempts[i].status = "COMPLETED" => status[attempts[i].task] = "COMPLETED"

IInv ==
  /\ TypeOK
  /\ KeysInv
  /\ ReadyInv
  /\ FlightInv
  /\ AttemptsInv
  /\ ExecutedOnce

-----------------------------------------------------------------------------
LEMMA AttemptType ==
  ASSUME TypeOK
  PROVE  /\ DOMAIN attempts = 1..Len(attempts) /\ Len(attempts) \in Nat
         /\ \A i \in 1..Len(attempts) : attempts[i] \in Attempts /\ attempts[i].task \in Tasks
         /\ attempts # << >> => Len(attempts) > 0 /\ Current \in Attempts /\ Current.task \in Tasks
<1>1. attempts \in Seq(Attempts)
  BY DEF TypeOK
<1>2. \A i \in 1..Len(attempts) : attempts[i] \in Attempts
  BY <1>1, ElementOfSeq
<1>3. \A a \in Attempts : a.task \in Tasks
  BY DEF Attempts
<1>4. attempts # << >> => Len(attempts) \in 1..Len(attempts)
  BY <1>1, EmptySeq
<1> QED
  BY <1>1, <1>2, <1>3, <1>4 DEF Current

LEMMA WorkerForType ==
  ASSUME NEW t \in Tasks, NEW n \in Nat \ {0}, Candidates[t] # << >>
  PROVE  WorkerFor(t, n) \in Workers
<1>1. Candidates[t] \in Seq(Workers) /\ Len(Candidates[t]) > 0
  BY DynamicSchedulerAssumption, EmptySeq
<1>2. (IF n < Len(Candidates[t]) THEN n ELSE Len(Candidates[t])) \in 1..Len(Candidates[t])
  BY <1>1
<1> QED
  BY <1>1, <1>2, ElementOfSeq DEF WorkerFor

LEMMA InitIInv ==
  Init => IInv
<1> SUFFICES ASSUME Init PROVE IInv
  OBVIOUS
<1>1. TypeOK
  BY DynamicSchedulerAssumption
     DEF Init, TypeOK, TaskStatuses, SharedStatuses, Controls, Points
<1> QED
  BY <1>1 DEF Init, IInv, KeysInv, ReadyInv, FlightInv, InFlight, AttemptsInv, ExecutedOnce, Revision

\* A step that completes no task, dispatches none and records no attempt.
LEMMA Steady ==
  ASSUME IInv, TypeOK',
         UNCHANGED <<attempts, seen, last>>,
         \A t \in Tasks : status'[t] = "COMPLETED" <=> status[t] = "COMPLETED",
         \A t \in Tasks : Open(t) => Open(t)',
         \A t \in Tasks : status'[t] = "ABSENT" \/ shared'.revision > 0,
         \A t \in ctl'.ready : Open(t) /\ Settled(t),
         InFlight' => InFlight /\ Current.task \notin ctl'.ready
  PROVE  IInv'
<1>1. /\ ctl'.ready \subseteq Tasks
      /\ \A i \in DOMAIN attempts : attempts[i].task \in Tasks
      /\ attempts # << >> => Current.task \in Tasks
  BY AttemptType DEF IInv, TypeOK, Controls
<1>2. \A t \in Tasks : Settled(t)' <=> Settled(t)
  BY DynamicSchedulerAssumption DEF Settled
<1>3. KeysInv'
  BY DEF IInv, KeysInv, Revision
<1>4. ReadyInv'
  BY <1>1, <1>2 DEF ReadyInv
<1>5. FlightInv'
  BY <1>1 DEF IInv, FlightInv, Current, Open
<1>6. AttemptsInv' /\ ExecutedOnce'
  BY <1>1, <1>2 DEF IInv, AttemptsInv, ExecutedOnce
<1> QED
  BY <1>3, <1>4, <1>5, <1>6 DEF IInv

\* The attempt of an open task whose dependencies have completed.
LEMMA Dispatched ==
  ASSUME IInv, TypeOK',
         NEW t \in Tasks, NEW n \in Nat \ {0},
         Open(t), Settled(t), Candidates[t] # << >>, Revision > 0,
         Dispatch(t, n, Revision),
         UNCHANGED <<seen, last>>,
         ctl'.at = "handler",
         t \notin ctl'.ready,
         \A u \in ctl'.ready : Open(u) /\ Settled(u)
  PROVE  IInv'
<1> DEFINE new == [task |-> t, attempt |-> n, worker |-> WorkerFor(t, n),
                   revision |-> Revision, status |-> "RUNNING"]
<1>1. attempts' = Append(attempts, new) /\ attempts \in Seq(Attempts)
  BY DEF Dispatch, IInv, TypeOK
<1>2. /\ DOMAIN attempts = 1..Len(attempts)
      /\ DOMAIN attempts' = 1..(Len(attempts) + 1)
      /\ Len(attempts) \in Nat
      /\ Len(attempts') = Len(attempts) + 1
      /\ attempts'[Len(attempts) + 1] = new
      /\ \A i \in 1..Len(attempts) : attempts'[i] = attempts[i] /\ attempts[i].task \in Tasks
  <2>1. new \in Attempts
    BY WorkerForType DEF IInv, TypeOK, Attempts, Revision
  <2>2. \A i \in 1..Len(attempts) : attempts[i].task \in Tasks
    BY AttemptType DEF IInv
  <2> HIDE DEF new
  <2> QED
    BY <1>1, <2>1, <2>2, AppendProperties
<1>3. new.task = t /\ new.status = "RUNNING" /\ new.revision = Revision
  OBVIOUS
<1> HIDE DEF new
<1>4. /\ \A u \in Tasks : status'[u] = "COMPLETED" <=> status[u] = "COMPLETED"
      /\ \A u \in Tasks : Open(u) => Open(u)'
      /\ \A u \in Tasks : status'[u] # "ABSENT" => status[u] # "ABSENT"
      /\ shared'.revision > 0
  BY DEF Dispatch, Open, Emit, EmitStatus, Revision, IInv, TypeOK
<1>5. \A u \in Tasks : Settled(u)' <=> Settled(u)
  BY <1>4, DynamicSchedulerAssumption DEF Settled
<1>6. KeysInv'
  BY <1>4 DEF IInv, KeysInv, Revision
<1>7. ReadyInv'
  BY <1>4, <1>5 DEF ReadyInv, TypeOK, Controls
<1>8. FlightInv'
  <2>1. Current' = new
    BY <1>2 DEF Current
  <2>2. attempts' # << >>
    BY <1>2
  <2> QED
    BY <1>3, <1>4, <2>1, <2>2 DEF FlightInv, Revision
<1>9. AttemptsInv'
  <2> SUFFICES ASSUME NEW i \in DOMAIN attempts'
               PROVE  /\ \A d \in DependsOn[attempts'[i].task] : status'[d] = "COMPLETED"
                      /\ Candidates[attempts'[i].task] # << >>
                      /\ attempts'[i].status = "COMPLETED" => status'[attempts'[i].task] = "COMPLETED"
    BY DEF AttemptsInv, Settled
  <2>1. CASE i = Len(attempts) + 1
    BY <1>2, <1>3, <1>5, <2>1 DEF Settled
  <2>2. CASE i \in 1..Len(attempts)
    BY <1>2, <1>4, <1>5, <2>2 DEF IInv, AttemptsInv, Settled
  <2> QED
    BY <1>2, <2>1, <2>2
<1>10. ExecutedOnce'
  BY <1>2, <1>3 DEF IInv, ExecutedOnce
<1> QED
  BY <1>6, <1>7, <1>8, <1>9, <1>10 DEF IInv

\* A key on record answers an open task: it completes, nothing is dispatched.
LEMMA Deduplicated ==
  ASSUME IInv, TypeOK',
         NEW t \in Tasks, NEW r \in Nat,
         Deduplicate(t), <<t, r>> \in seen,
         UNCHANGED <<seen, last>>,
         ~InFlight',
         t \notin ctl'.ready,
         status[t] # "ABSENT",
         \A u \in ctl'.ready : Open(u) /\ Settled(u)
  PROVE  IInv'
<1>1. /\ UNCHANGED <<attempts, shared>>
      /\ status'[t] = "COMPLETED"
      /\ \A u \in Tasks : u # t => status'[u] = status[u]
  BY DEF Deduplicate, IInv, TypeOK
<1>2. last[t] # 0
  BY DEF IInv, KeysInv
<1>3. \A u \in Tasks : Settled(u) => Settled(u)'
  BY <1>1, DynamicSchedulerAssumption DEF Settled
<1>4. KeysInv'
  BY <1>1, <1>2 DEF IInv, KeysInv, Revision
<1>5. ReadyInv'
  BY <1>1, <1>3 DEF ReadyInv, Open, TypeOK, Controls
<1>6. FlightInv'
  BY DEF FlightInv
<1>7. AttemptsInv' /\ ExecutedOnce'
  <2>1. \A i \in DOMAIN attempts : attempts[i].task \in Tasks
    BY AttemptType DEF IInv
  <2> QED
    BY <1>1, <1>3, <2>1 DEF IInv, AttemptsInv, ExecutedOnce, Settled
<1> QED
  BY <1>4, <1>5, <1>6, <1>7 DEF IInv
-----------------------------------------------------------------------------
(***************************************************************************)
(* Types.                                                                  *)
(***************************************************************************)
LEMMA EmitType ==
  ASSUME TypeOK, NEW s \in SharedStatuses, EmitStatus(s)
  PROVE  /\ shared' \in [status : SharedStatuses, revision : Nat]
         /\ shared'.revision = Revision + 1
  BY DEF TypeOK, EmitStatus, Revision

LEMMA EmitSameType ==
  ASSUME TypeOK, Emit
  PROVE  /\ shared' \in [status : SharedStatuses, revision : Nat]
         /\ shared'.revision = Revision + 1
  BY EmitType DEF TypeOK, Emit

LEMMA ControlType ==
  ASSUME TypeOK
  PROVE  /\ \A p \in Points : Goto(p) =>
               ctl' \in Controls /\ ctl'.ready = ctl.ready /\ ctl'.at = p
         /\ \A ready \in SUBSET Tasks : Return(ready) =>
               ctl' \in Controls /\ ctl'.ready = ready /\ ctl'.at \in {"loop", "idle"}
  BY DEF TypeOK, Controls, Points, Goto, Return

LEMMA DispatchType ==
  ASSUME TypeOK, NEW t \in Tasks, NEW n \in Nat \ {0}, Candidates[t] # << >>,
         Dispatch(t, n, Revision)
  PROVE  /\ attempts' \in Seq(Attempts)
         /\ status' \in [Tasks -> TaskStatuses]
         /\ shared' \in [status : SharedStatuses, revision : Nat]
<1>1. Revision \in Nat /\ WorkerFor(t, n) \in Workers
  BY WorkerForType DEF TypeOK, Revision
<1> DEFINE new == [task |-> t, attempt |-> n, worker |-> WorkerFor(t, n),
                   revision |-> Revision, status |-> "RUNNING"]
<1>2. new \in Attempts
  BY <1>1 DEF Attempts
<1>3. attempts' = Append(attempts, new) /\ attempts \in Seq(Attempts)
  BY DEF Dispatch, TypeOK
<1>4. attempts' \in Seq(Attempts)
  <2> HIDE DEF new
  <2> QED
    BY <1>2, <1>3, AppendProperties
<1> QED
  BY <1>4, EmitSameType DEF Dispatch, TypeOK, TaskStatuses

LEMMA ReadyType ==
  ASSUME TypeOK, NEW from \in 1..(Len(tasks) + 1), NEW to \in Nat, to <= Len(tasks)
  PROVE  ReadyUpTo(from, to) \in SUBSET Tasks
<1>1. \A n \in from..to : tasks[n] \in Tasks
  BY DEF TypeOK
<1> QED
  BY <1>1 DEF ReadyUpTo, TypeOK, Controls

\* The tasks of a scan are open and settled.
LEMMA ReadySound ==
  ASSUME ReadyInv, NEW from, NEW to
  PROVE  \A t \in ReadyUpTo(from, to) : Open(t) /\ Settled(t)
  BY DEF ReadyInv, ReadyUpTo, IsReady, Open, Settled

LEMMA ClientIInv ==
  ASSUME IInv, Client
  PROVE  IInv'
<1>0. TypeOK
  BY DEF IInv
<1>1. /\ \A t \in ctl.ready : Open(t) /\ Settled(t)
      /\ \A t \in Tasks : status[t] = "ABSENT" \/ Revision > 0
      /\ InFlight => Current.task \notin ctl.ready
      /\ Revision \in Nat /\ shared.status \in SharedStatuses
  BY DEF IInv, ReadyInv, KeysInv, FlightInv, TypeOK, Revision
<1>2. CASE \E t \in Tasks : Register(t)
  <2> PICK t \in Tasks : Register(t)
    BY <1>2
  <2>1. shared' \in [status : SharedStatuses, revision : Nat] /\ shared'.revision > 0
    BY <1>0, <1>1, EmitSameType DEF Register
  <2>2. TypeOK'
    BY <1>0, <2>1 DEF Register, TypeOK, TaskStatuses
  <2> QED
    BY <1>0, <1>1, <2>1, <2>2, Steady DEF Register, TypeOK, Open, InFlight, Current
<1>3. CASE \E t \in Tasks : Cancel(t)
  <2> PICK t \in Tasks : Cancel(t)
    BY <1>3
  <2>1. shared' \in [status : SharedStatuses, revision : Nat] /\ shared'.revision > 0
    BY <1>0, <1>1, EmitSameType DEF Cancel
  <2>2. TypeOK'
    BY <1>0, <2>1, DynamicSchedulerAssumption DEF Cancel, Call, TypeOK, TaskStatuses
  <2> QED
    BY <1>0, <1>1, <2>1, <2>2, Steady DEF Cancel, TypeOK, Open, InFlight, Current
<1>4. CASE \E e \in Evidence : IngestEvidence(e)
  <2> PICK e \in Evidence : IngestEvidence(e)
    BY <1>4
  <2>1. shared' \in [status : SharedStatuses, revision : Nat] /\ shared'.revision >= Revision
    BY <1>0, <1>1, EmitSameType DEF IngestEvidence, TypeOK, Revision
  <2>2. observed' \in [Evidence -> Nat]
    BY <1>0, <1>1 DEF IngestEvidence, TypeOK
  <2>3. TypeOK'
    BY <1>0, <2>1, <2>2, DynamicSchedulerAssumption DEF IngestEvidence, Call, TypeOK
  <2> QED
    BY <1>0, <1>1, <2>1, <2>3, Steady DEF IngestEvidence, TypeOK, Open, InFlight, Current
<1>5. CASE Review
  <2>1. TypeOK'
    BY <1>0, <1>1, <1>5 DEF Review, TypeOK
  <2> QED
    BY <1>0, <1>1, <1>5, <2>1, Steady DEF Review, TypeOK, Open, InFlight, Current, Revision
<1>6. CASE Pause \/ Resume
  <2>1. shared' \in [status : SharedStatuses, revision : Nat] /\ shared'.revision > 0
    BY <1>0, <1>1, <1>6, EmitType, EmitSameType DEF Pause, Resume, SharedStatuses
  <2>2. reviewed' \in Nat
    BY <1>0, <1>1, <1>6 DEF Pause, Resume, TypeOK
  <2>3. TypeOK'
    BY <1>0, <1>6, <2>1, <2>2, DynamicSchedulerAssumption DEF Pause, Resume, Call, TypeOK
  <2> QED
    BY <1>0, <1>1, <1>6, <2>1, <2>3, Steady DEF Pause, Resume, TypeOK, Open, InFlight, Current
<1> QED
  BY <1>2, <1>3, <1>4, <1>5, <1>6 DEF Client
-----------------------------------------------------------------------------
(***************************************************************************)
(* run and _run_task.                                                      *)
(***************************************************************************)
\* What every step of run knows of the state it starts in.
LEMMA Known ==
  ASSUME IInv
  PROVE  /\ TypeOK
         /\ \A t \in ctl.ready : t \in Tasks /\ Open(t) /\ Settled(t)
         /\ \A t \in Tasks : status[t] = "ABSENT" \/ Revision > 0
         /\ Revision \in Nat
         /\ shared \in [status : SharedStatuses, revision : Nat]
         /\ ctl.ready \in SUBSET Tasks
  BY DEF IInv, ReadyInv, KeysInv, TypeOK, Revision, Controls

\* The attempt in flight is of an open, settled task that is not listed as ready.
LEMMA Flying ==
  ASSUME IInv, InFlight
  PROVE  /\ attempts # << >> /\ Current \in Attempts /\ Current.task \in Tasks
         /\ Len(attempts) \in 1..Len(attempts)
         /\ Open(Current.task) /\ Settled(Current.task)
         /\ Candidates[Current.task] # << >>
         /\ Current.task \notin ctl.ready
         /\ Current.revision # 0
  <1>1. TypeOK /\ attempts # << >>
    BY DEF IInv, FlightInv
  <1>2. Len(attempts) \in 1..Len(attempts) /\ DOMAIN attempts = 1..Len(attempts)
    BY <1>1, AttemptType
  <1>3. Settled(Current.task) /\ Candidates[Current.task] # << >>
    BY <1>2 DEF IInv, AttemptsInv, Current
  <1> QED
    BY <1>1, <1>2, <1>3, AttemptType DEF IInv, FlightInv

LEMMA TakeIInv ==
  ASSUME IInv, NEW ready \in SUBSET Tasks, NEW t \in Tasks,
         \A u \in ready : Open(u) /\ Settled(u),
         Take(t, ready)
  PROVE  IInv'
<1>0. TypeOK /\ Open(t) /\ Settled(t) /\ Revision > 0
  BY Known DEF Take, Open
<1>1. \A u \in ready \ {t} : Open(u) /\ Settled(u)
  OBVIOUS
<1>2. UNCHANGED <<tasks, seen, last, observed, reviewed, calls>>
  BY DEF Take
<1>3. CASE Candidates[t] = << >>
  <2>1. /\ status' = [status EXCEPT ![t] = "FAILED"]
        /\ Emit /\ Return(ready \ {t}) /\ UNCHANGED attempts
    BY <1>3 DEF Take
  <2>2. ctl' \in Controls /\ ctl'.ready = ready \ {t} /\ ~InFlight'
    BY <1>0, <2>1, ControlType DEF InFlight
  <2>3. shared' \in [status : SharedStatuses, revision : Nat] /\ shared'.revision > 0
    BY <1>0, <2>1, EmitSameType, Known
  <2>4. TypeOK'
    BY <1>0, <1>2, <2>1, <2>2, <2>3 DEF TypeOK, TaskStatuses
  <2> QED
    BY <1>0, <1>1, <1>2, <2>1, <2>2, <2>3, <2>4, Steady DEF TypeOK, Open
<1>4. CASE Candidates[t] # << >> /\ <<t, Revision>> \in seen
  <2>1. Deduplicate(t) /\ Return(ready \ {t})
    BY <1>4 DEF Take
  <2>2. ctl' \in Controls /\ ctl'.ready = ready \ {t} /\ ~InFlight'
    BY <1>0, <2>1, ControlType DEF InFlight
  <2>3. TypeOK'
    BY <1>0, <1>2, <2>1, <2>2 DEF Deduplicate, TypeOK, TaskStatuses
  <2> QED
    BY <1>0, <1>1, <1>2, <1>4, <2>1, <2>2, <2>3, Deduplicated, Known DEF Open
<1>5. CASE Candidates[t] # << >> /\ <<t, Revision>> \notin seen
  <2>1. /\ Dispatch(t, 1, Revision)
        /\ ctl' = [ctl EXCEPT !.at = "handler", !.ready = ready \ {t}]
    BY <1>5 DEF Take
  <2>2. ctl' \in Controls /\ ctl'.ready = ready \ {t} /\ ctl'.at = "handler"
    BY <1>0, <2>1 DEF TypeOK, Controls, Points
  <2>3. TypeOK'
    BY <1>0, <1>2, <1>5, <2>1, <2>2, DispatchType, Known DEF TypeOK
  <2> QED
    BY <1>0, <1>1, <1>2, <1>5, <2>1, <2>2, <2>3, Dispatched
<1> QED
  BY <1>3, <1>4, <1>5

LEMMA ScanIInv ==
  ASSUME IInv, NEW from \in 1..(Len(tasks) + 1),
         CancelDoomed(from) \/ Stall(from) \/ StopAfterScan(from) \/ TakeFirst(from)
  PROVE  IInv'
<1>0. TypeOK /\ ReadyInv /\ Len(tasks) \in Nat
  BY DEF IInv, TypeOK
<1>1. ~InFlight
  BY DEF CancelDoomed, Stall, StopAfterScan, TakeFirst, Scanned, Scanning, InFlight
<1>2. CASE CancelDoomed(from)
  <2>1. PICK n \in from..Len(tasks) :
          /\ IsDoomed(tasks[n])
          /\ status' = [status EXCEPT ![tasks[n]] = "CANCELLED"]
          /\ ctl' = [ctl EXCEPT !.at = "scan", !.index = n + 1, !.ready = ReadyUpTo(from, n - 1)]
    BY <1>2 DEF CancelDoomed
  <2>2. tasks[n] \in Tasks /\ n \in Nat /\ n - 1 \in Nat /\ n - 1 <= Len(tasks)
    BY <1>0 DEF TypeOK
  <2>3. ReadyUpTo(from, n - 1) \in SUBSET Tasks
    BY <1>0, <2>2, ReadyType
  <2>4. ctl' \in Controls /\ ctl'.ready = ReadyUpTo(from, n - 1) /\ ctl'.at = "scan"
    <3> DEFINE list == ReadyUpTo(from, n - 1)
    <3>1. ctl' = [ctl EXCEPT !.at = "scan", !.index = n + 1, !.ready = list]
      BY <2>1
    <3>2. list \in SUBSET Tasks /\ n + 1 \in Nat
      BY <2>2, <2>3
    <3> HIDE DEF list
    <3>3. ctl' \in Controls /\ ctl'.ready = list /\ ctl'.at = "scan"
      BY <1>0, <3>1, <3>2 DEF TypeOK, Controls, Points
    <3> QED
      BY <3>3 DEF list
  <2>5. shared' \in [status : SharedStatuses, revision : Nat] /\ shared'.revision > 0
    <3>1. Emit
      BY <1>2 DEF CancelDoomed
    <3> QED
      BY <1>0, <3>1, EmitSameType, Known
  <2>6. TypeOK'
    BY <1>0, <1>2, <2>1, <2>2, <2>4, <2>5 DEF CancelDoomed, TypeOK, TaskStatuses
  <2>7. \A t \in ctl'.ready : Open(t) /\ Settled(t)
    BY <1>0, <2>4, ReadySound
  <2>8. ~InFlight'
    BY <2>4 DEF InFlight
  <2> QED
    BY <1>0, <1>2, <2>1, <2>2, <2>5, <2>6, <2>7, <2>8, Steady
       DEF CancelDoomed, IsDoomed, TypeOK, Open
<1>3. CASE Stall(from)
  <2>1. /\ ctl' \in Controls /\ ctl'.ready = ctl.ready /\ ~InFlight'
    BY <1>0, <1>3, ControlType DEF Stall, Points, InFlight
  <2>2. shared' \in [status : SharedStatuses, revision : Nat] /\ shared'.revision > 0
    BY <1>0, <1>3, EmitType, Known DEF Stall, SharedStatuses
  <2>3. TypeOK'
    BY <1>0, <1>3, <2>1, <2>2 DEF Stall, TypeOK
  <2> QED
    BY <1>0, <1>3, <2>1, <2>2, <2>3, Steady, Known DEF Stall, Open
<1>4. CASE StopAfterScan(from)
  <2>1. /\ ctl' \in Controls /\ ctl'.ready = ctl.ready /\ ~InFlight'
    BY <1>0, <1>4, ControlType DEF StopAfterScan, Points, InFlight
  <2>2. TypeOK'
    BY <1>0, <1>4, <2>1 DEF StopAfterScan, TypeOK
  <2> QED
    BY <1>0, <1>4, <2>1, <2>2, Steady, Known DEF StopAfterScan, Open, Revision
<1>5. CASE TakeFirst(from)
  <2>1. PICK ready \in SUBSET Tasks, t \in Tasks : Scanned(from, ready) /\ Take(t, ready)
    BY <1>5 DEF TakeFirst
  <2>2. \A u \in ready : Open(u) /\ Settled(u)
    BY <1>0, <2>1, ReadySound DEF Scanned
  <2> QED
    BY <2>1, <2>2, TakeIInv
<1> QED
  BY <1>2, <1>3, <1>4, <1>5
\* The handler of the attempt in flight returns.
LEMMA SucceedIInv ==
  ASSUME IInv, Succeed
  PROVE  IInv'
<1> DEFINE n == Len(attempts)
           t == Current.task
           r == Current.revision
<1>0. /\ TypeOK /\ InFlight /\ n \in 1..n
      /\ t \in Tasks /\ Current \in Attempts /\ Open(t) /\ Settled(t)
      /\ t \notin ctl.ready /\ r # 0 /\ r \in Nat
  BY Known, Flying DEF Succeed, InFlight, Attempts
<1>1. /\ attempts' = [attempts EXCEPT ![n].status = "COMPLETED"]
      /\ seen' = seen \cup {<<t, r>>}
      /\ last' = [last EXCEPT ![t] = r]
      /\ status' = [status EXCEPT ![t] = "COMPLETED"]
      /\ Goto("updated") /\ Emit
      /\ UNCHANGED <<tasks, observed, reviewed, calls>>
  BY DEF Succeed, Finished
<1>2. /\ attempts' \in Seq(Attempts)
      /\ DOMAIN attempts' = 1..n
      /\ DOMAIN attempts = 1..n
      /\ \A i \in 1..n : /\ attempts[i].task \in Tasks
                         /\ attempts'[i].task = attempts[i].task
                         /\ i # n => attempts'[i] = attempts[i]
      /\ attempts[n].task = t
  <2>1. [Current EXCEPT !.status = "COMPLETED"] \in Attempts
    BY <1>0 DEF Attempts
  <2>2. attempts' = [attempts EXCEPT ![n] = [Current EXCEPT !.status = "COMPLETED"]]
    BY <1>1 DEF Current
  <2>3. [Current EXCEPT !.status = "COMPLETED"].task = t
    BY <1>0 DEF Attempts
  <2>4. attempts \in Seq(Attempts)
    BY <1>0 DEF TypeOK
  <2>5. attempts[n] = Current
    BY DEF Current
  <2>6. \A i \in 1..n : attempts[i].task \in Tasks
    BY <1>0, AttemptType
  <2> DEFINE done == [Current EXCEPT !.status = "COMPLETED"]
  <2> HIDE DEF done, n, t
  <2>7. /\ attempts' = [attempts EXCEPT ![n] = done] /\ done \in Attempts /\ done.task = t
    BY <2>1, <2>2, <2>3 DEF done
  <2>8. /\ attempts' \in Seq(Attempts) /\ Len(attempts') = n
        /\ \A i \in 1..n : attempts'[i] = IF i = n THEN done ELSE attempts[i]
    BY <1>0, <2>4, <2>7, ExceptSeq DEF n
  <2>9. DOMAIN attempts' = 1..n /\ DOMAIN attempts = 1..n
    BY <2>4, <2>8 DEF n
  <2>10. attempts[n].task = t
    BY <2>5 DEF t
  <2> QED
    BY <2>6, <2>7, <2>8, <2>9, <2>10
<1>3. /\ ctl' \in Controls /\ ctl'.ready = ctl.ready /\ ~InFlight'
      /\ shared' \in [status : SharedStatuses, revision : Nat] /\ shared'.revision > 0
  BY <1>0, <1>1, ControlType, EmitSameType, Known DEF Points, InFlight
<1> HIDE DEF n, t, r
<1>4. TypeOK'
  BY <1>0, <1>1, <1>2, <1>3 DEF TypeOK, TaskStatuses
<1>5. /\ status'[t] = "COMPLETED" /\ \A u \in Tasks : u # t => status'[u] = status[u]
      /\ last'[t] = r /\ \A u \in Tasks : u # t => last'[u] = last[u]
      /\ status[t] # "COMPLETED" /\ status[t] # "ABSENT"
  BY <1>0, <1>1 DEF TypeOK, Open
<1>6. \A u \in Tasks : Settled(u) => Settled(u)'
  BY <1>5, DynamicSchedulerAssumption DEF Settled
<1>7. KeysInv'
  <2>1. \A key \in seen' : key[1] \in Tasks
    BY <1>4 DEF TypeOK
  <2>2. \A key \in seen : last[key[1]] # 0
    BY DEF IInv, KeysInv
  <2>3. \A key \in seen' : last'[key[1]] # 0
    BY <1>0, <1>1, <1>5, <2>1, <2>2
  <2>4. \A u \in Tasks : status'[u] = "COMPLETED" => last'[u] # 0
    BY <1>0, <1>5 DEF IInv, KeysInv
  <2>5. \A u \in Tasks : last'[u] # 0 => <<u, last'[u]>> \in seen'
    BY <1>1, <1>5 DEF IInv, KeysInv
  <2> QED
    BY <1>3, <2>3, <2>4, <2>5 DEF KeysInv, Revision
<1>8. ReadyInv'
  BY <1>0, <1>3, <1>5, <1>6, Known DEF ReadyInv, Open
<1>9. FlightInv'
  BY <1>3 DEF FlightInv
<1>10. \A i \in 1..n : attempts[i].status = "COMPLETED" => attempts[i].task # t
  BY <1>2, <1>5 DEF IInv, AttemptsInv
<1>11. AttemptsInv'
  BY <1>2, <1>5, <1>6 DEF IInv, AttemptsInv, Settled
<1>12. ExecutedOnce'
  BY <1>2, <1>10 DEF IInv, ExecutedOnce
<1> QED
  BY <1>4, <1>7, <1>8, <1>9, <1>11, <1>12 DEF IInv
\* The attempt in flight fails; nothing that completed is touched.
LEMMA RaiseIInv ==
  ASSUME IInv, Raise
  PROVE  IInv'
<1> DEFINE n == Len(attempts)
           failed == [Current EXCEPT !.status = "FAILED"]
<1>0. /\ TypeOK /\ InFlight /\ n \in 1..n
      /\ Current \in Attempts /\ Current.task \in Tasks /\ Open(Current.task)
      /\ Current.task \notin ctl.ready /\ Current.revision # 0
      /\ attempts \in Seq(Attempts)
  BY Known, Flying DEF Raise, InFlight, TypeOK
<1>1. /\ attempts' = [attempts EXCEPT ![n] = failed]
      /\ UNCHANGED <<tasks, status, seen, last, observed, reviewed, calls>>
      /\ Goto("failed") /\ Emit
  BY DEF Raise, Finished, Current
<1>2. /\ failed \in Attempts /\ failed.task = Current.task
      /\ failed.revision = Current.revision /\ failed.status = "FAILED"
  BY <1>0 DEF Attempts
<1>3. Current = attempts[n]
  BY DEF Current
<1> HIDE DEF failed, n
<1>4. /\ attempts' \in Seq(Attempts) /\ Len(attempts') = n
      /\ \A i \in 1..n : attempts'[i] = IF i = n THEN failed ELSE attempts[i]
  BY <1>0, <1>1, <1>2, ExceptSeq DEF n
<1>5. DOMAIN attempts' = 1..n /\ DOMAIN attempts = 1..n /\ n \in Nat
  BY <1>0, <1>4 DEF n
<1>6. /\ ctl' \in Controls /\ ctl'.ready = ctl.ready
      /\ shared' \in [status : SharedStatuses, revision : Nat] /\ shared'.revision > 0
  BY <1>0, <1>1, ControlType, EmitSameType, Known DEF Points
<1>7. TypeOK'
  BY <1>0, <1>1, <1>4, <1>6 DEF TypeOK
<1>8. KeysInv'
  BY <1>1, <1>6 DEF IInv, KeysInv, Revision
<1>9. ReadyInv'
  BY <1>1, <1>6 DEF IInv, ReadyInv, Open, Settled
<1>10. Current' = failed /\ attempts' # << >>
  <2>1. attempts'[n] = failed
    BY <1>0, <1>4
  <2> QED
    BY <1>0, <1>4, <2>1 DEF Current
<1>11. FlightInv'
  BY <1>0, <1>1, <1>2, <1>6, <1>10 DEF FlightInv, Open
<1>12. AttemptsInv' /\ ExecutedOnce'
  <2>1. \A i \in 1..n : /\ attempts'[i].task = attempts[i].task
                        /\ attempts'[i].status = "COMPLETED" => attempts'[i] = attempts[i]
    BY <1>2, <1>3, <1>4
  <2> QED
    BY <1>1, <1>5, <2>1 DEF IInv, AttemptsInv, ExecutedOnce, Settled
<1> QED
  BY <1>7, <1>8, <1>9, <1>11, <1>12 DEF IInv

\* The failed attempt is followed by another one or ends its task.
LEMMA RetryIInv ==
  ASSUME IInv, Reassign \/ Retry \/ Escalate
  PROVE  IInv'
<1> DEFINE t == Current.task
<1>0. /\ TypeOK /\ InFlight /\ t \in Tasks /\ Open(t) /\ Settled(t)
      /\ Candidates[t] # << >> /\ t \notin ctl.ready /\ attempts # << >>
      /\ Current.attempt \in Nat
      /\ \A u \in ctl.ready : u \in Tasks /\ Open(u) /\ Settled(u)
      /\ Revision > 0 /\ Revision \in Nat
      /\ status[t] # "ABSENT"
  BY Known, Flying DEF Reassign, Retry, Escalate, InFlight, Attempts, Open
<1>1. CASE Reassign
  <2>1. /\ ctl' \in Controls /\ ctl'.ready = ctl.ready
        /\ shared' \in [status : SharedStatuses, revision : Nat] /\ shared'.revision > 0
    BY <1>0, <1>1, ControlType, EmitSameType DEF Reassign, Points
  <2>2. TypeOK'
    BY <1>0, <1>1, <2>1 DEF Reassign, TypeOK
  <2> QED
    BY <1>0, <1>1, <2>1, <2>2, Steady DEF Reassign, Open
<1>2. CASE Escalate
  <2>1. /\ ctl' \in Controls /\ ctl'.ready = ctl.ready /\ ~InFlight'
        /\ shared' \in [status : SharedStatuses, revision : Nat] /\ shared'.revision > 0
    BY <1>0, <1>2, ControlType, EmitSameType, Known DEF Escalate, InFlight
  <2>2. TypeOK'
    BY <1>0, <1>2, <2>1 DEF Escalate, TypeOK, TaskStatuses
  <2> QED
    BY <1>0, <1>2, <2>1, <2>2, Steady DEF Escalate, TypeOK, Open
<1>3. CASE Retry /\ <<t, Revision>> \in seen
  <2>1. Deduplicate(t) /\ Return(ctl.ready) /\ UNCHANGED <<tasks, seen, last, observed, reviewed, calls>>
    BY <1>3 DEF Retry
  <2>2. ctl' \in Controls /\ ctl'.ready = ctl.ready /\ ~InFlight'
    BY <1>0, <2>1, ControlType, Known DEF InFlight
  <2>3. TypeOK'
    BY <1>0, <2>1, <2>2 DEF Deduplicate, TypeOK, TaskStatuses
  <2> HIDE DEF t
  <2> QED
    BY <1>0, <1>3, <2>1, <2>2, <2>3, Deduplicated
<1>4. CASE Retry /\ <<t, Revision>> \notin seen
  <2> DEFINE m == Current.attempt + 1
  <2>1. /\ Dispatch(t, m, Revision) /\ Goto("handler")
        /\ UNCHANGED <<tasks, seen, last, observed, reviewed, calls>>
    BY <1>4 DEF Retry
  <2>2. m \in Nat \ {0}
    BY <1>0
  <2>3. ctl' \in Controls /\ ctl'.ready = ctl.ready /\ ctl'.at = "handler"
    BY <1>0, <2>1, ControlType DEF Points
  <2> HIDE DEF t, m
  <2>4. TypeOK'
    BY <1>0, <2>1, <2>2, <2>3, DispatchType DEF TypeOK
  <2> QED
    BY <1>0, <2>1, <2>2, <2>3, <2>4, Dispatched
<1> QED
  BY <1>1, <1>2, <1>3, <1>4

\* A replayed task has its last key on record.
LEMMA ReplayIInv ==
  ASSUME IInv, NEW t \in Tasks, Replay(t)
  PROVE  IInv'
<1>0. TypeOK
  BY DEF IInv
<1>1. <<t, ReplayKey(t)>> \in seen
  BY DEF IInv, KeysInv, Replay, ReplayKey
<1>2. Deduplicate(t) /\ UNCHANGED <<ctl, tasks, seen, last, observed, reviewed>>
  BY <1>1 DEF Replay
<1>3. status' = status /\ UNCHANGED <<attempts, shared>>
  BY <1>0, <1>2 DEF Deduplicate, Replay, TypeOK
<1>4. TypeOK'
  BY <1>0, <1>2, <1>3, DynamicSchedulerAssumption DEF Replay, Call, TypeOK
<1> QED
  BY <1>0, <1>2, <1>3, <1>4, Steady, Known DEF Replay, InFlight, Open, Revision

LEMMA NextIInv ==
  ASSUME IInv, [Next]_vars
  PROVE  IInv'
<1>0. TypeOK
  BY DEF IInv
<1>1. CASE Client
  BY <1>1, ClientIInv
<1>2. CASE Run
  <2>1. ctl' \in Controls /\ ctl'.ready = {} /\ ~InFlight'
    BY <1>0, <1>2 DEF Run, TypeOK, Controls, Points, InFlight
  <2>2. TypeOK'
    BY <1>0, <1>2, <2>1 DEF Run, TypeOK
  <2> QED
    BY <1>2, <2>1, <2>2, Steady, Known DEF Run, Open, Revision
<1>3. CASE \E t \in Tasks : Replay(t)
  BY <1>3, ReplayIInv
<1>4. CASE Stop
  <2>1. ctl' \in Controls /\ ctl'.ready = ctl.ready /\ ~InFlight'
    BY <1>0, <1>4, ControlType DEF Stop, Points, InFlight
  <2>2. TypeOK'
    BY <1>0, <1>4, <2>1 DEF Stop, TypeOK
  <2> QED
    BY <1>4, <2>1, <2>2, Steady, Known DEF Stop, Open, Revision
<1>5. CASE Complete
  <2>1. ctl' \in Controls /\ ctl'.ready = ctl.ready /\ ~InFlight'
    BY <1>0, <1>5, ControlType, Known DEF Complete, InFlight
  <2>2. shared' \in [status : SharedStatuses, revision : Nat] /\ shared'.revision > 0
    BY <1>0, <1>5, EmitSameType, Known DEF Complete
  <2>3. TypeOK'
    BY <1>0, <1>5, <2>1, <2>2 DEF Complete, TypeOK
  <2> QED
    BY <1>5, <2>1, <2>2, <2>3, Steady, Known DEF Complete, Open
<1>6. CASE Scan
  BY <1>6, ScanIInv DEF Scan
<1>7. CASE TakeNext
  BY <1>7, TakeIInv, Known DEF TakeNext
<1>8. CASE UNCHANGED vars
  <2>1. TypeOK'
    BY <1>0, <1>8 DEF vars, TypeOK
  <2> QED
    BY <1>8, <2>1 DEF vars, IInv, KeysInv, ReadyInv, FlightInv, InFlight, AttemptsInv,
       ExecutedOnce, Settled, Open, Current, Revision
<1> QED
  BY <1>1, <1>2, <1>3, <1>4, <1>5, <1>6, <1>7, <1>8, SucceedIInv, RaiseIInv, RetryIInv
     DEF Next, Step

LEMMA SpecIInv ==
  Spec => []IInv
BY InitIInv, NextIInv, PTL DEF Spec

-----------------------------------------------------------------------------
\* Every reachable state of the scheduler is well typed (dynamic.py).
THEOREM SchedulerTypes ==
  Spec => []TypeOK
<1>1. IInv => TypeOK
  BY DEF IInv
<1> QED
  BY <1>1, SpecIInv, PTL

\* Whatever callbacks do, a task is dispatched only once its dependencies have
\* completed, and they stay so (_ready and run, dynamic.py 238-249, 385-400).
THEOREM DependenciesRunFirst ==
  Spec => []DependenciesFirst
<1>1. IInv => DependenciesFirst
  BY DEF IInv, AttemptsInv, Settled, DependenciesFirst
<1> QED
  BY <1>1, SpecIInv, PTL

\* However often a task is retried, cancelled or replayed, its handler returns a
\* result at most once (_run_task and replay, dynamic.py 257-383, 402-413).
THEOREM ResultsOnce ==
  Spec => []ExecutedOnce
<1>1. IInv => ExecutedOnce
  BY DEF IInv
<1> QED
  BY <1>1, SpecIInv, PTL
-----------------------------------------------------------------------------
(***************************************************************************)
(* Pausing, resuming and stalling.  These need more of the state: attempts *)
(* are numbered from 1, evidence is observed at a revision of the past,    *)
(* only the attempt in flight runs, every task known has been registered,  *)
(* and a scan leaves behind no task that it should have cancelled or taken.*)
(***************************************************************************)
NumberInv == \A i \in DOMAIN attempts : attempts[i].attempt > 0

ObservedInv == \A e \in Evidence : observed[e] <= Revision

RunningInv == \A t \in Tasks : status[t] = "RUNNING" => InFlight /\ Current.task = t

RegisteredInv == \A t \in Tasks : status[t] # "ABSENT" => \E n \in 1..Len(tasks) : tasks[n] = t

ScanInv ==
  ctl.at = "scan" =>
    /\ ctl.index \in 1..(Len(tasks) + 1)
    /\ \A m \in 1..(ctl.index - 1) :
         ~IsDoomed(tasks[m]) /\ (IsReady(tasks[m]) => tasks[m] \in ctl.ready)

PacedInv ==
  /\ NumberInv
  /\ ObservedInv
  /\ RunningInv
  /\ RegisteredInv
  /\ ScanInv

\* A dispatched attempt is the last one.
LEMMA DispatchFacts ==
  ASSUME TypeOK, NEW t \in Tasks, NEW n \in Nat \ {0}, Candidates[t] # << >>,
         Dispatch(t, n, Revision)
  PROVE  /\ DOMAIN attempts' = 1..(Len(attempts) + 1)
         /\ \A i \in DOMAIN attempts : attempts'[i] = attempts[i]
         /\ attempts'[Len(attempts) + 1].attempt = n
         /\ Current'.task = t
<1>1. PICK new : new = [task |-> t, attempt |-> n, worker |-> WorkerFor(t, n),
                        revision |-> Revision, status |-> "RUNNING"]
  OBVIOUS
<1>2. new \in Attempts
  BY <1>1, WorkerForType DEF TypeOK, Attempts, Revision
<1>3. attempts' = Append(attempts, new) /\ attempts \in Seq(Attempts)
  BY <1>1 DEF Dispatch, TypeOK
<1>4. /\ DOMAIN attempts = 1..Len(attempts)
      /\ DOMAIN attempts' = 1..(Len(attempts) + 1)
      /\ Len(attempts') = Len(attempts) + 1
      /\ attempts'[Len(attempts) + 1] = new
      /\ \A i \in 1..Len(attempts) : attempts'[i] = attempts[i]
  BY <1>2, <1>3, AppendProperties
<1>5. new.attempt = n /\ new.task = t
  BY <1>1
<1>6. Current' = new
  BY <1>4 DEF Current
<1> QED
  BY <1>4, <1>5, <1>6

\* An attempt that ends keeps its place, its task and its number.
LEMMA FinishedFacts ==
  ASSUME TypeOK, attempts # << >>, NEW s \in {"COMPLETED", "FAILED"}, attempts' = Finished(s)
  PROVE  /\ DOMAIN attempts' = DOMAIN attempts
         /\ \A i \in DOMAIN attempts : /\ attempts'[i].attempt = attempts[i].attempt
                                      /\ attempts'[i].task = attempts[i].task
         /\ Current'.task = Current.task
<1>1. PICK n \in Nat : n = Len(attempts) /\ n \in 1..n /\ DOMAIN attempts = 1..n
  <2>1. /\ DOMAIN attempts = 1..Len(attempts) /\ Len(attempts) \in Nat
        /\ Len(attempts) > 0
    BY AttemptType
  <2>2. Len(attempts) \in 1..Len(attempts)
    BY <2>1
  <2> QED
    BY <2>1, <2>2, Zenon
<1>2. attempts \in Seq(Attempts) /\ attempts[n] \in Attempts
  BY <1>1, AttemptType DEF TypeOK
<1>3. PICK done \in Attempts :
        /\ attempts' = [attempts EXCEPT ![n] = done]
        /\ done.task = attempts[n].task /\ done.attempt = attempts[n].attempt
  <2>1. PICK done : done = [attempts[n] EXCEPT !.status = s]
    OBVIOUS
  <2>2. done \in Attempts /\ done.task = attempts[n].task /\ done.attempt = attempts[n].attempt
    BY <1>2, <2>1 DEF Attempts
  <2>3. attempts' = [attempts EXCEPT ![n] = done]
    BY <1>1, <2>1 DEF Finished
  <2> QED
    BY <2>2, <2>3
<1>4. /\ attempts' \in Seq(Attempts) /\ Len(attempts') = n
      /\ \A i \in 1..n : attempts'[i] = IF i = n THEN done ELSE attempts[i]
  BY <1>1, <1>2, <1>3, ExceptSeq
<1>5. DOMAIN attempts' = 1..n
  BY <1>4
<1>6. Current' = done /\ Current = attempts[n]
  BY <1>1, <1>4 DEF Current
<1> QED
  BY <1>1, <1>3, <1>4, <1>5, <1>6

\* What a step does to the attempts: a first attempt is dispatched only while the
\* incident is RUNNING.
LEMMA AttemptsShape ==
  ASSUME IInv, NumberInv, [Next]_vars
  PROVE  \/ /\ DOMAIN attempts' = DOMAIN attempts
            /\ \A i \in DOMAIN attempts : attempts'[i].attempt = attempts[i].attempt
         \/ \E n \in Nat \ {0} :
              /\ DOMAIN attempts' = 1..(Len(attempts) + 1)
              /\ \A i \in DOMAIN attempts : attempts'[i] = attempts[i]
              /\ attempts'[Len(attempts) + 1].attempt = n
              /\ n > 1 \/ shared.status = "RUNNING"
<1>1. TypeOK
  BY DEF IInv
<1>2. ASSUME NEW t \in Tasks, NEW ready, Take(t, ready)
      PROVE  \/ UNCHANGED attempts
             \/ Candidates[t] # << >> /\ Dispatch(t, 1, Revision) /\ GoesOn
  BY <1>2 DEF Take, Deduplicate
<1>3. CASE \E ready : \E t \in Tasks : Take(t, ready)
  BY <1>1, <1>2, <1>3, DispatchFacts DEF GoesOn
<1>4. CASE Succeed \/ Raise
  <2>1. attempts # << >>
    BY <1>4, Flying DEF Succeed, Raise, InFlight
  <2> QED
    BY <1>1, <1>4, <2>1, FinishedFacts DEF Succeed, Raise
<1>5. CASE Retry
  <2>1. Current.task \in Tasks /\ Candidates[Current.task] # << >> /\ attempts # << >>
           /\ Len(attempts) \in 1..Len(attempts) /\ Current \in Attempts
    BY <1>5, Flying DEF Retry, InFlight
  <2>2. Current.attempt > 0 /\ Current.attempt \in Nat
    BY <1>1, <2>1, AttemptType DEF NumberInv, Current, Attempts
  <2>3. PICK n \in Nat \ {0} : n = Current.attempt + 1 /\ n > 1
    BY <2>2
  <2>4. UNCHANGED attempts \/ Dispatch(Current.task, n, Revision)
    BY <1>5, <2>3 DEF Retry, Deduplicate
  <2> QED
    BY <1>1, <2>1, <2>3, <2>4, DispatchFacts
<1>6. CASE \E t \in Tasks : Replay(t)
  <2>1. PICK t \in Tasks : Replay(t)
    BY <1>6
  <2>2. <<t, ReplayKey(t)>> \in seen
    BY <2>1 DEF IInv, KeysInv, Replay, ReplayKey
  <2> QED
    BY <2>1, <2>2 DEF Replay, Deduplicate
<1>7. CASE Client \/ Run \/ Stop \/ Complete \/ Reassign \/ Escalate \/ UNCHANGED vars
  BY <1>7 DEF Client, Register, Cancel, IngestEvidence, Review, Pause, Resume, Run, Stop,
     Complete, Reassign, Escalate, vars
<1>8. CASE \E from : CancelDoomed(from) \/ Stall(from) \/ StopAfterScan(from)
  BY <1>8 DEF CancelDoomed, Stall, StopAfterScan
<1> QED
  BY <1>3, <1>4, <1>5, <1>6, <1>7, <1>8 DEF Next, Step, Scan, TakeNext, TakeFirst

LEMMA NumberPreserved ==
  ASSUME IInv, NumberInv, [Next]_vars
  PROVE  NumberInv'
<1>1. DOMAIN attempts = 1..Len(attempts) /\ Len(attempts) \in Nat
  BY AttemptType DEF IInv
<1>2. CASE /\ DOMAIN attempts' = DOMAIN attempts
           /\ \A i \in DOMAIN attempts : attempts'[i].attempt = attempts[i].attempt
  BY <1>2 DEF NumberInv
<1>3. CASE \E n \in Nat \ {0} :
              /\ DOMAIN attempts' = 1..(Len(attempts) + 1)
              /\ \A i \in DOMAIN attempts : attempts'[i] = attempts[i]
              /\ attempts'[Len(attempts) + 1].attempt = n
  BY <1>1, <1>3 DEF NumberInv
<1> QED
  BY <1>2, <1>3, AttemptsShape

\* What a step does to the shared state: the statuses it may come from, and to.
LEMMA SharedShape ==
  ASSUME IInv, [Next]_vars
  PROVE  /\ Revision' >= Revision
         /\ \/ shared'.status = shared.status
            \/ shared'.status = "PAUSED_AWAITING_HUMAN"
            \/ Resume /\ shared'.status = "RUNNING" /\ reviewed = Revision
            \/ \E from \in 1..(Len(tasks) + 1) : Stall(from)
<1>1. TypeOK /\ Revision \in Nat
  BY Known
<1>2. ASSUME Emit \/ UNCHANGED shared
      PROVE  Revision' >= Revision /\ shared'.status = shared.status
  BY <1>1, <1>2 DEF Emit, EmitStatus, Revision
<1>3. ASSUME NEW s, EmitStatus(s)
      PROVE  Revision' >= Revision /\ shared'.status = s
  BY <1>1, <1>3 DEF EmitStatus, Revision
<1>4. CASE \E t \in Tasks : Register(t) \/ Cancel(t) \/ Replay(t)
  <2>1. \A t \in Tasks : Replay(t) => UNCHANGED shared
    BY DEF IInv, KeysInv, Replay, ReplayKey, Deduplicate
  <2> QED
    BY <1>2, <1>4, <2>1 DEF Register, Cancel
<1>5. CASE \E e \in Evidence : IngestEvidence(e)
  BY <1>2, <1>5 DEF IngestEvidence
<1>6. CASE Pause
  BY <1>3, <1>6 DEF Pause
<1>7. CASE Resume
  BY <1>2, <1>3, <1>7 DEF Resume
<1>8. CASE Review \/ Run \/ Stop \/ UNCHANGED vars
  BY <1>2, <1>8 DEF Review, Run, Stop, vars
<1>9. CASE Succeed \/ Complete \/ Raise \/ Reassign \/ Retry \/ Escalate
  BY <1>2, <1>9 DEF Succeed, Complete, Raise, Reassign, Retry, Escalate, Deduplicate, Dispatch
<1>10. CASE \E ready : \E t \in Tasks : Take(t, ready)
  BY <1>2, <1>10 DEF Take, Deduplicate, Dispatch
<1>11. CASE \E from : CancelDoomed(from) \/ StopAfterScan(from)
  BY <1>2, <1>11 DEF CancelDoomed, StopAfterScan
<1>12. CASE \E from \in 1..(Len(tasks) + 1) : Stall(from)
  BY <1>3, <1>12 DEF Stall
<1> QED
  BY <1>4, <1>5, <1>6, <1>7, <1>8, <1>9, <1>10, <1>11, <1>12
     DEF Next, Client, Step, Scan, TakeNext, TakeFirst

LEMMA ObservedPreserved ==
  ASSUME IInv, IInv', ObservedInv, [Next]_vars
  PROVE  ObservedInv'
<1>1. Revision' >= Revision /\ Revision \in Nat /\ Revision' \in Nat
  BY SharedShape, Known DEF IInv, TypeOK, Revision
<1>2. observed \in [Evidence -> Nat]
  BY DEF IInv, TypeOK
<1>3. CASE \E e \in Evidence : IngestEvidence(e)
  <2>1. PICK e \in Evidence : IngestEvidence(e)
    BY <1>3
  <2>2. CASE UNCHANGED <<shared, observed>>
    BY <2>2 DEF ObservedInv, Revision
  <2>3. CASE Emit /\ observed' = [observed EXCEPT ![e] = Revision + 1]
    <3>1. Revision' = Revision + 1
      BY <2>3 DEF Emit, EmitStatus, Revision
    <3> QED
      BY <1>1, <1>2, <2>3, <3>1 DEF ObservedInv
  <2> QED
    BY <2>1, <2>2, <2>3 DEF IngestEvidence
<1>4. CASE UNCHANGED observed
  <2>1. \A e \in Evidence : observed[e] \in Nat
    BY <1>2
  <2> QED
    BY <1>1, <1>4, <2>1 DEF ObservedInv
<1>5. \/ \E e \in Evidence : IngestEvidence(e)
      \/ UNCHANGED observed
  BY DEF Next, Client, Register, Cancel, Review, Pause, Resume, Run, Replay, Step, Stop, Scan,
     CancelDoomed, Stall, StopAfterScan, TakeFirst, TakeNext, Take, Succeed, Complete, Raise,
     Reassign, Retry, Escalate, vars
<1> QED
  BY <1>3, <1>4, <1>5

LEMMA RunningPreserved ==
  ASSUME IInv, NumberInv, RunningInv, [Next]_vars
  PROVE  RunningInv'
<1>0. TypeOK /\ status \in [Tasks -> TaskStatuses] /\ ctl \in Controls
  BY DEF IInv, TypeOK
<1>1. ASSUME \A t \in Tasks : status'[t] = "RUNNING" => status[t] = "RUNNING",
             InFlight => InFlight' /\ Current'.task = Current.task
      PROVE  RunningInv'
  BY <1>1 DEF RunningInv
<1>2. ASSUME \A t \in Tasks : status'[t] # "RUNNING"
      PROVE  RunningInv'
  BY <1>2 DEF RunningInv
<1>3. ~InFlight => \A t \in Tasks : status[t] # "RUNNING"
  BY DEF RunningInv
<1>4. CASE Client \/ Reassign \/ UNCHANGED vars
  <2>1. \A t \in Tasks : status'[t] = "RUNNING" => status[t] = "RUNNING"
    BY <1>0, <1>4 DEF Client, Register, Cancel, IngestEvidence, Review, Pause, Resume, Reassign, vars
  <2>2. UNCHANGED attempts /\ (ctl' = ctl \/ Goto("reassigned"))
    BY <1>4 DEF Client, Register, Cancel, IngestEvidence, Review, Pause, Resume, Reassign, vars
  <2>3. InFlight => InFlight'
    BY <1>0, <2>2 DEF InFlight, Goto, Controls
  <2> QED
    BY <1>1, <2>1, <2>2, <2>3 DEF Current
<1>5. CASE Run \/ Stop \/ Complete \/ \E from : Stall(from) \/ StopAfterScan(from)
  <2>1. ~InFlight /\ UNCHANGED status
    BY <1>5 DEF Run, Stop, Complete, Stall, StopAfterScan, Scanned, Scanning, InFlight
  <2> QED
    BY <1>2, <1>3, <2>1
<1>6. CASE \E from : CancelDoomed(from)
  <2>1. ~InFlight /\ \E u : status' = [status EXCEPT ![u] = "CANCELLED"]
    BY <1>6 DEF CancelDoomed, Scanning, InFlight
  <2> QED
    BY <1>0, <1>2, <1>3, <2>1
<1>7. CASE \E t \in Tasks : Replay(t)
  <2>1. PICK t \in Tasks : Replay(t)
    BY <1>7
  <2>2. <<t, ReplayKey(t)>> \in seen
    BY <2>1 DEF IInv, KeysInv, Replay, ReplayKey
  <2>3. ~InFlight /\ status' = [status EXCEPT ![t] = "COMPLETED"]
    BY <2>1, <2>2 DEF Replay, Deduplicate, InFlight
  <2> QED
    BY <1>0, <1>2, <1>3, <2>3
<1>8. CASE Succeed \/ Escalate
  <2>1. InFlight /\ \E s \in {"COMPLETED", "FAILED"} : status' = [status EXCEPT ![Current.task] = s]
    BY <1>8 DEF Succeed, Escalate, InFlight
  <2> QED
    BY <1>0, <1>2, <2>1 DEF RunningInv
<1>9. CASE Raise
  <2>1. attempts # << >> /\ InFlight
    BY <1>9, Flying DEF Raise, InFlight
  <2>2. Current'.task = Current.task
    BY <1>0, <1>9, <2>1, FinishedFacts DEF Raise
  <2>3. InFlight'
    BY <1>0, <1>9 DEF Raise, Goto, Controls, InFlight
  <2> QED
    BY <1>1, <1>9, <2>2, <2>3 DEF Raise
<1>10. CASE Retry
  <2>1. PICK t \in Tasks : t = Current.task /\ Candidates[t] # << >> /\ attempts # << >>
           /\ Len(attempts) \in 1..Len(attempts) /\ Current \in Attempts
    BY <1>10, Flying DEF Retry, InFlight
  <2>2. PICK n \in Nat \ {0} : n = Current.attempt + 1 /\ n # 1
    <3>1. Current.attempt > 0 /\ Current.attempt \in Nat
      BY <1>0, <2>1, AttemptType DEF NumberInv, Current, Attempts
    <3> QED
      BY <3>1
  <2>3. CASE Deduplicate(t)
    BY <1>0, <1>2, <1>10, <2>1, <2>3 DEF Retry, Deduplicate, RunningInv
  <2>4. CASE Dispatch(t, n, Revision) /\ Goto("handler")
    <3>1. Current'.task = t
      BY <1>0, <2>1, <2>4, DispatchFacts
    <3>2. InFlight' /\ UNCHANGED status
      BY <1>0, <2>2, <2>4 DEF Dispatch, Goto, Controls, InFlight
    <3> QED
      BY <1>1, <2>1, <3>1, <3>2
  <2> QED
    BY <1>10, <2>1, <2>2, <2>3, <2>4 DEF Retry
<1>11. ASSUME NEW t \in Tasks, NEW ready, Take(t, ready), ~InFlight
       PROVE  RunningInv'
  <2>1. \A u \in Tasks : status[u] # "RUNNING"
    BY <1>3, <1>11
  <2>2. CASE \E s \in {"FAILED", "COMPLETED"} : status' = [status EXCEPT ![t] = s]
    BY <1>0, <1>2, <2>1, <2>2
  <2>3. CASE /\ Candidates[t] # << >> /\ Dispatch(t, 1, Revision)
             /\ ctl' = [ctl EXCEPT !.at = "handler", !.ready = ready \ {t}]
    <3>1. Current'.task = t
      BY <1>0, <2>3, DispatchFacts
    <3>2. InFlight' /\ status' = [status EXCEPT ![t] = "RUNNING"]
      BY <1>0, <2>3 DEF Dispatch, Controls, InFlight
    <3> QED
      BY <1>0, <2>1, <3>1, <3>2 DEF RunningInv
  <2> QED
    BY <1>11, <2>2, <2>3 DEF Take, Deduplicate
<1>12. CASE TakeNext \/ \E from : TakeFirst(from)
  <2>1. ~InFlight
    BY <1>12 DEF TakeNext, TakeFirst, Scanned, Scanning, InFlight
  <2> QED
    BY <1>11, <1>12, <2>1 DEF TakeNext, TakeFirst
<1> QED
  BY <1>4, <1>5, <1>6, <1>7, <1>8, <1>9, <1>10, <1>12 DEF Next, Step, Scan

\* A step registers a task or brings no task from ABSENT.
LEMMA RegisteredPreserved ==
  ASSUME IInv, RegisteredInv, [Next]_vars
  PROVE  RegisteredInv'
<1>0. TypeOK /\ status \in [Tasks -> TaskStatuses] /\ tasks \in Seq(Tasks)
  BY DEF IInv, TypeOK
<1>1. ASSUME UNCHANGED tasks,
             NEW u \in Tasks, NEW s, status[u] # "ABSENT",
             status' = [status EXCEPT ![u] = s] \/ UNCHANGED status
      PROVE  RegisteredInv'
  BY <1>0, <1>1 DEF RegisteredInv
<1>2. CASE UNCHANGED <<tasks, status>>
  BY <1>2 DEF RegisteredInv
<1>3. CASE \E t \in Tasks : Register(t)
  <2>1. PICK t \in Tasks : tasks' = Append(tasks, t) /\ status' = [status EXCEPT ![t] = "PENDING"]
    BY <1>3 DEF Register
  <2>2. /\ Len(tasks) \in Nat /\ Len(tasks') = Len(tasks) + 1
        /\ tasks'[Len(tasks) + 1] = t
        /\ \A n \in 1..Len(tasks) : tasks'[n] = tasks[n]
    BY <1>0, <2>1, AppendProperties
  <2> SUFFICES ASSUME NEW u \in Tasks, status'[u] # "ABSENT"
               PROVE  \E n \in 1..Len(tasks') : tasks'[n] = u
    BY DEF RegisteredInv
  <2>3. CASE u = t
    <3>1. Len(tasks) + 1 \in 1..Len(tasks')
      BY <2>2
    <3> QED
      BY <2>2, <2>3, <3>1
  <2>4. CASE u # t
    <3>1. PICK n \in 1..Len(tasks) : tasks[n] = u
      BY <1>0, <2>1, <2>4 DEF RegisteredInv
    <3>2. n \in 1..Len(tasks') /\ tasks'[n] = u
      BY <2>2, <3>1
    <3> QED
      BY <3>2
  <2> QED
    BY <2>3, <2>4
<1>4. CASE \E t \in Tasks : Cancel(t)
  <2>1. PICK t \in Tasks : Cancel(t)
    BY <1>4
  <2>2. /\ UNCHANGED tasks /\ status[t] # "ABSENT"
        /\ status' = [status EXCEPT ![t] = "CANCELLED"]
    BY <2>1 DEF Cancel
  <2> QED
    BY <1>1, <2>2
<1>5. CASE \E t \in Tasks : Replay(t)
  <2>1. PICK t \in Tasks : Replay(t)
    BY <1>5
  <2>2. <<t, ReplayKey(t)>> \in seen
    BY <2>1 DEF IInv, KeysInv, Replay, ReplayKey
  <2>3. /\ UNCHANGED tasks /\ status[t] # "ABSENT"
        /\ status' = [status EXCEPT ![t] = "COMPLETED"]
    BY <2>1, <2>2 DEF Replay, Deduplicate
  <2> QED
    BY <1>1, <2>3
<1>6. CASE Succeed \/ Escalate \/ Retry
  <2>1. PICK t \in Tasks : t = Current.task /\ status[t] # "ABSENT"
    BY <1>6, Flying DEF Succeed, Escalate, Retry, InFlight, Open
  <2>2. UNCHANGED tasks /\ \E s : status' = [status EXCEPT ![t] = s] \/ UNCHANGED status
    BY <1>6, <2>1 DEF Succeed, Escalate, Retry, Deduplicate, Dispatch
  <2> QED
    BY <1>1, <2>1, <2>2
<1>7. ASSUME NEW t \in Tasks, NEW ready, Take(t, ready), Open(t)
      PROVE  RegisteredInv'
  <2>1. UNCHANGED tasks /\ \E s : status' = [status EXCEPT ![t] = s] \/ UNCHANGED status
    BY <1>7 DEF Take, Deduplicate, Dispatch
  <2> QED
    BY <1>1, <1>7, <2>1 DEF Open
<1>8. CASE TakeNext
  BY <1>7, <1>8, Known DEF TakeNext, Take
<1>9. CASE \E from : TakeFirst(from)
  <2>0. PICK from : TakeFirst(from)
    BY <1>9
  <2>1. PICK ready \in SUBSET Tasks, t \in Tasks : Scanned(from, ready) /\ Take(t, ready)
    BY <2>0 DEF TakeFirst
  <2>2. Open(t)
    BY <2>1, ReadySound DEF Scanned, Take, IInv
  <2> QED
    BY <1>7, <2>1, <2>2
<1>10. CASE \E from \in 1..(Len(tasks) + 1) : CancelDoomed(from)
  <2>0. PICK from \in 1..(Len(tasks) + 1) : CancelDoomed(from)
    BY <1>10
  <2>1. PICK n \in from..Len(tasks) :
           /\ IsDoomed(tasks[n]) /\ status' = [status EXCEPT ![tasks[n]] = "CANCELLED"]
           /\ UNCHANGED tasks
    BY <2>0 DEF CancelDoomed
  <2>2. tasks[n] \in Tasks
    BY <1>0, <2>1
  <2>3. status[tasks[n]] # "ABSENT"
    BY <2>1 DEF IsDoomed
  <2> QED
    BY <1>1, <2>1, <2>2, <2>3
<1> QED
  BY <1>2, <1>3, <1>4, <1>5, <1>6, <1>8, <1>9, <1>10 DEF Next, Client, IngestEvidence, Review,
     Pause, Resume, Run, Step, Stop, Scan, Stall, StopAfterScan, Complete, Raise, Reassign, vars

\* A cancellation makes no task ready or doomed.
LEMMA CancelledReadies ==
  ASSUME TypeOK, NEW t \in Tasks, status' = [status EXCEPT ![t] = "CANCELLED"]
  PROVE  \A u \in Tasks : /\ IsReady(u)' => IsReady(u) /\ u # t
                          /\ IsDoomed(u)' => IsDoomed(u) /\ u # t
BY DynamicSchedulerAssumption DEF TypeOK, IsReady, IsDoomed

LEMMA ScanPreserved ==
  ASSUME IInv, ScanInv, [Next]_vars
  PROVE  ScanInv'
<1>0. TypeOK /\ tasks \in Seq(Tasks) /\ ctl \in Controls /\ Len(tasks) \in Nat
  BY LenProperties DEF IInv, TypeOK
<1>1. CASE UNCHANGED <<tasks, status, ctl>>
  BY <1>1 DEF ScanInv, IsDoomed, IsReady
<1>2. CASE \E t \in Tasks : Register(t)
  BY <1>2 DEF Register, ScanInv
<1>3. CASE \E t \in Tasks : Cancel(t)
  <2>1. PICK t \in Tasks : status' = [status EXCEPT ![t] = "CANCELLED"] /\ UNCHANGED <<tasks, ctl>>
    BY <1>3 DEF Cancel
  <2>2. \A u \in Tasks : (IsReady(u)' => IsReady(u)) /\ (IsDoomed(u)' => IsDoomed(u))
    BY <1>0, <2>1, CancelledReadies
  <2> SUFFICES ASSUME ctl.at = "scan", NEW m \in 1..(ctl.index - 1)
               PROVE  ~IsDoomed(tasks[m])' /\ (IsReady(tasks[m])' => tasks[m] \in ctl.ready)
    BY <2>1 DEF ScanInv
  <2>3. ctl.index \in Nat /\ ctl.index <= Len(tasks) + 1
    BY <1>0 DEF ScanInv, Controls
  <2>4. PICK u \in Tasks : u = tasks[m]
    BY <1>0, <2>3
  <2>5. ~IsDoomed(u) /\ (IsReady(u) => u \in ctl.ready)
    BY <2>4 DEF ScanInv
  <2>6. ~IsDoomed(u)' /\ (IsReady(u)' => u \in ctl.ready)
    BY <2>2, <2>5
  <2>7. tasks'[m] = u
    BY <2>1, <2>4
  <2> QED
    BY <2>4, <2>6, <2>7 DEF IsDoomed, IsReady
<1>4. CASE \E from \in 1..(Len(tasks) + 1) : CancelDoomed(from)
  <2>0. PICK from \in 1..(Len(tasks) + 1) : CancelDoomed(from)
    BY <1>4
  <2>1. PICK n \in from..Len(tasks) :
           /\ Scanning(from) /\ IsDoomed(tasks[n])
           /\ \A m \in from..(n - 1) : ~IsDoomed(tasks[m])
           /\ status' = [status EXCEPT ![tasks[n]] = "CANCELLED"]
           /\ ctl' = [ctl EXCEPT !.at = "scan", !.index = n + 1, !.ready = ReadyUpTo(from, n - 1)]
           /\ UNCHANGED tasks
    BY <2>0 DEF CancelDoomed
  <2>2. PICK t \in Tasks : t = tasks[n]
    BY <1>0, <2>1
  <2>3. \A u \in Tasks : (IsReady(u)' => IsReady(u) /\ u # t) /\ (IsDoomed(u)' => IsDoomed(u) /\ u # t)
    BY <1>0, <2>1, <2>2, CancelledReadies
  <2>4. ctl'.index = n + 1 /\ ctl'.ready = ReadyUpTo(from, n - 1)
    BY <1>0, <2>1 DEF Controls
  <2>5. ASSUME NEW m \in 1..n
        PROVE  ~IsDoomed(tasks[m])' /\ (IsReady(tasks[m])' => tasks[m] \in ctl'.ready)
    <3>1. PICK u \in Tasks : u = tasks[m]
      BY <1>0, <2>1
    <3>2. ~IsDoomed(u)' /\ (IsReady(u)' => u \in ctl'.ready)
      <4>1. CASE m = n
        BY <2>2, <2>3, <3>1, <4>1
      <4>2. CASE m \in from..(n - 1)
        BY <2>1, <2>3, <2>4, <3>1, <4>2 DEF ReadyUpTo
      <4>3. CASE m < from
        <5>1. ctl.at = "scan" /\ from = ctl.index
          BY <2>1, <4>3 DEF Scanning
        <5>2. m \in 1..(ctl.index - 1)
          BY <2>1, <4>3, <5>1
        <5>3. ~IsDoomed(u) /\ (IsReady(u) => u \in ctl.ready)
          BY <3>1, <5>1, <5>2 DEF ScanInv
        <5> QED
          BY <2>3, <2>4, <5>3 DEF ReadyUpTo
      <4>4. m = n \/ m \in from..(n - 1) \/ m < from
        BY <2>1
      <4> QED
        BY <4>1, <4>2, <4>3, <4>4
    <3>3. tasks'[m] = u
      BY <2>1, <3>1
    <3> QED
      BY <3>1, <3>2, <3>3 DEF IsDoomed, IsReady
  <2>6. ctl'.index \in 1..(Len(tasks') + 1)
    BY <1>0, <2>1, <2>4
  <2>7. \A m \in 1..(ctl'.index - 1) : m \in 1..n /\ tasks'[m] = tasks[m]
    BY <1>0, <2>1, <2>4
  <2> QED
    BY <2>5, <2>6, <2>7 DEF ScanInv, IsDoomed, IsReady
<1>5. CASE ctl'.at # "scan"
  BY <1>5 DEF ScanInv
<1>6. \/ UNCHANGED <<tasks, status, ctl>>
      \/ \E t \in Tasks : Register(t) \/ Cancel(t)
      \/ \E from \in 1..(Len(tasks) + 1) : CancelDoomed(from)
      \/ ctl'.at # "scan"
  <2>1. ASSUME NEW p, Goto(p), p # "scan" PROVE ctl'.at # "scan"
    BY <1>0, <2>1 DEF Goto, Controls
  <2>2. ASSUME NEW ready, Return(ready) PROVE ctl'.at # "scan"
    BY <1>0, <2>2 DEF Return, Controls
  <2>3. ASSUME NEW t, NEW ready, Take(t, ready) PROVE ctl'.at # "scan"
    BY <1>0, <2>2, <2>3 DEF Take, Controls
  <2>4. CASE \E t \in Tasks : Replay(t)
    <3>1. PICK t \in Tasks : Replay(t)
      BY <2>4
    <3>2. ctl.at = "idle" /\ UNCHANGED ctl
      BY <3>1 DEF IInv, KeysInv, Replay, ReplayKey
    <3> QED
      BY <3>2
  <2>5. CASE Succeed \/ Complete \/ Raise \/ Reassign \/ Retry \/ Escalate
    BY <2>1, <2>2, <2>5 DEF Succeed, Complete, Raise, Reassign, Retry, Escalate
  <2>6. CASE Stop \/ \E from : Stall(from) \/ StopAfterScan(from)
    BY <2>1, <2>6 DEF Stop, Stall, StopAfterScan
  <2>7. CASE Run
    BY <1>0, <2>7 DEF Run, Controls
  <2>8. CASE TakeNext \/ \E from : TakeFirst(from)
    BY <2>3, <2>8 DEF TakeNext, TakeFirst
  <2>9. CASE \/ \E e \in Evidence : IngestEvidence(e)
             \/ Review \/ Pause \/ Resume \/ UNCHANGED vars
    BY <2>9 DEF IngestEvidence, Review, Pause, Resume, vars
  <2> QED
    BY <2>4, <2>5, <2>6, <2>7, <2>8, <2>9 DEF Next, Client, Step, Scan
<1> QED
  BY <1>1, <1>2, <1>3, <1>4, <1>5, <1>6

LEMMA PacedInit ==
  Init => PacedInv
BY DEF Init, PacedInv, NumberInv, ObservedInv, RunningInv, RegisteredInv, ScanInv, Revision

LEMMA PacedNext ==
  ASSUME IInv, PacedInv, [Next]_vars
  PROVE  PacedInv'
BY NextIInv, NumberPreserved, ObservedPreserved, RunningPreserved, RegisteredPreserved,
   ScanPreserved DEF PacedInv

LEMMA SpecPacedInv ==
  Spec => [](IInv /\ PacedInv)
BY InitIInv, NextIInv, PacedInit, PacedNext, PTL DEF Spec

\* Nothing is ready at the end of a scan: no task at all can run, none should be
\* cancelled, and none is running.
LEMMA StallIsQuiet ==
  ASSUME IInv, PacedInv, NEW from \in 1..(Len(tasks) + 1), Stall(from)
  PROVE  \A t \in Tasks : ~IsReady(t) /\ ~IsDoomed(t) /\ status[t] # "RUNNING"
<1>0. tasks \in Seq(Tasks) /\ Len(tasks) \in Nat /\ ctl \in Controls
  BY LenProperties DEF IInv, TypeOK
<1>1. /\ Scanning(from) /\ ReadyUpTo(from, Len(tasks)) = {}
      /\ \A n \in from..Len(tasks) : ~IsDoomed(tasks[n])
  BY DEF Stall, Scanned
<1>2. ctl.ready = {} /\ \A n \in from..Len(tasks) : ~IsReady(tasks[n])
  BY <1>1 DEF ReadyUpTo
<1>3. \A n \in 1..(from - 1) : ~IsReady(tasks[n]) /\ ~IsDoomed(tasks[n])
  BY <1>0, <1>1, <1>2 DEF Scanning, PacedInv, ScanInv
<1>4. \A n \in 1..Len(tasks) : ~IsReady(tasks[n]) /\ ~IsDoomed(tasks[n])
  <2>1. \A n \in 1..Len(tasks) : n \in from..Len(tasks) \/ n \in 1..(from - 1)
    BY <1>0
  <2> QED
    BY <1>1, <1>2, <1>3, <2>1
<1> SUFFICES ASSUME NEW t \in Tasks
             PROVE  ~IsReady(t) /\ ~IsDoomed(t) /\ status[t] # "RUNNING"
  OBVIOUS
<1>5. status[t] # "RUNNING"
  BY <1>1 DEF Scanning, PacedInv, RunningInv, InFlight
<1>6. CASE status[t] = "ABSENT"
  BY <1>6 DEF IsReady, IsDoomed
<1>7. CASE status[t] # "ABSENT"
  <2>1. PICK n \in 1..Len(tasks) : tasks[n] = t
    BY <1>7 DEF PacedInv, RegisteredInv
  <2> QED
    BY <1>4, <1>5, <2>1
<1> QED
  BY <1>5, <1>6, <1>7

\* No dependency chain goes on for ever.  The scheduler itself does not check:
\* tasks that await each other are BLOCKED with nothing cancelled or missing.
DependencyEdges == {edge \in Tasks \X Tasks : edge[1] \in DependsOn[edge[2]]}

Acyclic == IsWellFoundedOn(DependencyEdges, Tasks)

\* A pending task that awaits no pending one awaits what will never be there.
LEMMA StuckOnMissing ==
  ASSUME Acyclic, IInv, PacedInv, NEW from \in 1..(Len(tasks) + 1), Stall(from),
         \E t \in Tasks : status[t] = "PENDING"
  PROVE  \E t \in Tasks : /\ status[t] = "PENDING"
                          /\ \E d \in DependsOn[t] : status[d] \in {"ABSENT", "CANCELLED"}
<1> DEFINE pending == {t \in Tasks : status[t] = "PENDING"}
<1>1. PICK t \in pending : \A u \in pending : <<u, t>> \notin DependencyEdges
  <2>1. pending \subseteq Tasks /\ pending # {}
    OBVIOUS
  <2> QED
    BY <2>1, WFMin DEF Acyclic
<1>2. t \in Tasks /\ status[t] = "PENDING" /\ DependsOn[t] \subseteq Tasks
  BY DynamicSchedulerAssumption
<1>3. PICK d \in DependsOn[t] : status[d] # "COMPLETED"
  BY <1>2, StallIsQuiet DEF IsReady
<1>4. d \in Tasks /\ status[d] # "FAILED" /\ status[d] # "RUNNING"
  BY <1>2, <1>3, StallIsQuiet DEF IsDoomed
<1>5. status[d] # "PENDING"
  BY <1>1, <1>2, <1>3, <1>4 DEF DependencyEdges
<1>6. status[d] \in {"ABSENT", "CANCELLED"}
  BY <1>3, <1>4, <1>5 DEF IInv, TypeOK, TaskStatuses
<1> QED
  BY <1>2, <1>3, <1>6

\* Between a pause and its resume only the task in flight goes on, with its
\* retries: no callback gets another one started (run, dynamic.py 385-400).
THEOREM PausedStartsNothing ==
  Spec => PauseStartsNothing
<1>1. ASSUME IInv, PacedInv, [Next]_vars
      PROVE  shared.status # "RUNNING" =>
               \A i \in DOMAIN attempts' \ DOMAIN attempts : attempts'[i].attempt > 1
  <2>1. DOMAIN attempts = 1..Len(attempts) /\ Len(attempts) \in Nat
    BY AttemptType DEF IInv
  <2>2. CASE DOMAIN attempts' = DOMAIN attempts
    BY <2>2
  <2>3. CASE \E n \in Nat \ {0} :
               /\ DOMAIN attempts' = 1..(Len(attempts) + 1)
               /\ attempts'[Len(attempts) + 1].attempt = n
               /\ n > 1 \/ shared.status = "RUNNING"
    BY <2>1, <2>3
  <2> QED
    BY <1>1, <2>2, <2>3, AttemptsShape DEF PacedInv
<1> QED
  BY <1>1, SpecPacedInv, PTL DEF Spec, PauseStartsNothing

\* An incident that awaits its human is resumed only by an approval of a revision
\* that all the evidence precedes (resume, dynamic.py 219-236).
THEOREM ReviewedResumes ==
  Spec => ResumesOnReviewedEvidence
<1>1. ASSUME IInv, PacedInv, [Next]_vars
      PROVE  shared.status = "PAUSED_AWAITING_HUMAN" /\ shared'.status = "RUNNING" =>
               \A e \in Evidence : observed[e] <= reviewed
  <2>1. ASSUME NEW from, Stall(from)
        PROVE  shared'.status # "RUNNING"
    BY <2>1 DEF Stall, EmitStatus
  <2>2. ASSUME reviewed = Revision
        PROVE  \A e \in Evidence : observed[e] <= reviewed
    BY <1>1, <2>2 DEF PacedInv, ObservedInv
  <2> QED
    BY <1>1, <2>1, <2>2, SharedShape
<1> QED
  BY <1>1, SpecPacedInv, PTL DEF Spec, ResumesOnReviewedEvidence

\* When no dependencies form a cycle, run gives up only once every task is
\* settled, or on a dependency cancelled or never registered (dynamic.py 238-249,
\* 385-396).
THEOREM StallsAreStuck ==
  ASSUME Acyclic
  PROVE  Spec => StallsOnlyWhenStuck
<1> DEFINE Stuck ==
      /\ shared'.status = "COMPLETED" =>
           shared.status = "COMPLETED" \/ \A t \in Tasks : status[t] # "PENDING"
      /\ shared'.status = "BLOCKED" /\ shared.status # "BLOCKED" =>
           /\ \A t \in Tasks : ~Runnable(t)
           /\ \E t \in Tasks : /\ status[t] = "PENDING"
                               /\ \E d \in DependsOn[t] : status[d] \in {"ABSENT", "CANCELLED"}
<1>1. ASSUME IInv, PacedInv, [Next]_vars
      PROVE  Stuck
  <2>1. CASE \/ shared'.status = shared.status
             \/ shared'.status = "PAUSED_AWAITING_HUMAN"
             \/ shared'.status = "RUNNING"
    BY <2>1
  <2>2. CASE \E from \in 1..(Len(tasks) + 1) : Stall(from)
    <3>1. PICK from \in 1..(Len(tasks) + 1) : Stall(from)
      BY <2>2
    <3>2. shared'.status = IF \E t \in Tasks : status[t] = "PENDING" THEN "BLOCKED" ELSE "COMPLETED"
      BY <3>1 DEF Stall, EmitStatus
    <3>3. \A t \in Tasks : ~Runnable(t)
      BY <1>1, <3>1, StallIsQuiet DEF Runnable, IsReady
    <3>4. CASE \E t \in Tasks : status[t] = "PENDING"
      <4>1. \E t \in Tasks : /\ status[t] = "PENDING"
                             /\ \E d \in DependsOn[t] : status[d] \in {"ABSENT", "CANCELLED"}
        BY <1>1, <3>1, <3>4, StuckOnMissing
      <4> QED
        BY <3>2, <3>3, <3>4, <4>1
    <3>5. CASE \A t \in Tasks : status[t] # "PENDING"
      BY <3>2, <3>5
    <3> QED
      BY <3>4, <3>5
  <2> QED
    BY <1>1, <2>1, <2>2, SharedShape
<1> QED
  BY <1>1, SpecPacedInv, PTL DEF Spec, StallsOnlyWhenStuck

=============================================================================
