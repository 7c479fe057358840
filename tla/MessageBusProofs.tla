--------------------------- MODULE MessageBusProofs ---------------------------
(***************************************************************************)
(* Proofs about MessageBus, for any keys, topics, clients, budgets and     *)
(* bounds: what no overlap of calls can spoil, and that every step of the bus is   *)
(* one of the delivery queue's.                                            *)
(***************************************************************************)
EXTENDS MessageBus, TLAPS

Rows == [status : {"NONE", "READY", "INFLIGHT", "ACKED", "DLQ"}, attempts : Nat, created : Nat]

Calls ==
  [step : {"idle", "insert", "deliver", "holding", "fail"}, key : Keys \cup {"none"}, read : Nat]

\* A client from consume's SELECT to the end of its ack or fail, and from
\* consume's UPDATE on.
Takes(c) == calls[c].step \in {"deliver", "holding", "fail"}
Holds(c) == calls[c].step \in {"holding", "fail"}

\* The types as function sets, which the provers need for EXCEPT.
Shapes ==
  /\ messages \in [Keys -> Rows] /\ calls \in [Clients -> Calls]
  /\ clock \in 0..MaxPublishes /\ failures \in [Keys -> Nat]
  /\ contended \subseteq Keys /\ deaths \in 0..MaxDeaths
  /\ \A c \in Clients : calls[c].step # "idle" => calls[c].key \in Keys

\* Creation times lie in the past, also those that a publish has still to write.
Dated ==
  /\ \A k \in Keys : messages[k].created <= clock
  /\ \A c \in Clients : calls[c].step = "insert" => calls[c].read <= clock

\* A row never counts more failures than clients reported, nor does the number
\* that a fail call read earlier; and it stays within the bound.
Counted ==
  /\ \A k \in Keys : messages[k].attempts <= failures[k] /\ messages[k].attempts <= MaxFailures
  /\ \A c \in Clients : calls[c].step = "fail" =>
       calls[c].read <= failures[calls[c].key] /\ calls[c].read < MaxFailures

\* What a client takes was published.  Unless two clients selected it at once, it
\* is in one client's hands, READY while about to be delivered and INFLIGHT from
\* then on, and a fail call knows the attempts.
ReadsAreCurrent ==
  /\ \A c \in Clients : Takes(c) => messages[calls[c].key].status # "NONE"
  /\ \A c \in Clients : Takes(c) /\ calls[c].key \notin contended =>
       /\ calls[c].step = "deliver" => messages[calls[c].key].status = "READY"
       /\ Holds(c) => messages[calls[c].key].status = "INFLIGHT"
       /\ calls[c].step = "fail" => calls[c].read = messages[calls[c].key].attempts
  /\ \A c, d \in Clients :
       c # d /\ Takes(c) /\ Takes(d) /\ calls[c].key = calls[d].key => calls[c].key \in contended

\* No message dies early; the row of one that was never contended counts every
\* failure, and is dead if they reached its budget.
Budgeted ==
  \A k \in Keys :
    /\ messages[k].status = "NONE" => failures[k] = 0
    /\ messages[k].status = "DLQ" => failures[k] >= MaxAttempts[k]
    /\ k \notin contended =>
         messages[k].attempts = failures[k]
         /\ (messages[k].status # "DLQ" => failures[k] < MaxAttempts[k])

\* The inductive invariant.
IInv == Shapes /\ Dated /\ Counted /\ ReadsAreCurrent /\ Budgeted

LEMMA IInvInit == Init => IInv
<1> SUFFICES ASSUME Init
             PROVE  IInv
  OBVIOUS
<1>1. Shapes
  <2>1. NoRow \in Rows /\ Idle \in Calls
    BY DEF Rows, Calls, NoRow, Idle
  <2>2. 0 \in 0..MaxPublishes /\ 0 \in 0..MaxDeaths
    BY MessageBusAssumption
  <2> QED
    BY <2>1, <2>2 DEF Init, Shapes, Idle
<1>2. Dated /\ Counted /\ ReadsAreCurrent
  BY MessageBusAssumption DEF Init, Dated, Counted, ReadsAreCurrent, Holds, Takes, NoRow, Idle
<1>3. Budgeted
  BY MessageBusAssumption DEF Init, Budgeted, NoRow
<1> QED
  BY <1>1, <1>2, <1>3 DEF IInv

LEMMA StampStep ==
  ASSUME IInv, NEW c \in Clients, StampMessage(c)
  PROVE  IInv'
<1> USE DEF IInv
<1>1. calls[c].step = "idle" /\ UNCHANGED <<contended, deaths>>
  BY DEF StampMessage
<1>2. PICK k \in Keys :
         calls' = [calls EXCEPT ![c] = [step |-> "insert", key |-> k, read |-> clock + 1]]
  BY DEF StampMessage
<1>3. UNCHANGED <<messages, failures>> /\ clock' = clock + 1 /\ clock < MaxPublishes
  BY DEF StampMessage
<1>4. Shapes'
  BY <1>1, <1>2, <1>3, MessageBusAssumption DEF Shapes, Calls
<1>5. Dated'
  BY <1>2, <1>3 DEF Dated, Shapes, Rows, Calls
<1>6. Counted'
  BY <1>2, <1>3 DEF Counted, Shapes
<1>7. ReadsAreCurrent' /\ Budgeted'
  BY <1>1, <1>2, <1>3 DEF ReadsAreCurrent, Budgeted, Holds, Takes, Shapes
<1> QED
  BY <1>4, <1>5, <1>6, <1>7

\* Nobody has taken a message that is not published yet.
LEMMA InsertStep ==
  ASSUME IInv, NEW c \in Clients, InsertMessage(c)
  PROVE  IInv'
<1> USE DEF IInv
<1> DEFINE k == calls[c].key
<1>1. calls[c].step = "insert" /\ k \in Keys /\ UNCHANGED <<contended, deaths>>
  BY DEF InsertMessage, Shapes
<1>2. /\ calls' = [calls EXCEPT ![c] = Idle] /\ UNCHANGED <<clock, failures>>
      /\ messages' = [messages EXCEPT ![k] =
           IF Stored(k) THEN @ ELSE [status |-> "READY", attempts |-> 0, created |-> calls[c].read]]
  BY DEF InsertMessage
<1>3. Shapes'
  BY <1>1, <1>2 DEF Shapes, Calls, Rows, Idle
<1>4. Dated'
  BY <1>1, <1>2 DEF Dated, Shapes, Rows, Calls, Idle
<1>5. Counted'
  BY <1>1, <1>2, MessageBusAssumption DEF Counted, Shapes, Rows, Calls, Idle
<1>6. \A d \in Clients : calls'[d] = IF d = c THEN Idle ELSE calls[d]
  BY <1>2 DEF Shapes
<1>7. \A other \in Keys : messages[other].status # "NONE" => messages'[other] = messages[other]
  BY <1>1, <1>2 DEF Shapes, Stored
<1>8. ReadsAreCurrent'
  BY <1>1, <1>6, <1>7 DEF ReadsAreCurrent, Takes, Holds, Shapes, Idle
<1>9. Budgeted'
  <2>1. MaxAttempts[k] \in Nat \ {0} /\ failures[k] \in Nat
    BY <1>1, MessageBusAssumption DEF Shapes
  <2>2. \A other \in Keys \ {k} : messages'[other] = messages[other]
    BY <1>1, <1>2 DEF Shapes
  <2>3. CASE Stored(k)
    BY <1>1, <1>2, <1>7, <2>2, <2>3 DEF Budgeted, Stored
  <2>4. CASE ~Stored(k)
    <3>1. failures[k] = 0 /\ messages'[k].status = "READY" /\ messages'[k].attempts = 0
      BY <1>1, <1>2, <2>4 DEF Budgeted, Stored, Shapes
    <3> QED
      BY <1>1, <1>2, <2>1, <2>2, <3>1 DEF Budgeted
  <2> QED
    BY <2>3, <2>4
<1> QED
  BY <1>3, <1>4, <1>5, <1>8, <1>9

\* A client that selects a message another client has selected makes it contended.
LEMMA SelectStep ==
  ASSUME IInv, NEW c \in Clients, SelectMessage(c)
  PROVE  IInv'
<1> USE DEF IInv
<1>1. calls[c].step = "idle" /\ UNCHANGED <<messages, clock, failures, deaths>>
  BY DEF SelectMessage
<1>2. PICK k \in Keys :
         /\ messages[k].status = "READY"
         /\ calls' = [calls EXCEPT ![c] = [step |-> "deliver", key |-> k, read |-> 0]]
         /\ contended' = contended \cup {key \in {k} : \E d \in Clients : Selected(d, key)}
  BY DEF SelectMessage, Ready
<1>3. Shapes'
  BY <1>1, <1>2 DEF Shapes, Calls
<1>4. Dated' /\ Counted'
  BY <1>1, <1>2 DEF Dated, Counted, Shapes
<1>5. calls'[c] = [step |-> "deliver", key |-> k, read |-> 0]
        /\ \A d \in Clients \ {c} : calls'[d] = calls[d]
  BY <1>2 DEF Shapes
<1>6. contended \subseteq contended'
  BY <1>2
<1>7. ASSUME NEW d \in Clients, d # c, Takes(d), calls[d].key = k
      PROVE  k \in contended'
  <2>1. CASE calls[d].step = "deliver"
    BY <1>2, <1>7, <2>1 DEF Selected
  <2>2. CASE Holds(d)
    <3>1. calls[d].key \in contended
      BY <1>2, <1>7, <2>2 DEF ReadsAreCurrent, Holds
    <3> QED
      BY <1>6, <1>7, <3>1
  <2> QED
    BY <1>7, <2>1, <2>2 DEF Takes, Holds
<1>8. ReadsAreCurrent'
  <2>1. \A d \in Clients : Takes(d)' => messages'[calls'[d].key].status # "NONE"
    BY <1>1, <1>2, <1>5 DEF ReadsAreCurrent, Takes
  <2>2. ASSUME NEW d \in Clients, Takes(d)', calls'[d].key \notin contended'
        PROVE  /\ calls'[d].step = "deliver" => messages'[calls'[d].key].status = "READY"
               /\ Holds(d)' => messages'[calls'[d].key].status = "INFLIGHT"
               /\ calls'[d].step = "fail" => calls'[d].read = messages'[calls'[d].key].attempts
    <3>1. CASE d = c
      BY <1>1, <1>2, <1>5, <3>1 DEF Holds
    <3>2. CASE d # c
      BY <1>1, <1>5, <1>6, <2>2, <3>2 DEF ReadsAreCurrent, Takes, Holds
    <3> QED
      BY <3>1, <3>2
  <2>3. ASSUME NEW d \in Clients, NEW e \in Clients, d # e, Takes(d)', Takes(e)',
               calls'[d].key = calls'[e].key
        PROVE  calls'[d].key \in contended'
    <3>1. CASE d = c \/ e = c
      <4>1. PICK other \in {d, e} : other # c
        BY <2>3
      <4>2. calls'[d].key = k /\ calls'[e].key = k /\ Takes(other) /\ calls[other].key = k
        BY <1>5, <2>3, <3>1, <4>1 DEF Takes
      <4> QED
        BY <1>7, <4>1, <4>2
    <3>2. CASE d # c /\ e # c
      <4>1. calls[d].key \in contended
        BY <1>5, <2>3, <3>2 DEF ReadsAreCurrent, Takes
      <4> QED
        BY <1>5, <1>6, <3>2, <4>1
    <3> QED
      BY <3>1, <3>2
  <2> QED
    BY <2>1, <2>2, <2>3 DEF ReadsAreCurrent
<1>9. Budgeted'
  BY <1>1, <1>6 DEF Budgeted
<1> QED
  BY <1>3, <1>4, <1>8, <1>9

\* A client that writes the status of a message in its hands and puts it down or
\* keeps it.
LEMMA WriteStep ==
  ASSUME IInv, NEW c \in Clients, NEW status \in {"INFLIGHT", "ACKED"}, NEW call \in Calls,
         Takes(c), SetStatus(calls[c].key, status), calls' = [calls EXCEPT ![c] = call],
         UNCHANGED <<clock, failures, contended, deaths>>,
         call = Idle \/ (call.step = "holding" /\ call.key = calls[c].key /\ status = "INFLIGHT"),
         calls[c].key \notin contended => messages[calls[c].key].status # "DLQ"
  PROVE  IInv'
<1> USE DEF IInv
<1> DEFINE k == calls[c].key
<1>1. k \in Keys /\ messages' = [messages EXCEPT ![k].status = status]
  BY DEF SetStatus, Shapes, Takes
<1>2. \A d \in Clients : calls'[d] = IF d = c THEN call ELSE calls[d]
  BY DEF Shapes
<1>3. /\ messages'[k].status = status /\ messages'[k].attempts = messages[k].attempts
      /\ messages'[k].created = messages[k].created
      /\ \A other \in Keys \ {k} : messages'[other] = messages[other]
  BY <1>1 DEF Shapes, Rows
<1>4. Shapes'
  BY <1>1, <1>2 DEF Shapes, Rows, Idle
<1>5. Dated' /\ Counted'
  BY <1>1, <1>2, <1>3 DEF Dated, Counted, Shapes, Idle
<1>6. \A d \in Clients : Takes(d)' =>
        Takes(d) /\ calls'[d].key = calls[d].key /\ (d # c => calls'[d] = calls[d])
  BY <1>2 DEF Takes, Idle
<1>7. ReadsAreCurrent'
  <2>1. \A d \in Clients : Takes(d)' => messages'[calls'[d].key].status # "NONE"
    <3> SUFFICES ASSUME NEW d \in Clients, Takes(d)'
                 PROVE  messages'[calls'[d].key].status # "NONE"
      OBVIOUS
    <3>1. calls'[d].key = calls[d].key /\ calls[d].key \in Keys
             /\ messages[calls[d].key].status # "NONE"
      BY <1>6 DEF ReadsAreCurrent, Takes, Shapes
    <3>2. CASE calls[d].key = k
      BY <1>3, <3>1, <3>2
    <3>3. CASE calls[d].key # k
      BY <1>3, <3>1, <3>3
    <3> QED
      BY <3>2, <3>3
  <2>2. ASSUME NEW d \in Clients, Takes(d)', calls'[d].key \notin contended'
        PROVE  /\ calls'[d].step = "deliver" => messages'[calls'[d].key].status = "READY"
               /\ Holds(d)' => messages'[calls'[d].key].status = "INFLIGHT"
               /\ calls'[d].step = "fail" => calls'[d].read = messages'[calls'[d].key].attempts
    <3>1. CASE d = c
      BY <1>2, <1>3, <2>2, <3>1 DEF Takes, Holds, Idle
    <3>2. CASE d # c
      <4>1. Takes(d) /\ calls'[d] = calls[d] /\ calls[d].key \in Keys
        BY <1>6, <2>2, <3>2 DEF Takes, Shapes
      <4>2. calls[d].key # k
        BY <2>2, <3>2, <4>1 DEF ReadsAreCurrent
      <4>3. messages'[calls[d].key] = messages[calls[d].key]
        BY <1>3, <4>1, <4>2
      <4> QED
        BY <2>2, <4>1, <4>3 DEF ReadsAreCurrent, Holds
    <3> QED
      BY <3>1, <3>2
  <2>3. ASSUME NEW d \in Clients, NEW e \in Clients, d # e, Takes(d)', Takes(e)',
               calls'[d].key = calls'[e].key
        PROVE  calls'[d].key \in contended'
    BY <1>6, <2>3 DEF ReadsAreCurrent
  <2> QED
    BY <2>1, <2>2, <2>3 DEF ReadsAreCurrent
<1>8. Budgeted'
  <2>1. messages[k].status # "NONE"
    BY DEF ReadsAreCurrent
  <2> QED
    BY <1>1, <1>3, <2>1 DEF Budgeted
<1> QED
  BY <1>4, <1>5, <1>7, <1>8

LEMMA DeliverStep ==
  ASSUME IInv, NEW c \in Clients, DeliverMessage(c)
  PROVE  IInv'
<1>1. PICK call : call = [calls[c] EXCEPT !.step = "holding"]
  OBVIOUS
<1>2. call \in Calls /\ call.step = "holding" /\ call.key = calls[c].key
  BY <1>1 DEF IInv, Shapes, Calls
<1>3. calls' = [calls EXCEPT ![c] = call]
  BY <1>1 DEF DeliverMessage
<1>4. Takes(c) /\ (calls[c].key \notin contended => messages[calls[c].key].status # "DLQ")
  BY DEF DeliverMessage, Takes, IInv, ReadsAreCurrent
<1> QED
  BY <1>2, <1>3, <1>4, WriteStep DEF DeliverMessage

LEMMA AckStep ==
  ASSUME IInv, NEW c \in Clients, Ack(c)
  PROVE  IInv'
<1>1. Idle \in Calls
  BY DEF Idle, Calls
<1>2. Takes(c) /\ (calls[c].key \notin contended => messages[calls[c].key].status # "DLQ")
  BY DEF Ack, Takes, Holds, IInv, ReadsAreCurrent
<1> QED
  BY <1>1, <1>2, WriteStep DEF Ack

LEMMA ReadStep ==
  ASSUME IInv, NEW c \in Clients, ReadMessage(c)
  PROVE  IInv'
<1> USE DEF IInv
<1> DEFINE k == calls[c].key
<1>1. calls[c].step = "holding" /\ k \in Keys
  BY DEF ReadMessage, Shapes
<1>2. /\ failures[k] < MaxFailures /\ UNCHANGED <<messages, clock, failures, contended, deaths>>
      /\ calls' = [calls EXCEPT ![c].step = "fail", ![c].read = messages[k].attempts]
  BY DEF ReadMessage
<1>3. Shapes'
  BY <1>1, <1>2 DEF Shapes, Calls, Rows
<1>4. Dated'
  BY <1>1, <1>2 DEF Dated, Shapes, Calls
<1>5. Counted'
  <2>1. messages[k].attempts <= failures[k] /\ messages[k].attempts < MaxFailures
    BY <1>1, <1>2, MessageBusAssumption DEF Counted, Shapes, Rows
  <2> QED
    BY <1>1, <1>2, <2>1 DEF Counted, Shapes, Calls
<1>6. ReadsAreCurrent' /\ Budgeted'
  BY <1>1, <1>2 DEF ReadsAreCurrent, Budgeted, Holds, Takes, Shapes, Calls
<1> QED
  BY <1>3, <1>4, <1>5, <1>6

LEMMA FailStep ==
  ASSUME IInv, NEW c \in Clients, FailMessage(c)
  PROVE  IInv'
<1> USE DEF IInv
<1> DEFINE k == calls[c].key
           attempts == calls[c].read + 1
           status == IF Exhausted(k, attempts) THEN "DLQ" ELSE "READY"
<1>1. calls[c].step = "fail" /\ k \in Keys /\ attempts \in Nat /\ UNCHANGED <<contended, deaths>>
  BY DEF FailMessage, Shapes, Calls
<1>2. /\ calls' = [calls EXCEPT ![c] = Idle] /\ UNCHANGED clock
      /\ messages' = [messages EXCEPT ![k].attempts = attempts, ![k].status = status]
      /\ failures' = [failures EXCEPT ![k] = @ + 1]
  BY DEF FailMessage
<1>3. \A other \in Keys :
        /\ messages'[other] = IF other = k
             THEN [messages[k] EXCEPT !.attempts = attempts, !.status = status] ELSE messages[other]
        /\ failures'[other] = IF other = k THEN failures[k] + 1 ELSE failures[other]
  BY <1>1, <1>2 DEF Shapes, Rows
<1>4. Shapes'
  <2>1. [messages[k] EXCEPT !.attempts = attempts, !.status = status] \in Rows
    BY <1>1 DEF Shapes, Rows
  <2>2. messages' \in [Keys -> Rows]
    BY <1>1, <1>2, <1>3, <2>1 DEF Shapes
  <2> QED
    BY <1>1, <1>2, <2>2 DEF Shapes, Calls, Idle
<1>5. Dated'
  BY <1>1, <1>2, <1>3 DEF Dated, Shapes, Rows, Calls, Idle
<1>6. Counted'
  <2>1. calls[c].read <= failures[k] /\ calls[c].read < MaxFailures
    BY <1>1 DEF Counted
  <2>2. \A other \in Keys : failures[other] \in Nat /\ failures'[other] >= failures[other]
    BY <1>3 DEF Shapes
  <2>3. \A other \in Keys : /\ messages'[other].attempts <= failures'[other]
                            /\ messages'[other].attempts <= MaxFailures
    <3>1. /\ messages'[k].attempts = attempts /\ failures'[k] = failures[k] + 1
          /\ failures[k] \in Nat /\ calls[c].read \in Nat /\ MaxFailures \in Nat
      BY <1>1, <1>3, MessageBusAssumption DEF Shapes, Rows, Calls
    <3>2. messages'[k].attempts <= failures'[k] /\ messages'[k].attempts <= MaxFailures
      BY <2>1, <3>1
    <3>3. \A other \in Keys \ {k} :
             messages'[other] = messages[other] /\ failures'[other] = failures[other]
      BY <1>3
    <3> QED
      BY <3>2, <3>3 DEF Counted
  <2>4. ASSUME NEW d \in Clients, calls'[d].step = "fail"
        PROVE  calls'[d].read <= failures'[calls'[d].key] /\ calls'[d].read < MaxFailures
    <3>1. calls'[d] = calls[d]
      BY <1>2, <2>4 DEF Shapes, Idle
    <3>2. calls[d].key \in Keys /\ calls[d].read \in Nat
      BY <2>4, <3>1 DEF Shapes, Calls
    <3>3. calls[d].read <= failures[calls[d].key] /\ calls[d].read < MaxFailures
      BY <2>4, <3>1 DEF Counted
    <3>4. failures[calls[d].key] \in Nat /\ failures'[calls[d].key] \in Nat
      BY <1>4, <3>2 DEF Shapes
    <3>5. failures'[calls[d].key] >= failures[calls[d].key]
      BY <2>2, <3>2
    <3> QED
      BY <3>1, <3>2, <3>3, <3>4, <3>5
  <2> QED
    BY <2>3, <2>4 DEF Counted
<1>7. /\ messages'[k].attempts = attempts /\ messages'[k].status = status
      /\ status \in {"DLQ", "READY"} /\ failures'[k] = failures[k] + 1
      /\ \A other \in Keys \ {k} :
           messages'[other] = messages[other] /\ failures'[other] = failures[other]
  BY <1>1, <1>3 DEF Shapes, Rows
<1>8. ReadsAreCurrent'
  <2>1. \A d \in Clients : Takes(d)' => d # c /\ Takes(d) /\ calls'[d] = calls[d]
    BY <1>2 DEF Takes, Idle, Shapes
  <2>2. \A d \in Clients : Takes(d)' => messages'[calls'[d].key].status # "NONE"
    <3> HIDE DEF status, attempts
    <3> QED
      BY <1>1, <1>7, <2>1 DEF ReadsAreCurrent, Shapes, Takes
  <2>3. ASSUME NEW d \in Clients, Takes(d)', calls'[d].key \notin contended'
        PROVE  /\ calls'[d].step = "deliver" => messages'[calls'[d].key].status = "READY"
               /\ Holds(d)' => messages'[calls'[d].key].status = "INFLIGHT"
               /\ calls'[d].step = "fail" => calls'[d].read = messages'[calls'[d].key].attempts
    <3>1. d # c /\ Takes(d) /\ calls'[d] = calls[d] /\ calls[d].key \in Keys
      BY <2>1, <2>3 DEF Takes, Shapes
    <3>2. calls[d].key # k
      BY <1>1, <2>3, <3>1 DEF ReadsAreCurrent, Takes
    <3>3. messages'[calls[d].key] = messages[calls[d].key]
      BY <1>7, <3>1, <3>2
    <3> QED
      BY <1>1, <2>3, <3>1, <3>3 DEF ReadsAreCurrent, Holds
  <2>4. ASSUME NEW d \in Clients, NEW e \in Clients, d # e, Takes(d)', Takes(e)',
               calls'[d].key = calls'[e].key
        PROVE  calls'[d].key \in contended'
    BY <1>1, <2>1, <2>4 DEF ReadsAreCurrent
  <2> QED
    BY <2>2, <2>3, <2>4 DEF ReadsAreCurrent
<1>9. Budgeted'
  <2>1. /\ failures[k] \in Nat /\ MaxAttempts[k] \in Nat /\ calls[c].read \in Nat
        /\ calls[c].read <= failures[k]
    BY <1>1, MessageBusAssumption DEF Shapes, Calls, Counted
  <2>2. status = "DLQ" => failures'[k] >= MaxAttempts[k]
    BY <1>7, <2>1 DEF Exhausted
  <2>3. k \notin contended => attempts = failures'[k]
    BY <1>1, <1>7, <2>1 DEF ReadsAreCurrent, Budgeted, Takes
  <2>4. k \notin contended /\ status # "DLQ" => failures'[k] < MaxAttempts[k]
    BY <1>1, <2>1, <2>3 DEF Exhausted
  <2> HIDE DEF status, attempts
  <2> QED
    BY <1>1, <1>7, <2>2, <2>3, <2>4 DEF Budgeted
<1> QED
  BY <1>4, <1>5, <1>6, <1>8, <1>9

LEMMA DieStep ==
  ASSUME IInv, NEW c \in Clients, Die(c)
  PROVE  IInv'
<1> USE DEF IInv
<1>1. /\ calls' = [calls EXCEPT ![c] = Idle] /\ deaths' = deaths + 1 /\ deaths < MaxDeaths
      /\ UNCHANGED <<messages, clock, failures, contended>>
  BY DEF Die
<1>2. Shapes'
  BY <1>1, MessageBusAssumption DEF Shapes, Calls, Idle
<1>3. Dated' /\ Counted'
  BY <1>1 DEF Dated, Counted, Shapes, Idle
<1>4. \A d \in Clients : Takes(d)' => Takes(d) /\ calls'[d] = calls[d]
  BY <1>1 DEF Takes, Idle, Shapes
<1>5. ReadsAreCurrent' /\ Budgeted'
  BY <1>1, <1>4 DEF ReadsAreCurrent, Budgeted, Holds
<1> QED
  BY <1>2, <1>3, <1>5

LEMMA IInvNext == IInv /\ [Next]_vars => IInv'
<1> SUFFICES ASSUME IInv, [Next]_vars
             PROVE  IInv'
  OBVIOUS
<1>1. CASE UNCHANGED vars
  BY <1>1 DEF vars, IInv, Shapes, Dated, Counted, ReadsAreCurrent, Budgeted, Holds, Takes
<1>2. ASSUME NEW c \in Clients, StampMessage(c) \/ Serve(c) \/ Die(c)
      PROVE  IInv'
  BY <1>2, StampStep, InsertStep, SelectStep, DeliverStep, AckStep, ReadStep, FailStep, DieStep
     DEF Serve
<1> QED
  BY <1>1, <1>2 DEF Next

\* The invariant holds in every reachable state.
THEOREM InductiveInvariant == Spec => []IInv
  BY IInvInit, IInvNext, PTL DEF Spec

\* Whatever overlaps and whoever dies, the tables are well typed.
THEOREM TypeCorrectness == Spec => []TypeOK
<1>1. IInv => TypeOK
  BY MessageBusAssumption DEF IInv, Shapes, Dated, Counted, TypeOK, Rows, Calls
<1> QED
  BY <1>1, InductiveInvariant, PTL

\* infra.py 162-196: under any overlap and any deaths no message is dead-lettered
\* before its clients reported max_attempts failures, and one that no two clients
\* selected at once is dead-lettered by the very failure that uses them up.
THEOREM BudgetedDeath == Spec => []DeadAfterBudget
<1>1. IInv => DeadAfterBudget
  BY MessageBusAssumption DEF IInv, Shapes, Counted, Budgeted, DeadAfterBudget, Rows
<1> QED
  BY <1>1, InductiveInvariant, PTL

-----------------------------------------------------------------------------
(***************************************************************************)
(* The bus is a delivery queue.                                            *)
(***************************************************************************)
PlaceOf == [k \in Keys |-> Places[messages[k].status]]

\* A write that changes the status of one row moves one message of the queue.
LEMMA MovesOne ==
  ASSUME NEW k \in Keys, NEW to, Shapes, messages'[k].status = to,
         \A other \in Keys \ {k} : messages'[other].status = messages[other].status
  PROVE  Queue!Put(k, Places[to])
<1>1. PlaceOf' = [PlaceOf EXCEPT ![k] = Places[to]]
  BY DEF PlaceOf
<1> QED
  BY <1>1 DEF Queue!Put, PlaceOf

\* What a client has in its hands is where the queue allows it to be.
LEMMA TakenIsAt ==
  ASSUME IInv, NEW c \in Clients, Takes(c),
         NEW status \in {"READY", "INFLIGHT"},
         calls[c].key \notin contended => messages[calls[c].key].status = status
  PROVE  calls[c].key \in Keys /\ Queue!At(calls[c].key, Places[status])
<1>1. /\ calls[c].key \in Keys /\ messages[calls[c].key].status # "NONE"
      /\ messages[calls[c].key].status \in {"NONE", "READY", "INFLIGHT", "ACKED", "DLQ"}
  BY DEF IInv, Shapes, Takes, ReadsAreCurrent, Rows
<1>2. Places[messages[calls[c].key].status] # "unpublished"
  BY <1>1 DEF Places
<1> QED
  BY <1>1, <1>2 DEF Queue!At

LEMMA QueueInit == Init => Queue!Init
  BY DEF Init, NoRow, Queue!Init, Places

\* Publishing, delivering, acknowledging and failing each happen in the step that
\* writes; contention in the step that selects; the other steps leave the queue
\* alone.
LEMMA QueueStep == IInv /\ [Next]_vars => [Queue!Next]_(Queue!queue)
<1> SUFFICES ASSUME IInv, [Next]_vars
             PROVE  Queue!Next \/ UNCHANGED Queue!queue
  OBVIOUS
<1>a. Shapes
  BY DEF IInv
<1>1. CASE UNCHANGED <<messages, failures, contended>>
  BY <1>1 DEF Queue!queue
<1>2. ASSUME NEW c \in Clients, InsertMessage(c)
      PROVE  Queue!Next \/ UNCHANGED Queue!queue
  <2> DEFINE k == calls[c].key
  <2>1. k \in Keys /\ UNCHANGED <<failures, contended>>
    BY <1>a, <1>2 DEF InsertMessage, Shapes
  <2>2. CASE Stored(k)
    <3>1. messages' = messages
      BY <1>a, <1>2, <2>1, <2>2 DEF InsertMessage, Shapes
    <3> QED
      BY <2>1, <3>1 DEF Queue!queue
  <2>3. CASE ~Stored(k)
    <3>1. messages[k].status = "NONE" /\ messages'[k].status = "READY"
          /\ \A other \in Keys \ {k} : messages'[other].status = messages[other].status
      BY <1>a, <1>2, <2>1, <2>3 DEF InsertMessage, Shapes, Stored
    <3>2. Queue!Put(k, "waiting")
      BY <1>a, <2>1, <3>1, MovesOne DEF Places
    <3> QED
      BY <2>1, <3>1, <3>2 DEF Queue!Next, Queue!Publish, Places
  <2> QED
    BY <2>2, <2>3
<1>3. ASSUME NEW c \in Clients, SelectMessage(c)
      PROVE  Queue!Next \/ UNCHANGED Queue!queue
  <2>1. PICK k \in Keys :
           /\ messages[k].status = "READY"
           /\ contended' = contended \cup {key \in {k} : \E d \in Clients : Selected(d, key)}
    BY <1>3 DEF SelectMessage, Ready
  <2>2. UNCHANGED <<messages, failures>>
    BY <1>3 DEF SelectMessage
  <2>3. contended' = contended \/ contended' = contended \cup {k}
    BY <2>1
  <2>4. CASE contended' = contended \cup {k}
    BY <2>1, <2>2, <2>4 DEF Queue!Next, Queue!Contend, Places
  <2> QED
    BY <1>1, <2>2, <2>3, <2>4
<1>4. ASSUME NEW c \in Clients, DeliverMessage(c)
      PROVE  Queue!Next
  <2> DEFINE k == calls[c].key
  <2>1. k \in Keys /\ Queue!At(k, "waiting")
    BY <1>4, TakenIsAt DEF DeliverMessage, Takes, IInv, ReadsAreCurrent, Places
  <2>2. /\ UNCHANGED <<failures, contended>>
        /\ messages' = [messages EXCEPT ![k].status = "INFLIGHT"]
    BY <1>4 DEF DeliverMessage, SetStatus
  <2>3. messages'[k].status = "INFLIGHT"
        /\ \A other \in Keys \ {k} : messages'[other].status = messages[other].status
    BY <1>a, <2>1, <2>2 DEF Shapes, Rows
  <2>4. Queue!Put(k, "delivered")
    BY <1>a, <2>1, <2>3, MovesOne DEF Places
  <2> QED
    BY <2>1, <2>2, <2>4 DEF Queue!Next, Queue!Deliver
<1>5. ASSUME NEW c \in Clients, Ack(c)
      PROVE  Queue!Next
  <2> DEFINE k == calls[c].key
  <2>1. k \in Keys /\ Queue!At(k, "delivered")
    BY <1>5, TakenIsAt DEF Ack, Takes, Holds, IInv, ReadsAreCurrent, Places
  <2>2. /\ UNCHANGED <<failures, contended>>
        /\ messages' = [messages EXCEPT ![k].status = "ACKED"]
    BY <1>5 DEF Ack, SetStatus
  <2>3. messages'[k].status = "ACKED"
        /\ \A other \in Keys \ {k} : messages'[other].status = messages[other].status
    BY <1>a, <2>1, <2>2 DEF Shapes, Rows
  <2>4. Queue!Put(k, "done")
    BY <1>a, <2>1, <2>3, MovesOne DEF Places
  <2> QED
    BY <2>1, <2>2, <2>4 DEF Queue!Next, Queue!Acknowledge
<1>6. ASSUME NEW c \in Clients, FailMessage(c)
      PROVE  Queue!Next
  <2>1. PICK k \in Keys : k = calls[c].key /\ Queue!At(k, "delivered")
    BY <1>6, TakenIsAt DEF FailMessage, Takes, Holds, IInv, ReadsAreCurrent, Places
  <2>2. PICK attempts \in Nat : attempts = calls[c].read + 1
    BY <1>6 DEF IInv, Shapes, Calls
  <2>3. PICK status \in {"DLQ", "READY"} :
           status = IF Exhausted(k, attempts) THEN "DLQ" ELSE "READY"
    OBVIOUS
  <2>4. /\ failures' = [failures EXCEPT ![k] = @ + 1] /\ UNCHANGED contended
        /\ messages' = [messages EXCEPT ![k].attempts = attempts, ![k].status = status]
    BY <1>6, <2>1, <2>2, <2>3 DEF FailMessage
  <2>5. messages'[k].status = status
        /\ \A other \in Keys \ {k} : messages'[other].status = messages[other].status
    BY <1>a, <2>4 DEF Shapes, Rows
  <2>6. Queue!Put(k, Places[status])
    BY <1>a, <2>5, MovesOne
  <2>7. /\ failures[k] \in Nat /\ MaxAttempts[k] \in Nat /\ attempts <= failures[k] + 1
        /\ k \notin contended => attempts = failures[k] + 1
    <3>1. calls[c].step = "fail" /\ calls[c].read \in Nat /\ failures[k] \in Nat
             /\ MaxAttempts[k] \in Nat
      BY <1>6, MessageBusAssumption DEF FailMessage, IInv, Shapes, Calls
    <3>2. calls[c].read <= failures[k]
      BY <2>1, <3>1 DEF IInv, Counted
    <3>3. k \notin contended => calls[c].read = failures[k]
      BY <2>1, <3>1 DEF IInv, ReadsAreCurrent, Takes, Budgeted
    <3> QED
      BY <2>2, <3>1, <3>2, <3>3
  <2>8. CASE status = "DLQ"
    <3>1. failures[k] + 1 >= MaxAttempts[k]
      BY <2>3, <2>7, <2>8 DEF Exhausted
    <3>2. Queue!Put(k, "dead")
      BY <2>6, <2>8 DEF Places
    <3> QED
      BY <2>1, <2>4, <3>1, <3>2 DEF Queue!Next, Queue!Fail
  <2>9. CASE status = "READY"
    <3>1. ~(failures[k] + 1 >= MaxAttempts[k]) \/ k \in contended
      BY <2>3, <2>7, <2>9 DEF Exhausted
    <3>2. Queue!Put(k, "waiting")
      BY <2>6, <2>9 DEF Places
    <3> QED
      BY <2>1, <2>4, <3>1, <3>2 DEF Queue!Next, Queue!Fail
  <2> QED
    BY <2>8, <2>9
<1>7. ASSUME NEW c \in Clients, StampMessage(c) \/ ReadMessage(c) \/ Die(c)
      PROVE  UNCHANGED <<messages, failures, contended>>
  BY <1>7 DEF StampMessage, ReadMessage, Die
<1>8. CASE UNCHANGED vars
  BY <1>1, <1>8 DEF vars
<1> QED
  BY <1>1, <1>2, <1>3, <1>4, <1>5, <1>6, <1>7, <1>8 DEF Next, Serve

\* infra.py 137-196: whatever overlaps and whoever dies, every step of the bus is a
\* step of the delivery queue or leaves it alone.
THEOREM BusIsQueue == Spec => ImplementsQueue
  BY InductiveInvariant, QueueInit, QueueStep, PTL DEF Spec, ImplementsQueue, Queue!Spec
===============================================================================
