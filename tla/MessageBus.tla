------------------------------ MODULE MessageBus ------------------------------
(***************************************************************************)
(* The event bus of UnifiedModelStore (infra.py): table messages and the   *)
(* calls publish, consume, ack and fail of the processes that share the    *)
(* database file.                                                          *)
(*                                                                         *)
(* Python's sqlite3 opens a transaction at the first write, not at a       *)
(* SELECT: consume and fail read in one step and write in a later one, and *)
(* other clients run in between.  A client handles a message that consume  *)
(* returned by one ack or one fail of its id, as the scripts do; it may    *)
(* also die.  A row is identified by its idempotency key, which is UNIQUE. *)
(***************************************************************************)
EXTENDS Integers, FiniteSets

CONSTANTS
  Keys,          \* idempotency keys
  Clients,       \* the processes
  Topic,         \* the topic that a key is published to
  MaxAttempts,   \* the max_attempts it is published with
  MaxPublishes,  \* bound: publish calls in a behaviour
  MaxFailures,   \* bound: failures of a message
  MaxDeaths      \* bound: clients that die

ASSUME MessageBusAssumption ==
  /\ MaxAttempts \in [Keys -> Nat \ {0}]
  /\ {MaxPublishes, MaxFailures, MaxDeaths} \subseteq Nat

VARIABLES
  messages,      \* table messages
  calls,         \* what each client is doing
  clock,         \* the time as utc_now gives it
  failures,      \* how many fail calls returned, by key
  contended,     \* history: the keys that two clients selected before either delivered
  deaths         \* how many clients died

vars == <<messages, calls, clock, failures, contended, deaths>>

Topics == {Topic[k] : k \in Keys}

NoRow == [status |-> "NONE", attempts |-> 0, created |-> 0]

\* A call has read attempts of the row of key, or the time; "holding" is between calls.
Idle == [step |-> "idle", key |-> "none", read |-> 0]

TypeOK ==
  /\ DOMAIN messages = Keys
  /\ \A k \in Keys :
       /\ messages[k].status \in {"NONE", "READY", "INFLIGHT", "ACKED", "DLQ"}
       /\ messages[k].attempts \in 0..MaxFailures
       /\ messages[k].created \in 0..clock
  /\ DOMAIN calls = Clients
  /\ \A c \in Clients :
       /\ calls[c].step \in {"idle", "insert", "deliver", "holding", "fail"}
       /\ calls[c].key \in Keys \cup {"none"}
       /\ calls[c].read \in Nat
  /\ clock \in 0..MaxPublishes
  /\ failures \in [Keys -> Nat]
  /\ contended \subseteq Keys /\ deaths \in 0..MaxDeaths

Init ==
  /\ messages = [k \in Keys |-> NoRow]
  /\ calls = [c \in Clients |-> Idle]
  /\ clock = 0
  /\ failures = [k \in Keys |-> 0]
  /\ contended = {} /\ deaths = 0

Stored(k) == messages[k].status # "NONE"

-----------------------------------------------------------------------------
\* publish takes the time, then inserts; an IntegrityError returns the row there is.
StampMessage(c) ==
  /\ calls[c].step = "idle"
  /\ clock < MaxPublishes
  /\ \E k \in Keys : calls' = [calls EXCEPT ![c] = [step |-> "insert", key |-> k, read |-> clock + 1]]
  /\ clock' = clock + 1
  /\ UNCHANGED <<messages, failures, contended, deaths>>

InsertMessage(c) ==
  /\ calls[c].step = "insert"
  /\ messages' = [messages EXCEPT ![calls[c].key] =
       IF Stored(calls[c].key) THEN @
       ELSE [status |-> "READY", attempts |-> 0, created |-> calls[c].read]]
  /\ calls' = [calls EXCEPT ![c] = Idle]
  /\ UNCHANGED <<clock, failures, contended, deaths>>

\* A mutant only delivers what never failed.
ReadyFresh(t) == {k \in Keys : Topic[k] = t /\ messages[k].status = "READY" /\ messages[k].attempts = 0}

Ready(t) == {k \in Keys : Topic[k] = t /\ messages[k].status = "READY"}

\* A client is between consume's SELECT and its UPDATE.
Selected(d, k) == calls[d].step = "deliver" /\ calls[d].key = k

\* consume selects the oldest READY row of a topic, if there is one.
SelectMessage(c) ==
  /\ calls[c].step = "idle"
  /\ \E t \in Topics : \E k \in Ready(t) :
       /\ \A other \in Ready(t) : messages[k].created <= messages[other].created
       /\ calls' = [calls EXCEPT ![c] = [step |-> "deliver", key |-> k, read |-> 0]]
       /\ contended' = contended \cup {key \in {k} : \E d \in Clients : Selected(d, key)}
  /\ UNCHANGED <<messages, clock, failures, deaths>>

SetStatus(k, status) == messages' = [messages EXCEPT ![k].status = status]

\* The update is by message id alone.
DeliverMessage(c) ==
  /\ calls[c].step = "deliver"
  /\ SetStatus(calls[c].key, "INFLIGHT")
  /\ calls' = [calls EXCEPT ![c].step = "holding"]
  /\ UNCHANGED <<clock, failures, contended, deaths>>

Ack(c) ==
  /\ calls[c].step = "holding"
  /\ SetStatus(calls[c].key, "ACKED")
  /\ calls' = [calls EXCEPT ![c] = Idle]
  /\ UNCHANGED <<clock, failures, contended, deaths>>

\* fail reads the attempts before its transaction.
ReadMessage(c) ==
  /\ calls[c].step = "holding"
  /\ failures[calls[c].key] < MaxFailures
  /\ calls' = [calls EXCEPT ![c].step = "fail", ![c].read = messages[calls[c].key].attempts]
  /\ UNCHANGED <<messages, clock, failures, contended, deaths>>

\* A mutant allows one attempt more than max_attempts.
ExhaustedLate(k, attempts) == attempts > MaxAttempts[k]

Exhausted(k, attempts) == attempts >= MaxAttempts[k]

\* A mutant puts every failed message back in circulation.
FailMessageRequeued(c) ==
  /\ calls[c].step = "fail"
  /\ LET k == calls[c].key
     IN  /\ messages' = [messages EXCEPT ![k].attempts = calls[c].read + 1, ![k].status = "READY"]
         /\ failures' = [failures EXCEPT ![k] = @ + 1]
  /\ calls' = [calls EXCEPT ![c] = Idle]
  /\ UNCHANGED <<clock, contended, deaths>>

FailMessage(c) ==
  /\ calls[c].step = "fail"
  /\ LET k == calls[c].key
         attempts == calls[c].read + 1
     IN  /\ messages' = [messages EXCEPT ![k].attempts = attempts,
                           ![k].status = IF Exhausted(k, attempts) THEN "DLQ" ELSE "READY"]
         /\ failures' = [failures EXCEPT ![k] = @ + 1]
  /\ calls' = [calls EXCEPT ![c] = Idle]
  /\ UNCHANGED <<clock, contended, deaths>>

\* The process dies, in a call or with a message in hand.
Die(c) ==
  /\ calls[c].step # "idle" /\ deaths < MaxDeaths
  /\ deaths' = deaths + 1
  /\ calls' = [calls EXCEPT ![c] = Idle]
  /\ UNCHANGED <<messages, clock, failures, contended>>

Serve(c) ==
  \/ InsertMessage(c) \/ SelectMessage(c) \/ DeliverMessage(c)
  \/ Ack(c) \/ ReadMessage(c) \/ FailMessage(c)

Next == \E c \in Clients : StampMessage(c) \/ Serve(c) \/ Die(c)

Spec == Init /\ [][Next]_vars

\* Clients finish what they began and consume what is READY; nothing makes them publish.
FairSpec == Spec /\ \A c \in Clients : WF_vars(Serve(c))

-----------------------------------------------------------------------------
\* No message is dead-lettered before clients reported max_attempts failures of
\* it, whatever overlaps and whoever dies; and one that no two clients selected at
\* once is dead-lettered exactly then, however calls on it interleave with other
\* calls (consume and fail, infra.py:162-196).
DeadAfterBudget ==
  \A k \in Keys :
    /\ messages[k].attempts <= failures[k]
    /\ messages[k].status = "DLQ" => failures[k] >= MaxAttempts[k]
    /\ k \notin contended /\ failures[k] >= MaxAttempts[k] => messages[k].status = "DLQ"

\* A published message is acknowledged or dead-lettered in the end, also one that
\* several clients took, unless the consumer died that held it: nothing takes it
\* back then (infra.py:137-196).
Settled(k) == messages[k].status \in {"ACKED", "DLQ"}

Abandoned(k) == messages[k].status = "INFLIGHT" /\ \A c \in Clients : calls[c].key # k

MessagesSettle == \A k \in Keys : Stored(k) ~> (Settled(k) \/ Abandoned(k))

\* Step by step, under every overlap, the bus is the delivery queue: a key is
\* published once; only two clients that select the same waiting message end up
\* with it both, and every other message goes to one client at a time, counts each
\* failure and ends once (infra.py:137-196).
Places ==
  [ NONE |-> "unpublished", READY |-> "waiting", INFLIGHT |-> "delivered",
    ACKED |-> "done", DLQ |-> "dead" ]

Queue == INSTANCE DeliveryQueue WITH place <- [k \in Keys |-> Places[messages[k].status]]

ImplementsQueue == Queue!Spec
=============================================================================
