---------------------------- MODULE DeliveryQueue ----------------------------
(***************************************************************************)
(* What an event bus with retries and a dead-letter queue promises its     *)
(* clients (deploy/infra-boundaries.json): a published message waits, is   *)
(* delivered to one consumer at a time, is acknowledged once, or is dead   *)
(* after the last failure of its budget.                                   *)
(*                                                                         *)
(* The bus has no claim on a message, so two consumers may find the same   *)
(* message waiting.  From then on that message is delivered at least once: *)
(* each of them may deliver, acknowledge and fail it, but neither can      *)
(* unpublish it or kill it before the failures of its budget.              *)
(***************************************************************************)
EXTENDS Naturals

CONSTANTS
  Keys,          \* idempotency keys
  MaxAttempts    \* the failures a message may have

VARIABLES
  place,         \* where the message of a key is
  failures,      \* how many of its deliveries failed
  contended      \* the keys that two consumers found waiting at once

queue == <<place, failures, contended>>

Init ==
  /\ place = [k \in Keys |-> "unpublished"]
  /\ failures = [k \in Keys |-> 0]
  /\ contended = {}

Put(k, to) == place' = [place EXCEPT ![k] = to]

\* The message is where it should be, or is in several hands.
At(k, from) == place[k] = from \/ (k \in contended /\ place[k] # "unpublished")

Publish(k) ==
  /\ place[k] = "unpublished" /\ Put(k, "waiting")
  /\ UNCHANGED <<failures, contended>>

Contend(k) ==
  /\ place[k] = "waiting"
  /\ contended' = contended \cup {k}
  /\ UNCHANGED <<place, failures>>

Deliver(k) ==
  /\ At(k, "waiting") /\ Put(k, "delivered")
  /\ UNCHANGED <<failures, contended>>

Acknowledge(k) ==
  /\ At(k, "delivered") /\ Put(k, "done")
  /\ UNCHANGED <<failures, contended>>

\* A failure of a message in several hands may be lost, so it may not kill.
Fail(k) ==
  LET spent == failures[k] + 1 >= MaxAttempts[k]
  IN  /\ At(k, "delivered")
      /\ \/ spent /\ Put(k, "dead")
         \/ (~spent \/ k \in contended) /\ Put(k, "waiting")
      /\ failures' = [failures EXCEPT ![k] = @ + 1]
      /\ UNCHANGED contended

Next == \E k \in Keys : Publish(k) \/ Contend(k) \/ Deliver(k) \/ Acknowledge(k) \/ Fail(k)

Spec == Init /\ [][Next]_queue
=============================================================================
