----------------------------- MODULE WebhookInbox -----------------------------
(***************************************************************************)
(* The inbox of gateway webhooks: PaymentRepository.recordWebhookEvent and *)
(* the frame of PaymentService.handleWebhook around it.  A delivery        *)
(* inserts the event's row, or finds it and reclaims a FAILED one; the one *)
(* that claimed the event applies it and records the outcome.  What        *)
(* applying an event does is left to the modules that compose this one.    *)
(*                                                                         *)
(* The gateway delivers an event again until a delivery of it is answered  *)
(* 2xx, and may deliver it again after that.  Each step is one database    *)
(* statement, so deliveries interleave between any two; a server may stop  *)
(* between any two.  An event stands for its (provider, externalEventId).  *)
(***************************************************************************)
EXTENDS Naturals

CONSTANTS
  Deliveries,      \* webhook requests being served at the same time
  Events,          \* what the gateway has to tell
  MaxFaults,       \* bound: steps that throw (a database call fails)
  MaxStops         \* bound: servers that stop, or lose the database for good

ASSUME WebhookAssumption ==
  /\ MaxFaults \in Nat
  /\ MaxStops \in Nat

VARIABLES
  row,             \* event -> status of its CommerceWebhookEvent row
  served,          \* delivery -> the event it carries and where it has got to
  acked,           \* events a delivery of which was answered 2xx
  faults, stops,   \* how much of the two bounds is used up
  serial           \* history: no two deliveries of an event ran at once so far

vars == <<row, served, acked, faults, stops, serial>>

Idle == [at |-> "idle"]

At == {"lookup", "reclaim", "process", "close", "fail"}

TypeOK ==
  /\ row \in [Events -> {"none", "PENDING", "FAILED", "SUCCESS"}]
  /\ served \in [Deliveries -> {Idle} \cup [at : At, event : Events]]
  /\ acked \subseteq Events
  /\ faults \in 0 .. MaxFaults
  /\ stops \in 0 .. MaxStops

Init ==
  /\ row = [e \in Events |-> "none"]
  /\ served = [d \in Deliveries |-> Idle]
  /\ acked = {}
  /\ faults = 0
  /\ stops = 0
  /\ serial = TRUE

Goto(d, at) == served' = [served EXCEPT ![d] = [at |-> at, event |-> served[d].event]]

Leave(d) == served' = [served EXCEPT ![d] = Idle]

\* The delivery is answered 2xx and the gateway stops retrying its event.
Acknowledge(d) ==
  /\ acked' = acked \cup {served[d].event}
  /\ Leave(d)
  /\ UNCHANGED <<faults, stops>>

\* A request arrives.  Its first statement inserts the row; when the unique
\* (provider, externalEventId) rejects the insert, it looks the row up.
Deliver(d, e) ==
  /\ served[d] = Idle
  /\ LET fresh == row[e] = "none"
     IN  /\ row' = IF fresh THEN [row EXCEPT ![e] = "PENDING"] ELSE row
         /\ served' = [served EXCEPT ![d] =
                         [at |-> IF fresh THEN "process" ELSE "lookup", event |-> e]]
  /\ UNCHANGED <<acked, faults, stops>>

\* existing.status !== FAILED: not claimed, answered as a duplicate.
AnswerDuplicate(d) ==
  /\ served[d].at = "lookup"
  /\ row[served[d].event] # "FAILED"
  /\ Acknowledge(d)
  /\ UNCHANGED row

SeeFailed(d) ==
  /\ served[d].at = "lookup"
  /\ row[served[d].event] = "FAILED"
  /\ Goto(d, "reclaim")
  /\ UNCHANGED <<row, acked, faults, stops>>

\* Mutant of StillFailed: the status left out of the WHERE clause.
ReclaimUnchecked(d) == row[served[d].event] # "none"

\* updateMany ... where status = FAILED
StillFailed(d) == row[served[d].event] = "FAILED"

Reclaim(d) ==
  /\ served[d].at = "reclaim"
  /\ StillFailed(d)
  /\ row' = [row EXCEPT ![served[d].event] = "PENDING"]
  /\ Goto(d, "process")
  /\ UNCHANGED <<acked, faults, stops>>

\* reclaimed.count was 0: another redelivery took it.
ReclaimLost(d) ==
  /\ served[d].at = "reclaim"
  /\ ~ StillFailed(d)
  /\ Acknowledge(d)
  /\ UNCHANGED row

\* The event's effects are in place; what is left is to record it.
Applied(d) ==
  /\ served[d].at = "process"
  /\ Goto(d, "close")
  /\ UNCHANGED <<row, acked, faults, stops>>

\* A statement outside the try block throws: answered 500, nothing recorded.
ThrowBeforeClaim(d) ==
  /\ served[d].at \in {"lookup", "reclaim"}
  /\ faults < MaxFaults
  /\ faults' = faults + 1
  /\ Leave(d)
  /\ UNCHANGED <<row, acked, stops>>

\* A statement of the try block throws, the one that records SUCCESS included.
Throw(d) ==
  /\ served[d].at \in {"process", "close"}
  /\ faults < MaxFaults
  /\ faults' = faults + 1
  /\ Goto(d, "fail")
  /\ UNCHANGED <<row, acked, stops>>

RecordSuccess(d) ==
  /\ served[d].at = "close"
  /\ row' = [row EXCEPT ![served[d].event] = "SUCCESS"]
  /\ Acknowledge(d)

\* Mutant of RecordFailure: the catch block answers 500 but leaves the row.
FailureNotRecorded(d) ==
  /\ served[d].at = "fail"
  /\ Leave(d)
  /\ UNCHANGED <<row, acked, faults, stops>>

\* The catch block: the row becomes FAILED and the gateway is answered 500.
RecordFailure(d) ==
  /\ served[d].at = "fail"
  /\ row' = [row EXCEPT ![served[d].event] = "FAILED"]
  /\ Leave(d)
  /\ UNCHANGED <<acked, faults, stops>>

\* The server of a delivery stops, or cannot reach the database even to
\* record the failure.  The gateway gets no 2xx.
Stop(d) ==
  /\ served[d] # Idle
  /\ stops < MaxStops
  /\ stops' = stops + 1
  /\ Leave(d)
  /\ UNCHANGED <<row, acked, faults>>

\* A delivery that arrived takes its next step.
Step(d) ==
  \/ AnswerDuplicate(d)
  \/ SeeFailed(d)
  \/ Reclaim(d)
  \/ ReclaimLost(d)
  \/ Applied(d)
  \/ RecordSuccess(d)
  \/ RecordFailure(d)

Serve ==
  \E d \in Deliveries :
    \/ \E e \in Events : Deliver(d, e)
    \/ Step(d)
    \/ ThrowBeforeClaim(d)
    \/ Throw(d)
    \/ Stop(d)

OneAtATime ==
  \A d, b \in Deliveries :
    served[d] # Idle /\ served[b] # Idle /\ served[d].event = served[b].event => d = b

Next == Serve /\ serial' = (serial /\ OneAtATime')

Spec == Init /\ [][Next]_vars

\* The gateway redelivers an event, once its last delivery was answered, until
\* one is answered 2xx; servers take the deliveries they accepted further.
Redeliver(e) ==
  e \notin acked /\ \E d \in Deliveries : Deliver(d, e) /\ OneAtATime' /\ serial' = serial

Onwards(d) == Step(d) /\ Next

-----------------------------------------------------------------------------
(***************************************************************************)
(* Properties.                                                             *)
(***************************************************************************)
Working(d) == served[d].at \in {"process", "close", "fail"}

Processors(e) == {d \in Deliveries : Working(d) /\ served[d].event = e}

\* Claiming is mutual exclusion and SUCCESS is final: however deliveries of an
\* event overlap, fail and are retried, recordWebhookEvent lets one of them
\* apply it at a time, and none after one has succeeded.
Claims == INSTANCE EventClaim WITH
            workers <- [e \in Events |-> Processors(e)],
            done <- {e \in Events : row[e] = "SUCCESS"}

ClaimSpec == Claims!Spec

\* Every event that was delivered once is applied in the end, whatever throws
\* on the way, when the gateway waits for an answer before it delivers an event
\* again and no server stops (handleWebhook answers 2xx only then, or to a
\* duplicate).
EveryEventIsApplied ==
  \A e \in Events :
    row[e] # "none" ~> (serial /\ stops = 0 => row[e] = "SUCCESS")

=============================================================================
