------------------------------- MODULE SqsQueue -------------------------------
(***************************************************************************)
(* One queue of background jobs and its dead-letter queue, as consume()    *)
(* and enqueue() use it: a received message is hidden, not removed, and    *)
(* comes back when it is not deleted in time.                              *)
(***************************************************************************)
EXTENDS Naturals

CONSTANTS Messages, MaxReceives

VARIABLES
  queue,           \* message -> unsent, visible, hidden, gone or dead
  receives         \* message -> times it was received

Init ==
  /\ queue = [m \in Messages |-> "unsent"]
  /\ receives = [m \in Messages |-> 0]

Move(m, place) ==
  /\ queue' = [queue EXCEPT ![m] = place]
  /\ UNCHANGED receives

\* Hands the message out once more: to a job, or, when the worker turns out to
\* be stopping, back to the queue at once.
HandOut(m, place) ==
  /\ queue[m] = "visible"
  /\ receives[m] < MaxReceives
  /\ queue' = [queue EXCEPT ![m] = place]
  /\ receives' = [receives EXCEPT ![m] = @ + 1]

Send(m) == queue[m] = "unsent" /\ Move(m, "visible")

Receive(m) == HandOut(m, "hidden")

HandBack(m) == HandOut(m, "visible")

\* The visibility timeout or the retry delay is over.
Reappear(m) == queue[m] = "hidden" /\ Move(m, "visible")

\* The redrive policy.
Redrive(m) ==
  /\ queue[m] = "visible"
  /\ receives[m] = MaxReceives
  /\ Move(m, "dead")

\* A standard queue may hand out a message it was told to delete.
Redeliver(m) == queue[m] = "gone" /\ Move(m, "visible")

\* DeleteMessage and ChangeMessageVisibility also work with the receipt of an
\* earlier receive.
Delete(m) == Move(m, IF queue[m] \in {"visible", "hidden"} THEN "gone" ELSE queue[m])

Retry(m) == Move(m, IF queue[m] = "visible" THEN "hidden" ELSE queue[m])

=============================================================================
