------------------------------ MODULE EventClaim ------------------------------
(***************************************************************************)
(* What the webhook inbox promises to the code that applies events: an     *)
(* event is worked on by at most one delivery at a time, and never again   *)
(* once it is done.  A claim may end without the event being done, because *)
(* the processing threw or because its server stopped.                     *)
(***************************************************************************)
CONSTANTS Deliveries, Events

VARIABLES
  workers,         \* event -> the deliveries applying it
  done             \* events whose effects are complete and recorded

Init ==
  /\ workers = [e \in Events |-> {}]
  /\ done = {}

Claim(d, e) ==
  /\ workers[e] = {}
  /\ e \notin done
  /\ workers' = [workers EXCEPT ![e] = {d}]
  /\ UNCHANGED done

Settle(d, e) ==
  /\ workers[e] = {d}
  /\ workers' = [workers EXCEPT ![e] = {}]
  /\ done' = done \cup {e}

GiveUp(d, e) ==
  /\ workers[e] = {d}
  /\ workers' = [workers EXCEPT ![e] = {}]
  /\ UNCHANGED done

Next == \E d \in Deliveries, e \in Events : Claim(d, e) \/ Settle(d, e) \/ GiveUp(d, e)

Spec == Init /\ [][Next]_<<workers, done>>

=============================================================================
