---------------------------- MODULE MC_Deliveries -----------------------------
(***************************************************************************)
(* What is delivered at least once, on small instances: the gateway's      *)
(* events in the inbox, and the messages of the supplier-refund queue.     *)
(* The two share no state, so a behaviour is one of a single part; the     *)
(* fairness is that of the gateway and of the servers it calls.            *)
(***************************************************************************)
EXTENDS WebhookInbox, SupplierRefund

CONSTANTS c1, c2, c3, e1, e2

VARIABLE part

mcVars == <<part, vars, refundVars>>

MCInit ==
  /\ part \in {"webhooks", "refunds"}
  /\ Init /\ RefundInit
  /\ part = "webhooks" => automatic

Webhooks == part = "webhooks" /\ UNCHANGED <<part, refundVars>>
Refunding == part = "refunds" /\ UNCHANGED <<part, vars>>

MCNext ==
  \/ Webhooks /\ Next
  \/ Refunding /\ RefundNext

MCSpec == MCInit /\ [][MCNext]_mcVars

\* The gateway delivers again, and the servers go on with their work.
MCFairSpec ==
  /\ MCSpec
  /\ \A e \in Events : WF_mcVars(Webhooks /\ Redeliver(e))
  /\ \A d \in Deliveries : WF_mcVars(Webhooks /\ Onwards(d))

MCThree == {c1, c2, c3}
MCTwo == {c1, c2}
MCOne == {c1}
MCEvents == {e1, e2}

=============================================================================
