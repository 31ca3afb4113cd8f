----------------------------- MODULE RefundLedger -----------------------------
(***************************************************************************)
(* What the books say of the refunds of one order, with the requests and   *)
(* webhooks that make and confirm them abstracted away.  The gateway never *)
(* gives back more than was paid.  A return gets one Refund row at most,   *)
(* for money that has moved, and the row is confirmed once.  The order is  *)
(* closed when the whole of it is back, not before, and from then on no    *)
(* money moves and it stays closed.  Returns implements this               *)
(* specification, however its requests overlap and wherever they stop.     *)
(***************************************************************************)
EXTENDS Naturals

CONSTANTS Returns,   \* the returns of the order
          Total,     \* what the order cost
          Amounts    \* what one refund may come to

VARIABLES returned,  \* what the gateway has given back
          paid,      \* return -> refunds made for it
          refund,    \* return -> status of its Refund row, "none" without one
          order      \* "REFUNDED" once it is closed

ledgerVars == <<returned, paid, refund, order>>

Init ==
  /\ returned = 0
  /\ paid = [r \in Returns |-> 0]
  /\ refund = [r \in Returns |-> "none"]
  /\ order = "FULFILLED"

GiveBack(r, n) ==
  /\ order = "FULFILLED"
  /\ returned + n <= Total
  /\ returned' = returned + n
  /\ paid' = [paid EXCEPT ![r] = @ + 1]
  /\ UNCHANGED <<refund, order>>

Record(r) ==
  /\ paid[r] > 0
  /\ refund[r] = "none"
  /\ refund' = [refund EXCEPT ![r] = "PENDING"]
  /\ UNCHANGED <<returned, paid, order>>

Confirm(r) ==
  /\ refund[r] = "PENDING"
  /\ refund' = [refund EXCEPT ![r] = "COMPLETED"]
  /\ UNCHANGED <<returned, paid, order>>

Close ==
  /\ order = "FULFILLED"
  /\ returned = Total
  /\ order' = "REFUNDED"
  /\ UNCHANGED <<returned, paid, refund>>

Next ==
  \/ \E r \in Returns :
       \/ \E n \in Amounts : GiveBack(r, n)
       \/ Record(r)
       \/ Confirm(r)
  \/ Close

Spec == Init /\ [][Next]_ledgerVars
===============================================================================
