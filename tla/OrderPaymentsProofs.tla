-------------------------- MODULE OrderPaymentsProofs --------------------------
(***************************************************************************)
(* What an order, its payments and the rollups say about money never runs  *)
(* ahead of the gateway, for any number of payments, requests, webhooks    *)
(* and faults.                                                             *)
(***************************************************************************)
EXTENDS OrderPayments, TLAPS

(***************************************************************************)
(* The inductive invariant.  An event the gateway raised stays true; the   *)
(* delivery that works on it has it from there; and a request that is      *)
(* about to call the order REJECTED has money returned behind it.          *)
(***************************************************************************)
EventsAreTrue ==
  \A e \in raised :
    /\ e.type = "succeeded" => Received(e.of)
    /\ e.type = "refunded" => intent[e.of] = "returned"

HooksCarryEvents ==
  \A d \in Hooks :
    /\ hook[d].at # "idle" => hook[d].event \in raised
    /\ hook[d].at \in {"order", "sale", "notify"} => hook[d].event.type = "succeeded"
    /\ hook[d].at = "refund" => hook[d].event.type = "refunded"

RejectionIsPaidBack ==
  \A c \in Clerks : job[c].at = "rejected" => \E p \in Cards : intent[p] = "returned"

MoneyInv ==
  /\ EventsAreTrue
  /\ HooksCarryEvents
  /\ RejectionIsPaidBack
  /\ PaidMeansCaptured
  /\ SaleIsBacked
  /\ RefundMeansReturned

(***************************************************************************)
(* Revenue: the succeeded event of a payment that is behind recordOrderSale *)
(* has it booked, unless that failed and nobody was told.                  *)
(***************************************************************************)
Past(d) == hook[d].at \in {"notify", "end"} /\ hook[d].event.type = "succeeded"

AddedUp == (\E e \in done : e.type = "succeeded") \/ \E d \in Hooks : Past(d)

BookedInv == sales <= 1 /\ (~ swallowed /\ AddedUp => sales = 1)

(***************************************************************************)
(* What a cancellation leaves behind.  While webhooks are applied on their *)
(* own and no money has been returned, a succeeded event that was applied  *)
(* left its payment PAID, which no cancellation under way overlooks, and   *)
(* the order that it confirmed is not CANCELLED.                           *)
(***************************************************************************)
NoReturns == \A q \in Cards : intent[q] # "returned"

\* The delivery has applied a succeeded event to the payment, to the order.
Applying(d, p) ==
  hook[d].at \in {"order", "sale", "notify", "end"} /\ hook[d].event = Event("succeeded", p)

Confirming(d, p) ==
  hook[d].at \in {"sale", "notify", "end"} /\ hook[d].event = Event("succeeded", p)

Applied(p) == Event("succeeded", p) \in done \/ \E d \in Hooks : Applying(d, p)

Confirmed(p) == Event("succeeded", p) \in done \/ \E d \in Hooks : Confirming(d, p)

ChargesAreTold ==
  /\ \A p \in Cards : Received(p) => Event("succeeded", p) \in raised
  /\ done \subseteq raised

KeptApart ==
  /\ WebhooksAlone
  /\ \A c \in Clerks : job[c].at = "cancel" => ~HasPaid
  /\ \A d \in Hooks : hook[d].at = "apply" => hook[d].seen = pay[hook[d].event.of]
  /\ \A p \in Cards : Applied(p) => pay[p] = "PAID"
  /\ order = "CANCELLED" => \A p \in Cards : ~Confirmed(p)

StrandInv == ChargesAreTold /\ (quiet /\ NoReturns => KeptApart)

\* The history variable only watches.
LEMMA NextServes == [Next]_vars => [Serve]_vars
BY DEF Next

\* Every request, webhook and gateway step keeps the rows, the requests and
\* the deliveries of OrderPayments in their types.
THEOREM TypeCorrect == Spec => []TypeOK
<1> USE OrderAssumption
<1>1. Init => TypeOK
  <2> SUFFICES ASSUME Init PROVE TypeOK
    OBVIOUS
  <2> USE DEF Init
  <2>1. order \in OrderStatus /\ placed \in BOOLEAN /\ sales \in Nat
    BY DEF OrderStatus
  <2>2. pay \in [Payments -> PaymentStatus]
    BY DEF PaymentStatus
  <2>3. intent \in [Cards -> {"none", "open", "captured", "returned"}]
    OBVIOUS
  <2>4. raised \subseteq Events /\ faults \in 0 .. MaxFaults
    OBVIOUS
  <2>5. Idle \in {Idle}
    OBVIOUS
  <2> QED
    BY <2>1, <2>2, <2>3, <2>4, <2>5, Zenon DEF TypeOK
<1>2. TypeOK /\ [Serve]_vars => TypeOK'
  <2> SUFFICES ASSUME TypeOK, [Serve]_vars PROVE TypeOK'
    OBVIOUS
  <2> USE DEF TypeOK, rows, inbox, Payments, Events, PaymentStatus, OrderStatus, Idle
  <2>1. ASSUME NEW c \in Clerks, PayRead(c) PROVE TypeOK'
    BY <2>1 DEF PayRead, IsPayable, Ask, Reusable
  <2>2. ASSUME NEW c \in Clerks, PayReuse(c) PROVE TypeOK'
    BY <2>2 DEF PayReuse, Answer, Proceed
  <2>3. ASSUME NEW c \in Clerks, NEW p \in Cards, PayCreate(c, p) PROVE TypeOK'
    BY <2>3 DEF PayCreate, Answer, Proceed
  <2>4. ASSUME NEW c \in Clerks, CashRead(c) PROVE TypeOK'
    BY <2>4 DEF CashRead, IsPayable, Ask
  <2>5. ASSUME NEW c \in Clerks, NEW p \in Cash, CashRow(c, p) PROVE TypeOK'
    BY <2>5 DEF CashRow, Proceed
  <2>6. ASSUME NEW c \in Clerks, CashConfirm(c) PROVE TypeOK'
    BY <2>6 DEF CashConfirm, UpdateStatus, Answer, Proceed
  <2>7. ASSUME NEW c \in Clerks, CancelRead(c) PROVE TypeOK'
    BY <2>7 DEF CancelRead, Ask
  <2>8. ASSUME NEW c \in Clerks, CancelWrite(c) PROVE TypeOK'
    BY <2>8 DEF CancelWrite, UpdateStatus, Synced, Answer, Proceed
  <2>9. ASSUME NEW c \in Clerks, RejectRead(c) PROVE TypeOK'
    BY <2>9 DEF RejectRead, Ask
  <2>10. ASSUME NEW c \in Clerks, NEW p \in Cards, RejectPick(c, p) PROVE TypeOK'
    BY <2>10 DEF RejectPick, Proceed
  <2>11. ASSUME NEW c \in Clerks, RejectRefund(c) PROVE TypeOK'
    BY <2>11 DEF RejectRefund, Event, Proceed
  <2>12. ASSUME NEW c \in Clerks, RejectRefused(c) PROVE TypeOK'
    BY <2>12 DEF RejectRefused, Answer, Proceed
  <2>13. ASSUME NEW c \in Clerks, RejectWrite(c) PROVE TypeOK'
    BY <2>13 DEF RejectWrite, UpdateStatus, Answer, Proceed
  <2>14. ASSUME NEW c \in Clerks, PlaceRead(c) PROVE TypeOK'
    BY <2>14 DEF PlaceRead, Ask
  <2>15. ASSUME NEW c \in Clerks, PlaceWrite(c) PROVE TypeOK'
    BY <2>15 DEF PlaceWrite, Answer, Proceed
  <2>16. ASSUME NEW c \in Clerks, PlaceRejected(c) PROVE TypeOK'
    BY <2>16 DEF PlaceRejected, Answer, Proceed
  <2>17. ASSUME NEW c \in Clerks, RequestFails(c) PROVE TypeOK'
    BY <2>17 DEF RequestFails
  <2>18. ASSUME NEW s \in StaffTargets, StaffSets(s) PROVE TypeOK'
    BY <2>18 DEF StaffSets
  <2>19. ASSUME NEW p \in Cards, Capture(p) PROVE TypeOK'
    BY <2>19 DEF Capture, Gateway, Event
  <2>20. ASSUME NEW p \in Cards, Decline(p) PROVE TypeOK'
    BY <2>20 DEF Decline, Gateway, Event
  <2>21. ASSUME NEW p \in Cards, DashboardRefund(p) PROVE TypeOK'
    BY <2>21 DEF DashboardRefund, Gateway, Event
  <2>22. ASSUME NEW d \in Hooks, NEW e \in raised, HookClaim(d, e) PROVE TypeOK'
    BY <2>22 DEF HookClaim, Inbox!Claim
  <2>23. ASSUME NEW d \in Hooks, HookApply(d) PROVE TypeOK'
    BY <2>23 DEF HookApply, HookGoto
  <2>24. ASSUME NEW d \in Hooks, HookOrder(d) PROVE TypeOK'
    BY <2>24 DEF HookOrder, UpdateStatus, HookGoto
  <2>25. ASSUME NEW d \in Hooks, HookSale(d) PROVE TypeOK'
    BY <2>25 DEF HookSale, HookGoto
  <2>26. ASSUME NEW d \in Hooks, HookNotify(d) PROVE TypeOK'
    BY <2>26 DEF HookNotify, HookGoto
  <2>27. ASSUME NEW d \in Hooks, HookRefund(d) PROVE TypeOK'
    BY <2>27 DEF HookRefund, UpdateStatus, Synced, HookGoto
  <2>28. ASSUME NEW d \in Hooks, HookSucceeds(d) PROVE TypeOK'
    BY <2>28 DEF HookSucceeds, Inbox!Settle
  <2>29. ASSUME NEW d \in Hooks, HookSaleSwallowed(d) PROVE TypeOK'
    BY <2>29 DEF HookSaleSwallowed, HookGoto
  <2>30. ASSUME NEW d \in Hooks, HookFails(d) PROVE TypeOK'
    BY <2>30 DEF HookFails, Inbox!GiveUp
  <2> QED
    BY ZenonT(40), <2>1, <2>2, <2>3, <2>4, <2>5, <2>6, <2>7, <2>8, <2>9,
       <2>10, <2>11, <2>12, <2>13, <2>14, <2>15, <2>16, <2>17,
       <2>18, <2>19, <2>20, <2>21, <2>22, <2>23, <2>24, <2>25,
       <2>26, <2>27, <2>28, <2>29, <2>30 DEF vars, Serve, Request, HookStep
<1> QED
  BY <1>1, <1>2, NextServes, PTL DEF Spec

\* One step per action: none of them breaks the invariant.
LEMMA MoneyIsKept == TypeOK /\ TypeOK' /\ MoneyInv /\ [Serve]_vars => MoneyInv'
<1> SUFFICES ASSUME TypeOK, TypeOK', MoneyInv, [Serve]_vars PROVE MoneyInv'
  OBVIOUS
<1> USE OrderAssumption
        DEF TypeOK, rows, inbox, Payments, Events, Idle, MoneyInv, EventsAreTrue,
            HooksCarryEvents, RejectionIsPaidBack, PaidMeansCaptured, SaleIsBacked,
            RefundMeansReturned, Received
<1>1. ASSUME NEW c \in Clerks, PayRead(c) PROVE MoneyInv'
  BY <1>1 DEF PayRead, IsPayable, Ask, Reusable
<1>2. ASSUME NEW c \in Clerks, PayReuse(c) PROVE MoneyInv'
  BY <1>2 DEF PayReuse, Answer, Proceed
<1>3. ASSUME NEW c \in Clerks, NEW p \in Cards, PayCreate(c, p) PROVE MoneyInv'
  BY <1>3 DEF PayCreate, Answer, Proceed
<1>4. ASSUME NEW c \in Clerks, CashRead(c) PROVE MoneyInv'
  BY <1>4 DEF CashRead, IsPayable, Ask
<1>5. ASSUME NEW c \in Clerks, NEW p \in Cash, CashRow(c, p) PROVE MoneyInv'
  BY <1>5 DEF CashRow, Proceed
<1>6. ASSUME NEW c \in Clerks, CashConfirm(c) PROVE MoneyInv'
  BY <1>6 DEF CashConfirm, UpdateStatus, Answer, Proceed
<1>7. ASSUME NEW c \in Clerks, CancelRead(c) PROVE MoneyInv'
  BY <1>7 DEF CancelRead, Ask
<1>8. ASSUME NEW c \in Clerks, CancelWrite(c) PROVE MoneyInv'
  BY <1>8 DEF CancelWrite, UpdateStatus, Synced, Answer, Proceed
<1>9. ASSUME NEW c \in Clerks, RejectRead(c) PROVE MoneyInv'
  BY <1>9 DEF RejectRead, Ask
<1>10. ASSUME NEW c \in Clerks, NEW p \in Cards, RejectPick(c, p) PROVE MoneyInv'
  BY <1>10 DEF RejectPick, Proceed
<1>11. ASSUME NEW c \in Clerks, RejectRefund(c) PROVE MoneyInv'
  BY <1>11 DEF RejectRefund, Event, Proceed
<1>12. ASSUME NEW c \in Clerks, RejectRefused(c) PROVE MoneyInv'
  BY <1>12 DEF RejectRefused, Answer, Proceed
<1>13. ASSUME NEW c \in Clerks, RejectWrite(c) PROVE MoneyInv'
  BY <1>13 DEF RejectWrite, UpdateStatus, Answer, Proceed
<1>14. ASSUME NEW c \in Clerks, PlaceRead(c) PROVE MoneyInv'
  BY <1>14 DEF PlaceRead, Ask
<1>15. ASSUME NEW c \in Clerks, PlaceWrite(c) PROVE MoneyInv'
  BY <1>15 DEF PlaceWrite, Answer, Proceed
<1>16. ASSUME NEW c \in Clerks, PlaceRejected(c) PROVE MoneyInv'
  BY <1>16 DEF PlaceRejected, Answer, Proceed
<1>17. ASSUME NEW c \in Clerks, RequestFails(c) PROVE MoneyInv'
  BY <1>17 DEF RequestFails
<1>18. ASSUME NEW s \in StaffTargets, StaffSets(s) PROVE MoneyInv'
  BY <1>18 DEF StaffSets
<1>19. ASSUME NEW p \in Cards, Capture(p) PROVE MoneyInv'
  BY <1>19 DEF Capture, Gateway, Event
<1>20. ASSUME NEW p \in Cards, Decline(p) PROVE MoneyInv'
  BY <1>20 DEF Decline, Gateway, Event
<1>21. ASSUME NEW p \in Cards, DashboardRefund(p) PROVE MoneyInv'
  BY <1>21 DEF DashboardRefund, Gateway, Event
<1>22. ASSUME NEW d \in Hooks, NEW e \in raised, HookClaim(d, e) PROVE MoneyInv'
  BY <1>22 DEF HookClaim, Inbox!Claim
<1>23. ASSUME NEW d \in Hooks, HookApply(d) PROVE MoneyInv'
  BY <1>23 DEF HookApply, HookGoto
<1>24. ASSUME NEW d \in Hooks, HookOrder(d) PROVE MoneyInv'
  BY <1>24 DEF HookOrder, UpdateStatus, HookGoto
<1>25. ASSUME NEW d \in Hooks, HookSale(d) PROVE MoneyInv'
  BY <1>25 DEF HookSale, HookGoto
<1>26. ASSUME NEW d \in Hooks, HookNotify(d) PROVE MoneyInv'
  BY <1>26 DEF HookNotify, HookGoto
<1>27. ASSUME NEW d \in Hooks, HookRefund(d) PROVE MoneyInv'
  BY <1>27 DEF HookRefund, UpdateStatus, Synced, HookGoto
<1>28. ASSUME NEW d \in Hooks, HookSucceeds(d) PROVE MoneyInv'
  BY <1>28 DEF HookSucceeds, Inbox!Settle
<1>29. ASSUME NEW d \in Hooks, HookSaleSwallowed(d) PROVE MoneyInv'
  BY <1>29 DEF HookSaleSwallowed, HookGoto
<1>30. ASSUME NEW d \in Hooks, HookFails(d) PROVE MoneyInv'
  BY <1>30 DEF HookFails, Inbox!GiveUp
<1>31. ASSUME UNCHANGED vars PROVE MoneyInv'
  BY <1>31 DEF vars
<1> HIDE DEF TypeOK, rows, inbox, Payments, Events, Idle, MoneyInv, EventsAreTrue,
            HooksCarryEvents, RejectionIsPaidBack, PaidMeansCaptured, SaleIsBacked,
            RefundMeansReturned, Received
<1> QED
  BY ZenonT(40), <1>1, <1>2, <1>3, <1>4, <1>5, <1>6, <1>7, <1>8, <1>9,
       <1>10, <1>11, <1>12, <1>13, <1>14, <1>15, <1>16, <1>17,
       <1>18, <1>19, <1>20, <1>21, <1>22, <1>23, <1>24, <1>25,
       <1>26, <1>27, <1>28, <1>29, <1>30, <1>31 DEF Serve, Request, HookStep

\* The inductive invariant holds throughout.
LEMMA MoneyAlways == Spec => []MoneyInv
<1>1. Init => MoneyInv
  BY DEF Init, MoneyInv, EventsAreTrue, HooksCarryEvents, RejectionIsPaidBack,
         PaidMeansCaptured, SaleIsBacked, RefundMeansReturned, Idle, Payments
<1> QED
  BY <1>1, MoneyIsKept, TypeCorrect, NextServes, PTL DEF Spec

\* handleWebhook and updateStatus: a payment is PAID only when the gateway
\* captured it, whatever else was served at the same time.
THEOREM PaidOnlyIfCaptured == Spec => []PaidMeansCaptured
BY MoneyAlways, PTL DEF MoneyInv

\* recordOrderSale: revenue has a captured payment behind it.
THEOREM RevenueIsBacked == Spec => []SaleIsBacked
BY MoneyAlways, PTL DEF MoneyInv

\* rejectOrder and charge.refunded: an order is called REFUNDED or REJECTED only
\* when the gateway returned money of it.
THEOREM ReturnedIfCalledSo == Spec => []RefundMeansReturned
BY MoneyAlways, PTL DEF MoneyInv

-----------------------------------------------------------------------------
\* Money that was returned stays returned.
LEMMA ReturnsStay == TypeOK /\ [Serve]_vars /\ NoReturns' => NoReturns
  BY ZenonT(40) DEF NoReturns, TypeOK, Serve, Request, HookStep, vars, rows, inbox, PayRead, Ask, PayReuse, Proceed,
         PayCreate, CashRead, CashRow, CashConfirm, CancelRead, CancelWrite, RejectRead,
         RejectPick, RejectRefund, RejectRefused, RejectWrite, PlaceRead, PlaceWrite,
         PlaceRejected, StaffSets, RequestFails, Capture, Decline, Gateway,
         DashboardRefund, HookClaim, HookApply, HookOrder, HookSale, HookSaleSwallowed,
         HookNotify, HookRefund, HookSucceeds, HookFails, HookGoto, Answer,
         Inbox!Claim, Inbox!Settle, Inbox!GiveUp

\* The gateway tells of every capture, and only such events are done.
LEMMA CapturesAreTold ==
  TypeOK /\ MoneyInv /\ ChargesAreTold /\ [Serve]_vars => ChargesAreTold'
<1> SUFFICES ASSUME TypeOK, MoneyInv, ChargesAreTold, [Serve]_vars PROVE ChargesAreTold'
  OBVIOUS
<1>1. ASSUME NEW c \in Clerks, Request(c) PROVE ChargesAreTold'
  BY <1>1 DEF ChargesAreTold, Received, TypeOK, Request, rows, inbox, PayRead, Ask, PayReuse,
       Proceed, PayCreate, CashRead, CashRow, CashConfirm, CancelRead, CancelWrite,
       RejectRead, RejectPick, RejectRefund, RejectRefused, RejectWrite, PlaceRead,
       PlaceWrite, PlaceRejected, RequestFails, Answer
<1>2. ASSUME NEW s \in StaffTargets, StaffSets(s) PROVE ChargesAreTold'
  BY <1>2 DEF ChargesAreTold, Received, StaffSets, inbox
<1>3. ASSUME NEW p \in Cards, Capture(p) \/ Decline(p) \/ DashboardRefund(p)
      PROVE  ChargesAreTold'
  BY <1>3 DEF ChargesAreTold, Received, TypeOK, Capture, Decline, DashboardRefund, Gateway,
       inbox
<1>4. ASSUME NEW d \in Hooks, NEW e \in raised, HookClaim(d, e) PROVE ChargesAreTold'
  BY <1>4 DEF ChargesAreTold, Received, HookClaim, Inbox!Claim, rows
<1>5. ASSUME NEW d \in Hooks, HookSucceeds(d) PROVE ChargesAreTold'
  BY <1>5 DEF ChargesAreTold, Received, HookSucceeds, Inbox!Settle, MoneyInv,
       HooksCarryEvents, TypeOK, Idle, rows
<1>6. ASSUME NEW d \in Hooks, HookStep(d) \/ HookSaleSwallowed(d) \/ HookFails(d),
             ~ HookSucceeds(d)
      PROVE  ChargesAreTold'
  BY <1>6 DEF ChargesAreTold, Received, HookStep, HookApply, HookOrder, HookSale,
       HookSaleSwallowed, HookNotify, HookRefund, HookFails, HookGoto, Inbox!GiveUp, inbox,
       rows
<1>7. ASSUME UNCHANGED vars PROVE ChargesAreTold'
  BY <1>7 DEF ChargesAreTold, Received, vars, rows, inbox
<1> QED
  BY <1>1, <1>2, <1>3, <1>4, <1>5, <1>6, <1>7, OrderAssumption DEF Serve

\* Behind recordOrderSale a succeeded event has the order booked.
LEMMA BookingIsKept ==
  TypeOK /\ MoneyInv /\ BookedInv /\ [Next]_vars => BookedInv'
<1> SUFFICES ASSUME TypeOK, MoneyInv, BookedInv, [Next]_vars PROVE BookedInv'
  OBVIOUS
<1>1. ASSUME UNCHANGED <<hook, done, sales>> PROVE BookedInv'
  <2>1. AddedUp' = AddedUp
    BY <1>1 DEF AddedUp, Past
  <2>2. swallowed => swallowed'
    BY DEF Next, vars
  <2> QED
    BY <1>1, <2>1, <2>2 DEF BookedInv
<1>2. ASSUME NEW c \in Clerks, Request(c) PROVE UNCHANGED <<hook, done, sales>>
  BY <1>2 DEF Request, rows, inbox, PayRead, Ask, PayReuse, Proceed, PayCreate, CashRead,
       CashRow, CashConfirm, CancelRead, CancelWrite, RejectRead, RejectPick, RejectRefund,
       RejectRefused, RejectWrite, PlaceRead, PlaceWrite, PlaceRejected, RequestFails, Answer
<1>3. ASSUME NEW s \in StaffTargets, StaffSets(s) PROVE UNCHANGED <<hook, done, sales>>
  BY <1>3 DEF StaffSets, inbox
<1>4. ASSUME NEW p \in Cards, Capture(p) \/ Decline(p) \/ DashboardRefund(p)
      PROVE  UNCHANGED <<hook, done, sales>>
  BY <1>4 DEF Capture, Decline, DashboardRefund, Gateway, inbox
<1> USE DEF BookedInv, AddedUp, Past, TypeOK, Idle, rows, inbox
<1>5. ASSUME NEW d \in Hooks, NEW e \in raised, HookClaim(d, e), Next PROVE BookedInv'
  BY <1>5 DEF HookClaim, Inbox!Claim, Next
<1>6. ASSUME NEW d \in Hooks, HookApply(d), Next PROVE BookedInv'
  <2>1. UNCHANGED <<sales, done>> /\ (swallowed => swallowed')
    BY <1>6 DEF HookApply, HookGoto, Next
  <2>2. CASE hook[d].event.type = "succeeded"
    <3>1. hook' = [hook EXCEPT ![d] =
                     [at |-> "order", event |-> hook[d].event, seen |-> hook[d].seen]]
      BY <1>6, <2>2 DEF HookApply, HookGoto
    <3> QED
      BY <2>1, <3>1
  <2>3. CASE hook[d].event.type # "succeeded"
    <3>1. hook' = [hook EXCEPT ![d] =
                     [at |-> "end", event |-> hook[d].event, seen |-> hook[d].seen]]
      BY <1>6, <2>3 DEF HookApply, HookGoto
    <3> QED
      BY <2>1, <2>3, <3>1
  <2> QED
    BY <2>2, <2>3
<1>7. ASSUME NEW d \in Hooks, HookOrder(d), Next PROVE BookedInv'
  BY <1>7 DEF HookOrder, HookGoto, Next
<1>8. ASSUME NEW d \in Hooks, HookSale(d), Next PROVE BookedInv'
  BY <1>8 DEF HookSale, Unrecorded, HookGoto, Next
<1>9. ASSUME NEW d \in Hooks, HookNotify(d), Next PROVE BookedInv'
  BY <1>9 DEF HookNotify, HookGoto, Next
<1>10. ASSUME NEW d \in Hooks, HookRefund(d), Next PROVE BookedInv'
  BY <1>10 DEF HookRefund, HookGoto, Next, MoneyInv, HooksCarryEvents
<1>11. ASSUME NEW d \in Hooks, HookSucceeds(d), Next PROVE BookedInv'
  BY <1>11 DEF HookSucceeds, Inbox!Settle, Next
<1>12. ASSUME NEW d \in Hooks, HookSaleSwallowed(d), Next PROVE BookedInv'
  BY <1>12 DEF HookSaleSwallowed, Next
<1>13. ASSUME NEW d \in Hooks, HookFails(d), Next PROVE BookedInv'
  BY <1>13 DEF HookFails, Inbox!GiveUp, Next
<1> HIDE DEF BookedInv, AddedUp, Past, TypeOK, Idle, rows, inbox
<1>14. CASE UNCHANGED vars
  BY <1>1, <1>14 DEF vars, rows, inbox
<1>15. CASE Next
  BY <1>1, <1>2, <1>3, <1>4, <1>5, <1>6, <1>7, <1>8, <1>9, <1>10, <1>11, <1>12, <1>13,
     <1>15, OrderAssumption DEF Next, Serve, HookStep
<1> QED
  BY <1>14, <1>15

\* A webhook that is applied on its own finds no request that is about to
\* cancel, and a cancellation no webhook.
LEMMA ApartIsKept ==
  ASSUME TypeOK, TypeOK', MoneyInv, ChargesAreTold, KeptApart, Serve, WebhooksAlone', NoReturns'
  PROVE  KeptApart'
<1> USE OrderAssumption
        DEF TypeOK, rows, inbox, Payments, Events, Event, Idle, MoneyInv, EventsAreTrue,
            HooksCarryEvents, Received, ChargesAreTold, KeptApart, WebhooksAlone, HasPaid,
            Applied, Applying, Confirmed, Confirming, NoReturns
<1>1. ASSUME NEW c \in Clerks, PayRead(c) PROVE KeptApart'
  BY <1>1 DEF PayRead, Ask
<1>2. ASSUME NEW c \in Clerks, PayReuse(c) PROVE KeptApart'
  BY <1>2 DEF PayReuse, Answer, Proceed
<1>3. ASSUME NEW c \in Clerks, NEW p \in Cards, PayCreate(c, p) PROVE KeptApart'
  BY <1>3 DEF PayCreate, Answer, Proceed
<1>4. ASSUME NEW c \in Clerks, CashRead(c) PROVE KeptApart'
  BY <1>4 DEF CashRead, Ask
<1>5. ASSUME NEW c \in Clerks, NEW p \in Cash, CashRow(c, p) PROVE KeptApart'
  BY <1>5 DEF CashRow, Proceed
<1>6. ASSUME NEW c \in Clerks, CashConfirm(c) PROVE KeptApart'
  BY <1>6 DEF CashConfirm, UpdateStatus, Answer, Proceed
<1>7. ASSUME NEW c \in Clerks, CancelRead(c) PROVE KeptApart'
  BY <1>7 DEF CancelRead, Ask
<1>8. ASSUME NEW c \in Clerks, CancelWrite(c) PROVE KeptApart'
  <2>1. /\ \A p \in Cards : ~Applied(p)
        /\ \A p \in Cards : ~Confirmed(p)
    BY <1>8 DEF CancelWrite
  <2>2. UNCHANGED <<hook, done>>
    BY <1>8 DEF CancelWrite, Answer, Proceed
  <2>3. /\ \A p \in Cards : ~Applied(p)'
        /\ \A p \in Cards : ~Confirmed(p)'
    BY <2>1, <2>2
  <2>4. \A p \in Payments : pay'[p] = "PAID" => pay[p] = "PAID"
    BY <1>8 DEF CancelWrite, UpdateStatus, Synced
  <2>5. \A d \in Hooks : hook[d] = Idle
    BY <1>8 DEF CancelWrite
  <2>6. \A f \in Clerks : job'[f].at = "cancel" => job[f].at = "cancel"
    BY <1>8 DEF CancelWrite, Answer, Proceed
  <2> QED
    BY <2>2, <2>3, <2>4, <2>5, <2>6
<1>9. ASSUME NEW c \in Clerks, RejectRead(c) PROVE KeptApart'
  BY <1>9 DEF RejectRead, Ask
<1>10. ASSUME NEW c \in Clerks, NEW p \in Cards, RejectPick(c, p) PROVE KeptApart'
  BY <1>10 DEF RejectPick, Proceed
<1>11. ASSUME NEW c \in Clerks, RejectRefund(c) PROVE KeptApart'
  BY <1>11 DEF RejectRefund, Proceed
<1>12. ASSUME NEW c \in Clerks, RejectRefused(c) PROVE KeptApart'
  BY <1>12 DEF RejectRefused, Answer, Proceed
<1>13. ASSUME NEW c \in Clerks, RejectWrite(c) PROVE KeptApart'
  BY <1>13 DEF RejectWrite, UpdateStatus, Answer, Proceed
<1>14. ASSUME NEW c \in Clerks, PlaceRead(c) PROVE KeptApart'
  BY <1>14 DEF PlaceRead, Ask
<1>15. ASSUME NEW c \in Clerks, PlaceWrite(c) PROVE KeptApart'
  BY <1>15 DEF PlaceWrite, Answer, Proceed
<1>16. ASSUME NEW c \in Clerks, PlaceRejected(c) PROVE KeptApart'
  BY <1>16 DEF PlaceRejected, Answer, Proceed
<1>17. ASSUME NEW c \in Clerks, RequestFails(c) PROVE KeptApart'
  BY <1>17 DEF RequestFails
<1>18. ASSUME NEW s \in StaffTargets, StaffSets(s) PROVE KeptApart'
  BY <1>18 DEF StaffSets
<1>19. ASSUME NEW p \in Cards, Capture(p) PROVE KeptApart'
  BY <1>19 DEF Capture, Gateway
<1>20. ASSUME NEW p \in Cards, Decline(p) PROVE KeptApart'
  BY <1>20 DEF Decline, Gateway
<1>21. ASSUME NEW p \in Cards, DashboardRefund(p) PROVE KeptApart'
  BY <1>21 DEF DashboardRefund, Gateway
<1>22. ASSUME NEW d \in Hooks, NEW e \in raised, HookClaim(d, e) PROVE KeptApart'
  BY <1>22 DEF HookClaim, Inbox!Claim
<1>23. ASSUME NEW d \in Hooks, HookApply(d) PROVE KeptApart'
  BY <1>23 DEF HookApply, HookGoto, IsStaleDowngrade
<1>24. ASSUME NEW d \in Hooks, HookOrder(d) PROVE KeptApart'
  BY <1>24 DEF HookOrder, UpdateStatus, HookGoto
<1>25. ASSUME NEW d \in Hooks, HookSale(d) PROVE KeptApart'
  BY <1>25 DEF HookSale, HookGoto
<1>26. ASSUME NEW d \in Hooks, HookNotify(d) PROVE KeptApart'
  BY <1>26 DEF HookNotify, HookGoto
<1>27. ASSUME NEW d \in Hooks, HookRefund(d) PROVE KeptApart'
  BY <1>27 DEF HookRefund, HookGoto
<1>28. ASSUME NEW d \in Hooks, HookSucceeds(d) PROVE KeptApart'
  BY <1>28 DEF HookSucceeds, Inbox!Settle
<1>29. ASSUME NEW d \in Hooks, HookSaleSwallowed(d) PROVE KeptApart'
  BY <1>29 DEF HookSaleSwallowed, HookGoto
<1>30. ASSUME NEW d \in Hooks, HookFails(d) PROVE KeptApart'
  BY <1>30 DEF HookFails, Inbox!GiveUp
<1> QED
  BY <1>1, <1>2, <1>3, <1>4, <1>5, <1>6, <1>7, <1>8, <1>9, <1>10, <1>11,
       <1>12, <1>13, <1>14, <1>15, <1>16, <1>17, <1>18, <1>19, <1>20, <1>21,
       <1>22, <1>23, <1>24, <1>25, <1>26, <1>27, <1>28, <1>29, <1>30 DEF Serve, Request, HookStep

\* The inductive invariant of cancellations holds throughout.
LEMMA StrandAlways == Spec => []StrandInv
<1>1. Init => StrandInv
  BY OrderAssumption
     DEF Init, StrandInv, ChargesAreTold, Received, KeptApart, WebhooksAlone, Idle, Applied,
         Applying, Confirmed, Confirming, Inbox!Init
<1>2. TypeOK /\ TypeOK' /\ MoneyInv /\ StrandInv /\ [Next]_vars => StrandInv'
  <2> SUFFICES ASSUME TypeOK, TypeOK', MoneyInv, StrandInv, [Next]_vars PROVE StrandInv'
    OBVIOUS
  <2>1. CASE UNCHANGED vars
    BY <2>1 DEF vars, rows, inbox, StrandInv, ChargesAreTold, Received, KeptApart, NoReturns,
                WebhooksAlone, HasPaid, Applied, Applying, Confirmed, Confirming
  <2>2. CASE Next
    <3>1. ChargesAreTold'
      BY <2>2, NextServes, CapturesAreTold DEF StrandInv
    <3>2. ASSUME quiet', NoReturns' PROVE KeptApart'
      <4>1. quiet /\ WebhooksAlone'
        BY <2>2, <3>2 DEF Next
      <4>2. NoReturns
        BY <3>2, NextServes, ReturnsStay
      <4> QED
        BY <2>2, <3>2, <4>1, <4>2, ApartIsKept DEF StrandInv, Next
    <3> QED
      BY <3>1, <3>2 DEF StrandInv
  <2> QED
    BY <2>1, <2>2
<1> QED
  BY <1>1, <1>2, TypeCorrect, MoneyAlways, PTL DEF Spec

\* handleWebhook and recordOrderSale: for any number of payments, requests,
\* deliveries, repeats and faults, once every event is applied a paid order has
\* been added to the rollups once, and an unpaid one not, unless that failed
\* and the error was swallowed.
THEOREM PaidIsBookedOnce == Spec => []RevenueIsRecognised
<1>1. Init => BookedInv
  BY DEF Init, BookedInv, AddedUp, Past, Idle, Inbox!Init
<1>2. TypeOK /\ MoneyInv /\ StrandInv /\ BookedInv => RevenueIsRecognised
  <2> SUFFICES ASSUME TypeOK, MoneyInv, StrandInv, BookedInv, AtRest, ~ swallowed
               PROVE  sales = IF \E p \in Cards : Received(p) THEN 1 ELSE 0
    BY DEF RevenueIsRecognised
  <2>1. ASSUME NEW p \in Cards, Received(p) PROVE sales = 1
    <3>1. Event("succeeded", p) \in done
      BY <2>1 DEF StrandInv, ChargesAreTold, AtRest
    <3> QED
      BY <3>1 DEF BookedInv, AddedUp, Event
  <2>2. (~ \E p \in Cards : Received(p)) => sales = 0
    BY DEF TypeOK, MoneyInv, SaleIsBacked
  <2> QED
    BY <2>1, <2>2
<1> QED
  BY <1>1, <1>2, BookingIsKept, TypeCorrect, MoneyAlways, StrandAlways, PTL DEF Spec

\* cancelOrder: for any number of payments, requests, webhooks and faults, a
\* cancelled order strands a captured charge only beside one that was returned,
\* as long as webhooks are applied on their own.
THEOREM StrandedOnlyBesideRefund == Spec => []QuietStrandsOnlyBesideRefund
<1>1. StrandInv => QuietStrandsOnlyBesideRefund
  BY DEF StrandInv, QuietStrandsOnlyBesideRefund, ChargesAreTold, Received, KeptApart,
         NoReturns, Confirmed, AtRest
<1> QED
  BY <1>1, StrandAlways, PTL

\* So with a single card payment it strands none.
THEOREM SingleChargeIsNotStranded ==
  ASSUME NEW card, Cards = {card}
  PROVE  Spec => []QuietCancelStrandsNoCharge
<1>1. QuietStrandsOnlyBesideRefund => QuietCancelStrandsNoCharge
  BY DEF QuietStrandsOnlyBesideRefund, QuietCancelStrandsNoCharge, CancelStrandsNoCharge
<1> QED
  BY <1>1, StrandedOnlyBesideRefund, PTL

=============================================================================
