---------------------------- MODULE OrderPayments ----------------------------
(***************************************************************************)
(* One order and its payments: the API requests that pay, confirm, cancel, *)
(* reject, relabel or place it with the supplier, the gateway's side of    *)
(* each payment, and the webhooks that bring the two together.             *)
(*                                                                         *)
(* A request or a webhook holds what it read in a local while it waits for *)
(* its next statement or its next call to Stripe; every such wait is a     *)
(* point where the others run.  Webhooks take events through the promise   *)
(* of the inbox (EventClaim, which WebhookInbox implements).               *)
(***************************************************************************)
EXTENDS Naturals, FiniteSets

CONSTANTS
  Cards,           \* Stripe payments (row and intent) the order can get
  Cash,            \* cash-on-delivery payment rows the order can get
  Clerks,          \* API requests being served at the same time
  Hooks,           \* webhook deliveries being served at the same time
  StaffTargets,    \* statuses staff set with the generic status endpoint
  Dashboard,       \* payments refunded in Stripe's dashboard
  MaxFaults        \* bound: statements that throw, requests that stop

ASSUME OrderAssumption ==
  /\ Cards \cap Cash = {}
  /\ StaffTargets \subseteq {"PENDING", "PROCESSING", "PARTIALLY_FULFILLED", "FULFILLED"}
  /\ Dashboard \subseteq Cards
  /\ MaxFaults \in Nat

VARIABLES
  order,           \* CommerceOrder.status
  placed,          \* a CommerceSupplierOrder exists
  pay,             \* payment -> CommercePayment.status, "none" without a row
  intent,          \* card payment -> state of its PaymentIntent at Stripe
  sales,           \* times the order was added to the analytics rollups
  job,             \* request -> the step it is at and what it has read
  hook,            \* delivery -> the step it is at and what it has read
  raised,          \* events Stripe has to tell
  workers, done,   \* the inbox: who applies which event, which are SUCCESS
  faults,          \* how much of MaxFaults is used up
  quiet,           \* history: every webhook so far was applied on its own
  swallowed        \* history: adding the order up failed, and nobody was told

rows == <<order, placed, pay, intent, sales>>
inbox == <<workers, done>>
vars == <<rows, job, hook, raised, inbox, faults, quiet, swallowed>>

Payments == Cards \cup Cash

Events == [type : {"succeeded", "failed", "refunded"}, of : Cards]

Event(type, p) == [type |-> type, of |-> p]

Inbox == INSTANCE EventClaim WITH Deliveries <- Hooks

Idle == [at |-> "idle"]

PaymentStatus ==
  {"none", "CREATED", "PENDING", "PAID", "FAILED", "CANCELLED", "REFUNDED"}

OrderStatus ==
  {"PENDING", "PROCESSING", "PARTIALLY_FULFILLED", "FULFILLED", "CANCELLED",
   "REFUNDED", "REJECTED"}

TypeOK ==
  /\ order \in OrderStatus
  /\ placed \in BOOLEAN
  /\ pay \in [Payments -> PaymentStatus]
  /\ intent \in [Cards -> {"none", "open", "captured", "returned"}]
  /\ sales \in Nat
  /\ job \in [Clerks -> {Idle}
                \cup [at : {"cash", "confirm", "cancel", "reject", "rejected", "place"}]
                \cup [at : {"pay"}, reuse : SUBSET Cards]
                \cup [at : {"refund"}, of : Cards]]
  /\ hook \in [Hooks -> {Idle} \cup
                 [at : {"apply", "order", "sale", "notify", "refund", "end"},
                  event : Events, seen : PaymentStatus]]
  /\ raised \subseteq Events
  /\ faults \in 0 .. MaxFaults

\* A freshly placed order (createOrderFromItems).
Init ==
  /\ order = "PENDING"
  /\ placed = FALSE
  /\ pay = [p \in Payments |-> "none"]
  /\ intent = [p \in Cards |-> "none"]
  /\ sales = 0
  /\ job = [c \in Clerks |-> Idle]
  /\ hook = [d \in Hooks |-> Idle]
  /\ raised = {}
  /\ Inbox!Init
  /\ faults = 0
  /\ quiet = TRUE
  /\ swallowed = FALSE

-----------------------------------------------------------------------------
(***************************************************************************)
(* The order's rows.                                                       *)
(***************************************************************************)

\* PAYMENT_TERMINAL_STATUSES: PAID is not among them.
Terminal == {"none", "CANCELLED", "REFUNDED", "FAILED"}

\* Payments a change of the order's status relabels in the same transaction.
Synced(status) ==
  [p \in Payments |-> IF pay[p] \in Terminal THEN pay[p] ELSE status]

\* OrderRepository.updateStatus: whatever the status was before.
UpdateStatus(status) ==
  /\ order' = status
  /\ pay' = IF status \in {"CANCELLED", "REFUNDED"} THEN Synced(status) ELSE pay

HasPaid == \E p \in Payments : pay[p] = "PAID"

-----------------------------------------------------------------------------
(***************************************************************************)
(* API requests.  Their first statement is OrderRepository.findById.       *)
(***************************************************************************)
Ask(c, step) ==
  /\ job[c] = Idle
  /\ job' = [job EXCEPT ![c] = step]
  /\ UNCHANGED <<rows, hook, raised, inbox, faults>>

Proceed(c, step) ==
  /\ job' = [job EXCEPT ![c] = step]
  /\ UNCHANGED <<hook, inbox, faults>>

Answer(c) == Proceed(c, Idle)

Reusable == {p \in Cards : pay[p] \in {"CREATED", "PENDING"}}

\* "Order is not in a payable state"
IsPayable == order = "PENDING"

\* createPaymentIntent by card: the order is payable; an earlier payment may
\* still be confirmable, which only Stripe can tell.
PayRead(c) == IsPayable /\ Ask(c, [at |-> "pay", reuse |-> Reusable])

\* The earlier intent still awaits the customer: it is handed back as it is.
PayReuse(c) ==
  /\ job[c].at = "pay"
  /\ \E p \in job[c].reuse : intent[p] = "open"
  /\ Answer(c)
  /\ UNCHANGED <<rows, raised>>

\* A new intent and its row.  The row exists before the customer gets the
\* secret to confirm it with, so the two creations are one step.
PayCreate(c, p) ==
  /\ job[c].at = "pay"
  /\ job[c].reuse = {} \/ \E q \in job[c].reuse : intent[q] # "open"
  /\ intent[p] = "none"
  /\ intent' = [intent EXCEPT ![p] = "open"]
  /\ pay' = [pay EXCEPT ![p] = "CREATED"]
  /\ Answer(c)
  /\ UNCHANGED <<order, placed, sales, raised>>

\* createPaymentIntent by cash on delivery: the row, then the order's status.
CashRead(c) == IsPayable /\ Ask(c, [at |-> "cash"])

CashRow(c, p) ==
  /\ job[c].at = "cash"
  /\ pay[p] = "none"
  /\ pay' = [pay EXCEPT ![p] = "PENDING"]
  /\ Proceed(c, [at |-> "confirm"])
  /\ UNCHANGED <<order, placed, intent, sales, raised>>

CashConfirm(c) ==
  /\ job[c].at = "confirm"
  /\ UpdateStatus("PROCESSING")
  /\ Answer(c)
  /\ UNCHANGED <<placed, intent, sales, raised>>

\* Mutant of CancelRead: a captured payment does not stop it.
CancelReadUnchecked(c) == ~ placed /\ Ask(c, [at |-> "cancel"])

\* cancelOrder: refused when a payment is PAID or the supplier has the order;
\* the order's own status is not looked at.
CancelRead(c) == ~ HasPaid /\ ~ placed /\ Ask(c, [at |-> "cancel"])

CancelWrite(c) ==
  /\ job[c].at = "cancel"
  /\ UpdateStatus("CANCELLED")
  /\ Answer(c)
  /\ UNCHANGED <<placed, intent, sales, raised>>

\* rejectOrder: a paid order that is not with the supplier.
RejectRead(c) ==
  /\ order = "PROCESSING"
  /\ ~ placed
  /\ HasPaid
  /\ Ask(c, [at |-> "reject"])

\* refundPayment reads the order again, and takes a PAID payment of it.
RejectPick(c, p) ==
  /\ job[c].at = "reject"
  /\ pay[p] = "PAID"
  /\ Proceed(c, [at |-> "refund", of |-> p])
  /\ UNCHANGED <<rows, raised>>

\* stripe.refunds.create of the whole amount, and the Refund row.
RejectRefund(c) ==
  /\ job[c].at = "refund"
  /\ LET p == job[c].of
     IN  /\ intent[p] = "captured"
         /\ intent' = [intent EXCEPT ![p] = "returned"]
         /\ raised' = raised \cup {Event("refunded", p)}
  /\ Proceed(c, [at |-> "rejected"])
  /\ UNCHANGED <<order, placed, pay, sales>>

\* Mutant of RejectRefused: the refusal is swallowed and the order REJECTED.
RejectRegardless(c) ==
  /\ \/ job[c].at = "reject" /\ ~ HasPaid
     \/ job[c].at = "refund" /\ intent[job[c].of] # "captured"
  /\ Proceed(c, [at |-> "rejected"])
  /\ UNCHANGED <<rows, raised>>

\* There is no PAID payment any more, or Stripe has nothing left to refund.
RejectRefused(c) ==
  /\ \/ job[c].at = "reject" /\ ~ HasPaid
     \/ job[c].at = "refund" /\ intent[job[c].of] # "captured"
  /\ Answer(c)
  /\ UNCHANGED <<rows, raised>>

RejectWrite(c) ==
  /\ job[c].at = "rejected"
  /\ UpdateStatus("REJECTED")
  /\ Answer(c)
  /\ UNCHANGED <<placed, intent, sales, raised>>

\* CJOrderFulfillmentService.placeOrder looks for a supplier order, not at the
\* order's status; the supplier accepts, or rejects and nothing is recorded.
PlaceRead(c) == ~ placed /\ Ask(c, [at |-> "place"])

PlaceWrite(c) ==
  /\ job[c].at = "place"
  /\ placed' = TRUE
  /\ order' = IF order = "PENDING" THEN "PROCESSING" ELSE order
  /\ Answer(c)
  /\ UNCHANGED <<pay, intent, sales, raised>>

PlaceRejected(c) ==
  /\ job[c].at = "place"
  /\ Answer(c)
  /\ UNCHANGED <<rows, raised>>

\* updateOrderStatus only checks that the order exists.
StaffSets(status) ==
  /\ order' = status
  /\ UNCHANGED <<placed, pay, intent, sales, job, hook, raised, inbox, faults>>

\* A statement of the request throws or its server stops: what it has done
\* stays done.
RequestFails(c) ==
  /\ job[c] # Idle
  /\ faults < MaxFaults
  /\ faults' = faults + 1
  /\ job' = [job EXCEPT ![c] = Idle]
  /\ UNCHANGED <<rows, hook, raised, inbox>>

Request(c) ==
  \/ PayRead(c)
  \/ PayReuse(c)
  \/ \E p \in Cards : PayCreate(c, p)
  \/ CashRead(c)
  \/ \E p \in Cash : CashRow(c, p)
  \/ CashConfirm(c)
  \/ CancelRead(c)
  \/ CancelWrite(c)
  \/ RejectRead(c)
  \/ \E p \in Cards : RejectPick(c, p)
  \/ RejectRefund(c)
  \/ RejectRefused(c)
  \/ RejectWrite(c)
  \/ PlaceRead(c)
  \/ PlaceWrite(c)
  \/ PlaceRejected(c)
  \/ RequestFails(c)

-----------------------------------------------------------------------------
(***************************************************************************)
(* Stripe, as the code uses it.                                            *)
(***************************************************************************)
Gateway(p, state, type) ==
  /\ intent' = [intent EXCEPT ![p] = state]
  /\ raised' = raised \cup {Event(type, p)}
  /\ UNCHANGED <<order, placed, pay, sales, job, hook, inbox, faults>>

\* The customer confirms an open intent in whichever tab has its secret; the
\* attempt may fail and leaves the intent open.
Capture(p) == intent[p] = "open" /\ Gateway(p, "captured", "succeeded")

Decline(p) == intent[p] = "open" /\ Gateway(p, "open", "failed")

\* A full refund issued in Stripe's own dashboard.
DashboardRefund(p) == intent[p] = "captured" /\ Gateway(p, "returned", "refunded")

-----------------------------------------------------------------------------
(***************************************************************************)
(* Webhooks.                                                               *)
(***************************************************************************)
HookGoto(d, at) ==
  /\ hook' = [hook EXCEPT ![d] =
                [at |-> at, event |-> hook[d].event, seen |-> hook[d].seen]]
  /\ UNCHANGED <<job, raised, inbox>>

\* The inbox lets this delivery apply the event; it reads the payment.
HookClaim(d, e) ==
  /\ hook[d] = Idle
  /\ Inbox!Claim(d, e)
  /\ hook' = [hook EXCEPT ![d] =
                [at |-> IF e.type = "refunded" THEN "refund" ELSE "apply",
                 event |-> e, seen |-> pay[e.of]]]
  /\ UNCHANGED <<rows, job, raised, faults>>

\* Judged on the payment as it was read.
IsStaleDowngrade(d) == hook[d].seen = "PAID" /\ hook[d].event.type # "succeeded"

\* Mutant of HookApply: a payment that is PAID already needs nothing more.
HookApplyOnce(d) ==
  /\ hook[d].at = "apply"
  /\ LET e == hook[d].event
     IN  IF e.type = "succeeded" /\ hook[d].seen # "PAID"
           THEN pay' = [pay EXCEPT ![e.of] = "PAID"] /\ HookGoto(d, "order")
           ELSE /\ pay' = IF hook[d].seen = "PAID" THEN pay
                          ELSE [pay EXCEPT ![e.of] = "FAILED"]
                /\ HookGoto(d, "end")
  /\ UNCHANGED <<order, placed, intent, sales, faults>>

\* The payment is written from what was read, without a second look.
HookApply(d) ==
  /\ hook[d].at = "apply"
  /\ LET e == hook[d].event
     IN  IF e.type = "succeeded"
           THEN pay' = [pay EXCEPT ![e.of] = "PAID"] /\ HookGoto(d, "order")
           ELSE /\ pay' = IF IsStaleDowngrade(d) THEN pay
                          ELSE [pay EXCEPT ![e.of] = "FAILED"]
                /\ HookGoto(d, "end")
  /\ UNCHANGED <<order, placed, intent, sales, faults>>

\* The order is confirmed, whatever its status has become.
HookOrder(d) ==
  /\ hook[d].at = "order"
  /\ UpdateStatus("PROCESSING")
  /\ HookGoto(d, "sale")
  /\ UNCHANGED <<placed, intent, sales, faults>>

\* analyticsRecordedAt is null
Unrecorded == sales = 0

\* recordOrderSale: only the caller that wins the claim adds the order up.
HookSale(d) ==
  /\ hook[d].at = "sale"
  /\ sales' = IF Unrecorded THEN sales + 1 ELSE sales
  /\ HookGoto(d, "notify")
  /\ UNCHANGED <<order, placed, pay, intent, faults>>

\* It failed: the claim is rolled back and the error is swallowed.
HookSaleSwallowed(d) ==
  /\ hook[d].at = "sale"
  /\ faults < MaxFaults
  /\ faults' = faults + 1
  /\ HookGoto(d, "notify")
  /\ UNCHANGED rows

HookNotify(d) ==
  /\ hook[d].at = "notify"
  /\ HookGoto(d, "end")
  /\ UNCHANGED <<rows, faults>>

\* charge.refunded of the whole total.
HookRefund(d) ==
  /\ hook[d].at = "refund"
  /\ UpdateStatus("REFUNDED")
  /\ HookGoto(d, "end")
  /\ UNCHANGED <<placed, intent, sales, faults>>

HookSucceeds(d) ==
  /\ hook[d].at = "end"
  /\ Inbox!Settle(d, hook[d].event)
  /\ hook' = [hook EXCEPT ![d] = Idle]
  /\ UNCHANGED <<rows, job, raised, faults>>

\* A statement throws, the notification's included, and the event is FAILED:
\* the gateway delivers it again and it is applied from the start.
HookFails(d) ==
  /\ hook[d] # Idle
  /\ faults < MaxFaults
  /\ faults' = faults + 1
  /\ Inbox!GiveUp(d, hook[d].event)
  /\ hook' = [hook EXCEPT ![d] = Idle]
  /\ UNCHANGED <<rows, job, raised>>

HookStep(d) ==
  \/ HookApply(d)
  \/ HookOrder(d)
  \/ HookSale(d)
  \/ HookNotify(d)
  \/ HookRefund(d)
  \/ HookSucceeds(d)

Serve ==
  \/ \E c \in Clerks : Request(c)
  \/ \E s \in StaffTargets : StaffSets(s)
  \/ \E p \in Cards : Capture(p) \/ Decline(p)
  \/ \E p \in Dashboard : DashboardRefund(p)
  \/ \E d \in Hooks :
       \/ \E e \in raised : HookClaim(d, e)
       \/ HookStep(d)
       \/ HookSaleSwallowed(d)
       \/ HookFails(d)

WebhooksAlone ==
  \A d \in Hooks : hook[d] # Idle =>
     /\ \A c \in Clerks : job[c] = Idle
     /\ \A other \in Hooks \ {d} : hook[other] = Idle

Next ==
  /\ Serve
  /\ quiet' = (quiet /\ WebhooksAlone')
  /\ swallowed' = (swallowed \/ \E d \in Hooks : HookSaleSwallowed(d))

Spec == Init /\ [][Next]_vars

-----------------------------------------------------------------------------
(***************************************************************************)
(* Properties.                                                             *)
(***************************************************************************)
Received(p) == intent[p] \in {"captured", "returned"}

\* Revenue is recognised only for an order a card payment of which was captured:
\* cash on delivery, supplier placements and staff never trigger it.
SaleIsBacked == sales > 0 => \E p \in Cards : Received(p)

\* No request or webhook marks a payment PAID whose money Stripe never had.
PaidMeansCaptured == \A p \in Payments : pay[p] = "PAID" => p \in Cards /\ Received(p)

\* REFUNDED and REJECTED tell the customer that money was returned: some was,
\* whatever cancels, pays or is refused while staff reject the order
\* (rejectOrder, and handleWebhook's charge.refunded).
RefundMeansReturned ==
  order \in {"REFUNDED", "REJECTED"} => \E p \in Cards : intent[p] = "returned"

\* Nothing is under way and every event has been applied.
AtRest == raised \subseteq done /\ \A c \in Clerks : job[c] = Idle

\* Payment confirmed is where revenue is recognised (handleWebhook,
\* recordOrderSale).  Once every event has been applied, in however many
\* attempts and by however many deliveries at once, a paid order is in the
\* rollups once and an order no charge was captured of is not, unless adding
\* it up failed: that error is swallowed, and the event counts as applied.
RevenueIsRecognised ==
  AtRest /\ ~ swallowed => sales = IF \E p \in Cards : Received(p) THEN 1 ELSE 0

\* cancelOrder: cancelling strands no captured charge.
CancelStrandsNoCharge ==
  AtRest /\ order = "CANCELLED" => \A p \in Cards : intent[p] # "captured"

\* It strands none, at least, when no webhook is applied inside a request or
\* another webhook.
QuietCancelStrandsNoCharge == quiet => CancelStrandsNoCharge

\* That holds of an order with a single charge.  A full refund relabels every
\* payment of the order, so after one that of a second charge can be stranded;
\* it takes a refund, though: a payment captured before or after a cancellation
\* reopens the order, and a late payment_failed leaves it PAID (updateStatus).
QuietStrandsOnlyBesideRefund ==
  quiet /\ AtRest /\ order = "CANCELLED" =>
    \A p \in Cards : intent[p] = "captured" => \E q \in Cards : intent[q] = "returned"

=============================================================================
