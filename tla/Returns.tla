-------------------------------- MODULE Returns --------------------------------
(***************************************************************************)
(* The return requests of one delivered order that was paid by card: the   *)
(* review by staff, the dispute with the supplier (CJ), the refund through *)
(* Stripe and the charge.refunded webhook that confirms it.                *)
(*                                                                         *)
(* ReturnService reads the request, asserts that the move is legal, calls  *)
(* Stripe or CJ, and writes the new status without looking at the old one  *)
(* again.  Each of these is a step; other requests and webhooks run in     *)
(* between.  The new and the legacy endpoints work on the same rows.       *)
(***************************************************************************)
EXTENDS Naturals, Sequences, FiniteSets

\* The statuses of a return request and the moves between them, which both views
\* of a return (here and in ReturnFile) share.
Status ==
  {"PENDING", "UNDER_REVIEW", "EVIDENCE_REQUIRED", "APPROVED", "REJECTED",
   "CJ_DISPUTE_SUBMITTED", "CJ_APPROVED", "CJ_REJECTED", "REFUND_PROCESSING",
   "REPLACEMENT_PROCESSING", "COMPLETED"}

\* TERMINAL_RETURN_STATUSES that some endpoint sets.
Terminal == {"REJECTED", "COMPLETED"}

\* ALLOWED_RETURN_TRANSITIONS, less the statuses no endpoint asks for
\* (CANCELLED, RETURN_PROCESSING, CJ_DISPUTE_UNDER_REVIEW).
Allowed ==
       {"PENDING"} \X {"UNDER_REVIEW"}
  \cup {"UNDER_REVIEW"} \X {"EVIDENCE_REQUIRED", "APPROVED", "REJECTED"}
  \cup {"EVIDENCE_REQUIRED"} \X {"UNDER_REVIEW", "REJECTED"}
  \cup {"APPROVED"} \X
         {"CJ_DISPUTE_SUBMITTED", "REFUND_PROCESSING", "REPLACEMENT_PROCESSING"}
  \cup {"CJ_DISPUTE_SUBMITTED"} \X {"CJ_APPROVED", "CJ_REJECTED"}
  \cup {"CJ_APPROVED"} \X {"REFUND_PROCESSING", "REPLACEMENT_PROCESSING"}
  \cup {"CJ_REJECTED"} \X {"REFUND_PROCESSING", "REPLACEMENT_PROCESSING", "REJECTED"}
  \cup {"REFUND_PROCESSING", "REPLACEMENT_PROCESSING"} \X {"COMPLETED"}

\* Statuses the review endpoints ask for.
Reviewed == {"UNDER_REVIEW", "EVIDENCE_REQUIRED", "APPROVED", "REJECTED"}

-----------------------------------------------------------------------------
CONSTANTS
  Returns,         \* Return rows the order can get
  Replacement,     \* those whose requestType is REPLACEMENT
  Requests,        \* API requests being served at the same time
  Hooks,           \* webhook deliveries being served at the same time
  Total,           \* what the order cost, in the unit refunds are counted in
  Amounts,         \* amounts staff enter
  MaxDisputes,     \* bound: disputes staff file for one return
  MaxFaults        \* bound: statements that throw, servers that stop

ASSUME ReturnsAssumption ==
  /\ Replacement \subseteq Returns
  /\ Total \in Nat \ {0}
  /\ Amounts \subseteq 1 .. Total
  /\ MaxDisputes \in Nat
  /\ MaxFaults \in Nat
  /\ IsFiniteSet(Returns) /\ IsFiniteSet(Requests)

VARIABLES
  status,          \* return -> Return.status, "none" without a row
  items,           \* returns created with ReturnItems
  disputes,        \* return -> status of each ReturnDispute row, oldest first
  atCJ,            \* return -> disputes CJ has opened for it
  refund,          \* return -> Refund.status, "none" without a row
  refunds,         \* the returns that have a Refund row, oldest row first
  paid,            \* return -> refunds Stripe made for it
  returned,        \* what Stripe has returned of the charge (amount_refunded)
  order,           \* CommerceOrder.status, and with it the payment's
  job,             \* request -> the step it is at and what it has read
  hook,            \* delivery -> the step it is at and what it has read
  raised,          \* charge.refunded events, by the amount_refunded they carry
  workers, done,   \* the webhook inbox
  faults,          \* how much of MaxFaults is used up
  alone,           \* history: never two requests at once so far
  quiet            \* history: no webhook was applied inside a request or another webhook

dispute == <<items, disputes, atCJ>>
money == <<refund, refunds, paid, returned, raised>>
inbox == <<workers, done>>
history == <<alone, quiet>>
vars == <<status, dispute, money, order, job, hook, inbox, faults, history>>

Inbox == INSTANCE EventClaim WITH Deliveries <- Hooks, Events <- 1 .. Total

\* assertValidReturnTransition
Valid(r, to) == <<status[r], to>> \in Allowed

Idle == [at |-> "idle"]

JobStates ==
       {Idle}
  \cup [at : {"write", "file", "filed", "rule", "refuse", "pay", "row"},
        of : Returns, to : Status, n : Nat]
  \cup [at : {"create", "close"}]

HookStates ==
       {Idle}
  \cup [at : {"close", "end"}, sum : Nat]
  \cup [at : {"mark", "look", "advance"}, sum : Nat, of : Returns]

TypeOK ==
  /\ status \in [Returns -> Status \cup {"none"}]
  /\ items \subseteq Returns
  /\ disputes \in
       [Returns -> Seq({"FAILED_TO_SUBMIT", "SUBMITTED", "APPROVED", "REJECTED"})]
  /\ atCJ \in [Returns -> Nat]
  /\ refund \in [Returns -> {"none", "PENDING", "COMPLETED"}]
  /\ refunds \in Seq(Returns)
  /\ paid \in [Returns -> Nat]
  /\ returned \in 0 .. Total
  /\ order \in {"FULFILLED", "REFUNDED"}
  /\ job \in [Requests -> JobStates]
  /\ hook \in [Hooks -> HookStates]
  /\ raised \subseteq 1 .. Total
  /\ faults \in 0 .. MaxFaults

Init ==
  /\ status = [r \in Returns |-> "none"]
  /\ items = {}
  /\ disputes = [r \in Returns |-> <<>>]
  /\ atCJ = [r \in Returns |-> 0]
  /\ refund = [r \in Returns |-> "none"]
  /\ refunds = <<>>
  /\ paid = [r \in Returns |-> 0]
  /\ returned = 0
  /\ order = "FULFILLED"
  /\ job = [c \in Requests |-> Idle]
  /\ hook = [d \in Hooks |-> Idle]
  /\ raised = {}
  /\ Inbox!Init
  /\ faults = 0
  /\ alone = TRUE
  /\ quiet = TRUE

-----------------------------------------------------------------------------
(***************************************************************************)
(* Requests.                                                               *)
(***************************************************************************)
Goto(c, at, r, to, n) ==
  job' = [job EXCEPT ![c] = [at |-> at, of |-> r, to |-> to, n |-> n]]

Answer(c) == job' = [job EXCEPT ![c] = Idle]

\* What a request does before its first write.
Read(c, at, r, to, n) ==
  /\ job[c] = Idle
  /\ Goto(c, at, r, to, n)
  /\ UNCHANGED <<status, dispute, money, order>>

Active == {r \in items : status[r] \notin Terminal}

\* createReturnRequest: the order is delivered and no other request on its
\* item is active.
CreateRead(c) ==
  /\ job[c] = Idle
  /\ order = "FULFILLED"
  /\ Active = {}
  /\ job' = [job EXCEPT ![c] = [at |-> "create"]]
  /\ UNCHANGED <<status, dispute, money, order>>

CreateWrite(c, r) ==
  /\ job[c].at = "create"
  /\ status[r] = "none"
  /\ status' = [status EXCEPT ![r] = "PENDING"]
  /\ items' = items \cup {r}
  /\ Answer(c)
  /\ UNCHANGED <<disputes, atCJ, money, order>>

\* createReturn, the old endpoint, checks nothing and names no items.
CreateLegacy(c, r) ==
  /\ job[c] = Idle
  /\ status[r] = "none"
  /\ status' = [status EXCEPT ![r] = "PENDING"]
  /\ UNCHANGED <<job, dispute, money, order>>

\* transitionToUnderReview, requestMoreEvidence, approveReturnRequest,
\* rejectReturnRequest; addCustomerEvidence makes one of the same moves.
Review(c, r, to) ==
  /\ Valid(r, to)
  /\ Read(c, "write", r, to, 0)

\* approveReturn and rejectReturn, the old endpoints.
ReviewLegacy(c, r, to) ==
  /\ status[r] = "PENDING"
  /\ Read(c, "write", r, to, 0)

\* transitionStatus and updateReturnStatus: whatever the status has become.  A
\* legacy refund of the whole total closes the order next.
Write(c) ==
  /\ job[c].at = "write"
  /\ status' = [status EXCEPT ![job[c].of] = job[c].to]
  /\ IF job[c].to = "COMPLETED" /\ job[c].n = Total
       THEN job' = [job EXCEPT ![c] = [at |-> "close"]]
       ELSE Answer(c)
  /\ UNCHANGED <<dispute, money, order>>

CloseOrder(c) ==
  /\ job[c].at = "close"
  /\ order' = "REFUNDED"
  /\ Answer(c)
  /\ UNCHANGED <<status, dispute, money>>

\* fileCjDispute
FileRead(c, r) ==
  /\ r \in items
  /\ Len(disputes[r]) < MaxDisputes
  /\ Valid(r, "CJ_DISPUTE_SUBMITTED")
  /\ Read(c, "file", r, "CJ_DISPUTE_SUBMITTED", 0)

\* CJ has nothing to dispute, no reason to offer, or rejects the call.
FileRefused(c) ==
  /\ job[c].at = "file"
  /\ disputes' = [disputes EXCEPT ![job[c].of] = Append(@, "FAILED_TO_SUBMIT")]
  /\ Answer(c)
  /\ UNCHANGED <<status, items, atCJ, money, order>>

FileAtCJ(c) ==
  /\ job[c].at = "file"
  /\ atCJ' = [atCJ EXCEPT ![job[c].of] = @ + 1]
  /\ Goto(c, "filed", job[c].of, job[c].to, 0)
  /\ UNCHANGED <<status, items, disputes, money, order>>

FileRecord(c) ==
  /\ job[c].at = "filed"
  /\ disputes' = [disputes EXCEPT ![job[c].of] = Append(@, "SUBMITTED")]
  /\ Goto(c, "write", job[c].of, job[c].to, 0)
  /\ UNCHANGED <<status, items, atCJ, money, order>>

\* Where confirmCjOutcome takes the return: expectType 2 is a replacement.
Ruling(r, outcome) ==
  IF outcome = "REJECTED" THEN "CJ_REJECTED"
  ELSE IF r \in Replacement THEN "REPLACEMENT_PROCESSING" ELSE "CJ_APPROVED"

\* confirmCjOutcome reads the return and its latest dispute.
ConfirmRead(c, r, outcome) ==
  /\ disputes[r] # <<>>
  /\ LET to == Ruling(r, outcome)
     IN  Read(c, IF Valid(r, to) THEN "rule" ELSE "refuse", r, to,
              Len(disputes[r]))

\* The dispute is settled first; only then is the move asserted, on the status
\* that was read.
ConfirmWrite(c) ==
  /\ job[c].at \in {"rule", "refuse"}
  /\ LET r == job[c].of
         outcome == IF job[c].to = "CJ_REJECTED" THEN "REJECTED" ELSE "APPROVED"
     IN  /\ disputes' = [disputes EXCEPT ![r][job[c].n] = outcome]
         /\ IF job[c].at = "rule" THEN Goto(c, "write", r, job[c].to, 0) ELSE Answer(c)
  /\ UNCHANGED <<status, items, atCJ, money, order>>

\* Mutant of RefundRead: the refund may be asked for again.
RefundReadAgain(c, r, n) ==
  /\ \/ Valid(r, "REFUND_PROCESSING")
     \/ status[r] = "REFUND_PROCESSING"
  /\ Read(c, "pay", r, "REFUND_PROCESSING", n)

\* processRefund
RefundRead(c, r, n) ==
  /\ Valid(r, "REFUND_PROCESSING")
  /\ Read(c, "pay", r, "REFUND_PROCESSING", n)

\* issueRefund, the old endpoint.
RefundLegacy(c, r, n) ==
  /\ status[r] = "APPROVED"
  /\ Read(c, "pay", r, "COMPLETED", n)

\* refundPayment: the payment is PAID and Stripe has that much left to return.
Refundable(n) == order = "FULFILLED" /\ returned + n <= Total

RefundAtStripe(c) ==
  /\ job[c].at = "pay"
  /\ Refundable(job[c].n)
  /\ returned' = returned + job[c].n
  /\ paid' = [paid EXCEPT ![job[c].of] = @ + 1]
  /\ raised' = raised \cup {returned'}
  /\ Goto(c, "row", job[c].of, job[c].to, job[c].n)
  /\ UNCHANGED <<status, dispute, refund, refunds, order>>

RefundRefused(c) ==
  /\ job[c].at = "pay"
  /\ ~ Refundable(job[c].n)
  /\ Answer(c)
  /\ UNCHANGED <<status, dispute, money, order>>

\* createRefund; Refund.returnId is unique.
RefundRow(c) ==
  /\ job[c].at = "row"
  /\ LET r == job[c].of
     IN  /\ refund[r] = "none"
         /\ refund' = [refund EXCEPT ![r] = "PENDING"]
         /\ refunds' = Append(refunds, r)
         /\ Goto(c, "write", r, job[c].to, job[c].n)
  /\ UNCHANGED <<status, dispute, paid, returned, raised, order>>

\* The row exists: the request fails, the money has moved.
RefundRowExists(c) ==
  /\ job[c].at = "row"
  /\ refund[job[c].of] # "none"
  /\ Answer(c)
  /\ UNCHANGED <<status, dispute, money, order>>

Serve(c) ==
  \/ \E r \in Returns :
       \/ CreateWrite(c, r)
       \/ CreateLegacy(c, r)
       \/ \E to \in Reviewed : Review(c, r, to)
       \/ \E to \in {"APPROVED", "REJECTED"} : ReviewLegacy(c, r, to)
       \/ FileRead(c, r)
       \/ \E outcome \in {"APPROVED", "REJECTED"} : ConfirmRead(c, r, outcome)
       \/ \E n \in Amounts : RefundRead(c, r, n) \/ RefundLegacy(c, r, n)
  \/ CreateRead(c)
  \/ Write(c)
  \/ CloseOrder(c)
  \/ FileRefused(c)
  \/ FileAtCJ(c)
  \/ FileRecord(c)
  \/ ConfirmWrite(c)
  \/ RefundAtStripe(c)
  \/ RefundRefused(c)
  \/ RefundRow(c)
  \/ RefundRowExists(c)

\* A statement throws or the server stops: what was done stays done.
Fail(c) ==
  /\ job[c] # Idle
  /\ faults < MaxFaults
  /\ faults' = faults + 1
  /\ Answer(c)
  /\ UNCHANGED <<status, dispute, money, order, hook, inbox>>

-----------------------------------------------------------------------------
(***************************************************************************)
(* The charge.refunded webhook.                                            *)
(***************************************************************************)
HookGoto(d, step) ==
  /\ hook' = [hook EXCEPT ![d] = step]
  /\ UNCHANGED <<dispute, paid, returned, raised, refunds, job, faults>>

Pending == {i \in DOMAIN refunds : refund[refunds[i]] = "PENDING"}

\* The inbox lets this delivery apply the event.  It looks for the order's most
\* recent PENDING Refund, of whichever return.
HookClaim(d, sum) ==
  /\ hook[d] = Idle
  /\ Inbox!Claim(d, sum)
  /\ \/ /\ Pending = {}
        /\ HookGoto(d, [at |-> "close", sum |-> sum])
     \/ \E i \in Pending :
          /\ \A j \in Pending : j <= i
          /\ HookGoto(d, [at |-> "mark", sum |-> sum, of |-> refunds[i]])
  /\ UNCHANGED <<status, refund, order>>

HookMark(d) ==
  /\ hook[d].at = "mark"
  /\ refund' = [refund EXCEPT ![hook[d].of] = "COMPLETED"]
  /\ HookGoto(d, [at |-> "look", sum |-> hook[d].sum, of |-> hook[d].of])
  /\ UNCHANGED <<status, order, inbox>>

\* Mutant of HookLook: the return is never looked at.
HookLookAway(d) ==
  /\ hook[d].at = "look"
  /\ HookGoto(d, [at |-> "close", sum |-> hook[d].sum])
  /\ UNCHANGED <<status, refund, order, inbox>>

HookLook(d) ==
  /\ hook[d].at = "look"
  /\ LET r == hook[d].of
     IN  HookGoto(d, IF status[r] = "REFUND_PROCESSING"
                       THEN [at |-> "advance", sum |-> hook[d].sum, of |-> r]
                       ELSE [at |-> "close", sum |-> hook[d].sum])
  /\ UNCHANGED <<status, refund, order, inbox>>

HookAdvance(d) ==
  /\ hook[d].at = "advance"
  /\ status' = [status EXCEPT ![hook[d].of] = "COMPLETED"]
  /\ HookGoto(d, [at |-> "close", sum |-> hook[d].sum])
  /\ UNCHANGED <<refund, order, inbox>>

\* The whole total is back: the order and its payment become REFUNDED.
HookClose(d) ==
  /\ hook[d].at = "close"
  /\ order' = IF hook[d].sum >= Total THEN "REFUNDED" ELSE order
  /\ HookGoto(d, [at |-> "end", sum |-> hook[d].sum])
  /\ UNCHANGED <<status, refund, inbox>>

HookSucceeds(d) ==
  /\ hook[d].at = "end"
  /\ Inbox!Settle(d, hook[d].sum)
  /\ HookGoto(d, Idle)
  /\ UNCHANGED <<status, refund, order>>

\* The event is FAILED and will be applied again from the start.
HookFails(d) ==
  /\ hook[d] # Idle
  /\ faults < MaxFaults
  /\ faults' = faults + 1
  /\ Inbox!GiveUp(d, hook[d].sum)
  /\ hook' = [hook EXCEPT ![d] = Idle]
  /\ UNCHANGED <<status, dispute, money, order, job>>

HookStep(d) ==
  \/ HookMark(d)
  \/ HookLook(d)
  \/ HookAdvance(d)
  \/ HookClose(d)
  \/ HookSucceeds(d)

Act ==
  \/ \E c \in Requests :
       \/ Serve(c) /\ UNCHANGED <<hook, inbox, faults>>
       \/ Fail(c)
  \/ \E d \in Hooks :
       \/ \E sum \in raised : HookClaim(d, sum)
       \/ HookStep(d)
       \/ HookFails(d)

Busy == {c \in Requests : job[c] # Idle}

Applying == {d \in Hooks : hook[d] # Idle}

OneRequest == \A b, c \in Busy : b = c

WebhookApart ==
  /\ Busy = {} \/ Applying = {}
  /\ \A d, e \in Applying : d = e

Next ==
  /\ Act
  /\ alone' = (alone /\ OneRequest')
  /\ quiet' = (quiet /\ WebhookApart')

Spec == Init /\ [][Next]_vars

-----------------------------------------------------------------------------
(***************************************************************************)
(* Properties.                                                             *)
(***************************************************************************)

\* Whatever runs at the same time and whatever stops half-way, a return is in
\* REFUND_PROCESSING or COMPLETED only when Stripe made a refund for it and a
\* Refund row records it (processRefund, issueRefund, charge.refunded).
CompletedIsRefunded ==
  \A r \in Returns :
    status[r] \in {"REFUND_PROCESSING", "COMPLETED"} => paid[r] > 0 /\ refund[r] # "none"

\* A status that speaks of the supplier's dispute is reached only when CJ has
\* one for the return (fileCjDispute, confirmCjOutcome).
RulingIsFiled ==
  \A r \in Returns :
    status[r] \in {"CJ_DISPUTE_SUBMITTED", "CJ_APPROVED", "CJ_REJECTED"} => atCJ[r] > 0

\* Money is returned once for each return when requests do not overlap and none
\* stops after Stripe has made the refund.
RefundedOnce == alone /\ faults = 0 => \A r \in Returns : paid[r] <= 1

AtRest == raised \subseteq done /\ \A c \in Requests : job[c] = Idle

\* processRefund: charge.refunded advances the return from REFUND_PROCESSING to
\* COMPLETED once the money has moved; with nothing left to apply, none waits.
RefundIsConfirmed ==
  AtRest /\ faults = 0 => \A r \in Returns : status[r] # "REFUND_PROCESSING"

\* None does when no webhook is applied while a request is being served, nor two
\* at once (both would confirm the same, most recent Refund of the order), however
\* requests overlap.
QuietRefundIsConfirmed == quiet => RefundIsConfirmed

\* processRefund, issueRefund, createRefund, handleWebhook's charge.refunded:
\* under every overlap and wherever a request stops, the rows and the gateway
\* together are a ledger of refunds.
Books == INSTANCE RefundLedger

RefundsAreBooked == Books!Spec

\* confirmCjOutcome: approving a dispute takes the return out of the dispute.
Settled(r) ==
  disputes[r] # <<>> /\ disputes[r][Len(disputes[r])] = "APPROVED"
    => status[r] # "CJ_DISPUTE_SUBMITTED"

ApprovalMovesOn == AtRest /\ faults = 0 => \A r \in Returns : Settled(r)

=============================================================================
