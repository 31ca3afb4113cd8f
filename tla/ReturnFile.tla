------------------------------ MODULE ReturnFile -------------------------------
(***************************************************************************)
(* The file of a return request: the customer's evidence, the trail of its *)
(* statuses, the supplier's ruling and who bears the cost.  Returns has    *)
(* the money of the same requests; here it is what staff and customer are  *)
(* shown about them.                                                       *)
(*                                                                         *)
(* Every endpoint reads the return, asserts its move and changes it later  *)
(* in a transaction (transitionStatus) that reads the status once more for *)
(* the trail.  Requests of staff, customer and webhook run between.        *)
(***************************************************************************)
EXTENDS Returns

CONSTANTS
  Cases,           \* Return rows, all of type REFUND
  Clerks,          \* requests being served at the same time
  MaxEntries,      \* bound: moves recorded of one return when staff move it
  MaxFiles,        \* bound: pieces of evidence of one return
  MaxFilings,      \* bound: disputes of one return
  MaxOverlaps,     \* bound: requests taken up while another is served
  MaxSlips         \* bound: requests cut short

ASSUME ReturnFileAssumption ==
  /\ MaxEntries \in Nat /\ MaxFiles \in Nat /\ MaxFilings \in Nat
  /\ MaxOverlaps \in Nat /\ MaxSlips \in Nat

VARIABLES
  stand,           \* return -> Return.status, "none" without a row
  trail,           \* return -> its ReturnStatusHistory, oldest first
  evidence,        \* return -> ReturnEvidence rows
  filings,         \* return -> its ReturnDispute rows, oldest first
  ruling,          \* return -> what CJ has ruled on the dispute it has opened
  repaid,          \* returns that have a Refund row
  credited,        \* ReturnFinancials with a cjReimbursementAmount
  bearer,          \* return -> ReturnFinancials.costCoveredBy
  desk,            \* request -> the step it is at and what it has read
  slips,           \* how much of MaxSlips is used up
  overlaps,        \* history: requests taken up while another was served
  untraced,        \* history: returns the old endpoints worked on
  unseen,          \* history: returns with evidence since staff's last move
  promised         \* history: returns CJ_APPROVED on a ruling that names an amount

papers == <<stand, trail, evidence, filings, ruling>>
costs == <<repaid, credited, bearer>>
memory == <<untraced, unseen, promised>>
fileVars == <<papers, costs, desk, slips, overlaps, memory>>

Vacant == [at |-> "vacant"]

FileInit ==
  /\ stand = [r \in Cases |-> "none"]
  /\ trail = [r \in Cases |-> <<>>]
  /\ evidence = [r \in Cases |-> 0]
  /\ filings = [r \in Cases |-> <<>>]
  /\ ruling = [r \in Cases |-> "none"]
  /\ repaid = {}
  /\ credited = {}
  /\ bearer = [r \in Cases |-> "none"]
  /\ desk = [c \in Clerks |-> Vacant]
  /\ slips = 0
  /\ overlaps = 0
  /\ untraced = {}
  /\ unseen = {}
  /\ promised = {}

\* findById, findByIdWithDetail: what the request goes on with.
TakeUp(c, step) ==
  /\ desk[c] = Vacant
  /\ desk' = [desk EXCEPT ![c] = step]
  /\ UNCHANGED <<papers, costs, memory>>

Leave(c) == desk' = [desk EXCEPT ![c] = Vacant]

\* What is left to do is to move the return; "credit" tells whether the ruling
\* named an amount that is to be booked afterwards.
Moving(r, to, by, credit) ==
  [at |-> "move", of |-> r, to |-> to, by |-> by, credit |-> credit]

\* assertValidReturnTransition
Legal(r, to) == <<stand[r], to>> \in Allowed

-----------------------------------------------------------------------------
(***************************************************************************)
(* transitionStatus: a transaction that reads the status and then writes   *)
(* it together with its entry in the trail.                                *)
(***************************************************************************)
Begin(c) ==
  /\ desk[c].at = "move"
  /\ LET d == desk[c]
     IN  desk' = [desk EXCEPT ![c] =
           [at |-> "commit", of |-> d.of, to |-> d.to, by |-> d.by,
            credit |-> d.credit, from |-> stand[d.of]]]
  /\ UNCHANGED <<papers, costs, memory>>

\* Mutant of Commit: the status is moved, its entry is forgotten.
CommitUntold(c) ==
  /\ desk[c].at = "commit"
  /\ stand' = [stand EXCEPT ![desk[c].of] = desk[c].to]
  /\ unseen' = IF desk[c].by = "ADMIN" THEN unseen \ {desk[c].of} ELSE unseen
  /\ Leave(c)
  /\ UNCHANGED <<trail, evidence, filings, ruling, costs, untraced, promised>>

Commit(c) ==
  /\ desk[c].at = "commit"
  /\ LET d == desk[c]
         r == d.of
     IN  /\ stand' = [stand EXCEPT ![r] = d.to]
         /\ trail' = [trail EXCEPT ![r] = Append(@, [from |-> d.from, to |-> d.to, by |-> d.by])]
         /\ unseen' = IF d.by = "ADMIN" THEN unseen \ {r} ELSE unseen
         /\ promised' = IF d.credit THEN promised \cup {r} ELSE promised
         /\ IF d.credit
              THEN desk' = [desk EXCEPT ![c] = [at |-> "book", of |-> r]]
              ELSE Leave(c)
  /\ UNCHANGED <<evidence, filings, ruling, costs, untraced>>

-----------------------------------------------------------------------------
(***************************************************************************)
(* The customer.                                                           *)
(***************************************************************************)

\* Every piece is a row of its own.
WithEvidence(r, n) == [evidence EXCEPT ![r] = @ + n]

\* createReturnWithItems: the return, its evidence and the first entry in one
\* statement.  (Whether the order may have one is in Returns.)
Submit(c, r, n) ==
  /\ desk[c] = Vacant
  /\ stand[r] = "none"
  /\ stand' = [stand EXCEPT ![r] = "PENDING"]
  /\ trail' = [trail EXCEPT ![r] = <<[from |-> "none", to |-> "PENDING", by |-> "CUSTOMER"]>>]
  /\ evidence' = WithEvidence(r, n)
  /\ UNCHANGED <<desk, filings, ruling, costs, memory>>

\* evidenceAcceptingStatuses
Accepting == {"PENDING", "UNDER_REVIEW", "EVIDENCE_REQUIRED"}

\* addCustomerEvidence
SendEvidence(c, r) ==
  /\ stand[r] \in Accepting
  /\ evidence[r] < MaxFiles
  /\ TakeUp(c, [at |-> "store", of |-> r, was |-> stand[r]])

\* addEvidence, and the move back to review of a return that waited for it.
StoreEvidence(c) ==
  /\ desk[c].at = "store"
  /\ LET r == desk[c].of
     IN  /\ evidence' = WithEvidence(r, 1)
         /\ unseen' = unseen \cup {r}
         /\ IF desk[c].was = "EVIDENCE_REQUIRED"
              THEN desk' = [desk EXCEPT ![c] = Moving(r, "UNDER_REVIEW", "CUSTOMER", FALSE)]
              ELSE Leave(c)
  /\ UNCHANGED <<stand, trail, filings, ruling, costs, untraced, promised>>

CustomerCalls(c, r) ==
  \/ \E n \in 0 .. 1 : Submit(c, r, n)
  \/ SendEvidence(c, r)

-----------------------------------------------------------------------------
(***************************************************************************)
(* Staff: the review.                                                      *)
(***************************************************************************)

\* transitionToUnderReview, requestMoreEvidence, approveReturnRequest,
\* rejectReturnRequest
Decide(c, r, to) ==
  /\ Legal(r, to)
  /\ Len(trail[r]) < MaxEntries
  /\ TakeUp(c, Moving(r, to, "ADMIN", FALSE))

ReviewCalls(c, r) == \E to \in Reviewed : Decide(c, r, to)

(***************************************************************************)
(* Staff: the supplier's dispute.                                          *)
(***************************************************************************)
FileDispute(c, r) ==
  /\ Legal(r, "CJ_DISPUTE_SUBMITTED")
  /\ Len(filings[r]) < MaxFilings
  /\ TakeUp(c, [at |-> "file", of |-> r])

Filed(r, ruled, known) ==
  filings' = [filings EXCEPT ![r] = Append(@, [is |-> ruled, known |-> known, amount |-> FALSE])]

\* Nothing to dispute, no reason to offer, or CJ rejects the call.
NotFiled(c) ==
  /\ desk[c].at = "file"
  /\ Filed(desk[c].of, "FAILED_TO_SUBMIT", FALSE)
  /\ Leave(c)
  /\ UNCHANGED <<stand, trail, evidence, ruling, costs, memory>>

\* CJ opens the dispute; its id is looked up in CJ's list, which may not have it
\* yet.
FiledAtCJ(c, known) ==
  /\ desk[c].at = "file"
  /\ LET r == desk[c].of
     IN  /\ Filed(r, "SUBMITTED", known)
         /\ ruling' = [ruling EXCEPT ![r] = "open"]
         /\ desk' = [desk EXCEPT ![c] = Moving(r, "CJ_DISPUTE_SUBMITTED", "ADMIN", FALSE)]
  /\ UNCHANGED <<stand, trail, evidence, costs, memory>>

\* CJ rules on it, in its own time.
Rule(r, says) ==
  /\ ruling[r] = "open"
  /\ ruling' = [ruling EXCEPT ![r] = says]
  /\ UNCHANGED <<stand, trail, evidence, filings, costs, desk, memory>>

Latest(r) == Len(filings[r])

\* refreshCjDispute: an answer without an amount leaves the stored one alone.
Refresh(c, r) ==
  /\ filings[r] # <<>>
  /\ filings[r][Latest(r)].known
  /\ TakeUp(c, [at |-> "heard", of |-> r, nth |-> Latest(r), amount |-> ruling[r] = "repays"])

RefreshWrite(c) ==
  /\ desk[c].at = "heard"
  /\ LET d == desk[c]
     IN  filings' = [filings EXCEPT ![d.of][d.nth].amount = @ \/ d.amount]
  /\ Leave(c)
  /\ UNCHANGED <<stand, trail, evidence, ruling, costs, memory>>

\* confirmCjOutcome reads the return and its latest dispute; staff say how CJ
\* ruled.
ConfirmOutcome(c, r, outcome) ==
  /\ filings[r] # <<>>
  /\ LET to == IF outcome = "APPROVED" THEN "CJ_APPROVED" ELSE "CJ_REJECTED"
     IN  TakeUp(c, [at |-> "outcome", of |-> r, nth |-> Latest(r), to |-> to,
                    legal |-> Legal(r, to),
                    amount |-> outcome = "APPROVED" /\ filings[r][Latest(r)].amount])

OutcomeWrite(c) ==
  /\ desk[c].at = "outcome"
  /\ LET d == desk[c]
     IN  /\ filings' = [filings EXCEPT ![d.of][d.nth].is =
                          IF d.to = "CJ_APPROVED" THEN "APPROVED" ELSE "REJECTED"]
         /\ IF d.legal
              THEN desk' = [desk EXCEPT ![c] = Moving(d.of, d.to, "ADMIN", d.amount)]
              ELSE Leave(c)
  /\ UNCHANGED <<stand, trail, evidence, ruling, costs, memory>>

\* upsertFinancials of confirmCjOutcome, after the return has moved.
Book(c) ==
  /\ desk[c].at = "book"
  /\ credited' = credited \cup {desk[c].of}
  /\ Leave(c)
  /\ UNCHANGED <<papers, repaid, bearer, memory>>

-----------------------------------------------------------------------------
(***************************************************************************)
(* The refund.                                                             *)
(***************************************************************************)

\* Mutant of Refund: the shop bears every refund.
RefundByShop(c, r) ==
  /\ Legal(r, "REFUND_PROCESSING")
  /\ TakeUp(c, [at |-> "refund", of |-> r, by |-> "ADDICTSTYLE"])

\* processRefund: who bears it is decided on the financials read with the
\* return.  (Staff may also name the bearer themselves.)
Refund(c, r) ==
  /\ Legal(r, "REFUND_PROCESSING")
  /\ TakeUp(c, [at |-> "refund", of |-> r,
                by |-> IF r \in credited THEN "CJ" ELSE "ADDICTSTYLE"])

\* issueRefund, the old endpoint, knows no financials.
RefundOld(c, r) ==
  /\ stand[r] = "APPROVED"
  /\ TakeUp(c, [at |-> "refund", of |-> r, by |-> "none"])

\* refundPayment and createRefund; Refund.returnId is unique.
RefundRecorded(c) ==
  /\ desk[c].at = "refund"
  /\ LET d == desk[c]
     IN  /\ repaid' = repaid \cup {d.of}
         /\ desk' = [desk EXCEPT ![c] =
              IF d.of \in repaid THEN Vacant
              ELSE IF d.by = "none" THEN [at |-> "old", of |-> d.of, to |-> "COMPLETED"]
              ELSE [at |-> "bear", of |-> d.of, by |-> d.by]]
  /\ UNCHANGED <<papers, credited, bearer, memory>>

\* upsertFinancials of processRefund, before the return moves.
Bear(c) ==
  /\ desk[c].at = "bear"
  /\ bearer' = [bearer EXCEPT ![desk[c].of] = desk[c].by]
  /\ desk' = [desk EXCEPT ![c] = Moving(desk[c].of, "REFUND_PROCESSING", "ADMIN", FALSE)]
  /\ UNCHANGED <<papers, repaid, credited, memory>>

\* charge.refunded for a return that waits for it.
Repaid(c, r) ==
  /\ stand[r] = "REFUND_PROCESSING"
  /\ TakeUp(c, Moving(r, "COMPLETED", "SYSTEM", FALSE))

SettlementCalls(c, r) ==
  \/ FileDispute(c, r)
  \/ Refresh(c, r)
  \/ \E outcome \in {"APPROVED", "REJECTED"} : ConfirmOutcome(c, r, outcome)
  \/ Refund(c, r)

(***************************************************************************)
(* The old endpoints leave no trail.                                       *)
(***************************************************************************)
SubmitOld(c, r) ==
  /\ desk[c] = Vacant
  /\ stand[r] = "none"
  /\ stand' = [stand EXCEPT ![r] = "PENDING"]
  /\ untraced' = untraced \cup {r}
  /\ UNCHANGED <<desk, trail, evidence, filings, ruling, costs, unseen, promised>>

DecideOld(c, r, to) ==
  /\ stand[r] = "PENDING"
  /\ TakeUp(c, [at |-> "old", of |-> r, to |-> to])

\* updateReturnStatus
WriteOld(c) ==
  /\ desk[c].at = "old"
  /\ stand' = [stand EXCEPT ![desk[c].of] = desk[c].to]
  /\ untraced' = untraced \cup {desk[c].of}
  /\ unseen' = unseen \ {desk[c].of}
  /\ Leave(c)
  /\ UNCHANGED <<trail, evidence, filings, ruling, costs, promised>>

OldCalls(c, r) ==
  \/ SubmitOld(c, r)
  \/ \E to \in {"APPROVED", "REJECTED"} : DecideOld(c, r, to)
  \/ RefundOld(c, r)

-----------------------------------------------------------------------------
GoOn(c) ==
  \/ StoreEvidence(c)
  \/ Begin(c)
  \/ Commit(c)
  \/ NotFiled(c)
  \/ \E known \in BOOLEAN : FiledAtCJ(c, known)
  \/ RefreshWrite(c)
  \/ OutcomeWrite(c)
  \/ Book(c)
  \/ RefundRecorded(c)
  \/ Bear(c)
  \/ WriteOld(c)

\* A request cut short leaves what it has written.
Slip(c) ==
  /\ desk[c] # Vacant
  /\ slips < MaxSlips
  /\ slips' = slips + 1
  /\ Leave(c)
  /\ UNCHANGED <<papers, costs, memory>>

Called(c) ==
  \/ \E r \in Cases :
       \/ CustomerCalls(c, r)
       \/ ReviewCalls(c, r)
       \/ SettlementCalls(c, r)
       \/ OldCalls(c, r)
       \/ Repaid(c, r)
  \/ GoOn(c)

Resting == \A c \in Clerks : desk[c] = Vacant

Taken == \E c \in Clerks : desk[c] = Vacant /\ desk'[c] # Vacant

FileNext ==
  /\ \/ \E c \in Clerks :
          \/ Called(c) /\ UNCHANGED slips
          \/ Slip(c)
     \/ /\ \E r \in Cases, says \in {"repays", "declines"} : Rule(r, says)
        /\ UNCHANGED slips
  /\ overlaps' = IF Taken /\ ~ Resting THEN overlaps + 1 ELSE overlaps
  /\ overlaps' <= MaxOverlaps

FileSpec == FileInit /\ [][FileNext]_fileVars

-----------------------------------------------------------------------------
(***************************************************************************)
(* What staff are shown: the queue of the returns page.                    *)
(***************************************************************************)

\* The derived flag of listReturns: the last entry is the customer's answer.
HasNewCustomerEvidence(r) ==
  /\ stand[r] = "UNDER_REVIEW"
  /\ trail[r] # <<>>
  /\ trail[r][Len(trail[r])].from = "EVIDENCE_REQUIRED"
  /\ trail[r][Len(trail[r])].by = "CUSTOMER"

\* The statuses a query for "asked" is about: one that there is, or all.
Sought(asked) == IF asked \in Status THEN {asked} ELSE Status

\* findUnderReview, findAll
UnderReview == {r \in Cases : stand[r] = "UNDER_REVIEW"}

Matching(sought) == {r \in Cases : stand[r] \in sought}

\* The rows GET /returns shows for its "status", with the flag of each.
Queue(asked) ==
  IF asked = "CUSTOMER_RESPONDED"
    THEN {<<r, TRUE>> : r \in {q \in UnderReview : HasNewCustomerEvidence(q)}}
    ELSE {<<r, HasNewCustomerEvidence(r)>> : r \in Matching(Sought(asked))}

-----------------------------------------------------------------------------
(***************************************************************************)
(* Properties.                                                             *)
(***************************************************************************)

\* The trail tells the return's whole life: legal moves, each from where the
\* last one led, ending at the status (transitionStatus).
TrailIsWhole(r) ==
  stand[r] # "none" =>
    LET t == trail[r]
    IN  /\ t # <<>> /\ t[1].to = "PENDING"
        /\ stand[r] = t[Len(t)].to
        /\ \A i \in 2 .. Len(t) : t[i].from = t[i - 1].to /\ <<t[i].from, t[i].to>> \in Allowed

\* Staff's last word to the customer was a demand for evidence.
Demanded(r) ==
  \E i \in DOMAIN trail[r] :
    /\ trail[r][i].by = "ADMIN" /\ trail[r][i].to = "EVIDENCE_REQUIRED"
    /\ \A j \in DOMAIN trail[r] : j > i => trail[r][j].by # "ADMIN"

\* The customer's answer to a demand is in the queue of answers, and flagged in
\* every other queue it is in, until staff move the return (addCustomerEvidence,
\* listReturns).
AnswerIsListed(r) ==
  r \in unseen /\ Demanded(r) =>
    \A asked \in {"CUSTOMER_RESPONDED", "UNDER_REVIEW", "all"} : <<r, TRUE>> \in Queue(asked)

\* No two requests have been served at once.
lone == overlaps = 0

\* While requests do not overlap, the file of a return the old endpoints left
\* alone is whole, wherever requests are cut short; and with none cut short no
\* answer stays out of staff's sight.
AloneFileIsWhole ==
  lone => \A r \in Cases \ untraced :
            TrailIsWhole(r) /\ (Resting /\ slips = 0 => AnswerIsListed(r))

\* Who bears a refund follows CJ's ruling (processRefund): the shop does only if
\* no approved ruling had named an amount, when requests neither overlap nor
\* stop half-way; and CJ never does unless it named one, whatever happens.
CostFollowsRuling ==
  \A r \in Cases :
    /\ bearer[r] = "CJ" => r \in promised /\ \E i \in DOMAIN filings[r] : filings[r][i].amount
    /\ lone /\ slips = 0 /\ bearer[r] = "ADDICTSTYLE" => r \notin promised

=============================================================================
