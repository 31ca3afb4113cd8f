---------------------------- MODULE SupplierOrders ----------------------------
(***************************************************************************)
(* One order of a shop and what CJ Dropshipping makes of it: the clerk's   *)
(* placement (create, correct the shipping, confirm, pay, record), its     *)
(* cancellation, and the tracking look-ups that keep its shipment.         *)
(*                                                                         *)
(* A call to CJ may not arrive, or arrive and its answer be lost; the      *)
(* adapter repeats either up to MaxTries times, whatever the call does.    *)
(* The order is to be paid in cash, so no captured payment stands in the   *)
(* way of its cancellation (OrderPayments has that side).                  *)
(***************************************************************************)
EXTENDS Naturals, Sequences, FiniteSets

CONSTANTS
  Desks,           \* requests served at the same time
  MaxTries,        \* request's maxRetries
  MaxOrders,       \* bound: orders CJ opens
  MaxFaults        \* bound: calls that fail, requests that stop

ASSUME SupplierOrdersAssumption ==
  IsFiniteSet(Desks) /\ MaxTries \in Nat \ {0} /\ MaxFaults \in Nat

VARIABLES
  state,           \* CommerceOrder.status
  fillable,        \* it has an address and CJ sells each of its items
  supplied,        \* its CommerceSupplierOrder rows, with their shipments
  cj,              \* CJ's orders for it, by number: how far each has got
  desk,            \* request -> the step it is at
  broken,          \* how much of MaxFaults is used up
  single,          \* history: never two requests at once so far
  whole            \* history: no placement ended between payment and record

supplyVars == <<state, fillable, supplied, cj, desk, broken, single, whole>>

\* `of` is CJ's number for the order, or the row a look-up is about; `told` is what
\* CJ says of its shipment.
Step(at, of) == [at |-> at, of |-> of, tries |-> 1, told |-> "PENDING"]

Free == Step("idle", 0)

Calls == {"create", "correct", "confirm", "pay"}

SupplyInit ==
  /\ state = "PENDING"
  /\ fillable \in BOOLEAN
  /\ supplied = <<>>
  /\ cj = <<>>
  /\ desk = [d \in Desks |-> Free]
  /\ broken = 0
  /\ single = TRUE
  /\ whole = TRUE

To(d, step) == desk' = [desk EXCEPT ![d] = step]

Fault == broken < MaxFaults /\ broken' = broken + 1

-----------------------------------------------------------------------------
(* Placement. *)

\* findSupplierOrderForOrder
Unplaced == supplied = <<>>

\* placeOrder up to its call: the order's own status is not looked at.
AskPlace(d) ==
  /\ desk[d] = Free
  /\ fillable
  /\ Unplaced
  /\ To(d, Step("create", 0))
  /\ UNCHANGED <<state, supplied, cj, broken>>

\* What CJ does with a call that reaches it and that it accepts.
Moved(of, from, to) == cj[of] = from /\ cj' = [cj EXCEPT ![of] = to]

\* createOrderV2: an order of its own for every call, its number unseen or not;
\* the shipping the adapter names by default may not do for it.
CreateOrder ==
  Len(cj) < MaxOrders /\ \E s \in {"missed", "created"} : cj' = Append(cj, s)

UpdateLogistics(of) == Moved(of, "missed", "created")

\* CREATED to UNPAID, which payment requires.
ConfirmOrder(of) == Moved(of, "created", "unpaid")

PayBalance(of) == Moved(of, "unpaid", "paid")

CJTakes(step) ==
  \/ step.at = "create" /\ CreateOrder
  \/ step.at = "correct" /\ UpdateLogistics(step.of)
  \/ step.at = "confirm" /\ ConfirmOrder(step.of)
  \/ step.at = "pay" /\ PayBalance(step.of)

\* request: the next attempt follows at once; the last one throws.
Retry(d) ==
  IF desk[d].tries < MaxTries THEN To(d, [desk[d] EXCEPT !.tries = @ + 1]) ELSE To(d, Free)

Unreached(d) ==
  /\ desk[d].at \in Calls
  /\ Fault
  /\ Retry(d)
  /\ UNCHANGED <<state, supplied, cj>>

AnswerLost(d) ==
  /\ desk[d].at \in Calls
  /\ CJTakes(desk[d])
  /\ Fault
  /\ Retry(d)
  /\ UNCHANGED <<state, supplied>>

\* Where an accepted call leads; CJ says when its order lacks valid shipping.
Onward(step) ==
  CASE step.at = "create" ->
         Step(IF cj'[Len(cj')] = "missed" THEN "options" ELSE "confirm", Len(cj'))
    [] step.at = "correct" -> Step("confirm", step.of)
    [] step.at = "confirm" -> Step("pay", step.of)
    [] step.at = "pay" -> Step("paid", step.of)

Accepted(d) ==
  /\ desk[d].at \in Calls
  /\ CJTakes(desk[d])
  /\ To(d, Onward(desk[d]))
  /\ UNCHANGED <<state, supplied, broken>>

\* Mutant of Undone: a refused correction of the shipping is overlooked.
UndoneUnlessCorrected(step) == IF step.at = "correct" THEN Step("confirm", step.of)
                               ELSE IF step.at = "create" THEN Free ELSE Step("unpaid", step.of)

\* A refused creation or correction gives the placement up; a refused
\* confirmation or payment leaves an order recorded as not paid.
Undone(step) ==
  IF step.at \in {"create", "correct"} THEN Free ELSE Step("unpaid", step.of)

\* CJ's answer carries no data, also to a call it has already carried out.
Refused(d) ==
  /\ desk[d].at \in Calls
  /\ To(d, Undone(desk[d]))
  /\ UNCHANGED <<state, supplied, cj, broken>>

\* extractOrderId finds no number in the answer: null, though the order is there.
Unnamed(d) ==
  /\ desk[d].at = "create"
  /\ CreateOrder
  /\ To(d, Free)
  /\ UNCHANGED <<state, supplied, broken>>

\* autoCorrectLogistics: the cheapest option in stock, or none, or no answer.
ReadOptions(d) ==
  /\ desk[d].at = "options"
  /\ To(d, Step("correct", desk[d].of)) \/ To(d, Free)
  /\ UNCHANGED <<state, supplied, cj, broken>>

\* createSupplierOrderWithItems: one transaction.
Record(d) ==
  /\ desk[d].at \in {"paid", "unpaid"}
  /\ supplied' = Append(supplied,
       [of |-> desk[d].of, shipments |-> <<>>,
        status |-> IF desk[d].at = "paid" THEN "CONFIRMED" ELSE "PLACED"])
  /\ state' = IF state = "PENDING" THEN "PROCESSING" ELSE state
  /\ To(d, Free)
  /\ UNCHANGED <<cj, broken>>

\* A statement throws or the server stops.
Stop(d) ==
  /\ desk[d] # Free
  /\ Fault
  /\ To(d, Free)
  /\ UNCHANGED <<state, supplied, cj>>

-----------------------------------------------------------------------------
(* Cancellation and tracking. *)

AskCancel(d) ==
  /\ desk[d] = Free
  /\ supplied = <<>>
  /\ To(d, Step("cancel", 0))
  /\ UNCHANGED <<state, supplied, cj, broken>>

Cancel(d) ==
  /\ desk[d].at = "cancel"
  /\ state' = "CANCELLED"
  /\ To(d, Free)
  /\ UNCHANGED <<supplied, cj, broken>>

\* getOrderTracking: one of the supplier's orders, and what CJ says of it.
AskTracking(d, k) ==
  /\ desk[d] = Free
  /\ To(d, Step("ask", k))
  /\ UNCHANGED <<state, supplied, cj, broken>>

\* No detail: what is stored is shown.
TrackStale(d) ==
  /\ desk[d].at = "ask"
  /\ To(d, Free)
  /\ UNCHANGED <<state, supplied, cj, broken>>

Tracked(d) ==
  /\ desk[d].at = "ask"
  /\ LET shipped == cj[supplied[desk[d].of].of] = "shipped"
     IN  To(d, [Step("find", desk[d].of) EXCEPT !.told = IF shipped THEN "IN_TRANSIT" ELSE "PENDING"])
  /\ UNCHANGED <<state, supplied, cj, broken>>

Found(k) == supplied[k].shipments # <<>>

\* Mutant of FindShipment: every look-up makes a row of its own.
FindNoShipment(d) ==
  /\ desk[d].at = "find"
  /\ To(d, [desk[d] EXCEPT !.at = "insert"])
  /\ UNCHANGED <<state, supplied, cj, broken>>

\* upsertShipmentFromTracking reads first, then updates the row or makes one.
FindShipment(d) ==
  /\ desk[d].at = "find"
  /\ To(d, [desk[d] EXCEPT !.at = IF Found(desk[d].of) THEN "update" ELSE "insert"])
  /\ UNCHANGED <<state, supplied, cj, broken>>

WriteShipment(d) ==
  /\ \/ /\ desk[d].at = "insert"
        /\ supplied' = [supplied EXCEPT ![desk[d].of].shipments = Append(@, desk[d].told)]
     \/ /\ desk[d].at = "update"
        /\ supplied' = [supplied EXCEPT ![desk[d].of].shipments[1] = desk[d].told]
  /\ To(d, Free)
  /\ UNCHANGED <<state, cj, broken>>

\* updateShipment: staff write any status over any other.
StaffDeliver(k) ==
  /\ Found(k)
  /\ supplied' = [supplied EXCEPT ![k].shipments[1] = "DELIVERED"]
  /\ UNCHANGED <<state, cj, desk, broken>>

CJShips(k) ==
  /\ Moved(k, "paid", "shipped")
  /\ UNCHANGED <<state, supplied, desk, broken>>

-----------------------------------------------------------------------------
SupplyStep ==
  \/ \E d \in Desks :
       \/ AskPlace(d) \/ Unreached(d) \/ AnswerLost(d) \/ Accepted(d) \/ Refused(d)
       \/ Unnamed(d) \/ ReadOptions(d) \/ Record(d) \/ Stop(d)
       \/ AskCancel(d) \/ Cancel(d)
       \/ \E k \in DOMAIN supplied : AskTracking(d, k)
       \/ TrackStale(d) \/ Tracked(d) \/ FindShipment(d) \/ WriteShipment(d)
  \/ \E k \in DOMAIN supplied : StaffDeliver(k)
  \/ \E k \in DOMAIN cj : CJShips(k)

Busy == {d \in Desks : desk[d] # Free}

\* A placement that ends where CJ may have been paid and nothing is recorded.
CutShort(d) ==
  desk[d].at \in {"pay", "paid", "unpaid"} /\ desk'[d] = Free /\ supplied' = supplied

SupplyNext ==
  /\ SupplyStep
  /\ single' = (single /\ Cardinality(Busy') <= 1)
  /\ whole' = (whole /\ \A d \in Desks : ~ CutShort(d))
  /\ UNCHANGED fillable

SupplySpec == SupplyInit /\ [][SupplyNext]_supplyVars

-----------------------------------------------------------------------------
(* Properties. *)

Spent == {k \in DOMAIN cj : cj[k] \in {"paid", "shipped"}}

\* What the shop has recorded is so at CJ, however requests overlap and whatever
\* is lost: an order of its own for each row, one that can be shipped, paid when it
\* is CONFIRMED, on its way when its shipment is IN_TRANSIT.
RecordedIsReal ==
  \A k \in DOMAIN supplied :
    LET row == supplied[k]
    IN  /\ \A l \in DOMAIN supplied : supplied[l].of = row.of => l = k
        /\ cj[row.of] # "missed"
        /\ row.status = "CONFIRMED" => row.of \in Spent
        /\ \A i \in DOMAIN row.shipments :
             row.shipments[i] = "IN_TRANSIT" => cj[row.of] = "shipped"

\* Requests one after the other pay CJ once, repeated and lost calls included,
\* unless one was cut short after it began to pay; and a supplier's order has the
\* one shipment upsertShipmentFromTracking means it to have.
SingleNothingDoubled ==
  single => /\ whole => Cardinality(Spent) <= 1
            /\ \A k \in DOMAIN supplied : Len(supplied[k].shipments) <= 1

=============================================================================
