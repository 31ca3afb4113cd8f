------------------------------- MODULE Checkout -------------------------------
(***************************************************************************)
(* One customer's cart on its way to orders: CartService, and the checkout *)
(* endpoints (checkoutFromCart, checkoutDirect, createOrderFromItems) that *)
(* price it, reserve stock item by item and then create the order in one   *)
(* transaction.  Tabs and retries of the customer run at the same time;    *)
(* each statement is a step.                                               *)
(*                                                                         *)
(* Stock is taken through the promise of the inventory (StockLedger, which *)
(* Inventory implements), one location to a variant; physical counts stay  *)
(* as they are.  Of an offer only its usage cap and whether it is for a    *)
(* customer's first order are kept; amounts are PromotionStack's subject.  *)
(***************************************************************************)
EXTENDS Naturals, FiniteSets, Functions

CONSTANTS
  Variants,        \* product variants
  Tracked,         \* those with a stock row; the rest are the supplier's
  Level,           \* variant -> units on the shelf, or in the last sync
  Coupons,         \* coupon codes
  Promotions,      \* live campaigns without a code
  FirstOnly,       \* those for a customer's first order
  UsageLimit,      \* coupon or campaign -> usageLimit
  Shoppers,        \* requests of the customer being served at the same time
  MaxUnits,        \* bound: units the customer asks for, over all variants
  MaxOrders        \* bound: no checkout begins after that many orders

Offers == Coupons \cup Promotions

ASSUME CheckoutAssumption ==
  /\ Tracked \subseteq Variants
  /\ Level \in [Variants -> Nat]
  /\ Coupons \cap Promotions = {}
  /\ FirstOnly \subseteq Promotions
  /\ UsageLimit \in [Offers -> Nat \ {0}]
  /\ MaxUnits \in Nat
  /\ MaxOrders \in Nat

VARIABLES
  cart,            \* variant -> quantity of its CommerceCartItem, 0 without one
  claimed, acked,  \* the stock ledger
  sold,            \* variant -> units in the items of the customer's orders
  orders,          \* the customer's orders
  used,            \* coupon or campaign -> usageCount
  visit,             \* request -> the step it is at and what it has read
  wanted,          \* history: units put into the cart, less those taken out,
                   \* plus those ordered directly
  serial,          \* history: never two requests at once so far
  clean            \* history: no checkout stopped after it had reserved stock

Stock == INSTANCE StockLedger WITH
           Locations <- Tracked,
           Reservable <- 1 .. MaxUnits,
           Releasable <- {}

shelf == <<claimed, acked>>
placed == <<sold, orders, used>>
shoppingVars == <<cart, shelf, placed, visit, wanted, serial, clean>>

Free == [at |-> "idle"]

ShoppingInit ==
  /\ cart = [v \in Variants |-> 0]
  /\ claimed = [v \in Tracked |-> 0]
  /\ acked = [v \in Tracked |-> 1]
  /\ sold = [v \in Variants |-> 0]
  /\ orders = 0
  /\ used = [o \in Offers |-> 0]
  /\ visit = [s \in Shoppers |-> Free]
  /\ wanted = [v \in Variants |-> 0]
  /\ serial = TRUE
  /\ clean = TRUE

-----------------------------------------------------------------------------
At(s, at) == visit[s].at = at

Goto(s, step) == visit' = [visit EXCEPT ![s] = step]

Asked == SumFunction(wanted)

\* getEffectiveAvailableStock, for a variant of either kind.
Available(v) == IF v \in Tracked THEN Level[v] - claimed[v] ELSE Level[v]

-----------------------------------------------------------------------------
(***************************************************************************)
(* The cart.                                                               *)
(***************************************************************************)

\* addItemToCart looks at the stock and at the item in the cart ...
AddRead(s, v) ==
  /\ visit[s] = Free
  /\ Asked < MaxUnits
  /\ cart[v] < MaxUnits
  /\ Available(v) >= cart[v] + 1
  /\ Goto(s, [at |-> "add", of |-> v, seen |-> cart[v]])
  /\ UNCHANGED <<cart, shelf, placed, wanted, clean>>

\* ... and writes the sum of what it read; an item that was created or deleted
\* in the meantime makes the statement throw.  (An item that was deleted and
\* put back counts as the same one: more can happen here than in the code.)
AddWrite(s) ==
  /\ At(s, "add")
  /\ (cart[visit[s].of] = 0) = (visit[s].seen = 0)
  /\ cart' = [cart EXCEPT ![visit[s].of] = visit[s].seen + 1]
  /\ wanted' = [wanted EXCEPT ![visit[s].of] = @ + 1]
  /\ Goto(s, Free)
  /\ UNCHANGED <<shelf, placed, clean>>

AddThrows(s) ==
  /\ At(s, "add")
  /\ (cart[visit[s].of] = 0) # (visit[s].seen = 0)
  /\ Goto(s, Free)
  /\ UNCHANGED <<cart, shelf, placed, wanted, clean>>

\* updateCartItemQuantity, removeItemFromCart: one statement, no stock check.
SetQuantity(v, n) ==
  /\ cart[v] > 0
  /\ n # cart[v]
  /\ wanted[v] + n >= cart[v]
  /\ Asked + n - cart[v] <= MaxUnits
  /\ cart' = [cart EXCEPT ![v] = n]
  /\ wanted' = [wanted EXCEPT ![v] = @ + n - cart[v]]
  /\ UNCHANGED <<shelf, placed, visit, clean>>

-----------------------------------------------------------------------------
(***************************************************************************)
(* createOrderFromItems.                                                   *)
(***************************************************************************)
Begin(s, items, fromCart, codes) ==
  Goto(s, [at |-> "coupon", items |-> items, fromCart |-> fromCart, codes |-> codes,
           first |-> FALSE, applied |-> {}, left |-> {v \in Variants : items[v] > 0},
           of |-> {}, held |-> {}])

\* checkoutFromCart: an empty cart is refused.
FromCart(s, codes) ==
  /\ visit[s] = Free
  /\ orders < MaxOrders
  /\ \E v \in Variants : cart[v] > 0
  /\ Begin(s, cart, TRUE, codes)
  /\ UNCHANGED <<cart, shelf, placed, wanted, clean>>

\* checkoutDirect of one unit: the items come with the request.
Direct(s, v, codes) ==
  /\ visit[s] = Free
  /\ orders < MaxOrders
  /\ Asked < MaxUnits
  /\ Begin(s, [w \in Variants |-> IF w = v THEN 1 ELSE 0], FALSE, codes)
  /\ UNCHANGED <<cart, shelf, placed, wanted, clean>>

\* The request ends without an order; what it has reserved stays reserved.
Refuse(s) ==
  /\ Goto(s, Free)
  /\ clean' = (clean /\ visit[s].held = {})
  /\ UNCHANGED <<cart, shelf, placed, wanted>>

\* assertUsable, findActiveCandidates
HasUses(o) == used[o] < UsageLimit[o]

ReadCoupon(s) ==
  /\ At(s, "coupon")
  /\ \A c \in visit[s].codes : HasUses(c)
  /\ Goto(s, [visit[s] EXCEPT !.at = "first"])
  /\ UNCHANGED <<cart, shelf, placed, wanted, clean>>

CouponExhausted(s) ==
  /\ At(s, "coupon")
  /\ \E c \in visit[s].codes : ~ HasUses(c)
  /\ Refuse(s)

\* Mutant of ReadFirst: the customer's orders are not counted.
ReadAlwaysFirst(s) ==
  /\ At(s, "first")
  /\ Goto(s, [visit[s] EXCEPT !.at = "promotions", !.first = TRUE])
  /\ UNCHANGED <<cart, shelf, placed, wanted, clean>>

\* isCustomersFirstOrder
ReadFirst(s) ==
  /\ At(s, "first")
  /\ Goto(s, [visit[s] EXCEPT !.at = "promotions", !.first = (orders = 0)])
  /\ UNCHANGED <<cart, shelf, placed, wanted, clean>>

\* PromotionEngine.evaluate: of the campaigns that have uses left, those whose
\* rules the cart meets.  Then the quote for shipping is looked up.
ReadPromotions(s) ==
  /\ At(s, "promotions")
  /\ Goto(s, [visit[s] EXCEPT
                !.at = "stock",
                !.applied = {p \in Promotions : HasUses(p) /\ (p \in FirstOnly => visit[s].first)}])
  /\ UNCHANGED <<cart, shelf, placed, wanted, clean>>

\* The quote has expired.
QuoteExpired(s) ==
  /\ At(s, "promotions")
  /\ Refuse(s)

\* Mutant of CheckStock: every variant is taken for the supplier's.
CheckStockOnly(s, v) ==
  /\ At(s, "stock")
  /\ v \in visit[s].left
  /\ Available(v) >= visit[s].items[v]
  /\ Goto(s, [visit[s] EXCEPT !.left = @ \ {v}])
  /\ UNCHANGED <<cart, shelf, placed, wanted, clean>>

\* The loop over the items: the stock is looked at ...
CheckStock(s, v) ==
  /\ At(s, "stock")
  /\ v \in visit[s].left
  /\ Available(v) >= visit[s].items[v]
  /\ Goto(s, [visit[s] EXCEPT
                !.at = IF v \in Tracked THEN "reserve" ELSE "stock",
                !.of = IF v \in Tracked THEN {v} ELSE {},
                !.left = @ \ {v}])
  /\ UNCHANGED <<cart, shelf, placed, wanted, clean>>

OutOfStock(s, v) ==
  /\ At(s, "stock")
  /\ v \in visit[s].left
  /\ Available(v) < visit[s].items[v]
  /\ Refuse(s)

\* ... and then reserved, by the row as it is now.
Reserve(s, v) ==
  /\ At(s, "reserve")
  /\ visit[s].of = {v}
  /\ Available(v) >= visit[s].items[v]
  /\ Stock!Take(v, visit[s].items[v])
  /\ Goto(s, [visit[s] EXCEPT !.at = "stock", !.of = {}, !.held = @ \cup {v}])
  /\ UNCHANGED <<cart, placed, wanted, clean>>

\* Others have taken it, or changed the row between reserveStock's statements.
ReserveRefused(s, v) ==
  /\ At(s, "reserve")
  /\ visit[s].of = {v}
  /\ Available(v) < visit[s].items[v] \/ \E t \in Shoppers \ {s} : visit[t] # Free
  /\ Refuse(s)

\* What an order claims a use of: its coupon and the campaigns applied to it.
Claimed(s) == visit[s].codes \cup visit[s].applied

\* Mutant of Place: the cart is left for the next checkout.
PlaceKeepsCart(s) ==
  /\ At(s, "stock")
  /\ visit[s].left = {}
  /\ sold' = [v \in Variants |-> sold[v] + visit[s].items[v]]
  /\ orders' = orders + 1
  /\ used' = [o \in Offers |-> used[o] + (IF o \in Claimed(s) THEN 1 ELSE 0)]
  /\ wanted' = IF visit[s].fromCart THEN wanted ELSE [v \in Variants |-> wanted[v] + visit[s].items[v]]
  /\ Goto(s, Free)
  /\ UNCHANGED <<cart, shelf, clean>>

\* The transaction: the order with its items, a use of every offer, and for a
\* checkout of the cart whatever is in the cart now is deleted.
Place(s) ==
  /\ At(s, "stock")
  /\ visit[s].left = {}
  /\ sold' = [v \in Variants |-> sold[v] + visit[s].items[v]]
  /\ orders' = orders + 1
  /\ used' = [o \in Offers |-> used[o] + (IF o \in Claimed(s) THEN 1 ELSE 0)]
  /\ IF visit[s].fromCart
       THEN cart' = [v \in Variants |-> 0] /\ UNCHANGED wanted
       ELSE wanted' = [v \in Variants |-> wanted[v] + visit[s].items[v]] /\ UNCHANGED cart
  /\ Goto(s, Free)
  /\ UNCHANGED <<shelf, clean>>

-----------------------------------------------------------------------------
Held(s) == IF At(s, "idle") \/ At(s, "add") THEN {} ELSE visit[s].held

\* The server stops or a statement throws, at any step: nothing takes back the
\* reservations; the order's transaction either commits as a whole or not.
Stops(s) ==
  /\ visit[s] # Free
  /\ Goto(s, Free)
  /\ clean' = (clean /\ Held(s) = {})
  /\ UNCHANGED <<cart, shelf, placed, wanted>>

Act(s) ==
  \/ AddWrite(s) \/ AddThrows(s)
  \/ \E v \in Variants :
       \/ AddRead(s, v)
       \/ CheckStock(s, v) \/ OutOfStock(s, v)
  \/ \E codes \in SUBSET Coupons :
       /\ Cardinality(codes) <= 1
       /\ FromCart(s, codes) \/ (\E v \in Variants : Direct(s, v, codes))
  \/ ReadCoupon(s) \/ CouponExhausted(s)
  \/ ReadFirst(s)
  \/ ReadPromotions(s) \/ QuoteExpired(s)
  \/ \E v \in Tracked : Reserve(s, v) \/ ReserveRefused(s, v)
  \/ Place(s)
  \/ Stops(s)

Busy == {s \in Shoppers : visit[s] # Free}

ShoppingNext ==
  \/ /\ \E s \in Shoppers : Act(s)
     /\ serial' = (serial /\ Cardinality(Busy') <= 1)
  \/ /\ \E v \in Variants, n \in 0 .. MaxUnits : SetQuantity(v, n)
     /\ serial' = (serial /\ Busy = {})

ShoppingSpec == ShoppingInit /\ [][ShoppingNext]_shoppingVars

-----------------------------------------------------------------------------
(***************************************************************************)
(* Properties.                                                             *)
(***************************************************************************)

\* Units reserved by requests that are still being served, counted one by one.
Reserving(v) ==
  UNION {{s} \X (1 .. visit[s].items[v]) : s \in {r \in Shoppers : v \in Held(r)}}

InFlight(v) == Cardinality(Reserving(v))

\* Every ordered unit of a tracked variant is backed by a reservation, there
\* are no more reservations than units on the shelf, whatever the checkouts do
\* to each other between looking at the row and reserving
\* (docs/schema/15-platform-engine.md:60), and as long as no checkout ended
\* between reserving and ordering none is left over: what is reserved is in an
\* order or in a checkout in progress (docs/schema/15-platform-engine.md:83).
ReservedCoversOrders ==
  \A v \in Tracked :
    /\ sold[v] + InFlight(v) <= claimed[v]
    /\ claimed[v] <= Level[v]
    /\ clean => claimed[v] = sold[v] + InFlight(v)

\* Served one request at a time, the units the customer put into the cart are
\* in it or in an order, never in both and never lost.
SerialCartIsConserved ==
  serial => \A v \in Variants : wanted[v] = cart[v] + sold[v]

\* An offer never counts more uses than there are orders: a checkout that failed
\* claims none (order.service.ts:663-665).  Served one request at a time, no
\* offer is used more often than its limit, though the count is read several
\* statements before it is raised, and an offer for the first order is had once.
SerialOffersAreCapped ==
  /\ \A o \in Offers : used[o] <= orders
  /\ serial => /\ \A o \in Offers : used[o] <= UsageLimit[o]
               /\ \A p \in FirstOnly : used[p] <= 1

=============================================================================
