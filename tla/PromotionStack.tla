---------------------------- MODULE PromotionStack ----------------------------
(***************************************************************************)
(* How campaigns stack up to the price of an order: the loop of            *)
(* PromotionEngine.evaluate over the candidate campaigns, highest priority *)
(* first, one candidate a step, and createOrderFromItems' total.           *)
(*                                                                         *)
(* What a candidate is worth by itself (its rules, targets and rewards) is *)
(* worked out further down, where the loop runs over concrete carts; for   *)
(* the loop it is any offer at all.                                        *)
(***************************************************************************)
EXTENDS Integers, Sequences, FiniteSets, Functions

VARIABLES
  subtotal,      \* of the cart; money is counted in ten-thousandths
  coupon,        \* what the coupon takes off, at most the subtotal
  quote,         \* shipping as quoted
  offers,        \* the candidates, in the order they are looked at
  next,          \* the candidate to look at
  remaining,     \* what is left of the subtotal
  discount,      \* what the campaigns take off together
  freeShipping,
  applied,       \* places in offers of the campaigns applied so far
  stamp,         \* promotionId: the one recorded on the order, 0 for none
  total          \* {}, then {the amount the customer is charged}

input == <<subtotal, coupon, quote, offers>>
evaluation == <<remaining, discount, freeShipping, applied, stamp>>
vars == <<input, next, evaluation, total>>

Offer == [qualifies : BOOLEAN,   \* all its rules pass
          targeted : Nat,        \* subtotal of the lines it is for
          raw : Nat,             \* sum of what its rewards take off
          free : BOOLEAN]        \* one of its rewards is free shipping

TypeOK ==
  /\ subtotal \in Nat
  /\ coupon \in 0 .. subtotal
  /\ quote \in Nat
  /\ offers \in Seq(Offer)
  /\ next \in 1 .. Len(offers) + 1
  /\ remaining \in Nat
  /\ discount \in Nat
  /\ freeShipping \in BOOLEAN
  /\ applied \subseteq DOMAIN offers
  /\ stamp \in 0 .. Len(offers)
  /\ total \subseteq Nat

Fresh ==
  /\ next = 1
  /\ remaining = subtotal
  /\ discount = 0
  /\ freeShipping = FALSE
  /\ applied = {}
  /\ stamp = 0
  /\ total = {}

Init ==
  /\ subtotal \in Nat
  /\ coupon \in 0 .. subtotal
  /\ quote \in Nat
  /\ offers \in Seq(Offer)
  /\ Fresh

-----------------------------------------------------------------------------
\* Nothing left to take off: the loop ends there, and an empty cart has none.
Looping == total = {} /\ next <= Len(offers) /\ remaining > 0

\* The running total of discounts never exceeds the subtotal.
Capped(n) == IF n > remaining THEN remaining ELSE n

\* Its rules pass, and it takes something off or ships free.
Counts(o) ==
  /\ o.qualifies
  /\ o.targeted > 0 \/ o.free
  /\ Capped(o.raw) > 0 \/ o.free

Skip ==
  /\ Looping
  /\ ~ Counts(offers[next])
  /\ next' = next + 1
  /\ UNCHANGED <<input, evaluation, total>>

Apply ==
  /\ Looping
  /\ Counts(offers[next])
  /\ LET off == Capped(offers[next].raw)
     IN  /\ remaining' = remaining - off
         /\ discount' = discount + off
  /\ freeShipping' = (freeShipping \/ offers[next].free)
  /\ applied' = applied \cup {next}
  /\ stamp' = IF stamp = 0 THEN next ELSE stamp
  /\ next' = next + 1
  /\ UNCHANGED <<input, total>>

\* Mutant of Price: the coupon is taken off after the campaigns' cap.
PriceCappedApart ==
  /\ ~ Looping
  /\ total = {}
  /\ LET shipping == IF freeShipping THEN 0 ELSE quote
     IN  total' = {subtotal - coupon - discount + shipping}
  /\ UNCHANGED <<input, next, evaluation>>

\* createOrderFromItems: coupon and campaigns together take off at most the
\* subtotal; shipping is as quoted unless a campaign made it free.
Price ==
  /\ ~ Looping
  /\ total = {}
  /\ LET off == IF coupon + discount > subtotal THEN subtotal ELSE coupon + discount
         shipping == IF freeShipping THEN 0 ELSE quote
     IN  total' = {subtotal - off + shipping}
  /\ UNCHANGED <<input, next, evaluation>>

Next == Skip \/ Apply \/ Price

Spec == Init /\ [][Next]_vars

-----------------------------------------------------------------------------
(***************************************************************************)
(* Properties.                                                             *)
(***************************************************************************)

\* What the campaigns take off and what they leave make up the subtotal.
Conserved == remaining + discount = subtotal

\* The customer is never owed money, and pays for shipping in full unless it
\* is free.
NeverOwed == \A t \in total : t >= IF freeShipping THEN 0 ELSE quote

\* Worth applying, whatever else is.
Worthwhile(o) == o.qualifies /\ ((o.targeted > 0 /\ o.raw > 0) \/ o.free)

\* The campaigns an order claims a use of are exactly those whose turn came
\* and that had something to give, and the order is stamped with the first of
\* them; a candidate is passed over only when the cart is already free.
AppliedInTurn ==
  /\ applied = {k \in 1 .. next - 1 : Worthwhile(offers[k])}
  /\ freeShipping = \E k \in applied : offers[k].free
  /\ IF applied = {}
       THEN stamp = 0
       ELSE stamp \in applied /\ \A k \in applied : stamp <= k
  /\ (total # {} /\ next <= Len(offers)) => remaining = 0

-----------------------------------------------------------------------------
(***************************************************************************)
(* What a coupon and each candidate campaign is worth for a cart: the      *)
(* rules, targets and rewards of PromotionEngine and the coupon's discount *)
(* in createOrderFromItems.                                                *)
(*                                                                         *)
(* Prices are whole cents and percentages whole, so that every amount is a *)
(* whole number of ten-thousandths, the scale of the order's columns.      *)
(***************************************************************************)
CONSTANTS
  Carts,        \* sequences of lines
  Coupons,      \* coupons the customer may enter, with None among them
  Queues,       \* sequences of campaigns, as findActiveCandidates may return them
  Quotes,       \* shipping amounts
  None          \* no coupon, no cap, no number in a rule

VARIABLES cart, first

\* Prices, values and caps are no less than nothing; a queue has its campaigns' rewards in order.
ASSUME PricingAssumption ==
  /\ None \notin Nat
  /\ \A lines \in Carts :
       /\ IsFiniteSet(DOMAIN lines)
       /\ \A i \in DOMAIN lines : lines[i].price \in Nat /\ lines[i].quantity \in Nat
  /\ \A c \in Coupons \ {None} : c.value \in Nat /\ c.maxDiscount \in Nat \cup {None}
  /\ \A queue \in Queues :
       /\ Len(queue) \in Nat /\ DOMAIN queue = 1 .. Len(queue)
       /\ \A k \in DOMAIN queue :
            /\ IsFiniteSet(DOMAIN queue[k].rewards)
            /\ \A i \in DOMAIN queue[k].rewards :
                 /\ queue[k].rewards[i].value \in Nat
                 /\ queue[k].rewards[i].maxDiscount \in Nat \cup {None}
  /\ Quotes \subseteq Nat

Total(seq, Amount(_)) == SumFunction([i \in DOMAIN seq |-> Amount(seq[i])])

lineTotal(line) == line.price * line.quantity

Subtotal(lines) == Total(lines, lineTotal)

cartQuantity(lines) == LET Quantity(line) == line.quantity IN Total(lines, Quantity)

-----------------------------------------------------------------------------
(***************************************************************************)
(* Rules, targets, rewards.                                                *)
(***************************************************************************)
\* A rule whose number cannot be read, or of another type, is not met.
rulePasses(rule, lines, isFirst) ==
  \/ rule.type = "MIN_CART_TOTAL" /\ rule.min # None /\ Subtotal(lines) >= rule.min
  \/ rule.type = "MIN_QUANTITY" /\ rule.min # None /\ cartQuantity(lines) >= rule.min
  \/ rule.type = "FIRST_ORDER" /\ isFirst

Hits(target, line) ==
  \/ target.type = "ALL"
  \/ target.type = "VARIANT" /\ target.id = line.variant
  \/ target.type = "PRODUCT" /\ target.id = line.product
  \/ target.type = "CATEGORY" /\ target.id = line.category
  \/ target.type = "COLLECTION" /\ target.id \in line.collections

\* Lines that are hit count once, by however many targets; without targets the
\* whole cart counts.
targetedSubtotal(lines, targets) ==
  LET Hit(line) == targets = {} \/ \E t \in targets : Hits(t, line)
      Counted(line) == IF Hit(line) THEN lineTotal(line) ELSE 0
  IN  Total(lines, Counted)

Percent(amount, value) == (amount * value) \div 100

AtMost(amount, cap) == IF cap # None /\ amount > cap THEN cap ELSE amount

rewardDiscount(reward, targeted) ==
  CASE reward.type = "PERCENTAGE_OFF" -> AtMost(Percent(targeted, reward.value), reward.maxDiscount)
    [] reward.type = "FIXED_AMOUNT_OFF" -> AtMost(reward.value, targeted)
    [] OTHER -> 0

\* The candidate, as the loop sees it.
OfferOf(c, lines, isFirst) ==
  LET targeted == targetedSubtotal(lines, c.targets)
      Worth(reward) == rewardDiscount(reward, targeted)
  IN  [qualifies |-> \A rule \in c.rules : rulePasses(rule, lines, isFirst),
       targeted |-> targeted,
       raw |-> Total(c.rewards, Worth),
       free |-> \E i \in DOMAIN c.rewards : c.rewards[i].type = "FREE_SHIPPING"]

\* createOrderFromItems
couponDiscount(c, amount) ==
  IF c = None THEN 0
  ELSE AtMost(IF c.type = "PERCENTAGE" THEN AtMost(Percent(amount, c.value), c.maxDiscount)
                                       ELSE c.value,
              amount)

-----------------------------------------------------------------------------
PricingInit ==
  /\ cart \in Carts
  /\ first \in BOOLEAN
  /\ subtotal = Subtotal(cart)
  /\ \E c \in Coupons : coupon = couponDiscount(c, subtotal)
  /\ quote \in Quotes
  /\ \E queue \in Queues :
       offers = [i \in DOMAIN queue |-> OfferOf(queue[i], cart, first)]
  /\ Fresh

PricingNext == Next /\ UNCHANGED <<cart, first>>

PricingSpec == PricingInit /\ [][PricingNext]_<<vars, cart, first>>

-----------------------------------------------------------------------------
(***************************************************************************)
(* Property.                                                               *)
(***************************************************************************)
Worth(k) == IF offers[k].qualifies THEN offers[k].raw ELSE 0

\* In whatever order the campaigns are looked at and wherever the loop stops,
\* the customer is charged the subtotal less the coupon and everything the
\* qualifying campaigns are worth, or nothing if they are worth more, and the
\* quoted shipping unless a campaign that counted ships free (the column
\* comment: total = subtotal - discount + tax + shipping).
PriceIsRight ==
  total # {} =>
    LET off == coupon + SumFunction([k \in DOMAIN offers |-> Worth(k)])
        free == \E k \in applied : offers[k].free
    IN  total = {(IF off > subtotal THEN 0 ELSE subtotal - off) + (IF free THEN 0 ELSE quote)}

=============================================================================
