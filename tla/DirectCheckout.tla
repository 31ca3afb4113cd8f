---------------------------- MODULE DirectCheckout ----------------------------
(***************************************************************************)
(* What goes before an order of the storefront's own cart, which lives in  *)
(* the browser: a quote for shipping, and then checkoutDirect with the     *)
(* quote's id.  The lines name a product, a colour and a size, which the   *)
(* server turns into a variant each time; the quote's options are kept in  *)
(* Redis, where checkoutDirect finds the price to charge.                  *)
(*                                                                         *)
(* One shopper and one product; the destination only goes to CJ with the   *)
(* question.  Discounts and stock are PromotionStack's and Checkout's.     *)
(***************************************************************************)
EXTENDS Integers, FiniteSets, Sequences

CONSTANTS
  Variants,         \* of the product
  ColourOf, SizeOf, \* variant -> the value it is linked to
  Mapped,           \* variants CJ sells
  Freights,         \* the lists of options CJ may answer with, << >> included
  Flat,             \* FALLBACK_SHIPPING_OPTION
  Unknown,          \* no number of days; also no colour, no size, no quote
  MaxDays,          \* MAX_DEFAULT_DELIVERY_DAYS
  QuoteTTL,         \* SHIPPING_QUOTE_TTL_SECONDS, in steps of the clock
  MaxQuotes,        \* bound: quotes
  MaxTurns          \* bound: changes of mind and of the catalog

ASSUME CheckoutAssumption ==
  /\ QuoteTTL \in Nat
  /\ Flat.price \in Nat
  /\ \A freight \in Freights :
       /\ freight \in Seq({freight[i] : i \in DOMAIN freight})
       /\ \A i \in DOMAIN freight : freight[i].price \in Nat

Colours == {ColourOf[v] : v \in Variants} \cup {Unknown}
SizesSold == {SizeOf[v] : v \in Variants} \cup {Unknown}

\* A line of the browser's cart.
Choice == [colour : Colours, size : SizesSold]

VARIABLES
  wish,             \* the lines of the cart
  listed,           \* variants that are not deleted
  asking,           \* the quote under way: [wish, variants], or Unknown
  answers,          \* the answers the shopper got: [options, age]
  keptQuotes,       \* quote -> minutes its options stay in Redis, 0 once gone
  order,            \* the order just placed, or Unknown
  turns

checkoutVars == <<wish, listed, asking, answers, keptQuotes, order, turns>>

CheckoutInit ==
  /\ wish \in {{c} : c \in Choice}
  /\ listed = Variants
  /\ asking = Unknown
  /\ answers = << >>
  /\ keptQuotes = << >>
  /\ order = Unknown
  /\ turns = 0

-----------------------------------------------------------------------------
(***************************************************************************)
(* A line's variant.                                                       *)
(***************************************************************************)
\* findFirst's where: a size takes the place of the colour asked for before
\* it, under the same key of the query.
Fits(v, c) ==
  IF c.size # Unknown THEN SizeOf[v] = c.size ELSE c.colour \in {Unknown, ColourOf[v]}

\* Any of those that fit; the query has no order.
Resolutions == {f \in [wish -> listed] : \A c \in wish : Fits(f[c], c)}

-----------------------------------------------------------------------------
(***************************************************************************)
(* The options, the ones that arrive in time first, then by price.         *)
(***************************************************************************)
InTime(o) == o.days # Unknown /\ o.days <= MaxDays

Ranks(a, b) == IF InTime(a) # InTime(b) THEN InTime(a) ELSE a.price < b.price

\* Options that rank alike stay in CJ's order.
InOrder(freight, place) ==
  \A i, j \in DOMAIN freight :
    i < j => LET a == freight[place[i]]  b == freight[place[j]]
             IN  Ranks(a, b) \/ (~ Ranks(b, a) /\ place[i] < place[j])

\* The array's sort: there is one way to do it.
Sorts(freight) ==
  {[i \in DOMAIN freight |-> freight[place[i]]] :
     place \in {f \in [DOMAIN freight -> DOMAIN freight] : InOrder(freight, f)}}

\* A line CJ does not sell, or no answer from CJ, leaves the flat rate.
Offered(variants, freight) ==
  IF variants \subseteq Mapped /\ freight # << >> THEN Sorts(freight) ELSE {<<Flat>>}

-----------------------------------------------------------------------------
(***************************************************************************)
(* The shopper and the catalog.                                            *)
(***************************************************************************)
Turn == turns < MaxTurns /\ turns' = turns + 1 /\ order' = Unknown

Choose(c) ==
  /\ Turn
  /\ wish' \in {wish \cup {c}, wish \ {c}} \ {{}, wish}
  /\ Cardinality(wish') <= 2
  /\ UNCHANGED <<listed, asking, answers, keptQuotes>>

DeleteVariant(v) ==
  /\ Turn
  /\ v \in listed
  /\ listed' = listed \ {v}
  /\ UNCHANGED <<wish, asking, answers, keptQuotes>>

\* getShippingQuote up to the call to CJ; a line nothing fits is refused.
getShippingQuote ==
  /\ asking = Unknown /\ Len(answers) < MaxQuotes
  /\ \E f \in Resolutions : asking' = {f[c] : c \in wish}
  /\ order' = Unknown
  /\ UNCHANGED <<wish, listed, answers, keptQuotes, turns>>

\* The options are kept and answered; that Redis fails stops nobody.
Answer(freight) ==
  /\ asking # Unknown
  /\ \E options \in Offered(asking, freight) :
       answers' = Append(answers, [options |-> options, age |-> 0])
  /\ \E life \in {0, QuoteTTL} : keptQuotes' = Append(keptQuotes, life)
  /\ asking' = Unknown
  /\ order' = Unknown
  /\ UNCHANGED <<wish, listed, turns>>

\* Mutant of resolveQuotedShipping: an option of another name will do.
resolveAnyShipping(q, name) ==
  IF keptQuotes[q] = 0 THEN {}
  ELSE LET named == {o \in {answers[q].options[i] : i \in DOMAIN answers[q].options} :
                       o.name = name}
       IN  IF named = {} THEN {answers[q].options[1]} ELSE named

resolveQuotedShipping(q, name) ==
  IF keptQuotes[q] = 0 THEN {}
  ELSE IF name = Unknown THEN {answers[q].options[1]}
  ELSE {o \in {answers[q].options[i] : i \in DOMAIN answers[q].options} : o.name = name}

\* checkoutDirect with quote q, 0 for none, and the name of an option or none:
\* without a quote nothing is charged for shipping.
checkoutDirect(q, name) ==
  /\ \E f \in Resolutions :
       \/ q = 0 /\ order' = [lines |-> f, quote |-> 0, name |-> Unknown, shipping |-> 0]
       \/ /\ q > 0
          /\ \E o \in resolveQuotedShipping(q, name) :
               order' = [lines |-> f, quote |-> q, name |-> name, shipping |-> o.price]
  /\ UNCHANGED <<wish, listed, asking, answers, keptQuotes, turns>>

Wait ==
  /\ \E q \in DOMAIN keptQuotes : keptQuotes[q] > 0
  /\ keptQuotes' = [q \in DOMAIN keptQuotes |->
                      IF keptQuotes[q] = 0 THEN 0 ELSE keptQuotes[q] - 1]
  /\ answers' = [q \in DOMAIN answers |-> [answers[q] EXCEPT
                   !.age = IF @ < QuoteTTL THEN @ + 1 ELSE @]]
  /\ order' = Unknown
  /\ UNCHANGED <<wish, listed, asking, turns>>

Names == UNION {{freight[i].name : i \in DOMAIN freight} : freight \in Freights}

CheckoutNext ==
  \/ \E c \in Choice : Choose(c)
  \/ \E v \in Variants : DeleteVariant(v)
  \/ getShippingQuote
  \/ \E freight \in Freights : Answer(freight)
  \/ \E q \in 0 .. Len(answers), name \in Names \cup {Flat.name, Unknown} : checkoutDirect(q, name)
  \/ Wait

-----------------------------------------------------------------------------
(***************************************************************************)
(* Properties.                                                             *)
(***************************************************************************)
\* If any option arrives in time this one does too, and none as fast is cheaper.
Best(options, i) ==
  \A j \in DOMAIN options :
    /\ InTime(options[j]) => InTime(options[i])
    /\ InTime(options[j]) = InTime(options[i]) => options[i].price <= options[j].price

\* Shipping is charged at a price the shopper was told less than a quote's
\* life ago, for the option that was named; when none was, for the cheapest of
\* those that arrive in time, if there is one.
ChargedAsTold ==
  order # Unknown /\ order.quote > 0 =>
    LET told == answers[order.quote]
    IN  /\ told.age < QuoteTTL
        /\ \E i \in DOMAIN told.options :
             /\ told.options[i].price = order.shipping
             /\ IF order.name = Unknown THEN Best(told.options, i) ELSE told.options[i].name = order.name

\* Every line of an order is for a variant of the colour and the size that
\* were asked for (order.service.ts: "resolves each requested
\* product+size+color straight to a CatalogProductVariant").
OrderedAsChosen ==
  order # Unknown =>
    \A c \in DOMAIN order.lines :
      /\ c.colour \in {Unknown, ColourOf[order.lines[c]]}
      /\ c.size \in {Unknown, SizeOf[order.lines[c]]}

=============================================================================
