----------------------------- MODULE MC_Storefront -----------------------------
(***************************************************************************)
(* What a shopper meets, on small instances: the pages of the storefront   *)
(* and their kept sections, the electronics listing, the attributes behind *)
(* the filters, campaigns as staff edit them, the quotes and lines of a    *)
(* direct checkout, and the price of an order.  The parts share no state   *)
(* in these models, so a behaviour is one of a single part; the others     *)
(* stay at one of their initial states.                                    *)
(***************************************************************************)
EXTENDS PromotionStack, Storefront, Campaigns, DirectCheckout, Electronics, Attributes, TLC

CONSTANTS none, u1, u2, p1, p2

\* The visitors of the pages, the editors of the campaigns, the staff of the
\* catalog: any two of each.
MCUsers == {u1, u2}
MCSymmetry == Permutations(MCUsers)

VARIABLE part

pricingVars == <<vars, cart, first>>

mcVars == <<part, pricingVars, storefrontVars, campaignVars, checkoutVars, electronicsVars, attributeVars>>

MCInit ==
  /\ part \in {"pages", "campaigns", "checkout", "listing", "sourcing", "attributes", "pricing"}
  /\ StorefrontInit /\ CampaignInit /\ AttributeInit
  /\ PricingInit /\ CheckoutInit /\ ElectronicsInit
  /\ part # "pricing" => cart = <<>> /\ coupon = 0 /\ quote = 0 /\ offers = <<>> /\ first
  /\ part # "checkout" => wish = {CHOOSE c \in Choice : TRUE}
  /\ part \notin {"listing", "sourcing"} => \A i \in Goods : goods[i] \in {Absent} \/ goods[i].price = 10

Pages == StorefrontNext /\ UNCHANGED <<pricingVars, campaignVars, checkoutVars, electronicsVars, attributeVars>>
Marketing == CampaignNext /\ UNCHANGED <<pricingVars, storefrontVars, checkoutVars, electronicsVars, attributeVars>>
Ordering == CheckoutNext /\ UNCHANGED <<pricingVars, storefrontVars, campaignVars, electronicsVars, attributeVars>>
Labelling == AttributeNext /\ UNCHANGED <<pricingVars, storefrontVars, campaignVars, checkoutVars, electronicsVars>>
Pricing == PricingNext /\ UNCHANGED <<storefrontVars, campaignVars, checkoutVars, electronicsVars, attributeVars>>
Others == UNCHANGED <<pricingVars, storefrontVars, campaignVars, checkoutVars, attributeVars>>

MCNext ==
  /\ UNCHANGED part
  /\ \/ part = "pages" /\ Pages
     \/ part = "campaigns" /\ Marketing
     \/ part = "checkout" /\ Ordering
     \/ part = "listing" /\ ListingNext /\ Others
     \/ part = "sourcing" /\ SourcingNext /\ Others
     \/ part = "attributes" /\ Labelling
     \/ part = "pricing" /\ Pricing

MCSpec == MCInit /\ [][MCNext]_mcVars

-----------------------------------------------------------------------------
(* Carts, coupons and campaigns for the price.                             *)

Dollars(n) == n * 10000
Cents(n) == n * 100

Shirt(n) == [variant |-> "shirt-m", product |-> "shirt", category |-> "tops",
             collections |-> {"summer", "sale"}, quantity |-> n, price |-> Cents(1995)]
Mug == [variant |-> "mug", product |-> "mug", category |-> none,
        collections |-> {}, quantity |-> 1, price |-> Cents(705)]

MCCarts == {<<>>, <<Shirt(1)>>, <<Shirt(2), Mug>>}

MCCoupons ==
  {none,
   [type |-> "PERCENTAGE", value |-> 15, maxDiscount |-> none],
   [type |-> "PERCENTAGE", value |-> 50, maxDiscount |-> Dollars(5)],
   [type |-> "FIXED_AMOUNT", value |-> Dollars(30), maxDiscount |-> none]}

Reward(type, value, cap) == [type |-> type, value |-> value, maxDiscount |-> cap]

Campaign(rules, targets, rewards) ==
  [rules |-> rules, targets |-> targets, rewards |-> rewards]

MCCampaigns ==
  {Campaign({}, {}, <<Reward("PERCENTAGE_OFF", 80, none)>>),
   Campaign({[type |-> "MIN_CART_TOTAL", min |-> Dollars(40)]},
            {[type |-> "COLLECTION", id |-> "summer"], [type |-> "CATEGORY", id |-> "tops"]},
            <<Reward("PERCENTAGE_OFF", 30, Dollars(10)), Reward("FIXED_AMOUNT_OFF", Dollars(3), none)>>),
   Campaign({[type |-> "MIN_QUANTITY", min |-> 2]}, {[type |-> "VARIANT", id |-> "mug"]},
            <<Reward("FIXED_AMOUNT_OFF", Dollars(20), none)>>),
   Campaign({}, {[type |-> "PRODUCT", id |-> "mug"]}, <<Reward("FREE_SHIPPING", 0, none)>>),
   Campaign({[type |-> "FIRST_ORDER", min |-> none]}, {[type |-> "ALL", id |-> none]},
            <<Reward("PERCENTAGE_OFF", 50, none), Reward("FREE_SHIPPING", 0, none)>>),
   Campaign({[type |-> "MIN_CART_TOTAL", min |-> none]}, {}, <<Reward("BUY_X_GET_Y", 1, none)>>)}

\* Any three of them, in any order.
MCQueues ==
  {<<>>} \cup {q \in [1 .. 3 -> MCCampaigns] : \A i, j \in 1 .. 3 : i # j => q[i] # q[j]}

MCQuotes == {0, Dollars(4)}

-----------------------------------------------------------------------------
(* Pages, campaigns, quotes.                                               *)

MCNewest == <<3, 2, 1>>
MCBest == <<1, 3>>
MCCurated == <<2, 2, 1>>
MCCategory == (1 :> "shoes" @@ 2 :> "hats" @@ 3 :> "shoes")

MCIds == {p1, p2}
MCCodes == [sale |-> {"SALE", "sale"}]

Sent(code, status, start, end, kids) ==
  [code |-> code, status |-> status, start |-> start, end |-> end, children |-> kids]

MCBodies ==
  {Sent("SALE", "ACTIVE", 1, 2, {"a", "b"}), Sent("sale", "DRAFT", Unsent, Unsent, {"a"}),
   Sent(Unsent, "ACTIVE", 2, Unsent, Unsent), Sent("sale", Unsent, Unsent, 1, {"b"}),
   Sent(NoCode, "DRAFT", NoDate, NoDate, {}), Sent(Unsent, Unsent, 2, 1, {"b"})}

Option(name, price, days) == [name |-> name, price |-> price, days |-> days]

MCFlat == Option("standard", 9, Unknown)
MCFreights ==
  {<<>>, <<Option("slow", 2, 20), Option("fast", 5, 9)>>,
   <<Option("mid", 4, 14), Option("fast", 3, 9), Option("sea", 1, Unknown)>>}
MCColour == (1 :> "red" @@ 2 :> "blue" @@ 3 :> "red")
MCSize == (1 :> "M" @@ 2 :> "M" @@ 3 :> "S")

-----------------------------------------------------------------------------
(* The electronics store and the attributes.                               *)

MCSlugs == <<"audio", "mice">>
MCParent == ("audio" :> Absent @@ "mice" :> Absent @@ "buds" :> "audio")
MCSearches == ("audio" :> <<"cj1", "cj2">> @@ "mice" :> <<"mouse">>)
MCFinds == ("cj1" :> <<1>> @@ "cj2" :> <<2>> @@ "mouse" :> <<2, 1>>)
MCCjCategory == (1 :> "toys" @@ 2 :> "cj2")
MCFiled == (1 :> "buds" @@ 2 :> Absent)

MCAttributes == <<"color", "size">>
=============================================================================
