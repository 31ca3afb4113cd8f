------------------------------ MODULE MC_Checkout ------------------------------
(***************************************************************************)
(* A customer's carts and orders over the promise of the inventory, and    *)
(* the inventory that is to keep it, on small instances.  They share no    *)
(* state, so a behaviour is one of a single part.                          *)
(***************************************************************************)
EXTENDS Checkout, Inventory, TLC

CONSTANTS c1, c2, c3

VARIABLE part

mcVars == <<part, shoppingVars, vars>>

MCInit ==
  /\ part \in {"orders", "stock"}
  /\ ShoppingInit /\ Init
  /\ part = "orders" => stock = [l \in Locations |-> NoRow]

MCNext ==
  \/ part = "orders" /\ ShoppingNext /\ UNCHANGED <<part, vars>>
  \/ part = "stock" /\ Next /\ UNCHANGED <<part, shoppingVars>>

MCSpec == MCInit /\ [][MCNext]_mcVars

MCShoppers == {c1, c2}
MCVariants == {"shirt", "mug"}
MCTracked == {"shirt"}
MCLevel == [v \in MCVariants |-> 1]
MCCoupons == {"SAVE"}
MCPromotions == {"welcome"}
MCUsageLimit == [o \in MCCoupons \cup MCPromotions |-> IF o = "SAVE" THEN 1 ELSE 2]

MCClerks == {c1, c2, c3}
MCLocations == {"main"}
MCQuantities == {1, 2}
MCLevels == {0, 2}

\* Two of the requests are interchangeable in either part: no action or
\* property names one.
MCSymmetry == Permutations(MCShoppers)

=============================================================================
