------------------------------ MODULE MC_Catalog ------------------------------
(***************************************************************************)
(* The catalog's parts, and the seed that first fills them, on small       *)
(* instances.  Products, categories, collections, one gallery, the listing *)
(* and the seed share no row that these models keep, so a behaviour is one *)
(* of a single part.                                                       *)
(***************************************************************************)
EXTENDS Catalog, Collections, Gallery, Listing, Seed, TLC

CONSTANTS c1, c2

VARIABLE part

mcVars == <<part, catalogVars, treeVars, lookVars, galleryVars, shelfVars, seedVars>>

\* An item under one name or another, with one variant or two, dearer or cheaper.
Coat == [slug |-> "coat", cost |-> "s" :> 1000 @@ "m" :> 2000]
MCOffers == {Coat, [slug |-> "parka", cost |-> "s" :> 2000],
             [slug |-> "coat", cost |-> "m" :> None @@ NoId :> 500]}

\* The supplier has dropped them all.
MCEmptied == MCOffers \cup {[slug |-> "coat", cost |-> NoId :> 500]}

MCKinds == {"rules", "products", "imports", "supplier"}
Mix(rules, products, imports, supplier) ==
  ("rules" :> rules) @@ ("products" :> products) @@ ("imports" :> imports)
    @@ ("supplier" :> supplier)
MCMixes == {Mix(0, 0, 0, 0), Mix(2, 0, 1, 0), Mix(1, 2, 0, 0), Mix(0, 1, 2, 1), Mix(1, 0, 2, 1)}

MCInit ==
  /\ part \in {"products", "categories", "collections", "gallery", "listing", "seed"}
  /\ Init /\ TreeInit /\ LookInit /\ GalleryInit /\ ShelfInit /\ SeedInit
  /\ part = "products" <=> left # Mix(0, 0, 0, 0)
  /\ part # "products" => \A i \in Items : offer[i] = Coat
  /\ part = "listing" <=> shelf # {}

MCNext ==
  \/ /\ part = "products" /\ Next
     /\ UNCHANGED <<part, treeVars, lookVars, galleryVars, shelfVars, seedVars>>
  \/ /\ part = "categories" /\ TreeNext
     /\ UNCHANGED <<part, catalogVars, lookVars, galleryVars, shelfVars, seedVars>>
  \/ /\ part = "collections" /\ LookNext
     /\ UNCHANGED <<part, catalogVars, treeVars, galleryVars, shelfVars, seedVars>>
  \/ /\ part = "gallery" /\ GalleryNext
     /\ UNCHANGED <<part, catalogVars, treeVars, lookVars, shelfVars, seedVars>>
  \/ /\ part = "listing" /\ ShelfNext
     /\ UNCHANGED <<part, catalogVars, treeVars, lookVars, galleryVars, seedVars>>
  \/ /\ part = "seed" /\ SeedNext
     /\ UNCHANGED <<part, catalogVars, treeVars, lookVars, galleryVars, shelfVars>>

MCSpec == MCInit /\ [][MCNext]_mcVars /\ TreeFairness

-----------------------------------------------------------------------------
MCOwnerOf == [r \in Rules |-> "fashion"]
MCGiven == ("a" :> [markup |-> 50, minimum |-> 0, sale |-> None, default |-> TRUE])
             @@ ("b" :> [markup |-> 100, minimum |-> 0, sale |-> None, default |-> FALSE])

MCOwnerOfPicture == [m \in Pictures |-> IF m = "worn" THEN "red" ELSE Product]

Half == [type |-> "PERCENTAGE", value |-> 50, window |-> "coming"]
Off == [type |-> "FIXED_AMOUNT", value |-> 700, window |-> "open"]
MCSales == {None, Half, Off}

MCPieces == {[product |-> "coat", variant |-> "coat-s"], [product |-> "hat", variant |-> "none"]}

Ware(brand, price, category, shown, variants) ==
  [brand |-> brand, price |-> price, category |-> category, shown |-> shown,
   variants |-> {[color |-> v[1], size |-> v[2]] : v \in variants}]
RedCoat == Ware("acme", 10, "men", TRUE, {<<"red", "s">>, <<"blue", "m">>})
BlueHat == Ware("bolt", 20, "men", TRUE, {<<"blue", "s">>})
PlainBag == Ware(Nobody, 20, Nobody, TRUE, {})
Draft == Ware("acme", 10, "men", FALSE, {<<"green", "s">>})
Unpriced == Ware("bolt", Nobody, "men", TRUE, {<<"red", "m">>})
MCShelves == {{}, {RedCoat}, {RedCoat, BlueHat, Draft}, {BlueHat, PlainBag, Unpriced}}
=============================================================================
