-------------------------------- MODULE Listing -------------------------------
(***************************************************************************)
(* What a shopper browses: a store's categories, with the walk over them   *)
(* that a listing of one category makes, a level and a query at a time,    *)
(* while they are edited; and the listing itself with the choices its      *)
(* sidebar offers (ProductRepository.buildWhere and getFacets), over a     *)
(* catalog at rest.                                                        *)
(***************************************************************************)
EXTENDS Naturals, FiniteSets, FiniteSetsExt

CONSTANTS
  Categories,         \* by their slug
  Shoppers,           \* listings in progress
  MaxWalks,           \* bound: listings
  Absent, Top         \* no such category; no parent

VARIABLES
  above,              \* category -> its parent, Top or Absent
  walk,               \* shopper -> the level findDescendantCategoryIds is at; {}: none
  walks               \* how much of the bound is used up

treeVars == <<above, walk, walks>>

TreeInit ==
  /\ above = [k \in Categories |-> Absent]
  /\ walk = [s \in Shoppers |-> {}]
  /\ walks = 0

Edit == UNCHANGED <<walk, walks>>

\* A parent has to be there when the row is written: it is a foreign key.
MayParent(up) == up \in {Top} \cup {k \in Categories : above[k] # Absent}

\* The rows after one is created or updated, or deleted for good.
Written(k, up) == [above EXCEPT ![k] = up]
Erased(k) == [above EXCEPT ![k] = Absent]

\* createCategory; findOrCreateByName has no parent to give.
CreateCategory(k, up) ==
  /\ Edit
  /\ above[k] = Absent /\ up # k /\ MayParent(up)
  /\ above' = Written(k, up)

\* A category cannot be its own parent; one of its descendants can be.
UpdateCategory(k, up) ==
  /\ Edit
  /\ above[k] # Absent /\ up # k /\ MayParent(up)
  /\ above' = Written(k, up)

\* Refused while it has subcategories (or products, which are not modelled).
DeleteCategory(k) ==
  /\ Edit
  /\ above[k] # Absent
  /\ \A j \in Categories : above[j] # k
  /\ above' = Erased(k)

\* listProducts finds the category by its slug.
ListCategory(s, k) ==
  /\ walk[s] = {} /\ walks < MaxWalks
  /\ above[k] # Absent
  /\ walk' = [walk EXCEPT ![s] = {k}]
  /\ walks' = walks + 1
  /\ UNCHANGED above

Below(level) == {k \in Categories : above[k] \in level}

\* Mutant of NextLevel: the ids found so far are walked again.
NextLevelOfAll(s) ==
  /\ walk[s] # {}
  /\ walk' = [walk EXCEPT ![s] = IF Below(@) = {} THEN {} ELSE @ \cup Below(@)]
  /\ UNCHANGED <<above, walks>>

\* One turn of the loop in findDescendantCategoryIds.
NextLevel(s) ==
  /\ walk[s] # {}
  /\ walk' = [walk EXCEPT ![s] = Below(@)]
  /\ UNCHANGED <<above, walks>>

TreeNext ==
  \/ \E k \in Categories :
       \/ \E up \in Categories \cup {Top} : CreateCategory(k, up) \/ UpdateCategory(k, up)
       \/ DeleteCategory(k)
       \/ \E s \in Shoppers : ListCategory(s, k)
  \/ \E s \in Shoppers : NextLevel(s)

\* The loop goes on as soon as its query is answered.
TreeFairness == \A s \in Shoppers : WF_treeVars(NextLevel(s))

\* Some category is its own ancestor.
Cyclic ==
  \E loop \in SUBSET Categories \ {{}} : \A k \in loop : above[k] \in loop

\* The clerks leave the categories as they are from some moment on.
EditsEnd == <>[][UNCHANGED above]_treeVars

(***************************************************************************)
(* findDescendantCategoryIds: the walk keeps no set of what it has seen,   *)
(* so it ends only because the categories are a tree that stands still: a  *)
(* clerk who goes on moving categories can keep them ahead of it for ever. *)
(* However the categories are created, moved and deleted while it is under *)
(* way, once that has ended every listing ends too, unless somebody has    *)
(* moved a category below itself, which updateCategory lets through.       *)
(***************************************************************************)
EveryWalkEnds == EditsEnd => \A s \in Shoppers : walk[s] # {} ~> walk[s] = {} \/ Cyclic

-----------------------------------------------------------------------------
CONSTANTS
  Shelves,            \* catalogs: sets of [id, brand, price, category, shown, variants]
  Brands, Colors, Sizes, Prices, ListedCategories,
  Anything, Nobody         \* no filter, no bound; without a brand, a price; no listing asked for

\* No choice of brands, colours or sizes is no filter; a category that does not exist
\* is one that nothing passes.  Season and search words narrow as the category does.
Filters ==
  [brands : SUBSET Brands, colors : SUBSET Colors, sizes : SUBSET Sizes,
   least : Prices \cup {Anything}, most : Prices \cup {Anything}, categories : {Anything} \cup SUBSET ListedCategories]

ASSUME ListingAssumption ==
  /\ Prices \subseteq Nat /\ IsFiniteSet(Prices)
  /\ \A goods \in Shelves : \A p \in goods : p.price \in Prices \cup {Nobody}
  /\ Nobody \notin Filters

VARIABLES
  shelf,              \* the store's products
  filters             \* what the shopper has chosen

shelfVars == <<shelf, filters>>

ShelfInit == shelf \in Shelves /\ filters = Nobody

\* Bound: one listing.
Choose(f) == filters = Nobody /\ filters' = f /\ UNCHANGED shelf

\* Deleted variants count: the conditions do not leave them out.
HasColor(p, cs) == \E v \in p.variants : v.color \in cs
HasSize(p, ss) == \E v \in p.variants : v.size \in ss

\* A product without a price passes no bound.
InPrice(p, f) ==
  /\ f.least # Anything => p.price # Nobody /\ p.price >= f.least
  /\ f.most # Anything => p.price # Nobody /\ p.price <= f.most

InCategory(p, f) == f.categories # Anything => p.category \in f.categories

\* buildWhere.  A colour and a size may be those of two different variants.
Passes(p, f) ==
  /\ p.shown
  /\ InCategory(p, f) /\ InPrice(p, f)
  /\ f.brands # {} => p.brand \in f.brands
  /\ f.colors # {} => HasColor(p, f.colors)
  /\ f.sizes # {} => HasSize(p, f.sizes)

Listed(f) == {p \in shelf : Passes(p, f)}

\* getFacets: the condition "brand is not null" takes the place of the chosen brands.
BrandFacet(f) == {p.brand : p \in Listed([f EXCEPT !.brands = {}])} \ {Nobody}

\* Mutant of ColorFacet: any variant's colour is offered.
ColorFacetOfAll(f) == UNION {{v.color : v \in p.variants} : p \in shelf}

ColorFacet(f) == UNION {{v.color : v \in p.variants} : p \in Listed(f)}
SizeFacet(f) == UNION {{v.size : v \in p.variants} : p \in Listed(f)}

\* The slider's ends leave out its own position.
PriceFacet(f) == {p.price : p \in Listed([f EXCEPT !.least = Anything, !.most = Anything])} \ {Nobody}

ShelfNext == \E f \in Filters : Choose(f)

(***************************************************************************)
(* getFacets: the sidebar only offers choices that exist in the current    *)
(* selection.  Adding any offered brand, colour or size to the filters, or *)
(* moving the price to an end of the slider, finds a product.              *)
(***************************************************************************)
OfferedChoicesFind ==
  filters # Nobody =>
    /\ \A b \in BrandFacet(filters) : Listed([filters EXCEPT !.brands = @ \cup {b}]) # {}
    /\ \A c \in ColorFacet(filters) : Listed([filters EXCEPT !.colors = @ \cup {c}]) # {}
    /\ \A s \in SizeFacet(filters) : Listed([filters EXCEPT !.sizes = @ \cup {s}]) # {}
    /\ PriceFacet(filters) # {} =>
         /\ Listed([filters EXCEPT !.least = Anything, !.most = Min(PriceFacet(filters))]) # {}
         /\ Listed([filters EXCEPT !.most = Anything, !.least = Max(PriceFacet(filters))]) # {}

=============================================================================
