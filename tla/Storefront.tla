------------------------------ MODULE Storefront ------------------------------
(***************************************************************************)
(* A storefront page and one of its sections: what the merchant arranges   *)
(* (the page, the section and its pins), the strategies that fill a        *)
(* section, and the results kept in Redis for the section's cacheMinutes.  *)
(* Nothing takes a kept result back when the section or a product changes. *)
(*                                                                         *)
(* A request reads the page with its section and pins, then looks for a    *)
(* kept result, then reads the products, then keeps what it built.         *)
(***************************************************************************)
EXTENDS Naturals, Sequences, FiniteSets, SequencesExt

CONSTANTS
  Visitors,
  Items,            \* the tenant's products
  Newest,           \* all of them, latest first
  Featured,         \* those flagged
  BestSelling,      \* those with a sales row, most sold first
  Curated,          \* products of the linked collection's items, in their order
  CategoryOf,       \* product -> category
  Everywhere,       \* the context of a page that is for no category
  Strategies, Sizes, Lives, Positions,    \* what a merchant may choose
  Nothing,
  MaxSections,      \* bound: sections created
  MaxChanges        \* bound: changes by merchants

ASSUME StorefrontAssumption ==
  /\ IsFiniteSet(Items)
  /\ {Newest, BestSelling, Curated} \subseteq Seq(Items)
  /\ Sizes \subseteq Nat /\ Lives \subseteq Nat /\ Positions \subseteq Nat \ {0}
  /\ MaxSections \in Nat

Places == {CategoryOf[p] : p \in Items} \cup {Everywhere}
Keys == (1 .. MaxSections) \X Places

VARIABLES
  page,             \* "published", "hidden", "deleted"
  section,          \* the section's row, or Nothing
  made,             \* sections created so far: the last one's id
  pins,             \* product -> position it is pinned at, 0 if it is not
  onSale,           \* products that are PUBLISHED and not deleted
  offSaleFor,       \* product -> minutes since it was last on sale
  kept,             \* key -> [result, left] in Redis, or Nothing
  visit,            \* visitor -> the request under way, or Nothing
  shown,            \* the section a visitor has just been shown, or Nothing
  changes

arranged == <<page, section, made, pins>>
storefrontVars == <<arranged, onSale, offSaleFor, kept, visit, shown, changes>>

StorefrontInit ==
  /\ page = "published"
  /\ section = Nothing /\ made = 0
  /\ pins = [p \in Items |-> 0]
  /\ onSale = Items
  /\ offSaleFor = [p \in Items |-> 0]
  /\ kept = [k \in Keys |-> Nothing]
  /\ visit = [v \in Visitors |-> Nothing]
  /\ shown = Nothing
  /\ changes = 0

-----------------------------------------------------------------------------
(***************************************************************************)
(* The merchant.                                                           *)
(***************************************************************************)
Changed == changes < MaxChanges /\ changes' = changes + 1 /\ shown' = Nothing

SectionRow == [strategy : Strategies, maxItems : Sizes, cacheMinutes : Lives,
         context : Places, isEnabled : BOOLEAN]

\* updatePage; a page that is deleted takes its sections and their pins along.
updatePage ==
  /\ Changed
  /\ page # "deleted"
  /\ page' = IF page = "published" THEN "hidden" ELSE "published"
  /\ UNCHANGED <<section, made, pins, onSale, offSaleFor, kept, visit>>

deletePage ==
  /\ Changed
  /\ page # "deleted"
  /\ page' = "deleted"
  /\ section' = Nothing
  /\ pins' = [p \in Items |-> 0]
  /\ UNCHANGED <<made, onSale, offSaleFor, kept, visit>>

createPage ==
  /\ Changed
  /\ page = "deleted"
  /\ page' = "published"
  /\ UNCHANGED <<section, made, pins, onSale, offSaleFor, kept, visit>>

createSection(row) ==
  /\ Changed
  /\ page # "deleted"
  /\ section = Nothing /\ made < MaxSections
  /\ section' = row
  /\ made' = made + 1
  /\ UNCHANGED <<page, pins, onSale, offSaleFor, kept, visit>>

\* Any part of the row; two parts at once are two updates here.
updateSection(row) ==
  /\ Changed
  /\ section # Nothing
  /\ \E part \in DOMAIN row : row = [section EXCEPT ![part] = row[part]]
  /\ row # section
  /\ section' = row
  /\ UNCHANGED <<page, made, pins, onSale, offSaleFor, kept, visit>>

deleteSection ==
  /\ Changed
  /\ section # Nothing
  /\ section' = Nothing
  /\ pins' = [p \in Items |-> 0]
  /\ UNCHANGED <<page, made, onSale, offSaleFor, kept, visit>>

\* An upsert: a product that is pinned already moves.
addPinnedItem(p, position) ==
  /\ Changed
  /\ section # Nothing
  /\ pins' = [pins EXCEPT ![p] = position]
  /\ UNCHANGED <<page, section, made, onSale, offSaleFor, kept, visit>>

removePinnedItem(p) ==
  /\ Changed
  /\ section # Nothing
  /\ pins' = [pins EXCEPT ![p] = 0]
  /\ UNCHANGED <<page, section, made, onSale, offSaleFor, kept, visit>>

\* A product is published, taken back or deleted.
SwitchProduct(p) ==
  /\ Changed
  /\ onSale' = IF p \in onSale THEN onSale \ {p} ELSE onSale \cup {p}
  /\ offSaleFor' = [offSaleFor EXCEPT ![p] = 0]
  /\ UNCHANGED <<arranged, kept, visit>>

-----------------------------------------------------------------------------
(***************************************************************************)
(* The strategies.                                                         *)
(***************************************************************************)
\* The elements of a sequence that are in S, in their order.
Those(seq, S) ==
  LET upTo[n \in 0 .. Len(seq)] ==
        IF n = 0 THEN << >>
        ELSE IF seq[n] \in S THEN Append(upTo[n - 1], seq[n]) ELSE upTo[n - 1]
  IN  upTo[Len(seq)]

First(n, seq) == SubSeq(seq, 1, IF n < Len(seq) THEN n ELSE Len(seq))

\* pinnedItems, by position; those at one position in any order.
PinnedOrders ==
  LET pinned == {p \in Items : pins[p] > 0}
  IN  {o \in SetToSeqs(pinned) :
         \A i, j \in DOMAIN o : i < j => pins[o[i]] <= pins[o[j]]}

FeaturedStrategy == Those(Newest, onSale \cap Featured)

NewArrivalStrategy(context) ==
  Those(Newest, {p \in onSale : context \in {Everywhere, CategoryOf[p]}})

\* Whatever their products have become since they were sold.
BestSellerStrategy == BestSelling

\* RECOMMENDED comes down to BEST_SELLERS, TRENDING is its text once more, and
\* MANUAL and FLASH_SALE add nothing to what is pinned.
Candidates(strategy, context) ==
  CASE strategy = "FEATURED" -> FeaturedStrategy
    [] strategy = "NEW_ARRIVALS" -> NewArrivalStrategy(context)
    [] strategy \in {"BEST_SELLERS", "TRENDING", "RECOMMENDED"} -> BestSellerStrategy
    [] OTHER -> << >>

\* The pinned products that fit, then the strategy's others for what is left;
\* none of the pinned ones again, the ones that did not fit included.
Filled(row, pinned, context) ==
  LET first == First(row.maxItems, pinned)
      others == Those(Candidates(row.strategy, context), Items \ ToSet(pinned))
  IN  [pinned |-> Len(first), products |-> first \o First(row.maxItems - Len(first), others)]

CollectionStrategy(row) == [pinned |-> 0, products |-> First(row.maxItems, Curated)]

\* buildSection's result.
Result(row, pinned, context) ==
  LET filled == IF row.strategy = "COLLECTION" THEN CollectionStrategy(row) ELSE Filled(row, pinned, context)
  IN  [context |-> context, strategy |-> row.strategy, maxItems |-> row.maxItems,
       pinned |-> filled.pinned, products |-> filled.products]

-----------------------------------------------------------------------------
(***************************************************************************)
(* A request.                                                              *)
(***************************************************************************)
\* The orders the pins of the section may come in, if the page shows it.
findPageWithSections(context) ==
  IF page = "published" /\ section # Nothing /\ section.isEnabled /\ section.context = context
    THEN PinnedOrders ELSE {}

getPage(v, context) ==
  /\ visit[v] = Nothing
  /\ \E pinned \in findPageWithSections(context) :
       visit' = [visit EXCEPT ![v] = [at |-> "look", id |-> made, row |-> section,
                                      pinned |-> pinned, context |-> context, result |-> Nothing]]
  /\ shown' = Nothing
  /\ UNCHANGED <<arranged, onSale, offSaleFor, kept, changes>>

\* Mutant of buildCacheKey: one result for all contexts.
ContextlessKey(id, context) == <<id, Everywhere>>

buildCacheKey(id, context) == <<id, context>>

Key(q) == buildCacheKey(q.id, q.context)

Show(v, result) ==
  /\ visit' = [visit EXCEPT ![v] = Nothing]
  /\ shown' = [result EXCEPT !.context = visit[v].context]

\* A kept result is shown as it is.
Recall(v) ==
  /\ visit[v] # Nothing
  /\ LET q == visit[v]
     IN  /\ q.at = "look"
         /\ q.row.cacheMinutes > 0
         /\ kept[Key(q)] # Nothing
         /\ Show(v, kept[Key(q)].result)
  /\ UNCHANGED <<arranged, onSale, offSaleFor, kept, changes>>

\* Nothing is kept, or nothing is to be.
Look(v) ==
  /\ visit[v] # Nothing
  /\ LET q == visit[v]
     IN  /\ q.at = "look"
         /\ q.row.cacheMinutes = 0 \/ kept[Key(q)] = Nothing
  /\ visit' = [visit EXCEPT ![v].at = "build"]
  /\ shown' = Nothing
  /\ UNCHANGED <<arranged, onSale, offSaleFor, kept, changes>>

Built(q) == Result(q.row, q.pinned, q.context)

buildSection(v) ==
  /\ visit[v] # Nothing
  /\ LET q == visit[v]
     IN  /\ q.at = "build"
         /\ IF q.row.cacheMinutes = 0
              THEN Show(v, Built(q))
              ELSE /\ visit' = [visit EXCEPT ![v].result = Built(q), ![v].at = "keep"]
                   /\ shown' = Nothing
  /\ UNCHANGED <<arranged, onSale, offSaleFor, kept, changes>>

\* Mutant of Lapse: a result is kept until somebody deletes it.
NoLapse(minutes) == 99

Lapse(minutes) == minutes

\* CacheUtil.set; that it fails stops nobody.
Keep(v) ==
  /\ visit[v] # Nothing
  /\ LET q == visit[v]
     IN  /\ q.at = "keep"
         /\ Show(v, q.result)
         /\ kept' \in {kept, [kept EXCEPT ![Key(q)] =
                               [result |-> q.result, left |-> Lapse(q.row.cacheMinutes)]]}
  /\ UNCHANGED <<arranged, onSale, offSaleFor, changes>>

\* Counted no further than the longest life.
Older(n) == IF \E life \in Lives : n < life THEN n + 1 ELSE n

\* A minute; requests are over within one.
Minute ==
  /\ \A v \in Visitors : visit[v] = Nothing
  /\ \E k \in Keys : kept[k] # Nothing
  /\ offSaleFor' = [p \in Items |-> IF p \in onSale THEN 0 ELSE Older(offSaleFor[p])]
  /\ kept' = [k \in Keys |->
       IF kept[k] = Nothing \/ kept[k].left = 1 THEN Nothing ELSE [kept[k] EXCEPT !.left = @ - 1]]
  /\ shown' = Nothing
  /\ UNCHANGED <<arranged, onSale, visit, changes>>

Arrange ==
  \/ updatePage \/ deletePage \/ createPage
  \/ \E row \in SectionRow : createSection(row) \/ updateSection(row)
  \/ deleteSection
  \/ \E p \in Items : \/ \E position \in Positions : addPinnedItem(p, position)
                      \/ removePinnedItem(p)
                      \/ SwitchProduct(p)

StorefrontNext ==
  \/ Arrange
  \/ \E v \in Visitors :
       \/ \E context \in Places : getPage(v, context)
       \/ Recall(v) \/ Look(v) \/ buildSection(v) \/ Keep(v)
  \/ Minute

-----------------------------------------------------------------------------
(***************************************************************************)
(* Property.                                                               *)
(***************************************************************************)
\* The products a section adds by itself were on sale within the longest time
\* a result may be kept, and on a category's page the new arrivals are that
\* category's, whatever page the section was on when the result was kept.
ArrivalsAreRecent ==
  shown # Nothing /\ shown.strategy \in {"NEW_ARRIVALS", "FEATURED"} =>
    \A i \in shown.pinned + 1 .. Len(shown.products) :
      LET p == shown.products[i]
      IN  /\ offSaleFor[p] = 0 \/ \E life \in Lives : offSaleFor[p] < life
          /\ shown.strategy = "NEW_ARRIVALS" => shown.context \in {Everywhere, CategoryOf[p]}

=============================================================================
