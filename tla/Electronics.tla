------------------------------ MODULE Electronics ------------------------------
(***************************************************************************)
(* The electronics store (modules/electronics): its listing, which a       *)
(* shopper pages through while goods are imported, categories moved and    *)
(* products deleted, and the sourcing of its goods from CJ, by staff one   *)
(* at a time and by the bulk script scripts/import-electronics-from-cj.ts. *)
(*                                                                         *)
(* One listing request reads the categories, then the page's products,     *)
(* their total and the sidebar's counts, each by a query of its own and in *)
(* any order.  A price cap stands for every filter that the listing and    *)
(* the counts share (price range, search words).                           *)
(***************************************************************************)
EXTENDS Naturals, Sequences, FiniteSets, SequencesExt

CONSTANTS Slugs,         \* the store's categories that source from CJ, in the script's order
          Branches,      \* every category row of the store
          ParentAtFirst, \* the parent of each, or Absent
          Searches,      \* what finds a slug's goods at CJ: category ids, else keywords
          CjIds,         \* the searches that are CJ category ids
          Finds,         \* CJ's answer to each search, a sequence of items
          CjCategoryOf,  \* the CJ category of each item
          Goods,         \* CJ's items, numbers: the order of their products' ids
          FiledAtFirst,  \* where the goods imported before are filed; Absent for the others
          Prices,        \* the prices a product may have
          PerCategory,   \* the script's --per-category
          Limit,         \* products on a page
          MaxDepth,      \* the bound of the walk to a category's root
          Absent,
          MaxMoves       \* bound on the changes to the catalog

ASSUME ElectronicsAssumption ==
  /\ Limit \in Nat \ {0} /\ PerCategory \in Nat \ {0} /\ MaxDepth \in Nat /\ MaxMoves \in Nat
  /\ Goods \subseteq Nat /\ Prices \subseteq Nat
  /\ IsFiniteSet(Goods) /\ IsFiniteSet(Branches) /\ Absent \notin Branches
  /\ ToSet(Slugs) \subseteq Branches

Importers == {"script", "staff"}

VARIABLES
  parent,   \* the parent of each category
  gone,     \* the deleted categories
  active,   \* whether the store is ACTIVE
  goods,    \* the product of each item: its category, price and whether it is live; or Absent
  script,   \* the bulk script's run: the slugs left, the searches left, what it picked
            \* and what it imported so far; or Absent
  import,   \* the import each importer waits for: an item and a category, or Absent
  walk,     \* the shopper's walk through a listing, or Absent
  moves     \* changes so far

electronicsVars == <<parent, gone, active, goods, script, import, walk, moves>>

ElectronicsInit ==
  /\ parent = ParentAtFirst /\ gone = {} /\ active = TRUE
  /\ \E p \in Prices :
       goods = [i \in Goods |-> IF FiledAtFirst[i] = Absent THEN Absent
                                ELSE [category |-> FiledAtFirst[i], price |-> p, live |-> TRUE]]
  /\ script = Absent /\ import = [w \in Importers |-> Absent]
  /\ walk = Absent /\ moves = 0

\* A change to the catalog: a walk that is under way is no longer one of a
\* catalog that stands still.
Move ==
  /\ moves < MaxMoves /\ moves' = moves + 1
  /\ walk' = IF walk = Absent THEN Absent ELSE [walk EXCEPT !.still = FALSE]

-----------------------------------------------------------------------------
(* The category tree, as a listing reads it.                               *)

findCategories == [c \in Branches \ gone |-> parent[c]]

\* Mutant of ancestorChains: the walk stops at the direct parent.
ParentChains(tree) ==
  [c \in DOMAIN tree |-> IF tree[c] \in DOMAIN tree THEN <<c, tree[c]>> ELSE <<c>>]

\* Each category's chain, itself first and its root last.
ancestorChains(tree) ==
  [c \in DOMAIN tree |->
     LET chain[d \in 0 .. MaxDepth] ==
           IF d = 0 THEN <<c>>
           ELSE LET above == tree[Last(chain[d - 1])]
                IN IF above \in DOMAIN tree THEN Append(chain[d - 1], above) ELSE chain[d - 1]
     IN chain[MaxDepth]]

rootOf(tree, c) == IF c \in DOMAIN tree THEN Last(ancestorChains(tree)[c]) ELSE Absent

\* The selected category and all below it; everything when none is selected.
categoryIds(tree, selected) ==
  IF selected = Absent THEN Branches \cup {Absent}
  ELSE {c \in DOMAIN tree : selected \in ToSet(ancestorChains(tree)[c])}

-----------------------------------------------------------------------------
(* The three queries of a listing, on the products of the moment.          *)

OnShelf(i) == goods[i] # Absent /\ goods[i].live

buildWhere(categories, cap) ==
  {i \in Goods : OnShelf(i) /\ goods[i].category \in categories /\ goods[i].price <= cap}

\* Mutant of Ahead: products of one price come in no particular order.
AheadByPrice(i, j) == goods[i].price < goods[j].price

\* orderBy: the price, then the id.  The other sorts differ in the key alone.
Ahead(i, j) ==
  goods[i].price < goods[j].price \/ (goods[i].price = goods[j].price /\ i < j)

Sorted(S) == {s \in SetToSeqs(S) : \A m, n \in 1 .. Len(s) : m < n => ~Ahead(s[n], s[m])}

\* skip and take.
PageOf(s, page) ==
  LET to == page * Limit
  IN SubSeq(s, to - Limit + 1, IF to > Len(s) THEN Len(s) ELSE to)

\* A page that is missing from the request, or is no positive number, is the first.
parsePagination(raw) == IF raw > 0 THEN raw ELSE 1

buildPage(total) == (total + Limit - 1) \div Limit

countByCategory(cap) ==
  [c \in Branches \cup {Absent} |-> Cardinality(buildWhere({c}, cap))]

\* The counts beside the sidebar's categories, those with no parent of their own.
countByRoot(tree, counts) ==
  [r \in {c \in DOMAIN tree : tree[c] = Absent} |->
     SumFunctionOnSet(counts, {c \in Branches : rootOf(tree, c) = r})]

-----------------------------------------------------------------------------
(* A shopper pages through a listing.                                      *)

Asked == {"items", "total", "counts"}

listProducts(selected, cap) ==
  /\ walk = Absent
  /\ walk' = [selected |-> selected, cap |-> cap, page |-> parsePagination(0),
              tree |-> findCategories, waiting |-> Asked, seen |-> <<>>, total |-> 0,
              counts |-> Absent, still |-> TRUE]
  /\ UNCHANGED <<parent, gone, active, goods, script, import, moves>>

Scope == categoryIds(walk.tree, walk.selected)

findPage ==
  /\ walk # Absent /\ "items" \in walk.waiting
  /\ \E s \in Sorted(buildWhere(Scope, walk.cap)) :
       walk' = [walk EXCEPT !.waiting = @ \ {"items"}, !.seen = @ \o PageOf(s, walk.page)]
  /\ UNCHANGED <<parent, gone, active, goods, script, import, moves>>

findTotal ==
  /\ walk # Absent /\ "total" \in walk.waiting
  /\ walk' = [walk EXCEPT !.waiting = @ \ {"total"},
                          !.total = Cardinality(buildWhere(Scope, walk.cap))]
  /\ UNCHANGED <<parent, gone, active, goods, script, import, moves>>

findCounts ==
  /\ walk # Absent /\ "counts" \in walk.waiting
  /\ walk' = [walk EXCEPT !.waiting = @ \ {"counts"},
                          !.counts = countByRoot(walk.tree, countByCategory(walk.cap))]
  /\ UNCHANGED <<parent, gone, active, goods, script, import, moves>>

\* Every query answered: the shopper asks for the next page, if there is one.
NextPage ==
  /\ walk # Absent /\ walk.waiting = {} /\ walk.page < buildPage(walk.total)
  /\ walk' = [walk EXCEPT !.page = parsePagination(@ + 1), !.tree = findCategories, !.waiting = Asked]
  /\ UNCHANGED <<parent, gone, active, goods, script, import, moves>>

EndWalk ==
  /\ walk # Absent /\ walk.waiting = {} /\ walk' = Absent
  /\ UNCHANGED <<parent, gone, active, goods, script, import, moves>>

-----------------------------------------------------------------------------
(* Sourcing from CJ.                                                       *)

\* Nothing is sourced for a store that is not ACTIVE.
getElectronicsTenant == active

\* The CJ categories that any of the store's own categories draws from.
ElectronicsCjCategoryIds == UNION {ToSet(Searches[s]) \cap CjIds : s \in ToSet(Slugs)}

KeywordSourced(s) == ToSet(Searches[s]) \cap CjIds = {}


\* Which of some CJ items have a product here.  A soft-deleted one counts.
findImported(items) == {i \in items : goods[i] # Absent}

\* What CJ answers to the first page of a search, the imported ones left out.
searchCj(search, limit) ==
  LET page == SubSeq(Finds[search], 1, IF limit > Len(Finds[search]) THEN Len(Finds[search]) ELSE limit)
  IN SelectSeq(page, LAMBDA i : i \notin findImported(ToSet(page)))

\* Up to PerCategory items, none of them twice.
Pick(picked, items) ==
  LET more == picked \o SelectSeq(items, LAMBDA i : i \notin ToSet(picked))
  IN SubSeq(more, 1, IF PerCategory > Len(more) THEN Len(more) ELSE PerCategory)

\* npm run electronics:import --apply, for every category.
StartScript ==
  /\ script = Absent /\ getElectronicsTenant
  /\ script' = [slugs |-> Slugs, searches |-> Searches[Head(Slugs)], picked |-> <<>>, imported |-> {}]
  /\ UNCHANGED <<parent, gone, active, goods, import, walk, moves>>

\* findCandidates: the searches in order, until there are enough.  A store
\* that is suspended meanwhile ends the script.
findCandidates ==
  /\ script # Absent /\ script.searches # <<>>
  /\ script' = IF ~getElectronicsTenant THEN Absent
               ELSE LET picked == Pick(script.picked, searchCj(Head(script.searches), 2 * PerCategory))
                    IN [script EXCEPT !.picked = picked,
                                      !.searches = IF Len(picked) >= PerCategory THEN <<>> ELSE Tail(@)]
  /\ UNCHANGED <<parent, gone, active, goods, import, walk, moves>>

\* importFromCj begins: the store is active, the category found by its slug;
\* then CJ is asked for the item.
importFromCj(w, i, s) ==
  /\ import[w] = Absent /\ getElectronicsTenant /\ s \notin gone
  /\ import' = [import EXCEPT ![w] = [item |-> i, category |-> s]]

StaffImport(i, s) ==
  /\ importFromCj("staff", i, s)
  /\ UNCHANGED <<parent, gone, active, goods, script, walk, moves>>

\* The script imports what it picked one after another; an import that fails
\* is counted and the next one begins.
ScriptImport ==
  /\ script # Absent /\ script.searches = <<>> /\ script.picked # <<>>
  /\ import["script"] = Absent
  /\ script' = [script EXCEPT !.picked = Tail(@)]
  /\ \/ importFromCj("script", Head(script.picked), Head(script.slugs))
     \/ (~getElectronicsTenant \/ Head(script.slugs) \in gone) /\ UNCHANGED import
  /\ UNCHANGED <<parent, gone, active, goods, walk, moves>>

\* A category is done: the next one, or the end.
NextSlug ==
  /\ script # Absent /\ script.searches = <<>> /\ script.picked = <<>>
  /\ import["script"] = Absent
  /\ LET rest == Tail(script.slugs)
     IN script' = IF rest = <<>> THEN Absent
                  ELSE [script EXCEPT !.slugs = rest, !.searches = Searches[Head(rest)]]
  /\ UNCHANGED <<parent, gone, active, goods, import, walk, moves>>

\* Only what CJ files under a mapped category, unless CJ has none for the slug.
Allowed(i, s) == KeywordSourced(s) \/ CjCategoryOf[i] \in ElectronicsCjCategoryIds

\* The item arrives and importProduct writes its product: a new one live, one
\* that exists with a fresh price and category, still deleted if it was.
importProduct(w) ==
  /\ import[w] # Absent
  /\ LET job == import[w]
     IN /\ Allowed(job.item, job.category) /\ job.category \notin gone
        /\ \E p \in Prices :
             goods' = [goods EXCEPT ![job.item] =
                         [category |-> job.category, price |-> p,
                          live |-> IF @ = Absent THEN TRUE ELSE @.live]]
  /\ import' = [import EXCEPT ![w] = Absent]
  /\ script' = IF w = "script" THEN [script EXCEPT !.imported = @ \cup {import[w].item}] ELSE script
  /\ Move /\ UNCHANGED <<parent, gone, active>>

\* CJ has no such item or does not answer, it is not electronics, its
\* category was deleted meanwhile, or the transaction fails.
RefuseImport(w) ==
  /\ import[w] # Absent /\ import' = [import EXCEPT ![w] = Absent]
  /\ UNCHANGED <<parent, gone, active, goods, script, walk, moves>>

-----------------------------------------------------------------------------
(* What the shared administration does meanwhile.                          *)

\* Moving a category is refused only below itself, not below its descendants.
MoveCategory(c, p) ==
  /\ {c, p} \cap gone = {} /\ p # c /\ parent[c] # p
  /\ parent' = [parent EXCEPT ![c] = p]
  /\ Move /\ UNCHANGED <<gone, active, goods, script, import>>

\* The database keeps a category that has products, deleted ones too, or
\* categories below it.
DeleteCategory(c) ==
  /\ c \notin gone
  /\ \A i \in {g \in Goods : goods[g] # Absent} : goods[i].category # c
  /\ \A b \in Branches \ gone : parent[b] # c
  /\ gone' = gone \cup {c}
  /\ Move /\ UNCHANGED <<parent, active, goods, script, import>>

DeleteGoods(i) ==
  /\ OnShelf(i) /\ goods' = [goods EXCEPT ![i].live = FALSE]
  /\ Move /\ UNCHANGED <<parent, gone, active, script, import>>

SwitchStore ==
  /\ moves < MaxMoves /\ moves' = moves + 1 /\ active' = ~active
  /\ UNCHANGED <<parent, gone, goods, script, import, walk>>

Import(w) == importProduct(w) \/ RefuseImport(w)

Stock ==
  \/ \E i \in Goods, s \in ToSet(Slugs) : StaffImport(i, s)
  \/ Import("staff")
  \/ \E i \in Goods : DeleteGoods(i)

\* What goes on around a shopper, and around the script.  Neither sees the
\* other but through the products, which staff import and delete as well.
ListingNext ==
  \/ \E c \in Branches \cup {Absent}, cap \in Prices : listProducts(c, cap)
  \/ findPage \/ findTotal \/ findCounts \/ NextPage \/ EndWalk
  \/ \E c \in Branches : DeleteCategory(c) \/ \E p \in Branches \cup {Absent} : MoveCategory(c, p)
  \/ Stock

SourcingNext ==
  \/ StartScript \/ findCandidates \/ ScriptImport \/ NextSlug \/ Import("script")
  \/ SwitchStore
  \/ Stock

ElectronicsNext == ListingNext \/ SourcingNext

-----------------------------------------------------------------------------
(* Properties.                                                             *)

\* The pages of a listing tile it: a shopper who walked to the last page of a
\* catalog that stood still saw every matching product exactly once (the
\* comment on findPage's order, electronics-catalog.repository.ts:62-63).
PagesTileTheListing ==
  \A w \in {walk} \ {Absent} :
    w.still /\ w.waiting = {} /\ w.page >= buildPage(w.total)
      => /\ ToSet(w.seen) = buildWhere(categoryIds(findCategories, w.selected), w.cap)
         /\ Len(w.seen) = w.total

\* The count beside a category of the sidebar is the number of products its
\* own listing shows under the same filters: what rolls up into a root is what
\* lies under it, however the tree was moved before, in circles even.
CountsMatchListing ==
  \A w \in {walk} \ {Absent} :
    w.still /\ w.counts # Absent
      => \A r \in DOMAIN w.counts :
           w.counts[r] = Cardinality(buildWhere(categoryIds(findCategories, r), w.cap))

\* The listing of a store that stands still is whole in both ways.
ListingIsWhole == PagesTileTheListing /\ CountsMatchListing


=============================================================================
