------------------------------- MODULE Catalog --------------------------------
(***************************************************************************)
(* The catalog as a whole: pricing rules, imports and the staff's edits of *)
(* products work on the same rows.                                         *)
(*                                                                         *)
(* ProductImportService.importProduct is called by the import endpoint and *)
(* by every resync: a supplier's item becomes a product of a store, found  *)
(* by the slug of its title, and each of the item's variants a catalog     *)
(* variant, found by the supplier row that links the two.                  *)
(***************************************************************************)
EXTENDS PricingRules

CONSTANTS
  Items, Parts, NoId, \* the supplier's products; the external ids of their variants
  Offers,             \* item -> what the supplier may say of it
  ListPrice,          \* 10.00, the price of a product none of whose variants has one
  Given               \* rules that exist before: those in use

ASSUME ImportAssumption ==
  /\ \A o \in Offers : /\ o.slug \in Slugs
                       /\ DOMAIN o.cost \subseteq Parts \cup {NoId}
                       /\ o.cost \in [DOMAIN o.cost -> Nat \cup {None}]
  /\ ListPrice \in Nat
  /\ Given \in [DOMAIN Given -> RuleRow]

VARIABLES
  offer,              \* item -> [slug, cost] as the supplier has it now
  home,               \* item -> SupplierProduct.productId, or None
  stands              \* item -> part -> SupplierVariant.productVariantId, or None

supplierRows == <<home, stands>>

ImportInit ==
  /\ offer \in [Items -> Offers]
  /\ home = [i \in Items |-> None]
  /\ stands = [i \in Items |-> [e \in Parts |-> None]]

\* The supplier renames an item, reprices it, adds or drops variants.
Reoffer(i, o) ==
  /\ left["supplier"] > 0
  /\ left' = [left EXCEPT !["supplier"] = @ - 1]
  /\ offer[i] # o
  /\ offer' = [offer EXCEPT ![i] = o]
  /\ UNCHANGED <<rows, supplierRows, clerk, history>>

\* The normalizers drop variants without an id; a missing price is not a price of 0.
Normalized(cost) == [e \in DOMAIN cost \ {NoId} |-> cost[e]]

LowestCost(cost) ==
  LET priced == {cost[e] : e \in DOMAIN cost} \ {None, 0} IN
  IF priced = {} THEN ListPrice ELSE Min(priced)

\* A variant without a price costs what the cheapest one does.
CostOf(cost, e) == IF cost[e] = None THEN LowestCost(cost) ELSE cost[e]

\* What getProduct returned, and the store's default rule.
AskImport(c, store, i) ==
  /\ \E default \in FoundDefaults(store) :
       Asked(c, "imports", [at |-> "import", store |-> store, item |-> i, slug |-> offer[i].slug,
                            cost |-> Normalized(offer[i].cost), default |-> default])
  /\ UNCHANGED <<rows, offer, supplierRows>>

ProductWith(store, slug) ==
  {p \in Products : product[p] # None /\ product[p].store = store /\ product[p].slug = slug}

\* The transaction's first statements.  They wait for another that holds the slug
\* or the item.  A rule that is gone by now cannot be referred to.
BeginImport(c) ==
  /\ At(c, "import")
  /\ LET job == clerk[c]
         found == ProductWith(job.store, job.slug)
         r == IF found = {} THEN job.default ELSE product[Min(found)].rule
     IN /\ \A d \in Clerks : ~Locks(d, job.store, job.slug)
        /\ \A d \in Clerks : At(d, "commit") => clerk[d].item # job.item
        /\ r # None => rule[r] # None
        /\ Goto(c, [at |-> "commit", store |-> job.store, item |-> job.item, slug |-> job.slug,
                    cost |-> job.cost,
                    product |-> IF found = {} THEN None ELSE Min(found),
                    rule |-> r, priced |-> IF r = None THEN None ELSE rule[r]])
  /\ UNCHANGED <<rows, offer, supplierRows, left, history>>

\* Timeout, lost connection, duplicate sku, rule or row gone: all is rolled back.
ImportFails(c) ==
  /\ At(c, "import") \/ At(c, "commit")
  /\ Done(c)
  /\ UNCHANGED <<rows, offer, supplierRows, left, history>>

\* Mutant of StandIn: a variant is looked for on the product it is imported to.
StandInOnProduct(job, e) ==
  IF stands[job.item][e] # None /\ variant[stands[job.item][e]].product = job.product
  THEN stands[job.item][e] ELSE None

\* The catalog variant a supplier variant is linked to.
StandIn(job, e) == stands[job.item][e]

\* Ids for the item's variants: the linked ones, and free ones for the rest.
Placements(job) ==
  {at \in [DOMAIN job.cost -> Variants] :
     \A e \in DOMAIN job.cost :
       /\ StandIn(job, e) # None => at[e] = StandIn(job, e)
       /\ StandIn(job, e) = None => variant[at[e]] = None
       /\ \A f \in DOMAIN job.cost : at[e] = at[f] => e = f}

\* Mutant of ShownPrice: the price stays at the supplier's cost.
ShownPriceAtCost(job) == LowestCost(job.cost)

\* What the storefront shows.  An item without variants keeps the raw cost.
ShownPrice(job) ==
  IF DOMAIN job.cost = {} THEN LowestCost(job.cost)
  ELSE Min({VariantPrice(CostOf(job.cost, e), job.priced) : e \in DOMAIN job.cost})

\* The product's row: what an import does not set is kept.
ImportedProduct(job) ==
  [store |-> job.store, slug |-> job.slug, rule |-> job.rule, price |-> ShownPrice(job),
   sale |-> IF DOMAIN job.cost = {}
            THEN IF product[job.product] = None THEN None ELSE product[job.product].sale
            ELSE ShownSale(ShownPrice(job), job.priced),
   deleted |-> product[job.product] # None /\ product[job.product].deleted]

ImportedVariant(job, e, v) ==
  [product |-> job.product, cost |-> CostOf(job.cost, e),
   price |-> VariantPrice(CostOf(job.cost, e), job.priced),
   deleted |-> variant[v] # None /\ variant[v].deleted]

CommitImport(c) ==
  /\ At(c, "commit")
  /\ clerk[c].product = None => Room(product)
  /\ LET job == [clerk[c] EXCEPT !.product = IF @ = None THEN Fresh(product) ELSE @] IN
     /\ Placements(job) # {}
     /\ LET at == CHOOSE at \in Placements(job) : TRUE IN
       /\ product' = [product EXCEPT ![job.product] = ImportedProduct(job)]
       /\ home' = [home EXCEPT ![job.item] = job.product]
       /\ stands' = [stands EXCEPT ![job.item] =
                       [e \in Parts |-> IF e \in DOMAIN job.cost THEN at[e] ELSE @[e]]]
       /\ variant' = [v \in Variants |->
                        IF \E e \in DOMAIN job.cost : at[e] = v
                        THEN ImportedVariant(job, CHOOSE e \in DOMAIN job.cost : at[e] = v, v)
                        ELSE variant[v]]
       /\ LET from == {variant[at[e]].product : e \in {f \in DOMAIN job.cost : variant[at[f]] # None}}
          IN edited' = edited \cup IF from \subseteq {job.product} THEN {}
                                   ELSE from \cup {job.product}
  /\ Done(c)
  /\ UNCHANGED <<rule, offer, left, alone>>

ImportNext ==
  \E c \in Clerks :
    \/ \E store \in Stores, i \in Items : AskImport(c, store, i)
    \/ BeginImport(c) \/ CommitImport(c) \/ ImportFails(c)

Supplier == \E i \in Items, o \in Offers : Reoffer(i, o)

-----------------------------------------------------------------------------
catalogVars == <<rows, offer, supplierRows, clerk, left, history>>

Init ==
  /\ rule = [r \in Rules |-> IF r \in DOMAIN Given THEN Given[r] ELSE None]
  /\ product = [p \in Products |-> None]
  /\ variant = [v \in Variants |-> None]
  /\ clerk = [c \in Clerks |-> Idle]
  /\ left \in Mixes
  /\ alone = TRUE
  /\ edited = {}
  /\ ImportInit

-----------------------------------------------------------------------------
(***************************************************************************)
(* ProductService: what the staff change of a product and its variants.    *)
(***************************************************************************)
\* The slug is unique in the store, over deleted products too.
CreateProduct(c, store, slug, given) ==
  /\ Asked(c, "products", Idle)
  /\ ProductWith(store, slug) = {} /\ Room(product)
  /\ \A d \in Clerks : ~Locks(d, store, slug)
  /\ \E r \in IF given = "default" THEN FoundDefaults(store) ELSE {None} :
       product' = [product EXCEPT ![Fresh(product)] =
                     [store |-> store, slug |-> slug, rule |-> r, price |-> None, sale |-> None,
                      deleted |-> FALSE]]
  /\ UNCHANGED <<rule, variant>>

\* updateProduct with another pricing rule, which has to exist.
AskAssign(c, p, r) ==
  /\ product[p] # None /\ product[p].rule # r
  /\ r # None => OwnerOf[r] = product[p].store /\ rule[r] # None
  /\ Asked(c, "products", [at |-> "assign", product |-> p, rule |-> r])
  /\ UNCHANGED rows

Assign(c) ==
  /\ At(c, "assign")
  /\ LET p == clerk[c].product
         r == clerk[c].rule
     IN /\ Free(p)
        /\ \/ /\ r # None => rule[r] # None
              /\ product' = [product EXCEPT ![p].rule = r]
              /\ Recalculate(c, {p})
           \/ /\ r # None /\ rule[r] = None
              /\ Done(c)
              /\ UNCHANGED product
  /\ UNCHANGED <<rule, variant, left, history>>

\* updateProduct with another slug.
Reslug(c, p, slug) ==
  /\ product[p] # None
  /\ Asked(c, "products", Idle)
  /\ Free(p)
  /\ ProductWith(product[p].store, slug) = {}
  /\ \A d \in Clerks : ~Locks(d, product[p].store, slug)
  /\ product' = [product EXCEPT ![p].slug = slug]
  /\ UNCHANGED <<rule, variant>>

DeleteProduct(c, p) ==
  /\ product[p] # None
  /\ Asked(c, "products", Idle)
  /\ Free(p)
  /\ product' = [product EXCEPT ![p].deleted = TRUE]
  /\ UNCHANGED <<rule, variant>>

\* The variants after one is created, priced anew, or deleted: its row stays.
WithVariant(v, p, price) ==
  [variant EXCEPT ![v] = [product |-> p, cost |-> None, price |-> price, deleted |-> FALSE]]
Repriced(v, price) == [variant EXCEPT ![v].price = price]
SoftDeleted(v) == [variant EXCEPT ![v].deleted = TRUE]

\* createVariant, updateVariant with a price, deleteVariant.  None of them touches
\* the product's own price.
EditVariant(c, p, v, price) ==
  /\ product[p] # None
  /\ At(c, "idle") /\ left["products"] > 0
  /\ left' = [left EXCEPT !["products"] = @ - 1]
  /\ alone' = (alone /\ \A d \in Clerks : At(d, "idle"))
  /\ edited' = edited \cup {p}
  /\ \/ Room(variant) /\ v = Fresh(variant) /\ variant' = WithVariant(v, p, price)
     \/ v \in VariantsOf(p) /\ Free(p) /\ variant' = Repriced(v, price)
     \/ v \in VariantsOf(p) /\ Free(p) /\ variant' = SoftDeleted(v)
  /\ UNCHANGED <<rule, product, clerk>>

StaffNext ==
  \E c \in Clerks :
    \/ \E store \in Stores, slug \in Slugs, given \in {"default", "none"} :
         CreateProduct(c, store, slug, given)
    \/ \E p \in Products :
         \/ \E r \in Rules \cup {None} : AskAssign(c, p, r)
         \/ \E slug \in Slugs : Reslug(c, p, slug)
         \/ DeleteProduct(c, p)
         \/ \E v \in Variants, price \in {ListPrice} : EditVariant(c, p, v, price)
    \/ Assign(c)

Next ==
  \/ (RuleNext \/ Clock \/ StaffNext) /\ UNCHANGED <<offer, supplierRows>>
  \/ ImportNext
  \/ Supplier

Spec == Init /\ [][Next]_catalogVars

-----------------------------------------------------------------------------
Calm == alone /\ \A c \in Clerks : At(c, "idle")

(***************************************************************************)
(* PricingRuleService, importProduct.  While requests come one at a time,  *)
(* every variant with a cost sells at its product's rule, whichever of     *)
(* import, resync, rule and assignment came last; the price the storefront *)
(* shows is that of a variant, and the sale price is taken off it at the   *)
(* rule's present terms.  Products whose variants the staff changed or an  *)
(* import moved are out: both leave the product's price as it was.  It     *)
(* needs suppliers that leave an item a variant: without any, a resync     *)
(* puts the product back to the list price.                                *)
(***************************************************************************)
AlonePricesFollowRules ==
  Calm =>
    \A p \in {q \in Products : Live(q) /\ q \notin edited /\ VariantsOf(q) # {}} :
      /\ \A v \in VariantsOf(p) :
           variant[v].cost # None => variant[v].price = VariantPrice(variant[v].cost, RuleOf(p))
      /\ \E v \in VariantsOf(p) : product[p].price = variant[v].price
      /\ product[p].sale # None =>
           /\ RuleOf(p) # None /\ RuleOf(p).sale # None
           /\ product[p].sale = SalePrice(product[p].price, RuleOf(p).sale)

(***************************************************************************)
(* importProduct: re-importing updates in place.  A supplier's variant     *)
(* stays the catalog variant that carts and orders know, whatever imports, *)
(* renames and edits overlap, and no two share one.                        *)
(***************************************************************************)
ReimportKeepsVariants ==
  [][\A i \in Items : \A e \in Parts :
       /\ stands[i][e] # None => stands'[i][e] = stands[i][e]
       /\ \A j \in Items : \A f \in Parts :
            stands'[i][e] # None /\ stands'[i][e] = stands'[j][f] => i = j /\ e = f]_catalogVars

=============================================================================
