----------------------------- MODULE PricingRules -----------------------------
(***************************************************************************)
(* The catalog's rows, which pricing rules, imports and the staff's edits  *)
(* share, and the requests that work on them: one step per database call,  *)
(* so that two requests interleave.  Money is in cents.                    *)
(*                                                                         *)
(* PricingRuleService: a store's markup rules, the default that is swept   *)
(* over its products, and the recalculation of prices that follows every   *)
(* change of a rule or of the rule a product is on.                        *)
(***************************************************************************)
EXTENDS Naturals, FiniteSets, FiniteSetsExt

CONSTANTS
  Stores,
  Rules, OwnerOf,     \* pricing rules, by name; rule -> its store
  Products, Variants, \* ids a row can get
  Slugs,
  Clerks,             \* requests and sync jobs that run at the same time
  Kinds,              \* "rules", "products", "imports", "supplier"
  Mixes,              \* bound: how many of each kind a behaviour has, one of these
  None,               \* SQL NULL, no row
  Markups, Minimums,  \* what the staff enter
  Sales               \* [type, value, window] of a sale, or None

\* The rows.  A rule's sale is in its own columns.
Sale == [type : {"PERCENTAGE", "FIXED_AMOUNT"}, value : Nat, window : {"coming", "open", "over"}]

RuleRow == [markup : Nat, minimum : Nat, sale : Sale \cup {None}, default : BOOLEAN]

ProductRow ==
  [store : Stores, slug : Slugs, rule : Rules \cup {None}, price : Nat \cup {None},
   sale : Nat \cup {None}, deleted : BOOLEAN]

VariantRow == [product : Products, cost : Nat \cup {None}, price : Nat, deleted : BOOLEAN]

ASSUME CatalogAssumption ==
  /\ OwnerOf \in [Rules -> Stores]
  /\ Mixes \subseteq [Kinds -> Nat]
  /\ Products \subseteq Nat /\ Variants \subseteq Nat
  /\ Markups \subseteq Nat /\ Minimums \subseteq Nat /\ Sales \subseteq Sale \cup {None}
  /\ None \notin Rules \cup Nat \cup Sale \cup RuleRow \cup ProductRow \cup VariantRow

VARIABLES
  rule,               \* rule -> [markup, minimum, sale, default], or None
  product,            \* id -> [store, slug, rule, price, sale, deleted], or None
  variant,            \* id -> [product, cost, price, deleted], or None
  clerk,              \* clerk -> the step it is at and what it has read
  left,               \* kind -> requests still to come
  alone,              \* history: no two requests have overlapped
  edited              \* history: products whose variants the staff changed or an import
                      \* moved to or from another

rows == <<rule, product, variant>>
history == <<alone, edited>>

Idle == [at |-> "idle"]

At(c, at) == clerk[c].at = at

Goto(c, step) == clerk' = [clerk EXCEPT ![c] = step]

Done(c) == Goto(c, Idle)

\* A request arrives.
Asked(c, kind, step) ==
  /\ At(c, "idle")
  /\ left[kind] > 0
  /\ left' = [left EXCEPT ![kind] = @ - 1]
  /\ alone' = (alone /\ \A d \in Clerks : At(d, "idle"))
  /\ Goto(c, step)
  /\ UNCHANGED edited

\* An import's transaction holds the product row with its slug, and the rows of
\* its item, until it ends.
Locks(c, store, slug) == At(c, "commit") /\ clerk[c].store = store /\ clerk[c].slug = slug

Free(p) == \A c \in Clerks : ~Locks(c, product[p].store, product[p].slug)

Live(p) == product[p] # None /\ ~product[p].deleted

VariantsOf(p) ==
  {v \in Variants : variant[v] # None /\ variant[v].product = p /\ ~variant[v].deleted}

\* The next free id, as a uuid would be.  Bound: no more rows than ids.
Room(table) == \E i \in DOMAIN table : table[i] = None

Fresh(table) == Min({i \in DOMAIN table : table[i] = None})

-----------------------------------------------------------------------------
(***************************************************************************)
(* pricing.util                                                            *)
(***************************************************************************)
Percent(x, n) == (x * n + 50) \div 100

\* calculateVariantPrice.  A rule made by this program is active, a percentage.
VariantPrice(cost, r) ==
  IF r = None THEN cost ELSE Max({Percent(cost, 100 + r.markup), cost + r.minimum})

\* isSaleCurrentlyActive, calculateSalePrice: a sale takes its percentage, or its
\* amount, off and never below 0.
SalePrice(price, sale) ==
  LET off == IF sale.type = "PERCENTAGE" THEN Percent(price, sale.value) ELSE sale.value IN
  IF off > price THEN 0 ELSE price - off

ShownSale(price, r) ==
  IF r = None \/ r.sale = None \/ r.sale.window # "open" THEN None ELSE SalePrice(price, r.sale)

RuleOf(p) == IF product[p].rule = None THEN None ELSE rule[product[p].rule]

DefaultsOf(store) == {r \in Rules : OwnerOf[r] = store /\ rule[r] # None /\ rule[r].default}

\* findFirst takes any of them.
FoundDefaults(store) == IF DefaultsOf(store) = {} THEN {None} ELSE DefaultsOf(store)

-----------------------------------------------------------------------------
Terms == [markup : Markups, minimum : Minimums, sale : Sales]

Row(terms, default) ==
  [markup |-> terms.markup, minimum |-> terms.minimum, sale |-> terms.sale,
   default |-> default]

-----------------------------------------------------------------------------
(***************************************************************************)
(* createRule and deleteRule.  The name is unique in the database too, and *)
(* a rule that any product refers to, a deleted one too, cannot go.        *)
(***************************************************************************)
CreateRule(c, r, terms) ==
  /\ Asked(c, "rules", Idle)
  /\ rule[r] = None
  /\ rule' = [rule EXCEPT ![r] = Row(terms, FALSE)]
  /\ UNCHANGED <<product, variant>>

AskDelete(c, r) ==
  /\ rule[r] # None /\ ~rule[r].default
  /\ \A p \in Products : Live(p) => product[p].rule # r
  /\ Asked(c, "rules", [at |-> "delete", rule |-> r])
  /\ UNCHANGED rows

DeleteRule(c) ==
  /\ At(c, "delete")
  /\ \A d \in Clerks : At(d, "commit") => clerk[d].rule # clerk[c].rule
  /\ \/ /\ \A p \in Products : product[p] # None => product[p].rule # clerk[c].rule
        /\ rule' = [rule EXCEPT ![clerk[c].rule] = None]
     \/ /\ \E p \in Products : product[p] # None /\ product[p].rule = clerk[c].rule
        /\ UNCHANGED rule
  /\ Done(c)
  /\ UNCHANGED <<product, variant, left, history>>

-----------------------------------------------------------------------------
(***************************************************************************)
(* recalculateProductPricing, for all of a set of products at once: each   *)
(* has a stage of its own.                                                 *)
(***************************************************************************)
Recalculate(c, ps) ==
  IF ps = {} THEN Done(c)
             ELSE Goto(c, [at |-> "recalculate", stage |-> [p \in ps |-> [is |-> "due"]]])

\* Product p of the request moves to a stage, or is through.
Stage(c, p, stage) ==
  Goto(c, [clerk[c] EXCEPT !.stage[p] = stage])

Through(c, p) ==
  LET rest == DOMAIN clerk[c].stage \ {p} IN
  IF rest = {} THEN Done(c)
               ELSE Goto(c, [clerk[c] EXCEPT !.stage = [q \in rest |-> clerk[c].stage[q]]])

Recalculating(c, p, stage) ==
  /\ At(c, "recalculate")
  /\ p \in DOMAIN clerk[c].stage
  /\ clerk[c].stage[p].is = stage

\* Reads the product with its rule, and its variants: the price each is to get.
ReadPrices(c, p) ==
  /\ Recalculating(c, p, "due")
  /\ LET price == [v \in VariantsOf(p) |->
                     IF variant[v].cost = None THEN variant[v].price
                     ELSE VariantPrice(variant[v].cost, RuleOf(p))]
         regular == Min({price[v] : v \in VariantsOf(p)})
     IN IF VariantsOf(p) = {}
        THEN Through(c, p)
        ELSE Stage(c, p, [is |-> "read", price |-> price, regular |-> regular,
                          sale |-> ShownSale(regular, RuleOf(p))])
  /\ UNCHANGED <<rows, left, history>>

\* Variants without a cost are left alone.
WriteVariants(c, p) ==
  /\ Recalculating(c, p, "read")
  /\ Free(p)
  /\ LET seen == clerk[c].stage[p] IN
       /\ variant' = [v \in Variants |->
                        IF v \in DOMAIN seen.price /\ variant[v].cost # None
                        THEN [variant[v] EXCEPT !.price = seen.price[v]] ELSE variant[v]]
       /\ Stage(c, p, [is |-> "priced", regular |-> seen.regular, sale |-> seen.sale])
  /\ UNCHANGED <<rule, product, left, history>>

WriteProduct(c, p) ==
  /\ Recalculating(c, p, "priced")
  /\ Free(p)
  /\ product' = [product EXCEPT ![p].price = clerk[c].stage[p].regular,
                                ![p].sale = clerk[c].stage[p].sale]
  /\ Through(c, p)
  /\ UNCHANGED <<rule, variant, left, history>>

-----------------------------------------------------------------------------
(***************************************************************************)
(* updateRule: writes the rule, then looks for the products on it.         *)
(***************************************************************************)
UpdateRule(c, r, terms) ==
  /\ rule[r] # None
  /\ Asked(c, "rules", [at |-> "list", rule |-> r])
  /\ rule' = [rule EXCEPT ![r] = Row(terms, rule[r].default)]
  /\ UNCHANGED <<product, variant>>

ListProducts(c) ==
  /\ At(c, "list")
  /\ Recalculate(c, {p \in Products : Live(p) /\ product[p].rule = clerk[c].rule})
  /\ UNCHANGED <<rows, left, history>>

\* The clock passes a rule's saleStartsAt or saleEndsAt.  Nothing is recalculated.
TurnOfSale(r) ==
  /\ left["rules"] > 0
  /\ left' = [left EXCEPT !["rules"] = @ - 1]
  /\ rule[r] # None /\ rule[r].sale # None
  /\ \/ rule[r].sale.window = "coming" /\ rule' = [rule EXCEPT ![r].sale.window = "open"]
     \/ rule[r].sale.window = "open" /\ rule' = [rule EXCEPT ![r].sale.window = "over"]
  /\ UNCHANGED <<product, variant, clerk, history>>

-----------------------------------------------------------------------------
(***************************************************************************)
(* applyToAll: reads the previous default and the products that are to     *)
(* move, then moves them in a transaction.                                 *)
(***************************************************************************)
Eligible(r, previous) ==
  {p \in Products : /\ Live(p) /\ product[p].store = OwnerOf[r]
                    /\ product[p].rule \in {None} \cup ({previous} \ {r})}

AskApply(c, r) ==
  /\ rule[r] # None
  /\ \E previous \in FoundDefaults(OwnerOf[r]) :
       Asked(c, "rules", [at |-> "eligible", rule |-> r, previous |-> previous])
  /\ UNCHANGED rows

FindEligible(c) ==
  /\ At(c, "eligible")
  /\ LET r == clerk[c].rule IN
       Goto(c, [at |-> "sweep", rule |-> r, moves |-> Eligible(r, clerk[c].previous),
                clear |-> {}])
  /\ UNCHANGED <<rows, left, history>>

\* The transaction's first statement sees the defaults committed so far.
BeginSweep(c) ==
  /\ At(c, "sweep")
  /\ Goto(c, [clerk[c] EXCEPT !.at = "swept",
                              !.clear = DefaultsOf(OwnerOf[clerk[c].rule]) \ {clerk[c].rule}])
  /\ UNCHANGED <<rows, left, history>>

\* It ends: the defaults it saw are cleared, and only those.
Sweep(c) ==
  /\ At(c, "swept")
  /\ \A p \in clerk[c].moves : Free(p)
  /\ LET r == clerk[c].rule IN
       /\ rule[r] # None
       /\ rule' = [q \in Rules |->
                     IF q = r THEN [rule[q] EXCEPT !.default = TRUE]
                     ELSE IF q \in clerk[c].clear /\ rule[q] # None
                          THEN [rule[q] EXCEPT !.default = FALSE] ELSE rule[q]]
       /\ product' = [p \in Products |-> IF p \in clerk[c].moves
                                         THEN [product[p] EXCEPT !.rule = r] ELSE product[p]]
       /\ Goto(c, [at |-> "list", rule |-> r])
  /\ UNCHANGED <<variant, left, history>>

\* The rule is gone.  The products that were to move cannot refer to it, and the
\* transaction is rolled back; without any, the old default is cleared all the same.
SweepFails(c) ==
  /\ At(c, "swept")
  /\ rule[clerk[c].rule] = None
  /\ rule' = [q \in Rules |->
                IF clerk[c].moves = {} /\ q \in clerk[c].clear /\ rule[q] # None
                THEN [rule[q] EXCEPT !.default = FALSE] ELSE rule[q]]
  /\ Done(c)
  /\ UNCHANGED <<product, variant, left, history>>

RuleNext ==
  \E c \in Clerks :
    \/ \E r \in Rules : \/ \E terms \in Terms : CreateRule(c, r, terms) \/ UpdateRule(c, r, terms)
                        \/ AskDelete(c, r)
                        \/ AskApply(c, r)
    \/ DeleteRule(c)
    \/ ListProducts(c)
    \/ \E p \in Products : ReadPrices(c, p) \/ WriteVariants(c, p) \/ WriteProduct(c, p)
    \/ FindEligible(c) \/ BeginSweep(c) \/ Sweep(c) \/ SweepFails(c)

Clock == \E r \in Rules : TurnOfSale(r)

=============================================================================
