--------------------------------- MODULE Seed ---------------------------------
(***************************************************************************)
(* npm run db:seed: fourteen seeders, one after another, each a loop of    *)
(* statements without a transaction around them.  A run may stop after any *)
(* of them and be started again, on a database that customers already use. *)
(***************************************************************************)
EXTENDS Naturals, Sequences, SequencesExt

(***************************************************************************)
(* What the seeders write, table by table, in the tables' order.  All but  *)
(* the first three have entries for each shop.                             *)
(***************************************************************************)
CONSTANTS
  Shops,
  Accounts,           \* superadmin is of the platform, admin staff, the others customers
  Buyers,             \* the customers who get orders
  TopCategories,
  Goods,              \* each with its category and its variants, featured or not
  Hues,               \* the primary attribute's values
  Guides,             \* the product and the variant of each size guide
  Outfits,            \* collections, with the products in them
  Campaigns,          \* the page of the shop's campaign
  Promos,
  Orders,             \* the sample orders: number, customer, variants
  Reviews,
  Wishes,
  Coupons,
  PinLimit,           \* how many products the editors' picks get
  FeaturedLimit,      \* how many of the featured ones their section gets
  MaxRuns             \* bound: how often the seed is started

SupplierPartners == <<"cj-dropshipping", "printful">>

\* The first two hold every variant, the third four and the last two of them.
Warehouses == <<"main", "regional", "flagship", "popup">>

\* The sections of a page are written at once.
ContentPages == <<"home", "about">>

ShopSet == ToSet(Shops)

IsTable(t) == t \in Seq(ToSet(t))

\* The names of what a shop sells, and of the variants.
SlugsOf(shop) == {Goods[shop][i].slug : i \in DOMAIN Goods[shop]}

AllSkus(shop) == UNION {ToSet(Goods[shop][i].skus) : i \in DOMAIN Goods[shop]}

\* The tables refer to what is in them, and a shop's orders are told apart by
\* their numbers; no customer's order has one of these.
ASSUME TablesAssumption ==
  /\ IsTable(Shops) /\ IsInjective(Shops)
  /\ PinLimit \in Nat /\ FeaturedLimit \in Nat
  /\ IsTable(Accounts) /\ IsTable(Buyers) /\ ToSet(Buyers) \subseteq ToSet(Accounts)
  /\ \A shop \in ShopSet :
       /\ IsTable(TopCategories[shop]) /\ IsTable(Goods[shop]) /\ IsTable(Guides[shop])
       /\ IsTable(Outfits[shop]) /\ IsTable(Promos[shop]) /\ IsTable(Orders[shop])
       /\ IsTable(Reviews[shop]) /\ IsTable(Wishes[shop]) /\ IsTable(Coupons[shop])
       /\ IsTable(Hues[shop]) /\ Hues[shop] # <<>>
       /\ \A i \in DOMAIN Goods[shop] :
            /\ IsTable(Goods[shop][i].skus)
            /\ Goods[shop][i].category \in ToSet(TopCategories[shop])
       /\ \A i \in DOMAIN Outfits[shop] :
            /\ IsTable(Outfits[shop][i].items)
            /\ ToSet(Outfits[shop][i].items) \subseteq SlugsOf(shop)
       /\ \A i \in DOMAIN Orders[shop] :
            /\ Orders[shop][i].by \in ToSet(Buyers)
            /\ Orders[shop][i].skus \cap AllSkus(shop) # {}
            /\ Orders[shop][i].no # "live"
            /\ \A j \in DOMAIN Orders[shop] : Orders[shop][i].no = Orders[shop][j].no => i = j

-----------------------------------------------------------------------------
(***************************************************************************)
(* Of each of the seeders' tables, the first entries of two of the five    *)
(* shops, which refer to one another as the tables do.                     *)
(***************************************************************************)
SampleShops == <<"fashion", "outdoor">>

SampleAccounts == <<"superadmin", "admin", "customer", "customer2">>

SampleBuyers == <<"customer", "customer2">>

SampleTopCategories == [fashion |-> <<"outerwear", "accessories">>, outdoor |-> <<"camping-hiking">>]

SampleGoods ==
  [fashion |-> <<[slug |-> "hoodie", category |-> "outerwear", skus |-> <<"HD-BLK">>, featured |-> FALSE],
                 [slug |-> "cap", category |-> "accessories", skus |-> <<"CAP-BLK">>, featured |-> TRUE]>>,
   outdoor |-> <<[slug |-> "tent", category |-> "camping-hiking", skus |-> <<"TNT-GRY">>, featured |-> TRUE]>>]

SampleHues == [fashion |-> <<"black", "white">>, outdoor |-> <<"S", "M">>]

SampleGuides == [fashion |-> <<[product |-> "hoodie", sku |-> "HD-BLK"]>>, outdoor |-> <<>>]

SampleOutfits ==
  [fashion |-> <<[slug |-> "summer-outfit", category |-> "outerwear", items |-> <<"hoodie", "cap">>]>>,
   outdoor |-> <<>>]

SampleCampaigns == [fashion |-> "summer-streetwear-drop", outdoor |-> "trail-sale"]

SamplePromos == [fashion |-> <<"SUMMER2026">>, outdoor |-> <<"TRAIL20">>]

SampleOrders ==
  [fashion |-> <<[no |-> "1", by |-> "customer", skus |-> {"HD-BLK", "CAP-BLK"}],
                 [no |-> "2", by |-> "customer2", skus |-> {"HD-BLK"}]>>,
   outdoor |-> <<[no |-> "1", by |-> "customer", skus |-> {"TNT-GRY"}]>>]

SampleReviews == [fashion |-> <<[by |-> "customer2", product |-> "hoodie"]>>,
                  outdoor |-> <<[by |-> "customer", product |-> "tent"]>>]

SampleWishes == [fashion |-> <<[by |-> "customer", skus |-> {"CAP-BLK"}]>>,
                 outdoor |-> <<[by |-> "customer", skus |-> {"TNT-GRY"}]>>]

SampleCoupons == [fashion |-> <<"WELCOME10">>, outdoor |-> <<"WELCOME10OUT">>]

-----------------------------------------------------------------------------
VARIABLES
  db,                 \* bag of rows: <<table, shop, ...>>
  next,               \* the next step of the run, or 0: none is under way
  read,               \* what the seeder read before its loop
  runs,               \* how much of the bound is used up
  spoiled             \* history: shops whose orders a run left unfinished, or a
                      \* customer's came before

seedVars == <<db, next, read, runs, spoiled>>

SeedInit ==
  /\ db = EmptyBag
  /\ next = 0
  /\ read = {}
  /\ runs = 0
  /\ spoiled = {}

Has(row) == BagIn(row, db)

\* upsert, or create unless found: the rows are there once.
Put(new) == db' = db (+) SetToBag(new \ BagToSet(db))

\* create, without looking.
Append1(new) == db' = db (+) SetToBag(new)

SkusOf(shop) == {g \in AllSkus(shop) : Has(<<"variant", shop, g>>)}

-----------------------------------------------------------------------------
(***************************************************************************)
(* The order of the work.                                                  *)
(***************************************************************************)
Once(by, works) == [i \in DOMAIN works |-> [by |-> by, shop |-> "", work |-> works[i]]]

PerShop(by, worksOf) ==
  FlattenSeq([k \in DOMAIN Shops |->
    [i \in DOMAIN worksOf[Shops[k]] |->
       [by |-> by, shop |-> Shops[k], work |-> worksOf[Shops[k]][i]]]])

ShopOnly(by) == [k \in DOMAIN Shops |-> [by |-> by, shop |-> Shops[k], work |-> ""]]

\* seedCommerce is through with one shop before it turns to the next.
CommerceOf(shop) ==
  LET step(by, works) == [i \in DOMAIN works |-> [by |-> by, shop |-> shop, work |-> works[i]]] IN
  step("profiles", Buyers) \o step("count orders", <<"">>) \o step("orders", Orders[shop])
    \o step("reviews", Reviews[shop]) \o step("wishlists", Wishes[shop])
    \o step("coupons", Coupons[shop])

CollectionsOf(shop) ==
  FlattenSeq([i \in DOMAIN Outfits[shop] |->
    <<[by |-> "collections", shop |-> shop, work |-> Outfits[shop][i]]>> \o
    [j \in DOMAIN Outfits[shop][i].items |->
       [by |-> "items", shop |-> shop,
        work |-> [look |-> Outfits[shop][i].slug, product |-> Outfits[shop][i].items[j]]]]])

Commerce == FlattenSeq([k \in DOMAIN Shops |-> CommerceOf(Shops[k])])

Payments == FlattenSeq([k \in DOMAIN Shops |->
  <<[by |-> "find orders", shop |-> Shops[k], work |-> ""],
    [by |-> "payments", shop |-> Shops[k], work |-> ""]>>])

Stock == ShopOnly("inventory")

BeforeStock ==
  Once("find tenant", <<"">>) \o Once("users", Accounts) \o Once("tenants", Shops)
    \o PerShop("categories", TopCategories) \o Once("suppliers", SupplierPartners)

AfterCatalog ==
  Once("log", <<"">>) \o ShopOnly("attributes") \o PerShop("guides", Guides)
    \o FlattenSeq([k \in DOMAIN Shops |-> CollectionsOf(Shops[k])])
    \o ShopOnly("storefront") \o PerShop("promotions", Promos)

AfterStock == PerShop("pages", [s \in ShopSet |-> ContentPages]) \o Commerce \o Payments

\* Mutant of Script: stock is seeded before there are variants.
ScriptStockFirst ==
  BeforeStock \o Stock \o PerShop("products", Goods) \o AfterCatalog \o AfterStock

Script == BeforeStock \o PerShop("products", Goods) \o AfterCatalog \o Stock \o AfterStock

Doing(by) == next \in DOMAIN Script /\ Script[next].by = by

Step == Script[next]

Advance == next' = next + 1 /\ UNCHANGED <<runs, spoiled>>

-----------------------------------------------------------------------------
(***************************************************************************)
(* The seeders.                                                            *)
(***************************************************************************)
\* Any tenant; none on the first run, since tenants are seeded after the users.
FindTenant ==
  /\ Doing("find tenant")
  /\ LET found == {s \in ShopSet : Has(<<"tenant", s>>)} IN
       read' \in IF found = {} THEN {{}} ELSE {{s} : s \in found}
  /\ Advance /\ UNCHANGED db

\* Everybody who is not of the platform gets a profile in that tenant, staff too.
SeedUsers ==
  /\ Doing("users")
  /\ Put({<<"user", Step.work>>} \cup
         IF Step.work = "superadmin" THEN {} ELSE {<<"profile", s, Step.work>> : s \in read})
  /\ Advance /\ UNCHANGED read

SeedTenants ==
  /\ Doing("tenants")
  /\ Put({<<"tenant", Step.work>>})
  /\ Advance /\ UNCHANGED read

SeedCategories ==
  /\ Doing("categories")
  /\ Put({<<"category", Step.shop, Step.work>>})
  /\ Advance /\ UNCHANGED read

\* The supplier and its credential.
SeedSuppliers ==
  /\ Doing("suppliers")
  /\ Put({<<"supplier", Step.work>>, <<"credential", Step.work>>})
  /\ Advance /\ UNCHANGED read

\* What one product comes with.
RowsOf(shop, p) ==
  ({"product", "primary picture", "supplier product", "supplier picture"} \X {shop} \X {p.slug})
  \cup ({"variant", "supplier variant", "variant picture"} \X {shop} \X ToSet(p.skus))

\* Skipped without its category.  The statements of one product are one step: the
\* next run repeats them all.
SeedImportedProducts ==
  /\ Doing("products")
  /\ Put(IF Has(<<"category", Step.shop, Step.work.category>>)
         THEN RowsOf(Step.shop, Step.work) ELSE {})
  /\ Advance /\ UNCHANGED read

\* The supplier's log gets an entry in every run, and each shop its statistics once.
SeedSyncLog ==
  /\ Doing("log")
  /\ LET imported == {s \in ShopSet : \E p \in ToSet(Goods[s]) : Has(<<"category", s, p.category>>)}
         stats == {"stats"} \X imported
     IN Append1({<<"log", Head(SupplierPartners)>>} \cup {row \in stats : ~Has(row)})
  /\ Advance /\ UNCHANGED read

\* The n-th variant found gets the n-th value.  The query has no order.
SeedAttributes ==
  /\ Doing("attributes")
  /\ LET hues == Hues[Step.shop] IN
     \E found \in SetToSeqs(SkusOf(Step.shop)) :
       Put({<<"hue", Step.shop, found[i], hues[((i - 1) % Len(hues)) + 1]>> : i \in DOMAIN found}
           \cup {<<"attribute", Step.shop>>})
  /\ Advance /\ UNCHANGED read

SeedSizeGuides ==
  /\ Doing("guides")
  /\ Put(IF Has(<<"product", Step.shop, Step.work.product>>)
         THEN {<<"guide", Step.shop, Step.work.product>>}
              \cup {<<"size entry", Step.shop, k>> : k \in SkusOf(Step.shop) \cap {Step.work.sku}}
         ELSE {})
  /\ Advance /\ UNCHANGED read

SeedCollections ==
  /\ Doing("collections")
  /\ Put({<<"collection", Step.shop, Step.work.slug>>})
  /\ Advance /\ UNCHANGED read

SeedCollectionItems ==
  /\ Doing("items")
  /\ Put({<<"item", Step.shop, Step.work.look, g>> :
            g \in {h \in {Step.work.product} : Has(<<"product", Step.shop, h>>)}})
  /\ Advance /\ UNCHANGED read

\* The five pages; one is a category's.
PagesOf(shop, primary) ==
  {<<"page", shop, slug>> : slug \in {"home", "our-story", "search", primary, Campaigns[shop]}}

\* The oldest of the products found; they are as old as their place in the table says.
Oldest(shop, found, limit) ==
  {Goods[shop][i].slug : i \in {j \in found : Cardinality({k \in found : k < j}) < limit}}

\* The products pinned to the editors' picks and to the featured ones.
PinsOf(shop, found) ==
  ({"pick"} \X {shop} \X Oldest(shop, found, PinLimit))
  \cup ({"feature"} \X {shop}
          \X Oldest(shop, {i \in found : Goods[shop][i].featured}, FeaturedLimit))

\* The pages with their sections, the products pinned.  All root categories have the
\* same sortOrder, so which one comes first, and gets the category page, is open.
SeedStorefront ==
  /\ Doing("storefront")
  /\ LET roots == {c \in ToSet(TopCategories[Step.shop]) : Has(<<"category", Step.shop, c>>)}
         found == {i \in DOMAIN Goods[Step.shop] : Has(<<"product", Step.shop, Goods[Step.shop][i].slug>>)}
     IN \E rows \in IF roots = {} \/ found = {} THEN {{}}
                    ELSE {PagesOf(Step.shop, c) \cup PinsOf(Step.shop, found) : c \in roots} : Put(rows)
  /\ Advance /\ UNCHANGED read

\* A promotion with its rule, reward and target.  No key of the database is its code.
SeedPromotions ==
  /\ Doing("promotions")
  /\ Put({<<"promotion", Step.shop, Step.work>>})
  /\ Advance /\ UNCHANGED read

\* The variants as found: any four, and any two of those, go to the stores as well.
StockRows(shop, found) ==
  ({"location"} \X {shop} \X ToSet(Warehouses))
  \cup ({"stock"} \X {shop} \X ToSet(found) \X {"main", "regional"})
  \cup {<<"stock", shop, found[i], "flagship">> : i \in {j \in DOMAIN found : j <= 4}}
  \cup {<<"stock", shop, found[i], "popup">> : i \in {j \in DOMAIN found : j <= 2}}

SeedInventory ==
  /\ Doing("inventory")
  /\ \E found \in SetToSeqs(SkusOf(Step.shop)) : Put(StockRows(Step.shop, found))
  /\ Advance /\ UNCHANGED read

\* The shop's banners and questions, each unless the shop has any.
BannersAndQuestions(shop) == {<<"banners", shop>>, <<"questions", shop>>}

\* The page, then its sections unless it has any.
SeedCMS ==
  /\ Doing("pages")
  /\ Put({<<"cms page", Step.shop, Step.work>>, <<"cms sections", Step.shop, Step.work>>}
         \cup IF Step.work = Last(ContentPages) THEN BannersAndQuestions(Step.shop) ELSE {})
  /\ Advance /\ UNCHANGED read

\* seedCommerce: a profile per buyer who has an account.
SeedProfiles ==
  /\ Doing("profiles")
  /\ Put({<<"profile", Step.shop, b>> : b \in {c \in {Step.work} : Has(<<"user", c>>)}})
  /\ Advance /\ UNCHANGED read

OrdersOf(shop) == {row \in BagToSet(db) : row[1] = "order" /\ row[2] = shop}

\* A shop that has any order gets none.
CountOrders ==
  /\ Doing("count orders")
  /\ read' = IF OrdersOf(Step.shop) = {} THEN {Step.shop} ELSE {}
  /\ Advance /\ UNCHANGED db

SeedOrders ==
  /\ Doing("orders")
  /\ IF read # {} /\ Has(<<"profile", Step.shop, Step.work.by>>)
        /\ Step.work.skus \cap SkusOf(Step.shop) # {}
     THEN Append1({<<"order", Step.shop, Step.work.no>>}
                  \cup {row \in {<<"address", Step.shop, Step.work.by>>} : ~Has(row)})
     ELSE UNCHANGED db
  /\ Advance /\ UNCHANGED read

SeedReviews ==
  /\ Doing("reviews")
  /\ Put(IF Has(<<"profile", Step.shop, Step.work.by>>) /\ Has(<<"product", Step.shop, Step.work.product>>)
         THEN {<<"review", Step.shop, Step.work.by, Step.work.product>>} ELSE {})
  /\ Advance /\ UNCHANGED read

SeedWishlists ==
  /\ Doing("wishlists")
  /\ Put(IF Has(<<"profile", Step.shop, Step.work.by>>)
         THEN {<<"wish", Step.shop, Step.work.by, k>> : k \in Step.work.skus \cap SkusOf(Step.shop)}
         ELSE {})
  /\ Advance /\ UNCHANGED read

SeedCoupons ==
  /\ Doing("coupons")
  /\ Put({<<"coupon", Step.shop, Step.work>>})
  /\ Advance /\ UNCHANGED read

\* seedPayments reads the shop's orders, customers' ones too.
FindOrders ==
  /\ Doing("find orders")
  /\ read' = {row[3] : row \in OrdersOf(Step.shop)}
  /\ Advance /\ UNCHANGED db

PayOrder(shop, no) == Put({<<"payment", shop, no>>})

SeedPayments ==
  /\ Doing("payments")
  /\ \/ \E no \in read : PayOrder(Step.shop, no) /\ read' = read \ {no}
                         /\ UNCHANGED <<next, runs, spoiled>>
     \/ read = {} /\ Advance /\ UNCHANGED <<db, read>>

-----------------------------------------------------------------------------
StartRun ==
  /\ next = 0 /\ runs < MaxRuns
  /\ next' = 1
  /\ runs' = runs + 1
  /\ read' = {}
  /\ UNCHANGED <<db, spoiled>>

\* An error ends the process; so does whoever started it.
StopRun ==
  /\ next > 0
  /\ next' = 0
  /\ spoiled' = spoiled \cup {Step.shop : i \in {j \in {next} : Doing("orders") /\ read # {}}}
  /\ read' = {}
  /\ UNCHANGED <<db, runs>>

\* Checkout: a customer with a profile buys something in stock.
PlaceOrder(shop) ==
  /\ OrdersOf(shop) \cap {<<"order", shop, "live">>} = {}
  /\ \E b \in ToSet(Buyers) : Has(<<"profile", shop, b>>)
  /\ \E k \in SkusOf(shop) : Has(<<"stock", shop, k, "main">>)
  /\ Append1({<<"order", shop, "live">>})
  /\ spoiled' = spoiled \cup {s \in {shop} : \E i \in DOMAIN Orders[s] : ~Has(<<"order", s, Orders[s][i].no>>)}
  /\ UNCHANGED <<next, read, runs>>

SeedNext ==
  \/ FindTenant \/ SeedUsers \/ SeedTenants \/ SeedCategories \/ SeedSuppliers
  \/ SeedImportedProducts \/ SeedSyncLog \/ SeedAttributes \/ SeedSizeGuides
  \/ SeedCollections \/ SeedCollectionItems \/ SeedStorefront \/ SeedPromotions
  \/ SeedInventory \/ SeedCMS
  \/ SeedProfiles \/ CountOrders \/ SeedOrders \/ SeedReviews \/ SeedWishlists \/ SeedCoupons
  \/ FindOrders \/ SeedPayments
  \/ StartRun \/ StopRun
  \/ \E shop \in ShopSet : PlaceOrder(shop)

-----------------------------------------------------------------------------
\* Guides, collection items, pictures, promotions, reviews, addresses, orders
\* and payments have no key to keep them single.  The supplier's log is not meant to be.
RowsAreSingle == \A row \in BagToSet(db) : row[1] # "log" => db[row] = 1

FeaturedBefore(shop, i) == {j \in DOMAIN Goods[shop] : Goods[shop][j].featured /\ j < i}

(***************************************************************************)
(* seed.ts: "executed successfully".  A run that gets to its end has left  *)
(* a working shop, wherever earlier runs were stopped: what is for sale is *)
(* filed, pictured, coloured and in both warehouses, the first of it is    *)
(* among the editors' picks and the first of what is featured among the    *)
(* featured ones, an outfit has all its items, and the sample orders are   *)
(* paid for.  Sample orders are missing only where a run was stopped among *)
(* them or a customer's order came first, since a shop with any order gets *)
(* none.  And at no time, in none of the runs, is a row there twice,       *)
(* except in the supplier's log.                                           *)
(***************************************************************************)
FinishedSeedIsWhole ==
  /\ RowsAreSingle
  /\ next = Len(Script) + 1 =>
    \A shop \in ShopSet :
      /\ \A i \in DOMAIN Goods[shop] :
           LET p == Goods[shop][i] IN
           /\ Has(<<"category", shop, p.category>>) /\ Has(<<"primary picture", shop, p.slug>>)
           /\ i <= PinLimit => Has(<<"pick", shop, p.slug>>)
           /\ p.featured /\ Cardinality(FeaturedBefore(shop, i)) < FeaturedLimit =>
                Has(<<"feature", shop, p.slug>>)
           /\ \A j \in DOMAIN p.skus :
                /\ Has(<<"stock", shop, p.skus[j], "main">>)
                /\ Has(<<"stock", shop, p.skus[j], "regional">>)
                /\ \E hue \in ToSet(Hues[shop]) : Has(<<"hue", shop, p.skus[j], hue>>)
      /\ \A i \in DOMAIN Outfits[shop] : \A j \in DOMAIN Outfits[shop][i].items :
           Has(<<"item", shop, Outfits[shop][i].slug, Outfits[shop][i].items[j]>>)
      /\ \A i \in DOMAIN Orders[shop] :
           LET no == Orders[shop][i].no IN
           /\ shop \in spoiled \/ Has(<<"order", shop, no>>)
           /\ Has(<<"order", shop, no>>) => Has(<<"payment", shop, no>>)

=============================================================================
