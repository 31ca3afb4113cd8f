------------------------------- MODULE Sourcing -------------------------------
(***************************************************************************)
(* What Redis keeps of the suppliers.                                      *)
(*                                                                         *)
(* The tokens of CJ's API, under two keys with a lifetime reckoned from    *)
(* what CJ answers: refreshed when the access token is gone, and asked for *)
(* anew when CJ does not take the refresh token any more.  Their time is   *)
(* counted in hours.                                                       *)
(*                                                                         *)
(* Looking for products at the suppliers: the caches that stand between a  *)
(* shopper and them.  A page of the search over all suppliers is kept, and *)
(* so is, for longer, the Printful catalog it is cut from and CJ's         *)
(* categories.  What a cache holds is told by the time the supplier said it.*)
(***************************************************************************)
EXTENDS Naturals

CONSTANTS
  Callers,         \* requests to CJ under way at the same time
  Lives,           \* hours an access token CJ hands out may have left
  AccessTTL,       \* DEFAULT_ACCESS_TOKEN_TTL
  RefreshTTL,      \* DEFAULT_REFRESH_TOKEN_TTL, CJ's own term too
  NoToken

ASSUME CjTokensAssumption == Lives \subseteq Nat /\ {AccessTTL, RefreshTTL} \subseteq Nat \ {0, 1}

VARIABLES
  access,          \* what Redis holds: [kept, good, given] hours, or NoToken
  refresh,         \* likewise for the refresh token
  caller           \* caller -> the step it is at and what it holds

tokenVars == <<access, refresh, caller>>

Resting == [at |-> "rest"]

TokenInit ==
  /\ access = NoToken
  /\ refresh = NoToken
  /\ caller = [c \in Callers |-> Resting]

\* Mutant of CalculateTTL: the date CJ gives is not looked at.
DefaultTTL(left, default) == default

\* calculateTTL: the default also for a token with an hour left or less.
CalculateTTL(left, default) == IF left > 1 THEN left ELSE default

\* A token with `left` hours at CJ: how long it is kept, honoured, was given for.
Token(left, default) == [kept |-> CalculateTTL(left, default), good |-> left, given |-> left]

Now(c, step) == caller' = [caller EXCEPT ![c] = step]

\* getAccessToken: a cached token answers at once, as does a Redis error.
LookAccess(c) ==
  /\ caller[c] = Resting
  /\ access = NoToken
  /\ Now(c, [at |-> "refresh"])
  /\ UNCHANGED <<access, refresh>>

\* CJ honours the refresh token it is shown; without one there is nothing to show.
Refreshed(c) ==
  /\ caller[c].at = "refresh"
  /\ refresh # NoToken /\ refresh.good > 0
  /\ \E left \in Lives : Now(c, [at |-> "access", new |-> left])
  /\ UNCHANGED <<access, refresh>>

\* CJ does not, or the key is gone: then both keys are.
NotRefreshed(c) ==
  /\ caller[c].at = "refresh"
  /\ IF refresh = NoToken THEN UNCHANGED <<access, refresh>>
     ELSE access' = NoToken /\ refresh' = NoToken
  /\ Now(c, [at |-> "authenticate"])

\* The call fails on its way: the refresh token stays, and authenticate is next.
RefreshLost(c) ==
  /\ caller[c].at = "refresh"
  /\ refresh # NoToken
  /\ Now(c, [at |-> "authenticate"])
  /\ UNCHANGED <<access, refresh>>

Authenticated(c) ==
  /\ caller[c].at = "authenticate"
  /\ \/ \E left \in Lives : Now(c, [at |-> "access", new |-> left])
     \/ Now(c, Resting)
  /\ UNCHANGED <<access, refresh>>

\* The two keys are set one after the other; Redis may lose either.
StoreAccess(c) ==
  /\ caller[c].at = "access"
  /\ \/ access' = Token(caller[c].new, AccessTTL)
     \/ UNCHANGED access
  /\ Now(c, [at |-> "store"])
  /\ UNCHANGED refresh

StoreRefresh(c) ==
  /\ caller[c].at = "store"
  /\ \/ refresh' = Token(RefreshTTL, RefreshTTL)
     \/ UNCHANGED refresh
  /\ Now(c, Resting)
  /\ UNCHANGED access

\* An hour goes by; no caller holds an answer that long.
Aged(token) ==
  IF token = NoToken THEN NoToken
  ELSE IF token.kept = 1 THEN NoToken
  ELSE [token EXCEPT !.kept = @ - 1, !.good = IF @ = 0 THEN 0 ELSE @ - 1]

HourGoes ==
  /\ \A c \in Callers : caller[c].at \in {"rest", "refresh", "authenticate"}
  /\ access' = Aged(access)
  /\ refresh' = Aged(refresh)
  /\ UNCHANGED caller

TokenNext ==
  \/ \E c \in Callers :
       \/ LookAccess(c) \/ Refreshed(c) \/ NotRefreshed(c) \/ RefreshLost(c)
       \/ Authenticated(c) \/ StoreAccess(c) \/ StoreRefresh(c)
  \/ HourGoes

TokenSpec == TokenInit /\ [][TokenNext]_tokenVars

-----------------------------------------------------------------------------
\* A token CJ gave for more than an hour is not kept longer than CJ honours it,
\* however callers overlap: every request while it is kept would fail, since nothing
\* but its expiry removes it (a token given for less is kept for the default term).
CachedTokenWorks == access # NoToken /\ access.given > 1 => access.good > 0

-----------------------------------------------------------------------------
CONSTANTS
  Readers,         \* requests served at the same time
  PageTTL,         \* searchAllSuppliers' ttlSeconds
  CatalogTTL,      \* CATALOG_TTL and CJ_CATEGORIES_TTL: a day
  MaxTime,         \* bound: time that passes
  Silence          \* nothing is kept, or a supplier said nothing

ASSUME SourcingAssumption == {PageTTL, CatalogTTL, MaxTime} \subseteq Nat \ {0} /\ Silence \notin Nat

VARIABLES
  time,
  catalog,         \* the Printful catalog kept: [asOf, until], or Silence
  categories,      \* CJ's categories, likewise
  page,            \* a page of the search: [printful, cj, until], or Silence
  reader           \* request -> the step it is at and what it holds

sourcingVars == <<time, catalog, categories, page, reader>>

AtRest == [at |-> "rest"]

SourcingInit ==
  /\ time = 1
  /\ catalog = Silence
  /\ categories = Silence
  /\ page = Silence
  /\ reader = [r \in Readers |-> AtRest]

Goes(r, step) == reader' = [reader EXCEPT ![r] = step]

\* searchAllSuppliers asks the suppliers when no page is kept; Printful's own
\* search takes its catalog from the cache.
AskPage(r) ==
  /\ reader[r] = AtRest
  /\ page = Silence
  /\ Goes(r, IF catalog = Silence THEN [at |-> "printful"]
             ELSE [at |-> "cj", printful |-> catalog.asOf])
  /\ UNCHANGED <<time, catalog, categories, page>>

\* A catalog, or an answer without one, which is kept like an empty catalog.
CatalogAnswers(r) ==
  /\ reader[r].at = "printful"
  /\ Goes(r, [at |-> "keep", printful |-> time])
  /\ UNCHANGED <<time, catalog, categories, page>>

\* The catalog is kept from when it arrives in Redis.
KeepCatalog(r) ==
  /\ reader[r].at = "keep"
  /\ \/ catalog' = [asOf |-> reader[r].printful, until |-> time + CatalogTTL]
     \/ UNCHANGED catalog
  /\ Goes(r, [at |-> "cj", printful |-> reader[r].printful])
  /\ UNCHANGED <<time, categories, page>>

\* getCatalog catches what fails: no products, and nothing is kept.
CatalogFails(r) ==
  /\ reader[r].at = "printful"
  /\ Goes(r, [at |-> "cj", printful |-> Silence])
  /\ UNCHANGED <<time, catalog, categories, page>>

\* CJ's answer, or its failure, which Promise.allSettled passes over.
CJSearched(r) ==
  /\ reader[r].at = "cj"
  /\ \E said \in {time, Silence} :
       Goes(r, [at |-> "page", printful |-> reader[r].printful, cj |-> said])
  /\ UNCHANGED <<time, catalog, categories, page>>

\* Mutant of PageUntil: the page is kept as long as the catalog.
PageUntilTomorrow == time + CatalogTTL

PageUntil == time + PageTTL

\* What the suppliers said is kept, also when one or all of them said nothing.
KeepPage(r) ==
  /\ reader[r].at = "page"
  /\ \/ page' = [printful |-> reader[r].printful, cj |-> reader[r].cj, until |-> PageUntil]
     \/ UNCHANGED page
  /\ Goes(r, AtRest)
  /\ UNCHANGED <<time, catalog, categories>>

\* getCategories (CJ): remember() calls it only without a tree.
AskCategories(r) ==
  /\ reader[r] = AtRest
  /\ categories = Silence
  /\ Goes(r, [at |-> "tree"])
  /\ UNCHANGED <<time, catalog, categories, page>>

\* Mutant of TreeRead: a failure is remembered like a tree without branches.
TreeReadOrEmpty(r) ==
  /\ reader[r].at = "tree"
  /\ \E said \in {time, Silence} : Goes(r, [at |-> "plant", tree |-> said])
  /\ UNCHANGED <<time, catalog, categories, page>>

\* It throws rather than return no categories, and so nothing is kept.
TreeRead(r) ==
  /\ reader[r].at = "tree"
  /\ Goes(r, [at |-> "plant", tree |-> time]) \/ Goes(r, AtRest)
  /\ UNCHANGED <<time, catalog, categories, page>>

KeepTree(r) ==
  /\ reader[r].at = "plant"
  /\ \/ categories' = [asOf |-> reader[r].tree, until |-> time + CatalogTTL]
     \/ UNCHANGED categories
  /\ Goes(r, AtRest)
  /\ UNCHANGED <<time, catalog, page>>

Expired(kept) == kept # Silence /\ kept.until <= time + 1

Left(kept) == IF Expired(kept) THEN Silence ELSE kept

\* An answer travels for less than the time from one step to the next.
TimePasses ==
  /\ time < MaxTime
  /\ \A r \in Readers : reader[r].at \in {"rest", "printful", "tree"}
  /\ time' = time + 1
  /\ catalog' = Left(catalog)
  /\ categories' = Left(categories)
  /\ page' = Left(page)
  /\ UNCHANGED reader

SourcingNext ==
  \/ \E r \in Readers :
       \/ AskPage(r) \/ CatalogAnswers(r) \/ KeepCatalog(r) \/ CatalogFails(r)
       \/ CJSearched(r) \/ KeepPage(r)
       \/ AskCategories(r) \/ TreeRead(r) \/ KeepTree(r)
  \/ TimePasses

SourcingSpec == SourcingInit /\ [][SourcingNext]_sourcingVars

-----------------------------------------------------------------------------
\* No cache laid over another keeps a supplier's word for good: a page shows CJ's
\* products as of ten minutes ago and Printful's as of a day and ten minutes ago at
\* the earliest, and the categories are a real answer of CJ's of the last day.
KeptWordIsRecent ==
  /\ page # Silence =>
       /\ page.cj # Silence => time < page.cj + PageTTL
       /\ page.printful # Silence => time < page.printful + CatalogTTL + PageTTL
  /\ categories # Silence => categories.asOf # Silence /\ time < categories.asOf + CatalogTTL

=============================================================================
