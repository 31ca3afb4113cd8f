------------------------------ MODULE Collections -----------------------------
(***************************************************************************)
(* CollectionService: a store's curated collections, one inside another,   *)
(* and the products in them.  Each method checks on rows it read before it *)
(* writes; the database only keeps slugs unique and references in place.   *)
(***************************************************************************)
EXTENDS Naturals

CONSTANTS
  Looks,              \* collections, by slug: a deleted one keeps its slug
  Pieces,             \* what an item may show: [product, variant], a variant of the product
  Curators,            \* requests in progress at the same time
  MaxChanges,         \* bound: requests
  NoLook, Topmost         \* no such collection; not inside another

ASSUME CollectionsAssumption ==
  /\ Topmost \notin Looks
  /\ NoLook \notin [parent : Looks \cup {Topmost}, deleted : BOOLEAN]

VARIABLES
  look,               \* collection -> [parent, deleted], or NoLook
  items,              \* set of [look, product, variant]
  curator,            \* curator -> what it has checked and is about to write
  changes,            \* how much of the bound is used up
  oneByOne,           \* history: no two requests have overlapped
  createdDeep         \* history: collections created inside a nested one

lookVars == <<look, items, curator, changes, oneByOne, createdDeep>>

Resting == [does |-> "nothing"]

LookInit ==
  /\ look = [k \in Looks |-> NoLook]
  /\ items = {}
  /\ curator = [e \in Curators |-> Resting]
  /\ changes = 0
  /\ oneByOne = TRUE
  /\ createdDeep = {}

There(k) == look[k] # NoLook /\ ~look[k].deleted

Present == {k \in Looks : There(k)}

\* What the list shows as of its own.
TopLevel == {k \in Present : look[k].parent = Topmost}

\* Deleted children count: the include does not leave them out.
Children(k) == {j \in Looks : look[j] # NoLook /\ look[j].parent = k}

\* A request arrives, and its checks have passed.
Checked(e, step) ==
  /\ curator[e] = Resting /\ changes < MaxChanges
  /\ changes' = changes + 1
  /\ oneByOne' = (oneByOne /\ \A f \in Curators : curator[f] = Resting)
  /\ curator' = [curator EXCEPT ![e] = step]
  /\ UNCHANGED <<look, items, createdDeep>>

\* createCollection asks of a parent only that it is there.
AskCreate(e, k, up) ==
  /\ k # up /\ up \in {Topmost} \cup Present /\ ~There(k)
  /\ Checked(e, [does |-> "create", look |-> k, parent |-> up])

NewLook(up) == [parent |-> up, deleted |-> FALSE]

\* A slug that a deleted collection or another request's holds is refused.
CreateLook(e) ==
  /\ curator[e].does = "create"
  /\ LET k == curator[e].look
         up == curator[e].parent
     IN \/ /\ look[k] = NoLook
           /\ look' = [look EXCEPT ![k] = NewLook(up)]
           /\ createdDeep' = createdDeep \cup
                IF up = Topmost THEN {} ELSE {j \in {k} : look[up].parent # Topmost}
        \/ look[k] # NoLook /\ UNCHANGED <<look, createdDeep>>
  /\ curator' = [curator EXCEPT ![e] = Resting]
  /\ UNCHANGED <<items, changes, oneByOne>>

\* Mutant of MayNest: only the parent is looked at.
MayNestUnderTop(k, up) == up \in {Topmost} \cup (TopLevel \ {k})

\* updateCollection: the parent is top-level, and the collection has no children.
MayNest(k, up) ==
  up \in {Topmost} \cup {top \in TopLevel \ {k} : Children(k) = {}}

AskUpdate(e, k, up) ==
  /\ There(k) /\ MayNest(k, up)
  /\ Checked(e, [does |-> "update", look |-> k, parent |-> up])

UpdateLook(e) ==
  /\ curator[e].does = "update"
  /\ look' = [look EXCEPT ![curator[e].look].parent = curator[e].parent]
  /\ createdDeep' = createdDeep \ {curator[e].look}
  /\ curator' = [curator EXCEPT ![e] = Resting]
  /\ UNCHANGED <<items, changes, oneByOne>>

\* deleteCollection, softDelete: its children keep their parent.
DeleteLook(e, k) ==
  /\ There(k)
  /\ changes < MaxChanges /\ changes' = changes + 1
  /\ oneByOne' = (oneByOne /\ \A f \in Curators : curator[f] = Resting)
  /\ look' = [look EXCEPT ![k].deleted = TRUE]
  /\ UNCHANGED <<items, curator, createdDeep>>

\* addItem checks product and variant together.
WithPiece(k, piece) ==
  items \cup {[look |-> k, product |-> piece.product, variant |-> piece.variant]}

\* updateItem checks the variant only when it is given one; here it gets a product.
WithProduct(item, piece) == (items \ {item}) \cup {[item EXCEPT !.product = piece.product]}

\* removeItem: what is gone already is no error.
WithoutItem(item) == items \ {item}

ItemsOf(k) == {item \in items : item.look = k}

\* reorderItems changes positions, which nothing here is about.
ChangeItems(e, k, piece) ==
  /\ There(k)
  /\ changes < MaxChanges /\ changes' = changes + 1
  /\ \/ items' = WithPiece(k, piece)
     \/ \E item \in ItemsOf(k) : items' = WithProduct(item, piece)
     \/ \E item \in ItemsOf(k) : items' = WithoutItem(item)
  /\ oneByOne' = (oneByOne /\ \A f \in Curators : curator[f] = Resting)
  /\ UNCHANGED <<look, curator, createdDeep>>

LookNext ==
  \E e \in Curators :
    \/ \E k \in Looks : \/ \E up \in Looks \cup {Topmost} : AskCreate(e, k, up) \/ AskUpdate(e, k, up)
                        \/ DeleteLook(e, k)
                        \/ \E piece \in Pieces : ChangeItems(e, k, piece)
    \/ CreateLook(e) \/ UpdateLook(e)

Nested(k) == look[k] # NoLook /\ look[k].parent # Topmost

(***************************************************************************)
(* updateCollection: nesting is one level deep, since a grandchild is not  *)
(* fetched.  One request at a time, no update puts a collection below a    *)
(* nested one, from either end; only createCollection, which does not ask, *)
(* does.                                                                   *)
(***************************************************************************)
AloneUpdatesNestOnce ==
  oneByOne => \A k \in Looks : Nested(k) /\ Nested(look[k].parent) => k \in createdDeep

=============================================================================
