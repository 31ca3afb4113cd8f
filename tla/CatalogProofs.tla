----------------------------- MODULE CatalogProofs -----------------------------
(***************************************************************************)
(* Proofs about the catalog, for any number of its rows and of requests:   *)
(* the pictures of a product, the collections, the choices a listing       *)
(* offers, what an import does to the identity of variants, and prices;    *)
(* and about the database seed, for any tables of the seeders.  They stand *)
(* in this order; each part has an invariant of its own, and that of the   *)
(* prices rests on that of the imports.                                    *)
(***************************************************************************)
EXTENDS Gallery, Collections, Listing, Catalog, Seed, FiniteSetTheorems, WellFoundedInduction, TLAPS

Write == [at : {"write", "thumbnail"}, picture : Pictures, primary : BOOLEAN, new : BOOLEAN]

TypeOK ==
  /\ gallery \in [Pictures -> {"primary", "plain", "none"}]
  /\ upload \in [Uploaders -> {Ready} \cup Write]
  /\ inTurn \in BOOLEAN

Primary(m) == InGallery(m) /\ gallery[m] = "primary"

\* While requests come in turn, one is under way at most, and one that is to
\* write the primary picture finds the flag cleared.
TurnsAreKept ==
  inTurn =>
    /\ \A e, f \in Uploaders : upload[e] = Ready \/ upload[f] = Ready \/ e = f
    /\ \A m, n \in Pictures : Primary(m) /\ Primary(n) => m = n
    /\ \A e \in Uploaders : upload[e].at = "write" /\ upload[e].primary => \A m \in Pictures : ~Primary(m)

IInv == TypeOK /\ TurnsAreKept

-----------------------------------------------------------------------------
\* A product begins without pictures.
LEMMA InitIInv == GalleryInit => IInv
BY DEF GalleryInit, IInv, TypeOK, TurnsAreKept, Primary, Ready

\* A request that has arrived in turn has the gallery to itself.
LEMMA Arriving ==
  ASSUME IInv, NEW e \in Uploaders, Arrives(e)
  PROVE  /\ inTurn' \in BOOLEAN
         /\ inTurn' => inTurn /\ \A f \in Uploaders : upload[f] = Ready
<1>1. inTurn' = (inTurn /\ \A f \in Uploaders : upload[f] = Ready)
  BY DEF Arrives
<1>2. QED
  BY <1>1

\* Clearing the flag, or not, before a picture is written.
LEMMA Clearing ==
  ASSUME IInv, NEW e \in Uploaders, NEW m \in Pictures, NEW primary \in BOOLEAN,
         BeginMedia(e, m, primary)
  PROVE  IInv'
<1> DEFINE w == [at |-> "write", picture |-> m, primary |-> primary, new |-> ~FoundMedia(m)]
<1>1. /\ gallery' = IF primary THEN Unflagged(gallery) ELSE gallery
      /\ upload' = [upload EXCEPT ![e] = w]
      /\ inTurn' \in BOOLEAN
      /\ inTurn' => inTurn /\ \A f \in Uploaders : upload[f] = Ready
  BY Arriving DEF BeginMedia
<1>2. (~FoundMedia(m)) \in BOOLEAN
  BY DEF FoundMedia
<1>3. w \in Write
  BY <1>2 DEF Write
<1>4. /\ upload' \in [Uploaders -> {Ready} \cup Write] /\ upload'[e] = w
      /\ \A f \in Uploaders \ {e} : upload'[f] = upload[f]
  BY <1>1, <1>3 DEF IInv, TypeOK
<1>5. /\ gallery' \in [Pictures -> {"primary", "plain", "none"}]
      /\ \A n \in Pictures : Primary(n)' => Primary(n) /\ ~primary
  BY <1>1 DEF IInv, TypeOK, Unflagged, Primary, InGallery
<1>6. TypeOK'
  BY <1>1, <1>4, <1>5 DEF TypeOK, Ready
<1>7. TurnsAreKept'
  <2>1. SUFFICES ASSUME inTurn' PROVE TurnsAreKept'
    BY DEF TurnsAreKept
  <2>2. /\ \A f \in Uploaders \ {e} : upload'[f] = Ready
        /\ \A n, o \in Pictures : Primary(n) /\ Primary(o) => n = o
    BY <1>1, <1>4, <2>1 DEF IInv, TurnsAreKept
  <2>3. \A f, g \in Uploaders : upload'[f] = Ready \/ upload'[g] = Ready \/ f = g
    BY <2>2
  <2>4. \A n, o \in Pictures : Primary(n)' /\ Primary(o)' => n = o
    BY <1>5, <2>2
  <2>5. ASSUME NEW f \in Uploaders, upload'[f].at = "write", upload'[f].primary, NEW n \in Pictures
        PROVE  ~Primary(n)'
    <3>1. Ready.at # "write"
      BY DEF Ready
    <3>2. f = e
      BY <2>2, <2>5, <3>1
    <3>3. primary
      BY <1>4, <2>5, <3>2
    <3>4. QED
      BY <1>5, <3>3
  <2>6. QED
    BY <2>3, <2>4, <2>5 DEF TurnsAreKept, Ready
<1>8. QED
  BY <1>6, <1>7 DEF IInv

\* A picture is written as it was announced.
LEMMA Writing ==
  ASSUME IInv, NEW e \in Uploaders, WriteMedia(e)
  PROVE  IInv'
<1>1. upload[e] \in Write /\ upload[e].at = "write"
  BY DEF WriteMedia, IInv, TypeOK, Ready
<1>2. PICK m \in Pictures : m = upload[e].picture /\ upload[e].primary \in BOOLEAN
  BY <1>1 DEF Write
<1>3. /\ \/ gallery' = [gallery EXCEPT ![m] = IF upload[e].primary THEN "primary" ELSE "plain"]
         \/ gallery' = gallery
      /\ upload' = [upload EXCEPT ![e] = IF upload[e].primary THEN [upload[e] EXCEPT !.at = "thumbnail"]
                                         ELSE Ready]
      /\ UNCHANGED inTurn
  BY <1>2 DEF WriteMedia, WithMedia
<1>4. [upload[e] EXCEPT !.at = "thumbnail"] \in Write /\ [upload[e] EXCEPT !.at = "thumbnail"].at = "thumbnail"
  BY <1>1 DEF Write
<1>5. /\ upload' \in [Uploaders -> {Ready} \cup Write] /\ upload'[e].at # "write"
      /\ \A f \in Uploaders \ {e} : upload'[f] = upload[f]
  BY <1>3, <1>4 DEF IInv, TypeOK, Ready
<1>6. /\ gallery' \in [Pictures -> {"primary", "plain", "none"}]
      /\ \A n \in Pictures \ {m} : Primary(n)' => Primary(n)
      /\ Primary(m)' => Primary(m) \/ upload[e].primary
  <2>1. CASE gallery' = gallery
    BY <2>1 DEF IInv, TypeOK, Primary, InGallery
  <2>2. CASE gallery' = [gallery EXCEPT ![m] = IF upload[e].primary THEN "primary" ELSE "plain"]
    <3>1. \A n \in Pictures \ {m} : gallery'[n] = gallery[n]
      BY <1>2, <2>2 DEF IInv, TypeOK
    <3>2. gallery'[m] = IF upload[e].primary THEN "primary" ELSE "plain"
      BY <1>2, <2>2 DEF IInv, TypeOK
    <3>3. gallery' \in [Pictures -> {"primary", "plain", "none"}]
      BY <1>2, <2>2 DEF IInv, TypeOK
    <3>4. \A n \in Pictures \ {m} : Primary(n)' => Primary(n)
      BY <3>1 DEF Primary, InGallery
    <3>5. QED
      BY <3>2, <3>3, <3>4 DEF Primary, InGallery
  <2>3. QED
    BY <1>3, <2>1, <2>2
<1>7. TypeOK'
  BY <1>3, <1>5, <1>6 DEF IInv, TypeOK, Ready
<1>8. TurnsAreKept'
  <2>1. SUFFICES ASSUME inTurn PROVE TurnsAreKept'
    BY <1>3 DEF TurnsAreKept
  <2>2. \A f \in Uploaders \ {e} : upload'[f] = Ready
    BY <1>1, <1>5, <2>1 DEF IInv, TurnsAreKept, Ready
  <2>3. \A n, o \in Pictures : Primary(n)' /\ Primary(o)' => n = o
    <3>1. CASE upload[e].primary
      <4>1. \A n \in Pictures : ~Primary(n)
        BY <1>1, <2>1, <3>1 DEF IInv, TurnsAreKept
      <4>2. \A n \in Pictures : Primary(n)' => n = m
        BY <1>6, <4>1
      <4>3. QED
        BY <4>2
    <3>2. CASE ~upload[e].primary
      <4>1. \A n \in Pictures : Primary(n)' => Primary(n)
        BY <1>6, <3>2
      <4>2. QED
        BY <2>1, <4>1 DEF IInv, TurnsAreKept
    <3>3. QED
      BY <3>1, <3>2
  <2>4. \A f \in Uploaders : upload'[f].at # "write"
    BY <1>5, <2>2 DEF Ready
  <2>5. QED
    BY <2>2, <2>3, <2>4 DEF TurnsAreKept, Ready
<1>9. QED
  BY <1>7, <1>8 DEF IInv

\* The thumbnail is set; the rows are as they were.
LEMMA Finishing ==
  ASSUME IInv, NEW e \in Uploaders, SetThumbnail(e)
  PROVE  IInv'
<1>1. /\ UNCHANGED <<gallery, inTurn>> /\ upload' \in [Uploaders -> {Ready} \cup Write]
      /\ upload'[e] = Ready /\ \A f \in Uploaders \ {e} : upload'[f] = upload[f]
  BY DEF SetThumbnail, IInv, TypeOK
<1>2. QED
  BY <1>1 DEF IInv, TypeOK, TurnsAreKept, Primary, InGallery, Ready

\* What an import leaves: the gallery it found is gone, and of its pictures that
\* are the product's own one at most is the first.
LEMMA Replacing ==
  ASSUME IInv, NEW e \in Uploaders, NEW vs \in SUBSET Trims, NEW ms \in SUBSET Pictures,
         NEW heads \in SUBSET ms, ReplaceGallery(e, vs, ms, heads)
  PROVE  /\ gallery' \in [Pictures -> {"primary", "plain", "none"}]
         /\ \A n, o \in Pictures : Primary(n)' /\ Primary(o)' => n = o
<1>1. /\ gallery' = Imported(Cleared(vs), ms, heads)
      /\ \A g, h \in heads : OwnerOfPicture[g] = OwnerOfPicture[h] => g = h
  BY DEF ReplaceGallery, Answer
<1>2. Cleared(vs) \in [Pictures -> {"primary", "plain", "none"}]
  BY DEF Cleared, IInv, TypeOK
<1>3. /\ gallery' \in [Pictures -> {"primary", "plain", "none"}]
      /\ \A n \in Pictures : Primary(n)' => n \in heads /\ OwnerOfPicture[n] = Product
  BY <1>1, <1>2 DEF Imported, Cleared, Primary, InGallery
<1>4. QED
  BY <1>1, <1>3

\* A picture goes, another thumbnail is set, an import brings a gallery of its own.
LEMMA InOneStep ==
  ASSUME IInv, NEW e \in Uploaders,
         \/ \E m \in Pictures : DeleteMedia(e, m)
         \/ \E m \in Pictures \cup {NoPicture} : ChangeThumbnail(e, m)
         \/ \E vs \in SUBSET Trims, ms \in SUBSET Pictures :
              \E heads \in SUBSET ms : ReplaceGallery(e, vs, ms, heads)
  PROVE  IInv'
<1>1. Arrives(e) /\ UNCHANGED upload
  BY DEF DeleteMedia, ChangeThumbnail, ReplaceGallery
<1>2. /\ gallery' \in [Pictures -> {"primary", "plain", "none"}]
      /\ \/ \A n \in Pictures : Primary(n)' => Primary(n)
         \/ \A n, o \in Pictures : Primary(n)' /\ Primary(o)' => n = o
  <2>1. CASE \E m \in Pictures : DeleteMedia(e, m)
    BY <2>1 DEF DeleteMedia, WithoutMedia, IInv, TypeOK, Primary, InGallery
  <2>2. CASE \E m \in Pictures \cup {NoPicture} : ChangeThumbnail(e, m)
    BY <2>2 DEF ChangeThumbnail, IInv, TypeOK, Primary, InGallery
  <2>3. CASE \E vs \in SUBSET Trims, ms \in SUBSET Pictures :
               \E heads \in SUBSET ms : ReplaceGallery(e, vs, ms, heads)
    BY <2>3, Replacing
  <2>4. QED
    BY <2>1, <2>2, <2>3
<1>3. inTurn' \in BOOLEAN /\ (inTurn' => inTurn /\ \A f \in Uploaders : upload[f] = Ready)
  BY <1>1, Arriving
<1>4. TypeOK'
  BY <1>1, <1>2, <1>3 DEF IInv, TypeOK, Ready
<1>5. TurnsAreKept'
  <2>1. SUFFICES ASSUME inTurn' PROVE TurnsAreKept'
    BY DEF TurnsAreKept
  <2>2. \A f \in Uploaders : upload'[f] = Ready /\ upload'[f].at # "write"
    BY <1>1, <1>3, <2>1 DEF Ready
  <2>3. \A n, o \in Pictures : Primary(n)' /\ Primary(o)' => n = o
    BY <1>2, <1>3, <2>1 DEF IInv, TurnsAreKept
  <2>4. QED
    BY <2>2, <2>3 DEF TurnsAreKept, Ready
<1>6. QED
  BY <1>4, <1>5 DEF IInv

-----------------------------------------------------------------------------
\* Every step keeps the invariant.
LEMMA NextIInv == IInv /\ [GalleryNext]_galleryVars => IInv'
<1>1. SUFFICES ASSUME IInv, [GalleryNext]_galleryVars PROVE IInv'
  OBVIOUS
<1>2. CASE GalleryNext
  BY <1>1, <1>2, Clearing, Writing, Finishing, InOneStep DEF GalleryNext
<1>3. CASE UNCHANGED galleryVars
  BY <1>1, <1>3 DEF galleryVars, IInv, TypeOK, TurnsAreKept, Primary, InGallery, Ready
<1>4. QED
  BY <1>1, <1>2, <1>3

\* The gallery of a product has one primary picture at most while requests come in
\* turn (clearPrimaryMedia), for any number of pictures, of it and of its variants.
THEOREM OnePrimary == GallerySpec => []AloneOnePrimary
<1>1. IInv => AloneOnePrimary
  <2>1. SUFFICES ASSUME IInv, inTurn
        PROVE  Cardinality({m \in Pictures : InGallery(m) /\ gallery[m] = "primary"}) <= 1
    BY DEF AloneOnePrimary
  <2> DEFINE S == {m \in Pictures : InGallery(m) /\ gallery[m] = "primary"}
  <2>2. \A m, n \in S : m = n
    BY <2>1 DEF IInv, TurnsAreKept, Primary
  <2>3. S = {} \/ \E m : S = {m}
    BY <2>2
  <2>4. Cardinality(S) = 0 \/ Cardinality(S) = 1
    BY <2>3, FS_EmptySet, FS_Singleton
  <2>5. QED
    BY <2>4
<1>2. QED
  BY <1>1, InitIInv, NextIInv, PTL DEF GallerySpec

-----------------------------------------------------------------------------
(***************************************************************************)
(* Collections.  A parent is never taken away again, and while requests    *)
(* come one at a time what one of them has checked still holds when it     *)
(* writes.                                                                 *)
(***************************************************************************)
LookRows == [parent : Looks \cup {Topmost}, deleted : BOOLEAN]

LookSteps == [does : {"create", "update"}, look : Looks, parent : Looks \cup {Topmost}]

LookTypeOK ==
  /\ look \in [Looks -> LookRows \cup {NoLook}]
  /\ curator \in [Curators -> {Resting} \cup LookSteps]
  /\ oneByOne \in BOOLEAN

\* A row there is has a parent row, and a request is about rows there are.
ParentsAreKept ==
  /\ \A k \in Looks : look[k] # NoLook /\ look[k].parent # Topmost => look[look[k].parent] # NoLook
  /\ \A e \in Curators : curator[e] # Resting =>
       /\ curator[e].parent # Topmost => look[curator[e].parent] # NoLook
       /\ curator[e].does = "update" => look[curator[e].look] # NoLook

ChecksStillHold ==
  oneByOne =>
    /\ \A e, f \in Curators : curator[e] = Resting \/ curator[f] = Resting \/ e = f
    /\ \A e \in Curators :
         curator[e].does = "update" => MayNest(curator[e].look, curator[e].parent)
    /\ AloneUpdatesNestOnce

LookInv == LookTypeOK /\ ParentsAreKept /\ ChecksStillHold

\* A store begins without collections.
LEMMA InitLookInv == LookInit => LookInv
BY DEF LookInit, LookInv, LookTypeOK, ParentsAreKept, ChecksStillHold,
       AloneUpdatesNestOnce, Nested, Resting

\* The checks of a request change no row; if it is served alone they hold of the
\* rows as it will find them.
LEMMA CheckedKeeps ==
  ASSUME LookInv, NEW e \in Curators, NEW k \in Looks, NEW up \in Looks \cup {Topmost},
         AskCreate(e, k, up) \/ AskUpdate(e, k, up)
  PROVE  LookInv'
<1> USE CollectionsAssumption
        DEF LookInv, LookTypeOK, ParentsAreKept, ChecksStillHold, AskCreate, AskUpdate,
            Checked, LookRows, LookSteps, Resting, Present, There
<1>1. PICK step \in LookSteps :
        /\ curator' = [curator EXCEPT ![e] = step]
        /\ step.parent # Topmost => look[step.parent] # NoLook
        /\ step.does = "update" => look[step.look] # NoLook /\ MayNest(step.look, step.parent)
  <2> DEFINE create == [does |-> "create", look |-> k, parent |-> up]
             update == [does |-> "update", look |-> k, parent |-> up]
  <2>1. CASE AskCreate(e, k, up)
    <3>1. create \in LookSteps /\ curator' = [curator EXCEPT ![e] = create]
      BY <2>1
    <3>2. up # Topmost => look[up] # NoLook
      BY <2>1
    <3> QED
      BY <3>1, <3>2
  <2>2. CASE AskUpdate(e, k, up)
    <3>1. update \in LookSteps /\ curator' = [curator EXCEPT ![e] = update]
      BY <2>2
    <3>2. /\ up # Topmost => look[up] # NoLook
          /\ look[k] # NoLook /\ MayNest(k, up)
      BY <2>2 DEF MayNest, TopLevel
    <3> QED
      BY <3>1, <3>2
  <2> QED
    BY <2>1, <2>2
<1>2. look' = look /\ curator[e] = Resting /\ createdDeep' = createdDeep
      /\ oneByOne' = (oneByOne /\ \A f \in Curators : curator[f] = Resting)
  OBVIOUS
<1>3. LookTypeOK'
  BY <1>1, <1>2
<1>4. ParentsAreKept'
  BY <1>1, <1>2
<1>5. AloneUpdatesNestOnce => (oneByOne' => AloneUpdatesNestOnce')
  BY <1>2 DEF AloneUpdatesNestOnce, Nested
<1>6. \A j, m : MayNest(j, m)' <=> MayNest(j, m)
  BY <1>2 DEF MayNest, TopLevel, Children
<1>7. ChecksStillHold'
  BY <1>1, <1>2, <1>5, <1>6
<1> QED
  BY <1>3, <1>4, <1>7

\* A new collection has no children yet, so nobody becomes a grandchild but
\* the collection itself.
LEMMA CreatingKeeps ==
  ASSUME LookInv, NEW e \in Curators, CreateLook(e)
  PROVE  LookInv'
<1> USE CollectionsAssumption
        DEF LookInv, LookTypeOK, ParentsAreKept, ChecksStillHold, CreateLook, LookRows,
            LookSteps, Resting, NewLook
<1>0. curator[e] \in LookSteps /\ curator' = [curator EXCEPT ![e] = Resting]
      /\ oneByOne' = oneByOne
  OBVIOUS
<1>1. LookTypeOK' /\ ParentsAreKept'
  <2>1. [parent |-> curator[e].parent, deleted |-> FALSE] \in LookRows
    BY <1>0
  <2>2. look' \in [Looks -> LookRows \cup {NoLook}]
    <3> DEFINE k == curator[e].look
               row == [parent |-> curator[e].parent, deleted |-> FALSE]
    <3>1. look' = [look EXCEPT ![k] = row] \/ look' = look
      OBVIOUS
    <3> QED
      BY <2>1, <3>1, ZenonT(30)
  <2>3. LookTypeOK'
    BY <1>0, <2>2
  <2>4. \A j \in Looks : look[j] # NoLook => look'[j] # NoLook
    BY <1>0, <2>1
  <2>5. ParentsAreKept'
    BY <1>0, <2>4
  <2> QED
    BY <2>3, <2>5
<1>2. ASSUME oneByOne PROVE AloneUpdatesNestOnce'
  BY <1>2 DEF AloneUpdatesNestOnce, Nested
<1>3. ASSUME oneByOne PROVE \A f \in Curators : curator'[f] = Resting
  BY <1>0, <1>3
<1>4. ChecksStillHold'
  BY <1>0, <1>2, <1>3
<1> QED
  BY <1>1, <1>4

\* A collection that moves below another has no children, and the other is not
\* nested.
LEMMA UpdatingKeeps ==
  ASSUME LookInv, NEW e \in Curators, UpdateLook(e)
  PROVE  LookInv'
<1> USE CollectionsAssumption
        DEF LookInv, LookTypeOK, ParentsAreKept, ChecksStillHold, UpdateLook, LookRows,
            LookSteps, Resting
<1>0. curator[e] \in LookSteps /\ curator' = [curator EXCEPT ![e] = Resting]
      /\ oneByOne' = oneByOne
  OBVIOUS
<1>1. LookTypeOK' /\ ParentsAreKept'
  <2>1. look[curator[e].look] \in LookRows
    BY <1>0
  <2>2. [look[curator[e].look] EXCEPT !.parent = curator[e].parent] \in LookRows
    BY <1>0, <2>1
  <2>3. LookTypeOK'
    BY <1>0, <2>2
  <2>4. \A j \in Looks : look[j] # NoLook => look'[j] # NoLook
    BY <2>2
  <2>5. ParentsAreKept'
    BY <1>0, <2>4
  <2> QED
    BY <2>3, <2>5
<1>2. ASSUME oneByOne PROVE AloneUpdatesNestOnce'
  BY <1>2 DEF AloneUpdatesNestOnce, Nested, MayNest, TopLevel, Present, There, Children
<1>3. ASSUME oneByOne PROVE \A f \in Curators : curator'[f] = Resting
  BY <1>0, <1>3
<1>4. ChecksStillHold'
  BY <1>0, <1>2, <1>3
<1> QED
  BY <1>1, <1>4

\* Deleting marks a row, and leaves it where it is.
LEMMA DeletingKeeps ==
  ASSUME LookInv, NEW e \in Curators, NEW k \in Looks, DeleteLook(e, k)
  PROVE  LookInv'
<1> USE CollectionsAssumption
        DEF LookInv, LookTypeOK, ParentsAreKept, ChecksStillHold, DeleteLook, LookRows,
            LookSteps, Resting, There
<1>1. /\ look' = [look EXCEPT ![k].deleted = TRUE] /\ UNCHANGED <<curator, createdDeep>>
      /\ oneByOne' = (oneByOne /\ \A f \in Curators : curator[f] = Resting)
  OBVIOUS
<1>2. /\ LookTypeOK'
      /\ \A j \in Looks : look[j] # NoLook =>
           look'[j] # NoLook /\ look'[j].parent = look[j].parent
      /\ \A j \in Looks : look[j] = NoLook => look'[j] = NoLook
  <2>1. look[k] \in LookRows
    OBVIOUS
  <2>2. /\ [look[k] EXCEPT !.deleted = TRUE] \in LookRows
        /\ [look[k] EXCEPT !.deleted = TRUE].parent = look[k].parent
    BY <2>1
  <2>3. look'[k] = [look[k] EXCEPT !.deleted = TRUE] /\ \A j \in Looks \ {k} : look'[j] = look[j]
    BY <1>1
  <2>4. look' \in [Looks -> LookRows \cup {NoLook}]
    BY <1>1, <2>2
  <2> QED
    BY ZenonT(40), <1>1, <2>1, <2>2, <2>3, <2>4
<1>3. ParentsAreKept'
  <2>1. \A j \in Looks : look[j] # NoLook => look[j].parent \in Looks \cup {Topmost}
    OBVIOUS
  <2>2. \A e2 \in Curators : curator[e2] # Resting =>
          curator[e2].parent \in Looks \cup {Topmost} /\ curator[e2].look \in Looks
    OBVIOUS
  <2>3. ParentsAreKept
    OBVIOUS
  <2> QED
    <3> HIDE DEF LookInv, LookTypeOK, DeleteLook, LookRows, LookSteps, There, ChecksStillHold
    <3>1. ASSUME NEW j \in Looks, look'[j] # NoLook, look'[j].parent # Topmost
          PROVE  look'[look'[j].parent] # NoLook
      <4>1. look[j] # NoLook /\ look'[j].parent = look[j].parent
        BY <1>2, <3>1
      <4>2. look[j].parent \in Looks /\ look[look[j].parent] # NoLook
        BY <2>1, <2>3, <3>1, <4>1
      <4> QED
        BY <1>2, <4>1, <4>2
    <3>2. ASSUME NEW f \in Curators, curator'[f] # Resting
          PROVE  /\ curator'[f].parent # Topmost => look'[curator'[f].parent] # NoLook
                 /\ curator'[f].does = "update" => look'[curator'[f].look] # NoLook
      <4>1. curator' = curator
        BY <1>1
      <4>2. curator[f].parent \in Looks \cup {Topmost} /\ curator[f].look \in Looks
        BY <2>2, <3>2, <4>1
      <4> QED
        BY <1>2, <2>3, <3>2, <4>1, <4>2
    <3> QED
      BY <3>1, <3>2
<1>4. AloneUpdatesNestOnce => (oneByOne' => AloneUpdatesNestOnce')
  BY <1>1, <1>2 DEF AloneUpdatesNestOnce, Nested
<1>5. oneByOne' => \A f \in Curators : curator'[f] = Resting
  BY <1>1
<1>6. ChecksStillHold'
  BY <1>1, <1>4, <1>5
<1> QED
  BY <1>2, <1>3, <1>6

\* Items belong to collections, but say nothing of where these are.
LEMMA ItemsAside ==
  ASSUME LookInv, NEW e \in Curators, NEW k \in Looks, NEW piece \in Pieces,
         ChangeItems(e, k, piece)
  PROVE  LookInv'
<1>1. /\ UNCHANGED <<look, curator, createdDeep>>
      /\ oneByOne' = (oneByOne /\ \A f \in Curators : curator[f] = Resting)
  BY DEF ChangeItems
<1>2. \A j, m : MayNest(j, m)' <=> MayNest(j, m)
  BY <1>1 DEF MayNest, TopLevel, Children, Present, There
<1>3. AloneUpdatesNestOnce => (oneByOne' => AloneUpdatesNestOnce')
  BY <1>1 DEF AloneUpdatesNestOnce, Nested
<1> QED
  BY <1>1, <1>2, <1>3 DEF LookInv, LookTypeOK, ParentsAreKept, ChecksStillHold, Resting

\* updateCollection, for any number of collections and requests: one request at a
\* time, no update makes a grandchild; only createCollection does.
THEOREM UpdatesNestOnce == LookInit /\ [][LookNext]_lookVars => []AloneUpdatesNestOnce
<1>1. LookInv /\ [LookNext]_lookVars => LookInv'
  <2> SUFFICES ASSUME LookInv, [LookNext]_lookVars PROVE LookInv'
    OBVIOUS
  <2>1. CASE LookNext
    BY <2>1, CheckedKeeps, CreatingKeeps, UpdatingKeeps, DeletingKeeps, ItemsAside DEF LookNext
  <2>2. CASE UNCHANGED lookVars
    BY <2>2 DEF lookVars, LookInv, LookTypeOK, ParentsAreKept, ChecksStillHold, MayNest,
                TopLevel, Children, Present, There, AloneUpdatesNestOnce, Nested
  <2> QED
    BY <2>1, <2>2
<1>2. LookInv => AloneUpdatesNestOnce
  BY DEF LookInv, ChecksStillHold, AloneUpdatesNestOnce
<1> QED
  BY <1>1, <1>2, InitLookInv, PTL

-----------------------------------------------------------------------------
(***************************************************************************)
(* Least and greatest numbers, which prices are taken from.                *)
(***************************************************************************)
LEMMA NatMin ==
  ASSUME NEW T \in SUBSET Nat, T # {}
  PROVE  \E n \in T : \A m \in T : n <= m
<1>1. IsWellFoundedOn(OpToRel(<, Nat), Nat)
  BY NatLessThanWellFounded
<1>2. PICK n \in T : \A m \in T : ~ (<<m, n>> \in OpToRel(<, Nat))
  BY <1>1, WFMin
<1>3. \A m \in T : ~ (m < n)
  BY <1>2 DEF OpToRel
<1> QED
  BY <1>3

LEMMA MinIs ==
  ASSUME NEW T \in SUBSET Nat, T # {}
  PROVE  Min(T) \in T /\ \A m \in T : Min(T) <= m
BY NatMin DEF Min

\* Of the numbers of a finite set, the one the fewest are above.
LEMMA MaxIs ==
  ASSUME NEW T \in SUBSET Nat, T # {}, IsFiniteSet(T)
  PROVE  Max(T) \in T /\ \A m \in T : m <= Max(T)
<1> DEFINE over(x) == {y \in T : y > x}
           counts == {Cardinality(over(x)) : x \in T}
<1>1. \A x \in T : IsFiniteSet(over(x)) /\ Cardinality(over(x)) \in Nat
  BY FS_Subset, FS_CardinalityType
<1>2. counts \in SUBSET Nat /\ counts # {}
  BY <1>1
<1>3. PICK x \in T : \A y \in T : Cardinality(over(x)) <= Cardinality(over(y))
  <2>1. PICK n \in counts : \A m \in counts : n <= m
    BY <1>2, NatMin
  <2> QED
    BY <2>1
<1>4. ASSUME NEW y \in T, y > x PROVE FALSE
  <2>1. over(y) \in SUBSET over(x) /\ y \in over(x) /\ y \notin over(y)
    <3>1. x \in Nat /\ y \in Nat /\ ~ (y > y)
      OBVIOUS
    <3>2. \A z \in T : z \in Nat /\ (z > y => z > x)
      BY <1>4, <3>1
    <3> QED
      BY <1>4, <3>1, <3>2
  <2>2. /\ Cardinality(over(y)) <= Cardinality(over(x))
        /\ Cardinality(over(x)) = Cardinality(over(y)) => over(x) = over(y)
    BY <1>1, <2>1, FS_Subset
  <2>3. over(x) # over(y)
    BY <2>1
  <2>4. Cardinality(over(x)) <= Cardinality(over(y))
    BY <1>3
  <2> HIDE DEF over
  <2> QED
    BY <1>1, <2>2, <2>3, <2>4
<1>5. \A y \in T : x >= y
  BY <1>4
<1> QED
  BY <1>5 DEF Max

-----------------------------------------------------------------------------
(***************************************************************************)
(* The listing: what its sidebar offers finds something.                   *)
(***************************************************************************)
ListingTypeOK == shelf \in Shelves /\ filters \in Filters \cup {Nobody}

\* Any choice of a brand, a colour or a size keeps the product it was read from.
LEMMA ChoiceKeeps ==
  ASSUME NEW f \in Filters, NEW p \in shelf
  PROVE  /\ \A b : Passes(p, [f EXCEPT !.brands = {}]) /\ p.brand = b
                     => Passes(p, [f EXCEPT !.brands = @ \cup {b}])
         /\ \A c : Passes(p, f) /\ (\E v \in p.variants : v.color = c)
                     => Passes(p, [f EXCEPT !.colors = @ \cup {c}])
         /\ \A s : Passes(p, f) /\ (\E v \in p.variants : v.size = s)
                     => Passes(p, [f EXCEPT !.sizes = @ \cup {s}])
         /\ Passes(p, [f EXCEPT !.least = Anything, !.most = Anything]) /\ p.price # Nobody
              /\ p.price \in Nat
              => /\ Passes(p, [f EXCEPT !.least = Anything, !.most = p.price])
                 /\ Passes(p, [f EXCEPT !.most = Anything, !.least = p.price])
<1> USE DEF Filters, Passes, InCategory, InPrice, HasColor, HasSize
<1>1. ASSUME NEW b, Passes(p, [f EXCEPT !.brands = {}]), p.brand = b
      PROVE  Passes(p, [f EXCEPT !.brands = @ \cup {b}])
  BY <1>1
<1>2. ASSUME NEW c, Passes(p, f), \E v \in p.variants : v.color = c
      PROVE  Passes(p, [f EXCEPT !.colors = @ \cup {c}])
  BY <1>2
<1>3. ASSUME NEW s, Passes(p, f), \E v \in p.variants : v.size = s
      PROVE  Passes(p, [f EXCEPT !.sizes = @ \cup {s}])
  BY <1>3
<1>4. ASSUME Passes(p, [f EXCEPT !.least = Anything, !.most = Anything]), p.price # Nobody,
             p.price \in Nat
      PROVE  /\ Passes(p, [f EXCEPT !.least = Anything, !.most = p.price])
             /\ Passes(p, [f EXCEPT !.most = Anything, !.least = p.price])
  BY <1>4
<1> QED
  BY <1>1, <1>2, <1>3, <1>4

\* Whatever a shopper has chosen, adding one of the offered choices finds a product
\* (getFacets over buildWhere).
THEOREM OfferedChoicesFindHolds == ShelfInit /\ [][ShelfNext]_shelfVars => []OfferedChoicesFind
<1>1. ShelfInit => ListingTypeOK
  BY DEF ShelfInit, ListingTypeOK
<1>2. ListingTypeOK /\ [ShelfNext]_shelfVars => ListingTypeOK'
  BY DEF ListingTypeOK, ShelfNext, Choose, shelfVars
<1>3. ListingTypeOK => OfferedChoicesFind
  <2> SUFFICES ASSUME ListingTypeOK, filters # Nobody PROVE OfferedChoicesFind
    BY DEF OfferedChoicesFind
  <2> DEFINE f == filters
             free == [f EXCEPT !.least = Anything, !.most = Anything]
             prices == PriceFacet(f)
  <2>1. f \in Filters /\ \A p \in shelf : p.price \in Prices \cup {Nobody}
    BY ListingAssumption DEF ListingTypeOK
  <2>2. \A b \in BrandFacet(f) : Listed([f EXCEPT !.brands = @ \cup {b}]) # {}
    BY <2>1, ChoiceKeeps DEF BrandFacet, Listed
  <2>3. \A c \in ColorFacet(f) : Listed([f EXCEPT !.colors = @ \cup {c}]) # {}
    <3>1. ASSUME NEW p \in Listed(f), NEW v \in p.variants
          PROVE  Listed([f EXCEPT !.colors = @ \cup {v.color}]) # {}
      BY <2>1, ChoiceKeeps DEF Listed
    <3> QED
      BY <3>1 DEF ColorFacet
  <2>4. \A s \in SizeFacet(f) : Listed([f EXCEPT !.sizes = @ \cup {s}]) # {}
    <3>1. ASSUME NEW p \in Listed(f), NEW v \in p.variants
          PROVE  Listed([f EXCEPT !.sizes = @ \cup {v.size}]) # {}
      BY <2>1, ChoiceKeeps DEF Listed
    <3> QED
      BY <3>1 DEF SizeFacet
  <2>5. ASSUME NEW m \in prices
        PROVE  /\ Listed([f EXCEPT !.least = Anything, !.most = m]) # {}
               /\ Listed([f EXCEPT !.most = Anything, !.least = m]) # {}
    <3>1. PICK p \in Listed(free) : p.price = m /\ m # Nobody
      BY DEF PriceFacet
    <3>2. p \in shelf /\ Passes(p, free) /\ p.price \in Nat
      BY <2>1, <3>1, ListingAssumption DEF Listed
    <3>3. /\ Passes(p, [f EXCEPT !.least = Anything, !.most = m])
          /\ Passes(p, [f EXCEPT !.most = Anything, !.least = m])
      BY <2>1, <3>1, <3>2, ChoiceKeeps
    <3> QED
      BY <3>2, <3>3 DEF Listed
  <2>6. prices # {} => Min(prices) \in prices /\ Max(prices) \in prices
    <3>1. prices \in SUBSET Prices
      BY <2>1 DEF PriceFacet, Listed
    <3>2. prices \in SUBSET Nat /\ IsFiniteSet(prices)
      BY <3>1, ListingAssumption, FS_Subset
    <3> HIDE DEF prices
    <3> QED
      BY <3>2, MinIs, MaxIs
  <2> QED
    BY <2>2, <2>3, <2>4, <2>5, <2>6 DEF OfferedChoicesFind
<1> QED
  BY <1>1, <1>2, <1>3, PTL

-----------------------------------------------------------------------------
(***************************************************************************)
(* The catalog (PricingRules, Catalog).  What the rows and the requests    *)
(* under way refer to is there, whatever overlaps.                         *)
(***************************************************************************)
CostTables == UNION {[ids -> Nat \cup {None}] : ids \in SUBSET Parts}

PriceTables == UNION {[vs -> Nat] : vs \in SUBSET Variants}

Due == [is : {"due"}]

PricesRead ==
  [is : {"read"}, price : PriceTables, regular : Nat, sale : Nat \cup {None}]

VariantsPriced == [is : {"priced"}, regular : Nat, sale : Nat \cup {None}]

Stages == UNION {[ps -> Due \cup PricesRead \cup VariantsPriced] : ps \in SUBSET Products}

OnRule == [at : {"delete", "list"}, rule : Rules]

Finding == [at : {"eligible"}, rule : Rules, previous : Rules \cup {None}]

Sweeping == [at : {"sweep", "swept"}, rule : Rules, moves : SUBSET Products, clear : SUBSET Rules]

Assigning == [at : {"assign"}, product : Products, rule : Rules \cup {None}]

Importing ==
  [at : {"import"}, store : Stores, item : Items, slug : Slugs, cost : CostTables,
   default : Rules \cup {None}]

Committing ==
  [at : {"commit"}, store : Stores, item : Items, slug : Slugs, cost : CostTables,
   product : Products \cup {None}, rule : Rules \cup {None}, priced : RuleRow \cup {None}]

Recalculations == [at : {"recalculate"}, stage : Stages]

Steps ==
  {Idle} \cup OnRule \cup Finding \cup Sweeping \cup Assigning \cup Importing \cup Committing
    \cup Recalculations

RowsTyped ==
  /\ rule \in [Rules -> RuleRow \cup {None}]
  /\ product \in [Products -> ProductRow \cup {None}]
  /\ variant \in [Variants -> VariantRow \cup {None}]

SupplierTyped ==
  /\ offer \in [Items -> Offers]
  /\ stands \in [Items -> [Parts -> Variants \cup {None}]]

\* The rows refer to rows; a product one of whose variants is deleted was edited.
RowsRefer ==
  /\ \A p \in Products :
       product[p] # None /\ product[p].rule # None => rule[product[p].rule] # None
  /\ \A v \in Variants :
       variant[v] # None => /\ product[variant[v].product] # None
                            /\ variant[v].deleted => variant[v].product \in edited

\* So does what a request has read and is to write to.
StepRefers(q) ==
  /\ q.at = "assign" => product[q.product] # None
  /\ q.at \in {"sweep", "swept"} => \A p \in q.moves : product[p] # None
  /\ q.at = "recalculate" =>
       \A p \in DOMAIN q.stage :
         /\ product[p] # None
         /\ q.stage[p].is = "read" => \A v \in DOMAIN q.stage[p].price : variant[v] # None
  /\ q.at = "commit" => /\ q.product # None => product[q.product] # None
                        /\ q.rule # None => rule[q.rule] # None

\* A supplier's variants stand for different variants, which are there.
StandsRefer ==
  \A i, j \in Items : \A e, f \in Parts :
    stands[i][e] # None => /\ variant[stands[i][e]] # None
                           /\ stands[i][e] = stands[j][f] => i = j /\ e = f

CatalogInv ==
  /\ RowsTyped /\ SupplierTyped /\ clerk \in [Clerks -> Steps]
  /\ RowsRefer /\ StandsRefer
  /\ \A c \in Clerks : StepRefers(clerk[c])

-----------------------------------------------------------------------------
(***************************************************************************)
(* Prices, while requests come one at a time: those of a product follow    *)
(* its rule, or the only request under way is to recalculate them.         *)
(***************************************************************************)
\* All but the clock's part of a rule.
SameTerms(r, q) ==
  /\ r # None /\ q # None
  /\ r.markup = q.markup /\ r.minimum = q.minimum
  /\ r.sale = None => q.sale = None
  /\ r.sale # None => /\ q.sale # None
                      /\ r.sale.type = q.sale.type /\ r.sale.value = q.sale.value

\* The price of a rule's sale, whether it is open now or not.
SaleIs(sale, price, r) ==
  sale # None => r # None /\ r.sale # None /\ sale = SalePrice(price, r.sale)

\* Variants vs of a table of rows follow rule r; a price and a sale price are
\* those of one of them.
VariantsFit(table, vs, r) ==
  \A v \in vs : table[v].cost # None => table[v].price = VariantPrice(table[v].cost, r)

Fits(table, vs, r, price, sale) ==
  /\ VariantsFit(table, vs, r)
  /\ \E v \in vs : price = table[v].price
  /\ SaleIs(sale, price, r)

Follows(p) == Fits(variant, VariantsOf(p), RuleOf(p), product[p].price, product[p].sale)

\* A step is still to recalculate a product that is on rule r.
Waits(q, p, r) ==
  \/ q.at = "list" /\ q.rule = r
  \/ q.at = "recalculate" /\ p \in DOMAIN q.stage

Pending(p) == \E c \in Clerks : Waits(clerk[c], p, product[p].rule)

\* What a recalculation has read of a product, or has written, follows the rule.
StageFits(table, vs, r, stage) ==
  /\ stage.is = "read" =>
       /\ DOMAIN stage.price = vs
       /\ \A v \in vs : stage.price[v] = IF table[v].cost = None THEN table[v].price
                                        ELSE VariantPrice(table[v].cost, r)
       /\ \E v \in vs : stage.regular = stage.price[v]
       /\ SaleIs(stage.sale, stage.regular, r)
  /\ stage.is = "priced" => Fits(table, vs, r, stage.regular, stage.sale)

StageFollows(p, stage) == StageFits(variant, VariantsOf(p), RuleOf(p), stage)

\* An import has read the rule its product is on.
RuleIsRead(q) ==
  /\ q.product # None => product[q.product].rule = q.rule
  /\ q.rule = None => q.priced = None
  /\ q.rule # None => SameTerms(q.priced, rule[q.rule])

StepFollows(q) ==
  /\ q.at = "recalculate" => \A p \in DOMAIN q.stage : StageFollows(p, q.stage[p])
  /\ q.at = "commit" => RuleIsRead(q)
  /\ q.at \in {"import", "commit"} => DOMAIN q.cost # {}

Plain(p) == Live(p) /\ p \notin edited /\ VariantsOf(p) # {}

AlonePrices ==
  /\ \A c, d \in Clerks : clerk[c] # Idle /\ clerk[d] # Idle => c = d
  /\ \A c \in Clerks : StepFollows(clerk[c])
  /\ \A p \in Products : Plain(p) => Follows(p) \/ Pending(p)

PriceInv == CatalogInv /\ (alone => AlonePrices)

-----------------------------------------------------------------------------
\* What is computed of costs and rules is money.
LEMMA PercentIs ==
  ASSUME NEW x \in Nat, NEW n \in Nat
  PROVE  Percent(x, n) \in Nat
<1>1. x * n \in Nat
  OBVIOUS
<1>2. \A m \in Nat : (m + 50) \div 100 \in Nat
  OBVIOUS
<1> QED
  BY <1>1, <1>2 DEF Percent

LEMMA GreaterOf ==
  ASSUME NEW x \in Nat, NEW y \in Nat
  PROVE  Max({x, y}) \in Nat
<1>1. {x, y} \in SUBSET Nat /\ {x, y} # {}
  OBVIOUS
<1>2. IsFiniteSet({x, y})
  <2>1. IsFiniteSet({x})
    BY FS_Singleton
  <2>2. {x, y} = {x} \cup {y}
    OBVIOUS
  <2> QED
    BY <2>1, <2>2, FS_AddElement
<1>3. Max({x, y}) \in {x, y}
  BY <1>1, <1>2, MaxIs
<1> QED
  BY <1>3

LEMMA VariantPriceIs ==
  ASSUME NEW cost \in Nat, NEW r \in RuleRow \cup {None}
  PROVE  VariantPrice(cost, r) \in Nat
<1>1. CASE r # None
  <2>1. r.markup \in Nat /\ r.minimum \in Nat
    BY <1>1 DEF RuleRow
  <2>2. 100 + r.markup \in Nat /\ cost + r.minimum \in Nat
    BY <2>1
  <2>3. Percent(cost, 100 + r.markup) \in Nat
    BY <2>2, PercentIs
  <2> QED
    BY <1>1, <2>2, <2>3, GreaterOf DEF VariantPrice
<1>2. CASE r = None
  BY <1>2 DEF VariantPrice
<1> QED
  BY <1>1, <1>2

LEMMA ShownSaleIs ==
  ASSUME NEW price \in Nat, NEW r \in RuleRow \cup {None}
  PROVE  ShownSale(price, r) \in Nat \cup {None} /\ SaleIs(ShownSale(price, r), price, r)
<1>1. CASE r # None /\ r.sale # None
  <2>1. r.sale.value \in Nat
    BY <1>1 DEF RuleRow, Sale
  <2>2. Percent(price, r.sale.value) \in Nat
    BY <2>1, PercentIs
  <2>3. SalePrice(price, r.sale) \in Nat
    BY <2>1, <2>2 DEF SalePrice
  <2> QED
    BY <1>1, <2>3 DEF ShownSale, SaleIs
<1>2. CASE r = None \/ r.sale = None
  BY <1>2 DEF ShownSale, SaleIs
<1> QED
  BY <1>1, <1>2

LEMMA CostTable ==
  ASSUME NEW cost
  PROVE  /\ cost \in CostTables => /\ DOMAIN cost \subseteq Parts
                                   /\ cost \in [DOMAIN cost -> Nat \cup {None}]
         /\ DOMAIN cost \subseteq Parts /\ cost \in [DOMAIN cost -> Nat \cup {None}]
              => cost \in CostTables
BY DEF CostTables

LEMMA CostsAre ==
  ASSUME NEW cost \in CostTables
  PROVE  LowestCost(cost) \in Nat /\ \A e \in DOMAIN cost : CostOf(cost, e) \in Nat
<1> DEFINE priced == {cost[e] : e \in DOMAIN cost} \ {None, 0}
<1>1. priced \in SUBSET Nat
  BY CostTable
<1>2. LowestCost(cost) \in Nat
  BY <1>1, MinIs, ImportAssumption DEF LowestCost
<1> QED
  BY <1>2, CostTable DEF CostOf

LEMMA FreshIs ==
  /\ RowsTyped /\ Room(product)
       => Fresh(product) \in Products /\ product[Fresh(product)] = None
  /\ RowsTyped /\ Room(variant)
       => Fresh(variant) \in Variants /\ variant[Fresh(variant)] = None
<1>1. ASSUME NEW ids \in SUBSET Nat, NEW S, NEW table \in [ids -> S], Room(table)
      PROVE  Fresh(table) \in ids /\ table[Fresh(table)] = None
  <2> DEFINE unused == {i \in DOMAIN table : table[i] = None}
  <2>1. unused \in SUBSET Nat /\ unused # {}
    BY <1>1 DEF Room
  <2>2. Min(unused) \in unused
    BY <2>1, MinIs
  <2> QED
    BY <2>2 DEF Fresh
<1> QED
  BY <1>1, CatalogAssumption DEF RowsTyped

\* The kinds of steps are told apart by "at".
LEMMA StepKinds ==
  ASSUME NEW q \in Steps
  PROVE  /\ q.at = "idle" => q = Idle
         /\ q.at \in {"delete", "list"} => q \in OnRule
         /\ q.at = "eligible" => q \in Finding
         /\ q.at \in {"sweep", "swept"} => q \in Sweeping
         /\ q.at = "assign" => q \in Assigning
         /\ q.at = "import" => q \in Importing
         /\ q.at = "commit" => q \in Committing
         /\ q.at = "recalculate" => q \in Recalculations
BY DEF Steps, Idle, OnRule, Finding, Sweeping, Assigning, Importing, Committing, Recalculations

\* The products of a recalculation and the prices it has read.
LEMMA StageTable ==
  ASSUME NEW q \in Recalculations
  PROVE  /\ DOMAIN q.stage \subseteq Products
         /\ q.stage \in [DOMAIN q.stage -> Due \cup PricesRead \cup VariantsPriced]
         /\ \A p \in DOMAIN q.stage :
              /\ q.stage[p].is = "read" =>
                   /\ q.stage[p] \in PricesRead
                   /\ DOMAIN q.stage[p].price \subseteq Variants
                   /\ q.stage[p].price \in [DOMAIN q.stage[p].price -> Nat]
              /\ q.stage[p].is = "priced" => q.stage[p] \in VariantsPriced
<1>1. /\ DOMAIN q.stage \subseteq Products
      /\ q.stage \in [DOMAIN q.stage -> Due \cup PricesRead \cup VariantsPriced]
  BY DEF Recalculations, Stages
<1>2. ASSUME NEW s \in Due \cup PricesRead \cup VariantsPriced
      PROVE  /\ s.is = "read" => s \in PricesRead
             /\ s.is = "priced" => s \in VariantsPriced
  BY DEF Due, PricesRead, VariantsPriced
<1>3. ASSUME NEW s \in PricesRead
      PROVE  DOMAIN s.price \subseteq Variants /\ s.price \in [DOMAIN s.price -> Nat]
  BY DEF PricesRead, PriceTables
<1> QED
  BY <1>1, <1>2, <1>3

LEMMA RecalculationIs ==
  ASSUME NEW ps \in SUBSET Products,
         NEW stage \in [ps -> Due \cup PricesRead \cup VariantsPriced]
  PROVE  [at |-> "recalculate", stage |-> stage] \in Recalculations
BY DEF Recalculations, Stages

LEMMA OneStep ==
  ASSUME clerk \in [Clerks -> Steps], NEW c \in Clerks, NEW step \in Steps, Goto(c, step)
  PROVE  /\ clerk' \in [Clerks -> Steps] /\ clerk'[c] = step
         /\ \A d \in Clerks \ {c} : clerk'[d] = clerk[d]
BY DEF Goto

\* Rows come and stay; what referred to them still does.
LEMMA CatalogMoves ==
  ASSUME CatalogInv, RowsTyped', RowsRefer', SupplierTyped', StandsRefer',
         clerk' \in [Clerks -> Steps],
         \A p \in Products : product[p] # None => product'[p] # None,
         \A v \in Variants : variant[v] # None => variant'[v] # None,
         \A d \in Clerks : At(d, "commit") /\ clerk[d].rule # None /\ rule[clerk[d].rule] # None
                             => rule'[clerk[d].rule] # None,
         \A d \in Clerks : clerk'[d] = clerk[d] \/ StepRefers(clerk[d])'
  PROVE  CatalogInv'
<1>1. ASSUME NEW d \in Clerks, clerk'[d] = clerk[d] PROVE StepRefers(clerk[d])'
  <2> DEFINE q == clerk[d]
  <2>1. q \in Steps /\ StepRefers(q)
    BY DEF CatalogInv
  <2>2. q.at = "assign" => product'[q.product] # None
    BY <2>1, StepKinds DEF StepRefers, Assigning
  <2>3. q.at \in {"sweep", "swept"} => \A p \in q.moves : product'[p] # None
    BY <2>1, StepKinds DEF StepRefers, Sweeping
  <2>4. q.at = "recalculate" =>
          \A p \in DOMAIN q.stage :
            /\ product'[p] # None
            /\ q.stage[p].is = "read" => \A v \in DOMAIN q.stage[p].price : variant'[v] # None
    BY <2>1, StepKinds, StageTable DEF StepRefers
  <2>5. q.at = "commit" => /\ q.product # None => product'[q.product] # None
                           /\ q.rule # None => rule'[q.rule] # None
    BY <2>1, StepKinds DEF StepRefers, Committing, At
  <2> QED
    BY <1>1, <2>2, <2>3, <2>4, <2>5 DEF StepRefers
<1> QED
  BY <1>1 DEF CatalogInv

\* A request that reads, or one that ends.
LEMMA ReadOnly ==
  ASSUME CatalogInv, NEW c \in Clerks, NEW step \in Steps, Goto(c, step),
         UNCHANGED <<rows, stands, offer, edited>>, StepRefers(step)
  PROVE  CatalogInv'
<1>1. /\ clerk' \in [Clerks -> Steps] /\ clerk'[c] = step
      /\ \A d \in Clerks \ {c} : clerk'[d] = clerk[d]
  BY OneStep DEF CatalogInv
<1>2. RowsTyped' /\ RowsRefer' /\ SupplierTyped' /\ StandsRefer'
  BY DEF CatalogInv, RowsTyped, RowsRefer, SupplierTyped, StandsRefer, rows
<1>3. StepRefers(clerk[c])'
  BY <1>1 DEF StepRefers, rows
<1> QED
  BY <1>1, <1>2, <1>3, CatalogMoves DEF rows

LEMMA IdleIs == Idle \in Steps /\ StepRefers(Idle)
BY DEF Steps, Idle, StepRefers

\* Rules change; what refers to one keeps it.
LEMMA RulesMove ==
  ASSUME CatalogInv, rule' \in [Rules -> RuleRow \cup {None}], clerk' \in [Clerks -> Steps],
         UNCHANGED <<product, variant, stands, offer, edited>>,
         \A p \in Products : product[p] # None /\ product[p].rule # None
                               => rule'[product[p].rule] # None,
         \A d \in Clerks : At(d, "commit") /\ clerk[d].rule # None
                             => rule'[clerk[d].rule] # None,
         \A d \in Clerks : \/ clerk'[d] = clerk[d]
                           \/ clerk'[d].at \in {"idle", "list"}
  PROVE  CatalogInv'
<1>1. RowsTyped' /\ RowsRefer' /\ SupplierTyped' /\ StandsRefer'
  BY DEF CatalogInv, RowsTyped, RowsRefer, SupplierTyped, StandsRefer
<1>2. \A d \in Clerks : clerk'[d] = clerk[d] \/ StepRefers(clerk[d])'
  BY DEF StepRefers
<1> QED
  BY <1>1, <1>2, CatalogMoves

\* One product's row changes, or is made.
LEMMA ProductMoves ==
  ASSUME CatalogInv, NEW p \in Products, NEW row \in ProductRow,
         product' = [product EXCEPT ![p] = row],
         row.rule # None => rule[row.rule] # None,
         UNCHANGED <<rule, variant, stands, offer, edited>>,
         NEW c \in Clerks, NEW step \in Steps, Goto(c, step), StepRefers(clerk[c])'
  PROVE  CatalogInv'
<1>1. /\ clerk' \in [Clerks -> Steps]
      /\ \A d \in Clerks \ {c} : clerk'[d] = clerk[d]
  BY OneStep DEF CatalogInv
<1>2. product'[p] = row /\ \A q \in Products \ {p} : product'[q] = product[q]
  BY DEF CatalogInv, RowsTyped
<1>3. row # None
  BY CatalogAssumption
<1>4. RowsTyped' /\ SupplierTyped' /\ StandsRefer'
  BY DEF CatalogInv, RowsTyped, SupplierTyped, StandsRefer
<1>5. RowsRefer'
  <2>1. ASSUME NEW v \in Variants, variant[v] # None PROVE variant[v].product \in Products
    BY <2>1 DEF CatalogInv, RowsTyped, VariantRow
  <2> QED
    BY <1>2, <1>3, <2>1 DEF CatalogInv, RowsRefer
<1> QED
  BY <1>1, <1>2, <1>3, <1>4, <1>5, CatalogMoves

\* What recalculateProductPricing is asked for.
LEMMA RecalculateIs ==
  ASSUME NEW ps \in SUBSET Products, NEW c \in Clerks, Recalculate(c, ps)
  PROVE  \E step \in Steps :
           /\ Goto(c, step)
           /\ \/ ps = {} /\ step = Idle
              \/ /\ step.at = "recalculate" /\ DOMAIN step.stage = ps
                 /\ \A p \in ps : step.stage[p].is = "due"
<1>1. CASE ps = {}
  BY <1>1, IdleIs DEF Recalculate, Done
<1>2. CASE ps # {}
  <2> DEFINE stage == [p \in ps |-> [is |-> "due"]]
             step == [at |-> "recalculate", stage |-> stage]
  <2>1. stage \in [ps -> Due \cup PricesRead \cup VariantsPriced]
    BY DEF Due
  <2>2. step \in Steps
    BY <2>1, RecalculationIs DEF Steps
  <2>3. Goto(c, step)
    BY <1>2 DEF Recalculate
  <2>4. step.at = "recalculate" /\ DOMAIN step.stage = ps /\ \A p \in ps : step.stage[p].is = "due"
    OBVIOUS
  <2> QED
    BY <2>2, <2>3, <2>4
<1> QED
  BY <1>1, <1>2

\* A product moves to its next stage, or is through.
LEMMA StageIs ==
  ASSUME clerk \in [Clerks -> Steps], NEW c \in Clerks, At(c, "recalculate"),
         NEW p \in DOMAIN clerk[c].stage, NEW stage \in PricesRead \cup VariantsPriced,
         Stage(c, p, stage)
  PROVE  \E step \in Steps :
           /\ Goto(c, step) /\ step.at = "recalculate"
           /\ DOMAIN step.stage = DOMAIN clerk[c].stage /\ step.stage[p] = stage
           /\ \A q \in DOMAIN clerk[c].stage \ {p} : step.stage[q] = clerk[c].stage[q]
<1>1. clerk[c] \in Recalculations
  BY StepKinds DEF At
<1>2. /\ DOMAIN clerk[c].stage \subseteq Products
      /\ clerk[c].stage \in [DOMAIN clerk[c].stage -> Due \cup PricesRead \cup VariantsPriced]
  BY <1>1, StageTable
<1> DEFINE stages == [clerk[c].stage EXCEPT ![p] = stage]
           step == [at |-> "recalculate", stage |-> stages]
<1>3. stages \in [DOMAIN clerk[c].stage -> Due \cup PricesRead \cup VariantsPriced]
  BY <1>2
<1>4. step \in Steps
  BY <1>2, <1>3, RecalculationIs DEF Steps
<1>5. step = [clerk[c] EXCEPT !.stage[p] = stage]
  BY <1>1 DEF Recalculations
<1>6. Goto(c, step)
  BY <1>5 DEF Stage
<1>7. /\ DOMAIN step.stage = DOMAIN clerk[c].stage /\ step.stage[p] = stage
      /\ \A q \in DOMAIN clerk[c].stage \ {p} : step.stage[q] = clerk[c].stage[q]
  BY <1>2
<1> QED
  BY <1>4, <1>6, <1>7

LEMMA ThroughIs ==
  ASSUME clerk \in [Clerks -> Steps], NEW c \in Clerks, At(c, "recalculate"),
         NEW p \in DOMAIN clerk[c].stage, Through(c, p)
  PROVE  \E step \in Steps :
           /\ Goto(c, step)
           /\ \/ step = Idle /\ DOMAIN clerk[c].stage = {p}
              \/ /\ step.at = "recalculate" /\ DOMAIN step.stage = DOMAIN clerk[c].stage \ {p}
                 /\ \A q \in DOMAIN step.stage : step.stage[q] = clerk[c].stage[q]
<1>1. clerk[c] \in Recalculations
  BY StepKinds DEF At
<1>2. /\ DOMAIN clerk[c].stage \subseteq Products
      /\ clerk[c].stage \in [DOMAIN clerk[c].stage -> Due \cup PricesRead \cup VariantsPriced]
  BY <1>1, StageTable
<1> DEFINE rest == DOMAIN clerk[c].stage \ {p}
           stages == [q \in rest |-> clerk[c].stage[q]]
           step == [at |-> "recalculate", stage |-> stages]
<1>3. CASE rest = {}
  BY <1>3, IdleIs DEF Through, Done
<1>4. CASE rest # {}
  <2>1. rest \in SUBSET Products /\ stages \in [rest -> Due \cup PricesRead \cup VariantsPriced]
    BY <1>2
  <2>2. step \in Steps
    BY <2>1, RecalculationIs DEF Steps
  <2>3. step = [clerk[c] EXCEPT !.stage = stages]
    BY <1>1 DEF Recalculations
  <2>4. Goto(c, step)
    BY <1>4, <2>3 DEF Through
  <2>5. /\ step.at = "recalculate" /\ DOMAIN step.stage = rest
        /\ \A q \in DOMAIN step.stage : step.stage[q] = clerk[c].stage[q]
    OBVIOUS
  <2> QED
    BY <2>2, <2>4, <2>5
<1> QED
  BY <1>3, <1>4

\* The rule a product is on, and the price of each of its variants.
LEMMA RuleOfIs ==
  ASSUME CatalogInv, NEW p \in Products, product[p] # None
  PROVE  RuleOf(p) \in RuleRow \cup {None}
BY DEF CatalogInv, RowsTyped, RuleOf, ProductRow

\* updateRule, applyToAll and the others that change rules.
LEMMA RuleActions ==
  ASSUME CatalogInv, UNCHANGED <<stands, offer>>,
         \/ \E c \in Clerks : \/ \E r \in Rules, terms \in Terms :
                                CreateRule(c, r, terms) \/ UpdateRule(c, r, terms)
                           \/ DeleteRule(c) \/ SweepFails(c)
         \/ Clock
  PROVE  CatalogInv'
<1> USE DEF history
<1>1. clerk \in [Clerks -> Steps] /\ rule \in [Rules -> RuleRow \cup {None}]
  BY DEF CatalogInv, RowsTyped
<1>2. \A terms \in Terms, default \in BOOLEAN : Row(terms, default) \in RuleRow
  BY CatalogAssumption DEF Terms, Row, RuleRow
<1>3. /\ \A p \in Products : product[p] # None /\ product[p].rule # None
                               => product[p].rule \in Rules /\ rule[product[p].rule] # None
      /\ \A d \in Clerks : At(d, "commit") /\ clerk[d].rule # None
                             => clerk[d].rule \in Rules /\ rule[clerk[d].rule] # None
  <2>1. \A d \in Clerks : At(d, "commit") /\ clerk[d].rule # None
                            => clerk[d].rule \in Rules /\ rule[clerk[d].rule] # None
    BY StepKinds DEF CatalogInv, StepRefers, Committing, At
  <2> QED
    BY <2>1 DEF CatalogInv, RowsTyped, RowsRefer, ProductRow
<1>4. \A r \in Rules : [at |-> "list", rule |-> r] \in Steps
  BY DEF Steps, OnRule
<1>5. ASSUME NEW c \in Clerks, NEW r \in Rules, NEW terms \in Terms, CreateRule(c, r, terms)
      PROVE  CatalogInv'
  <2>1. Goto(c, Idle) /\ UNCHANGED <<product, variant, edited>>
    BY <1>5 DEF CreateRule, Asked
  <2>2. rule' = [rule EXCEPT ![r] = Row(terms, FALSE)] /\ Row(terms, FALSE) \in RuleRow
    BY <1>2, <1>5 DEF CreateRule
  <2>3. rule' \in [Rules -> RuleRow \cup {None}] /\ \A q \in Rules : rule[q] # None => rule'[q] # None
    BY <1>1, <2>2, CatalogAssumption
  <2>4. clerk' \in [Clerks -> Steps] /\ \A d \in Clerks : clerk'[d] = clerk[d] \/ clerk'[d] = Idle
    BY <1>1, <2>1, IdleIs, OneStep
  <2>5. \A d \in Clerks : clerk'[d] = clerk[d] \/ clerk'[d].at \in {"idle", "list"}
    BY <2>4 DEF Idle
  <2> QED
    BY <1>3, <2>1, <2>3, <2>4, <2>5, RulesMove
<1>6. ASSUME NEW c \in Clerks, NEW r \in Rules, NEW terms \in Terms, UpdateRule(c, r, terms)
      PROVE  CatalogInv'
  <2>1. Goto(c, [at |-> "list", rule |-> r]) /\ UNCHANGED <<product, variant, edited>>
    BY <1>6 DEF UpdateRule, Asked
  <2>2. /\ rule' = [rule EXCEPT ![r] = Row(terms, rule[r].default)]
        /\ Row(terms, rule[r].default) \in RuleRow
    BY <1>1, <1>2, <1>6 DEF UpdateRule, RuleRow
  <2>3. rule' \in [Rules -> RuleRow \cup {None}] /\ \A q \in Rules : rule[q] # None => rule'[q] # None
    BY <1>1, <2>2, CatalogAssumption
  <2>4. /\ clerk' \in [Clerks -> Steps]
        /\ \A d \in Clerks : clerk'[d] = clerk[d] \/ clerk'[d] = [at |-> "list", rule |-> r]
    BY <1>1, <1>4, <2>1, OneStep
  <2>5. \A d \in Clerks : clerk'[d] = clerk[d] \/ clerk'[d].at \in {"idle", "list"}
    BY <2>4
  <2> QED
    BY <1>3, <2>1, <2>3, <2>4, <2>5, RulesMove
<1>7. ASSUME NEW c \in Clerks, Done(c), UNCHANGED <<product, variant, edited>>,
             rule' \in [Rules -> RuleRow \cup {None}],
             \A q \in Rules : \/ rule[q] # None => rule'[q] # None
                              \/ /\ \A p \in Products : product[p] # None => product[p].rule # q
                                 /\ \A d \in Clerks : At(d, "commit") => clerk[d].rule # q
      PROVE  CatalogInv'
  <2>1. clerk' \in [Clerks -> Steps] /\ \A d \in Clerks : clerk'[d] = clerk[d] \/ clerk'[d] = Idle
    BY <1>1, <1>7, IdleIs, OneStep DEF Done
  <2>2. \A d \in Clerks : clerk'[d] = clerk[d] \/ clerk'[d].at \in {"idle", "list"}
    BY <2>1 DEF Idle
  <2> QED
    BY <1>3, <1>7, <2>1, <2>2, RulesMove
<1>8. ASSUME NEW c \in Clerks, DeleteRule(c) PROVE CatalogInv'
  <2>1. clerk[c].rule \in Rules
    BY <1>1, <1>8, StepKinds DEF DeleteRule, At, OnRule
  <2>2. /\ Done(c) /\ UNCHANGED <<product, variant, edited>>
        /\ \A d \in Clerks : At(d, "commit") => clerk[d].rule # clerk[c].rule
    BY <1>8 DEF DeleteRule
  <2>3. CASE rule' = rule
    BY <1>1, <1>7, <2>2, <2>3
  <2>4. CASE /\ \A p \in Products : product[p] # None => product[p].rule # clerk[c].rule
             /\ rule' = [rule EXCEPT ![clerk[c].rule] = None]
    <3>1. \A q \in Rules : q # clerk[c].rule => rule'[q] = rule[q]
      BY <1>1, <2>4
    <3>2. rule' \in [Rules -> RuleRow \cup {None}]
      BY <1>1, <2>1, <2>4
    <3> QED
      BY <1>7, <2>2, <2>4, <3>1, <3>2
  <2> QED
    BY <1>8, <2>3, <2>4 DEF DeleteRule
<1>9. ASSUME NEW c \in Clerks, SweepFails(c) PROVE CatalogInv'
  <2>1. /\ Done(c) /\ UNCHANGED <<product, variant, edited>>
        /\ \A q \in Rules : \/ rule'[q] = rule[q]
                            \/ rule[q] # None /\ rule'[q] = [rule[q] EXCEPT !.default = FALSE]
        /\ rule' = [q \in Rules |-> rule'[q]]
    BY <1>9 DEF SweepFails
  <2>2. \A q \in Rules : rule[q] # None => [rule[q] EXCEPT !.default = FALSE] \in RuleRow
    BY <1>1 DEF RuleRow
  <2>3. \A q \in Rules : rule'[q] \in RuleRow \cup {None} /\ (rule[q] # None => rule'[q] # None)
    BY <1>1, <2>1, <2>2, CatalogAssumption
  <2>4. rule' \in [Rules -> RuleRow \cup {None}]
    BY <2>1, <2>3
  <2> QED
    BY <1>7, <2>1, <2>3, <2>4
<1>10. ASSUME NEW r \in Rules, TurnOfSale(r) PROVE CatalogInv'
  <2>1. UNCHANGED <<product, variant, clerk, edited>>
    BY <1>10 DEF TurnOfSale
  <2>2. rule[r] \in RuleRow /\ rule[r].sale \in Sale
    BY <1>1, <1>10 DEF TurnOfSale, RuleRow
  <2>3. PICK w \in {"open", "over"} : rule' = [rule EXCEPT ![r].sale.window = w]
    BY <1>10 DEF TurnOfSale
  <2>4. [rule[r] EXCEPT !.sale.window = w] \in RuleRow
    <3>1. [rule[r].sale EXCEPT !.window = w] \in Sale
      BY <2>2 DEF Sale
    <3> QED
      BY <2>2, <3>1 DEF RuleRow
  <2>5. rule' \in [Rules -> RuleRow \cup {None}] /\ \A q \in Rules : rule[q] # None => rule'[q] # None
    BY <1>1, <2>3, <2>4, CatalogAssumption
  <2> QED
    BY <1>1, <1>3, <2>1, <2>5, RulesMove
<1> QED
  BY <1>5, <1>6, <1>8, <1>9, <1>10 DEF Clock

\* Those that only read, or end.
LEMMA ReadActions ==
  ASSUME CatalogInv, NEW c \in Clerks, UNCHANGED <<stands, offer>>,
         \/ \E r \in Rules : AskDelete(c, r) \/ AskApply(c, r)
         \/ \E p \in Products, r \in Rules \cup {None} : AskAssign(c, p, r)
         \/ FindEligible(c) \/ BeginSweep(c) \/ ListProducts(c)
         \/ \E p \in Products : ReadPrices(c, p)
  PROVE  CatalogInv'
<1> USE DEF history
<1>1. clerk \in [Clerks -> Steps] /\ clerk[c] \in Steps
  BY DEF CatalogInv
<1>2. ASSUME NEW r \in Rules, AskDelete(c, r) PROVE CatalogInv'
  <2> DEFINE step == [at |-> "delete", rule |-> r]
  <2>1. step \in Steps /\ StepRefers(step)
    BY <1>2 DEF Steps, OnRule, StepRefers
  <2>2. Goto(c, step) /\ UNCHANGED <<rows, edited>>
    BY <1>2 DEF AskDelete, Asked
  <2> QED
    BY <2>1, <2>2, ReadOnly
<1>3. ASSUME NEW r \in Rules, AskApply(c, r) PROVE CatalogInv'
  <2>1. PICK previous \in FoundDefaults(OwnerOf[r]) :
          Goto(c, [at |-> "eligible", rule |-> r, previous |-> previous])
    BY <1>3 DEF AskApply, Asked
  <2> DEFINE step == [at |-> "eligible", rule |-> r, previous |-> previous]
  <2>2. step \in Steps /\ StepRefers(step)
    BY <1>3 DEF Steps, Finding, StepRefers, FoundDefaults, DefaultsOf
  <2>3. UNCHANGED <<rows, edited>>
    BY <1>3 DEF AskApply, Asked
  <2> QED
    BY <2>1, <2>2, <2>3, ReadOnly
<1>4. ASSUME NEW p \in Products, NEW r \in Rules \cup {None}, AskAssign(c, p, r) PROVE CatalogInv'
  <2> DEFINE step == [at |-> "assign", product |-> p, rule |-> r]
  <2>1. step \in Steps /\ StepRefers(step)
    BY <1>4 DEF AskAssign, Steps, Assigning, StepRefers
  <2>2. Goto(c, step) /\ UNCHANGED <<rows, edited>>
    BY <1>4 DEF AskAssign, Asked
  <2> QED
    BY <2>1, <2>2, ReadOnly
<1>5. CASE FindEligible(c)
  <2>1. clerk[c].rule \in Rules
    BY <1>1, <1>5, StepKinds DEF FindEligible, At, Finding
  <2> DEFINE moves == Eligible(clerk[c].rule, clerk[c].previous)
             step == [at |-> "sweep", rule |-> clerk[c].rule, moves |-> moves, clear |-> {}]
  <2>2. moves \in SUBSET Products /\ \A q \in moves : product[q] # None
    BY DEF Eligible, Live
  <2>3. Goto(c, step) /\ UNCHANGED <<rows, edited>>
    BY <1>5 DEF FindEligible
  <2> HIDE DEF moves
  <2>4. step \in Steps /\ StepRefers(step)
    BY <2>1, <2>2 DEF Steps, Sweeping, StepRefers
  <2> HIDE DEF step
  <2> QED
    BY <2>3, <2>4, ReadOnly
<1>6. CASE BeginSweep(c)
  <2> DEFINE clear == DefaultsOf(OwnerOf[clerk[c].rule]) \ {clerk[c].rule}
             step == [clerk[c] EXCEPT !.at = "swept", !.clear = clear]
  <2>1. clear \in SUBSET Rules
    BY DEF DefaultsOf
  <2>2. clerk[c] \in Sweeping /\ StepRefers(clerk[c]) /\ clerk[c].at = "sweep"
    BY <1>1, <1>6, StepKinds DEF BeginSweep, At, CatalogInv
  <2>3. Goto(c, step) /\ UNCHANGED <<rows, edited>>
    BY <1>6 DEF BeginSweep
  <2> HIDE DEF clear
  <2>4. step \in Sweeping /\ step.at = "swept" /\ step.moves = clerk[c].moves
    BY <2>1, <2>2 DEF Sweeping
  <2> HIDE DEF step
  <2>5. step \in Steps /\ StepRefers(step)
    BY <2>2, <2>4 DEF Steps, StepRefers
  <2> QED
    BY <2>3, <2>5, ReadOnly
<1>7. CASE ListProducts(c)
  <2> DEFINE ps == {q \in Products : Live(q) /\ product[q].rule = clerk[c].rule}
  <2>1. Recalculate(c, ps) /\ UNCHANGED <<rows, edited>> /\ \A q \in ps : product[q] # None
    BY <1>7 DEF ListProducts, Live
  <2>2. ps \in SUBSET Products
    OBVIOUS
  <2> HIDE DEF ps
  <2>3. PICK step \in Steps :
          /\ Goto(c, step)
          /\ \/ ps = {} /\ step = Idle
             \/ /\ step.at = "recalculate" /\ DOMAIN step.stage = ps
                /\ \A q \in ps : step.stage[q].is = "due"
    BY <2>1, <2>2, RecalculateIs
  <2>4. StepRefers(step)
    BY <2>1, <2>3 DEF StepRefers, Idle
  <2> QED
    BY <2>1, <2>3, <2>4, ReadOnly
<1>8. ASSUME NEW p \in Products, ReadPrices(c, p) PROVE CatalogInv'
  <2>1. /\ At(c, "recalculate") /\ p \in DOMAIN clerk[c].stage /\ UNCHANGED <<rows, edited>>
        /\ StepRefers(clerk[c])
    BY <1>8 DEF ReadPrices, Recalculating, CatalogInv
  <2>2. CASE VariantsOf(p) = {}
    <3>1. Through(c, p)
      BY <1>8, <2>2 DEF ReadPrices
    <3>2. PICK step \in Steps :
            /\ Goto(c, step)
            /\ \/ step = Idle /\ DOMAIN clerk[c].stage = {p}
               \/ /\ step.at = "recalculate" /\ DOMAIN step.stage = DOMAIN clerk[c].stage \ {p}
                  /\ \A q \in DOMAIN step.stage : step.stage[q] = clerk[c].stage[q]
      BY <1>1, <2>1, <3>1, ThroughIs
    <3>3. StepRefers(step)
      BY <2>1, <3>2 DEF StepRefers, Idle, At
    <3> QED
      BY <2>1, <3>2, <3>3, ReadOnly
  <2>3. CASE VariantsOf(p) # {}
    <3> DEFINE price == [v \in VariantsOf(p) |->
                           IF variant[v].cost = None THEN variant[v].price
                           ELSE VariantPrice(variant[v].cost, RuleOf(p))]
               prices == {price[v] : v \in VariantsOf(p)}
               sale == ShownSale(Min(prices), RuleOf(p))
               stage == [is |-> "read", price |-> price, regular |-> Min(prices), sale |-> sale]
    <3>1. product[p] # None /\ RuleOf(p) \in RuleRow \cup {None}
      BY <2>1, RuleOfIs DEF StepRefers, At
    <3>2. \A v \in VariantsOf(p) : v \in Variants /\ variant[v] \in VariantRow /\ variant[v] # None
      BY DEF CatalogInv, RowsTyped, VariantsOf
    <3>3. \A v \in VariantsOf(p) : price[v] \in Nat
      BY <3>1, <3>2, VariantPriceIs DEF VariantRow
    <3>4. prices \in SUBSET Nat /\ prices # {}
      BY <2>3, <3>3
    <3>5. Min(prices) \in Nat
      BY <3>4, MinIs
    <3>6. sale \in Nat \cup {None}
      BY <3>1, <3>5, ShownSaleIs
    <3>7. price \in PriceTables /\ DOMAIN price = VariantsOf(p)
      <4>1. price \in [VariantsOf(p) -> Nat] /\ VariantsOf(p) \in SUBSET Variants
        BY <3>3 DEF VariantsOf
      <4> HIDE DEF price
      <4> QED
        BY <4>1 DEF PriceTables
    <3>8. Stage(c, p, stage)
      BY <1>8, <2>3 DEF ReadPrices
    <3> HIDE DEF price, prices, sale
    <3>9. stage \in PricesRead /\ stage.price = price
      BY <3>5, <3>6, <3>7 DEF PricesRead
    <3> HIDE DEF stage
    <3>10. PICK step \in Steps :
             /\ Goto(c, step) /\ step.at = "recalculate"
             /\ DOMAIN step.stage = DOMAIN clerk[c].stage /\ step.stage[p] = stage
             /\ \A q \in DOMAIN clerk[c].stage \ {p} : step.stage[q] = clerk[c].stage[q]
      BY <1>1, <2>1, <3>8, <3>9, StageIs
    <3>11. StepRefers(step)
      BY <2>1, <3>2, <3>7, <3>9, <3>10 DEF StepRefers, At
    <3> QED
      BY <2>1, <3>10, <3>11, ReadOnly
  <2> QED
    BY <2>2, <2>3
<1> QED
  BY <1>2, <1>3, <1>4, <1>5, <1>6, <1>7, <1>8

\* Those that write to a product.
LEMMA ProductActions ==
  ASSUME CatalogInv, NEW c \in Clerks, UNCHANGED <<stands, offer>>,
         \/ \E store \in Stores, slug \in Slugs, given \in {"default", "none"} :
              CreateProduct(c, store, slug, given)
         \/ \E p \in Products : \/ \E slug \in Slugs : Reslug(c, p, slug)
                              \/ DeleteProduct(c, p) \/ WriteProduct(c, p)
         \/ Assign(c)
  PROVE  CatalogInv'
<1> USE DEF history
<1>1. clerk \in [Clerks -> Steps] /\ clerk[c] \in Steps /\ StepRefers(clerk[c])
  BY DEF CatalogInv
<1>2. ASSUME NEW q \in Products, product[q] # None
      PROVE  product[q] \in ProductRow /\ (product[q].rule # None => rule[product[q].rule] # None)
  BY <1>2 DEF CatalogInv, RowsTyped, RowsRefer
\* A request of one statement.
<1>3. ASSUME NEW q \in Products, NEW row \in ProductRow, product' = [product EXCEPT ![q] = row],
             row.rule # None => rule[row.rule] # None,
             Goto(c, Idle), UNCHANGED <<rule, variant, edited>>
      PROVE  CatalogInv'
  <2>1. clerk'[c] = Idle
    BY <1>1, <1>3, IdleIs, OneStep
  <2>2. StepRefers(clerk[c])'
    BY <2>1 DEF StepRefers, Idle
  <2> QED
    BY <1>3, <2>2, IdleIs, ProductMoves
<1>4. ASSUME NEW store \in Stores, NEW slug \in Slugs, NEW given, CreateProduct(c, store, slug, given)
      PROVE  CatalogInv'
  <2>1. PICK r \in IF given = "default" THEN FoundDefaults(store) ELSE {None} :
          product' = [product EXCEPT ![Fresh(product)] =
                        [store |-> store, slug |-> slug, rule |-> r, price |-> None, sale |-> None,
                         deleted |-> FALSE]]
    BY <1>4 DEF CreateProduct
  <2>2. r \in Rules \cup {None} /\ (r # None => rule[r] # None)
    BY <2>1 DEF FoundDefaults, DefaultsOf
  <2> DEFINE row == [store |-> store, slug |-> slug, rule |-> r, price |-> None, sale |-> None,
                     deleted |-> FALSE]
  <2>3. row \in ProductRow /\ (row.rule # None => rule[row.rule] # None)
    BY <2>2 DEF ProductRow
  <2>4. Fresh(product) \in Products
    BY <1>4, FreshIs DEF CreateProduct, CatalogInv
  <2>5. Goto(c, Idle) /\ UNCHANGED <<rule, variant, edited>>
    BY <1>4 DEF CreateProduct, Asked
  <2> HIDE DEF row
  <2> QED
    BY <1>3, <2>1, <2>3, <2>4, <2>5 DEF row
<1>5. ASSUME NEW p \in Products, NEW slug \in Slugs, Reslug(c, p, slug) PROVE CatalogInv'
  <2> DEFINE row == [product[p] EXCEPT !.slug = slug]
  <2>1. product' = [product EXCEPT ![p] = row] /\ product[p] # None
    BY <1>5 DEF Reslug
  <2>2. row \in ProductRow /\ row.rule = product[p].rule
    BY <1>2, <2>1 DEF ProductRow
  <2>3. Goto(c, Idle) /\ UNCHANGED <<rule, variant, edited>>
    BY <1>5 DEF Reslug, Asked
  <2> HIDE DEF row
  <2> QED
    BY <1>2, <1>3, <2>1, <2>2, <2>3
<1>6. ASSUME NEW p \in Products, DeleteProduct(c, p) PROVE CatalogInv'
  <2> DEFINE row == [product[p] EXCEPT !.deleted = TRUE]
  <2>1. product' = [product EXCEPT ![p] = row] /\ product[p] # None
    BY <1>6 DEF DeleteProduct
  <2>2. row \in ProductRow /\ row.rule = product[p].rule
    BY <1>2, <2>1 DEF ProductRow
  <2>3. Goto(c, Idle) /\ UNCHANGED <<rule, variant, edited>>
    BY <1>6 DEF DeleteProduct, Asked
  <2> HIDE DEF row
  <2> QED
    BY <1>2, <1>3, <2>1, <2>2, <2>3
<1>7. CASE Assign(c)
  <2> DEFINE q == clerk[c].product
             r == clerk[c].rule
             row == [product[q] EXCEPT !.rule = r]
  <2>1. q \in Products /\ r \in Rules \cup {None} /\ product[q] # None
    BY <1>1, <1>7, StepKinds DEF Assign, At, Assigning, StepRefers
  <2>2. UNCHANGED <<rule, variant, edited>>
    BY <1>7 DEF Assign
  <2>3. CASE Done(c) /\ product' = product
    BY <2>2, <2>3, IdleIs, ReadOnly DEF Done, rows
  <2>4. CASE /\ r # None => rule[r] # None
             /\ product' = [product EXCEPT ![q] = row]
             /\ Recalculate(c, {q})
    <3>1. row \in ProductRow /\ row.rule = r
      BY <1>2, <2>1 DEF ProductRow
    <3>2. PICK step \in Steps :
            /\ Goto(c, step)
            /\ step.at = "recalculate" /\ DOMAIN step.stage = {q} /\ step.stage[q].is = "due"
      <4>1. {q} \in SUBSET Products /\ {q} # {}
        BY <2>1
      <4> HIDE DEF q
      <4> QED
        BY <2>4, <4>1, RecalculateIs
    <3>3. clerk'[c] = step
      BY <1>1, <3>2, OneStep
    <3>4. product'[q] = row /\ row # None
      BY <2>1, <2>4, <3>1, CatalogAssumption DEF CatalogInv, RowsTyped
    <3>5. StepRefers(clerk[c])'
      BY <3>2, <3>3, <3>4 DEF StepRefers
    <3> HIDE DEF row, q, r
    <3> QED
      BY <2>1, <2>2, <2>4, <3>1, <3>2, <3>5, ProductMoves
  <2> QED
    BY <1>7, <2>3, <2>4 DEF Assign
<1>8. ASSUME NEW p \in Products, WriteProduct(c, p) PROVE CatalogInv'
  <2> DEFINE seen == clerk[c].stage[p]
             row == [product[p] EXCEPT !.price = seen.regular, !.sale = seen.sale]
  <2>1. At(c, "recalculate") /\ p \in DOMAIN clerk[c].stage /\ seen.is = "priced"
    BY <1>8 DEF WriteProduct, Recalculating
  <2>2. seen \in VariantsPriced /\ product[p] # None
    BY <1>1, <2>1, StepKinds, StageTable DEF At, StepRefers
  <2>3. product' = [product EXCEPT ![p] = row] /\ UNCHANGED <<rule, variant, edited>> /\ Through(c, p)
    BY <1>8 DEF WriteProduct
  <2>4. row \in ProductRow /\ row.rule = product[p].rule
    BY <1>2, <2>2 DEF ProductRow, VariantsPriced
  <2>5. PICK step \in Steps :
          /\ Goto(c, step)
          /\ \/ step = Idle /\ DOMAIN clerk[c].stage = {p}
             \/ /\ step.at = "recalculate" /\ DOMAIN step.stage = DOMAIN clerk[c].stage \ {p}
                /\ \A q \in DOMAIN step.stage : step.stage[q] = clerk[c].stage[q]
    BY <1>1, <2>1, <2>3, ThroughIs
  <2>6. clerk'[c] = step
    BY <1>1, <2>5, OneStep
  <2>7. \A q \in Products \ {p} : product'[q] = product[q]
    BY <2>3 DEF CatalogInv, RowsTyped
  <2>8. DOMAIN clerk[c].stage \subseteq Products
    BY <1>1, <2>1, StepKinds, StageTable DEF At
  <2>9. CASE step = Idle
    <3>1. StepRefers(clerk[c])'
      BY <2>6, <2>9 DEF StepRefers, Idle
    <3> HIDE DEF row, seen
    <3> QED
      BY <1>2, <2>2, <2>3, <2>4, <2>5, <3>1, ProductMoves
  <2>10. CASE /\ step.at = "recalculate" /\ DOMAIN step.stage = DOMAIN clerk[c].stage \ {p}
              /\ \A q \in DOMAIN step.stage : step.stage[q] = clerk[c].stage[q]
    <3>1. \A q \in DOMAIN step.stage :
            /\ product'[q] # None
            /\ step.stage[q].is = "read" => \A v \in DOMAIN step.stage[q].price : variant'[v] # None
      BY <1>1, <2>1, <2>3, <2>7, <2>8, <2>10 DEF StepRefers, At
    <3>2. StepRefers(clerk[c])'
      BY <2>6, <2>10, <3>1 DEF StepRefers
    <3> HIDE DEF row, seen
    <3> QED
      BY <1>2, <2>2, <2>3, <2>4, <2>5, <3>2, ProductMoves
  <2> QED
    BY <2>5, <2>9, <2>10
<1> QED
  BY <1>4, <1>5, <1>6, <1>7, <1>8

\* The transaction of a sweep.
LEMMA SweepAction ==
  ASSUME CatalogInv, NEW c \in Clerks, Sweep(c), UNCHANGED <<stands, offer>>
  PROVE  CatalogInv'
<1> DEFINE r == clerk[c].rule
           moves == clerk[c].moves
<1>1. /\ clerk \in [Clerks -> Steps] /\ clerk[c] \in Sweeping /\ r \in Rules
      /\ moves \subseteq Products /\ \A p \in moves : product[p] # None
  BY StepKinds DEF CatalogInv, Sweep, At, Sweeping, StepRefers
<1>2. /\ rule[r] # None /\ rule' = [q \in Rules |-> rule'[q]]
      /\ \A q \in Rules : \/ rule'[q] = rule[q]
                          \/ rule[q] # None /\ rule'[q] = [rule[q] EXCEPT !.default = FALSE]
                          \/ rule[q] # None /\ rule'[q] = [rule[q] EXCEPT !.default = TRUE]
  BY DEF Sweep
<1>3. \A q \in Rules, default \in BOOLEAN :
        rule[q] # None => [rule[q] EXCEPT !.default = default] \in RuleRow
  BY DEF CatalogInv, RowsTyped, RuleRow
<1>4. /\ rule' \in [Rules -> RuleRow \cup {None}]
      /\ \A q \in Rules : rule[q] # None => rule'[q] # None
  <2>1. ASSUME NEW q \in Rules
        PROVE  rule'[q] \in RuleRow \cup {None} /\ (rule[q] # None => rule'[q] # None)
    <3> DEFINE on == [rule[q] EXCEPT !.default = TRUE]
               off == [rule[q] EXCEPT !.default = FALSE]
    <3>1. rule[q] # None => on \in RuleRow /\ off \in RuleRow
      BY <1>3
    <3>2. rule'[q] = rule[q] \/ (rule[q] # None /\ (rule'[q] = on \/ rule'[q] = off))
      BY <1>2
    <3>3. rule[q] \in RuleRow \cup {None}
      BY DEF CatalogInv, RowsTyped
    <3> HIDE DEF on, off
    <3> QED
      BY <3>1, <3>2, <3>3, CatalogAssumption
  <2> QED
    BY <1>2, <2>1
<1>5. /\ product' = [p \in Products |-> product'[p]]
      /\ \A p \in Products \ moves : product'[p] = product[p]
      /\ \A p \in moves : product'[p] = [product[p] EXCEPT !.rule = r]
      /\ UNCHANGED <<variant, edited>>
  BY <1>1 DEF Sweep, history
<1>6. ASSUME NEW p \in moves PROVE product'[p] \in ProductRow /\ product'[p].rule = r
  <2>1. product[p] \in ProductRow
    BY <1>1 DEF CatalogInv, RowsTyped
  <2> QED
    BY <1>1, <1>5, <2>1 DEF ProductRow
<1>7. /\ product' \in [Products -> ProductRow \cup {None}]
      /\ \A p \in Products : product[p] # None => product'[p] # None
  <2>1. \A p \in Products : /\ product'[p] \in ProductRow \cup {None}
                            /\ product[p] # None => product'[p] # None
    BY <1>5, <1>6, CatalogAssumption DEF CatalogInv, RowsTyped
  <2> QED
    BY <1>5, <2>1
<1>8. clerk' \in [Clerks -> Steps] /\ \A d \in Clerks : clerk'[d] = clerk[d] \/ StepRefers(clerk[d])'
  <2>1. [at |-> "list", rule |-> r] \in Steps /\ Goto(c, [at |-> "list", rule |-> r])
    BY <1>1 DEF Steps, OnRule, Sweep
  <2>2. /\ clerk' \in [Clerks -> Steps] /\ clerk'[c] = [at |-> "list", rule |-> r]
        /\ \A d \in Clerks \ {c} : clerk'[d] = clerk[d]
    BY <1>1, <2>1, OneStep
  <2> QED
    BY <2>2 DEF StepRefers
<1>9. RowsTyped' /\ SupplierTyped' /\ StandsRefer'
  BY <1>4, <1>5, <1>7 DEF CatalogInv, RowsTyped, SupplierTyped, StandsRefer
<1>10. RowsRefer'
  <2>1. ASSUME NEW v \in Variants, variant[v] # None PROVE variant[v].product \in Products
    BY <2>1 DEF CatalogInv, RowsTyped, VariantRow
  <2>2. ASSUME NEW p \in Products, product'[p] # None, product'[p].rule # None
        PROVE  rule'[product'[p].rule] # None
    <3>1. CASE p \in moves
      BY <1>1, <1>2, <1>4, <1>6, <3>1
    <3>2. CASE p \notin moves
      <4>1. product'[p] = product[p] /\ product[p].rule \in Rules
        BY <1>5, <2>2, <3>2 DEF CatalogInv, RowsTyped, ProductRow
      <4> QED
        BY <1>4, <2>2, <4>1 DEF CatalogInv, RowsRefer
    <3> QED
      BY <3>1, <3>2
  <2> QED
    BY <1>5, <1>7, <2>1, <2>2 DEF CatalogInv, RowsRefer
<1>11. \A d \in Clerks : At(d, "commit") /\ clerk[d].rule # None /\ rule[clerk[d].rule] # None
                            => rule'[clerk[d].rule] # None
  BY <1>1, <1>4, StepKinds DEF At, Committing
<1> QED
  BY <1>4, <1>5, <1>7, <1>8, <1>9, <1>10, <1>11, CatalogMoves

\* Variants come, change, and stay.
LEMMA VariantsMove ==
  ASSUME CatalogInv, variant' \in [Variants -> VariantRow \cup {None}], edited \subseteq edited',
         UNCHANGED <<rule, product, stands, offer>>,
         \A v \in Variants : variant[v] # None => variant'[v] # None,
         \A v \in Variants : variant'[v] # None =>
           \/ variant'[v] = variant[v]
           \/ /\ product[variant'[v].product] # None
              /\ variant'[v].deleted => variant'[v].product \in edited',
         clerk' \in [Clerks -> Steps],
         \A d \in Clerks : clerk'[d] = clerk[d] \/ StepRefers(clerk[d])'
  PROVE  CatalogInv'
<1>1. RowsTyped' /\ SupplierTyped' /\ StandsRefer'
  BY DEF CatalogInv, RowsTyped, SupplierTyped, StandsRefer
<1>2. RowsRefer'
  BY DEF CatalogInv, RowsRefer
<1> QED
  BY <1>1, <1>2, CatalogMoves

LEMMA VariantActions ==
  ASSUME CatalogInv, NEW c \in Clerks, NEW p \in Products, UNCHANGED <<stands, offer>>,
         WriteVariants(c, p) \/ \E v \in Variants : EditVariant(c, p, v, ListPrice)
  PROVE  CatalogInv'
<1>1. clerk \in [Clerks -> Steps] /\ clerk[c] \in Steps /\ StepRefers(clerk[c])
  BY DEF CatalogInv
<1>2. variant \in [Variants -> VariantRow \cup {None}]
  BY DEF CatalogInv, RowsTyped
<1>3. ASSUME NEW v \in Variants, EditVariant(c, p, v, ListPrice) PROVE CatalogInv'
  <2> DEFINE new == [product |-> p, cost |-> None, price |-> ListPrice, deleted |-> FALSE]
             repriced == [variant[v] EXCEPT !.price = ListPrice]
             gone == [variant[v] EXCEPT !.deleted = TRUE]
  <2>1. product[p] # None /\ edited' = edited \cup {p} /\ UNCHANGED <<rule, product, clerk>>
    BY <1>3 DEF EditVariant
  <2>2. PICK row \in VariantRow : row.product = p /\ variant' = [variant EXCEPT ![v] = row]
    <3>1. CASE variant' = WithVariant(v, p, ListPrice)
      <4>1. new \in VariantRow /\ new.product = p
        BY ImportAssumption DEF VariantRow
      <4> QED
        BY <3>1, <4>1 DEF WithVariant
    <3>2. CASE v \in VariantsOf(p) /\ variant' = Repriced(v, ListPrice)
      <4>1. variant[v] \in VariantRow /\ variant[v].product = p
        BY <1>2, <3>2 DEF VariantsOf
      <4>2. repriced \in VariantRow /\ repriced.product = p
        BY <4>1, ImportAssumption DEF VariantRow
      <4>3. variant' = [variant EXCEPT ![v] = repriced]
        BY <3>2 DEF Repriced
      <4> HIDE DEF repriced
      <4> QED
        BY <4>2, <4>3
    <3>3. CASE v \in VariantsOf(p) /\ variant' = SoftDeleted(v)
      <4>1. variant[v] \in VariantRow /\ variant[v].product = p
        BY <1>2, <3>3 DEF VariantsOf
      <4>2. gone \in VariantRow /\ gone.product = p
        BY <4>1 DEF VariantRow
      <4>3. variant' = [variant EXCEPT ![v] = gone]
        BY <3>3 DEF SoftDeleted
      <4> HIDE DEF gone
      <4> QED
        BY <4>2, <4>3
    <3> QED
      BY <1>3, <3>1, <3>2, <3>3 DEF EditVariant
  <2>3. variant' \in [Variants -> VariantRow \cup {None}] /\ variant'[v] = row /\ row # None
        /\ \A w \in Variants \ {v} : variant'[w] = variant[w]
    BY <1>2, <2>2, CatalogAssumption
  <2>4. edited \subseteq edited' /\ p \in edited'
    BY <2>1
  <2>5. \A w \in Variants : variant[w] # None => variant'[w] # None
    BY <2>3
  <2>6. \A w \in Variants : variant'[w] # None =>
          \/ variant'[w] = variant[w]
          \/ /\ product[variant'[w].product] # None
             /\ variant'[w].deleted => variant'[w].product \in edited'
    BY <2>1, <2>2, <2>3, <2>4
  <2> QED
    BY <1>1, <2>1, <2>3, <2>4, <2>5, <2>6, VariantsMove
<1>4. CASE WriteVariants(c, p)
  <2> DEFINE seen == clerk[c].stage[p]
             stage == [is |-> "priced", regular |-> seen.regular, sale |-> seen.sale]
  <2>1. At(c, "recalculate") /\ p \in DOMAIN clerk[c].stage /\ seen.is = "read"
        /\ UNCHANGED <<rule, product, edited>> /\ Stage(c, p, stage)
    BY <1>4 DEF WriteVariants, Recalculating, history
  <2>2. clerk[c] \in Recalculations
    BY <1>1, <2>1, StepKinds DEF At
  <2>3. /\ seen \in PricesRead /\ DOMAIN seen.price \subseteq Variants
        /\ seen.price \in [DOMAIN seen.price -> Nat]
    BY <2>1, <2>2, StageTable
  <2>4. \A w \in DOMAIN seen.price : variant[w] # None /\ variant[w] \in VariantRow
    BY <1>1, <1>2, <2>1, <2>3 DEF StepRefers, At
  <2>5. variant' = [w \in Variants |->
                      IF w \in DOMAIN seen.price /\ variant[w].cost # None
                      THEN [variant[w] EXCEPT !.price = seen.price[w]] ELSE variant[w]]
    BY <1>4 DEF WriteVariants
  <2>6. stage \in VariantsPriced
    BY <2>3 DEF PricesRead, VariantsPriced
  <2> HIDE DEF stage, seen
  <2>7. \A w \in Variants : \/ variant'[w] = variant[w]
                            \/ /\ w \in DOMAIN seen.price
                               /\ variant'[w] = [variant[w] EXCEPT !.price = seen.price[w]]
    BY <2>5
  <2>8. ASSUME NEW w \in DOMAIN seen.price
        PROVE  LET row == [variant[w] EXCEPT !.price = seen.price[w]] IN
                 row \in VariantRow /\ row.product = variant[w].product /\ row.deleted = variant[w].deleted
    <3>1. variant[w] \in VariantRow /\ seen.price[w] \in Nat
      BY <2>3, <2>4
    <3> QED
      BY <3>1 DEF VariantRow
  <2>9. ASSUME NEW w \in Variants
        PROVE  /\ variant'[w] \in VariantRow \cup {None}
               /\ variant[w] # None => variant'[w] # None
               /\ variant'[w] # None =>
                    \/ variant'[w] = variant[w]
                    \/ /\ product[variant'[w].product] # None
                       /\ variant'[w].deleted => variant'[w].product \in edited'
    <3>1. CASE variant'[w] = variant[w]
      BY <1>2, <3>1
    <3>2. CASE w \in DOMAIN seen.price /\ variant'[w] = [variant[w] EXCEPT !.price = seen.price[w]]
      <4> DEFINE row == [variant[w] EXCEPT !.price = seen.price[w]]
      <4>1. row \in VariantRow /\ row.product = variant[w].product /\ row.deleted = variant[w].deleted
        BY <2>8, <3>2
      <4>2. variant'[w] = row /\ variant[w] # None
        BY <2>4, <3>2
      <4> HIDE DEF row
      <4>3. row # None
        BY <4>1, CatalogAssumption
      <4> QED
        BY <2>1, <4>1, <4>2, <4>3 DEF CatalogInv, RowsRefer
    <3> QED
      BY <2>7, <3>1, <3>2
  <2>10. variant' \in [Variants -> VariantRow \cup {None}]
    BY <2>5, <2>9
  <2>11. PICK step \in Steps :
           /\ Goto(c, step) /\ step.at = "recalculate"
           /\ DOMAIN step.stage = DOMAIN clerk[c].stage /\ step.stage[p] = stage
           /\ \A q \in DOMAIN clerk[c].stage \ {p} : step.stage[q] = clerk[c].stage[q]
    BY <1>1, <2>1, <2>6, StageIs
  <2>12. /\ clerk' \in [Clerks -> Steps] /\ clerk'[c] = step
         /\ \A d \in Clerks \ {c} : clerk'[d] = clerk[d]
    BY <1>1, <2>11, OneStep
  <2>13. stage.is = "priced"
    BY DEF stage
  <2>14. DOMAIN clerk[c].stage \subseteq Products
         /\ \A q \in DOMAIN clerk[c].stage :
              clerk[c].stage[q].is = "read" => DOMAIN clerk[c].stage[q].price \subseteq Variants
    BY <2>2, StageTable
  <2>15. StepRefers(clerk[c])'
    <3>1. ASSUME NEW q \in DOMAIN step.stage
          PROVE  /\ product'[q] # None
                 /\ step.stage[q].is = "read" => \A w \in DOMAIN step.stage[q].price : variant'[w] # None
      BY <1>1, <2>1, <2>9, <2>11, <2>13, <2>14 DEF StepRefers, At
    <3> QED
      BY <2>11, <2>12, <3>1 DEF StepRefers
  <2> QED
    BY <2>1, <2>9, <2>10, <2>12, <2>15, VariantsMove
<1> QED
  BY <1>3, <1>4

\* What the supplier says of an item, without the variants that have no id.
LEMMA NormalizedIs ==
  ASSUME NEW o \in Offers
  PROVE  /\ Normalized(o.cost) \in CostTables /\ o.slug \in Slugs
         /\ DOMAIN Normalized(o.cost) = DOMAIN o.cost \ {NoId}
<1>1. /\ o.slug \in Slugs /\ DOMAIN o.cost \subseteq Parts \cup {NoId}
      /\ o.cost \in [DOMAIN o.cost -> Nat \cup {None}]
  BY ImportAssumption
<1> DEFINE cost == Normalized(o.cost)
<1>2. DOMAIN cost = DOMAIN o.cost \ {NoId} /\ cost \in [DOMAIN cost -> Nat \cup {None}]
  BY <1>1 DEF Normalized
<1> HIDE DEF cost
<1>3. DOMAIN cost \subseteq Parts
  BY <1>1, <1>2
<1>4. cost \in CostTables
  BY <1>2, <1>3, CostTable
<1> QED
  BY <1>1, <1>2, <1>4 DEF cost

\* An import is asked for, finds its product, or fails.
LEMMA ImportActions ==
  ASSUME CatalogInv, NEW c \in Clerks,
         \/ \E store \in Stores, i \in Items : AskImport(c, store, i)
         \/ BeginImport(c) \/ ImportFails(c)
  PROVE  CatalogInv'
<1> USE DEF history, supplierRows
<1>1. clerk \in [Clerks -> Steps] /\ clerk[c] \in Steps
  BY DEF CatalogInv
<1>2. ASSUME NEW store \in Stores, NEW i \in Items, AskImport(c, store, i) PROVE CatalogInv'
  <2> DEFINE cost == Normalized(offer[i].cost)
  <2>1. PICK default \in FoundDefaults(store) :
          /\ Goto(c, [at |-> "import", store |-> store, item |-> i, slug |-> offer[i].slug,
                      cost |-> cost, default |-> default])
          /\ UNCHANGED edited
    BY <1>2 DEF AskImport, Asked
  <2> DEFINE step == [at |-> "import", store |-> store, item |-> i, slug |-> offer[i].slug,
                      cost |-> cost, default |-> default]
  <2>2. offer[i].slug \in Slugs /\ cost \in CostTables
    BY NormalizedIs DEF CatalogInv, SupplierTyped
  <2> HIDE DEF cost
  <2>3. default \in Rules \cup {None}
    BY DEF FoundDefaults, DefaultsOf
  <2>4. step \in Steps /\ StepRefers(step)
    BY <2>2, <2>3 DEF Steps, Importing, StepRefers
  <2>5. UNCHANGED <<rows, stands, offer, edited>>
    BY <1>2, <2>1 DEF AskImport
  <2> QED
    BY <2>1, <2>4, <2>5, ReadOnly
<1>3. CASE BeginImport(c)
  <2> DEFINE job == clerk[c]
             found == ProductWith(job.store, job.slug)
             p == IF found = {} THEN None ELSE Min(found)
             r == IF found = {} THEN job.default ELSE product[Min(found)].rule
             priced == IF r = None THEN None ELSE rule[r]
             step == [at |-> "commit", store |-> job.store, item |-> job.item, slug |-> job.slug,
                      cost |-> job.cost, product |-> p, rule |-> r, priced |-> priced]
  <2>1. /\ At(c, "import") /\ (r # None => rule[r] # None) /\ Goto(c, step)
        /\ UNCHANGED <<rows, stands, offer, edited>>
    BY <1>3 DEF BeginImport
  <2>2. job \in Importing
    BY <1>1, <2>1, StepKinds DEF At
  <2>3. found # {} => Min(found) \in found
    BY MinIs, CatalogAssumption DEF ProductWith
  <2>4. p \in Products \cup {None} /\ (p # None => product[p] # None)
        /\ (p # None => product[p] \in ProductRow /\ r = product[p].rule)
    BY <2>3 DEF ProductWith, CatalogInv, RowsTyped
  <2>5. r \in Rules \cup {None}
    BY <2>2, <2>3, <2>4 DEF Importing, ProductRow, ProductWith, CatalogInv, RowsTyped
  <2>6. priced \in RuleRow \cup {None}
    BY <2>5 DEF CatalogInv, RowsTyped
  <2> HIDE DEF p, r, priced
  <2>7. step \in Steps
    BY <2>2, <2>4, <2>5, <2>6 DEF Importing, Steps, Committing
  <2>8. StepRefers(step)
    BY <2>1, <2>4 DEF StepRefers
  <2> QED
    BY <2>1, <2>7, <2>8, ReadOnly
<1>4. CASE ImportFails(c)
  <2>1. Goto(c, Idle) /\ UNCHANGED <<rows, stands, offer, edited>>
    BY <1>4 DEF ImportFails, Done
  <2> QED
    BY <2>1, IdleIs, ReadOnly
<1> QED
  BY <1>2, <1>3, <1>4

\* What an import writes, its product and the ids of its variants known.
From(job, at) ==
  {variant[at[e]].product : e \in {f \in DOMAIN job.cost : variant[at[f]] # None}}

Commits(c, job, at) ==
  /\ job \in Committing /\ job.product \in Products
  /\ job = [clerk[c] EXCEPT !.product = job.product]
  /\ \/ clerk[c].product = job.product
     \/ clerk[c].product = None /\ product[job.product] = None
  /\ at \in Placements(job)
  /\ product' = [product EXCEPT ![job.product] = ImportedProduct(job)]
  /\ stands' = [stands EXCEPT ![job.item] =
                  [e \in Parts |-> IF e \in DOMAIN job.cost THEN at[e] ELSE stands[job.item][e]]]
  /\ variant' = [v \in Variants |-> variant'[v]]
  /\ \A v \in Variants :
       \/ variant'[v] = variant[v] /\ \A e \in DOMAIN job.cost : at[e] # v
       \/ \E e \in DOMAIN job.cost : at[e] = v /\ variant'[v] = ImportedVariant(job, e, v)
  /\ edited' = edited \cup IF From(job, at) \subseteq {job.product} THEN {}
                           ELSE From(job, at) \cup {job.product}
  /\ Goto(c, Idle) /\ UNCHANGED <<rule, offer>>

LEMMA CommitIs ==
  ASSUME CatalogInv, NEW c \in Clerks, CommitImport(c)
  PROVE  \E job, at : Commits(c, job, at)
<1> DEFINE p == IF clerk[c].product = None THEN Fresh(product) ELSE clerk[c].product
           job == [clerk[c] EXCEPT !.product = IF @ = None THEN Fresh(product) ELSE @]
           at == CHOOSE at \in Placements(job) : TRUE
<1>1. clerk[c] \in Committing
  BY StepKinds DEF CommitImport, At, CatalogInv
<1>2. /\ p \in Products
      /\ clerk[c].product = p \/ (clerk[c].product = None /\ product[p] = None)
  <2>1. CASE clerk[c].product = None
    BY <2>1, FreshIs DEF CommitImport, CatalogInv
  <2>2. CASE clerk[c].product # None
    BY <1>1, <2>2 DEF Committing
  <2> QED
    BY <2>1, <2>2
<1>3. job = [clerk[c] EXCEPT !.product = p]
  BY <1>1 DEF Committing
<1>4. /\ Placements(job) # {}
      /\ product' = [product EXCEPT ![job.product] = ImportedProduct(job)]
      /\ stands' = [stands EXCEPT ![job.item] =
                      [e \in Parts |-> IF e \in DOMAIN job.cost THEN at[e] ELSE stands[job.item][e]]]
      /\ variant' = [v \in Variants |->
                       IF \E e \in DOMAIN job.cost : at[e] = v
                       THEN ImportedVariant(job, CHOOSE e \in DOMAIN job.cost : at[e] = v, v)
                       ELSE variant[v]]
      /\ edited' = edited \cup IF From(job, at) \subseteq {job.product} THEN {}
                               ELSE From(job, at) \cup {job.product}
      /\ Goto(c, Idle) /\ UNCHANGED <<rule, offer>>
  BY DEF CommitImport, From, Done
<1>5. job.product = p /\ job \in Committing
  <2> HIDE DEF p, job
  <2> QED
    BY <1>1, <1>2, <1>3 DEF Committing
<1> HIDE DEF job, p
<1>6. at \in Placements(job)
  BY <1>4
<1> HIDE DEF at
<1>7. \A v \in Variants :
        \/ variant'[v] = variant[v] /\ \A e \in DOMAIN job.cost : at[e] # v
        \/ \E e \in DOMAIN job.cost : at[e] = v /\ variant'[v] = ImportedVariant(job, e, v)
  <2>1. ASSUME NEW v \in Variants, \E e \in DOMAIN job.cost : at[e] = v
        PROVE  \E e \in DOMAIN job.cost : at[e] = v /\ variant'[v] = ImportedVariant(job, e, v)
    <3> DEFINE f == CHOOSE e \in DOMAIN job.cost : at[e] = v
    <3>1. f \in DOMAIN job.cost /\ at[f] = v
      BY <2>1
    <3>2. variant'[v] = ImportedVariant(job, f, v)
      BY <1>4, <2>1
    <3> QED
      BY <3>1, <3>2
  <2>2. ASSUME NEW v \in Variants, ~\E e \in DOMAIN job.cost : at[e] = v
        PROVE  variant'[v] = variant[v]
    BY <1>4, <2>2
  <2> QED
    BY <2>1, <2>2
<1>8. variant' = [v \in Variants |-> variant'[v]]
  BY <1>4
<1>9. job = [clerk[c] EXCEPT !.product = job.product]
  BY <1>3, <1>5
<1>10. Commits(c, job, at)
  BY <1>2, <1>4, <1>5, <1>6, <1>7, <1>8, <1>9 DEF Commits
<1> QED
  BY <1>10

\* The rows it writes.
LEMMA ImportedIs ==
  ASSUME CatalogInv, NEW job \in Committing, job.product \in Products
  PROVE  /\ ImportedProduct(job) \in ProductRow /\ ImportedProduct(job).rule = job.rule
         /\ \A e \in DOMAIN job.cost : VariantPrice(CostOf(job.cost, e), job.priced) \in Nat
         /\ \A e \in DOMAIN job.cost, v \in Variants :
              ImportedVariant(job, e, v) \in VariantRow
<1>1. job.cost \in CostTables /\ job.priced \in RuleRow \cup {None}
  BY DEF Committing
<1>2. \A e \in DOMAIN job.cost :
        /\ CostOf(job.cost, e) \in Nat
        /\ VariantPrice(CostOf(job.cost, e), job.priced) \in Nat
  BY <1>1, CostsAre, VariantPriceIs
<1>3. ShownPrice(job) \in Nat
  <2> DEFINE prices == {VariantPrice(CostOf(job.cost, e), job.priced) : e \in DOMAIN job.cost}
  <2>1. prices \in SUBSET Nat
    BY <1>2
  <2>2. DOMAIN job.cost # {} => prices # {}
    OBVIOUS
  <2>3. prices # {} => Min(prices) \in Nat
    BY <2>1, MinIs
  <2>4. LowestCost(job.cost) \in Nat
    BY <1>1, CostsAre
  <2> HIDE DEF prices
  <2> QED
    BY <2>2, <2>3, <2>4 DEF ShownPrice, prices
<1>4. ShownSale(ShownPrice(job), job.priced) \in Nat \cup {None}
  BY <1>1, <1>3, ShownSaleIs
<1>5. product[job.product] \in ProductRow \cup {None}
  BY DEF CatalogInv, RowsTyped
<1>6. ImportedProduct(job) \in ProductRow /\ ImportedProduct(job).rule = job.rule
  BY <1>3, <1>4, <1>5 DEF ImportedProduct, ProductRow, Committing
<1>7. ASSUME NEW e \in DOMAIN job.cost, NEW v \in Variants
      PROVE  ImportedVariant(job, e, v) \in VariantRow
  <2>1. variant[v] \in VariantRow \cup {None}
    BY DEF CatalogInv, RowsTyped
  <2> QED
    BY <1>2, <2>1 DEF ImportedVariant, VariantRow
<1> QED
  BY <1>2, <1>6, <1>7

\* The ids it places its variants at.
LEMMA PlacedIs ==
  ASSUME CatalogInv, NEW job \in Committing, NEW at \in Placements(job)
  PROVE  /\ at \in [DOMAIN job.cost -> Variants] /\ DOMAIN job.cost \subseteq Parts
         /\ \A e \in DOMAIN job.cost :
              /\ stands[job.item][e] # None => at[e] = stands[job.item][e]
              /\ stands[job.item][e] = None => variant[at[e]] = None
              /\ \A f \in DOMAIN job.cost : at[e] = at[f] => e = f
<1>1. job.cost \in CostTables
  BY DEF Committing
<1> QED
  BY <1>1, CostTable DEF Placements, StandIn

\* A link stays, and a new one is to a row nobody else's link is to.
LEMMA LinksStay ==
  ASSUME CatalogInv, NEW c \in Clerks, NEW job, NEW at, Commits(c, job, at)
  PROVE  /\ stands' \in [Items -> [Parts -> Variants \cup {None}]]
         /\ \A i \in Items, e \in Parts : stands[i][e] # None => stands'[i][e] = stands[i][e]
         /\ StandsRefer'
<1> DEFINE k == job.item
<1>1. /\ job \in Committing /\ k \in Items
      /\ at \in [DOMAIN job.cost -> Variants] /\ DOMAIN job.cost \subseteq Parts
      /\ \A e \in DOMAIN job.cost :
           /\ stands[k][e] # None => at[e] = stands[k][e]
           /\ stands[k][e] = None => variant[at[e]] = None
           /\ \A f \in DOMAIN job.cost : at[e] = at[f] => e = f
  BY PlacedIs DEF Commits, Committing
<1>2. stands \in [Items -> [Parts -> Variants \cup {None}]]
  BY DEF CatalogInv, SupplierTyped
<1>3. stands' = [stands EXCEPT ![k] =
                   [e \in Parts |-> IF e \in DOMAIN job.cost THEN at[e] ELSE stands[k][e]]]
  BY DEF Commits
<1> HIDE DEF k
<1>4. stands' \in [Items -> [Parts -> Variants \cup {None}]]
  BY <1>1, <1>2, <1>3
<1>5. /\ \A i \in Items \ {k} : stands'[i] = stands[i]
      /\ \A e \in DOMAIN job.cost : stands'[k][e] = at[e]
      /\ \A e \in Parts \ DOMAIN job.cost : stands'[k][e] = stands[k][e]
  BY <1>1, <1>2, <1>3
<1>6. \A v \in Variants : variant[v] # None => variant'[v] # None
  BY ImportedIs, CatalogAssumption DEF Commits
<1>7. \A e \in DOMAIN job.cost : variant'[at[e]] # None
  BY <1>1, ImportedIs, CatalogAssumption DEF Commits
<1>8. ASSUME NEW i \in Items, NEW e \in Parts, stands'[i][e] # None
      PROVE  \/ stands'[i][e] = stands[i][e]
             \/ /\ i = k /\ e \in DOMAIN job.cost /\ stands'[i][e] = at[e]
                /\ stands[i][e] = None /\ variant[at[e]] = None
  BY <1>1, <1>5
<1>9. ASSUME NEW i \in Items, NEW j \in Items, NEW e \in Parts, NEW f \in Parts,
             stands'[i][e] # None
      PROVE  /\ variant'[stands'[i][e]] # None
             /\ stands'[i][e] = stands'[j][f] => i = j /\ e = f
  <2>1. variant'[stands'[i][e]] # None
    BY <1>2, <1>6, <1>7, <1>8, <1>9 DEF CatalogInv, StandsRefer
  <2>2. ASSUME stands'[i][e] = stands'[j][f] PROVE i = j /\ e = f
    <3>1. stands'[j][f] # None
      BY <1>9, <2>2
    <3>2. CASE stands'[i][e] = stands[i][e] /\ stands'[j][f] = stands[j][f]
      <4>1. stands[i][e] # None /\ stands[i][e] = stands[j][f]
        BY <1>9, <2>2, <3>2
      <4> QED
        BY <4>1 DEF CatalogInv, StandsRefer
    <3>3. CASE /\ i = k /\ e \in DOMAIN job.cost /\ stands'[i][e] = at[e]
               /\ stands[i][e] = None /\ variant[at[e]] = None
      <4>1. CASE stands'[j][f] = stands[j][f]
        BY <2>2, <3>1, <3>3, <4>1 DEF CatalogInv, StandsRefer
      <4>2. CASE j = k /\ f \in DOMAIN job.cost /\ stands'[j][f] = at[f]
        BY <1>1, <2>2, <3>3, <4>2
      <4> QED
        BY <1>8, <3>1, <4>1, <4>2
    <3>4. CASE /\ j = k /\ f \in DOMAIN job.cost /\ stands'[j][f] = at[f]
               /\ variant[at[f]] = None /\ stands'[i][e] = stands[i][e]
      BY <1>9, <2>2, <3>4 DEF CatalogInv, StandsRefer
    <3> QED
      BY <1>8, <1>9, <3>1, <3>2, <3>3, <3>4
  <2> QED
    BY <2>1, <2>2
<1>10. ASSUME NEW i \in Items, NEW e \in Parts, stands[i][e] # None
       PROVE  stands'[i][e] = stands[i][e]
  BY <1>1, <1>5, <1>10
<1>11. StandsRefer'
  BY <1>9 DEF StandsRefer
<1> QED
  BY <1>4, <1>10, <1>11

LEMMA CommitAction ==
  ASSUME CatalogInv, NEW c \in Clerks, CommitImport(c)
  PROVE  CatalogInv'
<1>1. PICK job, at : Commits(c, job, at)
  BY CommitIs
<1> DEFINE p == job.product
           row == ImportedProduct(job)
<1>2. /\ job \in Committing /\ p \in Products /\ product' = [product EXCEPT ![p] = row]
      /\ row \in ProductRow /\ row.rule = job.rule
      /\ UNCHANGED <<rule, offer>> /\ Goto(c, Idle)
      /\ edited \subseteq edited'
  BY <1>1, ImportedIs DEF Commits
<1>3. /\ at \in [DOMAIN job.cost -> Variants] /\ DOMAIN job.cost \subseteq Parts
  BY <1>1, PlacedIs DEF Commits
<1>4. job.rule # None => rule[job.rule] # None
  <2>1. clerk[c] \in Committing /\ clerk[c].rule = job.rule
    BY ZenonT(40), <1>1, StepKinds DEF CommitImport, At, CatalogInv, Commits, Committing
  <2> QED
    BY <2>1 DEF CatalogInv, StepRefers, Committing
<1> HIDE DEF row, p
<1>5. /\ product' \in [Products -> ProductRow \cup {None}] /\ product'[p] = row /\ row # None
      /\ \A q \in Products \ {p} : product'[q] = product[q]
  BY <1>2, CatalogAssumption DEF CatalogInv, RowsTyped
<1>6. ASSUME NEW v \in Variants
      PROVE  /\ variant'[v] \in VariantRow \cup {None}
             /\ variant[v] # None => variant'[v] # None
             /\ variant'[v] # None =>
                  /\ product'[variant'[v].product] # None
                  /\ variant'[v].deleted => variant'[v].product \in edited'
  <2>1. CASE variant'[v] = variant[v]
    <3>1. variant[v] # None => variant[v] \in VariantRow /\ variant[v].product \in Products
      BY DEF CatalogInv, RowsTyped, VariantRow
    <3> QED
      BY <1>2, <1>5, <2>1, <3>1 DEF CatalogInv, RowsRefer, RowsTyped
  <2>2. ASSUME NEW e \in DOMAIN job.cost, at[e] = v, variant'[v] = ImportedVariant(job, e, v)
        PROVE  <1>6!2
    <3>1. variant'[v] \in VariantRow
      BY <1>1, <2>2, ImportedIs DEF Commits
    <3>2. variant'[v].product = p
      BY <2>2 DEF ImportedVariant, p
    <3>3. ASSUME variant'[v].deleted PROVE p \in edited'
      <4>1. variant[v] # None /\ variant[v].deleted
        <5>1. variant'[v].deleted = (variant[v] # None /\ variant[v].deleted)
          BY <2>2 DEF ImportedVariant
        <5> QED
          BY <3>3, <5>1
      <4>2. variant[v].product \in edited
        BY <4>1 DEF CatalogInv, RowsRefer
      <4>3. variant[v].product \in From(job, at)
        BY <2>2, <4>1 DEF From
      <4>4. edited' = edited \cup IF From(job, at) \subseteq {p} THEN {} ELSE From(job, at) \cup {p}
        BY <1>1 DEF Commits, p
      <4> QED
        BY <4>2, <4>3, <4>4
    <3>4. variant'[v] # None
      BY <3>1, CatalogAssumption
    <3> QED
      BY <1>2, <1>5, <3>1, <3>2, <3>3, <3>4
  <2> QED
    BY <1>1, <2>1, <2>2 DEF Commits
<1>7. variant' \in [Variants -> VariantRow \cup {None}]
  <2>1. variant' = [v \in Variants |-> variant'[v]]
    BY <1>1 DEF Commits
  <2> QED
    BY <1>6, <2>1
<1>8. RowsTyped'
  BY <1>2, <1>5, <1>7 DEF RowsTyped, CatalogInv
<1>9. RowsRefer'
  <2>1. ASSUME NEW q \in Products, product'[q] # None, product'[q].rule # None
        PROVE  rule'[product'[q].rule] # None
    BY <1>2, <1>4, <1>5, <2>1 DEF CatalogInv, RowsRefer
  <2> QED
    BY <1>6, <2>1 DEF RowsRefer
<1>10. SupplierTyped' /\ StandsRefer'
  BY <1>1, <1>2, LinksStay DEF SupplierTyped, CatalogInv
<1>11. /\ clerk' \in [Clerks -> Steps]
       /\ \A d \in Clerks : clerk'[d] = clerk[d] \/ StepRefers(clerk[d])'
  <2>1. /\ clerk' \in [Clerks -> Steps] /\ clerk'[c] = Idle
        /\ \A d \in Clerks \ {c} : clerk'[d] = clerk[d]
    BY <1>2, IdleIs, OneStep DEF CatalogInv
  <2>2. StepRefers(clerk[c])'
    BY <2>1 DEF StepRefers, Idle
  <2> QED
    BY <2>1, <2>2
<1>12. \A q \in Products : product[q] # None => product'[q] # None
  BY <1>5
<1> QED
  BY <1>2, <1>6, <1>8, <1>9, <1>10, <1>11, <1>12, CatalogMoves

-----------------------------------------------------------------------------
LEMMA InitCatalogInv == Init => CatalogInv
<1> SUFFICES ASSUME Init PROVE CatalogInv
  OBVIOUS
<1>1. rule \in [Rules -> RuleRow \cup {None}]
  <2>1. \A r \in DOMAIN Given : Given[r] \in RuleRow
    BY ImportAssumption
  <2> QED
    BY <2>1 DEF Init
<1>2. \A c \in Clerks : clerk[c] = Idle
  BY DEF Init
<1>3. clerk \in [Clerks -> Steps] /\ \A c \in Clerks : StepRefers(clerk[c])
  <2>1. clerk \in [Clerks -> Steps]
    BY IdleIs DEF Init
  <2> QED
    BY <1>2, <2>1, IdleIs
<1>4. RowsTyped /\ SupplierTyped
  BY <1>1 DEF Init, ImportInit, RowsTyped, SupplierTyped
<1>5. RowsRefer /\ StandsRefer
  BY DEF Init, ImportInit, RowsRefer, StandsRefer
<1> QED
  BY <1>3, <1>4, <1>5 DEF CatalogInv

LEMMA CatalogIsKept ==
  ASSUME CatalogInv, [Next]_catalogVars
  PROVE  CatalogInv'
<1>1. CASE UNCHANGED catalogVars
  <2>1. UNCHANGED <<rule, product, variant, clerk, offer, stands, edited>>
    BY <1>1 DEF catalogVars, rows, supplierRows, history
  <2>2. \A q : StepRefers(q) => StepRefers(q)'
    BY <2>1 DEF StepRefers
  <2>3. RowsTyped' /\ SupplierTyped' /\ RowsRefer' /\ StandsRefer' /\ clerk' \in [Clerks -> Steps]
    BY <2>1 DEF CatalogInv, RowsTyped, SupplierTyped, RowsRefer, StandsRefer
  <2> QED
    BY <2>1, <2>2, <2>3 DEF CatalogInv
<1>2. CASE RuleNext /\ UNCHANGED <<offer, supplierRows>>
  <2>1. UNCHANGED <<stands, offer>>
    BY <1>2 DEF supplierRows
  <2> QED
    BY <1>2, <2>1, RuleActions, ReadActions, ProductActions, VariantActions, SweepAction DEF RuleNext
<1>3. CASE Clock /\ UNCHANGED <<offer, supplierRows>>
  BY <1>3, RuleActions DEF supplierRows
<1>4. CASE StaffNext /\ UNCHANGED <<offer, supplierRows>>
  <2>1. UNCHANGED <<stands, offer>>
    BY <1>4 DEF supplierRows
  <2> QED
    BY <1>4, <2>1, ReadActions, ProductActions, VariantActions DEF StaffNext
<1>5. CASE ImportNext
  BY <1>5, ImportActions, CommitAction DEF ImportNext
<1>6. CASE Supplier
  <2>1. PICK i \in Items, o \in Offers : Reoffer(i, o)
    BY <1>6 DEF Supplier
  <2>2. UNCHANGED <<rule, product, variant, clerk, stands, edited>> /\ offer' \in [Items -> Offers]
    BY <2>1 DEF Reoffer, rows, supplierRows, history, CatalogInv, SupplierTyped
  <2>3. RowsTyped' /\ SupplierTyped' /\ RowsRefer' /\ StandsRefer' /\ clerk' \in [Clerks -> Steps]
    BY <2>2 DEF CatalogInv, RowsTyped, SupplierTyped, RowsRefer, StandsRefer
  <2>4. \A q : StepRefers(q) => StepRefers(q)'
    BY <2>2 DEF StepRefers
  <2> QED
    BY <2>2, <2>3, <2>4 DEF CatalogInv
<1> QED
  BY <1>1, <1>2, <1>3, <1>4, <1>5, <1>6 DEF Next

\* importProduct: a supplier's variant stays the catalog variant it became, and
\* no two become one, whatever requests, sweeps and imports overlap.
THEOREM ReimportKeepsVariantsHolds == Spec => ReimportKeepsVariants
<1>1. ASSUME CatalogInv, [Next]_catalogVars
      PROVE  [\A i \in Items : \A e \in Parts :
                /\ stands[i][e] # None => stands'[i][e] = stands[i][e]
                /\ \A j \in Items : \A f \in Parts :
                     stands'[i][e] # None /\ stands'[i][e] = stands'[j][f]
                       => i = j /\ e = f]_catalogVars
  <2>1. StandsRefer'
    BY <1>1, CatalogIsKept DEF CatalogInv
  <2>2. \A i, j \in Items : \A e, f \in Parts :
          stands'[i][e] # None /\ stands'[i][e] = stands'[j][f] => i = j /\ e = f
    BY <2>1 DEF StandsRefer
  <2>3. UNCHANGED stands \/ \E c \in Clerks : CommitImport(c)
    <3>1. CASE ImportNext
      BY <3>1 DEF ImportNext, AskImport, BeginImport, ImportFails, supplierRows
    <3>2. CASE Supplier
      BY <3>2 DEF Supplier, Reoffer, supplierRows
    <3> QED
      BY <1>1, <3>1, <3>2 DEF Next, catalogVars, supplierRows
  <2>4. \A i \in Items, e \in Parts : stands[i][e] # None => stands'[i][e] = stands[i][e]
    <3>1. ASSUME NEW c \in Clerks, CommitImport(c)
          PROVE  \A i \in Items, e \in Parts : stands[i][e] # None => stands'[i][e] = stands[i][e]
      BY <1>1, <3>1, CommitIs, LinksStay
    <3> QED
      BY <2>3, <3>1
  <2> QED
    BY <2>2, <2>4
<1>2. QED
  BY <1>1, InitCatalogInv, CatalogIsKept, PTL DEF Spec, ReimportKeepsVariants

-----------------------------------------------------------------------------
\* A rule prices as it did before, whatever the clock makes of its sale.
Alike(r, q) == r = q \/ SameTerms(r, q)

\* Nothing a product's prices depend on has changed.
Still(p) ==
  /\ VariantsOf(p)' = VariantsOf(p)
  /\ \A v \in VariantsOf(p) : variant'[v] = variant[v]
  /\ Alike(RuleOf(p), RuleOf(p)')
  /\ product'[p].price = product[p].price /\ product'[p].sale = product[p].sale
  /\ Live(p)' => Live(p)
  /\ edited \subseteq edited'

LEMMA AlikeIs ==
  ASSUME NEW r, NEW q, Alike(r, q)
  PROVE  /\ \A cost : VariantPrice(cost, r) = VariantPrice(cost, q)
         /\ \A sale, price : SaleIs(sale, price, r) => SaleIs(sale, price, q)
<1>1. CASE r = q
  BY <1>1
<1>2. CASE SameTerms(r, q)
  <2>1. \A cost : VariantPrice(cost, r) = VariantPrice(cost, q)
    BY <1>2 DEF SameTerms, VariantPrice
  <2>2. r.sale # None =>
          /\ q # None /\ q.sale # None
          /\ \A price : SalePrice(price, r.sale) = SalePrice(price, q.sale)
    BY <1>2 DEF SameTerms, SalePrice
  <2> QED
    BY <2>1, <2>2 DEF SaleIs
<1> QED
  BY <1>1, <1>2 DEF Alike

LEMMA FitsStill ==
  ASSUME NEW table, NEW other, NEW vs, NEW r, NEW q, Alike(r, q), \A v \in vs : other[v] = table[v]
  PROVE  /\ \A price, sale : Fits(table, vs, r, price, sale) => Fits(other, vs, q, price, sale)
         /\ \A stage : StageFits(table, vs, r, stage) => StageFits(other, vs, q, stage)
<1>1. /\ \A cost : VariantPrice(cost, r) = VariantPrice(cost, q)
      /\ \A sale, price : SaleIs(sale, price, r) => SaleIs(sale, price, q)
  BY AlikeIs
<1>2. ASSUME NEW price, NEW sale, Fits(table, vs, r, price, sale)
      PROVE  Fits(other, vs, q, price, sale)
  BY <1>1, <1>2 DEF Fits, VariantsFit
<1>3. ASSUME NEW stage, StageFits(table, vs, r, stage)
      PROVE  StageFits(other, vs, q, stage)
  BY <1>1, <1>2, <1>3 DEF StageFits
<1> QED
  BY <1>2, <1>3

LEMMA StillFollows ==
  ASSUME NEW p \in Products, Still(p)
  PROVE  /\ Plain(p)' => Plain(p)
         /\ Follows(p) => Follows(p)'
         /\ \A stage : StageFits(variant, VariantsOf(p), RuleOf(p), stage)
                         => StageFits(variant', VariantsOf(p)', RuleOf(p)', stage)
<1>1. Plain(p)' => Plain(p)
  BY DEF Still, Plain
<1>2. /\ VariantsOf(p)' = VariantsOf(p) /\ \A v \in VariantsOf(p) : variant'[v] = variant[v]
      /\ Alike(RuleOf(p), RuleOf(p)')
      /\ product'[p].price = product[p].price /\ product'[p].sale = product[p].sale
  BY DEF Still
<1>3. /\ \A price, sale : Fits(variant, VariantsOf(p), RuleOf(p), price, sale)
                            => Fits(variant', VariantsOf(p)', RuleOf(p)', price, sale)
      /\ \A stage : StageFits(variant, VariantsOf(p), RuleOf(p), stage)
                      => StageFits(variant', VariantsOf(p)', RuleOf(p)', stage)
  BY <1>2, FitsStill
<1>4. Follows(p) => Follows(p)'
  BY <1>2, <1>3 DEF Follows
<1> QED
  BY <1>1, <1>3, <1>4

\* The only request under way takes a step.
LEMMA RequestMoves ==
  ASSUME CatalogInv, AlonePrices, NEW c \in Clerks, NEW step \in Steps, Goto(c, step),
         \A d \in Clerks \ {c} : clerk[d] = Idle,
         StepFollows(clerk[c])',
         \A p \in Products : Plain(p)' =>
           \/ Waits(step, p, product'[p].rule)
           \/ Follows(p)'
           \/ Still(p) /\ ~Waits(clerk[c], p, product[p].rule)
  PROVE  AlonePrices'
<1>1. /\ clerk'[c] = step /\ \A d \in Clerks \ {c} : clerk'[d] = Idle
  BY OneStep DEF CatalogInv
<1>2. \A d, e \in Clerks : clerk'[d] # Idle /\ clerk'[e] # Idle => d = e
  BY <1>1
<1>3. ASSUME NEW d \in Clerks PROVE StepFollows(clerk[d])'
  <2>1. CASE d = c
    BY <2>1
  <2>2. CASE d # c
    <3>1. clerk'[d] = Idle
      BY <1>1, <2>2
    <3> QED
      BY <3>1 DEF StepFollows, Idle
  <2> QED
    BY <2>1, <2>2
<1>4. ASSUME NEW p \in Products, Plain(p)' PROVE Follows(p)' \/ Pending(p)'
  <2>1. CASE Waits(step, p, product'[p].rule)
    <3>1. Waits(clerk'[c], p, product'[p].rule)
      BY <1>1, <2>1
    <3> QED
      BY <3>1 DEF Pending
  <2>2. CASE Still(p) /\ ~Waits(clerk[c], p, product[p].rule)
    <3>1. Plain(p)
      BY <1>4, <2>2, StillFollows
    <3>2. ~Pending(p)
      BY <2>2 DEF Pending, Waits, Idle
    <3> QED
      BY <2>2, <3>1, <3>2, StillFollows DEF AlonePrices
  <2> QED
    BY <1>4, <2>1, <2>2
<1> QED
  BY <1>2, <1>3, <1>4 DEF AlonePrices

\* Who else is at work, and what for.
LEMMA AloneIs ==
  ASSUME CatalogInv, AlonePrices, NEW c \in Clerks, clerk[c].at # "idle"
  PROVE  \A d \in Clerks \ {c} : clerk[d] = Idle
<1>1. clerk[c] # Idle
  BY DEF Idle
<1> QED
  BY <1>1 DEF AlonePrices

LEMMA NobodyElse ==
  ASSUME CatalogInv, \A d \in Clerks : At(d, "idle")
  PROVE  \A d \in Clerks : clerk[d] = Idle
BY StepKinds DEF CatalogInv, At

\* Steps that nothing is asked of.
LEMMA EasyStep ==
  ASSUME NEW c \in Clerks, clerk'[c].at \notin {"recalculate", "import", "commit"}
  PROVE  StepFollows(clerk[c])'
BY DEF StepFollows

\* The clock, the supplier: rules price as they did, and nobody moves.
LEMMA NobodyMoves ==
  ASSUME CatalogInv, AlonePrices, UNCHANGED <<product, variant, clerk, edited>>,
         \A r \in Rules : Alike(rule[r], rule'[r])
  PROVE  AlonePrices'
<1>1. ASSUME NEW p \in Products, product[p] # None PROVE Still(p)
  <2>1. product[p].rule \in Rules \cup {None}
    BY <1>1 DEF CatalogInv, RowsTyped, ProductRow
  <2>2. Alike(RuleOf(p), RuleOf(p)')
    BY <2>1 DEF RuleOf, Alike
  <2> QED
    BY <2>2 DEF Still, VariantsOf, Live
<1>2. ASSUME NEW c \in Clerks PROVE StepFollows(clerk[c])'
  <2> DEFINE q == clerk[c]
  <2>1. q \in Steps /\ StepRefers(q) /\ StepFollows(q) /\ clerk'[c] = q
    BY DEF CatalogInv, AlonePrices
  <2>2. ASSUME q.at = "recalculate", NEW p \in DOMAIN q.stage
        PROVE  StageFits(variant', VariantsOf(p)', RuleOf(p)', q.stage[p])
    <3>1. p \in Products /\ product[p] # None
      BY <2>1, <2>2, StepKinds, StageTable DEF StepRefers
    <3>2. StageFits(variant, VariantsOf(p), RuleOf(p), q.stage[p])
      BY <2>1, <2>2 DEF StepFollows, StageFollows
    <3> QED
      BY <1>1, <3>1, <3>2, StillFollows
  <2>3. ASSUME q.at = "commit"
        PROVE  /\ q.product # None => product'[q.product].rule = q.rule
               /\ q.rule = None => q.priced = None
               /\ q.rule # None => SameTerms(q.priced, rule'[q.rule])
    <3>1. RuleIsRead(q) /\ q \in Committing
      BY <2>1, <2>3, StepKinds DEF StepFollows
    <3>2. ASSUME q.rule # None PROVE SameTerms(q.priced, rule'[q.rule])
      <4>1. Alike(rule[q.rule], rule'[q.rule]) /\ SameTerms(q.priced, rule[q.rule])
        BY <3>1, <3>2 DEF RuleIsRead, Committing
      <4> QED
        BY <4>1 DEF Alike, SameTerms
    <3> QED
      BY <3>1, <3>2 DEF RuleIsRead
  <2> QED
    BY <2>1, <2>2, <2>3 DEF StepFollows, StageFollows, RuleIsRead
<1>3. ASSUME NEW p \in Products, Plain(p)' PROVE Follows(p)' \/ Pending(p)'
  <2>1. product[p] # None
    BY <1>3 DEF Plain, Live
  <2>2. Still(p)
    BY <1>1, <2>1
  <2>3. Pending(p) => Pending(p)'
    BY DEF Pending
  <2> QED
    BY <1>3, <2>2, <2>3, StillFollows DEF AlonePrices
<1>4. \A c, d \in Clerks : clerk'[c] # Idle /\ clerk'[d] # Idle => c = d
  BY DEF AlonePrices
<1> QED
  BY <1>2, <1>3, <1>4 DEF AlonePrices

\* Rows as they were: a request arrives, reads or ends.
LEMMA RowsStay ==
  ASSUME CatalogInv, AlonePrices, NEW c \in Clerks, NEW step \in Steps, Goto(c, step),
         \A d \in Clerks \ {c} : clerk[d] = Idle, StepFollows(clerk[c])',
         UNCHANGED <<rows, edited>>,
         \A p \in Products : Plain(p) /\ Waits(clerk[c], p, product[p].rule)
                               => Waits(step, p, product[p].rule)
  PROVE  AlonePrices'
<1>1. ASSUME NEW p \in Products, Plain(p)'
      PROVE  \/ Waits(step, p, product'[p].rule)
             \/ Follows(p)'
             \/ Still(p) /\ ~Waits(clerk[c], p, product[p].rule)
  <2>1. Still(p)
    BY DEF Still, VariantsOf, Live, RuleOf, Alike, rows
  <2>2. Plain(p)
    BY <1>1, <2>1, StillFollows
  <2> QED
    BY <2>1, <2>2 DEF rows
<1> QED
  BY <1>1, RequestMoves

\* A request arrives, nobody else being there.
LEMMA ArrivesAlone ==
  ASSUME CatalogInv, NEW c \in Clerks, NEW kind, NEW step, Asked(c, kind, step), alone'
  PROVE  /\ alone /\ \A d \in Clerks : clerk[d] = Idle
         /\ \A p : ~Waits(clerk[c], p, product[p].rule)
         /\ Goto(c, step) /\ UNCHANGED edited
<1>1. alone /\ \A d \in Clerks : At(d, "idle")
  <2>1. alone' = (alone /\ \A d \in Clerks : At(d, "idle"))
    BY DEF Asked
  <2> QED
    BY <2>1
<1>2. \A d \in Clerks : clerk[d] = Idle
  BY <1>1, NobodyElse
<1> QED
  BY <1>1, <1>2 DEF Asked, Waits, Idle

\* Rules: what is on a changed one waits to be priced anew.
LEMMA RulesAlone ==
  ASSUME PriceInv, alone',
         \/ \E c \in Clerks : \/ \E r \in Rules, terms \in Terms :
                                CreateRule(c, r, terms) \/ UpdateRule(c, r, terms)
                           \/ DeleteRule(c) \/ SweepFails(c)
         \/ Clock
  PROVE  AlonePrices'
<1> USE DEF PriceInv
<1>1. /\ clerk \in [Clerks -> Steps] /\ rule \in [Rules -> RuleRow \cup {None}]
      /\ \A p \in Products : product[p] # None =>
           /\ product[p].rule \in Rules \cup {None}
           /\ product[p].rule # None => rule[product[p].rule] # None
  BY DEF CatalogInv, RowsTyped, RowsRefer, ProductRow
\* One rule changes.
<1>2. ASSUME NEW c \in Clerks, NEW step \in Steps, Goto(c, step), NEW r \in Rules, NEW row,
             rule' = [rule EXCEPT ![r] = row], UNCHANGED <<product, variant, edited>>,
             AlonePrices, \A d \in Clerks \ {c} : clerk[d] = Idle,
             step.at \notin {"recalculate", "import", "commit"},
             \A p : ~Waits(clerk[c], p, product[p].rule),
             \/ \A p \in Products : product[p] # None => product[p].rule # r
             \/ step.at = "list" /\ step.rule = r
      PROVE  AlonePrices'
  <2>1. clerk'[c] = step
    BY <1>1, <1>2, OneStep
  <2>2. StepFollows(clerk[c])'
    BY <1>2, <2>1, EasyStep
  <2>3. ASSUME NEW p \in Products, Plain(p)' PROVE Waits(step, p, product'[p].rule) \/ Still(p)
    <3>1. product[p] # None
      BY <1>2, <2>3 DEF Plain, Live
    <3>2. CASE product[p].rule # r
      <4>1. RuleOf(p)' = RuleOf(p)
        BY <1>1, <1>2, <3>1, <3>2 DEF RuleOf
      <4> QED
        BY <1>2, <4>1 DEF Still, VariantsOf, Live, Alike
    <3>3. CASE product[p].rule = r
      BY <1>2, <3>1, <3>3 DEF Waits
    <3> QED
      BY <3>2, <3>3
  <2> QED
    BY <1>2, <2>2, <2>3, RequestMoves
\* Rules only lose or gain the default.
<1>3. ASSUME NEW c \in Clerks, NEW r \in Rules, NEW terms \in Terms, CreateRule(c, r, terms)
      PROVE  AlonePrices'
  <2>1. Asked(c, "rules", Idle) /\ rule[r] = None /\ UNCHANGED <<product, variant>>
        /\ rule' = [rule EXCEPT ![r] = Row(terms, FALSE)]
    BY <1>3 DEF CreateRule
  <2>2. \A p \in Products : product[p] # None => product[p].rule # r
    BY <1>1, <2>1, CatalogAssumption
  <2>3. Idle \in Steps /\ Idle.at \notin {"recalculate", "import", "commit"}
    BY IdleIs DEF Idle
  <2> QED
    BY <1>2, <2>1, <2>2, <2>3, ArrivesAlone
<1>4. ASSUME NEW c \in Clerks, NEW r \in Rules, NEW terms \in Terms, UpdateRule(c, r, terms)
      PROVE  AlonePrices'
  <2> DEFINE step == [at |-> "list", rule |-> r]
  <2>1. Asked(c, "rules", step) /\ UNCHANGED <<product, variant>>
        /\ rule' = [rule EXCEPT ![r] = Row(terms, rule[r].default)]
    BY <1>4 DEF UpdateRule
  <2>2. step \in Steps /\ step.at = "list" /\ step.rule = r
        /\ step.at \notin {"recalculate", "import", "commit"}
    BY DEF Steps, OnRule
  <2> HIDE DEF step
  <2> QED
    BY <1>2, <2>1, <2>2, ArrivesAlone
<1>5. ASSUME NEW c \in Clerks, DeleteRule(c) PROVE AlonePrices'
  <2>1. /\ clerk[c].at = "delete" /\ Goto(c, Idle) /\ UNCHANGED <<product, variant, edited, alone>>
    BY <1>5 DEF DeleteRule, At, Done, history
  <2>2. /\ AlonePrices /\ \A d \in Clerks \ {c} : clerk[d] = Idle
        /\ \A p : ~Waits(clerk[c], p, product[p].rule)
        /\ Idle \in Steps /\ Idle.at \notin {"recalculate", "import", "commit"}
        /\ clerk[c].rule \in Rules
    BY <1>1, <2>1, AloneIs, IdleIs, StepKinds DEF Waits, Idle, OnRule
  <2>3. CASE rule' = rule
    <3>1. clerk'[c] = Idle /\ UNCHANGED rows
      BY <1>1, <2>1, <2>2, <2>3, OneStep DEF rows
    <3> QED
      BY <2>1, <2>2, <3>1, EasyStep, RowsStay
  <2>4. CASE /\ \A p \in Products : product[p] # None => product[p].rule # clerk[c].rule
             /\ rule' = [rule EXCEPT ![clerk[c].rule] = None]
    BY <1>2, <2>1, <2>2, <2>4
  <2> QED
    BY <1>5, <2>3, <2>4 DEF DeleteRule
<1>6. ASSUME NEW c \in Clerks, SweepFails(c) PROVE AlonePrices'
  <2>1. /\ clerk[c].at = "swept" /\ Goto(c, Idle) /\ UNCHANGED <<product, variant, edited, alone>>
        /\ \A q \in Rules : \/ rule'[q] = rule[q]
                            \/ rule[q] # None /\ rule'[q] = [rule[q] EXCEPT !.default = FALSE]
    BY <1>6 DEF SweepFails, At, Done, history
  <2>2. /\ AlonePrices /\ \A d \in Clerks \ {c} : clerk[d] = Idle
        /\ \A p : ~Waits(clerk[c], p, product[p].rule)
    BY <2>1, AloneIs DEF Waits
  <2>3. clerk'[c] = Idle
    BY <1>1, <2>1, IdleIs, OneStep
  <2>4. StepFollows(clerk[c])'
    BY <2>3, EasyStep DEF Idle
  <2>5. ASSUME NEW q \in Rules PROVE Alike(rule[q], rule'[q])
    <3>1. ASSUME rule[q] # None, rule'[q] = [rule[q] EXCEPT !.default = FALSE]
          PROVE  SameTerms(rule[q], rule'[q])
      <4>1. rule[q] \in RuleRow /\ rule'[q] \in RuleRow
        BY <1>1, <3>1 DEF RuleRow
      <4>2. rule'[q].markup = rule[q].markup /\ rule'[q].minimum = rule[q].minimum
            /\ rule'[q].sale = rule[q].sale
        BY <3>1, <4>1 DEF RuleRow
      <4> QED
        BY <4>1, <4>2, CatalogAssumption DEF SameTerms
    <3> QED
      BY <2>1, <3>1 DEF Alike
  <2>6. ASSUME NEW p \in Products, Plain(p)' PROVE Still(p)
    <3>1. product[p] # None
      BY <2>1, <2>6 DEF Plain, Live
    <3>2. Alike(RuleOf(p), RuleOf(p)')
      BY <1>1, <2>1, <2>5, <3>1 DEF RuleOf, Alike
    <3> QED
      BY <2>1, <3>2 DEF Still, VariantsOf, Live
  <2> QED
    BY <2>1, <2>2, <2>4, <2>6, IdleIs, RequestMoves
<1>7. ASSUME NEW r \in Rules, TurnOfSale(r) PROVE AlonePrices'
  <2>1. UNCHANGED <<product, variant, clerk, edited, alone>>
    BY <1>7 DEF TurnOfSale, history
  <2>2. rule[r] \in RuleRow /\ rule[r].sale \in Sale /\ rule[r] # None /\ rule[r].sale # None
    BY <1>1, <1>7 DEF TurnOfSale, RuleRow
  <2>3. PICK w \in {"open", "over"} : rule' = [rule EXCEPT ![r].sale.window = w]
    BY <1>7 DEF TurnOfSale
  <2> DEFINE sale == [rule[r].sale EXCEPT !.window = w]
             row == [rule[r] EXCEPT !.sale = sale]
  <2>4. sale \in Sale /\ sale.type = rule[r].sale.type /\ sale.value = rule[r].sale.value
    BY <2>2 DEF Sale
  <2>5. rule' = [rule EXCEPT ![r] = row]
    BY <2>3
  <2> HIDE DEF sale
  <2>6. row \in RuleRow /\ row.markup = rule[r].markup /\ row.minimum = rule[r].minimum
        /\ row.sale = sale
    BY <2>2, <2>4 DEF RuleRow
  <2> HIDE DEF row
  <2>7. SameTerms(rule[r], row)
    BY <2>2, <2>4, <2>6, CatalogAssumption DEF SameTerms
  <2>8. \A q \in Rules : Alike(rule[q], rule'[q])
    BY <1>1, <2>5, <2>7 DEF Alike
  <2> QED
    BY <2>1, <2>8, NobodyMoves
<1> QED
  BY <1>3, <1>4, <1>5, <1>6, <1>7 DEF Clock

\* A request for one product's prices goes on; the others' stages are as they were.
LEMMA StagesGoOn ==
  ASSUME CatalogInv, AlonePrices, NEW c \in Clerks, At(c, "recalculate"), NEW p \in Products,
         NEW step \in Steps, Goto(c, step),
         \/ step = Idle
         \/ /\ step.at = "recalculate"
            /\ \A q \in DOMAIN step.stage \ {p} : /\ q \in DOMAIN clerk[c].stage
                                                 /\ step.stage[q] = clerk[c].stage[q]
            /\ p \in DOMAIN step.stage =>
                 StageFits(variant', VariantsOf(p)', RuleOf(p)', step.stage[p]),
         \A q \in Products \ {p} : product[q] # None => Still(q)
  PROVE  StepFollows(clerk[c])'
<1>1. clerk'[c] = step
  BY OneStep DEF CatalogInv
<1>2. CASE step = Idle
  BY <1>1, <1>2, EasyStep DEF Idle
<1>3. CASE step # Idle
  <2>1. ASSUME NEW q \in DOMAIN step.stage
        PROVE  StageFits(variant', VariantsOf(q)', RuleOf(q)', step.stage[q])
    <3>1. CASE q = p
      BY <1>3, <2>1, <3>1
    <3>2. CASE q # p
      <4>1. q \in DOMAIN clerk[c].stage /\ step.stage[q] = clerk[c].stage[q]
        BY <1>3, <2>1, <3>2
      <4>2. q \in Products /\ product[q] # None
        BY <4>1, StepKinds, StageTable DEF CatalogInv, StepRefers, At
      <4>3. StageFits(variant, VariantsOf(q), RuleOf(q), clerk[c].stage[q])
        BY <4>1 DEF AlonePrices, StepFollows, StageFollows, At
      <4> QED
        BY <3>2, <4>1, <4>2, <4>3, StillFollows
    <3> QED
      BY <3>1, <3>2
  <2> QED
    BY <1>1, <1>3, <2>1 DEF StepFollows, StageFollows
<1> QED
  BY <1>2, <1>3

LEMMA DueFits ==
  ASSUME NEW stage, stage.is = "due"
  PROVE  \A table, vs, r : StageFits(table, vs, r, stage)
BY DEF StageFits

\* Requests that read.
LEMMA ReadsAlone ==
  ASSUME PriceInv, alone', NEW c \in Clerks,
         \/ \E r \in Rules : AskDelete(c, r) \/ AskApply(c, r)
         \/ \E p \in Products, r \in Rules \cup {None} : AskAssign(c, p, r)
         \/ FindEligible(c) \/ BeginSweep(c) \/ ListProducts(c)
         \/ \E p \in Products : ReadPrices(c, p)
  PROVE  AlonePrices'
<1> USE DEF PriceInv
<1>1. clerk \in [Clerks -> Steps] /\ clerk[c] \in Steps
  BY DEF CatalogInv
\* A step nothing is asked of.
<1>2. ASSUME AlonePrices, NEW step \in Steps, Goto(c, step), UNCHANGED <<rows, edited>>,
             \A d \in Clerks \ {c} : clerk[d] = Idle,
             \A p : ~Waits(clerk[c], p, product[p].rule),
             step.at \notin {"recalculate", "import", "commit"}
      PROVE  AlonePrices'
  <2>1. StepFollows(clerk[c])'
    BY <1>1, <1>2, OneStep, EasyStep
  <2> QED
    BY <1>2, <2>1, RowsStay
<1>3. ASSUME NEW r \in Rules, AskDelete(c, r) PROVE AlonePrices'
  <2> DEFINE step == [at |-> "delete", rule |-> r]
  <2>1. step \in Steps /\ step.at \notin {"recalculate", "import", "commit"}
    BY DEF Steps, OnRule
  <2>2. Asked(c, "rules", step) /\ UNCHANGED rows
    BY <1>3 DEF AskDelete
  <2> HIDE DEF step
  <2> QED
    BY <1>2, <2>1, <2>2, ArrivesAlone
<1>4. ASSUME NEW r \in Rules, AskApply(c, r) PROVE AlonePrices'
  <2>1. PICK previous \in FoundDefaults(OwnerOf[r]) :
          Asked(c, "rules", [at |-> "eligible", rule |-> r, previous |-> previous])
    BY <1>4 DEF AskApply
  <2> DEFINE step == [at |-> "eligible", rule |-> r, previous |-> previous]
  <2>2. step \in Steps /\ step.at \notin {"recalculate", "import", "commit"}
    BY DEF Steps, Finding, FoundDefaults, DefaultsOf
  <2>3. Asked(c, "rules", step) /\ UNCHANGED rows
    BY <1>4, <2>1 DEF AskApply
  <2> HIDE DEF step
  <2> QED
    BY <1>2, <2>2, <2>3, ArrivesAlone
<1>5. ASSUME NEW p \in Products, NEW r \in Rules \cup {None}, AskAssign(c, p, r) PROVE AlonePrices'
  <2> DEFINE step == [at |-> "assign", product |-> p, rule |-> r]
  <2>1. step \in Steps /\ step.at \notin {"recalculate", "import", "commit"}
    BY DEF Steps, Assigning
  <2>2. Asked(c, "products", step) /\ UNCHANGED rows
    BY <1>5 DEF AskAssign
  <2> HIDE DEF step
  <2> QED
    BY <1>2, <2>1, <2>2, ArrivesAlone
<1>6. ASSUME clerk[c].at # "idle", UNCHANGED alone
      PROVE  AlonePrices /\ \A d \in Clerks \ {c} : clerk[d] = Idle
  BY <1>6, AloneIs
<1>7. CASE FindEligible(c)
  <2> DEFINE moves == Eligible(clerk[c].rule, clerk[c].previous)
             step == [at |-> "sweep", rule |-> clerk[c].rule, moves |-> moves, clear |-> {}]
  <2>1. clerk[c].at = "eligible" /\ Goto(c, step) /\ UNCHANGED <<rows, edited, alone>>
    BY <1>7 DEF FindEligible, At, history
  <2>2. moves \in SUBSET Products /\ clerk[c].rule \in Rules
    BY <1>1, <2>1, StepKinds DEF Eligible, Finding
  <2> HIDE DEF moves
  <2>3. step \in Steps /\ step.at \notin {"recalculate", "import", "commit"}
    BY <2>2 DEF Steps, Sweeping
  <2> HIDE DEF step
  <2>4. \A p : ~Waits(clerk[c], p, product[p].rule)
    BY <2>1 DEF Waits
  <2> QED
    BY <1>2, <1>6, <2>1, <2>3, <2>4
<1>8. CASE BeginSweep(c)
  <2> DEFINE clear == DefaultsOf(OwnerOf[clerk[c].rule]) \ {clerk[c].rule}
             step == [clerk[c] EXCEPT !.at = "swept", !.clear = clear]
  <2>1. clerk[c].at = "sweep" /\ Goto(c, step) /\ UNCHANGED <<rows, edited, alone>>
    BY <1>8 DEF BeginSweep, At, history
  <2>2. clear \in SUBSET Rules /\ clerk[c] \in Sweeping
    BY <1>1, <2>1, StepKinds DEF DefaultsOf
  <2> HIDE DEF clear
  <2>3. step \in Sweeping /\ step.at = "swept"
    BY <2>2 DEF Sweeping
  <2> HIDE DEF step
  <2>4. step \in Steps /\ \A p : ~Waits(clerk[c], p, product[p].rule)
    BY <2>1, <2>3 DEF Steps, Waits
  <2> QED
    BY <1>2, <1>6, <2>1, <2>3, <2>4
<1>9. CASE ListProducts(c)
  <2> DEFINE ps == {q \in Products : Live(q) /\ product[q].rule = clerk[c].rule}
  <2>1. /\ clerk[c].at = "list" /\ Recalculate(c, ps) /\ UNCHANGED <<rows, edited, alone>>
        /\ ps \in SUBSET Products
    BY <1>9 DEF ListProducts, At, history
  <2>2. \A q \in Products : Plain(q) /\ Waits(clerk[c], q, product[q].rule) => q \in ps
    BY <2>1 DEF Plain, Waits
  <2> HIDE DEF ps
  <2>3. PICK step \in Steps :
          /\ Goto(c, step)
          /\ \/ ps = {} /\ step = Idle
             \/ /\ step.at = "recalculate" /\ DOMAIN step.stage = ps
                /\ \A q \in ps : step.stage[q].is = "due"
    BY <2>1, RecalculateIs
  <2>4. StepFollows(clerk[c])'
    <3>1. clerk'[c] = step
      BY <1>1, <2>3, OneStep
    <3>2. CASE step = Idle
      BY <3>1, <3>2, EasyStep DEF Idle
    <3>3. CASE step.at = "recalculate" /\ \A q \in DOMAIN step.stage : step.stage[q].is = "due"
      BY <3>1, <3>3, DueFits DEF StepFollows, StageFollows
    <3> QED
      BY <2>3, <3>2, <3>3
  <2>5. \A q \in Products : Plain(q) /\ Waits(clerk[c], q, product[q].rule)
                              => Waits(step, q, product[q].rule)
    BY <2>2, <2>3 DEF Waits
  <2> QED
    BY <1>6, <2>1, <2>3, <2>4, <2>5, RowsStay
<1>10. ASSUME NEW p \in Products, ReadPrices(c, p) PROVE AlonePrices'
  <2>1. /\ At(c, "recalculate") /\ p \in DOMAIN clerk[c].stage /\ UNCHANGED <<rows, edited, alone>>
        /\ product[p] # None
    BY <1>10 DEF ReadPrices, Recalculating, CatalogInv, StepRefers, At, history
  <2>2. AlonePrices /\ \A d \in Clerks \ {c} : clerk[d] = Idle
    BY <1>6, <2>1 DEF At
  <2>3. \A q : Still(q)
    BY <2>1 DEF Still, VariantsOf, Live, RuleOf, Alike, rows
  <2>4. CASE VariantsOf(p) = {}
    <3>1. PICK step \in Steps :
            /\ Goto(c, step)
            /\ \/ step = Idle /\ DOMAIN clerk[c].stage = {p}
               \/ /\ step.at = "recalculate" /\ DOMAIN step.stage = DOMAIN clerk[c].stage \ {p}
                  /\ \A q \in DOMAIN step.stage : step.stage[q] = clerk[c].stage[q]
      BY <1>1, <1>10, <2>1, <2>4, ThroughIs DEF ReadPrices
    <3>2. StepFollows(clerk[c])'
      BY <2>1, <2>2, <2>3, <3>1, StagesGoOn
    <3>3. \A q \in Products : Plain(q) /\ Waits(clerk[c], q, product[q].rule)
                                => Waits(step, q, product[q].rule)
      BY <2>1, <2>4, <3>1 DEF Plain, Waits, At
    <3> QED
      BY <2>1, <2>2, <3>1, <3>2, <3>3, RowsStay
  <2>5. CASE VariantsOf(p) # {}
    <3> DEFINE price == [v \in VariantsOf(p) |->
                           IF variant[v].cost = None THEN variant[v].price
                           ELSE VariantPrice(variant[v].cost, RuleOf(p))]
               prices == {price[v] : v \in VariantsOf(p)}
               sale == ShownSale(Min(prices), RuleOf(p))
               stage == [is |-> "read", price |-> price, regular |-> Min(prices), sale |-> sale]
    <3>1. RuleOf(p) \in RuleRow \cup {None}
      BY <2>1, RuleOfIs
    <3>2. \A v \in VariantsOf(p) : v \in Variants /\ variant[v] \in VariantRow
      BY DEF CatalogInv, RowsTyped, VariantsOf
    <3>3. \A v \in VariantsOf(p) : price[v] \in Nat
      BY <3>1, <3>2, VariantPriceIs DEF VariantRow
    <3>4. prices \in SUBSET Nat /\ prices # {}
      BY <2>5, <3>3
    <3>5. Min(prices) \in prices /\ Min(prices) \in Nat
      BY <3>4, MinIs
    <3>6. sale \in Nat \cup {None} /\ SaleIs(sale, Min(prices), RuleOf(p))
      BY <3>1, <3>5, ShownSaleIs
    <3>7. \E v \in VariantsOf(p) : Min(prices) = price[v]
      BY <3>5
    <3>8. /\ DOMAIN price = VariantsOf(p)
          /\ \A v \in VariantsOf(p) : price[v] = IF variant[v].cost = None THEN variant[v].price
                                                 ELSE VariantPrice(variant[v].cost, RuleOf(p))
      OBVIOUS
    <3>9. price \in PriceTables
      <4>1. price \in [VariantsOf(p) -> Nat] /\ VariantsOf(p) \in SUBSET Variants
        BY <3>3 DEF VariantsOf
      <4> HIDE DEF price
      <4> QED
        BY <4>1 DEF PriceTables
    <3>10. Stage(c, p, stage)
      BY <1>10, <2>5 DEF ReadPrices
    <3> HIDE DEF price, prices, sale
    <3>11. stage \in PricesRead /\ StageFits(variant, VariantsOf(p), RuleOf(p), stage)
      BY <3>5, <3>6, <3>7, <3>8, <3>9 DEF PricesRead, StageFits
    <3> HIDE DEF stage
    <3>12. PICK step \in Steps :
             /\ Goto(c, step) /\ step.at = "recalculate"
             /\ DOMAIN step.stage = DOMAIN clerk[c].stage /\ step.stage[p] = stage
             /\ \A q \in DOMAIN clerk[c].stage \ {p} : step.stage[q] = clerk[c].stage[q]
      BY <1>1, <2>1, <3>10, <3>11, StageIs
    <3>13. StageFits(variant', VariantsOf(p)', RuleOf(p)', step.stage[p])
      BY <2>3, <3>11, <3>12, StillFollows
    <3>14. StepFollows(clerk[c])'
      BY <2>1, <2>2, <2>3, <3>12, <3>13, StagesGoOn
    <3>15. \A q \in Products : Waits(clerk[c], q, product[q].rule) => Waits(step, q, product[q].rule)
      BY <2>1, <3>12 DEF Waits, At
    <3> QED
      BY <2>1, <2>2, <3>12, <3>14, <3>15, RowsStay
  <2> QED
    BY <2>4, <2>5
<1> QED
  BY <1>3, <1>4, <1>5, <1>7, <1>8, <1>9, <1>10

\* Only product p's own row changes, and not the rule it is on.
LEMMA OthersAreStill ==
  ASSUME CatalogInv, NEW p \in Products, NEW row, product' = [product EXCEPT ![p] = row],
         UNCHANGED <<rule, variant, edited>>
  PROVE  /\ \A q \in Products \ {p} : Still(q)
         /\ (/\ row.rule = product[p].rule /\ row.price = product[p].price
             /\ row.sale = product[p].sale
             /\ product[p] # None /\ row.deleted = product[p].deleted)
            => Still(p)
<1>1. /\ \A q \in Products \ {p} : product'[q] = product[q]
      /\ product'[p] = row
  BY DEF CatalogInv, RowsTyped
<1>2. ASSUME NEW q \in Products \ {p} PROVE Still(q)
  BY <1>1 DEF Still, VariantsOf, Live, RuleOf, Alike
<1>3. ASSUME row.rule = product[p].rule, row.price = product[p].price, row.sale = product[p].sale,
             product[p] # None, row.deleted = product[p].deleted
      PROVE  Still(p)
  <2>1. RuleOf(p)' = RuleOf(p)
    BY <1>1, <1>3 DEF RuleOf
  <2> QED
    BY <1>1, <1>3, <2>1 DEF Still, VariantsOf, Live, Alike
<1> QED
  BY <1>2, <1>3

\* Requests that write to products.
LEMMA ProductsAlone ==
  ASSUME PriceInv, alone', NEW c \in Clerks,
         \/ \E store \in Stores, slug \in Slugs, given \in {"default", "none"} :
              CreateProduct(c, store, slug, given)
         \/ \E p \in Products : \/ \E slug \in Slugs : Reslug(c, p, slug)
                              \/ DeleteProduct(c, p) \/ WriteProduct(c, p)
         \/ Assign(c)
  PROVE  AlonePrices'
<1> USE DEF PriceInv
<1>1. /\ clerk \in [Clerks -> Steps] /\ clerk[c] \in Steps
      /\ \A p \in Products : product[p] # None => product[p] \in ProductRow
  BY DEF CatalogInv, RowsTyped
\* A request of one statement.
<1>2. ASSUME NEW p \in Products, NEW row, product' = [product EXCEPT ![p] = row],
             UNCHANGED <<rule, variant>>, Asked(c, "products", Idle),
             Plain(p)' => Still(p)
      PROVE  AlonePrices'
  <2>1. clerk'[c] = Idle
    BY <1>1, <1>2, ArrivesAlone, IdleIs, OneStep
  <2>2. StepFollows(clerk[c])'
    BY <2>1, EasyStep DEF Idle
  <2>3. UNCHANGED edited
    BY <1>2 DEF Asked
  <2>4. \A q \in Products : Plain(q)' => Still(q)
    BY <1>2, <2>3, OthersAreStill
  <2> QED
    BY <1>2, <2>2, <2>4, ArrivesAlone, IdleIs, RequestMoves
<1>3. ASSUME NEW store \in Stores, NEW slug \in Slugs, NEW given, CreateProduct(c, store, slug, given)
      PROVE  AlonePrices'
  <2>1. PICK r : product' = [product EXCEPT ![Fresh(product)] =
                               [store |-> store, slug |-> slug, rule |-> r, price |-> None,
                                sale |-> None, deleted |-> FALSE]]
    BY <1>3 DEF CreateProduct
  <2>2. PICK p \in Products : p = Fresh(product) /\ product[p] = None
    BY <1>3, FreshIs DEF CreateProduct, CatalogInv
  <2> DEFINE row == [store |-> store, slug |-> slug, rule |-> r, price |-> None, sale |-> None,
                     deleted |-> FALSE]
  <2>3. /\ product' = [product EXCEPT ![p] = row] /\ UNCHANGED <<rule, variant>>
        /\ Asked(c, "products", Idle)
    BY <1>3, <2>1, <2>2 DEF CreateProduct
  <2> HIDE DEF row
  <2>4. \A v \in Variants : variant[v] # None => variant[v].product # p
    BY <2>2 DEF CatalogInv, RowsRefer
  <2>5. ~Plain(p)'
    BY <2>3, <2>4 DEF Plain, VariantsOf
  <2> QED
    BY <1>2, <2>3, <2>5
<1>4. ASSUME NEW p \in Products, NEW slug \in Slugs, Reslug(c, p, slug) PROVE AlonePrices'
  <2> DEFINE row == [product[p] EXCEPT !.slug = slug]
  <2>1. /\ product' = [product EXCEPT ![p] = row] /\ product[p] # None /\ UNCHANGED <<rule, variant>>
        /\ Asked(c, "products", Idle)
    BY <1>4 DEF Reslug
  <2>2. /\ row.rule = product[p].rule /\ row.price = product[p].price /\ row.sale = product[p].sale
        /\ row.deleted = product[p].deleted
    BY <1>1, <2>1 DEF ProductRow
  <2> HIDE DEF row
  <2>3. UNCHANGED edited
    BY <2>1 DEF Asked
  <2> QED
    BY <1>2, <2>1, <2>2, <2>3, OthersAreStill
<1>5. ASSUME NEW p \in Products, DeleteProduct(c, p) PROVE AlonePrices'
  <2> DEFINE row == [product[p] EXCEPT !.deleted = TRUE]
  <2>1. /\ product' = [product EXCEPT ![p] = row] /\ product[p] # None /\ UNCHANGED <<rule, variant>>
        /\ Asked(c, "products", Idle)
    BY <1>5 DEF DeleteProduct
  <2>2. product'[p].deleted
    BY <1>1, <2>1 DEF ProductRow, CatalogInv, RowsTyped
  <2> HIDE DEF row
  <2>3. ~Plain(p)'
    BY <2>2 DEF Plain, Live
  <2> QED
    BY <1>2, <2>1, <2>3
<1>6. CASE Assign(c)
  <2> DEFINE q == clerk[c].product
             r == clerk[c].rule
             row == [product[q] EXCEPT !.rule = r]
  <2>1. clerk[c].at = "assign" /\ UNCHANGED <<rule, variant, edited, alone>>
    BY <1>6 DEF Assign, At, history
  <2>2. /\ AlonePrices /\ \A d \in Clerks \ {c} : clerk[d] = Idle
        /\ \A p : ~Waits(clerk[c], p, product[p].rule)
        /\ q \in Products
    BY <1>1, <2>1, AloneIs, StepKinds DEF Waits, Assigning
  <2>3. CASE Done(c) /\ product' = product
    <3>1. Goto(c, Idle) /\ clerk'[c] = Idle
      BY <1>1, <2>3, IdleIs, OneStep DEF Done
    <3>2. StepFollows(clerk[c])'
      BY <3>1, EasyStep DEF Idle
    <3> QED
      BY <2>1, <2>2, <2>3, <3>1, <3>2, IdleIs, RowsStay DEF rows
  <2>4. CASE product' = [product EXCEPT ![q] = row] /\ Recalculate(c, {q})
    <3>1. PICK step \in Steps :
            /\ Goto(c, step)
            /\ step.at = "recalculate" /\ DOMAIN step.stage = {q} /\ step.stage[q].is = "due"
      <4>1. {q} \in SUBSET Products /\ {q} # {}
        BY <2>2
      <4> HIDE DEF q
      <4> QED
        BY <2>4, <4>1, RecalculateIs
    <3> HIDE DEF q, r, row
    <3>2. StepFollows(clerk[c])'
      <4>1. clerk'[c] = step
        BY <1>1, <3>1, OneStep
      <4> QED
        BY <3>1, <4>1, DueFits DEF StepFollows, StageFollows
    <3>3. \A p \in Products : Waits(step, p, product'[p].rule) \/ Still(p)
      BY <2>1, <2>2, <2>4, <3>1, OthersAreStill DEF Waits
    <3> QED
      BY <2>2, <3>1, <3>2, <3>3, RequestMoves
  <2> QED
    BY <1>6, <2>3, <2>4 DEF Assign
<1>7. ASSUME NEW p \in Products, WriteProduct(c, p) PROVE AlonePrices'
  <2> DEFINE seen == clerk[c].stage[p]
             row == [product[p] EXCEPT !.price = seen.regular, !.sale = seen.sale]
  <2>1. /\ At(c, "recalculate") /\ p \in DOMAIN clerk[c].stage /\ seen.is = "priced"
        /\ product' = [product EXCEPT ![p] = row] /\ UNCHANGED <<rule, variant, edited, alone>>
        /\ Through(c, p)
    BY <1>7 DEF WriteProduct, Recalculating, history
  <2>2. /\ AlonePrices /\ \A d \in Clerks \ {c} : clerk[d] = Idle
    BY <2>1, AloneIs DEF At
  <2>3. product[p] \in ProductRow
    BY <1>1, <2>1 DEF CatalogInv, StepRefers, At
  <2>4. row.rule = product[p].rule /\ row.price = seen.regular /\ row.sale = seen.sale
    BY <2>3 DEF ProductRow
  <2>5. Fits(variant, VariantsOf(p), RuleOf(p), seen.regular, seen.sale)
    BY <2>1, <2>2 DEF AlonePrices, StepFollows, StageFollows, StageFits, At
  <2> HIDE DEF row, seen
  <2>6. Follows(p)'
    <3>1. product'[p] = row
      BY <2>1 DEF CatalogInv, RowsTyped
    <3>2. VariantsOf(p)' = VariantsOf(p)
      BY <2>1 DEF VariantsOf
    <3>3. RuleOf(p)' = RuleOf(p)
      BY <2>1, <2>4, <3>1 DEF RuleOf
    <3> QED
      BY <2>1, <2>4, <2>5, <3>1, <3>2, <3>3 DEF Follows
  <2>7. \A q \in Products \ {p} : Still(q)
    BY <2>1, OthersAreStill
  <2>8. PICK step \in Steps :
          /\ Goto(c, step)
          /\ \/ step = Idle /\ DOMAIN clerk[c].stage = {p}
             \/ /\ step.at = "recalculate" /\ DOMAIN step.stage = DOMAIN clerk[c].stage \ {p}
                /\ \A q \in DOMAIN step.stage : step.stage[q] = clerk[c].stage[q]
    BY <1>1, <2>1, ThroughIs
  <2>9. StepFollows(clerk[c])'
    BY <2>1, <2>2, <2>7, <2>8, StagesGoOn
  <2>10. \A q \in Products \ {p} : Waits(clerk[c], q, product[q].rule) => Waits(step, q, product'[q].rule)
    BY <2>1, <2>8 DEF Waits, At
  <2> QED
    BY <2>2, <2>6, <2>7, <2>8, <2>9, <2>10, RequestMoves
<1> QED
  BY <1>3, <1>4, <1>5, <1>6, <1>7

\* Those that write to variants: a recalculation, and the staff, who are remembered.
LEMMA VariantsAlone ==
  ASSUME PriceInv, alone', NEW c \in Clerks, NEW p \in Products,
         WriteVariants(c, p) \/ \E v \in Variants : EditVariant(c, p, v, ListPrice)
  PROVE  AlonePrices'
<1> USE DEF PriceInv
<1>1. /\ clerk \in [Clerks -> Steps] /\ clerk[c] \in Steps
      /\ variant \in [Variants -> VariantRow \cup {None}]
  BY DEF CatalogInv, RowsTyped
\* The variants of another product are not touched.
<1>2. ASSUME UNCHANGED <<rule, product>>, edited \subseteq edited',
             NEW q \in Products,
             \A v \in Variants : \/ variant'[v] = variant[v]
                                 \/ /\ variant[v] = None \/ variant[v].product # q
                                    /\ variant'[v].product # q
      PROVE  Still(q)
  <2>1. VariantsOf(q)' = VariantsOf(q) /\ \A v \in VariantsOf(q) : variant'[v] = variant[v]
    BY <1>2 DEF VariantsOf
  <2>2. RuleOf(q)' = RuleOf(q) /\ (Live(q)' => Live(q))
    BY <1>2 DEF RuleOf, Live
  <2> QED
    BY <1>2, <2>1, <2>2 DEF Still, Alike
<1>3. ASSUME NEW v \in Variants, EditVariant(c, p, v, ListPrice) PROVE AlonePrices'
  <2>1. /\ UNCHANGED <<rule, product, clerk>> /\ edited' = edited \cup {p}
        /\ alone /\ \A d \in Clerks : At(d, "idle")
    <3>1. alone' = (alone /\ \A d \in Clerks : At(d, "idle"))
      BY <1>3 DEF EditVariant
    <3> QED
      BY <1>3, <3>1 DEF EditVariant
  <2>2. AlonePrices /\ \A d \in Clerks : clerk[d] = Idle
    BY <2>1, NobodyElse
  <2>3. Goto(c, Idle) /\ clerk'[c] = Idle /\ \A q : ~Waits(clerk[c], q, product[q].rule)
    BY <1>1, <2>1, <2>2 DEF Goto, Waits, Idle
  <2>4. StepFollows(clerk[c])'
    BY <2>3, EasyStep DEF Idle
  <2>5. PICK row : row.product = p /\ variant' = [variant EXCEPT ![v] = row]
    <3> DEFINE new == [product |-> p, cost |-> None, price |-> ListPrice, deleted |-> FALSE]
               repriced == [variant[v] EXCEPT !.price = ListPrice]
               gone == [variant[v] EXCEPT !.deleted = TRUE]
    <3>1. new.product = p
      OBVIOUS
    <3>2. v \in VariantsOf(p) => repriced.product = p /\ gone.product = p
      BY <1>1 DEF VariantsOf, VariantRow
    <3>3. \/ variant' = [variant EXCEPT ![v] = new]
          \/ v \in VariantsOf(p) /\ variant' = [variant EXCEPT ![v] = repriced]
          \/ v \in VariantsOf(p) /\ variant' = [variant EXCEPT ![v] = gone]
      BY <1>3 DEF EditVariant, WithVariant, Repriced, SoftDeleted
    <3> HIDE DEF new, repriced, gone
    <3> QED
      BY <3>1, <3>2, <3>3
  <2>6. /\ variant'[v] = row /\ \A w \in Variants \ {v} : variant'[w] = variant[w]
        /\ variant[v] = None \/ variant[v].product = p
    BY <1>1, <1>3, <2>5, FreshIs DEF EditVariant, VariantsOf, CatalogInv
  <2>7. ASSUME NEW q \in Products, Plain(q)' PROVE Still(q)
    <3>1. q # p
      BY <2>1, <2>7 DEF Plain
    <3>2. \A w \in Variants : \/ variant'[w] = variant[w]
                              \/ /\ variant[w] = None \/ variant[w].product # q
                                 /\ variant'[w].product # q
      BY <2>5, <2>6, <3>1
    <3> QED
      BY <1>2, <2>1, <3>2
  <2> QED
    BY <2>2, <2>3, <2>4, <2>7, IdleIs, RequestMoves
<1>4. CASE WriteVariants(c, p)
  <2> DEFINE seen == clerk[c].stage[p]
             stage == [is |-> "priced", regular |-> seen.regular, sale |-> seen.sale]
             vs == VariantsOf(p)
  <2>1. /\ At(c, "recalculate") /\ p \in DOMAIN clerk[c].stage /\ seen.is = "read"
        /\ UNCHANGED <<rule, product, edited, alone>> /\ Stage(c, p, stage)
        /\ variant' = [w \in Variants |->
                         IF w \in DOMAIN seen.price /\ variant[w].cost # None
                         THEN [variant[w] EXCEPT !.price = seen.price[w]] ELSE variant[w]]
    BY <1>4 DEF WriteVariants, Recalculating, history
  <2>2. AlonePrices /\ \A d \in Clerks \ {c} : clerk[d] = Idle
    BY <2>1, AloneIs DEF At
  <2>3. /\ seen \in PricesRead /\ clerk[c] \in Recalculations
    BY <1>1, <2>1, StepKinds, StageTable DEF At
  <2>4. /\ DOMAIN seen.price = vs
        /\ \A v \in vs : seen.price[v] = IF variant[v].cost = None THEN variant[v].price
                                         ELSE VariantPrice(variant[v].cost, RuleOf(p))
        /\ \E v \in vs : seen.regular = seen.price[v]
        /\ SaleIs(seen.sale, seen.regular, RuleOf(p))
    BY <2>1, <2>2 DEF AlonePrices, StepFollows, StageFollows, StageFits, At
  <2>5. stage \in VariantsPriced /\ stage.is = "priced" /\ stage.regular = seen.regular
        /\ stage.sale = seen.sale
    BY <2>3 DEF PricesRead, VariantsPriced
  <2> HIDE DEF stage, seen
  <2>6. \A v \in vs : v \in Variants /\ variant[v] \in VariantRow /\ variant[v].product = p
                      /\ variant[v] # None /\ ~variant[v].deleted
    BY <1>1 DEF VariantsOf
  <2>7. ASSUME NEW v \in vs
        PROVE  /\ variant'[v] \in VariantRow /\ variant'[v].product = p /\ ~variant'[v].deleted
               /\ variant'[v].cost = variant[v].cost /\ variant'[v].price = seen.price[v]
    <3>1. CASE variant[v].cost = None
      BY <2>1, <2>4, <2>6, <3>1
    <3>2. CASE variant[v].cost # None
      <4> DEFINE row == [variant[v] EXCEPT !.price = seen.price[v]]
      <4>1. seen.price[v] \in Nat
        <5>1. seen.price \in [DOMAIN seen.price -> Nat]
          BY <2>3 DEF PricesRead, PriceTables
        <5> QED
          BY <2>4, <5>1
      <4>2. /\ row \in VariantRow /\ row.product = p /\ ~row.deleted
            /\ row.cost = variant[v].cost /\ row.price = seen.price[v]
        BY <2>6, <4>1 DEF VariantRow
      <4>3. variant'[v] = row
        BY <2>1, <2>4, <2>6, <3>2
      <4> HIDE DEF row
      <4> QED
        BY <4>2, <4>3
    <3> QED
      BY <3>1, <3>2
  <2>8. \A w \in Variants \ vs : variant'[w] = variant[w]
    BY <2>1, <2>4
  <2>9. VariantsOf(p)' = vs
    <3>1. \A v \in vs : v \in VariantsOf(p)'
      BY <2>6, <2>7, CatalogAssumption DEF VariantsOf
    <3>2. \A v \in VariantsOf(p)' : v \in vs
      BY <2>8 DEF VariantsOf
    <3> QED
      BY <3>1, <3>2
  <2>10. RuleOf(p)' = RuleOf(p)
    BY <2>1 DEF RuleOf
  <2>11. Fits(variant', VariantsOf(p)', RuleOf(p)', stage.regular, stage.sale)
    <3> HIDE DEF vs
    <3>1. VariantsFit(variant', vs, RuleOf(p))
      BY <2>4, <2>7 DEF VariantsFit
    <3>2. \E v \in vs : stage.regular = variant'[v].price
      BY <2>4, <2>5, <2>7
    <3> QED
      BY <2>4, <2>5, <2>9, <2>10, <3>1, <3>2 DEF Fits
  <2>12. \A q \in Products \ {p} : Still(q)
    <3>1. ASSUME NEW q \in Products \ {p}, NEW w \in Variants
          PROVE  \/ variant'[w] = variant[w]
                 \/ /\ variant[w] = None \/ variant[w].product # q
                    /\ variant'[w].product # q
      BY <2>6, <2>7, <2>8
    <3> QED
      BY <1>2, <2>1, <3>1
  <2>13. PICK step \in Steps :
           /\ Goto(c, step) /\ step.at = "recalculate"
           /\ DOMAIN step.stage = DOMAIN clerk[c].stage /\ step.stage[p] = stage
           /\ \A q \in DOMAIN clerk[c].stage \ {p} : step.stage[q] = clerk[c].stage[q]
    BY <1>1, <2>1, <2>5, StageIs
  <2>14. StageFits(variant', VariantsOf(p)', RuleOf(p)', step.stage[p])
    BY <2>5, <2>11, <2>13 DEF StageFits
  <2>15. StepFollows(clerk[c])'
    BY <2>1, <2>2, <2>12, <2>13, <2>14, StagesGoOn
  <2>16. \A q \in Products : \/ Waits(step, q, product'[q].rule)
                             \/ Still(q) /\ ~Waits(clerk[c], q, product[q].rule)
    BY <2>1, <2>12, <2>13 DEF Waits, At
  <2> QED
    BY <2>2, <2>13, <2>15, <2>16, RequestMoves
<1> QED
  BY <1>3, <1>4

\* A sweep: what it moves waits to be priced anew.
LEMMA SweepAlone ==
  ASSUME PriceInv, alone', NEW c \in Clerks, Sweep(c)
  PROVE  AlonePrices'
<1> USE DEF PriceInv
<1>1. PICK r, moves : r = clerk[c].rule /\ moves = clerk[c].moves
  OBVIOUS
<1>2. /\ clerk[c].at = "swept" /\ UNCHANGED <<variant, edited, alone>>
      /\ Goto(c, [at |-> "list", rule |-> r])
      /\ \A q \in Rules : \/ rule'[q] = rule[q]
                          \/ rule[q] # None /\ rule'[q] = [rule[q] EXCEPT !.default = FALSE]
                          \/ rule[q] # None /\ rule'[q] = [rule[q] EXCEPT !.default = TRUE]
      /\ \A p \in Products : product'[p] = IF p \in moves THEN [product[p] EXCEPT !.rule = r]
                                           ELSE product[p]
  BY <1>1 DEF Sweep, At, history
<1>3. /\ clerk \in [Clerks -> Steps] /\ r \in Rules
      /\ moves \subseteq Products /\ \A p \in moves : product[p] # None
  BY <1>1, <1>2, StepKinds DEF CatalogInv, Sweeping, StepRefers
<1>4. /\ AlonePrices /\ \A d \in Clerks \ {c} : clerk[d] = Idle
      /\ \A p : ~Waits(clerk[c], p, product[p].rule)
  BY <1>2, AloneIs DEF Waits
<1> DEFINE step == [at |-> "list", rule |-> r]
<1>5. step \in Steps /\ step.at = "list" /\ step.rule = r /\ Goto(c, step)
  BY <1>2, <1>3 DEF Steps, OnRule
<1> HIDE DEF step
<1>6. StepFollows(clerk[c])'
  BY <1>3, <1>5, OneStep, EasyStep
<1>7. ASSUME NEW q \in Rules PROVE Alike(rule[q], rule'[q])
  <2>1. ASSUME rule[q] # None, NEW default \in BOOLEAN, rule'[q] = [rule[q] EXCEPT !.default = default]
        PROVE  SameTerms(rule[q], rule'[q])
    <3>1. rule[q] \in RuleRow /\ rule'[q] \in RuleRow
      BY <2>1 DEF RuleRow, CatalogInv, RowsTyped
    <3>2. rule'[q].markup = rule[q].markup /\ rule'[q].minimum = rule[q].minimum
          /\ rule'[q].sale = rule[q].sale
      BY <2>1, <3>1 DEF RuleRow
    <3> QED
      BY <3>1, <3>2, CatalogAssumption DEF SameTerms
  <2>2. TRUE \in BOOLEAN /\ FALSE \in BOOLEAN
    OBVIOUS
  <2> QED
    BY <1>2, <2>1, <2>2 DEF Alike
<1>8. ASSUME NEW p \in Products, Plain(p)' PROVE Waits(step, p, product'[p].rule) \/ Still(p)
  <2>1. CASE p \in moves
    <3>1. product[p] \in ProductRow /\ product'[p] = [product[p] EXCEPT !.rule = r]
      BY <1>2, <1>3, <2>1 DEF CatalogInv, RowsTyped
    <3>2. product'[p].rule = r
      BY <3>1 DEF ProductRow
    <3> QED
      BY <1>5, <3>2 DEF Waits
  <2>2. CASE p \notin moves
    <3>1. product'[p] = product[p] /\ product[p] # None
      BY <1>2, <1>8, <2>2 DEF Plain, Live
    <3>2. product[p].rule \in Rules \cup {None}
      BY <3>1 DEF CatalogInv, RowsTyped, ProductRow
    <3>3. Alike(RuleOf(p), RuleOf(p)')
      BY <1>7, <3>1, <3>2 DEF RuleOf, Alike
    <3> QED
      BY <1>2, <3>1, <3>3 DEF Still, VariantsOf, Live
  <2> QED
    BY <2>1, <2>2
<1> QED
  BY <1>4, <1>5, <1>6, <1>8, RequestMoves

\* An import reads the rule its product is on.
LEMMA ImportsAlone ==
  ASSUME PriceInv, alone', NEW c \in Clerks, \A o \in Offers : DOMAIN o.cost \ {NoId} # {},
         \/ \E store \in Stores, i \in Items : AskImport(c, store, i)
         \/ BeginImport(c) \/ ImportFails(c)
  PROVE  AlonePrices'
<1> USE DEF PriceInv
<1>1. clerk \in [Clerks -> Steps] /\ clerk[c] \in Steps /\ UNCHANGED rows
  BY DEF CatalogInv, AskImport, BeginImport, ImportFails
<1>2. ASSUME NEW store \in Stores, NEW i \in Items, AskImport(c, store, i) PROVE AlonePrices'
  <2>1. PICK cost, slug : cost = Normalized(offer[i].cost) /\ slug = offer[i].slug
    OBVIOUS
  <2>2. PICK default \in FoundDefaults(store) :
          Asked(c, "imports", [at |-> "import", store |-> store, item |-> i, slug |-> slug,
                               cost |-> cost, default |-> default])
    BY <1>2, <2>1 DEF AskImport
  <2> DEFINE step == [at |-> "import", store |-> store, item |-> i, slug |-> slug, cost |-> cost,
                      default |-> default]
  <2>3. slug \in Slugs /\ cost \in CostTables /\ DOMAIN cost # {} /\ default \in Rules \cup {None}
    BY <2>1, <2>2, NormalizedIs DEF CatalogInv, SupplierTyped, FoundDefaults, DefaultsOf
  <2>4. step \in Steps /\ step.at = "import" /\ step.cost = cost /\ Asked(c, "imports", step)
    BY <2>2, <2>3 DEF Steps, Importing
  <2> HIDE DEF step
  <2>5. clerk'[c] = step /\ UNCHANGED edited
    BY <1>1, <2>4, ArrivesAlone, OneStep
  <2>6. StepFollows(clerk[c])'
    BY <2>3, <2>4, <2>5 DEF StepFollows
  <2> QED
    BY <1>1, <2>4, <2>5, <2>6, ArrivesAlone, RowsStay
<1>3. ASSUME clerk[c].at \in {"import", "commit"}, UNCHANGED alone
      PROVE  /\ AlonePrices /\ \A d \in Clerks \ {c} : clerk[d] = Idle
             /\ \A p : ~Waits(clerk[c], p, product[p].rule)
  BY <1>3, AloneIs DEF Waits
<1>4. CASE BeginImport(c)
  <2>1. PICK job, found, p, r :
          /\ job = clerk[c] /\ found = ProductWith(job.store, job.slug)
          /\ p = IF found = {} THEN None ELSE Min(found)
          /\ r = IF found = {} THEN job.default ELSE product[Min(found)].rule
    OBVIOUS
  <2> DEFINE ruled == IF r = None THEN None ELSE rule[r]
  <2>2. PICK priced : priced = ruled
    OBVIOUS
  <2> DEFINE step == [at |-> "commit", store |-> job.store, item |-> job.item, slug |-> job.slug,
                      cost |-> job.cost, product |-> p, rule |-> r, priced |-> priced]
  <2>3. /\ job.at = "import" /\ (r # None => rule[r] # None) /\ Goto(c, step)
        /\ UNCHANGED <<edited, alone>>
    BY <1>4, <2>1, <2>2 DEF BeginImport, At, history
  <2>4. job \in Importing
    BY <1>1, <2>1, <2>3, StepKinds
  <2>5. found # {} => Min(found) \in found
    BY <2>1, MinIs, CatalogAssumption DEF ProductWith
  <2>6. p \in Products \cup {None}
        /\ (p # None => product[p] \in ProductRow /\ r = product[p].rule)
    BY <2>1, <2>5 DEF ProductWith, CatalogInv, RowsTyped
  <2>7. r \in Rules \cup {None}
    BY <2>1, <2>4, <2>5, <2>6 DEF Importing, ProductRow, ProductWith, CatalogInv, RowsTyped
  <2>8. priced \in RuleRow \cup {None} /\ (r # None => priced = rule[r]) /\ (r = None => priced = None)
    BY <2>2, <2>7 DEF CatalogInv, RowsTyped
  <2>9. /\ step \in Steps /\ step.at = "commit" /\ step.cost = job.cost
        /\ step.product = p /\ step.rule = r /\ step.priced = priced
    BY <2>4, <2>6, <2>7, <2>8 DEF Importing, Steps, Committing
  <2> HIDE DEF step, ruled
  <2>10. clerk'[c] = step
    BY <1>1, <2>3, <2>9, OneStep
  <2>11. /\ AlonePrices /\ \A d \in Clerks \ {c} : clerk[d] = Idle
         /\ \A q : ~Waits(clerk[c], q, product[q].rule)
    BY <1>3, <2>1, <2>3
  <2>12. DOMAIN job.cost # {}
    BY <2>1, <2>3, <2>11 DEF AlonePrices, StepFollows
  <2>13. r # None => SameTerms(priced, rule[r])
    BY <2>3, <2>8 DEF SameTerms
  <2>14. StepFollows(clerk[c])'
    BY <1>1, <2>6, <2>8, <2>9, <2>10, <2>12, <2>13 DEF StepFollows, RuleIsRead, rows
  <2> QED
    BY <1>1, <2>3, <2>9, <2>11, <2>14, RowsStay
<1>5. CASE ImportFails(c)
  <2>1. clerk[c].at \in {"import", "commit"} /\ Goto(c, Idle) /\ UNCHANGED <<edited, alone>>
    BY <1>5 DEF ImportFails, At, Done, history
  <2>2. StepFollows(clerk[c])'
    <3>1. clerk'[c] = Idle
      BY <1>1, <2>1, IdleIs, OneStep
    <3> QED
      BY <3>1, EasyStep DEF Idle
  <2> QED
    BY <1>1, <1>3, <2>1, <2>2, IdleIs, RowsStay
<1> QED
  BY <1>2, <1>4, <1>5

\* The price an import shows is the lowest of its variants'.
LEMMA ShownIsOfOne ==
  ASSUME CatalogInv, NEW job \in Committing, job.product \in Products, DOMAIN job.cost # {}
  PROVE  /\ \E e \in DOMAIN job.cost :
              ShownPrice(job) = VariantPrice(CostOf(job.cost, e), job.priced)
         /\ SaleIs(ShownSale(ShownPrice(job), job.priced), ShownPrice(job), job.priced)
<1> DEFINE prices == {VariantPrice(CostOf(job.cost, e), job.priced) : e \in DOMAIN job.cost}
<1>1. prices \in SUBSET Nat /\ prices # {}
  BY ImportedIs
<1>2. ShownPrice(job) = Min(prices)
  BY DEF ShownPrice
<1>3. Min(prices) \in prices /\ Min(prices) \in Nat
  <2> HIDE DEF prices
  <2> QED
    BY <1>1, MinIs
<1>4. job.priced \in RuleRow \cup {None}
  BY DEF Committing
<1> QED
  BY <1>2, <1>3, <1>4, ShownSaleIs

\* An import prices its product, and leaves the others alone or is remembered.
LEMMA CommitAlone ==
  ASSUME PriceInv, alone', NEW c \in Clerks, CommitImport(c)
  PROVE  AlonePrices'
<1> USE DEF PriceInv
<1>1. PICK job, at : Commits(c, job, at)
  BY CommitIs
<1>2. PICK p \in Products : p = job.product
  BY <1>1 DEF Commits
<1>3. /\ clerk[c].at = "commit" /\ UNCHANGED <<rule, alone>> /\ Goto(c, Idle)
      /\ clerk[c] \in Committing /\ job \in Committing /\ job.product \in Products
      /\ job.cost = clerk[c].cost /\ job.rule = clerk[c].rule /\ job.priced = clerk[c].priced
  BY ZenonT(40), <1>1, StepKinds DEF CommitImport, Commits, At, CatalogInv, Committing
<1>4. /\ AlonePrices /\ \A d \in Clerks \ {c} : clerk[d] = Idle
      /\ \A q : ~Waits(clerk[c], q, product[q].rule)
      /\ \A q \in Products : Plain(q) => Follows(q)
  <2>1. AlonePrices /\ \A d \in Clerks \ {c} : clerk[d] = Idle
    BY <1>3, AloneIs
  <2>2. \A q \in Products : ~Pending(q)
    BY <1>3, <2>1 DEF Pending, Waits, Idle
  <2> QED
    BY <1>3, <2>1, <2>2 DEF AlonePrices, Waits
<1>5. RuleIsRead(clerk[c]) /\ DOMAIN job.cost # {}
  BY <1>3, <1>4 DEF AlonePrices, StepFollows
<1>6. StepFollows(clerk[c])'
  <2>1. clerk'[c] = Idle
    BY <1>3, IdleIs, OneStep DEF CatalogInv
  <2> QED
    BY <2>1, EasyStep DEF Idle
<1>7. /\ product'[p] = ImportedProduct(job) /\ \A q \in Products \ {p} : product'[q] = product[q]
      /\ product'[p].rule = job.rule /\ product'[p] # None
  BY <1>1, <1>2, <1>3, ImportedIs, CatalogAssumption DEF Commits, CatalogInv, RowsTyped
<1>8. /\ at \in [DOMAIN job.cost -> Variants]
      /\ \A e, f \in DOMAIN job.cost : at[e] = at[f] => e = f
  BY <1>1, <1>3, PlacedIs DEF Commits
<1>9. ASSUME NEW v \in Variants
      PROVE  \/ variant'[v] = variant[v] /\ \A e \in DOMAIN job.cost : at[e] # v
             \/ \E e \in DOMAIN job.cost : at[e] = v /\ variant'[v] = ImportedVariant(job, e, v)
  BY <1>1 DEF Commits
<1>10. edited' = edited \cup IF From(job, at) \subseteq {p} THEN {} ELSE From(job, at) \cup {p}
  BY <1>1, <1>2 DEF Commits
<1>11. CatalogInv'
  BY CommitAction
<1>12. Alike(job.priced, RuleOf(p)')
  BY <1>3, <1>5, <1>7 DEF RuleIsRead, RuleOf, Alike
<1>13. ASSUME NEW e \in DOMAIN job.cost, NEW v \in Variants, at[e] = v
       PROVE  /\ variant'[v].product = p /\ variant'[v] # None
              /\ variant'[v].price = VariantPrice(CostOf(job.cost, e), job.priced)
              /\ variant'[v].cost = CostOf(job.cost, e)
              /\ variant'[v].deleted => p \in edited'
  <2>1. variant'[v] = ImportedVariant(job, e, v)
    BY <1>8, <1>9, <1>13
  <2>2. variant'[v] # None
    BY <1>3, <2>1, ImportedIs, CatalogAssumption
  <2>3. variant'[v].product = p
    BY <1>2, <2>1 DEF ImportedVariant
  <2> QED
    BY <1>11, <2>1, <2>2, <2>3 DEF ImportedVariant, CatalogInv, RowsRefer
<1>14. ASSUME Plain(p)' PROVE Follows(p)'
  <2>1. p \notin edited' /\ p \notin edited
    BY <1>10, <1>14 DEF Plain
  <2>2. ASSUME NEW v \in VariantsOf(p)'
        PROVE  variant'[v].cost # None =>
                 variant'[v].price = VariantPrice(variant'[v].cost, RuleOf(p)')
    <3>1. v \in Variants
      BY <2>2 DEF VariantsOf
    <3>2. CASE \E e \in DOMAIN job.cost : at[e] = v
      BY <1>12, <1>13, <3>1, <3>2, AlikeIs
    <3>3. CASE variant'[v] = variant[v]
      <4>1. v \in VariantsOf(p)
        BY <2>2, <3>3 DEF VariantsOf
      <4>2. product[p] # None
        BY <3>1, <4>1 DEF VariantsOf, CatalogInv, RowsRefer
      <4>3. clerk[c].product = p
        BY <1>1, <1>2, <4>2 DEF Commits
      <4>4. Live(p)
        <5>1. product'[p].deleted = (product[p] # None /\ product[p].deleted)
          BY <1>2, <1>7 DEF ImportedProduct
        <5>2. ~product'[p].deleted
          BY <1>14 DEF Plain, Live
        <5> QED
          BY <4>2, <5>1, <5>2 DEF Live
      <4>5. Plain(p)
        BY <2>1, <4>1, <4>4 DEF Plain
      <4>6. RuleOf(p)' = RuleOf(p)
        <5>1. product[p].rule = product'[p].rule
          BY <1>2, <1>3, <1>5, <1>7, <4>3, CatalogAssumption DEF RuleIsRead
        <5> QED
          BY <1>3, <5>1 DEF RuleOf
      <4>7. variant[v].cost # None => variant[v].price = VariantPrice(variant[v].cost, RuleOf(p))
        BY <1>4, <4>1, <4>5 DEF Follows, Fits, VariantsFit
      <4> QED
        BY <3>3, <4>6, <4>7
    <3> QED
      BY <1>9, <3>1, <3>2, <3>3
  <2>3. VariantsFit(variant', VariantsOf(p)', RuleOf(p)')
    BY <2>2 DEF VariantsFit
  <2>4. PICK e \in DOMAIN job.cost : ShownPrice(job) = VariantPrice(CostOf(job.cost, e), job.priced)
    BY <1>3, <1>5, ShownIsOfOne
  <2>5. at[e] \in VariantsOf(p)' /\ ShownPrice(job) = variant'[at[e]].price
    <3>1. at[e] \in Variants
      BY <1>8
    <3> QED
      BY <1>13, <2>1, <2>4, <3>1 DEF VariantsOf
  <2>6. /\ product'[p].price = ShownPrice(job)
        /\ product'[p].sale = ShownSale(ShownPrice(job), job.priced)
    BY <1>5, <1>7 DEF ImportedProduct
  <2>7. SaleIs(product'[p].sale, product'[p].price, RuleOf(p)')
    BY <1>3, <1>5, <1>12, <2>6, ShownIsOfOne, AlikeIs
  <2> QED
    BY <2>3, <2>5, <2>6, <2>7 DEF Follows, Fits
<1>15. ASSUME NEW q \in Products \ {p}, Plain(q)' PROVE Still(q)
  <2>1. product'[q] = product[q] /\ q \notin edited'
    BY <1>7, <1>15 DEF Plain
  <2>2. ASSUME NEW v \in VariantsOf(q) PROVE v \in Variants /\ variant'[v] = variant[v]
    <3>1. v \in Variants /\ variant[v] # None /\ variant[v].product = q
      BY <2>2 DEF VariantsOf
    <3>2. ASSUME NEW e \in DOMAIN job.cost, at[e] = v PROVE FALSE
      <4>1. q \in From(job, at)
        BY <3>1, <3>2 DEF From
      <4>2. ~(From(job, at) \subseteq {p})
        BY <1>15, <4>1
      <4> QED
        BY <1>10, <2>1, <4>1, <4>2
    <3> QED
      BY <1>9, <3>1, <3>2
  <2>3. ASSUME NEW v \in VariantsOf(q)' PROVE v \in VariantsOf(q)
    <3>1. v \in Variants /\ variant'[v].product = q
      BY <2>3 DEF VariantsOf
    <3>2. variant'[v] = variant[v]
      BY <1>9, <1>13, <1>15, <3>1
    <3> QED
      BY <2>3, <3>2 DEF VariantsOf
  <2>4. VariantsOf(q)' = VariantsOf(q)
    <3>1. \A v \in VariantsOf(q) : v \in VariantsOf(q)'
      BY <2>2 DEF VariantsOf
    <3> QED
      BY <2>3, <3>1
  <2>5. RuleOf(q)' = RuleOf(q)
    BY <1>3, <2>1 DEF RuleOf
  <2> QED
    BY <1>10, <2>1, <2>2, <2>4, <2>5 DEF Still, Alike, Live
<1> QED
  BY <1>3, <1>4, <1>6, <1>14, <1>15, IdleIs, RequestMoves

-----------------------------------------------------------------------------
LEMMA InitPriceInv == Init => PriceInv
<1> SUFFICES ASSUME Init PROVE AlonePrices
  BY InitCatalogInv DEF PriceInv
<1>1. \A c \in Clerks : clerk[c] = Idle
  BY DEF Init
<1>2. \A c \in Clerks : StepFollows(clerk[c])
  BY <1>1 DEF StepFollows, Idle
<1>3. \A p \in Products : ~Plain(p)
  BY DEF Init, Plain, Live
<1> QED
  BY <1>1, <1>2, <1>3 DEF AlonePrices

LEMMA PricesAreKept ==
  ASSUME PriceInv, [Next]_catalogVars, \A o \in Offers : DOMAIN o.cost \ {NoId} # {}
  PROVE  PriceInv'
<1>1. CatalogInv'
  BY CatalogIsKept DEF PriceInv
<1>2. ASSUME alone' PROVE AlonePrices'
  <2>1. CASE UNCHANGED catalogVars
    <3>1. UNCHANGED <<rule, product, variant, clerk, edited, alone>>
      BY <2>1 DEF catalogVars, rows, history
    <3> QED
      BY <1>2, <3>1, NobodyMoves DEF PriceInv, Alike
  <2>2. CASE RuleNext
    BY <1>2, <2>2, RulesAlone, ReadsAlone, ProductsAlone, VariantsAlone, SweepAlone DEF RuleNext
  <2>3. CASE Clock
    BY <1>2, <2>3, RulesAlone
  <2>4. CASE StaffNext
    BY <1>2, <2>4, ReadsAlone, ProductsAlone, VariantsAlone DEF StaffNext
  <2>5. CASE ImportNext
    BY <1>2, <2>5, ImportsAlone, CommitAlone DEF ImportNext
  <2>6. CASE Supplier
    <3>1. UNCHANGED <<rule, product, variant, clerk, edited, alone>>
      BY <2>6 DEF Supplier, Reoffer, rows, history
    <3> QED
      BY <1>2, <3>1, NobodyMoves DEF PriceInv, Alike
  <2> QED
    BY <2>1, <2>2, <2>3, <2>4, <2>5, <2>6 DEF Next
<1> QED
  BY <1>1, <1>2 DEF PriceInv

\* PricingRuleService, importProduct: while requests come one at a time and
\* suppliers leave an item a variant, prices follow the rules, for any number of
\* products, variants and rules and whatever they cost.
THEOREM PricesFollowRules ==
  ASSUME \A o \in Offers : DOMAIN o.cost \ {NoId} # {}
  PROVE  Spec => []AlonePricesFollowRules
<1>1. PriceInv => AlonePricesFollowRules
  <2> SUFFICES ASSUME PriceInv, Calm, NEW p \in Products, Plain(p)
               PROVE  Follows(p)
    BY DEF AlonePricesFollowRules, Plain, Follows, Fits, VariantsFit, SaleIs
  <2>1. AlonePrices /\ \A c \in Clerks : clerk[c].at = "idle"
    BY DEF PriceInv, Calm, At
  <2>2. ~Pending(p)
    BY <2>1 DEF Pending, Waits
  <2> QED
    BY <2>1, <2>2 DEF AlonePrices
<1>2. PriceInv /\ [Next]_catalogVars => PriceInv'
  BY PricesAreKept
<1> QED
  BY <1>1, <1>2, InitPriceInv, PTL DEF Spec

-----------------------------------------------------------------------------
\* Of a set of numbers, one is the least.
LEMMA Least ==
  ASSUME NEW T \in SUBSET Nat, T # {}
  PROVE  \E n \in T : \A m \in T : n <= m
<1>1. IsWellFoundedOn(OpToRel(<, Nat), Nat)
  BY NatLessThanWellFounded
<1>2. PICK n \in T : \A m \in T : ~ (<<m, n>> \in OpToRel(<, Nat))
  BY <1>1, WFMin
<1>3. \A m \in T : ~ (m < n)
  BY <1>2 DEF OpToRel
<1> QED
  BY <1>3

\* What passes on from each number to the next holds of all of them.
LEMMA StepInduction ==
  ASSUME NEW N \in Nat, NEW Q \in SUBSET (0 .. N), 0 \in Q,
         \A n \in 1 .. N : n - 1 \in Q => n \in Q
  PROVE  Q = 0 .. N
<1> DEFINE bad == (0 .. N) \ Q
<1>1. SUFFICES ASSUME bad # {} PROVE FALSE
  OBVIOUS
<1>2. bad \in SUBSET Nat
  OBVIOUS
<1>3. PICK n \in bad : \A m \in bad : n <= m
  <2> HIDE DEF bad
  <2> QED
    BY <1>1, <1>2, Least
<1>4. n \in 1 .. N /\ n - 1 \notin bad /\ n - 1 \in 0 .. N
  BY <1>3
<1> QED
  BY <1>4

\* f is worked out one number after another, from base.
Climbs(f, N, base, G) ==
  /\ f[0] = base
  /\ \A n \in 1 .. N : f[n] = G[<<n, f[n - 1]>>]
-----------------------------------------------------------------------------
(***************************************************************************)
(* The seed.  Its script is put together from lists: where each lies in it *)
(* comes first.                                                            *)
(***************************************************************************)
LEMMA TableIs ==
  ASSUME NEW t, IsTable(t)
  PROVE  Len(t) \in Nat /\ DOMAIN t = 1 .. Len(t) /\ t = [i \in 1 .. Len(t) |-> t[i]]
BY DEF IsTable

LEMMA ListIsTable ==
  ASSUME NEW n \in Nat, NEW f, f = [i \in 1 .. n |-> f[i]]
  PROVE  IsTable(f) /\ Len(f) = n
<1>1. DOMAIN f = 1 .. n
  OBVIOUS
<1>2. \A i \in 1 .. n : f[i] \in ToSet(f)
  BY <1>1 DEF ToSet
<1>3. f \in [1 .. n -> ToSet(f)]
  <2> DEFINE S == ToSet(f)
  <2>1. \A i \in 1 .. n : f[i] \in S
    BY <1>2
  <2> HIDE DEF S
  <2>2. f \in [1 .. n -> S]
    BY <2>1
  <2> QED
    BY <2>2 DEF S
<1>4. f \in Seq(ToSet(f)) /\ Len(f) = n
  <2> DEFINE S == ToSet(f)
  <2> HIDE DEF S
  <2>1. f \in [1 .. n -> S] => f \in Seq(S) /\ Len(f) = n
    OBVIOUS
  <2> QED
    BY <1>3, <2>1 DEF S
<1> QED
  BY <1>4 DEF IsTable

\* Two lists, one after the other.
LEMMA JoinIs ==
  ASSUME NEW s, NEW t, IsTable(s), IsTable(t)
  PROVE  /\ IsTable(s \o t)
         /\ Len(s \o t) = Len(s) + Len(t)
         /\ \A i \in 1 .. Len(s) : (s \o t)[i] = s[i]
         /\ \A i \in 1 .. Len(t) : (s \o t)[Len(s) + i] = t[i]
         /\ \A i \in 1 .. Len(s \o t) : i \in 1 .. Len(s) \/ i - Len(s) \in 1 .. Len(t)
         /\ \A i \in 1 .. Len(s \o t) :
              (s \o t)[i] = IF i <= Len(s) THEN s[i] ELSE t[i - Len(s)]
         /\ ToSet(s \o t) = ToSet(s) \cup ToSet(t)
<1>1. Len(s) \in Nat /\ Len(t) \in Nat /\ DOMAIN s = 1 .. Len(s) /\ DOMAIN t = 1 .. Len(t)
  BY TableIs
<1> DEFINE T == ToSet(s) \cup ToSet(t)
           u == s \o t
<1>2. s \in Seq(T) /\ t \in Seq(T)
  <2>1. \A S, S2 : s \in Seq(S) => s \in Seq(S \cup S2)
    OBVIOUS
  <2>2. \A S, S2 : t \in Seq(S) => t \in Seq(S2 \cup S)
    OBVIOUS
  <2> QED
    BY <2>1, <2>2 DEF IsTable
<1> HIDE DEF T
<1>3. u \in Seq(T) /\ Len(u) = Len(s) + Len(t)
  BY <1>2
<1>4. \A i \in 1 .. Len(u) : u[i] = IF i <= Len(s) THEN s[i] ELSE t[i - Len(s)]
  BY <1>2, <1>3
<1> HIDE DEF u
<1>5. u = [i \in 1 .. Len(u) |-> u[i]] /\ Len(u) \in Nat
  BY <1>3
<1>6. IsTable(u)
  BY <1>5, ListIsTable
<1>7. \A i \in 1 .. Len(s) : u[i] = s[i]
  BY <1>1, <1>3, <1>4
<1>8. \A i \in 1 .. Len(t) : u[Len(s) + i] = t[i]
  <2>1. ASSUME NEW i \in 1 .. Len(t) PROVE u[Len(s) + i] = t[i]
    <3>1. Len(s) + i \in 1 .. Len(u) /\ ~(Len(s) + i <= Len(s)) /\ (Len(s) + i) - Len(s) = i
      BY <1>1, <1>3
    <3> QED
      BY <1>4, <3>1
  <2> QED
    BY <2>1
<1>9. \A i \in 1 .. Len(u) : i \in 1 .. Len(s) \/ i - Len(s) \in 1 .. Len(t)
  BY <1>1, <1>3
<1>10. ToSet(u) = ToSet(s) \cup ToSet(t)
  <2>1. DOMAIN u = 1 .. Len(u)
    BY <1>5
  <2>2. ASSUME NEW x \in ToSet(u) PROVE x \in ToSet(s) \cup ToSet(t)
    <3>1. PICK i \in 1 .. Len(u) : x = u[i]
      BY <2>1 DEF ToSet
    <3>2. CASE i <= Len(s)
      <4>1. i \in DOMAIN s /\ x = s[i]
        BY <1>1, <1>4, <3>1, <3>2
      <4> QED
        BY <4>1 DEF ToSet
    <3>3. CASE ~(i <= Len(s))
      <4>1. i - Len(s) \in DOMAIN t /\ x = t[i - Len(s)]
        BY <1>1, <1>3, <1>4, <3>1, <3>3
      <4> QED
        BY <4>1 DEF ToSet
    <3> QED
      BY <3>2, <3>3
  <2>3. ASSUME NEW x \in ToSet(s) PROVE x \in ToSet(u)
    <3>1. PICK i \in DOMAIN s : x = s[i]
      BY DEF ToSet
    <3>2. i \in DOMAIN u /\ x = u[i]
      BY <1>1, <1>3, <1>7, <2>1, <3>1
    <3> QED
      BY <3>2 DEF ToSet
  <2>4. ASSUME NEW x \in ToSet(t) PROVE x \in ToSet(u)
    <3>1. PICK i \in DOMAIN t : x = t[i]
      BY DEF ToSet
    <3>2. Len(s) + i \in DOMAIN u /\ x = u[Len(s) + i]
      BY <1>1, <1>3, <1>8, <2>1, <3>1
    <3> QED
      BY <3>2 DEF ToSet
  <2> QED
    BY <2>2, <2>3, <2>4
<1> QED
  BY <1>3, <1>4, <1>6, <1>7, <1>8, <1>9, <1>10 DEF u

\* The list c lies in s behind place b, and with it all that s has of these kinds
\* for the shop.
Within(s, c, b, kinds, shop) ==
  /\ b \in Nat /\ b + Len(c) <= Len(s)
  /\ \A j \in 1 .. Len(c) : s[b + j] = c[j]
  /\ \A i \in 1 .. Len(s) :
       s[i].by \in kinds /\ s[i].shop = shop => i > b /\ i <= b + Len(c)

Lacks(s, kinds, shop) == \A i \in 1 .. Len(s) : ~(s[i].by \in kinds /\ s[i].shop = shop)

LEMMA WithinFront ==
  ASSUME NEW s, NEW t, NEW c, IsTable(s), IsTable(t), IsTable(c), NEW b, NEW kinds, NEW shop,
         Within(s, c, b, kinds, shop), Lacks(t, kinds, shop)
  PROVE  Within(s \o t, c, b, kinds, shop)
<1> DEFINE u == s \o t
<1>1. Len(s) \in Nat /\ Len(t) \in Nat /\ Len(c) \in Nat
  BY TableIs
<1>2. /\ Len(u) = Len(s) + Len(t)
      /\ \A i \in 1 .. Len(s) : u[i] = s[i]
      /\ \A i \in 1 .. Len(u) : u[i] = IF i <= Len(s) THEN s[i] ELSE t[i - Len(s)]
  BY JoinIs
<1> HIDE DEF u
<1>3. b \in Nat /\ b + Len(c) <= Len(u)
  BY <1>1, <1>2 DEF Within
<1>4. ASSUME NEW j \in 1 .. Len(c) PROVE u[b + j] = c[j]
  <2>1. b + j \in 1 .. Len(s)
    BY <1>1 DEF Within
  <2> QED
    BY <1>2, <2>1 DEF Within
<1>5. ASSUME NEW i \in 1 .. Len(u), u[i].by \in kinds, u[i].shop = shop
      PROVE  i > b /\ i <= b + Len(c)
  <2>1. CASE i <= Len(s)
    <3>1. i \in 1 .. Len(s) /\ u[i] = s[i]
      BY <1>1, <1>2, <2>1
    <3> QED
      BY <1>5, <3>1 DEF Within
  <2>2. CASE ~(i <= Len(s))
    <3>1. i - Len(s) \in 1 .. Len(t) /\ u[i] = t[i - Len(s)]
      BY <1>1, <1>2, <2>2
    <3> QED
      BY <1>5, <3>1 DEF Lacks
  <2> QED
    BY <2>1, <2>2
<1>6. Within(u, c, b, kinds, shop)
  BY <1>3, <1>4, <1>5 DEF Within
<1> QED
  BY <1>6 DEF u

LEMMA WithinBack ==
  ASSUME NEW s, NEW t, NEW c, IsTable(s), IsTable(t), IsTable(c), NEW b, NEW kinds, NEW shop,
         Within(s, c, b, kinds, shop), Lacks(t, kinds, shop)
  PROVE  Within(t \o s, c, Len(t) + b, kinds, shop)
<1> DEFINE u == t \o s
<1>1. Len(s) \in Nat /\ Len(t) \in Nat /\ Len(c) \in Nat
  BY TableIs
<1>2. /\ Len(u) = Len(t) + Len(s)
      /\ \A i \in 1 .. Len(s) : u[Len(t) + i] = s[i]
      /\ \A i \in 1 .. Len(u) : u[i] = IF i <= Len(t) THEN t[i] ELSE s[i - Len(t)]
  BY JoinIs
<1> HIDE DEF u
<1>3. Len(t) + b \in Nat /\ (Len(t) + b) + Len(c) <= Len(u)
  BY <1>1, <1>2 DEF Within
<1>4. ASSUME NEW j \in 1 .. Len(c) PROVE u[(Len(t) + b) + j] = c[j]
  <2>1. b + j \in 1 .. Len(s) /\ b \in Nat
    BY <1>1 DEF Within
  <2>2. (Len(t) + b) + j = Len(t) + (b + j)
    BY <1>1, <2>1
  <2> QED
    BY <1>2, <2>1, <2>2 DEF Within
<1>5. ASSUME NEW i \in 1 .. Len(u), u[i].by \in kinds, u[i].shop = shop
      PROVE  i > Len(t) + b /\ i <= (Len(t) + b) + Len(c)
  <2>1. CASE i <= Len(t)
    <3>1. i \in 1 .. Len(t) /\ u[i] = t[i]
      BY <1>1, <1>2, <2>1
    <3> QED
      BY <1>5, <3>1 DEF Lacks
  <2>2. CASE ~(i <= Len(t))
    <3>1. i - Len(t) \in 1 .. Len(s) /\ u[i] = s[i - Len(t)]
      BY <1>1, <1>2, <2>2
    <3>2. b \in Nat /\ i - Len(t) > b /\ i - Len(t) <= b + Len(c)
      BY <1>5, <3>1 DEF Within
    <3> QED
      BY <1>1, <3>2
  <2> QED
    BY <2>1, <2>2
<1>6. Within(u, c, Len(t) + b, kinds, shop)
  BY <1>3, <1>4, <1>5 DEF Within
<1> QED
  BY <1>6 DEF u

\* All of a list lies within it.
LEMMA WithinItself ==
  ASSUME NEW s, IsTable(s), NEW kinds, NEW shop
  PROVE  Within(s, s, 0, kinds, shop)
<1>1. Len(s) \in Nat
  BY TableIs
<1> QED
  BY <1>1 DEF Within

\* What is nowhere in two lists is nowhere in the two together.
LEMMA NoneInBoth ==
  ASSUME NEW s, NEW t, IsTable(s), IsTable(t), NEW kinds, NEW shop,
         Lacks(s, kinds, shop), Lacks(t, kinds, shop)
  PROVE  Lacks(s \o t, kinds, shop)
<1>1. Len(s) \in Nat /\ Len(t) \in Nat
  BY TableIs
<1> DEFINE u == s \o t
<1>2. /\ \A i \in 1 .. Len(u) : i \in 1 .. Len(s) \/ i - Len(s) \in 1 .. Len(t)
      /\ \A i \in 1 .. Len(u) : u[i] = IF i <= Len(s) THEN s[i] ELSE t[i - Len(s)]
  BY JoinIs
<1> HIDE DEF u
<1>3. ASSUME NEW i \in 1 .. Len(u) PROVE ~(u[i].by \in kinds /\ u[i].shop = shop)
  <2>1. CASE i <= Len(s)
    <3>1. i \in 1 .. Len(s) /\ u[i] = s[i]
      BY <1>1, <1>2, <2>1
    <3> QED
      BY <3>1 DEF Lacks
  <2>2. CASE ~(i <= Len(s))
    <3>1. i - Len(s) \in 1 .. Len(t) /\ u[i] = t[i - Len(s)]
      BY <1>1, <1>2, <2>2
    <3> QED
      BY <3>1 DEF Lacks
  <2> QED
    BY <2>1, <2>2
<1>4. Lacks(u, kinds, shop)
  BY <1>3 DEF Lacks
<1> QED
  BY <1>4 DEF u

\* f joins the lists of ss, one after another.
Joins(f, ss) ==
  \A n \in 1 .. Len(ss) : f[n] = IF n = 1 THEN ss[n] ELSE f[n - 1] \o ss[n]

LEMMA FlattenIs ==
  ASSUME NEW ss, IsTable(ss), \A k \in 1 .. Len(ss) : IsTable(ss[k]), Len(ss) # 0
  PROVE  \E f : Joins(f, ss) /\ FlattenSeq(ss) = f[Len(ss)]
<1> DEFINE N == Len(ss)
           T == UNION {ToSet(ss[k]) : k \in 1 .. N}
           Then(f, n) == IF n = 1 THEN ss[n] ELSE f[n - 1] \o ss[n]
           done(n) == {f \in [1 .. n -> Seq(T)] : \A m \in 1 .. n : f[m] = Then(f, m)}
           Q == {n \in 0 .. N : done(n) # {}}
           Eq(f) == f = [i \in 1 .. Len(ss) |-> IF i = 1 THEN ss[i] ELSE f[i - 1] \o ss[i]]
           F == CHOOSE f : Eq(f)
<1>1. N \in Nat /\ DOMAIN ss = 1 .. N
  BY TableIs
<1>2. \A k \in 1 .. N : ss[k] \in Seq(T)
  <2>1. \A S : \A R \in SUBSET S : \A s \in Seq(R) : s \in Seq(S)
    OBVIOUS
  <2>2. ASSUME NEW k \in 1 .. N PROVE ToSet(ss[k]) \in SUBSET T
    OBVIOUS
  <2> HIDE DEF T
  <2>3. ASSUME NEW k \in 1 .. N PROVE ss[k] \in Seq(ToSet(ss[k]))
    BY DEF IsTable
  <2> QED
    BY <2>1, <2>2, <2>3
<1> HIDE DEF T
<1>3. 0 \in Q
  <2>1. [m \in 1 .. 0 |-> <<>>] \in done(0)
    OBVIOUS
  <2> HIDE DEF done
  <2> QED
    BY <1>1, <2>1
<1>4. ASSUME NEW n \in 1 .. N, n - 1 \in Q PROVE n \in Q
  <2>1. PICK f : f \in done(n - 1)
    BY <1>4
  <2> DEFINE e == Then(f, n)
             g == [m \in 1 .. n |-> IF m < n THEN f[m] ELSE e]
  <2>2. f \in [1 .. n - 1 -> Seq(T)] /\ \A m \in 1 .. n - 1 : f[m] = Then(f, m)
    BY <2>1
  <2>3. e \in Seq(T)
    <3>1. CASE n = 1
      BY <1>2, <3>1
    <3>2. CASE n # 1
      <4>1. n - 1 \in 1 .. n - 1 /\ ss[n] \in Seq(T)
        BY <1>1, <1>2, <3>2
      <4>2. f[n - 1] \in Seq(T)
        BY <2>2, <4>1
      <4> QED
        BY <3>2, <4>1, <4>2
    <3> QED
      BY <3>1, <3>2
  <2>4. \A m \in 1 .. n : m - 1 < n /\ (m # 1 => m - 1 \in 1 .. n)
    BY <1>1
  <2>5. ASSUME NEW m \in 1 .. n PROVE Then(g, m) = Then(f, m)
    BY <2>4
  <2>6. ASSUME NEW m \in 1 .. n PROVE g[m] = Then(g, m)
    <3>1. CASE m < n
      <4>1. m \in 1 .. n - 1 /\ g[m] = f[m]
        BY <1>1, <3>1
      <4> HIDE DEF Then
      <4> QED
        BY <2>2, <2>5, <4>1
    <3>2. CASE m = n
      <4>1. g[m] = Then(f, m)
        BY <3>2
      <4> HIDE DEF g, Then
      <4> QED
        BY <2>5, <4>1
    <3> QED
      BY <1>1, <3>1, <3>2
  <2> HIDE DEF e
  <2>7. g \in [1 .. n -> Seq(T)]
    <3>1. ASSUME NEW m \in 1 .. n PROVE g[m] \in Seq(T)
      <4>1. CASE m < n
        <5>1. m \in 1 .. n - 1
          BY <1>1, <4>1
        <5> QED
          BY <2>2, <4>1, <5>1
      <4>2. CASE ~(m < n)
        BY <2>3, <4>2
      <4> QED
        BY <4>1, <4>2
    <3> QED
      BY <3>1
  <2>8. g \in done(n)
    <3> HIDE DEF g, Then
    <3> QED
      BY <2>6, <2>7
  <2>9. n \in 0 .. N
    BY <1>1
  <2> HIDE DEF done
  <2> QED
    BY <2>8, <2>9
<1>5. Q = 0 .. N
  <2>1. Q \in SUBSET (0 .. N)
    OBVIOUS
  <2> HIDE DEF Q, N
  <2> QED
    BY <1>1, <1>3, <1>4, <2>1, StepInduction
<1>6. PICK f : f \in done(N)
  <2>1. N \in 0 .. N
    BY <1>1
  <2> HIDE DEF done
  <2> QED
    BY <1>5, <2>1
<1>7. Eq(f)
  <2>1. f \in [1 .. N -> Seq(T)] /\ \A m \in 1 .. N : f[m] = Then(f, m)
    BY <1>6
  <2> QED
    BY <2>1
<1>8. Eq(F)
  <2> HIDE DEF Eq
  <2> QED
    BY <1>7
<1>9. FlattenSeq(ss) = F[Len(ss)]
  BY DEF FlattenSeq
<1>10. Joins(F, ss)
  <2> HIDE DEF F
  <2> QED
    BY <1>8 DEF Joins
<1> QED
  <2> HIDE DEF F
  <2> QED
    BY <1>9, <1>10

LEMMA FlattenHas ==
  ASSUME NEW ss, IsTable(ss), \A k \in 1 .. Len(ss) : IsTable(ss[k])
  PROVE  /\ IsTable(FlattenSeq(ss))
         /\ ToSet(FlattenSeq(ss)) = UNION {ToSet(ss[k]) : k \in 1 .. Len(ss)}
<1> DEFINE N == Len(ss)
<1>1. N \in Nat
  BY TableIs
<1>2. CASE N = 0
  <2>1. FlattenSeq(ss) = ss /\ DOMAIN ss = {} /\ IsTable(ss)
    BY <1>2, TableIs DEF FlattenSeq
  <2> QED
    BY <1>2, <2>1 DEF ToSet
<1>3. CASE N # 0
  <2>1. PICK f : Joins(f, ss) /\ FlattenSeq(ss) = f[N]
    BY <1>3, FlattenIs
  <2> DEFINE Fine(n) == IsTable(f[n]) /\ ToSet(f[n]) = UNION {ToSet(ss[k]) : k \in 1 .. n}
             Q == {n \in 0 .. N : n = 0 \/ Fine(n)}
  <2>2. 0 \in Q
    BY <1>1
  <2>3. ASSUME NEW n \in 1 .. N, n - 1 \in Q PROVE n \in Q
    <3>1. n \in 0 .. N /\ n \in Nat /\ IsTable(ss[n])
      BY <1>1
    <3>2. CASE n = 1
      <4>1. f[n] = ss[n] /\ 1 .. n = {n}
        BY <2>1, <3>2 DEF Joins
      <4>2. Fine(n)
        BY <3>1, <4>1
      <4> HIDE DEF Fine
      <4> QED
        BY <3>1, <4>2
    <3>3. CASE n # 1
      <4>1. f[n] = f[n - 1] \o ss[n]
        BY <2>1, <3>3 DEF Joins
      <4>2. Fine(n - 1)
        BY <2>3, <3>1, <3>3
      <4>3. IsTable(f[n]) /\ ToSet(f[n]) = ToSet(f[n - 1]) \cup ToSet(ss[n])
        BY <3>1, <4>1, <4>2, JoinIs
      <4>4. 1 .. n = (1 .. n - 1) \cup {n}
        BY <3>1
      <4>5. Fine(n)
        BY <4>2, <4>3, <4>4
      <4> HIDE DEF Fine
      <4> QED
        BY <3>1, <4>5
    <3> QED
      BY <3>2, <3>3
  <2>4. Q = 0 .. N
    <3>1. Q \in SUBSET (0 .. N)
      OBVIOUS
    <3> HIDE DEF Q, N
    <3> QED
      BY <1>1, <2>2, <2>3, <3>1, StepInduction
  <2>5. N \in Q
    BY <1>1, <2>4
  <2> QED
    BY <1>3, <2>1, <2>5
<1> QED
  BY <1>2, <1>3

\* What only one of the lists has of these kinds for the shop lies where that
\* list lies.
LEMMA FlattenWithin ==
  ASSUME NEW ss, IsTable(ss), \A k \in 1 .. Len(ss) : IsTable(ss[k]),
         NEW at \in 1 .. Len(ss), NEW kinds, NEW shop,
         \A k \in 1 .. Len(ss) : k # at => Lacks(ss[k], kinds, shop)
  PROVE  \E b : Within(FlattenSeq(ss), ss[at], b, kinds, shop)
<1> DEFINE N == Len(ss)
<1>1. N \in Nat /\ N # 0
  BY TableIs
<1>2. PICK f : Joins(f, ss) /\ FlattenSeq(ss) = f[N]
  BY <1>1, FlattenIs
<1> DEFINE Fine(n) == /\ IsTable(f[n])
                      /\ n < at => Lacks(f[n], kinds, shop)
                      /\ n >= at => \E b : Within(f[n], ss[at], b, kinds, shop)
           Q == {n \in 0 .. N : n = 0 \/ Fine(n)}
<1>3. 0 \in Q
  BY <1>1
<1>4. ASSUME NEW n \in 1 .. N, n - 1 \in Q PROVE n \in Q
  <2>1. n \in 0 .. N /\ n \in Nat /\ IsTable(ss[n]) /\ at \in Nat /\ IsTable(ss[at]) /\ at >= 1
    BY <1>1
  <2>2. Fine(n)
    <3>1. CASE n = 1
      <4>1. f[n] = ss[n]
        BY <1>2, <3>1 DEF Joins
      <4>2. n < at => Lacks(f[n], kinds, shop)
        BY <2>1, <4>1
      <4>3. n >= at => Within(f[n], ss[at], 0, kinds, shop)
        BY <2>1, <3>1, <4>1, WithinItself
      <4> QED
        BY <2>1, <4>1, <4>2, <4>3
    <3>2. CASE n # 1
      <4>1. f[n] = f[n - 1] \o ss[n]
        BY <1>2, <3>2 DEF Joins
      <4>2. Fine(n - 1)
        BY <1>4, <2>1, <3>2
      <4>3. IsTable(f[n])
        BY <2>1, <4>1, <4>2, JoinIs
      <4>4. CASE n < at
        <5>1. n - 1 < at /\ n # at /\ ~(n >= at)
          BY <2>1, <4>4
        <5>2. Lacks(f[n - 1], kinds, shop) /\ Lacks(ss[n], kinds, shop) /\ IsTable(f[n - 1])
          BY <4>2, <5>1
        <5>3. Lacks(f[n], kinds, shop)
          BY <2>1, <4>1, <5>2, NoneInBoth
        <5> QED
          BY <4>3, <5>1, <5>3
      <4>5. CASE n = at
        <5>1. Lacks(f[n - 1], kinds, shop) /\ IsTable(f[n - 1])
          BY <2>1, <4>2, <4>5
        <5>2. Within(ss[n], ss[at], 0, kinds, shop)
          BY <2>1, <4>5, WithinItself
        <5>3. Within(f[n], ss[at], Len(f[n - 1]) + 0, kinds, shop)
          BY <2>1, <4>1, <5>1, <5>2, WithinBack
        <5> QED
          BY <2>1, <4>3, <4>5, <5>3
      <4>6. CASE n > at
        <5>1. n - 1 >= at /\ n # at /\ ~(n < at)
          BY <2>1, <4>6
        <5>2. PICK b : Within(f[n - 1], ss[at], b, kinds, shop)
          BY <4>2, <5>1
        <5>3. IsTable(f[n - 1]) /\ Lacks(ss[n], kinds, shop)
          BY <4>2, <5>1
        <5>4. Within(f[n], ss[at], b, kinds, shop)
          BY <2>1, <4>1, <5>2, <5>3, WithinFront
        <5> QED
          BY <4>3, <5>1, <5>4
      <4> QED
        BY <2>1, <4>4, <4>5, <4>6
    <3> QED
      BY <3>1, <3>2
  <2> HIDE DEF Fine
  <2> QED
    BY <2>1, <2>2
<1>5. Q = 0 .. N
  <2>1. Q \in SUBSET (0 .. N)
    OBVIOUS
  <2> HIDE DEF Q, N
  <2> QED
    BY <1>1, <1>3, <1>4, <2>1, StepInduction
<1>6. N \in Q /\ N >= at
  BY <1>1, <1>5
<1> QED
  BY <1>1, <1>2, <1>6

CommerceKinds == {"profiles", "count orders", "orders", "reviews", "wishlists", "coupons"}

PaymentKinds == {"find orders", "payments"}

\* Whose turn it is: seeders in the order of the script.
Turn(by) ==
  CASE by = "find tenant" -> 1
    [] by = "users" -> 2
    [] by = "tenants" -> 3
    [] by = "categories" -> 4
    [] by = "suppliers" -> 5
    [] by \in {"products", "log"} -> 6
    [] by = "attributes" -> 7
    [] by = "guides" -> 8
    [] by \in {"collections", "items"} -> 9
    [] by = "storefront" -> 10
    [] by = "promotions" -> 11
    [] by = "inventory" -> 12
    [] by = "pages" -> 13
    [] by \in CommerceKinds -> 14
    [] by \in PaymentKinds -> 15
    [] OTHER -> 0

\* A list of steps that are in turn, from one seeder to another.
Ranked(s, lo, hi) ==
  /\ IsTable(s)
  /\ \A i \in 1 .. Len(s) : lo <= Turn(s[i].by) /\ Turn(s[i].by) <= hi
  /\ \A i, j \in 1 .. Len(s) : i < j => Turn(s[i].by) <= Turn(s[j].by)

LEMMA TurnIsNat == \A by : Turn(by) \in 0 .. 15
BY DEF Turn

LEMMA RankedJoin ==
  ASSUME NEW s, NEW t, NEW lo \in Nat, NEW m \in Nat, NEW n \in Nat, NEW hi \in Nat,
         Ranked(s, lo, m), Ranked(t, n, hi), lo <= m, m <= n, n <= hi
  PROVE  Ranked(s \o t, lo, hi) /\ ToSet(s \o t) = ToSet(s) \cup ToSet(t)
<1> DEFINE u == s \o t
<1>1. IsTable(s) /\ IsTable(t) /\ Len(s) \in Nat /\ Len(t) \in Nat
  BY TableIs DEF Ranked
<1>2. /\ IsTable(u)
      /\ Len(u) = Len(s) + Len(t)
      /\ \A i \in 1 .. Len(u) : u[i] = IF i <= Len(s) THEN s[i] ELSE t[i - Len(s)]
      /\ ToSet(u) = ToSet(s) \cup ToSet(t)
  BY <1>1, JoinIs
<1> HIDE DEF u
<1> DEFINE a(i) == Turn(s[i].by)
           d(i) == Turn(t[i].by)
           e(i) == Turn(u[i].by)
<1>3. /\ \A i \in 1 .. Len(s) : a(i) \in Nat /\ lo <= a(i) /\ a(i) <= m
      /\ \A i, j \in 1 .. Len(s) : i < j => a(i) <= a(j)
      /\ \A i \in 1 .. Len(t) : d(i) \in Nat /\ n <= d(i) /\ d(i) <= hi
      /\ \A i, j \in 1 .. Len(t) : i < j => d(i) <= d(j)
  <2>1. \A by : Turn(by) \in Nat
    BY TurnIsNat
  <2> QED
    BY <2>1 DEF Ranked
<1>4. \A i \in 1 .. Len(u) : \/ i \in 1 .. Len(s) /\ e(i) = a(i)
                             \/ i - Len(s) \in 1 .. Len(t) /\ i > Len(s) /\ e(i) = d(i - Len(s))
  BY <1>1, <1>2
<1> HIDE DEF a, d, e
<1>5. \A i \in 1 .. Len(u) : lo <= e(i) /\ e(i) <= hi
  BY <1>3, <1>4, SMTT(20)
<1>6. ASSUME NEW i \in 1 .. Len(u), NEW j \in 1 .. Len(u), i < j PROVE e(i) <= e(j)
  <2>1. CASE j \in 1 .. Len(s) /\ e(j) = a(j)
    <3>1. i \in 1 .. Len(s) /\ e(i) = a(i)
      BY <1>1, <1>4, <1>6, <2>1
    <3> QED
      BY <1>3, <1>6, <2>1, <3>1
  <2>2. CASE j - Len(s) \in 1 .. Len(t) /\ e(j) = d(j - Len(s))
    <3>1. CASE i \in 1 .. Len(s) /\ e(i) = a(i)
      BY <1>3, <2>2, <3>1
    <3>2. CASE i - Len(s) \in 1 .. Len(t) /\ e(i) = d(i - Len(s))
      <4>1. i - Len(s) < j - Len(s)
        BY <1>1, <1>6
      <4> QED
        BY <1>3, <2>2, <3>2, <4>1
    <3> QED
      BY <1>4, <3>1, <3>2
  <2> QED
    BY <1>4, <2>1, <2>2
<1>7. Ranked(u, lo, hi)
  BY <1>2, <1>5, <1>6 DEF Ranked, e
<1> QED
  BY <1>2, <1>7 DEF u

\* The steps of one seeder.
LEMMA LevelIs ==
  ASSUME NEW s, IsTable(s), NEW n \in Nat, \A st \in ToSet(s) : Turn(st.by) = n
  PROVE  Ranked(s, n, n)
<1>1. DOMAIN s = 1 .. Len(s)
  BY TableIs
<1>2. \A i \in 1 .. Len(s) : Turn(s[i].by) = n
  BY <1>1 DEF ToSet
<1> QED
  BY <1>2 DEF Ranked

\* Kinds with another turn are not among them.
LEMMA RankedLacks ==
  ASSUME NEW s, NEW lo \in Nat, NEW hi \in Nat, Ranked(s, lo, hi), NEW kinds, NEW shop,
         \A by \in kinds : Turn(by) < lo \/ Turn(by) > hi
  PROVE  Lacks(s, kinds, shop)
<1>1. SUFFICES ASSUME NEW i \in 1 .. Len(s), s[i].by \in kinds PROVE FALSE
  BY DEF Lacks
<1>2. lo <= Turn(s[i].by) /\ Turn(s[i].by) <= hi
  BY DEF Ranked
<1>3. Turn(s[i].by) \in Nat
  BY TurnIsNat, SMTT(20)
<1>4. Turn(s[i].by) < lo \/ Turn(s[i].by) > hi
  BY <1>1
<1> QED
  BY <1>2, <1>3, <1>4

LEMMA OnceIs ==
  ASSUME NEW by, NEW works, IsTable(works)
  PROVE  /\ IsTable(Once(by, works))
         /\ ToSet(Once(by, works)) = {[by |-> by, shop |-> "", work |-> w] : w \in ToSet(works)}
<1>1. Len(works) \in Nat /\ DOMAIN works = 1 .. Len(works)
  BY TableIs
<1> DEFINE f == [i \in 1 .. Len(works) |-> [by |-> by, shop |-> "", work |-> works[i]]]
<1>2. f = Once(by, works)
  BY <1>1 DEF Once
<1>3. f = [i \in 1 .. Len(works) |-> f[i]]
  OBVIOUS
<1>4. IsTable(f)
  <2> HIDE DEF f
  <2> QED
    BY <1>1, <1>3, ListIsTable
<1>5. ToSet(f) = {[by |-> by, shop |-> "", work |-> w] : w \in ToSet(works)}
  BY <1>1 DEF ToSet
<1> QED
  BY <1>2, <1>4, <1>5

LEMMA ShopsAre ==
  /\ Len(Shops) \in Nat /\ DOMAIN Shops = 1 .. Len(Shops)
  /\ \A k \in 1 .. Len(Shops) : Shops[k] \in ShopSet
  /\ \A shop \in ShopSet : \E k \in 1 .. Len(Shops) : shop = Shops[k]
  /\ \A j, k \in 1 .. Len(Shops) : Shops[j] = Shops[k] => j = k
<1>1. Len(Shops) \in Nat /\ DOMAIN Shops = 1 .. Len(Shops)
  BY TablesAssumption, TableIs
<1>2. \A j, k \in 1 .. Len(Shops) : Shops[j] = Shops[k] => j = k
  BY <1>1, TablesAssumption DEF IsInjective
<1> QED
  BY <1>1, <1>2 DEF ShopSet, ToSet

LEMMA ShopOnlyIs ==
  ASSUME NEW by
  PROVE  /\ IsTable(ShopOnly(by))
         /\ ToSet(ShopOnly(by)) = {[by |-> by, shop |-> shop, work |-> ""] : shop \in ShopSet}
<1> DEFINE f == [k \in 1 .. Len(Shops) |-> [by |-> by, shop |-> Shops[k], work |-> ""]]
<1>1. f = ShopOnly(by)
  BY ShopsAre DEF ShopOnly
<1>2. f = [k \in 1 .. Len(Shops) |-> f[k]]
  OBVIOUS
<1>3. IsTable(f)
  <2> HIDE DEF f
  <2> QED
    BY <1>2, ShopsAre, ListIsTable
<1>4. ToSet(f) = {[by |-> by, shop |-> shop, work |-> ""] : shop \in ShopSet}
  <2>1. ToSet(f) = {[by |-> by, shop |-> Shops[k], work |-> ""] : k \in 1 .. Len(Shops)}
    BY DEF ToSet
  <2>2. ASSUME NEW k \in 1 .. Len(Shops)
        PROVE  [by |-> by, shop |-> Shops[k], work |-> ""] \in {[by |-> by, shop |-> shop, work |-> ""] : shop \in ShopSet}
    <3>1. Shops[k] \in ShopSet
      BY ShopsAre
    <3> QED
      BY <3>1
  <2>3. ASSUME NEW shop \in ShopSet
        PROVE  [by |-> by, shop |-> shop, work |-> ""] \in {[by |-> by, shop |-> Shops[k], work |-> ""] : k \in 1 .. Len(Shops)}
    <3>1. PICK k \in 1 .. Len(Shops) : shop = Shops[k]
      BY ShopsAre
    <3> QED
      BY <3>1
  <2> HIDE DEF f
  <2> QED
    BY <2>1, <2>2, <2>3
<1> QED
  BY <1>1, <1>3, <1>4

\* A list for each shop, one after another.
LEMMA ForShops ==
  ASSUME NEW f, f = [k \in DOMAIN Shops |-> f[k]], \A k \in DOMAIN Shops : IsTable(f[k])
  PROVE  /\ IsTable(f) /\ Len(f) = Len(Shops)
         /\ IsTable(FlattenSeq(f))
         /\ ToSet(FlattenSeq(f)) = UNION {ToSet(f[k]) : k \in DOMAIN Shops}
<1>1. IsTable(f) /\ Len(f) = Len(Shops)
  BY ShopsAre, ListIsTable
<1> QED
  BY <1>1, ShopsAre, FlattenHas

LEMMA PerShopIs ==
  ASSUME NEW by, NEW worksOf, \A shop \in ShopSet : IsTable(worksOf[shop])
  PROVE  /\ IsTable(PerShop(by, worksOf))
         /\ \A st \in ToSet(PerShop(by, worksOf)) :
              \E shop \in ShopSet : \E w \in ToSet(worksOf[shop]) :
                st = [by |-> by, shop |-> shop, work |-> w]
         /\ \A shop \in ShopSet : \A w \in ToSet(worksOf[shop]) :
              [by |-> by, shop |-> shop, work |-> w] \in ToSet(PerShop(by, worksOf))
<1> DEFINE g(k) == [i \in DOMAIN worksOf[Shops[k]] |->
                      [by |-> by, shop |-> Shops[k], work |-> worksOf[Shops[k]][i]]]
           f == [k \in DOMAIN Shops |-> g(k)]
<1>1. ASSUME NEW k \in DOMAIN Shops
      PROVE  /\ IsTable(g(k))
             /\ ToSet(g(k)) = {[by |-> by, shop |-> Shops[k], work |-> w] : w \in ToSet(worksOf[Shops[k]])}
  <2> DEFINE works == worksOf[Shops[k]]
             h == [i \in 1 .. Len(works) |-> [by |-> by, shop |-> Shops[k], work |-> works[i]]]
  <2>1. Len(works) \in Nat /\ DOMAIN works = 1 .. Len(works)
    <3>1. IsTable(works)
      BY ShopsAre
    <3> HIDE DEF works
    <3> QED
      BY <3>1, TableIs
  <2>2. h = g(k)
    BY <2>1
  <2>3. h = [i \in 1 .. Len(works) |-> h[i]]
    OBVIOUS
  <2>4. IsTable(h)
    <3> HIDE DEF h, works
    <3> QED
      BY <2>1, <2>3, ListIsTable
  <2>5. ToSet(h) = {[by |-> by, shop |-> Shops[k], work |-> w] : w \in ToSet(works)}
    <3> HIDE DEF works
    <3> QED
      BY <2>1 DEF ToSet
  <2> HIDE DEF h, g
  <2> QED
    BY <2>2, <2>4, <2>5
<1>2. PerShop(by, worksOf) = FlattenSeq(f)
  BY DEF PerShop
<1>3. \A k \in DOMAIN Shops : f[k] = g(k)
  OBVIOUS
<1>4. f = [k \in DOMAIN Shops |-> f[k]]
  OBVIOUS
<1> HIDE DEF f, g
<1>5. \A k \in DOMAIN Shops : IsTable(f[k])
  BY <1>1, <1>3
<1>6. IsTable(FlattenSeq(f)) /\ ToSet(FlattenSeq(f)) = UNION {ToSet(f[k]) : k \in DOMAIN Shops}
  BY <1>4, <1>5, ForShops
<1>7. ASSUME NEW st \in ToSet(FlattenSeq(f))
      PROVE  \E shop \in ShopSet : \E w \in ToSet(worksOf[shop]) : st = [by |-> by, shop |-> shop, work |-> w]
  <2>1. PICK k \in DOMAIN Shops : st \in ToSet(g(k))
    BY <1>3, <1>6
  <2>2. PICK w \in ToSet(worksOf[Shops[k]]) : st = [by |-> by, shop |-> Shops[k], work |-> w]
    BY <1>1, <2>1
  <2>3. Shops[k] \in ShopSet
    BY ShopsAre
  <2> QED
    BY <2>2, <2>3
<1>8. ASSUME NEW shop \in ShopSet, NEW w \in ToSet(worksOf[shop])
      PROVE  [by |-> by, shop |-> shop, work |-> w] \in ToSet(FlattenSeq(f))
  <2>1. PICK k \in DOMAIN Shops : shop = Shops[k]
    BY ShopsAre
  <2>2. [by |-> by, shop |-> shop, work |-> w] \in ToSet(g(k))
    BY <1>1, <2>1
  <2> QED
    BY <1>3, <1>6, <2>2
<1> QED
  BY <1>2, <1>6, <1>7, <1>8

\* What a seeder does for one shop, work by work.
ShopSteps(by, shop, works) == [i \in DOMAIN works |-> [by |-> by, shop |-> shop, work |-> works[i]]]

LEMMA ShopStepsAre ==
  ASSUME NEW by, NEW shop, NEW works, IsTable(works)
  PROVE  /\ IsTable(ShopSteps(by, shop, works))
         /\ Len(ShopSteps(by, shop, works)) = Len(works)
         /\ \A i \in 1 .. Len(works) :
              ShopSteps(by, shop, works)[i] = [by |-> by, shop |-> shop, work |-> works[i]]
<1>1. Len(works) \in Nat /\ DOMAIN works = 1 .. Len(works)
  BY TableIs
<1> DEFINE f == [i \in 1 .. Len(works) |-> [by |-> by, shop |-> shop, work |-> works[i]]]
<1>2. f = ShopSteps(by, shop, works)
  BY <1>1 DEF ShopSteps
<1>3. f = [i \in 1 .. Len(works) |-> f[i]]
  OBVIOUS
<1>4. \A i \in 1 .. Len(works) : f[i] = [by |-> by, shop |-> shop, work |-> works[i]]
  OBVIOUS
<1> HIDE DEF f
<1>5. IsTable(f) /\ Len(f) = Len(works)
  BY <1>1, <1>3, ListIsTable
<1> QED
  BY <1>2, <1>4, <1>5

\* The buyers get their profiles, the shop's orders are counted, and the sample
\* orders follow at once; then comes what else a customer leaves.
Opening(t, shop) ==
  /\ IsTable(t) /\ (Len(Buyers) + 1) + Len(Orders[shop]) <= Len(t)
  /\ \A j \in 1 .. Len(Buyers) : t[j] = [by |-> "profiles", shop |-> shop, work |-> Buyers[j]]
  /\ t[Len(Buyers) + 1] = [by |-> "count orders", shop |-> shop, work |-> ""]
  /\ \A j \in 1 .. Len(Orders[shop]) :
       t[(Len(Buyers) + 1) + j] = [by |-> "orders", shop |-> shop, work |-> Orders[shop][j]]
  /\ \A j \in 1 .. Len(t) :
       /\ t[j].shop = shop /\ t[j].by \in CommerceKinds
       /\ t[j].by = "profiles" => j <= Len(Buyers)
       /\ t[j].by = "count orders" => j = Len(Buyers) + 1
       /\ t[j].by = "orders" => j > Len(Buyers) + 1 /\ j <= (Len(Buyers) + 1) + Len(Orders[shop])

ListsOther(u, shop) ==
  IsTable(u) /\ \A j \in 1 .. Len(u) :
                   u[j].shop = shop /\ u[j].by \in {"reviews", "wishlists", "coupons"}

LEMMA OpeningGrows ==
  ASSUME NEW shop, NEW t, NEW u, Opening(t, shop), ListsOther(u, shop),
         Len(Buyers) \in Nat, Len(Orders[shop]) \in Nat
  PROVE  Opening(t \o u, shop)
<1> DEFINE v == t \o u
<1>1. IsTable(t) /\ IsTable(u)
  BY DEF Opening, ListsOther
<1>2. Len(t) \in Nat /\ Len(u) \in Nat
  BY <1>1, TableIs
<1>3. /\ IsTable(v) /\ Len(v) = Len(t) + Len(u)
      /\ \A i \in 1 .. Len(t) : v[i] = t[i]
      /\ \A i \in 1 .. Len(v) : v[i] = IF i <= Len(t) THEN t[i] ELSE u[i - Len(t)]
  BY <1>1, JoinIs
<1> HIDE DEF v
<1>4. PICK B \in Nat, N \in Nat : B = Len(Buyers) /\ N = Len(Orders[shop])
  OBVIOUS
<1>5. (B + 1) + N <= Len(t)
  BY <1>4 DEF Opening
<1>6. \A j \in 1 .. B : j \in 1 .. Len(t)
  BY <1>2, <1>5
<1>7. B + 1 \in 1 .. Len(t)
  BY <1>2, <1>5
<1>8. \A j \in 1 .. N : (B + 1) + j \in 1 .. Len(t)
  BY <1>2, <1>5
<1>9. (B + 1) + N <= Len(v)
  BY <1>2, <1>3, <1>5
<1>10. /\ \A j \in 1 .. B : v[j] = [by |-> "profiles", shop |-> shop, work |-> Buyers[j]]
       /\ v[B + 1] = [by |-> "count orders", shop |-> shop, work |-> ""]
       /\ \A j \in 1 .. N : v[(B + 1) + j] = [by |-> "orders", shop |-> shop, work |-> Orders[shop][j]]
  BY <1>3, <1>4, <1>6, <1>7, <1>8 DEF Opening
<1>11. ASSUME NEW j \in 1 .. Len(v)
       PROVE  /\ v[j].shop = shop /\ v[j].by \in CommerceKinds
              /\ v[j].by = "profiles" => j <= B
              /\ v[j].by = "count orders" => j = B + 1
              /\ v[j].by = "orders" => j > B + 1 /\ j <= (B + 1) + N
  <2>1. CASE j <= Len(t)
    <3>1. j \in 1 .. Len(t) /\ v[j] = t[j]
      BY <1>2, <1>3, <2>1
    <3> QED
      BY <1>4, <3>1 DEF Opening
  <2>2. CASE ~(j <= Len(t))
    <3>1. j - Len(t) \in 1 .. Len(u) /\ v[j] = u[j - Len(t)]
      BY <1>2, <1>3, <2>2
    <3>2. v[j].shop = shop /\ v[j].by \in {"reviews", "wishlists", "coupons"}
      BY <3>1 DEF ListsOther
    <3> QED
      BY <3>2 DEF CommerceKinds
  <2> QED
    BY <1>9, <2>1, <2>2
<1>12. Opening(v, shop)
  BY <1>3, <1>4, <1>9, <1>10, <1>11 DEF Opening
<1> QED
  BY <1>12 DEF v

LEMMA OneIs ==
  ASSUME NEW x
  PROVE  \E one : one = <<x>> /\ IsTable(one) /\ Len(one) = 1 /\ one[1] = x
<1>1. PICK one : one = <<x>>
  OBVIOUS
<1>2. <<x>> = [i \in 1 .. 1 |-> <<x>>[i]] /\ <<x>>[1] = x
  OBVIOUS
<1>3. one = [i \in 1 .. 1 |-> one[i]] /\ one[1] = x
  BY <1>1, <1>2, Zenon
<1>4. IsTable(one) /\ Len(one) = 1
  BY <1>3, ListIsTable
<1> QED
  BY <1>1, <1>3, <1>4

LEMMA OpeningIs ==
  ASSUME NEW shop, IsTable(Buyers), IsTable(Orders[shop])
  PROVE  Opening((ShopSteps("profiles", shop, Buyers) \o ShopSteps("count orders", shop, <<"">>))
                   \o ShopSteps("orders", shop, Orders[shop]), shop)
<1>1. PICK profiles : profiles = ShopSteps("profiles", shop, Buyers)
  OBVIOUS
<1>2. PICK one : one = <<"">> /\ IsTable(one) /\ Len(one) = 1 /\ one[1] = ""
  BY OneIs
<1>3. PICK tally : tally = ShopSteps("count orders", shop, one)
  OBVIOUS
<1>4. PICK orders : orders = ShopSteps("orders", shop, Orders[shop])
  OBVIOUS
<1>5. PICK B \in Nat, N \in Nat : B = Len(Buyers) /\ N = Len(Orders[shop])
  BY TableIs
<1>6. /\ IsTable(profiles) /\ Len(profiles) = B
      /\ \A j \in 1 .. B : profiles[j] = [by |-> "profiles", shop |-> shop, work |-> Buyers[j]]
  BY <1>1, <1>5, ShopStepsAre
<1>7. /\ IsTable(tally) /\ Len(tally) = 1
      /\ tally[1] = [by |-> "count orders", shop |-> shop, work |-> ""]
  <2>1. /\ IsTable(tally) /\ Len(tally) = Len(one)
        /\ \A i \in 1 .. Len(one) : tally[i] = [by |-> "count orders", shop |-> shop, work |-> one[i]]
    <3>1. IsTable(one)
      BY <1>2
    <3>2. PICK by : by = "count orders"
      OBVIOUS
    <3>3. /\ IsTable(ShopSteps(by, shop, one)) /\ Len(ShopSteps(by, shop, one)) = Len(one)
          /\ \A i \in 1 .. Len(one) :
               ShopSteps(by, shop, one)[i] = [by |-> by, shop |-> shop, work |-> one[i]]
      BY <3>1, ShopStepsAre
    <3> QED
      BY <1>3, <3>2, <3>3, Zenon
  <2>2. 1 \in 1 .. Len(one)
    <3>1. Len(one) = 1
      BY <1>2
    <3> QED
      BY <3>1
  <2> QED
    BY <1>2, <2>1, <2>2
<1>8. /\ IsTable(orders) /\ Len(orders) = N
      /\ \A j \in 1 .. N : orders[j] = [by |-> "orders", shop |-> shop, work |-> Orders[shop][j]]
  BY <1>4, <1>5, ShopStepsAre
<1>9. PICK t1 : t1 = profiles \o tally
  OBVIOUS
<1>10. PICK t2 : t2 = t1 \o orders
  OBVIOUS
<1>11. /\ IsTable(t1) /\ Len(t1) = B + 1
       /\ \A i \in 1 .. B : t1[i] = profiles[i]
       /\ \A i \in 1 .. 1 : t1[B + i] = tally[i]
  <2>1. IsTable(profiles) /\ Len(profiles) = B /\ IsTable(tally) /\ Len(tally) = 1
    BY <1>6, <1>7
  <2>2. /\ IsTable(profiles \o tally) /\ Len(profiles \o tally) = Len(profiles) + Len(tally)
        /\ \A i \in 1 .. Len(profiles) : (profiles \o tally)[i] = profiles[i]
        /\ \A i \in 1 .. Len(tally) : (profiles \o tally)[Len(profiles) + i] = tally[i]
    <3>1. IsTable(profiles) /\ IsTable(tally)
      BY <1>6, <1>7
    <3> QED
      BY <3>1, JoinIs
  <2> QED
    BY <1>9, <2>1, <2>2
<1>12. /\ IsTable(t2) /\ Len(t2) = (B + 1) + N
       /\ \A i \in 1 .. B + 1 : t2[i] = t1[i]
       /\ \A i \in 1 .. N : t2[(B + 1) + i] = orders[i]
  <2>1. IsTable(orders) /\ Len(orders) = N
    BY <1>8
  <2> QED
    BY <1>10, <1>11, <2>1, JoinIs, SMTT(20)
<1>13. \A j \in 1 .. B : t2[j] = [by |-> "profiles", shop |-> shop, work |-> Buyers[j]]
  <2>1. \A j \in 1 .. B : j \in 1 .. B + 1
    OBVIOUS
  <2> QED
    BY <1>6, <1>11, <1>12, <2>1
<1>14. t2[B + 1] = [by |-> "count orders", shop |-> shop, work |-> ""]
  <2>1. B + 1 \in 1 .. B + 1 /\ 1 \in 1 .. 1
    OBVIOUS
  <2> QED
    BY <1>7, <1>11, <1>12, <2>1
<1>15. \A j \in 1 .. N : t2[(B + 1) + j] = [by |-> "orders", shop |-> shop, work |-> Orders[shop][j]]
  BY <1>8, <1>12
<1>16. ASSUME NEW j \in 1 .. Len(t2)
      PROVE  /\ t2[j].shop = shop /\ t2[j].by \in CommerceKinds
             /\ t2[j].by = "profiles" => j <= B
             /\ t2[j].by = "count orders" => j = B + 1
             /\ t2[j].by = "orders" => j > B + 1 /\ j <= (B + 1) + N
  <2>1. CASE j <= B
    <3>1. j \in 1 .. B
      BY <1>12, <2>1
    <3>2. t2[j] = [by |-> "profiles", shop |-> shop, work |-> Buyers[j]]
      BY <1>13, <3>1
    <3>3. t2[j].by = "profiles" /\ t2[j].shop = shop
      BY <3>2
    <3> QED
      BY <2>1, <3>3 DEF CommerceKinds
  <2>2. CASE j = B + 1
    <3>1. t2[j] = [by |-> "count orders", shop |-> shop, work |-> ""]
      BY <1>14, <2>2
    <3>2. PICK by, work : by = "count orders" /\ work = ""
      OBVIOUS
    <3>3. t2[j] = [by |-> by, shop |-> shop, work |-> work]
      BY <3>1, <3>2, Zenon
    <3>4. t2[j].by = by /\ t2[j].shop = shop
      BY <3>3
    <3> QED
      BY <2>2, <3>2, <3>4 DEF CommerceKinds
  <2>3. CASE j > B + 1
    <3>1. j - (B + 1) \in 1 .. N /\ (B + 1) + (j - (B + 1)) = j /\ j <= (B + 1) + N
      BY <1>12, <2>3
    <3>2. t2[j] = [by |-> "orders", shop |-> shop, work |-> Orders[shop][j - (B + 1)]]
      BY <1>15, <3>1
    <3>3. t2[j].by = "orders" /\ t2[j].shop = shop
      BY <3>2
    <3> QED
      BY <2>3, <3>1, <3>3 DEF CommerceKinds
  <2>4. j <= B \/ j = B + 1 \/ j > B + 1
    BY <1>12
  <2> QED
    BY <2>1, <2>2, <2>3, <2>4, Zenon
<1>17. (B + 1) + N <= Len(t2)
  BY <1>12
<1>18. Opening(t2, shop)
  BY <1>5, <1>12, <1>13, <1>14, <1>15, <1>16, <1>17 DEF Opening
<1> QED
  BY <1>1, <1>2, <1>3, <1>4, <1>9, <1>10, <1>18

LEMMA CommerceOfIs ==
  ASSUME NEW shop \in ShopSet
  PROVE  /\ Opening(CommerceOf(shop), shop)
         /\ Len(Buyers) \in Nat /\ Len(Orders[shop]) \in Nat
<1>1. CommerceOf(shop) =
        ((((ShopSteps("profiles", shop, Buyers) \o ShopSteps("count orders", shop, <<"">>))
              \o ShopSteps("orders", shop, Orders[shop]))
            \o ShopSteps("reviews", shop, Reviews[shop]))
           \o ShopSteps("wishlists", shop, Wishes[shop]))
          \o ShopSteps("coupons", shop, Coupons[shop])
  BY DEF CommerceOf, ShopSteps
<1>2. /\ IsTable(Buyers) /\ IsTable(Orders[shop]) /\ IsTable(Reviews[shop])
      /\ IsTable(Wishes[shop]) /\ IsTable(Coupons[shop])
  BY TablesAssumption
<1>3. Len(Buyers) \in Nat /\ Len(Orders[shop]) \in Nat
  BY <1>2, TableIs
<1>4. ASSUME NEW by \in {"reviews", "wishlists", "coupons"}, NEW works, IsTable(works)
      PROVE  ListsOther(ShopSteps(by, shop, works), shop)
  <2>1. PICK u : u = ShopSteps(by, shop, works)
    OBVIOUS
  <2>2. IsTable(u) /\ \A j \in 1 .. Len(u) : u[j] = [by |-> by, shop |-> shop, work |-> works[j]]
    BY <1>4, <2>1, ShopStepsAre
  <2>3. ASSUME NEW j \in 1 .. Len(u) PROVE u[j].shop = shop /\ u[j].by = by
    <3>1. u[j] = [by |-> by, shop |-> shop, work |-> works[j]]
      BY <2>2
    <3> QED
      BY <3>1
  <2>4. ListsOther(u, shop)
    BY <2>2, <2>3 DEF ListsOther
  <2> QED
    BY <2>1, <2>4
<1>5. Opening((ShopSteps("profiles", shop, Buyers) \o ShopSteps("count orders", shop, <<"">>))
                \o ShopSteps("orders", shop, Orders[shop]), shop)
  BY <1>2, OpeningIs
<1>6. \A t, by, works : Opening(t, shop) /\ by \in {"reviews", "wishlists", "coupons"} /\ IsTable(works)
                          => Opening(t \o ShopSteps(by, shop, works), shop)
  BY <1>3, <1>4, OpeningGrows
<1> QED
  BY <1>1, <1>2, <1>3, <1>5, <1>6

\* What each step is about: a shop, and in it something of the shop's tables.
SeedStep(st) ==
  /\ st.by = "products" => st.shop \in ShopSet /\ st.work \in ToSet(Goods[st.shop])
  /\ st.by \in {"attributes", "inventory", "storefront"} => st.shop \in ShopSet
  /\ st.by = "items" =>
       /\ st.shop \in ShopSet
       /\ \E i \in DOMAIN Outfits[st.shop] : \E j \in DOMAIN Outfits[st.shop][i].items :
            st.work = [look |-> Outfits[st.shop][i].slug, product |-> Outfits[st.shop][i].items[j]]
  /\ st.by \in CommerceKinds \cup PaymentKinds => st.shop \in ShopSet

Part(s, lo, hi) == Ranked(s, lo, hi) /\ \A st \in ToSet(s) : SeedStep(st)

LEMMA PartJoin ==
  ASSUME NEW s, NEW t, NEW lo \in Nat, NEW m \in Nat, NEW n \in Nat, NEW hi \in Nat,
         Part(s, lo, m), Part(t, n, hi), lo <= m, m <= n, n <= hi
  PROVE  Part(s \o t, lo, hi) /\ ToSet(s \o t) = ToSet(s) \cup ToSet(t)
<1>1. Ranked(s \o t, lo, hi) /\ ToSet(s \o t) = ToSet(s) \cup ToSet(t)
  BY RankedJoin DEF Part
<1> QED
  BY <1>1 DEF Part

\* Those that turn to no shop.
PlatformKinds == {"find tenant", "users", "tenants", "suppliers", "log"}

LEMMA OncePart ==
  ASSUME NEW by \in PlatformKinds, NEW works, IsTable(works)
  PROVE  Part(Once(by, works), Turn(by), Turn(by))
<1>1. ASSUME NEW st \in ToSet(Once(by, works)) PROVE st.by = by
  <2>1. PICK w \in ToSet(works) : st = [by |-> by, shop |-> "", work |-> w]
    <3>1. ToSet(Once(by, works)) = {[by |-> by, shop |-> "", work |-> w] : w \in ToSet(works)}
      BY OnceIs
    <3> QED
      BY <1>1, <3>1
  <2> QED
    BY <2>1
<1>2. Ranked(Once(by, works), Turn(by), Turn(by))
  <2>1. IsTable(Once(by, works))
    BY OnceIs, Zenon
  <2>2. Turn(by) \in Nat
    BY TurnIsNat
  <2> QED
    BY <1>1, <2>1, <2>2, LevelIs
<1>3. ASSUME NEW st, st.by = by PROVE SeedStep(st)
  BY <1>3 DEF SeedStep, PlatformKinds, CommerceKinds, PaymentKinds
<1> QED
  BY <1>1, <1>2, <1>3 DEF Part

LEMMA ShopOnlyPart ==
  ASSUME NEW by \in {"attributes", "storefront", "inventory"}
  PROVE  Part(ShopOnly(by), Turn(by), Turn(by))
<1>1. ASSUME NEW st \in ToSet(ShopOnly(by)) PROVE st.by = by /\ st.shop \in ShopSet
  <2>1. PICK shop \in ShopSet : st = [by |-> by, shop |-> shop, work |-> ""]
    BY <1>1, ShopOnlyIs
  <2> QED
    BY <2>1
<1>2. Ranked(ShopOnly(by), Turn(by), Turn(by))
  <2>1. IsTable(ShopOnly(by))
    BY ShopOnlyIs, Zenon
  <2>2. Turn(by) \in Nat
    BY TurnIsNat
  <2> QED
    BY <1>1, <2>1, <2>2, LevelIs
<1>3. ASSUME NEW st, st.by = by, st.shop \in ShopSet PROVE SeedStep(st)
  BY <1>3 DEF SeedStep, CommerceKinds, PaymentKinds
<1> QED
  BY <1>1, <1>2, <1>3 DEF Part

LEMMA PerShopPart ==
  ASSUME NEW by \in {"categories", "products", "guides", "promotions", "pages"}, NEW worksOf,
         \A shop \in ShopSet : IsTable(worksOf[shop]),
         by = "products" => \A shop \in ShopSet : worksOf[shop] = Goods[shop]
  PROVE  Part(PerShop(by, worksOf), Turn(by), Turn(by))
<1>1. ASSUME NEW st \in ToSet(PerShop(by, worksOf))
      PROVE  st.by = by /\ st.shop \in ShopSet /\ st.work \in ToSet(worksOf[st.shop])
  <2>1. PICK shop \in ShopSet : \E w \in ToSet(worksOf[shop]) : st = [by |-> by, shop |-> shop, work |-> w]
    BY <1>1, PerShopIs
  <2>2. PICK w \in ToSet(worksOf[shop]) : st = [by |-> by, shop |-> shop, work |-> w]
    BY <2>1
  <2>3. st.by = by /\ st.shop = shop /\ st.work = w
    BY <2>2
  <2> QED
    BY <2>3
<1>2. Ranked(PerShop(by, worksOf), Turn(by), Turn(by))
  BY <1>1, LevelIs, PerShopIs, TurnIsNat
<1>3. ASSUME NEW st, st.by = by, st.shop \in ShopSet, st.work \in ToSet(worksOf[st.shop])
      PROVE  SeedStep(st)
  BY <1>3 DEF SeedStep, CommerceKinds, PaymentKinds
<1> QED
  BY <1>1, <1>2, <1>3 DEF Part

\* A collection and then its items, collection after collection.
LEMMA CollectionsOfAre ==
  ASSUME NEW shop \in ShopSet
  PROVE  /\ IsTable(CollectionsOf(shop))
         /\ \A st \in ToSet(CollectionsOf(shop)) :
              /\ st.shop = shop /\ st.by \in {"collections", "items"}
              /\ st.by = "items" =>
                   \E i \in DOMAIN Outfits[shop] : \E j \in DOMAIN Outfits[shop][i].items :
                     st.work = [look |-> Outfits[shop][i].slug, product |-> Outfits[shop][i].items[j]]
         /\ \A i \in DOMAIN Outfits[shop] : \A j \in DOMAIN Outfits[shop][i].items :
              [by |-> "items", shop |-> shop,
               work |-> [look |-> Outfits[shop][i].slug, product |-> Outfits[shop][i].items[j]]]
                \in ToSet(CollectionsOf(shop))
<1>1. IsTable(Outfits[shop]) /\ \A i \in DOMAIN Outfits[shop] : IsTable(Outfits[shop][i].items)
  BY TablesAssumption
<1>2. Len(Outfits[shop]) \in Nat /\ DOMAIN Outfits[shop] = 1 .. Len(Outfits[shop])
  BY <1>1, TableIs
<1> DEFINE Work(i, j) == [look |-> Outfits[shop][i].slug, product |-> Outfits[shop][i].items[j]]
           Head1(i) == [by |-> "collections", shop |-> shop, work |-> Outfits[shop][i]]
           Things(i) == [j \in DOMAIN Outfits[shop][i].items |->
                          [by |-> "items", shop |-> shop, work |-> Work(i, j)]]
           g(i) == <<Head1(i)>> \o Things(i)
           f == [i \in DOMAIN Outfits[shop] |-> g(i)]
<1>3. CollectionsOf(shop) = FlattenSeq(f)
  BY DEF CollectionsOf
<1>4. ASSUME NEW i \in DOMAIN Outfits[shop]
      PROVE  /\ IsTable(g(i))
             /\ ToSet(g(i)) = {Head1(i)} \cup
                  {[by |-> "items", shop |-> shop, work |-> Work(i, j)] : j \in DOMAIN Outfits[shop][i].items}
  <2> DEFINE n == Len(Outfits[shop][i].items)
             w(j) == Work(i, j)
             h == [j \in 1 .. n |-> [by |-> "items", shop |-> shop, work |-> w(j)]]
  <2>1. n \in Nat /\ DOMAIN Outfits[shop][i].items = 1 .. n
    BY <1>1, TableIs
  <2>2. Things(i) = h
    BY <2>1
  <2> HIDE DEF w
  <2>3. h = [j \in 1 .. n |-> h[j]]
    OBVIOUS
  <2>4. IsTable(h)
    <3> HIDE DEF h, n
    <3> QED
      BY <2>1, <2>3, ListIsTable
  <2>5. ToSet(h) = {[by |-> "items", shop |-> shop, work |-> w(j)] : j \in 1 .. n}
    BY DEF ToSet
  <2>6. PICK x : x = Head1(i)
    OBVIOUS
  <2>7. PICK one : one = <<x>> /\ IsTable(one) /\ Len(one) = 1 /\ one[1] = x
    BY OneIs
  <2>8. ToSet(one) = {x}
    <3>1. DOMAIN one = 1 .. 1
      BY <2>7, TableIs
    <3> QED
      BY <2>7, <3>1 DEF ToSet
  <2> HIDE DEF h, n, Head1, Work
  <2>9. g(i) = one \o h
    <3> HIDE DEF Things
    <3> QED
      BY <2>2, <2>6, <2>7
  <2> HIDE DEF g
  <2>10. IsTable(one \o h) /\ ToSet(one \o h) = ToSet(one) \cup ToSet(h)
    <3>1. IsTable(one)
      BY <2>7
    <3> QED
      BY <2>4, <3>1, JoinIs
  <2>11. {[by |-> "items", shop |-> shop, work |-> w(j)] : j \in 1 .. n}
           = {[by |-> "items", shop |-> shop, work |-> Work(i, j)] : j \in DOMAIN Outfits[shop][i].items}
    BY <2>1 DEF w
  <2>12. IsTable(g(i))
    BY <2>9, <2>10
  <2>13. ToSet(g(i)) = {x} \cup {[by |-> "items", shop |-> shop, work |-> w(j)] : j \in 1 .. n}
    BY <2>5, <2>8, <2>9, <2>10, Zenon
  <2> QED
    BY <2>6, <2>11, <2>12, <2>13, Zenon
<1>5. f = [i \in 1 .. Len(Outfits[shop]) |-> f[i]] /\ \A i \in DOMAIN Outfits[shop] : f[i] = g(i)
  <2> HIDE DEF g
  <2> QED
    BY <1>2
<1> HIDE DEF f, g, Things, Head1, Work
<1>6. IsTable(f) /\ Len(f) = Len(Outfits[shop])
  BY <1>2, <1>5, ListIsTable
<1>7. /\ IsTable(FlattenSeq(f))
      /\ ToSet(FlattenSeq(f)) = UNION {ToSet(f[k]) : k \in 1 .. Len(Outfits[shop])}
  <2>1. \A k \in 1 .. Len(f) : IsTable(f[k])
    BY <1>2, <1>4, <1>5, <1>6
  <2> QED
    BY <1>6, <2>1, FlattenHas
<1>8. ASSUME NEW st \in ToSet(CollectionsOf(shop))
      PROVE  /\ st.shop = shop /\ st.by \in {"collections", "items"}
             /\ st.by = "items" =>
                   \E i \in DOMAIN Outfits[shop] : \E j \in DOMAIN Outfits[shop][i].items : st.work = Work(i, j)
  <2>1. PICK i \in DOMAIN Outfits[shop] : st \in ToSet(g(i))
    BY <1>2, <1>3, <1>5, <1>7
  <2>2. CASE st = Head1(i)
    BY <2>2 DEF Head1
  <2>3. CASE \E j \in DOMAIN Outfits[shop][i].items : st = [by |-> "items", shop |-> shop, work |-> Work(i, j)]
    <3>1. PICK j \in DOMAIN Outfits[shop][i].items : st = [by |-> "items", shop |-> shop, work |-> Work(i, j)]
      BY <2>3
    <3>2. st.by = "items" /\ st.shop = shop /\ st.work = Work(i, j)
      BY <3>1
    <3> QED
      BY <3>2
  <2> QED
    BY <1>4, <2>1, <2>2, <2>3
<1>9. ASSUME NEW i \in DOMAIN Outfits[shop], NEW j \in DOMAIN Outfits[shop][i].items
      PROVE  [by |-> "items", shop |-> shop, work |-> Work(i, j)] \in ToSet(CollectionsOf(shop))
  <2>1. [by |-> "items", shop |-> shop, work |-> Work(i, j)] \in ToSet(g(i))
    BY <1>4
  <2> QED
    BY <1>2, <1>3, <1>5, <1>7, <2>1
<1> QED
  BY <1>1, <1>3, <1>7, <1>8, <1>9 DEF Work

PaymentsOf(shop) ==
  <<[by |-> "find orders", shop |-> shop, work |-> ""], [by |-> "payments", shop |-> shop, work |-> ""]>>

TwoOf(x, y) == <<x, y>>

LEMMA TwoAre ==
  ASSUME NEW x, NEW y
  PROVE  /\ IsTable(TwoOf(x, y)) /\ Len(TwoOf(x, y)) = 2
         /\ TwoOf(x, y)[1] = x /\ TwoOf(x, y)[2] = y
<1>1. PICK two : two = TwoOf(x, y)
  OBVIOUS
<1>2. <<x, y>> = [i \in 1 .. 2 |-> <<x, y>>[i]] /\ <<x, y>>[1] = x /\ <<x, y>>[2] = y
  OBVIOUS
<1>3. two = [i \in 1 .. 2 |-> two[i]] /\ two[1] = x /\ two[2] = y
  BY <1>1, <1>2, Zenon DEF TwoOf
<1>4. IsTable(two) /\ Len(two) = 2
  BY <1>3, ListIsTable
<1> QED
  BY <1>1, <1>3, <1>4

LEMMA PaymentsOfAre ==
  ASSUME NEW shop
  PROVE  /\ IsTable(PaymentsOf(shop)) /\ Len(PaymentsOf(shop)) = 2
         /\ PaymentsOf(shop)[1] = [by |-> "find orders", shop |-> shop, work |-> ""]
         /\ PaymentsOf(shop)[2] = [by |-> "payments", shop |-> shop, work |-> ""]
         /\ \A i \in 1 .. 2 :
              /\ PaymentsOf(shop)[i].shop = shop /\ PaymentsOf(shop)[i].by \in PaymentKinds
              /\ PaymentsOf(shop)[i].by = "payments" => i = 2
<1>1. PICK finds, pays, none : finds = "find orders" /\ pays = "payments" /\ none = ""
  OBVIOUS
<1>2. PICK x : x = [by |-> finds, shop |-> shop, work |-> none]
  OBVIOUS
<1>3. PICK y : y = [by |-> pays, shop |-> shop, work |-> none]
  OBVIOUS
<1>4. PICK two : two = TwoOf(x, y) /\ IsTable(two) /\ Len(two) = 2 /\ two[1] = x /\ two[2] = y
  BY TwoAre
<1>5. x.by = finds /\ x.shop = shop /\ y.by = pays /\ y.shop = shop
  BY <1>2, <1>3
<1>6. two = PaymentsOf(shop)
  BY <1>1, <1>2, <1>3, <1>4, Zenon DEF PaymentsOf, TwoOf
<1>7. \A i \in 1 .. 2 : i = 1 \/ i = 2
  OBVIOUS
<1>8. finds \in PaymentKinds /\ pays \in PaymentKinds /\ finds # "payments"
  BY <1>1 DEF PaymentKinds
<1>9. ASSUME NEW i \in 1 .. 2
      PROVE  two[i].shop = shop /\ two[i].by \in PaymentKinds /\ (two[i].by = "payments" => i = 2)
  BY <1>4, <1>5, <1>7, <1>8
<1> QED
  BY <1>1, <1>2, <1>3, <1>4, <1>6, <1>9, Zenon

LEMMA Turns ==
  /\ Turn("find tenant") = 1 /\ Turn("users") = 2 /\ Turn("tenants") = 3 /\ Turn("categories") = 4
  /\ Turn("suppliers") = 5 /\ Turn("products") = 6 /\ Turn("log") = 6
  /\ Turn("attributes") = 7 /\ Turn("guides") = 8
  /\ Turn("collections") = 9 /\ Turn("items") = 9 /\ Turn("storefront") = 10
  /\ Turn("promotions") = 11 /\ Turn("inventory") = 12 /\ Turn("pages") = 13
  /\ \A by \in CommerceKinds : Turn(by) = 14
  /\ \A by \in PaymentKinds : Turn(by) = 15
BY DEF Turn, CommerceKinds, PaymentKinds

\* The lists of the shops, one after another, each its shop's alone.
LEMMA ShopsTakeTurns ==
  ASSUME NEW f, f = [k \in DOMAIN Shops |-> f[k]], NEW kinds, NEW n \in Nat,
         \A by \in kinds : Turn(by) = n,
         \A k \in DOMAIN Shops :
           IsTable(f[k]) /\ \A i \in 1 .. Len(f[k]) : f[k][i].shop = Shops[k] /\ f[k][i].by \in kinds
  PROVE  /\ Ranked(FlattenSeq(f), n, n)
         /\ \A st \in ToSet(FlattenSeq(f)) : st.shop \in ShopSet /\ st.by \in kinds
         /\ \A k \in DOMAIN Shops : \E b : Within(FlattenSeq(f), f[k], b, kinds, Shops[k])
<1>1. /\ IsTable(f) /\ Len(f) = Len(Shops) /\ IsTable(FlattenSeq(f))
      /\ ToSet(FlattenSeq(f)) = UNION {ToSet(f[k]) : k \in DOMAIN Shops}
  BY ForShops
<1>2. ASSUME NEW st \in ToSet(FlattenSeq(f)) PROVE st.shop \in ShopSet /\ st.by \in kinds
  <2>1. PICK k \in DOMAIN Shops : st \in ToSet(f[k])
    BY <1>1
  <2>2. DOMAIN f[k] = 1 .. Len(f[k])
    BY TableIs
  <2>3. PICK i \in 1 .. Len(f[k]) : st = f[k][i]
    BY <2>1, <2>2 DEF ToSet
  <2>4. Shops[k] \in ShopSet
    BY ShopsAre
  <2> QED
    BY <2>3, <2>4
<1>3. Ranked(FlattenSeq(f), n, n)
  BY <1>1, <1>2, LevelIs
<1>4. ASSUME NEW at \in DOMAIN Shops PROVE \E b : Within(FlattenSeq(f), f[at], b, kinds, Shops[at])
  <2>1. ASSUME NEW k \in 1 .. Len(f), k # at PROVE Lacks(f[k], kinds, Shops[at])
    <3>1. k \in DOMAIN Shops /\ Shops[k] # Shops[at]
      BY <1>1, <2>1, ShopsAre
    <3> QED
      BY <3>1 DEF Lacks
  <2>2. at \in 1 .. Len(f) /\ \A k \in 1 .. Len(f) : IsTable(f[k])
    BY <1>1, ShopsAre
  <2> QED
    BY <1>1, <2>1, <2>2, FlattenWithin
<1> QED
  BY <1>2, <1>3, <1>4

LEMMA CommercePart ==
  /\ Part(Commerce, 14, 14)
  /\ \A shop \in ShopSet : \E b : Within(Commerce, CommerceOf(shop), b, CommerceKinds, shop)
<1> DEFINE f == [k \in DOMAIN Shops |-> CommerceOf(Shops[k])]
<1>1. Commerce = FlattenSeq(f)
  BY DEF Commerce
<1>2. ASSUME NEW k \in DOMAIN Shops
      PROVE  IsTable(f[k]) /\ \A i \in 1 .. Len(f[k]) : f[k][i].shop = Shops[k] /\ f[k][i].by \in CommerceKinds
  <2>1. f[k] = CommerceOf(Shops[k]) /\ Shops[k] \in ShopSet
    BY ShopsAre
  <2>2. Opening(CommerceOf(Shops[k]), Shops[k])
    BY <2>1, CommerceOfIs
  <2> HIDE DEF f
  <2> QED
    BY <2>1, <2>2 DEF Opening
<1>3. f = [k \in DOMAIN Shops |-> f[k]] /\ \A k \in DOMAIN Shops : f[k] = CommerceOf(Shops[k])
  OBVIOUS
<1> HIDE DEF f
<1>4. \A by \in CommerceKinds : Turn(by) = 14
  BY Turns
<1>5. /\ Ranked(FlattenSeq(f), 14, 14)
      /\ \A st \in ToSet(FlattenSeq(f)) : st.shop \in ShopSet /\ st.by \in CommerceKinds
      /\ \A k \in DOMAIN Shops : \E b : Within(FlattenSeq(f), f[k], b, CommerceKinds, Shops[k])
  BY <1>2, <1>3, <1>4, ShopsTakeTurns
<1>6. ASSUME NEW st, st.shop \in ShopSet, st.by \in CommerceKinds PROVE SeedStep(st)
  BY <1>6 DEF SeedStep, CommerceKinds, PaymentKinds
<1>7. ASSUME NEW shop \in ShopSet PROVE \E b : Within(Commerce, CommerceOf(shop), b, CommerceKinds, shop)
  <2>1. PICK k \in DOMAIN Shops : shop = Shops[k]
    BY ShopsAre
  <2> QED
    BY <1>1, <1>3, <1>5, <2>1
<1> QED
  BY <1>1, <1>5, <1>6, <1>7 DEF Part

LEMMA PaymentsPart ==
  /\ Part(Payments, 15, 15)
  /\ \A shop \in ShopSet : \E b : Within(Payments, PaymentsOf(shop), b, PaymentKinds, shop)
<1> DEFINE f == [k \in DOMAIN Shops |-> PaymentsOf(Shops[k])]
<1>1. Payments = FlattenSeq(f)
  BY DEF Payments, PaymentsOf
<1>2. ASSUME NEW k \in DOMAIN Shops
      PROVE  IsTable(f[k]) /\ \A i \in 1 .. Len(f[k]) : f[k][i].shop = Shops[k] /\ f[k][i].by \in PaymentKinds
  <2>1. f[k] = PaymentsOf(Shops[k])
    OBVIOUS
  <2> HIDE DEF f
  <2>2. /\ IsTable(PaymentsOf(Shops[k])) /\ Len(PaymentsOf(Shops[k])) = 2
        /\ \A i \in 1 .. 2 :
             PaymentsOf(Shops[k])[i].shop = Shops[k] /\ PaymentsOf(Shops[k])[i].by \in PaymentKinds
    BY PaymentsOfAre, Zenon
  <2> QED
    BY <2>1, <2>2
<1>3. f = [k \in DOMAIN Shops |-> f[k]] /\ \A k \in DOMAIN Shops : f[k] = PaymentsOf(Shops[k])
  OBVIOUS
<1> HIDE DEF f
<1>4. \A by \in PaymentKinds : Turn(by) = 15
  BY Turns
<1>5. /\ Ranked(FlattenSeq(f), 15, 15)
      /\ \A st \in ToSet(FlattenSeq(f)) : st.shop \in ShopSet /\ st.by \in PaymentKinds
      /\ \A k \in DOMAIN Shops : \E b : Within(FlattenSeq(f), f[k], b, PaymentKinds, Shops[k])
  BY <1>2, <1>3, <1>4, ShopsTakeTurns
<1>6. ASSUME NEW st, st.shop \in ShopSet, st.by \in PaymentKinds PROVE SeedStep(st)
  BY <1>6 DEF SeedStep, CommerceKinds, PaymentKinds
<1>7. ASSUME NEW shop \in ShopSet PROVE \E b : Within(Payments, PaymentsOf(shop), b, PaymentKinds, shop)
  <2>1. PICK k \in DOMAIN Shops : shop = Shops[k]
    BY ShopsAre
  <2> QED
    BY <1>1, <1>3, <1>5, <2>1
<1> QED
  BY <1>1, <1>5, <1>6, <1>7 DEF Part

CollectionLists == FlattenSeq([k \in DOMAIN Shops |-> CollectionsOf(Shops[k])])

LEMMA CollectionsPart ==
  /\ Part(CollectionLists, 9, 9)
  /\ \A shop \in ShopSet : ToSet(CollectionsOf(shop)) \subseteq ToSet(CollectionLists)
<1> DEFINE f == [k \in DOMAIN Shops |-> CollectionsOf(Shops[k])]
<1>1. CollectionLists = FlattenSeq(f)
  BY DEF CollectionLists
<1>2. f = [k \in DOMAIN Shops |-> f[k]] /\ \A k \in DOMAIN Shops : f[k] = CollectionsOf(Shops[k])
  OBVIOUS
<1> HIDE DEF f
<1>3. \A k \in DOMAIN Shops : Shops[k] \in ShopSet
  BY ShopsAre
<1>4. \A k \in DOMAIN Shops : IsTable(f[k])
  BY <1>2, <1>3, CollectionsOfAre
<1>5. IsTable(FlattenSeq(f)) /\ ToSet(FlattenSeq(f)) = UNION {ToSet(f[k]) : k \in DOMAIN Shops}
  BY <1>2, <1>4, ForShops
<1>6. ASSUME NEW st \in ToSet(FlattenSeq(f)) PROVE Turn(st.by) = 9 /\ SeedStep(st)
  <2>1. PICK k \in DOMAIN Shops : st \in ToSet(CollectionsOf(Shops[k]))
    BY <1>2, <1>5
  <2>2. /\ st.shop = Shops[k] /\ st.by \in {"collections", "items"}
        /\ st.by = "items" =>
             \E i \in DOMAIN Outfits[Shops[k]] : \E j \in DOMAIN Outfits[Shops[k]][i].items :
               st.work = [look |-> Outfits[Shops[k]][i].slug, product |-> Outfits[Shops[k]][i].items[j]]
    BY <1>3, <2>1, CollectionsOfAre
  <2>3. Turn(st.by) = 9
    BY <2>2, Turns
  <2>4. st.shop \in ShopSet
    BY <1>3, <2>2
  <2>5. SeedStep(st)
    BY <2>2, <2>4 DEF SeedStep, CommerceKinds, PaymentKinds
  <2> QED
    BY <2>3, <2>5
<1>7. Ranked(FlattenSeq(f), 9, 9)
  BY <1>5, <1>6, LevelIs
<1>8. ASSUME NEW shop \in ShopSet PROVE ToSet(CollectionsOf(shop)) \subseteq ToSet(FlattenSeq(f))
  <2>1. PICK k \in DOMAIN Shops : shop = Shops[k]
    BY ShopsAre
  <2> QED
    BY <1>2, <1>5, <2>1
<1> QED
  BY <1>1, <1>6, <1>7, <1>8 DEF Part

\* The three stretches around the products and the stock.
LEMMA BeforeStockPart ==
  /\ Part(BeforeStock, 1, 5)
  /\ ToSet(Once("users", Accounts)) \subseteq ToSet(BeforeStock)
  /\ ToSet(PerShop("categories", TopCategories)) \subseteq ToSet(BeforeStock)
<1>1. PICK one : one = <<"">> /\ IsTable(one) /\ Len(one) = 1 /\ one[1] = ""
  BY OneIs
<1>2. PICK s1 : s1 = Once("find tenant", one)
  OBVIOUS
<1>3. PICK s2 : s2 = Once("users", Accounts)
  OBVIOUS
<1>4. PICK s3 : s3 = Once("tenants", Shops)
  OBVIOUS
<1>5. PICK s4 : s4 = PerShop("categories", TopCategories)
  OBVIOUS
<1>6. PICK s5 : s5 = Once("suppliers", SupplierPartners)
  OBVIOUS
<1>7. BeforeStock = (((s1 \o s2) \o s3) \o s4) \o s5
  BY <1>1, <1>2, <1>3, <1>4, <1>5, <1>6, Zenon DEF BeforeStock
<1>8. Part(s1, 1, 1)
  <2>1. PICK by \in PlatformKinds : by = "find tenant" /\ Turn(by) = 1
    BY Turns DEF PlatformKinds
  <2>2. IsTable(one)
    BY <1>1
  <2>3. Part(Once(by, one), Turn(by), Turn(by))
    BY <2>2, OncePart
  <2> QED
    BY <1>2, <2>1, <2>3, Zenon
<1>9. Part(s2, 2, 2)
  <2>1. PICK by \in PlatformKinds : by = "users" /\ Turn(by) = 2
    BY Turns DEF PlatformKinds
  <2>2. IsTable(Accounts)
    BY TablesAssumption
  <2>3. Part(Once(by, Accounts), Turn(by), Turn(by))
    BY <2>2, OncePart
  <2> QED
    BY <1>3, <2>1, <2>3, Zenon
<1>10. Part(s3, 3, 3)
  <2>1. PICK by \in PlatformKinds : by = "tenants" /\ Turn(by) = 3
    BY Turns DEF PlatformKinds
  <2>2. IsTable(Shops)
    BY TablesAssumption
  <2>3. Part(Once(by, Shops), Turn(by), Turn(by))
    BY <2>2, OncePart
  <2> QED
    BY <1>4, <2>1, <2>3, Zenon
<1>11. Part(s4, 4, 4)
  <2>1. \A shop \in ShopSet : IsTable(TopCategories[shop])
    BY TablesAssumption
  <2>2. Part(PerShop("categories", TopCategories), Turn("categories"), Turn("categories"))
    BY <2>1, PerShopPart
  <2> QED
    BY <1>5, <2>2, Turns
<1>12. Part(s5, 5, 5)
  <2>1. PICK by \in PlatformKinds : by = "suppliers" /\ Turn(by) = 5
    BY Turns DEF PlatformKinds
  <2>2. IsTable(SupplierPartners)
    <3>1. PICK x, y : x = "cj-dropshipping" /\ y = "printful"
      OBVIOUS
    <3>2. PICK two : two = TwoOf(x, y) /\ IsTable(two) /\ Len(two) = 2 /\ two[1] = x /\ two[2] = y
      BY TwoAre
    <3> QED
      BY <3>1, <3>2, Zenon DEF SupplierPartners, TwoOf
  <2>3. Part(Once(by, SupplierPartners), Turn(by), Turn(by))
    BY <2>2, OncePart
  <2> QED
    BY <1>6, <2>1, <2>3, Zenon
<1>13. Part(s1 \o s2, 1, 2) /\ ToSet(s1 \o s2) = ToSet(s1) \cup ToSet(s2)
  BY <1>8, <1>9, PartJoin
<1>14. Part((s1 \o s2) \o s3, 1, 3) /\ ToSet((s1 \o s2) \o s3) = ToSet(s1 \o s2) \cup ToSet(s3)
  BY <1>10, <1>13, PartJoin
<1>15. /\ Part(((s1 \o s2) \o s3) \o s4, 1, 4)
       /\ ToSet(((s1 \o s2) \o s3) \o s4) = ToSet((s1 \o s2) \o s3) \cup ToSet(s4)
  BY <1>11, <1>14, PartJoin
<1>16. /\ Part(BeforeStock, 1, 5)
       /\ ToSet(BeforeStock) = ToSet(((s1 \o s2) \o s3) \o s4) \cup ToSet(s5)
  BY <1>7, <1>12, <1>15, PartJoin
<1> QED
  BY <1>3, <1>5, <1>13, <1>14, <1>15, <1>16

LEMMA AfterCatalogPart ==
  /\ Part(AfterCatalog, 6, 11)
  /\ ToSet(ShopOnly("attributes")) \subseteq ToSet(AfterCatalog)
  /\ ToSet(CollectionLists) \subseteq ToSet(AfterCatalog)
  /\ ToSet(ShopOnly("storefront")) \subseteq ToSet(AfterCatalog)
<1>1. PICK one : one = <<"">> /\ IsTable(one) /\ Len(one) = 1 /\ one[1] = ""
  BY OneIs
<1>2. PICK s0 : s0 = Once("log", one)
  OBVIOUS
<1>3. PICK s1 : s1 = ShopOnly("attributes")
  OBVIOUS
<1>4. PICK s2 : s2 = PerShop("guides", Guides)
  OBVIOUS
<1>5. PICK s3 : s3 = CollectionLists
  OBVIOUS
<1>6. PICK s4 : s4 = ShopOnly("storefront")
  OBVIOUS
<1>7. PICK s5 : s5 = PerShop("promotions", Promos)
  OBVIOUS
<1>8. AfterCatalog = ((((s0 \o s1) \o s2) \o s3) \o s4) \o s5
  BY <1>1, <1>2, <1>3, <1>4, <1>5, <1>6, <1>7, Zenon DEF AfterCatalog, CollectionLists
<1>9. Part(s0, 6, 6)
  <2>1. PICK by \in PlatformKinds : by = "log" /\ Turn(by) = 6
    BY Turns DEF PlatformKinds
  <2>2. IsTable(one)
    BY <1>1
  <2>3. Part(Once(by, one), Turn(by), Turn(by))
    BY <2>2, OncePart
  <2> QED
    BY <1>2, <2>1, <2>3, Zenon
<1>10. Part(s1, 7, 7) /\ Part(s4, 10, 10)
  <2>1. Part(ShopOnly("attributes"), Turn("attributes"), Turn("attributes"))
    BY ShopOnlyPart
  <2>2. Part(ShopOnly("storefront"), Turn("storefront"), Turn("storefront"))
    BY ShopOnlyPart
  <2> QED
    BY <1>3, <1>6, <2>1, <2>2, Turns
<1>11. Part(s2, 8, 8)
  <2>1. \A shop \in ShopSet : IsTable(Guides[shop])
    BY TablesAssumption
  <2>2. Part(PerShop("guides", Guides), Turn("guides"), Turn("guides"))
    BY <2>1, PerShopPart
  <2> QED
    BY <1>4, <2>2, Turns
<1>12. Part(s3, 9, 9)
  BY <1>5, CollectionsPart
<1>13. Part(s5, 11, 11)
  <2>1. \A shop \in ShopSet : IsTable(Promos[shop])
    BY TablesAssumption
  <2>2. Part(PerShop("promotions", Promos), Turn("promotions"), Turn("promotions"))
    BY <2>1, PerShopPart
  <2> QED
    BY <1>7, <2>2, Turns
<1>14. Part(s0 \o s1, 6, 7) /\ ToSet(s0 \o s1) = ToSet(s0) \cup ToSet(s1)
  BY <1>9, <1>10, PartJoin
<1>15. Part((s0 \o s1) \o s2, 6, 8) /\ ToSet((s0 \o s1) \o s2) = ToSet(s0 \o s1) \cup ToSet(s2)
  BY <1>11, <1>14, PartJoin
<1>16. PICK front : front = ((s0 \o s1) \o s2) \o s3
  OBVIOUS
<1>17. Part(front, 6, 9) /\ ToSet(front) = ToSet((s0 \o s1) \o s2) \cup ToSet(s3)
  BY <1>12, <1>15, <1>16, PartJoin
<1>18. Part(front \o s4, 6, 10) /\ ToSet(front \o s4) = ToSet(front) \cup ToSet(s4)
  BY <1>10, <1>17, PartJoin
<1>19. AfterCatalog = (front \o s4) \o s5
  BY <1>8, <1>16
<1>20. /\ Part(AfterCatalog, 6, 11)
       /\ ToSet(AfterCatalog) = ToSet(front \o s4) \cup ToSet(s5)
  BY <1>13, <1>18, <1>19, PartJoin
<1> QED
  BY <1>3, <1>5, <1>6, <1>14, <1>15, <1>17, <1>18, <1>20

LEMMA PagesPart == Part(PerShop("pages", [s \in ShopSet |-> ContentPages]), 13, 13)
<1>1. IsTable(ContentPages)
  <2>1. PICK x, y : x = "home" /\ y = "about"
    OBVIOUS
  <2>2. PICK two : two = TwoOf(x, y) /\ IsTable(two) /\ Len(two) = 2 /\ two[1] = x /\ two[2] = y
    BY TwoAre
  <2> QED
    BY <2>1, <2>2, Zenon DEF ContentPages, TwoOf
<1>2. PICK pages : pages = [s \in ShopSet |-> ContentPages]
  OBVIOUS
<1>3. \A shop \in ShopSet : IsTable(pages[shop])
  BY <1>1, <1>2
<1>4. Part(PerShop("pages", pages), Turn("pages"), Turn("pages"))
  BY <1>3, PerShopPart
<1> QED
  BY <1>2, <1>4, Turns


LEMMA ScriptLies ==
  /\ Part(Script, 1, 15)
  /\ ToSet(Once("users", Accounts)) \subseteq ToSet(Script)
  /\ ToSet(PerShop("categories", TopCategories)) \subseteq ToSet(Script)
  /\ ToSet(PerShop("products", Goods)) \subseteq ToSet(Script)
  /\ ToSet(ShopOnly("attributes")) \subseteq ToSet(Script)
  /\ ToSet(CollectionLists) \subseteq ToSet(Script)
  /\ ToSet(ShopOnly("storefront")) \subseteq ToSet(Script)
  /\ ToSet(ShopOnly("inventory")) \subseteq ToSet(Script)
  /\ \A shop \in ShopSet : \E b : Within(Script, CommerceOf(shop), b, CommerceKinds, shop)
  /\ \A shop \in ShopSet : \E b : Within(Script, PaymentsOf(shop), b, PaymentKinds, shop)
<1>1. PICK s1 : s1 = BeforeStock
  OBVIOUS
<1>2. PICK s2 : s2 = PerShop("products", Goods)
  OBVIOUS
<1>3. PICK s3 : s3 = AfterCatalog
  OBVIOUS
<1>4. PICK s4 : s4 = ShopOnly("inventory")
  OBVIOUS
<1>5. PICK s5 : s5 = PerShop("pages", [s \in ShopSet |-> ContentPages])
  OBVIOUS
<1>6. PICK s6 : s6 = Commerce
  OBVIOUS
<1>7. PICK s7 : s7 = Payments
  OBVIOUS
<1>8. Script = (((s1 \o s2) \o s3) \o s4) \o ((s5 \o s6) \o s7)
  BY <1>1, <1>2, <1>3, <1>4, <1>5, <1>6, <1>7, Zenon DEF Script, Stock, AfterStock
<1>9. Part(s1, 1, 5) /\ Part(s3, 6, 11) /\ Part(s5, 13, 13) /\ Part(s6, 14, 14) /\ Part(s7, 15, 15)
  BY <1>1, <1>3, <1>5, <1>6, <1>7, BeforeStockPart, AfterCatalogPart, PagesPart, CommercePart,
     PaymentsPart
<1>10. Part(s2, 6, 6)
  <2>1. \A shop \in ShopSet : IsTable(Goods[shop])
    BY TablesAssumption
  <2>2. Part(PerShop("products", Goods), Turn("products"), Turn("products"))
    BY <2>1, PerShopPart
  <2> QED
    BY <1>2, <2>2, Turns
<1>11. Part(s4, 12, 12)
  <2>1. Part(ShopOnly("inventory"), Turn("inventory"), Turn("inventory"))
    BY ShopOnlyPart
  <2> QED
    BY <1>4, <2>1, Turns
<1>12. Part(s1 \o s2, 1, 6) /\ ToSet(s1 \o s2) = ToSet(s1) \cup ToSet(s2)
  BY <1>9, <1>10, PartJoin
<1>13. Part((s1 \o s2) \o s3, 1, 11) /\ ToSet((s1 \o s2) \o s3) = ToSet(s1 \o s2) \cup ToSet(s3)
  BY <1>9, <1>12, PartJoin
<1>14. PICK front : front = ((s1 \o s2) \o s3) \o s4
  OBVIOUS
<1>15. Part(front, 1, 12) /\ ToSet(front) = ToSet((s1 \o s2) \o s3) \cup ToSet(s4)
  BY <1>11, <1>13, <1>14, PartJoin
<1>16. PICK mid : mid = s5 \o s6
  OBVIOUS
<1>17. Part(mid, 13, 14)
  BY <1>9, <1>16, PartJoin
<1>18. PICK back : back = mid \o s7
  OBVIOUS
<1>19. Part(back, 13, 15)
  BY <1>9, <1>17, <1>18, PartJoin
<1>20. Script = front \o back
  BY <1>8, <1>14, <1>16, <1>18
<1>21. Part(Script, 1, 15) /\ ToSet(Script) = ToSet(front) \cup ToSet(back)
  BY <1>15, <1>19, <1>20, PartJoin
<1>22. \A s, lo, hi : Part(s, lo, hi) => IsTable(s) /\ Ranked(s, lo, hi)
  BY DEF Part, Ranked
<1>23. ASSUME NEW shop \in ShopSet
       PROVE  \E b : Within(Script, CommerceOf(shop), b, CommerceKinds, shop)
  <2>1. PICK b0 : Within(s6, CommerceOf(shop), b0, CommerceKinds, shop)
    BY <1>6, CommercePart
  <2>2. IsTable(CommerceOf(shop))
    BY CommerceOfIs DEF Opening
  <2>3. \A by \in CommerceKinds : Turn(by) = 14
    BY Turns
  <2>4. Lacks(s5, CommerceKinds, shop)
    BY <1>9, <1>22, <2>3, RankedLacks
  <2>5. Lacks(s7, CommerceKinds, shop)
    BY <1>9, <1>22, <2>3, RankedLacks
  <2>6. Lacks(front, CommerceKinds, shop)
    BY <1>15, <1>22, <2>3, RankedLacks
  <2>7. \E b1 : Within(mid, CommerceOf(shop), b1, CommerceKinds, shop)
    BY <1>9, <1>16, <1>22, <2>1, <2>2, <2>4, WithinBack
  <2>8. \E b2 : Within(back, CommerceOf(shop), b2, CommerceKinds, shop)
    BY <1>9, <1>17, <1>18, <1>22, <2>2, <2>5, <2>7, WithinFront
  <2> QED
    BY <1>15, <1>19, <1>20, <1>22, <2>2, <2>6, <2>8, WithinBack
<1>24. ASSUME NEW shop \in ShopSet
       PROVE  \E b : Within(Script, PaymentsOf(shop), b, PaymentKinds, shop)
  <2>1. PICK b0 : Within(s7, PaymentsOf(shop), b0, PaymentKinds, shop)
    BY <1>7, PaymentsPart
  <2>2. IsTable(PaymentsOf(shop))
    BY PaymentsOfAre, Zenon
  <2>3. \A by \in PaymentKinds : Turn(by) = 15
    BY Turns
  <2>4. Lacks(mid, PaymentKinds, shop)
    BY <1>17, <1>22, <2>3, RankedLacks
  <2>5. Lacks(front, PaymentKinds, shop)
    BY <1>15, <1>22, <2>3, RankedLacks
  <2>6. \E b1 : Within(back, PaymentsOf(shop), b1, PaymentKinds, shop)
    BY <1>9, <1>17, <1>18, <1>22, <2>1, <2>2, <2>4, WithinBack
  <2> QED
    BY <1>15, <1>19, <1>20, <1>22, <2>2, <2>5, <2>6, WithinBack
<1>25. /\ ToSet(s1) \subseteq ToSet(Script) /\ ToSet(s2) \subseteq ToSet(Script)
       /\ ToSet(s3) \subseteq ToSet(Script) /\ ToSet(s4) \subseteq ToSet(Script)
  BY <1>12, <1>13, <1>15, <1>21
<1>26. /\ ToSet(Once("users", Accounts)) \subseteq ToSet(s1)
       /\ ToSet(PerShop("categories", TopCategories)) \subseteq ToSet(s1)
       /\ ToSet(ShopOnly("attributes")) \subseteq ToSet(s3)
       /\ ToSet(CollectionLists) \subseteq ToSet(s3)
       /\ ToSet(ShopOnly("storefront")) \subseteq ToSet(s3)
  BY <1>1, <1>3, BeforeStockPart, AfterCatalogPart
<1> QED
  BY <1>2, <1>4, <1>21, <1>23, <1>24, <1>25, <1>26

\* The script is a list, in turn.
LEMMA ScriptInTurn ==
  /\ IsTable(Script) /\ Len(Script) \in Nat /\ DOMAIN Script = 1 .. Len(Script)
  /\ \A i \in 1 .. Len(Script) : SeedStep(Script[i])
  /\ \A i, j \in 1 .. Len(Script) : Turn(Script[i].by) < Turn(Script[j].by) => i < j
<1>1. /\ IsTable(Script)
      /\ \A i, j \in 1 .. Len(Script) : i < j => Turn(Script[i].by) <= Turn(Script[j].by)
  BY ScriptLies DEF Part, Ranked
<1>2. Len(Script) \in Nat /\ DOMAIN Script = 1 .. Len(Script)
  BY <1>1, TableIs
<1>3. ASSUME NEW i \in 1 .. Len(Script) PROVE SeedStep(Script[i])
  <2>1. Script[i] \in ToSet(Script)
    BY <1>2 DEF ToSet
  <2> QED
    BY <2>1, ScriptLies DEF Part
<1>4. ASSUME NEW i \in 1 .. Len(Script), NEW j \in 1 .. Len(Script),
             Turn(Script[i].by) < Turn(Script[j].by)
      PROVE  i < j
  <2>1. Turn(Script[i].by) \in Nat /\ Turn(Script[j].by) \in Nat
    <3>1. \A by : Turn(by) \in Nat
      BY TurnIsNat
    <3> QED
      BY <3>1, Zenon
  <2>2. CASE j < i
    BY <1>1, <1>4, <2>1, <2>2
  <2>3. CASE i = j
    BY <1>4, <2>1, <2>3
  <2> QED
    BY <1>2, <2>2, <2>3
<1> QED
  BY <1>1, <1>2, <1>3, <1>4

LEMMA PlaceIs ==
  \A n \in 1 .. Len(Script) :
    n \in Nat /\ n >= 1 /\ (n + 1) - 1 = n /\ n + 1 \in 0 .. Len(Script) + 1
<1>1. PICK m \in Nat : m = Len(Script)
  BY ScriptInTurn
<1>2. \A n \in 1 .. m : n \in Nat /\ n >= 1 /\ (n + 1) - 1 = n /\ n + 1 \in 0 .. m + 1
  OBVIOUS
<1> QED
  BY <1>1, <1>2

ScriptHas(by, shop, w) ==
  \E i \in 1 .. Len(Script) : Script[i].by = by /\ Script[i].shop = shop /\ Script[i].work = w

LEMMA ScriptHasIt ==
  ASSUME NEW by, NEW shop, NEW w, [by |-> by, shop |-> shop, work |-> w] \in ToSet(Script)
  PROVE  ScriptHas(by, shop, w)
<1>1. PICK st : st = [by |-> by, shop |-> shop, work |-> w]
  OBVIOUS
<1>2. st.by = by /\ st.shop = shop /\ st.work = w
  BY <1>1
<1>3. PICK i \in 1 .. Len(Script) : st = Script[i]
  BY <1>1, ScriptInTurn DEF ToSet
<1> QED
  BY <1>2, <1>3 DEF ScriptHas

LEMMA ScriptIsFull ==
  /\ \A a \in ToSet(Accounts) : ScriptHas("users", "", a)
  /\ \A shop \in ShopSet :
       /\ \A c \in ToSet(TopCategories[shop]) : ScriptHas("categories", shop, c)
       /\ \A p \in ToSet(Goods[shop]) : ScriptHas("products", shop, p)
       /\ ScriptHas("attributes", shop, "")
       /\ ScriptHas("storefront", shop, "")
       /\ ScriptHas("inventory", shop, "")
       /\ \A i \in DOMAIN Outfits[shop] : \A j \in DOMAIN Outfits[shop][i].items :
            ScriptHas("items", shop,
                      [look |-> Outfits[shop][i].slug, product |-> Outfits[shop][i].items[j]])
<1>1. ASSUME NEW a \in ToSet(Accounts) PROVE ScriptHas("users", "", a)
  <2>1. PICK by, none : by = "users" /\ none = ""
    OBVIOUS
  <2>2. ToSet(Once(by, Accounts)) = {[by |-> by, shop |-> "", work |-> w] : w \in ToSet(Accounts)}
    BY TablesAssumption, OnceIs
  <2>3. [by |-> by, shop |-> none, work |-> a] \in ToSet(Once(by, Accounts))
    BY <2>1, <2>2, Zenon
  <2>4. ToSet(Once(by, Accounts)) \subseteq ToSet(Script)
    BY <2>1, ScriptLies, Zenon
  <2>5. [by |-> by, shop |-> none, work |-> a] \in ToSet(Script)
    BY <2>3, <2>4, Zenon
  <2>6. ScriptHas(by, none, a)
    BY <2>5, ScriptHasIt
  <2> QED
    BY <2>1, <2>6, Zenon
<1>2. ASSUME NEW shop \in ShopSet, NEW by \in {"attributes", "storefront", "inventory"}
      PROVE  ScriptHas(by, shop, "")
  <2>1. PICK none : none = ""
    OBVIOUS
  <2>2. [by |-> by, shop |-> shop, work |-> none] \in ToSet(ShopOnly(by))
    BY <2>1, ShopOnlyIs, Zenon
  <2>3. ToSet(ShopOnly(by)) \subseteq ToSet(Script)
    BY ScriptLies
  <2>4. [by |-> by, shop |-> shop, work |-> none] \in ToSet(Script)
    BY <2>2, <2>3, Zenon
  <2>5. ScriptHas(by, shop, none)
    BY <2>4, ScriptHasIt
  <2> QED
    BY <2>1, <2>5, Zenon
<1>3. ASSUME NEW shop \in ShopSet, NEW by, NEW worksOf, NEW w \in ToSet(worksOf[shop]),
             \A s \in ShopSet : IsTable(worksOf[s]),
             ToSet(PerShop(by, worksOf)) \subseteq ToSet(Script)
      PROVE  ScriptHas(by, shop, w)
  <2>1. [by |-> by, shop |-> shop, work |-> w] \in ToSet(PerShop(by, worksOf))
    BY <1>3, PerShopIs
  <2>2. [by |-> by, shop |-> shop, work |-> w] \in ToSet(Script)
    BY <1>3, <2>1
  <2> QED
    BY <2>2, ScriptHasIt
<1>4. ASSUME NEW shop \in ShopSet, NEW c \in ToSet(TopCategories[shop])
      PROVE  ScriptHas("categories", shop, c)
  BY <1>3, ScriptLies, TablesAssumption
<1>5. ASSUME NEW shop \in ShopSet, NEW p \in ToSet(Goods[shop])
      PROVE  ScriptHas("products", shop, p)
  BY <1>3, ScriptLies, TablesAssumption
<1>6. ASSUME NEW shop \in ShopSet, NEW i \in DOMAIN Outfits[shop], NEW j \in DOMAIN Outfits[shop][i].items
      PROVE  ScriptHas("items", shop, [look |-> Outfits[shop][i].slug, product |-> Outfits[shop][i].items[j]])
  <2>1. PICK w : w = [look |-> Outfits[shop][i].slug, product |-> Outfits[shop][i].items[j]]
    OBVIOUS
  <2>2. [by |-> "items", shop |-> shop, work |-> w] \in ToSet(CollectionsOf(shop))
    BY <2>1, CollectionsOfAre
  <2>3. ToSet(CollectionsOf(shop)) \subseteq ToSet(Script)
    BY CollectionsPart, ScriptLies, Zenon
  <2>4. [by |-> "items", shop |-> shop, work |-> w] \in ToSet(Script)
    BY <2>2, <2>3, Zenon
  <2>5. ScriptHas("items", shop, w)
    BY <2>4, ScriptHasIt
  <2> QED
    BY <2>1, <2>5
<1> QED
  BY <1>1, <1>2, <1>4, <1>5, <1>6

\* Where a shop's orders lie: one after another, behind the count, the profiles before it.
LEMMA OrdersLie ==
  ASSUME NEW shop \in ShopSet
  PROVE  \E c \in 1 .. Len(Script) :
           /\ Script[c].by = "count orders" /\ Script[c].shop = shop
           /\ c + Len(Orders[shop]) <= Len(Script)
           /\ \A j \in 1 .. Len(Orders[shop]) :
                /\ Script[c + j].by = "orders" /\ Script[c + j].shop = shop
                /\ Script[c + j].work = Orders[shop][j]
           /\ \A i \in 1 .. Len(Script) :
                Script[i].by = "orders" /\ Script[i].shop = shop => i > c /\ i <= c + Len(Orders[shop])
           /\ \A i \in 1 .. Len(Script) :
                Script[i].by = "count orders" /\ Script[i].shop = shop => i = c
           /\ \A i \in 1 .. Len(Script) :
                Script[i].by = "profiles" /\ Script[i].shop = shop => Script[i].work \in ToSet(Buyers)
           /\ \A a \in ToSet(Buyers) : \E i \in 1 .. Len(Script) :
                i < c /\ Script[i].by = "profiles" /\ Script[i].shop = shop /\ Script[i].work = a
<1>1. PICK t : t = CommerceOf(shop)
  OBVIOUS
<1>2. PICK b : Within(Script, t, b, CommerceKinds, shop)
  BY <1>1, ScriptLies
<1>3. Opening(t, shop)
  BY <1>1, CommerceOfIs
<1>4. PICK B \in Nat, N \in Nat : B = Len(Buyers) /\ N = Len(Orders[shop])
  BY CommerceOfIs
<1>5. Len(t) \in Nat /\ b \in Nat /\ Len(Script) \in Nat
  BY <1>2, <1>3, ScriptInTurn, TableIs DEF Opening, Within
<1>6. /\ b + Len(t) <= Len(Script) /\ (B + 1) + N <= Len(t)
  BY <1>2, <1>3, <1>4 DEF Opening, Within
<1>7. \A j \in 1 .. Len(t) : Script[b + j] = t[j]
  BY <1>2 DEF Within
<1>8. ASSUME NEW i \in 1 .. Len(Script), Script[i].by \in CommerceKinds, Script[i].shop = shop
      PROVE  i - b \in 1 .. Len(t) /\ Script[i] = t[i - b]
  <2>1. i > b /\ i <= b + Len(t)
    BY <1>2, <1>8 DEF Within
  <2>2. i - b \in 1 .. Len(t) /\ b + (i - b) = i
    BY <1>5, <2>1
  <2> QED
    BY <1>7, <2>2
<1>9. \A j \in 1 .. Len(t) :
        /\ t[j].by = "profiles" => j <= B
        /\ t[j].by = "count orders" => j = B + 1
        /\ t[j].by = "orders" => j > B + 1 /\ j <= (B + 1) + N
  BY <1>3, <1>4 DEF Opening
<1>10. \A j \in 1 .. B : t[j] = [by |-> "profiles", shop |-> shop, work |-> Buyers[j]]
  BY <1>3, <1>4 DEF Opening
<1>11. t[B + 1] = [by |-> "count orders", shop |-> shop, work |-> ""]
  BY <1>3, <1>4 DEF Opening
<1>12. \A j \in 1 .. N : t[(B + 1) + j] = [by |-> "orders", shop |-> shop, work |-> Orders[shop][j]]
  BY <1>3, <1>4 DEF Opening
<1>13. PICK c \in Nat : c = b + (B + 1)
  BY <1>5
<1>14. c \in 1 .. Len(Script) /\ c + N <= Len(Script)
  BY <1>5, <1>6, <1>13
<1>15. Script[c].by = "count orders" /\ Script[c].shop = shop
  <2>1. B + 1 \in 1 .. Len(t)
    BY <1>5, <1>6
  <2>2. Script[c] = t[B + 1]
    BY <1>7, <1>13, <2>1
  <2>3. \A tally, none : t[B + 1] = [by |-> tally, shop |-> shop, work |-> none]
                           => t[B + 1].by = tally /\ t[B + 1].shop = shop
    OBVIOUS
  <2>4. t[B + 1].by = "count orders" /\ t[B + 1].shop = shop
    BY <1>11, <2>3, Zenon
  <2> QED
    BY <2>2, <2>4
<1>16. ASSUME NEW j \in 1 .. N
       PROVE  /\ Script[c + j].by = "orders" /\ Script[c + j].shop = shop
              /\ Script[c + j].work = Orders[shop][j]
  <2>1. (B + 1) + j \in 1 .. Len(t) /\ b + ((B + 1) + j) = c + j
    BY <1>5, <1>6, <1>13
  <2>2. Script[c + j] = t[(B + 1) + j]
    BY <1>7, <2>1
  <2>3. t[(B + 1) + j] = [by |-> "orders", shop |-> shop, work |-> Orders[shop][j]]
    BY <1>12
  <2>4. Script[c + j] = [by |-> "orders", shop |-> shop, work |-> Orders[shop][j]]
    BY <2>2, <2>3
  <2> QED
    BY <2>4
<1>17. CommerceKinds = CommerceKinds \cup {"profiles", "count orders", "orders"}
  BY DEF CommerceKinds
<1>18. ASSUME NEW i \in 1 .. Len(Script), Script[i].by = "orders", Script[i].shop = shop
       PROVE  i > c /\ i <= c + N
  <2>1. i - b \in 1 .. Len(t) /\ t[i - b].by = "orders"
    BY <1>8, <1>17, <1>18
  <2>2. i - b > B + 1 /\ i - b <= (B + 1) + N
    BY <1>9, <2>1
  <2> QED
    BY <1>5, <1>13, <2>1, <2>2
<1>19. ASSUME NEW i \in 1 .. Len(Script), Script[i].by = "count orders", Script[i].shop = shop
       PROVE  i = c
  <2>1. i - b \in 1 .. Len(t) /\ t[i - b].by = "count orders"
    BY <1>8, <1>17, <1>19
  <2>2. i - b = B + 1
    BY <1>9, <2>1
  <2> QED
    BY <1>5, <1>13, <2>2
<1>20. ASSUME NEW i \in 1 .. Len(Script), Script[i].by = "profiles", Script[i].shop = shop
       PROVE  Script[i].work \in ToSet(Buyers)
  <2>1. i - b \in 1 .. Len(t) /\ Script[i] = t[i - b] /\ t[i - b].by = "profiles"
    BY <1>8, <1>17, <1>20
  <2>2. i - b \in 1 .. B
    <3>1. i - b <= B
      BY <1>9, <2>1
    <3> QED
      BY <1>5, <2>1, <3>1
  <2>3. t[i - b] = [by |-> "profiles", shop |-> shop, work |-> Buyers[i - b]]
    BY <1>10, <2>2
  <2>4. t[i - b].work = Buyers[i - b]
    BY <2>3
  <2>5. DOMAIN Buyers = 1 .. B
    BY <1>4, TablesAssumption, TableIs
  <2>6. Buyers[i - b] \in ToSet(Buyers)
    BY <2>2, <2>5 DEF ToSet
  <2> QED
    BY <2>1, <2>4, <2>6
<1>21. ASSUME NEW a \in ToSet(Buyers)
       PROVE  \E i \in 1 .. Len(Script) :
                i < c /\ Script[i].by = "profiles" /\ Script[i].shop = shop /\ Script[i].work = a
  <2>1. DOMAIN Buyers = 1 .. B
    BY <1>4, TablesAssumption, TableIs
  <2>2. PICK j \in 1 .. B : a = Buyers[j]
    BY <2>1 DEF ToSet
  <2>3. j \in 1 .. Len(t) /\ b + j \in 1 .. Len(Script) /\ b + j < c
    BY <1>5, <1>6, <1>13
  <2>4. Script[b + j] = t[j]
    BY <1>7, <2>3
  <2>5. t[j] = [by |-> "profiles", shop |-> shop, work |-> Buyers[j]]
    BY <1>10
  <2>6. Script[b + j] = [by |-> "profiles", shop |-> shop, work |-> a]
    BY <2>2, <2>4, <2>5
  <2>7. Script[b + j].by = "profiles" /\ Script[b + j].shop = shop /\ Script[b + j].work = a
    BY <2>6
  <2> QED
    BY <2>3, <2>7
<1> QED
  BY <1>4, <1>14, <1>15, <1>16, <1>18, <1>19, <1>20, <1>21, ZenonT(30)

\* The orders are found right before they are paid for.
LEMMA PaymentsLie ==
  ASSUME NEW shop \in ShopSet
  PROVE  \E p \in Nat :
           /\ p \in 1 .. Len(Script) /\ p + 1 \in 1 .. Len(Script)
           /\ Script[p].by = "find orders" /\ Script[p].shop = shop
           /\ Script[p + 1].by = "payments" /\ Script[p + 1].shop = shop
           /\ \A i \in 1 .. Len(Script) :
                Script[i].by = "payments" /\ Script[i].shop = shop => i = p + 1
<1>1. PICK t : t = PaymentsOf(shop)
  OBVIOUS
<1>2. PICK b : Within(Script, t, b, PaymentKinds, shop)
  BY <1>1, ScriptLies
<1>3. PICK finds, pays, none : finds = "find orders" /\ pays = "payments" /\ none = ""
  OBVIOUS
<1>4. /\ Len(t) = 2
      /\ t[1] = [by |-> finds, shop |-> shop, work |-> none]
      /\ t[2] = [by |-> pays, shop |-> shop, work |-> none]
      /\ \A i \in 1 .. 2 : t[i].by = pays => i = 2
  BY <1>1, <1>3, PaymentsOfAre, Zenon
<1>5. t[1].by = finds /\ t[1].shop = shop /\ t[2].by = pays /\ t[2].shop = shop
  BY <1>4
<1>6. b \in Nat /\ Len(Script) \in Nat /\ b + 2 <= Len(Script)
  BY <1>2, <1>4, ScriptInTurn DEF Within
<1>7. \A j \in 1 .. 2 : Script[b + j] = t[j]
  BY <1>2, <1>4 DEF Within
<1>8. Script[b + 1] = t[1] /\ Script[b + 2] = t[2]
  BY <1>7
<1>9. pays \in PaymentKinds
  BY <1>3 DEF PaymentKinds
<1>10. ASSUME NEW i \in 1 .. Len(Script), Script[i].by = pays, Script[i].shop = shop
       PROVE  i = b + 2
  <2>1. i > b /\ i <= b + 2
    BY <1>2, <1>4, <1>9, <1>10 DEF Within
  <2>2. i - b \in 1 .. 2 /\ b + (i - b) = i
    BY <1>6, <2>1
  <2>3. Script[i] = t[i - b]
    BY <1>7, <2>2
  <2>4. i - b = 2
    BY <1>4, <1>10, <2>2, <2>3
  <2> QED
    BY <1>6, <2>4
<1>11. b + 1 \in Nat /\ b + 1 \in 1 .. Len(Script) /\ (b + 1) + 1 \in 1 .. Len(Script) /\ (b + 1) + 1 = b + 2
  BY <1>6
<1>12. /\ b + 1 \in Nat /\ b + 1 \in 1 .. Len(Script) /\ (b + 1) + 1 \in 1 .. Len(Script)
       /\ Script[b + 1].by = finds /\ Script[b + 1].shop = shop
       /\ Script[(b + 1) + 1].by = pays /\ Script[(b + 1) + 1].shop = shop
       /\ \A i \in 1 .. Len(Script) : Script[i].by = pays /\ Script[i].shop = shop => i = (b + 1) + 1
  BY <1>5, <1>8, <1>10, <1>11
<1> QED
  BY <1>3, <1>12, Zenon

\* What the seeding of orders and payments counts on.
LEMMA OrdersFollow ==
  ASSUME NEW n \in 1 .. Len(Script), Script[n].by = "orders"
  PROVE  /\ n - 1 \in 1 .. Len(Script) /\ Script[n - 1].shop = Script[n].shop
         /\ Script[n - 1].by \in {"count orders", "orders"}
         /\ \E k \in DOMAIN Orders[Script[n].shop] : Script[n].work = Orders[Script[n].shop][k]
         /\ \A i \in 1 .. Len(Script) :
              Script[i].by = "orders" /\ Script[i].shop = Script[n].shop
                /\ Script[i].work.no = Script[n].work.no => i = n
         /\ \A i \in 1 .. Len(Script) :
              Script[i].by = "count orders" /\ Script[i].shop = Script[n].shop => i < n
         /\ ~(n + 1 \in 1 .. Len(Script) /\ Script[n + 1].by = "orders"
                /\ Script[n + 1].shop = Script[n].shop) =>
              \A i \in 1 .. Len(Script) :
                Script[i].by = "orders" /\ Script[i].shop = Script[n].shop => i <= n
         /\ \E i \in 1 .. Len(Script) :
              /\ i < n /\ Script[i].by = "profiles" /\ Script[i].shop = Script[n].shop
              /\ Script[i].work = Script[n].work.by
<1>1. PICK shop : shop = Script[n].shop
  OBVIOUS
<1>2. shop \in ShopSet
  <2>1. "orders" \in CommerceKinds
    BY DEF CommerceKinds
  <2>2. SeedStep(Script[n])
    BY ScriptInTurn
  <2> QED
    BY <1>1, <2>1, <2>2 DEF SeedStep
<1>3. PICK c \in 1 .. Len(Script) :
        /\ Script[c].by = "count orders" /\ Script[c].shop = shop
        /\ c + Len(Orders[shop]) <= Len(Script)
        /\ \A j \in 1 .. Len(Orders[shop]) :
             /\ Script[c + j].by = "orders" /\ Script[c + j].shop = shop
             /\ Script[c + j].work = Orders[shop][j]
        /\ \A i \in 1 .. Len(Script) :
             Script[i].by = "orders" /\ Script[i].shop = shop => i > c /\ i <= c + Len(Orders[shop])
        /\ \A i \in 1 .. Len(Script) :
             Script[i].by = "count orders" /\ Script[i].shop = shop => i = c
        /\ \A i \in 1 .. Len(Script) :
             Script[i].by = "profiles" /\ Script[i].shop = shop => Script[i].work \in ToSet(Buyers)
        /\ \A a \in ToSet(Buyers) : \E i \in 1 .. Len(Script) :
             i < c /\ Script[i].by = "profiles" /\ Script[i].shop = shop /\ Script[i].work = a
  BY <1>2, OrdersLie
<1>4. PICK N \in Nat : N = Len(Orders[shop])
  BY <1>2, CommerceOfIs
<1>5. IsTable(Orders[shop]) /\ DOMAIN Orders[shop] = 1 .. N
  BY <1>2, <1>4, TablesAssumption, TableIs
<1>6. Len(Script) \in Nat /\ c \in Nat /\ n \in Nat
  BY ScriptInTurn
<1> DEFINE orders(i) == Script[i].by = "orders" /\ Script[i].shop = shop
<1>7. \A i \in 1 .. Len(Script) : orders(i) => i > c /\ i <= c + N
  BY <1>3, <1>4
<1>8. \A j \in 1 .. N : orders(c + j) /\ Script[c + j].work = Orders[shop][j]
  BY <1>3, <1>4
<1>9. ASSUME NEW i \in 1 .. Len(Script), orders(i)
      PROVE  i - c \in 1 .. N /\ Script[i].work = Orders[shop][i - c]
  <2>1. i > c /\ i <= c + N
    BY <1>7, <1>9
  <2> HIDE DEF orders
  <2>2. i - c \in 1 .. N /\ c + (i - c) = i
    BY <1>6, <2>1
  <2> QED
    BY <1>8, <2>2
<1>10. orders(n)
  BY <1>1
<1>11. n - c \in 1 .. N /\ Script[n].work = Orders[shop][n - c] /\ n > c
  BY <1>7, <1>9, <1>10
<1>12. n - 1 \in 1 .. Len(Script) /\ Script[n - 1].shop = shop /\ Script[n - 1].by \in {"count orders", "orders"}
  <2>1. CASE n - c = 1
    <3>1. n - 1 = c
      BY <1>6, <2>1
    <3> QED
      BY <1>3, <3>1
  <2>2. CASE n - c # 1
    <3>1. (n - c) - 1 \in 1 .. N /\ c + ((n - c) - 1) = n - 1 /\ n - 1 \in 1 .. Len(Script)
      BY <1>6, <1>11, <2>2
    <3>2. orders(n - 1)
      <4> HIDE DEF orders
      <4> QED
        BY <1>8, <3>1
    <3> QED
      BY <3>1, <3>2
  <2> QED
    BY <2>1, <2>2
<1>13. ASSUME NEW i \in 1 .. Len(Script), orders(i), Script[i].work.no = Script[n].work.no
       PROVE  i = n
  <2>1. i - c \in 1 .. N /\ Script[i].work = Orders[shop][i - c]
    BY <1>9, <1>13
  <2>2. Orders[shop][i - c].no = Orders[shop][n - c].no
    BY <1>11, <1>13, <2>1
  <2>3. i - c = n - c
    BY <1>2, <1>5, <1>11, <2>1, <2>2, TablesAssumption
  <2> HIDE DEF orders
  <2> QED
    BY <1>6, <2>3
<1>14. ASSUME NEW i \in 1 .. Len(Script), Script[i].by = "count orders", Script[i].shop = shop
       PROVE  i < n
  <2>1. i = c
    BY <1>3, <1>14
  <2> QED
    BY <1>6, <1>11, <2>1
<1>15. ASSUME NEW i \in 1 .. Len(Script), orders(i), ~(i <= n)
       PROVE  n + 1 \in 1 .. Len(Script) /\ orders(n + 1)
  <2>1. i - c \in 1 .. N
    BY <1>9, <1>15
  <2>2. ~(i <= n)
    BY <1>15
  <2> HIDE DEF orders
  <2>3. (n - c) + 1 \in 1 .. N /\ c + ((n - c) + 1) = n + 1 /\ n + 1 \in 1 .. Len(Script)
    BY <1>6, <1>11, <2>1, <2>2
  <2> QED
    BY <1>8, <2>3
<1>16. \E i \in 1 .. Len(Script) :
         i < n /\ Script[i].by = "profiles" /\ Script[i].shop = shop /\ Script[i].work = Script[n].work.by
  <2>1. Script[n].work.by \in ToSet(Buyers)
    BY <1>2, <1>5, <1>11, TablesAssumption
  <2>2. PICK i \in 1 .. Len(Script) :
          i < c /\ Script[i].by = "profiles" /\ Script[i].shop = shop /\ Script[i].work = Script[n].work.by
    BY <1>3, <2>1
  <2>3. i < n
    BY <1>6, <1>11, <2>2
  <2> QED
    BY <2>2, <2>3
<1>17. \E k \in DOMAIN Orders[shop] : Script[n].work = Orders[shop][k]
  BY <1>5, <1>11
<1> QED
  BY <1>1, <1>12, <1>13, <1>14, <1>15, <1>16, <1>17

LEMMA PaymentsFollow ==
  ASSUME NEW n \in 1 .. Len(Script), Script[n].by = "payments"
  PROVE  /\ n - 1 \in 1 .. Len(Script) /\ Script[n - 1].shop = Script[n].shop
         /\ Script[n - 1].by = "find orders"
<1>1. Script[n].shop \in ShopSet
  <2>1. "payments" \in PaymentKinds
    BY DEF PaymentKinds
  <2>2. SeedStep(Script[n])
    BY ScriptInTurn
  <2> QED
    BY <2>1, <2>2 DEF SeedStep
<1>2. PICK p \in Nat :
        /\ p \in 1 .. Len(Script) /\ Script[p].by = "find orders" /\ Script[p].shop = Script[n].shop
        /\ n = p + 1
  BY <1>1, PaymentsLie
<1>3. n - 1 = p
  <2>1. \A x \in Nat : (x + 1) - 1 = x
    OBVIOUS
  <2> QED
    BY <1>2, <2>1
<1> QED
  BY <1>2, <1>3

LEMMA ProfilesAre ==
  ASSUME NEW n \in 1 .. Len(Script), Script[n].by = "profiles"
  PROVE  Script[n].work \in ToSet(Accounts)
<1>1. Script[n].shop \in ShopSet
  <2>1. "profiles" \in CommerceKinds
    BY DEF CommerceKinds
  <2>2. SeedStep(Script[n])
    BY ScriptInTurn
  <2> QED
    BY <2>1, <2>2 DEF SeedStep
<1>2. Script[n].work \in ToSet(Buyers)
  BY <1>1, OrdersLie
<1> QED
  BY <1>2, TablesAssumption

LEMMA ScriptHasOrders ==
  ASSUME NEW shop \in ShopSet
  PROVE  /\ \A k \in DOMAIN Orders[shop] : \E i \in 1 .. Len(Script) :
              Script[i].by = "orders" /\ Script[i].shop = shop /\ Script[i].work = Orders[shop][k]
         /\ \E i \in 1 .. Len(Script) : Script[i].by = "payments" /\ Script[i].shop = shop
<1>1. PICK c \in 1 .. Len(Script) :
        /\ Script[c].by = "count orders" /\ Script[c].shop = shop
        /\ c + Len(Orders[shop]) <= Len(Script)
        /\ \A j \in 1 .. Len(Orders[shop]) :
             /\ Script[c + j].by = "orders" /\ Script[c + j].shop = shop
             /\ Script[c + j].work = Orders[shop][j]
        /\ \A i \in 1 .. Len(Script) :
             Script[i].by = "orders" /\ Script[i].shop = shop => i > c /\ i <= c + Len(Orders[shop])
        /\ \A i \in 1 .. Len(Script) :
             Script[i].by = "count orders" /\ Script[i].shop = shop => i = c
        /\ \A i \in 1 .. Len(Script) :
             Script[i].by = "profiles" /\ Script[i].shop = shop => Script[i].work \in ToSet(Buyers)
        /\ \A a \in ToSet(Buyers) : \E i \in 1 .. Len(Script) :
             i < c /\ Script[i].by = "profiles" /\ Script[i].shop = shop /\ Script[i].work = a
  BY OrdersLie
<1>2. PICK N \in Nat : N = Len(Orders[shop])
  BY CommerceOfIs
<1>3. DOMAIN Orders[shop] = 1 .. N
  BY <1>2, TablesAssumption, TableIs
<1>4. ASSUME NEW k \in 1 .. N
      PROVE  \E i \in 1 .. Len(Script) :
               Script[i].by = "orders" /\ Script[i].shop = shop /\ Script[i].work = Orders[shop][k]
  <2>1. Len(Script) \in Nat
    BY ScriptInTurn
  <2>2. c + N <= Len(Script) /\ c \in Nat /\ c >= 1
    BY <1>1, <1>2, PlaceIs
  <2>3. c + k \in 1 .. Len(Script)
    BY <2>1, <2>2
  <2> QED
    BY <1>1, <1>2, <2>3
<1> QED
  BY <1>3, <1>4, PaymentsLie

(***************************************************************************)
(* The invariant.  R are the rows that are there, sp the shops that are    *)
(* spoiled, n the next step, rd what was read.                             *)
(***************************************************************************)
WholeIn(R, shop) == \A i \in DOMAIN Orders[shop] : <<"order", shop, Orders[shop][i].no>> \in R

PaidIn(R, shop, rd) ==
  \A i \in DOMAIN Orders[shop] :
    <<"order", shop, Orders[shop][i].no>> \in R =>
      <<"payment", shop, Orders[shop][i].no>> \in R \/ Orders[shop][i].no \in rd

\* What a step that is over has left, as far as later ones count on it.
DoneIn(R, sp, st) ==
  /\ st.by = "users" => <<"user", st.work>> \in R
  /\ st.by = "categories" => <<"category", st.shop, st.work>> \in R
  /\ st.by = "products" => RowsOf(st.shop, st.work) \subseteq R
  /\ st.by = "attributes" => \A k \in AllSkus(st.shop) :
                               \E hue \in ToSet(Hues[st.shop]) : <<"hue", st.shop, k, hue>> \in R
  /\ st.by = "items" => <<"item", st.shop, st.work.look, st.work.product>> \in R
  /\ st.by = "storefront" => PinsOf(st.shop, DOMAIN Goods[st.shop]) \subseteq R
  /\ st.by = "inventory" => \A k \in AllSkus(st.shop) : \A w \in {"main", "regional"} :
                              <<"stock", st.shop, k, w>> \in R
  /\ st.by = "profiles" => <<"profile", st.shop, st.work>> \in R
  /\ st.by = "orders" => st.shop \in sp \/ <<"order", st.shop, st.work.no>> \in R
  /\ st.by = "payments" => PaidIn(R, st.shop, {})

Walked(R, sp, n) == \A i \in 1 .. Len(Script) : i < n => DoneIn(R, sp, Script[i])

Now(n, by) == n \in 1 .. Len(Script) /\ Script[n].by = by

\* The shop is getting its sample orders.
Selling(n, rd, shop) == Now(n, "orders") /\ Script[n].shop = shop /\ rd # {}

Ordered(R, shop) == {row \in R : row[1] = "order" /\ row[2] = shop}

\* Orders come all or, where the shop is spoiled, anyhow.
Sold(R, sp, n, rd) ==
  \A shop \in ShopSet :
    Ordered(R, shop) # {} => shop \in sp \/ WholeIn(R, shop) \/ Selling(n, rd, shop)

\* A shop that gets no orders needs none.
Reading(R, sp, n, rd) ==
  Now(n, "orders") =>
    \/ rd = {Script[n].shop}
    \/ rd = {} /\ (Script[n].shop \in sp \/ WholeIn(R, Script[n].shop))

\* While a shop gets its orders they are there up to the step.
Filling(R, n, rd) ==
  \A shop \in ShopSet : Selling(n, rd, shop) =>
    \A i \in 1 .. Len(Script) : Script[i].by = "orders" /\ Script[i].shop = shop =>
      (<<"order", shop, Script[i].work.no>> \in R <=> i < n)

Paying(R, n, rd) == Now(n, "payments") => PaidIn(R, Script[n].shop, rd)

SeedIn(R, sp, n, rd) ==
  /\ Walked(R, sp, n)
  /\ Sold(R, sp, n, rd)
  /\ Reading(R, sp, n, rd)
  /\ Filling(R, n, rd)
  /\ Paying(R, n, rd)

SeedInv ==
  /\ next \in 0 .. Len(Script) + 1
  /\ RowsAreSingle
  /\ SeedIn(DOMAIN db, spoiled, next, read)

\* None of the rows is an order.
NoOrder(new) == \A row \in new : row[1] # "order"

LEMMA OrdersStay ==
  ASSUME NEW R, NEW new, NoOrder(new)
  PROVE  /\ \A shop : Ordered(R \cup new, shop) = Ordered(R, shop)
         /\ \A shop, no : <<"order", shop, no>> \in R \cup new <=> <<"order", shop, no>> \in R
<1>1. ASSUME NEW shop PROVE Ordered(R \cup new, shop) = Ordered(R, shop)
  BY DEF Ordered, NoOrder
<1>2. ASSUME NEW shop, NEW no, <<"order", shop, no>> \in new PROVE FALSE
  <2>1. <<"order", shop, no>>[1] = "order"
    OBVIOUS
  <2> QED
    BY <1>2, <2>1 DEF NoOrder
<1> QED
  BY <1>1, <1>2

\* A step that is over stays so, unless a payment is then missing.
LEMMA DoneStays ==
  ASSUME NEW R, NEW R2, NEW sp, NEW sp2, NEW st, R \subseteq R2, sp \subseteq sp2,
         DoneIn(R, sp, st),
         st.by = "payments" =>
           \A i \in DOMAIN Orders[st.shop] :
             <<"order", st.shop, Orders[st.shop][i].no>> \in R2 =>
               <<"order", st.shop, Orders[st.shop][i].no>> \in R
  PROVE  DoneIn(R2, sp2, st)
<1>1. st.by = "payments" => PaidIn(R2, st.shop, {})
  BY DEF DoneIn, PaidIn
<1>2. st.by = "attributes" => \A k \in AllSkus(st.shop) :
        \E hue \in ToSet(Hues[st.shop]) : <<"hue", st.shop, k, hue>> \in R2
  BY DEF DoneIn
<1>3. st.by = "inventory" => \A k \in AllSkus(st.shop) : \A w \in {"main", "regional"} :
        <<"stock", st.shop, k, w>> \in R2
  BY DEF DoneIn
<1>4. st.by = "storefront" => PinsOf(st.shop, DOMAIN Goods[st.shop]) \subseteq R2
  BY DEF DoneIn
<1>5. /\ st.by = "users" => <<"user", st.work>> \in R2
      /\ st.by = "categories" => <<"category", st.shop, st.work>> \in R2
      /\ st.by = "products" => RowsOf(st.shop, st.work) \subseteq R2
      /\ st.by = "items" => <<"item", st.shop, st.work.look, st.work.product>> \in R2
      /\ st.by = "profiles" => <<"profile", st.shop, st.work>> \in R2
      /\ st.by = "orders" => st.shop \in sp2 \/ <<"order", st.shop, st.work.no>> \in R2
  BY DEF DoneIn
<1> QED
  BY <1>1, <1>2, <1>3, <1>4, <1>5 DEF DoneIn

LEMMA WholeStays ==
  ASSUME NEW R, NEW R2, R \subseteq R2, NEW shop, WholeIn(R, shop)
  PROVE  WholeIn(R2, shop)
BY DEF WholeIn

\* One more step is over.
LEMMA WalkedFurther ==
  ASSUME NEW R, NEW R2, NEW sp, NEW n \in 1 .. Len(Script), Walked(R, sp, n), R \subseteq R2,
         DoneIn(R2, sp, Script[n]),
         \A i \in 1 .. Len(Script) : i < n /\ Script[i].by = "payments" =>
           \A k \in DOMAIN Orders[Script[i].shop] :
             <<"order", Script[i].shop, Orders[Script[i].shop][k].no>> \in R2 =>
               <<"order", Script[i].shop, Orders[Script[i].shop][k].no>> \in R
  PROVE  Walked(R2, sp, n + 1)
<1>1. SUFFICES ASSUME NEW i \in 1 .. Len(Script), i < n + 1 PROVE DoneIn(R2, sp, Script[i])
  BY DEF Walked
<1>2. Len(Script) \in Nat
  BY ScriptInTurn
<1>3. CASE i = n
  BY <1>3
<1>4. CASE i # n
  <2>1. i < n
    BY <1>1, <1>2, <1>4
  <2>2. DoneIn(R, sp, Script[i])
    BY <2>1 DEF Walked
  <2> QED
    BY <2>1, <2>2, DoneStays
<1> QED
  BY <1>3, <1>4

\* What is done before the next step begins, if it is one of the orders' or payments'.
LEMMA NotAmongOrders ==
  ASSUME NEW n \in 1 .. Len(Script), Script[n].by \notin {"orders", "count orders"}
  PROVE  ~Now(n + 1, "orders")
<1>1. SUFFICES ASSUME Now(n + 1, "orders") PROVE FALSE
  OBVIOUS
<1>2. (n + 1) - 1 = n
  BY PlaceIs
<1>3. Script[(n + 1) - 1].by \in {"count orders", "orders"}
  BY <1>1, OrdersFollow DEF Now
<1> QED
  BY <1>2, <1>3

LEMMA NotAmongPayments ==
  ASSUME NEW n \in 1 .. Len(Script), Script[n].by # "find orders"
  PROVE  ~Now(n + 1, "payments")
<1>1. SUFFICES ASSUME Now(n + 1, "payments") PROVE FALSE
  OBVIOUS
<1>2. (n + 1) - 1 = n
  BY PlaceIs
<1>3. Script[(n + 1) - 1].by = "find orders"
  BY <1>1, PaymentsFollow DEF Now
<1> QED
  BY <1>2, <1>3

\* Most seeders have nothing to do with orders.
LEMMA QuietStep ==
  ASSUME NEW R, NEW sp, NEW n \in 1 .. Len(Script), NEW rd, SeedIn(R, sp, n, rd),
         NEW new, NoOrder(new), NEW rd2,
         Script[n].by \notin {"orders", "count orders", "find orders", "payments"},
         DoneIn(R \cup new, sp, Script[n])
  PROVE  SeedIn(R \cup new, sp, n + 1, rd2)
<1> DEFINE R2 == R \cup new
<1>1. /\ \A shop : Ordered(R2, shop) = Ordered(R, shop)
      /\ \A shop, no : <<"order", shop, no>> \in R2 <=> <<"order", shop, no>> \in R
  BY OrdersStay
<1>2. R \subseteq R2 /\ DoneIn(R2, sp, Script[n])
  OBVIOUS
<1> HIDE DEF R2
<1>3. ~Now(n, "orders") /\ ~Now(n + 1, "orders") /\ ~Now(n + 1, "payments")
  BY NotAmongOrders, NotAmongPayments DEF Now
<1>4. Walked(R2, sp, n + 1)
  <2>1. Walked(R, sp, n)
    BY DEF SeedIn
  <2> QED
    BY <1>1, <1>2, <2>1, WalkedFurther
<1>5. Sold(R2, sp, n + 1, rd2)
  <2>1. SUFFICES ASSUME NEW shop \in ShopSet, Ordered(R2, shop) # {}
                 PROVE  shop \in sp \/ WholeIn(R2, shop)
    BY DEF Sold
  <2>2. shop \in sp \/ WholeIn(R, shop)
    BY <1>1, <1>3, <2>1 DEF SeedIn, Sold, Selling
  <2> QED
    BY <1>2, <2>2, WholeStays
<1>6. Reading(R2, sp, n + 1, rd2) /\ Filling(R2, n + 1, rd2) /\ Paying(R2, n + 1, rd2)
  BY <1>3 DEF Reading, Filling, Paying, Selling
<1>7. SeedIn(R2, sp, n + 1, rd2)
  BY <1>4, <1>5, <1>6 DEF SeedIn
<1> QED
  BY <1>7 DEF R2

LEMMA NotBehind == \A x, y \in Nat : x < y => ~(y < x + 1)
OBVIOUS

\* A shop without orders is about to get them; one with orders gets none.
LEMMA CountStep ==
  ASSUME NEW R, NEW sp, NEW n \in 1 .. Len(Script), NEW rd, SeedIn(R, sp, n, rd),
         Script[n].by = "count orders"
  PROVE  SeedIn(R, sp, n + 1, IF Ordered(R, Script[n].shop) = {} THEN {Script[n].shop} ELSE {})
<1>1. PICK shop : shop = Script[n].shop
  OBVIOUS
<1>2. PICK rd2 : rd2 = IF Ordered(R, shop) = {} THEN {shop} ELSE {}
  OBVIOUS
<1>3. shop \in ShopSet
  <2>1. "count orders" \in CommerceKinds
    BY DEF CommerceKinds
  <2>2. SeedStep(Script[n])
    BY ScriptInTurn
  <2> QED
    BY <1>1, <2>1, <2>2 DEF SeedStep
<1>4. Len(Script) \in Nat
  BY ScriptInTurn
<1>5. ~Now(n, "orders") /\ ~Now(n + 1, "payments")
  BY NotAmongPayments DEF Now
<1>6. Walked(R, sp, n + 1)
  <2>1. Walked(R, sp, n)
    BY DEF SeedIn
  <2>2. DoneIn(R, sp, Script[n])
    BY DEF DoneIn
  <2> QED
    BY <2>1, <2>2, WalkedFurther
<1>7. \A s \in ShopSet : Ordered(R, s) # {} => s \in sp \/ WholeIn(R, s)
  BY <1>5 DEF SeedIn, Sold, Selling
<1>8. Now(n + 1, "orders") => Script[n + 1].shop = shop
  <2>1. ASSUME Now(n + 1, "orders") PROVE Script[n + 1].shop = shop
    <3>1. (n + 1) - 1 = n
      BY PlaceIs
    <3>2. Script[(n + 1) - 1].shop = Script[n + 1].shop
      BY <2>1, OrdersFollow DEF Now
    <3> QED
      BY <1>1, <3>1, <3>2
  <2> QED
    BY <2>1
<1>9. Reading(R, sp, n + 1, rd2)
  BY <1>2, <1>3, <1>7, <1>8 DEF Reading
<1>10. Filling(R, n + 1, rd2)
  <2> DEFINE row(s, i) == <<"order", s, Script[i].work.no>>
  <2>1. SUFFICES ASSUME NEW s \in ShopSet, Selling(n + 1, rd2, s),
                        NEW i \in 1 .. Len(Script), Script[i].by = "orders", Script[i].shop = s
                 PROVE  row(s, i) \notin R /\ ~(i < n + 1)
    BY DEF Filling
  <2>2. s = shop /\ rd2 # {}
    BY <1>8, <2>1 DEF Selling
  <2>3. Ordered(R, s) = {}
    BY <1>2, <2>2
  <2>4. row(s, i) \notin R
    <3>1. row(s, i)[1] = "order" /\ row(s, i)[2] = s
      OBVIOUS
    <3> HIDE DEF row
    <3> QED
      BY <2>3, <3>1 DEF Ordered
  <2>5. n < i
    BY <1>1, <2>1, <2>2, OrdersFollow, ZenonT(30)
  <2>6. n \in Nat /\ i \in Nat
    BY PlaceIs
  <2>7. ~(i < n + 1)
    <3>1. \A x, y \in Nat : x < y => ~(y < x + 1)
      BY NotBehind
    <3> QED
      BY <2>5, <2>6, <3>1, Zenon
  <2> QED
    BY <2>4, <2>7
<1>11. Sold(R, sp, n + 1, rd2) /\ Paying(R, n + 1, rd2)
  BY <1>5, <1>7 DEF Sold, Paying
<1>12. SeedIn(R, sp, n + 1, rd2)
  BY <1>6, <1>9, <1>10, <1>11 DEF SeedIn
<1> QED
  BY <1>1, <1>2, <1>12

\* No payment is made before all orders are there.
LEMMA NonePaidYet ==
  ASSUME NEW n \in 1 .. Len(Script), Script[n].by = "orders",
         NEW i \in 1 .. Len(Script), i < n
  PROVE  Script[i].by # "payments"
<1>1. SUFFICES ASSUME Script[i].by = "payments" PROVE FALSE
  OBVIOUS
<1>2. "orders" \in CommerceKinds /\ "payments" \in PaymentKinds
  BY DEF CommerceKinds, PaymentKinds
<1>3. Turn(Script[n].by) = 14 /\ Turn(Script[i].by) = 15
  BY <1>1, <1>2, Turns
<1>4. n < i
  <2>1. Turn(Script[n].by) < Turn(Script[i].by)
    BY <1>3
  <2> QED
    BY <2>1, ScriptInTurn
<1> QED
  BY <1>4, ScriptInTurn

\* The shop gets one of its orders.
LEMMA OrderStep ==
  ASSUME NEW R, NEW sp, NEW n \in 1 .. Len(Script), NEW rd, SeedIn(R, sp, n, rd),
         Script[n].by = "orders", rd # {}, NEW new, NoOrder(new)
  PROVE  /\ <<"order", Script[n].shop, Script[n].work.no>> \notin R
         /\ SeedIn(R \cup ({<<"order", Script[n].shop, Script[n].work.no>>} \cup new), sp, n + 1, rd)
<1>1. PICK shop : shop = Script[n].shop
  OBVIOUS
<1>2. PICK row : row = <<"order", shop, Script[n].work.no>>
  OBVIOUS
<1>3. row[1] = "order" /\ row[2] = shop /\ \A s, no : <<"order", s, no>> = row => s = shop /\ no = Script[n].work.no
  BY <1>2
<1> DEFINE R1 == R \cup new
           R2 == R \cup ({row} \cup new)
<1>4. R2 = R1 \cup {row}
  OBVIOUS
<1>5. /\ \A s : Ordered(R1, s) = Ordered(R, s)
      /\ \A s, no : <<"order", s, no>> \in R1 <=> <<"order", s, no>> \in R
  BY OrdersStay
<1>6. /\ \A s : s # shop => Ordered(R2, s) = Ordered(R, s)
      /\ \A s, no : <<"order", s, no>> \in R2 <=> <<"order", s, no>> \in R \/ (s = shop /\ no = Script[n].work.no)
  <2> HIDE DEF R1, R2
  <2>1. ASSUME NEW s, s # shop PROVE Ordered(R2, s) = Ordered(R1, s)
    BY <1>3, <1>4, <2>1 DEF Ordered
  <2> QED
    BY <1>2, <1>3, <1>4, <1>5, <2>1
<1>7. R \subseteq R2
  OBVIOUS
<1> HIDE DEF R1, R2
<1>8. Len(Script) \in Nat
  BY ScriptInTurn
<1>9. shop \in ShopSet
  <2>1. "orders" \in CommerceKinds
    BY DEF CommerceKinds
  <2>2. SeedStep(Script[n])
    BY ScriptInTurn
  <2> QED
    BY <1>1, <2>1, <2>2 DEF SeedStep
<1>10. Now(n, "orders") /\ Selling(n, rd, shop) /\ ~Now(n + 1, "payments")
  BY <1>1, NotAmongPayments DEF Now, Selling
<1>11. \A i \in 1 .. Len(Script) : Script[i].by = "orders" /\ Script[i].shop = shop =>
         (<<"order", shop, Script[i].work.no>> \in R <=> i < n)
  BY <1>9, <1>10 DEF SeedIn, Filling
<1>12. row \notin R
  BY <1>1, <1>2, <1>8, <1>11
<1>13. ASSUME NEW i \in 1 .. Len(Script), Script[i].by = "orders", Script[i].shop = shop
       PROVE  <<"order", shop, Script[i].work.no>> \in R2 <=> i < n + 1
  <2>1. <<"order", shop, Script[i].work.no>> \in R2 <=> i < n \/ Script[i].work.no = Script[n].work.no
    BY <1>6, <1>11, <1>13
  <2>2. Script[i].work.no = Script[n].work.no <=> i = n
    <3>1. \A j \in 1 .. Len(Script) :
            Script[j].by = "orders" /\ Script[j].shop = Script[n].shop
              /\ Script[j].work.no = Script[n].work.no => j = n
      BY OrdersFollow
    <3> QED
      BY <1>1, <1>13, <3>1
  <2> QED
    BY <1>8, <2>1, <2>2
<1>14. Walked(R2, sp, n + 1)
  <2>1. Walked(R, sp, n)
    BY DEF SeedIn
  <2>2. row \in R2
    BY <1>4
  <2>3. DoneIn(R2, sp, Script[n])
    BY <1>1, <1>2, <2>2 DEF DoneIn
  <2>4. \A i \in 1 .. Len(Script) : i < n => Script[i].by # "payments"
    BY NonePaidYet
  <2> QED
    BY <1>7, <2>1, <2>3, <2>4, WalkedFurther
<1>15. Now(n + 1, "orders") => Script[n + 1].shop = shop
  <2>1. ASSUME Now(n + 1, "orders") PROVE Script[n + 1].shop = shop
    <3>1. (n + 1) - 1 = n
      BY PlaceIs
    <3>2. Script[(n + 1) - 1].shop = Script[n + 1].shop
      BY <2>1, OrdersFollow DEF Now
    <3> QED
      BY <1>1, <3>1, <3>2
  <2> QED
    BY <2>1
<1>16. Reading(R2, sp, n + 1, rd)
  <2>1. rd = {shop}
    BY <1>1, <1>10 DEF SeedIn, Reading
  <2> QED
    BY <1>15, <2>1 DEF Reading
<1>17. Filling(R2, n + 1, rd)
  <2>1. SUFFICES ASSUME NEW s \in ShopSet, Selling(n + 1, rd, s),
                        NEW i \in 1 .. Len(Script), Script[i].by = "orders", Script[i].shop = s
                 PROVE  <<"order", s, Script[i].work.no>> \in R2 <=> i < n + 1
    BY DEF Filling
  <2>2. s = shop
    BY <1>15, <2>1 DEF Selling
  <2> QED
    BY <1>13, <2>1, <2>2
<1>18. ~Now(n + 1, "orders") => WholeIn(R2, shop)
  <2>1. SUFFICES ASSUME ~Now(n + 1, "orders"), NEW k \in DOMAIN Orders[shop]
                 PROVE  <<"order", shop, Orders[shop][k].no>> \in R2
    BY DEF WholeIn
  <2>2. PICK i \in 1 .. Len(Script) :
          Script[i].by = "orders" /\ Script[i].shop = shop /\ Script[i].work = Orders[shop][k]
    BY <1>9, ScriptHasOrders
  <2>3. i <= n
    <3>1. ~(n + 1 \in 1 .. Len(Script) /\ Script[n + 1].by = "orders"
              /\ Script[n + 1].shop = Script[n].shop)
      BY <2>1 DEF Now
    <3>2. Script[n].by = "orders" /\ Script[i].shop = Script[n].shop
      BY <1>1, <2>2
    <3> QED
      BY <2>2, <3>1, <3>2, OrdersFollow, ZenonT(30)
  <2>4. i < n + 1
    BY <1>8, <2>3
  <2> QED
    BY <1>13, <2>2, <2>4
<1>19. Sold(R2, sp, n + 1, rd)
  <2>1. SUFFICES ASSUME NEW s \in ShopSet, Ordered(R2, s) # {}
                 PROVE  s \in sp \/ WholeIn(R2, s) \/ Selling(n + 1, rd, s)
    BY DEF Sold
  <2>2. CASE s = shop
    BY <1>15, <1>18, <2>2 DEF Selling
  <2>3. CASE s # shop
    <3>1. s \in sp \/ WholeIn(R, s) \/ Selling(n, rd, s)
      BY <1>6, <2>1, <2>3 DEF SeedIn, Sold
    <3>2. ~Selling(n, rd, s)
      BY <1>1, <2>3 DEF Selling
    <3> QED
      BY <1>7, <3>1, <3>2, WholeStays
  <2> QED
    BY <2>2, <2>3
<1>20. Paying(R2, n + 1, rd)
  BY <1>10 DEF Paying
<1>21. SeedIn(R2, sp, n + 1, rd)
  BY <1>14, <1>16, <1>17, <1>19, <1>20 DEF SeedIn
<1> QED
  BY <1>1, <1>2, <1>12, <1>21 DEF R2

\* The shop needs none.
LEMMA SkipStep ==
  ASSUME NEW R, NEW sp, NEW n \in 1 .. Len(Script), SeedIn(R, sp, n, {}), Script[n].by = "orders"
  PROVE  SeedIn(R, sp, n + 1, {})
<1>1. PICK shop : shop = Script[n].shop
  OBVIOUS
<1>2. Now(n, "orders") /\ ~Now(n + 1, "payments")
  BY NotAmongPayments DEF Now
<1>3. shop \in sp \/ WholeIn(R, shop)
  BY <1>1, <1>2 DEF SeedIn, Reading
<1>4. Walked(R, sp, n + 1)
  <2>1. Walked(R, sp, n)
    BY DEF SeedIn
  <2>2. PICK k \in DOMAIN Orders[shop] : Script[n].work = Orders[shop][k]
    BY <1>1, OrdersFollow
  <2>3. WholeIn(R, shop) => <<"order", shop, Script[n].work.no>> \in R
    BY <2>2 DEF WholeIn
  <2>4. DoneIn(R, sp, Script[n])
    BY <1>1, <1>3, <2>3 DEF DoneIn
  <2> QED
    BY <2>1, <2>4, WalkedFurther
<1>5. Now(n + 1, "orders") => Script[n + 1].shop = shop
  <2>1. ASSUME Now(n + 1, "orders") PROVE Script[n + 1].shop = shop
    <3>1. (n + 1) - 1 = n
      BY PlaceIs
    <3>2. Script[(n + 1) - 1].shop = Script[n + 1].shop
      BY <2>1, OrdersFollow DEF Now
    <3> QED
      BY <1>1, <3>1, <3>2
  <2> QED
    BY <2>1
<1>6. Reading(R, sp, n + 1, {})
  BY <1>3, <1>5 DEF Reading
<1>7. Filling(R, n + 1, {}) /\ Paying(R, n + 1, {})
  BY <1>2 DEF Filling, Paying, Selling
<1>8. Sold(R, sp, n + 1, {})
  BY DEF SeedIn, Sold, Selling
<1> QED
  BY <1>4, <1>6, <1>7, <1>8 DEF SeedIn

\* What there is gets a payment next.
LEMMA FindStep ==
  ASSUME NEW R, NEW sp, NEW n \in 1 .. Len(Script), NEW rd, SeedIn(R, sp, n, rd),
         Script[n].by = "find orders"
  PROVE  SeedIn(R, sp, n + 1, {row[3] : row \in Ordered(R, Script[n].shop)})
<1>1. PICK shop : shop = Script[n].shop
  OBVIOUS
<1>2. PICK rd2 : rd2 = {row[3] : row \in Ordered(R, shop)}
  OBVIOUS
<1>3. ~Now(n, "orders") /\ ~Now(n + 1, "orders")
  BY NotAmongOrders DEF Now
<1>4. Walked(R, sp, n + 1)
  <2>1. Walked(R, sp, n)
    BY DEF SeedIn
  <2>2. DoneIn(R, sp, Script[n])
    BY DEF DoneIn
  <2> QED
    BY <2>1, <2>2, WalkedFurther
<1>5. Now(n + 1, "payments") => Script[n + 1].shop = shop
  <2>1. ASSUME Now(n + 1, "payments") PROVE Script[n + 1].shop = shop
    <3>1. (n + 1) - 1 = n
      BY PlaceIs
    <3>2. Script[(n + 1) - 1].shop = Script[n + 1].shop
      BY <2>1, PaymentsFollow DEF Now
    <3> QED
      BY <1>1, <3>1, <3>2
  <2> QED
    BY <2>1
<1>6. PaidIn(R, shop, rd2)
  <2> DEFINE row(i) == <<"order", shop, Orders[shop][i].no>>
  <2>1. SUFFICES ASSUME NEW i \in DOMAIN Orders[shop], row(i) \in R PROVE Orders[shop][i].no \in rd2
    BY DEF PaidIn
  <2>2. row(i)[1] = "order" /\ row(i)[2] = shop /\ row(i)[3] = Orders[shop][i].no
    OBVIOUS
  <2> HIDE DEF row
  <2>3. row(i) \in Ordered(R, shop)
    BY <2>1, <2>2 DEF Ordered
  <2> QED
    BY <1>2, <2>2, <2>3
<1>7. Paying(R, n + 1, rd2)
  BY <1>5, <1>6 DEF Paying
<1>8. Reading(R, sp, n + 1, rd2) /\ Filling(R, n + 1, rd2)
  BY <1>3 DEF Reading, Filling, Selling
<1>9. Sold(R, sp, n + 1, rd2)
  BY <1>3 DEF SeedIn, Sold, Selling
<1>10. SeedIn(R, sp, n + 1, rd2)
  BY <1>4, <1>7, <1>8, <1>9 DEF SeedIn
<1> QED
  BY <1>1, <1>2, <1>10

LEMMA PayStep ==
  ASSUME NEW R, NEW sp, NEW n \in 1 .. Len(Script), NEW rd, SeedIn(R, sp, n, rd),
         Script[n].by = "payments", NEW no \in rd
  PROVE  SeedIn(R \cup {<<"payment", Script[n].shop, no>>}, sp, n, rd \ {no})
<1>1. PICK shop : shop = Script[n].shop
  OBVIOUS
<1>2. PICK new : new = {<<"payment", shop, no>>}
  OBVIOUS
<1>3. NoOrder(new)
  BY <1>2 DEF NoOrder
<1> DEFINE R2 == R \cup new
           rd2 == rd \ {no}
<1>4. /\ \A s : Ordered(R2, s) = Ordered(R, s)
      /\ \A s, k : <<"order", s, k>> \in R2 <=> <<"order", s, k>> \in R
  BY <1>3, OrdersStay
<1>5. R \subseteq R2
  OBVIOUS
<1>6. Now(n, "payments") /\ ~Now(n, "orders")
  BY DEF Now
<1>7. PaidIn(R2, shop, rd2)
  <2>1. PaidIn(R, shop, rd)
    BY <1>1, <1>6 DEF SeedIn, Paying
  <2>2. <<"payment", shop, no>> \in R2
    BY <1>2
  <2>3. \A k \in rd : k = no \/ k \in rd2
    OBVIOUS
  <2> HIDE DEF R2, rd2
  <2> QED
    BY <1>4, <1>5, <2>1, <2>2, <2>3 DEF PaidIn
<1> HIDE DEF R2, rd2
<1>8. Walked(R2, sp, n)
  BY <1>4, <1>5, DoneStays DEF SeedIn, Walked
<1>9. Sold(R2, sp, n, rd2)
  <2>1. SUFFICES ASSUME NEW s \in ShopSet, Ordered(R2, s) # {} PROVE s \in sp \/ WholeIn(R2, s)
    BY DEF Sold
  <2>2. s \in sp \/ WholeIn(R, s)
    BY <1>4, <1>6, <2>1 DEF SeedIn, Sold, Selling
  <2> QED
    BY <1>5, <2>2, WholeStays
<1>10. Reading(R2, sp, n, rd2) /\ Filling(R2, n, rd2) /\ Paying(R2, n, rd2)
  BY <1>1, <1>6, <1>7 DEF Reading, Filling, Paying, Selling
<1>11. SeedIn(R2, sp, n, rd2)
  BY <1>8, <1>9, <1>10 DEF SeedIn
<1> QED
  BY <1>1, <1>2, <1>11 DEF R2, rd2

LEMMA PaidStep ==
  ASSUME NEW R, NEW sp, NEW n \in 1 .. Len(Script), SeedIn(R, sp, n, {}), Script[n].by = "payments"
  PROVE  SeedIn(R, sp, n + 1, {})
<1>1. Now(n, "payments") /\ ~Now(n, "orders") /\ ~Now(n + 1, "orders") /\ ~Now(n + 1, "payments")
  BY NotAmongOrders, NotAmongPayments DEF Now
<1>2. PaidIn(R, Script[n].shop, {})
  BY <1>1 DEF SeedIn, Paying
<1>3. Walked(R, sp, n + 1)
  <2>1. Walked(R, sp, n)
    BY DEF SeedIn
  <2>2. DoneIn(R, sp, Script[n])
    BY <1>2 DEF DoneIn
  <2> QED
    BY <2>1, <2>2, WalkedFurther
<1>4. Sold(R, sp, n + 1, {}) /\ Reading(R, sp, n + 1, {}) /\ Filling(R, n + 1, {}) /\ Paying(R, n + 1, {})
  BY <1>1 DEF SeedIn, Sold, Reading, Filling, Paying, Selling
<1> QED
  BY <1>3, <1>4 DEF SeedIn

\* The run has ended, or stopped; or one begins.
LEMMA RestStep ==
  ASSUME NEW R, NEW sp, NEW sp2, NEW n, NEW rd, SeedIn(R, sp, n, rd), sp \subseteq sp2,
         \A shop \in ShopSet : Selling(n, rd, shop) => shop \in sp2, NEW m \in {0, 1}
  PROVE  SeedIn(R, sp2, m, {})
<1>1. ~Now(m, "orders") /\ ~Now(m, "payments")
  <2>1. 0 \notin 1 .. Len(Script) /\ 1 - 1 \notin 1 .. Len(Script)
    <3>1. PICK z \in Nat : z = Len(Script)
      BY ScriptInTurn
    <3>2. 0 \notin 1 .. z /\ 1 - 1 \notin 1 .. z
      OBVIOUS
    <3> QED
      BY <3>1, <3>2
  <2>2. m = 0 \/ m = 1
    OBVIOUS
  <2> QED
    BY <2>1, <2>2, OrdersFollow, PaymentsFollow DEF Now
<1>2. Walked(R, sp2, m)
  <2>1. \A i \in 1 .. Len(Script) : ~(i < m)
    <3>1. \A i \in Nat : i >= 1 => ~(i < 0) /\ ~(i < 1)
      OBVIOUS
    <3> QED
      BY <3>1, PlaceIs
  <2> QED
    BY <2>1 DEF Walked
<1>3. Sold(R, sp2, m, {})
  BY DEF SeedIn, Sold
<1>4. Reading(R, sp2, m, {}) /\ Filling(R, m, {}) /\ Paying(R, m, {})
  BY <1>1 DEF Reading, Filling, Paying, Selling
<1> QED
  BY <1>2, <1>3, <1>4 DEF SeedIn

\* A customer's order has a number of its own.
LEMMA CustomerStep ==
  ASSUME NEW R, NEW sp, NEW n, NEW rd, SeedIn(R, sp, n, rd), NEW shop \in ShopSet, NEW sp2,
         sp \subseteq sp2, WholeIn(R, shop) \/ shop \in sp2
  PROVE  SeedIn(R \cup {<<"order", shop, "live">>}, sp2, n, rd)
<1>1. PICK row : row = <<"order", shop, "live">>
  OBVIOUS
<1>2. row[1] = "order" /\ row[2] = shop /\ \A s, no : <<"order", s, no>> = row => s = shop /\ no = "live"
  BY <1>1
<1> DEFINE R2 == R \cup {row}
<1>3. \A s : s # shop => Ordered(R2, s) = Ordered(R, s)
  BY <1>2 DEF Ordered
<1>4. \A s \in ShopSet : \A i \in DOMAIN Orders[s] :
        <<"order", s, Orders[s][i].no>> \in R2 <=> <<"order", s, Orders[s][i].no>> \in R
  <2>1. \A s \in ShopSet : \A i \in DOMAIN Orders[s] : Orders[s][i].no # "live"
    BY TablesAssumption
  <2> QED
    BY <1>2, <2>1
<1>5. R \subseteq R2
  OBVIOUS
<1> HIDE DEF R2
<1>6. \A i \in 1 .. Len(Script) : Script[i].by \in {"orders", "payments"} => Script[i].shop \in ShopSet
  <2>1. "orders" \in CommerceKinds /\ "payments" \in PaymentKinds
    BY DEF CommerceKinds, PaymentKinds
  <2> QED
    BY <2>1, ScriptInTurn DEF SeedStep
<1>7. Walked(R2, sp2, n)
  <2>1. SUFFICES ASSUME NEW i \in 1 .. Len(Script), i < n PROVE DoneIn(R2, sp2, Script[i])
    BY DEF Walked
  <2>2. DoneIn(R, sp, Script[i])
    BY <2>1 DEF SeedIn, Walked
  <2>3. Script[i].by = "payments" => Script[i].shop \in ShopSet
    BY <1>6
  <2> QED
    BY <1>4, <1>5, <2>2, <2>3, DoneStays
<1>8. Sold(R2, sp2, n, rd)
  <2>1. SUFFICES ASSUME NEW s \in ShopSet, Ordered(R2, s) # {}
                 PROVE  s \in sp2 \/ WholeIn(R2, s) \/ Selling(n, rd, s)
    BY DEF Sold
  <2>2. CASE s = shop
    BY <1>5, <2>2, WholeStays
  <2>3. CASE s # shop
    <3>1. s \in sp \/ WholeIn(R, s) \/ Selling(n, rd, s)
      BY <1>3, <2>1, <2>3 DEF SeedIn, Sold
    <3> QED
      BY <1>5, <3>1, WholeStays
  <2> QED
    BY <2>2, <2>3
<1>9. Reading(R2, sp2, n, rd)
  <2>1. Reading(R, sp, n, rd)
    BY DEF SeedIn
  <2>2. \A s : WholeIn(R, s) => WholeIn(R2, s)
    BY <1>5, WholeStays
  <2> QED
    BY <2>1, <2>2 DEF Reading
<1>10. Filling(R2, n, rd)
  <2> DEFINE order(i) == <<"order", Script[i].shop, Script[i].work.no>>
  <2>1. SUFFICES ASSUME NEW s \in ShopSet, Selling(n, rd, s),
                        NEW i \in 1 .. Len(Script), Script[i].by = "orders", Script[i].shop = s
                 PROVE  order(i) \in R2 <=> i < n
    BY DEF Filling
  <2>2. order(i) \in R <=> i < n
    BY <2>1 DEF SeedIn, Filling
  <2>3. PICK k \in DOMAIN Orders[s] : Script[i].work = Orders[s][k]
    BY <2>1, OrdersFollow
  <2>4. order(i) \in R2 <=> order(i) \in R
    BY <1>4, <2>1, <2>3
  <2> QED
    BY <2>2, <2>4
<1>11. Paying(R2, n, rd)
  <2>1. SUFFICES ASSUME Now(n, "payments") PROVE PaidIn(R2, Script[n].shop, rd)
    BY DEF Paying
  <2>2. Script[n].shop \in ShopSet
    BY <1>6, <2>1 DEF Now
  <2>3. PaidIn(R, Script[n].shop, rd)
    BY <2>1 DEF SeedIn, Paying
  <2> QED
    BY <1>4, <1>5, <2>2, <2>3 DEF PaidIn
<1>12. SeedIn(R2, sp2, n, rd)
  BY <1>7, <1>8, <1>9, <1>10, <1>11 DEF SeedIn
<1> QED
  BY <1>1, <1>12 DEF R2

-----------------------------------------------------------------------------
\* What is appended is there, and nothing twice, if nothing of it was but the log.
LEMMA AppendAdds ==
  ASSUME NEW new, Append1(new), RowsAreSingle, \A row \in new \cap DOMAIN db : row[1] = "log"
  PROVE  DOMAIN db' = DOMAIN db \cup new /\ RowsAreSingle'
<1> DEFINE more == SetToBag(new)
<1>1. db' = db (+) more
  BY DEF Append1
<1>2. DOMAIN more = new /\ \A e \in new : more[e] = 1
  BY DEF SetToBag
<1> HIDE DEF more
<1>3. db' = [e \in DOMAIN db \cup DOMAIN more |->
               (IF e \in DOMAIN db THEN db[e] ELSE 0) + (IF e \in DOMAIN more THEN more[e] ELSE 0)]
  BY <1>1 DEF (+)
<1>4. DOMAIN db' = DOMAIN db \cup new
  BY <1>2, <1>3
<1>5. ASSUME NEW e \in DOMAIN db', e[1] # "log" PROVE db'[e] = 1
  <2>1. CASE e \in DOMAIN db
    <3>1. e \notin DOMAIN more
      BY <1>2, <1>5, <2>1
    <3>2. db[e] = 1
      BY <1>5, <2>1 DEF RowsAreSingle, BagToSet
    <3>3. db'[e] = db[e] + 0
      BY <1>3, <2>1, <3>1
    <3> QED
      BY <3>2, <3>3
  <2>2. CASE e \notin DOMAIN db
    <3>1. e \in DOMAIN more /\ more[e] = 1
      BY <1>2, <1>4, <2>2
    <3>2. db'[e] = 0 + more[e]
      BY <1>3, <2>2, <3>1
    <3> QED
      BY <3>1, <3>2
  <2> QED
    BY <2>1, <2>2
<1> QED
  BY <1>4, <1>5 DEF RowsAreSingle, BagToSet

\* What is put is there.
LEMMA PutAdds ==
  ASSUME NEW new, Put(new), RowsAreSingle
  PROVE  DOMAIN db' = DOMAIN db \cup new /\ RowsAreSingle'
<1>1. PICK more : more = new \ DOMAIN db
  OBVIOUS
<1>2. Append1(more)
  BY <1>1 DEF Put, Append1, BagToSet
<1>3. DOMAIN db' = DOMAIN db \cup more /\ RowsAreSingle'
  BY <1>1, <1>2, AppendAdds
<1> QED
  BY <1>1, <1>3

\* A list has an end.
LEMMA ListFinite ==
  ASSUME NEW n \in Nat, NEW f, f = [i \in 1 .. n |-> f[i]]
  PROVE  IsFiniteSet({f[i] : i \in 1 .. n})
<1>1. IsFiniteSet(1 .. n)
  BY FS_Interval
<1>2. f \in Surjection(1 .. n, {f[i] : i \in 1 .. n})
  BY DEF Surjection
<1> QED
  BY <1>1, <1>2, FS_Surjection

LEMMA SkusAreFinite ==
  ASSUME NEW shop \in ShopSet
  PROVE  IsFiniteSet(SkusOf(shop))
<1>1. IsTable(Goods[shop]) /\ \A i \in DOMAIN Goods[shop] : IsTable(Goods[shop][i].skus)
  BY TablesAssumption
<1>2. Len(Goods[shop]) \in Nat /\ DOMAIN Goods[shop] = 1 .. Len(Goods[shop])
  BY <1>1, TableIs
<1>3. \A t : IsTable(t) => IsFiniteSet(ToSet(t))
  BY ListFinite, TableIs DEF ToSet
<1> DEFINE f == [i \in 1 .. Len(Goods[shop]) |-> ToSet(Goods[shop][i].skus)]
<1>4. f = [i \in 1 .. Len(Goods[shop]) |-> f[i]]
  OBVIOUS
<1>5. AllSkus(shop) = UNION {f[i] : i \in 1 .. Len(Goods[shop])}
  BY <1>2 DEF AllSkus
<1>6. \A i \in 1 .. Len(Goods[shop]) : IsFiniteSet(f[i])
  BY <1>1, <1>2, <1>3
<1> HIDE DEF f
<1>7. IsFiniteSet({f[i] : i \in 1 .. Len(Goods[shop])})
  BY <1>2, <1>4, ListFinite
<1>8. IsFiniteSet(AllSkus(shop))
  BY <1>5, <1>6, <1>7, FS_UNION
<1>9. SkusOf(shop) \in SUBSET AllSkus(shop)
  BY DEF SkusOf
<1> QED
  BY <1>8, <1>9, FS_Subset

\* A list of all there is has all there is.
LEMMA FoundAll ==
  ASSUME NEW S, IsFiniteSet(S), NEW found \in SetToSeqs(S)
  PROVE  \A x \in S : \E i \in DOMAIN found : found[i] = x
<1> DEFINE n == Cardinality(S)
<1>1. n \in Nat
  BY FS_CardinalityType
<1>2. found \in [1 .. n -> S] /\ \A i, j \in 1 .. n : i # j => found[i] # found[j]
  BY DEF SetToSeqs
<1> HIDE DEF n
<1>3. found \in Injection(1 .. n, S)
  BY <1>2 DEF Injection, IsInjective
<1>4. Cardinality(1 .. n) = n
  BY <1>1, FS_Interval
<1>5. found \in Surjection(1 .. n, S)
  BY <1>3, <1>4, FS_Injection DEF n
<1> QED
  BY <1>2, <1>5 DEF Surjection

\* What an earlier seeder had to do is done.
LEMMA EarlierDone ==
  ASSUME NEW R, NEW sp, NEW n \in 1 .. Len(Script), Walked(R, sp, n),
         NEW by, NEW shop, NEW w, ScriptHas(by, shop, w), Turn(by) < Turn(Script[n].by)
  PROVE  \E st : st.by = by /\ st.shop = shop /\ st.work = w /\ DoneIn(R, sp, st)
<1>1. PICK i \in 1 .. Len(Script) : Script[i].by = by /\ Script[i].shop = shop /\ Script[i].work = w
  BY DEF ScriptHas
<1>2. i < n
  BY <1>1, ScriptInTurn
<1>3. DoneIn(R, sp, Script[i])
  BY <1>2 DEF Walked
<1> QED
  BY <1>1, <1>3

\* The products of a shop are there after theirs.
LEMMA GoodsAreThere ==
  ASSUME NEW R, NEW sp, NEW n \in 1 .. Len(Script), Walked(R, sp, n),
         NEW shop \in ShopSet, Turn(Script[n].by) > 6
  PROVE  /\ \A g \in SlugsOf(shop) : <<"product", shop, g>> \in R
         /\ \A k \in AllSkus(shop) : <<"variant", shop, k>> \in R
<1>1. IsTable(Goods[shop]) /\ \A i \in DOMAIN Goods[shop] : IsTable(Goods[shop][i].skus)
  BY TablesAssumption
<1>2. ASSUME NEW i \in DOMAIN Goods[shop] PROVE RowsOf(shop, Goods[shop][i]) \subseteq R
  <2>1. PICK p : p = Goods[shop][i]
    OBVIOUS
  <2>2. ScriptHas("products", shop, p)
    BY <2>1, ScriptIsFull DEF ToSet
  <2>3. Turn("products") < Turn(Script[n].by)
    <3>1. Turn("products") = 6
      BY Turns
    <3> QED
      BY <3>1
  <2>4. PICK st : st.by = "products" /\ st.shop = shop /\ st.work = p /\ DoneIn(R, sp, st)
    BY <2>2, <2>3, EarlierDone
  <2> QED
    BY <2>1, <2>4 DEF DoneIn
<1>3. ASSUME NEW g \in SlugsOf(shop) PROVE <<"product", shop, g>> \in R
  <2>1. PICK i \in DOMAIN Goods[shop] : g = Goods[shop][i].slug
    BY DEF SlugsOf
  <2>2. <<"product", shop, g>> \in RowsOf(shop, Goods[shop][i])
    BY <2>1 DEF RowsOf
  <2> QED
    BY <1>2, <2>2
<1>4. ASSUME NEW k \in AllSkus(shop) PROVE <<"variant", shop, k>> \in R
  <2>1. PICK i \in DOMAIN Goods[shop] : k \in ToSet(Goods[shop][i].skus)
    BY DEF AllSkus
  <2>2. <<"variant", shop, k>> \in RowsOf(shop, Goods[shop][i])
    BY <2>1 DEF RowsOf
  <2> QED
    BY <1>2, <2>2
<1> QED
  BY <1>3, <1>4

LEMMA VariantsFound ==
  ASSUME NEW n \in 1 .. Len(Script), Walked(DOMAIN db, spoiled, n),
         NEW shop \in ShopSet, Turn(Script[n].by) > 6, NEW found \in SetToSeqs(SkusOf(shop))
  PROVE  \A k \in AllSkus(shop) : \E i \in DOMAIN found : found[i] = k
<1>1. \A k \in AllSkus(shop) : <<"variant", shop, k>> \in DOMAIN db
  BY GoodsAreThere
<1>2. SkusOf(shop) = AllSkus(shop)
  BY <1>1 DEF SkusOf, Has, BagIn, BagToSet
<1> QED
  BY <1>2, SkusAreFinite, FoundAll

\* One more of the seeders that have nothing to do with orders.
LEMMA SeederStep ==
  ASSUME SeedInv, next \in DOMAIN Script, Advance, NEW new, NoOrder(new),
         Script[next].by \notin {"orders", "count orders", "find orders", "payments"},
         DOMAIN db' = DOMAIN db \cup new, RowsAreSingle',
         DoneIn(DOMAIN db \cup new, spoiled, Script[next])
  PROVE  SeedInv'
<1>1. PICK n \in 1 .. Len(Script) : n = next
  BY ScriptInTurn
<1>2. next' = n + 1 /\ spoiled' = spoiled
  BY <1>1 DEF Advance
<1>3. PICK rd2 : rd2 = read'
  OBVIOUS
<1>4. SeedIn(DOMAIN db, spoiled, n, read)
  BY <1>1 DEF SeedInv
<1>5. SeedIn(DOMAIN db \cup new, spoiled, n + 1, rd2)
  BY <1>1, <1>4, QuietStep
<1>6. n + 1 \in 0 .. Len(Script) + 1
  BY PlaceIs
<1> QED
  BY <1>2, <1>3, <1>5, <1>6 DEF SeedInv

\* What a seeder puts, one step of the script on.
LEMMA SeederPuts ==
  ASSUME SeedInv, next \in DOMAIN Script, Advance, NEW new, NoOrder(new), Put(new),
         Script[next].by \notin {"orders", "count orders", "find orders", "payments"},
         DoneIn(DOMAIN db \cup new, spoiled, Script[next])
  PROVE  SeedInv'
<1>1. DOMAIN db' = DOMAIN db \cup new /\ RowsAreSingle'
  BY PutAdds DEF SeedInv
<1> QED
  BY <1>1, SeederStep

LEMMA WalkedSoFar ==
  ASSUME SeedInv
  PROVE  Walked(DOMAIN db, spoiled, next) /\ SeedIn(DOMAIN db, spoiled, next, read) /\ RowsAreSingle
BY DEF SeedInv, SeedIn

LEMMA FindTenantKeeps ==
  ASSUME SeedInv, FindTenant
  PROVE  SeedInv'
<1>1. next \in DOMAIN Script /\ Script[next].by = "find tenant" /\ Advance /\ db' = db
  BY DEF FindTenant, Doing
<1>2. PICK new : new = {}
  OBVIOUS
<1>3. NoOrder(new) /\ DOMAIN db' = DOMAIN db \cup new
  BY <1>1, <1>2 DEF NoOrder
<1>4. RowsAreSingle'
  BY <1>1, WalkedSoFar DEF RowsAreSingle
<1>5. DoneIn(DOMAIN db \cup new, spoiled, Script[next])
  BY <1>1 DEF DoneIn
<1>6. Script[next].by \notin {"orders", "count orders", "find orders", "payments"}
  BY <1>1
<1> QED
  BY <1>1, <1>3, <1>4, <1>5, <1>6, SeederStep

\* Most seeders' steps are of no kind that later ones count on.
NoMatter(by) ==
  by \notin {"users", "categories", "products", "attributes", "items", "storefront", "inventory",
             "profiles", "orders", "payments", "count orders", "find orders"}

LEMMA NoMatterKeeps ==
  ASSUME SeedInv, next \in DOMAIN Script, Advance, NEW new, NoOrder(new), Put(new),
         NoMatter(Script[next].by)
  PROVE  SeedInv'
<1>1. DoneIn(DOMAIN db \cup new, spoiled, Script[next])
  BY DEF DoneIn, NoMatter
<1>2. Script[next].by \notin {"orders", "count orders", "find orders", "payments"}
  BY DEF NoMatter
<1> QED
  BY <1>1, <1>2, SeederPuts

LEMMA SeedUsersKeeps ==
  ASSUME SeedInv, SeedUsers
  PROVE  SeedInv'
<1>1. PICK st : st = Step
  OBVIOUS
<1>2. next \in DOMAIN Script /\ st.by = "users" /\ Advance /\ st = Script[next]
  BY <1>1 DEF SeedUsers, Doing, Step
<1>3. PICK mine : mine = IF st.work = "superadmin" THEN {} ELSE {<<"profile", s, st.work>> : s \in read}
  OBVIOUS
<1>4. PICK new : new = {<<"user", st.work>>} \cup mine
  OBVIOUS
<1>5. Put(new)
  BY <1>1, <1>3, <1>4 DEF SeedUsers
<1>6. NoOrder(new)
  BY <1>3, <1>4 DEF NoOrder
<1>7. <<"user", st.work>> \in DOMAIN db \cup new
  BY <1>4
<1>8. DoneIn(DOMAIN db \cup new, spoiled, st)
  BY <1>2, <1>7 DEF DoneIn
<1>9. st.by \notin {"orders", "count orders", "find orders", "payments"}
  BY <1>2
<1> QED
  BY <1>2, <1>5, <1>6, <1>8, <1>9, SeederPuts

LEMMA SeedTenantsKeeps ==
  ASSUME SeedInv, SeedTenants
  PROVE  SeedInv'
<1>1. next \in DOMAIN Script /\ Script[next].by = "tenants" /\ Advance
  BY DEF SeedTenants, Doing
<1>2. PICK new : new = {<<"tenant", Step.work>>}
  OBVIOUS
<1>3. Put(new) /\ NoOrder(new) /\ NoMatter(Script[next].by)
  BY <1>1, <1>2 DEF SeedTenants, NoOrder, NoMatter
<1> QED
  BY <1>1, <1>3, NoMatterKeeps

LEMMA SeedSuppliersKeeps ==
  ASSUME SeedInv, SeedSuppliers
  PROVE  SeedInv'
<1>1. next \in DOMAIN Script /\ Script[next].by = "suppliers" /\ Advance
  BY DEF SeedSuppliers, Doing
<1>2. PICK new : new = {<<"supplier", Step.work>>, <<"credential", Step.work>>}
  OBVIOUS
<1>3. Put(new) /\ NoOrder(new) /\ NoMatter(Script[next].by)
  BY <1>1, <1>2 DEF SeedSuppliers, NoOrder, NoMatter
<1> QED
  BY <1>1, <1>3, NoMatterKeeps

LEMMA SeedCategoriesKeeps ==
  ASSUME SeedInv, SeedCategories
  PROVE  SeedInv'
<1>1. PICK st : st = Step
  OBVIOUS
<1>2. next \in DOMAIN Script /\ st.by = "categories" /\ Advance /\ st = Script[next]
  BY <1>1 DEF SeedCategories, Doing, Step
<1>3. PICK new : new = {<<"category", st.shop, st.work>>}
  OBVIOUS
<1>4. Put(new) /\ NoOrder(new)
  BY <1>1, <1>3 DEF SeedCategories, NoOrder
<1>5. DoneIn(DOMAIN db \cup new, spoiled, st)
  BY <1>2, <1>3 DEF DoneIn
<1>6. st.by \notin {"orders", "count orders", "find orders", "payments"}
  BY <1>2
<1> QED
  BY <1>2, <1>4, <1>5, <1>6, SeederPuts

LEMMA SeedImportedProductsKeeps ==
  ASSUME SeedInv, SeedImportedProducts
  PROVE  SeedInv'
<1>1. PICK st : st = Step
  OBVIOUS
<1>2. next \in DOMAIN Script /\ st.by = "products" /\ Advance /\ st = Script[next]
  BY <1>1 DEF SeedImportedProducts, Doing, Step
<1>3. PICK n \in 1 .. Len(Script) : n = next /\ Walked(DOMAIN db, spoiled, n)
  BY <1>2, ScriptInTurn, WalkedSoFar
<1>4. PICK shop : shop = st.shop
  OBVIOUS
<1>5. shop \in ShopSet /\ st.work \in ToSet(Goods[shop])
  BY <1>2, <1>4, ScriptInTurn DEF SeedStep
<1>6. <<"category", shop, st.work.category>> \in DOMAIN db
  <2>1. st.work.category \in ToSet(TopCategories[shop])
    BY <1>5, TablesAssumption DEF ToSet
  <2>2. ScriptHas("categories", shop, st.work.category)
    BY <1>5, <2>1, ScriptIsFull
  <2>3. Turn("categories") < Turn(Script[n].by)
    <3>1. Turn("categories") = 4 /\ Turn("products") = 6
      BY Turns
    <3> QED
      BY <1>2, <1>3, <3>1
  <2>4. PICK c : c.by = "categories" /\ c.shop = shop /\ c.work = st.work.category
                   /\ DoneIn(DOMAIN db, spoiled, c)
    BY <1>3, <2>2, <2>3, EarlierDone
  <2> QED
    BY <2>4 DEF DoneIn
<1>7. PICK new : new = RowsOf(shop, st.work)
  OBVIOUS
<1>8. Put(new)
  BY <1>1, <1>4, <1>6, <1>7 DEF SeedImportedProducts, Has, BagIn, BagToSet
<1>9. NoOrder(new)
  <2>1. ASSUME NEW kinds, "order" \notin kinds, NEW S, NEW row \in kinds \X {shop} \X S
        PROVE  row[1] # "order"
    BY <2>1
  <2>2. PICK k1 : k1 = {"product", "primary picture", "supplier product", "supplier picture"}
    OBVIOUS
  <2>3. PICK k2 : k2 = {"variant", "supplier variant", "variant picture"}
    OBVIOUS
  <2>4. "order" \notin k1 /\ "order" \notin k2
    BY <2>2, <2>3
  <2>5. new = (k1 \X {shop} \X {st.work.slug}) \cup (k2 \X {shop} \X ToSet(st.work.skus))
    BY <1>7, <2>2, <2>3, Zenon DEF RowsOf
  <2> QED
    BY <2>1, <2>4, <2>5 DEF NoOrder
<1>10. DoneIn(DOMAIN db \cup new, spoiled, st)
  BY <1>2, <1>4, <1>7 DEF DoneIn
<1>11. st.by \notin {"orders", "count orders", "find orders", "payments"}
  BY <1>2
<1> QED
  BY <1>2, <1>8, <1>9, <1>10, <1>11, SeederPuts

LEMMA SeedSyncLogKeeps ==
  ASSUME SeedInv, SeedSyncLog
  PROVE  SeedInv'
<1>1. next \in DOMAIN Script /\ Script[next].by = "log" /\ Advance
  BY DEF SeedSyncLog, Doing
<1>2. PICK imported : imported = {s \in ShopSet : \E p \in ToSet(Goods[s]) : Has(<<"category", s, p.category>>)}
  OBVIOUS
<1>3. PICK stats : stats = {row \in {"stats"} \X imported : ~Has(row)}
  OBVIOUS
<1>4. PICK log : log = <<"log", Head(SupplierPartners)>>
  OBVIOUS
<1>5. PICK new : new = {log} \cup stats
  OBVIOUS
<1>6. Append1(new)
  BY <1>2, <1>3, <1>4, <1>5, Zenon DEF SeedSyncLog
<1>7. log[1] = "log" /\ \A row \in stats : row[1] = "stats" /\ row \notin DOMAIN db
  BY <1>3, <1>4 DEF Has, BagIn, BagToSet
<1>8. NoOrder(new) /\ \A row \in new \cap DOMAIN db : row[1] = "log"
  BY <1>5, <1>7 DEF NoOrder
<1>9. DOMAIN db' = DOMAIN db \cup new /\ RowsAreSingle'
  BY <1>6, <1>8, WalkedSoFar, AppendAdds
<1>10. DoneIn(DOMAIN db \cup new, spoiled, Script[next])
  BY <1>1 DEF DoneIn
<1>11. Script[next].by \notin {"orders", "count orders", "find orders", "payments"}
  BY <1>1
<1> QED
  BY <1>1, <1>8, <1>9, <1>10, <1>11, SeederStep

LEMMA SeedAttributesKeeps ==
  ASSUME SeedInv, SeedAttributes
  PROVE  SeedInv'
<1>1. PICK st : st = Step
  OBVIOUS
<1>2. next \in DOMAIN Script /\ st.by = "attributes" /\ Advance /\ st = Script[next]
  BY <1>1 DEF SeedAttributes, Doing, Step
<1>3. PICK n \in 1 .. Len(Script) : n = next /\ Walked(DOMAIN db, spoiled, n)
  BY <1>2, ScriptInTurn, WalkedSoFar
<1>4. PICK shop : shop = st.shop
  OBVIOUS
<1>5. shop \in ShopSet
  BY <1>2, <1>4, ScriptInTurn DEF SeedStep
<1>6. PICK hues : hues = Hues[shop]
  OBVIOUS
<1> DEFINE RowsIn(s, h, f) == {<<"hue", s, f[i], h[((i - 1) % Len(h)) + 1]>> : i \in DOMAIN f}
           AllIn(s, h, f) == RowsIn(s, h, f) \cup {<<"attribute", s>>}
           Rows(found) == RowsIn(shop, hues, found)
           All(found) == AllIn(shop, hues, found)
<1>7. PICK found \in SetToSeqs(SkusOf(shop)) : Put(All(found))
  <2>1. \E found \in SetToSeqs(SkusOf(Step.shop)) : Put(AllIn(Step.shop, Hues[Step.shop], found))
    BY Zenon DEF SeedAttributes
  <2> HIDE DEF AllIn
  <2> QED
    BY <1>1, <1>4, <1>6, <2>1
<1>8. NoOrder(All(found))
  BY DEF NoOrder
<1>9. \A i \in DOMAIN found : hues[((i - 1) % Len(hues)) + 1] \in ToSet(hues)
  <2>1. PICK z \in Nat : z = Len(hues) /\ DOMAIN hues = 1 .. z
    BY <1>5, <1>6, TablesAssumption, TableIs
  <2>2. z # 0
    <3>1. hues \in Seq(ToSet(hues)) /\ hues # <<>>
      BY <1>5, <1>6, TablesAssumption DEF IsTable
    <3> QED
      BY <2>1, <3>1
  <2>3. DOMAIN found \in SUBSET Nat
    BY DEF SetToSeqs
  <2>4. \A i \in Nat : ((i - 1) % z) + 1 \in 1 .. z
    BY <2>1, <2>2
  <2> QED
    BY <2>1, <2>3, <2>4 DEF ToSet
<1>10. \A k \in AllSkus(shop) : \E i \in DOMAIN found : found[i] = k
  <2>1. Turn(Script[n].by) > 6
    <3>1. Turn("attributes") = 7
      BY Turns
    <3> QED
      BY <1>2, <1>3, <3>1
  <2> QED
    BY <1>3, <1>5, <2>1, VariantsFound
<1>11. ASSUME NEW k \in AllSkus(shop)
       PROVE  \E hue \in ToSet(hues) : <<"hue", shop, k, hue>> \in DOMAIN db \cup All(found)
  <2>1. PICK i \in DOMAIN found : found[i] = k
    BY <1>10
  <2>2. PICK hue \in ToSet(hues) : hue = hues[((i - 1) % Len(hues)) + 1]
    BY <1>9
  <2>3. <<"hue", shop, k, hue>> \in Rows(found)
    BY <2>1, <2>2
  <2> QED
    BY <2>3
<1> HIDE DEF All
<1>12. DoneIn(DOMAIN db \cup All(found), spoiled, st)
  BY <1>2, <1>4, <1>6, <1>11 DEF DoneIn
<1>13. st.by \notin {"orders", "count orders", "find orders", "payments"}
  BY <1>2
<1> QED
  BY <1>2, <1>7, <1>8, <1>12, <1>13, SeederPuts

LEMMA SeedInventoryKeeps ==
  ASSUME SeedInv, SeedInventory
  PROVE  SeedInv'
<1>1. PICK st : st = Step
  OBVIOUS
<1>2. next \in DOMAIN Script /\ st.by = "inventory" /\ Advance /\ st = Script[next]
  BY <1>1 DEF SeedInventory, Doing, Step
<1>3. PICK n \in 1 .. Len(Script) : n = next /\ Walked(DOMAIN db, spoiled, n)
  BY <1>2, ScriptInTurn, WalkedSoFar
<1>4. PICK shop : shop = st.shop
  OBVIOUS
<1>5. shop \in ShopSet
  BY <1>2, <1>4, ScriptInTurn DEF SeedStep
<1>6. PICK found \in SetToSeqs(SkusOf(shop)) : Put(StockRows(shop, found))
  BY <1>1, <1>4 DEF SeedInventory
<1>7. NoOrder(StockRows(shop, found))
  BY DEF NoOrder, StockRows
<1>8. \A k \in AllSkus(shop) : \E i \in DOMAIN found : found[i] = k
  <2>1. Turn(Script[n].by) > 6
    <3>1. Turn("inventory") = 12
      BY Turns
    <3> QED
      BY <1>2, <1>3, <3>1
  <2> QED
    BY <1>3, <1>5, <2>1, VariantsFound
<1>9. ASSUME NEW k \in AllSkus(shop), NEW w \in {"main", "regional"}
      PROVE  <<"stock", shop, k, w>> \in DOMAIN db \cup StockRows(shop, found)
  <2>1. PICK i \in DOMAIN found : found[i] = k
    BY <1>8
  <2>2. k \in ToSet(found)
    BY <2>1 DEF ToSet
  <2>3. <<"stock", shop, k, w>> \in {"stock"} \X {shop} \X ToSet(found) \X {"main", "regional"}
    BY <2>2
  <2> QED
    BY <2>3 DEF StockRows
<1>10. DoneIn(DOMAIN db \cup StockRows(shop, found), spoiled, st)
  BY <1>2, <1>4, <1>9 DEF DoneIn
<1>11. st.by \notin {"orders", "count orders", "find orders", "payments"}
  BY <1>2
<1> QED
  BY <1>2, <1>6, <1>7, <1>10, <1>11, SeederPuts

LEMMA SeedCollectionItemsKeeps ==
  ASSUME SeedInv, SeedCollectionItems
  PROVE  SeedInv'
<1>1. PICK st : st = Step
  OBVIOUS
<1>2. next \in DOMAIN Script /\ st.by = "items" /\ Advance /\ st = Script[next]
  BY <1>1 DEF SeedCollectionItems, Doing, Step
<1>3. PICK n \in 1 .. Len(Script) : n = next /\ Walked(DOMAIN db, spoiled, n)
  BY <1>2, ScriptInTurn, WalkedSoFar
<1>4. PICK shop : shop = st.shop
  OBVIOUS
<1>5. shop \in ShopSet /\ st.work.product \in SlugsOf(shop)
  <2>1. /\ shop \in ShopSet
        /\ \E i \in DOMAIN Outfits[shop] : \E j \in DOMAIN Outfits[shop][i].items :
             st.work = [look |-> Outfits[shop][i].slug, product |-> Outfits[shop][i].items[j]]
    BY <1>2, <1>4, ScriptInTurn DEF SeedStep
  <2>2. PICK i \in DOMAIN Outfits[shop] : \E j \in DOMAIN Outfits[shop][i].items :
             st.work = [look |-> Outfits[shop][i].slug, product |-> Outfits[shop][i].items[j]]
    BY <2>1
  <2>3. PICK j \in DOMAIN Outfits[shop][i].items :
             st.work = [look |-> Outfits[shop][i].slug, product |-> Outfits[shop][i].items[j]]
    BY <2>2
  <2>4. st.work.product \in ToSet(Outfits[shop][i].items)
    BY <2>3 DEF ToSet
  <2> QED
    BY <2>1, <2>2, <2>4, TablesAssumption
<1>6. PICK g : g = st.work.product
  OBVIOUS
<1>7. <<"product", shop, g>> \in DOMAIN db
  <2>1. Turn(Script[n].by) > 6
    <3>1. Turn("items") = 9
      BY Turns
    <3> QED
      BY <1>2, <1>3, <3>1
  <2> QED
    BY <1>3, <1>5, <1>6, <2>1, GoodsAreThere
<1>8. PICK new : new = {<<"item", shop, st.work.look, h>> : h \in {k \in {g} : Has(<<"product", shop, k>>)}}
  OBVIOUS
<1>9. Put(new)
  BY <1>1, <1>4, <1>6, <1>8 DEF SeedCollectionItems
<1>10. NoOrder(new)
  <2>1. ASSUME NEW row \in new PROVE row[1] # "order"
    <3>1. PICK h : row = <<"item", shop, st.work.look, h>>
      BY <1>8
    <3> QED
      BY <3>1
  <2> QED
    BY <2>1 DEF NoOrder
<1>11. <<"item", shop, st.work.look, g>> \in new
  BY <1>7, <1>8 DEF Has, BagIn, BagToSet
<1>12. DoneIn(DOMAIN db \cup new, spoiled, st)
  BY <1>2, <1>4, <1>6, <1>11 DEF DoneIn
<1>13. st.by \notin {"orders", "count orders", "find orders", "payments"}
  BY <1>2
<1> QED
  BY <1>2, <1>9, <1>10, <1>12, <1>13, SeederPuts

LEMMA SeedStorefrontKeeps ==
  ASSUME SeedInv, SeedStorefront
  PROVE  SeedInv'
<1>1. PICK st : st = Step
  OBVIOUS
<1>2. next \in DOMAIN Script /\ st.by = "storefront" /\ Advance /\ st = Script[next]
  BY <1>1 DEF SeedStorefront, Doing, Step
<1>3. PICK n \in 1 .. Len(Script) : n = next /\ Walked(DOMAIN db, spoiled, n)
  BY <1>2, ScriptInTurn, WalkedSoFar
<1>4. PICK shop : shop = st.shop
  OBVIOUS
<1>5. shop \in ShopSet
  BY <1>2, <1>4, ScriptInTurn DEF SeedStep
<1>6. PICK roots : roots = {c \in ToSet(TopCategories[shop]) : Has(<<"category", shop, c>>)}
  OBVIOUS
<1>7. PICK found : found = {i \in DOMAIN Goods[shop] : Has(<<"product", shop, Goods[shop][i].slug>>)}
  OBVIOUS
<1> DEFINE Roots(s) == {c \in ToSet(TopCategories[s]) : Has(<<"category", s, c>>)}
           Found(s) == {i \in DOMAIN Goods[s] : Has(<<"product", s, Goods[s][i].slug>>)}
           Draws(s) == IF Roots(s) = {} \/ Found(s) = {} THEN {{}}
                         ELSE {PagesOf(s, c) \cup PinsOf(s, Found(s)) : c \in Roots(s)}
<1>8. PICK batch \in Draws(shop) : Put(batch)
  <2>1. \E batch \in Draws(Step.shop) : Put(batch)
    BY Zenon DEF SeedStorefront
  <2> HIDE DEF Draws
  <2> QED
    BY <1>1, <1>4, <2>1
<1>9. PICK pins : pins = PinsOf(shop, found)
  OBVIOUS
<1>10. batch \in IF roots = {} \/ found = {} THEN {{}} ELSE {PagesOf(shop, c) \cup pins : c \in roots}
  BY <1>6, <1>7, <1>8, <1>9, Zenon
<1> HIDE DEF Draws
<1>11. Turn(Script[n].by) = 10
  <2>1. Turn("storefront") = 10
    BY Turns
  <2> QED
    BY <1>2, <1>3, <2>1
<1>12. found = DOMAIN Goods[shop]
  <2>1. Turn(Script[n].by) > 6
    BY <1>11
  <2>2. \A g \in SlugsOf(shop) : <<"product", shop, g>> \in DOMAIN db
    BY <1>3, <1>5, <2>1, GoodsAreThere
  <2> QED
    BY <1>7, <2>2 DEF Has, BagIn, BagToSet, SlugsOf
<1>13. found # {} => roots # {}
  <2>1. SUFFICES ASSUME found # {} PROVE roots # {}
    OBVIOUS
  <2>2. PICK i \in DOMAIN Goods[shop] : TRUE
    BY <1>12, <2>1
  <2>3. PICK c \in ToSet(TopCategories[shop]) : c = Goods[shop][i].category
    BY <1>5, TablesAssumption
  <2>4. ScriptHas("categories", shop, c)
    BY <1>5, ScriptIsFull
  <2>5. Turn("categories") < Turn(Script[n].by)
    <3>1. Turn("categories") = 4
      BY Turns
    <3> QED
      BY <1>11, <3>1
  <2>6. PICK ct : ct.by = "categories" /\ ct.shop = shop /\ ct.work = c /\ DoneIn(DOMAIN db, spoiled, ct)
    BY <1>3, <2>4, <2>5, EarlierDone
  <2>7. <<"category", shop, c>> \in DOMAIN db
    BY <2>6 DEF DoneIn
  <2> QED
    BY <1>6, <2>7 DEF Has, BagIn, BagToSet
<1>14. NoOrder(batch)
  <2>1. NoOrder(pins)
    <3>1. ASSUME NEW kind, kind # "order", NEW S, NEW row \in {kind} \X {shop} \X S
          PROVE  row[1] # "order"
      BY <3>1
    <3>2. PICK pick, feature : pick = "pick" /\ feature = "feature"
      OBVIOUS
    <3>3. PICK S, T : pins = ({pick} \X {shop} \X S) \cup ({feature} \X {shop} \X T)
      BY <1>9, <3>2, Zenon DEF PinsOf
    <3> QED
      BY <3>1, <3>2, <3>3 DEF NoOrder
  <2>2. \A c : NoOrder(PagesOf(shop, c))
    BY DEF NoOrder, PagesOf
  <2> QED
    BY <1>10, <2>1, <2>2 DEF NoOrder
<1>15. pins \subseteq batch
  <2>1. CASE found = {}
    <3>1. \A limit, S : S \subseteq found => Oldest(shop, S, limit) = {}
      BY <2>1 DEF Oldest
    <3>2. pins = {}
      BY <1>9, <3>1 DEF PinsOf
    <3> QED
      BY <3>2
  <2>2. CASE found # {}
    BY <1>10, <1>13, <2>2
  <2> QED
    BY <2>1, <2>2
<1>16. DoneIn(DOMAIN db \cup batch, spoiled, st)
  BY <1>2, <1>4, <1>9, <1>12, <1>15 DEF DoneIn
<1>17. st.by \notin {"orders", "count orders", "find orders", "payments"}
  BY <1>2
<1> QED
  BY <1>2, <1>8, <1>14, <1>16, <1>17, SeederPuts

LEMMA KindsDiffer == "size entry" # "order" /\ "cms page" # "order" /\ "cms sections" # "order"
BY Zenon

LEMMA SeedSizeGuidesKeeps ==
  ASSUME SeedInv, SeedSizeGuides
  PROVE  SeedInv'
<1>1. next \in DOMAIN Script /\ Script[next].by = "guides" /\ Advance
  BY DEF SeedSizeGuides, Doing
<1>2. PICK mine : mine = {<<"size entry", Step.shop, k>> : k \in SkusOf(Step.shop) \cap {Step.work.sku}}
  OBVIOUS
<1>3. PICK guide : guide = <<"guide", Step.shop, Step.work.product>>
  OBVIOUS
<1>4. PICK new : new = IF Has(<<"product", Step.shop, Step.work.product>>) THEN {guide} \cup mine ELSE {}
  OBVIOUS
<1>5. Put(new)
  BY <1>2, <1>3, <1>4, Zenon DEF SeedSizeGuides
<1>6. NoOrder({guide}) /\ NoOrder(mine)
  <2>1. NoOrder({guide})
    BY <1>3 DEF NoOrder
  <2>2. PICK kind : kind = "size entry"
    OBVIOUS
  <2>3. /\ kind # "order"
        /\ mine = {<<kind, Step.shop, k>> : k \in SkusOf(Step.shop) \cap {Step.work.sku}}
    BY <1>2, <2>2, KindsDiffer, Zenon
  <2>4. NoOrder(mine)
    BY <2>3 DEF NoOrder
  <2> QED
    BY <2>1, <2>4
<1>7. NoOrder(new)
  BY <1>4, <1>6 DEF NoOrder
<1>8. NoMatter(Script[next].by)
  BY <1>1 DEF NoMatter
<1> QED
  BY <1>1, <1>5, <1>7, <1>8, NoMatterKeeps

LEMMA SeedCollectionsKeeps ==
  ASSUME SeedInv, SeedCollections
  PROVE  SeedInv'
<1>1. next \in DOMAIN Script /\ Script[next].by = "collections" /\ Advance
  BY DEF SeedCollections, Doing
<1>2. PICK new : new = {<<"collection", Step.shop, Step.work.slug>>}
  OBVIOUS
<1>3. Put(new) /\ NoOrder(new) /\ NoMatter(Script[next].by)
  BY <1>1, <1>2 DEF SeedCollections, NoOrder, NoMatter
<1> QED
  BY <1>1, <1>3, NoMatterKeeps

LEMMA SeedPromotionsKeeps ==
  ASSUME SeedInv, SeedPromotions
  PROVE  SeedInv'
<1>1. next \in DOMAIN Script /\ Script[next].by = "promotions" /\ Advance
  BY DEF SeedPromotions, Doing
<1>2. PICK new : new = {<<"promotion", Step.shop, Step.work>>}
  OBVIOUS
<1>3. Put(new) /\ NoOrder(new) /\ NoMatter(Script[next].by)
  BY <1>1, <1>2 DEF SeedPromotions, NoOrder, NoMatter
<1> QED
  BY <1>1, <1>3, NoMatterKeeps

LEMMA SeedCMSKeeps ==
  ASSUME SeedInv, SeedCMS
  PROVE  SeedInv'
<1>1. next \in DOMAIN Script /\ Script[next].by = "pages" /\ Advance
  BY DEF SeedCMS, Doing
<1>2. PICK both : both = {<<"cms page", Step.shop, Step.work>>, <<"cms sections", Step.shop, Step.work>>}
  OBVIOUS
<1>3. PICK rest : rest = IF Step.work = Last(ContentPages) THEN BannersAndQuestions(Step.shop) ELSE {}
  OBVIOUS
<1>4. PICK new : new = both \cup rest
  OBVIOUS
<1>5. Put(new)
  BY <1>2, <1>3, <1>4, Zenon DEF SeedCMS
<1>6. NoOrder(both) /\ NoOrder(BannersAndQuestions(Step.shop))
  <2>1. NoOrder(BannersAndQuestions(Step.shop))
    BY DEF NoOrder, BannersAndQuestions
  <2>2. PICK k1, k2 : k1 = "cms page" /\ k2 = "cms sections"
    OBVIOUS
  <2>3. /\ k1 # "order" /\ k2 # "order"
        /\ both = {<<k1, Step.shop, Step.work>>, <<k2, Step.shop, Step.work>>}
    BY <1>2, <2>2, KindsDiffer, Zenon
  <2>4. NoOrder(both)
    BY <2>3 DEF NoOrder
  <2> QED
    BY <2>1, <2>4
<1>7. NoOrder(new)
  BY <1>3, <1>4, <1>6 DEF NoOrder
<1>8. NoMatter(Script[next].by)
  BY <1>1 DEF NoMatter
<1> QED
  BY <1>1, <1>5, <1>7, <1>8, NoMatterKeeps

LEMMA SeedProfilesKeeps ==
  ASSUME SeedInv, SeedProfiles
  PROVE  SeedInv'
<1>1. PICK st : st = Step
  OBVIOUS
<1>2. next \in DOMAIN Script /\ st.by = "profiles" /\ Advance /\ st = Script[next]
  BY <1>1 DEF SeedProfiles, Doing, Step
<1>3. PICK n \in 1 .. Len(Script) : n = next /\ Walked(DOMAIN db, spoiled, n)
  BY <1>2, ScriptInTurn, WalkedSoFar
<1>4. <<"user", st.work>> \in DOMAIN db
  <2>1. st.work \in ToSet(Accounts)
    BY <1>2, <1>3, ProfilesAre
  <2>2. ScriptHas("users", "", st.work)
    BY <2>1, ScriptIsFull
  <2>3. Turn("users") < Turn(Script[n].by)
    <3>1. "profiles" \in CommerceKinds
      BY DEF CommerceKinds
    <3>2. Turn("users") = 2 /\ Turn("profiles") = 14
      BY <3>1, Turns
    <3> QED
      BY <1>2, <1>3, <3>2
  <2>4. PICK none : none = ""
    OBVIOUS
  <2>5. ScriptHas("users", none, st.work)
    BY <2>2, <2>4, Zenon
  <2>6. PICK a : a.by = "users" /\ a.shop = none /\ a.work = st.work /\ DoneIn(DOMAIN db, spoiled, a)
    BY <1>3, <2>3, <2>5, EarlierDone
  <2> QED
    BY <2>6 DEF DoneIn
<1>5. PICK new : new = {<<"profile", st.shop, b>> : b \in {c \in {st.work} : Has(<<"user", c>>)}}
  OBVIOUS
<1>6. Put(new)
  BY <1>1, <1>5 DEF SeedProfiles
<1>7. NoOrder(new)
  <2>1. ASSUME NEW row \in new PROVE row[1] # "order"
    <3>1. PICK b : row = <<"profile", st.shop, b>>
      BY <1>5
    <3> QED
      BY <3>1
  <2> QED
    BY <2>1 DEF NoOrder
<1>8. <<"profile", st.shop, st.work>> \in new
  BY <1>4, <1>5 DEF Has, BagIn, BagToSet
<1>9. DoneIn(DOMAIN db \cup new, spoiled, st)
  BY <1>2, <1>8 DEF DoneIn
<1>10. st.by \notin {"orders", "count orders", "find orders", "payments"}
  BY <1>2
<1> QED
  BY <1>2, <1>6, <1>7, <1>9, <1>10, SeederPuts

LEMMA SeedReviewsKeeps ==
  ASSUME SeedInv, SeedReviews
  PROVE  SeedInv'
<1>1. next \in DOMAIN Script /\ Script[next].by = "reviews" /\ Advance
  BY DEF SeedReviews, Doing
<1>2. PICK review : review = <<"review", Step.shop, Step.work.by, Step.work.product>>
  OBVIOUS
<1>3. PICK new \in {{review}, {}} : Put(new)
  BY <1>2, Zenon DEF SeedReviews
<1>4. NoOrder(new)
  BY <1>2, <1>3 DEF NoOrder
<1>5. NoMatter(Script[next].by)
  BY <1>1 DEF NoMatter
<1> QED
  BY <1>1, <1>3, <1>4, <1>5, NoMatterKeeps

LEMMA SeedWishlistsKeeps ==
  ASSUME SeedInv, SeedWishlists
  PROVE  SeedInv'
<1>1. next \in DOMAIN Script /\ Script[next].by = "wishlists" /\ Advance
  BY DEF SeedWishlists, Doing
<1>2. PICK wishes : wishes = {<<"wish", Step.shop, Step.work.by, k>> : k \in Step.work.skus \cap SkusOf(Step.shop)}
  OBVIOUS
<1>3. PICK new \in {wishes, {}} : Put(new)
  BY <1>2, Zenon DEF SeedWishlists
<1>4. NoOrder(wishes) /\ NoOrder({})
  BY <1>2 DEF NoOrder
<1>5. NoOrder(new)
  BY <1>3, <1>4
<1>6. NoMatter(Script[next].by)
  BY <1>1 DEF NoMatter
<1> QED
  BY <1>1, <1>3, <1>5, <1>6, NoMatterKeeps

LEMMA SeedCouponsKeeps ==
  ASSUME SeedInv, SeedCoupons
  PROVE  SeedInv'
<1>1. next \in DOMAIN Script /\ Script[next].by = "coupons" /\ Advance
  BY DEF SeedCoupons, Doing
<1>2. PICK new : new = {<<"coupon", Step.shop, Step.work>>}
  OBVIOUS
<1>3. Put(new) /\ NoOrder(new) /\ NoMatter(Script[next].by)
  BY <1>1, <1>2 DEF SeedCoupons, NoOrder, NoMatter
<1> QED
  BY <1>1, <1>3, NoMatterKeeps

LEMMA OrdersAre == \A shop : OrdersOf(shop) = Ordered(DOMAIN db, shop)
BY DEF OrdersOf, Ordered, BagToSet

LEMMA CountOrdersKeeps ==
  ASSUME SeedInv, CountOrders
  PROVE  SeedInv'
<1>1. PICK n \in 1 .. Len(Script) : n = next /\ Script[n].by = "count orders"
  BY ScriptInTurn DEF CountOrders, Doing
<1>2. next' = n + 1 /\ spoiled' = spoiled /\ db' = db
  BY <1>1 DEF CountOrders, Advance
<1>3. PICK R, sp, rd, rd2 : R = DOMAIN db /\ sp = spoiled /\ rd = read /\ rd2 = read'
  OBVIOUS
<1>4. rd2 = IF Ordered(R, Script[n].shop) = {} THEN {Script[n].shop} ELSE {}
  BY <1>1, <1>3, OrdersAre DEF CountOrders, Step
<1>5. SeedIn(R, sp, n, rd)
  BY <1>1, <1>3 DEF SeedInv
<1>6. SeedIn(R, sp, n + 1, rd2)
  BY <1>1, <1>4, <1>5, CountStep
<1>7. n + 1 \in 0 .. Len(Script) + 1 /\ RowsAreSingle'
  BY <1>2, PlaceIs, WalkedSoFar DEF RowsAreSingle
<1> QED
  BY <1>2, <1>3, <1>6, <1>7 DEF SeedInv

LEMMA SeedOrdersKeeps ==
  ASSUME SeedInv, SeedOrders
  PROVE  SeedInv'
<1>1. PICK n \in 1 .. Len(Script) : n = next /\ Script[n].by = "orders"
  BY ScriptInTurn DEF SeedOrders, Doing
<1>2. next' = n + 1 /\ spoiled' = spoiled /\ read' = read
  BY <1>1 DEF SeedOrders, Advance
<1>3. PICK R, sp, rd : R = DOMAIN db /\ sp = spoiled /\ rd = read
  OBVIOUS
<1>4. SeedIn(R, sp, n, rd) /\ RowsAreSingle
  BY <1>1, <1>3 DEF SeedInv
<1>5. n + 1 \in 0 .. Len(Script) + 1
  BY PlaceIs
<1>6. PICK shop, work : shop = Script[n].shop /\ work = Script[n].work
  OBVIOUS
<1>7. CASE rd = {}
  <2>1. db' = db
    BY <1>3, <1>7 DEF SeedOrders
  <2>2. SeedIn(R, sp, n + 1, rd)
    BY <1>1, <1>4, <1>7, SkipStep
  <2> QED
    BY <1>2, <1>3, <1>4, <1>5, <2>1, <2>2 DEF SeedInv, RowsAreSingle
<1>8. CASE rd # {}
  <2>1. Walked(R, sp, n)
    BY <1>4 DEF SeedIn
  <2>2. shop \in ShopSet
    <3>1. "orders" \in CommerceKinds
      BY DEF CommerceKinds
    <3>2. SeedStep(Script[n])
      BY ScriptInTurn
    <3> QED
      BY <1>1, <1>6, <3>1, <3>2 DEF SeedStep
  <2>3. <<"profile", shop, work.by>> \in R
    <3>1. PICK i \in 1 .. Len(Script) :
            i < n /\ Script[i].by = "profiles" /\ Script[i].shop = shop /\ Script[i].work = work.by
      BY <1>1, <1>6, OrdersFollow
    <3>2. DoneIn(R, sp, Script[i])
      BY <2>1, <3>1 DEF Walked
    <3> QED
      BY <3>1, <3>2 DEF DoneIn
  <2>4. work.skus \cap SkusOf(shop) # {}
    <3>1. PICK k \in DOMAIN Orders[shop] : work = Orders[shop][k]
      BY <1>1, <1>6, OrdersFollow, ZenonT(30)
    <3>2. work.skus \cap AllSkus(shop) # {}
      BY <2>2, <3>1, TablesAssumption
    <3>3. Turn(Script[n].by) > 6
      <4>1. "orders" \in CommerceKinds
        BY DEF CommerceKinds
      <4>2. Turn("orders") = 14
        BY <4>1, Turns
      <4> QED
        BY <1>1, <4>2
    <3>4. \A k2 \in AllSkus(shop) : <<"variant", shop, k2>> \in R
      BY <2>1, <2>2, <3>3, GoodsAreThere
    <3>5. AllSkus(shop) \subseteq SkusOf(shop)
      BY <1>3, <3>4 DEF SkusOf, Has, BagIn, BagToSet
    <3> QED
      BY <3>2, <3>5
  <2>5. PICK new : new = {row \in {<<"address", shop, work.by>>} : ~Has(row)}
    OBVIOUS
  <2>6. NoOrder(new) /\ new \cap R = {}
    <3>1. \A row \in new : row = <<"address", shop, work.by>> /\ row \notin R
      BY <1>3, <2>5 DEF Has, BagIn, BagToSet
    <3>2. <<"address", shop, work.by>>[1] # "order"
      OBVIOUS
    <3> QED
      BY <3>1, <3>2 DEF NoOrder
  <2>7. PICK row : row = <<"order", shop, work.no>>
    OBVIOUS
  <2>8. row \notin R /\ SeedIn(R \cup ({row} \cup new), sp, n + 1, rd)
    BY <1>1, <1>4, <1>6, <1>8, <2>6, <2>7, OrderStep
  <2>9. Append1({row} \cup new)
    <3>1. Step = Script[n]
      BY <1>1 DEF Step
    <3>2. Has(<<"profile", shop, work.by>>)
      BY <1>3, <2>3 DEF Has, BagIn, BagToSet
    <3>3. Append1({<<"order", Step.shop, Step.work.no>>}
                    \cup {r \in {<<"address", Step.shop, Step.work.by>>} : ~Has(r)})
      BY <1>3, <1>6, <1>8, <2>4, <3>1, <3>2 DEF SeedOrders
    <3> QED
      BY <1>6, <2>5, <2>7, <3>1, <3>3
  <2>10. ({row} \cup new) \cap DOMAIN db = {}
    BY <1>3, <2>6, <2>8
  <2>11. DOMAIN db' = DOMAIN db \cup ({row} \cup new) /\ RowsAreSingle'
    BY <1>4, <2>9, <2>10, AppendAdds
  <2> QED
    BY <1>2, <1>3, <1>5, <2>8, <2>11 DEF SeedInv
<1> QED
  BY <1>7, <1>8

LEMMA FindOrdersKeeps ==
  ASSUME SeedInv, FindOrders
  PROVE  SeedInv'
<1>1. PICK n \in 1 .. Len(Script) : n = next /\ Script[n].by = "find orders"
  BY ScriptInTurn DEF FindOrders, Doing
<1>2. next' = n + 1 /\ spoiled' = spoiled /\ db' = db
  BY <1>1 DEF FindOrders, Advance
<1>3. PICK R, sp, rd, rd2 : R = DOMAIN db /\ sp = spoiled /\ rd = read /\ rd2 = read'
  OBVIOUS
<1>4. rd2 = {row[3] : row \in Ordered(R, Script[n].shop)}
  BY <1>1, <1>3, OrdersAre DEF FindOrders, Step
<1>5. SeedIn(R, sp, n, rd)
  BY <1>1, <1>3 DEF SeedInv
<1>6. SeedIn(R, sp, n + 1, rd2)
  BY <1>1, <1>4, <1>5, FindStep
<1>7. n + 1 \in 0 .. Len(Script) + 1 /\ RowsAreSingle'
  BY <1>2, PlaceIs, WalkedSoFar DEF RowsAreSingle
<1> QED
  BY <1>2, <1>3, <1>6, <1>7 DEF SeedInv

LEMMA SeedPaymentsKeeps ==
  ASSUME SeedInv, SeedPayments
  PROVE  SeedInv'
<1>1. PICK n \in 1 .. Len(Script) : n = next /\ Script[n].by = "payments"
  BY ScriptInTurn DEF SeedPayments, Doing
<1>2. PICK R, sp, rd : R = DOMAIN db /\ sp = spoiled /\ rd = read
  OBVIOUS
<1>3. SeedIn(R, sp, n, rd) /\ RowsAreSingle /\ next \in 0 .. Len(Script) + 1
  BY <1>1, <1>2 DEF SeedInv
<1>4. CASE \E no \in read : PayOrder(Step.shop, no) /\ read' = read \ {no} /\ UNCHANGED <<next, runs, spoiled>>
  <2>1. PICK no \in rd : PayOrder(Step.shop, no) /\ read' = rd \ {no} /\ UNCHANGED <<next, runs, spoiled>>
    BY <1>2, <1>4
  <2>2. PICK new : new = {<<"payment", Script[n].shop, no>>}
    OBVIOUS
  <2>3. Put(new)
    BY <1>1, <2>1, <2>2 DEF PayOrder, Step
  <2>4. DOMAIN db' = DOMAIN db \cup new /\ RowsAreSingle'
    BY <1>3, <2>3, PutAdds
  <2>5. SeedIn(R \cup new, sp, n, rd \ {no})
    BY <1>1, <1>3, <2>2, PayStep
  <2> QED
    BY <1>1, <1>2, <1>3, <2>1, <2>4, <2>5 DEF SeedInv
<1>5. CASE read = {} /\ Advance /\ UNCHANGED <<db, read>>
  <2>1. SeedIn(R, sp, n + 1, {})
    BY <1>1, <1>2, <1>3, <1>5, PaidStep
  <2>2. n + 1 \in 0 .. Len(Script) + 1
    BY PlaceIs
  <2>3. next' = n + 1 /\ spoiled' = spoiled /\ db' = db /\ read' = {}
    BY <1>1, <1>5 DEF Advance
  <2> QED
    BY <1>2, <1>3, <2>1, <2>2, <2>3 DEF SeedInv, RowsAreSingle
<1> QED
  BY <1>4, <1>5 DEF SeedPayments

LEMMA StartRunKeeps ==
  ASSUME SeedInv, StartRun
  PROVE  SeedInv'
<1>1. PICK R, sp, n, rd : R = DOMAIN db /\ sp = spoiled /\ n = next /\ rd = read
  OBVIOUS
<1>2. SeedIn(R, sp, n, rd) /\ RowsAreSingle
  BY <1>1 DEF SeedInv
<1>3. next' = 1 /\ read' = {} /\ db' = db /\ spoiled' = spoiled /\ n = 0
  BY <1>1 DEF StartRun
<1>4. \A shop : ~Selling(n, rd, shop)
  <2>1. 0 \notin 1 .. Len(Script)
    BY PlaceIs
  <2> QED
    BY <1>3, <2>1 DEF Selling, Now
<1>5. SeedIn(R, sp, 1, {})
  BY <1>2, <1>4, RestStep
<1>6. 1 \in 0 .. Len(Script) + 1
  <2>1. PICK m \in Nat : m = Len(Script)
    BY ScriptInTurn
  <2>2. 1 \in 0 .. m + 1
    OBVIOUS
  <2> QED
    BY <2>1, <2>2
<1> QED
  BY <1>1, <1>2, <1>3, <1>5, <1>6 DEF SeedInv, RowsAreSingle

LEMMA StopRunKeeps ==
  ASSUME SeedInv, StopRun
  PROVE  SeedInv'
<1>1. PICK R, sp, n, rd, sp2 : R = DOMAIN db /\ sp = spoiled /\ n = next /\ rd = read /\ sp2 = spoiled'
  OBVIOUS
<1>2. SeedIn(R, sp, n, rd) /\ RowsAreSingle
  BY <1>1 DEF SeedInv
<1>3. next' = 0 /\ read' = {} /\ db' = db
  BY DEF StopRun
<1>4. sp \subseteq sp2
  BY <1>1 DEF StopRun
<1>5. ASSUME NEW shop \in ShopSet, Selling(n, rd, shop) PROVE shop \in sp2
  <2>1. Doing("orders") /\ read # {} /\ Step.shop = shop
    BY <1>1, <1>5, ScriptInTurn DEF Selling, Now, Doing, Step
  <2> QED
    BY <1>1, <2>1 DEF StopRun
<1>6. SeedIn(R, sp2, 0, {})
  BY <1>2, <1>4, <1>5, RestStep
<1>7. 0 \in 0 .. Len(Script) + 1
  <2>1. PICK m \in Nat : m = Len(Script)
    BY ScriptInTurn
  <2>2. 0 \in 0 .. m + 1
    OBVIOUS
  <2> QED
    BY <2>1, <2>2
<1> QED
  BY <1>1, <1>2, <1>3, <1>6, <1>7 DEF SeedInv, RowsAreSingle

LEMMA PlaceOrderKeeps ==
  ASSUME SeedInv, NEW shop \in ShopSet, PlaceOrder(shop)
  PROVE  SeedInv'
<1>1. PICK R, sp, n, rd, sp2 : R = DOMAIN db /\ sp = spoiled /\ n = next /\ rd = read /\ sp2 = spoiled'
  OBVIOUS
<1>2. SeedIn(R, sp, n, rd) /\ RowsAreSingle /\ next \in 0 .. Len(Script) + 1
  BY <1>1 DEF SeedInv
<1>3. next' = next /\ read' = read
  BY DEF PlaceOrder
<1>4. sp \subseteq sp2
  BY <1>1 DEF PlaceOrder
<1>5. WholeIn(R, shop) \/ shop \in sp2
  BY <1>1 DEF PlaceOrder, WholeIn, Has, BagIn, BagToSet
<1>6. PICK row : row = <<"order", shop, "live">>
  OBVIOUS
<1>7. Append1({row}) /\ OrdersOf(shop) \cap {row} = {}
  BY <1>6 DEF PlaceOrder
<1>8. row \notin DOMAIN db
  <2>1. row[1] = "order" /\ row[2] = shop
    BY <1>6
  <2> QED
    BY <1>7, <2>1, OrdersAre DEF Ordered
<1>9. {row} \cap DOMAIN db = {}
  BY <1>8
<1>10. DOMAIN db' = DOMAIN db \cup {row} /\ RowsAreSingle'
  BY <1>2, <1>7, <1>9, AppendAdds
<1>11. SeedIn(R \cup {row}, sp2, n, rd)
  BY <1>2, <1>4, <1>5, <1>6, CustomerStep
<1> QED
  BY <1>1, <1>2, <1>3, <1>10, <1>11 DEF SeedInv

\* The first products of a shop are among its oldest ones, the first featured ones
\* among its oldest featured ones.
LEMMA FirstsArePinned ==
  ASSUME NEW shop \in ShopSet, NEW i \in DOMAIN Goods[shop]
  PROVE  /\ i <= PinLimit => <<"pick", shop, Goods[shop][i].slug>> \in PinsOf(shop, DOMAIN Goods[shop])
         /\ Goods[shop][i].featured /\ Cardinality(FeaturedBefore(shop, i)) < FeaturedLimit =>
              <<"feature", shop, Goods[shop][i].slug>> \in PinsOf(shop, DOMAIN Goods[shop])
<1>1. PICK n \in Nat : n = Len(Goods[shop]) /\ DOMAIN Goods[shop] = 1 .. n
  BY TablesAssumption, TableIs
<1>2. ASSUME i <= PinLimit PROVE Goods[shop][i].slug \in Oldest(shop, DOMAIN Goods[shop], PinLimit)
  <2>1. {k \in DOMAIN Goods[shop] : k < i} = 1 .. i - 1
    BY <1>1
  <2>2. Cardinality(1 .. i - 1) = i - 1
    <3>1. i - 1 \in Nat
      BY <1>1
    <3>2. Cardinality(1 .. i - 1) = IF 1 > i - 1 THEN 0 ELSE (i - 1) - 1 + 1
      BY <3>1, FS_Interval
    <3> QED
      BY <3>1, <3>2
  <2>3. i - 1 < PinLimit
    BY <1>1, <1>2, TablesAssumption
  <2> QED
    BY <2>1, <2>2, <2>3 DEF Oldest
<1>3. ASSUME Goods[shop][i].featured, Cardinality(FeaturedBefore(shop, i)) < FeaturedLimit
      PROVE  Goods[shop][i].slug
               \in Oldest(shop, {j \in DOMAIN Goods[shop] : Goods[shop][j].featured}, FeaturedLimit)
  <2>1. PICK featured : featured = {j \in DOMAIN Goods[shop] : Goods[shop][j].featured}
    OBVIOUS
  <2>2. {k \in featured : k < i} = FeaturedBefore(shop, i)
    BY <2>1 DEF FeaturedBefore
  <2>3. i \in featured
    BY <1>3, <2>1
  <2> QED
    BY <1>3, <2>1, <2>2, <2>3 DEF Oldest
<1> QED
  BY <1>2, <1>3 DEF PinsOf

LEMMA SeedInvHolds == SeedInit /\ [][SeedNext]_seedVars => []SeedInv
<1>1. SeedInit => SeedInv
  <2>1. SUFFICES ASSUME SeedInit PROVE SeedInv
    OBVIOUS
  <2>2. DOMAIN db = {} /\ next = 0 /\ read = {} /\ spoiled = {}
    <3>1. db = [e \in {} |-> 1] /\ next = 0 /\ read = {} /\ spoiled = {}
      BY <2>1, Zenon DEF SeedInit, EmptyBag, SetToBag
    <3> QED
      BY <3>1
  <2>3. RowsAreSingle
    BY <2>2 DEF RowsAreSingle, BagToSet
  <2>4. PICK m \in Nat : m = Len(Script)
    BY ScriptInTurn
  <2>5. 0 \in 0 .. m + 1 /\ 0 \notin 1 .. m /\ \A i \in 1 .. m : ~(i < 0)
    OBVIOUS
  <2>6. ~Now(0, "orders") /\ ~Now(0, "payments")
    BY <2>4, <2>5 DEF Now
  <2>7. SeedIn({}, {}, 0, {})
    BY <2>4, <2>5, <2>6 DEF SeedIn, Walked, Sold, Reading, Filling, Paying, Selling, Ordered
  <2> QED
    BY <2>2, <2>3, <2>4, <2>5, <2>7 DEF SeedInv
<1>2. SeedInv /\ [SeedNext]_seedVars => SeedInv'
  <2>1. SUFFICES ASSUME SeedInv, [SeedNext]_seedVars PROVE SeedInv'
    OBVIOUS
  <2>2. CASE UNCHANGED seedVars
    BY <2>1, <2>2 DEF SeedInv, RowsAreSingle, seedVars
  <2>3. CASE SeedNext
    BY <2>1, <2>3, FindTenantKeeps, SeedUsersKeeps, SeedTenantsKeeps, SeedCategoriesKeeps,
       SeedSuppliersKeeps, SeedImportedProductsKeeps, SeedSyncLogKeeps, SeedAttributesKeeps, SeedSizeGuidesKeeps,
       SeedCollectionsKeeps, SeedCollectionItemsKeeps, SeedStorefrontKeeps, SeedPromotionsKeeps,
       SeedInventoryKeeps, SeedCMSKeeps, SeedProfilesKeeps, CountOrdersKeeps, SeedOrdersKeeps,
       SeedReviewsKeeps, SeedWishlistsKeeps, SeedCouponsKeeps, FindOrdersKeeps, SeedPaymentsKeeps,
       StartRunKeeps, StopRunKeeps, PlaceOrderKeeps
       DEF SeedNext
  <2> QED
    BY <2>1, <2>2, <2>3
<1> QED
  BY <1>1, <1>2, PTL

(***************************************************************************)
(* Whatever the seeders' tables, however many products the storefront      *)
(* pins, wherever runs are stopped and however often the seed is started,  *)
(* on a database customers order from: a run that gets to its end leaves a *)
(* whole shop, and no row is there twice but in the supplier's log.        *)
(***************************************************************************)
THEOREM FinishedSeedIsWholeHolds == SeedInit /\ [][SeedNext]_seedVars => []FinishedSeedIsWhole
<1>1. SeedInv => FinishedSeedIsWhole
  <2>1. SUFFICES ASSUME SeedInv PROVE FinishedSeedIsWhole
    OBVIOUS
  <2>2. RowsAreSingle
    BY <2>1 DEF SeedInv
  <2>3. SUFFICES ASSUME next = Len(Script) + 1, NEW shop \in ShopSet
        PROVE
          /\ \A i \in DOMAIN Goods[shop] :
               /\ Has(<<"category", shop, Goods[shop][i].category>>)
               /\ Has(<<"primary picture", shop, Goods[shop][i].slug>>)
               /\ i <= PinLimit => Has(<<"pick", shop, Goods[shop][i].slug>>)
               /\ Goods[shop][i].featured /\ Cardinality(FeaturedBefore(shop, i)) < FeaturedLimit =>
                    Has(<<"feature", shop, Goods[shop][i].slug>>)
               /\ \A j \in DOMAIN Goods[shop][i].skus :
                    /\ Has(<<"stock", shop, Goods[shop][i].skus[j], "main">>)
                    /\ Has(<<"stock", shop, Goods[shop][i].skus[j], "regional">>)
                    /\ \E hue \in ToSet(Hues[shop]) : Has(<<"hue", shop, Goods[shop][i].skus[j], hue>>)
          /\ \A i \in DOMAIN Outfits[shop] : \A j \in DOMAIN Outfits[shop][i].items :
               Has(<<"item", shop, Outfits[shop][i].slug, Outfits[shop][i].items[j]>>)
          /\ \A i \in DOMAIN Orders[shop] :
               /\ shop \in spoiled \/ Has(<<"order", shop, Orders[shop][i].no>>)
               /\ Has(<<"order", shop, Orders[shop][i].no>>) => Has(<<"payment", shop, Orders[shop][i].no>>)
    BY <2>2, Zenon DEF FinishedSeedIsWhole
  <2>4. PICK R, sp : R = DOMAIN db /\ sp = spoiled
    OBVIOUS
  <2>5. \A row : Has(row) <=> row \in R
    BY <2>4 DEF Has, BagIn, BagToSet
  <2>6. ASSUME NEW i \in 1 .. Len(Script) PROVE DoneIn(R, sp, Script[i])
    <3>1. PICK m \in Nat : m = Len(Script)
      BY ScriptInTurn
    <3>2. i < next
      BY <2>3, <3>1
    <3> QED
      BY <2>1, <2>4, <3>2, WalkedSoFar DEF Walked
  <2>7. ASSUME NEW by, NEW s, NEW w, ScriptHas(by, s, w)
        PROVE  \E st : st.by = by /\ st.shop = s /\ st.work = w /\ DoneIn(R, sp, st)
    BY <2>6, <2>7 DEF ScriptHas
  <2>8. PICK none : ScriptHas("storefront", shop, none) /\ ScriptHas("inventory", shop, none)
                       /\ ScriptHas("attributes", shop, none)
    BY ScriptIsFull
  <2>9. ASSUME NEW i \in DOMAIN Goods[shop]
        PROVE  /\ Has(<<"category", shop, Goods[shop][i].category>>)
               /\ Has(<<"primary picture", shop, Goods[shop][i].slug>>)
               /\ i <= PinLimit => Has(<<"pick", shop, Goods[shop][i].slug>>)
               /\ Goods[shop][i].featured /\ Cardinality(FeaturedBefore(shop, i)) < FeaturedLimit =>
                    Has(<<"feature", shop, Goods[shop][i].slug>>)
    <3>1. PICK p : p = Goods[shop][i]
      OBVIOUS
    <3>2. p.category \in ToSet(TopCategories[shop])
      BY <3>1, TablesAssumption
    <3>3. ScriptHas("categories", shop, p.category) /\ ScriptHas("products", shop, p)
      <4>1. p \in ToSet(Goods[shop])
        BY <3>1 DEF ToSet
      <4> QED
        BY <3>2, <4>1, ScriptIsFull
    <3>4. PICK c : c.by = "categories" /\ c.shop = shop /\ c.work = p.category /\ DoneIn(R, sp, c)
      BY <2>7, <3>3
    <3>5. <<"category", shop, p.category>> \in R
      BY <3>4 DEF DoneIn
    <3>6. PICK st : st.by = "products" /\ st.shop = shop /\ st.work = p /\ DoneIn(R, sp, st)
      BY <2>7, <3>3
    <3>7. RowsOf(shop, p) \subseteq R
      BY <3>6 DEF DoneIn
    <3>8. <<"primary picture", shop, p.slug>> \in R
      <4>1. PICK kind : kind = "primary picture"
        OBVIOUS
      <4>2. PICK k1 : k1 = {"product", "primary picture", "supplier product", "supplier picture"}
        OBVIOUS
      <4>3. kind \in k1
        BY <4>1, <4>2
      <4>4. <<kind, shop, p.slug>> \in k1 \X {shop} \X {p.slug}
        BY <4>3
      <4>5. k1 \X {shop} \X {p.slug} \subseteq RowsOf(shop, p)
        BY <4>2, Zenon DEF RowsOf
      <4>6. <<kind, shop, p.slug>> \in R
        BY <3>7, <4>4, <4>5
      <4> QED
        BY <4>1, <4>6, Zenon
    <3>9. PICK ft : ft.by = "storefront" /\ ft.shop = shop /\ DoneIn(R, sp, ft)
      BY <2>7, <2>8
    <3>10. PinsOf(shop, DOMAIN Goods[shop]) \subseteq R
      BY <3>9 DEF DoneIn
    <3>11. /\ i <= PinLimit => <<"pick", shop, p.slug>> \in R
           /\ p.featured /\ Cardinality(FeaturedBefore(shop, i)) < FeaturedLimit =>
                <<"feature", shop, p.slug>> \in R
      BY <3>1, <3>10, FirstsArePinned
    <3> QED
      BY <2>5, <3>1, <3>5, <3>8, <3>11, Zenon
  <2>10. ASSUME NEW i \in DOMAIN Goods[shop], NEW j \in DOMAIN Goods[shop][i].skus
        PROVE  /\ Has(<<"stock", shop, Goods[shop][i].skus[j], "main">>)
               /\ Has(<<"stock", shop, Goods[shop][i].skus[j], "regional">>)
               /\ \E hue \in ToSet(Hues[shop]) : Has(<<"hue", shop, Goods[shop][i].skus[j], hue>>)
    <3>1. PICK k : k = Goods[shop][i].skus[j]
      OBVIOUS
    <3>2. k \in AllSkus(shop)
      BY <3>1 DEF AllSkus, ToSet
    <3>3. PICK st : st.by = "inventory" /\ st.shop = shop /\ DoneIn(R, sp, st)
      BY <2>7, <2>8
    <3>4. <<"stock", shop, k, "main">> \in R /\ <<"stock", shop, k, "regional">> \in R
      BY <3>2, <3>3 DEF DoneIn
    <3>5. PICK at : at.by = "attributes" /\ at.shop = shop /\ DoneIn(R, sp, at)
      BY <2>7, <2>8
    <3>6. \E hue \in ToSet(Hues[shop]) : <<"hue", shop, k, hue>> \in R
      BY <3>2, <3>5 DEF DoneIn
    <3> QED
      BY <2>5, <3>1, <3>4, <3>6
  <2>11. ASSUME NEW i \in DOMAIN Outfits[shop], NEW j \in DOMAIN Outfits[shop][i].items
         PROVE  Has(<<"item", shop, Outfits[shop][i].slug, Outfits[shop][i].items[j]>>)
    <3>1. PICK w : w = [look |-> Outfits[shop][i].slug, product |-> Outfits[shop][i].items[j]]
      OBVIOUS
    <3>2. w.look = Outfits[shop][i].slug /\ w.product = Outfits[shop][i].items[j]
      BY <3>1
    <3>3. ScriptHas("items", shop, w)
      BY <3>1, ScriptIsFull
    <3>4. PICK st : st.by = "items" /\ st.shop = shop /\ st.work = w /\ DoneIn(R, sp, st)
      BY <2>7, <3>3
    <3>5. <<"item", shop, w.look, w.product>> \in R
      BY <3>4 DEF DoneIn
    <3> QED
      BY <2>5, <3>2, <3>5
  <2>12. ASSUME NEW i \in DOMAIN Orders[shop]
         PROVE  /\ shop \in spoiled \/ Has(<<"order", shop, Orders[shop][i].no>>)
                /\ Has(<<"order", shop, Orders[shop][i].no>>) => Has(<<"payment", shop, Orders[shop][i].no>>)
    <3>1. PICK a \in 1 .. Len(Script) :
            Script[a].by = "orders" /\ Script[a].shop = shop /\ Script[a].work = Orders[shop][i]
      BY ScriptHasOrders
    <3>2. PICK b \in 1 .. Len(Script) : Script[b].by = "payments" /\ Script[b].shop = shop
      BY ScriptHasOrders
    <3>3. shop \in sp \/ <<"order", shop, Orders[shop][i].no>> \in R
      BY <2>6, <3>1 DEF DoneIn
    <3>4. PaidIn(R, shop, {})
      BY <2>6, <3>2 DEF DoneIn
    <3>5. <<"order", shop, Orders[shop][i].no>> \in R => <<"payment", shop, Orders[shop][i].no>> \in R
      BY <3>4 DEF PaidIn
    <3> QED
      BY <2>4, <2>5, <3>3, <3>5
  <2> QED
    BY <2>9, <2>10, <2>11, <2>12
<1> QED
  BY <1>1, SeedInvHolds, PTL

=============================================================================
