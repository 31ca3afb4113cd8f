-------------------------------- MODULE Gallery -------------------------------
(***************************************************************************)
(* One product's pictures, those of its gallery and those of its variants: *)
(* ProductService's media methods clear the primary flag, write the        *)
(* picture and set the product's thumbnail in three statements; an import  *)
(* replaces the gallery and the pictures of the variants it brings.        *)
(***************************************************************************)
EXTENDS Naturals, FiniteSets

CONSTANTS
  Pictures,           \* media rows, by url
  Trims,              \* the product's variants
  Product,            \* whose pictures are the gallery: rows without a variant
  OwnerOfPicture,     \* picture -> Product or one of the Trims
  Uploaders,          \* requests in progress at the same time
  MaxUploads,         \* bound: requests
  NoPicture

ASSUME GalleryAssumption == OwnerOfPicture \in [Pictures -> Trims \cup {Product}]

InGallery(m) == OwnerOfPicture[m] = Product

VARIABLES
  gallery,            \* picture -> "primary", "plain", or "none": no row
  thumbnail,          \* CatalogProduct.thumbnailUrl
  upload,             \* uploader -> [at, picture, primary] of its request
  uploads,            \* how much of the bound is used up
  inTurn              \* history: no two requests have overlapped

galleryVars == <<gallery, thumbnail, upload, uploads, inTurn>>

Ready == [at |-> "ready"]

GalleryInit ==
  /\ gallery = [m \in Pictures |-> "none"]
  /\ thumbnail = NoPicture
  /\ upload = [e \in Uploaders |-> Ready]
  /\ uploads = 0
  /\ inTurn = TRUE

Arrives(e) ==
  /\ upload[e] = Ready /\ uploads < MaxUploads
  /\ uploads' = uploads + 1
  /\ inTurn' = (inTurn /\ \A f \in Uploaders : upload[f] = Ready)

\* clearPrimaryMedia leaves the rows of variants alone.
Unflagged(rows) ==
  [m \in Pictures |-> IF InGallery(m) /\ rows[m] = "primary" THEN "plain" ELSE rows[m]]

\* The rows with a picture created or updated, and without one.
WithMedia(m, primary) == [gallery EXCEPT ![m] = IF primary THEN "primary" ELSE "plain"]
WithoutMedia(m) == [gallery EXCEPT ![m] = "none"]

FoundMedia(m) == gallery[m] # "none"

\* createMedia, for the gallery alone, or updateMedia of any picture that is there: the
\* flag is cleared first.  (An update that names no flag leaves it.)
BeginMedia(e, m, primary) ==
  /\ Arrives(e)
  /\ InGallery(m) \/ FoundMedia(m)
  /\ gallery' = IF primary THEN Unflagged(gallery) ELSE gallery
  /\ upload' = [upload EXCEPT ![e] = [at |-> "write", picture |-> m, primary |-> primary,
                                      new |-> ~FoundMedia(m)]]
  /\ UNCHANGED thumbnail

\* A picture deleted meanwhile is not updated.
WriteMedia(e) ==
  /\ upload[e].at = "write"
  /\ LET m == upload[e].picture IN
       gallery' = IF upload[e].new \/ FoundMedia(m)
                  THEN WithMedia(m, upload[e].primary) ELSE gallery
  /\ upload' = [upload EXCEPT ![e] = IF upload[e].primary THEN [@ EXCEPT !.at = "thumbnail"]
                                     ELSE Ready]
  /\ UNCHANGED <<thumbnail, uploads, inTurn>>

SetThumbnail(e) ==
  /\ upload[e].at = "thumbnail"
  /\ thumbnail' = upload[e].picture
  /\ upload' = [upload EXCEPT ![e] = Ready]
  /\ UNCHANGED <<gallery, uploads, inTurn>>

\* The thumbnail stays, also when it was this picture.
DeleteMedia(e, m) ==
  /\ Arrives(e)
  /\ FoundMedia(m)
  /\ gallery' = WithoutMedia(m)
  /\ UNCHANGED <<thumbnail, upload>>

\* updateProduct with another thumbnail, or none.
ChangeThumbnail(e, m) ==
  /\ Arrives(e)
  /\ thumbnail' = m
  /\ UNCHANGED <<gallery, upload>>

\* What the supplier answers: variants vs, pictures ms of theirs and of the product
\* itself, the first of each owner's in heads.
Answer(vs, ms, heads) ==
  /\ \A m \in ms : OwnerOfPicture[m] \in vs \cup {Product}
  /\ \A m \in ms : \E h \in heads : OwnerOfPicture[h] = OwnerOfPicture[m]
  /\ \A g, h \in heads : OwnerOfPicture[g] = OwnerOfPicture[h] => g = h

\* The first picture of each owner is a primary one; no pictures at all is an answer too.
Imported(old, ms, heads) ==
  [m \in Pictures |-> IF m \in heads THEN "primary" ELSE IF m \in ms THEN "plain" ELSE old[m]]

\* The rows without those of the gallery and of the variants vs.
Cleared(vs) ==
  [m \in Pictures |-> IF OwnerOfPicture[m] \in vs \cup {Product} THEN "none" ELSE gallery[m]]

\* An import has no thumbnail to give when there is no picture of the product itself.
ThumbnailOf(heads) ==
  IF \E h \in heads : InGallery(h) THEN CHOOSE h \in heads : InGallery(h) ELSE thumbnail

\* Mutant of ReplaceGallery: the old pictures stay.
AddToGallery(e, vs, ms, heads) ==
  /\ Arrives(e)
  /\ Answer(vs, ms, heads)
  /\ gallery' = Imported(gallery, ms, heads)
  /\ thumbnail' = ThumbnailOf(heads)
  /\ UNCHANGED upload

\* importProduct, in its transaction.
ReplaceGallery(e, vs, ms, heads) ==
  /\ Arrives(e)
  /\ Answer(vs, ms, heads)
  /\ gallery' = Imported(Cleared(vs), ms, heads)
  /\ thumbnail' = ThumbnailOf(heads)
  /\ UNCHANGED upload

GalleryNext ==
  \E e \in Uploaders :
    \/ \E m \in Pictures, primary \in BOOLEAN : BeginMedia(e, m, primary)
    \/ WriteMedia(e) \/ SetThumbnail(e)
    \/ \E m \in Pictures : DeleteMedia(e, m) \/ ChangeThumbnail(e, m)
    \/ ChangeThumbnail(e, NoPicture)
    \/ \E vs \in SUBSET Trims, ms \in SUBSET Pictures :
         \E heads \in SUBSET ms : ReplaceGallery(e, vs, ms, heads)

GallerySpec == GalleryInit /\ [][GalleryNext]_galleryVars

(***************************************************************************)
(* clearPrimaryMedia: however edits and imports alternate, while no two    *)
(* overlap the gallery, the rows without a variant, has one primary        *)
(* picture at most.  An import gives every variant a primary row of its    *)
(* own beside it, which nothing clears.                                    *)
(***************************************************************************)
AloneOnePrimary ==
  inTurn => Cardinality({m \in Pictures : InGallery(m) /\ gallery[m] = "primary"}) <= 1

=============================================================================
