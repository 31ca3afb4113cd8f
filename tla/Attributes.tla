------------------------------ MODULE Attributes ------------------------------
(***************************************************************************)
(* The attributes of a store's variants (modules/catalog/attribute): an    *)
(* attribute such as "color" has values, and a variant is linked to some.  *)
(* Every filter, facet and direct checkout reads these links.              *)
(*                                                                         *)
(* Links are written by staff who edit a variant's colour and size, one    *)
(* statement after another with no transaction around them, by the import  *)
(* of a product, which writes all its variants in one transaction, and by  *)
(* the link endpoint; attributes and values are created, renamed and       *)
(* deleted under them.  Labels and swatches are left out.                  *)
(***************************************************************************)
EXTENDS Naturals, Sequences, FiniteSets, SequencesExt

CONSTANTS VariantIds, Staff,
          AttributeCodes,  \* a sequence of the attributes' codes, in the order a request names them
          Texts,           \* the values' texts
          Blank,           \* an absent colour or size, and what is not there
          MaxRows,         \* bound on the attributes and values ever created
          MaxWrites        \* bound on the writes of staff, imports and administration

\* What a variant is given: a text, or nothing, for each code.
Labels == [ToSet(AttributeCodes) -> Texts \cup {Blank}]

\* An edit of a variant under way.
Edit == [variant : VariantIds, labels : Labels,
         todo : SUBSET ToSet(AttributeCodes),  \* the codes it has still to upsert
         ids : SUBSET Nat,                     \* the values it has
         cleared : BOOLEAN,                    \* it has deleted the old links
         alone : BOOLEAN]                      \* history: nothing came between so far

ASSUME AttributesAssumption ==
  /\ MaxRows \in Nat /\ MaxWrites \in Nat
  /\ AttributeCodes \in Seq(ToSet(AttributeCodes))
  /\ IsFiniteSet(VariantIds)
  /\ Blank \notin Texts /\ Blank \notin ToSet(AttributeCodes)
  /\ Blank \notin Labels /\ Blank \notin Edit

VARIABLES
  rows,    \* the attributes' codes and the values, each by its id, and the next id
  links,   \* pairs of a variant and the id of a value
  writer,  \* the variant edit each member of staff waits for, or Blank
  told,    \* the labels a variant's last whole and undisturbed write gave it, or Blank
  writes   \* writes so far

attributeVars == <<rows, links, writer, told, writes>>

AttributeInit ==
  /\ rows = [codes |-> <<>>, values |-> <<>>, next |-> 1]
  /\ links = {} /\ writer = [w \in Staff |-> Blank]
  /\ told = [v \in VariantIds |-> Blank] /\ writes = 0

\* A write to these variants begins: what was told of them no longer counts,
\* and an edit that is under way on one of them is no longer undisturbed.
Disturb(S) == [w \in Staff |->
  IF writer[w] # Blank /\ writer[w].variant \in S THEN [writer[w] EXCEPT !.alone = FALSE] ELSE writer[w]]

Forget(S) == [v \in VariantIds |-> IF v \in S THEN Blank ELSE told[v]]

Count == writes < MaxWrites /\ writes' = writes + 1

-----------------------------------------------------------------------------
(* Rows.                                                                   *)

\* The attributes with a code, one at most: (tenant, code) is unique.
attributeOf(r, code) == {a \in DOMAIN r.codes : r.codes[a] = code}

\* The values of an attribute with a text, one at most.
findValue(r, a, text) == {x \in DOMAIN r.values : r.values[x].of = a /\ r.values[x].text = text}

Put(f, id, e) == [x \in DOMAIN f \cup {id} |-> IF x = id THEN e ELSE f[x]]
Drop(f, S) == [x \in DOMAIN f \ S |-> f[x]]

create(r, code) == [codes |-> Put(r.codes, r.next, code), values |-> r.values, next |-> r.next + 1]

addValue(r, a, text) ==
  [codes |-> r.codes, values |-> Put(r.values, r.next, [of |-> a, text |-> text]), next |-> r.next + 1]

Rename(r, a, code) == [r EXCEPT !.codes[a] = code]

DropValues(r, S) == [r EXCEPT !.values = Drop(@, S)]

\* The attribute of a code and its value of a text, created where missing.
upsertAttribute(r, code) == IF attributeOf(r, code) = {} THEN create(r, code) ELSE r

upsertValue(r, code, text) ==
  LET with == upsertAttribute(r, code)
      a == CHOOSE a \in attributeOf(with, code) : TRUE
  IN IF findValue(with, a, text) = {} THEN addValue(with, a, text) ELSE with

IdOf(r, code, text) ==
  CHOOSE x \in DOMAIN r.values : r.codes[r.values[x].of] = code /\ r.values[x].text = text

\* The codes of some labels that are neither absent nor blank.
Named(labels) == {c \in ToSet(AttributeCodes) : labels[c] # Blank}

\* Of the codes still to do, the one that comes first in the request.
ComesFirst(code, todo) ==
  \E i \in DOMAIN AttributeCodes :
    AttributeCodes[i] = code /\ \A j \in 1 .. i - 1 : AttributeCodes[j] \notin todo

LinksOf(v) == {l \in links : l[1] = v}

-----------------------------------------------------------------------------
(* Administration: attributes, values and links by their ids.              *)

createAttribute(code) ==
  /\ Count /\ attributeOf(rows, code) = {} /\ rows.next <= MaxRows
  /\ rows' = create(rows, code)
  /\ UNCHANGED <<links, writer, told>>

CreateValue(a, text) ==
  /\ Count /\ findValue(rows, a, text) = {} /\ rows.next <= MaxRows
  /\ rows' = addValue(rows, a, text)
  /\ UNCHANGED <<links, writer, told>>

\* The body of the request is written as it is, the code included; links go
\* by ids and are now links to another attribute.
updateAttribute(a, code) ==
  /\ Count /\ attributeOf(rows, code) = {}
  /\ rows' = Rename(rows, a, code)
  /\ writer' = Disturb(VariantIds) /\ told' = Forget(VariantIds)
  /\ UNCHANGED links

\* Links go with their values, values with their attribute.
Cascade(gone) ==
  LET cut == {l \in links : l[2] \in gone}
  IN links' = links \ cut /\ told' = Forget({l[1] : l \in cut})

deleteAttribute(a) ==
  /\ Count
  /\ LET gone == {x \in DOMAIN rows.values : rows.values[x].of = a}
     IN /\ rows' = [DropValues(rows, gone) EXCEPT !.codes = Drop(@, {a})]
        /\ Cascade(gone)
  /\ writer' = Disturb(VariantIds)

deleteValue(x) ==
  /\ Count /\ rows' = DropValues(rows, {x}) /\ Cascade({x})
  /\ writer' = Disturb(VariantIds)

\* All links of a variant replaced in one transaction by those asked for.
setVariantAttributes(v, ids) ==
  /\ Count /\ ids \subseteq DOMAIN rows.values
  /\ links' = (links \ LinksOf(v)) \cup ({v} \X ids)
  /\ writer' = Disturb({v}) /\ told' = Forget({v})
  /\ UNCHANGED rows

-----------------------------------------------------------------------------
(* Staff edit a variant: syncVariantAttributes, one statement at a time.   *)

syncVariantAttributes(w, v, labels) ==
  /\ Count /\ writer[w] = Blank
  /\ writer' = [Disturb({v}) EXCEPT ![w] =
       [variant |-> v, labels |-> labels, todo |-> Named(labels), ids |-> {}, cleared |-> FALSE,
        alone |-> \A u \in Staff : writer[u] = Blank \/ writer[u].variant # v]]
  /\ told' = Forget({v})
  /\ UNCHANGED <<rows, links>>

UpsertLabel(w) ==
  /\ writer[w] # Blank /\ rows.next < MaxRows
  /\ \E code \in writer[w].todo :
       LET text == writer[w].labels[code]
       IN /\ ComesFirst(code, writer[w].todo)
          /\ rows' = upsertValue(rows, code, text)
          /\ writer' = [writer EXCEPT ![w].todo = @ \ {code},
                                     ![w].ids = @ \cup {IdOf(rows', code, text)}]
  /\ UNCHANGED <<links, told, writes>>

ClearLinks(w) ==
  /\ writer[w] # Blank /\ writer[w].todo = {} /\ ~writer[w].cleared
  /\ links' = links \ LinksOf(writer[w].variant)
  /\ writer' = [writer EXCEPT ![w].cleared = TRUE]
  /\ UNCHANGED <<rows, told, writes>>

\* createMany, which fails as a whole when one of the values is gone.
CreateLinks(w) ==
  /\ writer[w] # Blank /\ writer[w].cleared
  /\ writer[w].ids \subseteq DOMAIN rows.values
  /\ links' = links \cup ({writer[w].variant} \X writer[w].ids)
  /\ told' = IF writer[w].alone THEN [told EXCEPT ![writer[w].variant] = writer[w].labels] ELSE told
  /\ writer' = [writer EXCEPT ![w] = Blank]
  /\ UNCHANGED <<rows, writes>>

\* A statement fails or the process dies: what was written before stays.
AbandonEdit(w) ==
  /\ writer[w] # Blank /\ writer' = [writer EXCEPT ![w] = Blank]
  /\ UNCHANGED <<rows, links, told, writes>>

-----------------------------------------------------------------------------
(* An import writes the variants its supplier names labels for in one      *)
(* transaction, with a cache of the values it has already upserted.        *)

\* Mutant of cacheKey: values are cached by their text alone.
textKey(code, text) == text

cacheKey(code, text) == <<code, text>>

\* One label of one variant: from the cache, or upserted and cached.
ImportLabel(at, v, code, text) ==
  LET key == cacheKey(code, text)
      next == upsertValue(at.rows, code, text)
      id == IF key \in DOMAIN at.cache THEN at.cache[key] ELSE IdOf(next, code, text)
  IN [rows |-> IF key \in DOMAIN at.cache THEN at.rows ELSE next,
      cache |-> Put(at.cache, key, id), links |-> at.links \cup {<<v, id>>}]

\* One variant: its old links go, those of its labels come.
ImportVariant(at, v, labels) ==
  FoldLeft(LAMBDA b, code : IF code \in Named(labels) THEN ImportLabel(b, v, code, labels[code]) ELSE b,
           [at EXCEPT !.links = {l \in @ : l[1] # v}], AttributeCodes)

ImportVariants(r, linked, given) ==
  FoldSet(LAMBDA v, at : ImportVariant(at, v, given[v]),
          [rows |-> r, cache |-> <<>>, links |-> linked], DOMAIN given)

importLabels(given) ==
  /\ Count
  /\ LET done == ImportVariants(rows, links, given)
     IN done.rows.next <= MaxRows + 1 /\ rows' = done.rows /\ links' = done.links
  /\ writer' = Disturb(DOMAIN given)
  /\ LET edited == {writer[w].variant : w \in {u \in Staff : writer[u] # Blank}}
     IN told' = [v \in VariantIds |-> IF v \in DOMAIN given \ edited THEN given[v]
                                      ELSE Forget(DOMAIN given)[v]]

AttributeNext ==
  \/ \E code \in ToSet(AttributeCodes) : createAttribute(code)
  \/ \E a \in DOMAIN rows.codes :
       \/ deleteAttribute(a)
       \/ \E text \in Texts : CreateValue(a, text)
       \/ \E code \in ToSet(AttributeCodes) : updateAttribute(a, code)
  \/ \E x \in DOMAIN rows.values : deleteValue(x)
  \/ \E v \in VariantIds, ids \in SUBSET DOMAIN rows.values : setVariantAttributes(v, ids)
  \/ \E w \in Staff, v \in VariantIds, labels \in Labels : syncVariantAttributes(w, v, labels)
  \/ \E w \in Staff : UpsertLabel(w) \/ ClearLinks(w) \/ CreateLinks(w) \/ AbandonEdit(w)
  \/ \E S \in SUBSET VariantIds \ {{}} : \E given \in [S -> Labels] : importLabels(given)

-----------------------------------------------------------------------------
(* Properties.                                                             *)

\* A variant whose last write ran whole and undisturbed, an edit or an import,
\* is linked to exactly what that write named: to one value of each attribute
\* it gave, under that attribute, and to nothing an earlier write left behind
\* (upsertVariantAttributesFromLabels "replaces the variant's links with the
\* result", attribute.repository.ts:260-261).
LinksAreAsLabelled ==
  \A v \in VariantIds :
    told[v] # Blank
      => LET linked == {l[2] : l \in LinksOf(v)}
         IN /\ {<<rows.codes[rows.values[x].of], rows.values[x].text>> : x \in linked}
                 = {<<c, told[v][c]>> : c \in Named(told[v])}
            /\ Cardinality(linked) = Cardinality(Named(told[v]))

=============================================================================
