--------------------------- MODULE StorefrontProofs ---------------------------
(***************************************************************************)
(* Theorems about what a shopper meets.                                    *)
(*                                                                         *)
(*   PromotionStack  the price of an order: for any subtotal, coupon,      *)
(*                   quote and number of candidates of any worth           *)
(*   Campaigns       for any number of editors, campaigns and requests     *)
(*   Storefront      for any products, sections, lives and visitors        *)
(*   DirectCheckout  for any answers of CJ and any length of a quote       *)
(*   Electronics     for any tree of categories, goods and page size       *)
(*   Attributes      for any finite set of variants, any staff and codes   *)
(*                                                                         *)
(* The lemmas come first, about sums and about recursion over sets and     *)
(* numbers: induction, here, is an argument about a least counterexample.  *)
(***************************************************************************)
EXTENDS PromotionStack, Campaigns, Storefront, DirectCheckout, Electronics, Attributes,
        FiniteSetTheorems, SequenceTheorems, WellFoundedInduction, TLAPS

(***************************************************************************)
(* Sums.  The community modules add up a set one chosen element after      *)
(* another, by recursion; what that comes to does not depend on the        *)
(* choices.                                                                *)
(***************************************************************************)
\* Of a set of numbers, one is the least.
LEMMA Least ==
  ASSUME NEW T \in SUBSET Nat, T # {}
  PROVE  \E n \in T : \A m \in T : n <= m
<1>1. IsWellFoundedOn(OpToRel(<, Nat), Nat)
  BY NatLessThanWellFounded
<1>2. PICK n \in T : \A m \in T : ~ (<<m, n>> \in OpToRel(<, Nat))
  BY <1>1, WFMin
<1>3. \A m \in T : ~ (m < n)
  BY <1>2 DEF OpToRel
<1> QED
  BY <1>3

\* c picks an element of each set of elements of D.
Picks(c, D) == \A s \in SUBSET D : s # {} => c[s] \in s

\* it is worked out by taking away the picked element: base for none.
Unrolls(it, D, c, base, G) ==
  /\ it[{}] = base
  /\ \A s \in SUBSET D : s # {} => it[s] = G[<<s, it[s \ {c[s]}]>>]

\* What passes on from the smaller sets to each set holds of all of them.
LEMMA SizeInduction ==
  ASSUME NEW D, IsFiniteSet(D), NEW Q \in SUBSET SUBSET D,
         \A s \in SUBSET D :
           (\A t \in SUBSET D : Cardinality(t) < Cardinality(s) => t \in Q) => s \in Q
  PROVE  Q = SUBSET D
<1> DEFINE bad == {Cardinality(s) : s \in (SUBSET D) \ Q}
<1>1. \A s \in SUBSET D : IsFiniteSet(s) /\ Cardinality(s) \in Nat
  BY FS_Subset, FS_CardinalityType
<1>2. SUFFICES ASSUME bad # {} PROVE FALSE
  OBVIOUS
<1>3. PICK n \in bad : \A m \in bad : n <= m
  <2>1. bad \in SUBSET Nat
    BY <1>1
  <2> HIDE DEF bad
  <2> QED
    BY <1>2, <2>1, Least
<1>4. PICK s \in (SUBSET D) \ Q : n = Cardinality(s)
  BY <1>3
<1>5. ASSUME NEW t \in SUBSET D, Cardinality(t) < Cardinality(s) PROVE t \in Q
  <2>1. Cardinality(t) \in Nat /\ Cardinality(s) \in Nat
    BY <1>1
  <2>2. t \notin Q => Cardinality(t) \in bad
    OBVIOUS
  <2> HIDE DEF bad
  <2> QED
    BY <1>3, <1>4, <1>5, <2>1, <2>2
<1> QED
  BY <1>4, <1>5

LEMMA SetInduction ==
  ASSUME NEW D, IsFiniteSet(D), NEW c, Picks(c, D),
         NEW Q \in SUBSET SUBSET D, {} \in Q,
         \A s \in SUBSET D : s # {} /\ s \ {c[s]} \in Q => s \in Q
  PROVE  Q = SUBSET D
<1> DEFINE bad == {Cardinality(s) : s \in (SUBSET D) \ Q}
<1>1. \A s \in SUBSET D : IsFiniteSet(s) /\ Cardinality(s) \in Nat
  BY FS_Subset, FS_CardinalityType
<1>2. SUFFICES ASSUME bad # {} PROVE FALSE
  OBVIOUS
<1>9. bad \in SUBSET Nat
  BY <1>1
<1>3. PICK n \in bad : \A m \in bad : n <= m
  <2> HIDE DEF bad
  <2> QED
    BY <1>2, <1>9, Least
<1>4. PICK s \in (SUBSET D) \ Q : n = Cardinality(s)
  BY <1>3
<1>5. s # {} /\ c[s] \in s
  BY <1>4 DEF Picks
<1>6. Cardinality(s \ {c[s]}) = n - 1 /\ n \in Nat
  <2>1. IsFiniteSet(s) /\ Cardinality(s) \in Nat /\ n = Cardinality(s)
    BY <1>1, <1>4
  <2> HIDE DEF bad
  <2>2. Cardinality(s \ {c[s]}) = Cardinality(s) - 1
    <3> DEFINE x == c[s]
    <3>1. x \in s
      BY <1>5
    <3> HIDE DEF x
    <3>2. Cardinality(s \ {x}) = Cardinality(s) - 1
      BY <2>1, <3>1, FS_RemoveElement
    <3> QED
      BY <3>2 DEF x
  <2> QED
    BY <2>1, <2>2
<1>7. s \ {c[s]} \in Q
  BY <1>3, <1>6
<1> QED
  BY <1>4, <1>5, <1>7

LEMMA Recursion ==
  ASSUME NEW D, IsFiniteSet(D), NEW c, Picks(c, D),
         NEW A, NEW base \in A, NEW G \in [(SUBSET D) \X A -> A]
  PROVE  \E it \in [SUBSET D -> A] : Unrolls(it, D, c, base, G)
<1> DEFINE Upon(it, t) == IF t = {} THEN base ELSE G[<<t, it[t \ {c[t]}]>>]
           small(n) == {s \in SUBSET D : Cardinality(s) <= n}
           done(n) == {it \in [small(n) -> A] : \A t \in small(n) : it[t] = Upon(it, t)}
           bad == {n \in Nat : done(n) = {}}
<1>1. \A s \in SUBSET D : IsFiniteSet(s) /\ Cardinality(s) \in Nat
  BY FS_Subset, FS_CardinalityType
<1>2. \A s \in SUBSET D : Cardinality(s) = 0 <=> s = {}
  BY <1>1, FS_EmptySet
<1>3. done(0) # {}
  <2>1. small(0) = {{}}
    BY <1>1, <1>2
  <2>2. [t \in small(0) |-> base] \in done(0)
    BY <2>1
  <2> QED
    BY <2>2
<1>4. ASSUME NEW n \in Nat, done(n) # {} PROVE done(n + 1) # {}
  <2>1. PICK g : g \in done(n)
    BY <1>4
  <2> DEFINE h == [t \in small(n + 1) |-> Upon(g, t)]
  <2>2. ASSUME NEW t \in small(n + 1), t # {} PROVE t \ {c[t]} \in small(n) /\ t \ {c[t]} \in small(n + 1)
    <3>1. c[t] \in t
      BY <2>2 DEF Picks
    <3>2. Cardinality(t \ {c[t]}) = Cardinality(t) - 1
      BY <1>1, <3>1, FS_RemoveElement
    <3> QED
      BY <1>1, <2>2, <3>2
  <2>3. \A t \in small(n + 1) : Upon(g, t) \in A
    BY <2>1, <2>2
  <2>4. h \in [small(n + 1) -> A]
    BY <2>3
  <2>5. \A t \in small(n) : t \in small(n + 1) /\ h[t] = g[t]
    <3>1. \A t \in small(n) : t \in small(n + 1)
      BY <1>1
    <3>2. \A t \in small(n) : g[t] = Upon(g, t)
      BY <2>1
    <3> QED
      BY <3>1, <3>2
  <2>6. ASSUME NEW t \in small(n + 1) PROVE h[t] = Upon(h, t)
    <3>1. CASE t = {}
      BY <3>1
    <3>2. CASE t # {}
      <4>1. h[t \ {c[t]}] = g[t \ {c[t]}]
        BY <2>2, <2>5, <3>2
      <4>2. h[t] = Upon(g, t)
        OBVIOUS
      <4> QED
        BY <3>2, <4>1, <4>2
    <3> QED
      BY <3>1, <3>2
  <2>7. h \in done(n + 1)
    BY <2>4, <2>6
  <2> QED
    BY <2>7
<1>5. \A n \in Nat : done(n) # {}
  <2> HIDE DEF done
  <2>1. SUFFICES ASSUME bad # {} PROVE FALSE
    OBVIOUS
  <2>2. PICK n \in bad : \A m \in bad : n <= m
    BY <2>1, Least
  <2>3. n # 0
    BY <1>3, <2>2
  <2>4. n - 1 \in Nat /\ n - 1 \notin bad
    BY <2>2, <2>3
  <2>5. n - 1 + 1 = n
    BY <2>4
  <2> QED
    BY <1>4, <2>2, <2>4, <2>5
<1>6. small(Cardinality(D)) = SUBSET D /\ Cardinality(D) \in Nat
  BY <1>1, FS_Subset
<1>7. PICK it : it \in done(Cardinality(D))
  BY <1>5, <1>6
<1> QED
  BY <1>6, <1>7 DEF Unrolls

\* it is the sum of the amounts of each set, taken one after another.
AddsUp(it, fun, D) ==
  \A s \in SUBSET D : it[s] = IF s = {} THEN 0
    ELSE fun[CHOOSE x \in s : TRUE] + it[s \ {CHOOSE x \in s : TRUE}]

LEMMA SumIs ==
  ASSUME NEW D, IsFiniteSet(D), NEW fun, \A x \in D : fun[x] \in Nat
  PROVE  \E it \in [SUBSET D -> Nat] : SumFunctionOnSet(fun, D) = it[D] /\ AddsUp(it, fun, D)
<1> DEFINE c == [s \in SUBSET D |-> CHOOSE x \in s : TRUE]
           G == [p \in (SUBSET D) \X Nat |-> IF p[1] = {} THEN 0 ELSE fun[c[p[1]]] + p[2]]
           Eq(it) == it = [s \in SUBSET D |-> IF s = {} THEN 0
                ELSE fun[CHOOSE x \in s : TRUE] + it[s \ {CHOOSE x \in s : TRUE}]]
           F == CHOOSE it : Eq(it)
<1>1. \A s \in SUBSET D : s # {} => c[s] \in s /\ c[s] \in D
  OBVIOUS
<1>2. G \in [(SUBSET D) \X Nat -> Nat]
  BY <1>1
<1>3. PICK it \in [SUBSET D -> Nat] : Unrolls(it, D, c, 0, G)
  <2>1. Picks(c, D)
    BY <1>1 DEF Picks
  <2> HIDE DEF c, G
  <2>2. 0 \in Nat
    OBVIOUS
  <2> HIDE DEF Eq, F, c, G
  <2> QED
    BY <1>2, <2>1, <2>2, Recursion
<1>4. ASSUME NEW s \in SUBSET D
      PROVE  it[s] = IF s = {} THEN 0
                ELSE fun[CHOOSE x \in s : TRUE] + it[s \ {CHOOSE x \in s : TRUE}]
  <2>1. s # {} => s \ {c[s]} \in SUBSET D /\ it[s \ {c[s]}] \in Nat
    BY <1>1
  <2>2. s # {} => G[<<s, it[s \ {c[s]}]>>] = fun[c[s]] + it[s \ {c[s]}]
    BY <2>1
  <2> QED
    BY <1>3, <2>2 DEF Unrolls
<1>5. Eq(it)
  BY <1>4
<1>6. Eq(F)
  <2> HIDE DEF Eq
  <2> QED
  BY <1>5
<1>7. SumFunctionOnSet(fun, D) = F[D]
  BY DEF SumFunctionOnSet, FoldFunctionOnSet, MapThenFoldSet
<1> QED
  <2>1. D \in SUBSET D
    OBVIOUS
  <2>2. F = [s \in SUBSET D |-> IF s = {} THEN 0
                ELSE fun[CHOOSE x \in s : TRUE] + F[s \ {CHOOSE x \in s : TRUE}]]
    BY <1>6
  <2> DEFINE Q == {s \in SUBSET D : F[s] = it[s]}
  <2> HIDE DEF F, Eq
  <2>3. {} \in Q
    BY <1>4, <2>2
  <2>4. ASSUME NEW s \in SUBSET D, s # {}, s \ {c[s]} \in Q PROVE s \in Q
    BY ZenonT(40), <1>4, <2>2, <2>4
  <2>5. Q = SUBSET D
    <3>1. Picks(c, D)
      BY <1>1 DEF Picks
    <3> HIDE DEF c, Q
    <3>2. Q \in SUBSET SUBSET D
      BY DEF Q
    <3> QED
      BY <2>3, <2>4, <3>1, <3>2, SetInduction, SMTT(30)
  <2>6. SumFunctionOnSet(fun, D) = it[D]
    BY <1>7, <2>5
  <2> QED
    BY <1>4, <2>6 DEF AddsUp

LEMMA SumOfNone ==
  ASSUME NEW fun
  PROVE  SumFunctionOnSet(fun, {}) = 0
<1>1. IsFiniteSet({}) /\ {} \in SUBSET {}
  BY FS_EmptySet
<1>2. PICK it \in [SUBSET {} -> Nat] : SumFunctionOnSet(fun, {}) = it[{}] /\ AddsUp(it, fun, {})
  BY <1>1, SumIs
<1> QED
  BY <1>1, <1>2 DEF AddsUp

\* A sum grows by what is added, whatever the order it is taken in.
LEMMA SumAdds ==
  ASSUME NEW D, IsFiniteSet(D), NEW y, y \notin D,
         NEW fun, \A x \in D \cup {y} : fun[x] \in Nat
  PROVE  /\ SumFunctionOnSet(fun, D) \in Nat
         /\ SumFunctionOnSet(fun, D \cup {y}) = SumFunctionOnSet(fun, D) + fun[y]
<1> DEFINE E == D \cup {y}
           One(s) == CHOOSE x \in s : TRUE
<1>1. IsFiniteSet(E)
  BY FS_AddElement
<1>2. PICK it \in [SUBSET D -> Nat] : SumFunctionOnSet(fun, D) = it[D] /\ AddsUp(it, fun, D)
  BY SumIs
<1>3. PICK jt \in [SUBSET E -> Nat] : SumFunctionOnSet(fun, E) = jt[E] /\ AddsUp(jt, fun, E)
  <2>1. \A x \in E : fun[x] \in Nat
    OBVIOUS
  <2> HIDE DEF E
  <2> QED
    BY <1>1, <2>1, SumIs
<1>10. /\ \A s \in SUBSET D : it[s] = IF s = {} THEN 0 ELSE fun[One(s)] + it[s \ {One(s)}]
      /\ \A s \in SUBSET E : jt[s] = IF s = {} THEN 0 ELSE fun[One(s)] + jt[s \ {One(s)}]
  BY <1>2, <1>3 DEF AddsUp
<1>4. \A s : s # {} => One(s) \in s
  OBVIOUS
<1> HIDE DEF One
<1>5. \A s \in SUBSET E : IsFiniteSet(s) /\ Cardinality(s) \in Nat
  BY <1>1, FS_Subset, FS_CardinalityType
<1>6. ASSUME NEW s \in SUBSET E, NEW x \in s
      PROVE  s \ {x} \in SUBSET E /\ Cardinality(s \ {x}) < Cardinality(s)
  <2>1. Cardinality(s \ {x}) = Cardinality(s) - 1
    BY <1>5, FS_RemoveElement
  <2> QED
    BY <1>5, <2>1
<1>7. \A s \in SUBSET D : it[s] = jt[s]
  <2> DEFINE Q == {s \in SUBSET D : it[s] = jt[s]}
  <2>1. ASSUME NEW s \in SUBSET D,
               \A t \in SUBSET D : Cardinality(t) < Cardinality(s) => t \in Q
        PROVE  s \in Q
    <3>1. CASE s = {}
      BY <1>10, <3>1
    <3>2. CASE s # {}
      <4>1. s \ {One(s)} \in SUBSET D /\ s \ {One(s)} \in Q
        BY <1>4, <1>6, <2>1, <3>2
      <4>2. it[s] = fun[One(s)] + it[s \ {One(s)}]
        BY <1>10, <3>2
      <4>3. jt[s] = fun[One(s)] + jt[s \ {One(s)}]
        BY <1>10, <3>2
      <4> QED
        BY <4>1, <4>2, <4>3
    <3> QED
      BY <3>1, <3>2
  <2>2. Q = SUBSET D
    <3>1. Q \in SUBSET SUBSET D
      OBVIOUS
    <3> HIDE DEF Q
    <3> QED
      BY <2>1, <3>1, SizeInduction
  <2> QED
    BY <2>2
<1>8. \A s \in SUBSET E : \A x \in s : jt[s] = jt[s \ {x}] + fun[x]
  <2> DEFINE Q == {s \in SUBSET E : \A x \in s : jt[s] = jt[s \ {x}] + fun[x]}
  <2>1. ASSUME NEW s \in SUBSET E,
               \A t \in SUBSET E : Cardinality(t) < Cardinality(s) => t \in Q,
               NEW x \in s
        PROVE  jt[s] = jt[s \ {x}] + fun[x]
    <3> DEFINE z == One(s)
    <3>1. z \in s /\ jt[s] = fun[z] + jt[s \ {z}]
      BY <1>4, <1>10
    <3> HIDE DEF z
    <3>2. CASE x = z
      BY <3>1, <3>2
    <3>3. CASE x # z
      <4>1. s \ {z} \in Q /\ s \ {x} \in Q
        BY <1>6, <2>1, <3>1
      <4>2. jt[s \ {z}] = jt[(s \ {z}) \ {x}] + fun[x]
        BY <3>1, <3>3, <4>1
      <4>3. jt[s \ {x}] = jt[(s \ {x}) \ {z}] + fun[z]
        BY <3>1, <3>3, <4>1
      <4>4. (s \ {x}) \ {z} = (s \ {z}) \ {x} /\ (s \ {x}) \ {z} \in SUBSET E
        OBVIOUS
      <4>5. jt[(s \ {x}) \ {z}] \in Nat /\ fun[z] \in Nat /\ fun[x] \in Nat
        BY <3>1, <4>4
      <4> DEFINE both == jt[(s \ {x}) \ {z}]
      <4>6. jt[s] = fun[z] + (both + fun[x]) /\ jt[s \ {x}] = both + fun[z] /\ both \in Nat
        BY <3>1, <4>2, <4>3, <4>4, <4>5
      <4> HIDE DEF both
      <4> QED
        BY <4>5, <4>6
    <3> QED
      BY <3>2, <3>3
  <2>2. Q = SUBSET E
    <3>1. Q \in SUBSET SUBSET E
      OBVIOUS
    <3>2. ASSUME NEW s \in SUBSET E,
                 \A t \in SUBSET E : Cardinality(t) < Cardinality(s) => t \in Q
          PROVE  s \in Q
      BY <2>1, <3>2
    <3> HIDE DEF Q, E
    <3> QED
      BY <1>1, <3>1, <3>2, SizeInduction
  <2> QED
    BY <2>2
<1>9. D \in SUBSET D /\ E \in SUBSET E /\ y \in E /\ E \ {y} = D
  OBVIOUS
<1> QED
  BY <1>2, <1>3, <1>7, <1>8, <1>9

LEMMA SumIsNat ==
  ASSUME NEW D, IsFiniteSet(D), NEW fun, \A x \in D : fun[x] \in Nat
  PROVE  SumFunctionOnSet(fun, D) \in Nat
<1>1. PICK it \in [SUBSET D -> Nat] : SumFunctionOnSet(fun, D) = it[D]
  BY SumIs
<1> QED
  BY <1>1

\* Nothing, however often, is nothing.
LEMMA SumOfZeros ==
  ASSUME NEW D, IsFiniteSet(D), NEW fun, \A x \in D : fun[x] = 0
  PROVE  SumFunctionOnSet(fun, D) = 0
<1>1. PICK it \in [SUBSET D -> Nat] : SumFunctionOnSet(fun, D) = it[D] /\ AddsUp(it, fun, D)
  <2>1. \A x \in D : fun[x] \in Nat
    OBVIOUS
  <2> QED
    BY <2>1, SumIs
<1> DEFINE c == [s \in SUBSET D |-> CHOOSE x \in s : TRUE]
           Q == {s \in SUBSET D : it[s] = 0}
<1>2. \A s \in SUBSET D : s # {} => c[s] \in s /\ c[s] \in D
  OBVIOUS
<1>3. \A s \in SUBSET D : it[s] = IF s = {} THEN 0 ELSE fun[c[s]] + it[s \ {c[s]}]
  BY <1>1 DEF AddsUp
<1>4. Picks(c, D)
  BY <1>2 DEF Picks
<1> HIDE DEF c
<1>5. {} \in Q
  BY <1>3
<1>6. ASSUME NEW s \in SUBSET D, s # {}, s \ {c[s]} \in Q PROVE s \in Q
  BY <1>2, <1>3, <1>6
<1>7. Q \in SUBSET SUBSET D
  OBVIOUS
<1>8. Q = SUBSET D
  <2> HIDE DEF Q
  <2> QED
    BY <1>4, <1>5, <1>6, <1>7, SetInduction
<1> QED
  BY <1>1, <1>8

\* More of the amounts make no less.
LEMMA SumGrows ==
  ASSUME NEW D, IsFiniteSet(D), NEW part \in SUBSET D, NEW fun, \A x \in D : fun[x] \in Nat
  PROVE  SumFunctionOnSet(fun, part) <= SumFunctionOnSet(fun, D)
<1> DEFINE Rest == D \ part
           Q == {t \in SUBSET Rest : SumFunctionOnSet(fun, part) <= SumFunctionOnSet(fun, part \cup t)}
<1>1. IsFiniteSet(Rest) /\ (\A s \in SUBSET D : IsFiniteSet(s))
  BY FS_Subset
<1>2. \A s \in SUBSET D : SumFunctionOnSet(fun, s) \in Nat
  <2> TAKE s \in SUBSET D
  <2>1. IsFiniteSet(s) /\ \A x \in s : fun[x] \in Nat
    BY <1>1
  <2> QED
    BY <2>1, SumIsNat
<1>3. ASSUME NEW t \in SUBSET Rest,
             \A u \in SUBSET Rest : Cardinality(u) < Cardinality(t) => u \in Q
      PROVE  t \in Q
  <2>1. CASE t = {}
    <3>1. part \cup t = part /\ SumFunctionOnSet(fun, part) \in Nat
      BY <1>2, <2>1
    <3> QED
      BY <3>1
  <2>2. CASE t # {}
    <3>1. PICK y \in t : TRUE
      BY <2>2
    <3> DEFINE u == t \ {y}
    <3>2. IsFiniteSet(t) /\ Cardinality(t) \in Nat /\ Cardinality(u) = Cardinality(t) - 1
      BY <1>1, <3>1, FS_RemoveElement, FS_CardinalityType
    <3>3. u \in Q
      <4>1. u \in SUBSET Rest /\ Cardinality(u) < Cardinality(t)
        BY <3>2
      <4> HIDE DEF u, Q
      <4> QED
        BY <1>3, <4>1
    <3>4. y \notin part \cup u /\ part \cup t = (part \cup u) \cup {y} /\ part \cup u \in SUBSET D /\ y \in D
      BY <3>1
    <3>5. SumFunctionOnSet(fun, part \cup t) = SumFunctionOnSet(fun, part \cup u) + fun[y]
      <4> DEFINE E == part \cup u
      <4>1. IsFiniteSet(E) /\ y \notin E /\ (\A x \in E \cup {y} : fun[x] \in Nat) /\ part \cup t = E \cup {y}
        BY <1>1, <3>4
      <4> HIDE DEF E
      <4>2. SumFunctionOnSet(fun, E \cup {y}) = SumFunctionOnSet(fun, E) + fun[y]
        BY <4>1, SumAdds
      <4> QED
        BY <4>1, <4>2 DEF E
    <3>6. /\ SumFunctionOnSet(fun, part) <= SumFunctionOnSet(fun, part \cup u)
          /\ SumFunctionOnSet(fun, part) \in Nat
          /\ SumFunctionOnSet(fun, part \cup u) \in Nat
          /\ fun[y] \in Nat
      BY <1>2, <3>3, <3>4
    <3>7. SumFunctionOnSet(fun, part) <= SumFunctionOnSet(fun, part \cup t)
      BY <3>5, <3>6
    <3> QED
      BY <3>7
  <2> QED
    BY <2>1, <2>2
<1>4. Q = SUBSET Rest
  <2>1. Q \in SUBSET SUBSET Rest
    OBVIOUS
  <2> HIDE DEF Q, Rest
  <2> QED
    BY <1>1, <1>3, <2>1, SizeInduction
<1>5. Rest \in SUBSET Rest /\ part \cup Rest = D
  OBVIOUS
<1> QED
  BY <1>4, <1>5

(***************************************************************************)
(* Recursion over the first numbers.                                       *)
(***************************************************************************)
\* What passes on from each number to the next holds of all of them.
LEMMA StepInduction ==
  ASSUME NEW N \in Nat, NEW Q \in SUBSET (0 .. N), 0 \in Q,
         \A n \in 1 .. N : n - 1 \in Q => n \in Q
  PROVE  Q = 0 .. N
<1> DEFINE bad == (0 .. N) \ Q
<1>1. SUFFICES ASSUME bad # {} PROVE FALSE
  OBVIOUS
<1>2. bad \in SUBSET Nat
  OBVIOUS
<1>3. PICK n \in bad : \A m \in bad : n <= m
  <2> HIDE DEF bad
  <2> QED
    BY <1>1, <1>2, Least
<1>4. n \in 1 .. N /\ n - 1 \notin bad /\ n - 1 \in 0 .. N
  BY <1>3
<1> QED
  BY <1>4

\* f is worked out one number after another, from base.
Steps(f, N, base, G) ==
  /\ f[0] = base
  /\ \A n \in 1 .. N : f[n] = G[<<n, f[n - 1]>>]

LEMMA StepRecursion ==
  ASSUME NEW N \in Nat, NEW A, NEW base \in A, NEW G \in [(1 .. N) \X A -> A]
  PROVE  \E f \in [0 .. N -> A] : Steps(f, N, base, G)
<1> DEFINE done(n) == {f \in [0 .. n -> A] : f[0] = base /\ \A m \in 1 .. n : f[m] = G[<<m, f[m - 1]>>]}
           Q == {n \in 0 .. N : done(n) # {}}
<1>1. 0 \in Q
  <2>1. [n \in 0 .. 0 |-> base] \in done(0)
    OBVIOUS
  <2> QED
    BY <2>1
<1>2. ASSUME NEW n \in 1 .. N, n - 1 \in Q PROVE n \in Q
  <2>1. PICK f : f \in done(n - 1)
    BY <1>2
  <2> DEFINE g == [m \in 0 .. n |-> IF m < n THEN f[m] ELSE G[<<n, f[n - 1]>>]]
  <2>2. f \in [0 .. n - 1 -> A] /\ f[0] = base /\ \A m \in 1 .. n - 1 : f[m] = G[<<m, f[m - 1]>>]
    BY <2>1
  <2>3. n - 1 \in 0 .. n - 1 /\ f[n - 1] \in A /\ G[<<n, f[n - 1]>>] \in A
    BY <2>2
  <2>4. g \in [0 .. n -> A]
    BY <2>2, <2>3
  <2>5. g[0] = base /\ \A m \in 1 .. n : g[m] = G[<<m, g[m - 1]>>]
    <3>1. g[0] = base
      BY <2>2
    <3>2. ASSUME NEW m \in 1 .. n PROVE g[m] = G[<<m, g[m - 1]>>]
      <4>1. m - 1 \in 0 .. n /\ m - 1 < n /\ g[m - 1] = f[m - 1]
        OBVIOUS
      <4>2. CASE m < n
        <5>1. m \in 1 .. n - 1 /\ g[m] = f[m]
          BY <4>2
        <5> QED
          BY <2>2, <4>1, <5>1
      <4>3. CASE m = n
        BY <4>1, <4>3
      <4> QED
        BY <4>2, <4>3
    <3> QED
      BY <3>1, <3>2
  <2>6. g \in done(n)
    BY <2>4, <2>5
  <2>7. n \in 0 .. N
    OBVIOUS
  <2> HIDE DEF done
  <2> QED
    BY <2>6, <2>7
<1>3. Q = 0 .. N
  <2>1. Q \in SUBSET (0 .. N)
    OBVIOUS
  <2> HIDE DEF Q
  <2> QED
    BY <1>1, <1>2, <2>1, StepInduction
<1>4. PICK f : f \in done(N)
  <2>1. N \in 0 .. N
    OBVIOUS
  <2> HIDE DEF done
  <2> QED
    BY <1>3, <2>1
<1> QED
  BY <1>4 DEF Steps

-----------------------------------------------------------------------------
(* The loop over the candidates.                                           *)

\* AppliedInTurn says which candidates are applied, Conserved that money is
\* only moved from remaining to discount; together with the types they are
\* inductive.
IInv == TypeOK /\ Conserved /\ AppliedInTurn /\ NeverOwed

LEMMA InitIInv == Init => IInv
  <1> SUFFICES ASSUME Init PROVE IInv
    OBVIOUS
  <1>1. TypeOK
    <2>1. Len(offers) \in Nat
      BY DEF Init
    <2>2. next \in 1 .. Len(offers) + 1 /\ stamp \in 0 .. Len(offers) /\ remaining \in Nat
      BY <2>1 DEF Init, Fresh
    <2> QED
      BY <2>2 DEF Init, Fresh, TypeOK
  <1>2. Conserved /\ NeverOwed
    BY DEF Init, Fresh, Conserved, NeverOwed
  <1>3. 1 .. next - 1 = {}
    BY DEF Init, Fresh
  <1>4. AppliedInTurn
    BY <1>3 DEF Init, Fresh, AppliedInTurn
  <1> QED
    BY <1>1, <1>2, <1>4 DEF IInv

\* With something left to take off, being cut does not make a worth vanish.
LEMMA CountsIsWorthwhile ==
  ASSUME TypeOK, Looping
  PROVE  /\ offers[next] \in Offer
         /\ Counts(offers[next]) <=> Worthwhile(offers[next])
         /\ Capped(offers[next].raw) \in 0 .. remaining
  <1>1. offers[next] \in Offer
    BY DEF TypeOK, Looping
  <1>2. remaining \in Nat /\ remaining > 0
    BY DEF TypeOK, Looping
  <1>3. offers[next].raw \in Nat /\ offers[next].targeted \in Nat
    BY <1>1 DEF Offer
  <1>4. Capped(offers[next].raw) \in 0 .. remaining /\ (Capped(offers[next].raw) > 0 <=> offers[next].raw > 0)
    BY <1>2, <1>3 DEF Capped
  <1> QED
    BY <1>1, <1>4 DEF Counts, Worthwhile

\* The candidates whose turn has come, one step later.
LEMMA LoopTurn ==
  ASSUME TypeOK, Looping
  PROVE  1 .. (next + 1) - 1 = (1 .. next - 1) \cup {next}
  BY DEF TypeOK, Looping

LEMMA SkipKeeps ==
  ASSUME IInv, Skip
  PROVE  IInv'
  <1> USE DEF input, evaluation
  <1>1. TypeOK /\ Looping /\ ~ Worthwhile(offers[next])
    BY CountsIsWorthwhile DEF IInv, Skip
  <1>2. TypeOK'
    BY <1>1 DEF TypeOK, Skip, Looping
  <1>3. Conserved' /\ NeverOwed'
    BY DEF IInv, Skip, Conserved, NeverOwed
  <1>4. applied' = {k \in 1 .. next' - 1 : Worthwhile(offers'[k])}
    BY <1>1, LoopTurn DEF IInv, Skip, AppliedInTurn
  <1>5. AppliedInTurn'
    BY <1>1, <1>4 DEF IInv, Skip, AppliedInTurn, Looping
  <1> QED
    BY <1>2, <1>3, <1>5 DEF IInv

LEMMA ApplyKeeps ==
  ASSUME IInv, Apply
  PROVE  IInv'
  <1> USE DEF input
  <1> DEFINE off == Capped(offers[next].raw)
  <1>1. TypeOK /\ Looping /\ Worthwhile(offers[next])
    BY CountsIsWorthwhile DEF IInv, Apply
  <1>2. off \in 0 .. remaining /\ offers[next].free \in BOOLEAN
    BY <1>1, CountsIsWorthwhile DEF Offer
  <1>3. remaining' = remaining - off /\ discount' = discount + off
    BY DEF Apply
  <1> HIDE DEF off
  <1>4. next \in 1 .. Len(offers) /\ next \notin applied /\ \A k \in applied : k \in Nat /\ k < next
    BY <1>1 DEF IInv, TypeOK, Looping, AppliedInTurn
  <1>5. TypeOK'
    <2>1. remaining' \in Nat /\ discount' \in Nat
      BY <1>1, <1>2, <1>3 DEF TypeOK
    <2>2. next' \in 1 .. Len(offers) + 1 /\ stamp' \in 0 .. Len(offers) /\ applied' \subseteq DOMAIN offers
      BY <1>1, <1>4 DEF TypeOK, Apply
    <2>3. freeShipping' \in BOOLEAN
      BY <1>1, <1>2 DEF TypeOK, Apply
    <2> QED
      BY <1>1, <2>1, <2>2, <2>3 DEF TypeOK, Apply
  <1>6. Conserved'
    BY <1>1, <1>2, <1>3 DEF IInv, TypeOK, Conserved, Apply
  <1>7. NeverOwed'
    BY <1>1 DEF Apply, NeverOwed, Looping
  <1>8. applied' = {k \in 1 .. next' - 1 : Worthwhile(offers'[k])}
    BY <1>1, LoopTurn DEF IInv, Apply, AppliedInTurn
  <1>9. freeShipping' = \E k \in applied' : offers'[k].free
    BY <1>1, <1>2 DEF IInv, Apply, AppliedInTurn, TypeOK
  <1>10. applied' # {} /\ stamp' \in applied' /\ \A k \in applied' : stamp' <= k
    <2>1. CASE applied = {}
      BY <2>1, <1>4 DEF IInv, Apply, AppliedInTurn
    <2>2. CASE applied # {}
      <3>1. stamp \in applied /\ stamp # 0 /\ stamp <= next /\ \A k \in applied : stamp <= k
        BY <2>2, <1>1, <1>4 DEF IInv, AppliedInTurn, TypeOK
      <3> QED
        BY <3>1 DEF Apply
    <2> QED
      BY <2>1, <2>2
  <1>11. total' = {}
    BY <1>1 DEF Apply, Looping
  <1>12. AppliedInTurn'
    BY <1>8, <1>9, <1>10, <1>11 DEF AppliedInTurn
  <1> QED
    BY <1>5, <1>6, <1>7, <1>12 DEF IInv

LEMMA PriceKeeps ==
  ASSUME IInv, Price
  PROVE  IInv'
  <1> USE DEF input, evaluation
  <1> DEFINE off == IF coupon + discount > subtotal THEN subtotal ELSE coupon + discount
             shipping == IF freeShipping THEN 0 ELSE quote
  <1>1. off \in 0 .. subtotal /\ shipping \in Nat /\ subtotal \in Nat
    BY DEF IInv, TypeOK
  <1>2. total' = {subtotal - off + shipping}
    BY DEF Price
  <1>3. shipping' = shipping
    BY DEF Price
  <1>4. subtotal - off + shipping \in Nat /\ subtotal - off + shipping >= shipping
    <2> HIDE DEF off, shipping
    <2> QED
      BY <1>1
  <1>5. TypeOK'
    BY <1>2, <1>4 DEF IInv, TypeOK, Price
  <1>6. NeverOwed'
    BY <1>2, <1>3, <1>4 DEF NeverOwed
  <1>7. Conserved'
    BY DEF IInv, Conserved, Price
  <1>8. next <= Len(offers) => remaining = 0
    BY DEF IInv, TypeOK, Price, Looping
  <1>9. AppliedInTurn'
    BY <1>8 DEF IInv, AppliedInTurn, Price
  <1> QED
    BY <1>5, <1>6, <1>7, <1>9 DEF IInv

THEOREM Inductive == Spec => []IInv
  <1>1. IInv /\ [Next]_vars => IInv'
    <2> SUFFICES ASSUME IInv, [Next]_vars PROVE IInv'
      OBVIOUS
    <2>1. CASE Skip
      BY <2>1, SkipKeeps
    <2>2. CASE Apply
      BY <2>2, ApplyKeeps
    <2>3. CASE Price
      BY <2>3, PriceKeeps
    <2>4. CASE UNCHANGED vars
      BY <2>4 DEF IInv, TypeOK, Conserved, AppliedInTurn, NeverOwed, vars, input, evaluation
    <2> QED
      BY <2>1, <2>2, <2>3, <2>4 DEF Next
  <1> QED
    BY <1>1, InitIInv, PTL DEF Spec

\* Amounts stay amounts whatever the candidates are: nothing is taken off that
\* is not there (promotion.engine.ts, "never more than subtotal").
THEOREM TypeCorrect == Spec => []TypeOK
  BY Inductive, PTL DEF IInv

\* An order claims a use of exactly the campaigns that had something to give
\* when their turn came, and is stamped with the first of them.
THEOREM ClaimsInTurn == Spec => []AppliedInTurn
  BY Inductive, PTL DEF IInv

\* No stack of coupon and campaigns makes a total negative or eats into the
\* shipping.
THEOREM TotalIsOwed == Spec => []NeverOwed
  BY Inductive, PTL DEF IInv

-----------------------------------------------------------------------------
\* What is worked out for a cart and a queue are amounts of money.
LEMMA TotalIsNat ==
  ASSUME NEW fun, IsFiniteSet(DOMAIN fun), \A i \in DOMAIN fun : fun[i] \in Nat
  PROVE  SumFunction(fun) \in Nat
BY SumIsNat DEF SumFunction

LEMMA LinesAdd ==
  ASSUME NEW lines \in Carts
  PROVE  /\ IsFiniteSet(DOMAIN lines)
         /\ \A i \in DOMAIN lines : lineTotal(lines[i]) \in Nat
         /\ Subtotal(lines) \in Nat
<1>1. IsFiniteSet(DOMAIN lines) /\ \A i \in DOMAIN lines : lineTotal(lines[i]) \in Nat
  BY PricingAssumption DEF lineTotal
<1> DEFINE fun == [i \in DOMAIN lines |-> lineTotal(lines[i])]
<1>2. IsFiniteSet(DOMAIN fun) /\ \A i \in DOMAIN fun : fun[i] \in Nat
  BY <1>1
<1>3. Subtotal(lines) = SumFunction(fun)
  BY DEF Subtotal, Total
<1> HIDE DEF fun
<1>4. SumFunction(fun) \in Nat
  BY <1>2, TotalIsNat
<1> QED
  BY <1>1, <1>3, <1>4

LEMMA TargetedIsNat ==
  ASSUME NEW lines \in Carts, NEW targets
  PROVE  targetedSubtotal(lines, targets) \in Nat
<1> DEFINE Hit(line) == targets = {} \/ \E t \in targets : Hits(t, line)
           fun == [i \in DOMAIN lines |-> IF Hit(lines[i]) THEN lineTotal(lines[i]) ELSE 0]
<1>1. targetedSubtotal(lines, targets) = SumFunction(fun)
  BY DEF targetedSubtotal, Total
<1>2. IsFiniteSet(DOMAIN fun) /\ \A i \in DOMAIN fun : fun[i] \in Nat
  <2> HIDE DEF Hit
  <2> QED
    BY LinesAdd
<1> HIDE DEF fun
<1> QED
  BY <1>1, <1>2, TotalIsNat

\* Percentages of nothing, and cuts to nothing, are nothing.
LEMMA RewardIs ==
  ASSUME NEW reward, NEW targeted \in Nat, reward.value \in Nat, reward.maxDiscount \in Nat \cup {None}
  PROVE  /\ rewardDiscount(reward, targeted) \in Nat
         /\ targeted = 0 => rewardDiscount(reward, targeted) = 0
<1>1. /\ Percent(targeted, reward.value) \in Nat
      /\ targeted = 0 => Percent(targeted, reward.value) = 0
  <2>1. targeted * reward.value \in Nat /\ (targeted = 0 => targeted * reward.value = 0)
    OBVIOUS
  <2> DEFINE product == targeted * reward.value
  <2>2. product \in Nat => product \div 100 \in Nat
    <3> HIDE DEF product
    <3> QED
      OBVIOUS
  <2>3. 0 \div 100 = 0
    OBVIOUS
  <2> QED
    BY <2>1, <2>2, <2>3 DEF Percent
<1>2. None \notin Nat
  BY PricingAssumption
<1> HIDE DEF Percent
<1> QED
  BY <1>1, <1>2 DEF rewardDiscount, AtMost

LEMMA OfferIs ==
  ASSUME NEW lines \in Carts, NEW queue \in Queues, NEW k \in DOMAIN queue, NEW isFirst \in BOOLEAN
  PROVE  LET o == OfferOf(queue[k], lines, isFirst)
         IN  o \in Offer /\ (o.targeted = 0 => o.raw = 0)
<1> DEFINE c == queue[k]
           targeted == targetedSubtotal(lines, c.targets)
           fun == [i \in DOMAIN c.rewards |-> rewardDiscount(c.rewards[i], targeted)]
           q == \A rule \in c.rules : rulePasses(rule, lines, isFirst)
           f == \E i \in DOMAIN c.rewards : c.rewards[i].type = "FREE_SHIPPING"
<1>1. targeted \in Nat
  BY TargetedIsNat
<1>2. /\ IsFiniteSet(DOMAIN fun)
      /\ \A i \in DOMAIN fun : fun[i] \in Nat
      /\ targeted = 0 => \A i \in DOMAIN fun : fun[i] = 0
  <2> HIDE DEF targeted
  <2>1. /\ IsFiniteSet(DOMAIN c.rewards)
        /\ \A i \in DOMAIN c.rewards : c.rewards[i].value \in Nat /\ c.rewards[i].maxDiscount \in Nat \cup {None}
    BY PricingAssumption
  <2> HIDE DEF c
  <2> QED
    BY <1>1, <2>1, RewardIs
<1>3. SumFunction(fun) \in Nat /\ (targeted = 0 => SumFunction(fun) = 0)
  <2> HIDE DEF fun, targeted
  <2>1. SumFunction(fun) \in Nat
    BY <1>2, TotalIsNat
  <2>2. targeted = 0 => SumFunction(fun) = 0
    BY <1>2, SumOfZeros DEF SumFunction
  <2> QED
    BY <2>1, <2>2
<1>4. OfferOf(c, lines, isFirst) = [qualifies |-> q, targeted |-> targeted, raw |-> SumFunction(fun), free |-> f]
  BY DEF OfferOf, Total
<1>5. q \in BOOLEAN /\ f \in BOOLEAN
  OBVIOUS
<1> HIDE DEF q, f, fun, targeted
<1> QED
  BY <1>1, <1>3, <1>4, <1>5 DEF Offer

LEMMA CouponIs ==
  ASSUME NEW c \in Coupons, NEW amount \in Nat
  PROVE  couponDiscount(c, amount) \in 0 .. amount
<1>1. CASE c = None
  BY <1>1 DEF couponDiscount
<1>2. CASE c # None
  <2>1. c.value \in Nat /\ c.maxDiscount \in Nat \cup {None} /\ None \notin Nat
    BY <1>2, PricingAssumption
  <2>2. Percent(amount, c.value) \in Nat
    <3> DEFINE product == amount * c.value
    <3>1. product \in Nat
      BY <2>1
    <3>2. product \in Nat => product \div 100 \in Nat
      <4> HIDE DEF product
      <4> QED
        OBVIOUS
    <3> QED
      BY <3>1, <3>2 DEF Percent
  <2> DEFINE off == IF c.type = "PERCENTAGE" THEN AtMost(Percent(amount, c.value), c.maxDiscount) ELSE c.value
  <2>3. off \in Nat
    BY <2>1, <2>2 DEF AtMost
  <2>4. couponDiscount(c, amount) = AtMost(off, amount)
    BY <1>2 DEF couponDiscount
  <2> HIDE DEF off
  <2> QED
    BY <2>3, <2>4, <2>1 DEF AtMost
<1> QED
  BY <1>1, <1>2

-----------------------------------------------------------------------------
Worths == [k \in DOMAIN offers |-> Worth(k)]

\* What the campaigns before place n are worth together.
Before(n) == SumFunctionOnSet(Worths, 1 .. n - 1)

\* For goods it is not for, a campaign takes nothing off; so far the campaigns
\* took off all they are worth, or everything there was.
PriceInv ==
  /\ \A k \in DOMAIN offers : offers[k].targeted = 0 => offers[k].raw = 0
  /\ discount = IF Before(next) > subtotal THEN subtotal ELSE Before(next)


LEMMA QueueIsOffered ==
  ASSUME PricingInit
  PROVE  Init /\ \A k \in DOMAIN offers : offers[k].targeted = 0 => offers[k].raw = 0
<1>1. subtotal \in Nat
  BY LinesAdd DEF PricingInit
<1>2. coupon \in 0 .. subtotal
  BY <1>1, CouponIs DEF PricingInit
<1>3. quote \in Nat
  BY PricingAssumption DEF PricingInit
<1>4. PICK queue \in Queues : offers = [i \in DOMAIN queue |-> OfferOf(queue[i], cart, first)]
  BY DEF PricingInit
<1>5. Len(queue) \in Nat /\ DOMAIN queue = 1 .. Len(queue)
  BY PricingAssumption
<1>6. cart \in Carts /\ first \in BOOLEAN
  BY DEF PricingInit
<1>7. \A k \in DOMAIN queue : /\ OfferOf(queue[k], cart, first) \in Offer
                              /\ OfferOf(queue[k], cart, first).targeted = 0 => OfferOf(queue[k], cart, first).raw = 0
  BY <1>6, OfferIs
<1>8. offers \in Seq(Offer)
  BY <1>4, <1>5, <1>7
<1> QED
  BY <1>1, <1>2, <1>3, <1>4, <1>7, <1>8 DEF PricingInit, Init

LEMMA WorthsAre ==
  ASSUME TypeOK
  PROVE  /\ Len(offers) \in Nat /\ DOMAIN offers = 1 .. Len(offers)
         /\ DOMAIN Worths = 1 .. Len(offers)
         /\ \A k \in DOMAIN offers : Worths[k] = Worth(k) /\ Worths[k] \in Nat /\ offers[k] \in Offer
<1>1. Len(offers) \in Nat /\ DOMAIN offers = 1 .. Len(offers) /\ \A k \in DOMAIN offers : offers[k] \in Offer
  BY DEF TypeOK
<1>2. \A k \in DOMAIN offers : offers[k].raw \in Nat /\ offers[k].qualifies \in BOOLEAN
  BY <1>1 DEF Offer
<1> QED
  BY <1>1, <1>2 DEF Worths, Worth

LEMMA BeforeGrows ==
  ASSUME TypeOK, NEW n \in 1 .. Len(offers) + 1
  PROVE  /\ Before(n) \in Nat
         /\ n <= Len(offers) => Before(n + 1) = Before(n) + Worth(n)
         /\ Before(n) <= SumFunction(Worths)
<1>1. n \in Nat /\ Len(offers) \in Nat
  BY WorthsAre
<1> DEFINE D == 1 .. n - 1
<1>2. IsFiniteSet(D) /\ IsFiniteSet(1 .. Len(offers))
  BY <1>1, FS_Interval
<1>3. D \in SUBSET (1 .. Len(offers)) /\ n \notin D /\ \A x \in D : Worths[x] \in Nat
  BY <1>1, WorthsAre
<1>4. Before(n) = SumFunctionOnSet(Worths, D)
  BY DEF Before
<1> HIDE DEF D
<1>5. Before(n) \in Nat
  BY <1>2, <1>3, <1>4, SumIsNat
<1>6. ASSUME n <= Len(offers) PROVE Before(n + 1) = Before(n) + Worth(n)
  <2>1. 1 .. (n + 1) - 1 = D \cup {n} /\ n \in 1 .. Len(offers)
    BY <1>1, <1>6 DEF D
  <2>2. \A x \in D \cup {n} : Worths[x] \in Nat
    BY <1>3, <2>1, WorthsAre
  <2>3. SumFunctionOnSet(Worths, D \cup {n}) = SumFunctionOnSet(Worths, D) + Worths[n]
    BY <1>2, <1>3, <2>2, SumAdds
  <2>4. Worths[n] = Worth(n)
    BY <2>1, WorthsAre
  <2> QED
    BY <1>4, <2>1, <2>3, <2>4 DEF Before
<1>7. Before(n) <= SumFunction(Worths)
  <2> DEFINE All == 1 .. Len(offers)
  <2>1. SumFunction(Worths) = SumFunctionOnSet(Worths, All)
    BY WorthsAre DEF SumFunction
  <2>2. IsFiniteSet(All) /\ D \in SUBSET All /\ \A x \in All : Worths[x] \in Nat
    BY <1>2, <1>3, WorthsAre
  <2> HIDE DEF All
  <2> QED
    BY <1>4, <2>1, <2>2, SumGrows
<1> QED
  BY <1>5, <1>6, <1>7

LEMMA PriceInvIsKept ==
  ASSUME IInv, PriceInv, [Next]_vars
  PROVE  PriceInv'
<1> USE DEF input, evaluation
<1>1. TypeOK /\ Conserved
  BY DEF IInv
<1>2. subtotal \in Nat /\ discount \in Nat /\ remaining \in Nat /\ remaining = subtotal - discount
  BY <1>1 DEF TypeOK, Conserved
<1>3. ASSUME UNCHANGED <<offers, subtotal, discount, next>> PROVE PriceInv'
  BY <1>3 DEF PriceInv, Before, Worths, Worth
<1>4. ASSUME Looping
      PROVE  /\ next \in DOMAIN offers
             /\ Before(next) \in Nat
             /\ Before(next + 1) = Before(next) + Worth(next)
             /\ discount = Before(next)
             /\ remaining > 0
             /\ offers[next].raw \in Nat /\ offers[next].targeted \in Nat
             /\ offers[next].targeted = 0 => offers[next].raw = 0
  <2>1. next \in DOMAIN offers /\ next \in 1 .. Len(offers) + 1 /\ next <= Len(offers) /\ remaining > 0
    BY <1>1, <1>4, WorthsAre DEF Looping, TypeOK
  <2>2. Before(next) \in Nat /\ Before(next + 1) = Before(next) + Worth(next)
    BY <1>1, <2>1, BeforeGrows
  <2>3. discount = Before(next)
    BY <1>2, <2>1, <2>2 DEF PriceInv
  <2>4. offers[next] \in Offer
    BY <1>1, <2>1, WorthsAre
  <2> QED
    BY <2>1, <2>2, <2>3, <2>4 DEF PriceInv, Offer
<1>5. CASE Skip
  <2>1. Looping /\ ~ Counts(offers[next]) /\ next' = next + 1 /\ UNCHANGED <<offers, subtotal, discount>>
    BY <1>5 DEF Skip
  <2>2. Worth(next) = 0
    BY <1>2, <1>4, <2>1 DEF Worth, Counts, Capped
  <2>3. Before(next)' = Before(next + 1)
    BY <2>1 DEF Before, Worths, Worth
  <2>4. Before(next)' = Before(next)
    BY <1>4, <2>1, <2>2, <2>3
  <2> QED
    BY <2>1, <2>4 DEF PriceInv
<1>6. CASE Apply
  <2>1. /\ Looping /\ Counts(offers[next]) /\ next' = next + 1 /\ UNCHANGED <<offers, subtotal>>
        /\ discount' = discount + Capped(offers[next].raw)
    BY <1>6 DEF Apply
  <2>2. Worth(next) = offers[next].raw
    BY <2>1 DEF Worth, Counts
  <2>3. Before(next)' = Before(next + 1)
    BY <2>1 DEF Before, Worths, Worth
  <2>4. Before(next)' = discount + offers[next].raw
    BY <1>4, <2>1, <2>2, <2>3
  <2>5. discount' = IF discount + offers[next].raw > subtotal THEN subtotal ELSE discount + offers[next].raw
    BY <1>2, <1>4, <2>1 DEF Capped
  <2> QED
    BY <2>1, <2>4, <2>5 DEF PriceInv
<1>7. CASE Price
  BY <1>3, <1>7 DEF Price
<1>8. CASE UNCHANGED vars
  BY <1>3, <1>8 DEF vars
<1> QED
  BY <1>5, <1>6, <1>7, <1>8 DEF Next

\* Where the loop stops, what was taken off and what all are worth come to the
\* same charge.
LEMMA ChargedForAll ==
  ASSUME IInv, PriceInv, PriceIsRight, [Next]_vars
  PROVE  PriceIsRight'
<1> USE DEF input, evaluation
<1>1. TypeOK /\ Conserved /\ AppliedInTurn
  BY DEF IInv
<1>2. ASSUME UNCHANGED <<total, coupon, offers, subtotal, quote, applied>> PROVE PriceIsRight'
  BY <1>2 DEF PriceIsRight, Worth
<1>3. CASE Price
  <2> DEFINE all == SumFunction(Worths)
             free == \E k \in applied : offers[k].free
  <2>1. /\ subtotal \in Nat /\ coupon \in 0 .. subtotal /\ discount \in Nat /\ remaining = subtotal - discount
        /\ remaining \in Nat /\ next \in 1 .. Len(offers) + 1 /\ Len(offers) \in Nat /\ quote \in Nat
    BY <1>1 DEF TypeOK, Conserved
  <2>2. Before(next) \in Nat /\ Before(next) <= all
    BY <1>1, <2>1, BeforeGrows
  <2>3. all \in Nat
    <3>1. IsFiniteSet(DOMAIN Worths) /\ \A i \in DOMAIN Worths : Worths[i] \in Nat
      BY <1>1, <2>1, WorthsAre, FS_Interval
    <3> QED
      BY <3>1, TotalIsNat
  <2>4. next > Len(offers) \/ discount = subtotal
    BY <1>3, <2>1 DEF Price, Looping
  <2>5. next > Len(offers) => Before(next) = all
    <3>1. next > Len(offers) => 1 .. next - 1 = DOMAIN Worths
      BY <1>1, <2>1, WorthsAre
    <3> QED
      BY <3>1 DEF Before, SumFunction
  <2>6. (IF coupon + all > subtotal THEN 0 ELSE subtotal - (coupon + all))
          = subtotal - (IF coupon + discount > subtotal THEN subtotal ELSE coupon + discount)
    <3>1. discount = IF Before(next) > subtotal THEN subtotal ELSE Before(next)
      BY DEF PriceInv
    <3> HIDE DEF all
    <3> QED
      BY <2>1, <2>2, <2>3, <2>4, <2>5, <3>1
  <2>7. freeShipping = free
    BY <1>1 DEF AppliedInTurn
  <2>8. /\ total' = {subtotal - (IF coupon + discount > subtotal THEN subtotal ELSE coupon + discount)
                      + (IF freeShipping THEN 0 ELSE quote)}
        /\ UNCHANGED <<coupon, offers, subtotal, quote, applied>>
    BY <1>3 DEF Price
  <2>9. all = SumFunction([k \in DOMAIN offers |-> Worth(k)])
    BY DEF Worths
  <2>10. total' = {(IF coupon + all > subtotal THEN 0 ELSE subtotal - (coupon + all)) + (IF free THEN 0 ELSE quote)}
    <3> HIDE DEF all, free
    <3> QED
      BY <2>6, <2>7, <2>8
  <2> QED
    BY <2>8, <2>9, <2>10 DEF PriceIsRight, Worth
<1>4. CASE Skip \/ Apply
  <2>1. total' = {}
    BY <1>4 DEF Skip, Apply, Looping
  <2> QED
    BY <2>1 DEF PriceIsRight
<1>5. CASE UNCHANGED vars
  BY <1>2, <1>5 DEF vars
<1> QED
  BY <1>3, <1>4, <1>5 DEF Next

\* In whatever order the campaigns of a queue are looked at, and wherever the
\* loop stops, the customer is charged the subtotal less the coupon and all
\* the qualifying campaigns are worth (PromotionEngine.evaluate, the total of
\* createOrderFromItems).
THEOREM PriceIsRightHolds == PricingSpec => []PriceIsRight
<1>1. PricingInit => Init /\ PriceInv /\ PriceIsRight
  <2> SUFFICES ASSUME PricingInit PROVE Init /\ PriceInv /\ PriceIsRight
    OBVIOUS
  <2>1. Init /\ \A k \in DOMAIN offers : offers[k].targeted = 0 => offers[k].raw = 0
    BY QueueIsOffered
  <2>2. next = 1 /\ discount = 0 /\ total = {} /\ subtotal \in Nat
    BY <2>1 DEF Init, Fresh
  <2>3. Before(next) = 0
    <3>1. 1 .. next - 1 = {}
      BY <2>2
    <3> QED
      BY <3>1, SumOfNone DEF Before
  <2> QED
    BY <2>1, <2>2, <2>3 DEF PriceInv, PriceIsRight
<1>2. PricingSpec => Spec
  <2>1. PricingInit => Init
    BY <1>1
  <2>2. [PricingNext]_<<vars, cart, first>> => [Next]_vars
    BY DEF PricingNext
  <2> QED
    BY <2>1, <2>2, PTL DEF PricingSpec, Spec
<1>3. IInv /\ PriceInv /\ PriceIsRight /\ [Next]_vars => (PriceInv /\ PriceIsRight)'
  BY PriceInvIsKept, ChargedForAll
<1> QED
  <2>1. PricingInit => PriceInv /\ PriceIsRight
    BY <1>1
  <2>2. [PricingNext]_<<vars, cart, first>> => [Next]_vars
    BY DEF PricingNext
  <2> QED
    BY <1>2, <1>3, <2>1, <2>2, Inductive, PTL DEF PricingSpec

-----------------------------------------------------------------------------
(***************************************************************************)
(* Campaigns.  What an edit is about to delete is what the campaign has,   *)
(* when no other edit is under way for it; then the children are always    *)
(* the rows of one request.                                                *)
(***************************************************************************)
ChildRow == [edit : Nat, child : Children]

Request == [at : {"insert", "clear", "patch", "delete"}, id : CampaignIds,
            body : Body \cup {Unsent}, number : Nat, doomed : SUBSET ChildRow]

CampaignTypeOK ==
  /\ children \in [CampaignIds -> SUBSET ChildRow]
  /\ sent \in [CampaignIds -> SUBSET Children]
  /\ edits \in Nat
  /\ edit \in [Editors -> Request \cup {Unsent}]
  /\ \A e \in Busy : edit[e].at # "delete" => edit[e].body \in Body

OneEdit(c) == \A e, o \in Busy : edit[e].id = c /\ edit[o].id = c => e = o

RowsOfOne(c) == \E n \in Nat : children[c] = Rows(n, sent[c])

EditInv ==
  \A c \in CampaignIds \ crossed :
    /\ OneEdit(c)
    /\ RowsOfOne(c)
    /\ \A e \in Busy : edit[e].id = c /\ edit[e].at = "patch"
                         => edit[e].doomed = Doomed(c, edit[e].body)

CampaignInv == CampaignTypeOK /\ EditInv

LEMMA RowsAreTyped ==
  ASSUME NEW n \in Nat, NEW list \in SUBSET Children
  PROVE  Rows(n, list) \in SUBSET ChildRow
BY DEF Rows, ChildRow

\* A step that takes up no request leaves the campaigns crossed as they were, and
\* what holds of the others it does not write.
LEMMA EditKept ==
  ASSUME CampaignInv, NEW e \in Busy, NEW k \in CampaignIds, edit[e].id = k,
         UNCHANGED crossed, \A o \in Editors \ {e} : edit'[o] = edit[o],
         e \in Busy' => edit'[e].id = k,
         \A c \in CampaignIds \ {k} : children'[c] = children[c] /\ sent'[c] = sent[c],
         k \notin crossed =>
           /\ RowsOfOne(k)'
           /\ e \in Busy' /\ edit'[e].at = "patch"
                => edit'[e].doomed = Doomed(k, edit[e].body)'
  PROVE  EditInv'
<1> USE DEF CampaignInv
<1>1. e \in Editors /\ Busy' \subseteq Busy
  BY DEF Busy
<1> SUFFICES ASSUME NEW c \in CampaignIds \ crossed'
             PROVE  /\ OneEdit(c)' /\ RowsOfOne(c)'
                    /\ \A o \in Busy' : edit'[o].id = c /\ edit'[o].at = "patch"
                                          => edit'[o].doomed = Doomed(c, edit[o].body)'
  BY DEF EditInv
<1>2. \A o \in Busy' : edit'[o].id = edit[o].id
  BY <1>1 DEF Busy
<1>3. OneEdit(c)'
  BY <1>1, <1>2 DEF EditInv, OneEdit
<1>4. CASE c = k
  <2>1. \A o \in Busy' : edit'[o].id = c => o = e
    BY <1>1, <1>2, <1>4 DEF EditInv, OneEdit
  <2> QED
    BY <1>3, <1>4, <2>1
<1>5. CASE c # k
  <2>1. RowsOfOne(c)'
    BY <1>5 DEF EditInv, RowsOfOne
  <2>2. ASSUME NEW o \in Busy', edit'[o].id = c, edit'[o].at = "patch"
        PROVE  edit'[o].doomed = Doomed(c, edit[o].body)'
    <3>1. o \in Busy /\ o # e /\ edit'[o] = edit[o]
      BY <1>1, <1>2, <1>5, <2>2 DEF Busy
    <3> QED
      BY <1>5, <2>2, <3>1 DEF EditInv, Doomed
  <2> QED
    BY <1>3, <2>1, <2>2
<1> QED
  BY <1>4, <1>5

LEMMA CampaignTypes ==
  ASSUME CampaignTypeOK, [CampaignNext]_campaignVars
  PROVE  CampaignTypeOK'
<1> USE DEF CampaignTypeOK
<1>1. ASSUME NEW e \in Editors, NEW c \in CampaignIds, NEW body \in Body \cup {Unsent},
             NEW at \in {"insert", "clear", "delete"}, at # "delete" => body \in Body,
             Begin(e, c, body, at), UNCHANGED <<children, sent>>
      PROVE  CampaignTypeOK'
  <2> DEFINE request == [at |-> at, id |-> c, body |-> body, number |-> edits', doomed |-> {}]
  <2>1. edits' \in Nat /\ edit' = [edit EXCEPT ![e] = request]
    BY <1>1 DEF Begin
  <2>2. request \in Request
    BY <2>1 DEF Request
  <2>3. edit' \in [Editors -> Request \cup {Unsent}]
    BY <2>1, <2>2
  <2>4. ASSUME NEW o \in Busy' PROVE edit'[o].at # "delete" => edit'[o].body \in Body
    BY <1>1, <2>1, <2>4 DEF Busy
  <2> QED
    BY <1>1, <2>1, <2>3, <2>4
<1>2. ASSUME NEW e \in Editors, NEW c \in CampaignIds, NEW body \in Bodies,
             createPromotion(e, c, body) \/ updatePromotion(e, c, body)
      PROVE  CampaignTypeOK'
  <2>1. body \in Body
    BY CampaignsAssumption
  <2> QED
    BY <1>1, <1>2, <2>1 DEF createPromotion, updatePromotion
<1>3. ASSUME NEW e \in Editors, NEW c \in CampaignIds, deletePromotion(e, c)
      PROVE  CampaignTypeOK'
  BY <1>1, <1>3 DEF deletePromotion

\* What a request that is under way leaves behind.
<1>4. ASSUME NEW e \in Busy, Finish(e), UNCHANGED edits,
             NEW list \in SUBSET ChildRow, NEW given \in SUBSET Children,
             \/ UNCHANGED <<children, sent>>
             \/ /\ children' = [children EXCEPT ![edit[e].id] = list]
                /\ sent' = sent \/ sent' = [sent EXCEPT ![edit[e].id] = given]
      PROVE  CampaignTypeOK'
  <2>1. e \in Editors /\ edit' = [edit EXCEPT ![e] = Unsent]
    BY <1>4 DEF Busy, Finish
  <2>2. \A o \in Busy' : edit'[o].at # "delete" => edit'[o].body \in Body
    BY <2>1 DEF Busy
  <2> QED
    BY <1>4, <2>1, <2>2
<1>5. ASSUME NEW e \in Editors, Insert(e) \/ Patch(e) PROVE CampaignTypeOK'
  <2> DEFINE list == Given(edit[e].body.children, {})
  <2>1. /\ e \in Busy /\ Finish(e) /\ UNCHANGED edits /\ edit[e].at # "delete"
        /\ edit[e] \in Request
    BY <1>5 DEF Insert, Patch, Busy
  <2>2. list \in SUBSET Children /\ edit[e].number \in Nat
    <3>1. edit[e].body.children \in (SUBSET Children) \cup {Unsent}
      BY <2>1 DEF Body
    <3> QED
      BY <2>1, <3>1 DEF Given, Request
  <2>3. Rows(edit[e].number, list) \in SUBSET ChildRow
    BY <2>2, RowsAreTyped
  <2>4. CASE Insert(e)
    BY <1>4, <2>1, <2>2, <2>3, <2>4 DEF Insert
  <2>5. CASE Patch(e)
    <3> DEFINE left == (children[edit[e].id] \ edit[e].doomed) \cup Rows(edit[e].number, list)
    <3>1. left \in SUBSET ChildRow
      BY <2>1, <2>3 DEF Request
    <3>2. children' = [children EXCEPT ![edit[e].id] = left]
      BY <2>5 DEF Patch
    <3>3. sent' = sent \/ sent' = [sent EXCEPT ![edit[e].id] = list]
      BY <2>5 DEF Patch
    <3> QED
      BY <1>4, <2>1, <2>2, <3>1, <3>2, <3>3
  <2> QED
    BY <1>5, <2>4, <2>5
<1>6. ASSUME NEW e \in Editors, Clear(e) PROVE CampaignTypeOK'
  <2> DEFINE doomed == Doomed(edit[e].id, edit[e].body)
  <2>1. /\ e \in Busy /\ edit[e] \in Request /\ edit[e].at = "clear"
        /\ edit' = [edit EXCEPT ![e] = [edit[e] EXCEPT !.at = "patch", !.doomed = doomed]]
        /\ UNCHANGED <<children, edits, sent>>
    BY <1>6 DEF Clear, Busy
  <2>2. doomed \in SUBSET ChildRow
    BY <2>1 DEF Doomed, Request
  <2>3. [edit[e] EXCEPT !.at = "patch", !.doomed = doomed] \in Request
    BY <2>1, <2>2 DEF Request
  <2>4. edit' \in [Editors -> Request \cup {Unsent}]
    BY <2>1, <2>3
  <2>5. \A o \in Busy' : edit'[o].at # "delete" => edit'[o].body \in Body
    BY <2>1, <2>3 DEF Busy, Request
  <2> QED
    BY <2>1, <2>4, <2>5
<1>7. ASSUME NEW e \in Editors, SoftDelete(e) \/ Abandon(e) PROVE CampaignTypeOK'
  BY <1>4, <1>7 DEF SoftDelete, Abandon
<1>8. CASE UNCHANGED campaignVars
  BY <1>8 DEF campaignVars, Busy
<1> QED
  BY <1>2, <1>3, <1>5, <1>6, <1>7, <1>8 DEF CampaignNext

LEMMA CampaignInvIsKept ==
  ASSUME CampaignInv, [CampaignNext]_campaignVars
  PROVE  CampaignInv'
<1> USE DEF CampaignInv, CampaignTypeOK
<1>1. CampaignTypeOK'
  BY CampaignTypes

\* A request taken up beside another one marks the campaign as crossed.
<1>2. ASSUME NEW e \in Editors, NEW k \in CampaignIds, NEW body,
             NEW at \in {"insert", "clear", "delete"},
             Begin(e, k, body, at), UNCHANGED <<children, sent>>
      PROVE  EditInv'
  <2>1. /\ edit[e] = Unsent /\ crossed' = crossed \cup Crossing(e, k)
        /\ \A o \in Editors \ {e} : edit'[o] = edit[o]
        /\ edit'[e].id = k /\ edit'[e].at = at
    BY <1>2 DEF Begin
  <2>2. Busy' \subseteq Busy \cup {e} /\ e \notin Busy
    BY <2>1 DEF Busy
  <2> SUFFICES ASSUME NEW c \in CampaignIds \ crossed'
               PROVE  /\ OneEdit(c)' /\ RowsOfOne(c)'
                      /\ \A o \in Busy' : edit'[o].id = c /\ edit'[o].at = "patch"
                                            => edit'[o].doomed = Doomed(c, edit[o].body)'
    BY DEF EditInv
  <2>3. c \notin crossed /\ (c = k => \A o \in Busy : edit[o].id # c)
    BY <2>1, <2>2 DEF Crossing
  <2>4. OneEdit(c)'
    BY <2>1, <2>2, <2>3 DEF EditInv, OneEdit, Busy
  <2>5. RowsOfOne(c)'
    BY <1>2, <2>3 DEF EditInv, RowsOfOne
  <2>6. ASSUME NEW o \in Busy', edit'[o].id = c, edit'[o].at = "patch"
        PROVE  edit'[o].doomed = Doomed(c, edit[o].body)'
    <3>1. o \in Busy /\ edit'[o] = edit[o]
      BY <2>1, <2>2, <2>6 DEF Busy
    <3> QED
      BY <1>2, <2>3, <2>6, <3>1 DEF EditInv, Doomed
  <2> QED
    BY <2>4, <2>5, <2>6
<1>3. ASSUME NEW e \in Editors, NEW c \in CampaignIds, NEW body,
             \/ createPromotion(e, c, body) \/ updatePromotion(e, c, body)
             \/ deletePromotion(e, c)
      PROVE  EditInv'
  BY <1>2, <1>3 DEF createPromotion, updatePromotion, deletePromotion
<1>4. ASSUME NEW e \in Busy PROVE edit[e].id \in CampaignIds /\ edit[e] \in Request
  BY <1>4 DEF Busy, Request
<1>5. ASSUME NEW e \in Editors, SoftDelete(e) \/ Abandon(e) PROVE EditInv'
  <2> DEFINE k == edit[e].id
  <2>1. /\ e \in Busy /\ edit' = [edit EXCEPT ![e] = Unsent]
        /\ UNCHANGED <<children, sent, crossed>>
    BY <1>5 DEF SoftDelete, Abandon, Finish
  <2>2. PICK c \in CampaignIds : c = k
    BY <1>4, <2>1
  <2>3. e \notin Busy' /\ \A o \in Editors \ {e} : edit'[o] = edit[o]
    BY <2>1 DEF Busy
  <2>4. c \notin crossed => RowsOfOne(c)'
    BY <2>1 DEF EditInv, RowsOfOne
  <2> QED
    BY <2>1, <2>2, <2>3, <2>4, EditKept
<1>6. ASSUME NEW e \in Editors, Insert(e) \/ Patch(e) PROVE EditInv'
  <2>1. /\ e \in Busy /\ edit' = [edit EXCEPT ![e] = Unsent] /\ UNCHANGED crossed
    BY <1>6 DEF Insert, Patch, Finish
  <2>2. PICK k \in CampaignIds : k = edit[e].id
    BY <1>4, <2>1
  <2>3. e \notin Busy' /\ \A o \in Editors \ {e} : edit'[o] = edit[o]
    BY <2>1 DEF Busy
  <2> DEFINE body == edit[e].body
             list == Given(body.children, {})
             n == edit[e].number
  <2>4. n \in Nat
    BY <1>4, <2>1 DEF Request
  <2>5. CASE Insert(e)
    <3>1. /\ children' = [children EXCEPT ![k] = Rows(n, list)]
          /\ sent' = [sent EXCEPT ![k] = list]
      BY <2>2, <2>5 DEF Insert
    <3>2. RowsOfOne(k)'
      BY <2>4, <3>1 DEF RowsOfOne
    <3> QED
      BY <2>1, <2>2, <2>3, <3>1, <3>2, EditKept
  <2>6. CASE Patch(e)
    <3>1. /\ children' = [children EXCEPT ![k] = (children[k] \ edit[e].doomed) \cup Rows(n, list)]
          /\ sent' = IF body.children = Unsent THEN sent ELSE [sent EXCEPT ![k] = list]
          /\ edit[e].at = "patch"
      BY <2>2, <2>6 DEF Patch
    <3>2. ASSUME k \notin crossed PROVE RowsOfOne(k)'
      <4>1. edit[e].doomed = Doomed(k, body) /\ RowsOfOne(k)
        BY <2>1, <2>2, <3>1, <3>2 DEF EditInv
      <4>2. CASE body.children = Unsent
        <5>1. Rows(n, list) = {} /\ edit[e].doomed = {}
          BY <4>1, <4>2 DEF Given, Rows, Doomed
        <5>2. children'[k] = children[k] /\ sent'[k] = sent[k]
          BY <3>1, <4>2, <5>1
        <5> QED
          BY <4>1, <5>2 DEF RowsOfOne
      <4>3. CASE body.children # Unsent
        <5>1. edit[e].doomed = children[k]
          BY <4>1, <4>3 DEF Doomed
        <5>2. children'[k] = Rows(n, list) /\ sent'[k] = list
          BY <3>1, <4>3, <5>1
        <5> QED
          BY <2>4, <5>2 DEF RowsOfOne
      <4> QED
        BY <4>2, <4>3
    <3>3. \A c \in CampaignIds \ {k} : children'[c] = children[c] /\ sent'[c] = sent[c]
      BY <3>1
    <3> QED
      BY <2>1, <2>2, <2>3, <3>2, <3>3, EditKept
  <2> QED
    BY <1>6, <2>5, <2>6
<1>7. ASSUME NEW e \in Editors, Clear(e) PROVE EditInv'
  <2>1. e \in Busy /\ UNCHANGED <<children, sent, crossed>>
    BY <1>7 DEF Clear
  <2>2. PICK k \in CampaignIds : k = edit[e].id
    BY <1>4, <2>1
  <2>3. /\ \A o \in Editors \ {e} : edit'[o] = edit[o]
        /\ edit'[e].id = k /\ edit'[e].body = edit[e].body
        /\ edit'[e].doomed = Doomed(k, edit[e].body)
    <3>1. edit' = [edit EXCEPT ![e] = [edit[e] EXCEPT !.at = "patch",
                                         !.doomed = Doomed(edit[e].id, edit[e].body)]]
      BY <1>7 DEF Clear
    <3>2. edit[e] \in Request /\ e \in Editors
      BY <1>4, <2>1
    <3> QED
      BY <2>2, <3>1, <3>2 DEF Request
  <2>4. edit'[e].doomed = Doomed(k, edit[e].body)'
    BY <2>1, <2>3 DEF Doomed
  <2>5. k \notin crossed => RowsOfOne(k)'
    BY <2>1 DEF EditInv, RowsOfOne
  <2> QED
    BY <2>1, <2>2, <2>3, <2>4, <2>5, EditKept
<1>8. CASE UNCHANGED campaignVars
  BY <1>8 DEF campaignVars, EditInv, OneEdit, RowsOfOne, Busy, Doomed
<1> QED
  BY <1>1, <1>3, <1>5, <1>6, <1>7, <1>8 DEF CampaignNext

\* As many rows as parts: each row is the only one with its child.
LEMMA RowsAreCounted ==
  ASSUME NEW n \in Nat, NEW list \in SUBSET Children
  PROVE  /\ {row.child : row \in Rows(n, list)} = list
         /\ Cardinality(Rows(n, list)) = Cardinality(list)
<1>1. \A row \in Rows(n, list) : row.child \in list /\ row = [edit |-> n, child |-> row.child]
  BY DEF Rows
<1>2. \A x \in list : [edit |-> n, child |-> x] \in Rows(n, list)
  BY DEF Rows
<1>3. {row.child : row \in Rows(n, list)} = list
  BY <1>1, <1>2
<1>4. IsFiniteSet(list)
  BY CampaignsAssumption, FS_Subset
<1> DEFINE f == [x \in list |-> [edit |-> n, child |-> x]]
<1>5. f \in Bijection(list, Rows(n, list))
  <2>1. f \in Injection(list, Rows(n, list))
    BY <1>2 DEF Injection, IsInjective
  <2>2. \A row \in Rows(n, list) : \E x \in list : f[x] = row
    BY <1>1
  <2> QED
    BY <2>1, <2>2 DEF Bijection, Surjection, Injection
<1>6. Cardinality(list) = Cardinality(Rows(n, list))
  BY <1>4, <1>5, FS_Bijection DEF ExistsBijection
<1> QED
  BY <1>3, <1>6

\* A campaign no two requests changed at once has exactly the children the last
\* completed one sent (PromotionRepository.update, "a full replacement").
THEOREM CampaignsAreAsSentHolds == CampaignSpec => []CampaignsAreAsSent
<1>1. CampaignInit => CampaignInv
  <2> SUFFICES ASSUME CampaignInit PROVE CampaignInv
    OBVIOUS
  <2>1. Busy = {}
    BY DEF CampaignInit, Busy
  <2>2. CampaignTypeOK
    BY <2>1 DEF CampaignInit, CampaignTypeOK
  <2>3. \A c \in CampaignIds : RowsOfOne(c)
    <3>1. Rows(0, {}) = {}
      BY DEF Rows
    <3> QED
      BY <3>1 DEF CampaignInit, RowsOfOne
  <2> QED
    BY <2>1, <2>2, <2>3 DEF CampaignInv, EditInv, OneEdit
<1>2. CampaignInv => CampaignsAreAsSent
  <2> SUFFICES ASSUME CampaignInv, NEW c \in CampaignIds \ crossed
               PROVE  /\ {row.child : row \in children[c]} = sent[c]
                      /\ Cardinality(children[c]) = Cardinality(sent[c])
    BY DEF CampaignsAreAsSent
  <2>1. PICK n \in Nat : children[c] = Rows(n, sent[c])
    BY DEF CampaignInv, EditInv, RowsOfOne
  <2>2. sent[c] \in SUBSET Children
    BY DEF CampaignInv, CampaignTypeOK
  <2> QED
    BY <2>1, <2>2, RowsAreCounted
<1> QED
  BY <1>1, <1>2, CampaignInvIsKept, PTL DEF CampaignSpec

-----------------------------------------------------------------------------
(***************************************************************************)
(* Pages.  A section's own products have been off sale for so short a time *)
(* that the result lapses before they were for longer than the longest     *)
(* life.                                                                   *)
(***************************************************************************)
\* What is left of a sequence is of what was asked for.
LEMMA ThoseAre ==
  ASSUME NEW X, NEW seq \in Seq(X), NEW S
  PROVE  Those(seq, S) \in Seq(X \cap S)
<1> DEFINE N == Len(seq)
           A == Seq(X \cap S)
           G == [p \in (1 .. N) \X A |-> IF seq[p[1]] \in S THEN Append(p[2], seq[p[1]]) ELSE p[2]]
           Eq(f) == f = [n \in 0 .. N |-> IF n = 0 THEN << >>
                      ELSE IF seq[n] \in S THEN Append(f[n - 1], seq[n]) ELSE f[n - 1]]
           F == CHOOSE f : Eq(f)
<1>1. N \in Nat /\ << >> \in A /\ \A n \in 1 .. N : seq[n] \in X
  OBVIOUS
<1>2. G \in [(1 .. N) \X A -> A]
  <2>1. ASSUME NEW n \in 1 .. N, NEW a \in A
        PROVE  (IF seq[n] \in S THEN Append(a, seq[n]) ELSE a) \in A
    BY <1>1
  <2> HIDE DEF A, N
  <2> QED
    BY <2>1
<1>3. PICK f \in [0 .. N -> A] : Steps(f, N, << >>, G)
  <2> HIDE DEF A, N, G
  <2> QED
    BY <1>1, <1>2, StepRecursion
<1>4. Eq(f)
  <2>1. ASSUME NEW n \in 1 .. N
        PROVE  f[n] = IF seq[n] \in S THEN Append(f[n - 1], seq[n]) ELSE f[n - 1]
    <3>1. n - 1 \in 0 .. N /\ f[n - 1] \in A /\ f[n] = G[<<n, f[n - 1]>>]
      <4> HIDE DEF A, N, G
      <4>1. n - 1 \in 0 .. N
        BY <1>1
      <4> QED
        BY <1>3, <4>1 DEF Steps
    <3>2. <<n, f[n - 1]>> \in (1 .. N) \X A
      BY <3>1
    <3> HIDE DEF A, N
    <3> QED
      BY <3>1, <3>2
  <2>2. f[0] = << >>
    BY <1>3 DEF Steps
  <2> HIDE DEF A, N, G
  <2>3. \A n \in 0 .. N : n = 0 \/ n \in 1 .. N
    BY <1>1
  <2> QED
    BY <1>3, <2>1, <2>2, <2>3
<1>5. Eq(F)
  <2> HIDE DEF Eq
  <2> QED
    BY <1>4
<1>6. Those(seq, S) = F[N]
  BY DEF Those
<1>7. F[N] \in A
  <2> DEFINE Q == {n \in 0 .. N : F[n] \in A}
  <2>1. F = [n \in 0 .. N |-> IF n = 0 THEN << >>
              ELSE IF seq[n] \in S THEN Append(F[n - 1], seq[n]) ELSE F[n - 1]]
    BY <1>5
  <2> HIDE DEF F, Eq
  <2>2. 0 \in Q
    BY <1>1, <2>1
  <2>3. ASSUME NEW n \in 1 .. N, n - 1 \in Q PROVE n \in Q
    <3>1. n \in 0 .. N /\ F[n - 1] \in A /\ F[n] = IF seq[n] \in S THEN Append(F[n - 1], seq[n]) ELSE F[n - 1]
      <4> HIDE DEF A, N
      <4>1. n \in 0 .. N /\ n # 0
        BY <1>1
      <4> QED
        BY <2>1, <2>3, <4>1
    <3>2. seq[n] \in X /\ (seq[n] \in S => Append(F[n - 1], seq[n]) \in A)
      BY <1>1, <3>1
    <3> HIDE DEF A, N
    <3> QED
      BY <3>1, <3>2
  <2>4. Q = 0 .. N
    <3>1. Q \in SUBSET (0 .. N)
      OBVIOUS
    <3> HIDE DEF Q, N
    <3> QED
      BY <1>1, <2>2, <2>3, <3>1, StepInduction
  <2>5. N \in 0 .. N
    BY <1>1
  <2> QED
    BY <2>4, <2>5
<1> QED
  BY <1>6, <1>7

ResultRow == [context : Places, strategy : Strategies, maxItems : Sizes,
              pinned : Nat, products : Seq(Items)]

Visit == [at : {"look", "build", "keep"}, id : 1 .. MaxSections, row : SectionRow,
          pinned : Seq(Items), context : Places, result : ResultRow \cup {Nothing}]

StorefrontTypeOK ==
  /\ section \in SectionRow \cup {Nothing}
  /\ made \in 0 .. MaxSections
  /\ section # Nothing => made > 0
  /\ pins \in [Items -> Nat]
  /\ onSale \subseteq Items
  /\ offSaleFor \in [Items -> Nat]
  /\ kept \in [Keys -> [result : ResultRow, left : Nat \ {0}] \cup {Nothing}]
  /\ visit \in [Visitors -> Visit \cup {Nothing}]

\* Of a result that may be shown for as many minutes to come.
Recent(off, result, context, left) ==
  result.strategy \in {"NEW_ARRIVALS", "FEATURED"} =>
    \A i \in result.pinned + 1 .. Len(result.products) :
      LET p == result.products[i]
      IN  /\ p \in Items
          /\ \E life \in Lives : off[p] + left <= life
          /\ result.strategy = "NEW_ARRIVALS" => context \in {Everywhere, CategoryOf[p]}

StorefrontInv ==
  /\ StorefrontTypeOK
  /\ \A p \in onSale : offSaleFor[p] = 0
  /\ \A k \in Keys : kept[k] # Nothing => Recent(offSaleFor, kept[k].result, k[2], kept[k].left)
  /\ \A v \in Visitors : visit[v] # Nothing /\ visit[v].at = "keep" =>
       /\ visit[v].result \in ResultRow
       /\ visit[v].row.cacheMinutes > 0
       /\ Recent(offSaleFor, visit[v].result, visit[v].context, visit[v].row.cacheMinutes)

LEMMA FirstIs ==
  ASSUME NEW X, NEW seq \in Seq(X), NEW n \in Nat
  PROVE  /\ First(n, seq) \in Seq(X)
         /\ Len(First(n, seq)) <= n
         /\ Len(First(n, seq)) \in Nat
         /\ \A i \in 1 .. Len(First(n, seq)) : First(n, seq)[i] \in X
<1> DEFINE m == IF n < Len(seq) THEN n ELSE Len(seq)
<1>1. m \in Nat /\ m <= Len(seq) /\ m <= n /\ Len(seq) \in Nat
  OBVIOUS
<1>2. \A i \in 1 .. m : seq[i] \in X
  BY <1>1
<1>3. First(n, seq) = SubSeq(seq, 1, m)
  BY DEF First
<1> HIDE DEF m
<1>4. SubSeq(seq, 1, m) \in Seq(X) /\ Len(SubSeq(seq, 1, m)) = m
  BY <1>1, <1>2, SubSeqProperties
<1> QED
  BY <1>1, <1>3, <1>4

LEMMA CandidatesAre ==
  ASSUME StorefrontTypeOK, NEW strategy, NEW context
  PROVE  /\ Candidates(strategy, context) \in Seq(Items)
         /\ strategy = "FEATURED" => Candidates(strategy, context) \in Seq(onSale)
         /\ strategy = "NEW_ARRIVALS" =>
              Candidates(strategy, context) \in Seq({p \in onSale : context \in {Everywhere, CategoryOf[p]}})
<1> DEFINE here == {p \in onSale : context \in {Everywhere, CategoryOf[p]}}
<1>1. /\ onSale \subseteq Items
      /\ Newest \in Seq(Items) /\ BestSelling \in Seq(Items)
  BY StorefrontAssumption DEF StorefrontTypeOK
<1>2. FeaturedStrategy \in Seq(Items \cap (onSale \cap Featured))
  BY <1>1, ThoseAre DEF FeaturedStrategy
<1>3. NewArrivalStrategy(context) \in Seq(Items \cap here)
  BY <1>1, ThoseAre DEF NewArrivalStrategy
<1>4. \A S, T : S \subseteq T => Seq(S) \subseteq Seq(T)
  <2> TAKE S, T
  <2> HAVE S \subseteq T
  <2> QED
    BY SeqMonotonic
<1>5. FeaturedStrategy \in Seq(onSale) /\ FeaturedStrategy \in Seq(Items)
  <2>1. Items \cap (onSale \cap Featured) \subseteq onSale /\ Items \cap (onSale \cap Featured) \subseteq Items
    OBVIOUS
  <2> QED
    BY <1>2, <1>4, <2>1
<1>6. NewArrivalStrategy(context) \in Seq(here) /\ NewArrivalStrategy(context) \in Seq(Items)
  <2>1. Items \cap here \subseteq here /\ Items \cap here \subseteq Items
    OBVIOUS
  <2> HIDE DEF here
  <2> QED
    BY <1>3, <1>4, <2>1
<1>7. << >> \in Seq(Items)
  OBVIOUS
<1> HIDE DEF here
<1>8. CASE strategy = "FEATURED"
  BY <1>5, <1>8 DEF Candidates
<1>9. CASE strategy = "NEW_ARRIVALS"
  BY <1>6, <1>9 DEF Candidates, here
<1>10. CASE strategy \in {"BEST_SELLERS", "TRENDING", "RECOMMENDED"}
  BY <1>1, <1>10 DEF Candidates, BestSellerStrategy
<1>11. CASE strategy \notin {"FEATURED", "NEW_ARRIVALS", "BEST_SELLERS", "TRENDING", "RECOMMENDED"}
  BY <1>7, <1>11 DEF Candidates
<1> QED
  BY <1>8, <1>9, <1>10, <1>11

\* What is built now is on sale now.
LEMMA BuiltIsRecent ==
  ASSUME StorefrontInv, NEW q \in Visit
  PROVE  /\ Built(q) \in ResultRow
         /\ Recent(offSaleFor, Built(q), q.context, q.row.cacheMinutes)
         /\ \A i \in Built(q).pinned + 1 .. Len(Built(q).products) :
              Built(q).strategy \in {"NEW_ARRIVALS", "FEATURED"} => Built(q).products[i] \in onSale
<1>1. /\ q.row \in SectionRow /\ q.pinned \in Seq(Items) /\ q.context \in Places
      /\ q.row.maxItems \in Sizes /\ q.row.maxItems \in Nat /\ q.row.strategy \in Strategies
      /\ q.row.cacheMinutes \in Lives /\ q.row.cacheMinutes \in Nat
  BY StorefrontAssumption DEF Visit, SectionRow
<1> DEFINE filled == IF q.row.strategy = "COLLECTION" THEN CollectionStrategy(q.row)
                                                      ELSE Filled(q.row, q.pinned, q.context)
<1>2. Built(q) = [context |-> q.context, strategy |-> q.row.strategy, maxItems |-> q.row.maxItems,
                  pinned |-> filled.pinned, products |-> filled.products]
  BY DEF Built, Result
<1>3. CASE q.row.strategy = "COLLECTION"
  <2>1. filled = [pinned |-> 0, products |-> First(q.row.maxItems, Curated)]
    BY <1>3 DEF CollectionStrategy
  <2>2. First(q.row.maxItems, Curated) \in Seq(Items)
    BY <1>1, FirstIs, StorefrontAssumption
  <2> QED
    BY <1>1, <1>2, <1>3, <2>1, <2>2 DEF ResultRow, Recent
<1>4. CASE q.row.strategy # "COLLECTION"
  <2> DEFINE lead == First(q.row.maxItems, q.pinned)
             candidates == Candidates(q.row.strategy, q.context)
             rest == Those(candidates, Items \ ToSet(q.pinned))
             others == First(q.row.maxItems - Len(lead), rest)
  <2>1. filled = [pinned |-> Len(lead), products |-> lead \o others]
    BY <1>4 DEF Filled
  <2>2. lead \in Seq(Items) /\ Len(lead) \in Nat /\ q.row.maxItems - Len(lead) \in Nat
    <3> HIDE DEF lead
    <3>1. lead \in Seq(Items) /\ Len(lead) \in Nat /\ Len(lead) <= q.row.maxItems
      BY <1>1, FirstIs DEF lead
    <3> QED
      BY <1>1, <3>1
  <2>3. ASSUME NEW X, X \subseteq Items, candidates \in Seq(X)
        PROVE  others \in Seq(X)
    <3>1. rest \in Seq(X \cap (Items \ ToSet(q.pinned)))
      BY <2>3, ThoseAre
    <3>2. rest \in Seq(X)
      <4>1. X \cap (Items \ ToSet(q.pinned)) \subseteq X
        OBVIOUS
      <4> HIDE DEF rest
      <4> QED
        BY <3>1, <4>1, SeqMonotonic
    <3> HIDE DEF rest, lead
    <3> QED
      BY <2>2, <3>2, FirstIs
  <2>4. candidates \in Seq(Items)
    BY CandidatesAre DEF StorefrontInv
  <2>5. others \in Seq(Items)
    BY <2>3, <2>4
  <2>6. Built(q) \in ResultRow
    <3> HIDE DEF lead, others, filled
    <3>1. lead \o others \in Seq(Items)
      BY <2>2, <2>5
    <3> QED
      BY <1>1, <1>2, <2>1, <2>2, <3>1 DEF ResultRow
  <2>7. ASSUME q.row.strategy \in {"NEW_ARRIVALS", "FEATURED"},
               NEW i \in Len(lead) + 1 .. Len(lead \o others)
        PROVE  LET p == (lead \o others)[i]
               IN  /\ p \in onSale
                   /\ q.row.strategy = "NEW_ARRIVALS" => q.context \in {Everywhere, CategoryOf[p]}
    <3> DEFINE X == IF q.row.strategy = "FEATURED" THEN onSale
                    ELSE {p \in onSale : q.context \in {Everywhere, CategoryOf[p]}}
    <3>1. X \subseteq Items /\ X \subseteq onSale
      BY DEF StorefrontInv, StorefrontTypeOK
    <3>2. candidates \in Seq(X)
      BY <2>7, CandidatesAre DEF StorefrontInv
    <3>3. others \in Seq(X)
      <4> HIDE DEF X, candidates, others
      <4> QED
        BY <2>3, <3>1, <3>2
    <3>4. (lead \o others)[i] \in X
      <4> HIDE DEF lead, others, X
      <4>1. Len(others) \in Nat /\ Len(lead \o others) = Len(lead) + Len(others)
        BY <2>2, <3>3
      <4>2. i - Len(lead) \in 1 .. Len(others) /\ (lead \o others)[i] = others[i - Len(lead)]
        BY <2>2, <2>7, <3>3, <4>1
      <4> QED
        BY <3>3, <4>2
    <3> HIDE DEF lead, others
    <3> QED
      BY <2>7, <3>1, <3>4
  <2>8. Recent(offSaleFor, Built(q), q.context, q.row.cacheMinutes)
    <3> HIDE DEF lead, others
    <3>1. /\ Built(q).strategy = q.row.strategy /\ Built(q).pinned = Len(lead)
          /\ Built(q).products = lead \o others
      BY <1>2, <2>1
    <3>2. \A p \in onSale : p \in Items /\ offSaleFor[p] + q.row.cacheMinutes <= q.row.cacheMinutes
      BY <1>1 DEF StorefrontInv, StorefrontTypeOK
    <3> QED
      BY <1>1, <2>7, <3>1, <3>2 DEF Recent
  <2>9. \A i \in Built(q).pinned + 1 .. Len(Built(q).products) :
          Built(q).strategy \in {"NEW_ARRIVALS", "FEATURED"} => Built(q).products[i] \in onSale
    <3> HIDE DEF lead, others
    <3> QED
      BY SMTT(30), <1>2, <2>1, <2>7
  <2> QED
    BY <2>6, <2>8, <2>9
<1> QED
  BY <1>3, <1>4


LEMMA ChangesKeep ==
  ASSUME StorefrontInv, Arrange
  PROVE  StorefrontInv' /\ shown' = Nothing
<1> DEFINE Kept == UNCHANGED <<onSale, offSaleFor, kept, visit>>
<1>1. ASSUME Kept, section' \in SectionRow \cup {Nothing}, made' \in 0 .. MaxSections,
             section' # Nothing => made' > 0, pins' \in [Items -> Nat]
      PROVE  StorefrontInv'
  BY <1>1 DEF StorefrontInv, StorefrontTypeOK, Recent
<1>2. /\ section \in SectionRow \cup {Nothing} /\ made \in 0 .. MaxSections
      /\ section # Nothing => made > 0
      /\ pins \in [Items -> Nat] /\ [p \in Items |-> 0] \in [Items -> Nat]
  BY DEF StorefrontInv, StorefrontTypeOK
<1>3. CASE updatePage \/ createPage
  BY <1>1, <1>2, <1>3 DEF updatePage, createPage, Changed
<1>4. CASE deletePage \/ deleteSection
  BY <1>1, <1>2, <1>4 DEF deletePage, deleteSection, Changed
<1>5. ASSUME NEW row \in SectionRow, createSection(row) PROVE StorefrontInv' /\ shown' = Nothing
  <2>1. /\ section' = row /\ made' = made + 1 /\ made < MaxSections /\ UNCHANGED pins /\ Kept /\ shown' = Nothing
    BY <1>5 DEF createSection, Changed
  <2>2. made' \in 0 .. MaxSections /\ made' > 0
    BY <1>2, <2>1, StorefrontAssumption
  <2> QED
    BY <1>1, <1>2, <2>1, <2>2
<1>6. ASSUME NEW row \in SectionRow, updateSection(row) PROVE StorefrontInv' /\ shown' = Nothing
  BY <1>1, <1>2, <1>6 DEF updateSection, Changed
<1>7. ASSUME NEW p \in Items, NEW position \in Positions, addPinnedItem(p, position)
      PROVE  StorefrontInv' /\ shown' = Nothing
  <2>1. position \in Nat
    BY StorefrontAssumption
  <2>2. UNCHANGED <<section, made>> /\ pins' = [pins EXCEPT ![p] = position] /\ Kept /\ shown' = Nothing
    BY <1>7 DEF addPinnedItem, Changed
  <2> QED
    BY <1>1, <1>2, <2>1, <2>2
<1>8. ASSUME NEW p \in Items, removePinnedItem(p) PROVE StorefrontInv' /\ shown' = Nothing
  BY <1>1, <1>2, <1>8 DEF removePinnedItem, Changed
<1>9. ASSUME NEW p \in Items, SwitchProduct(p) PROVE StorefrontInv' /\ shown' = Nothing
  <2>1. /\ onSale' = (IF p \in onSale THEN onSale \ {p} ELSE onSale \cup {p})
        /\ offSaleFor' = [offSaleFor EXCEPT ![p] = 0]
        /\ UNCHANGED <<section, made, pins, kept, visit>> /\ shown' = Nothing
    BY <1>9 DEF SwitchProduct, Changed, arranged
  <2>2. offSaleFor \in [Items -> Nat] /\ onSale \subseteq Items /\ \A o \in onSale : offSaleFor[o] = 0
    BY DEF StorefrontInv, StorefrontTypeOK
  <2>3. \A o \in Items : offSaleFor'[o] \in Nat /\ offSaleFor'[o] <= offSaleFor[o]
    BY <2>1, <2>2
  <2>4. StorefrontTypeOK' /\ \A o \in onSale' : offSaleFor'[o] = 0
    BY <2>1, <2>2 DEF StorefrontInv, StorefrontTypeOK
  <2>5. ASSUME NEW result, NEW context, NEW left \in Nat, Recent(offSaleFor, result, context, left)
        PROVE  Recent(offSaleFor', result, context, left)
    <3>1. \A o \in Items, life \in Lives : offSaleFor[o] + left <= life => offSaleFor'[o] + left <= life
      <4>1. Lives \subseteq Nat
        BY StorefrontAssumption
      <4> QED
        BY <2>2, <2>3, <4>1
    <3> QED
      BY <2>5, <3>1 DEF Recent
  <2>6. \A k \in Keys : kept[k] # Nothing => kept[k].left \in Nat
    BY DEF StorefrontInv, StorefrontTypeOK
  <2>7. \A v \in Visitors : visit[v] # Nothing => visit[v].row.cacheMinutes \in Nat
    <3>1. \A q \in Visit : q.row.cacheMinutes \in Nat
      BY StorefrontAssumption DEF Visit, SectionRow
    <3> QED
      BY <3>1 DEF StorefrontInv, StorefrontTypeOK
  <2> QED
    BY <2>1, <2>4, <2>5, <2>6, <2>7 DEF StorefrontInv
<1> QED
  BY <1>3, <1>4, <1>5, <1>6, <1>7, <1>8, <1>9 DEF Arrange

LEMMA KeysAre ==
  ASSUME StorefrontTypeOK, NEW q \in Visit
  PROVE  Key(q) = <<q.id, q.context>> /\ Key(q) \in Keys /\ Key(q)[2] = q.context
BY DEF Key, buildCacheKey, Keys, Visit

LEMMA PinnedAre ==
  ASSUME StorefrontTypeOK, NEW context, NEW pinned \in findPageWithSections(context)
  PROVE  /\ pinned \in Seq(Items)
         /\ section \in SectionRow /\ made \in 1 .. MaxSections
<1>1. pinned \in PinnedOrders /\ section # Nothing
  BY DEF findPageWithSections
<1> DEFINE those == {p \in Items : pins[p] > 0}
<1>2. Cardinality(those) \in Nat
  BY StorefrontAssumption, FS_Subset, FS_CardinalityType
<1>3. pinned \in [1 .. Cardinality(those) -> those]
  BY <1>1 DEF PinnedOrders, SetToSeqs
<1>4. pinned \in Seq(Items)
  <2> HIDE DEF those
  <2>1. those \subseteq Items
    BY DEF those
  <2> QED
    BY <1>2, <1>3, <2>1
<1> QED
  BY <1>1, <1>4, StorefrontAssumption DEF StorefrontTypeOK

\* A recent result may be shown.
LEMMA RecentIsShown ==
  ASSUME StorefrontInv, NEW result \in ResultRow, NEW context, NEW left \in Nat,
         Recent(offSaleFor, result, context, left),
         left > 0 \/ \A i \in result.pinned + 1 .. Len(result.products) :
                       result.strategy \in {"NEW_ARRIVALS", "FEATURED"} => result.products[i] \in onSale,
         shown' = [result EXCEPT !.context = context], offSaleFor' = offSaleFor
  PROVE  ArrivalsAreRecent'
<1>1. /\ shown'.strategy = result.strategy /\ shown'.pinned = result.pinned
      /\ shown'.products = result.products /\ shown'.context = context
  BY DEF ResultRow
<1>2. ASSUME result.strategy \in {"NEW_ARRIVALS", "FEATURED"},
             NEW i \in result.pinned + 1 .. Len(result.products)
      PROVE  LET p == result.products[i]
             IN  /\ offSaleFor[p] = 0 \/ \E life \in Lives : offSaleFor[p] < life
                 /\ result.strategy = "NEW_ARRIVALS" => context \in {Everywhere, CategoryOf[p]}
  <2> DEFINE p == result.products[i]
  <2>1. PICK life \in Lives : offSaleFor[p] + left <= life
    BY <1>2 DEF Recent
  <2>2. p \in Items /\ (result.strategy = "NEW_ARRIVALS" => context \in {Everywhere, CategoryOf[p]})
    BY <1>2 DEF Recent
  <2>3. offSaleFor[p] \in Nat /\ life \in Nat
    BY <2>2, StorefrontAssumption DEF StorefrontInv, StorefrontTypeOK
  <2>4. p \in onSale => offSaleFor[p] = 0
    BY DEF StorefrontInv
  <2> QED
    BY <1>2, <2>1, <2>2, <2>3, <2>4
<1> QED
  BY <1>1, <1>2 DEF ArrivalsAreRecent

LEMMA VisitsKeep ==
  ASSUME StorefrontInv, NEW v \in Visitors,
         \/ \E context \in Places : getPage(v, context)
         \/ Recall(v) \/ Look(v) \/ buildSection(v) \/ Keep(v)
  PROVE  StorefrontInv' /\ ArrivalsAreRecent'
<1> USE DEF arranged
<1>1. StorefrontTypeOK
  BY DEF StorefrontInv
<1> DEFINE Still == UNCHANGED <<section, made, pins, onSale, offSaleFor>>
\* It is enough to see to what the visitor is at and to the result kept.
<1>2. ASSUME Still, NEW q \in Visit \cup {Nothing}, visit' = [visit EXCEPT ![v] = q],
             q # Nothing /\ q.at = "keep" =>
               q.result \in ResultRow /\ q.row.cacheMinutes > 0 /\ Recent(offSaleFor, q.result, q.context, q.row.cacheMinutes),
             \/ kept' = kept
             \/ \E k \in Keys, row \in [result : ResultRow, left : Nat \ {0}] :
                  kept' = [kept EXCEPT ![k] = row] /\ Recent(offSaleFor, row.result, k[2], row.left)
      PROVE  StorefrontInv'
  <2>1. offSaleFor' = offSaleFor
    BY <1>2
  <2>2. /\ kept' \in [Keys -> [result : ResultRow, left : Nat \ {0}] \cup {Nothing}]
        /\ \A k \in Keys : kept'[k] # Nothing => Recent(offSaleFor, kept'[k].result, k[2], kept'[k].left)
    <3>1. /\ kept \in [Keys -> [result : ResultRow, left : Nat \ {0}] \cup {Nothing}]
          /\ \A k \in Keys : kept[k] # Nothing => Recent(offSaleFor, kept[k].result, k[2], kept[k].left)
      BY DEF StorefrontInv, StorefrontTypeOK
    <3>2. CASE kept' = kept
      BY <3>1, <3>2
    <3>3. CASE \E k \in Keys, row \in [result : ResultRow, left : Nat \ {0}] :
                  kept' = [kept EXCEPT ![k] = row] /\ Recent(offSaleFor, row.result, k[2], row.left)
      <4>1. PICK k \in Keys, row \in [result : ResultRow, left : Nat \ {0}] :
                  kept' = [kept EXCEPT ![k] = row] /\ Recent(offSaleFor, row.result, k[2], row.left)
        BY <3>3
      <4>2. kept' \in [Keys -> [result : ResultRow, left : Nat \ {0}] \cup {Nothing}]
        BY <3>1, <4>1
      <4>3. \A l \in Keys : kept'[l] = IF l = k THEN row ELSE kept[l]
        BY <3>1, <4>1
      <4> QED
        BY <3>1, <4>1, <4>2, <4>3
    <3> QED
      BY <1>2, <3>2, <3>3
  <2>3. /\ visit' \in [Visitors -> Visit \cup {Nothing}]
        /\ \A w \in Visitors : visit'[w] = IF w = v THEN q ELSE visit[w]
    BY <1>1, <1>2 DEF StorefrontTypeOK
  <2>4. StorefrontTypeOK'
    BY <1>1, <1>2, <2>2, <2>3 DEF StorefrontTypeOK
  <2>5. \A w \in Visitors : visit'[w] # Nothing /\ visit'[w].at = "keep" =>
          /\ visit'[w].result \in ResultRow
          /\ visit'[w].row.cacheMinutes > 0
          /\ Recent(offSaleFor, visit'[w].result, visit'[w].context, visit'[w].row.cacheMinutes)
    BY <1>2, <2>3 DEF StorefrontInv
  <2>6. \A k \in Keys : kept'[k] # Nothing => Recent(offSaleFor', kept'[k].result, k[2], kept'[k].left)
    BY <2>1, <2>2
  <2>7. \A w \in Visitors : visit'[w] # Nothing /\ visit'[w].at = "keep" =>
          /\ visit'[w].result \in ResultRow
          /\ visit'[w].row.cacheMinutes > 0
          /\ Recent(offSaleFor', visit'[w].result, visit'[w].context, visit'[w].row.cacheMinutes)
    BY <2>1, <2>5
  <2>8. \A p \in onSale' : offSaleFor'[p] = 0
    BY <1>2 DEF StorefrontInv
  <2> QED
    BY <1>2, <2>4, <2>6, <2>7, <2>8 DEF StorefrontInv, Recent
<1>3. ASSUME shown' = Nothing PROVE ArrivalsAreRecent'
  BY <1>3 DEF ArrivalsAreRecent
<1>4. ASSUME NEW context \in Places, getPage(v, context) PROVE StorefrontInv' /\ ArrivalsAreRecent'
  <2>1. PICK pinned \in findPageWithSections(context) :
          visit' = [visit EXCEPT ![v] = [at |-> "look", id |-> made, row |-> section,
                      pinned |-> pinned, context |-> context, result |-> Nothing]]
    BY <1>4 DEF getPage
  <2> DEFINE q == [at |-> "look", id |-> made, row |-> section,
                   pinned |-> pinned, context |-> context, result |-> Nothing]
  <2>2. q \in Visit /\ q.at = "look"
    BY <1>1, <1>4, PinnedAre DEF Visit
  <2>3. Still /\ kept' = kept /\ shown' = Nothing
    BY <1>4 DEF getPage
  <2> HIDE DEF q
  <2>4. visit' = [visit EXCEPT ![v] = q]
    BY <2>1 DEF q
  <2> QED
    BY <1>2, <1>3, <2>2, <2>3, <2>4
<1>5. ASSUME visit[v] # Nothing
      PROVE  visit[v] \in Visit /\ visit[v].row.cacheMinutes \in Nat /\ Key(visit[v]) \in Keys
  <2>1. visit[v] \in Visit
    BY <1>1, <1>5 DEF StorefrontTypeOK
  <2>2. \A q \in Visit : q.row.cacheMinutes \in Nat
    BY StorefrontAssumption DEF Visit, SectionRow
  <2> QED
    BY <1>1, <2>1, <2>2, KeysAre
<1>6. CASE Recall(v)
  <2> DEFINE k == Key(visit[v])
  <2>1. /\ visit[v] # Nothing /\ kept[k] # Nothing /\ Still /\ kept' = kept
        /\ visit' = [visit EXCEPT ![v] = Nothing]
        /\ shown' = [kept[k].result EXCEPT !.context = visit[v].context]
    BY <1>6 DEF Recall, Show
  <2>2. k \in Keys /\ k[2] = visit[v].context
    BY <1>1, <1>5, <2>1, KeysAre
  <2> HIDE DEF k
  <2>3. kept[k].result \in ResultRow /\ kept[k].left \in Nat \ {0} /\ Recent(offSaleFor, kept[k].result, k[2], kept[k].left)
    BY <1>1, <2>1, <2>2 DEF StorefrontInv, StorefrontTypeOK
  <2>4. ArrivalsAreRecent'
    <3>1. kept[k].left > 0 /\ kept[k].left \in Nat
      BY <2>3
    <3>2. shown' = [kept[k].result EXCEPT !.context = k[2]]
      BY <2>1, <2>2
    <3> QED
      BY <2>1, <2>3, <3>1, <3>2, RecentIsShown
  <2>5. StorefrontInv'
    BY <1>2, <2>1
  <2> QED
    BY <2>4, <2>5
<1>7. CASE Look(v)
  <2>1. /\ visit[v] # Nothing /\ visit' = [visit EXCEPT ![v].at = "build"] /\ shown' = Nothing
        /\ Still /\ kept' = kept
    BY <1>7 DEF Look
  <2> DEFINE q == [visit[v] EXCEPT !.at = "build"]
  <2>2. q \in Visit /\ q.at = "build"
    BY <1>5, <2>1 DEF Visit
  <2>3. visit' = [visit EXCEPT ![v] = q]
    BY <2>1
  <2> HIDE DEF q
  <2> QED
    BY <1>2, <1>3, <2>1, <2>2, <2>3
<1>8. CASE buildSection(v)
  <2>1. visit[v] # Nothing /\ visit[v].at = "build" /\ Still /\ kept' = kept
    BY <1>8 DEF buildSection
  <2> DEFINE built == Built(visit[v])
  <2>2. built \in ResultRow /\ Recent(offSaleFor, built, visit[v].context, visit[v].row.cacheMinutes)
    BY <1>5, <2>1, BuiltIsRecent
  <2>3. CASE visit[v].row.cacheMinutes = 0
    <3>1. /\ visit' = [visit EXCEPT ![v] = Nothing]
          /\ shown' = [built EXCEPT !.context = visit[v].context]
      BY <1>8, <2>3 DEF buildSection, Show
    <3>2. StorefrontInv'
      BY <1>2, <2>1, <3>1
    <3>3. \A i \in built.pinned + 1 .. Len(built.products) :
            built.strategy \in {"NEW_ARRIVALS", "FEATURED"} => built.products[i] \in onSale
      BY <1>5, <2>1, BuiltIsRecent
    <3>4. ArrivalsAreRecent'
      <4> HIDE DEF built
      <4> QED
        BY <1>5, <2>1, <2>2, <3>1, <3>3, RecentIsShown
    <3> QED
      BY <3>2, <3>4
  <2>4. CASE visit[v].row.cacheMinutes # 0
    <3>1. /\ visit' = [visit EXCEPT ![v].result = built, ![v].at = "keep"]
          /\ shown' = Nothing
      BY <1>8, <2>4 DEF buildSection
    <3> DEFINE q == [visit[v] EXCEPT !.result = built, !.at = "keep"]
    <3>2. /\ q \in Visit /\ q.result = built /\ q.context = visit[v].context /\ q.row = visit[v].row
      <4> HIDE DEF built
      <4> QED
        BY <1>5, <2>1, <2>2 DEF Visit
    <3>3. visit' = [visit EXCEPT ![v] = q]
      <4> HIDE DEF built
      <4> QED
        BY <1>1, <3>1 DEF StorefrontTypeOK
    <3>4. q.row.cacheMinutes > 0
      BY <1>5, <2>1, <2>4, <3>2
    <3> HIDE DEF q, built
    <3> QED
      BY <1>2, <1>3, <2>1, <2>2, <3>1, <3>2, <3>3, <3>4
  <2> QED
    BY <2>3, <2>4
<1>9. CASE Keep(v)
  <2> DEFINE k == Key(visit[v])
             row == [result |-> visit[v].result, left |-> visit[v].row.cacheMinutes]
  <2>1. /\ visit[v] # Nothing /\ visit[v].at = "keep" /\ Still
        /\ visit' = [visit EXCEPT ![v] = Nothing]
        /\ shown' = [visit[v].result EXCEPT !.context = visit[v].context]
        /\ kept' = kept \/ kept' = [kept EXCEPT ![k] = row]
    BY <1>9 DEF Keep, Show, Lapse
  <2>2. /\ visit[v].result \in ResultRow /\ visit[v].row.cacheMinutes > 0 /\ visit[v].row.cacheMinutes \in Nat
        /\ Recent(offSaleFor, visit[v].result, visit[v].context, visit[v].row.cacheMinutes)
    BY <1>5, <2>1 DEF StorefrontInv
  <2>3. k \in Keys /\ k[2] = visit[v].context
    BY <1>1, <1>5, <2>1, KeysAre
  <2>4. /\ row \in [result : ResultRow, left : Nat \ {0}]
        /\ Recent(offSaleFor, row.result, k[2], row.left)
    BY <2>2, <2>3
  <2>5. ArrivalsAreRecent'
    BY <2>1, <2>2, RecentIsShown
  <2> HIDE DEF k, row
  <2>6. StorefrontInv'
    BY <1>2, <2>1, <2>3, <2>4
  <2> QED
    BY <2>5, <2>6
<1> QED
  BY <1>4, <1>6, <1>7, <1>8, <1>9

LEMMA MinuteKeeps ==
  ASSUME StorefrontInv, Minute
  PROVE  StorefrontInv' /\ ArrivalsAreRecent'
<1>1. /\ \A v \in Visitors : visit[v] = Nothing
      /\ offSaleFor' = [p \in Items |-> IF p \in onSale THEN 0 ELSE Older(offSaleFor[p])]
      /\ kept' = [k \in Keys |->
           IF kept[k] = Nothing \/ kept[k].left = 1 THEN Nothing ELSE [kept[k] EXCEPT !.left = kept[k].left - 1]]
      /\ shown' = Nothing
      /\ UNCHANGED <<section, made, pins, onSale, visit>>
  BY DEF Minute, arranged
<1>2. /\ offSaleFor \in [Items -> Nat]
      /\ \A k \in Keys : kept[k] # Nothing => kept[k] \in [result : ResultRow, left : Nat \ {0}]
      /\ \A p \in onSale : offSaleFor[p] = 0
      /\ onSale \subseteq Items
  BY DEF StorefrontInv, StorefrontTypeOK
<1>3. /\ offSaleFor' \in [Items -> Nat]
      /\ \A p \in onSale' : offSaleFor'[p] = 0
      /\ \A p \in Items : offSaleFor'[p] <= offSaleFor[p] + 1
  BY <1>1, <1>2 DEF Older
<1>4. ASSUME NEW k \in Keys, kept'[k] # Nothing
      PROVE  /\ kept'[k] \in [result : ResultRow, left : Nat \ {0}]
             /\ kept'[k].result = kept[k].result /\ kept'[k].left = kept[k].left - 1
             /\ kept[k] # Nothing
  <2>1. kept[k] # Nothing /\ kept[k].left # 1 /\ kept'[k] = [kept[k] EXCEPT !.left = kept[k].left - 1]
    BY <1>1, <1>4
  <2>2. kept[k].left - 1 \in Nat \ {0} /\ kept[k] \in [result : ResultRow, left : Nat \ {0}]
    BY <1>2, <2>1
  <2> QED
    BY <2>1, <2>2
<1>5. ASSUME NEW k \in Keys, kept'[k] # Nothing PROVE Recent(offSaleFor', kept'[k].result, k[2], kept'[k].left)
  <2> DEFINE result == kept[k].result
  <2>1. Recent(offSaleFor, result, k[2], kept[k].left) /\ kept[k].left \in Nat
    BY <1>2, <1>4, <1>5 DEF StorefrontInv
  <2>2. kept'[k].result = result /\ kept'[k].left = kept[k].left - 1
    BY <1>4, <1>5
  <2>3. \A p \in Items, life \in Lives : offSaleFor[p] + kept[k].left <= life =>
           offSaleFor'[p] + (kept[k].left - 1) <= life
    <3>1. Lives \subseteq Nat /\ \A p \in Items : offSaleFor[p] \in Nat /\ offSaleFor'[p] \in Nat
      BY <1>2, <1>3, StorefrontAssumption
    <3> TAKE p \in Items, life \in Lives
    <3> DEFINE n == offSaleFor[p]
               m == offSaleFor'[p]
               left == kept[k].left
    <3>2. n \in Nat /\ m \in Nat /\ m <= n + 1 /\ left \in Nat /\ life \in Nat
      BY <1>3, <2>1, <3>1
    <3> HIDE DEF n, m, left
    <3>3. n + left <= life => m + (left - 1) <= life
      BY <3>2
    <3> QED
      BY <3>3 DEF n, m, left
  <2> QED
    BY <2>1, <2>2, <2>3 DEF Recent
<1>6. kept' \in [Keys -> [result : ResultRow, left : Nat \ {0}] \cup {Nothing}]
  BY <1>1, <1>4
<1>7. StorefrontTypeOK'
  BY <1>1, <1>3, <1>6 DEF StorefrontInv, StorefrontTypeOK
<1> QED
  BY <1>1, <1>3, <1>5, <1>7 DEF StorefrontInv, ArrivalsAreRecent

\* The products a section adds by itself were on sale within the longest time
\* a result may be kept, and belong to the page (StorefrontBuilder.buildSection,
\* buildCacheKey, the strategies).
THEOREM ArrivalsAreRecentHolds ==
  StorefrontInit /\ [][StorefrontNext]_storefrontVars => []ArrivalsAreRecent
<1>1. StorefrontInit => StorefrontInv /\ ArrivalsAreRecent
  <2> SUFFICES ASSUME StorefrontInit PROVE StorefrontInv /\ ArrivalsAreRecent
    OBVIOUS
  <2>1. StorefrontTypeOK
    BY StorefrontAssumption DEF StorefrontInit, StorefrontTypeOK
  <2> QED
    BY <2>1 DEF StorefrontInit, StorefrontInv, ArrivalsAreRecent
<1>2. StorefrontInv /\ ArrivalsAreRecent /\ [StorefrontNext]_storefrontVars => (StorefrontInv /\ ArrivalsAreRecent)'
  <2> SUFFICES ASSUME StorefrontInv, ArrivalsAreRecent, [StorefrontNext]_storefrontVars
               PROVE  StorefrontInv' /\ ArrivalsAreRecent'
    OBVIOUS
  <2>1. CASE Arrange
    BY <2>1, ChangesKeep DEF ArrivalsAreRecent
  <2>2. CASE UNCHANGED storefrontVars
    BY <2>2 DEF storefrontVars, arranged, StorefrontInv, StorefrontTypeOK, Recent, ArrivalsAreRecent
  <2> QED
    BY <2>1, <2>2, VisitsKeep, MinuteKeeps DEF StorefrontNext
<1> QED
  BY <1>1, <1>2, PTL

-----------------------------------------------------------------------------
(***************************************************************************)
(* Direct checkout.  Options that are still in Redis were told less than a *)
(* quote's life ago, and the first of them is the best.                    *)
(***************************************************************************)
Told(answer, left) ==
  /\ answer.age \in 0 .. QuoteTTL
  /\ left \in Nat
  /\ left > 0 => answer.age + left <= QuoteTTL
  /\ 1 \in DOMAIN answer.options
  /\ Best(answer.options, 1)

AnswerRow == [options : {<<Flat>>} \cup UNION {Sorts(freight) : freight \in Freights}, age : Nat]

QuoteInv ==
  /\ answers \in Seq(AnswerRow)
  /\ keptQuotes \in Seq(Nat)
  /\ Len(keptQuotes) = Len(answers)
  /\ \A q \in DOMAIN answers : Told(answers[q], keptQuotes[q])

LEMMA BestComesFirst ==
  ASSUME NEW freight \in Freights, NEW variants, NEW options \in Offered(variants, freight)
  PROVE  1 \in DOMAIN options /\ Best(options, 1)
<1>1. CASE options = <<Flat>>
  <2>1. DOMAIN options = {1} /\ options[1].price \in Nat
    BY <1>1, CheckoutAssumption
  <2> QED
    BY <2>1 DEF Best
<1>2. CASE freight # << >> /\ options \in Sorts(freight)
  <2>1. /\ Len(freight) \in Nat /\ DOMAIN freight = 1 .. Len(freight) /\ Len(freight) # 0
        /\ \A i \in DOMAIN freight : freight[i].price \in Nat
    <3> DEFINE T == {freight[i] : i \in DOMAIN freight}
    <3>1. freight \in Seq(T) /\ \A i \in DOMAIN freight : freight[i].price \in Nat
      BY CheckoutAssumption
    <3> HIDE DEF T
    <3> QED
      BY <1>2, <3>1, EmptySeq
  <2>2. PICK place \in [DOMAIN freight -> DOMAIN freight] :
          InOrder(freight, place) /\ options = [i \in DOMAIN freight |-> freight[place[i]]]
    BY <1>2 DEF Sorts
  <2>3. 1 \in DOMAIN options /\ DOMAIN options = DOMAIN freight
    BY <2>1, <2>2
  <2>4. ASSUME NEW j \in DOMAIN options
        PROVE  /\ InTime(options[j]) => InTime(options[1])
               /\ InTime(options[j]) = InTime(options[1]) => options[1].price <= options[j].price
    <3>1. options[1].price \in Nat /\ options[j].price \in Nat
      BY <2>1, <2>2, <2>3
    <3>2. CASE j = 1
      BY <3>1, <3>2
    <3>3. CASE j # 1
      <4>1. 1 < j
        BY <2>1, <2>3, <3>3
      <4>2. options[1] = freight[place[1]] /\ options[j] = freight[place[j]]
        BY <2>2, <2>3
      <4>3. Ranks(options[1], options[j]) \/ ~ Ranks(options[j], options[1])
        BY <2>2, <2>3, <4>1, <4>2 DEF InOrder
      <4>4. InTime(options[1]) \in BOOLEAN /\ InTime(options[j]) \in BOOLEAN
        BY DEF InTime
      <4> QED
        BY <3>1, <4>3, <4>4 DEF Ranks
    <3> QED
      BY <3>2, <3>3
  <2> QED
    BY <2>3, <2>4 DEF Best
<1> QED
  BY <1>1, <1>2 DEF Offered

LEMMA QuotesAreKept ==
  ASSUME QuoteInv, [CheckoutNext]_checkoutVars
  PROVE  QuoteInv'
<1>1. ASSUME UNCHANGED <<answers, keptQuotes>> PROVE QuoteInv'
  BY <1>1 DEF QuoteInv, Told, Best
<1>2. ASSUME NEW freight \in Freights, Answer(freight) PROVE QuoteInv'
  <2>1. PICK options \in Offered(asking, freight), life \in {0, QuoteTTL} :
          /\ answers' = Append(answers, [options |-> options, age |-> 0])
          /\ keptQuotes' = Append(keptQuotes, life)
    BY <1>2 DEF Answer
  <2>2. QuoteTTL \in Nat /\ life \in Nat /\ life <= QuoteTTL
    BY CheckoutAssumption
  <2> DEFINE answered == [options |-> options, age |-> 0]
  <2>3. Told(answered, life)
    BY <2>2, BestComesFirst DEF Told
  <2>4. /\ Len(answers') = Len(answers) + 1 /\ Len(keptQuotes') = Len(keptQuotes) + 1
        /\ Len(answers) \in Nat /\ DOMAIN answers = 1 .. Len(answers) /\ DOMAIN keptQuotes = DOMAIN answers
        /\ keptQuotes' \in Seq(Nat)
        /\ \A q \in DOMAIN answers : answers'[q] = answers[q] /\ keptQuotes'[q] = keptQuotes[q]
        /\ answers'[Len(answers) + 1] = answered /\ keptQuotes'[Len(answers) + 1] = life
        /\ DOMAIN answers' = 1 .. Len(answers) + 1
    BY <2>1, <2>2 DEF QuoteInv
  <2>5. \A q \in DOMAIN answers' : Told(answers'[q], keptQuotes'[q])
    <3> TAKE q \in DOMAIN answers'
    <3>1. q \in DOMAIN answers \/ q = Len(answers) + 1
      BY <2>4
    <3> HIDE DEF answered
    <3> QED
      BY <2>3, <2>4, <3>1 DEF QuoteInv
  <2>6. answers' \in Seq(AnswerRow)
    <3>1. answered \in AnswerRow
      BY DEF AnswerRow, Offered
    <3> HIDE DEF answered
    <3> QED
      BY <2>1, <3>1 DEF QuoteInv, answered
  <2> QED
    BY <2>4, <2>5, <2>6 DEF QuoteInv, Told, Best
<1>3. CASE Wait
  <2>1. /\ keptQuotes' = [q \in DOMAIN keptQuotes |-> IF keptQuotes[q] = 0 THEN 0 ELSE keptQuotes[q] - 1]
        /\ answers' = [q \in DOMAIN answers |-> [answers[q] EXCEPT
                         !.age = IF answers[q].age < QuoteTTL THEN answers[q].age + 1 ELSE answers[q].age]]
    BY <1>3 DEF Wait
  <2>2. /\ Len(answers) \in Nat /\ DOMAIN answers = 1 .. Len(answers) /\ DOMAIN keptQuotes = DOMAIN answers
        /\ QuoteTTL \in Nat
        /\ \A q \in DOMAIN answers : /\ keptQuotes[q] \in Nat
                                     /\ answers[q] \in AnswerRow /\ answers[q].age \in Nat
    <3>1. \A q \in DOMAIN answers : answers[q] \in AnswerRow
      BY DEF QuoteInv
    <3>2. \A row \in AnswerRow : row.age \in Nat
      BY DEF AnswerRow
    <3> QED
      BY <3>1, <3>2, CheckoutAssumption DEF QuoteInv
  <2>3. \A q \in DOMAIN answers :
          /\ answers'[q] \in AnswerRow
          /\ answers'[q].options = answers[q].options
          /\ answers'[q].age = IF answers[q].age < QuoteTTL THEN answers[q].age + 1 ELSE answers[q].age
          /\ keptQuotes'[q] = IF keptQuotes[q] = 0 THEN 0 ELSE keptQuotes[q] - 1
    BY <2>1, <2>2 DEF AnswerRow
  <2>4. \A q \in DOMAIN answers : Told(answers'[q], keptQuotes'[q])
    <3> TAKE q \in DOMAIN answers
    <3>1. Told(answers[q], keptQuotes[q])
      BY DEF QuoteInv
    <3>2. answers'[q].options = answers[q].options
      BY <2>3
    <3> QED
      BY <2>2, <2>3, <3>1, <3>2 DEF Told
  <2>5. keptQuotes' \in Seq(Nat) /\ Len(keptQuotes') = Len(answers')
    <3>1. \A q \in DOMAIN keptQuotes : (IF keptQuotes[q] = 0 THEN 0 ELSE keptQuotes[q] - 1) \in Nat
      BY <2>2
    <3> QED
      BY <2>1, <2>2, <3>1
  <2>6. DOMAIN answers' = DOMAIN answers
    BY <2>1
  <2>7. answers' \in Seq(AnswerRow)
    <3>1. answers' = [q \in 1 .. Len(answers) |-> answers'[q]]
      BY <2>1, <2>2, Zenon
    <3> QED
      BY <2>2, <2>3, <3>1
  <2> QED
    BY <2>4, <2>5, <2>6, <2>7 DEF QuoteInv, Told, Best
<1>4. CASE getShippingQuote
  BY <1>1, <1>4 DEF getShippingQuote
<1>5. ASSUME NEW c \in Choice, Choose(c) PROVE QuoteInv'
  BY <1>1, <1>5 DEF Choose
<1>6. ASSUME NEW v \in Variants, DeleteVariant(v) PROVE QuoteInv'
  BY <1>1, <1>6 DEF DeleteVariant
<1>7. ASSUME NEW q, NEW name, checkoutDirect(q, name) PROVE QuoteInv'
  BY <1>1, <1>7 DEF checkoutDirect
<1>8. CASE UNCHANGED checkoutVars
  BY <1>1, <1>8 DEF checkoutVars
<1> QED
  BY <1>2, <1>3, <1>4, <1>5, <1>6, <1>7, <1>8 DEF CheckoutNext

LEMMA TheTermsAreTheTold ==
  ASSUME QuoteInv, ChargedAsTold, [CheckoutNext]_checkoutVars
  PROVE  ChargedAsTold'
<1>1. ASSUME order' = Unknown PROVE ChargedAsTold'
  BY <1>1 DEF ChargedAsTold
<1>2. ASSUME NEW q \in 0 .. Len(answers), NEW name, checkoutDirect(q, name) PROVE ChargedAsTold'
  <2>1. answers' = answers /\ Len(answers) \in Nat /\ DOMAIN answers = 1 .. Len(answers)
    BY <1>2 DEF checkoutDirect, QuoteInv
  <2>2. PICK f \in Resolutions :
          \/ q = 0 /\ order' = [lines |-> f, quote |-> 0, name |-> Unknown, shipping |-> 0]
          \/ q > 0 /\ \E o \in resolveQuotedShipping(q, name) :
                 order' = [lines |-> f, quote |-> q, name |-> name, shipping |-> o.price]
    BY <1>2 DEF checkoutDirect
  <2>3. CASE q = 0
    <3>1. order'.quote = 0
      BY <2>2, <2>3
    <3> QED
      BY <3>1 DEF ChargedAsTold
  <2>4. CASE q > 0
    <3>1. PICK o \in resolveQuotedShipping(q, name) :
            order' = [lines |-> f, quote |-> q, name |-> name, shipping |-> o.price]
      BY <2>2, <2>4
    <3>2. q \in DOMAIN answers
      BY <2>1, <2>4
    <3>3. Told(answers[q], keptQuotes[q]) /\ keptQuotes[q] # 0
      BY <3>1, <3>2 DEF QuoteInv, resolveQuotedShipping
    <3>4. answers[q].age < QuoteTTL
      BY <3>3, CheckoutAssumption DEF Told
    <3> DEFINE options == answers[q].options
    <3>5. \E i \in DOMAIN options :
            /\ options[i].price = o.price
            /\ IF name = Unknown THEN Best(options, i) ELSE options[i].name = name
      <4>1. CASE name = Unknown
        <5>1. o = options[1]
          BY <3>1, <3>3, <4>1 DEF resolveQuotedShipping
        <5> QED
          BY <3>3, <4>1, <5>1 DEF Told
      <4>2. CASE name # Unknown
        BY <3>1, <3>3, <4>2 DEF resolveQuotedShipping
      <4> QED
        BY <4>1, <4>2
    <3>6. order'.quote = q /\ order'.name = name /\ order'.shipping = o.price
      BY <3>1
    <3> HIDE DEF options
    <3>7. (order # Unknown /\ order.quote > 0 =>
             LET answered == answers[q]
             IN  /\ answered.age < QuoteTTL
                 /\ \E i \in DOMAIN answered.options :
                      /\ answered.options[i].price = o.price
                      /\ IF name = Unknown THEN Best(answered.options, i) ELSE answered.options[i].name = name)
      BY <3>4, <3>5 DEF options
    <3> QED
      BY <2>1, <3>4, <3>5, <3>6 DEF ChargedAsTold, options, Best
  <2> QED
    BY <2>1, <2>3, <2>4
<1>3. ASSUME NEW freight \in Freights, Answer(freight) PROVE ChargedAsTold'
  BY <1>1, <1>3 DEF Answer
<1>4. CASE getShippingQuote \/ Wait
  BY <1>1, <1>4 DEF getShippingQuote, Wait
<1>5. ASSUME NEW c \in Choice, Choose(c) PROVE ChargedAsTold'
  BY <1>1, <1>5 DEF Choose, Turn
<1>6. ASSUME NEW v \in Variants, DeleteVariant(v) PROVE ChargedAsTold'
  BY <1>1, <1>6 DEF DeleteVariant, Turn
<1>7. CASE UNCHANGED checkoutVars
  BY <1>7 DEF checkoutVars, ChargedAsTold, Best
<1> QED
  BY <1>2, <1>3, <1>4, <1>5, <1>6, <1>7 DEF CheckoutNext

\* Shipping is charged as the shopper was told less than a quote's life ago
\* (getShippingQuote's sort, resolveQuotedShipping).
THEOREM ChargedAsToldHolds == CheckoutInit /\ [][CheckoutNext]_checkoutVars => []ChargedAsTold
<1>1. CheckoutInit => QuoteInv /\ ChargedAsTold
  <2> SUFFICES ASSUME CheckoutInit PROVE QuoteInv /\ ChargedAsTold
    OBVIOUS
  <2>1. answers = << >> /\ keptQuotes = << >> /\ order = Unknown
    BY DEF CheckoutInit
  <2> QED
    BY <2>1 DEF QuoteInv, ChargedAsTold
<1>2. QuoteInv /\ ChargedAsTold /\ [CheckoutNext]_checkoutVars => (QuoteInv /\ ChargedAsTold)'
  BY QuotesAreKept, TheTermsAreTheTold
<1> QED
  BY <1>1, <1>2, PTL

-----------------------------------------------------------------------------
(***************************************************************************)
(* The electronics listing.  Above a category its chain follows the        *)
(* parents, and a root has none: under a root lies what has it for a root. *)
(* Sorted by price and id the products come in one order only, of which    *)
(* the pages are one piece after another.                                  *)
(***************************************************************************)
LEMMA ChainsFollow ==
  ASSUME NEW tree, NEW c \in DOMAIN tree
  PROVE  LET chain == ancestorChains(tree)[c]
         IN  /\ chain \in Seq(DOMAIN tree)
             /\ Len(chain) > 0
             /\ \A m \in 1 .. Len(chain) - 1 : tree[chain[m]] \in DOMAIN tree
<1> DEFINE N == MaxDepth
           A == {q \in Seq(DOMAIN tree) :
                   /\ Len(q) > 0
                   /\ \A m \in 1 .. Len(q) - 1 : tree[q[m]] \in DOMAIN tree}
           Up(q) == LET above == tree[Last(q)]
                    IN  IF above \in DOMAIN tree THEN Append(q, above) ELSE q
           G == [p \in (1 .. N) \X A |-> Up(p[2])]
           Eq(f) == f = [d \in 0 .. MaxDepth |-> IF d = 0 THEN <<c>> ELSE Up(f[d - 1])]
           F == CHOOSE f : Eq(f)
<1>1. N \in Nat
  BY ElectronicsAssumption
<1>2. <<c>> \in A
  OBVIOUS
<1>3. ASSUME NEW q \in A PROVE Up(q) \in A
  <2>1. q \in Seq(DOMAIN tree) /\ Len(q) > 0 /\ Len(q) \in Nat /\ Last(q) = q[Len(q)]
        /\ \A m \in 1 .. Len(q) - 1 : tree[q[m]] \in DOMAIN tree
    BY DEF Last
  <2> DEFINE above == tree[q[Len(q)]]
  <2>2. CASE above \in DOMAIN tree
    <3>1. /\ Append(q, above) \in Seq(DOMAIN tree)
          /\ Len(Append(q, above)) = Len(q) + 1
          /\ \A m \in 1 .. Len(q) : Append(q, above)[m] = q[m]
      BY <2>1, <2>2
    <3>2. \A m \in 1 .. Len(q) : m \in 1 .. Len(q) - 1 \/ m = Len(q)
      BY <2>1
    <3>3. \A m \in 1 .. Len(q) : tree[Append(q, above)[m]] \in DOMAIN tree
      BY <2>1, <2>2, <3>1, <3>2
    <3>4. Up(q) = Append(q, above)
      BY <2>1, <2>2
    <3>5. Append(q, above) \in A
      <4> DEFINE r == Append(q, above)
      <4>1. r \in Seq(DOMAIN tree) /\ Len(r) > 0 /\ 1 .. Len(r) - 1 = 1 .. Len(q)
        BY <2>1, <3>1
      <4>2. \A m \in 1 .. Len(q) : tree[r[m]] \in DOMAIN tree
        BY <3>3
      <4> HIDE DEF r
      <4>3. r \in A
        BY <4>1, <4>2
      <4> QED
        BY <4>3 DEF r
    <3> QED
      BY <3>4, <3>5
  <2>3. CASE above \notin DOMAIN tree
    BY <2>1, <2>3
  <2> QED
    BY <2>2, <2>3
<1> HIDE DEF A, Up
<1>4. G \in [(1 .. N) \X A -> A]
  BY <1>3
<1>5. PICK f \in [0 .. N -> A] : Steps(f, N, <<c>>, G)
  <2> HIDE DEF N, G
  <2> QED
    BY <1>1, <1>2, <1>4, StepRecursion
<1>6. Eq(f)
  <2>1. ASSUME NEW n \in 1 .. N PROVE f[n] = Up(f[n - 1])
    <3>1. n - 1 \in 0 .. N
      BY <1>1
    <3>2. <<n, f[n - 1]>> \in (1 .. N) \X A /\ f[n] = G[<<n, f[n - 1]>>]
      <4> HIDE DEF G, N
      <4> QED
        BY <1>5, <3>1 DEF Steps
    <3> QED
      BY <3>2
  <2>2. f[0] = <<c>>
    BY <1>5 DEF Steps
  <2> HIDE DEF G
  <2>3. \A n \in 0 .. N : n = 0 \/ n \in 1 .. N
    BY <1>1
  <2> QED
    BY <1>5, <2>1, <2>2, <2>3
<1>7. Eq(F)
  <2> HIDE DEF Eq
  <2> QED
    BY <1>6
<1>8. ancestorChains(tree)[c] = F[MaxDepth]
  BY DEF ancestorChains, Up
<1>9. F[N] \in A
  <2> DEFINE Q == {n \in 0 .. N : F[n] \in A}
  <2>1. F = [d \in 0 .. N |-> IF d = 0 THEN <<c>> ELSE Up(F[d - 1])]
    BY <1>7
  <2> HIDE DEF F, Eq, N
  <2>2. 0 \in Q
    BY <1>1, <1>2, <2>1
  <2>3. ASSUME NEW n \in 1 .. N, n - 1 \in Q PROVE n \in Q
    <3>1. n \in 0 .. N /\ n # 0
      BY <1>1
    <3> QED
      BY <1>3, <2>1, <2>3, <3>1
  <2>4. Q = 0 .. N
    <3>1. Q \in SUBSET (0 .. N)
      OBVIOUS
    <3> HIDE DEF Q
    <3> QED
      BY <1>1, <2>2, <2>3, <3>1, StepInduction
  <2>5. N \in 0 .. N
    BY <1>1
  <2> QED
    BY <2>4, <2>5
<1> QED
  <2> HIDE DEF F
  <2> QED
    BY <1>8, <1>9 DEF A

LEMMA UnderTheRoot ==
  ASSUME NEW tree, DOMAIN tree \subseteq Branches, NEW r \in DOMAIN tree, tree[r] = Absent
  PROVE  {c \in Branches : rootOf(tree, c) = r} = categoryIds(tree, r)
<1>1. r # Absent /\ Absent \notin DOMAIN tree
  BY ElectronicsAssumption
<1>2. ASSUME NEW c \in DOMAIN tree
      PROVE  rootOf(tree, c) = r <=> r \in ToSet(ancestorChains(tree)[c])
  <2> DEFINE chain == ancestorChains(tree)[c]
  <2>1. /\ chain \in Seq(DOMAIN tree) /\ Len(chain) > 0 /\ Len(chain) \in Nat /\ DOMAIN chain = 1 .. Len(chain)
        /\ \A m \in 1 .. Len(chain) - 1 : tree[chain[m]] \in DOMAIN tree
    BY ChainsFollow
  <2>2. rootOf(tree, c) = chain[Len(chain)]
    BY DEF rootOf, Last
  <2> HIDE DEF chain
  <2>3. chain[Len(chain)] = r => r \in ToSet(chain)
    BY <2>1 DEF ToSet
  <2>4. ASSUME r \in ToSet(chain) PROVE chain[Len(chain)] = r
    <3>1. PICK m \in 1 .. Len(chain) : chain[m] = r
      BY <2>1, <2>4 DEF ToSet
    <3>2. m \notin 1 .. Len(chain) - 1
      BY <1>1, <2>1, <3>1
    <3>3. m = Len(chain)
      <4> DEFINE n == Len(chain)
      <4>1. n \in Nat /\ m \in 1 .. n /\ m \notin 1 .. n - 1
        BY <2>1, <3>2
      <4> HIDE DEF n
      <4>2. m = n
        BY <4>1
      <4> QED
        BY <4>2 DEF n
    <3> QED
      BY <3>1, <3>3
  <2> QED
    BY <2>2, <2>3, <2>4 DEF chain
<1>3. \A c \in Branches \ DOMAIN tree : rootOf(tree, c) # r
  BY <1>1 DEF rootOf
<1> QED
  BY <1>1, <1>2, <1>3 DEF categoryIds

LEMMA WhereIsFinite ==
  ASSUME NEW C, NEW cap
  PROVE  /\ buildWhere(C, cap) \subseteq Goods
         /\ IsFiniteSet(buildWhere(C, cap))
         /\ Cardinality(buildWhere(C, cap)) \in Nat
<1>1. buildWhere(C, cap) \subseteq Goods
  BY DEF buildWhere
<1> QED
  BY <1>1, ElectronicsAssumption, FS_Subset, FS_CardinalityType

\* The products of some categories are those of each, added up.
LEMMA CountsAddUp ==
  ASSUME NEW C \in SUBSET Branches, NEW cap
  PROVE  SumFunctionOnSet(countByCategory(cap), C) = Cardinality(buildWhere(C, cap))
<1> DEFINE counts == countByCategory(cap)
           Q == {D \in SUBSET C : SumFunctionOnSet(counts, D) = Cardinality(buildWhere(D, cap))}
<1>1. \A c \in C : counts[c] = Cardinality(buildWhere({c}, cap)) /\ counts[c] \in Nat
  BY WhereIsFinite DEF countByCategory
<1> HIDE DEF counts
<1>2. IsFiniteSet(C) /\ \A D \in SUBSET C : IsFiniteSet(D) /\ Cardinality(D) \in Nat
  BY ElectronicsAssumption, FS_Subset, FS_CardinalityType
<1>3. ASSUME NEW D \in SUBSET C,
             \A B \in SUBSET C : Cardinality(B) < Cardinality(D) => B \in Q
      PROVE  D \in Q
  <2>1. CASE D = {}
    <3>1. buildWhere(D, cap) = {}
      BY <2>1 DEF buildWhere
    <3> QED
      BY <2>1, <3>1, SumOfNone, FS_EmptySet
  <2>2. CASE D # {}
    <3>1. PICK c \in D : TRUE
      BY <2>2
    <3> DEFINE B == D \ {c}
    <3>2. B \in SUBSET C /\ Cardinality(B) < Cardinality(D) /\ IsFiniteSet(B) /\ c \notin B /\ D = B \cup {c}
      BY <1>2, <3>1, FS_RemoveElement
    <3> HIDE DEF B
    <3>3. SumFunctionOnSet(counts, B) = Cardinality(buildWhere(B, cap))
      BY <1>3, <3>2
    <3>4. SumFunctionOnSet(counts, B \cup {c}) = SumFunctionOnSet(counts, B) + counts[c]
      <4>1. \A x \in B \cup {c} : counts[x] \in Nat
        BY <1>1, <3>2
      <4> QED
        BY <3>2, <4>1, SumAdds
    <3>5. Cardinality(buildWhere(D, cap)) = Cardinality(buildWhere(B, cap)) + Cardinality(buildWhere({c}, cap))
      <4>1. /\ buildWhere(D, cap) = buildWhere(B, cap) \cup buildWhere({c}, cap)
            /\ buildWhere(B, cap) \cap buildWhere({c}, cap) = {}
        BY <3>2 DEF buildWhere
      <4>2. Cardinality(buildWhere(B, cap) \cap buildWhere({c}, cap)) = 0
        BY <4>1, FS_EmptySet
      <4>3. Cardinality(buildWhere(B, cap) \cup buildWhere({c}, cap)) =
              Cardinality(buildWhere(B, cap)) + Cardinality(buildWhere({c}, cap))
                - Cardinality(buildWhere(B, cap) \cap buildWhere({c}, cap))
        BY WhereIsFinite, FS_Union
      <4> QED
        BY <4>1, <4>2, <4>3, WhereIsFinite
    <3> QED
      BY <1>1, <3>2, <3>3, <3>4, <3>5
  <2> QED
    BY <2>1, <2>2
<1>4. Q = SUBSET C
  <2>1. Q \in SUBSET SUBSET C
    OBVIOUS
  <2> HIDE DEF Q
  <2> QED
    BY <1>2, <1>3, <2>1, SizeInduction
<1>5. C \in SUBSET C
  OBVIOUS
<1> QED
  BY <1>4, <1>5 DEF counts

-----------------------------------------------------------------------------
(* The order of the products.                                              *)
Priced(S) == S \subseteq Goods /\ \A i \in S : goods[i].price \in Nat

LEMMA SortedAreWhole ==
  ASSUME NEW S \in SUBSET Goods, NEW s \in Sorted(S)
  PROVE  /\ s \in Seq(S)
         /\ Len(s) = Cardinality(S) /\ Len(s) \in Nat
         /\ \A i, j \in 1 .. Len(s) : i # j => s[i] # s[j]
         /\ \A m, n \in 1 .. Len(s) : m < n => ~ Ahead(s[n], s[m])
         /\ ToSet(s) = S
<1> DEFINE n == Cardinality(S)
<1>1. IsFiniteSet(S) /\ n \in Nat
  BY ElectronicsAssumption, FS_Subset, FS_CardinalityType
<1>2. s \in [1 .. n -> S] /\ \A i, j \in 1 .. n : i # j => s[i] # s[j]
  BY DEF Sorted, SetToSeqs
<1>3. s \in Seq(S) /\ Len(s) = n /\ DOMAIN s = 1 .. n
  BY <1>1, <1>2
<1>4. ASSUME NEW x \in S, \A i \in 1 .. n : s[i] # x PROVE FALSE
  <2>1. s \in [1 .. n -> S \ {x}]
    BY <1>2, <1>4
  <2>2. IsFiniteSet(S \ {x}) /\ Cardinality(S \ {x}) = n - 1
    BY <1>1, FS_RemoveElement
  <2>3. IsFiniteSet(1 .. n) /\ Cardinality(1 .. n) = n
    BY <1>1, FS_Interval
  <2>4. Cardinality(S \ {x}) < Cardinality(1 .. n)
    BY <1>1, <2>2, <2>3
  <2> DEFINE D == 1 .. n
             T == S \ {x}
  <2>5. s \in [D -> T] /\ IsFiniteSet(D) /\ IsFiniteSet(T) /\ Cardinality(T) < Cardinality(D)
    BY <2>1, <2>2, <2>3, <2>4
  <2> HIDE DEF D, T
  <2>6. \E i, j \in D : i # j /\ s[i] = s[j]
    BY <2>5, FS_PigeonHole
  <2> QED
    BY <1>2, <2>6 DEF D
<1>5. ToSet(s) = S
  BY <1>2, <1>3, <1>4 DEF ToSet
<1> QED
  BY <1>1, <1>2, <1>3, <1>5 DEF Sorted

LEMMA SortedIsOne ==
  ASSUME NEW S \in SUBSET Goods, Priced(S), NEW s \in Sorted(S), NEW t \in Sorted(S)
  PROVE  s = t
<1> DEFINE N == Len(s)
           bad == {n \in 1 .. N : s[n] # t[n]}
<1>1. N \in Nat /\ Len(t) = N /\ s \in Seq(S) /\ t \in Seq(S)
  BY SortedAreWhole
<1>2. SUFFICES ASSUME bad # {} PROVE FALSE
  <2>1. ASSUME bad = {} PROVE s = t
    <3>1. \A i \in 1 .. Len(s) : s[i] = t[i]
      BY <2>1
    <3> QED
      BY <1>1, <3>1, SeqEqual
  <2> QED
    BY <2>1
<1>3. PICK n \in bad : \A m \in bad : n <= m
  <2>1. bad \in SUBSET Nat
    BY <1>1
  <2> HIDE DEF bad
  <2> QED
    BY <1>2, <2>1, Least
<1>4. n \in 1 .. N /\ n \in Nat /\ s[n] # t[n] /\ \A m \in 1 .. N : m < n => s[m] = t[m]
  BY <1>1, <1>3
<1> HIDE DEF bad
<1>5. PICK m \in 1 .. N : t[m] = s[n]
  <2>1. s[n] \in S
    BY <1>1, <1>4
  <2>2. s[n] \in ToSet(t) /\ DOMAIN t = 1 .. N
    BY <1>1, <2>1, SortedAreWhole
  <2> QED
    BY <2>2 DEF ToSet
<1>6. PICK k \in 1 .. N : s[k] = t[n]
  <2>1. t[n] \in S
    BY <1>1, <1>4
  <2>2. t[n] \in ToSet(s) /\ DOMAIN s = 1 .. N
    BY <1>1, <2>1, SortedAreWhole
  <2> QED
    BY <2>2 DEF ToSet
<1>7. /\ \A i, j \in 1 .. N : i # j => s[i] # s[j]
      /\ \A i, j \in 1 .. N : i # j => t[i] # t[j]
      /\ \A i, j \in 1 .. N : i < j => ~ Ahead(s[j], s[i])
      /\ \A i, j \in 1 .. N : i < j => ~ Ahead(t[j], t[i])
  BY <1>1, SortedAreWhole
<1> HIDE DEF N
<1>8. n < m /\ n < k
  <2>1. m # n /\ k # n
    BY <1>4, <1>5, <1>6
  <2>2. ~ (m < n)
    BY <1>4, <1>5, <1>7, <2>1
  <2>3. ~ (k < n)
    BY <1>4, <1>6, <1>7, <2>1
  <2> QED
    BY <1>1, <1>4, <2>1, <2>2, <2>3
<1>9. ~ Ahead(s[n], t[n]) /\ ~ Ahead(t[n], s[n])
  BY <1>4, <1>5, <1>6, <1>7, <1>8
<1>10. s[n] \in S /\ t[n] \in S
  BY <1>1, <1>4 DEF N
<1>11. /\ s[n] \in Nat /\ t[n] \in Nat
       /\ goods[s[n]].price \in Nat /\ goods[t[n]].price \in Nat
  BY <1>10, ElectronicsAssumption DEF Priced
<1> QED
  BY <1>4, <1>9, <1>11 DEF Ahead

-----------------------------------------------------------------------------
(* The pages.                                                              *)
\* The first k of a sequence, or all of it.
Start(s, k) == SubSeq(s, 1, IF k > Len(s) THEN Len(s) ELSE k)

LEMMA PagesFollow ==
  ASSUME NEW S, NEW s \in Seq(S), NEW nth \in Nat \ {0}
  PROVE  Start(s, (nth - 1) * Limit) \o PageOf(s, nth) = Start(s, nth * Limit)
<1> DEFINE from == (nth - 1) * Limit
           to == nth * Limit
           L == Len(s)
<1>1. Limit \in Nat \ {0} /\ L \in Nat
  BY ElectronicsAssumption
<1>2. from \in Nat /\ to \in Nat /\ to = from + Limit /\ to - Limit + 1 = from + 1
  <2>1. nth - 1 \in Nat /\ nth = (nth - 1) + 1
    OBVIOUS
  <2>2. \A a, b \in Nat : a * b \in Nat /\ (a + 1) * b = a * b + b
    OBVIOUS
  <2>3. from \in Nat /\ to = from + Limit
    BY <1>1, <2>1, <2>2
  <2> HIDE DEF from
  <2> QED
    BY <1>1, <2>3
<1>3. PageOf(s, nth) = SubSeq(s, from + 1, IF to > L THEN L ELSE to)
  BY <1>2 DEF PageOf
<1> HIDE DEF from, to
<1>4. CASE from <= L
  <2> DEFINE n == IF to > L THEN L ELSE to
  <2>1. 1 \in 1 .. L + 1 /\ from \in 1 - 1 .. L /\ n \in from .. L
    BY <1>1, <1>2, <1>4
  <2>2. SubSeq(s, 1, from) \o SubSeq(s, from + 1, n) = SubSeq(s, 1, n)
    <3> HIDE DEF n
    <3> QED
      BY <2>1, ConcatAdjacentSubSeq
  <2>3. Start(s, from) = SubSeq(s, 1, from) /\ Start(s, to) = SubSeq(s, 1, n)
    BY <1>1, <1>2, <1>4 DEF Start
  <2> QED
    BY <1>3, <2>2, <2>3 DEF from, to
<1>5. CASE from > L
  <2>1. to > L /\ L < from + 1
    BY <1>1, <1>2, <1>5
  <2>2. PageOf(s, nth) = << >>
    BY <1>1, <1>2, <1>3, <2>1, SubSeqEmpty
  <2>3. Start(s, from) = SubSeq(s, 1, L) /\ Start(s, to) = SubSeq(s, 1, L)
    BY <1>5, <2>1 DEF Start
  <2>4. SubSeq(s, 1, L) \in Seq(S)
    BY SubSeqFull
  <2> QED
    BY <2>2, <2>3, <2>4, ConcatEmptySeq DEF from, to
<1> QED
  BY <1>1, <1>2, <1>4, <1>5

\* The last page ends where the products do.
LEMMA LastPageEnds ==
  ASSUME NEW sum \in Nat, NEW nth \in Nat, nth >= buildPage(sum)
  PROVE  nth * Limit >= sum
<1> DEFINE n == (sum + Limit - 1) \div Limit
<1>1. Limit \in Nat /\ Limit > 0
  BY ElectronicsAssumption
<1>2. sum + Limit - 1 \in Nat
  BY <1>1
<1>3. n \in Nat /\ sum + Limit - 1 < n * Limit + Limit
  <2>1. \A a \in Nat, b \in Nat \ {0} : a \div b \in Nat /\ a < (a \div b) * b + b
    OBVIOUS
  <2> DEFINE a == sum + Limit - 1
  <2>2. a \in Nat /\ Limit \in Nat \ {0}
    BY <1>1, <1>2
  <2> HIDE DEF a
  <2>3. a \div Limit \in Nat /\ a < (a \div Limit) * Limit + Limit
    BY <2>1, <2>2
  <2> QED
    BY <2>3 DEF a
<1>4. nth >= n
  BY DEF buildPage
<1> HIDE DEF n
<1>5. nth * Limit >= n * Limit
  <2>1. \A a, b, c \in Nat : a >= b => a * c >= b * c
    OBVIOUS
  <2> QED
    BY <1>1, <1>3, <1>4, <2>1
<1>6. \A a, b \in Nat : a * b \in Nat
  OBVIOUS
<1>7. nth * Limit \in Nat /\ n * Limit \in Nat
  BY <1>1, <1>3, <1>6
<1> DEFINE x == nth * Limit
           y == n * Limit
<1> HIDE DEF x, y
<1>8. x \in Nat /\ y \in Nat /\ x >= y /\ sum + Limit - 1 < y + Limit => x >= sum
  BY <1>1
<1> QED
  BY <1>3, <1>5, <1>7, <1>8 DEF x, y

-----------------------------------------------------------------------------
(* The walk.                                                               *)
Filed(g) == \E category : g \in [category : {category}, price : Prices, live : BOOLEAN]

CatalogOK ==
  /\ goods = [i \in Goods |-> goods[i]]
  /\ \A i \in Goods : goods[i] # Absent => Filed(goods[i])

Shaped(w) ==
  \E tree, seen, sum, counts :
    w \in [selected : Branches \cup {Absent}, cap : Prices, page : Nat \ {0}, tree : {tree},
           waiting : SUBSET Asked, seen : {seen}, total : {sum}, counts : {counts}, still : BOOLEAN]

Matching(w) == buildWhere(categoryIds(findCategories, w.selected), w.cap)

Done(w) == IF "items" \in w.waiting THEN w.page - 1 ELSE w.page

\* What a shopper has seen and been told of a catalog that stands still.
AsItStands(w) ==
  /\ w.tree = findCategories
  /\ "total" \notin w.waiting => w.total = Cardinality(Matching(w))
  /\ w.counts # Absent => w.counts = countByRoot(findCategories, countByCategory(w.cap))
  /\ \/ w.page = 1 /\ "items" \in w.waiting /\ w.seen = << >>
     \/ \E s \in Sorted(Matching(w)) : w.seen = Start(s, Done(w) * Limit)

WalkInv == walk # Absent => Shaped(walk) /\ (walk.still => AsItStands(walk))

ElectronicsInv == CatalogOK /\ WalkInv

LEMMA MatchingIs ==
  ASSUME CatalogOK, NEW w
  PROVE  /\ Matching(w) \in SUBSET Goods
         /\ Priced(Matching(w))
<1>1. Matching(w) \in SUBSET Goods
  BY DEF Matching, buildWhere
<1>2. \A i \in Matching(w) : goods[i] # Absent
  BY DEF Matching, buildWhere, OnShelf
<1>3. \A g : Filed(g) => g.price \in Nat
  BY ElectronicsAssumption DEF Filed
<1> QED
  BY <1>1, <1>2, <1>3 DEF CatalogOK, Priced

LEMMA StandingStill ==
  ASSUME UNCHANGED <<parent, gone, goods>>
  PROVE  \A w : AsItStands(w)' <=> AsItStands(w)
<1>1. findCategories' = findCategories
  BY DEF findCategories
<1>2. \A C, cap : buildWhere(C, cap)' = buildWhere(C, cap)
  BY DEF buildWhere, OnShelf
<1>3. \A S : Sorted(S)' = Sorted(S)
  BY DEF Sorted, Ahead
<1>4. \A cap : countByCategory(cap)' = countByCategory(cap)
  BY <1>2 DEF countByCategory
<1>5. \A w : Matching(w)' = Matching(w)
  BY <1>1, <1>2 DEF Matching
<1> QED
  BY <1>1, <1>3, <1>4, <1>5 DEF AsItStands

\* A change to the catalog ends what holds of one that stands still.
LEMMA MoveStops ==
  ASSUME WalkInv, Move
  PROVE  WalkInv'
<1> SUFFICES ASSUME walk' # Absent PROVE Shaped(walk') /\ ~ walk'.still
  BY DEF WalkInv, AsItStands
<1>1. walk # Absent /\ walk' = [walk EXCEPT !.still = FALSE]
  BY DEF Move
<1>2. PICK tree, seen, sum, counts :
        walk \in [selected : Branches \cup {Absent}, cap : Prices, page : Nat \ {0}, tree : {tree},
                  waiting : SUBSET Asked, seen : {seen}, total : {sum}, counts : {counts}, still : BOOLEAN]
  BY <1>1 DEF WalkInv, Shaped
<1>3. /\ walk' \in [selected : Branches \cup {Absent}, cap : Prices, page : Nat \ {0}, tree : {tree},
                    waiting : SUBSET Asked, seen : {seen}, total : {sum}, counts : {counts}, still : BOOLEAN]
      /\ walk'.still = FALSE
  BY <1>1, <1>2
<1> QED
  BY <1>3 DEF Shaped

LEMMA GoodsAreFiled ==
  ASSUME CatalogOK, NEW i \in Goods, NEW g, Filed(g), goods' = [goods EXCEPT ![i] = g]
  PROVE  CatalogOK'
<1>1. goods' = [j \in Goods |-> IF j = i THEN g ELSE goods[j]]
  BY DEF CatalogOK
<1> QED
  BY <1>1 DEF CatalogOK

LEMMA CatalogIsKept ==
  ASSUME CatalogOK, ElectronicsNext
  PROVE  CatalogOK'
<1>1. ASSUME goods' = goods PROVE CatalogOK'
  BY <1>1 DEF CatalogOK
<1>2. ASSUME NEW w, Import(w) PROVE CatalogOK'
  <2>1. CASE RefuseImport(w)
    BY <1>1, <2>1 DEF RefuseImport
  <2>2. CASE importProduct(w)
    <3> DEFINE job == import[w]
    <3>1. PICK p \in Prices :
            goods' = [goods EXCEPT ![job.item] =
                        [category |-> job.category, price |-> p,
                         live |-> IF goods[job.item] = Absent THEN TRUE ELSE goods[job.item].live]]
      BY <2>2 DEF importProduct
    <3> DEFINE g == [category |-> job.category, price |-> p,
                     live |-> IF goods[job.item] = Absent THEN TRUE ELSE goods[job.item].live]
    <3>2. CASE job.item \in Goods
      <4>1. goods[job.item] # Absent => goods[job.item].live \in BOOLEAN
        BY <3>2 DEF CatalogOK, Filed
      <4>2. Filed(g)
        BY <4>1 DEF Filed
      <4> HIDE DEF g
      <4> QED
        BY <3>1, <3>2, <4>2, GoodsAreFiled DEF g
    <3>3. CASE job.item \notin Goods
      <4> HIDE DEF job
      <4>1. DOMAIN goods = Goods
        BY DEF CatalogOK
      <4>2. goods' = [j \in Goods |-> goods[j]]
        BY <3>1, <3>3, <4>1
      <4> QED
        BY <1>1, <4>2 DEF CatalogOK
    <3> QED
      BY <3>2, <3>3
  <2> QED
    BY <1>2, <2>1, <2>2 DEF Import
<1>3. ASSUME NEW i \in Goods, DeleteGoods(i) PROVE CatalogOK'
  <2>1. goods[i] # Absent /\ goods' = [goods EXCEPT ![i].live = FALSE]
    BY <1>3 DEF DeleteGoods, OnShelf
  <2> DEFINE g == [goods[i] EXCEPT !.live = FALSE]
  <2>2. Filed(g)
    BY <2>1 DEF CatalogOK, Filed
  <2>3. goods' = [goods EXCEPT ![i] = g]
    BY <2>1
  <2> HIDE DEF g
  <2> QED
    BY <2>2, <2>3, GoodsAreFiled
<1>4. CASE Stock
  <2>1. ASSUME NEW i, NEW s, StaffImport(i, s) PROVE CatalogOK'
    BY <1>1, <2>1 DEF StaffImport
  <2> QED
    BY <1>2, <1>3, <1>4, <2>1 DEF Stock
<1>5. CASE findPage \/ findTotal \/ findCounts \/ NextPage \/ EndWalk
  BY <1>1, <1>5 DEF findPage, findTotal, findCounts, NextPage, EndWalk
<1>6. ASSUME NEW c, NEW p, listProducts(c, p) \/ DeleteCategory(c) \/ MoveCategory(c, p) PROVE CatalogOK'
  BY <1>1, <1>6 DEF listProducts, DeleteCategory, MoveCategory
<1>7. CASE StartScript \/ findCandidates \/ ScriptImport \/ NextSlug \/ SwitchStore
  BY <1>1, <1>7 DEF StartScript, findCandidates, ScriptImport, NextSlug, SwitchStore
<1>8. CASE ListingNext
  BY <1>4, <1>5, <1>6, <1>8 DEF ListingNext
<1>9. CASE SourcingNext
  BY <1>2, <1>4, <1>7, <1>9 DEF SourcingNext
<1> QED
  BY <1>8, <1>9 DEF ElectronicsNext

\* A request's reads of a catalog that does not change meanwhile.
LEMMA ReadsKeep ==
  ASSUME CatalogOK, WalkInv, UNCHANGED <<parent, gone, goods>>,
         \/ \E c \in Branches \cup {Absent}, cap \in Prices : listProducts(c, cap)
         \/ findPage \/ findTotal \/ findCounts \/ NextPage \/ EndWalk
  PROVE  WalkInv'
<1> DEFINE Shape(tree, seen, sum, counts) ==
      [selected : Branches \cup {Absent}, cap : Prices, page : Nat \ {0}, tree : {tree},
       waiting : SUBSET Asked, seen : {seen}, total : {sum}, counts : {counts}, still : BOOLEAN]
<1>1. ASSUME walk' # Absent => Shaped(walk') /\ (walk'.still => AsItStands(walk')) PROVE WalkInv'
  BY <1>1, StandingStill DEF WalkInv
<1>2. ASSUME walk # Absent
      PROVE  \E tree, seen, sum, counts : walk \in Shape(tree, seen, sum, counts)
  BY <1>2 DEF WalkInv, Shaped
<1>3. ASSUME NEW c \in Branches \cup {Absent}, NEW cap \in Prices, listProducts(c, cap) PROVE WalkInv'
  <2>1. walk' = [selected |-> c, cap |-> cap, page |-> 1,
                 tree |-> findCategories, waiting |-> Asked, seen |-> <<>>, total |-> 0,
                 counts |-> Absent, still |-> TRUE]
    BY <1>3 DEF listProducts, parsePagination
  <2>2. walk' \in Shape(findCategories, <<>>, 0, Absent)
    BY <2>1
  <2>3. Shaped(walk')
    BY <2>2 DEF Shaped
  <2>4. AsItStands(walk')
    BY <2>1 DEF AsItStands, Asked
  <2> QED
    BY <1>1, <2>3, <2>4
<1>4. CASE findPage
  <2>1. PICK s \in Sorted(buildWhere(Scope, walk.cap)) :
          walk' = [walk EXCEPT !.waiting = walk.waiting \ {"items"}, !.seen = walk.seen \o PageOf(s, walk.page)]
    BY <1>4 DEF findPage
  <2>2. walk # Absent /\ "items" \in walk.waiting
    BY <1>4 DEF findPage
  <2>3. PICK tree, seen, sum, counts : walk \in Shape(tree, seen, sum, counts)
    BY <1>2, <2>2
  <2> DEFINE more == walk.seen \o PageOf(s, walk.page)
  <2>4. /\ walk' \in Shape(tree, more, sum, counts)
        /\ walk'.page = walk.page /\ walk'.tree = walk.tree /\ walk'.total = walk.total
        /\ walk'.counts = walk.counts /\ walk'.selected = walk.selected /\ walk'.cap = walk.cap
        /\ walk'.still = walk.still /\ walk'.waiting = walk.waiting \ {"items"} /\ walk'.seen = more
        /\ walk.page \in Nat \ {0}
    <3> HIDE DEF more
    <3>1. walk' = [walk EXCEPT !.waiting = walk.waiting \ {"items"}, !.seen = more]
      BY <2>1 DEF more
    <3> QED
      BY <2>3, <3>1
  <2>5. Shaped(walk')
    BY <2>4 DEF Shaped
  <2>6. ASSUME walk.still PROVE AsItStands(walk')
    <3>1. AsItStands(walk)
      BY <2>2, <2>6 DEF WalkInv
    <3>2. Matching(walk') = Matching(walk) /\ s \in Sorted(Matching(walk))
      BY <2>1, <2>4, <3>1 DEF Matching, Scope, AsItStands
    <3>3. Matching(walk) \in SUBSET Goods /\ Priced(Matching(walk)) /\ s \in Seq(Matching(walk))
      BY <3>2, MatchingIs, SortedAreWhole
    <3>4. walk.seen = Start(s, (walk.page - 1) * Limit)
      <4>1. CASE walk.page = 1 /\ walk.seen = << >>
        <5>1. (walk.page - 1) * Limit = 0 /\ Len(s) \in Nat
          BY <3>3, <4>1, ElectronicsAssumption
        <5>2. SubSeq(s, 1, 0) = << >>
          BY <3>3
        <5> QED
          BY <4>1, <5>1, <5>2 DEF Start
      <4>2. ASSUME NEW t \in Sorted(Matching(walk)), walk.seen = Start(t, Done(walk) * Limit)
            PROVE  walk.seen = Start(s, (walk.page - 1) * Limit)
        <5>1. s = t
          BY <3>2, <3>3, <4>2, SortedIsOne
        <5> QED
          BY <2>2, <4>2, <5>1 DEF Done
      <4> QED
        BY <3>1, <4>1, <4>2 DEF AsItStands
    <3>5. walk'.seen = Start(s, walk.page * Limit)
      <4>1. Start(s, (walk.page - 1) * Limit) \o PageOf(s, walk.page) = Start(s, walk.page * Limit)
        BY ZenonT(40), <2>4, <3>3, PagesFollow
      <4>2. walk'.seen = walk.seen \o PageOf(s, walk.page)
        BY <2>4
      <4> QED
        BY <3>4, <4>1, <4>2
    <3>6. Done(walk') = walk.page
      BY <2>4 DEF Done
    <3>7. \E u \in Sorted(Matching(walk')) : walk'.seen = Start(u, Done(walk') * Limit)
      BY <3>2, <3>5, <3>6
    <3> HIDE DEF more
    <3> QED
      BY <2>4, <3>1, <3>2, <3>7 DEF AsItStands
  <2> QED
    BY <1>1, <2>4, <2>5, <2>6
<1>5. CASE findTotal
  <2> DEFINE n == Cardinality(buildWhere(Scope, walk.cap))
  <2>1. /\ walk # Absent
        /\ walk' = [walk EXCEPT !.waiting = walk.waiting \ {"total"}, !.total = n]
    BY <1>5 DEF findTotal
  <2>2. PICK tree, seen, sum, counts : walk \in Shape(tree, seen, sum, counts)
    BY <1>2, <2>1
  <2>3. /\ walk' \in Shape(tree, seen, n, counts)
        /\ walk'.page = walk.page /\ walk'.tree = walk.tree /\ walk'.total = n
        /\ walk'.counts = walk.counts /\ walk'.selected = walk.selected /\ walk'.cap = walk.cap
        /\ walk'.still = walk.still /\ walk'.waiting = walk.waiting \ {"total"} /\ walk'.seen = walk.seen
    <3> HIDE DEF n
    <3> QED
      BY <2>1, <2>2
  <2>4. Shaped(walk')
    BY <2>3 DEF Shaped
  <2>5. ASSUME walk.still PROVE AsItStands(walk')
    <3>1. AsItStands(walk)
      BY <2>1, <2>5 DEF WalkInv
    <3>2. Matching(walk') = Matching(walk) /\ n = Cardinality(Matching(walk)) /\ Done(walk') = Done(walk)
      BY <2>3, <3>1 DEF Matching, Scope, AsItStands, Done
    <3>3. "items" \in walk.waiting <=> "items" \in walk'.waiting
      BY <2>3
    <3> HIDE DEF n
    <3> QED
      BY <2>3, <3>1, <3>2, <3>3 DEF AsItStands
  <2> QED
    BY <1>1, <2>3, <2>4, <2>5
<1>6. CASE findCounts
  <2> DEFINE n == countByRoot(walk.tree, countByCategory(walk.cap))
  <2>1. /\ walk # Absent
        /\ walk' = [walk EXCEPT !.waiting = walk.waiting \ {"counts"}, !.counts = n]
    BY <1>6 DEF findCounts
  <2>2. PICK tree, seen, sum, counts : walk \in Shape(tree, seen, sum, counts)
    BY <1>2, <2>1
  <2>3. /\ walk' \in Shape(tree, seen, sum, n)
        /\ walk'.page = walk.page /\ walk'.tree = walk.tree /\ walk'.total = walk.total
        /\ walk'.counts = n /\ walk'.selected = walk.selected /\ walk'.cap = walk.cap
        /\ walk'.still = walk.still /\ walk'.waiting = walk.waiting \ {"counts"} /\ walk'.seen = walk.seen
    <3> HIDE DEF n
    <3> QED
      BY <2>1, <2>2
  <2>4. Shaped(walk')
    BY <2>3 DEF Shaped
  <2>5. ASSUME walk.still PROVE AsItStands(walk')
    <3>1. AsItStands(walk)
      BY <2>1, <2>5 DEF WalkInv
    <3>2. Matching(walk') = Matching(walk) /\ Done(walk') = Done(walk)
      BY <2>3, <3>1 DEF Matching, AsItStands, Done
    <3>3. /\ "items" \in walk.waiting <=> "items" \in walk'.waiting
          /\ "total" \in walk.waiting <=> "total" \in walk'.waiting
      BY <2>3
    <3>4. n = countByRoot(findCategories, countByCategory(walk'.cap))
      BY <2>3, <3>1 DEF AsItStands
    <3> HIDE DEF n
    <3> QED
      BY <2>3, <3>1, <3>2, <3>3, <3>4 DEF AsItStands
  <2> QED
    BY <1>1, <2>3, <2>4, <2>5
<1>7. CASE NextPage
  <2>1. /\ walk # Absent /\ walk.waiting = {}
        /\ walk' = [walk EXCEPT !.page = parsePagination(walk.page + 1), !.tree = findCategories, !.waiting = Asked]
    BY <1>7 DEF NextPage
  <2>2. PICK tree, seen, sum, counts : walk \in Shape(tree, seen, sum, counts)
    BY <1>2, <2>1
  <2>3. walk.page \in Nat \ {0} /\ parsePagination(walk.page + 1) = walk.page + 1
    BY <2>2 DEF parsePagination
  <2>4. /\ walk' \in Shape(findCategories, seen, sum, counts)
        /\ walk'.page = walk.page + 1 /\ walk'.tree = findCategories /\ walk'.total = walk.total
        /\ walk'.counts = walk.counts /\ walk'.selected = walk.selected /\ walk'.cap = walk.cap
        /\ walk'.still = walk.still /\ walk'.waiting = Asked /\ walk'.seen = walk.seen
    <3> DEFINE n == walk.page + 1
               now == findCategories
    <3>1. n \in Nat \ {0}
      BY <2>3
    <3>2. walk' = [walk EXCEPT !.page = n, !.tree = now, !.waiting = Asked]
      BY <2>1, <2>3
    <3> HIDE DEF n, now
    <3>3. /\ walk' \in Shape(now, seen, sum, counts)
          /\ walk'.page = n /\ walk'.tree = now /\ walk'.total = walk.total
          /\ walk'.counts = walk.counts /\ walk'.selected = walk.selected /\ walk'.cap = walk.cap
          /\ walk'.still = walk.still /\ walk'.waiting = Asked /\ walk'.seen = walk.seen
      BY <2>2, <3>1, <3>2
    <3> QED
      BY <3>3 DEF n, now
  <2>5. Shaped(walk')
    BY <2>4 DEF Shaped
  <2>6. ASSUME walk.still PROVE AsItStands(walk')
    <3>1. AsItStands(walk)
      BY <2>1, <2>6 DEF WalkInv
    <3>2. Matching(walk') = Matching(walk)
      BY <2>4 DEF Matching
    <3>3. Done(walk') = Done(walk)
      BY <2>1, <2>3, <2>4 DEF Done, Asked
    <3>4. \E s \in Sorted(Matching(walk)) : walk.seen = Start(s, Done(walk) * Limit)
      BY <2>1, <3>1 DEF AsItStands
    <3>5. "total" \in walk'.waiting
      BY <2>4 DEF Asked
    <3> QED
      BY <2>4, <3>1, <3>2, <3>3, <3>4, <3>5 DEF AsItStands
  <2> QED
    BY <1>1, <2>4, <2>5, <2>6
<1>8. CASE EndWalk
  BY <1>1, <1>8 DEF EndWalk
<1> QED
  BY <1>3, <1>4, <1>5, <1>6, <1>7, <1>8

LEMMA WalkIsKept ==
  ASSUME CatalogOK, WalkInv, ElectronicsNext
  PROVE  WalkInv'
<1>1. ASSUME UNCHANGED <<parent, gone, goods, walk>> PROVE WalkInv'
  BY <1>1, StandingStill DEF WalkInv
<1>2. ASSUME NEW w, Import(w) PROVE WalkInv'
  BY <1>1, <1>2, MoveStops DEF Import, importProduct, RefuseImport
<1>3. CASE Stock
  <2>1. ASSUME NEW i, NEW s, StaffImport(i, s) PROVE WalkInv'
    BY <1>1, <2>1 DEF StaffImport
  <2>2. ASSUME NEW i, DeleteGoods(i) PROVE WalkInv'
    BY <2>2, MoveStops DEF DeleteGoods
  <2> QED
    BY <1>2, <1>3, <2>1, <2>2 DEF Stock
<1>4. ASSUME \/ \E c \in Branches \cup {Absent}, cap \in Prices : listProducts(c, cap)
             \/ findPage \/ findTotal \/ findCounts \/ NextPage \/ EndWalk
      PROVE  WalkInv'
  <2>1. UNCHANGED <<parent, gone, goods>>
    BY <1>4 DEF listProducts, findPage, findTotal, findCounts, NextPage, EndWalk
  <2> QED
    BY <1>4, <2>1, ReadsKeep
<1>5. ASSUME NEW c, NEW p, DeleteCategory(c) \/ MoveCategory(c, p) PROVE WalkInv'
  BY <1>5, MoveStops DEF DeleteCategory, MoveCategory
<1>6. CASE StartScript \/ findCandidates \/ ScriptImport \/ NextSlug \/ SwitchStore
  BY <1>1, <1>6 DEF StartScript, findCandidates, ScriptImport, NextSlug, SwitchStore
<1>7. CASE ListingNext
  BY <1>3, <1>4, <1>5, <1>7 DEF ListingNext
<1>8. CASE SourcingNext
  BY <1>2, <1>3, <1>6, <1>8 DEF SourcingNext
<1> QED
  BY <1>7, <1>8 DEF ElectronicsNext

LEMMA ListingIsListed ==
  ASSUME ElectronicsInv
  PROVE  ListingIsWhole
<1> SUFFICES ASSUME walk # Absent, walk.still PROVE ListingIsWhole
  BY DEF ListingIsWhole, PagesTileTheListing, CountsMatchListing
<1>1. CatalogOK /\ AsItStands(walk) /\ Shaped(walk)
  BY DEF ElectronicsInv, WalkInv
<1> DEFINE S == Matching(walk)
<1>2. S = buildWhere(categoryIds(findCategories, walk.selected), walk.cap) /\ S \in SUBSET Goods
  BY <1>1, MatchingIs DEF Matching
<1>3. PagesTileTheListing
  <2> SUFFICES ASSUME walk.waiting = {}, walk.page >= buildPage(walk.total)
               PROVE  ToSet(walk.seen) = S /\ Len(walk.seen) = walk.total
    BY <1>2 DEF PagesTileTheListing
  <2> HIDE DEF S
  <2>1. walk.total = Cardinality(S) /\ Cardinality(S) \in Nat
    BY <1>1, <1>2, WhereIsFinite DEF AsItStands, S
  <2>2. PICK s \in Sorted(S) : walk.seen = Start(s, walk.page * Limit)
    BY <1>1 DEF AsItStands, Done, S
  <2>3. s \in Seq(S) /\ Len(s) = Cardinality(S) /\ ToSet(s) = S
    BY <1>2, SortedAreWhole
  <2>4. walk.page \in Nat
    BY <1>1 DEF Shaped
  <2>5. walk.page * Limit >= Len(s)
    BY <2>1, <2>3, <2>4, LastPageEnds
  <2>6. walk.page * Limit \in Nat
    <3>1. \A a, b \in Nat : a * b \in Nat
      OBVIOUS
    <3> QED
      BY <2>4, <3>1, ElectronicsAssumption
  <2>7. Start(s, walk.page * Limit) = SubSeq(s, 1, Len(s))
    <3> DEFINE x == walk.page * Limit
    <3>1. x \in Nat /\ x >= Len(s) /\ Len(s) \in Nat
      BY <2>1, <2>3, <2>5, <2>6
    <3> HIDE DEF x
    <3>2. Start(s, x) = SubSeq(s, 1, Len(s))
      BY <3>1 DEF Start
    <3> QED
      BY <3>2 DEF x
  <2>8. walk.seen = s
    BY <2>2, <2>3, <2>7, SubSeqFull
  <2> QED
    BY <2>1, <2>3, <2>8
<1>4. CountsMatchListing
  <2> SUFFICES ASSUME walk.counts # Absent, NEW r \in DOMAIN walk.counts
               PROVE  walk.counts[r] = Cardinality(buildWhere(categoryIds(findCategories, r), walk.cap))
    BY DEF CountsMatchListing
  <2> DEFINE tree == findCategories
             counts == countByCategory(walk.cap)
             under == {c \in Branches : rootOf(tree, c) = r}
  <2>1. DOMAIN tree = Branches \ gone
    BY DEF findCategories
  <2>2. walk.counts = countByRoot(tree, counts)
    BY <1>1 DEF AsItStands
  <2> HIDE DEF tree, counts
  <2>3. r \in DOMAIN tree /\ tree[r] = Absent /\ walk.counts[r] = SumFunctionOnSet(counts, under)
    BY <2>2 DEF countByRoot
  <2>4. under = categoryIds(tree, r)
    BY <2>1, <2>3, UnderTheRoot
  <2>5. SumFunctionOnSet(counts, under) = Cardinality(buildWhere(under, walk.cap))
    <3>1. under \in SUBSET Branches
      OBVIOUS
    <3> HIDE DEF under
    <3> QED
      BY <3>1, CountsAddUp DEF counts
  <2> QED
    BY <2>3, <2>4, <2>5 DEF tree
<1> QED
  BY <1>3, <1>4 DEF ListingIsWhole

\* The pages of a listing tile it and its counts match it, while the store
\* stands still (findPage, findTotal, countByCategory and the sidebar's roll-up
\* in electronics-catalog).
THEOREM ListingIsWholeHolds ==
  ElectronicsInit /\ [][ElectronicsNext]_electronicsVars => []ListingIsWhole
<1>1. ElectronicsInit => ElectronicsInv
  <2> SUFFICES ASSUME ElectronicsInit PROVE ElectronicsInv
    OBVIOUS
  <2>1. WalkInv
    BY DEF ElectronicsInit, WalkInv
  <2>2. PICK p \in Prices :
          goods = [i \in Goods |-> IF FiledAtFirst[i] = Absent THEN Absent
                                   ELSE [category |-> FiledAtFirst[i], price |-> p, live |-> TRUE]]
    BY DEF ElectronicsInit
  <2>3. \A i \in Goods : goods[i] # Absent => Filed(goods[i])
    BY <2>2 DEF Filed
  <2> QED
    BY <2>1, <2>2, <2>3 DEF ElectronicsInv, CatalogOK
<1>2. ElectronicsInv /\ [ElectronicsNext]_electronicsVars => ElectronicsInv'
  <2> SUFFICES ASSUME ElectronicsInv, [ElectronicsNext]_electronicsVars PROVE ElectronicsInv'
    OBVIOUS
  <2>1. CASE ElectronicsNext
    BY <2>1, CatalogIsKept, WalkIsKept DEF ElectronicsInv
  <2>2. CASE UNCHANGED electronicsVars
    <3>1. UNCHANGED <<parent, gone, goods, walk>>
      BY <2>2 DEF electronicsVars
    <3> QED
      BY <3>1, StandingStill DEF ElectronicsInv, CatalogOK, WalkInv
  <2> QED
    BY <2>1, <2>2
<1>3. ElectronicsInv => ListingIsWhole
  BY ListingIsListed
<1> QED
  BY <1>1, <1>2, <1>3, PTL

-----------------------------------------------------------------------------
(***************************************************************************)
(* Attributes.  Rows are unique, so that a text under a code means one     *)
(* value; an edit that nothing came between holds the values of the labels *)
(* it is through with; and an import is a recursion over its variants of a *)
(* recursion over their labels, of which each turn adds one value.         *)
(***************************************************************************)

CodeSet == ToSet(AttributeCodes)

\* The functions on some of the elements of a set.
Tables(S, T) == UNION {[d -> T] : d \in SUBSET S}

ValueSet == [of : Nat, text : Texts]

RowSet == [codes : Tables(Nat, CodeSet), values : Tables(Nat, ValueSet), next : Nat]

\* Codes and values are unique, and a value belongs to an attribute.
RowsFit(r) ==
  /\ r \in RowSet
  /\ \A a \in DOMAIN r.codes : a < r.next
  /\ \A x \in DOMAIN r.values : x < r.next /\ r.values[x].of \in DOMAIN r.codes
  /\ \A a, b \in DOMAIN r.codes : r.codes[a] = r.codes[b] => a = b
  /\ \A x, y \in DOMAIN r.values : r.values[x] = r.values[y] => x = y

\* The value x is the one with a text under a code.
Means(r, x, code, text) ==
  x \in DOMAIN r.values /\ r.codes[r.values[x].of] = code /\ r.values[x].text = text

\* Rows were only added.
Grown(r, q) ==
  /\ \A a \in DOMAIN r.codes : a \in DOMAIN q.codes /\ q.codes[a] = r.codes[a]
  /\ \A x \in DOMAIN r.values : x \in DOMAIN q.values /\ q.values[x] = r.values[x]

\* A table is a function from part of a set.
LEMMA TableIs ==
  ASSUME NEW S, NEW T, NEW f
  PROVE  f \in Tables(S, T) <=> DOMAIN f \in SUBSET S /\ f \in [DOMAIN f -> T]
<1>1. ASSUME f \in Tables(S, T) PROVE DOMAIN f \in SUBSET S /\ f \in [DOMAIN f -> T]
  BY <1>1 DEF Tables
<1>2. ASSUME DOMAIN f \in SUBSET S, f \in [DOMAIN f -> T] PROVE f \in Tables(S, T)
  BY <1>2 DEF Tables
<1> QED
  BY <1>1, <1>2

\* A row put into a table fits it.
LEMMA PutFits ==
  ASSUME NEW S, NEW T, NEW f \in Tables(S, T), NEW id \in S, NEW e \in T
  PROVE  Put(f, id, e) \in Tables(S, T)
<1>1. DOMAIN f \in SUBSET S /\ f \in [DOMAIN f -> T]
  BY TableIs
<1>2. Put(f, id, e) \in [DOMAIN f \cup {id} -> T]
  BY <1>1 DEF Put
<1> QED
  BY <1>1, <1>2, TableIs

\* So does what is left when rows are dropped.
LEMMA DropFits ==
  ASSUME NEW S, NEW T, NEW f \in Tables(S, T), NEW lost
  PROVE  Drop(f, lost) \in Tables(S, T)
<1>1. DOMAIN f \in SUBSET S /\ f \in [DOMAIN f -> T]
  BY TableIs
<1>2. Drop(f, lost) \in [DOMAIN f \ lost -> T]
  BY <1>1 DEF Drop
<1> QED
  BY <1>1, <1>2, TableIs

\* What rows that fit are, part by part.
LEMMA RowsAre ==
  ASSUME NEW r, RowsFit(r)
  PROVE  /\ r.next \in Nat
         /\ r.codes \in Tables(Nat, CodeSet)
         /\ r.values \in Tables(Nat, ValueSet)
         /\ r = [codes |-> r.codes, values |-> r.values, next |-> r.next]
         /\ DOMAIN r.codes \in SUBSET Nat /\ \A a \in DOMAIN r.codes : r.codes[a] \in CodeSet
         /\ DOMAIN r.values \in SUBSET Nat
         /\ \A x \in DOMAIN r.values : /\ r.values[x] = [of |-> r.values[x].of, text |-> r.values[x].text]
                                       /\ r.values[x].of \in Nat /\ r.values[x].text \in Texts
<1>1. /\ r.next \in Nat
      /\ r.codes \in Tables(Nat, CodeSet)
      /\ r.values \in Tables(Nat, ValueSet)
      /\ r = [codes |-> r.codes, values |-> r.values, next |-> r.next]
  BY DEF RowsFit, RowSet
<1>2. DOMAIN r.codes \in SUBSET Nat /\ r.codes \in [DOMAIN r.codes -> CodeSet]
  BY <1>1, TableIs
<1>3. DOMAIN r.values \in SUBSET Nat /\ r.values \in [DOMAIN r.values -> ValueSet]
  BY <1>1, TableIs
<1> QED
  BY <1>1, <1>2, <1>3 DEF ValueSet

\* A new attribute is a new row, the only one with its code.
LEMMA CreateIs ==
  ASSUME NEW r, RowsFit(r), NEW code \in CodeSet, attributeOf(r, code) = {}
  PROVE  /\ RowsFit(create(r, code)) /\ Grown(r, create(r, code))
         /\ attributeOf(create(r, code), code) = {r.next}
<1> DEFINE q == create(r, code)
           table == Put(r.codes, r.next, code)
<1>1. q = [codes |-> table, values |-> r.values, next |-> r.next + 1]
  BY DEF create
<1>2. /\ table \in Tables(Nat, CodeSet)
      /\ DOMAIN table = DOMAIN r.codes \cup {r.next}
      /\ table[r.next] = code
      /\ \A a \in DOMAIN r.codes : a # r.next => table[a] = r.codes[a]
  <2>1. r.next \in Nat /\ r.codes \in Tables(Nat, CodeSet)
    BY RowsAre
  <2>2. table \in Tables(Nat, CodeSet)
    BY <2>1, PutFits
  <2> QED
    BY <2>2 DEF Put
<1>3. \A a \in DOMAIN r.codes : a < r.next /\ a # r.next /\ r.codes[a] # code
  BY RowsAre DEF RowsFit, attributeOf
<1> HIDE DEF q, table
<1>4. q.codes = table /\ q.values = r.values /\ q.next = r.next + 1
  BY <1>1
<1>5. q \in RowSet
  <2>1. r.next + 1 \in Nat /\ r.values \in Tables(Nat, ValueSet)
    BY RowsAre
  <2> QED
    BY <1>1, <1>2, <2>1 DEF RowSet
<1>6. RowsFit(q)
  <2>1. \A a \in DOMAIN q.codes : a < q.next
    BY <1>2, <1>3, <1>4, RowsAre
  <2>2. \A x \in DOMAIN q.values : x < q.next /\ q.values[x].of \in DOMAIN q.codes
    BY <1>2, <1>4, RowsAre DEF RowsFit
  <2>3. \A a, b \in DOMAIN q.codes : q.codes[a] = q.codes[b] => a = b
    BY <1>2, <1>3, <1>4 DEF RowsFit
  <2>4. \A x, y \in DOMAIN q.values : q.values[x] = q.values[y] => x = y
    BY <1>4 DEF RowsFit
  <2> QED
    BY <1>5, <2>1, <2>2, <2>3, <2>4 DEF RowsFit
<1>7. Grown(r, q)
  BY <1>2, <1>3, <1>4 DEF Grown
<1>8. attributeOf(q, code) = {r.next}
  BY <1>2, <1>3, <1>4 DEF attributeOf
<1> QED
  BY <1>6, <1>7, <1>8 DEF q

\* A new value is a new row, and means its text under the code of its attribute.
LEMMA AddIs ==
  ASSUME NEW r, RowsFit(r), NEW a \in DOMAIN r.codes, NEW text \in Texts, findValue(r, a, text) = {}
  PROVE  /\ RowsFit(addValue(r, a, text)) /\ Grown(r, addValue(r, a, text))
         /\ Means(addValue(r, a, text), r.next, r.codes[a], text)
<1> DEFINE q == addValue(r, a, text)
           value == [of |-> a, text |-> text]
           table == Put(r.values, r.next, value)
<1>1. q = [codes |-> r.codes, values |-> table, next |-> r.next + 1]
  BY DEF addValue
<1>2. /\ table \in Tables(Nat, ValueSet)
      /\ DOMAIN table = DOMAIN r.values \cup {r.next}
      /\ table[r.next] = value
      /\ \A x \in DOMAIN r.values : x # r.next => table[x] = r.values[x]
  <2>1. value \in ValueSet
    BY RowsAre DEF ValueSet
  <2>2. r.next \in Nat /\ r.values \in Tables(Nat, ValueSet)
    BY RowsAre
  <2> HIDE DEF value
  <2>3. table \in Tables(Nat, ValueSet)
    BY <2>1, <2>2, PutFits
  <2> QED
    BY <2>3 DEF Put
<1>3. \A x \in DOMAIN r.values : x < r.next /\ x # r.next /\ r.values[x] # value
  <2>1. \A x \in DOMAIN r.values : ~ (r.values[x].of = a /\ r.values[x].text = text)
    BY DEF findValue
  <2> QED
    BY <2>1, RowsAre DEF RowsFit
<1>4. value.of = a /\ value.text = text
  OBVIOUS
<1> HIDE DEF q, table, value
<1>5. q.codes = r.codes /\ q.values = table /\ q.next = r.next + 1
  BY <1>1
<1>6. q \in RowSet
  <2>1. r.next + 1 \in Nat /\ r.codes \in Tables(Nat, CodeSet)
    BY RowsAre
  <2> QED
    BY <1>1, <1>2, <2>1 DEF RowSet
<1>7. RowsFit(q)
  <2>1. \A b \in DOMAIN q.codes : b < q.next
    BY <1>5, RowsAre DEF RowsFit
  <2>2. \A x \in DOMAIN q.values : x < q.next /\ q.values[x].of \in DOMAIN q.codes
    BY <1>2, <1>3, <1>4, <1>5, RowsAre DEF RowsFit
  <2>3. \A b, d \in DOMAIN q.codes : q.codes[b] = q.codes[d] => b = d
    BY <1>5 DEF RowsFit
  <2>4. \A x, y \in DOMAIN q.values : q.values[x] = q.values[y] => x = y
    BY <1>2, <1>3, <1>5 DEF RowsFit
  <2> QED
    BY <1>6, <2>1, <2>2, <2>3, <2>4 DEF RowsFit
<1>8. Grown(r, q)
  BY <1>2, <1>3, <1>5 DEF Grown
<1>9. Means(q, r.next, r.codes[a], text)
  BY <1>2, <1>4, <1>5 DEF Means
<1> QED
  BY <1>7, <1>8, <1>9 DEF q

\* Growing twice is growing.
LEMMA GrownAgain ==
  ASSUME NEW r, NEW q, NEW s, Grown(r, q), Grown(q, s)
  PROVE  Grown(r, s)
BY DEF Grown

\* What a value means stays when rows are only added.
LEMMA MeansStill ==
  ASSUME NEW r, RowsFit(r), NEW q, Grown(r, q), NEW x \in DOMAIN r.values, NEW code, NEW text
  PROVE  Means(r, x, code, text) <=> Means(q, x, code, text)
BY DEF Grown, Means, RowsFit

\* One value means a text under a code.
LEMMA OneMeans ==
  ASSUME NEW r, RowsFit(r), NEW code, NEW text, NEW x, NEW y,
         Means(r, x, code, text), Means(r, y, code, text)
  PROVE  x = y
<1>1. x \in DOMAIN r.values /\ y \in DOMAIN r.values
  BY DEF Means
<1>2. r.values[x].of = r.values[y].of /\ r.values[x].text = r.values[y].text
  BY <1>1 DEF Means, RowsFit
<1>3. r.values[x] = r.values[y]
  BY <1>1, <1>2, RowsAre
<1> QED
  BY <1>1, <1>3 DEF RowsFit

\* A label upserted is a row of its own, found again by its code and text.
LEMMA UpsertIs ==
  ASSUME NEW r, RowsFit(r), NEW code \in CodeSet, NEW text \in Texts
  PROVE  LET q == upsertValue(r, code, text)
         IN  RowsFit(q) /\ Grown(r, q) /\ Means(q, IdOf(q, code, text), code, text)
<1> DEFINE with == upsertAttribute(r, code)
           a == CHOOSE b \in attributeOf(with, code) : TRUE
           q == upsertValue(r, code, text)
<1>1. RowsFit(with) /\ Grown(r, with) /\ attributeOf(with, code) # {}
  <2>1. CASE attributeOf(r, code) = {}
    BY <2>1, CreateIs DEF upsertAttribute
  <2>2. CASE attributeOf(r, code) # {}
    BY <2>2 DEF upsertAttribute, Grown
  <2> QED
    BY <2>1, <2>2
<1>2. q = IF findValue(with, a, text) = {} THEN addValue(with, a, text) ELSE with
  BY DEF upsertValue
<1> HIDE DEF with
<1>3. a \in DOMAIN with.codes /\ with.codes[a] = code
  BY <1>1 DEF attributeOf
<1> HIDE DEF a, q
<1>4. RowsFit(q) /\ Grown(with, q) /\ \E x : Means(q, x, code, text)
  <2>1. CASE findValue(with, a, text) = {}
    BY <1>1, <1>2, <1>3, <2>1, AddIs
  <2>2. CASE findValue(with, a, text) # {}
    <3>1. q = with
      BY <1>2, <2>2
    <3>2. PICK x \in DOMAIN with.values : with.values[x].of = a /\ with.values[x].text = text
      BY <2>2 DEF findValue
    <3>3. Means(q, x, code, text)
      BY <1>3, <3>1, <3>2 DEF Means
    <3> QED
      BY <1>1, <3>1, <3>3 DEF Grown
  <2> QED
    BY <2>1, <2>2
<1>5. Grown(r, q)
  BY <1>1, <1>4, GrownAgain
<1>6. Means(q, IdOf(q, code, text), code, text)
  <2>1. \E x \in DOMAIN q.values : q.codes[q.values[x].of] = code /\ q.values[x].text = text
    BY <1>4 DEF Means
  <2> QED
    BY <2>1 DEF IdOf, Means
<1> QED
  BY <1>4, <1>5, <1>6 DEF q

\* The set {1, ..., N} is taken apart from its end.
LEMMA PicksLast ==
  ASSUME NEW N \in Nat
  PROVE  Picks([s \in SUBSET (1 .. N) |-> Max(s)], 1 .. N)
<1>1. ASSUME NEW s \in SUBSET (1 .. N), s # {} PROVE Max(s) \in s
  <2> DEFINE T == {N - i : i \in s}
  <2>1. T \in SUBSET Nat /\ T # {}
    <3>1. \A i \in s : N - i \in Nat
      OBVIOUS
    <3> QED
      BY <1>1, <3>1
  <2>2. PICK n \in T : \A m \in T : n <= m
    <3> HIDE DEF T
    <3> QED
      BY <2>1, Least
  <2>3. PICK i \in s : n = N - i
    BY <2>2
  <2>4. \A j \in s : i >= j
    BY <2>2, <2>3
  <2> QED
    BY <2>4 DEF Max
<1> QED
  BY <1>1 DEF Picks

\* What an import has at hand: rows that fit, values remembered as what they
\* are, links to values.
Importing ==
  {at \in [rows : RowSet, cache : Tables(CodeSet \X Texts, Nat), links : SUBSET (VariantIds \X Nat)] :
     /\ RowsFit(at.rows)
     /\ \A key \in DOMAIN at.cache : Means(at.rows, at.cache[key], key[1], key[2])
     /\ \A l \in at.links : l[2] \in DOMAIN at.rows.values}

\* What an import has at hand, part by part.
LEMMA ImportingIs ==
  ASSUME NEW at
  PROVE  at \in Importing <=>
           /\ at = [rows |-> at.rows, cache |-> at.cache, links |-> at.links]
           /\ RowsFit(at.rows)
           /\ at.cache \in Tables(CodeSet \X Texts, Nat)
           /\ \A key \in DOMAIN at.cache : Means(at.rows, at.cache[key], key[1], key[2])
           /\ at.links \in SUBSET (VariantIds \X Nat)
           /\ \A l \in at.links : l[2] \in DOMAIN at.rows.values
BY DEF Importing, RowsFit

\* A label imported adds a link to its value, from the cache or upserted.
LEMMA ImportLabelIs ==
  ASSUME NEW at \in Importing, NEW v \in VariantIds, NEW code \in CodeSet, NEW text \in Texts
  PROVE  LET n == ImportLabel(at, v, code, text)
         IN  /\ n \in Importing /\ Grown(at.rows, n.rows)
             /\ \E x : Means(n.rows, x, code, text) /\ n.links = at.links \cup {<<v, x>>}
<1> DEFINE n == ImportLabel(at, v, code, text)
           key == <<code, text>>
           then == upsertValue(at.rows, code, text)
           r == IF key \in DOMAIN at.cache THEN at.rows ELSE then
           x == IF key \in DOMAIN at.cache THEN at.cache[key] ELSE IdOf(then, code, text)
           table == Put(at.cache, key, x)
<1>1. /\ at = [rows |-> at.rows, cache |-> at.cache, links |-> at.links]
      /\ RowsFit(at.rows)
      /\ at.cache \in Tables(CodeSet \X Texts, Nat)
      /\ \A k \in DOMAIN at.cache : Means(at.rows, at.cache[k], k[1], k[2])
      /\ at.links \in SUBSET (VariantIds \X Nat)
      /\ \A l \in at.links : l[2] \in DOMAIN at.rows.values
  BY ImportingIs
<1>2. n = [rows |-> r, cache |-> table, links |-> at.links \cup {<<v, x>>}]
  BY DEF ImportLabel, cacheKey
<1>3. RowsFit(then) /\ Grown(at.rows, then) /\ Means(then, IdOf(then, code, text), code, text)
  BY <1>1, UpsertIs
<1> HIDE DEF then
<1>4. RowsFit(r) /\ Grown(at.rows, r) /\ Means(r, x, code, text)
  <2>1. CASE key \in DOMAIN at.cache
    <3>1. Means(at.rows, at.cache[key], key[1], key[2])
      BY <1>1, <2>1
    <3> QED
      BY <1>1, <2>1, <3>1 DEF Grown
  <2>2. CASE key \notin DOMAIN at.cache
    BY <1>3, <2>2
  <2> QED
    BY <2>1, <2>2
<1>5. key \in CodeSet \X Texts /\ key[1] = code /\ key[2] = text
  OBVIOUS
<1> HIDE DEF n, key, r, x, table
<1>6. n.rows = r /\ n.cache = table /\ n.links = at.links \cup {<<v, x>>}
  BY <1>2
<1>7. x \in DOMAIN r.values /\ x \in Nat
  BY <1>4, RowsAre DEF Means
<1>8. table \in Tables(CodeSet \X Texts, Nat)
  BY <1>1, <1>5, <1>7, PutFits DEF table
<1>9. \A k \in DOMAIN table : Means(r, table[k], k[1], k[2])
  <2>1. DOMAIN table = DOMAIN at.cache \cup {key} /\ table[key] = x
    BY DEF table, Put
  <2>2. \A k \in DOMAIN at.cache : k # key => table[k] = at.cache[k]
    BY DEF table, Put
  <2>3. ASSUME NEW k \in DOMAIN at.cache PROVE Means(r, at.cache[k], k[1], k[2])
    <3>1. Means(at.rows, at.cache[k], k[1], k[2])
      BY <1>1
    <3>2. at.cache[k] \in DOMAIN at.rows.values
      BY <3>1 DEF Means
    <3> QED
      BY <1>1, <1>4, <3>1, <3>2, MeansStill
  <2>4. Means(r, x, key[1], key[2])
    BY <1>4, <1>5
  <2> QED
    BY <2>1, <2>2, <2>3, <2>4
<1>10. n.links \in SUBSET (VariantIds \X Nat) /\ \A l \in n.links : l[2] \in DOMAIN r.values
  BY <1>1, <1>4, <1>6, <1>7 DEF Grown
<1>11. n \in Importing
  BY <1>2, <1>4, <1>6, <1>8, <1>9, <1>10, ImportingIs
<1> QED
  BY <1>4, <1>6, <1>11 DEF n

\* The links of a variant are to one value for each of its labels.
Right(r, linked, v, labels) ==
  /\ \A l \in linked : l[1] = v => \E c \in Named(labels) : Means(r, l[2], c, labels[c])
  /\ \A c \in Named(labels) : \E l \in linked : l[1] = v /\ Means(r, l[2], c, labels[c])

\* What the labels of some codes come to.
Labelled(b, n, v, labels, codes) ==
  /\ Grown(b.rows, n.rows)
  /\ b.links \subseteq n.links
  /\ \A l \in n.links \ b.links : l[1] = v /\ \E c \in codes : Means(n.rows, l[2], c, labels[c])
  /\ \A c \in codes : \E l \in n.links : l[1] = v /\ Means(n.rows, l[2], c, labels[c])

\* It adds its code to those that are labelled.
LEMMA LabelAdds ==
  ASSUME NEW b \in Importing, NEW m \in Importing, NEW v \in VariantIds, NEW labels \in Labels,
         NEW codes \in SUBSET CodeSet, NEW code \in CodeSet, labels[code] \in Texts,
         Labelled(b, m, v, labels, codes)
  PROVE  Labelled(b, ImportLabel(m, v, code, labels[code]), v, labels, codes \cup {code})
<1> DEFINE n == ImportLabel(m, v, code, labels[code])
<1>1. PICK x : /\ n \in Importing /\ Grown(m.rows, n.rows)
               /\ Means(n.rows, x, code, labels[code]) /\ n.links = m.links \cup {<<v, x>>}
  BY ImportLabelIs
<1> HIDE DEF n
<1>2. RowsFit(m.rows) /\ \A l \in m.links : l[2] \in DOMAIN m.rows.values
  BY ImportingIs
<1>3. Grown(b.rows, n.rows)
  BY <1>1, GrownAgain DEF Labelled
<1>4. \A l \in m.links, c \in codes :
        Means(m.rows, l[2], c, labels[c]) => Means(n.rows, l[2], c, labels[c])
  BY <1>1, <1>2, MeansStill
<1>5. \A l \in n.links \ b.links :
        l[1] = v /\ \E c \in codes \cup {code} : Means(n.rows, l[2], c, labels[c])
  <2> SUFFICES ASSUME NEW l \in n.links \ b.links
               PROVE  l[1] = v /\ \E c \in codes \cup {code} : Means(n.rows, l[2], c, labels[c])
    OBVIOUS
  <2>1. CASE l \in m.links
    BY <1>4, <2>1 DEF Labelled
  <2>2. CASE l = <<v, x>>
    <3>1. l[1] = v /\ l[2] = x
      BY <2>2
    <3> QED
      BY <1>1, <3>1
  <2> QED
    BY <1>1, <2>1, <2>2
<1>6. ASSUME NEW c \in codes \cup {code}
      PROVE  \E l \in n.links : l[1] = v /\ Means(n.rows, l[2], c, labels[c])
  <2>1. CASE c \in codes
    BY <1>1, <1>4, <2>1 DEF Labelled
  <2>2. CASE c = code
    <3>1. <<v, x>> \in n.links /\ <<v, x>>[1] = v /\ <<v, x>>[2] = x
      BY <1>1
    <3> QED
      BY <1>1, <2>2, <3>1
  <2> QED
    BY <2>1, <2>2
<1>7. b.links \subseteq n.links
  BY <1>1 DEF Labelled
<1> QED
  BY <1>3, <1>5, <1>6, <1>7 DEF Labelled, n

\* A variant imported has the links of its labels; other variants keep theirs.
LEMMA ImportVariantIs ==
  ASSUME NEW at \in Importing, NEW v \in VariantIds, NEW labels \in Labels
  PROVE  LET n == ImportVariant(at, v, labels)
         IN  /\ n \in Importing /\ Grown(at.rows, n.rows)
             /\ Right(n.rows, n.links, v, labels)
             /\ \A l : l[1] # v => (l \in n.links <=> l \in at.links)
<1> DEFINE N == Len(AttributeCodes)
           D == 1 .. N
           b == [at EXCEPT !.links = {l \in @ : l[1] # v}]
           Step(m, code) == IF code \in Named(labels) THEN ImportLabel(m, v, code, labels[code]) ELSE m
           c == [s \in SUBSET D |-> Max(s)]
           G == [p \in (SUBSET D) \X Importing |-> IF p[1] = {} THEN b ELSE Step(p[2], AttributeCodes[c[p[1]]])]
           Eq(it) == it = [s \in SUBSET D |-> IF s = {} THEN b
                                             ELSE Step(it[s \ {Max(s)}], AttributeCodes[Max(s)])]
           F == CHOOSE it : Eq(it)
<1>1. N \in Nat /\ D = DOMAIN AttributeCodes /\ \A i \in D : AttributeCodes[i] \in CodeSet
  BY AttributesAssumption DEF CodeSet
<1>2. CodeSet = {AttributeCodes[i] : i \in D}
  BY <1>1 DEF CodeSet, ToSet
<1>3. b \in Importing /\ b.rows = at.rows /\ b.links = {l \in at.links : l[1] # v}
  <2>1. at = [rows |-> at.rows, cache |-> at.cache, links |-> at.links]
    BY ImportingIs
  <2>2. b = [rows |-> at.rows, cache |-> at.cache, links |-> {l \in at.links : l[1] # v}]
    BY <2>1
  <2> HIDE DEF b
  <2>3. b.rows = at.rows /\ b.cache = at.cache /\ b.links = {l \in at.links : l[1] # v}
    BY <2>2
  <2> QED
    BY <2>2, <2>3, ImportingIs
<1>4. \A code \in Named(labels) : code \in CodeSet /\ labels[code] \in Texts
  BY DEF Named, Labels, CodeSet
<1>5. \A m \in Importing, code \in CodeSet : Step(m, code) \in Importing
  BY <1>4, ImportLabelIs
<1>6. Picks(c, D)
  BY <1>1, PicksLast
<1>7. \A s \in SUBSET D : s # {} => c[s] = Max(s) /\ Max(s) \in s /\ Max(s) \in D
  BY <1>6 DEF Picks
<1>8. IsFiniteSet(D)
  BY <1>1, FS_Interval
<1>9. F = [s \in SUBSET D |-> IF s = {} THEN b ELSE Step(F[s \ {Max(s)}], AttributeCodes[Max(s)])]
  <2>1. PICK it \in [SUBSET D -> Importing] : Unrolls(it, D, c, b, G)
    <3>1. G \in [(SUBSET D) \X Importing -> Importing]
      <4> HIDE DEF b, Step, c
      <4>1. \A s \in SUBSET D : s # {} => AttributeCodes[c[s]] \in CodeSet
        BY <1>1, <1>7
      <4> QED
        BY <1>3, <1>5, <4>1
    <3> HIDE DEF G, c, D, b
    <3> QED
      BY <1>3, <1>6, <1>8, <3>1, Recursion
  <2> HIDE DEF Step, b
  <2>2. ASSUME NEW s \in SUBSET D
        PROVE  it[s] = IF s = {} THEN b ELSE Step(it[s \ {Max(s)}], AttributeCodes[Max(s)])
    <3>1. s # {} => s \ {c[s]} \in SUBSET D /\ it[s \ {c[s]}] \in Importing
      BY <1>7
    <3>2. s # {} => G[<<s, it[s \ {c[s]}]>>] = Step(it[s \ {c[s]}], AttributeCodes[c[s]])
      BY <3>1
    <3> QED
      BY <1>7, <2>1, <3>2 DEF Unrolls
  <2>3. Eq(it)
    BY <2>2
  <2>4. Eq(F)
    <3> HIDE DEF Eq
    <3> QED
      BY <2>3
  <2> HIDE DEF F
  <2> QED
    BY <2>4
<1>10. ImportVariant(at, v, labels) = F[D]
  BY <1>1 DEF ImportVariant, FoldLeft, MapThenFoldSet
<1> DEFINE codes(s) == {AttributeCodes[i] : i \in s} \cap Named(labels)
           Q == {s \in SUBSET D : F[s] \in Importing /\ Labelled(b, F[s], v, labels, codes(s))}
<1> HIDE DEF F, Eq, G
<1>11. Q = SUBSET D
  <2> HIDE DEF b, c, Step
  <2>1. {} \in Q
    <3>1. F[{}] = b
      BY <1>9
    <3> QED
      BY <1>3, <3>1 DEF Labelled, Grown
  <2>2. ASSUME NEW s \in SUBSET D, s # {}, s \ {c[s]} \in Q PROVE s \in Q
    <3> DEFINE i == Max(s)
               m == F[s \ {i}]
    <3>1. i \in s /\ i \in D /\ s \ {i} \in Q /\ AttributeCodes[i] \in CodeSet
      BY <1>1, <1>7, <2>2
    <3>2. F[s] = Step(m, AttributeCodes[i])
      BY <1>9, <2>2
    <3>3. m \in Importing /\ Labelled(b, m, v, labels, codes(s \ {i}))
      BY <3>1
    <3> HIDE DEF i, m
    <3>4. F[s] \in Importing
      BY <1>5, <3>1, <3>2, <3>3
    <3>5. CASE AttributeCodes[i] \in Named(labels)
      <4>1. codes(s) = codes(s \ {i}) \cup {AttributeCodes[i]}
        BY <3>1, <3>5
      <4>2. F[s] = ImportLabel(m, v, AttributeCodes[i], labels[AttributeCodes[i]])
        BY <3>2, <3>5 DEF Step
      <4>3. codes(s \ {i}) \in SUBSET CodeSet
        BY <1>4
      <4> DEFINE code == AttributeCodes[i]
                 old == codes(s \ {i})
      <4>4. /\ code \in CodeSet /\ labels[code] \in Texts /\ old \in SUBSET CodeSet
            /\ b \in Importing /\ m \in Importing /\ Labelled(b, m, v, labels, old)
        BY <1>3, <1>4, <3>1, <3>3, <3>5, <4>3
      <4> HIDE DEF code, old
      <4>5. Labelled(b, ImportLabel(m, v, code, labels[code]), v, labels, old \cup {code})
        BY <4>4, LabelAdds
      <4>6. Labelled(b, F[s], v, labels, codes(s))
        BY <4>1, <4>2, <4>5 DEF code, old
      <4> QED
        BY <3>4, <4>6
    <3>6. CASE AttributeCodes[i] \notin Named(labels)
      <4>1. codes(s) = codes(s \ {i})
        BY <3>1, <3>6
      <4>2. F[s] = m
        BY <3>2, <3>6 DEF Step
      <4> QED
        BY <3>3, <4>1, <4>2
    <3> QED
      BY <3>5, <3>6
  <2>3. Q \in SUBSET SUBSET D
    OBVIOUS
  <2> HIDE DEF Q, D
  <2> QED
    BY <1>6, <1>8, <2>1, <2>2, <2>3, SetInduction
<1> DEFINE n == F[D]
<1>12. n \in Importing /\ Labelled(b, n, v, labels, Named(labels))
  <2>1. D \in Q
    BY <1>11
  <2>2. codes(D) = Named(labels)
    BY <1>2, <1>4
  <2> QED
    BY <2>1, <2>2
<1> HIDE DEF n, b
<1>13. Grown(at.rows, n.rows)
  BY <1>3, <1>12 DEF Labelled
<1>14. Right(n.rows, n.links, v, labels)
  BY <1>3, <1>12 DEF Labelled, Right
<1>15. \A l : l[1] # v => (l \in n.links <=> l \in at.links)
  BY <1>3, <1>12 DEF Labelled
<1> QED
  BY <1>10, <1>12, <1>13, <1>14, <1>15 DEF n

\* The variants of an import, one after another.
LEMMA ImportIs ==
  ASSUME NEW r, RowsFit(r), NEW old \in SUBSET (VariantIds \X Nat),
         \A l \in old : l[2] \in DOMAIN r.values,
         NEW S \in SUBSET VariantIds, NEW given \in [S -> Labels]
  PROVE  LET n == ImportVariants(r, old, given)
         IN  /\ n \in Importing /\ Grown(r, n.rows)
             /\ \A v \in S : Right(n.rows, n.links, v, given[v])
             /\ \A l : l[1] \notin S => (l \in n.links <=> l \in old)
<1> DEFINE b == [rows |-> r, cache |-> <<>>, links |-> old]
           c == [s \in SUBSET S |-> CHOOSE v \in s : TRUE]
           G == [p \in (SUBSET S) \X Importing |-> IF p[1] = {} THEN b
                                                  ELSE ImportVariant(p[2], c[p[1]], given[c[p[1]]])]
           Eq(it) == it = [s \in SUBSET S |-> IF s = {} THEN b
                ELSE ImportVariant(it[s \ {CHOOSE v \in s : TRUE}], CHOOSE v \in s : TRUE,
                                   given[CHOOSE v \in s : TRUE])]
           F == CHOOSE it : Eq(it)
           n == ImportVariants(r, old, given)
<1>1. IsFiniteSet(S)
  BY AttributesAssumption, FS_Subset
<1>2. b \in Importing /\ b.rows = r /\ b.links = old
  <2>1. <<>> \in Tables(CodeSet \X Texts, Nat) /\ DOMAIN <<>> = {}
    <3>1. DOMAIN <<>> = {} /\ <<>> = [k \in {} |-> 0]
      OBVIOUS
    <3> DEFINE none == <<>>
    <3>2. DOMAIN none = {} /\ none \in [{} -> Nat]
      BY <3>1
    <3> HIDE DEF none
    <3>3. none \in Tables(CodeSet \X Texts, Nat)
      BY <3>2, TableIs
    <3> QED
      BY <3>1, <3>3 DEF none
  <2> DEFINE empty == <<>>
  <2> HIDE DEF empty
  <2>2. b = [rows |-> r, cache |-> empty, links |-> old]
    BY DEF empty
  <2>3. empty \in Tables(CodeSet \X Texts, Nat) /\ DOMAIN empty = {}
    BY <2>1 DEF empty
  <2> HIDE DEF b
  <2>4. b.rows = r /\ b.cache = empty /\ b.links = old
    BY <2>2
  <2> QED
    BY <2>2, <2>3, <2>4, ImportingIs
<1> HIDE DEF b
<1>3. \A s \in SUBSET S : s # {} => c[s] \in s /\ c[s] \in S /\ c[s] = CHOOSE v \in s : TRUE
  OBVIOUS
<1>4. Picks(c, S)
  BY <1>3 DEF Picks
<1>5. \A at \in Importing, v \in S : ImportVariant(at, v, given[v]) \in Importing
  BY ImportVariantIs
<1>6. F = [s \in SUBSET S |-> IF s = {} THEN b
                ELSE ImportVariant(F[s \ {CHOOSE v \in s : TRUE}], CHOOSE v \in s : TRUE,
                                   given[CHOOSE v \in s : TRUE])]
  <2>1. PICK it \in [SUBSET S -> Importing] : Unrolls(it, S, c, b, G)
    <3>1. G \in [(SUBSET S) \X Importing -> Importing]
      <4> HIDE DEF c
      <4> QED
        BY <1>2, <1>3, <1>5
    <3> HIDE DEF G, c
    <3> QED
      BY <1>1, <1>2, <1>4, <3>1, Recursion
  <2>2. ASSUME NEW s \in SUBSET S
        PROVE  it[s] = IF s = {} THEN b
                ELSE ImportVariant(it[s \ {CHOOSE v \in s : TRUE}], CHOOSE v \in s : TRUE,
                                   given[CHOOSE v \in s : TRUE])
    <3> HIDE DEF c
    <3>1. s # {} => s \ {c[s]} \in SUBSET S /\ it[s \ {c[s]}] \in Importing
      OBVIOUS
    <3>2. s # {} => G[<<s, it[s \ {c[s]}]>>] = ImportVariant(it[s \ {c[s]}], c[s], given[c[s]])
      BY <3>1
    <3>3. s = {} => it[s] = b
      BY <2>1 DEF Unrolls
    <3>4. s # {} => it[s] = ImportVariant(it[s \ {c[s]}], c[s], given[c[s]])
      BY <2>1, <3>2 DEF Unrolls
    <3> HIDE DEF G
    <3> QED
      BY <1>3, <3>3, <3>4
  <2>3. Eq(it)
    BY <2>2
  <2>4. Eq(F)
    <3> HIDE DEF Eq
    <3> QED
      BY <2>3
  <2> HIDE DEF F
  <2> QED
    BY <2>4
<1>7. n = F[S]
  <2>1. S = DOMAIN given
    OBVIOUS
  <2> QED
    BY <2>1 DEF ImportVariants, b, FoldSet, MapThenFoldSet
<1> DEFINE Fine(s) == /\ F[s] \in Importing /\ Grown(r, F[s].rows)
                      /\ \A v \in s : Right(F[s].rows, F[s].links, v, given[v])
                      /\ \A l : l[1] \notin s => (l \in F[s].links <=> l \in old)
           Q == {s \in SUBSET S : Fine(s)}
<1> HIDE DEF F, Eq, G, n
<1>8. Q = SUBSET S
  <2>1. {} \in Q
    <3>1. F[{}] = b
      BY <1>6
    <3> QED
      BY <1>2, <3>1 DEF Grown
  <2>2. ASSUME NEW s \in SUBSET S, s # {}, s \ {c[s]} \in Q PROVE s \in Q
    <3> DEFINE v == c[s]
               at == F[s \ {v}]
               new == ImportVariant(at, v, given[v])
    <3>1. v \in s /\ v \in S /\ v \in VariantIds /\ given[v] \in Labels
      BY <1>3, <2>2
    <3>2. F[s] = new
      BY <1>3, <1>6, <2>2
    <3>3. Fine(s \ {v})
      BY <2>2
    <3> HIDE DEF v, c, Q
    <3>4. /\ at \in Importing /\ Grown(r, at.rows)
          /\ \A u \in s \ {v} : Right(at.rows, at.links, u, given[u])
          /\ \A l : l[1] \notin s \ {v} => (l \in at.links <=> l \in old)
      BY <3>3
    <3> HIDE DEF at
    <3>5. /\ new \in Importing /\ Grown(at.rows, new.rows)
          /\ Right(new.rows, new.links, v, given[v])
          /\ \A l : l[1] # v => (l \in new.links <=> l \in at.links)
      BY <3>1, <3>4, ImportVariantIs
    <3> HIDE DEF new
    <3>6. Grown(r, new.rows)
      BY <3>4, <3>5, GrownAgain
    <3>7. ASSUME NEW u \in s \ {v} PROVE Right(new.rows, new.links, u, given[u])
      <4>1. RowsFit(at.rows) /\ \A l \in at.links : l[2] \in DOMAIN at.rows.values
        BY <3>4, ImportingIs
      <4>2. \A l \in at.links : \A d : Means(at.rows, l[2], d, given[u][d])
                                     => Means(new.rows, l[2], d, given[u][d])
        BY <3>5, <4>1, MeansStill
      <4> QED
        BY <3>4, <3>5, <4>2 DEF Right
    <3>8. Fine(s)
      BY <3>1, <3>2, <3>4, <3>5, <3>6, <3>7
    <3> HIDE DEF Fine
    <3> QED
      BY <3>8 DEF Q
  <2>3. Q \in SUBSET SUBSET S
    OBVIOUS
  <2> HIDE DEF Q, c
  <2> QED
    BY <1>1, <1>4, <2>1, <2>2, <2>3, SetInduction
<1>9. Fine(S)
  <2>1. S \in Q
    BY <1>8
  <2> QED
    BY <2>1
<1>10. /\ n \in Importing /\ Grown(r, n.rows)
       /\ \A v \in S : Right(n.rows, n.links, v, given[v])
       /\ \A l : l[1] \notin S => (l \in n.links <=> l \in old)
  BY <1>7, <1>9
<1> QED
  BY <1>10 DEF n

Edits(table, w, v) == table[w] # Blank /\ table[w].variant = v

\* What an edit that nothing came between has done so far.
Undisturbed(r, linked, e) ==
  /\ e.cleared => \A l \in linked : l[1] # e.variant
  /\ \A x \in e.ids : \E c \in Named(e.labels) \ e.todo : Means(r, x, c, e.labels[c])
  /\ \A c \in Named(e.labels) \ e.todo : \E x \in e.ids : Means(r, x, c, e.labels[c])

LinksFit(r, linked) ==
  linked \in SUBSET (VariantIds \X Nat) /\ \A l \in linked : l[2] \in DOMAIN r.values

\* An undisturbed edit is the only one of its variant, and of a variant that
\* was told its labels there is none.
LinkInv ==
  /\ RowsFit(rows) /\ LinksFit(rows, links)
  /\ writer \in [Staff -> Edit \cup {Blank}]
  /\ told \in [VariantIds -> Labels \cup {Blank}]
  /\ \A v \in VariantIds : told[v] # Blank =>
       Right(rows, links, v, told[v]) /\ \A w \in Staff : ~Edits(writer, w, v)
  /\ \A w \in Staff : writer[w] # Blank =>
       /\ writer[w].todo \subseteq Named(writer[w].labels)
       /\ writer[w].cleared => writer[w].todo = {}
       /\ writer[w].alone =>
            /\ \A u \in Staff : Edits(writer, u, writer[w].variant) => u = w
            /\ Undisturbed(rows, links, writer[w])

\* Rows that are only added, and links of other variants, change nothing.
LEMMA RightStill ==
  ASSUME NEW r, RowsFit(r), NEW linked, LinksFit(r, linked), NEW q, Grown(r, q), NEW new,
         NEW v, \A l : l[1] = v => (l \in new <=> l \in linked),
         NEW labels, Right(r, linked, v, labels)
  PROVE  Right(q, new, v, labels)
<1>1. \A l \in linked : \A c : Means(r, l[2], c, labels[c]) => Means(q, l[2], c, labels[c])
  BY MeansStill DEF LinksFit
<1> QED
  BY <1>1 DEF Right

\* Rows that are only added, and fewer links, leave an undisturbed edit so.
LEMMA UndisturbedStill ==
  ASSUME NEW r, RowsFit(r), NEW linked, NEW q, Grown(r, q), NEW new, NEW e,
         \A l \in new : l[1] = e.variant => l \in linked,
         Undisturbed(r, linked, e)
  PROVE  Undisturbed(q, new, e)
<1>1. \A x, c : Means(r, x, c, e.labels[c]) => Means(q, x, c, e.labels[c])
  BY MeansStill DEF Means
<1> QED
  BY <1>1 DEF Undisturbed

\* A disturbed edit is what it was, but for its history.
LEMMA DisturbIs ==
  ASSUME LinkInv, NEW S
  PROVE  /\ Disturb(S) \in [Staff -> Edit \cup {Blank}]
         /\ \A w \in Staff : writer[w] = Blank => Disturb(S)[w] = Blank
         /\ \A w \in Staff : writer[w] # Blank =>
              LET e == writer[w]
                  d == Disturb(S)[w]
              IN  /\ d # Blank /\ d.variant = e.variant
                  /\ d.labels = e.labels /\ d.todo = e.todo /\ d.cleared = e.cleared /\ d.ids = e.ids
                  /\ d.alone => e.alone /\ e.variant \notin S
<1> USE AttributesAssumption DEF LinkInv
<1>1. ASSUME NEW w \in Staff, writer[w] # Blank, writer[w].variant \in S
      PROVE  LET e == writer[w]
                 d == [e EXCEPT !.alone = FALSE]
             IN  /\ Disturb(S)[w] = d /\ d \in Edit /\ d # Blank /\ d.variant = e.variant
                 /\ d.labels = e.labels /\ d.todo = e.todo /\ d.cleared = e.cleared /\ d.ids = e.ids
                 /\ ~d.alone
  <2> DEFINE e == writer[w]
             d == [e EXCEPT !.alone = FALSE]
  <2>1. Disturb(S)[w] = d
    BY <1>1 DEF Disturb
  <2>2. e \in Edit
    BY <1>1
  <2> HIDE DEF e
  <2>3. /\ d \in Edit /\ d.variant = e.variant /\ d.labels = e.labels /\ d.todo = e.todo
        /\ d.cleared = e.cleared /\ d.ids = e.ids /\ ~d.alone
    BY <2>2 DEF Edit
  <2> HIDE DEF d
  <2>4. d # Blank
    BY <2>3
  <2> QED
    BY <2>1, <2>3, <2>4 DEF d, e
<1>2. ASSUME NEW w \in Staff, ~ (writer[w] # Blank /\ writer[w].variant \in S)
      PROVE  Disturb(S)[w] = writer[w]
  BY <1>2 DEF Disturb
<1>3. DOMAIN Disturb(S) = Staff /\ Disturb(S) = [w \in Staff |-> Disturb(S)[w]]
  BY DEF Disturb
<1>4. \A w \in Staff : Disturb(S)[w] \in Edit \cup {Blank}
  BY <1>1, <1>2
<1>5. Disturb(S) \in [Staff -> Edit \cup {Blank}]
  BY <1>3, <1>4
<1> QED
  BY <1>1, <1>2, <1>5

\* A write to the variants S, whatever becomes of their own links.
LEMMA WriteKeeps ==
  ASSUME LinkInv, NEW S, RowsFit(rows'), Grown(rows, rows'), LinksFit(rows', links'),
         \A l : l[1] \notin S => (l \in links' <=> l \in links),
         writer' = Disturb(S), told' \in [VariantIds -> Labels \cup {Blank}],
         \A v \in VariantIds \ S : told'[v] = told[v] \/ told'[v] = Blank,
         \A v \in VariantIds : v \in S /\ told'[v] # Blank =>
           Right(rows', links', v, told'[v]) /\ \A w \in Staff : ~Edits(writer, w, v)
  PROVE  LinkInv'
<1>1. writer' \in [Staff -> Edit \cup {Blank}]
  BY DisturbIs
<1>2. \A w \in Staff : (writer'[w] = Blank <=> writer[w] = Blank)
                       /\ \A v : Edits(writer', w, v) <=> Edits(writer, w, v)
  BY DisturbIs DEF Edits
<1>3. ASSUME NEW v \in VariantIds, told'[v] # Blank
      PROVE  Right(rows', links', v, told'[v]) /\ \A w \in Staff : ~Edits(writer', w, v)
  <2>1. CASE v \in S
    BY <1>2, <1>3, <2>1
  <2>2. CASE v \notin S
    <3>1. told'[v] = told[v] /\ Right(rows, links, v, told[v]) /\ \A w \in Staff : ~Edits(writer, w, v)
      BY <1>3, <2>2 DEF LinkInv
    <3>2. Right(rows', links', v, told[v])
      BY <2>2, <3>1, RightStill DEF LinkInv
    <3> QED
      BY <1>2, <3>1, <3>2
  <2> QED
    BY <2>1, <2>2
<1>4. ASSUME NEW w \in Staff, writer'[w] # Blank
      PROVE  /\ writer'[w].todo \subseteq Named(writer'[w].labels)
             /\ writer'[w].cleared => writer'[w].todo = {}
             /\ writer'[w].alone =>
                  /\ \A u \in Staff : Edits(writer', u, writer'[w].variant) => u = w
                  /\ Undisturbed(rows', links', writer'[w])
  <2> DEFINE e == writer[w]
             d == writer'[w]
  <2>1. /\ e # Blank /\ d.variant = e.variant
        /\ d.labels = e.labels /\ d.todo = e.todo /\ d.cleared = e.cleared /\ d.ids = e.ids
        /\ d.alone => e.alone /\ e.variant \notin S
    BY <1>2, <1>4, DisturbIs
  <2>2. /\ e.todo \subseteq Named(e.labels)
        /\ e.cleared => e.todo = {}
        /\ e.alone => /\ \A u \in Staff : Edits(writer, u, e.variant) => u = w
                      /\ Undisturbed(rows, links, e)
    BY <2>1 DEF LinkInv
  <2>3. ASSUME d.alone
        PROVE  /\ \A u \in Staff : Edits(writer', u, d.variant) => u = w
               /\ Undisturbed(rows', links', d)
    <3> HIDE DEF e, d
    <3>1. Undisturbed(rows', links', e)
      <4>1. \A l \in links' : l[1] = e.variant => l \in links
        BY <2>1, <2>3
      <4>2. Undisturbed(rows, links, e)
        BY <2>1, <2>2, <2>3
      <4> QED
        BY <4>1, <4>2, UndisturbedStill DEF LinkInv
    <3>2. Undisturbed(rows', links', d)
      BY <2>1, <3>1 DEF Undisturbed
    <3>3. \A u \in Staff : Edits(writer', u, e.variant) => u = w
      BY <1>2, <2>1, <2>2, <2>3
    <3> QED
      BY <2>1, <3>2, <3>3
  <2> HIDE DEF e, d
  <2>4. d.todo \subseteq Named(d.labels) /\ (d.cleared => d.todo = {})
    BY <2>1, <2>2
  <2> QED
    BY <2>3, <2>4 DEF d
<1> QED
  BY <1>1, <1>3, <1>4 DEF LinkInv

\* A change of attributes or values that are there: no edit goes on undisturbed.
LEMMA ChangeKeeps ==
  ASSUME LinkInv, RowsFit(rows'), LinksFit(rows', links'), writer' = Disturb(VariantIds),
         told' \in [VariantIds -> Labels \cup {Blank}],
         \A v \in VariantIds : told'[v] # Blank => told'[v] = told[v] /\ Right(rows', links', v, told[v])
  PROVE  LinkInv'
<1>1. writer' \in [Staff -> Edit \cup {Blank}]
  BY DisturbIs
<1>2. \A w \in Staff : \A v : Edits(writer', w, v) <=> Edits(writer, w, v)
  BY DisturbIs DEF Edits
<1>3. ASSUME NEW v \in VariantIds, told'[v] # Blank
      PROVE  Right(rows', links', v, told'[v]) /\ \A w \in Staff : ~Edits(writer', w, v)
  BY <1>2, <1>3 DEF LinkInv
<1>4. ASSUME NEW w \in Staff, writer'[w] # Blank
      PROVE  /\ writer'[w].todo \subseteq Named(writer'[w].labels)
             /\ writer'[w].cleared => writer'[w].todo = {}
             /\ ~writer'[w].alone
  <2>1. writer[w] # Blank /\ writer[w].variant \in VariantIds
    BY <1>4, DisturbIs DEF LinkInv, Edit
  <2> QED
    BY <1>4, <2>1, DisturbIs DEF LinkInv
<1> QED
  BY <1>1, <1>3, <1>4 DEF LinkInv

\* Rows that stay have grown.
LEMMA GrownSelf ==
  ASSUME NEW r PROVE Grown(r, r)
BY DEF Grown

\* Rows that grow keep the links, and whoever edits a variant goes on.
LEMMA RowsGrow ==
  ASSUME LinkInv, RowsFit(rows'), Grown(rows, rows'), UNCHANGED <<links, writer, told>>
  PROVE  LinkInv'
<1>1. LinksFit(rows', links')
  BY DEF LinkInv, LinksFit, Grown
<1>2. ASSUME NEW v \in VariantIds, told[v] # Blank PROVE Right(rows', links, v, told[v])
  BY <1>2, RightStill DEF LinkInv
<1>3. ASSUME NEW w \in Staff, writer[w] # Blank, writer[w].alone PROVE Undisturbed(rows', links, writer[w])
  <2>1. Undisturbed(rows, links, writer[w])
    BY <1>3 DEF LinkInv
  <2> QED
    BY <2>1, UndisturbedStill DEF LinkInv
<1> QED
  BY <1>1, <1>2, <1>3 DEF LinkInv

\* createAttribute keeps the invariant.
LEMMA CreateKeeps ==
  ASSUME LinkInv, NEW code \in CodeSet, createAttribute(code)
  PROVE  LinkInv'
<1>1. RowsFit(rows') /\ Grown(rows, rows')
  BY CreateIs DEF createAttribute, LinkInv
<1> QED
  BY <1>1, RowsGrow DEF createAttribute

\* CreateValue keeps it.
LEMMA CreateValueKeeps ==
  ASSUME LinkInv, NEW a \in DOMAIN rows.codes, NEW text \in Texts, CreateValue(a, text)
  PROVE  LinkInv'
<1>1. RowsFit(rows') /\ Grown(rows, rows')
  BY AddIs DEF CreateValue, LinkInv
<1> QED
  BY <1>1, RowsGrow DEF CreateValue

\* updateAttribute keeps it: nothing is told of any variant any more.
LEMMA UpdateKeeps ==
  ASSUME LinkInv, NEW a \in DOMAIN rows.codes, NEW code \in CodeSet, updateAttribute(a, code)
  PROVE  LinkInv'
<1> DEFINE table == [rows.codes EXCEPT ![a] = code]
<1>1. RowsFit(rows)
  BY DEF LinkInv
<1>2. rows' = [codes |-> table, values |-> rows.values, next |-> rows.next]
  <2>1. rows = [codes |-> rows.codes, values |-> rows.values, next |-> rows.next]
    BY <1>1, RowsAre
  <2>2. rows' = [rows EXCEPT !.codes[a] = code]
    BY DEF updateAttribute, Rename
  <2> QED
    BY <2>1, <2>2
<1>3. /\ table \in Tables(Nat, CodeSet) /\ DOMAIN table = DOMAIN rows.codes
      /\ table[a] = code /\ \A b \in DOMAIN rows.codes : b # a => table[b] = rows.codes[b]
  <2>1. DOMAIN rows.codes \in SUBSET Nat /\ rows.codes \in [DOMAIN rows.codes -> CodeSet]
    BY <1>1, RowsAre, TableIs
  <2>2. table \in [DOMAIN rows.codes -> CodeSet]
    BY <2>1
  <2> QED
    BY <2>1, <2>2, TableIs
<1>4. \A b \in DOMAIN rows.codes : rows.codes[b] # code
  BY DEF updateAttribute, attributeOf
<1> HIDE DEF table
<1>5. rows'.codes = table /\ rows'.values = rows.values /\ rows'.next = rows.next
  BY <1>2
<1>6. rows' \in RowSet
  <2>1. rows.next \in Nat /\ rows.values \in Tables(Nat, ValueSet)
    BY <1>1, RowsAre
  <2> QED
    BY <1>2, <1>3, <2>1 DEF RowSet
<1>7. RowsFit(rows')
  BY <1>1, <1>3, <1>4, <1>5, <1>6 DEF RowsFit
<1>8. LinksFit(rows', links')
  BY <1>5 DEF LinkInv, LinksFit, updateAttribute
<1>9. told' = [v \in VariantIds |-> Blank] /\ writer' = Disturb(VariantIds)
  BY DEF updateAttribute, Forget
<1> QED
  BY <1>7, <1>8, <1>9, ChangeKeeps

\* Values that go take their links with them, and what was told of their variants.
LEMMA CascadeKeeps ==
  ASSUME LinkInv, NEW lost, RowsFit(rows'), Cascade(lost), writer' = Disturb(VariantIds),
         \A x \in DOMAIN rows.values \ lost :
           /\ x \in DOMAIN rows'.values /\ rows'.values[x] = rows.values[x]
           /\ rows.values[x].of \in DOMAIN rows'.codes
           /\ rows'.codes[rows.values[x].of] = rows.codes[rows.values[x].of]
  PROVE  LinkInv'
<1> DEFINE cut == {l \in links : l[2] \in lost}
<1>1. links' = links \ cut /\ told' = Forget({l[1] : l \in cut})
  BY DEF Cascade
<1>2. LinksFit(rows', links')
  BY <1>1 DEF LinkInv, LinksFit
<1>3. told' \in [VariantIds -> Labels \cup {Blank}]
  BY <1>1 DEF Forget, LinkInv
<1>4. ASSUME NEW v \in VariantIds, told'[v] # Blank
      PROVE  told'[v] = told[v] /\ Right(rows', links', v, told[v])
  <2>1. told'[v] = told[v] /\ \A l \in links : l[1] = v => l[2] \notin lost
    BY <1>1, <1>4 DEF Forget
  <2>2. Right(rows, links, v, told[v])
    BY <1>4, <2>1 DEF LinkInv
  <2>3. \A l : l[1] = v => (l \in links' <=> l \in links)
    BY <1>1, <2>1
  <2>4. \A l \in links : l[1] = v => \A c :
          Means(rows, l[2], c, told[v][c]) => Means(rows', l[2], c, told[v][c])
    BY <2>1 DEF Means
  <2> QED
    BY <2>1, <2>2, <2>3, <2>4 DEF Right
<1> QED
  BY <1>2, <1>3, <1>4, ChangeKeeps

\* deleteAttribute keeps it.
LEMMA DeleteAttributeKeeps ==
  ASSUME LinkInv, NEW a \in DOMAIN rows.codes, deleteAttribute(a)
  PROVE  LinkInv'
<1> DEFINE lost == {x \in DOMAIN rows.values : rows.values[x].of = a}
           codes == Drop(rows.codes, {a})
           values == Drop(rows.values, lost)
<1>1. RowsFit(rows)
  BY DEF LinkInv
<1>2. rows' = [codes |-> codes, values |-> values, next |-> rows.next]
  <2>1. rows = [codes |-> rows.codes, values |-> rows.values, next |-> rows.next]
    BY <1>1, RowsAre
  <2>2. DropValues(rows, lost) = [codes |-> rows.codes, values |-> values, next |-> rows.next]
    BY <2>1 DEF DropValues
  <2>3. rows' = [DropValues(rows, lost) EXCEPT !.codes = codes]
    BY <2>2 DEF deleteAttribute
  <2> HIDE DEF codes, values, lost
  <2> QED
    BY <2>2, <2>3
<1>3. DOMAIN codes = DOMAIN rows.codes \ {a} /\ \A b \in DOMAIN codes : codes[b] = rows.codes[b]
  BY DEF Drop
<1>4. DOMAIN values = DOMAIN rows.values \ lost /\ \A x \in DOMAIN values : values[x] = rows.values[x]
  BY DEF Drop
<1>5. \A x \in DOMAIN values : values[x].of \in DOMAIN codes
  BY <1>1, <1>3, <1>4 DEF RowsFit
<1>6. codes \in Tables(Nat, CodeSet) /\ values \in Tables(Nat, ValueSet) /\ rows.next \in Nat
  <2>1. rows.codes \in Tables(Nat, CodeSet) /\ rows.values \in Tables(Nat, ValueSet) /\ rows.next \in Nat
    BY <1>1, RowsAre
  <2> HIDE DEF lost
  <2> QED
    BY <2>1, DropFits
<1>7. Cascade(lost) /\ writer' = Disturb(VariantIds)
  BY DEF deleteAttribute
<1> HIDE DEF codes, values, lost
<1>8. rows'.codes = codes /\ rows'.values = values /\ rows'.next = rows.next
  BY <1>2
<1>9. rows' \in RowSet
  BY <1>2, <1>6 DEF RowSet
<1>10. RowsFit(rows')
  BY <1>1, <1>3, <1>4, <1>5, <1>8, <1>9 DEF RowsFit
<1> QED
  BY <1>3, <1>4, <1>5, <1>7, <1>8, <1>10, CascadeKeeps

\* deleteValue keeps it.
LEMMA DeleteValueKeeps ==
  ASSUME LinkInv, NEW x \in DOMAIN rows.values, deleteValue(x)
  PROVE  LinkInv'
<1> DEFINE values == Drop(rows.values, {x})
<1>1. RowsFit(rows)
  BY DEF LinkInv
<1>2. rows' = [codes |-> rows.codes, values |-> values, next |-> rows.next]
  <2>1. rows = [codes |-> rows.codes, values |-> rows.values, next |-> rows.next]
    BY <1>1, RowsAre
  <2> QED
    BY <2>1 DEF deleteValue, DropValues
<1>3. DOMAIN values = DOMAIN rows.values \ {x} /\ \A y \in DOMAIN values : values[y] = rows.values[y]
  BY DEF Drop
<1>4. rows.codes \in Tables(Nat, CodeSet) /\ values \in Tables(Nat, ValueSet) /\ rows.next \in Nat
  <2>1. rows.codes \in Tables(Nat, CodeSet) /\ rows.values \in Tables(Nat, ValueSet) /\ rows.next \in Nat
    BY <1>1, RowsAre
  <2> QED
    BY <2>1, DropFits
<1>5. Cascade({x}) /\ writer' = Disturb(VariantIds)
  BY DEF deleteValue
<1> HIDE DEF values
<1>6. rows'.codes = rows.codes /\ rows'.values = values /\ rows'.next = rows.next
  BY <1>2
<1>7. rows' \in RowSet
  BY <1>2, <1>4 DEF RowSet
<1>8. RowsFit(rows')
  BY <1>1, <1>3, <1>6, <1>7 DEF RowsFit
<1>9. \A y \in DOMAIN rows.values : rows.values[y].of \in DOMAIN rows.codes
  BY <1>1 DEF RowsFit
<1> QED
  BY <1>3, <1>5, <1>6, <1>8, <1>9, CascadeKeeps

\* setVariantAttributes keeps it.
LEMMA SetLinksKeeps ==
  ASSUME LinkInv, NEW v \in VariantIds, NEW ids \in SUBSET DOMAIN rows.values, setVariantAttributes(v, ids)
  PROVE  LinkInv'
<1>1. rows' = rows /\ RowsFit(rows') /\ Grown(rows, rows')
  BY GrownSelf DEF setVariantAttributes, LinkInv
<1>2. links' = (links \ {l \in links : l[1] = v}) \cup ({v} \X ids)
  BY DEF setVariantAttributes, LinksOf
<1>3. ids \in SUBSET Nat
  BY RowsAre DEF LinkInv
<1>4. LinksFit(rows', links')
  BY <1>1, <1>2, <1>3 DEF LinkInv, LinksFit
<1>5. \A l : l[1] \notin {v} => (l \in links' <=> l \in links)
  BY <1>2
<1>6. writer' = Disturb({v}) /\ told' = Forget({v})
  BY DEF setVariantAttributes
<1>7. /\ told' \in [VariantIds -> Labels \cup {Blank}] /\ told'[v] = Blank
      /\ \A u \in VariantIds \ {v} : told'[u] = told[u]
  BY <1>6 DEF Forget, LinkInv
<1> QED
  BY <1>1, <1>4, <1>5, <1>6, <1>7, WriteKeeps

\* importLabels keeps it.
LEMMA ImportKeeps ==
  ASSUME LinkInv, NEW S \in SUBSET VariantIds, NEW given \in [S -> Labels], importLabels(given)
  PROVE  LinkInv'
<1> DEFINE n == ImportVariants(rows, links, given)
           edited == {writer[w].variant : w \in {u \in Staff : writer[u] # Blank}}
<1>1. /\ n \in Importing /\ Grown(rows, n.rows)
      /\ \A v \in S : Right(n.rows, n.links, v, given[v])
      /\ \A l : l[1] \notin S => (l \in n.links <=> l \in links)
  BY ImportIs DEF LinkInv, LinksFit
<1>2. rows' = n.rows /\ links' = n.links /\ writer' = Disturb(S) /\ DOMAIN given = S
  BY DEF importLabels
<1>3. told' = [v \in VariantIds |-> IF v \in S \ edited THEN given[v] ELSE Forget(S)[v]]
  BY <1>2 DEF importLabels
<1> HIDE DEF n
<1>4. RowsFit(rows') /\ LinksFit(rows', links')
  BY <1>1, <1>2, ImportingIs DEF LinksFit
<1>5. \A v \in S, w \in Staff : Edits(writer, w, v) => v \in edited
  BY DEF Edits
<1> HIDE DEF edited
<1>6. told' \in [VariantIds -> Labels \cup {Blank}] /\ \A v \in VariantIds \ S : told'[v] = told[v]
  BY <1>3 DEF Forget, LinkInv
<1>7. \A v \in S : told'[v] # Blank => told'[v] = given[v] /\ v \notin edited
  BY <1>3 DEF Forget
<1>8. ASSUME NEW v \in VariantIds, v \in S, told'[v] # Blank
      PROVE  Right(rows', links', v, told'[v]) /\ \A w \in Staff : ~Edits(writer, w, v)
  BY <1>1, <1>2, <1>5, <1>7, <1>8
<1> QED
  BY <1>1, <1>2, <1>4, <1>6, <1>8, WriteKeeps

\* What LinkInv says of the edit of one member of staff.
Going(w, table, r, linked) ==
  table[w] # Blank =>
    /\ table[w].todo \subseteq Named(table[w].labels)
    /\ table[w].cleared => table[w].todo = {}
    /\ table[w].alone =>
         /\ \A u \in Staff : Edits(table, u, table[w].variant) => u = w
         /\ Undisturbed(r, linked, table[w])

\* syncVariantAttributes keeps it.
LEMMA StartKeeps ==
  ASSUME LinkInv, NEW w \in Staff, NEW v \in VariantIds, NEW labels \in Labels,
         syncVariantAttributes(w, v, labels)
  PROVE  LinkInv'
<1> DEFINE table == Disturb({v})
           e == [variant |-> v, labels |-> labels, todo |-> Named(labels), ids |-> {}, cleared |-> FALSE,
                 alone |-> \A u \in Staff : writer[u] = Blank \/ writer[u].variant # v]
<1>1. /\ table \in [Staff -> Edit \cup {Blank}]
      /\ \A u \in Staff : writer[u] = Blank => table[u] = Blank
      /\ \A u \in Staff : writer[u] # Blank =>
              /\ table[u] # Blank /\ table[u].variant = writer[u].variant
              /\ table[u].labels = writer[u].labels /\ table[u].todo = writer[u].todo
              /\ table[u].cleared = writer[u].cleared /\ table[u].ids = writer[u].ids
              /\ table[u].alone => writer[u].alone /\ writer[u].variant # v
  BY DisturbIs
<1>2. writer[w] = Blank /\ writer' = [table EXCEPT ![w] = e]
  BY DEF syncVariantAttributes
<1>3. e \in Edit
  BY DEF Edit, Named, CodeSet
<1>4. /\ e.variant = v /\ e.labels = labels /\ e.todo = Named(labels) /\ e.ids = {} /\ ~e.cleared
      /\ e.alone => \A u \in Staff : ~Edits(writer, u, v)
  BY DEF Edits
<1>5. UNCHANGED <<rows, links>> /\ told' = Forget({v})
  BY DEF syncVariantAttributes
<1> HIDE DEF table, e
<1>6. /\ writer' \in [Staff -> Edit \cup {Blank}]
      /\ writer'[w] = e /\ e # Blank
      /\ \A u \in Staff \ {w} : writer'[u] = table[u]
  BY <1>1, <1>2, <1>3, AttributesAssumption
<1>7. /\ told' \in [VariantIds -> Labels \cup {Blank}]
      /\ \A u \in VariantIds : told'[u] # Blank => u # v /\ told'[u] = told[u]
  BY <1>5 DEF Forget, LinkInv
<1>8. ASSUME NEW u \in Staff, NEW k, Edits(writer', u, k)
      PROVE  IF u = w THEN k = v ELSE Edits(writer, u, k)
  BY <1>1, <1>4, <1>6, <1>8 DEF Edits
<1>9. ASSUME NEW u \in VariantIds, told'[u] # Blank
      PROVE  Right(rows', links', u, told'[u]) /\ \A k \in Staff : ~Edits(writer', k, u)
  BY <1>5, <1>7, <1>8, <1>9 DEF LinkInv
<1>10. Going(w, writer', rows', links')
  <2>1. e.todo \subseteq Named(e.labels) /\ Undisturbed(rows', links', e)
    BY <1>4 DEF Undisturbed
  <2>2. e.alone => \A u \in Staff : Edits(writer', u, e.variant) => u = w
    BY <1>4, <1>8
  <2> QED
    BY <1>4, <1>6, <2>1, <2>2 DEF Going
<1>11. ASSUME NEW u \in Staff \ {w}, writer'[u] # Blank PROVE Going(u, writer', rows', links')
  <2> DEFINE d == writer'[u]
             o == writer[u]
  <2>1. /\ o # Blank /\ d.variant = o.variant /\ d.labels = o.labels /\ d.todo = o.todo
        /\ d.cleared = o.cleared /\ d.ids = o.ids /\ (d.alone => o.alone /\ o.variant # v)
    BY <1>1, <1>6, <1>11
  <2>2. /\ o.todo \subseteq Named(o.labels) /\ (o.cleared => o.todo = {})
        /\ o.alone => /\ \A k \in Staff : Edits(writer, k, o.variant) => k = u
                      /\ Undisturbed(rows, links, o)
    BY <2>1 DEF LinkInv
  <2> HIDE DEF o, d
  <2>3. Undisturbed(rows, links, o) => Undisturbed(rows', links', d)
    BY <1>5, <2>1 DEF Undisturbed
  <2>4. d.alone => \A k \in Staff : Edits(writer', k, d.variant) => k = u
    BY <1>8, <2>1, <2>2
  <2>5. /\ d.todo \subseteq Named(d.labels) /\ (d.cleared => d.todo = {})
        /\ d.alone => /\ \A k \in Staff : Edits(writer', k, d.variant) => k = u
                      /\ Undisturbed(rows', links', d)
    BY <2>1, <2>2, <2>3, <2>4
  <2> QED
    BY <2>5 DEF Going, d
<1>12. \A u \in Staff : Going(u, writer', rows', links')
  <2>1. \A u \in Staff : writer'[u] = Blank => Going(u, writer', rows', links')
    BY DEF Going
  <2> QED
    BY <1>10, <1>11, <2>1
<1> QED
  BY <1>5, <1>6, <1>7, <1>9, <1>12 DEF LinkInv, Going

\* A step of one edit, from d to e, that keeps or adds rows.
LEMMA EditKeeps ==
  ASSUME LinkInv, NEW w \in Staff, writer[w] # Blank, NEW e \in Edit,
         writer' = [writer EXCEPT ![w] = e], e.variant = writer[w].variant,
         RowsFit(rows'), Grown(rows, rows'), LinksFit(rows', links'), told' = told,
         \A l : l[1] # e.variant => (l \in links' <=> l \in links),
         e.todo \subseteq Named(e.labels), e.cleared => e.todo = {},
         e.alone => writer[w].alone /\ Undisturbed(rows', links', e)
  PROVE  LinkInv'
<1> DEFINE v == e.variant
<1>1. /\ writer' \in [Staff -> Edit \cup {Blank}]
      /\ writer'[w] = e /\ e # Blank
      /\ \A u \in Staff \ {w} : writer'[u] = writer[u]
  BY AttributesAssumption DEF LinkInv
<1>2. \A u \in Staff : \A k : Edits(writer', u, k) <=> Edits(writer, u, k)
  BY <1>1 DEF Edits
<1>3. v \in VariantIds /\ told[v] = Blank
  BY DEF Edit, LinkInv, Edits
<1>4. ASSUME NEW u \in VariantIds, told'[u] # Blank
      PROVE  Right(rows', links', u, told'[u]) /\ \A k \in Staff : ~Edits(writer', k, u)
  <2>1. u # v /\ Right(rows, links, u, told[u]) /\ \A k \in Staff : ~Edits(writer, k, u)
    BY <1>3, <1>4 DEF LinkInv
  <2>2. \A l : l[1] = u => (l \in links' <=> l \in links)
    BY <2>1
  <2>3. Right(rows', links', u, told[u])
    BY <2>1, <2>2, RightStill DEF LinkInv
  <2> QED
    BY <1>2, <2>1, <2>3
<1>5. Going(w, writer', rows', links')
  <2>1. e.alone => \A u \in Staff : Edits(writer, u, v) => u = w
    BY DEF LinkInv
  <2> QED
    BY <1>1, <1>2, <2>1 DEF Going
<1>6. ASSUME NEW u \in Staff \ {w}, writer'[u] # Blank PROVE Going(u, writer', rows', links')
  <2> DEFINE d == writer[u]
  <2>1. writer'[u] = d /\ d # Blank
    BY <1>1, <1>6
  <2>2. /\ d.todo \subseteq Named(d.labels) /\ (d.cleared => d.todo = {})
        /\ d.alone => /\ \A k \in Staff : Edits(writer, k, d.variant) => k = u
                      /\ Undisturbed(rows, links, d)
    BY <2>1 DEF LinkInv
  <2> HIDE DEF d
  <2>3. ASSUME d.alone PROVE Undisturbed(rows', links', d)
    <3>1. d.variant # v
      <4>1. Edits(writer, w, v)
        BY DEF Edits
      <4> QED
        BY <1>6, <2>2, <2>3, <4>1
    <3>2. \A l \in links' : l[1] = d.variant => l \in links
      BY <3>1
    <3> QED
      BY <2>2, <2>3, <3>2, UndisturbedStill DEF LinkInv
  <2>4. d.alone => \A k \in Staff : Edits(writer', k, d.variant) => k = u
    BY <1>2, <2>2
  <2> QED
    BY <2>1, <2>2, <2>3, <2>4 DEF Going
<1>7. \A u \in Staff : Going(u, writer', rows', links')
  <2>1. \A u \in Staff : writer'[u] = Blank => Going(u, writer', rows', links')
    BY DEF Going
  <2> QED
    BY <1>5, <1>6, <2>1
<1>8. told' \in [VariantIds -> Labels \cup {Blank}]
  BY DEF LinkInv
<1> QED
  BY <1>1, <1>4, <1>7, <1>8 DEF LinkInv, Going

\* An edit, field by field.
LEMMA EditIs ==
  ASSUME NEW o \in Edit
  PROVE  o = [variant |-> o.variant, labels |-> o.labels, todo |-> o.todo,
              ids |-> o.ids, cleared |-> o.cleared, alone |-> o.alone]
BY DEF Edit

\* An edit that has cleared the links.
LEMMA ClearedIs ==
  ASSUME NEW o \in Edit
  PROVE  [o EXCEPT !.cleared = TRUE]
           = [variant |-> o.variant, labels |-> o.labels, todo |-> o.todo,
              ids |-> o.ids, cleared |-> TRUE, alone |-> o.alone]
<1> DEFINE m == [o EXCEPT !.cleared = TRUE]
<1>1. /\ m \in Edit /\ m.variant = o.variant /\ m.labels = o.labels /\ m.todo = o.todo
      /\ m.ids = o.ids /\ m.cleared = TRUE /\ m.alone = o.alone
  BY DEF Edit
<1> HIDE DEF m
<1> QED
  BY <1>1, EditIs DEF m



\* An edit with other codes to do and other values.
LEMMA UpsertedIs ==
  ASSUME NEW o \in Edit, NEW todo \in SUBSET CodeSet, NEW ids \in SUBSET Nat
  PROVE  [[o EXCEPT !.todo = todo] EXCEPT !.ids = ids]
           = [variant |-> o.variant, labels |-> o.labels, todo |-> todo,
              ids |-> ids, cleared |-> o.cleared, alone |-> o.alone]
<1> DEFINE k == [o EXCEPT !.todo = todo]
           m == [k EXCEPT !.ids = ids]
<1>1. /\ k \in Edit /\ k.variant = o.variant /\ k.labels = o.labels /\ k.todo = todo
      /\ k.cleared = o.cleared /\ k.alone = o.alone
  BY DEF Edit, CodeSet
<1> HIDE DEF k
<1>2. /\ m \in Edit /\ m.variant = k.variant /\ m.labels = k.labels /\ m.todo = k.todo
      /\ m.ids = ids /\ m.cleared = k.cleared /\ m.alone = k.alone
  BY <1>1 DEF Edit
<1> HIDE DEF m
<1>3. m = [variant |-> o.variant, labels |-> o.labels, todo |-> todo,
              ids |-> ids, cleared |-> o.cleared, alone |-> o.alone]
  BY <1>1, <1>2, EditIs
<1> QED
  BY <1>3 DEF m, k

\* UpsertLabel keeps it.
LEMMA UpsertKeeps ==
  ASSUME LinkInv, NEW w \in Staff, UpsertLabel(w)
  PROVE  LinkInv'
<1> DEFINE o == writer[w]
<1>1. o # Blank /\ o \in Edit /\ o.todo \subseteq Named(o.labels) /\ (o.cleared => o.todo = {})
  BY DEF LinkInv, UpsertLabel
<1>2. PICK code \in o.todo :
        /\ rows' = upsertValue(rows, code, o.labels[code])
        /\ writer' = [writer EXCEPT ![w].todo = @ \ {code},
                                    ![w].ids = @ \cup {IdOf(rows', code, o.labels[code])}]
  BY DEF UpsertLabel
<1> DEFINE id == IdOf(rows', code, o.labels[code])
           e == [variant |-> o.variant, labels |-> o.labels, todo |-> o.todo \ {code},
                 ids |-> o.ids \cup {id}, cleared |-> o.cleared, alone |-> o.alone]
<1>3. code \in Named(o.labels) /\ code \in CodeSet /\ o.labels[code] \in Texts
  BY <1>1 DEF Edit, Labels, Named, CodeSet
<1>4. RowsFit(rows') /\ Grown(rows, rows') /\ Means(rows', id, code, o.labels[code])
  BY <1>2, <1>3, UpsertIs DEF LinkInv
<1>5. id \in Nat
  BY <1>4, RowsAre DEF Means
<1>6. writer' = [writer EXCEPT ![w] = e]
  <2>1. o.todo \ {code} \in SUBSET CodeSet /\ o.ids \cup {id} \in SUBSET Nat
    BY <1>1, <1>5 DEF Edit, CodeSet
  <2>2. e = [[o EXCEPT !.todo = o.todo \ {code}] EXCEPT !.ids = o.ids \cup {id}]
    <3> HIDE DEF o, id
    <3> QED
      BY <1>1, <2>1, UpsertedIs
  <2>3. writer' = [writer EXCEPT ![w] = [[o EXCEPT !.todo = o.todo \ {code}] EXCEPT !.ids = o.ids \cup {id}]]
    BY <1>2
  <2> QED
    BY <2>2, <2>3
<1>7. e \in Edit
  BY <1>1, <1>5 DEF Edit
<1>8. /\ e.variant = o.variant /\ e.labels = o.labels /\ e.todo = o.todo \ {code}
      /\ e.ids = o.ids \cup {id} /\ e.cleared = o.cleared /\ e.alone = o.alone
  OBVIOUS
<1>9. UNCHANGED <<links, told>>
  BY DEF UpsertLabel
<1>10. LinksFit(rows', links')
  BY <1>4, <1>9 DEF LinkInv, LinksFit, Grown
<1> HIDE DEF id, e
<1>11. ASSUME o.alone PROVE Undisturbed(rows', links', e)
  <2>1. Undisturbed(rows, links, o)
    BY <1>1, <1>11 DEF LinkInv
  <2>2. Undisturbed(rows', links', o)
    BY <1>4, <1>9, <2>1, UndisturbedStill DEF LinkInv
  <2> HIDE DEF o
  <2>3. ASSUME NEW x \in e.ids PROVE \E c \in Named(e.labels) \ e.todo : Means(rows', x, c, e.labels[c])
    BY <1>3, <1>4, <1>8, <2>2, <2>3 DEF Undisturbed
  <2>4. ASSUME NEW c \in Named(e.labels) \ e.todo PROVE \E x \in e.ids : Means(rows', x, c, e.labels[c])
    BY <1>4, <1>8, <2>2, <2>4 DEF Undisturbed
  <2>5. e.cleared => \A l \in links' : l[1] # e.variant
    BY <1>8, <2>2 DEF Undisturbed
  <2> QED
    BY <2>3, <2>4, <2>5 DEF Undisturbed
<1>12. e.todo \subseteq Named(e.labels) /\ (e.cleared => e.todo = {})
  BY <1>1, <1>8
<1> QED
  BY <1>1, <1>4, <1>6, <1>7, <1>8, <1>9, <1>10, <1>11, <1>12, EditKeeps

\* ClearLinks keeps it.
LEMMA ClearKeeps ==
  ASSUME LinkInv, NEW w \in Staff, ClearLinks(w)
  PROVE  LinkInv'
<1> DEFINE o == writer[w]
           e == [variant |-> o.variant, labels |-> o.labels, todo |-> o.todo,
                 ids |-> o.ids, cleared |-> TRUE, alone |-> o.alone]
<1>1. o # Blank /\ o \in Edit /\ o.todo = {}
  BY DEF LinkInv, ClearLinks
<1>2. writer' = [writer EXCEPT ![w] = e]
  <2>1. e = [o EXCEPT !.cleared = TRUE]
    <3> HIDE DEF o
    <3> QED
      BY <1>1, ClearedIs
  <2>2. writer' = [writer EXCEPT ![w] = [o EXCEPT !.cleared = TRUE]]
    BY DEF ClearLinks
  <2> QED
    BY <2>1, <2>2
<1>3. e \in Edit
  BY <1>1 DEF Edit
<1>4. /\ e.variant = o.variant /\ e.labels = o.labels /\ e.todo = o.todo
      /\ e.ids = o.ids /\ e.cleared /\ e.alone = o.alone
  OBVIOUS
<1>5. UNCHANGED <<rows, told>> /\ links' = links \ {l \in links : l[1] = o.variant}
  BY DEF ClearLinks, LinksOf
<1>6. RowsFit(rows') /\ Grown(rows, rows') /\ LinksFit(rows', links')
  BY <1>5, GrownSelf DEF LinkInv, LinksFit
<1>7. ASSUME o.alone PROVE Undisturbed(rows', links', e)
  <2>1. Undisturbed(rows, links, o)
    BY <1>1, <1>7 DEF LinkInv
  <2> HIDE DEF o, e
  <2> QED
    BY <1>4, <1>5, <2>1 DEF Undisturbed
<1> HIDE DEF e
<1>8. e.todo \subseteq Named(e.labels)
  BY <1>1, <1>4
<1>9. \A l : l[1] # e.variant => (l \in links' <=> l \in links)
  BY <1>4, <1>5
<1> QED
  BY <1>1, <1>2, <1>3, <1>4, <1>5, <1>6, <1>7, <1>8, <1>9, EditKeeps

\* An edit ends, and its variant may be told its labels.
LEMMA EndKeeps ==
  ASSUME LinkInv, NEW w \in Staff, writer[w] # Blank, writer' = [writer EXCEPT ![w] = Blank],
         rows' = rows, LinksFit(rows', links'),
         \A l : l[1] # writer[w].variant => (l \in links' <=> l \in links),
         told' \in [VariantIds -> Labels \cup {Blank}],
         \A v \in VariantIds \ {writer[w].variant} : told'[v] = told[v],
         told'[writer[w].variant] # Blank =>
           writer[w].alone /\ Right(rows', links', writer[w].variant, told'[writer[w].variant])
  PROVE  LinkInv'
<1> DEFINE v == writer[w].variant
<1>1. /\ writer' \in [Staff -> Edit \cup {Blank}]
      /\ writer'[w] = Blank /\ \A u \in Staff \ {w} : writer'[u] = writer[u]
  BY DEF LinkInv
<1>2. \A u \in Staff : \A k : Edits(writer', u, k) => u # w /\ Edits(writer, u, k)
  BY <1>1 DEF Edits
<1>3. v \in VariantIds
  BY DEF LinkInv, Edit
<1>4. ASSUME NEW u \in VariantIds, told'[u] # Blank
      PROVE  Right(rows', links', u, told'[u]) /\ \A k \in Staff : ~Edits(writer', k, u)
  <2>1. CASE u = v
    <3>1. \A k \in Staff : Edits(writer, k, v) => k = w
      BY <1>4, <2>1 DEF LinkInv
    <3> QED
      BY <1>2, <1>4, <2>1, <3>1
  <2>2. CASE u # v
    <3>1. told'[u] = told[u] /\ Right(rows, links, u, told[u]) /\ \A k \in Staff : ~Edits(writer, k, u)
      BY <1>4, <2>2 DEF LinkInv
    <3>2. \A l : l[1] = u => (l \in links' <=> l \in links)
      BY <2>2
    <3>3. Right(rows, links', u, told[u])
      BY <3>1, <3>2, RightStill, GrownSelf DEF LinkInv
    <3> QED
      BY <1>2, <3>1, <3>3
  <2> QED
    BY <2>1, <2>2
<1>5. ASSUME NEW u \in Staff, writer'[u] # Blank PROVE Going(u, writer', rows', links')
  <2> DEFINE d == writer[u]
  <2>1. writer'[u] = d /\ d # Blank /\ u # w
    BY <1>1, <1>5
  <2>2. /\ d.todo \subseteq Named(d.labels) /\ (d.cleared => d.todo = {})
        /\ d.alone => /\ \A k \in Staff : Edits(writer, k, d.variant) => k = u
                      /\ Undisturbed(rows, links, d)
    BY <2>1 DEF LinkInv
  <2> HIDE DEF d
  <2>3. ASSUME d.alone PROVE Undisturbed(rows', links', d)
    <3>1. d.variant # v
      <4>1. Edits(writer, w, v)
        BY DEF Edits
      <4> QED
        BY <2>1, <2>2, <2>3, <4>1
    <3>2. \A l \in links' : l[1] = d.variant => l \in links
      BY <3>1
    <3>3. Undisturbed(rows, links', d)
      BY <2>2, <2>3, <3>2, UndisturbedStill, GrownSelf DEF LinkInv
    <3> QED
      BY <3>3
  <2>4. d.alone => \A k \in Staff : Edits(writer', k, d.variant) => k = u
    BY <1>2, <2>2
  <2> QED
    BY <2>1, <2>2, <2>3, <2>4 DEF Going
<1>6. RowsFit(rows')
  BY DEF LinkInv
<1> QED
  BY <1>1, <1>4, <1>5, <1>6 DEF LinkInv, Going

\* CreateLinks keeps it: the values are those of the labels.
LEMMA LinkKeeps ==
  ASSUME LinkInv, NEW w \in Staff, CreateLinks(w)
  PROVE  LinkInv'
<1> DEFINE o == writer[w]
           v == o.variant
<1>1. o # Blank /\ o \in Edit /\ o.cleared /\ o.todo = {} /\ v \in VariantIds
  BY DEF LinkInv, CreateLinks, Edit
<1>2. /\ rows' = rows /\ o.ids \subseteq DOMAIN rows.values
      /\ links' = links \cup ({v} \X o.ids)
      /\ told' = IF o.alone THEN [told EXCEPT ![v] = o.labels] ELSE told
      /\ writer' = [writer EXCEPT ![w] = Blank]
  BY DEF CreateLinks
<1>3. LinksFit(rows', links')
  <2>1. o.ids \in SUBSET Nat
    BY <1>1 DEF Edit
  <2> QED
    BY <1>1, <1>2, <2>1 DEF LinkInv, LinksFit
<1>4. \A l : l[1] # v => (l \in links' <=> l \in links)
  BY <1>2
<1>5. told[v] = Blank
  BY <1>1 DEF LinkInv, Edits
<1>6. /\ told' \in [VariantIds -> Labels \cup {Blank}]
      /\ \A u \in VariantIds \ {v} : told'[u] = told[u]
      /\ told'[v] # Blank => o.alone /\ told'[v] = o.labels
  <2>1. o.labels \in Labels /\ told \in [VariantIds -> Labels \cup {Blank}]
    BY <1>1 DEF Edit, LinkInv
  <2> HIDE DEF o
  <2> QED
    BY <1>1, <1>2, <1>5, <2>1
<1>7. ASSUME o.alone PROVE Right(rows', links', v, o.labels)
  <2>1. Undisturbed(rows, links, o)
    BY <1>1, <1>7 DEF LinkInv
  <2>2. \A l : l[1] = v => (l \in links' <=> l[1] = v /\ l \in {v} \X o.ids)
    BY <1>1, <1>2, <2>1 DEF Undisturbed
  <2>3. \A l \in links' : l[1] = v => \E c \in Named(o.labels) : Means(rows, l[2], c, o.labels[c])
    BY <1>1, <2>1, <2>2 DEF Undisturbed
  <2>4. ASSUME NEW c \in Named(o.labels)
        PROVE  \E l \in links' : l[1] = v /\ Means(rows, l[2], c, o.labels[c])
    <3>1. PICK x \in o.ids : Means(rows, x, c, o.labels[c])
      BY <1>1, <2>1 DEF Undisturbed
    <3>2. <<v, x>> \in links' /\ <<v, x>>[1] = v /\ <<v, x>>[2] = x
      BY <1>2
    <3> QED
      BY <3>1, <3>2
  <2> QED
    BY <1>2, <2>3, <2>4 DEF Right
<1>8. told'[v] # Blank => o.alone /\ Right(rows', links', v, told'[v])
  BY <1>6, <1>7
<1> QED
  BY <1>1, <1>2, <1>3, <1>4, <1>6, <1>8, EndKeeps

\* AbandonEdit keeps it.
LEMMA AbandonKeeps ==
  ASSUME LinkInv, NEW w \in Staff, AbandonEdit(w)
  PROVE  LinkInv'
<1>1. writer[w] # Blank /\ writer' = [writer EXCEPT ![w] = Blank] /\ UNCHANGED <<rows, links, told>>
  BY DEF AbandonEdit
<1>2. writer[w].variant \in VariantIds /\ told[writer[w].variant] = Blank
  BY <1>1 DEF LinkInv, Edit, Edits
<1> QED
  BY <1>1, <1>2, EndKeeps DEF LinkInv

\* One value for each label: as many values as labels.
LEMMA RightIsLabelled ==
  ASSUME NEW r, RowsFit(r), NEW linked, NEW v, NEW labels, Right(r, linked, v, labels)
  PROVE  LET ids == {l[2] : l \in {k \in linked : k[1] = v}}
         IN  /\ {<<r.codes[r.values[x].of], r.values[x].text>> : x \in ids}
                  = {<<c, labels[c]>> : c \in Named(labels)}
             /\ Cardinality(ids) = Cardinality(Named(labels))
<1> DEFINE ids == {l[2] : l \in {k \in linked : k[1] = v}}
           codes == Named(labels)
           f == [c \in codes |-> CHOOSE x \in ids : Means(r, x, c, labels[c])]
<1>1. \A x \in ids : \E c \in codes : Means(r, x, c, labels[c])
  BY DEF Right
<1>2. \A c \in codes : \E x \in ids : Means(r, x, c, labels[c])
  <2>1. \A c \in codes : \E l \in linked : l[1] = v /\ Means(r, l[2], c, labels[c])
    BY DEF Right
  <2> HIDE DEF codes
  <2> QED
    BY <2>1
<1>3. IsFiniteSet(codes)
  <2>1. AttributeCodes \in Seq(ToSet(AttributeCodes))
    BY AttributesAssumption
  <2> DEFINE size == Len(AttributeCodes)
             g == [i \in 1 .. size |-> AttributeCodes[i]]
  <2>2. size \in Nat /\ DOMAIN AttributeCodes = 1 .. size
    BY <2>1
  <2>3. g \in Surjection(1 .. size, ToSet(AttributeCodes))
    BY <2>2 DEF Surjection, ToSet
  <2>4. IsFiniteSet(1 .. size)
    BY <2>2, FS_Interval
  <2>5. IsFiniteSet(ToSet(AttributeCodes))
    BY <2>3, <2>4, FS_Surjection
  <2> QED
    BY <2>5, FS_Subset DEF Named
<1> HIDE DEF ids, codes
<1>4. \A c \in codes : f[c] \in ids /\ Means(r, f[c], c, labels[c])
  BY <1>2
<1> HIDE DEF f
<1>5. f \in Bijection(codes, ids)
  <2>1. f \in [codes -> ids]
    BY <1>4 DEF f
  <2>2. \A c, d \in codes : f[c] = f[d] => c = d
    BY <1>4 DEF Means
  <2>3. ASSUME NEW x \in ids PROVE \E c \in codes : f[c] = x
    <3>1. PICK c \in codes : Means(r, x, c, labels[c])
      BY <1>1
    <3>2. f[c] = x
      BY <1>4, <3>1, OneMeans
    <3> QED
      BY <3>2
  <2>4. f \in Injection(codes, ids)
    BY <2>1, <2>2 DEF Injection, IsInjective
  <2>5. f \in Surjection(codes, ids)
    BY <2>1, <2>3 DEF Surjection
  <2> QED
    BY <2>4, <2>5 DEF Bijection
<1>6. Cardinality(ids) = Cardinality(codes)
  BY <1>3, <1>5, FS_Bijection DEF ExistsBijection
<1>7. {<<r.codes[r.values[x].of], r.values[x].text>> : x \in ids} = {<<c, labels[c]>> : c \in codes}
  <2>1. ASSUME NEW x \in ids
        PROVE  <<r.codes[r.values[x].of], r.values[x].text>> \in {<<c, labels[c]>> : c \in codes}
    BY <1>1 DEF Means
  <2>2. ASSUME NEW c \in codes
        PROVE  <<c, labels[c]>> \in {<<r.codes[r.values[x].of], r.values[x].text>> : x \in ids}
    BY <1>2 DEF Means
  <2> QED
    BY <2>1, <2>2
<1> QED
  BY <1>6, <1>7 DEF ids, codes

\* No rows, no links and no edits.
LEMMA LinksStart ==
  ASSUME AttributeInit
  PROVE  LinkInv
<1> DEFINE none == <<>>
<1>1. DOMAIN none = {} /\ \A T : none \in [{} -> T]
  <2>1. none = [k \in {} |-> 0]
    OBVIOUS
  <2> QED
    BY <2>1
<1> HIDE DEF none
<1>2. none \in Tables(Nat, CodeSet) /\ none \in Tables(Nat, ValueSet)
  BY <1>1, TableIs
<1>3. rows = [codes |-> none, values |-> none, next |-> 1]
  BY DEF AttributeInit, none
<1>4. rows.codes = none /\ rows.values = none /\ rows.next = 1
  BY <1>3
<1>5. rows \in RowSet
  BY <1>2, <1>3 DEF RowSet
<1>6. RowsFit(rows)
  BY <1>1, <1>4, <1>5 DEF RowsFit
<1>7. LinksFit(rows, links)
  BY DEF LinksFit, AttributeInit
<1>8. /\ writer \in [Staff -> Edit \cup {Blank}] /\ \A w \in Staff : writer[w] = Blank
      /\ told \in [VariantIds -> Labels \cup {Blank}] /\ \A v \in VariantIds : told[v] = Blank
  BY DEF AttributeInit
<1> QED
  BY <1>6, <1>7, <1>8 DEF LinkInv

\* Every step keeps the invariant.
LEMMA LinksKept ==
  ASSUME LinkInv, [AttributeNext]_attributeVars
  PROVE  LinkInv'
<1>1. ASSUME NEW code \in ToSet(AttributeCodes), createAttribute(code) PROVE LinkInv'
  BY <1>1, CreateKeeps DEF CodeSet
<1>2. ASSUME NEW a \in DOMAIN rows.codes, deleteAttribute(a) PROVE LinkInv'
  BY <1>2, DeleteAttributeKeeps
<1>3. ASSUME NEW a \in DOMAIN rows.codes, NEW text \in Texts, CreateValue(a, text) PROVE LinkInv'
  BY <1>3, CreateValueKeeps
<1>4. ASSUME NEW a \in DOMAIN rows.codes, NEW code \in ToSet(AttributeCodes), updateAttribute(a, code)
      PROVE  LinkInv'
  BY <1>4, UpdateKeeps DEF CodeSet
<1>5. ASSUME NEW x \in DOMAIN rows.values, deleteValue(x) PROVE LinkInv'
  BY <1>5, DeleteValueKeeps
<1>6. ASSUME NEW v \in VariantIds, NEW ids \in SUBSET DOMAIN rows.values, setVariantAttributes(v, ids)
      PROVE  LinkInv'
  BY <1>6, SetLinksKeeps
<1>7. ASSUME NEW w \in Staff, NEW v \in VariantIds, NEW labels \in Labels, syncVariantAttributes(w, v, labels)
      PROVE  LinkInv'
  BY <1>7, StartKeeps
<1>8. ASSUME NEW w \in Staff, UpsertLabel(w) PROVE LinkInv'
  BY <1>8, UpsertKeeps
<1>9. ASSUME NEW w \in Staff, ClearLinks(w) PROVE LinkInv'
  BY <1>9, ClearKeeps
<1>10. ASSUME NEW w \in Staff, CreateLinks(w) PROVE LinkInv'
  BY <1>10, LinkKeeps
<1>11. ASSUME NEW w \in Staff, AbandonEdit(w) PROVE LinkInv'
  BY <1>11, AbandonKeeps
<1>12. ASSUME NEW S \in SUBSET VariantIds \ {{}}, NEW given \in [S -> Labels], importLabels(given)
       PROVE  LinkInv'
  BY <1>12, ImportKeeps
<1>13. CASE UNCHANGED attributeVars
  BY <1>13 DEF attributeVars, LinkInv, Edits
<1> QED
  BY <1>1, <1>2, <1>3, <1>4, <1>5, <1>6, <1>7, <1>8, <1>9, <1>10, <1>11, <1>12, <1>13 DEF AttributeNext

\* A variant whose last write ran whole and undisturbed is linked to what that
\* write named and to nothing else (upsertVariantAttributesFromLabels), for any
\* finite set of variants, any staff and any codes, texts and number of writes.
THEOREM LinksAreAsLabelledHolds ==
  AttributeInit /\ [][AttributeNext]_attributeVars => []LinksAreAsLabelled
<1>1. LinkInv => LinksAreAsLabelled
  <2> SUFFICES ASSUME LinkInv, NEW v \in VariantIds, told[v] # Blank
               PROVE  LET linked == {l[2] : l \in LinksOf(v)}
                      IN /\ {<<rows.codes[rows.values[x].of], rows.values[x].text>> : x \in linked}
                              = {<<c, told[v][c]>> : c \in Named(told[v])}
                         /\ Cardinality(linked) = Cardinality(Named(told[v]))
    BY DEF LinksAreAsLabelled
  <2>1. RowsFit(rows) /\ Right(rows, links, v, told[v])
    BY DEF LinkInv
  <2> QED
    BY <2>1, RightIsLabelled DEF LinksOf
<1>2. AttributeInit => LinkInv
  BY LinksStart
<1>3. LinkInv /\ [AttributeNext]_attributeVars => LinkInv'
  BY LinksKept
<1> QED
  BY <1>1, <1>2, <1>3, PTL

=============================================================================
