---------------------------- MODULE SupplierProofs ----------------------------
(***************************************************************************)
(* Proofs about the parts that deal with suppliers.                        *)
(*                                                                         *)
(* ResyncLock, for any number of workers and ticks, any period, and any    *)
(* lifetime of the lock that outlasts the skew and is over by the next     *)
(* tick: one resync for each tick in which nothing failed.                 *)
(*                                                                         *)
(* Sourcing, for any number of requests at once and any lifetimes: a token *)
(* kept is a token honoured, and what the caches hold is as young as their *)
(* lifetimes together allow.                                               *)
(*                                                                         *)
(* SupplierOrders, for any number of requests at once, any number of tries *)
(* and of calls lost: what is recorded of CJ's orders is true of them, and *)
(* requests one after the other pay CJ once.                               *)
(*                                                                         *)
(* ProductSync, for any number of jobs, products and runners: a job whose  *)
(* message is gone is settled, and what counts as synced was imported.     *)
(***************************************************************************)
EXTENDS ResyncLock, Sourcing, SupplierOrders, ProductSync, FiniteSetTheorems, SequenceTheorems, TLAPS

TypeOK ==
  /\ clock \in Nat /\ lock \in Nat /\ mishapCount \in Nat
  /\ ran \in [Workers -> Ticks \cup {0}]
  /\ holds \in SUBSET Workers
  /\ queued \in [Ticks -> Nat]
  /\ mishaps \in SUBSET Ticks

\* Workers handle ticks as they come, and what is to be queued is queued within
\* the skew of its tick.
TicksAreHandledInTime ==
  /\ \A w \in Workers : ran[w] = 0 \/ Begin(ran[w]) <= clock
  /\ \A w \in holds : ran[w] # 0 /\ clock <= Begin(ran[w]) + Skew

\* A key was set by a worker on a tick, and it lives for its lifetime from then.
LockIsOfATick ==
  lock # 0 =>
    /\ clock < lock
    /\ \E w \in Workers : ran[w] # 0 /\ lock <= Begin(ran[w]) + Skew + LockTTL

Handled(t) == \E w \in Workers : ran[w] >= t

\* While t's workers fire, nobody has handled it yet, or one of them has it to
\* queue or has queued it and the key still keeps the others out.
FirstComes(t) ==
  \/ ~Handled(t) /\ queued[t] = 0
  \/ lock >= Begin(t) + LockTTL /\ queued[t] = 1 /\ holds = {}
  \/ lock >= Begin(t) + LockTTL /\ queued[t] = 0 /\ \E w \in holds : holds = {w} /\ ran[w] = t

OncePerTick ==
  \A t \in Ticks \ mishaps :
    /\ clock < Begin(t) => queued[t] = 0
    /\ clock \in Begin(t) .. Begin(t) + Skew => FirstComes(t)
    /\ clock > Begin(t) + Skew => queued[t] = 1

IInv == TypeOK /\ TicksAreHandledInTime /\ LockIsOfATick /\ OncePerTick

-----------------------------------------------------------------------------
\* Ticks are a period apart at least, and a key is gone by the next.
LEMMA TicksAreApart ==
  /\ Skew \in Nat /\ LockTTL \in Nat /\ Period \in Nat /\ Skew < LockTTL
  /\ \A t \in Ticks \cup {0} : t \in Nat /\ Begin(t) \in Nat
  /\ \A t, u \in Ticks \cup {0} : t < u => Begin(t) + Skew + LockTTL <= Begin(u)
<1>1. {Period, Skew, LockTTL, MaxTicks} \subseteq Nat /\ Skew < LockTTL /\ LockTTL + Skew <= Period
  BY ResyncLockAssumption
<1>2. \A t \in Ticks \cup {0} : t \in Nat /\ Begin(t) \in Nat
  BY <1>1 DEF Ticks, Begin
<1>3. ASSUME NEW t \in Nat, NEW u \in Nat, t < u
      PROVE  Begin(t) + Period <= Begin(u)
  <2>1. u * Period = t * Period + (u - t) * Period
    BY <1>1
  <2>2. u - t \in Nat /\ u - t >= 1
    BY <1>3
  <2>3. (u - t) * Period >= Period
    BY <1>1, <2>2
  <2>4. QED
    BY <1>1, <2>1, <2>3 DEF Begin
<1>4. QED
  BY <1>1, <1>2, <1>3

\* The first tick begins the model.
LEMMA InitIInv == LockInit => IInv
<1>1. SUFFICES ASSUME LockInit PROVE IInv
  OBVIOUS
<1>2. MaxTicks = 0 \/ 1 \in Ticks
  BY ResyncLockAssumption DEF Ticks
<1>3. Begin(1) \in Nat
  BY ResyncLockAssumption DEF Begin
<1>4. TypeOK
  BY <1>1, <1>3 DEF LockInit, TypeOK
<1>5. TicksAreHandledInTime /\ LockIsOfATick
  BY <1>1 DEF LockInit, TicksAreHandledInTime, LockIsOfATick
<1>6. ASSUME NEW t \in Ticks
      PROVE  ~(clock > Begin(t) + Skew) /\ queued[t] = 0 /\ ~Handled(t)
  <2>1. 1 \in Ticks /\ t \in Nat /\ t >= 1
    BY ResyncLockAssumption DEF Ticks
  <2>2. Begin(1) <= Begin(t)
    <3>1. CASE t = 1
      BY <3>1, <1>3
    <3>2. CASE t > 1
      BY <2>1, <3>2, TicksAreApart
    <3>3. QED
      BY <2>1, <3>1, <3>2
  <2>3. QED
    BY <1>1, <1>3, <2>1, <2>2, TicksAreApart DEF LockInit, Handled
<1>7. OncePerTick
  BY <1>6 DEF OncePerTick, FirstComes
<1>8. QED
  BY <1>4, <1>5, <1>7 DEF IInv

\* The workers of one tick fire at a time.
LEMMA OneTickAtATime ==
  ASSUME TypeOK, NEW t \in Ticks, Begin(t) <= clock, clock <= Begin(t) + Skew
  PROVE  /\ \A u \in Ticks \ {t} : clock < Begin(u) \/ clock > Begin(u) + Skew
         /\ TicksAreHandledInTime => \A w \in holds : ran[w] = t
<1>1. \A u \in Ticks : u < t => clock > Begin(u) + Skew
  BY TicksAreApart DEF TypeOK
<1>2. \A u \in Ticks : u > t => clock < Begin(u)
  BY TicksAreApart DEF TypeOK
<1>3. \A u \in Ticks : u < t \/ u = t \/ u > t
  BY TicksAreApart
<1>4. TicksAreHandledInTime =>
        \A w \in holds : ran[w] \in Ticks /\ Begin(ran[w]) <= clock /\ clock <= Begin(ran[w]) + Skew
  BY DEF TypeOK, TicksAreHandledInTime
<1>5. \A u \in Ticks \ {t} : clock < Begin(u) \/ clock > Begin(u) + Skew
  BY <1>1, <1>2, <1>3
<1>6. ASSUME TicksAreHandledInTime, NEW w \in holds PROVE ran[w] = t
  <2>1. ran[w] \in Ticks /\ Begin(ran[w]) <= clock /\ clock <= Begin(ran[w]) + Skew
    BY <1>4, <1>6
  <2>2. Begin(ran[w]) \in Nat /\ clock \in Nat
    BY <2>1, TicksAreApart DEF TypeOK
  <2>3. QED
    BY <1>5, <2>1, <2>2, TicksAreApart
<1>7. QED
  BY <1>5, <1>6

\* On the first turn of a tick in which nothing failed, the key of the tick before is gone.
LEMMA KeyIsFree ==
  ASSUME IInv, NEW t \in Ticks, Begin(t) <= clock, clock <= Begin(t) + Skew, ~Handled(t)
  PROVE  lock = 0 /\ holds = {}
<1>1. \A w \in Workers : ran[w] \in Ticks \cup {0} /\ ran[w] < t
  <2>1. SUFFICES ASSUME NEW w \in Workers PROVE ran[w] \in Ticks \cup {0} /\ ran[w] < t
    OBVIOUS
  <2>2. ran[w] \in Ticks \cup {0}
    BY DEF IInv, TypeOK
  <2>3. ran[w] \in Nat /\ t \in Nat
    BY <2>2, TicksAreApart
  <2>4. ~(ran[w] >= t)
    BY DEF Handled
  <2>5. QED
    BY <2>2, <2>3, <2>4
<1>2. \A w \in Workers : Begin(ran[w]) + Skew + LockTTL <= Begin(t)
  BY <1>1, TicksAreApart
<1>3. \A w \in Workers : Begin(ran[w]) \in Nat
  BY <1>1, TicksAreApart
<1>4. lock = 0
  <2>1. SUFFICES ASSUME lock # 0 PROVE FALSE
    OBVIOUS
  <2>2. PICK w \in Workers : clock < lock /\ lock <= Begin(ran[w]) + Skew + LockTTL
    BY <2>1 DEF IInv, LockIsOfATick
  <2>3. QED
    BY <1>2, <1>3, <2>2, TicksAreApart DEF IInv, TypeOK
<1>5. holds = {}
  <2>1. \A w \in holds : ran[w] = t
    BY OneTickAtATime DEF IInv
  <2>2. QED
    BY <1>1, <2>1, TicksAreApart DEF IInv, TypeOK
<1>6. QED
  BY <1>4, <1>5

\* A worker that fires keeps the types, the times and the lifetime of the key.
LEMMA FiringInTime ==
  ASSUME IInv, NEW w \in Workers, NEW t \in Current, Fires(w, t),
         lock' = lock \/ lock' = Expiry, holds' \in {holds, holds \cup {w}},
         UNCHANGED <<clock, queued>>, mishaps' \in SUBSET Ticks, mishapCount' \in Nat
  PROVE  TypeOK' /\ TicksAreHandledInTime' /\ LockIsOfATick'
<1>1. t \in Ticks /\ Begin(t) <= clock /\ clock <= Begin(t) + Skew /\ Begin(t) \in Nat
  BY TicksAreApart DEF Current, IInv, TypeOK
<1>2. /\ ran[w] < t /\ ran' \in [Workers -> Ticks \cup {0}] /\ ran'[w] = t
      /\ \A v \in Workers \ {w} : ran'[v] = ran[v]
  BY <1>1 DEF Fires, IInv, TypeOK
<1>3. Expiry \in Nat /\ Expiry > clock /\ Expiry <= Begin(t) + Skew + LockTTL
  BY <1>1, TicksAreApart DEF Expiry, IInv, TypeOK
<1>4. TypeOK'
  BY <1>2, <1>3 DEF IInv, TypeOK
<1>5. TicksAreHandledInTime'
  <2>1. ASSUME NEW v \in Workers PROVE ran'[v] = 0 \/ Begin(ran'[v]) <= clock
    BY <1>1, <1>2 DEF IInv, TicksAreHandledInTime
  <2>2. ASSUME NEW v \in holds' PROVE ran'[v] # 0 /\ clock <= Begin(ran'[v]) + Skew
    <3>1. v \in Workers /\ (v = w \/ v \in holds)
      BY <2>2 DEF IInv, TypeOK
    <3>2. t # 0
      BY <1>1 DEF Ticks
    <3>3. QED
      BY <1>1, <1>2, <3>1, <3>2 DEF IInv, TicksAreHandledInTime
  <2>3. QED
    BY <2>1, <2>2 DEF TicksAreHandledInTime, Begin
<1>6. LockIsOfATick'
  <2>1. SUFFICES ASSUME lock' # 0
        PROVE  clock < lock' /\ \E v \in Workers : ran'[v] # 0 /\ lock' <= Begin(ran'[v]) + Skew + LockTTL
    BY DEF LockIsOfATick, Begin
  <2>2. t # 0
    BY <1>1 DEF Ticks
  <2>3. CASE lock' = Expiry
    BY <1>2, <1>3, <2>2, <2>3
  <2>4. CASE lock' = lock
    <3>1. PICK v \in Workers : clock < lock /\ ran[v] # 0 /\ lock <= Begin(ran[v]) + Skew + LockTTL
      BY <2>1, <2>4 DEF IInv, LockIsOfATick
    <3>2. CASE v # w
      BY <1>2, <2>4, <3>1, <3>2
    <3>3. CASE v = w
      <4>1. Begin(ran[w]) + Skew + LockTTL <= Begin(t) /\ Begin(ran[w]) \in Nat
        BY <1>1, <1>2, TicksAreApart DEF IInv, TypeOK
      <4>2. lock <= Begin(t) + Skew + LockTTL
        BY <1>1, <3>1, <3>3, <4>1, TicksAreApart DEF IInv, TypeOK
      <4>3. QED
        BY <1>2, <2>2, <2>4, <3>1, <4>2
    <3>4. QED
      BY <3>2, <3>3
  <2>5. QED
    BY <2>3, <2>4
<1>7. QED
  BY <1>4, <1>5, <1>6

\* Of the workers that fire on a tick one takes the key, unless an error lets more in.
LEMMA Firing ==
  ASSUME IInv, NEW w \in Workers, NEW t \in Current, TakeLock(w, t) \/ LockFails(w, t)
  PROVE  IInv'
<1>1. /\ Fires(w, t) /\ UNCHANGED <<clock, queued>>
      /\ lock' = lock \/ lock' = Expiry
      /\ holds' \in {holds, holds \cup {w}}
      /\ mishaps' = mishaps \/ mishaps' = mishaps \cup {t}
      /\ mishapCount' = mishapCount \/ mishapCount' = mishapCount + 1
  BY DEF TakeLock, LockFails, Mishap
<1>2. t \in Ticks /\ Begin(t) <= clock /\ clock <= Begin(t) + Skew /\ Begin(t) \in Nat /\ t \in Nat
  BY TicksAreApart DEF Current, IInv, TypeOK
<1>3. mishaps' \in SUBSET Ticks /\ mishapCount' \in Nat
  <2>1. mishaps \in SUBSET Ticks /\ mishapCount \in Nat
    BY DEF IInv, TypeOK
  <2>2. mishapCount' \in Nat
    BY <1>1, <2>1
  <2>3. mishaps' \in SUBSET Ticks
    BY <1>1, <1>2, <2>1, Zenon
  <2>4. QED
    BY <2>2, <2>3
<1>4. TypeOK' /\ TicksAreHandledInTime' /\ LockIsOfATick'
  BY <1>1, <1>3, FiringInTime
<1>5. \A u \in Ticks \ {t} : clock < Begin(u) \/ clock > Begin(u) + Skew
  BY <1>2, OneTickAtATime DEF IInv
<1>6. ASSUME NEW u \in Ticks \ mishaps', u # t
      PROVE  /\ clock < Begin(u) => queued[u] = 0
             /\ clock > Begin(u) + Skew => queued[u] = 1
             /\ clock \notin Begin(u) .. Begin(u) + Skew
  <2>1. u \in Ticks \ mishaps
    BY <1>1, <1>6
  <2>2. Begin(u) \in Nat
    BY TicksAreApart
  <2>3. QED
    BY <1>5, <1>6, <2>1, <2>2, TicksAreApart DEF IInv, TypeOK, OncePerTick
<1>7. ASSUME t \notin mishaps' PROVE (FirstComes(t))'
  <2>1. TakeLock(w, t) /\ t \notin mishaps
    BY <1>1, <1>7 DEF LockFails, Mishap
  <2>2. FirstComes(t)
    BY <1>2, <2>1, TicksAreApart DEF IInv, TypeOK, OncePerTick
  <2>3. ran[w] < t /\ ran' = [ran EXCEPT ![w] = t] /\ ran'[w] = t
    BY <1>1 DEF Fires, IInv, TypeOK
  <2>4. CASE ~Handled(t)
    <3>1. lock = 0 /\ holds = {} /\ queued[t] = 0
      <4>1. lock = 0 /\ holds = {}
        BY <1>2, <2>4, KeyIsFree
      <4>2. QED
        BY <2>2, <2>4, <4>1, <1>2, TicksAreApart DEF FirstComes
    <3>2. lock' = Expiry /\ holds' = {w}
      BY <2>1, <3>1 DEF TakeLock
    <3>3. lock' >= Begin(t) + LockTTL
      BY <1>2, <3>2, TicksAreApart DEF Expiry, IInv, TypeOK
    <3>4. QED
      BY <1>1, <2>3, <3>1, <3>2, <3>3 DEF FirstComes, Begin
  <2>5. CASE Handled(t)
    <3>1. lock >= Begin(t) + LockTTL
      BY <2>2, <2>5 DEF FirstComes
    <3>2. lock' = lock /\ holds' = holds
      BY <1>2, <2>1, <3>1, TicksAreApart DEF TakeLock
    <3>3. \A v \in holds : ran[v] = t => ran'[v] = t
      BY <2>3, <1>2 DEF IInv, TypeOK
    <3>4. (queued[t] = 1 /\ holds = {}) \/ (queued[t] = 0 /\ \E v \in holds : holds = {v} /\ ran[v] = t)
      BY <2>2, <2>5 DEF FirstComes
    <3>5. QED
      BY <1>1, <3>1, <3>2, <3>3, <3>4 DEF FirstComes, Begin
  <2>6. QED
    BY <2>4, <2>5
<1>8. OncePerTick'
  <2>1. ASSUME NEW u \in Ticks \ mishaps'
        PROVE  /\ clock' < Begin(u) => queued'[u] = 0
               /\ clock' \in Begin(u) .. Begin(u) + Skew => (FirstComes(u))'
               /\ clock' > Begin(u) + Skew => queued'[u] = 1
    <3>1. CASE u = t
      BY <1>1, <1>2, <1>7, <2>1, <3>1, TicksAreApart DEF IInv, TypeOK
    <3>2. CASE u # t
      BY <1>1, <1>6, <2>1, <3>2
    <3>3. QED
      BY <3>1, <3>2
  <2>2. QED
    BY <2>1 DEF OncePerTick, Begin
<1>9. QED
  BY <1>4, <1>8 DEF IInv

\* The one that has the key queues, or fails and the tick is not counted.
LEMMA Queueing ==
  ASSUME IInv, NEW w \in Workers, QueueResync(w) \/ ResyncFails(w)
  PROVE  IInv'
<1> DEFINE t == ran[w]
<1>1. /\ w \in holds /\ holds' = holds \ {w} /\ UNCHANGED <<clock, lock, ran>>
      /\ \/ /\ queued' = [queued EXCEPT ![t] = @ + 1]
            /\ UNCHANGED <<mishaps, mishapCount>>
         \/ /\ UNCHANGED queued
            /\ mishaps' = mishaps \cup {t} /\ mishapCount' = mishapCount + 1
  BY DEF QueueResync, ResyncFails, Mishap
<1>2. t \in Ticks /\ Begin(t) <= clock /\ clock <= Begin(t) + Skew
  BY <1>1 DEF IInv, TypeOK, TicksAreHandledInTime
<1>3. TypeOK'
  BY <1>1, <1>2 DEF IInv, TypeOK
<1>4. TicksAreHandledInTime' /\ LockIsOfATick'
  BY <1>1 DEF IInv, TicksAreHandledInTime, LockIsOfATick, Begin
<1>5. \A u \in Ticks \ {t} : clock < Begin(u) \/ clock > Begin(u) + Skew
  BY <1>2, OneTickAtATime DEF IInv
<1>6. ASSUME t \notin mishaps' PROVE (FirstComes(t))'
  <2>1. queued' = [queued EXCEPT ![t] = @ + 1] /\ t \notin mishaps
    BY <1>1, <1>6
  <2>2. FirstComes(t) /\ Handled(t)
    BY <1>2, <2>1, TicksAreApart DEF IInv, TypeOK, OncePerTick, Handled
  <2>3. lock >= Begin(t) + LockTTL /\ queued[t] = 0 /\ holds = {w}
    BY <1>1, <2>2 DEF FirstComes
  <2>4. queued'[t] = 1 /\ holds' = {}
    BY <1>1, <1>2, <2>1, <2>3 DEF IInv, TypeOK
  <2>5. QED
    BY <1>1, <2>3, <2>4 DEF FirstComes, Begin
<1>7. OncePerTick'
  <2>1. ASSUME NEW u \in Ticks \ mishaps'
        PROVE  /\ clock' < Begin(u) => queued'[u] = 0
               /\ clock' \in Begin(u) .. Begin(u) + Skew => (FirstComes(u))'
               /\ clock' > Begin(u) + Skew => queued'[u] = 1
    <3>1. CASE u = t
      BY <1>1, <1>2, <1>6, <2>1, <3>1, TicksAreApart DEF IInv, TypeOK
    <3>2. CASE u # t
      <4>1. u \in Ticks \ mishaps /\ queued'[u] = queued[u] /\ Begin(u) \in Nat
        BY <1>1, <2>1, <3>2, TicksAreApart DEF IInv, TypeOK
      <4>2. clock' = clock /\ (clock < Begin(u) \/ clock > Begin(u) + Skew)
        BY <1>1, <1>5, <3>2
      <4>3. QED
        BY <4>1, <4>2, TicksAreApart DEF IInv, TypeOK, OncePerTick
    <3>3. QED
      BY <3>1, <3>2
  <2>2. QED
    BY <2>1 DEF OncePerTick, Begin
<1>8. QED
  BY <1>3, <1>4, <1>7 DEF IInv

\* The clock goes on once every worker has fired and nothing is left to queue.
LEMMA Passing ==
  ASSUME IInv, Pass
  PROVE  IInv'
<1>1. /\ holds = {} /\ clock' = clock + 1
      /\ \A t \in Ticks, w \in Workers : clock = Begin(t) + Skew => ran[w] = t
      /\ lock' = lock \/ lock' = 0
      /\ lock = clock + 1 => lock' = 0
      /\ lock # clock + 1 => lock' = lock
      /\ UNCHANGED <<ran, holds, queued, mishaps, mishapCount>>
  BY DEF Pass
<1>2. clock \in Nat /\ lock \in Nat
  BY DEF IInv, TypeOK
<1>3. TypeOK'
  BY <1>1, <1>2 DEF IInv, TypeOK
<1>4. TicksAreHandledInTime'
  <2>1. \A w \in Workers : ran[w] \in Ticks \cup {0} /\ Begin(ran[w]) \in Nat
    BY TicksAreApart DEF IInv, TypeOK
  <2>2. QED
    BY <1>1, <1>2, <2>1 DEF IInv, TicksAreHandledInTime, Begin
<1>5. LockIsOfATick'
  <2>1. SUFFICES ASSUME lock' # 0 PROVE LockIsOfATick'
    BY DEF LockIsOfATick
  <2>2. lock' = lock /\ lock # clock + 1
    BY <1>1, <2>1
  <2>3. QED
    BY <1>1, <1>2, <2>1, <2>2 DEF IInv, LockIsOfATick, Begin
<1>6. ASSUME NEW t \in Ticks \ mishaps
      PROVE  /\ clock + 1 < Begin(t) => queued[t] = 0
             /\ clock + 1 \in Begin(t) .. Begin(t) + Skew => (FirstComes(t))'
             /\ clock + 1 > Begin(t) + Skew => queued[t] = 1
  <2>1. Begin(t) \in Nat /\ t \in Nat /\ t # 0 /\ Skew \in Nat /\ LockTTL \in Nat /\ Skew < LockTTL
    BY TicksAreApart DEF Ticks
  <2>2. CASE clock + 1 < Begin(t)
    BY <1>2, <1>6, <2>1, <2>2 DEF IInv, OncePerTick
  <2>3. CASE clock + 1 = Begin(t)
    <3>1. queued[t] = 0
      BY <1>2, <1>6, <2>1, <2>3 DEF IInv, OncePerTick
    <3>2. ASSUME NEW w \in Workers PROVE ~(ran[w] >= t)
      <4>1. ran[w] \in Ticks \cup {0} /\ (ran[w] = 0 \/ Begin(ran[w]) <= clock)
        BY DEF IInv, TypeOK, TicksAreHandledInTime
      <4>2. ran[w] \in Nat /\ Begin(ran[w]) \in Nat
        BY <4>1, TicksAreApart
      <4>3. ~(t < ran[w])
        BY <1>2, <1>6, <2>1, <2>3, <4>1, <4>2, TicksAreApart
      <4>4. t # ran[w]
        BY <1>2, <2>1, <2>3, <4>1, <4>2
      <4>5. QED
        BY <2>1, <4>2, <4>3, <4>4
    <3>3. QED
      BY <1>1, <1>2, <2>1, <2>3, <3>1, <3>2 DEF FirstComes, Handled
  <2>4. CASE Begin(t) <= clock /\ clock <= Begin(t) + Skew
    <3>1. FirstComes(t)
      BY <1>2, <1>6, <2>1, <2>4 DEF IInv, OncePerTick
    <3>2. lock >= Begin(t) + LockTTL => clock + 1 < Begin(t) + LockTTL + 1
      BY <1>2, <2>1, <2>4
    <3>3. CASE clock + 1 <= Begin(t) + Skew
      <4>1. lock >= Begin(t) + LockTTL => lock' = lock
        BY <1>1, <1>2, <2>1, <3>3
      <4>2. ASSUME ~Handled(t), queued[t] = 0 PROVE (FirstComes(t))'
        BY <1>1, <4>2 DEF FirstComes, Handled
      <4>3. ASSUME lock >= Begin(t) + LockTTL, queued[t] = 1 PROVE (FirstComes(t))'
        BY <1>1, <4>1, <4>3 DEF FirstComes, Begin
      <4>4. (FirstComes(t))'
        BY <1>1, <3>1, <4>2, <4>3 DEF FirstComes
      <4>5. QED
        BY <1>2, <2>1, <2>4, <3>3, <4>4
    <3>4. CASE clock = Begin(t) + Skew
      <4>1. PICK w \in Workers : ran[w] = t
        BY <1>1, <1>6, <3>4, ResyncLockAssumption
      <4>2. Handled(t)
        BY <2>1, <4>1 DEF Handled
      <4>3. queued[t] = 1
        BY <1>1, <3>1, <4>2 DEF FirstComes
      <4>4. QED
        BY <1>2, <2>1, <3>4, <4>3
    <3>5. QED
      BY <1>2, <2>1, <2>4, <3>3, <3>4
  <2>5. CASE clock > Begin(t) + Skew
    BY <1>2, <1>6, <2>1, <2>5 DEF IInv, OncePerTick
  <2>6. QED
    BY <1>2, <2>1, <2>2, <2>3, <2>4, <2>5
<1>7. OncePerTick'
  BY <1>1, <1>6 DEF OncePerTick, Begin
<1>8. QED
  BY <1>3, <1>4, <1>5, <1>7 DEF IInv

-----------------------------------------------------------------------------
\* Every step keeps the invariant.
LEMMA NextIInv == IInv /\ [LockNext]_lockVars => IInv'
<1>1. SUFFICES ASSUME IInv, [LockNext]_lockVars PROVE IInv'
  OBVIOUS
<1>2. CASE LockNext
  BY <1>1, <1>2, Firing, Queueing, Passing DEF LockNext
<1>3. CASE UNCHANGED lockVars
  BY <1>1, <1>3 DEF lockVars, IInv, TypeOK, TicksAreHandledInTime, LockIsOfATick, OncePerTick,
     FirstComes, Handled, Begin
<1>4. QED
  BY <1>1, <1>2, <1>3

\* A tick in which nothing failed queues the resync once (acquireSchedulerLock),
\* for any number of workers and ticks.
THEOREM OncePerTickHolds == LockSpec => []ResyncedOncePerTick
<1>1. IInv => ResyncedOncePerTick
  <2>1. SUFFICES ASSUME IInv, NEW t \in Ticks \ mishaps
        PROVE  queued[t] <= 1 /\ (clock > Begin(t) + Skew => queued[t] = 1)
    BY DEF ResyncedOncePerTick
  <2>2. Begin(t) \in Nat /\ clock \in Nat /\ queued[t] \in Nat
    BY <2>1, TicksAreApart DEF IInv, TypeOK
  <2>3. queued[t] = 0 \/ queued[t] = 1
    BY <2>1, <2>2, TicksAreApart DEF IInv, OncePerTick, FirstComes
  <2>4. QED
    BY <2>1, <2>2, <2>3 DEF IInv, OncePerTick
<1>2. QED
  BY <1>1, InitIInv, NextIInv, PTL DEF LockSpec

-----------------------------------------------------------------------------
(* CJ's tokens. *)

Hours == [kept : Nat, good : Nat, given : Nat]

\* A token is kept for an hour at least; one given for more than an hour is
\* honoured for as long as it is kept.
KeptWhileGood(token) ==
  token.kept > 0 /\ (token.given > 1 => token.good >= token.kept)

CallerSteps == [at : {"rest", "refresh", "authenticate", "store"}] \cup [at : {"access"}, new : Lives]

TokenInv ==
  /\ access = NoToken \/ (access \in Hours /\ KeptWhileGood(access))
  /\ refresh = NoToken \/ (refresh \in Hours /\ KeptWhileGood(refresh))
  /\ caller \in [Callers -> CallerSteps]

\* calculateTTL: what it returns is positive, and what is left when that is more
\* than an hour.
LEMMA TokenIsKeptWhileGood ==
  ASSUME NEW left \in Nat, NEW default \in Nat, default > 1
  PROVE  Token(left, default) \in Hours /\ KeptWhileGood(Token(left, default))
BY DEF Token, CalculateTTL, Hours, KeptWhileGood

\* An hour takes as much from what Redis keeps as from what CJ honours.
LEMMA AgeingKeeps ==
  ASSUME NEW token, token = NoToken \/ (token \in Hours /\ KeptWhileGood(token))
  PROVE  Aged(token) = NoToken \/ (Aged(token) \in Hours /\ KeptWhileGood(Aged(token)))
<1>1. SUFFICES ASSUME token \in Hours, KeptWhileGood(token), token.kept # 1, token # NoToken
      PROVE  Aged(token) \in Hours /\ KeptWhileGood(Aged(token))
  BY DEF Aged
<1>2. /\ token.kept \in Nat /\ token.good \in Nat /\ token.given \in Nat
      /\ token = [kept |-> token.kept, good |-> token.good, given |-> token.given]
  BY <1>1 DEF Hours
<1>3. Aged(token) = [kept |-> token.kept - 1, good |-> IF token.good = 0 THEN 0 ELSE token.good - 1,
                     given |-> token.given]
  BY <1>1, <1>2 DEF Aged
<1>4. token.kept > 1
  BY <1>1, <1>2 DEF KeptWhileGood
<1>5. QED
  BY <1>1, <1>2, <1>3, <1>4 DEF Hours, KeptWhileGood

LEMMA TokenInitInv == TokenInit => TokenInv
BY DEF TokenInit, TokenInv, CallerSteps, Resting

LEMMA TokenNextInv == TokenInv /\ [TokenNext]_tokenVars => TokenInv'
<1>1. SUFFICES ASSUME TokenInv, [TokenNext]_tokenVars PROVE TokenInv'
  OBVIOUS
<1>2. ASSUME NEW c \in Callers, LookAccess(c) PROVE TokenInv'
  BY <1>1, <1>2 DEF LookAccess, Now, TokenInv, CallerSteps
<1>3. ASSUME NEW c \in Callers, Refreshed(c) PROVE TokenInv'
  BY <1>1, <1>3 DEF Refreshed, Now, TokenInv, CallerSteps
<1>4. ASSUME NEW c \in Callers, NotRefreshed(c) PROVE TokenInv'
  BY <1>1, <1>4 DEF NotRefreshed, Now, TokenInv, CallerSteps
<1>5. ASSUME NEW c \in Callers, RefreshLost(c) PROVE TokenInv'
  BY <1>1, <1>5 DEF RefreshLost, Now, TokenInv, CallerSteps
<1>6. ASSUME NEW c \in Callers, Authenticated(c) PROVE TokenInv'
  BY <1>1, <1>6 DEF Authenticated, Now, TokenInv, CallerSteps, Resting
<1>7. ASSUME NEW c \in Callers, StoreAccess(c) PROVE TokenInv'
  <2>1. caller[c].new \in Nat
    BY <1>1, <1>7, CjTokensAssumption DEF StoreAccess, TokenInv, CallerSteps
  <2>2. access' = access \/ (access' \in Hours /\ KeptWhileGood(access'))
    BY <1>7, <2>1, TokenIsKeptWhileGood, CjTokensAssumption DEF StoreAccess
  <2>3. QED
    BY <1>1, <1>7, <2>2 DEF StoreAccess, Now, TokenInv, CallerSteps
<1>8. ASSUME NEW c \in Callers, StoreRefresh(c) PROVE TokenInv'
  <2>1. refresh' = refresh \/ (refresh' \in Hours /\ KeptWhileGood(refresh'))
    BY <1>8, TokenIsKeptWhileGood, CjTokensAssumption DEF StoreRefresh
  <2>2. QED
    BY <1>1, <1>8, <2>1 DEF StoreRefresh, Now, TokenInv, CallerSteps, Resting
<1>9. CASE HourGoes
  BY <1>1, <1>9, AgeingKeeps DEF HourGoes, TokenInv
<1>10. CASE UNCHANGED tokenVars
  BY <1>1, <1>10 DEF tokenVars, TokenInv
<1>11. QED
  BY <1>1, <1>2, <1>3, <1>4, <1>5, <1>6, <1>7, <1>8, <1>9, <1>10 DEF TokenNext

\* A token CJ gave for more than an hour is honoured as long as Redis keeps it
\* (calculateTTL), for any number of requests at once, any terms CJ grants and
\* any default terms of more than an hour.
THEOREM CachedTokenWorksHolds == TokenSpec => []CachedTokenWorks
<1>1. TokenInv => CachedTokenWorks
  BY DEF TokenInv, Hours, KeptWhileGood, CachedTokenWorks
<1>2. QED
  BY <1>1, TokenInitInv, TokenNextInv, PTL DEF TokenSpec

-----------------------------------------------------------------------------
(* The caches over the suppliers' answers. *)

Kept == [asOf : Nat, until : Nat]
Pages == [printful : Nat \cup {Silence}, cj : Nat \cup {Silence}, until : Nat]

ReaderSteps ==
  [at : {"rest", "printful", "tree"}]
  \cup [at : {"keep"}, printful : Nat]
  \cup [at : {"cj"}, printful : Nat \cup {Silence}]
  \cup [at : {"page"}, printful : Nat \cup {Silence}, cj : Nat \cup {Silence}]
  \cup [at : {"plant"}, tree : Nat]

CacheTypeOK ==
  /\ time \in Nat
  /\ catalog \in Kept \cup {Silence}
  /\ categories \in Kept \cup {Silence}
  /\ page \in Pages \cup {Silence}
  /\ reader \in [Readers -> ReaderSteps]

\* What is kept is not over yet, and was kept when the supplier had just said it.
Recent(kept) == kept # Silence => time < kept.until /\ kept.until <= kept.asOf + CatalogTTL

\* A page is cut from a catalog that was still kept.
PageIsRecent ==
  page # Silence =>
    /\ time < page.until
    /\ page.cj # Silence => page.until <= page.cj + PageTTL
    /\ page.printful # Silence => page.until < page.printful + CatalogTTL + PageTTL

\* An answer a request holds has just been given; a catalog it took from Redis
\* was kept then, and no time has gone by.
HoldsRecentWord(r) ==
  /\ reader[r].at = "keep" => reader[r].printful = time
  /\ reader[r].at \in {"cj", "page"} /\ reader[r].printful # Silence =>
       time < reader[r].printful + CatalogTTL
  /\ reader[r].at = "page" /\ reader[r].cj # Silence => reader[r].cj = time
  /\ reader[r].at = "plant" => reader[r].tree = time

CacheInv ==
  /\ CacheTypeOK
  /\ Recent(catalog) /\ Recent(categories) /\ PageIsRecent
  /\ \A r \in Readers : HoldsRecentWord(r)

LEMMA TTLsArePositive == PageTTL \in Nat \ {0} /\ CatalogTTL \in Nat \ {0} /\ Silence \notin Nat
BY SourcingAssumption

LEMMA SourcingInitInv == SourcingInit => CacheInv
BY DEF SourcingInit, CacheInv, CacheTypeOK, Recent, PageIsRecent, HoldsRecentWord, ReaderSteps, AtRest

\* A request's step that touches no cache keeps the invariant when what the
\* request holds after it is recent.
LEMMA ReaderGoes ==
  ASSUME CacheInv, NEW r \in Readers, NEW step \in ReaderSteps, Goes(r, step),
         UNCHANGED <<time, catalog, categories, page>>, HoldsRecentWord(r)'
  PROVE  CacheInv'
<1>1. CacheTypeOK'
  BY DEF CacheInv, CacheTypeOK, Goes
<1>2. ASSUME NEW q \in Readers PROVE HoldsRecentWord(q)'
  <2>1. CASE q = r
    BY <2>1
  <2>2. CASE q # r
    <3>1. reader'[q] = reader[q]
      BY <2>2 DEF CacheInv, CacheTypeOK, Goes
    <3>2. QED
      BY <3>1 DEF CacheInv, HoldsRecentWord
  <2>3. QED
    BY <2>1, <2>2
<1>3. Recent(catalog)' /\ Recent(categories)' /\ PageIsRecent'
  BY DEF CacheInv, Recent, PageIsRecent
<1>4. QED
  BY <1>1, <1>2, <1>3 DEF CacheInv

\* The steps of the search, up to what it keeps.
LEMMA SearchStep ==
  ASSUME CacheInv, NEW r \in Readers,
         AskPage(r) \/ CatalogAnswers(r) \/ CatalogFails(r) \/ CJSearched(r)
         \/ AskCategories(r) \/ TreeRead(r)
  PROVE  CacheInv'
<1> USE TTLsArePositive
<1>1. time \in Nat /\ reader[r] \in ReaderSteps /\ DOMAIN reader = Readers
  BY DEF CacheInv, CacheTypeOK
<1>2. CASE AskPage(r)
  <2>1. CASE catalog = Silence
    BY <1>1, <1>2, <2>1, ReaderGoes DEF AskPage, HoldsRecentWord, ReaderSteps, Goes
  <2>2. CASE catalog # Silence
    <3>1. catalog \in Kept /\ time < catalog.asOf + CatalogTTL
      BY <1>1, <2>2 DEF CacheInv, CacheTypeOK, Kept, Recent
    <3>2. QED
      BY <1>1, <1>2, <2>2, <3>1, ReaderGoes DEF AskPage, HoldsRecentWord, ReaderSteps, Goes, Kept
  <2>3. QED
    BY <2>1, <2>2
<1>3. CASE CatalogAnswers(r)
  BY <1>1, <1>3, ReaderGoes DEF CatalogAnswers, HoldsRecentWord, ReaderSteps, Goes
<1>4. CASE CatalogFails(r)
  BY <1>1, <1>4, ReaderGoes DEF CatalogFails, HoldsRecentWord, ReaderSteps, Goes
<1>5. CASE CJSearched(r)
  <2>1. PICK said \in {time, Silence} :
          Goes(r, [at |-> "page", printful |-> reader[r].printful, cj |-> said])
    BY <1>5 DEF CJSearched
  <2>2. /\ reader[r].printful \in Nat \cup {Silence}
        /\ reader[r].printful # Silence => time < reader[r].printful + CatalogTTL
    BY <1>1, <1>5 DEF CJSearched, CacheInv, HoldsRecentWord, ReaderSteps
  <2>3. QED
    BY <1>1, <1>5, <2>1, <2>2, ReaderGoes DEF CJSearched, HoldsRecentWord, ReaderSteps, Goes
<1>6. CASE AskCategories(r)
  BY <1>1, <1>6, ReaderGoes DEF AskCategories, HoldsRecentWord, ReaderSteps, Goes
<1>7. CASE TreeRead(r)
  BY <1>1, <1>7, ReaderGoes DEF TreeRead, HoldsRecentWord, ReaderSteps, Goes, AtRest
<1>8. QED
  BY <1>2, <1>3, <1>4, <1>5, <1>6, <1>7

\* The steps that keep an answer: it is as recent as what the request holds.
LEMMA KeepingStep ==
  ASSUME CacheInv, NEW r \in Readers, KeepCatalog(r) \/ KeepPage(r) \/ KeepTree(r)
  PROVE  CacheInv'
<1> USE TTLsArePositive
<1>1. time \in Nat /\ reader[r] \in ReaderSteps /\ HoldsRecentWord(r)
  BY DEF CacheInv, CacheTypeOK
<1>2. /\ time' = time
      /\ \E step \in ReaderSteps : Goes(r, step) /\ (step.at = "rest" \/ (step.at = "cj" /\ step.printful = time))
  BY <1>1 DEF KeepCatalog, KeepPage, KeepTree, HoldsRecentWord, ReaderSteps, AtRest
<1>3. ASSUME NEW q \in Readers PROVE HoldsRecentWord(q)'
  BY <1>1, <1>2 DEF CacheInv, CacheTypeOK, HoldsRecentWord, Goes
<1>4. catalog' \in Kept \cup {Silence} /\ Recent(catalog)'
  BY <1>1 DEF KeepCatalog, KeepPage, KeepTree, CacheInv, CacheTypeOK, Recent, HoldsRecentWord, Kept
<1>5. categories' \in Kept \cup {Silence} /\ Recent(categories)'
  BY <1>1 DEF KeepCatalog, KeepPage, KeepTree, CacheInv, CacheTypeOK, Recent, HoldsRecentWord, Kept
<1>6. page' \in Pages \cup {Silence} /\ PageIsRecent'
  <2>1. CASE page' = page
    BY <1>2, <2>1 DEF CacheInv, CacheTypeOK, PageIsRecent
  <2>2. CASE page' # page
    <3>1. /\ reader[r].at = "page"
          /\ page' = [printful |-> reader[r].printful, cj |-> reader[r].cj, until |-> time + PageTTL]
      BY <2>2 DEF KeepCatalog, KeepPage, KeepTree, PageUntil
    <3>2. reader[r].printful \in Nat \cup {Silence} /\ reader[r].cj \in Nat \cup {Silence}
      BY <1>1, <3>1 DEF ReaderSteps
    <3>3. QED
      BY <1>1, <1>2, <3>1, <3>2 DEF HoldsRecentWord, Pages, PageIsRecent
  <2>3. QED
    BY <2>1, <2>2
<1>7. QED
  BY <1>1, <1>2, <1>3, <1>4, <1>5, <1>6 DEF CacheInv, CacheTypeOK, Goes

\* Time passes: Redis drops what is over, and no request holds an answer.
LEMMA PassingTime ==
  ASSUME CacheInv, TimePasses
  PROVE  CacheInv'
<1> USE TTLsArePositive
<1>1. time \in Nat /\ time' = time + 1 /\ reader' = reader
  BY DEF CacheInv, CacheTypeOK, TimePasses
<1>2. ASSUME NEW r \in Readers PROVE HoldsRecentWord(r)'
  BY <1>1, <1>2 DEF TimePasses, HoldsRecentWord
<1>3. catalog' \in Kept \cup {Silence} /\ Recent(catalog)'
  BY <1>1 DEF TimePasses, Left, Expired, CacheInv, CacheTypeOK, Recent, Kept
<1>4. categories' \in Kept \cup {Silence} /\ Recent(categories)'
  BY <1>1 DEF TimePasses, Left, Expired, CacheInv, CacheTypeOK, Recent, Kept
<1>5. page' \in Pages \cup {Silence} /\ PageIsRecent'
  BY <1>1 DEF TimePasses, Left, Expired, CacheInv, CacheTypeOK, PageIsRecent, Pages
<1>6. QED
  BY <1>1, <1>2, <1>3, <1>4, <1>5 DEF CacheInv, CacheTypeOK

LEMMA SourcingNextInv == CacheInv /\ [SourcingNext]_sourcingVars => CacheInv'
<1>1. SUFFICES ASSUME CacheInv, [SourcingNext]_sourcingVars PROVE CacheInv'
  OBVIOUS
<1>2. CASE SourcingNext
  BY <1>1, <1>2, SearchStep, KeepingStep, PassingTime DEF SourcingNext
<1>3. CASE UNCHANGED sourcingVars
  BY <1>1, <1>3 DEF sourcingVars, CacheInv, CacheTypeOK, Recent, PageIsRecent, HoldsRecentWord
<1>4. QED
  BY <1>1, <1>2, <1>3

\* No cache laid over another keeps a supplier's word for good (searchAllSuppliers
\* over getCatalog, getCategories), for any number of requests and any lifetimes:
\* a page is as young as its own lifetime and that of the catalog it was cut from.
THEOREM KeptWordIsRecentHolds == SourcingSpec => []KeptWordIsRecent
<1>1. CacheInv => KeptWordIsRecent
  BY TTLsArePositive
  DEF CacheInv, CacheTypeOK, Recent, PageIsRecent, Kept, Pages, KeptWordIsRecent
<1>2. QED
  BY <1>1, SourcingInitInv, SourcingNextInv, PTL DEF SourcingSpec

-----------------------------------------------------------------------------
(* The order at CJ. *)

CJStates == {"missed", "created", "unpaid", "paid", "shipped"}

Placed == {"options", "correct", "confirm", "pay", "paid", "unpaid"}
Paying == {"pay", "paid", "unpaid"}
Shipping == {"find", "insert", "update"}

Rows == [of : Nat, shipments : Seq({"PENDING", "IN_TRANSIT", "DELIVERED"}), status : {"CONFIRMED", "PLACED"}]

DeskSteps ==
  [at : {"idle", "create", "cancel", "ask"} \cup Placed \cup Shipping, of : Nat, tries : Nat,
   told : {"PENDING", "IN_TRANSIT"}]

SupplyTypeOK ==
  /\ supplied \in Seq(Rows)
  /\ cj \in Seq(CJStates)
  /\ desk \in [Desks -> DeskSteps]
  /\ single \in BOOLEAN /\ whole \in BOOLEAN

\* An order at CJ belongs to one placement, then to one row: whoever was told its
\* number first.
OneOwner ==
  /\ \A d \in Desks : desk[d].at \in Placed =>
       /\ desk[d].of \in DOMAIN cj
       /\ \A e \in Desks : desk[e].at \in Placed /\ desk[e].of = desk[d].of => e = d
       /\ \A k \in DOMAIN supplied : supplied[k].of # desk[d].of
  /\ \A k \in DOMAIN supplied :
       /\ supplied[k].of \in DOMAIN cj
       /\ \A l \in DOMAIN supplied : supplied[l].of = supplied[k].of => l = k

\* A placement is no further than CJ's order is.
PlacedIsReal ==
  \A d \in Desks :
    /\ desk[d].at \in Paying \cup {"confirm"} => cj[desk[d].of] # "missed"
    /\ desk[d].at = "paid" => desk[d].of \in Spent

\* What a look-up was told of a row's shipment stays true, and a shipment it found
\* stays.
TrackedIsReal ==
  \A d \in Desks :
    /\ desk[d].at \in Shipping \cup {"ask"} => desk[d].of \in DOMAIN supplied
    /\ desk[d].at \in Shipping /\ desk[d].told = "IN_TRANSIT" => cj[supplied[desk[d].of].of] = "shipped"
    /\ desk[d].at = "update" => Found(desk[d].of)

RecordInv == SupplyTypeOK /\ OneOwner /\ PlacedIsReal /\ TrackedIsReal /\ RecordedIsReal

\* While requests come in turn: one is under way at most, a placement finds no row,
\* and what CJ was paid for is recorded or still in the hands of its placement.
TurnByTurn ==
  single =>
    /\ \A d, e \in Desks : desk[d] # Free /\ desk[e] # Free => d = e
    /\ Len(supplied) <= 1
    /\ \A d \in Desks : desk[d].at \in Placed \cup {"create"} => supplied = <<>>
    /\ \A d \in Desks : desk[d].at = "insert" => ~Found(desk[d].of)
    /\ \A k \in DOMAIN supplied : Len(supplied[k].shipments) <= 1
    /\ whole => \A k \in Spent :
         \/ \E l \in DOMAIN supplied : supplied[l].of = k
         \/ \E d \in Desks : desk[d].at \in Paying /\ desk[d].of = k

\* CJ's order goes on, or CJ opens another: nothing is taken back.
CJGoesOn ==
  /\ cj' \in Seq(CJStates)
  /\ DOMAIN cj \subseteq DOMAIN cj'
  /\ \A k \in DOMAIN cj :
       /\ cj[k] # "missed" => cj'[k] # "missed"
       /\ k \in Spent => k \in Spent'
       /\ cj[k] = "shipped" => cj'[k] = "shipped"

LEMMA MovedGoesOn ==
  ASSUME cj \in Seq(CJStates), NEW of \in DOMAIN cj, NEW from, NEW to \in CJStates \ {"missed"},
         from \notin {"paid", "shipped"} \/ (from = "paid" /\ to = "shipped"), Moved(of, from, to)
  PROVE  /\ CJGoesOn
         /\ cj[of] = from /\ cj'[of] = to /\ DOMAIN cj' = DOMAIN cj
         /\ \A k \in DOMAIN cj \ {of} : cj'[k] = cj[k]
<1>1. /\ DOMAIN cj = 1 .. Len(cj) /\ DOMAIN cj' = 1 .. Len(cj')
      /\ cj' \in Seq(CJStates) /\ Len(cj') = Len(cj)
      /\ \A k \in 1 .. Len(cj) : cj'[k] = IF k = of THEN to ELSE cj[k]
  BY ExceptSeq DEF Moved
<1>2. cj[of] = from
  BY DEF Moved
<1>3. QED
  BY <1>1, <1>2 DEF CJGoesOn, Spent

LEMMA CreatedGoesOn ==
  ASSUME cj \in Seq(CJStates), CreateOrder
  PROVE  /\ CJGoesOn
         /\ Len(cj') \in DOMAIN cj' \ DOMAIN cj /\ cj'[Len(cj')] \in {"missed", "created"}
         /\ DOMAIN cj' = DOMAIN cj \cup {Len(cj')}
         /\ \A k \in DOMAIN cj : cj'[k] = cj[k]
<1>1. PICK c \in {"missed", "created"} : cj' = Append(cj, c)
  BY DEF CreateOrder
<1>2. /\ DOMAIN cj = 1 .. Len(cj) /\ Len(cj) \in Nat
      /\ cj' \in Seq(CJStates) /\ Len(cj') = Len(cj) + 1 /\ DOMAIN cj' = 1 .. Len(cj')
      /\ cj'[Len(cj')] = c
      /\ \A k \in 1 .. Len(cj) : cj'[k] = cj[k]
  BY <1>1, AppendProperties DEF CJStates
<1>3. QED
  BY <1>1, <1>2 DEF CJGoesOn, Spent

\* What a request holds after a step is as sound as RecordInv asks: it goes on with
\* its own order at CJ, or one CJ has just opened.
StepIsSound(d, step) ==
  /\ step \in DeskSteps
  /\ step.at \in Placed =>
       /\ step.of \in DOMAIN cj'
       /\ (desk[d].at \in Placed /\ step.of = desk[d].of) \/ step.of \notin DOMAIN cj
  /\ step.at \in Paying \cup {"confirm"} => cj'[step.of] # "missed"
  /\ step.at = "paid" => step.of \in Spent'
  /\ step.at \in Shipping \cup {"ask"} => step.of \in DOMAIN supplied
  /\ step.at \in Shipping /\ step.told = "IN_TRANSIT" => cj[supplied[step.of].of] = "shipped"
  /\ step.at = "update" => Found(step.of)

\* A step that changes no row keeps the invariant when its request is sound after it.
LEMMA RowsUntouched ==
  ASSUME RecordInv, CJGoesOn, supplied' = supplied, NEW d \in Desks, NEW step,
         To(d, step), StepIsSound(d, step), single' \in BOOLEAN, whole' \in BOOLEAN
  PROVE  RecordInv'
<1>1. /\ desk \in [Desks -> DeskSteps] /\ desk' \in [Desks -> DeskSteps]
      /\ desk'[d] = step /\ \A e \in Desks \ {d} : desk'[e] = desk[e]
  BY DEF RecordInv, SupplyTypeOK, To, StepIsSound
<1>2. SupplyTypeOK'
  BY <1>1 DEF RecordInv, SupplyTypeOK, CJGoesOn
<1>3. \A k \in DOMAIN supplied : supplied[k].of \in DOMAIN cj
  BY DEF RecordInv, OneOwner
<1>4. OneOwner'
  <2>1. ASSUME NEW e \in Desks, desk'[e].at \in Placed PROVE desk'[e].of \in DOMAIN cj'
    BY <1>1, <2>1 DEF RecordInv, OneOwner, CJGoesOn, StepIsSound
  <2>2. ASSUME NEW e \in Desks, desk'[e].at \in Placed, NEW k \in DOMAIN supplied
        PROVE  supplied[k].of # desk'[e].of
    BY <1>1, <1>3, <2>2 DEF RecordInv, OneOwner, StepIsSound
  <2>3. ASSUME NEW e \in Desks, NEW f \in Desks, desk'[e].at \in Placed, desk'[f].at \in Placed,
               desk'[e].of = desk'[f].of
        PROVE  e = f
    <3>1. CASE e # d /\ f # d
      BY <1>1, <2>3, <3>1 DEF RecordInv, OneOwner
    <3>2. CASE e = d /\ f # d
      BY <1>1, <2>3, <3>2 DEF RecordInv, OneOwner, StepIsSound
    <3>3. CASE e # d /\ f = d
      BY <1>1, <2>3, <3>3 DEF RecordInv, OneOwner, StepIsSound
    <3>4. QED
      BY <3>1, <3>2, <3>3
  <2>4. \A k \in DOMAIN supplied : supplied[k].of \in DOMAIN cj'
    BY <1>3 DEF CJGoesOn
  <2>5. QED
    BY <2>1, <2>2, <2>3, <2>4 DEF RecordInv, OneOwner
<1>5. PlacedIsReal'
  BY <1>1 DEF RecordInv, PlacedIsReal, OneOwner, CJGoesOn, StepIsSound, Placed, Paying
<1>6. TrackedIsReal'
  BY <1>1, <1>3 DEF RecordInv, TrackedIsReal, CJGoesOn, StepIsSound, Found
<1>7. RecordedIsReal'
  BY <1>3 DEF RecordInv, RecordedIsReal, CJGoesOn
<1>8. QED
  BY <1>2, <1>4, <1>5, <1>6, <1>7 DEF RecordInv

\* What a call CJ takes does to its order, and that the request goes on with it.
LEMMA CJTakesGoesOn ==
  ASSUME RecordInv, NEW d \in Desks, CJTakes(desk[d])
  PROVE  /\ CJGoesOn
         /\ desk[d].at = "create" =>
              /\ Len(cj') \in DOMAIN cj' \ DOMAIN cj
              /\ DOMAIN cj' = DOMAIN cj \cup {Len(cj')}
              /\ \A k \in DOMAIN cj : cj'[k] = cj[k]
              /\ cj'[Len(cj')] \in {"missed", "created"}
         /\ desk[d].at # "create" =>
              /\ desk[d].at \in {"correct", "confirm", "pay"}
              /\ desk[d].of \in DOMAIN cj
              /\ cj'[desk[d].of] # "missed"
              /\ DOMAIN cj' = DOMAIN cj
              /\ \A k \in DOMAIN cj \ {desk[d].of} : cj'[k] = cj[k]
              /\ cj'[desk[d].of] = IF desk[d].at = "pay" THEN "paid"
                                   ELSE IF desk[d].at = "confirm" THEN "unpaid" ELSE "created"
<1>1. cj \in Seq(CJStates) /\ (desk[d].at \in Placed => desk[d].of \in DOMAIN cj)
  BY DEF RecordInv, SupplyTypeOK, OneOwner
<1>2. CASE desk[d].at = "create" /\ CreateOrder
  BY <1>1, <1>2, CreatedGoesOn
<1>3. CASE desk[d].at = "correct" /\ UpdateLogistics(desk[d].of)
  BY <1>1, <1>3, MovedGoesOn DEF UpdateLogistics, Placed, CJStates
<1>4. CASE desk[d].at = "confirm" /\ ConfirmOrder(desk[d].of)
  BY <1>1, <1>4, MovedGoesOn DEF ConfirmOrder, Placed, CJStates
<1>5. CASE desk[d].at = "pay" /\ PayBalance(desk[d].of)
  BY <1>1, <1>5, MovedGoesOn DEF PayBalance, Placed, CJStates
<1>6. QED
  BY <1>2, <1>3, <1>4, <1>5 DEF CJTakes

LEMMA StoodStill == ASSUME RecordInv, cj' = cj PROVE CJGoesOn
BY DEF RecordInv, SupplyTypeOK, CJGoesOn, Spent

\* Free again, or trying the same call again: sound whatever CJ did meanwhile.
LEMMA RetryIsSound ==
  ASSUME RecordInv, CJGoesOn, NEW d \in Desks, Retry(d) \/ To(d, Free)
  PROVE  \E step : To(d, step) /\ StepIsSound(d, step)
<1>1. CASE To(d, Free)
  <2>1. StepIsSound(d, Free)
    BY DEF StepIsSound, Free, Step, DeskSteps, Placed, Paying, Shipping
  <2>2. QED
    BY <1>1, <2>1
<1>2. CASE Retry(d) /\ desk[d].tries < MaxTries
  <2> DEFINE step == [desk[d] EXCEPT !.tries = @ + 1]
  <2>1. desk[d] \in DeskSteps
    BY DEF RecordInv, SupplyTypeOK
  <2>2. /\ step \in DeskSteps
        /\ step.at = desk[d].at /\ step.of = desk[d].of /\ step.told = desk[d].told
    BY <2>1 DEF DeskSteps
  <2>3. StepIsSound(d, step)
    BY <2>1, <2>2 DEF RecordInv, OneOwner, PlacedIsReal, TrackedIsReal, CJGoesOn, StepIsSound, Placed, Paying
  <2>4. QED
    BY <1>2, <2>3 DEF Retry
<1>3. QED
  BY <1>1, <1>2 DEF Retry

\* The steps of a placement that call CJ, and their failures.
LEMMA CallIsSound ==
  ASSUME RecordInv, NEW d \in Desks,
         Unreached(d) \/ AnswerLost(d) \/ Accepted(d) \/ Refused(d) \/ Unnamed(d)
         \/ ReadOptions(d) \/ Stop(d)
  PROVE  CJGoesOn /\ supplied' = supplied /\ \E step : To(d, step) /\ StepIsSound(d, step)
<1>1. CASE Unreached(d) \/ Stop(d)
  BY <1>1, StoodStill, RetryIsSound DEF Unreached, Stop
<1>2. CASE AnswerLost(d)
  BY <1>2, CJTakesGoesOn, RetryIsSound DEF AnswerLost
<1>3. CASE Accepted(d)
  <2>1. StepIsSound(d, Onward(desk[d]))
    <3>1. Onward(desk[d]) \in DeskSteps
      BY <1>3, CJTakesGoesOn DEF RecordInv, SupplyTypeOK, Accepted, Calls, CJGoesOn, Onward, Step, DeskSteps, Placed
    <3>2. QED
      BY <1>3, <3>1, CJTakesGoesOn DEF Accepted, Calls, StepIsSound, Onward, Step, Placed, Paying, Shipping, Spent
  <2>2. QED
    BY <1>3, <2>1, CJTakesGoesOn DEF Accepted
<1>4. CASE Refused(d)
  <2>1. StepIsSound(d, Undone(desk[d]))
    <3>1. Undone(desk[d]) \in DeskSteps
      BY DEF RecordInv, SupplyTypeOK, Undone, Free, Step, DeskSteps, Placed
    <3>2. QED
      BY <1>4, <3>1 DEF RecordInv, OneOwner, PlacedIsReal, Refused, Calls, StepIsSound, Undone, Free, Step, Placed,
         Paying, Shipping
  <2>2. QED
    BY <1>4, <2>1, StoodStill DEF Refused
<1>5. CASE Unnamed(d)
  BY <1>5, CreatedGoesOn, RetryIsSound DEF Unnamed, RecordInv, SupplyTypeOK
<1>6. CASE ReadOptions(d)
  <2>1. CASE To(d, Free)
    BY <1>6, <2>1, StoodStill, RetryIsSound DEF ReadOptions
  <2>2. CASE To(d, Step("correct", desk[d].of))
    <3>1. StepIsSound(d, Step("correct", desk[d].of))
      BY <1>6 DEF RecordInv, SupplyTypeOK, OneOwner, ReadOptions, StepIsSound, Step, DeskSteps, Placed, Paying, Shipping
    <3>2. QED
      BY <1>6, <2>2, <3>1, StoodStill DEF ReadOptions
  <2>3. QED
    BY <1>6, <2>1, <2>2 DEF ReadOptions
<1>7. QED
  BY <1>1, <1>2, <1>3, <1>4, <1>5, <1>6

\* The steps that begin a request, and those of a look-up up to what it writes.
LEMMA ReadIsSound ==
  ASSUME RecordInv, NEW d \in Desks,
         AskPlace(d) \/ AskCancel(d) \/ Cancel(d) \/ TrackStale(d) \/ Tracked(d) \/ FindShipment(d)
         \/ \E k \in DOMAIN supplied : AskTracking(d, k)
  PROVE  CJGoesOn /\ supplied' = supplied /\ \E step : To(d, step) /\ StepIsSound(d, step)
<1>1. cj' = cj /\ supplied' = supplied
  BY DEF AskPlace, AskCancel, Cancel, TrackStale, Tracked, FindShipment, AskTracking
<1>2. CJGoesOn
  BY <1>1, StoodStill
<1>3. desk[d] \in DeskSteps /\ supplied \in Seq(Rows) /\ DOMAIN supplied \subseteq Nat
  BY DEF RecordInv, SupplyTypeOK
<1>4. CASE AskPlace(d) \/ AskCancel(d)
  BY <1>2, <1>4 DEF AskPlace, AskCancel, StepIsSound, Step, DeskSteps, Placed, Paying, Shipping
<1>5. CASE Cancel(d) \/ TrackStale(d)
  BY <1>2, <1>5, RetryIsSound DEF Cancel, TrackStale
<1>6. CASE Tracked(d)
  <2> DEFINE step == [Step("find", desk[d].of) EXCEPT
                        !.told = IF cj[supplied[desk[d].of].of] = "shipped" THEN "IN_TRANSIT" ELSE "PENDING"]
  <2>1. step \in DeskSteps
    BY <1>3 DEF Step, DeskSteps, Shipping
  <2>2. StepIsSound(d, step)
    BY <1>6, <2>1 DEF Tracked, RecordInv, TrackedIsReal, StepIsSound, Step, Placed, Paying, Shipping
  <2>3. QED
    BY <1>1, <1>2, <1>6, <2>2 DEF Tracked
<1>7. CASE FindShipment(d)
  <2> DEFINE step == [desk[d] EXCEPT !.at = IF Found(desk[d].of) THEN "update" ELSE "insert"]
  <2>1. step \in DeskSteps
    BY <1>3 DEF DeskSteps, Shipping
  <2>2. StepIsSound(d, step)
    BY <1>3, <1>7, <2>1 DEF FindShipment, RecordInv, TrackedIsReal, StepIsSound, DeskSteps, Placed, Paying, Shipping
  <2>3. QED
    BY <1>1, <1>2, <1>7, <2>2 DEF FindShipment
<1>8. ASSUME NEW k \in DOMAIN supplied, AskTracking(d, k) PROVE \E step : To(d, step) /\ StepIsSound(d, step)
  BY <1>2, <1>3, <1>8 DEF AskTracking, StepIsSound, Step, DeskSteps, Placed, Paying, Shipping
<1>9. QED
  BY <1>1, <1>2, <1>4, <1>5, <1>6, <1>7, <1>8

\* A placement's record: the row takes over the order from the request.
LEMMA Recording ==
  ASSUME RecordInv, NEW d \in Desks, Record(d), single' \in BOOLEAN, whole' \in BOOLEAN
  PROVE  RecordInv'
<1> DEFINE row == [of |-> desk[d].of, shipments |-> <<>>,
                   status |-> IF desk[d].at = "paid" THEN "CONFIRMED" ELSE "PLACED"]
<1>1. /\ supplied \in Seq(Rows) /\ desk[d] \in DeskSteps /\ cj' = cj
      /\ supplied' = Append(supplied, row)
      /\ desk[d].at \in {"paid", "unpaid"}
  BY DEF RecordInv, SupplyTypeOK, Record
<1>2. row \in Rows
  BY <1>1 DEF Rows, DeskSteps
<1>3. /\ supplied' \in Seq(Rows) /\ DOMAIN supplied = 1 .. Len(supplied)
      /\ DOMAIN supplied' = 1 .. Len(supplied) + 1 /\ Len(supplied) \in Nat
      /\ supplied'[Len(supplied) + 1] = row
      /\ \A k \in DOMAIN supplied : supplied'[k] = supplied[k]
  BY <1>1, <1>2, AppendProperties
<1>4. /\ desk \in [Desks -> DeskSteps] /\ desk' \in [Desks -> DeskSteps]
      /\ desk'[d] = Free /\ \A e \in Desks \ {d} : desk'[e] = desk[e]
  BY DEF RecordInv, SupplyTypeOK, Record, To, Free, Step, DeskSteps
<1>5. SupplyTypeOK'
  BY <1>1, <1>3, <1>4 DEF RecordInv, SupplyTypeOK
<1>6. OneOwner'
  <2>1. ASSUME NEW e \in Desks, desk'[e].at \in Placed
        PROVE  /\ desk'[e].of \in DOMAIN cj'
               /\ \A f \in Desks : desk'[f].at \in Placed /\ desk'[f].of = desk'[e].of => f = e
               /\ \A k \in DOMAIN supplied' : supplied'[k].of # desk'[e].of
    <3>1. e # d /\ desk'[e] = desk[e]
      BY <1>4, <2>1 DEF Free, Step, Placed
    <3>2. desk[e].of # desk[d].of
      BY <1>1, <2>1, <3>1 DEF RecordInv, OneOwner, Placed
    <3>3. \A f \in Desks : desk'[f].at \in Placed => f # d
      BY <1>4 DEF Free, Step, Placed
    <3>4. QED
      BY <1>1, <1>3, <1>4, <2>1, <3>1, <3>2, <3>3 DEF RecordInv, OneOwner
  <2>2. ASSUME NEW k \in DOMAIN supplied'
        PROVE  /\ supplied'[k].of \in DOMAIN cj'
               /\ \A l \in DOMAIN supplied' : supplied'[l].of = supplied'[k].of => l = k
    <3>1. desk[d].of \in DOMAIN cj /\ \A l \in DOMAIN supplied : supplied[l].of # desk[d].of
      BY <1>1 DEF RecordInv, OneOwner, Placed
    <3>2. QED
      BY <1>1, <1>3, <3>1 DEF RecordInv, OneOwner
  <2>3. QED
    BY <2>1, <2>2 DEF OneOwner
<1>7. PlacedIsReal'
  BY <1>1, <1>4 DEF RecordInv, PlacedIsReal, Free, Step, Paying, Spent
<1>8. TrackedIsReal'
  BY <1>1, <1>3, <1>4 DEF RecordInv, TrackedIsReal, Free, Step, Shipping, Found
<1>9. RecordedIsReal'
  <2>1. ASSUME NEW k \in DOMAIN supplied'
        PROVE  /\ cj'[supplied'[k].of] # "missed"
               /\ supplied'[k].status = "CONFIRMED" => supplied'[k].of \in Spent'
               /\ \A i \in DOMAIN supplied'[k].shipments :
                    supplied'[k].shipments[i] = "IN_TRANSIT" => cj'[supplied'[k].of] = "shipped"
    BY <1>1, <1>3 DEF RecordInv, PlacedIsReal, RecordedIsReal, Paying, Spent
  <2>2. QED
    BY <1>6, <2>1 DEF OneOwner, RecordedIsReal
<1>10. QED
  BY <1>5, <1>6, <1>7, <1>8, <1>9 DEF RecordInv

\* A write over the shipments of one row keeps the invariant when what is written
\* is true and takes no shipment away.
LEMMA ShipmentWritten ==
  ASSUME RecordInv, NEW k \in DOMAIN supplied, NEW new \in Seq({"PENDING", "IN_TRANSIT", "DELIVERED"}),
         supplied' = [supplied EXCEPT ![k].shipments = new], new # <<>>,
         \A i \in DOMAIN new : new[i] = "IN_TRANSIT" => cj[supplied[k].of] = "shipped",
         cj' = cj, desk' = desk \/ (\E d \in Desks : To(d, Free)), single' \in BOOLEAN, whole' \in BOOLEAN
  PROVE  /\ RecordInv'
         /\ DOMAIN supplied' = DOMAIN supplied /\ supplied'[k].shipments = new
         /\ Len(supplied') = Len(supplied)
         /\ \A l \in DOMAIN supplied : supplied'[l].of = supplied[l].of
         /\ \A l \in DOMAIN supplied \ {k} : supplied'[l] = supplied[l]
<1>1. supplied \in Seq(Rows) /\ DOMAIN supplied = 1 .. Len(supplied) /\ supplied[k] \in Rows
  BY DEF RecordInv, SupplyTypeOK
<1>2. [supplied[k] EXCEPT !.shipments = new] \in Rows
  BY <1>1 DEF Rows
<1>3. supplied' = [supplied EXCEPT ![k] = [supplied[k] EXCEPT !.shipments = new]]
  BY <1>1
<1>4. /\ supplied' \in Seq(Rows) /\ Len(supplied') = Len(supplied)
      /\ \A l \in 1 .. Len(supplied) :
           supplied'[l] = IF l = k THEN [supplied[k] EXCEPT !.shipments = new] ELSE supplied[l]
  BY <1>1, <1>2, <1>3, ExceptSeq
<1>5. /\ DOMAIN supplied' = DOMAIN supplied
      /\ supplied'[k].shipments = new
      /\ \A l \in DOMAIN supplied : supplied'[l].of = supplied[l].of /\ supplied'[l].status = supplied[l].status
      /\ \A l \in DOMAIN supplied \ {k} : supplied'[l] = supplied[l]
  <2>1. DOMAIN supplied' = 1 .. Len(supplied')
    BY <1>4
  <2>2. /\ [supplied[k] EXCEPT !.shipments = new].of = supplied[k].of
        /\ [supplied[k] EXCEPT !.shipments = new].status = supplied[k].status
        /\ [supplied[k] EXCEPT !.shipments = new].shipments = new
    BY <1>1 DEF Rows
  <2>3. QED
    BY <1>1, <1>4, <2>1, <2>2
<1>6. /\ desk \in [Desks -> DeskSteps] /\ desk' \in [Desks -> DeskSteps]
      /\ \A e \in Desks : desk'[e] = desk[e] \/ desk'[e] = Free
  <2>1. desk \in [Desks -> DeskSteps] /\ Free \in DeskSteps
    BY DEF RecordInv, SupplyTypeOK, Free, Step, DeskSteps
  <2>2. CASE desk' = desk
    BY <2>1, <2>2
  <2>3. ASSUME NEW d \in Desks, desk' = [desk EXCEPT ![d] = Free]
        PROVE  /\ desk' \in [Desks -> DeskSteps]
               /\ \A e \in Desks : desk'[e] = desk[e] \/ desk'[e] = Free
    BY <2>1, <2>3
  <2>4. QED
    BY <2>1, <2>2, <2>3 DEF To
<1>7. Free.at = "idle"
  BY DEF Free, Step
<1>8. SupplyTypeOK'
  BY <1>4, <1>6 DEF RecordInv, SupplyTypeOK
<1>9. OneOwner'
  BY <1>5, <1>6, <1>7 DEF RecordInv, OneOwner, Placed
<1>10. PlacedIsReal'
  BY <1>6, <1>7 DEF RecordInv, PlacedIsReal, Paying, Spent
<1>11. TrackedIsReal'
  BY <1>5, <1>6, <1>7 DEF RecordInv, TrackedIsReal, Shipping, Found
<1>12. RecordedIsReal'
  BY <1>5 DEF RecordInv, RecordedIsReal, Spent
<1>13. QED
  BY <1>4, <1>5, <1>8, <1>9, <1>10, <1>11, <1>12 DEF RecordInv

\* upsertShipmentFromTracking and updateShipment write one shipment: the first of
\* the row they found, or one more.
LEMMA ShipmentIsWritten ==
  ASSUME RecordInv, NEW k \in DOMAIN supplied, NEW word \in {"PENDING", "IN_TRANSIT", "DELIVERED"}
  PROVE  LET old == supplied[k].shipments
             added == Append(old, word)
             over == [old EXCEPT ![1] = word]
             S == {"PENDING", "IN_TRANSIT", "DELIVERED"}
         IN  /\ added \in Seq(S) /\ added # <<>> /\ Len(added) = Len(old) + 1
             /\ \A i \in DOMAIN added : added[i] = word \/ (i \in DOMAIN old /\ added[i] = old[i])
             /\ old # <<>> =>
                  /\ over \in Seq(S) /\ over # <<>> /\ Len(over) = Len(old)
                  /\ \A i \in DOMAIN over : over[i] = word \/ (i \in DOMAIN old /\ over[i] = old[i])
<1> DEFINE old == supplied[k].shipments
           S == {"PENDING", "IN_TRANSIT", "DELIVERED"}
<1>0. supplied[k] \in Rows
  BY DEF RecordInv, SupplyTypeOK
<1>1. old \in Seq(S)
  BY <1>0 DEF Rows
<1>2. Len(old) \in Nat /\ DOMAIN old = 1 .. Len(old) /\ (old # <<>> => 1 \in 1 .. Len(old))
  BY <1>1
<1> HIDE DEF old, S
<1>3. word \in S
  BY DEF S
<1>4. /\ Append(old, word) \in Seq(S) /\ Len(Append(old, word)) = Len(old) + 1
      /\ \A i \in DOMAIN Append(old, word) :
           Append(old, word)[i] = word \/ (i \in DOMAIN old /\ Append(old, word)[i] = old[i])
  BY <1>1, <1>2, <1>3, AppendProperties
<1>5. ASSUME old # <<>>
      PROVE  LET over == [old EXCEPT ![1] = word]
             IN  /\ over \in Seq(S) /\ Len(over) = Len(old)
                 /\ \A i \in DOMAIN over : over[i] = word \/ (i \in DOMAIN old /\ over[i] = old[i])
  BY <1>1, <1>2, <1>3, <1>5, ExceptSeq
<1>6. \A s \in Seq(S) : Len(s) > 0 => s # <<>>
  OBVIOUS
<1>7. old # <<>> => Len(old) > 0
  BY <1>2
<1>8. Append(old, word) # <<>> /\ (old # <<>> => [old EXCEPT ![1] = word] # <<>>)
  BY <1>2, <1>4, <1>5, <1>6, <1>7
<1>9. QED
  BY <1>4, <1>5, <1>8 DEF old, S

LEMMA WritingKeeps ==
  ASSUME RecordInv, NEW d \in Desks, WriteShipment(d), single' \in BOOLEAN, whole' \in BOOLEAN
  PROVE  LET k == desk[d].of
         IN  /\ RecordInv'
             /\ k \in DOMAIN supplied /\ DOMAIN supplied' = DOMAIN supplied /\ Len(supplied') = Len(supplied)
             /\ \A l \in DOMAIN supplied : supplied'[l].of = supplied[l].of
             /\ \A l \in DOMAIN supplied \ {k} : supplied'[l] = supplied[l]
             /\ Len(supplied'[k].shipments) =
                  Len(supplied[k].shipments) + IF desk[d].at = "insert" THEN 1 ELSE 0
<1> DEFINE k == desk[d].of
<1>1. /\ cj' = cj /\ To(d, Free)
      /\ desk[d].told \in {"PENDING", "IN_TRANSIT"}
      /\ desk[d].at \in {"insert", "update"}
  BY DEF WriteShipment, RecordInv, SupplyTypeOK, DeskSteps
<1>2. /\ k \in DOMAIN supplied
      /\ desk[d].told = "IN_TRANSIT" => cj[supplied[k].of] = "shipped"
      /\ desk[d].at = "update" => supplied[k].shipments # <<>>
  BY <1>1 DEF RecordInv, TrackedIsReal, Shipping, Found
<1> HIDE DEF k
<1>3. CASE desk[d].at = "insert"
  <2> DEFINE new == Append(supplied[k].shipments, desk[d].told)
  <2>1. supplied' = [supplied EXCEPT ![k].shipments = new]
    BY <1>3 DEF WriteShipment, k
  <2>2. /\ new \in Seq({"PENDING", "IN_TRANSIT", "DELIVERED"}) /\ new # <<>>
        /\ Len(new) = Len(supplied[k].shipments) + 1
        /\ \A i \in DOMAIN new :
             new[i] = desk[d].told \/ (i \in DOMAIN supplied[k].shipments /\ new[i] = supplied[k].shipments[i])
    BY <1>1, <1>2, ShipmentIsWritten
  <2>3. \A i \in DOMAIN new : new[i] = "IN_TRANSIT" => cj[supplied[k].of] = "shipped"
    BY <1>2, <2>2 DEF RecordInv, RecordedIsReal
  <2> HIDE DEF new
  <2>4. QED
    BY <1>1, <1>2, <1>3, <2>1, <2>2, <2>3, ShipmentWritten DEF k
<1>4. CASE desk[d].at = "update"
  <2> DEFINE new == [supplied[k].shipments EXCEPT ![1] = desk[d].told]
  <2>1. supplied' = [supplied EXCEPT ![k].shipments = new]
    BY <1>2, <1>4 DEF WriteShipment, k
  <2>2. /\ new \in Seq({"PENDING", "IN_TRANSIT", "DELIVERED"}) /\ new # <<>>
        /\ Len(new) = Len(supplied[k].shipments) + 0
        /\ \A i \in DOMAIN new :
             new[i] = desk[d].told \/ (i \in DOMAIN supplied[k].shipments /\ new[i] = supplied[k].shipments[i])
    BY <1>1, <1>2, <1>4, ShipmentIsWritten
  <2>3. \A i \in DOMAIN new : new[i] = "IN_TRANSIT" => cj[supplied[k].of] = "shipped"
    BY <1>2, <2>2 DEF RecordInv, RecordedIsReal
  <2> HIDE DEF new
  <2>4. QED
    BY <1>1, <1>2, <1>4, <2>1, <2>2, <2>3, ShipmentWritten DEF k
<1>5. QED
  BY <1>1, <1>3, <1>4

LEMMA DeliveringKeeps ==
  ASSUME RecordInv, NEW k \in DOMAIN supplied, StaffDeliver(k), single' \in BOOLEAN, whole' \in BOOLEAN
  PROVE  /\ RecordInv'
         /\ DOMAIN supplied' = DOMAIN supplied /\ Len(supplied') = Len(supplied)
         /\ \A l \in DOMAIN supplied : supplied'[l].of = supplied[l].of
         /\ \A l \in DOMAIN supplied : Len(supplied'[l].shipments) = Len(supplied[l].shipments)
<1> DEFINE new == [supplied[k].shipments EXCEPT ![1] = "DELIVERED"]
<1>1. supplied' = [supplied EXCEPT ![k].shipments = new] /\ cj' = cj /\ desk' = desk
  BY DEF StaffDeliver
<1>2. /\ new \in Seq({"PENDING", "IN_TRANSIT", "DELIVERED"}) /\ new # <<>>
      /\ Len(new) = Len(supplied[k].shipments)
      /\ \A i \in DOMAIN new :
           new[i] = "DELIVERED" \/ (i \in DOMAIN supplied[k].shipments /\ new[i] = supplied[k].shipments[i])
  BY ShipmentIsWritten DEF StaffDeliver, Found
<1>3. \A i \in DOMAIN new : new[i] = "IN_TRANSIT" => cj[supplied[k].of] = "shipped"
  BY <1>2 DEF RecordInv, RecordedIsReal
<1> HIDE DEF new
<1>4. QED
  BY <1>1, <1>2, <1>3, ShipmentWritten

LEMMA ShippingKeeps ==
  ASSUME RecordInv, NEW k \in DOMAIN cj, CJShips(k), single' \in BOOLEAN, whole' \in BOOLEAN
  PROVE  RecordInv' /\ CJGoesOn /\ Spent' = Spent
<1>1. /\ CJGoesOn /\ cj[k] = "paid" /\ cj'[k] = "shipped" /\ DOMAIN cj' = DOMAIN cj
      /\ \A l \in DOMAIN cj \ {k} : cj'[l] = cj[l]
  BY MovedGoesOn DEF CJShips, RecordInv, SupplyTypeOK, CJStates
<1>2. supplied' = supplied /\ desk' = desk
  BY DEF CJShips
<1>3. Spent' = Spent
  BY <1>1 DEF Spent
<1>4. RecordInv'
  BY <1>1, <1>2, <1>3 DEF RecordInv, SupplyTypeOK, OneOwner, PlacedIsReal, TrackedIsReal, RecordedIsReal, CJGoesOn,
     Placed, Paying, Found
<1>5. QED
  BY <1>1, <1>3, <1>4

\* Every step keeps RecordInv, whatever the histories say.
LEMMA SupplyNextRecordInv == RecordInv /\ [SupplyNext]_supplyVars => RecordInv'
<1>1. SUFFICES ASSUME RecordInv, [SupplyNext]_supplyVars PROVE RecordInv'
  OBVIOUS
<1>2. CASE UNCHANGED supplyVars
  BY <1>1, <1>2 DEF supplyVars, RecordInv, SupplyTypeOK, OneOwner, PlacedIsReal, TrackedIsReal, RecordedIsReal,
     Spent, Found
<1>3. ASSUME SupplyNext PROVE RecordInv'
  <2>1. SupplyStep /\ single' \in BOOLEAN /\ whole' \in BOOLEAN
    BY <1>1, <1>3 DEF SupplyNext, RecordInv, SupplyTypeOK
  <2>2. ASSUME NEW d \in Desks,
               \/ Unreached(d) \/ AnswerLost(d) \/ Accepted(d) \/ Refused(d) \/ Unnamed(d)
               \/ ReadOptions(d) \/ Stop(d)
        PROVE  RecordInv'
    BY <1>1, <2>1, <2>2, CallIsSound, RowsUntouched
  <2>3. ASSUME NEW d \in Desks,
               \/ AskPlace(d) \/ AskCancel(d) \/ Cancel(d) \/ TrackStale(d) \/ Tracked(d) \/ FindShipment(d)
               \/ \E k \in DOMAIN supplied : AskTracking(d, k)
        PROVE  RecordInv'
    BY <1>1, <2>1, <2>3, ReadIsSound, RowsUntouched
  <2>4. ASSUME NEW d \in Desks, Record(d) PROVE RecordInv'
    BY <1>1, <2>1, <2>4, Recording
  <2>5. ASSUME NEW d \in Desks, WriteShipment(d) PROVE RecordInv'
    BY <1>1, <2>1, <2>5, WritingKeeps
  <2>6. ASSUME NEW k \in DOMAIN supplied, StaffDeliver(k) PROVE RecordInv'
    BY <1>1, <2>1, <2>6, DeliveringKeeps
  <2>7. ASSUME NEW k \in DOMAIN cj, CJShips(k) PROVE RecordInv'
    BY <1>1, <2>1, <2>7, ShippingKeeps
  <2>8. QED
    BY <2>1, <2>2, <2>3, <2>4, <2>5, <2>6, <2>7 DEF SupplyStep
<1>4. QED
  BY <1>1, <1>2, <1>3

LEMMA SupplyInitRecordInv == SupplyInit => RecordInv
BY DEF SupplyInit, RecordInv, SupplyTypeOK, OneOwner, PlacedIsReal, TrackedIsReal, RecordedIsReal, Free, Step,
   DeskSteps, Placed, Paying, Shipping

\* What the shop has recorded of the supplier's orders is so at CJ (placeOrder,
\* getOrderTracking), for any number of requests at once, of tries and of calls
\* that fail: a row is about an order of its own, one that was paid when the row
\* is CONFIRMED, and on its way when its shipment is IN_TRANSIT.
THEOREM RecordedIsRealHolds == SupplySpec => []RecordedIsReal
<1>1. RecordInv => RecordedIsReal
  BY DEF RecordInv
<1>2. QED
  BY <1>1, SupplyInitRecordInv, SupplyNextRecordInv, PTL DEF SupplySpec

-----------------------------------------------------------------------------
(* The order at CJ while requests come in turn. *)

LEMMA FreeIsIdle == Free.at = "idle"
BY DEF Free, Step

LEMMA AtMostOne ==
  ASSUME NEW S, IsFiniteSet(S), Cardinality(S) <= 1
  PROVE  \A x, y \in S : x = y
<1>1. Cardinality(S) = 0 \/ Cardinality(S) = 1
  BY FS_CardinalityType
<1>2. QED
  BY <1>1, FS_EmptySet, FS_Singleton

LEMMA OneAtMost ==
  ASSUME NEW S, \A x, y \in S : x = y
  PROVE  Cardinality(S) <= 1
<1>1. CASE S = {}
  BY <1>1, FS_EmptySet
<1>2. CASE S # {}
  <2>1. PICK x \in S : TRUE
    BY <1>2
  <2>2. S = {x}
    BY <2>1
  <2>3. QED
    BY <2>2, FS_Singleton
<1>3. QED
  BY <1>1, <1>2

\* While `single` stands, a request that takes a step is the only one.
LEMMA OthersRest ==
  ASSUME RecordInv, TurnByTurn, SupplyNext, single',
         NEW d \in Desks, NEW step, To(d, step), desk[d] # Free \/ step # Free
  PROVE  /\ single
         /\ desk'[d] = step
         /\ \A e \in Desks \ {d} : desk[e] = Free /\ desk'[e] = Free
<1>1. single /\ Cardinality(Busy') <= 1
  BY DEF SupplyNext
<1>2. IsFiniteSet(Busy')
  BY SupplierOrdersAssumption, FS_Subset DEF Busy
<1>3. \A e, f \in Busy' : e = f
  BY <1>1, <1>2, AtMostOne
<1>4. desk'[d] = step /\ \A e \in Desks \ {d} : desk'[e] = desk[e]
  BY DEF RecordInv, SupplyTypeOK, To
<1>5. CASE desk[d] # Free
  BY <1>1, <1>4, <1>5 DEF TurnByTurn
<1>6. CASE step # Free
  BY <1>1, <1>3, <1>4, <1>6 DEF Busy
<1>7. QED
  BY <1>1, <1>4, <1>5, <1>6

\* What a step that changes no row has to show: a placement goes on without a row,
\* a shipment is made where there is none, and what CJ is paid for stays in the
\* hands of the placement.
StaysInTurn(d) ==
  /\ desk'[d].at \in Placed \cup {"create"} => supplied = <<>>
  /\ desk'[d].at = "insert" => ~Found(desk'[d].of)
  /\ whole' => \A k \in Spent' : k \in Spent \/ (desk'[d].at \in Paying /\ desk'[d].of = k)
  /\ whole' /\ desk[d].at \in Paying => desk'[d].at \in Paying /\ desk'[d].of = desk[d].of

LEMMA TurnKept ==
  ASSUME RecordInv, TurnByTurn, SupplyNext, single', supplied' = supplied,
         NEW d \in Desks, NEW step, To(d, step), desk[d] # Free \/ step # Free, StaysInTurn(d)
  PROVE  TurnByTurn'
<1>1. single /\ \A e \in Desks \ {d} : desk[e] = Free /\ desk'[e] = Free
  BY OthersRest
<1>2. Free.at = "idle"
  BY DEF Free, Step
<1>3. \A e, f \in Desks : desk'[e] # Free /\ desk'[f] # Free => e = f
  BY <1>1
<1>4. /\ \A e \in Desks : desk'[e].at \in Placed \cup {"create"} => supplied' = <<>>
      /\ \A e \in Desks : desk'[e].at = "insert" => ~(Found(desk[e].of))'
  BY <1>1, <1>2 DEF StaysInTurn, Placed, Found
<1>5. ASSUME whole', NEW k \in Spent'
      PROVE  \/ \E l \in DOMAIN supplied' : supplied'[l].of = k
             \/ \E e \in Desks : desk'[e].at \in Paying /\ desk'[e].of = k
  <2>1. whole
    BY <1>5 DEF SupplyNext
  <2>2. CASE k \in Spent
    <3>1. CASE \E l \in DOMAIN supplied : supplied[l].of = k
      BY <3>1
    <3>2. ASSUME NEW e \in Desks, desk[e].at \in Paying, desk[e].of = k
          PROVE  desk'[d].at \in Paying /\ desk'[d].of = k
      BY <1>1, <1>2, <1>5, <3>2 DEF StaysInTurn, Paying
    <3>3. QED
      BY <1>1, <2>1, <2>2, <3>1, <3>2 DEF TurnByTurn
  <2>3. CASE k \notin Spent
    BY <1>5, <2>3 DEF StaysInTurn
  <2>4. QED
    BY <2>2, <2>3
<1>6. Len(supplied') <= 1 /\ \A k \in DOMAIN supplied' : Len(supplied'[k].shipments) <= 1
  BY <1>1 DEF TurnByTurn
<1>7. QED
  BY <1>3, <1>4, <1>5, <1>6 DEF TurnByTurn, Found

\* A placement that is given up ends the history `whole` when it had begun to pay.
LEMMA GivenUp ==
  ASSUME SupplyNext, NEW d \in Desks, desk'[d] = Free, supplied' = supplied, whole'
  PROVE  desk[d].at \notin Paying
BY DEF SupplyNext, CutShort, Paying

\* The steps of a placement up to its record.
LEMMA CallInTurn ==
  ASSUME RecordInv, TurnByTurn, SupplyNext, single', NEW d \in Desks,
         Unreached(d) \/ AnswerLost(d) \/ Accepted(d) \/ Refused(d) \/ Unnamed(d)
         \/ ReadOptions(d) \/ Stop(d)
  PROVE  TurnByTurn'
<1>1. /\ supplied' = supplied /\ CJGoesOn
      /\ desk[d] # Free /\ desk[d] \in DeskSteps
  BY CallIsSound, FreeIsIdle DEF Unreached, AnswerLost, Accepted, Refused, Unnamed, ReadOptions, Stop, Calls,
     RecordInv, SupplyTypeOK
<1>2. PICK step : To(d, step)
  BY CallIsSound
<1>3. /\ single /\ desk'[d] = step /\ \A e \in Desks \ {d} : desk[e] = Free /\ desk'[e] = Free
  BY <1>1, <1>2, OthersRest
<1>4. desk[d].at \in Placed \cup {"create"} => supplied = <<>>
  BY <1>3 DEF TurnByTurn
<1>5. CASE Unreached(d) \/ Stop(d)
  <2>1. \/ desk'[d] = Free
        \/ desk'[d].at = desk[d].at /\ desk'[d].of = desk[d].of /\ desk[d].at \in Calls
    BY <1>1, <1>2, <1>3, <1>5 DEF Unreached, Stop, Retry, To, DeskSteps, RecordInv, SupplyTypeOK
  <2>2. Spent' = Spent
    BY <1>5 DEF Unreached, Stop, Spent
  <2>3. StaysInTurn(d)
    BY <1>1, <1>4, <2>1, <2>2, GivenUp, FreeIsIdle DEF StaysInTurn, Placed, Paying, Calls
  <2>4. QED
    BY <1>1, <1>2, <2>3, TurnKept
<1>6. CASE AnswerLost(d)
  <2>1. \/ desk'[d] = Free
        \/ desk'[d].at = desk[d].at /\ desk'[d].of = desk[d].of
    BY <1>1, <1>2, <1>3, <1>6 DEF AnswerLost, Retry, To, DeskSteps, RecordInv, SupplyTypeOK
  <2>2. \A k \in Spent' : k \in Spent \/ (desk[d].at = "pay" /\ desk[d].of = k)
    BY <1>6, CJTakesGoesOn DEF AnswerLost, Spent
  <2>3. desk[d].at \in Calls
    BY <1>6 DEF AnswerLost
  <2>4. StaysInTurn(d)
    BY <1>1, <1>4, <2>1, <2>2, <2>3, GivenUp, FreeIsIdle DEF StaysInTurn, Placed, Paying, Calls
  <2>5. QED
    BY <1>1, <1>2, <2>4, TurnKept
<1>7. CASE Accepted(d)
  <2>1. desk'[d] = Onward(desk[d]) /\ desk[d].at \in Calls
    BY <1>2, <1>3, <1>7 DEF Accepted, To, RecordInv, SupplyTypeOK
  <2>2. \A k \in Spent' : k \in Spent \/ (desk[d].at = "pay" /\ desk[d].of = k)
    BY <1>7, CJTakesGoesOn DEF Accepted, Spent
  <2>3. StaysInTurn(d)
    BY <1>4, <2>1, <2>2 DEF StaysInTurn, Onward, Step, Placed, Paying, Calls
  <2>4. QED
    BY <1>1, <1>2, <2>3, TurnKept
<1>8. CASE Refused(d)
  <2>1. desk'[d] = Undone(desk[d]) /\ desk[d].at \in Calls
    BY <1>2, <1>3, <1>8 DEF Refused, To, RecordInv, SupplyTypeOK
  <2>2. Spent' = Spent
    BY <1>8 DEF Refused, Spent
  <2>3. StaysInTurn(d)
    BY <1>4, <2>1, <2>2 DEF StaysInTurn, Undone, Free, Step, Placed, Paying, Calls
  <2>4. QED
    BY <1>1, <1>2, <2>3, TurnKept
<1>9. CASE Unnamed(d)
  <2>1. desk'[d] = Free /\ desk[d].at = "create"
    BY <1>2, <1>3, <1>9 DEF Unnamed, To, RecordInv, SupplyTypeOK
  <2>2. \A k \in Spent' : k \in Spent
    BY <1>9, CreatedGoesOn DEF Unnamed, Spent, RecordInv, SupplyTypeOK
  <2>3. StaysInTurn(d)
    BY <2>1, <2>2, FreeIsIdle DEF StaysInTurn, Placed, Paying
  <2>4. QED
    BY <1>1, <1>2, <2>3, TurnKept
<1>10. CASE ReadOptions(d)
  <2>1. /\ desk'[d] = Free \/ desk'[d] = Step("correct", desk[d].of)
        /\ desk[d].at = "options"
    BY <1>2, <1>3, <1>10 DEF ReadOptions, To, RecordInv, SupplyTypeOK
  <2>2. Spent' = Spent
    BY <1>10 DEF ReadOptions, Spent
  <2>3. StaysInTurn(d)
    BY <1>4, <2>1, <2>2, FreeIsIdle DEF StaysInTurn, Step, Placed, Paying
  <2>4. QED
    BY <1>1, <1>2, <2>3, TurnKept
<1>11. QED
  BY <1>5, <1>6, <1>7, <1>8, <1>9, <1>10

\* The steps that begin a request, and those of a look-up up to what it writes.
LEMMA ReadInTurn ==
  ASSUME RecordInv, TurnByTurn, SupplyNext, single', NEW d \in Desks,
         AskPlace(d) \/ AskCancel(d) \/ Cancel(d) \/ TrackStale(d) \/ Tracked(d) \/ FindShipment(d)
         \/ \E k \in DOMAIN supplied : AskTracking(d, k)
  PROVE  TurnByTurn'
<1>1. supplied' = supplied /\ cj' = cj /\ Spent' = Spent
  BY DEF AskPlace, AskCancel, Cancel, TrackStale, Tracked, FindShipment, AskTracking, Spent
<1>2. PICK step : To(d, step)
  BY ReadIsSound
<1>3. desk'[d] = step /\ desk[d] \in DeskSteps
  BY <1>2 DEF To, RecordInv, SupplyTypeOK
<1>4. /\ desk[d] # Free \/ step # Free
      /\ desk[d].at \notin Paying
      /\ desk'[d].at = "insert" => ~Found(desk'[d].of)
      /\ desk'[d].at \in Placed \cup {"create"} => supplied = <<>>
  <2>1. /\ Step("create", 0).at = "create" /\ Step("cancel", 0).at = "cancel"
        /\ \A k : Step("ask", k).at = "ask"
        /\ \A k : [Step("find", k) EXCEPT !.told = "PENDING"].at = "find"
        /\ \A k : [Step("find", k) EXCEPT !.told = "IN_TRANSIT"].at = "find"
    BY DEF Step
  <2>2. CASE AskPlace(d)
    BY <1>3, <2>1, <2>2, FreeIsIdle DEF AskPlace, To, Unplaced, Paying, Placed, RecordInv, SupplyTypeOK
  <2>3. CASE AskCancel(d)
    BY <1>3, <2>1, <2>3, FreeIsIdle DEF AskCancel, To, Paying, Placed, RecordInv, SupplyTypeOK
  <2>4. CASE Cancel(d) \/ TrackStale(d)
    BY <1>3, <2>4, FreeIsIdle DEF Cancel, TrackStale, To, Paying, Placed, RecordInv, SupplyTypeOK
  <2>5. CASE Tracked(d)
    BY <1>3, <2>1, <2>5, FreeIsIdle DEF Tracked, To, Paying, Placed, RecordInv, SupplyTypeOK
  <2>6. CASE FindShipment(d)
    BY <1>3, <2>6, FreeIsIdle DEF FindShipment, To, Paying, Placed, RecordInv, SupplyTypeOK, DeskSteps
  <2>7. ASSUME NEW k \in DOMAIN supplied, AskTracking(d, k)
        PROVE  /\ desk[d] # Free \/ step # Free
               /\ desk[d].at \notin Paying
               /\ desk'[d].at \notin Placed \cup {"create", "insert"}
    BY <1>3, <2>1, <2>7, FreeIsIdle DEF AskTracking, To, Paying, Placed, RecordInv, SupplyTypeOK
  <2>8. QED
    BY <2>2, <2>3, <2>4, <2>5, <2>6, <2>7
<1>8. StaysInTurn(d)
  BY <1>1, <1>4 DEF StaysInTurn
<1>9. QED
  BY <1>1, <1>2, <1>4, <1>8, TurnKept

\* A placement's record is the first row, and what CJ was paid for passes to it.
LEMMA RecordInTurn ==
  ASSUME RecordInv, TurnByTurn, SupplyNext, single', NEW d \in Desks, Record(d)
  PROVE  TurnByTurn'
<1> DEFINE row == [of |-> desk[d].of, shipments |-> <<>>,
                   status |-> IF desk[d].at = "paid" THEN "CONFIRMED" ELSE "PLACED"]
<1>1. To(d, Free) /\ desk[d].at \in {"paid", "unpaid"} /\ supplied' = Append(supplied, row) /\ cj' = cj
  BY DEF Record
<1>2. /\ single /\ desk'[d] = Free /\ \A e \in Desks \ {d} : desk[e] = Free /\ desk'[e] = Free
  BY <1>1, OthersRest, FreeIsIdle
<1>3. supplied = <<>>
  BY <1>1, <1>2 DEF TurnByTurn, Placed
<1>4. Len(supplied') = 1 /\ DOMAIN supplied' = {1} /\ supplied'[1] = row
  BY <1>1, <1>3
<1>5. row.of = desk[d].of /\ Len(row.shipments) = 0
  OBVIOUS
<1>6. Spent' = Spent
  BY <1>1 DEF Spent
<1>7. \A e \in Desks : desk'[e] = Free
  BY <1>2
<1>8. ASSUME whole', NEW k \in Spent' PROVE supplied'[1].of = k
  <2>1. whole /\ k \in Spent
    BY <1>6, <1>8 DEF SupplyNext
  <2>2. PICK e \in Desks : desk[e].at \in Paying /\ desk[e].of = k
    BY <1>2, <1>3, <2>1 DEF TurnByTurn
  <2>3. e = d
    BY <1>2, <2>2, FreeIsIdle DEF Paying
  <2>4. QED
    BY <1>4, <1>5, <2>2, <2>3
<1> HIDE DEF row
<1>9. QED
  BY <1>4, <1>5, <1>7, <1>8, FreeIsIdle DEF TurnByTurn, Placed

\* A look-up's write: it makes a shipment only where it found none.
LEMMA WriteInTurn ==
  ASSUME RecordInv, TurnByTurn, SupplyNext, single', NEW d \in Desks, WriteShipment(d)
  PROVE  TurnByTurn'
<1>1. To(d, Free) /\ desk[d].at \in {"insert", "update"} /\ cj' = cj
  BY DEF WriteShipment
<1>2. /\ single /\ desk'[d] = Free /\ \A e \in Desks \ {d} : desk[e] = Free /\ desk'[e] = Free
  BY <1>1, OthersRest, FreeIsIdle
<1>3. \A e \in Desks : desk'[e] = Free
  BY <1>2
<1>4. /\ desk[d].of \in DOMAIN supplied
      /\ DOMAIN supplied' = DOMAIN supplied /\ Len(supplied') = Len(supplied)
      /\ \A l \in DOMAIN supplied : supplied'[l].of = supplied[l].of
      /\ \A l \in DOMAIN supplied \ {desk[d].of} : supplied'[l] = supplied[l]
      /\ Len(supplied'[desk[d].of].shipments) =
           Len(supplied[desk[d].of].shipments) + IF desk[d].at = "insert" THEN 1 ELSE 0
  BY WritingKeeps DEF SupplyNext, RecordInv, SupplyTypeOK
<1>5. Len(supplied'[desk[d].of].shipments) <= 1
  <2>1. CASE desk[d].at = "insert"
    <3>1. supplied[desk[d].of].shipments = <<>>
      BY <1>2, <2>1 DEF TurnByTurn, Found
    <3>2. QED
      BY <1>4, <2>1, <3>1
  <2>2. CASE desk[d].at = "update"
    <3>1. supplied[desk[d].of] \in Rows
      BY <1>4 DEF RecordInv, SupplyTypeOK
    <3>2. Len(supplied[desk[d].of].shipments) \in Nat
      BY <3>1 DEF Rows
    <3>3. QED
      BY <1>2, <1>4, <2>2, <3>2 DEF TurnByTurn
  <2>3. QED
    BY <1>1, <2>1, <2>2
<1>6. Spent' = Spent
  BY <1>1 DEF Spent
<1>7. ASSUME whole', NEW k \in Spent' PROVE \E l \in DOMAIN supplied' : supplied'[l].of = k
  <2>1. whole /\ k \in Spent
    BY <1>6, <1>7 DEF SupplyNext
  <2>2. \A e \in Desks : desk[e].at \notin Paying
    BY <1>1, <1>2, FreeIsIdle DEF Paying
  <2>3. PICK l \in DOMAIN supplied : supplied[l].of = k
    BY <1>2, <2>1, <2>2 DEF TurnByTurn
  <2>4. QED
    BY <1>4, <2>3
<1>8. Len(supplied') <= 1 /\ \A l \in DOMAIN supplied' : Len(supplied'[l].shipments) <= 1
  BY <1>2, <1>4, <1>5 DEF TurnByTurn
<1>9. QED
  BY <1>3, <1>7, <1>8, FreeIsIdle DEF TurnByTurn, Placed

\* Staff and CJ: no request takes part.
LEMMA OutsideInTurn ==
  ASSUME RecordInv, TurnByTurn, SupplyNext, single',
         (\E k \in DOMAIN supplied : StaffDeliver(k)) \/ (\E k \in DOMAIN cj : CJShips(k))
  PROVE  TurnByTurn'
<1>1. single /\ desk' = desk /\ (whole' => whole) /\ single' \in BOOLEAN /\ whole' \in BOOLEAN
  BY DEF SupplyNext, StaffDeliver, CJShips, RecordInv, SupplyTypeOK
<1>2. /\ DOMAIN supplied' = DOMAIN supplied /\ Len(supplied') = Len(supplied)
      /\ \A l \in DOMAIN supplied : supplied'[l].of = supplied[l].of
      /\ \A l \in DOMAIN supplied : Len(supplied'[l].shipments) = Len(supplied[l].shipments)
      /\ Spent' = Spent
  <2>1. CASE \E k \in DOMAIN supplied : StaffDeliver(k)
    BY <1>1, <2>1, DeliveringKeeps DEF StaffDeliver, Spent
  <2>2. CASE \E k \in DOMAIN cj : CJShips(k)
    BY <1>1, <2>2, ShippingKeeps DEF CJShips
  <2>3. QED
    BY <2>1, <2>2
<1>3. \A l \in DOMAIN supplied : (Found(l))' <=> Found(l)
  <2>1. ASSUME NEW l \in DOMAIN supplied PROVE (Found(l))' <=> Found(l)
    <3>1. supplied' \in Seq(Rows) /\ supplied \in Seq(Rows)
      BY <1>1, SupplyNextRecordInv DEF RecordInv, SupplyTypeOK
    <3>2. supplied'[l] \in Rows /\ supplied[l] \in Rows
      BY <1>2, <3>1
    <3>3. /\ supplied'[l].shipments \in Seq({"PENDING", "IN_TRANSIT", "DELIVERED"})
          /\ supplied[l].shipments \in Seq({"PENDING", "IN_TRANSIT", "DELIVERED"})
      BY <3>2 DEF Rows
    <3>4. QED
      BY <1>2, <3>3, EmptySeq DEF Found
  <2>2. QED
    BY <2>1
<1>4. supplied = <<>> => supplied' = <<>>
  <2>1. supplied' \in Seq(Rows) /\ supplied \in Seq(Rows)
    BY <1>1, SupplyNextRecordInv DEF RecordInv, SupplyTypeOK
  <2>2. QED
    BY <1>2, <2>1, EmptySeq
<1>5. ASSUME NEW e \in Desks, desk'[e].at = "insert" PROVE ~(Found(desk[e].of))'
  BY <1>1, <1>3, <1>5 DEF TurnByTurn, RecordInv, TrackedIsReal, Shipping
<1>6. QED
  BY <1>1, <1>2, <1>4, <1>5 DEF TurnByTurn, Found

LEMMA SupplyNextTurnByTurn == RecordInv /\ TurnByTurn /\ [SupplyNext]_supplyVars => TurnByTurn'
<1>1. SUFFICES ASSUME RecordInv, TurnByTurn, [SupplyNext]_supplyVars, single' PROVE TurnByTurn'
  BY DEF TurnByTurn
<1>2. CASE UNCHANGED supplyVars
  BY <1>1, <1>2 DEF supplyVars, TurnByTurn, Spent, Found
<1>3. CASE SupplyNext
  BY <1>1, <1>3, CallInTurn, ReadInTurn, RecordInTurn, WriteInTurn, OutsideInTurn DEF SupplyNext, SupplyStep
<1>4. QED
  BY <1>1, <1>2, <1>3

LEMMA SupplyInitTurnByTurn == SupplyInit => TurnByTurn
BY DEF SupplyInit, TurnByTurn, Spent, Free, Step, Placed

\* Requests one after the other pay CJ once, whatever calls are lost and repeated,
\* unless one was cut short after it began to pay; and a supplier's order has one
\* shipment at most: for any number of desks, tries and failures.
THEOREM SingleNothingDoubledHolds == SupplySpec => []SingleNothingDoubled
<1>1. RecordInv /\ TurnByTurn => SingleNothingDoubled
  <2>1. SUFFICES ASSUME RecordInv, TurnByTurn, single, whole PROVE Cardinality(Spent) <= 1
    BY DEF SingleNothingDoubled, TurnByTurn
  <2>2. ASSUME NEW k \in Spent, NEW l \in Spent PROVE k = l
    <3>1. ASSUME NEW d \in Desks, desk[d].at \in Paying PROVE supplied = <<>>
      BY <2>1, <3>1 DEF TurnByTurn, Placed, Paying
    <3>2. \A d, e \in Desks : desk[d].at \in Paying /\ desk[e].at \in Paying => d = e
      BY <2>1, FreeIsIdle DEF TurnByTurn, Paying
    <3>3. \A m, n \in DOMAIN supplied : m = n
      BY <2>1 DEF TurnByTurn, RecordInv, SupplyTypeOK
    <3>4. QED
      BY <2>1, <3>1, <3>2, <3>3 DEF TurnByTurn
  <2>3. QED
    BY <2>2, OneAtMost
<1>2. SupplySpec => [](RecordInv /\ TurnByTurn)
  BY SupplyInitRecordInv, SupplyInitTurnByTurn, SupplyNextRecordInv, SupplyNextTurnByTurn, PTL DEF SupplySpec
<1>3. QED
  BY <1>1, <1>2, PTL

-----------------------------------------------------------------------------
(***************************************************************************)
(* The sync jobs.                                                          *)
(***************************************************************************)
Words == {"PROCESSING", "COMPLETED", "FAILED"}

RunTypes ==
  {Idle}
    \cup [at : {"publish", "look", "delete", "retry"}, of : Tasks, as : Attempt]
    \cup [at : {"check", "put"}, of : Tasks, as : Attempt, to : Words]
    \cup [at : {"next"}, of : Tasks, as : Attempt, left : SUBSET Products]
    \cup [at : {"save", "import", "flunk"}, of : Tasks, as : Attempt,
          left : SUBSET Products, product : Products, seen : Version]

SyncTypeOK ==
  /\ queue \in [Tasks -> {"unsent", "visible", "hidden", "gone", "dead"}]
  /\ receives \in [Tasks -> Nat]
  /\ status \in [Tasks -> JobStatus \cup {"none"}]
  /\ offer \in [Products -> Version]
  /\ raw \in [Products -> Version]
  /\ sync \in [Products -> {"SUCCESS", "FAILED"}]
  /\ listed \in [Products -> Version]
  /\ run \in [Runners -> RunTypes]
  /\ serial \in BOOLEAN /\ clean \in BOOLEAN

\* What a runner that nobody overlaps with knows of its job: it is about to
\* write only over a job that is not settled, deletes the message of a settled
\* one, and gives up for good only one that is settled.  An attempt that is not
\* the last has its message to come back.
KnowsItsJob(j) ==
  LET t == run[j].of
  IN  /\ run[j].at = "publish" => run[j].as = "api"
      /\ run[j].at = "put" => status[t] \notin Settled
      /\ run[j].at \in {"check", "put"} =>
           /\ run[j].as = "api" => run[j].to = "FAILED"
           /\ run[j].as = "early" => run[j].to # "FAILED"
      /\ run[j].at \notin {"publish", "check", "put"} => run[j].as # "api"
      /\ run[j].at = "delete" => status[t] \in Settled
      /\ run[j].at = "retry" /\ run[j].as = "final" => status[t] \in Settled
      /\ run[j].as = "early" => queue[t] \in {"hidden", "visible"} /\ receives[t] < MaxReceives

\* A job nobody holds is settled once its message is gone or has had its last
\* receive.
NoLooseEnd(t) ==
  queue[t] \in {"gone", "dead"} \/ receives[t] = MaxReceives =>
    Held(t) \/ status[t] \in Settled

JobInv ==
  serial /\ clean =>
    /\ \A i, j \in BusyRunners : i = j
    /\ \A j \in BusyRunners : KnowsItsJob(j)
    /\ \A t \in Tasks : NoLooseEnd(t)

\* Every step of a sync job keeps the queue, the rows and the runners in their types.
LEMMA SyncTyped == SyncTypeOK /\ [SyncNext]_syncVars => SyncTypeOK'
<1> SUFFICES ASSUME SyncTypeOK, [SyncNext]_syncVars PROVE SyncTypeOK'
  OBVIOUS
<1> DEFINE Typed == (serial' \in BOOLEAN /\ clean' \in BOOLEAN) => SyncTypeOK'
<1> USE SyncAssumption
        DEF SyncTypeOK, RunTypes, Words, Attempt, Version, JobStatus, Settled, Idle, sqs, data,
            At
<1>1. ASSUME NEW j \in Runners, NEW t \in Tasks, Create(j, t) PROVE Typed
  BY <1>1 DEF Create, Goto
<1>2. ASSUME NEW j \in Runners, NEW t \in Tasks, Receive(j, t) PROVE Typed
  BY <1>2 DEF Receive, Goto, Queue!Receive, Queue!HandOut
<1>3. ASSUME NEW j \in Runners, NEW p \in Products, Fetch(j, p) PROVE Typed
  BY <1>3 DEF Fetch, Handle, Goto
<1>4. ASSUME NEW j \in Runners, NEW p \in Products, FetchFails(j, p) PROVE Typed
  BY <1>4 DEF FetchFails, Handle, Goto
<1>5. ASSUME NEW j \in Runners, Publish(j) PROVE Typed
  BY <1>5 DEF Publish, Goto, Queue!Send, Queue!Move
<1>6. ASSUME NEW j \in Runners, Look(j) PROVE Typed
  BY <1>6 DEF Look, Proceed, Update, Goto
<1>7. ASSUME NEW j \in Runners, Check(j) PROVE Typed
  BY <1>7 DEF Check, Updated, Continue, Proceed, Goto
<1>8. ASSUME NEW j \in Runners, Put(j) PROVE Typed
  BY <1>8 DEF Put, Updated, Continue, Proceed, Goto
<1>9. ASSUME NEW j \in Runners, Save(j) PROVE Typed
  BY <1>9 DEF Save, Handle, Goto
<1>10. ASSUME NEW j \in Runners, Import(j) PROVE Typed
  BY <1>10 DEF Import, Continue, Goto
<1>11. ASSUME NEW j \in Runners, ImportFails(j) PROVE Typed
  BY <1>11 DEF ImportFails, Handle, Goto
<1>12. ASSUME NEW j \in Runners, Flunk(j) PROVE Typed
  BY <1>12 DEF Flunk, Continue, Goto
<1>13. ASSUME NEW j \in Runners, Complete(j) PROVE Typed
  BY <1>13 DEF Complete, Update, Goto
<1>14. ASSUME NEW j \in Runners, Finish(j) PROVE Typed
  BY <1>14 DEF Finish, Goto, Queue!Delete, Queue!Move
<1>15. ASSUME NEW j \in Runners, GiveUp(j) PROVE Typed
  BY <1>15 DEF GiveUp, Goto, Queue!Retry, Queue!Move
<1>16. ASSUME NEW j \in Runners, PublishFails(j) PROVE Typed
  <2>1. run[j].of \in Tasks /\ run' \in [Runners -> RunTypes] /\ UNCHANGED <<status, offer, raw, sync, listed>>
    BY <1>16 DEF PublishFails, Update, Goto
  <2>2. /\ queue' \in [Tasks -> {"unsent", "visible", "hidden", "gone", "dead"}]
        /\ receives' \in [Tasks -> Nat]
    BY <1>16, <2>1 DEF PublishFails, Queue!Send, Queue!Move
  <2> QED
    BY <2>1, <2>2
<1>17. ASSUME NEW j \in Runners, Break(j, "next") PROVE Typed
  BY <1>17 DEF Break, Update, Proceed, Goto
<1>18. ASSUME NEW j \in Runners, Break(j, "flunk") PROVE Typed
  BY <1>18 DEF Break, Update, Proceed, Goto
<1>19. ASSUME NEW j \in Runners, FinishFails(j) PROVE Typed
  BY <1>19 DEF FinishFails, Proceed, Goto
<1>20. ASSUME NEW j \in Runners, LookThrows(j) PROVE Typed
  BY <1>20 DEF LookThrows, Proceed, Goto
<1>21. ASSUME NEW j \in Runners, Swallow(j) PROVE Typed
  BY <1>21 DEF Swallow, Updated, Continue, Proceed, Goto
<1>22. ASSUME NEW j \in Runners, Crash(j) PROVE Typed
  BY <1>22 DEF Crash, Goto
<1>23. ASSUME NEW t \in Tasks, Lapse(t) PROVE Typed
  BY <1>23 DEF Lapse, Queue!Reappear, Queue!Move
<1>24. ASSUME NEW t \in Tasks, Redeliver(t) PROVE Typed
  BY <1>24 DEF Redeliver, Queue!Redeliver, Queue!Move
<1>25. ASSUME NEW t \in Tasks, HandBack(t) PROVE Typed
  BY <1>25 DEF HandBack, Queue!HandBack, Queue!HandOut
<1>26. ASSUME NEW t \in Tasks, Return(t) PROVE Typed
  BY <1>26 DEF Return, Queue!Reappear, Queue!Move
<1>27. ASSUME NEW t \in Tasks, Redrive(t) PROVE Typed
  BY <1>27 DEF Redrive, Queue!Redrive, Queue!Move
<1>28. ASSUME NEW p \in Products, Offer(p) PROVE Typed
  BY <1>28 DEF Offer
<1> HIDE DEF Typed
<1>29. CASE SyncNext
  <2>1. serial' \in BOOLEAN /\ clean' \in BOOLEAN
    BY <1>29 DEF SyncNext, Act, SyncFault
  <2>2. Typed
    BY <1>29, <1>1, <1>2, <1>3, <1>4, <1>5, <1>6, <1>7, <1>8, <1>9, <1>10, <1>11, <1>12,
     <1>13, <1>14, <1>15, <1>16, <1>17, <1>18, <1>19, <1>20, <1>21, <1>22, <1>23,
     <1>24, <1>25, <1>26, <1>27, <1>28
    DEF SyncNext, Act, SyncFault, Work
  <2> QED
    BY <2>1, <2>2 DEF Typed
<1>30. CASE UNCHANGED syncVars
  BY <1>30 DEF syncVars
<1> QED
  BY <1>29, <1>30

\* A product counts as synced only when the catalog has what was fetched or a job
\* is about to put it there: jobs that overlap each write both.
LEMMA ImportedIsKept ==
  SyncTypeOK /\ SyncTypeOK' /\ SyncedIsImported /\ [SyncNext]_syncVars => SyncedIsImported'
<1> SUFFICES ASSUME SyncTypeOK, SyncTypeOK', SyncedIsImported, [SyncNext]_syncVars
             PROVE  SyncedIsImported'
  OBVIOUS
<1>1. CASE UNCHANGED syncVars
  BY <1>1 DEF syncVars, data, SyncedIsImported
<1>2. CASE SyncNext
  <2> SUFFICES ASSUME clean' PROVE SyncedIsImported'
    BY DEF SyncedIsImported
  <2>0. clean
    BY <1>2 DEF SyncNext, Act, SyncFault, SyncTypeOK
  <2> USE SyncAssumption, <2>0
        DEF SyncTypeOK, RunTypes, Words, Attempt, Version, JobStatus, Settled, Idle, sqs, data,
            At, SyncedIsImported
  <2>1. ASSUME NEW j \in Runners, NEW t \in Tasks, Create(j, t) PROVE SyncedIsImported'
    BY <2>1 DEF Create, Goto
  <2>2. ASSUME NEW j \in Runners, NEW t \in Tasks, Receive(j, t) PROVE SyncedIsImported'
    BY <2>2 DEF Receive, Goto, Queue!Receive, Queue!HandOut
  <2>3. ASSUME NEW j \in Runners, NEW p \in Products, Fetch(j, p) PROVE SyncedIsImported'
    BY <2>3 DEF Fetch, Handle, Goto
  <2>4. ASSUME NEW j \in Runners, NEW p \in Products, FetchFails(j, p) PROVE SyncedIsImported'
    BY <2>4 DEF FetchFails, Handle, Goto
  <2>5. ASSUME NEW j \in Runners, Publish(j) PROVE SyncedIsImported'
    BY <2>5 DEF Publish, Goto, Queue!Send, Queue!Move
  <2>6. ASSUME NEW j \in Runners, Look(j) PROVE SyncedIsImported'
    BY <2>6, SMTT(30) DEF Look, Proceed, Update, Goto
  <2>7. ASSUME NEW j \in Runners, Check(j) PROVE SyncedIsImported'
    BY <2>7 DEF Check, Updated, Continue, Proceed, Goto
  <2>8. ASSUME NEW j \in Runners, Put(j) PROVE SyncedIsImported'
    BY <2>8 DEF Put, Updated, Continue, Proceed, Goto
  <2>9. ASSUME NEW j \in Runners, Save(j) PROVE SyncedIsImported'
    BY <2>9 DEF Save, Handle, Goto
  <2>10. ASSUME NEW j \in Runners, Import(j) PROVE SyncedIsImported'
    BY <2>10 DEF Import, Continue, Goto
  <2>11. ASSUME NEW j \in Runners, ImportFails(j) PROVE SyncedIsImported'
    BY <2>11 DEF ImportFails, Handle, Goto
  <2>12. ASSUME NEW j \in Runners, Flunk(j) PROVE SyncedIsImported'
    BY <2>12 DEF Flunk, Continue, Goto
  <2>13. ASSUME NEW j \in Runners, Complete(j) PROVE SyncedIsImported'
    BY <2>13 DEF Complete, Update, Goto
  <2>14. ASSUME NEW j \in Runners, Finish(j) PROVE SyncedIsImported'
    BY <2>14 DEF Finish, Goto, Queue!Delete, Queue!Move
  <2>15. ASSUME NEW j \in Runners, GiveUp(j) PROVE SyncedIsImported'
    BY <2>15 DEF GiveUp, Goto, Queue!Retry, Queue!Move
  <2>16. ASSUME NEW j \in Runners, PublishFails(j) PROVE SyncedIsImported'
    BY <2>16 DEF PublishFails, Update, Goto, Queue!Send, Queue!Move
  <2>17. ASSUME NEW j \in Runners, Break(j, "next") PROVE SyncedIsImported'
    BY SMTT(30), <2>17 DEF Break, Update, Proceed, Goto
  <2>18. ASSUME NEW j \in Runners, FinishFails(j) PROVE SyncedIsImported'
    BY <2>18 DEF FinishFails, Proceed, Goto
  <2>19. ASSUME NEW t \in Tasks, Lapse(t) PROVE SyncedIsImported'
    BY <2>19 DEF Lapse, Queue!Reappear, Queue!Move
  <2>20. ASSUME NEW t \in Tasks, Redeliver(t) PROVE SyncedIsImported'
    BY <2>20 DEF Redeliver, Queue!Redeliver, Queue!Move
  <2>21. ASSUME NEW t \in Tasks, Return(t) PROVE SyncedIsImported'
    BY <2>21 DEF Return, Queue!Reappear, Queue!Move
  <2>22. ASSUME NEW t \in Tasks, Redrive(t) PROVE SyncedIsImported'
    BY <2>22 DEF Redrive, Queue!Redrive, Queue!Move
  <2>23. ASSUME NEW p \in Products, Offer(p) PROVE SyncedIsImported'
    BY <2>23 DEF Offer
  <2> QED
    BY <1>2, <2>1, <2>2, <2>3, <2>4, <2>5, <2>6, <2>7, <2>8, <2>9, <2>10, <2>11, <2>12,
     <2>13, <2>14, <2>15, <2>16, <2>17, <2>18, <2>19, <2>20, <2>21, <2>22, <2>23
    DEF SyncNext, Act, SyncFault, Work
<1> QED
  BY <1>1, <1>2

\* A runner that goes on with a product of its chunk still knows its job.
LEMMA RunnerGoesOn ==
  ASSUME SyncTypeOK, SyncTypeOK', JobInv, serial, clean, serial' => \A i, k \in BusyRunners' : i = k,
         NEW j \in Runners, run[j] # Idle, run[j].at \notin {"publish", "check", "put"},
         NEW step \in RunTypes, step.at \in {"next", "save", "import", "flunk"},
         step.of = run[j].of, step.as = run[j].as, Goto(j, step),
         UNCHANGED <<queue, receives, status>>
  PROVE  serial' /\ clean' => JobInv'
<1>1. /\ run'[j] = step /\ \A i \in Runners \ {j} : run'[i] = run[i]
      /\ step # Idle
  BY DEF SyncTypeOK, Goto, Idle
<1>2. KnowsItsJob(j)
  BY DEF JobInv, BusyRunners
<1>3. KnowsItsJob(j)'
  BY <1>1, <1>2 DEF KnowsItsJob
<1>4. \A t \in Tasks : Held(t) => Held(t)'
  BY <1>1 DEF Held
<1>5. \A t \in Tasks : NoLooseEnd(t)'
  BY <1>4 DEF JobInv, NoLooseEnd
<1> QED
  BY <1>1, <1>3, <1>5 DEF JobInv, BusyRunners

\* One step per action: a runner that nobody overlaps with leaves no loose end.
LEMMA JobGoesOn ==
  ASSUME SyncTypeOK, SyncTypeOK', JobInv, Act, serial, clean, serial', clean',
         \A i, j \in BusyRunners' : i = j
  PROVE  JobInv'
<1> USE SyncAssumption
        DEF SyncTypeOK, RunTypes, Words, Attempt, Version, JobStatus, Settled, Idle, sqs, data,
            At
<1>1. ASSUME NEW j \in Runners, NEW t \in Tasks, Create(j, t) PROVE JobInv'
  BY <1>1 DEF Create, Goto,
              JobInv, KnowsItsJob, NoLooseEnd, BusyRunners, Held
<1>2. ASSUME NEW j \in Runners, NEW t \in Tasks, Receive(j, t) PROVE JobInv'
  <2> DEFINE step == [at |-> "look", of |-> t, as |-> IF receives'[t] >= MaxReceives THEN "final" ELSE "early"]
  <2>1. /\ run[j] = Idle /\ run' = [run EXCEPT ![j] = step] /\ UNCHANGED status
    BY <1>2 DEF Receive, Goto
  <2>2. /\ queue' = [queue EXCEPT ![t] = "hidden"] /\ receives' = [receives EXCEPT ![t] = @ + 1]
    BY <1>2 DEF Receive, Queue!Receive, Queue!HandOut
  <2>3. /\ run'[j] = step /\ step # Idle /\ \A i \in Runners \ {j} : run'[i] = run[i]
        /\ step.at = "look" /\ step.of = t /\ step.as # "api"
        /\ step.as = "early" => receives'[t] < MaxReceives
    BY <2>1, <2>2
  <2>4. KnowsItsJob(j)'
    BY <2>2, <2>3 DEF KnowsItsJob
  <2>5. Held(t)' /\ \A u \in Tasks : Held(u) => Held(u)'
    BY <2>1, <2>3 DEF Held
  <2>6. ASSUME NEW u \in Tasks PROVE NoLooseEnd(u)'
    BY <2>1, <2>2, <2>5 DEF JobInv, NoLooseEnd
  <2> QED
    BY <2>3, <2>4, <2>6 DEF JobInv, BusyRunners
<1>3. ASSUME NEW j \in Runners, NEW p \in Products, Fetch(j, p) PROVE JobInv'
  <2> DEFINE step == [at |-> "save", of |-> run[j].of, as |-> run[j].as, left |-> run[j].left \ {p},
              product |-> p, seen |-> offer[p]]
  <2>1. step \in RunTypes /\ step.at \in {"next", "save", "import", "flunk"}
        /\ step.of = run[j].of /\ step.as = run[j].as
    BY <1>3 DEF Fetch, Handle, Goto
  <2>2. run[j] # Idle /\ run[j].at \notin {"publish", "check", "put"}
    BY <1>3 DEF Fetch, Handle, Goto
  <2>3. Goto(j, step) /\ UNCHANGED <<queue, receives, status>>
    BY <1>3 DEF Fetch, Handle
  <2> QED
    BY <2>1, <2>2, <2>3, RunnerGoesOn
<1>4. ASSUME NEW j \in Runners, NEW p \in Products, FetchFails(j, p) PROVE JobInv'
  <2> DEFINE step == [at |-> "flunk", of |-> run[j].of, as |-> run[j].as, left |-> run[j].left \ {p},
              product |-> p, seen |-> 0]
  <2>1. step \in RunTypes /\ step.at \in {"next", "save", "import", "flunk"}
        /\ step.of = run[j].of /\ step.as = run[j].as
    BY <1>4 DEF FetchFails, Handle, Goto
  <2>2. run[j] # Idle /\ run[j].at \notin {"publish", "check", "put"}
    BY <1>4 DEF FetchFails, Handle, Goto
  <2>3. Goto(j, step) /\ UNCHANGED <<queue, receives, status>>
    BY <1>4 DEF FetchFails, Handle
  <2> QED
    BY <2>1, <2>2, <2>3, RunnerGoesOn
<1>5. ASSUME NEW j \in Runners, Publish(j) PROVE JobInv'
  BY <1>5 DEF Publish, Goto, Queue!Send, Queue!Move,
              JobInv, KnowsItsJob, NoLooseEnd, BusyRunners, Held
<1>6. ASSUME NEW j \in Runners, Look(j) PROVE JobInv'
  BY <1>6 DEF Look, Proceed, Update, Goto,
              JobInv, KnowsItsJob, NoLooseEnd, BusyRunners, Held
<1>7. ASSUME NEW j \in Runners, Check(j) PROVE JobInv'
  BY <1>7 DEF Check, Updated, Continue, Proceed, Goto,
              JobInv, KnowsItsJob, NoLooseEnd, BusyRunners, Held
<1>8. ASSUME NEW j \in Runners, Put(j) PROVE JobInv'
  BY <1>8 DEF Put, Updated, Continue, Proceed, Goto,
              JobInv, KnowsItsJob, NoLooseEnd, BusyRunners, Held
<1>9. ASSUME NEW j \in Runners, Save(j) PROVE JobInv'
  <2> DEFINE step == [at |-> "import", of |-> run[j].of, as |-> run[j].as, left |-> run[j].left,
              product |-> run[j].product, seen |-> run[j].seen]
  <2>1. step \in RunTypes /\ step.at \in {"next", "save", "import", "flunk"}
        /\ step.of = run[j].of /\ step.as = run[j].as
    BY <1>9 DEF Save, Handle, Goto
  <2>2. run[j] # Idle /\ run[j].at \notin {"publish", "check", "put"}
    BY <1>9 DEF Save, Handle, Goto
  <2>3. Goto(j, step) /\ UNCHANGED <<queue, receives, status>>
    BY <1>9 DEF Save, Handle
  <2> QED
    BY <2>1, <2>2, <2>3, RunnerGoesOn
<1>10. ASSUME NEW j \in Runners, Import(j) PROVE JobInv'
  <2> DEFINE step == [at |-> "next", of |-> run[j].of, as |-> run[j].as, left |-> run[j].left]
  <2>1. step \in RunTypes /\ step.at \in {"next", "save", "import", "flunk"}
        /\ step.of = run[j].of /\ step.as = run[j].as
    BY <1>10 DEF Import, Continue, Goto
  <2>2. run[j] # Idle /\ run[j].at \notin {"publish", "check", "put"}
    BY <1>10 DEF Import, Continue, Goto
  <2>3. Goto(j, step) /\ UNCHANGED <<queue, receives, status>>
    BY <1>10 DEF Import, Continue
  <2> QED
    BY <2>1, <2>2, <2>3, RunnerGoesOn
<1>11. ASSUME NEW j \in Runners, ImportFails(j) PROVE JobInv'
  <2> DEFINE step == [at |-> "flunk", of |-> run[j].of, as |-> run[j].as, left |-> run[j].left,
              product |-> run[j].product, seen |-> 0]
  <2>1. step \in RunTypes /\ step.at \in {"next", "save", "import", "flunk"}
        /\ step.of = run[j].of /\ step.as = run[j].as
    BY <1>11 DEF ImportFails, Handle, Goto
  <2>2. run[j] # Idle /\ run[j].at \notin {"publish", "check", "put"}
    BY <1>11 DEF ImportFails, Handle, Goto
  <2>3. Goto(j, step) /\ UNCHANGED <<queue, receives, status>>
    BY <1>11 DEF ImportFails, Handle
  <2> QED
    BY <2>1, <2>2, <2>3, RunnerGoesOn
<1>12. ASSUME NEW j \in Runners, Flunk(j) PROVE JobInv'
  <2> DEFINE step == [at |-> "next", of |-> run[j].of, as |-> run[j].as, left |-> run[j].left]
  <2>1. step \in RunTypes /\ step.at \in {"next", "save", "import", "flunk"}
        /\ step.of = run[j].of /\ step.as = run[j].as
    BY <1>12 DEF Flunk, Continue, Goto
  <2>2. run[j] # Idle /\ run[j].at \notin {"publish", "check", "put"}
    BY <1>12 DEF Flunk, Continue, Goto
  <2>3. Goto(j, step) /\ UNCHANGED <<queue, receives, status>>
    BY <1>12 DEF Flunk, Continue
  <2> QED
    BY <2>1, <2>2, <2>3, RunnerGoesOn
<1>13. ASSUME NEW j \in Runners, Complete(j) PROVE JobInv'
  <2> DEFINE step == [at |-> "check", of |-> run[j].of, as |-> run[j].as, to |-> "COMPLETED"]
  <2>1. /\ run[j] # Idle /\ run[j].at = "next"
        /\ run' = [run EXCEPT ![j] = step] /\ UNCHANGED <<queue, receives, status>>
    BY <1>13 DEF Complete, Update, Goto
  <2>2. KnowsItsJob(j)
    BY <2>1 DEF JobInv, BusyRunners
  <2>3. /\ run'[j] = step /\ step # Idle /\ \A i \in Runners \ {j} : run'[i] = run[i]
        /\ step.at = "check" /\ step.of = run[j].of /\ step.as = run[j].as /\ step.to = "COMPLETED"
    BY <2>1
  <2>4. KnowsItsJob(j)'
    BY <2>1, <2>2, <2>3 DEF KnowsItsJob
  <2>5. \A t \in Tasks : Held(t) => Held(t)'
    BY <2>3 DEF Held
  <2>6. \A t \in Tasks : NoLooseEnd(t)'
    BY <2>1, <2>5 DEF JobInv, NoLooseEnd
  <2> QED
    BY <2>3, <2>4, <2>6 DEF JobInv, BusyRunners
<1>14. ASSUME NEW j \in Runners, Finish(j) PROVE JobInv'
  BY <1>14 DEF Finish, Goto, Queue!Delete, Queue!Move,
              JobInv, KnowsItsJob, NoLooseEnd, BusyRunners, Held
<1>15. ASSUME NEW j \in Runners, GiveUp(j) PROVE JobInv'
  BY <1>15 DEF GiveUp, Goto, Queue!Retry, Queue!Move,
              JobInv, KnowsItsJob, NoLooseEnd, BusyRunners, Held
<1>16. ASSUME NEW j \in Runners, PublishFails(j) PROVE JobInv'
  <2> DEFINE step == [at |-> "check", of |-> run[j].of, as |-> run[j].as, to |-> "FAILED"]
  <2>1. /\ run[j] # Idle /\ run[j].of \in Tasks /\ run[j].at = "publish"
        /\ run' = [run EXCEPT ![j] = step] /\ UNCHANGED status
    BY <1>16 DEF PublishFails, Update, Goto
  <2>2. run[j].as = "api"
    BY <2>1 DEF JobInv, KnowsItsJob, BusyRunners
  <2>3. /\ run'[j] = step /\ step # Idle /\ \A i \in Runners \ {j} : run'[i] = run[i]
        /\ step.at = "check" /\ step.of = run[j].of /\ step.as = "api" /\ step.to = "FAILED"
    BY <2>1, <2>2
  <2>4. KnowsItsJob(j)'
    BY <2>3 DEF KnowsItsJob
  <2>5. \A t \in Tasks : Held(t) => Held(t)'
    BY <2>2, <2>3 DEF Held
  <2>6. UNCHANGED receives /\ \A t \in Tasks : queue'[t] = queue[t] \/ queue'[t] = "visible"
    BY <1>16, <2>1 DEF PublishFails, Queue!Send, Queue!Move
  <2>7. \A t \in Tasks : NoLooseEnd(t)'
    BY <2>1, <2>5, <2>6 DEF JobInv, NoLooseEnd
  <2> QED
    BY <2>3, <2>4, <2>7 DEF JobInv, BusyRunners
<1>17. ASSUME NEW j \in Runners, Break(j, "next") PROVE JobInv'
  BY <1>17 DEF Break, Update, Proceed, Goto,
              JobInv, KnowsItsJob, NoLooseEnd, BusyRunners, Held
<1>18. ASSUME NEW j \in Runners, FinishFails(j) PROVE JobInv'
  <2> DEFINE step == [at |-> "retry", of |-> run[j].of, as |-> run[j].as]
  <2>1. /\ run[j] # Idle /\ run[j].at = "delete"
        /\ run' = [run EXCEPT ![j] = step] /\ UNCHANGED <<queue, receives, status>>
    BY <1>18 DEF FinishFails, Proceed, Goto
  <2>2. KnowsItsJob(j)
    BY <2>1 DEF JobInv, BusyRunners
  <2>3. /\ run'[j] = step /\ step # Idle /\ \A i \in Runners \ {j} : run'[i] = run[i]
        /\ step.at = "retry" /\ step.of = run[j].of /\ step.as = run[j].as
    BY <2>1
  <2>4. KnowsItsJob(j)'
    BY <2>1, <2>2, <2>3 DEF KnowsItsJob
  <2>5. \A t \in Tasks : Held(t) => Held(t)'
    BY <2>3 DEF Held
  <2>6. \A t \in Tasks : NoLooseEnd(t)'
    BY <2>1, <2>5 DEF JobInv, NoLooseEnd
  <2> QED
    BY <2>3, <2>4, <2>6 DEF JobInv, BusyRunners
<1>19. ASSUME NEW t \in Tasks, Lapse(t) PROVE JobInv'
  BY <1>19 DEF Lapse, Queue!Reappear, Queue!Move,
              JobInv, KnowsItsJob, NoLooseEnd, BusyRunners, Held
<1>20. ASSUME NEW t \in Tasks, Redeliver(t) PROVE JobInv'
  BY <1>20 DEF Redeliver, Queue!Redeliver, Queue!Move,
              JobInv, KnowsItsJob, NoLooseEnd, BusyRunners, Held
<1>21. ASSUME NEW t \in Tasks, Return(t) PROVE JobInv'
  BY <1>21 DEF Return, Queue!Reappear, Queue!Move,
              JobInv, KnowsItsJob, NoLooseEnd, BusyRunners, Held
<1>22. ASSUME NEW t \in Tasks, Redrive(t) PROVE JobInv'
  BY <1>22 DEF Redrive, Queue!Redrive, Queue!Move,
              JobInv, KnowsItsJob, NoLooseEnd, BusyRunners, Held
<1>23. ASSUME NEW p \in Products, Offer(p) PROVE JobInv'
  BY <1>23 DEF Offer,
              JobInv, KnowsItsJob, NoLooseEnd, BusyRunners, Held
<1> QED
  BY <1>1, <1>2, <1>3, <1>4, <1>5, <1>6, <1>7, <1>8, <1>9, <1>10, <1>11, <1>12,
     <1>13, <1>14, <1>15, <1>16, <1>17, <1>18, <1>19, <1>20, <1>21, <1>22, <1>23
  DEF Act, SyncFault, Work

\* The invariant of the jobs, whatever the step.
LEMMA JobsAreKept == SyncTypeOK /\ SyncTypeOK' /\ JobInv /\ [SyncNext]_syncVars => JobInv'
<1> SUFFICES ASSUME SyncTypeOK, SyncTypeOK', JobInv, [SyncNext]_syncVars PROVE JobInv'
  OBVIOUS
<1>1. CASE UNCHANGED syncVars
  BY <1>1 DEF syncVars, sqs,
              JobInv, KnowsItsJob, NoLooseEnd, BusyRunners, Held
<1>2. CASE SyncNext
  <2> SUFFICES ASSUME serial', clean' PROVE JobInv'
    BY DEF JobInv
  <2>1. /\ Act /\ serial /\ clean
        /\ \A i, j \in BusyRunners' : i = j
    BY <1>2 DEF SyncNext, Act, SyncFault, SyncTypeOK
  <2> QED
    BY <2>1, JobGoesOn
<1> QED
  BY <1>1, <1>2

\* A store begins in sync.
LEMMA SyncBegins == SyncInit => SyncTypeOK /\ SyncedIsImported /\ JobInv
BY SyncAssumption
   DEF SyncInit, SyncTypeOK, SyncedIsImported, JobInv, BusyRunners, KnowsItsJob, NoLooseEnd,
       RunTypes, Version, JobStatus, Idle, Queue!Init

\* updateJobStatus, runOne: for any jobs, products and runners, once the message
\* of a job is gone or dead the job is settled, if nothing overlapped or died.
THEOREM CleanJobIsSettledHolds == SyncSpec => []CleanJobIsSettled
<1>1. SyncTypeOK /\ JobInv => CleanJobIsSettled
  BY DEF CleanJobIsSettled, JobInv, NoLooseEnd
<1> QED
  BY <1>1, SyncBegins, SyncTyped, JobsAreKept, PTL DEF SyncSpec

\* handleProductSync: for any jobs, products and overlapping runners none of which
\* dies between its two writes, what counts as synced was imported.
THEOREM SyncedIsImportedHolds == SyncSpec => []SyncedIsImported
BY SyncBegins, SyncTyped, ImportedIsKept, PTL DEF SyncSpec

===============================================================================
