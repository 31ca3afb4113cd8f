------------------------------ MODULE ResyncLock ------------------------------
(***************************************************************************)
(* The scheduler of the worker processes: each fires on every six-hourly   *)
(* tick, within some skew of the others, and the one that takes a key in   *)
(* Redis queues the product resync (ProductSync has the jobs).             *)
(***************************************************************************)
EXTENDS Naturals

CONSTANTS
  Workers,
  Period,          \* from one tick to the next
  Skew,            \* the workers' clocks are this far apart at most
  LockTTL,         \* PRODUCT_SYNC_LOCK_TTL_SECONDS
  MaxTicks,        \* bound: ticks
  MaxMishaps       \* bound: Redis errors and workers that stop

ASSUME ResyncLockAssumption ==
  /\ {Period, Skew, LockTTL, MaxTicks, MaxMishaps} \subseteq Nat
  /\ Workers # {}
  /\ Skew < LockTTL /\ LockTTL + Skew <= Period

VARIABLES
  clock,
  lock,            \* when the key expires, 0 without one
  ran,             \* worker -> the last tick it has handled
  holds,           \* workers that have yet to queue
  queued,          \* tick -> the times its resync was queued
  mishaps,         \* ticks some worker met an error or stopped in
  mishapCount

lockVars == <<clock, lock, ran, holds, queued, mishaps, mishapCount>>

Ticks == 1 .. MaxTicks

Begin(t) == t * Period

Current == {t \in Ticks : clock \in Begin(t) .. Begin(t) + Skew}

LockInit ==
  /\ clock = Begin(1)
  /\ lock = 0
  /\ ran = [w \in Workers |-> 0]
  /\ holds = {}
  /\ queued = [t \in Ticks |-> 0]
  /\ mishaps = {}
  /\ mishapCount = 0

Fires(w, t) == ran[w] < t /\ ran' = [ran EXCEPT ![w] = t]

\* Mutant of Expiry: the key is taken for good.
NeverExpires == Begin(MaxTicks + 1)

Expiry == clock + LockTTL

\* acquireSchedulerLock: SET NX EX.
TakeLock(w, t) ==
  /\ Fires(w, t)
  /\ IF lock = 0 THEN lock' = Expiry /\ holds' = holds \cup {w}
     ELSE UNCHANGED <<lock, holds>>
  /\ UNCHANGED <<clock, queued, mishaps, mishapCount>>

Mishap(t) ==
  /\ mishapCount < MaxMishaps
  /\ mishapCount' = mishapCount + 1
  /\ mishaps' = mishaps \cup {t}

\* It fails open, whether or not Redis took the key.
LockFails(w, t) ==
  /\ Fires(w, t)
  /\ Mishap(t)
  /\ holds' = holds \cup {w}
  /\ \/ UNCHANGED lock
     \/ lock = 0 /\ lock' = Expiry
  /\ UNCHANGED <<clock, queued>>

\* runScheduledProductSync queues the tenant's products.
QueueResync(w) ==
  /\ w \in holds
  /\ queued' = [queued EXCEPT ![ran[w]] = @ + 1]
  /\ holds' = holds \ {w}
  /\ UNCHANGED <<clock, lock, ran, mishaps, mishapCount>>

\* The one that took the lock stops, or resyncAll throws.
ResyncFails(w) ==
  /\ w \in holds
  /\ Mishap(ran[w])
  /\ holds' = holds \ {w}
  /\ UNCHANGED <<clock, lock, ran, queued>>

\* Workers fire within the skew, and queue at once.
Pass ==
  /\ clock < Begin(MaxTicks) + Skew + 1
  /\ holds = {}
  /\ \A t \in Ticks, w \in Workers : clock = Begin(t) + Skew => ran[w] = t
  /\ clock' = clock + 1
  /\ lock' = IF lock = clock' THEN 0 ELSE lock
  /\ UNCHANGED <<ran, holds, queued, mishaps, mishapCount>>

LockNext ==
  \/ \E w \in Workers :
       \/ \E t \in Current : TakeLock(w, t) \/ LockFails(w, t)
       \/ QueueResync(w)
       \/ ResyncFails(w)
  \/ Pass

LockSpec == LockInit /\ [][LockNext]_lockVars

-----------------------------------------------------------------------------
\* A tick in which nothing failed queues the resync, and not once per worker,
\* whatever failed in the ticks before it.
ResyncedOncePerTick ==
  \A t \in Ticks \ mishaps :
    /\ queued[t] <= 1
    /\ clock > Begin(t) + Skew => queued[t] = 1

=============================================================================
