--------------------------- MODULE CheckoutProofs ----------------------------
(***************************************************************************)
(* Theorems about a customer's orders and the stock they draw on.          *)
(* Inventory: for any locations, requests, quantities and levels.          *)
(* Checkout: for any variants, offers, limits and requests.                *)
(***************************************************************************)
EXTENDS Inventory, Checkout, FiniteSetTheorems, TLAPS

\* A request that is about to write has read a version no newer than the
\* row's, and if the version is still the row's, nobody's reservation came in
\* between: this is what makes the version check sound.
ReadIsCurrent ==
  \A c \in Clerks :
    job[c] # Idle =>
      LET row == stock[job[c].loc]
          seen == job[c].seen
      IN  /\ seen.version <= row.version
          /\ seen.version = row.version => seen.reserved = row.reserved
          /\ job[c].op # "set" => seen.version > 0
          /\ job[c].op = "set" => job[c].n \in Levels
          /\ job[c].op = "reserve" => job[c].n \in Reservable
          /\ job[c].op = "release" => job[c].n \in Releasable

\* A location without a row has nothing reserved.
NoRowIsEmpty == \A l \in Locations : stock[l].version = 0 => stock[l].reserved = 0

IInv == TypeOK /\ ReadIsCurrent /\ NoRowIsEmpty

LEMMA ClampNat ==
  ASSUME NEW n \in Int
  PROVE  Clamp(n) \in Nat
BY DEF Clamp

\* Init establishes the inductive invariant.
LEMMA InitIInv == Init => IInv
<1>1. SUFFICES ASSUME Init PROVE IInv
  OBVIOUS
<1>2. \A l \in Locations : stock[l] \in Row /\ (stock[l].version = 0 => stock[l].reserved = 0)
  <2>1. NoRow \in Row /\ NoRow.reserved = 0
    BY DEF NoRow, Row
  <2>2. \A n \in Levels : FreshRow(n) \in Row /\ FreshRow(n).reserved = 0
    BY InventoryAssumption DEF FreshRow, Row
  <2>3. QED
    BY <1>1, <2>1, <2>2 DEF Init
<1>3. TypeOK
  BY <1>1, <1>2 DEF Init, TypeOK
<1>4. ReadIsCurrent
  BY <1>1 DEF Init, ReadIsCurrent
<1>5. QED
  BY <1>2, <1>3, <1>4 DEF IInv, NoRowIsEmpty

\* The read half of an operation: the copy it takes is the row itself.
LEMMA ReadIInv ==
  ASSUME IInv, NEW c \in Clerks, NEW l \in Locations,
         NEW op \in {"reserve", "release", "set"}, NEW n \in Nat,
         Read(c, op, l, n),
         op # "set" => stock[l].version > 0,
         op = "set" => n \in Levels,
         op = "reserve" => n \in Reservable,
         op = "release" => n \in Releasable
  PROVE  IInv'
<1> DEFINE new == [op |-> op, loc |-> l, n |-> n, seen |-> stock[l]]
<1>1. new \in Jobs /\ new.seen = stock[l] /\ new.loc = l /\ new.op = op /\ new.n = n
  BY DEF Jobs, IInv, TypeOK
<1>2. stock' = stock /\ job' = [job EXCEPT ![c] = new]
  BY DEF Read
<1> HIDE DEF new
<1>3. TypeOK'
  BY <1>1, <1>2 DEF IInv, TypeOK
<1>4. ReadIsCurrent'
  <2> SUFFICES ASSUME NEW d \in Clerks, job'[d] # Idle
               PROVE  /\ job'[d].seen.version <= stock'[job'[d].loc].version
                      /\ job'[d].seen.version = stock'[job'[d].loc].version
                           => job'[d].seen.reserved = stock'[job'[d].loc].reserved
                      /\ job'[d].op # "set" => job'[d].seen.version > 0
                      /\ job'[d].op = "set" => job'[d].n \in Levels
                      /\ job'[d].op = "reserve" => job'[d].n \in Reservable
                      /\ job'[d].op = "release" => job'[d].n \in Releasable
    BY DEF ReadIsCurrent
  <2>1. CASE d = c
    <3>1. job'[d] = new
      BY <1>2, <2>1 DEF IInv, TypeOK
    <3>2. stock[l].version \in Nat
      BY DEF IInv, TypeOK, Row
    <3>3. QED
      BY <1>1, <1>2, <3>1, <3>2
  <2>2. CASE d # c
    <3>1. job'[d] = job[d]
      BY <1>2, <2>2 DEF IInv, TypeOK
    <3>2. QED
      BY <1>2, <3>1 DEF IInv, ReadIsCurrent
  <2>3. QED
    BY <2>1, <2>2
<1>5. NoRowIsEmpty'
  BY <1>2 DEF IInv, NoRowIsEmpty
<1>6. QED
  BY <1>3, <1>4, <1>5 DEF IInv

\* The write half: any row that replaces the one a request has read, keeping
\* the version and the reservations together, or bumping the version.
LEMMA WriteIInv ==
  ASSUME IInv, NEW c \in Clerks, job[c] # Idle, NEW row \in Row,
         stock' = [stock EXCEPT ![job[c].loc] = row],
         Finish(c),
         \/ row.version = stock[job[c].loc].version + 1
         \/ /\ row.version = stock[job[c].loc].version
            /\ row.reserved = stock[job[c].loc].reserved,
         row.version = 0 => row.reserved = 0
  PROVE  IInv'
<1>1. job[c] \in Jobs /\ job[c].loc \in Locations
  BY DEF IInv, TypeOK, Jobs
<1>2. TypeOK'
  BY <1>1 DEF IInv, TypeOK, Finish
<1>3. \A l \in Locations : stock[l].version \in Nat
  BY DEF IInv, TypeOK, Row
<1>4. ReadIsCurrent'
  <2> SUFFICES ASSUME NEW d \in Clerks, job'[d] # Idle
               PROVE  /\ job'[d].seen.version <= stock'[job'[d].loc].version
                      /\ job'[d].seen.version = stock'[job'[d].loc].version
                           => job'[d].seen.reserved = stock'[job'[d].loc].reserved
                      /\ job'[d].op # "set" => job'[d].seen.version > 0
                      /\ job'[d].op = "set" => job'[d].n \in Levels
                      /\ job'[d].op = "reserve" => job'[d].n \in Reservable
                      /\ job'[d].op = "release" => job'[d].n \in Releasable
    BY DEF ReadIsCurrent
  <2>1. d # c /\ job'[d] = job[d]
    BY DEF IInv, TypeOK, Finish
  <2>2. job[d] \in Jobs /\ job[d].loc \in Locations /\ job[d].seen.version \in Nat
    BY <2>1 DEF IInv, TypeOK, Jobs, Row
  <2>3. /\ job[d].seen.version <= stock[job[d].loc].version
        /\ job[d].seen.version = stock[job[d].loc].version
             => job[d].seen.reserved = stock[job[d].loc].reserved
        /\ job[d].op # "set" => job[d].seen.version > 0
        /\ job[d].op = "set" => job[d].n \in Levels
        /\ job[d].op = "reserve" => job[d].n \in Reservable
        /\ job[d].op = "release" => job[d].n \in Releasable
    BY <2>1 DEF IInv, ReadIsCurrent
  <2>4. CASE job[d].loc = job[c].loc
    <3>1. stock'[job[d].loc] = row
      BY <2>2, <2>4 DEF IInv, TypeOK
    <3>2. QED
      BY <1>3, <2>1, <2>2, <2>3, <2>4, <3>1
  <2>5. CASE job[d].loc # job[c].loc
    <3>1. stock'[job[d].loc] = stock[job[d].loc]
      BY <2>2, <2>5 DEF IInv, TypeOK
    <3>2. QED
      BY <2>1, <2>3, <3>1
  <2>6. QED
    BY <2>4, <2>5
<1>5. NoRowIsEmpty'
  BY <1>1 DEF IInv, TypeOK, NoRowIsEmpty
<1>6. QED
  BY <1>2, <1>4, <1>5 DEF IInv

\* The row a guarded write stores, and the row setStock stores.
LEMMA RowUpdates ==
  ASSUME NEW old \in Row, NEW n \in Nat, NEW a \in Int
  PROVE  /\ Reserved(old, n, a) \in Row
         /\ Reserved(old, n, a).version = old.version + 1
         /\ Reserved(old, n, a).version # 0
         /\ Recounted(old, n, a) \in Row
         /\ Recounted(old, n, a).version = old.version
         /\ Recounted(old, n, a).reserved = old.reserved
BY DEF Row, Reserved, Recounted

\* What a request in flight carries.
LEMMA JobFacts ==
  ASSUME IInv, NEW c \in Clerks, job[c] # Idle
  PROVE  /\ job[c] \in Jobs
         /\ job[c].loc \in Locations
         /\ job[c].n \in Nat
         /\ job[c].seen \in Row
         /\ stock[job[c].loc] \in Row
BY DEF IInv, TypeOK, Jobs

\* The row written by reserveStock or releaseReservation: its version follows
\* the one read, which the write's WHERE clause found still in place.
LEMMA GuardedWrite ==
  ASSUME IInv, NEW c \in Clerks, job[c].op \in {"reserve", "release"}, job[c] # Idle,
         VersionStillRead(c), NEW r \in Nat, NEW a \in Int,
         stock' = [stock EXCEPT ![job[c].loc] = Reserved(@, r, a)],
         Finish(c)
  PROVE  IInv'
<1> DEFINE old == stock[job[c].loc]
           row == Reserved(old, r, a)
<1>1. old \in Row /\ job[c].loc \in Locations
  BY JobFacts
<1>2. row \in Row /\ row.version = old.version + 1 /\ row.version # 0
  BY <1>1, RowUpdates
<1>3. stock' = [stock EXCEPT ![job[c].loc] = row]
  BY <1>1 DEF IInv, TypeOK
<1> HIDE DEF row
<1>4. QED
  BY <1>2, <1>3, WriteIInv

\* Every step of the component preserves the inductive invariant.
\* The history variable only watches.
LEMMA NextServes == [Next]_vars => [Serve]_vars
BY DEF Next

LEMMA NextIInv == IInv /\ [Serve]_vars => IInv'
<1> SUFFICES ASSUME IInv, [Serve]_vars
             PROVE  IInv'
  OBVIOUS
<1> USE InventoryAssumption
<1>1. ASSUME NEW c \in Clerks, NEW l \in Locations, NEW q \in Reservable, ReserveRead(c, l, q)
      PROVE  IInv'
  <2>1. Read(c, "reserve", l, q) /\ stock[l].version > 0
    BY <1>1 DEF ReserveRead
  <2>2. QED
    BY <2>1, ReadIInv
<1>2. ASSUME NEW c \in Clerks, NEW l \in Locations, NEW q \in Releasable, ReleaseRead(c, l, q)
      PROVE  IInv'
  <2>1. Read(c, "release", l, q) /\ stock[l].version > 0
    BY <1>2 DEF ReleaseRead
  <2>2. QED
    BY <2>1, ReadIInv
<1>3. ASSUME NEW c \in Clerks, NEW l \in Locations, NEW n \in Levels, SetRead(c, l, n)
      PROVE  IInv'
  <2>1. Read(c, "set", l, n)
    BY <1>3 DEF SetRead
  <2>2. QED
    BY <2>1, ReadIInv
<1>4. ASSUME NEW c \in Clerks, ReserveWrite(c)
      PROVE  IInv'
  <2>1. job[c] # Idle /\ job[c].op = "reserve"
    BY <1>4 DEF ReserveWrite, Idle
  <2>2. job[c].n \in Nat /\ job[c].seen \in Row
    BY <2>1, JobFacts
  <2>3. /\ job[c].seen.reserved + job[c].n \in Nat
        /\ Clamp(job[c].seen.onHand - (job[c].seen.reserved + job[c].n)) \in Int
    BY <2>2, ClampNat DEF Row
  <2>4. QED
    BY <1>4, <2>1, <2>3, GuardedWrite DEF ReserveWrite
<1>5. ASSUME NEW c \in Clerks, ReleaseWrite(c)
      PROVE  IInv'
  <2>1. job[c] # Idle /\ job[c].op = "release"
    BY <1>5 DEF ReleaseWrite, Idle
  <2>2. job[c].n \in Nat /\ job[c].seen \in Row
    BY <2>1, JobFacts
  <2>3. /\ Clamp(job[c].seen.reserved - job[c].n) \in Nat
        /\ job[c].seen.onHand - Clamp(job[c].seen.reserved - job[c].n) \in Int
    BY <2>2, ClampNat DEF Row
  <2>4. QED
    BY <1>5, <2>1, <2>3, GuardedWrite DEF ReleaseWrite
<1>6. ASSUME NEW c \in Clerks, OptimisticLockFailure(c)
      PROVE  IInv'
  <2>1. job[c] # Idle /\ Finish(c) /\ stock' = stock
    BY <1>6 DEF OptimisticLockFailure, Idle
  <2>2. stock' = [stock EXCEPT ![job[c].loc] = stock[job[c].loc]]
    BY <2>1, JobFacts DEF IInv, TypeOK
  <2>3. stock[job[c].loc] \in Row /\ job[c].loc \in Locations
    BY <2>1, JobFacts
  <2>4. stock[job[c].loc].version = 0 => stock[job[c].loc].reserved = 0
    BY <2>3 DEF IInv, NoRowIsEmpty
  <2>5. QED
    BY <2>1, <2>2, <2>3, <2>4, WriteIInv
<1>7. ASSUME NEW c \in Clerks, SetUpdate(c)
      PROVE  IInv'
  <2> DEFINE old == stock[job[c].loc]
             free == Clamp(job[c].n - job[c].seen.reserved)
             row == Recounted(old, job[c].n, free)
  <2>1. job[c] # Idle /\ Finish(c)
    BY <1>7 DEF SetUpdate, Idle
  <2>2. job[c].n \in Nat /\ job[c].seen \in Row /\ old \in Row /\ job[c].loc \in Locations
    BY <2>1, JobFacts
  <2>3. free \in Int
    BY <2>2, ClampNat DEF Row
  <2>4. row \in Row /\ row.version = old.version /\ row.reserved = old.reserved
    BY ZenonT(40), <2>2, <2>3, RowUpdates
  <2>5. stock' = [stock EXCEPT ![job[c].loc] = row]
    BY <1>7, <2>2 DEF SetUpdate, IInv, TypeOK
  <2>6. row.version = 0 => row.reserved = 0
    BY <2>2, <2>4 DEF IInv, NoRowIsEmpty
  <2> HIDE DEF row
  <2>7. QED
    BY <2>1, <2>4, <2>5, <2>6, WriteIInv
<1>8. ASSUME NEW c \in Clerks, SetCreate(c)
      PROVE  IInv'
  <2> DEFINE old == stock[job[c].loc]
             row == IF old.version = 0 THEN FreshRow(job[c].n) ELSE old
  <2>1. job[c] # Idle /\ Finish(c)
    BY <1>8 DEF SetCreate, Idle
  <2>2. job[c].n \in Nat /\ old \in Row /\ job[c].loc \in Locations
    BY <2>1, JobFacts
  <2>3. FreshRow(job[c].n) \in Row /\ FreshRow(job[c].n).version = 1
    BY <2>2 DEF FreshRow, Row
  <2>4. /\ row \in Row
        /\ \/ row.version = old.version + 1
           \/ row.version = old.version /\ row.reserved = old.reserved
        /\ row.version = 0 => row.reserved = 0
    BY <2>2, <2>3 DEF IInv, NoRowIsEmpty
  <2>5. stock' = [stock EXCEPT ![job[c].loc] = row]
    BY <1>8, <2>2 DEF SetCreate, IInv, TypeOK
  <2> HIDE DEF row
  <2>6. QED
    BY <2>1, <2>4, <2>5, WriteIInv
<1>9. CASE UNCHANGED vars
  BY <1>9 DEF vars, IInv, TypeOK, ReadIsCurrent, NoRowIsEmpty
<1>10. QED
  BY <1>1, <1>2, <1>3, <1>4, <1>5, <1>6, <1>7, <1>8, <1>9 DEF Serve

\* Type correctness of the stock rows and of the requests in flight, and the
\* soundness of the version check, in every reachable state.
THEOREM TypeCorrect == Spec => []TypeOK
<1>1. Spec => []IInv
  BY InitIInv, NextIInv, NextServes, PTL DEF Spec
<1>2. IInv => TypeOK
  BY DEF IInv
<1>3. QED
  BY <1>1, <1>2, PTL

-----------------------------------------------------------------------------
(***************************************************************************)
(* The optimistic-locking protocol implements the atomic ledger.           *)
(***************************************************************************)

\* What the ledger sees of a row.
claims == [l \in Locations |-> stock[l].reserved]
acks == [l \in Locations |-> stock[l].version]

\* A guarded write is acknowledged by the ledger with the total it stores.
LEMMA LedgerAcknowledge ==
  ASSUME IInv, NEW l \in Locations, stock[l].version > 0,
         NEW r \in Nat, NEW a \in Int,
         stock' = [stock EXCEPT ![l] = Reserved(stock[l], r, a)]
  PROVE  Ledger!Acknowledge(l, r)
<1>1. stock \in [Locations -> Row] /\ stock[l] \in Row
  BY DEF IInv, TypeOK
<1>2. Reserved(stock[l], r, a).reserved = r /\ Reserved(stock[l], r, a).version = stock[l].version + 1
  BY DEF Reserved
<1>3. claims' = [claims EXCEPT ![l] = r] /\ acks' = [acks EXCEPT ![l] = stock[l].version + 1]
  BY <1>1, <1>2 DEF claims, acks
<1>4. QED
  BY <1>1, <1>3 DEF Ledger!Acknowledge, claims, acks

\* setStock's write to an existing row is invisible to the ledger.
LEMMA LedgerBlindToRecount ==
  ASSUME IInv, NEW l \in Locations, NEW n \in Nat, NEW a \in Int,
         stock' = [stock EXCEPT ![l] = Recounted(stock[l], n, a)]
  PROVE  claims' = claims /\ acks' = acks
<1>1. stock \in [Locations -> Row]
  BY DEF IInv, TypeOK
<1>2. /\ Recounted(stock[l], n, a).reserved = stock[l].reserved
      /\ Recounted(stock[l], n, a).version = stock[l].version
  BY DEF Recounted
<1>3. QED
  BY <1>1, <1>2 DEF claims, acks

\* A row's creation opens its account.
LEMMA LedgerOpen ==
  ASSUME IInv, NEW l \in Locations, NEW n \in Nat, stock[l].version = 0,
         stock' = [stock EXCEPT ![l] = FreshRow(n)]
  PROVE  Ledger!Open(l)
<1>1. stock \in [Locations -> Row] /\ stock[l].reserved = 0
  BY DEF IInv, TypeOK, NoRowIsEmpty
<1>2. FreshRow(n).reserved = 0 /\ FreshRow(n).version = 1
  BY DEF FreshRow
<1>3. claims' = claims /\ acks' = [acks EXCEPT ![l] = 1] /\ acks[l] = 0
  BY <1>1, <1>2 DEF claims, acks
<1>4. QED
  BY <1>3 DEF Ledger!Open, claims, acks

LEMMA LedgerInit == Init => Ledger!Init
<1> SUFFICES ASSUME Init PROVE Ledger!Init
  OBVIOUS
<1>1. \A l \in Locations : stock[l].reserved = 0 /\ stock[l].version \in {0, 1}
  BY DEF Init, NoRow, FreshRow
<1>2. QED
  BY <1>1 DEF Ledger!Init

\* A guarded write whose version check succeeded acts on the reservations that
\* are in the row at that moment.
LEMMA FreshRead ==
  ASSUME IInv, NEW c \in Clerks, job[c] # Idle, VersionStillRead(c)
  PROVE  /\ job[c].seen.reserved = stock[job[c].loc].reserved
         /\ job[c].op # "set" => stock[job[c].loc].version > 0
BY DEF IInv, ReadIsCurrent, VersionStillRead

LEMMA LedgerStep == IInv /\ [Serve]_vars => [Ledger!Next]_(Ledger!ledgerVars)
<1> SUFFICES ASSUME IInv, [Serve]_vars
             PROVE  Ledger!Next \/ (claims' = claims /\ acks' = acks)
  BY DEF Ledger!ledgerVars, claims, acks
<1>1. ASSUME stock' = stock
      PROVE  claims' = claims /\ acks' = acks
  BY <1>1 DEF claims, acks
<1>2. ASSUME NEW c \in Clerks, ReserveWrite(c)
      PROVE  Ledger!Next
  <2>1. job[c] # Idle /\ job[c].op = "reserve" /\ VersionStillRead(c)
    BY <1>2 DEF ReserveWrite, Idle
  <2>2. PICK l \in Locations, q \in Reservable, on \in Nat :
          /\ job[c].loc = l /\ job[c].n = q /\ job[c].seen.onHand = on
          /\ job[c].seen.reserved = stock[l].reserved /\ stock[l].version > 0
    BY <2>1, JobFacts, FreshRead DEF IInv, ReadIsCurrent, Row
  <2>3. PICK total \in Nat : total = stock[l].reserved + q
    BY InventoryAssumption DEF IInv, TypeOK, Row
  <2>4. Clamp(on - total) \in Int
    BY ClampNat
  <2>5. stock' = [stock EXCEPT ![l] = Reserved(stock[l], total, Clamp(on - total))]
    BY <1>2, <2>2, <2>3 DEF ReserveWrite
  <2>6. Ledger!Acknowledge(l, total)
    BY <2>2, <2>4, <2>5, LedgerAcknowledge
  <2>7. Ledger!Take(l, q)
    BY <2>3, <2>6 DEF Ledger!Take, Ledger!Acknowledge
  <2>8. QED
    BY <2>7 DEF Ledger!Next
<1>3. ASSUME NEW c \in Clerks, ReleaseWrite(c)
      PROVE  Ledger!Next
  <2>1. job[c] # Idle /\ job[c].op = "release" /\ VersionStillRead(c)
    BY <1>3 DEF ReleaseWrite, Idle
  <2>2. PICK l \in Locations, q \in Releasable, on \in Nat :
          /\ job[c].loc = l /\ job[c].n = q /\ job[c].seen.onHand = on
          /\ job[c].seen.reserved = stock[l].reserved /\ stock[l].version > 0
    BY <2>1, JobFacts, FreshRead DEF IInv, ReadIsCurrent, Row
  <2>3. PICK total \in Nat : total = Clamp(stock[l].reserved - q)
    BY InventoryAssumption, ClampNat DEF IInv, TypeOK, Row
  <2>4. on - total \in Int
    OBVIOUS
  <2>5. stock' = [stock EXCEPT ![l] = Reserved(stock[l], total, on - total)]
    BY <1>3, <2>2, <2>3 DEF ReleaseWrite
  <2>6. Ledger!Acknowledge(l, total)
    BY <2>2, <2>4, <2>5, LedgerAcknowledge
  <2>7. Ledger!GiveBack(l, q)
    BY <2>3, <2>6 DEF Ledger!GiveBack, Ledger!Acknowledge, Ledger!Clamp, Clamp
  <2>8. QED
    BY <2>7 DEF Ledger!Next
<1>4. ASSUME NEW c \in Clerks, SetUpdate(c)
      PROVE  claims' = claims /\ acks' = acks
  <2>1. job[c] # Idle
    BY <1>4 DEF SetUpdate, Idle
  <2>2. PICK l \in Locations, n \in Nat, r \in Nat :
          job[c].loc = l /\ job[c].n = n /\ job[c].seen.reserved = r
    BY <2>1, JobFacts DEF Row
  <2>3. Clamp(n - r) \in Int
    BY ClampNat
  <2>4. stock' = [stock EXCEPT ![l] = Recounted(stock[l], n, Clamp(n - r))]
    BY <1>4, <2>2 DEF SetUpdate
  <2>5. QED
    BY <2>3, <2>4, LedgerBlindToRecount
<1>5. ASSUME NEW c \in Clerks, SetCreate(c)
      PROVE  Ledger!Next \/ (claims' = claims /\ acks' = acks)
  <2>1. job[c] # Idle
    BY <1>5 DEF SetCreate, Idle
  <2>2. PICK l \in Locations, n \in Nat : job[c].loc = l /\ job[c].n = n
    BY <2>1, JobFacts
  <2>3. CASE stock[l].version = 0
    <3>1. stock' = [stock EXCEPT ![l] = FreshRow(n)]
      BY <1>5, <2>2, <2>3 DEF SetCreate
    <3>2. Ledger!Open(l)
      BY <2>3, <3>1, LedgerOpen
    <3>3. QED
      BY <3>2 DEF Ledger!Next
  <2>4. CASE stock[l].version # 0
    BY <1>1, <1>5, <2>2, <2>4 DEF SetCreate
  <2>5. QED
    BY <2>3, <2>4
<1>6. CASE UNCHANGED vars
  BY <1>1, <1>6 DEF vars
<1>7. QED
  BY <1>1, <1>2, <1>3, <1>4, <1>5, <1>6
     DEF Serve, ReserveRead, ReleaseRead, SetRead, Read, OptimisticLockFailure

\* reserveStock and releaseReservation behave as if they read and wrote the
\* row at one instant: no reservation is ever lost or counted twice, whatever
\* setStock and other requests do in between.
THEOREM ImplementsLedger == Spec => LedgerSpec
<1>1. Spec => []IInv
  BY InitIInv, NextIInv, NextServes, PTL DEF Spec
<1>2. QED
  BY <1>1, LedgerInit, LedgerStep, NextServes, PTL DEF Spec, LedgerSpec, Ledger!Spec

-----------------------------------------------------------------------------
(***************************************************************************)
(* What the version check buys when counts are set on a quiet variant.     *)
(***************************************************************************)

\* If the version is still the one read, the whole row is; a request setting
\* a count, being alone, always acts on the row it read.
ReadIsWholeRow ==
  \A c \in Clerks :
    job[c] # Idle =>
      LET row == stock[job[c].loc]
          seen == job[c].seen
      IN  /\ seen.version = row.version \/ job[c].op = "set" => seen = row
          /\ job[c].op = "reserve" => job[c].n <= seen.available

QuietInv == IInv /\ RestockIsAlone /\ ReadIsWholeRow /\ AvailableIsComputed

LEMMA QuietInit == Init => QuietInv
<1> SUFFICES ASSUME Init PROVE QuietInv
  OBVIOUS
<1>1. \A l \in Locations : stock[l].available = stock[l].onHand - stock[l].reserved
  BY InventoryAssumption DEF Init, NoRow, FreshRow
<1>2. AvailableIsComputed
  BY <1>1 DEF AvailableIsComputed
<1>3. QED
  BY <1>2, InitIInv DEF Init, QuietInv, RestockIsAlone, ReadIsWholeRow, Idle

\* The read half leaves the rows alone; the request's copy is the row.
LEMMA QuietRead ==
  ASSUME QuietInv, NEW c \in Clerks, NEW l \in Locations,
         NEW op \in {"reserve", "release", "set"}, NEW n \in Nat,
         Read(c, op, l, n), op = "reserve" => n <= stock[l].available
  PROVE  ReadIsWholeRow' /\ AvailableIsComputed'
<1>1. stock' = stock
  BY DEF Read
<1>2. AvailableIsComputed'
  BY <1>1 DEF QuietInv, AvailableIsComputed
<1>3. ASSUME NEW d \in Clerks
      PROVE  job'[d] = IF d = c THEN [op |-> op, loc |-> l, n |-> n, seen |-> stock[l]]
                                ELSE job[d]
  BY DEF Read, QuietInv, IInv, TypeOK
<1>4. ReadIsWholeRow'
  BY <1>1, <1>3 DEF QuietInv, ReadIsWholeRow
<1>5. QED
  BY <1>2, <1>4

\* The write half: the row stored has either moved to a new version, which no
\* other request has read, or was stored by a request that is alone.
LEMMA QuietWrite ==
  ASSUME QuietInv, NEW c \in Clerks, job[c] # Idle, NEW row \in Row,
         stock' = [stock EXCEPT ![job[c].loc] = row],
         Finish(c),
         row.version = stock[job[c].loc].version + 1 \/ job[c].op = "set"
           \/ row = stock[job[c].loc],
         row.available \in {row.onHand - row.reserved, Clamp(row.onHand - row.reserved)}
  PROVE  ReadIsWholeRow' /\ AvailableIsComputed'
<1>1. IInv /\ job[c].loc \in Locations
  BY JobFacts DEF QuietInv
<1>2. AvailableIsComputed'
  BY <1>1 DEF QuietInv, AvailableIsComputed, IInv, TypeOK
<1>3. ReadIsWholeRow'
  <2> SUFFICES ASSUME NEW d \in Clerks, job'[d] # Idle
               PROVE  /\ (job'[d].seen.version = stock'[job'[d].loc].version \/ job'[d].op = "set")
                           => job'[d].seen = stock'[job'[d].loc]
                      /\ job'[d].op = "reserve" => job'[d].n <= job'[d].seen.available
    BY DEF ReadIsWholeRow
  <2>1. d # c /\ job'[d] = job[d]
    BY <1>1 DEF IInv, TypeOK, Finish
  <2>2. /\ job[d] \in Jobs /\ job[d].loc \in Locations /\ job[d].op # "idle"
        /\ job[d].seen \in Row /\ stock[job[d].loc] \in Row
        /\ job[d].seen.version <= stock[job[d].loc].version
    BY <1>1, <2>1, JobFacts DEF IInv, ReadIsCurrent, Jobs
  <2>3. job[c].op # "set" /\ job[d].op # "set"
    BY <2>1, <2>2, JobFacts, <1>1 DEF QuietInv, RestockIsAlone, Jobs
  <2>4. CASE job[d].loc = job[c].loc /\ row.version = stock[job[c].loc].version + 1
    <3>1. stock'[job[d].loc] = row
      BY <1>1, <2>4 DEF IInv, TypeOK
    <3>2. job[d].seen.version # row.version
      BY <2>2, <2>4 DEF Row
    <3>3. QED
      BY <2>1, <2>3, <3>1, <3>2 DEF QuietInv, ReadIsWholeRow
  <2>5. CASE ~(job[d].loc = job[c].loc /\ row.version = stock[job[c].loc].version + 1)
    <3>1. stock'[job[d].loc] = stock[job[d].loc]
      BY <1>1, <2>2, <2>3, <2>5 DEF IInv, TypeOK
    <3>2. QED
      BY <2>1, <3>1 DEF QuietInv, ReadIsWholeRow
  <2>6. QED
    BY <2>4, <2>5
<1>4. QED
  BY <1>2, <1>3

LEMMA QuietStep == QuietInv /\ [Serve /\ RestockIsAlone']_vars => QuietInv'
<1> SUFFICES ASSUME QuietInv, [Serve /\ RestockIsAlone']_vars
             PROVE  QuietInv'
  OBVIOUS
<1>a. IInv'
  BY NextIInv DEF QuietInv
<1>b. RestockIsAlone'
  BY DEF QuietInv, RestockIsAlone, vars
<1> SUFFICES ReadIsWholeRow' /\ AvailableIsComputed'
  BY <1>a, <1>b DEF QuietInv
<1> USE InventoryAssumption
<1>1. ASSUME NEW c \in Clerks, NEW l \in Locations, NEW q \in Reservable, ReserveRead(c, l, q)
      PROVE  ReadIsWholeRow' /\ AvailableIsComputed'
  <2>1. Read(c, "reserve", l, q) /\ q <= stock[l].available
    BY <1>1 DEF ReserveRead, QuietInv, IInv, TypeOK, Row
  <2>2. QED
    BY <2>1, QuietRead
<1>2. ASSUME NEW c \in Clerks, NEW l \in Locations, NEW q \in Releasable, ReleaseRead(c, l, q)
      PROVE  ReadIsWholeRow' /\ AvailableIsComputed'
  BY <1>2, QuietRead DEF ReleaseRead
<1>3. ASSUME NEW c \in Clerks, NEW l \in Locations, NEW n \in Levels, SetRead(c, l, n)
      PROVE  ReadIsWholeRow' /\ AvailableIsComputed'
  BY <1>3, QuietRead DEF SetRead
<1>4. ASSUME NEW c \in Clerks, job[c] # Idle, VersionStillRead(c)
      PROVE  job[c].seen = stock[job[c].loc]
  BY <1>4 DEF QuietInv, ReadIsWholeRow, VersionStillRead
<1>5. ASSUME NEW c \in Clerks, ReserveWrite(c)
      PROVE  ReadIsWholeRow' /\ AvailableIsComputed'
  <2> DEFINE old == stock[job[c].loc]
             total == old.reserved + job[c].n
             row == Reserved(old, total, Clamp(old.onHand - total))
  <2>1. job[c] # Idle /\ VersionStillRead(c) /\ Finish(c)
    BY <1>5 DEF ReserveWrite, Idle
  <2>2. old \in Row /\ job[c].n \in Nat /\ job[c].seen = old
    BY <1>4, <2>1, JobFacts DEF QuietInv
  <2>3. total \in Nat /\ Clamp(old.onHand - total) \in Int
    BY <2>2, ClampNat DEF Row
  <2>4. row \in Row /\ row.version = old.version + 1
    BY <2>2, <2>3, RowUpdates
  <2>5. row.available = Clamp(row.onHand - row.reserved)
    BY DEF Reserved
  <2>6. stock' = [stock EXCEPT ![job[c].loc] = row]
    BY <1>5, <2>2 DEF ReserveWrite
  <2> HIDE DEF row
  <2>7. QED
    BY <2>1, <2>4, <2>5, <2>6, QuietWrite
<1>6. ASSUME NEW c \in Clerks, ReleaseWrite(c)
      PROVE  ReadIsWholeRow' /\ AvailableIsComputed'
  <2> DEFINE old == stock[job[c].loc]
             total == Clamp(old.reserved - job[c].n)
             row == Reserved(old, total, old.onHand - total)
  <2>1. job[c] # Idle /\ VersionStillRead(c) /\ Finish(c)
    BY <1>6 DEF ReleaseWrite, Idle
  <2>2. old \in Row /\ job[c].n \in Nat /\ job[c].seen = old
    BY <1>4, <2>1, JobFacts DEF QuietInv
  <2>3. total \in Nat /\ old.onHand - total \in Int
    BY <2>2, ClampNat DEF Row
  <2>4. row \in Row /\ row.version = old.version + 1
    BY <2>2, <2>3, RowUpdates
  <2>5. row.available = row.onHand - row.reserved
    BY DEF Reserved
  <2>6. stock' = [stock EXCEPT ![job[c].loc] = row]
    BY <1>6, <2>2 DEF ReleaseWrite
  <2> HIDE DEF row
  <2>7. QED
    BY <2>1, <2>4, <2>5, <2>6, QuietWrite
<1>7. ASSUME NEW c \in Clerks, SetUpdate(c)
      PROVE  ReadIsWholeRow' /\ AvailableIsComputed'
  <2> DEFINE old == stock[job[c].loc]
             row == Recounted(old, job[c].n, Clamp(job[c].n - old.reserved))
  <2>1. job[c] # Idle /\ Finish(c) /\ job[c].op = "set"
    BY <1>7 DEF SetUpdate, Idle
  <2>2. old \in Row /\ job[c].n \in Nat /\ job[c].seen = old
    BY <2>1, JobFacts DEF QuietInv, ReadIsWholeRow
  <2>3. Clamp(job[c].n - old.reserved) \in Int
    BY <2>2, ClampNat DEF Row
  <2>4. row \in Row
    BY <2>2, <2>3, RowUpdates
  <2>5. row.available = Clamp(row.onHand - row.reserved)
    BY DEF Recounted
  <2>6. stock' = [stock EXCEPT ![job[c].loc] = row]
    BY <1>7, <2>2 DEF SetUpdate
  <2> HIDE DEF row
  <2>7. QED
    BY <2>1, <2>4, <2>5, <2>6, QuietWrite
<1>8. ASSUME NEW c \in Clerks, SetCreate(c)
      PROVE  ReadIsWholeRow' /\ AvailableIsComputed'
  <2> DEFINE row == FreshRow(job[c].n)
  <2>1. job[c] # Idle /\ Finish(c) /\ job[c].op = "set" /\ job[c].seen.version = 0
    BY <1>8 DEF SetCreate, Idle
  <2>2. job[c].n \in Nat /\ job[c].seen = stock[job[c].loc]
    BY <2>1, JobFacts DEF QuietInv, ReadIsWholeRow
  <2>3. row \in Row /\ row.available = row.onHand - row.reserved
    BY <2>2 DEF FreshRow, Row
  <2>4. stock' = [stock EXCEPT ![job[c].loc] = row]
    BY <1>8, <2>1, <2>2 DEF SetCreate
  <2> HIDE DEF row
  <2>5. QED
    BY <2>1, <2>3, <2>4, QuietWrite
<1>9. ASSUME NEW c \in Clerks, OptimisticLockFailure(c)
      PROVE  ReadIsWholeRow' /\ AvailableIsComputed'
  <2> DEFINE row == stock[job[c].loc]
  <2>1. job[c] # Idle /\ Finish(c) /\ stock' = stock
    BY <1>9 DEF OptimisticLockFailure, Idle
  <2>2. row \in Row /\ job[c].loc \in Locations
    BY <2>1, JobFacts DEF QuietInv
  <2>3. row.available \in {row.onHand - row.reserved, Clamp(row.onHand - row.reserved)}
    BY <2>2 DEF QuietInv, AvailableIsComputed
  <2>4. stock' = [stock EXCEPT ![job[c].loc] = row]
    BY <2>1, <2>2 DEF QuietInv, IInv, TypeOK
  <2>5. QED
    BY <2>1, <2>2, <2>3, <2>4, QuietWrite
<1>10. CASE UNCHANGED vars
  BY <1>10 DEF vars, QuietInv, ReadIsWholeRow, AvailableIsComputed
<1>11. QED
  BY <1>1, <1>2, <1>3, <1>5, <1>6, <1>7, <1>8, <1>9, <1>10 DEF Serve

\* The invariant of every behaviour: the quiet one holds while it is calm.
CalmInv == IInv /\ (calm => QuietInv)

\* A step after which it is still calm is a step of a quiet deployment.
LEMMA CalmStep ==
  ASSUME CalmInv, [Next]_vars, calm'
  PROVE  QuietInv /\ [Serve /\ RestockIsAlone']_vars
<1>1. CASE UNCHANGED vars
  BY <1>1 DEF vars, CalmInv
<1>2. CASE Next
  BY <1>2 DEF Next, CalmInv
<1>3. QED
  BY <1>1, <1>2

LEMMA CalmInvariant == Spec => []CalmInv
<1>1. Init => CalmInv
  BY InitIInv, QuietInit DEF CalmInv
<1>2. CalmInv /\ [Next]_vars => CalmInv'
  <2> SUFFICES ASSUME CalmInv, [Next]_vars PROVE CalmInv'
    OBVIOUS
  <2>1. IInv'
    BY NextIInv, NextServes DEF CalmInv
  <2>2. ASSUME calm' PROVE QuietInv'
    BY <2>2, CalmStep, QuietStep
  <2>3. QED
    BY <2>1, <2>2 DEF CalmInv
<1>3. QED
  BY <1>1, <1>2, PTL DEF Spec

\* If no count is set while another request is in flight, the available column
\* of every row is what the schema says it is.
THEOREM QuietAvailable == Spec => []CalmAvailable
<1>1. CalmInv => CalmAvailable
  BY DEF CalmInv, QuietInv, CalmAvailable
<1>2. QED
  BY <1>1, CalmInvariant, PTL

\* A reservation that succeeds fits in the physical count: it acted on the
\* available stock that is in the row, which the invariant ties to the count.
LEMMA QuietReservationFits ==
  ASSUME QuietInv, NEW c \in Clerks, ReserveWrite(c), NEW l \in Locations,
         stock'[l].reserved > stock[l].reserved
  PROVE  stock'[l].reserved <= stock'[l].onHand
<1>1. job[c] # Idle /\ VersionStillRead(c) /\ job[c].op = "reserve"
  BY DEF ReserveWrite, Idle
<1>2. job[c].seen = stock[job[c].loc] /\ job[c].n <= stock[job[c].loc].available
  BY <1>1 DEF QuietInv, ReadIsWholeRow, VersionStillRead
<1>3. PICK k \in Locations, q \in Nat \ {0}, on \in Nat, r \in Nat :
        /\ job[c].loc = k /\ job[c].n = q /\ stock[k].onHand = on /\ stock[k].reserved = r
  BY <1>1, JobFacts, InventoryAssumption DEF QuietInv, IInv, ReadIsCurrent, Row
<1>4. q <= on - r
  BY <1>2, <1>3 DEF QuietInv, AvailableIsComputed, Clamp
<1>5. stock' = [stock EXCEPT ![k] = Reserved(stock[k], r + q, Clamp(on - (r + q)))]
  BY <1>2, <1>3 DEF ReserveWrite
<1>6. stock \in [Locations -> Row] /\ stock[l] \in Row
  BY DEF QuietInv, IInv, TypeOK
<1>7. CASE l = k
  BY <1>3, <1>4, <1>5, <1>6, <1>7 DEF Reserved
<1>8. CASE l # k
  BY <1>5, <1>6, <1>8 DEF Row
<1>9. QED
  BY <1>7, <1>8

LEMMA QuietNoOversellStep ==
  QuietInv /\ [Serve /\ RestockIsAlone']_vars =>
    [\A l \in Locations :
       stock'[l].reserved > stock[l].reserved => stock'[l].reserved <= stock'[l].onHand]_vars
<1> SUFFICES ASSUME QuietInv, Serve, NEW l \in Locations,
                    stock'[l].reserved > stock[l].reserved
             PROVE  stock'[l].reserved <= stock'[l].onHand
  BY DEF vars
<1>1. stock \in [Locations -> Row] /\ stock[l].reserved \in Nat /\ stock'[l].reserved \in Nat
  BY NextIInv DEF QuietInv, IInv, TypeOK, Row
<1>2. stock' # stock
  BY <1>1
<1>3. ASSUME NEW c \in Clerks, ReleaseWrite(c)
      PROVE  stock'[l].reserved <= stock[l].reserved
  <2>1. job[c] # Idle /\ VersionStillRead(c)
    BY <1>3 DEF ReleaseWrite, Idle
  <2>2. job[c].seen = stock[job[c].loc]
    BY <2>1 DEF QuietInv, ReadIsWholeRow, VersionStillRead
  <2>3. PICK k \in Locations, q \in Nat, on \in Nat, r \in Nat :
          /\ job[c].loc = k /\ job[c].n = q /\ stock[k].onHand = on /\ stock[k].reserved = r
    BY <2>1, JobFacts DEF QuietInv, Row
  <2>4. stock' = [stock EXCEPT ![k] = Reserved(stock[k], Clamp(r - q), on - Clamp(r - q))]
    BY <1>3, <2>2, <2>3 DEF ReleaseWrite
  <2>5. Clamp(r - q) <= r
    BY DEF Clamp
  <2>6. QED
    BY <1>1, <2>3, <2>4, <2>5 DEF Reserved
<1>4. ASSUME NEW c \in Clerks, SetUpdate(c) \/ SetCreate(c)
      PROVE  stock'[l].reserved <= stock[l].reserved
  BY <1>1, <1>4 DEF SetUpdate, SetCreate, Recounted, FreshRow
<1>5. PICK c \in Clerks : ReserveWrite(c)
  BY <1>1, <1>2, <1>3, <1>4
     DEF Serve, ReserveRead, ReleaseRead, SetRead, Read, OptimisticLockFailure
<1>6. QED
  BY <1>5, QuietReservationFits

\* Two checkouts can never together reserve more than the shelf holds, as long
\* as no count is being set while they run.
THEOREM QuietNoOversell == Spec => NoOversell
<1>1. CalmInv /\ [Next]_vars =>
        [\A l \in Locations :
           calm' /\ stock'[l].reserved > stock[l].reserved
             => stock'[l].reserved <= stock'[l].onHand]_vars
  <2> SUFFICES ASSUME CalmInv, [Next]_vars, vars' # vars, calm'
               PROVE  \A l \in Locations :
                        stock'[l].reserved > stock[l].reserved
                          => stock'[l].reserved <= stock'[l].onHand
    OBVIOUS
  <2>1. QuietInv /\ [Serve /\ RestockIsAlone']_vars
    BY CalmStep
  <2>2. QED
    BY <2>1, QuietNoOversellStep
<1>2. QED
  BY <1>1, CalmInvariant, PTL DEF Spec, NoOversell

-----------------------------------------------------------------------------
(***************************************************************************)
(* The cart and the offers of a customer (Checkout).  What a request has   *)
(* read holds until it writes, while it is served alone.                   *)
(***************************************************************************)
Checking == {"coupon", "first", "promotions", "stock", "reserve"}

Adding == [at : {"add"}, of : Variants, seen : Nat]

Ordering ==
  [at : Checking, items : [Variants -> Nat], fromCart : BOOLEAN, codes : SUBSET Coupons,
   first : BOOLEAN, applied : SUBSET Promotions, left : SUBSET Variants,
   of : SUBSET Variants, held : SUBSET Variants]

ShoppingTypeOK ==
  /\ cart \in [Variants -> Nat] /\ wanted \in [Variants -> Nat] /\ sold \in [Variants -> Nat]
  /\ orders \in Nat
  /\ used \in [Offers -> Nat]
  /\ visit \in [Shoppers -> {Free} \cup Adding \cup Ordering]
  /\ IsFiniteSet(Busy)

\* What a request has read is still so.
UpToDate(q) ==
  /\ q.at = "add" => q.seen = cart[q.of]
  /\ q.at \in Checking /\ q.fromCart => q.items = cart
  /\ q.at \in {"first", "promotions", "stock", "reserve"} => \A o \in q.codes : HasUses(o)
  /\ q.at \in {"promotions", "stock", "reserve"} /\ q.first => orders = 0
  /\ q.at \in {"stock", "reserve"}
       => \A o \in q.applied : HasUses(o) /\ (o \in FirstOnly => q.first)

AloneInv ==
  /\ \A s, t \in Busy : s = t
  /\ \A s \in Shoppers : UpToDate(visit[s])
  /\ \A v \in Variants : wanted[v] = cart[v] + sold[v]
  /\ \A o \in Offers : used[o] <= UsageLimit[o]
  /\ \A p \in FirstOnly : used[p] <= 1

ShoppingInv ==
  /\ ShoppingTypeOK
  /\ \A o \in Offers : used[o] <= orders
  /\ serial => AloneInv

LEMMA VisitIsTyped ==
  ASSUME ShoppingTypeOK, NEW s \in Shoppers
  PROVE  /\ visit[s].at = "add" => visit[s] \in Adding
         /\ visit[s].at \in Checking => visit[s] \in Ordering
         /\ visit[s].at \in Checking \cup {"add"} => visit[s] # Free
BY DEF ShoppingTypeOK, Free, Adding, Ordering, Checking

\* A step of one request moves on no other.
LEMMA OneMoves ==
  ASSUME ShoppingTypeOK, NEW s \in Shoppers, NEW step, Goto(s, step)
  PROVE  /\ visit'[s] = step
         /\ \A t \in Shoppers \ {s} : visit'[t] = visit[t]
         /\ IsFiniteSet(Busy')
<1>1. /\ visit'[s] = step
      /\ \A t \in Shoppers \ {s} : visit'[t] = visit[t]
  BY DEF ShoppingTypeOK, Goto
<1>2. Busy' \in SUBSET (Busy \cup {s})
  BY <1>1 DEF Busy
<1>3. IsFiniteSet(Busy \cup {s})
  BY FS_AddElement DEF ShoppingTypeOK
<1>4. IsFiniteSet(Busy')
  BY <1>2, <1>3, FS_Subset
<1> QED
  BY <1>1, <1>4

LEMMA AtMostOne ==
  ASSUME NEW S, IsFiniteSet(S), Cardinality(S) <= 1, NEW a \in S, NEW b \in S
  PROVE  a = b
<1>1. IsFiniteSet(S \ {a}) /\ Cardinality(S \ {a}) = Cardinality(S) - 1
  BY FS_RemoveElement
<1>2. Cardinality(S) \in Nat /\ Cardinality(S \ {a}) \in Nat
  BY <1>1, FS_CardinalityType
<1>3. Cardinality(S \ {a}) = 0
  BY <1>1, <1>2
<1>4. S \ {a} = {}
  BY <1>1, <1>3, FS_EmptySet
<1> QED
  BY <1>4

\* What a checkout reads on its way stays an ordering.
LEMMA OrderingGoesOn ==
  ASSUME NEW q \in Ordering
  PROVE  /\ [q EXCEPT !.at = "first"] \in Ordering
         /\ \A first \in BOOLEAN : [q EXCEPT !.at = "promotions", !.first = first] \in Ordering
         /\ \A applied \in SUBSET Promotions :
              [q EXCEPT !.at = "stock", !.applied = applied] \in Ordering
         /\ \A at \in {"reserve", "stock"}, of, left \in SUBSET Variants :
              [q EXCEPT !.at = at, !.of = of, !.left = left] \in Ordering
         /\ \A held \in SUBSET Variants :
              [q EXCEPT !.at = "stock", !.of = {}, !.held = held] \in Ordering
BY DEF Ordering, Checking

LEMMA ShoppingTypes ==
  ASSUME ShoppingTypeOK, [ShoppingNext]_shoppingVars
  PROVE  ShoppingTypeOK'
<1> USE DEF ShoppingTypeOK, placed
<1>1. ASSUME NEW s \in Shoppers, NEW step \in {Free} \cup Adding \cup Ordering,
             Goto(s, step), UNCHANGED <<cart, placed, wanted>>
      PROVE  ShoppingTypeOK'
  <2>1. visit' \in [Shoppers -> {Free} \cup Adding \cup Ordering]
    BY <1>1 DEF Goto
  <2> QED
    BY <1>1, <2>1, OneMoves
<1>2. ASSUME NEW s \in Shoppers, AddWrite(s) PROVE ShoppingTypeOK'
  <2>1. visit[s] \in Adding
    BY <1>2, VisitIsTyped DEF AddWrite, At
  <2>2. cart' \in [Variants -> Nat] /\ wanted' \in [Variants -> Nat]
    BY <1>2, <2>1 DEF AddWrite, Adding
  <2>3. visit' \in [Shoppers -> {Free} \cup Adding \cup Ordering] /\ IsFiniteSet(Busy')
    BY <1>2, OneMoves DEF AddWrite, Goto
  <2> QED
    BY <1>2, <2>2, <2>3 DEF AddWrite
<1>3. ASSUME NEW s \in Shoppers, NEW v \in Variants, AddRead(s, v) PROVE ShoppingTypeOK'
  <2>1. [at |-> "add", of |-> v, seen |-> cart[v]] \in Adding
    BY DEF Adding
  <2> QED
    BY <1>1, <1>3, <2>1 DEF AddRead
<1>4. ASSUME NEW s \in Shoppers, NEW items \in [Variants -> Nat], NEW fromCart \in BOOLEAN,
             NEW codes \in SUBSET Coupons, Begin(s, items, fromCart, codes),
             UNCHANGED <<cart, placed, wanted>>
      PROVE  ShoppingTypeOK'
  <2> DEFINE step == [at |-> "coupon", items |-> items, fromCart |-> fromCart, codes |-> codes,
                      first |-> FALSE, applied |-> {}, left |-> {v \in Variants : items[v] > 0},
                      of |-> {}, held |-> {}]
  <2>1. step \in Ordering
    BY DEF Ordering, Checking
  <2> QED
    BY <1>1, <1>4, <2>1 DEF Begin
<1>5. ASSUME NEW s \in Shoppers, NEW v \in Variants, NEW codes \in SUBSET Coupons,
             FromCart(s, codes) \/ Direct(s, v, codes)
      PROVE  ShoppingTypeOK'
  <2>1. [w \in Variants |-> IF w = v THEN 1 ELSE 0] \in [Variants -> Nat]
    OBVIOUS
  <2> QED
    BY <1>4, <1>5, <2>1 DEF FromCart, Direct
<1>6. ASSUME NEW s \in Shoppers, ReadCoupon(s) \/ ReadFirst(s) \/ ReadPromotions(s)
      PROVE  ShoppingTypeOK'
  <2>1. visit[s] \in Ordering
    <3>1. visit[s].at \in Checking
      BY <1>6 DEF ReadCoupon, ReadFirst, ReadPromotions, At, Checking
    <3> QED
      BY <3>1, VisitIsTyped
  <2>2. CASE ReadCoupon(s)
    BY <1>1, <2>1, <2>2, OrderingGoesOn DEF ReadCoupon
  <2>3. CASE ReadFirst(s)
    <3>1. (orders = 0) \in BOOLEAN
      OBVIOUS
    <3>2. [visit[s] EXCEPT !.at = "promotions", !.first = (orders = 0)] \in Ordering
      BY <2>1, <3>1, OrderingGoesOn
    <3> QED
      BY <1>1, <2>3, <3>2 DEF ReadFirst
  <2>4. CASE ReadPromotions(s)
    BY <1>1, <2>1, <2>4, OrderingGoesOn DEF ReadPromotions
  <2> QED
    BY <1>6, <2>2, <2>3, <2>4
<1>7. ASSUME NEW s \in Shoppers, NEW v \in Variants, CheckStock(s, v) \/ Reserve(s, v)
      PROVE  ShoppingTypeOK'
  <2>1. visit[s] \in Ordering
    <3>1. visit[s].at \in Checking
      BY <1>7 DEF CheckStock, Reserve, At, Checking
    <3> QED
      BY <3>1, VisitIsTyped
  <2>2. CASE CheckStock(s, v)
    <3> DEFINE at == IF v \in Tracked THEN "reserve" ELSE "stock"
               of == IF v \in Tracked THEN {v} ELSE {}
               left == visit[s].left \ {v}
    <3>1. at \in {"reserve", "stock"} /\ of \in SUBSET Variants /\ left \in SUBSET Variants
      BY <2>1 DEF Ordering
    <3>2. [visit[s] EXCEPT !.at = at, !.of = of, !.left = left] \in Ordering
      BY <2>1, <3>1, OrderingGoesOn
    <3> QED
      BY <1>1, <2>2, <3>2 DEF CheckStock
  <2>3. CASE Reserve(s, v)
    <3>1. visit[s].held \cup {v} \in SUBSET Variants
      BY <2>1 DEF Ordering
    <3>2. [visit[s] EXCEPT !.at = "stock", !.of = {}, !.held = @ \cup {v}] \in Ordering
      BY <2>1, <3>1, OrderingGoesOn
    <3> QED
      BY <1>1, <2>3, <3>2 DEF Reserve
  <2> QED
    BY <1>7, <2>2, <2>3
<1>8. ASSUME NEW s \in Shoppers, Place(s) PROVE ShoppingTypeOK'
  <2>1. visit[s] \in Ordering
    BY <1>8, VisitIsTyped DEF Place, At, Checking
  <2>2. visit[s].items \in [Variants -> Nat]
    BY <2>1 DEF Ordering
  <2>3. /\ sold' \in [Variants -> Nat] /\ orders' \in Nat /\ used' \in [Offers -> Nat]
        /\ cart' \in [Variants -> Nat] /\ wanted' \in [Variants -> Nat]
    BY <1>8, <2>2 DEF Place
  <2>4. visit' \in [Shoppers -> {Free} \cup Adding \cup Ordering] /\ IsFiniteSet(Busy')
    BY <1>8, OneMoves DEF Place, Goto
  <2> QED
    BY <2>3, <2>4
<1>9. ASSUME NEW s \in Shoppers,
             \/ AddThrows(s) \/ CouponExhausted(s) \/ QuoteExpired(s) \/ Stops(s)
             \/ \E v \in Variants : OutOfStock(s, v) \/ ReserveRefused(s, v)
      PROVE  ShoppingTypeOK'
  <2>1. Goto(s, Free) /\ UNCHANGED <<cart, placed, wanted>>
    BY <1>9
       DEF AddThrows, CouponExhausted, QuoteExpired, Stops, OutOfStock, ReserveRefused, Refuse
  <2> QED
    BY <1>1, <2>1
<1>10. ASSUME NEW v \in Variants, NEW n \in 0 .. MaxUnits, SetQuantity(v, n)
       PROVE  ShoppingTypeOK'
  <2>1. n \in Nat
    BY CheckoutAssumption
  <2>2. cart' \in [Variants -> Nat] /\ wanted' \in [Variants -> Nat]
    BY <1>10, <2>1 DEF SetQuantity
  <2>3. Busy' = Busy
    BY <1>10 DEF SetQuantity, Busy
  <2> QED
    BY <1>10, <2>2, <2>3 DEF SetQuantity
<1>11. ASSUME NEW s \in Shoppers, Act(s) PROVE ShoppingTypeOK'
  <2>1. Tracked \subseteq Variants
    BY CheckoutAssumption
  <2>2. CASE \E v \in Tracked : Reserve(s, v) \/ ReserveRefused(s, v)
    BY <1>7, <1>9, <2>1, <2>2
  <2>3. CASE \E v \in Variants : AddRead(s, v) \/ CheckStock(s, v) \/ OutOfStock(s, v)
    BY <1>3, <1>7, <1>9, <2>3
  <2>4. CASE \E codes \in SUBSET Coupons :
               /\ Cardinality(codes) <= 1
               /\ FromCart(s, codes) \/ (\E v \in Variants : Direct(s, v, codes))
    <3>1. ASSUME NEW codes \in SUBSET Coupons, FromCart(s, codes) PROVE ShoppingTypeOK'
      <4>1. PICK v \in Variants : TRUE
        BY <3>1 DEF FromCart
      <4> QED
        BY <1>5, <3>1, <4>1
    <3> QED
      BY <1>5, <2>4, <3>1
  <2>5. CASE \/ AddWrite(s) \/ AddThrows(s) \/ ReadCoupon(s) \/ CouponExhausted(s)
             \/ ReadFirst(s) \/ ReadPromotions(s) \/ QuoteExpired(s) \/ Place(s) \/ Stops(s)
    BY <1>2, <1>6, <1>8, <1>9, <2>5
  <2> QED
    BY <1>11, <2>2, <2>3, <2>4, <2>5 DEF Act
<1>12. CASE UNCHANGED shoppingVars
  BY <1>12 DEF shoppingVars, Busy
<1> QED
  BY <1>10, <1>11, <1>12 DEF ShoppingNext

\* A step of the only request being served, or of the first one to be.
LEMMA AloneStep ==
  ASSUME ShoppingTypeOK, ShoppingTypeOK', AloneInv, NEW s \in Shoppers, NEW step, Goto(s, step),
         Cardinality(Busy') <= 1, visit[s] # Free \/ step # Free, UpToDate(visit[s])'
  PROVE  /\ \A t, u \in Busy' : t = u
         /\ \A t \in Shoppers : UpToDate(visit[t])'
<1>1. /\ visit'[s] = step
      /\ \A t \in Shoppers \ {s} : visit'[t] = visit[t]
      /\ IsFiniteSet(Busy')
  BY OneMoves
<1>2. \A t, u \in Busy' : t = u
  BY <1>1, AtMostOne
<1>3. \A t \in Shoppers \ {s} : visit'[t] = Free
  <2>1. CASE visit[s] # Free
    BY <1>1, <2>1 DEF AloneInv, Busy
  <2>2. CASE step # Free
    BY <1>1, <1>2, <2>2 DEF Busy
  <2> QED
    BY <2>1, <2>2
<1>4. \A t \in Shoppers \ {s} : UpToDate(visit[t])'
  BY <1>3 DEF UpToDate, Free, Checking
<1> QED
  BY <1>2, <1>4

\* Nothing is used more often than orders are placed.
LEMMA UsesAreOrdered ==
  ASSUME ShoppingTypeOK, [ShoppingNext]_shoppingVars, \A o \in Offers : used[o] <= orders
  PROVE  \A o \in Offers : used'[o] <= orders'
<1> USE DEF ShoppingTypeOK, placed
<1>1. ASSUME UNCHANGED placed PROVE \A o \in Offers : used'[o] <= orders'
  BY <1>1
<1>2. ASSUME NEW s \in Shoppers, Place(s) PROVE \A o \in Offers : used'[o] <= orders'
  <2>1. orders' = orders + 1
    BY <1>2 DEF Place
  <2>2. \A o \in Offers : used'[o] \in {used[o], used[o] + 1}
    BY <1>2 DEF Place
  <2> QED
    BY <2>1, <2>2
<1>3. ASSUME NEW s \in Shoppers, Act(s), ~ Place(s) PROVE UNCHANGED placed
  BY <1>3
     DEF Act, AddRead, AddWrite, AddThrows, FromCart, Direct, ReadCoupon, CouponExhausted,
         ReadFirst, ReadPromotions, QuoteExpired, CheckStock, OutOfStock, Reserve,
         ReserveRefused, Stops, Refuse
<1>4. ASSUME NEW v \in Variants, NEW n \in 0 .. MaxUnits, SetQuantity(v, n)
      PROVE  UNCHANGED placed
  BY <1>4 DEF SetQuantity
<1>5. CASE UNCHANGED shoppingVars
  BY <1>1, <1>5 DEF shoppingVars
<1> QED
  BY <1>1, <1>2, <1>3, <1>4, <1>5 DEF ShoppingNext

LEMMA AloneIsKept ==
  ASSUME ShoppingTypeOK, ShoppingTypeOK', AloneInv, ShoppingNext, serial, serial',
         \A o \in Offers : used[o] <= orders
  PROVE  AloneInv'
<1> USE DEF ShoppingTypeOK, placed

\* A statement that only reads, or a request that ends.
<1>1. ASSUME NEW s \in Shoppers, NEW step, Goto(s, step), Cardinality(Busy') <= 1,
             visit[s] # Free \/ step # Free, UNCHANGED <<cart, placed, wanted>>,
             UpToDate(step)
      PROVE  AloneInv'
  <2>1. UpToDate(visit[s])'
    BY <1>1, OneMoves DEF UpToDate, HasUses
  <2> QED
    BY <1>1, <2>1, AloneStep DEF AloneInv
<1>2. UpToDate(Free)
  BY DEF UpToDate, Free, Checking
<1>3. ASSUME NEW s \in Shoppers, Cardinality(Busy') <= 1,
             \/ AddThrows(s) \/ CouponExhausted(s) \/ QuoteExpired(s) \/ Stops(s)
             \/ \E v \in Variants : OutOfStock(s, v) \/ ReserveRefused(s, v)
      PROVE  AloneInv'
  <2>1. Goto(s, Free) /\ UNCHANGED <<cart, placed, wanted>>
    BY <1>3
       DEF AddThrows, CouponExhausted, QuoteExpired, Stops, OutOfStock, ReserveRefused, Refuse
  <2>2. visit[s].at \in Checking \cup {"add"} \/ visit[s] # Free
    BY <1>3
       DEF AddThrows, CouponExhausted, QuoteExpired, Stops, OutOfStock, ReserveRefused, At, Checking
  <2> QED
    BY <1>1, <1>2, <1>3, <2>1, <2>2, VisitIsTyped
<1>4. ASSUME NEW s \in Shoppers, NEW v \in Variants, AddRead(s, v), Cardinality(Busy') <= 1
      PROVE  AloneInv'
  <2> DEFINE step == [at |-> "add", of |-> v, seen |-> cart[v]]
  <2>1. UpToDate(step) /\ step # Free
    BY DEF UpToDate, Free, Checking
  <2> QED
    BY <1>1, <1>4, <2>1 DEF AddRead
<1>5. ASSUME NEW s \in Shoppers, NEW items, NEW fromCart, NEW codes,
             Begin(s, items, fromCart, codes), fromCart => items = cart,
             UNCHANGED <<cart, placed, wanted>>, Cardinality(Busy') <= 1
      PROVE  AloneInv'
  <2> DEFINE step == [at |-> "coupon", items |-> items, fromCart |-> fromCart, codes |-> codes,
                      first |-> FALSE, applied |-> {}, left |-> {v \in Variants : items[v] > 0},
                      of |-> {}, held |-> {}]
  <2>1. UpToDate(step) /\ step # Free
    BY <1>5 DEF UpToDate, Free
  <2> QED
    BY <1>1, <1>5, <2>1 DEF Begin
<1>6. ASSUME NEW s \in Shoppers, NEW v, NEW codes, FromCart(s, codes) \/ Direct(s, v, codes),
             Cardinality(Busy') <= 1
      PROVE  AloneInv'
  BY <1>5, <1>6 DEF FromCart, Direct
<1>7. ASSUME NEW s \in Shoppers, visit[s].at \in Checking
      PROVE  visit[s] \in Ordering /\ visit[s] # Free /\ UpToDate(visit[s])
  BY <1>7, VisitIsTyped DEF AloneInv
<1>8. ASSUME NEW s \in Shoppers, ReadCoupon(s) \/ ReadFirst(s) \/ ReadPromotions(s),
             Cardinality(Busy') <= 1
      PROVE  AloneInv'
  <2>1. visit[s].at \in Checking
    BY <1>8 DEF ReadCoupon, ReadFirst, ReadPromotions, At, Checking
  <2>2. visit[s] \in Ordering /\ visit[s] # Free /\ UpToDate(visit[s])
    BY <1>7, <2>1
  <2>3. CASE ReadCoupon(s)
    <3> DEFINE step == [visit[s] EXCEPT !.at = "first"]
    <3>1. Goto(s, step) /\ UNCHANGED <<cart, placed, wanted>>
      BY <2>3 DEF ReadCoupon
    <3>2. UpToDate(step)
      BY <2>1, <2>2, <2>3 DEF ReadCoupon, UpToDate, Ordering
    <3> QED
      BY <1>1, <1>8, <2>2, <3>1, <3>2
  <2>4. CASE ReadFirst(s)
    <3> DEFINE step == [visit[s] EXCEPT !.at = "promotions", !.first = (orders = 0)]
    <3>1. Goto(s, step) /\ UNCHANGED <<cart, placed, wanted>> /\ visit[s].at = "first"
      BY <2>4 DEF ReadFirst, At
    <3>2. UpToDate(step)
      BY <2>1, <2>2, <3>1 DEF UpToDate, Ordering
    <3> QED
      BY <1>1, <1>8, <2>2, <3>1, <3>2
  <2>5. CASE ReadPromotions(s)
    <3> DEFINE applied == {p \in Promotions : HasUses(p) /\ (p \in FirstOnly => visit[s].first)}
               step == [visit[s] EXCEPT !.at = "stock", !.applied = applied]
    <3>1. /\ Goto(s, step) /\ UNCHANGED <<cart, placed, wanted>>
          /\ visit[s].at = "promotions"
      BY <2>5 DEF ReadPromotions, At
    <3>2. UpToDate(step)
      BY <2>1, <2>2, <3>1 DEF UpToDate, Ordering
    <3> QED
      BY <1>1, <1>8, <2>2, <3>1, <3>2
  <2> QED
    BY <1>8, <2>3, <2>4, <2>5
<1>9. ASSUME NEW s \in Shoppers, NEW v \in Variants, CheckStock(s, v) \/ Reserve(s, v),
             Cardinality(Busy') <= 1
      PROVE  AloneInv'
  <2>1. visit[s].at \in {"stock", "reserve"}
    BY <1>9 DEF CheckStock, Reserve, At
  <2>2. visit[s] \in Ordering /\ visit[s] # Free /\ UpToDate(visit[s])
    BY <1>7, <2>1 DEF Checking
  <2>3. ASSUME NEW at \in {"reserve", "stock"}, NEW of, NEW left, NEW held
        PROVE  UpToDate([visit[s] EXCEPT !.at = at, !.of = of, !.left = left, !.held = held])
    BY <2>1, <2>2 DEF UpToDate, Ordering, Checking
  <2>4. CASE CheckStock(s, v)
    <3> DEFINE at == IF v \in Tracked THEN "reserve" ELSE "stock"
               of == IF v \in Tracked THEN {v} ELSE {}
               step == [visit[s] EXCEPT !.at = at, !.of = of, !.left = @ \ {v}]
    <3>1. Goto(s, step) /\ UNCHANGED <<cart, placed, wanted>>
      BY <2>4 DEF CheckStock
    <3>2. step = [visit[s] EXCEPT !.at = at, !.of = of, !.left = visit[s].left \ {v},
                                  !.held = visit[s].held]
      BY <2>2 DEF Ordering
    <3>3. at \in {"reserve", "stock"}
      OBVIOUS
    <3>4. UpToDate([visit[s] EXCEPT !.at = at, !.of = of, !.left = visit[s].left \ {v},
                                    !.held = visit[s].held])
      <4> HIDE DEF at, of
      <4> QED
        BY <2>3, <3>3
    <3>5. UpToDate(step)
      BY <3>2, <3>4
    <3> QED
      BY <1>1, <1>9, <2>2, <3>1, <3>5
  <2>5. CASE Reserve(s, v)
    <3> DEFINE step == [visit[s] EXCEPT !.at = "stock", !.of = {}, !.held = @ \cup {v}]
    <3>1. Goto(s, step) /\ UNCHANGED <<cart, placed, wanted>>
      BY <2>5 DEF Reserve
    <3>2. step = [visit[s] EXCEPT !.at = "stock", !.of = {}, !.left = visit[s].left,
                                  !.held = visit[s].held \cup {v}]
      BY <2>2 DEF Ordering
    <3>3. UpToDate([visit[s] EXCEPT !.at = "stock", !.of = {}, !.left = visit[s].left,
                                    !.held = visit[s].held \cup {v}])
      BY <2>3
    <3>4. UpToDate(step)
      BY <3>2, <3>3
    <3> QED
      BY <1>1, <1>9, <2>2, <3>1, <3>4
  <2> QED
    BY <1>9, <2>4, <2>5
<1>10. ASSUME NEW s \in Shoppers, AddWrite(s), Cardinality(Busy') <= 1 PROVE AloneInv'
  <2>1. visit[s] \in Adding /\ visit[s] # Free
    BY <1>10, VisitIsTyped DEF AddWrite, At
  <2>2. visit[s].seen = cart[visit[s].of] /\ visit[s].of \in Variants
    BY <1>10, <2>1 DEF AloneInv, UpToDate, AddWrite, At, Adding
  <2>3. Goto(s, Free) /\ UpToDate(visit[s])'
    <3>1. Goto(s, Free)
      BY <1>10 DEF AddWrite
    <3>2. visit'[s] = Free
      BY <3>1, OneMoves
    <3> QED
      BY <3>1, <3>2 DEF UpToDate, Free, Checking
  <2>4. (\A t, u \in Busy' : t = u) /\ \A t \in Shoppers : UpToDate(visit[t])'
    BY <1>10, <2>1, <2>3, AloneStep
  <2>5. \A v \in Variants : wanted'[v] = cart'[v] + sold'[v]
    BY <1>10, <2>2 DEF AddWrite, AloneInv
  <2> QED
    BY <1>10, <2>4, <2>5 DEF AddWrite, AloneInv
<1>11. ASSUME NEW s \in Shoppers, Place(s), Cardinality(Busy') <= 1 PROVE AloneInv'
  <2>1. visit[s] \in Ordering /\ visit[s] # Free /\ UpToDate(visit[s]) /\ visit[s].at = "stock"
    BY <1>7, <1>11 DEF Place, At, Checking
  <2>2. Goto(s, Free) /\ UpToDate(visit[s])'
    <3>1. Goto(s, Free)
      BY <1>11 DEF Place
    <3>2. visit'[s] = Free
      BY <3>1, OneMoves
    <3> QED
      BY <3>1, <3>2 DEF UpToDate, Free, Checking
  <2>3. (\A t, u \in Busy' : t = u) /\ \A t \in Shoppers : UpToDate(visit[t])'
    BY <1>11, <2>1, <2>2, AloneStep
  <2>4. \A v \in Variants : wanted'[v] = cart'[v] + sold'[v]
    <3> DEFINE items == visit[s].items
    <3>1. items \in [Variants -> Nat]
      BY <2>1 DEF Ordering
    <3>2. visit[s].fromCart => items = cart
      BY <2>1 DEF UpToDate, Checking
    <3>3. \A v \in Variants : sold'[v] = sold[v] + items[v] /\ wanted[v] = cart[v] + sold[v]
      BY <1>11 DEF Place, AloneInv
    <3>4. CASE visit[s].fromCart
      <4>1. \A v \in Variants : cart'[v] = 0 /\ wanted'[v] = wanted[v]
        BY <1>11, <3>4 DEF Place
      <4> QED
        BY <3>1, <3>2, <3>3, <3>4, <4>1
    <3>5. CASE ~ visit[s].fromCart
      <4>1. \A v \in Variants : cart'[v] = cart[v] /\ wanted'[v] = wanted[v] + items[v]
        BY <1>11, <3>5 DEF Place
      <4> QED
        BY <3>1, <3>3, <4>1
    <3> QED
      BY <3>4, <3>5
  <2>5. \A o \in Claimed(s) : HasUses(o) /\ (o \in FirstOnly => orders = 0)
    <3>1. visit[s].codes \subseteq Coupons
      BY <2>1 DEF Ordering
    <3>2. \A o \in visit[s].codes : HasUses(o) /\ o \notin FirstOnly
      BY <2>1, <3>1, CheckoutAssumption DEF UpToDate
    <3>3. \A o \in visit[s].applied : HasUses(o) /\ (o \in FirstOnly => orders = 0)
      BY <2>1 DEF UpToDate
    <3> QED
      BY <3>2, <3>3 DEF Claimed
  <2>6. \A o \in Offers : /\ used'[o] = used[o] \/ (o \in Claimed(s) /\ used'[o] = used[o] + 1)
                          /\ used[o] <= UsageLimit[o] /\ used[o] \in Nat /\ UsageLimit[o] \in Nat
    BY <1>11, CheckoutAssumption DEF Place, AloneInv
  <2>7. \A o \in Offers : used'[o] <= UsageLimit[o]
    BY <2>5, <2>6 DEF HasUses
  <2>8. ASSUME NEW p \in FirstOnly PROVE used'[p] <= 1
    <3>1. p \in Offers /\ used[p] <= 1
      BY CheckoutAssumption DEF Offers, AloneInv
    <3>2. CASE p \in Claimed(s)
      <4>1. orders = 0 /\ used[p] <= orders
        BY <2>5, <3>1, <3>2
      <4> QED
        BY <2>6, <3>1, <4>1
    <3>3. CASE p \notin Claimed(s)
      BY <2>6, <3>1, <3>3
    <3> QED
      BY <3>2, <3>3
  <2> QED
    BY <2>3, <2>4, <2>7, <2>8 DEF AloneInv
<1>12. ASSUME NEW v \in Variants, NEW n \in 0 .. MaxUnits, SetQuantity(v, n), Busy = {}
       PROVE  AloneInv'
  <2>1. UNCHANGED <<visit, placed>> /\ Busy' = {}
    BY <1>12 DEF SetQuantity, Busy
  <2>2. \A s \in Shoppers : visit'[s] = Free
    BY <1>12, <2>1 DEF Busy
  <2>3. \A s \in Shoppers : UpToDate(visit[s])'
    BY <2>2 DEF UpToDate, Free, Checking
  <2>4. \A w \in Variants : wanted'[w] = cart'[w] + sold'[w]
    <3>1. n \in Nat
      BY CheckoutAssumption
    <3> QED
      BY <1>12, <3>1 DEF SetQuantity, AloneInv
  <2> QED
    BY <2>1, <2>3, <2>4 DEF AloneInv
<1>13. ASSUME NEW s \in Shoppers, Act(s), Cardinality(Busy') <= 1 PROVE AloneInv'
  <2>1. CASE \E v \in Tracked : Reserve(s, v) \/ ReserveRefused(s, v)
    BY <1>3, <1>9, <1>13, <2>1, CheckoutAssumption
  <2>2. CASE \E v \in Variants : AddRead(s, v) \/ CheckStock(s, v) \/ OutOfStock(s, v)
    BY <1>3, <1>4, <1>9, <1>13, <2>2
  <2>3. CASE \E codes \in SUBSET Coupons :
               /\ Cardinality(codes) <= 1
               /\ FromCart(s, codes) \/ (\E v \in Variants : Direct(s, v, codes))
    BY <1>6, <1>13, <2>3
  <2>4. CASE \/ AddWrite(s) \/ AddThrows(s) \/ ReadCoupon(s) \/ CouponExhausted(s)
             \/ ReadFirst(s) \/ ReadPromotions(s) \/ QuoteExpired(s) \/ Place(s) \/ Stops(s)
    BY <1>3, <1>8, <1>10, <1>11, <1>13, <2>4
  <2> QED
    BY <1>13, <2>1, <2>2, <2>3, <2>4 DEF Act
<1> QED
  BY <1>12, <1>13 DEF ShoppingNext

LEMMA ShoppingInvAlways == ShoppingSpec => []ShoppingInv
<1>1. ShoppingInit => ShoppingInv
  <2> SUFFICES ASSUME ShoppingInit PROVE ShoppingInv
    OBVIOUS
  <2>1. Busy = {} /\ \A s \in Shoppers : visit[s] = Free
    BY DEF ShoppingInit, Busy
  <2>2. ShoppingTypeOK
    BY <2>1, FS_EmptySet DEF ShoppingInit, ShoppingTypeOK
  <2>3. \A s \in Shoppers : UpToDate(visit[s])
    BY <2>1 DEF UpToDate, Free, Checking
  <2>4. \A o \in Offers : used[o] = 0 /\ UsageLimit[o] \in Nat
    BY CheckoutAssumption DEF ShoppingInit
  <2>5. FirstOnly \subseteq Offers
    BY CheckoutAssumption DEF Offers
  <2> QED
    BY <2>1, <2>2, <2>3, <2>4, <2>5 DEF ShoppingInit, ShoppingInv, AloneInv
<1>2. ShoppingInv /\ [ShoppingNext]_shoppingVars => ShoppingInv'
  <2> SUFFICES ASSUME ShoppingInv, [ShoppingNext]_shoppingVars PROVE ShoppingInv'
    OBVIOUS
  <2>1. ShoppingTypeOK' /\ \A o \in Offers : used'[o] <= orders'
    BY ShoppingTypes, UsesAreOrdered DEF ShoppingInv
  <2>2. ASSUME serial' PROVE AloneInv'
    <3>1. CASE ShoppingNext
      <4>1. serial
        BY <2>2, <3>1 DEF ShoppingNext
      <4> QED
        BY <2>1, <2>2, <3>1, <4>1, AloneIsKept DEF ShoppingInv
    <3>2. CASE UNCHANGED shoppingVars
      BY <2>2, <3>2
         DEF shoppingVars, placed, ShoppingInv, AloneInv, Busy, UpToDate, HasUses
    <3> QED
      BY <3>1, <3>2
  <2> QED
    BY <2>1, <2>2 DEF ShoppingInv
<1> QED
  BY <1>1, <1>2, PTL DEF ShoppingSpec

\* Served one request at a time, a unit the customer put into the cart is in it or
\* in an order (addItemToCart, checkoutFromCart, checkoutDirect).
THEOREM SerialCartIsConservedHolds == ShoppingSpec => []SerialCartIsConserved
<1>1. ShoppingInv => SerialCartIsConserved
  BY DEF ShoppingInv, AloneInv, SerialCartIsConserved
<1> QED
  BY <1>1, ShoppingInvAlways, PTL

\* An offer counts at most one use for an order; served one request at a time none
\* is used beyond its limit, and one for the first order is had once
\* (assertUsable, isCustomersFirstOrder, createOrder's transaction).
THEOREM SerialOffersAreCappedHolds == ShoppingSpec => []SerialOffersAreCapped
<1>1. ShoppingInv => SerialOffersAreCapped
  BY DEF ShoppingInv, AloneInv, SerialOffersAreCapped
<1> QED
  BY <1>1, ShoppingInvAlways, PTL

-----------------------------------------------------------------------------
(***************************************************************************)
(* Reservations and orders.  The units a checkout holds are counted one by *)
(* one; a step of one request changes only its own, and hands them to the  *)
(* order (Place) or leaves them behind (Refuse, Stops).                    *)
(***************************************************************************)
\* How many units of v the request s has reserved.
HeldUnits(s, v) == IF v \in Held(s) THEN visit[s].items[v] ELSE 0

\* A checkout has, of every tracked variant it asks for, reserved the units, or
\* is at it, or has it before it; never two of these.
ItemsAreFollowed(q) ==
  /\ q.held \subseteq Tracked
  /\ q.left \cap q.held = {}
  /\ q.at = "reserve" => q.of \cap (q.left \cup q.held) = {}
  /\ q.at # "reserve" => q.of = {}
  /\ q.at \notin {"stock", "reserve"} => q.held = {}
  /\ \A v \in Tracked : q.items[v] > 0 => v \in q.left \cup q.of \cup q.held

ShelfInv ==
  /\ claimed \in [Tracked -> Nat]
  /\ \A s \in Shoppers : visit[s].at \in Checking => ItemsAreFollowed(visit[s])
  /\ \A v \in Tracked : IsFiniteSet(Reserving(v))
  /\ ReservedCoversOrders

\* A set of numbered units.
LEMMA UnitsCounted ==
  ASSUME NEW s, NEW n \in Nat
  PROVE  IsFiniteSet({s} \X (1 .. n)) /\ Cardinality({s} \X (1 .. n)) = n
<1>1. IsFiniteSet({s}) /\ Cardinality({s}) = 1
  BY FS_Singleton
<1>2. IsFiniteSet(1 .. n) /\ Cardinality(1 .. n) = n
  BY FS_Interval
<1>3. /\ IsFiniteSet({s} \X (1 .. n))
      /\ Cardinality({s} \X (1 .. n)) = Cardinality({s}) * Cardinality(1 .. n)
  BY <1>1, <1>2, FS_Product
<1> QED
  BY <1>1, <1>2, <1>3, SMT

\* A step of one request changes what is in flight by its own units.
LEMMA InFlightMoves ==
  ASSUME ShoppingTypeOK, ShoppingTypeOK', NEW s \in Shoppers, NEW step, Goto(s, step),
         NEW v \in Tracked, IsFiniteSet(Reserving(v))
  PROVE  /\ IsFiniteSet(Reserving(v)') /\ InFlight(v) \in Nat /\ InFlight(v)' \in Nat
         /\ HeldUnits(s, v) \in Nat /\ HeldUnits(s, v)' \in Nat
         /\ InFlight(v)' = (InFlight(v) - HeldUnits(s, v)) + HeldUnits(s, v)'
<1> DEFINE rest == {u \in Reserving(v) : u[1] # s}
           mine == {s} \X (1 .. HeldUnits(s, v))
           mine1 == {s} \X (1 .. HeldUnits(s, v)')
<1>1. visit'[s] = step /\ \A t \in Shoppers \ {s} : visit'[t] = visit[t]
  BY OneMoves
<1>2. v \in Variants
  BY CheckoutAssumption
<1>3. HeldUnits(s, v) \in Nat
  BY <1>2 DEF HeldUnits, Held, At, ShoppingTypeOK, Free, Adding, Ordering
<1>4. HeldUnits(s, v)' \in Nat
  BY <1>2 DEF HeldUnits, Held, At, ShoppingTypeOK, Free, Adding, Ordering
<1>5. Reserving(v) = rest \cup mine
  BY DEF Reserving, HeldUnits
<1>6. Reserving(v)' = rest \cup mine1
  BY <1>1 DEF Reserving, HeldUnits, Held, At
<1>7. rest \cap mine = {} /\ rest \cap mine1 = {}
  OBVIOUS
<1>8. IsFiniteSet(rest)
  BY <1>5, FS_Subset
<1>9. /\ IsFiniteSet(mine) /\ Cardinality(mine) = HeldUnits(s, v)
      /\ IsFiniteSet(mine1) /\ Cardinality(mine1) = HeldUnits(s, v)'
  BY <1>3, <1>4, UnitsCounted
<1> HIDE DEF rest, mine, mine1
<1>10. Cardinality(rest) \in Nat /\ Cardinality({}) = 0
  BY <1>8, FS_CardinalityType, FS_EmptySet
<1>11. InFlight(v) = Cardinality(rest) + HeldUnits(s, v)
  BY <1>3, <1>5, <1>7, <1>8, <1>9, <1>10, FS_Union DEF InFlight
<1>12. IsFiniteSet(Reserving(v)') /\ InFlight(v)' = Cardinality(rest) + HeldUnits(s, v)'
  <2>1. /\ IsFiniteSet(rest \cup mine1)
        /\ Cardinality(rest \cup mine1)
             = Cardinality(rest) + Cardinality(mine1) - Cardinality(rest \cap mine1)
    BY <1>8, <1>9, FS_Union
  <2>2. Cardinality(rest \cap mine1) = 0
    BY <1>7, <1>10
  <2>3. Cardinality(rest \cup mine1) = Cardinality(rest) + HeldUnits(s, v)'
    BY <1>4, <1>9, <1>10, <2>1, <2>2
  <2> QED
    BY <1>6, <2>1, <2>3 DEF InFlight
<1> QED
  BY <1>3, <1>4, <1>10, <1>11, <1>12

\* A step of a request that holds as much after it, and one that ends a request
\* and is noted (clean) when that held something.
LEMMA ShelfIsLeft ==
  ASSUME ShoppingTypeOK, ShoppingTypeOK', ShelfInv, NEW s \in Shoppers, NEW step, Goto(s, step),
         UNCHANGED <<claimed, sold>>,
         \/ clean' = clean /\ \A v \in Tracked : HeldUnits(s, v)' = HeldUnits(s, v)
         \/ step = Free /\ clean' = (clean /\ Held(s) = {}),
         step.at \in Checking => ItemsAreFollowed(step)
  PROVE  ShelfInv'
<1>1. visit'[s] = step /\ \A t \in Shoppers \ {s} : visit'[t] = visit[t]
  BY OneMoves
<1>2. \A t \in Shoppers : visit'[t].at \in Checking => ItemsAreFollowed(visit'[t])
  BY <1>1 DEF ShelfInv
<1>3. ASSUME NEW v \in Tracked
      PROVE  /\ IsFiniteSet(Reserving(v)')
             /\ sold'[v] + InFlight(v)' <= claimed'[v]
             /\ claimed'[v] <= Level[v]
             /\ clean' => claimed'[v] = sold'[v] + InFlight(v)'
  <2>1. /\ IsFiniteSet(Reserving(v)') /\ InFlight(v) \in Nat /\ InFlight(v)' \in Nat
        /\ HeldUnits(s, v) \in Nat /\ HeldUnits(s, v)' \in Nat
        /\ InFlight(v)' = (InFlight(v) - HeldUnits(s, v)) + HeldUnits(s, v)'
    BY InFlightMoves DEF ShelfInv
  <2>2. v \in Variants /\ sold[v] \in Nat /\ claimed[v] \in Nat /\ Level[v] \in Nat
    BY CheckoutAssumption DEF ShoppingTypeOK, ShelfInv
  <2>3. /\ sold[v] + InFlight(v) <= claimed[v] /\ claimed[v] <= Level[v]
        /\ clean => claimed[v] = sold[v] + InFlight(v)
    BY DEF ShelfInv, ReservedCoversOrders
  <2>4. CASE clean' = clean /\ HeldUnits(s, v)' = HeldUnits(s, v)
    BY <2>1, <2>2, <2>3, <2>4
  <2>5. CASE step = Free /\ clean' = (clean /\ Held(s) = {})
    <3>1. HeldUnits(s, v)' = 0
      BY <1>1, <2>5 DEF HeldUnits, Held, At, Free
    <3>2. clean' => clean /\ HeldUnits(s, v) = 0
      BY <2>5 DEF HeldUnits
    <3> QED
      BY <2>1, <2>2, <2>3, <3>1, <3>2
  <2> QED
    BY <2>4, <2>5
<1> QED
  BY <1>2, <1>3 DEF ShelfInv, ReservedCoversOrders

\* What a checkout has left, is at and has reserved goes on along with it.
LEMMA ItemsGoOn ==
  ASSUME NEW q \in Ordering, ItemsAreFollowed(q)
  PROVE  /\ q.at = "coupon" => ItemsAreFollowed([q EXCEPT !.at = "first"])
         /\ \A first : q.at = "first"
              => ItemsAreFollowed([q EXCEPT !.at = "promotions", !.first = first])
         /\ \A applied : q.at = "promotions"
              => ItemsAreFollowed([q EXCEPT !.at = "stock", !.applied = applied])
         /\ \A v \in q.left : q.at = "stock" =>
              /\ v \in Tracked =>
                   ItemsAreFollowed([q EXCEPT !.at = "reserve", !.of = {v}, !.left = @ \ {v}])
              /\ v \notin Tracked =>
                   ItemsAreFollowed([q EXCEPT !.at = "stock", !.of = {}, !.left = @ \ {v}])
         /\ \A v \in Tracked : q.at = "reserve" /\ q.of = {v} =>
              /\ ItemsAreFollowed([q EXCEPT !.at = "stock", !.of = {}, !.held = @ \cup {v}])
              /\ v \notin q.held
<1>1. \A first, applied :
        /\ q.at = "coupon" => ItemsAreFollowed([q EXCEPT !.at = "first"])
        /\ q.at = "first"
             => ItemsAreFollowed([q EXCEPT !.at = "promotions", !.first = first])
        /\ q.at = "promotions"
             => ItemsAreFollowed([q EXCEPT !.at = "stock", !.applied = applied])
  BY DEF ItemsAreFollowed, Ordering
<1>2. ASSUME NEW v \in q.left, q.at = "stock", v \in Tracked
      PROVE  ItemsAreFollowed([q EXCEPT !.at = "reserve", !.of = {v}, !.left = @ \ {v}])
  BY <1>2 DEF ItemsAreFollowed, Ordering
<1>3. ASSUME NEW v \in q.left, q.at = "stock", v \notin Tracked
      PROVE  ItemsAreFollowed([q EXCEPT !.at = "stock", !.of = {}, !.left = @ \ {v}])
  BY <1>3 DEF ItemsAreFollowed, Ordering
<1>4. ASSUME NEW v \in Tracked, q.at = "reserve", q.of = {v}
      PROVE  /\ ItemsAreFollowed([q EXCEPT !.at = "stock", !.of = {}, !.held = @ \cup {v}])
             /\ v \notin q.held
  BY <1>4 DEF ItemsAreFollowed, Ordering
<1> QED
  BY <1>1, <1>2, <1>3, <1>4

LEMMA ShelfIsKept ==
  ASSUME ShoppingTypeOK, ShoppingTypeOK', ShelfInv, [ShoppingNext]_shoppingVars
  PROVE  ShelfInv'
<1> USE DEF placed, shelf
<1>1. ASSUME NEW s \in Shoppers,
             \/ CouponExhausted(s) \/ QuoteExpired(s) \/ Stops(s)
             \/ \E v \in Variants : OutOfStock(s, v) \/ ReserveRefused(s, v)
      PROVE  ShelfInv'
  <2>1. Goto(s, Free) /\ UNCHANGED <<claimed, sold>> /\ clean' = (clean /\ Held(s) = {})
    <3>1. CASE Stops(s)
      BY <3>1 DEF Stops
    <3>2. CASE ~ Stops(s)
      <4>1. Refuse(s) /\ visit[s].at \in Checking
        BY <1>1, <3>2 DEF CouponExhausted, QuoteExpired, OutOfStock, ReserveRefused, At, Checking
      <4>2. Held(s) = visit[s].held
        BY <4>1 DEF Held, At, Checking
      <4> QED
        BY <4>1, <4>2 DEF Refuse
    <3> QED
      BY <3>1, <3>2
  <2>2. Free.at \notin Checking
    BY DEF Free, Checking
  <2> QED
    BY <2>1, <2>2, ShelfIsLeft
<1>2. ASSUME NEW s \in Shoppers, NEW step, Goto(s, step), step.at \notin Checking,
             visit[s].at \notin Checking, visit[s] = Free \/ visit[s].at = "add",
             step = Free \/ step.at = "add",
             UNCHANGED <<claimed, sold, clean>>
      PROVE  ShelfInv'
  <2>1. visit'[s] = step
    BY <1>2, OneMoves
  <2>2. \A v \in Tracked : HeldUnits(s, v)' = HeldUnits(s, v)
    BY <1>2, <2>1 DEF HeldUnits, Held, At, Free
  <2> QED
    BY <1>2, <2>2, ShelfIsLeft
<1>3. ASSUME NEW s \in Shoppers,
             AddWrite(s) \/ AddThrows(s) \/ \E v \in Variants : AddRead(s, v)
      PROVE  ShelfInv'
  <2>1. CASE AddWrite(s) \/ AddThrows(s)
    <3>1. Goto(s, Free) /\ UNCHANGED <<claimed, sold, clean>> /\ visit[s].at = "add"
      BY <2>1 DEF AddWrite, AddThrows, At
    <3>2. Free.at \notin Checking /\ "add" \notin Checking
      BY DEF Free, Checking
    <3> QED
      BY <1>2, <3>1, <3>2
  <2>2. ASSUME NEW v \in Variants, AddRead(s, v) PROVE ShelfInv'
    <3> DEFINE step == [at |-> "add", of |-> v, seen |-> cart[v]]
    <3>1. Goto(s, step) /\ UNCHANGED <<claimed, sold, clean>> /\ visit[s] = Free
      BY <2>2 DEF AddRead
    <3>2. step.at = "add" /\ step.at \notin Checking /\ visit[s].at \notin Checking
      BY <3>1 DEF Free, Checking
    <3> QED
      BY <1>2, <3>1, <3>2
  <2> QED
    BY <1>3, <2>1, <2>2
<1>4. ASSUME NEW s \in Shoppers, NEW items, NEW fromCart, NEW codes, visit[s] = Free,
             Begin(s, items, fromCart, codes), UNCHANGED <<claimed, sold, clean>>
      PROVE  ShelfInv'
  <2> DEFINE step == [at |-> "coupon", items |-> items, fromCart |-> fromCart, codes |-> codes,
                      first |-> FALSE, applied |-> {}, left |-> {v \in Variants : items[v] > 0},
                      of |-> {}, held |-> {}]
  <2>1. Goto(s, step) /\ visit'[s] = step
    BY <1>4, OneMoves DEF Begin
  <2>2. ItemsAreFollowed(step)
    BY CheckoutAssumption DEF ItemsAreFollowed
  <2>3. \A v \in Tracked : HeldUnits(s, v)' = HeldUnits(s, v)
    BY <1>4, <2>1 DEF HeldUnits, Held, At, Free
  <2> HIDE DEF step
  <2> QED
    BY <1>4, <2>1, <2>2, <2>3, ShelfIsLeft
<1>5. ASSUME NEW s \in Shoppers, NEW v, NEW codes, FromCart(s, codes) \/ Direct(s, v, codes)
      PROVE  ShelfInv'
  BY <1>4, <1>5 DEF FromCart, Direct
<1>6. ASSUME NEW s \in Shoppers, visit[s].at \in Checking
      PROVE  visit[s] \in Ordering /\ ItemsAreFollowed(visit[s]) /\ Held(s) = visit[s].held
  BY <1>6, VisitIsTyped DEF ShelfInv, Held, At, Checking
\* A step of a checkout that reserves nothing.
<1>7. ASSUME NEW s \in Shoppers, NEW step, Goto(s, step), visit[s].at \in Checking,
             step.at \in Checking, step.items = visit[s].items, step.held = visit[s].held,
             ItemsAreFollowed(step), UNCHANGED <<claimed, sold, clean>>
      PROVE  ShelfInv'
  <2>1. visit'[s] = step
    BY <1>7, OneMoves
  <2>2. Held(s)' = Held(s)
    BY <1>7, <2>1 DEF Held, At, Checking
  <2>3. \A v \in Tracked : HeldUnits(s, v)' = HeldUnits(s, v)
    BY <1>7, <2>1, <2>2 DEF HeldUnits
  <2> QED
    BY <1>7, <2>3, ShelfIsLeft
<1>8. ASSUME NEW s \in Shoppers, ReadCoupon(s) \/ ReadFirst(s) \/ ReadPromotions(s)
      PROVE  ShelfInv'
  <2>1. visit[s].at \in Checking
    BY <1>8 DEF ReadCoupon, ReadFirst, ReadPromotions, At, Checking
  <2>2. visit[s] \in Ordering /\ ItemsAreFollowed(visit[s])
    BY <1>6, <2>1
  <2>3. PICK step : /\ Goto(s, step) /\ step.at \in Checking /\ ItemsAreFollowed(step)
                    /\ step.items = visit[s].items /\ step.held = visit[s].held
                    /\ UNCHANGED <<claimed, sold, clean>>
    <3>1. CASE ReadCoupon(s)
      <4> DEFINE step == [visit[s] EXCEPT !.at = "first"]
      <4>1. Goto(s, step) /\ ItemsAreFollowed(step) /\ UNCHANGED <<claimed, sold, clean>>
        BY <2>2, <3>1, ItemsGoOn DEF ReadCoupon, At
      <4>2. step.at \in Checking /\ step.items = visit[s].items /\ step.held = visit[s].held
        BY <2>2 DEF Ordering, Checking
      <4> QED
        BY <4>1, <4>2
    <3>2. CASE ReadFirst(s)
      <4> DEFINE step == [visit[s] EXCEPT !.at = "promotions", !.first = (orders = 0)]
      <4>1. Goto(s, step) /\ ItemsAreFollowed(step) /\ UNCHANGED <<claimed, sold, clean>>
        BY <2>2, <3>2, ItemsGoOn DEF ReadFirst, At
      <4>2. step.at \in Checking /\ step.items = visit[s].items /\ step.held = visit[s].held
        BY <2>2 DEF Ordering, Checking
      <4> QED
        BY <4>1, <4>2
    <3>3. CASE ReadPromotions(s)
      <4> DEFINE applied == {p \in Promotions : HasUses(p) /\ (p \in FirstOnly => visit[s].first)}
                 step == [visit[s] EXCEPT !.at = "stock", !.applied = applied]
      <4>1. Goto(s, step) /\ ItemsAreFollowed(step) /\ UNCHANGED <<claimed, sold, clean>>
        BY <2>2, <3>3, ItemsGoOn DEF ReadPromotions, At
      <4>2. step.at \in Checking /\ step.items = visit[s].items /\ step.held = visit[s].held
        BY <2>2 DEF Ordering, Checking
      <4> QED
        BY <4>1, <4>2
    <3> QED
      BY <1>8, <3>1, <3>2, <3>3
  <2> QED
    BY <1>7, <2>1, <2>3
<1>9. ASSUME NEW s \in Shoppers, NEW v \in Variants, CheckStock(s, v) PROVE ShelfInv'
  <2>1. visit[s].at = "stock" /\ visit[s].at \in Checking /\ v \in visit[s].left
    BY <1>9 DEF CheckStock, At, Checking
  <2>2. visit[s] \in Ordering /\ ItemsAreFollowed(visit[s])
    BY <1>6, <2>1
  <2> DEFINE at == IF v \in Tracked THEN "reserve" ELSE "stock"
             of == IF v \in Tracked THEN {v} ELSE {}
             step == [visit[s] EXCEPT !.at = at, !.of = of, !.left = @ \ {v}]
  <2>3. Goto(s, step) /\ UNCHANGED <<claimed, sold, clean>>
    BY <1>9 DEF CheckStock
  <2>4. ItemsAreFollowed(step)
    BY <2>1, <2>2, ItemsGoOn
  <2>5. step.at \in Checking /\ step.items = visit[s].items /\ step.held = visit[s].held
    BY <2>2 DEF Ordering, Checking
  <2> QED
    BY <1>7, <2>1, <2>3, <2>4, <2>5
<1>10. ASSUME NEW s \in Shoppers, NEW v \in Tracked, Reserve(s, v) PROVE ShelfInv'
  <2>1. visit[s].at = "reserve" /\ visit[s].at \in Checking /\ visit[s].of = {v}
    BY <1>10 DEF Reserve, At, Checking
  <2>2. visit[s] \in Ordering /\ ItemsAreFollowed(visit[s]) /\ Held(s) = visit[s].held
    BY <1>6, <2>1
  <2> DEFINE step == [visit[s] EXCEPT !.at = "stock", !.of = {}, !.held = @ \cup {v}]
             n == visit[s].items[v]
  <2>3. Goto(s, step) /\ visit'[s] = step /\ \A t \in Shoppers \ {s} : visit'[t] = visit[t]
    BY <1>10, OneMoves DEF Reserve
  <2>4. ItemsAreFollowed(step) /\ v \notin visit[s].held
    BY <2>1, <2>2, ItemsGoOn
  <2>5. /\ step.at = "stock" /\ step.items = visit[s].items
        /\ step.held = visit[s].held \cup {v} /\ n \in Nat /\ v \in Variants
    BY <2>2, CheckoutAssumption DEF Ordering
  <2>6. claimed' = [claimed EXCEPT ![v] = claimed[v] + n] /\ UNCHANGED <<sold, clean>>
    BY <1>10 DEF Reserve, Stock!Take, Stock!Acknowledge
  <2> HIDE DEF step
  <2>7. \A t \in Shoppers : visit'[t].at \in Checking => ItemsAreFollowed(visit'[t])
    BY <2>3, <2>4 DEF ShelfInv
  <2>8. Held(s)' = Held(s) \cup {v}
    BY <2>2, <2>3, <2>5 DEF Held, At
  <2>9. ASSUME NEW w \in Tracked
        PROVE  /\ IsFiniteSet(Reserving(w)')
               /\ sold'[w] + InFlight(w)' <= claimed'[w]
               /\ claimed'[w] <= Level[w]
               /\ clean' => claimed'[w] = sold'[w] + InFlight(w)'
    <3>1. /\ IsFiniteSet(Reserving(w)') /\ InFlight(w) \in Nat /\ InFlight(w)' \in Nat
          /\ HeldUnits(s, w) \in Nat /\ HeldUnits(s, w)' \in Nat
          /\ InFlight(w)' = (InFlight(w) - HeldUnits(s, w)) + HeldUnits(s, w)'
      BY <2>3, InFlightMoves DEF ShelfInv
    <3>2. /\ w \in Variants /\ sold[w] \in Nat /\ claimed[w] \in Nat /\ Level[w] \in Nat
          /\ sold[w] + InFlight(w) <= claimed[w] /\ claimed[w] <= Level[w]
          /\ clean => claimed[w] = sold[w] + InFlight(w)
      BY CheckoutAssumption DEF ShoppingTypeOK, ShelfInv, ReservedCoversOrders
    <3>3. CASE w = v
      <4>1. HeldUnits(s, w) = 0 /\ HeldUnits(s, w)' = n
        BY <2>2, <2>3, <2>4, <2>5, <2>8, <3>3 DEF HeldUnits
      <4>2. claimed'[w] = claimed[w] + n
        BY <2>6, <3>3 DEF ShelfInv
      <4>3. Level[w] - claimed[w] >= n
        BY <1>10, <3>3 DEF Reserve, Available
      <4> QED
        BY <2>5, <2>6, <3>1, <3>2, <4>1, <4>2, <4>3
    <3>4. CASE w # v
      <4>1. HeldUnits(s, w)' = HeldUnits(s, w)
        BY <2>3, <2>5, <2>8, <3>4 DEF HeldUnits
      <4>2. claimed'[w] = claimed[w]
        BY <2>6, <3>4 DEF ShelfInv
      <4> QED
        BY <2>6, <3>1, <3>2, <4>1, <4>2
    <3> QED
      BY <3>3, <3>4
  <2>10. claimed' \in [Tracked -> Nat]
    BY <2>5, <2>6 DEF ShelfInv
  <2> QED
    BY <2>7, <2>9, <2>10 DEF ShelfInv, ReservedCoversOrders
<1>11. ASSUME NEW s \in Shoppers, Place(s) PROVE ShelfInv'
  <2>1. visit[s].at = "stock" /\ visit[s].at \in Checking /\ visit[s].left = {}
    BY <1>11 DEF Place, At, Checking
  <2>2. visit[s] \in Ordering /\ ItemsAreFollowed(visit[s]) /\ Held(s) = visit[s].held
    BY <1>6, <2>1
  <2>3. Goto(s, Free) /\ visit'[s] = Free /\ \A t \in Shoppers \ {s} : visit'[t] = visit[t]
    BY <1>11, OneMoves DEF Place
  <2>4. \A t \in Shoppers : visit'[t].at \in Checking => ItemsAreFollowed(visit'[t])
    BY <2>3 DEF ShelfInv, Free, Checking
  <2>5. UNCHANGED <<claimed, clean>> /\ \A w \in Variants : sold'[w] = sold[w] + visit[s].items[w]
    BY <1>11 DEF Place
  <2>6. ASSUME NEW w \in Tracked
        PROVE  /\ IsFiniteSet(Reserving(w)')
               /\ sold'[w] + InFlight(w)' <= claimed'[w]
               /\ claimed'[w] <= Level[w]
               /\ clean' => claimed'[w] = sold'[w] + InFlight(w)'
    <3>1. /\ IsFiniteSet(Reserving(w)') /\ InFlight(w) \in Nat /\ InFlight(w)' \in Nat
          /\ HeldUnits(s, w) \in Nat /\ HeldUnits(s, w)' \in Nat
          /\ InFlight(w)' = (InFlight(w) - HeldUnits(s, w)) + HeldUnits(s, w)'
      BY <2>3, InFlightMoves DEF ShelfInv
    <3>2. /\ w \in Variants /\ sold[w] \in Nat /\ claimed[w] \in Nat /\ Level[w] \in Nat
          /\ sold[w] + InFlight(w) <= claimed[w] /\ claimed[w] <= Level[w]
          /\ clean => claimed[w] = sold[w] + InFlight(w)
      BY CheckoutAssumption DEF ShoppingTypeOK, ShelfInv, ReservedCoversOrders
    <3>3. HeldUnits(s, w)' = 0
      BY <2>3 DEF HeldUnits, Held, At, Free
    <3>4. visit[s].items[w] \in Nat
      BY <2>2, <3>2 DEF Ordering
    <3>5. visit[s].items[w] > 0 => w \in visit[s].held
      BY <2>1, <2>2 DEF ItemsAreFollowed
    <3>6. HeldUnits(s, w) = visit[s].items[w]
      BY <2>2, <3>4, <3>5 DEF HeldUnits
    <3> QED
      BY <2>5, <3>1, <3>2, <3>3, <3>6
  <2> QED
    BY <2>4, <2>5, <2>6 DEF ShelfInv, ReservedCoversOrders
<1>12. CASE UNCHANGED <<claimed, sold, visit, clean>>
  BY <1>12 DEF ShelfInv, ReservedCoversOrders, InFlight, Reserving, Held, At
<1>13. ASSUME NEW s \in Shoppers, Act(s) PROVE ShelfInv'
  <2>1. CASE \E v \in Tracked : Reserve(s, v) \/ ReserveRefused(s, v)
    BY <1>1, <1>10, <2>1, CheckoutAssumption
  <2>2. CASE \E v \in Variants : AddRead(s, v) \/ CheckStock(s, v) \/ OutOfStock(s, v)
    BY <1>1, <1>3, <1>9, <2>2
  <2>3. CASE \E codes \in SUBSET Coupons :
               /\ Cardinality(codes) <= 1
               /\ FromCart(s, codes) \/ (\E v \in Variants : Direct(s, v, codes))
    BY <1>5, <2>3
  <2>4. CASE \/ AddWrite(s) \/ AddThrows(s) \/ ReadCoupon(s) \/ CouponExhausted(s)
             \/ ReadFirst(s) \/ ReadPromotions(s) \/ QuoteExpired(s) \/ Place(s) \/ Stops(s)
    BY <1>1, <1>3, <1>8, <1>11, <2>4
  <2> QED
    BY <1>13, <2>1, <2>2, <2>3, <2>4 DEF Act
<1> QED
  BY <1>12, <1>13 DEF ShoppingNext, SetQuantity, shoppingVars

\* Whatever the checkouts do to each other between looking at a row and reserving,
\* every ordered unit is backed by a reservation and no more is reserved than the
\* shelf holds; nothing is left over while no checkout ended in between
\* (createOrderFromItems, reserveStock).
THEOREM ReservedCoversOrdersHolds == ShoppingSpec => []ReservedCoversOrders
<1>1. ShoppingInit => ShelfInv
  <2> SUFFICES ASSUME ShoppingInit PROVE ShelfInv
    OBVIOUS
  <2>1. \A s \in Shoppers : visit[s] = Free /\ Held(s) = {} /\ visit[s].at \notin Checking
    BY DEF ShoppingInit, Held, At, Free, Checking
  <2>2. \A v \in Tracked : Reserving(v) = {}
    BY <2>1 DEF Reserving
  <2>3. \A v \in Tracked : IsFiniteSet(Reserving(v)) /\ InFlight(v) = 0
    BY <2>2, FS_EmptySet DEF InFlight
  <2>4. \A v \in Tracked : claimed[v] = 0 /\ sold[v] = 0 /\ Level[v] \in Nat
    BY CheckoutAssumption DEF ShoppingInit
  <2>5. claimed \in [Tracked -> Nat]
    BY DEF ShoppingInit
  <2> QED
    BY <2>1, <2>3, <2>4, <2>5 DEF ShelfInv, ReservedCoversOrders
<1>2. ShoppingInv /\ ShoppingInv' /\ ShelfInv /\ [ShoppingNext]_shoppingVars => ShelfInv'
  BY ShelfIsKept DEF ShoppingInv
<1>3. ShelfInv => ReservedCoversOrders
  BY DEF ShelfInv
<1> QED
  BY <1>1, <1>2, <1>3, ShoppingInvAlways, PTL DEF ShoppingSpec


=============================================================================
