------------------------------ MODULE Inventory ------------------------------
(***************************************************************************)
(* InventoryRepository: the stock rows of one product variant, and the     *)
(* three operations that write them.  Each operation reads a row and       *)
(* writes it back in a second statement, so any number of requests can     *)
(* interleave between the two; reserveStock and releaseReservation guard   *)
(* their write with the row's version, setStock does not.                  *)
(* Rows of different variants never interact: one variant is modelled.     *)
(***************************************************************************)
EXTENDS Integers

CONSTANTS
  Locations,       \* inventory locations of the tenant
  Clerks,          \* concurrent requests being served
  Reservable,      \* units a checkout reserves at a time
  Releasable,      \* units a release gives back; no route calls release today
  Levels,          \* physical counts staff can set
  MaxVersion       \* bound: row writes that bump the version

ASSUME InventoryAssumption ==
  /\ Reservable \subseteq Nat \ {0}
  /\ Releasable \subseteq Nat \ {0}
  /\ Levels \subseteq Nat
  /\ MaxVersion \in Nat

VARIABLES
  stock,           \* location -> its row; version 0 means there is no row
  job,             \* request -> what it has read and is about to write
  calm             \* history: every count so far was set while nothing else ran

vars == <<stock, job, calm>>

Row == [onHand : Nat, reserved : Nat, available : Int, version : Nat]

NoRow == [onHand |-> 0, reserved |-> 0, available |-> 0, version |-> 0]

FreshRow(n) == [onHand |-> n, reserved |-> 0, available |-> n, version |-> 1]

Idle == [op |-> "idle"]

Jobs == [op : {"reserve", "release", "set"}, loc : Locations, n : Nat, seen : Row]

TypeOK ==
  /\ stock \in [Locations -> Row]
  /\ job \in [Clerks -> Jobs \cup {Idle}]

\* Math.max(0, n)
Clamp(n) == IF n > 0 THEN n ELSE 0

\* Rows exist for some locations already (setStock created them) or not yet.
Init ==
  /\ stock \in [Locations -> {NoRow} \cup {FreshRow(n) : n \in Levels}]
  /\ job = [c \in Clerks |-> Idle]
  /\ calm = TRUE

\* The first statement of an operation: findFirst, its result kept in a local.
Read(c, op, l, n) ==
  /\ job[c] = Idle
  /\ job' = [job EXCEPT ![c] = [op |-> op, loc |-> l, n |-> n, seen |-> stock[l]]]
  /\ UNCHANGED stock

\* reserveStock, up to its conditional write: a missing row or too little
\* available stock throws and leaves everything as it is.
ReserveRead(c, l, q) ==
  /\ stock[l].version > 0
  /\ stock[l].available >= q
  /\ stock[l].version < MaxVersion
  /\ Read(c, "reserve", l, q)

\* releaseReservation, up to its conditional write: a missing row returns early.
ReleaseRead(c, l, q) ==
  /\ stock[l].version > 0
  /\ stock[l].version < MaxVersion
  /\ Read(c, "release", l, q)

SetRead(c, l, n) == Read(c, "set", l, n)

Finish(c) == job' = [job EXCEPT ![c] = Idle]

\* The columns a guarded write sets, and those setStock sets.
Reserved(row, reserved, available) ==
  [onHand |-> row.onHand, reserved |-> reserved, available |-> available,
   version |-> row.version + 1]

Recounted(row, onHand, available) ==
  [onHand |-> onHand, reserved |-> row.reserved, available |-> available,
   version |-> row.version]

\* Mutant of VersionStillRead: the version left out of the WHERE clause.
VersionUnchecked(c) == stock[job[c].loc].version > 0

\* updateMany ... where version = the version read
VersionStillRead(c) == stock[job[c].loc].version = job[c].seen.version

\* The write of reserveStock.  It leaves onHand alone, and computes available
\* from the onHand it read, not from the one in the row.
ReserveWrite(c) ==
  /\ job[c].op = "reserve"
  /\ VersionStillRead(c)
  /\ LET seen == job[c].seen
         total == seen.reserved + job[c].n
     IN  stock' = [stock EXCEPT ![job[c].loc] = Reserved(@, total, Clamp(seen.onHand - total))]
  /\ Finish(c)

\* The write of releaseReservation: available is not clamped here.
ReleaseWrite(c) ==
  /\ job[c].op = "release"
  /\ VersionStillRead(c)
  /\ LET seen == job[c].seen
         total == Clamp(seen.reserved - job[c].n)
     IN  stock' = [stock EXCEPT ![job[c].loc] = Reserved(@, total, seen.onHand - total)]
  /\ Finish(c)

\* updateMany matched no row: "Optimistic locking failed", the request throws.
OptimisticLockFailure(c) ==
  /\ job[c].op \in {"reserve", "release"}
  /\ ~ VersionStillRead(c)
  /\ Finish(c)
  /\ UNCHANGED stock

\* setStock found a row: onHand and available are overwritten whatever the
\* row's version has become, and the version is left alone.
SetUpdate(c) ==
  /\ job[c].op = "set"
  /\ job[c].seen.version > 0
  /\ stock' = [stock EXCEPT ![job[c].loc] =
                 Recounted(@, job[c].n, Clamp(job[c].n - job[c].seen.reserved))]
  /\ Finish(c)

\* setStock found none: it creates the row, or the unique constraint on
\* (variantId, locationId) rejects the insert because another request did.
SetCreate(c) ==
  /\ job[c].op = "set"
  /\ job[c].seen.version = 0
  /\ stock' = IF stock[job[c].loc].version = 0
                THEN [stock EXCEPT ![job[c].loc] = FreshRow(job[c].n)]
                ELSE stock
  /\ Finish(c)

Serve ==
  \E c \in Clerks :
    \/ \E l \in Locations, q \in Reservable : ReserveRead(c, l, q)
    \/ \E l \in Locations, q \in Releasable : ReleaseRead(c, l, q)
    \/ \E l \in Locations, n \in Levels : SetRead(c, l, n)
    \/ ReserveWrite(c)
    \/ ReleaseWrite(c)
    \/ OptimisticLockFailure(c)
    \/ SetUpdate(c)
    \/ SetCreate(c)

\* A count is set while no other request is in flight on the variant.
RestockIsAlone ==
  \A c, d \in Clerks : c # d /\ job[c].op = "set" => job[d].op = "idle"

Next == Serve /\ calm' = (calm /\ RestockIsAlone')

Spec == Init /\ [][Next]_vars

-----------------------------------------------------------------------------
(***************************************************************************)
(* Properties.                                                             *)
(***************************************************************************)

\* The version check makes each reservation and release atomic: seen through
\* its reserved column and its version, every row behaves like the ledger,
\* whatever interleaves between a read and its write (reserveStock and
\* releaseReservation; setStock, which skips the check, must not disturb it).
Ledger == INSTANCE StockLedger WITH
            claimed <- [l \in Locations |-> stock[l].reserved],
            acked <- [l \in Locations |-> stock[l].version]

LedgerSpec == Ledger!Spec

\* The stored column is what the schema says it is, onHand - reserved, with or
\* without the clamp that two of the three writers apply.
AvailableIsComputed ==
  \A l \in Locations :
    LET free == stock[l].onHand - stock[l].reserved
    IN  stock[l].available \in {free, Clamp(free)}

\* So it is, at least, as long as counts are set on a quiet variant.
CalmAvailable == calm => AvailableIsComputed

\* No reservation promises units that are not on the shelf, as long as counts
\* are set on a quiet variant: two checkouts that read the same available stock
\* cannot both take it (reserveStock).
NoOversell ==
  [][\A l \in Locations :
       calm' /\ stock'[l].reserved > stock[l].reserved
         => stock'[l].reserved <= stock'[l].onHand]_vars

=============================================================================
