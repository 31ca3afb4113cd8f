----------------------------- MODULE ProductSync ------------------------------
(***************************************************************************)
(* Refreshing imported products from their supplier in the background:     *)
(* resyncAll writes a Job row for each chunk of products and queues a      *)
(* message for it, handleProductSync works the chunk off product by        *)
(* product and moves the Job row along.                                    *)
(***************************************************************************)
EXTENDS Naturals

CONSTANTS
  Tasks,           \* Job rows; the message of t is t
  Products,        \* SupplierProducts that are in the catalog
  Chunk,           \* task -> the products it is to refresh
  Runners,         \* API requests and worker jobs that run at the same time
  MaxReceives,     \* SQS_MAX_RECEIVE_COUNT
  MaxOffers,       \* bound: how often the supplier changes a product
  MaxSyncFaults    \* bound: crashes, throws, lapses, redeliveries, hand-backs

ASSUME SyncAssumption ==
  /\ Chunk \in [Tasks -> SUBSET Products]
  /\ MaxReceives \in Nat \ {0}
  /\ MaxOffers \in Nat
  /\ MaxSyncFaults \in Nat

VARIABLES
  queue, receives, \* the product-sync queue
  status,          \* task -> Job.status, "none" without a row
  offer,           \* product -> version of the supplier's current data
  raw,             \* product -> version in SupplierProduct.rawData
  sync,            \* product -> SupplierProduct.syncStatus
  listed,          \* product -> version the catalog was written from
  run,             \* runner -> the step it is at and what it has read
  faults,          \* how much of MaxSyncFaults is used up
  serial,          \* history: never two runners at once so far
  clean            \* history: nothing died, and no error went unrecorded

Queue == INSTANCE SqsQueue WITH Messages <- Tasks

sqs == <<queue, receives>>
data == <<offer, raw, sync, listed>>
syncVars == <<sqs, status, data, run, faults, serial, clean>>

Settled == {"COMPLETED", "FAILED"}

JobStatus == Settled \cup {"PENDING", "PROCESSING"}

\* Who runs: the request that queues the task, or its delivery, by whether
\* isFinalAttempt holds of it.
Attempt == {"api", "early", "final"}

Version == 0 .. MaxOffers

Idle == [at |-> "idle"]

SyncInit ==
  /\ Queue!Init
  /\ status = [t \in Tasks |-> "none"]
  /\ offer = [p \in Products |-> 0]
  /\ raw = offer
  /\ sync = [p \in Products |-> "SUCCESS"]
  /\ listed = offer
  /\ run = [j \in Runners |-> Idle]
  /\ faults = 0
  /\ serial = TRUE
  /\ clean = TRUE

-----------------------------------------------------------------------------
Goto(j, step) == run' = [run EXCEPT ![j] = step]

At(j, at) == run[j].at = at

Proceed(j, at) == Goto(j, [at |-> at, of |-> run[j].of, as |-> run[j].as])

\* updateJobStatus begins.
Update(j, to) ==
  Goto(j, [at |-> "check", of |-> run[j].of, as |-> run[j].as, to |-> to])

Continue(j, left) ==
  Goto(j, [at |-> "next", of |-> run[j].of, as |-> run[j].as, left |-> left])

\* What follows updateJobStatus.
Updated(j) ==
  \/ run[j].to = "PROCESSING" /\ Continue(j, Chunk[run[j].of])
  \/ run[j].to = "COMPLETED" /\ Proceed(j, "delete")
  \/ run[j].to = "FAILED" /\ run[j].as = "api" /\ Goto(j, Idle)
  \/ run[j].to = "FAILED" /\ run[j].as # "api" /\ Proceed(j, "retry")

\* One step with a product of the chunk.
Handle(j, at, left, p, seen) ==
  Goto(j, [at |-> at, of |-> run[j].of, as |-> run[j].as,
           left |-> left, product |-> p, seen |-> seen])

-----------------------------------------------------------------------------
(***************************************************************************)
(* resyncAll, publishProductSyncJob                                        *)
(***************************************************************************)
Create(j, t) ==
  /\ run[j] = Idle
  /\ status[t] = "none"
  /\ status' = [status EXCEPT ![t] = "PENDING"]
  /\ Goto(j, [at |-> "publish", of |-> t, as |-> "api"])
  /\ UNCHANGED <<sqs, data>>

Publish(j) ==
  /\ At(j, "publish")
  /\ Queue!Send(run[j].of)
  /\ Goto(j, Idle)
  /\ UNCHANGED <<status, data>>

\* The enqueue fails, or only seems to: the job is marked FAILED.
PublishFails(j) ==
  /\ At(j, "publish")
  /\ Queue!Send(run[j].of) \/ UNCHANGED sqs
  /\ Update(j, "FAILED")
  /\ UNCHANGED <<status, data>>

-----------------------------------------------------------------------------
(***************************************************************************)
(* One delivery: runOne and handleProductSync.                             *)
(***************************************************************************)

Receive(j, t) ==
  /\ run[j] = Idle
  /\ Queue!Receive(t)
  /\ Goto(j, [at |-> "look", of |-> t,
              as |-> IF receives'[t] >= MaxReceives THEN "final" ELSE "early"])
  /\ UNCHANGED <<status, data>>

Look(j) ==
  /\ At(j, "look")
  /\ IF status[run[j].of] \in Settled THEN Proceed(j, "delete") ELSE Update(j, "PROCESSING")
  /\ UNCHANGED <<sqs, status, data>>

\* updateJobStatus reads the job and leaves a settled one alone ...
Check(j) ==
  /\ At(j, "check")
  /\ IF status[run[j].of] \in Settled
       THEN Updated(j)
       ELSE Goto(j, [at |-> "put", of |-> run[j].of, as |-> run[j].as, to |-> run[j].to])
  /\ UNCHANGED <<sqs, status, data>>

\* Mutant of Put: the end of the job is not recorded.
PutNothing(j) ==
  /\ At(j, "put")
  /\ Updated(j)
  /\ UNCHANGED <<sqs, status, data>>

\* ... and writes without looking again.
Put(j) ==
  /\ At(j, "put")
  /\ status' = [status EXCEPT ![run[j].of] = run[j].to]
  /\ Updated(j)
  /\ UNCHANGED <<sqs, data>>

\* The supplier returns the product as it is now.
Fetch(j, p) ==
  /\ At(j, "next")
  /\ p \in run[j].left
  /\ Handle(j, "save", run[j].left \ {p}, p, offer[p])
  /\ UNCHANGED <<sqs, status, data>>

\* The supplier does not know the product, or the call throws.
FetchFails(j, p) ==
  /\ At(j, "next")
  /\ p \in run[j].left
  /\ Handle(j, "flunk", run[j].left \ {p}, p, 0)
  /\ UNCHANGED <<sqs, status, data>>

\* The bookkeeping on SupplierProduct comes before the import.
Save(j) ==
  /\ At(j, "save")
  /\ raw' = [raw EXCEPT ![run[j].product] = run[j].seen]
  /\ sync' = [sync EXCEPT ![run[j].product] = "SUCCESS"]
  /\ Handle(j, "import", run[j].left, run[j].product, run[j].seen)
  /\ UNCHANGED <<sqs, status, offer, listed>>

\* importProduct: one transaction.
Import(j) ==
  /\ At(j, "import")
  /\ listed' = [listed EXCEPT ![run[j].product] = run[j].seen]
  /\ raw' = [raw EXCEPT ![run[j].product] = run[j].seen]
  /\ Continue(j, run[j].left)
  /\ UNCHANGED <<sqs, status, offer, sync>>

\* Mutant of ImportFails: the failure is not recorded.
ImportFailsQuietly(j) ==
  /\ At(j, "save") \/ At(j, "import")
  /\ Continue(j, run[j].left)
  /\ UNCHANGED <<sqs, status, data>>

\* Saving or importing the product throws.
ImportFails(j) ==
  /\ At(j, "save") \/ At(j, "import")
  /\ Handle(j, "flunk", run[j].left, run[j].product, 0)
  /\ UNCHANGED <<sqs, status, data>>

Flunk(j) ==
  /\ At(j, "flunk")
  /\ sync' = [sync EXCEPT ![run[j].product] = "FAILED"]
  /\ Continue(j, run[j].left)
  /\ UNCHANGED <<sqs, status, offer, raw, listed>>

Complete(j) ==
  /\ At(j, "next")
  /\ run[j].left = {}
  /\ Update(j, "COMPLETED")
  /\ UNCHANGED <<sqs, status, data>>

Finish(j) ==
  /\ At(j, "delete")
  /\ Queue!Delete(run[j].of)
  /\ Goto(j, Idle)
  /\ UNCHANGED <<status, data>>

GiveUp(j) ==
  /\ At(j, "retry")
  /\ Queue!Retry(run[j].of)
  /\ Goto(j, Idle)
  /\ UNCHANGED <<status, data>>

Work(j) ==
  \/ \E t \in Tasks : Create(j, t) \/ Receive(j, t)
  \/ \E p \in Products : Fetch(j, p) \/ FetchFails(j, p)
  \/ Publish(j)
  \/ Look(j)
  \/ Check(j)
  \/ Put(j)
  \/ Save(j)
  \/ Import(j)
  \/ ImportFails(j)
  \/ Flunk(j)
  \/ Complete(j)
  \/ Finish(j)
  \/ GiveUp(j)

-----------------------------------------------------------------------------
(***************************************************************************)
(* What goes wrong.                                                        *)
(***************************************************************************)

\* The whole job throws: no supplier row, no adapter, no database before the
\* first product, or when a product's failure is to be recorded.  Only the last
\* attempt marks it FAILED.
Break(j, at) ==
  /\ At(j, at)
  /\ at = "next" => run[j].left = Chunk[run[j].of]
  /\ IF run[j].as = "final" THEN Update(j, "FAILED") ELSE Proceed(j, "retry")
  /\ UNCHANGED <<sqs, status, data>>

\* Deleting the message throws, and is handled like a failed job.
FinishFails(j) ==
  /\ At(j, "delete")
  /\ Proceed(j, "retry")
  /\ UNCHANGED <<sqs, status, data>>

\* The first look throws: outside the try, so no attempt marks the job.
LookThrows(j) ==
  /\ At(j, "look")
  /\ Proceed(j, "retry")
  /\ UNCHANGED <<sqs, status, data>>

\* updateJobStatus catches its own errors and returns null.
Swallow(j) ==
  /\ At(j, "check") \/ At(j, "put")
  /\ Updated(j)
  /\ UNCHANGED <<sqs, status, data>>

Crash(j) ==
  /\ run[j] # Idle
  /\ Goto(j, Idle)
  /\ UNCHANGED <<sqs, status, data>>

\* A worker holds the message; the request that sent it does not.
Held(t) == \E j \in Runners : run[j] # Idle /\ run[j].of = t /\ run[j].as # "api"

\* The heartbeat fails while the job runs.
Lapse(t) == Held(t) /\ Queue!Reappear(t) /\ UNCHANGED <<status, data, run>>

Redeliver(t) == Queue!Redeliver(t) /\ UNCHANGED <<status, data, run>>

HandBack(t) == Queue!HandBack(t) /\ UNCHANGED <<status, data, run>>

SyncFault ==
  /\ faults < MaxSyncFaults
  /\ faults' = faults + 1
  /\ \/ /\ \/ \E j \in Runners : PublishFails(j) \/ Break(j, "next") \/ FinishFails(j)
           \/ \E t \in Tasks : Lapse(t) \/ Redeliver(t)
        /\ UNCHANGED clean
     \/ /\ \/ \E j \in Runners :
                LookThrows(j) \/ Break(j, "flunk") \/ Swallow(j) \/ Crash(j)
           \/ \E t \in Tasks : HandBack(t)
        /\ clean' = FALSE

-----------------------------------------------------------------------------
Return(t) == ~ Held(t) /\ Queue!Reappear(t) /\ UNCHANGED <<status, data, run>>

Redrive(t) == Queue!Redrive(t) /\ UNCHANGED <<status, data, run>>

\* The supplier changes a product.
Offer(p) ==
  /\ offer[p] < MaxOffers
  /\ offer' = [offer EXCEPT ![p] = @ + 1]
  /\ UNCHANGED <<sqs, status, raw, sync, listed, run>>

Act ==
  \/ /\ \/ \E j \in Runners : Work(j)
        \/ \E t \in Tasks : Return(t) \/ Redrive(t)
        \/ \E p \in Products : Offer(p)
     /\ UNCHANGED <<faults, clean>>
  \/ SyncFault

BusyRunners == {j \in Runners : run[j] # Idle}

SyncNext == Act /\ serial' = (serial /\ \A i, j \in BusyRunners' : i = j)

SyncSpec == SyncInit /\ [][SyncNext]_syncVars

-----------------------------------------------------------------------------
(***************************************************************************)
(* Properties.                                                             *)
(***************************************************************************)

\* With its message gone, deleted or dead, a job is settled, if nothing
\* overlapped or died and no error went unrecorded.
CleanJobIsSettled ==
  serial /\ clean =>
    \A t \in Tasks : queue[t] \in {"gone", "dead"} /\ ~ Held(t) => status[t] \in Settled

\* A product that counts as synced is in the catalog as it was fetched, even if
\* jobs overlap, as long as none dies between the two writes.
SyncedIsImported ==
  clean =>
    \A p \in Products :
      sync[p] = "SUCCESS" =>
        \/ listed[p] = raw[p]
        \/ \E j \in Runners : run[j].at \in {"import", "flunk"} /\ run[j].product = p

=============================================================================
