---------------------------- MODULE SupplierRefund ----------------------------
(***************************************************************************)
(* The worker that asks the supplier for the money of a refunded order:    *)
(* issueRefund queues one message for each Refund, handleSupplierRefund    *)
(* files a dispute for it.  The queue delivers at least once, CJ opens     *)
(* every dispute it is asked for, and what keeps the two apart is a marker *)
(* for each Refund inside one JSON column of the supplier order, which is  *)
(* read and written back whole.                                            *)
(***************************************************************************)
EXTENDS Naturals

CONSTANTS
  Refunds,         \* Refund rows of one supplier order
  Jobs,            \* jobs that run at the same time, over all workers
  MaxReceives,     \* SQS_MAX_RECEIVE_COUNT
  MaxMishaps       \* bound: crashes, throws, lapses, redeliveries, hand-backs

ASSUME RefundAssumption == MaxReceives \in Nat \ {0} /\ MaxMishaps \in Nat

VARIABLES
  queue, receives, \* the supplier-refund queue; the message of r is r
  requests,        \* rawResponse.supplierRefundRequests: refund -> its marker
  automatic,       \* the supplier's adapter has requestRefund
  filed,           \* refund -> disputes CJ opened for it
  job,             \* job -> the step it is at and what it has read
  mishaps,         \* how much of MaxMishaps is used up
  solo,            \* history: never two jobs at once so far
  honest           \* history: no call threw after CJ had opened the dispute

Queue == INSTANCE SqsQueue WITH Messages <- Refunds

sqs == <<queue, receives>>
refundVars == <<sqs, requests, automatic, filed, job, mishaps, solo, honest>>

\* The markers that mean DONE, by what was recorded: requested, not requested,
\* or a manual check of an attempt that was cut off.
Done == {"filed", "refused", "review"}

Marker == Done \cup {"none", "IN_PROGRESS"}

Markers == [Refunds -> Marker]

NoMarkers == [r \in Refunds |-> "none"]

Free == [at |-> "idle"]

RefundInit ==
  /\ Queue!Init
  /\ requests = NoMarkers
  /\ automatic \in BOOLEAN
  /\ filed = [r \in Refunds |-> 0]
  /\ job = [j \in Jobs |-> Free]
  /\ mishaps = 0
  /\ solo = TRUE
  /\ honest = TRUE

-----------------------------------------------------------------------------
(***************************************************************************)
(* One delivery: runOne and handleSupplierRefund.                          *)
(***************************************************************************)
MoveTo(j, step) == job' = [job EXCEPT ![j] = step]

Proceed(j, at) == MoveTo(j, [at |-> at, of |-> job[j].of])

\* The next write of the column stores this marker.
Store(j, to) == MoveTo(j, [at |-> "read", of |-> job[j].of, to |-> to])

Receive(j, r) ==
  /\ job[j] = Free
  /\ Queue!Receive(r)
  /\ MoveTo(j, [at |-> "look", of |-> r])
  /\ UNCHANGED <<requests, filed>>

\* Mutant of Look: a cut-off attempt is taken for one that never began.
LookAgain(j) ==
  /\ job[j].at = "look"
  /\ IF requests[job[j].of] \in Done THEN Proceed(j, "delete") ELSE Store(j, "IN_PROGRESS")
  /\ UNCHANGED <<sqs, requests, filed>>

\* getSupplierRefundRequestState
Look(j) ==
  /\ job[j].at = "look"
  /\ LET marker == requests[job[j].of]
     IN  \/ marker \in Done /\ Proceed(j, "delete")
         \/ marker = "IN_PROGRESS" /\ Store(j, "review")
         \/ marker = "none" /\ Store(j, IF automatic THEN "IN_PROGRESS" ELSE "refused")
  /\ UNCHANGED <<sqs, requests, filed>>

\* getSupplierOrderRawResponse
ReadColumn(j) ==
  /\ job[j].at = "read"
  /\ MoveTo(j, [at |-> "write", of |-> job[j].of, to |-> job[j].to, seen |-> requests])
  /\ UNCHANGED <<sqs, requests, filed>>

\* Mutant of WriteColumn: the marker cleared, the supplier's error is not rethrown.
WriteColumnSwallows(j) ==
  /\ job[j].at = "write"
  /\ requests' = [job[j].seen EXCEPT ![job[j].of] = job[j].to]
  /\ Proceed(j, IF job[j].to = "IN_PROGRESS" THEN "call" ELSE "delete")
  /\ UNCHANGED <<sqs, filed>>

\* setSupplierRefundRequestInProgress, recordSupplierRefundResult
WriteColumn(j) ==
  /\ job[j].at = "write"
  /\ requests' = [job[j].seen EXCEPT ![job[j].of] = job[j].to]
  /\ Proceed(j, CASE job[j].to = "IN_PROGRESS" -> "call"
                  [] job[j].to = "none" -> "retry"
                  [] job[j].to \in Done -> "delete")
  /\ UNCHANGED <<sqs, filed>>

\* requestRefund: nothing to dispute, no reason to offer, or CJ says no.
CallRefused(j) ==
  /\ job[j].at = "call"
  /\ Store(j, "refused")
  /\ UNCHANGED <<sqs, requests, filed>>

\* createDispute
CallFiles(j) ==
  /\ job[j].at = "call"
  /\ filed' = [filed EXCEPT ![job[j].of] = @ + 1]
  /\ Proceed(j, "list")
  /\ UNCHANGED <<sqs, requests>>

\* getDisputeList
ListAnswers(j) ==
  /\ job[j].at = "list"
  /\ Store(j, "filed")
  /\ UNCHANGED <<sqs, requests, filed>>

Finish(j) ==
  /\ job[j].at = "delete"
  /\ Queue!Delete(job[j].of)
  /\ MoveTo(j, Free)
  /\ UNCHANGED <<requests, filed>>

GiveUp(j) ==
  /\ job[j].at = "retry"
  /\ Queue!Retry(job[j].of)
  /\ MoveTo(j, Free)
  /\ UNCHANGED <<requests, filed>>

Work(j) ==
  \/ Look(j)
  \/ ReadColumn(j)
  \/ WriteColumn(j)
  \/ CallRefused(j)
  \/ CallFiles(j)
  \/ ListAnswers(j)
  \/ Finish(j)
  \/ GiveUp(j)

-----------------------------------------------------------------------------
(***************************************************************************)
(* What goes wrong.                                                        *)
(***************************************************************************)

\* The supplier call throws before CJ has opened a dispute.
CallThrows(j) ==
  /\ job[j].at = "call"
  /\ Store(j, "none")
  /\ UNCHANGED <<sqs, requests, filed>>

\* The dispute is open, but its number cannot be read.
ListThrows(j) ==
  /\ job[j].at = "list"
  /\ Store(j, "none")
  /\ UNCHANGED <<sqs, requests, filed>>

\* A statement of the job throws.  (So may the one that clears the marker: it
\* is caught, and the supplier's error rethrown.)
Fail(j) ==
  /\ job[j].at \in {"look", "read", "write", "delete"}
  /\ Proceed(j, "retry")
  /\ UNCHANGED <<sqs, requests, filed>>

Crash(j) ==
  /\ job[j] # Free
  /\ MoveTo(j, Free)
  /\ UNCHANGED <<sqs, requests, filed>>

Held(r) == \E j \in Jobs : job[j] # Free /\ job[j].of = r

\* The heartbeat fails while the job runs.
Lapse(r) ==
  /\ Held(r)
  /\ Queue!Reappear(r)
  /\ UNCHANGED <<requests, filed, job>>

HandBack(r) ==
  /\ Queue!HandBack(r)
  /\ UNCHANGED <<requests, filed, job>>

SendAgain(r) ==
  /\ Queue!Redeliver(r)
  /\ UNCHANGED <<requests, filed, job>>

Mishap ==
  /\ mishaps < MaxMishaps
  /\ mishaps' = mishaps + 1
  /\ \/ \E j \in Jobs : CallThrows(j) \/ ListThrows(j) \/ Fail(j) \/ Crash(j)
     \/ \E r \in Refunds : Lapse(r) \/ HandBack(r) \/ SendAgain(r)

-----------------------------------------------------------------------------
Send(r) == Queue!Send(r) /\ UNCHANGED <<requests, filed, job>>

Return(r) ==
  /\ ~ Held(r)
  /\ Queue!Reappear(r)
  /\ UNCHANGED <<requests, filed, job>>

Redrive(r) == Queue!Redrive(r) /\ UNCHANGED <<requests, filed, job>>

HandOver(r) == Return(r) \/ Redrive(r) \/ \E j \in Jobs : Receive(j, r)

Act ==
  \/ /\ \/ \E r \in Refunds : Send(r) \/ HandOver(r)
        \/ \E j \in Jobs : Work(j)
     /\ UNCHANGED mishaps
  \/ Mishap

Busy == {j \in Jobs : job[j] # Free}

\* What goes along with every step.
Aside ==
  /\ solo' = (solo /\ \A i, j \in Busy' : i = j)
  /\ honest' = (honest /\ ~ \E j \in Jobs : ListThrows(j))
  /\ UNCHANGED automatic

RefundNext == Act /\ Aside

RefundSpec == RefundInit /\ [][RefundNext]_refundVars

-----------------------------------------------------------------------------
(***************************************************************************)
(* Properties.                                                             *)
(***************************************************************************)

\* issueRefund: a Refund reaches the supplier at most once, however often its
\* message is delivered.
FiledOnce == \A r \in Refunds : filed[r] <= 1

\* It does when jobs do not overlap and no call throws once the dispute is
\* open, whatever is cut off, retried or delivered again.
SerialFiledOnce == solo /\ honest => FiledOnce

\* The column is all the staff have to go by.  While jobs do not overlap, no
\* message is deleted without an outcome in it, whichever attempts threw, were
\* cut off or used up receives; "requested" is said only of a dispute that CJ
\* opened, and "not requested" of none, unless a call threw once it was open
\* (runOne, handleSupplierRefund).
SerialOutcomeIsTrue ==
  solo =>
    \A r \in Refunds :
      /\ queue[r] = "gone" => requests[r] \in Done
      /\ requests[r] = "filed" => filed[r] > 0
      /\ honest /\ requests[r] = "refused" => filed[r] = 0

=============================================================================
