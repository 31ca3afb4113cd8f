--------------------------- MODULE DeliveriesProofs ---------------------------
(***************************************************************************)
(* Proofs about what is delivered at least once.                           *)
(*                                                                         *)
(* The webhook inbox keeps its promise for any number of deliveries and    *)
(* events: types, and the implementation of EventClaim.                    *)
(*                                                                         *)
(* The supplier-refund worker files one dispute for each Refund while its  *)
(* jobs do not overlap and no call throws once the dispute is open, for    *)
(* any number of Refunds and jobs, deliveries, cut-offs and retries.       *)
(***************************************************************************)
EXTENDS WebhookInbox, SupplierRefund, TLAPS

-----------------------------------------------------------------------------
(* The webhook inbox. *)

(***************************************************************************)
(* The inductive invariant: a delivery at work on an event holds its row   *)
(* at PENDING, and no two work on the same one.                            *)
(***************************************************************************)
ClaimInv ==
  /\ \A d \in Deliveries : Working(d) => row[served[d].event] = "PENDING"
  /\ \A d, b \in Deliveries :
       Working(d) /\ Working(b) /\ served[d].event = served[b].event => d = b

\* The history variable only watches.
LEMMA NextServes == [Next]_vars => [Serve]_vars
BY DEF Next

\* TLAPS: handleWebhook and recordWebhookEvent keep every variable in its type.
THEOREM TypeCorrect == Spec => []TypeOK
<1>1. Init => TypeOK
  BY WebhookAssumption DEF Init, TypeOK, Idle
<1>2. TypeOK /\ [Serve]_vars => TypeOK'
  <2> SUFFICES ASSUME TypeOK, [Serve]_vars PROVE TypeOK'
    OBVIOUS
  <2>1. CASE UNCHANGED vars
    BY <2>1 DEF vars, TypeOK
  <2>2. CASE Serve
    <3> PICK d \in Deliveries :
          \/ \E e \in Events : Deliver(d, e)
          \/ Step(d)
          \/ ThrowBeforeClaim(d)
          \/ Throw(d)
          \/ Stop(d)
      BY <2>2 DEF Serve
    <3> USE WebhookAssumption DEF TypeOK, Idle, At
    <3>1. CASE \E e \in Events : Deliver(d, e)
      BY <3>1 DEF Deliver
    <3>2. CASE AnswerDuplicate(d)
      BY <3>2 DEF AnswerDuplicate, Acknowledge, Leave
    <3>3. CASE SeeFailed(d)
      BY <3>3 DEF SeeFailed, Goto
    <3>4. CASE Reclaim(d)
      BY <3>4 DEF Reclaim, Goto
    <3>5. CASE ReclaimLost(d)
      BY <3>5 DEF ReclaimLost, Acknowledge, Leave
    <3>6. CASE Applied(d)
      BY <3>6 DEF Applied, Goto
    <3>7. CASE RecordSuccess(d)
      BY <3>7 DEF RecordSuccess, Acknowledge, Leave
    <3>8. CASE RecordFailure(d)
      BY <3>8 DEF RecordFailure, Leave
    <3>9. CASE ThrowBeforeClaim(d)
      BY <3>9 DEF ThrowBeforeClaim, Leave
    <3>10. CASE Throw(d)
      BY <3>10 DEF Throw, Goto
    <3>11. CASE Stop(d)
      BY <3>11 DEF Stop, Leave
    <3> QED
      BY <3>1, <3>2, <3>3, <3>4, <3>5, <3>6, <3>7, <3>8, <3>9, <3>10, <3>11 DEF Step
  <2> QED
    BY <2>1, <2>2
<1> QED
  BY <1>1, <1>2, NextServes, PTL DEF Spec

(***************************************************************************)
(* Who works on what after a step, in terms of what the step did.          *)
(***************************************************************************)

\* A delivery that moves on without claiming or leaving its event changes
\* nobody's work.
LEMMA KeepsWork ==
  ASSUME TypeOK, NEW d \in Deliveries, NEW at \in At, Goto(d, at),
         served[d] # Idle,
         (at \in {"process", "close", "fail"}) <=> Working(d)
  PROVE  /\ \A b \in Deliveries : Working(b)' <=> Working(b)
         /\ \A b \in Deliveries : Working(b) => served'[b].event = served[b].event
BY DEF TypeOK, Goto, Working, Idle, At

\* A delivery that starts to work on e joins the processors of e.
LEMMA StartsWork ==
  ASSUME TypeOK, NEW d \in Deliveries, NEW e \in Events, ~ Working(d),
         served' = [served EXCEPT ![d] = [at |-> "process", event |-> e]]
  PROVE  /\ Working(d)'
         /\ served'[d].event = e
         /\ \A b \in Deliveries \ {d} :
              (Working(b)' <=> Working(b)) /\ served'[b] = served[b]
BY DEF TypeOK, Working

\* A delivery that leaves works on nothing.
LEMMA StopsWork ==
  ASSUME TypeOK, NEW d \in Deliveries, Leave(d)
  PROVE  /\ ~ Working(d)'
         /\ \A b \in Deliveries \ {d} :
              (Working(b)' <=> Working(b)) /\ served'[b] = served[b]
BY DEF TypeOK, Leave, Working, Idle

(***************************************************************************)
(* The inductive invariant is one.                                         *)
(***************************************************************************)
LEMMA Exclusive == Spec => []ClaimInv
<1>1. Init => ClaimInv
  BY DEF Init, ClaimInv, Working, Idle
<1>2. TypeOK /\ TypeOK' /\ ClaimInv /\ [Serve]_vars => ClaimInv'
  <2> SUFFICES ASSUME TypeOK, TypeOK', ClaimInv, [Serve]_vars PROVE ClaimInv'
    OBVIOUS
  <2>1. CASE UNCHANGED vars
    BY <2>1 DEF vars, ClaimInv, Working
  <2>2. CASE Serve
    <3> PICK d \in Deliveries :
          \/ \E e \in Events : Deliver(d, e)
          \/ Step(d)
          \/ ThrowBeforeClaim(d)
          \/ Throw(d)
          \/ Stop(d)
      BY <2>2 DEF Serve
    \* A step after which d works on nothing and no working row has moved.
    <3>a. ASSUME ~ Working(d)',
                 \A b \in Deliveries \ {d} :
                   (Working(b)' <=> Working(b)) /\ (Working(b) => served'[b].event = served[b].event),
                 \A b \in Deliveries \ {d} :
                   Working(b) => row'[served[b].event] = row[served[b].event]
          PROVE  ClaimInv'
      BY <3>a DEF ClaimInv
    \* A step after which d still works on the same event.
    <3>b. ASSUME NEW at \in At, Goto(d, at), served[d] # Idle,
                 (at \in {"process", "close", "fail"}) <=> Working(d),
                 UNCHANGED row
          PROVE  ClaimInv'
      <4>1. /\ \A b \in Deliveries : Working(b)' <=> Working(b)
            /\ \A b \in Deliveries : Working(b) => served'[b].event = served[b].event
        BY <3>b, KeepsWork
      <4> QED
        BY <3>b, <4>1 DEF ClaimInv
    \* A step that claims e for d while nobody works on it.
    <3>c. ASSUME NEW e \in Events, ~ Working(d), row[e] # "PENDING",
                 row' = [row EXCEPT ![e] = "PENDING"],
                 served' = [served EXCEPT ![d] = [at |-> "process", event |-> e]]
          PROVE  ClaimInv'
      <4>1. /\ Working(d)'
            /\ served'[d].event = e
            /\ \A b \in Deliveries \ {d} :
                 (Working(b)' <=> Working(b)) /\ served'[b] = served[b]
        BY <3>c, StartsWork
      <4>2. \A b \in Deliveries : Working(b) => served[b].event # e
        BY <3>c DEF ClaimInv
      <4>3. row'[e] = "PENDING"
        BY <3>c DEF TypeOK
      <4>4. \A b \in Deliveries \ {d} :
              Working(b) => row'[served[b].event] = row[served[b].event]
        BY <3>c, <4>2 DEF TypeOK
      <4> QED
        BY <4>1, <4>2, <4>3, <4>4 DEF ClaimInv
    <3>1. CASE \E e \in Events : Deliver(d, e)
      <4> PICK e \in Events : Deliver(d, e)
        BY <3>1
      <4>1. ~ Working(d)
        BY DEF Deliver, Working, Idle
      <4>2. CASE row[e] = "none"
        BY <4>1, <4>2, <3>c DEF Deliver
      <4>3. CASE row[e] # "none"
        <5>1. ~ Working(d)' /\ \A b \in Deliveries \ {d} :
                (Working(b)' <=> Working(b)) /\ served'[b] = served[b]
          BY <4>3 DEF Deliver, Working, TypeOK
        <5> QED
          BY <5>1, <4>3, <3>a DEF Deliver
      <4> QED
        BY <4>2, <4>3
    <3>2. CASE AnswerDuplicate(d)
      BY <3>2, <3>a, StopsWork DEF AnswerDuplicate, Acknowledge
    <3>3. CASE SeeFailed(d)
      BY <3>3, <3>b DEF SeeFailed, Working, At, Idle
    <3>4. CASE Reclaim(d)
      <4>1. served[d].event \in Events /\ ~ Working(d)
        BY <3>4 DEF Reclaim, Working, TypeOK, Idle
      <4> QED
        BY <3>4, <4>1, <3>c DEF Reclaim, StillFailed, Goto
    <3>5. CASE ReclaimLost(d)
      BY <3>5, <3>a, StopsWork DEF ReclaimLost, Acknowledge
    <3>6. CASE Applied(d)
      BY <3>6, <3>b DEF Applied, Working, At, Idle
    <3>7. CASE RecordSuccess(d)
      <4>1. \A b \in Deliveries \ {d} :
              Working(b) => row'[served[b].event] = row[served[b].event]
        BY <3>7 DEF RecordSuccess, ClaimInv, Working, TypeOK
      <4> QED
        BY <3>7, <4>1, <3>a, StopsWork DEF RecordSuccess, Acknowledge
    <3>8. CASE RecordFailure(d)
      <4>1. \A b \in Deliveries \ {d} :
              Working(b) => row'[served[b].event] = row[served[b].event]
        BY <3>8 DEF RecordFailure, ClaimInv, Working, TypeOK
      <4> QED
        BY <3>8, <4>1, <3>a, StopsWork DEF RecordFailure
    <3>9. CASE ThrowBeforeClaim(d)
      BY <3>9, <3>a, StopsWork DEF ThrowBeforeClaim
    <3>10. CASE Throw(d)
      BY <3>10, <3>b DEF Throw, Working, At, Idle
    <3>11. CASE Stop(d)
      BY <3>11, <3>a, StopsWork DEF Stop
    <3> QED
      BY <3>1, <3>2, <3>3, <3>4, <3>5, <3>6, <3>7, <3>8, <3>9, <3>10, <3>11 DEF Step
  <2> QED
    BY <2>1, <2>2
<1> QED
  BY <1>1, <1>2, NextServes, TypeCorrect, PTL DEF Spec

(***************************************************************************)
(* The refinement.                                                         *)
(***************************************************************************)
W == [e \in Events |-> Processors(e)]

Succeeded == {e \in Events : row[e] = "SUCCESS"}

\* Nobody's work changed, and neither did what is done: a stuttering step.
LEMMA SameWork ==
  ASSUME \A b \in Deliveries : Working(b)' <=> Working(b),
         \A b \in Deliveries : Working(b) => served'[b].event = served[b].event
  PROVE  W' = W
<1>1. \A e \in Events : Processors(e)' = Processors(e)
  BY DEF Processors
<1> QED
  BY <1>1 DEF W

\* A working delivery is the only processor of its event.
LEMMA OnlyProcessor ==
  ASSUME ClaimInv, NEW d \in Deliveries, Working(d)
  PROVE  Processors(served[d].event) = {d}
BY DEF ClaimInv, Processors

\* When a working delivery leaves, its event has no processor.
LEMMA WorkEnds ==
  ASSUME TypeOK, ClaimInv, NEW d \in Deliveries, Working(d), Leave(d)
  PROVE  W' = [W EXCEPT ![served[d].event] = {}]
<1>1. /\ ~ Working(d)'
      /\ \A b \in Deliveries \ {d} : (Working(b)' <=> Working(b)) /\ served'[b] = served[b]
  BY StopsWork
<1>2. \A e \in Events :
        Processors(e)' = IF e = served[d].event THEN {} ELSE Processors(e)
  BY <1>1 DEF Processors, ClaimInv
<1> QED
  BY <1>2 DEF W

\* When an idle delivery leaves, no work changes.
LEMMA IdleEnds ==
  ASSUME TypeOK, NEW d \in Deliveries, ~ Working(d), Leave(d)
  PROVE  W' = W
<1>1. /\ ~ Working(d)'
      /\ \A b \in Deliveries \ {d} : (Working(b)' <=> Working(b)) /\ served'[b] = served[b]
  BY StopsWork
<1> QED
  BY <1>1, SameWork

\* TLAPS: recordWebhookEvent with the frame of handleWebhook implements
\* EventClaim: one delivery applies an event at a time, none after SUCCESS.
THEOREM ImplementsClaim == Spec => ClaimSpec
<1>1. Init => Claims!Init
  BY DEF Init, Claims!Init, Processors, Working, Idle
<1>2. TypeOK /\ TypeOK' /\ ClaimInv /\ [Serve]_vars => [Claims!Next]_<<W, Succeeded>>
  <2> SUFFICES ASSUME TypeOK, TypeOK', ClaimInv, [Serve]_vars
               PROVE  [Claims!Next]_<<W, Succeeded>>
    OBVIOUS
  <2>1. CASE UNCHANGED vars
    <3>1. W' = W
      BY <2>1, SameWork DEF vars, Working
    <3> QED
      BY <2>1, <3>1 DEF vars, Succeeded
  <2>2. CASE Serve
    <3> PICK d \in Deliveries :
          \/ \E e \in Events : Deliver(d, e)
          \/ Step(d)
          \/ ThrowBeforeClaim(d)
          \/ Throw(d)
          \/ Stop(d)
      BY <2>2 DEF Serve
    \* The delivery moves on with its work.
    <3>b. ASSUME NEW at \in At, Goto(d, at), served[d] # Idle,
                 (at \in {"process", "close", "fail"}) <=> Working(d),
                 UNCHANGED row
          PROVE  UNCHANGED <<W, Succeeded>>
      <4>1. W' = W
        BY <3>b, KeepsWork, SameWork
      <4> QED
        BY <4>1, <3>b DEF Succeeded
    \* The delivery claims e.
    <3>c. ASSUME NEW e \in Events, ~ Working(d), row[e] \notin {"PENDING", "SUCCESS"},
                 row' = [row EXCEPT ![e] = "PENDING"],
                 served' = [served EXCEPT ![d] = [at |-> "process", event |-> e]]
          PROVE  Claims!Next
      <4>1. /\ Working(d)'
            /\ served'[d].event = e
            /\ \A b \in Deliveries \ {d} :
                 (Working(b)' <=> Working(b)) /\ served'[b] = served[b]
        BY <3>c, StartsWork
      <4>2. Processors(e) = {} /\ Processors(e)' = {d}
        BY <3>c, <4>1 DEF ClaimInv, Processors
      <4>3. \A f \in Events \ {e} : Processors(f)' = Processors(f)
        BY <3>c, <4>1 DEF Processors
      <4>4. W' = [W EXCEPT ![e] = {d}]
        BY <4>2, <4>3 DEF W
      <4>5. Succeeded' = Succeeded /\ e \notin Succeeded
        BY <3>c DEF Succeeded, TypeOK
      <4>6. Claims!Claim(d, e)
        BY <4>2, <4>4, <4>5 DEF Claims!Claim, W, Succeeded
      <4> QED
        BY <4>6 DEF Claims!Next
    \* A delivery that works on nothing leaves.
    <3>d. ASSUME Leave(d), ~ Working(d), UNCHANGED row
          PROVE  UNCHANGED <<W, Succeeded>>
      BY <3>d, IdleEnds DEF Succeeded
    <3>1. CASE \E e \in Events : Deliver(d, e)
      <4> PICK e \in Events : Deliver(d, e)
        BY <3>1
      <4>1. ~ Working(d)
        BY DEF Deliver, Working, Idle
      <4>2. CASE row[e] = "none"
        BY <4>1, <4>2, <3>c DEF Deliver
      <4>3. CASE row[e] # "none"
        <5>1. ~ Working(d)' /\ \A b \in Deliveries \ {d} :
                (Working(b)' <=> Working(b)) /\ served'[b] = served[b]
          BY <4>3 DEF Deliver, Working, TypeOK
        <5>2. W' = W
          BY <4>1, <5>1, SameWork
        <5> QED
          BY <5>2, <4>3 DEF Deliver, Succeeded
      <4> QED
        BY <4>2, <4>3
    <3>2. CASE AnswerDuplicate(d)
      BY <3>2, <3>d DEF AnswerDuplicate, Acknowledge, Working
    <3>3. CASE SeeFailed(d)
      BY <3>3, <3>b DEF SeeFailed, Working, At, Idle
    <3>4. CASE Reclaim(d)
      <4>1. served[d].event \in Events /\ ~ Working(d)
        BY <3>4 DEF Reclaim, Working, TypeOK, Idle
      <4> QED
        BY <3>4, <4>1, <3>c DEF Reclaim, StillFailed, Goto
    <3>5. CASE ReclaimLost(d)
      BY <3>5, <3>d DEF ReclaimLost, Acknowledge, Working
    <3>6. CASE Applied(d)
      BY <3>6, <3>b DEF Applied, Working, At, Idle
    <3>7. CASE RecordSuccess(d)
      <4>1. Working(d) /\ Leave(d) /\ served[d].event \in Events
        BY <3>7 DEF RecordSuccess, Working, TypeOK, Idle, Acknowledge
      <4>2. W[served[d].event] = {d} /\ W' = [W EXCEPT ![served[d].event] = {}]
        BY <4>1, OnlyProcessor, WorkEnds DEF W
      <4>3. Succeeded' = Succeeded \cup {served[d].event}
        BY <3>7, <4>1 DEF RecordSuccess, Succeeded, TypeOK
      <4> PICK e \in Events : e = served[d].event
        BY <4>1
      <4>4. Claims!Settle(d, e)
        BY <4>2, <4>3 DEF Claims!Settle, W, Succeeded
      <4>5. Claims!Next
        BY <4>4 DEF Claims!Next
      <4> QED
        BY <4>5
    <3>8. CASE RecordFailure(d)
      <4>1. Working(d) /\ Leave(d) /\ served[d].event \in Events
        BY <3>8 DEF RecordFailure, Working, TypeOK, Idle
      <4>2. W[served[d].event] = {d} /\ W' = [W EXCEPT ![served[d].event] = {}]
        BY <4>1, OnlyProcessor, WorkEnds DEF W
      <4>3. Succeeded' = Succeeded
        BY <3>8, <4>1 DEF RecordFailure, Succeeded, TypeOK, ClaimInv
      <4>4. Claims!GiveUp(d, served[d].event)
        BY <4>2, <4>3 DEF Claims!GiveUp, W, Succeeded
      <4>5. Claims!Next
        BY <4>1, <4>4 DEF Claims!Next
      <4> QED
        BY <4>5
    <3>9. CASE ThrowBeforeClaim(d)
      BY <3>9, <3>d DEF ThrowBeforeClaim, Working
    <3>10. CASE Throw(d)
      BY <3>10, <3>b DEF Throw, Working, At, Idle
    <3>11. CASE Stop(d)
      <4>1. CASE Working(d)
        <5>1. Leave(d) /\ served[d].event \in Events
          BY <3>11, <4>1 DEF Stop, Working, TypeOK, Idle
        <5>2. W[served[d].event] = {d} /\ W' = [W EXCEPT ![served[d].event] = {}]
          BY <4>1, <5>1, OnlyProcessor, WorkEnds DEF W
        <5>3. Claims!GiveUp(d, served[d].event)
          BY <3>11, <5>2 DEF Stop, Claims!GiveUp, W, Succeeded
        <5> QED
          BY <5>1, <5>3 DEF Claims!Next
      <4>2. CASE ~ Working(d)
        BY <3>11, <4>2, <3>d DEF Stop
      <4> QED
        BY <4>1, <4>2
    <3> QED
      BY <3>1, <3>2, <3>3, <3>4, <3>5, <3>6, <3>7, <3>8, <3>9, <3>10, <3>11 DEF Step
  <2> QED
    BY <2>1, <2>2
<1>3. <<W, Succeeded>> = <<[e \in Events |-> Processors(e)], {e \in Events : row[e] = "SUCCESS"}>>
  BY DEF W, Succeeded
<1> QED
  BY <1>1, <1>2, NextServes, TypeCorrect, Exclusive, PTL DEF Spec, ClaimSpec, Claims!Spec, W, Succeeded

-----------------------------------------------------------------------------
(* The supplier-refund worker. *)

JobSteps ==
  [at : {"idle"}]
  \cup [at : {"look", "call", "list", "delete", "retry"}, of : Refunds]
  \cup [at : {"read"}, of : Refunds, to : Marker]
  \cup [at : {"write"}, of : Refunds, to : Marker, seen : Markers]

RefundTypeOK ==
  /\ requests \in Markers
  /\ filed \in [Refunds -> Nat]
  /\ job \in [Jobs -> JobSteps]
  /\ solo \in BOOLEAN /\ honest \in BOOLEAN

\* A dispute is open at most once, and never for a Refund without a marker.
MarkedIfFiled == \A r \in Refunds : filed[r] <= 1 /\ (requests[r] = "none" => filed[r] = 0)

\* What a job is about to write and to call is about the column as it is: it calls,
\* or clears the marker, only where no dispute is open.
JobKnows(j) ==
  /\ job[j].at = "write" => job[j].seen = requests
  /\ job[j].at \in {"read", "write"} /\ job[j].to \in {"none", "IN_PROGRESS"} => filed[job[j].of] = 0
  /\ job[j].at = "call" => filed[job[j].of] = 0
  /\ job[j].at \in {"call", "list"} => requests[job[j].of] # "none"

OneJob == \A i, j \in Jobs : job[i] # Free /\ job[j] # Free => i = j

SerialInv ==
  /\ RefundTypeOK
  /\ solo /\ honest => OneJob /\ MarkedIfFiled /\ \A j \in Jobs : JobKnows(j)

LEMMA InitSerialInv == RefundInit => SerialInv
BY DEF RefundInit, SerialInv, RefundTypeOK, OneJob, MarkedIfFiled, JobKnows, NoMarkers, Markers, Marker, Free, JobSteps

\* Every step keeps the types.
LEMMA JobStepTypeOK ==
  ASSUME RefundTypeOK, NEW j \in Jobs,
         \/ \E r \in Refunds : Receive(j, r)
         \/ Work(j) \/ CallThrows(j) \/ ListThrows(j) \/ Fail(j) \/ Crash(j)
  PROVE  /\ requests' \in Markers /\ filed' \in [Refunds -> Nat] /\ job' \in [Jobs -> JobSteps]
         /\ \A i \in Jobs \ {j} : job'[i] = job[i]
         /\ job[j] # Free \/ job'[j] # Free
<1>1. job \in [Jobs -> JobSteps] /\ job[j] \in JobSteps /\ requests \in Markers /\ filed \in [Refunds -> Nat]
  BY DEF RefundTypeOK
<1>2. ASSUME NEW step \in JobSteps, MoveTo(j, step)
      PROVE  job' \in [Jobs -> JobSteps] /\ job'[j] = step /\ \A i \in Jobs \ {j} : job'[i] = job[i]
  BY <1>1, <1>2 DEF MoveTo
<1>3. Free \in JobSteps /\ Free.at = "idle"
  BY DEF Free, JobSteps
<1>4. ASSUME NEW r \in Refunds, NEW at \in {"look", "call", "list", "delete", "retry"}
      PROVE  [at |-> at, of |-> r] \in JobSteps
  BY DEF JobSteps
<1>5. ASSUME NEW r \in Refunds, NEW to \in Marker
      PROVE  /\ [at |-> "read", of |-> r, to |-> to] \in JobSteps
             /\ \A seen \in Markers : [at |-> "write", of |-> r, to |-> to, seen |-> seen] \in JobSteps
  BY DEF JobSteps
<1>6. /\ job[j].at # "idle" => job[j].of \in Refunds
      /\ job[j].at \in {"read", "write"} => job[j].to \in Marker
      /\ job[j].at = "write" => job[j].seen \in Markers
  BY <1>1 DEF JobSteps
<1>7. /\ "none" \in Marker /\ "IN_PROGRESS" \in Marker
      /\ "filed" \in Marker /\ "refused" \in Marker /\ "review" \in Marker
  BY DEF Marker, Done
<1>8. CASE \E r \in Refunds : Receive(j, r)
  <2>1. PICK r \in Refunds : MoveTo(j, [at |-> "look", of |-> r]) /\ UNCHANGED <<requests, filed>>
    BY <1>8 DEF Receive
  <2>2. [at |-> "look", of |-> r] \in JobSteps
    BY <1>4
  <2>3. job'[j] = [at |-> "look", of |-> r] /\ job'[j].at # "idle"
    BY <1>2, <2>1, <2>2
  <2>4. QED
    BY <1>1, <1>2, <1>3, <2>1, <2>2, <2>3
<1>9. CASE Look(j)
  BY <1>1, <1>2, <1>3, <1>4, <1>5, <1>6, <1>7, <1>9 DEF Look, Proceed, Store
<1>10. CASE ReadColumn(j)
  BY <1>1, <1>2, <1>3, <1>5, <1>6, <1>10 DEF ReadColumn
<1>11. CASE WriteColumn(j)
  <2>1. requests' \in Markers
    BY <1>6, <1>11 DEF WriteColumn, Markers
  <2>2. \E at \in {"call", "retry", "delete"} : Proceed(j, at)
    BY <1>6, <1>11 DEF WriteColumn, Marker
  <2>3. QED
    BY <1>1, <1>2, <1>3, <1>4, <1>6, <1>11, <2>1, <2>2 DEF WriteColumn, Proceed
<1>12. CASE CallRefused(j) \/ ListAnswers(j) \/ CallThrows(j) \/ ListThrows(j)
  BY <1>1, <1>2, <1>3, <1>5, <1>6, <1>7, <1>12 DEF CallRefused, ListAnswers, CallThrows, ListThrows, Store
<1>13. CASE CallFiles(j)
  <2>1. job[j].at = "call" /\ MoveTo(j, [at |-> "list", of |-> job[j].of]) /\ requests' = requests
    BY <1>13 DEF CallFiles, Proceed
  <2>2. filed' \in [Refunds -> Nat]
    BY <1>1, <1>6, <1>13 DEF CallFiles
  <2>3. QED
    BY <1>1, <1>2, <1>3, <1>4, <1>6, <2>1, <2>2
<1>14. CASE Finish(j) \/ GiveUp(j) \/ Crash(j)
  BY <1>1, <1>2, <1>3, <1>14 DEF Finish, GiveUp, Crash
<1>15. CASE Fail(j)
  BY <1>1, <1>2, <1>3, <1>4, <1>6, <1>15 DEF Fail, Proceed
<1>16. QED
  BY <1>8, <1>9, <1>10, <1>11, <1>12, <1>13, <1>14, <1>15 DEF Work

\* A job that takes a step while `solo` stands is the only one, so nothing it read
\* of the column has changed since.
LEMMA JobStepSerial ==
  ASSUME RefundTypeOK, OneJob, MarkedIfFiled, \A i \in Jobs : JobKnows(i), Aside, solo', honest',
         NEW j \in Jobs,
         \/ \E r \in Refunds : Receive(j, r)
         \/ Work(j) \/ CallThrows(j) \/ Fail(j) \/ Crash(j)
  PROVE  OneJob' /\ MarkedIfFiled' /\ \A i \in Jobs : JobKnows(i)'
<1>1. /\ job \in [Jobs -> JobSteps] /\ job[j] \in JobSteps /\ requests \in Markers /\ filed \in [Refunds -> Nat]
      /\ JobKnows(j)
  BY DEF RefundTypeOK
<1>2. /\ requests' \in Markers /\ filed' \in [Refunds -> Nat] /\ job' \in [Jobs -> JobSteps]
      /\ \A i \in Jobs \ {j} : job'[i] = job[i]
      /\ job[j] # Free \/ job'[j] # Free
  BY JobStepTypeOK
<1>3. OneJob'
  BY DEF Aside, Busy, OneJob
<1>4. \A i \in Jobs \ {j} : job'[i] = Free
  BY <1>2, <1>3 DEF OneJob
<1>5. Free.at = "idle"
  BY DEF Free
<1>6. \A i \in Jobs \ {j} : JobKnows(i)'
  BY <1>4, <1>5 DEF JobKnows
<1>7. /\ job[j].at # "idle" => job[j].of \in Refunds
      /\ job[j].at \in {"read", "write"} => job[j].to \in Marker
  BY <1>1 DEF JobSteps
<1>8. MarkedIfFiled' /\ JobKnows(j)'
  <2>1. CASE \E r \in Refunds : Receive(j, r)
    BY <1>1, <2>1 DEF Receive, MoveTo, MarkedIfFiled, JobKnows
  <2>2. CASE Look(j)
    BY <1>1, <1>7, <2>2 DEF Look, Proceed, Store, MoveTo, MarkedIfFiled, JobKnows
  <2>3. CASE ReadColumn(j)
    BY <1>1, <2>3 DEF ReadColumn, MoveTo, MarkedIfFiled, JobKnows
  <2>4. CASE WriteColumn(j)
    <3>1. requests' = [requests EXCEPT ![job[j].of] = job[j].to] /\ filed' = filed
      BY <1>1, <2>4 DEF WriteColumn, JobKnows
    <3>2. MarkedIfFiled'
      BY <1>1, <1>7, <2>4, <3>1 DEF WriteColumn, MarkedIfFiled, JobKnows, Markers
    <3>3. JobKnows(j)'
      BY <1>1, <1>7, <2>4, <3>1 DEF WriteColumn, Proceed, MoveTo, JobKnows, Markers, Marker
    <3>4. QED
      BY <3>2, <3>3
  <2>5. CASE CallRefused(j) \/ ListAnswers(j)
    BY <1>1, <2>5 DEF CallRefused, ListAnswers, Store, MoveTo, MarkedIfFiled, JobKnows
  <2>6. CASE CallThrows(j)
    BY <1>1, <2>6 DEF CallThrows, Store, MoveTo, MarkedIfFiled, JobKnows
  <2>7. CASE CallFiles(j)
    BY <1>1, <1>7, <2>7 DEF CallFiles, Proceed, MoveTo, MarkedIfFiled, JobKnows
  <2>8. CASE Finish(j) \/ GiveUp(j) \/ Crash(j)
    BY <1>1, <1>5, <2>8 DEF Finish, GiveUp, Crash, MoveTo, MarkedIfFiled, JobKnows
  <2>9. CASE Fail(j)
    BY <1>1, <2>9 DEF Fail, Proceed, MoveTo, MarkedIfFiled, JobKnows
  <2>10. QED
    BY <2>1, <2>2, <2>3, <2>4, <2>5, <2>6, <2>7, <2>8, <2>9 DEF Work
<1>9. QED
  BY <1>3, <1>6, <1>8

LEMMA NextSerialInv == SerialInv /\ [RefundNext]_refundVars => SerialInv'
<1>1. SUFFICES ASSUME SerialInv, [RefundNext]_refundVars PROVE SerialInv'
  OBVIOUS
<1>2. CASE UNCHANGED refundVars
  BY <1>1, <1>2 DEF refundVars, SerialInv, RefundTypeOK, OneJob, MarkedIfFiled, JobKnows
<1>3. ASSUME RefundNext PROVE SerialInv'
  <2>1. Act /\ Aside /\ solo' \in BOOLEAN /\ honest' \in BOOLEAN
    BY <1>1, <1>3 DEF RefundNext, Aside, SerialInv, RefundTypeOK
  <2>2. ASSUME NEW j \in Jobs,
               \/ \E r \in Refunds : Receive(j, r)
               \/ Work(j) \/ CallThrows(j) \/ ListThrows(j) \/ Fail(j) \/ Crash(j)
        PROVE  SerialInv'
    <3>1. RefundTypeOK'
      BY <1>1, <2>1, <2>2, JobStepTypeOK DEF SerialInv, RefundTypeOK
    <3>2. ASSUME solo', honest' PROVE solo /\ honest /\ ~ListThrows(j)
      BY <2>1, <3>2 DEF Aside
    <3>3. QED
      BY <1>1, <2>1, <2>2, <3>1, <3>2, JobStepSerial DEF SerialInv
  <2>3. CASE UNCHANGED <<requests, filed, job>>
    BY <1>1, <2>1, <2>3 DEF Aside, SerialInv, RefundTypeOK, OneJob, MarkedIfFiled, JobKnows
  <2>4. QED
    BY <2>1, <2>2, <2>3 DEF Act, Mishap, Send, HandOver, Return, Redrive, Lapse, HandBack, SendAgain
<1>4. QED
  BY <1>1, <1>2, <1>3

\* handleSupplierRefund asks the supplier once for each Refund while no two jobs
\* overlap and no call throws once the dispute is open, however often a message is
\* delivered and a job cut off, for any number of Refunds and jobs.
THEOREM SerialFiledOnceHolds == RefundSpec => []SerialFiledOnce
<1>1. SerialInv => SerialFiledOnce
  BY DEF SerialInv, MarkedIfFiled, SerialFiledOnce, FiledOnce
<1>2. QED
  BY <1>1, InitSerialInv, NextSerialInv, PTL DEF RefundSpec

(***************************************************************************)
(* What the column says.  A job that holds a message has not deleted it,   *)
(* is about to delete it only with an outcome in the column, and writes    *)
(* "requested" only of a dispute that is open.                             *)
(***************************************************************************)
JobTells(j) ==
  /\ job[j].at = "write" => job[j].seen = requests
  /\ job[j].at # "idle" => queue[job[j].of] # "gone"
  /\ job[j].at = "delete" => requests[job[j].of] \in Done
  /\ job[j].at \in {"read", "write"} /\ job[j].to = "filed" => filed[job[j].of] > 0
  /\ job[j].at \in {"call", "list"} => requests[job[j].of] = "IN_PROGRESS"
  /\ job[j].at = "list" => filed[job[j].of] > 0

Told ==
  \A r \in Refunds :
    /\ queue[r] = "gone" => requests[r] \in Done
    /\ requests[r] = "filed" => filed[r] > 0

\* "Not requested" is written only where no dispute is open.
JobIsHonest(j) ==
  job[j].at \in {"read", "write"} /\ job[j].to = "refused" => filed[job[j].of] = 0

RefusedIsTrue == \A r \in Refunds : requests[r] = "refused" => filed[r] = 0

OutcomeInv ==
  /\ SerialInv
  /\ queue \in [Refunds -> {"unsent", "visible", "hidden", "gone", "dead"}]
  /\ solo => OneJob /\ Told /\ \A j \in Jobs : JobTells(j)
  /\ solo /\ honest => RefusedIsTrue /\ \A j \in Jobs : JobIsHonest(j)

LEMMA InitOutcomeInv == RefundInit => OutcomeInv
BY InitSerialInv DEF RefundInit, OutcomeInv, OneJob, Told, JobTells, JobIsHonest, RefusedIsTrue,
   NoMarkers, Free, Queue!Init

\* No step of a job takes the queue out of its type.
LEMMA JobStepQueue ==
  ASSUME queue \in [Refunds -> {"unsent", "visible", "hidden", "gone", "dead"}], NEW j \in Jobs,
         \/ \E r \in Refunds : Receive(j, r)
         \/ Work(j) \/ CallThrows(j) \/ ListThrows(j) \/ Fail(j) \/ Crash(j)
  PROVE  queue' \in [Refunds -> {"unsent", "visible", "hidden", "gone", "dead"}]
BY DEF Receive, Work, CallThrows, ListThrows, Fail, Crash, Look, ReadColumn, WriteColumn, CallRefused,
   CallFiles, ListAnswers, Finish, GiveUp, sqs, Queue!Receive, Queue!HandOut, Queue!Delete,
   Queue!Retry, Queue!Move

\* A job's own steps, while it is the only one.
LEMMA JobStepTells ==
  ASSUME RefundTypeOK, queue \in [Refunds -> {"unsent", "visible", "hidden", "gone", "dead"}],
         OneJob, Told, \A i \in Jobs : JobTells(i), Aside, solo', NEW j \in Jobs,
         \/ \E r \in Refunds : Receive(j, r)
         \/ Work(j) \/ CallThrows(j) \/ ListThrows(j) \/ Fail(j) \/ Crash(j)
  PROVE  OneJob' /\ Told' /\ \A i \in Jobs : JobTells(i)'
<1>1. /\ job \in [Jobs -> JobSteps] /\ job[j] \in JobSteps /\ requests \in Markers /\ filed \in [Refunds -> Nat]
      /\ JobTells(j)
  BY DEF RefundTypeOK
<1>2. /\ requests' \in Markers /\ filed' \in [Refunds -> Nat] /\ job' \in [Jobs -> JobSteps]
      /\ \A i \in Jobs \ {j} : job'[i] = job[i]
      /\ job[j] # Free \/ job'[j] # Free
  BY JobStepTypeOK
<1>3. OneJob'
  BY DEF Aside, Busy, OneJob
<1>4. \A i \in Jobs \ {j} : job'[i] = Free
  BY <1>2, <1>3 DEF OneJob
<1>5. Free.at = "idle"
  BY DEF Free
<1>6. \A i \in Jobs \ {j} : JobTells(i)'
  BY <1>4, <1>5 DEF JobTells
<1>7. /\ job[j].at # "idle" => job[j].of \in Refunds
      /\ job[j].at \in {"read", "write"} => job[j].to \in Marker
  BY <1>1 DEF JobSteps
<1>8. Told' /\ JobTells(j)'
  <2>1. CASE \E r \in Refunds : Receive(j, r)
    BY <1>1, <2>1 DEF Receive, MoveTo, Told, JobTells, Queue!Receive, Queue!HandOut
  <2>2. CASE Look(j)
    BY <1>1, <1>7, <2>2 DEF Look, Proceed, Store, MoveTo, Told, JobTells, sqs, Done
  <2>3. CASE ReadColumn(j)
    BY <1>1, <2>3 DEF ReadColumn, MoveTo, Told, JobTells, sqs
  <2>4. CASE WriteColumn(j)
    <3>1. /\ requests' = [requests EXCEPT ![job[j].of] = job[j].to] /\ filed' = filed /\ queue' = queue
          /\ job[j].of \in Refunds /\ job[j].to \in Marker /\ queue[job[j].of] # "gone"
          /\ job[j].to = "filed" => filed[job[j].of] > 0
      BY <1>1, <1>7, <2>4 DEF WriteColumn, JobTells, sqs
    <3>2. Told'
      BY <1>1, <3>1 DEF Told, Markers
    <3>3. CASE job[j].to \in Done
      <4>1. job'[j] = [at |-> "delete", of |-> job[j].of]
        BY <1>1, <2>4, <3>3 DEF WriteColumn, Proceed, MoveTo, Done
      <4>2. requests'[job[j].of] \in Done
        BY <1>1, <3>1, <3>3 DEF Markers
      <4>3. QED
        BY <1>1, <3>1, <3>2, <4>1, <4>2 DEF JobTells
    <3>4. CASE job[j].to \notin Done
      <4>1. \/ job[j].to = "IN_PROGRESS" /\ job'[j] = [at |-> "call", of |-> job[j].of]
            \/ job'[j] = [at |-> "retry", of |-> job[j].of]
        BY <1>1, <2>4, <3>1, <3>4 DEF WriteColumn, Proceed, MoveTo, Marker
      <4>2. QED
        BY <1>1, <3>1, <3>2, <4>1 DEF JobTells, Markers
    <3>5. QED
      BY <3>3, <3>4
  <2>5. CASE CallRefused(j) \/ ListAnswers(j)
    BY <1>1, <2>5 DEF CallRefused, ListAnswers, Store, MoveTo, Told, JobTells, sqs
  <2>6. CASE CallThrows(j) \/ ListThrows(j)
    BY <1>1, <2>6 DEF CallThrows, ListThrows, Store, MoveTo, Told, JobTells, sqs
  <2>7. CASE CallFiles(j)
    BY <1>1, <1>7, <2>7 DEF CallFiles, Proceed, MoveTo, Told, JobTells, sqs
  <2>8. CASE Finish(j)
    BY <1>1, <1>5, <1>7, <2>8 DEF Finish, MoveTo, Told, JobTells, Queue!Delete, Queue!Move
  <2>9. CASE GiveUp(j)
    BY <1>1, <1>5, <1>7, <2>9 DEF GiveUp, MoveTo, Told, JobTells, Queue!Retry, Queue!Move
  <2>10. CASE Crash(j)
    BY <1>1, <1>5, <2>10 DEF Crash, MoveTo, Told, JobTells, sqs
  <2>11. CASE Fail(j)
    BY <1>1, <2>11 DEF Fail, Proceed, MoveTo, Told, JobTells, sqs
  <2>12. QED
    BY <2>1, <2>2, <2>3, <2>4, <2>5, <2>6, <2>7, <2>8, <2>9, <2>10, <2>11 DEF Work
<1>9. QED
  BY <1>3, <1>6, <1>8

\* The same of what is told of no dispute.
LEMMA JobStepIsHonest ==
  ASSUME RefundTypeOK, OneJob, MarkedIfFiled, RefusedIsTrue,
         \A i \in Jobs : JobKnows(i) /\ JobTells(i) /\ JobIsHonest(i),
         Aside, solo', honest', NEW j \in Jobs,
         \/ \E r \in Refunds : Receive(j, r)
         \/ Work(j) \/ CallThrows(j) \/ Fail(j) \/ Crash(j)
  PROVE  RefusedIsTrue' /\ \A i \in Jobs : JobIsHonest(i)'
<1>1. /\ job \in [Jobs -> JobSteps] /\ job[j] \in JobSteps /\ requests \in Markers /\ filed \in [Refunds -> Nat]
      /\ JobKnows(j) /\ JobTells(j) /\ JobIsHonest(j)
  BY DEF RefundTypeOK
<1>2. /\ \A i \in Jobs \ {j} : job'[i] = job[i]
      /\ job[j] # Free \/ job'[j] # Free
  BY JobStepTypeOK
<1>3. \A i \in Jobs \ {j} : job'[i] = Free
  <2>1. OneJob'
    BY DEF Aside, Busy, OneJob
  <2>2. QED
    BY <1>2, <2>1 DEF OneJob
<1>4. Free.at = "idle"
  BY DEF Free
<1>5. \A i \in Jobs \ {j} : JobIsHonest(i)'
  BY <1>3, <1>4 DEF JobIsHonest
<1>6. /\ job[j].at # "idle" => job[j].of \in Refunds
      /\ job[j].at \in {"read", "write"} => job[j].to \in Marker
  BY <1>1 DEF JobSteps
<1>7. RefusedIsTrue' /\ JobIsHonest(j)'
  <2>1. CASE \E r \in Refunds : Receive(j, r)
    BY <1>1, <2>1 DEF Receive, MoveTo, RefusedIsTrue, JobIsHonest
  <2>2. CASE Look(j)
    BY <1>1, <1>6, <2>2 DEF Look, Proceed, Store, MoveTo, RefusedIsTrue, JobIsHonest, MarkedIfFiled
  <2>3. CASE ReadColumn(j)
    BY <1>1, <2>3 DEF ReadColumn, MoveTo, RefusedIsTrue, JobIsHonest
  <2>4. CASE WriteColumn(j)
    <3>1. requests' = [requests EXCEPT ![job[j].of] = job[j].to] /\ filed' = filed
      BY <1>1, <2>4 DEF WriteColumn, JobKnows
    <3>2. RefusedIsTrue'
      BY <1>1, <1>6, <2>4, <3>1 DEF WriteColumn, RefusedIsTrue, JobIsHonest, Markers
    <3>3. \E at \in {"call", "retry", "delete"} : job'[j] = [at |-> at, of |-> job[j].of]
      BY <1>1, <1>6, <2>4 DEF WriteColumn, Proceed, MoveTo, Marker
    <3>4. QED
      BY <3>2, <3>3 DEF JobIsHonest
  <2>5. CASE CallRefused(j) \/ ListAnswers(j)
    BY <1>1, <2>5 DEF CallRefused, ListAnswers, Store, MoveTo, RefusedIsTrue, JobIsHonest, JobKnows
  <2>6. CASE CallThrows(j)
    BY <1>1, <2>6 DEF CallThrows, Store, MoveTo, RefusedIsTrue, JobIsHonest
  <2>7. CASE CallFiles(j)
    <3>1. job[j].at = "call" /\ job'[j] = [at |-> "list", of |-> job[j].of] /\ requests' = requests
      BY <1>1, <2>7 DEF CallFiles, Proceed, MoveTo
    <3>2. requests[job[j].of] # "refused" /\ filed' = [filed EXCEPT ![job[j].of] = @ + 1]
      BY <1>1, <2>7 DEF CallFiles, JobTells
    <3>3. QED
      BY <1>1, <1>6, <3>1, <3>2 DEF RefusedIsTrue, JobIsHonest
  <2>8. CASE Finish(j) \/ GiveUp(j) \/ Crash(j)
    BY <1>1, <1>4, <2>8 DEF Finish, GiveUp, Crash, MoveTo, RefusedIsTrue, JobIsHonest
  <2>9. CASE Fail(j)
    BY <1>1, <2>9 DEF Fail, Proceed, MoveTo, RefusedIsTrue, JobIsHonest
  <2>10. QED
    BY <2>1, <2>2, <2>3, <2>4, <2>5, <2>6, <2>7, <2>8, <2>9 DEF Work
<1>8. QED
  BY <1>5, <1>7

\* Every step keeps the invariant.
LEMMA NextOutcomeInv == OutcomeInv /\ [RefundNext]_refundVars => OutcomeInv'
<1>1. SUFFICES ASSUME OutcomeInv, [RefundNext]_refundVars PROVE OutcomeInv'
  OBVIOUS
<1>2. SerialInv'
  BY <1>1, NextSerialInv DEF OutcomeInv
<1>3. CASE UNCHANGED refundVars
  BY <1>1, <1>2, <1>3 DEF refundVars, sqs, OutcomeInv, OneJob, Told, JobTells, JobIsHonest, RefusedIsTrue
<1>4. ASSUME RefundNext PROVE OutcomeInv'
  <2>1. Act /\ Aside /\ (solo' => solo) /\ (honest' => honest)
    BY <1>1, <1>4 DEF RefundNext, Aside
  <2>2. RefundTypeOK
    BY <1>1 DEF OutcomeInv, SerialInv
  <2>3. ASSUME NEW j \in Jobs,
               \/ \E r \in Refunds : Receive(j, r)
               \/ Work(j) \/ CallThrows(j) \/ ListThrows(j) \/ Fail(j) \/ Crash(j)
        PROVE  OutcomeInv'
    <3>1. queue' \in [Refunds -> {"unsent", "visible", "hidden", "gone", "dead"}]
      BY <1>1, <2>2, <2>3, JobStepQueue DEF OutcomeInv
    <3>2. ASSUME solo' PROVE OneJob' /\ Told' /\ \A i \in Jobs : JobTells(i)'
      BY <1>1, <2>1, <2>2, <2>3, <3>2, JobStepTells DEF OutcomeInv
    <3>3. ASSUME solo', honest' PROVE RefusedIsTrue' /\ \A i \in Jobs : JobIsHonest(i)'
      <4>1. ~ListThrows(j)
        BY <2>1, <3>3 DEF Aside
      <4>2. QED
        BY <1>1, <2>1, <2>2, <2>3, <3>3, <4>1, JobStepIsHonest DEF OutcomeInv, SerialInv
    <3>4. QED
      BY <1>2, <3>1, <3>2, <3>3 DEF OutcomeInv
  <2>4. ASSUME NEW r \in Refunds, UNCHANGED <<requests, filed, job>>,
               \E place \in {"visible", "hidden", "dead"} : queue' = [queue EXCEPT ![r] = place]
        PROVE  OutcomeInv'
    BY <1>1, <1>2, <2>1, <2>4 DEF OutcomeInv, Aside, OneJob, Told, JobTells, JobIsHonest, RefusedIsTrue
  <2>5. ASSUME NEW r \in Refunds,
               Send(r) \/ Return(r) \/ Redrive(r) \/ Lapse(r) \/ HandBack(r) \/ SendAgain(r)
        PROVE  OutcomeInv'
    <3>1. UNCHANGED <<requests, filed, job>>
      BY <2>5 DEF Send, Return, Redrive, Lapse, HandBack, SendAgain
    <3>2. Queue!Send(r) \/ Queue!Reappear(r) \/ Queue!Redrive(r) \/ Queue!HandBack(r) \/ Queue!Redeliver(r)
      BY <2>5 DEF Send, Return, Redrive, Lapse, HandBack, SendAgain
    <3>3. \E place \in {"visible", "hidden", "dead"} : queue' = [queue EXCEPT ![r] = place]
      BY <3>2 DEF Queue!Send, Queue!Reappear, Queue!Redrive, Queue!HandBack, Queue!HandOut,
                  Queue!Redeliver, Queue!Move
    <3>4. QED
      BY <2>4, <3>1, <3>3
  <2>6. QED
    BY <2>1, <2>3, <2>5 DEF Act, Mishap, HandOver
<1>5. QED
  BY <1>1, <1>3, <1>4

\* runOne and handleSupplierRefund: while jobs do not overlap, a deleted message
\* has left an outcome in the column, and the outcome is what CJ has, for any number
\* of Refunds, jobs, deliveries, cut-offs and retries.
THEOREM SerialOutcomeIsTrueHolds == RefundSpec => []SerialOutcomeIsTrue
<1>1. OutcomeInv => SerialOutcomeIsTrue
  BY DEF OutcomeInv, Told, RefusedIsTrue, SerialOutcomeIsTrue
<1>2. QED
  BY <1>1, InitOutcomeInv, NextOutcomeInv, PTL DEF RefundSpec

=============================================================================
