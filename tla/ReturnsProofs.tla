----------------------------- MODULE ReturnsProofs -----------------------------
(***************************************************************************)
(* That no return claims a refund or a dispute that does not exist, for    *)
(* any number of returns, overlapping requests, webhooks and faults.       *)
(***************************************************************************)
EXTENDS ReturnFile, FiniteSetTheorems, SequenceTheorems, TLAPS

\* The part of TypeOK the argument needs.
Places ==
  /\ status \in [Returns -> Status \cup {"none"}]
  /\ atCJ \in [Returns -> Nat]
  /\ refund \in [Returns -> {"none", "PENDING", "COMPLETED"}]
  /\ refunds \in Seq(Returns)
  /\ paid \in [Returns -> Nat]
  /\ raised \subseteq Nat
  /\ returned \in Nat
  /\ job \in [Requests -> JobStates]
  /\ hook \in [Hooks -> HookStates]
  /\ faults \in Nat

(***************************************************************************)
(* The inductive invariant: what a request or a webhook is about to write  *)
(* is backed already, and a Refund row has money behind it.                *)
(***************************************************************************)
Spoken == {"CJ_DISPUTE_SUBMITTED", "CJ_APPROVED", "CJ_REJECTED"}

Refunded == {"REFUND_PROCESSING", "COMPLETED"}

RowsArePaid == \A r \in Returns : refund[r] # "none" => paid[r] > 0

WritesAreBacked ==
  \A c \in Requests :
    /\ job[c].at = "row" => paid[job[c].of] > 0
    /\ job[c].at = "write" /\ job[c].to \in Refunded => refund[job[c].of] # "none"
    /\ job[c].at \in {"pay", "row"} => job[c].to \in Refunded
    /\ job[c].at = "filed" => atCJ[job[c].of] > 0
    /\ job[c].at \in {"file", "filed"} => job[c].to = "CJ_DISPUTE_SUBMITTED"
    /\ job[c].at \in {"rule", "write"} /\ job[c].to \in Spoken => atCJ[job[c].of] > 0
    /\ job[c].at = "rule" => job[c].to \notin Refunded

AdvancesAreBacked ==
  \A d \in Hooks :
    hook[d].at \in {"mark", "look", "advance"} => refund[hook[d].of] # "none"

Backed ==
  /\ RowsArePaid
  /\ WritesAreBacked
  /\ AdvancesAreBacked
  /\ CompletedIsRefunded
  /\ RulingIsFiled

\* The history variables only watch.
LEMMA NextActs == [Next]_vars => Act \/ UNCHANGED vars
BY DEF Next

\* What a request past its reads, or a webhook past its claim, holds.
LEMMA JobIsTyped ==
  ASSUME Places, NEW c \in Requests,
         job[c].at \in {"write", "file", "filed", "rule", "refuse", "pay", "row"}
  PROVE  /\ job[c].of \in Returns /\ job[c].to \in Status /\ job[c].n \in Nat
<1>1. job[c] \in JobStates /\ job[c] \notin {Idle}
  BY DEF Places, Idle
<1>2. job[c] \notin [at : {"create", "close"}]
  OBVIOUS
<1>3. job[c] \in [at : {"write", "file", "filed", "rule", "refuse", "pay", "row"},
                  of : Returns, to : Status, n : Nat]
  BY <1>1, <1>2 DEF JobStates
<1> QED
  BY <1>3

LEMMA HookIsTyped ==
  ASSUME Places, NEW d \in Hooks, hook[d] # Idle
  PROVE  /\ hook[d].sum \in Nat
         /\ hook[d].at \in {"mark", "look", "advance"} => hook[d].of \in Returns
BY DEF Places, JobStates, HookStates, Idle

\* Every action keeps the variables in their types.
LEMMA PlacesAlways == Spec => []Places
<1>1. Init => Places
  <2>1. Idle \in JobStates /\ Idle \in HookStates
    BY DEF JobStates, HookStates
  <2> QED
    BY <2>1 DEF Init, Places, Status
<1>2. Places /\ (Act \/ UNCHANGED vars) => Places'
  <2> SUFFICES ASSUME Places, Act \/ UNCHANGED vars PROVE Places'
    OBVIOUS
  <2> USE DEF Places, Status, Idle, dispute, money, inbox
  <2>1. ASSUME NEW c \in Requests, CreateRead(c), UNCHANGED <<hook, faults>> PROVE Places'
    <3>1. job' \in [Requests -> JobStates]
      BY <2>1 DEF CreateRead, JobStates
    <3> QED
      BY <2>1, <3>1 DEF CreateRead
  <2>2. ASSUME NEW c \in Requests, NEW r \in Returns,
               CreateWrite(c, r), UNCHANGED <<hook, faults>>
        PROVE  Places'
    <3>1. job' \in [Requests -> JobStates]
      BY <2>2 DEF CreateWrite, Answer, JobStates
    <3> QED
      BY <2>2, <3>1 DEF CreateWrite, Answer
  <2>3. ASSUME NEW c \in Requests, NEW r \in Returns,
               CreateLegacy(c, r), UNCHANGED <<hook, faults>>
        PROVE  Places'
    <3>1. job' \in [Requests -> JobStates]
      BY <2>3 DEF CreateLegacy, JobStates
    <3> QED
      BY <2>3, <3>1 DEF CreateLegacy
  <2>4. ASSUME NEW c \in Requests, NEW r \in Returns, NEW to \in Reviewed,
               Review(c, r, to), UNCHANGED <<hook, faults>>
        PROVE  Places'
    <3>1. job' \in [Requests -> JobStates]
      BY <2>4 DEF Review, Read, Goto, Reviewed, JobStates
    <3> QED
      BY <2>4, <3>1 DEF Review, Read, Goto, Reviewed
  <2>5. ASSUME NEW c \in Requests, NEW r \in Returns, NEW to \in {"APPROVED", "REJECTED"},
               ReviewLegacy(c, r, to), UNCHANGED <<hook, faults>>
        PROVE  Places'
    <3>1. job' \in [Requests -> JobStates]
      BY <2>5 DEF ReviewLegacy, Read, Goto, JobStates
    <3> QED
      BY <2>5, <3>1 DEF ReviewLegacy, Read, Goto
  <2>6. ASSUME NEW c \in Requests, Write(c), UNCHANGED <<hook, faults>> PROVE Places'
    <3>1. job' \in [Requests -> JobStates]
      <4>1. [at |-> "close"] \in JobStates /\ Idle \in JobStates
        BY DEF JobStates
      <4>2. job' = [job EXCEPT ![c] = [at |-> "close"]] \/ job' = [job EXCEPT ![c] = Idle]
        BY <2>6 DEF Write, Answer
      <4> QED
        BY <4>1, <4>2
    <3> QED
      BY <2>6, <3>1, JobIsTyped DEF Write
  <2>7. ASSUME NEW c \in Requests, CloseOrder(c), UNCHANGED <<hook, faults>> PROVE Places'
    <3>1. job' \in [Requests -> JobStates]
      BY <2>7 DEF CloseOrder, Answer, JobStates
    <3> QED
      BY <2>7, <3>1 DEF CloseOrder, Answer
  <2>8. ASSUME NEW c \in Requests, NEW r \in Returns,
               FileRead(c, r), UNCHANGED <<hook, faults>>
        PROVE  Places'
    <3>1. job' \in [Requests -> JobStates]
      BY <2>8 DEF FileRead, Read, Goto, JobStates
    <3> QED
      BY <2>8, <3>1 DEF FileRead, Read, Goto
  <2>9. ASSUME NEW c \in Requests,
               FileRefused(c), UNCHANGED <<hook, faults>>
        PROVE  Places'
    <3>1. job' \in [Requests -> JobStates]
      BY <2>9, JobIsTyped DEF FileRefused, Answer, JobStates
    <3> QED
      BY <2>9, <3>1, JobIsTyped DEF FileRefused, Answer
  <2>10. ASSUME NEW c \in Requests, FileAtCJ(c), UNCHANGED <<hook, faults>> PROVE Places'
    <3>1. job' \in [Requests -> JobStates]
      BY <2>10, JobIsTyped DEF FileAtCJ, Goto, JobStates
    <3> QED
      BY <2>10, <3>1, JobIsTyped DEF FileAtCJ, Goto
  <2>11. ASSUME NEW c \in Requests,
                FileRecord(c), UNCHANGED <<hook, faults>>
         PROVE  Places'
    <3>1. job' \in [Requests -> JobStates]
      BY <2>11, JobIsTyped DEF FileRecord, Goto, JobStates
    <3> QED
      BY <2>11, <3>1, JobIsTyped DEF FileRecord, Goto
  <2>12. ASSUME NEW c \in Requests, NEW r \in Returns, NEW o \in {"APPROVED", "REJECTED"},
                ConfirmRead(c, r, o), UNCHANGED <<hook, faults>>
         PROVE  Places'
    <3>1. job' \in [Requests -> JobStates]
      BY <2>12 DEF ConfirmRead, Read, Goto, Ruling, JobStates
    <3> QED
      BY <2>12, <3>1 DEF ConfirmRead, Read, Goto, Ruling
  <2>13. ASSUME NEW c \in Requests,
                ConfirmWrite(c), UNCHANGED <<hook, faults>>
         PROVE  Places'
    <3>1. job' \in [Requests -> JobStates]
      <4>1. job[c].of \in Returns /\ job[c].to \in Status
        BY <2>13, JobIsTyped DEF ConfirmWrite
      <4>2. \/ job' = [job EXCEPT ![c] = Idle]
            \/ job' = [job EXCEPT ![c] =
                        [at |-> "write", of |-> job[c].of, to |-> job[c].to, n |-> 0]]
        BY <2>13 DEF ConfirmWrite, Goto, Answer
      <4>3. [at |-> "write", of |-> job[c].of, to |-> job[c].to, n |-> 0] \in JobStates
        BY <4>1 DEF JobStates
      <4>4. Idle \in JobStates
        BY DEF JobStates
      <4> QED
        BY <4>2, <4>3, <4>4
    <3> QED
      BY <2>13, <3>1 DEF ConfirmWrite
  <2>14. ASSUME NEW c \in Requests, NEW r \in Returns, NEW n \in Amounts,
                RefundRead(c, r, n), UNCHANGED <<hook, faults>>
         PROVE  Places'
    <3>0. n \in Nat
      BY ReturnsAssumption
    <3>1. job' \in [Requests -> JobStates]
      BY <2>14, <3>0 DEF RefundRead, Read, Goto, JobStates
    <3> QED
      BY <2>14, <3>1 DEF RefundRead, Read, Goto
  <2>15. ASSUME NEW c \in Requests, NEW r \in Returns, NEW n \in Amounts,
                RefundLegacy(c, r, n), UNCHANGED <<hook, faults>>
         PROVE  Places'
    <3>0. n \in Nat
      BY ReturnsAssumption
    <3>1. job' \in [Requests -> JobStates]
      BY <2>15, <3>0 DEF RefundLegacy, Read, Goto, JobStates
    <3> QED
      BY <2>15, <3>1 DEF RefundLegacy, Read, Goto
  <2>16. ASSUME NEW c \in Requests,
                RefundAtStripe(c), UNCHANGED <<hook, faults>>
         PROVE  Places'
    <3>0. returned' \in Nat /\ raised' \subseteq Nat
      <4>1. job[c].n \in Nat
        BY <2>16, JobIsTyped DEF RefundAtStripe
      <4>2. returned' = returned + job[c].n /\ raised' = raised \cup {returned'}
        BY <2>16 DEF RefundAtStripe
      <4>3. returned' \in Nat
        BY <4>1, <4>2
      <4> QED
        BY <4>2, <4>3
    <3>1. job' \in [Requests -> JobStates]
      BY <2>16, JobIsTyped DEF RefundAtStripe, Goto, JobStates
    <3>2. paid' \in [Returns -> Nat]
      BY <2>16, JobIsTyped DEF RefundAtStripe
    <3> QED
      BY <2>16, <3>1, <3>0, <3>2 DEF RefundAtStripe, Goto
  <2>17. ASSUME NEW c \in Requests,
                RefundRefused(c), UNCHANGED <<hook, faults>>
         PROVE  Places'
    <3>1. job' \in [Requests -> JobStates]
      BY <2>17 DEF RefundRefused, Answer, JobStates
    <3> QED
      BY <2>17, <3>1 DEF RefundRefused, Answer
  <2>18. ASSUME NEW c \in Requests, RefundRow(c), UNCHANGED <<hook, faults>> PROVE Places'
    <3>1. job' \in [Requests -> JobStates]
      BY <2>18, JobIsTyped DEF RefundRow, Goto, JobStates
    <3> QED
      BY <2>18, <3>1, JobIsTyped DEF RefundRow, Goto
  <2>19. ASSUME NEW c \in Requests,
                RefundRowExists(c), UNCHANGED <<hook, faults>>
         PROVE  Places'
    <3>1. job' \in [Requests -> JobStates]
      BY <2>19, JobIsTyped DEF RefundRowExists, Answer, JobStates
    <3> QED
      BY <2>19, <3>1, JobIsTyped DEF RefundRowExists, Answer
  <2>20. ASSUME NEW c \in Requests, Fail(c) PROVE Places'
    <3>1. job' \in [Requests -> JobStates]
      BY <2>20 DEF Fail, Answer, JobStates
    <3> QED
      BY <2>20, <3>1 DEF Fail, Answer
  <2>21. ASSUME NEW d \in Hooks, NEW s \in raised, HookClaim(d, s) PROVE Places'
    <3>1. s \in Nat
      OBVIOUS
    <3>2. \A i \in Pending : refunds[i] \in Returns
      BY DEF Pending
    <3>3. hook' \in [Hooks -> HookStates]
      <4>1. CASE Pending = {}
        <5>1. hook' = [hook EXCEPT ![d] = [at |-> "close", sum |-> s]]
          BY <2>21, <4>1 DEF HookClaim, HookGoto
        <5> QED
          BY <3>1, <5>1 DEF HookStates
      <4>2. CASE Pending # {}
        <5>1. PICK i \in Pending :
                hook' = [hook EXCEPT ![d] = [at |-> "mark", sum |-> s, of |-> refunds[i]]]
          BY <2>21, <4>2 DEF HookClaim, HookGoto
        <5> QED
          BY <3>1, <3>2, <5>1 DEF HookStates
      <4> QED
        BY <4>1, <4>2
    <3> QED
      BY <2>21, <3>3 DEF HookClaim, HookGoto
  <2>22. ASSUME NEW d \in Hooks, HookMark(d) PROVE Places'
    <3>1. hook' \in [Hooks -> HookStates]
      BY <2>22, HookIsTyped DEF HookMark, HookGoto, HookStates
    <3> QED
      BY <2>22, <3>1, HookIsTyped DEF HookMark, HookGoto
  <2>23. ASSUME NEW d \in Hooks, HookLook(d) PROVE Places'
    <3>1. hook' \in [Hooks -> HookStates]
      BY <2>23, HookIsTyped DEF HookLook, HookGoto, HookStates
    <3> QED
      BY <2>23, <3>1, HookIsTyped DEF HookLook, HookGoto
  <2>24. ASSUME NEW d \in Hooks, HookAdvance(d) PROVE Places'
    <3>1. hook' \in [Hooks -> HookStates]
      BY <2>24, HookIsTyped DEF HookAdvance, HookGoto, HookStates
    <3> QED
      BY <2>24, <3>1, HookIsTyped DEF HookAdvance, HookGoto
  <2>25. ASSUME NEW d \in Hooks, HookClose(d) PROVE Places'
    <3>1. hook' \in [Hooks -> HookStates]
      BY <2>25, HookIsTyped DEF HookClose, HookGoto, HookStates
    <3> QED
      BY <2>25, <3>1, HookIsTyped DEF HookClose, HookGoto
  <2>26. ASSUME NEW d \in Hooks, HookSucceeds(d) PROVE Places'
    <3>1. hook' \in [Hooks -> HookStates]
      BY <2>26, HookIsTyped DEF HookSucceeds, HookGoto, HookStates
    <3> QED
      BY <2>26, <3>1, HookIsTyped DEF HookSucceeds, HookGoto
  <2>27. ASSUME NEW d \in Hooks, HookFails(d) PROVE Places'
    <3>1. hook' \in [Hooks -> HookStates]
      BY <2>27, HookIsTyped DEF HookFails, HookStates
    <3> QED
      BY <2>27, <3>1, HookIsTyped DEF HookFails
  <2>28. ASSUME NEW c \in Requests, Serve(c), UNCHANGED <<hook, faults>> PROVE Places'
    BY <2>28, <2>1, <2>2, <2>3, <2>4, <2>5, <2>6, <2>7, <2>8, <2>9,
       <2>10, <2>11, <2>12, <2>13, <2>14, <2>15, <2>16, <2>17,
       <2>18, <2>19 DEF Serve
  <2>29. ASSUME NEW d \in Hooks, HookStep(d) PROVE Places'
    BY <2>29, <2>22, <2>23, <2>24, <2>25, <2>26 DEF HookStep
  <2>30. CASE UNCHANGED vars
    BY <2>30 DEF vars
  <2> QED
    BY <2>20, <2>21, <2>27, <2>28, <2>29, <2>30 DEF Act
<1> QED
  BY <1>1, <1>2, NextActs, PTL DEF Spec

\* A ruling is a legal move only out of a dispute.
LEMMA RulingsNeedDisputes ==
  ASSUME NEW r \in Returns, NEW to \in {"CJ_APPROVED", "CJ_REJECTED"}, Valid(r, to)
  PROVE  status[r] = "CJ_DISPUTE_SUBMITTED"
BY DEF Valid, Allowed

\* Requests that go on, or have nothing left to write.
LEMMA WritesStayBacked ==
  ASSUME WritesAreBacked, UNCHANGED <<money, atCJ>>,
         \A b \in Requests : job'[b] = job[b] \/ job'[b].at \in {"idle", "close"}
  PROVE  WritesAreBacked'
BY DEF WritesAreBacked, money

\* None of the actions breaks the invariant.
LEMMA BackedIsKept ==
  Places /\ Places' /\ Backed /\ (Act \/ UNCHANGED vars) => Backed'
<1> SUFFICES ASSUME Places, Places', Backed, Act \/ UNCHANGED vars PROVE Backed'
  OBVIOUS
<1> USE DEF Places, Status, Idle, dispute, money, inbox, Backed, RowsArePaid,
            WritesAreBacked, AdvancesAreBacked, CompletedIsRefunded, RulingIsFiled,
            Spoken, Refunded
<1>1. ASSUME NEW c \in Requests, CreateRead(c), UNCHANGED <<hook, faults>> PROVE Backed'
  BY <1>1 DEF CreateRead
<1>2. ASSUME NEW c \in Requests, NEW r \in Returns,
             CreateWrite(c, r), UNCHANGED <<hook, faults>>
      PROVE  Backed'
  BY <1>2 DEF CreateWrite, Answer
<1>3. ASSUME NEW c \in Requests, NEW r \in Returns,
             CreateLegacy(c, r), UNCHANGED <<hook, faults>>
      PROVE  Backed'
  BY <1>3 DEF CreateLegacy
<1>4. ASSUME NEW c \in Requests, NEW r \in Returns, NEW to \in Reviewed,
             Review(c, r, to), UNCHANGED <<hook, faults>>
      PROVE  Backed'
  BY <1>4 DEF Review, Read, Goto, Reviewed
<1>5. ASSUME NEW c \in Requests, NEW r \in Returns, NEW to \in {"APPROVED", "REJECTED"},
             ReviewLegacy(c, r, to), UNCHANGED <<hook, faults>>
      PROVE  Backed'
  BY <1>5 DEF ReviewLegacy, Read, Goto
<1>6. ASSUME NEW c \in Requests, Write(c), UNCHANGED <<hook, faults>> PROVE Backed'
  <2>1. job[c].of \in Returns /\ job[c].at = "write"
    BY <1>6, JobIsTyped DEF Write
  <2>2. \/ job' = [job EXCEPT ![c] = [at |-> "close"]]
        \/ job' = [job EXCEPT ![c] = [at |-> "idle"]]
    BY <1>6 DEF Write, Answer
  <2>3. /\ status' = [status EXCEPT ![job[c].of] = job[c].to]
        /\ UNCHANGED <<dispute, money, hook>>
    BY <1>6 DEF Write
  <2>4. WritesAreBacked'
    <3>1. \A b \in Requests : job'[b] = job[b] \/ job'[b].at \in {"idle", "close"}
      BY <2>2
    <3> QED
      BY <2>3, <3>1, WritesStayBacked
  <2>5. CompletedIsRefunded' /\ RulingIsFiled'
    BY <2>1, <2>3
  <2> QED
    BY <2>3, <2>4, <2>5
<1>7. ASSUME NEW c \in Requests, CloseOrder(c), UNCHANGED <<hook, faults>> PROVE Backed'
  BY <1>7 DEF CloseOrder, Answer
<1>8. ASSUME NEW c \in Requests, NEW r \in Returns,
             FileRead(c, r), UNCHANGED <<hook, faults>>
      PROVE  Backed'
  BY <1>8 DEF FileRead, Read, Goto
<1>9. ASSUME NEW c \in Requests, FileRefused(c), UNCHANGED <<hook, faults>> PROVE Backed'
  BY <1>9, JobIsTyped DEF FileRefused, Answer
<1>10. ASSUME NEW c \in Requests, FileAtCJ(c), UNCHANGED <<hook, faults>> PROVE Backed'
  BY <1>10, JobIsTyped DEF FileAtCJ, Goto
<1>11. ASSUME NEW c \in Requests, FileRecord(c), UNCHANGED <<hook, faults>> PROVE Backed'
  BY <1>11, JobIsTyped DEF FileRecord, Goto
<1>12. ASSUME NEW c \in Requests, NEW r \in Returns, NEW o \in {"APPROVED", "REJECTED"},
              ConfirmRead(c, r, o), UNCHANGED <<hook, faults>>
       PROVE  Backed'
  BY <1>12, RulingsNeedDisputes DEF ConfirmRead, Read, Goto, Ruling
<1>13. ASSUME NEW c \in Requests,
              ConfirmWrite(c), UNCHANGED <<hook, faults>>
       PROVE  Backed'
  <2>1. job[c].of \in Returns /\ job[c].at \in {"rule", "refuse"}
    BY <1>13, JobIsTyped DEF ConfirmWrite
  <2>2. \/ job' = [job EXCEPT ![c] = [at |-> "idle"]]
        \/ /\ job[c].at = "rule"
           /\ job' = [job EXCEPT ![c] =
                       [at |-> "write", of |-> job[c].of, to |-> job[c].to, n |-> 0]]
    BY <1>13 DEF ConfirmWrite, Goto, Answer
  <2>3. UNCHANGED <<status, atCJ, refund, paid, hook>>
    BY <1>13 DEF ConfirmWrite
  <2>4. CASE job' = [job EXCEPT ![c] = [at |-> "idle"]]
    BY <2>3, <2>4
  <2>5. CASE /\ job[c].at = "rule"
             /\ job' = [job EXCEPT ![c] =
                         [at |-> "write", of |-> job[c].of, to |-> job[c].to, n |-> 0]]
    BY <2>1, <2>3, <2>5
  <2> QED
    BY <2>2, <2>4, <2>5
<1>14. ASSUME NEW c \in Requests, NEW r \in Returns, NEW n \in Amounts,
              RefundRead(c, r, n), UNCHANGED <<hook, faults>>
       PROVE  Backed'
  BY <1>14 DEF RefundRead, Read, Goto
<1>15. ASSUME NEW c \in Requests, NEW r \in Returns, NEW n \in Amounts,
              RefundLegacy(c, r, n), UNCHANGED <<hook, faults>>
       PROVE  Backed'
  BY <1>15 DEF RefundLegacy, Read, Goto
<1>16. ASSUME NEW c \in Requests,
              RefundAtStripe(c), UNCHANGED <<hook, faults>>
       PROVE  Backed'
  BY <1>16, JobIsTyped DEF RefundAtStripe, Goto
<1>17. ASSUME NEW c \in Requests,
              RefundRefused(c), UNCHANGED <<hook, faults>>
       PROVE  Backed'
  BY <1>17 DEF RefundRefused, Answer
<1>18. ASSUME NEW c \in Requests, RefundRow(c), UNCHANGED <<hook, faults>> PROVE Backed'
  BY <1>18, JobIsTyped DEF RefundRow, Goto
<1>19. ASSUME NEW c \in Requests,
              RefundRowExists(c), UNCHANGED <<hook, faults>>
       PROVE  Backed'
  BY <1>19, JobIsTyped DEF RefundRowExists, Answer
<1>20. ASSUME NEW c \in Requests, Fail(c) PROVE Backed'
  BY <1>20 DEF Fail, Answer
<1>21. ASSUME NEW d \in Hooks, NEW s \in raised, HookClaim(d, s) PROVE Backed'
  <2>1. UNCHANGED <<status, atCJ, refund, paid, job>>
    BY <1>21 DEF HookClaim, HookGoto
  <2>2. AdvancesAreBacked'
    <3>1. CASE hook' = [hook EXCEPT ![d] = [at |-> "close", sum |-> s]]
      BY <2>1, <3>1
    <3>2. ASSUME NEW i \in Pending,
                 hook' = [hook EXCEPT ![d] = [at |-> "mark", sum |-> s, of |-> refunds[i]]]
          PROVE  AdvancesAreBacked'
      <4>1. refund[refunds[i]] # "none"
        BY DEF Pending
      <4> QED
        BY <2>1, <3>2, <4>1
    <3> QED
      BY <1>21, <3>1, <3>2 DEF HookClaim, HookGoto
  <2> QED
    BY <2>1, <2>2
<1>22. ASSUME NEW d \in Hooks, HookMark(d) PROVE Backed'
  BY <1>22, HookIsTyped DEF HookMark, HookGoto
<1>23. ASSUME NEW d \in Hooks, HookLook(d) PROVE Backed'
  BY <1>23, HookIsTyped DEF HookLook, HookGoto
<1>24. ASSUME NEW d \in Hooks, HookAdvance(d) PROVE Backed'
  BY <1>24, HookIsTyped DEF HookAdvance, HookGoto
<1>25. ASSUME NEW d \in Hooks, HookClose(d) PROVE Backed'
  BY <1>25, HookIsTyped DEF HookClose, HookGoto
<1>26. ASSUME NEW d \in Hooks, HookSucceeds(d) PROVE Backed'
  BY <1>26, HookIsTyped DEF HookSucceeds, HookGoto
<1>27. ASSUME NEW d \in Hooks, HookFails(d) PROVE Backed'
  BY <1>27, HookIsTyped DEF HookFails
<1>28. ASSUME NEW c \in Requests, Serve(c), UNCHANGED <<hook, faults>> PROVE Backed'
  BY <1>28, <1>1, <1>2, <1>3, <1>4, <1>5, <1>6, <1>7, <1>8, <1>9, <1>10,
     <1>11, <1>12, <1>13, <1>14, <1>15, <1>16, <1>17, <1>18, <1>19 DEF Serve
<1>29. ASSUME NEW d \in Hooks, HookStep(d) PROVE Backed'
  BY <1>29, <1>22, <1>23, <1>24, <1>25, <1>26 DEF HookStep
<1>30. CASE UNCHANGED vars
  BY <1>30 DEF vars
<1> QED
  BY <1>20, <1>21, <1>27, <1>28, <1>29, <1>30 DEF Act

\* The inductive invariant holds throughout.
LEMMA BackedAlways == Spec => []Backed
<1>1. Init => Backed
  BY DEF Init, Backed, RowsArePaid, WritesAreBacked, AdvancesAreBacked,
         CompletedIsRefunded, RulingIsFiled, Idle
<1> QED
  BY <1>1, BackedIsKept, PlacesAlways, NextActs, PTL DEF Spec

\* processRefund, issueRefund, charge.refunded: a return in REFUND_PROCESSING or
\* COMPLETED has been refunded, whatever overlapped or stopped half-way.
THEOREM RefundsAreReal == Spec => []CompletedIsRefunded
BY BackedAlways, PTL DEF Backed

\* fileCjDispute, confirmCjOutcome: a return that speaks of CJ's dispute has one.
THEOREM DisputesAreReal == Spec => []RulingIsFiled
BY BackedAlways, PTL DEF Backed

-----------------------------------------------------------------------------
(***************************************************************************)
(* The ledger of refunds.  A request that is about to record a refund or   *)
(* to close the order, and an event that tells of one, say no more than    *)
(* what the gateway has given back.                                        *)
(***************************************************************************)
EventsAreBooked == \A sum \in raised : sum <= returned

RequestsAreBooked ==
  \A c \in Requests :
    /\ job[c].at = "pay" => job[c].n \in Amounts
    /\ job[c].at \in {"row", "write"} => job[c].n <= returned
    /\ job[c].at = "close" => returned = Total

HooksAreBooked == \A d \in Hooks : hook[d] # Idle => hook[d].sum <= returned

Balanced ==
  /\ returned <= Total
  /\ order \in {"FULFILLED", "REFUNDED"}
  /\ order = "REFUNDED" => returned = Total

BooksInv == EventsAreBooked /\ RequestsAreBooked /\ HooksAreBooked /\ Balanced

\* A request that leaves the money where it is takes a step.
LEMMA RequestStaysBooked ==
  ASSUME Places, BooksInv, UNCHANGED <<returned, raised, hook, order>>,
         NEW c \in Requests, NEW step, job' = [job EXCEPT ![c] = step],
         step.at = "pay" => step.n \in Amounts,
         step.at \in {"row", "write"} => step.n <= returned,
         step.at = "close" => returned = Total
  PROVE  BooksInv'
<1>1. RequestsAreBooked'
  <2> SUFFICES ASSUME NEW b \in Requests
               PROVE  /\ job'[b].at = "pay" => job'[b].n \in Amounts
                      /\ job'[b].at \in {"row", "write"} => job'[b].n <= returned
                      /\ job'[b].at = "close" => returned = Total
    BY DEF RequestsAreBooked
  <2>1. job'[b] = job[b] \/ job'[b] = step
    BY DEF Places
  <2> QED
    BY <2>1 DEF BooksInv, RequestsAreBooked
<1> QED
  BY <1>1 DEF BooksInv, EventsAreBooked, HooksAreBooked, Balanced

\* A webhook that leaves the order where it is takes a step.
LEMMA HookStaysBooked ==
  ASSUME Places, BooksInv, UNCHANGED <<returned, raised, job, order>>,
         NEW d \in Hooks, NEW step, hook' = [hook EXCEPT ![d] = step],
         step # Idle => step.sum <= returned
  PROVE  BooksInv'
<1>1. HooksAreBooked'
  <2> SUFFICES ASSUME NEW e \in Hooks, hook'[e] # Idle PROVE hook'[e].sum <= returned
    BY DEF HooksAreBooked
  <2>1. hook'[e] = hook[e] \/ hook'[e] = step
    BY DEF Places
  <2> QED
    BY <2>1 DEF BooksInv, HooksAreBooked
<1> QED
  BY <1>1 DEF BooksInv, EventsAreBooked, RequestsAreBooked, Balanced

\* One step per action: none of them breaks the invariant.
LEMMA BooksAreKept ==
  ASSUME Places, BooksInv, Act
  PROVE  BooksInv'
<1> USE DEF dispute, money, inbox
<1>1. ASSUME NEW c \in Requests, CreateRead(c), UNCHANGED <<hook, faults>> PROVE BooksInv'
  <2>1. job' = [job EXCEPT ![c] = [at |-> "create"]] /\ UNCHANGED <<returned, raised, order>>
    BY <1>1 DEF CreateRead
  <2> QED
    BY <1>1, <2>1, RequestStaysBooked
<1>2. ASSUME NEW c \in Requests, NEW r \in Returns, CreateWrite(c, r),
             UNCHANGED <<hook, faults>>
      PROVE  BooksInv'
  <2>1. job' = [job EXCEPT ![c] = Idle] /\ UNCHANGED <<returned, raised, order>>
    BY <1>2 DEF CreateWrite, Answer
  <2> QED
    BY <1>2, <2>1, RequestStaysBooked DEF Idle
<1>3. ASSUME NEW c \in Requests, NEW r \in Returns, CreateLegacy(c, r),
             UNCHANGED <<hook, faults>>
      PROVE  BooksInv'
  BY <1>3 DEF CreateLegacy, BooksInv, EventsAreBooked, RequestsAreBooked, HooksAreBooked, Balanced
<1>4. ASSUME NEW c \in Requests, NEW r \in Returns, NEW to \in Reviewed, Review(c, r, to),
             UNCHANGED <<hook, faults>>
      PROVE  BooksInv'
  <2>1. job' = [job EXCEPT ![c] =
                          [at |-> "write", of |-> r, to |-> to, n |-> 0]]
    BY <1>4 DEF Review, Read, Goto
  <2>2. UNCHANGED <<returned, raised, order>>
    BY <1>4 DEF Review, Read, Goto
  <2>3. 0 <= returned
    BY DEF Places
  <2> QED
    BY <1>4, <2>1, <2>2, <2>3, RequestStaysBooked
<1>5. ASSUME NEW c \in Requests, NEW r \in Returns, NEW to \in {"APPROVED", "REJECTED"},
             ReviewLegacy(c, r, to),
             UNCHANGED <<hook, faults>>
      PROVE  BooksInv'
  <2>1. job' = [job EXCEPT ![c] =
                          [at |-> "write", of |-> r, to |-> to, n |-> 0]]
    BY <1>5 DEF ReviewLegacy, Read, Goto
  <2>2. UNCHANGED <<returned, raised, order>>
    BY <1>5 DEF ReviewLegacy, Read, Goto
  <2>3. 0 <= returned
    BY DEF Places
  <2> QED
    BY <1>5, <2>1, <2>2, <2>3, RequestStaysBooked
<1>6. ASSUME NEW c \in Requests, Write(c), UNCHANGED <<hook, faults>> PROVE BooksInv'
  <2>1. \/ job' = [job EXCEPT ![c] = Idle]
        \/ job[c].n = Total /\ job' = [job EXCEPT ![c] = [at |-> "close"]]
    BY <1>6 DEF Write, Answer
  <2>2. UNCHANGED <<returned, raised, order>>
    BY <1>6 DEF Write
  <2>3. job[c].n = Total => returned = Total
    BY <1>6, ReturnsAssumption DEF Write, BooksInv, RequestsAreBooked, Balanced, Places
  <2> QED
    BY <1>6, <2>1, <2>2, <2>3, RequestStaysBooked DEF Idle
<1>7. ASSUME NEW c \in Requests, CloseOrder(c), UNCHANGED <<hook, faults>> PROVE BooksInv'
  <2>1. returned = Total
    BY <1>7 DEF CloseOrder, BooksInv, RequestsAreBooked
  <2>2. RequestsAreBooked'
    BY <1>7, <2>1 DEF CloseOrder, Answer, Idle, BooksInv, RequestsAreBooked, Places
  <2> QED
    BY <1>7, <2>1, <2>2 DEF CloseOrder, BooksInv, EventsAreBooked, HooksAreBooked, Balanced
<1>8. ASSUME NEW c \in Requests, NEW r \in Returns, FileRead(c, r),
             UNCHANGED <<hook, faults>>
      PROVE  BooksInv'
  <2>1. /\ job' = [job EXCEPT ![c] =
                [at |-> "file", of |-> r, to |-> "CJ_DISPUTE_SUBMITTED", n |-> 0]]
        /\ UNCHANGED <<returned, raised, order>>
    BY <1>8 DEF FileRead, Read, Goto
  <2> QED
    BY <1>8, <2>1, RequestStaysBooked
<1>9. ASSUME NEW c \in Requests, FileRefused(c), UNCHANGED <<hook, faults>> PROVE BooksInv'
  <2>1. job' = [job EXCEPT ![c] = Idle] /\ UNCHANGED <<returned, raised, order>>
    BY <1>9 DEF FileRefused, Answer
  <2> QED
    BY <1>9, <2>1, RequestStaysBooked DEF Idle
<1>10. ASSUME NEW c \in Requests, FileAtCJ(c), UNCHANGED <<hook, faults>> PROVE BooksInv'
  <2>1. /\ job' = [job EXCEPT ![c] =
                [at |-> "filed", of |-> job[c].of, to |-> job[c].to, n |-> 0]]
        /\ UNCHANGED <<returned, raised, order>>
    BY <1>10 DEF FileAtCJ, Goto
  <2> QED
    BY <1>10, <2>1, RequestStaysBooked
<1>11. ASSUME NEW c \in Requests, FileRecord(c), UNCHANGED <<hook, faults>> PROVE BooksInv'
  <2>1. job' = [job EXCEPT ![c] =
                          [at |-> "write", of |-> job[c].of, to |-> job[c].to, n |-> 0]]
    BY <1>11 DEF FileRecord, Goto
  <2>2. UNCHANGED <<returned, raised, order>>
    BY <1>11 DEF FileRecord, Goto
  <2>3. 0 <= returned
    BY DEF Places
  <2> QED
    BY <1>11, <2>1, <2>2, <2>3, RequestStaysBooked
<1>12. ASSUME NEW c \in Requests, NEW r \in Returns, NEW o \in {"APPROVED", "REJECTED"},
             ConfirmRead(c, r, o), UNCHANGED <<hook, faults>>
       PROVE  BooksInv'
  <2>1. PICK at \in {"rule", "refuse"} :
          job' = [job EXCEPT ![c] =
                    [at |-> at, of |-> r, to |-> Ruling(r, o), n |-> Len(disputes[r])]]
    BY <1>12 DEF ConfirmRead, Read, Goto
  <2>2. UNCHANGED <<returned, raised, order>>
    BY <1>12 DEF ConfirmRead, Read
  <2> QED
    BY <1>12, <2>1, <2>2, RequestStaysBooked
<1>13. ASSUME NEW c \in Requests, ConfirmWrite(c), UNCHANGED <<hook, faults>>
       PROVE  BooksInv'
  <2>1. \/ job' = [job EXCEPT ![c] = Idle]
        \/ job' = [job EXCEPT ![c] =
                      [at |-> "write", of |-> job[c].of, to |-> job[c].to, n |-> 0]]
    BY <1>13 DEF ConfirmWrite, Answer, Goto
  <2>2. UNCHANGED <<returned, raised, order>>
    BY <1>13 DEF ConfirmWrite
  <2>3. 0 <= returned
    BY DEF Places
  <2> QED
    BY <1>13, <2>1, <2>2, <2>3, RequestStaysBooked DEF Idle
<1>14. ASSUME NEW c \in Requests, NEW r \in Returns, NEW n \in Amounts, RefundRead(c, r, n),
              UNCHANGED <<hook, faults>>
       PROVE  BooksInv'
  <2>1. /\ job' = [job EXCEPT ![c] =
                [at |-> "pay", of |-> r, to |-> "REFUND_PROCESSING", n |-> n]]
        /\ UNCHANGED <<returned, raised, order>>
    BY <1>14 DEF RefundRead, Read, Goto
  <2> QED
    BY <1>14, <2>1, RequestStaysBooked
<1>15. ASSUME NEW c \in Requests, NEW r \in Returns, NEW n \in Amounts, RefundLegacy(c, r, n),
              UNCHANGED <<hook, faults>>
       PROVE  BooksInv'
  <2>1. /\ job' = [job EXCEPT ![c] =
                [at |-> "pay", of |-> r, to |-> "COMPLETED", n |-> n]]
        /\ UNCHANGED <<returned, raised, order>>
    BY <1>15 DEF RefundLegacy, Read, Goto
  <2> QED
    BY <1>15, <2>1, RequestStaysBooked
<1>16. ASSUME NEW c \in Requests, RefundAtStripe(c), UNCHANGED <<hook, faults>>
       PROVE  BooksInv'
  <2>1. returned' = returned + job[c].n /\ returned' <= Total /\ order = "FULFILLED"
    BY <1>16 DEF RefundAtStripe, Refundable
  <2>2. job[c].n \in 1 .. Total
    BY <1>16, ReturnsAssumption DEF RefundAtStripe, BooksInv, RequestsAreBooked
  <2>3. returned < returned' /\ job[c].n <= returned' /\ returned' \in Nat
    BY <2>1, <2>2, ReturnsAssumption DEF Places
  <2>4. EventsAreBooked'
    BY <1>16, <2>3 DEF RefundAtStripe, BooksInv, EventsAreBooked, Places
  <2>5. HooksAreBooked'
    <3> SUFFICES ASSUME NEW d \in Hooks, hook[d] # Idle PROVE hook[d].sum <= returned'
      BY <1>16 DEF HooksAreBooked
    <3>1. hook[d].sum <= returned /\ hook[d].sum \in Nat
      BY HookIsTyped DEF BooksInv, HooksAreBooked
    <3> QED
      BY <2>3, <3>1 DEF Places
  <2>6. RequestsAreBooked'
    <3> SUFFICES ASSUME NEW b \in Requests
                 PROVE  /\ job'[b].at = "pay" => job'[b].n \in Amounts
                        /\ job'[b].at \in {"row", "write"} => job'[b].n <= returned'
                        /\ job'[b].at = "close" => returned' = Total
      BY DEF RequestsAreBooked
    <3>1. CASE b = c
      <4>1. job'[b] = [at |-> "row", of |-> job[c].of, to |-> job[c].to, n |-> job[c].n]
        BY <1>16, <3>1 DEF RefundAtStripe, Goto, Places
      <4> QED
        BY <2>3, <4>1
    <3>2. CASE b # c
      <4>1. job'[b] = job[b]
        BY <1>16, <3>2 DEF RefundAtStripe, Goto, Places
      <4>2. job[b].at # "close"
        BY <2>1, <2>2, <2>3, ReturnsAssumption DEF BooksInv, RequestsAreBooked, Balanced, Places
      <4>3. job[b].at \in {"row", "write"} => job[b].n <= returned /\ job[b].n \in Nat
        BY JobIsTyped DEF BooksInv, RequestsAreBooked
      <4> QED
        BY <2>3, <4>1, <4>2, <4>3 DEF BooksInv, RequestsAreBooked, Places
    <3> QED
      BY <3>1, <3>2
  <2> QED
    BY <1>16, <2>1, <2>4, <2>5, <2>6 DEF RefundAtStripe, BooksInv, Balanced
<1>17. ASSUME NEW c \in Requests, RefundRefused(c), UNCHANGED <<hook, faults>>
       PROVE  BooksInv'
  <2>1. job' = [job EXCEPT ![c] = Idle] /\ UNCHANGED <<returned, raised, order>>
    BY <1>17 DEF RefundRefused, Answer
  <2> QED
    BY <1>17, <2>1, RequestStaysBooked DEF Idle
<1>18. ASSUME NEW c \in Requests, RefundRow(c), UNCHANGED <<hook, faults>> PROVE BooksInv'
  <2>1. job' = [job EXCEPT ![c] =
                  [at |-> "write", of |-> job[c].of, to |-> job[c].to, n |-> job[c].n]]
    BY <1>18 DEF RefundRow, Goto
  <2>2. UNCHANGED <<returned, raised, order>>
    BY <1>18 DEF RefundRow
  <2>3. job[c].n <= returned
    BY <1>18 DEF RefundRow, BooksInv, RequestsAreBooked
  <2> QED
    BY <1>18, <2>1, <2>2, <2>3, RequestStaysBooked
<1>19. ASSUME NEW c \in Requests, RefundRowExists(c), UNCHANGED <<hook, faults>>
       PROVE  BooksInv'
  <2>1. job' = [job EXCEPT ![c] = Idle] /\ UNCHANGED <<returned, raised, order>>
    BY <1>19 DEF RefundRowExists, Answer
  <2> QED
    BY <1>19, <2>1, RequestStaysBooked DEF Idle
<1>20. ASSUME NEW c \in Requests, Fail(c) PROVE BooksInv'
  <2>1. job' = [job EXCEPT ![c] = Idle] /\ UNCHANGED <<returned, raised, order, hook>>
    BY <1>20 DEF Fail, Answer
  <2> QED
    BY <2>1, RequestStaysBooked DEF Idle
<1>21. ASSUME NEW d \in Hooks, NEW sum \in raised, HookClaim(d, sum) PROVE BooksInv'
  <2>1. PICK step :
          /\ hook' = [hook EXCEPT ![d] = step]
          /\ step # Idle => step.sum = sum
    BY <1>21 DEF HookClaim, HookGoto, Idle
  <2>2. UNCHANGED <<returned, raised, job, order>>
    BY <1>21 DEF HookClaim, HookGoto
  <2>3. sum <= returned
    BY <1>21 DEF BooksInv, EventsAreBooked
  <2> QED
    BY <2>1, <2>2, <2>3, HookStaysBooked
<1>22. ASSUME NEW d \in Hooks, HookMark(d) PROVE BooksInv'
  <2>1. hook' = [hook EXCEPT ![d] = [at |-> "look", sum |-> hook[d].sum, of |-> hook[d].of]]
    BY <1>22 DEF HookMark, HookGoto
  <2>2. UNCHANGED <<returned, raised, job, order>>
    BY <1>22 DEF HookMark, HookGoto
  <2>3. hook[d].sum <= returned
    BY <1>22 DEF HookMark, Idle, BooksInv, HooksAreBooked
  <2> QED
    BY <2>1, <2>2, <2>3, HookStaysBooked
<1>23. ASSUME NEW d \in Hooks, HookLook(d) PROVE BooksInv'
  <2>1. \/ hook' = [hook EXCEPT ![d] = [at |-> "advance", sum |-> hook[d].sum, of |-> hook[d].of]]
        \/ hook' = [hook EXCEPT ![d] = [at |-> "close", sum |-> hook[d].sum]]
    BY <1>23 DEF HookLook, HookGoto
  <2>2. UNCHANGED <<returned, raised, job, order>>
    BY <1>23 DEF HookLook, HookGoto
  <2>3. hook[d].sum <= returned
    BY <1>23 DEF HookLook, Idle, BooksInv, HooksAreBooked
  <2> QED
    BY <2>1, <2>2, <2>3, HookStaysBooked
<1>24. ASSUME NEW d \in Hooks, HookAdvance(d) PROVE BooksInv'
  <2>1. hook' = [hook EXCEPT ![d] = [at |-> "close", sum |-> hook[d].sum]]
    BY <1>24 DEF HookAdvance, HookGoto
  <2>2. UNCHANGED <<returned, raised, job, order>>
    BY <1>24 DEF HookAdvance, HookGoto
  <2>3. hook[d].sum <= returned
    BY <1>24 DEF HookAdvance, Idle, BooksInv, HooksAreBooked
  <2> QED
    BY <2>1, <2>2, <2>3, HookStaysBooked
<1>25. ASSUME NEW d \in Hooks, HookClose(d) PROVE BooksInv'
  <2>1. hook[d] # Idle
    BY <1>25 DEF HookClose, Idle
  <2>2. hook[d].sum <= returned /\ hook[d].sum \in Nat
    BY <2>1, HookIsTyped DEF BooksInv, HooksAreBooked
  <2>3. hook[d].sum >= Total => returned = Total
    BY <2>2, ReturnsAssumption DEF BooksInv, Balanced, Places
  <2>4. Balanced'
    BY <1>25, <2>3 DEF HookClose, HookGoto, BooksInv, Balanced
  <2>5. HooksAreBooked'
    BY <1>25, <2>2 DEF HookClose, HookGoto, BooksInv, HooksAreBooked, Places, Idle
  <2> QED
    BY <1>25, <2>4, <2>5 DEF HookClose, HookGoto, BooksInv, EventsAreBooked, RequestsAreBooked
<1>26. ASSUME NEW d \in Hooks, HookSucceeds(d) PROVE BooksInv'
  <2>1. hook' = [hook EXCEPT ![d] = Idle] /\ UNCHANGED <<returned, raised, job, order>>
    BY <1>26 DEF HookSucceeds, HookGoto
  <2> QED
    BY <2>1, HookStaysBooked
<1>27. ASSUME NEW d \in Hooks, HookFails(d) PROVE BooksInv'
  <2>1. hook' = [hook EXCEPT ![d] = Idle] /\ UNCHANGED <<returned, raised, job, order>>
    BY <1>27 DEF HookFails
  <2> QED
    BY <2>1, HookStaysBooked
<1>28. ASSUME NEW c \in Requests, Serve(c), UNCHANGED <<hook, faults>> PROVE BooksInv'
  BY <1>28, <1>1, <1>2, <1>3, <1>4, <1>5, <1>6, <1>7, <1>8, <1>9, <1>10, <1>11, <1>12, <1>13,
       <1>14, <1>15, <1>16, <1>17, <1>18, <1>19 DEF Serve
<1> QED
  BY <1>20, <1>21, <1>22, <1>23, <1>24, <1>25, <1>26, <1>27, <1>28 DEF Act, HookStep

LEMMA BooksAlways == Spec => []BooksInv
<1>1. Init => BooksInv
  BY ReturnsAssumption DEF Init, BooksInv, EventsAreBooked, RequestsAreBooked, HooksAreBooked,
       Balanced, Idle
<1>2. BooksInv /\ UNCHANGED vars => BooksInv'
  BY DEF vars, money, BooksInv, EventsAreBooked, RequestsAreBooked, HooksAreBooked, Balanced
<1> QED
  BY <1>1, <1>2, BooksAreKept, PlacesAlways, NextActs, PTL DEF Spec

\* What the ledger does not see.
LEMMA LedgerStands ==
  ASSUME UNCHANGED <<returned, paid, refund, order>>
  PROVE  UNCHANGED Books!ledgerVars
BY DEF Books!ledgerVars

\* One step per action that writes the books; the rest of them stand still.
LEMMA ActIsBooked ==
  ASSUME Places, Backed, BooksInv, Act
  PROVE  Books!Next \/ UNCHANGED Books!ledgerVars
<1> USE DEF dispute, money
<1>1. ASSUME NEW c \in Requests, RefundAtStripe(c) PROVE Books!Next
  <2>1. job[c].of \in Returns /\ job[c].n \in Amounts
    BY <1>1, JobIsTyped DEF RefundAtStripe, BooksInv, RequestsAreBooked
  <2>2. Books!GiveBack(job[c].of, job[c].n)
    BY <1>1 DEF RefundAtStripe, Refundable, Books!GiveBack
  <2> QED
    BY <2>1, <2>2 DEF Books!Next
<1>2. ASSUME NEW c \in Requests, RefundRow(c) PROVE Books!Next
  <2>1. job[c].of \in Returns /\ paid[job[c].of] > 0
    BY <1>2, JobIsTyped DEF RefundRow, Backed, WritesAreBacked
  <2>2. Books!Record(job[c].of)
    BY <1>2, <2>1 DEF RefundRow, Books!Record
  <2> QED
    BY <2>1, <2>2 DEF Books!Next
<1>3. ASSUME NEW c \in Requests, CloseOrder(c) PROVE Books!Next \/ UNCHANGED Books!ledgerVars
  <2>1. returned = Total /\ order \in {"FULFILLED", "REFUNDED"}
    BY <1>3 DEF CloseOrder, BooksInv, RequestsAreBooked, Balanced
  <2>2. order' = "REFUNDED" /\ UNCHANGED <<returned, paid, refund>>
    BY <1>3 DEF CloseOrder
  <2> QED
    BY <2>1, <2>2 DEF Books!Next, Books!Close, Books!ledgerVars
<1>4. ASSUME NEW d \in Hooks, HookMark(d) PROVE Books!Next \/ UNCHANGED Books!ledgerVars
  <2>1. hook[d].of \in Returns /\ refund[hook[d].of] \in {"PENDING", "COMPLETED"}
    BY <1>4, HookIsTyped DEF HookMark, Idle, Backed, AdvancesAreBacked, Places
  <2>2. refund' = [refund EXCEPT ![hook[d].of] = "COMPLETED"] /\ UNCHANGED <<returned, paid, order>>
    BY <1>4 DEF HookMark, HookGoto
  <2>3. CASE refund[hook[d].of] = "PENDING"
    BY <2>1, <2>2, <2>3 DEF Books!Next, Books!Confirm
  <2>4. CASE refund[hook[d].of] = "COMPLETED"
    BY <2>2, <2>4 DEF Books!ledgerVars, Places
  <2> QED
    BY <2>1, <2>3, <2>4
<1>5. ASSUME NEW d \in Hooks, HookClose(d) PROVE Books!Next \/ UNCHANGED Books!ledgerVars
  <2>1. hook[d] # Idle
    BY <1>5 DEF HookClose, Idle
  <2>2. hook[d].sum <= returned /\ hook[d].sum \in Nat
    BY <2>1, HookIsTyped DEF BooksInv, HooksAreBooked
  <2>3. hook[d].sum >= Total => returned = Total
    BY <2>2, ReturnsAssumption DEF BooksInv, Balanced, Places
  <2>4. /\ order' = IF hook[d].sum >= Total THEN "REFUNDED" ELSE order
        /\ UNCHANGED <<returned, paid, refund>>
    BY <1>5 DEF HookClose, HookGoto
  <2> QED
    BY <2>3, <2>4 DEF Books!Next, Books!Close, Books!ledgerVars, BooksInv, Balanced
<1>6. ASSUME NEW c \in Requests, Serve(c), ~ RefundAtStripe(c), ~ RefundRow(c), ~ CloseOrder(c)
      PROVE  UNCHANGED <<returned, paid, refund, order>>
  BY <1>6 DEF Serve, CreateWrite, CreateLegacy, Review, ReviewLegacy, Read, FileRead, ConfirmRead,
       RefundRead, RefundLegacy, CreateRead, Write, FileRefused, FileAtCJ, FileRecord, ConfirmWrite,
       RefundRefused, RefundRowExists
<1>7. ASSUME NEW d \in Hooks, HookStep(d), ~ HookMark(d), ~ HookClose(d)
      PROVE  UNCHANGED <<returned, paid, refund, order>>
  BY <1>7 DEF HookStep, HookLook, HookAdvance, HookSucceeds, HookGoto
<1>8. ASSUME NEW c \in Requests, Fail(c) PROVE UNCHANGED <<returned, paid, refund, order>>
  BY <1>8 DEF Fail
<1>9. ASSUME NEW d \in Hooks, HookFails(d) \/ \E sum \in raised : HookClaim(d, sum)
      PROVE  UNCHANGED <<returned, paid, refund, order>>
  BY <1>9 DEF HookFails, HookClaim, HookGoto
<1> QED
  BY <1>1, <1>2, <1>3, <1>4, <1>5, <1>6, <1>7, <1>8, <1>9, LedgerStands DEF Act

\* processRefund, issueRefund, createRefund, handleWebhook's charge.refunded:
\* for any number of returns, overlapping requests, webhooks and faults, the
\* gateway and the rows keep a ledger of refunds.
THEOREM ImplementsRefundLedger == Spec => RefundsAreBooked
<1>1. Init => Books!Init
  BY DEF Init, Books!Init
<1>2. UNCHANGED vars => UNCHANGED Books!ledgerVars
  BY DEF vars, money, Books!ledgerVars
<1> QED
  BY <1>1, <1>2, ActIsBooked, PlacesAlways, BackedAlways, BooksAlways, NextActs, PTL
     DEF Spec, RefundsAreBooked, Books!Spec

-----------------------------------------------------------------------------
(***************************************************************************)
(* Requests one at a time, and none cut short: a return is paid at most    *)
(* once.  Money that has moved shows in the status, or the one request     *)
(* being served is still to write it; every other request has read a       *)
(* status without money behind it.                                         *)
(***************************************************************************)
Lone == alone /\ faults = 0

\* Request c will yet write that r is refunded.
Finishing(c, r) ==
  /\ job[c].at = "row" \/ (job[c].at = "write" /\ job[c].to \in Refunded)
  /\ job[c].of = r

\* Request c has read a status from which r may be refunded, or moved on.
Unpaid(c) ==
  job[c].at \in {"pay", "file", "filed", "rule"}
    \/ (job[c].at = "write" /\ job[c].to \notin Refunded)

OnePaid ==
  /\ OneRequest
  /\ \A r \in Returns :
       /\ paid[r] <= 1
       /\ paid[r] > 0 => status[r] # "none"
       /\ paid[r] > 0 => status[r] \in Refunded \/ \E c \in Requests : Finishing(c, r)
  /\ \A c \in Requests :
       /\ Unpaid(c) => paid[job[c].of] = 0
       /\ job[c].at = "pay" => status[job[c].of] # "none"
       /\ job[c].at = "row" => refund[job[c].of] = "none"

PaidInv == Lone => OnePaid

\* Nothing forgets a fault.
LEMMA FaultsStay == Places /\ Act => faults' = faults \/ (faults' = faults + 1 /\ faults' # 0)
<1> SUFFICES ASSUME Places, Act
             PROVE  faults' = faults \/ (faults' = faults + 1 /\ faults' # 0)
  OBVIOUS
<1> USE DEF Places
<1>1. ASSUME NEW c \in Requests, Serve(c), UNCHANGED <<hook, inbox, faults>>
      PROVE  faults' = faults
  BY <1>1
<1>2. ASSUME NEW c \in Requests, Fail(c) PROVE faults' = faults + 1 /\ faults' # 0
  BY <1>2 DEF Fail
<1>3. ASSUME NEW d \in Hooks, NEW s \in raised, HookClaim(d, s) PROVE faults' = faults
  BY <1>3 DEF HookClaim, HookGoto
<1>4. ASSUME NEW d \in Hooks, HookStep(d) PROVE faults' = faults
  BY <1>4 DEF HookStep, HookMark, HookLook, HookAdvance, HookClose, HookSucceeds, HookGoto
<1>5. ASSUME NEW d \in Hooks, HookFails(d) PROVE faults' = faults + 1 /\ faults' # 0
  BY <1>5 DEF HookFails
<1> QED
  BY <1>1, <1>2, <1>3, <1>4, <1>5 DEF Act

\* A step of one request: nobody else is being served.
LEMMA OthersIdle ==
  ASSUME NEW c \in Requests, NEW b \in Requests, b # c, OneRequest, job[c] # Idle
  PROVE  job[b] = Idle
BY DEF OneRequest, Busy

\* The other requests stay where they are.
OthersRest(c) == \A b \in Requests \ {c} : job'[b] = job[b]

\* An idle request has nothing in hand.
LEMMA IdleHolds ==
  ASSUME NEW c \in Requests
  PROVE  /\ job[c] = Idle =>
              /\ \A r \in Returns : ~ Finishing(c, r)
              /\ ~ Unpaid(c)
              /\ job[c].at \notin {"pay", "row"}
         /\ job'[c] = Idle =>
              /\ \A r \in Returns : ~ Finishing(c, r)'
              /\ ~ Unpaid(c)'
              /\ job'[c].at \notin {"pay", "row"}
BY DEF Idle, Finishing, Unpaid

\* What a request reads when nobody else is being served has no money behind it.
LEMMA ReadIsUnpaid ==
  ASSUME Places, OnePaid, OneRequest', NEW c \in Requests, NEW r \in Returns,
         OthersRest(c), job[c] = Idle, job'[c] # Idle, status[r] \notin Refunded
  PROVE  paid[r] = 0
<1>1. \A b \in Requests : job[b] = Idle
  BY DEF OneRequest, Busy, OthersRest
<1>2. \A b \in Requests : ~ Finishing(b, r)
  BY <1>1, IdleHolds
<1>3. ~ (paid[r] > 0)
  BY <1>2 DEF OnePaid
<1>4. paid[r] \in Nat
  BY DEF Places
<1> QED
  BY <1>3, <1>4

\* A step that moves one request on and writes nothing this is about.
LEMMA QuietMove ==
  ASSUME Places, OnePaid, OneRequest', NEW c \in Requests, OthersRest(c),
         UNCHANGED <<status, paid, refund>>,
         \A r \in Returns : ~ Finishing(c, r),
         Unpaid(c)' => paid[job'[c].of] = 0,
         job'[c].at = "pay" => status[job'[c].of] # "none",
         job'[c].at # "row"
  PROVE  OnePaid'
<1>1. \A r \in Returns, b \in Requests : Finishing(b, r) => Finishing(b, r)'
  BY DEF Finishing, OthersRest
<1>2. ASSUME NEW b \in Requests
      PROVE  /\ Unpaid(b)' => paid[job'[b].of] = 0
             /\ job'[b].at = "pay" => status[job'[b].of] # "none"
             /\ job'[b].at = "row" => refund[job'[b].of] = "none"
  BY DEF OnePaid, Unpaid, OthersRest
<1> QED
  BY <1>1, <1>2 DEF OnePaid

\* A webhook confirms what is there: it makes no Refund and undoes none.
LEMMA WebhookMove ==
  ASSUME Places, OnePaid, OneRequest', UNCHANGED <<job, paid>>,
         \A r \in Returns :
           /\ status'[r] \in {status[r], "COMPLETED"}
           /\ refund[r] = "none" => refund'[r] = "none"
  PROVE  OnePaid'
<1>1. \A c \in Requests :
        /\ job'[c] = job[c]
        /\ job[c].at \in {"pay", "row"} => job[c].of \in Returns
  BY JobIsTyped
<1>2. \A r \in Returns, c \in Requests : Finishing(c, r) <=> Finishing(c, r)'
  BY <1>1 DEF Finishing
<1>3. \A c \in Requests : Unpaid(c) <=> Unpaid(c)'
  BY <1>1 DEF Unpaid
<1>4. \A c \in Requests :
        /\ Unpaid(c)' => paid'[job'[c].of] = 0
        /\ job'[c].at = "pay" => status'[job'[c].of] # "none"
        /\ job'[c].at = "row" => refund'[job'[c].of] = "none"
  BY <1>1, <1>3 DEF OnePaid
<1>5. \A r \in Returns :
        /\ paid'[r] <= 1
        /\ paid'[r] > 0 => status'[r] # "none"
        /\ paid'[r] > 0 => status'[r] \in Refunded \/ \E c \in Requests : Finishing(c, r)'
  BY <1>2 DEF OnePaid, Refunded
<1> QED
  BY <1>4, <1>5 DEF OnePaid

LEMMA OnePaidIsKept ==
  ASSUME Places, Places', Backed, OnePaid, OneRequest', Act, faults' = faults
  PROVE  OnePaid'
<1> USE DEF Places, Status, Idle, dispute, money, inbox
<1>1. ASSUME NEW c \in Requests, CreateRead(c) PROVE OnePaid'
  <2>1. /\ OthersRest(c) /\ job[c] = Idle /\ UNCHANGED <<status, paid, refund>>
        /\ job'[c].at = "create"
    BY <1>1 DEF CreateRead, OthersRest
  <2>2. ~ Unpaid(c)' /\ job'[c].at \notin {"pay", "row"}
    BY <2>1 DEF Unpaid
  <2> QED
    BY <2>1, <2>2, IdleHolds, QuietMove
<1>2. ASSUME NEW c \in Requests, NEW r \in Returns, CreateWrite(c, r) PROVE OnePaid'
  BY <1>2 DEF CreateWrite, Answer, OnePaid, Finishing, Unpaid, Refunded
<1>3. ASSUME NEW c \in Requests, NEW r \in Returns, CreateLegacy(c, r) PROVE OnePaid'
  BY <1>3 DEF CreateLegacy, OnePaid, Finishing, Unpaid, Refunded
<1>4. ASSUME NEW c \in Requests, NEW r \in Returns, NEW at \in {"write", "file", "rule", "pay"},
             NEW to \in Status, NEW n, Read(c, at, r, to, n),
             status[r] \notin Refunded, at = "pay" => status[r] # "none"
      PROVE  OnePaid'
  <2>1. /\ job' = [job EXCEPT ![c] = [at |-> at, of |-> r, to |-> to, n |-> n]]
        /\ job[c] = Idle
        /\ UNCHANGED <<status, paid, refund>>
    BY <1>4 DEF Read, Goto
  <2>2. OthersRest(c) /\ job'[c] # Idle /\ job'[c].of = r /\ job'[c].at = at
    BY <2>1 DEF OthersRest
  <2>3. paid[r] = 0
    BY <1>4, <2>1, <2>2, ReadIsUnpaid
  <2>4. \A q \in Returns : ~ Finishing(c, q)
    BY <2>1 DEF Finishing
  <2> QED
    BY <1>4, <2>1, <2>2, <2>3, <2>4, QuietMove
<1>5. ASSUME NEW c \in Requests, NEW r \in Returns, NEW to \in Reviewed, Review(c, r, to)
      PROVE  OnePaid'
  BY <1>5, <1>4 DEF Review, Reviewed, Valid, Allowed, Refunded
<1>6. ASSUME NEW c \in Requests, NEW r \in Returns, NEW to \in {"APPROVED", "REJECTED"},
             ReviewLegacy(c, r, to)
      PROVE  OnePaid'
  BY <1>6, <1>4 DEF ReviewLegacy, Refunded
<1>7. ASSUME NEW c \in Requests, NEW r \in Returns, FileRead(c, r) PROVE OnePaid'
  BY <1>7, <1>4 DEF FileRead, Valid, Allowed, Refunded
<1>8. ASSUME NEW c \in Requests, NEW r \in Returns, NEW o \in {"APPROVED", "REJECTED"},
             ConfirmRead(c, r, o)
      PROVE  OnePaid'
  <2> DEFINE to == Ruling(r, o)
             n == Len(disputes[r])
  <2>1. to \in {"CJ_APPROVED", "CJ_REJECTED", "REPLACEMENT_PROCESSING"}
    BY DEF Ruling
  <2>2. CASE Valid(r, to)
    <3>1. Read(c, "rule", r, to, n) /\ status[r] \notin Refunded
      BY <1>8, <2>1, <2>2 DEF ConfirmRead, Valid, Allowed, Refunded
    <3> QED
      BY <2>1, <3>1, <1>4
  <2>3. CASE ~ Valid(r, to)
    <3>1. /\ job' = [job EXCEPT ![c] = [at |-> "refuse", of |-> r, to |-> to, n |-> n]]
          /\ job[c] = Idle
          /\ UNCHANGED <<status, paid, refund>>
      BY <1>8, <2>3 DEF ConfirmRead, Read, Goto
    <3>2. OthersRest(c) /\ ~ Unpaid(c)' /\ job'[c].at \notin {"pay", "row"}
      BY <3>1 DEF OthersRest, Unpaid
    <3> QED
      BY <3>1, <3>2, IdleHolds, QuietMove
  <2> QED
    BY <2>2, <2>3
<1>9. ASSUME NEW c \in Requests, NEW r \in Returns, NEW n \in Amounts,
             RefundRead(c, r, n) \/ RefundLegacy(c, r, n)
      PROVE  OnePaid'
  BY <1>9, <1>4 DEF RefundRead, RefundLegacy, Valid, Allowed, Refunded
<1>10. ASSUME NEW c \in Requests, Write(c) PROVE OnePaid'
  <2> DEFINE r == job[c].of
             to == job[c].to
  <2>1. /\ r \in Returns /\ to \in Status /\ job[c].at = "write"
        /\ status' = [status EXCEPT ![r] = to]
        /\ UNCHANGED <<paid, refund>>
        /\ OthersRest(c)
        /\ job'[c].at \in {"idle", "close"}
    BY <1>10, JobIsTyped DEF Write, Answer, OthersRest
  <2>2. \A b \in Requests \ {c} : job[b] = Idle /\ job'[b] = Idle
    BY <2>1, OthersIdle DEF OnePaid, OthersRest
  <2>3. \A b \in Requests : ~ Unpaid(b)' /\ job'[b].at \notin {"pay", "row"}
    BY <2>1, <2>2 DEF Unpaid
  <2>4. ASSUME NEW q \in Returns, paid[q] > 0
        PROVE  status'[q] # "none" /\ status'[q] \in Refunded
    <3>1. CASE q = r
      BY <2>1, <2>4, <3>1 DEF OnePaid, Unpaid, Refunded
    <3>2. CASE q # r
      <4>1. \A b \in Requests : ~ Finishing(b, q)
        <5>1. ~ Finishing(c, q)
          BY <3>2 DEF Finishing
        <5> QED
          BY <2>2, <5>1, IdleHolds
      <4> QED
        BY <2>1, <2>4, <3>2, <4>1 DEF OnePaid
    <3> QED
      BY <3>1, <3>2
  <2> QED
    BY <2>1, <2>3, <2>4 DEF OnePaid
<1>11. ASSUME NEW c \in Requests, CloseOrder(c) PROVE OnePaid'
  <2>1. /\ OthersRest(c) /\ job'[c] = Idle /\ job[c].at = "close"
        /\ UNCHANGED <<status, paid, refund>>
    BY <1>11 DEF CloseOrder, Answer, OthersRest
  <2>2. \A r \in Returns : ~ Finishing(c, r)
    BY <2>1 DEF Finishing
  <2> QED
    BY <2>1, <2>2, IdleHolds, QuietMove
<1>12. ASSUME NEW c \in Requests,
              FileRefused(c) \/ FileAtCJ(c) \/ FileRecord(c) \/ ConfirmWrite(c)
       PROVE  OnePaid'
  <2>1. /\ Unpaid(c) \/ job[c].at = "refuse"
        /\ \A r \in Returns : ~ Finishing(c, r)
    BY <1>12 DEF FileRefused, FileAtCJ, FileRecord, ConfirmWrite, Unpaid, Finishing
  <2>2. /\ OthersRest(c)
        /\ UNCHANGED <<status, paid, refund>>
        /\ \/ job'[c] = Idle
           \/ /\ job'[c].of = job[c].of /\ job'[c].at \in {"filed", "write"}
              /\ Unpaid(c)
    BY <1>12, JobIsTyped
       DEF FileRefused, FileAtCJ, FileRecord, ConfirmWrite, Goto, Answer, OthersRest, Unpaid
  <2>3. CASE job'[c] = Idle
    BY <2>1, <2>2, <2>3, IdleHolds, QuietMove
  <2>4. CASE job'[c].of = job[c].of /\ job'[c].at \in {"filed", "write"} /\ Unpaid(c)
    <3>1. paid[job[c].of] = 0
      BY <2>4 DEF OnePaid
    <3> QED
      BY <2>1, <2>2, <2>4, <3>1, QuietMove
  <2> QED
    BY <2>2, <2>3, <2>4
<1>13. ASSUME NEW c \in Requests, RefundAtStripe(c) PROVE OnePaid'
  <2> DEFINE r == job[c].of
  <2>1. /\ r \in Returns /\ job[c].at = "pay" /\ job[c].to \in Refunded
        /\ paid' = [paid EXCEPT ![r] = @ + 1]
        /\ UNCHANGED <<status, refund>>
        /\ OthersRest(c)
        /\ job'[c].at = "row" /\ job'[c].of = r /\ job'[c].to = job[c].to
    BY <1>13, JobIsTyped DEF RefundAtStripe, Goto, OthersRest, Backed, WritesAreBacked
  <2>2. paid[r] = 0 /\ status[r] # "none" /\ refund[r] = "none"
    BY <2>1 DEF OnePaid, Unpaid, Backed, RowsArePaid
  <2>3. \A b \in Requests \ {c} : job[b] = Idle /\ job'[b] = Idle
    BY <2>1, OthersIdle DEF OnePaid, OthersRest
  <2>4. \A b \in Requests : ~ Unpaid(b)' /\ job'[b].at # "pay"
    <3>1. ~ Unpaid(c)' /\ job'[c].at # "pay"
      BY <2>1 DEF Unpaid
    <3> QED
      BY <2>3, <3>1, IdleHolds
  <2>5. Finishing(c, r)'
    BY <2>1 DEF Finishing
  <2>6. ASSUME NEW q \in Returns, q # r, paid[q] > 0 PROVE status[q] \in Refunded
    <3>1. ~ Finishing(c, q)
      BY <2>6 DEF Finishing
    <3>2. \A b \in Requests : ~ Finishing(b, q)
      BY <2>3, <3>1, IdleHolds
    <3> QED
      BY <2>6, <3>2 DEF OnePaid
  <2>7. \A q \in Returns :
          /\ paid'[q] <= 1
          /\ paid'[q] > 0 => status'[q] # "none"
          /\ paid'[q] > 0 => status'[q] \in Refunded \/ \E b \in Requests : Finishing(b, q)'
    <3> TAKE q \in Returns
    <3>1. CASE q = r
      <4>1. paid'[q] = 1
        BY <2>1, <2>2, <3>1
      <4> QED
        BY <2>1, <2>2, <2>5, <3>1, <4>1
    <3>2. CASE q # r
      BY <2>1, <2>6, <3>2 DEF OnePaid
    <3> QED
      BY <3>1, <3>2
  <2>8. \A b \in Requests : job'[b].at = "row" => refund'[job'[b].of] = "none"
    BY <2>1, <2>2, <2>3, IdleHolds
  <2> QED
    BY <2>4, <2>7, <2>8 DEF OnePaid
<1>14. ASSUME NEW c \in Requests, RefundRefused(c) PROVE OnePaid'
  <2>1. /\ OthersRest(c) /\ job'[c] = Idle /\ job[c].at = "pay"
        /\ UNCHANGED <<status, paid, refund>>
    BY <1>14 DEF RefundRefused, Answer, OthersRest
  <2>2. \A r \in Returns : ~ Finishing(c, r)
    BY <2>1 DEF Finishing
  <2> QED
    BY <2>1, <2>2, IdleHolds, QuietMove
<1>15. ASSUME NEW c \in Requests, RefundRow(c) PROVE OnePaid'
  <2> DEFINE r == job[c].of
  <2>1. /\ r \in Returns /\ job[c].at = "row" /\ job[c].to \in Refunded
        /\ UNCHANGED <<status, paid>>
        /\ OthersRest(c)
        /\ job'[c].at = "write" /\ job'[c].of = r /\ job'[c].to = job[c].to
    BY <1>15, JobIsTyped DEF RefundRow, Goto, OthersRest, Backed, WritesAreBacked
  <2>2. \A b \in Requests \ {c} : job[b] = Idle /\ job'[b] = Idle
    BY <2>1, OthersIdle DEF OnePaid, OthersRest
  <2>3. \A b \in Requests : ~ Unpaid(b)' /\ job'[b].at \notin {"pay", "row"}
    <3>1. ~ Unpaid(c)' /\ job'[c].at \notin {"pay", "row"}
      BY <2>1 DEF Unpaid
    <3> QED
      BY <2>2, <3>1, IdleHolds
  <2>4. \A q \in Returns, b \in Requests : Finishing(b, q) => Finishing(b, q)'
    <3>1. \A q \in Returns : Finishing(c, q) => Finishing(c, q)'
      BY <2>1 DEF Finishing
    <3>2. \A q \in Returns, b \in Requests \ {c} : ~ Finishing(b, q)
      BY <2>2, IdleHolds
    <3> QED
      BY <3>1, <3>2
  <2> QED
    BY <2>1, <2>3, <2>4 DEF OnePaid
<1>16. ASSUME NEW c \in Requests, RefundRowExists(c) PROVE FALSE
  BY <1>16 DEF RefundRowExists, OnePaid
<1>17. ASSUME NEW c \in Requests, Fail(c) PROVE FALSE
  BY <1>17 DEF Fail
<1>18. ASSUME NEW d \in Hooks, NEW s \in raised, HookClaim(d, s) PROVE OnePaid'
  BY <1>18, WebhookMove DEF HookClaim, HookGoto
<1>19. ASSUME NEW d \in Hooks, HookStep(d) PROVE OnePaid'
  <2>1. UNCHANGED <<job, paid>>
    BY <1>19
       DEF HookStep, HookMark, HookLook, HookAdvance, HookClose, HookSucceeds, HookGoto
  <2>2. \A r \in Returns :
          /\ status'[r] \in {status[r], "COMPLETED"}
          /\ refund[r] = "none" => refund'[r] = "none"
    BY <1>19, HookIsTyped
       DEF HookStep, HookMark, HookLook, HookAdvance, HookClose, HookSucceeds,
           Backed, AdvancesAreBacked
  <2> QED
    BY <2>1, <2>2, WebhookMove
<1>20. ASSUME NEW d \in Hooks, HookFails(d) PROVE FALSE
  BY <1>20 DEF HookFails
<1>21. ASSUME NEW c \in Requests, Serve(c) PROVE OnePaid'
  BY <1>21, <1>1, <1>2, <1>3, <1>5, <1>6, <1>7, <1>8, <1>9, <1>10,
     <1>11, <1>12, <1>13, <1>14, <1>15, <1>16 DEF Serve
<1> QED
  BY <1>17, <1>18, <1>19, <1>20, <1>21 DEF Act

LEMMA PaidInvAlways == Spec => []PaidInv
<1>1. Init => PaidInv
  BY DEF Init, PaidInv, OnePaid, OneRequest, Busy, Unpaid, Idle
<1>2. Places /\ Places' /\ Backed /\ PaidInv /\ [Next]_vars => PaidInv'
  <2> SUFFICES ASSUME Places, Places', Backed, PaidInv, [Next]_vars, Lone' PROVE OnePaid'
    BY DEF PaidInv
  <2>1. CASE Act /\ alone' = (alone /\ OneRequest')
    <3>1. faults' = faults /\ Lone /\ OneRequest'
      BY <2>1, FaultsStay DEF Lone, Places
    <3> QED
      BY <2>1, <3>1, OnePaidIsKept DEF PaidInv
  <2>2. CASE UNCHANGED vars
    <3>1. Lone /\ OnePaid
      BY <2>2 DEF PaidInv, Lone, vars, history
    <3> QED
      BY <2>2, <3>1
         DEF vars, money, dispute, OnePaid, OneRequest, Busy, Finishing, Unpaid
  <2> QED
    BY <2>1, <2>2 DEF Next
<1> QED
  BY <1>1, <1>2, PlacesAlways, BackedAlways, PTL DEF Spec

\* processRefund, issueRefund: money is returned once for each return when requests
\* do not overlap and none stops half-way, whatever webhooks do meanwhile.
THEOREM RefundedOnceHolds == Spec => []RefundedOnce
<1>1. PaidInv => RefundedOnce
  BY DEF PaidInv, Lone, OnePaid, RefundedOnce
<1> QED
  BY <1>1, PaidInvAlways, PTL

-----------------------------------------------------------------------------
(***************************************************************************)
(* Webhooks apart from requests and from each other, and none cut short:   *)
(* there are as many charge.refunded events left to apply as Refunds that  *)
(* are PENDING or about to be, and a return in REFUND_PROCESSING has a     *)
(* PENDING Refund or the webhook that has just completed it.               *)
(***************************************************************************)
Calm == quiet /\ faults = 0

Waiting == {r \in Returns : refund[r] = "PENDING"}

Owed == {c \in Requests : job[c].at = "row"}

\* Delivery d has taken the Refund its event confirms, or there was none.
Past(d) == hook[d].at \in {"look", "advance", "close", "end"}

Left == {e \in raised \ done : \A d \in Hooks : Past(d) => hook[d].sum # e}

Confirming(d, r) == hook[d].at \in {"look", "advance"} /\ hook[d].of = r

\* What Stripe has raised are balances of the charge, all of them different.
Balances ==
  /\ raised \subseteq 1 .. returned
  /\ \A c \in Requests : job[c].at = "pay" => job[c].n \in Nat \ {0}

RowsAreListed ==
  \A r \in Returns : refund[r] # "none" => \E i \in DOMAIN refunds : refunds[i] = r

Confirmable ==
  /\ WebhookApart
  /\ \A d \in Applying : hook[d].sum \in raised \ done
  /\ done \subseteq raised
  /\ \A d \in Hooks :
       hook[d].at = "mark" => hook[d].of \in Returns /\ refund[hook[d].of] = "PENDING"
  /\ \A c \in Requests :
       job[c].at = "write" /\ job[c].to = "REFUND_PROCESSING"
         => refund[job[c].of] = "PENDING"
  /\ \A r \in Returns :
       status[r] = "REFUND_PROCESSING"
         => refund[r] = "PENDING" \/ \E d \in Hooks : Confirming(d, r)
  /\ Cardinality(Waiting) + Cardinality(Owed) <= Cardinality(Left)

CalmInv ==
  /\ Balances
  /\ RowsAreListed
  /\ Calm => Confirmable

LEMMA Finite ==
  ASSUME Places, Balances
  PROVE  /\ IsFiniteSet(Waiting) /\ IsFiniteSet(Owed) /\ IsFiniteSet(Left)
         /\ Cardinality(Waiting) \in Nat /\ Cardinality(Owed) \in Nat
         /\ Cardinality(Left) \in Nat
<1>1. Waiting \subseteq Returns /\ Owed \subseteq Requests /\ Left \subseteq 1 .. returned
  BY DEF Waiting, Owed, Left, Balances
<1>2. IsFiniteSet(1 .. returned)
  BY FS_Interval DEF Places
<1>3. IsFiniteSet(Waiting) /\ IsFiniteSet(Owed) /\ IsFiniteSet(Left)
  BY <1>1, <1>2, FS_Subset, ReturnsAssumption
<1> QED
  BY <1>3, FS_CardinalityType

LEMMA BalancesAreKept ==
  Places /\ Places' /\ Balances /\ (Act \/ UNCHANGED vars) => Balances'
<1> SUFFICES ASSUME Places, Places', Balances, Act \/ UNCHANGED vars PROVE Balances'
  OBVIOUS
<1> USE DEF Places, Idle, dispute, money, inbox
<1>1. ASSUME NEW c \in Requests, RefundAtStripe(c) PROVE Balances'
  <2>1. /\ job[c].n \in Nat \ {0}
        /\ returned' = returned + job[c].n
        /\ raised' = raised \cup {returned'}
    BY <1>1 DEF RefundAtStripe, Balances
  <2>2. raised' \subseteq 1 .. returned'
    BY <2>1 DEF Balances
  <2>3. \A b \in Requests : job'[b].at = "pay" => job'[b] = job[b]
    BY <1>1 DEF RefundAtStripe, Goto
  <2> QED
    BY <2>2, <2>3 DEF Balances
<1>2. ASSUME NEW c \in Requests, NEW r \in Returns, NEW n \in Amounts,
             RefundRead(c, r, n) \/ RefundLegacy(c, r, n)
      PROVE  Balances'
  <2>1. n \in Nat \ {0}
    BY ReturnsAssumption
  <2>2. UNCHANGED <<raised, returned>>
    BY <1>2 DEF RefundRead, RefundLegacy, Read
  <2>3. \A b \in Requests : job'[b] = job[b] \/ job'[b].n = n
    BY <1>2 DEF RefundRead, RefundLegacy, Read, Goto
  <2> QED
    BY <2>1, <2>2, <2>3 DEF Balances
<1>3. ASSUME UNCHANGED <<raised, returned>>,
             \A b \in Requests : job'[b] = job[b] \/ job'[b].at # "pay"
      PROVE  Balances'
  BY <1>3 DEF Balances
<1>4. ASSUME NEW c \in Requests, NEW r \in Returns,
             CreateWrite(c, r) \/ CreateLegacy(c, r) \/ FileRead(c, r)
      PROVE  Balances'
  BY <1>3, <1>4 DEF CreateWrite, CreateLegacy, FileRead, Read, Goto, Answer
<1>5. ASSUME NEW c \in Requests, NEW r \in Returns, NEW to \in Status,
             Review(c, r, to) \/ ReviewLegacy(c, r, to)
      PROVE  Balances'
  BY <1>3, <1>5 DEF Review, ReviewLegacy, Read, Goto
<1>6. ASSUME NEW c \in Requests, NEW r \in Returns, NEW o \in {"APPROVED", "REJECTED"},
             ConfirmRead(c, r, o)
      PROVE  Balances'
  BY <1>3, <1>6 DEF ConfirmRead, Read, Goto
<1>7. ASSUME NEW c \in Requests, CreateRead(c) \/ Write(c) \/ CloseOrder(c) PROVE Balances'
  BY <1>3, <1>7 DEF CreateRead, Write, CloseOrder, Answer
<1>8. ASSUME NEW c \in Requests,
             FileRefused(c) \/ FileAtCJ(c) \/ FileRecord(c) \/ ConfirmWrite(c)
      PROVE  Balances'
  BY <1>3, <1>8 DEF FileRefused, FileAtCJ, FileRecord, ConfirmWrite, Goto, Answer
<1>9. ASSUME NEW c \in Requests,
             RefundRefused(c) \/ RefundRow(c) \/ RefundRowExists(c) \/ Fail(c)
      PROVE  Balances'
  BY <1>3, <1>9 DEF RefundRefused, RefundRow, RefundRowExists, Fail, Goto, Answer
<1>10. ASSUME NEW d \in Hooks, NEW s \in raised, HookClaim(d, s) PROVE Balances'
  BY <1>3, <1>10 DEF HookClaim, HookGoto
<1>11. ASSUME NEW d \in Hooks, HookStep(d) \/ HookFails(d) PROVE Balances'
  BY <1>3, <1>11
     DEF HookStep, HookMark, HookLook, HookAdvance, HookClose, HookSucceeds, HookFails, HookGoto
<1>12. CASE UNCHANGED vars
  BY <1>3, <1>12 DEF vars
<1>13. Reviewed \subseteq Status /\ {"APPROVED", "REJECTED"} \subseteq Status
  BY DEF Reviewed, Status
<1>14. ASSUME NEW c \in Requests, Serve(c) PROVE Balances'
  BY <1>1, <1>2, <1>4, <1>5, <1>6, <1>7, <1>8, <1>9, <1>13, <1>14 DEF Serve
<1> QED
  BY <1>9, <1>10, <1>11, <1>12, <1>14 DEF Act

\* A Refund row is listed the moment it is made, and none is ever deleted.
LEMMA RowsStayListed ==
  Places /\ Places' /\ Backed /\ RowsAreListed /\ (Act \/ UNCHANGED vars) => RowsAreListed'
<1> SUFFICES ASSUME Places, Places', Backed, RowsAreListed, Act \/ UNCHANGED vars
             PROVE  RowsAreListed'
  OBVIOUS
<1> USE DEF Places, Idle, dispute, money, inbox
<1>1. ASSUME NEW c \in Requests, RefundRow(c) PROVE RowsAreListed'
  <2>1. PICK r \in Returns :
          /\ refund' = [refund EXCEPT ![r] = "PENDING"]
          /\ refunds' = Append(refunds, r)
    BY <1>1, JobIsTyped DEF RefundRow
  <2>2. /\ refunds \in Seq(Returns)
        /\ Len(refunds') = Len(refunds) + 1
        /\ \A i \in 1 .. Len(refunds) : refunds'[i] = refunds[i]
        /\ refunds'[Len(refunds) + 1] = r
        /\ DOMAIN refunds = 1 .. Len(refunds)
        /\ DOMAIN refunds' = 1 .. Len(refunds')
    BY <2>1, AppendProperties
  <2>3. Len(refunds) \in Nat
    BY <2>2
  <2>4. ASSUME NEW q \in Returns, refund'[q] # "none"
        PROVE  \E i \in DOMAIN refunds' : refunds'[i] = q
    <3>1. CASE q = r
      <4>1. Len(refunds) + 1 \in 1 .. (Len(refunds) + 1)
        BY <2>3
      <4> QED
        BY <2>2, <3>1, <4>1
    <3>2. CASE q # r
      <4>1. PICK i \in DOMAIN refunds : refunds[i] = q
        BY <2>1, <2>4, <3>2 DEF RowsAreListed
      <4>2. i \in 1 .. Len(refunds) /\ i \in 1 .. (Len(refunds) + 1)
        BY <2>2, <2>3, <4>1
      <4>3. i \in DOMAIN refunds'
        BY <2>2, <4>2
      <4> QED
        BY <2>2, <4>1, <4>2, <4>3
    <3> QED
      BY <3>1, <3>2
  <2> QED
    BY <2>4 DEF RowsAreListed
<1>2. ASSUME UNCHANGED refunds, \A r \in Returns : refund[r] = "none" => refund'[r] = "none"
      PROVE  RowsAreListed'
  BY <1>2 DEF RowsAreListed
<1>3. ASSUME NEW c \in Requests, Serve(c), ~ RefundRow(c) PROVE RowsAreListed'
  BY <1>2, <1>3
     DEF Serve, CreateRead, CreateWrite, CreateLegacy, Review, ReviewLegacy, Read, Write,
         CloseOrder, FileRead, FileRefused, FileAtCJ, FileRecord, ConfirmRead, ConfirmWrite,
         RefundRead, RefundLegacy, RefundAtStripe, RefundRefused, RefundRowExists
<1>4. ASSUME NEW c \in Requests, Fail(c) PROVE RowsAreListed'
  BY <1>2, <1>4 DEF Fail
<1>5. ASSUME NEW d \in Hooks, NEW s \in raised, HookClaim(d, s) PROVE RowsAreListed'
  BY <1>2, <1>5 DEF HookClaim, HookGoto
<1>6. ASSUME NEW d \in Hooks, HookStep(d) \/ HookFails(d) PROVE RowsAreListed'
  BY <1>2, <1>6, HookIsTyped
     DEF HookStep, HookMark, HookLook, HookAdvance, HookClose, HookSucceeds, HookFails,
         HookGoto, Backed, AdvancesAreBacked
<1>7. CASE UNCHANGED vars
  BY <1>2, <1>7 DEF vars
<1> QED
  BY <1>1, <1>3, <1>4, <1>5, <1>6, <1>7 DEF Act

\* A step of a request that makes no Refund and no event, and that writes
\* REFUND_PROCESSING only with a PENDING Refund behind it.
LEMMA PlainRequest ==
  ASSUME Confirmable, WebhookApart', UNCHANGED <<refund, raised, done, hook>>,
         NEW c \in Requests, OthersRest(c),
         job'[c].at # "row",
         job'[c].at = "write" => job'[c].to # "REFUND_PROCESSING",
         \A r \in Returns :
           status'[r] = "REFUND_PROCESSING"
             => status[r] = "REFUND_PROCESSING" \/ refund[r] = "PENDING",
         Places, Places', Balances, Balances'
  PROVE  Confirmable'
<1>1. Waiting' = Waiting /\ Left' = Left /\ Applying' = Applying
  BY DEF Waiting, Left, Past, Applying
<1>2. Owed' \subseteq Owed
  BY DEF Owed, OthersRest
<1>3. Cardinality(Owed') <= Cardinality(Owed)
  BY <1>2, Finite, FS_Subset
<1>4. /\ Cardinality(Waiting) \in Nat /\ Cardinality(Owed) \in Nat
      /\ Cardinality(Left) \in Nat /\ Cardinality(Owed') \in Nat
  <2>1. IsFiniteSet(Owed')
    BY <1>2, Finite, FS_Subset
  <2> QED
    BY <2>1, Finite, FS_CardinalityType
<1>5. Cardinality(Waiting') + Cardinality(Owed') <= Cardinality(Left')
  BY <1>1, <1>3, <1>4 DEF Confirmable
<1>6. \A b \in Requests :
        job'[b].at = "write" /\ job'[b].to = "REFUND_PROCESSING"
          => refund'[job'[b].of] = "PENDING"
  BY DEF Confirmable, OthersRest
<1>7. \A r \in Returns :
        status'[r] = "REFUND_PROCESSING"
          => refund'[r] = "PENDING" \/ \E d \in Hooks : Confirming(d, r)'
  BY DEF Confirmable, Confirming
<1> QED
  BY <1>1, <1>5, <1>6, <1>7 DEF Confirmable

\* While a request is being served no webhook is.
LEMMA ServedAlone ==
  ASSUME Confirmable, NEW c \in Requests, job[c] # Idle
  PROVE  \A d \in Hooks : hook[d] = Idle
BY DEF Confirmable, WebhookApart, Busy, Applying

\* Stripe makes the refund and raises an event for the new balance.
LEMMA StripeConfirmable ==
  ASSUME Places, Places', Balances, Balances', Confirmable, WebhookApart',
         NEW c \in Requests, RefundAtStripe(c), UNCHANGED <<hook, inbox>>
  PROVE  Confirmable'
<1>1. /\ job[c].at = "pay"
      /\ returned' = returned + job[c].n
      /\ raised' = raised \cup {returned'}
      /\ UNCHANGED <<status, refund, done, hook>>
      /\ OthersRest(c)
      /\ job'[c].at = "row"
  BY DEF RefundAtStripe, Goto, OthersRest, inbox, Places
<1>2. \A d \in Hooks : hook[d] = Idle
  BY <1>1, ServedAlone DEF Idle
<1>3. returned' \notin raised
  BY <1>1 DEF Balances, Places
<1>4. Waiting' = Waiting /\ Applying' = Applying /\ Applying = {}
  BY <1>1, <1>2 DEF Waiting, Applying
<1>5. Owed' = Owed \cup {c} /\ c \notin Owed
  BY <1>1 DEF Owed, OthersRest
<1>6. Left' = Left \cup {returned'} /\ returned' \notin Left
  <2>1. Left = raised \ done /\ Left' = raised' \ done
    BY <1>1, <1>2 DEF Left, Past, Idle
  <2>2. returned' \notin done
    BY <1>3 DEF Confirmable
  <2> QED
    BY <1>1, <1>3, <2>1, <2>2
<1>7. /\ Cardinality(Owed') = Cardinality(Owed) + 1
      /\ Cardinality(Left') = Cardinality(Left) + 1
  BY <1>5, <1>6, Finite, FS_AddElement
<1>8. Cardinality(Waiting') + Cardinality(Owed') <= Cardinality(Left')
  BY <1>4, <1>7, Finite DEF Confirmable
<1>9. done' \subseteq raised' /\ \A d \in Applying' : hook'[d].sum \in raised' \ done'
  BY <1>1, <1>4 DEF Confirmable
<1>10. \A b \in Requests :
        job'[b].at = "write" /\ job'[b].to = "REFUND_PROCESSING"
          => refund'[job'[b].of] = "PENDING"
  BY <1>1 DEF Confirmable, OthersRest
<1>11. \A r \in Returns :
        status'[r] = "REFUND_PROCESSING"
          => refund'[r] = "PENDING" \/ \E d \in Hooks : Confirming(d, r)'
  BY <1>1 DEF Confirmable, Confirming
<1> QED
  BY <1>1, <1>8, <1>9, <1>10, <1>11 DEF Confirmable

\* The Refund that was owed is recorded.
LEMMA RowConfirmable ==
  ASSUME Places, Places', Balances, Balances', Confirmable, WebhookApart',
         NEW c \in Requests, RefundRow(c), UNCHANGED <<hook, inbox>>
  PROVE  Confirmable'
<1> DEFINE r == job[c].of
<1>1. /\ r \in Returns /\ job[c].at = "row" /\ refund[r] = "none"
      /\ refund' = [refund EXCEPT ![r] = "PENDING"]
      /\ UNCHANGED <<status, raised, done, hook>>
      /\ OthersRest(c)
      /\ job'[c].at = "write" /\ job'[c].of = r
  BY JobIsTyped DEF RefundRow, Goto, OthersRest, inbox, Places
<1>2. refund'[r] = "PENDING" /\ \A q \in Returns \ {r} : refund'[q] = refund[q]
  BY <1>1 DEF Places
<1>3. Waiting' = Waiting \cup {r} /\ r \notin Waiting
  BY <1>1, <1>2 DEF Waiting
<1>4. Owed' = Owed \ {c} /\ c \in Owed
  BY <1>1 DEF Owed, OthersRest
<1>5. Left' = Left /\ Applying' = Applying
  BY <1>1 DEF Left, Past, Applying
<1>6. /\ Cardinality(Owed') = Cardinality(Owed) - 1
      /\ Cardinality(Waiting') = Cardinality(Waiting) + 1
  BY <1>3, <1>4, Finite, FS_AddElement, FS_RemoveElement
<1>7. Cardinality(Waiting') + Cardinality(Owed') <= Cardinality(Left')
  BY <1>5, <1>6, Finite DEF Confirmable
<1>8. \A q \in Returns : refund[q] = "PENDING" => refund'[q] = "PENDING"
  BY <1>2
<1>9. \A b \in Requests :
        job'[b].at = "write" /\ job'[b].to = "REFUND_PROCESSING"
          => refund'[job'[b].of] = "PENDING"
  <2> SUFFICES ASSUME NEW b \in Requests, job'[b].at = "write",
                      job'[b].to = "REFUND_PROCESSING"
               PROVE  refund'[job'[b].of] = "PENDING"
    OBVIOUS
  <2>1. CASE b = c
    BY <1>1, <1>2, <2>1
  <2>2. CASE b # c
    <3>1. job'[b] = job[b] /\ job[b].of \in Returns
      BY <1>1, <2>2, JobIsTyped DEF OthersRest
    <3> QED
      BY <1>8, <3>1 DEF Confirmable
  <2> QED
    BY <2>1, <2>2
<1>10. \A q \in Returns :
        status'[q] = "REFUND_PROCESSING"
          => refund'[q] = "PENDING" \/ \E d \in Hooks : Confirming(d, q)'
  BY <1>1, <1>8 DEF Confirmable, Confirming
<1>11. \A d \in Hooks :
        hook'[d].at = "mark" => hook'[d].of \in Returns /\ refund'[hook'[d].of] = "PENDING"
  BY <1>1, <1>8 DEF Confirmable
<1> QED
  BY <1>1, <1>5, <1>7, <1>9, <1>10, <1>11 DEF Confirmable

\* A webhook being applied, before or after a step, is the only thing going on.
LEMMA AppliedAlone ==
  ASSUME WebhookApart, NEW d \in Hooks, hook[d] # Idle
  PROVE  /\ \A c \in Requests : job[c] = Idle
         /\ \A e \in Hooks \ {d} : hook[e] = Idle
BY DEF WebhookApart, Busy, Applying

\* A step of webhook d that leaves the Refund rows as they are.
LEMMA PlainWebhook ==
  ASSUME Places, Confirmable, WebhookApart', NEW d \in Hooks, hook[d] # Idle,
         UNCHANGED <<refund, raised, job>>,
         \A e \in Hooks \ {d} : hook'[e] = hook[e],
         \/ /\ Past(d) /\ Past(d)' /\ done' = done /\ hook'[d].sum = hook[d].sum
         \/ /\ Past(d) /\ hook'[d] = Idle /\ done' = done \cup {hook[d].sum},
         hook'[d].at # "mark",
         \A r \in Returns :
           status'[r] = "REFUND_PROCESSING"
             => /\ status[r] = "REFUND_PROCESSING"
                /\ Confirming(d, r) => Confirming(d, r)'
  PROVE  Confirmable'
<1>1. \A e \in Hooks \ {d} : hook[e] = Idle
  BY AppliedAlone DEF Confirmable
<1>2. \A e \in Hooks \ {d} : ~ Past(e) /\ ~ Past(e)'
  BY <1>1 DEF Past, Idle
<1>3. Left = {e \in raised \ done : hook[d].sum # e}
  BY <1>2 DEF Left
<1>4. Left' = Left
  <2>1. CASE Past(d)' /\ done' = done /\ hook'[d].sum = hook[d].sum
    BY <1>2, <1>3, <2>1 DEF Left
  <2>2. CASE hook'[d] = Idle /\ done' = done \cup {hook[d].sum}
    <3>1. ~ Past(d)'
      BY <2>2 DEF Past, Idle
    <3>2. Left' = raised \ done'
      BY <1>2, <3>1 DEF Left
    <3> QED
      BY <1>3, <2>2, <3>2
  <2> QED
    BY <2>1, <2>2
<1>5. Waiting' = Waiting /\ Owed' = Owed
  BY DEF Waiting, Owed
<1>6. /\ done' \subseteq raised'
      /\ \A e \in Applying' : hook'[e].sum \in raised' \ done'
  BY <1>1 DEF Confirmable, Applying, Idle
<1>7. \A e \in Hooks :
        hook'[e].at = "mark" => hook'[e].of \in Returns /\ refund'[hook'[e].of] = "PENDING"
  BY DEF Confirmable
<1>8. \A r \in Returns :
        status'[r] = "REFUND_PROCESSING"
          => refund'[r] = "PENDING" \/ \E e \in Hooks : Confirming(e, r)'
  BY <1>1 DEF Confirmable, Confirming, Idle
<1> QED
  BY <1>4, <1>5, <1>6, <1>7, <1>8 DEF Confirmable

\* A webhook takes the most recent PENDING Refund, or finds that there is none.
LEMMA ClaimConfirmable ==
  ASSUME Places, Places', Balances, Balances', RowsAreListed, Confirmable, WebhookApart',
         NEW d \in Hooks, NEW s \in raised, HookClaim(d, s)
  PROVE  Confirmable'
<1>1. /\ UNCHANGED <<status, refund, raised, job, done>>
      /\ hook[d] = Idle /\ s \in raised \ done
      /\ \/ /\ Pending = {}
            /\ hook' = [hook EXCEPT ![d] = [at |-> "close", sum |-> s]]
         \/ \E i \in Pending :
              hook' = [hook EXCEPT ![d] = [at |-> "mark", sum |-> s, of |-> refunds[i]]]
  BY DEF HookClaim, HookGoto, Inbox!Claim
<1>2. hook'[d] # Idle /\ hook'[d].sum = s
  BY <1>1 DEF Places, Idle
<1>3. /\ \A e \in Hooks \ {d} : hook'[e] = hook[e]
      /\ \A e \in Hooks : hook[e] = Idle
      /\ \A c \in Requests : job[c] = Idle
  <2>1. \A e \in Hooks \ {d} : hook'[e] = hook[e]
    BY <1>1 DEF Places
  <2>2. \A b, c \in Applying' : b = c
    BY DEF WebhookApart
  <2>3. Busy' = {}
    BY <1>2 DEF WebhookApart, Applying
  <2> QED
    BY <1>1, <1>2, <2>1, <2>2, <2>3 DEF Applying, Busy
<1>4. Waiting' = Waiting /\ Owed' = Owed /\ Owed = {}
  BY <1>1, <1>3 DEF Waiting, Owed, Idle
<1>5. ASSUME Pending = {}, hook' = [hook EXCEPT ![d] = [at |-> "close", sum |-> s]]
      PROVE  Confirmable'
  <2>1. Waiting = {}
    BY <1>5 DEF RowsAreListed, Pending, Waiting
  <2>2. Cardinality(Waiting') + Cardinality(Owed') <= Cardinality(Left')
    <3>1. Cardinality(Left') \in Nat
      <4>1. Left' \subseteq Left
        BY <1>1, <1>3 DEF Left, Past, Idle
      <4> QED
        BY <4>1, Finite, FS_Subset, FS_CardinalityType
    <3> QED
      BY <1>4, <2>1, <3>1, FS_EmptySet
  <2>3. \A e \in Hooks : hook'[e].at # "mark"
    BY <1>3, <1>5 DEF Places, Idle
  <2>4. \A r \in Returns : status'[r] # "REFUND_PROCESSING"
    BY <1>1, <1>3, <2>1 DEF Confirmable, Waiting, Confirming, Idle
  <2>5. \A e \in Applying' : hook'[e].sum \in raised' \ done'
    BY <1>1, <1>2, <1>3 DEF Applying
  <2>6. done' \subseteq raised' /\ \A c \in Requests : job'[c].at # "write"
    BY <1>1, <1>3 DEF Confirmable, Idle
  <2> QED
    BY <2>2, <2>3, <2>4, <2>5, <2>6 DEF Confirmable
<1>6. ASSUME NEW i \in Pending,
             hook' = [hook EXCEPT ![d] = [at |-> "mark", sum |-> s, of |-> refunds[i]]]
      PROVE  Confirmable'
  <2>1. refunds[i] \in Returns /\ refund[refunds[i]] = "PENDING"
    BY DEF Pending, Places
  <2>2. hook'[d].at = "mark" /\ hook'[d].of = refunds[i]
    BY <1>6 DEF Places
  <2>3. Left' = Left
    <3>1. \A e \in Hooks : ~ Past(e) /\ ~ Past(e)'
      BY <1>3, <2>2 DEF Past, Idle
    <3> QED
      BY <1>1, <3>1 DEF Left
  <2>4. \A e \in Hooks :
          hook'[e].at = "mark" => hook'[e].of \in Returns /\ refund'[hook'[e].of] = "PENDING"
    BY <1>1, <1>3, <2>1, <2>2 DEF Idle
  <2>5. \A r \in Returns : status'[r] = "REFUND_PROCESSING" => refund'[r] = "PENDING"
    BY <1>1, <1>3 DEF Confirmable, Confirming, Idle
  <2>6. \A e \in Applying' : hook'[e].sum \in raised' \ done'
    BY <1>1, <1>2, <1>3 DEF Applying
  <2>7. done' \subseteq raised' /\ \A c \in Requests : job'[c].at # "write"
    BY <1>1, <1>3 DEF Confirmable, Idle
  <2> QED
    BY <1>4, <2>3, <2>4, <2>5, <2>6, <2>7 DEF Confirmable
<1> QED
  BY <1>1, <1>5, <1>6

\* The Refund is COMPLETED: one PENDING Refund less, one event less.
LEMMA MarkConfirmable ==
  ASSUME Places, Places', Balances, Balances', Confirmable, WebhookApart',
         NEW d \in Hooks, HookMark(d)
  PROVE  Confirmable'
<1> DEFINE r == hook[d].of
           s == hook[d].sum
<1>1. /\ hook[d].at = "mark"
      /\ refund' = [refund EXCEPT ![r] = "COMPLETED"]
      /\ hook' = [hook EXCEPT ![d] = [at |-> "look", sum |-> s, of |-> r]]
      /\ UNCHANGED <<status, raised, done, job>>
  BY DEF HookMark, HookGoto, inbox
<1>2. /\ hook[d] # Idle
      /\ r \in Returns /\ refund[r] = "PENDING"
      /\ s \in raised \ done
  BY <1>1 DEF Confirmable, Applying, Idle
<1>3. /\ \A c \in Requests : job[c] = Idle
      /\ \A e \in Hooks \ {d} : hook[e] = Idle /\ hook'[e] = Idle
  BY <1>1, <1>2, AppliedAlone DEF Confirmable
<1>4. refund'[r] = "COMPLETED" /\ \A q \in Returns \ {r} : refund'[q] = refund[q]
  BY <1>1, <1>2 DEF Places
<1>5. Waiting' = Waiting \ {r} /\ r \in Waiting
  BY <1>2, <1>4 DEF Waiting
<1>6. hook'[d].at = "look" /\ hook'[d].of = r /\ hook'[d].sum = s
  BY <1>1 DEF Places
<1>7. Left' = Left \ {s} /\ s \in Left
  <2>1. ~ Past(d) /\ Past(d)' /\ \A e \in Hooks \ {d} : ~ Past(e) /\ ~ Past(e)'
    BY <1>1, <1>3, <1>6 DEF Past, Idle
  <2>2. Left = raised \ done /\ Left' = {e \in raised \ done : s # e}
    BY <1>1, <1>6, <2>1 DEF Left
  <2> QED
    BY <1>2, <2>2
<1>8. Owed' = Owed
  BY <1>1 DEF Owed
<1>9. /\ Cardinality(Waiting') = Cardinality(Waiting) - 1
      /\ Cardinality(Left') = Cardinality(Left) - 1
  BY <1>5, <1>7, Finite, FS_RemoveElement
<1>10. Cardinality(Waiting') + Cardinality(Owed') <= Cardinality(Left')
  BY <1>8, <1>9, Finite DEF Confirmable
<1>11. \A e \in Applying' : hook'[e].sum \in raised' \ done'
  BY <1>1, <1>2, <1>3, <1>6 DEF Applying
<1>12. /\ done' \subseteq raised'
       /\ \A c \in Requests : job'[c].at # "write"
       /\ \A e \in Hooks : hook'[e].at # "mark"
  BY <1>1, <1>3, <1>6 DEF Confirmable, Idle
<1>13. \A q \in Returns :
        status'[q] = "REFUND_PROCESSING"
          => refund'[q] = "PENDING" \/ \E e \in Hooks : Confirming(e, q)'
  <2> SUFFICES ASSUME NEW q \in Returns, status'[q] = "REFUND_PROCESSING"
               PROVE  refund'[q] = "PENDING" \/ Confirming(d, q)'
    OBVIOUS
  <2>1. CASE q = r
    BY <1>6, <2>1 DEF Confirming
  <2>2. CASE q # r
    <3>1. \A e \in Hooks : ~ Confirming(e, q)
      BY <1>1, <1>3 DEF Confirming, Idle
    <3> QED
      BY <1>1, <1>4, <2>2, <3>1 DEF Confirmable
  <2> QED
    BY <2>1, <2>2
<1> QED
  BY <1>10, <1>11, <1>12, <1>13 DEF Confirmable

\* The rest of a webhook.
LEMMA StepConfirmable ==
  ASSUME Places, Places', Confirmable, WebhookApart',
         NEW d \in Hooks, HookLook(d) \/ HookAdvance(d) \/ HookClose(d) \/ HookSucceeds(d)
  PROVE  Confirmable'
<1> DEFINE s == hook[d].sum
<1>1. /\ hook[d].at \in {"look", "advance", "close", "end"}
      /\ UNCHANGED <<refund, raised, job>>
      /\ \A e \in Hooks \ {d} : hook'[e] = hook[e]
  <2>1. \E step : hook' = [hook EXCEPT ![d] = step]
    BY DEF HookLook, HookAdvance, HookClose, HookSucceeds, HookGoto
  <2> QED
    BY <2>1 DEF HookLook, HookAdvance, HookClose, HookSucceeds, HookGoto, Places
<1>2. Past(d) /\ hook[d] # Idle
  BY <1>1 DEF Past, Idle
<1>3. CASE HookLook(d)
  <2> DEFINE r == hook[d].of
  <2>1. /\ hook[d].at = "look" /\ UNCHANGED <<status, done>>
        /\ \/ /\ status[r] = "REFUND_PROCESSING"
              /\ hook' = [hook EXCEPT ![d] = [at |-> "advance", sum |-> s, of |-> r]]
           \/ /\ status[r] # "REFUND_PROCESSING"
              /\ hook' = [hook EXCEPT ![d] = [at |-> "close", sum |-> s]]
    BY <1>3 DEF HookLook, HookGoto, inbox
  <2>2. hook'[d].sum = s /\ Past(d)' /\ hook'[d].at # "mark"
    BY <2>1 DEF Places, Past
  <2>3. ASSUME NEW q \in Returns, status'[q] = "REFUND_PROCESSING", Confirming(d, q)
        PROVE  Confirming(d, q)'
    BY <2>1, <2>3 DEF Places, Confirming
  <2> QED
    BY <1>1, <1>2, <2>1, <2>2, <2>3, PlainWebhook
<1>4. CASE HookAdvance(d)
  <2> DEFINE r == hook[d].of
  <2>1. /\ hook[d].at = "advance" /\ UNCHANGED done
        /\ status' = [status EXCEPT ![r] = "COMPLETED"]
        /\ hook' = [hook EXCEPT ![d] = [at |-> "close", sum |-> s]]
        /\ r \in Returns
    BY <1>2, <1>4, HookIsTyped DEF HookAdvance, HookGoto, inbox
  <2>2. hook'[d].sum = s /\ Past(d)' /\ hook'[d].at # "mark"
    BY <2>1 DEF Places, Past
  <2>3. ASSUME NEW q \in Returns, status'[q] = "REFUND_PROCESSING"
        PROVE  status[q] = "REFUND_PROCESSING" /\ ~ Confirming(d, q)
    BY <2>1, <2>3 DEF Places, Confirming
  <2> QED
    BY <1>1, <1>2, <2>1, <2>2, <2>3, PlainWebhook
<1>5. CASE HookClose(d)
  <2>1. /\ hook[d].at = "close" /\ UNCHANGED <<status, done>>
        /\ hook' = [hook EXCEPT ![d] = [at |-> "end", sum |-> s]]
    BY <1>5 DEF HookClose, HookGoto, inbox
  <2>2. hook'[d].sum = s /\ Past(d)' /\ hook'[d].at # "mark"
    BY <2>1 DEF Places, Past
  <2>3. \A q \in Returns : ~ Confirming(d, q)
    BY <2>1 DEF Confirming
  <2> QED
    BY <1>1, <1>2, <2>1, <2>2, <2>3, PlainWebhook
<1>6. CASE HookSucceeds(d)
  <2>1. /\ hook[d].at = "end" /\ UNCHANGED status
        /\ hook'[d] = Idle
        /\ done' = done \cup {s}
    BY <1>6 DEF HookSucceeds, HookGoto, Inbox!Settle, Places
  <2>2. hook'[d].at # "mark"
    BY <2>1 DEF Idle
  <2>3. \A q \in Returns : ~ Confirming(d, q)
    BY <2>1 DEF Confirming
  <2> QED
    BY <1>1, <1>2, <2>1, <2>2, <2>3, PlainWebhook
<1> QED
  BY <1>3, <1>4, <1>5, <1>6

LEMMA ConfirmableIsKept ==
  ASSUME Places, Places', Backed, Balances, Balances', RowsAreListed, Confirmable,
         WebhookApart', Act, faults' = faults
  PROVE  Confirmable'
<1> USE DEF Places, Idle, dispute, money, inbox
<1>1. ASSUME NEW c \in Requests, UNCHANGED <<refund, raised, done, hook>>,
             OthersRest(c), job'[c].at # "row",
             job'[c].at = "write" => job'[c].to # "REFUND_PROCESSING",
             UNCHANGED status
      PROVE  Confirmable'
  BY <1>1, PlainRequest
<1>2. ASSUME NEW c \in Requests, NEW r \in Returns, UNCHANGED <<hook, inbox>>,
             CreateWrite(c, r) \/ CreateLegacy(c, r)
      PROVE  Confirmable'
  <2>1. /\ UNCHANGED <<refund, raised, done, hook>>
        /\ OthersRest(c) /\ job'[c].at \notin {"row", "write"}
        /\ \A q \in Returns :
             status'[q] = "REFUND_PROCESSING" => status[q] = "REFUND_PROCESSING"
    BY <1>2 DEF CreateWrite, CreateLegacy, Answer, OthersRest
  <2> QED
    BY <2>1, PlainRequest
<1>3. ASSUME NEW c \in Requests, NEW r \in Returns, NEW at, NEW to, NEW n,
             UNCHANGED <<hook, inbox>>, Read(c, at, r, to, n),
             at # "row", at = "write" => to # "REFUND_PROCESSING"
      PROVE  Confirmable'
  <2>1. /\ UNCHANGED <<status, refund, raised, done, hook>>
        /\ OthersRest(c) /\ job'[c].at = at /\ job'[c].to = to
    BY <1>3 DEF Read, Goto, OthersRest
  <2> QED
    BY <1>1, <1>3, <2>1
<1>4. ASSUME NEW c \in Requests, NEW r \in Returns, UNCHANGED <<hook, inbox>>,
             \/ \E to \in Reviewed : Review(c, r, to)
             \/ \E to \in {"APPROVED", "REJECTED"} : ReviewLegacy(c, r, to)
      PROVE  Confirmable'
  BY <1>3, <1>4 DEF Review, ReviewLegacy, Reviewed
<1>5. ASSUME NEW c \in Requests, NEW r \in Returns, UNCHANGED <<hook, inbox>>,
             \/ FileRead(c, r)
             \/ \E o \in {"APPROVED", "REJECTED"} : ConfirmRead(c, r, o)
             \/ \E n \in Amounts : RefundRead(c, r, n) \/ RefundLegacy(c, r, n)
      PROVE  Confirmable'
  BY <1>3, <1>5 DEF FileRead, ConfirmRead, RefundRead, RefundLegacy
<1>6. ASSUME NEW c \in Requests, UNCHANGED <<hook, inbox>>,
             \/ CreateRead(c) \/ CloseOrder(c) \/ FileRefused(c)
             \/ RefundRefused(c) \/ RefundRowExists(c)
      PROVE  Confirmable'
  <2>1. /\ UNCHANGED <<status, refund, raised, done, hook>>
        /\ OthersRest(c) /\ job'[c].at \notin {"row", "write"}
    BY <1>6 DEF CreateRead, CloseOrder, FileRefused, RefundRefused, RefundRowExists,
                Answer, OthersRest
  <2> QED
    BY <1>1, <2>1
<1>7. ASSUME NEW c \in Requests, UNCHANGED <<hook, inbox>>,
             FileAtCJ(c) \/ FileRecord(c) \/ ConfirmWrite(c)
      PROVE  Confirmable'
  <2>1. job[c].at = "refuse" \/ job[c].to # "REFUND_PROCESSING"
    BY <1>7 DEF FileAtCJ, FileRecord, ConfirmWrite, Backed, WritesAreBacked, Refunded
  <2>2. /\ UNCHANGED <<status, refund, raised, done, hook>>
        /\ OthersRest(c)
        /\ \/ job'[c] = Idle
           \/ job[c].at # "refuse" /\ job'[c].at # "row" /\ job'[c].to = job[c].to
    BY <1>7 DEF FileAtCJ, FileRecord, ConfirmWrite, Goto, Answer, OthersRest
  <2> QED
    BY <1>1, <2>1, <2>2
<1>8. ASSUME NEW c \in Requests, Write(c), UNCHANGED <<hook, inbox>> PROVE Confirmable'
  <2>1. /\ UNCHANGED <<refund, raised, done, hook>>
        /\ OthersRest(c) /\ job'[c].at \notin {"row", "write"}
        /\ job[c].of \in Returns /\ job[c].at = "write"
        /\ status' = [status EXCEPT ![job[c].of] = job[c].to]
    BY <1>8, JobIsTyped DEF Write, Answer, OthersRest
  <2>2. \A r \in Returns :
          status'[r] = "REFUND_PROCESSING"
            => status[r] = "REFUND_PROCESSING" \/ refund[r] = "PENDING"
    BY <2>1 DEF Confirmable
  <2> QED
    BY <2>1, <2>2, PlainRequest
<1>9. ASSUME NEW c \in Requests, Fail(c) PROVE FALSE
  BY <1>9 DEF Fail
<1>10. ASSUME NEW d \in Hooks, NEW s \in raised, HookClaim(d, s) PROVE Confirmable'
  BY <1>10, ClaimConfirmable
<1>11. ASSUME NEW d \in Hooks, HookStep(d) PROVE Confirmable'
  BY <1>11, MarkConfirmable, StepConfirmable DEF HookStep
<1>12. ASSUME NEW d \in Hooks, HookFails(d) PROVE FALSE
  BY <1>12 DEF HookFails
<1>13. ASSUME NEW c \in Requests, Serve(c), UNCHANGED <<hook, inbox>> PROVE Confirmable'
  BY <1>2, <1>4, <1>5, <1>6, <1>7, <1>8, <1>13, StripeConfirmable, RowConfirmable DEF Serve
<1> QED
  BY <1>9, <1>10, <1>11, <1>12, <1>13 DEF Act

LEMMA CalmInvAlways == Spec => []CalmInv
<1>1. Init => CalmInv
  <2> SUFFICES ASSUME Init PROVE CalmInv
    OBVIOUS
  <2>1. Waiting = {} /\ Owed = {} /\ Left = {} /\ Applying = {} /\ Busy = {}
    BY DEF Init, Waiting, Owed, Left, Applying, Busy, Idle
  <2>2. Confirmable
    BY <2>1, FS_EmptySet DEF Init, Confirmable, WebhookApart, Inbox!Init, Idle
  <2> QED
    BY <2>2 DEF Init, CalmInv, Balances, RowsAreListed, Idle
<1>2. Places /\ Places' /\ Backed /\ CalmInv /\ [Next]_vars => CalmInv'
  <2> SUFFICES ASSUME Places, Places', Backed, CalmInv, [Next]_vars PROVE CalmInv'
    OBVIOUS
  <2>1. Balances' /\ RowsAreListed'
    BY NextActs, BalancesAreKept, RowsStayListed DEF CalmInv
  <2>2. ASSUME Calm', Act, quiet' = (quiet /\ WebhookApart') PROVE Confirmable'
    <3>1. faults' = faults /\ Calm /\ WebhookApart'
      BY <2>2, FaultsStay DEF Calm, Places
    <3> QED
      BY <2>1, <2>2, <3>1, ConfirmableIsKept DEF CalmInv
  <2>3. ASSUME Calm', UNCHANGED vars PROVE Confirmable'
    <3>1. Calm /\ Confirmable
      BY <2>3 DEF CalmInv, Calm, vars, history
    <3>2. UNCHANGED <<status, refund, job, hook, raised, done>>
      BY <2>3 DEF vars, money, inbox
    <3> QED
      BY <3>1, <3>2
         DEF Confirmable, WebhookApart, Busy, Applying, Confirming, Waiting, Owed, Left, Past
  <2> QED
    BY <2>1, <2>2, <2>3 DEF CalmInv, Next
<1> QED
  BY <1>1, <1>2, PlacesAlways, BackedAlways, PTL DEF Spec

\* charge.refunded: when webhooks are applied apart from requests and from each other
\* and none fails, every return waits in REFUND_PROCESSING only while an event is
\* still to be applied, however many returns and requests there are.
THEOREM QuietRefundIsConfirmedHolds == Spec => []QuietRefundIsConfirmed
<1>1. Places /\ CalmInv => QuietRefundIsConfirmed
  <2> SUFFICES ASSUME Places, CalmInv, quiet, AtRest, faults = 0,
                      NEW r \in Returns, status[r] = "REFUND_PROCESSING"
               PROVE  FALSE
    BY DEF QuietRefundIsConfirmed, RefundIsConfirmed
  <2>1. Confirmable
    BY DEF CalmInv, Calm
  <2>2. raised \ done = {} /\ Left = {}
    BY DEF AtRest, Left
  <2>3. Cardinality(Waiting) = 0
    BY <2>1, <2>2, Finite, FS_EmptySet DEF Confirmable, CalmInv
  <2>4. Waiting = {}
    BY <2>3, Finite, FS_EmptySet DEF CalmInv
  <2>5. PICK d \in Hooks : Confirming(d, r)
    BY <2>1, <2>4 DEF Confirmable, Waiting
  <2>6. hook[d] # Idle
    BY <2>5 DEF Confirming, Idle
  <2> QED
    BY <2>1, <2>2, <2>6 DEF Confirmable, Applying
<1> QED
  BY <1>1, CalmInvAlways, PlacesAlways, PTL

-----------------------------------------------------------------------------
(***************************************************************************)
(* The file of a return (ReturnFile).  What a request goes on with.        *)
(***************************************************************************)
Bearers == {"CJ", "ADDICTSTYLE"}

Authors == {"CUSTOMER", "ADMIN", "SYSTEM"}

Filing ==
  [is : {"FAILED_TO_SUBMIT", "SUBMITTED", "APPROVED", "REJECTED"},
   known : BOOLEAN, amount : BOOLEAN]

Entry == [from : Status \cup {"none"}, to : Status, by : Authors]

Step ==
       {Vacant}
  \cup [at : {"move"}, of : Cases, to : Status, by : Authors, credit : BOOLEAN]
  \cup [at : {"commit"}, of : Cases, to : Status, by : Authors, credit : BOOLEAN,
        from : Status \cup {"none"}]
  \cup [at : {"book", "file"}, of : Cases]
  \cup [at : {"store"}, of : Cases, was : Accepting]
  \cup [at : {"heard"}, of : Cases, nth : Nat, amount : BOOLEAN]
  \cup [at : {"outcome"}, of : Cases, nth : Nat, to : {"CJ_APPROVED", "CJ_REJECTED"},
        legal : BOOLEAN, amount : BOOLEAN]
  \cup [at : {"refund"}, of : Cases, by : Bearers \cup {"none"}]
  \cup [at : {"bear"}, of : Cases, by : Bearers]
  \cup [at : {"old"}, of : Cases, to : Status]

FileTypeOK ==
  /\ stand \in [Cases -> Status \cup {"none"}]
  /\ trail \in [Cases -> Seq(Entry)]
  /\ filings \in [Cases -> Seq(Filing)]
  /\ bearer \in [Cases -> Bearers \cup {"none"}]
  /\ repaid \subseteq Cases /\ credited \subseteq Cases
  /\ untraced \subseteq Cases /\ unseen \subseteq Cases /\ promised \subseteq Cases
  /\ desk \in [Clerks -> Step]
  /\ slips \in Nat /\ overlaps \in Nat

(***************************************************************************)
(* CJ bears a refund only on its own word: the amount is on a dispute      *)
(* before the return moves on it, the return has moved before the amount   *)
(* is booked, and it is booked before it is read.                          *)
(***************************************************************************)
Named(r) == \E i \in DOMAIN filings[r] : filings[r][i].amount

\* What a request is about to do is vouched for.
Vouched(d) ==
  /\ d.at \in {"move", "commit"} /\ d.credit => Named(d.of)
  /\ d.at = "outcome" /\ d.amount => Named(d.of)
  /\ d.at = "book" => d.of \in promised
  /\ d.at \in {"refund", "bear"} /\ d.by = "CJ" => d.of \in credited

CostInv ==
  /\ \A c \in Clerks : Vouched(desk[c])
  /\ credited \subseteq promised
  /\ \A r \in promised : Named(r)
  /\ \A r \in Cases : bearer[r] = "CJ" => r \in credited

(***************************************************************************)
(* While requests do not overlap, the one being served goes on from the    *)
(* status it has read.                                                     *)
(***************************************************************************)
OneClerk == \A b, c \in Clerks : desk[b] # Vacant /\ desk[c] # Vacant => b = c

MayMove(r, to) == <<stand[r], to>> \in Allowed

Abreast(d) ==
  /\ d # Vacant /\ d.at \notin {"heard", "outcome"} => stand[d.of] # "none"
  /\ d.at = "move" => MayMove(d.of, d.to)
  /\ d.at = "commit" => d.from = stand[d.of] /\ MayMove(d.of, d.to)
  /\ d.at = "store" => stand[d.of] = d.was
  /\ d.at = "file" => MayMove(d.of, "CJ_DISPUTE_SUBMITTED")
  /\ d.at = "outcome" /\ d.legal => MayMove(d.of, d.to)
  /\ d.at = "refund" /\ d.by = "none" => stand[d.of] = "APPROVED"
  /\ (d.at = "refund" /\ d.by # "none") \/ d.at = "bear" => MayMove(d.of, "REFUND_PROCESSING")
  /\ d.at = "old" => stand[d.of] = "PENDING" \/ d.to = "COMPLETED"
  /\ d.at \in {"move", "commit"} /\ d.by = "CUSTOMER"
       => stand[d.of] = "EVIDENCE_REQUIRED" /\ d.to = "UNDER_REVIEW"
  /\ d.at \in {"move", "commit"} /\ d.by = "SYSTEM"
       => d.to = "COMPLETED"
  /\ d.at \in {"move", "commit"} /\ d.credit => d.to = "CJ_APPROVED"
  /\ d.at = "outcome" /\ d.amount => d.to = "CJ_APPROVED"

\* The move of a refund whose bearer is on file is still to be made.
Closing(d, r) == d.at \in {"move", "commit"} /\ d.to = "REFUND_PROCESSING" /\ d.of = r

InStep ==
  /\ OneClerk
  /\ \A c \in Clerks : Abreast(desk[c])
  /\ \A r \in Cases \ untraced : TrailIsWhole(r)

AloneInv == lone => InStep

\* ... and none is cut short: an amount CJ has named is booked before the refund.
Booked ==
  /\ \A r \in Cases :
       bearer[r] # "none" => stand[r] \in Refunded \/ \E c \in Clerks : Closing(desk[c], r)
  /\ \A r \in promised :
       r \in credited \/ \E c \in Clerks : desk[c].at = "book" /\ desk[c].of = r
  /\ \A c \in Clerks :
       desk[c].at \in {"refund", "bear"} /\ desk[c].by = "ADDICTSTYLE"
         => desk[c].of \notin promised
  /\ \A r \in Cases : bearer[r] = "ADDICTSTYLE" => r \notin promised

BookInv == lone /\ slips = 0 => Booked

\* ... and a demand of staff is the last entry until the customer's answer is.
Answering(d, r) == d.at \in {"move", "commit"} /\ d.by = "CUSTOMER" /\ d.of = r

Answered(r) ==
  Demanded(r) =>
    \/ /\ stand[r] = "EVIDENCE_REQUIRED"
       /\ r \in unseen => \E c \in Clerks : Answering(desk[c], r)
    \/ HasNewCustomerEvidence(r)

AnswerInv == lone /\ slips = 0 => \A r \in Cases \ untraced : Answered(r)

LEMMA StepIsTyped ==
  ASSUME NEW d \in Step
  PROVE  /\ d # Vacant => d.of \in Cases
         /\ d.at = "move" => d.to \in Status /\ d.by \in Authors /\ d.credit \in BOOLEAN
         /\ d.at = "commit" => /\ d.to \in Status /\ d.by \in Authors /\ d.credit \in BOOLEAN
                               /\ d.from \in Status \cup {"none"}
         /\ d.at = "store" => d.was \in Accepting
         /\ d.at = "heard" => d.nth \in Nat /\ d.amount \in BOOLEAN
         /\ d.at = "outcome" => /\ d.nth \in Nat /\ d.to \in {"CJ_APPROVED", "CJ_REJECTED"}
                                /\ d.legal \in BOOLEAN /\ d.amount \in BOOLEAN
         /\ d.at = "refund" => d.by \in Bearers \cup {"none"}
         /\ d.at = "bear" => d.by \in Bearers
         /\ d.at = "old" => d.to \in Status
BY DEF Step, Vacant

LEMMA StepsAreBuilt ==
  /\ Vacant \in Step
  /\ \A r \in Cases, to \in Status, by \in Authors, credit \in BOOLEAN :
       /\ Moving(r, to, by, credit) \in Step
       /\ \A from \in Status \cup {"none"} :
            [at |-> "commit", of |-> r, to |-> to, by |-> by, credit |-> credit,
             from |-> from] \in Step
  /\ \A r \in Cases :
       /\ [at |-> "book", of |-> r] \in Step /\ [at |-> "file", of |-> r] \in Step
       /\ \A was \in Accepting : [at |-> "store", of |-> r, was |-> was] \in Step
       /\ \A n \in Nat, amount \in BOOLEAN :
            /\ [at |-> "heard", of |-> r, nth |-> n, amount |-> amount] \in Step
            /\ \A to \in {"CJ_APPROVED", "CJ_REJECTED"}, legal \in BOOLEAN :
                 [at |-> "outcome", of |-> r, nth |-> n, to |-> to, legal |-> legal,
                  amount |-> amount] \in Step
       /\ \A by \in Bearers \cup {"none"} : [at |-> "refund", of |-> r, by |-> by] \in Step
       /\ \A by \in Bearers : [at |-> "bear", of |-> r, by |-> by] \in Step
       /\ \A to \in Status : [at |-> "old", of |-> r, to |-> to] \in Step
<1>1. \A r \in Cases, to \in Status, by \in Authors, credit \in BOOLEAN :
        Moving(r, to, by, credit) \in Step
  BY DEF Step, Moving
<1>2. \A r \in Cases, to \in Status, by \in Authors, credit \in BOOLEAN,
         from \in Status \cup {"none"} :
        [at |-> "commit", of |-> r, to |-> to, by |-> by, credit |-> credit,
         from |-> from] \in Step
  BY DEF Step
<1>3. \A r \in Cases :
        [at |-> "book", of |-> r] \in Step /\ [at |-> "file", of |-> r] \in Step
  BY DEF Step
<1>4. \A r \in Cases, was \in Accepting : [at |-> "store", of |-> r, was |-> was] \in Step
  BY DEF Step
<1>5. \A r \in Cases, n \in Nat, amount \in BOOLEAN :
        [at |-> "heard", of |-> r, nth |-> n, amount |-> amount] \in Step
  BY DEF Step
<1>6. \A r \in Cases, n \in Nat, amount \in BOOLEAN, to \in {"CJ_APPROVED", "CJ_REJECTED"},
         legal \in BOOLEAN :
        [at |-> "outcome", of |-> r, nth |-> n, to |-> to, legal |-> legal,
         amount |-> amount] \in Step
  BY DEF Step
<1>7. \A r \in Cases, by \in Bearers \cup {"none"} :
        [at |-> "refund", of |-> r, by |-> by] \in Step
  BY DEF Step
<1>8. \A r \in Cases, by \in Bearers : [at |-> "bear", of |-> r, by |-> by] \in Step
  BY DEF Step
<1>9. \A r \in Cases, to \in Status : [at |-> "old", of |-> r, to |-> to] \in Step
  BY DEF Step
<1>10. Vacant \in Step
  BY DEF Step
<1> HIDE DEF Step
<1> QED
  BY <1>1, <1>2, <1>3, <1>4, <1>5, <1>6, <1>7, <1>8, <1>9, <1>10

\* A dispute on file that is written over stays one dispute on file.
LEMMA FilingWritten ==
  ASSUME NEW s \in Seq(Filing), NEW n \in Nat, NEW t,
         \/ \E b \in BOOLEAN : t = [s EXCEPT ![n].amount = b]
         \/ \E is \in {"APPROVED", "REJECTED"} : t = [s EXCEPT ![n].is = is]
  PROVE  t \in Seq(Filing) /\ Len(t) = Len(s)
<1>1. CASE n \in DOMAIN s
  <2>1. s[n] \in Filing /\ n \in 1 .. Len(s)
    BY <1>1
  <2>2. PICK e \in Filing : t = [s EXCEPT ![n] = e]
    BY <2>1 DEF Filing
  <2> QED
    BY <2>1, <2>2, ExceptSeq
<1>2. CASE n \notin DOMAIN s
  <2>1. t = s
    BY <1>2
  <2> QED
    BY <2>1
<1> QED
  BY <1>1, <1>2

LEMMA FileTyped == FileSpec => []FileTypeOK
<1>1. FileInit => FileTypeOK
  BY StepsAreBuilt DEF FileInit, FileTypeOK
<1>2. FileTypeOK /\ [FileNext]_fileVars => FileTypeOK'
  <2> SUFFICES ASSUME FileTypeOK, [FileNext]_fileVars PROVE FileTypeOK'
    OBVIOUS
  <2> USE DEF FileTypeOK, papers, costs, memory
  <2>0. overlaps' \in Nat /\ slips' \in Nat
    BY DEF FileNext, fileVars, Slip
  <2>1. ASSUME NEW c \in Clerks, NEW step \in Step, TakeUp(c, step) PROVE FileTypeOK'
    BY <2>0, <2>1 DEF TakeUp
  <2>2. ASSUME NEW c \in Clerks, Begin(c) PROVE FileTypeOK'
    <3>1. desk' \in [Clerks -> Step]
      BY <2>2, StepIsTyped, StepsAreBuilt DEF Begin, Vacant
    <3> QED
      BY <2>0, <2>2, <3>1 DEF Begin
  <2>3. ASSUME NEW c \in Clerks, Commit(c) PROVE FileTypeOK'
    <3> DEFINE d == desk[c]
               e == [from |-> d.from, to |-> d.to, by |-> d.by]
    <3>1. /\ d.of \in Cases /\ d.to \in Status /\ d.by \in Authors
          /\ d.from \in Status \cup {"none"}
      BY <2>3, StepIsTyped DEF Commit, Vacant
    <3>2. e \in Entry
      BY <3>1 DEF Entry
    <3>3. Append(trail[d.of], e) \in Seq(Entry)
      BY <3>1, <3>2, AppendProperties
    <3>4. trail' = [trail EXCEPT ![d.of] = Append(trail[d.of], e)]
      BY <2>3 DEF Commit
    <3>5. trail' \in [Cases -> Seq(Entry)]
      BY <3>3, <3>4
    <3>6. desk' \in [Clerks -> Step]
      <4>1. desk' = [desk EXCEPT ![c] = [at |-> "book", of |-> d.of]]
              \/ desk' = [desk EXCEPT ![c] = Vacant]
        BY <2>3 DEF Commit, Leave
      <4> QED
        BY <3>1, <4>1, StepsAreBuilt
    <3>7. stand' \in [Cases -> Status \cup {"none"}]
      BY <2>3, <3>1 DEF Commit
    <3>8. unseen' \subseteq Cases /\ promised' \subseteq Cases
      BY <2>3, <3>1 DEF Commit
    <3> QED
      BY <2>0, <2>3, <3>5, <3>6, <3>7, <3>8 DEF Commit
  <2>4. ASSUME NEW c \in Clerks, NEW r \in Cases, NEW n \in 0 .. 1, Submit(c, r, n)
        PROVE  FileTypeOK'
    <3>1. [from |-> "none", to |-> "PENDING", by |-> "CUSTOMER"] \in Entry
      BY DEF Entry, Status, Authors
    <3>2. <<[from |-> "none", to |-> "PENDING", by |-> "CUSTOMER"]>> \in Seq(Entry)
      BY <3>1
    <3> QED
      BY <2>0, <2>4, <3>2 DEF Submit, Status
  <2>5. ASSUME NEW c \in Clerks, NEW r \in Cases, SendEvidence(c, r) PROVE FileTypeOK'
    BY <2>1, <2>5, StepsAreBuilt DEF SendEvidence
  <2>6. ASSUME NEW c \in Clerks, StoreEvidence(c) PROVE FileTypeOK'
    <3>1. desk[c].of \in Cases
      BY <2>6, StepIsTyped DEF StoreEvidence, Vacant
    <3>2. desk' \in [Clerks -> Step]
      <4>1. Moving(desk[c].of, "UNDER_REVIEW", "CUSTOMER", FALSE) \in Step
        BY <3>1, StepsAreBuilt DEF Status, Authors
      <4>2. desk' = [desk EXCEPT ![c] = Moving(desk[c].of, "UNDER_REVIEW", "CUSTOMER", FALSE)]
              \/ desk' = [desk EXCEPT ![c] = Vacant]
        BY <2>6 DEF StoreEvidence, Leave
      <4> QED
        BY <4>1, <4>2, StepsAreBuilt
    <3> QED
      BY <2>0, <2>6, <3>1, <3>2 DEF StoreEvidence
  <2>7. ASSUME NEW c \in Clerks, NEW r \in Cases, NEW to \in Reviewed, Decide(c, r, to)
        PROVE  FileTypeOK'
    <3>1. Moving(r, to, "ADMIN", FALSE) \in Step
      BY StepsAreBuilt DEF Status, Reviewed, Authors
    <3> QED
      BY <2>1, <2>7, <3>1 DEF Decide
  <2>8. ASSUME NEW c \in Clerks, NEW r \in Cases,
               FileDispute(c, r) \/ Refresh(c, r) \/ Refund(c, r) \/ RefundOld(c, r)
        PROVE  FileTypeOK'
    <3>1. Latest(r) \in Nat
      BY DEF Latest
    <3> QED
      BY <2>1, <2>8, <3>1, StepsAreBuilt DEF FileDispute, Refresh, Refund, RefundOld, Bearers
  <2>9. ASSUME NEW c \in Clerks, NEW r \in Cases, NEW o \in {"APPROVED", "REJECTED"},
               ConfirmOutcome(c, r, o)
        PROVE  FileTypeOK'
    <3> DEFINE to == IF o = "APPROVED" THEN "CJ_APPROVED" ELSE "CJ_REJECTED"
               amount == o = "APPROVED" /\ filings[r][Latest(r)].amount
    <3>1. Latest(r) \in Nat /\ to \in {"CJ_APPROVED", "CJ_REJECTED"}
          /\ Legal(r, to) \in BOOLEAN /\ amount \in BOOLEAN
      BY DEF Latest, Legal
    <3>2. [at |-> "outcome", of |-> r, nth |-> Latest(r), to |-> to,
           legal |-> Legal(r, to), amount |-> amount] \in Step
      BY <3>1, StepsAreBuilt
    <3>3. TakeUp(c, [at |-> "outcome", of |-> r, nth |-> Latest(r), to |-> to,
                     legal |-> Legal(r, to), amount |-> amount])
      BY <2>9 DEF ConfirmOutcome
    <3> QED
      BY <2>1, <3>2, <3>3
  <2>10. ASSUME NEW c \in Clerks, NEW r \in Cases, Repaid(c, r) PROVE FileTypeOK'
    <3>1. Moving(r, "COMPLETED", "SYSTEM", FALSE) \in Step
      BY StepsAreBuilt DEF Status, Authors
    <3> QED
      BY <2>1, <2>10, <3>1 DEF Repaid
  <2>11. ASSUME NEW c \in Clerks, NEW r \in Cases, NEW to \in {"APPROVED", "REJECTED"},
                DecideOld(c, r, to)
         PROVE  FileTypeOK'
    <3>1. [at |-> "old", of |-> r, to |-> to] \in Step
      BY StepsAreBuilt DEF Status
    <3> QED
      BY <2>1, <2>11, <3>1 DEF DecideOld
  <2>12. ASSUME NEW c \in Clerks, NEW known \in BOOLEAN, NotFiled(c) \/ FiledAtCJ(c, known)
         PROVE  FileTypeOK'
    <3> DEFINE r == desk[c].of
    <3>1. r \in Cases
      <4>1. desk[c].at = "file"
        BY <2>12 DEF NotFiled, FiledAtCJ
      <4> QED
        BY <4>1, StepIsTyped DEF Vacant
    <3>2. PICK f \in Filing : filings' = [filings EXCEPT ![r] = Append(@, f)]
      BY <2>12 DEF NotFiled, FiledAtCJ, Filed, Filing
    <3>3. filings' \in [Cases -> Seq(Filing)]
      BY <3>1, <3>2, AppendProperties
    <3>4. desk' \in [Clerks -> Step]
      <4>1. Moving(r, "CJ_DISPUTE_SUBMITTED", "ADMIN", FALSE) \in Step
        BY <3>1, StepsAreBuilt DEF Status, Authors
      <4> QED
        BY <2>12, <4>1, StepsAreBuilt DEF NotFiled, FiledAtCJ, Leave
    <3> QED
      BY <2>0, <2>12, <3>3, <3>4 DEF NotFiled, FiledAtCJ
  <2>13. ASSUME NEW r \in Cases, NEW says, Rule(r, says) PROVE FileTypeOK'
    BY <2>0, <2>13 DEF Rule
  <2>14. ASSUME NEW c \in Clerks, RefreshWrite(c) PROVE FileTypeOK'
    <3> DEFINE d == desk[c]
               t == [filings[d.of] EXCEPT ![d.nth].amount = @ \/ d.amount]
    <3>1. d.of \in Cases /\ d.nth \in Nat /\ d.amount \in BOOLEAN
      BY <2>14, StepIsTyped DEF RefreshWrite, Vacant
    <3>2. \E b \in BOOLEAN : t = [filings[d.of] EXCEPT ![d.nth].amount = b]
      OBVIOUS
    <3>3. t \in Seq(Filing)
      BY <3>1, <3>2, FilingWritten
    <3>4. filings' = [filings EXCEPT ![d.of] = t]
      BY <2>14 DEF RefreshWrite
    <3>5. filings' \in [Cases -> Seq(Filing)]
      BY <3>1, <3>3, <3>4
    <3>6. desk' \in [Clerks -> Step] /\ UNCHANGED <<stand, trail, evidence, ruling, costs, memory>>
      BY <2>14, StepsAreBuilt DEF RefreshWrite, Leave
    <3> QED
      BY <2>0, <3>3, <3>4, <3>5, <3>6
  <2>15. ASSUME NEW c \in Clerks, OutcomeWrite(c) PROVE FileTypeOK'
    <3> DEFINE d == desk[c]
               is == IF d.to = "CJ_APPROVED" THEN "APPROVED" ELSE "REJECTED"
               t == [filings[d.of] EXCEPT ![d.nth].is = is]
    <3>1. /\ d.of \in Cases /\ d.nth \in Nat /\ d.amount \in BOOLEAN
          /\ d.to \in {"CJ_APPROVED", "CJ_REJECTED"}
      BY <2>15, StepIsTyped DEF OutcomeWrite, Vacant
    <3>2. t \in Seq(Filing)
      BY <3>1, FilingWritten
    <3>3. filings' = [filings EXCEPT ![d.of] = t]
      BY <2>15 DEF OutcomeWrite
    <3>4. desk' \in [Clerks -> Step]
      <4>1. Moving(d.of, d.to, "ADMIN", d.amount) \in Step
        BY <3>1, StepsAreBuilt DEF Status, Authors
      <4>2. desk' = [desk EXCEPT ![c] = Moving(d.of, d.to, "ADMIN", d.amount)]
              \/ desk' = [desk EXCEPT ![c] = Vacant]
        BY <2>15 DEF OutcomeWrite, Leave
      <4> QED
        BY <4>1, <4>2, StepsAreBuilt
    <3>5. filings' \in [Cases -> Seq(Filing)]
      BY <3>1, <3>2, <3>3
    <3>6. UNCHANGED <<stand, trail, evidence, ruling, costs, memory>>
      BY <2>15 DEF OutcomeWrite
    <3> QED
      BY <2>0, <3>4, <3>5, <3>6
  <2>16. ASSUME NEW c \in Clerks, Book(c) PROVE FileTypeOK'
    BY <2>0, <2>16, StepIsTyped, StepsAreBuilt DEF Book, Leave, Vacant
  <2>17. ASSUME NEW c \in Clerks, RefundRecorded(c) PROVE FileTypeOK'
    <3> DEFINE d == desk[c]
    <3>1. d.of \in Cases /\ d.by \in Bearers \cup {"none"}
      BY <2>17, StepIsTyped DEF RefundRecorded, Vacant
    <3>2. desk' \in [Clerks -> Step]
      <4>1. CASE d.of \in repaid
        BY <2>17, <4>1, StepsAreBuilt DEF RefundRecorded
      <4>2. CASE d.of \notin repaid /\ d.by = "none"
        <5>1. [at |-> "old", of |-> d.of, to |-> "COMPLETED"] \in Step
          BY <3>1, StepsAreBuilt DEF Status
        <5> QED
          BY <2>17, <4>2, <5>1 DEF RefundRecorded
      <4>3. CASE d.of \notin repaid /\ d.by # "none"
        <5>1. [at |-> "bear", of |-> d.of, by |-> d.by] \in Step
          BY <3>1, <4>3, StepsAreBuilt
        <5> QED
          BY <2>17, <4>3, <5>1 DEF RefundRecorded
      <4> QED
        BY <4>1, <4>2, <4>3
    <3> QED
      BY <2>0, <2>17, <3>1, <3>2 DEF RefundRecorded
  <2>18. ASSUME NEW c \in Clerks, Bear(c) PROVE FileTypeOK'
    <3>1. desk[c].of \in Cases /\ desk[c].by \in Bearers
      BY <2>18, StepIsTyped DEF Bear, Vacant
    <3>2. Moving(desk[c].of, "REFUND_PROCESSING", "ADMIN", FALSE) \in Step
      BY <3>1, StepsAreBuilt DEF Status, Authors
    <3> QED
      BY <2>0, <2>18, <3>1, <3>2 DEF Bear
  <2>19. ASSUME NEW c \in Clerks, NEW r \in Cases, SubmitOld(c, r) PROVE FileTypeOK'
    BY <2>0, <2>19 DEF SubmitOld, Status
  <2>20. ASSUME NEW c \in Clerks, WriteOld(c) PROVE FileTypeOK'
    BY <2>0, <2>20, StepIsTyped, StepsAreBuilt DEF WriteOld, Leave, Vacant
  <2>21. ASSUME NEW c \in Clerks, Slip(c) PROVE FileTypeOK'
    BY <2>0, <2>21, StepsAreBuilt DEF Slip, Leave
  <2>22. CASE UNCHANGED fileVars
    BY <2>22 DEF fileVars
  <2>23. ASSUME NEW c \in Clerks, Called(c) PROVE FileTypeOK'
    BY <2>23, <2>2, <2>3, <2>4, <2>5, <2>6, <2>7, <2>8, <2>9, <2>10, <2>11, <2>12,
       <2>14, <2>15, <2>16, <2>17, <2>18, <2>19, <2>20
       DEF Called, CustomerCalls, ReviewCalls, SettlementCalls, OldCalls, GoOn
  <2> QED
    BY <2>13, <2>21, <2>22, <2>23 DEF FileNext
<1> QED
  BY <1>1, <1>2, PTL DEF FileSpec

\* An amount CJ has named is never taken back.
LEMMA NamedStays ==
  ASSUME FileTypeOK, [FileNext]_fileVars, NEW r \in Cases, Named(r)
  PROVE  Named(r)'
<1> USE DEF FileTypeOK, papers
<1>1. PICK i \in 1 .. Len(filings[r]) : filings[r][i].amount
  BY DEF Named
<1>2. ASSUME filings'[r] = filings[r] PROVE Named(r)'
  BY <1>2 DEF Named
<1>3. ASSUME NEW q \in Cases, NEW f \in Filing,
             filings' = [filings EXCEPT ![q] = Append(@, f)]
      PROVE  Named(r)'
  <2>1. CASE q = r
    <3>1. filings'[r] = Append(filings[r], f)
      BY <1>3, <2>1
    <3>2. i \in DOMAIN filings'[r] /\ filings'[r][i] = filings[r][i]
      BY <3>1, AppendProperties
    <3> QED
      BY <1>1, <3>2 DEF Named
  <2>2. CASE q # r
    BY <1>2, <1>3, <2>2
  <2> QED
    BY <2>1, <2>2
<1>4. ASSUME NEW c \in Clerks, NotFiled(c) \/ \E known \in BOOLEAN : FiledAtCJ(c, known)
      PROVE  Named(r)'
  <2>1. desk[c].of \in Cases
    <3>1. desk[c].at = "file"
      BY <1>4 DEF NotFiled, FiledAtCJ
    <3> QED
      BY <3>1, StepIsTyped DEF Vacant
  <2>2. PICK f \in Filing : filings' = [filings EXCEPT ![desk[c].of] = Append(@, f)]
    BY <1>4 DEF NotFiled, FiledAtCJ, Filed, Filing
  <2> QED
    BY <1>3, <2>1, <2>2
<1>5. ASSUME NEW c \in Clerks, RefreshWrite(c) PROVE Named(r)'
  <2> DEFINE d == desk[c]
  <2>1. /\ d.of \in Cases /\ d.nth \in Nat /\ d.amount \in BOOLEAN
        /\ filings' = [filings EXCEPT ![d.of][d.nth].amount = @ \/ d.amount]
    BY <1>5, StepIsTyped DEF RefreshWrite, Vacant
  <2>2. CASE d.of = r
    <3>1. filings'[r] = [filings[r] EXCEPT ![d.nth].amount = @ \/ d.amount]
      BY <2>1, <2>2
    <3>2. filings[r][i] \in Filing
      OBVIOUS
    <3>3. i \in DOMAIN filings'[r] /\ filings'[r][i].amount
      BY <1>1, <3>1, <3>2 DEF Filing
    <3> QED
      BY <3>3 DEF Named
  <2>3. CASE d.of # r
    BY <1>2, <2>1, <2>3
  <2> QED
    BY <2>2, <2>3
<1>6. ASSUME NEW c \in Clerks, OutcomeWrite(c) PROVE Named(r)'
  <2> DEFINE d == desk[c]
             is == IF d.to = "CJ_APPROVED" THEN "APPROVED" ELSE "REJECTED"
  <2>1. /\ d.of \in Cases
        /\ filings' = [filings EXCEPT ![d.of][d.nth].is = is]
    BY <1>6, StepIsTyped DEF OutcomeWrite, Vacant
  <2>2. CASE d.of = r
    <3>1. filings'[r] = [filings[r] EXCEPT ![d.nth].is = is]
      BY <2>1, <2>2
    <3>2. filings[r][i] \in Filing
      OBVIOUS
    <3>3. i \in DOMAIN filings'[r] /\ filings'[r][i].amount
      BY <1>1, <3>1, <3>2 DEF Filing
    <3> QED
      BY <3>3 DEF Named
  <2>3. CASE d.of # r
    BY <1>2, <2>1, <2>3
  <2> QED
    BY <2>2, <2>3
<1>7. ASSUME UNCHANGED filings PROVE Named(r)'
  BY <1>2, <1>7
<1>8. ASSUME NEW c \in Clerks, NEW q \in Cases,
             \/ CustomerCalls(c, q) \/ ReviewCalls(c, q) \/ SettlementCalls(c, q)
             \/ OldCalls(c, q) \/ Repaid(c, q)
      PROVE  Named(r)'
  BY <1>7, <1>8
     DEF CustomerCalls, ReviewCalls, SettlementCalls, OldCalls, Submit, SendEvidence, Decide,
         FileDispute, Refresh, ConfirmOutcome, Refund, SubmitOld, DecideOld, RefundOld, Repaid,
         TakeUp
<1>9. ASSUME NEW c \in Clerks,
             \/ StoreEvidence(c) \/ Begin(c) \/ Commit(c) \/ Book(c) \/ RefundRecorded(c)
             \/ Bear(c) \/ WriteOld(c) \/ Slip(c)
      PROVE  Named(r)'
  BY <1>7, <1>9
     DEF StoreEvidence, Begin, Commit, Book, RefundRecorded, Bear, WriteOld, Slip
<1>10. ASSUME NEW q \in Cases, NEW says, Rule(q, says) PROVE Named(r)'
  BY <1>7, <1>10 DEF Rule
<1>11. CASE UNCHANGED fileVars
  BY <1>7, <1>11 DEF fileVars
<1>12. ASSUME NEW c \in Clerks, Called(c) PROVE Named(r)'
  BY <1>4, <1>5, <1>6, <1>8, <1>9, <1>12 DEF Called, GoOn
<1> QED
  BY <1>9, <1>10, <1>11, <1>12 DEF FileNext

\* A step of one request moves on no other.
ClerksRest(c) == \A b \in Clerks \ {c} : desk'[b] = desk[b]

LEMMA CostIsKept ==
  ASSUME FileTypeOK, FileTypeOK', [FileNext]_fileVars, CostInv
  PROVE  CostInv'
<1> USE DEF FileTypeOK, papers, costs, memory
<1>1. \A r \in Cases : Named(r) => Named(r)'
  BY NamedStays
<1>2. ASSUME NEW c \in Clerks, ClerksRest(c), promised \subseteq promised',
             credited \subseteq credited', Vouched(desk[c])',
             credited' \subseteq promised', \A r \in promised' \ promised : Named(r)',
             \A r \in Cases : bearer'[r] = "CJ" => r \in credited'
      PROVE  CostInv'
  <2>1. ASSUME NEW b \in Clerks, b # c PROVE Vouched(desk[b])'
    <3>1. desk'[b] = desk[b] /\ Vouched(desk[b])
      BY <1>2, <2>1 DEF ClerksRest, CostInv
    <3>2. desk[b] # Vacant => desk[b].of \in Cases
      BY StepIsTyped
    <3>3. desk[b] = Vacant => Vouched(desk[b])'
      BY <3>1 DEF Vouched, Vacant
    <3>4. desk[b] # Vacant => Vouched(desk[b])'
      BY <1>1, <1>2, <3>1, <3>2 DEF Vouched
    <3> QED
      BY <3>3, <3>4
  <2>2. \A r \in promised' : Named(r)'
    BY <1>1, <1>2 DEF CostInv
  <2> QED
    BY <1>2, <2>1, <2>2 DEF CostInv
<1>3. ASSUME NEW c \in Clerks, ClerksRest(c), UNCHANGED <<credited, promised, bearer>>,
             Vouched(desk[c])'
      PROVE  CostInv'
  BY <1>2, <1>3 DEF CostInv
<1>4. ASSUME NEW c \in Clerks, NEW step, TakeUp(c, step), Vouched(step)
      PROVE  CostInv'
  <2>1. ClerksRest(c) /\ desk'[c] = step /\ UNCHANGED <<credited, promised, bearer, filings>>
    BY <1>4 DEF TakeUp, ClerksRest
  <2>2. Vouched(desk[c])'
    BY <1>4, <2>1 DEF Vouched, Named
  <2> QED
    BY <1>3, <2>1, <2>2

<1>5. ASSUME NEW c \in Clerks, NEW r \in Cases,
             SendEvidence(c, r) \/ FileDispute(c, r) \/ Refresh(c, r) \/ RefundOld(c, r)
      PROVE  CostInv'
  <2>1. ASSUME SendEvidence(c, r) PROVE CostInv'
    <3>1. Vouched([at |-> "store", of |-> r, was |-> stand[r]])
      BY DEF Vouched
    <3> QED
      BY <1>4, <2>1, <3>1 DEF SendEvidence
  <2>2. ASSUME FileDispute(c, r) PROVE CostInv'
    <3>1. Vouched([at |-> "file", of |-> r])
      BY DEF Vouched
    <3> QED
      BY <1>4, <2>2, <3>1 DEF FileDispute
  <2>3. ASSUME Refresh(c, r) PROVE CostInv'
    <3>1. \A n, amount : Vouched([at |-> "heard", of |-> r, nth |-> n, amount |-> amount])
      BY DEF Vouched
    <3> QED
      BY <1>4, <2>3, <3>1 DEF Refresh
  <2>4. ASSUME RefundOld(c, r) PROVE CostInv'
    <3>1. Vouched([at |-> "refund", of |-> r, by |-> "none"])
      BY DEF Vouched
    <3> QED
      BY <1>4, <2>4, <3>1 DEF RefundOld
  <2> QED
    BY <1>5, <2>1, <2>2, <2>3, <2>4
<1>6. ASSUME NEW c \in Clerks, NEW r \in Cases, NEW to, NEW by,
             TakeUp(c, Moving(r, to, by, FALSE))
      PROVE  CostInv'
  BY <1>4, <1>6 DEF Vouched, Moving
<1>7. ASSUME NEW c \in Clerks, NEW r \in Cases, NEW to, DecideOld(c, r, to) PROVE CostInv'
  BY <1>4, <1>7 DEF DecideOld, Vouched
<1>8. ASSUME NEW c \in Clerks, NEW r \in Cases, NEW o, ConfirmOutcome(c, r, o)
      PROVE  CostInv'
  <2> DEFINE amount == o = "APPROVED" /\ filings[r][Latest(r)].amount
  <2> DEFINE to == IF o = "APPROVED" THEN "CJ_APPROVED" ELSE "CJ_REJECTED"
             step == [at |-> "outcome", of |-> r, nth |-> Latest(r), to |-> to,
                      legal |-> Legal(r, to), amount |-> amount]
  <2>1. TakeUp(c, step)
    BY <1>8 DEF ConfirmOutcome
  <2>2. Latest(r) \in DOMAIN filings[r]
    BY <1>8 DEF ConfirmOutcome, Latest
  <2>3. amount => Named(r)
    BY <2>2 DEF Named
  <2>4. Vouched(step)
    BY <2>3 DEF Vouched
  <2> QED
    BY <1>4, <2>1, <2>4
<1>9. ASSUME NEW c \in Clerks, NEW r \in Cases, Refund(c, r) PROVE CostInv'
  <2> DEFINE by == IF r \in credited THEN "CJ" ELSE "ADDICTSTYLE"
             step == [at |-> "refund", of |-> r, by |-> by]
  <2>1. TakeUp(c, step)
    BY <1>9 DEF Refund
  <2>2. Vouched(step)
    BY DEF Vouched
  <2> QED
    BY <1>4, <2>1, <2>2
<1>10. ASSUME NEW c \in Clerks, Begin(c) PROVE CostInv'
  <2>1. /\ ClerksRest(c) /\ UNCHANGED <<credited, promised, bearer, filings>>
        /\ desk[c].at = "move"
        /\ desk'[c].at = "commit" /\ desk'[c].of = desk[c].of
        /\ desk'[c].credit = desk[c].credit
    BY <1>10 DEF Begin, ClerksRest
  <2>2. Vouched(desk[c])
    BY DEF CostInv
  <2>3. Vouched(desk[c])'
    BY <2>1, <2>2 DEF Vouched, Named
  <2> QED
    BY <1>3, <2>1, <2>3
<1>11. ASSUME NEW c \in Clerks, Commit(c) PROVE CostInv'
  <2> DEFINE r == desk[c].of
  <2>1. /\ ClerksRest(c) /\ UNCHANGED <<credited, bearer, filings>>
        /\ r \in Cases /\ desk[c].credit \in BOOLEAN
        /\ desk[c].at = "commit"
        /\ promised' = IF desk[c].credit THEN promised \cup {r} ELSE promised
        /\ desk'[c] = IF desk[c].credit THEN [at |-> "book", of |-> r] ELSE Vacant
    BY <1>11, StepIsTyped DEF Commit, Leave, ClerksRest, Vacant
  <2>2. desk[c].credit => Named(r)
    BY <2>1 DEF CostInv, Vouched
  <2>3. Vouched(desk[c])'
    BY <2>1 DEF Vouched, Vacant
  <2>4. \A q \in promised' \ promised : Named(q)'
    BY <2>1, <2>2, <1>1
  <2> QED
    BY <1>2, <2>1, <2>3, <2>4 DEF CostInv
<1>12. ASSUME NEW c \in Clerks, NEW r \in Cases,
              (\E n \in 0 .. 1 : Submit(c, r, n)) \/ SubmitOld(c, r)
       PROVE  CostInv'
  <2>1. UNCHANGED <<credited, promised, bearer, filings, desk>>
    BY <1>12 DEF Submit, SubmitOld
  <2> QED
    BY <2>1 DEF CostInv, Vouched, Named
<1>13. ASSUME NEW c \in Clerks, StoreEvidence(c) \/ Slip(c) \/ WriteOld(c) PROVE CostInv'
  <2>1. /\ ClerksRest(c) /\ UNCHANGED <<credited, promised, bearer>>
        /\ \/ desk'[c] = Vacant
           \/ desk'[c] = Moving(desk[c].of, "UNDER_REVIEW", "CUSTOMER", FALSE)
    BY <1>13 DEF StoreEvidence, Slip, WriteOld, Leave, ClerksRest
  <2>2. Vouched(desk[c])'
    BY <2>1 DEF Vouched, Vacant, Moving
  <2> QED
    BY <1>3, <2>1, <2>2
<1>14. ASSUME NEW c \in Clerks, NEW known \in BOOLEAN,
              NotFiled(c) \/ FiledAtCJ(c, known) \/ RefreshWrite(c)
       PROVE  CostInv'
  <2>1. /\ ClerksRest(c) /\ UNCHANGED <<credited, promised, bearer>>
        /\ \/ desk'[c] = Vacant
           \/ desk'[c] = Moving(desk[c].of, "CJ_DISPUTE_SUBMITTED", "ADMIN", FALSE)
    BY <1>14 DEF NotFiled, FiledAtCJ, RefreshWrite, Leave, ClerksRest
  <2>2. Vouched(desk[c])'
    BY <2>1 DEF Vouched, Vacant, Moving
  <2> QED
    BY <1>3, <2>1, <2>2
<1>15. ASSUME NEW c \in Clerks, OutcomeWrite(c) PROVE CostInv'
  <2> DEFINE d == desk[c]
  <2>1. /\ ClerksRest(c) /\ UNCHANGED <<credited, promised, bearer>>
        /\ desk'[c] = Vacant \/ desk'[c] = Moving(d.of, d.to, "ADMIN", d.amount)
        /\ d.at = "outcome" /\ d.of \in Cases
    BY <1>15, StepIsTyped DEF OutcomeWrite, Leave, ClerksRest, Vacant
  <2>2. PICK r \in Cases : r = d.of
    BY <2>1
  <2>3. d.amount => Named(r)'
    <3>1. Vouched(d)
      BY DEF CostInv
    <3>2. d.amount => Named(r)
      BY <2>1, <2>2, <3>1 DEF Vouched
    <3> QED
      BY <3>2, <1>1
  <2>4. CASE desk'[c] = Vacant
    <3>1. Vouched(desk[c])'
      BY <2>4 DEF Vouched, Vacant
    <3> QED
      BY <1>3, <2>1, <3>1
  <2>5. CASE desk'[c] = Moving(r, d.to, "ADMIN", d.amount)
    <3>1. /\ desk'[c].at = "move" /\ desk'[c].of = r /\ desk'[c].credit = d.amount
      BY <2>5 DEF Moving
    <3>2. Vouched(desk[c])'
      BY <2>3, <3>1 DEF Vouched
    <3> QED
      BY <1>3, <2>1, <3>2
  <2> QED
    BY <2>1, <2>2, <2>4, <2>5
<1>16. ASSUME NEW c \in Clerks, Book(c) PROVE CostInv'
  <2>1. /\ ClerksRest(c) /\ UNCHANGED <<promised, bearer>>
        /\ desk'[c] = Vacant /\ desk[c].at = "book"
        /\ credited' = credited \cup {desk[c].of}
    BY <1>16 DEF Book, Leave, ClerksRest
  <2>2. desk[c].of \in promised
    BY <2>1 DEF CostInv, Vouched
  <2>3. Vouched(desk[c])'
    BY <2>1 DEF Vouched, Vacant
  <2> QED
    BY <1>2, <2>1, <2>2, <2>3 DEF CostInv
<1>17. ASSUME NEW c \in Clerks, RefundRecorded(c) PROVE CostInv'
  <2> DEFINE d == desk[c]
  <2>1. /\ ClerksRest(c) /\ UNCHANGED <<credited, promised, bearer>>
        /\ d.at = "refund"
        /\ \/ desk'[c] = Vacant
           \/ desk'[c] = [at |-> "old", of |-> d.of, to |-> "COMPLETED"]
           \/ desk'[c] = [at |-> "bear", of |-> d.of, by |-> d.by]
    BY <1>17 DEF RefundRecorded, ClerksRest
  <2>2. d.by = "CJ" => d.of \in credited
    BY <2>1 DEF CostInv, Vouched
  <2>3. Vouched(desk[c])'
    BY <2>1, <2>2 DEF Vouched, Vacant
  <2> QED
    BY <1>3, <2>1, <2>3
<1>18. ASSUME NEW c \in Clerks, Bear(c) PROVE CostInv'
  <2> DEFINE d == desk[c]
  <2>1. /\ ClerksRest(c) /\ UNCHANGED <<credited, promised>>
        /\ d.at = "bear" /\ d.of \in Cases
        /\ bearer' = [bearer EXCEPT ![d.of] = d.by]
        /\ desk'[c] = Moving(d.of, "REFUND_PROCESSING", "ADMIN", FALSE)
    BY <1>18, StepIsTyped DEF Bear, ClerksRest, Vacant
  <2>2. d.by = "CJ" => d.of \in credited
    BY <2>1 DEF CostInv, Vouched
  <2>3. Vouched(desk[c])'
    BY <2>1 DEF Vouched, Moving
  <2>4. \A r \in Cases : bearer'[r] = "CJ" => r \in credited'
    BY <2>1, <2>2 DEF CostInv
  <2> QED
    BY <1>2, <2>1, <2>3, <2>4 DEF CostInv
<1>19. ASSUME NEW r \in Cases, NEW says, Rule(r, says) PROVE CostInv'
  <2>1. UNCHANGED <<credited, promised, bearer, filings, desk>>
    BY <1>19 DEF Rule
  <2> QED
    BY <2>1 DEF CostInv, Vouched, Named
<1>20. CASE UNCHANGED fileVars
  BY <1>20 DEF fileVars, CostInv, Vouched, Named
<1>21. ASSUME NEW c \in Clerks, Called(c) PROVE CostInv'
  <2>1. ASSUME NEW r \in Cases, ReviewCalls(c, r) \/ Repaid(c, r) PROVE CostInv'
    BY <2>1, <1>6 DEF ReviewCalls, Decide, Repaid
  <2>2. ASSUME NEW r \in Cases, CustomerCalls(c, r) \/ SettlementCalls(c, r) \/ OldCalls(c, r)
        PROVE  CostInv'
    BY <2>2, <1>5, <1>7, <1>8, <1>9, <1>12 DEF CustomerCalls, SettlementCalls, OldCalls
  <2>3. ASSUME GoOn(c) PROVE CostInv'
    BY <2>3, <1>10, <1>11, <1>13, <1>14, <1>15, <1>16, <1>17, <1>18 DEF GoOn
  <2> QED
    BY <1>21, <2>1, <2>2, <2>3 DEF Called
<1> QED
  BY <1>13, <1>19, <1>20, <1>21 DEF FileNext

LEMMA CostInvAlways == FileSpec => []CostInv
<1>1. FileInit => CostInv
  BY DEF FileInit, CostInv, Vouched, Vacant
<1> QED
  BY <1>1, CostIsKept, FileTyped, PTL DEF FileSpec

\* Requests that have not overlapped so far had not before, and a request is taken
\* up only when nobody is served.
LEMMA LoneSoFar ==
  ASSUME FileTypeOK, FileNext, lone'
  PROVE  lone /\ (Taken => Resting)
BY DEF FileTypeOK, FileNext, lone

\* What a clerk being served, or the first one to be, has around it.
LEMMA AtWorkAlone ==
  ASSUME OneClerk, NEW c \in Clerks, ClerksRest(c), desk[c] # Vacant \/ Resting
  PROVE  /\ \A b \in Clerks \ {c} : desk[b] = Vacant /\ desk'[b] = Vacant
         /\ OneClerk'
BY DEF OneClerk, ClerksRest, Resting

LEMMA VacantIsAbreast == Abreast(Vacant) /\ \A c \in Clerks : desk'[c] = Vacant => Abreast(desk[c])'
BY DEF Abreast, Vacant

\* A step of the one clerk at work that leaves the trails alone.
LEMMA WorkInStep ==
  ASSUME InStep, NEW c \in Clerks, ClerksRest(c), desk[c] # Vacant \/ Resting,
         Abreast(desk[c])', UNCHANGED trail,
         \A r \in Cases : r \in untraced \/ stand'[r] = stand[r] \/ r \in untraced',
         untraced \subseteq untraced'
  PROVE  InStep'
<1>1. OneClerk' /\ \A b \in Clerks \ {c} : desk'[b] = Vacant
  BY AtWorkAlone DEF InStep
<1>2. \A b \in Clerks : Abreast(desk[b])'
  BY <1>1, VacantIsAbreast
<1>3. \A r \in Cases \ untraced' : TrailIsWhole(r)'
  BY DEF InStep, TrailIsWhole
<1> QED
  BY <1>1, <1>2, <1>3 DEF InStep

LEMMA InStepIsKept ==
  ASSUME FileTypeOK, FileTypeOK', FileNext, lone', InStep
  PROVE  InStep'
<1> USE DEF FileTypeOK, papers, costs, memory
<1>1. lone /\ (Taken => Resting)
  BY LoneSoFar
<1>2. ASSUME NEW c \in Clerks, NEW step, TakeUp(c, step), step # Vacant, Abreast(step)
      PROVE  InStep'
  <2>1. ClerksRest(c) /\ desk'[c] = step /\ UNCHANGED <<stand, trail, untraced>>
    BY <1>2 DEF TakeUp, ClerksRest
  <2>2. Resting
    BY <1>1, <1>2, <2>1 DEF Taken, TakeUp
  <2>3. Abreast(desk[c])'
    BY <1>2, <2>1 DEF Abreast, MayMove
  <2> QED
    BY <2>1, <2>2, <2>3, WorkInStep
<1>3. ASSUME NEW c \in Clerks, NEW r \in Cases, SendEvidence(c, r) PROVE InStep'
  <2>1. Abreast([at |-> "store", of |-> r, was |-> stand[r]])
    BY <1>3 DEF Abreast, SendEvidence, Accepting
  <2>2. [at |-> "store", of |-> r, was |-> stand[r]] # Vacant
    BY DEF Vacant
  <2> QED
    BY <1>2, <1>3, <2>1, <2>2 DEF SendEvidence
<1>4. ASSUME NEW c \in Clerks, NEW r \in Cases, NEW to \in Reviewed, Decide(c, r, to)
      PROVE  InStep'
  <2>1. Abreast(Moving(r, to, "ADMIN", FALSE)) /\ Moving(r, to, "ADMIN", FALSE) # Vacant
    BY <1>4 DEF Abreast, Decide, Moving, Legal, MayMove, Allowed, Vacant
  <2> QED
    BY <1>2, <1>4, <2>1 DEF Decide
<1>5. ASSUME NEW c \in Clerks, NEW r \in Cases, FileDispute(c, r) PROVE InStep'
  <2>1. Abreast([at |-> "file", of |-> r]) /\ [at |-> "file", of |-> r] # Vacant
    BY <1>5 DEF Abreast, FileDispute, Legal, MayMove, Allowed, Vacant
  <2> QED
    BY <1>2, <1>5, <2>1 DEF FileDispute
<1>6. ASSUME NEW c \in Clerks, NEW r \in Cases, Refresh(c, r) PROVE InStep'
  <2>1. \A n, amount : LET d == [at |-> "heard", of |-> r, nth |-> n, amount |-> amount]
                       IN  Abreast(d) /\ d # Vacant
    BY DEF Abreast, Vacant
  <2> QED
    BY <1>2, <1>6, <2>1 DEF Refresh
<1>7. ASSUME NEW c \in Clerks, NEW r \in Cases, NEW o \in {"APPROVED", "REJECTED"},
             ConfirmOutcome(c, r, o)
      PROVE  InStep'
  <2> DEFINE to == IF o = "APPROVED" THEN "CJ_APPROVED" ELSE "CJ_REJECTED"
             amount == o = "APPROVED" /\ filings[r][Latest(r)].amount
             step == [at |-> "outcome", of |-> r, nth |-> Latest(r), to |-> to,
                      legal |-> Legal(r, to), amount |-> amount]
  <2>1. TakeUp(c, step)
    BY <1>7 DEF ConfirmOutcome
  <2>2. Abreast(step) /\ step # Vacant
    BY DEF Abreast, Legal, MayMove, Vacant
  <2> QED
    BY <1>2, <2>1, <2>2
<1>8. ASSUME NEW c \in Clerks, NEW r \in Cases, Refund(c, r) PROVE InStep'
  <2> DEFINE by == IF r \in credited THEN "CJ" ELSE "ADDICTSTYLE"
             step == [at |-> "refund", of |-> r, by |-> by]
  <2>1. TakeUp(c, step)
    BY <1>8 DEF Refund
  <2>2. Abreast(step) /\ step # Vacant
    BY <1>8 DEF Refund, Abreast, Legal, MayMove, Allowed, Vacant
  <2> QED
    BY <1>2, <2>1, <2>2
<1>9. ASSUME NEW c \in Clerks, NEW r \in Cases, RefundOld(c, r) PROVE InStep'
  <2>1. LET d == [at |-> "refund", of |-> r, by |-> "none"] IN Abreast(d) /\ d # Vacant
    BY <1>9 DEF RefundOld, Abreast, Vacant
  <2> QED
    BY <1>2, <1>9, <2>1 DEF RefundOld
<1>10. ASSUME NEW c \in Clerks, NEW r \in Cases, Repaid(c, r) PROVE InStep'
  <2>1. LET d == Moving(r, "COMPLETED", "SYSTEM", FALSE) IN Abreast(d) /\ d # Vacant
    BY <1>10 DEF Repaid, Abreast, Moving, MayMove, Allowed, Vacant
  <2> QED
    BY <1>2, <1>10, <2>1 DEF Repaid
<1>11. ASSUME NEW c \in Clerks, NEW r \in Cases, NEW to \in {"APPROVED", "REJECTED"},
              DecideOld(c, r, to)
       PROVE  InStep'
  <2>1. LET d == [at |-> "old", of |-> r, to |-> to] IN Abreast(d) /\ d # Vacant
    BY <1>11 DEF DecideOld, Abreast, Vacant
  <2> QED
    BY <1>2, <1>11, <2>1 DEF DecideOld
<1>12. ASSUME NEW c \in Clerks, NEW r \in Cases,
              (\E n \in 0 .. 1 : Submit(c, r, n)) \/ SubmitOld(c, r)
       PROVE  InStep'
  <2>1. /\ desk' = desk /\ untraced \subseteq untraced'
        /\ stand[r] = "none" /\ stand' = [stand EXCEPT ![r] = "PENDING"]
        /\ \A q \in Cases \ {r} : stand'[q] = stand[q] /\ trail'[q] = trail[q]
    BY <1>12 DEF Submit, SubmitOld
  <2>2. ASSUME NEW b \in Clerks PROVE Abreast(desk[b])'
    <3>1. Abreast(desk[b])
      BY DEF InStep
    <3>2. desk[b] # Vacant => desk[b].of \in Cases
      BY StepIsTyped
    <3>3. CASE desk[b] = Vacant
      BY <2>1, <3>3, VacantIsAbreast
    <3>4. CASE desk[b] # Vacant /\ desk[b].of # r
      <4>1. stand'[desk[b].of] = stand[desk[b].of]
        BY <2>1, <3>2, <3>4
      <4>2. desk'[b] = desk[b] /\ \A to : MayMove(desk[b].of, to)' <=> MayMove(desk[b].of, to)
        BY <2>1, <4>1 DEF MayMove
      <4> QED
        BY <3>1, <4>1, <4>2 DEF Abreast
    <3>5. CASE desk[b] # Vacant /\ desk[b].of = r
      <4>1. desk[b].at = "heard" \/ (desk[b].at = "outcome" /\ ~ desk[b].legal)
        BY <2>1, <3>1, <3>5, StepIsTyped DEF Abreast, MayMove, Allowed
      <4>2. desk[b].at = "outcome" /\ desk[b].amount => desk[b].to = "CJ_APPROVED"
        BY <3>1 DEF Abreast
      <4> QED
        BY <2>1, <3>5, <4>1, <4>2 DEF Abreast
    <3> QED
      BY <3>3, <3>4, <3>5
  <2>3. ASSUME NEW q \in Cases \ untraced' PROVE TrailIsWhole(q)'
    <3>1. CASE q = r
      <4>1. /\ stand'[r] = "PENDING"
            /\ trail'[r] = <<[from |-> "none", to |-> "PENDING", by |-> "CUSTOMER"]>>
        BY <1>12, <2>3, <3>1 DEF Submit, SubmitOld
      <4> QED
        BY <3>1, <4>1 DEF TrailIsWhole
    <3>2. CASE q # r
      <4>1. TrailIsWhole(q) /\ stand'[q] = stand[q] /\ trail'[q] = trail[q]
        BY <2>1, <2>3, <3>2 DEF InStep
      <4> QED
        BY <4>1 DEF TrailIsWhole
    <3> QED
      BY <3>1, <3>2
  <2>4. OneClerk'
    BY <2>1 DEF InStep, OneClerk
  <2> QED
    BY <2>2, <2>3, <2>4 DEF InStep

<1>13. ASSUME NEW c \in Clerks, desk[c] # Vacant, ClerksRest(c), desk'[c] = Vacant,
              UNCHANGED <<stand, trail, untraced>>
       PROVE  InStep'
  BY <1>13, VacantIsAbreast, WorkInStep
<1>14. ASSUME NEW c \in Clerks, Begin(c) PROVE InStep'
  <2> DEFINE d == desk[c]
  <2>1. /\ d.at = "move" /\ d # Vacant /\ d.of \in Cases /\ ClerksRest(c)
        /\ UNCHANGED <<stand, trail, untraced>>
        /\ desk'[c] = [at |-> "commit", of |-> d.of, to |-> d.to, by |-> d.by,
                       credit |-> d.credit, from |-> stand[d.of]]
    BY <1>14, StepIsTyped DEF Begin, ClerksRest, Vacant
  <2>2. Abreast(d)
    BY DEF InStep
  <2>3. Abreast(desk[c])'
    BY <2>1, <2>2 DEF Abreast, MayMove, Vacant
  <2> QED
    BY <2>1, <2>3, WorkInStep
<1>15. ASSUME NEW c \in Clerks, Commit(c) PROVE InStep'
  <2> DEFINE d == desk[c]
             r == d.of
             e == [from |-> d.from, to |-> d.to, by |-> d.by]
  <2>1. /\ d.at = "commit" /\ d # Vacant /\ r \in Cases /\ ClerksRest(c)
        /\ d.to \in Status
        /\ untraced' = untraced
        /\ stand' = [stand EXCEPT ![r] = d.to]
        /\ trail' = [trail EXCEPT ![r] = Append(trail[r], e)]
        /\ desk'[c] = Vacant \/ desk'[c] = [at |-> "book", of |-> r]
    BY <1>15, StepIsTyped DEF Commit, Leave, ClerksRest, Vacant
  <2>2. /\ d.from = stand[r] /\ MayMove(r, d.to) /\ stand[r] # "none"
    BY <2>1 DEF InStep, Abreast
  <2>3. OneClerk' /\ \A b \in Clerks \ {c} : desk'[b] = Vacant
    BY <2>1, AtWorkAlone DEF InStep
  <2>4. Abreast(desk[c])'
    <3>1. CASE desk'[c] = [at |-> "book", of |-> r]
      <4>1. stand'[r] # "none"
        BY <2>1 DEF Status
      <4> QED
        BY <3>1, <4>1 DEF Abreast, Vacant
    <3> QED
      BY <2>1, <3>1, VacantIsAbreast
  <2>5. \A b \in Clerks : Abreast(desk[b])'
    BY <2>3, <2>4, VacantIsAbreast
  <2>6. ASSUME NEW q \in Cases \ untraced' PROVE TrailIsWhole(q)'
    <3>1. CASE q # r
      <4>1. TrailIsWhole(q) /\ stand'[q] = stand[q] /\ trail'[q] = trail[q]
        BY <2>1, <2>6, <3>1 DEF InStep
      <4> QED
        BY <4>1 DEF TrailIsWhole
    <3>2. CASE q = r
      <4> DEFINE t == trail[r]
                 u == trail'[r]
      <4>1. /\ t # <<>> /\ t[1].to = "PENDING"
            /\ stand[r] = t[Len(t)].to
            /\ \A i \in 2 .. Len(t) :
                 t[i].from = t[i - 1].to /\ <<t[i].from, t[i].to>> \in Allowed
        BY <2>1, <2>2, <3>2 DEF InStep, TrailIsWhole
      <4>2. t \in Seq(Entry) /\ e \in Entry /\ u = Append(t, e)
        <5>1. d.by \in Authors /\ d.from \in Status \cup {"none"}
          BY <2>1, StepIsTyped
        <5> QED
          BY <2>1, <5>1 DEF Entry
      <4>3. /\ Len(u) = Len(t) + 1 /\ Len(t) \in Nat /\ Len(t) > 0
            /\ \A i \in 1 .. Len(t) : u[i] = t[i]
            /\ u[Len(t) + 1] = e
        <5>1. t # <<>> /\ t \in Seq(Entry) /\ e \in Entry /\ u = Append(t, e)
          BY <4>1, <4>2
        <5> HIDE DEF t, u, e
        <5>2. Len(u) = Len(t) + 1 /\ Len(t) \in Nat /\ Len(t) > 0
          BY <5>1, AppendProperties
        <5>3. (\A i \in 1 .. Len(t) : u[i] = t[i]) /\ u[Len(t) + 1] = e
          BY <5>1, AppendProperties
        <5> QED
          BY <5>2, <5>3
      <4>4. u # <<>> /\ u[1].to = "PENDING" /\ stand'[r] = u[Len(u)].to
        <5>1. u[1] = t[1]
          BY <4>3
        <5>2. stand'[r] = e.to
          BY <2>1
        <5>3. u # <<>>
          <6>1. u = <<>> => Len(u) = 0
            OBVIOUS
          <6> QED
            BY <4>3, <6>1
        <5> QED
          BY <4>1, <4>2, <4>3, <5>1, <5>2, <5>3
      <4>5. ASSUME NEW i \in 2 .. Len(u)
            PROVE  u[i].from = u[i - 1].to /\ <<u[i].from, u[i].to>> \in Allowed
        <5>1. CASE i \in 2 .. Len(t)
          <6>1. u[i] = t[i] /\ u[i - 1] = t[i - 1]
            BY <4>3, <5>1
          <6> QED
            BY <4>1, <5>1, <6>1
        <5>2. CASE i = Len(t) + 1
          <6>1. u[i] = e
            BY <4>3, <5>2
          <6>2. i - 1 = Len(t) /\ Len(t) \in 1 .. Len(t)
            BY <4>3, <5>2
          <6>3. u[i - 1] = t[Len(t)]
            BY <4>3, <6>2
          <6>4. e.from = stand[r] /\ <<e.from, e.to>> \in Allowed
            BY <2>2 DEF MayMove
          <6> QED
            BY <4>1, <6>1, <6>3, <6>4
        <5>3. i \in 2 .. Len(t) \/ i = Len(t) + 1
          <6> HIDE DEF t, u
          <6> QED
            BY <4>3
        <5> QED
          BY <5>1, <5>2, <5>3
      <4> QED
        BY <3>2, <4>4, <4>5 DEF TrailIsWhole
    <3> QED
      BY <3>1, <3>2
  <2> QED
    BY <2>3, <2>5, <2>6 DEF InStep
<1>16. ASSUME NEW c \in Clerks, NEW to \in Status, NEW by \in Authors, NEW credit \in BOOLEAN,
              desk[c] # Vacant, ClerksRest(c), UNCHANGED <<stand, trail, untraced>>,
              desk'[c] = Moving(desk[c].of, to, by, credit),
              MayMove(desk[c].of, to), credit => to = "CJ_APPROVED",
              by = "CUSTOMER" => stand[desk[c].of] = "EVIDENCE_REQUIRED" /\ to = "UNDER_REVIEW",
              by = "SYSTEM" => to = "COMPLETED"
       PROVE  InStep'
  <2>1. Abreast(desk[c])'
    BY <1>16 DEF Abreast, Moving, MayMove, Allowed, Vacant
  <2> QED
    BY <1>16, <2>1, WorkInStep
<1>17. ASSUME NEW c \in Clerks, StoreEvidence(c) PROVE InStep'
  <2> DEFINE d == desk[c]
  <2>0. d.at = "store" /\ d # Vacant
    BY <1>17 DEF StoreEvidence, Vacant
  <2>1. /\ ClerksRest(c)
        /\ UNCHANGED <<stand, trail, untraced>>
        /\ \/ desk'[c] = Vacant
           \/ /\ d.was = "EVIDENCE_REQUIRED"
              /\ desk'[c] = Moving(d.of, "UNDER_REVIEW", "CUSTOMER", FALSE)
    BY <1>17 DEF StoreEvidence, Leave, ClerksRest
  <2>2. stand[d.of] = d.was
    BY <2>0 DEF InStep, Abreast
  <2>3. d.was = "EVIDENCE_REQUIRED" => MayMove(d.of, "UNDER_REVIEW")
    BY <2>2 DEF MayMove, Allowed
  <2> QED
    BY <2>0, <2>1, <2>2, <2>3, <1>13, <1>16 DEF Status, Authors
<1>18. ASSUME NEW c \in Clerks, NEW known \in BOOLEAN, FiledAtCJ(c, known) PROVE InStep'
  <2> DEFINE d == desk[c]
  <2>1. /\ d.at = "file" /\ d # Vacant /\ ClerksRest(c)
        /\ UNCHANGED <<stand, trail, untraced>>
        /\ desk'[c] = Moving(d.of, "CJ_DISPUTE_SUBMITTED", "ADMIN", FALSE)
    BY <1>18 DEF FiledAtCJ, ClerksRest, Vacant
  <2>2. MayMove(d.of, "CJ_DISPUTE_SUBMITTED")
    BY <2>1 DEF InStep, Abreast
  <2> QED
    BY <2>1, <2>2, <1>16 DEF Status, Authors
<1>19. ASSUME NEW c \in Clerks, NotFiled(c) \/ RefreshWrite(c) \/ Book(c) \/ Slip(c)
       PROVE  InStep'
  <2>0. desk[c].at \in {"file", "heard", "book"} \/ desk[c] # Vacant
    BY <1>19 DEF NotFiled, RefreshWrite, Book, Slip
  <2>1. desk[c] # Vacant
    BY <2>0 DEF Vacant
  <2>2. /\ ClerksRest(c) /\ desk'[c] = Vacant
        /\ UNCHANGED <<stand, trail, untraced>>
    BY <1>19 DEF NotFiled, RefreshWrite, Book, Slip, Leave, ClerksRest
  <2> QED
    BY <2>1, <2>2, <1>13
<1>20. ASSUME NEW c \in Clerks, OutcomeWrite(c) PROVE InStep'
  <2> DEFINE d == desk[c]
  <2>1. /\ d.at = "outcome" /\ d # Vacant /\ ClerksRest(c)
        /\ d.to \in {"CJ_APPROVED", "CJ_REJECTED"} /\ d.amount \in BOOLEAN
        /\ UNCHANGED <<stand, trail, untraced>>
        /\ \/ desk'[c] = Vacant
           \/ d.legal /\ desk'[c] = Moving(d.of, d.to, "ADMIN", d.amount)
    BY <1>20, StepIsTyped DEF OutcomeWrite, Leave, ClerksRest, Vacant
  <2>2. (d.legal => MayMove(d.of, d.to)) /\ (d.amount => d.to = "CJ_APPROVED")
    BY <2>1 DEF InStep, Abreast
  <2>3. d.to \in Status /\ "ADMIN" \in Authors
    BY <2>1 DEF Status, Authors
  <2> QED
    BY <2>1, <2>2, <2>3, <1>13, <1>16
<1>21. ASSUME NEW c \in Clerks, RefundRecorded(c) PROVE InStep'
  <2> DEFINE d == desk[c]
  <2>1. /\ d.at = "refund" /\ d # Vacant /\ ClerksRest(c)
        /\ UNCHANGED <<stand, trail, untraced>>
        /\ \/ desk'[c] = Vacant
           \/ desk'[c] = [at |-> "old", of |-> d.of, to |-> "COMPLETED"]
           \/ d.by # "none" /\ desk'[c] = [at |-> "bear", of |-> d.of, by |-> d.by]
    BY <1>21 DEF RefundRecorded, ClerksRest, Vacant
  <2>2. /\ stand[d.of] # "none"
        /\ d.by # "none" => MayMove(d.of, "REFUND_PROCESSING")
    BY <2>1 DEF InStep, Abreast
  <2>3. Abreast(desk[c])'
    <3>1. CASE desk'[c] = Vacant
      BY <3>1, VacantIsAbreast
    <3>2. CASE desk'[c] = [at |-> "old", of |-> d.of, to |-> "COMPLETED"]
      BY <2>1, <2>2, <3>2 DEF Abreast, Vacant
    <3>3. CASE d.by # "none" /\ desk'[c] = [at |-> "bear", of |-> d.of, by |-> d.by]
      BY <2>1, <2>2, <3>3 DEF Abreast, MayMove, Vacant
    <3> QED
      BY <2>1, <3>1, <3>2, <3>3
  <2> QED
    BY <2>1, <2>3, WorkInStep
<1>22. ASSUME NEW c \in Clerks, Bear(c) PROVE InStep'
  <2> DEFINE d == desk[c]
  <2>1. /\ d.at = "bear" /\ d # Vacant /\ ClerksRest(c)
        /\ UNCHANGED <<stand, trail, untraced>>
        /\ desk'[c] = Moving(d.of, "REFUND_PROCESSING", "ADMIN", FALSE)
    BY <1>22 DEF Bear, ClerksRest, Vacant
  <2>2. MayMove(d.of, "REFUND_PROCESSING")
    BY <2>1 DEF InStep, Abreast
  <2> QED
    BY <2>1, <2>2, <1>16 DEF Status, Authors
<1>23. ASSUME NEW c \in Clerks, WriteOld(c) PROVE InStep'
  <2> DEFINE r == desk[c].of
  <2>1. /\ desk[c] # Vacant /\ ClerksRest(c) /\ desk'[c] = Vacant
        /\ r \in Cases
        /\ UNCHANGED trail /\ untraced' = untraced \cup {r}
        /\ stand' = [stand EXCEPT ![r] = desk[c].to]
    BY <1>23, StepIsTyped DEF WriteOld, Leave, ClerksRest, Vacant
  <2>2. \A q \in Cases : q \in untraced \/ stand'[q] = stand[q] \/ q \in untraced'
    BY <2>1
  <2>3. untraced \subseteq untraced'
    BY <2>1
  <2> QED
    BY <2>1, <2>2, <2>3, VacantIsAbreast, WorkInStep
<1>24. ASSUME NEW r \in Cases, NEW says, Rule(r, says) PROVE InStep'
  <2>1. UNCHANGED <<stand, trail, untraced, desk>>
    BY <1>24 DEF Rule
  <2> QED
    BY <2>1 DEF InStep, OneClerk, Abreast, MayMove, TrailIsWhole
<1>25. ASSUME NEW c \in Clerks, Called(c) PROVE InStep'
  <2>1. ASSUME NEW r \in Cases, CustomerCalls(c, r) \/ ReviewCalls(c, r) \/ Repaid(c, r)
        PROVE  InStep'
    BY <2>1, <1>3, <1>4, <1>10, <1>12 DEF CustomerCalls, ReviewCalls
  <2>2. ASSUME NEW r \in Cases, SettlementCalls(c, r) \/ OldCalls(c, r) PROVE InStep'
    BY <2>2, <1>5, <1>6, <1>7, <1>8, <1>9, <1>11, <1>12 DEF SettlementCalls, OldCalls
  <2>3. ASSUME GoOn(c) PROVE InStep'
    BY <2>3, <1>14, <1>15, <1>17, <1>18, <1>19, <1>20, <1>21, <1>22, <1>23 DEF GoOn
  <2> QED
    BY <1>25, <2>1, <2>2, <2>3 DEF Called
<1> QED
  BY <1>19, <1>24, <1>25 DEF FileNext

LEMMA AloneInvAlways == FileSpec => []AloneInv
<1>1. FileInit => AloneInv
  BY DEF FileInit, AloneInv, InStep, OneClerk, Abreast, TrailIsWhole, Vacant
<1>2. FileTypeOK /\ FileTypeOK' /\ AloneInv /\ [FileNext]_fileVars => AloneInv'
  <2> SUFFICES ASSUME FileTypeOK, FileTypeOK', AloneInv, [FileNext]_fileVars, lone'
               PROVE  InStep'
    BY DEF AloneInv
  <2>1. CASE FileNext
    BY <2>1, LoneSoFar, InStepIsKept DEF AloneInv
  <2>2. CASE UNCHANGED fileVars
    BY <2>2
       DEF fileVars, papers, memory, AloneInv, lone, InStep, OneClerk, Abreast, MayMove,
           TrailIsWhole
  <2> QED
    BY <2>1, <2>2
<1> QED
  BY <1>1, <1>2, FileTyped, PTL DEF FileSpec

-----------------------------------------------------------------------------
(***************************************************************************)
(* Who bears a refund.  With one request at work, what Booked says of all  *)
(* clerks is what it says of that one.                                     *)
(***************************************************************************)
BookedWith(d) ==
  /\ \A r \in Cases : bearer[r] # "none" => stand[r] \in Refunded \/ Closing(d, r)
  /\ \A r \in promised : r \in credited \/ (d.at = "book" /\ d.of = r)
  /\ d.at \in {"refund", "bear"} /\ d.by = "ADDICTSTYLE" => d.of \notin promised
  /\ \A r \in Cases : bearer[r] = "ADDICTSTYLE" => r \notin promised

LEMMA BookedAtOne ==
  ASSUME NEW c \in Clerks, \A b \in Clerks \ {c} : desk[b] = Vacant
  PROVE  Booked <=> BookedWith(desk[c])
<1>1. \A b \in Clerks \ {c} :
        /\ desk[b].at \notin {"book", "refund", "bear"}
        /\ \A r \in Cases : ~ Closing(desk[b], r)
  BY DEF Vacant, Closing
<1>2. \A r \in Cases : (\E b \in Clerks : Closing(desk[b], r)) <=> Closing(desk[c], r)
  BY <1>1
<1>3. \A r \in promised :
        (\E b \in Clerks : desk[b].at = "book" /\ desk[b].of = r)
          <=> desk[c].at = "book" /\ desk[c].of = r
  BY <1>1
<1>4. (\A b \in Clerks : desk[b].at \in {"refund", "bear"} /\ desk[b].by = "ADDICTSTYLE"
                           => desk[b].of \notin promised)
        <=> (desk[c].at \in {"refund", "bear"} /\ desk[c].by = "ADDICTSTYLE"
               => desk[c].of \notin promised)
  BY <1>1
<1> QED
  BY <1>2, <1>3, <1>4 DEF Booked, BookedWith

LEMMA BookedAtOneNext ==
  ASSUME NEW c \in Clerks, \A b \in Clerks \ {c} : desk'[b] = Vacant, BookedWith(desk[c])'
  PROVE  Booked'
<1>1. \A b \in Clerks \ {c} : desk'[b].at \notin {"book", "refund", "bear", "move", "commit"}
  BY DEF Vacant
<1> QED
  BY <1>1 DEF Booked, BookedWith, Closing

\* A step of the one clerk at work, or of the first one to be.
LEMMA WorkBooked ==
  ASSUME InStep, Booked, NEW c \in Clerks, ClerksRest(c), desk[c] # Vacant \/ Resting
  PROVE  /\ BookedWith(desk[c])
         /\ BookedWith(desk[c])' => Booked'
BY AtWorkAlone, BookedAtOne, BookedAtOneNext DEF InStep

LEMMA BookedIsKept ==
  ASSUME FileTypeOK, FileTypeOK', FileNext, lone', slips' = 0, InStep, CostInv, Booked
  PROVE  Booked'
<1> USE DEF FileTypeOK, papers, costs, memory
<1>1. lone /\ (Taken => Resting)
  BY LoneSoFar
<1>2. ASSUME NEW c \in Clerks, NEW step, TakeUp(c, step), step # Vacant,
             step.at \in {"refund", "bear"} /\ step.by = "ADDICTSTYLE"
               => step.of \notin credited
      PROVE  Booked'
  <2>1. /\ ClerksRest(c) /\ desk[c] = Vacant /\ desk'[c] = step
        /\ UNCHANGED <<stand, bearer, credited, promised>>
    BY <1>2 DEF TakeUp, ClerksRest
  <2>2. Resting
    BY <1>1, <1>2, <2>1 DEF Taken
  <2>3. BookedWith(Vacant)
    BY <2>1, <2>2, WorkBooked
  <2>4. promised \subseteq credited /\ \A r \in Cases : bearer[r] # "none" => stand[r] \in Refunded
    BY <2>3 DEF BookedWith, Vacant, Closing
  <2>5. credited \subseteq promised
    BY DEF CostInv
  <2>6. BookedWith(desk[c])'
    BY <1>2, <2>1, <2>3, <2>4, <2>5 DEF BookedWith
  <2> QED
    BY <2>1, <2>2, <2>6, WorkBooked
<1>3. ASSUME NEW c \in Clerks, NEW r \in Cases, NEW to, NEW by,
             TakeUp(c, Moving(r, to, by, FALSE))
      PROVE  Booked'
  <2>1. Moving(r, to, by, FALSE) # Vacant /\ Moving(r, to, by, FALSE).at = "move"
    BY DEF Moving, Vacant
  <2> QED
    BY <1>2, <1>3, <2>1
<1>4. ASSUME NEW c \in Clerks, NEW r \in Cases,
             SendEvidence(c, r) \/ FileDispute(c, r) \/ Refresh(c, r)
      PROVE  Booked'
  <2>1. PICK step : TakeUp(c, step) /\ step.at \in {"store", "file", "heard"}
    BY <1>4 DEF SendEvidence, FileDispute, Refresh
  <2>2. step # Vacant
    BY <2>1 DEF Vacant
  <2> QED
    BY <1>2, <2>1, <2>2
<1>5. ASSUME NEW c \in Clerks, NEW r \in Cases,
             \/ \E o \in {"APPROVED", "REJECTED"} : ConfirmOutcome(c, r, o)
             \/ \E to \in {"APPROVED", "REJECTED"} : DecideOld(c, r, to)
      PROVE  Booked'
  <2>1. PICK step : TakeUp(c, step) /\ step.at \in {"outcome", "old"}
    BY <1>5 DEF ConfirmOutcome, DecideOld
  <2>2. step # Vacant
    BY <2>1 DEF Vacant
  <2> QED
    BY <1>2, <2>1, <2>2
<1>6. ASSUME NEW c \in Clerks, NEW r \in Cases, Refund(c, r) \/ RefundOld(c, r)
      PROVE  Booked'
  <2>1. PICK by : /\ TakeUp(c, [at |-> "refund", of |-> r, by |-> by])
                  /\ by = "ADDICTSTYLE" => r \notin credited
    <3>1. CASE Refund(c, r)
      <4> DEFINE by == IF r \in credited THEN "CJ" ELSE "ADDICTSTYLE"
      <4>1. TakeUp(c, [at |-> "refund", of |-> r, by |-> by])
        BY <3>1 DEF Refund
      <4>2. by = "ADDICTSTYLE" => r \notin credited
        OBVIOUS
      <4> QED
        BY <4>1, <4>2
    <3>2. CASE RefundOld(c, r)
      BY <3>2 DEF RefundOld
    <3> QED
      BY <1>6, <3>1, <3>2
  <2>2. [at |-> "refund", of |-> r, by |-> by] # Vacant
    BY DEF Vacant
  <2> QED
    BY <1>2, <2>1, <2>2
<1>7. ASSUME NEW c \in Clerks, NEW r \in Cases,
             (\E n \in 0 .. 1 : Submit(c, r, n)) \/ SubmitOld(c, r)
      PROVE  Booked'
  <2>1. /\ UNCHANGED <<desk, bearer, credited, promised>>
        /\ stand[r] = "none" /\ stand' = [stand EXCEPT ![r] = "PENDING"]
    BY <1>7 DEF Submit, SubmitOld
  <2>2. bearer[r] = "none"
    <3>1. stand[r] \notin Refunded
      BY <2>1 DEF Refunded
    <3>2. ASSUME NEW b \in Clerks, Closing(desk[b], r) PROVE FALSE
      <4>1. desk[b] # Vacant /\ desk[b].at \notin {"heard", "outcome"} /\ desk[b].of = r
        BY <3>2 DEF Closing, Vacant
      <4> QED
        BY <2>1, <4>1 DEF InStep, Abreast
    <3> QED
      BY <3>1, <3>2 DEF Booked
  <2> QED
    BY <2>1, <2>2 DEF Booked, Closing

\* Work that books nothing, bears nothing and moves nothing.
<1>8. ASSUME NEW c \in Clerks, desk[c] # Vacant, desk[c].at \notin {"move", "commit", "book"},
             ClerksRest(c), UNCHANGED <<stand, bearer, credited, promised>>,
             desk'[c].at = "bear" => /\ desk[c].at = "refund" /\ desk'[c].of = desk[c].of
                                     /\ desk'[c].by = desk[c].by,
             desk'[c].at # "refund"
      PROVE  Booked'
  <2>1. BookedWith(desk[c])
    BY <1>8, WorkBooked
  <2>2. BookedWith(desk[c])'
    BY <1>8, <2>1 DEF BookedWith, Closing
  <2> QED
    BY <1>8, <2>2, WorkBooked
<1>9. ASSUME NEW c \in Clerks,
             \/ StoreEvidence(c) \/ NotFiled(c) \/ (\E known \in BOOLEAN : FiledAtCJ(c, known))
             \/ RefreshWrite(c) \/ OutcomeWrite(c)
      PROVE  Booked'
  <2>1. desk[c].at \in {"store", "file", "heard", "outcome"}
    BY <1>9 DEF StoreEvidence, NotFiled, FiledAtCJ, RefreshWrite, OutcomeWrite
  <2>2. /\ ClerksRest(c) /\ UNCHANGED <<stand, bearer, credited, promised>>
        /\ \/ desk'[c] = Vacant
           \/ desk'[c] = Moving(desk[c].of, "UNDER_REVIEW", "CUSTOMER", FALSE)
           \/ desk'[c] = Moving(desk[c].of, "CJ_DISPUTE_SUBMITTED", "ADMIN", FALSE)
           \/ desk'[c] = Moving(desk[c].of, desk[c].to, "ADMIN", desk[c].amount)
    <3>1. CASE StoreEvidence(c)
      BY <3>1 DEF StoreEvidence, Leave, ClerksRest
    <3>2. CASE NotFiled(c) \/ RefreshWrite(c)
      BY <3>2 DEF NotFiled, RefreshWrite, Leave, ClerksRest
    <3>3. CASE \E known \in BOOLEAN : FiledAtCJ(c, known)
      BY <3>3 DEF FiledAtCJ, ClerksRest
    <3>4. CASE OutcomeWrite(c)
      <4>1. \/ desk' = [desk EXCEPT ![c] = Moving(desk[c].of, desk[c].to, "ADMIN", desk[c].amount)]
            \/ desk' = [desk EXCEPT ![c] = Vacant]
        BY <3>4 DEF OutcomeWrite, Leave
      <4>2. UNCHANGED <<stand, bearer, credited, promised>>
        BY <3>4 DEF OutcomeWrite
      <4> QED
        BY <4>1, <4>2 DEF ClerksRest
    <3> QED
      BY <1>9, <3>1, <3>2, <3>3, <3>4
  <2>3. desk[c] # Vacant
    BY <2>1 DEF Vacant
  <2>4. desk'[c].at \in {"vacant", "move"}
    BY <2>2 DEF Vacant, Moving
  <2> QED
    BY <1>8, <2>1, <2>2, <2>3, <2>4
<1>10. ASSUME NEW c \in Clerks, RefundRecorded(c) PROVE Booked'
  <2> DEFINE d == desk[c]
  <2>1. /\ d.at = "refund" /\ ClerksRest(c)
        /\ UNCHANGED <<stand, bearer, credited, promised>>
        /\ \/ desk'[c] = Vacant
           \/ desk'[c] = [at |-> "old", of |-> d.of, to |-> "COMPLETED"]
           \/ desk'[c] = [at |-> "bear", of |-> d.of, by |-> d.by]
    BY <1>10 DEF RefundRecorded, ClerksRest
  <2>2. d # Vacant
    BY <2>1 DEF Vacant
  <2>3. /\ desk'[c].at \in {"vacant", "old", "bear"}
        /\ desk'[c].at = "bear" => desk'[c].of = d.of /\ desk'[c].by = d.by
    BY <2>1 DEF Vacant
  <2> QED
    BY <1>8, <2>1, <2>2, <2>3
<1>11. ASSUME NEW c \in Clerks, Begin(c) PROVE Booked'
  <2> DEFINE d == desk[c]
  <2>1. /\ d.at = "move" /\ ClerksRest(c) /\ UNCHANGED <<stand, bearer, credited, promised>>
        /\ desk'[c].at = "commit" /\ desk'[c].of = d.of /\ desk'[c].to = d.to
    BY <1>11 DEF Begin, ClerksRest
  <2>2. d # Vacant
    BY <2>1 DEF Vacant
  <2>3. BookedWith(d)
    BY <2>1, <2>2, WorkBooked
  <2>4. BookedWith(desk[c])'
    BY <2>1, <2>3 DEF BookedWith, Closing
  <2> QED
    BY <2>1, <2>2, <2>4, WorkBooked
<1>12. ASSUME NEW c \in Clerks, Commit(c) PROVE Booked'
  <2> DEFINE d == desk[c]
  <2>0. PICK r \in Cases : r = d.of
    BY <1>12, StepIsTyped DEF Commit, Vacant
  <2>1. /\ d.at = "commit" /\ ClerksRest(c) /\ UNCHANGED <<bearer, credited>>
        /\ stand' = [stand EXCEPT ![r] = d.to]
        /\ promised' = IF d.credit THEN promised \cup {r} ELSE promised
        /\ desk'[c] = IF d.credit THEN [at |-> "book", of |-> r] ELSE Vacant
    BY <1>12, <2>0 DEF Commit, Leave, ClerksRest
  <2>2. d # Vacant
    BY <2>1 DEF Vacant
  <2>3. BookedWith(d)
    BY <2>1, <2>2, WorkBooked
  <2>4. MayMove(r, d.to) /\ (d.credit => d.to = "CJ_APPROVED")
    BY <2>0, <2>1 DEF InStep, Abreast
  <2>5. bearer[r] # "none" => d.to \in Refunded
    <3>1. Closing(d, r) => d.to \in Refunded
      BY DEF Closing, Refunded
    <3>2. stand[r] \in Refunded => d.to \in Refunded
      BY <2>4 DEF MayMove, Allowed, Refunded
    <3> QED
      BY <2>3, <3>1, <3>2 DEF BookedWith
  <2>6. d.credit => bearer[r] = "none"
    BY <2>4, <2>5 DEF Refunded
  <2>7. /\ \A q \in Cases : bearer'[q] # "none" => stand'[q] \in Refunded
        /\ \A q \in Cases : bearer'[q] = "ADDICTSTYLE" => q \notin promised'
    <3>1. ASSUME NEW q \in Cases, bearer[q] # "none" PROVE stand'[q] \in Refunded
      BY <2>0, <2>1, <2>3, <2>5, <3>1 DEF BookedWith, Closing
    <3>2. ASSUME NEW q \in Cases, bearer[q] = "ADDICTSTYLE" PROVE q \notin promised'
      BY <2>1, <2>3, <2>6, <3>2 DEF BookedWith
    <3> QED
      BY <2>1, <3>1, <3>2
  <2>8. /\ \A q \in promised' : q \in credited' \/ (desk'[c].at = "book" /\ desk'[c].of = q)
        /\ desk'[c].at \notin {"refund", "bear"}
    <3>1. \A q \in promised : q \in credited
      BY <2>1, <2>3 DEF BookedWith
    <3> QED
      BY <2>1, <3>1 DEF Vacant
  <2>9. BookedWith(desk[c])'
    BY <2>7, <2>8 DEF BookedWith
  <2> QED
    BY <2>1, <2>2, <2>9, WorkBooked
<1>13. ASSUME NEW c \in Clerks, Book(c) PROVE Booked'
  <2> DEFINE d == desk[c]
  <2>1. /\ d.at = "book" /\ ClerksRest(c) /\ UNCHANGED <<stand, bearer, promised>>
        /\ credited' = credited \cup {d.of} /\ desk'[c] = Vacant
    BY <1>13 DEF Book, Leave, ClerksRest
  <2>2. d # Vacant
    BY <2>1 DEF Vacant
  <2>3. BookedWith(d)
    BY <2>1, <2>2, WorkBooked
  <2>4. BookedWith(desk[c])'
    BY <2>1, <2>3 DEF BookedWith, Closing, Vacant
  <2> QED
    BY <2>1, <2>2, <2>4, WorkBooked
<1>14. ASSUME NEW c \in Clerks, Bear(c) PROVE Booked'
  <2> DEFINE d == desk[c]
  <2>0. PICK r \in Cases : r = d.of
    BY <1>14, StepIsTyped DEF Bear, Vacant
  <2>1. /\ d.at = "bear" /\ ClerksRest(c) /\ UNCHANGED <<stand, credited, promised>>
        /\ bearer' = [bearer EXCEPT ![r] = d.by]
        /\ desk'[c] = Moving(r, "REFUND_PROCESSING", "ADMIN", FALSE)
    BY <1>14, <2>0 DEF Bear, ClerksRest
  <2>2. d # Vacant
    BY <2>1 DEF Vacant
  <2>3. BookedWith(d)
    BY <2>1, <2>2, WorkBooked
  <2>4. /\ desk'[c].at = "move" /\ desk'[c].of = r /\ desk'[c].to = "REFUND_PROCESSING"
        /\ \A q \in Cases \ {r} : bearer'[q] = bearer[q]
        /\ bearer'[r] = d.by
    BY <2>1 DEF Moving
  <2>5. \A q \in Cases : bearer'[q] # "none" => stand'[q] \in Refunded \/ Closing(desk[c], q)'
    <3>1. ASSUME NEW q \in Cases, q # r, bearer'[q] # "none" PROVE stand'[q] \in Refunded
      BY <2>1, <2>3, <2>4, <3>1 DEF BookedWith, Closing
    <3>2. Closing(desk[c], r)'
      BY <2>4 DEF Closing
    <3> QED
      BY <3>1, <3>2
  <2>6. d.by = "ADDICTSTYLE" => r \notin promised
    BY <2>0, <2>1, <2>3 DEF BookedWith
  <2>7. /\ \A q \in promised' : q \in credited'
        /\ \A q \in Cases : bearer'[q] = "ADDICTSTYLE" => q \notin promised'
    BY <2>1, <2>3, <2>4, <2>6 DEF BookedWith
  <2>8. BookedWith(desk[c])'
    BY <2>4, <2>5, <2>7 DEF BookedWith
  <2> QED
    BY <2>1, <2>2, <2>8, WorkBooked
<1>15. ASSUME NEW c \in Clerks, WriteOld(c) PROVE Booked'
  <2> DEFINE d == desk[c]
  <2>0. PICK r \in Cases : r = d.of
    BY <1>15, StepIsTyped DEF WriteOld, Vacant
  <2>1. /\ d.at = "old" /\ ClerksRest(c) /\ UNCHANGED <<bearer, credited, promised>>
        /\ stand' = [stand EXCEPT ![r] = d.to] /\ desk'[c] = Vacant
    BY <1>15, <2>0 DEF WriteOld, Leave, ClerksRest
  <2>2. d # Vacant
    BY <2>1 DEF Vacant
  <2>3. BookedWith(d)
    BY <2>1, <2>2, WorkBooked
  <2>4. stand[r] = "PENDING" \/ d.to = "COMPLETED"
    BY <2>0, <2>1 DEF InStep, Abreast
  <2>5. stand[r] \in Refunded => d.to \in Refunded
    BY <2>4 DEF Refunded
  <2>6. BookedWith(desk[c])'
    BY <2>1, <2>3, <2>5 DEF BookedWith, Closing, Vacant
  <2> QED
    BY <2>1, <2>2, <2>6, WorkBooked
<1>16. ASSUME NEW c \in Clerks, Slip(c) PROVE Booked'
  BY <1>16 DEF Slip
<1>17. ASSUME NEW r \in Cases, NEW says, Rule(r, says) PROVE Booked'
  BY <1>17 DEF Rule, Booked, Closing
<1>18. ASSUME NEW c \in Clerks, Called(c) PROVE Booked'
  <2>1. ASSUME NEW r \in Cases, CustomerCalls(c, r) \/ ReviewCalls(c, r) \/ Repaid(c, r)
        PROVE  Booked'
    BY <2>1, <1>3, <1>4, <1>7 DEF CustomerCalls, ReviewCalls, Decide, Repaid
  <2>2. ASSUME NEW r \in Cases, SettlementCalls(c, r) \/ OldCalls(c, r) PROVE Booked'
    BY <2>2, <1>4, <1>5, <1>6, <1>7 DEF SettlementCalls, OldCalls
  <2>3. ASSUME GoOn(c) PROVE Booked'
    BY <2>3, <1>9, <1>10, <1>11, <1>12, <1>13, <1>14, <1>15 DEF GoOn
  <2> QED
    BY <1>18, <2>1, <2>2, <2>3 DEF Called
<1> QED
  BY <1>16, <1>17, <1>18 DEF FileNext

LEMMA BookInvAlways == FileSpec => []BookInv
<1>1. FileInit => BookInv
  BY DEF FileInit, BookInv, Booked, Vacant
<1>2. FileTypeOK /\ FileTypeOK' /\ AloneInv /\ CostInv /\ BookInv /\ [FileNext]_fileVars
        => BookInv'
  <2> SUFFICES ASSUME FileTypeOK, FileTypeOK', AloneInv, CostInv, BookInv, [FileNext]_fileVars,
                      lone', slips' = 0
               PROVE  Booked'
    BY DEF BookInv
  <2>1. CASE FileNext
    <3>1. slips = 0
      BY <2>1 DEF FileNext, Slip, FileTypeOK
    <3> QED
      BY <2>1, <3>1, LoneSoFar, BookedIsKept DEF AloneInv, BookInv
  <2>2. CASE UNCHANGED fileVars
    BY <2>2 DEF fileVars, papers, costs, memory, BookInv, lone, Booked, Closing
  <2> QED
    BY <2>1, <2>2
<1> QED
  BY <1>1, <1>2, FileTyped, AloneInvAlways, CostInvAlways, PTL DEF FileSpec

\* CJ bears a refund only when it has named an amount and the return has moved on
\* that; the shop bears none that CJ has named an amount for, while requests
\* neither overlap nor stop half-way (confirmCjOutcome, processRefund).
THEOREM CostFollowsRulingHolds == FileSpec => []CostFollowsRuling
<1>1. CostInv /\ BookInv => CostFollowsRuling
  BY DEF CostInv, BookInv, Booked, CostFollowsRuling, Named
<1> QED
  BY <1>1, CostInvAlways, BookInvAlways, PTL

-----------------------------------------------------------------------------
(***************************************************************************)
(* The customer's answer.  Between staff's demand and the answer no move   *)
(* of the webhook's is legal, and the answer's own move is the last entry  *)
(* until staff make the next.                                              *)
(***************************************************************************)

\* A step that neither adds to a return's file nor is on its way to.
LEMMA ApartFromAnswer ==
  ASSUME FileTypeOK, InStep, NEW c \in Clerks, ClerksRest(c), desk[c] # Vacant \/ Resting,
         NEW r \in Cases, Answered(r), ~ Answering(desk[c], r),
         stand'[r] = stand[r], trail'[r] = trail[r], r \in unseen' => r \in unseen
  PROVE  Answered(r)'
<1>1. \A b \in Clerks \ {c} : desk[b] = Vacant
  BY AtWorkAlone DEF InStep
<1>2. \A b \in Clerks : ~ Answering(desk[b], r)
  BY <1>1 DEF Answering, Vacant
<1> QED
  BY <1>2 DEF Answered, Demanded, HasNewCustomerEvidence

\* What one more entry does to the demands of staff.
LEMMA DemandAfterEntry ==
  ASSUME NEW r \in Cases, NEW e \in Entry, trail[r] \in Seq(Entry),
         trail'[r] = Append(trail[r], e)
  PROVE  /\ e.by = "ADMIN" => (Demanded(r)' => e.to = "EVIDENCE_REQUIRED")
         /\ e.by # "ADMIN" => (Demanded(r)' => Demanded(r))
<1> DEFINE t == trail[r]
           u == trail'[r]
           n == Len(t) + 1
<1>1. /\ n \in Nat /\ DOMAIN u = 1 .. n /\ DOMAIN t = 1 .. Len(t) /\ u[n] = e
      /\ \A i \in 1 .. Len(t) : u[i] = t[i]
  BY AppendProperties
<1>2. ASSUME Demanded(r)'
      PROVE  \E i \in DOMAIN u : /\ u[i].by = "ADMIN" /\ u[i].to = "EVIDENCE_REQUIRED"
                                 /\ \A j \in DOMAIN u : j > i => u[j].by # "ADMIN"
  BY <1>2 DEF Demanded
<1>3. ASSUME e.by = "ADMIN", Demanded(r)' PROVE e.to = "EVIDENCE_REQUIRED"
  <2>1. PICK i \in 1 .. n : /\ u[i].by = "ADMIN" /\ u[i].to = "EVIDENCE_REQUIRED"
                            /\ \A j \in 1 .. n : j > i => u[j].by # "ADMIN"
    BY <1>1, <1>2, <1>3
  <2>2. i = n
    BY <1>1, <1>3, <2>1
  <2> QED
    BY <1>1, <2>1, <2>2
<1>4. ASSUME e.by # "ADMIN", Demanded(r)' PROVE Demanded(r)
  <2>1. PICK i \in 1 .. n : /\ u[i].by = "ADMIN" /\ u[i].to = "EVIDENCE_REQUIRED"
                            /\ \A j \in 1 .. n : j > i => u[j].by # "ADMIN"
    BY <1>1, <1>2, <1>4
  <2>2. i # n
    BY <1>1, <1>4, <2>1
  <2>3. /\ i \in 1 .. Len(t) /\ t[i].by = "ADMIN" /\ t[i].to = "EVIDENCE_REQUIRED"
        /\ \A j \in 1 .. Len(t) : j > i => t[j].by # "ADMIN"
    BY <1>1, <2>1, <2>2
  <2> QED
    BY <1>1, <2>3 DEF Demanded
<1> QED
  BY <1>3, <1>4

LEMMA AnswerIsKept ==
  ASSUME FileTypeOK, FileTypeOK', FileNext, lone', slips' = 0, InStep,
         NEW q \in Cases \ untraced', q \notin untraced => Answered(q)
  PROVE  Answered(q)'
<1> USE DEF FileTypeOK, papers, costs, memory
<1>0. untraced \subseteq untraced'
  <2>1. ASSUME NEW c \in Clerks, Slip(c) PROVE untraced' = untraced
    BY <2>1 DEF Slip
  <2>2. ASSUME NEW r \in Cases, NEW says, Rule(r, says) PROVE untraced' = untraced
    BY <2>2 DEF Rule
  <2>3. ASSUME NEW c \in Clerks, GoOn(c) PROVE untraced \subseteq untraced'
    <3>1. CASE WriteOld(c)
      BY <3>1 DEF WriteOld
    <3>2. CASE ~ WriteOld(c)
      BY <2>3, <3>2
         DEF GoOn, StoreEvidence, Begin, Commit, NotFiled, FiledAtCJ, RefreshWrite, OutcomeWrite,
             Book, RefundRecorded, Bear
    <3> QED
      BY <3>1, <3>2
  <2>4. ASSUME NEW c \in Clerks, NEW r \in Cases,
               \/ CustomerCalls(c, r) \/ ReviewCalls(c, r) \/ SettlementCalls(c, r)
               \/ OldCalls(c, r) \/ Repaid(c, r)
        PROVE  untraced \subseteq untraced'
    BY <2>4
       DEF CustomerCalls, ReviewCalls, SettlementCalls, OldCalls, Submit, SendEvidence, Decide,
           FileDispute, Refresh, ConfirmOutcome, Refund, SubmitOld, DecideOld, RefundOld, Repaid,
           TakeUp
  <2> QED
    BY <2>1, <2>2, <2>3, <2>4 DEF FileNext, Called
<1>1. lone /\ (Taken => Resting) /\ Answered(q)
  BY <1>0, LoneSoFar
<1>2. ASSUME NEW c \in Clerks, NEW step, TakeUp(c, step), step # Vacant PROVE Answered(q)'
  <2>1. /\ ClerksRest(c) /\ desk[c] = Vacant /\ desk'[c] = step
        /\ UNCHANGED <<stand, trail, unseen>>
    BY <1>2 DEF TakeUp, ClerksRest
  <2>2. Resting /\ ~ Answering(desk[c], q)
    BY <1>1, <1>2, <2>1 DEF Taken, Answering, Vacant
  <2> QED
    BY <1>1, <2>1, <2>2, ApartFromAnswer
<1>3. ASSUME NEW c \in Clerks, NEW r \in Cases,
             \/ SendEvidence(c, r) \/ ReviewCalls(c, r) \/ SettlementCalls(c, r)
             \/ Repaid(c, r) \/ RefundOld(c, r)
             \/ \E to \in {"APPROVED", "REJECTED"} : DecideOld(c, r, to)
      PROVE  Answered(q)'
  <2>1. PICK step : /\ TakeUp(c, step)
                    /\ step.at \in {"store", "move", "file", "heard", "outcome", "refund", "old"}
    <3>1. CASE SendEvidence(c, r) \/ RefundOld(c, r)
               \/ \E to \in {"APPROVED", "REJECTED"} : DecideOld(c, r, to)
      BY <3>1 DEF SendEvidence, RefundOld, DecideOld
    <3>2. CASE ReviewCalls(c, r) \/ Repaid(c, r)
      <4>1. \A to, by : Moving(r, to, by, FALSE).at = "move"
        BY DEF Moving
      <4>2. \E to, by : TakeUp(c, Moving(r, to, by, FALSE))
        BY <3>2 DEF ReviewCalls, Decide, Repaid
      <4> QED
        BY <4>1, <4>2
    <3>3. CASE FileDispute(c, r) \/ Refresh(c, r)
      BY <3>3 DEF FileDispute, Refresh
    <3>4. CASE \E o \in {"APPROVED", "REJECTED"} : ConfirmOutcome(c, r, o)
      BY <3>4 DEF ConfirmOutcome
    <3>5. CASE Refund(c, r)
      <4> DEFINE by == IF r \in credited THEN "CJ" ELSE "ADDICTSTYLE"
                 step == [at |-> "refund", of |-> r, by |-> by]
      <4>1. TakeUp(c, step)
        BY <3>5 DEF Refund
      <4>2. step.at = "refund"
        OBVIOUS
      <4> HIDE DEF step
      <4> QED
        BY <4>1, <4>2
    <3> QED
      BY <1>3, <3>1, <3>2, <3>3, <3>4, <3>5 DEF SettlementCalls
  <2>2. step # Vacant
    BY <2>1 DEF Vacant
  <2> QED
    BY <1>2, <2>1, <2>2
<1>4. ASSUME NEW c \in Clerks, NEW r \in Cases,
             (\E n \in 0 .. 1 : Submit(c, r, n)) \/ SubmitOld(c, r)
      PROVE  Answered(q)'
  <2>1. CASE q # r
    <3>1. stand'[q] = stand[q] /\ trail'[q] = trail[q] /\ UNCHANGED <<desk, unseen>>
      BY <1>4, <2>1 DEF Submit, SubmitOld
    <3> QED
      BY <1>1, <3>1 DEF Answered, Answering, Demanded, HasNewCustomerEvidence
  <2>2. CASE q = r
    <3>1. trail'[q] = <<[from |-> "none", to |-> "PENDING", by |-> "CUSTOMER"]>>
      BY <1>4, <2>2 DEF Submit, SubmitOld
    <3>2. ~ Demanded(q)'
      BY <3>1 DEF Demanded
    <3> QED
      BY <3>2 DEF Answered
  <2> QED
    BY <2>1, <2>2

\* Work that leaves statuses, trails and answers alone.
<1>5. ASSUME NEW c \in Clerks, desk[c] # Vacant, desk[c].at \notin {"move", "commit"},
             ClerksRest(c), UNCHANGED <<stand, trail, unseen>>
      PROVE  Answered(q)'
  <2>1. ~ Answering(desk[c], q)
    BY <1>5 DEF Answering
  <2> QED
    BY <1>1, <1>5, <2>1, ApartFromAnswer
<1>6. ASSUME NEW c \in Clerks,
             \/ NotFiled(c) \/ (\E known \in BOOLEAN : FiledAtCJ(c, known)) \/ RefreshWrite(c)
             \/ OutcomeWrite(c) \/ Book(c) \/ RefundRecorded(c) \/ Bear(c)
      PROVE  Answered(q)'
  <2>1. desk[c].at \in {"file", "heard", "outcome", "book", "refund", "bear"}
    BY <1>6 DEF NotFiled, FiledAtCJ, RefreshWrite, OutcomeWrite, Book, RefundRecorded, Bear
  <2>2. UNCHANGED <<stand, trail, unseen>>
    BY <1>6 DEF NotFiled, FiledAtCJ, RefreshWrite, OutcomeWrite, Book, RefundRecorded, Bear
  <2>3. ClerksRest(c)
    <3>1. \E step : desk' = [desk EXCEPT ![c] = step]
      BY <1>6 DEF NotFiled, FiledAtCJ, RefreshWrite, OutcomeWrite, Book, RefundRecorded, Bear, Leave
    <3> QED
      BY <3>1 DEF ClerksRest, FileTypeOK
  <2>4. desk[c] # Vacant
    BY <2>1 DEF Vacant
  <2> QED
    BY <1>5, <2>1, <2>2, <2>3, <2>4
<1>7. ASSUME NEW c \in Clerks, StoreEvidence(c) PROVE Answered(q)'
  <2> DEFINE d == desk[c]
  <2>0. PICK r \in Cases : r = d.of
    BY <1>7, StepIsTyped DEF StoreEvidence, Vacant
  <2>1. /\ d.at = "store" /\ ClerksRest(c) /\ UNCHANGED <<stand, trail>>
        /\ unseen' = unseen \cup {r}
        /\ d.was = "EVIDENCE_REQUIRED"
             => desk'[c] = Moving(r, "UNDER_REVIEW", "CUSTOMER", FALSE)
    BY <1>7, <2>0 DEF StoreEvidence, Leave, ClerksRest
  <2>2. d # Vacant /\ ~ Answering(d, q)
    BY <2>1 DEF Vacant, Answering
  <2>3. stand[r] = d.was
    BY <2>0, <2>1 DEF InStep, Abreast
  <2>4. CASE q # r
    BY <1>1, <2>1, <2>2, <2>4, ApartFromAnswer
  <2>5. CASE q = r /\ d.was = "EVIDENCE_REQUIRED"
    <3>1. Answering(desk[c], q)'
      BY <2>1, <2>5 DEF Answering, Moving
    <3> QED
      BY <2>1, <2>3, <2>5, <3>1 DEF Answered
  <2>6. CASE q = r /\ d.was # "EVIDENCE_REQUIRED"
    BY <1>1, <2>1, <2>3, <2>6 DEF Answered, Demanded, HasNewCustomerEvidence
  <2> QED
    BY <2>4, <2>5, <2>6
<1>8. ASSUME NEW c \in Clerks, Begin(c) PROVE Answered(q)'
  <2>1. /\ desk[c].at = "move" /\ ClerksRest(c) /\ UNCHANGED <<stand, trail, unseen>>
        /\ desk'[c].at = "commit" /\ desk'[c].of = desk[c].of /\ desk'[c].by = desk[c].by
    BY <1>8 DEF Begin, ClerksRest
  <2>2. \A b \in Clerks : Answering(desk[b], q) => Answering(desk[b], q)'
    BY <2>1 DEF Answering, ClerksRest
  <2> QED
    BY <1>1, <2>1, <2>2 DEF Answered, Demanded, HasNewCustomerEvidence
<1>9. ASSUME NEW c \in Clerks, Commit(c) PROVE Answered(q)'
  <2> DEFINE d == desk[c]
             e == [from |-> d.from, to |-> d.to, by |-> d.by]
  <2>0. PICK r \in Cases : r = d.of
    BY <1>9, StepIsTyped DEF Commit, Vacant
  <2>1. /\ d.at = "commit" /\ ClerksRest(c)
        /\ stand' = [stand EXCEPT ![r] = d.to]
        /\ trail' = [trail EXCEPT ![r] = Append(trail[r], e)]
        /\ unseen' = IF d.by = "ADMIN" THEN unseen \ {r} ELSE unseen
    BY <1>9, <2>0 DEF Commit, Leave, ClerksRest
  <2>2. d # Vacant /\ d.to \in Status /\ d.by \in Authors
    BY <2>1, StepIsTyped DEF Vacant
  <2>3. /\ d.from = stand[r] /\ stand[r] # "none" /\ MayMove(r, d.to)
        /\ d.by = "CUSTOMER" => stand[r] = "EVIDENCE_REQUIRED" /\ d.to = "UNDER_REVIEW"
        /\ d.by = "SYSTEM" => d.to = "COMPLETED"
    BY <2>0, <2>1, <2>2 DEF InStep, Abreast
  <2>4. CASE q # r
    <3>1. ~ Answering(d, q)
      BY <2>0, <2>4 DEF Answering
    <3> QED
      BY <1>1, <2>1, <2>2, <2>4, <3>1, ApartFromAnswer
  <2>5. CASE q = r
    <3>1. e \in Entry /\ trail[q] \in Seq(Entry) /\ trail'[q] = Append(trail[q], e)
      BY <2>1, <2>2, <2>3, <2>5 DEF Entry
    <3>2. /\ d.by = "ADMIN" => (Demanded(q)' => d.to = "EVIDENCE_REQUIRED")
          /\ d.by # "ADMIN" => (Demanded(q)' => Demanded(q))
      BY <3>1, DemandAfterEntry
    <3>3. CASE d.by = "ADMIN"
      BY <2>1, <2>5, <3>2, <3>3 DEF Answered
    <3>4. CASE d.by = "CUSTOMER"
      <4>1. Len(trail'[q]) = Len(trail[q]) + 1 /\ Len(trail[q]) \in Nat
            /\ trail'[q][Len(trail[q]) + 1] = e
        BY <3>1, AppendProperties
      <4>2. trail'[q] # <<>>
        <5>1. trail'[q] = <<>> => Len(trail'[q]) = 0
          OBVIOUS
        <5> QED
          BY <4>1, <5>1
      <4>3. stand'[q] = "UNDER_REVIEW" /\ e.from = "EVIDENCE_REQUIRED" /\ e.by = "CUSTOMER"
        BY <2>1, <2>3, <2>5, <3>4
      <4>4. HasNewCustomerEvidence(q)'
        BY <4>1, <4>2, <4>3 DEF HasNewCustomerEvidence
      <4> QED
        BY <4>4 DEF Answered
    <3>5. CASE d.by = "SYSTEM"
      <4>1. stand[q] \in {"REFUND_PROCESSING", "REPLACEMENT_PROCESSING"}
        BY <2>3, <2>5, <3>5 DEF MayMove, Allowed
      <4>2. ~ Demanded(q)
        BY <1>1, <4>1 DEF Answered, HasNewCustomerEvidence
      <4> QED
        BY <3>2, <3>5, <4>2 DEF Answered
    <3> QED
      BY <2>2, <3>3, <3>4, <3>5 DEF Authors
  <2> QED
    BY <2>4, <2>5
<1>10. ASSUME NEW c \in Clerks, WriteOld(c) PROVE Answered(q)'
  <2>1. /\ desk[c].at = "old" /\ ClerksRest(c) /\ UNCHANGED trail
        /\ stand' = [stand EXCEPT ![desk[c].of] = desk[c].to]
        /\ untraced' = untraced \cup {desk[c].of} /\ unseen' = unseen \ {desk[c].of}
    BY <1>10 DEF WriteOld, Leave, ClerksRest
  <2>2. desk[c] # Vacant /\ ~ Answering(desk[c], q)
    BY <2>1 DEF Vacant, Answering
  <2> QED
    BY <1>1, <2>1, <2>2, ApartFromAnswer
<1>11. ASSUME NEW c \in Clerks, Slip(c) PROVE Answered(q)'
  BY <1>11 DEF Slip
<1>12. ASSUME NEW r \in Cases, NEW says, Rule(r, says) PROVE Answered(q)'
  BY <1>1, <1>12 DEF Rule, Answered, Answering, Demanded, HasNewCustomerEvidence
<1>13. ASSUME NEW c \in Clerks, Called(c) PROVE Answered(q)'
  <2>1. ASSUME NEW r \in Cases, CustomerCalls(c, r) \/ ReviewCalls(c, r) \/ Repaid(c, r)
        PROVE  Answered(q)'
    BY <2>1, <1>3, <1>4 DEF CustomerCalls
  <2>2. ASSUME NEW r \in Cases, SettlementCalls(c, r) \/ OldCalls(c, r) PROVE Answered(q)'
    BY <2>2, <1>3, <1>4 DEF OldCalls
  <2>3. ASSUME GoOn(c) PROVE Answered(q)'
    BY <2>3, <1>6, <1>7, <1>8, <1>9, <1>10 DEF GoOn
  <2> QED
    BY <1>13, <2>1, <2>2, <2>3 DEF Called
<1> QED
  BY <1>11, <1>12, <1>13 DEF FileNext

LEMMA AnswerInvAlways == FileSpec => []AnswerInv
<1>1. FileInit => AnswerInv
  BY DEF FileInit, AnswerInv, Answered, Demanded
<1>2. FileTypeOK /\ FileTypeOK' /\ AloneInv /\ AnswerInv /\ [FileNext]_fileVars => AnswerInv'
  <2> SUFFICES ASSUME FileTypeOK, FileTypeOK', AloneInv, AnswerInv, [FileNext]_fileVars,
                      lone', slips' = 0, NEW q \in Cases \ untraced'
               PROVE  Answered(q)'
    BY DEF AnswerInv
  <2>1. CASE FileNext
    <3>1. slips = 0
      BY <2>1 DEF FileNext, Slip, FileTypeOK
    <3> QED
      BY <2>1, <3>1, LoneSoFar, AnswerIsKept DEF AloneInv, AnswerInv
  <2>2. CASE UNCHANGED fileVars
    BY <2>2
       DEF fileVars, papers, memory, AnswerInv, lone, Answered, Answering, Demanded,
           HasNewCustomerEvidence
  <2> QED
    BY <2>1, <2>2
<1> QED
  BY <1>1, <1>2, FileTyped, AloneInvAlways, PTL DEF FileSpec

\* While requests do not overlap, the trail of a return the old endpoints left
\* alone is its whole life, wherever requests are cut short; and with none cut
\* short the customer's answer is in every queue staff can ask for
\* (transitionStatus, addCustomerEvidence, listReturns).
THEOREM AloneFileIsWholeHolds == FileSpec => []AloneFileIsWhole
<1>1. FileTypeOK /\ AloneInv /\ AnswerInv => AloneFileIsWhole
  <2> SUFFICES ASSUME FileTypeOK, AloneInv, AnswerInv, lone, NEW r \in Cases \ untraced
               PROVE  TrailIsWhole(r) /\ (Resting /\ slips = 0 => AnswerIsListed(r))
    BY DEF AloneFileIsWhole
  <2>1. TrailIsWhole(r)
    BY DEF AloneInv, InStep
  <2>2. ASSUME Resting, slips = 0, r \in unseen, Demanded(r)
        PROVE  \A asked \in {"CUSTOMER_RESPONDED", "UNDER_REVIEW", "all"} :
                 <<r, TRUE>> \in Queue(asked)
    <3>1. Answered(r)
      BY <2>2 DEF AnswerInv
    <3>2. ~ \E c \in Clerks : Answering(desk[c], r)
      BY <2>2 DEF Resting, Answering, Vacant
    <3>3. HasNewCustomerEvidence(r)
      BY <2>2, <3>1, <3>2 DEF Answered
    <3>4. r \in UnderReview /\ stand[r] = "UNDER_REVIEW"
      BY <3>3 DEF HasNewCustomerEvidence, UnderReview
    <3>5. <<r, TRUE>> \in Queue("CUSTOMER_RESPONDED")
      BY <3>3, <3>4 DEF Queue
    <3>6. ASSUME NEW asked \in {"UNDER_REVIEW", "all"} PROVE <<r, TRUE>> \in Queue(asked)
      <4>1. r \in Matching(Sought(asked))
        BY <3>4 DEF Matching, Sought, Status
      <4>2. <<r, HasNewCustomerEvidence(r)>> \in Queue(asked)
        BY <4>1 DEF Queue
      <4>3. HasNewCustomerEvidence(r) = TRUE
        BY <3>3 DEF HasNewCustomerEvidence
      <4> QED
        BY <4>2, <4>3
    <3> QED
      BY <3>5, <3>6
  <2> QED
    BY <2>1, <2>2 DEF AnswerIsListed
<1> QED
  BY <1>1, FileTyped, AloneInvAlways, AnswerInvAlways, PTL

=============================================================================
