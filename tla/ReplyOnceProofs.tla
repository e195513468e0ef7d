------------------------- MODULE ReplyOnceProofs ----------------------------
(***************************************************************************)
(* The delivery guarantees of MessagePipeline: at most one request per     *)
(* message, and no completed message without an acknowledged request.      *)
(*                                                                         *)
(* The invariant relates the worker that is between the claim of the       *)
(* idempotency key and finalize to the attempt's record: such a worker is  *)
(* alone, its attempt is pending, and before the request nothing was sent. *)
(*                                                                         *)
(* MessagePipeline then implements ReplyOnce for every instance: a worker  *)
(* about to post is the first to do so and its message is not completed;   *)
(* one more invariant is needed, that a worker only has messages the       *)
(* outbox has.                                                             *)
(***************************************************************************)
EXTENDS PipelineRefinement, MessagePipelineProofs

InFlight == {"post", "finalize"}

(* What the records of a message say about the requests made for it.       *)
RecordsOK ==
    \A m \in Messages :
        /\ Len(sent[m]) <= 1
        /\ attempt[m] = "none" => Len(sent[m]) = 0
        /\ m \in acked => /\ Len(sent[m]) = 1
                          /\ attempt[m] \notin {"none", "pending"}
        /\ attempt[m] \in Acknowledged => m \in acked
        /\ status[m] = "completed" => m \in acked

(* What a worker in the middle of a delivery may rely on.                  *)
DelivererOK(w) ==
    /\ pc[w] \in InFlight => attempt[msg[w]] = "pending"
    /\ pc[w] = "post" => Len(sent[msg[w]]) = 0
    /\ pc[w] = "finalize" => /\ result[w] \in AdapterStatus
                             /\ result[w] = "accepted" => Len(sent[msg[w]]) = 1
    /\ pc[w] = "settle" /\ result[w] \in Acknowledged => msg[w] \in acked

SoleDeliverer ==
    \A v, w \in Workers :
        pc[v] \in InFlight /\ pc[w] \in InFlight /\ msg[v] = msg[w] => v = w

DeliveryInv ==
    /\ RecordsOK
    /\ \A w \in Workers : DelivererOK(w)
    /\ SoleDeliverer

-----------------------------------------------------------------------------
(* The invariant holds initially.                                          *)
LEMMA DeliveryInit == Init => DeliveryInv
  BY DEF Init, DeliveryInv, RecordsOK, DelivererOK, SoleDeliverer, InFlight,
         OutboxInit, LedgerInit, Acknowledged

(* A step that leaves the ledger and the requests alone, completes nothing *)
(* and moves no worker into a delivery preserves the invariant.            *)
LEMMA QuietStep ==
    ASSUME TypeOK, DeliveryInv, UNCHANGED <<ledgerVars, sent>>,
           \A m \in Messages : status'[m] = "completed" => status[m] = "completed",
           \A w \in Workers :
               \/ pc'[w] = pc[w] /\ msg'[w] = msg[w] /\ result'[w] = result[w]
               \/ pc'[w] \notin {"post", "finalize", "settle"}
    PROVE  DeliveryInv'
<1>1. RecordsOK'
  BY DEF DeliveryInv, RecordsOK, ledgerVars
<1>2. ASSUME NEW w \in Workers PROVE DelivererOK(w)'
  BY DEF DeliveryInv, DelivererOK, InFlight, ledgerVars
<1>3. SoleDeliverer'
  BY DEF DeliveryInv, SoleDeliverer, InFlight
<1> QED
  BY <1>1, <1>2, <1>3 DEF DeliveryInv

(* Every step of the pipeline preserves the invariant.                     *)
LEMMA DeliveryNext == TypeOK /\ DeliveryInv /\ [Next]_pipelineVars => DeliveryInv'
<1> SUFFICES ASSUME TypeOK, DeliveryInv, [Next]_pipelineVars PROVE DeliveryInv'
  OBVIOUS
<1> USE PipelineAssumption
<1> USE DEF TypeOK, WorkerTypeOK, locals, workerVars
<1>1. ASSUME NEW m \in Messages, Ingest(m)
      PROVE DeliveryInv'
  BY <1>1, QuietStep DEF Ingest, RecordInbound, outboxVars, OutboxTypeOK
<1>2. ASSUME NEW m \in Messages, RetryBecomesDue(m)
      PROVE DeliveryInv'
  BY <1>2, QuietStep DEF RetryBecomesDue, RetryDelayPasses
<1>3. ASSUME NEW m \in Messages, ClaimBecomesStale(m)
      PROVE DeliveryInv'
  BY <1>3, QuietStep DEF ClaimBecomesStale, ClaimTimesOut
<1>4. ASSUME NEW m \in Messages, NEW s \in Callbacks, ProviderCallback(m, s)
      PROVE DeliveryInv'
  <2>1. m \in acked /\ attempt[m] \notin {"none", "pending"}
    BY <1>4 DEF ProviderCallback, ApplyCallback, DeliveryInv, RecordsOK
  <2>2. /\ UNCHANGED <<acked, sent, status, pc, msg, result>>
        /\ attempt' = attempt \/ attempt' = [attempt EXCEPT ![m] = s]
    BY <1>4 DEF ProviderCallback, ApplyCallback, CommitCallback, ledgerVars,
                outboxVars
  <2>3. s \notin {"none", "pending"}
    BY DEF CallbackStatus
  <2>4. \A n \in Messages : attempt'[n] = attempt[n] \/ (n = m /\ attempt'[n] = s)
    BY <2>2 DEF LedgerTypeOK
  <2>5. RecordsOK'
    BY <2>1, <2>2, <2>3, <2>4 DEF DeliveryInv, RecordsOK
  <2>6. ASSUME NEW w \in Workers PROVE DelivererOK(w)'
    BY <2>1, <2>2, <2>4 DEF DeliveryInv, DelivererOK, InFlight, LocalsOK
  <2>7. SoleDeliverer'
    BY <2>2 DEF DeliveryInv, SoleDeliverer
  <2> QED
    BY <2>5, <2>6, <2>7 DEF DeliveryInv
<1>5. ASSUME NEW c \in Conversations, LeaseExpires(c)
      PROVE DeliveryInv'
  BY <1>5, QuietStep DEF LeaseExpires, outboxVars
<1>6. ASSUME NEW w \in Workers, Crash(w)
      PROVE DeliveryInv'
  BY <1>6, QuietStep DEF Crash, EndJob, Goto, outboxVars
<1>7. ASSUME NEW w \in Workers, Restart(w)
      PROVE DeliveryInv'
  BY <1>7, QuietStep DEF Restart, Goto, outboxVars
<1>8. ASSUME NEW w \in Workers, NEW m \in Messages, ClaimMessage(w, m)
      PROVE DeliveryInv'
  BY <1>8, QuietStep DEF ClaimMessage, ClaimNext, Goto, OutboxTypeOK
<1>9. ASSUME NEW w \in Workers, AcquireLease(w)
      PROVE DeliveryInv'
  BY <1>9, QuietStep DEF AcquireLease, Goto, outboxVars
<1>10. ASSUME NEW w \in Workers, ConversationBusy(w)
      PROVE DeliveryInv'
  BY <1>10, QuietStep DEF ConversationBusy, Goto, outboxVars
<1>11. ASSUME NEW w \in Workers, FindReply(w)
      PROVE DeliveryInv'
  BY <1>11, QuietStep DEF FindReply, ComposeEntry, Goto, outboxVars
<1>12. ASSUME NEW w \in Workers, RequestHandoff(w)
      PROVE DeliveryInv'
  BY <1>12, QuietStep DEF RequestHandoff, Goto, outboxVars
<1>13. ASSUME NEW w \in Workers, ComposeReply(w)
      PROVE DeliveryInv'
  BY <1>13, QuietStep DEF ComposeReply, Goto, outboxVars
<1>14. ASSUME NEW w \in Workers, RecordOutbound(w)
      PROVE DeliveryInv'
  BY <1>14, QuietStep DEF RecordOutbound, Goto, outboxVars
<1>15. ASSUME NEW w \in Workers, ReleaseLease(w)
      PROVE DeliveryInv'
  BY <1>15, QuietStep DEF ReleaseLease, Goto, outboxVars
<1>16. ASSUME NEW w \in Workers, ClaimDelivery(w)
      PROVE DeliveryInv'
  <2>1. msg[w] \in Messages /\ attempt[msg[w]] = "none"
    BY <1>16 DEF ClaimDelivery, ClaimCreated, LocalsOK
  <2>2. UNCHANGED <<acked, sent, status, msg, result>>
    BY <1>16 DEF ClaimDelivery, ClaimCreated, outboxVars
  <2>3. /\ attempt' = [attempt EXCEPT ![msg[w]] = "pending"]
        /\ pc' = [pc EXCEPT ![w] = "post"]
    BY <1>16 DEF ClaimDelivery, ClaimCreated, Goto
  <2>4. RecordsOK'
    BY <2>1, <2>2, <2>3 DEF DeliveryInv, RecordsOK, Acknowledged, LedgerTypeOK
  <2>5. ASSUME NEW v \in Workers, pc[v] \in InFlight PROVE msg[v] # msg[w]
    BY <2>1, <2>5 DEF DeliveryInv, DelivererOK
  <2>6. ASSUME NEW v \in Workers PROVE DelivererOK(v)'
    <3>1. CASE v = w
      BY <2>1, <2>2, <2>3, <3>1
      DEF DeliveryInv, DelivererOK, InFlight, RecordsOK, LedgerTypeOK
    <3>2. CASE v # w
      BY <2>2, <2>3, <2>5, <3>2 DEF DeliveryInv, DelivererOK, InFlight
    <3> QED
      BY <3>1, <3>2
  <2>7. SoleDeliverer'
    BY <2>2, <2>3, <2>5 DEF DeliveryInv, SoleDeliverer, InFlight
  <2> QED
    BY <2>4, <2>6, <2>7 DEF DeliveryInv
<1>17. ASSUME NEW w \in Workers, ReplayDelivery(w)
      PROVE DeliveryInv'
  <2>1. msg[w] \in Messages
    BY <1>17 DEF ReplayDelivery, LocalsOK
  <2>2. UNCHANGED <<attempt, acked, sent, status, msg>>
    BY <1>17 DEF ReplayDelivery, ClaimExisting, ledgerVars, outboxVars
  <2>3. /\ pc' = [pc EXCEPT ![w] = "settle"]
        /\ result' = [result EXCEPT ![w] = ExistingResult(attempt[msg[w]])]
    BY <1>17 DEF ReplayDelivery, Goto
  <2>4. ExistingResult(attempt[msg[w]]) \in Acknowledged => msg[w] \in acked
    BY <2>1 DEF ExistingResult, Acknowledged, DeliveryInv, RecordsOK
  <2>5. RecordsOK'
    BY <2>2 DEF DeliveryInv, RecordsOK
  <2>6. ASSUME NEW v \in Workers PROVE DelivererOK(v)'
    BY <2>2, <2>3, <2>4 DEF DeliveryInv, DelivererOK, InFlight
  <2>7. SoleDeliverer'
    BY <2>2, <2>3 DEF DeliveryInv, SoleDeliverer, InFlight
  <2> QED
    BY <2>5, <2>6, <2>7 DEF DeliveryInv
<1>18. ASSUME NEW w \in Workers, RequestNotSent(w)
      PROVE DeliveryInv'
  <2>1. PICK outcome \in {"failed", "unknown"} :
            result' = [result EXCEPT ![w] = outcome]
    BY <1>18 DEF RequestNotSent
  <2>2. /\ UNCHANGED <<attempt, acked, sent, status, msg>>
        /\ pc[w] = "post"
        /\ pc' = [pc EXCEPT ![w] = "finalize"]
    BY <1>18 DEF RequestNotSent, Goto, ledgerVars, outboxVars
  <2>3. RecordsOK'
    BY <2>2 DEF DeliveryInv, RecordsOK
  <2>4. ASSUME NEW v \in Workers PROVE DelivererOK(v)'
    BY <2>1, <2>2 DEF DeliveryInv, DelivererOK, InFlight, AdapterStatus
  <2>5. SoleDeliverer'
    BY <2>2 DEF DeliveryInv, SoleDeliverer, InFlight
  <2> QED
    BY <2>3, <2>4, <2>5 DEF DeliveryInv
<1>19. ASSUME NEW w \in Workers, PostToMeta(w)
      PROVE DeliveryInv'
  <2>1. PICK outcome \in AdapterStatus : result' = [result EXCEPT ![w] = outcome]
    BY <1>19 DEF PostToMeta
  <2>2. /\ UNCHANGED <<attempt, acked, status, msg>>
        /\ pc[w] = "post"
        /\ pc' = [pc EXCEPT ![w] = "finalize"]
        /\ sent' = [sent EXCEPT ![msg[w]] = Append(@, text[w])]
    BY <1>19 DEF PostToMeta, Goto, ledgerVars, outboxVars
  <2>3. msg[w] \in Messages /\ text[w] \in Texts
    BY <2>2 DEF LocalsOK
  <2>4. Len(sent[msg[w]]) = 0 /\ attempt[msg[w]] = "pending"
    BY <2>2 DEF DeliveryInv, DelivererOK, InFlight
  <2>5. /\ Len(sent'[msg[w]]) = 1
        /\ \A m \in Messages : m # msg[w] => sent'[m] = sent[m]
    BY <2>2, <2>3, <2>4
  <2>6. RecordsOK'
    BY <2>2, <2>3, <2>4, <2>5 DEF DeliveryInv, RecordsOK
  <2>7. ASSUME NEW v \in Workers PROVE DelivererOK(v)'
    <3>1. CASE v = w
      BY <2>1, <2>2, <2>4, <2>5, <3>1 DEF DelivererOK, InFlight
    <3>2. CASE v # w
      <4>1. pc[v] \in InFlight => msg[v] # msg[w] /\ msg[v] \in Messages
        BY <2>2, <3>2 DEF DeliveryInv, SoleDeliverer, InFlight, LocalsOK
      <4> QED
        BY <2>1, <2>2, <2>5, <3>2, <4>1 DEF DeliveryInv, DelivererOK, InFlight
    <3> QED
      BY <3>1, <3>2
  <2>8. SoleDeliverer'
    BY <2>2 DEF DeliveryInv, SoleDeliverer, InFlight
  <2> QED
    BY <2>6, <2>7, <2>8 DEF DeliveryInv
<1>20. ASSUME NEW w \in Workers, FinalizeAttempt(w)
      PROVE DeliveryInv'
  <2> DEFINE m == msg[w]
  <2>1. /\ pc[w] = "finalize"
        /\ pc' = [pc EXCEPT ![w] = "settle"]
        /\ UNCHANGED <<sent, status, msg, result>>
        /\ attempt[m] = "pending"
        /\ attempt' = [attempt EXCEPT ![m] = result[w]]
        /\ acked' = IF result[w] = "accepted" THEN acked \cup {m} ELSE acked
    BY <1>20 DEF FinalizeAttempt, Finalize, Goto, outboxVars
  <2>2. m \in Messages
    BY <2>1 DEF LocalsOK
  <2>3. /\ result[w] \in AdapterStatus
        /\ result[w] = "accepted" => Len(sent[m]) = 1
    BY <2>1 DEF DeliveryInv, DelivererOK
  <2>4. \A n \in Messages : n # m => attempt'[n] = attempt[n]
                                     /\ (n \in acked' <=> n \in acked)
    BY <2>1 DEF LedgerTypeOK
  <2>5. attempt'[m] = result[w] /\ m \notin acked
    BY <2>1, <2>2 DEF LedgerTypeOK, DeliveryInv, RecordsOK
  <2>6. RecordsOK'
    BY <2>1, <2>2, <2>3, <2>4, <2>5
    DEF DeliveryInv, RecordsOK, AdapterStatus, Acknowledged
  <2>7. ASSUME NEW v \in Workers PROVE DelivererOK(v)'
    <3>1. CASE v = w
      BY <2>1, <2>3, <3>1 DEF DelivererOK, InFlight, AdapterStatus, Acknowledged
    <3>2. CASE v # w
      <4>1. pc[v] \in InFlight => msg[v] # m /\ msg[v] \in Messages
        BY <2>1, <3>2 DEF DeliveryInv, SoleDeliverer, InFlight, LocalsOK
      <4>2. acked \subseteq acked'
        BY <2>1
      <4> QED
        BY <2>1, <2>4, <3>2, <4>1, <4>2 DEF DeliveryInv, DelivererOK, InFlight
    <3> QED
      BY <3>1, <3>2
  <2>8. SoleDeliverer'
    BY <2>1 DEF DeliveryInv, SoleDeliverer, InFlight
  <2> QED
    BY <2>6, <2>7, <2>8 DEF DeliveryInv
<1>21. ASSUME NEW w \in Workers, SettleClaim(w)
      PROVE DeliveryInv'
  <2>1. msg[w] \in Messages /\ pc[w] = "settle"
    BY <1>21 DEF SettleClaim, LocalsOK
  <2>2. /\ UNCHANGED <<attempt, acked, sent>>
        /\ \A v \in Workers : v # w => /\ pc'[v] = pc[v]
                                       /\ msg'[v] = msg[v]
                                       /\ result'[v] = result[v]
        /\ pc'[w] = "idle"
    BY <1>21 DEF SettleClaim, EndJob, Goto, ledgerVars
  <2>3. \A m \in Messages : status'[m] = "completed" =>
            status[m] = "completed" \/ (m = msg[w] /\ result[w] \in Acknowledged)
    BY <1>21, <2>1 DEF SettleClaim, Complete, Fail, Transition, OutboxTypeOK
  <2>4. RecordsOK'
    BY <2>1, <2>2, <2>3 DEF DeliveryInv, RecordsOK, DelivererOK
  <2>5. ASSUME NEW v \in Workers PROVE DelivererOK(v)'
    BY <2>2 DEF DeliveryInv, DelivererOK, InFlight
  <2>6. SoleDeliverer'
    BY <2>2 DEF DeliveryInv, SoleDeliverer, InFlight
  <2> QED
    BY <2>4, <2>5, <2>6 DEF DeliveryInv
<1>22. ASSUME NEW w \in Workers, FailClaim(w)
      PROVE DeliveryInv'
  <2>1. msg[w] \in Messages
    BY <1>22 DEF FailClaim, LocalsOK
  <2>2. \A m \in Messages : status'[m] = "completed" => status[m] = "completed"
    BY <1>22, <2>1 DEF FailClaim, Fail, Transition, OutboxTypeOK
  <2> QED
    BY <1>22, <2>2, QuietStep DEF FailClaim, EndJob, Goto
<1>23. ASSUME NEW w \in Workers, ClaimLost(w)
      PROVE DeliveryInv'
  BY <1>23, QuietStep DEF ClaimLost, EndJob, Goto, outboxVars
<1>24. ASSUME NEW w \in Workers, StepRaises(w)
      PROVE DeliveryInv'
  BY <1>24, QuietStep DEF StepRaises, Goto, outboxVars
<1>25. CASE UNCHANGED pipelineVars
  BY <1>25, QuietStep DEF pipelineVars, outboxVars
<1> QED
  BY <1>1, <1>2, <1>3, <1>4, <1>5, <1>6, <1>7, <1>8, <1>9,
     <1>10, <1>11, <1>12, <1>13, <1>14, <1>15, <1>16, <1>17, <1>18,
     <1>19, <1>20, <1>21, <1>22, <1>23, <1>24, <1>25
  DEF Next, WorkerStep

-----------------------------------------------------------------------------
(* For any number of workers, crashes and takeovers, at most one request   *)
(* per message reaches Meta.                                               *)
THEOREM PostedAtMostOnce == Spec => []AtMostOnePost
<1>1. DeliveryInv => AtMostOnePost
  BY DEF DeliveryInv, RecordsOK, AtMostOnePost
<1> QED
  BY <1>1, TypeCorrect, DeliveryInit, DeliveryNext, PTL DEF Spec

(* For any instance, a completed message has an acknowledged request.      *)
THEOREM CompletedOnlyIfAcknowledged == Spec => []CompletedWasAcknowledged
<1>1. DeliveryInv => CompletedWasAcknowledged
  BY DEF DeliveryInv, RecordsOK, CompletedWasAcknowledged
<1> QED
  BY <1>1, TypeCorrect, DeliveryInit, DeliveryNext, PTL DEF Spec

-----------------------------------------------------------------------------
(* A step of the promise, or none.                                         *)
PromiseStep == [Promise!Next]_(Promise!promiseVars)

(* A step that keeps the outbox statuses and the requests is a stutter.    *)
LEMMA SilentStep ==
    ASSUME UNCHANGED status, UNCHANGED sent
    PROVE  PromiseStep
  BY DEF PromiseStep, Promise!promiseVars, phaseOf

(* Before anything was received nothing has been sent.                     *)
LEMMA PromiseInit == Init => Promise!Init
  BY DEF Init, OutboxInit, Promise!Init, phaseOf

(* A webhook delivery is the receipt of a message the first time.          *)
LEMMA IngestPromise ==
    ASSUME TypeOK, NEW m \in Messages, Ingest(m)
    PROVE  PromiseStep
<1>1. CASE status[m] = "absent"
  <2>1. status' = [status EXCEPT ![m] = "pending"] /\ UNCHANGED sent
    BY <1>1 DEF Ingest, RecordInbound
  <2>2. phaseOf[m] = "absent"
    BY <1>1 DEF phaseOf
  <2>3. phaseOf' = [phaseOf EXCEPT ![m] = "open"]
    BY <2>1 DEF phaseOf, TypeOK, OutboxTypeOK
  <2> QED
    BY <2>1, <2>2, <2>3 DEF PromiseStep, Promise!Next, Promise!Receive,
       Promise!Move
<1>2. CASE status[m] # "absent"
  BY <1>2, SilentStep DEF Ingest, RecordInbound, outboxVars
<1> QED
  BY <1>1, <1>2

(* A claim, first or taken over, keeps an open message open.               *)
LEMMA ClaimPromise ==
    ASSUME TypeOK, NEW w \in Workers, NEW m \in Messages, ClaimMessage(w, m)
    PROVE  PromiseStep
<1>1. /\ status[m] \in {"pending", "processing"}
      /\ status' = [status EXCEPT ![m] = "processing"]
      /\ UNCHANGED sent
  BY DEF ClaimMessage, ClaimNext, Claimable
<1>2. UNCHANGED phaseOf
  BY <1>1 DEF phaseOf, TypeOK, OutboxTypeOK
<1> QED
  BY <1>1, <1>2 DEF PromiseStep, Promise!promiseVars

(* complete and fail settle the message, or leave it open for a retry.     *)
LEMMA TransitionPromise ==
    ASSUME TypeOK, CompletedWasAcknowledged', NEW m \in Messages,
           NEW s \in {"pending", "completed", "failed"}, Transition(m, s),
           UNCHANGED sent
    PROVE  PromiseStep
<1>1. status[m] = "processing" /\ status' = [status EXCEPT ![m] = s]
  BY DEF Transition, ClaimActive
<1>2. phaseOf[m] = "open"
  BY <1>1 DEF phaseOf
<1>3. CASE s = "pending"
  <2>1. UNCHANGED phaseOf
    BY <1>1, <1>3 DEF phaseOf, TypeOK, OutboxTypeOK
  <2> QED
    BY <2>1 DEF PromiseStep, Promise!promiseVars
<1>4. CASE s = "completed"
  <2>1. phaseOf' = [phaseOf EXCEPT ![m] = "completed"]
    BY <1>1, <1>4 DEF phaseOf, TypeOK, OutboxTypeOK
  <2>2. status'[m] = "completed"
    BY <1>1, <1>4 DEF TypeOK, OutboxTypeOK
  <2>3. Len(sent[m]) = 1
    BY <2>2 DEF CompletedWasAcknowledged
  <2>4. sent[m] # <<>>
    BY <2>3
  <2> QED
    BY <1>2, <2>1, <2>4 DEF PromiseStep, Promise!Next, Promise!Complete,
       Promise!Move
<1>5. CASE s = "failed"
  <2>1. phaseOf' = [phaseOf EXCEPT ![m] = "failed"]
    BY <1>1, <1>5 DEF phaseOf, TypeOK, OutboxTypeOK
  <2> QED
    BY <1>2, <2>1 DEF PromiseStep, Promise!Next, Promise!GiveUp, Promise!Move
<1> QED
  BY <1>3, <1>4, <1>5

-----------------------------------------------------------------------------
(* The message of a worker is a row of the outbox.                         *)
ClaimedIsRecorded ==
    \A w \in Workers : msg[w] # None => status[msg[w]] # "absent"

(* Rows are never deleted, so a worker that keeps its message or drops it  *)
(* keeps the invariant.                                                    *)
LEMMA RecordedStep ==
    ASSUME ClaimedIsRecorded,
           \A m \in Messages : status[m] # "absent" => status'[m] # "absent",
           \A w \in Workers : msg[w] # None => msg[w] \in Messages,
           \A w \in Workers : msg'[w] = msg[w] \/ msg'[w] = None
    PROVE  ClaimedIsRecorded'
  BY DEF ClaimedIsRecorded

(* A step of any worker, webhook or clock preserves the invariant.         *)
LEMMA RecordedNext ==
    TypeOK /\ ClaimedIsRecorded /\ [Next]_pipelineVars => ClaimedIsRecorded'
<1> SUFFICES ASSUME TypeOK, ClaimedIsRecorded, [Next]_pipelineVars
             PROVE  ClaimedIsRecorded'
  OBVIOUS
<1> USE NoneAssumption
<1>1. \A w \in Workers : msg[w] # None => msg[w] \in Messages
  BY DEF TypeOK, WorkerTypeOK
<1>2. ASSUME UNCHANGED status,
             \A w \in Workers : msg'[w] = msg[w] \/ msg'[w] = None
      PROVE  ClaimedIsRecorded'
  BY <1>1, <1>2, RecordedStep
<1>3. ASSUME NEW m \in Messages, Ingest(m)
      PROVE  ClaimedIsRecorded'
  <2>1. UNCHANGED msg
    BY <1>3 DEF Ingest, workerVars, locals
  <2>2. \A n \in Messages : status[n] # "absent" => status'[n] # "absent"
    <3>1. CASE status[m] = "absent"
      BY <1>3, <3>1 DEF Ingest, RecordInbound, TypeOK, OutboxTypeOK
    <3>2. CASE status[m] # "absent"
      BY <1>3, <3>2 DEF Ingest, RecordInbound, outboxVars
    <3> QED
      BY <3>1, <3>2
  <2> QED
    BY <1>1, <2>1, <2>2, RecordedStep
<1>4. ASSUME NEW w \in Workers, NEW m \in Messages, ClaimMessage(w, m)
      PROVE  ClaimedIsRecorded'
  <2>1. /\ status' = [status EXCEPT ![m] = "processing"]
        /\ msg' = [msg EXCEPT ![w] = m]
    BY <1>4 DEF ClaimMessage, ClaimNext
  <2>2. \A v \in Workers : msg'[v] = IF v = w THEN m ELSE msg[v]
    BY <2>1 DEF TypeOK, WorkerTypeOK
  <2>3. \A n \in Messages : status'[n] = IF n = m THEN "processing" ELSE status[n]
    BY <2>1 DEF TypeOK, OutboxTypeOK
  <2> QED
    BY <1>1, <2>2, <2>3 DEF ClaimedIsRecorded
<1>5. ASSUME NEW w \in Workers, SettleClaim(w) \/ FailClaim(w)
      PROVE  ClaimedIsRecorded'
  <2>1. msg[w] \in Messages
    BY <1>5 DEF SettleClaim, FailClaim, TypeOK, LocalsOK
  <2>2. PICK s \in {"pending", "completed", "failed"} : Transition(msg[w], s)
    BY <1>5 DEF SettleClaim, FailClaim, Complete, Fail
  <2>3. \A n \in Messages : status[n] # "absent" => status'[n] # "absent"
    BY <2>1, <2>2 DEF Transition, TypeOK, OutboxTypeOK
  <2>4. \A v \in Workers : msg'[v] = msg[v] \/ msg'[v] = None
    BY <1>5 DEF SettleClaim, FailClaim, EndJob, TypeOK, WorkerTypeOK
  <2> QED
    BY <1>1, <2>3, <2>4, RecordedStep
<1>6. ASSUME \/ \E m \in Messages : \/ RetryBecomesDue(m)
                                    \/ ClaimBecomesStale(m)
                                    \/ \E s \in Callbacks : ProviderCallback(m, s)
             \/ \E c \in Conversations : LeaseExpires(c)
      PROVE ClaimedIsRecorded'
  BY <1>2, <1>6 DEF RetryBecomesDue, RetryDelayPasses, ClaimBecomesStale,
     ClaimTimesOut, ProviderCallback, LeaseExpires, outboxVars, workerVars, locals
<1>7. ASSUME NEW w \in Workers,
             \/ AcquireLease(w) \/ ConversationBusy(w) \/ FindReply(w)
             \/ RequestHandoff(w) \/ ComposeReply(w) \/ RecordOutbound(w)
             \/ ReleaseLease(w) \/ ClaimDelivery(w) \/ ReplayDelivery(w)
             \/ RequestNotSent(w) \/ PostToMeta(w) \/ FinalizeAttempt(w)
             \/ StepRaises(w) \/ Restart(w)
      PROVE ClaimedIsRecorded'
  <2>1. UNCHANGED <<status, msg>>
    BY <1>7 DEF AcquireLease, ConversationBusy, FindReply, RequestHandoff,
       ComposeReply, RecordOutbound, ReleaseLease, ClaimDelivery,
       ReplayDelivery, RequestNotSent, PostToMeta, FinalizeAttempt,
       StepRaises, Restart, outboxVars, locals
  <2> QED
    BY <1>2, <2>1
<1>8. ASSUME NEW w \in Workers, ClaimLost(w) \/ Crash(w)
      PROVE ClaimedIsRecorded'
  <2>1. UNCHANGED status
    BY <1>8 DEF ClaimLost, Crash, outboxVars
  <2>2. \A v \in Workers : msg'[v] = msg[v] \/ msg'[v] = None
    BY <1>8 DEF ClaimLost, Crash, EndJob, locals, TypeOK, WorkerTypeOK
  <2> QED
    BY <1>2, <2>1, <2>2
<1>9. CASE UNCHANGED pipelineVars
  BY <1>2, <1>9 DEF pipelineVars, outboxVars, workerVars, locals
<1> QED
  BY <1>3, <1>4, <1>5, <1>6, <1>7, <1>8, <1>9 DEF Next, WorkerStep

-----------------------------------------------------------------------------
(* The one request of a message is the abstract Send.                      *)
LEMMA PostPromise ==
    ASSUME TypeOK, DeliveryInv, ClaimedIsRecorded, NEW w \in Workers,
           PostToMeta(w)
    PROVE  PromiseStep
<1> DEFINE m == msg[w]
<1>1. pc[w] = "post" /\ m \in Messages /\ text[w] \in Texts
  BY DEF PostToMeta, TypeOK, LocalsOK
<1>2. sent[m] \in Seq(Texts) /\ Len(sent[m]) = 0
  BY <1>1 DEF DeliveryInv, DelivererOK, TypeOK
<1>3. sent[m] = <<>>
  BY <1>2
<1>4. attempt[m] = "pending"
  BY <1>1 DEF DeliveryInv, DelivererOK, InFlight
<1>5. status[m] # "completed"
  BY <1>1, <1>4 DEF DeliveryInv, RecordsOK
<1>6. status[m] # "absent"
  BY <1>1, NoneAssumption DEF ClaimedIsRecorded
<1>7. phaseOf[m] \in {"open", "failed"}
  BY <1>1, <1>5, <1>6 DEF phaseOf, TypeOK, OutboxTypeOK, ProcessingStatus
<1>8. /\ sent' = [sent EXCEPT ![m] = Append(sent[m], text[w])]
      /\ UNCHANGED status
  BY DEF PostToMeta, outboxVars
<1>9. Append(sent[m], text[w]) = <<text[w]>>
  BY <1>1, <1>3
<1>10. sent' = [sent EXCEPT ![m] = <<text[w]>>]
  BY <1>8, <1>9
<1>11. UNCHANGED phaseOf
  BY <1>8 DEF phaseOf
<1>12. Promise!Send(m, text[w])
  BY <1>3, <1>7, <1>10, <1>11 DEF Promise!Send
<1> QED
  BY <1>1, <1>12 DEF PromiseStep, Promise!Next

(* Every step of the pipeline is a step of the promise or a stutter.       *)
LEMMA PromiseNext ==
    ASSUME TypeOK, DeliveryInv, ClaimedIsRecorded, DeliveryInv',
           [Next]_pipelineVars
    PROVE  PromiseStep
<1>1. ASSUME NEW m \in Messages, Ingest(m)
      PROVE  PromiseStep
  BY <1>1, IngestPromise
<1>2. ASSUME NEW w \in Workers, NEW m \in Messages, ClaimMessage(w, m)
      PROVE  PromiseStep
  BY <1>2, ClaimPromise
<1>3. ASSUME NEW w \in Workers, SettleClaim(w) \/ FailClaim(w)
      PROVE  PromiseStep
  <2>1. msg[w] \in Messages /\ UNCHANGED sent
    BY <1>3 DEF SettleClaim, FailClaim, TypeOK, LocalsOK
  <2>2. PICK s \in {"pending", "completed", "failed"} : Transition(msg[w], s)
    BY <1>3 DEF SettleClaim, FailClaim, Complete, Fail
  <2>3. CompletedWasAcknowledged'
    BY DEF DeliveryInv, RecordsOK, CompletedWasAcknowledged
  <2> QED
    BY <2>1, <2>2, <2>3, TransitionPromise
<1>4. ASSUME NEW w \in Workers, PostToMeta(w)
      PROVE  PromiseStep
  BY <1>4, PostPromise
<1>5. ASSUME \/ \E m \in Messages : \/ RetryBecomesDue(m)
                                    \/ ClaimBecomesStale(m)
                                    \/ \E s \in Callbacks : ProviderCallback(m, s)
             \/ \E c \in Conversations : LeaseExpires(c)
      PROVE PromiseStep
  <2>1. UNCHANGED status /\ UNCHANGED sent
    BY <1>5 DEF RetryBecomesDue, RetryDelayPasses, ClaimBecomesStale,
       ClaimTimesOut, ProviderCallback, LeaseExpires, outboxVars
  <2> QED
    BY <2>1, SilentStep
<1>6. ASSUME NEW w \in Workers,
             \/ AcquireLease(w) \/ ConversationBusy(w) \/ FindReply(w)
             \/ RequestHandoff(w) \/ ComposeReply(w) \/ RecordOutbound(w)
             \/ ReleaseLease(w) \/ ClaimDelivery(w) \/ ReplayDelivery(w)
             \/ RequestNotSent(w) \/ FinalizeAttempt(w) \/ ClaimLost(w)
             \/ StepRaises(w) \/ Crash(w) \/ Restart(w)
      PROVE PromiseStep
  <2>1. UNCHANGED status /\ UNCHANGED sent
    BY <1>6 DEF AcquireLease, ConversationBusy, FindReply, RequestHandoff,
       ComposeReply, RecordOutbound, ReleaseLease, ClaimDelivery,
       ReplayDelivery, RequestNotSent, FinalizeAttempt, ClaimLost,
       StepRaises, Crash, Restart, outboxVars
  <2> QED
    BY <2>1, SilentStep
<1>7. CASE UNCHANGED pipelineVars
  BY <1>7, SilentStep DEF pipelineVars, outboxVars
<1> QED
  BY <1>1, <1>2, <1>3, <1>4, <1>5, <1>6, <1>7 DEF Next, WorkerStep

(* For any number of workers, messages, crashes, retries and takeovers the *)
(* pipeline behaves as ReplyOnce: each message is received, answered at    *)
(* most once and settled once.                                             *)
THEOREM PipelineImplementsReplyOnce == Spec => ImplementsReplyOnce
<1>1. Init => ClaimedIsRecorded
  BY DEF Init, ClaimedIsRecorded
<1>2. TypeOK /\ DeliveryInv /\ ClaimedIsRecorded /\ DeliveryInv'
        /\ [Next]_pipelineVars => [Promise!Next]_(Promise!promiseVars)
  BY PromiseNext DEF PromiseStep
<1> QED
  BY <1>1, <1>2, PromiseInit, TypeCorrect, DeliveryInit, DeliveryNext,
     RecordedNext, PTL DEF Spec, ImplementsReplyOnce, Promise!Spec

=============================================================================
