----------------------- MODULE MessagePipelineProofs ------------------------
(***************************************************************************)
(* Machine-checked proofs about MessagePipeline, for any sets of messages, *)
(* conversations, workers and texts, and any bounds.                       *)
(***************************************************************************)
EXTENDS MessagePipeline, DeliveryLedgerProofs, FiniteSets, FiniteSetTheorems

-----------------------------------------------------------------------------
(* Operations of the outbox keep the types of its columns.                 *)
LEMMA RecordInboundType ==
    ASSUME OutboxTypeOK, NEW m \in Messages, RecordInbound(m)
    PROVE  OutboxTypeOK'
<1>1. CASE status[m] = "absent"
  BY <1>1 DEF RecordInbound, OutboxTypeOK, ProcessingStatus
<1>2. CASE status[m] # "absent"
  BY <1>2 DEF RecordInbound, OutboxTypeOK, outboxVars
<1> QED
  BY <1>1, <1>2

(* A claim keeps the types.                                                *)
LEMMA ClaimNextType ==
    ASSUME OutboxTypeOK, NEW m \in Messages, ClaimNext(m)
    PROVE  OutboxTypeOK'
  BY DEF ClaimNext, OutboxTypeOK, ProcessingStatus

(* A settlement keeps the types.                                           *)
LEMMA TransitionType ==
    ASSUME OutboxTypeOK, NEW m \in Messages, NEW s \in ProcessingStatus,
           Transition(m, s)
    PROVE  OutboxTypeOK'
  BY DEF Transition, OutboxTypeOK

(* fail keeps the types, with a retry left or not.                         *)
LEMMA FailType ==
    ASSUME OutboxTypeOK, NEW m \in Messages, NEW retry, Fail(m, retry)
    PROVE  OutboxTypeOK'
<1>1. (IF retry THEN "pending" ELSE "failed") \in ProcessingStatus
  BY DEF ProcessingStatus
<1> QED
  BY <1>1, TransitionType DEF Fail

(* Moving a worker keeps the type of its control point.                    *)
LEMMA GotoType ==
    ASSUME WorkerTypeOK, NEW w \in Workers, NEW p \in Control, Goto(w, p)
    PROVE  pc' \in [Workers -> Control]
  BY DEF WorkerTypeOK, Goto

(* Ending a job keeps the types of the worker's locals.                    *)
LEMMA EndJobType ==
    ASSUME WorkerTypeOK, NEW w \in Workers, NEW p \in Control, EndJob(w, p)
    PROVE  WorkerTypeOK'
  BY DEF WorkerTypeOK, EndJob, Goto

(* The names of the control points are control points.                     *)
LEMMA ControlPoints ==
    /\ "idle" \in Control /\ "acquire" \in Control /\ "find" \in Control
    /\ "handoff" \in Control /\ "compose" \in Control /\ "record" \in Control
    /\ "release" \in Control /\ "unwind" \in Control /\ "claim" \in Control
    /\ "post" \in Control /\ "finalize" \in Control /\ "settle" \in Control
    /\ "fail" \in Control /\ "down" \in Control
  BY DEF Control

(* Groups of variables that a step leaves alone keep their types.          *)
LEMMA FrameTypes ==
    /\ OutboxTypeOK /\ UNCHANGED outboxVars => OutboxTypeOK'
    /\ LockTypeOK /\ UNCHANGED lease => LockTypeOK'
    /\ LedgerTypeOK /\ UNCHANGED ledgerVars => LedgerTypeOK'
    /\ WorkerTypeOK /\ UNCHANGED workerVars => WorkerTypeOK'
    /\ WorkerTypeOK /\ UNCHANGED locals /\ pc' \in [Workers -> Control]
          => WorkerTypeOK'
    /\ StoreTypeOK /\ UNCHANGED storeVars => StoreTypeOK'
  BY DEF OutboxTypeOK, outboxVars, LockTypeOK, LedgerTypeOK, ledgerVars,
         WorkerTypeOK, workerVars, locals, StoreTypeOK, storeVars

-----------------------------------------------------------------------------
(* In the initial state every variable has its type.                       *)
LEMMA TypeInit == Init => TypeOK
  BY PipelineAssumption
  DEF Init, TypeOK, WorkerTypeOK, LocalsOK, StoreTypeOK, OutboxInit,
      OutboxTypeOK, ProcessingStatus, LockInit, LockTypeOK, LedgerInit,
      LedgerTypeOK, Control

(* TypeOK without LocalsOK.                                                *)
Types ==
    /\ OutboxTypeOK
    /\ LockTypeOK
    /\ LedgerTypeOK
    /\ WorkerTypeOK
    /\ StoreTypeOK
    /\ sent \in [Messages -> Seq(Texts)]
    /\ overrun \subseteq Messages
    /\ crashes \in Nat

(* Every step keeps the variables in their sets.                           *)
LEMMA TypesNext == TypeOK /\ [Next]_pipelineVars => Types'
<1> SUFFICES ASSUME TypeOK, [Next]_pipelineVars PROVE Types'
  OBVIOUS
<1> USE PipelineAssumption, FrameTypes, ControlPoints DEF TypeOK, Types
<1>1. ASSUME NEW m \in Messages, Ingest(m)
      PROVE Types'
  BY <1>1, RecordInboundType DEF Ingest
<1>2. ASSUME NEW m \in Messages, RetryBecomesDue(m)
      PROVE Types'
  BY <1>2 DEF RetryBecomesDue, RetryDelayPasses, OutboxTypeOK
<1>3. ASSUME NEW m \in Messages, ClaimBecomesStale(m)
      PROVE Types'
  BY <1>3 DEF ClaimBecomesStale, ClaimTimesOut, OutboxTypeOK
<1>4. ASSUME NEW m \in Messages, NEW s \in Callbacks, ProviderCallback(m, s)
      PROVE Types'
  <2>1. s \in CallbackStatus
    OBVIOUS
  <2> QED
    BY <1>4, <2>1, CommitCallbackType DEF ProviderCallback, ApplyCallback
<1>5. ASSUME NEW c \in Conversations, LeaseExpires(c)
      PROVE Types'
  BY <1>5 DEF LeaseExpires, Expire, LockTypeOK
<1>6. ASSUME NEW w \in Workers, Crash(w)
      PROVE Types'
  BY <1>6, EndJobType DEF Crash
<1>7. ASSUME NEW w \in Workers, Restart(w)
      PROVE Types'
  BY <1>7, GotoType DEF Restart
<1>8. ASSUME NEW w \in Workers, NEW m \in Messages, ClaimMessage(w, m)
      PROVE Types'
  <2>1. WorkerTypeOK'
    BY <1>8 DEF ClaimMessage, Goto, WorkerTypeOK, OutboxTypeOK
  <2> QED
    BY <1>8, <2>1, ClaimNextType DEF ClaimMessage
<1>9. ASSUME NEW w \in Workers, pc[w] \notin {"idle", "down"}
      PROVE msg[w] \in Messages /\ Conv(w) \in Conversations
  BY <1>9 DEF LocalsOK, Conv
<1>10. ASSUME NEW w \in Workers, AcquireLease(w)
      PROVE Types'
  BY <1>9, <1>10, GotoType DEF AcquireLease, Acquire, LockTypeOK
<1>11. ASSUME NEW w \in Workers, ConversationBusy(w)
      PROVE Types'
  <2>1. LockTypeOK'
    BY <1>9, <1>11 DEF ConversationBusy, AcquireRefused, Acquire, LockTypeOK
  <2> QED
    BY <1>11, <2>1, GotoType DEF ConversationBusy
<1>12. ASSUME NEW w \in Workers, FindReply(w)
      PROVE Types'
  <2>1. CASE reply[msg[w]] # None
    <3>1. reply[msg[w]] \in Texts
      BY <1>9, <1>12, <2>1 DEF FindReply, StoreTypeOK
    <3>2. WorkerTypeOK'
      BY <1>12, <2>1, <3>1 DEF FindReply, Goto, WorkerTypeOK
    <3> QED
      BY <1>12, <3>2 DEF FindReply
  <2>2. CASE reply[msg[w]] = None
    <3>1. ComposeEntry(msg[w]) \in Control
      BY DEF ComposeEntry
    <3>2. pc' \in [Workers -> Control]
      BY <1>12, <2>2, <3>1, GotoType DEF FindReply
    <3> QED
      BY <1>12, <2>2, <3>2 DEF FindReply, locals
  <2> QED
    BY <2>1, <2>2
<1>13. ASSUME NEW w \in Workers, RequestHandoff(w)
      PROVE Types'
  <2>1. StoreTypeOK'
    BY <1>9, <1>13 DEF RequestHandoff, StoreTypeOK
  <2> QED
    BY <1>13, <2>1, GotoType DEF RequestHandoff
<1>14. ASSUME NEW w \in Workers, ComposeReply(w)
      PROVE Types'
  <2>1. WorkerTypeOK'
    BY <1>14 DEF ComposeReply, Goto, WorkerTypeOK
  <2> QED
    BY <1>14, <2>1 DEF ComposeReply
<1>15. ASSUME NEW w \in Workers, RecordOutbound(w)
      PROVE Types'
  <2>1. StoreTypeOK'
    BY <1>9, <1>15 DEF RecordOutbound, StoreTypeOK, WorkerTypeOK
  <2> QED
    BY <1>15, <2>1, GotoType DEF RecordOutbound
<1>16. ASSUME NEW w \in Workers, ReleaseLease(w)
      PROVE Types'
  <2>1. LockTypeOK'
    BY <1>9, <1>16 DEF ReleaseLease, Release, ReleaseUnavailable, LockTypeOK
  <2>2. (IF pc[w] = "release" THEN "claim" ELSE "fail") \in Control
    OBVIOUS
  <2>3. pc' \in [Workers -> Control]
    BY <1>16, <2>2, GotoType DEF ReleaseLease
  <2> QED
    BY <1>16, <2>1, <2>3 DEF ReleaseLease
<1>17. ASSUME NEW w \in Workers, ClaimDelivery(w)
      PROVE Types'
  BY <1>9, <1>17, GotoType, ClaimCreatedType DEF ClaimDelivery
<1>18. ASSUME NEW w \in Workers, ReplayDelivery(w)
      PROVE Types'
  <2>1. ExistingResult(attempt[msg[w]]) \in DeliveryAttemptState
    BY <1>9, <1>18 DEF ReplayDelivery, ClaimExisting, ExistingResult,
                       LedgerTypeOK, DeliveryAttemptState
  <2>2. WorkerTypeOK'
    BY <1>18, <2>1 DEF ReplayDelivery, Goto, WorkerTypeOK
  <2> QED
    BY <1>18, <2>2 DEF ReplayDelivery, ClaimExisting
<1>19. ASSUME NEW w \in Workers, RequestNotSent(w)
      PROVE Types'
  <2>1. WorkerTypeOK'
    BY <1>19 DEF RequestNotSent, Goto, WorkerTypeOK, DeliveryAttemptState
  <2> QED
    BY <1>19, <2>1 DEF RequestNotSent
<1>20. ASSUME NEW w \in Workers, PostToMeta(w)
      PROVE Types'
  <2>1. text[w] \in Texts
    BY <1>20 DEF PostToMeta, LocalsOK
  <2>2. sent' \in [Messages -> Seq(Texts)]
    BY <1>9, <1>20, <2>1 DEF PostToMeta
  <2>3. WorkerTypeOK'
    BY <1>20 DEF PostToMeta, Goto, WorkerTypeOK, AdapterStatus,
                 DeliveryAttemptState
  <2> QED
    BY <1>20, <2>2, <2>3 DEF PostToMeta
<1>21. ASSUME NEW w \in Workers, FinalizeAttempt(w)
      PROVE Types'
  <2>1. result[w] \in DeliveryAttemptState
    BY <1>21 DEF FinalizeAttempt, LocalsOK
  <2> QED
    BY <1>9, <1>21, <2>1, GotoType, FinalizeType DEF FinalizeAttempt
<1>22. ASSUME NEW w \in Workers, SettleClaim(w)
      PROVE Types'
  <2>1. "completed" \in ProcessingStatus
    BY DEF ProcessingStatus
  <2>2. OutboxTypeOK'
    BY <1>9, <1>22, <2>1, TransitionType, FailType DEF SettleClaim, Complete
  <2> QED
    BY <1>22, <2>2, EndJobType DEF SettleClaim
<1>23. ASSUME NEW w \in Workers, FailClaim(w)
      PROVE Types'
  BY <1>9, <1>23, FailType, EndJobType DEF FailClaim
<1>24. ASSUME NEW w \in Workers, ClaimLost(w)
      PROVE Types'
  <2>1. CASE Goto(w, "fail") /\ UNCHANGED locals
    BY <1>24, <2>1, GotoType DEF ClaimLost
  <2>2. CASE EndJob(w, "down")
    BY <1>24, <2>2, EndJobType DEF ClaimLost
  <2> QED
    BY <1>24, <2>1, <2>2 DEF ClaimLost
<1>25. ASSUME NEW w \in Workers, StepRaises(w)
      PROVE Types'
  <2>1. pc' \in [Workers -> Control]
    BY <1>25, GotoType DEF StepRaises
  <2> QED
    BY <1>25, <2>1 DEF StepRaises
<1>26. CASE UNCHANGED pipelineVars
  BY <1>26 DEF pipelineVars
<1> QED
  BY <1>1, <1>2, <1>3, <1>4, <1>5, <1>6, <1>7, <1>8, <1>10, <1>11, <1>12,
     <1>13, <1>14, <1>15, <1>16, <1>17, <1>18, <1>19, <1>20, <1>21, <1>22,
     <1>23, <1>24, <1>25, <1>26
  DEF Next, WorkerStep

(* Every step leaves a worker with the locals its control point needs.     *)
LEMMA LocalsNext == TypeOK /\ [Next]_pipelineVars => LocalsOK'
<1> SUFFICES ASSUME TypeOK, [Next]_pipelineVars PROVE LocalsOK'
  OBVIOUS
<1> USE PipelineAssumption, NoneAssumption
<1> USE DEF TypeOK, WorkerTypeOK, LocalsOK, locals, workerVars
<1>1. ASSUME NEW m \in Messages, Ingest(m)
      PROVE LocalsOK'
  BY <1>1 DEF Ingest
<1>2. ASSUME NEW m \in Messages, RetryBecomesDue(m)
      PROVE LocalsOK'
  BY <1>2 DEF RetryBecomesDue
<1>3. ASSUME NEW m \in Messages, ClaimBecomesStale(m)
      PROVE LocalsOK'
  BY <1>3 DEF ClaimBecomesStale
<1>4. ASSUME NEW m \in Messages, NEW s \in Callbacks, ProviderCallback(m, s)
      PROVE LocalsOK'
  BY <1>4 DEF ProviderCallback
<1>5. ASSUME NEW c \in Conversations, LeaseExpires(c)
      PROVE LocalsOK'
  BY <1>5 DEF LeaseExpires
<1>6. ASSUME NEW w \in Workers, Crash(w)
      PROVE LocalsOK'
  BY <1>6 DEF Crash, EndJob, Goto
<1>7. ASSUME NEW w \in Workers, Restart(w)
      PROVE LocalsOK'
  BY <1>7 DEF Restart, Goto
<1>8. ASSUME NEW w \in Workers, NEW m \in Messages, ClaimMessage(w, m)
      PROVE LocalsOK'
  BY <1>8 DEF ClaimMessage, Goto
<1>9. ASSUME NEW w \in Workers, AcquireLease(w)
      PROVE LocalsOK'
  BY <1>9 DEF AcquireLease, Goto
<1>10. ASSUME NEW w \in Workers, ConversationBusy(w)
      PROVE LocalsOK'
  BY <1>10 DEF ConversationBusy, Goto
<1>11. ASSUME NEW w \in Workers, FindReply(w)
      PROVE LocalsOK'
  <2>1. msg[w] \in Messages /\ reply[msg[w]] \in Texts \cup {None}
    BY <1>11 DEF FindReply, StoreTypeOK
  <2>2. CASE reply[msg[w]] # None
    BY <1>11, <2>1, <2>2 DEF FindReply, Goto
  <2>3. CASE reply[msg[w]] = None
    BY <1>11, <2>1, <2>3 DEF FindReply, ComposeEntry, Goto
  <2> QED
    BY <2>2, <2>3
<1>12. ASSUME NEW w \in Workers, RequestHandoff(w)
      PROVE LocalsOK'
  BY <1>12 DEF RequestHandoff, Goto
<1>13. ASSUME NEW w \in Workers, ComposeReply(w)
      PROVE LocalsOK'
  BY <1>13 DEF ComposeReply, Goto
<1>14. ASSUME NEW w \in Workers, RecordOutbound(w)
      PROVE LocalsOK'
  BY <1>14 DEF RecordOutbound, Goto
<1>15. ASSUME NEW w \in Workers, ReleaseLease(w)
      PROVE LocalsOK'
  BY <1>15 DEF ReleaseLease, Goto
<1>16. ASSUME NEW w \in Workers, ClaimDelivery(w)
      PROVE LocalsOK'
  BY <1>16 DEF ClaimDelivery, Goto
<1>17. ASSUME NEW w \in Workers, ReplayDelivery(w)
      PROVE LocalsOK'
  BY <1>17 DEF ReplayDelivery, ExistingResult, ClaimExisting, LedgerTypeOK,
               DeliveryAttemptState, Goto
<1>18. ASSUME NEW w \in Workers, RequestNotSent(w)
      PROVE LocalsOK'
  BY <1>18 DEF RequestNotSent, DeliveryAttemptState, Goto
<1>19. ASSUME NEW w \in Workers, PostToMeta(w)
      PROVE LocalsOK'
  BY <1>19 DEF PostToMeta, AdapterStatus, DeliveryAttemptState, Goto
<1>20. ASSUME NEW w \in Workers, FinalizeAttempt(w)
      PROVE LocalsOK'
  BY <1>20 DEF FinalizeAttempt, Goto
<1>21. ASSUME NEW w \in Workers, SettleClaim(w)
      PROVE LocalsOK'
  BY <1>21 DEF SettleClaim, EndJob, Goto
<1>22. ASSUME NEW w \in Workers, FailClaim(w)
      PROVE LocalsOK'
  BY <1>22 DEF FailClaim, EndJob, Goto
<1>23. ASSUME NEW w \in Workers, ClaimLost(w)
      PROVE LocalsOK'
  BY <1>23 DEF ClaimLost, EndJob, Goto
<1>24. ASSUME NEW w \in Workers, StepRaises(w)
      PROVE LocalsOK'
  BY <1>24 DEF StepRaises, Goto
<1>25. CASE UNCHANGED pipelineVars
  BY <1>25 DEF pipelineVars
<1> QED
  BY <1>1, <1>2, <1>3, <1>4, <1>5, <1>6, <1>7, <1>8, <1>9,
     <1>10, <1>11, <1>12, <1>13, <1>14, <1>15, <1>16, <1>17, <1>18,
     <1>19, <1>20, <1>21, <1>22, <1>23, <1>24, <1>25
  DEF Next, WorkerStep

-----------------------------------------------------------------------------
(* The pipeline never leaves its types: no interleaving of workers,        *)
(* crashes, expiries and callbacks puts a worker at a step whose locals    *)
(* are not set, for any instance.                                          *)
THEOREM TypeCorrect == Spec => []TypeOK
<1>1. TypeOK /\ [Next]_pipelineVars => TypeOK'
  BY TypesNext, LocalsNext DEF TypeOK, Types
<1> QED
  BY <1>1, TypeInit, PTL DEF Spec

-----------------------------------------------------------------------------
(* The processing outbox, whatever its workers do to each other's claims.  *)
(* The settled messages of a state stay as they are in the next one.       *)
KeepsSettled ==
    \A m \in Messages : status[m] \in Terminal => status'[m] = status[m]

(* The insert of a webhook, first or repeated, keeps settled messages.     *)
LEMMA RecordInboundKeeps ==
    ASSUME OutboxTypeOK, NEW m \in Messages, RecordInbound(m)
    PROVE  KeepsSettled
<1>1. CASE status[m] = "absent"
  BY <1>1 DEF RecordInbound, OutboxTypeOK, KeepsSettled, Terminal
<1>2. CASE status[m] # "absent"
  BY <1>2 DEF RecordInbound, KeepsSettled, outboxVars
<1> QED
  BY <1>1, <1>2

(* A claim takes a message that is not settled.                            *)
LEMMA ClaimNextKeeps ==
    ASSUME OutboxTypeOK, NEW m \in Messages, ClaimNext(m)
    PROVE  KeepsSettled
  BY DEF ClaimNext, Claimable, OutboxTypeOK, KeepsSettled, Terminal

(* complete and fail act on a claimed message only, whoever claimed it.    *)
LEMMA TransitionKeeps ==
    ASSUME OutboxTypeOK, NEW m \in Messages, NEW s, Transition(m, s)
    PROVE  KeepsSettled
  BY DEF Transition, ClaimActive, OutboxTypeOK, KeepsSettled, Terminal

(* No step of the pipeline changes a settled message.                      *)
LEMMA NextKeeps == TypeOK /\ [Next]_pipelineVars => KeepsSettled
<1> SUFFICES ASSUME TypeOK, [Next]_pipelineVars PROVE KeepsSettled
  OBVIOUS
<1>0. ASSUME UNCHANGED status PROVE KeepsSettled
  BY <1>0 DEF KeepsSettled
<1> USE DEF TypeOK
<1>1. ASSUME NEW m \in Messages, Ingest(m)
      PROVE KeepsSettled
  BY <1>1, RecordInboundKeeps DEF Ingest
<1>2. ASSUME NEW w \in Workers, NEW m \in Messages, ClaimMessage(w, m)
      PROVE KeepsSettled
  BY <1>2, ClaimNextKeeps DEF ClaimMessage
<1>3. ASSUME NEW w \in Workers, SettleClaim(w)
      PROVE KeepsSettled
  <2>1. msg[w] \in Messages
    BY <1>3 DEF SettleClaim, LocalsOK
  <2>2. Complete(msg[w]) \/ Fail(msg[w], FALSE)
    BY <1>3 DEF SettleClaim
  <2> QED
    BY <2>1, <2>2, TransitionKeeps DEF Complete, Fail
<1>4. ASSUME NEW w \in Workers, FailClaim(w)
      PROVE KeepsSettled
  <2>1. msg[w] \in Messages
    BY <1>4 DEF FailClaim, LocalsOK
  <2> QED
    BY <1>4, <2>1, TransitionKeeps DEF FailClaim, Fail
<1>5. ASSUME \/ \E m \in Messages : \/ RetryBecomesDue(m)
                                    \/ ClaimBecomesStale(m)
                                    \/ \E s \in Callbacks : ProviderCallback(m, s)
             \/ \E c \in Conversations : LeaseExpires(c)
      PROVE KeepsSettled
  BY <1>0, <1>5 DEF RetryBecomesDue, RetryDelayPasses, ClaimBecomesStale,
     ClaimTimesOut, ProviderCallback, LeaseExpires, outboxVars
<1>6. ASSUME NEW w \in Workers,
             \/ AcquireLease(w) \/ ConversationBusy(w) \/ FindReply(w)
             \/ RequestHandoff(w) \/ ComposeReply(w) \/ RecordOutbound(w)
             \/ ReleaseLease(w)
      PROVE KeepsSettled
  BY <1>0, <1>6 DEF AcquireLease, ConversationBusy, FindReply, RequestHandoff,
     ComposeReply, RecordOutbound, ReleaseLease, outboxVars
<1>7. ASSUME NEW w \in Workers,
             \/ ClaimDelivery(w) \/ ReplayDelivery(w) \/ RequestNotSent(w)
             \/ PostToMeta(w) \/ FinalizeAttempt(w) \/ ClaimLost(w)
             \/ StepRaises(w) \/ Crash(w) \/ Restart(w)
      PROVE KeepsSettled
  BY <1>0, <1>7 DEF ClaimDelivery, ReplayDelivery, RequestNotSent, PostToMeta,
     FinalizeAttempt, ClaimLost, StepRaises, Crash, Restart, outboxVars
<1>8. CASE UNCHANGED pipelineVars
  BY <1>0, <1>8 DEF pipelineVars, outboxVars
<1> QED
  BY <1>1, <1>2, <1>3, <1>4, <1>5, <1>6, <1>7, <1>8 DEF Next, WorkerStep

(* For any instance, a completed or failed message keeps that status:      *)
(* redeliveries, takeovers and late settlements never reopen it.           *)
THEOREM SettledForever == Spec => SettledIsFinal
<1>1. TypeOK /\ [Next]_pipelineVars
        => [\A m \in Messages : status[m] \in Terminal =>
                                   status'[m] = status[m]]_pipelineVars
  BY NextKeeps DEF KeepsSettled
<1> QED
  BY <1>1, TypeCorrect, PTL DEF Spec, SettledIsFinal

-----------------------------------------------------------------------------
(* The workers that hold a claim of m with attempts to spare, and the      *)
(* retries that were granted: every claim is the first one, follows a      *)
(* retry, or is a takeover.                                                *)
Spare(m) == {w \in Workers : msg[w] = m /\ tries[w] < MaxAttempts}

Retries(m) == attempts[m] - reclaims[m]
                - IF status[m] \in {"absent", "pending"} THEN 0 ELSE 1

(* A retry uses up a claim numbered below the maximum, and the numbers of  *)
(* claims are handed out once: the retries granted and those still to be   *)
(* granted are no more than the numbers below the maximum so far.          *)
BudgetInv ==
    \A m \in Messages :
        /\ IsFiniteSet(Spare(m))
        /\ Retries(m) + Cardinality(Spare(m)) <= attempts[m]
        /\ Retries(m) + Cardinality(Spare(m)) < MaxAttempts

(* A smaller set is finite and has no more elements.                       *)
LEMMA SmallerSet ==
    ASSUME NEW S, NEW T, IsFiniteSet(S), T \subseteq S
    PROVE  /\ IsFiniteSet(T)
           /\ Cardinality(T) \in Nat /\ Cardinality(S) \in Nat
           /\ Cardinality(T) <= Cardinality(S)
  BY FS_Subset, FS_CardinalityType

(* A set with one more element.                                            *)
LEMMA LargerSet ==
    ASSUME NEW S, NEW x, IsFiniteSet(S)
    PROVE  /\ IsFiniteSet(S \cup {x})
           /\ Cardinality(S) \in Nat
           /\ Cardinality(S \cup {x}) <= Cardinality(S) + 1
<1>1. Cardinality(S) \in Nat
  BY FS_CardinalityType
<1>2. IsFiniteSet(S \cup {x})
  BY FS_AddElement
<1>3. Cardinality(S \cup {x}) =
          IF x \in S THEN Cardinality(S) ELSE Cardinality(S) + 1
  BY FS_AddElement, Zenon
<1> QED
  BY <1>1, <1>2, <1>3

(* The budget of m is kept when no claim and no retry is added to it.      *)
LEMMA BudgetKept ==
    ASSUME OutboxTypeOK, OutboxTypeOK', BudgetInv, NEW m \in Messages,
           Spare(m)' \subseteq Spare(m), Retries(m)' = Retries(m),
           attempts'[m] = attempts[m]
    PROVE  /\ IsFiniteSet(Spare(m)')
           /\ Retries(m)' + Cardinality(Spare(m)') <= attempts'[m]
           /\ Retries(m)' + Cardinality(Spare(m)') < MaxAttempts
<1>1. /\ IsFiniteSet(Spare(m))
      /\ Retries(m) + Cardinality(Spare(m)) <= attempts[m]
      /\ Retries(m) + Cardinality(Spare(m)) < MaxAttempts
  BY DEF BudgetInv
<1>2. /\ IsFiniteSet(Spare(m)')
      /\ Cardinality(Spare(m)') \in Nat /\ Cardinality(Spare(m)) \in Nat
      /\ Cardinality(Spare(m)') <= Cardinality(Spare(m))
  BY <1>1, SmallerSet
<1>3. Retries(m) \in Int /\ attempts[m] \in Nat
  BY DEF OutboxTypeOK, Retries
<1> QED
  BY <1>1, <1>2, <1>3, PipelineAssumption

(* Initially there are no claims.                                          *)
LEMMA BudgetInit == Init => BudgetInv
<1> SUFFICES ASSUME Init, NEW m \in Messages
             PROVE  /\ IsFiniteSet(Spare(m))
                    /\ Retries(m) + Cardinality(Spare(m)) <= attempts[m]
                    /\ Retries(m) + Cardinality(Spare(m)) < MaxAttempts
  BY DEF BudgetInv
<1>1. Spare(m) = {}
  BY NoneAssumption DEF Init, Spare
<1>2. Retries(m) = 0 /\ attempts[m] = 0
  BY DEF Init, OutboxInit, Retries
<1> QED
  BY <1>1, <1>2, FS_EmptySet, PipelineAssumption

(* claim_next hands out the next number.                                   *)
LEMMA ClaimKeepsBudget ==
    ASSUME TypeOK, TypeOK', BudgetInv, NEW w \in Workers, NEW n \in Messages,
           ClaimMessage(w, n)
    PROVE  BudgetInv'
<1> SUFFICES ASSUME NEW m \in Messages
             PROVE  /\ IsFiniteSet(Spare(m)')
                    /\ Retries(m)' + Cardinality(Spare(m)') <= attempts'[m]
                    /\ Retries(m)' + Cardinality(Spare(m)') < MaxAttempts
  BY DEF BudgetInv
<1>0. OutboxTypeOK /\ OutboxTypeOK' /\ MaxAttempts \in Nat
  BY PipelineAssumption DEF TypeOK
<1>1. Retries(m)' = Retries(m) /\ Retries(m) \in Int
  BY <1>0 DEF OutboxTypeOK, Retries, ClaimMessage, ClaimNext, Claimable
<1>2. CASE m # n \/ attempts[n] + 1 >= MaxAttempts
  <2>1. Spare(m)' \subseteq Spare(m)
    BY <1>0, <1>2 DEF TypeOK, WorkerTypeOK, OutboxTypeOK, Spare, ClaimMessage
  <2>2. attempts'[m] >= attempts[m] /\ attempts[m] \in Nat /\ attempts'[m] \in Nat
    BY <1>0 DEF OutboxTypeOK, ClaimMessage, ClaimNext
  <2>3. /\ IsFiniteSet(Spare(m))
        /\ Retries(m) + Cardinality(Spare(m)) <= attempts[m]
        /\ Retries(m) + Cardinality(Spare(m)) < MaxAttempts
    BY DEF BudgetInv
  <2>4. /\ IsFiniteSet(Spare(m)')
        /\ Cardinality(Spare(m)') \in Nat /\ Cardinality(Spare(m)) \in Nat
        /\ Cardinality(Spare(m)') <= Cardinality(Spare(m))
    BY <2>1, <2>3, SmallerSet
  <2> QED
    BY <1>0, <1>1, <2>2, <2>3, <2>4
<1>3. CASE m = n /\ attempts[n] + 1 < MaxAttempts
  <2>1. Spare(m)' \subseteq Spare(m) \cup {w}
    BY <1>0 DEF TypeOK, WorkerTypeOK, Spare, ClaimMessage
  <2>2. attempts'[m] = attempts[m] + 1 /\ attempts[m] \in Nat
    BY <1>0, <1>3 DEF OutboxTypeOK, ClaimMessage, ClaimNext
  <2>3. /\ IsFiniteSet(Spare(m))
        /\ Retries(m) + Cardinality(Spare(m)) <= attempts[m]
    BY DEF BudgetInv
  <2>4. /\ IsFiniteSet(Spare(m) \cup {w})
        /\ Cardinality(Spare(m)) \in Nat
        /\ Cardinality(Spare(m) \cup {w}) <= Cardinality(Spare(m)) + 1
    BY <2>3, LargerSet
  <2>5. /\ IsFiniteSet(Spare(m)')
        /\ Cardinality(Spare(m)') \in Nat
        /\ Cardinality(Spare(m) \cup {w}) \in Nat
        /\ Cardinality(Spare(m)') <= Cardinality(Spare(m) \cup {w})
    BY <2>1, <2>4, SmallerSet
  <2> QED
    BY <1>0, <1>1, <1>3, <2>2, <2>3, <2>4, <2>5
<1> QED
  BY <1>2, <1>3, <1>0 DEF OutboxTypeOK

(* A retry takes the place of the claim it settles.                        *)
LEMMA FailKeepsBudget ==
    ASSUME TypeOK, TypeOK', BudgetInv, NEW w \in Workers, FailClaim(w)
    PROVE  BudgetInv'
<1> SUFFICES ASSUME NEW m \in Messages
             PROVE  /\ IsFiniteSet(Spare(m)')
                    /\ Retries(m)' + Cardinality(Spare(m)') <= attempts'[m]
                    /\ Retries(m)' + Cardinality(Spare(m)') < MaxAttempts
  BY DEF BudgetInv
<1>0. OutboxTypeOK /\ OutboxTypeOK' /\ msg[w] \in Messages
  BY DEF TypeOK, LocalsOK, FailClaim
<1>1. /\ Spare(m)' \subseteq Spare(m)
      /\ msg[w] = m => Spare(m)' \subseteq Spare(m) \ {w}
  BY NoneAssumption DEF TypeOK, WorkerTypeOK, Spare, FailClaim, EndJob
<1>2. attempts'[m] = attempts[m] /\ reclaims'[m] = reclaims[m]
  BY DEF FailClaim, Fail, Transition
<1>3. CASE msg[w] = m /\ tries[w] < MaxAttempts
  <2>1. Retries(m)' = Retries(m) + 1 /\ Retries(m) \in Int /\ attempts[m] \in Nat
    BY <1>0, <1>2, <1>3
    DEF OutboxTypeOK, Retries, FailClaim, Fail, Transition, ClaimActive
  <2>2. /\ IsFiniteSet(Spare(m))
        /\ Retries(m) + Cardinality(Spare(m)) <= attempts[m]
        /\ Retries(m) + Cardinality(Spare(m)) < MaxAttempts
    BY DEF BudgetInv
  <2>3. w \in Spare(m)
    BY <1>3 DEF Spare
  <2>4. /\ IsFiniteSet(Spare(m) \ {w})
        /\ Cardinality(Spare(m)) \in Nat
        /\ Cardinality(Spare(m) \ {w}) = Cardinality(Spare(m)) - 1
    BY <2>2, <2>3, FS_RemoveElement, FS_CardinalityType
  <2>5. /\ IsFiniteSet(Spare(m)')
        /\ Cardinality(Spare(m)') \in Nat
        /\ Cardinality(Spare(m)') <= Cardinality(Spare(m) \ {w})
    BY <1>1, <1>3, <2>4, SmallerSet
  <2> QED
    BY <1>2, <2>1, <2>2, <2>4, <2>5, PipelineAssumption
<1>4. CASE msg[w] # m \/ ~(tries[w] < MaxAttempts)
  <2>1. Retries(m)' = Retries(m)
    BY <1>0, <1>2, <1>4
    DEF OutboxTypeOK, Retries, FailClaim, Fail, Transition, ClaimActive
  <2> QED
    BY <1>0, <1>1, <1>2, <2>1, BudgetKept
<1> QED
  BY <1>3, <1>4

(* Steps that hand out no number and grant no retry.                       *)
LEMMA OtherStepsKeepBudget ==
    ASSUME TypeOK, TypeOK', BudgetInv,
           \A m \in Messages : /\ attempts'[m] = attempts[m]
                               /\ Retries(m)' = Retries(m)
                               /\ Spare(m)' \subseteq Spare(m)
    PROVE  BudgetInv'
<1> SUFFICES ASSUME NEW m \in Messages
             PROVE  /\ IsFiniteSet(Spare(m)')
                    /\ Retries(m)' + Cardinality(Spare(m)') <= attempts'[m]
                    /\ Retries(m)' + Cardinality(Spare(m)') < MaxAttempts
  BY DEF BudgetInv
<1> QED
  BY BudgetKept DEF TypeOK

(* Every step of the pipeline keeps the budget.                            *)
LEMMA BudgetNext == TypeOK /\ TypeOK' /\ BudgetInv /\ [Next]_pipelineVars => BudgetInv'
<1> SUFFICES ASSUME TypeOK, TypeOK', BudgetInv, [Next]_pipelineVars PROVE BudgetInv'
  OBVIOUS
<1>0. ASSUME UNCHANGED <<status, attempts, reclaims, msg, tries>> PROVE BudgetInv'
  <2>1. \A m \in Messages : /\ attempts'[m] = attempts[m]
                            /\ Retries(m)' = Retries(m)
                            /\ Spare(m)' = Spare(m)
    BY <1>0 DEF Retries, Spare
  <2> QED
    BY <2>1, OtherStepsKeepBudget
<1>1. ASSUME NEW m \in Messages, Ingest(m)
      PROVE BudgetInv'
  <2>1. \A n \in Messages : attempts'[n] = attempts[n] /\ Retries(n)' = Retries(n)
    BY <1>1 DEF Ingest, RecordInbound, Retries, TypeOK, OutboxTypeOK, outboxVars
  <2>2. \A n \in Messages : Spare(n)' = Spare(n)
    BY <1>1 DEF Ingest, Spare, workerVars, locals
  <2> QED
    BY <2>1, <2>2, OtherStepsKeepBudget
<1>2. ASSUME NEW w \in Workers, NEW m \in Messages, ClaimMessage(w, m)
      PROVE BudgetInv'
  BY <1>2, ClaimKeepsBudget
<1>3. ASSUME NEW w \in Workers, SettleClaim(w)
      PROVE BudgetInv'
  <2>1. msg[w] \in Messages
    BY <1>3 DEF SettleClaim, TypeOK, LocalsOK
  <2>2. \A n \in Messages : attempts'[n] = attempts[n] /\ Retries(n)' = Retries(n)
    BY <1>3, <2>1 DEF SettleClaim, Complete, Fail, Transition, ClaimActive, Retries,
       TypeOK, OutboxTypeOK
  <2>3. \A n \in Messages : Spare(n)' \subseteq Spare(n)
    BY <1>3, NoneAssumption DEF SettleClaim, EndJob, Spare, TypeOK, WorkerTypeOK
  <2> QED
    BY <2>2, <2>3, OtherStepsKeepBudget
<1>4. ASSUME NEW w \in Workers, FailClaim(w)
      PROVE BudgetInv'
  BY <1>4, FailKeepsBudget
<1>5. ASSUME NEW w \in Workers, Crash(w) \/ ClaimLost(w)
      PROVE BudgetInv'
  <2>1. UNCHANGED outboxVars /\ (UNCHANGED locals \/ EndJob(w, "down"))
    BY <1>5 DEF Crash, ClaimLost
  <2>2. \A n \in Messages : attempts'[n] = attempts[n] /\ Retries(n)' = Retries(n)
    BY <2>1 DEF outboxVars, Retries
  <2>3. \A n \in Messages : Spare(n)' \subseteq Spare(n)
    BY <2>1, NoneAssumption DEF locals, EndJob, Spare, TypeOK, WorkerTypeOK
  <2> QED
    BY <2>2, <2>3, OtherStepsKeepBudget
<1>6. ASSUME \/ \E m \in Messages : \/ RetryBecomesDue(m)
                                    \/ ClaimBecomesStale(m)
                                    \/ \E s \in Callbacks : ProviderCallback(m, s)
             \/ \E c \in Conversations : LeaseExpires(c)
      PROVE BudgetInv'
  BY <1>0, <1>6 DEF RetryBecomesDue, RetryDelayPasses, ClaimBecomesStale,
     ClaimTimesOut, ProviderCallback, LeaseExpires, outboxVars, workerVars, locals
<1>7. ASSUME NEW w \in Workers,
             \/ AcquireLease(w) \/ ConversationBusy(w) \/ FindReply(w)
             \/ RequestHandoff(w) \/ ComposeReply(w) \/ RecordOutbound(w)
             \/ ReleaseLease(w)
      PROVE BudgetInv'
  BY <1>0, <1>7 DEF AcquireLease, ConversationBusy, FindReply, RequestHandoff,
     ComposeReply, RecordOutbound, ReleaseLease, outboxVars, locals
<1>8. ASSUME NEW w \in Workers,
             \/ ClaimDelivery(w) \/ ReplayDelivery(w) \/ RequestNotSent(w)
             \/ PostToMeta(w) \/ FinalizeAttempt(w) \/ StepRaises(w) \/ Restart(w)
      PROVE BudgetInv'
  BY <1>0, <1>8 DEF ClaimDelivery, ReplayDelivery, RequestNotSent, PostToMeta,
     FinalizeAttempt, StepRaises, Restart, outboxVars, locals
<1>9. CASE UNCHANGED pipelineVars
  BY <1>0, <1>9 DEF pipelineVars, outboxVars, workerVars, locals
<1> QED
  BY <1>1, <1>2, <1>3, <1>4, <1>5, <1>6, <1>7, <1>8, <1>9 DEF Next, WorkerStep

(* For any number of workers and any maximum, a message is claimed at most *)
(* the maximum of times plus once per takeover: the comparison in the      *)
(* except clauses of process_once bounds the retries although stale claims *)
(* are settled in any order.                                               *)
THEOREM RetriesWithinBudget == Spec => []RetryBudget
<1>1. Init => BudgetInv
  BY BudgetInit
<1>2. TypeOK /\ TypeOK' /\ BudgetInv /\ [Next]_pipelineVars => BudgetInv'
  BY BudgetNext
<1>3. TypeOK /\ BudgetInv => RetryBudget
  <2> SUFFICES ASSUME TypeOK, BudgetInv, NEW m \in Messages
               PROVE  attempts[m] <= MaxAttempts + reclaims[m]
    BY DEF RetryBudget
  <2>1. Cardinality(Spare(m)) \in Nat /\ Retries(m) + Cardinality(Spare(m)) < MaxAttempts
    BY FS_CardinalityType DEF BudgetInv
  <2> QED
    BY <2>1, PipelineAssumption DEF Retries, TypeOK, OutboxTypeOK
<1> QED
  BY <1>1, <1>2, <1>3, TypeCorrect, PTL DEF Spec

=============================================================================
