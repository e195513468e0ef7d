----------------------- MODULE DeliveryCallbacksProofs ----------------------
(***************************************************************************)
(* What DeliveryCallbacks guarantees for any number of concurrent webhook  *)
(* requests: an answered webhook is on record callback by callback, the    *)
(* state of an attempt is on record, and an outcome is emitted once.       *)
(*                                                                         *)
(* The invariant says how far each request has come: the callbacks it is   *)
(* done with are on record, and a request about to emit is the only one    *)
(* that may emit that outcome.  The last part is about the read that takes *)
(* no lock: it is the only cause of a regression, and of two outcomes.     *)
(***************************************************************************)
EXTENDS DeliveryCallbacks, DeliveryLedgerProofs

(* The callbacks a request is done with are on record.                     *)
Recorded(h) ==
    pc[h] # "idle" =>
        \A i \in 1..Len(hook[h]) :
            i < pos[h] \/ (i = pos[h] /\ pc[h] = "emit")
                => hook[h][i].status \in events[hook[h][i].msg]

AuditInv ==
    /\ \A h \in Handlers : Recorded(h)
    /\ AnsweredMeansAudited

(* A request about to emit is the first one to emit this outcome ...       *)
EmitterOK(h) ==
    pc[h] = "emit" => /\ Status(h) \in Outcome
                      /\ Status(h) \in events[Msg(h)]
                      /\ emitted[<<Msg(h), Status(h)>>] = 0

(* ... and the only one.                                                   *)
SoleEmitter ==
    \A g, h \in Handlers :
        /\ pc[g] = "emit" /\ pc[h] = "emit"
        /\ Msg(g) = Msg(h) /\ Status(g) = Status(h)
        => g = h

EmitInv ==
    /\ \A h \in Handlers : EmitterOK(h)
    /\ SoleEmitter
    /\ OutcomeEmittedOnce

-----------------------------------------------------------------------------
(* What the entries of a webhook are.                                      *)
LEMMA WebhookEntries ==
    \A b \in Webhooks : \A i \in 1..Len(b) : b[i].msg \in Messages
<1> SUFFICES ASSUME NEW b \in Webhooks, NEW i \in 1..Len(b)
             PROVE  b[i].msg \in Messages
  OBVIOUS
<1>1. b \in Seq(Callback)
  BY WebhooksAssumption
<1>2. b[i] \in Callback
  BY <1>1
<1> QED
  BY <1>2 DEF Callback

(* The callback of a request in progress is a callback.                    *)
LEMMA CurrentCallback ==
    ASSUME TypeOK, NEW h \in Handlers, pc[h] # "idle"
    PROVE  Msg(h) \in Messages /\ Status(h) \in CallbackStatus
<1>1. hook[h] \in Seq(Callback) /\ pos[h] \in 1..Len(hook[h])
  BY WebhooksAssumption DEF TypeOK, PositionOK
<1>2. hook[h][pos[h]] \in Callback
  BY <1>1
<1> QED
  BY <1>2 DEF Callback, Msg, Status

(* In the initial state every variable has its type.                       *)
LEMMA CallbackTypeInit == Init => TypeOK
  BY DEF Init, TypeOK, RequestTypeOK, PositionOK, LedgerInit, LedgerTypeOK

(* Ending a request keeps the types of its locals.                         *)
LEMMA EndRequestType ==
    ASSUME TypeOK, NEW h \in Handlers, EndRequest(h)
    PROVE  RequestTypeOK' /\ PositionOK'
<1>1. RequestTypeOK'
  BY DEF TypeOK, RequestTypeOK, EndRequest
<1>2. PositionOK'
  BY DEF TypeOK, RequestTypeOK, PositionOK, EndRequest
<1> QED
  BY <1>1, <1>2

(* Going on to the next callback stays inside the webhook.                 *)
LEMMA NextCallbackType ==
    ASSUME TypeOK, NEW h \in Handlers, pc[h] # "idle", NextCallback(h)
    PROVE  RequestTypeOK' /\ PositionOK' /\ answered' \subseteq Webhooks
<1>1. hook[h] \in Webhooks /\ hook[h] \in Seq(Callback)
      /\ pos[h] \in 1..Len(hook[h])
  BY WebhooksAssumption DEF TypeOK, PositionOK
<1>2. CASE pos[h] < Len(hook[h])
  <2>1. RequestTypeOK'
    <3>1. /\ pc' = [pc EXCEPT ![h] = "read"]
          /\ pos' = [pos EXCEPT ![h] = pos[h] + 1]
          /\ seen' = [seen EXCEPT ![h] = "none"]
          /\ hook' = hook
      BY <1>2 DEF NextCallback
    <3>2. pos[h] \in Nat
      BY DEF TypeOK, RequestTypeOK
    <3> QED
      BY <3>1, <3>2 DEF TypeOK, RequestTypeOK
  <2>2. PositionOK'
    <3> SUFFICES ASSUME NEW g \in Handlers, pc'[g] # "idle"
                 PROVE  hook'[g] \in Webhooks /\ pos'[g] \in 1..Len(hook'[g])
      BY DEF PositionOK
    <3>1. CASE g = h
      BY <1>1, <1>2, <3>1 DEF TypeOK, RequestTypeOK, NextCallback
    <3>2. CASE g # h
      BY <1>2, <3>2 DEF TypeOK, RequestTypeOK, PositionOK, NextCallback
    <3> QED
      BY <3>1, <3>2
  <2> QED
    BY <1>2, <2>1, <2>2 DEF TypeOK, NextCallback
<1>3. CASE ~(pos[h] < Len(hook[h]))
  BY <1>1, <1>3, EndRequestType DEF TypeOK, NextCallback
<1> QED
  BY <1>2, <1>3

(* Counting up an entry keeps a function to the naturals one.              *)
LEMMA CounterType ==
    ASSUME NEW S, NEW f \in [S -> Nat], NEW o
    PROVE  [f EXCEPT ![o] = @ + 1] \in [S -> Nat]
<1>1. CASE o \in S
  <2>1. f[o] + 1 \in Nat
    BY <1>1
  <2> QED
    BY <1>1, <2>1
<1>2. CASE o \notin S
  BY <1>2
<1> QED
  BY <1>1, <1>2

(* Every step keeps every variable in its type.                            *)
LEMMA CallbackTypeNext == TypeOK /\ [Next]_callbackVars => TypeOK'
<1> SUFFICES ASSUME TypeOK, [Next]_callbackVars PROVE TypeOK'
  OBVIOUS
<1>0. /\ LedgerTypeOK /\ UNCHANGED ledgerVars => LedgerTypeOK'
      /\ RequestTypeOK /\ PositionOK /\ UNCHANGED requestVars
           => RequestTypeOK' /\ PositionOK'
  BY DEF LedgerTypeOK, ledgerVars, RequestTypeOK, PositionOK, requestVars
<1>1. ASSUME NEW m \in Messages, ClaimAttempt(m) PROVE TypeOK'
  BY <1>0, <1>1, ClaimCreatedType DEF ClaimAttempt, TypeOK
<1>2. ASSUME NEW m \in Messages, MetaReceives(m) PROVE TypeOK'
  BY <1>0, <1>2 DEF MetaReceives, TypeOK
<1>3. ASSUME NEW m \in Messages, NEW s \in AdapterStatus, FinalizeAttempt(m, s)
      PROVE TypeOK'
  <2>1. s \in DeliveryAttemptState
    BY DEF AdapterStatus, DeliveryAttemptState
  <2> QED
    BY <1>0, <1>3, <2>1, FinalizeType DEF FinalizeAttempt, TypeOK
<1>4. ASSUME NEW h \in Handlers, NEW b \in Webhooks, ReceiveWebhook(h, b)
      PROVE TypeOK'
  <2>1. b \in Seq(Callback) /\ Len(b) > 0
    BY WebhooksAssumption
  <2>2. 1 \in 1..Len(b)
    BY <2>1
  <2>3. RequestTypeOK'
    BY <1>4 DEF ReceiveWebhook, TypeOK, RequestTypeOK
  <2>4. PositionOK'
    BY <1>4, <2>2 DEF ReceiveWebhook, TypeOK, RequestTypeOK, PositionOK
  <2> QED
    BY <1>0, <1>4, <2>3, <2>4 DEF ReceiveWebhook, TypeOK
<1>5. ASSUME NEW h \in Handlers, MissingAttempt(h) PROVE TypeOK'
  BY <1>0, <1>5, EndRequestType DEF MissingAttempt, TypeOK
<1>6. ASSUME NEW h \in Handlers, ReadAttempt(h) PROVE TypeOK'
  <2>1. Msg(h) \in Messages
    BY <1>6, CurrentCallback DEF ReadAttempt
  <2>2. RequestTypeOK'
    BY <1>6, <2>1 DEF ReadAttempt, TypeOK, RequestTypeOK, LedgerTypeOK
  <2>3. PositionOK'
    BY <1>6 DEF ReadAttempt, TypeOK, RequestTypeOK, PositionOK
  <2> QED
    BY <1>0, <1>6, <2>2, <2>3 DEF ReadAttempt, TypeOK
<1>7. ASSUME NEW h \in Handlers, ApplyTransaction(h) PROVE TypeOK'
  <2>1. pc[h] = "commit" /\ Msg(h) \in Messages /\ Status(h) \in CallbackStatus
    BY <1>7, CurrentCallback DEF ApplyTransaction
  <2>2. LedgerTypeOK'
    BY <1>7, <2>1, CommitCallbackType DEF ApplyTransaction, TypeOK
  <2>5. raced' \subseteq Messages
    BY <1>7, <2>1 DEF ApplyTransaction, NoteRace, TypeOK
  <2> DEFINE emit == ApplyStatus(h) = "applied" /\ Status(h) \in Outcome
  <2>3. CASE emit
    <3>1. pc' = [pc EXCEPT ![h] = "emit"] /\ UNCHANGED <<hook, pos, seen, answered>>
      BY <1>7, <2>3 DEF ApplyTransaction, EmitOrContinue
    <3>2. RequestTypeOK' /\ PositionOK'
      BY <2>1, <3>1 DEF TypeOK, RequestTypeOK, PositionOK
    <3> QED
      BY <1>7, <2>2, <2>5, <3>1, <3>2 DEF ApplyTransaction, TypeOK
  <2>4. CASE ~emit
    <3>1. NextCallback(h)
      BY <1>7, <2>4 DEF ApplyTransaction, EmitOrContinue
    <3> QED
      BY <1>7, <2>1, <2>2, <2>5, <3>1, NextCallbackType DEF ApplyTransaction, TypeOK
  <2> QED
    BY <2>3, <2>4
<1>8. ASSUME NEW h \in Handlers, EmitOutcome(h) PROVE TypeOK'
  <2>1. RequestTypeOK' /\ PositionOK' /\ answered' \subseteq Webhooks
    BY <1>8, NextCallbackType DEF EmitOutcome
  <2>2. emitted' \in [Messages \X Outcome -> Nat]
    BY <1>8, CounterType DEF EmitOutcome, TypeOK
  <2> QED
    BY <1>0, <1>8, <2>1, <2>2 DEF EmitOutcome, TypeOK
<1>9. ASSUME NEW h \in Handlers, RequestFails(h) PROVE TypeOK'
  BY <1>0, <1>9, EndRequestType DEF RequestFails, TypeOK
<1>10. CASE UNCHANGED callbackVars
  BY <1>0, <1>10 DEF callbackVars, TypeOK
<1> QED
  BY <1>1, <1>2, <1>3, <1>4, <1>5, <1>6, <1>7, <1>8, <1>9, <1>10
  DEF Next, HandlerStep

(* For any instance, every variable of the callback handling has its type. *)
THEOREM CallbackTypeCorrect == Spec => []TypeOK
  BY CallbackTypeInit, CallbackTypeNext, PTL DEF Spec

-----------------------------------------------------------------------------
(* An event on record stays on record.                                     *)
LEMMA EventsGrow ==
    TypeOK /\ [Next]_callbackVars => \A m \in Messages : events[m] \subseteq events'[m]
<1> SUFFICES ASSUME TypeOK, [Next]_callbackVars
             PROVE  \A m \in Messages : events[m] \subseteq events'[m]
  OBVIOUS
<1>0. LedgerTypeOK
  BY DEF TypeOK
<1>1. ASSUME NEW m \in Messages, NEW s \in AdapterStatus, FinalizeAttempt(m, s)
      PROVE  \A n \in Messages : events[n] \subseteq events'[n]
  BY <1>0, <1>1 DEF FinalizeAttempt, Finalize, LedgerTypeOK
<1>2. ASSUME NEW h \in Handlers, ApplyTransaction(h)
      PROVE  \A n \in Messages : events[n] \subseteq events'[n]
  <2>1. \/ events' = events
        \/ events' = [events EXCEPT ![Msg(h)] = @ \cup {Status(h)}]
    BY <1>2 DEF ApplyTransaction, CommitCallback, ledgerVars
  <2> QED
    BY <1>0, <2>1 DEF LedgerTypeOK
<1>3. UNCHANGED events
      \/ (\E m \in Messages : \E s \in AdapterStatus : FinalizeAttempt(m, s))
      \/ (\E h \in Handlers : ApplyTransaction(h))
  BY DEF Next, HandlerStep, ClaimAttempt, ClaimCreated, MetaReceives,
     ReceiveWebhook, MissingAttempt, ReadAttempt, EmitOutcome, RequestFails,
     ledgerVars, callbackVars
<1> QED
  BY <1>1, <1>2, <1>3

(* A step in which every request stays where it is, starts, ends without   *)
(* an answer or only reads the attempt preserves AuditInv.                 *)
LEMMA AuditQuiet ==
    ASSUME TypeOK, AuditInv, UNCHANGED answered,
           \A m \in Messages : events[m] \subseteq events'[m],
           \A h \in Handlers :
               \/ pc'[h] = "idle"
               \/ pc'[h] = "read" /\ pos'[h] = 1
               \/ /\ pc[h] # "idle" /\ hook'[h] = hook[h] /\ pos'[h] = pos[h]
                  /\ pc'[h] = "emit" => pc[h] = "emit"
    PROVE  AuditInv'
<1>1. \A b \in Webhooks : \A i \in 1..Len(b) : b[i].msg \in Messages
  BY WebhookEntries
<1>2. ASSUME NEW h \in Handlers PROVE Recorded(h)'
  BY <1>1 DEF AuditInv, Recorded, TypeOK, PositionOK
<1>3. AnsweredMeansAudited'
  BY <1>1 DEF AuditInv, AnsweredMeansAudited, TypeOK
<1> QED
  BY <1>2, <1>3 DEF AuditInv

(* A request that is done with its current callback may go on once that    *)
(* callback is on record.                                                  *)
LEMMA AuditAdvance ==
    ASSUME TypeOK, AuditInv, NEW h \in Handlers, pc[h] # "idle",
           \A m \in Messages : events[m] \subseteq events'[m],
           Status(h) \in events'[Msg(h)],
           NextCallback(h)
    PROVE  AuditInv'
<1>1. \A b \in Webhooks : \A i \in 1..Len(b) : b[i].msg \in Messages
  BY WebhookEntries
<1>2. /\ hook[h] \in Webhooks /\ hook[h] \in Seq(Callback)
      /\ pos[h] \in 1..Len(hook[h])
  BY WebhooksAssumption DEF TypeOK, PositionOK
<1>3. ASSUME NEW i \in 1..Len(hook[h]), i <= pos[h]
      PROVE  hook[h][i].status \in events'[hook[h][i].msg]
  <2>1. CASE i = pos[h]
    BY <2>1 DEF Msg, Status
  <2>2. CASE i < pos[h]
    BY <1>1, <1>2, <2>2 DEF AuditInv, Recorded
  <2> QED
    BY <1>2, <1>3, <2>1, <2>2
<1>4. ASSUME NEW g \in Handlers, g # h,
             pc'[g] = pc[g] /\ hook'[g] = hook[g] /\ pos'[g] = pos[g]
      PROVE  Recorded(g)'
  BY <1>1, <1>4 DEF AuditInv, Recorded, TypeOK, PositionOK
<1>5. CASE pos[h] < Len(hook[h])
  <2>1. /\ pc' = [pc EXCEPT ![h] = "read"]
        /\ pos' = [pos EXCEPT ![h] = pos[h] + 1]
        /\ hook' = hook /\ answered' = answered
    BY <1>5 DEF NextCallback
  <2>2. Recorded(h)'
    <3> SUFFICES ASSUME NEW i \in 1..Len(hook[h]), i < pos[h] + 1
                 PROVE  hook[h][i].status \in events'[hook[h][i].msg]
      BY <2>1 DEF Recorded, TypeOK, RequestTypeOK
    <3> QED
      BY <1>2, <1>3
  <2>3. ASSUME NEW g \in Handlers PROVE Recorded(g)'
    BY <1>4, <2>1, <2>2 DEF TypeOK, RequestTypeOK
  <2>4. AnsweredMeansAudited'
    BY <1>1, <2>1 DEF AuditInv, AnsweredMeansAudited, TypeOK
  <2> QED
    BY <2>3, <2>4 DEF AuditInv
<1>6. CASE ~(pos[h] < Len(hook[h]))
  <2>1. /\ pc' = [pc EXCEPT ![h] = "idle"]
        /\ pos' = [pos EXCEPT ![h] = 0]
        /\ hook' = [hook EXCEPT ![h] = None]
        /\ answered' = answered \cup {hook[h]}
    BY <1>6 DEF NextCallback, EndRequest
  <2>2. ASSUME NEW g \in Handlers PROVE Recorded(g)'
    <3>1. CASE g = h
      BY <2>1, <3>1 DEF Recorded, TypeOK, RequestTypeOK
    <3>2. CASE g # h
      BY <1>4, <2>1, <3>2 DEF TypeOK, RequestTypeOK
    <3> QED
      BY <3>1, <3>2
  <2>3. \A i \in 1..Len(hook[h]) : hook[h][i].status \in events'[hook[h][i].msg]
    BY <1>2, <1>3, <1>6
  <2>4. AnsweredMeansAudited'
    BY <1>1, <2>1, <2>3 DEF AuditInv, AnsweredMeansAudited, TypeOK
  <2> QED
    BY <2>2, <2>4 DEF AuditInv
<1> QED
  BY <1>5, <1>6

(* Every step preserves AuditInv.                                          *)
LEMMA AuditNext == TypeOK /\ AuditInv /\ [Next]_callbackVars => AuditInv'
<1> SUFFICES ASSUME TypeOK, AuditInv, [Next]_callbackVars PROVE AuditInv'
  OBVIOUS
<1>0. \A m \in Messages : events[m] \subseteq events'[m]
  BY EventsGrow
<1> USE DEF TypeOK, RequestTypeOK, requestVars
<1>1. ASSUME UNCHANGED <<requestVars, answered>>
      PROVE AuditInv'
  BY <1>0, <1>1, AuditQuiet
<1>2. ASSUME NEW h \in Handlers, NEW b \in Webhooks, ReceiveWebhook(h, b)
      PROVE AuditInv'
  BY <1>0, <1>2, AuditQuiet DEF ReceiveWebhook
<1>3. ASSUME NEW h \in Handlers, MissingAttempt(h) \/ RequestFails(h)
      PROVE AuditInv'
  BY <1>0, <1>3, AuditQuiet DEF MissingAttempt, RequestFails, EndRequest
<1>4. ASSUME NEW h \in Handlers, ReadAttempt(h)
      PROVE AuditInv'
  BY <1>0, <1>4, AuditQuiet DEF ReadAttempt
<1>5. ASSUME NEW h \in Handlers, ApplyTransaction(h)
      PROVE AuditInv'
  <2>1. pc[h] = "commit" /\ Msg(h) \in Messages
    BY <1>5, CurrentCallback DEF ApplyTransaction
  <2>2. Status(h) \in events'[Msg(h)]
    BY <1>5, <2>1 DEF ApplyTransaction, CommitCallback, ledgerVars, LedgerTypeOK
  <2>3. CASE ApplyStatus(h) = "applied" /\ Status(h) \in Outcome
    <3>1. /\ pc' = [pc EXCEPT ![h] = "emit"]
          /\ UNCHANGED <<hook, pos, answered>>
      BY <1>5, <2>3 DEF ApplyTransaction, EmitOrContinue
    <3>2. \A b \in Webhooks : \A i \in 1..Len(b) : b[i].msg \in Messages
      BY WebhookEntries
    <3>3. ASSUME NEW g \in Handlers PROVE Recorded(g)'
      <4>1. CASE g = h
        BY <1>0, <2>1, <2>2, <3>1, <3>2, <4>1
        DEF AuditInv, Recorded, PositionOK, Msg, Status
      <4>2. CASE g # h
        BY <1>0, <3>1, <3>2, <4>2 DEF AuditInv, Recorded, PositionOK
      <4> QED
        BY <4>1, <4>2
    <3>4. AnsweredMeansAudited'
      BY <1>0, <3>1, <3>2 DEF AuditInv, AnsweredMeansAudited
    <3> QED
      BY <3>3, <3>4 DEF AuditInv
  <2>4. CASE ~(ApplyStatus(h) = "applied" /\ Status(h) \in Outcome)
    <3>1. NextCallback(h)
      BY <1>5, <2>4 DEF ApplyTransaction, EmitOrContinue
    <3> QED
      BY <1>0, <2>1, <2>2, <3>1, AuditAdvance
  <2> QED
    BY <2>3, <2>4
<1>6. ASSUME NEW h \in Handlers, EmitOutcome(h)
      PROVE AuditInv'
  <2>1. pc[h] = "emit" /\ Msg(h) \in Messages /\ NextCallback(h)
    BY <1>6, CurrentCallback DEF EmitOutcome
  <2>2. Status(h) \in events[Msg(h)]
    BY <2>1 DEF AuditInv, Recorded, PositionOK, Msg, Status
  <2> QED
    BY <1>0, <2>1, <2>2, AuditAdvance
<1>7. ASSUME \E m \in Messages :
                \/ ClaimAttempt(m)
                \/ MetaReceives(m)
                \/ \E s \in AdapterStatus : FinalizeAttempt(m, s)
      PROVE AuditInv'
  BY <1>1, <1>7 DEF ClaimAttempt, MetaReceives, FinalizeAttempt
<1>8. CASE UNCHANGED callbackVars
  BY <1>1, <1>8 DEF callbackVars
<1> QED
  BY <1>2, <1>3, <1>4, <1>5, <1>6, <1>7, <1>8 DEF Next, HandlerStep

(* For any number of requests, whatever fails: a webhook answered with 200 *)
(* has every one of its callbacks on record.                               *)
THEOREM AnsweredIsAudited == Spec => []AnsweredMeansAudited
<1>1. Init => AuditInv
  BY DEF Init, AuditInv, Recorded, AnsweredMeansAudited
<1>2. AuditInv => AnsweredMeansAudited
  BY DEF AuditInv
<1> QED
  BY <1>1, <1>2, CallbackTypeCorrect, AuditNext, PTL DEF Spec

-----------------------------------------------------------------------------
(* For any number of concurrent requests, the state of an attempt is one   *)
(* that was put on record.                                                 *)
THEOREM StateAudited == Spec => []StateIsAudited
<1>1. Init => StateIsAudited
  BY DEF Init, LedgerInit, StateIsAudited
<1>2. TypeOK /\ StateIsAudited /\ [Next]_callbackVars => StateIsAudited'
  <2> SUFFICES ASSUME TypeOK, StateIsAudited, [Next]_callbackVars
               PROVE  StateIsAudited'
    OBVIOUS
  <2>0. LedgerTypeOK /\ \A m \in Messages : events[m] \subseteq events'[m]
    BY EventsGrow DEF TypeOK
  <2>1. ASSUME NEW m \in Messages, ClaimAttempt(m)
        PROVE StateIsAudited'
    BY <2>0, <2>1 DEF ClaimAttempt, ClaimCreated, StateIsAudited, LedgerTypeOK
  <2>2. ASSUME NEW m \in Messages, NEW s \in AdapterStatus, FinalizeAttempt(m, s)
        PROVE StateIsAudited'
    BY <2>0, <2>2 DEF FinalizeAttempt, Finalize, StateIsAudited, LedgerTypeOK
  <2>3. ASSUME NEW h \in Handlers, ApplyTransaction(h)
        PROVE StateIsAudited'
    <3>1. Msg(h) \in Messages
      BY <2>3, CurrentCallback DEF ApplyTransaction
    <3>2. \/ attempt' = attempt
          \/ /\ attempt' = [attempt EXCEPT ![Msg(h)] = Status(h)]
             /\ events' = [events EXCEPT ![Msg(h)] = @ \cup {Status(h)}]
      BY <2>3 DEF ApplyTransaction, CommitCallback, ledgerVars
    <3> QED
      BY <2>0, <3>1, <3>2 DEF StateIsAudited, LedgerTypeOK
  <2>4. \/ UNCHANGED ledgerVars
        \/ \E m \in Messages : ClaimAttempt(m)
        \/ \E m \in Messages : \E s \in AdapterStatus : FinalizeAttempt(m, s)
        \/ \E h \in Handlers : ApplyTransaction(h)
    BY DEF Next, HandlerStep, MetaReceives, ReceiveWebhook, MissingAttempt,
       ReadAttempt, EmitOutcome, RequestFails, callbackVars
  <2>5. CASE UNCHANGED ledgerVars
    BY <2>5 DEF StateIsAudited, ledgerVars
  <2> QED
    BY <2>1, <2>2, <2>3, <2>4, <2>5
<1> QED
  BY <1>1, <1>2, CallbackTypeCorrect, PTL DEF Spec

-----------------------------------------------------------------------------
(* A step that emits nothing and lets no request begin to emit preserves   *)
(* EmitInv.                                                                *)
LEMMA EmitQuiet ==
    ASSUME TypeOK, EmitInv, UNCHANGED emitted,
           \A m \in Messages : events[m] \subseteq events'[m],
           \A h \in Handlers : pc'[h] = "emit" =>
               pc[h] = "emit" /\ hook'[h] = hook[h] /\ pos'[h] = pos[h]
    PROVE  EmitInv'
<1>1. ASSUME NEW h \in Handlers, pc'[h] = "emit"
      PROVE  /\ pc[h] = "emit" /\ Msg(h)' = Msg(h) /\ Status(h)' = Status(h)
             /\ Msg(h) \in Messages
  BY <1>1, CurrentCallback DEF Msg, Status
<1>2. ASSUME NEW h \in Handlers PROVE EmitterOK(h)'
  BY <1>1 DEF EmitInv, EmitterOK
<1>3. SoleEmitter'
  BY <1>1 DEF EmitInv, SoleEmitter
<1>4. OutcomeEmittedOnce'
  BY DEF EmitInv, OutcomeEmittedOnce
<1> QED
  BY <1>2, <1>3, <1>4 DEF EmitInv

(* After NextCallback the request is not about to emit, and the others are *)
(* where they were.                                                        *)
LEMMA NextCallbackFrame ==
    ASSUME TypeOK, NEW h \in Handlers, NextCallback(h)
    PROVE  /\ pc'[h] # "emit"
           /\ \A g \in Handlers : g # h =>
                 pc'[g] = pc[g] /\ hook'[g] = hook[g] /\ pos'[g] = pos[g]
<1>1. CASE pos[h] < Len(hook[h])
  BY <1>1 DEF NextCallback, TypeOK, RequestTypeOK
<1>2. CASE ~(pos[h] < Len(hook[h]))
  BY <1>2 DEF NextCallback, EndRequest, TypeOK, RequestTypeOK
<1> QED
  BY <1>1, <1>2

(* Every step preserves EmitInv.                                           *)
LEMMA EmitNext == TypeOK /\ EmitInv /\ [Next]_callbackVars => EmitInv'
<1> SUFFICES ASSUME TypeOK, EmitInv, [Next]_callbackVars PROVE EmitInv'
  OBVIOUS
<1>0. \A m \in Messages : events[m] \subseteq events'[m]
  BY EventsGrow
<1>1. ASSUME UNCHANGED <<requestVars, emitted>>
      PROVE EmitInv'
  BY <1>0, <1>1, EmitQuiet DEF requestVars
<1>2. ASSUME NEW h \in Handlers,
             \/ \E b \in Webhooks : ReceiveWebhook(h, b)
             \/ MissingAttempt(h) \/ RequestFails(h) \/ ReadAttempt(h)
      PROVE EmitInv'
  <2>1. /\ UNCHANGED emitted
        /\ pc'[h] # "emit"
        /\ \A g \in Handlers : g # h =>
              pc'[g] = pc[g] /\ hook'[g] = hook[g] /\ pos'[g] = pos[g]
    BY <1>2 DEF ReceiveWebhook, MissingAttempt, RequestFails, ReadAttempt,
       EndRequest, TypeOK, RequestTypeOK
  <2> QED
    BY <1>0, <2>1, EmitQuiet
<1>3. ASSUME NEW h \in Handlers, ApplyTransaction(h)
      PROVE EmitInv'
  <2>1. /\ pc[h] = "commit" /\ Msg(h) \in Messages
        /\ UNCHANGED emitted
    BY <1>3, CurrentCallback DEF ApplyTransaction
  <2>2. CASE ApplyStatus(h) = "applied" /\ Status(h) \in Outcome
    <3>1. /\ pc' = [pc EXCEPT ![h] = "emit"]
          /\ UNCHANGED <<hook, pos>>
      BY <1>3, <2>2 DEF ApplyTransaction, EmitOrContinue
    <3>2. Status(h) \notin events[Msg(h)]
      BY <2>2 DEF ApplyStatus
    <3>3. Status(h) \in events'[Msg(h)]
      BY <1>3, <2>1, <3>2
      DEF ApplyTransaction, CommitCallback, TypeOK, LedgerTypeOK
    <3>4. emitted[<<Msg(h), Status(h)>>] = 0
      <4>1. emitted[<<Msg(h), Status(h)>>] \in Nat
        BY <2>1, <2>2 DEF TypeOK
      <4>2. /\ emitted[<<Msg(h), Status(h)>>] <= 1
            /\ emitted[<<Msg(h), Status(h)>>] # 1
        BY <2>1, <2>2, <3>2 DEF EmitInv, OutcomeEmittedOnce
      <4> QED
        BY <4>1, <4>2
    <3>5. \A g \in Handlers : Msg(g)' = Msg(g) /\ Status(g)' = Status(g)
      BY <3>1 DEF Msg, Status
    <3>6. ASSUME NEW g \in Handlers, g # h, pc'[g] = "emit"
          PROVE  /\ pc[g] = "emit" /\ Msg(g) \in Messages
                 /\ Status(g) \in events[Msg(g)]
      <4>1. pc[g] = "emit"
        BY <3>1, <3>6 DEF TypeOK, RequestTypeOK
      <4> QED
        BY <4>1, CurrentCallback DEF EmitInv, EmitterOK
    <3>7. ASSUME NEW g \in Handlers PROVE EmitterOK(g)'
      <4>1. CASE g = h
        BY <2>1, <2>2, <3>3, <3>4, <3>5, <4>1 DEF EmitterOK
      <4>2. CASE g # h
        BY <1>0, <2>1, <3>5, <3>6, <4>2 DEF EmitInv, EmitterOK
      <4> QED
        BY <4>1, <4>2
    <3>8. SoleEmitter'
      BY <3>2, <3>5, <3>6 DEF EmitInv, SoleEmitter
    <3>9. OutcomeEmittedOnce'
      BY <1>0, <2>1 DEF EmitInv, OutcomeEmittedOnce
    <3> QED
      BY <3>7, <3>8, <3>9 DEF EmitInv
  <2>3. CASE ~(ApplyStatus(h) = "applied" /\ Status(h) \in Outcome)
    <3>1. NextCallback(h)
      BY <1>3, <2>3 DEF ApplyTransaction, EmitOrContinue
    <3> QED
      BY <1>0, <2>1, <3>1, NextCallbackFrame, EmitQuiet
  <2> QED
    BY <2>2, <2>3
<1>4. ASSUME NEW h \in Handlers, EmitOutcome(h)
      PROVE EmitInv'
  <2> DEFINE o == <<Msg(h), Status(h)>>
  <2>1. /\ pc[h] = "emit" /\ NextCallback(h) /\ UNCHANGED events
        /\ emitted' = [emitted EXCEPT ![o] = emitted[o] + 1]
    BY <1>4 DEF EmitOutcome, ledgerVars
  <2>2. /\ Msg(h) \in Messages /\ Status(h) \in Outcome
        /\ Status(h) \in events[Msg(h)] /\ emitted[o] = 0
    BY <2>1, CurrentCallback DEF EmitInv, EmitterOK
  <2>3. /\ emitted'[o] = 1
        /\ \A p \in Messages \X Outcome : p # o => emitted'[p] = emitted[p]
    BY <2>1, <2>2 DEF TypeOK
  <2>4. ASSUME NEW g \in Handlers, pc'[g] = "emit"
        PROVE  /\ g # h /\ pc[g] = "emit"
               /\ Msg(g)' = Msg(g) /\ Status(g)' = Status(g)
               /\ Msg(g) \in Messages
               /\ Msg(g) # Msg(h) \/ Status(g) # Status(h)
    <3>1. /\ g # h /\ pc[g] = "emit"
          /\ hook'[g] = hook[g] /\ pos'[g] = pos[g]
      BY <2>1, <2>4, NextCallbackFrame
    <3> QED
      BY <2>1, <3>1, CurrentCallback DEF EmitInv, SoleEmitter, Msg, Status
  <2>5. ASSUME NEW g \in Handlers PROVE EmitterOK(g)'
    <3> SUFFICES ASSUME pc'[g] = "emit"
                 PROVE  /\ Status(g)' \in Outcome
                        /\ Status(g)' \in events'[Msg(g)']
                        /\ emitted'[<<Msg(g)', Status(g)'>>] = 0
      BY DEF EmitterOK
    <3>1. /\ Status(g) \in Outcome /\ Status(g) \in events[Msg(g)]
          /\ emitted[<<Msg(g), Status(g)>>] = 0
      BY <2>4 DEF EmitInv, EmitterOK
    <3>2. <<Msg(g), Status(g)>> \in Messages \X Outcome /\ <<Msg(g), Status(g)>> # o
      BY <2>4, <3>1
    <3> QED
      BY <2>1, <2>3, <2>4, <3>1, <3>2
  <2>6. SoleEmitter'
    BY <2>4 DEF EmitInv, SoleEmitter
  <2>7. OutcomeEmittedOnce'
    <3> SUFFICES ASSUME NEW m \in Messages, NEW s \in Outcome
                 PROVE  /\ emitted'[<<m, s>>] <= 1
                        /\ emitted'[<<m, s>>] = 1 => s \in events'[m]
      BY DEF OutcomeEmittedOnce
    <3>1. CASE <<m, s>> = o
      BY <2>1, <2>2, <2>3, <3>1
    <3>2. CASE <<m, s>> # o
      BY <2>1, <2>3, <3>2 DEF EmitInv, OutcomeEmittedOnce
    <3> QED
      BY <3>1, <3>2
  <2> QED
    BY <2>5, <2>6, <2>7 DEF EmitInv
<1>5. ASSUME \E m \in Messages :
                \/ ClaimAttempt(m)
                \/ MetaReceives(m)
                \/ \E s \in AdapterStatus : FinalizeAttempt(m, s)
      PROVE EmitInv'
  BY <1>1, <1>5 DEF ClaimAttempt, MetaReceives, FinalizeAttempt
<1>6. CASE UNCHANGED callbackVars
  BY <1>1, <1>6 DEF callbackVars
<1> QED
  BY <1>2, <1>3, <1>4, <1>5, <1>6 DEF Next, HandlerStep

(* For any number of concurrent requests and redeliveries, an outcome is   *)
(* emitted at most once per message and only when it is on record.         *)
THEOREM OutcomeOnce == Spec => []OutcomeEmittedOnce
<1>1. Init => EmitInv
  BY DEF Init, EmitInv, EmitterOK, SoleEmitter, OutcomeEmittedOnce
<1>2. EmitInv => OutcomeEmittedOnce
  BY DEF EmitInv
<1> QED
  BY <1>1, <1>2, CallbackTypeCorrect, EmitNext, PTL DEF Spec

-----------------------------------------------------------------------------
(* The ways an attempt may move: claim, finalize, a transition.            *)
Moves(old, new) ==
    \/ new = old
    \/ old = "none" /\ new = "pending"
    \/ old = "pending" /\ new \in AdapterStatus
    \/ CanTransition(old, new)

(* No request writes attempt m on a stale read in this step.               *)
Fresh(m) == \A h \in Handlers : Stale(h) => Msg(h) # m

(* An attempt that is not written on a stale read moves as it should, with *)
(* any number of requests in progress.                                     *)
LEMMA FreshMoves ==
    ASSUME TypeOK, [Next]_callbackVars, NEW m \in Messages,
           Fresh(m) \/ m \notin raced'
    PROVE  Moves(attempt[m], attempt'[m])
<1>0. LedgerTypeOK
  BY DEF TypeOK
<1>1. ASSUME NEW n \in Messages, ClaimAttempt(n)
      PROVE  Moves(attempt[m], attempt'[m])
  BY <1>0, <1>1 DEF ClaimAttempt, ClaimCreated, LedgerTypeOK, Moves
<1>2. ASSUME NEW n \in Messages, NEW s \in AdapterStatus, FinalizeAttempt(n, s)
      PROVE  Moves(attempt[m], attempt'[m])
  BY <1>0, <1>2 DEF FinalizeAttempt, Finalize, LedgerTypeOK, Moves
<1>3. ASSUME NEW h \in Handlers, ApplyTransaction(h)
      PROVE  Moves(attempt[m], attempt'[m])
  <2>1. pc[h] = "commit" /\ Msg(h) \in Messages /\ NoteRace(h)
    BY <1>3, CurrentCallback DEF ApplyTransaction
  <2>2. CASE attempt'[m] = attempt[m]
    BY <2>2 DEF Moves
  <2>3. CASE attempt'[m] # attempt[m]
    <3>1. /\ Status(h) \notin events[Msg(h)]
          /\ CanTransition(seen[h], Status(h))
          /\ attempt' = [attempt EXCEPT ![Msg(h)] = Status(h)]
      BY <1>3, <2>3 DEF ApplyTransaction, CommitCallback, ledgerVars
    <3>2. m = Msg(h) /\ attempt'[m] = Status(h)
      BY <1>0, <2>1, <2>3, <3>1 DEF LedgerTypeOK
    <3>3. ~Stale(h)
      BY <2>1, <3>1, <3>2 DEF Fresh, NoteRace, ApplyStatus
    <3> QED
      BY <2>1, <3>1, <3>2, <3>3 DEF Stale, Moves
  <2> QED
    BY <2>2, <2>3
<1>4. \/ UNCHANGED ledgerVars
      \/ \E n \in Messages : ClaimAttempt(n)
      \/ \E n \in Messages : \E s \in AdapterStatus : FinalizeAttempt(n, s)
      \/ \E h \in Handlers : ApplyTransaction(h)
  BY DEF Next, HandlerStep, MetaReceives, ReceiveWebhook, MissingAttempt,
     ReadAttempt, EmitOutcome, RequestFails, callbackVars
<1> QED
  BY <1>1, <1>2, <1>3, <1>4 DEF Moves, ledgerVars

(* README.md's monotone callbacks, for any number of requests: an attempt  *)
(* that no request holds a stale read of is not lowered and not taken out  *)
(* of failed.                                                              *)
THEOREM FreshAdvance == Spec => FreshCallbacksAdvance
<1>1. TypeOK /\ [Next]_callbackVars
        => [\A m \in Messages :
               (\A h \in Handlers : Stale(h) => Msg(h) # m)
                  => /\ Rank[attempt'[m]] >= Rank[attempt[m]]
                     /\ attempt[m] = "failed" => attempt'[m] = "failed"]_callbackVars
  <2> SUFFICES ASSUME TypeOK, [Next]_callbackVars, NEW m \in Messages, Fresh(m)
               PROVE  /\ Rank[attempt'[m]] >= Rank[attempt[m]]
                      /\ attempt[m] = "failed" => attempt'[m] = "failed"
    BY DEF Fresh
  <2>1. Moves(attempt[m], attempt'[m])
    BY FreshMoves
  <2>2. attempt[m] \in DeliveryAttemptState \cup {"none"}
    BY DEF TypeOK, LedgerTypeOK
  <2> QED
    BY <2>1, <2>2
    DEF Moves, CanTransition, AdapterStatus, DeliveryAttemptState, Rank
<1> QED
  BY <1>1, CallbackTypeCorrect, PTL DEF Spec, FreshCallbacksAdvance

-----------------------------------------------------------------------------
(* An outcome is still what the state says: failed stays, delivered may    *)
(* have been followed by read.                                             *)
Upheld(outcome, state) ==
    \/ outcome = "delivered" /\ state \in {"delivered", "read"}
    \/ outcome = "failed" /\ state = "failed"

(* Of an attempt never written on a stale read, every outcome that was or  *)
(* is about to be emitted is upheld by the state.                          *)
OutcomeUpheld(m) ==
    m \notin raced =>
        /\ \A h \in Handlers :
              pc[h] = "emit" /\ Msg(h) = m => Upheld(Status(h), attempt[m])
        /\ \A s \in Outcome : emitted[<<m, s>>] > 0 => Upheld(s, attempt[m])

(* A message once raced stays raced.                                       *)
LEMMA RacedGrows == [Next]_callbackVars => raced \subseteq raced'
  BY DEF Next, HandlerStep, ClaimAttempt, MetaReceives, FinalizeAttempt,
     ReceiveWebhook, MissingAttempt, ReadAttempt, ApplyTransaction, NoteRace,
     EmitOutcome, RequestFails, callbackVars

(* Which requests are about to emit after a step, and what is emitted.     *)
LEMMA EmittersAfter ==
    ASSUME TypeOK, [Next]_callbackVars, NEW g \in Handlers, pc'[g] = "emit"
    PROVE  /\ Msg(g)' = Msg(g) /\ Status(g)' = Status(g)
           /\ \/ pc[g] = "emit"
              \/ ApplyTransaction(g) /\ ApplyStatus(g) = "applied" /\ Status(g) \in Outcome
<1> USE DEF TypeOK, RequestTypeOK
<1>1. ASSUME UNCHANGED requestVars
      PROVE  pc[g] = "emit" /\ Msg(g)' = Msg(g) /\ Status(g)' = Status(g)
  BY <1>1 DEF requestVars, Msg, Status
<1>2. ASSUME NEW h \in Handlers,
             \/ \E b \in Webhooks : ReceiveWebhook(h, b)
             \/ MissingAttempt(h) \/ RequestFails(h) \/ ReadAttempt(h)
      PROVE  pc[g] = "emit" /\ Msg(g)' = Msg(g) /\ Status(g)' = Status(g)
  BY <1>2 DEF ReceiveWebhook, MissingAttempt, RequestFails, ReadAttempt,
     EndRequest, Msg, Status
<1>3. ASSUME NEW h \in Handlers, NextCallback(h), pc[h] # "idle"
      PROVE  pc[g] = "emit" /\ Msg(g)' = Msg(g) /\ Status(g)' = Status(g)
  BY <1>3, NextCallbackFrame DEF Msg, Status
<1>4. ASSUME NEW h \in Handlers, ApplyTransaction(h)
      PROVE  /\ Msg(g)' = Msg(g) /\ Status(g)' = Status(g)
             /\ \/ pc[g] = "emit"
                \/ g = h /\ ApplyStatus(g) = "applied" /\ Status(g) \in Outcome
  <2>1. CASE ApplyStatus(h) = "applied" /\ Status(h) \in Outcome
    <3>1. pc' = [pc EXCEPT ![h] = "emit"] /\ UNCHANGED <<hook, pos>>
      BY <1>4, <2>1 DEF ApplyTransaction, EmitOrContinue
    <3> QED
      BY <2>1, <3>1 DEF Msg, Status
  <2>2. CASE ~(ApplyStatus(h) = "applied" /\ Status(h) \in Outcome)
    BY <1>3, <1>4, <2>2 DEF ApplyTransaction, EmitOrContinue
  <2> QED
    BY <2>1, <2>2
<1>5. ASSUME NEW h \in Handlers, EmitOutcome(h)
      PROVE  pc[g] = "emit" /\ Msg(g)' = Msg(g) /\ Status(g)' = Status(g)
  BY <1>3, <1>5 DEF EmitOutcome
<1>6. \/ UNCHANGED requestVars
      \/ \E h \in Handlers :
            \/ \E b \in Webhooks : ReceiveWebhook(h, b)
            \/ MissingAttempt(h) \/ RequestFails(h) \/ ReadAttempt(h)
      \/ \E h \in Handlers : ApplyTransaction(h)
      \/ \E h \in Handlers : EmitOutcome(h)
  BY DEF Next, HandlerStep, ClaimAttempt, MetaReceives, FinalizeAttempt, callbackVars
<1> QED
  BY <1>1, <1>2, <1>4, <1>5, <1>6

(* Every step upholds the outcomes of an attempt that is not raced.        *)
LEMMA UpheldNext ==
    ASSUME TypeOK, [Next]_callbackVars, NEW m \in Messages, OutcomeUpheld(m)
    PROVE  OutcomeUpheld(m)'
<1> SUFFICES ASSUME m \notin raced'
             PROVE  /\ \A h \in Handlers :
                          pc'[h] = "emit" /\ Msg(h)' = m => Upheld(Status(h)', attempt'[m])
                    /\ \A s \in Outcome : emitted'[<<m, s>>] > 0 => Upheld(s, attempt'[m])
  BY DEF OutcomeUpheld
<1>1. m \notin raced /\ Moves(attempt[m], attempt'[m])
  BY FreshMoves, RacedGrows
<1>2. ASSUME NEW s, Upheld(s, attempt[m]) PROVE Upheld(s, attempt'[m])
  BY <1>1, <1>2 DEF Upheld, Moves, CanTransition
<1>3. ASSUME NEW h \in Handlers, pc'[h] = "emit", Msg(h)' = m
      PROVE  Upheld(Status(h)', attempt'[m])
  <2>1. Msg(h) = m /\ Status(h)' = Status(h)
    BY <1>3, EmittersAfter
  <2>2. CASE pc[h] = "emit"
    BY <1>1, <1>2, <2>1, <2>2 DEF OutcomeUpheld
  <2>3. CASE ApplyTransaction(h) /\ ApplyStatus(h) = "applied" /\ Status(h) \in Outcome
    <3>1. attempt' = [attempt EXCEPT ![Msg(h)] = Status(h)]
      BY <2>3 DEF ApplyTransaction, ApplyStatus, CommitCallback
    <3>2. attempt'[m] = Status(h)
      BY <2>1, <3>1 DEF TypeOK, LedgerTypeOK
    <3> QED
      BY <2>1, <2>3, <3>2 DEF Upheld, Outcome
  <2> QED
    BY <1>3, <2>2, <2>3, EmittersAfter
<1>4. ASSUME NEW s \in Outcome, emitted'[<<m, s>>] > 0
      PROVE  Upheld(s, attempt'[m])
  <2>1. CASE emitted'[<<m, s>>] = emitted[<<m, s>>]
    BY <1>1, <1>2, <1>4, <2>1 DEF OutcomeUpheld
  <2>2. ASSUME NEW h \in Handlers, EmitOutcome(h)
        PROVE  Upheld(s, attempt'[m])
    <3>1. /\ pc[h] = "emit"
          /\ emitted' = [emitted EXCEPT ![<<Msg(h), Status(h)>>] = @ + 1]
      BY <2>2 DEF EmitOutcome
    <3>2. CASE <<m, s>> = <<Msg(h), Status(h)>>
      BY <1>1, <1>2, <3>1, <3>2 DEF OutcomeUpheld
    <3>3. CASE <<m, s>> # <<Msg(h), Status(h)>>
      BY <2>1, <3>1, <3>3 DEF TypeOK
    <3> QED
      BY <3>2, <3>3
  <2>3. UNCHANGED emitted \/ \E h \in Handlers : EmitOutcome(h)
    BY DEF Next, HandlerStep, ClaimAttempt, MetaReceives, FinalizeAttempt,
       ReceiveWebhook, MissingAttempt, ReadAttempt, ApplyTransaction,
       RequestFails, callbackVars
  <2> QED
    BY <2>1, <2>2, <2>3
<1> QED
  BY <1>3, <1>4

(* For any number of concurrent requests, a delivery is reported both as   *)
(* succeeded and as failed only if its attempt was written on a stale read.*)
THEOREM OneOutcomeUnlessRaced == Spec => []SingleOutcome
<1> DEFINE Inv == \A m \in Messages : OutcomeUpheld(m)
<1>1. Init => Inv
  BY DEF Init, OutcomeUpheld, Outcome
<1>2. TypeOK /\ Inv /\ [Next]_callbackVars => Inv'
  BY UpheldNext
<1>3. Inv => SingleOutcome
  BY DEF OutcomeUpheld, SingleOutcome, Upheld, Outcome
<1> QED
  BY <1>1, <1>2, <1>3, CallbackTypeCorrect, PTL DEF Spec

=============================================================================
