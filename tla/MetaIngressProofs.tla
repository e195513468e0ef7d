-------------------------- MODULE MetaIngressProofs -------------------------
(***************************************************************************)
(* The webhook ingress for any webhooks, concurrent deliveries of them,    *)
(* deadlocks and failures: what is acknowledged is durable, and a webhook  *)
(* is recorded as a whole.                                                 *)
(*                                                                         *)
(* The invariant follows a request through its loops: the messages it has  *)
(* passed are staged or recorded, after the commit all are recorded, and   *)
(* the callbacks it has passed have known attempts.                        *)
(***************************************************************************)
EXTENDS MetaIngress, TLAPS

(* The messages and the callbacks a request's loop has passed.             *)
PassedMessages(r) == {MessageList(r)[i] : i \in 1..pos[r]}
PassedAttempts(r) == {StatusList(r)[i].attempt : i \in 1..pos[r]}

(* An open transaction.                                                    *)
RecordingOK(r) ==
    pc[r] = "record" =>
        /\ pos[r] <= Len(MessageList(r))
        /\ PassedMessages(r) \subseteq staged[r] \cup recorded
        /\ staged[r] \subseteq MessagesOf(HookOf[r])

(* A request whose transaction was committed.                              *)
CommittedOK(r) ==
    /\ pc[r] \in {"dedup", "statuses"} => MessagesOf(HookOf[r]) \subseteq recorded
    /\ pc[r] = "dedup" => pos[r] <= Len(MessageList(r))
    /\ pc[r] = "statuses" => /\ pos[r] <= Len(StatusList(r))
                             /\ PassedAttempts(r) \subseteq known

(* A request is about an acceptable webhook and at the place it says.      *)
RequestOK(r) ==
    /\ pc[r] = "idle" => pos[r] = 0 /\ staged[r] = {}
    /\ pc[r] # "idle" => HookOf[r] \in Acceptable
    /\ RecordingOK(r)
    /\ CommittedOK(r)

IngressInv ==
    /\ TypeOK
    /\ \A r \in Requests : RequestOK(r)
    /\ AcknowledgedIsDurable

-----------------------------------------------------------------------------
(* The lists of a webhook.                                                 *)
LEMMA HookLists ==
    ASSUME NEW r \in Requests
    PROVE  /\ HookOf[r] \in DOMAIN Webhooks
           /\ Len(MessageList(r)) \in Nat
           /\ Len(StatusList(r)) \in Nat
           /\ \A i \in 1..Len(MessageList(r)) : MessageList(r)[i] \in Messages
           /\ MessagesOf(HookOf[r]) =
                 {MessageList(r)[i] : i \in 1..Len(MessageList(r))}
           /\ \A s \in ToSet(Webhooks[HookOf[r]].statuses) :
                 \E i \in 1..Len(StatusList(r)) : s = StatusList(r)[i]
<1>1. HookOf[r] \in DOMAIN Webhooks
  BY IngressAssumption
<1>2. MessageList(r) \in Seq(Messages)
  BY <1>1, IngressAssumption DEF MessageList, Hook
<1>3. StatusList(r) \in Seq(ToSet(StatusList(r)))
  BY <1>1, IngressAssumption DEF StatusList, Hook
<1>4. /\ DOMAIN MessageList(r) = 1..Len(MessageList(r))
      /\ DOMAIN StatusList(r) = 1..Len(StatusList(r))
  BY <1>2, <1>3
<1> QED BY <1>1, <1>2, <1>3, <1>4 DEF MessagesOf, MessageList, StatusList, Hook, ToSet

(* The types after a step that moves one request within its lists.         *)
LEMMA TypeKept ==
    ASSUME TypeOK, NEW r \in Requests,
           pc' \in [Requests -> {"idle", "record", "dedup", "statuses"}],
           pos' \in [Requests -> Nat],
           pos'[r] <= Len(MessageList(r)) + Len(StatusList(r)),
           \A q \in Requests \ {r} : pos'[q] = pos[q],
           staged' \in [Requests -> SUBSET Messages],
           recorded' \subseteq Messages,
           seen' \subseteq Messages,
           known' \subseteq Attempts,
           answer' \in [DOMAIN Webhooks -> {0, 200, 400, 401, 500, 503}],
           failures' \in 0..MaxFailures
    PROVE  TypeOK'
<1>1. ASSUME NEW q \in Requests
      PROVE  pos'[q] <= Len(MessageList(q)) + Len(StatusList(q))
  <2>1. CASE q = r
    BY <2>1
  <2>2. CASE q # r
    BY <2>2 DEF TypeOK
  <2> QED BY <2>1, <2>2
<1> QED BY <1>1 DEF TypeOK

(* Initially nothing was received.                                         *)
LEMMA IngressInvInit ==
    ASSUME Init
    PROVE  IngressInv
<1>0. ASSUME NEW r \in Requests
      PROVE  pos[r] <= Len(MessageList(r)) + Len(StatusList(r))
  <2>1. pos[r] = 0
    BY DEF Init
  <2> QED BY <2>1, HookLists
<1>1. TypeOK
  BY <1>0, IngressAssumption DEF Init, TypeOK
<1>2. ASSUME NEW r \in Requests PROVE RequestOK(r)
  BY <1>2 DEF Init, RequestOK, RecordingOK, CommittedOK
<1>3. AcknowledgedIsDurable
  BY DEF Init, AcknowledgedIsDurable
<1> QED BY <1>1, <1>2, <1>3 DEF IngressInv

(* A request keeps its place when it is not moved and nothing is undone.   *)
LEMMA RequestKept ==
    ASSUME NEW r \in Requests, RequestOK(r),
           pc'[r] = pc[r], pos'[r] = pos[r], staged'[r] = staged[r],
           recorded \subseteq recorded', known \subseteq known'
    PROVE  RequestOK(r)'
BY DEF RequestOK, RecordingOK, CommittedOK, PassedMessages, PassedAttempts

(* What was acknowledged stays durable.                                    *)
LEMMA DurableKept ==
    ASSUME AcknowledgedIsDurable, UNCHANGED answer,
           recorded \subseteq recorded', known \subseteq known'
    PROVE  AcknowledgedIsDurable'
BY DEF AcknowledgedIsDurable

(* Every answer but 200 ends a request and leaves the webhook open.        *)
LEMMA RespondInv ==
    ASSUME IngressInv, NEW r \in Requests, NEW code \in {200, 400, 401, 500, 503},
           Respond(r, code), UNCHANGED <<recorded, seen, known>>,
           failures' \in 0..MaxFailures,
           code = 200 => /\ MessagesOf(HookOf[r]) \subseteq recorded
                         /\ \A s \in ToSet(Webhooks[HookOf[r]].statuses) :
                               s.attempt \in known
    PROVE  IngressInv'
<1> USE DEF IngressInv
<1>0. /\ pos'[r] = 0
      /\ 0 <= Len(MessageList(r)) + Len(StatusList(r))
      /\ HookOf[r] \in DOMAIN Webhooks
  BY HookLists DEF TypeOK, Respond
<1>1. TypeOK'
  BY <1>0, TypeKept DEF TypeOK, Respond
<1>2. ASSUME NEW q \in Requests PROVE RequestOK(q)'
  <2>1. CASE q = r
    BY <2>1 DEF TypeOK, Respond, RequestOK, RecordingOK, CommittedOK
  <2>2. CASE q # r
    BY <2>2, RequestKept DEF TypeOK, Respond
  <2> QED BY <2>1, <2>2
<1>3. AcknowledgedIsDurable'
  BY HookLists DEF TypeOK, Respond, AcknowledgedIsDurable
<1> QED BY <1>1, <1>2, <1>3

(* An acceptable webhook opens a transaction, any other is refused.        *)
LEMMA ReceiveWebhookInv ==
    ASSUME IngressInv, NEW r \in Requests, ReceiveWebhook(r)
    PROVE  IngressInv'
<1>1. CASE HookOf[r] \in Acceptable
  <2> USE <1>1 DEF IngressInv, ReceiveWebhook
  <2>1. TypeOK'
    BY DEF TypeOK
  <2>2. ASSUME NEW q \in Requests PROVE RequestOK(q)'
    <3>1. CASE q = r
      <4>1. pos'[r] = 0 /\ pc'[r] = "record" /\ staged'[r] = {}
        BY DEF TypeOK, RequestOK
      <4>2. PassedMessages(r)' = {}
        BY <4>1 DEF PassedMessages
      <4> QED BY <3>1, <4>1, <4>2, HookLists DEF RequestOK, RecordingOK, CommittedOK
    <3>2. CASE q # r
      BY <3>2, RequestKept DEF TypeOK
    <3> QED BY <3>1, <3>2
  <2>3. AcknowledgedIsDurable'
    BY DurableKept
  <2> QED BY <2>1, <2>2, <2>3
<1>2. CASE HookOf[r] \notin Acceptable
  <2>1. PICK code \in {400, 401} : Respond(r, code)
    BY <1>2 DEF ReceiveWebhook
  <2>2. /\ UNCHANGED <<recorded, seen, known>>
        /\ failures' \in 0..MaxFailures
    BY DEF ReceiveWebhook, IngressInv, TypeOK
  <2> QED BY <2>1, <2>2, RespondInv
<1> QED BY <1>1, <1>2

(* An insert stages the next message unless it is recorded.                *)
LEMMA RecordInboundInv ==
    ASSUME IngressInv, NEW r \in Requests, RecordInbound(r)
    PROVE  IngressInv'
<1> USE DEF IngressInv
<1>a. /\ pc[r] = "record"
      /\ pos[r] \in Nat
      /\ pos[r] + 1 \in 1..Len(MessageList(r))
  BY HookLists DEF RecordInbound, Recording, TypeOK
<1>0. /\ Wanted(r) = MessageList(r)[pos[r] + 1]
      /\ Wanted(r) \in Messages
      /\ Wanted(r) \in MessagesOf(HookOf[r])
      /\ staged' = [staged EXCEPT ![r] = staged[r] \cup ({Wanted(r)} \ recorded)]
      /\ pos' = [pos EXCEPT ![r] = pos[r] + 1]
      /\ UNCHANGED <<pc, recorded, seen, known, answer, failures>>
  BY <1>a, HookLists DEF RecordInbound, Wanted
<1>b. pos'[r] = pos[r] + 1
  BY <1>0 DEF TypeOK
<1>c. pos'[r] <= Len(MessageList(r)) + Len(StatusList(r))
  BY <1>a, <1>b, HookLists
<1>1. TypeOK'
  BY <1>a, <1>0, <1>c, TypeKept DEF TypeOK
<1>2. ASSUME NEW q \in Requests PROVE RequestOK(q)'
  <2>1. CASE q = r
    <3>1. PassedMessages(r)' = PassedMessages(r) \cup {Wanted(r)}
      BY <1>a, <1>0, <1>b DEF PassedMessages
    <3>2. RecordingOK(r)'
      BY <1>a, <1>0, <1>b, <3>1, HookLists DEF RequestOK, RecordingOK, TypeOK
    <3> QED BY <1>a, <1>0, <2>1, <3>2 DEF RequestOK, CommittedOK, Acceptable
  <2>2. CASE q # r
    BY <1>0, <2>2, RequestKept DEF TypeOK
  <2> QED BY <2>1, <2>2
<1>3. AcknowledgedIsDurable'
  BY <1>0, DurableKept
<1> QED BY <1>1, <1>2, <1>3

(* Before its commit a request has staged what was not recorded.           *)
LEMMA CommitIsWhole ==
    ASSUME IngressInv, NEW r \in Requests, CommitMessages(r)
    PROVE  /\ HookOf[r] \in Acceptable
           /\ recorded' = recorded \cup MessagesOf(HookOf[r])
<1>1. /\ pos[r] = Len(MessageList(r))
      /\ pc[r] = "record"
      /\ RequestOK(r)
  BY HookLists DEF CommitMessages, Recording, IngressInv, RequestOK, RecordingOK,
     TypeOK
<1>2. PassedMessages(r) = MessagesOf(HookOf[r])
  BY <1>1, HookLists DEF PassedMessages
<1>3. /\ MessagesOf(HookOf[r]) \subseteq staged[r] \cup recorded
      /\ staged[r] \subseteq MessagesOf(HookOf[r])
  BY <1>1, <1>2 DEF RequestOK, RecordingOK
<1> QED BY <1>1, <1>3 DEF CommitMessages, RequestOK

(* The commit makes the messages of the webhook durable.                   *)
LEMMA CommitMessagesInv ==
    ASSUME IngressInv, NEW r \in Requests, CommitMessages(r)
    PROVE  IngressInv'
<1> USE DEF IngressInv, CommitMessages
<1>0. /\ pos'[r] = 0 /\ pc'[r] = "dedup"
      /\ 0 <= Len(MessageList(r))
      /\ 0 <= Len(MessageList(r)) + Len(StatusList(r))
  BY HookLists DEF TypeOK
<1>1. TypeOK'
  BY <1>0, TypeKept DEF TypeOK
<1>2. ASSUME NEW q \in Requests PROVE RequestOK(q)'
  <2>1. CASE q = r
    BY <1>0, <2>1, CommitIsWhole DEF RequestOK, RecordingOK, CommittedOK
  <2>2. CASE q # r
    BY <2>2, RequestKept DEF TypeOK
  <2> QED BY <2>1, <2>2
<1>3. AcknowledgedIsDurable'
  BY DurableKept
<1> QED BY <1>1, <1>2, <1>3

(* The dedup keys decide nothing.                                          *)
LEMMA ClaimDedupKeyInv ==
    ASSUME IngressInv, NEW r \in Requests, ClaimDedupKey(r)
    PROVE  IngressInv'
<1>0. /\ TypeOK /\ RequestOK(r) /\ AcknowledgedIsDurable
      /\ pc[r] = "dedup"
      /\ pos[r] \in Nat
      /\ UNCHANGED <<staged, recorded, known, answer, failures>>
  BY DEF IngressInv, ClaimDedupKey, TypeOK
<1>1. PICK p \in {"dedup", "statuses"}, n \in Nat :
         /\ pc' = [pc EXCEPT ![r] = p]
         /\ pos' = [pos EXCEPT ![r] = n]
         /\ seen' \subseteq Messages
         /\ p = "dedup" => n <= Len(MessageList(r))
         /\ p = "statuses" => n = 0
  <2>1. CASE pos[r] < Len(MessageList(r))
    <3>1. Wanted(r) \in Messages
      BY <1>0, <2>1, HookLists DEF Wanted
    <3>2. /\ pc' = [pc EXCEPT ![r] = "dedup"]
          /\ pos' = [pos EXCEPT ![r] = pos[r] + 1]
          /\ seen' \in {seen, seen \cup {Wanted(r)}}
      BY <1>0, <2>1 DEF ClaimDedupKey, TypeOK
    <3>3. pos[r] + 1 \in Nat /\ pos[r] + 1 <= Len(MessageList(r))
      BY <1>0, <2>1, HookLists
    <3>4. seen' \subseteq Messages
      BY <1>0, <3>1, <3>2 DEF TypeOK
    <3> QED BY <3>2, <3>3, <3>4
  <2>2. CASE ~(pos[r] < Len(MessageList(r)))
    BY <1>0, <2>2 DEF ClaimDedupKey, TypeOK
  <2> QED BY <2>1, <2>2
<1>2. /\ n <= Len(MessageList(r)) + Len(StatusList(r))
      /\ 0 <= Len(StatusList(r))
  BY <1>1, HookLists
<1>3. TypeOK'
  BY <1>0, <1>1, <1>2, TypeKept DEF TypeOK
<1>4. ASSUME NEW q \in Requests PROVE RequestOK(q)'
  <2>1. CASE q = r
    <3>1. pc'[r] = p /\ pos'[r] = n
      BY <1>0, <1>1 DEF TypeOK
    <3>2. n = 0 => PassedAttempts(r)' = {}
      BY <3>1 DEF PassedAttempts
    <3> QED BY <1>0, <1>1, <1>2, <2>1, <3>1, <3>2 DEF RequestOK, RecordingOK,
            CommittedOK
  <2>2. CASE q # r
    BY <1>0, <1>1, <2>2, RequestKept DEF TypeOK, IngressInv
  <2> QED BY <2>1, <2>2
<1>5. AcknowledgedIsDurable'
  BY <1>0, DurableKept
<1> QED BY <1>3, <1>4, <1>5 DEF IngressInv

(* A callback is passed when its attempt is known.                         *)
LEMMA ApplyCallbackInv ==
    ASSUME IngressInv, NEW r \in Requests, ApplyCallback(r)
    PROVE  IngressInv'
<1> USE DEF IngressInv, ApplyCallback
<1>0. pos'[r] = pos[r] + 1 /\ pos[r] \in Nat /\ pc'[r] = "statuses"
  BY DEF TypeOK
<1>a. /\ pos'[r] <= Len(StatusList(r))
      /\ pos'[r] <= Len(MessageList(r)) + Len(StatusList(r))
  BY <1>0, HookLists
<1>1. TypeOK'
  BY <1>0, <1>a, TypeKept DEF TypeOK
<1>2. ASSUME NEW q \in Requests PROVE RequestOK(q)'
  <2>1. CASE q = r
    <3>1. PassedAttempts(r)' = PassedAttempts(r) \cup {Callback(r).attempt}
      BY <1>0 DEF PassedAttempts, Callback
    <3> QED BY <1>0, <1>a, <2>1, <3>1 DEF RequestOK, RecordingOK, CommittedOK
  <2>2. CASE q # r
    BY <2>2, RequestKept DEF TypeOK
  <2> QED BY <2>1, <2>2
<1>3. AcknowledgedIsDurable'
  BY DurableKept
<1> QED BY <1>1, <1>2, <1>3

(* 200 is the answer when every loop has come to its end.                  *)
LEMMA AcknowledgeInv ==
    ASSUME IngressInv, NEW r \in Requests, Acknowledge(r)
    PROVE  IngressInv'
<1>1. RequestOK(r) /\ pc[r] = "statuses" /\ pos[r] = Len(StatusList(r))
  BY DEF IngressInv, Acknowledge
<1>2. MessagesOf(HookOf[r]) \subseteq recorded
  BY <1>1 DEF RequestOK, CommittedOK
<1>3. ASSUME NEW s \in ToSet(Webhooks[HookOf[r]].statuses)
      PROVE  s.attempt \in known
  <2>1. PICK i \in 1..Len(StatusList(r)) : s = StatusList(r)[i]
    BY HookLists
  <2>2. StatusList(r)[i].attempt \in PassedAttempts(r)
    BY <1>1 DEF PassedAttempts
  <2> QED BY <1>1, <2>1, <2>2 DEF RequestOK, CommittedOK
<1>4. /\ Respond(r, 200)
      /\ UNCHANGED <<recorded, seen, known>>
      /\ failures' \in 0..MaxFailures
  BY DEF Acknowledge, IngressInv, TypeOK
<1> QED BY <1>2, <1>3, <1>4, RespondInv

(* The errors of a request, and its end for any other reason.              *)
LEMMA RequestEndsInv ==
    ASSUME IngressInv, NEW r \in Requests,
           DeadlockVictim(r) \/ MissingAttempt(r) \/ RequestFails(r)
    PROVE  IngressInv'
<1>1. /\ \E code \in {500, 503} : Respond(r, code)
      /\ UNCHANGED <<recorded, seen, known>>
      /\ failures' \in 0..MaxFailures
  BY IngressAssumption DEF DeadlockVictim, MissingAttempt, RequestFails,
     IngressInv, TypeOK
<1> QED BY <1>1, RespondInv

(* What others do to Redis and to the attempts.                            *)
LEMMA SurroundingsInv ==
    ASSUME IngressInv,
           \/ \E a \in Attempts : AttemptFinalized(a)
           \/ \E m \in Messages : DedupKeyExpires(m)
           \/ UNCHANGED ingressVars
    PROVE  IngressInv'
<1> USE DEF IngressInv
<1>0. /\ UNCHANGED <<pc, pos, staged, recorded, answer, failures>>
      /\ seen' \subseteq Messages
      /\ known \subseteq known'
      /\ known' \subseteq Attempts
  BY DEF AttemptFinalized, DedupKeyExpires, ingressVars, requestVars, TypeOK
<1>1. TypeOK'
  BY <1>0 DEF TypeOK
<1>2. ASSUME NEW q \in Requests PROVE RequestOK(q)'
  BY <1>0, RequestKept
<1>3. AcknowledgedIsDurable'
  BY <1>0, DurableKept
<1> QED BY <1>1, <1>2, <1>3

(* Every step keeps the invariant.                                         *)
LEMMA IngressInvNext ==
    ASSUME IngressInv, [Next]_ingressVars
    PROVE  IngressInv'
BY ReceiveWebhookInv, RecordInboundInv, CommitMessagesInv, ClaimDedupKeyInv,
   ApplyCallbackInv, AcknowledgeInv, RequestEndsInv, SurroundingsInv
   DEF Next, RequestStep

(* The only step that records messages is the commit of a whole webhook.   *)
LEMMA RecordingStep ==
    ASSUME IngressInv, Next, recorded' # recorded
    PROVE  \E w \in Acceptable : recorded' = recorded \cup MessagesOf(w)
<1>1. PICK r \in Requests : CommitMessages(r)
  BY DEF Next, RequestStep, ReceiveWebhook, RecordInbound, DeadlockVictim,
     ClaimDedupKey, ApplyCallback, MissingAttempt, Acknowledge, RequestFails,
     AttemptFinalized, DedupKeyExpires
<1> QED BY <1>1, CommitIsWhole

-----------------------------------------------------------------------------
(* The types, and that no loop of ingest runs past its list.               *)
THEOREM IngressTypeCorrect == Spec => []TypeOK
<1>1. Init => IngressInv
  BY IngressInvInit
<1>2. IngressInv /\ [Next]_ingressVars => IngressInv'
  BY IngressInvNext
<1>3. IngressInv => TypeOK
  BY DEF IngressInv
<1> QED BY <1>1, <1>2, <1>3, PTL DEF Spec

(* A webhook answered 200 has its messages in PostgreSQL and its attempts  *)
(* known, for any webhooks and however their requests interleave and fail. *)
THEOREM AcknowledgedDurably == Spec => []AcknowledgedIsDurable
<1>1. Init => IngressInv
  BY IngressInvInit
<1>2. IngressInv /\ [Next]_ingressVars => IngressInv'
  BY IngressInvNext
<1>3. IngressInv => AcknowledgedIsDurable
  BY DEF IngressInv
<1> QED BY <1>1, <1>2, <1>3, PTL DEF Spec

(* The messages of a webhook are recorded all at once or not at all, and   *)
(* those of a refused one never are.                                       *)
THEOREM RecordedAsAWhole == Spec => RecordingIsAllOrNothing
<1>1. Init => IngressInv
  BY IngressInvInit
<1>2. IngressInv /\ [Next]_ingressVars => IngressInv'
  BY IngressInvNext
<1>3. IngressInv /\ [Next]_ingressVars =>
        [recorded' # recorded =>
            \E w \in Acceptable : recorded' = recorded \cup MessagesOf(w)]_ingressVars
  BY RecordingStep
<1> QED BY <1>1, <1>2, <1>3, PTL DEF Spec, RecordingIsAllOrNothing

=============================================================================
