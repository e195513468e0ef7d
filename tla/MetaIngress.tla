---------------------------- MODULE MetaIngress -----------------------------
(***************************************************************************)
(* The way of a Meta webhook into the program: the route of                *)
(* api/meta_webhook.py, normalize_webhook, and ingest of                   *)
(* integrations/meta/ingress.py with ConversationRepository.record_inbound *)
(* and RedisMessageDeduplicator.claim.                                     *)
(*                                                                         *)
(* All messages of a webhook are recorded in one transaction, which holds  *)
(* the row lock of every conversation it has touched (ON CONFLICT DO       *)
(* UPDATE) until it ends.  Webhooks with several customers can therefore   *)
(* wait for each other, and PostgreSQL then aborts one of them.            *)
(*                                                                         *)
(* A request slot stands for the deliveries of one webhook, one after the  *)
(* other; two slots of a webhook are Meta delivering it twice at a time.   *)
(* Callbacks are reduced to whether their attempt is known, what happens   *)
(* to a known one is the subject of DeliveryCallbacks.                     *)
(*                                                                         *)
(* ingest's error for a message without a phone number id (ingress.py:38)  *)
(* has no action: Settings does not enable the ingress without a phone     *)
(* number id, and normalize_webhook refuses every other one, an empty one  *)
(* included, with 400 (asset # "ours" here).                               *)
(***************************************************************************)
EXTENDS ConversationScope, Naturals, Sequences, SequencesExt

CONSTANTS PayloadOf,    \* the raw message of each message id
          Webhooks,     \* [signed, asset, messages, statuses] of each webhook
          Requests,     \* request slots
          HookOf,       \* the webhook a slot delivers
          Attempts,     \* provider ids of attempts that finalize will store
          MaxFailures   \* bound on requests that die for other reasons

ASSUME IngressAssumption ==
    /\ ConversationOf \in [Messages -> Conversations]
    /\ HookOf \in [Requests -> DOMAIN Webhooks]
    /\ \A w \in DOMAIN Webhooks :
          /\ Webhooks[w].messages \in Seq(Messages)
          /\ Webhooks[w].statuses \in Seq(ToSet(Webhooks[w].statuses))
    /\ MaxFailures \in Nat

VARIABLES pc,           \* the control point of each request
          pos,          \* the item its loop is at
          staged,       \* the rows it inserted and has not committed
          recorded,     \* the messages with a committed row
          seen,         \* the messages with a dedup key in Redis
          known,        \* the attempts whose provider id is stored
          answer,       \* the last answer to each webhook
          failures

requestVars == <<pc, pos, staged>>
ingressVars == <<requestVars, recorded, seen, known, answer, failures>>

Hook(r) == Webhooks[HookOf[r]]

(* The lists normalize_webhook makes of it: messages and callbacks.        *)
MessageList(r) == Hook(r).messages
StatusList(r) == Hook(r).statuses

MessagesOf(w) == ToSet(Webhooks[w].messages)

(* The type of every variable.                                             *)
TypeOK ==
    /\ pc \in [Requests -> {"idle", "record", "dedup", "statuses"}]
    /\ pos \in [Requests -> Nat]
    /\ \A r \in Requests :
          pos[r] <= Len(MessageList(r)) + Len(StatusList(r))
    /\ staged \in [Requests -> SUBSET Messages]
    /\ recorded \subseteq Messages
    /\ seen \subseteq Messages
    /\ known \subseteq Attempts
    /\ answer \in [DOMAIN Webhooks -> {0, 200, 400, 401, 500, 503}]
    /\ failures \in 0..MaxFailures

Init ==
    /\ pc = [r \in Requests |-> "idle"]
    /\ pos = [r \in Requests |-> 0]
    /\ staged = [r \in Requests |-> {}]
    /\ recorded = {}
    /\ seen = {}
    /\ known = {}
    /\ answer = [w \in DOMAIN Webhooks |-> 0]
    /\ failures = 0

-----------------------------------------------------------------------------
(* _message_metadata: the kind and the text of a raw message, a record of  *)
(* its type, whether the part of that type is there, and the part's text.  *)
MessageKind(p) ==
    IF p.type \in {"text", "image", "interactive"} /\ p.part
    THEN <<p.type, p.text>> ELSE <<"unsupported", "none">>

(* InboundMessage: bounds and the rule for text messages.                  *)
ValidInbound(kind, text) ==
    /\ text # "overlong"
    /\ kind = "text" => text = "some"

(* normalize_webhook: one item of a foreign asset, one message that does   *)
(* not validate, or one callback whose status and error disagree, and the  *)
(* webhook is refused as a whole.                                          *)
Normalizes(hook) ==
    /\ hook.asset = "ours"
    /\ \A m \in ToSet(hook.messages) :
          LET k == MessageKind(PayloadOf[m]) IN ValidInbound(k[1], k[2])
    /\ \A s \in ToSet(hook.statuses) : (s.status = "failed") <=> s.error

Acceptable == {w \in DOMAIN Webhooks : Webhooks[w].signed /\ Normalizes(Webhooks[w])}

(* A defective Respond: an invalid payload is 422.                         *)
RespondUnprocessable(r, code) ==
    /\ pc' = [pc EXCEPT ![r] = "idle"]
    /\ pos' = [pos EXCEPT ![r] = 0]
    /\ staged' = [staged EXCEPT ![r] = {}]
    /\ answer' = [answer EXCEPT ![HookOf[r]] = IF code = 400 THEN 422 ELSE code]

Respond(r, code) ==
    /\ pc' = [pc EXCEPT ![r] = "idle"]
    /\ pos' = [pos EXCEPT ![r] = 0]
    /\ staged' = [staged EXCEPT ![r] = {}]
    /\ answer' = [answer EXCEPT ![HookOf[r]] = IF @ = 200 THEN @ ELSE code]

(* receive up to ingest: signature first, then the payload.  A webhook     *)
(* that was answered is not delivered again by this slot.                  *)
ReceiveWebhook(r) ==
    /\ pc[r] = "idle"
    /\ answer[HookOf[r]] # 200
    /\ IF HookOf[r] \in Acceptable
       THEN pc' = [pc EXCEPT ![r] = "record"] /\ UNCHANGED <<pos, staged, answer>>
       ELSE Respond(r, IF Hook(r).signed THEN 400 ELSE 401)
    /\ UNCHANGED <<recorded, seen, known, failures>>

-----------------------------------------------------------------------------
(* The conversations a transaction has locked, and the one it needs next.  *)
Locked(r) ==
    IF pc[r] = "record"
    THEN {ConversationOf[MessageList(r)[i]] : i \in 1..pos[r]} ELSE {}

Recording(r) == pc[r] = "record" /\ pos[r] < Len(MessageList(r))

Wanted(r) == MessageList(r)[pos[r] + 1]

Blocks(s, r) == s # r /\ Recording(r) /\ ConversationOf[Wanted(r)] \in Locked(s)

(* A defective RecordInbound: Redis decides whether a message is new.      *)
RecordInboundAfterDedup(r) ==
    /\ Recording(r)
    /\ ~\E s \in Requests : Blocks(s, r)
    /\ staged' = [staged EXCEPT ![r] = @ \cup ({Wanted(r)} \ seen)]
    /\ seen' = seen \cup {Wanted(r)}
    /\ pos' = [pos EXCEPT ![r] = @ + 1]
    /\ UNCHANGED <<pc, recorded, known, answer, failures>>

(* record_inbound: the upsert of the conversation, which waits for its row *)
(* lock, and the INSERT of the message, which the lock covers.             *)
RecordInbound(r) ==
    /\ Recording(r)
    /\ ~\E s \in Requests : Blocks(s, r)
    /\ staged' = [staged EXCEPT ![r] = @ \cup ({Wanted(r)} \ recorded)]
    /\ pos' = [pos EXCEPT ![r] = @ + 1]
    /\ UNCHANGED <<pc, recorded, seen, known, answer, failures>>

(* PostgreSQL finds two transactions that wait for each other and aborts   *)
(* one; nothing catches that error and the request is answered 500.        *)
DeadlockVictim(r) ==
    /\ \E s \in Requests : Blocks(s, r) /\ Blocks(r, s)
    /\ Respond(r, 500)
    /\ UNCHANGED <<recorded, seen, known, failures>>

(* Two defective forms of CommitMessages: every message commits on its     *)
(* own, and a replay is an error.                                          *)
CommitMessageByMessage(r) ==
    /\ pc[r] = "record"
    /\ staged[r] # {} \/ ~Recording(r)
    /\ recorded' = recorded \cup staged[r]
    /\ staged' = [staged EXCEPT ![r] = {}]
    /\ IF Recording(r) THEN UNCHANGED <<pc, pos>>
       ELSE /\ pc' = [pc EXCEPT ![r] = "dedup"]
            /\ pos' = [pos EXCEPT ![r] = 0]
    /\ UNCHANGED <<seen, known, answer, failures>>

CommitRefusesReplay(r) ==
    /\ pc[r] = "record"
    /\ ~Recording(r)
    /\ IF staged[r] # MessagesOf(HookOf[r])
       THEN Respond(r, 503) /\ UNCHANGED recorded
       ELSE /\ recorded' = recorded \cup staged[r]
            /\ staged' = [staged EXCEPT ![r] = {}]
            /\ pc' = [pc EXCEPT ![r] = "dedup"]
            /\ pos' = [pos EXCEPT ![r] = 0]
            /\ UNCHANGED answer
    /\ UNCHANGED <<seen, known, failures>>

(* The end of the unit of work.                                            *)
CommitMessages(r) ==
    /\ pc[r] = "record"
    /\ ~Recording(r)
    /\ recorded' = recorded \cup staged[r]
    /\ staged' = [staged EXCEPT ![r] = {}]
    /\ pc' = [pc EXCEPT ![r] = "dedup"]
    /\ pos' = [pos EXCEPT ![r] = 0]
    /\ UNCHANGED <<seen, known, answer, failures>>

(* claim for each durable message: CLAIMED, DUPLICATE and UNAVAILABLE lead *)
(* to the same next step.                                                  *)
ClaimDedupKey(r) ==
    /\ pc[r] = "dedup"
    /\ IF pos[r] < Len(MessageList(r))
       THEN /\ seen' \in {seen, seen \cup {Wanted(r)}}
            /\ pos' = [pos EXCEPT ![r] = @ + 1]
            /\ UNCHANGED pc
       ELSE /\ pc' = [pc EXCEPT ![r] = "statuses"]
            /\ pos' = [pos EXCEPT ![r] = 0]
            /\ UNCHANGED seen
    /\ UNCHANGED <<staged, recorded, known, answer, failures>>

Callback(r) == StatusList(r)[pos[r] + 1]

ApplyCallback(r) ==
    /\ pc[r] = "statuses"
    /\ pos[r] < Len(StatusList(r))
    /\ Callback(r).attempt \in known
    /\ pos' = [pos EXCEPT ![r] = @ + 1]
    /\ UNCHANGED <<pc, staged, recorded, seen, known, answer, failures>>

(* MetaIngressRetryableError, after the messages were committed.           *)
MissingAttempt(r) ==
    /\ pc[r] = "statuses"
    /\ pos[r] < Len(StatusList(r))
    /\ Callback(r).attempt \notin known
    /\ Respond(r, 503)
    /\ UNCHANGED <<recorded, seen, known, failures>>

Acknowledge(r) ==
    /\ pc[r] = "statuses"
    /\ pos[r] = Len(StatusList(r))
    /\ Respond(r, 200)
    /\ UNCHANGED <<recorded, seen, known, failures>>

-----------------------------------------------------------------------------
(* Any other exception, or the end of the process: an open transaction is  *)
(* rolled back.                                                            *)
RequestFails(r) ==
    /\ pc[r] # "idle"
    /\ failures < MaxFailures
    /\ failures' = failures + 1
    /\ Respond(r, 500)
    /\ UNCHANGED <<recorded, seen, known>>

(* finalize stores the provider id of an attempt.                          *)
AttemptFinalized(a) ==
    /\ a \notin known
    /\ known' = known \cup {a}
    /\ UNCHANGED <<requestVars, recorded, seen, answer, failures>>

(* The TTL of a dedup key.                                                 *)
DedupKeyExpires(m) ==
    /\ m \in seen
    /\ seen' = seen \ {m}
    /\ UNCHANGED <<requestVars, recorded, known, answer, failures>>

RequestStep(r) ==
    \/ RecordInbound(r)
    \/ DeadlockVictim(r)
    \/ CommitMessages(r)
    \/ ClaimDedupKey(r)
    \/ ApplyCallback(r)
    \/ MissingAttempt(r)
    \/ Acknowledge(r)

Next ==
    \/ \E r \in Requests : RequestStep(r) \/ ReceiveWebhook(r) \/ RequestFails(r)
    \/ \E a \in Attempts : AttemptFinalized(a)
    \/ \E m \in Messages : DedupKeyExpires(m)

Spec == Init /\ [][Next]_ingressVars

(* The event loop runs every request, PostgreSQL gives a row lock that is  *)
(* released to those who wait for it, Meta redelivers what was not         *)
(* answered 200, and the worker's attempts are finalized.                  *)
FairSpec ==
    /\ Spec
    /\ \A r \in Requests : /\ WF_ingressVars(RequestStep(r))
                           /\ \A i \in DOMAIN MessageList(r) :
                                 SF_ingressVars(pos[r] = i - 1 /\ RecordInbound(r))
                           /\ WF_ingressVars(ReceiveWebhook(r))
    /\ \A a \in Attempts : WF_ingressVars(AttemptFinalized(a))

-----------------------------------------------------------------------------
(* D-026 and D-029: a webhook that was answered 200 has all its messages   *)
(* in PostgreSQL and all its attempts known, whatever died or expired in   *)
(* between: Piki never acknowledges and drops an event.                    *)
AcknowledgedIsDurable ==
    \A w \in DOMAIN Webhooks : answer[w] = 200 =>
        /\ MessagesOf(w) \subseteq recorded
        /\ \A s \in ToSet(Webhooks[w].statuses) : s.attempt \in known

(* D-021: the messages of a webhook are recorded all at once or not at     *)
(* all, although their inserts interleave with those of other webhooks and *)
(* can be aborted in between; they stay recorded when a callback of the    *)
(* same webhook is answered 503; and those of a refused webhook never are. *)
RecordingIsAllOrNothing ==
    [][recorded' # recorded =>
          \E w \in Acceptable : recorded' = recorded \cup MessagesOf(w)]_ingressVars

(* Webhooks that lock conversations in opposite orders, failures and       *)
(* replays do not keep a webhook from being acknowledged in the end, when  *)
(* its callbacks are about attempts that get their provider id.            *)
EventuallyAcknowledged ==
    \A w \in Acceptable :
        (\A s \in ToSet(Webhooks[w].statuses) : s.attempt \in Attempts)
            => <>(answer[w] = 200)

=============================================================================
