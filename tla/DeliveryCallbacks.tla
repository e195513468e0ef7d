------------------------- MODULE DeliveryCallbacks --------------------------
(***************************************************************************)
(* The status loop of DefaultMetaWebhookIngress.ingest over                *)
(* PostgresDeliveryStore.apply_callback: webhook requests that carry       *)
(* status callbacks are handled concurrently with each other and with the  *)
(* worker that records the delivery attempts they are about.               *)
(*                                                                         *)
(* A request handles its callbacks in order, each in a transaction of its  *)
(* own, and answers 200 after the last one.  A callback whose attempt is   *)
(* not found ends the request with 503; an exception or a crash ends it    *)
(* unanswered.  In both cases Meta delivers the whole webhook again.       *)
(***************************************************************************)
EXTENDS DeliveryLedger, Naturals, Sequences

CONSTANTS Handlers,     \* webhook requests that may be in progress at once
          Webhooks,     \* status webhooks: sequences of callbacks
          MaxCrashes    \* bound on requests that end without an answer

Callback == [msg : Messages, status : CallbackStatus]

ASSUME WebhooksAssumption ==
    /\ Webhooks \subseteq Seq(Callback)
    /\ \A b \in Webhooks : Len(b) > 0
    /\ MaxCrashes \in Nat

VARIABLES pc,           \* the control point of each request
          hook,         \* its webhook,
          pos,          \*   the callback of it that is being handled,
          seen,         \*   and the status the SELECT of that callback read
          posted,       \* messages whose request reached Meta
          answered,     \* webhooks answered with 200
          emitted,      \* how often a message's outcome was emitted
          crashes,      \* how many requests ended without an answer
          raced         \* history: messages whose attempt was written after
                        \* a read that another request had made stale

requestVars == <<pc, hook, pos, seen>>
callbackVars == <<ledgerVars, requestVars, posted, answered, emitted, crashes, raced>>

(* The callbacks that stand for an outcome of the delivery.                *)
Outcome == {"delivered", "failed"}

RequestTypeOK ==
    /\ pc \in [Handlers -> {"idle", "read", "commit", "emit"}]
    /\ hook \in [Handlers -> Webhooks \cup {None}]
    /\ pos \in [Handlers -> Nat]
    /\ seen \in [Handlers -> DeliveryAttemptState \cup {"none"}]

(* A request in progress is at one of the callbacks of its webhook.        *)
PositionOK ==
    \A h \in Handlers :
        pc[h] # "idle" => /\ hook[h] \in Webhooks
                          /\ pos[h] \in 1..Len(hook[h])

(* The type of every variable.                                             *)
TypeOK ==
    /\ LedgerTypeOK
    /\ RequestTypeOK
    /\ PositionOK
    /\ posted \subseteq Messages
    /\ answered \subseteq Webhooks
    /\ emitted \in [Messages \X Outcome -> Nat]
    /\ crashes \in Nat
    /\ raced \subseteq Messages

Init ==
    /\ LedgerInit
    /\ pc = [h \in Handlers |-> "idle"]
    /\ hook = [h \in Handlers |-> None]
    /\ pos = [h \in Handlers |-> 0]
    /\ seen = [h \in Handlers |-> "none"]
    /\ posted = {}
    /\ answered = {}
    /\ emitted = [o \in Messages \X Outcome |-> 0]
    /\ crashes = 0
    /\ raced = {}

(* The callback a request is handling.                                     *)
Msg(h) == hook[h][pos[h]].msg
Status(h) == hook[h][pos[h]].status

-----------------------------------------------------------------------------
(* The worker's side: claim, request to Meta, finalize.  A worker that     *)
(* crashes simply takes none of the remaining steps.                       *)
ClaimAttempt(m) ==
    /\ ClaimCreated(m)
    /\ UNCHANGED <<requestVars, posted, answered, emitted, crashes, raced>>

MetaReceives(m) ==
    /\ attempt[m] = "pending"
    /\ m \notin posted
    /\ posted' = posted \cup {m}
    /\ UNCHANGED <<ledgerVars, requestVars, answered, emitted, crashes, raced>>

FinalizeAttempt(m, status) ==
    /\ status = "accepted" => m \in posted
    /\ Finalize(m, status)
    /\ UNCHANGED <<requestVars, posted, answered, emitted, crashes, raced>>

-----------------------------------------------------------------------------
(* Meta delivers a webhook, in any order, any number of times.             *)
ReceiveWebhook(h, b) ==
    /\ pc[h] = "idle"
    /\ \A i \in 1..Len(b) : b[i].msg \in posted
    /\ pc' = [pc EXCEPT ![h] = "read"]
    /\ hook' = [hook EXCEPT ![h] = b]
    /\ pos' = [pos EXCEPT ![h] = 1]
    /\ UNCHANGED <<ledgerVars, seen, posted, answered, emitted, crashes, raced>>

(* The request is over and its locals are gone.                            *)
EndRequest(h) ==
    /\ pc' = [pc EXCEPT ![h] = "idle"]
    /\ hook' = [hook EXCEPT ![h] = None]
    /\ pos' = [pos EXCEPT ![h] = 0]
    /\ seen' = [seen EXCEPT ![h] = "none"]

(* A defective NextCallback: the loop runs past the last callback.         *)
NextCallbackPastEnd(h) ==
    /\ pc' = [pc EXCEPT ![h] = "read"]
    /\ pos' = [pos EXCEPT ![h] = @ + 1]
    /\ seen' = [seen EXCEPT ![h] = "none"]
    /\ UNCHANGED <<hook, answered>>

(* The request is done with its current callback: on to the next one, or   *)
(* answer 200.                                                             *)
NextCallback(h) ==
    IF pos[h] < Len(hook[h])
    THEN /\ pc' = [pc EXCEPT ![h] = "read"]
         /\ pos' = [pos EXCEPT ![h] = @ + 1]
         /\ seen' = [seen EXCEPT ![h] = "none"]
         /\ UNCHANGED <<hook, answered>>
    ELSE /\ EndRequest(h)
         /\ answered' = answered \cup {hook[h]}

(* A defective MissingAttempt: the callback is skipped instead of retried. *)
MissingAttemptSkipped(h) ==
    /\ pc[h] = "read"
    /\ Msg(h) \notin acked
    /\ NextCallback(h)
    /\ UNCHANGED <<ledgerVars, posted, emitted, crashes, raced>>

(* MISSING_ATTEMPT raises MetaIngressRetryableError: 503, and the rest of  *)
(* the webhook is not looked at.                                           *)
MissingAttempt(h) ==
    /\ pc[h] = "read"
    /\ Msg(h) \notin acked
    /\ EndRequest(h)
    /\ UNCHANGED <<ledgerVars, posted, answered, emitted, crashes, raced>>

(* The SELECT of _apply_callback; it takes no lock.                        *)
ReadAttempt(h) ==
    /\ pc[h] = "read"
    /\ Msg(h) \in acked
    /\ pc' = [pc EXCEPT ![h] = "commit"]
    /\ seen' = [seen EXCEPT ![h] = attempt[Msg(h)]]
    /\ UNCHANGED <<ledgerVars, hook, pos, posted, answered, emitted, crashes, raced>>

(* What _apply_callback returns after the attempt was read.                *)
ApplyStatus(h) ==
    IF Status(h) \in events[Msg(h)] THEN "duplicate"
    ELSE IF CanTransition(seen[h], Status(h)) THEN "applied"
    ELSE "ignored_regression"

(* The attempt is written by primary key, whatever it has become since the *)
(* SELECT: another request may have moved it.                              *)
Stale(h) == pc[h] = "commit" /\ seen[h] # attempt[Msg(h)]

NoteRace(h) ==
    raced' = IF Stale(h) /\ ApplyStatus(h) = "applied"
             THEN raced \cup {Msg(h)} ELSE raced

(* apply_callback has an outcome to emit, or the loop of ingest goes on.   *)
EmitOrContinue(h, emit) ==
    IF emit
    THEN /\ pc' = [pc EXCEPT ![h] = "emit"]
         /\ UNCHANGED <<hook, pos, seen, answered>>
    ELSE NextCallback(h)

(* Two defective forms of ApplyTransaction: an outcome is emitted for a    *)
(* duplicate as well, and a duplicate is answered with an error.           *)
ApplyTransactionEmitsDuplicate(h) ==
    /\ pc[h] = "commit"
    /\ CommitCallback(Msg(h), Status(h), seen[h])
    /\ EmitOrContinue(h, Status(h) \in Outcome)
    /\ NoteRace(h)
    /\ UNCHANGED <<posted, emitted, crashes>>

ApplyTransactionRejectsDuplicate(h) ==
    /\ pc[h] = "commit"
    /\ CommitCallback(Msg(h), Status(h), seen[h])
    /\ IF ApplyStatus(h) = "duplicate"
       THEN EndRequest(h) /\ UNCHANGED answered
       ELSE EmitOrContinue(h, ApplyStatus(h) = "applied" /\ Status(h) \in Outcome)
    /\ NoteRace(h)
    /\ UNCHANGED <<posted, emitted, crashes>>

(* Insert of the event, transition of the attempt, commit.                 *)
ApplyTransaction(h) ==
    /\ pc[h] = "commit"
    /\ CommitCallback(Msg(h), Status(h), seen[h])
    /\ EmitOrContinue(h, ApplyStatus(h) = "applied" /\ Status(h) \in Outcome)
    /\ NoteRace(h)
    /\ UNCHANGED <<posted, emitted, crashes>>

(* apply_callback emits the outcome after the session has committed.       *)
EmitOutcome(h) ==
    /\ pc[h] = "emit"
    /\ emitted' = [emitted EXCEPT ![<<Msg(h), Status(h)>>] = @ + 1]
    /\ NextCallback(h)
    /\ UNCHANGED <<ledgerVars, posted, crashes, raced>>

(* The request ends without an answer: a crash, or an exception of         *)
(* PostgreSQL, which rolls the open transaction back.                      *)
RequestFails(h) ==
    /\ pc[h] # "idle"
    /\ crashes < MaxCrashes
    /\ crashes' = crashes + 1
    /\ EndRequest(h)
    /\ UNCHANGED <<ledgerVars, posted, answered, emitted, raced>>

-----------------------------------------------------------------------------
HandlerStep(h) ==
    MissingAttempt(h) \/ ReadAttempt(h) \/ ApplyTransaction(h) \/ EmitOutcome(h)

Next ==
    \/ \E m \in Messages :
          \/ ClaimAttempt(m)
          \/ MetaReceives(m)
          \/ \E status \in AdapterStatus : FinalizeAttempt(m, status)
    \/ \E h \in Handlers :
          \/ \E b \in Webhooks : ReceiveWebhook(h, b)
          \/ HandlerStep(h)
          \/ RequestFails(h)

Spec == Init /\ [][Next]_callbackVars

(***************************************************************************)
(* Requests run to their end, and Meta keeps delivering a webhook that has *)
(* not been answered with 200 (external: Meta's retry policy).             *)
(***************************************************************************)
Fairness ==
    /\ \A h \in Handlers : WF_callbackVars(HandlerStep(h))
    /\ \A b \in Webhooks :
          SF_callbackVars(b \notin answered /\ \E h \in Handlers : ReceiveWebhook(h, b))

FairSpec == Spec /\ Fairness

-----------------------------------------------------------------------------
(* A webhook is answered with 200 only when every callback in it has its   *)
(* event on record; a callback that overtakes finalize, or a request that  *)
(* dies half way, is never acknowledged and lost.                          *)
AnsweredMeansAudited ==
    \A b \in answered : \A i \in 1..Len(b) : b[i].status \in events[b[i].msg]

(* The state of an attempt is one that finalize or a callback put on       *)
(* record, even when concurrent requests overwrite each other.             *)
StateIsAudited ==
    \A m \in Messages : attempt[m] \notin {"none", "pending"}
                          => attempt[m] \in events[m]

(* An outcome is emitted at most once per message, and only with its event *)
(* committed: duplicates, redeliveries and rollbacks emit nothing.         *)
OutcomeEmittedOnce ==
    \A m \in Messages : \A s \in Outcome :
        /\ emitted[<<m, s>>] <= 1
        /\ emitted[<<m, s>>] = 1 => s \in events[m]

Rank == [none |-> 0, pending |-> 1, unknown |-> 2, accepted |-> 2, sent |-> 3,
         delivered |-> 4, failed |-> 4, read |-> 5]

(* README.md: "Provider callbacks advance monotonically; late regressions  *)
(* remain audited without corrupting the latest known state."  A step      *)
(* never lowers the state of an attempt and never leaves a failed one.     *)
CallbacksAdvance ==
    [][\A m \in Messages :
          /\ Rank[attempt'[m]] >= Rank[attempt[m]]
          /\ attempt[m] = "failed" => attempt'[m] = "failed"
      ]_callbackVars

(* The same for every step in which no request holds a stale read of the   *)
(* attempt: however many requests are in progress, late, repeated and      *)
(* reordered callbacks are ignored by the transition table, and the read   *)
(* that takes no lock is the only way to a regression.                     *)
FreshCallbacksAdvance ==
    [][\A m \in Messages :
          (\A h \in Handlers : Stale(h) => Msg(h) # m)
             => /\ Rank[attempt'[m]] >= Rank[attempt[m]]
                /\ attempt[m] = "failed" => attempt'[m] = "failed"
      ]_callbackVars

(* A delivery whose attempt was never written on a stale read is not       *)
(* reported both as succeeded and as failed, in whatever order callbacks   *)
(* arrive, are repeated, or are handled by concurrent requests that emit   *)
(* after their commit.  With a stale write both can be reported.           *)
SingleOutcome ==
    \A m \in Messages \ raced :
        ~(emitted[<<m, "delivered">>] > 0 /\ emitted[<<m, "failed">>] > 0)

(* Once Piki knows the provider id of every message a webhook is about,    *)
(* the webhook is eventually answered with 200, in spite of failed         *)
(* requests and redeliveries.                                              *)
WebhookEventuallyAnswered ==
    \A b \in Webhooks :
        (\A i \in 1..Len(b) : b[i].msg \in acked) ~> b \in answered

=============================================================================
