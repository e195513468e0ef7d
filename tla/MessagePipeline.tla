-------------------------- MODULE MessagePipeline ---------------------------
(***************************************************************************)
(* The path of an inbound WhatsApp message through Piki: the webhook       *)
(* records it in the outbox, a worker process claims it, composes a reply  *)
(* under the Redis lock of its conversation, stores the reply, releases    *)
(* the lock, delivers the reply to Meta once, and settles the outbox row.  *)
(* Workers run concurrently, may crash between any two steps and are       *)
(* restarted; claims time out and are taken over; leases expire while      *)
(* their holder still works; Redis, PostgreSQL, the LLM and Meta may fail. *)
(*                                                                         *)
(* One action is one await of process_once that another process can        *)
(* observe: a transaction, a Redis command or the HTTP request to Meta.    *)
(***************************************************************************)
EXTENDS Outbox, ConversationLock, DeliveryLedger, Sequences

CONSTANTS HandoffMessages,  \* those whose intent resolves to HUMAN_HANDOFF
          Texts,            \* the replies composition can produce
          MaxAttempts,      \* conversation_worker_max_attempts
          Callbacks,        \* the status callbacks Meta may send
          MaxCrashes        \* bound on crashes of worker processes

ASSUME PipelineAssumption ==
    /\ ConversationOf \in [Messages -> Conversations]
    /\ HandoffMessages \subseteq Messages
    /\ None \notin Texts
    /\ None \notin Workers
    /\ MaxAttempts \in Nat \ {0}
    /\ Callbacks \subseteq CallbackStatus
    /\ MaxCrashes \in Nat

VARIABLES pc,           \* the control point of each worker process
          msg,          \* locals of process_once: the claimed message,
          tries,        \*   job.attempts,
          text,         \*   reply.text,
          result,       \*   result.status of the delivery
          reply,        \* content_text of the row "piki-reply:<message>"
          conversation, \* the status column of each conversation
          sent,         \* the bodies POSTed to Meta for each message
          overrun,      \* history: messages whose lease ran out on a holder
          crashes       \* how many crashes have happened

locals == <<msg, tries, text, result>>
workerVars == <<pc, locals>>
storeVars == <<reply, conversation>>
pipelineVars == <<outboxVars, lease, ledgerVars, workerVars, storeVars, sent,
                  overrun, crashes>>

Control == {"idle", "acquire", "find", "handoff", "compose", "record",
            "release", "unwind", "claim", "post", "finalize", "settle",
            "fail", "down"}

(* The control points between acquire and release of respond_persisted.    *)
Locked == {"find", "handoff", "compose", "record", "release", "unwind"}

WorkerTypeOK ==
    /\ pc \in [Workers -> Control]
    /\ msg \in [Workers -> Messages \cup {None}]
    /\ tries \in [Workers -> Nat]
    /\ text \in [Workers -> Texts \cup {None}]
    /\ result \in [Workers -> DeliveryAttemptState \cup {None}]

(* Which locals are set where a worker uses them.                          *)
LocalsOK ==
    \A w \in Workers :
        /\ pc[w] \notin {"idle", "down"} => msg[w] \in Messages
        /\ pc[w] \in {"record", "release", "claim", "post"} => text[w] \in Texts
        /\ pc[w] \in {"finalize", "settle"} => result[w] \in DeliveryAttemptState

StoreTypeOK ==
    /\ reply \in [Messages -> Texts \cup {None}]
    /\ conversation \in [Conversations -> {"piki_active", "needs_human"}]

(* The type of every variable of the pipeline.                             *)
TypeOK ==
    /\ OutboxTypeOK
    /\ LockTypeOK
    /\ LedgerTypeOK
    /\ WorkerTypeOK
    /\ LocalsOK
    /\ StoreTypeOK
    /\ sent \in [Messages -> Seq(Texts)]
    /\ overrun \subseteq Messages
    /\ crashes \in Nat

Init ==
    /\ OutboxInit
    /\ LockInit
    /\ LedgerInit
    /\ pc = [w \in Workers |-> "idle"]
    /\ msg = [w \in Workers |-> None]
    /\ tries = [w \in Workers |-> 0]
    /\ text = [w \in Workers |-> None]
    /\ result = [w \in Workers |-> None]
    /\ reply = [m \in Messages |-> None]
    /\ conversation = [c \in Conversations |-> "piki_active"]
    /\ sent = [m \in Messages |-> <<>>]
    /\ overrun = {}
    /\ crashes = 0

Goto(w, p) == pc' = [pc EXCEPT ![w] = p]

(* process_once is over and its locals are gone.                           *)
EndJob(w, p) ==
    /\ Goto(w, p)
    /\ msg' = [msg EXCEPT ![w] = None]
    /\ tries' = [tries EXCEPT ![w] = 0]
    /\ text' = [text EXCEPT ![w] = None]
    /\ result' = [result EXCEPT ![w] = None]

Conv(w) == ConversationOf[msg[w]]

-----------------------------------------------------------------------------
(* The webhook: ingest commits the message before Meta is answered, and    *)
(* Meta may deliver it again at any time.                                  *)
Ingest(m) ==
    /\ RecordInbound(m)
    /\ UNCHANGED <<lease, ledgerVars, workerVars, storeVars, sent, overrun,
                   crashes>>

(* A status callback of Meta for an attempt, applied in one transaction.   *)
ProviderCallback(m, target) ==
    /\ ApplyCallback(m, target)
    /\ UNCHANGED <<outboxVars, lease, workerVars, storeVars, sent, overrun,
                   crashes>>

-----------------------------------------------------------------------------
(* A defective ClaimMessage: the claimed row is not handed to the worker.  *)
ClaimMessageForgotten(w, m) ==
    /\ pc[w] = "idle"
    /\ ClaimNext(m)
    /\ Goto(w, "acquire")
    /\ UNCHANGED <<lease, ledgerVars, locals, storeVars, sent, overrun, crashes>>

(* process_once: claim_next.                                               *)
ClaimMessage(w, m) ==
    /\ pc[w] = "idle"
    /\ ClaimNext(m)
    /\ Goto(w, "acquire")
    /\ msg' = [msg EXCEPT ![w] = m]
    /\ tries' = [tries EXCEPT ![w] = attempts[m] + 1]
    /\ UNCHANGED <<lease, ledgerVars, text, result, storeVars, sent, overrun,
                   crashes>>

(* respond_persisted: the lease is granted ...                             *)
AcquireLease(w) ==
    /\ pc[w] = "acquire"
    /\ Acquire(Conv(w), w)
    /\ Goto(w, "find")
    /\ UNCHANGED <<outboxVars, ledgerVars, locals, storeVars, sent, overrun,
                   crashes>>

(* ... or it is not, and ConversationBusyError sends process_once to fail. *)
ConversationBusy(w) ==
    /\ pc[w] = "acquire"
    /\ AcquireRefused(Conv(w), w)
    /\ Goto(w, "fail")
    /\ UNCHANGED <<outboxVars, ledgerVars, locals, storeVars, sent, overrun,
                   crashes>>

(* Where composition of a reply to m begins.                               *)
ComposeEntry(m) == IF m \in HandoffMessages THEN "handoff" ELSE "compose"

(* Two defective forms of FindReply: the stored reply is not looked up,    *)
(* and a handoff message is composed without its handoff.                  *)
FindReplyIgnored(w) ==
    /\ pc[w] = "find"
    /\ Goto(w, ComposeEntry(msg[w]))
    /\ UNCHANGED <<outboxVars, lease, ledgerVars, locals, storeVars, sent,
                   overrun, crashes>>

FindReplyNoHandoff(w) ==
    /\ pc[w] = "find"
    /\ IF reply[msg[w]] # None
       THEN Goto(w, "release") /\ text' = [text EXCEPT ![w] = reply[msg[w]]]
       ELSE Goto(w, "compose") /\ UNCHANGED text
    /\ UNCHANGED <<outboxVars, lease, ledgerVars, msg, tries, result, storeVars,
                   sent, overrun, crashes>>

(* find_message: a stored reply is reused; otherwise the history is read   *)
(* and a reply has to be composed.                                         *)
FindReply(w) ==
    /\ pc[w] = "find"
    /\ IF reply[msg[w]] # None
       THEN Goto(w, "release") /\ text' = [text EXCEPT ![w] = reply[msg[w]]]
       ELSE Goto(w, ComposeEntry(msg[w])) /\ UNCHANGED text
    /\ UNCHANGED <<outboxVars, lease, ledgerVars, msg, tries, result, storeVars,
                   sent, overrun, crashes>>

(* _compose_reply, HUMAN_HANDOFF: HandoffRepository.request commits on its *)
(* own, before anything is composed.                                       *)
RequestHandoff(w) ==
    /\ pc[w] = "handoff"
    /\ conversation' = [conversation EXCEPT ![Conv(w)] = "needs_human"]
    /\ Goto(w, "compose")
    /\ UNCHANGED <<outboxVars, lease, ledgerVars, locals, reply, sent, overrun,
                   crashes>>

(* _compose_reply: tools, LLM, grounding and fallback end in some text.    *)
ComposeReply(w) ==
    /\ pc[w] = "compose"
    /\ \E t \in Texts : text' = [text EXCEPT ![w] = t]
    /\ Goto(w, "record")
    /\ UNCHANGED <<outboxVars, lease, ledgerVars, msg, tries, result, storeVars,
                   sent, overrun, crashes>>

(* record_outbound: the first reply stored for a message stays; the caller *)
(* goes on with the text it composed.                                      *)
RecordOutbound(w) ==
    /\ pc[w] = "record"
    /\ reply' = [reply EXCEPT ![msg[w]] = IF @ = None THEN text[w] ELSE @]
    /\ Goto(w, "release")
    /\ UNCHANGED <<outboxVars, lease, ledgerVars, locals, conversation, sent,
                   overrun, crashes>>

(* The finally block of respond_persisted, after a result and after an     *)
(* exception; Redis may be unavailable both times.                         *)
ReleaseLease(w) ==
    /\ pc[w] \in {"release", "unwind"}
    /\ Release(Conv(w), w) \/ ReleaseUnavailable(Conv(w))
    /\ Goto(w, IF pc[w] = "release" THEN "claim" ELSE "fail")
    /\ UNCHANGED <<outboxVars, ledgerVars, locals, storeVars, sent, overrun,
                   crashes>>

-----------------------------------------------------------------------------
(* IdempotentDeliveryService.send: claim the idempotency key ...           *)
ClaimDelivery(w) ==
    /\ pc[w] = "claim"
    /\ ClaimCreated(msg[w])
    /\ Goto(w, "post")
    /\ UNCHANGED <<outboxVars, lease, locals, storeVars, sent, overrun, crashes>>

(* ... or find it claimed, and take the result from the attempt's record.  *)
ReplayDelivery(w) ==
    /\ pc[w] = "claim"
    /\ ClaimExisting(msg[w])
    /\ Goto(w, "settle")
    /\ result' = [result EXCEPT ![w] = ExistingResult(attempt[msg[w]])]
    /\ UNCHANGED <<outboxVars, lease, msg, tries, text, storeVars, sent, overrun,
                   crashes>>

(* MetaDeliveryAdapter.send leaves without a request: the service window   *)
(* is not confirmed open, or the connection could not be made.             *)
RequestNotSent(w) ==
    /\ pc[w] = "post"
    /\ \E outcome \in {"failed", "unknown"} :
          result' = [result EXCEPT ![w] = outcome]
    /\ Goto(w, "finalize")
    /\ UNCHANGED <<outboxVars, lease, ledgerVars, msg, tries, text, storeVars,
                   sent, overrun, crashes>>

(* The request reaches Meta; the answer is an id, an error, or lost.       *)
PostToMeta(w) ==
    /\ pc[w] = "post"
    /\ sent' = [sent EXCEPT ![msg[w]] = Append(@, text[w])]
    /\ \E outcome \in AdapterStatus : result' = [result EXCEPT ![w] = outcome]
    /\ Goto(w, "finalize")
    /\ UNCHANGED <<outboxVars, lease, ledgerVars, msg, tries, text, storeVars,
                   overrun, crashes>>

FinalizeAttempt(w) ==
    /\ pc[w] = "finalize"
    /\ Finalize(msg[w], result[w])
    /\ Goto(w, "settle")
    /\ UNCHANGED <<outboxVars, lease, locals, storeVars, sent, overrun, crashes>>

-----------------------------------------------------------------------------
Acknowledged == {"accepted", "sent", "delivered", "read"}

(* process_once settles the claim by the delivery result.                  *)
SettleClaim(w) ==
    /\ pc[w] = "settle"
    /\ IF result[w] \in Acknowledged
       THEN Complete(msg[w])
       ELSE Fail(msg[w], FALSE)
    /\ EndJob(w, "idle")
    /\ UNCHANGED <<lease, ledgerVars, storeVars, sent, overrun, crashes>>

(* A defective FailClaim: one retry too many.                              *)
FailClaimOnceMore(w) ==
    /\ pc[w] = "fail"
    /\ Fail(msg[w], tries[w] <= MaxAttempts)
    /\ EndJob(w, "idle")
    /\ UNCHANGED <<lease, ledgerVars, storeVars, sent, overrun, crashes>>

(* The except clauses of process_once: retry while attempts remain.        *)
FailClaim(w) ==
    /\ pc[w] = "fail"
    /\ Fail(msg[w], tries[w] < MaxAttempts)
    /\ EndJob(w, "idle")
    /\ UNCHANGED <<lease, ledgerVars, storeVars, sent, overrun, crashes>>

(* The claim was settled by another worker.  The RuntimeError of the first *)
(* _transition is caught and leads to fail; the one of fail itself leaves  *)
(* process_once and ends run_worker.                                       *)
ClaimLost(w) ==
    /\ pc[w] \in {"settle", "fail"}
    /\ ~ClaimActive(msg[w])
    /\ \/ pc[w] = "settle" /\ Goto(w, "fail") /\ UNCHANGED locals
       \/ pc[w] = "fail" /\ EndJob(w, "down")
    /\ UNCHANGED <<outboxVars, lease, ledgerVars, storeVars, sent, overrun,
                   crashes>>

(* An exception of PostgreSQL, of a validation or of composition, at any   *)
(* step inside the try blocks; an error of a transaction rolls it back.    *)
StepRaises(w) ==
    /\ \/ /\ pc[w] \in {"find", "handoff", "compose", "record"}
          /\ Goto(w, "unwind")
       \/ /\ pc[w] \in {"claim", "finalize", "settle"}
          /\ Goto(w, "fail")
    /\ UNCHANGED <<outboxVars, lease, ledgerVars, locals, storeVars, sent,
                   overrun, crashes>>

-----------------------------------------------------------------------------
(* A worker process dies with all its locals; its claim and lease remain.  *)
Crash(w) ==
    /\ pc[w] # "down"
    /\ crashes < MaxCrashes
    /\ crashes' = crashes + 1
    /\ EndJob(w, "down")
    /\ UNCHANGED <<outboxVars, lease, ledgerVars, storeVars, sent, overrun>>

(* The container's restart policy.                                         *)
Restart(w) ==
    /\ pc[w] = "down"
    /\ Goto(w, "idle")
    /\ UNCHANGED <<outboxVars, lease, ledgerVars, locals, storeVars, sent,
                   overrun, crashes>>

(* The TTL of a lease runs out; when that happens to a worker that is      *)
(* still inside, its message is remembered in overrun.                     *)
LeaseExpires(c) ==
    /\ Expire(c)
    /\ overrun' = overrun \cup
         {m \in Messages : /\ ConversationOf[m] = c
                           /\ \E w \in Workers : /\ lease[c] = w
                                                 /\ pc[w] \in Locked
                                                 /\ msg[w] = m}
    /\ UNCHANGED <<outboxVars, ledgerVars, workerVars, storeVars, sent, crashes>>

RetryBecomesDue(m) ==
    /\ RetryDelayPasses(m)
    /\ UNCHANGED <<lease, ledgerVars, workerVars, storeVars, sent, overrun,
                   crashes>>

ClaimBecomesStale(m) ==
    /\ ClaimTimesOut(m)
    /\ UNCHANGED <<lease, ledgerVars, workerVars, storeVars, sent, overrun,
                   crashes>>

-----------------------------------------------------------------------------
WorkerStep(w) ==
    \/ \E m \in Messages : ClaimMessage(w, m)
    \/ AcquireLease(w)
    \/ ConversationBusy(w)
    \/ FindReply(w)
    \/ RequestHandoff(w)
    \/ ComposeReply(w)
    \/ RecordOutbound(w)
    \/ ReleaseLease(w)
    \/ ClaimDelivery(w)
    \/ ReplayDelivery(w)
    \/ RequestNotSent(w)
    \/ PostToMeta(w)
    \/ FinalizeAttempt(w)
    \/ SettleClaim(w)
    \/ FailClaim(w)
    \/ ClaimLost(w)
    \/ StepRaises(w)

Next ==
    \/ \E m \in Messages : \/ Ingest(m)
                           \/ RetryBecomesDue(m)
                           \/ ClaimBecomesStale(m)
                           \/ \E s \in Callbacks : ProviderCallback(m, s)
    \/ \E c \in Conversations : LeaseExpires(c)
    \/ \E w \in Workers : WorkerStep(w) \/ Crash(w) \/ Restart(w)

Spec == Init /\ [][Next]_pipelineVars

(***************************************************************************)
(* Every await of a worker ends: the HTTP clients have timeouts and the    *)
(* databases answer or fail.  Restart policies bring a dead process back.  *)
(* Clocks advance, so retry delays, claims and leases run out.  Nothing    *)
(* obliges Meta to send anything or a process to crash.                    *)
(***************************************************************************)
Fairness ==
    /\ \A w \in Workers : WF_pipelineVars(WorkerStep(w))
                          /\ WF_pipelineVars(Restart(w))
    /\ \A m \in Messages : /\ WF_pipelineVars(RetryBecomesDue(m))
                           /\ WF_pipelineVars(ClaimBecomesStale(m))
    /\ \A c \in Conversations : WF_pipelineVars(LeaseExpires(c))

FairSpec == Spec /\ Fairness

-----------------------------------------------------------------------------
(* At most one request per message ever reaches Meta, whatever crashes,    *)
(* takeovers, retries and lost answers happen: the claim of the            *)
(* idempotency key in delivery/service.py is the only gate to the adapter. *)
AtMostOnePost == \A m \in Messages : Len(sent[m]) <= 1

(* What the customer was sent is what the conversation history stores,     *)
(* unless the lease of the message ran out while a worker was composing    *)
(* its reply: record_outbound keeps the first text but its caller goes on  *)
(* with its own, so only the lock keeps the two equal.                     *)
PostedReplyIsStored ==
    \A m \in Messages : \A i \in 1..Len(sent[m]) :
        /\ reply[m] # None
        /\ m \notin overrun => sent[m][i] = reply[m]

(* A worker between acquire and release owns the key of its conversation   *)
(* unless its lease ran out: nobody else, late release included, can take  *)
(* or delete it.  Two workers are therefore never both composing in one    *)
(* conversation before one of the leases has run out.                      *)
LeaseProtectsHolder ==
    \A w \in Workers :
        pc[w] \in Locked /\ msg[w] \notin overrun
            => lease[Conv(w)] = w

(* A message is completed only when Meta returned a message id for its one *)
(* request; uncertain, rejected and in-progress deliveries are never       *)
(* reported as completed.                                                  *)
CompletedWasAcknowledged ==
    \A m \in Messages : status[m] = "completed" =>
        m \in acked /\ Len(sent[m]) = 1

(* A reply that confirms a handoff is never stored or sent before the      *)
(* handoff itself is durable: HandoffRepository.request commits first and  *)
(* a retry that finds the stored reply may rely on it.                     *)
HandoffBeforeConfirmation ==
    \A m \in HandoffMessages :
        reply[m] # None \/ sent[m] # <<>>
            => conversation[ConversationOf[m]] = "needs_human"

(* Claims beyond the configured maximum come from takeovers of claims that *)
(* were not settled, one for each; retries alone never exceed it.          *)
RetryBudget ==
    \A m \in Messages : attempts[m] <= MaxAttempts + reclaims[m]

(* No redelivery, retry or late worker brings a settled message back.      *)
SettledIsFinal ==
    [][\A m \in Messages : status[m] \in Terminal =>
                              status'[m] = status[m]]_pipelineVars

(* Every message that was ingested is eventually completed or failed, in   *)
(* spite of crashes, orphaned leases and claims lost to other workers.     *)
EveryMessageSettles ==
    \A m \in Messages :
        status[m] = "pending" ~> status[m] \in Terminal

(* PIKI_EVIDENCE.md on the outbox: "bounded attempt counts".               *)
AttemptsBounded == \A m \in Messages : attempts[m] <= MaxAttempts

(* OPERATOR_CONSOLE_ARCHITECTURE.md: "`needs_human` and `human_active`     *)
(* suppress automated outbound messages".  The confirmation of the handoff *)
(* itself is not held against the code.                                    *)
NeedsHumanSuppressesReplies ==
    [][\A m \in Messages \ HandoffMessages :
          sent'[m] # sent[m] =>
              conversation[ConversationOf[m]] # "needs_human"]_pipelineVars

=============================================================================
