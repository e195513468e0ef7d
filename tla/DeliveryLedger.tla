--------------------------- MODULE DeliveryLedger ---------------------------
(***************************************************************************)
(* The durable delivery records of delivery/service.py: one attempt per    *)
(* idempotency key "reply:<message_id>", and the append-only status events *)
(* of the attempt.  Keys are represented by the message they are made of.  *)
(*                                                                         *)
(* Callbacks find an attempt by provider_message_id, which an attempt has  *)
(* once finalize has written an accepted result: those are acked.          *)
(***************************************************************************)
EXTENDS Inbound

VARIABLES attempt,      \* status of the attempt, "none" before the claim
          acked,        \* attempts with a provider_message_id
          events        \* the statuses recorded in delivery_status_events

DeliveryAttemptState == {"pending", "unknown", "accepted", "sent",
                         "delivered", "read", "failed"}

ledgerVars == <<attempt, acked, events>>

(* What MetaStatusUpdate can carry.                                        *)
CallbackStatus == {"sent", "delivered", "read", "failed"}

(* The outcomes of one adapter call.                                       *)
AdapterStatus == {"accepted", "unknown", "failed"}

LedgerTypeOK ==
    /\ attempt \in [Messages -> DeliveryAttemptState \cup {"none"}]
    /\ acked \subseteq Messages
    /\ events \in [Messages -> SUBSET DeliveryAttemptState]

LedgerInit ==
    /\ attempt = [m \in Messages |-> "none"]
    /\ acked = {}
    /\ events = [m \in Messages |-> {}]

-----------------------------------------------------------------------------
(* A defective ClaimCreated: a claim left pending is taken over.           *)
ClaimCreatedOrPending(m) ==
    /\ attempt[m] \in {"none", "pending"}
    /\ attempt' = [attempt EXCEPT ![m] = "pending"]
    /\ UNCHANGED <<acked, events>>

(* The insert of claim created the row: the caller owns the attempt.       *)
ClaimCreated(m) ==
    /\ attempt[m] = "none"
    /\ attempt' = [attempt EXCEPT ![m] = "pending"]
    /\ UNCHANGED <<acked, events>>

(* The insert met uq_delivery_attempts_idempotency_key.                    *)
ClaimExisting(m) ==
    /\ attempt[m] # "none"
    /\ UNCHANGED ledgerVars

(* A defective ExistingResult: an attempt in progress counts as accepted.  *)
ExistingResultOptimistic(state) == IF state = "pending" THEN "accepted" ELSE state

(* _existing_result: what a replay is told about an attempt it finds.      *)
ExistingResult(state) == IF state = "pending" THEN "unknown" ELSE state

(* finalize: the result of the adapter, written once.  Only an accepted    *)
(* result carries a provider message id.                                   *)
Finalize(m, outcome) ==
    /\ attempt[m] = "pending"
    /\ attempt' = [attempt EXCEPT ![m] = outcome]
    /\ acked' = IF outcome = "accepted" THEN acked \cup {m} ELSE acked
    /\ events' = [events EXCEPT ![m] = @ \cup {outcome}]

-----------------------------------------------------------------------------
(* A defective CanTransition: a failure is accepted at any time.           *)
CanTransitionAnyFailure(current, target) ==
    \/ current = "accepted"  /\ target \in {"sent", "delivered", "read", "failed"}
    \/ current = "sent"      /\ target \in {"delivered", "read", "failed"}
    \/ current = "delivered" /\ target \in {"read", "failed"}
    \/ current = "read"      /\ target = "failed"

(* _can_transition.                                                        *)
CanTransition(current, target) ==
    \/ current = "accepted"  /\ target \in {"sent", "delivered", "read", "failed"}
    \/ current = "sent"      /\ target \in {"delivered", "read", "failed"}
    \/ current = "delivered" /\ target = "read"

(* A defective CommitCallback: the event is kept only if it is applied.    *)
CommitCallbackUnaudited(m, target, current) ==
    IF target \notin events[m] /\ CanTransition(current, target)
    THEN /\ events' = [events EXCEPT ![m] = @ \cup {target}]
         /\ attempt' = [attempt EXCEPT ![m] = target]
         /\ UNCHANGED acked
    ELSE UNCHANGED ledgerVars

(* A defective CommitCallback: the attempt moves but no event is kept.     *)
CommitCallbackNoEvent(m, target, current) ==
    /\ attempt' = IF CanTransition(current, target)
                  THEN [attempt EXCEPT ![m] = target] ELSE attempt
    /\ UNCHANGED <<acked, events>>

(* The rest of _apply_callback once the attempt has been read as current,  *)
(* up to the commit.  The insert of the event waits for a concurrent one   *)
(* of the same status and loses to it (DUPLICATE); the attempt's row is    *)
(* written by primary key, whatever its state has become.                  *)
CommitCallback(m, target, current) ==
    IF target \in events[m]
    THEN UNCHANGED ledgerVars
    ELSE /\ events' = [events EXCEPT ![m] = @ \cup {target}]
         /\ attempt' = IF CanTransition(current, target)
                       THEN [attempt EXCEPT ![m] = target]
                       ELSE attempt
         /\ UNCHANGED acked

(* The whole of _apply_callback with nothing in between.                   *)
ApplyCallback(m, target) ==
    /\ m \in acked
    /\ CommitCallback(m, target, attempt[m])

=============================================================================
