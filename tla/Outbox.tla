------------------------------- MODULE Outbox -------------------------------
(***************************************************************************)
(* The durable processing outbox of db/processing.py: the processing_*     *)
(* columns of the inbound rows of the table messages.  Every operation is  *)
(* one PostgreSQL transaction, hence one step.  The operators below        *)
(* constrain these columns only; MessagePipeline adds the worker that      *)
(* calls them.                                                             *)
(*                                                                         *)
(* Time is abstracted to the two comparisons the code makes with it:       *)
(*   due    processing_available_at <= now,                                *)
(*   stale  processing_claimed_at <= now - claim_timeout_seconds.          *)
(* A worker's row lock lasts for its claim transaction only, so SKIP       *)
(* LOCKED decides between concurrent claims and nothing else: any eligible *)
(* row may be the one a claim returns.                                     *)
(***************************************************************************)
EXTENDS Inbound, Naturals

VARIABLES status,       \* processing_status, "absent" before the insert
          attempts,     \* processing_attempts
          due,          \* rows whose processing_available_at has come
          stale,        \* rows whose claim is older than the timeout
          reclaims      \* history: claims taken over before they were settled

outboxVars == <<status, attempts, due, stale, reclaims>>

ProcessingStatus == {"pending", "processing", "completed", "failed"}

Terminal == {"completed", "failed"}

OutboxTypeOK ==
    /\ status \in [Messages -> ProcessingStatus \cup {"absent"}]
    /\ attempts \in [Messages -> Nat]
    /\ due \subseteq Messages
    /\ stale \subseteq Messages
    /\ reclaims \in [Messages -> Nat]

OutboxInit ==
    /\ status = [m \in Messages |-> "absent"]
    /\ attempts = [m \in Messages |-> 0]
    /\ due = {}
    /\ stale = {}
    /\ reclaims = [m \in Messages |-> 0]

-----------------------------------------------------------------------------
(* A defective RecordInbound: a redelivery puts the row back to pending.   *)
RecordInboundUpsert(m) ==
    /\ status' = [status EXCEPT ![m] = "pending"]
    /\ due' = due \cup {m}
    /\ UNCHANGED <<attempts, stale, reclaims>>

(* A webhook delivery of m: the first one inserts a pending row, a         *)
(* redelivery meets uq_messages_external_message_id and changes nothing.   *)
RecordInbound(m) ==
    IF status[m] = "absent"
    THEN /\ status' = [status EXCEPT ![m] = "pending"]
         /\ due' = due \cup {m}
         /\ UNCHANGED <<attempts, stale, reclaims>>
    ELSE UNCHANGED outboxVars

(* A defective Claimable: stale claims are not recovered.                  *)
ClaimablePendingOnly(m) == status[m] = "pending" /\ m \in due

(* The WHERE clause of claim_next.                                         *)
Claimable(m) == \/ status[m] = "pending" /\ m \in due
                \/ status[m] = "processing" /\ m \in stale

(* claim_next returns m: no bound on attempts is checked here.             *)
ClaimNext(m) ==
    /\ Claimable(m)
    /\ status' = [status EXCEPT ![m] = "processing"]
    /\ attempts' = [attempts EXCEPT ![m] = @ + 1]
    /\ stale' = stale \ {m}
    /\ reclaims' = [reclaims EXCEPT ![m] = IF status[m] = "processing"
                                           THEN @ + 1 ELSE @]
    /\ UNCHANGED due

(* The WHERE clause of _transition: the row is claimed, by whomever.       *)
ClaimActive(m) == status[m] = "processing"

Transition(m, target) ==
    /\ ClaimActive(m)
    /\ status' = [status EXCEPT ![m] = target]
    /\ due' = due \ {m}
    /\ stale' = stale \ {m}
    /\ UNCHANGED <<attempts, reclaims>>

Complete(m) == Transition(m, "completed")

Fail(m, retry) == Transition(m, IF retry THEN "pending" ELSE "failed")

-----------------------------------------------------------------------------
(* The passage of time.                                                    *)
RetryDelayPasses(m) ==
    /\ status[m] = "pending"
    /\ m \notin due
    /\ due' = due \cup {m}
    /\ UNCHANGED <<status, attempts, stale, reclaims>>

ClaimTimesOut(m) ==
    /\ ClaimActive(m)
    /\ m \notin stale
    /\ stale' = stale \cup {m}
    /\ UNCHANGED <<status, attempts, due, reclaims>>

=============================================================================
