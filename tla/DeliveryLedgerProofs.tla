------------------------ MODULE DeliveryLedgerProofs ------------------------
(***************************************************************************)
(* Facts about the operations of DeliveryLedger that the proofs of the     *)
(* specifications built on it share.                                       *)
(***************************************************************************)
EXTENDS DeliveryLedger, TLAPS

(* The insert of a new attempt keeps the types.                            *)
LEMMA ClaimCreatedType ==
    ASSUME LedgerTypeOK, NEW m \in Messages, ClaimCreated(m)
    PROVE  LedgerTypeOK'
  BY DEF LedgerTypeOK, ClaimCreated, DeliveryAttemptState

(* finalize keeps the types.                                               *)
LEMMA FinalizeType ==
    ASSUME LedgerTypeOK, NEW m \in Messages, NEW s \in DeliveryAttemptState,
           Finalize(m, s)
    PROVE  LedgerTypeOK'
<1>1. events' \in [Messages -> SUBSET DeliveryAttemptState]
  BY DEF LedgerTypeOK, Finalize
<1>2. attempt' \in [Messages -> DeliveryAttemptState \cup {"none"}]
  BY DEF LedgerTypeOK, Finalize
<1>3. acked' \subseteq Messages
  BY DEF LedgerTypeOK, Finalize
<1> QED
  BY <1>1, <1>2, <1>3 DEF LedgerTypeOK

(* A callback transaction keeps the types, whatever state it read.         *)
LEMMA CommitCallbackType ==
    ASSUME LedgerTypeOK, NEW m \in Messages, NEW s \in CallbackStatus, NEW current,
           CommitCallback(m, s, current)
    PROVE  LedgerTypeOK'
<1>1. s \in DeliveryAttemptState
  BY DEF CallbackStatus, DeliveryAttemptState
<1>2. CASE s \in events[m]
  BY <1>2 DEF CommitCallback, LedgerTypeOK, ledgerVars
<1>3. CASE s \notin events[m]
  <2>1. events' \in [Messages -> SUBSET DeliveryAttemptState]
    BY <1>1, <1>3 DEF LedgerTypeOK, CommitCallback
  <2>2. attempt' \in [Messages -> DeliveryAttemptState \cup {"none"}]
    BY <1>1, <1>3 DEF LedgerTypeOK, CommitCallback
  <2> QED
    BY <1>3, <2>1, <2>2 DEF LedgerTypeOK, CommitCallback
<1> QED
  BY <1>2, <1>3

=============================================================================
