--------------------------- MODULE PendingAction ----------------------------
(***************************************************************************)
(* RedisPendingActionStore of state/pending_actions.py: one key per        *)
(* conversation with the question Piki is waiting to have answered.  It is *)
(* written with a TTL, read with GET, taken with GETDEL and cleared with   *)
(* DEL.  Every action carries an id of its own, so a write is a new value. *)
(*                                                                         *)
(* One action is one Redis command.  A command whose answer is lost in a   *)
(* RedisError may have been executed.                                      *)
(***************************************************************************)
EXTENDS Absent, Naturals, Sequences, SequencesExt

CONSTANTS Actions,      \* the action ids, each written at most once
          PayloadOf,    \* what is stored under each id, this or an older schema
          Getters       \* concurrent callers of get

ASSUME PendingAssumption == None \notin Actions

VARIABLES key,          \* the action under the key, None when absent
          written,      \* the actions that were set
          cleanup,      \* the unreadable action a getter is about to clear
          taken         \* history: how often consume returned each action

pendingVars == <<key, written, cleanup, taken>>

(* PendingAction.validate_shape; "" is a blank candidate.                  *)
ValidShape(p) ==
    /\ \/ /\ p.kind = "select_pick"
          /\ Len(p.candidates) >= 2
          /\ p.subject = None
       \/ /\ p.kind = "provide_order_ownership"
          /\ p.subject # None
          /\ p.candidates = <<>>
    /\ "" \notin ToSet(p.candidates)
    /\ IsInjective(p.candidates)

Readable(a) == ValidShape(PayloadOf[a])

(* The type of every variable.                                             *)
PendingTypeOK ==
    /\ key \in Actions \cup {None}
    /\ written \subseteq Actions
    /\ cleanup \in [Getters -> Actions \cup {None}]
    /\ taken \in [Actions -> Nat]

PendingInit ==
    /\ key = None
    /\ written = {}
    /\ cleanup = [r \in Getters |-> None]
    /\ taken = [a \in Actions |-> 0]

-----------------------------------------------------------------------------
(* set: SET key action EX ttl replaces what is there; under a RedisError   *)
(* it may have done nothing.                                               *)
SetAction(a) ==
    /\ a \notin written
    /\ written' = written \cup {a}
    /\ key' \in {a, key}
    /\ UNCHANGED <<cleanup, taken>>

(* get of a payload that does not validate; FOUND, MISSING and a           *)
(* RedisError change nothing.                                              *)
GetUnreadable(r) ==
    /\ cleanup[r] = None
    /\ key # None
    /\ ~Readable(key)
    /\ cleanup' = [cleanup EXCEPT ![r] = key]
    /\ UNCHANGED <<key, written, taken>>

(* A defective Consume: GET in place of GETDEL.                            *)
ConsumeKeepsKey ==
    /\ key # None
    /\ Readable(key)
    /\ taken[key] < 2
    /\ taken' = [taken EXCEPT ![key] = @ + 1]
    /\ UNCHANGED <<key, written, cleanup>>

(* consume, by any of its callers: GETDEL, then FOUND for a payload that   *)
(* validates; an unreadable one is gone already and is not cleared again.  *)
Consume ==
    /\ key # None
    /\ key' = None
    /\ taken' = IF Readable(key) THEN [taken EXCEPT ![key] = @ + 1] ELSE taken
    /\ UNCHANGED <<written, cleanup>>

(* The answer of a GETDEL that was executed is lost: UNAVAILABLE, and the  *)
(* question is gone although no caller has seen it.                        *)
ConsumeUnavailable ==
    /\ key # None
    /\ key' = None
    /\ UNCHANGED <<written, cleanup, taken>>

(* The clear in _parse: DEL of whatever is there by now, a newer action    *)
(* too, executed or not.                                                   *)
ClearUnreadable(r) ==
    /\ cleanup[r] # None
    /\ key' \in {None, key}
    /\ cleanup' = [cleanup EXCEPT ![r] = None]
    /\ UNCHANGED <<written, taken>>

(* clear by the owner of the conversation, and the end of the TTL.         *)
KeyGoes ==
    /\ key # None
    /\ key' = None
    /\ UNCHANGED <<written, cleanup, taken>>

PendingNext ==
    \/ \E a \in Actions : SetAction(a)
    \/ \E r \in Getters : GetUnreadable(r) \/ ClearUnreadable(r)
    \/ Consume
    \/ ConsumeUnavailable
    \/ KeyGoes
    \/ written = Actions /\ key = None /\ UNCHANGED pendingVars

PendingSpec == PendingInit /\ [][PendingNext]_pendingVars

-----------------------------------------------------------------------------
(* D-020, single-consumer: however many callers race for the answer of a   *)
(* customer, one of them gets to act on the question.                      *)
ConsumedOnce == \A a \in Actions : taken[a] <= 1

=============================================================================
