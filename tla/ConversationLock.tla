-------------------------- MODULE ConversationLock --------------------------
(***************************************************************************)
(* RedisConversationLock of state/coordination.py: one key per             *)
(* conversation scope, set with SET NX EX and deleted by a Lua             *)
(* compare-and-delete on the owner token.                                  *)
(*                                                                         *)
(* The random token of an acquisition is represented by its holder.  That  *)
(* loses nothing: a holder makes one acquisition at a time, and SET NX     *)
(* refuses a second one while the key of its first still exists, so a key  *)
(* never carries one token of a holder while the holder uses another.      *)
(***************************************************************************)
EXTENDS ConversationScope

CONSTANT Workers

VARIABLE lease          \* the value of each lock key, None when it is absent

LockTypeOK == lease \in [Conversations -> Workers \cup {None}]

LockInit == lease = [c \in Conversations |-> None]

-----------------------------------------------------------------------------
(* SET key token NX EX ttl answered OK.                                    *)
Acquire(c, w) == /\ lease[c] = None
                 /\ lease' = [lease EXCEPT ![c] = w]

(* Any other answer: the key exists (BUSY), or a RedisError (UNAVAILABLE), *)
(* which may hide a SET that was executed.  The callers treat both alike.  *)
AcquireRefused(c, w) == lease' = lease \/ Acquire(c, w)

(* A defective Release for the mutant checks: DEL without the comparison.  *)
ReleaseUnconditionally(c, w) == lease' = [lease EXCEPT ![c] = None]

(* RELEASE_LOCK_SCRIPT: RELEASED when the key still holds the caller's     *)
(* token, NOT_OWNER otherwise.                                             *)
Release(c, w) ==
    lease' = [lease EXCEPT ![c] = IF @ = w THEN None ELSE @]

(* A RedisError in release leaves the key to its TTL.                      *)
ReleaseUnavailable(c) == lease' = lease

(* The TTL runs out, whatever the holder is doing.                         *)
Expire(c) == /\ lease[c] # None
             /\ lease' = [lease EXCEPT ![c] = None]

=============================================================================
