----------------------------- MODULE ActivePick -----------------------------
(***************************************************************************)
(* The active pick of a conversation (state/active_pick.py) and the photo  *)
(* use case on top of it (use_cases/pick_image.py).  One Redis key per     *)
(* conversation holds the identity of the pick under discussion, with a    *)
(* TTL; availability and images are asked of BuenPick every time.          *)
(*                                                                         *)
(* A call is one of                                                        *)
(*   select   resolve with an explicit pick id, remembered when confirmed, *)
(*   photo    prepare: resolve from the key, then get_pick_image.          *)
(* One action is one Redis command or one answer of BuenPick.  Nothing in  *)
(* these modules serialises the calls of a conversation, and BuenPick's    *)
(* catalogue changes at any time.                                          *)
(***************************************************************************)
EXTENDS Absent

CONSTANTS Scopes,       \* conversations, each with a key of its own
          Calls,        \* concurrent calls
          Picks,        \* pick ids
          WithImage,    \* the picks BuenPick has an image of
          Corruptible   \* scopes where an unreadable payload may turn up

ASSUME ActivePickAssumption ==
    /\ WithImage \subseteq Picks
    /\ Corruptible \subseteq Scopes
    /\ None \notin Picks \cup {"corrupt", "photo"}
    /\ "corrupt" \notin Picks

VARIABLES reference,    \* the payload of each key: a pick, "corrupt", None
          available,    \* the picks BuenPick serves
          step,         \* the control point of each call
          scope,        \* its conversation
          pick,         \* pick_id
          result,       \* what the call returned
          held,         \* history: what the key of the call's scope has held
          seen          \* history: the picks BuenPick confirmed to the call

callVars == <<step, scope, pick, result>>
pickVars == <<reference, available, callVars, held, seen>>

(* What a call returns: CONFIRMED for a selection, a prepared image for a  *)
(* photo, or the error code of _resolution_failure or of the image tool.   *)
Outcome == {"confirmed", "photo", "bad_request", "not_found",
            "upstream_unavailable"}

(* The type of every variable.                                             *)
ActivePickTypeOK ==
    /\ reference \in [Scopes -> Picks \cup {"corrupt", None}]
    /\ available \subseteq Picks
    /\ step \in [Calls -> {"idle", "get", "discard", "inherited", "explicit",
                         "clear", "remember", "image"}]
    /\ scope \in [Calls -> Scopes \cup {None}]
    /\ pick \in [Calls -> Picks \cup {None}]
    /\ result \in [Calls -> Outcome \cup {None}]
    /\ held \in [Calls -> SUBSET Picks]
    /\ seen \in [Calls -> SUBSET Picks]

ActivePickInit ==
    /\ reference = [c \in Scopes |-> None]
    /\ available = Picks
    /\ step = [r \in Calls |-> "idle"]
    /\ scope = [r \in Calls |-> None]
    /\ pick = [r \in Calls |-> None]
    /\ result = [r \in Calls |-> None]
    /\ held = [r \in Calls |-> {}]
    /\ seen = [r \in Calls |-> {}]

MoveTo(r, p) == step' = [step EXCEPT ![r] = p]

Return(r, outcome) ==
    /\ MoveTo(r, "idle")
    /\ result' = [result EXCEPT ![r] = outcome]

(* A write to the key of c, noted by the calls of that conversation.       *)
Write(c, value) ==
    /\ reference' = [reference EXCEPT ![c] = value]
    /\ held' = [r \in Calls |-> IF scope[r] = c THEN held[r] \cup ({value} \cap Picks)
                                                ELSE held[r]]

-----------------------------------------------------------------------------
(* A caller names a pick: resolve(scope, explicit_pick_id).  A blank id is *)
(* MISSING at once, touches nothing and is no step of the model.           *)
SelectPick(r, c, p) ==
    /\ step[r] = "idle"
    /\ MoveTo(r, "explicit")
    /\ scope' = [scope EXCEPT ![r] = c]
    /\ pick' = [pick EXCEPT ![r] = p]
    /\ result' = [result EXCEPT ![r] = None]
    /\ held' = [held EXCEPT ![r] = {reference[c]} \cap Picks]
    /\ seen' = [seen EXCEPT ![r] = {}]
    /\ UNCHANGED <<reference, available>>

(* A caller asks for the photo of the active pick: prepare(scope).         *)
AskPhoto(r, c) ==
    /\ step[r] = "idle"
    /\ MoveTo(r, "get")
    /\ scope' = [scope EXCEPT ![r] = c]
    /\ pick' = [pick EXCEPT ![r] = None]
    /\ result' = [result EXCEPT ![r] = None]
    /\ held' = [held EXCEPT ![r] = {reference[c]} \cap Picks]
    /\ seen' = [seen EXCEPT ![r] = {}]
    /\ UNCHANGED <<reference, available>>

(* A defective GetReference: the key does not depend on the conversation.  *)
GetReferenceUnscoped(r) ==
    /\ step[r] = "get"
    /\ \E c \in Scopes : /\ reference[c] \in Picks
                         /\ pick' = [pick EXCEPT ![r] = reference[c]]
    /\ MoveTo(r, "inherited")
    /\ UNCHANGED <<reference, available, scope, result, held, seen>>

(* RedisActivePickStore.get: FOUND, MISSING, or a payload that does not    *)
(* validate and has to be cleared.                                         *)
GetReference(r) ==
    LET payload == reference[scope[r]] IN
    /\ step[r] = "get"
    /\ \/ /\ payload \in Picks
          /\ pick' = [pick EXCEPT ![r] = payload]
          /\ MoveTo(r, "inherited")
          /\ UNCHANGED result
       \/ payload = None /\ Return(r, "bad_request") /\ UNCHANGED pick
       \/ payload = "corrupt" /\ MoveTo(r, "discard") /\ UNCHANGED <<pick, result>>
    /\ UNCHANGED <<reference, available, scope, held, seen>>

(* The clear of get for a corrupt payload: the read is UNAVAILABLE whether *)
(* the DEL is executed or not.                                             *)
DiscardCorrupt(r) ==
    /\ step[r] = "discard"
    /\ Write(scope[r], None) \/ UNCHANGED <<reference, held>>
    /\ Return(r, "upstream_unavailable")
    /\ UNCHANGED <<available, scope, pick, seen>>

(* A RedisError in get.                                                    *)
GetUnavailable(r) ==
    /\ step[r] = "get"
    /\ Return(r, "upstream_unavailable")
    /\ UNCHANGED <<reference, available, scope, pick, held, seen>>

(* get_available_pick answers with the pick.                               *)
ConfirmPick(r) ==
    /\ step[r] \in {"inherited", "explicit"}
    /\ pick[r] \in available
    /\ seen' = [seen EXCEPT ![r] = @ \cup {pick[r]}]
    /\ MoveTo(r, IF step[r] = "explicit" THEN "remember" ELSE "image")
    /\ UNCHANGED <<reference, available, scope, pick, result, held>>

(* get_available_pick answers NOT_FOUND: an inherited reference is         *)
(* cleared, an explicit one leaves the key alone.                          *)
PickNotFound(r) ==
    /\ step[r] \in {"inherited", "explicit"}
    /\ pick[r] \notin available
    /\ IF step[r] = "inherited" THEN MoveTo(r, "clear") /\ UNCHANGED result
                              ELSE Return(r, "not_found")
    /\ UNCHANGED <<reference, available, scope, pick, held, seen>>

(* Any other BuenPickClientError.                                          *)
PickUnavailable(r) ==
    /\ step[r] \in {"inherited", "explicit"}
    /\ Return(r, "upstream_unavailable")
    /\ UNCHANGED <<reference, available, scope, pick, held, seen>>

(* The clear of resolve: DEL of the key, whatever it holds by now, which   *)
(* may be a newer pick; STALE with and without a RedisError.               *)
ClearStale(r) ==
    /\ step[r] = "clear"
    /\ Write(scope[r], None) \/ UNCHANGED <<reference, held>>
    /\ Return(r, "not_found")
    /\ UNCHANGED <<available, scope, pick, seen>>

(* remember: SET with a fresh TTL; a failed write only makes the           *)
(* resolution report context_persisted = False.                            *)
Remember(r) ==
    /\ step[r] = "remember"
    /\ Write(scope[r], pick[r]) \/ UNCHANGED <<reference, held>>
    /\ Return(r, "confirmed")
    /\ UNCHANGED <<available, scope, pick, seen>>

(* get_pick_image: the pick is fetched once more.                          *)
GetPickImage(r) ==
    /\ step[r] = "image"
    /\ IF pick[r] \in available \cap WithImage
       THEN Return(r, "photo")
       ELSE Return(r, "not_found")
    /\ UNCHANGED <<reference, available, scope, pick, held, seen>>

ImageUnavailable(r) ==
    /\ step[r] = "image"
    /\ Return(r, "upstream_unavailable")
    /\ UNCHANGED <<reference, available, scope, pick, held, seen>>

-----------------------------------------------------------------------------
(* The world around: the TTL runs out, another version of the program left *)
(* a payload this one cannot read, and BuenPick withdraws or restocks.     *)
ReferenceExpires(c) ==
    /\ reference[c] # None
    /\ Write(c, None)
    /\ UNCHANGED <<available, callVars, seen>>

PayloadCorrupted(c) ==
    /\ c \in Corruptible
    /\ reference[c] = None
    /\ Write(c, "corrupt")
    /\ UNCHANGED <<available, callVars, seen>>

CatalogueChanges(p) ==
    /\ available' = IF p \in available THEN available \ {p} ELSE available \cup {p}
    /\ UNCHANGED <<reference, callVars, held, seen>>

CallStep(r) ==
    \/ GetReference(r)
    \/ DiscardCorrupt(r)
    \/ GetUnavailable(r)
    \/ ConfirmPick(r)
    \/ PickNotFound(r)
    \/ PickUnavailable(r)
    \/ ClearStale(r)
    \/ Remember(r)
    \/ GetPickImage(r)
    \/ ImageUnavailable(r)

ActivePickNext ==
    \/ \E r \in Calls : \/ CallStep(r)
                        \/ \E c \in Scopes : \/ AskPhoto(r, c)
                                             \/ \E p \in Picks : SelectPick(r, c, p)
    \/ \E c \in Scopes : ReferenceExpires(c) \/ PayloadCorrupted(c)
    \/ \E p \in Picks : CatalogueChanges(p)

ActivePickSpec == ActivePickInit /\ [][ActivePickNext]_pickVars

-----------------------------------------------------------------------------
(* GOLDEN_BEHAVIORS G-004, G-005 and G-007 in one: the photo a call        *)
(* prepares is of a pick that was the active pick of this conversation     *)
(* during the call, and that BuenPick confirmed to this very call.         *)
PhotoIsOfTheActivePick ==
    \A r \in Calls : result[r] = "photo" => pick[r] \in held[r] \cap seen[r]

=============================================================================
