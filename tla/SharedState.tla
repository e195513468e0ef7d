---------------------------- MODULE SharedState -----------------------------
(***************************************************************************)
(* The components that callers share through Redis and PostgreSQL: web     *)
(* chat, handoffs, pending actions and the active pick.  Each is modelled  *)
(* with rows and keys of its own, so they are put side by side: a          *)
(* behaviour chooses a component at the start and is a behaviour of that   *)
(* component.                                                              *)
(***************************************************************************)
EXTENDS WebChat, Handoff, PendingAction, ActivePick

VARIABLE part           \* the component of the behaviour

vars == <<part, chatVars, handoffVars, pendingVars, pickVars>>

Init ==
    /\ part \in {"web", "handoff", "pending", "pick"}
    /\ ChatInit
    /\ HandoffInit
    /\ PendingInit
    /\ ActivePickInit

WebStep ==
    /\ part = "web"
    /\ ChatNext
    /\ UNCHANGED <<part, handoffVars, pendingVars, pickVars>>

HandoffStep ==
    /\ part = "handoff"
    /\ HandoffNext
    /\ UNCHANGED <<part, chatVars, pendingVars, pickVars>>

PendingStep ==
    /\ part = "pending"
    /\ PendingNext
    /\ UNCHANGED <<part, chatVars, handoffVars, pickVars>>

ActivePickStep ==
    /\ part = "pick"
    /\ ActivePickNext
    /\ UNCHANGED <<part, chatVars, handoffVars, pendingVars>>

Next ==
    \/ WebStep
    \/ HandoffStep
    \/ PendingStep
    \/ ActivePickStep

Spec == Init /\ [][Next]_vars

-----------------------------------------------------------------------------
(* The type of every variable of every component.                          *)
TypeOK ==
    /\ ChatTypeOK
    /\ HandoffTypeOK
    /\ PendingTypeOK
    /\ ActivePickTypeOK

=============================================================================
