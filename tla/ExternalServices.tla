-------------------------- MODULE ExternalServices --------------------------
(***************************************************************************)
(* The components that talk to a service and have to tell the truth about  *)
(* its answers: the composition of a reply from BuenPick's and the LLM's,  *)
(* the lookup of an order, and the delivery of a message through Meta.     *)
(* They run one after the other in a request and share no variable, so     *)
(* they are put side by side: a behaviour chooses a component at the start *)
(* and is a behaviour of that component.                                   *)
(***************************************************************************)
EXTENDS Composition, OrderLookup, MetaDelivery

VARIABLE part           \* the component of the behaviour

vars == <<part, composeVars, lookupVars, sendVars>>

(* What the other components were asked is fixed: it never matters.        *)
Init ==
    /\ part \in {"compose", "order", "send"}
    /\ ComposeInit
    /\ part # "compose" => query = {}
    /\ LookupInit
    /\ part # "order" => asked = [order |-> "foreign", phone |-> "none",
                                  reference |-> "none"]
    /\ SendInit

ComposeStep ==
    /\ part = "compose"
    /\ ComposeNext
    /\ UNCHANGED <<part, lookupVars, sendVars>>

LookupStep ==
    /\ part = "order"
    /\ LookupNext
    /\ UNCHANGED <<part, composeVars, sendVars>>

SendStep ==
    /\ part = "send"
    /\ SendNext
    /\ UNCHANGED <<part, composeVars, lookupVars>>

Next ==
    \/ ComposeStep
    \/ LookupStep
    \/ SendStep

Spec == Init /\ [][Next]_vars

-----------------------------------------------------------------------------
(* The type of every variable of every component.                          *)
TypeOK ==
    /\ ComposeTypeOK
    /\ LookupTypeOK
    /\ SendTypeOK

(* GOLDEN_BEHAVIORS G-012: the loops of search, LLM and order lookup stay  *)
(* within their budgets, and what they ask again about is a transient      *)
(* answer, never a verdict.                                                *)
RetriesAreBounded == ComposeIsBounded /\ LookupIsBounded

=============================================================================
