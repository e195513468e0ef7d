------------------------ MODULE MCDeliveryCallbacks -------------------------
(***************************************************************************)
(* Instances of DeliveryCallbacks for TLC: single callbacks of every       *)
(* status, and a webhook that reports on two messages.                     *)
(***************************************************************************)
EXTENDS DeliveryCallbacks, TLC

CONSTANTS m1, m2, h1, h2

Hook(m, s) == <<[msg |-> m, status |-> s]>>

MCOneMessage == {Hook(m1, s) : s \in CallbackStatus}

MCBatch == {Hook(m1, "read"), Hook(m1, "failed"),
            Hook(m2, "delivered") \o Hook(m1, "delivered")}

=============================================================================
