----------------------------- MODULE ReplyOnce ------------------------------
(***************************************************************************)
(* What Piki promises about one inbound WhatsApp message, without workers, *)
(* claims, leases, attempts or crashes: the message is received, at most   *)
(* one reply to it goes to Meta, and it is settled once.  It is settled as *)
(* completed only after its reply went out.  A reply may still go out      *)
(* after the message was given up: the worker that posts it can have been  *)
(* overtaken by another one.                                               *)
(***************************************************************************)
EXTENDS Sequences

CONSTANTS Messages, Texts

VARIABLES phase,    \* "absent", "open", "completed" or "failed"
          sent      \* the replies to each message that went to Meta

promiseVars == <<phase, sent>>

Init ==
    /\ phase = [m \in Messages |-> "absent"]
    /\ sent = [m \in Messages |-> <<>>]

Move(m, source, target) ==
    /\ phase[m] = source
    /\ phase' = [phase EXCEPT ![m] = target]
    /\ UNCHANGED sent

Receive(m) == Move(m, "absent", "open")

Send(m, t) ==
    /\ phase[m] \in {"open", "failed"}
    /\ sent[m] = <<>>
    /\ sent' = [sent EXCEPT ![m] = <<t>>]
    /\ UNCHANGED phase

Complete(m) == sent[m] # <<>> /\ Move(m, "open", "completed")

GiveUp(m) == Move(m, "open", "failed")

Next ==
    \E m \in Messages :
        \/ Receive(m)
        \/ \E t \in Texts : Send(m, t)
        \/ Complete(m)
        \/ GiveUp(m)

Spec == Init /\ [][Next]_promiseVars

=============================================================================
