---------------------------- MODULE MetaDelivery ----------------------------
(***************************************************************************)
(* One message to a customer: DeliveryRequest.validate_content, the        *)
(* customer-service window as the worker computes it, and                  *)
(* MetaDeliveryAdapter.send with the body it builds and the truth it tells *)
(* about the outcome.                                                      *)
(*                                                                         *)
(* The customer writes at time 0; Meta's webhook is recorded at some later *)
(* time, when a redelivery was needed much later.  claim_next hands the    *)
(* worker created_at of the row as received_at.                            *)
(***************************************************************************)
EXTENDS Absent, Naturals

CONSTANTS Window,       \* 24 hours
          MaxTime,      \* bound on the clock
          CaptionLimit, \* 1024
          TextSizes     \* lengths of texts, 0 is no text

ASSUME DeliveryAssumption ==
    /\ {Window, MaxTime, CaptionLimit} \subseteq Nat
    /\ TextSizes \subseteq Nat

VARIABLES now,          \* the clock
          recorded,     \* created_at of the customer's message
          sending,      \* where the delivery is
          request,      \* the DeliveryRequest
          posted,       \* when and with which body the request was made
          received,     \* whether Meta took the message
          result        \* status of the DeliveryResult

sendVars == <<now, recorded, sending, request, posted, received, result>>

DeliveryKind == {"text", "image", "interactive", "template"}

CustomerServiceWindow == {"open", "closed", "unknown"}

(* The fields validate_content looks at; options counts the reply buttons. *)
Request == [kind : DeliveryKind, text : TextSizes, media : BOOLEAN,
            options : 0..3, template : BOOLEAN, window : CustomerServiceWindow]

Body == {"text", "image", "buttons", "template"}

(* The type of every variable.                                             *)
SendTypeOK ==
    /\ now \in 0..MaxTime
    /\ recorded \in 0..MaxTime \cup {None}
    /\ sending \in {"webhook", "request", "send", "post", "done"}
    /\ request \in Request \cup {None}
    /\ posted \in [at : 0..MaxTime, has : SUBSET Body] \cup {None}
    /\ received \in BOOLEAN
    /\ result \in {"accepted", "failed", "unknown", "invalid", None}

SendInit ==
    /\ now = 0
    /\ recorded = None
    /\ sending = "webhook"
    /\ request = None
    /\ posted = None
    /\ received = FALSE
    /\ result = None

Tick ==
    /\ now < MaxTime
    /\ now' = now + 1
    /\ UNCHANGED <<recorded, sending, request, posted, received, result>>

(* record_inbound commits the customer's message.                          *)
MessageRecorded ==
    /\ sending = "webhook"
    /\ recorded' = now
    /\ sending' = "request"
    /\ UNCHANGED <<now, request, posted, received, result>>

-----------------------------------------------------------------------------
(* A defective ValidContent: an interactive message needs no buttons.      *)
ValidContentNoButtons(q) ==
    /\ q.kind \in {"text", "interactive"} => q.text > 0
    /\ q.kind = "image" => q.media
    /\ q.kind = "template" => q.template
    /\ q.kind # "interactive" => q.options = 0
    /\ q.kind # "template" => ~q.template

(* DeliveryRequest.validate_content.                                       *)
ValidContent(q) ==
    /\ q.kind \in {"text", "interactive"} => q.text > 0
    /\ q.kind = "image" => q.media
    /\ q.kind = "interactive" => q.options > 0
    /\ q.kind = "template" => q.template
    /\ q.kind # "interactive" => q.options = 0
    /\ q.kind # "template" => ~q.template

(* The window the worker puts on its reply: never closed.                  *)
ReplyWindow == IF now - recorded <= Window THEN "open" ELSE "unknown"

(* The reply of process_once, a text that is not empty.                    *)
RequestReply(n) ==
    /\ sending = "request"
    /\ n > 0
    /\ request' = [kind |-> "text", text |-> n, media |-> FALSE, options |-> 0,
                   template |-> FALSE, window |-> ReplyWindow]
    /\ sending' = "send"
    /\ UNCHANGED <<now, recorded, posted, received, result>>

(* Any other caller says what it knows of the window; a request that does  *)
(* not validate is a ValueError.                                           *)
RequestOther(q) ==
    /\ sending = "request"
    /\ q.window = "open" => now - recorded <= Window
    /\ IF ValidContent(q)
       THEN request' = q /\ sending' = "send" /\ UNCHANGED result
       ELSE result' = "invalid" /\ sending' = "done" /\ UNCHANGED request
    /\ UNCHANGED <<now, recorded, posted, received>>

-----------------------------------------------------------------------------
FreeForm == request.kind # "template"

Finish(status) ==
    /\ result' = status
    /\ sending' = "done"

(* send before the POST: _window_failure, or the caption _build_body       *)
(* refuses.                                                                *)
RefuseLocally ==
    /\ sending = "send"
    /\ \/ FreeForm /\ request.window # "open"
       \/ request.kind = "image" /\ request.text > CaptionLimit
    /\ Finish("failed")
    /\ UNCHANGED <<now, recorded, request, posted, received>>

(* _build_body: the parts of the payload that are present.                 *)
BodyParts(q) ==
    (IF q.text > 0 /\ q.kind # "template" THEN {"text"} ELSE {})
    \cup (IF q.kind = "image" THEN {"image"} ELSE {})
    \cup (IF q.kind = "interactive" /\ q.options > 0 THEN {"buttons"} ELSE {})
    \cup (IF q.kind = "template" THEN {"template"} ELSE {})

Post ==
    /\ sending = "send"
    /\ FreeForm => request.window = "open"
    /\ ~(request.kind = "image" /\ request.text > CaptionLimit)
    /\ posted' = [at |-> now, has |-> BodyParts(request)]
    /\ sending' = "post"
    /\ UNCHANGED <<now, recorded, request, received, result>>

(* Meta takes the message and says so with an id, or with a body that has  *)
(* no usable id.                                                           *)
MetaAccepts ==
    /\ sending = "post"
    /\ received' = TRUE
    /\ Finish("accepted") \/ Finish("unknown")
    /\ UNCHANGED <<now, recorded, request, posted>>

(* An error status is an explicit rejection: _rejected_result.             *)
MetaRejects ==
    /\ sending = "post"
    /\ Finish("failed")
    /\ UNCHANGED <<now, recorded, request, posted, received>>

(* A defective NoAnswer: a timeout is a failure.                           *)
NoAnswerFails ==
    /\ sending = "post"
    /\ received' \in BOOLEAN
    /\ Finish("failed")
    /\ UNCHANGED <<now, recorded, request, posted>>

(* A timeout or a broken connection, before or after Meta took it.         *)
NoAnswer ==
    /\ sending = "post"
    /\ received' \in BOOLEAN
    /\ Finish("unknown")
    /\ UNCHANGED <<now, recorded, request, posted>>

SendFinished == sending = "done" /\ UNCHANGED sendVars

SendNext ==
    \/ Tick
    \/ MessageRecorded
    \/ \E n \in TextSizes : RequestReply(n)
    \/ \E q \in Request : RequestOther(q)
    \/ RefuseLocally
    \/ Post
    \/ MetaAccepts
    \/ MetaRejects
    \/ NoAnswer
    \/ SendFinished

SendSpec == SendInit /\ [][SendNext]_sendVars

-----------------------------------------------------------------------------
(* D-027: what send returns is true of Meta.  A failed message is not on   *)
(* its way, an accepted one is, and whatever may have been taken without a *)
(* confirmation is unknown.                                                *)
ResultIsTrue ==
    sending = "done" =>
        /\ result = "accepted" => received
        /\ result \in {"failed", "invalid"} => ~received

(* What validate_content lets through is complete on the wire: a payload   *)
(* always has the parts Meta requires of its type.                         *)
PostedBodyIsComplete ==
    posted # None =>
        /\ request.kind \in {"text", "interactive"} => "text" \in posted.has
        /\ request.kind = "image" => "image" \in posted.has
        /\ request.kind = "interactive" => "buttons" \in posted.has
        /\ request.kind = "template" <=> "template" \in posted.has

(* D-031: "closed-window traffic cannot accidentally masquerade as         *)
(* ordinary conversation".  Nothing free-form is posted later than the     *)
(* window after the customer wrote.                                        *)
FreeFormInsideWindow ==
    posted # None /\ FreeForm => posted.at <= Window

=============================================================================
