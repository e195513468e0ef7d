------------------------- MODULE PipelineRefinement -------------------------
(***************************************************************************)
(* MessagePipeline implements ReplyOnce.  The mapping forgets which worker *)
(* holds a message and how often it was tried: pending and processing are  *)
(* both "open", and the replies sent are the requests that reached Meta.   *)
(***************************************************************************)
EXTENDS MessagePipeline

phaseOf ==
    [m \in Messages |->
        IF status[m] \in {"pending", "processing"} THEN "open" ELSE status[m]]

Promise == INSTANCE ReplyOnce WITH phase <- phaseOf

(* Every behaviour of the webhook, the workers, the lock and the delivery  *)
(* store, with takeovers, retries, crashes and late workers, is a          *)
(* behaviour of ReplyOnce: a retry or a redelivery is never a second       *)
(* reply, a message is not reopened, none is completed before its reply    *)
(* went out, and nothing is sent for a message that is already completed.  *)
ImplementsReplyOnce == Promise!Spec

=============================================================================
