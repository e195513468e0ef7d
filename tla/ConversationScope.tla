-------------------------- MODULE ConversationScope -------------------------
(***************************************************************************)
(* The conversations messages belong to.  A conversation is the scope of a *)
(* lock, of a history and of a handoff; a message belongs to the           *)
(* conversation of the request that inserted its id.                       *)
(***************************************************************************)
EXTENDS Inbound

CONSTANTS Conversations,
          ConversationOf    \* the conversation of each message

=============================================================================
