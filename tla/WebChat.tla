------------------------------ MODULE WebChat -------------------------------
(***************************************************************************)
(* The web chat path: POST /api/chat/messages handled by                   *)
(* ConversationOrchestrator.respond.  Unlike a WhatsApp message, a web     *)
(* message is answered inside its own request: there is no outbox row, no  *)
(* worker and no retry, and what a client gets when it repeats a message   *)
(* id depends on what the first request left behind.                       *)
(*                                                                         *)
(* Requests are handled concurrently by the tasks of one API process.  A   *)
(* handler's step is a transaction, a Redis command or the composition.    *)
(* A client chooses the message id and the conversation of what it posts   *)
(* independently: an id may be repeated at any time, with another text or  *)
(* in another conversation, while external_message_id is unique over all   *)
(* of them.                                                                *)
(***************************************************************************)
EXTENDS ConversationLock, Naturals

CONSTANTS Posts,            \* what clients post: id, conversation, text
          IdOf,             \* message_id of a post
          ScopeOf,          \* conversation_id of a post
          HandoffPosts,     \* those whose intent resolves to HUMAN_HANDOFF
          Texts,            \* the replies composition can produce
          MaxStops          \* bound on stops of the API process

ASSUME WebChatAssumption ==
    /\ IdOf \in [Posts -> Messages]
    /\ ScopeOf \in [Posts -> Conversations]
    /\ HandoffPosts \subseteq Posts
    /\ None \notin Texts \cup Workers \cup Posts
    /\ MaxStops \in Nat

VARIABLES pc,           \* the control point of each request handler
          post,         \* the post it handles
          text,         \* reply_text
          row,          \* the post that inserted the row of each message id
          reply,        \* content_text of the row "piki-reply:<message id>"
          conversation, \* the status column of each conversation
          answers,      \* history: the 200 responses, <<post, text>>
          overrun,      \* history: handlers whose lease ran out on them
          stops         \* how often the process has stopped

handlerVars == <<pc, post, text>>
rowVars == <<row, reply, conversation>>
chatVars == <<lease, handlerVars, rowVars, answers, overrun, stops>>

(* The type of every variable.                                             *)
ChatTypeOK ==
    /\ LockTypeOK
    /\ pc \in [Workers -> {"idle", "acquire", "receive", "handoff", "compose",
                           "record", "release", "unwind"}]
    /\ post \in [Workers -> Posts \cup {None}]
    /\ text \in [Workers -> Texts \cup {None}]
    /\ row \in [Messages -> Posts \cup {None}]
    /\ reply \in [Messages -> Texts \cup {None}]
    /\ conversation \in [Conversations -> {"piki_active", "needs_human"}]
    /\ answers \subseteq Posts \X Texts
    /\ overrun \subseteq Workers
    /\ stops \in 0..MaxStops

ChatInit ==
    /\ LockInit
    /\ pc = [h \in Workers |-> "idle"]
    /\ post = [h \in Workers |-> None]
    /\ text = [h \in Workers |-> None]
    /\ row = [m \in Messages |-> None]
    /\ reply = [m \in Messages |-> None]
    /\ conversation = [c \in Conversations |-> "piki_active"]
    /\ answers = {}
    /\ overrun = {}
    /\ stops = 0

Goto(h, p) == pc' = [pc EXCEPT ![h] = p]

EndRequest(h) ==
    /\ Goto(h, "idle")
    /\ post' = [post EXCEPT ![h] = None]
    /\ text' = [text EXCEPT ![h] = None]
    /\ overrun' = overrun \ {h}

Conv(h) == ScopeOf[post[h]]
Id(h) == IdOf[post[h]]

(* A handler between the commit of the inbound row and that of its reply.  *)
InTurn(h) == pc[h] \in {"handoff", "compose", "record"}
Working(m) == \E h \in Workers : InTurn(h) /\ Id(h) = m

-----------------------------------------------------------------------------
(* send_message: a client posts w, for the first time or again.            *)
SendMessage(h, w) ==
    /\ pc[h] = "idle"
    /\ Goto(h, "acquire")
    /\ post' = [post EXCEPT ![h] = w]
    /\ UNCHANGED <<lease, text, rowVars, answers, overrun, stops>>

AcquireLease(h) ==
    /\ pc[h] = "acquire"
    /\ Acquire(Conv(h), h)
    /\ Goto(h, "receive")
    /\ UNCHANGED <<post, text, rowVars, answers, overrun, stops>>

(* ConversationBusyError: the client gets 409.                             *)
ConversationBusy(h) ==
    /\ pc[h] = "acquire"
    /\ AcquireRefused(Conv(h), h)
    /\ EndRequest(h)
    /\ UNCHANGED <<rowVars, answers, stops>>

(* A defective ComposeEntry: a handoff is confirmed like any other text.   *)
ComposeEntryNoHandoff(w) == "compose"

ComposeEntry(w) == IF w \in HandoffPosts THEN "handoff" ELSE "compose"

(* A defective ReceiveMessage: a duplicate without a reply is composed     *)
(* again.                                                                  *)
ReceiveMessageAgain(h) ==
    /\ pc[h] = "receive"
    /\ row' = [row EXCEPT ![Id(h)] = post[h]]
    /\ IF reply[Id(h)] # None
       THEN Goto(h, "release") /\ text' = [text EXCEPT ![h] = reply[Id(h)]]
       ELSE Goto(h, ComposeEntry(post[h])) /\ UNCHANGED text
    /\ UNCHANGED <<lease, post, reply, conversation, answers, overrun, stops>>

(* A defective ReceiveMessage: the row of the reply is taken for granted.  *)
ReceiveMessageUnchecked(h) ==
    /\ pc[h] = "receive"
    /\ IF row[Id(h)] # None
       THEN Goto(h, "release") /\ text' = [text EXCEPT ![h] = reply[Id(h)]]
       ELSE Goto(h, ComposeEntry(post[h])) /\ UNCHANGED text
    /\ row' = [row EXCEPT ![Id(h)] = post[h]]
    /\ UNCHANGED <<lease, post, reply, conversation, answers, overrun, stops>>

(* The first transaction of _respond_locked: a new message is inserted and *)
(* composed; a duplicate gets the stored reply or, without one,            *)
(* ConversationBusyError.                                                  *)
ReceiveMessage(h) ==
    /\ pc[h] = "receive"
    /\ \/ /\ row[Id(h)] = None
          /\ row' = [row EXCEPT ![Id(h)] = post[h]]
          /\ Goto(h, ComposeEntry(post[h]))
          /\ UNCHANGED text
       \/ /\ row[Id(h)] # None
          /\ reply[Id(h)] # None
          /\ text' = [text EXCEPT ![h] = reply[Id(h)]]
          /\ Goto(h, "release")
          /\ UNCHANGED row
       \/ /\ row[Id(h)] # None
          /\ reply[Id(h)] = None
          /\ Goto(h, "unwind")
          /\ UNCHANGED <<row, text>>
    /\ UNCHANGED <<lease, post, reply, conversation, answers, overrun, stops>>

(* _compose_reply for HUMAN_HANDOFF commits the handoff on its own.        *)
RequestHandoff(h) ==
    /\ pc[h] = "handoff"
    /\ conversation' = [conversation EXCEPT ![Conv(h)] = "needs_human"]
    /\ Goto(h, "compose")
    /\ UNCHANGED <<lease, post, text, row, reply, answers, overrun, stops>>

ComposeReply(h) ==
    /\ pc[h] = "compose"
    /\ \E t \in Texts : text' = [text EXCEPT ![h] = t]
    /\ Goto(h, "record")
    /\ UNCHANGED <<lease, post, rowVars, answers, overrun, stops>>

RecordOutbound(h) ==
    /\ pc[h] = "record"
    /\ reply' = [reply EXCEPT ![Id(h)] = IF @ = None THEN text[h] ELSE @]
    /\ Goto(h, "release")
    /\ UNCHANGED <<lease, post, text, row, conversation, answers, overrun,
                   stops>>

(* A defective ReleaseLease: the key is deleted whoever owns it.           *)
ReleaseLeaseBlindly(h) ==
    /\ pc[h] \in {"release", "unwind"}
    /\ lease' = [lease EXCEPT ![Conv(h)] = None]
    /\ answers' = IF pc[h] = "release" THEN answers \cup {<<post[h], text[h]>>}
                                       ELSE answers
    /\ EndRequest(h)
    /\ UNCHANGED <<rowVars, stops>>

(* The finally block of respond, and the response: 200 with the reply, or  *)
(* 409 or 500.                                                             *)
ReleaseLease(h) ==
    /\ pc[h] \in {"release", "unwind"}
    /\ Release(Conv(h), h) \/ ReleaseUnavailable(Conv(h))
    /\ answers' = IF pc[h] = "release" THEN answers \cup {<<post[h], text[h]>>}
                                       ELSE answers
    /\ EndRequest(h)
    /\ UNCHANGED <<rowVars, stops>>

(* An exception inside _respond_locked; its transaction is rolled back.    *)
StepRaises(h) ==
    /\ pc[h] \in {"receive", "handoff", "compose", "record"}
    /\ Goto(h, "unwind")
    /\ UNCHANGED <<lease, post, text, rowVars, answers, overrun, stops>>

-----------------------------------------------------------------------------
(* The API process stops: every request in progress dies with its locals.  *)
ProcessStops ==
    /\ stops < MaxStops
    /\ stops' = stops + 1
    /\ pc' = [h \in Workers |-> "idle"]
    /\ post' = [h \in Workers |-> None]
    /\ text' = [h \in Workers |-> None]
    /\ overrun' = {}
    /\ UNCHANGED <<lease, rowVars, answers>>

(* The TTL of a lease runs out, whatever its holder is doing.              *)
LeaseExpires(c) ==
    /\ Expire(c)
    /\ overrun' = overrun \cup {h \in Workers : /\ lease[c] = h
                                               /\ pc[h] \notin {"idle", "acquire"}
                                               /\ Conv(h) = c}
    /\ UNCHANGED <<handlerVars, rowVars, answers, stops>>

HandlerStep(h) ==
    \/ AcquireLease(h)
    \/ ConversationBusy(h)
    \/ ReceiveMessage(h)
    \/ RequestHandoff(h)
    \/ ComposeReply(h)
    \/ RecordOutbound(h)
    \/ ReleaseLease(h)
    \/ StepRaises(h)

ChatNext ==
    \/ \E h \in Workers : HandlerStep(h) \/ \E w \in Posts : SendMessage(h, w)
    \/ ProcessStops
    \/ \E c \in Conversations : LeaseExpires(c)

ChatSpec == ChatInit /\ [][ChatNext]_chatVars

-----------------------------------------------------------------------------
(* Every 200 response carries the one reply the history stores for its     *)
(* message id, however often clients repeat the id, in this or another     *)
(* conversation, and whatever leases run out in between: only the request  *)
(* that inserted the id composes, so record_outbound never meets a         *)
(* different text.                                                         *)
AnswersAreTheStoredReply ==
    \A a \in answers : reply[IdOf[a[1]]] = a[2]

(* Turns do not overlap: of the handlers that are answering in one         *)
(* conversation, at most one did not lose its lease to the TTL.  A message *)
(* is therefore composed from a history that holds the replies of all      *)
(* earlier turns that were not interrupted.                                *)
TurnsDoNotOverlap ==
    \A g, h \in Workers \ overrun :
        InTurn(g) /\ InTurn(h) /\ Conv(g) = Conv(h) => g = h

(* GOLDEN_BEHAVIORS G-020 for web messages: a replay never re-runs tools,  *)
(* handoff or composition, not even under another conversation.  The price *)
(* is at service.py:273: a message whose request died between its two      *)
(* transactions is refused for ever.                                       *)
ReplayNeverRecomposes ==
    [][\A m \in Messages : row[m] # None /\ Working(m)' => Working(m)]_chatVars

(* A handoff is confirmed to a client only when it is durable in the       *)
(* conversation it was asked for in.  That need not be the conversation of *)
(* the client that reads the confirmation: find_message at service.py:264  *)
(* looks the reply of a duplicate up by message id alone.                  *)
ConfirmedHandoffIsDurable ==
    \A a \in answers : LET w == row[IdOf[a[1]]] IN
        w \in HandoffPosts => conversation[ScopeOf[w]] = "needs_human"

=============================================================================
