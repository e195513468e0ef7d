------------------------- MODULE SharedStateProofs --------------------------
(***************************************************************************)
(* The guarantees of the components that callers share through Redis and   *)
(* PostgreSQL, for any number of callers, conversations and values: web    *)
(* chat, handoffs, pending actions and the active pick.  Each has an       *)
(* inductive invariant of its own, named after it; a step of the           *)
(* composition is a step of one component and a stutter of the others.     *)
(***************************************************************************)
EXTENDS SharedState, TLAPS

-----------------------------------------------------------------------------
(* The web chat: any number of request handlers, conversations, repeated   *)
(* requests, expired leases and stops of the process.                      *)

(* The control points between the commit of the inbound row and that of    *)
(* the reply, and the points where a handler may use the lease.            *)
TurnPoints == {"handoff", "compose", "record"}
PastAcquire == TurnPoints \cup {"receive", "release", "unwind"}

(* A handler has the locals its next step reads.                           *)
LocalsOK ==
    \A h \in Workers :
        /\ pc[h] # "idle" => post[h] \in Posts
        /\ pc[h] \in {"record", "release"} => text[h] \in Texts

(* A turn belongs to the post that inserted its id and has no reply yet;   *)
(* it is the only one of that id.  A reply has an inbound row, and a       *)
(* handler about to answer has the stored one.                             *)
TurnsOK ==
    /\ \A h \in Workers : pc[h] \in TurnPoints =>
          row[Id(h)] = post[h] /\ reply[Id(h)] = None
    /\ \A g, h \in Workers :
          pc[g] \in TurnPoints /\ pc[h] \in TurnPoints /\ Id(g) = Id(h) => g = h
    /\ \A m \in Messages : reply[m] # None => row[m] # None
    /\ \A h \in Workers : pc[h] = "release" => reply[Id(h)] = text[h]

(* A handler past acquire owns the lease unless it ran out on it.          *)
HoldersOK ==
    \A h \in Workers : pc[h] \in PastAcquire =>
        lease[Conv(h)] = h \/ h \in overrun

(* The handoff of a post is committed before its text is composed, and     *)
(* stays committed once the reply that confirms it is stored.              *)
HandoffsOK ==
    /\ \A h \in Workers :
          pc[h] \in {"compose", "record"} /\ post[h] \in HandoffPosts
              => conversation[Conv(h)] = "needs_human"
    /\ \A m \in Messages :
          reply[m] # None /\ row[m] \in HandoffPosts
              => conversation[ScopeOf[row[m]]] = "needs_human"

ChatInv ==
    /\ ChatTypeOK
    /\ LocalsOK
    /\ TurnsOK
    /\ HoldersOK
    /\ HandoffsOK
    /\ AnswersAreTheStoredReply

(* Initially no handler runs and nothing is stored.                        *)
LEMMA ChatInvInit ==
    ASSUME ChatInit
    PROVE  ChatInv
BY WebChatAssumption
   DEF ChatInit, ChatInv, ChatTypeOK, LockTypeOK, LockInit, LocalsOK, TurnsOK,
       HoldersOK, HandoffsOK, AnswersAreTheStoredReply, TurnPoints, PastAcquire

(* A step that ends a request or moves it outside the turn, and leaves the *)
(* rows alone.                                                             *)
LEMMA SendMessageInv ==
    ASSUME ChatInv, NEW h \in Workers, NEW w \in Posts, SendMessage(h, w)
    PROVE  ChatInv'
<1> USE WebChatAssumption
    DEF SendMessage, Conv, Id, Goto, rowVars, ChatInv, ChatTypeOK, TurnPoints, PastAcquire
<1>1. ChatTypeOK' /\ LocalsOK'
  BY DEF LocalsOK, LockTypeOK
<1>2. TurnsOK'
  BY DEF TurnsOK
<1>3. HoldersOK' /\ HandoffsOK'
  BY DEF HoldersOK, HandoffsOK
<1>4. AnswersAreTheStoredReply'
  BY DEF AnswersAreTheStoredReply
<1> QED BY <1>1, <1>2, <1>3, <1>4

(* Taking a free lease keeps those of the other handlers.                  *)
LEMMA AcquireLeaseInv ==
    ASSUME ChatInv, NEW h \in Workers, AcquireLease(h)
    PROVE  ChatInv'
<1> USE WebChatAssumption
    DEF AcquireLease, Acquire, Conv, Id, Goto, rowVars, ChatInv, ChatTypeOK, TurnPoints,
        PastAcquire
<1>1. ChatTypeOK' /\ LocalsOK'
  BY DEF LocalsOK, LockTypeOK
<1>2. TurnsOK'
  BY DEF TurnsOK
<1>3. HoldersOK' /\ HandoffsOK'
  BY DEF HoldersOK, HandoffsOK, LocalsOK, LockTypeOK
<1>4. AnswersAreTheStoredReply'
  BY DEF AnswersAreTheStoredReply
<1> QED BY <1>1, <1>2, <1>3, <1>4

(* A refused request ends; the SET it doubts may have been executed.       *)
LEMMA ConversationBusyInv ==
    ASSUME ChatInv, NEW h \in Workers, ConversationBusy(h)
    PROVE  ChatInv'
<1> USE WebChatAssumption
    DEF ConversationBusy, AcquireRefused, Acquire, Conv, Id, EndRequest, Goto,
        rowVars, ChatInv, ChatTypeOK, TurnPoints, PastAcquire
<1>1. ChatTypeOK' /\ LocalsOK'
  BY DEF LocalsOK, LockTypeOK
<1>2. TurnsOK'
  BY DEF TurnsOK
<1>3. HoldersOK' /\ HandoffsOK'
  BY DEF HoldersOK, HandoffsOK, LocalsOK, LockTypeOK
<1>4. AnswersAreTheStoredReply'
  BY DEF AnswersAreTheStoredReply
<1> QED BY <1>1, <1>2, <1>3, <1>4

(* The first transaction starts a turn only for a message without a row.   *)
LEMMA ReceiveMessageInv ==
    ASSUME ChatInv, NEW h \in Workers, ReceiveMessage(h)
    PROVE  ChatInv'
<1> USE WebChatAssumption
    DEF ReceiveMessage, ComposeEntry, Conv, Id, Goto, rowVars, ChatInv, ChatTypeOK,
        TurnPoints, PastAcquire
<1>1. ChatTypeOK' /\ LocalsOK'
  BY DEF LocalsOK, LockTypeOK
<1>2. TurnsOK'
  BY DEF TurnsOK, LocalsOK
<1>3. HoldersOK'
  BY DEF HoldersOK
<1>4. HandoffsOK'
  <2>1. \A m \in Messages : reply[m] # None => row'[m] = row[m]
    BY DEF TurnsOK
  <2> QED BY <2>1 DEF HandoffsOK
<1>5. AnswersAreTheStoredReply'
  BY DEF AnswersAreTheStoredReply
<1> QED BY <1>1, <1>2, <1>3, <1>4, <1>5

(* The handoff, the composition and an exception move a handler that has   *)
(* its row already.                                                        *)
LEMMA TurnStepInv ==
    ASSUME ChatInv, NEW h \in Workers,
           RequestHandoff(h) \/ ComposeReply(h) \/ StepRaises(h)
    PROVE  ChatInv'
<1> USE WebChatAssumption
    DEF RequestHandoff, ComposeReply, StepRaises, Conv, Id, Goto, rowVars, ChatInv,
        ChatTypeOK, TurnPoints, PastAcquire
<1>1. ChatTypeOK' /\ LocalsOK'
  BY DEF LocalsOK, LockTypeOK
<1>2. TurnsOK'
  BY DEF TurnsOK
<1>3. HoldersOK' /\ HandoffsOK'
  BY DEF HoldersOK, HandoffsOK, LocalsOK
<1>4. AnswersAreTheStoredReply'
  BY DEF AnswersAreTheStoredReply
<1> QED BY <1>1, <1>2, <1>3, <1>4

(* The second transaction meets no other reply.                            *)
LEMMA RecordOutboundInv ==
    ASSUME ChatInv, NEW h \in Workers, RecordOutbound(h)
    PROVE  ChatInv'
<1> USE WebChatAssumption
    DEF RecordOutbound, Conv, Id, Goto, rowVars, ChatInv, ChatTypeOK, TurnPoints,
        PastAcquire
<1>0. /\ Id(h) \in Messages
      /\ text[h] \in Texts
      /\ reply[Id(h)] = None
      /\ row[Id(h)] = post[h]
      /\ reply' = [reply EXCEPT ![Id(h)] = text[h]]
  BY DEF LocalsOK, TurnsOK
<1>1. ChatTypeOK' /\ LocalsOK'
  BY <1>0 DEF LocalsOK, LockTypeOK
<1>2. TurnsOK'
  BY <1>0 DEF TurnsOK, LocalsOK
<1>3. HoldersOK' /\ HandoffsOK'
  BY <1>0 DEF HoldersOK, HandoffsOK
<1>4. AnswersAreTheStoredReply'
  BY <1>0 DEF AnswersAreTheStoredReply
<1> QED BY <1>1, <1>2, <1>3, <1>4

(* The lease that is released is the handler's own, and the answer is the  *)
(* stored reply.                                                           *)
LEMMA ReleaseLeaseInv ==
    ASSUME ChatInv, NEW h \in Workers, ReleaseLease(h)
    PROVE  ChatInv'
<1> USE WebChatAssumption
    DEF ReleaseLease, Release, ReleaseUnavailable, Conv, Id, EndRequest, Goto,
        rowVars, ChatInv, ChatTypeOK, TurnPoints, PastAcquire
<1>1. ChatTypeOK' /\ LocalsOK'
  BY DEF LocalsOK, LockTypeOK
<1>2. TurnsOK'
  BY DEF TurnsOK
<1>3. HoldersOK' /\ HandoffsOK'
  BY DEF HoldersOK, HandoffsOK, LocalsOK, LockTypeOK
<1>4. AnswersAreTheStoredReply'
  BY DEF AnswersAreTheStoredReply, TurnsOK
<1> QED BY <1>1, <1>2, <1>3, <1>4

(* A stop ends every request, an expiry marks the message it hits.         *)
LEMMA EnvironmentInv ==
    ASSUME ChatInv, ProcessStops \/ \E c \in Conversations : LeaseExpires(c)
    PROVE  ChatInv'
<1> USE WebChatAssumption
    DEF ProcessStops, LeaseExpires, Expire, Conv, Id, handlerVars, rowVars, ChatInv,
        ChatTypeOK, TurnPoints, PastAcquire
<1>1. ChatTypeOK' /\ LocalsOK'
  BY DEF LocalsOK, LockTypeOK
<1>2. TurnsOK'
  BY DEF TurnsOK
<1>3. HoldersOK'
  BY DEF HoldersOK, LocalsOK, LockTypeOK
<1>4. HandoffsOK'
  BY DEF HandoffsOK
<1>5. AnswersAreTheStoredReply'
  BY DEF AnswersAreTheStoredReply
<1> QED BY <1>1, <1>2, <1>3, <1>4, <1>5

(* Every step of the web chat keeps the invariant.                         *)
LEMMA ChatInvNext ==
    ASSUME ChatInv, [ChatNext]_chatVars
    PROVE  ChatInv'
<1>1. CASE UNCHANGED chatVars
  BY <1>1 DEF chatVars, handlerVars, rowVars, Conv, Id, ChatInv, ChatTypeOK,
              LockTypeOK, LocalsOK, TurnsOK, HoldersOK, HandoffsOK, AnswersAreTheStoredReply
<1>2. CASE ChatNext
  BY <1>2, WebChatAssumption, SendMessageInv, AcquireLeaseInv, ConversationBusyInv,
     ReceiveMessageInv, TurnStepInv, RecordOutboundInv, ReleaseLeaseInv,
     EnvironmentInv DEF ChatNext, HandlerStep
<1> QED BY <1>1, <1>2

(* Only the first transaction of a message without a row starts a turn.    *)
LEMMA TurnsStartOnce ==
    ASSUME ChatInv, [ChatNext]_chatVars
    PROVE  [\A m \in Messages : row[m] # None /\ Working(m)' => Working(m)]_chatVars
<1> SUFFICES ASSUME ChatNext, NEW m \in Messages, row[m] # None, Working(m)'
             PROVE  Working(m)
  OBVIOUS
<1>1. PICK h \in Workers : IdOf[post'[h]] = m /\ pc'[h] \in TurnPoints
  BY DEF Working, InTurn, Id, TurnPoints
<1>2. IdOf[post[h]] = m /\ pc[h] \in TurnPoints
  BY <1>1 DEF ChatNext, HandlerStep, SendMessage, AcquireLease, ConversationBusy,
     ReceiveMessage, RequestHandoff, ComposeReply, RecordOutbound, ReleaseLease,
     StepRaises, ProcessStops, LeaseExpires, EndRequest, Goto, Id, handlerVars,
     rowVars, ChatInv, ChatTypeOK, TurnPoints
<1> QED BY <1>2 DEF Working, InTurn, Id, TurnPoints

(* The types, and that every handler has the locals it uses.               *)
THEOREM ChatTypeCorrect == ChatSpec => []ChatTypeOK
<1>1. ChatInit => ChatInv
  BY ChatInvInit
<1>2. ChatInv /\ [ChatNext]_chatVars => ChatInv'
  BY ChatInvNext
<1>3. ChatInv => ChatTypeOK
  BY DEF ChatInv
<1> QED BY <1>1, <1>2, <1>3, PTL DEF ChatSpec

(* Every 200 answer of the chat route carries the reply the history stores *)
(* for its message: respond composes once per message id.                  *)
THEOREM AnsweredAsStored == ChatSpec => []AnswersAreTheStoredReply
<1>1. ChatInit => ChatInv
  BY ChatInvInit
<1>2. ChatInv /\ [ChatNext]_chatVars => ChatInv'
  BY ChatInvNext
<1>3. ChatInv => AnswersAreTheStoredReply
  BY DEF ChatInv
<1> QED BY <1>1, <1>2, <1>3, PTL DEF ChatSpec

(* Of the handlers that answer in one conversation at most one has a lease *)
(* that did not run out: the lock serialises the turns.                    *)
THEOREM TurnsAreSerial == ChatSpec => []TurnsDoNotOverlap
<1>1. ChatInit => ChatInv
  BY ChatInvInit
<1>2. ChatInv /\ [ChatNext]_chatVars => ChatInv'
  BY ChatInvNext
<1>3. ChatInv => TurnsDoNotOverlap
  BY DEF ChatInv, HoldersOK, TurnsDoNotOverlap, InTurn, PastAcquire, TurnPoints
<1> QED BY <1>1, <1>2, <1>3, PTL DEF ChatSpec

(* A replay of a message id, under any conversation, never starts a second *)
(* turn.                                                                   *)
THEOREM ReplaysDoNotRecompose == ChatSpec => ReplayNeverRecomposes
<1>1. ChatInit => ChatInv
  BY ChatInvInit
<1>2. ChatInv /\ [ChatNext]_chatVars => ChatInv'
  BY ChatInvNext
<1>3. ChatInv /\ [ChatNext]_chatVars =>
        [\A m \in Messages : row[m] # None /\ Working(m)' => Working(m)]_chatVars
  BY TurnsStartOnce
<1> QED BY <1>1, <1>2, <1>3, PTL DEF ChatSpec, ReplayNeverRecomposes

(* A handoff confirmed to a web client is committed, in the conversation   *)
(* of the post that asked for it, whoever repeats its id where.            *)
THEOREM ConfirmedIsDurable == ChatSpec => []ConfirmedHandoffIsDurable
<1>1. ChatInit => ChatInv
  BY ChatInvInit
<1>2. ChatInv /\ [ChatNext]_chatVars => ChatInv'
  BY ChatInvNext
<1>3. ChatInv => ConfirmedHandoffIsDurable
  BY WebChatAssumption
     DEF ChatInv, ChatTypeOK, AnswersAreTheStoredReply, HandoffsOK,
         ConfirmedHandoffIsDurable
<1> QED BY <1>1, <1>2, <1>3, PTL DEF ChatSpec

-----------------------------------------------------------------------------
(* Handoffs of any number of conversations, requested by any number of     *)
(* concurrent sessions: one is open at a time, and a conversation no       *)
(* operator has acted in waits for a person exactly when one is open.      *)

(* A session that runs a statement has a message, and a session with a row *)
(* of its own is about to commit it.                                       *)
SessionsOK ==
    /\ \A s \in Sessions : statement[s] # "idle" => request[s] \in Messages
    /\ \A s \in inserted : statement[s] = "update"

(* An uncommitted row excludes every other, committed and open or not, of  *)
(* its conversation, and every row of its key.                             *)
InsertedOK ==
    /\ \A s, t \in inserted : SessionConv(s) = SessionConv(t) => s = t
    /\ \A s \in inserted :
          /\ handoff[request[s]] = "absent"
          /\ \A m \in Messages : ConversationOf[m] = SessionConv(s) => ~Open(m)

(* Where no operator has acted a row is absent or requested, and a session *)
(* that converges on an existing row still has an open one to point to.    *)
UnattendedOK ==
    /\ \A m \in Messages :
          ConversationOf[m] \notin attended => handoff[m] \in {"absent", "requested"}
    /\ \A s \in Sessions :
          /\ statement[s] = "update"
          /\ s \notin inserted
          /\ SessionConv(s) \notin attended
          => \E m \in Messages : ConversationOf[m] = SessionConv(s) /\ Open(m)

(* NeedsHumanIffOpen without the set of the open handoffs.                 *)
WaitsIffOpen ==
    \A c \in Conversations \ attended :
        workflow[c] = "needs_human"
            <=> \E m \in Messages : ConversationOf[m] = c /\ Open(m)

HandoffInv ==
    /\ HandoffTypeOK
    /\ SessionsOK
    /\ InsertedOK
    /\ UnattendedOK
    /\ OneOpenHandoff
    /\ WaitsIffOpen

(* What the set of open handoffs of a conversation is empty of.            *)
LEMMA OpenInNotEmpty ==
    ASSUME NEW c
    PROVE  OpenIn(c) # {} <=> \E m \in Messages : ConversationOf[m] = c /\ Open(m)
BY DEF OpenIn

(* Initially no session runs and no row exists.                            *)
LEMMA HandoffInvInit ==
    ASSUME HandoffInit
    PROVE  HandoffInv
BY HandoffAssumption DEF HandoffInit, HandoffInv, HandoffTypeOK, SessionsOK, InsertedOK,
       UnattendedOK, OneOpenHandoff, WaitsIffOpen, Open, HandoffStatus,
       ConversationWorkflowStatus

(* Beginning, waiting for or giving up a request changes no row.           *)
LEMMA RequestStepInv ==
    ASSUME HandoffInv, NEW s \in Sessions,
           (\E m \in Messages : BeginRequest(s, m)) \/ Rollback(s)
    PROVE  HandoffInv'
<1> USE HandoffAssumption DEF Continue, SessionConv, Open
<1>1. HandoffTypeOK'
  BY DEF HandoffInv, HandoffTypeOK, BeginRequest, Rollback
<1>2. SessionsOK'
  BY DEF HandoffInv, HandoffTypeOK, SessionsOK, BeginRequest, Rollback
<1>3. InsertedOK'
  BY DEF HandoffInv, HandoffTypeOK, SessionsOK, InsertedOK, BeginRequest, Rollback
<1>4. UnattendedOK'
  BY DEF HandoffInv, HandoffTypeOK, SessionsOK, UnattendedOK, BeginRequest, Rollback
<1>5. OneOpenHandoff' /\ WaitsIffOpen'
  BY DEF HandoffInv, OneOpenHandoff, WaitsIffOpen, BeginRequest, Rollback
<1> QED BY <1>1, <1>2, <1>3, <1>4, <1>5 DEF HandoffInv

(* The INSERT finds no row in its way, or leads to the SELECT.             *)
LEMMA InsertInv ==
    ASSUME HandoffInv, NEW s \in Sessions, InsertHandoff(s)
    PROVE  HandoffInv'
<1> USE HandoffAssumption DEF Continue, SessionConv, Open
<1>1. HandoffTypeOK'
  BY DEF HandoffInv, HandoffTypeOK, InsertHandoff
<1>2. SessionsOK'
  BY DEF HandoffInv, HandoffTypeOK, SessionsOK, InsertHandoff
<1>3. InsertedOK'
  <2>1. CASE Conflict(s)
    BY <2>1 DEF HandoffInv, HandoffTypeOK, InsertedOK, InsertHandoff
  <2>2. CASE ~Conflict(s)
    <3>1. /\ handoff[request[s]] = "absent"
          /\ \A m \in Messages : ConversationOf[m] = SessionConv(s) => ~Open(m)
          /\ \A t \in inserted : SessionConv(t) # SessionConv(s)
      BY <2>2, OpenInNotEmpty DEF Conflict, InsertHandoff, MustWait
    <3>2. /\ inserted' = inserted \cup {s}
          /\ UNCHANGED <<handoff, request>>
      BY <2>2 DEF InsertHandoff
    <3> QED BY <3>1, <3>2 DEF HandoffInv, InsertedOK
  <2> QED BY <2>1, <2>2
<1>4. UnattendedOK'
  BY DEF HandoffInv, HandoffTypeOK, SessionsOK, UnattendedOK, InsertHandoff
<1>5. OneOpenHandoff' /\ WaitsIffOpen'
  BY DEF HandoffInv, OneOpenHandoff, WaitsIffOpen, InsertHandoff
<1> QED BY <1>1, <1>2, <1>3, <1>4, <1>5 DEF HandoffInv

(* The SELECT finds a row, in an unattended conversation an open one.      *)
LEMMA SelectInv ==
    ASSUME HandoffInv, NEW s \in Sessions, SelectExisting(s)
    PROVE  HandoffInv'
<1> USE HandoffAssumption DEF Continue, SessionConv, Open
<1>1. HandoffTypeOK'
  BY DEF HandoffInv, HandoffTypeOK, SelectExisting
<1>2. SessionsOK'
  BY DEF HandoffInv, HandoffTypeOK, SessionsOK, SelectExisting
<1>3. InsertedOK'
  BY DEF HandoffInv, HandoffTypeOK, SessionsOK, InsertedOK, SelectExisting
<1>4. UnattendedOK'
  <2>1. CASE Conflict(s)
    <3>1. request[s] \in Messages
      BY DEF HandoffInv, SessionsOK, SelectExisting
    <3>2. SessionConv(s) \notin attended =>
             \E m \in Messages : ConversationOf[m] = SessionConv(s) /\ Open(m)
      BY <2>1, <3>1, OpenInNotEmpty DEF Conflict, HandoffInv, UnattendedOK
    <3> QED BY <2>1, <3>2 DEF HandoffInv, HandoffTypeOK, UnattendedOK, SelectExisting
  <2>2. CASE ~Conflict(s)
    BY <2>2 DEF HandoffInv, HandoffTypeOK, UnattendedOK, SelectExisting
  <2> QED BY <2>1, <2>2
<1>5. OneOpenHandoff' /\ WaitsIffOpen'
  BY DEF HandoffInv, OneOpenHandoff, WaitsIffOpen, SelectExisting
<1> QED BY <1>1, <1>2, <1>3, <1>4, <1>5 DEF HandoffInv

(* The commit publishes the row and the state of its conversation.         *)
LEMMA CommitInv ==
    ASSUME HandoffInv, NEW s \in Sessions, UpdateAndCommit(s)
    PROVE  HandoffInv'
<1> USE HandoffAssumption DEF Continue, SessionConv, Open
<1>0. /\ request[s] \in Messages
      /\ statement[s] = "update"
      /\ SessionConv(s) \in Conversations
  BY DEF HandoffInv, SessionsOK, UpdateAndCommit
<1>1. HandoffTypeOK'
  BY <1>0 DEF HandoffInv, HandoffTypeOK, UpdateAndCommit, HandoffStatus,
              ConversationWorkflowStatus
<1>2. SessionsOK'
  BY DEF HandoffInv, HandoffTypeOK, SessionsOK, UpdateAndCommit
<1>3. InsertedOK'
  <2>1. \A t \in inserted' : t # s /\ t \in inserted /\ request'[t] = request[t]
    BY DEF UpdateAndCommit, HandoffInv, HandoffTypeOK
  <2>2. \A t \in inserted' : s \in inserted =>
           /\ SessionConv(t) # SessionConv(s)
           /\ request[t] # request[s]
    BY <2>1 DEF HandoffInv, InsertedOK
  <2>3. \A m \in Messages : (s \in inserted => m # request[s]) => handoff'[m] = handoff[m]
    BY DEF UpdateAndCommit, HandoffInv, HandoffTypeOK
  <2>4. \A t \in inserted' : request[t] \in Messages
    BY <2>1 DEF HandoffInv, SessionsOK, HandoffTypeOK
  <2>5. \A t \in inserted', u \in inserted' : SessionConv(t)' = SessionConv(u)' => t = u
    BY <2>1 DEF HandoffInv, InsertedOK
  <2>6. \A t \in inserted' : handoff'[request'[t]] = "absent"
    BY <2>1, <2>2, <2>3, <2>4 DEF HandoffInv, InsertedOK
  <2>7. \A t \in inserted' : \A m \in Messages :
           ConversationOf[m] = SessionConv(t)' => ~Open(m)'
    BY <2>1, <2>2, <2>3 DEF HandoffInv, InsertedOK
  <2> QED BY <2>5, <2>6, <2>7 DEF InsertedOK
<1>4. UnattendedOK'
  <2>1. \A m \in Messages : Open(m) => Open(m)'
    BY <1>0 DEF HandoffInv, HandoffTypeOK, UpdateAndCommit
  <2>2. \A m \in Messages :
           ConversationOf[m] \notin attended => handoff'[m] \in {"absent", "requested"}
    BY <1>0 DEF HandoffInv, HandoffTypeOK, UnattendedOK, UpdateAndCommit
  <2>3. \A t \in Sessions : statement'[t] = "update" /\ t \notin inserted'
           => /\ t # s /\ statement[t] = "update" /\ t \notin inserted
              /\ request'[t] = request[t]
    BY DEF HandoffInv, HandoffTypeOK, UpdateAndCommit
  <2> QED BY <2>1, <2>2, <2>3 DEF HandoffInv, UnattendedOK, UpdateAndCommit
<1>5. OneOpenHandoff'
  BY <1>0 DEF HandoffInv, HandoffTypeOK, InsertedOK, OneOpenHandoff, UpdateAndCommit
<1>6. WaitsIffOpen'
  <2> SUFFICES ASSUME NEW c \in Conversations, c \notin attended
               PROVE  workflow'[c] = "needs_human"
                        <=> \E m \in Messages : ConversationOf[m] = c /\ Open(m)'
    BY DEF WaitsIffOpen, UpdateAndCommit
  <2>1. CASE c = SessionConv(s) /\ s \in inserted
    BY <1>0, <2>1 DEF HandoffInv, HandoffTypeOK, UpdateAndCommit
  <2>2. CASE c = SessionConv(s) /\ s \notin inserted
    BY <1>0, <2>2 DEF HandoffInv, HandoffTypeOK, UnattendedOK, UpdateAndCommit
  <2>3. CASE c # SessionConv(s)
    <3>1. /\ workflow'[c] = workflow[c]
          /\ \A m \in Messages : ConversationOf[m] = c => handoff'[m] = handoff[m]
      BY <2>3 DEF HandoffInv, HandoffTypeOK, UpdateAndCommit
    <3> QED BY <3>1 DEF HandoffInv, WaitsIffOpen
  <2> QED BY <2>1, <2>2, <2>3
<1> QED BY <1>1, <1>2, <1>3, <1>4, <1>5, <1>6 DEF HandoffInv

(* An operator acts only where the conversation then counts as attended.   *)
LEMMA OperatorInv ==
    ASSUME HandoffInv, NEW m \in Messages,
           ClaimHandoff(m) \/ ResolveHandoff(m)
    PROVE  HandoffInv'
<1> USE HandoffAssumption DEF SessionConv, Open, sessionVars
<1>0. /\ UNCHANGED <<statement, request, inserted>>
      /\ attended' = attended \cup {ConversationOf[m]}
      /\ Open(m)
      /\ \A n \in Messages : n # m => handoff'[n] = handoff[n]
      /\ \A c \in Conversations : c # ConversationOf[m] => workflow'[c] = workflow[c]
  BY DEF HandoffInv, HandoffTypeOK, ClaimHandoff, ResolveHandoff
<1>1. HandoffTypeOK'
  BY DEF HandoffInv, HandoffTypeOK, ClaimHandoff, ResolveHandoff, HandoffStatus,
         ConversationWorkflowStatus
<1>2. SessionsOK'
  BY <1>0 DEF HandoffInv, SessionsOK
<1>3. InsertedOK'
  <2>1. \A t \in inserted : SessionConv(t) # ConversationOf[m] /\ request[t] # m
    BY <1>0 DEF HandoffInv, InsertedOK
  <2>2. \A t \in inserted : request[t] \in Messages
    BY DEF HandoffInv, HandoffTypeOK, SessionsOK
  <2> QED BY <1>0, <2>1, <2>2 DEF HandoffInv, InsertedOK
<1>4. UnattendedOK'
  BY <1>0 DEF HandoffInv, UnattendedOK
<1>5. OneOpenHandoff'
  BY <1>0 DEF HandoffInv, OneOpenHandoff
<1>6. WaitsIffOpen'
  BY <1>0 DEF HandoffInv, WaitsIffOpen
<1> QED BY <1>1, <1>2, <1>3, <1>4, <1>5, <1>6 DEF HandoffInv

(* Every step keeps the invariant.                                         *)
LEMMA HandoffInvNext ==
    ASSUME HandoffInv, [HandoffNext]_handoffVars
    PROVE  HandoffInv'
<1>1. CASE UNCHANGED handoffVars
  BY <1>1 DEF handoffVars, sessionVars, HandoffInv, HandoffTypeOK, SessionsOK, InsertedOK,
              UnattendedOK, OneOpenHandoff, WaitsIffOpen, Open, SessionConv
<1>2. ASSUME NEW s \in Sessions,
             \/ \E m \in Messages : BeginRequest(s, m)
             \/ InsertHandoff(s) \/ SelectExisting(s) \/ UpdateAndCommit(s)
             \/ Rollback(s)
      PROVE  HandoffInv'
  BY <1>2, RequestStepInv, InsertInv, SelectInv, CommitInv
<1>3. ASSUME NEW m \in Messages, ClaimHandoff(m) \/ ResolveHandoff(m)
      PROVE  HandoffInv'
  BY <1>3, OperatorInv
<1> QED BY <1>1, <1>2, <1>3 DEF HandoffNext

(* Of all handoffs of a conversation at most one is open, however requests,*)
(* rollbacks and operators interleave: HandoffRepository.request converges.*)
THEOREM OneOpenAtATime ==
    HandoffSpec => []OneOpenHandoff
<1>1. HandoffInit => HandoffInv
  BY HandoffInvInit
<1>2. HandoffInv /\ [HandoffNext]_handoffVars => HandoffInv'
  BY HandoffInvNext
<1>3. HandoffInv => OneOpenHandoff
  BY DEF HandoffInv
<1> QED BY <1>1, <1>2, <1>3, PTL DEF HandoffSpec

(* A conversation no operator has acted in waits for a person exactly when *)
(* a handoff is open: the two writes of request are one.                   *)
THEOREM WaitsExactlyWhenOpen ==
    HandoffSpec => []NeedsHumanIffOpen
<1>1. HandoffInit => HandoffInv
  BY HandoffInvInit
<1>2. HandoffInv /\ [HandoffNext]_handoffVars => HandoffInv'
  BY HandoffInvNext
<1>3. HandoffInv => NeedsHumanIffOpen
  BY OpenInNotEmpty DEF HandoffInv, WaitsIffOpen, NeedsHumanIffOpen
<1> QED BY <1>1, <1>2, <1>3, PTL DEF HandoffSpec

-----------------------------------------------------------------------------
(* The pending action: any number of readers, consumers and lost answers.  *)

(* An action under the key was written and not taken, and one that was not *)
(* written has left no trace.                                              *)
TakenOK ==
    /\ key # None => key \in written /\ taken[key] = 0
    /\ \A a \in Actions : /\ a \notin written => taken[a] = 0
                          /\ taken[a] <= 1

PendingInv ==
    /\ PendingTypeOK
    /\ TakenOK

(* Initially the key is absent.                                            *)
LEMMA PendingInvInit ==
    ASSUME PendingInit
    PROVE  PendingInv
BY DEF PendingInit, PendingInv, PendingTypeOK, TakenOK

(* Every command keeps the invariant, its answer lost or not.              *)
LEMMA PendingInvNext ==
    ASSUME PendingInv, [PendingNext]_pendingVars
    PROVE  PendingInv'
<1> USE PendingAssumption DEF PendingInv, PendingTypeOK
<1>1. ASSUME NEW a \in Actions, SetAction(a)
      PROVE  PendingInv'
  BY <1>1 DEF SetAction, TakenOK
<1>2. ASSUME NEW r \in Getters, GetUnreadable(r)
      PROVE  PendingInv'
  BY <1>2 DEF GetUnreadable, TakenOK
<1>3. ASSUME Consume \/ ConsumeUnavailable
      PROVE  PendingInv'
  <2>1. key \in Actions /\ taken[key] = 0
    BY <1>3 DEF Consume, ConsumeUnavailable, TakenOK
  <2>2. taken' \in {taken, [taken EXCEPT ![key] = 1]}
    BY <1>3, <2>1 DEF Consume, ConsumeUnavailable
  <2>3. key' = None /\ UNCHANGED <<written, cleanup>>
    BY <1>3 DEF Consume, ConsumeUnavailable
  <2> QED BY <2>1, <2>2, <2>3 DEF TakenOK
<1>4. ASSUME NEW r \in Getters, ClearUnreadable(r)
      PROVE  PendingInv'
  BY <1>4 DEF ClearUnreadable, TakenOK
<1>5. CASE KeyGoes \/ UNCHANGED pendingVars
  BY <1>5 DEF KeyGoes, pendingVars, TakenOK
<1> QED BY <1>1, <1>2, <1>3, <1>4, <1>5 DEF PendingNext

(* The types, for any number of readers and actions.                       *)
THEOREM PendingTypeCorrect == PendingSpec => []PendingTypeOK
<1>1. PendingInit => PendingInv
  BY PendingInvInit
<1>2. PendingInv /\ [PendingNext]_pendingVars => PendingInv'
  BY PendingInvNext
<1>3. PendingInv => PendingTypeOK
  BY DEF PendingInv
<1> QED BY <1>1, <1>2, <1>3, PTL DEF PendingSpec

(* GETDEL hands a question to one caller of consume at most, whatever      *)
(* writes, reads, clears and lost answers come in between.                 *)
THEOREM ConsumedAtMostOnce == PendingSpec => []ConsumedOnce
<1>1. PendingInit => PendingInv
  BY PendingInvInit
<1>2. PendingInv /\ [PendingNext]_pendingVars => PendingInv'
  BY PendingInvNext
<1>3. PendingInv => ConsumedOnce
  BY DEF PendingInv, TakenOK, ConsumedOnce
<1> QED BY <1>1, <1>2, <1>3, PTL DEF PendingSpec

-----------------------------------------------------------------------------
(* The active pick: any number of concurrent calls per conversation.       *)

(* A call in progress has its conversation and no result, and knows what   *)
(* the key of that conversation holds.                                     *)
InProgressOK ==
    \A r \in Calls : step[r] # "idle" =>
        /\ scope[r] \in Scopes
        /\ result[r] = None
        /\ reference[scope[r]] \in Picks => reference[scope[r]] \in held[r]

(* What a call may rely on about its pick: one taken from the key was      *)
(* active during the call, and one about to be pictured was confirmed.     *)
PickOK ==
    \A r \in Calls :
        /\ step[r] \in {"explicit", "remember"} => pick[r] \in Picks
        /\ step[r] \in {"inherited", "clear", "image"} => pick[r] \in held[r]
        /\ step[r] = "image" => pick[r] \in seen[r]

ActivePickInv ==
    /\ ActivePickTypeOK
    /\ InProgressOK
    /\ PickOK
    /\ PhotoIsOfTheActivePick

(* Initially there is no call and no reference.                            *)
LEMMA ActivePickInvInit ==
    ASSUME ActivePickInit
    PROVE  ActivePickInv
BY ActivePickAssumption
   DEF ActivePickInit, ActivePickInv, ActivePickTypeOK, InProgressOK, PickOK,
       PhotoIsOfTheActivePick

(* A write to a key keeps the types and the histories of the calls.        *)
LEMMA WriteHistory ==
    ASSUME ActivePickInv, NEW c \in Scopes,
           NEW value \in Picks \cup {"corrupt", None}, Write(c, value)
    PROVE  /\ reference' \in [Scopes -> Picks \cup {"corrupt", None}]
           /\ held' \in [Calls -> SUBSET Picks]
           /\ \A r \in Calls : held[r] \subseteq held'[r]
           /\ \A r \in Calls : step[r] # "idle" /\ reference'[scope[r]] \in Picks
                  => reference'[scope[r]] \in held'[r]
BY DEF Write, ActivePickInv, ActivePickTypeOK, InProgressOK

(* A call begins with what its key holds.                                  *)
LEMMA BeginCallInv ==
    ASSUME ActivePickInv, NEW r \in Calls, NEW c \in Scopes,
           AskPhoto(r, c) \/ \E p \in Picks : SelectPick(r, c, p)
    PROVE  ActivePickInv'
<1> USE ActivePickAssumption
    DEF AskPhoto, SelectPick, MoveTo, ActivePickInv, ActivePickTypeOK
<1>1. ActivePickTypeOK'
  OBVIOUS
<1>2. InProgressOK' /\ PickOK'
  BY DEF InProgressOK, PickOK
<1>3. PhotoIsOfTheActivePick'
  BY DEF PhotoIsOfTheActivePick
<1> QED BY <1>1, <1>2, <1>3

(* A read of the key, or an answer of BuenPick, moves one call.            *)
LEMMA AnswerInv ==
    ASSUME ActivePickInv, NEW r \in Calls,
           \/ GetReference(r) \/ GetUnavailable(r) \/ ConfirmPick(r)
           \/ PickNotFound(r) \/ PickUnavailable(r) \/ GetPickImage(r)
           \/ ImageUnavailable(r)
    PROVE  ActivePickInv'
<1> USE ActivePickAssumption
    DEF GetReference, GetUnavailable, ConfirmPick, PickNotFound, PickUnavailable,
        GetPickImage, ImageUnavailable, MoveTo, Return, ActivePickInv,
        ActivePickTypeOK, Outcome
<1>1. ActivePickTypeOK'
  BY DEF PickOK
<1>2. InProgressOK'
  BY DEF InProgressOK
<1>3. PickOK'
  BY DEF InProgressOK, PickOK
<1>4. PhotoIsOfTheActivePick'
  BY DEF InProgressOK, PickOK, PhotoIsOfTheActivePick
<1> QED BY <1>1, <1>2, <1>3, <1>4

(* A DEL or a SET ends its call and is noted by the others.                *)
LEMMA WriteStepInv ==
    ASSUME ActivePickInv, NEW r \in Calls,
           DiscardCorrupt(r) \/ ClearStale(r) \/ Remember(r)
    PROVE  ActivePickInv'
<1> USE ActivePickAssumption DEF ActivePickInv
<1>0. /\ scope[r] \in Scopes
      /\ step[r] = "remember" => pick[r] \in Picks
      /\ step[r] # "idle"
  BY DEF DiscardCorrupt, ClearStale, Remember, InProgressOK, PickOK
<1>1. PICK o \in Outcome \ {"photo"} :
         /\ step' = [step EXCEPT ![r] = "idle"]
         /\ result' = [result EXCEPT ![r] = o]
         /\ UNCHANGED <<available, scope, pick, seen>>
  BY DEF DiscardCorrupt, ClearStale, Remember, Return, MoveTo, Outcome
<1>2. /\ reference' \in [Scopes -> Picks \cup {"corrupt", None}]
      /\ held' \in [Calls -> SUBSET Picks]
      /\ \A q \in Calls : held[q] \subseteq held'[q]
      /\ \A q \in Calls : step[q] # "idle" /\ reference'[scope[q]] \in Picks
             => reference'[scope[q]] \in held'[q]
  <2>1. CASE UNCHANGED <<reference, held>>
    BY <2>1 DEF ActivePickTypeOK, InProgressOK
  <2>2. CASE ~UNCHANGED <<reference, held>>
    <3>1. \E v \in Picks \cup {None} : Write(scope[r], v)
      BY <1>0, <2>2 DEF DiscardCorrupt, ClearStale, Remember
    <3> QED BY <1>0, <3>1, WriteHistory
  <2> QED BY <2>1, <2>2
<1>3. ActivePickTypeOK'
  BY <1>1, <1>2 DEF ActivePickTypeOK
<1>4. InProgressOK'
  BY <1>1, <1>2 DEF ActivePickTypeOK, InProgressOK
<1>5. PickOK'
  BY <1>1, <1>2 DEF ActivePickTypeOK, PickOK
<1>6. PhotoIsOfTheActivePick'
  BY <1>1, <1>2 DEF ActivePickTypeOK, PhotoIsOfTheActivePick
<1> QED BY <1>3, <1>4, <1>5, <1>6

(* The world changes a key or the catalogue, and no call.                  *)
LEMMA WorldInv ==
    ASSUME ActivePickInv,
           \/ \E c \in Scopes : ReferenceExpires(c) \/ PayloadCorrupted(c)
           \/ \E p \in Picks : CatalogueChanges(p)
           \/ UNCHANGED pickVars
    PROVE  ActivePickInv'
<1> USE ActivePickAssumption DEF ActivePickInv
<1>1. /\ UNCHANGED <<step, scope, pick, result, seen>>
      /\ available' \subseteq Picks
  BY DEF ReferenceExpires, PayloadCorrupted, CatalogueChanges, callVars, pickVars,
         ActivePickTypeOK
<1>2. /\ reference' \in [Scopes -> Picks \cup {"corrupt", None}]
      /\ held' \in [Calls -> SUBSET Picks]
      /\ \A q \in Calls : held[q] \subseteq held'[q]
      /\ \A q \in Calls : step[q] # "idle" /\ reference'[scope[q]] \in Picks
             => reference'[scope[q]] \in held'[q]
  <2>1. CASE UNCHANGED <<reference, held>>
    BY <2>1 DEF ActivePickTypeOK, InProgressOK
  <2>2. CASE ~UNCHANGED <<reference, held>>
    <3>1. \E c \in Scopes, v \in {"corrupt", None} : Write(c, v)
      BY <2>2 DEF ReferenceExpires, PayloadCorrupted, CatalogueChanges, pickVars
    <3> QED BY <3>1, WriteHistory
  <2> QED BY <2>1, <2>2
<1>3. ActivePickTypeOK'
  BY <1>1, <1>2 DEF ActivePickTypeOK
<1>4. InProgressOK' /\ PickOK'
  BY <1>1, <1>2 DEF InProgressOK, PickOK
<1>5. PhotoIsOfTheActivePick'
  BY <1>1, <1>2 DEF PhotoIsOfTheActivePick
<1> QED BY <1>3, <1>4, <1>5

(* Every step keeps the invariant.                                         *)
LEMMA ActivePickInvNext ==
    ASSUME ActivePickInv, [ActivePickNext]_pickVars
    PROVE  ActivePickInv'
BY BeginCallInv, AnswerInv, WriteStepInv, WorldInv DEF ActivePickNext, CallStep

(* The types, and that a call knows its conversation.                      *)
THEOREM ActivePickTypeCorrect == ActivePickSpec => []ActivePickTypeOK
<1>1. ActivePickInit => ActivePickInv
  BY ActivePickInvInit
<1>2. ActivePickInv /\ [ActivePickNext]_pickVars => ActivePickInv'
  BY ActivePickInvNext
<1>3. ActivePickInv => ActivePickTypeOK
  BY DEF ActivePickInv
<1> QED BY <1>1, <1>2, <1>3, PTL DEF ActivePickSpec

(* A prepared photo is of a pick that was active in its conversation       *)
(* during the call and that BuenPick confirmed to it.                      *)
THEOREM PhotoOfTheActivePick == ActivePickSpec => []PhotoIsOfTheActivePick
<1>1. ActivePickInit => ActivePickInv
  BY ActivePickInvInit
<1>2. ActivePickInv /\ [ActivePickNext]_pickVars => ActivePickInv'
  BY ActivePickInvNext
<1>3. ActivePickInv => PhotoIsOfTheActivePick
  BY DEF ActivePickInv
<1> QED BY <1>1, <1>2, <1>3, PTL DEF ActivePickSpec

-----------------------------------------------------------------------------
(* The composition: a behaviour of it is one of every component, so the    *)
(* theorems above hold of what the model checker explores.                 *)
THEOREM SharedStateComponents ==
    Spec => ChatSpec /\ HandoffSpec /\ PendingSpec /\ ActivePickSpec
<1>1. Init => ChatInit /\ HandoffInit /\ PendingInit /\ ActivePickInit
  BY DEF Init
<1>2. [Next]_vars => /\ [ChatNext]_chatVars /\ [HandoffNext]_handoffVars
                     /\ [PendingNext]_pendingVars /\ [ActivePickNext]_pickVars
  BY DEF Next, WebStep, HandoffStep, PendingStep, ActivePickStep, vars
<1> QED BY <1>1, <1>2, PTL DEF Spec, ChatSpec, HandoffSpec, PendingSpec,
        ActivePickSpec

(* The types of handoffs.                                                  *)
THEOREM HandoffTypeCorrect == HandoffSpec => []HandoffTypeOK
<1>1. HandoffInit => HandoffInv
  BY HandoffInvInit
<1>2. HandoffInv /\ [HandoffNext]_handoffVars => HandoffInv'
  BY HandoffInvNext
<1>3. HandoffInv => HandoffTypeOK
  BY DEF HandoffInv
<1> QED BY <1>1, <1>2, <1>3, PTL DEF HandoffSpec

(* Every variable of every component that shares state keeps its type, for *)
(* any number of handlers, sessions, readers and calls.                    *)
THEOREM SharedTypeCorrect == Spec => []TypeOK
<1>1. ChatTypeOK /\ HandoffTypeOK /\ PendingTypeOK /\ ActivePickTypeOK => TypeOK
  BY DEF TypeOK
<1> QED BY <1>1, SharedStateComponents, ChatTypeCorrect, HandoffTypeCorrect,
        PendingTypeCorrect, ActivePickTypeCorrect, PTL

=============================================================================
