------------------------------ MODULE Handoff -------------------------------
(***************************************************************************)
(* HandoffRepository.request of db/handoffs.py, the unit of work behind    *)
(* "ask for a person": INSERT ... ON CONFLICT DO NOTHING under two unique  *)
(* indexes, a SELECT of the row that was in the way, and an UPDATE of the  *)
(* conversation, committed together.  The statements run at READ           *)
(* COMMITTED, so each one sees what others committed before it.            *)
(*                                                                         *)
(* A handoff is named by the message its idempotency key is made of.  The  *)
(* request of a message runs again when its worker retries it, and two     *)
(* requests of a conversation overlap when a lease runs out.  The          *)
(* operators of OPERATOR_CONSOLE_ARCHITECTURE.md, who claim and resolve    *)
(* handoffs, are not part of the repository.                               *)
(***************************************************************************)
EXTENDS ConversationScope

CONSTANT Sessions       \* concurrent database sessions

ASSUME HandoffAssumption == ConversationOf \in [Messages -> Conversations]

VARIABLES handoff,      \* the committed status of each handoff row
          workflow,     \* the committed status of each conversation
          statement,    \* the next statement of each session
          request,      \* the message whose handoff it requests
          inserted,     \* the sessions with an uncommitted row of their own
          attended      \* history: conversations an operator has acted in

sessionVars == <<statement, request, inserted>>
handoffVars == <<handoff, workflow, sessionVars, attended>>

HandoffStatus == {"requested", "claimed", "resolved"}

ConversationWorkflowStatus == {"piki_active", "needs_human", "human_active",
                               "resolved"}

(* The type of every variable.                                             *)
HandoffTypeOK ==
    /\ handoff \in [Messages -> HandoffStatus \cup {"absent"}]
    /\ workflow \in [Conversations -> ConversationWorkflowStatus]
    /\ statement \in [Sessions -> {"idle", "insert", "select", "update"}]
    /\ request \in [Sessions -> Messages \cup {None}]
    /\ inserted \subseteq Sessions
    /\ attended \subseteq Conversations

HandoffInit ==
    /\ handoff = [m \in Messages |-> "absent"]
    /\ workflow = [c \in Conversations |-> "piki_active"]
    /\ statement = [s \in Sessions |-> "idle"]
    /\ request = [s \in Sessions |-> None]
    /\ inserted = {}
    /\ attended = {}

Continue(s, p) == statement' = [statement EXCEPT ![s] = p]

SessionConv(s) == ConversationOf[request[s]]

Open(m) == handoff[m] \in {"requested", "claimed"}

OpenIn(c) == {m \in Messages : ConversationOf[m] = c /\ Open(m)}

-----------------------------------------------------------------------------
BeginRequest(s, m) ==
    /\ statement[s] = "idle"
    /\ Continue(s, "insert")
    /\ request' = [request EXCEPT ![s] = m]
    /\ UNCHANGED <<handoff, workflow, inserted, attended>>

(* Another session's uncommitted row makes the INSERT wait for its end.    *)
MustWait(s) == \E t \in inserted : SessionConv(t) = SessionConv(s)

(* uq_handoffs_conversation_idempotency or                                 *)
(* uq_handoffs_one_open_per_conversation is in the way.                    *)
Conflict(s) == handoff[request[s]] # "absent" \/ OpenIn(SessionConv(s)) # {}

(* A defective InsertHandoff: only the idempotency key is unique.          *)
InsertHandoffByKey(s) ==
    /\ statement[s] = "insert"
    /\ ~\E t \in inserted : request[t] = request[s]
    /\ IF handoff[request[s]] # "absent"
       THEN Continue(s, "select") /\ UNCHANGED inserted
       ELSE Continue(s, "update") /\ inserted' = inserted \cup {s}
    /\ UNCHANGED <<handoff, workflow, request, attended>>

InsertHandoff(s) ==
    /\ statement[s] = "insert"
    /\ ~MustWait(s)
    /\ IF Conflict(s)
       THEN Continue(s, "select") /\ UNCHANGED inserted
       ELSE Continue(s, "update") /\ inserted' = inserted \cup {s}
    /\ UNCHANGED <<handoff, workflow, request, attended>>

(* The row of the same key, or an open one, oldest first.  When the open   *)
(* row was resolved since the INSERT, one() raises NoResultFound.          *)
SelectExisting(s) ==
    /\ statement[s] = "select"
    /\ IF Conflict(s)
       THEN Continue(s, "update") /\ UNCHANGED request
       ELSE Continue(s, "idle") /\ request' = [request EXCEPT ![s] = None]
    /\ UNCHANGED <<handoff, workflow, inserted, attended>>

(* A defective UpdateAndCommit: the UPDATE is left to another unit of work.*)
CommitHandoffOnly(s) ==
    /\ statement[s] = "update"
    /\ handoff' = IF s \in inserted
                  THEN [handoff EXCEPT ![request[s]] = "requested"] ELSE handoff
    /\ inserted' = inserted \ {s}
    /\ Continue(s, "idle")
    /\ request' = [request EXCEPT ![s] = None]
    /\ UNCHANGED <<workflow, attended>>

(* UPDATE conversations SET status = 'needs_human', then the commit that   *)
(* publishes both rows.                                                    *)
UpdateAndCommit(s) ==
    /\ statement[s] = "update"
    /\ workflow' = [workflow EXCEPT ![SessionConv(s)] = "needs_human"]
    /\ handoff' = IF s \in inserted
                  THEN [handoff EXCEPT ![request[s]] = "requested"] ELSE handoff
    /\ inserted' = inserted \ {s}
    /\ Continue(s, "idle")
    /\ request' = [request EXCEPT ![s] = None]
    /\ UNCHANGED attended

(* An error or the death of the process: the session is rolled back.       *)
Rollback(s) ==
    /\ statement[s] # "idle"
    /\ Continue(s, "idle")
    /\ request' = [request EXCEPT ![s] = None]
    /\ inserted' = inserted \ {s}
    /\ UNCHANGED <<handoff, workflow, attended>>

-----------------------------------------------------------------------------
(* A person takes the conversation over, and gives it back.                *)
ClaimHandoff(m) ==
    /\ handoff[m] = "requested"
    /\ handoff' = [handoff EXCEPT ![m] = "claimed"]
    /\ workflow' = [workflow EXCEPT ![ConversationOf[m]] = "human_active"]
    /\ attended' = attended \cup {ConversationOf[m]}
    /\ UNCHANGED sessionVars

ResolveHandoff(m) ==
    /\ handoff[m] = "claimed"
    /\ handoff' = [handoff EXCEPT ![m] = "resolved"]
    /\ workflow' = [workflow EXCEPT ![ConversationOf[m]] = "resolved"]
    /\ attended' = attended \cup {ConversationOf[m]}
    /\ UNCHANGED sessionVars

HandoffNext ==
    \/ \E s \in Sessions : \/ \E m \in Messages : BeginRequest(s, m)
                           \/ InsertHandoff(s)
                           \/ SelectExisting(s)
                           \/ UpdateAndCommit(s)
                           \/ Rollback(s)
    \/ \E m \in Messages : ClaimHandoff(m) \/ ResolveHandoff(m)

HandoffSpec == HandoffInit /\ [][HandoffNext]_handoffVars

-----------------------------------------------------------------------------
(* Competing requests of a conversation converge: however they interleave  *)
(* with each other and with the operators, one handoff is open at a time.  *)
OneOpenHandoff ==
    \A m, n \in Messages :
        Open(m) /\ Open(n) /\ ConversationOf[m] = ConversationOf[n] => m = n

(* The handoff and the state of its conversation commit together, also     *)
(* when requests compete, fail or die: in a conversation no operator has   *)
(* acted in, Piki waits for a person exactly when a handoff is open.       *)
NeedsHumanIffOpen ==
    \A c \in Conversations \ attended :
        workflow[c] = "needs_human" <=> OpenIn(c) # {}

=============================================================================
