------------------------ MODULE ReplyAgreementProofs ------------------------
(***************************************************************************)
(* The guarantees of the conversation lock in MessagePipeline: a worker    *)
(* that is composing holds the lease unless it ran out, and what Meta was  *)
(* sent is what the history stores.                                        *)
(***************************************************************************)
EXTENDS MessagePipelineProofs

Composing == {"handoff", "compose", "record"}
Composed == {"release", "claim", "post"}

(* The stored reply, as a worker before and after record_outbound sees it. *)
ComposerOK(w) ==
    /\ pc[w] \in Composing /\ msg[w] \notin overrun => reply[msg[w]] = None
    /\ pc[w] \in Composed => /\ reply[msg[w]] # None
                             /\ msg[w] \notin overrun => text[w] = reply[msg[w]]

ReplyInv ==
    /\ \A w \in Workers : ComposerOK(w)
    /\ PostedReplyIsStored

(* The handoff is durable once a worker is past it, and while a reply that *)
(* confirms it is stored.                                                  *)
HandoffInv ==
    /\ \A w \in Workers :
          pc[w] \in {"compose", "record"} /\ msg[w] \in HandoffMessages
              => conversation[Conv(w)] = "needs_human"
    /\ \A m \in HandoffMessages :
          reply[m] # None => conversation[ConversationOf[m]] = "needs_human"

-----------------------------------------------------------------------------
(* A step that leaves the leases alone and moves no worker into the        *)
(* critical section keeps every holder its lease.                          *)
LEMMA LeaseQuiet ==
    ASSUME TypeOK, LeaseProtectsHolder, UNCHANGED <<lease, overrun>>,
           \A w \in Workers :
               \/ pc'[w] \notin Locked
               \/ pc[w] \in Locked /\ msg'[w] = msg[w]
    PROVE  LeaseProtectsHolder'
  BY DEF LeaseProtectsHolder, Conv

(* No step takes the lease of a holder that has not overrun it.            *)
LEMMA LeaseNext ==
    TypeOK /\ LeaseProtectsHolder /\ [Next]_pipelineVars => LeaseProtectsHolder'
<1> SUFFICES ASSUME TypeOK, LeaseProtectsHolder, [Next]_pipelineVars
             PROVE LeaseProtectsHolder'
  OBVIOUS
<1> USE PipelineAssumption, NoneAssumption
<1> USE DEF TypeOK, WorkerTypeOK, locals, workerVars, Locked
<1>1. ASSUME NEW m \in Messages, Ingest(m)
      PROVE LeaseProtectsHolder'
  BY <1>1, LeaseQuiet DEF Ingest
<1>2. ASSUME NEW m \in Messages, RetryBecomesDue(m)
      PROVE LeaseProtectsHolder'
  BY <1>2, LeaseQuiet DEF RetryBecomesDue
<1>3. ASSUME NEW m \in Messages, ClaimBecomesStale(m)
      PROVE LeaseProtectsHolder'
  BY <1>3, LeaseQuiet DEF ClaimBecomesStale
<1>4. ASSUME NEW m \in Messages, NEW s \in Callbacks, ProviderCallback(m, s)
      PROVE LeaseProtectsHolder'
  BY <1>4, LeaseQuiet DEF ProviderCallback
<1>5. ASSUME NEW c \in Conversations, LeaseExpires(c)
      PROVE LeaseProtectsHolder'
  <2>1. /\ lease' = [lease EXCEPT ![c] = None]
        /\ overrun \subseteq overrun'
        /\ UNCHANGED <<pc, msg>>
    BY <1>5 DEF LeaseExpires, Expire
  <2>2. ASSUME NEW v \in Workers, pc'[v] \in Locked, msg'[v] \notin overrun'
        PROVE lease'[Conv(v)'] = v
    <3>1. msg[v] \in Messages
      BY <2>1, <2>2 DEF LocalsOK, Locked
    <3>2. lease[Conv(v)] = v /\ Conv(v)' = Conv(v)
      BY <2>1, <2>2 DEF LeaseProtectsHolder, Conv
    <3>3. Conv(v) # c
      BY <1>5, <2>1, <2>2, <3>1, <3>2 DEF LeaseExpires, Conv
    <3> QED
      BY <2>1, <3>2, <3>3 DEF LockTypeOK
  <2> QED
    BY <2>2 DEF LeaseProtectsHolder, Conv
<1>6. ASSUME NEW w \in Workers, Crash(w)
      PROVE LeaseProtectsHolder'
  BY <1>6, LeaseQuiet DEF Crash, EndJob, Goto
<1>7. ASSUME NEW w \in Workers, Restart(w)
      PROVE LeaseProtectsHolder'
  BY <1>7, LeaseQuiet DEF Restart, Goto
<1>8. ASSUME NEW w \in Workers, NEW m \in Messages, ClaimMessage(w, m)
      PROVE LeaseProtectsHolder'
  BY <1>8, LeaseQuiet DEF ClaimMessage, Goto
<1>9. ASSUME NEW w \in Workers, AcquireLease(w)
      PROVE LeaseProtectsHolder'
  <2>1. /\ msg[w] \in Messages
        /\ lease[Conv(w)] = None
        /\ lease' = [lease EXCEPT ![Conv(w)] = w]
        /\ pc' = [pc EXCEPT ![w] = "find"]
        /\ UNCHANGED <<msg, overrun>>
    BY <1>9 DEF AcquireLease, Acquire, Goto, LocalsOK
  <2>2. ASSUME NEW v \in Workers, pc'[v] \in Locked, msg'[v] \notin overrun'
        PROVE lease'[Conv(v)'] = v
    <3>1. CASE v = w
      BY <2>1, <3>1 DEF Conv, LockTypeOK
    <3>2. CASE v # w
      <4>1. lease[Conv(v)] = v /\ Conv(v)' = Conv(v)
        BY <2>1, <2>2, <3>2 DEF LeaseProtectsHolder, Conv
      <4> QED
        BY <2>1, <4>1 DEF LockTypeOK
    <3> QED
      BY <3>1, <3>2
  <2> QED
    BY <2>2 DEF LeaseProtectsHolder, Conv
<1>10. ASSUME NEW w \in Workers, ConversationBusy(w)
      PROVE LeaseProtectsHolder'
  <2>1. /\ msg[w] \in Messages
        /\ lease' = lease \/ (lease[Conv(w)] = None
                              /\ lease' = [lease EXCEPT ![Conv(w)] = w])
        /\ pc' = [pc EXCEPT ![w] = "fail"]
        /\ UNCHANGED <<msg, overrun>>
    BY <1>10 DEF ConversationBusy, AcquireRefused, Acquire, Goto, LocalsOK
  <2>2. ASSUME NEW v \in Workers, pc'[v] \in Locked, msg'[v] \notin overrun'
        PROVE lease'[Conv(v)'] = v
    <3>1. v # w
      BY <2>1, <2>2 DEF Locked
    <3>2. lease[Conv(v)] = v /\ Conv(v)' = Conv(v)
      BY <2>1, <2>2, <3>1 DEF LeaseProtectsHolder, Conv
    <3>3. Conv(v) \in Conversations /\ Conv(w) \in Conversations
      BY <2>1, <2>2 DEF Conv, LocalsOK
    <3>4. CASE lease' = lease
      BY <3>2, <3>4
    <3>5. CASE lease' # lease
      BY <2>1, <3>2, <3>3, <3>5 DEF LockTypeOK
    <3> QED
      BY <3>4, <3>5
  <2> QED
    BY <2>2 DEF LeaseProtectsHolder, Conv
<1>11. ASSUME NEW w \in Workers, FindReply(w)
      PROVE LeaseProtectsHolder'
  BY <1>11, LeaseQuiet DEF FindReply, ComposeEntry, Goto
<1>12. ASSUME NEW w \in Workers, RequestHandoff(w)
      PROVE LeaseProtectsHolder'
  BY <1>12, LeaseQuiet DEF RequestHandoff, Goto
<1>13. ASSUME NEW w \in Workers, ComposeReply(w)
      PROVE LeaseProtectsHolder'
  BY <1>13, LeaseQuiet DEF ComposeReply, Goto
<1>14. ASSUME NEW w \in Workers, RecordOutbound(w)
      PROVE LeaseProtectsHolder'
  BY <1>14, LeaseQuiet DEF RecordOutbound, Goto
<1>15. ASSUME NEW w \in Workers, ReleaseLease(w)
      PROVE LeaseProtectsHolder'
  <2>1. /\ msg[w] \in Messages
        /\ \/ lease' = lease
           \/ lease' = [lease EXCEPT ![Conv(w)] = IF @ = w THEN None ELSE @]
        /\ pc'[w] \notin Locked
        /\ \A v \in Workers : v # w => pc'[v] = pc[v]
        /\ UNCHANGED <<msg, overrun>>
    BY <1>15 DEF ReleaseLease, Release, ReleaseUnavailable, Goto, LocalsOK, Locked
  <2>2. ASSUME NEW v \in Workers, pc'[v] \in Locked, msg'[v] \notin overrun'
        PROVE lease'[Conv(v)'] = v
    <3>1. v # w
      BY <2>1, <2>2
    <3>2. lease[Conv(v)] = v /\ Conv(v)' = Conv(v)
      BY <2>1, <2>2, <3>1 DEF LeaseProtectsHolder, Conv
    <3>3. Conv(v) \in Conversations /\ Conv(w) \in Conversations
      BY <2>1, <2>2 DEF Conv, LocalsOK
    <3>4. CASE Conv(v) = Conv(w)
      BY <2>1, <3>1, <3>2, <3>3, <3>4 DEF LockTypeOK
    <3>5. CASE Conv(v) # Conv(w)
      BY <2>1, <3>2, <3>3, <3>5 DEF LockTypeOK
    <3> QED
      BY <3>4, <3>5
  <2> QED
    BY <2>2 DEF LeaseProtectsHolder, Conv
<1>16. ASSUME NEW w \in Workers, ClaimDelivery(w)
      PROVE LeaseProtectsHolder'
  BY <1>16, LeaseQuiet DEF ClaimDelivery, Goto
<1>17. ASSUME NEW w \in Workers, ReplayDelivery(w)
      PROVE LeaseProtectsHolder'
  BY <1>17, LeaseQuiet DEF ReplayDelivery, Goto
<1>18. ASSUME NEW w \in Workers, RequestNotSent(w)
      PROVE LeaseProtectsHolder'
  BY <1>18, LeaseQuiet DEF RequestNotSent, Goto
<1>19. ASSUME NEW w \in Workers, PostToMeta(w)
      PROVE LeaseProtectsHolder'
  BY <1>19, LeaseQuiet DEF PostToMeta, Goto
<1>20. ASSUME NEW w \in Workers, FinalizeAttempt(w)
      PROVE LeaseProtectsHolder'
  BY <1>20, LeaseQuiet DEF FinalizeAttempt, Goto
<1>21. ASSUME NEW w \in Workers, SettleClaim(w)
      PROVE LeaseProtectsHolder'
  BY <1>21, LeaseQuiet DEF SettleClaim, EndJob, Goto
<1>22. ASSUME NEW w \in Workers, FailClaim(w)
      PROVE LeaseProtectsHolder'
  BY <1>22, LeaseQuiet DEF FailClaim, EndJob, Goto
<1>23. ASSUME NEW w \in Workers, ClaimLost(w)
      PROVE LeaseProtectsHolder'
  BY <1>23, LeaseQuiet DEF ClaimLost, EndJob, Goto
<1>24. ASSUME NEW w \in Workers, StepRaises(w)
      PROVE LeaseProtectsHolder'
  BY <1>24, LeaseQuiet DEF StepRaises, Goto
<1>25. CASE UNCHANGED pipelineVars
  BY <1>25, LeaseQuiet DEF pipelineVars
<1> QED
  BY <1>1, <1>2, <1>3, <1>4, <1>5, <1>6, <1>7, <1>8, <1>9,
     <1>10, <1>11, <1>12, <1>13, <1>14, <1>15, <1>16, <1>17, <1>18,
     <1>19, <1>20, <1>21, <1>22, <1>23, <1>24, <1>25
  DEF Next, WorkerStep

(* For any instance, a worker between acquire and release owns the lock of *)
(* its conversation unless its lease ran out.                              *)
THEOREM LeaseProtected == Spec => []LeaseProtectsHolder
<1>1. Init => LeaseProtectsHolder
  BY DEF Init, LeaseProtectsHolder, Locked
<1> QED
  BY <1>1, TypeCorrect, LeaseNext, PTL DEF Spec

-----------------------------------------------------------------------------
(* A step that leaves replies and requests alone, forgets no overrun and   *)
(* moves no worker into or past composition preserves ReplyInv.            *)
LEMMA ReplyQuiet ==
    ASSUME TypeOK, ReplyInv, UNCHANGED <<reply, sent>>,
           overrun \subseteq overrun',
           \A w \in Workers :
               \/ pc'[w] \notin Composing \cup Composed
               \/ /\ msg'[w] = msg[w]
                  /\ pc'[w] \in Composing /\ pc[w] \in Composing
               \/ /\ msg'[w] = msg[w] /\ text'[w] = text[w]
                  /\ pc'[w] \in Composed /\ pc[w] \in Composed
    PROVE  ReplyInv'
<1>1. ASSUME NEW w \in Workers PROVE ComposerOK(w)'
  BY DEF ReplyInv, ComposerOK, Composing, Composed
<1>2. PostedReplyIsStored'
  BY DEF ReplyInv, PostedReplyIsStored
<1> QED
  BY <1>1, <1>2 DEF ReplyInv

(* Every step preserves ReplyInv, given the lease of its holder.           *)
LEMMA ReplyNext ==
    TypeOK /\ LeaseProtectsHolder /\ ReplyInv /\ [Next]_pipelineVars => ReplyInv'
<1> SUFFICES ASSUME TypeOK, LeaseProtectsHolder, ReplyInv, [Next]_pipelineVars
             PROVE ReplyInv'
  OBVIOUS
<1> USE PipelineAssumption, NoneAssumption
<1> USE DEF TypeOK, WorkerTypeOK, locals, workerVars, storeVars
<1>1. ASSUME NEW m \in Messages, Ingest(m)
      PROVE ReplyInv'
  BY <1>1, ReplyQuiet DEF Composing, Composed, Ingest
<1>2. ASSUME NEW m \in Messages, RetryBecomesDue(m)
      PROVE ReplyInv'
  BY <1>2, ReplyQuiet DEF Composing, Composed, RetryBecomesDue
<1>3. ASSUME NEW m \in Messages, ClaimBecomesStale(m)
      PROVE ReplyInv'
  BY <1>3, ReplyQuiet DEF Composing, Composed, ClaimBecomesStale
<1>4. ASSUME NEW m \in Messages, NEW s \in Callbacks, ProviderCallback(m, s)
      PROVE ReplyInv'
  BY <1>4, ReplyQuiet DEF Composing, Composed, ProviderCallback
<1>5. ASSUME NEW c \in Conversations, LeaseExpires(c)
      PROVE ReplyInv'
  BY <1>5, ReplyQuiet DEF Composing, Composed, LeaseExpires
<1>6. ASSUME NEW w \in Workers, Crash(w)
      PROVE ReplyInv'
  BY <1>6, ReplyQuiet DEF Composing, Composed, Crash, EndJob, Goto
<1>7. ASSUME NEW w \in Workers, Restart(w)
      PROVE ReplyInv'
  BY <1>7, ReplyQuiet DEF Composing, Composed, Restart, Goto
<1>8. ASSUME NEW w \in Workers, NEW m \in Messages, ClaimMessage(w, m)
      PROVE ReplyInv'
  BY <1>8, ReplyQuiet DEF Composing, Composed, ClaimMessage, Goto
<1>9. ASSUME NEW w \in Workers, AcquireLease(w)
      PROVE ReplyInv'
  BY <1>9, ReplyQuiet DEF Composing, Composed, AcquireLease, Goto
<1>10. ASSUME NEW w \in Workers, ConversationBusy(w)
      PROVE ReplyInv'
  BY <1>10, ReplyQuiet DEF Composing, Composed, ConversationBusy, Goto
<1>11. ASSUME NEW w \in Workers, FindReply(w)
      PROVE ReplyInv'
  <2>1. msg[w] \in Messages
    BY <1>11 DEF FindReply, LocalsOK
  <2>2. /\ pc[w] = "find"
        /\ UNCHANGED <<msg, reply, sent, overrun>>
    BY <1>11 DEF FindReply
  <2>3. CASE reply[msg[w]] # None
    <3>1. /\ pc' = [pc EXCEPT ![w] = "release"]
          /\ text' = [text EXCEPT ![w] = reply[msg[w]]]
      BY <1>11, <2>3 DEF FindReply, Goto
    <3>2. ASSUME NEW v \in Workers PROVE ComposerOK(v)'
      BY <2>2, <2>3, <3>1 DEF ReplyInv, ComposerOK, Composing, Composed
    <3> QED
      BY <2>2, <3>2 DEF ReplyInv, PostedReplyIsStored
  <2>4. CASE reply[msg[w]] = None
    <3>1. /\ pc' = [pc EXCEPT ![w] = ComposeEntry(msg[w])]
          /\ UNCHANGED text
      BY <1>11, <2>4 DEF FindReply, Goto
    <3>2. ComposeEntry(msg[w]) \in Composing
      BY DEF ComposeEntry, Composing
    <3>3. ASSUME NEW v \in Workers PROVE ComposerOK(v)'
      BY <2>2, <2>4, <3>1, <3>2 DEF ReplyInv, ComposerOK, Composing, Composed
    <3> QED
      BY <2>2, <3>3 DEF ReplyInv, PostedReplyIsStored
  <2> QED
    BY <2>3, <2>4
<1>12. ASSUME NEW w \in Workers, RequestHandoff(w)
      PROVE ReplyInv'
  BY <1>12, ReplyQuiet DEF Composing, Composed, RequestHandoff, Goto
<1>13. ASSUME NEW w \in Workers, ComposeReply(w)
      PROVE ReplyInv'
  BY <1>13, ReplyQuiet DEF Composing, Composed, ComposeReply, Goto
<1>14. ASSUME NEW w \in Workers, RecordOutbound(w)
      PROVE ReplyInv'
  <2> DEFINE m == msg[w]
  <2>1. m \in Messages /\ text[w] \in Texts
    BY <1>14 DEF RecordOutbound, LocalsOK
  <2>2. /\ pc[w] = "record"
        /\ pc' = [pc EXCEPT ![w] = "release"]
        /\ reply' = [reply EXCEPT ![m] = IF @ = None THEN text[w] ELSE @]
        /\ UNCHANGED <<msg, text, sent, overrun>>
    BY <1>14 DEF RecordOutbound, Goto
  <2>3. /\ \A n \in Messages : n # m => reply'[n] = reply[n]
        /\ reply[m] # None => reply'[m] = reply[m]
        /\ reply[m] = None => reply'[m] = text[w]
        /\ reply'[m] # None
    BY <2>1, <2>2 DEF StoreTypeOK
  <2>4. m \notin overrun => reply[m] = None /\ lease[Conv(w)] = w
    BY <2>2 DEF ReplyInv, ComposerOK, Composing, LeaseProtectsHolder, Locked
  <2>5. ASSUME NEW v \in Workers PROVE ComposerOK(v)'
    <3>1. CASE v = w
      BY <2>2, <2>3, <2>4, <3>1 DEF ComposerOK, Composing
    <3>2. CASE v # w /\ msg[v] = m
      <4>1. pc[v] \in Composing => m \in overrun
        BY <2>4, <3>2 DEF Composing, LeaseProtectsHolder, Locked, Conv
      <4> QED
        BY <2>2, <2>3, <2>4, <3>2, <4>1 DEF ReplyInv, ComposerOK
    <3>3. CASE v # w /\ msg[v] # m
      <4>1. pc[v] \in Composing \cup Composed => msg[v] \in Messages
        BY DEF Composing, Composed, LocalsOK
      <4> QED
        BY <2>2, <2>3, <3>3, <4>1 DEF ReplyInv, ComposerOK
    <3> QED
      BY <3>1, <3>2, <3>3
  <2>6. PostedReplyIsStored'
    BY <2>2, <2>3 DEF ReplyInv, PostedReplyIsStored
  <2> QED
    BY <2>5, <2>6 DEF ReplyInv
<1>15. ASSUME NEW w \in Workers, ReleaseLease(w)
      PROVE ReplyInv'
  BY <1>15, ReplyQuiet DEF Composing, Composed, ReleaseLease, Goto
<1>16. ASSUME NEW w \in Workers, ClaimDelivery(w)
      PROVE ReplyInv'
  BY <1>16, ReplyQuiet DEF Composing, Composed, ClaimDelivery, Goto
<1>17. ASSUME NEW w \in Workers, ReplayDelivery(w)
      PROVE ReplyInv'
  BY <1>17, ReplyQuiet DEF Composing, Composed, ReplayDelivery, Goto
<1>18. ASSUME NEW w \in Workers, RequestNotSent(w)
      PROVE ReplyInv'
  BY <1>18, ReplyQuiet DEF Composing, Composed, RequestNotSent, Goto
<1>19. ASSUME NEW w \in Workers, PostToMeta(w)
      PROVE ReplyInv'
  <2> DEFINE m == msg[w]
  <2>1. m \in Messages /\ text[w] \in Texts
    BY <1>19 DEF PostToMeta, LocalsOK
  <2>2. /\ pc[w] = "post"
        /\ pc' = [pc EXCEPT ![w] = "finalize"]
        /\ sent' = [sent EXCEPT ![m] = Append(@, text[w])]
        /\ UNCHANGED <<msg, text, reply, overrun>>
    BY <1>19 DEF PostToMeta, Goto, storeVars
  <2>3. ASSUME NEW v \in Workers PROVE ComposerOK(v)'
    BY <2>2 DEF ReplyInv, ComposerOK, Composing, Composed
  <2>4. reply[m] # None /\ (m \notin overrun => text[w] = reply[m])
    BY <2>2 DEF ReplyInv, ComposerOK, Composed
  <2>5. ASSUME NEW n \in Messages, NEW i \in 1..Len(sent'[n])
        PROVE reply[n] # None /\ (n \notin overrun => sent'[n][i] = reply[n])
    <3>1. CASE n # m
      BY <2>2, <2>5, <3>1 DEF ReplyInv, PostedReplyIsStored
    <3>2. CASE n = m
      <4>1. sent'[n] = Append(sent[n], text[w]) /\ sent[n] \in Seq(Texts)
        BY <2>1, <2>2, <3>2
      <4>2. CASE i = Len(sent[n]) + 1
        BY <2>4, <3>2, <4>1, <4>2
      <4>3. CASE i # Len(sent[n]) + 1
        <5>1. i \in 1..Len(sent[n]) /\ sent'[n][i] = sent[n][i]
          BY <2>1, <2>5, <4>1, <4>3
        <5> QED
          BY <5>1 DEF ReplyInv, PostedReplyIsStored
      <4> QED
        BY <4>2, <4>3
    <3> QED
      BY <3>1, <3>2
  <2> QED
    BY <2>2, <2>3, <2>5 DEF ReplyInv, PostedReplyIsStored
<1>20. ASSUME NEW w \in Workers, FinalizeAttempt(w)
      PROVE ReplyInv'
  BY <1>20, ReplyQuiet DEF Composing, Composed, FinalizeAttempt, Goto
<1>21. ASSUME NEW w \in Workers, SettleClaim(w)
      PROVE ReplyInv'
  BY <1>21, ReplyQuiet DEF Composing, Composed, SettleClaim, EndJob, Goto
<1>22. ASSUME NEW w \in Workers, FailClaim(w)
      PROVE ReplyInv'
  BY <1>22, ReplyQuiet DEF Composing, Composed, FailClaim, EndJob, Goto
<1>23. ASSUME NEW w \in Workers, ClaimLost(w)
      PROVE ReplyInv'
  BY <1>23, ReplyQuiet DEF Composing, Composed, ClaimLost, EndJob, Goto
<1>24. ASSUME NEW w \in Workers, StepRaises(w)
      PROVE ReplyInv'
  BY <1>24, ReplyQuiet DEF Composing, Composed, StepRaises, Goto
<1>25. CASE UNCHANGED pipelineVars
  BY <1>25, ReplyQuiet DEF Composing, Composed, pipelineVars
<1> QED
  BY <1>1, <1>2, <1>3, <1>4, <1>5, <1>6, <1>7, <1>8, <1>9,
     <1>10, <1>11, <1>12, <1>13, <1>14, <1>15, <1>16, <1>17, <1>18,
     <1>19, <1>20, <1>21, <1>22, <1>23, <1>24, <1>25
  DEF Next, WorkerStep

(* For any instance, a posted reply is the stored one unless the lease of  *)
(* its message ran out during composition.                                 *)
THEOREM PostedIsStored == Spec => []PostedReplyIsStored
<1>1. Init => ReplyInv
  BY DEF Init, ReplyInv, ComposerOK, PostedReplyIsStored, Composing, Composed
<1>2. ReplyInv => PostedReplyIsStored
  BY DEF ReplyInv
<1> QED
  BY <1>1, <1>2, TypeCorrect, LeaseProtected, ReplyNext, PTL DEF Spec

-----------------------------------------------------------------------------
(* A step that leaves replies and conversations alone and moves no worker  *)
(* into composition preserves HandoffInv.                                  *)
LEMMA HandoffQuiet ==
    ASSUME TypeOK, HandoffInv, UNCHANGED <<reply, conversation>>,
           \A w \in Workers :
               \/ pc'[w] \notin {"compose", "record"}
               \/ pc[w] \in {"compose", "record"} /\ msg'[w] = msg[w]
    PROVE  HandoffInv'
  BY DEF HandoffInv, Conv

(* Every step preserves HandoffInv.                                        *)
LEMMA HandoffNext == TypeOK /\ HandoffInv /\ [Next]_pipelineVars => HandoffInv'
<1> SUFFICES ASSUME TypeOK, HandoffInv, [Next]_pipelineVars PROVE HandoffInv'
  OBVIOUS
<1> USE PipelineAssumption
<1> USE DEF TypeOK, WorkerTypeOK, locals, workerVars, storeVars
<1>1. ASSUME NEW m \in Messages, Ingest(m)
      PROVE HandoffInv'
  BY <1>1, HandoffQuiet DEF Ingest
<1>2. ASSUME NEW m \in Messages, RetryBecomesDue(m)
      PROVE HandoffInv'
  BY <1>2, HandoffQuiet DEF RetryBecomesDue
<1>3. ASSUME NEW m \in Messages, ClaimBecomesStale(m)
      PROVE HandoffInv'
  BY <1>3, HandoffQuiet DEF ClaimBecomesStale
<1>4. ASSUME NEW m \in Messages, NEW s \in Callbacks, ProviderCallback(m, s)
      PROVE HandoffInv'
  BY <1>4, HandoffQuiet DEF ProviderCallback
<1>5. ASSUME NEW c \in Conversations, LeaseExpires(c)
      PROVE HandoffInv'
  BY <1>5, HandoffQuiet DEF LeaseExpires
<1>6. ASSUME NEW w \in Workers, Crash(w)
      PROVE HandoffInv'
  BY <1>6, HandoffQuiet DEF Crash, EndJob, Goto
<1>7. ASSUME NEW w \in Workers, Restart(w)
      PROVE HandoffInv'
  BY <1>7, HandoffQuiet DEF Restart, Goto
<1>8. ASSUME NEW w \in Workers, NEW m \in Messages, ClaimMessage(w, m)
      PROVE HandoffInv'
  BY <1>8, HandoffQuiet DEF ClaimMessage, Goto
<1>9. ASSUME NEW w \in Workers, AcquireLease(w)
      PROVE HandoffInv'
  BY <1>9, HandoffQuiet DEF AcquireLease, Goto
<1>10. ASSUME NEW w \in Workers, ConversationBusy(w)
      PROVE HandoffInv'
  BY <1>10, HandoffQuiet DEF ConversationBusy, Goto
<1>11. ASSUME NEW w \in Workers, FindReply(w)
      PROVE HandoffInv'
  <2>1. msg[w] \in Messages /\ pc[w] = "find"
    BY <1>11 DEF FindReply, LocalsOK
  <2>2. /\ UNCHANGED <<msg, reply, conversation>>
        /\ \/ pc' = [pc EXCEPT ![w] = "release"]
           \/ pc' = [pc EXCEPT ![w] = ComposeEntry(msg[w])]
    BY <1>11 DEF FindReply, Goto
  <2>3. msg[w] \in HandoffMessages => ComposeEntry(msg[w]) = "handoff"
    BY DEF ComposeEntry
  <2> QED
    BY <2>2, <2>3 DEF HandoffInv, Conv
<1>12. ASSUME NEW w \in Workers, RequestHandoff(w)
      PROVE HandoffInv'
  <2>1. msg[w] \in Messages
    BY <1>12 DEF RequestHandoff, LocalsOK
  <2>2. /\ conversation' = [conversation EXCEPT ![Conv(w)] = "needs_human"]
        /\ pc' = [pc EXCEPT ![w] = "compose"]
        /\ UNCHANGED <<msg, reply>>
    BY <1>12 DEF RequestHandoff, Goto
  <2>3. /\ \A c \in Conversations :
              conversation[c] = "needs_human" => conversation'[c] = "needs_human"
        /\ conversation'[Conv(w)] = "needs_human"
    BY <2>1, <2>2 DEF StoreTypeOK, Conv
  <2>4. ASSUME NEW v \in Workers, pc'[v] \in {"compose", "record"},
               msg'[v] \in HandoffMessages
        PROVE conversation'[Conv(v)'] = "needs_human"
    BY <2>2, <2>3, <2>4 DEF HandoffInv, Conv
  <2>5. ASSUME NEW n \in HandoffMessages, reply'[n] # None
        PROVE conversation'[ConversationOf[n]] = "needs_human"
    BY <2>2, <2>3, <2>5 DEF HandoffInv
  <2> QED
    BY <2>4, <2>5 DEF HandoffInv, Conv
<1>13. ASSUME NEW w \in Workers, ComposeReply(w)
      PROVE HandoffInv'
  BY <1>13, HandoffQuiet DEF ComposeReply, Goto
<1>14. ASSUME NEW w \in Workers, RecordOutbound(w)
      PROVE HandoffInv'
  <2>1. msg[w] \in Messages /\ pc[w] = "record"
    BY <1>14 DEF RecordOutbound, LocalsOK
  <2>2. /\ pc' = [pc EXCEPT ![w] = "release"]
        /\ \A n \in Messages : n # msg[w] => reply'[n] = reply[n]
        /\ UNCHANGED <<msg, conversation>>
    BY <1>14 DEF RecordOutbound, Goto, StoreTypeOK
  <2> QED
    BY <2>1, <2>2 DEF HandoffInv, Conv
<1>15. ASSUME NEW w \in Workers, ReleaseLease(w)
      PROVE HandoffInv'
  BY <1>15, HandoffQuiet DEF ReleaseLease, Goto
<1>16. ASSUME NEW w \in Workers, ClaimDelivery(w)
      PROVE HandoffInv'
  BY <1>16, HandoffQuiet DEF ClaimDelivery, Goto
<1>17. ASSUME NEW w \in Workers, ReplayDelivery(w)
      PROVE HandoffInv'
  BY <1>17, HandoffQuiet DEF ReplayDelivery, Goto
<1>18. ASSUME NEW w \in Workers, RequestNotSent(w)
      PROVE HandoffInv'
  BY <1>18, HandoffQuiet DEF RequestNotSent, Goto
<1>19. ASSUME NEW w \in Workers, PostToMeta(w)
      PROVE HandoffInv'
  BY <1>19, HandoffQuiet DEF PostToMeta, Goto
<1>20. ASSUME NEW w \in Workers, FinalizeAttempt(w)
      PROVE HandoffInv'
  BY <1>20, HandoffQuiet DEF FinalizeAttempt, Goto
<1>21. ASSUME NEW w \in Workers, SettleClaim(w)
      PROVE HandoffInv'
  BY <1>21, HandoffQuiet DEF SettleClaim, EndJob, Goto
<1>22. ASSUME NEW w \in Workers, FailClaim(w)
      PROVE HandoffInv'
  BY <1>22, HandoffQuiet DEF FailClaim, EndJob, Goto
<1>23. ASSUME NEW w \in Workers, ClaimLost(w)
      PROVE HandoffInv'
  BY <1>23, HandoffQuiet DEF ClaimLost, EndJob, Goto
<1>24. ASSUME NEW w \in Workers, StepRaises(w)
      PROVE HandoffInv'
  BY <1>24, HandoffQuiet DEF StepRaises, Goto
<1>25. CASE UNCHANGED pipelineVars
  BY <1>25, HandoffQuiet DEF pipelineVars
<1> QED
  BY <1>1, <1>2, <1>3, <1>4, <1>5, <1>6, <1>7, <1>8, <1>9,
     <1>10, <1>11, <1>12, <1>13, <1>14, <1>15, <1>16, <1>17, <1>18,
     <1>19, <1>20, <1>21, <1>22, <1>23, <1>24, <1>25
  DEF Next, WorkerStep

(* For any instance, a confirmation of a handoff is stored or sent only    *)
(* when the handoff is durable.                                            *)
THEOREM HandoffIsDurable == Spec => []HandoffBeforeConfirmation
<1>1. Init => HandoffInv
  BY PipelineAssumption DEF Init, HandoffInv
<1>2. TypeOK /\ PostedReplyIsStored /\ HandoffInv => HandoffBeforeConfirmation
  <2> SUFFICES ASSUME TypeOK, PostedReplyIsStored, HandoffInv,
                      NEW m \in HandoffMessages, sent[m] # <<>>
               PROVE  reply[m] # None
    BY DEF HandoffInv, HandoffBeforeConfirmation
  <2>1. m \in Messages /\ sent[m] \in Seq(Texts)
    BY PipelineAssumption DEF TypeOK
  <2>2. 1 \in 1..Len(sent[m])
    BY <2>1
  <2> QED
    BY <2>1, <2>2 DEF PostedReplyIsStored
<1> QED
  BY <1>1, <1>2, TypeCorrect, PostedIsStored, HandoffNext, PTL DEF Spec

=============================================================================
