----------------------- MODULE ExternalServicesProofs -----------------------
(***************************************************************************)
(* What the components that talk to a service say about its answers is     *)
(* true, for any picks, orders, texts, limits and answers: the composition *)
(* of a reply, the lookup of an order and the delivery of a message.  Each *)
(* has an inductive invariant of its own, named after it; the retry loops  *)
(* of the first two share a lemma about sequences of answers.              *)
(***************************************************************************)
EXTENDS ExternalServices, TLAPS

-----------------------------------------------------------------------------
(* The answers of a retry loop: the ones before the last were worth        *)
(* another attempt, and there are no more of them than the budget allows.  *)
LoopOK(answers, R, n) ==
    /\ Len(answers) <= n
    /\ \A i \in 1..(Len(answers) - 1) : answers[i] \in R

(* One more request, made only while the loop goes on, keeps the bounds.   *)
LEMMA LoopStep ==
    ASSUME NEW S, NEW R, NEW n \in Nat \ {0}, NEW s \in Seq(S), NEW a \in S,
           LoopOK(s, R, n),
           s # <<>> => s[Len(s)] \in R /\ Len(s) < n
    PROVE  /\ Append(s, a) \in Seq(S)
           /\ Append(s, a) # <<>>
           /\ Append(s, a)[Len(Append(s, a))] = a
           /\ LoopOK(Append(s, a), R, n)
<1> DEFINE t == Append(s, a)
<1>1. /\ t \in Seq(S) /\ t # <<>>
      /\ Len(t) = Len(s) + 1 /\ Len(s) \in Nat
      /\ t[Len(s) + 1] = a
      /\ \A i \in 1..Len(s) : t[i] = s[i]
  OBVIOUS
<1> HIDE DEF t
<1>2. s = <<>> => Len(s) = 0
  OBVIOUS
<1>3. Len(t) <= n
  BY <1>1, <1>2
<1>4. ASSUME NEW i \in 1..(Len(t) - 1) PROVE t[i] \in R
  <2>1. i \in 1..Len(s)
    BY <1>1
  <2>2. s # <<>>
    BY <1>1, <1>2, <2>1
  <2>3. i = Len(s) \/ i \in 1..(Len(s) - 1)
    BY <1>1, <2>1
  <2> QED BY <1>1, <2>1, <2>2, <2>3 DEF LoopOK
<1> QED BY <1>1, <1>3, <1>4 DEF LoopOK, t

-----------------------------------------------------------------------------
(* The lookup of an order, for any orders, owners and proofs.              *)

Transient == {"timeout", "http_429", "http_500", "http_503"}

(* A request is made with one proof, which it carries.                     *)
ProofOK ==
    /\ lookup = "check" => replies = <<>>
    /\ lookup = "request" => /\ ProofGiven
                             /\ params = OwnershipParam
                             /\ Http!InProgress
    /\ replies # <<>> => ProofGiven
    /\ lookup # "done" => outcome.facts = {}

LookupInv ==
    /\ LookupTypeOK
    /\ LookupIsBounded
    /\ ProofOK
    /\ OnlyOwnedOrdersAreTold

(* Initially nothing was asked of BuenPick.                                *)
LEMMA LookupInvInit ==
    ASSUME LookupInit
    PROVE  LookupInv
<1>1. LookupTypeOK
  BY DEF LookupInit, LookupTypeOK, NoParams, Given, Asked
<1>2. LookupIsBounded
  BY OrderAssumption DEF LookupInit, LookupIsBounded
<1>3. ProofOK
  BY DEF LookupInit, ProofOK
<1>4. OnlyOwnedOrdersAreTold
  BY DEF LookupInit, OnlyOwnedOrdersAreTold
<1> QED BY <1>1, <1>2, <1>3, <1>4 DEF LookupInv

(* The check lets a request through with exactly one proof.                *)
LEMMA CheckOwnershipInv ==
    ASSUME LookupInv, CheckOwnership
    PROVE  LookupInv'
<1>0. /\ lookup = "check" /\ replies = <<>> /\ replies' = <<>>
      /\ outcome.facts = {} /\ asked' = asked /\ asked \in Asked
  BY DEF CheckOwnership, LookupInv, ProofOK, LookupTypeOK
<1>1. LookupIsBounded'
  BY <1>0 DEF LookupInv, LookupIsBounded
<1>2. CASE ProofGiven
  <2>1. params' = OwnershipParam /\ lookup' = "request" /\ outcome' = outcome
    BY <1>2 DEF CheckOwnership
  <2>2. OwnershipParam \in [name : {"none", "customer_phone", "customer_reference"},
                            value : Given]
    BY <1>0 DEF OwnershipParam, Asked
  <2>3. LookupTypeOK'
    BY <1>0, <2>1, <2>2 DEF LookupInv, LookupTypeOK
  <2>4. ProofOK'
    BY <1>0, <1>2, <2>1 DEF ProofOK, ProofGiven, OwnershipParam, Http!InProgress
  <2>5. OnlyOwnedOrdersAreTold'
    BY <1>0, <2>1 DEF OnlyOwnedOrdersAreTold
  <2> QED BY <1>1, <2>3, <2>4, <2>5 DEF LookupInv
<1>3. CASE ~ProofGiven
  <2>1. /\ params' = params /\ lookup' = "done"
        /\ outcome' = [error |-> "bad_request", facts |-> {}]
    BY <1>3 DEF CheckOwnership, Fail
  <2>2. LookupTypeOK'
    BY <1>0, <2>1 DEF LookupInv, LookupTypeOK, ErrorCode
  <2>3. ProofOK'
    BY <1>0, <2>1 DEF ProofOK
  <2>4. OnlyOwnedOrdersAreTold'
    BY <1>0, <2>1 DEF OnlyOwnedOrdersAreTold
  <2> QED BY <1>1, <2>2, <2>3, <2>4 DEF LookupInv
<1> QED BY <1>2, <1>3

(* An error of BuenPick is an error code.                                  *)
LEMMA ErrorOfType ==
    ASSUME NEW a
    PROVE  ErrorOf(a) \in ErrorCode
BY DEF ErrorOf, ErrorCode

(* The evidence of an order has a pickup code only when the order has.     *)
LEMMA OrderEvidenceFacts ==
    ASSUME NEW order
    PROVE  /\ OrderEvidence(order) \in SUBSET Facts
           /\ OrderEvidence(order) # {}
           /\ "pickup_code" \in OrderEvidence(order) => order \in WithCode
BY DEF OrderEvidence, Facts

(* An answer is a verdict on the proof the request carries, or trouble.    *)
LEMMA AskBuenPickInv ==
    ASSUME LookupInv, NEW a \in Http!HttpAnswer, AskBuenPick(a)
    PROVE  LookupInv'
<1>0. /\ lookup = "request" /\ ProofGiven /\ params = OwnershipParam
      /\ outcome.facts = {} /\ asked \in Asked
      /\ UNCHANGED <<asked, params>>
  BY DEF AskBuenPick, LookupInv, ProofOK, LookupTypeOK
<1>1. /\ replies' \in Seq(Http!HttpAnswer)
      /\ replies' # <<>>
      /\ replies'[Len(replies')] = a
      /\ LookupIsBounded'
  <2>1. LoopOK(replies, Transient, LookupAttempts)
    BY DEF LookupInv, LookupIsBounded, LoopOK, Transient
  <2>2. /\ replies' = Append(replies, a)
        /\ replies # <<>> =>
              replies[Len(replies)] \in Transient /\ Len(replies) < LookupAttempts
    BY DEF AskBuenPick, Http!Attempt, Http!InProgress, Http!Final, Transient
  <2>3. replies \in Seq(Http!HttpAnswer) /\ LookupAttempts \in Nat \ {0}
    BY OrderAssumption DEF LookupInv, LookupTypeOK
  <2>4. /\ replies' \in Seq(Http!HttpAnswer)
        /\ replies' # <<>>
        /\ replies'[Len(replies')] = a
        /\ LoopOK(replies', Transient, LookupAttempts)
    <3>1. /\ Append(replies, a) \in Seq(Http!HttpAnswer)
          /\ Append(replies, a) # <<>>
          /\ Append(replies, a)[Len(Append(replies, a))] = a
          /\ LoopOK(Append(replies, a), Transient, LookupAttempts)
      BY <2>1, <2>2, <2>3, LoopStep
    <3> QED BY <2>2, <3>1
  <2> QED BY <2>4 DEF LoopOK, LookupIsBounded, Transient
<1>2. ~(Present(asked.phone) /\ Present(asked.reference))
  BY <1>0 DEF ProofGiven, Present
<1>3. CASE a = "ok"
  <2>1. /\ outcome' = [error |-> "none", facts |-> OrderEvidence(asked.order)]
        /\ lookup' = "done"
    BY <1>3 DEF AskBuenPick
  <2>2. Owned
    BY <1>3 DEF AskBuenPick, Verdict
  <2>3. /\ asked.order \in Orders
        /\ {asked.phone, asked.reference} \cap OwnerOf[asked.order] # {}
    BY <1>0, <2>2 DEF Owned, OwnershipParam
  <2>4. LookupTypeOK'
    BY <1>0, <1>1, <2>1, OrderEvidenceFacts DEF LookupInv, LookupTypeOK
  <2>5. ProofOK'
    BY <1>0, <1>1, <2>1 DEF ProofOK, ProofGiven
  <2>6. OnlyOwnedOrdersAreTold'
    BY <1>0, <1>1, <1>2, <2>1, <2>3, OrderEvidenceFacts DEF OnlyOwnedOrdersAreTold
  <2> QED BY <1>1, <2>4, <2>5, <2>6 DEF LookupInv
<1>4. CASE a # "ok" /\ Http!InProgress'
  <2>1. UNCHANGED <<outcome, lookup>>
    BY <1>4 DEF AskBuenPick
  <2>2. LookupTypeOK'
    BY <1>0, <1>1, <2>1 DEF LookupInv, LookupTypeOK
  <2>3. ProofOK'
    BY <1>0, <1>1, <1>4, <2>1 DEF ProofOK, ProofGiven, OwnershipParam
  <2>4. OnlyOwnedOrdersAreTold'
    BY <1>0, <1>1, <1>2, <2>1 DEF OnlyOwnedOrdersAreTold
  <2> QED BY <1>1, <2>2, <2>3, <2>4 DEF LookupInv
<1>5. CASE a # "ok" /\ ~Http!InProgress'
  <2>1. outcome' = [error |-> ErrorOf(a), facts |-> {}] /\ lookup' = "done"
    BY <1>5 DEF AskBuenPick, Fail
  <2>2. LookupTypeOK'
    BY <1>0, <1>1, <2>1, ErrorOfType DEF LookupInv, LookupTypeOK
  <2>3. ProofOK'
    BY <1>0, <1>1, <2>1 DEF ProofOK, ProofGiven
  <2>4. ErrorOf(a) # "none"
    BY ErrorOfType DEF ErrorCode
  <2>5. OnlyOwnedOrdersAreTold'
    BY <1>0, <1>1, <1>2, <2>1, <2>4 DEF OnlyOwnedOrdersAreTold
  <2> QED BY <1>1, <2>2, <2>3, <2>5 DEF LookupInv
<1> QED BY <1>3, <1>4, <1>5

(* Every step keeps the invariant.                                         *)
LEMMA LookupInvNext ==
    ASSUME LookupInv, [LookupNext]_lookupVars
    PROVE  LookupInv'
<1>1. CASE UNCHANGED lookupVars
  BY <1>1 DEF lookupVars, LookupInv, LookupTypeOK, LookupIsBounded, ProofOK,
     OnlyOwnedOrdersAreTold, ProofGiven, OwnershipParam, Http!InProgress,
     Http!Final
<1> QED BY <1>1, CheckOwnershipInv, AskBuenPickInv DEF LookupNext, LookupFinished

(* The types of an order lookup.                                           *)
THEOREM LookupTypeCorrect == LookupSpec => []LookupTypeOK
<1>1. LookupInit => LookupInv
  BY LookupInvInit
<1>2. LookupInv /\ [LookupNext]_lookupVars => LookupInv'
  BY LookupInvNext
<1>3. LookupInv => LookupTypeOK
  BY DEF LookupInv
<1> QED BY <1>1, <1>2, <1>3, PTL DEF LookupSpec

(* Facts of an order are told only to who proves that it is theirs, for    *)
(* any orders, owners and answers of BuenPick.                             *)
THEOREM OnlyOwnedTold == LookupSpec => []OnlyOwnedOrdersAreTold
<1>1. LookupInit => LookupInv
  BY LookupInvInit
<1>2. LookupInv /\ [LookupNext]_lookupVars => LookupInv'
  BY LookupInvNext
<1>3. LookupInv => OnlyOwnedOrdersAreTold
  BY DEF LookupInv
<1> QED BY <1>1, <1>2, <1>3, PTL DEF LookupSpec

(* The lookup stays within its budget and asks again only about transient  *)
(* answers.                                                                *)
THEOREM LookupBounded == LookupSpec => []LookupIsBounded
<1>1. LookupInit => LookupInv
  BY LookupInvInit
<1>2. LookupInv /\ [LookupNext]_lookupVars => LookupInv'
  BY LookupInvNext
<1>3. LookupInv => LookupIsBounded
  BY DEF LookupInv
<1> QED BY <1>1, <1>2, <1>3, PTL DEF LookupSpec

-----------------------------------------------------------------------------
(* The composition of a reply, for any picks, tokens, answers of BuenPick  *)
(* and texts of the LLM.                                                   *)

Repeatable == {"timeout", "http_429", "http_500", "http_502", "http_503"}

(* The loops go on while the composition is in them, and the LLM is not    *)
(* asked before.                                                           *)
LoopsOK ==
    /\ LoopOK(searched, Repeatable, MaxAttempts)
    /\ LoopOK(composed, Repeatable, MaxAttempts)
    /\ stage \in {"resolve", "handoff"} => searched = <<>>
    /\ stage \in {"resolve", "handoff", "search", "respond"} => composed = <<>>
    /\ stage = "search" => Search!InProgress
    /\ stage = "llm" => Llm!InProgress

(* There is no text before the end, picks come from a search that worked,  *)
(* and past the search an answer of BuenPick is its list of picks.         *)
RouteOK ==
    /\ stage # "done" => text.tokens = {} /\ text.marks = {}
    /\ stage \in {"resolve", "handoff", "search"} => found = {}
    /\ found # {} => searched # <<>> /\ searched[Len(searched)] = "ok"
    /\ stage \in {"respond", "llm", "ground"} /\ searched # <<>>
          => searched[Len(searched)] = "ok"

ComposeInv ==
    /\ ComposeTypeOK
    /\ LoopsOK
    /\ RouteOK
    /\ FactsComeFromThisSearch
    /\ NothingLeakedOrInvented
    /\ FailuresGiveAReply

(* What a reply has to satisfy for the invariants about the text.          *)
TruthfulText(tokens, marks) ==
    /\ tokens \in SUBSET Tokens
    /\ marks \in SUBSET Marks
    /\ \A t \in tokens : \E p \in found : \E u \in TokensOf[p] : t \in Within[u]
    /\ "leak" \notin marks
    /\ "content" \in marks => found \cap Surprise = {}
    /\ "availability" \in marks => searched # <<>> /\ searched[Len(searched)] = "ok"

(* Initially nothing was asked and nothing is said.                        *)
LEMMA ComposeInvInit ==
    ASSUME ComposeInit
    PROVE  ComposeInv
<1>1. ComposeTypeOK
  BY DEF ComposeInit, ComposeTypeOK, NoDraft, Draft
<1>2. LoopsOK
  BY CompositionAssumption DEF ComposeInit, LoopsOK, LoopOK
<1>3. RouteOK /\ FactsComeFromThisSearch /\ NothingLeakedOrInvented
  BY DEF ComposeInit, RouteOK, FactsComeFromThisSearch, NothingLeakedOrInvented
<1>4. FailuresGiveAReply
  BY DEF ComposeInit, FailuresGiveAReply
<1> QED BY <1>1, <1>2, <1>3, <1>4 DEF ComposeInv

(* A truthful reply ends the composition well.                             *)
LEMMA ReplyInv ==
    ASSUME ComposeInv, NEW from \in {"llm", "deterministic", "fallback", "canned"},
           NEW tokens, NEW marks, Reply(from, tokens, marks),
           TruthfulText(tokens, marks)',
           UNCHANGED <<query, found, draft>>,
           searched' = searched \/ found = {},
           searched' \in Seq(Search!HttpAnswer),
           composed' \in Seq(LLMAnswer),
           LoopOK(searched, Repeatable, MaxAttempts)',
           LoopOK(composed, Repeatable, MaxAttempts)'
    PROVE  ComposeInv'
<1>0. /\ stage' = "done"
      /\ text' = [from |-> from, tokens |-> tokens, marks |-> marks]
      /\ text'.tokens = tokens
      /\ text'.marks = marks
  BY DEF Reply
<1>1. ComposeTypeOK'
  BY <1>0 DEF ComposeInv, ComposeTypeOK, TruthfulText
<1>2. LoopsOK' /\ RouteOK'
  BY <1>0 DEF LoopsOK, RouteOK, ComposeInv
<1>3. FactsComeFromThisSearch'
  <2>1. tokens # {} => found' # {}
    BY DEF TruthfulText
  <2> QED BY <1>0, <1>2, <2>1 DEF TruthfulText, FactsComeFromThisSearch, RouteOK
<1>4. NothingLeakedOrInvented'
  BY <1>0 DEF TruthfulText, NothingLeakedOrInvented
<1>5. FailuresGiveAReply'
  BY <1>0 DEF FailuresGiveAReply
<1> QED BY <1>1, <1>2, <1>3, <1>4, <1>5 DEF ComposeInv

(* Sentences without facts are truthful.                                   *)
LEMMA CannedIsTruthful == TruthfulText({}, {})
BY DEF TruthfulText

(* The fallback repeats confirmed values, without internal markers, and a  *)
(* token that is cut is a part of one.                                     *)
LEMMA FallbackIsTruthful ==
    ASSUME ComposeTypeOK, NEW items \in FallbackItems,
           NEW tokens \in CutShort(UNION {TokensOf[p] : p \in items \ Poisoned})
    PROVE  TruthfulText(tokens, {})
<1> DEFINE all == UNION {TokensOf[p] : p \in items \ Poisoned}
<1>1. items \subseteq found /\ found \subseteq Picks
  BY DEF FallbackItems, ComposeTypeOK
<1>2. ASSUME NEW u \in all
      PROVE  u \in Tokens /\ \E p \in found : u \in TokensOf[p]
  <2>1. PICK p \in items \ Poisoned : u \in TokensOf[p]
    OBVIOUS
  <2>2. p \in found /\ p \in Picks /\ TokensOf[p] \subseteq Tokens
    BY <1>1, CompositionAssumption
  <2> QED BY <2>1, <2>2
<1> HIDE DEF all
<1>3. ASSUME NEW t \in tokens
      PROVE  \E u \in all : u \in Tokens /\ t \in Within[u]
  <2>1. t \in all \/ \E u \in all : t \in Within[u]
    BY DEF CutShort, all
  <2>2. t \in all => t \in Within[t]
    BY <1>2, CompositionAssumption
  <2> QED BY <1>2, <2>1, <2>2
<1>4. \A t \in tokens : \E p \in found : \E u \in TokensOf[p] : t \in Within[u]
  BY <1>2, <1>3
<1>5. tokens \in SUBSET Tokens
  BY <1>3, CompositionAssumption
<1> QED BY <1>4, <1>5 DEF TruthfulText

(* What the validator lets through.                                        *)
LEMMA GroundedFacts ==
    ASSUME NEW d, GroundingFailures(d) = {}
    PROVE  /\ "leak" \notin d.marks
           /\ "availability" \in d.marks => HasEvidence
           /\ \A t \in d.tokens : Supported(t)
           /\ "content" \in d.marks => found \cap Surprise = {}
<1> DEFINE Names == {"internal_leak", "evidence_free_commercial_claim",
                     "unsupported_high_risk_fact", "unavailable_content_claim",
                     "internal_reference"}
<1>1. \A f \in Names : f \notin GroundingFailures(d)
  OBVIOUS
<1>2. "leak" \notin d.marks
  BY <1>1 DEF GroundingFailures
<1>3. "availability" \in d.marks => HasEvidence
  BY <1>1 DEF GroundingFailures
<1>4. \A t \in d.tokens : Supported(t)
  BY <1>1 DEF GroundingFailures
<1>5. "content" \in d.marks => found \cap Surprise = {}
  BY <1>1 DEF GroundingFailures
<1> QED BY <1>2, <1>3, <1>4, <1>5

(* A grounded draft is truthful.                                           *)
LEMMA GroundedIsTruthful ==
    ASSUME ComposeInv, stage = "ground", GroundingFailures(draft) = {}
    PROVE  TruthfulText(draft.tokens, draft.marks)
<1>1. draft \in Draft
  BY DEF ComposeInv, ComposeTypeOK
<1>2. draft.tokens \in SUBSET Tokens /\ draft.marks \in SUBSET Marks
  BY <1>1 DEF Draft
<1>3. ASSUME NEW t \in draft.tokens
      PROVE  \E p \in found : \E u \in TokensOf[p] : t \in Within[u]
  <2>1. PICK u \in Confirmed : t \in Within[u]
    BY GroundedFacts DEF Supported
  <2>2. PICK p \in found : u \in TokensOf[p]
    BY DEF Confirmed
  <2> QED BY <2>1, <2>2
<1>4. HasEvidence => searched # <<>> /\ searched[Len(searched)] = "ok"
  BY DEF HasEvidence, ComposeInv, RouteOK
<1> QED BY <1>2, <1>3, <1>4, GroundedFacts DEF TruthfulText

-----------------------------------------------------------------------------
(* A step that says nothing and asks nobody.                               *)
LEMMA SilentComposeInv ==
    ASSUME ComposeInv, stage \notin {"done", "raised"},
           stage' \in {"handoff", "search", "respond", "llm", "raised"},
           UNCHANGED <<query, searched, composed, found, draft, text>>,
           stage' = "handoff" => stage = "resolve",
           stage' = "search" => stage = "resolve",
           stage' = "respond" => stage \in {"resolve", "handoff"},
           stage' = "llm" => stage = "respond",
           stage' = "raised" => stage \in {"resolve", "handoff", "respond"}
    PROVE  ComposeInv'
<1>1. ComposeTypeOK'
  BY DEF ComposeInv, ComposeTypeOK
<1>2. LoopsOK'
  <2>1. stage' = "search" => Search!InProgress'
    BY DEF ComposeInv, LoopsOK, Search!InProgress
  <2>2. stage' = "llm" => Llm!InProgress'
    BY DEF ComposeInv, LoopsOK, Llm!InProgress
  <2> QED BY <2>1, <2>2 DEF ComposeInv, LoopsOK, LoopOK
<1>3. RouteOK'
  BY DEF ComposeInv, RouteOK, LoopsOK
<1>4. FactsComeFromThisSearch' /\ NothingLeakedOrInvented'
  BY DEF ComposeInv, FactsComeFromThisSearch, NothingLeakedOrInvented
<1>5. FailuresGiveAReply'
  BY DEF ComposeInv, LoopsOK, RouteOK, FailuresGiveAReply
<1> QED BY <1>1, <1>2, <1>3, <1>4, <1>5 DEF ComposeInv

(* The intent decides the route.                                           *)
LEMMA ResolveIntentInv ==
    ASSUME ComposeInv, ResolveIntent
    PROVE  ComposeInv'
<1>1. /\ stage = "resolve"
      /\ UNCHANGED <<query, searched, composed, found, draft, text>>
  BY DEF ResolveIntent
<1>2. stage' \in {"handoff", "search", "respond", "raised"}
  BY DEF ResolveIntent
<1> QED BY <1>1, <1>2, SilentComposeInv

(* The handoff is committed or it is not.                                  *)
LEMMA CommitHandoffInv ==
    ASSUME ComposeInv, CommitHandoff
    PROVE  ComposeInv'
BY SilentComposeInv DEF CommitHandoff

(* A program without BuenPick says so.                                     *)
LEMMA SearchNotConfiguredInv ==
    ASSUME ComposeInv, SearchNotConfigured
    PROVE  ComposeInv'
<1>1. TruthfulText({}, {})'
  BY CannedIsTruthful DEF TruthfulText
<1>2. /\ searched' \in Seq(Search!HttpAnswer)
      /\ composed' \in Seq(LLMAnswer)
      /\ LoopOK(searched, Repeatable, MaxAttempts)'
      /\ LoopOK(composed, Repeatable, MaxAttempts)'
  BY DEF SearchNotConfigured, ComposeInv, ComposeTypeOK, LoopsOK, LoopOK
<1> QED BY <1>1, <1>2, ReplyInv DEF SearchNotConfigured

(* One request of the search: its picks, another attempt, or its error.    *)
LEMMA SearchPicksInv ==
    ASSUME ComposeInv, NEW a \in Search!HttpAnswer, SearchPicks(a)
    PROVE  ComposeInv'
<1>0. /\ stage = "search"
      /\ text.tokens = {} /\ text.marks = {}
      /\ composed = <<>> /\ found = {}
      /\ UNCHANGED <<query, composed, draft>>
  BY DEF SearchPicks, ComposeInv, RouteOK, LoopsOK
<1>1. /\ searched' \in Seq(Search!HttpAnswer)
      /\ searched' # <<>>
      /\ searched'[Len(searched')] = a
      /\ LoopOK(searched, Repeatable, MaxAttempts)'
  <2>1. /\ searched' = Append(searched, a)
        /\ searched # <<>> =>
              searched[Len(searched)] \in Repeatable /\ Len(searched) < MaxAttempts
    BY DEF SearchPicks, Search!Attempt, Search!InProgress, Search!Final, Repeatable
  <2>2. /\ searched \in Seq(Search!HttpAnswer)
        /\ MaxAttempts \in Nat \ {0}
        /\ LoopOK(searched, Repeatable, MaxAttempts)
    BY CompositionAssumption DEF ComposeInv, ComposeTypeOK, LoopsOK
  <2>3. /\ Append(searched, a) \in Seq(Search!HttpAnswer)
        /\ Append(searched, a) # <<>>
        /\ Append(searched, a)[Len(Append(searched, a))] = a
        /\ LoopOK(Append(searched, a), Repeatable, MaxAttempts)
    BY <2>1, <2>2, LoopStep
  <2> QED BY <2>1, <2>3 DEF LoopOK, Repeatable
<1>2. /\ composed' \in Seq(LLMAnswer)
      /\ LoopOK(composed, Repeatable, MaxAttempts)'
  BY <1>0 DEF ComposeInv, ComposeTypeOK, LoopsOK, LoopOK
<1>3. CASE a = "ok"
  <2>1. /\ stage' \in {"respond", "raised"}
        /\ found' \subseteq Picks
        /\ text' = text
    BY <1>3 DEF SearchPicks
  <2>2. ComposeTypeOK'
    BY <1>0, <1>1, <1>2, <2>1 DEF ComposeInv, ComposeTypeOK
  <2>3. LoopsOK'
    BY <1>0, <1>1, <1>2, <2>1 DEF LoopsOK
  <2>4. RouteOK'
    BY <1>0, <1>1, <1>3, <2>1 DEF RouteOK
  <2>5. FactsComeFromThisSearch' /\ NothingLeakedOrInvented'
    BY <1>0, <2>1 DEF FactsComeFromThisSearch, NothingLeakedOrInvented
  <2>6. FailuresGiveAReply'
    BY <1>0, <1>1, <1>3 DEF FailuresGiveAReply
  <2> QED BY <2>2, <2>3, <2>4, <2>5, <2>6 DEF ComposeInv
<1>4. CASE a # "ok" /\ Search!InProgress'
  <2>1. UNCHANGED <<stage, found, text>>
    BY <1>4 DEF SearchPicks
  <2>2. ComposeTypeOK'
    BY <1>0, <1>1, <1>2, <2>1 DEF ComposeInv, ComposeTypeOK
  <2>3. LoopsOK'
    BY <1>0, <1>1, <1>2, <1>4, <2>1 DEF LoopsOK
  <2>4. RouteOK'
    BY <1>0, <2>1 DEF RouteOK
  <2>5. FactsComeFromThisSearch' /\ NothingLeakedOrInvented'
    BY <1>0, <2>1 DEF FactsComeFromThisSearch, NothingLeakedOrInvented
  <2>6. FailuresGiveAReply'
    BY <1>0, <2>1 DEF FailuresGiveAReply
  <2> QED BY <2>2, <2>3, <2>4, <2>5, <2>6 DEF ComposeInv
<1>5. CASE a # "ok" /\ ~Search!InProgress'
  <2>1. Reply("canned", {}, {}) /\ found' = found
    BY <1>5 DEF SearchPicks
  <2>2. TruthfulText({}, {})'
    BY CannedIsTruthful DEF TruthfulText
  <2> QED BY <1>0, <1>1, <1>2, <2>1, <2>2, ReplyInv
<1> QED BY <1>3, <1>4, <1>5

(* The confirmation of a handoff, or the prompt.                           *)
LEMMA RespondInv ==
    ASSUME ComposeInv, Respond
    PROVE  ComposeInv'
<1>0. /\ stage = "respond"
      /\ UNCHANGED <<query, searched, composed, found, draft>>
  BY DEF Respond
<1>1. CASE Reply("deterministic", {}, {})
  <2>1. TruthfulText({}, {})'
    BY CannedIsTruthful DEF TruthfulText
  <2>2. /\ searched' \in Seq(Search!HttpAnswer)
        /\ composed' \in Seq(LLMAnswer)
        /\ LoopOK(searched, Repeatable, MaxAttempts)'
        /\ LoopOK(composed, Repeatable, MaxAttempts)'
    BY <1>0 DEF ComposeInv, ComposeTypeOK, LoopsOK, LoopOK
  <2> QED BY <1>0, <1>1, <2>1, <2>2, ReplyInv
<1>2. CASE stage' = (IF FitsPrompt THEN "llm" ELSE "raised") /\ UNCHANGED text
  BY <1>0, <1>2, SilentComposeInv
<1> QED BY <1>1, <1>2 DEF Respond

(* The fallback ends the composition well.                                 *)
LEMMA FallbackInv ==
    ASSUME ComposeInv, Fallback, UNCHANGED <<query, searched, found, draft>>,
           composed' \in Seq(LLMAnswer),
           LoopOK(composed, Repeatable, MaxAttempts)'
    PROVE  ComposeInv'
<1>1. PICK items \in FallbackItems :
         \E tokens \in CutShort(UNION {TokensOf[p] : p \in items \ Poisoned}) :
            Reply("fallback", tokens, {})
  BY DEF Fallback
<1>2. PICK tokens \in CutShort(UNION {TokensOf[p] : p \in items \ Poisoned}) :
         Reply("fallback", tokens, {})
  BY <1>1
<1>3. TruthfulText(tokens, {})
  BY FallbackIsTruthful DEF ComposeInv
<1>4. TruthfulText(tokens, {})'
  BY <1>3 DEF TruthfulText
<1>5. /\ searched' \in Seq(Search!HttpAnswer)
      /\ LoopOK(searched, Repeatable, MaxAttempts)'
  BY DEF ComposeInv, ComposeTypeOK, LoopsOK, LoopOK
<1> QED BY <1>2, <1>4, <1>5, ReplyInv

(* One request of the LLM: a draft, another attempt, or the fallback.      *)
LEMMA ComposeTextInv ==
    ASSUME ComposeInv, NEW a \in LLMAnswers, ComposeText(a)
    PROVE  ComposeInv'
<1>0. /\ stage = "llm"
      /\ text.tokens = {} /\ text.marks = {}
      /\ UNCHANGED <<query, searched, found>>
  BY DEF ComposeText, ComposeInv, RouteOK
<1>1. /\ composed' \in Seq(LLMAnswer)
      /\ composed' # <<>>
      /\ composed'[Len(composed')] = a
      /\ LoopOK(composed, Repeatable, MaxAttempts)'
  <2>1. /\ composed' = Append(composed, a)
        /\ composed # <<>> =>
              composed[Len(composed)] \in Repeatable /\ Len(composed) < MaxAttempts
    BY DEF ComposeText, Llm!Attempt, Llm!InProgress, Llm!Final, Repeatable
  <2>2. /\ composed \in Seq(LLMAnswer)
        /\ a \in LLMAnswer
        /\ MaxAttempts \in Nat \ {0}
        /\ LoopOK(composed, Repeatable, MaxAttempts)
    BY CompositionAssumption, LLMAssumption DEF ComposeInv, ComposeTypeOK, LoopsOK
  <2>3. /\ Append(composed, a) \in Seq(LLMAnswer)
        /\ Append(composed, a) # <<>>
        /\ Append(composed, a)[Len(Append(composed, a))] = a
        /\ LoopOK(Append(composed, a), Repeatable, MaxAttempts)
    BY <2>1, <2>2, LoopStep
  <2> QED BY <2>1, <2>3 DEF LoopOK, Repeatable
<1>2. LoopOK(searched, Repeatable, MaxAttempts)'
  BY <1>0 DEF ComposeInv, LoopsOK, LoopOK
<1>3. CASE \/ a = "ok" /\ stage' = "ground" /\ draft' \in Draft /\ text' = text
           \/ a = "out_of_bounds" /\ stage' = "raised" /\ draft' = draft /\ text' = text
           \/ Llm!InProgress' /\ stage' = stage /\ draft' = draft /\ text' = text
  <2>1. ComposeTypeOK'
    BY <1>0, <1>1, <1>3 DEF ComposeInv, ComposeTypeOK
  <2>2. LoopsOK'
    BY <1>0, <1>1, <1>2, <1>3 DEF LoopsOK
  <2>3. RouteOK'
    BY <1>0, <1>3 DEF ComposeInv, RouteOK
  <2>4. FactsComeFromThisSearch' /\ NothingLeakedOrInvented'
    BY <1>0, <1>3 DEF FactsComeFromThisSearch, NothingLeakedOrInvented
  <2>5. FailuresGiveAReply'
    BY <1>0, <1>1, <1>3 DEF FailuresGiveAReply, AdapterError, ComposeInv, RouteOK
  <2> QED BY <2>1, <2>2, <2>3, <2>4, <2>5 DEF ComposeInv
<1>4. CASE Fallback /\ draft' = draft
  BY <1>0, <1>1, <1>4, FallbackInv
<1> QED BY <1>3, <1>4 DEF ComposeText

(* The validated draft, or the fallback.                                   *)
LEMMA CheckGroundingInv ==
    ASSUME ComposeInv, CheckGrounding
    PROVE  ComposeInv'
<1>0. /\ stage = "ground"
      /\ UNCHANGED <<query, searched, composed, found, draft>>
  BY DEF CheckGrounding
<1>1. /\ searched' \in Seq(Search!HttpAnswer)
      /\ composed' \in Seq(LLMAnswer)
      /\ LoopOK(searched, Repeatable, MaxAttempts)'
      /\ LoopOK(composed, Repeatable, MaxAttempts)'
  BY <1>0 DEF ComposeInv, ComposeTypeOK, LoopsOK, LoopOK
<1>2. CASE GroundingFailures(draft) = {}
  <2>1. Reply("llm", draft.tokens, draft.marks)
    BY <1>2 DEF CheckGrounding
  <2>2. TruthfulText(draft.tokens, draft.marks)
    BY <1>0, <1>2, GroundedIsTruthful
  <2>3. PICK tokens, marks : tokens = draft.tokens /\ marks = draft.marks
    OBVIOUS
  <2>4. TruthfulText(tokens, marks)'
    BY <1>0, <2>2, <2>3 DEF TruthfulText
  <2> QED BY <1>0, <1>1, <2>1, <2>3, <2>4, ReplyInv
<1>3. CASE GroundingFailures(draft) # {}
  BY <1>0, <1>1, <1>3, FallbackInv DEF CheckGrounding
<1> QED BY <1>2, <1>3

(* Every step keeps the invariant.                                         *)
LEMMA ComposeInvNext ==
    ASSUME ComposeInv, [ComposeNext]_composeVars
    PROVE  ComposeInv'
<1>1. CASE UNCHANGED composeVars
  BY <1>1 DEF composeVars, ComposeInv, ComposeTypeOK, LoopsOK, LoopOK, RouteOK,
     FactsComeFromThisSearch, NothingLeakedOrInvented, FailuresGiveAReply,
     Search!InProgress, Search!Final, Llm!InProgress, Llm!Final
<1> QED BY <1>1, ResolveIntentInv, CommitHandoffInv, SearchNotConfiguredInv,
        SearchPicksInv, RespondInv, ComposeTextInv, CheckGroundingInv
        DEF ComposeNext, ComposeFinished

(* The types of a composition.                                             *)
THEOREM ComposeTypeCorrect == ComposeSpec => []ComposeTypeOK
<1>1. ComposeInit => ComposeInv
  BY ComposeInvInit
<1>2. ComposeInv /\ [ComposeNext]_composeVars => ComposeInv'
  BY ComposeInvNext
<1>3. ComposeInv => ComposeTypeOK
  BY DEF ComposeInv
<1> QED BY <1>1, <1>2, <1>3, PTL DEF ComposeSpec

(* Every high-risk token of a reply is, or is part of, one of a pick that  *)
(* the search of this message returned, whatever the LLM writes.           *)
THEOREM FactsFromThisSearch == ComposeSpec => []FactsComeFromThisSearch
<1>1. ComposeInit => ComposeInv
  BY ComposeInvInit
<1>2. ComposeInv /\ [ComposeNext]_composeVars => ComposeInv'
  BY ComposeInvNext
<1>3. ComposeInv => FactsComeFromThisSearch
  BY DEF ComposeInv
<1> QED BY <1>1, <1>2, <1>3, PTL DEF ComposeSpec

(* No reply holds an internal marker, a claim about a surprise bag, or a   *)
(* word on availability that no search of this message confirmed.          *)
THEOREM NothingInvented == ComposeSpec => []NothingLeakedOrInvented
<1>1. ComposeInit => ComposeInv
  BY ComposeInvInit
<1>2. ComposeInv /\ [ComposeNext]_composeVars => ComposeInv'
  BY ComposeInvNext
<1>3. ComposeInv => NothingLeakedOrInvented
  BY DEF ComposeInv
<1> QED BY <1>1, <1>2, <1>3, PTL DEF ComposeSpec

(* No error of BuenPick, and no error, refusal or ungrounded text of the   *)
(* LLM, leaves the customer without a reply.                               *)
THEOREM FailuresEndInAReply == ComposeSpec => []FailuresGiveAReply
<1>1. ComposeInit => ComposeInv
  BY ComposeInvInit
<1>2. ComposeInv /\ [ComposeNext]_composeVars => ComposeInv'
  BY ComposeInvNext
<1>3. ComposeInv => FailuresGiveAReply
  BY DEF ComposeInv
<1> QED BY <1>1, <1>2, <1>3, PTL DEF ComposeSpec

(* The loops of search and LLM stay within their budgets.                  *)
THEOREM ComposeBounded == ComposeSpec => []ComposeIsBounded
<1>1. ComposeInit => ComposeInv
  BY ComposeInvInit
<1>2. ComposeInv /\ [ComposeNext]_composeVars => ComposeInv'
  BY ComposeInvNext
<1>3. ComposeInv => ComposeIsBounded
  BY DEF ComposeInv, LoopsOK, LoopOK, ComposeIsBounded, Repeatable
<1> QED BY <1>1, <1>2, <1>3, PTL DEF ComposeSpec

-----------------------------------------------------------------------------
(* The delivery of a message through Meta, for any window, clock, caption  *)
(* limit and text lengths.                                                 *)

(* Meta has nothing before the delivery is done, and there is no request   *)
(* on the wire before it is made.                                          *)
TruthOK ==
    /\ sending # "done" => received = FALSE
    /\ sending \in {"webhook", "request", "send"} => posted = None
    /\ sending = "done" /\ result = "accepted" => received = TRUE
    /\ sending = "done" /\ result \in {"failed", "invalid"} => received = FALSE

(* What is being sent validates, and its body was built from it.           *)
ContentOK ==
    /\ sending \in {"send", "post"} => request \in Request /\ ValidContent(request)
    /\ posted # None => /\ request \in Request
                        /\ ValidContent(request)
                        /\ posted.has = BodyParts(request)

SendInv ==
    /\ SendTypeOK
    /\ TruthOK
    /\ ContentOK

(* Initially the customer's message has not arrived.                       *)
LEMMA SendInvInit ==
    ASSUME SendInit
    PROVE  SendInv
<1>1. 0 \in 0..MaxTime
  BY DeliveryAssumption
<1>2. SendTypeOK
  BY <1>1 DEF SendInit, SendTypeOK
<1>3. TruthOK /\ ContentOK
  BY DEF SendInit, TruthOK, ContentOK
<1> QED BY <1>2, <1>3 DEF SendInv

(* The parts of a body are parts of a body.                                *)
LEMMA BodyPartsType ==
    ASSUME NEW q
    PROVE  BodyParts(q) \in SUBSET Body
BY DEF BodyParts, Body

(* A body has what its kind requires.                                      *)
LEMMA BodyIsComplete ==
    ASSUME NEW q \in Request, ValidContent(q)
    PROVE  /\ q.kind \in {"text", "interactive"} => "text" \in BodyParts(q)
           /\ q.kind = "image" => "image" \in BodyParts(q)
           /\ q.kind = "interactive" => "buttons" \in BodyParts(q)
           /\ q.kind = "template" <=> "template" \in BodyParts(q)
BY DEF ValidContent, BodyParts

(* The clock and the webhook touch no request.                             *)
LEMMA BeforeRequestInv ==
    ASSUME SendInv, Tick \/ MessageRecorded \/ UNCHANGED sendVars
    PROVE  SendInv'
<1>1. SendTypeOK'
  <2>1. now' \in 0..MaxTime /\ recorded' \in 0..MaxTime \cup {None}
    BY DeliveryAssumption DEF SendInv, SendTypeOK, Tick, MessageRecorded, sendVars
  <2>2. /\ sending' \in {sending, "request"}
        /\ UNCHANGED <<request, posted, received, result>>
    BY DEF Tick, MessageRecorded, sendVars
  <2> QED BY <2>1, <2>2 DEF SendInv, SendTypeOK
<1>2. TruthOK' /\ ContentOK'
  BY DEF SendInv, TruthOK, ContentOK, Tick, MessageRecorded, sendVars
<1> QED BY <1>1, <1>2 DEF SendInv

(* The reply of the worker is a request that validates.                    *)
LEMMA ReplyIsValid ==
    ASSUME NEW n \in TextSizes, n > 0, NEW w \in CustomerServiceWindow,
           NEW q, q = [kind |-> "text", text |-> n, media |-> FALSE,
                       options |-> 0, template |-> FALSE, window |-> w]
    PROVE  q \in Request /\ ValidContent(q)
<1>1. q \in Request
  BY DEF Request, DeliveryKind
<1>2. ValidContent(q)
  BY DEF ValidContent
<1> QED BY <1>1, <1>2

(* A request is made only of a content that validates.                     *)
LEMMA RequestInv ==
    ASSUME SendInv,
           (\E n \in TextSizes : RequestReply(n)) \/ (\E q \in Request : RequestOther(q))
    PROVE  SendInv'
<1>1. /\ sending = "request"
      /\ posted = None
      /\ received = FALSE
      /\ UNCHANGED <<now, recorded, posted, received>>
  BY DEF RequestReply, RequestOther, SendInv, TruthOK
<1>2. CASE /\ sending' = "send" /\ request' \in Request
           /\ ValidContent(request') /\ result' = result
  <2>1. SendTypeOK'
    BY <1>1, <1>2 DEF SendInv, SendTypeOK
  <2>2. TruthOK' /\ ContentOK'
    BY <1>1, <1>2 DEF TruthOK, ContentOK
  <2> QED BY <2>1, <2>2 DEF SendInv
<1>3. CASE sending' = "done" /\ result' = "invalid" /\ request' = request
  <2>1. SendTypeOK'
    BY <1>1, <1>3 DEF SendInv, SendTypeOK
  <2>2. TruthOK' /\ ContentOK'
    BY <1>1, <1>3 DEF TruthOK, ContentOK
  <2> QED BY <2>1, <2>2 DEF SendInv
<1>4. ASSUME NEW n \in TextSizes, RequestReply(n)
      PROVE  SendInv'
  <2>1. ReplyWindow \in CustomerServiceWindow
    BY DEF ReplyWindow, CustomerServiceWindow
  <2>2. request' \in Request /\ ValidContent(request')
    BY <1>4, <2>1, ReplyIsValid DEF RequestReply
  <2> QED BY <1>2, <1>4, <2>2 DEF RequestReply
<1>5. ASSUME NEW q \in Request, RequestOther(q)
      PROVE  SendInv'
  <2>1. CASE ValidContent(q)
    BY <1>2, <1>5, <2>1 DEF RequestOther
  <2>2. CASE ~ValidContent(q)
    BY <1>3, <1>5, <2>2 DEF RequestOther
  <2> QED BY <2>1, <2>2
<1> QED BY <1>4, <1>5

(* The POST carries the parts of the request.                              *)
LEMMA PostInv ==
    ASSUME SendInv, Post
    PROVE  SendInv'
<1>1. /\ sending = "send"
      /\ sending' = "post"
      /\ posted' = [at |-> now, has |-> BodyParts(request)]
      /\ UNCHANGED <<now, recorded, request, received, result>>
  BY DEF Post
<1>2. posted' \in [at : 0..MaxTime, has : SUBSET Body]
  BY <1>1, BodyPartsType DEF SendInv, SendTypeOK
<1>3. SendTypeOK'
  BY <1>1, <1>2 DEF SendInv, SendTypeOK
<1>4. TruthOK'
  BY <1>1 DEF SendInv, TruthOK
<1>5. ContentOK'
  BY <1>1 DEF SendInv, ContentOK
<1> QED BY <1>3, <1>4, <1>5 DEF SendInv

(* An outcome is told: locally, by Meta, or by nobody.                     *)
LEMMA OutcomeInv ==
    ASSUME SendInv, RefuseLocally \/ MetaAccepts \/ MetaRejects \/ NoAnswer
    PROVE  SendInv'
<1>1. /\ sending \in {"send", "post"}
      /\ sending' = "done"
      /\ received = FALSE
      /\ UNCHANGED <<now, recorded, request, posted>>
  BY DEF RefuseLocally, MetaAccepts, MetaRejects, NoAnswer, Finish, SendInv, TruthOK
<1>2. \/ result' = "failed" /\ received' = FALSE
      \/ result' = "accepted" /\ received' = TRUE
      \/ result' = "unknown" /\ received' \in BOOLEAN
  BY <1>1 DEF RefuseLocally, MetaAccepts, MetaRejects, NoAnswer, Finish
<1>3. SendTypeOK'
  BY <1>1, <1>2 DEF SendInv, SendTypeOK
<1>4. TruthOK'
  BY <1>1, <1>2 DEF TruthOK
<1>5. ContentOK'
  BY <1>1 DEF SendInv, ContentOK
<1> QED BY <1>3, <1>4, <1>5 DEF SendInv

(* Every step keeps the invariant.                                         *)
LEMMA SendInvNext ==
    ASSUME SendInv, [SendNext]_sendVars
    PROVE  SendInv'
BY BeforeRequestInv, RequestInv, PostInv, OutcomeInv DEF SendNext, SendFinished

(* The types of a delivery.                                                *)
THEOREM SendTypeCorrect == SendSpec => []SendTypeOK
<1>1. SendInit => SendInv
  BY SendInvInit
<1>2. SendInv /\ [SendNext]_sendVars => SendInv'
  BY SendInvNext
<1>3. SendInv => SendTypeOK
  BY DEF SendInv
<1> QED BY <1>1, <1>2, <1>3, PTL DEF SendSpec

(* The DeliveryResult is true of Meta, whatever it answers or does not.    *)
THEOREM ResultTrue == SendSpec => []ResultIsTrue
<1>1. SendInit => SendInv
  BY SendInvInit
<1>2. SendInv /\ [SendNext]_sendVars => SendInv'
  BY SendInvNext
<1>3. SendInv => ResultIsTrue
  BY DEF SendInv, TruthOK, ResultIsTrue
<1> QED BY <1>1, <1>2, <1>3, PTL DEF SendSpec

(* The body of every POST has the parts Meta requires of its type.         *)
THEOREM PostedBodyComplete == SendSpec => []PostedBodyIsComplete
<1>1. SendInit => SendInv
  BY SendInvInit
<1>2. SendInv /\ [SendNext]_sendVars => SendInv'
  BY SendInvNext
<1>3. SendInv => PostedBodyIsComplete
  BY BodyIsComplete DEF SendInv, ContentOK, PostedBodyIsComplete
<1> QED BY <1>1, <1>2, <1>3, PTL DEF SendSpec

-----------------------------------------------------------------------------
(* The composition: a behaviour of it is one of every component, so the    *)
(* theorems above hold of what the model checker explores.                 *)
THEOREM ExternalServicesComponents ==
    Spec => ComposeSpec /\ LookupSpec /\ SendSpec
<1>1. Init => ComposeInit /\ LookupInit /\ SendInit
  BY DEF Init
<1>2. [Next]_vars => /\ [ComposeNext]_composeVars
                     /\ [LookupNext]_lookupVars
                     /\ [SendNext]_sendVars
  BY DEF Next, ComposeStep, LookupStep, SendStep, vars
<1> QED BY <1>1, <1>2, PTL DEF Spec, ComposeSpec, LookupSpec, SendSpec

(* Every variable of every component that talks to a service keeps its     *)
(* type.                                                                   *)
THEOREM ServicesTypeCorrect == Spec => []TypeOK
<1>1. ComposeTypeOK /\ LookupTypeOK /\ SendTypeOK => TypeOK
  BY DEF TypeOK
<1> QED BY <1>1, ExternalServicesComponents, ComposeTypeCorrect,
        LookupTypeCorrect, SendTypeCorrect, PTL

(* The loops of search, LLM and order lookup make at most the configured   *)
(* number of requests, and repeat one only after a transient answer.       *)
THEOREM RetriesBounded == Spec => []RetriesAreBounded
<1>1. ComposeIsBounded /\ LookupIsBounded => RetriesAreBounded
  BY DEF RetriesAreBounded
<1> QED BY <1>1, ExternalServicesComponents, ComposeBounded, LookupBounded, PTL

=============================================================================
