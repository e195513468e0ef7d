---------------------------- MODULE Composition -----------------------------
(***************************************************************************)
(* How a reply comes about: ConversationOrchestrator._compose_reply with   *)
(* the intent resolver, the BuenPick search and its evidence, the policy's *)
(* context packet, the LLM adapter, ResponseEngine.respond and the         *)
(* grounding validator.  The other modules take the result as "some text"; *)
(* this one says what a text may claim and when there is none.             *)
(*                                                                         *)
(* Texts are abstracted to what grounding looks for: the high-risk tokens  *)
(* in them (numbers, prices, times, links) and marks                       *)
(*   leak          an internal marker such as "TRACE_ID",                  *)
(*   availability  "hay ... disponibles" and its negation,                 *)
(*   content       "incluye", "contiene", "trae",                          *)
(*   reference     the id of a pick.                                       *)
(* One behaviour is the composition of one reply; the LLM answers anything.*)
(***************************************************************************)
EXTENDS Naturals, Sequences, FiniteSets

CONSTANTS Picks,            \* the picks BuenPick may return
          Surprise,         \* those with "sorpresa" in the title
          Poisoned,         \* those with an internal marker in the title
          Oversized,        \* those beyond the bounds of EvidenceItem
          Tokens,           \* high-risk tokens
          TokensOf,         \* the tokens in the evidence value of a pick
          Within,           \* the tokens that occur in a token as substrings
          LLMAnswers,       \* how the LLM provider may behave
          MaxAttempts,      \* buenpick_max_attempts, llm_max_attempts
          PromptLimit,      \* picks that fit the bounds of the prompt
          FallbackLimit     \* evidence items in a fallback: 8

ASSUME CompositionAssumption ==
    /\ {Surprise, Poisoned, Oversized} \subseteq SUBSET Picks
    /\ TokensOf \in [Picks -> SUBSET Tokens]
    /\ Within \in [Tokens -> SUBSET Tokens]
    /\ \A t \in Tokens : t \in Within[t]
    /\ {MaxAttempts, PromptLimit, FallbackLimit} \subseteq Nat \ {0}
    /\ IsFiniteSet(Picks)

VARIABLES stage,            \* where _compose_reply is
          query,            \* what the resolver finds in the message
          searched,         \* answers of BuenPick to the search
          composed,         \* answers of the LLM provider
          found,            \* result.data.items
          draft,            \* composed.text
          text              \* the reply, with where it comes from

composeVars == <<stage, query, searched, composed, found, draft, text>>

Search == INSTANCE HttpCall WITH
            answers <- searched,
            Retryable <- {"timeout", "http_429", "http_500", "http_503"}

Llm == INSTANCE HttpCall WITH
            answers <- composed,
            Retryable <- {"timeout", "http_429", "http_500", "http_502", "http_503"}

(* What the provider can answer: a 2xx body may also be a refusal, or hold *)
(* a text beyond 4096 characters or an id or a model name that is empty or *)
(* beyond 255.                                                             *)
LLMAnswer == Llm!HttpAnswer \cup {"refused", "out_of_bounds"}

ASSUME LLMAssumption == LLMAnswers \subseteq LLMAnswer

Marks == {"leak", "availability", "content", "reference"}

Draft == [tokens : SUBSET Tokens, marks : SUBSET Marks]

NoDraft == [tokens |-> {}, marks |-> {}]

(* The term groups the resolver finds; "blank" is a message without text,  *)
(* such as an image without a caption.                                     *)
Queries == {{}, {"blank"}, {"greeting"}} \cup SUBSET {"handoff", "search", "explain"}

(* The type of every variable.                                             *)
ComposeTypeOK ==
    /\ stage \in {"resolve", "handoff", "search", "respond", "llm",
                  "ground", "done", "raised"}
    /\ query \in Queries
    /\ searched \in Seq(Search!HttpAnswer)
    /\ composed \in Seq(LLMAnswer)
    /\ found \subseteq Picks
    /\ draft \in Draft
    /\ text \in [from : {"none", "llm", "deterministic", "fallback", "canned"},
                 tokens : SUBSET Tokens, marks : SUBSET Marks]

ComposeInit ==
    /\ stage = "resolve"
    /\ query \in Queries
    /\ searched = <<>>
    /\ composed = <<>>
    /\ found = {}
    /\ draft = NoDraft
    /\ text = [from |-> "none", tokens |-> {}, marks |-> {}]

-----------------------------------------------------------------------------
(* ConversationIntentResolver.resolve, in its order of precedence.         *)
Intent(q) ==
    CASE "handoff" \in q  -> "human_handoff"
      [] "greeting" \in q -> "greeting"
      [] "search" \in q   -> "discover_picks"
      [] OTHER            -> "explain_buenpick"

(* The response mode of the policy for each intent.                        *)
ResponseMode(intent) ==
    CASE intent = "human_handoff"  -> "deterministic"
      [] intent = "discover_picks" -> "jinja_llm"
      [] OTHER                     -> "non_commercial_llm"

Reply(from, tokens, marks) ==
    /\ stage' = "done"
    /\ text' = [from |-> from, tokens |-> tokens, marks |-> marks]

(* The evidence about the picks found carries their values only: ids stay  *)
(* in source_reference.  An empty search is confirmed evidence as well.    *)
Confirmed == UNION {TokensOf[p] : p \in found}

HasEvidence == searched # <<>>

(* factual_fallback: the first items of the evidence, an internal marker   *)
(* in a value replaced, or a fixed sentence when there is no evidence.     *)
(* The text is cut at 4096 characters, maybe in the middle of a token.     *)
FallbackItems == {s \in SUBSET found :
                    Cardinality(s) = IF Cardinality(found) < FallbackLimit
                                     THEN Cardinality(found) ELSE FallbackLimit}

CutShort(tokens) ==
    {tokens} \cup {rest \cup last : rest \in SUBSET tokens,
                   last \in {{u} : u \in UNION {Within[t] : t \in tokens}}}

(* A defective Fallback: titles are repeated as they are.                  *)
FallbackVerbatim ==
    \E items \in FallbackItems :
        Reply("fallback", UNION {TokensOf[p] : p \in items},
              IF items \cap Poisoned # {} THEN {"leak"} ELSE {})

Fallback ==
    \E items \in FallbackItems :
        \E tokens \in CutShort(UNION {TokensOf[p] : p \in items \ Poisoned}) :
            Reply("fallback", tokens, {})

-----------------------------------------------------------------------------
(* A defective ResolveIntent: what is not a handoff or a search has no     *)
(* route.                                                                  *)
ResolveIntentNoDefault ==
    /\ stage = "resolve"
    /\ stage' = CASE Intent(query) = "human_handoff"  -> "handoff"
                  [] Intent(query) = "discover_picks" -> "search"
                  [] OTHER                            -> Intent(query)
    /\ UNCHANGED <<query, searched, composed, found, draft, text>>

(* The intent decides the route; a query of length zero is refused by      *)
(* ContextPacket, on the one route such a message can take.                *)
ResolveIntent ==
    /\ stage = "resolve"
    /\ stage' = CASE Intent(query) = "human_handoff"  -> "handoff"
                  [] Intent(query) = "discover_picks" -> "search"
                  [] query = {"blank"}                -> "raised"
                  [] OTHER                            -> "respond"
    /\ UNCHANGED <<query, searched, composed, found, draft, text>>

(* The handoff is committed, or its transaction fails.                     *)
CommitHandoff ==
    /\ stage = "handoff"
    /\ stage' \in {"respond", "raised"}
    /\ UNCHANGED <<query, searched, composed, found, draft, text>>

(* BuenPick is not configured: create_buenpick_client raised at start.     *)
SearchNotConfigured ==
    /\ stage = "search"
    /\ searched = <<>>
    /\ Reply("canned", {}, {})
    /\ UNCHANGED <<query, searched, composed, found, draft>>

(* One request of search_available_picks.  The tool turns every client     *)
(* error into a failed result, whose message is the reply.  A pick whose   *)
(* title and names or whose id is beyond the bounds of EvidenceItem makes  *)
(* search_result_evidence fail, and nobody catches that.                   *)
SearchPicks(a) ==
    /\ stage = "search"
    /\ Search!Attempt(a)
    /\ IF a = "ok"
       THEN /\ found' \in SUBSET Picks
            /\ stage' = IF found' \cap Oversized = {} THEN "respond" ELSE "raised"
            /\ UNCHANGED text
       ELSE /\ UNCHANGED found
            /\ IF Search!InProgress' THEN UNCHANGED <<stage, text>>
                                     ELSE Reply("canned", {}, {})
    /\ UNCHANGED <<query, composed, draft>>

(* ResponseComposer.compose: the rendered evidence is within the bound of  *)
(* CompositionRequest.                                                     *)
FitsPrompt == Cardinality(found) <= PromptLimit

(* ResponseEngine.respond up to the adapter.  A deterministic text, here   *)
(* the confirmation of the handoff, has nothing grounding objects to.  For *)
(* the LLM the packet is rendered; an evidence prompt beyond its bound is  *)
(* a ValidationError nobody catches.                                       *)
Respond ==
    /\ stage = "respond"
    /\ \/ /\ ResponseMode(Intent(query)) = "deterministic"
          /\ Reply("deterministic", {}, {})
       \/ /\ ResponseMode(Intent(query)) \in {"jinja_llm", "non_commercial_llm"}
          /\ stage' = IF FitsPrompt THEN "llm" ELSE "raised"
          /\ UNCHANGED text
    /\ UNCHANGED <<query, searched, composed, found, draft>>

(* _map_http_error and _parse_response: statuses, invalid bodies, refusals *)
(* and empty texts are all an LLMAdapterError.                             *)
AdapterError(a) == a \notin {"ok", "out_of_bounds"}

(* A defective ComposeText: an error of the adapter leaves the engine.     *)
ComposeTextUncaught(a) ==
    /\ stage = "llm"
    /\ Llm!Attempt(a)
    /\ IF a = "ok"
       THEN \E d \in Draft : draft' = d /\ stage' = "ground" /\ UNCHANGED text
       ELSE /\ UNCHANGED <<draft, text>>
            /\ stage' = IF Llm!InProgress' THEN stage ELSE "raised"
    /\ UNCHANGED <<query, searched, found>>

(* One request of the adapter's compose.  Its errors, refusals and empty   *)
(* texts included, lead to the fallback.  CompositionResult is built       *)
(* outside the adapter's try: an answer beyond its bounds is a             *)
(* ValidationError, which the engine does not catch.                       *)
ComposeText(a) ==
    /\ stage = "llm"
    /\ Llm!Attempt(a)
    /\ \/ /\ a = "ok"
          /\ \E d \in Draft : draft' = d
          /\ stage' = "ground"
          /\ UNCHANGED text
       \/ /\ a = "out_of_bounds"
          /\ stage' = "raised"
          /\ UNCHANGED <<draft, text>>
       \/ /\ AdapterError(a)
          /\ IF Llm!InProgress' THEN UNCHANGED <<stage, text>> ELSE Fallback
          /\ UNCHANGED draft
    /\ UNCHANGED <<query, searched, found>>

(* A defective Supported: the evidence is any pick BuenPick has.           *)
SupportedByCatalogue(t) == \E p \in Picks : \E u \in TokensOf[p] : t \in Within[u]

(* token in evidence_corpus: a substring of some confirmed value.          *)
Supported(t) == \E u \in Confirmed : t \in Within[u]

(* GroundingValidator.validate.                                            *)
GroundingFailures(d) ==
    {f \in {"internal_leak", "evidence_free_commercial_claim",
            "unsupported_high_risk_fact", "unavailable_content_claim",
            "internal_reference"} :
        CASE f = "internal_leak" -> "leak" \in d.marks
          [] f = "evidence_free_commercial_claim" ->
               "availability" \in d.marks /\ ~HasEvidence
          [] f = "unsupported_high_risk_fact" -> \E t \in d.tokens : ~Supported(t)
          [] f = "unavailable_content_claim" ->
               "content" \in d.marks /\ found \cap Surprise # {}
          [] f = "internal_reference" -> "reference" \in d.marks /\ found # {}}

CheckGrounding ==
    /\ stage = "ground"
    /\ IF GroundingFailures(draft) = {}
       THEN Reply("llm", draft.tokens, draft.marks)
       ELSE Fallback
    /\ UNCHANGED <<query, searched, composed, found, draft>>

(* The caller has the text, or the exception.                              *)
ComposeFinished == stage \in {"done", "raised"} /\ UNCHANGED composeVars

ComposeNext ==
    \/ ResolveIntent
    \/ CommitHandoff
    \/ SearchNotConfigured
    \/ \E a \in Search!HttpAnswer : SearchPicks(a)
    \/ Respond
    \/ \E a \in LLMAnswers : ComposeText(a)
    \/ CheckGrounding
    \/ ComposeFinished

ComposeSpec == ComposeInit /\ [][ComposeNext]_composeVars

-----------------------------------------------------------------------------
(* Where a reply's facts come from, whatever the LLM writes and wherever   *)
(* the fallback is cut: every number, price, time or link in it is, or is  *)
(* a part of, one of a pick the search of this very message returned.  A   *)
(* reply after a failed, a missing or an empty search contains none, and   *)
(* nothing comes from another pick of BuenPick's.  That the whole token is *)
(* confirmed is UnsupportedFactsAreBlocked, which does not hold.           *)
FactsComeFromThisSearch ==
    /\ text.tokens # {} => searched # <<>> /\ searched[Len(searched)] = "ok"
    /\ \A t \in text.tokens : \E p \in found : \E u \in TokensOf[p] : t \in Within[u]

(* G-018 and D-025: grounding blocks an LLM text with a currency, quantity,*)
(* time or URL the evidence does not support.  The code looks for the      *)
(* token anywhere in the evidence: "1" passes when "10" is confirmed.      *)
UnsupportedFactsAreBlocked ==
    text.from = "llm" => text.tokens \subseteq Confirmed

(* No internal marker reaches the customer, neither from the LLM nor from  *)
(* a pick's title repeated by the fallback; nothing is said by the LLM     *)
(* about the contents of a surprise bag; and whether picks are available   *)
(* is only ever said after BuenPick answered a search of this message.     *)
NothingLeakedOrInvented ==
    /\ "leak" \notin text.marks
    /\ "content" \in text.marks => found \cap Surprise = {}
    /\ "availability" \in text.marks =>
          searched # <<>> /\ searched[Len(searched)] = "ok"

(* A service that fails never leaves the customer without a text.  When    *)
(* the last thing BuenPick said was an error, and when the LLM failed,     *)
(* refused, gave no usable text or gave one that grounding turns down, the *)
(* composition does not end in an exception, after any number of retries.  *)
FailuresGiveAReply ==
    stage = "raised" =>
        /\ searched # <<>> => searched[Len(searched)] = "ok"
        /\ composed # <<>> => /\ composed[Len(composed)] # "ok"
                              /\ ~AdapterError(composed[Len(composed)])

(* The failure matrix of GOLDEN_BEHAVIORS: whatever the LLM puts out, a    *)
(* malformed output included, there is a reply.                            *)
AnyOutputGivesAReply == stage = "raised" => composed = <<>>

(* G-012 for search and LLM: only transient answers are asked again about, *)
(* within the budget.                                                      *)
ComposeIsBounded ==
    \A answers \in {searched, composed} :
        /\ Len(answers) <= MaxAttempts
        /\ \A i \in 1..(Len(answers) - 1) :
              answers[i] \in {"timeout", "http_429", "http_500", "http_502",
                              "http_503"}

=============================================================================
