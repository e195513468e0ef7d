---------------------------- MODULE OrderLookup -----------------------------
(***************************************************************************)
(* get_customer_order: the ownership proof of BuenPickClient, the request  *)
(* with its retries, the ToolResult of BuenPickTools._run, the evidence    *)
(* order_result_evidence makes of it, and what a reply may say of an order *)
(* that is not the customer's.                                             *)
(*                                                                         *)
(* A proof is "none" (None or ""), "blank" (only spaces) or a value.       *)
(* BuenPick, which is external, answers 404 or 401 for an order that does  *)
(* not belong to the proof it gets, and treats a blank proof as none.      *)
(***************************************************************************)
EXTENDS Naturals, Sequences

CONSTANTS Orders,       \* the orders BuenPick has
          OwnerOf,      \* the proofs each one can be read with
          WithCode,     \* the orders with a pickup code
          WithNote,     \* those with pickup instructions
          Proofs,       \* proofs a caller can give
          LookupAttempts    \* buenpick_max_attempts

ASSUME OrderAssumption ==
    /\ OwnerOf \in [Orders -> SUBSET Proofs]
    /\ WithCode \subseteq Orders /\ WithNote \subseteq Orders
    /\ {"none", "blank"} \cap Proofs = {}
    /\ LookupAttempts \in Nat \ {0}

VARIABLES lookup,       \* where the call is
          asked,        \* order, customer_phone, customer_reference
          params,       \* the ownership parameter on the wire, by its name
          replies,      \* BuenPick's answers
          outcome       \* error code of the ToolResult, or the evidence

lookupVars == <<lookup, asked, params, replies, outcome>>

Http == INSTANCE HttpCall WITH
            answers <- replies,
            Retryable <- {"timeout", "http_429", "http_500", "http_503"},
            MaxAttempts <- LookupAttempts

Given == Proofs \cup {"none", "blank"}

Asked == [order : Orders \cup {"foreign"}, phone : Given, reference : Given]

NoParams == [name |-> "none", value |-> "none"]

ErrorCode == {"bad_request", "unauthorized", "not_found", "rate_limited",
              "timeout", "upstream_unavailable", "internal_error"}

Facts == {"status", "commerce", "total", "fulfillment", "picks", "pickup_code",
          "instructions", "address"}

(* The type of every variable.                                             *)
LookupTypeOK ==
    /\ lookup \in {"check", "request", "done"}
    /\ asked \in Asked
    /\ params \in [name : {"none", "customer_phone", "customer_reference"},
                   value : Given]
    /\ replies \in Seq(Http!HttpAnswer)
    /\ outcome \in [error : ErrorCode \cup {"none"}, facts : SUBSET Facts]

LookupInit ==
    /\ lookup = "check"
    /\ asked \in Asked
    /\ params = NoParams
    /\ replies = <<>>
    /\ outcome = [error |-> "none", facts |-> {}]

Present(proof) == proof \notin {"none", "blank"}

(* A defective ProofGiven: one of the two is enough, also when both are    *)
(* there.                                                                  *)
ProofGivenLoosely == Present(asked.phone) \/ Present(asked.reference)

(* sum(provided) == 1.                                                     *)
ProofGiven == Present(asked.phone) # Present(asked.reference)

(* The parameter the request carries: chosen by whether a phone is there   *)
(* at all, blank or not, and stripped.                                     *)
OwnershipParam ==
    IF asked.phone # "none"
    THEN [name |-> "customer_phone", value |-> asked.phone]
    ELSE [name |-> "customer_reference", value |-> asked.reference]

Fail(code) ==
    /\ outcome' = [error |-> code, facts |-> {}]
    /\ lookup' = "done"

CheckOwnership ==
    /\ lookup = "check"
    /\ IF ProofGiven
       THEN params' = OwnershipParam /\ lookup' = "request" /\ UNCHANGED outcome
       ELSE Fail("bad_request") /\ UNCHANGED params
    /\ UNCHANGED <<asked, replies>>

-----------------------------------------------------------------------------
(* BuenPick's verdict on an order, as INTERNAL_API.md describes it.        *)
Owned == asked.order \in Orders /\ params.value \in OwnerOf[asked.order]

Verdict == IF Owned THEN {"ok"}
           ELSE IF Present(params.value) THEN {"http_401", "http_404"}
           ELSE {"http_400", "http_401"}

(* _map_http_error, and the errors of _request itself.                     *)
ErrorOf(a) ==
    CASE a = "http_400" -> "bad_request"
      [] a = "http_401" -> "unauthorized"
      [] a = "http_404" -> "not_found"
      [] a = "http_429" -> "rate_limited"
      [] a = "timeout"  -> "timeout"
      [] a = "invalid"  -> "internal_error"
      [] OTHER          -> "upstream_unavailable"

(* order_result_evidence: what is null in the order is not evidence.       *)
OrderEvidence(order) ==
    {"status", "commerce", "total", "fulfillment", "picks", "address"}
    \cup (IF order \in WithCode THEN {"pickup_code"} ELSE {})
    \cup (IF order \in WithNote THEN {"instructions"} ELSE {})

(* One request and its answer: a verdict, or trouble on the way.           *)
AskBuenPick(a) ==
    /\ lookup = "request"
    /\ a \in Verdict \cup {"invalid", "timeout", "connect", "http_403", "http_429",
                           "http_500", "http_502", "http_503"}
    /\ Http!Attempt(a)
    /\ IF a = "ok"
       THEN /\ outcome' = [error |-> "none", facts |-> OrderEvidence(asked.order)]
            /\ lookup' = "done"
       ELSE IF Http!InProgress' THEN UNCHANGED <<outcome, lookup>>
                                ELSE Fail(ErrorOf(a))
    /\ UNCHANGED <<asked, params>>

LookupFinished == lookup = "done" /\ UNCHANGED lookupVars

LookupNext ==
    \/ CheckOwnership
    \/ \E a \in Http!HttpAnswer : AskBuenPick(a)
    \/ LookupFinished

LookupSpec == LookupInit /\ [][LookupNext]_lookupVars

-----------------------------------------------------------------------------
(* G-010 and G-011: facts about an order are evidence only when the caller *)
(* gave one proof and the order belongs to it; a pickup code is never made *)
(* up.  Nothing goes over the network when two proofs were given, and a    *)
(* lookup that fails ends with an error code and no evidence.              *)
OnlyOwnedOrdersAreTold ==
    /\ outcome.facts # {} =>
          /\ asked.order \in Orders
          /\ {asked.phone, asked.reference} \cap OwnerOf[asked.order] # {}
    /\ "pickup_code" \in outcome.facts => asked.order \in WithCode
    /\ replies # <<>> => ~(Present(asked.phone) /\ Present(asked.reference))
    /\ lookup = "done" => (outcome.error = "none" <=> outcome.facts # {})

(* G-012 for orders: only transient answers are asked again about, within  *)
(* the budget.                                                             *)
LookupIsBounded ==
    /\ Len(replies) <= LookupAttempts
    /\ \A i \in 1..(Len(replies) - 1) :
          replies[i] \in {"timeout", "http_429", "http_500", "http_503"}

=============================================================================
