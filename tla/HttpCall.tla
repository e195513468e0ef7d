------------------------------ MODULE HttpCall ------------------------------
(***************************************************************************)
(* The retry loop that BuenPickClient._request and the two LLM adapters    *)
(* share: up to max_attempts requests, one after the other, where only a   *)
(* timeout and certain statuses are worth another attempt.  The sleeps in  *)
(* between are left out.                                                   *)
(*                                                                         *)
(* An answer is "ok", "invalid" (2xx with a body that does not validate),  *)
(* "timeout", "connect" (any other RequestError) or an error status.       *)
(***************************************************************************)
EXTENDS Naturals, Sequences

CONSTANTS Retryable,    \* the answers the loop tries again after
          MaxAttempts

VARIABLE answers        \* the answers of the call so far, in order

HttpAnswer == {"ok", "invalid", "timeout", "connect", "http_400", "http_401",
               "http_403", "http_404", "http_429", "http_500", "http_502",
               "http_503"}

Final == answers[Len(answers)]

(* A defective InProgress: the loop makes one request too many.            *)
InProgressOnceMore ==
    answers # <<>> => Final \in Retryable /\ Len(answers) <= MaxAttempts

(* The loop goes on: nothing was asked yet, or `continue` was reached.     *)
InProgress ==
    answers # <<>> => Final \in Retryable /\ Len(answers) < MaxAttempts

(* One more request and its answer.                                        *)
Attempt(a) ==
    /\ InProgress
    /\ answers' = Append(answers, a)

=============================================================================
