--------------------------- MODULE MCSharedState ----------------------------
(***************************************************************************)
(* An instance of SharedState for TLC.                                     *)
(***************************************************************************)
EXTENDS SharedState, TLC

CONSTANTS m1, m2, m3, m4, w1, w2, w3, c1, c2, a1, a2, a3, a4

(* The handoffs of three messages compete in one conversation.             *)
MCConversationOf == m1 :> c1 @@ m2 :> c2 @@ m3 :> c1 @@ m4 :> c1

(* Two posts to one conversation, and one that uses the id of the first in *)
(* another.                                                                *)
MCIdOf == w1 :> m1 @@ w2 :> m2 @@ w3 :> m1
MCScopeOf == w1 :> c1 @@ w2 :> c1 @@ w3 :> c2

(* A question for a choice, one for an order, and two payloads that do not *)
(* validate.                                                               *)
MCPayloadOf ==
    a1 :> [kind |-> "select_pick", subject |-> None, candidates |-> <<"p1", "p2">>]
    @@ a2 :> [kind |-> "provide_order_ownership", subject |-> "o1",
              candidates |-> <<>>]
    @@ a3 :> [kind |-> "select_pick", subject |-> None, candidates |-> <<"p1", "p1">>]
    @@ a4 :> [kind |-> "provide_order_ownership", subject |-> None,
              candidates |-> <<>>]

(* Handlers, composed texts and the handoffs of two messages are           *)
(* interchangeable: nothing names one of them.                             *)
MCSymmetry == Permutations({m3, m4}) \cup Permutations(Workers) \cup Permutations(Texts)

=============================================================================
