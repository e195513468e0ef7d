------------------------- MODULE MCExternalServices -------------------------
(***************************************************************************)
(* An instance of ExternalServices for TLC.                                *)
(***************************************************************************)
EXTENDS ExternalServices, TLC

CONSTANTS p1, p2, p3, p4, t1, t10, other

(* Three picks, one of them a surprise bag whose title holds an internal   *)
(* marker, and a token only that one has; "1" occurs in "10".  All three   *)
(* are too many for the prompt, two are too many for the fallback.  A      *)
(* fourth pick has a title or an id that is too long to be evidence.       *)
MCTokensOf == p1 :> {t10} @@ p2 :> {t10, other} @@ p3 :> {t1}
              @@ p4 :> {other}

MCWithin == t1 :> {t1} @@ t10 :> {t1, t10} @@ other :> {other}

(* An order of the caller's and one of somebody else's.                    *)
MCOwnerOf == [o \in {"o1", "o2"} |-> IF o = "o1" THEN {"mine"} ELSE {"other"}]

=============================================================================
