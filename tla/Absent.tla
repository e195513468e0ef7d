------------------------------- MODULE Absent -------------------------------
(***************************************************************************)
(* The absence of a value: a NULL column, an absent Redis key, None.       *)
(***************************************************************************)
CONSTANT None

=============================================================================
