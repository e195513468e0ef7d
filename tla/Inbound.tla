------------------------------ MODULE Inbound -------------------------------
(***************************************************************************)
(* The identities every component shares.  A message is an inbound         *)
(* WhatsApp message, named by its external_message_id; the reply row, the  *)
(* delivery attempt and the handoff that belong to it carry keys derived   *)
(* from that id ("piki-reply:", "reply:" and "handoff:" prefixes), so they *)
(* are functions of the message here.                                      *)
(***************************************************************************)
EXTENDS Absent

CONSTANT Messages       \* inbound messages

ASSUME NoneAssumption == None \notin Messages

=============================================================================
