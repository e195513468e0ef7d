--------------------------- MODULE MCMetaIngress ----------------------------
(***************************************************************************)
(* An instance of MetaIngress for TLC: two webhooks that lock two          *)
(* conversations in opposite orders, the first with a callback that can    *)
(* come before its attempt is known, and one webhook that is refused for   *)
(* one of its messages.                                                    *)
(***************************************************************************)
EXTENDS MetaIngress, TLC

CONSTANTS m1, m2, m3, m4, c1, c2, r1, r2, r3, a1

MCConversationOf == m1 :> c1 @@ m2 :> c2 @@ m3 :> c1 @@ m4 :> c1

Raw(type, part, text) == [type |-> type, part |-> part, text |-> text]

(* Two texts, an image without a caption, a sticker, a text of blanks.     *)
MCPayloadOf == m1 :> Raw("text", TRUE, "some") @@ m2 :> Raw("image", TRUE, "none")
               @@ m3 :> Raw("sticker", FALSE, "none") @@ m4 :> Raw("text", TRUE, "blank")

Hooked(messages, statuses) ==
    [signed |-> TRUE, asset |-> "ours", messages |-> messages, statuses |-> statuses]

Delivered(a) == [attempt |-> a, status |-> "delivered", error |-> FALSE]

MCWebhooks == "w1" :> Hooked(<<m1, m2>>, <<Delivered(a1)>>)
              @@ "w2" :> Hooked(<<m2, m3>>, <<>>)
              @@ "w3" :> Hooked(<<m1, m4>>, <<>>)

MCSlots == r1 :> "w1" @@ r2 :> "w2" @@ r3 :> "w3"

=============================================================================
