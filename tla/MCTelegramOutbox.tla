-------------------------- MODULE MCTelegramOutbox ---------------------------
(***************************************************************************)
(* Ann, who is the owner too, and Bob; batches of one, so that a row that  *)
(* is not marked keeps the next one waiting.                               *)
(***************************************************************************)
EXTENDS TelegramOutbox

MCKind   == [r \in Rows |-> CASE r \in {1, 2} -> "order" [] r = 3 -> "deposit"
                              [] r = 4 -> "stock" [] OTHER -> "owner"]
MCReader == [r \in Rows |-> CASE r \in {1, 5} -> "ann" [] OTHER -> "bob"]
=============================================================================
