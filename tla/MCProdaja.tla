----------------------------- MODULE MCProdaja -----------------------------
(* Two requests at a time; every channel; receipts paid in cash and by bank transfer. *)
EXTENDS Prodaja, TLC

CONSTANTS w1, w2

MCRadnik == {w1, w2}
Simetrija == Permutations(MCRadnik)
MCKanal == {[tip |-> t, mjesto |-> m, virman |-> FALSE] :
              t \in {"POS", "KANC"}, m \in {"AGENCIJA", "PORTAL"}}
           \cup {[tip |-> "POS", mjesto |-> "AGENCIJA", virman |-> TRUE]}
=============================================================================
