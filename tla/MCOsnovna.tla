----------------------------- MODULE MCOsnovna -----------------------------
(* Two periods and three batches, one of both periods. *)
EXTENDS Osnovna, TLC

CONSTANTS r1, r2, masina, vozilo

ZahtjevMC == {r1, r2}
Simetrija == Permutations(ZahtjevMC)
SredstvoMC == {masina, vozilo}
GodinaMC == <<1, 1>>
OdMC == <<1, 1, 2>>
DoMC == <<1, 2, 2>>
=============================================================================
