------------------------------- MODULE MCPdv -------------------------------
(* A small company for TLC: one month, its book and its return. *)
EXTENDS Pdv, TLC

CONSTANTS r1, r2, e1, e2, n1, n2

MCZahtjev == {r1, r2}
MCRacun == {e1, e2}
MCNalog == {n1, n2}
Simetrija == Permutations(Zahtjev) \cup Permutations(Racun) \cup Permutations(Nalog)
=============================================================================
