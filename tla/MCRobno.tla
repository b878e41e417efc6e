------------------------------ MODULE MCRobno ------------------------------
EXTENDS Robno, TLC

CONSTANTS m1, m2, a, b, r1, r2

MagacinMC == {m1, m2}
ArtikalMC == {a, b}
ZahtjevMC == {r1, r2}
Simetrija == Permutations(ZahtjevMC)

\* Documents by kind, at m1; a transfer goes to m2.
DokumentMC == 1..6
VrstaMC == <<"kalkulacija", "prenos", "popis", "povrat", "povrat", "prodaja">>
MjestoMC == [d \in DokumentMC |-> m1]
OdredisteMC == [d \in DokumentMC |-> IF VrstaMC[d] = "prenos" THEN m2 ELSE m1]
IzvorMC == [d \in DokumentMC |-> IF VrstaMC[d] = "povrat" THEN 1 ELSE d]
RobaMC == [d \in DokumentMC |-> IF VrstaMC[d] = "prenos" THEN {a, b} ELSE {a}]
=============================================================================
