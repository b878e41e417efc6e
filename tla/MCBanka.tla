------------------------------ MODULE MCBanka ------------------------------
EXTENDS Banka, TLC

CONSTANTS r1, r2
Radnici == {r1, r2}
Simetrija == Permutations(Radnici)

UplataMC == <<2, 1>>
PriloziMC == <<{1, 2}>>
PriloziNista == <<>>
=============================================================================
