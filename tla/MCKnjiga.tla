----------------------------- MODULE MCKnjiga -----------------------------
(***************************************************************************)
(* Small instances of Knjiga for TLC.  A journal has two lines: one on a   *)
(* partner's card and its counterpart on a card without analytics.         *)
(***************************************************************************)
EXTENDS KnjigaInv, Sequences, TLC

CONSTANTS kupac, blagajna, r1, r2

MCKartica == {kupac, blagajna}
MCAnalitika == {kupac}
MCZahtjev == {r1, r2}
Simetrija == Permutations(Zahtjev)

Unos(k, x, y) == <<[kartica |-> k, iznos |-> x], [kartica |-> blagajna, iznos |-> y]>>

\* An invoice, its payment, and a draft that does not balance.
Racun == Unos(kupac, 2, -2)
Uplata == Unos(kupac, -2, 2)
Nebalansiran == Unos(kupac, 2, -1)
SamoRacun == {Racun}
RacunIUplata == {Racun, Uplata}
RacunINebalansiran == {Racun, Nebalansiran}

\* A company that starts with the posted journals N and their lines S.
InitSa(N, S) ==
  /\ zakljucena = [g \in Godina |-> FALSE]
  /\ nalozi = [n \in Nalog |-> IF n \in DOMAIN N THEN N[n] ELSE PrazanNalog]
  /\ stavke = [s \in Stavka |-> IF s \in DOMAIN S THEN S[s] ELSE PraznaStavka]
  /\ zatvaranja = {}
  /\ prenosi = {}
  /\ brave = [x \in Red |-> Niko]
  /\ zahtjevi = [r \in Zahtjev |-> Mirovanje]

Knjizeno(g, vrsta) == [status |-> "POSTED", godina |-> g, datum |-> DatumOd(g), vrsta |-> vrsta]
Stavke(n, x) == <<[nalog |-> n, kartica |-> kupac, iznos |-> x],
                  [nalog |-> n, kartica |-> blagajna, iznos |-> -x]>>

\* An invoice and its payment in the first year.
SpecJednaGodina ==
  /\ InitSa(<<Knjizeno(1, "OBICAN"), Knjizeno(1, "OBICAN")>>, Stavke(1, 2) \o Stavke(2, -2))
  /\ [][Next]_vars

\* An invoice of the first year, paid in the second.
SpecDvijeGodine ==
  /\ InitSa(<<Knjizeno(1, "OBICAN"), Knjizeno(2, "OBICAN")>>, Stavke(1, 2) \o Stavke(2, -2))
  /\ [][Next]_vars

\* The same two journals, and a server that runs its requests on.
SpecPravicna == SpecDvijeGodine /\ Pravicnost
=============================================================================
