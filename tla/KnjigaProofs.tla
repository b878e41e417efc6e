---------------------------- MODULE KnjigaProofs ----------------------------
(***************************************************************************)
(* Proofs about Knjiga, for any number of requests, journals, lines,       *)
(* years and amounts.  First that IInv is inductive, and with it the       *)
(* ledger's types, its settlements, its carry records and its one opening  *)
(* balance a year.  Then, from IInv, what a commit may never do to         *)
(* journals, to the lines that settlements name and to the settlements of  *)
(* a card, and that every step of the ledger is a step, or a stutter, of   *)
(* OtvoreneStavke.  Then, from what a plan settles along each side of a    *)
(* card, that no line is ever settled beyond its amount: the locks and the *)
(* second reading of writeSettlementPair give, in IInv, that the edges     *)
(* about to be committed fit their lines; what is added is that the sums   *)
(* over edges are sums of natural numbers over finite sets, so that a      *)
(* commit adds them and a cancellation makes them no larger.  Then that    *)
(* the ledger's own proposals pass the check they are put to.  At the end, *)
(* about PlanPetlja: the loops of oldestSettlementPlan return the plan     *)
(* that the ledger's model uses.                                           *)
(***************************************************************************)
EXTENDS KnjigaInv, PlanPetlja, Zbirovi, FiniteSetTheorems, TLAPS

---------------------------------------------------------------------------
(* Locks are different rows *)

\* Every lock that a request names is one of Red.
LEMMA RedoviPostoje ==
  /\ Firma \in Red
  /\ \A g \in Godina : RedGodine(g) \in Red /\ Savjetna(g) \in Red
  /\ \A n \in Nalog : RedNaloga(n) \in Red
BY DEF Red

---------------------------------------------------------------------------
(* What a step of request r leaves to the other requests: what they know   *)
(* and the locks they hold,                                                *)

Ostali(r) ==
  \A q \in Zahtjev \ {r} :
    /\ zahtjevi'[q] = zahtjevi[q]
    /\ \A x \in Red : brave'[x] = q <=> brave[x] = q

(* and of the tables: the rows they hold and the identifiers they mention. *)

DrugiDrzi(r, x) == \E q \in Zahtjev \ {r} : Drzi(q, x)

Redovi(r) ==
  /\ \A n \in Nalog : Postoji(n) /\ DrugiDrzi(r, RedNaloga(n)) =>
       /\ nalozi'[n] = nalozi[n]
       /\ \A s \in Stavka : n \in {stavke[s].nalog, stavke'[s].nalog} => stavke'[s] = stavke[s]
  /\ \A n \in Nalog : nalozi'[n].status # "NEMA" =>
       \/ Postoji(n) /\ nalozi'[n].godina = nalozi[n].godina
       \/ n \in SvjeziNalozi
  /\ \A s \in Stavka : stavke'[s].nalog \in {stavke[s].nalog, Nema} \/ s \in SvjezeStavke
  /\ \A g \in Godina : DrugiDrzi(r, Savjetna(g)) /\ ~ImaPocetno(g) => ~ImaPocetno(g)'
  /\ DrugiDrzi(r, Firma) => zatvaranja' = zatvaranja
  /\ \A g \in Godina : DrugiDrzi(r, RedGodine(g)) => zakljucena'[g] = zakljucena[g]

\* A journal whose lines stay as they are keeps its balance.
LEMMA BalansStoji ==
  ASSUME NEW n \in Nalog,
         \A s \in Stavka : n \in {stavke[s].nalog, stavke'[s].nalog} => stavke'[s] = stavke[s]
  PROVE  Balansiran(n)' <=> Balansiran(n)
<1>1. StavkeNaloga(n)' = StavkeNaloga(n)
  BY DEF StavkeNaloga
<1>2. \A s \in StavkeNaloga(n) : stavke'[s] = stavke[s]
  BY DEF StavkeNaloga
<1>3. [s \in StavkeNaloga(n) |-> stavke[s].iznos]' = [s \in StavkeNaloga(n) |-> stavke[s].iznos]
  BY <1>1, <1>2
<1>4. Zbir(StavkeNaloga(n))' = Zbir(StavkeNaloga(n))
  BY <1>3 DEF Zbir
<1> QED
  BY <1>1, <1>2, <1>4 DEF Balansiran

\* What another request relies on, a step of r does not take away.
LEMMA Okvir ==
  ASSUME NEW r, NEW q \in Zahtjev \ {r}, TypeOK, ZahtjevOK(q), Ostali(r), Redovi(r)
  PROVE  ZahtjevOK(q)'
<1>1. PICK z : z = zahtjevi[q] /\ z = zahtjevi'[q]
  BY DEF Ostali
<1>2. JeZahtjev(z)
  BY <1>1 DEF TypeOK
<1>3. \A x \in Red : Drzi(q, x)' <=> Drzi(q, x)
  BY DEF Ostali, Drzi
<1>4. z.godina \in Godina /\ z.nalog \in Nalog \cup {Nema}
      /\ \A i \in z.slika : i.id \in Stavka /\ i.nalog \in Nalog
  BY <1>2 DEF JeZahtjev
<1>5. ASSUME NEW n \in Nalog, n = z.nalog \/ \E i \in z.slika : i.nalog = n, Postoji(n)'
      PROVE  Postoji(n) /\ nalozi'[n].godina = nalozi[n].godina
  <2>1. n \notin SvjeziNalozi
    BY <1>1, <1>5 DEF SvjeziNalozi
  <2> QED
    BY <2>1, <1>5 DEF Redovi, DrugiDrzi, Postoji
<1>6. CekaOK(q)'
  BY <1>1 DEF ZahtjevOK, CekaOK
<1>7. KnjizenjeOK(q)'
  <2>1. ASSUME z.pc \in {"postYear", "postCheck", "postCommit"}
        PROVE  z.nalog \in Nalog /\ (Postoji(z.nalog)' => nalozi'[z.nalog].godina = z.godina)
    BY <2>1, <1>1, <1>5 DEF ZahtjevOK, KnjizenjeOK
  <2>2. ASSUME z.pc \in {"postCheck", "postCommit"}
        PROVE  Drzi(q, RedGodine(z.godina))'
    BY <2>2, <1>1, <1>3, <1>4, RedoviPostoje DEF ZahtjevOK, KnjizenjeOK
  <2>3. ASSUME z.pc = "postCommit"
        PROVE  Drzi(q, RedNaloga(z.nalog))' /\ SmijeSeKnjiziti(z.nalog)'
    <3>0. PICK n : n = z.nalog
      OBVIOUS
    <3>1. /\ n \in Nalog /\ Drzi(q, RedNaloga(n)) /\ SmijeSeKnjiziti(n)
          /\ Drzi(q, RedGodine(z.godina)) /\ (Postoji(n) => nalozi[n].godina = z.godina)
      BY <3>0, <2>3, <1>1 DEF ZahtjevOK, KnjizenjeOK
    <3>2. Postoji(n)
      BY <3>1 DEF SmijeSeKnjiziti, Postoji
    <3>3. /\ nalozi'[n] = nalozi[n]
          /\ \A s \in Stavka : n \in {stavke[s].nalog, stavke'[s].nalog} => stavke'[s] = stavke[s]
      BY <3>1, <3>2 DEF Redovi, DrugiDrzi
    <3>4. Balansiran(n)'
      BY <3>1, <3>3, BalansStoji DEF SmijeSeKnjiziti
    <3>5. zakljucena'[z.godina] = zakljucena[z.godina]
      BY <3>1, <1>4 DEF Redovi, DrugiDrzi
    <3>6. SmijeSeKnjiziti(n)'
      BY <3>1, <3>2, <3>3, <3>4, <3>5, <1>1 DEF SmijeSeKnjiziti
    <3> QED
      BY <3>0, <3>1, <3>6, <1>3, RedoviPostoje
  <2> QED
    BY <2>1, <2>2, <2>3, <1>1 DEF KnjizenjeOK
<1>8. PocetnoOK(q)'
  BY <1>1, <1>3, <1>4, RedoviPostoje DEF ZahtjevOK, PocetnoOK, Redovi, DrugiDrzi
<1>9. SlikaOK(q)'
  <2>1. ASSUME NEW i \in z.slika
        PROVE  stavke'[i.id].nalog \in {Nema, i.nalog}
    <3>1. i.id \notin SvjezeStavke
      BY <1>1 DEF SvjezeStavke
    <3>2. stavke'[i.id].nalog \in {stavke[i.id].nalog, Nema}
      BY <3>1, <1>4 DEF Redovi, DrugiDrzi
    <3> QED
      BY <3>2, <1>1 DEF ZahtjevOK, SlikaOK
  <2> QED
    BY <2>1, <1>1 DEF SlikaOK
<1>10. ASSUME z.pc \in {"settleCommit", "openingCommit", "carryCommit"}, NEW i \in z.slika
       PROVE  /\ Drzi(q, RedNaloga(i.nalog))' /\ StavkaIsta(i)'
              /\ Postoji(i.nalog) /\ nalozi'[i.nalog] = nalozi[i.nalog]
  <2>1. Drzi(q, RedNaloga(i.nalog)) /\ StavkaIsta(i) /\ stavke[i.id].nalog \in {Nema, i.nalog}
    BY <1>1, <1>10 DEF ZahtjevOK, ZakljucaneOK, SlikaOK
  <2>2. stavke[i.id].nalog = i.nalog /\ Proknjizen(i.nalog) /\ Postoji(i.nalog)
    BY <2>1 DEF StavkaIsta, Proknjizen, Postoji
  <2>3. nalozi'[i.nalog] = nalozi[i.nalog] /\ stavke'[i.id] = stavke[i.id]
    BY <2>1, <2>2, <1>4 DEF Redovi, DrugiDrzi
  <2> QED
    BY <2>1, <2>2, <2>3, <1>3, <1>4, RedoviPostoje DEF StavkaIsta, Proknjizen
<1>11. ZakljucaneOK(q)'
  BY <1>1, <1>10 DEF ZakljucaneOK
<1>12. ZatvaranjeOK(q)'
  <2>1. ASSUME z.pc \in {"settleCheck", "settleCommit"}
        PROVE  Drzi(q, Firma)' /\ zatvaranja' = zatvaranja
    BY <2>1, <1>1, <1>3, RedoviPostoje DEF ZahtjevOK, ZatvaranjeOK, Redovi, DrugiDrzi
  <2>2. ASSUME z.pc = "settleCommit", NEW i \in z.slika
        PROVE  nalozi'[i.nalog].datum <= z.datum /\ StaneUStavku(z, i)'
    <3>1. nalozi[i.nalog].datum <= z.datum /\ StaneUStavku(z, i)
      BY <2>2, <1>1 DEF ZahtjevOK, ZatvaranjeOK
    <3>2. NoveVeze(z)' = NoveVeze(z) /\ AktivneVeze(i.id)' = AktivneVeze(i.id)
      BY <2>1, <2>2 DEF NoveVeze, AktivneVeze, VezeStavke
    <3> QED
      BY <3>1, <3>2, <1>10, <2>2 DEF StaneUStavku
  <2> QED
    BY <2>1, <2>2, <1>1 DEF ZahtjevOK, ZatvaranjeOK
<1>13. PrenosOK(q)'
  <2>1. ASSUME z.pc \in {"openingCheck", "openingCommit", "carryCheck", "carryCommit"},
               NEW i \in z.slika, Postoji(i.nalog)'
        PROVE  nalozi'[i.nalog].godina < z.godina
    BY <2>1, <1>1, <1>4, <1>5 DEF ZahtjevOK, PrenosOK
  <2>2. ASSUME z.pc \in {"carryCheck", "carryCommit"}
        PROVE  z.nalog \in Nalog /\ (Postoji(z.nalog)' => nalozi'[z.nalog].godina = z.godina)
    BY <2>2, <1>1, <1>5 DEF ZahtjevOK, PrenosOK
  <2> QED
    BY <2>1, <2>2, <1>1 DEF PrenosOK
<1> QED
  BY <1>6, <1>7, <1>8, <1>9, <1>11, <1>12, <1>13 DEF ZahtjevOK

---------------------------------------------------------------------------
(* The three ways a step of a request can end, with what each leaves to do *)

\* The first date and the first year exist, so an idle request is well formed.
LEMMA PrviDatum == 1 \in Godina /\ 1 \in Datum
<1>1. BrojGodina * Perioda \in Nat \ {0}
  BY BazaPretpostavke
<1> QED
  BY <1>1, BazaPretpostavke DEF Godina, Datum

\* So does the first date of every year.
LEMMA PrviDatumGodine == \A g \in Godina : DatumOd(g) \in Datum
<1>1. SUFFICES ASSUME NEW g \in Godina PROVE DatumOd(g) \in Datum
  OBVIOUS
<1>2. g \in Nat /\ 1 <= g /\ g <= BrojGodina /\ Perioda \in Nat /\ 1 <= Perioda
      /\ BrojGodina \in Nat
  BY BazaPretpostavke DEF Godina
<1>3. (g - 1) * Perioda >= 0 /\ (g - 1) * Perioda + Perioda = g * Perioda
  BY <1>2
<1>4. g * Perioda <= BrojGodina * Perioda
  BY <1>2
<1> QED
  BY <1>2, <1>3, <1>4 DEF DatumOd, Datum

\* No entered lines: an empty list has no line to check.
LEMMA PrazanUnos == DOMAIN Mirovanje.unos = {}
<1>1. Mirovanje.unos = << >>
  BY DEF Mirovanje
<1>2. DOMAIN << >> = {}
  OBVIOUS
<1> QED
  BY <1>1, <1>2

\* A request that ends leaves the others alone and relies on nothing.
LEMMA Kraj ==
  ASSUME NEW r \in Zahtjev, TypeOK, Zavrsi(r)
  PROVE  /\ Ostali(r) /\ ZahtjevOK(r)'
         /\ brave' \in [Red -> Zahtjev \cup {Niko}]
         /\ zahtjevi' = [q \in Zahtjev |-> zahtjevi'[q]]
         /\ \A q \in Zahtjev : JeZahtjev(zahtjevi'[q])
<1>1. zahtjevi'[r] = Mirovanje /\ \A q \in Zahtjev \ {r} : zahtjevi'[q] = zahtjevi[q]
  BY DEF Zavrsi, TypeOK
<1>2. Ostali(r)
  BY <1>1, BazaPretpostavke DEF Ostali, Zavrsi, SaPustenim, TypeOK
<1>3. ZahtjevOK(r)'
  BY <1>1 DEF ZahtjevOK, CekaOK, KnjizenjeOK, PocetnoOK, SlikaOK, ZakljucaneOK,
              ZatvaranjeOK, PrenosOK, Mirovanje
<1>4. JeZahtjev(Mirovanje)
  BY PrviDatum DEF JeZahtjev, Mirovanje, Koraci, Vrsta
<1>5. zahtjevi' = [q \in Zahtjev |-> zahtjevi'[q]]
  BY DEF Zavrsi, TypeOK
<1>6. brave' \in [Red -> Zahtjev \cup {Niko}]
  BY DEF Zavrsi, SaPustenim, TypeOK
<1> QED
  BY <1>1, <1>2, <1>3, <1>4, <1>5, <1>6 DEF TypeOK

\* The tables' share of IInv.
TabeleOK ==
  /\ zakljucena \in [Godina -> BOOLEAN]
  /\ nalozi \in [Nalog -> NalogTip]
  /\ stavke = [s \in Stavka |-> stavke[s]] /\ \A s \in Stavka : JeStavka(stavke[s])
  /\ \A v \in zatvaranja : JeVeza(v)
  /\ prenosi \subseteq Nalog \X Stavka
  /\ VezeIspravne /\ PrenosiIspravni /\ JednoPocetno

\* A commit that respects the other requests' rows leaves only the tables to check.
LEMMA UpisOK ==
  ASSUME NEW r \in Zahtjev, IInv, Zavrsi(r), Redovi(r), TabeleOK'
  PROVE  IInv'
<1>1. \A q \in Zahtjev : ZahtjevOK(q)'
  BY Kraj, Okvir DEF IInv
<1>2. TypeOK'
  BY Kraj DEF IInv, TypeOK, TabeleOK
<1> QED
  BY <1>1, <1>2 DEF IInv, TabeleOK

\* Tables that nothing changes disturb nobody.
LEMMA IsteTabele ==
  ASSUME NEW r, IInv, UNCHANGED tabele
  PROVE  Redovi(r) /\ TabeleOK'
<1>1. Redovi(r)
  BY DEF Redovi, Postoji, ImaPocetno, Pocetno, tabele
<1>2. TabeleOK
  BY DEF TabeleOK, IInv, TypeOK
<1>3. TabeleOK'
  BY <1>2 DEF TabeleOK, tabele, JeStavka, JeVeza, VezeIspravne, PrenosiIspravni, JednoPocetno,
              Aktivna, Postoji, Pocetno, Proknjizen
<1> QED
  BY <1>1, <1>3

\* A request that gives up changes nothing.
LEMMA OdustajanjeOK ==
  ASSUME NEW r \in Zahtjev, IInv, Odustani(r)
  PROVE  IInv'
BY IsteTabele, UpisOK DEF Odustani

\* A request that goes on with k and may have locked free rows.
Zakljucava(r) ==
  /\ brave' \in [Red -> Zahtjev \cup {Niko}]
  /\ \A x \in Red : brave'[x] = brave[x] \/ (Slobodno(r, x) /\ brave'[x] = r)

LEMMA NastavakOK ==
  ASSUME NEW r \in Zahtjev, NEW k, IInv, UNCHANGED tabele, Nastavi(r, k), Zakljucava(r),
         JeZahtjev(k), ZahtjevOK(r)'
  PROVE  IInv'
<1>1. zahtjevi'[r] = k /\ \A q \in Zahtjev \ {r} : zahtjevi'[q] = zahtjevi[q]
  BY DEF Nastavi, IInv, TypeOK
<1>2. Ostali(r)
  BY <1>1, BazaPretpostavke DEF Ostali, Zakljucava, Slobodno
<1>3. \A q \in Zahtjev : ZahtjevOK(q)'
  BY <1>2, IsteTabele, Okvir DEF IInv
<1>4. zahtjevi' = [q \in Zahtjev |-> zahtjevi'[q]]
  BY DEF Nastavi, IInv, TypeOK
<1>5. \A q \in Zahtjev : JeZahtjev(zahtjevi'[q])
  BY <1>1 DEF IInv, TypeOK
<1>6. TypeOK'
  BY <1>4, <1>5, IsteTabele DEF TypeOK, TabeleOK, Zakljucava
<1> QED
  BY <1>3, <1>6, IsteTabele DEF IInv, TabeleOK

\* The two ways the code locks: not at all, and rows that are free.
LEMMA BezNovihBrava ==
  ASSUME NEW r, IInv, UNCHANGED brave
  PROVE  Zakljucava(r)
BY DEF Zakljucava, IInv, TypeOK

LEMMA NoveBrave ==
  ASSUME NEW r \in Zahtjev, NEW X, IInv, \A x \in X : Slobodno(r, x), brave' = SaZakljucanim(r, X)
  PROVE  /\ Zakljucava(r)
         /\ \A x \in X \cap Red : Drzi(r, x)'
         /\ \A x \in Red : Drzi(r, x) => Drzi(r, x)'
BY DEF Zakljucava, SaZakljucanim, Drzi, IInv, TypeOK

---------------------------------------------------------------------------
(* Steps of requests that change no table, module Nalozi *)

LEMMA NovoZnanje ==
  ASSUME NEW r \in Zahtjev, NEW k, IInv, Nastavi(r, k)
  PROVE  zahtjevi'[r] = k
BY DEF Nastavi, IInv, TypeOK

\* A request that only remembers rows to wait for, at a step that has checked
\* nothing yet, relies on nothing else.
LEMMA PrviKorak ==
  ASSUME NEW r \in Zahtjev, NEW k, IInv, UNCHANGED tabele, Nastavi(r, k), Zakljucava(r),
         JeZahtjev(k), k.slika = {},
         k.pc \in {"createLock", "createWrite", "importYear", "openingLock", "preview",
                   "cancelPreview", "updateWrite", "reopenWrite", "deleteWrite"},
         k.pc = "createWrite" => k.vrsta = "OBICAN",
         k.pc \in {"createLock", "openingLock"} => Savjetna(k.godina) \in k.ceka,
         k.pc = "importYear" => RedGodine(k.godina) \in k.ceka,
         k.pc \in {"updateWrite", "reopenWrite", "deleteWrite"} =>
           k.nalog \in Nalog /\ RedNaloga(k.nalog) \in k.ceka
  PROVE  IInv'
<1>1. zahtjevi'[r] = k
  BY NovoZnanje
<1>2. ZahtjevOK(r)'
  BY <1>1 DEF ZahtjevOK, CekaOK, KnjizenjeOK, PocetnoOK, SlikaOK, ZakljucaneOK,
              ZatvaranjeOK, PrenosOK
<1> QED
  BY <1>2, NastavakOK

LEMMA CreateJournalCheckOK ==
  ASSUME NEW r \in Zahtjev, NEW g \in Godina, NEW d \in Datum, NEW vrsta \in Vrsta,
         NEW u \in Unosi, IInv, CreateJournalCheck(r, g, d, vrsta, u)
  PROVE  IInv'
<1>1. PICK k : /\ k = [Mirovanje EXCEPT
                     !.pc = IF vrsta = "OBICAN" THEN "createWrite" ELSE "createLock",
                     !.godina = g, !.datum = d, !.vrsta = vrsta, !.unos = u,
                     !.ceka = IF vrsta = "OBICAN" THEN DijeliUpis(g) ELSE {Savjetna(g)}]
               /\ Nastavi(r, k)
  BY DEF CreateJournalCheck
<1>2. JeZahtjev(k)
  BY <1>1, PrviDatum, RedoviPostoje, NaloziPretpostavke
    DEF JeZahtjev, Mirovanje, DijeliUpis, Koraci, Nema
<1>3. UNCHANGED <<tabele, brave>>
  BY DEF CreateJournalCheck
<1> QED
  BY <1>1, <1>2, <1>3, BezNovihBrava, PrviKorak DEF Mirovanje

\* The row locks a step waits for are free for it when it goes on.
LEMMA Cekano ==
  ASSUME NEW r \in Zahtjev, NEW x \in zahtjevi[r].ceka, MozeDalje(r)
  PROVE  Slobodno(r, x)
BY DEF MozeDalje

LEMMA CreateJournalLockOK ==
  ASSUME NEW r \in Zahtjev, IInv, CreateJournalLock(r)
  PROVE  IInv'
<1>1. PICK z : z = zahtjevi[r] /\ JeZahtjev(z) /\ z.pc = "createLock"
  BY DEF CreateJournalLock, IInv, TypeOK
<1>2. CASE Odustani(r)
  BY <1>2, OdustajanjeOK
<1>3. CASE ~Odustani(r)
  <2>1. PICK k : /\ k = [z EXCEPT !.pc = "createWrite", !.ceka = DijeliUpis(z.godina)]
                 /\ Nastavi(r, k)
                 /\ brave' = SaZakljucanim(r, {Savjetna(z.godina)})
                 /\ ~ImaPocetno(z.godina)
                 /\ UNCHANGED tabele
    BY <1>1, <1>3 DEF CreateJournalLock
  <2>2. JeZahtjev(k)
    BY <1>1, <2>1, RedoviPostoje DEF JeZahtjev, DijeliUpis, Koraci
  <2>3. Slobodno(r, Savjetna(z.godina)) /\ z.godina \in Godina
    BY <1>1, Cekano DEF CreateJournalLock, IInv, ZahtjevOK, CekaOK, JeZahtjev
  <2>4. Zakljucava(r) /\ Drzi(r, Savjetna(z.godina))'
    BY <2>1, <2>3, NoveBrave, RedoviPostoje
  <2>5. zahtjevi'[r] = k /\ k.pc = "createWrite" /\ k.godina = z.godina /\ k.slika = z.slika
    BY <1>1, <2>1, NovoZnanje DEF JeZahtjev
  <2>6. ~ImaPocetno(z.godina)' /\ SlikaOK(r)'
    BY <1>1, <2>1, <2>5 DEF ImaPocetno, Postoji, Pocetno, tabele, IInv, ZahtjevOK, SlikaOK
  <2>7. ZahtjevOK(r)'
    BY <2>4, <2>5, <2>6 DEF ZahtjevOK, CekaOK, KnjizenjeOK, PocetnoOK, ZakljucaneOK,
                            ZatvaranjeOK, PrenosOK
  <2> QED
    BY <2>1, <2>2, <2>4, <2>7, NastavakOK
<1> QED
  BY <1>2, <1>3
LEMMA OpeningImportCompanyOK ==
  ASSUME NEW r \in Zahtjev, NEW g \in Godina, NEW u \in Unosi, IInv,
         OpeningImportCompany(r, g, u)
  PROVE  IInv'
<1>1. PICK k : /\ k = [Mirovanje EXCEPT !.pc = "importYear", !.godina = g, !.unos = u,
                         !.vrsta = "POCETNO_AUTO", !.ceka = {RedGodine(g)}]
               /\ Nastavi(r, k)
  BY DEF OpeningImportCompany
<1>2. JeZahtjev(k)
  BY <1>1, PrviDatum, RedoviPostoje, NaloziPretpostavke
    DEF JeZahtjev, Mirovanje, Koraci, Vrsta, Nema
<1>3. UNCHANGED tabele /\ Zakljucava(r)
  BY NoveBrave DEF OpeningImportCompany
<1> QED
  BY <1>1, <1>2, <1>3, PrviKorak DEF Mirovanje

LEMMA OpeningImportYearOK ==
  ASSUME NEW r \in Zahtjev, IInv, OpeningImportYear(r)
  PROVE  IInv'
<1>1. PICK z : z = zahtjevi[r] /\ JeZahtjev(z) /\ z.pc = "importYear"
  BY DEF OpeningImportYear, IInv, TypeOK
<1>2. CASE Odustani(r)
  BY <1>2, OdustajanjeOK
<1>3. CASE ~Odustani(r)
  <2>1. PICK k : /\ k = [z EXCEPT !.pc = "importWrite", !.ceka = {Savjetna(z.godina)}]
                 /\ Nastavi(r, k)
                 /\ brave' = SaZakljucanim(r, {RedGodine(z.godina)})
                 /\ UNCHANGED tabele
    BY <1>1, <1>3 DEF OpeningImportYear
  <2>2. JeZahtjev(k)
    BY <1>1, <2>1, RedoviPostoje DEF JeZahtjev, Koraci
  <2>3. Slobodno(r, RedGodine(z.godina))
    BY <1>1, Cekano DEF OpeningImportYear, IInv, ZahtjevOK, CekaOK
  <2>4. Zakljucava(r)
    BY <2>1, <2>3, NoveBrave
  <2>5. /\ zahtjevi'[r] = k /\ k.pc = "importWrite" /\ k.slika = z.slika
        /\ Savjetna(k.godina) \in k.ceka
    BY <1>1, <2>1, NovoZnanje DEF JeZahtjev
  <2>6. SlikaOK(r)'
    BY <1>1, <2>1, <2>5 DEF tabele, IInv, ZahtjevOK, SlikaOK
  <2>7. ZahtjevOK(r)'
    BY <2>5, <2>6 DEF ZahtjevOK, CekaOK, KnjizenjeOK, PocetnoOK, ZakljucaneOK,
                      ZatvaranjeOK, PrenosOK
  <2> QED
    BY <2>1, <2>2, <2>4, <2>7, NastavakOK
<1> QED
  BY <1>2, <1>3

LEMMA UpdateDraftCheckOK ==
  ASSUME NEW r \in Zahtjev, NEW n \in Nalog, NEW u \in Unosi, IInv, UpdateDraftCheck(r, n, u)
  PROVE  IInv'
<1>1. PICK k : /\ k = [Mirovanje EXCEPT !.pc = "updateWrite", !.nalog = n, !.unos = u,
                         !.ceka = {RedNaloga(n)}]
               /\ Nastavi(r, k)
  BY DEF UpdateDraftCheck
<1>2. JeZahtjev(k)
  BY <1>1, PrviDatum, RedoviPostoje, NaloziPretpostavke DEF JeZahtjev, Mirovanje, Koraci, Vrsta
<1>3. UNCHANGED tabele /\ Zakljucava(r)
  BY BezNovihBrava DEF UpdateDraftCheck
<1> QED
  BY <1>1, <1>2, <1>3, PrviKorak DEF Mirovanje

LEMMA ReopenJournalCheckOK ==
  ASSUME NEW r \in Zahtjev, NEW n \in Nalog, IInv, ReopenJournalCheck(r, n)
  PROVE  IInv'
<1>1. PICK k : /\ k = [Mirovanje EXCEPT !.pc = "reopenWrite", !.nalog = n,
                         !.ceka = {RedNaloga(n)}]
               /\ Nastavi(r, k)
  BY DEF ReopenJournalCheck
<1>2. JeZahtjev(k)
  BY <1>1, PrviDatum, PrazanUnos, RedoviPostoje DEF JeZahtjev, Mirovanje, Koraci, Vrsta
<1>3. UNCHANGED tabele /\ Zakljucava(r)
  BY BezNovihBrava DEF ReopenJournalCheck
<1> QED
  BY <1>1, <1>2, <1>3, PrviKorak DEF Mirovanje

LEMMA DeleteJournalCheckOK ==
  ASSUME NEW r \in Zahtjev, NEW n \in Nalog, IInv, DeleteJournalCheck(r, n)
  PROVE  IInv'
<1>1. PICK k : /\ k = [Mirovanje EXCEPT !.pc = "deleteWrite", !.nalog = n,
                         !.ceka = {RedNaloga(n)}]
               /\ Nastavi(r, k)
  BY DEF DeleteJournalCheck
<1>2. JeZahtjev(k)
  BY <1>1, PrviDatum, PrazanUnos, RedoviPostoje DEF JeZahtjev, Mirovanje, Koraci, Vrsta
<1>3. UNCHANGED tabele /\ Zakljucava(r)
  BY BezNovihBrava DEF DeleteJournalCheck
<1> QED
  BY <1>1, <1>2, <1>3, PrviKorak DEF Mirovanje

LEMMA PostJournalReadOK ==
  ASSUME NEW r \in Zahtjev, NEW n \in Nalog, IInv, PostJournalRead(r, n)
  PROVE  IInv'
<1>1. PICK k : /\ k = [Mirovanje EXCEPT !.pc = "postYear", !.nalog = n,
                         !.godina = nalozi[n].godina, !.ceka = {RedGodine(nalozi[n].godina)}]
               /\ Nastavi(r, k)
  BY DEF PostJournalRead
<1>2. nalozi[n].godina \in Godina
  BY DEF IInv, TypeOK, NalogTip
<1>3. JeZahtjev(k)
  BY <1>1, <1>2, PrviDatum, PrazanUnos, RedoviPostoje DEF JeZahtjev, Mirovanje, Koraci, Vrsta
<1>4. UNCHANGED tabele /\ Zakljucava(r)
  BY BezNovihBrava DEF PostJournalRead
<1>5. /\ zahtjevi'[r] = k /\ k.pc = "postYear" /\ k.slika = {} /\ k.nalog = n
      /\ k.godina = nalozi'[n].godina /\ RedGodine(k.godina) \in k.ceka
  BY <1>1, <1>4, NovoZnanje DEF Mirovanje, tabele
<1>6. ZahtjevOK(r)'
  BY <1>5 DEF ZahtjevOK, CekaOK, KnjizenjeOK, PocetnoOK, SlikaOK, ZakljucaneOK,
              ZatvaranjeOK, PrenosOK
<1> QED
  BY <1>1, <1>3, <1>4, <1>6, NastavakOK

LEMMA PostJournalLockYearOK ==
  ASSUME NEW r \in Zahtjev, IInv, PostJournalLockYear(r)
  PROVE  IInv'
<1>1. PICK z : z = zahtjevi[r] /\ JeZahtjev(z) /\ z.pc = "postYear"
  BY DEF PostJournalLockYear, IInv, TypeOK
<1>2. PICK k : /\ k = [z EXCEPT !.pc = "postCheck", !.ceka = {RedNaloga(z.nalog)}]
               /\ Nastavi(r, k)
               /\ brave' = SaZakljucanim(r, {RedGodine(z.godina)})
               /\ UNCHANGED tabele
  BY <1>1 DEF PostJournalLockYear
<1>3. /\ z.nalog \in Nalog /\ Slobodno(r, RedGodine(z.godina)) /\ z.godina \in Godina
      /\ Postoji(z.nalog) => nalozi[z.nalog].godina = z.godina
  BY <1>1, Cekano DEF PostJournalLockYear, IInv, ZahtjevOK, CekaOK, KnjizenjeOK, JeZahtjev
<1>4. JeZahtjev(k)
  BY <1>1, <1>2, <1>3, RedoviPostoje DEF JeZahtjev, Koraci
<1>5. Zakljucava(r) /\ Drzi(r, RedGodine(z.godina))'
  BY <1>2, <1>3, NoveBrave, RedoviPostoje
<1>6. /\ zahtjevi'[r] = k /\ k.pc = "postCheck" /\ k.slika = z.slika /\ k.nalog = z.nalog
      /\ k.godina = z.godina /\ RedNaloga(k.nalog) \in k.ceka
  BY <1>1, <1>2, NovoZnanje DEF JeZahtjev
<1>7. SlikaOK(r)' /\ KnjizenjeOK(r)'
  BY <1>1, <1>2, <1>3, <1>5, <1>6
    DEF tabele, IInv, ZahtjevOK, SlikaOK, KnjizenjeOK, Postoji
<1>8. ZahtjevOK(r)'
  BY <1>3, <1>6, <1>7 DEF ZahtjevOK, CekaOK, PocetnoOK, ZakljucaneOK, ZatvaranjeOK, PrenosOK
<1> QED
  BY <1>2, <1>4, <1>5, <1>8, NastavakOK

LEMMA PostJournalCheckOK ==
  ASSUME NEW r \in Zahtjev, IInv, PostJournalCheck(r)
  PROVE  IInv'
<1>1. PICK z : z = zahtjevi[r] /\ JeZahtjev(z) /\ z.pc = "postCheck"
  BY DEF PostJournalCheck, IInv, TypeOK
<1>2. CASE Odustani(r)
  BY <1>2, OdustajanjeOK
<1>3. CASE ~Odustani(r)
  <2>1. PICK k : /\ k = [z EXCEPT !.pc = "postCommit", !.ceka = {}]
                 /\ Nastavi(r, k)
                 /\ brave' = SaZakljucanim(r, {RedNaloga(z.nalog)})
                 /\ SmijeSeKnjiziti(z.nalog)
                 /\ UNCHANGED tabele
    BY <1>1, <1>3 DEF PostJournalCheck
  <2>2. JeZahtjev(k)
    BY <1>1, <2>1 DEF JeZahtjev, Koraci
  <2>3. /\ z.nalog \in Nalog /\ Slobodno(r, RedNaloga(z.nalog)) /\ z.godina \in Godina
        /\ Drzi(r, RedGodine(z.godina))
        /\ Postoji(z.nalog) => nalozi[z.nalog].godina = z.godina
    BY <1>1, Cekano DEF PostJournalCheck, IInv, ZahtjevOK, CekaOK, KnjizenjeOK, JeZahtjev
  <2>4. Zakljucava(r) /\ Drzi(r, RedGodine(z.godina))' /\ Drzi(r, RedNaloga(z.nalog))'
    BY <2>1, <2>3, NoveBrave, RedoviPostoje
  <2>5. /\ zahtjevi'[r] = k /\ k.pc = "postCommit" /\ k.slika = z.slika /\ k.nalog = z.nalog
        /\ k.godina = z.godina
    BY <1>1, <2>1, NovoZnanje DEF JeZahtjev
  <2>6. PICK n : n = z.nalog
    OBVIOUS
  <2>7. Balansiran(n)' <=> Balansiran(n)
    BY <2>1, <2>3, <2>6, BalansStoji DEF tabele
  <2>8. SmijeSeKnjiziti(n)'
    BY <2>1, <2>6, <2>7 DEF SmijeSeKnjiziti, tabele
  <2>9. SlikaOK(r)' /\ KnjizenjeOK(r)'
    BY <1>1, <2>1, <2>3, <2>4, <2>5, <2>6, <2>8
      DEF tabele, IInv, ZahtjevOK, SlikaOK, KnjizenjeOK, Postoji
  <2>10. ZahtjevOK(r)'
    BY <2>5, <2>9 DEF ZahtjevOK, CekaOK, PocetnoOK, ZakljucaneOK, ZatvaranjeOK, PrenosOK
  <2> QED
    BY <2>1, <2>2, <2>4, <2>10, NastavakOK
<1> QED
  BY <1>2, <1>3
---------------------------------------------------------------------------
(* Commits of journals *)

UnosOK(unos) == \A i \in DOMAIN unos : unos[i].kartica \in Kartica

\* Replacing journal n's lines: fresh ones come, n's own go, the rest stay.
LEMMA ZamjenaStavki ==
  ASSUME NEW n \in Nalog, NEW unos, UnosOK(unos), Raspored(unos) # {}, TypeOK,
         NEW W, W = SaStavkama(n, unos)
  PROVE  /\ W = [s \in Stavka |-> W[s]]
         /\ \A s \in Stavka :
              /\ JeStavka(W[s])
              /\ \/ s \in SvjezeStavke /\ W[s].nalog = n
                 \/ stavke[s].nalog = n /\ W[s] = PraznaStavka
                 \/ stavke[s].nalog # n /\ W[s] = stavke[s]
<1>1. PICK id : id = NoviIdovi(unos) /\ id \in Raspored(unos)
  BY DEF NoviIdovi
<1>2. \A i \in DOMAIN unos : id[i] \in SvjezeStavke
  BY <1>1 DEF Raspored, Najmanjih
<1>3. W = [s \in Stavka |->
        IF \E i \in DOMAIN unos : id[i] = s
        THEN LET i == CHOOSE i \in DOMAIN unos : id[i] = s
             IN [nalog |-> n, kartica |-> unos[i].kartica, iznos |-> unos[i].iznos]
        ELSE IF stavke[s].nalog = n THEN PraznaStavka ELSE stavke[s]]
  BY <1>1 DEF SaStavkama
<1>4. ASSUME NEW s \in Stavka
      PROVE  /\ JeStavka(W[s])
             /\ \/ s \in SvjezeStavke /\ W[s].nalog = n
                \/ stavke[s].nalog = n /\ W[s] = PraznaStavka
                \/ stavke[s].nalog # n /\ W[s] = stavke[s]
  <2>1. CASE \E i \in DOMAIN unos : id[i] = s
    <3>1. PICK i \in DOMAIN unos :
            /\ id[i] = s
            /\ W[s] = [nalog |-> n, kartica |-> unos[i].kartica, iznos |-> unos[i].iznos]
      <4>1. PICK i : i = CHOOSE j \in DOMAIN unos : id[j] = s
        OBVIOUS
      <4>2. i \in DOMAIN unos /\ id[i] = s
        BY <2>1, <4>1
      <4> QED
        BY <1>3, <2>1, <4>1, <4>2
    <3>2. s \in SvjezeStavke
      BY <1>2, <3>1
    <3> QED
      BY <3>1, <3>2 DEF UnosOK, JeStavka
  <2>2. CASE ~\E i \in DOMAIN unos : id[i] = s
    <3>1. W[s] = IF stavke[s].nalog = n THEN PraznaStavka ELSE stavke[s]
      BY <1>3, <2>2
    <3>2. JeStavka(PraznaStavka) /\ JeStavka(stavke[s])
      BY DEF JeStavka, PraznaStavka, TypeOK
    <3> QED
      BY <3>1, <3>2
  <2> QED
    BY <2>1, <2>2
<1> QED
  BY <1>3, <1>4

\* A new draft disturbs no request and no settled or carried line.
LEMMA NoviNacrt ==
  ASSUME NEW r, IInv, NEW n \in SvjeziNalozi, NEW red \in NalogTip, red.status = "DRAFT",
         NEW unos, UnosOK(unos), Raspored(unos) # {},
         red.vrsta # "OBICAN" =>
           ~ImaPocetno(red.godina) /\ ~DrugiDrzi(r, Savjetna(red.godina)),
         nalozi' = [nalozi EXCEPT ![n] = red], stavke' = SaStavkama(n, unos),
         UNCHANGED <<zakljucena, zatvaranja>>
  PROVE  /\ Redovi(r)
         /\ prenosi' = prenosi => TabeleOK'
         /\ prenosi' \subseteq Nalog \X Stavka /\ PrenosiIspravni' => TabeleOK'
         /\ nalozi'[n] = red /\ \A m \in Nalog \ {n} : nalozi'[m] = nalozi[m]
         /\ \A s \in Stavka : stavke[s].nalog \notin {Nema, n} => stavke'[s] = stavke[s]
<1>1. /\ n \in Nalog /\ ~Postoji(n) /\ nalozi'[n] = red
      /\ \A m \in Nalog \ {n} : nalozi'[m] = nalozi[m]
      /\ nalozi' \in [Nalog -> NalogTip]
  BY DEF SvjeziNalozi, IInv, TypeOK
<1>2. /\ stavke' = [s \in Stavka |-> stavke'[s]]
      /\ \A s \in Stavka :
           /\ JeStavka(stavke'[s])
           /\ \/ s \in SvjezeStavke /\ stavke'[s].nalog = n
              \/ stavke[s].nalog = n /\ stavke'[s] = PraznaStavka
              \/ stavke[s].nalog # n /\ stavke'[s] = stavke[s]
  BY <1>1, ZamjenaStavki DEF IInv
<1>3. \A s \in SvjezeStavke : s \in Stavka /\ stavke[s].nalog = Nema
  BY DEF SvjezeStavke
<1>4. \A s \in Stavka : stavke[s].nalog \notin {Nema, n} => stavke'[s] = stavke[s]
  BY <1>2, <1>3
<1>5. Nema \notin Nalog
  BY BazaPretpostavke DEF Nema
<1>6. Redovi(r)
  <2>1. ASSUME NEW m \in Nalog, Postoji(m)
        PROVE  /\ nalozi'[m] = nalozi[m]
               /\ \A s \in Stavka : m \in {stavke[s].nalog, stavke'[s].nalog} => stavke'[s] = stavke[s]
    BY <2>1, <1>1, <1>2, <1>3, <1>5 DEF PraznaStavka, Nema
  <2>2. \A m \in Nalog : nalozi'[m].status # "NEMA" =>
          \/ Postoji(m) /\ nalozi'[m].godina = nalozi[m].godina
          \/ m \in SvjeziNalozi
    BY <1>1 DEF Postoji
  <2>3. \A s \in Stavka : stavke'[s].nalog \in {stavke[s].nalog, Nema} \/ s \in SvjezeStavke
    BY <1>2 DEF PraznaStavka
  <2>4. \A g \in Godina : DrugiDrzi(r, Savjetna(g)) /\ ~ImaPocetno(g) => ~ImaPocetno(g)'
    BY <1>1 DEF ImaPocetno, Postoji, Pocetno
  <2> QED
    BY <2>1, <2>2, <2>3, <2>4 DEF Redovi
<1>7. VezeIspravne'
  BY <1>1, <1>4, <1>5 DEF IInv, VezeIspravne, TypeOK, JeVeza, JeStavka, Aktivna, Proknjizen, Postoji
<1>8. JednoPocetno'
  BY <1>1 DEF IInv, JednoPocetno, ImaPocetno, Postoji, Pocetno
<1>9. ASSUME prenosi' = prenosi PROVE PrenosiIspravni'
  BY <1>9, <1>1, <1>4, <1>5 DEF IInv, PrenosiIspravni, TypeOK, JeStavka, Proknjizen, Postoji
<1>10. ASSUME prenosi' \subseteq Nalog \X Stavka, PrenosiIspravni' PROVE TabeleOK'
  BY <1>10, <1>1, <1>2, <1>7, <1>8 DEF TabeleOK, IInv, TypeOK, JeVeza
<1> QED
  BY <1>1, <1>4, <1>6, <1>9, <1>10 DEF IInv, TypeOK

\* A row that is free for r is locked by no other request.
LEMMA SlobodnoNijeTudje ==
  ASSUME NEW r, NEW x, Slobodno(r, x)
  PROVE  ~DrugiDrzi(r, x)
BY BazaPretpostavke DEF Slobodno, DrugiDrzi, Drzi

\* A fresh journal exists when there is one.
LEMMA NoviNalogSvjez ==
  ASSUME SvjeziNalozi # {}
  PROVE  NoviNalog \in SvjeziNalozi
BY DEF NoviNalog

LEMMA CreateJournalWriteOK ==
  ASSUME NEW r \in Zahtjev, IInv, CreateJournalWrite(r)
  PROVE  IInv'
<1>1. PICK z : z = zahtjevi[r] /\ JeZahtjev(z) /\ z.pc = "createWrite"
  BY DEF CreateJournalWrite, IInv, TypeOK
<1>2. CASE Odustani(r)
  BY <1>2, OdustajanjeOK
<1>3. CASE ~Odustani(r)
  <2>1. PICK n, red :
          /\ n = NoviNalog
          /\ red = [status |-> "DRAFT", godina |-> z.godina, datum |-> z.datum, vrsta |-> z.vrsta]
          /\ SvjeziNalozi # {} /\ Raspored(z.unos) # {}
          /\ UpisiNacrt(r, n, red, z.unos)
    BY <1>1, <1>3 DEF CreateJournalWrite
  <2>2. n \in SvjeziNalozi /\ red \in NalogTip /\ UnosOK(z.unos)
    BY <1>1, <2>1, NoviNalogSvjez DEF JeZahtjev, NalogTip, UnosOK
  <2>3. ASSUME z.vrsta # "OBICAN"
        PROVE  ~ImaPocetno(z.godina) /\ ~DrugiDrzi(r, Savjetna(z.godina))
    BY <1>1, <2>3, SlobodnoNijeTudje DEF IInv, ZahtjevOK, PocetnoOK, Drzi, Slobodno
  <2>4. Redovi(r) /\ TabeleOK'
    BY <2>1, <2>2, <2>3, NoviNacrt DEF UpisiNacrt
  <2> QED
    BY <2>1, <2>4, UpisOK DEF UpisiNacrt
<1> QED
  BY <1>2, <1>3

LEMMA OpeningImportWriteOK ==
  ASSUME NEW r \in Zahtjev, IInv, OpeningImportWrite(r)
  PROVE  IInv'
<1>1. PICK z : z = zahtjevi[r] /\ JeZahtjev(z) /\ z.pc = "importWrite"
  BY DEF OpeningImportWrite, IInv, TypeOK
<1>2. CASE Odustani(r)
  BY <1>2, OdustajanjeOK
<1>3. CASE ~Odustani(r)
  <2>1. PICK n, red :
          /\ n = NoviNalog
          /\ red = [status |-> "DRAFT", godina |-> z.godina, datum |-> DatumOd(z.godina),
                    vrsta |-> z.vrsta]
          /\ SvjeziNalozi # {} /\ Raspored(z.unos) # {} /\ ~ImaPocetno(z.godina)
          /\ UpisiNacrt(r, n, red, z.unos)
    BY <1>1, <1>3 DEF OpeningImportWrite
  <2>2. n \in SvjeziNalozi /\ red \in NalogTip /\ UnosOK(z.unos)
    BY <1>1, <2>1, NoviNalogSvjez, PrviDatumGodine DEF JeZahtjev, NalogTip, UnosOK
  <2>3. ~DrugiDrzi(r, Savjetna(z.godina))
    BY <1>1, Cekano, SlobodnoNijeTudje DEF OpeningImportWrite, IInv, ZahtjevOK, CekaOK
  <2>4. Redovi(r) /\ TabeleOK'
    BY <2>1, <2>2, <2>3, NoviNacrt DEF UpisiNacrt
  <2> QED
    BY <2>1, <2>4, UpisOK DEF UpisiNacrt
<1> QED
  BY <1>2, <1>3

LEMMA UpdateDraftWriteOK ==
  ASSUME NEW r \in Zahtjev, IInv, UpdateDraftWrite(r)
  PROVE  IInv'
<1>1. PICK z : z = zahtjevi[r] /\ JeZahtjev(z) /\ z.pc = "updateWrite"
  BY DEF UpdateDraftWrite, IInv, TypeOK
<1>2. CASE Odustani(r)
  BY <1>2, OdustajanjeOK
<1>3. CASE ~Odustani(r)
  <2>1. PICK n :
          /\ n = z.nalog /\ Postoji(n) /\ ~ZasticenNalog(n) /\ Raspored(z.unos) # {}
          /\ stavke' = SaStavkama(n, z.unos)
          /\ Zavrsi(r)
          /\ UNCHANGED <<zakljucena, nalozi, zatvaranja, prenosi>>
    BY <1>1, <1>3 DEF UpdateDraftWrite
  <2>2. n \in Nalog /\ ~DrugiDrzi(r, RedNaloga(n)) /\ UnosOK(z.unos)
    BY <1>1, <2>1, Cekano, SlobodnoNijeTudje
      DEF UpdateDraftWrite, IInv, ZahtjevOK, CekaOK, UnosOK, JeZahtjev
  <2>3. /\ stavke' = [s \in Stavka |-> stavke'[s]]
        /\ \A s \in Stavka :
             /\ JeStavka(stavke'[s])
             /\ \/ s \in SvjezeStavke /\ stavke'[s].nalog = n
                \/ stavke[s].nalog = n /\ stavke'[s] = PraznaStavka
                \/ stavke[s].nalog # n /\ stavke'[s] = stavke[s]
    BY <2>1, <2>2, ZamjenaStavki DEF IInv
  <2>4. /\ Nema \notin Nalog
        /\ \A s \in SvjezeStavke : s \in Stavka /\ stavke[s].nalog = Nema /\ VezeStavke(s) = {}
    BY BazaPretpostavke DEF Nema, SvjezeStavke
  <2>5. Redovi(r)
    <3>1. ASSUME NEW m \in Nalog, Postoji(m), DrugiDrzi(r, RedNaloga(m)), NEW s \in Stavka,
                 m \in {stavke[s].nalog, stavke'[s].nalog}
          PROVE  stavke'[s] = stavke[s]
      BY <3>1, <2>2, <2>3, <2>4 DEF PraznaStavka, Nema
    <3>2. \A s \in Stavka : stavke'[s].nalog \in {stavke[s].nalog, Nema} \/ s \in SvjezeStavke
      BY <2>3 DEF PraznaStavka
    <3> QED
      BY <2>1, <3>1, <3>2 DEF Redovi, ImaPocetno, Postoji, Pocetno
  <2>6. \A s \in Stavka : ZasticenaStavka(s) /\ stavke[s].nalog # Nema => stavke'[s] = stavke[s]
    BY <2>1, <2>3, <2>4 DEF ZasticenNalog, StavkeNaloga
  <2>7. VezeIspravne'
    BY <2>1, <2>6 DEF IInv, VezeIspravne, TypeOK, JeVeza, Aktivna, Proknjizen, ZasticenaStavka
  <2>8. PrenosiIspravni'
    BY <2>1, <2>6 DEF IInv, PrenosiIspravni, TypeOK, Proknjizen, Postoji, ZasticenaStavka
  <2>9. TabeleOK'
    BY <2>1, <2>3, <2>7, <2>8
      DEF TabeleOK, IInv, TypeOK, JeVeza, JednoPocetno, Postoji, Pocetno
  <2> QED
    BY <2>1, <2>5, <2>9, UpisOK
<1> QED
  BY <1>2, <1>3

\* Changing the status of an existing journal that no other request holds, of
\* a draft or of one whose lines nothing names.
PromjenaStatusa(n, status) ==
  /\ Postoji(n)
  /\ Proknjizen(n) => status = "POSTED" \/ ~ZasticenNalog(n)
  /\ nalozi' = [nalozi EXCEPT ![n].status = status]
  /\ UNCHANGED <<zakljucena, stavke, zatvaranja, prenosi>>

LEMMA StatusOK ==
  ASSUME NEW r, IInv, NEW n \in Nalog, NEW status \in {"DRAFT", "POSTED"},
         PromjenaStatusa(n, status), ~DrugiDrzi(r, RedNaloga(n))
  PROVE  Redovi(r) /\ TabeleOK'
<1>1. /\ nalozi' \in [Nalog -> NalogTip]
      /\ nalozi'[n].status = status /\ nalozi'[n].godina = nalozi[n].godina
      /\ nalozi'[n].datum = nalozi[n].datum /\ nalozi'[n].vrsta = nalozi[n].vrsta
      /\ \A m \in Nalog \ {n} : nalozi'[m] = nalozi[m]
  BY DEF PromjenaStatusa, IInv, TypeOK, NalogTip
<1>2. UNCHANGED <<zakljucena, stavke, zatvaranja, prenosi>>
  BY DEF PromjenaStatusa
<1>3. \A m \in Nalog : Postoji(m)' <=> Postoji(m)
  BY <1>1 DEF Postoji, PromjenaStatusa
<1>4. \A m \in Nalog : Proknjizen(m) /\ ZasticenNalog(m) => Proknjizen(m)'
  BY <1>1 DEF Proknjizen, PromjenaStatusa
<1>5. \A m \in Nalog : nalozi'[m].godina = nalozi[m].godina /\ nalozi'[m].vrsta = nalozi[m].vrsta
                       /\ nalozi'[m].datum = nalozi[m].datum
  BY <1>1
<1>6. Redovi(r)
  BY <1>1, <1>2, <1>3, <1>5 DEF Redovi, ImaPocetno, Pocetno, Postoji
<1>7. \A s \in Stavka : ZasticenaStavka(s) /\ stavke[s].nalog \in Nalog =>
        ZasticenNalog(stavke[s].nalog)
  BY DEF ZasticenNalog, StavkeNaloga
<1>8. VezeIspravne'
  BY <1>2, <1>4, <1>5, <1>7
    DEF IInv, VezeIspravne, TypeOK, JeVeza, JeStavka, Aktivna, ZasticenaStavka, Proknjizen
<1>9. PrenosiIspravni'
  BY <1>2, <1>3, <1>4, <1>5, <1>7
    DEF IInv, PrenosiIspravni, TypeOK, JeStavka, ZasticenaStavka, Proknjizen
<1>10. JednoPocetno'
  BY <1>3, <1>5 DEF IInv, JednoPocetno, Pocetno
<1> QED
  BY <1>1, <1>2, <1>6, <1>8, <1>9, <1>10 DEF TabeleOK, IInv, TypeOK, JeStavka, JeVeza

LEMMA PostJournalCommitOK ==
  ASSUME NEW r \in Zahtjev, IInv, PostJournalCommit(r)
  PROVE  IInv'
<1>1. PICK n :
        /\ n \in Nalog /\ Drzi(r, RedNaloga(n)) /\ SmijeSeKnjiziti(n)
        /\ nalozi' = [nalozi EXCEPT ![n].status = "POSTED"]
        /\ Zavrsi(r)
        /\ UNCHANGED <<zakljucena, stavke, zatvaranja, prenosi>>
  BY DEF PostJournalCommit, IInv, ZahtjevOK, KnjizenjeOK
<1>2. PromjenaStatusa(n, "POSTED")
  BY <1>1 DEF PromjenaStatusa, SmijeSeKnjiziti, Postoji
<1>3. ~DrugiDrzi(r, RedNaloga(n))
  BY <1>1, SlobodnoNijeTudje DEF Drzi, Slobodno
<1>4. Redovi(r) /\ TabeleOK'
  BY <1>1, <1>2, <1>3, StatusOK
<1> QED
  BY <1>1, <1>4, UpisOK

LEMMA ReopenJournalWriteOK ==
  ASSUME NEW r \in Zahtjev, IInv, ReopenJournalWrite(r)
  PROVE  IInv'
<1>1. CASE Odustani(r)
  BY <1>1, OdustajanjeOK
<1>2. CASE ~Odustani(r)
  <2>1. PICK n :
          /\ n \in Nalog /\ Slobodno(r, RedNaloga(n)) /\ Postoji(n)
          /\ Proknjizen(n) => ~ZasticenNalog(n)
          /\ nalozi' = [nalozi EXCEPT ![n].status = "DRAFT"]
          /\ Zavrsi(r)
          /\ UNCHANGED <<zakljucena, stavke, zatvaranja, prenosi>>
    BY <1>2, Cekano DEF ReopenJournalWrite, IInv, ZahtjevOK, CekaOK
  <2>2. PromjenaStatusa(n, "DRAFT")
    BY <2>1 DEF PromjenaStatusa
  <2>3. Redovi(r) /\ TabeleOK'
    BY <2>1, <2>2, SlobodnoNijeTudje, StatusOK
  <2> QED
    BY <2>1, <2>3, UpisOK
<1> QED
  BY <1>1, <1>2

LEMMA DeleteJournalWriteOK ==
  ASSUME NEW r \in Zahtjev, IInv, DeleteJournalWrite(r)
  PROVE  IInv'
<1>1. CASE Odustani(r)
  BY <1>1, OdustajanjeOK
<1>2. CASE ~Odustani(r)
  <2>1. PICK n :
          /\ n \in Nalog /\ Slobodno(r, RedNaloga(n)) /\ Postoji(n) /\ ~ZasticenNalog(n)
          /\ nalozi' = [nalozi EXCEPT ![n] = PrazanNalog]
          /\ stavke' = [s \in Stavka |-> IF stavke[s].nalog = n
                                         THEN PraznaStavka ELSE stavke[s]]
          /\ prenosi' = {p \in prenosi : p[1] # n}
          /\ Zavrsi(r)
          /\ UNCHANGED <<zakljucena, zatvaranja>>
    BY <1>2, Cekano DEF DeleteJournalWrite, IInv, ZahtjevOK, CekaOK
  <2>2. ~DrugiDrzi(r, RedNaloga(n)) /\ Nema \notin Nalog
    BY <2>1, SlobodnoNijeTudje, BazaPretpostavke DEF Nema
  <2>3. /\ nalozi' \in [Nalog -> NalogTip] /\ nalozi'[n].status = "NEMA"
        /\ \A m \in Nalog \ {n} : nalozi'[m] = nalozi[m]
    BY <2>1, PrviDatum DEF IInv, TypeOK, NalogTip, PrazanNalog, Vrsta
  <2>4. \A s \in Stavka : JeStavka(stavke'[s])
    BY <2>1 DEF IInv, TypeOK, JeStavka, PraznaStavka
  <2>5. Redovi(r)
    BY <2>1, <2>2, <2>3 DEF Redovi, PraznaStavka, Postoji, ImaPocetno, Pocetno
  <2>6. \A s \in Stavka : ZasticenaStavka(s) => stavke'[s] = stavke[s] /\ stavke[s].nalog # n
    BY <2>1 DEF ZasticenNalog, StavkeNaloga
  <2>7. VezeIspravne'
    <3> SUFFICES ASSUME NEW v \in zatvaranja, Aktivna(v)
                 PROVE  /\ \A s \in {v.d, v.p} : /\ stavke'[s].nalog # Nema
                                                 /\ nalozi'[stavke'[s].nalog].status = "POSTED"
                                                 /\ nalozi'[stavke'[s].nalog].datum <= v.datum
                        /\ stavke'[v.d].kartica = stavke'[v.p].kartica
      BY <2>1 DEF VezeIspravne, Aktivna, Proknjizen
    <3>1. v.d \in Stavka /\ v.p \in Stavka
      BY DEF IInv, TypeOK, JeVeza
    <3>2. ZasticenaStavka(v.d) /\ ZasticenaStavka(v.p)
      BY DEF ZasticenaStavka
    <3>3. \A s \in {v.d, v.p} : stavke'[s] = stavke[s] /\ stavke[s].nalog # n
      BY <2>6, <3>1, <3>2
    <3>4. \A s \in {v.d, v.p} : stavke[s].nalog # Nema /\ Proknjizen(stavke[s].nalog)
      BY DEF IInv, VezeIspravne
    <3>5. \A s \in {v.d, v.p} : nalozi'[stavke[s].nalog] = nalozi[stavke[s].nalog]
      BY <2>3, <3>1, <3>3, <3>4 DEF IInv, TypeOK, JeStavka
    <3> QED
      BY <3>3, <3>4, <3>5 DEF IInv, VezeIspravne, Proknjizen
  <2>8. PrenosiIspravni'
    <3>1. ASSUME NEW p \in prenosi, p[1] # n
          PROVE  /\ stavke'[p[2]] = stavke[p[2]] /\ nalozi'[p[1]] = nalozi[p[1]]
                 /\ nalozi'[stavke[p[2]].nalog] = nalozi[stavke[p[2]].nalog]
      <4>1. p[1] \in Nalog /\ p[2] \in Stavka /\ stavke[p[2]].nalog # Nema
        BY <3>1 DEF IInv, TypeOK, PrenosiIspravni
      <4>2. ZasticenaStavka(p[2])
        BY <3>1 DEF ZasticenaStavka
      <4>3. stavke'[p[2]] = stavke[p[2]] /\ stavke[p[2]].nalog # n
        BY <2>6, <4>1, <4>2
      <4> QED
        BY <2>3, <3>1, <4>1, <4>3 DEF IInv, TypeOK, JeStavka
    <3> QED
      BY <2>1, <3>1 DEF IInv, PrenosiIspravni, Proknjizen, Postoji
  <2>9. JednoPocetno'
    BY <2>3 DEF IInv, JednoPocetno, Pocetno, Postoji
  <2>10. TabeleOK'
    BY <2>1, <2>3, <2>4, <2>7, <2>8, <2>9 DEF TabeleOK, IInv, TypeOK, JeVeza
  <2> QED
    BY <2>1, <2>5, <2>10, UpisOK
<1> QED
  BY <1>1, <1>2

\* Closing or opening a year that no request has locked.
LEMMA ToggleBusinessYearOK ==
  ASSUME IInv, NEW g \in Godina, ToggleBusinessYear(g)
  PROVE  IInv'
<1>1. /\ zakljucena' \in [Godina -> BOOLEAN]
      /\ \A h \in Godina \ {g} : zakljucena'[h] = zakljucena[h]
      /\ UNCHANGED <<nalozi, stavke, zatvaranja, prenosi, brave, zahtjevi>>
      /\ brave[RedGodine(g)] = Niko
  BY DEF ToggleBusinessYear, IInv, TypeOK
<1>2. Redovi(Niko)
  BY <1>1, BazaPretpostavke DEF Redovi, DrugiDrzi, Drzi, ImaPocetno, Postoji, Pocetno
<1>3. Ostali(Niko)
  BY <1>1 DEF Ostali
<1>4. \A q \in Zahtjev : ZahtjevOK(q)'
  BY <1>2, <1>3, Okvir, BazaPretpostavke DEF IInv
<1>5. TypeOK'
  BY <1>1 DEF IInv, TypeOK, JeStavka, JeVeza, JeZahtjev
<1>6. VezeIspravne' /\ PrenosiIspravni' /\ JednoPocetno'
  BY <1>1 DEF IInv, VezeIspravne, PrenosiIspravni, JednoPocetno, Aktivna, Proknjizen,
              Postoji, Pocetno
<1> QED
  BY <1>4, <1>5, <1>6 DEF IInv

---------------------------------------------------------------------------
(* Settlements *)

\* Every item of the ledger of year g is a line of a posted journal, of that
\* year or, when it is carried, of an earlier one.
LEMMA StavkaKnjige ==
  ASSUME IInv, NEW g \in Int, NEW d, NEW i \in Knjiga(g, d, prenosi)
  PROVE  /\ i.id \in Stavka /\ i.nalog \in Nalog /\ stavke[i.id].nalog = i.nalog
         /\ nalozi[i.nalog].godina <= g
<1>1. PICK s \in StavkeKnjige(g, d, prenosi) : i = SnimakStavke(s, d)
  BY DEF Knjiga
<1>2. i.id = s /\ i.nalog = stavke[s].nalog
  BY <1>1 DEF SnimakStavke
<1>3. g \in Int /\ \A n \in Nalog : nalozi[n].godina \in Int
  BY DEF IInv, TypeOK, NalogTip, Godina
<1>4. CASE s \in Direktne(g, d)
  <2>1. s \in Stavka /\ stavke[s].nalog # Nema /\ nalozi[stavke[s].nalog].godina = g
    BY <1>4 DEF Direktne
  <2> QED
    BY <1>2, <1>3, <2>1 DEF IInv, TypeOK, JeStavka
<1>5. CASE s \in IzvorneStavke(g, d, prenosi)
  <2>1. PICK p \in prenosi : p[2] = s /\ nalozi[p[1]].godina = g
    BY <1>5 DEF IzvorneStavke, Prenesene
  <2>2. /\ s \in Stavka /\ stavke[s].nalog # Nema
        /\ nalozi[stavke[s].nalog].godina < g
    BY <2>1 DEF IInv, TypeOK, PrenosiIspravni
  <2> QED
    BY <1>2, <1>3, <2>2 DEF IInv, TypeOK, JeStavka
<1> QED
  BY <1>4, <1>5 DEF StavkeKnjige

LEMMA PreviewOldestOK ==
  ASSUME NEW r \in Zahtjev, NEW g \in Godina, NEW d \in Datum, NEW K, IInv,
         PreviewOldest(r, g, d, K)
  PROVE  IInv'
<1>1. PICK otisak, plan, k :
        /\ k = [Mirovanje EXCEPT !.pc = "preview", !.godina = g, !.datum = d,
                  !.kartice = K, !.otisak = otisak, !.plan = plan]
        /\ Nastavi(r, k)
  BY DEF PreviewOldest
<1>2. JeZahtjev(k)
  BY <1>1, PrazanUnos DEF JeZahtjev, Mirovanje, Koraci, Vrsta
<1>3. UNCHANGED tabele /\ Zakljucava(r)
  BY BezNovihBrava DEF PreviewOldest
<1> QED
  BY <1>1, <1>2, <1>3, PrviKorak DEF Mirovanje

\* The plan is checked against items of the ledger loaded under the company's lock.
LEMMA PocniZatvaranjeOK ==
  ASSUME NEW r \in Zahtjev, NEW g \in Godina, NEW d \in Datum, IInv,
         NEW items, items \subseteq Knjiga(g, d, prenosi), NEW plan,
         PocniZatvaranje(r, g, d, items, plan)
  PROVE  IInv'
<1>1. PICK planirane, k :
        /\ planirane = {i \in items : \E q \in plan : i.id \in {q.d, q.p}}
        /\ k = [Mirovanje EXCEPT !.pc = "settleCheck", !.godina = g, !.datum = d,
                  !.slika = planirane, !.plan = plan,
                  !.ceka = {RedNaloga(i.nalog) : i \in planirane}]
        /\ Nastavi(r, k)
  BY DEF PocniZatvaranje
<1>2. \A i \in planirane : i.id \in Stavka /\ i.nalog \in Nalog /\ stavke[i.id].nalog = i.nalog
  BY <1>1, StavkaKnjige DEF Godina
<1>3. JeZahtjev(k)
  <2>1. {RedNaloga(i.nalog) : i \in planirane} \subseteq Red
    BY <1>2, RedoviPostoje
  <2> QED
    BY <1>1, <1>2, <2>1, PrazanUnos DEF JeZahtjev, Mirovanje, Koraci, Vrsta
<1>4. UNCHANGED tabele /\ Zakljucava(r) /\ Drzi(r, Firma)'
  BY NoveBrave, RedoviPostoje DEF PocniZatvaranje
<1>5. \A q \in plan : \E i, j \in planirane :
        i.id = q.d /\ j.id = q.p /\ i.kartica = j.kartica
  <2>1. SUFFICES ASSUME NEW q \in plan
                 PROVE  \E i, j \in planirane :
                          i.id = q.d /\ j.id = q.p /\ i.kartica = j.kartica
    OBVIOUS
  <2>2. PICK i, j \in items : i.id = q.d /\ j.id = q.p /\ i.kartica = j.kartica
    <3>1. PlanVazi(items, plan, d)
      BY DEF PocniZatvaranje
    <3> QED
      BY <3>1 DEF PlanVazi
  <2>3. i \in planirane /\ j \in planirane
    BY <1>1, <2>2
  <2> QED
    BY <2>2, <2>3
<1>6. /\ zahtjevi'[r] = k /\ k.pc = "settleCheck" /\ k.slika = planirane /\ k.plan = plan
      /\ k.ceka = {RedNaloga(i.nalog) : i \in planirane}
  BY <1>1, NovoZnanje DEF Mirovanje
<1>7. SlikaOK(r)'
  BY <1>2, <1>4, <1>6 DEF SlikaOK, tabele
<1>8. ZahtjevOK(r)'
  BY <1>4, <1>5, <1>6, <1>7 DEF ZahtjevOK, CekaOK, KnjizenjeOK, PocetnoOK, ZakljucaneOK,
                                ZatvaranjeOK, PrenosOK
<1> QED
  BY <1>1, <1>3, <1>4, <1>8, NastavakOK

LEMMA SettleOldestOK ==
  ASSUME NEW r \in Zahtjev, IInv, SettleOldest(r)
  PROVE  IInv'
<1>1. PICK z : z = zahtjevi[r] /\ z.godina \in Godina /\ z.datum \in Datum
  BY DEF IInv, TypeOK, JeZahtjev
<1>2. PICK items : /\ items = PartneriKnjige(z.godina, z.datum, z.kartice)
                   /\ items \subseteq Knjiga(z.godina, z.datum, prenosi)
  BY DEF PartneriKnjige
<1>3. CASE Odustani(r)
  BY <1>3, OdustajanjeOK
<1>4. CASE PocniZatvaranje(r, z.godina, z.datum, items, PlanPoStarosti(items))
  BY <1>1, <1>2, <1>4, PocniZatvaranjeOK
<1> QED
  BY <1>1, <1>2, <1>3, <1>4 DEF SettleOldest

\* The checked lines of a ledger are locked from then on.
LEMMA ProvjereneStavke ==
  ASSUME NEW r \in Zahtjev, NEW z, z = zahtjevi[r], NEW k, IInv, UNCHANGED tabele, MozeDalje(r),
         z.pc \in {"settleCheck", "openingCheck", "carryCheck"},
         \A i \in z.slika : StavkaIsta(i),
         brave' = SaZakljucanim(r, {RedNaloga(i.nalog) : i \in z.slika}),
         Nastavi(r, k), k.slika = z.slika
  PROVE  /\ Zakljucava(r) /\ zahtjevi'[r] = k /\ SlikaOK(r)' /\ ZakljucaneOK(r)'
         /\ \A x \in Red : Drzi(r, x) => Drzi(r, x)'
<1>1. zahtjevi'[r] = k
  BY NovoZnanje
<1>2. \A i \in z.slika : i.nalog \in Nalog /\ RedNaloga(i.nalog) \in z.ceka
  BY DEF IInv, ZahtjevOK, CekaOK, TypeOK, JeZahtjev
<1>3. \A x \in {RedNaloga(i.nalog) : i \in z.slika} : Slobodno(r, x)
  BY <1>2, Cekano
<1>4. /\ Zakljucava(r)
      /\ \A i \in z.slika : Drzi(r, RedNaloga(i.nalog))'
      /\ \A x \in Red : Drzi(r, x) => Drzi(r, x)'
  BY <1>2, <1>3, NoveBrave, RedoviPostoje
<1>5. SlikaOK(r)' /\ ZakljucaneOK(r)'
  BY <1>1, <1>4 DEF IInv, ZahtjevOK, SlikaOK, ZakljucaneOK, StavkaIsta, Proknjizen, tabele
<1> QED
  BY <1>1, <1>4, <1>5

LEMMA WriteSettlementPairsOK ==
  ASSUME NEW r \in Zahtjev, IInv, WriteSettlementPairs(r)
  PROVE  IInv'
<1>1. PICK z : z = zahtjevi[r] /\ JeZahtjev(z) /\ z.pc = "settleCheck" /\ MozeDalje(r)
  BY DEF WriteSettlementPairs, IInv, TypeOK
<1>2. CASE Odustani(r)
  BY <1>2, OdustajanjeOK
<1>3. CASE ~Odustani(r)
  <2>1. PICK k : /\ k = [z EXCEPT !.pc = "settleCommit", !.ceka = {RedGodine(z.godina)}]
                 /\ Nastavi(r, k)
                 /\ brave' = SaZakljucanim(r, {RedNaloga(i.nalog) : i \in z.slika})
                 /\ \A i \in z.slika : /\ StavkaIsta(i)
                                        /\ nalozi[stavke[i.id].nalog].datum <= z.datum
                                        /\ StaneUStavku(z, i)
                 /\ UNCHANGED tabele
    BY <1>1, <1>3 DEF WriteSettlementPairs
  <2>2. JeZahtjev(k)
    BY <1>1, <2>1, RedoviPostoje DEF JeZahtjev, Koraci
  <2>3. /\ k.pc = "settleCommit" /\ k.slika = z.slika /\ k.plan = z.plan /\ k.datum = z.datum
    BY <1>1, <2>1 DEF JeZahtjev
  <2>4. /\ Zakljucava(r) /\ zahtjevi'[r] = k /\ SlikaOK(r)' /\ ZakljucaneOK(r)'
        /\ \A x \in Red : Drzi(r, x) => Drzi(r, x)'
    BY <1>1, <2>1, <2>3, ProvjereneStavke, ZenonT(30)
  <2>5. \A i \in z.slika : nalozi[i.nalog].datum <= z.datum
    BY <1>1, <2>1 DEF IInv, ZahtjevOK, SlikaOK, StavkaIsta
  <2>6. NoveVeze(k)' = NoveVeze(z)
    BY <2>1, <2>3 DEF NoveVeze, tabele
  <2>7. \A i \in z.slika : StaneUStavku(k, i)'
    BY <2>1, <2>6 DEF StaneUStavku, AktivneVeze, VezeStavke, tabele
  <2>8. /\ Drzi(r, Firma)
        /\ \A q \in z.plan : \E i, j \in z.slika :
             i.id = q.d /\ j.id = q.p /\ i.kartica = j.kartica
    BY <1>1 DEF IInv, ZahtjevOK, ZatvaranjeOK
  <2>9. ZatvaranjeOK(r)'
    BY <2>1, <2>3, <2>4, <2>5, <2>7, <2>8, RedoviPostoje DEF ZatvaranjeOK, tabele
  <2>10. ZahtjevOK(r)'
    BY <2>3, <2>4, <2>9 DEF ZahtjevOK, CekaOK, KnjizenjeOK, PocetnoOK, PrenosOK
  <2> QED
    BY <2>1, <2>2, <2>4, <2>10, NastavakOK
<1> QED
  BY <1>2, <1>3

LEMMA SettleCommitOK ==
  ASSUME NEW r \in Zahtjev, IInv, SettleCommit(r)
  PROVE  IInv'
<1>1. PICK z : /\ z = zahtjevi[r] /\ JeZahtjev(z) /\ z.pc = "settleCommit"
               /\ zatvaranja' = zatvaranja \cup NoveVeze(z)
  BY DEF SettleCommit, IInv, TypeOK
<1>2. Zavrsi(r) /\ UNCHANGED <<zakljucena, nalozi, stavke, prenosi>>
  BY DEF SettleCommit
<1>3. ASSUME NEW v \in NoveVeze(z)
      PROVE  /\ JeVeza(v)
             /\ \A s \in {v.d, v.p} : /\ stavke[s].nalog # Nema
                                      /\ Proknjizen(stavke[s].nalog)
                                      /\ nalozi[stavke[s].nalog].datum <= v.datum
             /\ stavke[v.d].kartica = stavke[v.p].kartica
  <2>1. PICK q \in z.plan :
          v = [rb |-> Cardinality(zatvaranja), d |-> q.d, p |-> q.p, iznos |-> q.iznos,
               datum |-> z.datum, ponisteno |-> 0]
    BY <1>3 DEF NoveVeze
  <2>2. PICK i, j \in z.slika : i.id = v.d /\ j.id = v.p /\ i.kartica = j.kartica
    BY <1>1, <2>1 DEF IInv, ZahtjevOK, ZatvaranjeOK
  <2>3. \A x \in {i, j} : /\ stavke[x.id].nalog # Nema /\ Proknjizen(stavke[x.id].nalog)
                          /\ stavke[x.id].kartica = x.kartica
                          /\ nalozi[stavke[x.id].nalog].datum <= z.datum
    BY <1>1, <2>2 DEF IInv, ZahtjevOK, SlikaOK, ZakljucaneOK, ZatvaranjeOK, StavkaIsta
  <2>4. v.datum = z.datum /\ v.ponisteno = 0 /\ i.id \in Stavka /\ j.id \in Stavka
        /\ z.datum \in Datum
    BY <1>1, <2>1, <2>2 DEF JeZahtjev
  <2>5. JeVeza(v)
    BY <2>1, <2>2, <2>4 DEF JeVeza
  <2> QED
    BY <2>2, <2>3, <2>4, <2>5
<1>4. ~DrugiDrzi(r, Firma)
  BY <1>1, SlobodnoNijeTudje DEF IInv, ZahtjevOK, ZatvaranjeOK, Drzi, Slobodno
<1>5. Redovi(r)
  BY <1>2, <1>4 DEF Redovi, Postoji, ImaPocetno, Pocetno
<1>6. VezeIspravne'
  BY <1>1, <1>2, <1>3 DEF IInv, VezeIspravne, Proknjizen, Aktivna
<1>7. TabeleOK'
  BY <1>1, <1>2, <1>3, <1>6
    DEF TabeleOK, IInv, TypeOK, JeStavka, JeVeza, PrenosiIspravni, JednoPocetno,
        Proknjizen, Postoji, Pocetno
<1> QED
  BY <1>2, <1>5, <1>7, UpisOK

---------------------------------------------------------------------------
(* Cancellations *)

\* Cancelling edges takes nothing from the edges that stay active.
LEMMA PonistavanjeOK ==
  ASSUME NEW r, IInv, NEW V, NEW d \in Datum, ~DrugiDrzi(r, Firma),
         zatvaranja' = Ponistene(V, d), UNCHANGED <<zakljucena, nalozi, stavke, prenosi>>
  PROVE  Redovi(r) /\ TabeleOK'
<1>1. Redovi(r)
  BY DEF Redovi, Postoji, ImaPocetno, Pocetno
<1>2. ASSUME NEW w \in zatvaranja'
      PROVE  JeVeza(w) /\ (Aktivna(w) => w \in zatvaranja)
  <2>1. PICK v \in zatvaranja : w = IF v \in V THEN [v EXCEPT !.ponisteno = d] ELSE v
    BY <1>2 DEF Ponistene
  <2>2. JeVeza(v) /\ d # 0
    BY DEF IInv, TypeOK, Datum
  <2>3. CASE v \in V
    <3>1. w = [v EXCEPT !.ponisteno = d]
      BY <2>1, <2>3
    <3>2. JeVeza(w) /\ w.ponisteno = d
      BY <2>2, <3>1 DEF JeVeza
    <3> QED
      BY <2>2, <3>2 DEF Aktivna
  <2>4. CASE v \notin V
    BY <2>1, <2>2, <2>4
  <2> QED
    BY <2>3, <2>4
<1>3. VezeIspravne'
  BY <1>2 DEF IInv, VezeIspravne, Proknjizen, Aktivna
<1>4. TabeleOK'
  BY <1>2, <1>3 DEF TabeleOK, IInv, TypeOK, JeStavka, JeVeza, PrenosiIspravni, JednoPocetno,
                    Proknjizen, Postoji, Pocetno
<1> QED
  BY <1>1, <1>4

LEMMA CancelSettlementOK ==
  ASSUME NEW r \in Zahtjev, NEW g, NEW d \in Datum, NEW v, IInv, CancelSettlement(r, g, d, v)
  PROVE  IInv'
<1>1. Redovi(r) /\ TabeleOK'
  BY SlobodnoNijeTudje, PonistavanjeOK DEF CancelSettlement
<1>2. UNCHANGED <<nalozi, stavke, brave, zahtjevi>> /\ zahtjevi[r].pc = "miruje"
  BY DEF CancelSettlement, Miruje
<1>3. ZahtjevOK(r)'
  BY <1>2 DEF IInv, ZahtjevOK, CekaOK, KnjizenjeOK, PocetnoOK, SlikaOK, ZakljucaneOK,
              ZatvaranjeOK, PrenosOK
<1>4. \A q \in Zahtjev : ZahtjevOK(q)'
  BY <1>1, <1>2, <1>3, Okvir DEF IInv, Ostali
<1>5. TypeOK'
  BY <1>1, <1>2 DEF IInv, TypeOK, TabeleOK, JeZahtjev
<1> QED
  BY <1>1, <1>4, <1>5 DEF IInv, TabeleOK

LEMMA PreviewCancelAllOK ==
  ASSUME NEW r \in Zahtjev, NEW g \in Godina, NEW d \in Datum, NEW kartica, IInv,
         PreviewCancelAll(r, g, d, kartica)
  PROVE  IInv'
<1>1. PICK otisak, k :
        /\ k = [Mirovanje EXCEPT !.pc = "cancelPreview", !.godina = g, !.datum = d,
                  !.kartice = {kartica}, !.otisak = otisak]
        /\ Nastavi(r, k)
  BY DEF PreviewCancelAll
<1>2. JeZahtjev(k)
  BY <1>1, PrazanUnos DEF JeZahtjev, Mirovanje, Koraci, Vrsta
<1>3. UNCHANGED tabele /\ Zakljucava(r)
  BY BezNovihBrava DEF PreviewCancelAll
<1> QED
  BY <1>1, <1>2, <1>3, PrviKorak DEF Mirovanje

LEMMA CancelAllSettlementsOK ==
  ASSUME NEW r \in Zahtjev, IInv, CancelAllSettlements(r)
  PROVE  IInv'
<1>1. PICK z : z = zahtjevi[r] /\ z.datum \in Datum
  BY DEF IInv, TypeOK, JeZahtjev
<1>2. CASE Odustani(r)
  BY <1>2, OdustajanjeOK
<1>3. CASE ~Odustani(r)
  <2>1. PICK V : /\ Slobodno(r, Firma) /\ zatvaranja' = Ponistene(V, z.datum)
                 /\ Zavrsi(r)
                 /\ UNCHANGED <<zakljucena, nalozi, stavke, prenosi>>
    BY <1>1, <1>3 DEF CancelAllSettlements
  <2>2. Redovi(r) /\ TabeleOK'
    BY <1>1, <2>1, SlobodnoNijeTudje, PonistavanjeOK
  <2> QED
    BY <2>1, <2>2, UpisOK
<1> QED
  BY <1>2, <1>3

---------------------------------------------------------------------------
(* Opening balances and carried detail *)

LEMMA GenerateOpeningCompanyOK ==
  ASSUME NEW r \in Zahtjev, NEW g \in Godina, IInv, GenerateOpeningCompany(r, g)
  PROVE  IInv'
<1>1. PICK k : /\ k = [Mirovanje EXCEPT !.pc = "openingLock", !.godina = g,
                         !.vrsta = "POCETNO_AUTO", !.ceka = {Savjetna(g)}]
               /\ Nastavi(r, k)
  BY DEF GenerateOpeningCompany
<1>2. JeZahtjev(k)
  BY <1>1, PrviDatum, PrazanUnos, RedoviPostoje DEF JeZahtjev, Mirovanje, Koraci, Vrsta
<1>3. UNCHANGED tabele /\ Zakljucava(r)
  BY NoveBrave DEF GenerateOpeningCompany
<1> QED
  BY <1>1, <1>2, <1>3, PrviKorak DEF Mirovanje

LEMMA GenerateOpeningLockOK ==
  ASSUME NEW r \in Zahtjev, IInv, GenerateOpeningLock(r)
  PROVE  IInv'
<1>1. PICK z : z = zahtjevi[r] /\ JeZahtjev(z) /\ z.pc = "openingLock"
  BY DEF GenerateOpeningLock, IInv, TypeOK
<1>2. CASE Odustani(r)
  BY <1>2, OdustajanjeOK
<1>3. CASE ~Odustani(r)
  <2>1. PICK unos, k :
          /\ unos = PocetneStavke(z.godina - 1)
          /\ k = [z EXCEPT !.pc = "openingCarry", !.unos = unos, !.ceka = {RedGodine(z.godina)}]
          /\ Nastavi(r, k)
          /\ brave' = SaZakljucanim(r, {Savjetna(z.godina)})
          /\ ~ImaPocetno(z.godina)
          /\ UNCHANGED tabele
    BY <1>1, <1>3 DEF GenerateOpeningLock
  <2>2. \A x \in DOMAIN unos : unos[x].kartica \in Kartica
    BY <2>1 DEF PocetneStavke
  <2>3. JeZahtjev(k)
    BY <1>1, <2>1, <2>2, RedoviPostoje DEF JeZahtjev, Koraci
  <2>4. Slobodno(r, Savjetna(z.godina)) /\ z.godina \in Godina
    BY <1>1, Cekano DEF GenerateOpeningLock, IInv, ZahtjevOK, CekaOK, JeZahtjev
  <2>5. Zakljucava(r) /\ Drzi(r, Savjetna(z.godina))'
    BY <2>1, <2>4, NoveBrave, RedoviPostoje
  <2>6. zahtjevi'[r] = k /\ k.pc = "openingCarry" /\ k.godina = z.godina /\ k.slika = z.slika
    BY <1>1, <2>1, NovoZnanje DEF JeZahtjev
  <2>7. ~ImaPocetno(z.godina)' /\ SlikaOK(r)'
    BY <1>1, <2>1, <2>6 DEF ImaPocetno, Postoji, Pocetno, tabele, IInv, ZahtjevOK, SlikaOK
  <2>8. ZahtjevOK(r)'
    BY <2>5, <2>6, <2>7 DEF ZahtjevOK, CekaOK, KnjizenjeOK, PocetnoOK, ZakljucaneOK,
                            ZatvaranjeOK, PrenosOK
  <2> QED
    BY <2>1, <2>3, <2>5, <2>8, NastavakOK
<1> QED
  BY <1>2, <1>3

LEMMA GenerateOpeningLedgerOK ==
  ASSUME NEW r \in Zahtjev, IInv, GenerateOpeningLedger(r)
  PROVE  IInv'
<1>1. PICK z : z = zahtjevi[r] /\ JeZahtjev(z) /\ z.pc = "openingCarry"
  BY DEF GenerateOpeningLedger, IInv, TypeOK
<1>2. CASE Odustani(r)
  BY <1>2, OdustajanjeOK
<1>3. CASE ~Odustani(r)
  <2>1. PICK items, k :
          /\ items = Knjiga(z.godina - 1, DatumDo(z.godina - 1), prenosi)
          /\ k = [z EXCEPT !.pc = "openingCheck", !.slika = items,
                    !.ceka = {RedGodine(z.godina)} \cup {RedNaloga(i.nalog) : i \in items}]
          /\ Nastavi(r, k)
          /\ UNCHANGED <<tabele, brave>>
    BY <1>1, <1>3 DEF GenerateOpeningLedger
  <2>2. z.godina \in Godina /\ z.godina \in Int
    BY <1>1 DEF JeZahtjev, Godina
  <2>3. \A i \in items : /\ i.id \in Stavka /\ i.nalog \in Nalog
                         /\ stavke[i.id].nalog = i.nalog
                         /\ nalozi[i.nalog].godina <= z.godina - 1
    <3>1. PICK g \in Int : g = z.godina - 1
      BY <2>2
    <3> QED
      BY <2>1, <3>1, StavkaKnjige
  <2>4. {RedNaloga(i.nalog) : i \in items} \subseteq Red
    BY <2>3, RedoviPostoje
  <2>5. JeZahtjev(k)
    <3>1. /\ k.pc = "openingCheck" /\ k.slika = items
          /\ k.ceka = {RedGodine(z.godina)} \cup {RedNaloga(i.nalog) : i \in items}
      BY <1>1, <2>1 DEF JeZahtjev
    <3>2. k.ceka \subseteq Red
      BY <2>2, <2>4, <3>1, RedoviPostoje
    <3> QED
      BY <1>1, <2>1, <2>3, <3>1, <3>2 DEF JeZahtjev, Koraci
  <2>6. Zakljucava(r)
    BY <2>1, BezNovihBrava
  <2>7. /\ zahtjevi'[r] = k /\ k.pc = "openingCheck" /\ k.godina = z.godina /\ k.slika = items
        /\ \A i \in items : RedNaloga(i.nalog) \in k.ceka
    BY <1>1, <2>1, NovoZnanje DEF JeZahtjev
  <2>8. PocetnoOK(r)'
    BY <1>1, <2>1, <2>7
      DEF IInv, ZahtjevOK, PocetnoOK, Drzi, ImaPocetno, Postoji, Pocetno, tabele
  <2>9. SlikaOK(r)'
    BY <2>1, <2>3, <2>7 DEF SlikaOK, tabele
  <2>10. PrenosOK(r)'
    <3>1. \A i \in items : nalozi'[i.nalog].godina < z.godina
      BY <2>1, <2>2, <2>3 DEF tabele, IInv, TypeOK, NalogTip, Godina
    <3> QED
      BY <2>7, <3>1 DEF PrenosOK
  <2>11. ZahtjevOK(r)'
    BY <2>7, <2>8, <2>9, <2>10 DEF ZahtjevOK, CekaOK, KnjizenjeOK, ZakljucaneOK, ZatvaranjeOK
  <2> QED
    BY <2>1, <2>5, <2>6, <2>11, NastavakOK
<1> QED
  BY <1>2, <1>3

LEMMA GenerateOpeningCheckOK ==
  ASSUME NEW r \in Zahtjev, IInv, GenerateOpeningCheck(r)
  PROVE  IInv'
<1>1. PICK z : z = zahtjevi[r] /\ JeZahtjev(z) /\ z.pc = "openingCheck" /\ MozeDalje(r)
  BY DEF GenerateOpeningCheck, IInv, TypeOK
<1>2. CASE Odustani(r)
  BY <1>2, OdustajanjeOK
<1>3. CASE ~Odustani(r)
  <2>1. PICK k : /\ k = [z EXCEPT !.pc = "openingCommit"]
                 /\ Nastavi(r, k)
                 /\ brave' = SaZakljucanim(r, {RedNaloga(i.nalog) : i \in z.slika})
                 /\ \A i \in z.slika : StavkaIsta(i)
                 /\ UNCHANGED tabele
    BY <1>1, <1>3 DEF GenerateOpeningCheck
  <2>2. JeZahtjev(k)
    BY <1>1, <2>1 DEF JeZahtjev, Koraci
  <2>3. k.pc = "openingCommit" /\ k.slika = z.slika /\ k.godina = z.godina
    BY <1>1, <2>1 DEF JeZahtjev
  <2>4. /\ Zakljucava(r) /\ zahtjevi'[r] = k /\ SlikaOK(r)' /\ ZakljucaneOK(r)'
        /\ \A x \in Red : Drzi(r, x) => Drzi(r, x)'
    BY <1>1, <2>1, <2>3, ProvjereneStavke, ZenonT(30)
  <2>5. /\ z.godina \in Godina /\ Drzi(r, Savjetna(z.godina)) /\ ~ImaPocetno(z.godina)
        /\ \A i \in z.slika : Postoji(i.nalog) => nalozi[i.nalog].godina < z.godina
    BY <1>1 DEF IInv, ZahtjevOK, PocetnoOK, PrenosOK, JeZahtjev
  <2>6. PocetnoOK(r)' /\ PrenosOK(r)'
    BY <2>1, <2>3, <2>4, <2>5, RedoviPostoje
      DEF PocetnoOK, PrenosOK, ImaPocetno, Postoji, Pocetno, tabele
  <2>7. ZahtjevOK(r)'
    BY <2>3, <2>4, <2>6 DEF ZahtjevOK, CekaOK, KnjizenjeOK, ZatvaranjeOK
  <2> QED
    BY <2>1, <2>2, <2>4, <2>7, NastavakOK
<1> QED
  BY <1>2, <1>3

LEMMA GenerateOpeningCommitOK ==
  ASSUME NEW r \in Zahtjev, IInv, GenerateOpeningCommit(r)
  PROVE  IInv'
<1>1. PICK z : z = zahtjevi[r] /\ JeZahtjev(z) /\ z.pc = "openingCommit"
  BY DEF GenerateOpeningCommit, IInv, TypeOK
<1>2. CASE Odustani(r)
  BY <1>2, OdustajanjeOK
<1>3. CASE ~Odustani(r)
  <2>1. PICK n, red :
          /\ n = NoviNalog
          /\ red = [status |-> "DRAFT", godina |-> z.godina, datum |-> DatumOd(z.godina),
                    vrsta |-> z.vrsta]
          /\ SvjeziNalozi # {} /\ Raspored(z.unos) # {}
          /\ nalozi' = [nalozi EXCEPT ![n] = red]
          /\ stavke' = SaStavkama(n, z.unos)
          /\ prenosi' = prenosi \cup {<<n, i.id>> : i \in z.slika}
          /\ Zavrsi(r)
          /\ UNCHANGED <<zakljucena, zatvaranja>>
    BY <1>1, <1>3 DEF GenerateOpeningCommit
  <2>2. n \in SvjeziNalozi /\ n \in Nalog /\ red \in NalogTip /\ UnosOK(z.unos)
    BY <1>1, <2>1, NoviNalogSvjez, PrviDatumGodine
      DEF JeZahtjev, NalogTip, UnosOK, SvjeziNalozi
  <2>3. ~ImaPocetno(z.godina) /\ ~DrugiDrzi(r, Savjetna(z.godina))
    BY <1>1, SlobodnoNijeTudje DEF IInv, ZahtjevOK, PocetnoOK, Drzi, Slobodno
  <2>4. /\ Redovi(r)
        /\ prenosi' \subseteq Nalog \X Stavka /\ PrenosiIspravni' => TabeleOK'
        /\ nalozi'[n] = red /\ \A m \in Nalog \ {n} : nalozi'[m] = nalozi[m]
        /\ \A s \in Stavka : stavke[s].nalog \notin {Nema, n} => stavke'[s] = stavke[s]
    BY <2>1, <2>2, <2>3, NoviNacrt, ZenonT(30)
  <2>5. ~Postoji(n)
    BY <2>2 DEF SvjeziNalozi
  <2>6. ASSUME NEW i \in z.slika
        PROVE  /\ i.id \in Stavka /\ stavke[i.id].nalog \in Nalog \ {n}
               /\ Proknjizen(stavke[i.id].nalog)
               /\ nalozi[stavke[i.id].nalog].godina < z.godina
    <3>1. i.id \in Stavka /\ i.nalog \in Nalog
      BY <1>1, <2>6 DEF JeZahtjev
    <3>2. stavke[i.id].nalog = i.nalog /\ Proknjizen(i.nalog)
      BY <1>1, <2>6 DEF IInv, ZahtjevOK, SlikaOK, ZakljucaneOK, StavkaIsta
    <3>3. Postoji(i.nalog)
      BY <3>2 DEF Proknjizen, Postoji
    <3>4. nalozi[i.nalog].godina < z.godina
      BY <1>1, <2>6, <3>3 DEF IInv, ZahtjevOK, PrenosOK
    <3> QED
      BY <3>1, <3>2, <3>3, <3>4, <2>5
  <2>7. PrenosiIspravni'
    <3>1. Nema \notin Nalog
      BY BazaPretpostavke DEF Nema
    <3>2. ASSUME NEW p \in prenosi'
          PROVE  /\ nalozi'[p[1]].status # "NEMA" /\ stavke'[p[2]].nalog # Nema
                 /\ nalozi'[stavke'[p[2]].nalog].status = "POSTED"
                 /\ nalozi'[stavke'[p[2]].nalog].godina < nalozi'[p[1]].godina
      <4>1. CASE p \in prenosi
        BY <4>1, <2>4, <2>5 DEF IInv, PrenosiIspravni, TypeOK, JeStavka, Proknjizen, Postoji
      <4>2. CASE \E i \in z.slika : p = <<n, i.id>>
        BY <4>2, <2>1, <2>4, <2>6, <3>1 DEF Proknjizen
      <4> QED
        BY <3>2, <4>1, <4>2, <2>1
    <3> QED
      BY <3>2 DEF PrenosiIspravni, Proknjizen, Postoji
  <2>8. prenosi' \subseteq Nalog \X Stavka
    BY <2>1, <2>2, <2>6 DEF IInv, TypeOK
  <2> QED
    BY <2>1, <2>4, <2>7, <2>8, UpisOK
<1> QED
  BY <1>2, <1>3

LEMMA CarryLedgerOK ==
  ASSUME NEW r \in Zahtjev, NEW g \in Godina, NEW d \in Datum, IInv, CarryLedger(r, g, d)
  PROVE  IInv'
<1>1. PICK n, items, k :
        /\ n = CHOOSE m \in AutoPocetni(g) : TRUE
        /\ items = Knjiga(g - 1, DatumDo(g - 1), prenosi)
        /\ k = [Mirovanje EXCEPT !.pc = "carryCheck", !.godina = g, !.datum = d,
                  !.nalog = n, !.slika = items,
                  !.ceka = {RedNaloga(i.nalog) : i \in items}]
        /\ Nastavi(r, k)
        /\ Cardinality(AutoPocetni(g)) = 1
        /\ UNCHANGED tabele
  BY DEF CarryLedger
<1>2. n \in Nalog /\ nalozi[n].godina = g
  <2>1. AutoPocetni(g) # {}
    BY <1>1, FS_EmptySet
  <2> QED
    BY <1>1, <2>1 DEF AutoPocetni
<1>3. \A i \in items : /\ i.id \in Stavka /\ i.nalog \in Nalog
                       /\ stavke[i.id].nalog = i.nalog /\ nalozi[i.nalog].godina < g
  <2>1. g \in Int /\ \A m \in Nalog : nalozi[m].godina \in Int
    BY DEF Godina, IInv, TypeOK, NalogTip
  <2>2. PICK h \in Int : h = g - 1
    BY <2>1
  <2> QED
    BY <1>1, <2>1, <2>2, StavkaKnjige
<1>4. {RedNaloga(i.nalog) : i \in items} \subseteq Red
  BY <1>3, RedoviPostoje
<1>5. JeZahtjev(k)
  BY <1>1, <1>2, <1>3, <1>4, PrazanUnos DEF JeZahtjev, Mirovanje, Koraci, Vrsta
<1>6. Zakljucava(r)
  BY NoveBrave DEF CarryLedger
<1>7. /\ zahtjevi'[r] = k /\ k.pc = "carryCheck" /\ k.slika = items /\ k.nalog = n
      /\ k.godina = g /\ k.ceka = {RedNaloga(i.nalog) : i \in items}
  BY <1>1, NovoZnanje DEF Mirovanje
<1>8. SlikaOK(r)' /\ PrenosOK(r)'
  BY <1>1, <1>2, <1>3, <1>7 DEF SlikaOK, PrenosOK, tabele
<1>9. ZahtjevOK(r)'
  BY <1>7, <1>8 DEF ZahtjevOK, CekaOK, KnjizenjeOK, PocetnoOK, ZakljucaneOK, ZatvaranjeOK
<1> QED
  BY <1>1, <1>5, <1>6, <1>9, NastavakOK

LEMMA CarryCheckOK ==
  ASSUME NEW r \in Zahtjev, IInv, CarryCheck(r)
  PROVE  IInv'
<1>1. PICK z : z = zahtjevi[r] /\ JeZahtjev(z) /\ z.pc = "carryCheck" /\ MozeDalje(r)
  BY DEF CarryCheck, IInv, TypeOK
<1>2. CASE Odustani(r)
  BY <1>2, OdustajanjeOK
<1>3. CASE ~Odustani(r)
  <2>1. PICK k : /\ k = [z EXCEPT !.pc = "carryCommit",
                           !.ceka = {RedNaloga(z.nalog), RedGodine(z.godina)}]
                 /\ Nastavi(r, k)
                 /\ brave' = SaZakljucanim(r, {RedNaloga(i.nalog) : i \in z.slika})
                 /\ \A i \in z.slika : StavkaIsta(i)
                 /\ UNCHANGED tabele
    BY <1>1, <1>3 DEF CarryCheck
  <2>2. /\ z.nalog \in Nalog /\ (Postoji(z.nalog) => nalozi[z.nalog].godina = z.godina)
        /\ \A i \in z.slika : Postoji(i.nalog) => nalozi[i.nalog].godina < z.godina
    BY <1>1 DEF IInv, ZahtjevOK, PrenosOK
  <2>3. JeZahtjev(k)
    BY <1>1, <2>1, <2>2, RedoviPostoje, ZenonT(30) DEF JeZahtjev, Koraci
  <2>4. k.pc = "carryCommit" /\ k.slika = z.slika /\ k.godina = z.godina /\ k.nalog = z.nalog
    BY <1>1, <2>1 DEF JeZahtjev
  <2>5. Zakljucava(r) /\ zahtjevi'[r] = k /\ SlikaOK(r)' /\ ZakljucaneOK(r)'
    <3>1. /\ UNCHANGED tabele /\ Nastavi(r, k)
          /\ brave' = SaZakljucanim(r, {RedNaloga(i.nalog) : i \in z.slika})
          /\ \A i \in z.slika : StavkaIsta(i)
      BY <2>1
    <3> HIDE <2>1
    <3> QED
      BY <1>1, <2>4, <3>1, ProvjereneStavke
  <2>6. PrenosOK(r)'
    BY <2>1, <2>2, <2>4, <2>5 DEF PrenosOK, Postoji, tabele
  <2>7. ZahtjevOK(r)'
    BY <2>4, <2>5, <2>6 DEF ZahtjevOK, CekaOK, KnjizenjeOK, PocetnoOK, ZatvaranjeOK
  <2> QED
    BY <2>1, <2>3, <2>5, <2>7, NastavakOK
<1> QED
  BY <1>2, <1>3

LEMMA CarryCommitOK ==
  ASSUME NEW r \in Zahtjev, IInv, CarryCommit(r)
  PROVE  IInv'
<1>1. PICK z : z = zahtjevi[r] /\ JeZahtjev(z) /\ z.pc = "carryCommit"
  BY DEF CarryCommit, IInv, TypeOK
<1>2. CASE Odustani(r)
  BY <1>2, OdustajanjeOK
<1>3. CASE ~Odustani(r)
  <2>1. /\ Postoji(z.nalog) /\ Zavrsi(r)
        /\ prenosi' = prenosi \cup {<<z.nalog, i.id>> : i \in z.slika}
        /\ UNCHANGED <<zakljucena, nalozi, stavke, zatvaranja>>
    BY <1>1, <1>3 DEF CarryCommit
  <2>2. z.nalog \in Nalog /\ nalozi[z.nalog].godina = z.godina
    BY <1>1, <2>1 DEF IInv, ZahtjevOK, PrenosOK
  <2>3. ASSUME NEW i \in z.slika
        PROVE  /\ i.id \in Stavka /\ stavke[i.id].nalog # Nema
               /\ Proknjizen(stavke[i.id].nalog)
               /\ nalozi[stavke[i.id].nalog].godina < z.godina
    <3>1. i.id \in Stavka /\ stavke[i.id].nalog = i.nalog /\ stavke[i.id].nalog # Nema
          /\ Proknjizen(i.nalog)
      BY <1>1, <2>3 DEF IInv, ZahtjevOK, SlikaOK, ZakljucaneOK, StavkaIsta, JeZahtjev
    <3>2. nalozi[i.nalog].godina < z.godina
      BY <1>1, <2>3, <3>1 DEF IInv, ZahtjevOK, PrenosOK, Proknjizen, Postoji
    <3> QED
      BY <3>1, <3>2
  <2>4. PrenosiIspravni'
    <3>1. ASSUME NEW p \in prenosi'
          PROVE  /\ Postoji(p[1]) /\ stavke[p[2]].nalog # Nema
                 /\ Proknjizen(stavke[p[2]].nalog)
                 /\ nalozi[stavke[p[2]].nalog].godina < nalozi[p[1]].godina
      <4>1. CASE p \in prenosi
        BY <4>1 DEF IInv, PrenosiIspravni
      <4>2. CASE \E i \in z.slika : p = <<z.nalog, i.id>>
        BY <4>2, <2>1, <2>2, <2>3
      <4> QED
        BY <3>1, <4>1, <4>2, <2>1
    <3> QED
      BY <2>1, <3>1 DEF PrenosiIspravni, Proknjizen, Postoji
  <2>5. TabeleOK'
    <3>1. prenosi' \subseteq Nalog \X Stavka
      BY <2>1, <2>2, <2>3, SMTT(30) DEF IInv, TypeOK
    <3> QED
      BY <2>1, <2>4, <3>1 DEF TabeleOK, IInv, TypeOK, JeStavka, JeVeza, VezeIspravne,
                              JednoPocetno, Aktivna, Proknjizen, Postoji, Pocetno
  <2>6. Redovi(r)
    BY <2>1 DEF Redovi, Postoji, ImaPocetno, Pocetno
  <2> QED
    BY <2>1, <2>5, <2>6, UpisOK
<1> QED
  BY <1>2, <1>3

---------------------------------------------------------------------------
(* IInv is inductive *)

LEMMA PocetakOK == Init => IInv
<1> SUFFICES ASSUME Init PROVE IInv
  OBVIOUS
<1>1. /\ \A n \in Nalog : nalozi[n].status = "NEMA"
      /\ nalozi \in [Nalog -> NalogTip]
  BY PrviDatum DEF Init, PrazanNalog, NalogTip, Vrsta
<1>2. /\ stavke = [s \in Stavka |-> stavke[s]]
      /\ \A s \in Stavka : JeStavka(stavke[s])
  BY DEF Init, JeStavka, PraznaStavka
<1>3. JeZahtjev(Mirovanje)
  BY PrviDatum, PrazanUnos DEF JeZahtjev, Mirovanje, Koraci, Vrsta
<1>4. TypeOK
  BY <1>1, <1>2, <1>3 DEF Init, TypeOK
<1>5. VezeIspravne /\ PrenosiIspravni /\ JednoPocetno
  BY <1>1 DEF Init, VezeIspravne, PrenosiIspravni, JednoPocetno, Postoji
<1>6. ASSUME NEW r \in Zahtjev PROVE ZahtjevOK(r)
  <2>1. zahtjevi[r].pc = "miruje" /\ zahtjevi[r].slika = {}
    BY DEF Init, Mirovanje
  <2> QED
    BY <2>1 DEF ZahtjevOK, CekaOK, KnjizenjeOK, PocetnoOK, SlikaOK, ZakljucaneOK,
                ZatvaranjeOK, PrenosOK
<1> QED
  BY <1>4, <1>5, <1>6 DEF IInv

LEMMA JournalStepOK ==
  ASSUME NEW r \in Zahtjev, IInv,
         \/ CreateJournal(r) \/ OpeningImport(r) \/ UpdateDraft(r)
         \/ PostJournal(r) \/ ReopenJournal(r) \/ DeleteJournal(r)
  PROVE  IInv'
<1>1. CASE CreateJournal(r)
  BY <1>1, PrviDatumGodine, CreateJournalCheckOK, CreateJournalLockOK, CreateJournalWriteOK
    DEF CreateJournal, Vrsta
<1>2. CASE OpeningImport(r)
  BY <1>2, OpeningImportCompanyOK, OpeningImportYearOK, OpeningImportWriteOK DEF OpeningImport
<1>3. CASE UpdateDraft(r)
  BY <1>3, UpdateDraftCheckOK, UpdateDraftWriteOK DEF UpdateDraft
<1>4. CASE PostJournal(r)
  BY <1>4, PostJournalReadOK, PostJournalLockYearOK, PostJournalCheckOK, PostJournalCommitOK
    DEF PostJournal
<1>5. CASE ReopenJournal(r)
  BY <1>5, ReopenJournalCheckOK, ReopenJournalWriteOK DEF ReopenJournal
<1>6. CASE DeleteJournal(r)
  BY <1>6, DeleteJournalCheckOK, DeleteJournalWriteOK DEF DeleteJournal
<1> QED
  BY <1>1, <1>2, <1>3, <1>4, <1>5, <1>6

LEMMA SettlementStepOK ==
  ASSUME NEW r \in Zahtjev, IInv,
         \/ Settle(r) \/ CancelSettlements(r) \/ GenerateOpening(r) \/ Carry(r)
  PROVE  IInv'
<1>1. CASE Settle(r)
  <2>1. ASSUME NEW g \in Godina, NEW d \in Datum, NEW par, SettleManual(r, g, d, par)
        PROVE  IInv'
    BY <2>1, PocniZatvaranjeOK DEF SettleManual
  <2>2. ASSUME NEW g \in Godina, NEW d \in Datum, NEW S, SettleSelected(r, g, d, S)
        PROVE  IInv'
    BY <2>2, PocniZatvaranjeOK DEF SettleSelected
  <2>3. ASSUME NEW g \in Godina, NEW d \in Datum, NEW K, SettleExact(r, g, d, K)
        PROVE  IInv'
    BY <2>3, PocniZatvaranjeOK DEF SettleExact, PartneriKnjige
  <2> QED
    BY <1>1, <2>1, <2>2, <2>3, PreviewOldestOK, SettleOldestOK, WriteSettlementPairsOK,
       SettleCommitOK DEF Settle
<1>2. CASE CancelSettlements(r)
  BY <1>2, CancelSettlementOK, PreviewCancelAllOK, CancelAllSettlementsOK DEF CancelSettlements
<1>3. CASE GenerateOpening(r)
  BY <1>3, GenerateOpeningCompanyOK, GenerateOpeningLockOK, GenerateOpeningLedgerOK,
     GenerateOpeningCheckOK, GenerateOpeningCommitOK DEF GenerateOpening
<1>4. CASE Carry(r)
  BY <1>4, CarryLedgerOK, CarryCheckOK, CarryCommitOK DEF Carry
<1> QED
  BY <1>1, <1>2, <1>3, <1>4

LEMMA KorakOK == IInv /\ [Next]_vars => IInv'
<1> SUFFICES ASSUME IInv, [Next]_vars PROVE IInv'
  OBVIOUS
<1>1. ASSUME NEW r \in Zahtjev, Korak(r) PROVE IInv'
  <2>1. CASE Prekini(r)
    BY <2>1, OdustajanjeOK DEF Prekini
  <2> QED
    BY <1>1, <2>1, JournalStepOK, SettlementStepOK DEF Korak
<1>2. ASSUME NEW g \in Godina, ToggleBusinessYear(g) PROVE IInv'
  BY <1>2, ToggleBusinessYearOK
<1>3. CASE UNCHANGED vars
  <2>1. UNCHANGED tabele /\ brave' = brave /\ zahtjevi' = zahtjevi
    BY <1>3 DEF vars, tabele
  <2>2. Redovi(Niko) /\ TabeleOK'
    BY <2>1, IsteTabele
  <2>3. \A q \in Zahtjev : ZahtjevOK(q)'
    BY <2>1, <2>2, Okvir, BazaPretpostavke DEF IInv, Ostali
  <2> QED
    BY <2>1, <2>2, <2>3 DEF IInv, TypeOK, TabeleOK, JeZahtjev
<1> QED
  BY <1>1, <1>2, <1>3 DEF Next

---------------------------------------------------------------------------
(* Theorems *)

\* Every reachable state satisfies the inductive invariant.
THEOREM Induktivna == Spec => []IInv
BY PocetakOK, KorakOK, PTL DEF Spec

\* Table rows, locks and requests are always well formed.
THEOREM TipoviOK == Spec => []TypeOK
<1>1. IInv => TypeOK
  BY DEF IInv
<1> QED
  BY <1>1, Induktivna, PTL

\* Active settlement edges always tie posted lines of one account and partner,
\* dated no later than the edge, whatever journal actions interleave with
\* writeSettlementPair.
THEOREM VezeOstajuIspravne == Spec => []VezeIspravne
<1>1. IInv => VezeIspravne
  BY DEF IInv
<1> QED
  BY <1>1, Induktivna, PTL

\* Carried lines always stay posted in an earlier year than the opening journal
\* of carrySettlementDetails that carries them.
THEOREM PrenosiOstajuIspravni == Spec => []PrenosiIspravni
<1>1. IInv => PrenosiIspravni
  BY DEF IInv
<1> QED
  BY <1>1, Induktivna, PTL

\* A business year never has two opening-balance journals, although
\* createJournal, commitOpeningImport and generateOpeningBalance all create one.
THEOREM NajviseJednoPocetno == Spec => []JednoPocetno
<1>1. IInv => JednoPocetno
  BY DEF IInv
<1> QED
  BY <1>1, Induktivna, PTL

---------------------------------------------------------------------------
(* The steps that change a table are the commits *)

Upisi(r) ==
  \/ CreateJournalWrite(r) \/ OpeningImportWrite(r) \/ UpdateDraftWrite(r)
  \/ PostJournalCommit(r) \/ ReopenJournalWrite(r) \/ DeleteJournalWrite(r)
  \/ SettleCommit(r) \/ CancelAllSettlements(r)
  \/ \E g \in Godina, d \in Datum, v \in zatvaranja : CancelSettlement(r, g, d, v)
  \/ GenerateOpeningCommit(r) \/ CarryCommit(r)

LEMMA OstaloNeMijenja ==
  ASSUME NEW r \in Zahtjev, Korak(r)
  PROVE  UNCHANGED tabele \/ Upisi(r)
<1>1. CASE CreateJournal(r)
  BY <1>1 DEF CreateJournal, Upisi, CreateJournalCheck, CreateJournalLock, Odustani
<1>2. CASE OpeningImport(r)
  BY <1>2 DEF OpeningImport, Upisi, OpeningImportCompany, OpeningImportYear, Odustani
<1>3. CASE UpdateDraft(r) \/ ReopenJournal(r) \/ DeleteJournal(r)
  BY <1>3 DEF UpdateDraft, ReopenJournal, DeleteJournal, Upisi, UpdateDraftCheck,
              ReopenJournalCheck, DeleteJournalCheck
<1>4. CASE PostJournal(r)
  BY <1>4 DEF PostJournal, Upisi, PostJournalRead, PostJournalLockYear, PostJournalCheck, Odustani
<1>5. CASE Settle(r)
  <2>1. \A g, d, items, plan : PocniZatvaranje(r, g, d, items, plan) => UNCHANGED tabele
    BY DEF PocniZatvaranje
  <2>2. SettleOldest(r) \/ WriteSettlementPairs(r) => UNCHANGED tabele
    BY <2>1 DEF SettleOldest, WriteSettlementPairs, Odustani
  <2> QED
    BY <1>5, <2>1, <2>2 DEF Settle, Upisi, SettleManual, SettleSelected, SettleExact, PreviewOldest
<1>6. CASE CancelSettlements(r)
  BY <1>6 DEF CancelSettlements, Upisi, PreviewCancelAll
<1>7. CASE GenerateOpening(r)
  BY <1>7 DEF GenerateOpening, Upisi, GenerateOpeningCompany, GenerateOpeningLock,
              GenerateOpeningLedger, GenerateOpeningCheck, Odustani
<1>8. CASE Carry(r)
  BY <1>8 DEF Carry, Upisi, CarryLedger, CarryCheck, Odustani
<1>9. CASE Prekini(r)
  BY <1>9 DEF Prekini, Odustani
<1> QED
  BY <1>1, <1>2, <1>3, <1>4, <1>5, <1>6, <1>7, <1>8, <1>9 DEF Korak

\* A line that an edge or a carry record names is a line of a posted journal.
LEMMA ZasticenaProknjizena ==
  ASSUME IInv, NEW s, ZasticenaStavka(s)
  PROVE  /\ s \in Stavka /\ stavke[s].nalog \in Nalog /\ stavke[s].nalog # Nema
         /\ Proknjizen(stavke[s].nalog)
<1>1. s \in Stavka /\ stavke[s].nalog # Nema /\ Proknjizen(stavke[s].nalog)
  BY DEF IInv, TypeOK, JeVeza, VezeIspravne, PrenosiIspravni, ZasticenaStavka
<1> QED
  BY <1>1 DEF IInv, TypeOK, JeStavka

---------------------------------------------------------------------------
(* What commits do to journals and lines *)

\* A draft n is written beside what there is.
NacrtUpisan(n) ==
  /\ n \in SvjeziNalozi /\ nalozi'[n].status = "DRAFT"
  /\ \A m \in Nalog \ {n} : nalozi'[m] = nalozi[m]
  /\ \A s \in Stavka : \/ {stavke[s].nalog, stavke'[s].nalog} \subseteq {Nema, n}
                       \/ stavke'[s] = stavke[s]

LEMMA UpisanNacrt ==
  ASSUME IInv, SvjeziNalozi # {}, NEW red, red.status = "DRAFT",
         NEW unos, UnosOK(unos), Raspored(unos) # {},
         nalozi' = [nalozi EXCEPT ![NoviNalog] = red], stavke' = SaStavkama(NoviNalog, unos)
  PROVE  NacrtUpisan(NoviNalog)
<1>1. PICK n : n = NoviNalog /\ n \in SvjeziNalozi /\ n \in Nalog
  BY NoviNalogSvjez DEF SvjeziNalozi
<1>2. \A s \in Stavka :
        \/ s \in SvjezeStavke /\ stavke'[s].nalog = n
        \/ stavke[s].nalog = n /\ stavke'[s] = PraznaStavka
        \/ stavke[s].nalog # n /\ stavke'[s] = stavke[s]
  BY <1>1, ZamjenaStavki DEF IInv
<1>3. \A s \in Stavka : \/ {stavke[s].nalog, stavke'[s].nalog} \subseteq {Nema, n}
                        \/ stavke'[s] = stavke[s]
  BY <1>2 DEF SvjezeStavke, PraznaStavka
<1>4. nalozi'[n] = red /\ \A m \in Nalog \ {n} : nalozi'[m] = nalozi[m]
  BY <1>1 DEF IInv, TypeOK
<1> QED
  BY <1>1, <1>3, <1>4 DEF NacrtUpisan

\* What a request entered is made of cards.
LEMMA UnosZahtjeva ==
  ASSUME IInv, NEW r \in Zahtjev
  PROVE  UnosOK(zahtjevi[r].unos)
BY DEF IInv, TypeOK, JeZahtjev, UnosOK

LEMMA NoviNaloziSuNacrti ==
  ASSUME IInv, NEW r \in Zahtjev,
         \/ CreateJournalWrite(r) \/ OpeningImportWrite(r) \/ GenerateOpeningCommit(r)
  PROVE  UNCHANGED tabele \/ (NacrtUpisan(NoviNalog) /\ zatvaranja' = zatvaranja)
<1>1. PICK unos : unos = zahtjevi[r].unos /\ UnosOK(unos)
  BY UnosZahtjeva
<1>2. \/ UNCHANGED tabele
      \/ /\ SvjeziNalozi # {} /\ Raspored(unos) # {} /\ zatvaranja' = zatvaranja
         /\ stavke' = SaStavkama(NoviNalog, unos)
         /\ \E g, d, v : nalozi' = [nalozi EXCEPT ![NoviNalog] =
                           [status |-> "DRAFT", godina |-> g, datum |-> d, vrsta |-> v]]
  BY <1>1 DEF CreateJournalWrite, OpeningImportWrite, GenerateOpeningCommit, UpisiNacrt, Odustani
<1> QED
  BY <1>1, <1>2, UpisanNacrt

\* The named lines stay as they are, in posted journals of the same date.
NaloziStite ==
  \A s \in Stavka : ZasticenaStavka(s) =>
    /\ stavke'[s] = stavke[s] /\ Proknjizen(stavke[s].nalog)'
    /\ nalozi'[stavke[s].nalog].datum = nalozi[stavke[s].nalog].datum

LEMMA NacrtStiti ==
  ASSUME IInv, NEW n, NacrtUpisan(n)
  PROVE  NaloziStite
<1>1. SUFFICES ASSUME NEW s \in Stavka, ZasticenaStavka(s)
               PROVE  stavke'[s] = stavke[s] /\ nalozi'[stavke[s].nalog] = nalozi[stavke[s].nalog]
  BY ZasticenaProknjizena DEF NaloziStite, Proknjizen
<1>2. stavke[s].nalog \notin {Nema, n} /\ stavke[s].nalog \in Nalog
  BY <1>1, ZasticenaProknjizena DEF NacrtUpisan, SvjeziNalozi, Proknjizen, Postoji
<1> QED
  BY <1>2 DEF NacrtUpisan

LEMMA IzmjenaStiti ==
  ASSUME IInv, NEW r \in Zahtjev, UpdateDraftWrite(r) \/ DeleteJournalWrite(r)
  PROVE  NaloziStite
<1>1. CASE UNCHANGED tabele
  BY <1>1, ZasticenaProknjizena DEF NaloziStite, tabele, Proknjizen
<1>2. PICK n : n = zahtjevi[r].nalog
  OBVIOUS
<1>3. n \in Nalog /\ UnosOK(zahtjevi[r].unos)
  BY <1>2, UnosZahtjeva DEF UpdateDraftWrite, DeleteJournalWrite, IInv, ZahtjevOK, CekaOK
<1>4. ASSUME ~(UNCHANGED tabele)
      PROVE  /\ ~ZasticenNalog(n)
             /\ \A s \in Stavka : \/ stavke[s].nalog \in {Nema, n}
                                  \/ stavke'[s] = stavke[s]
             /\ \A m \in Nalog \ {n} : nalozi'[m] = nalozi[m]
  <2>1. CASE UpdateDraftWrite(r)
    <3>1. ~ZasticenNalog(n) /\ Raspored(zahtjevi[r].unos) # {} /\ nalozi' = nalozi
          /\ stavke' = SaStavkama(n, zahtjevi[r].unos)
      BY <1>2, <1>4, <2>1 DEF UpdateDraftWrite, Odustani
    <3>2. \A s \in Stavka : s \in SvjezeStavke \/ stavke[s].nalog = n \/ stavke'[s] = stavke[s]
      BY <1>3, <3>1, ZamjenaStavki DEF IInv
    <3> QED
      BY <3>1, <3>2 DEF SvjezeStavke
  <2>2. CASE DeleteJournalWrite(r)
    BY <1>2, <1>4, <2>2 DEF DeleteJournalWrite, Odustani, IInv, TypeOK
  <2> QED
    BY <2>1, <2>2
<1>5. ASSUME ~(UNCHANGED tabele), NEW s \in Stavka, ZasticenaStavka(s)
      PROVE  stavke'[s] = stavke[s] /\ nalozi'[stavke[s].nalog] = nalozi[stavke[s].nalog]
  <2>1. stavke[s].nalog \notin {Nema, n} /\ stavke[s].nalog \in Nalog
    BY <1>4, <1>5, ZasticenaProknjizena DEF ZasticenNalog, StavkeNaloga
  <2> QED
    BY <1>4, <1>5, <2>1
<1> QED
  BY <1>1, <1>5, ZasticenaProknjizena DEF NaloziStite, Proknjizen

LEMMA StatusStiti ==
  ASSUME IInv, NEW r \in Zahtjev, PostJournalCommit(r) \/ ReopenJournalWrite(r)
  PROVE  NaloziStite
<1>1. CASE UNCHANGED tabele
  BY <1>1, ZasticenaProknjizena DEF NaloziStite, tabele, Proknjizen
<1>2. CASE ~(UNCHANGED tabele)
  <2>1. PICK n : n = zahtjevi[r].nalog
    OBVIOUS
  <2>2. n \in Nalog
    BY <2>1 DEF PostJournalCommit, ReopenJournalWrite, IInv, ZahtjevOK, CekaOK, KnjizenjeOK
  <2>3. PICK status :
          /\ nalozi' = [nalozi EXCEPT ![n].status = status] /\ stavke' = stavke
          /\ status = "POSTED" \/ ~Proknjizen(n) \/ ~ZasticenNalog(n)
    BY <1>2, <2>1 DEF PostJournalCommit, ReopenJournalWrite, Odustani
  <2>4. /\ nalozi'[n].status = status /\ nalozi'[n].datum = nalozi[n].datum
        /\ \A m \in Nalog \ {n} : nalozi'[m] = nalozi[m]
    BY <2>2, <2>3 DEF IInv, TypeOK, NalogTip
  <2>5. ASSUME NEW s \in Stavka, ZasticenaStavka(s)
        PROVE  /\ Proknjizen(stavke[s].nalog)'
               /\ nalozi'[stavke[s].nalog].datum = nalozi[stavke[s].nalog].datum
    <3>1. stavke[s].nalog \in Nalog /\ Proknjizen(stavke[s].nalog)
      BY <2>5, ZasticenaProknjizena
    <3>2. stavke[s].nalog = n => status = "POSTED"
      BY <2>3, <2>5, <3>1 DEF ZasticenNalog, StavkeNaloga
    <3> QED
      BY <2>3, <2>4, <3>1, <3>2 DEF Proknjizen
  <2> QED
    BY <2>3, <2>5 DEF NaloziStite
<1> QED
  BY <1>1, <1>2
\* Settlements, cancellations and carries do not touch journals.
LEMMA ZatvaranjaStite ==
  ASSUME IInv, nalozi' = nalozi, stavke' = stavke
  PROVE  NaloziStite
BY ZasticenaProknjizena DEF NaloziStite, Proknjizen

LEMMA ZatvaranjaIPrenosi ==
  ASSUME NEW r \in Zahtjev,
         \/ SettleCommit(r) \/ CancelAllSettlements(r) \/ CarryCommit(r)
         \/ \E g \in Godina, d \in Datum, v \in zatvaranja : CancelSettlement(r, g, d, v)
  PROVE  nalozi' = nalozi /\ stavke' = stavke
BY DEF SettleCommit, CancelAllSettlements, CarryCommit, CancelSettlement, Odustani, tabele

LEMMA KorakStiti ==
  ASSUME IInv, NEW r \in Zahtjev, Korak(r)
  PROVE  NaloziStite
<1>1. CASE UNCHANGED tabele
  BY <1>1, ZatvaranjaStite DEF tabele
<1>2. CASE CreateJournalWrite(r) \/ OpeningImportWrite(r) \/ GenerateOpeningCommit(r)
  BY <1>1, <1>2, NoviNaloziSuNacrti, NacrtStiti
<1>3. CASE \/ UpdateDraftWrite(r) \/ DeleteJournalWrite(r)
           \/ PostJournalCommit(r) \/ ReopenJournalWrite(r)
  BY <1>3, IzmjenaStiti, StatusStiti
<1>4. CASE \/ SettleCommit(r) \/ CancelAllSettlements(r) \/ CarryCommit(r)
           \/ \E g \in Godina, d \in Datum, v \in zatvaranja : CancelSettlement(r, g, d, v)
  BY <1>4, ZatvaranjaIPrenosi, ZatvaranjaStite
<1> QED
  BY <1>1, <1>2, <1>3, <1>4, OstaloNeMijenja DEF Upisi

\* A journal is posted as it was, or becomes posted by the commit of postJournal.
LEMMA KorakKnjizi ==
  ASSUME IInv, NEW r \in Zahtjev, Korak(r), NEW n \in Nalog, nalozi'[n].status = "POSTED"
  PROVE  \/ nalozi'[n] = nalozi[n]
         \/ SmijeSeKnjiziti(n) /\ nalozi'[n] = [nalozi[n] EXCEPT !.status = "POSTED"]
<1>1. CASE nalozi' = nalozi
  BY <1>1
<1>2. CASE CreateJournalWrite(r) \/ OpeningImportWrite(r) \/ GenerateOpeningCommit(r)
  <2>1. UNCHANGED tabele \/ NacrtUpisan(NoviNalog)
    BY <1>2, NoviNaloziSuNacrti
  <2> QED
    BY <2>1 DEF NacrtUpisan, tabele
<1>3. CASE UpdateDraftWrite(r) \/ DeleteJournalWrite(r) \/ ReopenJournalWrite(r)
  <2>1. PICK m : m = zahtjevi[r].nalog
    OBVIOUS
  <2>2. \/ nalozi' = nalozi
        \/ nalozi' = [nalozi EXCEPT ![m] = PrazanNalog]
        \/ nalozi' = [nalozi EXCEPT ![m].status = "DRAFT"]
    BY <1>3, <2>1 DEF UpdateDraftWrite, DeleteJournalWrite, ReopenJournalWrite, Odustani, tabele
  <2> QED
    BY <2>2 DEF PrazanNalog, IInv, TypeOK, NalogTip
<1>4. CASE PostJournalCommit(r)
  BY <1>4 DEF PostJournalCommit, IInv, TypeOK, ZahtjevOK, KnjizenjeOK
<1> QED
  BY <1>1, <1>2, <1>3, <1>4, OstaloNeMijenja, ZatvaranjaIPrenosi DEF Upisi, tabele


---------------------------------------------------------------------------
(* Cancelling what the page showed *)

LEMMA PonisteneNestaju ==
  ASSUME IInv, NEW V, V \subseteq zatvaranja, \A v \in V : Aktivna(v), NEW d \in Datum,
         zatvaranja' = Ponistene(V, d)
  PROVE  zatvaranja \ zatvaranja' = V
<1>1. ASSUME NEW v \in V PROVE v \notin zatvaranja'
  <2>1. SUFFICES ASSUME NEW w \in zatvaranja, v = IF w \in V THEN [w EXCEPT !.ponisteno = d] ELSE w
                 PROVE  FALSE
    BY DEF Ponistene
  <2>2. w \in V /\ v = [w EXCEPT !.ponisteno = d]
    BY <1>1, <2>1
  <2>3. v.ponisteno = d
    BY <2>1, <2>2 DEF IInv, TypeOK, JeVeza
  <2> QED
    BY <1>1, <2>3 DEF Aktivna, Datum
<1>2. \A w \in zatvaranja \ V : w \in zatvaranja'
  BY DEF Ponistene
<1> QED
  BY <1>1, <1>2

LEMMA OstaliCekaju ==
  ASSUME IInv, NEW r \in Zahtjev, Korak(r)
  PROVE  \A q \in Zahtjev \ {r} : zahtjevi'[q] = zahtjevi[q]
<1>1. ASSUME (\E z : Nastavi(r, z)) \/ Zavrsi(r) \/ zahtjevi' = zahtjevi
      PROVE  \A q \in Zahtjev \ {r} : zahtjevi'[q] = zahtjevi[q]
  BY <1>1 DEF Nastavi, Zavrsi, IInv, TypeOK
<1>2. CASE CreateJournal(r)
  BY <1>1, <1>2 DEF CreateJournal, CreateJournalCheck, CreateJournalLock, CreateJournalWrite,
                    UpisiNacrt, Odustani
<1>3. CASE OpeningImport(r)
  BY <1>1, <1>3 DEF OpeningImport, OpeningImportCompany, OpeningImportYear, OpeningImportWrite,
                    UpisiNacrt, Odustani
<1>4. CASE UpdateDraft(r) \/ ReopenJournal(r) \/ DeleteJournal(r)
  BY <1>1, <1>4 DEF UpdateDraft, UpdateDraftCheck, UpdateDraftWrite, ReopenJournal,
                    ReopenJournalCheck, ReopenJournalWrite, DeleteJournal, DeleteJournalCheck,
                    DeleteJournalWrite, Odustani
<1>5. CASE PostJournal(r)
  BY <1>1, <1>5 DEF PostJournal, PostJournalRead, PostJournalLockYear, PostJournalCheck,
                    PostJournalCommit, Odustani
<1>6. CASE Settle(r)
  <2>1. \A g, d, items, plan : PocniZatvaranje(r, g, d, items, plan) => \E z : Nastavi(r, z)
    BY DEF PocniZatvaranje
  <2>2. SettleOldest(r) => (\E z : Nastavi(r, z)) \/ Zavrsi(r)
    BY <2>1 DEF SettleOldest, Odustani
  <2>3. WriteSettlementPairs(r) \/ SettleCommit(r) => (\E z : Nastavi(r, z)) \/ Zavrsi(r)
    BY DEF WriteSettlementPairs, SettleCommit, Odustani
  <2> QED
    BY <1>1, <1>6, <2>1, <2>2, <2>3 DEF Settle, SettleManual, SettleSelected, SettleExact,
                                        PreviewOldest
<1>7. CASE CancelSettlements(r)
  BY <1>1, <1>7 DEF CancelSettlements, CancelSettlement, PreviewCancelAll, CancelAllSettlements,
                    Odustani
<1>8. CASE GenerateOpening(r)
  BY <1>1, <1>8 DEF GenerateOpening, GenerateOpeningCompany, GenerateOpeningLock,
                    GenerateOpeningLedger, GenerateOpeningCheck, GenerateOpeningCommit, Odustani
<1>9. CASE Carry(r)
  BY <1>1, <1>9 DEF Carry, CarryLedger, CarryCheck, CarryCommit, Odustani
<1>10. CASE Prekini(r)
  BY <1>1, <1>10 DEF Prekini, Odustani
<1> QED
  BY <1>2, <1>3, <1>4, <1>5, <1>6, <1>7, <1>8, <1>9, <1>10 DEF Korak

LEMMA KorakPonistava ==
  ASSUME IInv, NEW q \in Zahtjev, Korak(q), NEW r \in Zahtjev,
         zahtjevi[r].pc = "cancelPreview", zahtjevi'[r] # zahtjevi[r]
  PROVE  Revizija(zatvaranja \ zatvaranja') \in {{}, zahtjevi[r].otisak}
<1>1. q = r
  BY OstaliCekaju
<1>2. ASSUME zatvaranja' = zatvaranja PROVE Revizija(zatvaranja \ zatvaranja') = {}
  BY <1>2 DEF Revizija
<1>3. Upisi(r) => CancelAllSettlements(r)
  BY DEF Upisi, CreateJournalWrite, OpeningImportWrite, UpdateDraftWrite, PostJournalCommit,
         ReopenJournalWrite, DeleteJournalWrite, SettleCommit, CancelSettlement, Miruje,
         GenerateOpeningCommit, CarryCommit
<1>4. CASE CancelAllSettlements(r)
  <2>1. PICK z, V : /\ z = zahtjevi[r]
                    /\ V = VezeKartice(z.godina, z.datum, CHOOSE k \in z.kartice : TRUE)
    OBVIOUS
  <2>2. CASE Odustani(r)
    BY <1>2, <2>2 DEF Odustani, tabele
  <2>3. CASE ~Odustani(r)
    <3>1. zatvaranja' = Ponistene(V, z.datum) /\ Revizija(V) = z.otisak
      BY <1>4, <2>1, <2>3 DEF CancelAllSettlements
    <3>2. V \subseteq zatvaranja /\ \A v \in V : Aktivna(v)
      BY <2>1 DEF VezeKartice
    <3>3. z.datum \in Datum
      BY <2>1 DEF IInv, TypeOK, JeZahtjev
    <3>4. zatvaranja \ zatvaranja' = V
      BY <3>1, <3>2, <3>3, PonisteneNestaju
    <3> QED
      BY <2>1, <3>1, <3>4
  <2> QED
    BY <2>2, <2>3
<1> QED
  BY <1>1, <1>2, <1>3, <1>4, OstaloNeMijenja DEF tabele

---------------------------------------------------------------------------
(* Confirming what the page showed *)

\* A line that something mentions stays with its journal, or goes.
StavkeOstaju ==
  \A s \in Stavka \ SvjezeStavke :
    \/ stavke'[s].nalog = Nema
    \/ /\ stavke'[s] = stavke[s]
       /\ nalozi'[stavke[s].nalog].datum = nalozi[stavke[s].nalog].datum

\* Replacing the lines of n, whose row alone may change its date.
LEMMA ZamjenaOstavlja ==
  ASSUME IInv, NEW n \in Nalog, NEW unos, UnosOK(unos), Raspored(unos) # {},
         stavke' = SaStavkama(n, unos), \A m \in Nalog \ {n} : nalozi'[m] = nalozi[m]
  PROVE  StavkeOstaju
<1>1. \A s \in Stavka :
        \/ s \in SvjezeStavke /\ stavke'[s].nalog = n
        \/ stavke[s].nalog = n /\ stavke'[s] = PraznaStavka
        \/ stavke[s].nalog # n /\ stavke'[s] = stavke[s]
  BY ZamjenaStavki DEF IInv
<1> QED
  BY <1>1 DEF StavkeOstaju, PraznaStavka, IInv, TypeOK, JeStavka

LEMMA KorakOstavljaStavke ==
  ASSUME IInv, NEW r \in Zahtjev, Korak(r)
  PROVE  StavkeOstaju
<1>1. CASE nalozi' = nalozi /\ stavke' = stavke
  BY <1>1 DEF StavkeOstaju
<1>2. PICK n, unos : n = zahtjevi[r].nalog /\ unos = zahtjevi[r].unos /\ UnosOK(unos)
  BY UnosZahtjeva
<1>3. CASE CreateJournalWrite(r) \/ OpeningImportWrite(r) \/ GenerateOpeningCommit(r)
  <2>1. PICK m : m = NoviNalog
    OBVIOUS
  <2>2. \/ UNCHANGED tabele
        \/ /\ SvjeziNalozi # {} /\ Raspored(unos) # {} /\ stavke' = SaStavkama(m, unos)
           /\ \E red : nalozi' = [nalozi EXCEPT ![m] = red]
    BY <1>2, <1>3, <2>1 DEF CreateJournalWrite, OpeningImportWrite, GenerateOpeningCommit,
                            UpisiNacrt, Odustani
  <2>3. SvjeziNalozi # {} => m \in Nalog
    BY <2>1, NoviNalogSvjez DEF SvjeziNalozi
  <2> QED
    BY <1>1, <1>2, <2>2, <2>3, ZamjenaOstavlja DEF tabele, IInv, TypeOK
<1>4. CASE UpdateDraftWrite(r)
  <2>1. n \in Nalog
    BY <1>2, <1>4 DEF UpdateDraftWrite, IInv, ZahtjevOK, CekaOK
  <2>2. \/ UNCHANGED tabele
        \/ nalozi' = nalozi /\ Raspored(unos) # {} /\ stavke' = SaStavkama(n, unos)
    BY <1>2, <1>4 DEF UpdateDraftWrite, Odustani
  <2> QED
    BY <1>1, <1>2, <2>1, <2>2, ZamjenaOstavlja DEF tabele
<1>5. CASE DeleteJournalWrite(r)
  <2>1. n \in Nalog
    BY <1>2, <1>5 DEF DeleteJournalWrite, IInv, ZahtjevOK, CekaOK
  <2>2. \/ UNCHANGED tabele
        \/ /\ nalozi' = [nalozi EXCEPT ![n] = PrazanNalog]
           /\ stavke' = [s \in Stavka |-> IF stavke[s].nalog = n THEN PraznaStavka ELSE stavke[s]]
    BY <1>2, <1>5 DEF DeleteJournalWrite, Odustani
  <2> QED
    BY <1>1, <2>1, <2>2 DEF StavkeOstaju, PraznaStavka, tabele, IInv, TypeOK, JeStavka
<1>6. CASE PostJournalCommit(r) \/ ReopenJournalWrite(r)
  <2>1. \/ UNCHANGED tabele
        \/ stavke' = stavke /\ \E status : nalozi' = [nalozi EXCEPT ![n].status = status]
    BY <1>2, <1>6 DEF PostJournalCommit, ReopenJournalWrite, Odustani
  <2>2. \A m \in Nalog : nalozi'[m].datum = nalozi[m].datum
    BY <2>1 DEF tabele, IInv, TypeOK, NalogTip
  <2> QED
    BY <1>1, <2>1, <2>2 DEF StavkeOstaju, tabele, IInv, TypeOK, NalogTip, JeStavka
<1> QED
  BY <1>1, <1>3, <1>4, <1>5, <1>6, OstaloNeMijenja, ZatvaranjaIPrenosi DEF Upisi, tabele

\* Items whose lines are as they were when they were read, or gone.
Zapamcene(items) ==
  \A i \in items :
    /\ i.id \in Stavka
    /\ i = [id |-> i.id, nalog |-> i.nalog, kartica |-> i.kartica,
            iznos |-> i.iznos, datum |-> i.datum, preostalo |-> i.preostalo]
    /\ stavke[i.id].nalog # Nema =>
         /\ stavke[i.id] = [nalog |-> i.nalog, kartica |-> i.kartica, iznos |-> i.iznos]
         /\ nalozi[i.nalog].datum = i.datum

\* What the page of a proposal shows: the items it was made of, each of whose
\* lines is still as it was, or gone.
PredlogOK(r) ==
  LET z == zahtjevi[r] IN
  z.pc = "preview" =>
    \E items : /\ z.otisak = Otisak(items) /\ z.plan = PlanPoStarosti(items)
               /\ Zapamcene(items)

Predlozi == \A r \in Zahtjev : PredlogOK(r)

LEMMA PredlogOstaje ==
  ASSUME IInv, NEW r \in Zahtjev, PredlogOK(r), StavkeOstaju, zahtjevi'[r] = zahtjevi[r]
  PROVE  PredlogOK(r)'
<1> SUFFICES ASSUME zahtjevi[r].pc = "preview" PROVE PredlogOK(r)'
  BY DEF PredlogOK
<1>1. PICK items :
        /\ zahtjevi[r].otisak = Otisak(items) /\ zahtjevi[r].plan = PlanPoStarosti(items)
        /\ Zapamcene(items)
  BY DEF PredlogOK
<1>2. ASSUME NEW i \in items, stavke'[i.id].nalog # Nema
      PROVE  /\ stavke'[i.id] = [nalog |-> i.nalog, kartica |-> i.kartica, iznos |-> i.iznos]
             /\ nalozi'[i.nalog].datum = i.datum
  <2>1. <<i.id, i.preostalo>> \in zahtjevi[r].otisak
    BY <1>1 DEF Otisak
  <2>2. i.id \notin SvjezeStavke
    BY <2>1 DEF SvjezeStavke
  <2>3. /\ stavke'[i.id] = stavke[i.id]
        /\ nalozi'[stavke[i.id].nalog].datum = nalozi[stavke[i.id].nalog].datum
    BY <1>1, <1>2, <2>2 DEF StavkeOstaju, Zapamcene
  <2> QED
    BY <1>1, <1>2, <2>3 DEF Zapamcene
<1>3. Zapamcene(items)'
  BY <1>1, <1>2 DEF Zapamcene
<1> QED
  BY <1>1, <1>3 DEF PredlogOK

LEMMA NoviPredlog ==
  ASSUME IInv, NEW r \in Zahtjev, NEW g \in Godina, NEW d \in Datum, NEW K,
         PreviewOldest(r, g, d, K)
  PROVE  PredlogOK(r)'
<1>1. PICK items, z :
        /\ items = PartneriKnjige(g, d, K)
        /\ z = [Mirovanje EXCEPT !.pc = "preview", !.godina = g, !.datum = d, !.kartice = K,
                  !.otisak = Otisak(items), !.plan = PlanPoStarosti(items)]
        /\ Nastavi(r, z) /\ UNCHANGED tabele
  BY DEF PreviewOldest
<1>2. zahtjevi'[r] = z /\ z.otisak = Otisak(items) /\ z.plan = PlanPoStarosti(items)
  BY <1>1, NovoZnanje DEF Mirovanje
<1>3. ASSUME NEW i \in items
      PROVE  /\ i.id \in Stavka
             /\ i = [id |-> i.id, nalog |-> i.nalog, kartica |-> i.kartica,
                     iznos |-> i.iznos, datum |-> i.datum, preostalo |-> i.preostalo]
             /\ stavke[i.id] = [nalog |-> i.nalog, kartica |-> i.kartica, iznos |-> i.iznos]
             /\ nalozi[i.nalog].datum = i.datum
  <2>1. PICK s : i = SnimakStavke(s, d)
    BY <1>1 DEF PartneriKnjige, Knjiga
  <2>2. i.id \in Stavka /\ g \in Int
    BY <1>1, StavkaKnjige DEF PartneriKnjige, Godina
  <2>3. JeStavka(stavke[i.id])
    BY <2>2 DEF IInv, TypeOK
  <2> QED
    BY <2>1, <2>2, <2>3 DEF SnimakStavke, JeStavka
<1>4. Zapamcene(items)'
  BY <1>1, <1>3 DEF Zapamcene, tabele
<1> QED
  BY <1>1, <1>2, <1>4 DEF PredlogOK

\* A page that shows a proposal was made by its preview.
LEMMA SamoPregledPredlaze ==
  ASSUME IInv, NEW r \in Zahtjev, Korak(r), zahtjevi'[r].pc = "preview"
  PROVE  \/ zahtjevi'[r] = zahtjevi[r]
         \/ \E g \in Godina, d \in Datum : \E K : PreviewOldest(r, g, d, K)
<1>1. zahtjevi = [q \in Zahtjev |-> zahtjevi[q]]
  BY DEF IInv, TypeOK
<1>2. ~Zavrsi(r)
  BY DEF Zavrsi, Mirovanje, IInv, TypeOK
<1>3. JeZahtjev(zahtjevi[r])
  BY DEF IInv, TypeOK
<1>4. ~CreateJournalLock(r)
  BY <1>1, <1>2, <1>3 DEF CreateJournalLock, Odustani, JeZahtjev, Nastavi
<1>5. ~OpeningImportYear(r)
  BY <1>1, <1>2, <1>3 DEF OpeningImportYear, Odustani, JeZahtjev, Nastavi
<1>6. ~PostJournalLockYear(r)
  BY <1>1, <1>2, <1>3 DEF PostJournalLockYear, Odustani, JeZahtjev, Nastavi
<1>7. ~PostJournalCheck(r)
  BY <1>1, <1>2, <1>3 DEF PostJournalCheck, Odustani, JeZahtjev, Nastavi
<1>8. ~GenerateOpeningLock(r)
  BY <1>1, <1>2, <1>3 DEF GenerateOpeningLock, Odustani, JeZahtjev, Nastavi
<1>9. ~GenerateOpeningLedger(r)
  BY <1>1, <1>2, <1>3 DEF GenerateOpeningLedger, Odustani, JeZahtjev, Nastavi
<1>10. ~GenerateOpeningCheck(r)
  BY <1>1, <1>2, <1>3 DEF GenerateOpeningCheck, Odustani, JeZahtjev, Nastavi
<1>11. ~CarryCheck(r)
  BY <1>1, <1>2, <1>3 DEF CarryCheck, Odustani, JeZahtjev, Nastavi
<1>12. ~WriteSettlementPairs(r)
  BY <1>1, <1>2, <1>3 DEF WriteSettlementPairs, Odustani, JeZahtjev, Nastavi
<1>13. CASE \/ CreateJournal(r) \/ OpeningImport(r) \/ UpdateDraft(r)
            \/ ReopenJournal(r) \/ DeleteJournal(r)
  <2>1. ~CreateJournal(r)
    <3>1. ASSUME NEW g, NEW d, NEW v, NEW u, CreateJournalCheck(r, g, d, v, u) PROVE FALSE
      <4>1. PICK pc, ceka :
              /\ pc = "createWrite" \/ pc = "createLock"
              /\ Nastavi(r, [Mirovanje EXCEPT !.pc = pc, !.godina = g, !.datum = d,
                               !.vrsta = v, !.unos = u, !.ceka = ceka])
        BY <3>1 DEF CreateJournalCheck
      <4> QED
        BY <1>1, <4>1 DEF Mirovanje, Nastavi
    <3> QED
      BY <1>2, <1>4, <3>1 DEF CreateJournal, CreateJournalWrite, UpisiNacrt, Odustani
  <2>2. ~OpeningImport(r)
    BY <1>1, <1>2, <1>5 DEF OpeningImport, OpeningImportCompany, OpeningImportWrite, UpisiNacrt,
         Odustani, Mirovanje, Nastavi
  <2>3. ~UpdateDraft(r)
    BY <1>1, <1>2 DEF UpdateDraft, UpdateDraftCheck, UpdateDraftWrite, Odustani, Mirovanje, Nastavi
  <2>4. ~ReopenJournal(r) /\ ~DeleteJournal(r)
    BY <1>1, <1>2 DEF ReopenJournal, ReopenJournalCheck, ReopenJournalWrite, DeleteJournal,
         DeleteJournalCheck, DeleteJournalWrite, Odustani, Mirovanje, Nastavi
  <2> QED
    BY <1>13, <2>1, <2>2, <2>3, <2>4
<1>14. CASE PostJournal(r)
  BY <1>1, <1>2, <1>6, <1>7, <1>14 DEF PostJournal, PostJournalRead, PostJournalCommit, Odustani,
       Mirovanje, Nastavi
<1>15. CASE GenerateOpening(r)
  BY <1>1, <1>2, <1>8, <1>9, <1>10, <1>15 DEF GenerateOpening, GenerateOpeningCompany,
       GenerateOpeningCommit, UpisiNacrt, Odustani, Mirovanje, Nastavi
<1>16. CASE Carry(r)
  BY <1>1, <1>2, <1>11, <1>16 DEF Carry, CarryLedger, CarryCommit, Odustani, Mirovanje, Nastavi
<1>17. CASE CancelSettlements(r) \/ Prekini(r)
  BY <1>1, <1>2, <1>17 DEF CancelSettlements, CancelSettlement, PreviewCancelAll,
       CancelAllSettlements, Prekini, Odustani, Mirovanje, Nastavi
<1>18. CASE Settle(r)
  <2>1. \A g, d, items, plan : ~PocniZatvaranje(r, g, d, items, plan)
    BY <1>1 DEF PocniZatvaranje, Mirovanje, Nastavi
  <2>2. ~SettleOldest(r) /\ ~SettleCommit(r)
    BY <1>2, <2>1 DEF SettleOldest, SettleCommit, Odustani
  <2> QED
    BY <1>12, <1>18, <2>1, <2>2 DEF Settle, SettleManual, SettleSelected, SettleExact
<1> QED
  BY <1>13, <1>14, <1>15, <1>16, <1>17, <1>18 DEF Korak

LEMMA KorakCuvaPredloge == IInv /\ Predlozi /\ [Next]_vars => Predlozi'
<1> SUFFICES ASSUME IInv, Predlozi, [Next]_vars, NEW q \in Zahtjev PROVE PredlogOK(q)'
  BY DEF Predlozi
<1>1. PredlogOK(q)
  BY DEF Predlozi
<1>2. ASSUME NEW r \in Zahtjev, Korak(r) PROVE PredlogOK(q)'
  <2>1. CASE zahtjevi'[q] = zahtjevi[q]
    BY <1>1, <1>2, <2>1, KorakOstavljaStavke, PredlogOstaje
  <2>2. CASE zahtjevi'[q] # zahtjevi[q]
    <3>1. q = r
      BY <1>2, <2>2, OstaliCekaju
    <3>2. CASE zahtjevi'[q].pc = "preview"
      BY <1>2, <2>2, <3>1, <3>2, SamoPregledPredlaze, NoviPredlog
    <3>3. CASE zahtjevi'[q].pc # "preview"
      BY <3>3 DEF PredlogOK
    <3> QED
      BY <3>2, <3>3
  <2> QED
    BY <2>1, <2>2
<1>3. ASSUME UNCHANGED <<nalozi, stavke, zahtjevi>> PROVE PredlogOK(q)'
  BY <1>1, <1>3, PredlogOstaje DEF StavkeOstaju
<1> QED
  BY <1>2, <1>3 DEF Next, vars, ToggleBusinessYear

LEMMA OtisakPokriva ==
  ASSUME NEW A, NEW B, Otisak(A) = Otisak(B), NEW i \in A
  PROVE  \E j \in B : i.id = j.id /\ i.preostalo = j.preostalo
<1>1. <<i.id, i.preostalo>> \in {<<j.id, j.preostalo>> : j \in B}
  BY DEF Otisak
<1>2. PICK j \in B : <<i.id, i.preostalo>> = <<j.id, j.preostalo>>
  BY <1>1
<1> QED
  BY <1>2

\* The same fingerprint of lines that are there is the same items.
LEMMA IstiOtisakIsteStavke ==
  ASSUME IInv, NEW g \in Godina, NEW d \in Datum, NEW K, NEW items,
         Otisak(items) = Otisak(PartneriKnjige(g, d, K)),
         Zapamcene(items)
  PROVE  items = PartneriKnjige(g, d, K)
<1>1. PICK knjiga : knjiga = PartneriKnjige(g, d, K)
  OBVIOUS
<1>2. ASSUME NEW j \in knjiga
      PROVE  /\ stavke[j.id].nalog # Nema
             /\ j = [id |-> j.id, nalog |-> stavke[j.id].nalog, kartica |-> stavke[j.id].kartica,
                     iznos |-> stavke[j.id].iznos, datum |-> nalozi[stavke[j.id].nalog].datum,
                     preostalo |-> j.preostalo]
  <2>1. j \in Knjiga(g, d, prenosi)
    BY <1>1, <1>2 DEF PartneriKnjige
  <2>2. PICK s : j = SnimakStavke(s, d)
    BY <2>1 DEF Knjiga
  <2>3. stavke[j.id].nalog \in Nalog
    BY <2>1, StavkaKnjige DEF Godina
  <2> QED
    BY <2>2, <2>3, BazaPretpostavke DEF SnimakStavke, Nema
<1>3. ASSUME NEW i \in items, NEW j \in knjiga, i.id = j.id, i.preostalo = j.preostalo
      PROVE  i = j
  <2>1. stavke[i.id].nalog # Nema
    BY <1>2, <1>3
  <2>2. /\ stavke[i.id] = [nalog |-> i.nalog, kartica |-> i.kartica, iznos |-> i.iznos]
        /\ nalozi[i.nalog].datum = i.datum
        /\ i = [id |-> i.id, nalog |-> i.nalog, kartica |-> i.kartica,
                iznos |-> i.iznos, datum |-> i.datum, preostalo |-> i.preostalo]
    BY <1>3, <2>1 DEF Zapamcene
  <2>3. /\ stavke[i.id].nalog = i.nalog /\ stavke[i.id].kartica = i.kartica
        /\ stavke[i.id].iznos = i.iznos
    BY <2>2
  <2> QED
    BY <1>2, <1>3, <2>2, <2>3
<1>4. \A i \in items : \E j \in knjiga : i.id = j.id /\ i.preostalo = j.preostalo
  BY <1>1, OtisakPokriva
<1>5. \A j \in knjiga : \E i \in items : i.id = j.id /\ i.preostalo = j.preostalo
  BY <1>1, OtisakPokriva
<1> QED
  BY <1>1, <1>3, <1>4, <1>5

LEMMA KorakPotvrdjuje ==
  ASSUME IInv, Predlozi, NEW q \in Zahtjev, Korak(q), NEW r \in Zahtjev,
         zahtjevi[r].pc = "preview", zahtjevi'[r].pc = "settleCheck"
  PROVE  zahtjevi'[r].plan = zahtjevi[r].plan
<1>1. q = r
  BY OstaliCekaju
<1>2. ~Zavrsi(r)
  BY DEF Zavrsi, Mirovanje, IInv, TypeOK
<1>3. SettleOldest(r)
  BY <1>1, <1>2 DEF Korak, CreateJournal, CreateJournalCheck, CreateJournalLock,
       CreateJournalWrite, OpeningImport, OpeningImportCompany, OpeningImportYear,
       OpeningImportWrite, UpdateDraft, UpdateDraftCheck, UpdateDraftWrite, PostJournal,
       PostJournalRead, PostJournalLockYear, PostJournalCheck, PostJournalCommit,
       ReopenJournal, ReopenJournalCheck, ReopenJournalWrite, DeleteJournal,
       DeleteJournalCheck, DeleteJournalWrite, Settle, SettleManual, SettleSelected,
       SettleExact, PreviewOldest, WriteSettlementPairs, SettleCommit, CancelSettlements,
       CancelSettlement, PreviewCancelAll, CancelAllSettlements, GenerateOpening,
       GenerateOpeningCompany, GenerateOpeningLock, GenerateOpeningLedger,
       GenerateOpeningCheck, GenerateOpeningCommit, Carry, CarryLedger, CarryCheck,
       CarryCommit, Prekini, Odustani, Miruje
<1>4. PICK z, items : /\ z = zahtjevi[r]
                      /\ items = PartneriKnjige(z.godina, z.datum, z.kartice)
                      /\ z.godina \in Godina /\ z.datum \in Datum
  BY DEF IInv, TypeOK, JeZahtjev
<1>5. /\ z.otisak = Otisak(items)
      /\ PocniZatvaranje(r, z.godina, z.datum, items, PlanPoStarosti(items))
  BY <1>2, <1>3, <1>4 DEF SettleOldest, Odustani
<1>6. z.plan = PlanPoStarosti(items)
  <2>1. PredlogOK(r)
    BY DEF Predlozi
  <2>2. PICK stare :
          /\ z.otisak = Otisak(stare) /\ z.plan = PlanPoStarosti(stare)
          /\ Zapamcene(stare)
    BY <1>4, <2>1 DEF PredlogOK
  <2>3. z.godina \in Godina /\ z.datum \in Datum
        /\ Otisak(stare) = Otisak(PartneriKnjige(z.godina, z.datum, z.kartice))
    BY <1>4, <1>5, <2>2
  <2>4. stare = PartneriKnjige(z.godina, z.datum, z.kartice)
    BY <2>2, <2>3, IstiOtisakIsteStavke
  <2> QED
    BY <1>4, <2>2, <2>4
<1>7. zahtjevi'[r].plan = PlanPoStarosti(items)
  <2>1. PICK k, planirane, ceka :
          /\ k = [Mirovanje EXCEPT !.pc = "settleCheck", !.godina = z.godina, !.datum = z.datum,
                    !.slika = planirane, !.plan = PlanPoStarosti(items), !.ceka = ceka]
          /\ Nastavi(r, k)
    BY <1>5 DEF PocniZatvaranje
  <2> QED
    BY <2>1, NovoZnanje DEF Mirovanje
<1> QED
  BY <1>4, <1>6, <1>7

---------------------------------------------------------------------------
(* OtvoreneStavke: the posted lines, the edges in force and the carried lines *)

\* A new draft is not in the ledger, nor are its lines.
LEMMA NacrtNijeUKnjizi ==
  ASSUME IInv, NEW n, NacrtUpisan(n)
  PROVE  ProknjizeneStavke' = ProknjizeneStavke
<1>1. ~Postoji(n) /\ n \in Nalog
  BY DEF NacrtUpisan, SvjeziNalozi
<1>2. ASSUME NEW s \in Stavka, stavke'[s] = stavke[s], stavke[s].nalog # Nema,
             Proknjizen(stavke[s].nalog) \/ Proknjizen(stavke[s].nalog)'
      PROVE  nalozi'[stavke[s].nalog] = nalozi[stavke[s].nalog]
  BY <1>1, <1>2 DEF NacrtUpisan, Proknjizen, Postoji, IInv, TypeOK, JeStavka
<1>3. ASSUME NEW s \in Stavka, {stavke[s].nalog, stavke'[s].nalog} \subseteq {Nema, n}
      PROVE  /\ ~(stavke[s].nalog # Nema /\ Proknjizen(stavke[s].nalog))
             /\ ~(stavke'[s].nalog # Nema /\ Proknjizen(stavke[s].nalog)')
  BY <1>1, <1>3 DEF NacrtUpisan, Proknjizen, Postoji
<1>4. \A s \in Stavka :
        /\ (stavke'[s].nalog # Nema /\ Proknjizen(stavke[s].nalog)')
             <=> (stavke[s].nalog # Nema /\ Proknjizen(stavke[s].nalog))
        /\ stavke[s].nalog # Nema /\ Proknjizen(stavke[s].nalog) =>
             stavke'[s] = stavke[s] /\ nalozi'[stavke[s].nalog] = nalozi[stavke[s].nalog]
  BY <1>2, <1>3 DEF NacrtUpisan, Proknjizen
<1> QED
  BY <1>4 DEF ProknjizeneStavke

\* The lines that the promise protects are those that the triggers protect.
LEMMA Imenovane ==
  ASSUME NEW s
  PROVE  Obecanje!Imenovana(s) <=> ZasticenaStavka(s)
BY DEF Obecanje!Imenovana, Obecanje!Od, ZasticenaStavka

LEMMA NaloziSuKnjizenja ==
  ASSUME IInv, NaloziStite, zatvaranja' = zatvaranja, prenosi' \subseteq prenosi
  PROVE  Obecanje!Knjizi
<1>1. ASSUME NEW s \in DOMAIN ProknjizeneStavke, Obecanje!Imenovana(s)
      PROVE  s \in DOMAIN ProknjizeneStavke' /\ ProknjizeneStavke'[s] = ProknjizeneStavke[s]
  <2>1. ZasticenaStavka(s)
    BY <1>1, Imenovane
  <2>2. /\ s \in Stavka /\ stavke[s].nalog # Nema /\ Proknjizen(stavke[s].nalog)
        /\ stavke'[s] = stavke[s] /\ Proknjizen(stavke[s].nalog)'
        /\ nalozi'[stavke[s].nalog].datum = nalozi[stavke[s].nalog].datum
    BY <2>1, ZasticenaProknjizena DEF NaloziStite
  <2> QED
    BY <2>2 DEF ProknjizeneStavke, Proknjizen
<1>2. {p[2] : p \in prenosi}' \subseteq {p[2] : p \in prenosi}
  OBVIOUS
<1>3. {v \in zatvaranja : Aktivna(v)}' = {v \in zatvaranja : Aktivna(v)}
  BY DEF Aktivna
<1> QED
  BY <1>1, <1>2, <1>3 DEF Obecanje!Knjizi

\* Lines and journals that stay leave the posted lines as they are.
LEMMA KnjigaStoji ==
  ASSUME nalozi' = nalozi, stavke' = stavke
  PROVE  ProknjizeneStavke' = ProknjizeneStavke
BY DEF ProknjizeneStavke, Proknjizen

LEMMA PonistavanjeJePonistavanje ==
  ASSUME IInv, NEW V, NEW d \in Datum, zatvaranja' = Ponistene(V, d),
         UNCHANGED <<nalozi, stavke, prenosi>>
  PROVE  Obecanje!Ponisti
<1>1. ASSUME NEW w \in zatvaranja', Aktivna(w) PROVE w \in zatvaranja
  <2>1. PICK v \in zatvaranja : w = IF v \in V THEN [v EXCEPT !.ponisteno = d] ELSE v
    BY <1>1 DEF Ponistene
  <2>2. v \notin V
    BY <1>1, <2>1 DEF IInv, TypeOK, JeVeza, Aktivna, Datum
  <2> QED
    BY <2>1, <2>2
<1>2. {v \in zatvaranja : Aktivna(v)}' \subseteq {v \in zatvaranja : Aktivna(v)}
  BY <1>1 DEF Aktivna
<1> QED
  BY <1>2, KnjigaStoji DEF Obecanje!Ponisti

\* Carrying the checked lines of a request.
LEMMA PrenosJePrenos ==
  ASSUME IInv, NEW r \in Zahtjev, zahtjevi[r].pc \in {"openingCommit", "carryCommit"}, NEW n,
         prenosi' = prenosi \cup {<<n, i.id>> : i \in zahtjevi[r].slika},
         zatvaranja' = zatvaranja, ProknjizeneStavke' = ProknjizeneStavke
  PROVE  Obecanje!Prenesi
<1>1. \A i \in zahtjevi[r].slika : i.id \in DOMAIN ProknjizeneStavke
  BY DEF IInv, TypeOK, JeZahtjev, ZahtjevOK, ZakljucaneOK, StavkaIsta, ProknjizeneStavke
<1>2. {p[2] : p \in prenosi}' = {p[2] : p \in prenosi} \cup {i.id : i \in zahtjevi[r].slika}
  <2>1. \A i : <<n, i.id>>[2] = i.id
    OBVIOUS
  <2> QED
    BY <2>1
<1>3. {v \in zatvaranja : Aktivna(v)}' = {v \in zatvaranja : Aktivna(v)}
  BY DEF Aktivna
<1> QED
  BY <1>1, <1>2, <1>3 DEF Obecanje!Prenesi

LEMMA ZatvaranjeJeZatvaranje ==
  ASSUME IInv, NEW r \in Zahtjev, SettleCommit(r)
  PROVE  Obecanje!Zatvori
<1>1. PICK z, nove : /\ z = zahtjevi[r] /\ nove = NoveVeze(z) /\ z.pc = "settleCommit"
                     /\ zatvaranja' = zatvaranja \cup nove
                     /\ UNCHANGED <<nalozi, stavke, prenosi>>
  BY DEF SettleCommit
<1>2. PICK staro, novo : /\ staro = {v \in zatvaranja : Aktivna(v)}
                         /\ novo = {v \in zatvaranja : Aktivna(v)}'
  OBVIOUS
<1>3. \A v \in nove : Aktivna(v) /\ v.datum = z.datum
  BY <1>1 DEF NoveVeze, Aktivna
<1>4. novo = staro \cup nove
  BY <1>1, <1>2, <1>3 DEF Aktivna
<1>5. ASSUME NEW v \in nove
      PROVE  \E i, j \in z.slika : i.id = v.d /\ j.id = v.p /\ i.kartica = j.kartica
  BY <1>1, <1>5 DEF NoveVeze, IInv, ZahtjevOK, ZatvaranjeOK
<1>6. ASSUME NEW i \in z.slika
      PROVE  /\ i.id \in DOMAIN ProknjizeneStavke
             /\ ProknjizeneStavke[i.id].kartica = i.kartica
             /\ ProknjizeneStavke[i.id].iznos = i.iznos
             /\ ProknjizeneStavke[i.id].datum <= z.datum /\ StaneUStavku(z, i)
  <2>1. /\ i.id \in Stavka /\ StavkaIsta(i) /\ stavke[i.id].nalog = i.nalog
        /\ nalozi[i.nalog].datum <= z.datum /\ StaneUStavku(z, i)
    BY <1>1, <1>6 DEF IInv, TypeOK, JeZahtjev, ZahtjevOK, SlikaOK, ZakljucaneOK, ZatvaranjeOK,
                      StavkaIsta
  <2> QED
    BY <2>1 DEF StavkaIsta, ProknjizeneStavke
<1>7. ASSUME NEW v \in nove
      PROVE  Obecanje!Vezuje(v)
  <2>1. PICK i, j \in z.slika : i.id = v.d /\ j.id = v.p /\ i.kartica = j.kartica
    BY <1>5, <1>7
  <2>2. \A k \in {i, j} : /\ k.id \in DOMAIN ProknjizeneStavke
                          /\ ProknjizeneStavke[k.id].kartica = k.kartica
                          /\ ProknjizeneStavke[k.id].datum <= z.datum
    BY <1>6
  <2>3. v.datum = z.datum
    BY <1>3, <1>7
  <2>4. {v.d, v.p} \subseteq DOMAIN ProknjizeneStavke
    BY <2>1, <2>2
  <2>5. /\ ProknjizeneStavke[v.d].kartica = ProknjizeneStavke[v.p].kartica
        /\ ProknjizeneStavke[v.d].datum <= v.datum /\ ProknjizeneStavke[v.p].datum <= v.datum
    BY <2>1, <2>2, <2>3
  <2> QED
    BY <2>4, <2>5 DEF Obecanje!Vezuje
<1>8. ASSUME NEW i \in z.slika
      PROVE  Obecanje!ZbirIznosa(Obecanje!Od(i.id, staro)) + Obecanje!ZbirIznosa(Obecanje!Od(i.id, nove))
               <= Obecanje!Apsolutno(ProknjizeneStavke[i.id].iznos)
  <2>1. Obecanje!Od(i.id, staro) = AktivneVeze(i.id)
    BY <1>2 DEF Obecanje!Od, AktivneVeze, VezeStavke
  <2>2. Obecanje!Od(i.id, nove) = {v \in NoveVeze(z) : i.id \in {v.d, v.p}}
    BY <1>1 DEF Obecanje!Od
  <2>3. \A V : Obecanje!ZbirIznosa(V) = ZbirIznosa(V)
    BY DEF Obecanje!ZbirIznosa, ZbirIznosa, Obecanje!MapThenSumSet, MapThenSumSet,
           Obecanje!MapThenFoldSet, MapThenFoldSet
  <2>4. \A x : Obecanje!Apsolutno(x) = Apsolutno(x)
    BY DEF Obecanje!Apsolutno, Apsolutno
  <2>5. ProknjizeneStavke[i.id].iznos = i.iznos
    BY <1>6
  <2> QED
    BY <1>6, <2>1, <2>2, <2>3, <2>4, <2>5 DEF StaneUStavku
<1>9. ASSUME NEW v \in nove, NEW s \in {v.d, v.p}
      PROVE  Obecanje!ZbirIznosa(Obecanje!Od(s, staro)) + Obecanje!ZbirIznosa(Obecanje!Od(s, nove))
               <= Obecanje!Apsolutno(ProknjizeneStavke[s].iznos)
  BY <1>5, <1>8, <1>9
<1>10. UNCHANGED <<ProknjizeneStavke, {p[2] : p \in prenosi}>>
  BY <1>1, KnjigaStoji
<1> QED
  BY <1>2, <1>4, <1>7, <1>9, <1>10 DEF Obecanje!Zatvori

\* Each commit is one of the promise's four steps.
LEMMA UpisJeKorak ==
  ASSUME IInv, NEW r \in Zahtjev, Upisi(r), Korak(r), ~(UNCHANGED tabele)
  PROVE  Obecanje!Next
<1>1. CASE \/ CreateJournalWrite(r) \/ OpeningImportWrite(r) \/ UpdateDraftWrite(r)
           \/ PostJournalCommit(r) \/ ReopenJournalWrite(r) \/ DeleteJournalWrite(r)
  <2>1. zatvaranja' = zatvaranja /\ prenosi' \subseteq prenosi
    BY <1>1 DEF CreateJournalWrite, OpeningImportWrite, UpdateDraftWrite, PostJournalCommit,
                ReopenJournalWrite, DeleteJournalWrite, UpisiNacrt, Odustani, tabele
  <2> QED
    BY <2>1, KorakStiti, NaloziSuKnjizenja DEF Obecanje!Next
<1>2. CASE SettleCommit(r)
  BY <1>2, ZatvaranjeJeZatvaranje DEF Obecanje!Next
<1>3. CASE CancelAllSettlements(r)
  <2>1. PICK V, d : /\ zatvaranja' = Ponistene(V, d) /\ d = zahtjevi[r].datum
                    /\ UNCHANGED <<nalozi, stavke, prenosi>>
    BY <1>3 DEF CancelAllSettlements, Odustani
  <2>2. d \in Datum
    BY <2>1 DEF IInv, TypeOK, JeZahtjev
  <2> QED
    BY <2>1, <2>2, PonistavanjeJePonistavanje DEF Obecanje!Next
<1>4. ASSUME NEW g \in Godina, NEW d \in Datum, NEW v \in zatvaranja, CancelSettlement(r, g, d, v)
      PROVE  Obecanje!Next
  BY <1>4, PonistavanjeJePonistavanje DEF CancelSettlement, Obecanje!Next
<1>5. CASE GenerateOpeningCommit(r)
  <2>1. NacrtUpisan(NoviNalog) /\ zatvaranja' = zatvaranja
    BY <1>5, NoviNaloziSuNacrti
  <2>2. /\ prenosi' = prenosi \cup {<<NoviNalog, i.id>> : i \in zahtjevi[r].slika}
        /\ zahtjevi[r].pc = "openingCommit"
    BY <1>5 DEF GenerateOpeningCommit, Odustani
  <2> QED
    BY <2>1, <2>2, NacrtNijeUKnjizi, PrenosJePrenos DEF Obecanje!Next
<1>6. CASE CarryCommit(r)
  <2>1. /\ prenosi' = prenosi \cup {<<zahtjevi[r].nalog, i.id>> : i \in zahtjevi[r].slika}
        /\ zahtjevi[r].pc = "carryCommit" /\ UNCHANGED <<nalozi, stavke, zatvaranja>>
    BY <1>6 DEF CarryCommit, Odustani
  <2> QED
    BY <2>1, KnjigaStoji, PrenosJePrenos DEF Obecanje!Next
<1> QED
  BY <1>1, <1>2, <1>3, <1>4, <1>5, <1>6 DEF Upisi

LEMMA PocetakObecanja == Init => Obecanje!Init
BY DEF Init, Obecanje!Init

LEMMA KorakJeKorak == IInv /\ [Next]_vars => [Obecanje!Next]_(Obecanje!vars)
<1> SUFFICES ASSUME IInv, [Next]_vars PROVE [Obecanje!Next]_(Obecanje!vars)
  OBVIOUS
<1>1. ASSUME nalozi' = nalozi, stavke' = stavke, zatvaranja' = zatvaranja, prenosi' = prenosi
      PROVE  UNCHANGED Obecanje!vars
  BY <1>1, KnjigaStoji DEF Obecanje!vars, Aktivna
<1>2. ASSUME NEW r \in Zahtjev, Korak(r), ~(UNCHANGED tabele) PROVE Obecanje!Next
  BY <1>2, OstaloNeMijenja, UpisJeKorak
<1>3. CASE UNCHANGED tabele
  BY <1>1, <1>3 DEF tabele
<1>4. CASE \E g \in Godina : ToggleBusinessYear(g)
  BY <1>1, <1>4 DEF ToggleBusinessYear
<1>5. CASE UNCHANGED vars
  BY <1>1, <1>5 DEF vars
<1> QED
  BY <1>2, <1>3, <1>4, <1>5 DEF Next

---------------------------------------------------------------------------
(* Theorems *)

\* A step of no request changes no journal and no line.
LEMMA BezZahtjeva ==
  ASSUME [Next]_vars, ~\E r \in Zahtjev : Korak(r)
  PROVE  UNCHANGED <<nalozi, stavke, zatvaranja, prenosi, zahtjevi>>
BY DEF Next, vars, ToggleBusinessYear

\* postJournal posts only a balanced draft dated in its year while the year is
\* open, whatever happened between its first read and its commit.
THEOREM SamoIspravnoSeKnjizi == Spec => KnjiziSamoIspravno
<1>1. IInv /\ [Next]_vars =>
        [\A n \in Nalog : nalozi[n].status = "DRAFT" /\ nalozi'[n].status = "POSTED"
                             => SmijeSeKnjiziti(n)]_vars
  BY KorakKnjizi, BezZahtjeva
<1> QED
  BY <1>1, Induktivna, PTL DEF Spec, KnjiziSamoIspravno

\* No commit changes a line that an edge in force or a carry record names,
\* which is what zastiti_zatvorenu_stavku is for.
THEOREM ZasticenoMiruje == Spec => ZasticeneStavkeMiruju
<1>1. IInv /\ [Next]_vars =>
        [\A s \in Stavka : ZasticenaStavka(s) => stavke'[s] = stavke[s]]_vars
  BY KorakStiti, BezZahtjeva DEF NaloziStite
<1> QED
  BY <1>1, Induktivna, PTL DEF Spec, ZasticeneStavkeMiruju

\* Cancelling a card's edges cancels what its page showed or nothing.
THEOREM PrikazanoSePonistava == Spec => PonistavaPrikazano
<1>1. IInv /\ [Next]_vars =>
        [\A r \in Zahtjev :
           zahtjevi[r].pc = "cancelPreview" /\ zahtjevi'[r] # zahtjevi[r]
             => Revizija(zatvaranja \ zatvaranja') \in {{}, zahtjevi[r].otisak}]_vars
  BY KorakPonistava, BezZahtjeva
<1> QED
  BY <1>1, Induktivna, PTL DEF Spec, PonistavaPrikazano

\* The server's requests, with their stale reads, locks and triggers, keep the
\* promise of OtvoreneStavke: they settle, cancel, carry and post atomically.
THEOREM KnjigaIspunjavaObecanje == Spec => IspunjavaObecanje
<1> QED
  BY Induktivna, PocetakObecanja, KorakJeKorak, PTL DEF Spec, IspunjavaObecanje, Obecanje!Spec

\* A confirmed oldest-first proposal settles the pairs that its page showed,
\* since the fingerprint and ids that are never reused tell its items apart.
THEOREM PotvrdjujeSePredlog == Spec => PotvrdaJePredlog
<1>1. Init => Predlozi
  BY DEF Init, Predlozi, PredlogOK, Mirovanje
<1>2. Spec => []Predlozi
  BY <1>1, KorakCuvaPredloge, Induktivna, PTL DEF Spec
<1>3. IInv /\ Predlozi /\ [Next]_vars =>
        [\A r \in Zahtjev : zahtjevi[r].pc = "preview" /\ zahtjevi'[r].pc = "settleCheck"
                               => zahtjevi'[r].plan = zahtjevi[r].plan]_vars
  BY KorakPotvrdjuje, BezZahtjeva
<1> QED
  BY <1>2, <1>3, Induktivna, PTL DEF Spec, PotvrdaJePredlog

---------------------------------------------------------------------------
(* The sums of the model are the sums of Zbirovi *)

\* The sum of the amounts of edges or pairs, over any function that gives them.
LEMMA IznosiSuZbir ==
  ASSUME NEW V, IsFiniteSet(V), NEW f, \A v \in V : f[v] = v.iznos
  PROVE  ZbirIznosa(V) = ZbirNad(f, V)
<1> DEFINE P(h) == h = [s \in SUBSET V |-> IF s = {} THEN 0
                          ELSE (CHOOSE x \in s : TRUE).iznos + h[s \ {CHOOSE x \in s : TRUE}]]
<1>1. \A h : P(h) <=> JeZbir(h, f, V)
  <2>1. TAKE h
  <2>2. \A s \in SUBSET V : s # {} => f[Izabran(s)] = (CHOOSE x \in s : TRUE).iznos
    BY DEF Izabran
  <2> QED
    BY <2>2 DEF JeZbir, Izabran
<1>2. \E h : P(h)
  <2> HIDE DEF P
  <2> QED
    BY <1>1, PostojiZbir
<1>3. P(CHOOSE h : P(h))
  BY <1>2
<1>4. ZbirIznosa(V) = (CHOOSE h : P(h))[V]
  BY DEF ZbirIznosa, MapThenSumSet, MapThenFoldSet
<1> HIDE DEF P
<1> QED
  BY <1>1, <1>3, <1>4, ZbirJe

\* The sum of a function's values.
LEMMA FunkcijaJeZbir ==
  ASSUME NEW f, IsFiniteSet(DOMAIN f)
  PROVE  ZbirFunkcije(f) = ZbirNad(f, DOMAIN f)
<1> DEFINE S == DOMAIN f
           P(h) == h = [s \in SUBSET S |-> IF s = {} THEN 0
                          ELSE f[CHOOSE x \in s : TRUE] + h[s \ {CHOOSE x \in s : TRUE}]]
<1>1. \A h : P(h) <=> JeZbir(h, f, S)
  BY DEF JeZbir, Izabran
<1>2. \E h : P(h)
  <2> HIDE DEF P
  <2> QED
    BY <1>1, PostojiZbir
<1>3. P(CHOOSE h : P(h))
  BY <1>2
<1>4. ZbirFunkcije(f) = (CHOOSE h : P(h))[S]
  BY DEF ZbirFunkcije, SumFunction, SumFunctionOnSet, FoldFunctionOnSet, MapThenFoldSet
<1> HIDE DEF P
<1> QED
  BY <1>1, <1>3, <1>4, ZbirJe

\* Amounts, as a function of the rows that carry them.
IznosOd(V) == [v \in V |-> v.iznos]

\* Natural amounts have a natural sum.
LEMMA ZbirIznosaPrirodan ==
  ASSUME NEW V, IsFiniteSet(V), \A v \in V : v.iznos \in Nat
  PROVE  ZbirIznosa(V) \in Nat
<1>1. ZbirIznosa(V) = ZbirNad(IznosOd(V), V)
  BY IznosiSuZbir DEF IznosOd
<1>2. \A v \in V : IznosOd(V)[v] \in Nat
  BY DEF IznosOd
<1> QED
  BY <1>1, <1>2, ZbirCio

\* The amounts of a union are no more than those of both sets.
LEMMA ZbirIznosaUnije ==
  ASSUME NEW A, NEW B, IsFiniteSet(A), IsFiniteSet(B), \A v \in A \cup B : v.iznos \in Nat
  PROVE  ZbirIznosa(A \cup B) <= ZbirIznosa(A) + ZbirIznosa(B)
<1>1. PICK f : f = IznosOd(A \cup B)
  OBVIOUS
<1>2. \A v \in A \cup B : f[v] = v.iznos
  BY <1>1 DEF IznosOd
<1>3. IsFiniteSet(A \cup B)
  BY FS_Union
<1>4. /\ ZbirIznosa(A \cup B) = ZbirNad(f, A \cup B)
      /\ ZbirIznosa(A) = ZbirNad(f, A) /\ ZbirIznosa(B) = ZbirNad(f, B)
  BY <1>2, <1>3, IznosiSuZbir
<1> QED
  BY <1>2, <1>4, ZbirUnije

\* The amounts of a part are no more than those of the whole.
LEMMA ZbirIznosaDijela ==
  ASSUME NEW A, NEW B, IsFiniteSet(B), A \subseteq B, \A v \in B : v.iznos \in Nat
  PROVE  ZbirIznosa(A) <= ZbirIznosa(B)
<1>1. \A v \in B : IznosOd(B)[v] = v.iznos
  BY DEF IznosOd
<1>2. ZbirIznosa(A) = ZbirNad(IznosOd(B), A) /\ ZbirIznosa(B) = ZbirNad(IznosOd(B), B)
  BY <1>1, FS_Subset, IznosiSuZbir
<1> QED
  BY <1>1, <1>2, ZbirDijela

\* No edges settle nothing.
LEMMA ZbirIznosaPraznog == ZbirIznosa({}) = 0
BY IznosiSuZbir, FS_EmptySet, ZbirPraznog

\* What is made of the elements of a finite set is finite.
LEMMA KonacnaSlika ==
  ASSUME NEW S, IsFiniteSet(S), NEW f, NEW T, \A t \in T : \E x \in S : t = f[x]
  PROVE  IsFiniteSet(T)
<1> DEFINE g == [t \in T |-> CHOOSE x \in S : t = f[x]]
<1>1. \A t \in T : g[t] \in S /\ t = f[g[t]]
  OBVIOUS
<1>2. g \in [T -> S]
  BY <1>1
<1>3. g \in Injection(T, S)
  BY <1>1, <1>2 DEF Injection, IsInjective
<1> QED
  BY <1>3, FS_Injection

---------------------------------------------------------------------------
(* What a plan settles, laid out along each side of a card *)

\* Items that a plan can be made of: finitely many, each its own id, with dates
\* and whole remaining amounts.
StavkePlana(items) ==
  /\ IsFiniteSet(items)
  /\ \A i \in items : i.id \in Nat /\ i.datum \in Nat /\ i.preostalo \in Int
  /\ \A i, j \in items : i.id = j.id => i = j

\* A plan with finitely many pairs, of natural amounts.
PlanPrirodan(plan) == IsFiniteSet(plan) /\ \A q \in plan : q.iznos \in Nat

\* What is selected from the ledger's items is again finite and whole.
LEMMA DioStavkiPlana ==
  ASSUME NEW items, StavkePlana(items), NEW T \in SUBSET items
  PROVE  StavkePlana(T)
BY FS_Subset DEF StavkePlana

\* An exact plan has finitely many pairs, of natural amounts.
LEMMA PlanTacnoPrirodan ==
  ASSUME NEW items, StavkePlana(items)
  PROVE  PlanPrirodan(PlanTacno(items))
<1>1. PICK plan, f :
        /\ plan = PlanTacno(items)
        /\ f = [ij \in items \X items |->
                  [d |-> ij[1].id, p |-> ij[2].id, iznos |-> ij[1].preostalo]]
  OBVIOUS
<1>2. ASSUME NEW q \in plan
      PROVE  \E i, j \in items :
               q = [d |-> i.id, p |-> j.id, iznos |-> i.preostalo] /\ i.preostalo > 0
  BY <1>1, <1>2 DEF PlanTacno
<1>3. ASSUME NEW q \in plan PROVE \E ij \in items \X items : q = f[ij]
  <2>1. PICK i, j \in items : q = [d |-> i.id, p |-> j.id, iznos |-> i.preostalo]
    BY <1>2, <1>3
  <2>2. <<i, j>> \in items \X items /\ f[<<i, j>>] = q
    BY <1>1, <2>1
  <2> QED
    BY <2>2
<1>4. IsFiniteSet(items \X items)
  BY FS_Product DEF StavkePlana
<1>5. IsFiniteSet(plan)
  BY <1>3, <1>4, KonacnaSlika
<1>6. \A q \in plan : q.iznos \in Nat
  BY <1>2 DEF StavkePlana
<1> QED
  BY <1>1, <1>5, <1>6 DEF PlanPrirodan

\* What lies before an item on its side of its card, and where it ends.
Ispred(U, i) == {j \in U : /\ j.kartica = i.kartica
                           /\ (j.preostalo > 0) = (i.preostalo > 0)
                           /\ Starija(j, i)}
LijeviKraj(U, i) == MapThenSumSet(LAMBDA j : Apsolutno(j.preostalo), Ispred(U, i))
DesniKraj(U, i) == LijeviKraj(U, i) + Apsolutno(i.preostalo)
IstaStrana(i, j) == i.kartica = j.kartica /\ (i.preostalo > 0) = (j.preostalo > 0)

Duzine(U) == [j \in U |-> Apsolutno(j.preostalo)]

\* The plan's sum over items is the sum of their lengths.
LEMMA ZbirDuzina ==
  ASSUME NEW U, IsFiniteSet(U), NEW S \in SUBSET U
  PROVE  MapThenSumSet(LAMBDA j : Apsolutno(j.preostalo), S) = ZbirNad(Duzine(U), S)
<1> DEFINE f == Duzine(U)
           P(h) == h = [s \in SUBSET S |-> IF s = {} THEN 0
                          ELSE Apsolutno((CHOOSE x \in s : TRUE).preostalo)
                                 + h[s \ {CHOOSE x \in s : TRUE}]]
<1>1. \A h : P(h) <=> JeZbir(h, f, S)
  <2>1. TAKE h
  <2>2. \A s \in SUBSET S : s # {} =>
          f[Izabran(s)] = Apsolutno((CHOOSE x \in s : TRUE).preostalo)
    BY DEF Izabran, Duzine
  <2> HIDE DEF f
  <2> QED
    BY <2>2 DEF JeZbir, Izabran
<1>2. IsFiniteSet(S)
  BY FS_Subset
<1>3. \E h : P(h)
  <2> HIDE DEF P, f
  <2> QED
    BY <1>1, <1>2, PostojiZbir
<1>4. P(CHOOSE h : P(h))
  BY <1>3
<1>5. MapThenSumSet(LAMBDA j : Apsolutno(j.preostalo), S) = (CHOOSE h : P(h))[S]
  BY DEF MapThenSumSet, MapThenFoldSet
<1> HIDE DEF P, f
<1>6. MapThenSumSet(LAMBDA j : Apsolutno(j.preostalo), S) = ZbirNad(f, S)
  BY <1>1, <1>2, <1>4, <1>5, ZbirJe
<1> QED
  BY <1>6 DEF f

\* Items are in one order.
LEMMA RedosljedStavki ==
  ASSUME NEW U, StavkePlana(U), NEW i \in U, NEW j \in U
  PROVE  /\ i = j \/ Starija(i, j) \/ Starija(j, i)
         /\ ~(Starija(i, j) /\ Starija(j, i))
         /\ ~Starija(i, i)
         /\ \A m \in U : Starija(i, j) /\ Starija(j, m) => Starija(i, m)
<1>1. \A m \in U : m.datum \in Int /\ m.id \in Int
  BY DEF StavkePlana
<1>2. i.id = j.id => i = j
  BY DEF StavkePlana
<1> QED
  BY <1>1, <1>2 DEF Starija

\* A finite set has a least element under any total and transitive relation.
LEMMA PrviPoRedu ==
  ASSUME NEW S, IsFiniteSet(S), S # {}, NEW R,
         \A i, j \in S : i = j \/ <<i, j>> \in R \/ <<j, i>> \in R,
         \A i, j, m \in S : <<i, j>> \in R /\ <<j, m>> \in R => <<i, m>> \in R
  PROVE  \E i \in S : \A j \in S \ {i} : <<i, j>> \in R
<1> DEFINE T == {w \in SUBSET S : w # {} /\ ~\E i \in w : \A j \in w \ {i} : <<i, j>> \in R}
<1>1. SUFFICES ASSUME T # {} PROVE FALSE
  OBVIOUS
<1>2. PICK m \in T : \A t \in T : t \subseteq m => t = m
  <2>1. T \in SUBSET SUBSET S
    OBVIOUS
  <2> HIDE DEF T
  <2> QED
    BY <1>1, <2>1, NajmanjiPodskup
<1>3. PICK x \in m : TRUE
  BY <1>2
<1>4. PICK u : u = m \ {x}
  OBVIOUS
<1>5. u # {}
  BY <1>2, <1>3, <1>4
<1>6. PICK i \in u : \A j \in u \ {i} : <<i, j>> \in R
  <2>1. u \subseteq m /\ u # m /\ u \in SUBSET S
    BY <1>2, <1>3, <1>4
  <2>2. u \notin T
    BY <1>2, <2>1
  <2> QED
    BY <1>5, <2>1, <2>2
<1>7. i \in S /\ x \in S /\ i # x
  BY <1>2, <1>3, <1>4, <1>6
<1>8. CASE <<i, x>> \in R
  <2>1. \A j \in m \ {i} : <<i, j>> \in R
    BY <1>4, <1>6, <1>8
  <2> QED
    BY <1>2, <1>4, <1>6, <2>1
<1>9. CASE <<x, i>> \in R
  <2>1. ASSUME NEW j \in m \ {x} PROVE <<x, j>> \in R
    <3>1. j \in u /\ j \in S
      BY <1>2, <1>4, <2>1
    <3> QED
      BY <1>6, <1>7, <1>9, <3>1
  <2> QED
    BY <1>2, <1>3, <2>1
<1> QED
  BY <1>7, <1>8, <1>9

\* Of some items one is the oldest, and one the youngest.
LEMMA PostojiNajstarija ==
  ASSUME NEW U, StavkePlana(U), NEW S \in SUBSET U, S # {}
  PROVE  /\ Najstarija(S) \in S
         /\ \A j \in S \ {Najstarija(S)} : Starija(Najstarija(S), j)
         /\ \E m \in S : \A j \in S \ {m} : Starija(j, m)
<1>1. IsFiniteSet(S)
  BY FS_Subset DEF StavkePlana
<1>2. \E i \in S : \A j \in S \ {i} : Starija(i, j)
  <2>1. PICK R : R = {ij \in U \X U : Starija(ij[1], ij[2])}
    OBVIOUS
  <2>2. \A i, j \in S : <<i, j>> \in R <=> Starija(i, j)
    BY <2>1
  <2>3. /\ \A i, j \in S : i = j \/ <<i, j>> \in R \/ <<j, i>> \in R
        /\ \A i, j, m \in S : <<i, j>> \in R /\ <<j, m>> \in R => <<i, m>> \in R
    BY <2>2, RedosljedStavki
  <2>4. \E i \in S : \A j \in S \ {i} : <<i, j>> \in R
    BY <1>1, <2>3, PrviPoRedu
  <2> QED
    BY <2>2, <2>4
<1>3. \E m \in S : \A j \in S \ {m} : Starija(j, m)
  <2>1. PICK R : R = {ij \in U \X U : Starija(ij[2], ij[1])}
    OBVIOUS
  <2>2. \A i, j \in S : <<i, j>> \in R <=> Starija(j, i)
    BY <2>1
  <2>3. /\ \A i, j \in S : i = j \/ <<i, j>> \in R \/ <<j, i>> \in R
        /\ \A i, j, m \in S : <<i, j>> \in R /\ <<j, m>> \in R => <<i, m>> \in R
    BY <2>2, RedosljedStavki
  <2>4. \E i \in S : \A j \in S \ {i} : <<i, j>> \in R
    BY <1>1, <2>3, PrviPoRedu
  <2> QED
    BY <2>2, <2>4
<1>4. PICK n : n = CHOOSE i \in S : \A j \in S \ {i} : Starija(i, j)
  OBVIOUS
<1>5. n \in S /\ \A j \in S \ {n} : Starija(n, j)
  BY <1>2, <1>4
<1> QED
  BY <1>3, <1>4, <1>5 DEF Najstarija

\* Items lie one after another on their side: one ends before a younger one
\* begins, and one that does not begin at zero begins where another ends.
LEMMA JednaZaDrugom ==
  ASSUME NEW U, StavkePlana(U), NEW i \in U
  PROVE  /\ LijeviKraj(U, i) \in Nat /\ DesniKraj(U, i) \in Nat
         /\ \A m \in Ispred(U, i) : DesniKraj(U, m) <= LijeviKraj(U, i)
         /\ \/ LijeviKraj(U, i) = 0
            \/ \E m \in Ispred(U, i) : m.preostalo # 0 /\ DesniKraj(U, m) = LijeviKraj(U, i)
<1>1. PICK f : f = Duzine(U)
  OBVIOUS
<1>2. \A j \in U : f[j] = Apsolutno(j.preostalo) /\ f[j] \in Nat /\ f[j] \in Int
  BY <1>1 DEF Duzine, Apsolutno, StavkePlana
<1>3. ASSUME NEW j \in U
      PROVE  /\ Ispred(U, j) \in SUBSET U /\ IsFiniteSet(Ispred(U, j))
             /\ LijeviKraj(U, j) = ZbirNad(f, Ispred(U, j)) /\ LijeviKraj(U, j) \in Nat
             /\ DesniKraj(U, j) = LijeviKraj(U, j) + f[j] /\ DesniKraj(U, j) \in Nat
  <2>1. Ispred(U, j) \in SUBSET U /\ IsFiniteSet(U)
    BY DEF Ispred, StavkePlana
  <2>2. IsFiniteSet(Ispred(U, j))
    BY <2>1, FS_Subset
  <2>3. LijeviKraj(U, j) = ZbirNad(f, Ispred(U, j))
    BY <1>1, <2>1, ZbirDuzina DEF LijeviKraj
  <2>4. ZbirNad(f, Ispred(U, j)) \in Nat
    BY <1>2, <2>1, <2>2, ZbirCio
  <2>5. DesniKraj(U, j) = LijeviKraj(U, j) + f[j]
    BY <1>2 DEF DesniKraj
  <2> QED
    BY <1>2, <2>1, <2>2, <2>3, <2>4, <2>5
<1>4. ASSUME NEW m \in Ispred(U, i)
      PROVE  \E A : /\ A = Ispred(U, m) \cup {m} /\ A \subseteq Ispred(U, i)
                    /\ IsFiniteSet(A) /\ ZbirNad(f, A) = DesniKraj(U, m)
  <2>1. m \in U /\ m \notin Ispred(U, m)
    BY RedosljedStavki DEF Ispred
  <2>2. PICK A : A = Ispred(U, m) \cup {m}
    OBVIOUS
  <2>3. A \subseteq Ispred(U, i)
    BY <2>1, <2>2, RedosljedStavki DEF Ispred
  <2>4. IsFiniteSet(A)
    BY <1>3, <2>3, FS_Subset
  <2>5. A \ {m} = Ispred(U, m) /\ m \in A
    BY <2>1, <2>2
  <2>6. \A x \in A : f[x] \in Int
    BY <1>2, <1>3, <2>3
  <2>7. ZbirNad(f, A) = f[m] + ZbirNad(f, A \ {m})
    BY <2>4, <2>5, <2>6, ZbirBezElementa
  <2>8. ZbirNad(f, A) = f[m] + LijeviKraj(U, m)
    BY <1>3, <2>1, <2>5, <2>7
  <2> QED
    BY <1>2, <1>3, <2>1, <2>2, <2>3, <2>4, <2>8
<1>5. ASSUME NEW m \in Ispred(U, i) PROVE DesniKraj(U, m) <= LijeviKraj(U, i)
  <2>1. PICK A : A \subseteq Ispred(U, i) /\ ZbirNad(f, A) = DesniKraj(U, m)
    BY <1>4
  <2>2. \A x \in Ispred(U, i) : f[x] \in Nat
    BY <1>2, <1>3
  <2>3. ZbirNad(f, A) <= ZbirNad(f, Ispred(U, i))
    BY <1>3, <2>1, <2>2, ZbirDijela
  <2> QED
    BY <1>3, <2>1, <2>3
<1>6. PICK N : N = {j \in Ispred(U, i) : j.preostalo # 0}
  OBVIOUS
<1>7. CASE N = {}
  <2>1. \A x \in Ispred(U, i) : f[x] = 0
    BY <1>2, <1>3, <1>6, <1>7 DEF Apsolutno
  <2>2. ZbirNad(f, Ispred(U, i)) = 0
    BY <1>3, <2>1, ZbirNula
  <2> QED
    BY <1>3, <1>5, <2>2
<1>8. CASE N # {}
  <2>1. N \in SUBSET U
    BY <1>3, <1>6
  <2>2. PICK m \in N : \A j \in N \ {m} : Starija(j, m)
    BY <1>8, <2>1, PostojiNajstarija
  <2>3. m \in Ispred(U, i) /\ m.preostalo # 0
    BY <1>6, <2>2
  <2>4. PICK A : /\ A = Ispred(U, m) \cup {m} /\ A \subseteq Ispred(U, i)
                 /\ IsFiniteSet(A) /\ ZbirNad(f, A) = DesniKraj(U, m)
    BY <1>4, <2>3
  <2>5. PICK Z : Z = Ispred(U, i) \ A
    OBVIOUS
  <2>6. A \cup Z = Ispred(U, i) /\ IsFiniteSet(Z)
    BY <1>3, <2>4, <2>5, FS_Subset
  <2>7. ASSUME NEW z \in Z PROVE f[z] = 0
    <3>1. z \in Ispred(U, i) /\ z \notin Ispred(U, m) /\ z # m /\ z \in U
      BY <1>3, <2>4, <2>5
    <3>2. z \notin N
      BY <2>2, <2>3, <3>1 DEF Ispred
    <3>3. z.preostalo = 0
      BY <1>6, <3>1, <3>2
    <3> QED
      BY <1>2, <3>1, <3>3 DEF Apsolutno
  <2>8. ZbirNad(f, Z) = 0
    BY <2>6, <2>7, ZbirNula
  <2>9. \A x \in A \cup Z : f[x] \in Nat
    BY <1>2, <1>3, <2>6
  <2>10. ZbirNad(f, A \cup Z) <= ZbirNad(f, A) + ZbirNad(f, Z)
    BY <2>4, <2>6, <2>9, ZbirUnije
  <2>11. LijeviKraj(U, i) <= DesniKraj(U, m)
    <3>1. ZbirNad(f, A \cup Z) = LijeviKraj(U, i)
      BY <1>3, <2>6, Zenon
    <3>2. DesniKraj(U, m) \in Nat
      BY <1>3, <2>1, <2>2
    <3> QED
      BY <2>4, <2>8, <2>10, <3>1, <3>2
  <2>12. LijeviKraj(U, i) = DesniKraj(U, m)
    BY <1>3, <1>5, <2>1, <2>3, <2>11
  <2> QED
    BY <1>3, <1>5, <2>3, <2>12
<1> QED
  BY <1>7, <1>8

\* Two items of a side do not overlap.
LEMMA Razdvojene ==
  ASSUME NEW U, StavkePlana(U), NEW i \in U, NEW j \in U, IstaStrana(i, j), i # j
  PROVE  /\ Starija(i, j) => DesniKraj(U, i) <= LijeviKraj(U, j)
         /\ DesniKraj(U, i) <= LijeviKraj(U, j) \/ DesniKraj(U, j) <= LijeviKraj(U, i)
<1>1. Starija(i, j) => i \in Ispred(U, j)
  BY DEF IstaStrana, Ispred
<1>2. Starija(j, i) => j \in Ispred(U, i)
  BY DEF IstaStrana, Ispred
<1>3. Starija(i, j) \/ Starija(j, i)
  BY RedosljedStavki
<1>4. \A m \in Ispred(U, j) : DesniKraj(U, m) <= LijeviKraj(U, j)
  BY JednaZaDrugom
<1>5. \A m \in Ispred(U, i) : DesniKraj(U, m) <= LijeviKraj(U, i)
  BY JednaZaDrugom
<1> QED
  BY <1>1, <1>2, <1>3, <1>4, <1>5

\* An item's ends are natural numbers that its amount separates.
LEMMA Krajevi ==
  ASSUME NEW U, StavkePlana(U), NEW i \in U
  PROVE  /\ LijeviKraj(U, i) \in Nat /\ DesniKraj(U, i) \in Nat /\ LijeviKraj(U, i) <= DesniKraj(U, i)
         /\ i.preostalo # 0 => LijeviKraj(U, i) < DesniKraj(U, i)
<1>1. LijeviKraj(U, i) \in Nat /\ DesniKraj(U, i) \in Nat
  BY JednaZaDrugom
<1>2. i.preostalo \in Int
  BY DEF StavkePlana
<1>3. DesniKraj(U, i) = LijeviKraj(U, i) + Apsolutno(i.preostalo)
  BY DEF DesniKraj
<1> QED
  BY <1>1, <1>2, <1>3 DEF Apsolutno

Manji(a, b) == IF a <= b THEN a ELSE b
Veci(a, b) == IF a <= b THEN b ELSE a

\* Of two numbers.
LEMMA ManjiVeci ==
  ASSUME NEW a \in Int, NEW b \in Int
  PROVE  Min({a, b}) = Manji(a, b) /\ Max({a, b}) = Veci(a, b)
<1>1. \E x \in {a, b} : \A y \in {a, b} : x =< y
  OBVIOUS
<1>2. \E x \in {a, b} : \A y \in {a, b} : x >= y
  OBVIOUS
<1> QED
  BY <1>1, <1>2 DEF Min, Max, Manji, Veci

Dugovne(U) == {i \in U : i.preostalo > 0}
Potrazne(U, i) == {j \in U : j.preostalo < 0 /\ j.kartica = i.kartica}

\* The plan, pair by pair, in the same terms.
LEMMA PlanPojedinacno ==
  ASSUME NEW U, StavkePlana(U), NEW z
  PROVE  z \in PlanPoStarosti(U) <=>
           \E i \in Dugovne(U) : \E j \in Potrazne(U, i) :
             LET x == Manji(DesniKraj(U, i), DesniKraj(U, j)) - Veci(LijeviKraj(U, i), LijeviKraj(U, j))
             IN x > 0 /\ z = [d |-> i.id, p |-> j.id, iznos |-> x]
<1> DEFINE Prije(i) == MapThenSumSet(LAMBDA j : Apsolutno(j.preostalo),
                         {j \in U : /\ j.kartica = i.kartica
                                    /\ (j.preostalo > 0) = (i.preostalo > 0)
                                    /\ Starija(j, i)})
           Dokle(i) == Prije(i) + Apsolutno(i.preostalo)
           Preklop(i, j) == Min({Dokle(i), Dokle(j)}) - Max({Prije(i), Prije(j)})
           Preko(i, j) == Manji(DesniKraj(U, i), DesniKraj(U, j)) - Veci(LijeviKraj(U, i), LijeviKraj(U, j))
           parovi == {ij \in {i \in U : i.preostalo > 0} \X {j \in U : j.preostalo < 0} :
                        ij[1].kartica = ij[2].kartica /\ Preklop(ij[1], ij[2]) > 0}
<1>1. PlanPoStarosti(U) =
        {[d |-> ij[1].id, p |-> ij[2].id, iznos |-> Preklop(ij[1], ij[2])] : ij \in parovi}
  BY DEF PlanPoStarosti
<1>2. \A i : Prije(i) = LijeviKraj(U, i) /\ Dokle(i) = DesniKraj(U, i)
  BY DEF LijeviKraj, Ispred, DesniKraj
<1> HIDE DEF Prije, Dokle
<1>3. ASSUME NEW i \in U, NEW j \in U PROVE Preklop(i, j) = Preko(i, j)
  <2>1. /\ LijeviKraj(U, i) \in Int /\ DesniKraj(U, i) \in Int /\ LijeviKraj(U, j) \in Int /\ DesniKraj(U, j) \in Int
    BY JednaZaDrugom
  <2>2. /\ Min({DesniKraj(U, i), DesniKraj(U, j)}) = Manji(DesniKraj(U, i), DesniKraj(U, j))
        /\ Max({LijeviKraj(U, i), LijeviKraj(U, j)}) = Veci(LijeviKraj(U, i), LijeviKraj(U, j))
    BY <2>1, ManjiVeci
  <2>3. Preklop(i, j) = Min({DesniKraj(U, i), DesniKraj(U, j)}) - Max({LijeviKraj(U, i), LijeviKraj(U, j)})
    BY <1>2, Zenon
  <2> QED
    BY <2>2, <2>3
<1> HIDE DEF Preklop, Preko
<1>4. \A i, j : <<i, j>> \in parovi <=>
        i \in Dugovne(U) /\ j \in Potrazne(U, i) /\ Preko(i, j) > 0
  BY <1>3 DEF Dugovne, Potrazne
<1>5. \A i, j : <<i, j>> \in parovi => Preklop(i, j) = Preko(i, j)
  BY <1>3
<1>6. z \in PlanPoStarosti(U) <=>
        \E i, j : <<i, j>> \in parovi /\ z = [d |-> i.id, p |-> j.id, iznos |-> Preko(i, j)]
  <2>1. ASSUME z \in PlanPoStarosti(U)
        PROVE  \E i, j : <<i, j>> \in parovi /\ z = [d |-> i.id, p |-> j.id, iznos |-> Preko(i, j)]
    <3>1. PICK ij \in parovi :
            z = [d |-> ij[1].id, p |-> ij[2].id, iznos |-> Preklop(ij[1], ij[2])]
      BY <1>1, <2>1
    <3>2. PICK i, j : ij = <<i, j>> /\ <<i, j>> \in parovi
      <4>1. ij \in U \X U
        OBVIOUS
      <4> QED
        BY <4>1
    <3>3. z = [d |-> i.id, p |-> j.id, iznos |-> Preklop(i, j)]
      BY <3>1, <3>2
    <3> QED
      BY <1>5, <3>2, <3>3
  <2>2. ASSUME NEW i, NEW j, <<i, j>> \in parovi,
               z = [d |-> i.id, p |-> j.id, iznos |-> Preko(i, j)]
        PROVE  z \in PlanPoStarosti(U)
    <3>1. z = [d |-> i.id, p |-> j.id, iznos |-> Preklop(i, j)]
      BY <1>5, <2>2
    <3>2. PICK ij \in parovi : ij[1] = i /\ ij[2] = j
      <4>1. <<i, j>>[1] = i /\ <<i, j>>[2] = j
        OBVIOUS
      <4> HIDE DEF parovi
      <4> QED
        BY <2>2, <4>1
    <3> HIDE DEF parovi
    <3>3. z = [d |-> ij[1].id, p |-> ij[2].id, iznos |-> Preklop(ij[1], ij[2])]
      BY <3>1, <3>2
    <3> QED
      BY <1>1, <3>3
  <2> QED
    BY <2>1, <2>2
<1> HIDE DEF parovi
<1>7. z \in PlanPoStarosti(U) <=>
        \E i \in Dugovne(U) : \E j \in Potrazne(U, i) :
          Preko(i, j) > 0 /\ z = [d |-> i.id, p |-> j.id, iznos |-> Preko(i, j)]
  BY <1>4, <1>6
<1> QED
  BY <1>7 DEF Preko

\* An oldest-first plan has finitely many pairs, of natural amounts.
LEMMA PlanPoStarostiPrirodan ==
  ASSUME NEW U, StavkePlana(U)
  PROVE  PlanPrirodan(PlanPoStarosti(U))
<1>1. PICK f : f = [ij \in U \X U |->
                 [d |-> ij[1].id, p |-> ij[2].id,
                  iznos |-> Manji(DesniKraj(U, ij[1]), DesniKraj(U, ij[2]))
                              - Veci(LijeviKraj(U, ij[1]), LijeviKraj(U, ij[2]))]]
  OBVIOUS
<1>2. IsFiniteSet(U \X U)
  BY FS_Product DEF StavkePlana
<1>3. ASSUME NEW x \in PlanPoStarosti(U)
      PROVE  x.iznos \in Nat /\ \E ij \in U \X U : x = f[ij]
  <2>1. PICK i, j, y : /\ i \in Dugovne(U) /\ j \in Potrazne(U, i) /\ y > 0
                       /\ y = Manji(DesniKraj(U, i), DesniKraj(U, j))
                                - Veci(LijeviKraj(U, i), LijeviKraj(U, j))
                       /\ x = [d |-> i.id, p |-> j.id, iznos |-> y]
    BY PlanPojedinacno
  <2>2. i \in U /\ j \in U
    BY <2>1 DEF Dugovne, Potrazne
  <2>3. /\ LijeviKraj(U, i) \in Nat /\ DesniKraj(U, i) \in Nat
        /\ LijeviKraj(U, j) \in Nat /\ DesniKraj(U, j) \in Nat
    BY <2>2, JednaZaDrugom
  <2>4. y \in Nat
    BY <2>1, <2>3 DEF Manji, Veci
  <2>5. <<i, j>> \in U \X U /\ x = f[<<i, j>>]
    BY <1>1, <2>1, <2>2
  <2> QED
    BY <2>1, <2>4, <2>5
<1>4. IsFiniteSet(PlanPoStarosti(U))
  BY <1>2, <1>3, KonacnaSlika
<1> QED
  BY <1>3, <1>4 DEF PlanPrirodan

---------------------------------------------------------------------------
(* Amounts stay whole *)

\* Lines have whole amounts, edges have natural ones and are finitely many.
StavkeCijele == \A s \in Stavka : stavke[s].iznos \in Int
VezePrirodne == IsFiniteSet(zatvaranja) /\ \A v \in zatvaranja : v.iznos \in Nat

\* So do the lines that a request entered and the pairs that it settles.
UnosCio(unos) == \A i \in DOMAIN unos : unos[i].iznos \in Int
JeCio(z) ==
  /\ UnosCio(z.unos)
  /\ z.pc \in {"settleCheck", "settleCommit"} => PlanPrirodan(z.plan)

Cijelo ==
  /\ StavkeCijele /\ VezePrirodne
  /\ \A r \in Zahtjev : JeCio(zahtjevi[r])

\* The remaining amount of a line is whole.
LEMMA PreostaloCijelo ==
  ASSUME Cijelo, NEW s \in Stavka, NEW d
  PROVE  Preostalo(s, d) \in Int
<1>1. PICK V : V = {v \in VezeStavke(s) : Vazi(v, d)}
  OBVIOUS
<1>2. V \subseteq zatvaranja
  BY <1>1 DEF VezeStavke
<1>3. IsFiniteSet(V) /\ \A v \in V : v.iznos \in Nat
  BY <1>2, FS_Subset DEF Cijelo, VezePrirodne
<1>4. Potroseno(s, d) \in Nat
  BY <1>1, <1>3, ZbirIznosaPrirodan DEF Potroseno
<1>5. stavke[s].iznos \in Int
  BY DEF Cijelo, StavkeCijele
<1> QED
  BY <1>4, <1>5 DEF Preostalo

\* The ledger's items are such that a plan can be made of them.
LEMMA KnjigaJeCijela ==
  ASSUME IInv, Cijelo, NEW g, NEW d
  PROVE  StavkePlana(Knjiga(g, d, prenosi))
<1>1. PICK S, T : S = StavkeKnjige(g, d, prenosi) /\ T = Knjiga(g, d, prenosi)
  OBVIOUS
<1>2. S \subseteq Stavka
  BY <1>1 DEF StavkeKnjige, Direktne, IzvorneStavke, Prenesene, IInv, TypeOK
<1>3. IsFiniteSet(S)
  BY <1>2, KonacnoStavki, FS_Subset
<1>4. PICK f : f = [s \in S |-> SnimakStavke(s, d)]
  OBVIOUS
<1>5. \A i \in T : \E s \in S : i = f[s]
  BY <1>1, <1>4 DEF Knjiga
<1>6. IsFiniteSet(T)
  BY <1>3, <1>5, KonacnaSlika
<1>7. ASSUME NEW s \in S
      PROVE  f[s].id = s /\ s \in Nat /\ f[s].datum \in Nat /\ f[s].preostalo \in Int
  <2>1. s \in Stavka /\ stavke[s].nalog # Nema /\ s \in Nat
    BY <1>1, <1>2, <1>7, BazaPretpostavke
       DEF StavkeKnjige, Direktne, IzvorneStavke, Prenesene, IInv, PrenosiIspravni
  <2>2. stavke[s].nalog \in Nalog
    BY <2>1 DEF IInv, TypeOK, JeStavka
  <2>3. nalozi[stavke[s].nalog].datum \in Nat
    BY <2>2 DEF IInv, TypeOK, NalogTip, Datum
  <2>4. /\ f[s].id = s /\ f[s].datum = nalozi[stavke[s].nalog].datum
        /\ f[s].preostalo = Preostalo(s, d)
    BY <1>4 DEF SnimakStavke
  <2> QED
    BY <2>1, <2>3, <2>4, PreostaloCijelo
<1> QED
  BY <1>1, <1>5, <1>6, <1>7 DEF StavkePlana

---------------------------------------------------------------------------
(* Steps keep amounts whole *)

\* Replacing a journal's lines by those a request entered keeps amounts whole.
LEMMA ZamjenaCijela ==
  ASSUME StavkeCijele, NEW n, NEW unos, UnosCio(unos), stavke' = SaStavkama(n, unos)
  PROVE  StavkeCijele'
<1>1. PICK id : id = NoviIdovi(unos)
  OBVIOUS
<1>2. \A s \in Stavka :
        stavke'[s] = IF \E i \in DOMAIN unos : id[i] = s
                     THEN LET i == CHOOSE i \in DOMAIN unos : id[i] = s
                          IN [nalog |-> n, kartica |-> unos[i].kartica, iznos |-> unos[i].iznos]
                     ELSE IF stavke[s].nalog = n THEN PraznaStavka ELSE stavke[s]
  BY <1>1 DEF SaStavkama
<1>3. ASSUME NEW s \in Stavka PROVE stavke'[s].iznos \in Int
  <2>1. CASE \E i \in DOMAIN unos : id[i] = s
    <3>1. PICK i : i = CHOOSE j \in DOMAIN unos : id[j] = s
      OBVIOUS
    <3>2. i \in DOMAIN unos
      BY <2>1, <3>1
    <3>3. stavke'[s] = [nalog |-> n, kartica |-> unos[i].kartica, iznos |-> unos[i].iznos]
      BY <1>2, <2>1, <3>1
    <3> QED
      BY <3>2, <3>3 DEF UnosCio
  <2>2. CASE ~(\E i \in DOMAIN unos : id[i] = s)
    <3>1. stavke'[s] = IF stavke[s].nalog = n THEN PraznaStavka ELSE stavke[s]
      BY <1>2, <2>2
    <3>2. PraznaStavka.iznos = 0
      BY DEF PraznaStavka
    <3> QED
      BY <3>1, <3>2 DEF StavkeCijele
  <2> QED
    BY <2>1, <2>2
<1> QED
  BY <1>3 DEF StavkeCijele

\* Every step keeps the amounts of lines whole.
LEMMA KorakCuvaStavke ==
  ASSUME Cijelo, NEW r \in Zahtjev, Korak(r)
  PROVE  StavkeCijele'
<1>1. CASE stavke' = stavke
  BY <1>1 DEF Cijelo, StavkeCijele
<1>2. PICK unos : unos = zahtjevi[r].unos
  OBVIOUS
<1>3. UnosCio(unos)
  BY <1>2 DEF Cijelo, JeCio
<1>4. CASE CreateJournalWrite(r) \/ OpeningImportWrite(r) \/ GenerateOpeningCommit(r)
           \/ UpdateDraftWrite(r)
  <2>1. stavke' = stavke \/ \E n : stavke' = SaStavkama(n, unos)
    BY <1>2, <1>4 DEF CreateJournalWrite, OpeningImportWrite, GenerateOpeningCommit,
                      UpdateDraftWrite, UpisiNacrt, Odustani, tabele
  <2> QED
    BY <1>1, <1>3, <2>1, ZamjenaCijela DEF Cijelo
<1>5. CASE DeleteJournalWrite(r)
  <2>1. PICK n : n = zahtjevi[r].nalog
    OBVIOUS
  <2>2. \/ stavke' = stavke
        \/ stavke' = [s \in Stavka |-> IF stavke[s].nalog = n THEN PraznaStavka ELSE stavke[s]]
    BY <1>5, <2>1 DEF DeleteJournalWrite, Odustani, tabele
  <2> QED
    BY <1>1, <2>2 DEF Cijelo, StavkeCijele, PraznaStavka
<1>6. CASE PostJournalCommit(r) \/ ReopenJournalWrite(r)
  BY <1>1, <1>6 DEF PostJournalCommit, ReopenJournalWrite, Odustani, tabele
<1> QED
  BY <1>1, <1>4, <1>5, <1>6, OstaloNeMijenja, ZatvaranjaIPrenosi DEF Upisi, tabele

\* The edges of a settlement that is about to commit.
LEMMA NoveSuPrirodne ==
  ASSUME Cijelo, NEW r \in Zahtjev, zahtjevi[r].pc = "settleCommit", NEW z, z = zahtjevi[r]
  PROVE  IsFiniteSet(NoveVeze(z)) /\ \A v \in NoveVeze(z) : v.iznos \in Nat
<1>1. PICK nove : nove = NoveVeze(z)
  OBVIOUS
<1>2. PICK f : f = [q \in z.plan |-> [rb |-> Cardinality(zatvaranja), d |-> q.d, p |-> q.p,
                                     iznos |-> q.iznos, datum |-> z.datum, ponisteno |-> 0]]
  OBVIOUS
<1>3. IsFiniteSet(z.plan) /\ \A q \in z.plan : q.iznos \in Nat
  BY DEF Cijelo, JeCio, PlanPrirodan
<1>4. ASSUME NEW v \in nove PROVE \E q \in z.plan : v = f[q] /\ v.iznos = q.iznos
  <2>1. PICK q \in z.plan : v = [rb |-> Cardinality(zatvaranja), d |-> q.d, p |-> q.p,
                                iznos |-> q.iznos, datum |-> z.datum, ponisteno |-> 0]
    BY <1>1, <1>4 DEF NoveVeze
  <2>2. v = f[q] /\ v.iznos = q.iznos
    BY <1>2, <2>1
  <2> QED
    BY <2>2
<1>5. IsFiniteSet(nove)
  BY <1>3, <1>4, KonacnaSlika
<1> QED
  BY <1>1, <1>3, <1>4, <1>5

\* Cancelling changes no amount and makes no edge.
LEMMA PonistenePrirodne ==
  ASSUME Cijelo, NEW V, NEW d, zatvaranja' = Ponistene(V, d)
  PROVE  VezePrirodne'
<1>1. PICK f : f = [v \in zatvaranja |-> IF v \in V THEN [v EXCEPT !.ponisteno = d] ELSE v]
  OBVIOUS
<1>2. \A w \in zatvaranja' : \E v \in zatvaranja : w = f[v]
  BY <1>1 DEF Ponistene
<1>3. \A v \in zatvaranja : f[v].iznos = v.iznos
  BY <1>1
<1>4. IsFiniteSet(zatvaranja')
  BY <1>2, KonacnaSlika DEF Cijelo, VezePrirodne
<1> QED
  BY <1>2, <1>3, <1>4 DEF Cijelo, VezePrirodne

\* Every step keeps the edges finite and their amounts natural.
LEMMA KorakCuvaVeze ==
  ASSUME Cijelo, NEW r \in Zahtjev, Korak(r)
  PROVE  VezePrirodne'
<1>1. CASE zatvaranja' = zatvaranja
  BY <1>1 DEF Cijelo, VezePrirodne
<1>2. CASE SettleCommit(r)
  <2>1. PICK z, nove : z = zahtjevi[r] /\ nove = NoveVeze(z)
    OBVIOUS
  <2>2. z.pc = "settleCommit" /\ zatvaranja' = zatvaranja \cup nove
    BY <1>2, <2>1 DEF SettleCommit
  <2>3. IsFiniteSet(nove) /\ \A v \in nove : v.iznos \in Nat
    BY <2>1, <2>2, NoveSuPrirodne
  <2> QED
    BY <2>2, <2>3, FS_Union DEF Cijelo, VezePrirodne
<1>3. CASE \/ CancelAllSettlements(r)
           \/ \E g \in Godina, d \in Datum, v \in zatvaranja : CancelSettlement(r, g, d, v)
  <2>1. zatvaranja' = zatvaranja \/ \E V, d : zatvaranja' = Ponistene(V, d)
    BY <1>3 DEF CancelAllSettlements, CancelSettlement, Odustani, tabele
  <2> QED
    BY <1>1, <2>1, PonistenePrirodne
<1>4. CASE \/ CreateJournalWrite(r) \/ OpeningImportWrite(r) \/ UpdateDraftWrite(r)
           \/ PostJournalCommit(r) \/ ReopenJournalWrite(r) \/ DeleteJournalWrite(r)
           \/ GenerateOpeningCommit(r) \/ CarryCommit(r)
  BY <1>1, <1>4 DEF CreateJournalWrite, OpeningImportWrite, UpdateDraftWrite, PostJournalCommit,
       ReopenJournalWrite, DeleteJournalWrite, GenerateOpeningCommit, CarryCommit, UpisiNacrt,
       Odustani, tabele
<1> QED
  BY <1>1, <1>2, <1>3, <1>4, OstaloNeMijenja DEF Upisi, tabele

\* An idle request has entered nothing.
LEMMA MirovanjeCijelo == JeCio(Mirovanje)
BY DEF JeCio, Mirovanje, UnosCio

\* A request that ends is idle.
LEMMA KrajCijel ==
  ASSUME IInv, NEW r \in Zahtjev, Zavrsi(r)
  PROVE  JeCio(zahtjevi'[r])
<1>1. zahtjevi'[r] = Mirovanje
  BY DEF Zavrsi, IInv, TypeOK
<1> QED
  BY <1>1, MirovanjeCijelo

\* The balances that an opening journal carries.
LEMMA PocetneCijele ==
  ASSUME Cijelo, NEW g
  PROVE  UnosCio(PocetneStavke(g))
<1>1. ASSUME NEW k \in Kartica PROVE KarticeSaldo(g)[k] \in Int
  <2>1. PICK S : S = {s \in Stavka : /\ stavke[s].nalog # Nema
                                     /\ stavke[s].kartica = k
                                     /\ Proknjizen(stavke[s].nalog)
                                     /\ nalozi[stavke[s].nalog].godina = g}
    OBVIOUS
  <2>2. PICK f : f = [s \in S |-> stavke[s].iznos]
    OBVIOUS
  <2>3. DOMAIN f = S /\ \A s \in S : f[s] \in Int
    BY <2>1, <2>2 DEF Cijelo, StavkeCijele
  <2>4. IsFiniteSet(S)
    BY <2>1, KonacnoStavki, FS_Subset
  <2>5. ZbirFunkcije(f) \in Int
    BY <2>3, <2>4, FunkcijaJeZbir, ZbirCio
  <2>6. KarticeSaldo(g)[k] = Zbir(S)
    BY <2>1 DEF KarticeSaldo
  <2> QED
    BY <2>2, <2>5, <2>6 DEF Zbir
<1>2. PICK saldo : saldo = KarticeSaldo(g)
  OBVIOUS
<1>3. PocetneStavke(g) = [k \in {k \in Kartica : saldo[k] # 0} |-> [kartica |-> k, iznos |-> saldo[k]]]
  BY <1>2 DEF PocetneStavke
<1>4. \A k \in DOMAIN PocetneStavke(g) : PocetneStavke(g)[k].iznos = saldo[k] /\ k \in Kartica
  BY <1>3
<1> QED
  BY <1>1, <1>2, <1>4 DEF UnosCio

\* A settlement begins with the lines of no journal and a plan of natural amounts.
LEMMA PocetakCijel ==
  ASSUME IInv, NEW r \in Zahtjev, NEW g, NEW d, NEW items, NEW plan, PlanPrirodan(plan),
         PocniZatvaranje(r, g, d, items, plan)
  PROVE  JeCio(zahtjevi'[r])
<1>1. zahtjevi = [q \in Zahtjev |-> zahtjevi[q]]
  BY DEF IInv, TypeOK
<1>2. zahtjevi'[r].unos = <<>> /\ zahtjevi'[r].plan = plan
  BY <1>1 DEF PocniZatvaranje, Nastavi, Mirovanje
<1> QED
  BY <1>2 DEF JeCio, UnosCio

\* The steps of settling keep plans finite, with natural amounts.
LEMMA ZatvaranjeCijelo ==
  ASSUME IInv, Cijelo, NEW r \in Zahtjev, Settle(r)
  PROVE  JeCio(zahtjevi'[r])
<1>1. zahtjevi = [q \in Zahtjev |-> zahtjevi[q]] /\ JeZahtjev(zahtjevi[r])
  BY DEF IInv, TypeOK
<1>2. ASSUME NEW g, NEW d, NEW K
      PROVE  /\ StavkePlana(Knjiga(g, d, prenosi))
             /\ StavkePlana(PartneriKnjige(g, d, K))
  BY KnjigaJeCijela, DioStavkiPlana DEF PartneriKnjige
<1>3. ASSUME NEW g, NEW d, NEW i, NEW j, NEW c \in Iznosi,
             SettleManual(r, g, d, [d |-> i.id, p |-> j.id, iznos |-> c])
      PROVE  JeCio(zahtjevi'[r])
  <2>1. PICK plan : plan = {[d |-> i.id, p |-> j.id, iznos |-> c]}
    OBVIOUS
  <2>2. \A q \in plan : q.iznos \in Nat
    BY <2>1, KnjigaPretpostavke
  <2>3. PlanPrirodan(plan)
    BY <2>1, <2>2, FS_Singleton DEF PlanPrirodan
  <2> QED
    BY <1>3, <2>1, <2>3, PocetakCijel DEF SettleManual
<1>4. ASSUME NEW g, NEW d, NEW S, SettleSelected(r, g, d, S)
      PROVE  JeCio(zahtjevi'[r])
  <2>1. PICK items, dio : /\ items = Knjiga(g, d, prenosi)
                          /\ dio = {i \in items : i.id \in S}
    OBVIOUS
  <2>2. PlanPrirodan(PlanPoStarosti(dio))
    BY <1>2, <2>1, DioStavkiPlana, PlanPoStarostiPrirodan
  <2>3. PocniZatvaranje(r, g, d, items, PlanPoStarosti(dio))
    BY <1>4, <2>1 DEF SettleSelected
  <2> QED
    BY <2>2, <2>3, PocetakCijel
<1>5. ASSUME NEW g, NEW d, NEW K, SettleExact(r, g, d, K)
      PROVE  JeCio(zahtjevi'[r])
  BY <1>2, <1>5, PlanTacnoPrirodan, PocetakCijel DEF SettleExact
<1>6. ASSUME NEW g, NEW d, NEW K, PreviewOldest(r, g, d, K)
      PROVE  JeCio(zahtjevi'[r])
  <2>1. zahtjevi'[r].pc = "preview" /\ zahtjevi'[r].unos = <<>>
    BY <1>1, <1>6 DEF PreviewOldest, Nastavi, Mirovanje
  <2> QED
    BY <2>1 DEF JeCio, UnosCio
<1>7. CASE SettleOldest(r)
  BY <1>2, <1>7, PlanPoStarostiPrirodan, PocetakCijel, KrajCijel DEF SettleOldest, Odustani
<1>8. CASE WriteSettlementPairs(r)
  <2>1. CASE Odustani(r)
    BY <2>1, KrajCijel DEF Odustani
  <2>2. CASE ~Odustani(r)
    <3>1. /\ zahtjevi[r].pc = "settleCheck"
          /\ zahtjevi'[r].unos = zahtjevi[r].unos /\ zahtjevi'[r].plan = zahtjevi[r].plan
      BY <1>1, <1>8, <2>2 DEF WriteSettlementPairs, Nastavi, JeZahtjev
    <3> QED
      BY <3>1 DEF Cijelo, JeCio
  <2> QED
    BY <2>1, <2>2
<1>9. CASE SettleCommit(r)
  BY <1>9, KrajCijel DEF SettleCommit
<1> QED
  BY <1>3, <1>4, <1>5, <1>6, <1>7, <1>8, <1>9 DEF Settle

\* A request that goes on with what it entered, and settles nothing.
Ostaje(r) == /\ zahtjevi'[r].unos = zahtjevi[r].unos
             /\ zahtjevi'[r].pc \notin {"settleCheck", "settleCommit"}

\* A request that begins, and settles nothing.
Pocinje(r) == /\ UnosCio(zahtjevi'[r].unos)
              /\ zahtjevi'[r].pc \notin {"settleCheck", "settleCommit"}

\* Such requests keep amounts whole.
LEMMA OstajeCio ==
  ASSUME Cijelo, NEW r \in Zahtjev, Ostaje(r) \/ Pocinje(r)
  PROVE  JeCio(zahtjevi'[r])
BY DEF Cijelo, JeCio, Ostaje, Pocinje

\* The steps that create and change journals keep amounts whole.
LEMMA NaloziCijeli ==
  ASSUME IInv, Cijelo, NEW r \in Zahtjev,
         CreateJournal(r) \/ OpeningImport(r) \/ UpdateDraft(r)
  PROVE  JeCio(zahtjevi'[r])
<1>1. zahtjevi = [q \in Zahtjev |-> zahtjevi[q]] /\ JeZahtjev(zahtjevi[r])
  BY DEF IInv, TypeOK
<1>2. \A u \in Unosi : UnosCio(u)
  BY NaloziPretpostavke DEF UnosCio
<1>3. ASSUME NEW g, NEW d, NEW v, NEW u \in Unosi, CreateJournalCheck(r, g, d, v, u)
      PROVE  Pocinje(r)
  <2>1. PICK pc, ceka :
          /\ pc = "createWrite" \/ pc = "createLock"
          /\ Nastavi(r, [Mirovanje EXCEPT !.pc = pc, !.godina = g, !.datum = d,
                           !.vrsta = v, !.unos = u, !.ceka = ceka])
    BY <1>3 DEF CreateJournalCheck
  <2>2. zahtjevi'[r].pc = pc /\ zahtjevi'[r].unos = u
    BY <1>1, <2>1 DEF Mirovanje, Nastavi
  <2> QED
    BY <1>2, <2>1, <2>2 DEF Pocinje
<1>4. ASSUME NEW g, NEW u \in Unosi, OpeningImportCompany(r, g, u)
      PROVE  Pocinje(r)
  <2>1. zahtjevi'[r].pc = "importYear" /\ zahtjevi'[r].unos = u
    BY <1>1, <1>4 DEF OpeningImportCompany, Mirovanje, Nastavi
  <2> QED
    BY <1>2, <2>1 DEF Pocinje
<1>5. ASSUME NEW n, NEW u \in Unosi, UpdateDraftCheck(r, n, u)
      PROVE  Pocinje(r)
  <2>1. zahtjevi'[r].pc = "updateWrite" /\ zahtjevi'[r].unos = u
    BY <1>1, <1>5 DEF UpdateDraftCheck, Mirovanje, Nastavi
  <2> QED
    BY <1>2, <2>1 DEF Pocinje
<1>6. CASE CreateJournalLock(r)
  <2>1. Zavrsi(r) \/ Ostaje(r)
    BY <1>1, <1>6 DEF CreateJournalLock, Odustani, Nastavi, Ostaje, JeZahtjev
  <2> QED
    BY <2>1, KrajCijel, OstajeCio
<1>7. CASE OpeningImportYear(r)
  <2>1. Zavrsi(r) \/ Ostaje(r)
    BY <1>1, <1>7 DEF OpeningImportYear, Odustani, Nastavi, Ostaje, JeZahtjev
  <2> QED
    BY <2>1, KrajCijel, OstajeCio
<1>8. CASE CreateJournalWrite(r) \/ OpeningImportWrite(r) \/ UpdateDraftWrite(r)
  BY <1>8, KrajCijel DEF CreateJournalWrite, OpeningImportWrite, UpdateDraftWrite, UpisiNacrt,
       Odustani
<1> QED
  BY <1>3, <1>4, <1>5, <1>6, <1>7, <1>8, OstajeCio DEF CreateJournal, OpeningImport, UpdateDraft

\* The steps that post, reopen and delete keep amounts whole.
LEMMA StatusiCijeli ==
  ASSUME IInv, Cijelo, NEW r \in Zahtjev,
         PostJournal(r) \/ ReopenJournal(r) \/ DeleteJournal(r)
  PROVE  JeCio(zahtjevi'[r])
<1>1. zahtjevi = [q \in Zahtjev |-> zahtjevi[q]] /\ JeZahtjev(zahtjevi[r])
  BY DEF IInv, TypeOK
<1>2. ASSUME NEW n, PostJournalRead(r, n) \/ ReopenJournalCheck(r, n) \/ DeleteJournalCheck(r, n)
      PROVE  Pocinje(r)
  <2>1. /\ zahtjevi'[r].pc \in {"postYear", "reopenWrite", "deleteWrite"}
        /\ zahtjevi'[r].unos = <<>>
    BY <1>1, <1>2 DEF PostJournalRead, ReopenJournalCheck, DeleteJournalCheck, Mirovanje, Nastavi
  <2> QED
    BY <2>1 DEF Pocinje, UnosCio
<1>3. PostJournalLockYear(r) => Ostaje(r)
  BY <1>1 DEF PostJournalLockYear, Nastavi, Ostaje, JeZahtjev
<1>4. PostJournalCheck(r) => Zavrsi(r) \/ Ostaje(r)
  BY <1>1 DEF PostJournalCheck, Odustani, Nastavi, Ostaje, JeZahtjev
<1>5. PostJournalCommit(r) \/ ReopenJournalWrite(r) \/ DeleteJournalWrite(r) => Zavrsi(r)
  BY DEF PostJournalCommit, ReopenJournalWrite, DeleteJournalWrite, Odustani
<1> QED
  BY <1>2, <1>3, <1>4, <1>5, KrajCijel, OstajeCio DEF PostJournal, ReopenJournal, DeleteJournal

\* The steps of opening balances keep amounts whole.
LEMMA PocetnoCijelo ==
  ASSUME IInv, Cijelo, NEW r \in Zahtjev, GenerateOpening(r) \/ Carry(r)
  PROVE  JeCio(zahtjevi'[r])
<1>1. zahtjevi = [q \in Zahtjev |-> zahtjevi[q]] /\ JeZahtjev(zahtjevi[r])
  BY DEF IInv, TypeOK
<1>2. ASSUME NEW g, NEW d, GenerateOpeningCompany(r, g) \/ CarryLedger(r, g, d)
      PROVE  Pocinje(r)
  <2>1. zahtjevi'[r].pc \in {"openingLock", "carryCheck"} /\ zahtjevi'[r].unos = <<>>
    BY <1>1, <1>2 DEF GenerateOpeningCompany, CarryLedger, Mirovanje, Nastavi
  <2> QED
    BY <2>1 DEF Pocinje, UnosCio
<1>3. CASE GenerateOpeningLock(r)
  <2>1. PICK unos : unos = PocetneStavke(zahtjevi[r].godina - 1)
    OBVIOUS
  <2>2. UnosCio(unos)
    BY <2>1, PocetneCijele
  <2>3. Zavrsi(r) \/ (zahtjevi'[r].unos = unos /\ zahtjevi'[r].pc = "openingCarry")
    BY <1>1, <1>3, <2>1 DEF GenerateOpeningLock, Odustani, Nastavi, JeZahtjev
  <2> QED
    BY <2>2, <2>3, KrajCijel, OstajeCio DEF Pocinje
<1>4. GenerateOpeningLedger(r) => Zavrsi(r) \/ Ostaje(r)
  BY <1>1 DEF GenerateOpeningLedger, Odustani, Nastavi, Ostaje, JeZahtjev
<1>5. GenerateOpeningCheck(r) => Zavrsi(r) \/ Ostaje(r)
  BY <1>1 DEF GenerateOpeningCheck, Odustani, Nastavi, Ostaje, JeZahtjev
<1>6. CarryCheck(r) => Zavrsi(r) \/ Ostaje(r)
  BY <1>1 DEF CarryCheck, Odustani, Nastavi, Ostaje, JeZahtjev
<1>7. GenerateOpeningCommit(r) \/ CarryCommit(r) => Zavrsi(r)
  BY DEF GenerateOpeningCommit, CarryCommit, Odustani
<1> QED
  BY <1>2, <1>3, <1>4, <1>5, <1>6, <1>7, KrajCijel, OstajeCio DEF GenerateOpening, Carry

\* The steps of cancelling, and aborted requests, keep amounts whole.
LEMMA PonistavanjeCijelo ==
  ASSUME IInv, Cijelo, NEW r \in Zahtjev, CancelSettlements(r) \/ Prekini(r)
  PROVE  JeCio(zahtjevi'[r])
<1>1. zahtjevi = [q \in Zahtjev |-> zahtjevi[q]]
  BY DEF IInv, TypeOK
<1>2. ASSUME NEW g, NEW d, NEW k, PreviewCancelAll(r, g, d, k)
      PROVE  Pocinje(r)
  <2>1. zahtjevi'[r].pc = "cancelPreview" /\ zahtjevi'[r].unos = <<>>
    BY <1>1, <1>2 DEF PreviewCancelAll, Mirovanje, Nastavi
  <2> QED
    BY <2>1 DEF Pocinje, UnosCio
<1>3. CancelAllSettlements(r) \/ Prekini(r) => Zavrsi(r)
  BY DEF CancelAllSettlements, Prekini, Odustani
<1>4. \A g, d, v : CancelSettlement(r, g, d, v) => zahtjevi' = zahtjevi
  BY DEF CancelSettlement
<1> QED
  BY <1>2, <1>3, <1>4, KrajCijel, OstajeCio DEF CancelSettlements, Cijelo

\* Every step keeps amounts whole.
LEMMA KorakCuvaCijelo == IInv /\ Cijelo /\ [Next]_vars => Cijelo'
<1> SUFFICES ASSUME IInv, Cijelo, [Next]_vars PROVE Cijelo'
  OBVIOUS
<1>1. ASSUME NEW r \in Zahtjev, Korak(r) PROVE Cijelo'
  <2>1. JeCio(zahtjevi'[r])
    BY <1>1, NaloziCijeli, StatusiCijeli, ZatvaranjeCijelo, PocetnoCijelo, PonistavanjeCijelo
       DEF Korak
  <2>2. \A q \in Zahtjev \ {r} : JeCio(zahtjevi'[q])
    BY <1>1, OstaliCekaju DEF Cijelo
  <2>3. StavkeCijele' /\ VezePrirodne'
    BY <1>1, KorakCuvaStavke, KorakCuvaVeze
  <2>4. \A q \in Zahtjev : JeCio(zahtjevi'[q])
    BY <2>1, <2>2
  <2> QED
    BY <2>3, <2>4 DEF Cijelo, JeCio, UnosCio, PlanPrirodan
<1>2. CASE UNCHANGED <<stavke, zatvaranja, zahtjevi>>
  BY <1>2 DEF Cijelo, StavkeCijele, VezePrirodne, JeCio, UnosCio, PlanPrirodan
<1> QED
  BY <1>1, <1>2 DEF Next, vars, ToggleBusinessYear

---------------------------------------------------------------------------
(* No line is settled beyond its amount *)

\* A line whose edges are the same as before, or fewer, stays within its amount.
LEMMA ManjeVezaStaje ==
  ASSUME IInv, Cijelo, BezPrekoracenja, NaloziStite, StavkeCijele', NEW s \in Stavka,
         AktivneVeze(s)' \subseteq AktivneVeze(s)
  PROVE  ZbirIznosa(AktivneVeze(s)') <= Apsolutno(stavke'[s].iznos)
<1>1. PICK stare, nove : stare = AktivneVeze(s) /\ nove = AktivneVeze(s)'
  OBVIOUS
<1>2. stare \subseteq zatvaranja
  BY <1>1 DEF AktivneVeze, VezeStavke
<1>3. IsFiniteSet(stare) /\ \A v \in stare : v.iznos \in Nat
  BY <1>2, FS_Subset DEF Cijelo, VezePrirodne
<1>4. CASE stare = {}
  <2>1. nove = {}
    BY <1>1, <1>4
  <2>2. ZbirIznosa(nove) = 0
    BY <2>1, ZbirIznosaPraznog
  <2>3. stavke'[s].iznos \in Int
    BY DEF StavkeCijele
  <2> QED
    BY <1>1, <2>2, <2>3 DEF Apsolutno
<1>5. CASE stare # {}
  <2>1. ZasticenaStavka(s)
    BY <1>1, <1>5 DEF AktivneVeze, VezeStavke, ZasticenaStavka
  <2>2. stavke'[s] = stavke[s]
    BY <2>1 DEF NaloziStite
  <2>3. ZbirIznosa(nove) <= ZbirIznosa(stare)
    BY <1>1, <1>3, ZbirIznosaDijela
  <2>4. ZbirIznosa(stare) \in Nat /\ ZbirIznosa(nove) \in Nat
    BY <1>1, <1>3, FS_Subset, ZbirIznosaPrirodan
  <2>5. ZbirIznosa(stare) <= Apsolutno(stavke[s].iznos)
    BY <1>1 DEF BezPrekoracenja
  <2>6. stavke[s].iznos \in Int
    BY DEF Cijelo, StavkeCijele
  <2> QED
    BY <1>1, <2>2, <2>3, <2>4, <2>5, <2>6 DEF Apsolutno
<1> QED
  BY <1>4, <1>5

\* The commit of a settlement adds what its second reading made room for.
LEMMA ZatvaranjeStaje ==
  ASSUME IInv, Cijelo, BezPrekoracenja, NEW r \in Zahtjev, SettleCommit(r), NEW s \in Stavka
  PROVE  ZbirIznosa(AktivneVeze(s)') <= Apsolutno(stavke'[s].iznos)
<1>1. PICK z, nove : z = zahtjevi[r] /\ nove = NoveVeze(z)
  OBVIOUS
<1>2. /\ z.pc = "settleCommit" /\ zatvaranja' = zatvaranja \cup nove
      /\ nalozi' = nalozi /\ stavke' = stavke
  BY <1>1 DEF SettleCommit
<1>3. PICK stare, njene : stare = AktivneVeze(s) /\ njene = {v \in nove : s \in {v.d, v.p}}
  OBVIOUS
<1>4. \A v \in nove : Aktivna(v)
  BY <1>1 DEF NoveVeze, Aktivna
<1>5. AktivneVeze(s)' = stare \cup njene
  BY <1>2, <1>3, <1>4 DEF AktivneVeze, VezeStavke, Aktivna
<1>6. stare \subseteq zatvaranja
  BY <1>3 DEF AktivneVeze, VezeStavke
<1>7. /\ IsFiniteSet(stare) /\ \A v \in stare : v.iznos \in Nat
      /\ IsFiniteSet(njene) /\ \A v \in njene : v.iznos \in Nat
  BY <1>1, <1>2, <1>3, <1>6, FS_Subset, NoveSuPrirodne DEF Cijelo, VezePrirodne
<1>8. CASE njene = {}
  <2>1. AktivneVeze(s)' = stare
    BY <1>5, <1>8
  <2>2. ZbirIznosa(AktivneVeze(s)') = ZbirIznosa(AktivneVeze(s))
    BY <1>3, <2>1, Zenon
  <2> QED
    BY <1>2, <2>2 DEF BezPrekoracenja
<1>9. CASE njene # {}
  <2>1. PICK v \in nove : s \in {v.d, v.p}
    BY <1>3, <1>9
  <2>2. PICK q \in z.plan : v.d = q.d /\ v.p = q.p
    BY <1>1, <2>1 DEF NoveVeze
  <2>3. PICK i \in z.slika : i.id = s
    BY <1>1, <1>2, <2>1, <2>2 DEF IInv, ZahtjevOK, ZatvaranjeOK
  <2>4. StaneUStavku(z, i) /\ StavkaIsta(i)
    BY <1>1, <1>2, <2>3 DEF IInv, ZahtjevOK, ZatvaranjeOK, ZakljucaneOK
  <2>5. ZbirIznosa(stare) + ZbirIznosa(njene) <= Apsolutno(stavke[s].iznos)
    BY <1>1, <1>3, <2>3, <2>4 DEF StaneUStavku, StavkaIsta
  <2>6. ZbirIznosa(stare \cup njene) <= ZbirIznosa(stare) + ZbirIznosa(njene)
    BY <1>7, ZbirIznosaUnije
  <2>7. ZbirIznosa(stare) \in Nat /\ ZbirIznosa(njene) \in Nat
    BY <1>7, ZbirIznosaPrirodan
  <2>8. ZbirIznosa(stare \cup njene) \in Nat
    BY <1>7, FS_Union, ZbirIznosaPrirodan
  <2>9. Apsolutno(stavke[s].iznos) \in Int
    BY DEF Apsolutno, Cijelo, StavkeCijele
  <2>10. ZbirIznosa(stare \cup njene) <= Apsolutno(stavke[s].iznos)
    BY <2>5, <2>6, <2>7, <2>8, <2>9
  <2> QED
    BY <1>2, <1>5, <2>10
<1> QED
  BY <1>8, <1>9

\* Every other step leaves the edges in force, or cancels some.
LEMMA OstaliNeDodaju ==
  ASSUME IInv, NEW r \in Zahtjev, Korak(r), ~SettleCommit(r), NEW s \in Stavka
  PROVE  AktivneVeze(s)' \subseteq AktivneVeze(s)
<1>1. CASE zatvaranja' = zatvaranja
  BY <1>1 DEF AktivneVeze, VezeStavke
<1>2. ASSUME NEW V, NEW d \in Datum, zatvaranja' = Ponistene(V, d)
      PROVE  AktivneVeze(s)' \subseteq AktivneVeze(s)
  <2>1. ASSUME NEW w \in zatvaranja', Aktivna(w) PROVE w \in zatvaranja
    <3>1. PICK v \in zatvaranja : w = IF v \in V THEN [v EXCEPT !.ponisteno = d] ELSE v
      BY <1>2, <2>1 DEF Ponistene
    <3>2. ASSUME v \in V PROVE FALSE
      <4>1. w.ponisteno = d
        BY <3>1, <3>2 DEF IInv, TypeOK, JeVeza
      <4> QED
        BY <2>1, <4>1 DEF Aktivna, Datum
    <3> QED
      BY <3>1, <3>2
  <2> QED
    BY <2>1 DEF AktivneVeze, VezeStavke, Aktivna
<1>3. CASE CancelAllSettlements(r)
  <2>1. zatvaranja' = zatvaranja \/ \E V : zatvaranja' = Ponistene(V, zahtjevi[r].datum)
    BY <1>3 DEF CancelAllSettlements, Odustani, tabele
  <2>2. zahtjevi[r].datum \in Datum
    BY DEF IInv, TypeOK, JeZahtjev
  <2> QED
    BY <1>1, <1>2, <2>1, <2>2
<1>4. ASSUME NEW g \in Godina, NEW d \in Datum, NEW v \in zatvaranja, CancelSettlement(r, g, d, v)
      PROVE  AktivneVeze(s)' \subseteq AktivneVeze(s)
  BY <1>2, <1>4 DEF CancelSettlement
<1>5. CASE \/ CreateJournalWrite(r) \/ OpeningImportWrite(r) \/ UpdateDraftWrite(r)
           \/ PostJournalCommit(r) \/ ReopenJournalWrite(r) \/ DeleteJournalWrite(r)
           \/ GenerateOpeningCommit(r) \/ CarryCommit(r)
  BY <1>1, <1>5 DEF CreateJournalWrite, OpeningImportWrite, UpdateDraftWrite, PostJournalCommit,
       ReopenJournalWrite, DeleteJournalWrite, GenerateOpeningCommit, CarryCommit, UpisiNacrt,
       Odustani, tabele
<1> QED
  BY <1>1, <1>3, <1>4, <1>5, OstaloNeMijenja DEF Upisi, tabele

\* Every step keeps each line within its amount.
LEMMA KorakNePrekoracuje == IInv /\ Cijelo /\ BezPrekoracenja /\ [Next]_vars => BezPrekoracenja'
<1> SUFFICES ASSUME IInv, Cijelo, BezPrekoracenja, [Next]_vars PROVE BezPrekoracenja'
  OBVIOUS
<1>1. ASSUME NEW r \in Zahtjev, Korak(r) PROVE BezPrekoracenja'
  <2>1. NaloziStite /\ StavkeCijele'
    BY <1>1, KorakStiti, KorakCuvaStavke
  <2>2. ASSUME NEW s \in Stavka
        PROVE  ZbirIznosa(AktivneVeze(s)') <= Apsolutno(stavke'[s].iznos)
    BY <1>1, <2>1, <2>2, ZatvaranjeStaje, OstaliNeDodaju, ManjeVezaStaje
  <2> QED
    BY <2>2 DEF BezPrekoracenja
<1>2. CASE UNCHANGED <<stavke, zatvaranja>>
  <2>1. \A s \in Stavka : AktivneVeze(s)' = AktivneVeze(s)
    BY <1>2 DEF AktivneVeze, VezeStavke
  <2>2. \A s \in Stavka : ZbirIznosa(AktivneVeze(s)') <= Apsolutno(stavke'[s].iznos)
    BY <1>2, <2>1 DEF BezPrekoracenja
  <2> QED
    BY <2>2 DEF BezPrekoracenja
<1> QED
  BY <1>1, <1>2 DEF Next, vars, ToggleBusinessYear

\* An empty database is whole and settles nothing.
LEMMA PocetakCijelog == Init => Cijelo /\ BezPrekoracenja
<1> SUFFICES ASSUME Init PROVE Cijelo /\ BezPrekoracenja
  OBVIOUS
<1>1. StavkeCijele
  BY DEF Init, StavkeCijele, PraznaStavka
<1>2. VezePrirodne
  BY FS_EmptySet DEF Init, VezePrirodne
<1>3. \A r \in Zahtjev : JeCio(zahtjevi[r])
  BY MirovanjeCijelo DEF Init
<1>4. ASSUME NEW s \in Stavka PROVE ZbirIznosa(AktivneVeze(s)) <= Apsolutno(stavke[s].iznos)
  <2>1. AktivneVeze(s) = {}
    BY DEF Init, AktivneVeze, VezeStavke
  <2>2. ZbirIznosa(AktivneVeze(s)) = 0
    BY <2>1, ZbirIznosaPraznog
  <2>3. stavke[s].iznos \in Int
    BY <1>1 DEF StavkeCijele
  <2> QED
    BY <2>2, <2>3 DEF Apsolutno
<1> QED
  BY <1>1, <1>2, <1>3, <1>4 DEF Cijelo, BezPrekoracenja

\* However many requests settle, cancel and settle again, the edges in force
\* of a line never add up to more than its amount.
THEOREM NemaPrekoracenja == Spec => []BezPrekoracenja
<1>1. Spec => [](Cijelo /\ BezPrekoracenja)
  BY PocetakCijelog, KorakCuvaCijelo, KorakNePrekoracuje, Induktivna, PTL DEF Spec
<1> QED
  BY <1>1, PTL

---------------------------------------------------------------------------
(* Proposals take no more than what remains *)

\* What an item shares with items of another side, each its own stretch, is no
\* more than its amount.
LEMMA PreklopiStaju ==
  ASSUME NEW U, StavkePlana(U), NEW i \in U,
         NEW Z, IsFiniteSet(Z), NEW c \in [Z -> U],
         \A x, y \in Z : IstaStrana(c[x], c[y]) /\ (c[x] = c[y] => x = y),
         \A x \in Z : /\ x.iznos = Manji(DesniKraj(U, i), DesniKraj(U, c[x]))
                                     - Veci(LijeviKraj(U, i), LijeviKraj(U, c[x]))
                      /\ x.iznos > 0
  PROVE  ZbirIznosa(Z) <= Apsolutno(i.preostalo)
<1>1. PICK f, a, b : f = IznosOd(Z) /\ a = LijeviKraj(U, i) /\ b = DesniKraj(U, i)
  OBVIOUS
<1>2. /\ a \in Nat /\ b \in Nat /\ a <= b
      /\ \A x \in Z : LijeviKraj(U, c[x]) \in Nat /\ DesniKraj(U, c[x]) \in Nat
  BY <1>1, Krajevi
<1>3. ASSUME NEW x \in Z
      PROVE  /\ f[x] \in Nat
             /\ f[x] <= Manji(b, DesniKraj(U, c[x])) - a
             /\ f[x] <= Manji(b, DesniKraj(U, c[x])) - LijeviKraj(U, c[x])
  <2>1. f[x] = x.iznos
    BY <1>1 DEF IznosOd
  <2>2. PICK m, n : m = LijeviKraj(U, c[x]) /\ n = DesniKraj(U, c[x])
    OBVIOUS
  <2>3. m \in Nat /\ n \in Nat /\ x.iznos = Manji(b, n) - Veci(a, m) /\ x.iznos > 0
    BY <1>1, <1>2, <2>2
  <2>4. f[x] \in Nat /\ f[x] <= Manji(b, n) - a /\ f[x] <= Manji(b, n) - m
    BY <1>2, <2>1, <2>3 DEF Manji, Veci
  <2> QED
    BY <2>2, <2>4
<1> DEFINE Staje(w) == \E x \in w : ZbirNad(f, w) <= Manji(b, DesniKraj(U, c[x])) - a
           T == {w \in SUBSET Z : w # {} /\ ~Staje(w)}
<1>4. T = {}
  <2>1. SUFFICES ASSUME T # {} PROVE FALSE
    OBVIOUS
  <2>2. PICK w \in T : \A t \in T : t \subseteq w => t = w
    <3>1. T \in SUBSET SUBSET Z
      OBVIOUS
    <3> HIDE DEF T
    <3> QED
      BY <2>1, <3>1, NajmanjiPodskup
  <2>3. w \subseteq Z /\ w # {} /\ ~Staje(w) /\ IsFiniteSet(w)
    BY <2>2, FS_Subset
  <2> HIDE DEF Staje
  <2>4. PICK y \in w : \A x \in w \ {y} : Starija(c[x], c[y])
    <3>1. PICK S : S = {c[x] : x \in w}
      OBVIOUS
    <3>2. S \in SUBSET U /\ S # {}
      BY <2>3, <3>1
    <3>3. PICK m \in S : \A j \in S \ {m} : Starija(j, m)
      BY <3>2, PostojiNajstarija
    <3>4. PICK y \in w : m = c[y]
      BY <3>1, <3>3
    <3>5. ASSUME NEW x \in w \ {y} PROVE Starija(c[x], c[y])
      <4>1. c[x] # c[y] /\ c[x] \in S
        BY <2>3, <3>1, <3>4, <3>5
      <4> QED
        BY <3>3, <3>4, <4>1
    <3> QED
      BY <3>5
  <2>5. PICK u, n : u = w \ {y} /\ n = DesniKraj(U, c[y])
    OBVIOUS
  <2>6. /\ y \in Z /\ u \subseteq Z /\ u # w /\ u \subseteq w /\ IsFiniteSet(u)
        /\ n \in Nat
    BY <1>2, <2>3, <2>4, <2>5, FS_Subset
  <2>7. ZbirNad(f, w) = f[y] + ZbirNad(f, u) /\ ZbirNad(f, u) \in Nat
    <3>1. \A x \in w : f[x] \in Int
      BY <1>3, <2>3
    <3>2. \A x \in u : f[x] \in Nat
      BY <1>3, <2>6
    <3>3. ZbirNad(f, w) = f[y] + ZbirNad(f, u)
      BY <2>3, <2>4, <2>5, <3>1, ZbirBezElementa
    <3> QED
      BY <2>6, <3>2, <3>3, ZbirCio
  <2>8. ~(ZbirNad(f, w) <= Manji(b, n) - a)
    BY <2>3, <2>4, <2>5 DEF Staje
  <2>9. CASE u = {}
    <3>1. ZbirNad(f, u) = 0
      BY <2>9, ZbirPraznog
    <3>2. f[y] \in Nat /\ f[y] <= Manji(b, n) - a
      BY <1>3, <2>5, <2>6
    <3> QED
      BY <2>7, <2>8, <3>1, <3>2
  <2>10. CASE u # {}
    <3>1. Staje(u)
      BY <2>2, <2>6, <2>10
    <3>2. PICK x \in u : ZbirNad(f, u) <= Manji(b, DesniKraj(U, c[x])) - a
      BY <3>1 DEF Staje
    <3>3. PICK k, l : k = DesniKraj(U, c[x]) /\ l = LijeviKraj(U, c[y])
      OBVIOUS
    <3>4. k \in Nat /\ l \in Nat /\ k <= l
      <4>1. x \in Z /\ x # y /\ Starija(c[x], c[y]) /\ IstaStrana(c[x], c[y]) /\ c[x] # c[y]
        BY <2>4, <2>5, <2>6, <3>2
      <4>2. c[x] \in U /\ c[y] \in U
        BY <2>6, <4>1
      <4>3. DesniKraj(U, c[x]) <= LijeviKraj(U, c[y])
        BY <4>1, <4>2, Razdvojene
      <4> QED
        BY <1>2, <2>6, <3>3, <4>1, <4>3
    <3>5. f[y] \in Nat /\ f[y] <= Manji(b, n) - l
      BY <1>3, <2>5, <2>6, <3>3
    <3> QED
      BY <1>2, <2>6, <2>7, <2>8, <3>2, <3>3, <3>4, <3>5 DEF Manji
  <2> QED
    BY <2>9, <2>10
<1>5. ZbirIznosa(Z) = ZbirNad(f, Z)
  <2>1. \A x \in Z : f[x] = x.iznos
    BY <1>1 DEF IznosOd
  <2> QED
    BY <2>1, IznosiSuZbir
<1>6. b - a = Apsolutno(i.preostalo) /\ Apsolutno(i.preostalo) \in Nat
  BY <1>1, <1>2 DEF DesniKraj, Apsolutno, StavkePlana
<1>7. CASE Z = {}
  BY <1>6, <1>7, ZbirIznosaPraznog
<1>8. CASE Z # {}
  <2>1. Staje(Z)
    BY <1>4, <1>8
  <2>2. PICK x \in Z : ZbirNad(f, Z) <= Manji(b, DesniKraj(U, c[x])) - a
    BY <2>1
  <2>3. ZbirNad(f, Z) \in Nat /\ DesniKraj(U, c[x]) \in Nat
    BY <1>2, <1>3, ZbirCio
  <2> QED
    BY <1>2, <1>5, <1>6, <2>2, <2>3 DEF Manji
<1> QED
  BY <1>7, <1>8

\* Every pair of a plan takes from a debit and a credit of one card, and all the
\* pairs of an item together take no more than what remains of it.
PlanStaje(plan, U) ==
  \A q \in plan :
    \E i, j \in U :
      /\ i.id = q.d /\ j.id = q.p /\ i.kartica = j.kartica /\ q.iznos > 0
      /\ ZbirIznosa({x \in plan : x.d = q.d}) <= i.preostalo
      /\ ZbirIznosa({x \in plan : x.p = q.p}) <= -j.preostalo

LEMMA PlanPoStarostiStaje ==
  ASSUME NEW U, StavkePlana(U)
  PROVE  PlanStaje(PlanPoStarosti(U), U)
<1> DEFINE plan == PlanPoStarosti(U)
           Par2(x, i, j) ==
             /\ i \in Dugovne(U) /\ j \in Potrazne(U, i) /\ x.d = i.id /\ x.p = j.id
             /\ x.iznos = Manji(DesniKraj(U, i), DesniKraj(U, j))
                            - Veci(LijeviKraj(U, i), LijeviKraj(U, j))
             /\ x.iznos > 0
             /\ x = [d |-> x.d, p |-> x.p, iznos |-> x.iznos]
<1>1. \A x \in plan : \E i, j : Par2(x, i, j)
  <2>1. TAKE x \in plan
  <2>2. PICK i, j : /\ i \in Dugovne(U) /\ j \in Potrazne(U, i)
                    /\ LET y == Manji(DesniKraj(U, i), DesniKraj(U, j)) - Veci(LijeviKraj(U, i), LijeviKraj(U, j))
                       IN y > 0 /\ x = [d |-> i.id, p |-> j.id, iznos |-> y]
    BY PlanPojedinacno
  <2>3. Par2(x, i, j)
    BY <2>2
  <2> QED
    BY <2>3
<1>2. IsFiniteSet(plan)
  BY PlanPoStarostiPrirodan DEF PlanPrirodan
<1>3. ASSUME NEW i, NEW j, NEW x, Par2(x, i, j)
      PROVE  i \in U /\ j \in U /\ i.preostalo > 0 /\ j.preostalo < 0 /\ i.kartica = j.kartica
  BY <1>3 DEF Dugovne, Potrazne
<1>4. \A i, j \in U : i.id = j.id => i = j
  BY DEF StavkePlana
<1>5. ASSUME NEW x, NEW y, NEW i, NEW j, NEW k, NEW l, Par2(x, i, j), Par2(y, k, l)
      PROVE  /\ x.d = y.d => i = k
             /\ x.p = y.p => j = l
             /\ x.d = y.d /\ x.p = y.p => x = y
  <2>1. (x.d = y.d => i = k) /\ (x.p = y.p => j = l)
    BY <1>3, <1>4, <1>5
  <2>2. ASSUME i = k, j = l PROVE x = y
    BY <1>5, <2>2
  <2> QED
    BY <2>1, <2>2
<1> HIDE DEF plan
<1>6. SUFFICES ASSUME NEW q \in plan
               PROVE  \E i, j \in U :
                        /\ i.id = q.d /\ j.id = q.p /\ i.kartica = j.kartica /\ q.iznos > 0
                        /\ ZbirIznosa({x \in plan : x.d = q.d}) <= i.preostalo
                        /\ ZbirIznosa({x \in plan : x.p = q.p}) <= -j.preostalo
  BY DEF PlanStaje, plan
<1>7. PICK i, j : Par2(q, i, j)
  BY <1>1
<1>8. /\ i \in U /\ j \in U /\ i.preostalo > 0 /\ j.preostalo < 0 /\ i.kartica = j.kartica
      /\ i.id = q.d /\ j.id = q.p /\ q.iznos > 0 /\ i.preostalo \in Int /\ j.preostalo \in Int
  BY <1>3, <1>7 DEF StavkePlana
<1>9. ZbirIznosa({x \in plan : x.d = q.d}) <= Apsolutno(i.preostalo)
  <2>1. PICK Z : Z = {x \in plan : x.d = q.d}
    OBVIOUS
  <2>2. PICK c : c = [x \in Z |-> CHOOSE n : \E m : Par2(x, m, n)]
    OBVIOUS
  <2>3. ASSUME NEW x \in Z PROVE Par2(x, i, c[x])
    <3>1. PICK m, n : Par2(x, m, n)
      BY <1>1, <2>1
    <3>2. PICK k : Par2(x, k, c[x])
      BY <2>2, <3>1
    <3>3. k = i
      BY <1>5, <1>7, <2>1, <3>2
    <3> QED
      BY <3>2, <3>3
  <2>4. c \in [Z -> U]
    BY <1>3, <2>2, <2>3
  <2>5. ASSUME NEW x \in Z, NEW y \in Z
        PROVE  IstaStrana(c[x], c[y]) /\ (c[x] = c[y] => x = y)
    <3>1. Par2(x, i, c[x]) /\ Par2(y, i, c[y])
      BY <2>3
    <3>2. /\ c[x].preostalo < 0 /\ c[y].preostalo < 0 /\ c[x].kartica = c[y].kartica
          /\ c[x].preostalo \in Int /\ c[y].preostalo \in Int
      BY <1>3, <2>4, <3>1 DEF StavkePlana
    <3>3. c[x] = c[y] => x = y
      BY <3>1
    <3>4. IstaStrana(c[x], c[y])
      BY <3>2 DEF IstaStrana
    <3> QED
      BY <3>3, <3>4
  <2>6. \A x \in Z : /\ x.iznos = Manji(DesniKraj(U, i), DesniKraj(U, c[x]))
                                     - Veci(LijeviKraj(U, i), LijeviKraj(U, c[x]))
                     /\ x.iznos > 0
    BY <2>3
  <2>7. IsFiniteSet(Z)
    BY <1>2, <2>1, FS_Subset
  <2> HIDE DEF Par2
  <2>8. ZbirIznosa(Z) <= Apsolutno(i.preostalo)
    BY <1>8, <2>4, <2>5, <2>6, <2>7, PreklopiStaju
  <2> QED
    BY <2>1, <2>8
<1>10. ZbirIznosa({x \in plan : x.p = q.p}) <= Apsolutno(j.preostalo)
  <2>1. PICK Z : Z = {x \in plan : x.p = q.p}
    OBVIOUS
  <2>2. PICK c : c = [x \in Z |-> CHOOSE m : \E n : Par2(x, m, n)]
    OBVIOUS
  <2>3. ASSUME NEW x \in Z PROVE Par2(x, c[x], j)
    <3>1. PICK m, n : Par2(x, m, n)
      BY <1>1, <2>1
    <3>2. PICK k : Par2(x, c[x], k)
      BY <2>2, <3>1
    <3>3. k = j
      BY <1>5, <1>7, <2>1, <3>2
    <3> QED
      BY <3>2, <3>3
  <2>4. c \in [Z -> U]
    BY <1>3, <2>2, <2>3
  <2>5. ASSUME NEW x \in Z, NEW y \in Z
        PROVE  IstaStrana(c[x], c[y]) /\ (c[x] = c[y] => x = y)
    <3>1. Par2(x, c[x], j) /\ Par2(y, c[y], j)
      BY <2>3
    <3>2. c[x].preostalo > 0 /\ c[y].preostalo > 0 /\ c[x].kartica = c[y].kartica
      BY <1>3, <3>1
    <3>3. c[x] = c[y] => x = y
      BY <3>1
    <3>4. IstaStrana(c[x], c[y])
      BY <3>2 DEF IstaStrana
    <3> QED
      BY <3>3, <3>4
  <2>6. \A x \in Z : /\ x.iznos = Manji(DesniKraj(U, j), DesniKraj(U, c[x]))
                                     - Veci(LijeviKraj(U, j), LijeviKraj(U, c[x]))
                     /\ x.iznos > 0
    <3>1. TAKE x \in Z
    <3>2. PICK a, b, e, f : /\ a = LijeviKraj(U, j) /\ b = DesniKraj(U, j)
                            /\ e = LijeviKraj(U, c[x]) /\ f = DesniKraj(U, c[x])
      OBVIOUS
    <3>3. a \in Nat /\ b \in Nat /\ e \in Nat /\ f \in Nat
      BY <1>8, <2>4, <3>2, Krajevi
    <3>4. Manji(b, f) = Manji(f, b) /\ Veci(a, e) = Veci(e, a)
      BY <3>3 DEF Manji, Veci
    <3>5. x.iznos = Manji(f, b) - Veci(e, a) /\ x.iznos > 0
      BY <2>3, <3>2
    <3> QED
      BY <3>2, <3>4, <3>5
  <2>7. IsFiniteSet(Z)
    BY <1>2, <2>1, FS_Subset
  <2> HIDE DEF Par2
  <2>8. ZbirIznosa(Z) <= Apsolutno(j.preostalo)
    BY <1>8, <2>4, <2>5, <2>6, <2>7, PreklopiStaju
  <2> QED
    BY <2>1, <2>8
<1> QED
  <2>1. Apsolutno(i.preostalo) = i.preostalo /\ Apsolutno(j.preostalo) = -j.preostalo
    BY <1>8 DEF Apsolutno
  <2> QED
    BY <1>8, <1>9, <1>10, <2>1

\* The exact plan settles an item at most once, and with it the whole of both.
TacnoPoJednom(S) ==
  \A q \in PlanTacno(S) :
    /\ \E i, j \in S : /\ q.d = i.id /\ q.p = j.id /\ i.kartica = j.kartica
                       /\ q.iznos = i.preostalo /\ q.iznos = -j.preostalo /\ q.iznos > 0
    /\ \A z \in PlanTacno(S) : q.d = z.d \/ q.p = z.p => q = z

\* exactSettlementPlan pairs a debit and a credit of one card whose whole amounts
\* cancel, and names neither of them in another pair.
THEOREM TacniPlanPoJednom == \A S : StavkePlana(S) => TacnoPoJednom(S)
<1>1. SUFFICES ASSUME NEW S, StavkePlana(S) PROVE TacnoPoJednom(S)
  OBVIOUS
<1> DEFINE cand == {i \in S : i.preostalo # 0}
           Parnjaci(i) == {j \in cand : i.kartica = j.kartica /\ i.preostalo = -j.preostalo}
           Par2(i, j) == /\ i \in cand /\ i.preostalo > 0 /\ j \in Parnjaci(i)
                         /\ \A k \in Parnjaci(i) : k = j
                         /\ \A k \in Parnjaci(j) : k = i
<1>2. ASSUME NEW i \in S, Cardinality(Parnjaci(i)) = 1, NEW j \in Parnjaci(i)
      PROVE  \A k \in Parnjaci(i) : k = j
  <2>1. IsFiniteSet(Parnjaci(i))
    <3>1. Parnjaci(i) \subseteq S /\ IsFiniteSet(S)
      BY <1>1 DEF StavkePlana
    <3> QED
      BY <3>1, FS_Subset
  <2>2. PICK x : Parnjaci(i) = {x}
    BY <1>2, <2>1, FS_Singleton
  <2> QED
    BY <1>2, <2>2
<1>3. ASSUME NEW q \in PlanTacno(S)
      PROVE  \E i, j \in S : Par2(i, j) /\ q = [d |-> i.id, p |-> j.id, iznos |-> i.preostalo]
  <2>1. PICK i, j : /\ i \in cand /\ i.preostalo > 0 /\ j \in Parnjaci(i)
                    /\ Cardinality(Parnjaci(i)) = 1 /\ Cardinality(Parnjaci(j)) = 1
                    /\ q = [d |-> i.id, p |-> j.id, iznos |-> i.preostalo]
    BY <1>3 DEF PlanTacno
  <2>2. i \in S /\ j \in S /\ i \in Parnjaci(j)
    BY <1>1, <2>1 DEF StavkePlana
  <2>3. \A k \in Parnjaci(i) : k = j
    BY <1>2, <2>1, <2>2
  <2>4. \A k \in Parnjaci(j) : k = i
    BY <1>2, <2>1, <2>2
  <2>5. Par2(i, j)
    BY <2>1, <2>3, <2>4
  <2> QED
    BY <2>1, <2>2, <2>5
<1>4. ASSUME NEW i \in S, NEW j \in S, NEW k \in S, NEW l \in S,
             Par2(i, j), Par2(k, l), i = k \/ j = l
      PROVE  i = k /\ j = l
  <2>1. i \in Parnjaci(j) /\ k \in Parnjaci(l)
    BY <1>1, <1>4 DEF StavkePlana
  <2> HIDE DEF Parnjaci
  <2>2. CASE i = k
    BY <1>4, <2>2
  <2>3. CASE j = l
    BY <1>4, <2>1, <2>3
  <2> QED
    BY <1>4, <2>2, <2>3
<1>5. \A i, j \in S : Par2(i, j) => /\ i.kartica = j.kartica /\ i.preostalo > 0
                                    /\ i.preostalo = -j.preostalo
  OBVIOUS
<1> HIDE DEF Par2
<1>6. ASSUME NEW q \in PlanTacno(S), NEW z \in PlanTacno(S), q.d = z.d \/ q.p = z.p
      PROVE  q = z
  <2>1. PICK i, j \in S : Par2(i, j) /\ q = [d |-> i.id, p |-> j.id, iznos |-> i.preostalo]
    BY <1>3
  <2>2. PICK k, l \in S : Par2(k, l) /\ z = [d |-> k.id, p |-> l.id, iznos |-> k.preostalo]
    BY <1>3
  <2>3. i = k \/ j = l
    BY <1>1, <1>6, <2>1, <2>2 DEF StavkePlana
  <2>4. i = k /\ j = l
    BY <1>4, <2>1, <2>2, <2>3
  <2> QED
    BY <2>1, <2>2, <2>4
<1>7. ASSUME NEW q \in PlanTacno(S)
      PROVE  \E i, j \in S : /\ q.d = i.id /\ q.p = j.id /\ i.kartica = j.kartica
                             /\ q.iznos = i.preostalo /\ q.iznos = -j.preostalo /\ q.iznos > 0
  <2>1. PICK i, j \in S : Par2(i, j) /\ q = [d |-> i.id, p |-> j.id, iznos |-> i.preostalo]
    BY <1>3
  <2>2. /\ q.d = i.id /\ q.p = j.id /\ i.kartica = j.kartica
        /\ q.iznos = i.preostalo /\ q.iznos = -j.preostalo /\ q.iznos > 0
    BY <1>5, <2>1
  <2> QED
    BY <2>2
<1> QED
  BY <1>6, <1>7 DEF TacnoPoJednom

\* So an exact plan takes no more than what remains either.
LEMMA PlanTacnoStaje ==
  ASSUME NEW S, StavkePlana(S)
  PROVE  PlanStaje(PlanTacno(S), S)
<1>1. PICK plan : plan = PlanTacno(S)
  OBVIOUS
<1>2. SUFFICES ASSUME NEW q \in plan
               PROVE  \E i, j \in S :
                        /\ i.id = q.d /\ j.id = q.p /\ i.kartica = j.kartica /\ q.iznos > 0
                        /\ ZbirIznosa({x \in plan : x.d = q.d}) <= i.preostalo
                        /\ ZbirIznosa({x \in plan : x.p = q.p}) <= -j.preostalo
  BY <1>1 DEF PlanStaje
<1>3. /\ \E i, j \in S : /\ q.d = i.id /\ q.p = j.id /\ i.kartica = j.kartica
                         /\ q.iznos = i.preostalo /\ q.iznos = -j.preostalo /\ q.iznos > 0
      /\ \A z \in plan : q.d = z.d \/ q.p = z.p => q = z
  BY <1>1, TacniPlanPoJednom DEF TacnoPoJednom
<1>4. PICK i, j \in S : /\ q.d = i.id /\ q.p = j.id /\ i.kartica = j.kartica
                        /\ q.iznos = i.preostalo /\ q.iznos = -j.preostalo /\ q.iznos > 0
  BY <1>3
<1>5. {x \in plan : x.d = q.d} = {q} /\ {x \in plan : x.p = q.p} = {q}
  BY <1>3
<1>6. ZbirIznosa({q}) = q.iznos
  <2>1. PICK f : f = [x \in {q} |-> x.iznos]
    OBVIOUS
  <2>2. f[q] = q.iznos /\ f[q] \in Int
    BY <1>4, <2>1 DEF StavkePlana
  <2>3. ZbirIznosa({q}) = ZbirNad(f, {q})
    BY <2>1, FS_Singleton, IznosiSuZbir
  <2> QED
    BY <2>2, <2>3, ZbirJednog
<1>7. q.iznos \in Int /\ i.preostalo \in Int /\ j.preostalo \in Int
  BY <1>4 DEF StavkePlana
<1>8. /\ ZbirIznosa({x \in plan : x.d = q.d}) <= i.preostalo
      /\ ZbirIznosa({x \in plan : x.p = q.p}) <= -j.preostalo
  <2>1. q.iznos <= i.preostalo /\ q.iznos <= -j.preostalo
    BY <1>4, <1>7
  <2>2. ZbirIznosa({q}) <= i.preostalo /\ ZbirIznosa({q}) <= -j.preostalo
    BY <1>6, <2>1
  <2> QED
    BY <1>5, <2>2, Zenon
<1> QED
  <2>1. /\ i.id = q.d /\ j.id = q.p /\ i.kartica = j.kartica /\ q.iznos > 0
        /\ ZbirIznosa({x \in plan : x.d = q.d}) <= i.preostalo
        /\ ZbirIznosa({x \in plan : x.p = q.p}) <= -j.preostalo
    BY <1>4, <1>8
  <2> QED
    BY <2>1, Zenon

---------------------------------------------------------------------------
(* The ledger's proposals pass its own check *)

\* A posted journal is dated in its year, as postJournal checks.
KnjizeniUGodini == \A n \in Nalog : Proknjizen(n) => DatumUGodini(nalozi[n].datum, nalozi[n].godina)

LEMMA KorakCuvaDatume == IInv /\ KnjizeniUGodini /\ [Next]_vars => KnjizeniUGodini'
<1> SUFFICES ASSUME IInv, KnjizeniUGodini, [Next]_vars, NEW n \in Nalog, Proknjizen(n)'
             PROVE  DatumUGodini(nalozi'[n].datum, nalozi'[n].godina)
  BY DEF KnjizeniUGodini, DatumUGodini, DatumOd, DatumDo
<1>1. CASE nalozi'[n] = nalozi[n]
  BY <1>1 DEF KnjizeniUGodini, Proknjizen
<1>2. CASE /\ SmijeSeKnjiziti(n)
           /\ nalozi'[n] = [nalozi[n] EXCEPT !.status = "POSTED"]
  <2>1. nalozi'[n].datum = nalozi[n].datum /\ nalozi'[n].godina = nalozi[n].godina
    BY <1>2 DEF IInv, TypeOK, NalogTip
  <2> QED
    BY <1>2, <2>1 DEF SmijeSeKnjiziti
<1> QED
  BY <1>1, <1>2, KorakKnjizi, BezZahtjeva DEF Proknjizen

\* No item of the ledger is later than its cutoff: a carried line is of an
\* earlier year than the opening journal that brings it.
LEMMA KnjigaDoDatuma ==
  ASSUME IInv, KnjizeniUGodini, NEW g \in Godina, NEW d \in Datum,
         NEW i \in Knjiga(g, d, prenosi)
  PROVE  d >= i.datum
<1>1. PICK s \in StavkeKnjige(g, d, prenosi) : i = SnimakStavke(s, d)
  BY DEF Knjiga
<1>2. PICK m : m = stavke[s].nalog /\ i.datum = nalozi[m].datum
  BY <1>1 DEF SnimakStavke
<1>3. d \in Int /\ g \in Int
  BY DEF Datum, Godina
<1>4. CASE s \in Direktne(g, d)
  <2>1. m \in Nalog /\ nalozi[m].datum <= d
    BY <1>2, <1>4 DEF Direktne, IInv, TypeOK, JeStavka
  <2>2. nalozi[m].datum \in Int
    BY <2>1 DEF IInv, TypeOK, NalogTip, Datum
  <2> QED
    BY <1>2, <1>3, <2>1, <2>2
<1>5. CASE s \in IzvorneStavke(g, d, prenosi)
  <2>1. PICK p \in prenosi : /\ p[2] = s /\ Proknjizen(p[1])
                             /\ nalozi[p[1]].godina = g /\ nalozi[p[1]].datum <= d
    BY <1>5 DEF IzvorneStavke, Prenesene
  <2>2. PICK n : n = p[1]
    OBVIOUS
  <2>3. n \in Nalog /\ s \in Stavka /\ Proknjizen(m) /\ m # Nema /\ nalozi[m].godina < g
    BY <1>2, <2>1, <2>2 DEF IInv, TypeOK, PrenosiIspravni
  <2>4. m \in Nalog
    BY <1>2, <2>3 DEF IInv, TypeOK, JeStavka
  <2>5. /\ nalozi[m].datum \in Int /\ nalozi[m].godina \in Int /\ nalozi[n].datum \in Int
        /\ nalozi[m].datum <= nalozi[m].godina * Perioda
        /\ (g - 1) * Perioda + 1 <= nalozi[n].datum /\ nalozi[n].datum <= d
    BY <2>1, <2>2, <2>3, <2>4
       DEF KnjizeniUGodini, DatumUGodini, DatumOd, DatumDo, IInv, TypeOK, NalogTip, Datum, Godina
  <2>6. PICK h, t : h = nalozi[m].godina /\ t = g - 1 - h
    OBVIOUS
  <2>7. h \in Int /\ t \in Nat /\ Perioda \in Nat /\ g - 1 = h + t
    BY <1>3, <2>3, <2>5, <2>6, BazaPretpostavke
  <2>8. h * Perioda <= (g - 1) * Perioda /\ h * Perioda \in Int /\ (g - 1) * Perioda \in Int
    <3>1. (h + t) * Perioda = h * Perioda + t * Perioda /\ t * Perioda \in Nat
      BY <2>7
    <3> QED
      BY <2>7, <3>1
  <2> QED
    BY <1>2, <1>3, <2>5, <2>6, <2>8
<1> QED
  BY <1>1, <1>4, <1>5 DEF StavkeKnjige

\* Whichever of the ledger's items are marked, the two proposals take from none
\* of them more than remains of it, and settle none before its date.
PredloziVaze ==
  \A g \in Godina, d \in Datum :
    \A S \in SUBSET Knjiga(g, d, prenosi) :
      /\ PlanVazi(Knjiga(g, d, prenosi), PlanPoStarosti(S), d)
      /\ PlanVazi(Knjiga(g, d, prenosi), PlanTacno(S), d)

LEMMA PlanKojiStajeVazi ==
  ASSUME NEW items, NEW S \in SUBSET items, NEW plan, PlanStaje(plan, S),
         NEW d, \A i \in items : d >= i.datum
  PROVE  PlanVazi(items, plan, d)
<1>1. SUFFICES ASSUME NEW q \in plan
               PROVE  \E i, j \in items :
                        /\ i.id = q.d /\ j.id = q.p
                        /\ i.kartica = j.kartica /\ q.iznos > 0
                        /\ d >= i.datum /\ d >= j.datum
                        /\ ZbirIznosa({x \in plan : x.d = q.d}) <= i.preostalo
                        /\ ZbirIznosa({x \in plan : x.p = q.p}) <= -j.preostalo
  BY DEF PlanVazi
<1>2. PICK i, j \in S :
        /\ i.id = q.d /\ j.id = q.p /\ i.kartica = j.kartica /\ q.iznos > 0
        /\ ZbirIznosa({x \in plan : x.d = q.d}) <= i.preostalo
        /\ ZbirIznosa({x \in plan : x.p = q.p}) <= -j.preostalo
  BY DEF PlanStaje
<1> QED
  BY <1>2

\* The first check of writeSettlementPair, against the items that the ledger
\* loaded, never refuses a plan that exactSettlementPlan or oldestSettlementPlan
\* made of them: only the second reading can.
THEOREM PredlogProlaziProvjeru == Spec => []PredloziVaze
<1>1. Init => KnjizeniUGodini
  BY DEF Init, KnjizeniUGodini, Proknjizen, PrazanNalog
<1>2. IInv /\ Cijelo /\ KnjizeniUGodini => PredloziVaze
  <2>1. SUFFICES ASSUME IInv, Cijelo, KnjizeniUGodini, NEW g \in Godina, NEW d \in Datum,
                        NEW items, items = Knjiga(g, d, prenosi), NEW S \in SUBSET items
                 PROVE  /\ PlanVazi(items, PlanPoStarosti(S), d)
                        /\ PlanVazi(items, PlanTacno(S), d)
    BY DEF PredloziVaze
  <2>2. StavkePlana(S)
    BY <2>1, KnjigaJeCijela, DioStavkiPlana
  <2>3. \A i \in items : d >= i.datum
    BY <2>1, KnjigaDoDatuma
  <2>4. PlanStaje(PlanPoStarosti(S), S) /\ PlanStaje(PlanTacno(S), S)
    BY <2>2, PlanPoStarostiStaje, PlanTacnoStaje
  <2> QED
    BY <2>1, <2>3, <2>4, PlanKojiStajeVazi
<1>3. Spec => [](IInv /\ Cijelo /\ KnjizeniUGodini)
  BY <1>1, PocetakCijelog, KorakCuvaCijelo, KorakCuvaDatume, Induktivna, PTL DEF Spec
<1> QED
  BY <1>2, <1>3, PTL

---------------------------------------------------------------------------
(* The loops of oldestSettlementPlan *)

\* What is left of the interval from a to b when p of its card is settled.
Ostatak(a, b, p) == IF p <= a THEN b - a ELSE IF p <= b THEN b - p ELSE 0

\* How much of the first p of their card two items settle together.
Zajedno(U, i, j, p) ==
  Manji(Manji(DesniKraj(U, i), DesniKraj(U, j)), p) - Veci(LijeviKraj(U, i), LijeviKraj(U, j))
UpisaniPar(U, i, j, p) == [d |-> i.id, p |-> j.id, iznos |-> Zajedno(U, i, j, p)]

\* P says how much of every card is settled: up to the end of some item, if any;
NaGranici(U, P) ==
  \A k \in Kartice : P[k] = 0 \/ \E i \in U : i.kartica = k /\ DesniKraj(U, i) = P[k]

\* the remaining amounts are what lies beyond it,
Poravnato(U, P) ==
  \A i \in U :
    LET o == Ostatak(LijeviKraj(U, i), DesniKraj(U, i), P[i.kartica])
    IN preostalo[i.id] = IF i.preostalo > 0 THEN o ELSE -o

\* and the pairs what debits and credits settle together before it.
ParoviDo(U, P) ==
  UNION {{UpisaniPar(U, i, j, P[i.kartica]) :
            j \in {j \in Potrazne(U, i) : Zajedno(U, i, j, P[i.kartica]) > 0}} : i \in Dugovne(U)}

\* Debits are visited oldest first, and one that was visited is settled, or its
\* card's credits are used up.
Pokriven(U, i, P) ==
  DesniKraj(U, i) <= P[i.kartica] \/ \A j \in Potrazne(U, i) : DesniKraj(U, j) <= P[i.kartica]
Posjecene(P) ==
  /\ duguje \subseteq Dugovne(ulaz)
  /\ \A i \in Dugovne(ulaz) \ duguje : Pokriven(ulaz, i, P) /\ \A m \in duguje : Starija(i, m)

\* A credit that the current debit is past is used up, or the debit is settled.
PotraznaProsla(U, d, P, S) ==
  /\ S \subseteq Potrazne(U, d)
  /\ \A j \in Potrazne(U, d) \ S : DesniKraj(U, j) <= P[d.kartica] \/ DesniKraj(U, d) <= P[d.kartica]
Tekuca(P) == duguje # {} => PotraznaProsla(ulaz, Najstarija(duguje), P, potrazuje)

UlazPetlje == \A i \in ulaz : i.id \in Stavke /\ i.kartica \in Kartice

PetljaInv(P) ==
  /\ UlazPetlje
  /\ P \in [Kartice -> Nat] /\ preostalo \in [Stavke -> Int]
  /\ NaGranici(ulaz, P) /\ Poravnato(ulaz, P) /\ rezultat = ParoviDo(ulaz, P)
  /\ Posjecene(P) /\ Tekuca(P)

PetljaIInv == StavkePlana(ulaz) /\ \E P : PetljaInv(P)

\* The loops' items have ids and cards of the instance.
LEMMA Ulazna ==
  ASSUME NEW P, PetljaInv(P), NEW i \in ulaz
  PROVE  i.id \in Stavke /\ i.kartica \in Kartice /\ preostalo[i.id] \in Int
BY DEF PetljaInv, UlazPetlje

\* What remains of an item tells whether it is used up.
LEMMA PreostaloGovori ==
  ASSUME StavkePlana(ulaz), NEW P, PetljaInv(P), NEW i \in ulaz
  PROVE  /\ P[i.kartica] \in Nat
         /\ i.preostalo > 0 => /\ preostalo[i.id] >= 0
                               /\ preostalo[i.id] > 0 <=> P[i.kartica] < DesniKraj(ulaz, i)
         /\ ~(i.preostalo > 0) => preostalo[i.id] <= 0
         /\ i.preostalo < 0 => (preostalo[i.id] < 0 <=> P[i.kartica] < DesniKraj(ulaz, i))
         /\ i.preostalo = 0 => preostalo[i.id] = 0
<1>1. PICK a, b, p, x, r : /\ a = LijeviKraj(ulaz, i) /\ b = DesniKraj(ulaz, i) /\ p = P[i.kartica]
                           /\ x = i.preostalo /\ r = preostalo[i.id]
  OBVIOUS
<1>2. a \in Nat /\ b \in Nat /\ a <= b /\ p \in Nat /\ (x # 0 => a < b)
  BY <1>1, Krajevi, Ulazna DEF PetljaInv
<1>3. r = IF x > 0 THEN Ostatak(a, b, p) ELSE -Ostatak(a, b, p)
  BY <1>1 DEF PetljaInv, Poravnato
<1>4. x \in Int
  BY <1>1 DEF StavkePlana
<1>5. x = 0 => a = b
  BY <1>1, <1>2 DEF DesniKraj, Apsolutno
<1>6. /\ x > 0 => r >= 0 /\ (r > 0 <=> p < b)
      /\ ~(x > 0) => r <= 0
      /\ x < 0 => (r < 0 <=> p < b)
      /\ x = 0 => r = 0
  <2>1. PICK o : o = Ostatak(a, b, p)
    OBVIOUS
  <2>2. o \in Int /\ o >= 0 /\ (p < b /\ a < b => o > 0) /\ (b <= p => o = 0) /\ (a = b => o = 0)
    BY <1>2, <2>1 DEF Ostatak
  <2>3. r = IF x > 0 THEN o ELSE -o
    BY <1>3, <2>1
  <2> QED
    BY <1>2, <1>4, <1>5, <2>2, <2>3
<1> QED
  BY <1>1, <1>2, <1>6, Zenon

\* Where the card stands when the current debit and credit both have something
\* left: within both, at the later of their beginnings.
NaCelu(d, c, p) ==
  /\ d \in Dugovne(ulaz) /\ c \in Potrazne(ulaz, d)
  /\ LijeviKraj(ulaz, d) <= p /\ p < DesniKraj(ulaz, d)
  /\ LijeviKraj(ulaz, c) <= p /\ p < DesniKraj(ulaz, c)
  /\ p = Veci(LijeviKraj(ulaz, d), LijeviKraj(ulaz, c))
  /\ preostalo[d.id] = DesniKraj(ulaz, d) - p /\ -preostalo[c.id] = DesniKraj(ulaz, c) - p

LEMMA NaCeluPar ==
  ASSUME StavkePlana(ulaz), NEW P, PetljaInv(P), duguje # {}, potrazuje # {},
         NEW d, d = Najstarija(duguje), NEW c, c = Najstarija(potrazuje),
         preostalo[d.id] > 0, preostalo[c.id] < 0
  PROVE  NaCelu(d, c, P[d.kartica])
<1>1. /\ duguje \subseteq Dugovne(ulaz) /\ Dugovne(ulaz) \subseteq ulaz
      /\ d \in duguje /\ \A j \in duguje \ {d} : Starija(d, j)
  <2>1. duguje \subseteq Dugovne(ulaz) /\ Dugovne(ulaz) \subseteq ulaz
    BY DEF PetljaInv, Posjecene, Dugovne
  <2> QED
    BY <2>1, PostojiNajstarija
<1>2. /\ potrazuje \subseteq Potrazne(ulaz, d) /\ Potrazne(ulaz, d) \subseteq ulaz
      /\ c \in potrazuje /\ \A j \in potrazuje \ {c} : Starija(c, j)
  <2>1. potrazuje \subseteq Potrazne(ulaz, d) /\ Potrazne(ulaz, d) \subseteq ulaz
    BY DEF PetljaInv, Tekuca, PotraznaProsla, Potrazne
  <2> QED
    BY <2>1, PostojiNajstarija
<1>3. d \in ulaz /\ d.preostalo > 0 /\ c \in ulaz /\ c.preostalo < 0 /\ c.kartica = d.kartica
  BY <1>1, <1>2 DEF Dugovne, Potrazne
<1>4. PICK p : p = P[d.kartica] /\ p = P[c.kartica]
  BY <1>3
<1>5. /\ p \in Nat /\ p < DesniKraj(ulaz, d) /\ p < DesniKraj(ulaz, c)
      /\ LijeviKraj(ulaz, d) \in Nat /\ DesniKraj(ulaz, d) \in Nat /\ LijeviKraj(ulaz, c) \in Nat /\ DesniKraj(ulaz, c) \in Nat
  <2>1. p \in Nat /\ p < DesniKraj(ulaz, d) /\ p < DesniKraj(ulaz, c)
    BY <1>3, <1>4, PreostaloGovori
  <2> QED
    BY <1>3, <2>1, Krajevi
<1>6. LijeviKraj(ulaz, d) <= p
  <2>1. SUFFICES ASSUME NEW m \in Ispred(ulaz, d), DesniKraj(ulaz, m) = LijeviKraj(ulaz, d), m.preostalo # 0
                 PROVE  DesniKraj(ulaz, m) <= p
    BY <1>3, <1>5, JednaZaDrugom
  <2>2. m \in ulaz /\ m.kartica = d.kartica /\ m.preostalo > 0 /\ Starija(m, d)
    BY <1>3 DEF Ispred
  <2>3. m \in Dugovne(ulaz) \ duguje
    BY <1>1, <1>3, <2>2, RedosljedStavki DEF Dugovne
  <2>4. Pokriven(ulaz, m, P)
    BY <2>3 DEF PetljaInv, Posjecene
  <2>5. c \in Potrazne(ulaz, m)
    BY <1>3, <2>2 DEF Potrazne
  <2>6. DesniKraj(ulaz, m) <= P[m.kartica] \/ DesniKraj(ulaz, c) <= P[m.kartica]
    BY <2>4, <2>5 DEF Pokriven
  <2>7. P[m.kartica] = p
    BY <1>4, <2>2
  <2> QED
    BY <1>5, <2>6, <2>7
<1>7. LijeviKraj(ulaz, c) <= p
  <2>1. SUFFICES ASSUME NEW m \in Ispred(ulaz, c), DesniKraj(ulaz, m) = LijeviKraj(ulaz, c), m.preostalo # 0
                 PROVE  DesniKraj(ulaz, m) <= p
    BY <1>3, <1>5, JednaZaDrugom
  <2>2. m \in ulaz /\ m.kartica = d.kartica /\ ~(m.preostalo > 0) /\ Starija(m, c)
    BY <1>3 DEF Ispred, StavkePlana
  <2>3. m.preostalo < 0
    BY <2>1, <2>2 DEF StavkePlana
  <2>4. m \in Potrazne(ulaz, d) \ potrazuje
    BY <1>2, <1>3, <2>2, <2>3, RedosljedStavki DEF Potrazne
  <2>5. DesniKraj(ulaz, m) <= P[d.kartica] \/ DesniKraj(ulaz, d) <= P[d.kartica]
    BY <2>4 DEF PetljaInv, Tekuca, PotraznaProsla
  <2> QED
    BY <1>4, <1>5, <2>5
<1>8. p = Veci(LijeviKraj(ulaz, d), LijeviKraj(ulaz, c))
  <2>1. CASE p = 0
    BY <1>5, <1>6, <1>7, <2>1 DEF Veci
  <2>2. CASE p # 0
    <3>1. d.kartica \in Kartice
      BY <1>3, Ulazna
    <3>2. PICK m \in ulaz : m.kartica = d.kartica /\ DesniKraj(ulaz, m) = p
      BY <1>4, <2>2, <3>1 DEF PetljaInv, NaGranici
    <3>3. m # d /\ m # c /\ LijeviKraj(ulaz, m) \in Nat /\ LijeviKraj(ulaz, m) <= p
      BY <1>5, <3>2, Krajevi
    <3>4. CASE m.preostalo > 0
      <4>1. IstaStrana(m, d)
        BY <1>3, <3>2, <3>4 DEF IstaStrana
      <4>2. DesniKraj(ulaz, m) <= LijeviKraj(ulaz, d) \/ DesniKraj(ulaz, d) <= LijeviKraj(ulaz, m)
        BY <1>3, <3>3, <4>1, Razdvojene
      <4> QED
        BY <1>5, <1>6, <1>7, <3>2, <3>3, <4>2 DEF Veci
    <3>5. CASE ~(m.preostalo > 0)
      <4>1. IstaStrana(m, c)
        BY <1>3, <3>2, <3>5 DEF IstaStrana, StavkePlana
      <4>2. DesniKraj(ulaz, m) <= LijeviKraj(ulaz, c) \/ DesniKraj(ulaz, c) <= LijeviKraj(ulaz, m)
        BY <1>3, <3>3, <4>1, Razdvojene
      <4> QED
        BY <1>5, <1>6, <1>7, <3>2, <3>3, <4>2 DEF Veci
    <3> QED
      BY <3>4, <3>5
  <2> QED
    BY <2>1, <2>2
<1>9. preostalo[d.id] = DesniKraj(ulaz, d) - p /\ -preostalo[c.id] = DesniKraj(ulaz, c) - p
  <2>1. preostalo[d.id] = Ostatak(LijeviKraj(ulaz, d), DesniKraj(ulaz, d), p)
    BY <1>3, <1>4 DEF PetljaInv, Poravnato
  <2>2. preostalo[c.id] = -Ostatak(LijeviKraj(ulaz, c), DesniKraj(ulaz, c), p)
    BY <1>3, <1>4 DEF PetljaInv, Poravnato, StavkePlana
  <2> QED
    BY <1>5, <1>6, <1>7, <2>1, <2>2 DEF Ostatak
<1> QED
  BY <1>1, <1>2, <1>4, <1>5, <1>6, <1>7, <1>8, <1>9 DEF NaCelu

\* The pairs, one by one.
LEMMA ParoviPojedinacno ==
  ASSUME NEW U, NEW P, NEW z
  PROVE  z \in ParoviDo(U, P) <=>
           \E i \in Dugovne(U) : \E j \in Potrazne(U, i) :
             Zajedno(U, i, j, P[i.kartica]) > 0 /\ z = UpisaniPar(U, i, j, P[i.kartica])
BY DEF ParoviDo

\* Nothing else of the card lies where the current pair settles.
LEMMA OstaleStavke ==
  ASSUME StavkePlana(ulaz), NEW d, NEW c, NEW p \in Nat, NaCelu(d, c, p),
         NEW q, q = Manji(DesniKraj(ulaz, d), DesniKraj(ulaz, c)),
         NEW i \in ulaz, i.kartica = d.kartica, i # d, i # c
  PROVE  DesniKraj(ulaz, i) <= p \/ q <= LijeviKraj(ulaz, i)
<1>1. /\ d \in ulaz /\ d.preostalo > 0 /\ c \in ulaz /\ c.preostalo < 0 /\ c.kartica = d.kartica
      /\ LijeviKraj(ulaz, d) <= p /\ LijeviKraj(ulaz, c) <= p
  BY DEF NaCelu, Dugovne, Potrazne
<1>2. /\ LijeviKraj(ulaz, d) \in Nat /\ DesniKraj(ulaz, d) \in Nat /\ LijeviKraj(ulaz, c) \in Nat /\ DesniKraj(ulaz, c) \in Nat
      /\ LijeviKraj(ulaz, i) \in Nat /\ DesniKraj(ulaz, i) \in Nat /\ i.preostalo \in Int
  BY <1>1, Krajevi DEF StavkePlana
<1>3. CASE i.preostalo > 0
  <2>1. IstaStrana(i, d)
    BY <1>1, <1>3 DEF IstaStrana
  <2>2. DesniKraj(ulaz, i) <= LijeviKraj(ulaz, d) \/ DesniKraj(ulaz, d) <= LijeviKraj(ulaz, i)
    BY <1>1, <2>1, Razdvojene
  <2> QED
    BY <1>1, <1>2, <2>2 DEF Manji
<1>4. CASE ~(i.preostalo > 0)
  <2>1. IstaStrana(i, c)
    BY <1>1, <1>4 DEF IstaStrana, StavkePlana
  <2>2. DesniKraj(ulaz, i) <= LijeviKraj(ulaz, c) \/ DesniKraj(ulaz, c) <= LijeviKraj(ulaz, i)
    BY <1>1, <2>1, Razdvojene
  <2> QED
    BY <1>1, <1>2, <2>2 DEF Manji
<1> QED
  BY <1>3, <1>4

\* A pair with an item that lies elsewhere settles no more than before.
LEMMA ZajednoStoji ==
  ASSUME StavkePlana(ulaz), NEW i \in ulaz, NEW j \in ulaz, NEW p \in Nat, NEW q \in Nat, p <= q,
         DesniKraj(ulaz, i) <= p \/ q <= LijeviKraj(ulaz, i) \/ DesniKraj(ulaz, j) <= p \/ q <= LijeviKraj(ulaz, j)
  PROVE  \/ Zajedno(ulaz, i, j, p) = Zajedno(ulaz, i, j, q)
         \/ ~(Zajedno(ulaz, i, j, p) > 0) /\ ~(Zajedno(ulaz, i, j, q) > 0)
<1>1. PICK a, b, e, f : /\ a = LijeviKraj(ulaz, i) /\ b = DesniKraj(ulaz, i)
                        /\ e = LijeviKraj(ulaz, j) /\ f = DesniKraj(ulaz, j)
  OBVIOUS
<1>2. a \in Nat /\ b \in Nat /\ e \in Nat /\ f \in Nat
  BY <1>1, Krajevi
<1>3. PICK m, v : m = Manji(b, f) /\ v = Veci(a, e)
  OBVIOUS
<1>4. /\ m \in Nat /\ v \in Nat /\ m <= b /\ m <= f /\ a <= v /\ e <= v
  BY <1>2, <1>3 DEF Manji, Veci
<1>5. /\ Zajedno(ulaz, i, j, p) = Manji(m, p) - v
      /\ Zajedno(ulaz, i, j, q) = Manji(m, q) - v
  BY <1>1, <1>3 DEF Zajedno
<1>6. m <= p \/ q <= v
  BY <1>1, <1>2, <1>4
<1> QED
  BY <1>4, <1>5, <1>6 DEF Manji

\* The current pair settles what both still have, and its card is settled up to
\* the nearer of their ends.
LEMMA PlacenPar ==
  ASSUME StavkePlana(ulaz), NEW P, PetljaInv(P), duguje # {},
         NEW d, d = Najstarija(duguje), NEW c \in potrazuje,
         NEW p, p = P[d.kartica], NaCelu(d, c, p),
         NEW q, q = Manji(DesniKraj(ulaz, d), DesniKraj(ulaz, c)),
         rezultat' = rezultat \cup {[d |-> d.id, p |-> c.id, iznos |-> q - p]},
         preostalo' = [preostalo EXCEPT ![d.id] = @ - (q - p), ![c.id] = @ + (q - p)],
         potrazuje' = potrazuje \ {c}, ulaz' = ulaz, duguje' = duguje
  PROVE  PetljaInv([P EXCEPT ![d.kartica] = q])'
<1>1. /\ d \in ulaz /\ d.preostalo > 0 /\ c \in ulaz /\ c.preostalo < 0 /\ c.kartica = d.kartica
      /\ d \in Dugovne(ulaz) /\ c \in Potrazne(ulaz, d) /\ d # c
  BY DEF NaCelu, Dugovne, Potrazne, StavkePlana
<1>2. /\ LijeviKraj(ulaz, d) \in Nat /\ DesniKraj(ulaz, d) \in Nat /\ LijeviKraj(ulaz, c) \in Nat /\ DesniKraj(ulaz, c) \in Nat
      /\ d.kartica \in Kartice /\ d.id \in Stavke /\ c.id \in Stavke
  BY <1>1, Krajevi, Ulazna
<1>3. p \in Nat /\ q \in Nat /\ p < q /\ q <= DesniKraj(ulaz, d) /\ q <= DesniKraj(ulaz, c)
  <2>1. p \in Nat
    BY <1>2 DEF PetljaInv
  <2> QED
    BY <1>2, <2>1 DEF NaCelu, Manji
<1>4. d.id # c.id
  BY <1>1 DEF StavkePlana
<1>5. PICK Q : Q = [P EXCEPT ![d.kartica] = q]
  OBVIOUS
<1>6. /\ Q \in [Kartice -> Nat] /\ Q[d.kartica] = q
      /\ \A k \in Kartice : k # d.kartica => Q[k] = P[k]
      /\ \A k \in Kartice : P[k] <= Q[k] /\ P[k] \in Nat /\ Q[k] \in Nat
  <2>1. P \in [Kartice -> Nat]
    BY DEF PetljaInv
  <2> QED
    BY <1>2, <1>3, <1>5, <2>1
<1>7. ASSUME NEW i \in ulaz, i # d, i # c, i.kartica = d.kartica
      PROVE  DesniKraj(ulaz, i) <= p \/ q <= LijeviKraj(ulaz, i)
  BY <1>3, <1>7, OstaleStavke
<1>8. preostalo' \in [Stavke -> Int]
  <2>1. preostalo \in [Stavke -> Int]
    BY DEF PetljaInv
  <2> QED
    BY <1>2, <1>3, <1>4, <2>1
<1>9. NaGranici(ulaz, Q)
  <2>1. q \in {DesniKraj(ulaz, d), DesniKraj(ulaz, c)}
    BY <1>2 DEF Manji
  <2>2. \E i \in ulaz : i.kartica = d.kartica /\ DesniKraj(ulaz, i) = Q[d.kartica]
    BY <1>1, <1>6, <2>1
  <2>3. NaGranici(ulaz, P)
    BY DEF PetljaInv
  <2> QED
    BY <1>6, <2>2, <2>3 DEF NaGranici
<1>10. Poravnato(ulaz, Q)'
  <2>1. ASSUME NEW i \in ulaz
        PROVE  preostalo'[i.id] = IF i.preostalo > 0
                 THEN Ostatak(LijeviKraj(ulaz, i), DesniKraj(ulaz, i), Q[i.kartica])
                 ELSE -Ostatak(LijeviKraj(ulaz, i), DesniKraj(ulaz, i), Q[i.kartica])
    <3>1. preostalo[i.id] = IF i.preostalo > 0
                 THEN Ostatak(LijeviKraj(ulaz, i), DesniKraj(ulaz, i), P[i.kartica])
                 ELSE -Ostatak(LijeviKraj(ulaz, i), DesniKraj(ulaz, i), P[i.kartica])
      BY DEF PetljaInv, Poravnato
    <3>2. /\ preostalo \in [Stavke -> Int] /\ i.id \in Stavke /\ i.kartica \in Kartice
          /\ LijeviKraj(ulaz, i) \in Nat /\ DesniKraj(ulaz, i) \in Nat
      BY Krajevi, Ulazna DEF PetljaInv
    <3>3. CASE i = d
      <4>1. preostalo'[d.id] = preostalo[d.id] - (q - p)
        BY <1>2, <1>4, <3>2
      <4>2. preostalo[d.id] = DesniKraj(ulaz, d) - p /\ LijeviKraj(ulaz, d) <= p
        BY DEF NaCelu
      <4>3. preostalo'[d.id] = DesniKraj(ulaz, d) - q
        BY <1>2, <1>3, <4>1, <4>2
      <4>4. Ostatak(LijeviKraj(ulaz, d), DesniKraj(ulaz, d), q) = DesniKraj(ulaz, d) - q
        BY <1>2, <1>3, <4>2 DEF Ostatak
      <4> QED
        BY <1>1, <1>6, <3>3, <4>3, <4>4
    <3>4. CASE i = c
      <4>1. preostalo'[c.id] = preostalo[c.id] + (q - p)
        BY <1>2, <1>4, <3>2
      <4>2. -preostalo[c.id] = DesniKraj(ulaz, c) - p /\ LijeviKraj(ulaz, c) <= p /\ preostalo[c.id] \in Int
        BY <1>2, <3>2 DEF NaCelu
      <4>3. preostalo'[c.id] = -(DesniKraj(ulaz, c) - q)
        BY <1>2, <1>3, <4>1, <4>2
      <4>4. Ostatak(LijeviKraj(ulaz, c), DesniKraj(ulaz, c), q) = DesniKraj(ulaz, c) - q
        BY <1>2, <1>3, <4>2 DEF Ostatak
      <4>5. ~(c.preostalo > 0)
        BY <1>1 DEF StavkePlana
      <4> QED
        BY <1>1, <1>6, <3>4, <4>3, <4>4, <4>5
    <3>5. CASE i # d /\ i # c
      <4>1. preostalo'[i.id] = preostalo[i.id]
        <5>1. i.id # d.id /\ i.id # c.id
          BY <1>1, <3>5 DEF StavkePlana
        <5> QED
          BY <3>2, <5>1
      <4>2. Ostatak(LijeviKraj(ulaz, i), DesniKraj(ulaz, i), Q[i.kartica])
              = Ostatak(LijeviKraj(ulaz, i), DesniKraj(ulaz, i), P[i.kartica])
        <5>1. CASE i.kartica # d.kartica
          BY <1>6, <3>2, <5>1
        <5>2. CASE i.kartica = d.kartica
          <6>1. DesniKraj(ulaz, i) <= p \/ q <= LijeviKraj(ulaz, i)
            BY <1>7, <3>5, <5>2
          <6>2. LijeviKraj(ulaz, i) <= DesniKraj(ulaz, i)
            BY Krajevi
          <6>3. Ostatak(LijeviKraj(ulaz, i), DesniKraj(ulaz, i), q) = Ostatak(LijeviKraj(ulaz, i), DesniKraj(ulaz, i), p)
            BY <1>3, <3>2, <6>1, <6>2 DEF Ostatak
          <6> QED
            BY <1>6, <5>2, <6>3
        <5> QED
          BY <5>1, <5>2
      <4> QED
        BY <3>1, <4>1, <4>2
    <3> QED
      BY <3>3, <3>4, <3>5
  <2> QED
    BY <2>1 DEF Poravnato
<1>11. rezultat' = ParoviDo(ulaz, Q)
  <2>1. PICK novi : novi = [d |-> d.id, p |-> c.id, iznos |-> q - p]
    OBVIOUS
  <2>2. /\ Zajedno(ulaz, d, c, q) = q - p /\ q - p > 0 /\ ~(Zajedno(ulaz, d, c, p) > 0)
        /\ novi = UpisaniPar(ulaz, d, c, q)
    <3>1. PICK v : v = Veci(LijeviKraj(ulaz, d), LijeviKraj(ulaz, c))
      OBVIOUS
    <3>2. p = v
      BY <3>1 DEF NaCelu
    <3>3. /\ Zajedno(ulaz, d, c, q) = Manji(q, q) - v
          /\ Zajedno(ulaz, d, c, p) = Manji(q, p) - v
      BY <3>1 DEF Zajedno
    <3>4. Zajedno(ulaz, d, c, q) = q - p /\ q - p > 0 /\ ~(Zajedno(ulaz, d, c, p) > 0)
      BY <1>3, <3>2, <3>3 DEF Manji
    <3> QED
      BY <2>1, <3>4 DEF UpisaniPar
  <2>3. ASSUME NEW i \in Dugovne(ulaz), NEW j \in Potrazne(ulaz, i), ~(i = d /\ j = c)
        PROVE  \/ Zajedno(ulaz, i, j, P[i.kartica]) = Zajedno(ulaz, i, j, Q[i.kartica])
               \/ /\ ~(Zajedno(ulaz, i, j, P[i.kartica]) > 0)
                  /\ ~(Zajedno(ulaz, i, j, Q[i.kartica]) > 0)
    <3>1. /\ i \in ulaz /\ j \in ulaz /\ i.preostalo > 0 /\ j.preostalo < 0
          /\ j.kartica = i.kartica /\ i.kartica \in Kartice
      BY <2>3, Krajevi, Ulazna DEF Dugovne, Potrazne
    <3>2. CASE i.kartica # d.kartica
      BY <1>6, <3>1, <3>2
    <3>3. CASE i.kartica = d.kartica
      <4>1. \/ DesniKraj(ulaz, i) <= p \/ q <= LijeviKraj(ulaz, i)
            \/ DesniKraj(ulaz, j) <= p \/ q <= LijeviKraj(ulaz, j)
        <5>1. i # c /\ j # d
          BY <1>1, <3>1 DEF StavkePlana
        <5>2. CASE i # d
          BY <1>7, <3>1, <3>3, <5>1, <5>2
        <5>3. CASE j # c
          BY <1>7, <3>1, <3>3, <5>1, <5>3
        <5> QED
          BY <2>3, <5>2, <5>3
      <4>2. \/ Zajedno(ulaz, i, j, p) = Zajedno(ulaz, i, j, q)
            \/ ~(Zajedno(ulaz, i, j, p) > 0) /\ ~(Zajedno(ulaz, i, j, q) > 0)
        BY <1>3, <3>1, <4>1, ZajednoStoji
      <4> QED
        BY <1>6, <3>3, <4>2
    <3> QED
      BY <3>2, <3>3
  <2>4. \A z : z \in ParoviDo(ulaz, Q) <=> z \in ParoviDo(ulaz, P) \/ z = novi
    <3>1. TAKE z
    <3>2. ASSUME NEW i \in Dugovne(ulaz), NEW j \in Potrazne(ulaz, i), ~(i = d /\ j = c)
          PROVE  /\ Zajedno(ulaz, i, j, P[i.kartica]) > 0
                      <=> Zajedno(ulaz, i, j, Q[i.kartica]) > 0
                 /\ Zajedno(ulaz, i, j, P[i.kartica]) > 0 =>
                      UpisaniPar(ulaz, i, j, P[i.kartica]) = UpisaniPar(ulaz, i, j, Q[i.kartica])
      BY <2>3, <3>2 DEF UpisaniPar
    <3>3. ASSUME z \in ParoviDo(ulaz, Q) PROVE z \in ParoviDo(ulaz, P) \/ z = novi
      <4>1. PICK i, j :
              i \in Dugovne(ulaz) /\ j \in Potrazne(ulaz, i) /\
              Zajedno(ulaz, i, j, Q[i.kartica]) > 0 /\ z = UpisaniPar(ulaz, i, j, Q[i.kartica])
        BY <3>3, ParoviPojedinacno
      <4>2. CASE i = d /\ j = c
        <5>1. z = UpisaniPar(ulaz, d, c, Q[d.kartica])
          BY <4>1, <4>2
        <5> QED
          BY <1>6, <2>2, <5>1
      <4>3. CASE ~(i = d /\ j = c)
        <5>1. Zajedno(ulaz, i, j, P[i.kartica]) > 0 /\ z = UpisaniPar(ulaz, i, j, P[i.kartica])
          BY <3>2, <4>1, <4>3
        <5> QED
          BY <4>1, <5>1, ParoviPojedinacno
      <4> QED
        BY <4>2, <4>3
    <3>4. ASSUME z \in ParoviDo(ulaz, P) PROVE z \in ParoviDo(ulaz, Q)
      <4>1. PICK i, j :
              i \in Dugovne(ulaz) /\ j \in Potrazne(ulaz, i) /\
              Zajedno(ulaz, i, j, P[i.kartica]) > 0 /\ z = UpisaniPar(ulaz, i, j, P[i.kartica])
        BY <3>4, ParoviPojedinacno
      <4>2. ~(i = d /\ j = c)
        <5>1. SUFFICES ASSUME i = d, j = c PROVE FALSE
          OBVIOUS
        <5>2. Zajedno(ulaz, d, c, P[d.kartica]) > 0
          BY <4>1, <5>1
        <5> QED
          BY <2>2, <5>2
      <4>3. Zajedno(ulaz, i, j, Q[i.kartica]) > 0 /\ z = UpisaniPar(ulaz, i, j, Q[i.kartica])
        BY <3>2, <4>1, <4>2
      <4> QED
        BY <4>1, <4>3, ParoviPojedinacno
    <3>5. ASSUME z = novi PROVE z \in ParoviDo(ulaz, Q)
      <4>1. Zajedno(ulaz, d, c, Q[d.kartica]) > 0 /\ z = UpisaniPar(ulaz, d, c, Q[d.kartica])
        BY <1>6, <2>2, <3>5
      <4> QED
        BY <1>1, <4>1, ParoviPojedinacno
    <3> QED
      BY <3>3, <3>4, <3>5
  <2>5. rezultat = ParoviDo(ulaz, P)
    BY DEF PetljaInv
  <2>6. \A z : z \in rezultat' <=> z \in ParoviDo(ulaz, Q)
    BY <2>1, <2>4, <2>5
  <2> QED
    BY <2>6
<1>12. Posjecene(Q)'
  <2>1. ASSUME NEW i \in Dugovne(ulaz) \ duguje
        PROVE  Pokriven(ulaz, i, Q) /\ \A m \in duguje : Starija(i, m)
    <3>1. Pokriven(ulaz, i, P) /\ \A m \in duguje : Starija(i, m)
      BY <2>1 DEF PetljaInv, Posjecene
    <3>2. i \in ulaz /\ i.kartica \in Kartice /\ DesniKraj(ulaz, i) \in Nat
      BY <2>1, Krajevi, Ulazna DEF Dugovne
    <3>3. P[i.kartica] <= Q[i.kartica] /\ P[i.kartica] \in Nat /\ Q[i.kartica] \in Nat
      BY <1>6, <3>2
    <3>4. \A j \in Potrazne(ulaz, i) : DesniKraj(ulaz, j) \in Nat
      BY Krajevi DEF Potrazne
    <3>5. Pokriven(ulaz, i, Q)
      BY <3>1, <3>2, <3>3, <3>4 DEF Pokriven
    <3> QED
      BY <3>1, <3>5
  <2>2. duguje \subseteq Dugovne(ulaz)
    BY DEF PetljaInv, Posjecene
  <2> QED
    BY <2>1, <2>2 DEF Posjecene
<1>13. Tekuca(Q)'
  <2>1. PotraznaProsla(ulaz, d, P, potrazuje)
    BY DEF PetljaInv, Tekuca
  <2>2. ASSUME NEW j \in Potrazne(ulaz, d) \ (potrazuje \ {c})
        PROVE  DesniKraj(ulaz, j) <= q \/ DesniKraj(ulaz, d) <= q
    <3>1. CASE j = c
      BY <1>2, <1>3, <3>1 DEF Manji
    <3>2. CASE j # c
      <4>1. DesniKraj(ulaz, j) <= p \/ DesniKraj(ulaz, d) <= p
        BY <2>1, <2>2, <3>2 DEF PotraznaProsla
      <4>2. DesniKraj(ulaz, j) \in Nat
        BY <2>2, Krajevi DEF Potrazne
      <4> QED
        BY <1>2, <1>3, <4>1, <4>2
    <3> QED
      BY <3>1, <3>2
  <2>3. PotraznaProsla(ulaz, d, Q, potrazuje \ {c})
    BY <1>6, <2>1, <2>2 DEF PotraznaProsla
  <2> QED
    BY <2>3 DEF Tekuca
<1> QED
  BY <1>5, <1>6, <1>8, <1>9, <1>10, <1>11, <1>12, <1>13 DEF PetljaInv, UlazPetlje

\* When the current credit, or what is left of it, is passed over without a
\* payment, one of the two was used up.
LEMMA PropustenPar ==
  ASSUME StavkePlana(ulaz), NEW P, PetljaInv(P), duguje # {},
         NEW d, d = Najstarija(duguje), NEW c \in potrazuje,
         ~(preostalo[d.id] > 0 /\ preostalo[c.id] < 0),
         preostalo' = preostalo, rezultat' = rezultat,
         potrazuje' = potrazuje \ {c}, ulaz' = ulaz, duguje' = duguje
  PROVE  PetljaInv(P)'
<1>1. /\ duguje \subseteq Dugovne(ulaz) /\ Dugovne(ulaz) \subseteq ulaz /\ d \in duguje
  <2>1. duguje \subseteq Dugovne(ulaz) /\ Dugovne(ulaz) \subseteq ulaz
    BY DEF PetljaInv, Posjecene, Dugovne
  <2> QED
    BY <2>1, PostojiNajstarija
<1>2. PotraznaProsla(ulaz, d, P, potrazuje)
  BY DEF PetljaInv, Tekuca
<1>3. /\ d \in ulaz /\ d.preostalo > 0
      /\ c \in ulaz /\ c.preostalo < 0 /\ c.kartica = d.kartica
  BY <1>1, <1>2 DEF PotraznaProsla, Dugovne, Potrazne
<1>4. /\ P[d.kartica] \in Nat /\ DesniKraj(ulaz, d) \in Nat /\ DesniKraj(ulaz, c) \in Nat
      /\ preostalo[d.id] > 0 <=> P[d.kartica] < DesniKraj(ulaz, d)
      /\ preostalo[c.id] < 0 <=> P[c.kartica] < DesniKraj(ulaz, c)
  BY <1>3, PreostaloGovori, Krajevi
<1>5. DesniKraj(ulaz, c) <= P[d.kartica] \/ DesniKraj(ulaz, d) <= P[d.kartica]
  BY <1>3, <1>4
<1>6. PotraznaProsla(ulaz, d, P, potrazuje \ {c})
  BY <1>2, <1>5 DEF PotraznaProsla
<1> QED
  BY <1>6 DEF PetljaInv, UlazPetlje, Poravnato, Posjecene, Tekuca

\* What the inner loop's body does to the current debit d and credit c.
ParRadi(d, c, cents) ==
  /\ duguje # {} /\ potrazuje # {} /\ d = Najstarija(duguje) /\ c = Najstarija(potrazuje)
  /\ c \in potrazuje /\ d \in Dugovne(ulaz) /\ c \in Potrazne(ulaz, d)
  /\ preostalo[d.id] \in Int /\ preostalo[c.id] \in Int
  /\ cents = Manji(preostalo[d.id], -preostalo[c.id])
  /\ IF cents <= 0
     THEN UNCHANGED <<preostalo, rezultat>>
     ELSE /\ rezultat' = rezultat \cup {[d |-> d.id, p |-> c.id, iznos |-> cents]}
          /\ preostalo' = [preostalo EXCEPT ![d.id] = @ - cents, ![c.id] = @ + cents]
  /\ potrazuje' = potrazuje \ {c} /\ ulaz' = ulaz /\ duguje' = duguje

LEMMA StaParRadi == ASSUME PetljaIInv, Par PROVE \E d, c, cents : ParRadi(d, c, cents)
<1>1. PICK P : PetljaInv(P)
  BY DEF PetljaIInv
<1>2. PICK d, c : d = Najstarija(duguje) /\ c = Najstarija(potrazuje)
  OBVIOUS
<1>3. duguje # {} /\ potrazuje # {} /\ ulaz' = ulaz /\ duguje' = duguje /\ StavkePlana(ulaz)
  BY DEF Par, PetljaIInv
<1>4. PICK cents : cents = Min({preostalo[d.id], -preostalo[c.id]})
  OBVIOUS
<1>5. /\ IF cents <= 0
         THEN UNCHANGED <<preostalo, rezultat>>
         ELSE /\ rezultat' = rezultat \cup {[d |-> d.id, p |-> c.id, iznos |-> cents]}
              /\ preostalo' = [preostalo EXCEPT ![d.id] = @ - cents, ![c.id] = @ + cents]
      /\ potrazuje' = potrazuje \ {c}
  BY <1>2, <1>4 DEF Par
<1>6. duguje \subseteq Dugovne(ulaz) /\ potrazuje \subseteq Potrazne(ulaz, d) /\ d \in duguje
  <2>1. duguje \subseteq Dugovne(ulaz) /\ potrazuje \subseteq Potrazne(ulaz, d)
    BY <1>1, <1>2, <1>3 DEF PetljaInv, Posjecene, Tekuca, PotraznaProsla
  <2>2. duguje \subseteq ulaz
    BY <2>1 DEF Dugovne
  <2> QED
    BY <1>2, <1>3, <2>1, <2>2, PostojiNajstarija
<1>7. c \in potrazuje /\ c \in ulaz /\ d \in ulaz
  <2>1. potrazuje \subseteq ulaz
    BY <1>6 DEF Potrazne
  <2>2. d \in ulaz
    BY <1>6 DEF Dugovne
  <2> QED
    BY <1>2, <1>3, <2>1, <2>2, PostojiNajstarija
<1>8. preostalo[d.id] \in Int /\ preostalo[c.id] \in Int
  <2>1. preostalo \in [Stavke -> Int]
    BY <1>1 DEF PetljaInv
  <2>2. d.id \in Stavke /\ c.id \in Stavke
    BY <1>1, <1>7, Ulazna
  <2> QED
    BY <2>1, <2>2
<1>9. cents = Manji(preostalo[d.id], -preostalo[c.id])
  BY <1>4, <1>8, ManjiVeci
<1>10. ParRadi(d, c, cents)
  BY <1>2, <1>3, <1>5, <1>6, <1>7, <1>8, <1>9 DEF ParRadi
<1> QED
  BY <1>10

\* The inner loop's body keeps the invariant.
LEMMA ParCuva == ASSUME PetljaIInv, Par PROVE PetljaIInv'
<1>1. PICK P : PetljaInv(P)
  BY DEF PetljaIInv
<1>2. PICK d, c, cents : ParRadi(d, c, cents)
  BY StaParRadi
<1>3. /\ duguje # {} /\ potrazuje # {} /\ d = Najstarija(duguje) /\ c = Najstarija(potrazuje)
      /\ c \in potrazuje /\ d \in ulaz /\ c \in ulaz /\ StavkePlana(ulaz)
      /\ preostalo[d.id] \in Int /\ preostalo[c.id] \in Int
      /\ cents = Manji(preostalo[d.id], -preostalo[c.id])
      /\ potrazuje' = potrazuje \ {c} /\ ulaz' = ulaz /\ duguje' = duguje
  BY <1>2 DEF ParRadi, Dugovne, Potrazne, PetljaIInv
<1>4. CASE cents <= 0
  <2>1. ~(preostalo[d.id] > 0 /\ preostalo[c.id] < 0)
    BY <1>3, <1>4 DEF Manji
  <2>2. preostalo' = preostalo /\ rezultat' = rezultat
    BY <1>2, <1>4 DEF ParRadi
  <2>3. PetljaInv(P)'
    BY <1>1, <1>3, <2>1, <2>2, PropustenPar
  <2> QED
    BY <1>3, <2>3 DEF PetljaIInv
<1>5. CASE ~(cents <= 0)
  <2>1. preostalo[d.id] > 0 /\ preostalo[c.id] < 0
    BY <1>3, <1>5 DEF Manji
  <2>2. PICK p, q : p = P[d.kartica] /\ q = Manji(DesniKraj(ulaz, d), DesniKraj(ulaz, c))
    OBVIOUS
  <2>3. NaCelu(d, c, p)
    BY <1>1, <1>3, <2>1, <2>2, NaCeluPar
  <2>4. cents = q - p
    <3>1. preostalo[d.id] = DesniKraj(ulaz, d) - p /\ -preostalo[c.id] = DesniKraj(ulaz, c) - p
      BY <2>3 DEF NaCelu
    <3>2. DesniKraj(ulaz, d) \in Nat /\ DesniKraj(ulaz, c) \in Nat /\ p \in Nat
      BY <1>1, <1>3, <2>2, Krajevi, PreostaloGovori
    <3> QED
      BY <1>3, <2>2, <3>1, <3>2 DEF Manji
  <2>5. /\ rezultat' = rezultat \cup {[d |-> d.id, p |-> c.id, iznos |-> q - p]}
        /\ preostalo' = [preostalo EXCEPT ![d.id] = @ - (q - p), ![c.id] = @ + (q - p)]
    BY <1>2, <1>5, <2>4 DEF ParRadi
  <2>6. PetljaInv([P EXCEPT ![d.kartica] = q])'
    BY <1>1, <1>3, <2>2, <2>3, <2>5, PlacenPar
  <2> QED
    BY <1>3, <2>6 DEF PetljaIInv
<1> QED
  BY <1>4, <1>5

\* The credits that a debit is offered are those not used up.
LEMMA Ponudjene ==
  ASSUME StavkePlana(ulaz), NEW P, PetljaInv(P), NEW d \in Dugovne(ulaz)
  PROVE  PotraznaProsla(ulaz, d, P, Potraziva(d))
<1>1. ASSUME NEW j \in ulaz, preostalo[j.id] < 0 PROVE j.preostalo < 0
  <2>1. j.preostalo \in Int
    BY DEF StavkePlana
  <2>2. j.preostalo > 0 => preostalo[j.id] >= 0
    BY PreostaloGovori
  <2>3. j.preostalo = 0 => preostalo[j.id] = 0
    BY PreostaloGovori
  <2>4. preostalo[j.id] \in Int
    BY Ulazna
  <2> QED
    BY <1>1, <2>1, <2>2, <2>3, <2>4
<1>2. Potraziva(d) \subseteq Potrazne(ulaz, d)
  BY <1>1 DEF Potraziva, Potrazne
<1>3. ASSUME NEW j \in Potrazne(ulaz, d) \ Potraziva(d) PROVE DesniKraj(ulaz, j) <= P[d.kartica]
  <2>1. j \in ulaz /\ j.preostalo < 0 /\ j.kartica = d.kartica /\ ~(preostalo[j.id] < 0)
    BY <1>3 DEF Potraziva, Potrazne
  <2>2. ~(P[j.kartica] < DesniKraj(ulaz, j)) /\ P[j.kartica] \in Nat /\ DesniKraj(ulaz, j) \in Nat
    BY <2>1, PreostaloGovori, Krajevi
  <2> QED
    BY <2>1, <2>2
<1> QED
  BY <1>2, <1>3 DEF PotraznaProsla

\* Going on to the next debit keeps it,
LEMMA SljedeciDugCuva == ASSUME PetljaIInv, SljedeciDug PROVE PetljaIInv'
<1>1. PICK P : PetljaInv(P)
  BY DEF PetljaIInv
<1>2. PICK d : d = Najstarija(duguje)
  OBVIOUS
<1>3. /\ StavkePlana(ulaz) /\ duguje # {} /\ potrazuje = {}
      /\ duguje' = duguje \ {d} /\ ulaz' = ulaz /\ preostalo' = preostalo /\ rezultat' = rezultat
      /\ potrazuje' = IF duguje' = {} THEN {} ELSE Potraziva(Najstarija(duguje'))
  BY <1>2 DEF SljedeciDug, PetljaIInv
<1>4. duguje \subseteq Dugovne(ulaz) /\ Dugovne(ulaz) \subseteq ulaz
  BY <1>1 DEF PetljaInv, Posjecene, Dugovne
<1>5. d \in duguje /\ \A m \in duguje \ {d} : Starija(d, m)
  BY <1>2, <1>3, <1>4, PostojiNajstarija
<1>6. Pokriven(ulaz, d, P)
  BY <1>1, <1>2, <1>3 DEF PetljaInv, Tekuca, PotraznaProsla, Pokriven
<1>7. Posjecene(P)'
  <2>1. \A i \in Dugovne(ulaz) \ duguje :
          Pokriven(ulaz, i, P) /\ \A m \in duguje : Starija(i, m)
    BY <1>1 DEF PetljaInv, Posjecene
  <2>2. \A i \in Dugovne(ulaz) \ duguje' :
          Pokriven(ulaz, i, P) /\ \A m \in duguje' : Starija(i, m)
    BY <1>3, <1>5, <1>6, <2>1
  <2>3. duguje' \subseteq Dugovne(ulaz)
    BY <1>3, <1>4
  <2> QED
    BY <1>3, <2>2, <2>3 DEF Posjecene
<1>8. Tekuca(P)'
  <2>1. SUFFICES ASSUME duguje' # {}
                 PROVE  PotraznaProsla(ulaz, Najstarija(duguje'), P, Potraziva(Najstarija(duguje')))
    BY <1>3 DEF Tekuca
  <2>2. duguje' \subseteq Dugovne(ulaz) /\ duguje' \subseteq ulaz
    BY <1>3, <1>4
  <2>3. Najstarija(duguje') \in Dugovne(ulaz)
    BY <1>3, <2>1, <2>2, PostojiNajstarija
  <2> QED
    BY <1>1, <1>3, <2>3, Ponudjene
<1>9. Poravnato(ulaz, P)'
  BY <1>1, <1>3 DEF PetljaInv, Poravnato
<1> QED
  BY <1>1, <1>3, <1>7, <1>8, <1>9 DEF PetljaIInv, PetljaInv, UlazPetlje

\* and so it holds from the start, when nothing is settled.
LEMMA PocetakPetlje == ASSUME PetljaInit PROVE PetljaIInv
<1>1. PICK f \in [Stavke -> Kartice \X Datumi \X (-NajviseIznos .. NajviseIznos)] :
        ulaz = {StavkaUlaza(i, f[i][1], f[i][2], f[i][3]) : i \in Stavke}
  BY DEF PetljaInit
<1>2. PICK g : g = [i \in Stavke |-> StavkaUlaza(i, f[i][1], f[i][2], f[i][3])]
  OBVIOUS
<1>3. ASSUME NEW i \in Stavke
      PROVE  /\ g[i] \in ulaz /\ g[i].id = i /\ g[i].kartica \in Kartice
             /\ g[i].datum \in Datumi /\ g[i].preostalo \in Int
  <2>1. f[i] \in Kartice \X Datumi \X (-NajviseIznos .. NajviseIznos) /\ NajviseIznos \in Nat
    BY PlanPetljaPretpostavke DEF PlanPetljaPretpostavke
  <2>2. f[i][1] \in Kartice /\ f[i][2] \in Datumi /\ f[i][3] \in Int
    BY <2>1
  <2> QED
    BY <1>1, <1>2, <2>2 DEF StavkaUlaza
<1>4. \A x \in ulaz : \E i \in Stavke : x = g[i]
  BY <1>1, <1>2
<1>5. StavkePlana(ulaz) /\ UlazPetlje
  <2>1. IsFiniteSet(Stavke)
    BY PlanPetljaPretpostavke DEF PlanPetljaPretpostavke
  <2>2. IsFiniteSet(ulaz)
    BY <1>4, <2>1, KonacnaSlika
  <2>3. \A x \in ulaz : x.id \in Nat /\ x.datum \in Nat /\ x.preostalo \in Int
    <3>1. Stavke \subseteq Nat /\ Datumi \subseteq Nat
      BY PlanPetljaPretpostavke DEF PlanPetljaPretpostavke
    <3>2. \A i \in Stavke : g[i].id \in Nat /\ g[i].datum \in Nat /\ g[i].preostalo \in Int
      <4>1. TAKE i \in Stavke
      <4>2. g[i].id \in Stavke /\ g[i].datum \in Datumi /\ g[i].preostalo \in Int
        BY <1>3
      <4> QED
        BY <3>1, <4>2, Zenon
    <3> QED
      BY <1>4, <3>2
  <2>4. \A x, y \in ulaz : x.id = y.id => x = y
    BY <1>3, <1>4
  <2> QED
    BY <1>3, <1>4, <2>2, <2>3, <2>4 DEF StavkePlana, UlazPetlje
<1>6. /\ preostalo = [i \in Stavke |-> (CHOOSE x \in ulaz : x.id = i).preostalo]
      /\ duguje = Dugovne(ulaz) /\ rezultat = {}
      /\ potrazuje = IF duguje = {} THEN {} ELSE Potraziva(Najstarija(duguje))
  BY DEF PetljaInit, Dugovne
<1>7. ASSUME NEW i \in ulaz PROVE preostalo[i.id] = i.preostalo
  <2>1. i.id \in Stavke
    BY <1>5 DEF UlazPetlje
  <2>2. (CHOOSE x \in ulaz : x.id = i.id) = i
    <3>1. PICK y : y = CHOOSE x \in ulaz : x.id = i.id
      OBVIOUS
    <3>2. y \in ulaz /\ y.id = i.id
      BY <3>1
    <3> QED
      BY <1>5, <3>1, <3>2 DEF StavkePlana
  <2> QED
    BY <1>6, <2>1, <2>2
<1>8. preostalo \in [Stavke -> Int]
  <2>1. ASSUME NEW i \in Stavke PROVE preostalo[i] \in Int
    BY <1>3, <1>7
  <2> QED
    BY <1>6, <2>1
<1>9. PICK P : P = [k \in Kartice |-> 0]
  OBVIOUS
<1>10. P \in [Kartice -> Nat] /\ NaGranici(ulaz, P) /\ \A i \in ulaz : P[i.kartica] = 0
  BY <1>9, <1>5 DEF NaGranici, UlazPetlje
<1>11. Poravnato(ulaz, P)
  <2>1. ASSUME NEW i \in ulaz
        PROVE  preostalo[i.id] = IF i.preostalo > 0
                 THEN Ostatak(LijeviKraj(ulaz, i), DesniKraj(ulaz, i), P[i.kartica])
                 ELSE -Ostatak(LijeviKraj(ulaz, i), DesniKraj(ulaz, i), P[i.kartica])
    <3>1. /\ LijeviKraj(ulaz, i) \in Nat /\ i.preostalo \in Int /\ P[i.kartica] = 0
          /\ preostalo[i.id] = i.preostalo
      BY <1>5, <1>7, <1>10, Krajevi DEF StavkePlana
    <3>2. Ostatak(LijeviKraj(ulaz, i), DesniKraj(ulaz, i), 0) = Apsolutno(i.preostalo)
      BY <3>1 DEF Ostatak, DesniKraj, Apsolutno
    <3> QED
      BY <3>1, <3>2 DEF Apsolutno
  <2> QED
    BY <2>1 DEF Poravnato
<1>12. ParoviDo(ulaz, P) = {}
  <2>1. ASSUME NEW i \in Dugovne(ulaz), NEW j \in Potrazne(ulaz, i)
        PROVE  ~(Zajedno(ulaz, i, j, P[i.kartica]) > 0)
    <3>1. i \in ulaz /\ j \in ulaz
      BY DEF Dugovne, Potrazne
    <3>2. /\ LijeviKraj(ulaz, i) \in Nat /\ DesniKraj(ulaz, i) \in Nat
          /\ LijeviKraj(ulaz, j) \in Nat /\ DesniKraj(ulaz, j) \in Nat /\ P[i.kartica] = 0
      BY <1>5, <1>10, <3>1, Krajevi
    <3> QED
      BY <3>2 DEF Zajedno, Manji, Veci
  <2>2. \A z : z \notin ParoviDo(ulaz, P)
    BY <2>1, ParoviPojedinacno
  <2> QED
    BY <2>2
<1>13. Posjecene(P)
  BY <1>6 DEF Posjecene
<1>14. Tekuca(P)
  <2>1. SUFFICES ASSUME duguje # {} PROVE PotraznaProsla(ulaz, Najstarija(duguje), P, potrazuje)
    BY DEF Tekuca
  <2>2. PICK d : d = Najstarija(duguje)
    OBVIOUS
  <2>3. d \in Dugovne(ulaz)
    BY <1>5, <1>6, <2>1, <2>2, PostojiNajstarija DEF Dugovne
  <2>4. potrazuje = {j \in ulaz : j.preostalo < 0 /\ j.kartica = d.kartica}
    BY <1>6, <1>7, <2>1, <2>2 DEF Potraziva
  <2> QED
    BY <2>2, <2>4 DEF PotraznaProsla, Potrazne
<1> QED
  BY <1>5, <1>6, <1>8, <1>10, <1>11, <1>12, <1>13, <1>14 DEF PetljaIInv, PetljaInv

\* Between any two rounds of the loops there is an amount for every card up to
\* which its sides are settled, and the remaining amounts, the pairs pushed and
\* the debits and credits already visited are what it says.
THEOREM PetljaInvarijanta == PetljaSpec => []PetljaIInv
<1>1. PetljaInit => PetljaIInv
  BY PocetakPetlje
<1>2. PetljaIInv /\ [PetljaNext]_petlja => PetljaIInv'
  <2>1. SUFFICES ASSUME PetljaIInv, [PetljaNext]_petlja PROVE PetljaIInv'
    OBVIOUS
  <2>2. CASE Par
    BY <2>1, <2>2, ParCuva
  <2>3. CASE SljedeciDug
    BY <2>1, <2>3, SljedeciDugCuva
  <2>4. CASE UNCHANGED petlja
    BY <2>1, <2>4 DEF petlja, PetljaIInv, PetljaInv, UlazPetlje, Poravnato, Posjecene, Tekuca
  <2> QED
    BY <2>1, <2>2, <2>3, <2>4 DEF PetljaNext
<1> QED
  BY <1>1, <1>2, PTL DEF PetljaSpec

\* When no debit is left, what was settled of every card is all that its sides
\* share.
LEMMA KrajPetlje ==
  ASSUME PetljaIInv PROVE VracaPlanPoStarosti
<1>1. SUFFICES ASSUME duguje = {} PROVE rezultat = PlanPoStarosti(ulaz)
  BY DEF VracaPlanPoStarosti, Gotovo
<1>2. PICK P : PetljaInv(P)
  BY DEF PetljaIInv
<1>3. StavkePlana(ulaz) /\ rezultat = ParoviDo(ulaz, P)
  BY <1>2 DEF PetljaIInv, PetljaInv
<1>4. ASSUME NEW i \in Dugovne(ulaz), NEW j \in Potrazne(ulaz, i)
      PROVE  Zajedno(ulaz, i, j, P[i.kartica])
               = Manji(DesniKraj(ulaz, i), DesniKraj(ulaz, j)) - Veci(LijeviKraj(ulaz, i), LijeviKraj(ulaz, j))
  <2>1. i \in ulaz /\ j \in ulaz
    BY DEF Dugovne, Potrazne
  <2>2. DesniKraj(ulaz, i) \in Nat /\ DesniKraj(ulaz, j) \in Nat /\ P[i.kartica] \in Nat
    BY <1>2, <1>3, <2>1, Krajevi, PreostaloGovori
  <2>3. DesniKraj(ulaz, i) <= P[i.kartica] \/ DesniKraj(ulaz, j) <= P[i.kartica]
    BY <1>1, <1>2 DEF PetljaInv, Posjecene, Pokriven
  <2>4. Manji(Manji(DesniKraj(ulaz, i), DesniKraj(ulaz, j)), P[i.kartica]) = Manji(DesniKraj(ulaz, i), DesniKraj(ulaz, j))
    BY <2>2, <2>3 DEF Manji
  <2> QED
    BY <2>4 DEF Zajedno
<1>5. \A z : z \in ParoviDo(ulaz, P) <=> z \in PlanPoStarosti(ulaz)
  <2>1. TAKE z
  <2>2. ASSUME NEW i \in Dugovne(ulaz), NEW j \in Potrazne(ulaz, i)
        PROVE  (Zajedno(ulaz, i, j, P[i.kartica]) > 0 /\ z = UpisaniPar(ulaz, i, j, P[i.kartica]))
                 <=> LET x == Manji(DesniKraj(ulaz, i), DesniKraj(ulaz, j)) - Veci(LijeviKraj(ulaz, i), LijeviKraj(ulaz, j))
                     IN x > 0 /\ z = [d |-> i.id, p |-> j.id, iznos |-> x]
    BY <1>4 DEF UpisaniPar
  <2> QED
    BY <1>3, <2>2, ParoviPojedinacno, PlanPojedinacno
<1> QED
  BY <1>3, <1>5

\* The loops of oldestSettlementPlan, which take amounts off their copies pair by
\* pair, return the overlaps of a card's debits and credits laid end to end.
THEOREM VracaPlan == PetljaSpec => []VracaPlanPoStarosti
BY PetljaInvarijanta, KrajPetlje, PTL

\* One more row adds its amount.
LEMMA ZbirIznosaJosJedan ==
  ASSUME NEW V, IsFiniteSet(V), \A v \in V : v.iznos \in Int, NEW x, x \notin V, x.iznos \in Int
  PROVE  ZbirIznosa(V \cup {x}) = ZbirIznosa(V) + x.iznos
<1>1. PICK A, f : A = V \cup {x} /\ f = IznosOd(A)
  OBVIOUS
<1>2. IsFiniteSet(A) /\ x \in A /\ A \ {x} = V
  BY <1>1, FS_AddElement
<1>3. \A v \in A : f[v] = v.iznos /\ f[v] \in Int
  BY <1>1 DEF IznosOd
<1>4. ZbirIznosa(A) = ZbirNad(f, A) /\ ZbirIznosa(V) = ZbirNad(f, V)
  BY <1>2, <1>3, IznosiSuZbir
<1>5. ZbirNad(f, A) = f[x] + ZbirNad(f, A \ {x})
  BY <1>2, <1>3, ZbirBezElementa
<1>6. ZbirNad(f, V) \in Int
  BY <1>2, <1>3, ZbirCio
<1>7. ZbirIznosa(A) = f[x] + ZbirIznosa(V)
  BY <1>2, <1>4, <1>5
<1>8. f[x] = x.iznos /\ f[x] \in Int /\ ZbirIznosa(V) \in Int
  BY <1>2, <1>3, <1>4, <1>6
<1>9. ZbirIznosa(A) = ZbirIznosa(V) + x.iznos
  BY <1>7, <1>8
<1> QED
  BY <1>1, <1>9

\* What the pairs so far settle of an item: what it has lost.
ParoviStavke(i) == {r \in rezultat : i.id \in {r.d, r.p}}
Rasporedjeno ==
  /\ IsFiniteSet(rezultat) /\ \A r \in rezultat : r.iznos \in Nat
  /\ \A i \in ulaz : ZbirIznosa(ParoviStavke(i))
                       = Apsolutno(i.preostalo) - Apsolutno(preostalo[i.id])

\* The inner loop takes what it pushes from both items.
LEMMA ParRasporedjuje == ASSUME PetljaIInv, Rasporedjeno, Par PROVE Rasporedjeno'
<1>1. PICK P : PetljaInv(P)
  BY DEF PetljaIInv
<1>2. PICK d, c, cents : ParRadi(d, c, cents)
  BY StaParRadi
<1>3. CASE cents <= 0
  BY <1>2, <1>3 DEF ParRadi, Rasporedjeno, ParoviStavke
<1>4. CASE ~(cents <= 0)
  <2>1. PICK novi : novi = [d |-> d.id, p |-> c.id, iznos |-> cents]
    OBVIOUS
  <2>2. /\ rezultat' = rezultat \cup {novi} /\ ulaz' = ulaz
        /\ preostalo' = [preostalo EXCEPT ![d.id] = @ - cents, ![c.id] = @ + cents]
    BY <1>2, <1>4, <2>1 DEF ParRadi
  <2>3. /\ StavkePlana(ulaz) /\ d \in ulaz /\ c \in ulaz /\ d.preostalo > 0 /\ c.preostalo < 0
        /\ preostalo[d.id] \in Int /\ preostalo[c.id] \in Int
        /\ duguje # {} /\ potrazuje # {} /\ d = Najstarija(duguje) /\ c = Najstarija(potrazuje)
        /\ d \in Dugovne(ulaz) /\ c \in Potrazne(ulaz, d)
    BY <1>2 DEF ParRadi, PetljaIInv, Dugovne, Potrazne
  <2>4. cents \in Nat /\ 0 < cents /\ cents <= preostalo[d.id] /\ cents <= -preostalo[c.id]
    BY <1>2, <1>4, <2>3 DEF ParRadi, Manji
  <2>5. d.id # c.id /\ d.id \in Stavke /\ c.id \in Stavke
    BY <1>1, <2>3, Ulazna DEF StavkePlana
  <2>6. novi \notin rezultat
    <3>1. SUFFICES ASSUME novi \in rezultat PROVE FALSE
      OBVIOUS
    <3>2. novi \in ParoviDo(ulaz, P)
      BY <1>1, <3>1 DEF PetljaInv
    <3>3. PICK i, j : /\ i \in Dugovne(ulaz) /\ j \in Potrazne(ulaz, i)
                      /\ Zajedno(ulaz, i, j, P[i.kartica]) > 0
                      /\ novi = UpisaniPar(ulaz, i, j, P[i.kartica])
      BY <3>2, ParoviPojedinacno
    <3>4. i = d /\ j = c
      <4>1. i.id = d.id /\ j.id = c.id
        BY <2>1, <3>3 DEF UpisaniPar
      <4>2. i \in ulaz /\ j \in ulaz
        BY <3>3 DEF Dugovne, Potrazne
      <4> QED
        BY <2>3, <4>1, <4>2 DEF StavkePlana
    <3>5. PICK p : p = P[d.kartica]
      OBVIOUS
    <3>6. NaCelu(d, c, p)
      BY <1>1, <2>3, <2>4, <3>5, NaCeluPar
    <3>7. Zajedno(ulaz, d, c, p) > 0
      BY <3>3, <3>4, <3>5
    <3>8. /\ p \in Nat /\ p = Veci(LijeviKraj(ulaz, d), LijeviKraj(ulaz, c))
          /\ p < DesniKraj(ulaz, d) /\ p < DesniKraj(ulaz, c)
          /\ DesniKraj(ulaz, d) \in Nat /\ DesniKraj(ulaz, c) \in Nat
      BY <1>1, <2>3, <3>5, <3>6, PreostaloGovori, Krajevi DEF NaCelu
    <3>9. Zajedno(ulaz, d, c, p) = 0
      BY <3>8 DEF Zajedno, Manji
    <3> QED
      BY <3>7, <3>9
  <2>7. IsFiniteSet(rezultat') /\ \A r \in rezultat' : r.iznos \in Nat
    <3>1. IsFiniteSet(rezultat \cup {novi})
      BY FS_AddElement DEF Rasporedjeno
    <3> QED
      BY <2>1, <2>2, <2>4, <3>1 DEF Rasporedjeno
  <2>8. ASSUME NEW i \in ulaz
        PROVE  ZbirIznosa(ParoviStavke(i)')
                 = Apsolutno(i.preostalo) - Apsolutno(preostalo'[i.id])
    <3>1. PICK V : V = ParoviStavke(i)
      OBVIOUS
    <3>2. ZbirIznosa(V) = Apsolutno(i.preostalo) - Apsolutno(preostalo[i.id])
      BY <3>1 DEF Rasporedjeno
    <3>3. /\ i.preostalo \in Int /\ preostalo \in [Stavke -> Int]
          /\ i.id \in Stavke /\ preostalo[i.id] \in Int
      BY <1>1, <2>3, Ulazna DEF PetljaInv, StavkePlana
    <3>4. CASE i = d \/ i = c
      <4>1. ParoviStavke(i)' = V \cup {novi}
        BY <2>1, <2>2, <3>1, <3>4 DEF ParoviStavke
      <4>2. IsFiniteSet(V) /\ novi \notin V /\ (\A v \in V : v.iznos \in Int) /\ novi.iznos = cents
        BY <2>1, <2>6, <3>1, FS_Subset DEF ParoviStavke, Rasporedjeno
      <4>3. ZbirIznosa(V \cup {novi}) = ZbirIznosa(V) + cents
        BY <2>4, <4>2, ZbirIznosaJosJedan
      <4>4. Apsolutno(preostalo'[i.id]) = Apsolutno(preostalo[i.id]) - cents
        <5>1. preostalo'[d.id] = preostalo[d.id] - cents
          BY <2>2, <2>5, <3>3
        <5>2. preostalo'[c.id] = preostalo[c.id] + cents
          BY <2>2, <2>5, <3>3
        <5> QED
          BY <2>3, <2>4, <3>4, <5>1, <5>2 DEF Apsolutno
      <4>5. Apsolutno(i.preostalo) \in Int /\ Apsolutno(preostalo[i.id]) \in Int
        BY <3>3 DEF Apsolutno
      <4>6. ZbirIznosa(ParoviStavke(i)') = ZbirIznosa(V) + cents
        BY <4>1, <4>3
      <4> QED
        BY <2>4, <3>2, <4>4, <4>5, <4>6
    <3>5. CASE i # d /\ i # c
      <4>1. i.id # d.id /\ i.id # c.id
        BY <2>3, <3>5 DEF StavkePlana
      <4>2. ParoviStavke(i)' = V
        BY <2>1, <2>2, <3>1, <4>1 DEF ParoviStavke
      <4>3. preostalo'[i.id] = preostalo[i.id]
        BY <2>2, <3>3, <4>1
      <4> QED
        BY <3>2, <4>2, <4>3
    <3> QED
      BY <3>4, <3>5
  <2> QED
    BY <2>2, <2>7, <2>8 DEF Rasporedjeno
<1> QED
  BY <1>3, <1>4

\* and nothing is taken before the loops.
LEMMA NaPocetkuNerasporedjeno == ASSUME PetljaInit PROVE Rasporedjeno
<1>1. PetljaIInv /\ rezultat = {}
  BY PocetakPetlje DEF PetljaInit
<1>2. ASSUME NEW i \in ulaz PROVE preostalo[i.id] = i.preostalo /\ i.preostalo \in Int
  <2>1. i.id \in Stavke /\ i.preostalo \in Int
    BY <1>1, Ulazna DEF PetljaIInv, StavkePlana
  <2>2. PICK y : y = CHOOSE x \in ulaz : x.id = i.id
    OBVIOUS
  <2>3. y \in ulaz /\ y.id = i.id
    BY <2>2
  <2>4. y = i
    BY <1>1, <2>3 DEF PetljaIInv, StavkePlana
  <2>5. preostalo[i.id] = (CHOOSE x \in ulaz : x.id = i.id).preostalo
    BY <2>1 DEF PetljaInit
  <2> QED
    BY <2>1, <2>2, <2>4, <2>5
<1>3. ASSUME NEW i \in ulaz
      PROVE  ZbirIznosa(ParoviStavke(i)) = Apsolutno(i.preostalo) - Apsolutno(preostalo[i.id])
  <2>1. ParoviStavke(i) = {}
    BY <1>1 DEF ParoviStavke
  <2>2. ZbirIznosa(ParoviStavke(i)) = 0
    BY <2>1, ZbirIznosaPraznog
  <2> QED
    BY <1>2, <2>2 DEF Apsolutno
<1> QED
  BY <1>1, <1>3, FS_EmptySet DEF Rasporedjeno

\* The plan gives no item more than remains of it,
PlanStajeUStavke == \A i \in ulaz : ZbirIznosa(ParoviStavke(i)) <= Apsolutno(i.preostalo)

\* and when it is done no debit and credit of a card both have something left.
PlanIscrpljujeKarticu ==
  Gotovo => \A i, j \in ulaz :
    i.preostalo > 0 /\ j.preostalo < 0 /\ i.kartica = j.kartica =>
      \/ ZbirIznosa(ParoviStavke(i)) = Apsolutno(i.preostalo)
      \/ ZbirIznosa(ParoviStavke(j)) = Apsolutno(j.preostalo)

\* The loops never give an item more than remains of it, and when they end no
\* debit and credit of one card are both left with something.
THEOREM PlanRasporedjuje == PetljaSpec => [](PlanStajeUStavke /\ PlanIscrpljujeKarticu)
<1>1. PetljaInit => Rasporedjeno
  BY NaPocetkuNerasporedjeno
<1>2. PetljaIInv /\ Rasporedjeno /\ [PetljaNext]_petlja => Rasporedjeno'
  <2>1. SUFFICES ASSUME PetljaIInv, Rasporedjeno, [PetljaNext]_petlja PROVE Rasporedjeno'
    OBVIOUS
  <2>2. CASE Par
    BY <2>1, <2>2, ParRasporedjuje
  <2>3. CASE SljedeciDug \/ UNCHANGED petlja
    BY <2>1, <2>3 DEF SljedeciDug, petlja, Rasporedjeno, ParoviStavke
  <2> QED
    BY <2>1, <2>2, <2>3 DEF PetljaNext
<1>3. PetljaIInv /\ Rasporedjeno => PlanStajeUStavke /\ PlanIscrpljujeKarticu
  <2>1. SUFFICES ASSUME PetljaIInv, Rasporedjeno PROVE PlanStajeUStavke /\ PlanIscrpljujeKarticu
    OBVIOUS
  <2>2. PICK P : PetljaInv(P)
    BY <2>1 DEF PetljaIInv
  <2>3. StavkePlana(ulaz)
    BY <2>1 DEF PetljaIInv
  <2>4. ASSUME NEW i \in ulaz
        PROVE  /\ ZbirIznosa(ParoviStavke(i)) <= Apsolutno(i.preostalo)
               /\ preostalo[i.id] = 0 => ZbirIznosa(ParoviStavke(i)) = Apsolutno(i.preostalo)
    <3>1. ZbirIznosa(ParoviStavke(i)) = Apsolutno(i.preostalo) - Apsolutno(preostalo[i.id])
      BY <2>1 DEF Rasporedjeno
    <3>2. i.preostalo \in Int /\ preostalo[i.id] \in Int
      BY <2>2, <2>3, Ulazna DEF PetljaInv, StavkePlana
    <3> QED
      BY <3>1, <3>2 DEF Apsolutno
  <2>5. ASSUME Gotovo, NEW i \in ulaz, NEW j \in ulaz,
               i.preostalo > 0, j.preostalo < 0, i.kartica = j.kartica
        PROVE  preostalo[i.id] = 0 \/ preostalo[j.id] = 0
    <3>1. i \in Dugovne(ulaz) \ duguje /\ j \in Potrazne(ulaz, i)
      BY <2>5 DEF Gotovo, Dugovne, Potrazne
    <3>2. DesniKraj(ulaz, i) <= P[i.kartica] \/ DesniKraj(ulaz, j) <= P[i.kartica]
      BY <2>2, <3>1 DEF PetljaInv, Posjecene, Pokriven
    <3>3. /\ P[i.kartica] \in Nat /\ DesniKraj(ulaz, i) \in Nat /\ DesniKraj(ulaz, j) \in Nat
          /\ preostalo[i.id] >= 0 /\ (preostalo[i.id] > 0 <=> P[i.kartica] < DesniKraj(ulaz, i))
          /\ preostalo[j.id] <= 0 /\ (preostalo[j.id] < 0 <=> P[j.kartica] < DesniKraj(ulaz, j))
          /\ preostalo[i.id] \in Int /\ preostalo[j.id] \in Int
      <4>1. ~(j.preostalo > 0)
        BY <2>3, <2>5 DEF StavkePlana
      <4>2. preostalo[i.id] \in Int /\ preostalo[j.id] \in Int
        BY <2>2, <2>5, Ulazna
      <4> QED
        BY <2>2, <2>3, <2>5, <4>1, <4>2, PreostaloGovori, Krajevi
    <3> QED
      BY <2>5, <3>2, <3>3
  <2> QED
    BY <2>4, <2>5 DEF PlanStajeUStavke, PlanIscrpljujeKarticu
<1> QED
  BY <1>1, <1>2, <1>3, PetljaInvarijanta, PTL DEF PetljaSpec

=============================================================================
