---------------------------- MODULE RobnoProofs ----------------------------
(* Proofs about Robno, for any warehouses, items, documents, quantities and requests: its
   types, the agreement of stock and card, and what a posted count and a closed year
   promise. *)
EXTENDS Robno, Zbirovi

\* A calculation is posted by a request that holds the open year's row.
KnjizenjeDrziGodinu ==
  \A r \in Zahtjev : Knjizi(r) => ~zakljucena /\ Je(zahtjev[r].dok, {"kalkulacija"})

RobnoInv == RobnoTipovi /\ KnjizenjeDrziGodinu /\ LagerPratiPromet

---------------------------------------------------------------------------
(* The card *)

\* A new movement continues the running quantity.
LEMMA ZapisSabira ==
  ASSUME NEW k \in Seq(Redovi), NEW d \in Dokument, NEW q \in Int
  PROVE  /\ SaldoReda(k) \in Int
         /\ Zapis(k, d, q) \in Seq(Redovi)
         /\ SaldoReda(Zapis(k, d, q)) = SaldoReda(k) + q
         /\ Len(Zapis(k, d, q)) = Len(k) + 1
         /\ Zapis(k, d, q)[Len(k) + 1].dok = d
<1>1. SaldoReda(k) \in Int
  <2>1. CASE k = <<>>
    BY <2>1 DEF SaldoReda
  <2>2. CASE k # <<>>
    <3>1. Len(k) \in DOMAIN k
      BY <2>2
    <3>2. k[Len(k)] \in Redovi
      BY <3>1
    <3> QED
      BY <2>2, <3>2 DEF SaldoReda, Redovi
  <2> QED
    BY <2>1, <2>2
<1> DEFINE red == [dok |-> d, kol |-> q, saldo |-> SaldoReda(k) + q]
<1>2. red \in Redovi
  BY <1>1 DEF Redovi
<1>3. Zapis(k, d, q) = Append(k, red)
  BY DEF Zapis
<1>4. /\ Append(k, red) \in Seq(Redovi)
      /\ Len(Append(k, red)) = Len(k) + 1
      /\ Append(k, red)[Len(k) + 1] = red
      /\ Append(k, red) # <<>>
  BY <1>2
<1>5. SaldoReda(Append(k, red)) = SaldoReda(k) + q
  BY <1>4 DEF SaldoReda
<1> QED
  BY <1>1, <1>3, <1>4, <1>5

\* What a document does to the stock is a number.
LEMMA PromjenaBroj ==
  ASSUME RobnoTipovi, NEW d \in Dokument, NEW m \in Magacin, NEW a \in Artikal
  PROVE  Promjena(d, m, a) \in Int
<1>1. dok[d].stavke[a] \in Int /\ dok[d].knjizno[a] \in Int
  BY DEF RobnoTipovi, Podaci
<1> QED
  BY <1>1 DEF Promjena

\* Where a document moves an item, stock and card move together.
LEMMA PomjeriCuva ==
  ASSUME RobnoTipovi, LagerPratiPromet, NEW d \in Dokument, NEW A, Pomjeri(d, A),
         presjek' = presjek
  PROVE  /\ stanje' \in [Magacin -> [Artikal -> Int]]
         /\ kartica' \in [Magacin -> [Artikal -> Seq(Redovi)]]
         /\ LagerPratiPromet'
<1>1. ASSUME NEW m \in Magacin, NEW a \in Artikal
      PROVE  /\ stanje'[m][a] \in Int /\ kartica'[m][a] \in Seq(Redovi)
             /\ stanje'[m][a] - stanje[m][a] = SaldoReda(kartica'[m][a]) - SaldoReda(kartica[m][a])
             /\ SaldoReda(kartica[m][a]) \in Int /\ SaldoReda(kartica'[m][a]) \in Int
  <2> DEFINE q == Promjena(d, m, a)
             k == kartica[m][a]
  <2>1. q \in Int /\ k \in Seq(Redovi) /\ stanje[m][a] \in Int
    BY PromjenaBroj DEF RobnoTipovi
  <2>2. /\ SaldoReda(k) \in Int /\ Zapis(k, d, q) \in Seq(Redovi)
        /\ SaldoReda(Zapis(k, d, q)) = SaldoReda(k) + q
    BY <2>1, ZapisSabira
  <2>3. /\ stanje'[m][a] = IF a \in A THEN stanje[m][a] + q ELSE stanje[m][a]
        /\ kartica'[m][a] = IF a \in A /\ q # 0 THEN Zapis(k, d, q) ELSE k
    BY DEF Pomjeri
  <2> HIDE DEF q, k
  <2> QED
    BY <2>1, <2>2, <2>3 DEF k
<1>2. /\ stanje' \in [Magacin -> [Artikal -> Int]]
      /\ kartica' \in [Magacin -> [Artikal -> Seq(Redovi)]]
  BY <1>1 DEF Pomjeri
<1>3. ASSUME NEW m \in Magacin, NEW a \in Artikal, <<m, a>> \notin presjek'
      PROVE  stanje'[m][a] = Saldo(m, a)'
  <2>1. stanje[m][a] = SaldoReda(kartica[m][a])
    BY <1>3 DEF LagerPratiPromet, Saldo
  <2>2. stanje[m][a] \in Int
    BY DEF RobnoTipovi
  <2> QED
    BY <1>1, <2>1, <2>2 DEF Saldo
<1> QED
  BY <1>2, <1>3 DEF LagerPratiPromet

\* What leaves stock and card alone keeps them in agreement.
LEMMA BezPrometa ==
  ASSUME LagerPratiPromet, zalihe' = zalihe, presjek' = presjek
  PROVE  LagerPratiPromet'
BY DEF LagerPratiPromet, zalihe, Saldo

---------------------------------------------------------------------------
(* Types, action by action *)

\* A request at rest is well formed.
LEMMA MirujePosao == Miruje \in Poslovi
<1>1. (CHOOSE d \in Dokument : TRUE) \in Dokument
  BY RobnoPretpostavke
<1> QED
  BY <1>1 DEF Miruje, Poslovi, Nista

\* A request ends, or begins a task.
LEMMA ZahtjevTipovi ==
  ASSUME RobnoTipovi, NEW r \in Zahtjev
  PROVE  /\ Zavrsi(r) => zahtjev' \in [Zahtjev -> Poslovi]
         /\ \A d \in Dokument, pc \in {"uredi", "obrisi", "knjizi"} :
              Pocni(r, d, pc) => zahtjev' \in [Zahtjev -> Poslovi]
<1>1. Miruje \in Poslovi
  BY MirujePosao
<1>2. \A d \in Dokument, pc \in {"uredi", "obrisi", "knjizi"} :
        [Miruje EXCEPT !.pc = pc, !.dok = d] \in Poslovi
  BY <1>1 DEF Poslovi
<1> QED
  BY <1>1, <1>2 DEF RobnoTipovi, Zavrsi, Pocni

\* Actions that begin, go on with, or give up a request.
LEMMA TipoviZahtjeva ==
  ASSUME RobnoTipovi, NEW r \in Zahtjev,
         \/ \E d \in Dokument :
              \/ PocniIzmjenu(r, d) \/ OsvjeziPopis(r, d) \/ PocniKnjizenje(r, d)
              \/ PocniBrisanje(r, d)
         \/ PocniKalkulaciju(r) \/ ProcitajStanje(r) \/ UpisiStanje(r) \/ Odustani(r)
  PROVE  RobnoTipovi' /\ UNCHANGED <<dok, zalihe, zakljucena, istorija>>
<1>1. UNCHANGED <<dok, zalihe, zakljucena, istorija>>
  BY DEF PocniIzmjenu, OsvjeziPopis, PocniKnjizenje, PocniBrisanje, Pocni, PocniKalkulaciju,
         ProcitajStanje, UpisiStanje, Odustani
<1>2. zahtjev' \in [Zahtjev -> Poslovi]
  <2>1. CASE \E d \in Dokument :
               PocniIzmjenu(r, d) \/ PocniKnjizenje(r, d) \/ PocniBrisanje(r, d)
    BY <2>1, ZahtjevTipovi DEF PocniIzmjenu, PocniKnjizenje, PocniBrisanje
  <2>2. CASE \E d \in Dokument : OsvjeziPopis(r, d)
    <3>1. PICK d \in Dokument : OsvjeziPopis(r, d)
      BY <2>2
    <3>2. stanje[Mjesto[d]] \in [Artikal -> Int]
      BY RobnoPretpostavke DEF RobnoTipovi
    <3>3. [Miruje EXCEPT !.pc = "osvjezi", !.dok = d, !.slika = stanje[Mjesto[d]]] \in Poslovi
      BY <3>2, MirujePosao DEF Poslovi
    <3> QED
      BY <3>1, <3>3 DEF OsvjeziPopis, RobnoTipovi
  <2>3. CASE PocniKalkulaciju(r)
    <3>1. \A d \in Dokument : Stavke(d) \subseteq Artikal
      BY DEF Stavke
    <3>2. zahtjev[r] \in Poslovi
      BY DEF RobnoTipovi
    <3>3. [zahtjev[r] EXCEPT !.pc = "kalkulacija", !.ostalo = Stavke(zahtjev[r].dok)] \in Poslovi
      BY <3>1, <3>2 DEF Poslovi
    <3> QED
      BY <2>3, <3>3 DEF PocniKalkulaciju, RobnoTipovi
  <2>4. CASE ProcitajStanje(r)
    <3>1. zahtjev[r] \in Poslovi
      BY DEF RobnoTipovi
    <3>2. PICK a \in zahtjev[r].ostalo :
            zahtjev' = [zahtjev EXCEPT ![r].procitano = {a},
                                       ![r].slika[a] = stanje[Mjesto[zahtjev[r].dok]][a]]
      BY <2>4 DEF ProcitajStanje
    <3>3. a \in Artikal /\ stanje[Mjesto[zahtjev[r].dok]][a] \in Int
      BY <3>1, RobnoPretpostavke DEF RobnoTipovi, Poslovi
    <3>4. [zahtjev[r] EXCEPT !.procitano = {a},
             !.slika[a] = stanje[Mjesto[zahtjev[r].dok]][a]] \in Poslovi
      BY <3>1, <3>3 DEF Poslovi
    <3> QED
      BY <3>2, <3>4 DEF RobnoTipovi
  <2>5. CASE UpisiStanje(r)
    <3>1. zahtjev[r] \in Poslovi
      BY DEF RobnoTipovi
    <3>2. [zahtjev[r] EXCEPT !.procitano = {}, !.ostalo = @ \ zahtjev[r].procitano] \in Poslovi
      BY <3>1 DEF Poslovi
    <3> QED
      BY <2>5, <3>2 DEF UpisiStanje, RobnoTipovi
  <2>6. CASE Odustani(r)
    BY <2>6, ZahtjevTipovi DEF Odustani
  <2> QED
    BY <2>1, <2>2, <2>3, <2>4, <2>5, <2>6
<1> QED
  BY <1>1, <1>2 DEF RobnoTipovi, zalihe, istorija

\* A document that was not made yet is well formed.
LEMMA PraznaStrana == NemaDokumenta \in Podaci
BY DEF NemaDokumenta, Podaci, Statusi, Nista

\* Actions on one document that leave stock, card and requests alone.
LEMMA TipoviNacrta ==
  ASSUME RobnoTipovi, NEW d \in Dokument,
         \/ Kreiraj(d) \/ KreirajPopis(d) \/ PopuniPopis(d)
         \/ KreirajPovrat(d) \/ IzmijeniPovrat(d) \/ ObrisiPovrat(d)
  PROVE  RobnoTipovi' /\ UNCHANGED <<zalihe, zakljucena, zahtjev, istorija>>
<1>1. UNCHANGED <<zalihe, zakljucena, zahtjev, istorija>>
  BY DEF Kreiraj, KreirajPopis, PopuniPopis, KreirajPovrat, IzmijeniPovrat, ObrisiPovrat
<1>2. Kolicina \cup {0} \subseteq Int /\ Mjesto[d] \in Magacin /\ Roba[d] \subseteq Artikal
  BY RobnoPretpostavke
<1>3. dok[d] \in Podaci
  BY DEF RobnoTipovi
<1>4. dok' \in [Dokument -> Podaci]
  <2>1. CASE Kreiraj(d)
    <3>1. PICK S \in IF Je(d, {"prodaja"}) THEN [Artikal -> Kolicina \cup {0}] ELSE {Nista} :
            dok' = [dok EXCEPT ![d] = [NemaDokumenta EXCEPT !.status = "DRAFT", !.stavke = S]]
      BY <2>1 DEF Kreiraj
    <3>2. S \in [Artikal -> Int]
      BY <1>2 DEF Nista
    <3>3. [NemaDokumenta EXCEPT !.status = "DRAFT", !.stavke = S] \in Podaci
      BY <3>2, PraznaStrana DEF Podaci, Statusi
    <3> QED
      BY <3>1, <3>3 DEF RobnoTipovi
  <2>2. CASE KreirajPopis(d)
    <3>1. stanje[Mjesto[d]] \in [Artikal -> Int]
      BY <1>2 DEF RobnoTipovi
    <3>2. [NemaDokumenta EXCEPT !.status = "DRAFT", !.knjizno = stanje[Mjesto[d]]] \in Podaci
      BY <3>1, PraznaStrana DEF Podaci, Statusi
    <3> QED
      BY <2>2, <3>2 DEF KreirajPopis, RobnoTipovi
  <2>3. CASE PopuniPopis(d)
    <3> DEFINE S == [a \in Artikal |->
                       IF a \in dok[d].popisano THEN dok[d].stavke[a] ELSE dok[d].knjizno[a]]
    <3>1. S \in [Artikal -> Int]
      BY <1>3 DEF Podaci
    <3>2. [dok[d] EXCEPT !.popisano = Artikal, !.stavke = S] \in Podaci
      BY <1>3, <3>1 DEF Podaci
    <3>3. dok' = [dok EXCEPT ![d] = [dok[d] EXCEPT !.popisano = Artikal, !.stavke = S]]
      BY <2>3, <1>3 DEF PopuniPopis, RobnoTipovi, Podaci
    <3> QED
      BY <3>2, <3>3 DEF RobnoTipovi
  <2>4. CASE KreirajPovrat(d)
    <3>1. [NemaDokumenta EXCEPT !.status = "DRAFT"] \in Podaci
      BY PraznaStrana DEF Podaci, Statusi
    <3> QED
      BY <2>4, <3>1 DEF KreirajPovrat, RobnoTipovi
  <2>5. CASE IzmijeniPovrat(d)
    <3>1. PICK a \in Roba[d], q \in Kolicina \cup {0} : dok' = [dok EXCEPT ![d].stavke[a] = q]
      BY <2>5 DEF IzmijeniPovrat
    <3>2. [dok[d] EXCEPT !.stavke[a] = q] \in Podaci
      BY <1>2, <1>3 DEF Podaci
    <3> QED
      BY <3>1, <3>2 DEF RobnoTipovi
  <2>6. CASE ObrisiPovrat(d)
    <3>1. [dok[d] EXCEPT !.status = "DELETED"] \in Podaci
      BY <1>3 DEF Podaci, Statusi
    <3> QED
      BY <2>6, <3>1 DEF ObrisiPovrat, RobnoTipovi
  <2> QED
    BY <2>1, <2>2, <2>3, <2>4, <2>5, <2>6
<1> QED
  BY <1>1, <1>4 DEF RobnoTipovi, zalihe, istorija

\* A late edit remembers at most a document.
LEMMA KasnoTip ==
  ASSUME RobnoTipovi, NEW d \in Dokument, Zakasni(d)
  PROVE  kasno' \subseteq Dokument
BY DEF RobnoTipovi, Zakasni

\* Edits of a request that has seen a draft.
LEMMA TipoviIzmjene ==
  ASSUME RobnoTipovi, NEW r \in Zahtjev, IzmijeniStavku(r) \/ ObrisiNacrt(r) \/ UpisiSliku(r)
  PROVE  RobnoTipovi' /\ Zavrsi(r) /\ UNCHANGED <<zalihe, zakljucena, presjek, polovicno>>
<1> DEFINE d == zahtjev[r].dok
<1>1. d \in Dokument /\ zahtjev[r].slika \in [Artikal -> Int]
  BY DEF RobnoTipovi, Poslovi
<1>2. dok[d] \in Podaci /\ Kolicina \cup {0} \subseteq Int /\ Roba[d] \subseteq Artikal
  BY <1>1, RobnoPretpostavke DEF RobnoTipovi
<1>3. Zavrsi(r) /\ Zakasni(d) /\ UNCHANGED <<zalihe, zakljucena, presjek, polovicno>>
  BY DEF IzmijeniStavku, ObrisiNacrt, UpisiSliku
<1>4. dok' \in [Dokument -> Podaci]
  <2>1. CASE IzmijeniStavku(r)
    <3>1. PICK a \in Roba[d], q \in Kolicina \cup {0} :
            dok' = [dok EXCEPT ![d].stavke[a] = q,
                      ![d].popisano = IF Je(d, {"popis"}) THEN @ \cup {a} ELSE @,
                      ![d].vezano = IF q = 0 /\ ~Je(d, {"popis"}) THEN @ \ {a} ELSE @]
      BY <2>1 DEF IzmijeniStavku
    <3> DEFINE novi == [dok[d] EXCEPT !.stavke[a] = q,
                          !.popisano = IF Je(d, {"popis"}) THEN @ \cup {a} ELSE @,
                          !.vezano = IF q = 0 /\ ~Je(d, {"popis"}) THEN @ \ {a} ELSE @]
    <3>2. a \in Artikal /\ q \in Int
      BY <1>2
    <3>3. novi \in Podaci
      BY <1>2, <3>2 DEF Podaci
    <3>4. dok' = [dok EXCEPT ![d] = novi]
      BY <1>1, <1>2, <3>1 DEF RobnoTipovi, Podaci
    <3> QED
      BY <1>1, <3>3, <3>4 DEF RobnoTipovi
  <2>2. CASE ObrisiNacrt(r)
    <3>1. [dok[d] EXCEPT !.status = "DELETED"] \in Podaci
      BY <1>2 DEF Podaci, Statusi
    <3> QED
      BY <1>1, <2>2, <3>1 DEF ObrisiNacrt, RobnoTipovi
  <2>3. CASE UpisiSliku(r)
    <3>1. [dok[d] EXCEPT !.knjizno = zahtjev[r].slika] \in Podaci
      BY <1>1, <1>2 DEF Podaci
    <3> QED
      BY <1>1, <2>3, <3>1 DEF UpisiSliku, RobnoTipovi
  <2> QED
    BY <2>1, <2>2, <2>3
<1>5. zahtjev' \in [Zahtjev -> Poslovi]
  BY <1>3, ZahtjevTipovi
<1>6. kasno' \subseteq Dokument
  BY <1>1, <1>3, KasnoTip
<1> QED
  BY <1>3, <1>4, <1>5, <1>6 DEF RobnoTipovi, zalihe

---------------------------------------------------------------------------
(* Actions that move goods *)

\* Posting a document moves its lines.
LEMMA ProknjiziCuva ==
  ASSUME RobnoTipovi, LagerPratiPromet, NEW d \in Dokument, NEW s \in Statusi,
         Proknjizi(d, s), presjek' = presjek
  PROVE  /\ dok' \in [Dokument -> Podaci]
         /\ stanje' \in [Magacin -> [Artikal -> Int]]
         /\ kartica' \in [Magacin -> [Artikal -> Seq(Redovi)]]
         /\ LagerPratiPromet'
<1>1. Stavke(d) \subseteq Artikal
  BY DEF Stavke
<1>2. [dok[d] EXCEPT !.status = s, !.vezano = Stavke(d)] \in Podaci
  <2>1. dok[d] \in Podaci
    BY DEF RobnoTipovi
  <2> QED
    BY <1>1, <2>1 DEF Podaci
<1>3. dok' = [dok EXCEPT ![d] = [dok[d] EXCEPT !.status = s, !.vezano = Stavke(d)]]
  BY DEF Proknjizi, RobnoTipovi, Podaci
<1>4. dok' \in [Dokument -> Podaci]
  BY <1>2, <1>3 DEF RobnoTipovi
<1>5. Pomjeri(d, Stavke(d))
  BY DEF Proknjizi
<1> QED
  BY <1>4, <1>5, PomjeriCuva

\* A request posts a transfer, a write-off or a count, or part of one.
LEMMA ZahtjevKnjizi ==
  ASSUME RobnoTipovi, LagerPratiPromet, NEW r \in Zahtjev,
         ProknjiziIzlaz(r) \/ ProknjiziDio(r) \/ ProknjiziPopis(r)
  PROVE  RobnoTipovi' /\ LagerPratiPromet' /\ Zavrsi(r) /\ UNCHANGED <<zakljucena, presjek>>
<1> DEFINE d == zahtjev[r].dok
<1>1. d \in Dokument
  BY DEF RobnoTipovi, Poslovi
<1>2. Zavrsi(r) /\ UNCHANGED <<zakljucena, presjek, kasno>>
  BY DEF ProknjiziIzlaz, ProknjiziDio, ProknjiziPopis, istorija
<1>3. zahtjev' \in [Zahtjev -> Poslovi]
  BY <1>2, ZahtjevTipovi
<1>4. polovicno' \subseteq Dokument
  BY <1>1 DEF ProknjiziIzlaz, ProknjiziDio, ProknjiziPopis, istorija, RobnoTipovi
<1>5. /\ dok' \in [Dokument -> Podaci]
      /\ stanje' \in [Magacin -> [Artikal -> Int]]
      /\ kartica' \in [Magacin -> [Artikal -> Seq(Redovi)]]
      /\ LagerPratiPromet'
  <2>1. CASE ProknjiziIzlaz(r)
    <3>1. Proknjizi(d, "POSTED")
      BY <2>1 DEF ProknjiziIzlaz
    <3>2. "POSTED" \in Statusi
      BY DEF Statusi
    <3> QED
      BY <1>1, <1>2, <3>1, <3>2, ProknjiziCuva
  <2>2. CASE ProknjiziDio(r)
    <3>1. PICK A \in SUBSET (Stavke(d) \ dok[d].vezano) :
            Pomjeri(d, A) /\ dok' = [dok EXCEPT ![d].vezano = @ \cup A]
      BY <2>2 DEF ProknjiziDio
    <3>2. A \subseteq Artikal
      BY DEF Stavke
    <3>3. [dok[d] EXCEPT !.vezano = @ \cup A] \in Podaci
      <4>1. dok[d] \in Podaci
        BY <1>1 DEF RobnoTipovi
      <4> QED
        BY <3>2, <4>1 DEF Podaci
    <3>4. dok' \in [Dokument -> Podaci]
      BY <1>1, <3>1, <3>3 DEF RobnoTipovi
    <3> QED
      BY <1>1, <1>2, <3>1, <3>4, PomjeriCuva
  <2>3. CASE ProknjiziPopis(r)
    <3>1. "POSTED" \in Statusi /\ "COMPLETED" \in Statusi
      BY DEF Statusi
    <3>2. CASE Proknjizi(d, "POSTED")
      BY <1>1, <1>2, <3>1, <3>2, ProknjiziCuva
    <3>3. CASE Zakljuci(d)
      <4>1. dok[d] \in Podaci
        BY <1>1 DEF RobnoTipovi
      <4>2. [dok[d] EXCEPT !.status = "COMPLETED"] \in Podaci
        BY <3>1, <4>1 DEF Podaci
      <4>3. dok' \in [Dokument -> Podaci] /\ UNCHANGED zalihe
        BY <1>1, <3>3, <4>2 DEF Zakljuci, RobnoTipovi
      <4>4. LagerPratiPromet'
        BY <1>2, <4>3, BezPrometa
      <4> QED
        BY <4>3, <4>4 DEF zalihe, RobnoTipovi
    <3> QED
      BY <2>3, <3>2, <3>3 DEF ProknjiziPopis
  <2> QED
    BY <2>1, <2>2, <2>3
<1> QED
  BY <1>2, <1>3, <1>4, <1>5 DEF RobnoTipovi

\* A delivery or a return is posted in one step.
LEMMA OdmahKnjizi ==
  ASSUME RobnoTipovi, LagerPratiPromet, NEW d \in Dokument, Isporuci(d) \/ ProknjiziPovrat(d)
  PROVE  RobnoTipovi' /\ LagerPratiPromet' /\ UNCHANGED <<zakljucena, zahtjev, istorija>>
<1>1. Proknjizi(d, "POSTED") /\ UNCHANGED <<zakljucena, zahtjev, istorija>>
  BY DEF Isporuci, ProknjiziPovrat
<1>2. "POSTED" \in Statusi
  BY DEF Statusi
<1>3. /\ dok' \in [Dokument -> Podaci]
      /\ stanje' \in [Magacin -> [Artikal -> Int]]
      /\ kartica' \in [Magacin -> [Artikal -> Seq(Redovi)]]
      /\ LagerPratiPromet'
  BY <1>1, <1>2, ProknjiziCuva DEF istorija
<1> QED
  BY <1>1, <1>3 DEF RobnoTipovi, istorija

\* A calculation's commit: where it writes over what others did, presjek remembers it.
LEMMA KalkulacijaCuva ==
  ASSUME RobnoTipovi, LagerPratiPromet, NEW r \in Zahtjev, PotvrdiKalkulaciju(r)
  PROVE  RobnoTipovi' /\ LagerPratiPromet' /\ Zavrsi(r) /\ UNCHANGED zakljucena
<1> DEFINE d == zahtjev[r].dok
           m == Mjesto[d]
           slika == zahtjev[r].slika
           K == Stavke(d)
           red(a) == Zapis(kartica[m][a], d, dok[d].stavke[a])
<1>1. /\ d \in Dokument /\ m \in Magacin /\ slika \in [Artikal -> Int]
      /\ dok[d] \in Podaci /\ K \subseteq Artikal
  BY RobnoPretpostavke DEF RobnoTipovi, Poslovi, Stavke
<1>2. \A a \in Artikal : /\ dok[d].stavke[a] \in Int /\ stanje[m][a] \in Int
                         /\ kartica[m][a] \in Seq(Redovi) /\ slika[a] \in Int
  BY <1>1 DEF RobnoTipovi, Podaci
<1>3. \A a \in Artikal : /\ red(a) \in Seq(Redovi)
                         /\ SaldoReda(red(a)) = SaldoReda(kartica[m][a]) + dok[d].stavke[a]
  BY <1>1, <1>2, ZapisSabira
<1>4. /\ stanje' = [stanje EXCEPT ![m] = [a \in Artikal |->
           IF a \in K THEN slika[a] + dok[d].stavke[a] ELSE stanje[m][a]]]
      /\ kartica' = [kartica EXCEPT ![m] = [a \in Artikal |->
           IF a \in K THEN red(a) ELSE kartica[m][a]]]
      /\ presjek' = presjek \cup {<<m, a>> : a \in {b \in K : slika[b] # stanje[m][b]}}
      /\ dok' = [dok EXCEPT ![d].status = "POSTED", ![d].vezano = K]
      /\ Zavrsi(r) /\ UNCHANGED <<zakljucena, kasno, polovicno>>
  <2>1. \A a \in K : [b \in Artikal |-> slika[b] + dok[d].stavke[b]][a]
                       = slika[a] + dok[d].stavke[a]
    BY <1>1
  <2> QED
    BY <1>1, <2>1 DEF PotvrdiKalkulaciju, RobnoTipovi
<1> HIDE DEF red, K, slika, m, d
<1>5. /\ stanje' \in [Magacin -> [Artikal -> Int]]
      /\ kartica' \in [Magacin -> [Artikal -> Seq(Redovi)]]
  <2>1. [a \in Artikal |-> IF a \in K THEN slika[a] + dok[d].stavke[a] ELSE stanje[m][a]]
          \in [Artikal -> Int]
    BY <1>2
  <2>2. [a \in Artikal |-> IF a \in K THEN red(a) ELSE kartica[m][a]] \in [Artikal -> Seq(Redovi)]
    BY <1>2, <1>3
  <2> QED
    BY <1>1, <1>4, <2>1, <2>2 DEF RobnoTipovi
<1>6. dok' \in [Dokument -> Podaci]
  <2>1. [dok[d] EXCEPT !.status = "POSTED", !.vezano = K] \in Podaci
    BY <1>1 DEF Podaci, Statusi
  <2>2. dok' = [dok EXCEPT ![d] = [dok[d] EXCEPT !.status = "POSTED", !.vezano = K]]
    BY <1>1, <1>4 DEF RobnoTipovi, Podaci
  <2> QED
    BY <1>1, <2>1, <2>2 DEF RobnoTipovi
<1>7. presjek' \subseteq Magacin \X Artikal
  BY <1>1, <1>4 DEF RobnoTipovi
<1>8. zahtjev' \in [Zahtjev -> Poslovi]
  BY <1>4, ZahtjevTipovi
<1>9. ASSUME NEW n \in Magacin, NEW a \in Artikal, <<n, a>> \notin presjek'
      PROVE  stanje'[n][a] = SaldoReda(kartica'[n][a])
  <2>1. stanje[n][a] = SaldoReda(kartica[n][a])
    BY <1>4, <1>9 DEF LagerPratiPromet, Saldo
  <2>2. CASE n = m /\ a \in K
    <3>1. slika[a] = stanje[m][a]
      BY <1>4, <1>9, <2>2
    <3>2. stanje'[m][a] = slika[a] + dok[d].stavke[a] /\ kartica'[m][a] = red(a)
      BY <1>1, <1>4, <2>2 DEF RobnoTipovi
    <3> QED
      BY <1>3, <2>1, <2>2, <3>1, <3>2
  <2>3. CASE ~(n = m /\ a \in K)
    <3>1. stanje'[n][a] = stanje[n][a] /\ kartica'[n][a] = kartica[n][a]
      BY <1>1, <1>4, <2>3 DEF RobnoTipovi
    <3> QED
      BY <2>1, <3>1
  <2> QED
    BY <2>2, <2>3
<1> QED
  BY <1>4, <1>5, <1>6, <1>7, <1>8, <1>9 DEF RobnoTipovi, LagerPratiPromet, Saldo

\* A deleted calculation takes back from the stock what its movements recorded.
LEMMA BrisanjeCuva ==
  ASSUME RobnoTipovi, LagerPratiPromet, NEW d \in Dokument, ObrisiKalkulaciju(d)
  PROVE  RobnoTipovi' /\ LagerPratiPromet' /\ UNCHANGED <<zakljucena, zahtjev, istorija>>
<1> DEFINE m == Mjesto[d]
           K == {a \in Artikal : Ulazi(d, a) # {}}
           q(a) == Primljeno(d, a)
           red(a) == Zapis(kartica[m][a], d, -q(a))
<1>1. m \in Magacin /\ dok[d] \in Podaci
  BY RobnoPretpostavke DEF RobnoTipovi
<1>2. \A a \in Artikal : stanje[m][a] \in Int /\ kartica[m][a] \in Seq(Redovi)
  BY <1>1 DEF RobnoTipovi
<1>3. \A a \in K : q(a) \in Int
  <2> TAKE a \in K
  <2>1. (CHOOSE i \in Ulazi(d, a) : TRUE) \in Ulazi(d, a)
    OBVIOUS
  <2>2. (CHOOSE i \in Ulazi(d, a) : TRUE) \in DOMAIN kartica[m][a]
    BY <2>1 DEF Ulazi
  <2>3. kartica[m][a][CHOOSE i \in Ulazi(d, a) : TRUE] \in Redovi
    BY <1>2, <2>2
  <2> QED
    BY <2>3 DEF Primljeno, Redovi
<1>4. \A a \in K : /\ red(a) \in Seq(Redovi)
                   /\ SaldoReda(kartica[m][a]) \in Int
                   /\ SaldoReda(red(a)) = SaldoReda(kartica[m][a]) - q(a)
  <2> TAKE a \in K
  <2>1. -q(a) \in Int /\ kartica[m][a] \in Seq(Redovi)
    BY <1>2, <1>3
  <2>2. /\ red(a) \in Seq(Redovi) /\ SaldoReda(kartica[m][a]) \in Int
        /\ SaldoReda(red(a)) = SaldoReda(kartica[m][a]) + (-q(a))
    BY <2>1, ZapisSabira
  <2> QED
    BY <1>3, <2>2
<1>5. /\ stanje' = [stanje EXCEPT ![m] = [a \in Artikal |->
           IF a \in K THEN stanje[m][a] - q(a) ELSE stanje[m][a]]]
      /\ kartica' = [kartica EXCEPT ![m] = [a \in Artikal |->
           IF a \in K THEN red(a) ELSE kartica[m][a]]]
      /\ dok' = [dok EXCEPT ![d].status = "DELETED"]
      /\ UNCHANGED <<zakljucena, zahtjev, istorija>>
  BY <1>1 DEF ObrisiKalkulaciju, RobnoTipovi
<1> HIDE DEF red, K, q, m
<1>6. /\ stanje' \in [Magacin -> [Artikal -> Int]]
      /\ kartica' \in [Magacin -> [Artikal -> Seq(Redovi)]]
  <2>1. [a \in Artikal |-> IF a \in K THEN stanje[m][a] - q(a) ELSE stanje[m][a]]
          \in [Artikal -> Int]
    BY <1>2, <1>3
  <2>2. [a \in Artikal |-> IF a \in K THEN red(a) ELSE kartica[m][a]] \in [Artikal -> Seq(Redovi)]
    BY <1>2, <1>4
  <2> QED
    BY <1>1, <1>5, <2>1, <2>2 DEF RobnoTipovi
<1>7. dok' \in [Dokument -> Podaci]
  <2>1. [dok[d] EXCEPT !.status = "DELETED"] \in Podaci
    BY <1>1 DEF Podaci, Statusi
  <2> QED
    BY <1>5, <2>1 DEF RobnoTipovi
<1>8. ASSUME NEW n \in Magacin, NEW a \in Artikal, <<n, a>> \notin presjek
      PROVE  stanje'[n][a] = SaldoReda(kartica'[n][a])
  <2>1. stanje[n][a] = SaldoReda(kartica[n][a])
    BY <1>8 DEF LagerPratiPromet, Saldo
  <2>2. CASE n = m /\ a \in K
    <3>1. stanje'[m][a] = stanje[m][a] - q(a) /\ kartica'[m][a] = red(a)
      BY <1>1, <1>5, <2>2 DEF RobnoTipovi
    <3> QED
      BY <1>4, <2>1, <2>2, <3>1
  <2>3. CASE ~(n = m /\ a \in K)
    <3>1. stanje'[n][a] = stanje[n][a] /\ kartica'[n][a] = kartica[n][a]
      BY <1>1, <1>5, <2>3 DEF RobnoTipovi
    <3> QED
      BY <2>1, <3>1
  <2> QED
    BY <2>2, <2>3
<1> QED
  BY <1>5, <1>6, <1>7, <1>8 DEF RobnoTipovi, LagerPratiPromet, Saldo, istorija

---------------------------------------------------------------------------
(* The invariant *)

\* The steps that leave a request's posting of a calculation as it is, or begin or end it.
LEMMA GodinaOstaje ==
  ASSUME RobnoTipovi, KnjizenjeDrziGodinu, NEW r \in Zahtjev,
         Korak(r)
  PROVE  KnjizenjeDrziGodinu'
<1>1. zahtjev \in [Zahtjev -> Poslovi] /\ Miruje.pc = "miruje"
  BY DEF RobnoTipovi, Miruje
<1>2. zakljucena' = zakljucena
  BY DEF Korak, PocniIzmjenu, OsvjeziPopis, PocniKnjizenje, PocniBrisanje, Pocni, IzmijeniStavku,
         ObrisiNacrt, UpisiSliku, PocniKalkulaciju, ProcitajStanje, UpisiStanje,
         PotvrdiKalkulaciju, ProknjiziIzlaz, ProknjiziDio, ProknjiziPopis, Odustani
<1>3. CASE Zavrsi(r)
  BY <1>1, <1>2, <1>3 DEF KnjizenjeDrziGodinu, Knjizi, Zavrsi
<1>4. CASE \E d \in Dokument : \/ PocniIzmjenu(r, d) \/ OsvjeziPopis(r, d)
                               \/ PocniKnjizenje(r, d) \/ PocniBrisanje(r, d)
  <2>1. /\ \A q \in Zahtjev \ {r} : zahtjev'[q] = zahtjev[q]
        /\ zahtjev'[r].pc \in {"uredi", "obrisi", "knjizi", "osvjezi"}
    BY <1>1, <1>4 DEF PocniIzmjenu, OsvjeziPopis, PocniKnjizenje, PocniBrisanje, Pocni, Miruje
  <2> QED
    BY <1>2, <2>1 DEF KnjizenjeDrziGodinu, Knjizi
<1>5. CASE PocniKalkulaciju(r)
  <2>1. zahtjev' = [zahtjev EXCEPT ![r].pc = "kalkulacija", ![r].ostalo = Stavke(zahtjev[r].dok)]
    BY <1>5 DEF PocniKalkulaciju
  <2>2. /\ \A q \in Zahtjev : zahtjev'[q].dok = zahtjev[q].dok
        /\ \A q \in Zahtjev \ {r} : zahtjev'[q].pc = zahtjev[q].pc
    BY <1>1, <2>1 DEF Poslovi
  <2>3. ~zakljucena /\ Je(zahtjev[r].dok, {"kalkulacija"})
    BY <1>5 DEF PocniKalkulaciju, Radi
  <2>4. \A q \in Zahtjev :
          Je(zahtjev'[q].dok, {"kalkulacija"}) <=> Je(zahtjev[q].dok, {"kalkulacija"})
    BY <2>2
  <2>5. \A q \in Zahtjev \ {r} : Knjizi(q)' <=> Knjizi(q)
    BY <2>2 DEF Knjizi
  <2> QED
    BY <1>2, <2>3, <2>4, <2>5 DEF KnjizenjeDrziGodinu, Je
<1>6. CASE ProcitajStanje(r) \/ UpisiStanje(r)
  <2>1. \A q \in Zahtjev : zahtjev'[q].dok = zahtjev[q].dok /\ zahtjev'[q].pc = zahtjev[q].pc
    <3>1. CASE ProcitajStanje(r)
      <4>1. PICK a \in zahtjev[r].ostalo :
              zahtjev' = [zahtjev EXCEPT ![r].procitano = {a},
                                         ![r].slika[a] = stanje[Mjesto[zahtjev[r].dok]][a]]
        BY <3>1 DEF ProcitajStanje
      <4> QED
        BY <1>1, <4>1 DEF Poslovi
    <3>2. CASE UpisiStanje(r)
      <4>1. zahtjev' = [zahtjev EXCEPT ![r].procitano = {},
                                       ![r].ostalo = @ \ zahtjev[r].procitano]
        BY <3>2 DEF UpisiStanje
      <4> QED
        BY <1>1, <4>1 DEF Poslovi
    <3> QED
      BY <1>6, <3>1, <3>2
  <2> QED
    BY <1>2, <2>1 DEF KnjizenjeDrziGodinu, Knjizi, Je
<1> QED
  BY <1>3, <1>4, <1>5, <1>6
  DEF Korak, IzmijeniStavku, ObrisiNacrt, UpisiSliku, PotvrdiKalkulaciju, ProknjiziIzlaz,
      ProknjiziDio, ProknjiziPopis, Odustani

\* The empty warehouse satisfies the invariant.
LEMMA PocetakOK == Init => RobnoInv
<1> SUFFICES ASSUME Init PROVE RobnoInv
  OBVIOUS
<1>1. RobnoTipovi
  <2>1. Nista \in [Artikal -> Int] /\ <<>> \in Seq(Redovi)
    BY DEF Nista
  <2> QED
    BY <2>1, PraznaStrana, MirujePosao DEF Init, RobnoTipovi
<1>2. KnjizenjeDrziGodinu
  BY DEF Init, KnjizenjeDrziGodinu, Knjizi, Miruje
<1>3. LagerPratiPromet
  BY DEF Init, LagerPratiPromet, Saldo, SaldoReda, Nista
<1> QED
  BY <1>1, <1>2, <1>3 DEF RobnoInv

\* Every step of a request, every action of one step and a stutter keep the invariant.
LEMMA KorakOK == RobnoInv /\ [Next]_vars => RobnoInv'
<1> SUFFICES ASSUME RobnoInv, [Next]_vars PROVE RobnoInv'
  OBVIOUS
<1> USE DEF RobnoInv
<1>1. CASE UNCHANGED vars
  BY <1>1 DEF vars, zalihe, istorija, RobnoTipovi, KnjizenjeDrziGodinu, Knjizi, LagerPratiPromet,
              Saldo, Je
<1>2. ASSUME NEW r \in Zahtjev, Korak(r) PROVE RobnoInv'
  <2>1. CASE \/ \E d \in Dokument :
                  \/ PocniIzmjenu(r, d) \/ OsvjeziPopis(r, d) \/ PocniKnjizenje(r, d)
                  \/ PocniBrisanje(r, d)
             \/ PocniKalkulaciju(r) \/ ProcitajStanje(r) \/ UpisiStanje(r) \/ Odustani(r)
    <3>1. RobnoTipovi' /\ UNCHANGED <<zalihe, istorija>>
      BY <2>1, TipoviZahtjeva
    <3>2. LagerPratiPromet'
      BY <3>1, BezPrometa DEF istorija
    <3> QED
      BY <1>2, <3>1, <3>2, GodinaOstaje
  <2>2. CASE IzmijeniStavku(r) \/ ObrisiNacrt(r) \/ UpisiSliku(r)
    BY <1>2, <2>2, TipoviIzmjene, BezPrometa, GodinaOstaje
  <2>3. CASE ProknjiziIzlaz(r) \/ ProknjiziDio(r) \/ ProknjiziPopis(r)
    BY <1>2, <2>3, ZahtjevKnjizi, GodinaOstaje
  <2>4. CASE PotvrdiKalkulaciju(r)
    BY <1>2, <2>4, KalkulacijaCuva, GodinaOstaje
  <2> QED
    BY <1>2, <2>1, <2>2, <2>3, <2>4 DEF Korak
<1>3. ASSUME NEW d \in Dokument,
             \/ Kreiraj(d) \/ KreirajPopis(d) \/ PopuniPopis(d)
             \/ KreirajPovrat(d) \/ IzmijeniPovrat(d) \/ ObrisiPovrat(d)
      PROVE  RobnoInv'
  <2>1. RobnoTipovi' /\ UNCHANGED <<zalihe, zakljucena, zahtjev, istorija>>
    BY <1>3, TipoviNacrta
  <2>2. LagerPratiPromet'
    BY <2>1, BezPrometa DEF istorija
  <2> QED
    BY <2>1, <2>2 DEF KnjizenjeDrziGodinu, Knjizi, Je
<1>4. ASSUME NEW d \in Dokument, Isporuci(d) \/ ProknjiziPovrat(d)
      PROVE  RobnoInv'
  BY <1>4, OdmahKnjizi DEF KnjizenjeDrziGodinu, Knjizi, Je
<1>5. ASSUME NEW d \in Dokument, ObrisiKalkulaciju(d) PROVE RobnoInv'
  BY <1>5, BrisanjeCuva DEF KnjizenjeDrziGodinu, Knjizi, Je
<1>6. CASE ZatvoriOtvori
  <2>1. UNCHANGED <<dok, zalihe, zahtjev, istorija>> /\ zakljucena' \in BOOLEAN
    BY <1>6 DEF ZatvoriOtvori, RobnoTipovi
  <2>2. RobnoTipovi'
    BY <2>1 DEF RobnoTipovi, zalihe, istorija
  <2>3. LagerPratiPromet'
    BY <2>1, BezPrometa DEF istorija
  <2>4. KnjizenjeDrziGodinu'
    BY <1>6, <2>1 DEF ZatvoriOtvori, GodinaSlobodna, KnjizenjeDrziGodinu, Knjizi
  <2> QED
    BY <2>2, <2>3, <2>4
<1> QED
  BY <1>1, <1>2, <1>3, <1>4, <1>5, <1>6 DEF Next

\* The inductive invariant holds in every reachable state.
THEOREM RobnoInduktivna == Spec => []RobnoInv
BY PocetakOK, KorakOK, PTL DEF Spec

\* Documents, stock, cards and requests are always well formed.
THEOREM RobnoTipoviOK == Spec => []RobnoTipovi
<1>1. RobnoInv => RobnoTipovi
  BY DEF RobnoInv
<1> QED
  BY <1>1, RobnoInduktivna, PTL

\* Whatever documents are posted, counted, returned and deleted at the same time, the stock
\* list shows what the item's card adds up to, but where a calculation's posting wrote over
\* what was done since it read the stock.
THEOREM LagerUvijekPratiPromet == Spec => []LagerPratiPromet
<1>1. RobnoInv => LagerPratiPromet
  BY DEF RobnoInv
<1> QED
  BY <1>1, RobnoInduktivna, PTL

---------------------------------------------------------------------------
(* A closed year *)

\* A card that a document's movement makes longer ends with that document.
LEMMA PomjeriPise ==
  ASSUME RobnoTipovi, NEW d \in Dokument, NEW A, Pomjeri(d, A),
         NEW m \in Magacin, NEW a \in Artikal, Len(kartica'[m][a]) > Len(kartica[m][a])
  PROVE  kartica'[m][a][Len(kartica'[m][a])].dok = d
<1> DEFINE q == Promjena(d, m, a)
           k == kartica[m][a]
<1>1. q \in Int /\ k \in Seq(Redovi)
  BY PromjenaBroj DEF RobnoTipovi
<1>2. Len(Zapis(k, d, q)) = Len(k) + 1 /\ Zapis(k, d, q)[Len(k) + 1].dok = d
  BY <1>1, ZapisSabira
<1>3. kartica'[m][a] = IF a \in A /\ q # 0 THEN Zapis(k, d, q) ELSE k
  BY DEF Pomjeri
<1>4. kartica'[m][a] = Zapis(k, d, q)
  BY <1>1, <1>3
<1> QED
  BY <1>2, <1>4

\* This step writes no movement of a calculation or a return at the end of a card.
NabavkaMiruje ==
  \A m \in Magacin, a \in Artikal :
    LET k == kartica'[m][a]
    IN Len(k) > Len(kartica[m][a]) => ~Je(k[Len(k)].dok, {"kalkulacija", "povrat"})

\* A step that leaves the cards alone.
LEMMA BezKretanja ==
  ASSUME RobnoTipovi, kartica' = kartica
  PROVE  NabavkaMiruje
BY DEF RobnoTipovi, NabavkaMiruje

\* A movement of any other document.
LEMMA DrugiDokument ==
  ASSUME RobnoTipovi, NEW d \in Dokument, NEW A, Pomjeri(d, A), ~Je(d, {"kalkulacija", "povrat"})
  PROVE  NabavkaMiruje
BY PomjeriPise DEF NabavkaMiruje

\* In a closed year no step is a movement of a calculation or a return: a calculation's
\* posting holds the year's row, so the year cannot have been closed since it looked.
LEMMA ZakljucenoMiruje ==
  ASSUME RobnoInv, [Next]_vars, zakljucena
  PROVE  NabavkaMiruje
<1> USE DEF RobnoInv
<1>1. CASE UNCHANGED vars
  BY <1>1, BezKretanja DEF vars, zalihe
<1>2. ASSUME NEW r \in Zahtjev, Korak(r) PROVE NabavkaMiruje
  <2> DEFINE d == zahtjev[r].dok
  <2>1. d \in Dokument
    BY DEF RobnoTipovi, Poslovi
  <2>2. CASE ~(ProknjiziIzlaz(r) \/ ProknjiziDio(r) \/ ProknjiziPopis(r) \/ PotvrdiKalkulaciju(r))
    <3>1. UNCHANGED zalihe
      BY <1>2, <2>2 DEF Korak, PocniIzmjenu, OsvjeziPopis, PocniKnjizenje, PocniBrisanje, Pocni,
           IzmijeniStavku, ObrisiNacrt, UpisiSliku, PocniKalkulaciju, ProcitajStanje,
           UpisiStanje, Odustani
    <3> QED
      BY <3>1, BezKretanja DEF zalihe
  <2>3. CASE ProknjiziIzlaz(r) \/ ProknjiziDio(r) \/ ProknjiziPopis(r)
    <3>1. ~Je(d, {"kalkulacija", "povrat"})
      BY <2>3 DEF ProknjiziIzlaz, ProknjiziDio, ProknjiziPopis, Radi, Je
    <3>2. (\E A : Pomjeri(d, A)) \/ UNCHANGED zalihe
      BY <2>3 DEF ProknjiziIzlaz, ProknjiziDio, ProknjiziPopis, Proknjizi, Zakljuci
    <3> QED
      BY <2>1, <3>1, <3>2, DrugiDokument, BezKretanja DEF zalihe
  <2>4. CASE PotvrdiKalkulaciju(r)
    BY <2>4 DEF PotvrdiKalkulaciju, KnjizenjeDrziGodinu
  <2> QED
    BY <2>2, <2>3, <2>4
<1>3. ASSUME NEW d \in Dokument,
             \/ Kreiraj(d) \/ KreirajPopis(d) \/ PopuniPopis(d)
             \/ KreirajPovrat(d) \/ IzmijeniPovrat(d) \/ ObrisiPovrat(d)
      PROVE  NabavkaMiruje
  BY <1>3, TipoviNacrta, BezKretanja DEF zalihe
<1>4. ASSUME NEW d \in Dokument, Isporuci(d) PROVE NabavkaMiruje
  <2>1. Pomjeri(d, Stavke(d)) /\ ~Je(d, {"kalkulacija", "povrat"})
    BY <1>4 DEF Isporuci, Proknjizi, Je
  <2> QED
    BY <2>1, DrugiDokument
<1>5. ASSUME NEW d \in Dokument, ProknjiziPovrat(d) \/ ObrisiKalkulaciju(d) PROVE FALSE
  BY <1>5 DEF ProknjiziPovrat, Povrat, ObrisiKalkulaciju
<1>6. CASE ZatvoriOtvori
  BY <1>6, BezKretanja DEF ZatvoriOtvori, zalihe
<1> QED
  BY <1>1, <1>2, <1>3, <1>4, <1>5, <1>6 DEF Next

\* However late the year is closed while a calculation or a return is being posted, neither
\* moves goods in the closed year.
THEOREM GodinaStitiNabavku == Spec => ZakljucenaGodinaBezNabavke
<1>1. RobnoInv /\ [Next]_vars =>
        [zakljucena => \A m \in Magacin, a \in Artikal :
           LET k == kartica'[m][a]
           IN Len(k) > Len(kartica[m][a]) => ~Je(k[Len(k)].dok, {"kalkulacija", "povrat"})]_vars
  BY ZakljucenoMiruje DEF NabavkaMiruje
<1> QED
  BY <1>1, RobnoInduktivna, PTL DEF Spec, ZakljucenaGodinaBezNabavke

---------------------------------------------------------------------------
(* A count *)

\* Posting a count sets its warehouse to what was counted and touches only what still is as
\* in its snapshot.
LEMMA PopisPostavlja ==
  ASSUME RobnoTipovi, NEW d \in Dokument, Je(d, {"popis"}), Pomjeri(d, Stavke(d)),
         stanje[Mjesto[d]] = dok[d].knjizno
  PROVE  /\ stanje'[Mjesto[d]] = dok[d].stavke
         /\ \A m \in Magacin, a \in Artikal :
              kartica'[m][a] # kartica[m][a] => stanje[m][a] = dok[d].knjizno[a]
<1>1. Stavke(d) = Artikal
  BY DEF Stavke
<1>2. Mjesto[d] \in Magacin /\ dok[d] \in Podaci
  BY RobnoPretpostavke DEF RobnoTipovi
<1>3. Vrsta[d] = "popis"
  BY DEF Je
<1>4. \A m \in Magacin, a \in Artikal :
        Promjena(d, m, a) = IF m = Mjesto[d] THEN dok[d].stavke[a] - dok[d].knjizno[a] ELSE 0
  BY <1>3 DEF Promjena, Je
<1>5. \A a \in Artikal : stanje'[Mjesto[d]][a] = dok[d].stavke[a]
  <2> TAKE a \in Artikal
  <2>1. dok[d].stavke[a] \in Int /\ dok[d].knjizno[a] \in Int
    BY <1>2 DEF Podaci
  <2>2. stanje'[Mjesto[d]][a] = stanje[Mjesto[d]][a] + Promjena(d, Mjesto[d], a)
    BY <1>1, <1>2 DEF Pomjeri
  <2> QED
    BY <1>2, <1>4, <2>1, <2>2
<1>6. stanje'[Mjesto[d]] = [a \in Artikal |-> stanje'[Mjesto[d]][a]]
  BY <1>2 DEF Pomjeri
<1>7. dok[d].stavke = [a \in Artikal |-> dok[d].stavke[a]]
  BY <1>2 DEF Podaci
<1>8. stanje'[Mjesto[d]] = dok[d].stavke
  BY <1>5, <1>6, <1>7
<1>9. ASSUME NEW m \in Magacin, NEW a \in Artikal, kartica'[m][a] # kartica[m][a]
      PROVE  stanje[m][a] = dok[d].knjizno[a]
  <2>1. Promjena(d, m, a) # 0
    BY <1>9 DEF Pomjeri
  <2> QED
    BY <1>4, <2>1
<1> QED
  BY <1>8, <1>9

\* This step posts or completes the count; it leaves the stock as counted, or as it was.
PopisKonacan(d) == dok'[d].status \in {"POSTED", "COMPLETED"}
PopisPostavljen(d) ==
  /\ stanje'[Mjesto[d]] = IF dok'[d].status = "POSTED" THEN dok[d].stavke ELSE dok[d].knjizno
  /\ \A m \in Magacin, a \in Artikal :
       kartica'[m][a] # kartica[m][a] => stanje[m][a] = dok[d].knjizno[a]

\* Only the posting of a count ends its draft so.
LEMMA PopisSeKnjizi ==
  ASSUME RobnoInv, [Next]_vars, NEW d \in Dokument, Je(d, {"popis"}), Status(d, "DRAFT"),
         PopisKonacan(d)
  PROVE  PopisPostavljen(d)
<1> USE DEF RobnoInv
<1>1. dok \in [Dokument -> Podaci] /\ dok[d].status = "DRAFT" /\ dok'[d].status # dok[d].status
  BY DEF RobnoTipovi, Status, PopisKonacan
<1>2. CASE UNCHANGED vars
  BY <1>1, <1>2 DEF vars
<1>3. ASSUME NEW r \in Zahtjev, Korak(r) PROVE PopisPostavljen(d)
  <2> DEFINE e == zahtjev[r].dok
  <2>1. e \in Dokument
    BY DEF RobnoTipovi, Poslovi
  <2>2. CASE ProknjiziPopis(r)
    <3>1. stanje[Mjesto[e]] = dok[e].knjizno
      BY <2>2 DEF ProknjiziPopis
    <3>2. CASE Proknjizi(e, "POSTED")
      <4>1. e = d
        BY <1>1, <2>1, <3>2 DEF Proknjizi
      <4>2. dok'[d].status = "POSTED"
        BY <1>1, <3>2, <4>1 DEF Proknjizi, Podaci
      <4> QED
        BY <3>1, <3>2, <4>1, <4>2, PopisPostavlja DEF Proknjizi, PopisPostavljen
    <3>3. CASE Zakljuci(e)
      <4>1. e = d
        BY <1>1, <2>1, <3>3 DEF Zakljuci
      <4>2. dok'[d].status = "COMPLETED"
        BY <1>1, <3>3, <4>1 DEF Zakljuci, Podaci
      <4> QED
        BY <3>1, <3>3, <4>1, <4>2 DEF Zakljuci, zalihe, PopisPostavljen
    <3> QED
      BY <2>2, <3>2, <3>3 DEF ProknjiziPopis
  <2>3. CASE PotvrdiKalkulaciju(r)
    <3>1. Je(e, {"kalkulacija"})
      BY <2>3 DEF PotvrdiKalkulaciju, KnjizenjeDrziGodinu
    <3>2. e # d
      BY <3>1 DEF Je
    <3> QED
      BY <1>1, <2>1, <2>3, <3>2 DEF PotvrdiKalkulaciju
  <2>4. CASE ProknjiziIzlaz(r) \/ ProknjiziDio(r)
    <3>1. e # d
      BY <2>4 DEF ProknjiziIzlaz, ProknjiziDio, Radi, Je
    <3>2. dok'[d] = dok[d]
      BY <1>1, <2>1, <2>4, <3>1 DEF ProknjiziIzlaz, ProknjiziDio, Proknjizi
    <3> QED
      BY <1>1, <3>2
  <2>5. CASE IzmijeniStavku(r) \/ UpisiSliku(r)
    <3>1. dok'[d].status = dok[d].status
      <4>1. dok[d] \in Podaci /\ dok[e] \in Podaci
        BY <1>1, <2>1
      <4>2. CASE IzmijeniStavku(r)
        <5>1. PICK a \in Roba[e], q \in Kolicina \cup {0} :
                dok' = [dok EXCEPT ![e].stavke[a] = q,
                          ![e].popisano = IF Je(e, {"popis"}) THEN @ \cup {a} ELSE @,
                          ![e].vezano = IF q = 0 /\ ~Je(e, {"popis"}) THEN @ \ {a} ELSE @]
          BY <4>2 DEF IzmijeniStavku
        <5> QED
          BY <1>1, <2>1, <4>1, <5>1 DEF Podaci
      <4>3. CASE UpisiSliku(r)
        <5>1. dok' = [dok EXCEPT ![e].knjizno = zahtjev[r].slika]
          BY <4>3 DEF UpisiSliku
        <5> QED
          BY <1>1, <2>1, <4>1, <5>1 DEF Podaci
      <4> QED
        BY <2>5, <4>2, <4>3
    <3> QED
      BY <1>1, <3>1
  <2>6. CASE ObrisiNacrt(r)
    <3>1. dok'[d].status \in {"DRAFT", "DELETED"}
      BY <1>1, <2>1, <2>6 DEF ObrisiNacrt, Podaci
    <3> QED
      BY <3>1 DEF PopisKonacan
  <2>7. CASE \/ \E f \in Dokument :
                  \/ PocniIzmjenu(r, f) \/ OsvjeziPopis(r, f) \/ PocniKnjizenje(r, f)
                  \/ PocniBrisanje(r, f)
             \/ PocniKalkulaciju(r) \/ ProcitajStanje(r) \/ UpisiStanje(r) \/ Odustani(r)
    BY <1>1, <2>7, TipoviZahtjeva
  <2> QED
    BY <1>3, <2>2, <2>3, <2>4, <2>5, <2>6, <2>7 DEF Korak
<1>4. ASSUME NEW e \in Dokument,
             \/ Kreiraj(e) \/ KreirajPopis(e) \/ PopuniPopis(e)
             \/ KreirajPovrat(e) \/ IzmijeniPovrat(e) \/ ObrisiPovrat(e)
      PROVE  FALSE
  <2>1. dok[d] \in Podaci /\ dok[e] \in Podaci
    BY <1>1
  <2>2. CASE PopuniPopis(e)
    <3>1. dok'[d].status = dok[d].status
      BY <1>1, <2>1, <2>2 DEF PopuniPopis, Podaci
    <3> QED
      BY <1>1, <3>1
  <2>3. CASE \/ Kreiraj(e) \/ KreirajPopis(e) \/ KreirajPovrat(e)
    <3>1. Status(e, "NEMA")
      BY <2>3 DEF Kreiraj, KreirajPopis, KreirajPovrat, Novi
    <3>2. e # d
      BY <1>1, <3>1 DEF Status
    <3>3. dok'[d] = dok[d]
      BY <1>1, <2>3, <3>2 DEF Kreiraj, KreirajPopis, KreirajPovrat
    <3> QED
      BY <1>1, <3>3
  <2>4. CASE IzmijeniPovrat(e) \/ ObrisiPovrat(e)
    <3>1. e # d
      BY <2>4 DEF IzmijeniPovrat, ObrisiPovrat, Povrat, Je
    <3>2. dok'[d] = dok[d]
      BY <1>1, <2>4, <3>1 DEF IzmijeniPovrat, ObrisiPovrat
    <3> QED
      BY <1>1, <3>2
  <2> QED
    BY <1>4, <2>2, <2>3, <2>4
<1>5. ASSUME NEW e \in Dokument, Isporuci(e) \/ ProknjiziPovrat(e) \/ ObrisiKalkulaciju(e)
      PROVE  FALSE
  <2>1. e # d
    BY <1>5 DEF Isporuci, ProknjiziPovrat, Povrat, ObrisiKalkulaciju, Je
  <2>2. dok'[d] = dok[d]
    BY <1>1, <1>5, <2>1 DEF Isporuci, ProknjiziPovrat, ObrisiKalkulaciju, Proknjizi
  <2> QED
    BY <1>1, <2>2
<1>6. CASE ZatvoriOtvori
  BY <1>1, <1>6 DEF ZatvoriOtvori
<1> QED
  BY <1>2, <1>3, <1>4, <1>5, <1>6 DEF Next

\* A posted count leaves its warehouse as counted, and writes off nothing that has moved
\* since the count's snapshot; a completed one, whose differences cost nothing, leaves it
\* as in that snapshot.
THEOREM PopisUvijekUskladjuje == Spec => PopisUskladjuje
<1>1. RobnoInv /\ [Next]_vars =>
        [\A d \in Dokument :
           (Je(d, {"popis"}) /\ Status(d, "DRAFT") /\ dok'[d].status \in {"POSTED", "COMPLETED"}) =>
             /\ stanje'[Mjesto[d]] =
                  IF dok'[d].status = "POSTED" THEN dok[d].stavke ELSE dok[d].knjizno
             /\ \A m \in Magacin, a \in Artikal :
                  kartica'[m][a] # kartica[m][a] => stanje[m][a] = dok[d].knjizno[a]]_vars
  BY PopisSeKnjizi DEF PopisKonacan, PopisPostavljen
<1> QED
  BY <1>1, RobnoInduktivna, PTL DEF Spec, PopisUskladjuje


---------------------------------------------------------------------------
(* Returns *)

\* The posted returns of a calculation in a state of the documents, and what they add up to.
PovratiU(T, k) == {v \in Dokument : Je(v, {"povrat"}) /\ Izvor[v] = k /\ T[v].status = "POSTED"}
VracenoU(T, k, a) == MapThenSumSet(LAMBDA v : T[v].stavke[a], PovratiU(T, k))

\* What the returns of a calculation add up to, now and after the step.
LEMMA VracenoTabele ==
  ASSUME NEW k, NEW a
  PROVE  Vraceno(k, a) = VracenoU(dok, k, a) /\ Vraceno(k, a)' = VracenoU(dok', k, a)
<1>1. Vraceno(k, a) = VracenoU(dok, k, a)
  BY DEF Vraceno, VracenoU, PovratiU, Status
<1>2. Vraceno(k, a)' = VracenoU(dok', k, a)
  BY DEF Vraceno, VracenoU, PovratiU, Status, MapThenSumSet, MapThenFoldSet
<1> QED
  BY <1>1, <1>2

\* The community module's sum is the one of Zbirovi.
LEMMA VracenoJeZbir ==
  ASSUME NEW T, NEW k, NEW a
  PROVE  VracenoU(T, k, a) = ZbirNad([v \in Dokument |-> T[v].stavke[a]], PovratiU(T, k))
<1> DEFINE f == [v \in Dokument |-> T[v].stavke[a]]
<1>1. PICK S : S = PovratiU(T, k) /\ S \subseteq Dokument
  BY DEF PovratiU
<1>2. IsFiniteSet(S)
  BY <1>1, KonacnoDokumenata, FS_Subset
<1> DEFINE P(h) == h = [s \in SUBSET S |-> IF s = {} THEN 0
                          ELSE T[CHOOSE x \in s : TRUE].stavke[a]
                                 + h[s \ {CHOOSE x \in s : TRUE}]]
<1>3. \A h : P(h) <=> JeZbir(h, f, S)
  <2>1. TAKE h
  <2>2. \A s \in SUBSET S : s # {} => f[Izabran(s)] = T[CHOOSE x \in s : TRUE].stavke[a]
    BY <1>1 DEF Izabran
  <2> HIDE DEF f
  <2> QED
    BY <2>2 DEF JeZbir, Izabran
<1>4. \E h : P(h)
  <2> HIDE DEF P, f
  <2> QED
    BY <1>2, <1>3, PostojiZbir
<1>5. P(CHOOSE h : P(h))
  BY <1>4
<1>6. VracenoU(T, k, a) = (CHOOSE h : P(h))[S]
  BY <1>1 DEF VracenoU, MapThenSumSet, MapThenFoldSet
<1> HIDE DEF P, f
<1>7. VracenoU(T, k, a) = ZbirNad(f, S)
  BY <1>2, <1>3, <1>5, <1>6, ZbirJe
<1> QED
  BY <1>1, <1>7 DEF f

\* A calculation without posted returns.
LEMMA BezPovrata ==
  ASSUME NEW T, NEW k, NEW a, PovratiU(T, k) = {}
  PROVE  VracenoU(T, k, a) = 0
BY VracenoJeZbir, ZbirPraznog

\* Posted returns that stay as they are add up to the same.
LEMMA IstiPovrati ==
  ASSUME NEW T, NEW U, NEW k, NEW a, PovratiU(T, k) = PovratiU(U, k),
         \A v \in PovratiU(T, k) : T[v].stavke = U[v].stavke
  PROVE  VracenoU(T, k, a) = VracenoU(U, k, a)
<1>1. PICK S : S = PovratiU(T, k) /\ S \subseteq Dokument
  BY DEF PovratiU
<1>2. IsFiniteSet(S)
  BY <1>1, KonacnoDokumenata, FS_Subset
<1>3. PICK f : f = [v \in Dokument |-> T[v].stavke[a]]
  OBVIOUS
<1>4. PICK g : g = [v \in Dokument |-> U[v].stavke[a]]
  OBVIOUS
<1>5. \A v \in S : f[v] = g[v]
  BY <1>1, <1>3, <1>4
<1>6. ZbirNad(f, S) = ZbirNad(g, S)
  BY <1>2, <1>5, ZbirJednakih
<1>7. VracenoU(T, k, a) = ZbirNad(f, S)
  BY <1>1, <1>3, VracenoJeZbir, Zenon
<1>8. VracenoU(U, k, a) = ZbirNad(g, S)
  BY <1>1, <1>4, VracenoJeZbir, Zenon
<1> QED
  BY <1>6, <1>7, <1>8

\* One more posted return adds its quantity.
LEMMA JosJedanPovrat ==
  ASSUME NEW T, NEW U \in [Dokument -> Podaci], NEW k, NEW a \in Artikal, NEW d \in Dokument,
         d \notin PovratiU(T, k), PovratiU(U, k) = PovratiU(T, k) \cup {d},
         \A v \in PovratiU(T, k) : T[v].stavke = U[v].stavke
  PROVE  VracenoU(U, k, a) = U[d].stavke[a] + VracenoU(T, k, a)
<1>1. PICK S : S = PovratiU(U, k) /\ S \subseteq Dokument /\ d \in S
  BY DEF PovratiU
<1>2. IsFiniteSet(S) /\ IsFiniteSet(S \ {d})
  BY <1>1, KonacnoDokumenata, FS_Subset
<1>3. PovratiU(T, k) = S \ {d}
  BY <1>1
<1>4. PICK f : f = [v \in Dokument |-> T[v].stavke[a]]
  OBVIOUS
<1>5. PICK g : g = [v \in Dokument |-> U[v].stavke[a]]
  OBVIOUS
<1>6. \A v \in S : g[v] \in Int
  BY <1>1, <1>5 DEF Podaci
<1>7. ZbirNad(g, S) = g[d] + ZbirNad(g, S \ {d})
  BY <1>1, <1>2, <1>6, ZbirBezElementa
<1>8. \A v \in S \ {d} : f[v] = g[v]
  BY <1>1, <1>3, <1>4, <1>5
<1>9. ZbirNad(f, S \ {d}) = ZbirNad(g, S \ {d})
  BY <1>2, <1>8, ZbirJednakih
<1>10. VracenoU(T, k, a) = ZbirNad(f, S \ {d})
  BY <1>3, <1>4, VracenoJeZbir, Zenon
<1>11. VracenoU(U, k, a) = ZbirNad(g, S)
  BY <1>1, <1>5, VracenoJeZbir, Zenon
<1>12. g[d] = U[d].stavke[a]
  BY <1>5
<1> QED
  BY <1>7, <1>9, <1>10, <1>11, <1>12

\* The quantities of a calculation are never negative.
StavkeNabavke ==
  \A k \in Dokument, a \in Artikal : Je(k, {"kalkulacija"}) => dok[k].stavke[a] >= 0

\* Documents and their returns fit together.
PovratiSlazu == StavkeNabavke /\ VraceniNePrelaze

\* A document that is no return changes: unless it is edited late, it keeps its returns or
\* had none.
LEMMA NijePovrat ==
  ASSUME RobnoTipovi, RobnoTipovi', PovratiSlazu, NEW d \in Dokument, ~Je(d, {"povrat"}),
         \A e \in Dokument \ {d} : dok'[e] = dok[e],
         kasno \subseteq kasno',
         Je(d, {"kalkulacija"}) =>
           /\ \A a \in Artikal : dok'[d].stavke[a] >= 0
           /\ Status(d, "POSTED") => dok'[d].status = "POSTED" \/ ~ImaPovrat(d)
           /\ Status(d, "POSTED") => d \in kasno' \/ dok'[d].stavke = dok[d].stavke
  PROVE  PovratiSlazu'
<1>1. \A v \in Dokument : Je(v, {"povrat"}) => dok'[v] = dok[v]
  OBVIOUS
<1>2. \A k \in Dokument : ImaPovrat(k)' <=> ImaPovrat(k)
  BY <1>1 DEF ImaPovrat
<1>3. \A k \in Dokument : PovratiU(dok', k) = PovratiU(dok, k)
  BY <1>1 DEF PovratiU
<1>4. \A k \in Dokument, v \in Dokument : v \in PovratiU(dok, k) => dok'[v] = dok[v]
  BY <1>1 DEF PovratiU
<1>5. ASSUME NEW k \in Dokument, NEW a \in Artikal PROVE Vraceno(k, a)' = Vraceno(k, a)
  <2>1. PovratiU(dok', k) = PovratiU(dok, k)
    BY <1>3
  <2>2. \A v \in PovratiU(dok, k) : dok'[v].stavke = dok[v].stavke
    BY <1>4 DEF PovratiU
  <2>3. VracenoU(dok', k, a) = VracenoU(dok, k, a)
    BY <2>1, <2>2, IstiPovrati
  <2> QED
    BY <2>3, VracenoTabele
<1>6. ASSUME NEW k \in Dokument, NEW a \in Artikal, ~ImaPovrat(k) PROVE Vraceno(k, a) = 0
  <2>1. PovratiU(dok, k) = {}
    BY <1>6 DEF ImaPovrat, PovratiU
  <2> QED
    BY <2>1, BezPovrata, VracenoTabele
<1>7. StavkeNabavke'
  BY DEF PovratiSlazu, StavkeNabavke, Je
<1>8. ASSUME NEW k \in Dokument, Je(k, {"kalkulacija"}), ImaPovrat(k)' PROVE Status(k, "POSTED")'
  BY <1>2, <1>8 DEF PovratiSlazu, VraceniNePrelaze, Status
<1>9. ASSUME NEW k \in Dokument, Je(k, {"kalkulacija"}), k \notin kasno', NEW a \in Artikal
      PROVE  Vraceno(k, a)' <= dok'[k].stavke[a]
  <2>1. CASE k # d \/ dok'[d].stavke = dok[d].stavke
    <3>1. dok'[k].stavke = dok[k].stavke
      BY <2>1
    <3>2. Vraceno(k, a) <= dok[k].stavke[a]
      BY <1>9 DEF PovratiSlazu, VraceniNePrelaze
    <3> QED
      BY <1>5, <3>1, <3>2
  <2>2. CASE k = d /\ ~Status(d, "POSTED")
    <3>1. ~ImaPovrat(k)
      BY <1>9, <2>2 DEF PovratiSlazu, VraceniNePrelaze
    <3>2. Vraceno(k, a)' = 0
      BY <1>5, <1>6, <3>1
    <3> QED
      BY <1>9, <2>2, <3>2
  <2> QED
    BY <1>9, <2>1, <2>2
<1> QED
  BY <1>7, <1>8, <1>9 DEF PovratiSlazu, VraceniNePrelaze, Je

\* A return that is not posted changes: it was there already, or its calculation is posted.
LEMMA NacrtPovrata ==
  ASSUME PovratiSlazu, NEW d \in Dokument, Je(d, {"povrat"}),
         \A e \in Dokument \ {d} : dok'[e] = dok[e], kasno' = kasno,
         dok[d].status # "POSTED", dok'[d].status # "POSTED",
         Status(d, "DRAFT") \/ Status(Izvor[d], "POSTED")
  PROVE  PovratiSlazu'
<1>1. \A k \in Dokument : Je(k, {"kalkulacija"}) => dok'[k] = dok[k]
  BY DEF Je
<1>2. \A k \in Dokument : PovratiU(dok', k) = PovratiU(dok, k)
  BY DEF PovratiU
<1>3. \A k \in Dokument, v \in Dokument : v \in PovratiU(dok, k) => dok'[v] = dok[v]
  BY DEF PovratiU
<1>4. ASSUME NEW k \in Dokument, NEW a \in Artikal PROVE Vraceno(k, a)' = Vraceno(k, a)
  <2>1. PovratiU(dok', k) = PovratiU(dok, k)
    BY <1>2
  <2>2. \A v \in PovratiU(dok, k) : dok'[v].stavke = dok[v].stavke
    BY <1>3 DEF PovratiU
  <2>3. VracenoU(dok', k, a) = VracenoU(dok, k, a)
    BY <2>1, <2>2, IstiPovrati
  <2> QED
    BY <2>3, VracenoTabele
<1>5. ASSUME NEW k \in Dokument, Je(k, {"kalkulacija"}), ImaPovrat(k)' PROVE Status(k, "POSTED")'
  <2>1. PICK v \in Dokument : Je(v, {"povrat"}) /\ Izvor[v] = k
                                /\ dok'[v].status \in {"DRAFT", "POSTED"}
    BY <1>5 DEF ImaPovrat, Je
  <2>2. ImaPovrat(k) \/ Status(k, "POSTED")
    BY <2>1 DEF ImaPovrat, Status
  <2> QED
    BY <1>1, <1>5, <2>2 DEF PovratiSlazu, VraceniNePrelaze, Status
<1>6. \A k \in Dokument, a \in Artikal :
        Je(k, {"kalkulacija"}) /\ k \notin kasno' => Vraceno(k, a)' <= dok'[k].stavke[a]
  BY <1>1, <1>4 DEF PovratiSlazu, VraceniNePrelaze
<1>7. StavkeNabavke'
  BY <1>1 DEF PovratiSlazu, StavkeNabavke, Je
<1> QED
  BY <1>5, <1>6, <1>7 DEF PovratiSlazu, VraceniNePrelaze, Je

\* Posting a return adds it to the posted ones, within its calculation's lines.
LEMMA PovratSeKnjizi ==
  ASSUME RobnoTipovi, RobnoTipovi', PovratiSlazu, NEW d \in Dokument, ProknjiziPovrat(d)
  PROVE  PovratiSlazu'
<1>1. dok' = [dok EXCEPT ![d].status = "POSTED", ![d].vezano = Stavke(d)] /\ kasno' = kasno
  BY DEF ProknjiziPovrat, Proknjizi, istorija
<1>2. /\ \A e \in Dokument \ {d} : dok'[e] = dok[e]
      /\ dok'[d].status = "POSTED" /\ dok'[d].stavke = dok[d].stavke
  BY <1>1 DEF RobnoTipovi, Podaci
<1>3. /\ Je(d, {"povrat"}) /\ Status(d, "DRAFT") /\ Status(Izvor[d], "POSTED")
      /\ \A a \in Stavke(d) :
           Vraceno(Izvor[d], a) + dok[d].stavke[a] <= dok[Izvor[d]].stavke[a]
  BY DEF ProknjiziPovrat, Povrat
<1>4. \A k \in Dokument : Je(k, {"kalkulacija"}) => dok'[k] = dok[k]
  BY <1>2, <1>3 DEF Je
<1>5. \A k \in Dokument : ImaPovrat(k)' => ImaPovrat(k)
  BY <1>2, <1>3 DEF ImaPovrat, Status
<1>6. ASSUME NEW k \in Dokument, NEW a \in Artikal, Je(k, {"kalkulacija"}), k \notin kasno
      PROVE  Vraceno(k, a)' <= dok[k].stavke[a]
  <2>1. Vraceno(k, a) <= dok[k].stavke[a]
    BY <1>6 DEF PovratiSlazu, VraceniNePrelaze
  <2>2. CASE k # Izvor[d]
    <3>1. PovratiU(dok', k) = PovratiU(dok, k)
      BY <1>2, <2>2 DEF PovratiU
    <3>2. \A v \in PovratiU(dok, k) : dok'[v].stavke = dok[v].stavke
      BY <1>2 DEF PovratiU
    <3>3. VracenoU(dok', k, a) = VracenoU(dok, k, a)
      BY <3>1, <3>2, IstiPovrati
    <3> QED
      BY <2>1, <3>3, VracenoTabele
  <2>3. CASE k = Izvor[d]
    <3>1. PovratiU(dok', k) = PovratiU(dok, k) \cup {d} /\ d \notin PovratiU(dok, k)
      BY <1>2, <1>3, <2>3 DEF PovratiU, Status
    <3>2. \A v \in PovratiU(dok, k) : dok[v].stavke = dok'[v].stavke
      BY <1>2 DEF PovratiU
    <3>3. dok' \in [Dokument -> Podaci]
      BY DEF RobnoTipovi
    <3>4. VracenoU(dok', k, a) = dok'[d].stavke[a] + VracenoU(dok, k, a)
      BY <3>1, <3>2, <3>3, JosJedanPovrat
    <3>5. Vraceno(k, a)' = dok[d].stavke[a] + Vraceno(k, a)
      BY <1>2, <3>4, VracenoTabele
    <3>6. dok[d].stavke[a] \in Int /\ Vraceno(k, a) \in Int
      <4>1. PICK S : S = PovratiU(dok, k) /\ S \subseteq Dokument
        BY DEF PovratiU
      <4>2. PICK f : f = [v \in Dokument |-> dok[v].stavke[a]]
        OBVIOUS
      <4>3. \A v \in Dokument : f[v] \in Int
        BY <4>2 DEF RobnoTipovi, Podaci
      <4>4. ZbirNad(f, S) \in Int
        BY <4>1, <4>3, KonacnoDokumenata, FS_Subset, ZbirCio
      <4>5. VracenoU(dok, k, a) = ZbirNad(f, S)
        BY <4>1, <4>2, VracenoJeZbir, Zenon
      <4> QED
        BY <4>2, <4>3, <4>4, <4>5, VracenoTabele
    <3>7. CASE a \in Stavke(d)
      BY <1>3, <2>3, <3>5, <3>6, <3>7
    <3>8. CASE a \notin Stavke(d)
      <4>1. dok[d].stavke[a] = 0
        BY <1>3, <3>8 DEF Stavke, Je
      <4> QED
        BY <2>1, <3>5, <3>6, <4>1
    <3> QED
      BY <3>7, <3>8
  <2> QED
    BY <2>2, <2>3
<1>7. StavkeNabavke'
  BY <1>4 DEF PovratiSlazu, StavkeNabavke, Je
<1>8. \A k \in Dokument : Je(k, {"kalkulacija"}) /\ ImaPovrat(k)' => Status(k, "POSTED")'
  BY <1>4, <1>5 DEF PovratiSlazu, VraceniNePrelaze, Status
<1> QED
  BY <1>1, <1>4, <1>6, <1>7, <1>8 DEF PovratiSlazu, VraceniNePrelaze, Je

\* A step that leaves the documents alone.
LEMMA IstiDokumenti ==
  ASSUME PovratiSlazu, dok' = dok, kasno' = kasno
  PROVE  PovratiSlazu'
<1>1. ASSUME NEW k, NEW a PROVE Vraceno(k, a)' = Vraceno(k, a)
  BY VracenoTabele
<1>2. \A k \in Dokument : (ImaPovrat(k)' <=> ImaPovrat(k)) /\ (Status(k, "POSTED")' <=> Status(k, "POSTED"))
  BY DEF ImaPovrat, Status
<1> QED
  BY <1>1, <1>2 DEF PovratiSlazu, StavkeNabavke, VraceniNePrelaze, Je

\* The empty warehouse.
LEMMA PocetakPovrata == Init => PovratiSlazu
<1> SUFFICES ASSUME Init PROVE PovratiSlazu
  OBVIOUS
<1>1. \A d \in Dokument : dok[d].status = "NEMA" /\ \A a \in Artikal : dok[d].stavke[a] = 0
  BY DEF Init, NemaDokumenta, Nista
<1>2. ASSUME NEW k \in Dokument, NEW a PROVE Vraceno(k, a) = 0
  <2>1. PovratiU(dok, k) = {}
    BY <1>1 DEF PovratiU
  <2> QED
    BY <2>1, BezPovrata, VracenoTabele
<1> QED
  BY <1>1, <1>2 DEF PovratiSlazu, StavkeNabavke, VraceniNePrelaze, ImaPovrat

\* An edit of a draft's lines, a deletion of one, a snapshot's update.
LEMMA IzmjenaIPovrati ==
  ASSUME RobnoTipovi, RobnoTipovi', PovratiSlazu, NEW r \in Zahtjev,
         IzmijeniStavku(r) \/ ObrisiNacrt(r) \/ UpisiSliku(r)
  PROVE  PovratiSlazu'
<1> DEFINE e == zahtjev[r].dok
<1>1. e \in Dokument /\ dok \in [Dokument -> Podaci] /\ dok[e] \in Podaci
  BY DEF RobnoTipovi, Poslovi
<1>2. ~Je(e, {"povrat"})
  BY DEF IzmijeniStavku, ObrisiNacrt, UpisiSliku, Radi, Je
<1>3. kasno' = IF Status(e, "DRAFT") \/ dok'[e] = dok[e] THEN kasno ELSE kasno \cup {e}
  BY DEF IzmijeniStavku, ObrisiNacrt, UpisiSliku, Zakasni
<1>4. kasno \subseteq kasno'
  BY <1>3
<1>5. CASE IzmijeniStavku(r)
  <2>1. PICK a \in Roba[e], q \in Kolicina \cup {0} :
          dok' = [dok EXCEPT ![e].stavke[a] = q,
                    ![e].popisano = IF Je(e, {"popis"}) THEN @ \cup {a} ELSE @,
                    ![e].vezano = IF q = 0 /\ ~Je(e, {"popis"}) THEN @ \ {a} ELSE @]
    BY <1>5 DEF IzmijeniStavku
  <2>2. \A f \in Dokument \ {e} : dok'[f] = dok[f]
    BY <1>1, <2>1
  <2>3. dok'[e].status = dok[e].status
    BY <1>1, <2>1 DEF Podaci
  <2>4. dok'[e].stavke = [dok[e].stavke EXCEPT ![a] = q]
    BY <1>1, <2>1 DEF Podaci
  <2>5. q >= 0 /\ q \in Int
    BY RobnoPretpostavke
  <2>6. Je(e, {"kalkulacija"}) => \A b \in Artikal : dok'[e].stavke[b] >= 0
    BY <1>1, <2>4, <2>5 DEF PovratiSlazu, StavkeNabavke, Podaci
  <2>7. Status(e, "POSTED") => e \in kasno' \/ dok'[e].stavke = dok[e].stavke
    BY <1>1, <1>3 DEF Status
  <2>8. Status(e, "POSTED") => dok'[e].status = "POSTED"
    BY <2>3 DEF Status
  <2> QED
    BY <1>1, <1>2, <1>4, <2>2, <2>6, <2>7, <2>8, NijePovrat
<1>6. CASE ObrisiNacrt(r) \/ UpisiSliku(r)
  <2>1. ~Je(e, {"kalkulacija"})
    BY <1>6 DEF ObrisiNacrt, UpisiSliku, Radi, Je
  <2>2. \A f \in Dokument \ {e} : dok'[f] = dok[f]
    BY <1>1, <1>6 DEF ObrisiNacrt, UpisiSliku
  <2> QED
    BY <1>1, <1>2, <1>4, <2>1, <2>2, NijePovrat
<1> QED
  BY <1>5, <1>6

\* A document that is no return and no calculation changes, without an edit.
LEMMA OstaliDokumenti ==
  ASSUME RobnoTipovi, RobnoTipovi', PovratiSlazu, NEW d \in Dokument,
         ~Je(d, {"povrat", "kalkulacija"}),
         \A e \in Dokument \ {d} : dok'[e] = dok[e], kasno' = kasno
  PROVE  PovratiSlazu'
<1>1. ~Je(d, {"povrat"}) /\ ~Je(d, {"kalkulacija"})
  BY DEF Je
<1> QED
  BY <1>1, NijePovrat

\* A new draft.
LEMMA NacrtIPovrati ==
  ASSUME RobnoTipovi, RobnoTipovi', PovratiSlazu, NEW d \in Dokument, Kreiraj(d)
  PROVE  PovratiSlazu'
<1>1. PICK S \in IF Je(d, {"prodaja"}) THEN [Artikal -> Kolicina \cup {0}] ELSE {Nista} :
        dok' = [dok EXCEPT ![d] = [NemaDokumenta EXCEPT !.status = "DRAFT", !.stavke = S]]
  BY DEF Kreiraj
<1>2. \A e \in Dokument \ {d} : dok'[e] = dok[e]
  BY <1>1 DEF RobnoTipovi
<1>3. ~Je(d, {"povrat"}) /\ ~Status(d, "POSTED") /\ kasno' = kasno
  BY DEF Kreiraj, Novi, Status, Je, istorija
<1>4. \A a \in Artikal : S[a] >= 0
  <2>1. CASE S = Nista
    BY <2>1 DEF Nista
  <2>2. CASE S \in [Artikal -> Kolicina \cup {0}]
    <3>1. \A q \in Kolicina \cup {0} : q >= 0
      BY RobnoPretpostavke
    <3> QED
      BY <2>2, <3>1
  <2> QED
    BY <2>1, <2>2
<1>5. dok'[d].stavke = S
  BY <1>1 DEF RobnoTipovi, NemaDokumenta
<1> QED
  BY <1>2, <1>3, <1>4, <1>5, NijePovrat

\* Every step keeps the returns within their calculations.
LEMMA PovratiKorak ==
  ASSUME RobnoInv, RobnoInv', PovratiSlazu, [Next]_vars
  PROVE  PovratiSlazu'
<1> USE DEF RobnoInv
<1>1. dok \in [Dokument -> Podaci]
  BY DEF RobnoTipovi
<1>2. CASE UNCHANGED vars
  BY <1>2, IstiDokumenti DEF vars, istorija
<1>3. ASSUME NEW r \in Zahtjev, Korak(r) PROVE PovratiSlazu'
  <2> DEFINE e == zahtjev[r].dok
  <2>1. e \in Dokument /\ dok[e] \in Podaci
    BY <1>1 DEF RobnoTipovi, Poslovi
  <2>2. CASE \/ \E f \in Dokument :
                  \/ PocniIzmjenu(r, f) \/ OsvjeziPopis(r, f) \/ PocniKnjizenje(r, f)
                  \/ PocniBrisanje(r, f)
             \/ PocniKalkulaciju(r) \/ ProcitajStanje(r) \/ UpisiStanje(r) \/ Odustani(r)
    <3>1. dok' = dok /\ kasno' = kasno
      BY <2>2, TipoviZahtjeva DEF istorija
    <3> QED
      BY <3>1, IstiDokumenti
  <2>3. CASE IzmijeniStavku(r) \/ ObrisiNacrt(r) \/ UpisiSliku(r)
    BY <2>3, IzmjenaIPovrati
  <2>4. CASE ProknjiziIzlaz(r) \/ ProknjiziDio(r) \/ ProknjiziPopis(r)
    <3>1. ~Je(e, {"povrat", "kalkulacija"})
      BY <2>4 DEF ProknjiziIzlaz, ProknjiziDio, ProknjiziPopis, Radi, Je
    <3>2. \A f \in Dokument \ {e} : dok'[f] = dok[f]
      BY <1>1, <2>1, <2>4 DEF ProknjiziIzlaz, ProknjiziDio, ProknjiziPopis, Proknjizi, Zakljuci
    <3>3. kasno' = kasno
      BY <2>4 DEF ProknjiziIzlaz, ProknjiziDio, ProknjiziPopis, istorija
    <3> QED
      BY <2>1, <3>1, <3>2, <3>3, OstaliDokumenti
  <2>5. CASE PotvrdiKalkulaciju(r)
    <3>1. /\ dok' = [dok EXCEPT ![e].status = "POSTED", ![e].vezano = Stavke(e)]
          /\ kasno' = kasno /\ Je(e, {"kalkulacija"})
      BY <2>5 DEF PotvrdiKalkulaciju, KnjizenjeDrziGodinu
    <3>2. /\ \A f \in Dokument \ {e} : dok'[f] = dok[f]
          /\ dok'[e].status = "POSTED" /\ dok'[e].stavke = dok[e].stavke
      BY <1>1, <2>1, <3>1 DEF Podaci
    <3>3. \A a \in Artikal : dok'[e].stavke[a] >= 0
      BY <2>1, <3>1, <3>2 DEF PovratiSlazu, StavkeNabavke
    <3>4. ~Je(e, {"povrat"})
      BY <3>1 DEF Je
    <3> QED
      BY <2>1, <3>1, <3>2, <3>3, <3>4, NijePovrat
  <2> QED
    BY <1>3, <2>2, <2>3, <2>4, <2>5 DEF Korak
<1>4. ASSUME NEW d \in Dokument, Kreiraj(d) PROVE PovratiSlazu'
  BY <1>4, NacrtIPovrati
<1>5. ASSUME NEW d \in Dokument, KreirajPopis(d) \/ PopuniPopis(d) \/ Isporuci(d)
      PROVE  PovratiSlazu'
  <2>1. ~Je(d, {"povrat", "kalkulacija"})
    BY <1>5 DEF KreirajPopis, PopuniPopis, Isporuci, Je
  <2>2. \A e \in Dokument \ {d} : dok'[e] = dok[e]
    BY <1>1, <1>5 DEF KreirajPopis, PopuniPopis, Isporuci, Proknjizi
  <2>3. kasno' = kasno
    BY <1>5 DEF KreirajPopis, PopuniPopis, Isporuci, istorija
  <2> QED
    BY <2>1, <2>2, <2>3, OstaliDokumenti
<1>6. ASSUME NEW d \in Dokument, ObrisiKalkulaciju(d) PROVE PovratiSlazu'
  <2>1. /\ dok' = [dok EXCEPT ![d].status = "DELETED"] /\ kasno' = kasno
        /\ Je(d, {"kalkulacija"}) /\ ~ImaPovrat(d)
    BY <1>6 DEF ObrisiKalkulaciju, istorija
  <2>2. \A e \in Dokument \ {d} : dok'[e] = dok[e]
    BY <1>1, <2>1
  <2>3. dok'[d].stavke = dok[d].stavke
    BY <1>1, <2>1 DEF Podaci
  <2>4. \A a \in Artikal : dok'[d].stavke[a] >= 0
    BY <2>1, <2>3 DEF PovratiSlazu, StavkeNabavke
  <2>5. ~Je(d, {"povrat"})
    BY <2>1 DEF Je
  <2> QED
    BY <2>1, <2>2, <2>3, <2>4, <2>5, NijePovrat
<1>7. ASSUME NEW d \in Dokument, KreirajPovrat(d) \/ IzmijeniPovrat(d) \/ ObrisiPovrat(d)
      PROVE  PovratiSlazu'
  <2>1. /\ Je(d, {"povrat"}) /\ dok[d].status \in {"NEMA", "DRAFT"} /\ kasno' = kasno
        /\ Status(d, "DRAFT") \/ Status(Izvor[d], "POSTED")
    BY <1>7 DEF KreirajPovrat, IzmijeniPovrat, ObrisiPovrat, Povrat, Status, istorija
  <2>2. (\A e \in Dokument \ {d} : dok'[e] = dok[e]) /\ dok'[d].status # "POSTED"
    <3>1. CASE KreirajPovrat(d)
      BY <1>1, <3>1 DEF KreirajPovrat, NemaDokumenta
    <3>2. CASE IzmijeniPovrat(d)
      <4>1. PICK a \in Roba[d], q \in Kolicina \cup {0} : dok' = [dok EXCEPT ![d].stavke[a] = q]
        BY <3>2 DEF IzmijeniPovrat
      <4>2. dok'[d].status = dok[d].status
        BY <1>1, <4>1 DEF Podaci
      <4> QED
        BY <1>1, <2>1, <4>1, <4>2
    <3>3. CASE ObrisiPovrat(d)
      BY <1>1, <3>3 DEF ObrisiPovrat, Podaci
    <3> QED
      BY <1>7, <3>1, <3>2, <3>3
  <2>3. dok[d].status # "POSTED"
    BY <2>1
  <2> QED
    BY <2>1, <2>2, <2>3, NacrtPovrata
<1>8. ASSUME NEW d \in Dokument, ProknjiziPovrat(d) PROVE PovratiSlazu'
  BY <1>8, PovratSeKnjizi
<1>9. CASE ZatvoriOtvori
  BY <1>9, IstiDokumenti DEF ZatvoriOtvori, istorija
<1> QED
  BY <1>2, <1>3, <1>4, <1>5, <1>6, <1>7, <1>8, <1>9 DEF Next

\* Whoever posts, edits, deletes and returns at the same time, the posted returns of a
\* calculation never add up to more than it received, and while it has returns it stays
\* posted.
THEOREM VraceniNikadNePrelaze == Spec => []VraceniNePrelaze
<1>1. Init => PovratiSlazu
  BY PocetakPovrata
<1>2. RobnoInv /\ RobnoInv' /\ PovratiSlazu /\ [Next]_vars => PovratiSlazu'
  BY PovratiKorak
<1>3. PovratiSlazu => VraceniNePrelaze
  BY DEF PovratiSlazu
<1> QED
  BY <1>1, <1>2, <1>3, RobnoInduktivna, PTL DEF Spec

---------------------------------------------------------------------------
(* The movements of a document *)

\* The movements of a document on a card, and what they add up to.
UlaziK(k, d) == {i \in DOMAIN k : k[i].dok = d}
KretanjeK(k, d) == MapThenSumSet(LAMBDA i : k[i].kol, UlaziK(k, d))

\* The movements of a document on the card now and after the step.
LEMMA KretanjeKartica ==
  ASSUME NEW d, NEW m, NEW a
  PROVE  /\ Kretanje(d, m, a) = KretanjeK(kartica[m][a], d)
         /\ Kretanje(d, m, a)' = KretanjeK(kartica'[m][a], d)
<1>1. Kretanje(d, m, a) = KretanjeK(kartica[m][a], d)
  BY DEF Kretanje, KretanjeK, UlaziK
<1>2. Kretanje(d, m, a)' = KretanjeK(kartica'[m][a], d)
  BY DEF Kretanje, KretanjeK, UlaziK, MapThenSumSet, MapThenFoldSet
<1> QED
  BY <1>1, <1>2

\* The community module's sum is the one of Zbirovi.
LEMMA KretanjeJeZbir ==
  ASSUME NEW k \in Seq(Redovi), NEW d
  PROVE  /\ KretanjeK(k, d) = ZbirNad([i \in DOMAIN k |-> k[i].kol], UlaziK(k, d))
         /\ IsFiniteSet(UlaziK(k, d))
<1> DEFINE f == [i \in DOMAIN k |-> k[i].kol]
<1>1. PICK S : S = UlaziK(k, d) /\ S \subseteq DOMAIN k
  BY DEF UlaziK
<1>2. IsFiniteSet(S)
  <2>1. DOMAIN k = 1 .. Len(k) /\ Len(k) \in Nat
    OBVIOUS
  <2>2. IsFiniteSet(1 .. Len(k))
    BY <2>1, FS_Interval
  <2> QED
    BY <1>1, <2>1, <2>2, FS_Subset
<1> DEFINE P(h) == h = [s \in SUBSET S |-> IF s = {} THEN 0
                          ELSE k[CHOOSE x \in s : TRUE].kol + h[s \ {CHOOSE x \in s : TRUE}]]
<1>3. \A h : P(h) <=> JeZbir(h, f, S)
  <2>1. TAKE h
  <2>2. \A s \in SUBSET S : s # {} => f[Izabran(s)] = k[CHOOSE x \in s : TRUE].kol
    BY <1>1 DEF Izabran
  <2> HIDE DEF f
  <2> QED
    BY <2>2 DEF JeZbir, Izabran
<1>4. \E h : P(h)
  <2> HIDE DEF P, f
  <2> QED
    BY <1>2, <1>3, PostojiZbir
<1>5. P(CHOOSE h : P(h))
  BY <1>4
<1>6. KretanjeK(k, d) = (CHOOSE h : P(h))[S]
  BY <1>1 DEF KretanjeK, MapThenSumSet, MapThenFoldSet
<1> HIDE DEF P, f
<1>7. KretanjeK(k, d) = ZbirNad(f, S)
  BY <1>2, <1>3, <1>5, <1>6, ZbirJe
<1> QED
  BY <1>1, <1>2, <1>7 DEF f

\* Without movements nothing has moved; with one, its quantity.
LEMMA KretanjeJednog ==
  ASSUME NEW k \in Seq(Redovi), NEW d
  PROVE  /\ UlaziK(k, d) = {} => KretanjeK(k, d) = 0
         /\ \A i \in UlaziK(k, d) :
              (\A j \in UlaziK(k, d) : j = i) => KretanjeK(k, d) = k[i].kol
<1>1. PICK S : S = UlaziK(k, d) /\ S \subseteq DOMAIN k
  BY DEF UlaziK
<1>2. PICK f : f = [i \in DOMAIN k |-> k[i].kol]
  OBVIOUS
<1>3. KretanjeK(k, d) = ZbirNad(f, S)
  BY <1>1, <1>2, KretanjeJeZbir, Zenon
<1>4. S = {} => ZbirNad(f, S) = 0
  BY ZbirPraznog
<1>5. ASSUME NEW i \in S, \A j \in S : j = i PROVE ZbirNad(f, S) = k[i].kol
  <2>1. S = {i}
    BY <1>5
  <2>2. f[i] \in Int /\ f[i] = k[i].kol
    <3>1. i \in DOMAIN k /\ k[i] \in Redovi
      BY <1>1
    <3> QED
      BY <1>2, <3>1 DEF Redovi
  <2> QED
    BY <2>1, <2>2, ZbirJednog
<1> QED
  BY <1>1, <1>3, <1>4, <1>5

\* A new movement is one more of its document and of no other.
LEMMA ZapisUlaz ==
  ASSUME NEW k \in Seq(Redovi), NEW e \in Dokument, NEW q \in Int, NEW d
  PROVE  /\ d # e => UlaziK(Zapis(k, e, q), d) = UlaziK(k, d)
         /\ UlaziK(Zapis(k, e, q), e) = UlaziK(k, e) \cup {Len(k) + 1}
         /\ Len(k) + 1 \notin UlaziK(k, d)
         /\ Zapis(k, e, q)[Len(k) + 1].kol = q
         /\ \A i \in DOMAIN k : Zapis(k, e, q)[i] = k[i]
         /\ Zapis(k, e, q) \in Seq(Redovi)
<1>1. PICK red : red = [dok |-> e, kol |-> q, saldo |-> SaldoReda(k) + q]
  OBVIOUS
<1>2. SaldoReda(k) \in Int
  BY ZapisSabira
<1>3. red \in Redovi /\ red.dok = e /\ red.kol = q
  BY <1>1, <1>2 DEF Redovi
<1>4. PICK z : z = Append(k, red)
  OBVIOUS
<1>5. Zapis(k, e, q) = z
  BY <1>1, <1>4 DEF Zapis
<1>6. /\ z \in Seq(Redovi) /\ DOMAIN z = DOMAIN k \cup {Len(k) + 1}
      /\ Len(k) + 1 \notin DOMAIN k
      /\ z[Len(k) + 1] = red
      /\ \A i \in DOMAIN k : z[i] = k[i]
  BY <1>3, <1>4
<1> QED
  BY <1>3, <1>5, <1>6 DEF UlaziK

\* ... and adds its quantity to what that document has moved.
LEMMA ZapisKretanje ==
  ASSUME NEW k \in Seq(Redovi), NEW e \in Dokument, NEW q \in Int, NEW d
  PROVE  /\ KretanjeK(k, d) \in Int
         /\ d # e => KretanjeK(Zapis(k, e, q), d) = KretanjeK(k, d)
         /\ KretanjeK(Zapis(k, e, q), e) = q + KretanjeK(k, e)
<1>1. PICK z : z = Zapis(k, e, q)
  OBVIOUS
<1>2. /\ z \in Seq(Redovi) /\ \A i \in DOMAIN k : z[i] = k[i]
      /\ d # e => UlaziK(z, d) = UlaziK(k, d)
      /\ UlaziK(z, e) = UlaziK(k, e) \cup {Len(k) + 1}
      /\ Len(k) + 1 \notin UlaziK(k, e)
      /\ z[Len(k) + 1].kol = q
  BY <1>1, ZapisUlaz
<1>3. PICK f : f = [i \in DOMAIN k |-> k[i].kol]
  OBVIOUS
<1>4. PICK g : g = [i \in DOMAIN z |-> z[i].kol]
  OBVIOUS
<1>5. \A i \in DOMAIN k : f[i] \in Int
  <2>1. \A i \in DOMAIN k : k[i] \in Redovi
    OBVIOUS
  <2> QED
    BY <1>3, <2>1 DEF Redovi
<1>6. \A i \in DOMAIN z : g[i] \in Int
  <2>1. \A i \in DOMAIN z : z[i] \in Redovi
    BY <1>2
  <2> QED
    BY <1>4, <2>1 DEF Redovi
<1>7. \A x : /\ UlaziK(k, x) \subseteq DOMAIN k /\ UlaziK(z, x) \subseteq DOMAIN z
             /\ IsFiniteSet(UlaziK(k, x)) /\ IsFiniteSet(UlaziK(z, x))
  BY <1>2, KretanjeJeZbir DEF UlaziK
<1>8. \A x : KretanjeK(k, x) = ZbirNad(f, UlaziK(k, x))
  BY <1>3, KretanjeJeZbir, Zenon
<1>9. \A x : KretanjeK(z, x) = ZbirNad(g, UlaziK(z, x))
  BY <1>2, <1>4, KretanjeJeZbir, Zenon
<1>10. KretanjeK(k, d) \in Int
  <2>1. ZbirNad(f, UlaziK(k, d)) \in Int
    BY <1>5, <1>7, ZbirCio
  <2> QED
    BY <1>8, <2>1
<1>11. ASSUME NEW x, UlaziK(k, x) \subseteq DOMAIN z
       PROVE  ZbirNad(g, UlaziK(k, x)) = ZbirNad(f, UlaziK(k, x))
  <2>1. \A i \in UlaziK(k, x) : g[i] = f[i]
    BY <1>2, <1>3, <1>4, <1>7, <1>11
  <2> QED
    BY <1>7, <2>1, ZbirJednakih
<1>12. d # e => KretanjeK(z, d) = KretanjeK(k, d)
  <2>1. SUFFICES ASSUME d # e PROVE KretanjeK(z, d) = KretanjeK(k, d)
    OBVIOUS
  <2>2. UlaziK(z, d) = UlaziK(k, d)
    BY <1>2, <2>1
  <2> QED
    BY <1>7, <1>8, <1>9, <1>11, <2>2
<1>13. KretanjeK(z, e) = q + KretanjeK(k, e)
  <2>1. PICK S, n : S = UlaziK(z, e) /\ n = Len(k) + 1
    OBVIOUS
  <2>2. n \in S /\ S \ {n} = UlaziK(k, e) /\ IsFiniteSet(S) /\ S \subseteq DOMAIN z
    BY <1>2, <1>7, <2>1
  <2>3. ZbirNad(g, S) = g[n] + ZbirNad(g, S \ {n})
    BY <1>6, <2>2, ZbirBezElementa
  <2>4. g[n] = q
    BY <1>2, <1>4, <2>1, <2>2
  <2>5. UlaziK(k, e) \subseteq DOMAIN z
    BY <2>2
  <2>6. ZbirNad(g, S \ {n}) = KretanjeK(k, e)
    BY <1>8, <1>11, <2>2, <2>5
  <2> QED
    BY <1>9, <2>1, <2>3, <2>4, <2>6
<1> QED
  BY <1>1, <1>10, <1>12, <1>13

\* A document's movement concerns its own movements only.
LEMMA PomjeriKretanje ==
  ASSUME RobnoTipovi, NEW d \in Dokument, NEW A, Pomjeri(d, A),
         NEW m \in Magacin, NEW a \in Artikal
  PROVE  /\ \A e : e # d => /\ KretanjeK(kartica'[m][a], e) = KretanjeK(kartica[m][a], e)
                            /\ UlaziK(kartica'[m][a], e) = UlaziK(kartica[m][a], e)
         /\ a \in A => KretanjeK(kartica'[m][a], d)
                         = Promjena(d, m, a) + KretanjeK(kartica[m][a], d)
         /\ a \notin A => kartica'[m][a] = kartica[m][a]
<1>1. PICK k, q : k = kartica[m][a] /\ q = Promjena(d, m, a)
  OBVIOUS
<1>2. k \in Seq(Redovi) /\ q \in Int
  BY <1>1, PromjenaBroj DEF RobnoTipovi
<1>3. kartica'[m][a] = IF a \in A /\ q # 0 THEN Zapis(k, d, q) ELSE k
  BY <1>1 DEF Pomjeri
<1>4. KretanjeK(k, d) \in Int
  BY <1>2, ZapisKretanje
<1>5. CASE a \in A /\ q # 0
  <2>1. kartica'[m][a] = Zapis(k, d, q)
    BY <1>3, <1>5
  <2>2. \A e : e # d => /\ KretanjeK(Zapis(k, d, q), e) = KretanjeK(k, e)
                        /\ UlaziK(Zapis(k, d, q), e) = UlaziK(k, e)
    BY <1>2, ZapisKretanje, ZapisUlaz
  <2>3. KretanjeK(Zapis(k, d, q), d) = q + KretanjeK(k, d)
    BY <1>2, ZapisKretanje
  <2> QED
    BY <1>1, <1>5, <2>1, <2>2, <2>3
<1>6. CASE ~(a \in A /\ q # 0)
  <2>1. kartica'[m][a] = k
    BY <1>3, <1>6
  <2> QED
    BY <1>1, <1>2, <1>4, <1>6, <2>1
<1> QED
  BY <1>5, <1>6

\* A calculation is posted by one request at a time, and is a draft until then.
KnjizenjeDrziNacrt ==
  \A r \in Zahtjev : Knjizi(r) =>
    /\ Status(zahtjev[r].dok, "DRAFT")
    /\ \A q \in Zahtjev : Knjizi(q) => q = r

\* A calculation that is not posted yet has no movements, a posted one at most one of an
\* item, in its warehouse.
JedanUlaz ==
  \A d \in Dokument, m \in Magacin, a \in Artikal : Je(d, {"kalkulacija"}) =>
    /\ dok[d].status \in {"NEMA", "DRAFT"} => UlaziK(kartica[m][a], d) = {}
    /\ Status(d, "POSTED") =>
         /\ m # Mjesto[d] => UlaziK(kartica[m][a], d) = {}
         /\ \A i, j \in UlaziK(kartica[m][a], d) : i = j

KretanjaSlazu == KnjizenjeDrziNacrt /\ JedanUlaz /\ KretanjePratiDokument

\* What a document should have moved, and has.
Treba(d, m, a) == IF Status(d, "POSTED") THEN Promjena(d, m, a) ELSE 0
Pratio(d) == \A m \in Magacin, a \in Artikal : KretanjeK(kartica[m][a], d) = Treba(d, m, a)

\* One document changes, and the cards only by its movements.
LEMMA PratiJedan ==
  ASSUME KretanjePratiDokument, NEW d \in Dokument,
         \A e \in Dokument \ {d} : dok'[e] = dok[e],
         \A e \in Dokument \ {d}, m \in Magacin, a \in Artikal :
           KretanjeK(kartica'[m][a], e) = KretanjeK(kartica[m][a], e),
         kasno \subseteq kasno', polovicno \subseteq polovicno',
         d \notin kasno' \cup polovicno' => Pratio(d)'
  PROVE  KretanjePratiDokument'
<1> SUFFICES ASSUME NEW e \in Dokument, e \notin kasno' \cup polovicno',
                    NEW m \in Magacin, NEW a \in Artikal
             PROVE  Kretanje(e, m, a)' = Treba(e, m, a)'
  BY DEF KretanjePratiDokument, Treba
<1>1. CASE e = d
  BY <1>1, KretanjeKartica DEF Pratio
<1>2. CASE e # d
  <2>1. Treba(e, m, a)' = Treba(e, m, a)
    BY <1>2 DEF Treba, Promjena, Status, Je
  <2>2. Kretanje(e, m, a) = Treba(e, m, a)
    BY DEF KretanjePratiDokument, Treba
  <2>3. KretanjeK(kartica'[m][a], e) = KretanjeK(kartica[m][a], e)
    BY <1>2
  <2> QED
    BY <2>1, <2>2, <2>3, KretanjeKartica
<1> QED
  BY <1>1, <1>2

\* What follows for a document that the exceptions leave out.
LEMMA DoSada ==
  ASSUME KretanjePratiDokument, NEW d \in Dokument, d \notin kasno \cup polovicno
  PROVE  Pratio(d)
BY KretanjeKartica DEF KretanjePratiDokument, Pratio, Treba

\* The cards stay as they are while a document changes.
LEMMA BezZapisa ==
  ASSUME KretanjePratiDokument, NEW d \in Dokument, kartica' = kartica,
         \A e \in Dokument \ {d} : dok'[e] = dok[e],
         kasno \subseteq kasno', polovicno \subseteq polovicno',
         d \in kasno' \/ dok'[d] = dok[d] \/ (~Status(d, "POSTED") /\ dok'[d].status # "POSTED")
  PROVE  KretanjePratiDokument'
<1>1. ASSUME d \notin kasno' \cup polovicno', NEW m \in Magacin, NEW a \in Artikal
      PROVE  KretanjeK(kartica'[m][a], d) = Treba(d, m, a)'
  <2>1. KretanjeK(kartica[m][a], d) = Treba(d, m, a)
    BY <1>1, DoSada DEF Pratio
  <2>2. Treba(d, m, a)' = Treba(d, m, a)
    BY <1>1 DEF Treba, Promjena, Status, Je
  <2> QED
    BY <2>1, <2>2
<1>2. d \notin kasno' \cup polovicno' => Pratio(d)'
  BY <1>1 DEF Pratio
<1> QED
  BY <1>2, PratiJedan

\* A calculation keeps its movements while its status and the cards stay.
LEMMA UlaziOstaju ==
  ASSUME JedanUlaz,
         \A d \in Dokument : Je(d, {"kalkulacija"}) =>
           /\ \/ dok'[d].status = dok[d].status
              \/ dok[d].status = "NEMA" /\ dok'[d].status = "DRAFT"
           /\ \A m \in Magacin, a \in Artikal :
                UlaziK(kartica'[m][a], d) = UlaziK(kartica[m][a], d)
  PROVE  JedanUlaz'
BY DEF JedanUlaz, Status, Je

\* Requests that post a calculation go on with the draft they have locked.
LEMMA NacrtOstaje ==
  ASSUME KnjizenjeDrziNacrt,
         \A q \in Zahtjev : Knjizi(q)' =>
           /\ Knjizi(q) /\ zahtjev'[q].dok = zahtjev[q].dok
           /\ dok'[zahtjev[q].dok].status = "DRAFT"
  PROVE  KnjizenjeDrziNacrt'
BY DEF KnjizenjeDrziNacrt, Status

\* A document whose posting moves its lines, with no calculation among them.
LEMMA KnjizenjeKretanje ==
  ASSUME RobnoTipovi, KretanjePratiDokument, NEW d \in Dokument, Proknjizi(d, "POSTED"),
         Status(d, "DRAFT"),
         \A m \in Magacin, a \in Artikal \ Stavke(d) : Promjena(d, m, a) = 0,
         kasno' = kasno, polovicno' = polovicno
  PROVE  KretanjePratiDokument'
<1>1. dok' = [dok EXCEPT ![d].status = "POSTED", ![d].vezano = Stavke(d)] /\ Pomjeri(d, Stavke(d))
  BY DEF Proknjizi
<1>2. dok \in [Dokument -> Podaci] /\ dok[d] \in Podaci
  BY DEF RobnoTipovi
<1>3. /\ \A e \in Dokument \ {d} : dok'[e] = dok[e]
      /\ dok'[d].status = "POSTED" /\ dok'[d].stavke = dok[d].stavke /\ dok'[d].knjizno = dok[d].knjizno
  BY <1>1, <1>2 DEF Podaci
<1>4. ASSUME d \notin kasno' \cup polovicno', NEW m \in Magacin, NEW a \in Artikal
      PROVE  KretanjeK(kartica'[m][a], d) = Treba(d, m, a)'
  <2>1. Treba(d, m, a) = 0
    BY DEF Treba, Status
  <2>2. KretanjeK(kartica[m][a], d) = 0
    BY <1>4, <2>1, DoSada DEF Pratio
  <2>3. Promjena(d, m, a)' = Promjena(d, m, a)
    BY <1>3 DEF Promjena, Je
  <2>4. Treba(d, m, a)' = Promjena(d, m, a)
    BY <1>3, <2>3 DEF Treba, Status
  <2>5. Promjena(d, m, a) \in Int
    BY PromjenaBroj
  <2>6. CASE a \in Stavke(d)
    BY <1>1, <2>2, <2>4, <2>5, <2>6, PomjeriKretanje
  <2>7. CASE a \notin Stavke(d)
    <3>1. kartica'[m][a] = kartica[m][a]
      BY <1>1, <2>7, PomjeriKretanje
    <3> QED
      BY <2>2, <2>4, <2>7, <3>1
  <2> QED
    BY <2>6, <2>7
<1>5. d \notin kasno' \cup polovicno' => Pratio(d)'
  BY <1>4 DEF Pratio
<1>6. \A e \in Dokument \ {d}, m \in Magacin, a \in Artikal :
        KretanjeK(kartica'[m][a], e) = KretanjeK(kartica[m][a], e)
  BY <1>1, PomjeriKretanje
<1> QED
  BY <1>3, <1>5, <1>6, PratiJedan

\* Outside its lines a document moves nothing.
LEMMA BezStavke ==
  ASSUME RobnoTipovi, NEW d \in Dokument, NEW m \in Magacin, NEW a \in Artikal \ Stavke(d)
  PROVE  Promjena(d, m, a) = 0
<1>1. PICK q : q = dok[d].stavke[a]
  OBVIOUS
<1>2. ~Je(d, {"popis"}) /\ q = 0 /\ q \in Int
  BY <1>1 DEF Stavke
<1>3. Promjena(d, m, a) \in {q, -q, 0}
  BY <1>1, <1>2 DEF Promjena
<1>4. q \in Int => -q = 0 - q
  OBVIOUS
<1>5. 0 - q = 0
  BY <1>2
<1> QED
  BY <1>2, <1>3, <1>4, <1>5

\* What other documents move leaves the calculations' movements alone.
LEMMA TudjeKretanje ==
  ASSUME RobnoTipovi, JedanUlaz, NEW d \in Dokument, NEW A, Pomjeri(d, A),
         ~Je(d, {"kalkulacija"}), \A e \in Dokument \ {d} : dok'[e] = dok[e]
  PROVE  JedanUlaz'
<1>1. \A e \in Dokument : Je(e, {"kalkulacija"}) => e # d
  BY DEF Je
<1>2. \A e \in Dokument, m \in Magacin, a \in Artikal :
        e # d => UlaziK(kartica'[m][a], e) = UlaziK(kartica[m][a], e)
  BY PomjeriKretanje
<1> QED
  BY <1>1, <1>2, UlaziOstaju

\* The posting of a calculation writes one movement of each of its lines.
LEMMA KalkulacijaKretanje ==
  ASSUME RobnoInv, KretanjaSlazu, NEW r \in Zahtjev, PotvrdiKalkulaciju(r)
  PROVE  JedanUlaz' /\ KretanjePratiDokument'
<1> USE DEF RobnoInv
<1>1. PICK e : e = zahtjev[r].dok
  OBVIOUS
<1>2. PICK m : m = Mjesto[e]
  OBVIOUS
<1>3. /\ e \in Dokument /\ Je(e, {"kalkulacija"}) /\ Status(e, "DRAFT") /\ m \in Magacin
      /\ dok \in [Dokument -> Podaci] /\ dok[e] \in Podaci
  BY <1>1, <1>2, RobnoPretpostavke
  DEF PotvrdiKalkulaciju, KretanjaSlazu, KnjizenjeDrziNacrt, KnjizenjeDrziGodinu, RobnoTipovi,
      Poslovi
<1>4. /\ dok' = [dok EXCEPT ![e].status = "POSTED", ![e].vezano = Stavke(e)]
      /\ kartica' = [kartica EXCEPT ![m] = [a \in Artikal |->
           IF a \in Stavke(e) THEN Zapis(kartica[m][a], e, dok[e].stavke[a]) ELSE kartica[m][a]]]
      /\ kasno' = kasno /\ polovicno' = polovicno
  BY <1>1, <1>2, <1>3 DEF PotvrdiKalkulaciju, RobnoTipovi
<1>5. /\ \A f \in Dokument \ {e} : dok'[f] = dok[f]
      /\ dok'[e].status = "POSTED" /\ dok'[e].stavke = dok[e].stavke
  BY <1>3, <1>4 DEF Podaci
<1>6. ASSUME NEW n \in Magacin, NEW a \in Artikal
      PROVE  /\ kartica[n][a] \in Seq(Redovi) /\ dok[e].stavke[a] \in Int
             /\ kartica'[n][a] = IF n = m /\ a \in Stavke(e)
                                 THEN Zapis(kartica[n][a], e, dok[e].stavke[a])
                                 ELSE kartica[n][a]
  BY <1>3, <1>4 DEF RobnoTipovi, Podaci
<1>7. ASSUME NEW n \in Magacin, NEW a \in Artikal, NEW f \in Dokument \ {e}
      PROVE  /\ UlaziK(kartica'[n][a], f) = UlaziK(kartica[n][a], f)
             /\ KretanjeK(kartica'[n][a], f) = KretanjeK(kartica[n][a], f)
  <2>1. PICK k, q : k = kartica[n][a] /\ q = dok[e].stavke[a]
    OBVIOUS
  <2>2. /\ UlaziK(Zapis(k, e, q), f) = UlaziK(k, f)
        /\ KretanjeK(Zapis(k, e, q), f) = KretanjeK(k, f)
    BY <1>3, <1>6, <2>1, ZapisUlaz, ZapisKretanje
  <2> QED
    BY <1>6, <2>1, <2>2
<1>8. \A n \in Magacin, a \in Artikal : UlaziK(kartica[n][a], e) = {}
  BY <1>3 DEF KretanjaSlazu, JedanUlaz, Status
<1>9. ASSUME NEW n \in Magacin, NEW a \in Artikal
      PROVE  /\ n # m => UlaziK(kartica'[n][a], e) = {}
             /\ \A i, j \in UlaziK(kartica'[n][a], e) : i = j
  <2>1. CASE n = m /\ a \in Stavke(e)
    <3>1. PICK k, q : k = kartica[n][a] /\ q = dok[e].stavke[a]
      OBVIOUS
    <3>2. k \in Seq(Redovi) /\ q \in Int
      BY <1>6, <3>1
    <3>3. UlaziK(Zapis(k, e, q), e) = UlaziK(k, e) \cup {Len(k) + 1}
      BY <1>3, <3>2, ZapisUlaz
    <3>4. UlaziK(k, e) = {}
      BY <1>8, <3>1
    <3> QED
      BY <1>6, <2>1, <3>1, <3>3, <3>4
  <2>2. CASE ~(n = m /\ a \in Stavke(e))
    BY <1>6, <1>8, <2>2
  <2> QED
    BY <2>1, <2>2
<1>10. JedanUlaz'
  <2> SUFFICES ASSUME NEW f \in Dokument, NEW n \in Magacin, NEW a \in Artikal,
                      Je(f, {"kalkulacija"})
               PROVE  /\ dok'[f].status \in {"NEMA", "DRAFT"} => UlaziK(kartica'[n][a], f) = {}
                      /\ dok'[f].status = "POSTED" =>
                           /\ n # Mjesto[f] => UlaziK(kartica'[n][a], f) = {}
                           /\ \A i, j \in UlaziK(kartica'[n][a], f) : i = j
    BY DEF JedanUlaz, Status, Je
  <2>1. CASE f = e
    BY <1>2, <1>5, <1>9, <2>1
  <2>2. CASE f # e
    BY <1>5, <1>7, <2>2 DEF KretanjaSlazu, JedanUlaz, Status
  <2> QED
    BY <2>1, <2>2
<1>11. ASSUME NEW n \in Magacin, NEW a \in Artikal
       PROVE  KretanjeK(kartica'[n][a], e) = Treba(e, n, a)'
  <2>1. PICK k, q : k = kartica[n][a] /\ q = dok[e].stavke[a]
    OBVIOUS
  <2>2. k \in Seq(Redovi) /\ q \in Int /\ KretanjeK(k, e) = 0
    BY <1>6, <1>8, <2>1, KretanjeJednog
  <2>3. KretanjeK(Zapis(k, e, q), e) = q + KretanjeK(k, e)
    BY <1>3, <2>2, ZapisKretanje
  <2>4. Treba(e, n, a)' = IF n = m THEN q ELSE 0
    BY <1>2, <1>3, <1>5, <2>1 DEF Treba, Promjena, Status, Je
  <2>5. CASE n = m /\ a \in Stavke(e)
    BY <1>6, <2>1, <2>2, <2>3, <2>4, <2>5
  <2>6. CASE n = m /\ a \notin Stavke(e)
    <3>1. q = 0
      BY <1>3, <2>1, <2>6 DEF Stavke, Je
    <3> QED
      BY <1>6, <2>1, <2>2, <2>4, <2>6, <3>1
  <2>7. CASE n # m
    BY <1>6, <2>1, <2>2, <2>4, <2>7
  <2> QED
    BY <2>5, <2>6, <2>7
<1>12. Pratio(e)'
  BY <1>11 DEF Pratio
<1>13. KretanjePratiDokument'
  BY <1>3, <1>4, <1>5, <1>7, <1>12, PratiJedan DEF KretanjaSlazu
<1> QED
  BY <1>10, <1>13

\* The deletion of a calculation takes back the one movement of each line.
LEMMA BrisanjeKretanje ==
  ASSUME RobnoInv, KretanjaSlazu, NEW d \in Dokument, ObrisiKalkulaciju(d)
  PROVE  JedanUlaz' /\ KretanjePratiDokument'
<1> USE DEF RobnoInv
<1>1. PICK m : m = Mjesto[d]
  OBVIOUS
<1>2. PICK K : K = {a \in Artikal : Ulazi(d, a) # {}}
  OBVIOUS
<1>3. /\ Je(d, {"kalkulacija"}) /\ dok[d].status \in {"DRAFT", "POSTED"} /\ m \in Magacin
      /\ dok \in [Dokument -> Podaci] /\ dok[d] \in Podaci
  BY <1>1, RobnoPretpostavke DEF ObrisiKalkulaciju, RobnoTipovi
<1>4. /\ dok' = [dok EXCEPT ![d].status = "DELETED"]
      /\ kartica' = [kartica EXCEPT ![m] = [a \in Artikal |->
           IF a \in K THEN Zapis(kartica[m][a], d, -Primljeno(d, a)) ELSE kartica[m][a]]]
      /\ kasno' = kasno /\ polovicno' = polovicno
  BY <1>1, <1>2, <1>3 DEF ObrisiKalkulaciju, RobnoTipovi, istorija
<1>5. /\ \A f \in Dokument \ {d} : dok'[f] = dok[f]
      /\ dok'[d].status = "DELETED"
  BY <1>3, <1>4 DEF Podaci
<1>6. ASSUME NEW a \in Artikal
      PROVE  /\ Ulazi(d, a) = UlaziK(kartica[m][a], d)
             /\ a \in K => KretanjeK(kartica[m][a], d) = Primljeno(d, a) /\ Primljeno(d, a) \in Int
             /\ a \notin K => KretanjeK(kartica[m][a], d) = 0
  <2>1. PICK k : k = kartica[m][a]
    OBVIOUS
  <2>2. k \in Seq(Redovi)
    BY <1>3, <2>1 DEF RobnoTipovi
  <2>3. Ulazi(d, a) = UlaziK(k, d)
    BY <1>1, <2>1 DEF Ulazi, UlaziK
  <2>4. CASE a \in K
    <3>1. PICK i : i = CHOOSE j \in Ulazi(d, a) : TRUE
      OBVIOUS
    <3>2. i \in UlaziK(k, d)
      BY <1>2, <2>3, <2>4, <3>1
    <3>3. Status(d, "POSTED")
      BY <1>3, <2>1, <3>2 DEF KretanjaSlazu, JedanUlaz, Status
    <3>4. \A j \in UlaziK(k, d) : j = i
      BY <1>3, <2>1, <3>2, <3>3 DEF KretanjaSlazu, JedanUlaz
    <3>5. KretanjeK(k, d) = k[i].kol
      BY <2>2, <3>2, <3>4, KretanjeJednog
    <3>6. Primljeno(d, a) = k[i].kol
      BY <1>1, <2>1, <3>1 DEF Primljeno
    <3>7. KretanjeK(k, d) \in Int
      BY <2>2, ZapisKretanje
    <3> QED
      BY <2>1, <2>3, <2>4, <3>5, <3>6, <3>7
  <2>5. CASE a \notin K
    <3>1. UlaziK(k, d) = {}
      BY <1>2, <2>3, <2>5
    <3> QED
      BY <2>1, <2>2, <2>3, <2>5, <3>1, KretanjeJednog
  <2> QED
    BY <2>4, <2>5
<1>7. ASSUME NEW n \in Magacin, NEW a \in Artikal
      PROVE  /\ kartica[n][a] \in Seq(Redovi)
             /\ kartica'[n][a] = IF n = m /\ a \in K
                                 THEN Zapis(kartica[n][a], d, -Primljeno(d, a))
                                 ELSE kartica[n][a]
  BY <1>3, <1>4 DEF RobnoTipovi
<1>8. ASSUME NEW n \in Magacin, NEW a \in Artikal, NEW f \in Dokument \ {d}
      PROVE  /\ UlaziK(kartica'[n][a], f) = UlaziK(kartica[n][a], f)
             /\ KretanjeK(kartica'[n][a], f) = KretanjeK(kartica[n][a], f)
  <2>1. CASE n = m /\ a \in K
    <3>1. PICK k, q : k = kartica[n][a] /\ q = -Primljeno(d, a)
      OBVIOUS
    <3>2. q \in Int /\ k \in Seq(Redovi)
      BY <1>6, <1>7, <2>1, <3>1
    <3>3. /\ UlaziK(Zapis(k, d, q), f) = UlaziK(k, f)
          /\ KretanjeK(Zapis(k, d, q), f) = KretanjeK(k, f)
      BY <3>2, ZapisUlaz, ZapisKretanje
    <3> QED
      BY <1>7, <2>1, <3>1, <3>3
  <2>2. CASE ~(n = m /\ a \in K)
    BY <1>7, <2>2
  <2> QED
    BY <2>1, <2>2
<1>9. JedanUlaz'
  <2> SUFFICES ASSUME NEW f \in Dokument, NEW n \in Magacin, NEW a \in Artikal,
                      Je(f, {"kalkulacija"})
               PROVE  /\ dok'[f].status \in {"NEMA", "DRAFT"} => UlaziK(kartica'[n][a], f) = {}
                      /\ dok'[f].status = "POSTED" =>
                           /\ n # Mjesto[f] => UlaziK(kartica'[n][a], f) = {}
                           /\ \A i, j \in UlaziK(kartica'[n][a], f) : i = j
    BY DEF JedanUlaz, Status, Je
  <2>1. CASE f = d
    BY <1>5, <2>1
  <2>2. CASE f # d
    BY <1>5, <1>8, <2>2 DEF KretanjaSlazu, JedanUlaz, Status
  <2> QED
    BY <2>1, <2>2
<1>10. ASSUME d \notin kasno' \cup polovicno', NEW n \in Magacin, NEW a \in Artikal
       PROVE  KretanjeK(kartica'[n][a], d) = Treba(d, n, a)'
  <2>1. Treba(d, n, a)' = 0
    BY <1>5 DEF Treba, Status
  <2>2. CASE n = m /\ a \in K
    <3>1. PICK k, p, q : k = kartica[n][a] /\ p = Primljeno(d, a) /\ q = -p
      OBVIOUS
    <3>2. /\ p \in Int /\ q \in Int /\ k \in Seq(Redovi) /\ KretanjeK(k, d) = p
          /\ kartica'[n][a] = Zapis(k, d, q)
      BY <1>6, <1>7, <2>2, <3>1
    <3>3. KretanjeK(Zapis(k, d, q), d) = q + KretanjeK(k, d)
      BY <3>2, ZapisKretanje
    <3> QED
      BY <2>1, <3>1, <3>2, <3>3
  <2>3. CASE n = m /\ a \notin K
    BY <1>6, <1>7, <2>1, <2>3
  <2>4. CASE n # m
    <3>1. UlaziK(kartica[n][a], d) = {}
      BY <1>1, <1>3, <2>4 DEF KretanjaSlazu, JedanUlaz, Status
    <3>2. KretanjeK(kartica[n][a], d) = 0
      BY <1>7, <3>1, KretanjeJednog
    <3> QED
      BY <1>7, <2>1, <2>4, <3>2
  <2> QED
    BY <2>2, <2>3, <2>4
<1>11. d \notin kasno' \cup polovicno' => Pratio(d)'
  BY <1>10 DEF Pratio
<1>12. KretanjePratiDokument'
  BY <1>4, <1>5, <1>8, <1>11, PratiJedan DEF KretanjaSlazu
<1> QED
  BY <1>9, <1>12

\* A request that goes on, ends or gives up leaves the others' postings as they are.
LEMMA KnjizenjaOstaju ==
  ASSUME RobnoTipovi, NEW r \in Zahtjev, Korak(r), ~PocniKalkulaciju(r)
  PROVE  \A q \in Zahtjev : Knjizi(q)' => Knjizi(q) /\ zahtjev'[q].dok = zahtjev[q].dok
<1>1. zahtjev \in [Zahtjev -> Poslovi] /\ Miruje.pc = "miruje"
  BY DEF RobnoTipovi, Miruje
<1>2. CASE Zavrsi(r)
  BY <1>1, <1>2 DEF Zavrsi, Knjizi
<1>3. CASE \E d \in Dokument : \/ PocniIzmjenu(r, d) \/ OsvjeziPopis(r, d)
                               \/ PocniKnjizenje(r, d) \/ PocniBrisanje(r, d)
  <2>1. /\ \A q \in Zahtjev \ {r} : zahtjev'[q] = zahtjev[q]
        /\ zahtjev'[r].pc \in {"uredi", "obrisi", "knjizi", "osvjezi"}
    BY <1>1, <1>3 DEF PocniIzmjenu, OsvjeziPopis, PocniKnjizenje, PocniBrisanje, Pocni, Miruje
  <2> QED
    BY <2>1 DEF Knjizi
<1>4. CASE ProcitajStanje(r)
  <2>1. PICK a \in zahtjev[r].ostalo :
          zahtjev' = [zahtjev EXCEPT ![r].procitano = {a},
                                     ![r].slika[a] = stanje[Mjesto[zahtjev[r].dok]][a]]
    BY <1>4 DEF ProcitajStanje
  <2> QED
    BY <1>1, <2>1 DEF Poslovi, Knjizi
<1>5. CASE UpisiStanje(r)
  <2>1. zahtjev' = [zahtjev EXCEPT ![r].procitano = {}, ![r].ostalo = @ \ zahtjev[r].procitano]
    BY <1>5 DEF UpisiStanje
  <2> QED
    BY <1>1, <2>1 DEF Poslovi, Knjizi
<1> QED
  BY <1>2, <1>3, <1>4, <1>5
  DEF Korak, IzmijeniStavku, ObrisiNacrt, UpisiSliku, PotvrdiKalkulaciju, ProknjiziIzlaz,
      ProknjiziDio, ProknjiziPopis, Odustani

\* A posting of a calculation begins with the year's row and a draft, alone.
LEMMA PocetakKnjizenja ==
  ASSUME RobnoTipovi, KnjizenjeDrziNacrt, NEW r \in Zahtjev, PocniKalkulaciju(r)
  PROVE  KnjizenjeDrziNacrt'
<1>1. zahtjev \in [Zahtjev -> Poslovi] /\ dok' = dok
  BY DEF RobnoTipovi, PocniKalkulaciju
<1>2. zahtjev' = [zahtjev EXCEPT ![r].pc = "kalkulacija", ![r].ostalo = Stavke(zahtjev[r].dok)]
  BY DEF PocniKalkulaciju
<1>3. /\ \A q \in Zahtjev : zahtjev'[q].dok = zahtjev[q].dok
      /\ \A q \in Zahtjev \ {r} : zahtjev'[q].pc = zahtjev[q].pc
  BY <1>1, <1>2 DEF Poslovi
<1>4. Status(zahtjev[r].dok, "DRAFT") /\ \A q \in Zahtjev : ~Knjizi(q)
  BY DEF PocniKalkulaciju, GodinaSlobodna
<1>5. \A q \in Zahtjev : Knjizi(q)' => q = r
  BY <1>3, <1>4 DEF Knjizi
<1> QED
  BY <1>1, <1>3, <1>4, <1>5 DEF KnjizenjeDrziNacrt, Status

\* Edits of a request that has seen a draft: a calculation that is being posted is locked.
LEMMA IzmjenaKretanje ==
  ASSUME RobnoInv, KretanjaSlazu, NEW r \in Zahtjev, Korak(r),
         IzmijeniStavku(r) \/ ObrisiNacrt(r) \/ UpisiSliku(r)
  PROVE  KretanjaSlazu'
<1> USE DEF RobnoInv
<1> DEFINE e == zahtjev[r].dok
<1>1. e \in Dokument /\ dok \in [Dokument -> Podaci] /\ dok[e] \in Podaci
  BY DEF RobnoTipovi, Poslovi
<1>2. /\ kasno' = IF Status(e, "DRAFT") \/ dok'[e] = dok[e] THEN kasno ELSE kasno \cup {e}
      /\ kartica' = kartica /\ polovicno' = polovicno
  BY DEF IzmijeniStavku, ObrisiNacrt, UpisiSliku, Zakasni, zalihe
<1>3. kasno \subseteq kasno' /\ polovicno \subseteq polovicno'
  BY <1>2
<1>4. /\ \A f \in Dokument \ {e} : dok'[f] = dok[f]
      /\ dok'[e].status = dok[e].status \/ (ObrisiNacrt(r) /\ dok'[e].status = "DELETED")
  <2>1. CASE IzmijeniStavku(r)
    <3>1. PICK a \in Roba[e], q \in Kolicina \cup {0} :
            dok' = [dok EXCEPT ![e].stavke[a] = q,
                      ![e].popisano = IF Je(e, {"popis"}) THEN @ \cup {a} ELSE @,
                      ![e].vezano = IF q = 0 /\ ~Je(e, {"popis"}) THEN @ \ {a} ELSE @]
      BY <2>1 DEF IzmijeniStavku
    <3> QED
      BY <1>1, <3>1 DEF Podaci
  <2>2. CASE ObrisiNacrt(r)
    <3>1. dok' = [dok EXCEPT ![e].status = "DELETED"]
      BY <2>2 DEF ObrisiNacrt
    <3> QED
      BY <1>1, <2>2, <3>1 DEF Podaci
  <2>3. CASE UpisiSliku(r)
    <3>1. dok' = [dok EXCEPT ![e].knjizno = zahtjev[r].slika]
      BY <2>3 DEF UpisiSliku
    <3> QED
      BY <1>1, <3>1 DEF Podaci
  <2> QED
    BY <2>1, <2>2, <2>3
<1>5. ObrisiNacrt(r) => ~Je(e, {"kalkulacija"})
  BY DEF ObrisiNacrt, Radi, Je
<1>6. ~PocniKalkulaciju(r)
  <2>1. zahtjev[r].pc \in {"uredi", "obrisi", "osvjezi"}
    BY DEF IzmijeniStavku, ObrisiNacrt, UpisiSliku, Radi
  <2> QED
    BY <2>1 DEF PocniKalkulaciju, Radi
<1>7. \A d \in Dokument : Je(d, {"kalkulacija"}) => dok'[d].status = dok[d].status
  BY <1>4, <1>5
<1>8. JedanUlaz'
  BY <1>2, <1>7, UlaziOstaju DEF KretanjaSlazu
<1>9. KnjizenjeDrziNacrt'
  <2>1. \A q \in Zahtjev : Knjizi(q)' => Knjizi(q) /\ zahtjev'[q].dok = zahtjev[q].dok
    BY <1>6, KnjizenjaOstaju
  <2>2. \A q \in Zahtjev : Knjizi(q) => dok'[zahtjev[q].dok].status = "DRAFT"
    BY <1>7 DEF KretanjaSlazu, KnjizenjeDrziNacrt, KnjizenjeDrziGodinu, Status, RobnoTipovi,
                Poslovi
  <2> QED
    BY <2>1, <2>2, NacrtOstaje DEF KretanjaSlazu
<1>10. \/ e \in kasno' \/ dok'[e] = dok[e]
       \/ ~Status(e, "POSTED") /\ dok'[e].status # "POSTED"
  <2>1. Status(e, "DRAFT") => ~Status(e, "POSTED") /\ dok'[e].status # "POSTED"
    BY <1>4 DEF Status
  <2> QED
    BY <1>2, <2>1
<1>11. KretanjePratiDokument'
  BY <1>1, <1>2, <1>3, <1>4, <1>10, BezZapisa DEF KretanjaSlazu
<1> QED
  BY <1>8, <1>9, <1>11 DEF KretanjaSlazu

\* Postings of transfers, write-offs and counts.
LEMMA IzlazKretanje ==
  ASSUME RobnoInv, KretanjaSlazu, NEW r \in Zahtjev,
         ProknjiziIzlaz(r) \/ ProknjiziDio(r) \/ ProknjiziPopis(r)
  PROVE  JedanUlaz' /\ KretanjePratiDokument'
         /\ \A d \in Dokument : Je(d, {"kalkulacija"}) => dok'[d] = dok[d]
<1> USE DEF RobnoInv
<1>1. PICK e : e = zahtjev[r].dok
  OBVIOUS
<1>2. e \in Dokument /\ dok \in [Dokument -> Podaci] /\ dok[e] \in Podaci
  BY <1>1 DEF RobnoTipovi, Poslovi
<1>3. ~Je(e, {"kalkulacija"}) /\ Status(e, "DRAFT")
  BY <1>1 DEF ProknjiziIzlaz, ProknjiziDio, ProknjiziPopis, Radi, Je
<1>4. \A m \in Magacin, a \in Artikal \ Stavke(e) : Promjena(e, m, a) = 0
  BY <1>2, BezStavke
<1>5. ASSUME Proknjizi(e, "POSTED"), kasno' = kasno, polovicno' = polovicno
      PROVE  JedanUlaz' /\ KretanjePratiDokument' /\ \A d \in Dokument \ {e} : dok'[d] = dok[d]
  <2>1. /\ Pomjeri(e, Stavke(e))
        /\ dok' = [dok EXCEPT ![e].status = "POSTED", ![e].vezano = Stavke(e)]
    BY <1>5 DEF Proknjizi
  <2>2. \A d \in Dokument \ {e} : dok'[d] = dok[d]
    BY <1>2, <2>1
  <2>3. KretanjePratiDokument'
    BY <1>2, <1>3, <1>4, <1>5, KnjizenjeKretanje DEF KretanjaSlazu
  <2>4. JedanUlaz'
    BY <1>2, <1>3, <2>1, <2>2, TudjeKretanje DEF KretanjaSlazu
  <2> QED
    BY <2>2, <2>3, <2>4
<1>6. CASE ProknjiziIzlaz(r)
  <2>1. Proknjizi(e, "POSTED") /\ kasno' = kasno /\ polovicno' = polovicno
    BY <1>1, <1>6 DEF ProknjiziIzlaz, istorija
  <2> QED
    BY <1>3, <1>5, <2>1
<1>7. CASE ProknjiziPopis(r)
  <2>1. kasno' = kasno /\ polovicno' = polovicno
    BY <1>7 DEF ProknjiziPopis, istorija
  <2>2. CASE Proknjizi(e, "POSTED")
    BY <1>3, <1>5, <2>1, <2>2
  <2>3. CASE Zakljuci(e)
    <3>1. \A d \in Dokument \ {e} : dok'[d] = dok[d]
      BY <1>2, <2>3 DEF Zakljuci
    <3>2. dok'[e].status = "COMPLETED" /\ ~Status(e, "POSTED")
      BY <1>2, <1>3, <2>3 DEF Zakljuci, Podaci, Status
    <3>3. kartica' = kartica
      BY <2>3 DEF Zakljuci, zalihe
    <3>4. KretanjePratiDokument'
      BY <1>2, <2>1, <3>1, <3>2, <3>3, BezZapisa DEF KretanjaSlazu
    <3>5. \A d \in Dokument : Je(d, {"kalkulacija"}) => dok'[d] = dok[d]
      BY <1>3, <3>1
    <3>6. JedanUlaz'
      BY <3>3, <3>5 DEF JedanUlaz, KretanjaSlazu, Status, Je
    <3> QED
      BY <3>4, <3>5, <3>6
  <2> QED
    BY <1>1, <1>7, <2>2, <2>3 DEF ProknjiziPopis
<1>8. CASE ProknjiziDio(r)
  <2>1. PICK A : /\ Pomjeri(e, A)
                 /\ dok' = [dok EXCEPT ![e].vezano = @ \cup A]
    BY <1>1, <1>8 DEF ProknjiziDio
  <2>2. \A d \in Dokument \ {e} : dok'[d] = dok[d]
    BY <1>2, <2>1
  <2>3. kasno' = kasno /\ polovicno' = polovicno \cup {e}
    BY <1>1, <1>8 DEF ProknjiziDio
  <2>4. ASSUME NEW d \in Dokument \ {e}, NEW m \in Magacin, NEW a \in Artikal
        PROVE  KretanjeK(kartica'[m][a], d) = KretanjeK(kartica[m][a], d)
    BY <1>2, <2>1, PomjeriKretanje
  <2>5. KretanjePratiDokument'
    BY <1>2, <2>2, <2>3, <2>4, PratiJedan DEF KretanjaSlazu
  <2>6. JedanUlaz'
    BY <1>2, <1>3, <2>1, <2>2, TudjeKretanje DEF KretanjaSlazu
  <2> QED
    BY <1>3, <2>2, <2>5, <2>6
<1> QED
  BY <1>6, <1>7, <1>8

\* Actions on one document that move no goods.
LEMMA NacrtKretanje ==
  ASSUME RobnoInv, KretanjaSlazu, NEW d \in Dokument,
         \/ Kreiraj(d) \/ KreirajPopis(d) \/ PopuniPopis(d)
         \/ KreirajPovrat(d) \/ IzmijeniPovrat(d) \/ ObrisiPovrat(d)
  PROVE  KretanjaSlazu'
<1> USE DEF RobnoInv
<1>1. dok \in [Dokument -> Podaci] /\ dok[d] \in Podaci
  BY DEF RobnoTipovi
<1>2. UNCHANGED <<zalihe, zakljucena, zahtjev, istorija>>
  BY TipoviNacrta
<1>3. /\ \A e \in Dokument \ {d} : dok'[e] = dok[e]
      /\ dok[d].status \in {"NEMA", "DRAFT"} /\ dok'[d].status \in {"DRAFT", "DELETED"}
      /\ Je(d, {"kalkulacija"}) => dok[d].status = "NEMA" /\ dok'[d].status = "DRAFT"
  <2>1. CASE Kreiraj(d)
    <3>1. PICK S \in IF Je(d, {"prodaja"}) THEN [Artikal -> Kolicina \cup {0}] ELSE {Nista} :
            dok' = [dok EXCEPT ![d] = [NemaDokumenta EXCEPT !.status = "DRAFT", !.stavke = S]]
      BY <2>1 DEF Kreiraj
    <3>2. dok[d].status = "NEMA"
      BY <2>1 DEF Kreiraj, Novi, Status
    <3> QED
      BY <1>1, <3>1, <3>2 DEF NemaDokumenta
  <2>2. CASE KreirajPopis(d)
    BY <1>1, <2>2 DEF KreirajPopis, Novi, Status, Je, NemaDokumenta
  <2>3. CASE PopuniPopis(d)
    BY <1>1, <2>3 DEF PopuniPopis, Status, Je, Podaci
  <2>4. CASE KreirajPovrat(d)
    BY <1>1, <2>4 DEF KreirajPovrat, Povrat, Status, Je, NemaDokumenta
  <2>5. CASE IzmijeniPovrat(d)
    <3>1. PICK a \in Roba[d], q \in Kolicina \cup {0} : dok' = [dok EXCEPT ![d].stavke[a] = q]
      BY <2>5 DEF IzmijeniPovrat
    <3>2. dok'[d].status = dok[d].status
      BY <1>1, <3>1 DEF Podaci
    <3>3. dok[d].status = "DRAFT" /\ ~Je(d, {"kalkulacija"})
      BY <2>5 DEF IzmijeniPovrat, Povrat, Status, Je
    <3> QED
      BY <1>1, <3>1, <3>2, <3>3
  <2>6. CASE ObrisiPovrat(d)
    BY <1>1, <2>6 DEF ObrisiPovrat, Povrat, Status, Je, Podaci
  <2> QED
    BY <2>1, <2>2, <2>3, <2>4, <2>5, <2>6
<1>4. kartica' = kartica /\ kasno' = kasno /\ polovicno' = polovicno /\ zahtjev' = zahtjev
  BY <1>2 DEF zalihe, istorija
<1>5. KretanjePratiDokument'
  <2>1. ~Status(d, "POSTED") /\ dok'[d].status # "POSTED"
    BY <1>3 DEF Status
  <2> QED
    BY <1>3, <1>4, <2>1, BezZapisa DEF KretanjaSlazu
<1>6. JedanUlaz'
  BY <1>3, <1>4, UlaziOstaju DEF KretanjaSlazu
<1>7. KnjizenjeDrziNacrt'
  <2>1. \A q \in Zahtjev : Knjizi(q)' => Knjizi(q) /\ zahtjev'[q].dok = zahtjev[q].dok
    BY <1>4 DEF Knjizi
  <2>2. ASSUME NEW q \in Zahtjev, Knjizi(q) PROVE dok'[zahtjev[q].dok].status = "DRAFT"
    <3>1. PICK e : e = zahtjev[q].dok
      OBVIOUS
    <3>2. e \in Dokument /\ Je(e, {"kalkulacija"}) /\ dok[e].status = "DRAFT"
      BY <2>2, <3>1 DEF KretanjaSlazu, KnjizenjeDrziNacrt, KnjizenjeDrziGodinu, RobnoTipovi,
                        Poslovi, Status
    <3> QED
      BY <1>3, <3>1, <3>2
  <2> QED
    BY <2>1, <2>2, NacrtOstaje DEF KretanjaSlazu
<1> QED
  BY <1>5, <1>6, <1>7 DEF KretanjaSlazu

\* Postings of sales and returns, in one step.
LEMMA OdmahKretanje ==
  ASSUME RobnoInv, KretanjaSlazu, NEW d \in Dokument, Isporuci(d) \/ ProknjiziPovrat(d)
  PROVE  KretanjaSlazu'
<1> USE DEF RobnoInv
<1>1. /\ Proknjizi(d, "POSTED") /\ Status(d, "DRAFT") /\ ~Je(d, {"kalkulacija"})
      /\ kasno' = kasno /\ polovicno' = polovicno /\ zahtjev' = zahtjev
  BY DEF Isporuci, ProknjiziPovrat, Povrat, Je, istorija
<1>2. /\ Pomjeri(d, Stavke(d))
      /\ dok' = [dok EXCEPT ![d].status = "POSTED", ![d].vezano = Stavke(d)]
  BY <1>1 DEF Proknjizi
<1>3. \A e \in Dokument \ {d} : dok'[e] = dok[e]
  BY <1>2 DEF RobnoTipovi
<1>4. \A m \in Magacin, a \in Artikal \ Stavke(d) : Promjena(d, m, a) = 0
  BY BezStavke
<1>5. KretanjePratiDokument'
  BY <1>1, <1>4, KnjizenjeKretanje DEF KretanjaSlazu
<1>6. JedanUlaz'
  BY <1>1, <1>2, <1>3, TudjeKretanje DEF KretanjaSlazu
<1>7. KnjizenjeDrziNacrt'
  <2>1. \A q \in Zahtjev : Knjizi(q)' => Knjizi(q) /\ zahtjev'[q].dok = zahtjev[q].dok
    BY <1>1 DEF Knjizi
  <2>2. ASSUME NEW q \in Zahtjev, Knjizi(q) PROVE dok'[zahtjev[q].dok].status = "DRAFT"
    <3>1. PICK e : e = zahtjev[q].dok
      OBVIOUS
    <3>2. e \in Dokument /\ Je(e, {"kalkulacija"}) /\ dok[e].status = "DRAFT"
      BY <2>2, <3>1 DEF KretanjaSlazu, KnjizenjeDrziNacrt, KnjizenjeDrziGodinu, RobnoTipovi,
                        Poslovi, Status
    <3> QED
      BY <1>1, <1>3, <3>1, <3>2
  <2> QED
    BY <2>1, <2>2, NacrtOstaje DEF KretanjaSlazu
<1> QED
  BY <1>5, <1>6, <1>7 DEF KretanjaSlazu

\* Every step keeps documents and movements together.
LEMMA KretanjaKorak ==
  ASSUME RobnoInv, KretanjaSlazu, [Next]_vars
  PROVE  KretanjaSlazu'
<1> USE DEF RobnoInv
<1>1. ASSUME dok' = dok, UNCHANGED zalihe, UNCHANGED istorija
      PROVE  JedanUlaz' /\ KretanjePratiDokument'
  <2>1. kartica' = kartica /\ kasno' = kasno /\ polovicno' = polovicno
    BY <1>1 DEF zalihe, istorija
  <2>2. JedanUlaz'
    BY <1>1, <2>1, UlaziOstaju DEF KretanjaSlazu
  <2>3. PICK d : d \in Dokument
    BY RobnoPretpostavke
  <2>4. KretanjePratiDokument'
    BY <1>1, <2>1, <2>3, BezZapisa DEF KretanjaSlazu
  <2> QED
    BY <2>2, <2>4
<1>2. ASSUME dok' = dok, zahtjev' = zahtjev PROVE KnjizenjeDrziNacrt'
  BY <1>2 DEF KretanjaSlazu, KnjizenjeDrziNacrt, Knjizi, Status
<1>3. CASE UNCHANGED vars
  <2>1. dok' = dok /\ UNCHANGED zalihe /\ zahtjev' = zahtjev /\ UNCHANGED istorija
    BY <1>3 DEF vars, zalihe
  <2> QED
    BY <1>1, <1>2, <2>1 DEF KretanjaSlazu
<1>4. ASSUME NEW r \in Zahtjev, Korak(r) PROVE KretanjaSlazu'
  <2>1. CASE \/ \E d \in Dokument :
                  \/ PocniIzmjenu(r, d) \/ OsvjeziPopis(r, d) \/ PocniKnjizenje(r, d)
                  \/ PocniBrisanje(r, d)
             \/ PocniKalkulaciju(r) \/ ProcitajStanje(r) \/ UpisiStanje(r) \/ Odustani(r)
    <3>1. UNCHANGED <<dok, zalihe, zakljucena, istorija>>
      BY <2>1, TipoviZahtjeva
    <3>2. JedanUlaz' /\ KretanjePratiDokument'
      BY <1>1, <3>1
    <3>3. CASE PocniKalkulaciju(r)
      BY <3>2, <3>3, PocetakKnjizenja DEF KretanjaSlazu
    <3>4. CASE ~PocniKalkulaciju(r)
      <4>1. \A q \in Zahtjev : Knjizi(q)' => Knjizi(q) /\ zahtjev'[q].dok = zahtjev[q].dok
        BY <1>4, <3>4, KnjizenjaOstaju
      <4>2. \A q \in Zahtjev : Knjizi(q) => dok'[zahtjev[q].dok].status = "DRAFT"
        BY <3>1 DEF KretanjaSlazu, KnjizenjeDrziNacrt, Status
      <4> QED
        BY <3>2, <4>1, <4>2, NacrtOstaje DEF KretanjaSlazu
    <3> QED
      BY <3>3, <3>4
  <2>2. CASE IzmijeniStavku(r) \/ ObrisiNacrt(r) \/ UpisiSliku(r)
    BY <1>4, <2>2, IzmjenaKretanje
  <2>3. CASE ProknjiziIzlaz(r) \/ ProknjiziDio(r) \/ ProknjiziPopis(r)
    <3>1. /\ JedanUlaz' /\ KretanjePratiDokument'
          /\ \A d \in Dokument : Je(d, {"kalkulacija"}) => dok'[d] = dok[d]
      BY <2>3, IzlazKretanje
    <3>2. ~PocniKalkulaciju(r)
      BY <2>3 DEF ProknjiziIzlaz, ProknjiziDio, ProknjiziPopis, PocniKalkulaciju, Radi, Je
    <3>3. \A q \in Zahtjev : Knjizi(q)' => Knjizi(q) /\ zahtjev'[q].dok = zahtjev[q].dok
      BY <1>4, <3>2, KnjizenjaOstaju
    <3>4. ASSUME NEW q \in Zahtjev, Knjizi(q) PROVE dok'[zahtjev[q].dok].status = "DRAFT"
      <4>1. PICK e : e = zahtjev[q].dok
        OBVIOUS
      <4>2. e \in Dokument /\ Je(e, {"kalkulacija"}) /\ dok[e].status = "DRAFT"
        BY <3>4, <4>1 DEF KretanjaSlazu, KnjizenjeDrziNacrt, KnjizenjeDrziGodinu, RobnoTipovi,
                          Poslovi, Status
      <4> QED
        BY <3>1, <4>1, <4>2
    <3> QED
      BY <3>1, <3>3, <3>4, NacrtOstaje DEF KretanjaSlazu
  <2>4. CASE PotvrdiKalkulaciju(r)
    <3>1. \A q \in Zahtjev : ~Knjizi(q)'
      <4>1. Zavrsi(r) /\ Knjizi(r)
        BY <2>4 DEF PotvrdiKalkulaciju
      <4>2. \A q \in Zahtjev \ {r} : ~Knjizi(q) /\ zahtjev'[q] = zahtjev[q]
        BY <4>1 DEF KretanjaSlazu, KnjizenjeDrziNacrt, Zavrsi, RobnoTipovi
      <4>3. zahtjev'[r].pc = "miruje"
        BY <4>1 DEF Zavrsi, RobnoTipovi, Miruje
      <4> QED
        BY <4>2, <4>3 DEF Knjizi
    <3>2. KnjizenjeDrziNacrt'
      BY <3>1 DEF KnjizenjeDrziNacrt
    <3> QED
      BY <2>4, <3>2, KalkulacijaKretanje DEF KretanjaSlazu
  <2> QED
    BY <1>4, <2>1, <2>2, <2>3, <2>4 DEF Korak
<1>5. ASSUME NEW d \in Dokument,
             \/ Kreiraj(d) \/ KreirajPopis(d) \/ PopuniPopis(d)
             \/ KreirajPovrat(d) \/ IzmijeniPovrat(d) \/ ObrisiPovrat(d)
      PROVE  KretanjaSlazu'
  BY <1>5, NacrtKretanje
<1>6. ASSUME NEW d \in Dokument, Isporuci(d) \/ ProknjiziPovrat(d)
      PROVE  KretanjaSlazu'
  BY <1>6, OdmahKretanje
<1>7. ASSUME NEW d \in Dokument, ObrisiKalkulaciju(d) PROVE KretanjaSlazu'
  <2>1. /\ \A q \in Zahtjev : ~Knjizi(q)
        /\ zahtjev' = zahtjev
    BY <1>7 DEF ObrisiKalkulaciju, GodinaSlobodna
  <2>2. KnjizenjeDrziNacrt'
    BY <2>1 DEF KnjizenjeDrziNacrt, Knjizi
  <2> QED
    BY <1>7, <2>2, BrisanjeKretanje DEF KretanjaSlazu
<1>8. CASE ZatvoriOtvori
  <2>1. dok' = dok /\ UNCHANGED zalihe /\ zahtjev' = zahtjev /\ UNCHANGED istorija
    BY <1>8 DEF ZatvoriOtvori
  <2> QED
    BY <1>1, <1>2, <2>1 DEF KretanjaSlazu
<1> QED
  BY <1>3, <1>4, <1>5, <1>6, <1>7, <1>8 DEF Next

\* The empty warehouse.
LEMMA PocetakKretanja == Init => KretanjaSlazu
<1> SUFFICES ASSUME Init PROVE KretanjaSlazu
  OBVIOUS
<1>1. ASSUME NEW d \in Dokument, NEW m \in Magacin, NEW a \in Artikal
      PROVE  UlaziK(kartica[m][a], d) = {} /\ Kretanje(d, m, a) = 0 /\ ~Status(d, "POSTED")
  <2>1. kartica[m][a] = <<>> /\ <<>> \in Seq(Redovi)
    BY DEF Init
  <2>2. UlaziK(<<>>, d) = {}
    BY DEF UlaziK
  <2>3. KretanjeK(<<>>, d) = 0
    BY <2>1, <2>2, KretanjeJednog
  <2>4. dok[d].status = "NEMA"
    BY DEF Init, NemaDokumenta
  <2> QED
    BY <2>1, <2>2, <2>3, <2>4, KretanjeKartica DEF Status
<1>2. \A r \in Zahtjev : ~Knjizi(r)
  BY DEF Init, Knjizi, Miruje
<1> QED
  BY <1>1, <1>2 DEF KretanjaSlazu, KnjizenjeDrziNacrt, JedanUlaz, KretanjePratiDokument

\* In every reachable state the movements of a document are those of its lines if it is
\* posted, and add up to nothing if it is not, unless it was edited after its posting or its
\* posting was refused half way.
THEOREM KretanjeUvijekPrati == Spec => []KretanjePratiDokument
<1>1. Init => KretanjaSlazu
  BY PocetakKretanja
<1>2. RobnoInv /\ KretanjaSlazu /\ [Next]_vars => KretanjaSlazu'
  BY KretanjaKorak
<1>3. KretanjaSlazu => KretanjePratiDokument
  BY DEF KretanjaSlazu
<1> QED
  BY <1>1, <1>2, <1>3, RobnoInduktivna, PTL DEF Spec
=============================================================================
