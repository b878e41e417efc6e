--------------------------- MODULE OsnovnaProofs ---------------------------
(* Proofs about Osnovna, for any assets, periods, years, batches and requests: posted
   depreciation has no hole, rests on the register as it is, and ends at the sale; the
   source journal of a confirmed change stays posted. *)
EXTENDS Osnovna, TLAPS

Kartica ==
  [status : {"NEMA", "PRIPREMA", "AKTIVNO", "PRODATO"}, od : Period \cup {0},
   kraj : Period \cup {0}, priprema : Period \cup {0}, nabavka : BOOLEAN,
   procjene : SUBSET Period, ucinak : [Period -> Nat]]
Osnovi == {<<>>} \cup ((SUBSET Period) \X UNION {[S -> Nat] : S \in SUBSET Period})
Obracuni ==
  [status : {"NEMA", "DRAFT", "POSTED"}, svjez : BOOLEAN, pokriva : [Sredstvo -> SUBSET Period],
   osnov : [Sredstvo -> Osnovi]]
Zahtjevi ==
  [pc : {"miran", "pise", "ceka", "vraca"},
   op : {"", "sredstvo", "procjena", "ucinak", "obracunaj", "knjizi", "nabavka", "prodaja"},
   a : Sredstvo \cup {""}, p : Period \cup {0}, v : Nat, b : Obracun \cup {0}, staro : BOOLEAN,
   nacrt : Obracuni]

OsnovnaTipovi ==
  /\ sredstvo \in [Sredstvo -> Kartica]
  /\ obracun \in [Obracun -> Obracuni]
  /\ pokrice \in [Obracun -> [Sredstvo -> SUBSET Period]]
  /\ izvor \in [{"nabavka", "prodaja"} -> BOOLEAN]
  /\ zakljucena \in [Godina -> BOOLEAN]
  /\ zahtjev \in [Zahtjev -> Zahtjevi]
  /\ izmjene \in Nat /\ presjek \subseteq Obracun

---------------------------------------------------------------------------
(* The inductive invariant *)

\* What is entered has a first period, and only a sold asset has a last one.
KarticeUredne ==
  \A a \in Sredstvo : LET s == sredstvo[a] IN
    /\ s.status # "NEMA" => s.od \in Period
    /\ IF s.status = "PRODATO" THEN s.kraj \in Period ELSE s.kraj = 0

\* A calculation covers, of assets in use, stretches of the batch's periods.
Uredan(o, b) ==
  \A a \in Sredstvo : LET K == o.pokriva[a] IN
    /\ K \subseteq Obuhvat(b)
    /\ \A p, q \in K : \A t \in p..q : t \in K
    /\ K # {} => sredstvo[a].status \in {"AKTIVNO", "PRODATO"} /\ \A p \in K : p >= sredstvo[a].od
\* It is what the register gives now.
Svjez(o, b) ==
  \A a \in Sredstvo : /\ o.pokriva[a] = PeriodiSredstva(sredstvo[a], b)
                      /\ o.osnov[a] = Ulaz(sredstvo[a], b)
ObracuniUredni ==
  \A b \in Obracun : Uredan(obracun[b], b) /\ (obracun[b].svjez => Svjez(obracun[b], b))

\* A batch covers what it was calculated for while it is posted, up to its last period.
PokricaUredna ==
  \A b \in Obracun, a \in Sredstvo :
    /\ pokrice[b][a] = IF obracun[b].status = "POSTED" THEN obracun[b].pokriva[a] ELSE {}
    /\ pokrice[b][a] # {} => PeriodDo[b] \in pokrice[b][a]

\* A batch that may be posted covers active assets, to its last period.
Spremno(b) ==
  /\ Nastavlja(b)
  /\ \A a \in Sredstvo : obracun[b].pokriva[a] # {} =>
       sredstvo[a].status = "AKTIVNO" /\ PeriodDo[b] \in obracun[b].pokriva[a]

\* A writer knows its asset and period; one that waits could go on if its snapshot were
\* of now.
PosaoUredan(r) ==
  LET z == zahtjev[r] IN
  /\ z.pc = "pise" => z.op \in {"sredstvo", "procjena", "ucinak"} /\ z.a \in Sredstvo /\ z.p \in Period
  /\ z.pc = "ceka" => z.op \in {"knjizi", "obracunaj"} /\ z.b \in Obracun
  /\ z.pc = "ceka" /\ z.op = "knjizi" =>
       /\ obracun[z.b].status = "DRAFT" /\ Spremno(z.b)
       /\ ~z.staro => obracun[z.b].svjez
  /\ z.pc = "ceka" /\ z.op = "obracunaj" =>
       /\ obracun[z.b].status # "POSTED" /\ z.nacrt.status = "DRAFT" /\ Uredan(z.nacrt, z.b)
       /\ ~z.staro => Svjez(z.nacrt, z.b)
PosloviUredni == \A r \in Zahtjev : PosaoUredan(r)

KnjigaSredstava ==
  /\ KarticeUredne /\ ObracuniUredni /\ PokricaUredna
  /\ PokriceBezRupa /\ ProknjizenoVazi /\ ProdatoAmortizovano
OsnovnaInv == OsnovnaTipovi /\ KnjigaSredstava /\ PosloviUredni /\ IzvorOstajeProknjizen

---------------------------------------------------------------------------
(* Values *)

LEMMA Brojevi == /\ BrojPerioda \in Nat /\ Period \subseteq Nat
                 /\ \A x \in Period \cup {0} : x \in Nat
BY OsnovnaPretpostavke DEF Period

LEMMA Obuhvati ==
  ASSUME NEW b \in Obracun
  PROVE  /\ PeriodOd[b] \in Period /\ PeriodDo[b] \in Period /\ PeriodOd[b] <= PeriodDo[b]
         /\ Obuhvat(b) \subseteq Period
         /\ \A p \in Obuhvat(b) : p <= PeriodDo[b]
         /\ \A p, q \in Obuhvat(b) : \A t \in p..q : t \in Obuhvat(b)
<1>1. PeriodOd[b] \in Period /\ PeriodDo[b] \in Period /\ PeriodOd[b] <= PeriodDo[b]
  BY OsnovnaPretpostavke
<1> QED
  BY <1>1, Brojevi DEF Period, Obuhvat

\* Nothing, a request at rest and a new asset are well formed.
LEMMA Pocetni ==
  /\ NemaObracuna \in Obracuni /\ Miran \in Zahtjevi /\ NemaSredstva \in Kartica
  /\ \A p \in Period, st \in {"PRIPREMA", "AKTIVNO"} :
       /\ Unijeto(p, st) \in Kartica
       /\ Unijeto(p, st).status = st /\ Unijeto(p, st).od = p /\ Unijeto(p, st).kraj = 0
       /\ Unijeto(p, st).nabavka = FALSE
<1>1. NemaObracuna \in Obracuni
  BY DEF NemaObracuna, Obracuni, Osnovi
<1>2. Miran \in Zahtjevi
  BY <1>1 DEF Miran, Zahtjevi
<1>3. NemaSredstva \in Kartica
  BY DEF NemaSredstva, Kartica
<1> QED
  BY <1>1, <1>2, <1>3 DEF Unijeto, Kartica, NemaSredstva

\* What an asset gives to a batch is well formed.
LEMMA UlazUredan ==
  ASSUME NEW s \in Kartica, NEW b \in Obracun
  PROVE  /\ PeriodiSredstva(s, b) \subseteq Period /\ PeriodiSredstva(s, b) \subseteq Obuhvat(b)
         /\ \A p, q \in PeriodiSredstva(s, b) : \A t \in p..q : t \in PeriodiSredstva(s, b)
         /\ Ulaz(s, b) \in Osnovi
<1>1. PeriodiSredstva(s, b) \subseteq Period /\ PeriodiSredstva(s, b) \subseteq Obuhvat(b)
  BY Obuhvati DEF PeriodiSredstva
<1>2. ASSUME NEW p \in PeriodiSredstva(s, b), NEW q \in PeriodiSredstva(s, b), NEW t \in p..q
      PROVE  t \in PeriodiSredstva(s, b)
  <2>1. t \in Obuhvat(b) /\ t >= p /\ t <= q /\ t \in Nat /\ p \in Nat /\ q \in Nat
    <3>1. p \in Obuhvat(b) /\ q \in Obuhvat(b) /\ p \in Nat /\ q \in Nat
      BY <1>1, Brojevi
    <3>2. t \in Obuhvat(b)
      BY <3>1, Obuhvati
    <3> QED
      BY <3>1, <3>2
  <2>2. s.od \in Nat /\ s.kraj \in Nat
    <3>1. s.od \in Period \cup {0} /\ s.kraj \in Period \cup {0}
      BY DEF Kartica
    <3> QED
      BY <3>1, Brojevi
  <2> QED
    BY <2>1, <2>2 DEF PeriodiSredstva
<1>3. [p \in PeriodiSredstva(s, b) |-> s.ucinak[p]] \in [PeriodiSredstva(s, b) -> Nat]
  BY <1>1 DEF Kartica
<1>4. {p \in s.procjene : p <= PeriodDo[b]} \in SUBSET Period
  BY DEF Kartica
<1> QED
  BY <1>1, <1>2, <1>3, <1>4 DEF Ulaz, Osnovi

\* A calculation of now is well formed and fresh.
LEMMA NacrtUredan ==
  ASSUME OsnovnaTipovi, NEW b \in Obracun
  PROVE  /\ NacrtOd(b) \in Obracuni /\ NacrtOd(b).status = "DRAFT" /\ NacrtOd(b).svjez
         /\ Uredan(NacrtOd(b), b) /\ Svjez(NacrtOd(b), b)
<1>1. ASSUME NEW a \in Sredstvo
      PROVE  sredstvo[a] \in Kartica
  BY DEF OsnovnaTipovi
<1>2. NacrtOd(b) \in Obracuni /\ NacrtOd(b).status = "DRAFT" /\ NacrtOd(b).svjez
  BY <1>1, UlazUredan DEF NacrtOd, Obracuni
<1>3. Svjez(NacrtOd(b), b)
  BY DEF NacrtOd, Svjez
<1>4. \A a \in Sredstvo : PeriodiSredstva(sredstvo[a], b) # {} =>
        /\ sredstvo[a].status \in {"AKTIVNO", "PRODATO"}
        /\ \A p \in PeriodiSredstva(sredstvo[a], b) : p >= sredstvo[a].od
  BY DEF PeriodiSredstva
<1>5. Uredan(NacrtOd(b), b)
  <2>1. \A a \in Sredstvo : NacrtOd(b).pokriva[a] = PeriodiSredstva(sredstvo[a], b)
    BY DEF NacrtOd
  <2> QED
    BY <1>1, <1>4, <2>1, UlazUredan DEF Uredan
<1> QED
  BY <1>2, <1>3, <1>5

---------------------------------------------------------------------------
(* Requests in progress *)

\* An asset in use stays in use, an active one active, from the same period on.
UUpotrebiOstaje ==
  \A a \in Sredstvo : sredstvo[a].status \in {"AKTIVNO", "PRODATO"} =>
    sredstvo'[a].status \in {"AKTIVNO", "PRODATO"} /\ sredstvo'[a].od = sredstvo[a].od
AktivnoOstaje ==
  \A a \in Sredstvo : sredstvo[a].status = "AKTIVNO" =>
    sredstvo'[a].status = "AKTIVNO" /\ sredstvo'[a].od = sredstvo[a].od
\* What assets give to a batch does not change.
UlazOstaje(b) ==
  \A a \in Sredstvo : /\ PeriodiSredstva(sredstvo'[a], b) = PeriodiSredstva(sredstvo[a], b)
                      /\ Ulaz(sredstvo'[a], b) = Ulaz(sredstvo[a], b)

\* What a batch is ready to post it stays ready to, while no other one is posted.
LEMMA SpremnoOstaje ==
  ASSUME NEW b \in Obracun, Spremno(b), AktivnoOstaje, pokrice' = pokrice,
         obracun'[b].pokriva = obracun[b].pokriva
  PROVE  Spremno(b)'
<1>1. \A a \in Sredstvo : obracun[b].pokriva[a] # {} => sredstvo'[a].od = sredstvo[a].od
  BY DEF Spremno, AktivnoOstaje
<1>2. \A a \in Sredstvo : Pokriveno(a)' = Pokriveno(a)
  BY DEF Pokriveno
<1>3. Nastavlja(b)'
  BY <1>1, <1>2 DEF Spremno, Nastavlja
<1> QED
  BY <1>3 DEF Spremno, AktivnoOstaje

\* A request that a step leaves alone, or only makes stale, stays well formed.
LEMMA PosaoOstaje ==
  ASSUME NEW r \in Zahtjev, zahtjev[r] \in Zahtjevi, PosaoUredan(r),
         \/ zahtjev'[r] = zahtjev[r]
         \/ zahtjev'[r] = [zahtjev[r] EXCEPT !.staro = TRUE],
         zahtjev[r].pc = "ceka" =>
           /\ UUpotrebiOstaje
           /\ obracun'[zahtjev[r].b].status = obracun[zahtjev[r].b].status
           /\ obracun'[zahtjev[r].b].pokriva = obracun[zahtjev[r].b].pokriva
           /\ zahtjev[r].op = "knjizi" => pokrice' = pokrice /\ AktivnoOstaje
           /\ ~zahtjev'[r].staro => /\ UlazOstaje(zahtjev[r].b)
                                    /\ obracun'[zahtjev[r].b].svjez = obracun[zahtjev[r].b].svjez
  PROVE  PosaoUredan(r)'
<1> DEFINE z == zahtjev[r]
<1>1. /\ zahtjev'[r].pc = z.pc /\ zahtjev'[r].op = z.op /\ zahtjev'[r].a = z.a
      /\ zahtjev'[r].p = z.p /\ zahtjev'[r].b = z.b /\ zahtjev'[r].nacrt = z.nacrt
      /\ ~zahtjev'[r].staro => ~z.staro
  BY DEF Zahtjevi
<1>2. CASE z.pc # "ceka"
  BY <1>1, <1>2 DEF PosaoUredan
<1>3. CASE z.pc = "ceka" /\ z.op = "knjizi"
  <2>1. Spremno(z.b) /\ z.b \in Obracun /\ obracun[z.b].status = "DRAFT"
    BY <1>3 DEF PosaoUredan
  <2>2. \A b \in Obracun : b = z.b => Spremno(b)'
    BY <1>3, <2>1, SpremnoOstaje
  <2>3. ~zahtjev'[r].staro => obracun'[z.b].svjez
    BY <1>1, <1>3 DEF PosaoUredan
  <2>4. Spremno(zahtjev[r].b)'
    BY <1>1, <2>1, <2>2
  <2> QED
    BY <1>1, <1>3, <2>1, <2>3, <2>4 DEF PosaoUredan
<1>4. CASE z.pc = "ceka" /\ z.op = "obracunaj"
  <2>1. /\ z.b \in Obracun /\ obracun[z.b].status # "POSTED" /\ z.nacrt.status = "DRAFT"
        /\ Uredan(z.nacrt, z.b) /\ (~z.staro => Svjez(z.nacrt, z.b))
    BY <1>4 DEF PosaoUredan
  <2>2. Uredan(zahtjev[r].nacrt, zahtjev[r].b)'
    BY <1>1, <1>4, <2>1 DEF Uredan, UUpotrebiOstaje, Obuhvat
  <2>3. ~zahtjev'[r].staro => Svjez(zahtjev[r].nacrt, zahtjev[r].b)'
    BY <1>1, <1>4, <2>1 DEF Svjez, UlazOstaje
  <2> QED
    BY <1>1, <1>4, <2>1, <2>2, <2>3 DEF PosaoUredan
<1> QED
  BY <1>2, <1>3, <1>4 DEF PosaoUredan

\* So does one at rest.
LEMMA PosaoMiruje ==
  ASSUME NEW r \in Zahtjev, zahtjev'[r] = Miran
  PROVE  PosaoUredan(r)'
<1>1. Miran.pc = "miran"
  BY DEF Miran
<1>2. zahtjev'[r].pc = "miran"
  BY <1>1
<1> QED
  BY <1>2 DEF PosaoUredan

\* Ended and stale requests are well formed data.
LEMMA TipoviPoslova ==
  ASSUME OsnovnaTipovi, NEW Q
  PROVE  /\ Zastarjeli \in [Zahtjev -> Zahtjevi]
         /\ BezOvih(Q, zahtjev) \in [Zahtjev -> Zahtjevi]
         /\ BezOvih(Q, Zastarjeli) \in [Zahtjev -> Zahtjevi]
<1>1. \A r \in Zahtjev : zahtjev[r] \in Zahtjevi /\ [zahtjev[r] EXCEPT !.staro = TRUE] \in Zahtjevi
  <2>1. \A z \in Zahtjevi : [z EXCEPT !.staro = TRUE] \in Zahtjevi
    BY DEF Zahtjevi
  <2> QED
    BY <2>1 DEF OsnovnaTipovi
<1>2. Zastarjeli \in [Zahtjev -> Zahtjevi]
  BY <1>1 DEF Zastarjeli
<1>3. Miran \in Zahtjevi
  BY Pocetni
<1> QED
  BY <1>1, <1>2, <1>3 DEF BezOvih

---------------------------------------------------------------------------
(* The books of the assets, by what a step changes *)

\* What leaves register, batches and coverage alone leaves the books alone.
LEMMA KnjigaMiruje ==
  ASSUME KnjigaSredstava, UNCHANGED <<sredstvo, obracuni>>
  PROVE  KnjigaSredstava'
BY DEF KnjigaSredstava, obracuni, KarticeUredne, ObracuniUredni, PokricaUredna, PokriceBezRupa,
       ProknjizenoVazi, ProknjizenoVaziSad, ProdatoAmortizovano, AmortizovanoDo, Pokriveno, Uredan,
       Svjez

\* An asset that a posted batch covers is in use, and was since before what is covered.
LEMMA PokrivenoUUpotrebi ==
  ASSUME OsnovnaTipovi, KnjigaSredstava, NEW a \in Sredstvo, NEW b \in Obracun, pokrice[b][a] # {}
  PROVE  /\ obracun[b].status = "POSTED" /\ pokrice[b][a] = obracun[b].pokriva[a]
         /\ sredstvo[a].status \in {"AKTIVNO", "PRODATO"} /\ sredstvo[a].od \in Period
         /\ \A p \in pokrice[b][a] : p >= sredstvo[a].od
         /\ PeriodDo[b] \in Pokriveno(a)
<1>1. /\ obracun[b].status = "POSTED" /\ pokrice[b][a] = obracun[b].pokriva[a]
      /\ PeriodDo[b] \in pokrice[b][a]
  BY DEF KnjigaSredstava, PokricaUredna
<1>2. /\ sredstvo[a].status \in {"AKTIVNO", "PRODATO"}
      /\ \A p \in pokrice[b][a] : p >= sredstvo[a].od
  BY <1>1 DEF KnjigaSredstava, ObracuniUredni, Uredan
<1>3. sredstvo[a].od \in Period
  BY <1>2 DEF KnjigaSredstava, KarticeUredne
<1> QED
  BY <1>1, <1>2, <1>3 DEF Pokriveno

\* The register changes, and no calculation is fresh any more.
LEMMA RegistarSeMijenja ==
  ASSUME OsnovnaTipovi, KnjigaSredstava, obracun' = Zastari, UNCHANGED <<pokrice, presjek>>,
         UUpotrebiOstaje, KarticeUredne', ProdatoAmortizovano',
         \A a \in Sredstvo, b \in Obracun :
           pokrice[b][a] # {} => Ulaz(sredstvo'[a], b) = Ulaz(sredstvo[a], b)
  PROVE  KnjigaSredstava'
<1>1. \A b \in Obracun : /\ obracun'[b].status = obracun[b].status /\ ~obracun'[b].svjez
                         /\ obracun'[b].pokriva = obracun[b].pokriva
                         /\ obracun'[b].osnov = obracun[b].osnov
  <2>1. \A o \in Obracuni : LET u == [o EXCEPT !.svjez = FALSE] IN
          u.status = o.status /\ ~u.svjez /\ u.pokriva = o.pokriva /\ u.osnov = o.osnov
    BY DEF Obracuni
  <2>2. \A b \in Obracun : obracun[b] \in Obracuni /\ obracun'[b] = [obracun[b] EXCEPT !.svjez = FALSE]
    BY DEF OsnovnaTipovi, Zastari
  <2> QED
    BY <2>1, <2>2
<1>2. ObracuniUredni'
  BY <1>1 DEF KnjigaSredstava, ObracuniUredni, Uredan, UUpotrebiOstaje, Obuhvat
<1>3. PokricaUredna'
  BY <1>1 DEF KnjigaSredstava, PokricaUredna
<1>4. \A a \in Sredstvo : Pokriveno(a)' = Pokriveno(a)
  BY DEF Pokriveno
<1>5. PokriceBezRupa'
  <2>1. ASSUME NEW a \in Sredstvo, Pokriveno(a) # {}
        PROVE  sredstvo'[a].od = sredstvo[a].od
    <3>1. PICK b \in Obracun : pokrice[b][a] # {}
      BY <2>1 DEF Pokriveno
    <3> QED
      BY <3>1, PokrivenoUUpotrebi DEF UUpotrebiOstaje
  <2> QED
    BY <1>4, <2>1 DEF KnjigaSredstava, PokriceBezRupa
<1>6. ProknjizenoVazi'
  BY <1>1 DEF KnjigaSredstava, ProknjizenoVazi, ProknjizenoVaziSad
<1> QED
  BY <1>2, <1>3, <1>5, <1>6 DEF KnjigaSredstava

\* A request writes what it found allowed.
LEMMA UpisUredan ==
  ASSUME OsnovnaTipovi, KnjigaSredstava, PosloviUredni, NEW r \in Zahtjev, Upisi(r)
  PROVE  LET z == zahtjev[r] IN
         /\ z.a \in Sredstvo /\ z.p \in Period /\ Upisano(z) \in Kartica
         /\ sredstvo' = [sredstvo EXCEPT ![z.a] = Upisano(z)]
         /\ sredstvo[z.a].status = "NEMA" =>
              /\ Upisano(z).od \in Period /\ Upisano(z).kraj = 0 /\ ~Upisano(z).nabavka
              /\ Upisano(z).status # "PRODATO"
         /\ sredstvo[z.a].status # "NEMA" =>
              /\ Upisano(z).status = sredstvo[z.a].status /\ Upisano(z).od = sredstvo[z.a].od
              /\ Upisano(z).kraj = sredstvo[z.a].kraj /\ Upisano(z).nabavka = sredstvo[z.a].nabavka
              /\ Neproknjizeno(z.a, z.p)
              /\ \/ /\ Upisano(z).procjene = sredstvo[z.a].procjene \cup {z.p}
                    /\ Upisano(z).ucinak = sredstvo[z.a].ucinak
                 \/ /\ Upisano(z).procjene = sredstvo[z.a].procjene
                    /\ Upisano(z).ucinak = [sredstvo[z.a].ucinak EXCEPT ![z.p] = z.v]
<1> DEFINE z == zahtjev[r]
<1>1. /\ z \in Zahtjevi /\ z.op \in {"sredstvo", "procjena", "ucinak"} /\ z.a \in Sredstvo
      /\ z.p \in Period /\ sredstvo[z.a] \in Kartica /\ Dozvoljeno(z)
      /\ sredstvo' = [sredstvo EXCEPT ![z.a] = Upisano(z)]
  BY DEF OsnovnaTipovi, PosloviUredni, PosaoUredan, Upisi
<1>2. z.v \in Nat
  BY <1>1 DEF Zahtjevi
<1>3. CASE z.op = "sredstvo"
  <2>1. Upisano(z) = Unijeto(z.p, IF z.v = 0 THEN "PRIPREMA" ELSE "AKTIVNO")
    BY <1>3 DEF Upisano
  <2>2. sredstvo[z.a].status = "NEMA"
    BY <1>1, <1>3 DEF Dozvoljeno
  <2> QED
    BY <1>1, <2>1, <2>2, Pocetni
<1>4. CASE z.op = "procjena"
  <2>1. Upisano(z) = [sredstvo[z.a] EXCEPT !.procjene = @ \cup {z.p}]
    BY <1>4 DEF Upisano
  <2>2. sredstvo[z.a].status = "AKTIVNO" /\ Neproknjizeno(z.a, z.p)
    BY <1>1, <1>4 DEF Dozvoljeno, ProcjenaDozvoljena
  <2>3. \A s \in Kartica, p \in Period : LET t == [s EXCEPT !.procjene = @ \cup {p}] IN
          /\ t \in Kartica /\ t.status = s.status /\ t.od = s.od /\ t.kraj = s.kraj
          /\ t.nabavka = s.nabavka /\ t.procjene = s.procjene \cup {p} /\ t.ucinak = s.ucinak
    BY DEF Kartica
  <2> QED
    BY <1>1, <2>1, <2>2, <2>3
<1>5. CASE z.op = "ucinak"
  <2>1. Upisano(z) = [sredstvo[z.a] EXCEPT !.ucinak[z.p] = z.v]
    BY <1>5 DEF Upisano
  <2>2. sredstvo[z.a].status # "NEMA" /\ Neproknjizeno(z.a, z.p)
    BY <1>1, <1>5 DEF Dozvoljeno, UcinakDozvoljen
  <2>3. \A s \in Kartica, p \in Period, v \in Nat : LET t == [s EXCEPT !.ucinak[p] = v] IN
          /\ t \in Kartica /\ t.status = s.status /\ t.od = s.od /\ t.kraj = s.kraj
          /\ t.nabavka = s.nabavka /\ t.procjene = s.procjene
          /\ t.ucinak = [s.ucinak EXCEPT ![p] = v]
    BY DEF Kartica
  <2> QED
    BY <1>1, <1>2, <2>1, <2>2, <2>3
<1> QED
  BY <1>1, <1>3, <1>4, <1>5

\* An estimate or usage of a period after a batch gives it nothing new.
LEMMA UlazPoslije ==
  ASSUME NEW s \in Kartica, NEW t \in Kartica, NEW b \in Obracun, NEW p \in Period, NEW v,
         PeriodDo[b] < p, t.status = s.status, t.od = s.od, t.kraj = s.kraj,
         \/ t.procjene = s.procjene \cup {p} /\ t.ucinak = s.ucinak
         \/ t.procjene = s.procjene /\ t.ucinak = [s.ucinak EXCEPT ![p] = v]
  PROVE  Ulaz(t, b) = Ulaz(s, b)
<1>1. PeriodiSredstva(t, b) = PeriodiSredstva(s, b)
  BY DEF PeriodiSredstva
<1>2. PeriodDo[b] \in Nat /\ p \in Nat /\ \A q \in Obuhvat(b) : q \in Nat /\ q <= PeriodDo[b]
  BY Obuhvati, Brojevi
<1>3. {q \in t.procjene : q <= PeriodDo[b]} = {q \in s.procjene : q <= PeriodDo[b]}
  BY <1>2
<1>4. ASSUME NEW q \in PeriodiSredstva(s, b)
      PROVE  t.ucinak[q] = s.ucinak[q]
  <2>1. q \in Period /\ q # p
    BY <1>2, UlazUredan
  <2>2. s.ucinak \in [Period -> Nat]
    BY DEF Kartica
  <2> QED
    BY <2>1, <2>2
<1> QED
  BY <1>1, <1>3, <1>4 DEF Ulaz

\* What is covered, covered to the end of a batch, before a period is before it.
LEMMA PrijePerioda ==
  ASSUME OsnovnaTipovi, KnjigaSredstava, NEW a \in Sredstvo, NEW b \in Obracun,
         pokrice[b][a] # {}, NEW p \in Period, \A q \in Pokriveno(a) : q < p
  PROVE  PeriodDo[b] < p
BY PokrivenoUUpotrebi

LEMMA UpisKnjiga ==
  ASSUME OsnovnaTipovi, KnjigaSredstava, PosloviUredni, NEW r \in Zahtjev, Upisi(r)
  PROVE  /\ KnjigaSredstava' /\ UUpotrebiOstaje /\ AktivnoOstaje
         /\ sredstvo' \in [Sredstvo -> Kartica]
         /\ \A n : JeIzvor(n)' => JeIzvor(n)
<1> DEFINE z == zahtjev[r]
           n == Upisano(z)
           s == sredstvo[z.a]
<1>1. /\ z.a \in Sredstvo /\ z.p \in Period /\ n \in Kartica
      /\ sredstvo \in [Sredstvo -> Kartica]
      /\ sredstvo' = [sredstvo EXCEPT ![z.a] = n]
  BY UpisUredan DEF OsnovnaTipovi
<1>2. s.status = "NEMA" =>
        n.od \in Period /\ n.kraj = 0 /\ ~n.nabavka /\ n.status # "PRODATO"
  BY UpisUredan
<1>3. s.status # "NEMA" =>
        /\ n.status = s.status /\ n.od = s.od /\ n.kraj = s.kraj /\ n.nabavka = s.nabavka
        /\ Neproknjizeno(z.a, z.p)
        /\ \/ n.procjene = s.procjene \cup {z.p} /\ n.ucinak = s.ucinak
           \/ n.procjene = s.procjene /\ n.ucinak = [s.ucinak EXCEPT ![z.p] = z.v]
  BY UpisUredan
<1> HIDE DEF n
<1>4. /\ sredstvo' \in [Sredstvo -> Kartica] /\ sredstvo'[z.a] = n
      /\ \A a \in Sredstvo : a # z.a => sredstvo'[a] = sredstvo[a]
  BY <1>1
<1> HIDE DEF z
<1>5. UUpotrebiOstaje /\ AktivnoOstaje
  BY <1>1, <1>3, <1>4 DEF UUpotrebiOstaje, AktivnoOstaje
<1>6. KarticeUredne'
  BY <1>1, <1>2, <1>3, <1>4 DEF KnjigaSredstava, KarticeUredne
<1>7. pokrice' = pokrice /\ presjek' = presjek /\ obracun' = Zastari
  BY DEF Upisi
<1>8. ProdatoAmortizovano'
  <2>1. \A a \in Sredstvo : sredstvo'[a].status = "PRODATO" =>
          /\ sredstvo[a].status = "PRODATO" /\ sredstvo'[a].od = sredstvo[a].od
          /\ sredstvo'[a].kraj = sredstvo[a].kraj
    BY <1>1, <1>2, <1>3, <1>4
  <2> QED
    BY <1>7, <2>1 DEF KnjigaSredstava, ProdatoAmortizovano, AmortizovanoDo, Pokriveno
<1>9. ASSUME NEW a \in Sredstvo, NEW b \in Obracun, pokrice[b][a] # {}
      PROVE  Ulaz(sredstvo'[a], b) = Ulaz(sredstvo[a], b)
  <2>1. CASE a # z.a
    BY <1>4, <2>1
  <2>2. CASE a = z.a
    <3>1. s.status # "NEMA"
      BY <1>9, <2>2, PokrivenoUUpotrebi
    <3>2. PeriodDo[b] < z.p
      BY <1>1, <1>3, <1>9, <2>2, <3>1, PrijePerioda DEF Neproknjizeno
    <3>3. s \in Kartica
      BY <1>1
    <3>4. Ulaz(n, b) = Ulaz(s, b)
      BY <1>1, <1>3, <3>1, <3>2, <3>3, UlazPoslije
    <3> QED
      BY <1>4, <2>2, <3>4
  <2> QED
    BY <2>1, <2>2
<1>10. KnjigaSredstava'
  BY <1>5, <1>6, <1>7, <1>8, <1>9, RegistarSeMijenja
<1>11. ASSUME NEW m
       PROVE  JeIzvor(m)' => JeIzvor(m)
  <2>1. \A a \in Sredstvo : /\ sredstvo'[a].nabavka => sredstvo[a].nabavka
                            /\ sredstvo'[a].status = "PRODATO" => sredstvo[a].status = "PRODATO"
    BY <1>1, <1>2, <1>3, <1>4
  <2> QED
    BY <2>1 DEF JeIzvor
<1> QED
  BY <1>4, <1>5, <1>10, <1>11

\* A purchase is activated: nothing was depreciated yet.
LEMMA AktiviranjeKnjiga ==
  ASSUME OsnovnaTipovi, KnjigaSredstava, NEW a \in Sredstvo, Aktiviraj(a)
  PROVE  /\ KnjigaSredstava' /\ UUpotrebiOstaje /\ sredstvo' \in [Sredstvo -> Kartica]
         /\ \A n \in {"nabavka", "prodaja"} : JeIzvor(n)' => JeIzvor(n) \/ izvor[n]
<1> DEFINE s == sredstvo[a]
           n == [s EXCEPT !.status = "AKTIVNO", !.nabavka = TRUE]
<1>1. s.status = "PRIPREMA" /\ izvor["nabavka"] /\ sredstvo' = [sredstvo EXCEPT ![a] = n]
  BY DEF Aktiviraj, Promijeni
<1>2. s \in Kartica /\ sredstvo \in [Sredstvo -> Kartica]
  BY DEF OsnovnaTipovi
<1>3. n \in Kartica /\ n.status = "AKTIVNO" /\ n.od = s.od /\ n.kraj = s.kraj
  BY <1>2 DEF Kartica
<1> HIDE DEF n
<1>4. /\ sredstvo' \in [Sredstvo -> Kartica] /\ sredstvo'[a] = n
      /\ \A c \in Sredstvo : c # a => sredstvo'[c] = sredstvo[c]
  BY <1>1, <1>2, <1>3
<1>5. UUpotrebiOstaje
  BY <1>1, <1>4 DEF UUpotrebiOstaje
<1>6. KarticeUredne'
  BY <1>1, <1>3, <1>4 DEF KnjigaSredstava, KarticeUredne
<1>7. pokrice' = pokrice /\ presjek' = presjek /\ obracun' = Zastari
  BY DEF Aktiviraj, Promijeni
<1>8. ProdatoAmortizovano'
  BY <1>3, <1>4, <1>7 DEF KnjigaSredstava, ProdatoAmortizovano, AmortizovanoDo, Pokriveno
<1>9. ASSUME NEW c \in Sredstvo, NEW b \in Obracun, pokrice[b][c] # {}
      PROVE  Ulaz(sredstvo'[c], b) = Ulaz(sredstvo[c], b)
  <2>1. c # a
    BY <1>1, <1>9, PokrivenoUUpotrebi
  <2> QED
    BY <1>4, <2>1
<1>10. KnjigaSredstava'
  BY <1>5, <1>6, <1>7, <1>8, <1>9, RegistarSeMijenja
<1>11. JeIzvor("prodaja")' => JeIzvor("prodaja")
  BY <1>3, <1>4 DEF JeIzvor
<1> QED
  BY <1>1, <1>4, <1>5, <1>10, <1>11

\* A sale ends what an asset gives after all that was posted.
LEMMA ProdajaKnjiga ==
  ASSUME OsnovnaTipovi, KnjigaSredstava, NEW a \in Sredstvo, Prodaj(a)
  PROVE  /\ KnjigaSredstava' /\ UUpotrebiOstaje /\ sredstvo' \in [Sredstvo -> Kartica]
         /\ \A n \in {"nabavka", "prodaja"} : JeIzvor(n)' => JeIzvor(n) \/ izvor[n]
<1> DEFINE s == sredstvo[a]
           n == [s EXCEPT !.status = "PRODATO", !.kraj = s.priprema]
<1>1. /\ s.status = "AKTIVNO" /\ s.priprema # 0 /\ izvor["prodaja"] /\ AmortizovanoDo(a, s.priprema)
      /\ sredstvo' = [sredstvo EXCEPT ![a] = n]
  BY DEF Prodaj, Promijeni
<1>2. s \in Kartica /\ sredstvo \in [Sredstvo -> Kartica] /\ s.kraj = 0
  BY <1>1 DEF OsnovnaTipovi, KnjigaSredstava, KarticeUredne
<1>3. s.priprema \in Period
  BY <1>1, <1>2 DEF Kartica
<1>4. /\ n \in Kartica /\ n.status = "PRODATO" /\ n.od = s.od /\ n.kraj = s.priprema
      /\ n.procjene = s.procjene /\ n.ucinak = s.ucinak /\ n.nabavka = s.nabavka
  BY <1>2 DEF Kartica
<1> HIDE DEF n
<1>5. /\ sredstvo' \in [Sredstvo -> Kartica] /\ sredstvo'[a] = n
      /\ \A c \in Sredstvo : c # a => sredstvo'[c] = sredstvo[c]
  BY <1>1, <1>2, <1>4
<1>6. UUpotrebiOstaje
  BY <1>4, <1>5 DEF UUpotrebiOstaje
<1>7. KarticeUredne'
  BY <1>1, <1>3, <1>4, <1>5 DEF KnjigaSredstava, KarticeUredne
<1>8. pokrice' = pokrice /\ presjek' = presjek /\ obracun' = Zastari
  BY DEF Prodaj, Promijeni
<1>9. ProdatoAmortizovano'
  BY <1>1, <1>4, <1>5, <1>8 DEF KnjigaSredstava, ProdatoAmortizovano, AmortizovanoDo, Pokriveno
<1>10. ASSUME NEW c \in Sredstvo, NEW b \in Obracun, pokrice[b][c] # {}
       PROVE  Ulaz(sredstvo'[c], b) = Ulaz(sredstvo[c], b)
  <2>1. CASE c # a
    BY <1>5, <2>1
  <2>2. CASE c = a
    <3>1. PeriodDo[b] < s.priprema
      <4>1. PeriodDo[b] \in s.od..(s.priprema - 1)
        BY <1>1, <1>10, <2>2, PokrivenoUUpotrebi DEF AmortizovanoDo
      <4>2. s.od \in Period \cup {0} /\ PeriodDo[b] \in Period
        BY <1>2, Obuhvati DEF Kartica
      <4>3. s.od \in Nat /\ PeriodDo[b] \in Nat /\ s.priprema \in Nat
        BY <1>3, <4>2, Brojevi
      <4> QED
        BY <4>1, <4>3
    <3>2. \A p \in Obuhvat(b) : p < s.priprema
      BY <1>3, <3>1, Obuhvati, Brojevi
    <3>3. PeriodiSredstva(n, b) = PeriodiSredstva(s, b)
      BY <1>1, <1>2, <1>4, <3>2 DEF PeriodiSredstva
    <3> QED
      BY <1>4, <1>5, <2>2, <3>3 DEF Ulaz
  <2> QED
    BY <2>1, <2>2
<1>11. KnjigaSredstava'
  BY <1>6, <1>7, <1>8, <1>9, <1>10, RegistarSeMijenja
<1>12. JeIzvor("nabavka")' => JeIzvor("nabavka")
  BY <1>4, <1>5 DEF JeIzvor
<1> QED
  BY <1>1, <1>5, <1>6, <1>11, <1>12

\* A sale is prepared or given up: only its date is noted.
LEMMA PripremaKnjiga ==
  ASSUME OsnovnaTipovi, KnjigaSredstava, NEW a \in Sredstvo,
         OdustaniOdProdaje(a) \/ \E d \in Period : PripremiProdaju(a, d)
  PROVE  /\ KnjigaSredstava' /\ sredstvo' \in [Sredstvo -> Kartica]
         /\ UUpotrebiOstaje /\ AktivnoOstaje /\ \A b \in Obracun : UlazOstaje(b)
         /\ \A n : JeIzvor(n)' => JeIzvor(n)
<1>1. PICK d \in Period \cup {0} : sredstvo' = [sredstvo EXCEPT ![a].priprema = d]
  BY DEF OdustaniOdProdaje, PripremiProdaju
<1>2. \A s \in Kartica : LET n == [s EXCEPT !.priprema = d] IN
        /\ n \in Kartica /\ n.status = s.status /\ n.od = s.od /\ n.kraj = s.kraj
        /\ n.procjene = s.procjene /\ n.ucinak = s.ucinak /\ n.nabavka = s.nabavka
  BY DEF Kartica
<1>3. sredstvo \in [Sredstvo -> Kartica]
  BY DEF OsnovnaTipovi
<1>4. \A c \in Sredstvo :
        /\ sredstvo'[c] \in Kartica /\ sredstvo'[c].status = sredstvo[c].status
        /\ sredstvo'[c].od = sredstvo[c].od /\ sredstvo'[c].kraj = sredstvo[c].kraj
        /\ sredstvo'[c].procjene = sredstvo[c].procjene /\ sredstvo'[c].ucinak = sredstvo[c].ucinak
        /\ sredstvo'[c].nabavka = sredstvo[c].nabavka
  BY <1>1, <1>2, <1>3
<1>5. sredstvo' \in [Sredstvo -> Kartica]
  BY <1>1, <1>3, <1>4
<1>6. \A b \in Obracun : UlazOstaje(b)
  BY <1>4 DEF UlazOstaje, Ulaz, PeriodiSredstva
<1>7. UUpotrebiOstaje /\ AktivnoOstaje
  BY <1>4 DEF UUpotrebiOstaje, AktivnoOstaje
<1>8. UNCHANGED obracuni
  BY DEF OdustaniOdProdaje, PripremiProdaju
<1>9. KarticeUredne'
  BY <1>4 DEF KnjigaSredstava, KarticeUredne
<1>10. ObracuniUredni'
  BY <1>4, <1>6, <1>8 DEF KnjigaSredstava, ObracuniUredni, Uredan, Svjez, UlazOstaje, Obuhvat, obracuni
<1>11. PokricaUredna' /\ PokriceBezRupa' /\ ProdatoAmortizovano'
  BY <1>4, <1>8 DEF KnjigaSredstava, PokricaUredna, PokriceBezRupa, ProdatoAmortizovano,
                    AmortizovanoDo, Pokriveno, obracuni
<1>12. ProknjizenoVazi'
  BY <1>6, <1>8 DEF KnjigaSredstava, ProknjizenoVazi, ProknjizenoVaziSad, UlazOstaje, obracuni
<1> QED
  BY <1>4, <1>5, <1>6, <1>7, <1>9, <1>10, <1>11, <1>12 DEF KnjigaSredstava, JeIzvor

---------------------------------------------------------------------------
(* Batches, by what a step does to one *)

\* A batch that is not posted is calculated anew, or deleted.
LEMMA NoviObracun ==
  ASSUME OsnovnaTipovi, KnjigaSredstava, NEW b \in Obracun, NEW o \in Obracuni,
         obracun[b].status # "POSTED", o.status # "POSTED", Uredan(o, b), o.svjez => Svjez(o, b),
         obracun' = [obracun EXCEPT ![b] = o], UNCHANGED <<sredstvo, pokrice, presjek>>
  PROVE  KnjigaSredstava' /\ obracun' \in [Obracun -> Obracuni]
<1>1. /\ obracun' \in [Obracun -> Obracuni] /\ obracun'[b] = o
      /\ \A c \in Obracun : c # b => obracun'[c] = obracun[c]
  BY DEF OsnovnaTipovi
<1>2. ObracuniUredni'
  <2>1. ASSUME NEW c \in Obracun
        PROVE  Uredan(obracun[c], c)' /\ (obracun'[c].svjez => Svjez(obracun[c], c)')
    <3>1. CASE c = b
      BY <1>1, <3>1 DEF Uredan, Svjez, Obuhvat
    <3>2. CASE c # b
      BY <1>1, <3>2 DEF KnjigaSredstava, ObracuniUredni, Uredan, Svjez, Obuhvat
    <3> QED
      BY <3>1, <3>2
  <2> QED
    BY <2>1 DEF ObracuniUredni
<1>3. PokricaUredna'
  BY <1>1 DEF KnjigaSredstava, PokricaUredna
<1>4. KarticeUredne' /\ PokriceBezRupa' /\ ProdatoAmortizovano'
  BY DEF KnjigaSredstava, KarticeUredne, PokriceBezRupa, ProdatoAmortizovano, AmortizovanoDo, Pokriveno
<1>5. ProknjizenoVazi'
  BY <1>1 DEF KnjigaSredstava, ProknjizenoVazi, ProknjizenoVaziSad
<1> QED
  BY <1>1, <1>2, <1>3, <1>4, <1>5 DEF KnjigaSredstava

\* Posting from a register of now: what is not covered yet belongs to active assets.
LEMMA MozeSpremno ==
  ASSUME OsnovnaTipovi, KnjigaSredstava, NEW b \in Obracun, MozeKnjizenje(b)
  PROVE  Spremno(b) /\ obracun[b].status = "DRAFT" /\ obracun[b].svjez
<1>1. Nastavlja(b) /\ obracun[b].status = "DRAFT" /\ obracun[b].svjez
  BY DEF MozeKnjizenje
<1>2. Svjez(obracun[b], b)
  BY <1>1 DEF KnjigaSredstava, ObracuniUredni
<1>3. ASSUME NEW a \in Sredstvo, obracun[b].pokriva[a] # {}
      PROVE  sredstvo[a].status = "AKTIVNO" /\ PeriodDo[b] \in obracun[b].pokriva[a]
  <2> DEFINE K == obracun[b].pokriva[a]
             s == sredstvo[a]
  <2>1. K = PeriodiSredstva(s, b) /\ s \in Kartica
    BY <1>2 DEF Svjez, OsnovnaTipovi
  <2>2. PICK p \in K : TRUE
    BY <1>3
  <2>3. /\ s.status \in {"AKTIVNO", "PRODATO"} /\ p \in Obuhvat(b) /\ p >= s.od
        /\ s.kraj # 0 => p < s.kraj
    BY <2>1, <2>2 DEF PeriodiSredstva
  <2>4. /\ s.od \in Period /\ (s.status = "PRODATO" => s.kraj \in Period)
        /\ s.status = "AKTIVNO" => s.kraj = 0
    BY <2>3 DEF KnjigaSredstava, KarticeUredne
  <2>5. /\ p \in Nat /\ s.od \in Nat /\ PeriodDo[b] \in Nat /\ PeriodOd[b] \in Nat
        /\ p <= PeriodDo[b] /\ PeriodOd[b] <= PeriodDo[b]
    BY <2>3, <2>4, Obuhvati, Brojevi
  <2>6. s.status # "PRODATO"
    <3>1. SUFFICES ASSUME s.status = "PRODATO" PROVE FALSE
      OBVIOUS
    <3>2. s.kraj \in Nat /\ s.kraj # 0
      BY <2>4, <3>1, Brojevi DEF Period
    <3>3. p \in s.od..(s.kraj - 1)
      BY <2>3, <2>5, <3>2
    <3>4. p \in Pokriveno(a)
      BY <3>1, <3>3 DEF KnjigaSredstava, ProdatoAmortizovano, AmortizovanoDo
    <3> QED
      BY <1>1, <1>3, <2>2, <3>4 DEF Nastavlja
  <2>7. s.status = "AKTIVNO" /\ s.kraj = 0
    BY <2>3, <2>4, <2>6
  <2>8. PeriodDo[b] \in Obuhvat(b) /\ PeriodDo[b] >= s.od
    BY <2>3, <2>5 DEF Obuhvat
  <2>9. PeriodDo[b] \in PeriodiSredstva(s, b)
    BY <2>7, <2>8 DEF PeriodiSredstva
  <2> QED
    BY <2>1, <2>7, <2>9
<1> QED
  BY <1>1, <1>3 DEF Spremno

\* A batch that is ready is posted.
LEMMA KnjizenjeCuva ==
  ASSUME OsnovnaTipovi, KnjigaSredstava, NEW b \in Obracun, Spremno(b),
         obracun[b].status = "DRAFT", Proknjizeno(b), sredstvo' = sredstvo,
         presjek' \subseteq Obracun, presjek \subseteq presjek', b \in presjek' \/ obracun[b].svjez
  PROVE  /\ KnjigaSredstava' /\ obracun' \in [Obracun -> Obracuni]
         /\ pokrice' \in [Obracun -> [Sredstvo -> SUBSET Period]]
<1>1. /\ obracun \in [Obracun -> Obracuni] /\ pokrice \in [Obracun -> [Sredstvo -> SUBSET Period]]
      /\ obracun[b].pokriva \in [Sredstvo -> SUBSET Period]
  BY DEF OsnovnaTipovi, Obracuni
<1>2. \A o \in Obracuni : LET n == [o EXCEPT !.status = "POSTED"] IN
        /\ n \in Obracuni /\ n.status = "POSTED" /\ n.svjez = o.svjez /\ n.pokriva = o.pokriva
        /\ n.osnov = o.osnov
  BY DEF Obracuni
<1>3. /\ obracun' \in [Obracun -> Obracuni] /\ obracun'[b].status = "POSTED"
      /\ \A c \in Obracun : /\ c # b => obracun'[c] = obracun[c]
                            /\ obracun'[c].svjez = obracun[c].svjez
                            /\ obracun'[c].pokriva = obracun[c].pokriva
                            /\ obracun'[c].osnov = obracun[c].osnov
  BY <1>1, <1>2 DEF Proknjizeno
<1>4. /\ pokrice' \in [Obracun -> [Sredstvo -> SUBSET Period]]
      /\ pokrice'[b] = obracun[b].pokriva
      /\ \A c \in Obracun : c # b => pokrice'[c] = pokrice[c]
  BY <1>1 DEF Proknjizeno
<1>5. \A a \in Sredstvo : pokrice[b][a] = {}
  BY DEF KnjigaSredstava, PokricaUredna
<1>6. \A a \in Sredstvo : Pokriveno(a)' = Pokriveno(a) \cup obracun[b].pokriva[a]
  BY <1>4, <1>5 DEF Pokriveno
<1>7. KarticeUredne' /\ ObracuniUredni'
  BY <1>3 DEF KnjigaSredstava, KarticeUredne, ObracuniUredni, Uredan, Svjez
<1>8. PokricaUredna'
  <2>1. ASSUME NEW c \in Obracun, NEW a \in Sredstvo
        PROVE  /\ pokrice'[c][a] = IF obracun'[c].status = "POSTED" THEN obracun'[c].pokriva[a] ELSE {}
               /\ pokrice'[c][a] # {} => PeriodDo[c] \in pokrice'[c][a]
    <3>1. CASE c = b
      BY <1>3, <1>4, <3>1 DEF Spremno
    <3>2. CASE c # b
      BY <1>3, <1>4, <3>2 DEF KnjigaSredstava, PokricaUredna
    <3> QED
      BY <3>1, <3>2
  <2> QED
    BY <2>1 DEF PokricaUredna
<1>9. PokriceBezRupa'
  <2>1. ASSUME NEW a \in Sredstvo, NEW c \in Obracun, NEW d \in Obracun, c # d
        PROVE  pokrice'[c][a] \cap pokrice'[d][a] = {}
    <3>1. obracun[b].pokriva[a] \cap Pokriveno(a) = {}
      BY DEF Spremno, Nastavlja
    <3>2. \A e \in Obracun : e # b => obracun[b].pokriva[a] \cap pokrice[e][a] = {}
      BY <3>1 DEF Pokriveno
    <3>3. pokrice[c][a] \cap pokrice[d][a] = {}
      BY <2>1 DEF KnjigaSredstava, PokriceBezRupa
    <3> QED
      BY <1>4, <2>1, <3>2, <3>3
  <2>2. ASSUME NEW a \in Sredstvo, NEW p \in Pokriveno(a)', NEW q \in sredstvo[a].od..p
        PROVE  q \in Pokriveno(a)'
    <3> DEFINE K == obracun[b].pokriva[a]
    <3>1. CASE p \in Pokriveno(a)
      BY <1>6, <2>2, <3>1 DEF KnjigaSredstava, PokriceBezRupa
    <3>2. CASE p \in K
      <4>1. K \subseteq Obuhvat(b) /\ p >= sredstvo[a].od
        BY <3>2 DEF KnjigaSredstava, ObracuniUredni, Uredan
      <4>2. p \in 1..BrojPerioda /\ BrojPerioda \in Nat
        BY <3>2, <4>1, Obuhvati, Brojevi DEF Period
      <4>3. sredstvo[a].od \in Nat
        <5>1. sredstvo[a].od \in Period \cup {0}
          BY DEF OsnovnaTipovi, Kartica
        <5> QED
          BY <5>1, Brojevi
      <4>4. q \in sredstvo[a].od..BrojPerioda /\ (q = p \/ q < p)
        BY <2>2, <4>2, <4>3
      <4>5. q < p => q \in K \cup Pokriveno(a)
        BY <3>2, <4>4 DEF Spremno, Nastavlja
      <4> QED
        BY <1>6, <3>2, <4>4, <4>5
    <3> QED
      BY <1>6, <3>1, <3>2
  <2> QED
    BY <2>1, <2>2 DEF PokriceBezRupa
<1>10. ProdatoAmortizovano'
  BY <1>6 DEF Spremno, KnjigaSredstava, ProdatoAmortizovano, AmortizovanoDo
<1>11. ProknjizenoVazi'
  <2>1. ASSUME NEW c \in Obracun, obracun'[c].status = "POSTED", c \notin presjek'
        PROVE  ProknjizenoVaziSad(c)'
    <3>1. CASE c = b
      BY <1>3, <2>1, <3>1 DEF KnjigaSredstava, ObracuniUredni, Svjez, ProknjizenoVaziSad
    <3>2. CASE c # b
      BY <1>3, <1>4, <2>1, <3>2 DEF KnjigaSredstava, ProknjizenoVazi, ProknjizenoVaziSad
    <3> QED
      BY <3>1, <3>2
  <2> QED
    BY <2>1 DEF ProknjizenoVazi
<1> QED
  BY <1>3, <1>4, <1>7, <1>8, <1>9, <1>10, <1>11 DEF KnjigaSredstava

\* A batch is reopened: the last one of each of its assets, and before no sale.
LEMMA VracanjeCuva ==
  ASSUME OsnovnaTipovi, KnjigaSredstava, NEW b \in Obracun, Vrati(b)
  PROVE  /\ KnjigaSredstava' /\ obracun' \in [Obracun -> Obracuni]
         /\ pokrice' \in [Obracun -> [Sredstvo -> SUBSET Period]]
<1>1. /\ obracun[b].status = "POSTED" /\ MozeVracanje(b) /\ sredstvo' = sredstvo
      /\ obracun' = [obracun EXCEPT ![b].status = "DRAFT"]
      /\ pokrice' = [pokrice EXCEPT ![b] = NemaObracuna.pokriva] /\ presjek' = presjek \ {b}
  BY DEF Vrati
<1>2. obracun \in [Obracun -> Obracuni] /\ pokrice \in [Obracun -> [Sredstvo -> SUBSET Period]]
  BY DEF OsnovnaTipovi
<1>3. \A o \in Obracuni : LET n == [o EXCEPT !.status = "DRAFT"] IN
        /\ n \in Obracuni /\ n.status = "DRAFT" /\ n.svjez = o.svjez /\ n.pokriva = o.pokriva
        /\ n.osnov = o.osnov
  BY DEF Obracuni
<1>4. /\ obracun' \in [Obracun -> Obracuni] /\ obracun'[b].status = "DRAFT"
      /\ \A c \in Obracun : /\ c # b => obracun'[c] = obracun[c]
                            /\ obracun'[c].svjez = obracun[c].svjez
                            /\ obracun'[c].pokriva = obracun[c].pokriva
                            /\ obracun'[c].osnov = obracun[c].osnov
  BY <1>1, <1>2, <1>3
<1>5. NemaObracuna.pokriva = [a \in Sredstvo |-> {}]
  BY DEF NemaObracuna
<1>6. /\ pokrice' \in [Obracun -> [Sredstvo -> SUBSET Period]]
      /\ \A a \in Sredstvo : pokrice'[b][a] = {}
      /\ \A c \in Obracun : c # b => pokrice'[c] = pokrice[c]
  BY <1>1, <1>2, <1>5
<1>7. KarticeUredne' /\ ObracuniUredni'
  BY <1>1, <1>4 DEF KnjigaSredstava, KarticeUredne, ObracuniUredni, Uredan, Svjez
<1>8. PokricaUredna'
  <2>1. ASSUME NEW c \in Obracun, NEW a \in Sredstvo
        PROVE  /\ pokrice'[c][a] = IF obracun'[c].status = "POSTED" THEN obracun'[c].pokriva[a] ELSE {}
               /\ pokrice'[c][a] # {} => PeriodDo[c] \in pokrice'[c][a]
    <3>1. CASE c = b
      BY <1>4, <1>6, <3>1
    <3>2. CASE c # b
      BY <1>4, <1>6, <3>2 DEF KnjigaSredstava, PokricaUredna
    <3> QED
      BY <3>1, <3>2
  <2> QED
    BY <2>1 DEF PokricaUredna
<1>9. PokriceBezRupa'
  <2>1. ASSUME NEW a \in Sredstvo, NEW c \in Obracun, NEW d \in Obracun, c # d
        PROVE  pokrice'[c][a] \cap pokrice'[d][a] = {}
    BY <1>6, <2>1 DEF KnjigaSredstava, PokriceBezRupa
  <2>2. ASSUME NEW a \in Sredstvo, NEW c \in Obracun, NEW p \in pokrice'[c][a],
               NEW q \in sredstvo[a].od..p
        PROVE  q \in Pokriveno(a)'
    <3>1. c # b /\ p \in pokrice[c][a] /\ p \in Pokriveno(a)
      BY <1>6, <2>2 DEF Pokriveno
    <3>2. q \in Pokriveno(a)
      BY <2>2, <3>1 DEF KnjigaSredstava, PokriceBezRupa
    <3>3. PICK d \in Obracun : q \in pokrice[d][a]
      BY <3>2 DEF Pokriveno
    <3>4. CASE d # b
      BY <1>6, <3>3, <3>4 DEF Pokriveno
    <3>5. CASE d = b
      <4> DEFINE K == pokrice[b][a]
      <4>1. PICK t \in K : p < t
        BY <1>1, <3>1, <3>3, <3>5 DEF MozeVracanje, NemaKasnijeg
      <4>2. K = obracun[b].pokriva[a] /\ K \subseteq Period /\ p \in Period
        BY <1>1, <1>2, <3>1 DEF KnjigaSredstava, PokricaUredna
      <4>3. p \in q..t
        <5>1. p \in Nat /\ q \in Nat /\ t \in Nat
          BY <3>3, <3>5, <4>1, <4>2, Brojevi
        <5>2. sredstvo[a].od \in Period \cup {0}
          BY DEF OsnovnaTipovi, Kartica
        <5>3. sredstvo[a].od \in Nat
          BY <5>2, Brojevi
        <5> QED
          BY <2>2, <4>1, <5>1, <5>3
      <4>4. p \in K
        BY <3>3, <3>5, <4>1, <4>2, <4>3 DEF KnjigaSredstava, ObracuniUredni, Uredan
      <4>5. pokrice[b][a] \cap pokrice[c][a] = {}
        BY <3>1 DEF KnjigaSredstava, PokriceBezRupa
      <4> QED
        BY <3>1, <4>4, <4>5
    <3> QED
      BY <3>4, <3>5
  <2>3. \A a \in Sredstvo : \A p \in Pokriveno(a)' : sredstvo[a].od..p \subseteq Pokriveno(a)'
    BY <2>2 DEF Pokriveno
  <2> QED
    BY <1>1, <2>1, <2>3 DEF PokriceBezRupa
<1>10. ProdatoAmortizovano'
  <2>1. ASSUME NEW a \in Sredstvo, sredstvo[a].status = "PRODATO"
        PROVE  pokrice[b][a] = {}
    <3>1. SUFFICES ASSUME pokrice[b][a] # {} PROVE FALSE
      OBVIOUS
    <3>2. PeriodDo[b] \in Pokriveno(a) /\ sredstvo[a].od \in Period
      BY <3>1, PokrivenoUUpotrebi
    <3>3. PeriodDo[b] \in sredstvo[a].od..(sredstvo[a].kraj - 1) /\ sredstvo[a].kraj \in Period
      BY <2>1, <3>2 DEF KnjigaSredstava, ProdatoAmortizovano, AmortizovanoDo, KarticeUredne
    <3>4. ~(sredstvo[a].kraj > PeriodDo[b])
      BY <1>1, <2>1, <3>1 DEF MozeVracanje, NemaProdaje
    <3>5. /\ PeriodDo[b] \in Nat /\ sredstvo[a].kraj \in Nat /\ sredstvo[a].od \in Nat
      BY <3>2, <3>3, Obuhvati, Brojevi
    <3> QED
      BY <3>3, <3>4, <3>5
  <2>2. \A a \in Sredstvo : sredstvo[a].status = "PRODATO" => Pokriveno(a)' = Pokriveno(a)
    <3>1. ASSUME NEW a \in Sredstvo, sredstvo[a].status = "PRODATO", NEW c \in Obracun
          PROVE  pokrice'[c][a] = pokrice[c][a]
      BY <1>6, <2>1, <3>1
    <3> QED
      BY <3>1 DEF Pokriveno
  <2> QED
    BY <1>1, <2>2 DEF KnjigaSredstava, ProdatoAmortizovano, AmortizovanoDo
<1>11. ProknjizenoVazi'
  <2>1. ASSUME NEW c \in Obracun, obracun'[c].status = "POSTED", c \notin presjek'
        PROVE  ProknjizenoVaziSad(c)'
    <3>1. c # b /\ c \notin presjek
      BY <1>1, <1>4, <2>1
    <3> QED
      BY <1>1, <1>4, <1>6, <2>1, <3>1 DEF KnjigaSredstava, ProknjizenoVazi, ProknjizenoVaziSad
  <2> QED
    BY <2>1 DEF ProknjizenoVazi
<1> QED
  BY <1>4, <1>6, <1>7, <1>8, <1>9, <1>10, <1>11 DEF KnjigaSredstava

---------------------------------------------------------------------------
(* The requests, by what a step does to the others *)

\* Ending some of them, by what BezOvih says.
LEMMA BezOvihJe ==
  ASSUME NEW Q, NEW r \in Zahtjev
  PROVE  /\ BezOvih(Q, zahtjev)[r] = IF r \in Q THEN Miran ELSE zahtjev[r]
         /\ r \notin Cekaju => BezOvih(Q, Zastarjeli)[r] = IF r \in Q THEN Miran ELSE zahtjev[r]
         /\ r \in Cekaju => BezOvih(Q, Zastarjeli)[r] =
                              IF r \in Q THEN Miran ELSE [zahtjev[r] EXCEPT !.staro = TRUE]
BY DEF BezOvih, Zastarjeli

\* One request begins, goes on or ends, and the assets and batches do not change.
LEMMA JedanPosao ==
  ASSUME OsnovnaTipovi, PosloviUredni, UNCHANGED <<sredstvo, obracuni>>, NEW r \in Zahtjev, NEW z,
         zahtjev' = [zahtjev EXCEPT ![r] = z], PosaoUredan(r)'
  PROVE  PosloviUredni'
<1>1. ASSUME NEW q \in Zahtjev, q # r
      PROVE  PosaoUredan(q)'
  <2>1. zahtjev'[q] = zahtjev[q]
    BY <1>1
  <2>2. zahtjev[q] \in Zahtjevi /\ PosaoUredan(q)
    BY DEF OsnovnaTipovi, PosloviUredni
  <2> QED
    BY <2>1, <2>2, PosaoOstaje DEF UUpotrebiOstaje, AktivnoOstaje, UlazOstaje, obracuni
<1> QED
  BY <1>1 DEF PosloviUredni

\* The register changes, and those that wait are ended or stale.
LEMMA PosloviPoslijeRegistra ==
  ASSUME OsnovnaTipovi, PosloviUredni, NEW Q, zahtjev' = BezOvih(Q, Zastarjeli),
         obracun' = Zastari, pokrice' = pokrice, UUpotrebiOstaje,
         AktivnoOstaje \/ CekajuKnjizenje \subseteq Q
  PROVE  PosloviUredni'
<1>1. ASSUME NEW r \in Zahtjev
      PROVE  PosaoUredan(r)'
  <2>1. CASE r \in Q
    <3>1. zahtjev'[r] = Miran
      BY <2>1, BezOvihJe
    <3> QED
      BY <3>1, PosaoMiruje
  <2>2. CASE r \notin Q
    <3>1. /\ r \notin Cekaju => zahtjev'[r] = zahtjev[r]
          /\ r \in Cekaju => zahtjev'[r] = [zahtjev[r] EXCEPT !.staro = TRUE]
          /\ r \in Cekaju <=> zahtjev[r].pc = "ceka"
      BY <2>2, BezOvihJe DEF Cekaju
    <3>2. zahtjev[r] \in Zahtjevi /\ PosaoUredan(r)
      BY DEF OsnovnaTipovi, PosloviUredni
    <3>3. ASSUME zahtjev[r].pc = "ceka"
          PROVE  /\ zahtjev[r].b \in Obracun /\ zahtjev'[r].staro
                 /\ zahtjev[r].op = "knjizi" => AktivnoOstaje
      BY <2>2, <3>1, <3>2, <3>3 DEF PosaoUredan, Zahtjevi, CekajuKnjizenje
    <3>4. ASSUME NEW b \in Obracun
          PROVE  obracun'[b].status = obracun[b].status /\ obracun'[b].pokriva = obracun[b].pokriva
      <4>1. obracun[b] \in Obracuni /\ obracun'[b] = [obracun[b] EXCEPT !.svjez = FALSE]
        BY DEF OsnovnaTipovi, Zastari
      <4> QED
        BY <4>1 DEF Obracuni
    <3> QED
      BY <3>1, <3>2, <3>3, <3>4, PosaoOstaje
  <2> QED
    BY <2>1, <2>2
<1> QED
  BY <1>1 DEF PosloviUredni

\* A batch changes, and those that wait for it are ended; if it covers anything else by
\* now, all that wait to post are.
LEMMA PosloviPoslijeObracuna ==
  ASSUME OsnovnaTipovi, PosloviUredni, NEW Q, zahtjev' = BezOvih(Q, zahtjev), NEW b \in Obracun,
         CekajuObracun(b) \subseteq Q, sredstvo' = sredstvo,
         \A c \in Obracun : c # b => obracun'[c] = obracun[c],
         pokrice' = pokrice \/ CekajuKnjizenje \subseteq Q
  PROVE  PosloviUredni'
<1>1. ASSUME NEW r \in Zahtjev
      PROVE  PosaoUredan(r)'
  <2>1. CASE r \in Q
    <3>1. zahtjev'[r] = Miran
      BY <2>1, BezOvihJe
    <3> QED
      BY <3>1, PosaoMiruje
  <2>2. CASE r \notin Q
    <3>1. zahtjev'[r] = zahtjev[r]
      BY <2>2, BezOvihJe
    <3>2. zahtjev[r] \in Zahtjevi /\ PosaoUredan(r)
      BY DEF OsnovnaTipovi, PosloviUredni
    <3>3. ASSUME zahtjev[r].pc = "ceka"
          PROVE  /\ zahtjev[r].b \in Obracun /\ zahtjev[r].b # b
                 /\ zahtjev[r].op = "knjizi" => pokrice' = pokrice
      BY <2>2, <3>2, <3>3 DEF PosaoUredan, CekajuObracun, CekajuKnjizenje, Cekaju
    <3>4. UUpotrebiOstaje /\ AktivnoOstaje /\ \A c \in Obracun : UlazOstaje(c)
      BY DEF UUpotrebiOstaje, AktivnoOstaje, UlazOstaje
    <3> QED
      BY <3>1, <3>2, <3>3, <3>4, PosaoOstaje
  <2> QED
    BY <2>1, <2>2
<1> QED
  BY <1>1 DEF PosloviUredni

---------------------------------------------------------------------------
(* The actions *)

\* A step of one request that is not about assets or batches.
LEMMA PosaoKorak ==
  ASSUME OsnovnaInv, UNCHANGED <<sredstvo, obracuni, izvor, zakljucena, izmjene>>,
         NEW r \in Zahtjev, NEW z \in Zahtjevi, zahtjev' = [zahtjev EXCEPT ![r] = z], PosaoUredan(r)'
  PROVE  OsnovnaInv'
<1>1. KnjigaSredstava'
  BY KnjigaMiruje DEF OsnovnaInv
<1>2. PosloviUredni'
  BY JedanPosao DEF OsnovnaInv
<1>3. OsnovnaTipovi'
  BY DEF OsnovnaInv, OsnovnaTipovi, obracuni
<1>4. IzvorOstajeProknjizen'
  BY DEF OsnovnaInv, IzvorOstajeProknjizen, JeIzvor
<1> QED
  BY <1>1, <1>2, <1>3, <1>4 DEF OsnovnaInv

LEMMA ZapocniKorak ==
  ASSUME OsnovnaInv, NEW r \in Zahtjev, NEW op \in {"sredstvo", "procjena", "ucinak"},
         NEW a \in Sredstvo, NEW p \in Period, NEW v \in {0, 1}, Zapocni(r, op, a, p, v)
  PROVE  OsnovnaInv'
<1> DEFINE z == [Miran EXCEPT !.pc = "pise", !.op = op, !.a = a, !.p = p, !.v = v]
<1>1. /\ UNCHANGED <<sredstvo, obracuni, izvor, zakljucena, izmjene>>
      /\ zahtjev' = [zahtjev EXCEPT ![r] = z]
  BY DEF Zapocni
<1>2. /\ z \in Zahtjevi /\ z.pc = "pise" /\ z.op = op /\ z.a = a /\ z.p = p
  <2>1. v \in Nat
    OBVIOUS
  <2>2. ASSUME NEW m \in Zahtjevi
        PROVE  LET y == [m EXCEPT !.pc = "pise", !.op = op, !.a = a, !.p = p, !.v = v] IN
               /\ y \in Zahtjevi /\ y.pc = "pise" /\ y.op = op /\ y.a = a /\ y.p = p
    BY <2>1 DEF Zahtjevi
  <2> QED
    BY <2>2, Pocetni
<1> HIDE DEF z
<1>3. zahtjev'[r] = z
  BY <1>1 DEF OsnovnaInv, OsnovnaTipovi
<1>4. PosaoUredan(r)'
  BY <1>2, <1>3 DEF PosaoUredan
<1> QED
  BY <1>1, <1>2, <1>4, PosaoKorak

LEMMA CekajKorak ==
  ASSUME OsnovnaInv, NEW r \in Zahtjev, NEW op \in {"obracunaj", "knjizi"}, NEW b \in Obracun,
         Cekaj(r, op, b)
  PROVE  OsnovnaInv'
<1> DEFINE n == IF op = "knjizi" THEN NemaObracuna ELSE NacrtOd(b)
           z == [Miran EXCEPT !.pc = "ceka", !.op = op, !.b = b, !.nacrt = n]
<1>1. /\ UNCHANGED <<sredstvo, obracuni, izvor, zakljucena, izmjene>>
      /\ zahtjev' = [zahtjev EXCEPT ![r] = z]
      /\ IF op = "knjizi" THEN MozeKnjizenje(b) ELSE MozeObracun(b)
  BY DEF Cekaj
<1>2. n \in Obracuni
  BY Pocetni, NacrtUredan DEF OsnovnaInv
<1> HIDE DEF n
<1>3. z \in Zahtjevi /\ z.pc = "ceka" /\ z.op = op /\ z.b = b /\ z.nacrt = n
  BY <1>2, Pocetni DEF Zahtjevi
<1> HIDE DEF z
<1>4. zahtjev'[r] = z
  BY <1>1 DEF OsnovnaInv, OsnovnaTipovi
<1>5. PosaoUredan(r)'
  <2>1. CASE op = "knjizi"
    <3>1. Spremno(b) /\ obracun[b].status = "DRAFT" /\ obracun[b].svjez
      BY <1>1, <2>1, MozeSpremno DEF OsnovnaInv
    <3>2. Spremno(b)'
      BY <1>1, <3>1, SpremnoOstaje DEF AktivnoOstaje, obracuni
    <3>3. Spremno(zahtjev[r].b)'
      BY <1>3, <1>4, <3>2
    <3> QED
      BY <1>1, <1>3, <1>4, <2>1, <3>1, <3>3 DEF PosaoUredan, obracuni
  <2>2. CASE op = "obracunaj"
    <3>1. /\ n.status = "DRAFT" /\ Uredan(n, b) /\ Svjez(n, b) /\ obracun[b].status # "POSTED"
      BY <1>1, <2>2, NacrtUredan DEF n, OsnovnaInv, MozeObracun
    <3>2. Uredan(zahtjev[r].nacrt, zahtjev[r].b)' /\ Svjez(zahtjev[r].nacrt, zahtjev[r].b)'
      BY <1>1, <1>3, <1>4, <3>1 DEF Uredan, Svjez
    <3> QED
      BY <1>1, <1>3, <1>4, <2>2, <3>1, <3>2 DEF PosaoUredan, obracuni
  <2> QED
    BY <2>1, <2>2
<1> QED
  BY <1>1, <1>3, <1>5, PosaoKorak

\* The check of a source journal begins, and a request is given up.
LEMMA ProvjeriKorak ==
  ASSUME OsnovnaInv, NEW r \in Zahtjev,
         OdustaniOdUpisa(r) \/ \E n \in {"nabavka", "prodaja"} : ProvjeriIzvor(r, n)
  PROVE  OsnovnaInv'
<1>1. CASE OdustaniOdUpisa(r)
  <2>1. /\ UNCHANGED <<sredstvo, obracuni, izvor, zakljucena, izmjene>>
        /\ zahtjev' = [zahtjev EXCEPT ![r] = Miran]
    BY <1>1 DEF OdustaniOdUpisa
  <2>2. zahtjev'[r] = Miran
    BY <2>1 DEF OsnovnaInv, OsnovnaTipovi
  <2> QED
    BY <2>1, <2>2, Pocetni, PosaoMiruje, PosaoKorak
<1>2. ASSUME NEW n \in {"nabavka", "prodaja"}, ProvjeriIzvor(r, n)
      PROVE  OsnovnaInv'
  <2> DEFINE z == [Miran EXCEPT !.pc = "vraca", !.op = n]
  <2>1. /\ UNCHANGED <<sredstvo, obracuni, izvor, zakljucena, izmjene>>
        /\ zahtjev' = [zahtjev EXCEPT ![r] = z]
    BY <1>2 DEF ProvjeriIzvor
  <2>2. z \in Zahtjevi /\ z.pc = "vraca"
    BY Pocetni DEF Zahtjevi
  <2> HIDE DEF z
  <2>3. zahtjev'[r] = z
    BY <2>1 DEF OsnovnaInv, OsnovnaTipovi
  <2>4. PosaoUredan(r)'
    BY <2>2, <2>3 DEF PosaoUredan
  <2> QED
    BY <2>1, <2>2, <2>4, PosaoKorak
<1> QED
  BY <1>1, <1>2

\* The register is written.
LEMMA UpisiKorak ==
  ASSUME OsnovnaInv, NEW r \in Zahtjev, Upisi(r)
  PROVE  OsnovnaInv'
<1>1. /\ KnjigaSredstava' /\ UUpotrebiOstaje /\ AktivnoOstaje /\ sredstvo' \in [Sredstvo -> Kartica]
      /\ \A n : JeIzvor(n)' => JeIzvor(n)
  BY UpisKnjiga DEF OsnovnaInv
<1>2. /\ obracun' = Zastari /\ zahtjev' = BezOvih({r}, Zastarjeli)
      /\ izmjene' \in Nat /\ UNCHANGED <<pokrice, presjek, izvor, zakljucena>>
  BY DEF Upisi, OsnovnaInv, OsnovnaTipovi
<1>3. obracun' \in [Obracun -> Obracuni]
  <2>1. \A o \in Obracuni : [o EXCEPT !.svjez = FALSE] \in Obracuni
    BY DEF Obracuni
  <2> QED
    BY <1>2, <2>1 DEF OsnovnaInv, OsnovnaTipovi, Zastari
<1>4. zahtjev' \in [Zahtjev -> Zahtjevi]
  BY <1>2, TipoviPoslova DEF OsnovnaInv
<1>5. OsnovnaTipovi'
  BY <1>1, <1>2, <1>3, <1>4 DEF OsnovnaInv, OsnovnaTipovi
<1>6. PosloviUredni'
  BY <1>1, <1>2, PosloviPoslijeRegistra DEF OsnovnaInv
<1>7. IzvorOstajeProknjizen'
  BY <1>1, <1>2 DEF OsnovnaInv, IzvorOstajeProknjizen
<1> QED
  BY <1>1, <1>5, <1>6, <1>7 DEF OsnovnaInv

\* An asset is activated or sold.
LEMMA PromijeniKorak ==
  ASSUME OsnovnaInv, NEW a \in Sredstvo, Aktiviraj(a) \/ Prodaj(a)
  PROVE  OsnovnaInv'
<1>1. /\ KnjigaSredstava' /\ UUpotrebiOstaje /\ sredstvo' \in [Sredstvo -> Kartica]
      /\ \A n \in {"nabavka", "prodaja"} : JeIzvor(n)' => JeIzvor(n) \/ izvor[n]
  BY AktiviranjeKnjiga, ProdajaKnjiga DEF OsnovnaInv
<1>2. /\ obracun' = Zastari /\ zahtjev' = BezOvih(CekajuKnjizenje, Zastarjeli)
      /\ UNCHANGED <<pokrice, presjek, izvor, zakljucena, izmjene>>
  BY DEF Aktiviraj, Prodaj, Promijeni
<1>3. obracun' \in [Obracun -> Obracuni]
  <2>1. \A o \in Obracuni : [o EXCEPT !.svjez = FALSE] \in Obracuni
    BY DEF Obracuni
  <2> QED
    BY <1>2, <2>1 DEF OsnovnaInv, OsnovnaTipovi, Zastari
<1>4. zahtjev' \in [Zahtjev -> Zahtjevi]
  BY <1>2, TipoviPoslova DEF OsnovnaInv
<1>5. OsnovnaTipovi'
  BY <1>1, <1>2, <1>3, <1>4 DEF OsnovnaInv, OsnovnaTipovi
<1>6. PosloviUredni'
  BY <1>1, <1>2, PosloviPoslijeRegistra DEF OsnovnaInv
<1>7. IzvorOstajeProknjizen'
  BY <1>1, <1>2 DEF OsnovnaInv, IzvorOstajeProknjizen
<1> QED
  BY <1>1, <1>5, <1>6, <1>7 DEF OsnovnaInv

\* A sale is prepared or given up.
LEMMA PripremaKorak ==
  ASSUME OsnovnaInv, NEW a \in Sredstvo, OdustaniOdProdaje(a) \/ \E d \in Period : PripremiProdaju(a, d)
  PROVE  OsnovnaInv'
<1>1. /\ KnjigaSredstava' /\ sredstvo' \in [Sredstvo -> Kartica]
      /\ UUpotrebiOstaje /\ AktivnoOstaje /\ \A b \in Obracun : UlazOstaje(b)
      /\ \A n : JeIzvor(n)' => JeIzvor(n)
  BY PripremaKnjiga DEF OsnovnaInv
<1>2. UNCHANGED <<obracuni, izvor, zakljucena, zahtjev, izmjene>>
  BY DEF OdustaniOdProdaje, PripremiProdaju
<1>3. OsnovnaTipovi'
  BY <1>1, <1>2 DEF OsnovnaInv, OsnovnaTipovi, obracuni
<1>4. ASSUME NEW r \in Zahtjev
      PROVE  PosaoUredan(r)'
  <2>1. zahtjev[r] \in Zahtjevi /\ PosaoUredan(r) /\ zahtjev'[r] = zahtjev[r]
    BY <1>2 DEF OsnovnaInv, OsnovnaTipovi, PosloviUredni
  <2>2. zahtjev[r].pc = "ceka" => zahtjev[r].b \in Obracun
    BY <2>1 DEF PosaoUredan
  <2> QED
    BY <1>1, <1>2, <2>1, <2>2, PosaoOstaje DEF obracuni
<1>5. IzvorOstajeProknjizen'
  BY <1>1, <1>2 DEF OsnovnaInv, IzvorOstajeProknjizen
<1> QED
  BY <1>1, <1>3, <1>4, <1>5 DEF OsnovnaInv, PosloviUredni

\* A batch changes: what its actions share.
LEMMA ObracunKorak ==
  ASSUME OsnovnaInv, NEW b \in Obracun, NEW Q, CekajuObracun(b) \subseteq Q,
         KnjigaSredstava', obracun' \in [Obracun -> Obracuni],
         pokrice' \in [Obracun -> [Sredstvo -> SUBSET Period]], presjek' \subseteq Obracun,
         zahtjev' = BezOvih(Q, zahtjev), UNCHANGED <<sredstvo, izvor, zakljucena, izmjene>>,
         \A c \in Obracun : c # b => obracun'[c] = obracun[c],
         pokrice' = pokrice \/ CekajuKnjizenje \subseteq Q
  PROVE  OsnovnaInv'
<1>1. zahtjev' \in [Zahtjev -> Zahtjevi]
  BY TipoviPoslova DEF OsnovnaInv
<1>2. OsnovnaTipovi'
  BY <1>1 DEF OsnovnaInv, OsnovnaTipovi
<1>3. PosloviUredni'
  BY PosloviPoslijeObracuna DEF OsnovnaInv
<1>4. IzvorOstajeProknjizen'
  BY DEF OsnovnaInv, IzvorOstajeProknjizen, JeIzvor
<1> QED
  BY <1>2, <1>3, <1>4 DEF OsnovnaInv

\* A batch is calculated, at once or after a wait, or deleted.
LEMMA NoviKorak ==
  ASSUME OsnovnaInv, NEW b \in Obracun, NEW o \in Obracuni,
         obracun[b].status # "POSTED", o.status # "POSTED", Uredan(o, b), o.svjez => Svjez(o, b),
         obracun' = [obracun EXCEPT ![b] = o], zahtjev' = BezOvih(CekajuObracun(b), zahtjev),
         UNCHANGED <<sredstvo, pokrice, presjek, izvor, zakljucena, izmjene>>
  PROVE  OsnovnaInv'
<1>1. KnjigaSredstava' /\ obracun' \in [Obracun -> Obracuni]
  BY NoviObracun DEF OsnovnaInv
<1>2. \A c \in Obracun : c # b => obracun'[c] = obracun[c]
  BY DEF OsnovnaInv, OsnovnaTipovi
<1>3. pokrice' \in [Obracun -> [Sredstvo -> SUBSET Period]] /\ presjek' \subseteq Obracun
  BY DEF OsnovnaInv, OsnovnaTipovi
<1> QED
  BY <1>1, <1>2, <1>3, ObracunKorak

LEMMA ObracunajKorak ==
  ASSUME OsnovnaInv, NEW b \in Obracun, Obracunaj(b) \/ Obrisi(b)
  PROVE  OsnovnaInv'
<1>1. CASE Obracunaj(b)
  <2>1. /\ NacrtOd(b) \in Obracuni /\ NacrtOd(b).status = "DRAFT"
        /\ Uredan(NacrtOd(b), b) /\ Svjez(NacrtOd(b), b)
    BY NacrtUredan DEF OsnovnaInv
  <2>2. /\ obracun[b].status # "POSTED" /\ obracun' = [obracun EXCEPT ![b] = NacrtOd(b)]
        /\ zahtjev' = BezOvih(CekajuObracun(b), zahtjev)
        /\ UNCHANGED <<sredstvo, pokrice, presjek, izvor, zakljucena, izmjene>>
    BY <1>1 DEF Obracunaj, MozeObracun
  <2> QED
    BY <2>1, <2>2, NoviKorak
<1>2. CASE Obrisi(b)
  <2>1. NemaObracuna \in Obracuni
    BY Pocetni
  <2>2. /\ NemaObracuna.status = "NEMA" /\ ~NemaObracuna.svjez
        /\ \A a \in Sredstvo : NemaObracuna.pokriva[a] = {}
    BY DEF NemaObracuna
  <2>3. Uredan(NemaObracuna, b)
    BY <2>2 DEF Uredan
  <2>4. /\ obracun[b].status # "POSTED" /\ obracun' = [obracun EXCEPT ![b] = NemaObracuna]
        /\ zahtjev' = BezOvih(CekajuObracun(b), zahtjev)
        /\ UNCHANGED <<sredstvo, pokrice, presjek, izvor, zakljucena, izmjene>>
    BY <1>2 DEF Obrisi
  <2> QED
    BY <2>1, <2>2, <2>3, <2>4, NoviKorak
<1> QED
  BY <1>1, <1>2

LEMMA ObracunajStaroKorak ==
  ASSUME OsnovnaInv, NEW r \in Zahtjev, ObracunajStaro(r)
  PROVE  OsnovnaInv'
<1> DEFINE z == zahtjev[r]
           o == [z.nacrt EXCEPT !.svjez = ~z.staro]
<1>1. z.pc = "ceka" /\ z.op = "obracunaj" /\ z \in Zahtjevi /\ PosaoUredan(r)
  BY DEF ObracunajStaro, Docekao, Cekaju, OsnovnaInv, OsnovnaTipovi, PosloviUredni
<1>2. /\ z.b \in Obracun /\ obracun[z.b].status # "POSTED" /\ z.nacrt.status = "DRAFT"
      /\ Uredan(z.nacrt, z.b) /\ (~z.staro => Svjez(z.nacrt, z.b))
  BY <1>1 DEF PosaoUredan
<1>3. z.nacrt \in Obracuni /\ z.staro \in BOOLEAN
  BY <1>1 DEF Zahtjevi
<1>4. /\ o \in Obracuni /\ o.status = "DRAFT" /\ (o.svjez => ~z.staro)
      /\ o.pokriva = z.nacrt.pokriva /\ o.osnov = z.nacrt.osnov
  BY <1>2, <1>3 DEF Obracuni
<1>5. /\ obracun' = [obracun EXCEPT ![z.b] = o] /\ zahtjev' = BezOvih(CekajuObracun(z.b), zahtjev)
      /\ UNCHANGED <<sredstvo, pokrice, presjek, izvor, zakljucena, izmjene>>
  BY DEF ObracunajStaro
<1> HIDE DEF o
<1>6. Uredan(o, z.b) /\ (o.svjez => Svjez(o, z.b))
  BY <1>2, <1>4 DEF Uredan, Svjez
<1> QED
  BY <1>2, <1>4, <1>5, <1>6, NoviKorak

\* A batch is posted, at once or after a wait.
LEMMA KnjiziKorak ==
  ASSUME OsnovnaInv, NEW b \in Obracun, Knjizi(b)
  PROVE  OsnovnaInv'
<1>1. Spremno(b) /\ obracun[b].status = "DRAFT" /\ obracun[b].svjez
  BY MozeSpremno DEF Knjizi, OsnovnaInv
<1>2. /\ Proknjizeno(b) /\ zahtjev' = BezOvih(CekajuKnjizenje \cup CekajuObracun(b), zahtjev)
      /\ UNCHANGED <<sredstvo, presjek, izvor, zakljucena, izmjene>>
      /\ presjek' \subseteq Obracun
  BY DEF Knjizi, OsnovnaInv, OsnovnaTipovi
<1>3. /\ KnjigaSredstava' /\ obracun' \in [Obracun -> Obracuni]
      /\ pokrice' \in [Obracun -> [Sredstvo -> SUBSET Period]]
  BY <1>1, <1>2, KnjizenjeCuva DEF OsnovnaInv
<1>4. \A c \in Obracun : c # b => obracun'[c] = obracun[c]
  BY <1>2 DEF Proknjizeno, OsnovnaInv, OsnovnaTipovi
<1> QED
  BY <1>2, <1>3, <1>4, ObracunKorak

LEMMA KnjiziStaroKorak ==
  ASSUME OsnovnaInv, NEW r \in Zahtjev, KnjiziStaro(r)
  PROVE  OsnovnaInv'
<1> DEFINE z == zahtjev[r]
<1>1. z.pc = "ceka" /\ z.op = "knjizi" /\ PosaoUredan(r)
  BY DEF KnjiziStaro, Docekao, Cekaju, OsnovnaInv, PosloviUredni
<1>2. PICK b \in Obracun : b = z.b
  BY <1>1 DEF PosaoUredan
<1>3. Spremno(b) /\ obracun[b].status = "DRAFT" /\ (~z.staro => obracun[b].svjez)
  BY <1>1, <1>2 DEF PosaoUredan
<1>4. /\ Proknjizeno(b) /\ zahtjev' = BezOvih(CekajuKnjizenje \cup CekajuObracun(b), zahtjev)
      /\ presjek' = IF z.staro THEN presjek \cup {b} ELSE presjek
      /\ UNCHANGED <<sredstvo, izvor, zakljucena, izmjene>>
  BY <1>2 DEF KnjiziStaro
<1>5. /\ presjek' \subseteq Obracun /\ presjek \subseteq presjek'
      /\ b \in presjek' \/ obracun[b].svjez
  BY <1>3, <1>4 DEF OsnovnaInv, OsnovnaTipovi
<1>6. /\ KnjigaSredstava' /\ obracun' \in [Obracun -> Obracuni]
      /\ pokrice' \in [Obracun -> [Sredstvo -> SUBSET Period]]
  BY <1>3, <1>4, <1>5, KnjizenjeCuva DEF OsnovnaInv
<1>7. \A c \in Obracun : c # b => obracun'[c] = obracun[c]
  BY <1>4 DEF Proknjizeno, OsnovnaInv, OsnovnaTipovi
<1> QED
  BY <1>4, <1>5, <1>6, <1>7, ObracunKorak

LEMMA VratiKorak ==
  ASSUME OsnovnaInv, NEW b \in Obracun, Vrati(b)
  PROVE  OsnovnaInv'
<1>1. /\ KnjigaSredstava' /\ obracun' \in [Obracun -> Obracuni]
      /\ pokrice' \in [Obracun -> [Sredstvo -> SUBSET Period]]
  BY VracanjeCuva DEF OsnovnaInv
<1>2. /\ zahtjev' = BezOvih(CekajuKnjizenje \cup CekajuObracun(b), zahtjev)
      /\ presjek' \subseteq Obracun /\ UNCHANGED <<sredstvo, izvor, zakljucena, izmjene>>
      /\ \A c \in Obracun : c # b => obracun'[c] = obracun[c]
  BY DEF Vrati, OsnovnaInv, OsnovnaTipovi
<1> QED
  BY <1>1, <1>2, ObracunKorak

\* A source journal is posted, or reopened if no confirmed change rests on it.
LEMMA IzvorKorak ==
  ASSUME OsnovnaInv,
         \/ \E n \in {"nabavka", "prodaja"} : ProknjiziIzvor(n)
         \/ \E r \in Zahtjev : VratiIzvor(r)
  PROVE  OsnovnaInv'
<1>1. UNCHANGED <<sredstvo, obracuni, zakljucena, izmjene>>
  BY DEF ProknjiziIzvor, VratiIzvor
<1>2. KnjigaSredstava'
  BY <1>1, KnjigaMiruje DEF OsnovnaInv
<1>3. CASE \E n \in {"nabavka", "prodaja"} : ProknjiziIzvor(n)
  <2>1. zahtjev' = zahtjev /\ izvor' \in [{"nabavka", "prodaja"} -> BOOLEAN]
    BY <1>3 DEF ProknjiziIzvor, OsnovnaInv, OsnovnaTipovi
  <2>2. OsnovnaTipovi'
    BY <1>1, <2>1 DEF OsnovnaInv, OsnovnaTipovi, obracuni
  <2>3. PosloviUredni'
    BY <1>1, <2>1 DEF OsnovnaInv, PosloviUredni, PosaoUredan, Spremno, Nastavlja, Pokriveno, Uredan,
                      Svjez, obracuni
  <2>4. IzvorOstajeProknjizen'
    BY <1>1, <1>3 DEF ProknjiziIzvor, OsnovnaInv, OsnovnaTipovi, IzvorOstajeProknjizen, JeIzvor
  <2> QED
    BY <1>2, <2>2, <2>3, <2>4 DEF OsnovnaInv
<1>4. ASSUME NEW r \in Zahtjev, VratiIzvor(r)
      PROVE  OsnovnaInv'
  <2> DEFINE n == zahtjev[r].op
  <2>1. /\ zahtjev' = [zahtjev EXCEPT ![r] = Miran]
        /\ izvor' = IF JeIzvor(n) THEN izvor ELSE [izvor EXCEPT ![n] = FALSE]
    BY <1>4 DEF VratiIzvor
  <2>2. zahtjev' \in [Zahtjev -> Zahtjevi] /\ zahtjev'[r] = Miran
    BY <2>1, Pocetni DEF OsnovnaInv, OsnovnaTipovi
  <2>3. izvor' \in [{"nabavka", "prodaja"} -> BOOLEAN]
    BY <2>1 DEF OsnovnaInv, OsnovnaTipovi
  <2>4. OsnovnaTipovi'
    BY <1>1, <2>2, <2>3 DEF OsnovnaInv, OsnovnaTipovi, obracuni
  <2>5. PosloviUredni'
    BY <1>1, <2>1, <2>2, PosaoMiruje, JedanPosao DEF OsnovnaInv
  <2>6. \A m \in {"nabavka", "prodaja"} : JeIzvor(m)' = JeIzvor(m)
    BY <1>1 DEF JeIzvor
  <2>7. \A m \in {"nabavka", "prodaja"} : JeIzvor(m) => izvor'[m]
    BY <2>1 DEF OsnovnaInv, OsnovnaTipovi, IzvorOstajeProknjizen
  <2> QED
    BY <1>2, <2>4, <2>5, <2>6, <2>7 DEF OsnovnaInv, IzvorOstajeProknjizen
<1> QED
  BY <1>3, <1>4

\* A year is closed or opened, and those that wait for its row start again.
LEMMA GodinaKorak ==
  ASSUME OsnovnaInv, NEW g \in Godina, PromijeniGodinu(g)
  PROVE  OsnovnaInv'
<1> DEFINE Q == {r \in Cekaju : GodinaObracuna(zahtjev[r].b) = g}
<1>1. /\ UNCHANGED <<sredstvo, obracuni, izvor, izmjene>> /\ zahtjev' = BezOvih(Q, zahtjev)
      /\ zakljucena' = [zakljucena EXCEPT ![g] = ~@]
  BY DEF PromijeniGodinu
<1> HIDE DEF Q
<1>2. KnjigaSredstava'
  BY <1>1, KnjigaMiruje DEF OsnovnaInv
<1>3. zahtjev' \in [Zahtjev -> Zahtjevi]
  BY <1>1, TipoviPoslova DEF OsnovnaInv
<1>4. OsnovnaTipovi'
  BY <1>1, <1>3 DEF OsnovnaInv, OsnovnaTipovi, obracuni
<1>5. ASSUME NEW r \in Zahtjev
      PROVE  PosaoUredan(r)'
  <2>1. CASE r \in Q
    BY <1>1, <2>1, BezOvihJe, PosaoMiruje
  <2>2. CASE r \notin Q
    <3>1. zahtjev'[r] = zahtjev[r] /\ zahtjev[r] \in Zahtjevi /\ PosaoUredan(r)
      BY <1>1, <2>2, BezOvihJe DEF OsnovnaInv, OsnovnaTipovi, PosloviUredni
    <3> QED
      BY <1>1, <3>1, PosaoOstaje DEF UUpotrebiOstaje, AktivnoOstaje, UlazOstaje, obracuni
  <2> QED
    BY <2>1, <2>2
<1>6. IzvorOstajeProknjizen'
  BY <1>1 DEF OsnovnaInv, IzvorOstajeProknjizen, JeIzvor
<1> QED
  BY <1>2, <1>4, <1>5, <1>6 DEF OsnovnaInv, PosloviUredni

---------------------------------------------------------------------------
(* Init and Next *)

LEMMA OsnovnaPocetak == Init => OsnovnaInv
<1> SUFFICES ASSUME Init PROVE OsnovnaInv
  OBVIOUS
<1> DEFINE u == Unijeto(1, "AKTIVNO")
<1>1. \A a \in Sredstvo : sredstvo[a] = IF a \in Zatecena THEN u ELSE NemaSredstva
  BY DEF Init
<1>2. 1 \in Period
  BY OsnovnaPretpostavke DEF Period
<1>3. u \in Kartica /\ u.status = "AKTIVNO" /\ u.od = 1 /\ u.kraj = 0 /\ u.nabavka = FALSE
  BY <1>2, Pocetni
<1> HIDE DEF u
<1>4. /\ NemaSredstva.status = "NEMA" /\ NemaSredstva.kraj = 0 /\ NemaSredstva.nabavka = FALSE
      /\ NemaSredstva \in Kartica
  BY Pocetni DEF NemaSredstva
<1>5. /\ NemaObracuna \in Obracuni /\ NemaObracuna.status = "NEMA" /\ NemaObracuna.svjez = FALSE
      /\ NemaObracuna.pokriva = [a \in Sredstvo |-> {}]
  BY Pocetni DEF NemaObracuna
<1>6. /\ obracun = [b \in Obracun |-> NemaObracuna] /\ presjek = {}
      /\ \A b \in Obracun, a \in Sredstvo : pokrice[b][a] = {}
      /\ pokrice \in [Obracun -> [Sredstvo -> SUBSET Period]]
  BY <1>5 DEF Init
<1>7. zahtjev = [r \in Zahtjev |-> Miran]
  BY DEF Init
<1>8. sredstvo \in [Sredstvo -> Kartica]
  BY <1>3, <1>4 DEF Init, u
<1>9. OsnovnaTipovi
  BY <1>5, <1>6, <1>7, <1>8, Pocetni DEF Init, OsnovnaTipovi
<1>10. KarticeUredne
  BY <1>1, <1>2, <1>3, <1>4 DEF KarticeUredne
<1>11. ObracuniUredni /\ PokricaUredna /\ ProknjizenoVazi
  BY <1>5, <1>6 DEF ObracuniUredni, PokricaUredna, Uredan, ProknjizenoVazi
<1>12. PokriceBezRupa /\ ProdatoAmortizovano
  BY <1>1, <1>3, <1>4, <1>6 DEF PokriceBezRupa, ProdatoAmortizovano, Pokriveno
<1>13. PosloviUredni
  <2>1. Miran.pc = "miran"
    BY DEF Miran
  <2> QED
    BY <1>7, <2>1 DEF PosloviUredni, PosaoUredan
<1>14. IzvorOstajeProknjizen
  BY <1>1, <1>3, <1>4 DEF IzvorOstajeProknjizen, JeIzvor
<1> QED
  BY <1>9, <1>10, <1>11, <1>12, <1>13, <1>14 DEF OsnovnaInv, KnjigaSredstava

LEMMA OsnovnaKorak == OsnovnaInv /\ [Next]_vars => OsnovnaInv'
<1> SUFFICES ASSUME OsnovnaInv, [Next]_vars PROVE OsnovnaInv'
  OBVIOUS
<1>1. CASE UNCHANGED vars
  <2>1. UNCHANGED <<sredstvo, obracuni, izvor, zakljucena, izmjene>> /\ zahtjev' = zahtjev
    BY <1>1 DEF vars, obracuni
  <2>2. KnjigaSredstava'
    BY <2>1, KnjigaMiruje DEF OsnovnaInv
  <2>3. OsnovnaTipovi' /\ IzvorOstajeProknjizen'
    BY <2>1 DEF OsnovnaInv, OsnovnaTipovi, IzvorOstajeProknjizen, JeIzvor, obracuni
  <2>4. PosloviUredni'
    BY <2>1 DEF OsnovnaInv, PosloviUredni, PosaoUredan, Spremno, Nastavlja, Pokriveno, Uredan,
                Svjez, obracuni
  <2> QED
    BY <2>2, <2>3, <2>4 DEF OsnovnaInv
<1>2. CASE \E r \in Zahtjev, a \in Sredstvo, p \in Period :
             \/ \E v \in {0, 1} : Zapocni(r, "sredstvo", a, p, v)
             \/ Zapocni(r, "procjena", a, p, 0)
             \/ \E v \in {0, 1} : Zapocni(r, "ucinak", a, p, v)
  BY <1>2, ZapocniKorak
<1>3. CASE \E r \in Zahtjev :
             \/ Upisi(r) \/ OdustaniOdUpisa(r)
             \/ \E op \in {"obracunaj", "knjizi"}, b \in Obracun : Cekaj(r, op, b)
             \/ ObracunajStaro(r) \/ KnjiziStaro(r)
             \/ \E n \in {"nabavka", "prodaja"} : ProvjeriIzvor(r, n)
             \/ VratiIzvor(r)
  BY <1>3, UpisiKorak, CekajKorak, ObracunajStaroKorak, KnjiziStaroKorak, ProvjeriKorak, IzvorKorak
<1>4. CASE \E b \in Obracun : Obracunaj(b) \/ Knjizi(b) \/ Vrati(b) \/ Obrisi(b)
  BY <1>4, ObracunajKorak, KnjiziKorak, VratiKorak
<1>5. CASE \E a \in Sredstvo : \/ Aktiviraj(a) \/ OdustaniOdProdaje(a) \/ Prodaj(a)
                               \/ \E d \in Period : PripremiProdaju(a, d)
  BY <1>5, PromijeniKorak, PripremaKorak
<1>6. CASE \/ \E n \in {"nabavka", "prodaja"} : ProknjiziIzvor(n)
           \/ \E g \in Godina : PromijeniGodinu(g)
  BY <1>6, IzvorKorak, GodinaKorak
<1> QED
  BY <1>1, <1>2, <1>3, <1>4, <1>5, <1>6 DEF Next

\* The invariant holds in every state of the fixed assets.
LEMMA OsnovnaUvijek == Spec => []OsnovnaInv
BY OsnovnaPocetak, OsnovnaKorak, PTL DEF Spec

---------------------------------------------------------------------------
(* Theorems *)

\* No posted depreciation of an asset overlaps another or leaves a period out, whatever
\* batches are posted, also after a wait, reopened and deleted.
THEOREM PokriceUvijekBezRupa == Spec => []PokriceBezRupa
<1>1. OsnovnaInv => PokriceBezRupa
  BY DEF OsnovnaInv, KnjigaSredstava
<1> QED
  BY <1>1, OsnovnaUvijek, PTL

\* Posted depreciation agrees with the estimates and the usage in the register, unless it
\* was posted from a snapshot that its lock had made stale.
THEOREM ProknjizenoVaziUvijek == Spec => []ProknjizenoVazi
<1>1. OsnovnaInv => ProknjizenoVazi
  BY DEF OsnovnaInv, KnjigaSredstava
<1> QED
  BY <1>1, OsnovnaUvijek, PTL

\* Neither a posting nor a reopening leaves a sold asset depreciated past or short of the
\* day before its sale.
THEOREM ProdatoOstajeAmortizovano == Spec => []ProdatoAmortizovano
<1>1. OsnovnaInv => ProdatoAmortizovano
  BY DEF OsnovnaInv, KnjigaSredstava
<1> QED
  BY <1>1, OsnovnaUvijek, PTL

\* A reopening of a source journal that began before the confirmation does not go through.
THEOREM IzvorUvijekProknjizen == Spec => []IzvorOstajeProknjizen
<1>1. OsnovnaInv => IzvorOstajeProknjizen
  BY DEF OsnovnaInv
<1> QED
  BY <1>1, OsnovnaUvijek, PTL
=============================================================================
