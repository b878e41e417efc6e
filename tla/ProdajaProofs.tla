--------------------------- MODULE ProdajaProofs ---------------------------
(* Proofs about Prodaja, for any number of requests, attempts and failures and any
   channels: one confirmed document of the service for a document, nothing called
   confirmed that is not, nothing confirmed taken back, and stock and journals that follow. *)
EXTENDS Prodaja, FiniteSetTheorems, TLAPS

Dokumenti ==
  [status : {"NEMA", "DRAFT", "PENDING", "FAILED", "FISCALIZED", "STORNO", "OBRISAN"},
   obrada : {"OTVOREN", "U_PAZARU", "ZAVRSEN"}, udaljeni : Kljuc \cup {Nema},
   pokusaji : Nat, svjez : BOOLEAN, verzija : {0, 1}]
Poslovi ==
  [pc : {"miran", "ucitaj", "kreiraj", "veza", "fiskalizuj", "sacuvaj", "lager", "knjizenje",
         "cuvaj", "cuvaj_original", "promasaj"},
   nacin : {"", "prodaja", "storno", "ponovi_portal", "ponovi_agencija", "faktura",
            "storno_fakture"},
   dok : Dokument, broj : Nat, kljuc : 0..MaxPokusaja, udaljeni : Kljuc \cup {Nema},
   vidjen : BOOLEAN, verzija : {0, 1}]
Udaljeni == [stanje : {"NEMA", "NACRT", "FISKALIZOVAN"}, verzija : {0, 1}]

ProdajaTipovi ==
  /\ kanal \in Kanal
  /\ dok \in [Dokument -> Dokumenti] /\ radnik \in [Radnik -> Poslovi]
  /\ servis \in [Kljuc -> Udaljeni]
  /\ promet \in [Dokument -> Nat] /\ nalog \in [Dokument -> Nat]

---------------------------------------------------------------------------
(* The inductive invariant *)

PrijeZahtjeva == {"NEMA", "DRAFT", "OBRISAN"}
Potvrdjena == {"FISCALIZED", "STORNO"}
\* Only the agency's retries at the point of sale use other keys than the document's own.
JedanKljuc == Kancelarija \/ Portal
Od(d) == {k \in Kljuc : k[1] = d}

\* A link leads to a document of the service made for this one.
VezaOK(d, u) ==
  u # Nema => u \in Od(d) /\ (JedanKljuc => u = <<d, 0>>) /\ servis[u].stanje # "NEMA"

\* Nothing is known of a document before it is claimed; then its content does not change;
\* what is done with it rests on its confirmation.
DokumentOK(d) ==
  /\ dok[d].status \in PrijeZahtjeva =>
       /\ dok[d].udaljeni = Nema
       /\ \A k \in Od(d) : servis[k].stanje = "NEMA"
  /\ VezaOK(d, dok[d].udaljeni)
  /\ \A k \in Od(d) : servis[k].stanje # "NEMA" =>
       servis[k].verzija = dok[d].verzija /\ (JedanKljuc => k = <<d, 0>>)
  /\ dok[d].status \in Potvrdjena => Potvrdjen(dok[d].udaljeni)
  /\ dok[d].obrada # "OTVOREN" \/ promet[d] > 0 \/ nalog[d] > 0 => dok[d].status \in Potvrdjena

\* A storno is of a confirmed invoice.
StornoOK ==
  /\ dok["STORNO"].status # "STORNO"
  /\ dok["STORNO"].status # "NEMA" => dok["RACUN"].status \in Potvrdjena
  /\ dok["RACUN"].status = "STORNO" => Kasa /\ Fiskalizovan("STORNO")

\* At the point of sale these steps belong to the one request whose document is pending.
Pise(w) == radnik[w].pc \in {"kreiraj", "fiskalizuj", "sacuvaj", "cuvaj", "promasaj"}
KanalPosla(w) ==
  LET z == radnik[w] IN
  /\ IF z.nacin \in {"faktura", "storno_fakture"} THEN Kancelarija ELSE Kasa
  /\ z.nacin \in {"faktura", "prodaja", "ponovi_portal"} => z.dok = "RACUN"
  /\ z.nacin \in {"storno", "storno_fakture"} => z.dok = "STORNO"
  /\ z.pc \in {"ucitaj", "veza"} => z.nacin \in {"faktura", "storno_fakture"}
  /\ z.pc = "lager" => z.nacin = "prodaja"
  /\ z.pc = "cuvaj" => z.nacin # "storno_fakture"
  /\ z.pc = "cuvaj_original" => Kasa /\ z.dok = "STORNO" /\ Fiskalizovan("STORNO")
PosaoOK(w) ==
  LET z == radnik[w]
      d == z.dok
  IN z.pc # "miran" =>
     /\ KanalPosla(w)
     /\ dok[d].status \notin PrijeZahtjeva /\ z.verzija = dok[d].verzija
     /\ VezaOK(d, z.udaljeni) /\ (JedanKljuc => z.kljuc = 0)
     /\ z.pc \in {"fiskalizuj", "veza", "sacuvaj", "lager", "cuvaj"} => z.udaljeni # Nema
     /\ z.pc \in {"sacuvaj", "lager", "cuvaj"} \/ (z.pc = "veza" /\ z.vidjen) =>
          Potvrdjen(z.udaljeni)
     /\ Kasa /\ Pise(w) => \/ dok[d].status = "PENDING"
                           \/ z.pc = "cuvaj" /\ dok[d].status \in Potvrdjena
     /\ Kasa /\ (Pise(w) \/ z.pc = "lager") /\ dok[d].status \in Potvrdjena =>
          dok[d].udaljeni = z.udaljeni
     /\ z.pc = "lager" => dok[d].status \in Potvrdjena
JedanPise ==
  Kasa => \A v, w \in Radnik : v # w /\ Pise(v) /\ Pise(w) /\ radnik[v].dok = radnik[w].dok =>
            dok[radnik[v].dok].status # "PENDING"

\* What the service confirmed of the agency's storno is what the request that works on it,
\* or else the storno, links to.
StornoAgencije ==
  Kasa /\ ~Portal =>
    /\ \A k, l \in Od("STORNO") : Potvrdjen(k) /\ Potvrdjen(l) => k = l
    /\ dok["STORNO"].status # "PENDING" =>
         \A k \in Od("STORNO") : Potvrdjen(k) => k = dok["STORNO"].udaljeni
    /\ \A w \in Radnik : Pise(w) /\ radnik[w].dok = "STORNO" =>
         \A k \in Od("STORNO") : Potvrdjen(k) => k = radnik[w].udaljeni

KnjigeOK ==
  /\ ~Agencijska => \A d \in Dokument : promet[d] <= 1 /\ nalog[d] <= 1
  /\ Kasa => \A d \in Dokument : dok[d].obrada = "OTVOREN" => nalog[d] = 0
  /\ Kancelarija => /\ ~Agencijska => nalog["RACUN"] = 0 /\ nalog["STORNO"] = 0
                    /\ dok["STORNO"].obrada # "ZAVRSEN" => promet["STORNO"] = 0 /\ nalog["STORNO"] = 0
                    /\ promet["STORNO"] <= 1 /\ nalog["STORNO"] <= 1
                    /\ dok["RACUN"].obrada = "ZAVRSEN" => promet["RACUN"] > 0
                    /\ Agencijska /\ dok["RACUN"].obrada = "ZAVRSEN" => nalog["RACUN"] > 0
                    /\ promet["STORNO"] > 0 => nalog["RACUN"] > 0 /\ dok["RACUN"].obrada = "ZAVRSEN"

DokumentiOK == (\A d \in Dokument : DokumentOK(d)) /\ StornoOK
PosloviOK == (\A w \in Radnik : PosaoOK(w)) /\ JedanPise
ProdajaInv == ProdajaTipovi /\ DokumentiOK /\ PosloviOK /\ StornoAgencije /\ KnjigeOK

---------------------------------------------------------------------------
(* Facts about the data *)

LEMMA KljucTip ==
  /\ Nema \notin Kljuc
  /\ \A d \in Dokument, n \in 0..MaxPokusaja : <<d, n>> \in Kljuc
  /\ 0 \in 0..MaxPokusaja
  <1>1. "" \notin Dokument
    BY DEF Dokument
  <1>2. Nema \notin Kljuc
    BY <1>1, Zenon DEF Nema, Kljuc
  <1>3. 0 \in 0..MaxPokusaja
    BY FiskalPretpostavke
  <1> QED BY <1>2, <1>3 DEF Kljuc

LEMMA KanalTip ==
  ASSUME kanal \in Kanal
  PROVE  /\ Kasa <=> ~Kancelarija
         /\ Agencijska <=> Kancelarija /\ ~Portal
         /\ JedanKljuc <=> Kancelarija \/ Portal
  <1>1. kanal.tip \in {"POS", "KANC"} /\ kanal.mjesto \in {"AGENCIJA", "PORTAL"}
    BY FiskalPretpostavke
  <1> QED BY <1>1 DEF Kasa, Kancelarija, Agencijska, Portal, JedanKljuc

LEMMA DokumentIzmjena ==
  /\ Prazan \in Dokumenti
  /\ \A o \in Dokumenti : \A s \in {"NEMA", "DRAFT", "PENDING", "FAILED", "FISCALIZED", "STORNO", "OBRISAN"} :
       [o EXCEPT !.status = s] \in Dokumenti
  /\ \A o \in Dokumenti : \A s \in {"OTVOREN", "U_PAZARU", "ZAVRSEN"} : [o EXCEPT !.obrada = s] \in Dokumenti
  /\ \A o \in Dokumenti : \A u \in Kljuc \cup {Nema} : [o EXCEPT !.udaljeni = u] \in Dokumenti
  /\ \A o \in Dokumenti : \A n \in Nat : [o EXCEPT !.pokusaji = n] \in Dokumenti
  /\ \A o \in Dokumenti : \A b \in BOOLEAN : [o EXCEPT !.svjez = b] \in Dokumenti
  /\ \A o \in Dokumenti : \A b \in {0, 1} : [o EXCEPT !.verzija = b] \in Dokumenti
  <1>1. Prazan \in Dokumenti
    BY DEF Prazan, Dokumenti
  <1>2. \A o \in Dokumenti : \A s \in {"NEMA", "DRAFT", "PENDING", "FAILED", "FISCALIZED", "STORNO", "OBRISAN"} :
       [o EXCEPT !.status = s] \in Dokumenti
    BY DEF Dokumenti
  <1>3. \A o \in Dokumenti : \A s \in {"OTVOREN", "U_PAZARU", "ZAVRSEN"} : [o EXCEPT !.obrada = s] \in Dokumenti
    BY DEF Dokumenti
  <1>4. \A o \in Dokumenti : \A u \in Kljuc \cup {Nema} : [o EXCEPT !.udaljeni = u] \in Dokumenti
    BY DEF Dokumenti
  <1>5. \A o \in Dokumenti : \A n \in Nat : [o EXCEPT !.pokusaji = n] \in Dokumenti
    BY DEF Dokumenti
  <1>6. \A o \in Dokumenti : \A b \in BOOLEAN : [o EXCEPT !.svjez = b] \in Dokumenti
    BY DEF Dokumenti
  <1>7. \A o \in Dokumenti : \A b \in {0, 1} : [o EXCEPT !.verzija = b] \in Dokumenti
    BY DEF Dokumenti
  <1> QED BY <1>1, <1>2, <1>3, <1>4, <1>5, <1>6, <1>7

LEMMA MiranTip == Miran \in Poslovi /\ Miran.pc = "miran"
  BY FiskalPretpostavke DEF Miran, Poslovi, Dokument

---------------------------------------------------------------------------
(* What a step leaves of the requests and documents it does not touch *)

\* The service forgets nothing, a claimed document keeps its content and a confirmed one
\* its confirmation.
ServisRaste ==
  \A k \in Kljuc :
    /\ servis[k].stanje # "NEMA" =>
         servis'[k].stanje # "NEMA" /\ servis'[k].verzija = servis[k].verzija
    /\ servis[k].stanje = "FISKALIZOVAN" => servis'[k].stanje = "FISKALIZOVAN"
DokumentiNaprijed ==
  \A d \in Dokument :
    /\ dok[d].status \notin PrijeZahtjeva =>
         dok'[d].status \notin PrijeZahtjeva /\ dok'[d].verzija = dok[d].verzija
    /\ dok[d].status \in Potvrdjena =>
         dok'[d].status \in Potvrdjena /\ dok'[d].udaljeni = dok[d].udaljeni
Naprijed == kanal' = kanal /\ ServisRaste /\ DokumentiNaprijed

LEMMA DokumentiIsti ==
  ASSUME dok' = dok
  PROVE  DokumentiNaprijed
  BY DEF DokumentiNaprijed

LEMMA VezaOstaje ==
  ASSUME NEW d, NEW u, VezaOK(d, u), ServisRaste, kanal' = kanal
  PROVE  (u # Nema => u \in Od(d) /\ (JedanKljuc' => u = <<d, 0>>) /\ servis'[u].stanje # "NEMA")
         /\ (Potvrdjen(u) => u \in Kljuc /\ servis'[u].stanje = "FISKALIZOVAN")
  <1>1. JedanKljuc' <=> JedanKljuc
    BY DEF JedanKljuc, Kancelarija, Portal
  <1>2. u \in Od(d) => u \in Kljuc
    BY DEF Od
  <1> QED BY <1>1, <1>2 DEF VezaOK, ServisRaste, Potvrdjen

LEMMA StornoOstajePotvrdjen ==
  ASSUME StornoOK, StornoOK', DokumentiNaprijed
  PROVE  Fiskalizovan("STORNO") => Fiskalizovan("STORNO")'
  <1>1. "STORNO" \in Dokument
    BY DEF Dokument
  <1> QED BY <1>1 DEF StornoOK, DokumentiNaprijed, Potvrdjena, Fiskalizovan

\* A request keeps its facts when another one writes, unless that takes its document off
\* pending at the point of sale.
LEMMA PosaoOstaje ==
  ASSUME ProdajaTipovi, StornoOK, StornoOK', Naprijed, NEW v \in Radnik, PosaoOK(v),
         radnik'[v] = radnik[v],
         Kasa /\ Pise(v) /\ dok[radnik[v].dok].status = "PENDING" =>
           dok'[radnik[v].dok].status = "PENDING"
  PROVE  PosaoOK(v)'
  <1> DEFINE z == radnik[v]
             d == z.dok
  <1>1. d \in Dokument /\ z.udaljeni \in Kljuc \cup {Nema}
    BY DEF ProdajaTipovi, Poslovi
  <1>2. SUFFICES ASSUME z.pc # "miran" PROVE PosaoOK(v)'
    BY DEF PosaoOK
  <1>3. /\ Kasa' <=> Kasa
        /\ Kancelarija' <=> Kancelarija
        /\ Portal' <=> Portal
        /\ JedanKljuc' <=> JedanKljuc
        /\ Pise(v)' <=> Pise(v)
    BY DEF Naprijed, Kasa, Kancelarija, Portal, JedanKljuc, Pise
  <1>4. KanalPosla(v) /\ dok[d].status \notin PrijeZahtjeva /\ z.verzija = dok[d].verzija
        /\ VezaOK(d, z.udaljeni) /\ (JedanKljuc => z.kljuc = 0)
        /\ (z.pc \in {"fiskalizuj", "veza", "sacuvaj", "lager", "cuvaj"} => z.udaljeni # Nema)
    BY <1>2 DEF PosaoOK
  <1>5. KanalPosla(v)'
    BY <1>3, <1>4, StornoOstajePotvrdjen DEF KanalPosla, Naprijed
  <1>6. dok'[d].status \notin PrijeZahtjeva /\ z.verzija = dok'[d].verzija
    BY <1>1, <1>4 DEF Naprijed, DokumentiNaprijed
  <1>7. z.udaljeni # Nema =>
           z.udaljeni \in Od(d) /\ (JedanKljuc' => z.udaljeni = <<d, 0>>) /\ servis'[z.udaljeni].stanje # "NEMA"
    BY <1>4, VezaOstaje DEF Naprijed
  <1>8. Potvrdjen(z.udaljeni) => z.udaljeni \in Kljuc /\ servis'[z.udaljeni].stanje = "FISKALIZOVAN"
    BY <1>4, VezaOstaje DEF Naprijed
  <1>9. z.pc \in {"sacuvaj", "lager", "cuvaj"} \/ (z.pc = "veza" /\ z.vidjen) =>
          z.udaljeni \in Kljuc /\ servis'[z.udaljeni].stanje = "FISKALIZOVAN"
    BY <1>2, <1>8 DEF PosaoOK
  <1>10. Kasa /\ Pise(v) => \/ dok'[d].status = "PENDING"
                            \/ z.pc = "cuvaj" /\ dok'[d].status \in Potvrdjena
    BY <1>1, <1>2 DEF PosaoOK, Naprijed, DokumentiNaprijed
  <1>11. z.pc = "lager" => dok'[d].status \in Potvrdjena
    BY <1>1, <1>2 DEF PosaoOK, Naprijed, DokumentiNaprijed
  <1>12. Kasa /\ (Pise(v) \/ z.pc = "lager") /\ dok'[d].status \in Potvrdjena => dok'[d].udaljeni = z.udaljeni
    <2>1. Kasa /\ (Pise(v) \/ z.pc = "lager") /\ dok'[d].status \in Potvrdjena => dok[d].status \in Potvrdjena
      BY <1>2 DEF PosaoOK, Potvrdjena
    <2> QED BY <2>1, <1>1, <1>2 DEF PosaoOK, Naprijed, DokumentiNaprijed
  <1> HIDE DEF z, d
  <1>13. radnik'[v] = z /\ z.dok = d
    BY DEF z, d
  <1> QED BY <1>3, <1>4, <1>5, <1>6, <1>7, <1>9, <1>10, <1>11, <1>12, <1>13, Zenon
       DEF PosaoOK, VezaOK, Potvrdjen, Od, Kljuc

LEMMA DokumentOstaje ==
  ASSUME NEW d \in Dokument, DokumentOK(d), dok'[d] = dok[d], promet'[d] = promet[d],
         nalog'[d] = nalog[d], kanal' = kanal, \A k \in Od(d) : servis'[k] = servis[k]
  PROVE  DokumentOK(d)'
  <1>1. JedanKljuc' <=> JedanKljuc
    BY DEF JedanKljuc, Kancelarija, Portal
  <1>2. VezaOK(d, dok[d].udaljeni)'
    BY <1>1 DEF VezaOK, DokumentOK, Od
  <1>3. Potvrdjen(dok[d].udaljeni) => Potvrdjen(dok[d].udaljeni)'
    BY KljucTip DEF DokumentOK, VezaOK, Potvrdjen
  <1> QED BY <1>1, <1>2, <1>3 DEF DokumentOK, VezaOK, Od

LEMMA JedanPiseOstaje ==
  ASSUME JedanPise, kanal' = kanal,
         \A v \in Radnik : Pise(v)' /\ dok'[radnik'[v].dok].status = "PENDING" =>
           /\ Pise(v) /\ radnik'[v].dok = radnik[v].dok
           /\ dok[radnik[v].dok].status = "PENDING"
  PROVE  JedanPise'
  BY DEF JedanPise, Kasa

LEMMA StornoAgencijeOstaje ==
  ASSUME StornoAgencije, kanal' = kanal,
         \A k \in Od("STORNO") : Potvrdjen(k)' => Potvrdjen(k),
         Kasa /\ ~Portal /\ dok'["STORNO"].status # "PENDING" =>
           \/ dok["STORNO"].status # "PENDING" /\ dok'["STORNO"].udaljeni = dok["STORNO"].udaljeni
           \/ \A k \in Od("STORNO") : Potvrdjen(k) => k = dok'["STORNO"].udaljeni,
         Kasa /\ ~Portal => \A v \in Radnik : Pise(v)' /\ radnik'[v].dok = "STORNO" =>
           \/ Pise(v) /\ radnik[v].dok = "STORNO" /\ radnik'[v].udaljeni = radnik[v].udaljeni
           \/ \A k \in Od("STORNO") : Potvrdjen(k) => k = radnik'[v].udaljeni
  PROVE  StornoAgencije'
  <1>1. (Kasa' <=> Kasa) /\ (Portal' <=> Portal)
    BY DEF Kasa, Portal
  <1> QED BY <1>1 DEF StornoAgencije, Od

---------------------------------------------------------------------------
(* Steps of the service and of a request alone *)

SamoServis ==
  /\ dok' = dok /\ promet' = promet /\ nalog' = nalog /\ kanal' = kanal
  /\ servis' \in [Kljuc -> Udaljeni] /\ ServisRaste
  /\ \A k \in Kljuc : servis[k].stanje = "NEMA" /\ servis'[k].stanje # "NEMA" =>
       /\ dok[k[1]].status \notin PrijeZahtjeva /\ servis'[k].verzija = dok[k[1]].verzija
       /\ JedanKljuc => k = <<k[1], 0>>

LEMMA ServisOstavlja ==
  ASSUME ProdajaTipovi, DokumentiOK, KnjigeOK, SamoServis
  PROVE  DokumentiOK' /\ KnjigeOK' /\ Naprijed
  <1>1. (JedanKljuc' <=> JedanKljuc) /\ (Kasa' <=> Kasa) /\ (Agencijska' <=> Agencijska) /\ (Kancelarija' <=> Kancelarija)
    BY DEF SamoServis, JedanKljuc, Kancelarija, Portal, Kasa, Agencijska
  <1>2. KnjigeOK'
    BY <1>1 DEF KnjigeOK, SamoServis
  <1>3. Naprijed
    BY DEF SamoServis, Naprijed, DokumentiNaprijed
  <1>4. StornoOK'
    BY <1>1 DEF StornoOK, DokumentiOK, SamoServis, Fiskalizovan
  <1>5. ASSUME NEW d \in Dokument
        PROVE  DokumentOK(d)'
    <2>1. DokumentOK(d)
      BY DEF DokumentiOK
    <2>2. VezaOK(d, dok[d].udaljeni)'
      BY <2>1, VezaOstaje, <1>1 DEF DokumentOK, VezaOK, SamoServis, Od
    <2>3. Potvrdjen(dok[d].udaljeni) => Potvrdjen(dok[d].udaljeni)'
      BY <2>1, VezaOstaje DEF DokumentOK, SamoServis, Potvrdjen
    <2>4. \A k \in Od(d) : k \in Kljuc /\ k[1] = d
      BY DEF Od
    <2>5. dok[d].status \in PrijeZahtjeva => \A k \in Od(d) : servis'[k].stanje = "NEMA"
      BY <2>1, <2>4 DEF DokumentOK, SamoServis
    <2>6. \A k \in Od(d) : servis'[k].stanje # "NEMA" =>
            servis'[k].verzija = dok[d].verzija /\ (JedanKljuc => k = <<d, 0>>)
      BY <2>1, <2>4 DEF DokumentOK, SamoServis, ServisRaste
    <2> QED BY <1>1, <2>1, <2>2, <2>3, <2>5, <2>6 DEF DokumentOK, SamoServis, Od
  <1> QED BY <1>2, <1>3, <1>4, <1>5 DEF DokumentiOK

\* The request moves on; the others keep their facts.
LEMMA RadnikNapreduje ==
  ASSUME ProdajaInv, SamoServis, NEW w \in Radnik, PosaoOK(w)',
         radnik' \in [Radnik -> Poslovi],
         \A v \in Radnik \ {w} : radnik'[v] = radnik[v],
         Kasa /\ Pise(w)' => (Pise(w) \/ dok[radnik[w].dok].status \in Potvrdjena)
                             /\ radnik'[w].dok = radnik[w].dok
  PROVE  ProdajaTipovi' /\ DokumentiOK' /\ PosloviOK' /\ KnjigeOK'
  <1>1. DokumentiOK' /\ KnjigeOK' /\ Naprijed
    BY ServisOstavlja DEF ProdajaInv
  <1>2. ProdajaTipovi'
    BY DEF ProdajaInv, ProdajaTipovi, SamoServis
  <1>3. ASSUME NEW v \in Radnik PROVE PosaoOK(v)'
    <2>1. CASE v = w
      BY <2>1
    <2>2. CASE v # w
      BY <2>2, <1>1, PosaoOstaje DEF ProdajaInv, DokumentiOK, PosloviOK, SamoServis
    <2> QED BY <2>1, <2>2
  <1>4. Kasa => JedanPise'
    <2> SUFFICES ASSUME Kasa PROVE JedanPise'
      OBVIOUS
    <2>1. ASSUME NEW v \in Radnik, Pise(v)', dok'[radnik'[v].dok].status = "PENDING"
          PROVE  Pise(v) /\ radnik'[v].dok = radnik[v].dok /\ dok[radnik[v].dok].status = "PENDING"
      <3>1. CASE v = w
        BY <2>1, <3>1 DEF SamoServis, Potvrdjena
      <3>2. CASE v # w
        BY <2>1, <3>2 DEF SamoServis, Pise
      <3> QED BY <3>1, <3>2
    <2> QED BY <2>1, JedanPiseOstaje DEF SamoServis, ProdajaInv, PosloviOK
  <1>5. ~Kasa => JedanPise'
    BY DEF JedanPise, Kasa, SamoServis
  <1> QED BY <1>1, <1>2, <1>3, <1>4, <1>5 DEF PosloviOK

LEMMA PosaoTip ==
  ASSUME ProdajaTipovi, NEW w \in Radnik
  PROVE  /\ radnik[w] \in Poslovi /\ radnik[w].dok \in Dokument
         /\ <<radnik[w].dok, radnik[w].kljuc>> \in Od(radnik[w].dok)
         /\ radnik[w].udaljeni \in Kljuc \cup {Nema} /\ radnik[w].verzija \in {0, 1}
         /\ radnik[w].vidjen \in BOOLEAN
  <1>1. radnik[w] \in Poslovi
    BY DEF ProdajaTipovi
  <1> QED BY <1>1, KljucTip DEF Poslovi, Od

LEMMA NovoMjesto ==
  ASSUME NEW z \in Poslovi, NEW n, NEW c, n = [z EXCEPT !.pc = c],
         c \in {"miran", "ucitaj", "kreiraj", "veza", "fiskalizuj", "sacuvaj", "lager", "knjizenje",
                "cuvaj", "cuvaj_original", "promasaj"}
  PROVE  /\ n \in Poslovi /\ n.pc = c /\ n.nacin = z.nacin /\ n.dok = z.dok /\ n.broj = z.broj
         /\ n.kljuc = z.kljuc /\ n.udaljeni = z.udaljeni /\ n.vidjen = z.vidjen /\ n.verzija = z.verzija
  <1>1. n \in Poslovi
    BY DEF Poslovi
  <1>2. n.pc = c /\ n.nacin = z.nacin /\ n.dok = z.dok /\ n.broj = z.broj
    BY DEF Poslovi
  <1>3. n.kljuc = z.kljuc /\ n.udaljeni = z.udaljeni /\ n.vidjen = z.vidjen /\ n.verzija = z.verzija
    BY DEF Poslovi
  <1> QED BY <1>1, <1>2, <1>3

\* A request that only moves to another point of its program.
LEMMA IdiOcuva ==
  ASSUME ProdajaTipovi, NEW w \in Radnik, NEW c, Idi(w, c),
         c \in {"miran", "ucitaj", "kreiraj", "veza", "fiskalizuj", "sacuvaj", "lager", "knjizenje",
                "cuvaj", "cuvaj_original", "promasaj"}
  PROVE  /\ radnik' \in [Radnik -> Poslovi]
         /\ \A v \in Radnik \ {w} : radnik'[v] = radnik[v]
         /\ radnik'[w].pc = c /\ radnik'[w].nacin = radnik[w].nacin /\ radnik'[w].dok = radnik[w].dok
         /\ radnik'[w].broj = radnik[w].broj /\ radnik'[w].kljuc = radnik[w].kljuc
         /\ radnik'[w].udaljeni = radnik[w].udaljeni /\ radnik'[w].vidjen = radnik[w].vidjen
         /\ radnik'[w].verzija = radnik[w].verzija
  <1> DEFINE n == [radnik[w] EXCEPT !.pc = c]
  <1>1. radnik[w] \in Poslovi
    BY PosaoTip
  <1>2. /\ n \in Poslovi /\ n.pc = c /\ n.nacin = radnik[w].nacin /\ n.dok = radnik[w].dok /\ n.broj = radnik[w].broj
        /\ n.kljuc = radnik[w].kljuc /\ n.udaljeni = radnik[w].udaljeni /\ n.vidjen = radnik[w].vidjen
        /\ n.verzija = radnik[w].verzija
    BY <1>1, NovoMjesto DEF n
  <1>3. radnik' = [radnik EXCEPT ![w] = n]
    BY DEF Idi
  <1> HIDE DEF n
  <1> QED BY <1>2, <1>3 DEF ProdajaTipovi

LEMMA OdgovorOcuva ==
  ASSUME ProdajaTipovi, NEW w \in Radnik, NEW k \in Kljuc, NEW novi \in BOOLEAN, Odgovor(w, k, novi)
  PROVE  /\ radnik' \in [Radnik -> Poslovi]
         /\ \A v \in Radnik \ {w} : radnik'[v] = radnik[v]
         /\ \/ radnik'[w].pc = "veza" /\ radnik[w].nacin \in {"faktura", "storno_fakture"}
            \/ radnik'[w].pc = "sacuvaj" /\ Potvrdjen(k)
            \/ radnik'[w].pc = "fiskalizuj"
         /\ radnik'[w].vidjen => Potvrdjen(k)
         /\ radnik'[w].nacin = radnik[w].nacin /\ radnik'[w].dok = radnik[w].dok
         /\ radnik'[w].kljuc = radnik[w].kljuc /\ radnik'[w].udaljeni = k
         /\ radnik'[w].verzija = radnik[w].verzija
  <1> DEFINE vidi == GledaStatus(w) /\ Potvrdjen(k)
             dalje == IF radnik[w].nacin = "storno_fakture"
                        \/ (radnik[w].nacin = "faktura" /\ novi) THEN "veza"
                      ELSE IF vidi THEN "sacuvaj" ELSE "fiskalizuj"
  <1>1. radnik' = [radnik EXCEPT ![w] = [radnik[w] EXCEPT !.pc = dalje, !.udaljeni = k, !.vidjen = vidi]]
    BY DEF Odgovor
  <1>2. vidi \in BOOLEAN
    BY DEF GledaStatus, Potvrdjen
  <1>3. dalje \in {"veza", "fiskalizuj", "sacuvaj"}
    OBVIOUS
  <1>4. /\ dalje = "veza" => radnik[w].nacin \in {"faktura", "storno_fakture"}
        /\ dalje = "sacuvaj" => Potvrdjen(k)
        /\ vidi => Potvrdjen(k)
    OBVIOUS
  <1> HIDE DEF vidi, dalje
  <1>5. PICK c \in {"veza", "fiskalizuj", "sacuvaj"}, b \in BOOLEAN :
          /\ radnik' = [radnik EXCEPT ![w] = [radnik[w] EXCEPT !.pc = c, !.udaljeni = k, !.vidjen = b]]
          /\ c = "veza" => radnik[w].nacin \in {"faktura", "storno_fakture"}
          /\ c = "sacuvaj" \/ b => Potvrdjen(k)
    BY <1>1, <1>2, <1>3, <1>4, Zenon
  <1> DEFINE n == [radnik[w] EXCEPT !.pc = c, !.udaljeni = k, !.vidjen = b]
  <1>6. radnik[w] \in Poslovi
    BY PosaoTip
  <1>7. /\ n \in Poslovi /\ n.pc = c /\ n.nacin = radnik[w].nacin /\ n.dok = radnik[w].dok
        /\ n.kljuc = radnik[w].kljuc /\ n.udaljeni = k /\ n.vidjen = b /\ n.verzija = radnik[w].verzija
    <2>1. n \in Poslovi
      BY <1>6 DEF n, Poslovi
    <2>2. n.pc = c /\ n.nacin = radnik[w].nacin /\ n.dok = radnik[w].dok
      BY <1>6 DEF n, Poslovi
    <2>3. n.kljuc = radnik[w].kljuc /\ n.udaljeni = k /\ n.vidjen = b /\ n.verzija = radnik[w].verzija
      BY <1>6 DEF n, Poslovi
    <2> QED BY <2>1, <2>2, <2>3
  <1>8. radnik' = [radnik EXCEPT ![w] = n]
    BY <1>5
  <1> HIDE DEF n
  <1>9. /\ radnik' \in [Radnik -> Poslovi] /\ radnik'[w] = n
        /\ \A v \in Radnik \ {w} : radnik'[v] = radnik[v]
    BY <1>7, <1>8 DEF ProdajaTipovi
  <1> QED BY <1>5, <1>7, <1>9

LEMMA ZavrsiOcuva ==
  ASSUME ProdajaTipovi, NEW w \in Radnik, Zavrsi(w)
  PROVE  /\ radnik' \in [Radnik -> Poslovi]
         /\ \A v \in Radnik \ {w} : radnik'[v] = radnik[v]
         /\ radnik'[w].pc = "miran" /\ ~Pise(w)' /\ PosaoOK(w)'
  <1>1. /\ radnik' \in [Radnik -> Poslovi]
        /\ \A v \in Radnik \ {w} : radnik'[v] = radnik[v]
        /\ radnik'[w].pc = "miran"
    BY MiranTip DEF Zavrsi, ProdajaTipovi
  <1> QED BY <1>1 DEF Pise, PosaoOK

LEMMA PosaoFakti ==
  ASSUME ProdajaInv, NEW w \in Radnik
  PROVE  /\ ProdajaTipovi /\ PosaoOK(w) /\ DokumentOK(radnik[w].dok) /\ StornoOK
         /\ radnik[w] \in Poslovi /\ radnik[w].dok \in Dokument
         /\ <<radnik[w].dok, radnik[w].kljuc>> \in Od(radnik[w].dok)
         /\ <<radnik[w].dok, radnik[w].kljuc>> \in Kljuc
         /\ radnik[w].udaljeni \in Kljuc \cup {Nema} /\ radnik[w].verzija \in {0, 1}
  BY PosaoTip DEF ProdajaInv, DokumentiOK, PosloviOK, Od

LEMMA KreiranjeServisa ==
  ASSUME ProdajaInv, NEW w \in Radnik, radnik[w].pc # "miran",
         servis' \in {servis, Kreirano(<<radnik[w].dok, radnik[w].kljuc>>, radnik[w].verzija)},
         kanal' = kanal, dok' = dok, promet' = promet, nalog' = nalog
  PROVE  /\ SamoServis
         /\ \A k \in Od("STORNO") : Potvrdjen(k)' => Potvrdjen(k)
  <1> DEFINE k == <<radnik[w].dok, radnik[w].kljuc>>
             n == [stanje |-> "NACRT", verzija |-> radnik[w].verzija]
  <1>1. k \in Kljuc /\ k[1] = radnik[w].dok /\ (radnik[w].kljuc = 0 => k = <<k[1], 0>>)
    BY PosaoFakti
  <1>2. n \in Udaljeni /\ n.stanje = "NACRT" /\ n.verzija = radnik[w].verzija
    BY PosaoFakti DEF Udaljeni
  <1>3. servis \in [Kljuc -> Udaljeni]
    BY DEF ProdajaInv, ProdajaTipovi
  <1>4. dok[radnik[w].dok].status \notin PrijeZahtjeva /\ radnik[w].verzija = dok[radnik[w].dok].verzija
        /\ (JedanKljuc => radnik[w].kljuc = 0)
    BY PosaoFakti DEF PosaoOK
  <1>5. servis' = servis \/ (servis[k].stanje = "NEMA" /\ servis' = [servis EXCEPT ![k] = n])
    BY DEF Kreirano
  <1> HIDE DEF k, n
  <1>6. servis' \in [Kljuc -> Udaljeni]
    BY <1>1, <1>2, <1>3, <1>5
  <1>7. \A l \in Kljuc : servis'[l] = servis[l] \/ (l = k /\ servis[k].stanje = "NEMA" /\ servis'[k] = n)
    BY <1>1, <1>3, <1>5
  <1>8. ServisRaste
    BY <1>1, <1>7 DEF ServisRaste
  <1>9. \A l \in Kljuc : servis[l].stanje = "NEMA" /\ servis'[l].stanje # "NEMA" =>
          l = k /\ servis'[l].verzija = radnik[w].verzija
    BY <1>7, <1>2
  <1>10. \A l \in Kljuc : servis[l].stanje = "NEMA" /\ servis'[l].stanje # "NEMA" =>
           /\ dok[l[1]].status \notin PrijeZahtjeva /\ servis'[l].verzija = dok[l[1]].verzija
           /\ JedanKljuc => l = <<l[1], 0>>
    BY <1>9, <1>1, <1>4
  <1>11. SamoServis
    BY <1>6, <1>8, <1>10 DEF SamoServis
  <1>12. \A l \in Od("STORNO") : Potvrdjen(l)' => Potvrdjen(l)
    BY <1>7, <1>2 DEF Od, Potvrdjen, Kljuc
  <1> QED BY <1>11, <1>12

LEMMA IdiNapreduje ==
  ASSUME ProdajaInv, SamoServis, NEW w \in Radnik, radnik[w].pc # "miran",
         NEW c \in {"promasaj", "cuvaj", "sacuvaj"}, Idi(w, c),
         Kasa /\ c = "promasaj" => radnik[w].pc \in {"kreiraj", "fiskalizuj"},
         c = "cuvaj" => radnik[w].pc \in {"sacuvaj", "lager"} /\ radnik[w].nacin # "storno_fakture",
         c = "sacuvaj" => radnik[w].pc = "fiskalizuj"
                          /\ servis'[radnik[w].udaljeni].stanje = "FISKALIZOVAN",
         \/ \A k \in Od("STORNO") : Potvrdjen(k)' => Potvrdjen(k)
         \/ StornoAgencije'
  PROVE  ProdajaInv' /\ DokumentiNaprijed
  <1>0. PICK d \in Dokument, u \in Kljuc \cup {Nema} : d = radnik[w].dok /\ u = radnik[w].udaljeni
    BY PosaoFakti
  <1>1. kanal' = kanal /\ dok' = dok /\ promet' = promet /\ nalog' = nalog /\ ServisRaste
    BY DEF SamoServis
  <1>2. ProdajaTipovi /\ PosaoOK(w) /\ KanalPosla(w) /\ VezaOK(d, u)
    BY <1>0, PosaoFakti DEF PosaoOK
  <1>3. (Kasa' <=> Kasa) /\ (Kancelarija' <=> Kancelarija) /\ (Portal' <=> Portal) /\ (JedanKljuc' <=> JedanKljuc)
    BY <1>1 DEF Kasa, Kancelarija, Portal, JedanKljuc
  <1>4. dok[d].status \notin PrijeZahtjeva /\ radnik[w].verzija = dok[d].verzija
        /\ (JedanKljuc => radnik[w].kljuc = 0)
        /\ (radnik[w].pc \in {"fiskalizuj", "veza", "sacuvaj", "lager", "cuvaj"} => u # Nema)
        /\ (radnik[w].pc \in {"sacuvaj", "lager", "cuvaj"} => Potvrdjen(u))
    BY <1>0, <1>2 DEF PosaoOK
  <1>5. /\ Kasa /\ c # "cuvaj" => dok[d].status = "PENDING"
        /\ Kasa /\ radnik[w].pc = "sacuvaj" => dok[d].status = "PENDING"
        /\ radnik[w].pc = "lager" => dok[d].status \in Potvrdjena
        /\ Kasa /\ radnik[w].pc = "lager" => dok[d].udaljeni = u
    BY <1>0, <1>2 DEF PosaoOK, Pise
  <1>6. /\ radnik' \in [Radnik -> Poslovi]
        /\ \A v \in Radnik \ {w} : radnik'[v] = radnik[v]
        /\ radnik'[w].pc = c /\ radnik'[w].nacin = radnik[w].nacin /\ radnik'[w].dok = d
        /\ radnik'[w].kljuc = radnik[w].kljuc
        /\ radnik'[w].udaljeni = u /\ radnik'[w].vidjen = radnik[w].vidjen
        /\ radnik'[w].verzija = radnik[w].verzija
    BY <1>0, <1>2, IdiOcuva
  <1>7. VezaOK(d, u)'
    BY <1>1, <1>2, <1>3, VezaOstaje DEF VezaOK, Od
  <1>8. Potvrdjen(u) => Potvrdjen(u)'
    BY <1>1, <1>2, VezaOstaje DEF Potvrdjen
  <1>9. c \in {"sacuvaj", "cuvaj"} => Potvrdjen(u)' /\ u # Nema
    <2>1. CASE c = "cuvaj"
      BY <2>1, <1>4, <1>8
    <2>2. CASE c = "sacuvaj"
      BY <2>2, <1>0, <1>4 DEF Potvrdjen
    <2> QED BY <2>1, <2>2
  <1>10. KanalPosla(w)'
    BY <1>0, <1>2, <1>3, <1>6 DEF KanalPosla
  <1>11. PosaoOK(w)'
    BY <1>1, <1>3, <1>4, <1>5, <1>6, <1>7, <1>9, <1>10 DEF PosaoOK, Pise, Potvrdjena
  <1>12. Kasa /\ Pise(w)' => (Pise(w) \/ dok[d].status \in Potvrdjena) /\ radnik'[w].dok = radnik[w].dok
    BY <1>0, <1>5, <1>6 DEF Pise
  <1>13. ProdajaTipovi' /\ DokumentiOK' /\ PosloviOK' /\ KnjigeOK'
    BY <1>0, <1>6, <1>11, <1>12, RadnikNapreduje
  <1>14. StornoAgencije'
    <2>1. SUFFICES ASSUME \A k \in Od("STORNO") : Potvrdjen(k)' => Potvrdjen(k) PROVE StornoAgencije'
      OBVIOUS
    <2>2. Kasa => \A v \in Radnik : Pise(v)' /\ radnik'[v].dok = "STORNO" =>
            Pise(v) /\ radnik[v].dok = "STORNO" /\ radnik'[v].udaljeni = radnik[v].udaljeni
      <3>1. Kasa /\ Pise(w)' /\ d = "STORNO" => Pise(w)
        BY <1>0, <1>2, <1>6 DEF KanalPosla, Pise
      <3> QED BY <3>1, <1>0, <1>6 DEF Pise
    <2> QED BY <2>1, <2>2, <1>1, StornoAgencijeOstaje DEF ProdajaInv
  <1> QED BY <1>1, <1>13, <1>14, DokumentiIsti DEF ProdajaInv

\* The answer of the service gives the request its link.
LEMMA OdgovorNapreduje ==
  ASSUME ProdajaInv, SamoServis, NEW w \in Radnik, radnik[w].pc = "kreiraj",
         NEW k \in Od(radnik[w].dok), NEW novi \in BOOLEAN, Odgovor(w, k, novi),
         JedanKljuc => k = <<radnik[w].dok, 0>>, servis'[k].stanje # "NEMA",
         \A l \in Od("STORNO") : Potvrdjen(l)' => Potvrdjen(l),
         Kasa /\ ~Portal /\ radnik[w].dok = "STORNO" => \A l \in Od("STORNO") : Potvrdjen(l) => l = k
  PROVE  ProdajaInv' /\ DokumentiNaprijed
  <1>0. PICK d \in Dokument : d = radnik[w].dok
    BY PosaoFakti
  <1>1. kanal' = kanal /\ dok' = dok /\ promet' = promet /\ nalog' = nalog /\ ServisRaste
    BY DEF SamoServis
  <1>2. k \in Kljuc /\ k \in Od(d) /\ k # Nema /\ ProdajaTipovi /\ PosaoOK(w) /\ KanalPosla(w)
    BY <1>0, PosaoFakti, KljucTip DEF PosaoOK, Od
  <1>3. (Kasa' <=> Kasa) /\ (Kancelarija' <=> Kancelarija) /\ (Portal' <=> Portal) /\ (JedanKljuc' <=> JedanKljuc)
    BY <1>1 DEF Kasa, Kancelarija, Portal, JedanKljuc
  <1>4. (Kasa => dok[d].status = "PENDING") /\ dok[d].status \notin PrijeZahtjeva /\ radnik[w].verzija = dok[d].verzija
        /\ (JedanKljuc => radnik[w].kljuc = 0)
    BY <1>0, <1>2 DEF PosaoOK, Pise
  <1>5. /\ radnik' \in [Radnik -> Poslovi]
        /\ \A v \in Radnik \ {w} : radnik'[v] = radnik[v]
        /\ \/ radnik'[w].pc = "veza" /\ radnik[w].nacin \in {"faktura", "storno_fakture"}
           \/ radnik'[w].pc = "sacuvaj" /\ Potvrdjen(k)
           \/ radnik'[w].pc = "fiskalizuj"
        /\ radnik'[w].vidjen => Potvrdjen(k)
        /\ radnik'[w].nacin = radnik[w].nacin /\ radnik'[w].dok = d
        /\ radnik'[w].kljuc = radnik[w].kljuc /\ radnik'[w].udaljeni = k
        /\ radnik'[w].verzija = radnik[w].verzija
    BY <1>0, <1>2, OdgovorOcuva
  <1>6. KanalPosla(w)'
    BY <1>0, <1>2, <1>3, <1>5 DEF KanalPosla
  <1>7. VezaOK(d, k)'
    BY <1>0, <1>2, <1>3 DEF VezaOK, Od
  <1>8. Potvrdjen(k) => Potvrdjen(k)'
    BY <1>1, <1>2 DEF Potvrdjen, ServisRaste
  <1>9. Pise(w)' => radnik'[w].pc \in {"fiskalizuj", "sacuvaj"}
    BY <1>5 DEF Pise
  <1>10. PosaoOK(w)'
    BY <1>1, <1>2, <1>3, <1>4, <1>5, <1>6, <1>7, <1>8, <1>9 DEF PosaoOK, Potvrdjena
  <1>11. ProdajaTipovi' /\ DokumentiOK' /\ PosloviOK' /\ KnjigeOK'
    BY <1>0, <1>5, <1>10, RadnikNapreduje DEF Pise
  <1>12. StornoAgencije'
    <2>1. Kasa /\ ~Portal => \A v \in Radnik : Pise(v)' /\ radnik'[v].dok = "STORNO" =>
            \/ Pise(v) /\ radnik[v].dok = "STORNO" /\ radnik'[v].udaljeni = radnik[v].udaljeni
            \/ \A l \in Od("STORNO") : Potvrdjen(l) => l = radnik'[v].udaljeni
      BY <1>0, <1>5 DEF Pise
    <2> QED BY <2>1, <1>1, StornoAgencijeOstaje DEF ProdajaInv
  <1> QED BY <1>1, <1>11, <1>12, DokumentiIsti DEF ProdajaInv

LEMMA KreirajOcuva ==
  ASSUME ProdajaInv, NEW w \in Radnik, Kreiraj(w)
  PROVE  ProdajaInv' /\ DokumentiNaprijed
  <1>0. PICK k \in Kljuc : k = <<radnik[w].dok, radnik[w].kljuc>>
    BY PosaoFakti
  <1>1. radnik[w].pc = "kreiraj" /\ Kreira(w) /\ kanal' = kanal /\ dok' = dok /\ promet' = promet /\ nalog' = nalog
    BY DEF Kreiraj, Kod, knjige
  <1>2. servis' \in {servis, Kreirano(k, radnik[w].verzija)}
    BY <1>0 DEF Kreiraj
  <1>3. /\ SamoServis
        /\ \A l \in Od("STORNO") : Potvrdjen(l)' => Potvrdjen(l)
    BY <1>0, <1>1, <1>2, KreiranjeServisa
  <1>4. CASE servis' = Kreirano(k, radnik[w].verzija) /\ Odgovor(w, k, TRUE)
    <2>1. servis'[k].stanje # "NEMA"
      <3>1. servis \in [Kljuc -> Udaljeni]
        BY DEF ProdajaInv, ProdajaTipovi
      <3> QED BY <3>1, <1>4 DEF Kreirano
    <2>2. k \in Od(radnik[w].dok) /\ (JedanKljuc => k = <<radnik[w].dok, 0>>)
      BY <1>0, <1>1, PosaoFakti DEF PosaoOK
    <2>3. Kasa /\ ~Portal /\ radnik[w].dok = "STORNO" => \A l \in Od("STORNO") : ~Potvrdjen(l)
      <3> SUFFICES ASSUME Kasa, ~Portal, radnik[w].dok = "STORNO", NEW l \in Od("STORNO"), Potvrdjen(l) PROVE FALSE
        OBVIOUS
      <3>1. l = radnik[w].udaljeni
        BY <1>1 DEF ProdajaInv, StornoAgencije, Pise
      <3>2. radnik[w].udaljeni = Nema
        BY <1>1 DEF Kreira
      <3> QED BY <3>1, <3>2, KljucTip DEF Od
    <2> QED BY <1>1, <1>3, <1>4, <2>1, <2>2, <2>3, OdgovorNapreduje
  <1>5. CASE Idi(w, "promasaj")
    BY <1>1, <1>3, <1>5, IdiNapreduje
  <1> QED BY <1>0, <1>4, <1>5 DEF Kreiraj

LEMMA ServisIsti ==
  ASSUME ProdajaInv, servis' = servis, kanal' = kanal, dok' = dok, promet' = promet, nalog' = nalog
  PROVE  SamoServis /\ \A l \in Od("STORNO") : Potvrdjen(l)' => Potvrdjen(l)
  BY DEF ProdajaInv, ProdajaTipovi, SamoServis, ServisRaste, Potvrdjen

LEMMA PregledajOcuva ==
  ASSUME ProdajaInv, NEW w \in Radnik, Pregledaj(w)
  PROVE  ProdajaInv' /\ DokumentiNaprijed
  <1>0. PICK k \in Kljuc \cup {Nema} : k = radnik[w].udaljeni
    BY PosaoFakti
  <1>1. radnik[w].pc = "kreiraj" /\ k # Nema /\ kanal' = kanal /\ dok' = dok /\ promet' = promet /\ nalog' = nalog
        /\ servis' = servis
    BY <1>0 DEF Pregledaj, Kod, knjige, Kreira
  <1>2. SamoServis /\ \A l \in Od("STORNO") : Potvrdjen(l)' => Potvrdjen(l)
    BY <1>1, ServisIsti
  <1>3. CASE Odgovor(w, k, FALSE)
    <2>1. k \in Od(radnik[w].dok) /\ (JedanKljuc => k = <<radnik[w].dok, 0>>) /\ servis'[k].stanje # "NEMA"
      BY <1>0, <1>1, PosaoFakti DEF PosaoOK, VezaOK
    <2>2. Kasa /\ ~Portal /\ radnik[w].dok = "STORNO" => \A l \in Od("STORNO") : Potvrdjen(l) => l = k
      BY <1>0, <1>1 DEF ProdajaInv, StornoAgencije, Pise
    <2> QED BY <1>1, <1>2, <1>3, <2>1, <2>2, OdgovorNapreduje
  <1>4. CASE Idi(w, "promasaj")
    BY <1>1, <1>2, <1>4, IdiNapreduje
  <1> QED BY <1>0, <1>3, <1>4 DEF Pregledaj

LEMMA FiskalizujOcuva ==
  ASSUME ProdajaInv, NEW w \in Radnik, Fiskalizuj(w)
  PROVE  ProdajaInv' /\ DokumentiNaprijed
  <1>0. PICK d \in Dokument, k \in Kljuc \cup {Nema} : d = radnik[w].dok /\ k = radnik[w].udaljeni
    BY PosaoFakti
  <1>1. radnik[w].pc = "fiskalizuj" /\ kanal' = kanal /\ dok' = dok /\ promet' = promet /\ nalog' = nalog
        /\ servis' \in {servis, Fiskalizovano(k)}
    BY <1>0 DEF Fiskalizuj, Kod, knjige
  <1>2. ProdajaTipovi /\ PosaoOK(w) /\ KanalPosla(w) /\ k \in Kljuc /\ k \in Od(d) /\ servis[k].stanje # "NEMA"
    BY <1>0, <1>1, PosaoFakti, KljucTip DEF PosaoOK, VezaOK, Od
  <1>3. servis' = servis \/ servis' = [servis EXCEPT ![k].stanje = "FISKALIZOVAN"]
    BY <1>1 DEF Fiskalizovano
  <1>4. \A o \in Udaljeni : LET n == [o EXCEPT !.stanje = "FISKALIZOVAN"] IN
          n \in Udaljeni /\ n.stanje = "FISKALIZOVAN" /\ n.verzija = o.verzija
    BY DEF Udaljeni
  <1>5. servis \in [Kljuc -> Udaljeni]
    BY <1>2 DEF ProdajaTipovi
  <1>6. /\ servis' \in [Kljuc -> Udaljeni]
        /\ \A l \in Kljuc : l # k => servis'[l] = servis[l]
        /\ servis'[k] = servis[k] \/ servis'[k].stanje = "FISKALIZOVAN"
        /\ servis'[k].verzija = servis[k].verzija
        /\ servis' # servis => servis'[k].stanje = "FISKALIZOVAN"
    <2> DEFINE n == [servis[k] EXCEPT !.stanje = "FISKALIZOVAN"]
    <2>1. n \in Udaljeni /\ n.stanje = "FISKALIZOVAN" /\ n.verzija = servis[k].verzija
      BY <1>2, <1>4, <1>5
    <2>2. servis' = servis \/ servis' = [servis EXCEPT ![k] = n]
      BY <1>3
    <2> HIDE DEF n
    <2> QED BY <1>2, <1>5, <2>1, <2>2
  <1>7. SamoServis
    <2>1. ServisRaste
      BY <1>2, <1>6 DEF ServisRaste
    <2>2. \A l \in Kljuc : ~(servis[l].stanje = "NEMA" /\ servis'[l].stanje # "NEMA")
      BY <1>2, <1>6
    <2> QED BY <1>1, <1>6, <2>1, <2>2 DEF SamoServis
  <1>8. \A l \in Kljuc : Potvrdjen(l)' => Potvrdjen(l) \/ l = k
    BY <1>6 DEF Potvrdjen
  <1>9. radnik'[w].dok = d /\ radnik'[w].udaljeni = k /\ \A v \in Radnik \ {w} : radnik'[v] = radnik[v]
    <2>1. CASE Idi(w, "sacuvaj")
      BY <1>0, <1>2, <2>1, IdiOcuva
    <2>2. CASE Idi(w, "promasaj")
      BY <1>0, <1>2, <2>2, IdiOcuva
    <2> QED BY <2>1, <2>2 DEF Fiskalizuj
  <1>10. StornoAgencije' \/ \A l \in Od("STORNO") : Potvrdjen(l)' => Potvrdjen(l)
    <2>1. CASE d # "STORNO"
      BY <1>2, <1>8, <2>1 DEF Od
    <2>2. CASE d = "STORNO"
      <3> SUFFICES ASSUME Kasa, ~Portal PROVE StornoAgencije'
        BY <1>1 DEF StornoAgencije, Kasa, Portal
      <3>1. \A l \in Od("STORNO") : Potvrdjen(l)' => l = k
        BY <1>0, <1>1, <1>8, <2>2 DEF ProdajaInv, StornoAgencije, Pise, Od
      <3>2. dok'["STORNO"].status = "PENDING"
        BY <1>0, <1>1, <1>2, <2>2 DEF PosaoOK, Pise
      <3>3. ASSUME NEW v \in Radnik, Pise(v)', radnik'[v].dok = "STORNO" PROVE v = w
        BY <1>0, <1>1, <1>9, <2>2, <3>2, <3>3 DEF ProdajaInv, PosloviOK, JedanPise, Pise
      <3> QED BY <1>9, <3>1, <3>2, <3>3 DEF StornoAgencije, Od
    <2> QED BY <2>1, <2>2
  <1>11. CASE servis' = Fiskalizovano(k) /\ Idi(w, "sacuvaj")
    <2>1. servis'[radnik[w].udaljeni].stanje = "FISKALIZOVAN"
      BY <1>0, <1>2, <1>4, <1>5, <1>11 DEF Fiskalizovano
    <2> QED BY <1>1, <1>7, <1>10, <1>11, <2>1, IdiNapreduje
  <1>12. CASE Idi(w, "promasaj")
    BY <1>1, <1>7, <1>10, <1>12, IdiNapreduje
  <1> QED BY <1>0, <1>11, <1>12 DEF Fiskalizuj

LEMMA NeSacuvajOcuva ==
  ASSUME ProdajaInv, NEW w \in Radnik, NeSacuvaj(w)
  PROVE  ProdajaInv' /\ DokumentiNaprijed
  <1>1. radnik[w].pc \in {"sacuvaj", "lager"} /\ kanal' = kanal /\ dok' = dok /\ promet' = promet /\ nalog' = nalog
        /\ servis' = servis
    BY DEF NeSacuvaj, knjige
  <1>2. SamoServis /\ \A l \in Od("STORNO") : Potvrdjen(l)' => Potvrdjen(l)
    BY <1>1, ServisIsti
  <1>3. CASE radnik[w].nacin = "storno_fakture"
    <2>1. Idi(w, "promasaj")
      BY <1>3 DEF NeSacuvaj
    <2>2. ~Kasa
      BY <1>1, <1>3, PosaoFakti, KanalTip DEF PosaoOK, KanalPosla, ProdajaTipovi
    <2> QED BY <1>1, <1>2, <2>1, <2>2, IdiNapreduje
  <1>4. CASE radnik[w].nacin # "storno_fakture"
    <2>1. Idi(w, "cuvaj")
      BY <1>4 DEF NeSacuvaj
    <2> QED BY <1>1, <1>2, <1>4, <2>1, IdiNapreduje
  <1> QED BY <1>3, <1>4

\* A request that ends leaves the rest as it is.
LEMMA PrekidOcuva ==
  ASSUME ProdajaInv, NEW w \in Radnik, Prekid(w)
  PROVE  ProdajaInv' /\ DokumentiNaprijed
  <1>1. kanal' = kanal /\ dok' = dok /\ promet' = promet /\ nalog' = nalog /\ servis' = servis /\ Zavrsi(w)
    BY DEF Prekid, knjige
  <1>2. SamoServis /\ \A l \in Od("STORNO") : Potvrdjen(l)' => Potvrdjen(l)
    BY <1>1, ServisIsti
  <1>3. /\ radnik' \in [Radnik -> Poslovi]
        /\ \A v \in Radnik \ {w} : radnik'[v] = radnik[v]
        /\ ~Pise(w)' /\ PosaoOK(w)'
    BY <1>1, ZavrsiOcuva DEF ProdajaInv
  <1>4. ProdajaTipovi' /\ DokumentiOK' /\ PosloviOK' /\ KnjigeOK'
    BY <1>2, <1>3, RadnikNapreduje
  <1>5. \A v \in Radnik : Pise(v)' /\ radnik'[v].dok = "STORNO" =>
          Pise(v) /\ radnik[v].dok = "STORNO" /\ radnik'[v].udaljeni = radnik[v].udaljeni
    BY <1>3 DEF Pise
  <1>6. StornoAgencije'
    BY <1>1, <1>2, <1>5, StornoAgencijeOstaje DEF ProdajaInv
  <1> QED BY <1>1, <1>4, <1>6, DokumentiIsti DEF ProdajaInv

LEMMA UcitajOcuva ==
  ASSUME ProdajaInv, NEW w \in Radnik, Ucitaj(w)
  PROVE  ProdajaInv' /\ DokumentiNaprijed
  <1>0. PICK d \in Dokument : d = radnik[w].dok
    BY PosaoFakti
  <1> DEFINE n == [radnik[w] EXCEPT !.pc = "kreiraj", !.udaljeni = dok[d].udaljeni, !.verzija = dok[d].verzija]
  <1>1. radnik[w].pc = "ucitaj" /\ kanal' = kanal /\ dok' = dok /\ promet' = promet /\ nalog' = nalog
        /\ servis' = servis /\ radnik' = [radnik EXCEPT ![w] = n]
    BY <1>0 DEF Ucitaj, Kod, knjige, Moj
  <1>2. ProdajaTipovi /\ PosaoOK(w) /\ KanalPosla(w) /\ radnik[w] \in Poslovi /\ DokumentOK(d)
    BY <1>0, <1>1, PosaoFakti DEF PosaoOK
  <1>3. Kancelarija /\ ~Kasa /\ ~Kasa'
    BY <1>1, <1>2, KanalTip DEF KanalPosla, ProdajaTipovi, Kasa
  <1>4. dok[d].udaljeni \in Kljuc \cup {Nema} /\ dok[d].verzija \in {0, 1}
    <2>1. dok[d] \in Dokumenti
      BY <1>2 DEF ProdajaTipovi
    <2> QED BY <2>1 DEF Dokumenti
  <1>5. n \in Poslovi
    BY <1>2, <1>4 DEF n, Poslovi
  <1>6. n.pc = "kreiraj" /\ n.nacin = radnik[w].nacin /\ n.dok = d
    BY <1>0, <1>2 DEF n, Poslovi
  <1>7. n.kljuc = radnik[w].kljuc /\ n.udaljeni = dok[d].udaljeni /\ n.verzija = dok[d].verzija
    BY <1>2 DEF n, Poslovi
  <1> HIDE DEF n
  <1>8. radnik' \in [Radnik -> Poslovi] /\ radnik'[w] = n /\ \A v \in Radnik \ {w} : radnik'[v] = radnik[v]
    BY <1>1, <1>2, <1>5 DEF ProdajaTipovi
  <1>9. SamoServis /\ \A l \in Od("STORNO") : Potvrdjen(l)' => Potvrdjen(l)
    BY <1>1, ServisIsti
  <1>10. (Kancelarija' <=> Kancelarija) /\ (JedanKljuc' <=> JedanKljuc)
    BY <1>1 DEF Kancelarija, JedanKljuc, Portal
  <1>11. KanalPosla(w)'
    BY <1>0, <1>1, <1>2, <1>3, <1>6, <1>8, <1>10 DEF KanalPosla
  <1>12. VezaOK(d, dok[d].udaljeni)'
    BY <1>1, <1>2, <1>10 DEF DokumentOK, VezaOK, Od
  <1>13. PosaoOK(w)'
    BY <1>0, <1>1, <1>2, <1>3, <1>6, <1>7, <1>8, <1>10, <1>11, <1>12 DEF PosaoOK
  <1>14. ProdajaTipovi' /\ DokumentiOK' /\ PosloviOK' /\ KnjigeOK'
    BY <1>3, <1>8, <1>9, <1>13, RadnikNapreduje
  <1>15. StornoAgencije'
    BY <1>3 DEF StornoAgencije
  <1> QED BY <1>1, <1>14, <1>15, DokumentiIsti DEF ProdajaInv

---------------------------------------------------------------------------
(* A document is claimed for an attempt *)

\* What writes to a document, or to a document and its original, leave.
Pisanje == kanal' = kanal /\ servis' = servis /\ dok' \in [Dokument -> Dokumenti]
Zahvat(w, d) ==
  /\ Pisanje /\ promet' = promet /\ nalog' = nalog
  /\ \A e \in Dokument \ {d} : dok'[e] = dok[e]
  /\ dok'[d].status = "PENDING" /\ dok'[d].obrada = dok[d].obrada
  /\ dok'[d].udaljeni = dok[d].udaljeni /\ dok'[d].verzija = dok[d].verzija
  /\ dok[d].status \notin Potvrdjena /\ (Kasa => dok[d].status # "PENDING")
  /\ d = "STORNO" => dok["RACUN"].status \in Potvrdjena
  /\ radnik' \in [Radnik -> Poslovi] /\ \A v \in Radnik \ {w} : radnik'[v] = radnik[v]
  /\ radnik'[w].pc \in {"kreiraj", "ucitaj"} /\ radnik'[w].dok = d
  /\ radnik'[w].verzija = dok[d].verzija /\ radnik'[w].udaljeni \in {Nema, dok[d].udaljeni}
  /\ (Kasa /\ d = "STORNO" => radnik'[w].udaljeni = dok[d].udaljeni \/ dok[d].status = "NEMA")
  /\ (JedanKljuc => radnik'[w].kljuc = 0)
  /\ KanalPosla(w)'

LEMMA ZahvatOcuva ==
  ASSUME ProdajaInv, NEW w \in Radnik, NEW d \in Dokument, Zahvat(w, d)
  PROVE  ProdajaInv' /\ DokumentiNaprijed
  <1>0. PICK u, q : u = dok[d].udaljeni /\ q = radnik'[w].udaljeni
    OBVIOUS
  <1>1. ProdajaTipovi /\ ProdajaTipovi'
    BY DEF Zahvat, Pisanje, ProdajaInv, ProdajaTipovi
  <1>2. (Kasa' <=> Kasa) /\ (Kancelarija' <=> Kancelarija) /\ (Portal' <=> Portal) /\ (JedanKljuc' <=> JedanKljuc)
        /\ (Agencijska' <=> Agencijska)
    BY DEF Zahvat, Pisanje, Kasa, Kancelarija, Portal, JedanKljuc, Agencijska
  <1>3. DokumentOK(d) /\ StornoOK
    BY DEF ProdajaInv, DokumentiOK
  <1>4. dok[d].obrada = "OTVOREN" /\ ~(promet[d] > 0) /\ ~(nalog[d] > 0)
    BY <1>3 DEF DokumentOK, Zahvat
  <1>5. ASSUME NEW e \in Dokument PROVE DokumentOK(e)'
    <2>1. CASE e = d
      <3>1. VezaOK(d, u)'
        BY <1>0, <1>2, <1>3 DEF DokumentOK, VezaOK, Od, Zahvat, Pisanje
      <3> QED BY <2>1, <1>0, <1>2, <1>3, <1>4, <3>1 DEF DokumentOK, Od, Zahvat, Pisanje, PrijeZahtjeva, Potvrdjena
    <2>2. CASE e # d
      BY <2>2, DokumentOstaje DEF Zahvat, Pisanje, ProdajaInv, DokumentiOK
    <2> QED BY <2>1, <2>2
  <1>6. StornoOK'
    BY <1>2, <1>3 DEF StornoOK, Zahvat, Potvrdjena, Fiskalizovan, Dokument
  <1>7. Naprijed
    BY DEF Naprijed, ServisRaste, DokumentiNaprijed, Zahvat, Pisanje, PrijeZahtjeva
  <1>8. VezaOK(d, q)'
    BY <1>0, <1>2, <1>3 DEF DokumentOK, VezaOK, Od, Zahvat, Pisanje
  <1>9. PosaoOK(w)'
    BY <1>0, <1>2, <1>8 DEF PosaoOK, Zahvat, Pisanje, PrijeZahtjeva, Potvrdjena, Pise
  <1>10. ASSUME NEW v \in Radnik, v # w PROVE PosaoOK(v)' /\ (Kasa /\ Pise(v) => radnik[v].dok # d)
    <2>1. PosaoOK(v) /\ radnik[v].dok \in Dokument
      BY PosaoFakti
    <2>2. PosaoOK(v)'
      BY <1>1, <1>3, <1>6, <1>7, <2>1, <1>10, PosaoOstaje DEF Zahvat
    <2>3. Kasa /\ Pise(v) => radnik[v].dok # d
      BY <2>1 DEF PosaoOK, Pise, Zahvat
    <2> QED BY <2>2, <2>3
  <1>11. JedanPise'
    <2> SUFFICES ASSUME Kasa, NEW z \in Radnik, NEW v \in Radnik, z # v, Pise(z)', Pise(v)',
                        radnik'[z].dok = radnik'[v].dok, dok'[radnik'[z].dok].status = "PENDING"
                 PROVE  FALSE
      BY <1>2 DEF JedanPise
    <2>1. CASE z = w
      BY <2>1, <1>10 DEF Zahvat, Pise
    <2>2. CASE v = w
      BY <2>2, <1>10 DEF Zahvat, Pise
    <2>3. CASE z # w /\ v # w
      <3>1. radnik'[z] = radnik[z] /\ radnik'[v] = radnik[v] /\ Pise(z) /\ Pise(v)
        BY <2>3 DEF Zahvat, Pise
      <3>2. radnik[z].dok \in Dokument /\ radnik[z].dok # d
        BY <2>3, <3>1, <1>10, PosaoFakti
      <3> QED BY <3>1, <3>2 DEF ProdajaInv, PosloviOK, JedanPise, Zahvat
    <2> QED BY <2>1, <2>2, <2>3
  <1>12. StornoAgencije'
    <2>1. \A k \in Od("STORNO") : Potvrdjen(k)' => Potvrdjen(k)
      BY DEF Potvrdjen, Zahvat, Pisanje
    <2>2. dok'["STORNO"].status # "PENDING" =>
            dok["STORNO"].status # "PENDING" /\ dok'["STORNO"].udaljeni = dok["STORNO"].udaljeni
      BY DEF Zahvat, Dokument
    <2>3. Kasa /\ ~Portal /\ d = "STORNO" =>
            \A k \in Od("STORNO") : Potvrdjen(k) => k = radnik'[w].udaljeni
      BY <1>3 DEF ProdajaInv, StornoAgencije, Zahvat, DokumentOK, Potvrdjen, PrijeZahtjeva
    <2>4. Kasa /\ ~Portal => \A v \in Radnik : Pise(v)' /\ radnik'[v].dok = "STORNO" =>
            \/ Pise(v) /\ radnik[v].dok = "STORNO" /\ radnik'[v].udaljeni = radnik[v].udaljeni
            \/ \A k \in Od("STORNO") : Potvrdjen(k) => k = radnik'[v].udaljeni
      BY <2>3 DEF Pise, Zahvat
    <2> QED BY <2>1, <2>2, <2>4, StornoAgencijeOstaje DEF ProdajaInv, Zahvat, Pisanje
  <1>13. KnjigeOK'
    <2>1. \A e \in Dokument : dok'[e].obrada = dok[e].obrada
      BY DEF Zahvat
    <2> QED BY <1>2, <2>1 DEF KnjigeOK, ProdajaInv, Zahvat, Dokument
  <1> QED BY <1>7, <1>1, <1>5, <1>6, <1>9, <1>10, <1>11, <1>12, <1>13 DEF Naprijed, ProdajaInv, DokumentiOK, PosloviOK

LEMMA PokreniOcuva ==
  ASSUME ProdajaTipovi, NEW w \in Radnik, NEW pc \in {"kreiraj", "ucitaj"},
         NEW nacin \in {"prodaja", "storno", "ponovi_portal", "ponovi_agencija", "faktura", "storno_fakture"},
         NEW d \in Dokument, NEW n \in Nat, NEW k \in 0..MaxPokusaja, NEW u \in Kljuc \cup {Nema},
         Pokreni(w, pc, nacin, d, n, k, u)
  PROVE  /\ radnik[w].pc = "miran"
         /\ radnik' \in [Radnik -> Poslovi] /\ \A v \in Radnik \ {w} : radnik'[v] = radnik[v]
         /\ radnik'[w].pc = pc /\ radnik'[w].dok = d /\ radnik'[w].nacin = nacin
         /\ radnik'[w].verzija = dok[d].verzija /\ radnik'[w].udaljeni = u /\ radnik'[w].kljuc = k
  <1> DEFINE z == [pc |-> pc, nacin |-> nacin, dok |-> d, broj |-> n, kljuc |-> k,
                   udaljeni |-> u, vidjen |-> FALSE, verzija |-> dok[d].verzija]
  <1>1. radnik' = [radnik EXCEPT ![w] = z] /\ radnik[w].pc = "miran"
    BY DEF Pokreni, Kod
  <1>2. dok[d].verzija \in {0, 1}
    BY DEF ProdajaTipovi, Dokumenti
  <1>3. z \in Poslovi
    BY <1>2 DEF z, Poslovi
  <1>4. z.pc = pc /\ z.dok = d /\ z.nacin = nacin /\ z.verzija = dok[d].verzija /\ z.udaljeni = u /\ z.kljuc = k
    BY DEF z
  <1> HIDE DEF z
  <1> QED BY <1>1, <1>3, <1>4 DEF ProdajaTipovi

LEMMA DokumentiZahvat ==
  ASSUME ProdajaTipovi, NEW d \in Dokument, NEW n \in Nat, NEW b \in BOOLEAN,
         \/ dok' = [dok EXCEPT ![d].status = "PENDING", ![d].pokusaji = n]
         \/ dok' = [dok EXCEPT ![d].status = "PENDING", ![d].svjez = b, ![d].pokusaji = n]
  PROVE  /\ dok' \in [Dokument -> Dokumenti]
         /\ \A e \in Dokument \ {d} : dok'[e] = dok[e]
         /\ dok'[d].status = "PENDING" /\ dok'[d].obrada = dok[d].obrada
         /\ dok'[d].udaljeni = dok[d].udaljeni /\ dok'[d].verzija = dok[d].verzija
  <1> DEFINE m == [dok[d] EXCEPT !.status = "PENDING", !.pokusaji = n]
             o == [dok[d] EXCEPT !.status = "PENDING", !.svjez = b, !.pokusaji = n]
  <1>1. dok[d] \in Dokumenti
    BY DEF ProdajaTipovi
  <1>2. dok' = [dok EXCEPT ![d] = m] \/ dok' = [dok EXCEPT ![d] = o]
    BY DEF ProdajaTipovi
  <1>3. m \in Dokumenti /\ o \in Dokumenti
    BY <1>1 DEF m, o, Dokumenti
  <1>4. m.status = "PENDING" /\ m.obrada = dok[d].obrada /\ m.udaljeni = dok[d].udaljeni /\ m.verzija = dok[d].verzija
    BY <1>1 DEF m, Dokumenti
  <1>5. o.status = "PENDING" /\ o.obrada = dok[d].obrada /\ o.udaljeni = dok[d].udaljeni /\ o.verzija = dok[d].verzija
    BY <1>1 DEF o, Dokumenti
  <1> HIDE DEF m, o
  <1> QED BY <1>2, <1>3, <1>4, <1>5 DEF ProdajaTipovi

LEMMA ProdajOcuva ==
  ASSUME ProdajaInv, NEW w \in Radnik, Prodaj(w)
  PROVE  ProdajaInv' /\ DokumentiNaprijed
  <1>1. /\ Kasa /\ dok["RACUN"].status = "NEMA"
        /\ dok' = [dok EXCEPT !["RACUN"].status = "PENDING", !["RACUN"].pokusaji = 1]
        /\ Pokreni(w, "kreiraj", "prodaja", "RACUN", 1, 0, Nema)
        /\ kanal' = kanal /\ promet' = promet /\ nalog' = nalog /\ servis' = servis
    BY DEF Prodaj, knjige
  <1>2. ProdajaTipovi /\ "RACUN" \in Dokument /\ Kasa' /\ ~Kancelarija
    BY <1>1, KanalTip DEF ProdajaInv, ProdajaTipovi, Dokument, Kasa
  <1>3. /\ dok' \in [Dokument -> Dokumenti]
        /\ \A e \in Dokument \ {"RACUN"} : dok'[e] = dok[e]
        /\ dok'["RACUN"].status = "PENDING" /\ dok'["RACUN"].obrada = dok["RACUN"].obrada
        /\ dok'["RACUN"].udaljeni = dok["RACUN"].udaljeni /\ dok'["RACUN"].verzija = dok["RACUN"].verzija
    BY <1>1, <1>2, DokumentiZahvat
  <1>4. /\ radnik' \in [Radnik -> Poslovi] /\ \A v \in Radnik \ {w} : radnik'[v] = radnik[v]
        /\ radnik'[w].pc = "kreiraj" /\ radnik'[w].dok = "RACUN" /\ radnik'[w].nacin = "prodaja"
        /\ radnik'[w].verzija = dok["RACUN"].verzija /\ radnik'[w].udaljeni = Nema /\ radnik'[w].kljuc = 0
    BY <1>1, <1>2, KljucTip, PokreniOcuva
  <1>5. KanalPosla(w)'
    BY <1>2, <1>4 DEF KanalPosla
  <1> QED BY <1>1, <1>2, <1>3, <1>4, <1>5, ZahvatOcuva DEF Zahvat, Pisanje, Potvrdjena

LEMMA StornirajOcuva ==
  ASSUME ProdajaInv, NEW w \in Radnik, Storniraj(w)
  PROVE  ProdajaInv' /\ DokumentiNaprijed
  <1>1. /\ Kasa /\ dok["STORNO"].status = "NEMA" /\ dok["RACUN"].status \in Potvrdjena
        /\ dok' = [dok EXCEPT !["STORNO"].status = "PENDING", !["STORNO"].pokusaji = 1]
        /\ Pokreni(w, "kreiraj", "storno", "STORNO", 1, 0, Nema)
        /\ kanal' = kanal /\ promet' = promet /\ nalog' = nalog /\ servis' = servis
    BY DEF Storniraj, knjige, Fiskalizovan, Potvrdjena
  <1>2. ProdajaTipovi /\ "STORNO" \in Dokument /\ Kasa' /\ ~Kancelarija
    BY <1>1, KanalTip DEF ProdajaInv, ProdajaTipovi, Dokument, Kasa
  <1>3. /\ dok' \in [Dokument -> Dokumenti]
        /\ \A e \in Dokument \ {"STORNO"} : dok'[e] = dok[e]
        /\ dok'["STORNO"].status = "PENDING" /\ dok'["STORNO"].obrada = dok["STORNO"].obrada
        /\ dok'["STORNO"].udaljeni = dok["STORNO"].udaljeni /\ dok'["STORNO"].verzija = dok["STORNO"].verzija
    BY <1>1, <1>2, DokumentiZahvat
  <1>4. /\ radnik' \in [Radnik -> Poslovi] /\ \A v \in Radnik \ {w} : radnik'[v] = radnik[v]
        /\ radnik'[w].pc = "kreiraj" /\ radnik'[w].dok = "STORNO" /\ radnik'[w].nacin = "storno"
        /\ radnik'[w].verzija = dok["STORNO"].verzija /\ radnik'[w].udaljeni = Nema /\ radnik'[w].kljuc = 0
    BY <1>1, <1>2, KljucTip, PokreniOcuva
  <1>5. KanalPosla(w)'
    BY <1>2, <1>4 DEF KanalPosla
  <1> QED BY <1>1, <1>2, <1>3, <1>4, <1>5, ZahvatOcuva DEF Zahvat, Pisanje, Potvrdjena

LEMMA PonoviOcuva ==
  ASSUME ProdajaInv, NEW w \in Radnik, NEW d \in Dokument,
         \/ d = "RACUN" /\ PonoviPortal(w)
         \/ PonoviAgencija(w, d)
  PROVE  ProdajaInv' /\ DokumentiNaprijed
  <1>1. PICK nacin \in {"ponovi_portal", "ponovi_agencija"}, k \in {0, dok[d].pokusaji + 1} :
          /\ Ponovi(w, d, nacin, k)
          /\ nacin = "ponovi_portal" => d = "RACUN"
          /\ Portal => k = 0
    BY DEF PonoviPortal, PonoviAgencija
  <1>2. /\ Kasa /\ dok[d].status = "FAILED" /\ dok[d].pokusaji < MaxPokusaja
        /\ dok' = [dok EXCEPT ![d].status = "PENDING", ![d].pokusaji = dok[d].pokusaji + 1]
        /\ Pokreni(w, "kreiraj", nacin, d, dok[d].pokusaji + 1, k, dok[d].udaljeni)
        /\ kanal' = kanal /\ promet' = promet /\ nalog' = nalog /\ servis' = servis
    BY <1>1 DEF Ponovi, knjige
  <1>3. ProdajaTipovi /\ Kasa' /\ ~Kancelarija /\ StornoOK
    BY <1>2, KanalTip DEF ProdajaInv, ProdajaTipovi, Kasa, DokumentiOK
  <1>4. dok[d].pokusaji \in Nat /\ dok[d].pokusaji + 1 \in Nat /\ dok[d].udaljeni \in Kljuc \cup {Nema}
    <2>1. dok[d] \in Dokumenti
      BY <1>3 DEF ProdajaTipovi
    <2> QED BY <2>1 DEF Dokumenti
  <1>5. k \in 0..MaxPokusaja
    BY <1>2, <1>4, FiskalPretpostavke
  <1>6. /\ dok' \in [Dokument -> Dokumenti]
        /\ \A e \in Dokument \ {d} : dok'[e] = dok[e]
        /\ dok'[d].status = "PENDING" /\ dok'[d].obrada = dok[d].obrada
        /\ dok'[d].udaljeni = dok[d].udaljeni /\ dok'[d].verzija = dok[d].verzija
    BY <1>2, <1>3, <1>4, DokumentiZahvat
  <1>7. /\ radnik' \in [Radnik -> Poslovi] /\ \A v \in Radnik \ {w} : radnik'[v] = radnik[v]
        /\ radnik'[w].pc = "kreiraj" /\ radnik'[w].dok = d /\ radnik'[w].nacin = nacin
        /\ radnik'[w].verzija = dok[d].verzija /\ radnik'[w].udaljeni = dok[d].udaljeni /\ radnik'[w].kljuc = k
    BY <1>2, <1>3, <1>4, <1>5, PokreniOcuva
  <1>8. KanalPosla(w)'
    BY <1>1, <1>3, <1>7 DEF KanalPosla
  <1>9. d = "STORNO" => dok["RACUN"].status \in Potvrdjena
    BY <1>2, <1>3 DEF StornoOK
  <1> QED BY <1>1, <1>2, <1>3, <1>6, <1>7, <1>8, <1>9, ZahvatOcuva DEF Zahvat, Pisanje, Potvrdjena, JedanKljuc

LEMMA ZatraziFiskalizacijuOcuva ==
  ASSUME ProdajaInv, NEW w \in Radnik, ZatraziFiskalizaciju(w)
  PROVE  ProdajaInv' /\ DokumentiNaprijed
  <1>1. /\ Kancelarija /\ dok["RACUN"].status \in {"DRAFT", "FAILED", "PENDING"}
        /\ dok' = [dok EXCEPT !["RACUN"].status = "PENDING", !["RACUN"].svjez = TRUE,
                              !["RACUN"].pokusaji = dok["RACUN"].pokusaji + 1]
        /\ Pokreni(w, "ucitaj", "faktura", "RACUN", dok["RACUN"].pokusaji + 1, 0, Nema)
        /\ kanal' = kanal /\ promet' = promet /\ nalog' = nalog /\ servis' = servis
    BY DEF ZatraziFiskalizaciju, knjige, Zakup, Slobodan
  <1>2. ProdajaTipovi /\ "RACUN" \in Dokument /\ Kancelarija' /\ ~Kasa
    BY <1>1, KanalTip DEF ProdajaInv, ProdajaTipovi, Dokument, Kancelarija
  <1>3. dok["RACUN"].pokusaji + 1 \in Nat
    <2>1. dok["RACUN"] \in Dokumenti
      BY <1>2 DEF ProdajaTipovi
    <2> QED BY <2>1 DEF Dokumenti
  <1>4. /\ dok' \in [Dokument -> Dokumenti]
        /\ \A e \in Dokument \ {"RACUN"} : dok'[e] = dok[e]
        /\ dok'["RACUN"].status = "PENDING" /\ dok'["RACUN"].obrada = dok["RACUN"].obrada
        /\ dok'["RACUN"].udaljeni = dok["RACUN"].udaljeni /\ dok'["RACUN"].verzija = dok["RACUN"].verzija
    BY <1>1, <1>2, <1>3, DokumentiZahvat
  <1>5. /\ radnik' \in [Radnik -> Poslovi] /\ \A v \in Radnik \ {w} : radnik'[v] = radnik[v]
        /\ radnik'[w].pc = "ucitaj" /\ radnik'[w].dok = "RACUN" /\ radnik'[w].nacin = "faktura"
        /\ radnik'[w].verzija = dok["RACUN"].verzija /\ radnik'[w].udaljeni = Nema /\ radnik'[w].kljuc = 0
    BY <1>1, <1>2, <1>3, KljucTip, PokreniOcuva
  <1>6. KanalPosla(w)'
    BY <1>2, <1>5 DEF KanalPosla
  <1> QED BY <1>1, <1>2, <1>4, <1>5, <1>6, ZahvatOcuva DEF Zahvat, Pisanje, Potvrdjena

LEMMA ZatraziStornoOcuva ==
  ASSUME ProdajaInv, NEW w \in Radnik, ZatraziStorno(w)
  PROVE  ProdajaInv' /\ DokumentiNaprijed
  <1>1. /\ Kancelarija /\ dok["STORNO"].status \in {"NEMA", "DRAFT", "FAILED", "PENDING"}
        /\ dok["RACUN"].status \in Potvrdjena
        /\ dok' = [dok EXCEPT !["STORNO"].status = "PENDING", !["STORNO"].svjez = TRUE,
                              !["STORNO"].pokusaji = dok["STORNO"].pokusaji + 1]
        /\ Pokreni(w, "kreiraj", "storno_fakture", "STORNO", dok["STORNO"].pokusaji + 1, 0,
                   dok["STORNO"].udaljeni)
        /\ kanal' = kanal /\ promet' = promet /\ nalog' = nalog /\ servis' = servis
    BY DEF ZatraziStorno, knjige, Zakup, Slobodan, Agencijska, Fiskalizovan, Potvrdjena
  <1>2. ProdajaTipovi /\ "STORNO" \in Dokument /\ Kancelarija' /\ ~Kasa
    BY <1>1, KanalTip DEF ProdajaInv, ProdajaTipovi, Dokument, Kancelarija
  <1>3. dok["STORNO"].pokusaji + 1 \in Nat /\ dok["STORNO"].udaljeni \in Kljuc \cup {Nema}
    <2>1. dok["STORNO"] \in Dokumenti
      BY <1>2 DEF ProdajaTipovi
    <2> QED BY <2>1 DEF Dokumenti
  <1>4. /\ dok' \in [Dokument -> Dokumenti]
        /\ \A e \in Dokument \ {"STORNO"} : dok'[e] = dok[e]
        /\ dok'["STORNO"].status = "PENDING" /\ dok'["STORNO"].obrada = dok["STORNO"].obrada
        /\ dok'["STORNO"].udaljeni = dok["STORNO"].udaljeni /\ dok'["STORNO"].verzija = dok["STORNO"].verzija
    BY <1>1, <1>2, <1>3, DokumentiZahvat
  <1>5. /\ radnik' \in [Radnik -> Poslovi] /\ \A v \in Radnik \ {w} : radnik'[v] = radnik[v]
        /\ radnik'[w].pc = "kreiraj" /\ radnik'[w].dok = "STORNO" /\ radnik'[w].nacin = "storno_fakture"
        /\ radnik'[w].verzija = dok["STORNO"].verzija /\ radnik'[w].udaljeni = dok["STORNO"].udaljeni
        /\ radnik'[w].kljuc = 0
    BY <1>1, <1>2, <1>3, KljucTip, PokreniOcuva
  <1>6. KanalPosla(w)'
    BY <1>2, <1>5 DEF KanalPosla
  <1> QED BY <1>1, <1>2, <1>4, <1>5, <1>6, ZahvatOcuva DEF Zahvat, Pisanje, Potvrdjena

---------------------------------------------------------------------------
(* A confirmed result is saved *)

StornoOriginala ==
  LET e == "RACUN" IN
  /\ dok'[e].status = "STORNO" /\ dok'[e].obrada = dok[e].obrada
  /\ dok'[e].udaljeni = dok[e].udaljeni /\ dok'[e].verzija = dok[e].verzija
Potvrda(w, d) ==
  /\ Pisanje /\ nalog' = nalog /\ promet' \in [Dokument -> Nat]
  /\ \A e \in Dokument \ {d} : promet'[e] = promet[e]
  /\ promet'[d] = promet[d] \/ (Kasa /\ promet'[d] = 1)
  /\ dok'[d].status = "FISCALIZED" /\ dok'[d].udaljeni = radnik[w].udaljeni
  /\ dok'[d].verzija = dok[d].verzija
  /\ dok'[d].obrada = dok[d].obrada \/ (Kasa /\ dok'[d].obrada = "ZAVRSEN")
  /\ \A e \in Dokument \ {d} :
       dok'[e] = dok[e] \/ (Kasa /\ d = "STORNO" /\ e = "RACUN" /\ StornoOriginala)
  /\ radnik[w].pc \in {"sacuvaj", "cuvaj"} /\ radnik[w].dok = d
  /\ radnik' \in [Radnik -> Poslovi] /\ \A v \in Radnik \ {w} : radnik'[v] = radnik[v]
  /\ \/ radnik'[w].pc = "miran"
     \/ /\ \/ radnik'[w].pc = "lager" /\ radnik[w].nacin = "prodaja"
           \/ radnik'[w].pc = "knjizenje"
           \/ radnik'[w].pc = "cuvaj_original" /\ Kasa /\ d = "STORNO"
        /\ radnik'[w].nacin = radnik[w].nacin /\ radnik'[w].dok = d /\ radnik'[w].kljuc = radnik[w].kljuc
        /\ radnik'[w].udaljeni = radnik[w].udaljeni /\ radnik'[w].vidjen = radnik[w].vidjen
        /\ radnik'[w].verzija = radnik[w].verzija

LEMMA PotvrdaOcuva ==
  ASSUME ProdajaInv, NEW w \in Radnik, NEW d \in Dokument, Potvrda(w, d)
  PROVE  ProdajaInv' /\ DokumentiNaprijed
  <1>0. PICK u \in Kljuc \cup {Nema} : u = radnik[w].udaljeni
    BY PosaoFakti
  <1>1. ProdajaTipovi /\ ProdajaTipovi'
    BY DEF Potvrda, Pisanje, ProdajaInv, ProdajaTipovi
  <1>2. (Kasa' <=> Kasa) /\ (Kancelarija' <=> Kancelarija) /\ (Portal' <=> Portal) /\ (JedanKljuc' <=> JedanKljuc)
        /\ (Agencijska' <=> Agencijska)
    BY DEF Potvrda, Pisanje, Kasa, Kancelarija, Portal, JedanKljuc, Agencijska
  <1>3. StornoOK /\ DokumentOK(d) /\ PosaoOK(w) /\ KanalPosla(w) /\ JedanPise /\ Pise(w)
    BY PosaoFakti DEF PosaoOK, Potvrda, ProdajaInv, PosloviOK, Pise
  <1>4. dok[d].status \notin PrijeZahtjeva /\ VezaOK(d, u) /\ Potvrdjen(u) /\ u # Nema
        /\ radnik[w].verzija = dok[d].verzija /\ (JedanKljuc => radnik[w].kljuc = 0)
    BY <1>0, <1>3 DEF PosaoOK, Potvrda
  <1>5. dok[d].status \in Potvrdjena => dok[d].udaljeni = u
    <2>1. CASE Kasa
      BY <2>1, <1>0, <1>3 DEF PosaoOK, Potvrda
    <2>2. CASE ~Kasa
      <3>1. JedanKljuc
        BY <2>2, <1>1, KanalTip DEF ProdajaTipovi
      <3>2. Potvrdjen(dok[d].udaljeni) => dok[d].udaljeni # Nema
        BY KljucTip DEF Potvrdjen
      <3> QED BY <3>1, <3>2, <1>3, <1>4 DEF DokumentOK, VezaOK
    <2> QED BY <2>1, <2>2
  <1>6. d = "STORNO" => dok["RACUN"].status \in Potvrdjena
    BY <1>3, <1>4 DEF StornoOK, PrijeZahtjeva
  <1>7. VezaOK(d, u)' /\ Potvrdjen(u)'
    BY <1>2, <1>4 DEF VezaOK, Potvrdjen, Potvrda, Pisanje, Od
  <1>8. ASSUME NEW e \in Dokument PROVE DokumentOK(e)'
    <2>1. CASE e = d
      BY <2>1, <1>0, <1>2, <1>3, <1>4, <1>7 DEF DokumentOK, Od, Potvrda, Pisanje, PrijeZahtjeva, Potvrdjena
    <2>2. CASE e # d /\ dok'[e] = dok[e]
      BY <2>2, DokumentOstaje DEF Potvrda, Pisanje, ProdajaInv, DokumentiOK
    <2>3. CASE e # d /\ dok'[e] # dok[e]
      <3>1. e = "RACUN" /\ StornoOriginala /\ dok[e].status \in Potvrdjena /\ DokumentOK(e) /\ promet'[e] = promet[e]
        BY <2>3, <1>6 DEF Potvrda, ProdajaInv, DokumentiOK
      <3>2. PICK q : q = dok[e].udaljeni
        OBVIOUS
      <3>3. VezaOK(e, q)' /\ Potvrdjen(q)'
        BY <3>1, <3>2, <1>2 DEF DokumentOK, VezaOK, Potvrdjen, Potvrda, Pisanje, Od
      <3> QED BY <3>1, <3>2, <3>3, <1>2 DEF StornoOriginala, DokumentOK, Od, Potvrda, Pisanje, PrijeZahtjeva, Potvrdjena
    <2> QED BY <2>1, <2>2, <2>3
  <1>9. StornoOK'
    <2>1. CASE d = "RACUN"
      BY <2>1, <1>2, <1>3 DEF StornoOK, Potvrda, Potvrdjena, Fiskalizovan, Dokument
    <2>2. CASE d = "STORNO"
      BY <2>2, <1>2, <1>3, <1>6 DEF StornoOK, Potvrda, StornoOriginala, Potvrdjena, Fiskalizovan, Dokument
    <2> QED BY <2>1, <2>2 DEF Dokument
  <1>10. Naprijed
    <2>1. ServisRaste /\ kanal' = kanal
      BY DEF ServisRaste, Potvrda, Pisanje
    <2>2. ASSUME NEW e \in Dokument
          PROVE  /\ dok[e].status \notin PrijeZahtjeva =>
                      dok'[e].status \notin PrijeZahtjeva /\ dok'[e].verzija = dok[e].verzija
                 /\ dok[e].status \in Potvrdjena =>
                      dok'[e].status \in Potvrdjena /\ dok'[e].udaljeni = dok[e].udaljeni
      BY <1>0, <1>5 DEF Potvrda, StornoOriginala, PrijeZahtjeva, Potvrdjena
    <2> QED BY <2>1, <2>2 DEF Naprijed, DokumentiNaprijed
  <1>11. \A e \in Dokument : dok'[e].status = "PENDING" => dok'[e] = dok[e] /\ e # d
    BY DEF Potvrda, StornoOriginala
  <1>12. ASSUME NEW v \in Radnik PROVE PosaoOK(v)'
    <2>1. CASE v = w
      <3>1. radnik'[w].pc # "miran" => KanalPosla(w)'
        BY <1>2, <1>3 DEF KanalPosla, Potvrda, Fiskalizovan
      <3> QED BY <2>1, <3>1, <1>0, <1>2, <1>4, <1>7 DEF PosaoOK, Potvrda, Pise, PrijeZahtjeva, Potvrdjena
    <2>2. CASE v # w
      <3>1. PosaoOK(v) /\ radnik[v].dok \in Dokument
        BY PosaoFakti
      <3>2. Kasa /\ Pise(v) /\ dok[radnik[v].dok].status = "PENDING" => dok'[radnik[v].dok].status = "PENDING"
        <4> SUFFICES ASSUME Kasa, Pise(v), dok[radnik[v].dok].status = "PENDING" PROVE dok'[radnik[v].dok].status = "PENDING"
          OBVIOUS
        <4>1. radnik[v].dok # d
          BY <2>2, <1>3 DEF JedanPise, Potvrda
        <4>2. ~(d = "STORNO" /\ radnik[v].dok = "RACUN")
          BY <1>6 DEF Potvrdjena
        <4> QED BY <3>1, <4>1, <4>2 DEF Potvrda
      <3> QED BY <2>2, <3>1, <3>2, <1>1, <1>3, <1>9, <1>10, PosaoOstaje DEF Potvrda
    <2> QED BY <2>1, <2>2
  <1>13. JedanPise'
    <2>1. ASSUME NEW v \in Radnik, Pise(v)', dok'[radnik'[v].dok].status = "PENDING"
          PROVE  Pise(v) /\ radnik'[v].dok = radnik[v].dok /\ dok[radnik[v].dok].status = "PENDING"
      <3>1. v # w
        BY <2>1 DEF Potvrda, Pise
      <3>2. radnik'[v] = radnik[v] /\ radnik[v].dok \in Dokument
        BY <3>1, PosaoFakti DEF Potvrda
      <3> QED BY <2>1, <3>2, <1>11 DEF Pise
    <2> QED BY <2>1, <1>3, JedanPiseOstaje DEF Potvrda, Pisanje
  <1>14. StornoAgencije'
    <2>1. \A k \in Od("STORNO") : Potvrdjen(k)' => Potvrdjen(k)
      BY DEF Potvrdjen, Potvrda, Pisanje
    <2>2. Kasa /\ ~Portal /\ dok'["STORNO"].status # "PENDING" =>
            \/ dok["STORNO"].status # "PENDING" /\ dok'["STORNO"].udaljeni = dok["STORNO"].udaljeni
            \/ \A k \in Od("STORNO") : Potvrdjen(k) => k = dok'["STORNO"].udaljeni
      <3>1. CASE d = "STORNO"
        BY <3>1, <1>3 DEF Potvrda, ProdajaInv, StornoAgencije
      <3>2. CASE d # "STORNO"
        BY <3>2 DEF Potvrda, Dokument
      <3> QED BY <3>1, <3>2
    <2>3. \A v \in Radnik : Pise(v)' /\ radnik'[v].dok = "STORNO" =>
            Pise(v) /\ radnik[v].dok = "STORNO" /\ radnik'[v].udaljeni = radnik[v].udaljeni
      BY DEF Pise, Potvrda
    <2> QED BY <2>1, <2>2, <2>3, StornoAgencijeOstaje DEF ProdajaInv, Potvrda, Pisanje
  <1>15. KnjigeOK'
    <2>1. CASE Kasa
      <3>1. ~Kancelarija /\ ~Agencijska
        BY <2>1, <1>1, KanalTip DEF ProdajaTipovi
      <3>2. \A e \in Dokument : dok'[e].obrada = "OTVOREN" => dok[e].obrada = "OTVOREN"
        BY DEF Potvrda, StornoOriginala
      <3>3. \A e \in Dokument : promet'[e] <= 1 /\ nalog'[e] <= 1
        BY <3>1 DEF Potvrda, ProdajaInv, KnjigeOK
      <3> QED BY <2>1, <1>2, <3>1, <3>2, <3>3 DEF KnjigeOK, ProdajaInv, Potvrda
    <2>2. CASE ~Kasa
      <3>1. \A e \in Dokument : dok'[e].obrada = dok[e].obrada /\ promet'[e] = promet[e]
        BY <2>2 DEF Potvrda
      <3> QED BY <2>2, <1>2, <3>1 DEF KnjigeOK, ProdajaInv, Potvrda, Dokument
    <2> QED BY <2>1, <2>2
  <1> QED BY <1>10, <1>1, <1>8, <1>9, <1>12, <1>13, <1>14, <1>15 DEF Naprijed, ProdajaInv, DokumentiOK, PosloviOK

LEMMA RadnikPotvrde ==
  ASSUME ProdajaTipovi, NEW w \in Radnik, NEW d, d = radnik[w].dok,
         \/ Zavrsi(w)
         \/ Idi(w, "lager") /\ radnik[w].nacin = "prodaja"
         \/ Idi(w, "knjizenje")
         \/ Idi(w, "cuvaj_original") /\ Kasa /\ d = "STORNO"
  PROVE  /\ radnik' \in [Radnik -> Poslovi] /\ \A v \in Radnik \ {w} : radnik'[v] = radnik[v]
         /\ \/ radnik'[w].pc = "miran"
            \/ /\ \/ radnik'[w].pc = "lager" /\ radnik[w].nacin = "prodaja"
                  \/ radnik'[w].pc = "knjizenje"
                  \/ radnik'[w].pc = "cuvaj_original" /\ Kasa /\ d = "STORNO"
               /\ radnik'[w].nacin = radnik[w].nacin /\ radnik'[w].dok = d /\ radnik'[w].kljuc = radnik[w].kljuc
               /\ radnik'[w].udaljeni = radnik[w].udaljeni /\ radnik'[w].vidjen = radnik[w].vidjen
               /\ radnik'[w].verzija = radnik[w].verzija
  <1>1. CASE Zavrsi(w)
    BY <1>1, ZavrsiOcuva
  <1>2. CASE Idi(w, "lager") /\ radnik[w].nacin = "prodaja"
    BY <1>2, IdiOcuva
  <1>3. CASE Idi(w, "knjizenje")
    BY <1>3, IdiOcuva
  <1>4. CASE Idi(w, "cuvaj_original") /\ Kasa /\ d = "STORNO"
    BY <1>4, IdiOcuva
  <1> QED BY <1>1, <1>2, <1>3, <1>4

LEMMA PotvrdiOcuva ==
  ASSUME ProdajaTipovi, NEW d \in Dokument, NEW k \in Kljuc \cup {Nema}
  PROVE  LET n == Potvrdi(d, k) IN
           /\ n \in [Dokument -> Dokumenti] /\ \A e \in Dokument \ {d} : n[e] = dok[e]
           /\ n[d].status = "FISCALIZED" /\ n[d].udaljeni = k /\ n[d].verzija = dok[d].verzija
           /\ n[d].obrada = dok[d].obrada \/ n[d].obrada = "ZAVRSEN"
  <1> DEFINE p == [dok[d] EXCEPT !.status = "FISCALIZED", !.udaljeni = k, !.obrada = "ZAVRSEN"]
             o == [dok[d] EXCEPT !.status = "FISCALIZED", !.udaljeni = k, !.obrada = dok[d].obrada]
  <1>1. dok[d] \in Dokumenti
    BY DEF ProdajaTipovi
  <1>2. Potvrdi(d, k) = [dok EXCEPT ![d] = p] \/ Potvrdi(d, k) = [dok EXCEPT ![d] = o]
    <2>1. CASE Portal
      BY <2>1 DEF ProdajaTipovi, Potvrdi
    <2>2. CASE ~Portal
      BY <2>2 DEF ProdajaTipovi, Potvrdi
    <2> QED BY <2>1, <2>2
  <1>3. p \in Dokumenti /\ o \in Dokumenti
    BY <1>1 DEF p, o, Dokumenti
  <1>4. p.status = "FISCALIZED" /\ p.obrada = "ZAVRSEN" /\ p.udaljeni = k /\ p.verzija = dok[d].verzija
    BY <1>1 DEF p, Dokumenti
  <1>5. o.status = "FISCALIZED" /\ o.obrada = dok[d].obrada /\ o.udaljeni = k /\ o.verzija = dok[d].verzija
    BY <1>1 DEF o, Dokumenti
  <1> HIDE DEF p, o
  <1> QED BY <1>2, <1>3, <1>4, <1>5 DEF ProdajaTipovi

LEMMA OriginalStorniran ==
  ASSUME NEW n \in [Dokument -> Dokumenti]
  PROVE  LET m == [n EXCEPT !["RACUN"].status = "STORNO"] IN
           /\ m \in [Dokument -> Dokumenti] /\ m["STORNO"] = n["STORNO"]
           /\ m["RACUN"].status = "STORNO" /\ m["RACUN"].obrada = n["RACUN"].obrada
           /\ m["RACUN"].udaljeni = n["RACUN"].udaljeni /\ m["RACUN"].verzija = n["RACUN"].verzija
  <1> DEFINE o == [n["RACUN"] EXCEPT !.status = "STORNO"]
  <1>1. n["RACUN"] \in Dokumenti
    BY DEF Dokument
  <1>2. o \in Dokumenti /\ o.status = "STORNO" /\ o.obrada = n["RACUN"].obrada
        /\ o.udaljeni = n["RACUN"].udaljeni /\ o.verzija = n["RACUN"].verzija
    BY <1>1 DEF Dokumenti
  <1>3. [n EXCEPT !["RACUN"].status = "STORNO"] = [n EXCEPT !["RACUN"] = o]
    OBVIOUS
  <1> HIDE DEF o
  <1> QED BY <1>2, <1>3 DEF Dokument

LEMMA SaOriginalomOcuva ==
  ASSUME ProdajaTipovi, NEW d \in Dokument, NEW k \in Kljuc \cup {Nema}, Kasa,
         dok' = SaOriginalom(Potvrdi(d, k), d)
  PROVE  /\ dok' \in [Dokument -> Dokumenti]
         /\ dok'[d].status = "FISCALIZED" /\ dok'[d].udaljeni = k /\ dok'[d].verzija = dok[d].verzija
         /\ dok'[d].obrada = dok[d].obrada \/ (Kasa /\ dok'[d].obrada = "ZAVRSEN")
         /\ \A e \in Dokument \ {d} :
              dok'[e] = dok[e] \/ (Kasa /\ d = "STORNO" /\ e = "RACUN" /\ StornoOriginala)
  <1> DEFINE n == Potvrdi(d, k)
  <1>1. /\ n \in [Dokument -> Dokumenti] /\ \A e \in Dokument \ {d} : n[e] = dok[e]
        /\ n[d].status = "FISCALIZED" /\ n[d].udaljeni = k /\ n[d].verzija = dok[d].verzija
        /\ n[d].obrada = dok[d].obrada \/ n[d].obrada = "ZAVRSEN"
    BY PotvrdiOcuva
  <1>2. dok' = IF d = "STORNO" THEN [n EXCEPT !["RACUN"].status = "STORNO"] ELSE n
    BY DEF SaOriginalom
  <1> HIDE DEF n
  <1>3. CASE d = "STORNO"
    <2>1. dok' = [n EXCEPT !["RACUN"].status = "STORNO"] /\ n["RACUN"] = dok["RACUN"]
      BY <1>1, <1>2, <1>3 DEF Dokument
    <2> QED BY <2>1, <1>1, <1>3, OriginalStorniran DEF StornoOriginala, Dokument
  <1>4. CASE d # "STORNO"
    BY <1>1, <1>2, <1>4
  <1> QED BY <1>3, <1>4

LEMMA SacuvajProdajuOcuva ==
  ASSUME ProdajaInv, NEW w \in Radnik, SacuvajProdaju(w)
  PROVE  ProdajaInv' /\ DokumentiNaprijed
  <1>1. /\ radnik[w].pc = "sacuvaj" /\ radnik[w].nacin = "prodaja" /\ Idi(w, "lager")
        /\ dok' = Potvrdi("RACUN", radnik[w].udaljeni)
        /\ kanal' = kanal /\ promet' = promet /\ nalog' = nalog /\ servis' = servis
    BY DEF SacuvajProdaju, Kod, knjige
  <1>2. ProdajaTipovi /\ "RACUN" \in Dokument /\ radnik[w].dok = "RACUN" /\ Kasa
    BY <1>1, PosaoFakti DEF PosaoOK, KanalPosla, Dokument
  <1>3. radnik[w].udaljeni \in Kljuc \cup {Nema} /\ promet \in [Dokument -> Nat]
    BY PosaoFakti DEF ProdajaTipovi
  <1>4. /\ dok' \in [Dokument -> Dokumenti] /\ \A e \in Dokument \ {"RACUN"} : dok'[e] = dok[e]
        /\ dok'["RACUN"].status = "FISCALIZED" /\ dok'["RACUN"].udaljeni = radnik[w].udaljeni
        /\ dok'["RACUN"].verzija = dok["RACUN"].verzija
        /\ dok'["RACUN"].obrada = dok["RACUN"].obrada \/ dok'["RACUN"].obrada = "ZAVRSEN"
    BY <1>1, <1>2, <1>3, PotvrdiOcuva
  <1>5. Potvrda(w, "RACUN")
    BY <1>1, <1>2, <1>3, <1>4, RadnikPotvrde DEF Potvrda, Pisanje
  <1> QED BY <1>2, <1>5, PotvrdaOcuva

LEMMA SacuvajSaLageromOcuva ==
  ASSUME ProdajaInv, NEW w \in Radnik, SacuvajSaLagerom(w)
  PROVE  ProdajaInv' /\ DokumentiNaprijed
  <1>0. PICK d \in Dokument, u \in Kljuc \cup {Nema} : d = radnik[w].dok /\ u = radnik[w].udaljeni
    BY PosaoFakti
  <1>1. /\ radnik[w].pc = "sacuvaj" /\ radnik[w].nacin \in {"ponovi_portal", "ponovi_agencija", "storno"}
        /\ dok' = SaOriginalom(Potvrdi(d, u), d) /\ promet' = Pomjereno(d)
        /\ Zavrsi(w) \/ Idi(w, "knjizenje")
        /\ kanal' = kanal /\ nalog' = nalog /\ servis' = servis
    BY <1>0 DEF SacuvajSaLagerom, Kod, Poslije, NaknadnoKnjizenje
  <1>2. ProdajaTipovi /\ Kasa
    BY <1>1, PosaoFakti DEF PosaoOK, KanalPosla
  <1>3. promet \in [Dokument -> Nat]
    BY <1>2 DEF ProdajaTipovi
  <1>4. /\ promet' \in [Dokument -> Nat] /\ \A e \in Dokument \ {d} : promet'[e] = promet[e]
        /\ promet'[d] = promet[d] \/ promet'[d] = 1
    BY <1>1, <1>3 DEF Pomjereno
  <1>5. Potvrda(w, d)
    BY <1>0, <1>1, <1>2, <1>4, SaOriginalomOcuva, RadnikPotvrde DEF Potvrda, Pisanje
  <1> QED BY <1>5, PotvrdaOcuva

LEMMA SacuvanoOcuva ==
  ASSUME ProdajaInv, NEW w \in Radnik, Sacuvano(w)
  PROVE  ProdajaInv' /\ DokumentiNaprijed
  <1>0. PICK d \in Dokument, u \in Kljuc \cup {Nema} : d = radnik[w].dok /\ u = radnik[w].udaljeni
    BY PosaoFakti
  <1>1. /\ Kasa /\ radnik[w].pc = "cuvaj"
        /\ \/ dok' = Potvrdi(d, u) /\ Idi(w, "cuvaj_original") /\ d = "STORNO"
           \/ dok' = SaOriginalom(Potvrdi(d, u), d) /\ Zavrsi(w)
        /\ kanal' = kanal /\ promet' = promet /\ nalog' = nalog /\ servis' = servis
    BY <1>0 DEF Sacuvano, Kod, knjige
  <1>2. ProdajaTipovi /\ promet \in [Dokument -> Nat]
    BY DEF ProdajaInv, ProdajaTipovi
  <1>3. CASE dok' = Potvrdi(d, u) /\ Idi(w, "cuvaj_original") /\ d = "STORNO"
    <2>1. /\ dok' \in [Dokument -> Dokumenti] /\ \A e \in Dokument \ {d} : dok'[e] = dok[e]
          /\ dok'[d].status = "FISCALIZED" /\ dok'[d].udaljeni = u /\ dok'[d].verzija = dok[d].verzija
          /\ dok'[d].obrada = dok[d].obrada \/ dok'[d].obrada = "ZAVRSEN"
      BY <1>2, <1>3, PotvrdiOcuva
    <2>2. /\ radnik' \in [Radnik -> Poslovi] /\ \A v \in Radnik \ {w} : radnik'[v] = radnik[v]
          /\ radnik'[w].pc = "cuvaj_original" /\ radnik'[w].nacin = radnik[w].nacin /\ radnik'[w].dok = d
          /\ radnik'[w].kljuc = radnik[w].kljuc /\ radnik'[w].udaljeni = radnik[w].udaljeni
          /\ radnik'[w].vidjen = radnik[w].vidjen /\ radnik'[w].verzija = radnik[w].verzija
      BY <1>0, <1>2, <1>3, IdiOcuva
    <2>3. Potvrda(w, d)
      BY <1>0, <1>1, <1>2, <1>3, <2>1, <2>2 DEF Potvrda, Pisanje
    <2> QED BY <2>3, PotvrdaOcuva
  <1>4. CASE dok' = SaOriginalom(Potvrdi(d, u), d) /\ Zavrsi(w)
    <2>1. Potvrda(w, d)
      BY <1>0, <1>1, <1>2, <1>4, SaOriginalomOcuva, RadnikPotvrde DEF Potvrda, Pisanje
    <2> QED BY <2>1, PotvrdaOcuva
  <1> QED BY <1>1, <1>3, <1>4

LEMMA FakturaPotvrdjena ==
  ASSUME ProdajaTipovi, NEW d \in Dokument, NEW k \in Kljuc \cup {Nema},
         dok' = [dok EXCEPT ![d].status = "FISCALIZED", ![d].svjez = FALSE, ![d].udaljeni = k]
  PROVE  /\ dok' \in [Dokument -> Dokumenti] /\ \A e \in Dokument \ {d} : dok'[e] = dok[e]
         /\ dok'[d].status = "FISCALIZED" /\ dok'[d].udaljeni = k /\ dok'[d].verzija = dok[d].verzija
         /\ dok'[d].obrada = dok[d].obrada
  <1> DEFINE p == [dok[d] EXCEPT !.status = "FISCALIZED", !.svjez = FALSE, !.udaljeni = k]
  <1>1. dok[d] \in Dokumenti
    BY DEF ProdajaTipovi
  <1>2. dok' = [dok EXCEPT ![d] = p]
    BY DEF ProdajaTipovi
  <1>3. p \in Dokumenti
    BY <1>1 DEF p, Dokumenti
  <1>4. p.status = "FISCALIZED" /\ p.obrada = dok[d].obrada /\ p.udaljeni = k /\ p.verzija = dok[d].verzija
    BY <1>1 DEF p, Dokumenti
  <1> HIDE DEF p
  <1> QED BY <1>2, <1>3, <1>4 DEF ProdajaTipovi

LEMMA SacuvajFakturuOcuva ==
  ASSUME ProdajaInv, NEW w \in Radnik, SacuvajFakturu(w) \/ SacuvanaFaktura(w)
  PROVE  ProdajaInv' /\ DokumentiNaprijed
  <1>0. PICK d \in Dokument, u \in Kljuc \cup {Nema} : d = radnik[w].dok /\ u = radnik[w].udaljeni
    BY PosaoFakti
  <1>1. ProdajaTipovi /\ promet \in [Dokument -> Nat]
    BY DEF ProdajaInv, ProdajaTipovi
  <1>2. SacuvanaFaktura(w) => d = "RACUN"
    <2> SUFFICES ASSUME SacuvanaFaktura(w) PROVE d = "RACUN"
      OBVIOUS
    <2>1. Kancelarija /\ radnik[w].pc = "cuvaj" /\ ~Kasa
      BY <1>1, KanalTip DEF SacuvanaFaktura, Kod, ProdajaTipovi
    <2> QED BY <1>0, <2>1, PosaoFakti DEF PosaoOK, KanalPosla
  <1>3. /\ radnik[w].pc \in {"sacuvaj", "cuvaj"}
        /\ Idi(w, "knjizenje") \/ Zavrsi(w)
        /\ dok' = [dok EXCEPT ![d].status = "FISCALIZED", ![d].svjez = FALSE, ![d].udaljeni = u]
        /\ kanal' = kanal /\ promet' = promet /\ nalog' = nalog /\ servis' = servis
    BY <1>0, <1>2 DEF SacuvajFakturu, SacuvanaFaktura, Kod, knjige
  <1>4. /\ dok' \in [Dokument -> Dokumenti] /\ \A e \in Dokument \ {d} : dok'[e] = dok[e]
        /\ dok'[d].status = "FISCALIZED" /\ dok'[d].udaljeni = u /\ dok'[d].verzija = dok[d].verzija
        /\ dok'[d].obrada = dok[d].obrada
    BY <1>1, <1>3, FakturaPotvrdjena
  <1>5. /\ radnik' \in [Radnik -> Poslovi] /\ \A v \in Radnik \ {w} : radnik'[v] = radnik[v]
        /\ \/ radnik'[w].pc = "miran"
           \/ /\ radnik'[w].pc = "knjizenje" /\ radnik'[w].nacin = radnik[w].nacin /\ radnik'[w].dok = d
              /\ radnik'[w].kljuc = radnik[w].kljuc /\ radnik'[w].udaljeni = radnik[w].udaljeni
              /\ radnik'[w].vidjen = radnik[w].vidjen /\ radnik'[w].verzija = radnik[w].verzija
    <2>1. CASE Idi(w, "knjizenje")
      BY <2>1, <1>0, <1>1, IdiOcuva
    <2>2. CASE Zavrsi(w)
      BY <2>2, <1>1, ZavrsiOcuva
    <2> QED BY <2>1, <2>2, <1>3
  <1>6. Potvrda(w, d)
    BY <1>0, <1>1, <1>3, <1>4, <1>5 DEF Potvrda, Pisanje
  <1> QED BY <1>6, PotvrdaOcuva

---------------------------------------------------------------------------
(* An attempt fails *)

Neuspjeh(w, d) ==
  /\ Pisanje /\ promet' = promet /\ nalog' = nalog /\ Zavrsi(w)
  /\ radnik[w].pc \in {"kreiraj", "promasaj"} /\ radnik[w].dok = d
  /\ \A e \in Dokument \ {d} : dok'[e] = dok[e]
  /\ \/ dok'[d] = dok[d] /\ ~Kasa
     \/ /\ dok[d].status \notin Potvrdjena /\ dok'[d].status = "FAILED"
        /\ dok'[d].obrada = dok[d].obrada /\ dok'[d].verzija = dok[d].verzija
        /\ \/ dok'[d].udaljeni = radnik[w].udaljeni
           \/ dok'[d].udaljeni = dok[d].udaljeni /\ (Kasa => d = "RACUN")

LEMMA NeuspjehOcuva ==
  ASSUME ProdajaInv, NEW w \in Radnik, NEW d \in Dokument, Neuspjeh(w, d)
  PROVE  ProdajaInv' /\ DokumentiNaprijed
  <1>0. PICK u, q : u = radnik[w].udaljeni /\ q = dok[d].udaljeni
    OBVIOUS
  <1>1. /\ ProdajaTipovi /\ radnik' \in [Radnik -> Poslovi]
        /\ \A v \in Radnik \ {w} : radnik'[v] = radnik[v]
        /\ radnik'[w].pc = "miran"
    BY ZavrsiOcuva DEF Neuspjeh, ProdajaInv
  <1>2. ProdajaTipovi'
    BY <1>1 DEF Neuspjeh, Pisanje, ProdajaTipovi
  <1>3. (Kasa' <=> Kasa) /\ (Kancelarija' <=> Kancelarija) /\ (Portal' <=> Portal) /\ (JedanKljuc' <=> JedanKljuc)
        /\ (Agencijska' <=> Agencijska)
    BY DEF Neuspjeh, Pisanje, Kasa, Kancelarija, Portal, JedanKljuc, Agencijska
  <1>4. StornoOK /\ DokumentOK(d) /\ PosaoOK(w) /\ JedanPise /\ Pise(w)
    BY PosaoFakti DEF Neuspjeh, ProdajaInv, PosloviOK, Pise
  <1>5. dok[d].status \notin PrijeZahtjeva /\ VezaOK(d, u) /\ VezaOK(d, q)
    BY <1>0, <1>4 DEF PosaoOK, Neuspjeh, DokumentOK
  <1>6. VezaOK(d, u)' /\ VezaOK(d, q)'
    BY <1>3, <1>5 DEF VezaOK, Neuspjeh, Pisanje, Od
  <1>7. ASSUME NEW e \in Dokument PROVE DokumentOK(e)'
    <2>1. CASE dok'[e] = dok[e]
      BY <2>1, DokumentOstaje DEF Neuspjeh, Pisanje, ProdajaInv, DokumentiOK
    <2>2. CASE dok'[e] # dok[e]
      <3>1. e = d /\ dok'[d].status = "FAILED" /\ dok[d].status \notin Potvrdjena
            /\ dok'[d].obrada = dok[d].obrada /\ dok'[d].verzija = dok[d].verzija /\ dok'[d].udaljeni \in {u, q}
        BY <2>2, <1>0 DEF Neuspjeh
      <3>2. dok[d].obrada = "OTVOREN" /\ ~(promet[d] > 0) /\ ~(nalog[d] > 0)
        BY <1>4, <3>1 DEF DokumentOK
      <3>3. (dok'[d].udaljeni = u \/ dok'[d].udaljeni = q) /\ VezaOK(d, u)' /\ VezaOK(d, q)'
        BY <3>1, <1>6
      <3> QED BY <3>1, <3>2, <3>3, <1>3, <1>4 DEF DokumentOK, VezaOK, Od, Neuspjeh, Pisanje, PrijeZahtjeva, Potvrdjena
    <2> QED BY <2>1, <2>2
  <1>8. StornoOK'
    BY <1>3, <1>4, <1>5 DEF StornoOK, Neuspjeh, Potvrdjena, PrijeZahtjeva, Fiskalizovan, Dokument
  <1>9. Naprijed
    BY DEF Naprijed, ServisRaste, DokumentiNaprijed, Neuspjeh, Pisanje, PrijeZahtjeva
  <1>10. ASSUME NEW v \in Radnik PROVE PosaoOK(v)'
    <2>1. CASE v = w
      BY <2>1, <1>1 DEF PosaoOK
    <2>2. CASE v # w
      <3>1. PosaoOK(v) /\ radnik[v].dok \in Dokument
        BY PosaoFakti
      <3>2. Kasa /\ Pise(v) /\ dok[radnik[v].dok].status = "PENDING" => radnik[v].dok # d
        BY <2>2, <1>4 DEF JedanPise, Neuspjeh
      <3>3. Kasa /\ Pise(v) /\ dok[radnik[v].dok].status = "PENDING" => dok'[radnik[v].dok].status = "PENDING"
        BY <3>1, <3>2 DEF Neuspjeh
      <3> QED BY <2>2, <3>1, <3>3, <1>1, <1>2, <1>4, <1>8, <1>9, PosaoOstaje
    <2> QED BY <2>1, <2>2
  <1>11. JedanPise'
    <2>1. ASSUME NEW v \in Radnik, Pise(v)', dok'[radnik'[v].dok].status = "PENDING"
          PROVE  Pise(v) /\ radnik'[v].dok = radnik[v].dok /\ dok[radnik[v].dok].status = "PENDING"
      <3>1. radnik'[v] = radnik[v] /\ radnik[v].dok \in Dokument
        BY <2>1, <1>1, PosaoFakti DEF Pise
      <3> QED BY <2>1, <3>1 DEF Pise, Neuspjeh
    <2> QED BY <2>1, <1>4, JedanPiseOstaje DEF Neuspjeh, Pisanje
  <1>12. StornoAgencije'
    <2>1. \A k \in Od("STORNO") : Potvrdjen(k)' => Potvrdjen(k)
      BY DEF Potvrdjen, Neuspjeh, Pisanje
    <2>2. Kasa /\ ~Portal /\ dok'["STORNO"].status # "PENDING" =>
            \/ dok["STORNO"].status # "PENDING" /\ dok'["STORNO"].udaljeni = dok["STORNO"].udaljeni
            \/ \A k \in Od("STORNO") : Potvrdjen(k) => k = dok'["STORNO"].udaljeni
      <3>1. CASE d = "STORNO"
        BY <3>1, <1>4 DEF Neuspjeh, ProdajaInv, StornoAgencije
      <3>2. CASE d # "STORNO"
        BY <3>2 DEF Neuspjeh, Dokument
      <3> QED BY <3>1, <3>2
    <2>3. \A v \in Radnik : Pise(v)' /\ radnik'[v].dok = "STORNO" =>
            Pise(v) /\ radnik[v].dok = "STORNO" /\ radnik'[v].udaljeni = radnik[v].udaljeni
      BY <1>1 DEF Pise
    <2> QED BY <2>1, <2>2, <2>3, StornoAgencijeOstaje DEF ProdajaInv, Neuspjeh, Pisanje
  <1>13. KnjigeOK'
    <2>1. \A e \in Dokument : dok'[e].obrada = dok[e].obrada
      BY DEF Neuspjeh
    <2> QED BY <1>3, <2>1 DEF KnjigeOK, ProdajaInv, Neuspjeh, Dokument
  <1> QED BY <1>9, <1>2, <1>7, <1>8, <1>10, <1>11, <1>12, <1>13 DEF Naprijed, ProdajaInv, DokumentiOK, PosloviOK

LEMMA DokumentNeuspio ==
  ASSUME ProdajaTipovi, NEW d \in Dokument, NEW k \in Kljuc \cup {Nema},
         \/ dok' = [dok EXCEPT ![d].status = "FAILED"] /\ k = dok[d].udaljeni
         \/ dok' = [dok EXCEPT ![d].status = "FAILED", ![d].svjez = FALSE] /\ k = dok[d].udaljeni
         \/ dok' = [dok EXCEPT ![d].status = "FAILED", ![d].svjez = FALSE, ![d].udaljeni = k]
  PROVE  /\ dok' \in [Dokument -> Dokumenti] /\ \A e \in Dokument \ {d} : dok'[e] = dok[e]
         /\ dok'[d].status = "FAILED" /\ dok'[d].udaljeni = k /\ dok'[d].verzija = dok[d].verzija
         /\ dok'[d].obrada = dok[d].obrada
  <1> DEFINE m == [dok[d] EXCEPT !.status = "FAILED"]
             o == [dok[d] EXCEPT !.status = "FAILED", !.svjez = FALSE]
             p == [dok[d] EXCEPT !.status = "FAILED", !.svjez = FALSE, !.udaljeni = k]
  <1>1. dok[d] \in Dokumenti
    BY DEF ProdajaTipovi
  <1>2. \/ dok' = [dok EXCEPT ![d] = m] /\ k = dok[d].udaljeni
        \/ dok' = [dok EXCEPT ![d] = o] /\ k = dok[d].udaljeni
        \/ dok' = [dok EXCEPT ![d] = p]
    BY DEF ProdajaTipovi
  <1>3. m \in Dokumenti /\ o \in Dokumenti /\ p \in Dokumenti
    BY <1>1 DEF m, o, p, Dokumenti
  <1>4. m.status = "FAILED" /\ m.obrada = dok[d].obrada /\ m.udaljeni = dok[d].udaljeni /\ m.verzija = dok[d].verzija
    BY <1>1 DEF m, Dokumenti
  <1>5. o.status = "FAILED" /\ o.obrada = dok[d].obrada /\ o.udaljeni = dok[d].udaljeni /\ o.verzija = dok[d].verzija
    BY <1>1 DEF o, Dokumenti
  <1>6. p.status = "FAILED" /\ p.obrada = dok[d].obrada /\ p.udaljeni = k /\ p.verzija = dok[d].verzija
    BY <1>1 DEF p, Dokumenti
  <1> HIDE DEF m, o, p
  <1> QED BY <1>2, <1>3, <1>4, <1>5, <1>6 DEF ProdajaTipovi

\* No document but one of the point of sale is annulled, and that only once it is confirmed.
LEMMA NijeStorniran ==
  ASSUME ProdajaInv, NEW w \in Radnik, radnik[w].pc \in {"kreiraj", "promasaj"},
         ~Fiskalizovan(radnik[w].dok)
  PROVE  dok[radnik[w].dok].status \notin Potvrdjena
  <1>1. Kasa => dok[radnik[w].dok].status = "PENDING"
    BY PosaoFakti DEF PosaoOK, Pise
  <1>2. ~Kasa => dok[radnik[w].dok].status # "STORNO"
    BY PosaoFakti DEF StornoOK, Dokument
  <1> QED BY <1>1, <1>2 DEF Potvrdjena, Fiskalizovan

LEMMA PromasajOcuva ==
  ASSUME ProdajaInv, NEW w \in Radnik, Promasaj(w)
  PROVE  ProdajaInv' /\ DokumentiNaprijed
  <1>0. PICK d \in Dokument, u \in Kljuc \cup {Nema} : d = radnik[w].dok /\ u = radnik[w].udaljeni
    BY PosaoFakti
  <1>1. /\ radnik[w].pc = "promasaj" /\ Zavrsi(w)
        /\ kanal' = kanal /\ promet' = promet /\ nalog' = nalog /\ servis' = servis
    BY DEF Promasaj, Kod, knjige
  <1>2. ProdajaTipovi /\ dok \in [Dokument -> Dokumenti]
    BY DEF ProdajaInv, ProdajaTipovi
  <1>3. CASE Fiskalizovan(d)
    <2>1. dok' = dok
      BY <1>0, <1>3 DEF Promasaj
    <2>2. ~Kasa
      BY <1>0, <1>1, <1>3, PosaoFakti DEF PosaoOK, Pise, Fiskalizovan
    <2>3. Neuspjeh(w, d)
      BY <1>0, <1>1, <1>2, <2>1, <2>2 DEF Neuspjeh, Pisanje
    <2> QED BY <2>3, NeuspjehOcuva
  <1>4. CASE ~Fiskalizovan(d)
    <2>1. dok' = [dok EXCEPT ![d].status = "FAILED", ![d].svjez = FALSE, ![d].udaljeni = u]
      BY <1>0, <1>4 DEF Promasaj
    <2>2. /\ dok' \in [Dokument -> Dokumenti] /\ \A e \in Dokument \ {d} : dok'[e] = dok[e]
          /\ dok'[d].status = "FAILED" /\ dok'[d].udaljeni = u /\ dok'[d].verzija = dok[d].verzija
          /\ dok'[d].obrada = dok[d].obrada
      BY <1>2, <2>1, DokumentNeuspio
    <2>3. dok[d].status \notin Potvrdjena
      BY <1>0, <1>1, <1>4, NijeStorniran
    <2>4. Neuspjeh(w, d)
      BY <1>0, <1>1, <2>2, <2>3 DEF Neuspjeh, Pisanje
    <2> QED BY <2>4, NeuspjehOcuva
  <1> QED BY <1>3, <1>4

LEMMA PromasajStornaOcuva ==
  ASSUME ProdajaInv, NEW w \in Radnik, PromasajStorna(w)
  PROVE  ProdajaInv' /\ DokumentiNaprijed
  <1>0. PICK d, q : d \in Dokument /\ d = radnik[w].dok /\ q = dok[d].udaljeni
    BY PosaoFakti
  <1>1. /\ radnik[w].pc = "promasaj" /\ radnik[w].nacin = "storno_fakture" /\ Zavrsi(w)
        /\ kanal' = kanal /\ promet' = promet /\ nalog' = nalog /\ servis' = servis
    BY DEF PromasajStorna, Kod, knjige
  <1>2. ProdajaTipovi /\ dok \in [Dokument -> Dokumenti] /\ ~Kasa
    BY <1>1, PosaoFakti, KanalTip DEF ProdajaTipovi, PosaoOK, KanalPosla
  <1>3. CASE dok' = dok
    BY <1>0, <1>1, <1>2, <1>3, NeuspjehOcuva DEF Neuspjeh, Pisanje
  <1>4. CASE dok' # dok
    <2>1. dok' = [dok EXCEPT ![d].status = "FAILED", ![d].svjez = FALSE] /\ ~Fiskalizovan(d)
      BY <1>0, <1>4 DEF PromasajStorna
    <2>2. q \in Kljuc \cup {Nema}
      BY <1>0, <1>2 DEF Dokumenti
    <2>3. /\ dok' \in [Dokument -> Dokumenti] /\ \A e \in Dokument \ {d} : dok'[e] = dok[e]
          /\ dok'[d].status = "FAILED" /\ dok'[d].udaljeni = q /\ dok'[d].verzija = dok[d].verzija
          /\ dok'[d].obrada = dok[d].obrada
      BY <1>0, <1>2, <2>1, <2>2, DokumentNeuspio
    <2>4. dok[d].status \notin Potvrdjena
      BY <1>0, <1>1, <2>1, NijeStorniran
    <2>5. Neuspjeh(w, d)
      BY <1>0, <1>1, <1>2, <2>3, <2>4 DEF Neuspjeh, Pisanje
    <2> QED BY <1>0, <2>5, NeuspjehOcuva
  <1> QED BY <1>3, <1>4

LEMMA OdbijPonovniOcuva ==
  ASSUME ProdajaInv, NEW w \in Radnik, OdbijPonovni(w)
  PROVE  ProdajaInv' /\ DokumentiNaprijed
  <1>0. PICK d, q : d \in Dokument /\ d = radnik[w].dok /\ q = dok[d].udaljeni
    BY PosaoFakti
  <1>1. /\ radnik[w].pc = "kreiraj" /\ radnik[w].nacin = "ponovi_portal" /\ Zavrsi(w)
        /\ kanal' = kanal /\ promet' = promet /\ nalog' = nalog /\ servis' = servis
    BY DEF OdbijPonovni, Kod, knjige
  <1>2. ProdajaTipovi /\ dok \in [Dokument -> Dokumenti] /\ d = "RACUN" /\ dok[d].status = "PENDING"
    BY <1>0, <1>1, PosaoFakti DEF ProdajaTipovi, PosaoOK, KanalPosla, Pise
  <1>3. dok' = [dok EXCEPT ![d].status = "FAILED"]
    BY <1>0, <1>2 DEF OdbijPonovni, Moj
  <1>4. q \in Kljuc \cup {Nema}
    BY <1>0, <1>2 DEF Dokumenti
  <1>5. /\ dok' \in [Dokument -> Dokumenti] /\ \A e \in Dokument \ {d} : dok'[e] = dok[e]
        /\ dok'[d].status = "FAILED" /\ dok'[d].udaljeni = q /\ dok'[d].verzija = dok[d].verzija
        /\ dok'[d].obrada = dok[d].obrada
    BY <1>0, <1>2, <1>3, <1>4, DokumentNeuspio
  <1>6. Neuspjeh(w, d)
    BY <1>0, <1>1, <1>2, <1>5 DEF Neuspjeh, Pisanje, Potvrdjena
  <1> QED BY <1>0, <1>6, NeuspjehOcuva

---------------------------------------------------------------------------
(* The books, and other writes that change neither status nor link *)

\* What is confirmed goes to the books; requests end or go on to them.
Knjizenje ==
  /\ Pisanje /\ promet' \in [Dokument -> Nat] /\ nalog' \in [Dokument -> Nat]
  /\ radnik' \in [Radnik -> Poslovi]
  /\ \A e \in Dokument : /\ dok'[e].status = dok[e].status
                         /\ dok'[e].udaljeni = dok[e].udaljeni /\ dok'[e].verzija = dok[e].verzija
                         /\ \/ dok[e].status \in Potvrdjena
                            \/ dok'[e].obrada = dok[e].obrada /\ promet'[e] = promet[e] /\ nalog'[e] = nalog[e]
  /\ \A v \in Radnik :
       \/ radnik'[v] = radnik[v]
       \/ radnik'[v].pc = "miran"
       \/ /\ radnik[v].pc = "lager" /\ radnik'[v].pc = "knjizenje" /\ radnik'[v].nacin = radnik[v].nacin
          /\ radnik'[v].dok = radnik[v].dok /\ radnik'[v].kljuc = radnik[v].kljuc
          /\ radnik'[v].udaljeni = radnik[v].udaljeni /\ radnik'[v].vidjen = radnik[v].vidjen
          /\ radnik'[v].verzija = radnik[v].verzija
  /\ KnjigeOK'

LEMMA KnjizenjeOcuva ==
  ASSUME ProdajaInv, Knjizenje
  PROVE  ProdajaInv' /\ DokumentiNaprijed
  <1>1. ProdajaTipovi /\ ProdajaTipovi' /\ StornoOK /\ JedanPise
    BY DEF Knjizenje, Pisanje, ProdajaInv, ProdajaTipovi, DokumentiOK, PosloviOK
  <1>2. (Kasa' <=> Kasa) /\ (Kancelarija' <=> Kancelarija) /\ (Portal' <=> Portal) /\ (JedanKljuc' <=> JedanKljuc)
    BY DEF Knjizenje, Pisanje, Kasa, Kancelarija, Portal, JedanKljuc
  <1>3. ASSUME NEW e \in Dokument PROVE DokumentOK(e)'
    <2>1. DokumentOK(e)
      BY DEF ProdajaInv, DokumentiOK
    <2>2. PICK q : q = dok[e].udaljeni
      OBVIOUS
    <2>3. VezaOK(e, q)' /\ (Potvrdjen(q) => Potvrdjen(q)')
      BY <2>1, <2>2, <1>2 DEF DokumentOK, VezaOK, Potvrdjen, Knjizenje, Pisanje, Od
    <2>4. dok'[e].obrada # "OTVOREN" \/ promet'[e] > 0 \/ nalog'[e] > 0 => dok[e].status \in Potvrdjena
      BY <2>1 DEF DokumentOK, Knjizenje
    <2> QED BY <2>1, <2>2, <2>3, <2>4, <1>2 DEF DokumentOK, Knjizenje, Pisanje, Od
  <1>4. StornoOK'
    BY <1>1, <1>2 DEF StornoOK, Knjizenje, Fiskalizovan, Dokument
  <1>5. Naprijed
    BY DEF Naprijed, ServisRaste, DokumentiNaprijed, Knjizenje, Pisanje
  <1>6. ASSUME NEW v \in Radnik PROVE PosaoOK(v)'
    <2>0. PosaoOK(v) /\ radnik[v].dok \in Dokument
      BY PosaoFakti
    <2>1. CASE radnik'[v] = radnik[v]
      BY <2>0, <2>1, <1>1, <1>4, <1>5, PosaoOstaje DEF Knjizenje
    <2>2. CASE radnik'[v].pc = "miran"
      BY <2>2 DEF PosaoOK
    <2>3. CASE radnik'[v] # radnik[v] /\ radnik'[v].pc # "miran"
      <3>1. PICK d, u : d = radnik[v].dok /\ u = radnik[v].udaljeni
        OBVIOUS
      <3>2. /\ radnik[v].pc = "lager" /\ radnik'[v].pc = "knjizenje" /\ radnik'[v].nacin = radnik[v].nacin
            /\ radnik'[v].dok = d /\ radnik'[v].kljuc = radnik[v].kljuc
            /\ radnik'[v].udaljeni = u /\ radnik'[v].vidjen = radnik[v].vidjen
            /\ radnik'[v].verzija = radnik[v].verzija
        BY <2>3, <3>1 DEF Knjizenje
      <3>3. VezaOK(d, u) /\ d \in Dokument
        BY <2>0, <3>1, <3>2 DEF PosaoOK
      <3>4. VezaOK(d, u)'
        BY <3>3, <1>2 DEF VezaOK, Knjizenje, Pisanje, Od
      <3>5. KanalPosla(v)'
        BY <2>0, <3>1, <3>2, <1>2 DEF PosaoOK, KanalPosla
      <3> QED BY <2>0, <3>1, <3>2, <3>3, <3>4, <3>5, <1>2 DEF PosaoOK, Pise, Knjizenje
    <2> QED BY <2>1, <2>2, <2>3
  <1>7. \A v \in Radnik : Pise(v)' => Pise(v) /\ radnik'[v] = radnik[v]
    BY DEF Pise, Knjizenje
  <1>8. JedanPise'
    <2>1. ASSUME NEW v \in Radnik, Pise(v)', dok'[radnik'[v].dok].status = "PENDING"
          PROVE  Pise(v) /\ radnik'[v].dok = radnik[v].dok /\ dok[radnik[v].dok].status = "PENDING"
      BY <2>1, <1>7, PosaoFakti DEF Knjizenje
    <2> QED BY <2>1, <1>1, JedanPiseOstaje DEF Knjizenje, Pisanje
  <1>9. StornoAgencije'
    <2>1. \A k \in Od("STORNO") : Potvrdjen(k)' => Potvrdjen(k)
      BY DEF Potvrdjen, Knjizenje, Pisanje
    <2>2. dok'["STORNO"].status = dok["STORNO"].status /\ dok'["STORNO"].udaljeni = dok["STORNO"].udaljeni
      BY DEF Knjizenje, Dokument
    <2> QED BY <2>1, <2>2, <1>7, StornoAgencijeOstaje DEF ProdajaInv, Knjizenje, Pisanje
  <1> QED BY <1>5, <1>1, <1>3, <1>4, <1>6, <1>8, <1>9 DEF Naprijed, ProdajaInv, DokumentiOK, PosloviOK, Knjizenje

\* A document is done with the books.
LEMMA ObradaOcuva ==
  ASSUME ProdajaTipovi, NEW d \in Dokument, NEW s \in {"ZAVRSEN", "U_PAZARU"},
         dok' = [dok EXCEPT ![d].obrada = s]
  PROVE  /\ dok' \in [Dokument -> Dokumenti] /\ \A e \in Dokument \ {d} : dok'[e] = dok[e]
         /\ dok'[d].status = dok[d].status /\ dok'[d].udaljeni = dok[d].udaljeni
         /\ dok'[d].verzija = dok[d].verzija /\ dok'[d].obrada = s
  <1> DEFINE m == [dok[d] EXCEPT !.obrada = s]
  <1>1. dok[d] \in Dokumenti
    BY DEF ProdajaTipovi
  <1>2. dok' = [dok EXCEPT ![d] = m]
    BY DEF ProdajaTipovi
  <1>3. /\ m \in Dokumenti /\ m.status = dok[d].status /\ m.udaljeni = dok[d].udaljeni
        /\ m.verzija = dok[d].verzija /\ m.obrada = s
    BY <1>1 DEF m, Dokumenti
  <1> HIDE DEF m
  <1> QED BY <1>2, <1>3 DEF ProdajaTipovi

LEMMA RadnikKnjizenja ==
  ASSUME ProdajaTipovi,
         \/ radnik' = radnik
         \/ \E w \in Radnik : Zavrsi(w) \/ (Idi(w, "knjizenje") /\ radnik[w].pc = "lager")
  PROVE  /\ radnik' \in [Radnik -> Poslovi]
         /\ \A v \in Radnik :
              \/ radnik'[v] = radnik[v]
              \/ radnik'[v].pc = "miran"
              \/ /\ radnik[v].pc = "lager" /\ radnik'[v].pc = "knjizenje" /\ radnik'[v].nacin = radnik[v].nacin
                 /\ radnik'[v].dok = radnik[v].dok /\ radnik'[v].kljuc = radnik[v].kljuc
                 /\ radnik'[v].udaljeni = radnik[v].udaljeni /\ radnik'[v].vidjen = radnik[v].vidjen
                 /\ radnik'[v].verzija = radnik[v].verzija
  <1>1. CASE radnik' = radnik
    BY <1>1 DEF ProdajaTipovi
  <1>2. ASSUME NEW w \in Radnik, Zavrsi(w)
        PROVE  /\ radnik' \in [Radnik -> Poslovi]
               /\ \A v \in Radnik : radnik'[v] = radnik[v] \/ radnik'[v].pc = "miran"
    BY <1>2, ZavrsiOcuva
  <1>3. ASSUME NEW w \in Radnik, Idi(w, "knjizenje"), radnik[w].pc = "lager"
        PROVE  /\ radnik' \in [Radnik -> Poslovi]
               /\ \A v \in Radnik \ {w} : radnik'[v] = radnik[v]
               /\ radnik'[w].pc = "knjizenje" /\ radnik'[w].nacin = radnik[w].nacin
               /\ radnik'[w].dok = radnik[w].dok /\ radnik'[w].kljuc = radnik[w].kljuc
               /\ radnik'[w].udaljeni = radnik[w].udaljeni /\ radnik'[w].vidjen = radnik[w].vidjen
               /\ radnik'[w].verzija = radnik[w].verzija
    BY <1>3, IdiOcuva
  <1> QED BY <1>1, <1>2, <1>3

---------------------------------------------------------------------------
(* Steps of the books, one by one *)

LEMMA KnjigeTip ==
  ASSUME ProdajaInv
  PROVE  /\ ProdajaTipovi /\ promet \in [Dokument -> Nat] /\ nalog \in [Dokument -> Nat]
         /\ "RACUN" \in Dokument /\ "STORNO" \in Dokument
         /\ "RACUN" \in Dokument \ {"STORNO"} /\ "STORNO" \in Dokument \ {"RACUN"}
         /\ (Kasa <=> ~Kancelarija) /\ (Agencijska <=> Kancelarija /\ ~Portal)
         /\ \A d \in Dokument : dok[d].status \notin Potvrdjena =>
              dok[d].obrada = "OTVOREN" /\ promet[d] = 0 /\ nalog[d] = 0
  <1>1. /\ ProdajaTipovi /\ promet \in [Dokument -> Nat] /\ nalog \in [Dokument -> Nat]
        /\ "RACUN" \in Dokument /\ "STORNO" \in Dokument
        /\ "RACUN" \in Dokument \ {"STORNO"} /\ "STORNO" \in Dokument \ {"RACUN"}
    BY DEF ProdajaInv, ProdajaTipovi, Dokument
  <1>2. (Kasa <=> ~Kancelarija) /\ (Agencijska <=> Kancelarija /\ ~Portal)
    BY <1>1, KanalTip DEF ProdajaTipovi
  <1>3. ASSUME NEW d \in Dokument, dok[d].status \notin Potvrdjena
        PROVE  dok[d].obrada = "OTVOREN" /\ promet[d] = 0 /\ nalog[d] = 0
    <2>1. DokumentOK(d) /\ promet[d] \in Nat /\ nalog[d] \in Nat
      BY <1>1 DEF ProdajaInv, DokumentiOK
    <2> QED BY <1>3, <2>1 DEF DokumentOK
  <1> QED BY <1>1, <1>2, <1>3

LEMMA PomjeriLagerOcuva ==
  ASSUME ProdajaInv, NEW w \in Radnik, PomjeriLager(w)
  PROVE  ProdajaInv' /\ DokumentiNaprijed
  <1>1. /\ radnik[w].pc = "lager" /\ promet' = Pomjereno("RACUN")
        /\ Zavrsi(w) \/ Idi(w, "knjizenje")
        /\ kanal' = kanal /\ dok' = dok /\ nalog' = nalog /\ servis' = servis
    BY DEF PomjeriLager, Kod, Poslije, NaknadnoKnjizenje
  <1>2. Kasa /\ dok["RACUN"].status \in Potvrdjena
    BY <1>1, PosaoFakti DEF PosaoOK, KanalPosla
  <1>3. /\ promet' \in [Dokument -> Nat] /\ promet'["STORNO"] = promet["STORNO"]
        /\ promet'["RACUN"] = promet["RACUN"] \/ promet'["RACUN"] = 1
    BY <1>1, KnjigeTip DEF Pomjereno, Dokument
  <1>4. KnjigeOK'
    <2>1. ~Kancelarija /\ ~Agencijska /\ ~Kancelarija' /\ ~Agencijska'
      BY <1>1, <1>2, KnjigeTip DEF Kancelarija, Agencijska
    <2>2. \A d \in Dokument : promet'[d] <= 1 /\ nalog'[d] <= 1
      BY <1>1, <1>3, <2>1 DEF ProdajaInv, KnjigeOK, Dokument
    <2> QED BY <1>1, <1>2, <2>1, <2>2 DEF ProdajaInv, KnjigeOK, Kasa
  <1>5. Knjizenje
    BY <1>1, <1>2, <1>3, <1>4, KnjigeTip, RadnikKnjizenja DEF Knjizenje, Pisanje, Dokument, ProdajaTipovi
  <1> QED BY <1>5, KnjizenjeOcuva

\* A journal of a transfer, with the request that asks for it or by a user.
LEMMA VirmanOcuva ==
  ASSUME ProdajaInv, NEW d \in Dokument, ProknjiziVirman(d) \/ UNCHANGED <<dok, nalog>>,
         Kasa, UNCHANGED <<kanal, promet, servis>>,
         radnik' = radnik \/ \E w \in Radnik : Zavrsi(w)
  PROVE  ProdajaInv' /\ DokumentiNaprijed
  <1>1. CASE ProknjiziVirman(d)
    <2>1. /\ dok[d].status \in Potvrdjena /\ dok[d].obrada = "OTVOREN"
          /\ dok' = [dok EXCEPT ![d].obrada = "ZAVRSEN"]
          /\ nalog' = [nalog EXCEPT ![d] = @ + 1]
      BY <1>1 DEF ProknjiziVirman, Fiskalizovan, Potvrdjena
    <2>2. /\ dok' \in [Dokument -> Dokumenti] /\ \A e \in Dokument \ {d} : dok'[e] = dok[e]
          /\ dok'[d].status = dok[d].status /\ dok'[d].udaljeni = dok[d].udaljeni
          /\ dok'[d].verzija = dok[d].verzija /\ dok'[d].obrada = "ZAVRSEN"
      BY <2>1, KnjigeTip, ObradaOcuva
    <2>3. nalog[d] = 0
      BY <2>1 DEF ProdajaInv, KnjigeOK
    <2>4. /\ nalog' \in [Dokument -> Nat] /\ \A e \in Dokument \ {d} : nalog'[e] = nalog[e]
          /\ nalog'[d] = 1
      BY <2>1, <2>3, KnjigeTip
    <2>5. ~Kancelarija /\ ~Agencijska /\ ~Kancelarija' /\ ~Agencijska'
      BY KnjigeTip DEF Kancelarija, Agencijska
    <2>6. KnjigeOK'
      <3>1. \A e \in Dokument : promet'[e] <= 1 /\ nalog'[e] <= 1
        BY <2>4, <2>5 DEF ProdajaInv, KnjigeOK
      <3>2. \A e \in Dokument : dok'[e].obrada = "OTVOREN" => nalog'[e] = 0
        BY <2>2, <2>4 DEF ProdajaInv, KnjigeOK
      <3> QED BY <2>5, <3>1, <3>2 DEF KnjigeOK, Kasa
    <2> QED BY <2>1, <2>2, <2>4, <2>6, KnjigeTip, RadnikKnjizenja, KnjizenjeOcuva DEF Knjizenje, Pisanje
  <1>2. CASE UNCHANGED <<dok, nalog>>
    <2>1. KnjigeOK'
      BY <1>2 DEF ProdajaInv, KnjigeOK, Kasa, Kancelarija, Agencijska
    <2> QED BY <1>2, <2>1, KnjigeTip, RadnikKnjizenja, KnjizenjeOcuva DEF Knjizenje, Pisanje, ProdajaTipovi
  <1> QED BY <1>1, <1>2

LEMMA PraviPazarOcuva ==
  ASSUME ProdajaInv, PraviPazar
  PROVE  ProdajaInv' /\ DokumentiNaprijed
  <1>1. /\ Kasa /\ kanal' = kanal /\ promet' = promet /\ nalog' = nalog /\ servis' = servis /\ radnik' = radnik
        /\ dok' = [d \in Dokument |-> IF d \in ZaPazar THEN [dok[d] EXCEPT !.obrada = "U_PAZARU"] ELSE dok[d]]
    BY DEF PraviPazar, knjige
  <1>2. \A o \in Dokumenti : LET m == [o EXCEPT !.obrada = "U_PAZARU"] IN
          /\ m \in Dokumenti /\ m.status = o.status /\ m.udaljeni = o.udaljeni /\ m.verzija = o.verzija
          /\ m.obrada = "U_PAZARU"
    BY DEF Dokumenti
  <1>3. \A d \in Dokument : dok[d] \in Dokumenti /\ (d \in ZaPazar => dok[d].status \in Potvrdjena)
    BY KnjigeTip DEF ProdajaTipovi, ZaPazar, Fiskalizovan, Potvrdjena
  <1>4. dok' \in [Dokument -> Dokumenti]
    BY <1>1, <1>2, <1>3
  <1>5. \A d \in Dokument :
          /\ dok'[d].status = dok[d].status /\ dok'[d].udaljeni = dok[d].udaljeni
          /\ dok'[d].verzija = dok[d].verzija
          /\ dok[d].status \in Potvrdjena \/ dok'[d].obrada = dok[d].obrada
          /\ dok'[d].obrada = dok[d].obrada \/ dok'[d].obrada = "U_PAZARU"
    BY <1>1, <1>2, <1>3
  <1>6. KnjigeOK'
    <2>1. ~Kancelarija /\ ~Agencijska /\ ~Kancelarija' /\ ~Agencijska'
      BY <1>1, KnjigeTip DEF Kancelarija, Agencijska
    <2>2. \A d \in Dokument : promet'[d] <= 1 /\ nalog'[d] <= 1
      BY <1>1, <2>1 DEF ProdajaInv, KnjigeOK
    <2> QED BY <1>1, <1>5, <2>1, <2>2 DEF ProdajaInv, KnjigeOK, Kasa
  <1>7. Knjizenje
    BY <1>1, <1>4, <1>5, <1>6, KnjigeTip DEF Knjizenje, Pisanje, ProdajaTipovi
  <1> QED BY <1>7, KnjizenjeOcuva

LEMMA IstekniZakupOcuva ==
  ASSUME ProdajaInv, NEW d \in Dokument, IstekniZakup(d)
  PROVE  ProdajaInv' /\ DokumentiNaprijed
  <1>1. /\ kanal' = kanal /\ promet' = promet /\ nalog' = nalog /\ servis' = servis /\ radnik' = radnik
        /\ dok' = [dok EXCEPT ![d].svjez = FALSE]
    BY DEF IstekniZakup, knjige
  <1> DEFINE m == [dok[d] EXCEPT !.svjez = FALSE]
  <1>2. dok[d] \in Dokumenti /\ dok' = [dok EXCEPT ![d] = m]
    BY <1>1, KnjigeTip DEF ProdajaTipovi
  <1>3. /\ m \in Dokumenti /\ m.status = dok[d].status /\ m.udaljeni = dok[d].udaljeni
        /\ m.verzija = dok[d].verzija /\ m.obrada = dok[d].obrada
    BY <1>2 DEF m, Dokumenti
  <1> HIDE DEF m
  <1>4. dok' \in [Dokument -> Dokumenti] /\ \A e \in Dokument :
          /\ dok'[e].status = dok[e].status /\ dok'[e].udaljeni = dok[e].udaljeni
          /\ dok'[e].verzija = dok[e].verzija /\ dok'[e].obrada = dok[e].obrada
    BY <1>2, <1>3, KnjigeTip DEF ProdajaTipovi
  <1>5. KnjigeOK'
    BY <1>1, <1>4 DEF ProdajaInv, KnjigeOK, Kasa, Kancelarija, Agencijska, Portal, Dokument
  <1>6. Knjizenje
    BY <1>1, <1>4, <1>5, KnjigeTip DEF Knjizenje, Pisanje, ProdajaTipovi
  <1> QED BY <1>6, KnjizenjeOcuva

LEMMA RacunZavrsen ==
  ASSUME ProdajaTipovi, dok' = [dok EXCEPT !["RACUN"].obrada = "ZAVRSEN"]
  PROVE  /\ dok' \in [Dokument -> Dokumenti] /\ dok'["STORNO"] = dok["STORNO"]
         /\ dok'["RACUN"].status = dok["RACUN"].status /\ dok'["RACUN"].udaljeni = dok["RACUN"].udaljeni
         /\ dok'["RACUN"].verzija = dok["RACUN"].verzija /\ dok'["RACUN"].obrada = "ZAVRSEN"
  <1>1. PICK d \in Dokument, s \in {"ZAVRSEN", "U_PAZARU"} : d = "RACUN" /\ s = "ZAVRSEN"
    BY DEF Dokument
  <1>2. dok' = [dok EXCEPT ![d].obrada = s]
    BY <1>1
  <1> QED BY <1>1, <1>2, ObradaOcuva DEF Dokument

LEMMA StornoZavrsen ==
  ASSUME ProdajaTipovi, dok' = [dok EXCEPT !["STORNO"].obrada = "ZAVRSEN"]
  PROVE  /\ dok' \in [Dokument -> Dokumenti] /\ dok'["RACUN"] = dok["RACUN"]
         /\ dok'["STORNO"].status = dok["STORNO"].status /\ dok'["STORNO"].udaljeni = dok["STORNO"].udaljeni
         /\ dok'["STORNO"].verzija = dok["STORNO"].verzija /\ dok'["STORNO"].obrada = "ZAVRSEN"
  <1>1. PICK d \in Dokument, s \in {"ZAVRSEN", "U_PAZARU"} : d = "STORNO" /\ s = "ZAVRSEN"
    BY DEF Dokument
  <1>2. dok' = [dok EXCEPT ![d].obrada = s]
    BY <1>1
  <1> QED BY <1>1, <1>2, ObradaOcuva DEF Dokument

LEMMA KnjigeKancelarije ==
  ASSUME ProdajaInv, kanal' = kanal, NEW d \in Dokument, Dovrsi(d)
  PROVE  /\ Kancelarija /\ dok' \in [Dokument -> Dokumenti]
         /\ promet' \in [Dokument -> Nat] /\ nalog' \in [Dokument -> Nat]
         /\ \A e \in Dokument :
              /\ dok'[e].status = dok[e].status /\ dok'[e].udaljeni = dok[e].udaljeni
              /\ dok'[e].verzija = dok[e].verzija
              /\ \/ dok[e].status \in Potvrdjena
                 \/ dok'[e].obrada = dok[e].obrada /\ promet'[e] = promet[e] /\ nalog'[e] = nalog[e]
         /\ KnjigeOK'
  <1>1. (Kasa' <=> Kasa) /\ (Kancelarija' <=> Kancelarija) /\ (Agencijska' <=> Agencijska)
    BY DEF Kasa, Kancelarija, Agencijska
  <1>2. KnjigeOK
    BY DEF ProdajaInv
  <1>3. CASE d = "RACUN" /\ FinalizeOutgoingInvoice
    <2>1. /\ Agencijska /\ dok["RACUN"].status \in Potvrdjena /\ dok["RACUN"].obrada = "OTVOREN"
          /\ promet' = [promet EXCEPT !["RACUN"] = @ + 1]
          /\ \/ dok' = [dok EXCEPT !["RACUN"].obrada = "ZAVRSEN"] /\ nalog' = [nalog EXCEPT !["RACUN"] = @ + 1]
             \/ dok' = dok /\ nalog' \in {nalog, [nalog EXCEPT !["RACUN"] = @ + 1]}
      BY <1>3 DEF FinalizeOutgoingInvoice, Zavrsen, Fiskalizovan, Potvrdjena
    <2>2. /\ promet' \in [Dokument -> Nat] /\ promet'["RACUN"] = promet["RACUN"] + 1
          /\ promet'["STORNO"] = promet["STORNO"] /\ promet'["RACUN"] > 0
      BY <2>1, KnjigeTip DEF Dokument
    <2>3. /\ nalog' \in [Dokument -> Nat] /\ nalog'["STORNO"] = nalog["STORNO"]
          /\ nalog'["RACUN"] = nalog["RACUN"] \/ nalog'["RACUN"] > 0
          /\ dok' # dok => nalog'["RACUN"] > 0
      BY <2>1, KnjigeTip DEF Dokument
    <2>4. /\ dok' \in [Dokument -> Dokumenti] /\ dok'["STORNO"] = dok["STORNO"]
          /\ dok'["RACUN"].status = dok["RACUN"].status /\ dok'["RACUN"].udaljeni = dok["RACUN"].udaljeni
          /\ dok'["RACUN"].verzija = dok["RACUN"].verzija
          /\ dok' = dok \/ dok'["RACUN"].obrada = "ZAVRSEN"
      <3>1. CASE dok' = dok
        BY <3>1, KnjigeTip DEF ProdajaTipovi
      <3>2. CASE dok' = [dok EXCEPT !["RACUN"].obrada = "ZAVRSEN"]
        BY <3>2, KnjigeTip, RacunZavrsen
      <3> QED BY <3>1, <3>2, <2>1
    <2>5. Kancelarija /\ ~Kasa
      BY <2>1, KnjigeTip
    <2>6. KnjigeOK'
      BY <1>1, <1>2, <2>1, <2>2, <2>3, <2>4, <2>5 DEF KnjigeOK, Dokument
    <2> QED BY <2>1, <2>2, <2>3, <2>4, <2>5, <2>6 DEF Dokument
  <1>4. CASE d = "RACUN" /\ FinalizeFiscalOnly
    <2>1. /\ Kancelarija /\ ~Agencijska /\ dok["RACUN"].status \in Potvrdjena /\ nalog' = nalog
          /\ promet' = IF promet["RACUN"] = 0 THEN [promet EXCEPT !["RACUN"] = 1] ELSE promet
          /\ dok' = [dok EXCEPT !["RACUN"].obrada = "ZAVRSEN"]
      BY <1>4 DEF FinalizeFiscalOnly, Zavrsen, Fiskalizovan, Potvrdjena
    <2>2. /\ promet' \in [Dokument -> Nat] /\ promet'["RACUN"] > 0
          /\ promet'["STORNO"] = promet["STORNO"]
          /\ promet'["RACUN"] = promet["RACUN"] \/ promet'["RACUN"] = 1
      BY <2>1, KnjigeTip DEF Dokument
    <2>3. /\ dok' \in [Dokument -> Dokumenti] /\ dok'["STORNO"] = dok["STORNO"]
          /\ dok'["RACUN"].status = dok["RACUN"].status /\ dok'["RACUN"].udaljeni = dok["RACUN"].udaljeni
          /\ dok'["RACUN"].verzija = dok["RACUN"].verzija /\ dok'["RACUN"].obrada = "ZAVRSEN"
      BY <2>1, KnjigeTip, RacunZavrsen
    <2>4. ~Kasa
      BY <2>1, KnjigeTip
    <2>5. KnjigeOK'
      BY <1>1, <1>2, <2>1, <2>2, <2>3, <2>4 DEF KnjigeOK, Dokument
    <2> QED BY <2>1, <2>2, <2>3, <2>5, KnjigeTip DEF Dokument
  <1>5. CASE d = "STORNO" /\ FinishOfficeStorno
    <2>1. /\ Agencijska /\ dok["STORNO"].status \in Potvrdjena /\ dok["STORNO"].obrada # "ZAVRSEN"
          /\ dok["RACUN"].obrada = "ZAVRSEN" /\ promet["RACUN"] > 0
          /\ promet' = [promet EXCEPT !["STORNO"] = @ + 1]
          /\ nalog' = [nalog EXCEPT !["STORNO"] = @ + 1]
          /\ dok' = [dok EXCEPT !["STORNO"].obrada = "ZAVRSEN"]
      BY <1>5 DEF FinishOfficeStorno, Zavrsen, Fiskalizovan, Potvrdjena
    <2>2. Kancelarija /\ ~Kasa
      BY <2>1, KnjigeTip
    <2>3. promet["STORNO"] = 0 /\ nalog["STORNO"] = 0 /\ nalog["RACUN"] > 0
      BY <1>2, <2>1, <2>2 DEF KnjigeOK
    <2>4. /\ promet' \in [Dokument -> Nat] /\ nalog' \in [Dokument -> Nat]
          /\ promet'["RACUN"] = promet["RACUN"] /\ nalog'["RACUN"] = nalog["RACUN"]
          /\ promet'["STORNO"] = 1 /\ nalog'["STORNO"] = 1
      BY <2>1, <2>3, KnjigeTip DEF Dokument
    <2>5. /\ dok' \in [Dokument -> Dokumenti] /\ dok'["RACUN"] = dok["RACUN"]
          /\ dok'["STORNO"].status = dok["STORNO"].status /\ dok'["STORNO"].udaljeni = dok["STORNO"].udaljeni
          /\ dok'["STORNO"].verzija = dok["STORNO"].verzija /\ dok'["STORNO"].obrada = "ZAVRSEN"
      BY <2>1, KnjigeTip, StornoZavrsen
    <2>6. KnjigeOK'
      BY <1>1, <1>2, <2>1, <2>2, <2>3, <2>4, <2>5 DEF KnjigeOK, Dokument
    <2> QED BY <2>1, <2>2, <2>4, <2>5, <2>6 DEF Dokument
  <1> QED BY <1>3, <1>4, <1>5 DEF Dovrsi

LEMMA DovrsiOcuva ==
  ASSUME ProdajaInv, NEW d \in Dokument,
         Dovrsi(d) \/ UNCHANGED <<dok, knjige>>, UNCHANGED <<kanal, servis>>,
         radnik' = radnik \/ \E w \in Radnik : Zavrsi(w)
  PROVE  ProdajaInv' /\ DokumentiNaprijed
  <1>1. CASE Dovrsi(d)
    <2>1. /\ dok' \in [Dokument -> Dokumenti]
          /\ promet' \in [Dokument -> Nat] /\ nalog' \in [Dokument -> Nat]
          /\ \A e \in Dokument :
               /\ dok'[e].status = dok[e].status /\ dok'[e].udaljeni = dok[e].udaljeni
               /\ dok'[e].verzija = dok[e].verzija
               /\ \/ dok[e].status \in Potvrdjena
                  \/ dok'[e].obrada = dok[e].obrada /\ promet'[e] = promet[e] /\ nalog'[e] = nalog[e]
          /\ KnjigeOK'
      BY <1>1, KnjigeKancelarije
    <2> QED BY <2>1, KnjigeTip, RadnikKnjizenja, KnjizenjeOcuva DEF Knjizenje, Pisanje
  <1>2. CASE UNCHANGED <<dok, knjige>>
    <2>1. KnjigeOK'
      BY <1>2 DEF ProdajaInv, KnjigeOK, Kasa, Kancelarija, Agencijska, knjige
    <2> QED BY <1>2, <2>1, KnjigeTip, RadnikKnjizenja, KnjizenjeOcuva DEF Knjizenje, Pisanje, ProdajaTipovi, knjige
  <1> QED BY <1>1, <1>2

---------------------------------------------------------------------------
(* Drafts, links and the original of a storno *)

\* The invoice is written, changed or deleted before it is claimed.
LEMMA NacrtOcuva ==
  ASSUME ProdajaInv, KreirajNacrt \/ SnimiNacrt \/ ObrisiNacrt
  PROVE  ProdajaInv' /\ DokumentiNaprijed
  <1>1. /\ kanal' = kanal /\ promet' = promet /\ nalog' = nalog /\ servis' = servis /\ radnik' = radnik
        /\ dok["RACUN"].status \in PrijeZahtjeva
        /\ \/ dok' = [dok EXCEPT !["RACUN"].status = "DRAFT"]
           \/ dok' = [dok EXCEPT !["RACUN"].status = "OBRISAN"]
           \/ dok' = [dok EXCEPT !["RACUN"].verzija = 1 - dok["RACUN"].verzija]
    BY DEF KreirajNacrt, SnimiNacrt, ObrisiNacrt, MozeIzmjena, Nacrt, knjige, PrijeZahtjeva
  <1> DEFINE m == [dok["RACUN"] EXCEPT !.status = "DRAFT"]
             o == [dok["RACUN"] EXCEPT !.status = "OBRISAN"]
             p == [dok["RACUN"] EXCEPT !.verzija = 1 - dok["RACUN"].verzija]
  <1>2. dok["RACUN"] \in Dokumenti /\ (dok' = [dok EXCEPT !["RACUN"] = m]
          \/ dok' = [dok EXCEPT !["RACUN"] = o] \/ dok' = [dok EXCEPT !["RACUN"] = p])
    BY <1>1, KnjigeTip DEF ProdajaTipovi
  <1>3. m \in Dokumenti /\ o \in Dokumenti /\ p \in Dokumenti
    BY <1>2 DEF m, o, p, Dokumenti
  <1>4. /\ m.status = "DRAFT" /\ m.obrada = dok["RACUN"].obrada /\ m.udaljeni = dok["RACUN"].udaljeni
        /\ o.status = "OBRISAN" /\ o.obrada = dok["RACUN"].obrada /\ o.udaljeni = dok["RACUN"].udaljeni
        /\ p.status = dok["RACUN"].status /\ p.obrada = dok["RACUN"].obrada /\ p.udaljeni = dok["RACUN"].udaljeni
    BY <1>2 DEF m, o, p, Dokumenti
  <1> HIDE DEF m, o, p
  <1>5. /\ dok' \in [Dokument -> Dokumenti] /\ dok'["STORNO"] = dok["STORNO"]
        /\ dok'["RACUN"].status \in PrijeZahtjeva /\ dok'["RACUN"].obrada = dok["RACUN"].obrada
        /\ dok'["RACUN"].udaljeni = dok["RACUN"].udaljeni
    BY <1>1, <1>2, <1>3, <1>4, KnjigeTip DEF ProdajaTipovi, PrijeZahtjeva, Dokument
  <1>6. (Kasa' <=> Kasa) /\ (Kancelarija' <=> Kancelarija) /\ (Portal' <=> Portal) /\ (JedanKljuc' <=> JedanKljuc)
        /\ (Agencijska' <=> Agencijska)
    BY <1>1 DEF Kasa, Kancelarija, Portal, JedanKljuc, Agencijska
  <1>7. ProdajaTipovi' /\ ProdajaTipovi /\ StornoOK /\ JedanPise
    BY <1>1, <1>5 DEF ProdajaTipovi, ProdajaInv, DokumentiOK, PosloviOK
  <1>8. ASSUME NEW e \in Dokument PROVE DokumentOK(e)'
    <2>1. DokumentOK(e)
      BY DEF ProdajaInv, DokumentiOK
    <2>2. CASE e = "STORNO"
      BY <2>1, <2>2, <1>1, <1>5, DokumentOstaje
    <2>3. CASE e = "RACUN"
      BY <2>1, <2>3, <1>1, <1>5, <1>6, KnjigeTip DEF DokumentOK, VezaOK, Od, PrijeZahtjeva, Potvrdjena
    <2> QED BY <2>2, <2>3 DEF Dokument
  <1>9. StornoOK'
    BY <1>1, <1>5, <1>6, <1>7 DEF StornoOK, PrijeZahtjeva, Potvrdjena, Fiskalizovan
  <1>10. Naprijed
    <2>1. DokumentiNaprijed
      BY <1>1, <1>5 DEF DokumentiNaprijed, PrijeZahtjeva, Potvrdjena, Dokument
    <2> QED BY <1>1, <2>1 DEF Naprijed, ServisRaste
  <1>11. \A e \in Dokument : e # "STORNO" =>
           dok[e].status \in PrijeZahtjeva /\ dok'[e].status \in PrijeZahtjeva
    BY <1>1, <1>5 DEF Dokument
  <1>12. ASSUME NEW v \in Radnik PROVE PosaoOK(v)'
    <2>1. PosaoOK(v) /\ radnik[v].dok \in Dokument
      BY PosaoFakti
    <2>2. dok[radnik[v].dok].status = "PENDING" => dok'[radnik[v].dok].status = "PENDING"
      BY <2>1, <1>5, <1>11 DEF PrijeZahtjeva
    <2> QED BY <2>1, <2>2, <1>1, <1>7, <1>9, <1>10, PosaoOstaje
  <1>13. JedanPise'
    <2>1. ASSUME NEW v \in Radnik, Pise(v)', dok'[radnik'[v].dok].status = "PENDING"
          PROVE  Pise(v) /\ radnik'[v].dok = radnik[v].dok /\ dok[radnik[v].dok].status = "PENDING"
      BY <2>1, <1>1, <1>5, <1>11, PosaoFakti DEF Pise, PrijeZahtjeva
    <2> QED BY <2>1, <1>1, <1>7, JedanPiseOstaje
  <1>14. StornoAgencije'
    <2>1. \A k \in Od("STORNO") : Potvrdjen(k)' => Potvrdjen(k)
      BY <1>1 DEF Potvrdjen
    <2> QED BY <2>1, <1>1, <1>5, StornoAgencijeOstaje DEF ProdajaInv, Pise
  <1>15. KnjigeOK'
    <2>1. \A e \in Dokument : dok'[e].obrada = dok[e].obrada
      BY <1>5 DEF Dokument
    <2> QED BY <1>1, <1>6, <2>1 DEF KnjigeOK, ProdajaInv, Dokument
  <1> QED BY <1>10, <1>7, <1>8, <1>9, <1>12, <1>13, <1>14, <1>15 DEF Naprijed, ProdajaInv, DokumentiOK, PosloviOK

LEMMA UpisiVezuOcuva ==
  ASSUME ProdajaInv, NEW w \in Radnik, UpisiVezu(w)
  PROVE  ProdajaInv' /\ DokumentiNaprijed
  <1>0. PICK d \in Dokument, u \in Kljuc \cup {Nema}, b \in BOOLEAN :
          d = radnik[w].dok /\ u = radnik[w].udaljeni /\ b = (dok[d].svjez \/ radnik[w].nacin = "faktura")
    BY PosaoFakti
  <1>1. radnik[w].pc = "veza" /\ kanal' = kanal /\ promet' = promet /\ nalog' = nalog /\ servis' = servis
    BY DEF UpisiVezu, Kod, knjige
  <1>2. ProdajaTipovi /\ PosaoOK(w) /\ KanalPosla(w) /\ StornoOK /\ DokumentOK(d) /\ Kancelarija /\ ~Kasa
        /\ JedanKljuc
    BY <1>0, <1>1, PosaoFakti, KanalTip DEF PosaoOK, KanalPosla, ProdajaTipovi, JedanKljuc
  <1>3. (Kasa' <=> Kasa) /\ (Kancelarija' <=> Kancelarija) /\ (Portal' <=> Portal) /\ (JedanKljuc' <=> JedanKljuc)
        /\ (Agencijska' <=> Agencijska)
    BY <1>1 DEF Kasa, Kancelarija, Portal, JedanKljuc, Agencijska
  <1>4. dok[d].status \notin PrijeZahtjeva /\ VezaOK(d, u) /\ u # Nema /\ radnik[w].verzija = dok[d].verzija
        /\ radnik[w].kljuc = 0 /\ (radnik[w].vidjen => Potvrdjen(u)) /\ u \in Od(d)
    BY <1>0, <1>1, <1>2 DEF PosaoOK, VezaOK
  <1>5. CASE Idi(w, "promasaj") /\ dok' = dok
    <2>1. SamoServis /\ \A l \in Od("STORNO") : Potvrdjen(l)' => Potvrdjen(l)
      BY <1>1, <1>5, ServisIsti
    <2> QED BY <1>1, <1>2, <1>5, <2>1, IdiNapreduje
  <1>6. CASE /\ dok' = [dok EXCEPT ![d].udaljeni = u, ![d].svjez = b]
             /\ Idi(w, IF radnik[w].vidjen THEN "sacuvaj" ELSE "fiskalizuj")
    <2> DEFINE m == [dok[d] EXCEPT !.udaljeni = u, !.svjez = b]
    <2>1. dok[d] \in Dokumenti /\ dok' = [dok EXCEPT ![d] = m]
      BY <1>2, <1>6 DEF ProdajaTipovi
    <2>2. m \in Dokumenti
      BY <2>1 DEF m, Dokumenti
    <2>3. m.status = dok[d].status /\ m.obrada = dok[d].obrada /\ m.udaljeni = u /\ m.verzija = dok[d].verzija
      BY <2>1 DEF m, Dokumenti
    <2> HIDE DEF m
    <2>4. /\ dok' \in [Dokument -> Dokumenti] /\ \A e \in Dokument \ {d} : dok'[e] = dok[e]
          /\ dok'[d].status = dok[d].status /\ dok'[d].obrada = dok[d].obrada /\ dok'[d].udaljeni = u
          /\ dok'[d].verzija = dok[d].verzija
      BY <1>2, <2>1, <2>2, <2>3 DEF ProdajaTipovi
    <2>5. PICK c \in {"sacuvaj", "fiskalizuj"} : Idi(w, c) /\ (c = "sacuvaj" => radnik[w].vidjen)
      BY <1>6
    <2>6. /\ radnik' \in [Radnik -> Poslovi] /\ \A v \in Radnik \ {w} : radnik'[v] = radnik[v]
          /\ radnik'[w].pc = c /\ radnik'[w].nacin = radnik[w].nacin /\ radnik'[w].dok = d
          /\ radnik'[w].kljuc = 0 /\ radnik'[w].udaljeni = u /\ radnik'[w].verzija = radnik[w].verzija
      BY <1>0, <1>2, <1>4, <2>5, IdiOcuva
    <2>7. ProdajaTipovi'
      BY <1>1, <1>2, <2>4, <2>6 DEF ProdajaTipovi
    <2>8. dok[d].status \in Potvrdjena => dok[d].udaljeni = u
      BY <1>2, <1>4, KljucTip DEF DokumentOK, VezaOK, Potvrdjen
    <2>9. VezaOK(d, u)' /\ (Potvrdjen(u) => Potvrdjen(u)')
      BY <1>1, <1>3, <1>4 DEF VezaOK, Potvrdjen, Od
    <2>10. ASSUME NEW e \in Dokument PROVE DokumentOK(e)'
      <3>1. CASE e = d
        BY <3>1, <1>1, <1>2, <1>3, <1>4, <2>4, <2>8, <2>9 DEF DokumentOK, Od
      <3>2. CASE e # d
        BY <3>2, <1>1, <2>4, DokumentOstaje DEF ProdajaInv, DokumentiOK
      <3> QED BY <3>1, <3>2
    <2>11. StornoOK'
      BY <1>2, <1>3, <2>4 DEF StornoOK, Fiskalizovan, Dokument
    <2>12. Naprijed
      BY <1>1, <2>4, <2>8 DEF Naprijed, ServisRaste, DokumentiNaprijed
    <2>13. KanalPosla(w)'
      BY <1>0, <1>1, <1>2, <1>3, <2>6 DEF KanalPosla
    <2>14. ASSUME NEW v \in Radnik PROVE PosaoOK(v)'
      <3>1. CASE v = w
        BY <3>1, <1>2, <1>3, <1>4, <2>4, <2>5, <2>6, <2>9, <2>13 DEF PosaoOK
      <3>2. CASE v # w
        <4>1. PosaoOK(v)
          BY PosaoFakti
        <4> QED BY <3>2, <4>1, <1>2, <2>6, <2>7, <2>11, <2>12, PosaoOstaje
      <3> QED BY <3>1, <3>2
    <2>15. JedanPise' /\ StornoAgencije'
      BY <1>2, <1>3 DEF JedanPise, StornoAgencije
    <2>16. KnjigeOK'
      <3>1. \A e \in Dokument : dok'[e].obrada = dok[e].obrada
        BY <2>4
      <3> QED BY <1>1, <1>3, <3>1 DEF KnjigeOK, ProdajaInv, Dokument
    <2> QED BY <2>12, <2>7, <2>10, <2>11, <2>14, <2>15, <2>16 DEF Naprijed, ProdajaInv, DokumentiOK, PosloviOK
  <1> QED BY <1>0, <1>5, <1>6 DEF UpisiVezu

LEMMA SacuvajOriginalOcuva ==
  ASSUME ProdajaInv, NEW w \in Radnik, SacuvajOriginal(w)
  PROVE  ProdajaInv' /\ DokumentiNaprijed
  <1>1. /\ radnik[w].pc = "cuvaj_original" /\ Zavrsi(w) /\ dok' = [dok EXCEPT !["RACUN"].status = "STORNO"]
        /\ kanal' = kanal /\ promet' = promet /\ nalog' = nalog /\ servis' = servis
    BY DEF SacuvajOriginal, SaOriginalom, Kod, knjige
  <1>2. Kasa /\ Fiskalizovan("STORNO") /\ StornoOK /\ JedanPise
    BY <1>1, PosaoFakti DEF PosaoOK, KanalPosla, ProdajaInv, PosloviOK
  <1>3. /\ ProdajaTipovi /\ dok \in [Dokument -> Dokumenti] /\ dok["RACUN"].status \in Potvrdjena
        /\ "RACUN" \in Dokument
    BY <1>2, KnjigeTip DEF StornoOK, Fiskalizovan, ProdajaTipovi
  <1>4. /\ dok' \in [Dokument -> Dokumenti] /\ dok'["STORNO"] = dok["STORNO"] /\ StornoOriginala
    BY <1>1, <1>3, OriginalStorniran DEF StornoOriginala
  <1>5. /\ radnik' \in [Radnik -> Poslovi] /\ \A v \in Radnik \ {w} : radnik'[v] = radnik[v]
        /\ radnik'[w].pc = "miran"
    BY <1>1, <1>3, ZavrsiOcuva
  <1>6. ProdajaTipovi'
    BY <1>1, <1>3, <1>4, <1>5 DEF ProdajaTipovi
  <1>7. (Kasa' <=> Kasa) /\ (Kancelarija' <=> Kancelarija) /\ (Portal' <=> Portal) /\ (JedanKljuc' <=> JedanKljuc)
        /\ (Agencijska' <=> Agencijska)
    BY <1>1 DEF Kasa, Kancelarija, Portal, JedanKljuc, Agencijska
  <1>8. ASSUME NEW e \in Dokument PROVE DokumentOK(e)'
    <2>1. DokumentOK(e)
      BY DEF ProdajaInv, DokumentiOK
    <2>2. CASE e = "STORNO"
      BY <2>1, <2>2, <1>1, <1>4, DokumentOstaje
    <2>3. CASE e = "RACUN"
      <3>1. PICK q : q = dok["RACUN"].udaljeni
        OBVIOUS
      <3>2. VezaOK(e, q)' /\ Potvrdjen(q)'
        BY <2>1, <2>3, <3>1, <1>1, <1>3, <1>7 DEF DokumentOK, VezaOK, Potvrdjen, Od
      <3> QED BY <2>1, <2>3, <3>1, <3>2, <1>1, <1>3, <1>4, <1>7
           DEF StornoOriginala, DokumentOK, Od, PrijeZahtjeva, Potvrdjena
    <2> QED BY <2>2, <2>3 DEF Dokument
  <1>9. StornoOK'
    BY <1>2, <1>4, <1>7 DEF StornoOK, StornoOriginala, Potvrdjena, Fiskalizovan
  <1>10. Naprijed
    <2>1. DokumentiNaprijed
      BY <1>3, <1>4 DEF DokumentiNaprijed, StornoOriginala, PrijeZahtjeva, Potvrdjena, Dokument
    <2> QED BY <1>1, <2>1 DEF Naprijed, ServisRaste
  <1>11. \A e \in Dokument : dok[e].status = "PENDING" \/ dok'[e].status = "PENDING" =>
           dok'[e].status = dok[e].status
    BY <1>3, <1>4 DEF StornoOriginala, Potvrdjena, Dokument
  <1>12. ASSUME NEW v \in Radnik PROVE PosaoOK(v)'
    <2>1. CASE v = w
      BY <2>1, <1>5 DEF PosaoOK
    <2>2. CASE v # w
      <3>1. PosaoOK(v) /\ radnik[v].dok \in Dokument
        BY PosaoFakti
      <3> QED BY <2>2, <3>1, <1>2, <1>3, <1>5, <1>6, <1>9, <1>10, <1>11, PosaoOstaje
    <2> QED BY <2>1, <2>2
  <1>13. JedanPise'
    <2>1. ASSUME NEW v \in Radnik, Pise(v)', dok'[radnik'[v].dok].status = "PENDING"
          PROVE  Pise(v) /\ radnik'[v].dok = radnik[v].dok /\ dok[radnik[v].dok].status = "PENDING"
      <3>1. radnik'[v] = radnik[v] /\ radnik[v].dok \in Dokument
        BY <2>1, <1>5, PosaoFakti DEF Pise
      <3> QED BY <2>1, <3>1, <1>11 DEF Pise
    <2> QED BY <2>1, <1>1, <1>2, JedanPiseOstaje
  <1>14. StornoAgencije'
    <2>1. \A k \in Od("STORNO") : Potvrdjen(k)' => Potvrdjen(k)
      BY <1>1 DEF Potvrdjen
    <2>2. \A v \in Radnik : Pise(v)' /\ radnik'[v].dok = "STORNO" =>
            Pise(v) /\ radnik[v].dok = "STORNO" /\ radnik'[v].udaljeni = radnik[v].udaljeni
      BY <1>5 DEF Pise
    <2> QED BY <2>1, <2>2, <1>1, <1>4, StornoAgencijeOstaje DEF ProdajaInv
  <1>15. KnjigeOK'
    <2>1. \A e \in Dokument : dok'[e].obrada = dok[e].obrada
      BY <1>4 DEF StornoOriginala, Dokument
    <2> QED BY <1>1, <1>7, <2>1 DEF KnjigeOK, ProdajaInv, Dokument
  <1> QED BY <1>10, <1>6, <1>8, <1>9, <1>12, <1>13, <1>14, <1>15 DEF Naprijed, ProdajaInv, DokumentiOK, PosloviOK

---------------------------------------------------------------------------
(* The invariant *)

LEMMA PocetakProdaje == Init => ProdajaInv
  <1> SUFFICES ASSUME Init PROVE ProdajaInv
    OBVIOUS
  <1>1. /\ kanal \in Kanal /\ dok = [d \in Dokument |-> Prazan]
        /\ promet = [d \in Dokument |-> 0] /\ nalog = [d \in Dokument |-> 0]
        /\ servis = [k \in Kljuc |-> [stanje |-> "NEMA", verzija |-> 0]]
        /\ radnik = [w \in Radnik |-> Miran]
    BY DEF Init, FiskalInit
  <1>2. \A d \in Dokument : dok[d] = Prazan /\ promet[d] = 0 /\ nalog[d] = 0
    BY <1>1
  <1>3. \A k \in Kljuc : servis[k].stanje = "NEMA"
    BY <1>1
  <1>4. \A w \in Radnik : radnik[w].pc = "miran"
    BY <1>1, MiranTip
  <1>5. Prazan.status = "NEMA" /\ Prazan.udaljeni = Nema /\ Prazan.obrada = "OTVOREN"
    BY DEF Prazan
  <1>6. ProdajaTipovi
    <2>1. [stanje |-> "NEMA", verzija |-> 0] \in Udaljeni
      BY DEF Udaljeni
    <2> QED BY <1>1, <2>1, DokumentIzmjena, MiranTip DEF ProdajaTipovi
  <1>7. ASSUME NEW d \in Dokument PROVE DokumentOK(d)
    BY <1>2, <1>3, <1>5 DEF DokumentOK, VezaOK, Od, PrijeZahtjeva, Potvrdjena
  <1>8. StornoOK
    BY <1>2, <1>5 DEF StornoOK, Dokument
  <1>9. PosloviOK /\ StornoAgencije
    BY <1>3, <1>4 DEF PosloviOK, PosaoOK, JedanPise, StornoAgencije, Pise, Potvrdjen
  <1>10. KnjigeOK
    BY <1>2, <1>5 DEF KnjigeOK, Dokument
  <1> QED BY <1>6, <1>7, <1>8, <1>9, <1>10 DEF ProdajaInv, DokumentiOK

LEMMA KorakKase ==
  ASSUME ProdajaInv, KasaNext
  PROVE  ProdajaInv' /\ DokumentiNaprijed
  <1>1. ASSUME NEW w \in Radnik, Prodaj(w) PROVE ProdajaInv' /\ DokumentiNaprijed
    BY <1>1, ProdajOcuva
  <1>2. ASSUME NEW w \in Radnik, Storniraj(w) PROVE ProdajaInv' /\ DokumentiNaprijed
    BY <1>2, StornirajOcuva
  <1>3. ASSUME NEW w \in Radnik, PonoviPortal(w) PROVE ProdajaInv' /\ DokumentiNaprijed
    BY <1>3, KnjigeTip, PonoviOcuva
  <1>4. ASSUME NEW w \in Radnik, NEW d \in Dokument, PonoviAgencija(w, d) PROVE ProdajaInv' /\ DokumentiNaprijed
    BY <1>4, PonoviOcuva
  <1>5. ASSUME NEW w \in Radnik, OdbijPonovni(w) PROVE ProdajaInv' /\ DokumentiNaprijed
    BY <1>5, OdbijPonovniOcuva
  <1>6. ASSUME NEW w \in Radnik, SacuvajProdaju(w) PROVE ProdajaInv' /\ DokumentiNaprijed
    BY <1>6, SacuvajProdajuOcuva
  <1>7. ASSUME NEW w \in Radnik, PomjeriLager(w) PROVE ProdajaInv' /\ DokumentiNaprijed
    BY <1>7, PomjeriLagerOcuva
  <1>8. ASSUME NEW w \in Radnik, SacuvajSaLagerom(w) PROVE ProdajaInv' /\ DokumentiNaprijed
    BY <1>8, SacuvajSaLageromOcuva
  <1>9. ASSUME NEW w \in Radnik, Sacuvano(w) PROVE ProdajaInv' /\ DokumentiNaprijed
    BY <1>9, SacuvanoOcuva
  <1>10. ASSUME NEW w \in Radnik, SacuvajOriginal(w) PROVE ProdajaInv' /\ DokumentiNaprijed
    BY <1>10, SacuvajOriginalOcuva
  <1>11. ASSUME NEW w \in Radnik, KnjiziPoslijeProdaje(w) PROVE ProdajaInv' /\ DokumentiNaprijed
    <2>1. PICK d \in Dokument : d = radnik[w].dok
      BY PosaoFakti
    <2>2. /\ ProknjiziVirman(d) \/ UNCHANGED <<dok, nalog>>
          /\ Kasa /\ UNCHANGED <<kanal, promet, servis>> /\ Zavrsi(w)
      BY <1>11, <2>1 DEF KnjiziPoslijeProdaje
    <2> QED BY <2>2, VirmanOcuva
  <1>12. ASSUME NEW d \in Dokument, DovrsiVirman(d) PROVE ProdajaInv' /\ DokumentiNaprijed
    <2>1. /\ ProknjiziVirman(d) /\ Kasa /\ UNCHANGED <<kanal, promet, servis>> /\ radnik' = radnik
      BY <1>12 DEF DovrsiVirman, ProknjiziVirman
    <2> QED BY <2>1, VirmanOcuva
  <1>13. CASE PraviPazar
    BY <1>13, PraviPazarOcuva
  <1> QED BY <1>1, <1>2, <1>3, <1>4, <1>5, <1>6, <1>7, <1>8, <1>9, <1>10, <1>11, <1>12, <1>13 DEF KasaNext

LEMMA KorakFakture ==
  ASSUME ProdajaInv, FakturaNext
  PROVE  ProdajaInv' /\ DokumentiNaprijed
  <1>1. CASE KreirajNacrt \/ SnimiNacrt \/ ObrisiNacrt
    BY <1>1, NacrtOcuva
  <1>2. ASSUME NEW w \in Radnik, ZatraziFiskalizaciju(w) PROVE ProdajaInv' /\ DokumentiNaprijed
    BY <1>2, ZatraziFiskalizacijuOcuva
  <1>3. ASSUME NEW w \in Radnik, Ucitaj(w) PROVE ProdajaInv' /\ DokumentiNaprijed
    BY <1>3, UcitajOcuva
  <1>4. ASSUME NEW w \in Radnik, ZatraziStorno(w) PROVE ProdajaInv' /\ DokumentiNaprijed
    BY <1>4, ZatraziStornoOcuva
  <1>5. ASSUME NEW w \in Radnik, UpisiVezu(w) PROVE ProdajaInv' /\ DokumentiNaprijed
    BY <1>5, UpisiVezuOcuva
  <1>6. ASSUME NEW w \in Radnik, SacuvajFakturu(w) \/ SacuvanaFaktura(w) PROVE ProdajaInv' /\ DokumentiNaprijed
    BY <1>6, SacuvajFakturuOcuva
  <1>7. ASSUME NEW w \in Radnik, PromasajStorna(w) PROVE ProdajaInv' /\ DokumentiNaprijed
    BY <1>7, PromasajStornaOcuva
  <1>8. ASSUME NEW w \in Radnik, DovrsiPoslije(w) PROVE ProdajaInv' /\ DokumentiNaprijed
    <2>1. PICK d \in Dokument : d = radnik[w].dok
      BY PosaoFakti
    <2>2. /\ Dovrsi(d) \/ UNCHANGED <<dok, knjige>>
          /\ UNCHANGED <<kanal, servis>> /\ Zavrsi(w)
      BY <1>8, <2>1 DEF DovrsiPoslije
    <2> QED BY <2>2, DovrsiOcuva
  <1>9. ASSUME NEW d \in Dokument, IstekniZakup(d) PROVE ProdajaInv' /\ DokumentiNaprijed
    BY <1>9, IstekniZakupOcuva
  <1>10. ASSUME NEW d \in Dokument, DovrsiRucno(d) PROVE ProdajaInv' /\ DokumentiNaprijed
    <2>1. Dovrsi(d) /\ UNCHANGED <<kanal, servis>> /\ radnik' = radnik
      BY <1>10 DEF DovrsiRucno
    <2> QED BY <2>1, DovrsiOcuva
  <1> QED BY <1>1, <1>2, <1>3, <1>4, <1>5, <1>6, <1>7, <1>8, <1>9, <1>10 DEF FakturaNext

LEMMA KorakProdaje ==
  ASSUME ProdajaInv, [Next]_vars
  PROVE  ProdajaInv' /\ DokumentiNaprijed
  <1>1. CASE KasaNext
    BY <1>1, KorakKase
  <1>2. CASE FakturaNext
    BY <1>2, KorakFakture
  <1>3. ASSUME NEW w \in Radnik, Udaljeno(w) PROVE ProdajaInv' /\ DokumentiNaprijed
    <2>1. CASE Kreiraj(w)
      BY <2>1, KreirajOcuva
    <2>2. CASE Pregledaj(w)
      BY <2>2, PregledajOcuva
    <2>3. CASE Fiskalizuj(w)
      BY <2>3, FiskalizujOcuva
    <2>4. CASE NeSacuvaj(w)
      BY <2>4, NeSacuvajOcuva
    <2>5. CASE Prekid(w)
      BY <2>5, PrekidOcuva
    <2> QED BY <1>3, <2>1, <2>2, <2>3, <2>4, <2>5 DEF Udaljeno
  <1>4. ASSUME NEW w \in Radnik, Promasaj(w) PROVE ProdajaInv' /\ DokumentiNaprijed
    BY <1>4, PromasajOcuva
  <1>5. CASE UNCHANGED vars
    <2>1. /\ kanal' = kanal /\ dok' = dok /\ promet' = promet /\ nalog' = nalog /\ servis' = servis
          /\ radnik' = radnik
      BY <1>5 DEF vars
    <2>2. KnjigeOK'
      BY <2>1 DEF ProdajaInv, KnjigeOK, Kasa, Kancelarija, Agencijska
    <2>3. Knjizenje
      BY <2>1, <2>2, KnjigeTip DEF Knjizenje, Pisanje, ProdajaTipovi
    <2> QED BY <2>3, KnjizenjeOcuva
  <1> QED BY <1>1, <1>2, <1>3, <1>4, <1>5 DEF Next

\* Requests, documents, service and books stay consistent: the invariant of every step of
\* Next, from which the theorems below follow.
THEOREM ProdajaUvijekUredna == Spec => []ProdajaInv
  <1>1. ProdajaInv /\ [Next]_vars => ProdajaInv'
    BY KorakProdaje
  <1> QED BY PocetakProdaje, <1>1, PTL DEF Spec

---------------------------------------------------------------------------
(* Theorems *)

LEMMA InvJedanRacun ==
  ASSUME ProdajaInv
  PROVE  JedanRacun
  <1> SUFFICES ASSUME NEW d \in Dokument, ~(NoviKljucRacuna /\ d = "RACUN")
               PROVE  /\ Cardinality(Potvrdjeni(d)) <= 1
                      /\ \A k \in Potvrdjeni(d) : servis[k].verzija = dok[d].verzija
    BY DEF JedanRacun
  <1>1. DokumentOK(d) /\ ProdajaTipovi /\ StornoAgencije
    BY DEF ProdajaInv, DokumentiOK
  <1>2. \A k \in Potvrdjeni(d) : k \in Od(d) /\ Potvrdjen(k) /\ servis[k].stanje # "NEMA"
    BY DEF Potvrdjeni, Od, Potvrdjen
  <1>3. \A k \in Potvrdjeni(d) : servis[k].verzija = dok[d].verzija
    BY <1>1, <1>2 DEF DokumentOK
  <1>4. \A k, l \in Potvrdjeni(d) : k = l
    <2>1. CASE JedanKljuc
      BY <2>1, <1>1, <1>2 DEF DokumentOK
    <2>2. CASE ~JedanKljuc
      <3>1. Kasa /\ ~Portal
        BY <2>2, <1>1, KanalTip DEF ProdajaTipovi
      <3>2. kanal.mjesto = "AGENCIJA"
        BY <3>1, <1>1, FiskalPretpostavke DEF ProdajaTipovi, Portal
      <3>3. d = "STORNO"
        BY <3>1, <3>2 DEF NoviKljucRacuna, Kasa, Dokument
      <3> QED BY <1>1, <1>2, <3>1, <3>3 DEF StornoAgencije
    <2> QED BY <2>1, <2>2
  <1>5. Cardinality(Potvrdjeni(d)) <= 1
    <2>1. CASE Potvrdjeni(d) = {}
      BY <2>1, FS_EmptySet
    <2>2. CASE Potvrdjeni(d) # {}
      <3>1. PICK k : Potvrdjeni(d) = {k}
        BY <1>4, <2>2
      <3>2. Cardinality(Potvrdjeni(d)) = 1
        BY <3>1, FS_Singleton, Zenon
      <3> QED BY <3>2
    <2> QED BY <2>1, <2>2
  <1> QED BY <1>3, <1>5

LEMMA InvSamoPotvrdjeno ==
  ASSUME ProdajaInv
  PROVE  SamoPotvrdjeno
  <1>1. \A d \in Dokument : DokumentOK(d)
    BY DEF ProdajaInv, DokumentiOK
  <1>2. StornoOK
    BY DEF ProdajaInv, DokumentiOK
  <1> QED BY <1>1, <1>2 DEF SamoPotvrdjeno, DokumentOK, StornoOK, Potvrdjena

LEMMA InvKnjigePrateDokument ==
  ASSUME ProdajaInv
  PROVE  KnjigePrateDokument
  <1>1. /\ Kancelarija <=> kanal.tip = "KANC"
        /\ Agencijska <=> kanal.tip = "KANC" /\ kanal.mjesto = "AGENCIJA"
    BY DEF Kancelarija, Agencijska
  <1>2. \A d \in Dokument : promet[d] > 0 => Potvrdjen(dok[d].udaljeni)
    BY DEF ProdajaInv, DokumentiOK, DokumentOK
  <1>3. /\ ~Agencijska => \A d \in Dokument : promet[d] <= 1 /\ nalog[d] <= 1
        /\ promet["STORNO"] <= 1 /\ nalog["STORNO"] <= 1
        /\ Kancelarija =>
             /\ dok["RACUN"].obrada = "ZAVRSEN" => promet["RACUN"] > 0
             /\ promet["STORNO"] > 0 => nalog["RACUN"] > 0 /\ dok["RACUN"].obrada = "ZAVRSEN"
    BY KnjigeTip DEF ProdajaInv, KnjigeOK
  <1> QED BY <1>1, <1>2, <1>3 DEF KnjigePrateDokument

\* A document has at most one confirmed document of the service, with its content, however
\* many requests, attempts, lost answers and crashes: retries reuse the key, or fiscalize
\* what the link names.  Receipts that the agency retries are excepted, as the code has it.
THEOREM UvijekJedanRacun == Spec => []JedanRacun
  <1>1. ProdajaInv => JedanRacun
    BY InvJedanRacun
  <1> QED BY ProdajaUvijekUredna, <1>1, PTL

\* What is called fiscalized, put in the takings or completed was confirmed by the service;
\* an original is annulled only after its correction.
THEOREM UvijekSamoPotvrdjeno == Spec => []SamoPotvrdjeno
  <1>1. ProdajaInv => SamoPotvrdjeno
    BY InvSamoPotvrdjeno
  <1> QED BY ProdajaUvijekUredna, <1>1, PTL

\* No failure, late answer, retry or crash takes a confirmation back or turns it to another
\* document of the service.
THEOREM PotvrdjenoUvijekOstaje == Spec => PotvrdjenoOstaje
  <1>1. ProdajaInv /\ [Next]_vars =>
          [\A d \in Dokument : dok[d].status \in {"FISCALIZED", "STORNO"} =>
             /\ dok'[d].status \in {"FISCALIZED", "STORNO"}
             /\ dok'[d].udaljeni = dok[d].udaljeni]_vars
    BY KorakProdaje DEF DokumentiNaprijed, Potvrdjena
  <1> QED BY ProdajaUvijekUredna, <1>1, PTL DEF Spec, PotvrdjenoOstaje

\* Stock and journals follow the document: once for receipts and portal invoices, complete
\* for a completed invoice of the agency, its storno after it and once.
THEOREM KnjigeUvijekPrateDokument == Spec => []KnjigePrateDokument
  <1>1. ProdajaInv => KnjigePrateDokument
    BY InvKnjigePrateDokument
  <1> QED BY ProdajaUvijekUredna, <1>1, PTL
=============================================================================
