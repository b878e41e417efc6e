------------------------------ MODULE Osnovna ------------------------------
(* Fixed assets: the register (assets, the estimates they are depreciated by, their
   usage), depreciation batches that are calculated, posted and reopened, and sales.

   Batches, activation and sale run Serializable; an asset, an estimate and usage are
   written READ COMMITTED.  All lock the rows of their years first, so a batch that waits
   there for such a writer reads the register as it was before the wait, and fails only if
   it writes a row, or meets a Serializable transaction, that came in between.

   Abstractions: time is in periods and a date is the first day of one; a batch is known
   by its period; amounts, accounts and the batch's journal, which comes and goes with its
   posting, are left out, and a form with an outdated version is a refused request, which
   is no step; "zakljucena" stands for the closed year and its LOCKED VAT periods; tax
   depreciation is not modelled. *)
EXTENDS Integers, FiniteSets

CONSTANTS
  Sredstvo,
  PoUcinku,     \* assets depreciated by units of production, the others by time
  Zatecena,     \* assets in use since the first period when the behaviour starts
  BrojPerioda, Godina,
  GodinaOd,     \* the year of a period
  Obracun,      \* batches
  PeriodOd, PeriodDo,
  Zahtjev,      \* requests that write the register or wait for it, at one time
  MaxIzmjena    \* bound: estimates and usage written

Period == 1..BrojPerioda

ASSUME OsnovnaPretpostavke ==
  /\ BrojPerioda \in Nat \ {0} /\ PoUcinku \subseteq Sredstvo /\ Zatecena \subseteq Sredstvo
  /\ Godina \subseteq Nat /\ GodinaOd \in [Period -> Godina]
  /\ PeriodOd \in [Obracun -> Period] /\ PeriodDo \in [Obracun -> Period]
  /\ \A b \in Obracun : PeriodOd[b] <= PeriodDo[b]

VARIABLES
  sredstvo,     \* osnovna_sredstva with os_parametri, os_ucinci, os_promjene
  obracun,      \* os_obracuni and their lines
  pokrice,      \* os_obracun_pokrice: the periods a batch covers of an asset
  izvor,        \* source journals of purchases and sales: posted?
  zakljucena,   \* of a year
  zahtjev,      \* requests in progress
  izmjene,
  presjek       \* history: batches posted from a register older than their lock

vars == <<sredstvo, obracun, pokrice, izvor, zakljucena, zahtjev, izmjene, presjek>>
obracuni == <<obracun, pokrice, presjek>>

NemaSredstva == [status |-> "NEMA", od |-> 0, kraj |-> 0, priprema |-> 0, nabavka |-> FALSE,
                 procjene |-> {}, ucinak |-> [p \in Period |-> 0]]
Unijeto(p, status) == [NemaSredstva EXCEPT !.status = status, !.od = p, !.procjene = {p}]
NemaObracuna == [status |-> "NEMA", svjez |-> FALSE, pokriva |-> [a \in Sredstvo |-> {}],
                 osnov |-> [a \in Sredstvo |-> <<>>]]
Miran == [pc |-> "miran", op |-> "", a |-> "", p |-> 0, v |-> 0, b |-> 0, staro |-> FALSE,
          nacrt |-> NemaObracuna]

Obuhvat(b) == PeriodOd[b]..PeriodDo[b]
GodinaObracuna(b) == GodinaOd[PeriodOd[b]]
Pokriveno(a) == UNION {pokrice[b][a] : b \in Obracun}

---------------------------------------------------------------------------
(* Locks *)

\* The years a writer of the register holds: its own, and all that follow for what
\* applies from a date on (assertFuturePeriodsOpen).
Drzi(r) ==
  LET g == GodinaOd[zahtjev[r].p]
  IN CASE zahtjev[r].pc # "pise" -> {}
       [] zahtjev[r].op = "sredstvo" -> {g}
       [] OTHER -> {h \in Godina : h >= g}
Slobodna(g) == \A r \in Zahtjev : g \notin Drzi(r)
Radi(g) == Slobodna(g) /\ ~zakljucena[g]
Cekaju == {r \in Zahtjev : zahtjev[r].pc = "ceka"}
CekajuKnjizenje == {r \in Cekaju : zahtjev[r].op = "knjizi"}
CekajuObracun(b) == {r \in Cekaju : zahtjev[r].b = b}
\* The register has changed since the snapshots of those that wait.
Zastarjeli == [r \in Zahtjev |-> IF r \in Cekaju THEN [zahtjev[r] EXCEPT !.staro = TRUE]
                                 ELSE zahtjev[r]]
\* Serialization failures: what waits will be refused, or start again.
BezOvih(Q, z) == [r \in Zahtjev |-> IF r \in Q THEN Miran ELSE z[r]]
\* Every write of an asset changes its version, and so the hash of all that was calculated.
Zastari == [b \in Obracun |-> [obracun[b] EXCEPT !.svjez = FALSE]]

---------------------------------------------------------------------------
(* The register, READ COMMITTED under the years' rows *)

\* assertAssetHistoryUnposted
Neproknjizeno(a, p) == \A q \in Pokriveno(a) : q < p
ProcjenaDozvoljena(a, p) ==
  LET s == sredstvo[a]
  IN /\ s.status = "AKTIVNO" /\ Neproknjizeno(a, p) /\ \A q \in s.procjene : q < p
     /\ a \in PoUcinku => /\ \A q \in Period : q >= p => s.ucinak[q] = 0
                          /\ \A q \in s.od..(p - 1) : s.ucinak[q] # 0
\* The usage of a period is entered or deleted.
UcinakDozvoljen(a, p, v) ==
  LET s == sredstvo[a]
  IN /\ s.status \in {"AKTIVNO", "PRODATO"} /\ a \in PoUcinku
     /\ p >= s.od /\ (s.kraj # 0 => p < s.kraj) /\ v # s.ucinak[p]
     /\ Neproknjizeno(a, p) /\ \A q \in s.procjene : q <= p
Dozvoljeno(z) ==
  CASE z.op = "sredstvo" -> sredstvo[z.a].status = "NEMA"
    [] z.op = "procjena" -> izmjene < MaxIzmjena /\ ProcjenaDozvoljena(z.a, z.p)
    [] z.op = "ucinak"   -> izmjene < MaxIzmjena /\ UcinakDozvoljen(z.a, z.p, z.v)

\* createFixedAsset, createFixedAssetParameter, saveFixedAssetUsage: the years' rows.
\* (One that is refused under them is left out.)
Zapocni(r, op, a, p, v) ==
  LET z == [Miran EXCEPT !.pc = "pise", !.op = op, !.a = a, !.p = p, !.v = v]
  IN /\ zahtjev[r].pc = "miran" /\ Dozvoljeno(z)
     /\ zahtjev' = [zahtjev EXCEPT ![r] = z]
     /\ \A q \in Zahtjev \ {r} : Drzi(q) \cap Drzi(r)' = {}
     /\ \A g \in Drzi(r)' : ~zakljucena[g]
     /\ UNCHANGED <<sredstvo, obracuni, izvor, zakljucena, izmjene>>
\* An opening asset is active at once, a bought one in preparation.
Upisano(z) ==
  LET s == sredstvo[z.a]
  IN CASE z.op = "sredstvo" -> Unijeto(z.p, IF z.v = 0 THEN "PRIPREMA" ELSE "AKTIVNO")
       [] z.op = "procjena" -> [s EXCEPT !.procjene = @ \cup {z.p}]
       [] z.op = "ucinak"   -> [s EXCEPT !.ucinak[z.p] = z.v]
Upisi(r) ==
  LET z == zahtjev[r]
  IN /\ z.pc = "pise" /\ Dozvoljeno(z)
     /\ sredstvo' = [sredstvo EXCEPT ![z.a] = Upisano(z)]
     /\ obracun' = Zastari
     /\ zahtjev' = BezOvih({r}, Zastarjeli)
     /\ izmjene' = izmjene + (IF z.op = "sredstvo" THEN 0 ELSE 1)
     /\ UNCHANGED <<pokrice, presjek, izvor, zakljucena>>
OdustaniOdUpisa(r) ==
  /\ zahtjev[r].pc = "pise"
  /\ zahtjev' = [zahtjev EXCEPT ![r] = Miran]
  /\ UNCHANGED <<sredstvo, obracuni, izvor, zakljucena, izmjene>>

---------------------------------------------------------------------------
(* Depreciation batches, Serializable *)

\* buildAssetBatch: of an active or sold asset the periods it was used in...
PeriodiSredstva(s, b) ==
  IF s.status \notin {"AKTIVNO", "PRODATO"} THEN {}
  ELSE {p \in Obuhvat(b) : p >= s.od /\ (s.kraj # 0 => p < s.kraj)}
\* ...are depreciated by the estimates made so far and their usage.
Ulaz(s, b) == <<{p \in s.procjene : p <= PeriodDo[b]}, [p \in PeriodiSredstva(s, b) |-> s.ucinak[p]]>>
NacrtOd(b) ==
  [status |-> "DRAFT", svjez |-> TRUE,
   pokriva |-> [a \in Sredstvo |-> PeriodiSredstva(sredstvo[a], b)],
   osnov |-> [a \in Sredstvo |-> Ulaz(sredstvo[a], b)]]
\* Usage is missing, or there is nothing to depreciate.
Potpun(b) ==
  /\ \E a \in Sredstvo : PeriodiSredstva(sredstvo[a], b) # {}
  /\ \A a \in PoUcinku : \A p \in PeriodiSredstva(sredstvo[a], b) : sredstvo[a].ucinak[p] # 0

MozeObracun(b) == obracun[b].status # "POSTED" /\ ~zakljucena[GodinaObracuna(b)] /\ Potpun(b)
\* calculateDepreciation
Obracunaj(b) ==
  /\ MozeObracun(b) /\ Slobodna(GodinaObracuna(b))
  /\ obracun' = [obracun EXCEPT ![b] = NacrtOd(b)]
  /\ zahtjev' = BezOvih(CekajuObracun(b), zahtjev)
  /\ UNCHANGED <<sredstvo, pokrice, presjek, izvor, zakljucena, izmjene>>

\* postDepreciation: nothing is posted already, and everything before it is.
Nastavlja(b) ==
  \A a \in Sredstvo : LET K == obracun[b].pokriva[a] IN K # {} =>
    /\ K \cap Pokriveno(a) = {}
    /\ \A p \in sredstvo[a].od..(BrojPerioda) : (\E q \in K : p < q) => p \in K \cup Pokriveno(a)
\* Mutant: the hash of the register is not compared.
MozeKnjizenjeStarog(b) ==
  obracun[b].status = "DRAFT" /\ ~zakljucena[GodinaObracuna(b)] /\ Nastavlja(b)
MozeKnjizenje(b) ==
  /\ obracun[b].status = "DRAFT" /\ obracun[b].svjez /\ ~zakljucena[GodinaObracuna(b)]
  /\ Nastavlja(b)
Proknjizeno(b) ==
  /\ obracun' = [obracun EXCEPT ![b].status = "POSTED"]
  /\ pokrice' = [pokrice EXCEPT ![b] = obracun[b].pokriva]
Knjizi(b) ==
  /\ MozeKnjizenje(b) /\ Slobodna(GodinaObracuna(b))
  /\ Proknjizeno(b)
  /\ zahtjev' = BezOvih(CekajuKnjizenje \cup CekajuObracun(b), zahtjev)
  /\ UNCHANGED <<sredstvo, presjek, izvor, zakljucena, izmjene>>

\* Either waits for the year's row, with a snapshot from before.
Cekaj(r, op, b) ==
  /\ zahtjev[r].pc = "miran" /\ ~Slobodna(GodinaObracuna(b))
  /\ IF op = "knjizi" THEN MozeKnjizenje(b) ELSE MozeObracun(b)
  /\ zahtjev' = [zahtjev EXCEPT ![r] = [Miran EXCEPT !.pc = "ceka", !.op = op, !.b = b,
                   !.nacrt = IF op = "knjizi" THEN NemaObracuna ELSE NacrtOd(b)]]
  /\ UNCHANGED <<sredstvo, obracuni, izvor, zakljucena, izmjene>>
Docekao(r, op) ==
  /\ r \in Cekaju /\ zahtjev[r].op = op /\ Slobodna(GodinaObracuna(zahtjev[r].b))
ObracunajStaro(r) ==
  LET z == zahtjev[r]
  IN /\ Docekao(r, "obracunaj")
     /\ obracun' = [obracun EXCEPT ![z.b] = [z.nacrt EXCEPT !.svjez = ~z.staro]]
     /\ zahtjev' = BezOvih(CekajuObracun(z.b), zahtjev)
     /\ UNCHANGED <<sredstvo, pokrice, presjek, izvor, zakljucena, izmjene>>
KnjiziStaro(r) ==
  LET z == zahtjev[r]
  IN /\ Docekao(r, "knjizi")
     /\ Proknjizeno(z.b)
     /\ presjek' = IF z.staro THEN presjek \cup {z.b} ELSE presjek
     /\ zahtjev' = BezOvih(CekajuKnjizenje \cup CekajuObracun(z.b), zahtjev)
     /\ UNCHANGED <<sredstvo, izvor, zakljucena, izmjene>>

\* reopenDepreciation: neither a later batch nor a later sale of any of its assets.
NemaKasnijeg(b, a) ==
  \A c \in Obracun \ {b} : \A q \in pokrice[c][a] : \E p \in pokrice[b][a] : q < p
NemaProdaje(b, a) == ~(sredstvo[a].status = "PRODATO" /\ sredstvo[a].kraj > PeriodDo[b])
\* Mutant: later batches are not looked for.
MozeVracanjeBezKasnijih(b) == \A a \in Sredstvo : pokrice[b][a] # {} => NemaProdaje(b, a)
\* Mutant: later sales are not looked for.
MozeVracanjeBezProdaje(b) == \A a \in Sredstvo : pokrice[b][a] # {} => NemaKasnijeg(b, a)
MozeVracanje(b) ==
  \A a \in Sredstvo : pokrice[b][a] # {} => NemaKasnijeg(b, a) /\ NemaProdaje(b, a)
Vrati(b) ==
  /\ obracun[b].status = "POSTED" /\ Radi(GodinaObracuna(b)) /\ MozeVracanje(b)
  /\ obracun' = [obracun EXCEPT ![b].status = "DRAFT"]
  /\ pokrice' = [pokrice EXCEPT ![b] = NemaObracuna.pokriva]
  /\ presjek' = presjek \ {b}
  /\ zahtjev' = BezOvih(CekajuKnjizenje \cup CekajuObracun(b), zahtjev)
  /\ UNCHANGED <<sredstvo, izvor, zakljucena, izmjene>>
\* deleteDepreciationDraft
Obrisi(b) ==
  /\ obracun[b].status = "DRAFT" /\ Radi(GodinaObracuna(b))
  /\ obracun' = [obracun EXCEPT ![b] = NemaObracuna]
  /\ zahtjev' = BezOvih(CekajuObracun(b), zahtjev)
  /\ UNCHANGED <<sredstvo, pokrice, presjek, izvor, zakljucena, izmjene>>

---------------------------------------------------------------------------
(* Activation and sale, Serializable under the company's row *)

Promijeni(a, s) ==
  /\ sredstvo' = [sredstvo EXCEPT ![a] = s]
  /\ obracun' = Zastari
  /\ zahtjev' = BezOvih(CekajuKnjizenje, Zastarjeli)
  /\ UNCHANGED <<pokrice, presjek, izvor, zakljucena, izmjene>>
Aktiviraj(a) ==
  LET s == sredstvo[a]
  IN /\ s.status = "PRIPREMA" /\ Radi(GodinaOd[s.od]) /\ izvor["nabavka"]
     /\ Promijeni(a, [s EXCEPT !.status = "AKTIVNO", !.nabavka = TRUE])
\* createKifEntry for an asset: the invoice is dated, the sale a draft, the card unchanged.
PripremiProdaju(a, d) ==
  LET s == sredstvo[a]
  IN /\ s.status = "AKTIVNO" /\ s.priprema = 0 /\ s.od < d /\ Radi(GodinaOd[d])
     /\ sredstvo' = [sredstvo EXCEPT ![a].priprema = d]
     /\ UNCHANGED <<obracuni, izvor, zakljucena, zahtjev, izmjene>>
\* deleteKifEntry of one that is not posted.
OdustaniOdProdaje(a) ==
  /\ sredstvo[a].status = "AKTIVNO" /\ sredstvo[a].priprema # 0 /\ ~izvor["prodaja"]
  /\ ~zakljucena[GodinaOd[sredstvo[a].priprema]]
  /\ sredstvo' = [sredstvo EXCEPT ![a].priprema = 0]
  /\ UNCHANGED <<obracuni, izvor, zakljucena, zahtjev, izmjene>>
\* confirmFixedAssetSale: depreciated to the day before, and no further.
AmortizovanoDo(a, d) == Pokriveno(a) = sredstvo[a].od..(d - 1)
Prodaj(a) ==
  LET s == sredstvo[a]
  IN /\ s.status = "AKTIVNO" /\ s.priprema # 0 /\ Radi(GodinaOd[s.priprema])
     /\ izvor["prodaja"] /\ AmortizovanoDo(a, s.priprema)
     /\ Promijeni(a, [s EXCEPT !.status = "PRODATO", !.kraj = s.priprema])

---------------------------------------------------------------------------
(* The source journals, and years *)

ProknjiziIzvor(n) ==
  /\ ~izvor[n] /\ \E a \in Sredstvo : IF n = "nabavka" THEN sredstvo[a].status = "PRIPREMA"
                                                      ELSE sredstvo[a].priprema # 0
  /\ izvor' = [izvor EXCEPT ![n] = TRUE]
  /\ UNCHANGED <<sredstvo, obracuni, zakljucena, zahtjev, izmjene>>
\* reopenJournal looks for a confirmed change before its transaction, and in it again
\* under the journal's row.
JeIzvor(n) ==
  \E a \in Sredstvo : IF n = "nabavka" THEN sredstvo[a].nabavka
                                        ELSE sredstvo[a].status = "PRODATO"
ProvjeriIzvor(r, n) ==
  /\ zahtjev[r].pc = "miran" /\ izvor[n] /\ ~JeIzvor(n)
  /\ zahtjev' = [zahtjev EXCEPT ![r] = [Miran EXCEPT !.pc = "vraca", !.op = n]]
  /\ UNCHANGED <<sredstvo, obracuni, izvor, zakljucena, izmjene>>
\* Mutant: what was found before the transaction is relied on.
VratiIzvorBezProvjere(r) ==
  /\ zahtjev[r].pc = "vraca"
  /\ izvor' = [izvor EXCEPT ![zahtjev[r].op] = FALSE]
  /\ zahtjev' = [zahtjev EXCEPT ![r] = Miran]
  /\ UNCHANGED <<sredstvo, obracuni, zakljucena, izmjene>>
VratiIzvor(r) ==
  LET n == zahtjev[r].op
  IN /\ zahtjev[r].pc = "vraca"
     /\ izvor' = IF JeIzvor(n) THEN izvor ELSE [izvor EXCEPT ![n] = FALSE]
     /\ zahtjev' = [zahtjev EXCEPT ![r] = Miran]
     /\ UNCHANGED <<sredstvo, obracuni, zakljucena, izmjene>>
\* toggleBusinessYear changes the row that the others wait for.
PromijeniGodinu(g) ==
  /\ Slobodna(g) /\ zakljucena' = [zakljucena EXCEPT ![g] = ~@]
  /\ zahtjev' = BezOvih({r \in Cekaju : GodinaObracuna(zahtjev[r].b) = g}, zahtjev)
  /\ UNCHANGED <<sredstvo, obracuni, izvor, izmjene>>

---------------------------------------------------------------------------
Init ==
  /\ sredstvo = [a \in Sredstvo |-> IF a \in Zatecena THEN Unijeto(1, "AKTIVNO") ELSE NemaSredstva]
  /\ obracun = [b \in Obracun |-> NemaObracuna]
  /\ pokrice = [b \in Obracun |-> NemaObracuna.pokriva]
  /\ izvor = [n \in {"nabavka", "prodaja"} |-> FALSE]
  /\ zakljucena = [g \in Godina |-> FALSE]
  /\ zahtjev = [r \in Zahtjev |-> Miran]
  /\ izmjene = 0 /\ presjek = {}

Next ==
  \/ \E r \in Zahtjev, a \in Sredstvo, p \in Period :
       \/ \E v \in {0, 1} : Zapocni(r, "sredstvo", a, p, v)
       \/ Zapocni(r, "procjena", a, p, 0)
       \/ \E v \in {0, 1} : Zapocni(r, "ucinak", a, p, v)
  \/ \E r \in Zahtjev :
       \/ Upisi(r) \/ OdustaniOdUpisa(r)
       \/ \E op \in {"obracunaj", "knjizi"}, b \in Obracun : Cekaj(r, op, b)
       \/ ObracunajStaro(r) \/ KnjiziStaro(r)
       \/ \E n \in {"nabavka", "prodaja"} : ProvjeriIzvor(r, n)
       \/ VratiIzvor(r)
  \/ \E b \in Obracun : Obracunaj(b) \/ Knjizi(b) \/ Vrati(b) \/ Obrisi(b)
  \/ \E a \in Sredstvo :
       \/ Aktiviraj(a) \/ OdustaniOdProdaje(a) \/ Prodaj(a)
       \/ \E d \in Period : PripremiProdaju(a, d)
  \/ \E n \in {"nabavka", "prodaja"} : ProknjiziIzvor(n)
  \/ \E g \in Godina : PromijeniGodinu(g)
Spec == Init /\ [][Next]_vars

---------------------------------------------------------------------------
(* Properties *)

\* The posted depreciation of an asset has no hole and no overlap from its first period
\* on, in whatever order batches of different lengths are posted, reopened and deleted.
PokriceBezRupa ==
  \A a \in Sredstvo :
    /\ \A b, c \in Obracun : b # c => pokrice[b][a] \cap pokrice[c][a] = {}
    /\ \A p \in Pokriveno(a) : sredstvo[a].od..p \subseteq Pokriveno(a)

\* A posted batch was computed from the estimates and the usage that the register shows,
\* now as well: they do not change under it; but for one that was posted from a register
\* older than its lock.
ProknjizenoVaziSad(b) ==
  \A a \in Sredstvo : pokrice[b][a] # {} => obracun[b].osnov[a] = Ulaz(sredstvo[a], b)
ProknjizenoVazi ==
  \A b \in Obracun : obracun[b].status = "POSTED" /\ b \notin presjek => ProknjizenoVaziSad(b)
\* "proknjiženi učinak/parametri se ne mijenjaju retroaktivno": the posting that waited
\* for the one who changed them does not keep this.
NijeRetroaktivno ==
  \A b \in Obracun : obracun[b].status = "POSTED" => ProknjizenoVaziSad(b)

\* A sold asset stays depreciated exactly to the day before its sale.
ProdatoAmortizovano ==
  \A a \in Sredstvo : sredstvo[a].status = "PRODATO" => AmortizovanoDo(a, sredstvo[a].kraj)

\* The source journal of a confirmed purchase or sale stays posted, though its reopening
\* began before the confirmation.
IzvorOstajeProknjizen ==
  \A n \in {"nabavka", "prodaja"} : JeIzvor(n) => izvor[n]
=============================================================================
