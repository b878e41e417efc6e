---------------------------- MODULE Zatvaranja ----------------------------
(***************************************************************************)
(* Settlement of open items (lib/settlements.ts and zatvaranje-stavki/     *)
(* actions.ts; the proposals are in Plan) and the opening balance that     *)
(* carries them into the next year (pocetno-stanje/actions.ts).            *)
(*                                                                         *)
(* Every operation first locks the company's row, so only one of them      *)
(* runs at a time; the journal actions of module Nalozi take no such lock  *)
(* and run between its steps.  The ledger an operation loads is therefore  *)
(* stale by the time it locks the journals and reads them again.           *)
(*                                                                         *)
(* Analitika is one analytic account, its cards the account's partners.    *)
(* Projected bank allocations from before the settlement tables, access    *)
(* rights and the payment status of invoices are left out.                 *)
(***************************************************************************)
EXTENDS Nalozi, Plan

---------------------------------------------------------------------------
(* loadSettlementLedger(year g, cutoff d), with pr as the carry records *)

Direktne(g, d) ==
  {s \in Stavka : /\ stavke[s].nalog # Nema
                  /\ stavke[s].kartica \in Analitika
                  /\ LET n == stavke[s].nalog
                     IN Proknjizen(n) /\ nalozi[n].godina = g /\ nalozi[n].datum <= d}
Prenesene(g, d, pr) ==
  {p \in pr : Proknjizen(p[1]) /\ nalozi[p[1]].godina = g /\ nalozi[p[1]].datum <= d}
Mapirani(g, d, pr) == {p[1] : p \in Prenesene(g, d, pr)}
IzvorneStavke(g, d, pr) == {p[2] : p \in Prenesene(g, d, pr)}

\* Per card, the opening journals' lines add up to the carried detail.
RazradaSeSlaze(g, d, pr, K) ==
  \A k \in K :
    LET NaKartici(S) == {s \in S : stavke[s].kartica = k}
        opening == {s \in Direktne(g, d) : stavke[s].nalog \in Mapirani(g, d, pr)}
    IN Mapirani(g, d, pr) # {} =>
         Zbir(NaKartici(opening)) = Zbir(NaKartici(IzvorneStavke(g, d, pr)))

\* Carried lines replace the lines of the opening journal that carries them.
StavkeKnjige(g, d, pr) ==
  {s \in {s \in Direktne(g, d) : stavke[s].nalog \notin Mapirani(g, d, pr)}
           \cup IzvorneStavke(g, d, pr) : stavke[s].iznos # 0}

\* An edge consumes from its effective date until it is cancelled.
Vazi(v, d) == v.datum <= d /\ (Aktivna(v) \/ v.ponisteno > d)
Potroseno(s, d) == ZbirIznosa({v \in VezeStavke(s) : Vazi(v, d)})
Preostalo(s, d) ==
  IF stavke[s].iznos > 0 THEN stavke[s].iznos - Potroseno(s, d)
                         ELSE stavke[s].iznos + Potroseno(s, d)

SnimakStavke(s, d) ==
  [id |-> s, nalog |-> stavke[s].nalog, kartica |-> stavke[s].kartica,
   iznos |-> stavke[s].iznos, datum |-> nalozi[stavke[s].nalog].datum,
   preostalo |-> Preostalo(s, d)]
Knjiga(g, d, pr) == {SnimakStavke(s, d) : s \in StavkeKnjige(g, d, pr)}

---------------------------------------------------------------------------
(* settleInTransaction *)

\* Previewing the oldest-first proposal gives the page its fingerprint.
Otisak(items) == {<<i.id, i.preostalo>> : i \in items}
PartneriKnjige(g, d, K) == {i \in Knjiga(g, d, prenosi) : i.kartica \in K}

PreviewOldest(r, g, d, K) ==
  /\ Miruje(r)
  /\ DatumUGodini(d, g)
  /\ RazradaSeSlaze(g, d, prenosi, K)
  /\ PlanPoStarosti(PartneriKnjige(g, d, K)) # {}
  /\ Nastavi(r, [Mirovanje EXCEPT !.pc = "preview", !.godina = g, !.datum = d,
                   !.kartice = K, !.otisak = Otisak(PartneriKnjige(g, d, K)),
                   !.plan = PlanPoStarosti(PartneriKnjige(g, d, K))])
  /\ UNCHANGED <<tabele, brave>>

\* What writeSettlementPair asks of the items it was given.
PlanVazi(items, plan, d) ==
  \A q \in plan :
    \E i, j \in items :
      /\ i.id = q.d /\ j.id = q.p
      /\ i.kartica = j.kartica /\ q.iznos > 0
      /\ d >= i.datum /\ d >= j.datum
      /\ ZbirIznosa({x \in plan : x.d = q.d}) <= i.preostalo
      /\ ZbirIznosa({x \in plan : x.p = q.p}) <= -j.preostalo

\* The company is locked, the ledger loaded, and the plan, which is made from
\* it, checked against it; the request keeps the items the plan names.
PocniZatvaranje(r, g, d, items, plan) ==
  LET planirane == {i \in items : \E q \in plan : i.id \in {q.d, q.p}} IN
  /\ Slobodno(r, Firma)
  /\ RazradaSeSlaze(g, d, prenosi, Analitika)
  /\ plan # {}
  /\ PlanVazi(items, plan, d)
  /\ brave' = SaZakljucanim(r, {Firma})
  /\ Nastavi(r, [Mirovanje EXCEPT !.pc = "settleCheck", !.godina = g, !.datum = d,
                   !.slika = planirane, !.plan = plan,
                   !.ceka = {RedNaloga(i.nalog) : i \in planirane}])
  /\ UNCHANGED tabele

SettleManual(r, g, d, par) ==
  /\ Miruje(r)
  /\ DatumUGodini(d, g)
  /\ PocniZatvaranje(r, g, d, Knjiga(g, d, prenosi), {par})

\* SELECTED: the oldest-first plan of the marked lines, settled as MANUAL.
SettleSelected(r, g, d, oznacene) ==
  /\ Miruje(r)
  /\ DatumUGodini(d, g)
  /\ LET items == Knjiga(g, d, prenosi)
     IN PocniZatvaranje(r, g, d, items,
          PlanPoStarosti({i \in items : i.id \in oznacene}))

SettleExact(r, g, d, K) ==
  /\ Miruje(r)
  /\ DatumUGodini(d, g)
  /\ PocniZatvaranje(r, g, d, PartneriKnjige(g, d, K), PlanTacno(PartneriKnjige(g, d, K)))

\* Mutant: the proposal is confirmed without comparing fingerprints.
SettleOldestBezOtiska(r) ==
  LET z == zahtjevi[r]
      items == PartneriKnjige(z.godina, z.datum, z.kartice)
  IN /\ z.pc = "preview"
     /\ PocniZatvaranje(r, z.godina, z.datum, items, PlanPoStarosti(items))

SettleOldest(r) ==
  LET z == zahtjevi[r]
      items == PartneriKnjige(z.godina, z.datum, z.kartice)
  IN /\ z.pc = "preview"
     /\ IF z.otisak = Otisak(items)
        THEN PocniZatvaranje(r, z.godina, z.datum, items, PlanPoStarosti(items))
        ELSE Slobodno(r, Firma) /\ Odustani(r)

\* Mutant: the line is read again, its journal's status is not.
StavkaIstaBezStatusa(i) ==
  /\ stavke[i.id].nalog # Nema
  /\ stavke[i.id].kartica = i.kartica
  /\ stavke[i.id].iznos = i.iznos

\* The line is as it was when the ledger was loaded, in a posted journal.
StavkaIsta(i) ==
  /\ stavke[i.id].nalog # Nema
  /\ Proknjizen(stavke[i.id].nalog)
  /\ stavke[i.id].kartica = i.kartica
  /\ stavke[i.id].iznos = i.iznos

\* The edges that settling a request's plan inserts.
NoveVeze(z) ==
  {[rb |-> Cardinality(zatvaranja), d |-> q.d, p |-> q.p, iznos |-> q.iznos,
    datum |-> z.datum, ponisteno |-> 0] : q \in z.plan}

\* Mutant: only the ledger's remaining amount at the cutoff is respected.
StaneUPreostalo(z, i) ==
  ZbirIznosa({v \in NoveVeze(z) : i.id \in {v.d, v.p}}) <= Apsolutno(i.iznos)

\* The amounts of all active edges of a line and of the new ones fit the line.
StaneUStavku(z, i) ==
  ZbirIznosa(AktivneVeze(i.id)) + ZbirIznosa({v \in NoveVeze(z) : i.id \in {v.d, v.p}})
    <= Apsolutno(i.iznos)

\* writeSettlementPair for every pair: lock the lines' journals, read again.
WriteSettlementPairs(r) ==
  LET z == zahtjevi[r] IN
  /\ z.pc = "settleCheck"
  /\ MozeDalje(r)
  /\ IF /\ \A i \in z.slika : /\ StavkaIsta(i)
                               /\ nalozi[stavke[i.id].nalog].datum <= z.datum
                               /\ StaneUStavku(z, i)
        /\ Cardinality(zatvaranja) + Cardinality(z.plan) <= MaxVeza
     THEN /\ brave' = SaZakljucanim(r, {RedNaloga(i.nalog) : i \in z.slika})
          /\ Nastavi(r, [z EXCEPT !.pc = "settleCommit", !.ceka = {RedGodine(z.godina)}])
          /\ UNCHANGED tabele
     ELSE Odustani(r)

\* The edges share the year's row and appear at the commit, all of them.
SettleCommit(r) ==
  LET z == zahtjevi[r] IN
  /\ z.pc = "settleCommit"
  /\ MozeDalje(r)
  /\ zatvaranja' = zatvaranja \cup NoveVeze(z)
  /\ Zavrsi(r)
  /\ UNCHANGED <<zakljucena, nalozi, stavke, prenosi>>

---------------------------------------------------------------------------
(* cancelSettlements *)

\* The active edges of card k whose two lines are in the ledger at date d.
VezeKartice(g, d, k) ==
  LET ids == {s \in StavkeKnjige(g, d, prenosi) : stavke[s].kartica = k}
  IN {v \in zatvaranja : Aktivna(v) /\ v.datum <= d /\ v.d \in ids /\ v.p \in ids}

Ponistene(V, d) == {IF v \in V THEN [v EXCEPT !.ponisteno = d] ELSE v : v \in zatvaranja}

\* edges_revision: the ids of the edges.
Revizija(V) == {<<v.d, v.p, v.rb>> : v \in V}

\* The company's lock is taken and released within the step: between the
\* reading and the commit no other step touches the edges.
CancelSettlement(r, g, d, v) ==
  /\ Miruje(r)
  /\ Slobodno(r, Firma)
  /\ DatumUGodini(d, g)
  /\ LET k == stavke[v.d].kartica
     IN v \in VezeKartice(g, d, k) /\ RazradaSeSlaze(g, d, prenosi, {k})
  /\ zatvaranja' = Ponistene({v}, d)
  /\ UNCHANGED <<zakljucena, nalozi, stavke, prenosi, brave, zahtjevi>>

\* The page shows the card's edges; their ids come back as its revision.
PreviewCancelAll(r, g, d, k) ==
  /\ Miruje(r)
  /\ DatumUGodini(d, g)
  /\ RazradaSeSlaze(g, d, prenosi, {k})
  /\ VezeKartice(g, d, k) # {}
  /\ Nastavi(r, [Mirovanje EXCEPT !.pc = "cancelPreview", !.godina = g, !.datum = d,
                   !.kartice = {k}, !.otisak = Revizija(VezeKartice(g, d, k))])
  /\ UNCHANGED <<tabele, brave>>

\* Mutant: the shown revision is not compared.
CancelAllBezRevizije(r) ==
  LET z == zahtjevi[r]
      V == VezeKartice(z.godina, z.datum, CHOOSE k \in z.kartice : TRUE)
  IN /\ z.pc = "cancelPreview"
     /\ Slobodno(r, Firma)
     /\ zatvaranja' = Ponistene(V, z.datum)
     /\ Zavrsi(r)
     /\ UNCHANGED <<zakljucena, nalozi, stavke, prenosi>>

CancelAllSettlements(r) ==
  LET z == zahtjevi[r]
      k == CHOOSE k \in z.kartice : TRUE
      V == VezeKartice(z.godina, z.datum, k)
  IN /\ z.pc = "cancelPreview"
     /\ Slobodno(r, Firma)
     /\ IF /\ RazradaSeSlaze(z.godina, z.datum, prenosi, {k})
           /\ Revizija(V) = z.otisak
        THEN /\ zatvaranja' = Ponistene(V, z.datum)
             /\ Zavrsi(r)
             /\ UNCHANGED <<zakljucena, nalozi, stavke, prenosi>>
        ELSE Odustani(r)

---------------------------------------------------------------------------
(* generateOpeningBalance and carrySettlementDetails *)

\* buildOpeningBalanceLines: one line for each card with a balance.
KarticeSaldo(g) ==
  [k \in Kartica |-> Zbir({s \in Stavka : /\ stavke[s].nalog # Nema
                                          /\ stavke[s].kartica = k
                                          /\ Proknjizen(stavke[s].nalog)
                                          /\ nalozi[stavke[s].nalog].godina = g})]
PocetneStavke(g) ==
  LET saldo == KarticeSaldo(g)
  IN [k \in {k \in Kartica : saldo[k] # 0} |-> [kartica |-> k, iznos |-> saldo[k]]]

GenerateOpeningCompany(r, g) ==
  /\ Miruje(r)
  /\ g - 1 \in Godina
  /\ Slobodno(r, Firma)
  /\ ~zakljucena[g]
  /\ brave' = SaZakljucanim(r, {Firma})
  /\ Nastavi(r, [Mirovanje EXCEPT !.pc = "openingLock", !.godina = g,
                   !.vrsta = "POCETNO_AUTO", !.ceka = {Savjetna(g)}])
  /\ UNCHANGED tabele

\* Under the advisory lock the previous year's balances are read.
GenerateOpeningLock(r) ==
  LET z == zahtjevi[r]
      unos == PocetneStavke(z.godina - 1)
  IN /\ z.pc = "openingLock"
     /\ MozeDalje(r)
     /\ IF \/ ImaPocetno(z.godina)
           \/ DOMAIN unos = {}
           \/ ZbirFunkcije([k \in DOMAIN unos |-> unos[k].iznos]) # 0
        THEN Odustani(r)
        ELSE /\ brave' = SaZakljucanim(r, {Savjetna(z.godina)})
             /\ Nastavi(r, [z EXCEPT !.pc = "openingCarry", !.unos = unos,
                              !.ceka = {RedGodine(z.godina)}])
             /\ UNCHANGED tabele

\* The source year's ledger is read by a later statement of the same transaction.
GenerateOpeningLedger(r) ==
  LET z == zahtjevi[r]
      izvor == z.godina - 1
      items == Knjiga(izvor, DatumDo(izvor), prenosi)
  IN /\ z.pc = "openingCarry"
     /\ MozeDalje(r)
     /\ IF ~RazradaSeSlaze(izvor, DatumDo(izvor), prenosi, Analitika)
        THEN Odustani(r)
        ELSE /\ Nastavi(r, [z EXCEPT !.pc = "openingCheck", !.slika = items,
                              !.ceka = {RedGodine(z.godina)}
                                         \cup {RedNaloga(i.nalog) : i \in items}])
             /\ UNCHANGED <<tabele, brave>>

\* Mutant: the source journals are locked but not read again.
GenerateOpeningBezProvjere(r) ==
  LET z == zahtjevi[r] IN
  /\ z.pc = "openingCheck"
  /\ MozeDalje(r)
  /\ brave' = SaZakljucanim(r, {RedNaloga(i.nalog) : i \in z.slika})
  /\ Nastavi(r, [z EXCEPT !.pc = "openingCommit"])
  /\ UNCHANGED tabele

\* The source journals are locked and their lines read again.
GenerateOpeningCheck(r) ==
  LET z == zahtjevi[r] IN
  /\ z.pc = "openingCheck"
  /\ MozeDalje(r)
  /\ IF \A i \in z.slika : StavkaIsta(i)
     THEN /\ brave' = SaZakljucanim(r, {RedNaloga(i.nalog) : i \in z.slika})
          /\ Nastavi(r, [z EXCEPT !.pc = "openingCommit"])
          /\ UNCHANGED tabele
     ELSE Odustani(r)

\* The draft, its lines and the carry records are committed together.
GenerateOpeningCommit(r) ==
  LET z == zahtjevi[r]
      n == NoviNalog
  IN /\ z.pc = "openingCommit"
     /\ MozeDalje(r)
     /\ IF Raspored(z.unos) = {} \/ SvjeziNalozi = {}
        THEN Odustani(r)
        ELSE /\ nalozi' = [nalozi EXCEPT ![n] =
                  [status |-> "DRAFT", godina |-> z.godina, datum |-> DatumOd(z.godina),
                   vrsta |-> z.vrsta]]
             /\ stavke' = SaStavkama(n, z.unos)
             /\ prenosi' = prenosi \cup {<<n, i.id>> : i \in z.slika}
             /\ Zavrsi(r)
             /\ UNCHANGED <<zakljucena, zatvaranja>>

\* Mode CARRY: the detail of the one posted generated opening journal.
AutoPocetni(g) == {n \in Nalog : /\ Proknjizen(n)
                                 /\ nalozi[n].godina = g
                                 /\ nalozi[n].vrsta = "POCETNO_AUTO"}

CarryLedger(r, g, d) ==
  LET izvor == g - 1
      items == Knjiga(izvor, DatumDo(izvor), prenosi)
  IN /\ Miruje(r)
     /\ izvor \in Godina
     /\ DatumUGodini(d, g)
     /\ Slobodno(r, Firma)
     /\ Cardinality(AutoPocetni(g)) = 1
     /\ RazradaSeSlaze(izvor, DatumDo(izvor), prenosi, Analitika)
     /\ brave' = SaZakljucanim(r, {Firma})
     /\ Nastavi(r, [Mirovanje EXCEPT !.pc = "carryCheck", !.godina = g, !.datum = d,
                      !.nalog = CHOOSE n \in AutoPocetni(g) : TRUE, !.slika = items,
                      !.ceka = {RedNaloga(i.nalog) : i \in items}])
     /\ UNCHANGED tabele

CarryCheck(r) ==
  LET z == zahtjevi[r] IN
  /\ z.pc = "carryCheck"
  /\ MozeDalje(r)
  /\ IF \A i \in z.slika : StavkaIsta(i)
     THEN /\ brave' = SaZakljucanim(r, {RedNaloga(i.nalog) : i \in z.slika})
          /\ Nastavi(r, [z EXCEPT !.pc = "carryCommit",
                          !.ceka = {RedNaloga(z.nalog), RedGodine(z.godina)}])
          /\ UNCHANGED tabele
     ELSE Odustani(r)

\* createMany skips duplicates; the target ledger must then add up.
CarryCommit(r) ==
  LET z == zahtjevi[r]
      novi == prenosi \cup {<<z.nalog, i.id>> : i \in z.slika}
  IN /\ z.pc = "carryCommit"
     /\ MozeDalje(r)
     /\ IF Postoji(z.nalog) /\ RazradaSeSlaze(z.godina, z.datum, novi, Analitika)
        THEN /\ prenosi' = novi
             /\ Zavrsi(r)
             /\ UNCHANGED <<zakljucena, nalozi, stavke, zatvaranja>>
        ELSE Odustani(r)
=============================================================================
