------------------------------ MODULE Knjiga ------------------------------
(***************************************************************************)
(* The ledger: journal actions and settlement actions of concurrent        *)
(* requests over the same tables.                                          *)
(***************************************************************************)
EXTENDS Zatvaranja

CONSTANTS
  Akcije,       \* the server actions that users of this instance call
  Iznosi        \* the amounts a user may type for a manual settlement

ASSUME KnjigaPretpostavke == Iznosi \subseteq Nat \ {0}

Init ==
  /\ zakljucena = [g \in Godina |-> FALSE]
  /\ nalozi = [n \in Nalog |-> PrazanNalog]
  /\ stavke = [s \in Stavka |-> PraznaStavka]
  /\ zatvaranja = {}
  /\ prenosi = {}
  /\ brave = [x \in Red |-> Niko]
  /\ zahtjevi = [r \in Zahtjev |-> Mirovanje]

---------------------------------------------------------------------------
(* One disjunct per server action, its steps in their order *)

CreateJournal(r) ==
  \/ /\ "create" \in Akcije
     /\ \E g \in Godina, d \in Datum, u \in Unosi :
          CreateJournalCheck(r, g, d, "OBICAN", u)
  \/ /\ "createOpening" \in Akcije
     /\ \E g \in Godina, u \in Unosi :
          CreateJournalCheck(r, g, DatumOd(g), "POCETNO_RUCNO", u)
  \/ CreateJournalLock(r)
  \/ CreateJournalWrite(r)

OpeningImport(r) ==
  \/ /\ "import" \in Akcije
     /\ \E g \in Godina, u \in Unosi : OpeningImportCompany(r, g, u)
  \/ OpeningImportYear(r)
  \/ OpeningImportWrite(r)

UpdateDraft(r) ==
  \/ /\ "update" \in Akcije
     /\ \E n \in Nalog, u \in Unosi : UpdateDraftCheck(r, n, u)
  \/ UpdateDraftWrite(r)

PostJournal(r) ==
  \/ "post" \in Akcije /\ \E n \in Nalog : PostJournalRead(r, n)
  \/ PostJournalLockYear(r)
  \/ PostJournalCheck(r)
  \/ PostJournalCommit(r)

ReopenJournal(r) ==
  \/ "reopen" \in Akcije /\ \E n \in Nalog : ReopenJournalCheck(r, n)
  \/ ReopenJournalWrite(r)

DeleteJournal(r) ==
  \/ "delete" \in Akcije /\ \E n \in Nalog : DeleteJournalCheck(r, n)
  \/ DeleteJournalWrite(r)

Settle(r) ==
  \/ \E g \in Godina, d \in Datum :
       \/ /\ "manual" \in Akcije
          /\ \E i, j \in Knjiga(g, d, prenosi), c \in Iznosi :
               SettleManual(r, g, d, [d |-> i.id, p |-> j.id, iznos |-> c])
       \/ /\ "selected" \in Akcije
          /\ \E S \in SUBSET StavkeKnjige(g, d, prenosi) : SettleSelected(r, g, d, S)
       \/ /\ "exact" \in Akcije
          /\ SettleExact(r, g, d, Analitika)
       \/ /\ "oldest" \in Akcije
          /\ \E k \in Analitika : PreviewOldest(r, g, d, {k})
  \/ SettleOldest(r)
  \/ WriteSettlementPairs(r)
  \/ SettleCommit(r)

CancelSettlements(r) ==
  \/ \E g \in Godina, d \in Datum :
       \/ /\ "cancel" \in Akcije
          /\ \E v \in zatvaranja : CancelSettlement(r, g, d, v)
       \/ /\ "cancelAll" \in Akcije
          /\ \E k \in Analitika : PreviewCancelAll(r, g, d, k)
  \/ CancelAllSettlements(r)

GenerateOpening(r) ==
  \/ "generate" \in Akcije /\ \E g \in Godina : GenerateOpeningCompany(r, g)
  \/ GenerateOpeningLock(r)
  \/ GenerateOpeningLedger(r)
  \/ GenerateOpeningCheck(r)
  \/ GenerateOpeningCommit(r)

Carry(r) ==
  \/ /\ "carry" \in Akcije
     /\ \E g \in Godina, d \in Datum : CarryLedger(r, g, d)
  \/ CarryCheck(r)
  \/ CarryCommit(r)

---------------------------------------------------------------------------
(* Circular waits: the deadlock detector aborts a request in one *)

\* The requests that hold a row r waits for.
CekaNa(r) == {q \in Zahtjev \ {r} : \E x \in zahtjevi[r].ceka : brave[x] = q}
UZastoju(r) == \E S \in SUBSET Zahtjev :
                 r \in S /\ \A q \in S : CekaNa(q) \cap S # {}
Prekini(r) == UZastoju(r) /\ Odustani(r)

Korak(r) ==
  \/ CreateJournal(r) \/ OpeningImport(r) \/ UpdateDraft(r) \/ PostJournal(r)
  \/ ReopenJournal(r) \/ DeleteJournal(r) \/ Settle(r) \/ CancelSettlements(r)
  \/ GenerateOpening(r) \/ Carry(r) \/ Prekini(r)

Next ==
  \/ \E r \in Zahtjev : Korak(r)
  \/ "toggle" \in Akcije /\ \E g \in Godina : ToggleBusinessYear(g)

Spec == Init /\ [][Next]_vars

\* A request the server has begun; a page shown to the user is not one.
UToku(r) == zahtjevi[r].pc \notin {"miruje", "preview", "cancelPreview"}

\* The server runs a begun request on, and PostgreSQL queues its lock requests
\* first come first served, so one that is granted again and again to others
\* is granted to it too.  Nothing obliges a user to begin a request.
Pravicnost == \A r \in Zahtjev : SF_vars(UToku(r) /\ Korak(r))

---------------------------------------------------------------------------
(* Properties *)

Koraci == {"miruje", "createLock", "createWrite", "importYear", "importWrite",
           "updateWrite", "postYear", "postCheck", "postCommit", "reopenWrite",
           "deleteWrite", "preview", "settleCheck", "settleCommit", "cancelPreview",
           "openingLock", "openingCarry", "openingCheck", "openingCommit",
           "carryCheck", "carryCommit"}

\* What a request knows: its step, the rows it names and the rows it waits for.
JeZahtjev(z) ==
  /\ z = [pc |-> z.pc, nalog |-> z.nalog, godina |-> z.godina, datum |-> z.datum,
          vrsta |-> z.vrsta, unos |-> z.unos, slika |-> z.slika, plan |-> z.plan,
          kartice |-> z.kartice, otisak |-> z.otisak, ceka |-> z.ceka]
  /\ z.pc \in Koraci /\ z.nalog \in Nalog \cup {Nema}
  /\ z.godina \in Godina /\ z.datum \in Datum /\ z.vrsta \in Vrsta
  /\ \A i \in DOMAIN z.unos : z.unos[i].kartica \in Kartica
  /\ \A i \in z.slika : i.id \in Stavka /\ i.nalog \in Nalog
  /\ z.ceka \subseteq Red

\* Every table row, every lock and every request is well formed.
TypeOK ==
  /\ zakljucena \in [Godina -> BOOLEAN]
  /\ nalozi \in [Nalog -> NalogTip]
  /\ stavke = [s \in Stavka |-> stavke[s]] /\ \A s \in Stavka : JeStavka(stavke[s])
  /\ \A v \in zatvaranja : JeVeza(v)
  /\ prenosi \subseteq Nalog \X Stavka
  /\ brave \in [Red -> Zahtjev \cup {Niko}]
  /\ zahtjevi = [r \in Zahtjev |-> zahtjevi[r]]
  /\ \A r \in Zahtjev : JeZahtjev(zahtjevi[r])

\* An active settlement edge ties two lines of the same account and partner,
\* both in posted journals dated no later than the edge: no interleaving of
\* journal actions with a settlement undoes what writeSettlementPair checked or
\* what the triggers protect.
VezeIspravne ==
  \A v \in zatvaranja : Aktivna(v) =>
    /\ \A s \in {v.d, v.p} : /\ stavke[s].nalog # Nema
                             /\ Proknjizen(stavke[s].nalog)
                             /\ nalozi[stavke[s].nalog].datum <= v.datum
    /\ stavke[v.d].kartica = stavke[v.p].kartica

\* The active edges of a line never settle more than the line's amount,
\* however many requests settle, cancel and settle again.
BezPrekoracenja ==
  \A s \in Stavka : ZbirIznosa(AktivneVeze(s)) <= Apsolutno(stavke[s].iznos)

\* A carried line stays in a posted journal of a year before the opening
\* journal that carries it, and that journal exists.
PrenosiIspravni ==
  \A p \in prenosi :
    /\ Postoji(p[1])
    /\ stavke[p[2]].nalog # Nema
    /\ Proknjizen(stavke[p[2]].nalog)
    /\ nalozi[stavke[p[2]].nalog].godina < nalozi[p[1]].godina

\* A business year has at most one opening-balance journal, although three
\* actions create one and only the advisory lock keeps them apart.
JednoPocetno ==
  \A n, m \in Nalog :
    /\ Postoji(n) /\ Pocetno(n)
    /\ Postoji(m) /\ Pocetno(m)
    /\ nalozi[n].godina = nalozi[m].godina
    => n = m

\* postJournal's commit finds every precondition it read under its locks
\* still true: a draft, balanced, dated in its year, the year still open.
KnjiziSamoIspravno ==
  [][\A n \in Nalog : nalozi[n].status = "DRAFT" /\ nalozi'[n].status = "POSTED"
                        => SmijeSeKnjiziti(n)]_vars

\* A line that an active edge or a carry record names never changes.
ZasticeneStavkeMiruju ==
  [][\A s \in Stavka : ZasticenaStavka(s) => stavke'[s] = stavke[s]]_vars

\* A confirmed oldest-first proposal settles exactly the pairs the user saw.
PotvrdaJePredlog ==
  [][\A r \in Zahtjev : zahtjevi[r].pc = "preview" /\ zahtjevi'[r].pc = "settleCheck"
                          => zahtjevi'[r].plan = zahtjevi[r].plan]_vars

\* Cancelling all edges of a card cancels exactly the edges the page showed.
PonistavaPrikazano ==
  [][\A r \in Zahtjev :
       zahtjevi[r].pc = "cancelPreview" /\ zahtjevi'[r] # zahtjevi[r]
         => Revizija(zatvaranja \ zatvaranja') \in {{}, zahtjevi[r].otisak}]_vars

\* The posted lines with their journals' dates, and the edges in force.
ProknjizeneStavke ==
  [s \in {s \in Stavka : stavke[s].nalog # Nema /\ Proknjizen(stavke[s].nalog)} |->
     [kartica |-> stavke[s].kartica, iznos |-> stavke[s].iznos,
      datum |-> nalozi[stavke[s].nalog].datum]]

Obecanje == INSTANCE OtvoreneStavke WITH
  knjiga <- ProknjizeneStavke,
  zatvoreno <- {v \in zatvaranja : Aktivna(v)},
  preneseno <- {p[2] : p \in prenosi}

\* The ledger's requests, with their stale reads, locks and triggers,
\* implement atomic settling, cancelling, carrying and posting.
IspunjavaObecanje == Obecanje!Spec

\* A posted journal balances.
ProknjizenJeBalansiran == \A n \in Nalog : Proknjizen(n) => Balansiran(n)

\* Every request the server has begun ends, whatever locks the others hold and
\* in whatever order they take them.
ZahtjevZavrsava == \A r \in Zahtjev : UToku(r) ~> ~UToku(r)
=============================================================================
