------------------------------ MODULE Nalozi ------------------------------
(***************************************************************************)
(* The server actions on journals: createJournal, updateDraftJournalLines, *)
(* postJournal, reopenJournal, deleteJournal (nalozi/actions.ts),          *)
(* commitOpeningImport (lib/opening-import.ts) and toggleBusinessYear      *)
(* (agencija/actions.ts).                                                  *)
(*                                                                         *)
(* Each action first reads through the pooled client, outside any          *)
(* transaction, and decides there whether to go on; the transaction comes  *)
(* later and only some actions lock and read again.  That first read is a  *)
(* step of its own here, so that another request can act in between.  A    *)
(* refusal at the first read changes nothing and is not a step.            *)
(*                                                                         *)
(* Journals of statements, payroll, fixed assets, travel orders and other  *)
(* modules, which these actions refuse or delegate, are not modelled here, *)
(* nor are journals with VAT lines or KIF/KUF entries, which the PDV       *)
(* triggers guard as well.                                                 *)
(***************************************************************************)
EXTENDS Baza

CONSTANT
  Unosi         \* the line lists a user may enter, each a function from
                \* redni_broj to [kartica, iznos]

ASSUME NaloziPretpostavke ==
  \A u \in Unosi : \A i \in DOMAIN u : u[i].kartica \in Kartica /\ u[i].iznos \in Int

Nastavi(r, korak) == zahtjevi' = [zahtjevi EXCEPT ![r] = korak]
ImaPocetno(g) == \E n \in Nalog : Postoji(n) /\ nalozi[n].godina = g /\ Pocetno(n)

\* The rows of poslovne_godine and firme that inserting a journal of year g
\* shares through its foreign keys.
DijeliUpis(g) == {Firma, RedGodine(g)}

\* The journal with its lines is inserted as a draft, and the transaction ends.
UpisiNacrt(r, n, red, unos) ==
  /\ nalozi' = [nalozi EXCEPT ![n] = red]
  /\ stavke' = SaStavkama(n, unos)
  /\ Zavrsi(r)
  /\ UNCHANGED <<zakljucena, zatvaranja, prenosi>>

---------------------------------------------------------------------------
(* createJournal *)

\* The year is read outside the transaction; the date is not compared with it.
CreateJournalCheck(r, g, d, vrsta, unos) ==
  /\ Miruje(r)
  /\ ~zakljucena[g]
  /\ Nastavi(r, [Mirovanje EXCEPT
       !.pc = IF vrsta = "OBICAN" THEN "createWrite" ELSE "createLock",
       !.godina = g, !.datum = d, !.vrsta = vrsta, !.unos = unos,
       !.ceka = IF vrsta = "OBICAN" THEN DijeliUpis(g) ELSE {Savjetna(g)}])
  /\ UNCHANGED <<tabele, brave>>

\* Mutant: the second opening balance is looked for without the lock.
CreateJournalBezBrave(r) ==
  LET z == zahtjevi[r] IN
  /\ z.pc = "createLock"
  /\ MozeDalje(r)
  /\ IF ImaPocetno(z.godina)
     THEN Odustani(r)
     ELSE /\ Nastavi(r, [z EXCEPT !.pc = "createWrite", !.ceka = DijeliUpis(z.godina)])
          /\ UNCHANGED <<tabele, brave>>

\* An opening balance takes the advisory lock and refuses a second one.
CreateJournalLock(r) ==
  LET z == zahtjevi[r] IN
  /\ z.pc = "createLock"
  /\ MozeDalje(r)
  /\ IF ImaPocetno(z.godina)
     THEN Odustani(r)
     ELSE /\ brave' = SaZakljucanim(r, {Savjetna(z.godina)})
          /\ Nastavi(r, [z EXCEPT !.pc = "createWrite", !.ceka = DijeliUpis(z.godina)])
          /\ UNCHANGED tabele

CreateJournalWrite(r) ==
  LET z == zahtjevi[r] IN
  /\ z.pc = "createWrite"
  /\ MozeDalje(r)
  /\ IF Raspored(z.unos) = {} \/ SvjeziNalozi = {}
     THEN Odustani(r)
     ELSE UpisiNacrt(r, NoviNalog,
            [status |-> "DRAFT", godina |-> z.godina, datum |-> z.datum, vrsta |-> z.vrsta],
            z.unos)

---------------------------------------------------------------------------
(* commitOpeningImport: company, then year, then the advisory lock *)

OpeningImportCompany(r, g, unos) ==
  /\ Miruje(r)
  /\ Slobodno(r, Firma)
  /\ brave' = SaZakljucanim(r, {Firma})
  /\ Nastavi(r, [Mirovanje EXCEPT !.pc = "importYear", !.godina = g, !.unos = unos,
                   !.vrsta = "POCETNO_AUTO", !.ceka = {RedGodine(g)}])
  /\ UNCHANGED tabele

\* access() reads the year again, under its lock.
OpeningImportYear(r) ==
  LET z == zahtjevi[r] IN
  /\ z.pc = "importYear"
  /\ MozeDalje(r)
  /\ IF zakljucena[z.godina]
     THEN Odustani(r)
     ELSE /\ brave' = SaZakljucanim(r, {RedGodine(z.godina)})
          /\ Nastavi(r, [z EXCEPT !.pc = "importWrite", !.ceka = {Savjetna(z.godina)}])
          /\ UNCHANGED tabele

OpeningImportWrite(r) ==
  LET z == zahtjevi[r] IN
  /\ z.pc = "importWrite"
  /\ MozeDalje(r)
  /\ IF ImaPocetno(z.godina) \/ Raspored(z.unos) = {} \/ SvjeziNalozi = {}
     THEN Odustani(r)
     ELSE UpisiNacrt(r, NoviNalog,
            [status |-> "DRAFT", godina |-> z.godina, datum |-> DatumOd(z.godina),
             vrsta |-> z.vrsta],
            z.unos)

---------------------------------------------------------------------------
(* updateDraftJournalLines: nothing is locked or read again *)

UpdateDraftCheck(r, n, unos) ==
  /\ Miruje(r)
  /\ nalozi[n].status = "DRAFT"
  /\ ~zakljucena[nalozi[n].godina]
  /\ Nastavi(r, [Mirovanje EXCEPT !.pc = "updateWrite", !.nalog = n, !.unos = unos,
                   !.ceka = {RedNaloga(n)}])
  /\ UNCHANGED <<tabele, brave>>

\* deleteMany meets the line trigger; create and update meet the journal's row.
UpdateDraftWrite(r) ==
  LET z == zahtjevi[r] IN
  /\ z.pc = "updateWrite"
  /\ MozeDalje(r)
  /\ IF ~Postoji(z.nalog) \/ ZasticenNalog(z.nalog) \/ Raspored(z.unos) = {}
     THEN Odustani(r)
     ELSE /\ stavke' = SaStavkama(z.nalog, z.unos)
          /\ Zavrsi(r)
          /\ UNCHANGED <<zakljucena, nalozi, zatvaranja, prenosi>>

---------------------------------------------------------------------------
(* postJournal: year row, journal row, and every precondition read again *)

PostJournalRead(r, n) ==
  /\ Miruje(r)
  /\ Postoji(n)
  /\ Nastavi(r, [Mirovanje EXCEPT !.pc = "postYear", !.nalog = n,
                   !.godina = nalozi[n].godina, !.ceka = {RedGodine(nalozi[n].godina)}])
  /\ UNCHANGED <<tabele, brave>>

\* Mutant: the year's row is waited for and not kept locked.
PostJournalBezGodine(r) ==
  LET z == zahtjevi[r] IN
  /\ z.pc = "postYear"
  /\ MozeDalje(r)
  /\ Nastavi(r, [z EXCEPT !.pc = "postCheck", !.ceka = {RedNaloga(z.nalog)}])
  /\ UNCHANGED <<tabele, brave>>

PostJournalLockYear(r) ==
  LET z == zahtjevi[r] IN
  /\ z.pc = "postYear"
  /\ MozeDalje(r)
  /\ brave' = SaZakljucanim(r, {RedGodine(z.godina)})
  /\ Nastavi(r, [z EXCEPT !.pc = "postCheck", !.ceka = {RedNaloga(z.nalog)}])
  /\ UNCHANGED tabele

Balansiran(n) == /\ Zbir(StavkeNaloga(n)) = 0
                 /\ \E s \in StavkeNaloga(n) : stavke[s].iznos # 0

SmijeSeKnjiziti(n) ==
  /\ nalozi[n].status = "DRAFT"
  /\ ~zakljucena[nalozi[n].godina]
  /\ DatumUGodini(nalozi[n].datum, nalozi[n].godina)
  /\ Balansiran(n)

PostJournalCheck(r) ==
  LET z == zahtjevi[r] IN
  /\ z.pc = "postCheck"
  /\ MozeDalje(r)
  /\ IF SmijeSeKnjiziti(z.nalog) /\ ~ZasticenNalog(z.nalog)
     THEN /\ brave' = SaZakljucanim(r, {RedNaloga(z.nalog)})
          /\ Nastavi(r, [z EXCEPT !.pc = "postCommit", !.ceka = {}])
          /\ UNCHANGED tabele
     ELSE Odustani(r)

PostJournalCommit(r) ==
  LET z == zahtjevi[r] IN
  /\ z.pc = "postCommit"
  /\ nalozi' = [nalozi EXCEPT ![z.nalog].status = "POSTED"]
  /\ Zavrsi(r)
  /\ UNCHANGED <<zakljucena, stavke, zatvaranja, prenosi>>

---------------------------------------------------------------------------
(* reopenJournal: status and year are read outside the transaction only *)

ReopenJournalCheck(r, n) ==
  /\ Miruje(r)
  /\ Proknjizen(n)
  /\ ~zakljucena[nalozi[n].godina]
  /\ Nastavi(r, [Mirovanje EXCEPT !.pc = "reopenWrite", !.nalog = n,
                   !.ceka = {RedNaloga(n)}])
  /\ UNCHANGED <<tabele, brave>>

\* The trigger refuses a change of status of a journal with protected lines.
ReopenJournalWrite(r) ==
  LET z == zahtjevi[r] IN
  /\ z.pc = "reopenWrite"
  /\ MozeDalje(r)
  /\ IF ~Postoji(z.nalog) \/ (Proknjizen(z.nalog) /\ ZasticenNalog(z.nalog))
     THEN Odustani(r)
     ELSE /\ nalozi' = [nalozi EXCEPT ![z.nalog].status = "DRAFT"]
          /\ Zavrsi(r)
          /\ UNCHANGED <<zakljucena, stavke, zatvaranja, prenosi>>

---------------------------------------------------------------------------
(* deleteJournal: everything is read outside the transaction *)

DeleteJournalCheck(r, n) ==
  /\ Miruje(r)
  /\ nalozi[n].status = "DRAFT"
  /\ ~zakljucena[nalozi[n].godina]
  /\ Nastavi(r, [Mirovanje EXCEPT !.pc = "deleteWrite", !.nalog = n,
                   !.ceka = {RedNaloga(n)}])
  /\ UNCHANGED <<tabele, brave>>

\* The lines go, the journal's row goes, and its carry records cascade.
DeleteJournalWrite(r) ==
  LET z == zahtjevi[r] IN
  /\ z.pc = "deleteWrite"
  /\ MozeDalje(r)
  /\ IF ~Postoji(z.nalog) \/ ZasticenNalog(z.nalog)
     THEN Odustani(r)
     ELSE /\ nalozi' = [nalozi EXCEPT ![z.nalog] = PrazanNalog]
          /\ stavke' = [s \in Stavka |-> IF stavke[s].nalog = z.nalog
                                         THEN PraznaStavka ELSE stavke[s]]
          /\ prenosi' = {p \in prenosi : p[1] # z.nalog}
          /\ Zavrsi(r)
          /\ UNCHANGED <<zakljucena, zatvaranja>>

---------------------------------------------------------------------------
(* toggleBusinessYear: one UPDATE, which waits for the year's row *)

ToggleBusinessYear(g) ==
  /\ brave[RedGodine(g)] = Niko
  /\ zakljucena' = [zakljucena EXCEPT ![g] = ~@]
  /\ UNCHANGED <<nalozi, stavke, zatvaranja, prenosi, brave, zahtjevi>>
=============================================================================
