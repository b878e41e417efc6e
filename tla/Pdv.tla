-------------------------------- MODULE Pdv --------------------------------
(***************************************************************************)
(* VAT periods of one company and business year: the purchase book (KUF)   *)
(* of each month, its posting into a journal, the VAT return, and the      *)
(* locking of the period, with the writers that run beside them.           *)
(*                                                                         *)
(* Every protected row has a trigger that calls pdv_assert_open, which     *)
(* locks the year's row and refuses when the year is closed or the month   *)
(* is LOCKED; mutatePdv locks the same row first.  A request takes its     *)
(* locks one at a time, in the order of zahtjevi[r].ceka, and keeps them   *)
(* to its end; what it changes shows when it commits.                      *)
(*                                                                         *)
(* Abstractions: each month has one open KUF book of one invoice kind; an  *)
(* entry is its deductible VAT, and posting_status is POSTED exactly when  *)
(* journal_id is set, because every writer changes the two together; the   *)
(* journals are those of books and of returns, each its VAT lines with the *)
(* entry they were made for, its other lines balancing it; such a journal  *)
(* is protected, by its entries or its return, so that to change it takes  *)
(* the year's row; a return is the amount it credits.  A soft-deleted row  *)
(* is invisible to every reader, as a deleted one is.  Of the archived     *)
(* versions, which no action reads, that of the lock in force is kept.     *)
(***************************************************************************)
EXTENDS Integers, Sequences, FiniteSets, FiniteSetsExt, SequencesExt

CONSTANTS
  Mjesec,       \* months
  Racun,        \* identifiers of KUF entries
  Nalog,        \* identifiers of journals
  Zahtjev,      \* concurrent requests
  Niko,         \* nobody: the owner of a free lock
  Nema,         \* NULL: no month, no entry, no journal
  Iznosi,       \* VAT that a user may enter for a new entry
  Ispravke,     \* VAT that a user may put in its place, in an entry or a return
  Akcije        \* the server actions that users of this instance call

ASSUME PdvPretpostavke ==
  /\ Nema \notin Mjesec \cup Racun \cup Nalog
  /\ Niko \notin Zahtjev
  /\ Iznosi \subseteq Nat /\ Ispravke \subseteq Nat

ASSUME KonacnoRacuna == IsFiniteSet(Racun)

VARIABLES
  zakljucena,   \* poslovne_godine.zakljucena
  periodi,      \* pdv_periodi.status, indexed by mjesec
  racuni,       \* kuf_entries, indexed by id
  nalozi,       \* nalozi with their VAT lines, indexed by id
  prijave,      \* pdv_prijave, indexed by mjesec
  arhiva,       \* pdv_verzije, the version of the lock in force, by mjesec
  brave,        \* row locks
  zahtjevi      \* what each request knows and what it will do next

tabele == <<zakljucena, periodi, racuni, nalozi, prijave, arhiva>>
vars == <<zakljucena, periodi, racuni, nalozi, prijave, arhiva, brave, zahtjevi>>

---------------------------------------------------------------------------
(* Rows *)

PrazanRacun == [mjesec |-> Nema, pdv |-> 0, nalog |-> Nema]
PrazanNalog == [status |-> "NEMA", vrsta |-> "KUF", mjesec |-> Nema, stavke |-> {}]
\* otisak is izvor_hash: <<>> for NULL, otherwise what was hashed.
PraznaPrijava == [status |-> "NEMA", nalog |-> Nema, iznos |-> 0, otisak |-> <<>>]

Postoji(n) == n # Nema /\ nalozi[n].status # "NEMA"
Proknjizen(n) == n # Nema /\ nalozi[n].status = "POSTED"
Stavka(e, x) == [racun |-> e, pdv |-> x]

Racuni(m) == {e \in Racun : racuni[e].mjesec = m}
Neproknjizeni(m) == {e \in Racuni(m) : racuni[e].nalog = Nema}
RacuniNaloga(n) == {e \in Racun : racuni[e].nalog = n}

\* What calculatePdvReturn reads, and what sourceHash tells apart.
Izvori(m) == {<<e, racuni[e]>> : e \in Racuni(m)}
ZbirPdv(m) == MapThenSumSet(LAMBDA e : racuni[e].pdv, Racuni(m))
Iznos(n) == MapThenSumSet(LAMBDA s : s.pdv, nalozi[n].stavke)

\* The turnover of the VAT accounts, the closing journals of returns left out.
PrometNaloga(m) == {n \in Nalog : /\ Proknjizen(n)
                                  /\ nalozi[n].mjesec = m
                                  /\ nalozi[n].vrsta # "PDV_RETURN"}
Promet(m) == MapThenSumSet(Iznos, PrometNaloga(m))

\* gen_random_uuid never returns an id that anything still mentions, hashes included.
Otisnuto == UNION {UNION {o : o \in Range(prijave[m].otisak)} : m \in Mjesec}
SvjeziRacuni ==
  {e \in Racun : /\ racuni[e].mjesec = Nema
                 /\ \A r \in Zahtjev : zahtjevi[r].racun # e
                 /\ \A n \in Nalog : \A s \in nalozi[n].stavke : s.racun # e
                 /\ \A x \in Otisnuto : x[1] # e}
SvjeziNalozi ==
  {n \in Nalog : /\ ~Postoji(n)
                 /\ RacuniNaloga(n) = {}
                 /\ \A r \in Zahtjev : zahtjevi[r].nalog # n
                 /\ \A x \in Otisnuto : x[2].nalog # n}

---------------------------------------------------------------------------
(* Triggers: pdv_assert_open and the rows pdv_guard_record protects with it *)

\* Mutant: the trigger looks at the year only.
PdvOtvorenSamoGodina(m) == ~zakljucena
\* Mutant: the trigger looks at the period only.
PdvOtvorenSamoPeriod(m) == periodi[m] # "LOCKED"
PdvOtvoren(m) == ~zakljucena /\ periodi[m] # "LOCKED"

---------------------------------------------------------------------------
(* Requests and locks *)

RedGodine == <<"godina">>
RedNaloga(n) == <<"nalog", n>>
Red == {RedGodine} \cup {RedNaloga(n) : n \in Nalog}

Mirovanje == [pc |-> "miruje", op |-> "", mjesec |-> Nema, racun |-> Nema, nalog |-> Nema,
              iznos |-> 0, izvori |-> {}, zastario |-> FALSE, ceka |-> <<>>]
Miruje(r) == zahtjevi[r].pc = "miruje"
Slobodno(r, x) == brave[x] \in {Niko, r}

\* At step pc, with at most one row left to lock: the step locks it and goes on
\* in one, since that row protects what it reads.
Spreman(r, pc) ==
  /\ zahtjevi[r].pc = pc
  /\ \/ zahtjevi[r].ceka = <<>>
     \/ Len(zahtjevi[r].ceka) = 1 /\ Slobodno(r, Head(zahtjevi[r].ceka))

\* The request goes on to z, holding the row it was waiting for.
Nastavi(r, z) ==
  /\ zahtjevi' = [zahtjevi EXCEPT ![r] = z]
  /\ brave' = [x \in Red |-> IF zahtjevi[r].ceka = <<x>> THEN r ELSE brave[x]]
  /\ UNCHANGED tabele

\* Mutant: it reads before it has the row.
PrviBezBrave(r) == Miruje(r)
\* A request whose transaction starts with the year's row, and relies on nothing
\* it read before, is modelled from the moment it gets that row.
Prvi(r) == Miruje(r) /\ brave[RedGodine] = Niko
Pocni(r, z) ==
  /\ zahtjevi' = [zahtjevi EXCEPT ![r] = z]
  /\ brave' = [brave EXCEPT ![RedGodine] = r]
  /\ UNCHANGED tabele

\* A row that r's Serializable transaction reads and will write changes now.
Pregazen(r) ==
  LET z == zahtjevi[r] IN
  /\ z.pc = "deleteEntry"
  /\ \/ racuni'[z.racun] # racuni[z.racun]
     \/ z.nalog # Nema /\ nalozi'[z.nalog] # nalozi[z.nalog]

\* The transaction commits or rolls back, and its locks go.
Zavrsi(r) ==
  /\ zahtjevi' = [q \in Zahtjev |->
                    IF q = r THEN Mirovanje
                    ELSE [zahtjevi[q] EXCEPT !.zastario = @ \/ Pregazen(q)]]
  /\ brave' = [x \in Red |-> IF brave[x] = r THEN Niko ELSE brave[x]]
Odustani(r) == UNCHANGED tabele /\ Zavrsi(r)

\* One of the rows the request's statements lock, not the last.
Zakljucaj(r) ==
  LET z == zahtjevi[r] IN
  /\ Len(z.ceka) > 1
  /\ Slobodno(r, Head(z.ceka))
  /\ brave' = [brave EXCEPT ![Head(z.ceka)] = r]
  /\ zahtjevi' = [zahtjevi EXCEPT ![r].ceka = Tail(@)]
  /\ UNCHANGED tabele

\* The deadlock detector aborts a request in a circular wait.
CekaNa(r) == {q \in Zahtjev \ {r} :
                zahtjevi[r].ceka # <<>> /\ brave[Head(zahtjevi[r].ceka)] = q}
UZastoju(r) == \E S \in SUBSET Zahtjev :
                 r \in S /\ \A q \in S : CekaNa(q) \cap S # {}
Prekini(r) == UZastoju(r) /\ Odustani(r)

---------------------------------------------------------------------------
(* createKufEntry and updateKufEntry: what they check, they check outside  *)
(* their transactions; the triggers check again.                           *)

CreateKufEntry(r, m, x) ==
  /\ Prvi(r)
  /\ PdvOtvoren(m)
  /\ \E e \in SvjeziRacuni :
       racuni' = [racuni EXCEPT ![e] = [mjesec |-> m, pdv |-> x, nalog |-> Nema]]
  /\ UNCHANGED <<zakljucena, periodi, nalozi, prijave, arhiva, brave, zahtjevi>>

UpdateKufEntry(r, e, x) ==
  /\ Miruje(r)
  /\ ~zakljucena
  /\ racuni[e].mjesec # Nema /\ racuni[e].nalog = Nema
  /\ Nastavi(r, [Mirovanje EXCEPT !.pc = "updateEntry", !.racun = e, !.iznos = x,
                   !.ceka = <<RedGodine>>])

\* Whether the entry has been posted meanwhile is not read again.
UpdateKufEntryWrite(r) ==
  LET z == zahtjevi[r]
      m == racuni[z.racun].mjesec
  IN /\ Spreman(r, "updateEntry")
     /\ IF m = Nema \/ ~PdvOtvoren(m)
        THEN Odustani(r)
        ELSE /\ racuni' = [racuni EXCEPT ![z.racun].pdv = z.iznos]
             /\ UNCHANGED <<zakljucena, periodi, nalozi, prijave, arhiva>>
             /\ Zavrsi(r)

---------------------------------------------------------------------------
(* deleteKufEntry: a Serializable transaction.  All it reads, triggers     *)
(* included, it reads as of its first statement, the one that waits for    *)
(* the year's row; a row it writes or locks that another transaction has   *)
(* changed since (zastario) makes it fail.                                 *)

\* Every line of the journal is linked to one of its entries, and every
\* entry to a line: what deleteKufEntryInTransaction demands of the journal.
PotpuneVeze(n) == {s.racun : s \in nalozi[n].stavke} = RacuniNaloga(n)

DeleteKufEntry(r, e) ==
  LET n == racuni[e].nalog IN
  /\ Miruje(r)
  /\ racuni[e].mjesec # Nema
  /\ PdvOtvoren(racuni[e].mjesec)
  /\ n # Nema => (Postoji(n) /\ nalozi[n].vrsta = "KUF" /\ PotpuneVeze(n))
  /\ Nastavi(r, [Mirovanje EXCEPT !.pc = "deleteEntry", !.racun = e, !.nalog = n,
       !.ceka = IF n = Nema THEN <<RedGodine>> ELSE <<RedGodine, RedNaloga(n)>>])

\* The entry's lines go, and the journal with its last line.
BezStavki(n, e) ==
  LET ostale == {s \in nalozi[n].stavke : s.racun # e}
  IN IF ostale = {} THEN PrazanNalog ELSE [nalozi[n] EXCEPT !.stavke = ostale]

DeleteKufEntryWrite(r) ==
  LET z == zahtjevi[r] IN
  /\ Spreman(r, "deleteEntry")
  /\ IF z.zastario
     THEN Odustani(r)
     ELSE /\ racuni' = [racuni EXCEPT ![z.racun] = PrazanRacun]
          /\ nalozi' = IF z.nalog = Nema THEN nalozi
                       ELSE [nalozi EXCEPT ![z.nalog] = BezStavki(z.nalog, z.racun)]
          /\ UNCHANGED <<zakljucena, periodi, prijave, arhiva>>
          /\ Zavrsi(r)

---------------------------------------------------------------------------
(* postInvoiceBook: every unposted entry of the book, or the chosen ones,  *)
(* into one journal of the book, new or existing                           *)

\* The journal of a posted entry of the book (the code takes the first one's),
\* otherwise a journal made for the book.
PostojeciNalozi(m) ==
  LET proknjizeni == Racuni(m) \ Neproknjizeni(m)
  IN IF proknjizeni # {} THEN {racuni[e].nalog : e \in proknjizeni}
     ELSE {n \in Nalog : Postoji(n) /\ nalozi[n].vrsta = "KUF" /\ nalozi[n].mjesec = m}

PostBook(r, m, konacno) ==
  /\ Prvi(r)
  /\ PdvOtvoren(m)
  /\ \E S \in SUBSET Neproknjizeni(m) \ {{}},
       n \in IF PostojeciNalozi(m) = {} THEN {Nema} ELSE PostojeciNalozi(m) :
         Pocni(r, [Mirovanje EXCEPT !.pc = "postBookWrite", !.mjesec = m, !.op = konacno,
                     !.nalog = n, !.izvori = {Stavka(e, racuni[e].pdv) : e \in S},
                     !.ceka = IF n = Nema THEN <<>> ELSE <<RedNaloga(n)>>])

\* An existing journal must be a live journal of this book; a final posting
\* does not take a draft that somebody else prepared.
SmijeUNalog(n, m, konacno) ==
  /\ nalozi[n].status \in {"DRAFT", "POSTED"}
  /\ nalozi[n].vrsta = "KUF" /\ nalozi[n].mjesec = m
  /\ ~(konacno = "final" /\ nalozi[n].status = "DRAFT")

\* Journal n with the new lines in it.
SaStavkama(n, z) ==
  IF z.nalog = Nema
  THEN [status |-> IF z.op = "final" THEN "POSTED" ELSE "DRAFT",
        vrsta |-> "KUF", mjesec |-> z.mjesec, stavke |-> z.izvori]
  ELSE [nalozi[n] EXCEPT !.stavke = @ \cup z.izvori]

PostBookWrite(r) ==
  LET z == zahtjevi[r]
      moguci == IF z.nalog = Nema THEN SvjeziNalozi
                ELSE {n \in {z.nalog} : SmijeUNalog(n, z.mjesec, z.op)}
  IN /\ Spreman(r, "postBookWrite")
     /\ \/ moguci = {} /\ Odustani(r)
        \/ \E n \in moguci :
             /\ nalozi' = [nalozi EXCEPT ![n] = SaStavkama(n, z)]
             /\ racuni' = [e \in Racun |->
                             IF \E s \in z.izvori : s.racun = e
                             THEN [racuni[e] EXCEPT !.nalog = n] ELSE racuni[e]]
             /\ UNCHANGED <<zakljucena, periodi, prijave, arhiva>>
             /\ Zavrsi(r)

---------------------------------------------------------------------------
(* Journals of books and of returns, through the actions of all journals *)

PostJournal(r, n) ==
  /\ Prvi(r) /\ Slobodno(r, RedNaloga(n))
  /\ nalozi[n].status = "DRAFT" /\ PdvOtvoren(nalozi[n].mjesec)
  /\ nalozi' = [nalozi EXCEPT ![n].status = "POSTED"]
  /\ UNCHANGED <<zakljucena, periodi, racuni, prijave, arhiva>>
  /\ Zavrsi(r)

\* The journal's row first, then, in its trigger, the year's.
ReopenJournal(r, n) ==
  /\ Miruje(r)
  /\ Proknjizen(n) /\ ~zakljucena
  /\ Nastavi(r, [Mirovanje EXCEPT !.pc = "reopenJournal", !.nalog = n,
                   !.ceka = <<RedNaloga(n), RedGodine>>])

ReopenJournalWrite(r) ==
  LET n == zahtjevi[r].nalog IN
  /\ Spreman(r, "reopenJournal")
  /\ IF ~Postoji(n) \/ ~PdvOtvoren(nalozi[n].mjesec)
     THEN Odustani(r)
     ELSE /\ nalozi' = [nalozi EXCEPT ![n].status = "DRAFT"]
          /\ UNCHANGED <<zakljucena, periodi, racuni, prijave, arhiva>>
          /\ Zavrsi(r)

DeleteJournal(r, n) ==
  /\ Miruje(r)
  /\ nalozi[n].status = "DRAFT" /\ ~zakljucena
  /\ Nastavi(r, [Mirovanje EXCEPT !.pc = "deleteJournal", !.nalog = n])

\* The UPDATE that unlinks the entries: it finds them as they are when it
\* starts, and then waits, in the trigger of the first, for the year's row.
DeleteJournalEntries(r) ==
  LET z == zahtjevi[r] IN
  /\ Spreman(r, "deleteJournal")
  /\ Nastavi(r, [z EXCEPT !.pc = "deleteJournalWrite", !.izvori = RacuniNaloga(z.nalog),
                   !.ceka = <<RedGodine, RedNaloga(z.nalog)>>])

DeleteJournalWrite(r) ==
  LET z == zahtjevi[r]
      n == z.nalog
  IN /\ Spreman(r, "deleteJournalWrite")
     /\ IF ~Postoji(n) \/ ~PdvOtvoren(nalozi[n].mjesec)
        THEN Odustani(r)
        ELSE /\ racuni' = [e \in Racun |->
                             IF e \in z.izvori \cap RacuniNaloga(n)
                             THEN [racuni[e] EXCEPT !.nalog = Nema] ELSE racuni[e]]
             /\ prijave' = [m \in Mjesec |->
                              IF prijave[m].nalog = n
                              THEN [prijave[m] EXCEPT !.status = "DRAFT", !.nalog = Nema]
                              ELSE prijave[m]]
             /\ nalozi' = [nalozi EXCEPT ![n] = PrazanNalog]
             /\ UNCHANGED <<zakljucena, periodi, arhiva>>
             /\ Zavrsi(r)

---------------------------------------------------------------------------
(* mutatePdv *)

AktivanNalog(m) == IF Postoji(prijave[m].nalog) THEN prijave[m].nalog ELSE Nema

\* Mutant: the ledger is not compared.
KontroleBezKnjige(m) ==
  /\ \A e \in Racuni(m) : Proknjizen(racuni[e].nalog)
  /\ prijave[m].iznos = ZbirPdv(m)
\* The controls that posting and locking repeat: posted entries, a return
\* that balances against its sources, and a ledger that agrees with them.
Kontrole(m) ==
  /\ \A e \in Racuni(m) : Proknjizen(racuni[e].nalog)
  /\ prijave[m].iznos = ZbirPdv(m)
  /\ Promet(m) = ZbirPdv(m)

Smije(op, m) ==
  LET n == AktivanNalog(m)
      izIzvora == periodi[m] # "LOCKED" /\ prijave[m].otisak = <<Izvori(m)>>
  IN CASE op = "refresh" -> periodi[m] # "LOCKED" /\ n = Nema
       [] op = "save" -> izIzvora /\ n = Nema
       [] op = "post" -> izIzvora /\ Kontrole(m) /\ n = Nema /\ ZbirPdv(m) # 0
       [] op = "lock" -> /\ izIzvora /\ Kontrole(m)
                         /\ ZbirPdv(m) # 0 => Proknjizen(n)
                         /\ n # Nema => Iznos(n) = ZbirPdv(m)
       [] op = "reopen" -> /\ periodi[m] = "LOCKED" \/ n # Nema
                           /\ n # Nema => RacuniNaloga(n) = {}

\* Once it has the year: the controls, and what it reads for its writes.
MutatePdv(r, m, op, x) ==
  LET n == AktivanNalog(m) IN
  /\ Prvi(r)
  /\ ~zakljucena /\ Smije(op, m)
  /\ Pocni(r, [Mirovanje EXCEPT !.pc = "pdvWrite", !.mjesec = m, !.op = op, !.nalog = n,
                 !.izvori = Izvori(m),
                 !.iznos = IF op = "save" THEN x ELSE ZbirPdv(m),
                 !.ceka = IF op = "reopen" /\ n # Nema THEN <<RedNaloga(n)>> ELSE <<>>])

PdvRefresh(r) ==
  LET z == zahtjevi[r] IN
  /\ Spreman(r, "pdvWrite") /\ z.op = "refresh"
  /\ prijave' = [prijave EXCEPT ![z.mjesec] =
                   [status |-> "DRAFT", nalog |-> Nema, iznos |-> z.iznos, otisak |-> <<z.izvori>>]]
  /\ UNCHANGED <<zakljucena, periodi, racuni, nalozi, arhiva>>
  /\ Zavrsi(r)

PdvSave(r) ==
  LET z == zahtjevi[r] IN
  /\ Spreman(r, "pdvWrite") /\ z.op = "save"
  /\ prijave' = [prijave EXCEPT ![z.mjesec].iznos = z.iznos]
  /\ UNCHANGED <<zakljucena, periodi, racuni, nalozi, arhiva>>
  /\ Zavrsi(r)

PdvPost(r) ==
  LET z == zahtjevi[r] IN
  /\ Spreman(r, "pdvWrite") /\ z.op = "post"
  /\ \/ SvjeziNalozi = {} /\ Odustani(r)
     \/ \E n \in SvjeziNalozi :
          /\ nalozi' = [nalozi EXCEPT ![n] =
                          [status |-> "POSTED", vrsta |-> "PDV_RETURN", mjesec |-> z.mjesec,
                           stavke |-> {Stavka(Nema, z.iznos)}]]
          /\ prijave' = [prijave EXCEPT ![z.mjesec].status = "POSTED", ![z.mjesec].nalog = n]
          /\ UNCHANGED <<zakljucena, periodi, racuni, arhiva>>
          /\ Zavrsi(r)

PdvLock(r) ==
  LET z == zahtjevi[r] IN
  /\ Spreman(r, "pdvWrite") /\ z.op = "lock"
  /\ arhiva' = [arhiva EXCEPT ![z.mjesec] = z.izvori]
  /\ prijave' = [prijave EXCEPT ![z.mjesec].status = "LOCKED"]
  /\ periodi' = [periodi EXCEPT ![z.mjesec] = "LOCKED"]
  /\ UNCHANGED <<zakljucena, racuni, nalozi>>
  /\ Zavrsi(r)

PdvReopen(r) ==
  LET z == zahtjevi[r]
      m == z.mjesec
  IN /\ Spreman(r, "pdvWrite") /\ z.op = "reopen"
     /\ arhiva' = [arhiva EXCEPT ![m] = {}]
     /\ periodi' = [periodi EXCEPT ![m] = "REOPENED"]
     /\ nalozi' = IF z.nalog = Nema THEN nalozi ELSE [nalozi EXCEPT ![z.nalog] = PrazanNalog]
     /\ prijave' = [prijave EXCEPT ![m] =
                      [@ EXCEPT !.status = "DRAFT", !.nalog = Nema, !.otisak = <<>>]]
     /\ UNCHANGED <<zakljucena, racuni>>
     /\ Zavrsi(r)

---------------------------------------------------------------------------
(* toggleBusinessYear updates the year's row, so it waits for its holder   *)

ToggleYear ==
  /\ brave[RedGodine] = Niko
  /\ zakljucena' = ~zakljucena
  /\ zahtjevi' = [q \in Zahtjev |->
                    [zahtjevi[q] EXCEPT !.zastario = @ \/ zahtjevi[q].pc = "deleteEntry"]]
  /\ UNCHANGED <<periodi, racuni, nalozi, prijave, arhiva, brave>>

---------------------------------------------------------------------------

Init ==
  /\ zakljucena = FALSE
  /\ periodi = [m \in Mjesec |-> "OPEN"]
  /\ racuni = [e \in Racun |-> PrazanRacun]
  /\ nalozi = [n \in Nalog |-> PrazanNalog]
  /\ prijave = [m \in Mjesec |-> PraznaPrijava]
  /\ arhiva = [m \in Mjesec |-> {}]
  /\ brave = [x \in Red |-> Niko]
  /\ zahtjevi = [r \in Zahtjev |-> Mirovanje]

\* A user's request reaches the server.
NoviZahtjev(r) ==
  \/ \E m \in Mjesec, x \in Iznosi : "createEntry" \in Akcije /\ CreateKufEntry(r, m, x)
  \/ \E e \in Racun, x \in Ispravke : "updateEntry" \in Akcije /\ UpdateKufEntry(r, e, x)
  \/ \E e \in Racun : "deleteEntry" \in Akcije /\ DeleteKufEntry(r, e)
  \/ \E m \in Mjesec, k \in {"draft", "final"} : "postBook" \in Akcije /\ PostBook(r, m, k)
  \/ \E n \in Nalog : \/ "post" \in Akcije /\ PostJournal(r, n)
                      \/ "reopen" \in Akcije /\ ReopenJournal(r, n)
                      \/ "delete" \in Akcije /\ DeleteJournal(r, n)
  \/ \E m \in Mjesec :
       \/ \E op \in {"refresh", "post", "lock", "reopen"} :
            "pdv" \in Akcije /\ MutatePdv(r, m, op, 0)
       \/ \E x \in Ispravke : "save" \in Akcije /\ MutatePdv(r, m, "save", x)

\* A running request goes on.
Nastavak(r) ==
  \/ UpdateKufEntryWrite(r) \/ DeleteKufEntryWrite(r)
  \/ PostBookWrite(r)
  \/ ReopenJournalWrite(r)
  \/ DeleteJournalEntries(r) \/ DeleteJournalWrite(r)
  \/ PdvRefresh(r) \/ PdvSave(r) \/ PdvPost(r) \/ PdvLock(r) \/ PdvReopen(r)
  \/ Zakljucaj(r) \/ Prekini(r)

Next ==
  \/ \E r \in Zahtjev : NoviZahtjev(r) \/ Nastavak(r)
  \/ "toggle" \in Akcije /\ ToggleYear

Spec == Init /\ [][Next]_vars

---------------------------------------------------------------------------
(* Properties *)

Koraci == {"miruje", "updateEntry", "deleteEntry", "postBookWrite", "reopenJournal",
           "deleteJournal", "deleteJournalWrite", "pdvWrite"}

Zakljucan(m) == periodi[m] = "LOCKED"

\* A month that is being locked agrees with the ledger, whoever else is writing:
\* its entries are in posted journals, the VAT accounts turn over exactly the
\* entries' VAT, and the return's journal is posted with the return's amount.
ZakljucavaUsaglaseno ==
  [][\A m \in Mjesec : ~Zakljucan(m) /\ Zakljucan(m)' =>
       /\ \A e \in Racuni(m) : Proknjizen(racuni[e].nalog)
       /\ Promet(m) = ZbirPdv(m) /\ prijave[m].iznos = ZbirPdv(m)
       /\ IF prijave[m].nalog = Nema THEN ZbirPdv(m) = 0
          ELSE Proknjizen(prijave[m].nalog) /\ Iznos(prijave[m].nalog) = ZbirPdv(m)]_vars

\* Every entry of a locked month is in the version its lock archived, as it is
\* now: nothing is added to the month or changed in it behind the archive.
ArhivaObuhvata ==
  \A m \in Mjesec : Zakljucan(m) => Izvori(m) \subseteq arhiva[m]

\* A book is posted into one journal however many users post it at once, and
\* the closing journal of a return is never left behind by its return.
JedanNalog ==
  \A m \in Mjesec :
    LET vrste(v) == {n \in Nalog : Postoji(n) /\ nalozi[n].vrsta = v /\ nalozi[n].mjesec = m}
    IN Cardinality(vrste("KUF")) \leq 1 /\ vrste("PDV_RETURN") \subseteq {prijave[m].nalog}

\* While the business year is closed no VAT row changes, whatever a request
\* had read before it was closed.
ZakljucenaGodinaMiruje ==
  [][zakljucena => UNCHANGED <<periodi, racuni, nalozi, prijave, arhiva>>]_vars

\* A locked month's entries are those that were archived when it was locked.
ZakljucanoJeArhivirano ==
  \A m \in Mjesec : Zakljucan(m) => arhiva[m] = Izvori(m)

\* A posted entry is linked to a journal that exists.
RacunImaNalog == \A e \in Racun : racuni[e].nalog # Nema => Postoji(racuni[e].nalog)
=============================================================================
