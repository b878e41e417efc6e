-------------------------------- MODULE Sep --------------------------------
(***************************************************************************)
(* The nightly import of a company's fiscal invoices from the tax portal   *)
(* (SEP) into its sales book (KIF) and their posting, by several server    *)
(* processes that may crash or lose the connection that holds the global   *)
(* advisory lock, beside a user who works on the same book.                *)
(*                                                                         *)
(* A pass commits each job's status, each imported invoice and the posting *)
(* in transactions of their own; between any two of them everybody else    *)
(* may act.  The import and the posting lock the company's row first and   *)
(* ask for permission again under it, so each is one step here.            *)
(*                                                                         *)
(* Abstractions: one company, whose invoices are all of month 1 (days 1    *)
(* and 2); a day starts at 04:00; the company's book of a month and kind   *)
(* is there when needed and stands for its journal, which is unique by     *)
(* Pdv's JedanNalog; an invoice is its IKOF; "zatvoreno" stands for the    *)
(* closed year and the LOCKED VAT period, which the same steps look at;    *)
(* an unreadable row of the Excel file and an invoice that is a document   *)
(* of the application are refused like one that MAPR does not confirm.     *)
(***************************************************************************)
EXTENDS Integers, Sequences, FiniteSets, FiniteSetsExt

CONSTANTS
  Proces,       \* server processes that run the timer
  Niko,         \* nobody: the owner of the free lock
  Racun,        \* fiscal invoices, by IKOF
  Vrsta,        \* kinds of KIF books
  Dan,          \* days on which the timer runs, the third begins month 2
  Izdat,        \* the day an invoice is fiscalized
  MaxKvarova,   \* crashes and lost connections
  Tokovi        \* bound: the sequences of operations the users call, with their prefixes

ASSUME SepPretpostavke ==
  /\ Niko \notin Proces \cup Vrsta
  /\ Dan \subseteq Nat
  /\ Izdat \in [Racun -> {1, 2}]
  /\ \A tok \in Tokovi : tok # <<>> => SubSeq(tok, 1, Len(tok) - 1) \in Tokovi

\* A company has finitely many kinds of books, rows of its racun_vrste.
ASSUME KonacnoVrsta == IsFiniteSet(Vrsta)

VARIABLES
  dan,          \* today, after 04:00
  podesavanje,  \* sep_automatika_podesavanja
  obrade,       \* sep_automatika_obrade.status, by dan
  zatvoreno,    \* the year is closed or the period LOCKED
  kif,          \* kif_entries that are not deleted
  nalog,        \* the journal of each kind's book
  brava,        \* owner of the advisory lock sep-automation-global-v1
  radnik,       \* what each process knows and does next
  korisnik,     \* the user's request between its checks and its write
  brojac,       \* bounds: failures and operations so far
  istorija      \* what users did to invoices, for the properties only

tabele == <<podesavanje, obrade, zatvoreno, kif, nalog>>
vars == <<dan, podesavanje, obrade, zatvoreno, kif, nalog, brava, radnik,
          korisnik, brojac, istorija>>

---------------------------------------------------------------------------
(* Rows *)

\* izvor AUTO is sep_automation, MAPR an import by hand, RUKA a typed invoice.
Izvor == {"AUTO", "MAPR", "RUKA"}
Red == [racun : Racun, izvor : Izvor, ikof : BOOLEAN, vrsta : Vrsta, knjizen : BOOLEAN]
Redovi(r) == {e \in kif : e.racun = r}
SaIkofom(r) == {e \in Redovi(r) : e.ikof}
\* Mutant: the rows typed by hand are not looked for.
StariBezProvjere(r) == {e \in Redovi(r) : FALSE}
\* legacyMatches: the same number and date, typed without an IKOF.
Stari(r) == {e \in Redovi(r) : ~e.ikof}

Cekaju(v) == {e \in kif : e.izvor = "AUTO" /\ ~e.knjizen /\ e.vrsta = v}
\* How often an invoice is in the ledger.
Knjizeno(r) == MapThenSumSet(LAMBDA v : nalog[v].stavke[r], Vrsta)

\* The first day of a month covers the month before, any other the month up to yesterday.
PrviUMjesecu(d) == d = 3
Izdati(r) == Izdat[r] <= dan
Period(d) == CASE d < 3 -> 1..(d - 1) [] d = 3 -> {1, 2} [] OTHER -> 3..(d - 1)

---------------------------------------------------------------------------
(* Processes and the lock *)

Miran == [pc |-> "miruje", vazi |-> FALSE, vrsta |-> Niko,
          poslovi |-> {}, posao |-> 0, preuzeto |-> {}, novi |-> {}, tekuci |-> {},
          lista |-> {}, greska |-> FALSE]
\* SELECT 1 in the transaction that holds the lock.
Ziv(p) == brava = p
\* guard: besides, the settings are active and still of the revision that was read.
Smije(p) == Ziv(p) /\ radnik[p].vazi
Kod(p, pc) == radnik[p].pc = pc

Idi(p, z) == radnik' = [radnik EXCEPT ![p] = z]
\* Without the lock nothing is written any more, and the job stays RUNNING.
Odustani(p) == Idi(p, Miran)
\* An error is noted and ends the job's period.
SaGreskom(p) == [radnik[p] EXCEPT !.greska = TRUE, !.pc = "kraj"]
\* A step that may not go on: at the end of the pass at once when the lock is lost.
Prekini(p) ==
  /\ ~Smije(p)
  /\ IF Ziv(p) THEN Idi(p, SaGreskom(p)) ELSE Odustani(p)
SveOstalo == <<dan, korisnik, brojac, istorija>>

---------------------------------------------------------------------------
(* The pass over the queue: runDailySepAutomation *)

\* Mutant: jobs another process left unfinished are not taken up.
NezavrseniSamoNovi(d) == {x \in Dan : x <= d /\ obrade[x] = "PENDING"}
Nezavrseni(d) == {x \in Dan : x <= d /\ obrade[x] \in {"PENDING", "RUNNING"}}

\* The timer takes the lock, if it is free, and reads the settings.  This month's first
\* day and today get a job, unless they have one or the settings are younger than 04:00
\* of that day; then the queue is read.  A pass that finds nothing to do changes nothing.
Uzmi(p) ==
  LET zakazani == {x \in Dan : /\ x = dan \/ (PrviUMjesecu(x) /\ x < dan)
                               /\ obrade[x] = "NEMA"
                               /\ podesavanje.od < x}
  IN /\ Kod(p, "miruje") /\ brava = Niko /\ podesavanje.aktivna
     /\ Nezavrseni(dan) \cup zakazani # {}
     /\ brava' = p
     /\ obrade' = [x \in Dan |-> IF x \in zakazani THEN "PENDING" ELSE obrade[x]]
     /\ Idi(p, [Miran EXCEPT !.pc = "red", !.vazi = TRUE, !.vrsta = podesavanje.vrsta,
                             !.poslovi = Nezavrseni(dan) \cup zakazani])
     /\ UNCHANGED <<podesavanje, zatvoreno, kif, nalog, SveOstalo>>

\* The oldest job becomes RUNNING; when the settings have changed it is passed over.
PocniPosao(p) ==
  LET d == CHOOSE x \in radnik[p].poslovi : \A y \in radnik[p].poslovi : x <= y
      ostali == radnik[p].poslovi \ {d}
  IN /\ Kod(p, "red") /\ radnik[p].poslovi # {}
     /\ CASE Smije(p) ->
               /\ obrade' = [obrade EXCEPT ![d] = "RUNNING"]
               /\ Idi(p, [radnik[p] EXCEPT !.pc = "preuzmi", !.posao = d, !.poslovi = ostali,
                                           !.greska = FALSE])
          [] Ziv(p) /\ ~radnik[p].vazi ->
               Idi(p, [radnik[p] EXCEPT !.poslovi = ostali]) /\ UNCHANGED obrade
          [] OTHER -> Odustani(p) /\ UNCHANGED obrade
     /\ UNCHANGED <<podesavanje, zatvoreno, kif, nalog, brava, SveOstalo>>

\* The end of the pass: the lock's transaction ends.
ZavrsiRed(p) ==
  /\ Kod(p, "red") /\ radnik[p].poslovi = {}
  /\ brava' = IF Ziv(p) THEN Niko ELSE brava
  /\ Odustani(p)
  /\ UNCHANGED <<tabele, SveOstalo>>

---------------------------------------------------------------------------
(* One job: processSepAutomationCompany *)

\* Mutant: rows that wait from before are not looked for.
ImaPoslaSamoNovi(novi, v) == novi # {}
ImaPosla(novi, v) == novi # {} \/ Cekaju(v) # {}
\* The portal does not answer, or its file cannot be read.
GreskaPortala(p) ==
  /\ Kod(p, "preuzmi") /\ Smije(p)
  /\ Idi(p, SaGreskom(p))
  /\ UNCHANGED <<tabele, brava, SveOstalo>>

\* What the file lists: the correct invoices of the period.
UDatoteci(d) == {r \in Racun : Izdat[r] \in Period(d)}

\* The file is downloaded and known invoices are left out.  When nothing is new and none
\* of the automation's rows waits from before, only the journal of its rows is looked
\* at; otherwise ensureBook finds or opens the book.
Preuzmi(p) ==
  LET preuzeto == UDatoteci(radnik[p].posao)
      novi == {r \in preuzeto : SaIkofom(r) = {}}
      v == radnik[p].vrsta
      rucniNacrt == /\ \E e \in kif : e.izvor = "AUTO" /\ e.knjizen /\ e.vrsta = v
                    /\ nalog[v].status # "POSTED"
      posla == ImaPosla(novi, v)
  IN /\ Kod(p, "preuzmi")
     /\ \/ Prekini(p)
        \/ Smije(p) /\ posla /\ zatvoreno /\ Idi(p, SaGreskom(p))
        \/ /\ Smije(p) /\ posla /\ ~zatvoreno
           /\ Idi(p, [radnik[p] EXCEPT !.pc = "uvoz", !.preuzeto = preuzeto, !.novi = novi])
        \/ /\ Smije(p) /\ ~posla
           /\ Idi(p, [radnik[p] EXCEPT !.pc = "kraj", !.preuzeto = preuzeto,
                                       !.greska = rucniNacrt])
     /\ UNCHANGED <<tabele, brava, SveOstalo>>

\* The invoice that is next, in the order of the file.
Sljedeci(p) == CHOOSE r \in radnik[p].novi : TRUE
BezSljedeceg(p) == [radnik[p] EXCEPT !.novi = @ \ {Sljedeci(p)}]

\* MAPR does not confirm the invoice: an error of its own, the others go on.
MaprOdbija(p) ==
  /\ Kod(p, "uvoz") /\ radnik[p].novi # {}
  /\ Smije(p) /\ ~zatvoreno /\ SaIkofom(Sljedeci(p)) = {}
  /\ Idi(p, [BezSljedeceg(p) EXCEPT !.greska = TRUE])
  /\ UNCHANGED <<tabele, brava, SveOstalo>>

\* importInvoiceLinks before its transaction: a closed book ends the period, a known
\* IKOF is a duplicate, any other invoice is confirmed by MAPR.
ProvjeriRacun(p) ==
  /\ Kod(p, "uvoz") /\ radnik[p].novi # {}
  /\ \/ Prekini(p)
     \/ Smije(p) /\ zatvoreno /\ Idi(p, SaGreskom(p))
     \/ /\ Smije(p) /\ ~zatvoreno
        /\ Idi(p, IF SaIkofom(Sljedeci(p)) # {} THEN BezSljedeceg(p)
                  ELSE [BezSljedeceg(p) EXCEPT !.pc = "upis", !.tekuci = {Sljedeci(p)}])
  /\ UNCHANGED <<tabele, brava, SveOstalo>>

NoviRed(r, izvor, v) ==
  [racun |-> r, izvor |-> izvor, ikof |-> TRUE, vrsta |-> v, knjizen |-> FALSE]
\* What saveKifInvoice makes of the rows: a new one, unless the IKOF is there or
\* belongs to an older row typed by hand.
Upisano(r, izvor, v) ==
  CASE SaIkofom(r) # {} -> kif
    [] SaIkofom(r) = {} /\ Stari(r) # {} ->
         (kif \ Stari(r)) \cup {[e EXCEPT !.ikof = TRUE] : e \in Stari(r)}
    [] OTHER -> kif \cup {NoviRed(r, izvor, v)}

\* Mutant: permission is not asked again inside the transaction.
SmijeUTransakcijiStaro(p) == Ziv(p)
SmijeUTransakciji(p) == Smije(p)

UpisiRacun(p, r) ==
  LET dalje == [radnik[p] EXCEPT !.pc = "uvoz", !.tekuci = {}]
  IN /\ Kod(p, "upis") /\ radnik[p].tekuci = {r}
     /\ CASE SmijeUTransakciji(p) /\ ~zatvoreno ->
               kif' = Upisano(r, "AUTO", radnik[p].vrsta) /\ Idi(p, dalje)
          [] Ziv(p) /\ (zatvoreno \/ ~SmijeUTransakciji(p)) ->
               Idi(p, [dalje EXCEPT !.greska = TRUE]) /\ UNCHANGED kif
          [] OTHER -> Odustani(p) /\ UNCHANGED kif
     /\ UNCHANGED <<podesavanje, obrade, zatvoreno, nalog, brava, SveOstalo>>

\* The automation's own rows that wait, to be posted by name.
Popisi(p) ==
  LET lista == Cekaju(radnik[p].vrsta)
  IN /\ Kod(p, "uvoz") /\ radnik[p].novi = {}
     /\ \/ Prekini(p)
        \/ Smije(p) /\ Idi(p, [radnik[p] EXCEPT !.pc = IF lista = {} THEN "kraj" ELSE "knjizi",
                                                !.lista = lista])
     /\ UNCHANGED <<tabele, brava, SveOstalo>>

\* Mutant: everything unposted in the book is posted, not what was listed.
ZaKnjizenjeSve(v, lista) == {e \in kif : e.vrsta = v /\ ~e.knjizen}
ZaKnjizenje(v, lista) ==
  {e \in kif : e.vrsta = v /\ ~e.knjizen /\ \E x \in lista : x.racun = e.racun
                                                              /\ x.izvor = e.izvor}
\* The rows' lines are added to the book's journal, which becomes, or stays, as given.
Proknjizi(v, redovi, status) ==
  /\ kif' = (kif \ redovi) \cup {[e EXCEPT !.knjizen = TRUE] : e \in redovi}
  /\ nalog' = [nalog EXCEPT
       ![v].status = status,
       ![v].stavke = [r \in Racun |-> @[r] + Cardinality({e \in redovi : e.racun = r})]]

\* With finalize, a draft is left to whoever opened it.
MozeUNalog(v) == nalog[v].status # "DRAFT"
\* postInvoiceBookInContext with finalize: a new journal is posted at once, a posted
\* one is added to.  An unfinished posting scheme is an error too.
KnjiziAutomatski(p) ==
  LET v == radnik[p].vrsta
      redovi == ZaKnjizenje(v, radnik[p].lista)
      moze == ~zatvoreno /\ redovi # {} /\ MozeUNalog(v)
  IN /\ Kod(p, "knjizi")
     /\ \/ Prekini(p) /\ UNCHANGED <<kif, nalog>>
        \/ Smije(p) /\ Idi(p, SaGreskom(p)) /\ UNCHANGED <<kif, nalog>>
        \/ /\ Smije(p) /\ moze
           /\ Proknjizi(v, redovi, "POSTED")
           /\ Idi(p, [radnik[p] EXCEPT !.pc = "kraj"])
     /\ UNCHANGED <<podesavanje, obrade, zatvoreno, brava, SveOstalo>>

\* The lock is checked once more, then the status is written in another transaction.
Provjeri(p) ==
  /\ Kod(p, "kraj")
  /\ IF Ziv(p) THEN Idi(p, [radnik[p] EXCEPT !.pc = "status"]) ELSE Odustani(p)
  /\ UNCHANGED <<tabele, brava, SveOstalo>>

\* Mutant: what went wrong is not remembered.
IshodBezGresaka(p) == "DONE"
Ishod(p) == IF radnik[p].greska THEN "REVIEW" ELSE "DONE"
UpisiStatus(p) ==
  /\ Kod(p, "status")
  /\ obrade' = [obrade EXCEPT ![radnik[p].posao] = Ishod(p)]
  /\ Idi(p, [radnik[p] EXCEPT !.pc = "red", !.posao = 0, !.preuzeto = {}, !.novi = {},
                              !.lista = {}])
  /\ UNCHANGED <<podesavanje, zatvoreno, kif, nalog, brava, SveOstalo>>

Radi(p) ==
  \/ Uzmi(p) \/ PocniPosao(p) \/ ZavrsiRed(p)
  \/ GreskaPortala(p) \/ Preuzmi(p) \/ MaprOdbija(p) \/ ProvjeriRacun(p)
  \/ \E r \in Racun : UpisiRacun(p, r)
  \/ Popisi(p)
  \/ KnjiziAutomatski(p) \/ Provjeri(p) \/ UpisiStatus(p)

---------------------------------------------------------------------------
(* Time, the portal and failures *)

NoviDan ==
  /\ dan + 1 \in Dan
  /\ dan' = dan + 1
  /\ UNCHANGED <<tabele, brava, radnik, korisnik, brojac, istorija>>

\* The connection of the lock breaks; with it the process may crash and start again.
Kvar(p) ==
  /\ brojac.kvarovi < MaxKvarova
  /\ brojac' = [brojac EXCEPT !.kvarovi = @ + 1]
  /\ ~Kod(p, "miruje")
  /\ brava' = IF brava = p THEN Niko ELSE brava
  /\ radnik' \in {radnik, [radnik EXCEPT ![p] = Miran]}
  /\ UNCHANGED <<dan, tabele, korisnik, istorija>>

---------------------------------------------------------------------------
(* The user, one request at a time *)

Slobodan == [op |-> "", red |-> {}, vrsta |-> Niko]
Poziva(op) ==
  /\ Append(brojac.izmjene, op) \in Tokovi
  /\ brojac' = [brojac EXCEPT !.izmjene = Append(@, op)]
Pocinje(op) == korisnik.op = "" /\ Poziva(op)
\* A request that checks and writes in one transaction.
Odjednom(op) == Pocinje(op) /\ UNCHANGED <<dan, brava, korisnik>>
\* A request that checks first and writes later.
Provjereno(op, redovi, v) ==
  /\ Pocinje(op)
  /\ korisnik' = [op |-> op, red |-> redovi, vrsta |-> v]
  /\ UNCHANGED <<dan, tabele, brava, radnik, istorija>>
Upisuje(op) ==
  /\ korisnik.op = op /\ ~zatvoreno
  /\ korisnik' = Slobodan
  /\ UNCHANGED <<dan, podesavanje, obrade, zatvoreno, brava, radnik, brojac>>
\* The write is refused: by a trigger, or because the row is gone.
OdbijKorisnika ==
  /\ korisnik.op # "" /\ zatvoreno
  /\ korisnik' = Slobodan
  /\ UNCHANGED <<dan, tabele, brava, radnik, brojac, istorija>>

\* createKifEntry: an invoice typed from paper, if none has its number and date.
UnesiKif(r, v) ==
  /\ Izdati(r) /\ Redovi(r) = {} /\ ~zatvoreno
  /\ Provjereno("unesi", {[NoviRed(r, "RUKA", v) EXCEPT !.ikof = FALSE]}, v)
UpisiKif ==
  /\ Upisuje("unesi")
  /\ kif' = kif \cup korisnik.red
  /\ istorija' = [istorija EXCEPT
       !.sporni = @ \cup {e.racun : e \in {x \in korisnik.red : Redovi(x.racun) # {}}}]
  /\ UNCHANGED nalog

\* deleteKifEntry: an unposted row, deleted by its id whatever became of it since.
ObrisiKif(e) ==
  /\ e \in kif /\ ~e.knjizen /\ ~zatvoreno
  /\ Provjereno("obrisi", {e}, e.vrsta)
ObrisiKifUpis ==
  LET sada == {e \in kif : \E x \in korisnik.red : e.racun = x.racun /\ e.izvor = x.izvor}
      racuni(redovi) == {e.racun : e \in redovi}
  IN /\ Upisuje("obrisi")
     /\ kif' = kif \ sada
     /\ istorija' = [dirao |-> istorija.dirao \cup racuni(sada),
                     sporni |-> istorija.sporni \cup racuni({e \in sada : e.knjizen})]
     /\ UNCHANGED nalog

\* Import by hand, of MAPR links.
UveziRucno(r, v) ==
  /\ Izdati(r) /\ ~zatvoreno
  /\ Odjednom("uvezi")
  /\ kif' = Upisano(r, "MAPR", v)
  /\ UNCHANGED <<podesavanje, obrade, zatvoreno, nalog, radnik, istorija>>

\* postInvoiceBook: all that is unposted, into a new draft or the journal there is.
KnjiziRucno(v) ==
  LET redovi == {e \in kif : e.vrsta = v /\ ~e.knjizen}
  IN /\ redovi # {} /\ ~zatvoreno
     /\ Odjednom("knjizi")
     /\ Proknjizi(v, redovi, IF nalog[v].status = "NEMA" THEN "DRAFT" ELSE nalog[v].status)
     /\ UNCHANGED <<podesavanje, obrade, zatvoreno, radnik, istorija>>

\* postJournal and reopenJournal
StatusNaloga(v, op, iz, u) ==
  /\ nalog[v].status = iz /\ ~zatvoreno
  /\ Odjednom(op)
  /\ nalog' = [nalog EXCEPT ![v].status = u]
  /\ UNCHANGED <<podesavanje, obrade, zatvoreno, kif, radnik, istorija>>
PostJournal(v) == StatusNaloga(v, "post", "DRAFT", "POSTED")
ReopenJournal(v) == StatusNaloga(v, "reopen", "POSTED", "DRAFT")

PrazanNalog == [status |-> "NEMA", stavke |-> [r \in Racun |-> 0]]
\* deleteJournal: a draft is checked, then the journal is deleted whatever it is by
\* now, and its rows are unposted again.
DeleteJournal(v) == nalog[v].status = "DRAFT" /\ Provjereno("delete", {}, v)
DeleteJournalUpis ==
  LET njegovi == {e \in kif : e.vrsta = korisnik.vrsta /\ e.knjizen}
  IN /\ Upisuje("delete")
     /\ kif' = (kif \ njegovi) \cup {[e EXCEPT !.knjizen = FALSE] : e \in njegovi}
     /\ nalog' = [nalog EXCEPT ![korisnik.vrsta] = PrazanNalog]
     /\ istorija' = [istorija EXCEPT !.dirao = @ \cup {e.racun : e \in njegovi}]

\* The period is locked or unlocked, the year closed or opened, by whoever may, also
\* between the check and the write of another user's request.
ZatvoriOtvori ==
  /\ Poziva("zatvori")
  /\ zatvoreno' = ~zatvoreno
  /\ UNCHANGED <<dan, podesavanje, obrade, kif, nalog, brava, radnik, korisnik, istorija>>

\* saveSepAutomation: every saving gives a new revision; the kind does not change
\* under rows the automation has not posted.
PodesiSme(v) == v = podesavanje.vrsta \/ {e \in kif : e.izvor = "AUTO" /\ ~e.knjizen} = {}
SaveSepAutomation(aktivna, v) ==
  /\ Odjednom("podesi")
  /\ aktivna => PodesiSme(v)
  /\ podesavanje' = [aktivna |-> aktivna, od |-> dan,
                     vrsta |-> IF aktivna THEN v ELSE podesavanje.vrsta]
  /\ radnik' = [p \in Proces |-> [radnik[p] EXCEPT !.vazi = FALSE]]
  /\ UNCHANGED <<obrade, zatvoreno, kif, nalog, istorija>>

\* retrySepAutomation: today's job, or one there was, unless it runs.
RetrySepAutomation(d) ==
  /\ podesavanje.aktivna /\ d <= dan
  /\ obrade[d] # "RUNNING" /\ (obrade[d] = "NEMA" => d = dan)
  /\ Odjednom("ponovi")
  /\ obrade' = [obrade EXCEPT ![d] = "PENDING"]
  /\ UNCHANGED <<podesavanje, zatvoreno, kif, nalog, radnik, istorija>>

Korisnik ==
  \/ \E r \in Racun, v \in Vrsta : UnesiKif(r, v) \/ UveziRucno(r, v)
  \/ \E e \in kif : ObrisiKif(e)
  \/ UpisiKif \/ ObrisiKifUpis \/ DeleteJournalUpis \/ OdbijKorisnika \/ ZatvoriOtvori
  \/ \E v \in Vrsta : KnjiziRucno(v) \/ PostJournal(v) \/ ReopenJournal(v) \/ DeleteJournal(v)
  \/ \E v \in Vrsta, a \in BOOLEAN : SaveSepAutomation(a, v)
  \/ \E d \in Dan : RetrySepAutomation(d)

---------------------------------------------------------------------------
(* Specification *)

Init ==
  /\ dan = 2
  /\ podesavanje \in {[aktivna |-> TRUE, od |-> 1, vrsta |-> v] : v \in Vrsta}
  /\ obrade = [d \in Dan |-> "NEMA"]
  /\ zatvoreno = FALSE
  /\ kif = {}
  /\ nalog = [v \in Vrsta |-> PrazanNalog]
  /\ brava = Niko
  /\ radnik = [p \in Proces |-> Miran]
  /\ korisnik = Slobodan
  /\ brojac = [kvarovi |-> 0, izmjene |-> <<>>]
  /\ istorija = [dirao |-> {}, sporni |-> {}]

Next ==
  \/ NoviDan
  \/ \E p \in Proces : Radi(p) \/ Kvar(p)
  \/ Korisnik

\* The timer fires every minute and the server runs what it has begun.
Pravicnost == \A p \in Proces : WF_vars(Radi(p))
Spec == Init /\ [][Next]_vars /\ Pravicnost

---------------------------------------------------------------------------
(* Properties *)

\* An invoice has one row in the KIF and stands in the ledger exactly when that row is
\* posted, however processes, crashes, imports by hand and deletions of journals mix;
\* only a user's write that relied on an old check is excepted.
JednomAkoNijeSporno ==
  \A r \in Racun \ istorija.sporni :
    /\ Cardinality(Redovi(r)) <= 1
    /\ Knjizeno(r) = Cardinality({e \in Redovi(r) : e.knjizen})

\* A row of the automation that was committed and not posted, as a crash leaves it, has
\* a job that will be, or asks to be, done again, unless the user unposted it.
NezavrsenoSePrati ==
  \A e \in kif : e.izvor = "AUTO" /\ ~e.knjizen /\ e.racun \notin istorija.dirao =>
    \E d \in Dan : Izdat[e.racun] \in Period(d) /\ obrade[d] \in {"PENDING", "RUNNING", "REVIEW"}

\* The automation's unposted rows are of the kind that is set, so the next pass finds them.
VrstaSePoklapa ==
  \A e \in kif : e.izvor = "AUTO" /\ ~e.knjizen /\ e.racun \notin istorija.dirao =>
    e.vrsta = podesavanje.vrsta

\* A job is DONE only when all it downloaded is in the KIF and the automation's part of
\* it posted, unless the user took it out.
GotovJeUvezen ==
  [][\A p \in Proces :
       Kod(p, "status") /\ radnik'[p].pc = "red" /\ obrade'[radnik[p].posao] = "DONE" =>
         \A r \in radnik[p].preuzeto \ istorija.dirao :
           \E e \in Redovi(r) : e.izvor = "AUTO" => e.knjizen]_vars

\* The automation posts no row but its own and completes no draft that a user left.
SamoSvojeKnjizi ==
  [][\A p \in Proces : Radi(p) =>
       /\ \A e \in kif : (e.izvor # "AUTO" /\ ~e.knjizen) =>
            \A x \in kif' : (x.racun = e.racun /\ x.izvor = e.izvor) => ~x.knjizen
       /\ \A v \in Vrsta : nalog[v].status = "DRAFT" => nalog'[v] = nalog[v]]_vars

\* Every job that is waiting, or was left RUNNING by a process that crashed, is done or
\* set aside for review, as long as the automation stays switched on.
ObradaSeZavrsava ==
  \A d \in Dan : obrade[d] \in {"PENDING", "RUNNING"} ~>
                   (obrade[d] \in {"DONE", "REVIEW"} \/ ~podesavanje.aktivna)

\* CURRENT_STATE.md: invoices are protected from being posted twice.
JednomUKnjigama == \A r \in Racun : Knjizeno(r) <= 1
=============================================================================
