------------------------------- MODULE Banka -------------------------------
(* Statements that arrive by mail: users and the daily automation import the attachments
   of messages, one at a time, and the automation posts what the rules have mapped. *)
EXTENDS Izvodi

CONSTANTS
  Poruka,       \* messages, 1..n
  Prilozi,      \* the statements attached to each
  MaxPrekida    \* bound: processes that stop, leases lost, imports refused,
                \* years closed or opened again

\* What a message brings are statements.
ASSUME BankaPretpostavke == Prilozi \in [Poruka -> SUBSET Izvod]

VARIABLES
  red,          \* mail_izvod_obrade: of each message its attachments and, as 0, itself
  zakup,        \* who holds the company's advisory lock; 0 nobody
  obradjen,     \* the day's AUTO_BANK_RUN is written
  prekidi

posta == <<red, zakup, obradjen>>
vars == <<izvodi, radnik, posta, prekidi>>

Prekid == prekidi < MaxPrekida /\ prekidi' = prekidi + 1

\* completedMailKeys: something was imported, nothing is pending, and no statement of it
\* was deleted.
Zavrsena(p) ==
  /\ \E k \in DOMAIN red[p] : red[p][k] = "UVEZEN"
  /\ \A k \in DOMAIN red[p] : red[p][k] \in {"NEMA", "UVEZEN"}
Nastavi(w) ==
  IF radnik[w].auto
    THEN [radnik[w] EXCEPT !.pc = "auto_poruke", !.poruka = 0, !.izvod = 0, !.prilozi = {}]
    ELSE Miran

---------------------------------------------------------------------------
(* importBankStatementMailMessage *)

Uzmi(w, p, stanje) ==
  radnik' = [radnik EXCEPT ![w] =
    [stanje EXCEPT !.pc = "prilog", !.poruka = p, !.prilozi = Prilozi[p]]]
\* No record says that the message is in progress.
PorukaBezTraga(w, p, stanje) ==
  /\ ~zakljucena /\ ~Zavrsena(p)
  /\ Uzmi(w, p, stanje)
  /\ UNCHANGED <<izvodi, red>>
\* Recorded as failed until every attachment is recorded.
PocniPoruku(w, p, stanje) ==
  /\ ~zakljucena /\ ~Zavrsena(p)
  /\ red' = [red EXCEPT ![p][0] = "GRESKA"]
  /\ Uzmi(w, p, stanje)
  /\ UNCHANGED izvodi
UveziPoruku(w, p) ==
  /\ Kod(w, "miran") /\ PocniPoruku(w, p, Miran)
  /\ UNCHANGED <<zakup, obradjen, prekidi>>

Prvi(w) == Min(radnik[w].prilozi)
UveziPrilog(w) ==
  /\ Kod(w, "prilog") /\ radnik[w].prilozi # {}
  /\ Uvezi(Prvi(w))
  /\ radnik' = [radnik EXCEPT ![w].pc = "zapis", ![w].izvod = Prvi(w)]
  /\ UNCHANGED <<posta, prekidi>>
\* The year is closed, the attachment cannot be read, the service does not answer.
OdbijPrilog(w) ==
  /\ Kod(w, "prilog") /\ radnik[w].prilozi # {}
  /\ IF zakljucena THEN UNCHANGED prekidi ELSE Prekid
  /\ radnik' = [radnik EXCEPT ![w].pc = "zapis", ![w].izvod = 0]
  /\ UNCHANGED <<izvodi, posta>>
\* A reference to a statement that is gone is refused, and recorded as an error.
Zapisi(w) ==
  /\ Kod(w, "zapis")
  /\ red' = [red EXCEPT ![radnik[w].poruka][Prvi(w)] =
               IF radnik[w].izvod # 0 THEN "UVEZEN" ELSE "GRESKA"]
  /\ radnik' = [radnik EXCEPT ![w].pc = "prilog", ![w].izvod = 0,
                              ![w].prilozi = @ \ {Prvi(w)}]
  /\ UNCHANGED <<izvodi, zakup, obradjen, prekidi>>
ZavrsiPoruku(w) ==
  /\ Kod(w, "prilog") /\ radnik[w].prilozi = {}
  /\ red' = [red EXCEPT ![radnik[w].poruka][0] = "NEMA"]
  /\ radnik' = [radnik EXCEPT ![w] = Nastavi(w)]
  /\ UNCHANGED <<izvodi, zakup, obradjen, prekidi>>

\* ...and deletes the row by its id: the mail records lose it, whoever held it misses it.
Obrisi(w) ==
  LET i == radnik[w].izvod
  IN /\ Kod(w, "brisanje")
     /\ IF i = 0 THEN UNCHANGED <<izvod, red>>
        ELSE /\ izvod' = [izvod EXCEPT ![i] = NemaIzvoda]
             /\ red' = [p \in Poruka |-> [k \in DOMAIN red[p] |->
                  IF k = i /\ red[p][k] = "UVEZEN" THEN "OBRISAN" ELSE red[p][k]]]
     /\ radnik' = [v \in Radnik |->
          IF v = w THEN Miran
          ELSE [radnik[v] EXCEPT !.izvod = IF @ = i THEN 0 ELSE @, !.spremni = @ \ {i}]]
     /\ UNCHANGED <<nalog, veza, ostalo, placanje, zakljucena, zakup, obradjen,
                    prekidi>>

---------------------------------------------------------------------------
(* runDailyBankAutomation *)

\* The day's SEP jobs have ended.
Otkucaj(w) ==
  /\ Kod(w, "miran") /\ ~obradjen /\ zakup = 0
  /\ IF zakljucena
       THEN obradjen' = TRUE /\ UNCHANGED <<zakup, radnik>>
       ELSE /\ zakup' = w /\ UNCHANGED obradjen
            /\ radnik' = [radnik EXCEPT ![w] = [Miran EXCEPT !.pc = "auto_poruke",
                 !.auto = TRUE, !.poruke = {p \in Poruka : ~Zavrsena(p)}]]
  /\ UNCHANGED <<izvodi, red, prekidi>>
AutoPoruka(w, p) ==
  LET dalje == [radnik[w] EXCEPT !.poruke = @ \ {p}]
  IN /\ Kod(w, "auto_poruke") /\ p \in radnik[w].poruke
     /\ IF Zavrsena(p)
          THEN radnik' = [radnik EXCEPT ![w] = dalje] /\ UNCHANGED <<izvodi, red>>
          ELSE PocniPoruku(w, p, dalje)
     /\ UNCHANGED <<zakup, obradjen, prekidi>>
\* Statements that came by mail and have no journal.
Spremni == {i \in Izvod : /\ izvod[i].status = "READY" /\ ~izvod[i].nalog
                          /\ \E p \in Poruka : i \in Prilozi[p] /\ red[p][i] = "UVEZEN"}
AutoSpremni(w) ==
  /\ Kod(w, "auto_poruke") /\ radnik[w].poruke = {}
  /\ radnik' = [radnik EXCEPT ![w].pc = "auto_knjizi", ![w].spremni = Spremni]
  /\ UNCHANGED <<izvodi, posta, prekidi>>
AutoKnjizi(w) ==
  LET i == Min(radnik[w].spremni)
  IN /\ Kod(w, "auto_knjizi") /\ radnik[w].spremni # {}
     /\ LET dalje == [radnik[w] EXCEPT !.spremni = @ \ {i}]
        IN IF zakljucena THEN radnik' = [radnik EXCEPT ![w] = dalje]
           ELSE PocniKnjizenje(w, i, dalje)
     /\ UNCHANGED <<izvodi, posta, prekidi>>
\* All done; or the deadline has passed or an error ended the work: the day is reported.
Izvjestaj(w) ==
  /\ radnik[w].auto /\ radnik[w].pc \in {"auto_poruke", "auto_knjizi"}
  /\ IF Kod(w, "auto_knjizi") /\ radnik[w].spremni = {} THEN UNCHANGED prekidi
     ELSE IF zakljucena THEN UNCHANGED prekidi ELSE Prekid
  /\ obradjen' = TRUE /\ zakup' = IF zakup = w THEN 0 ELSE zakup
  /\ radnik' = [radnik EXCEPT ![w] = Miran]
  /\ UNCHANGED <<izvodi, red>>
\* The lease's transaction times out; the process does not notice.
IstekniZakup ==
  /\ zakup # 0 /\ Prekid /\ zakup' = 0
  /\ UNCHANGED <<izvodi, radnik, red, obradjen>>
\* The process stops.
Stani(w) ==
  /\ radnik[w].auto \/ radnik[w].poruka # 0
  /\ Prekid
  /\ radnik' = [radnik EXCEPT ![w] = Miran]
  /\ zakup' = IF zakup = w THEN 0 ELSE zakup
  /\ UNCHANGED <<izvodi, red, obradjen>>

---------------------------------------------------------------------------
Init ==
  /\ IzvodiInit
  /\ red = [p \in Poruka |-> [k \in Prilozi[p] \cup {0} |-> "NEMA"]]
  /\ zakup = 0 /\ obradjen = FALSE /\ prekidi = 0

\* importBankStatement: a user uploads the file.
UveziFajl(i) == Uvezi(i) /\ ~Postoji(i) /\ UNCHANGED radnik
Rad ==
  /\ \/ \E w \in Radnik, i \in Izvod : Otvori(w, i) \/ ZatraziKnjizenje(w, i)
     \/ \E w \in Radnik : \/ SacuvajStavke(w) \/ SacuvajRucno(w) \/ Odustani(w)
                          \/ ZatraziBrisanje(w) \/ ProknjiziRucno(w)
                          \/ Proknjizi(w) \/ NeProknjizi(w)
     \/ \E i \in Izvod : UveziFajl(i) \/ Rasknjizi(i)
     \/ ZatvoriOstalim \/ PonistiVeze
  /\ UNCHANGED <<posta, prekidi>>
Posta ==
  \/ \E w \in Radnik :
       \/ UveziPrilog(w) \/ OdbijPrilog(w) \/ Zapisi(w) \/ ZavrsiPoruku(w) \/ Obrisi(w)
       \/ Otkucaj(w) \/ AutoSpremni(w) \/ AutoKnjizi(w) \/ Izvjestaj(w) \/ Stani(w)
       \/ \E p \in Poruka : UveziPoruku(w, p) \/ AutoPoruka(w, p)
  \/ IstekniZakup
  \/ PromijeniGodinu /\ Prekid /\ UNCHANGED posta
Next == Rad \/ Posta
Spec == Init /\ [][Next]_vars

---------------------------------------------------------------------------
(* Properties *)

\* Statement and journal agree, whoever posts, reopens, edits or deletes meanwhile: a
\* posted statement has a posted journal, one that was reopened keeps its draft, and only
\* a posted journal settles an invoice.
NalogPratiIzvod ==
  \A i \in Izvod :
    /\ izvod[i].nalog => nalog[i] = IF izvod[i].status = "POSTED" THEN "POSTED" ELSE "DRAFT"
    /\ izvod[i].status = "POSTED" => izvod[i].nalog
    /\ veza[i] > 0 => nalog[i] = "POSTED"

\* The payment status of a booked invoice is what its active settlements say, and they
\* never exceed it, although a posting computes both from an older state.  Excepted is an
\* invoice that is settled by a statement whose bank lines do not name its partner, as a
\* journal written by hand may: such a posting neither refreshes nor touches the entry.
StatusPlacanja ==
  UKnjizi /\ (\A i \in Izvod \ SaPartnerom : veza[i] = 0) =>
    /\ placanje = Status(Zatvoreno(veza, ostalo))
    /\ Zatvoreno(veza, ostalo) <= Dug

\* A message that is taken as completed, and never looked at again, has left all of its
\* statements in the database, whoever worked on it and wherever they stopped.
ObradjenaJeUvezena ==
  \A p \in Poruka : Zavrsena(p) => \A i \in Prilozi[p] : Postoji(i)

\* The automation posts no statement that a user has made a journal of: neither one that
\* was reopened nor one that was edited by hand, also after it listed it as ready.
NeVracaRasknjizen ==
  [][\A i \in Izvod :
       izvod'[i].status = "POSTED" /\ izvod[i].status # "POSTED" /\ izvod[i].nalog
         => \E w \in Radnik : radnik[w].izvod = i /\ ~radnik[w].auto /\ radnik'[w] = Miran]_vars

\* In a closed year no statement appears, changes, or is posted or reopened, also by a
\* posting that began before; only what was to be deleted may go.
ZakljuceniIzvodiMiruju ==
  [][zakljucena => \A i \in Izvod : /\ izvod'[i] \in {izvod[i], NemaIzvoda}
                                    /\ nalog'[i] = nalog[i]]_vars

\* A settled item is never settled beyond its amount ("Dodatna uplata na već plaćen račun
\* ostaje neraspoređena"), booked invoice or not.
BezDvostrukogZatvaranja == Zatvoreno(veza, ostalo) <= Dug
=============================================================================
