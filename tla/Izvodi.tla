------------------------------- MODULE Izvodi -------------------------------
(* Bank statements: a statement is imported, edited, posted as a journal, reopened and
   deleted, and its payment settles an invoice.  Every write but a deletion holds the
   company's row; a posting is Serializable and reads the database as it was when it
   began to wait for that row, so all it can miss are the rows it does not write. *)
EXTENDS Integers, FiniteSets, FiniteSetsExt, Functions

CONSTANTS
  Izvod,      \* bank statements, 1..n: account, number and content identify one
  Dirani,     \* those that anybody maps or opens; the others are only imported
  MaxOstalo,  \* bound: other payments of the invoice
  Radnik,     \* requests and automation processes at one time
  Uplata,     \* the payment of each statement
  SaPartnerom,\* statements whose bank line names the invoice's partner
  Dug,        \* the invoice's amount
  UKnjizi     \* whether the invoice is an entry of the KIF or KUF book

\* Statements are finitely many rows, 0 is none of them; amounts are natural, in units.
ASSUME IzvodiPretpostavke ==
  /\ IsFiniteSet(Izvod) /\ Izvod \subseteq Nat \ {0} /\ SaPartnerom \subseteq Izvod
  /\ Uplata \in [Izvod -> Nat] /\ Dug \in Nat /\ UKnjizi \in BOOLEAN

VARIABLES
  izvod,      \* bank_statements
  nalog,      \* the journal numbered as the statement
  veza,       \* the amount a statement's journal settles of the invoice
  ostalo,     \* the amount other payments settle of it
  placanje,   \* payment_status of the invoice's book entry
  zakljucena, \* the year is closed, or the VAT period locked
  radnik      \* requests in progress

izvodi == <<izvod, nalog, veza, ostalo, placanje, zakljucena>>

NemaIzvoda == [status |-> "NEMA", rezim |-> "AUTO", nalog |-> FALSE]
Miran == [pc |-> "miran", auto |-> FALSE, izvod |-> 0, staro |-> FALSE, placeno |-> 0,
          poruka |-> 0, prilozi |-> {}, poruke |-> {}, spremni |-> {}]

Postoji(i) == izvod[i].status # "NEMA"
Kod(w, pc) == radnik[w].pc = pc
\* A step of an automation process returns to it, a request ends.
Nakon(w) ==
  IF radnik[w].auto THEN [radnik[w] EXCEPT !.pc = "auto_knjizi", !.izvod = 0, !.staro = FALSE]
  ELSE Miran
\* The rows a request locks or writes: its form's statement, or all that a posting touches.
Red(i) == {<<"izvod", i>>}
RedGodine == {<<"godina", 0>>}
RedRacuna == IF UKnjizi THEN {<<"racun", 0>>} ELSE {}
Dira(w) ==
  CASE Kod(w, "forma") -> Red(radnik[w].izvod)
    [] Kod(w, "knjizi") -> Red(radnik[w].izvod) \cup RedGodine
                           \cup (IF radnik[w].izvod \in SaPartnerom THEN RedRacuna ELSE {})
    [] OTHER -> {}
\* One of them was written since the request read it.
Zastari(redovi) ==
  [w \in Radnik |-> IF Dira(w) \cap redovi = {} THEN radnik[w]
                    ELSE [radnik[w] EXCEPT !.staro = TRUE]]

Zatvoreno(v, o) == SumFunction(v) + o
Status(p) == IF p <= 0 THEN "UNPAID" ELSE IF p < Dug THEN "PARTIALLY_PAID"
             ELSE IF p = Dug THEN "PAID" ELSE "OVERPAID"
\* refreshSettlementInvoices
Osvjezi(v, o) == placanje' = IF UKnjizi THEN Status(Zatvoreno(v, o)) ELSE placanje

---------------------------------------------------------------------------
(* Import and editing *)

\* runBankStatementImport: new, or a duplicate of what exists; READY when rules map it.
Uvezi(i) ==
  /\ ~zakljucena
  /\ IF Postoji(i) THEN UNCHANGED izvod
     ELSE \E s \in IF i \in Dirani THEN {"READY", "NEEDS_REVIEW"} ELSE {"NEEDS_REVIEW"} :
            izvod' = [izvod EXCEPT ![i] = [NemaIzvoda EXCEPT !.status = s]]
  /\ UNCHANGED <<nalog, veza, ostalo, placanje, zakljucena>>

\* A form shows a statement that is not posted, with its version.
Otvori(w, i) ==
  /\ Kod(w, "miran") /\ Postoji(i) /\ i \in Dirani /\ izvod[i].status # "POSTED"
  /\ radnik' = [radnik EXCEPT ![w] = [Miran EXCEPT !.pc = "forma", !.izvod = i]]
  /\ UNCHANGED izvodi
\* lockBankStatement and the comparison of versions.
Zakljucan(w) ==
  LET i == radnik[w].izvod
  IN /\ Kod(w, "forma") /\ i # 0 /\ ~zakljucena /\ ~radnik[w].staro
     /\ izvod[i].status # "POSTED"
Sacuvaj(w, rezim) ==
  LET i == radnik[w].izvod
  IN /\ \E s \in {"READY", "NEEDS_REVIEW"} :
          izvod' = [izvod EXCEPT ![i].status = s, ![i].rezim = rezim,
                                 ![i].nalog = @ \/ rezim = "MANUAL"]
     /\ radnik' = [Zastari(Red(i)) EXCEPT ![w] = Miran]
     /\ UNCHANGED <<veza, ostalo, placanje, zakljucena>>
\* updateBankStatementLines, reapplyBankStatementRules
SacuvajStavke(w) ==
  /\ Zakljucan(w) /\ izvod[radnik[w].izvod].rezim = "AUTO"
  /\ Sacuvaj(w, "AUTO") /\ UNCHANGED nalog
\* saveManualBankJournal: makes the journal, if its number is free.
SacuvajRucno(w) ==
  LET i == radnik[w].izvod
  IN /\ Zakljucan(w) /\ (izvod[i].nalog \/ nalog[i] = "NEMA")
     /\ Sacuvaj(w, "MANUAL") /\ nalog' = [nalog EXCEPT ![i] = "DRAFT"]
\* The form is abandoned, or refused.
Odustani(w) ==
  /\ Kod(w, "forma")
  /\ radnik' = [radnik EXCEPT ![w] = Miran]
  /\ UNCHANGED izvodi

\* deleteBankStatement reads that the statement is unposted and has no journal...
ZatraziBrisanje(w) ==
  LET i == radnik[w].izvod
  IN /\ Kod(w, "forma") /\ i # 0 /\ ~zakljucena
     /\ Postoji(i) /\ izvod[i].status # "POSTED" /\ ~izvod[i].nalog
     /\ radnik' = [radnik EXCEPT ![w].pc = "brisanje"]
     /\ UNCHANGED izvodi

---------------------------------------------------------------------------
(* Posting and reopening *)

\* What is free of the invoice, as a request that has read `placeno` of it sees it.
Otvoreno(placeno) == Max({0, Dug - placeno})
\* postBankSettlements: the bank line's proposal, or the manual row's document.
NovaVeza(i, placeno) ==
  IF i \in SaPartnerom \/ izvod[i].rezim = "MANUAL"
    THEN Min({Uplata[i], Otvoreno(placeno)}) ELSE 0
\* The book entries of the bank lines' partners are refreshed, the others are not.
Knjizi(w, i, placeno, novi) ==
  LET v == NovaVeza(i, placeno)
      pise == i \in SaPartnerom
  IN /\ izvod' = [izvod EXCEPT ![i].status = "POSTED", ![i].nalog = TRUE]
     /\ nalog' = [nalog EXCEPT ![i] = "POSTED"]
     /\ veza' = [veza EXCEPT ![i] = v]
     /\ placanje' = IF UKnjizi /\ pise THEN Status(placeno + v) ELSE placanje
     /\ radnik' = [Zastari(Red(i) \cup (IF pise THEN RedRacuna ELSE {})) EXCEPT ![w] = novi]
     /\ UNCHANGED <<ostalo, zakljucena>>

\* postSelectedBankStatements begins: from here on it sees this state of the tables.
PocniKnjizenje(w, i, stanje) ==
  radnik' = [radnik EXCEPT ![w] = [stanje EXCEPT !.pc = "knjizi", !.izvod = i,
                                                 !.placeno = Zatvoreno(veza, ostalo)]]
ZatraziKnjizenje(w, i) ==
  /\ Kod(w, "miran") /\ izvod[i].status = "READY" /\ ~zakljucena
  /\ PocniKnjizenje(w, i, Miran)
  /\ UNCHANGED izvodi
\* A statement of its own is posted; one with a journal is posted again on the same.
SmijeKnjiziti(w) ==
  LET i == radnik[w].izvod
  IN /\ Kod(w, "knjizi") /\ i # 0 /\ izvod[i].status = "READY"
     /\ IF izvod[i].nalog THEN ~radnik[w].auto ELSE nalog[i] = "NEMA"
ProknjiziStaro(w) ==
  SmijeKnjiziti(w) /\ Knjizi(w, radnik[w].izvod, radnik[w].placeno, Nakon(w))
ProknjiziTudje(w) ==
  LET i == radnik[w].izvod
  IN /\ Kod(w, "knjizi") /\ i # 0 /\ izvod[i].status = "READY" /\ ~radnik[w].staro
     /\ (izvod[i].nalog \/ nalog[i] = "NEMA")
     /\ Knjizi(w, i, radnik[w].placeno, Nakon(w))
\* A row that it locks or writes and that was written since stops it.
Proknjizi(w) ==
  /\ SmijeKnjiziti(w) /\ ~radnik[w].staro
  /\ Knjizi(w, radnik[w].izvod, radnik[w].placeno, Nakon(w))
NeProknjizi(w) ==
  /\ Kod(w, "knjizi")
  /\ radnik' = [radnik EXCEPT ![w] = Nakon(w)]
  /\ UNCHANGED izvodi
\* postManualBankJournal, READ COMMITTED.
ProknjiziRucno(w) ==
  LET i == radnik[w].izvod
  IN /\ Zakljucan(w) /\ izvod[i].rezim = "MANUAL" /\ nalog[i] = "DRAFT"
     /\ Knjizi(w, i, Zatvoreno(veza, ostalo), Miran)

\* The edges are left and the invoice is not refreshed.
RasknjiziBezVeza(i) ==
  /\ izvod[i].status = "POSTED" /\ izvod[i].nalog /\ ~zakljucena
  /\ izvod' = [izvod EXCEPT ![i].status = "NEEDS_REVIEW"]
  /\ nalog' = [nalog EXCEPT ![i] = "DRAFT"]
  /\ radnik' = Zastari(Red(i))
  /\ UNCHANGED <<veza, placanje, ostalo, zakljucena>>
RasknjiziBezRacuna(i) ==
  /\ izvod[i].status = "POSTED" /\ izvod[i].nalog /\ ~zakljucena
  /\ izvod' = [izvod EXCEPT ![i].status = "NEEDS_REVIEW"]
  /\ nalog' = [nalog EXCEPT ![i] = "DRAFT"]
  /\ veza' = [veza EXCEPT ![i] = 0]
  /\ radnik' = Zastari(Red(i))
  /\ UNCHANGED <<placanje, ostalo, zakljucena>>
\* reopenBankStatement: cancels the edges, keeps the journal as a draft.
Rasknjizi(i) ==
  LET nova == [veza EXCEPT ![i] = 0]
  IN /\ izvod[i].status = "POSTED" /\ izvod[i].nalog /\ ~zakljucena
     /\ izvod' = [izvod EXCEPT ![i].status = "NEEDS_REVIEW"]
     /\ nalog' = [nalog EXCEPT ![i] = "DRAFT"]
     /\ veza' = nova
     /\ IF veza[i] > 0 THEN Osvjezi(nova, ostalo) ELSE UNCHANGED placanje
     /\ radnik' = Zastari(Red(i) \cup (IF veza[i] > 0 THEN RedRacuna ELSE {}))
     /\ UNCHANGED <<ostalo, zakljucena>>

---------------------------------------------------------------------------
(* What else happens to the invoice and the year *)

\* settleInTransaction with another payment; closed years remain eligible.
ZatvoriOstalim ==
  /\ Zatvoreno(veza, ostalo) < Dug /\ ostalo < MaxOstalo
  /\ ostalo' = ostalo + 1
  /\ Osvjezi(veza, ostalo') /\ radnik' = Zastari(RedRacuna)
  /\ UNCHANGED <<izvod, nalog, veza, zakljucena>>
\* cancelSettlements of the card
PonistiVeze ==
  /\ Zatvoreno(veza, ostalo) > 0
  /\ veza' = [i \in Izvod |-> 0] /\ ostalo' = 0
  /\ Osvjezi(veza', 0) /\ radnik' = Zastari(RedRacuna)
  /\ UNCHANGED <<izvod, nalog, zakljucena>>
\* toggleBusinessYear
PromijeniGodinu ==
  /\ zakljucena' = ~zakljucena /\ radnik' = Zastari(RedGodine)
  /\ UNCHANGED <<izvod, nalog, veza, ostalo, placanje>>

IzvodiInit ==
  /\ izvod = [i \in Izvod |-> NemaIzvoda]
  /\ nalog = [i \in Izvod |-> "NEMA"]
  /\ veza = [i \in Izvod |-> 0] /\ ostalo = 0 /\ placanje = "UNPAID"
  /\ zakljucena = FALSE
  /\ radnik = [w \in Radnik |-> Miran]
=============================================================================
