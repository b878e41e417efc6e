------------------------------- MODULE Robno -------------------------------
(* The goods of a company in a year: the quantity on stock in each warehouse and the
   movements that documents record.  Transfers, write-offs, counts, returns and sales run
   Serializable and lock the stock they change, so each is one step; a calculation is
   posted READ COMMITTED and writes the stock it has read.  Drafts are checked before the
   transaction that changes them. *)
EXTENDS Integers, Sequences, FiniteSets, FiniteSetsExt

CONSTANTS
  Magacin, Artikal,
  Dokument,     \* the documents that may be made
  Vrsta,        \* the kind of each
  Mjesto,       \* its warehouse
  Odrediste,    \* the warehouse a transfer goes to; for the others, their own
  Izvor,        \* the calculation a return refers to; for the others, themselves
  Kolicina,     \* quantities users type
  Roba,         \* the items users put into each document
  DozvoliMinus, \* whether the company allows negative stock: the values its setting takes
  Zahtjev,      \* requests at one time
  MaxDokumenata \* bound: documents made

ASSUME RobnoPretpostavke ==
  /\ Mjesto \in [Dokument -> Magacin] /\ Odrediste \in [Dokument -> Magacin]
  /\ Izvor \in [Dokument -> Dokument] /\ Roba \in [Dokument -> SUBSET Artikal]
  /\ Vrsta \in [Dokument -> {"kalkulacija", "prenos", "otpis", "popis", "povrat", "prodaja"}]
  /\ \A d \in Dokument : Vrsta[d] = "prenos" => Odrediste[d] # Mjesto[d]
  /\ Kolicina \subseteq Nat \ {0} /\ DozvoliMinus \subseteq BOOLEAN /\ Dokument # {}
\* A document has a UUID: of those that may be made there are finitely many.
ASSUME KonacnoDokumenata == IsFiniteSet(Dokument)

VARIABLES
  dok,          \* the documents' tables and their lines
  stanje,       \* stanja_zaliha.kolicina
  kartica,      \* prometi_zaliha of an item in a warehouse, in the order they were made
  zakljucena,   \* the business year is closed
  zahtjev,      \* requests in progress
  presjek,      \* history: stock that a calculation overwrote with an older reading
  kasno,        \* history: documents changed by an edit that had seen them as drafts
  polovicno     \* history: documents some of whose lines were posted and others refused

zalihe == <<stanje, kartica>>
istorija == <<presjek, kasno, polovicno>>
vars == <<dok, stanje, kartica, zakljucena, zahtjev, istorija>>

Nista == [a \in Artikal |-> 0]
NemaDokumenta ==
  [status |-> "NEMA", stavke |-> Nista, knjizno |-> Nista, popisano |-> {}, vezano |-> {}]
Miruje == [pc |-> "miruje", dok |-> CHOOSE d \in Dokument : TRUE,
           ostalo |-> {}, procitano |-> {}, slika |-> Nista]

Je(d, vrste) == Vrsta[d] \in vrste
Status(d, s) == dok[d].status = s
Novi(d) ==
  /\ Status(d, "NEMA") /\ ~zakljucena
  /\ Cardinality({e \in Dokument : ~Status(e, "NEMA")}) < MaxDokumenata
\* A count lists every item, the others those they have a line for.
Stavke(d) == IF Je(d, {"popis"}) THEN Artikal ELSE {a \in Artikal : dok[d].stavke[a] # 0}

\* What a document does to the stock of an item in a warehouse.
Promjena(d, m, a) ==
  LET q == dok[d].stavke[a]
  IN CASE Je(d, {"kalkulacija"}) -> IF m = Mjesto[d] THEN q ELSE 0
       [] Je(d, {"popis"}) -> IF m = Mjesto[d] THEN q - dok[d].knjizno[a] ELSE 0
       [] OTHER -> IF m = Mjesto[d] THEN -q
                   ELSE IF m = Odrediste[d] THEN q ELSE 0

\* The item's card: movements with the running quantity.
SaldoReda(k) == IF k = <<>> THEN 0 ELSE k[Len(k)].saldo
Saldo(m, a) == SaldoReda(kartica[m][a])
Zapis(k, d, q) == Append(k, [dok |-> d, kol |-> q, saldo |-> SaldoReda(k) + q])
\* What the movements of a document add up to.
Kretanje(d, m, a) ==
  LET k == kartica[m][a]
  IN MapThenSumSet(LAMBDA i : k[i].kol, {i \in DOMAIN k : k[i].dok = d})

\* Mutant: the goods a transfer brings are not recorded on the card.
PomjeriBezPrijema(d, A) ==
  /\ stanje' = [m \in Magacin |-> [a \in Artikal |->
       IF a \in A THEN stanje[m][a] + Promjena(d, m, a) ELSE stanje[m][a]]]
  /\ kartica' = [m \in Magacin |-> [a \in Artikal |->
       IF a \in A /\ m = Mjesto[d] /\ Promjena(d, m, a) # 0
       THEN Zapis(kartica[m][a], d, Promjena(d, m, a)) ELSE kartica[m][a]]]

\* A document moves its items A: the stock and, in the same transaction, the card.
Pomjeri(d, A) ==
  /\ stanje' = [m \in Magacin |-> [a \in Artikal |->
       IF a \in A THEN stanje[m][a] + Promjena(d, m, a) ELSE stanje[m][a]]]
  /\ kartica' = [m \in Magacin |-> [a \in Artikal |->
       IF a \in A /\ Promjena(d, m, a) # 0 THEN Zapis(kartica[m][a], d, Promjena(d, m, a))
       ELSE kartica[m][a]]]

---------------------------------------------------------------------------
(* Locks held across steps: only a calculation's posting takes several *)

Knjizi(r) == zahtjev[r].pc = "kalkulacija"
\* The year's row, which it locks first.
GodinaSlobodna == \A r \in Zahtjev : ~Knjizi(r)
\* The calculation's row, which an edit of its lines also updates.
RedSlobodan(d) == \A r \in Zahtjev : Knjizi(r) => zahtjev[r].dok # d
\* The stock rows it has written.
Upisano(r) ==
  IF Knjizi(r) THEN {<<Mjesto[zahtjev[r].dok], a>> :
                       a \in Stavke(zahtjev[r].dok) \ zahtjev[r].ostalo}
  ELSE {}
StanjeSlobodno(d) ==
  \A r \in Zahtjev, a \in Stavke(d) :
    <<Mjesto[d], a>> \notin Upisano(r) /\ <<Odrediste[d], a>> \notin Upisano(r)

\* A request reads the year and the document, then acts in a transaction.
Pocni(r, d, pc) ==
  /\ zahtjev[r].pc = "miruje" /\ ~zakljucena
  /\ zahtjev' = [zahtjev EXCEPT ![r] = [Miruje EXCEPT !.pc = pc, !.dok = d]]
  /\ UNCHANGED <<dok, zalihe, zakljucena, istorija>>
Radi(r, pc, vrste) == zahtjev[r].pc = pc /\ Je(zahtjev[r].dok, vrste)
Zavrsi(r) == zahtjev' = [zahtjev EXCEPT ![r] = Miruje]
\* An edit changes a document that is no longer a draft.
Zakasni(d) ==
  kasno' = IF Status(d, "DRAFT") \/ dok'[d] = dok[d] THEN kasno ELSE kasno \cup {d}

---------------------------------------------------------------------------
(* Drafts *)

\* createCalculation, createInventoryTransfer, createInventoryWriteOff; a sale's document
\* is frozen with its lines before it is delivered.
Kreiraj(d) ==
  /\ Je(d, {"kalkulacija", "prenos", "otpis", "prodaja"}) /\ Novi(d)
  /\ \E S \in IF Je(d, {"prodaja"}) THEN [Artikal -> Kolicina \cup {0}] ELSE {Nista} :
       /\ Je(d, {"prodaja"}) => S # Nista
       /\ \A a \in Artikal \ Roba[d] : S[a] = 0
       /\ dok' = [dok EXCEPT ![d] = [NemaDokumenta EXCEPT !.status = "DRAFT", !.stavke = S]]
  /\ UNCHANGED <<zalihe, zakljucena, zahtjev, istorija>>

\* createInventoryCount: one draft for a warehouse, with the stock as it is now.
KreirajPopis(d) ==
  /\ Je(d, {"popis"}) /\ Novi(d)
  /\ \A e \in Dokument : Je(e, {"popis"}) /\ Mjesto[e] = Mjesto[d] => ~Status(e, "DRAFT")
  /\ dok' = [dok EXCEPT ![d] =
       [NemaDokumenta EXCEPT !.status = "DRAFT", !.knjizno = stanje[Mjesto[d]]]]
  /\ UNCHANGED <<zalihe, zakljucena, zahtjev, istorija>>

\* The page's action finds a draft.
PocniIzmjenu(r, d) ==
  /\ Je(d, {"kalkulacija", "prenos", "otpis", "popis"}) /\ Status(d, "DRAFT")
  /\ Pocni(r, d, "uredi")
PocniBrisanje(r, d) ==
  /\ Je(d, {"prenos", "otpis", "popis"}) /\ Status(d, "DRAFT")
  /\ Pocni(r, d, "obrisi")
\* A posting looks at the document later; one that begins with no draft is refused then.
PocniKnjizenje(r, d) ==
  /\ Je(d, {"kalkulacija", "prenos", "otpis", "popis"}) /\ Status(d, "DRAFT")
  /\ Pocni(r, d, "knjizi")

\* A line is added, changed or, with 0, deleted by its id; a movement of the calculation's
\* line forbids to delete it; a count's line is counted.
IzmijeniStavku(r) ==
  /\ Radi(r, "uredi", {"kalkulacija", "prenos", "otpis", "popis"})
  /\ LET d == zahtjev[r].dok
     IN /\ RedSlobodan(d)
        /\ \E a \in Roba[d], q \in Kolicina \cup {0} :
             /\ (q = 0 /\ Je(d, {"kalkulacija"})) => a \notin dok[d].vezano
             /\ dok' = [dok EXCEPT ![d].stavke[a] = q,
                          ![d].popisano = IF Je(d, {"popis"}) THEN @ \cup {a} ELSE @,
                          ![d].vezano = IF q = 0 /\ ~Je(d, {"popis"}) THEN @ \ {a} ELSE @]
        /\ Zakasni(d)
  /\ Zavrsi(r)
  /\ UNCHANGED <<zalihe, zakljucena, presjek, polovicno>>

\* deleteInventoryTransfer, deleteInventoryWriteOff, deleteInventoryCount: by id.
ObrisiNacrt(r) ==
  /\ Radi(r, "obrisi", {"prenos", "otpis", "popis"})
  /\ dok' = [dok EXCEPT ![zahtjev[r].dok].status = "DELETED"]
  /\ Zakasni(zahtjev[r].dok)
  /\ Zavrsi(r)
  /\ UNCHANGED <<zalihe, zakljucena, presjek, polovicno>>

\* fillInventoryCountBookQuantities: one UPDATE, of a draft only.
PopuniPopis(d) ==
  /\ Je(d, {"popis"}) /\ Status(d, "DRAFT") /\ ~zakljucena
  /\ dok' = [dok EXCEPT ![d].popisano = Artikal, ![d].stavke = [a \in Artikal |->
       IF a \in dok[d].popisano THEN @[a] ELSE dok[d].knjizno[a]]]
  /\ UNCHANGED <<zalihe, zakljucena, zahtjev, istorija>>

\* refreshInventoryCountSnapshot reads the stock, then writes it to the lines.
OsvjeziPopis(r, d) ==
  /\ Je(d, {"popis"}) /\ Status(d, "DRAFT")
  /\ zahtjev[r].pc = "miruje" /\ ~zakljucena
  /\ zahtjev' = [zahtjev EXCEPT ![r] =
       [Miruje EXCEPT !.pc = "osvjezi", !.dok = d, !.slika = stanje[Mjesto[d]]]]
  /\ UNCHANGED <<dok, zalihe, zakljucena, istorija>>
UpisiSliku(r) ==
  /\ Radi(r, "osvjezi", {"popis"})
  /\ dok' = [dok EXCEPT ![zahtjev[r].dok].knjizno = zahtjev[r].slika]
  /\ Zakasni(zahtjev[r].dok)
  /\ Zavrsi(r)
  /\ UNCHANGED <<zalihe, zakljucena, presjek, polovicno>>

---------------------------------------------------------------------------
(* Posting a calculation *)

\* Mutant: the year is locked and not looked at again.
PocniKalkulacijuBezGodine(r) ==
  /\ Radi(r, "knjizi", {"kalkulacija"})
  /\ LET d == zahtjev[r].dok
     IN /\ GodinaSlobodna
        /\ Status(d, "DRAFT") /\ Stavke(d) # {}
        /\ zahtjev' = [zahtjev EXCEPT ![r].pc = "kalkulacija", ![r].ostalo = Stavke(d)]
  /\ UNCHANGED <<dok, zalihe, zakljucena, istorija>>

\* The year and the calculation are locked, then checked.
PocniKalkulaciju(r) ==
  /\ Radi(r, "knjizi", {"kalkulacija"})
  /\ LET d == zahtjev[r].dok
     IN /\ GodinaSlobodna /\ ~zakljucena
        /\ Status(d, "DRAFT") /\ Stavke(d) # {}
        /\ zahtjev' = [zahtjev EXCEPT ![r].pc = "kalkulacija", ![r].ostalo = Stavke(d)]
  /\ UNCHANGED <<dok, zalihe, zakljucena, istorija>>

\* A line's stock is read without a lock ...
ProcitajStanje(r) ==
  /\ Knjizi(r) /\ zahtjev[r].procitano = {}
  /\ \E a \in zahtjev[r].ostalo :
       zahtjev' = [zahtjev EXCEPT ![r].procitano = {a},
                                  ![r].slika[a] = stanje[Mjesto[zahtjev[r].dok]][a]]
  /\ UNCHANGED <<dok, zalihe, zakljucena, istorija>>

\* ... and written as what was read and the line's quantity; the row stays locked.
UpisiStanje(r) ==
  /\ Knjizi(r) /\ zahtjev[r].procitano # {}
  /\ zahtjev' = [zahtjev EXCEPT ![r].procitano = {}, ![r].ostalo = @ \ zahtjev[r].procitano]
  /\ UNCHANGED <<dok, zalihe, zakljucena, istorija>>

\* The commit: stock, movements and status; what others did between a reading and its
\* writing is overwritten.
PotvrdiKalkulaciju(r) ==
  /\ Knjizi(r) /\ zahtjev[r].ostalo = {}
  /\ LET d == zahtjev[r].dok
         m == Mjesto[d]
         novo == [a \in Artikal |-> zahtjev[r].slika[a] + dok[d].stavke[a]]
     IN /\ stanje' = [stanje EXCEPT ![m] = [a \in Artikal |->
             IF a \in Stavke(d) THEN novo[a] ELSE @[a]]]
        /\ kartica' = [kartica EXCEPT ![m] = [a \in Artikal |->
             IF a \in Stavke(d) THEN Zapis(@[a], d, dok[d].stavke[a]) ELSE @[a]]]
        /\ presjek' = presjek \cup
             {<<m, a>> : a \in {b \in Stavke(d) : zahtjev[r].slika[b] # stanje[m][b]}}
        /\ dok' = [dok EXCEPT ![d].status = "POSTED", ![d].vezano = Stavke(d)]
  /\ Zavrsi(r)
  /\ UNCHANGED <<zakljucena, kasno, polovicno>>

\* A refusal, a lost connection or a deadlock rolls the transaction back.
Odustani(r) ==
  /\ zahtjev[r].pc # "miruje"
  /\ Zavrsi(r)
  /\ UNCHANGED <<dok, zalihe, zakljucena, istorija>>

\* deleteCalculationInTransaction: nothing may depend on it, and its stock is taken back.
Kasniji(d, a) ==
  LET k == kartica[Mjesto[d]][a]
  IN \E i, j \in DOMAIN k :
       /\ i < j /\ k[i].dok = d /\ k[j].dok # d
       /\ ~(Je(k[j].dok, {"kalkulacija"}) /\ Status(k[j].dok, "DELETED"))
ImaPovrat(d) == \E v \in Dokument :
  Je(v, {"povrat"}) /\ Izvor[v] = d /\ dok[v].status \in {"DRAFT", "POSTED"}
\* Its movements, and the quantity of the one of an item.
Ulazi(d, a) == LET k == kartica[Mjesto[d]][a] IN {i \in DOMAIN k : k[i].dok = d}
Primljeno(d, a) == kartica[Mjesto[d]][a][CHOOSE i \in Ulazi(d, a) : TRUE].kol
ObrisiKalkulaciju(d) ==
  /\ Je(d, {"kalkulacija"}) /\ dok[d].status \in {"DRAFT", "POSTED"}
  /\ GodinaSlobodna /\ ~zakljucena /\ ~ImaPovrat(d)
  /\ LET m == Mjesto[d]
         K == {a \in Artikal : Ulazi(d, a) # {}}
         L == IF Status(d, "POSTED") THEN Stavke(d) ELSE {}
     IN /\ Cardinality(K) = Cardinality(L)
        /\ \A a \in K : stanje[m][a] >= Primljeno(d, a) /\ ~Kasniji(d, a)
        /\ stanje' = [stanje EXCEPT ![m] = [a \in Artikal |->
             IF a \in K THEN @[a] - Primljeno(d, a) ELSE @[a]]]
        /\ kartica' = [kartica EXCEPT ![m] = [a \in Artikal |->
             IF a \in K THEN Zapis(@[a], d, -Primljeno(d, a)) ELSE @[a]]]
        /\ dok' = [dok EXCEPT ![d].status = "DELETED"]
  /\ UNCHANGED <<zakljucena, zahtjev, istorija>>

---------------------------------------------------------------------------
(* Posting the others: one serializable transaction *)

Proknjizi(d, status) ==
  /\ Pomjeri(d, Stavke(d))
  /\ dok' = [dok EXCEPT ![d].status = status, ![d].vezano = Stavke(d)]
Dosta(d, a) == stanje[Mjesto[d]][a] >= dok[d].stavke[a]
Ima(d, a) == TRUE \in DozvoliMinus \/ Dosta(d, a)

\* postInventoryTransfer, postInventoryWriteOff: the year was looked at before.
ProknjiziIzlaz(r) ==
  /\ Radi(r, "knjizi", {"prenos", "otpis"})
  /\ LET d == zahtjev[r].dok
     IN /\ StanjeSlobodno(d) /\ Status(d, "DRAFT") /\ Stavke(d) # {}
        /\ dok[d].vezano = {} /\ \A a \in Stavke(d) : Ima(d, a)
        /\ Proknjizi(d, "POSTED")
  /\ Zavrsi(r)
  /\ UNCHANGED <<zakljucena, istorija>>

\* The refusal of a line is returned, not thrown, and commits the lines A before it; a line
\* that has its movement already violates the key and rolls back.
ProknjiziDio(r) ==
  /\ Radi(r, "knjizi", {"prenos", "otpis"})
  /\ LET d == zahtjev[r].dok
     IN /\ StanjeSlobodno(d) /\ Status(d, "DRAFT")
        /\ FALSE \in DozvoliMinus /\ \E a \in Stavke(d) : ~Dosta(d, a)
        /\ \E A \in SUBSET (Stavke(d) \ dok[d].vezano) :
             /\ A # {} /\ \A a \in A : Dosta(d, a)
             /\ Pomjeri(d, A)
             /\ dok' = [dok EXCEPT ![d].vezano = @ \cup A]
        /\ polovicno' = polovicno \cup {d}
  /\ Zavrsi(r)
  /\ UNCHANGED <<zakljucena, presjek, kasno>>

\* A count is completed, without journal and movements, if its surpluses and its shortages
\* cost 0 in all: it has none, or they are of goods of no book value or cost less than half a
\* cent.  Costs are not modelled, so whatever the quantities this may be the case; a count
\* that is posted has a difference, since that is what costs something.
Zakljuci(d) ==
  /\ dok' = [dok EXCEPT ![d].status = "COMPLETED"]
  /\ UNCHANGED zalihe

\* Mutant: the stock is not compared with the snapshot.
ProknjiziPopisBezPoredjenja(r) ==
  /\ Radi(r, "knjizi", {"popis"})
  /\ LET d == zahtjev[r].dok
     IN /\ StanjeSlobodno(d) /\ Status(d, "DRAFT")
        /\ dok[d].popisano = Artikal
        /\ (dok[d].stavke # dok[d].knjizno /\ Proknjizi(d, "POSTED")) \/ Zakljuci(d)
  /\ Zavrsi(r)
  /\ UNCHANGED <<zakljucena, istorija>>

\* postInventoryCount: everything counted, and the stock still as in the snapshot.
ProknjiziPopis(r) ==
  /\ Radi(r, "knjizi", {"popis"})
  /\ LET d == zahtjev[r].dok
     IN /\ StanjeSlobodno(d) /\ Status(d, "DRAFT")
        /\ dok[d].popisano = Artikal
        /\ stanje[Mjesto[d]] = dok[d].knjizno
        /\ (dok[d].stavke # dok[d].knjizno /\ Proknjizi(d, "POSTED")) \/ Zakljuci(d)
  /\ Zavrsi(r)
  /\ UNCHANGED <<zakljucena, istorija>>

\* applySalesInventoryMovement: thrown, so all lines or none.
Isporuci(d) ==
  /\ Je(d, {"prodaja"}) /\ Status(d, "DRAFT") /\ StanjeSlobodno(d)
  /\ \A a \in Stavke(d) : Ima(d, a)
  /\ Proknjizi(d, "POSTED")
  /\ UNCHANGED <<zakljucena, zahtjev, istorija>>

---------------------------------------------------------------------------
(* Returns to the supplier: every action locks the year and looks at it there *)

\* guardReturn, editableReturn
Povrat(d, status) ==
  Je(d, {"povrat"}) /\ Status(d, status) /\ GodinaSlobodna /\ ~zakljucena
\* saveReturnHeader
KreirajPovrat(d) ==
  /\ Povrat(d, "NEMA") /\ Novi(d) /\ Status(Izvor[d], "POSTED")
  /\ dok' = [dok EXCEPT ![d] = [NemaDokumenta EXCEPT !.status = "DRAFT"]]
  /\ UNCHANGED <<zalihe, zakljucena, zahtjev, istorija>>
\* Mutant: a line is changed by its id, posted or not.
IzmijeniPovratUvijek(d) ==
  /\ Povrat(d, dok[d].status) /\ dok[d].status \in {"DRAFT", "POSTED"}
  /\ \E a \in Roba[d], q \in Kolicina \cup {0} :
       /\ q <= dok[Izvor[d]].stavke[a]
       /\ dok' = [dok EXCEPT ![d].stavke[a] = q]
  /\ UNCHANGED <<zalihe, zakljucena, zahtjev, istorija>>

\* saveReturnLine, deleteReturnDraft of a line
IzmijeniPovrat(d) ==
  /\ Povrat(d, "DRAFT")
  /\ \E a \in Roba[d], q \in Kolicina \cup {0} :
       /\ q <= dok[Izvor[d]].stavke[a]
       /\ dok' = [dok EXCEPT ![d].stavke[a] = q]
  /\ UNCHANGED <<zalihe, zakljucena, zahtjev, istorija>>
\* deleteReturnDraft
ObrisiPovrat(d) ==
  /\ Povrat(d, "DRAFT")
  /\ dok' = [dok EXCEPT ![d].status = "DELETED"]
  /\ UNCHANGED <<zalihe, zakljucena, zahtjev, istorija>>

\* What the posted returns of a calculation's line add up to.
Vraceno(k, a) ==
  MapThenSumSet(LAMBDA v : dok[v].stavke[a],
    {v \in Dokument : Je(v, {"povrat"}) /\ Izvor[v] = k /\ Status(v, "POSTED")})
\* Mutant: a return is held only against the calculation's line.
ProknjiziPovratBezZbira(d) ==
  /\ Povrat(d, "DRAFT") /\ StanjeSlobodno(d) /\ Stavke(d) # {}
  /\ Status(Izvor[d], "POSTED")
  /\ \A a \in Stavke(d) :
       /\ dok[d].stavke[a] <= dok[Izvor[d]].stavke[a]
       /\ Ima(d, a)
  /\ Proknjizi(d, "POSTED")
  /\ UNCHANGED <<zakljucena, zahtjev, istorija>>

\* postSupplierReturn
ProknjiziPovrat(d) ==
  /\ Povrat(d, "DRAFT") /\ StanjeSlobodno(d) /\ Stavke(d) # {}
  /\ Status(Izvor[d], "POSTED")
  /\ \A a \in Stavke(d) :
       /\ Vraceno(Izvor[d], a) + dok[d].stavke[a] <= dok[Izvor[d]].stavke[a]
       /\ Ima(d, a)
  /\ Proknjizi(d, "POSTED")
  /\ UNCHANGED <<zakljucena, zahtjev, istorija>>

---------------------------------------------------------------------------
\* toggleBusinessYear updates the year's row.
ZatvoriOtvori ==
  /\ GodinaSlobodna
  /\ zakljucena' = ~zakljucena
  /\ UNCHANGED <<dok, zalihe, zahtjev, istorija>>

Init ==
  /\ dok = [d \in Dokument |-> NemaDokumenta]
  /\ stanje = [m \in Magacin |-> Nista]
  /\ kartica = [m \in Magacin |-> [a \in Artikal |-> <<>>]]
  /\ zakljucena = FALSE
  /\ zahtjev = [r \in Zahtjev |-> Miruje]
  /\ presjek = {} /\ kasno = {} /\ polovicno = {}

Korak(r) ==
  \/ \E d \in Dokument :
       \/ PocniIzmjenu(r, d) \/ OsvjeziPopis(r, d) \/ PocniKnjizenje(r, d)
       \/ PocniBrisanje(r, d)
  \/ IzmijeniStavku(r) \/ ObrisiNacrt(r) \/ UpisiSliku(r)
  \/ PocniKalkulaciju(r) \/ ProcitajStanje(r) \/ UpisiStanje(r) \/ PotvrdiKalkulaciju(r)
  \/ ProknjiziIzlaz(r) \/ ProknjiziDio(r) \/ ProknjiziPopis(r)
  \/ Odustani(r)

Next ==
  \/ \E r \in Zahtjev : Korak(r)
  \/ \E d \in Dokument :
       \/ Kreiraj(d) \/ KreirajPopis(d) \/ PopuniPopis(d) \/ ObrisiKalkulaciju(d)
       \/ Isporuci(d)
       \/ KreirajPovrat(d) \/ IzmijeniPovrat(d) \/ ObrisiPovrat(d) \/ ProknjiziPovrat(d)
  \/ ZatvoriOtvori

Spec == Init /\ [][Next]_vars

---------------------------------------------------------------------------
(* Properties *)

\* The documents, a card's rows and the requests' tasks.
Statusi == {"NEMA", "DRAFT", "POSTED", "COMPLETED", "DELETED"}
Podaci == [status : Statusi, stavke : [Artikal -> Int], knjizno : [Artikal -> Int],
           popisano : SUBSET Artikal, vezano : SUBSET Artikal]
Redovi == [dok : Dokument, kol : Int, saldo : Int]
Poslovi == [pc : {"miruje", "uredi", "obrisi", "knjizi", "osvjezi", "kalkulacija"},
            dok : Dokument, ostalo : SUBSET Artikal, procitano : SUBSET Artikal,
            slika : [Artikal -> Int]]
\* Every table, card and request is well formed.
RobnoTipovi ==
  /\ dok \in [Dokument -> Podaci]
  /\ stanje \in [Magacin -> [Artikal -> Int]]
  /\ kartica \in [Magacin -> [Artikal -> Seq(Redovi)]]
  /\ zakljucena \in BOOLEAN
  /\ zahtjev \in [Zahtjev -> Poslovi]
  /\ presjek \subseteq Magacin \X Artikal
  /\ kasno \subseteq Dokument /\ polovicno \subseteq Dokument

\* The stock list and the item's card agree, but where a calculation wrote over what others
\* had done since it read the stock: no other order of postings, counts, returns and
\* deletions separates them.
LagerPratiPromet ==
  \A m \in Magacin, a \in Artikal : <<m, a>> \notin presjek => stanje[m][a] = Saldo(m, a)

\* A posted document has moved exactly its lines, any other nothing that was not taken
\* back, but for drafts edited after their posting and postings refused half way.
KretanjePratiDokument ==
  \A d \in Dokument \ (kasno \cup polovicno), m \in Magacin, a \in Artikal :
    Kretanje(d, m, a) = IF Status(d, "POSTED") THEN Promjena(d, m, a) ELSE 0

\* Returns never exceed their calculation's lines, and a calculation with returns stays
\* posted, whoever posts, deletes and returns at the same time.
VraceniNePrelaze ==
  \A k \in Dokument : Je(k, {"kalkulacija"}) =>
    /\ ImaPovrat(k) => Status(k, "POSTED")
    /\ k \notin kasno => \A a \in Artikal : Vraceno(k, a) <= dok[k].stavke[a]

\* When a count is posted, the warehouse holds what was counted, and what moved since the
\* count's snapshot is not written off with it.  When it is completed, because its
\* differences cost nothing, the warehouse holds what the count's snapshot says: what was
\* counted only if there are no differences.
PopisUskladjuje ==
  [][\A d \in Dokument :
       (Je(d, {"popis"}) /\ Status(d, "DRAFT") /\ dok'[d].status \in {"POSTED", "COMPLETED"}) =>
         /\ stanje'[Mjesto[d]] =
              IF dok'[d].status = "POSTED" THEN dok[d].stavke ELSE dok[d].knjizno
         /\ \A m \in Magacin, a \in Artikal :
              kartica'[m][a] # kartica[m][a] => stanje[m][a] = dok[d].knjizno[a]]_vars

\* In a closed year calculations and returns move nothing.
ZakljucenaGodinaBezNabavke ==
  [][zakljucena => \A m \in Magacin, a \in Artikal :
       LET k == kartica'[m][a]
       IN Len(k) > Len(kartica[m][a]) =>
            ~Je(k[Len(k)].dok, {"kalkulacija", "povrat"})]_vars
=============================================================================
