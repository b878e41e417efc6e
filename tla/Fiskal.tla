------------------------------- MODULE Fiskal -------------------------------
(* A sales document on its way through the fiscal service.  What the point of sale
   (Kasa) and the office invoices (Faktura) have in common: an invoice and its full
   storno, the requests of the server that work on them, one call at a time, and the
   service, where a call may be lost, refused, or done without its answer arriving. *)
EXTENDS Integers, FiniteSets

CONSTANTS
  Radnik,       \* requests the server has at one time
  Kanal,        \* where documents are issued: [tip, mjesto, virman]
  MaxPokusaja,  \* bound: attempts on a document
  MaxKvarova,   \* bound: calls lost or refused, local transactions failed, crashes
  MaxPrometa    \* bound: stock movements of a document

ASSUME FiskalPretpostavke ==
  /\ MaxPokusaja \in Nat
  /\ Kanal \subseteq [tip : {"POS", "KANC"}, mjesto : {"AGENCIJA", "PORTAL"}, virman : BOOLEAN]

VARIABLES
  kanal,   \* the channel of this invoice
  dok,     \* the invoice and its storno, in the local database
  promet,  \* stock movements made for a document
  nalog,   \* journals made for a document
  servis,  \* the fiscal service's documents, by idempotency key
  radnik,  \* requests in progress
  kvarovi

vars == <<kanal, dok, promet, nalog, servis, radnik, kvarovi>>
knjige == <<promet, nalog>>

Dokument == {"RACUN", "STORNO"}
\* Key 0 is the document's own; an attempt may make one of its own.
Kljuc == Dokument \X (0..MaxPokusaja)
Nema == <<"", 0>>

Prazan == [status |-> "NEMA", obrada |-> "OTVOREN", udaljeni |-> Nema, pokusaji |-> 0,
           svjez |-> FALSE, verzija |-> 0]
Miran == [pc |-> "miran", nacin |-> "", dok |-> "RACUN", broj |-> 0, kljuc |-> 0,
          udaljeni |-> Nema, vidjen |-> FALSE, verzija |-> 0]

Nacrt(d) == dok[d].status = "DRAFT"
Fiskalizovan(d) == dok[d].status = "FISCALIZED"
Kod(w, pc) == radnik[w].pc = pc
Moj(w) == dok[radnik[w].dok]
Idi(w, pc) == radnik' = [radnik EXCEPT ![w].pc = pc]
Zavrsi(w) == radnik' = [radnik EXCEPT ![w] = Miran]
Kvar == kvarovi < MaxKvarova /\ kvarovi' = kvarovi + 1

---------------------------------------------------------------------------
(* The service *)

Potvrdjen(k) == k \in Kljuc /\ servis[k].stanje = "FISKALIZOVAN"
\* A key that was used gives back the document made under it.
Kreirano(k, v) ==
  IF servis[k].stanje = "NEMA"
    THEN [servis EXCEPT ![k] = [stanje |-> "NACRT", verzija |-> v]] ELSE servis
Fiskalizovano(k) == [servis EXCEPT ![k].stanje = "FISKALIZOVAN"]

---------------------------------------------------------------------------
(* The steps of a request *)

\* A claimed attempt begins: number n, key k, link u.
Pokreni(w, pc, nacin, d, n, k, u) ==
  /\ Kod(w, "miran")
  /\ radnik' = [radnik EXCEPT ![w] =
       [pc |-> pc, nacin |-> nacin, dok |-> d, broj |-> n, kljuc |-> k,
        udaljeni |-> u, vidjen |-> FALSE, verzija |-> dok[d].verzija]]

\* The agency's retry of a receipt asks for a new document, whatever the link says.
Kreira(w) ==
  \/ radnik[w].udaljeni = Nema
  \/ radnik[w].nacin = "ponovi_agencija" /\ radnik[w].dok = "RACUN"
\* Who reads the remote status and does not fiscalize again.
GledaStatus(w) == radnik[w].nacin \in {"ponovi_portal", "faktura", "storno_fakture"}
\* Office requests save the link as soon as a remote document is made or, of a storno,
\* known; then the status that was read decides.
Odgovor(w, k, novi) ==
  LET vidi == GledaStatus(w) /\ Potvrdjen(k)
      dalje == IF radnik[w].nacin = "storno_fakture"
                  \/ (radnik[w].nacin = "faktura" /\ novi) THEN "veza"
               ELSE IF vidi THEN "sacuvaj" ELSE "fiskalizuj"
  IN radnik' = [radnik EXCEPT ![w].pc = dalje, ![w].udaljeni = k, ![w].vidjen = vidi]

\* createInvoice or createInvoiceStorno
Kreiraj(w) ==
  LET k == <<radnik[w].dok, radnik[w].kljuc>>
      novi == Kreirano(k, radnik[w].verzija)
  IN /\ Kod(w, "kreiraj") /\ Kreira(w)
     /\ \/ servis' = novi /\ Odgovor(w, k, TRUE) /\ UNCHANGED kvarovi
        \/ servis' \in {servis, novi} /\ Idi(w, "promasaj") /\ Kvar
     /\ UNCHANGED <<kanal, dok, knjige>>

\* getInvoice of a document whose link was saved
Pregledaj(w) ==
  /\ Kod(w, "kreiraj") /\ ~Kreira(w)
  /\ \/ Odgovor(w, radnik[w].udaljeni, FALSE) /\ UNCHANGED kvarovi
     \/ Idi(w, "promasaj") /\ Kvar
  /\ UNCHANGED <<kanal, dok, knjige, servis>>

\* fiscalizeInvoice and the reading of its result
Fiskalizuj(w) ==
  LET gotov == Fiskalizovano(radnik[w].udaljeni)
  IN /\ Kod(w, "fiskalizuj")
     /\ \/ servis' = gotov /\ Idi(w, "sacuvaj") /\ UNCHANGED kvarovi
        \/ servis' \in {servis, gotov} /\ Idi(w, "promasaj") /\ Kvar
     /\ UNCHANGED <<kanal, dok, knjige>>

\* The failure is written whatever the document has become.
PromasajUvijek(w) ==
  /\ Kod(w, "promasaj") /\ radnik[w].nacin # "storno_fakture"
  /\ dok' = [dok EXCEPT ![radnik[w].dok].status = "FAILED", ![radnik[w].dok].svjez = FALSE,
                        ![radnik[w].dok].udaljeni = radnik[w].udaljeni]
  /\ Zavrsi(w)
  /\ UNCHANGED <<kanal, knjige, servis, kvarovi>>
\* The catch of a request without a confirmed result: the document failed, unless it
\* is Fiscalized by now; the link is overwritten with what this attempt knows.
Promasaj(w) ==
  LET d == radnik[w].dok
  IN /\ Kod(w, "promasaj") /\ radnik[w].nacin # "storno_fakture"
     /\ dok' = IF Fiskalizovan(d) THEN dok
               ELSE [dok EXCEPT ![d].status = "FAILED", ![d].svjez = FALSE,
                                ![d].udaljeni = radnik[w].udaljeni]
     /\ Zavrsi(w)
     /\ UNCHANGED <<kanal, knjige, servis, kvarovi>>

\* A local transaction after the confirmation fails, as it does when another document
\* took the stock: the confirmed result is to be preserved.
NeSacuvaj(w) ==
  /\ radnik[w].pc \in {"sacuvaj", "lager"}
  /\ Idi(w, IF radnik[w].nacin = "storno_fakture" THEN "promasaj" ELSE "cuvaj")
  /\ Kvar
  /\ UNCHANGED <<kanal, dok, knjige, servis>>

\* The server stops, or a write of the catch fails: the request ends where it is.
Prekid(w) ==
  /\ ~Kod(w, "miran")
  /\ Zavrsi(w) /\ Kvar
  /\ UNCHANGED <<kanal, dok, knjige, servis>>

FiskalInit ==
  /\ kanal \in Kanal
  /\ dok = [d \in Dokument |-> Prazan]
  /\ promet = [d \in Dokument |-> 0]
  /\ nalog = [d \in Dokument |-> 0]
  /\ servis = [k \in Kljuc |-> [stanje |-> "NEMA", verzija |-> 0]]
  /\ radnik = [w \in Radnik |-> Miran]
  /\ kvarovi = 0

Udaljeno(w) == Kreiraj(w) \/ Pregledaj(w) \/ Fiskalizuj(w) \/ NeSacuvaj(w) \/ Prekid(w)
=============================================================================
