------------------------------ MODULE Faktura ------------------------------
(* Office invoices: a draft is written, fiscalized under a lease of two minutes after
   which another request may take it over, and completed: by the agency with stock,
   journal and KIF, by the portal with stock alone.  The agency annuls an invoice with
   a correction whose request can be repeated until it is confirmed and posted. *)
EXTENDS Fiskal

Kancelarija == kanal.tip = "KANC"
Agencijska == Kancelarija /\ kanal.mjesto = "AGENCIJA"
\* Who may take a document for an attempt, if its lease has expired.
Slobodan(d) ==
  /\ dok[d].status \in {"DRAFT", "FAILED"} \/ (dok[d].status = "PENDING" /\ ~dok[d].svjez)
  /\ dok[d].obrada = "OTVOREN" /\ dok[d].pokusaji < MaxPokusaja
Zakup(d) ==
  [dok EXCEPT ![d].status = "PENDING", ![d].svjez = TRUE, ![d].pokusaji = @ + 1]

\* createOutgoingInvoice, saveOutgoingInvoiceDraft, deleteOutgoingInvoiceDraft
KreirajNacrt ==
  /\ Kancelarija /\ dok["RACUN"].status = "NEMA"
  /\ dok' = [dok EXCEPT !["RACUN"].status = "DRAFT"]
  /\ UNCHANGED <<kanal, knjige, servis, radnik, kvarovi>>
MozeIzmjena == Kancelarija /\ Nacrt("RACUN") /\ dok["RACUN"].obrada = "OTVOREN"
SnimiNacrt ==
  /\ MozeIzmjena
  /\ dok' = [dok EXCEPT !["RACUN"].verzija = 1 - @]
  /\ UNCHANGED <<kanal, knjige, servis, radnik, kvarovi>>
ObrisiNacrt ==
  /\ MozeIzmjena /\ dok["RACUN"].pokusaji = 0 /\ promet["RACUN"] = 0
  /\ dok' = [dok EXCEPT !["RACUN"].status = "OBRISAN"]
  /\ UNCHANGED <<kanal, knjige, servis, radnik, kvarovi>>

\* Two minutes pass since the last attempt.
IstekniZakup(d) ==
  /\ Kancelarija /\ dok[d].svjez
  /\ dok' = [dok EXCEPT ![d].svjez = FALSE]
  /\ UNCHANGED <<kanal, knjige, servis, radnik, kvarovi>>

\* The key of the attempt instead of the document's own.
ZatraziKljucemPokusaja(w) ==
  /\ Kancelarija /\ Slobodan("RACUN")
  /\ dok' = Zakup("RACUN")
  /\ Pokreni(w, "ucitaj", "faktura", "RACUN", dok["RACUN"].pokusaji + 1,
             dok["RACUN"].pokusaji + 1, Nema)
  /\ UNCHANGED <<kanal, knjige, servis, kvarovi>>
\* claimFiscalization, then the invoice is loaded.
ZatraziFiskalizaciju(w) ==
  /\ Kancelarija /\ Slobodan("RACUN")
  /\ dok' = Zakup("RACUN")
  /\ Pokreni(w, "ucitaj", "faktura", "RACUN", dok["RACUN"].pokusaji + 1, 0, Nema)
  /\ UNCHANGED <<kanal, knjige, servis, kvarovi>>
Ucitaj(w) ==
  /\ Kod(w, "ucitaj")
  /\ radnik' = [radnik EXCEPT ![w].pc = "kreiraj", ![w].udaljeni = Moj(w).udaljeni,
                              ![w].verzija = Moj(w).verzija]
  /\ UNCHANGED <<kanal, dok, knjige, servis, kvarovi>>

\* prepare of a storno: the correction is made once; it keeps its content and its key.
ZatraziStorno(w) ==
  /\ Agencijska /\ Fiskalizovan("RACUN")
  /\ (dok["STORNO"].status = "NEMA" \/ Slobodan("STORNO"))
  /\ dok' = Zakup("STORNO")
  /\ Pokreni(w, "kreiraj", "storno_fakture", "STORNO", dok["STORNO"].pokusaji + 1, 0,
             dok["STORNO"].udaljeni)
  /\ UNCHANGED <<kanal, knjige, servis, kvarovi>>

\* The link to the remote document is saved before it is fiscalized.
UpisiVezu(w) ==
  LET d == radnik[w].dok
  IN /\ Kod(w, "veza")
     /\ \/ /\ dok' = [dok EXCEPT ![d].udaljeni = radnik[w].udaljeni,
                                 ![d].svjez = @ \/ radnik[w].nacin = "faktura"]
           /\ Idi(w, IF radnik[w].vidjen THEN "sacuvaj" ELSE "fiskalizuj")
           /\ UNCHANGED kvarovi
        \/ Idi(w, "promasaj") /\ Kvar /\ UNCHANGED dok
     /\ UNCHANGED <<kanal, knjige, servis>>

\* persistFiscalResult, and the confirmation of a storno.
SacuvajFakturu(w) ==
  /\ Kod(w, "sacuvaj") /\ radnik[w].nacin \in {"faktura", "storno_fakture"}
  /\ dok' = [dok EXCEPT ![radnik[w].dok].status = "FISCALIZED", ![radnik[w].dok].svjez = FALSE,
                        ![radnik[w].dok].udaljeni = radnik[w].udaljeni]
  /\ Idi(w, "knjizenje")
  /\ UNCHANGED <<kanal, knjige, servis, kvarovi>>
\* preserveConfirmedOutgoingFiscalResult: the request ends there.
SacuvanaFaktura(w) ==
  /\ Kancelarija /\ Kod(w, "cuvaj")
  /\ dok' = [dok EXCEPT !["RACUN"].status = "FISCALIZED", !["RACUN"].svjez = FALSE,
                        !["RACUN"].udaljeni = radnik[w].udaljeni]
  /\ Zavrsi(w)
  /\ UNCHANGED <<kanal, knjige, servis, kvarovi>>
\* The catch of a storno: only if no later attempt took it and none confirmed it.
PromasajStorna(w) ==
  LET d == radnik[w].dok
  IN /\ Kod(w, "promasaj") /\ radnik[w].nacin = "storno_fakture"
     /\ dok' = IF Fiskalizovan(d) \/ dok[d].pokusaji # radnik[w].broj THEN dok
               ELSE [dok EXCEPT ![d].status = "FAILED", ![d].svjez = FALSE]
     /\ Zavrsi(w)
     /\ UNCHANGED <<kanal, knjige, servis, kvarovi>>

Zavrsen(d) == dok' = [dok EXCEPT ![d].obrada = "ZAVRSEN"]
\* finalizeOutgoingInvoice: stock, journal, status; a refusal after the first write (the
\* stock of a later line, the posting scheme, an account) commits what is written.
FinalizeOutgoingInvoice ==
  /\ Agencijska /\ Fiskalizovan("RACUN") /\ dok["RACUN"].obrada = "OTVOREN"
  /\ promet["RACUN"] < MaxPrometa
  /\ promet' = [promet EXCEPT !["RACUN"] = @ + 1]
  /\ \/ Zavrsen("RACUN") /\ nalog' = [nalog EXCEPT !["RACUN"] = @ + 1]
     \/ UNCHANGED dok /\ nalog' \in {nalog, [nalog EXCEPT !["RACUN"] = @ + 1]}
\* finalizeFiscalOnlyInvoice: all or nothing; movements are made once.
FinalizeFiscalOnly ==
  /\ Kancelarija /\ ~Agencijska /\ Fiskalizovan("RACUN") /\ dok["RACUN"].obrada # "ZAVRSEN"
  /\ promet' = IF promet["RACUN"] = 0 THEN [promet EXCEPT !["RACUN"] = 1] ELSE promet
  /\ Zavrsen("RACUN")
  /\ UNCHANGED nalog
\* The original's journal is not looked for.
FinishBezOriginala ==
  /\ Agencijska /\ Fiskalizovan("STORNO") /\ dok["STORNO"].obrada # "ZAVRSEN"
  /\ promet["RACUN"] > 0
  /\ promet' = [promet EXCEPT !["STORNO"] = @ + 1]
  /\ nalog' = [nalog EXCEPT !["STORNO"] = @ + 1]
  /\ Zavrsen("STORNO")
\* finishOfficeStornoAccounting: reverses the journal and a movement of the original.
FinishOfficeStorno ==
  /\ Agencijska /\ Fiskalizovan("STORNO") /\ dok["STORNO"].obrada # "ZAVRSEN"
  /\ dok["RACUN"].obrada = "ZAVRSEN" /\ promet["RACUN"] > 0
  /\ promet' = [promet EXCEPT !["STORNO"] = @ + 1]
  /\ nalog' = [nalog EXCEPT !["STORNO"] = @ + 1]
  /\ Zavrsen("STORNO")
Dovrsi(d) ==
  \/ d = "RACUN" /\ (FinalizeOutgoingInvoice \/ FinalizeFiscalOnly)
  \/ d = "STORNO" /\ FinishOfficeStorno
\* At the end of the request that fiscalized it, or asked for by a user later.
DovrsiPoslije(w) ==
  /\ Kancelarija /\ Kod(w, "knjizenje") /\ Zavrsi(w)
  /\ Dovrsi(radnik[w].dok) \/ UNCHANGED <<dok, knjige>>
  /\ UNCHANGED <<kanal, servis, kvarovi>>
DovrsiRucno(d) == Dovrsi(d) /\ UNCHANGED <<kanal, servis, radnik, kvarovi>>

FakturaNext ==
  \/ KreirajNacrt \/ SnimiNacrt \/ ObrisiNacrt
  \/ \E w \in Radnik :
       \/ ZatraziFiskalizaciju(w) \/ Ucitaj(w) \/ ZatraziStorno(w) \/ UpisiVezu(w)
       \/ SacuvajFakturu(w) \/ SacuvanaFaktura(w) \/ PromasajStorna(w) \/ DovrsiPoslije(w)
  \/ \E d \in Dokument : IstekniZakup(d) \/ DovrsiRucno(d)
=============================================================================
