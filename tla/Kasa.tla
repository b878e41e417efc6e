-------------------------------- MODULE Kasa --------------------------------
(* The point of sale: a receipt is made and fiscalized in one request, retried when it
   failed, annulled in full, and goes to the books in a daily takings entry or, paid by
   bank transfer, in a journal of its own. *)
EXTENDS Fiskal

Kasa == kanal.tip = "POS"
Portal == kanal.mjesto = "PORTAL"

\* A confirmed document of the portal is FINALIZED, one of the agency waits for the books.
Potvrdi(d, k) ==
  [dok EXCEPT ![d].status = "FISCALIZED", ![d].udaljeni = k,
              ![d].obrada = IF Portal THEN "ZAVRSEN" ELSE @]
\* A storno's original is marked in the same transaction.
SaOriginalom(nova, d) ==
  IF d = "STORNO" THEN [nova EXCEPT !["RACUN"].status = "STORNO"] ELSE nova
\* applyPosInventoryMovement, applyPosReturnInventoryMovement: once for a document.
Pomjereno(d) == IF promet[d] = 0 THEN [promet EXCEPT ![d] = 1] ELSE promet
NaknadnoKnjizenje == IF kanal.virman /\ ~Portal THEN "knjizenje" ELSE "miran"
Poslije(w, pc) == IF pc = "miran" THEN Zavrsi(w) ELSE Idi(w, pc)

\* createAndFiscalizePosSale: the receipt and its first attempt.
Prodaj(w) ==
  /\ Kasa /\ dok["RACUN"].status = "NEMA"
  /\ dok' = [dok EXCEPT !["RACUN"].status = "PENDING", !["RACUN"].pokusaji = 1]
  /\ Pokreni(w, "kreiraj", "prodaja", "RACUN", 1, 0, Nema)
  /\ UNCHANGED <<kanal, knjige, servis, kvarovi>>

\* The receipt is annulled when its correction is prepared.
StornirajOdmah(w) ==
  /\ Kasa /\ Fiskalizovan("RACUN") /\ dok["STORNO"].status = "NEMA"
  /\ dok' = [dok EXCEPT !["STORNO"].status = "PENDING", !["STORNO"].pokusaji = 1,
                        !["RACUN"].status = "STORNO"]
  /\ Pokreni(w, "kreiraj", "storno", "STORNO", 1, 0, Nema)
  /\ UNCHANGED <<kanal, knjige, servis, kvarovi>>
\* createAndFiscalizePosStorno: of a fiscalized receipt that has no correction.
Storniraj(w) ==
  /\ Kasa /\ Fiskalizovan("RACUN") /\ dok["STORNO"].status = "NEMA"
  /\ dok' = [dok EXCEPT !["STORNO"].status = "PENDING", !["STORNO"].pokusaji = 1]
  /\ Pokreni(w, "kreiraj", "storno", "STORNO", 1, 0, Nema)
  /\ UNCHANGED <<kanal, knjige, servis, kvarovi>>

\* A failed document is claimed again.
Ponovi(w, d, nacin, kljuc) ==
  /\ Kasa /\ dok[d].status = "FAILED" /\ dok[d].pokusaji < MaxPokusaja
  /\ dok' = [dok EXCEPT ![d].status = "PENDING", ![d].pokusaji = @ + 1]
  /\ Pokreni(w, "kreiraj", nacin, d, dok[d].pokusaji + 1, kljuc, dok[d].udaljeni)
  /\ UNCHANGED <<kanal, knjige, servis, kvarovi>>
\* The portal retries receipts under the key they were made with.
PonoviPortal(w) == Portal /\ Ponovi(w, "RACUN", "ponovi_portal", 0)
\* The agency retries receipts and stornos under a key of the attempt.
PonoviAgencija(w, d) ==
  ~Portal /\ Ponovi(w, d, "ponovi_agencija", dok[d].pokusaji + 1)
\* rejectClaim: the portal's retry finds no stock or no link to the service.
OdbijPonovni(w) ==
  /\ Kod(w, "kreiraj") /\ radnik[w].nacin = "ponovi_portal" /\ Kvar
  /\ dok' = IF Moj(w).status = "PENDING"
              THEN [dok EXCEPT ![radnik[w].dok].status = "FAILED"] ELSE dok
  /\ Zavrsi(w)
  /\ UNCHANGED <<kanal, knjige, servis>>

\* A sale saves the result first and moves the stock in a transaction of its own.
SacuvajProdaju(w) ==
  /\ Kod(w, "sacuvaj") /\ radnik[w].nacin = "prodaja"
  /\ dok' = Potvrdi("RACUN", radnik[w].udaljeni)
  /\ Idi(w, "lager")
  /\ UNCHANGED <<kanal, knjige, servis, kvarovi>>
PomjeriLager(w) ==
  /\ Kod(w, "lager")
  /\ promet' = Pomjereno("RACUN")
  /\ Poslije(w, NaknadnoKnjizenje)
  /\ UNCHANGED <<kanal, dok, nalog, servis, kvarovi>>
\* Retries and stornos do both in one transaction.
SacuvajSaLagerom(w) ==
  LET d == radnik[w].dok
  IN /\ Kod(w, "sacuvaj") /\ radnik[w].nacin \in {"ponovi_portal", "ponovi_agencija", "storno"}
     /\ dok' = SaOriginalom(Potvrdi(d, radnik[w].udaljeni), d)
     /\ promet' = Pomjereno(d)
     /\ Poslije(w, NaknadnoKnjizenje)
     /\ UNCHANGED <<kanal, nalog, servis, kvarovi>>

\* preserveConfirmedPosFiscalResult; of a storno with its original, but the agency's
\* retry marks the original by a statement of its own.
Sacuvano(w) ==
  LET d == radnik[w].dok
      nova == Potvrdi(d, radnik[w].udaljeni)
      zasebno == radnik[w].nacin = "ponovi_agencija" /\ d = "STORNO"
  IN /\ Kasa /\ Kod(w, "cuvaj")
     /\ dok' = IF zasebno THEN nova ELSE SaOriginalom(nova, d)
     /\ IF zasebno THEN Idi(w, "cuvaj_original") ELSE Zavrsi(w)
     /\ UNCHANGED <<kanal, knjige, servis, kvarovi>>
SacuvajOriginal(w) ==
  /\ Kod(w, "cuvaj_original")
  /\ dok' = SaOriginalom(dok, "STORNO")
  /\ Zavrsi(w)
  /\ UNCHANGED <<kanal, knjige, servis, kvarovi>>

\* finalizePosTransferAccounting: a journal, once for a document.
ProknjiziVirman(d) ==
  /\ Kasa /\ kanal.virman /\ ~Portal /\ Fiskalizovan(d) /\ dok[d].obrada = "OTVOREN"
  /\ dok' = [dok EXCEPT ![d].obrada = "ZAVRSEN"]
  /\ nalog' = [nalog EXCEPT ![d] = @ + 1]
KnjiziPoslijeProdaje(w) ==
  /\ Kasa /\ Kod(w, "knjizenje") /\ Zavrsi(w)
  /\ ProknjiziVirman(radnik[w].dok) \/ UNCHANGED <<dok, nalog>>
  /\ UNCHANGED <<kanal, promet, servis, kvarovi>>
\* completePosTransferAccounting, asked for by a user.
DovrsiVirman(d) ==
  ProknjiziVirman(d) /\ UNCHANGED <<kanal, promet, servis, radnik, kvarovi>>

\* generatePosKifBatch: the Fiscalized receipts and returns paid in cash or by card that
\* no takings entry holds.
ZaPazar == {d \in Dokument : Fiskalizovan(d) /\ dok[d].obrada = "OTVOREN"}
PraviPazar ==
  /\ Kasa /\ ~Portal /\ ~kanal.virman /\ ZaPazar # {}
  /\ dok' = [d \in Dokument |-> IF d \in ZaPazar THEN [dok[d] EXCEPT !.obrada = "U_PAZARU"]
                                ELSE dok[d]]
  /\ UNCHANGED <<kanal, knjige, servis, radnik, kvarovi>>

KasaNext ==
  \/ \E w \in Radnik :
       \/ Prodaj(w) \/ Storniraj(w) \/ PonoviPortal(w) \/ OdbijPonovni(w)
       \/ SacuvajProdaju(w) \/ PomjeriLager(w) \/ SacuvajSaLagerom(w)
       \/ Sacuvano(w) \/ SacuvajOriginal(w) \/ KnjiziPoslijeProdaje(w)
       \/ \E d \in Dokument : PonoviAgencija(w, d)
  \/ \E d \in Dokument : DovrsiVirman(d)
  \/ PraviPazar
=============================================================================
