------------------------------ MODULE Prodaja ------------------------------
(* Sales, at the point of sale or in the office, against the fiscal service: what must
   hold however calls are lost, requests overlap and the server stops. *)
EXTENDS Kasa, Faktura

Init == FiskalInit
Next ==
  \/ KasaNext \/ FakturaNext
  \/ \E w \in Radnik : Udaljeno(w) \/ Promasaj(w)
Spec == Init /\ [][Next]_vars

---------------------------------------------------------------------------
(* Properties *)

Potvrdjeni(d) == {k \in Kljuc : k[1] = d /\ Potvrdjen(k)}
\* The agency's retry of a receipt makes another document of the service.
NoviKljucRacuna == kanal.tip = "POS" /\ kanal.mjesto = "AGENCIJA"

\* Types of the state.
FiskalTipovi ==
  /\ kanal \in Kanal /\ kvarovi \in 0..MaxKvarova
  /\ \A d \in Dokument :
       /\ dok[d].status \in {"NEMA", "DRAFT", "PENDING", "FAILED", "FISCALIZED", "STORNO",
                             "OBRISAN"}
       /\ dok[d].obrada \in {"OTVOREN", "U_PAZARU", "ZAVRSEN"}
       /\ dok[d].udaljeni \in Kljuc \cup {Nema}
       /\ dok[d].pokusaji \in 0..MaxPokusaja /\ dok[d].verzija \in {0, 1}
       /\ promet[d] \in 0..MaxPrometa /\ nalog[d] \in 0..MaxPrometa
  /\ \A w \in Radnik : radnik[w].broj \in 0..MaxPokusaja

\* Lost calls, lost answers, retries, requests that take over a stale attempt and crashes
\* leave at most one confirmed document of the service for a document, and its content is
\* the document's; receipts that the agency retries are the exception.
JedanRacun ==
  \A d \in Dokument :
    ~(NoviKljucRacuna /\ d = "RACUN") =>
      /\ Cardinality(Potvrdjeni(d)) <= 1
      /\ \A k \in Potvrdjeni(d) : servis[k].verzija = dok[d].verzija

\* Nothing is called fiscalized, goes to the takings or is completed that the service has
\* not confirmed, and no original is annulled before its correction is confirmed.
SamoPotvrdjeno ==
  /\ \A d \in Dokument :
       dok[d].status \in {"FISCALIZED", "STORNO"} \/ dok[d].obrada # "OTVOREN" =>
         Potvrdjen(dok[d].udaljeni)
  /\ dok["RACUN"].status = "STORNO" => Fiskalizovan("STORNO")

\* A late answer, failure or retry never takes back a confirmation nor turns it to
\* another document of the service.
PotvrdjenoOstaje ==
  [][\A d \in Dokument : dok[d].status \in {"FISCALIZED", "STORNO"} =>
       /\ dok'[d].status \in {"FISCALIZED", "STORNO"}
       /\ dok'[d].udaljeni = dok[d].udaljeni]_vars

\* Receipts and invoices of the portal move the stock once; an invoice of the agency is
\* completed only with stock and journal, its storno only after it and once; a journal of
\* a transfer is made once.
KnjigePrateDokument ==
  /\ ~(kanal.tip = "KANC" /\ kanal.mjesto = "AGENCIJA") =>
       \A d \in Dokument : promet[d] <= 1 /\ nalog[d] <= 1
  /\ promet["STORNO"] <= 1 /\ nalog["STORNO"] <= 1
  /\ kanal.tip = "KANC" =>
       /\ dok["RACUN"].obrada = "ZAVRSEN" => promet["RACUN"] > 0
       /\ promet["STORNO"] > 0 => nalog["RACUN"] > 0 /\ dok["RACUN"].obrada = "ZAVRSEN"
  /\ \A d \in Dokument : promet[d] > 0 => Potvrdjen(dok[d].udaljeni)

\* The integration guide: no new key after an ordinary timeout or a broken connection.
JedanFiskalniRacun == \A d \in Dokument : Cardinality(Potvrdjeni(d)) <= 1

\* zadaci/04: a posted goods document has its linked journal.
SvakiPrometImaNalog ==
  \A d \in Dokument :
    kanal.tip = "KANC" /\ kanal.mjesto = "AGENCIJA" /\ promet[d] > 0 =>
      dok[d].obrada = "ZAVRSEN"

\* CURRENT_STATE.md: the storno corrects KIF and VAT, so its receipt is in the takings too.
PazarSaOriginalom ==
  dok["STORNO"].obrada = "U_PAZARU" => dok["RACUN"].obrada = "U_PAZARU"
=============================================================================
