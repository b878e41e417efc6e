----------------------------- MODULE KnjigaInv -----------------------------
(***************************************************************************)
(* The inductive invariant behind the safety properties of Knjiga: what a  *)
(* request in the middle of a server action may rely on, by the locks it   *)
(* holds, until its transaction ends.                                      *)
(***************************************************************************)
EXTENDS Knjiga

Drzi(r, x) == brave[x] = r

---------------------------------------------------------------------------
(* One part for each thing a request relies on *)

\* Its next statement locks what the step after it counts on.
CekaOK(r) ==
  LET z == zahtjevi[r] IN
  /\ z.pc \in {"createLock", "importWrite", "openingLock"} => Savjetna(z.godina) \in z.ceka
  /\ z.pc \in {"importYear", "postYear"} => RedGodine(z.godina) \in z.ceka
  /\ z.pc \in {"updateWrite", "postCheck", "reopenWrite", "deleteWrite"}
       => z.nalog \in Nalog /\ RedNaloga(z.nalog) \in z.ceka
  /\ z.pc \in {"settleCheck", "openingCheck", "carryCheck"}
       => \A i \in z.slika : RedNaloga(i.nalog) \in z.ceka

\* Posting: the year of the journal is the year it locked, and once both rows
\* are locked the preconditions stay true.
KnjizenjeOK(r) ==
  LET z == zahtjevi[r] IN
  /\ z.pc \in {"postYear", "postCheck", "postCommit"}
       => z.nalog \in Nalog /\ (Postoji(z.nalog) => nalozi[z.nalog].godina = z.godina)
  /\ z.pc \in {"postCheck", "postCommit"} => Drzi(r, RedGodine(z.godina))
  /\ z.pc = "postCommit" => Drzi(r, RedNaloga(z.nalog)) /\ SmijeSeKnjiziti(z.nalog)

\* Creating an opening balance: the advisory lock keeps the year without one.
PocetnoOK(r) ==
  LET z == zahtjevi[r] IN
  \/ z.pc = "createWrite" /\ z.vrsta # "OBICAN"
  \/ z.pc \in {"openingCarry", "openingCheck", "openingCommit"}
  => Drzi(r, Savjetna(z.godina)) /\ ~ImaPocetno(z.godina)

\* A line of the loaded ledger is still in its journal, or nowhere.
SlikaOK(r) ==
  \A i \in zahtjevi[r].slika : stavke[i.id].nalog \in {Nema, i.nalog}

\* After the check the loaded lines are locked and unchanged.
ZakljucaneOK(r) ==
  LET z == zahtjevi[r] IN
  z.pc \in {"settleCommit", "openingCommit", "carryCommit"} =>
    \A i \in z.slika : Drzi(r, RedNaloga(i.nalog)) /\ StavkaIsta(i)

\* Settling: the company is locked, every pair ties two loaded lines of one
\* card, and after the check the new edges fit the lines and their dates.
ZatvaranjeOK(r) ==
  LET z == zahtjevi[r] IN
  /\ z.pc \in {"settleCheck", "settleCommit"} =>
       /\ Drzi(r, Firma)
       /\ \A q \in z.plan : \E i, j \in z.slika :
            i.id = q.d /\ j.id = q.p /\ i.kartica = j.kartica
  /\ z.pc = "settleCommit" =>
       \A i \in z.slika : nalozi[i.nalog].datum <= z.datum /\ StaneUStavku(z, i)

\* Carrying: the loaded lines are of an earlier year than the opening journal.
PrenosOK(r) ==
  LET z == zahtjevi[r] IN
  /\ z.pc \in {"openingCheck", "openingCommit", "carryCheck", "carryCommit"} =>
       \A i \in z.slika : Postoji(i.nalog) => nalozi[i.nalog].godina < z.godina
  /\ z.pc \in {"carryCheck", "carryCommit"} =>
       z.nalog \in Nalog /\ (Postoji(z.nalog) => nalozi[z.nalog].godina = z.godina)

ZahtjevOK(r) ==
  /\ CekaOK(r) /\ KnjizenjeOK(r) /\ PocetnoOK(r) /\ SlikaOK(r)
  /\ ZakljucaneOK(r) /\ ZatvaranjeOK(r) /\ PrenosOK(r)

---------------------------------------------------------------------------

IInv ==
  /\ TypeOK /\ VezeIspravne /\ PrenosiIspravni /\ JednoPocetno
  /\ \A r \in Zahtjev : ZahtjevOK(r)
=============================================================================
