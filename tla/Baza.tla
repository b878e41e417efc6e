------------------------------- MODULE Baza -------------------------------
(***************************************************************************)
(* The PostgreSQL tables behind one company's ledger, the row locks that   *)
(* its server actions take, and the triggers that guard its rows.          *)
(*                                                                         *)
(* A request is one running server action.  It reads committed data only   *)
(* (READ COMMITTED), so everything it wrote and has not committed lives in *)
(* zahtjevi[r], and a step that changes a table is the commit itself.      *)
(* Locks are held from the step that takes them to the request's end.      *)
(*                                                                         *)
(* Abstractions: a Kartica is a pair (account, partner), so two lines are  *)
(* on the same card when konto_id and komitent_id agree; a line carries    *)
(* one signed amount (duguje - potrazuje, in cents); dates are numbered    *)
(* consecutively, Perioda of them in each business year.                   *)
(***************************************************************************)
EXTENDS Integers, FiniteSets, FiniteSetsExt, Functions

CONSTANTS
  Nalog,        \* identifiers of journals (rows of nalozi)
  Stavka,       \* identifiers of journal lines (rows of stavke_naloga)
  Kartica,      \* (account, partner) pairs
  Analitika,    \* the cards of partners on the analytic account 2* or 4*
  Zahtjev,      \* concurrent requests
  Niko,         \* nobody: the owner of a free lock, the card of no line
  BrojGodina,   \* business years of the company
  Perioda,      \* dates in a business year
  MaxVeza       \* bound on the rows ever written to zatvaranja_stavki

ASSUME BazaPretpostavke ==
  /\ Nalog \subseteq Nat \ {0}
  /\ Stavka \subseteq Nat \ {0}
  /\ Analitika \subseteq Kartica
  /\ Niko \notin Zahtjev /\ Niko \notin Kartica
  /\ BrojGodina \in Nat \ {0} /\ Perioda \in Nat \ {0} /\ MaxVeza \in Nat

\* Identifiers are UUIDs, of which there are finitely many.
ASSUME KonacnoStavki == IsFiniteSet(Stavka)

VARIABLES
  zakljucena,   \* poslovne_godine.zakljucena
  nalozi,       \* nalozi, indexed by id
  stavke,       \* stavke_naloga, indexed by id
  zatvaranja,   \* zatvaranja_stavki: settlement edges, active and cancelled
  prenosi,      \* prenosi_otvorenih_stavki: <<opening journal, source line>>
  brave,        \* row and advisory locks
  zahtjevi      \* what each request knows and what it will do next

tabele == <<zakljucena, nalozi, stavke, zatvaranja, prenosi>>
vars == <<zakljucena, nalozi, stavke, zatvaranja, prenosi, brave, zahtjevi>>

---------------------------------------------------------------------------
(* Rows and dates *)

Nema == 0
Godina == 1 .. BrojGodina
Datum == 1 .. (BrojGodina * Perioda)
\* Mutant: the year's first date is one too early.
DatumOdPrerano(g) == (g - 1) * Perioda
DatumOd(g) == (g - 1) * Perioda + 1
DatumDo(g) == g * Perioda
DatumUGodini(d, g) == DatumOd(g) <= d /\ d <= DatumDo(g)

\* The opening-balance journal type, and whether the program generated it.
Vrsta == {"OBICAN", "POCETNO_RUCNO", "POCETNO_AUTO"}
Pocetno(n) == nalozi[n].vrsta # "OBICAN"

NalogTip == [status : {"NEMA", "DRAFT", "POSTED"}, godina : Godina,
             datum : Datum, vrsta : Vrsta]
PrazanNalog == [status |-> "NEMA", godina |-> 1, datum |-> 1, vrsta |-> "OBICAN"]
PraznaStavka == [nalog |-> Nema, kartica |-> Niko, iznos |-> 0]

\* x has exactly the fields of a journal line, of a settlement edge.
JeStavka(x) ==
  /\ x = [nalog |-> x.nalog, kartica |-> x.kartica, iznos |-> x.iznos]
  /\ x.nalog \in Nalog \cup {Nema} /\ x.kartica \in Kartica \cup {Niko}
\* ponisteno = 0 is is_deleted = false; otherwise ponisteno is ponisteno_datum.
JeVeza(v) ==
  /\ v = [rb |-> v.rb, d |-> v.d, p |-> v.p, iznos |-> v.iznos,
          datum |-> v.datum, ponisteno |-> v.ponisteno]
  /\ v.d \in Stavka /\ v.p \in Stavka
  /\ v.datum \in Datum /\ v.ponisteno \in Datum \cup {0}

ZbirFunkcije(f) == SumFunction(f)

Postoji(n) == nalozi[n].status # "NEMA"
Proknjizen(n) == nalozi[n].status = "POSTED"
StavkeNaloga(n) == {s \in Stavka : stavke[s].nalog = n}
Zbir(S) == ZbirFunkcije([s \in S |-> stavke[s].iznos])

Aktivna(v) == v.ponisteno = 0
VezeStavke(s) == {v \in zatvaranja : s \in {v.d, v.p}}
AktivneVeze(s) == {v \in VezeStavke(s) : Aktivna(v)}

---------------------------------------------------------------------------
(* Locks *)

Firma == <<"firma">>
RedGodine(g) == <<"godina", g>>
RedNaloga(n) == <<"nalog", n>>
Savjetna(g) == <<"pocetno", g>>      \* pg_advisory_xact_lock(firma, godina)
Red == {Firma} \cup {RedGodine(g) : g \in Godina}
         \cup {RedNaloga(n) : n \in Nalog} \cup {Savjetna(g) : g \in Godina}

Slobodno(r, x) == brave[x] \in {Niko, r}
SaZakljucanim(r, X) == [x \in Red |-> IF x \in X THEN r ELSE brave[x]]
\* Mutant: a finished request keeps its locks.
SaZadrzanim(r) == [x \in Red |-> brave[x]]
SaPustenim(r) == [x \in Red |-> IF brave[x] = r THEN Niko ELSE brave[x]]

---------------------------------------------------------------------------
(* Requests *)

\* ceka: the rows the request's next statement locks, or shares through a
\* foreign key; the request waits until no other request holds any of them.
Mirovanje == [pc |-> "miruje", nalog |-> Nema, godina |-> 1, datum |-> 1,
              vrsta |-> "OBICAN", unos |-> <<>>, slika |-> {}, plan |-> {},
              kartice |-> {}, otisak |-> {}, ceka |-> {}]
Miruje(r) == zahtjevi[r].pc = "miruje"
MozeDalje(r) == \A x \in zahtjevi[r].ceka : Slobodno(r, x)

\* The request ends: its transaction commits or rolls back, its locks go.
Zavrsi(r) ==
  /\ zahtjevi' = [zahtjevi EXCEPT ![r] = Mirovanje]
  /\ brave' = SaPustenim(r)

\* Nothing else happens in the database.
Odustani(r) == Zavrsi(r) /\ UNCHANGED tabele

---------------------------------------------------------------------------
(* Triggers zastiti_zatvorenu_stavku and zastiti_zatvoreni_nalog *)

ZasticenaStavka(s) ==
  \/ \E v \in zatvaranja : Aktivna(v) /\ s \in {v.d, v.p}
  \/ \E p \in prenosi : p[2] = s
\* Mutant: the triggers forget the settlement edges.
ZasticenNalogSamoPrenos(n) == \E s \in StavkeNaloga(n), p \in prenosi : p[2] = s
ZasticenNalog(n) == \E s \in StavkeNaloga(n) : ZasticenaStavka(s)

---------------------------------------------------------------------------
(* Fresh identifiers: gen_random_uuid never returns one that anything      *)
(* still mentions.  A deleted line that a cancelled edge mentions stands   *)
(* for the NULL that ON DELETE SET NULL writes there.                      *)

SvjezeStavke ==
  {s \in Stavka : /\ stavke[s].nalog = Nema
                  /\ VezeStavke(s) = {}
                  /\ \A r \in Zahtjev :
                       /\ \A i \in zahtjevi[r].slika : i.id # s
                       /\ \A p \in zahtjevi[r].plan : s \notin {p.d, p.p}
                       /\ \A x \in zahtjevi[r].otisak : x[1] # s}
SvjeziNalozi ==
  {n \in Nalog : /\ ~Postoji(n)
                 /\ \A r \in Zahtjev :
                      /\ zahtjevi[r].nalog # n
                      /\ \A i \in zahtjevi[r].slika : i.nalog # n}
NoviNalog == CHOOSE n \in SvjeziNalozi : TRUE
Najmanjih(k, S) == {s \in S : Cardinality({t \in S : t < s}) < k}

\* The ways to give the entered lines their ids, as few as the fresh ids allow.
Raspored(unos) ==
  {f \in [DOMAIN unos -> Najmanjih(Cardinality(DOMAIN unos), SvjezeStavke)] :
     \A i, j \in DOMAIN unos : f[i] = f[j] => i = j}
NoviIdovi(unos) == CHOOSE f \in Raspored(unos) : TRUE

\* stavke after journal n's lines are replaced by the entered ones.
SaStavkama(n, unos) ==
  LET id == NoviIdovi(unos)
  IN [s \in Stavka |->
        IF \E i \in DOMAIN unos : id[i] = s
        THEN LET i == CHOOSE i \in DOMAIN unos : id[i] = s
             IN [nalog |-> n, kartica |-> unos[i].kartica, iznos |-> unos[i].iznos]
        ELSE IF stavke[s].nalog = n THEN PraznaStavka ELSE stavke[s]]
=============================================================================
