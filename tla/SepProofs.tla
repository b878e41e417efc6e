----------------------------- MODULE SepProofs -----------------------------
(***************************************************************************)
(* Proofs about Sep, for any processes, invoices, days and failures: its   *)
(* types, that an invoice has one row and stands in the ledger as that row *)
(* says, that what was imported and not posted is followed and of the kind *)
(* that is set, that a job is DONE only when all it downloaded is in the   *)
(* KIF, and that the automation posts only its own rows.                   *)
(***************************************************************************)
EXTENDS Sep, Zbirovi

---------------------------------------------------------------------------
(* Types *)

Koraci == {"miruje", "red", "preuzmi", "uvoz", "upis", "knjizi", "kraj", "status"}
Radnik0 == [pc : Koraci, vazi : BOOLEAN, vrsta : Vrsta \cup {Niko}, poslovi : SUBSET Dan,
            posao : Nat, preuzeto : SUBSET Racun, novi : SUBSET Racun, tekuci : SUBSET Racun,
            lista : SUBSET Red, greska : BOOLEAN]
Obrade0 == {"NEMA", "PENDING", "RUNNING", "DONE", "REVIEW"}
Statusi == {"NEMA", "DRAFT", "POSTED"}
Zahtjev0 == [op : {"", "unesi", "obrisi", "delete"}, red : SUBSET Red, vrsta : Vrsta \cup {Niko}]

\* What the tables, the processes and the user's request hold.
SepTipovi ==
  /\ dan \in Nat
  /\ podesavanje \in [aktivna : BOOLEAN, od : Nat, vrsta : Vrsta]
  /\ obrade \in [Dan -> Obrade0]
  /\ zatvoreno \in BOOLEAN
  /\ kif \subseteq Red /\ IsFiniteSet(kif)
  /\ nalog \in [Vrsta -> [status : Statusi, stavke : [Racun -> Nat]]]
  /\ brava \in Proces \cup {Niko}
  /\ radnik \in [Proces -> Radnik0]
  /\ korisnik \in Zahtjev0
  /\ istorija \in [dirao : SUBSET Racun, sporni : SUBSET Racun]

---------------------------------------------------------------------------
(* The inductive invariant *)

\* An invoice has a row, and nothing of it waits for the automation.
Ima(K, r) == \E e \in K : e.racun = r
Zavrsen(K, r) == Ima(K, r) /\ \A e \in K : e.racun = r /\ e.izvor = "AUTO" => e.knjizen
\* A row that the automation has yet to post; D are the invoices a user touched.
Ceka(K, D) == {e \in K : e.izvor = "AUTO" /\ ~e.knjizen /\ e.racun \notin D}
ImaPar(L, e) == \E x \in L : x.racun = e.racun /\ x.izvor = e.izvor

Kljucevi(K) == \A e, x \in K : e.racun = x.racun /\ e.izvor = x.izvor => e = x
JedanRed(K, S) == \A e, x \in K : e.racun = x.racun /\ e.racun \notin S => e = x
Proknjizen(K, v, r) == \E e \in K : e.racun = r /\ e.vrsta = v /\ e.knjizen
UKnjigama(K, N, S) ==
  \A r \in Racun \ S, v \in Vrsta : N[v].stavke[r] = IF Proknjizen(K, v, r) THEN 1 ELSE 0
Vrste(K, D, w) == \A e \in Ceka(K, D) : e.vrsta = w
Posao(O, r) == \E d \in Dan : Izdat[r] \in Period(d) /\ O[d] # "NEMA"
Prate(K, D, O) == \A e \in Ceka(K, D) : Posao(O, e.racun)
Gotovi(K, D, O) == \A d \in Dan : O[d] = "DONE" => \A r \in UDatoteci(d) \ D : Zavrsen(K, r)

\* What a process at a step of a job knows; b says that it holds the lock, w is the kind
\* that is set.
UPoslu == {"preuzmi", "uvoz", "upis", "knjizi", "kraj", "status"}
Uvozi(z, K, D) ==
  z.pc \in {"uvoz", "upis", "knjizi"} =>
    /\ z.preuzeto = UDatoteci(z.posao) /\ z.novi \subseteq z.preuzeto
    /\ z.greska \/ \A r \in z.preuzeto \ D : r \in z.novi \cup z.tekuci \/ Ima(K, r)
Tekuci(z) ==
  IF z.pc = "upis" THEN \E r \in z.preuzeto : z.tekuci = {r} ELSE z.tekuci = {}
Lista(z, b, K, D) ==
  z.pc = "knjizi" => /\ z.novi = {} /\ \A x \in z.lista : x.izvor = "AUTO"
                     /\ b /\ z.vazi => \A e \in Ceka(K, D) : ImaPar(z.lista, e)
Ishodi(z, K, D) ==
  z.pc \in {"kraj", "status"} /\ ~z.greska =>
    z.preuzeto = UDatoteci(z.posao) /\ \A r \in z.preuzeto \ D : Zavrsen(K, r)
RadnikOK(z, b, w, K, D, O) ==
  /\ z.vazi => z.vrsta = w
  /\ z.pc \in UPoslu => z.posao \in Dan /\ O[z.posao] # "NEMA"
  /\ Uvozi(z, K, D) /\ Tekuci(z) /\ Lista(z, b, K, D) /\ Ishodi(z, K, D)

\* What the user's request knows.
KorisnikOK(z, K) ==
  /\ z.op = "unesi" => \A e \in z.red : /\ e.izvor = "RUKA" /\ ~e.knjizen /\ z.red = {e}
                                       /\ \A x \in K : x.racun = e.racun => x.izvor # "RUKA"
  /\ z.op = "delete" => z.vrsta \in Vrsta

SepInv ==
  /\ SepTipovi
  /\ Kljucevi(kif) /\ JedanRed(kif, istorija.sporni) /\ UKnjigama(kif, nalog, istorija.sporni)
  /\ Vrste(kif, istorija.dirao, podesavanje.vrsta)
  /\ Prate(kif, istorija.dirao, obrade) /\ Gotovi(kif, istorija.dirao, obrade)
  /\ \A p \in Proces : RadnikOK(radnik[p], brava = p, podesavanje.vrsta, kif, istorija.dirao, obrade)
  /\ KorisnikOK(korisnik, kif)

---------------------------------------------------------------------------
(* Rows that are changed and added *)

\* The image of a finite set is finite.
LEMMA KonacnaSlika ==
  ASSUME NEW A, IsFiniteSet(A), NEW f, f = [e \in A |-> f[e]]
  PROVE  IsFiniteSet({f[e] : e \in A})
<1>1. PICK T : T = {f[e] : e \in A}
  OBVIOUS
<1>2. f \in Surjection(A, T)
  BY <1>1 DEF Surjection
<1> QED
  BY <1>1, <1>2, FS_Surjection

\* The rows A of K are replaced by rows of the same invoice, source and kind.
Zamijenjeni(K, A, f) == (K \ A) \cup {f[e] : e \in A}
IstiRed(e, x) == e.racun = x.racun /\ e.izvor = x.izvor /\ e.vrsta = x.vrsta
Zamjena(K, A, f) ==
  /\ A \subseteq K
  /\ f \in [A -> Red]
  /\ \A e \in A : IstiRed(f[e], e)

\* Every row after the replacement comes from one before, and the other way.
LEMMA ZamjenaIzvor ==
  ASSUME NEW K, NEW A, NEW f, Zamjena(K, A, f)
  PROVE  /\ \A x \in Zamijenjeni(K, A, f) :
              (x \in K /\ x \notin A) \/ \E e \in A : x = f[e]
         /\ \A x \in Zamijenjeni(K, A, f) : \E e \in K : IstiRed(x, e)
         /\ \A e \in K : \E x \in Zamijenjeni(K, A, f) : IstiRed(x, e)
<1>1. \A x \in Zamijenjeni(K, A, f) : (x \in K /\ x \notin A) \/ \E e \in A : x = f[e]
  BY DEF Zamijenjeni
<1>2. \A x \in Zamijenjeni(K, A, f) : \E e \in K : IstiRed(x, e)
  BY <1>1 DEF Zamjena, IstiRed
<1>3. ASSUME NEW e \in K PROVE \E x \in Zamijenjeni(K, A, f) : IstiRed(x, e)
  <2>1. CASE e \in A
    <3>1. f[e] \in Zamijenjeni(K, A, f) /\ IstiRed(f[e], e)
      BY <2>1 DEF Zamjena, Zamijenjeni
    <3> QED
      BY <3>1
  <2>2. CASE e \notin A
    <3>1. e \in Zamijenjeni(K, A, f) /\ IstiRed(e, e)
      BY <2>2 DEF Zamijenjeni, IstiRed
    <3> QED
      BY <3>1
  <2> QED
    BY <2>1, <2>2
<1> QED
  BY <1>1, <1>2, <1>3

\* It keeps the keys, the one row of an invoice, and which invoices have rows.
LEMMA ZamjenaKljucevi ==
  ASSUME NEW K, NEW A, NEW f, Zamjena(K, A, f), K \subseteq Red, IsFiniteSet(K)
  PROVE  /\ Zamijenjeni(K, A, f) \subseteq Red /\ IsFiniteSet(Zamijenjeni(K, A, f))
         /\ Kljucevi(K) => Kljucevi(Zamijenjeni(K, A, f))
         /\ \A S : JedanRed(K, S) => JedanRed(Zamijenjeni(K, A, f), S)
         /\ \A q : Ima(Zamijenjeni(K, A, f), q) <=> Ima(K, q)
<1>1. PICK L : L = Zamijenjeni(K, A, f)
  OBVIOUS
<1>2. L \subseteq Red
  BY <1>1 DEF Zamijenjeni, Zamjena
<1>3. IsFiniteSet(L)
  <2>1. IsFiniteSet(K \ A) /\ IsFiniteSet(A)
    BY FS_Subset DEF Zamjena
  <2>2. IsFiniteSet({f[e] : e \in A})
    BY <2>1, KonacnaSlika DEF Zamjena
  <2> QED
    BY <1>1, <2>1, <2>2, FS_Union DEF Zamijenjeni
<1>4. \A x \in L : (x \in K /\ x \notin A) \/ \E e \in A : x = f[e]
  BY <1>1, ZamjenaIzvor
<1>5. \A x \in L : (x \in K /\ x \notin A) \/ \E e \in A : x = f[e] /\ e \in K /\ IstiRed(x, e)
  BY <1>4 DEF Zamjena
<1>6. ASSUME Kljucevi(K) PROVE Kljucevi(L)
  BY <1>5, <1>6 DEF Kljucevi, IstiRed
<1>7. ASSUME NEW S, JedanRed(K, S) PROVE JedanRed(L, S)
  BY <1>5, <1>7 DEF JedanRed, IstiRed
<1>8. ASSUME NEW q PROVE Ima(L, q) <=> Ima(K, q)
  <2>1. /\ \A x \in L : \E e \in K : IstiRed(x, e)
        /\ \A e \in K : \E x \in L : IstiRed(x, e)
    BY <1>1, ZamjenaIzvor
  <2> QED
    BY <2>1 DEF Ima, IstiRed
<1> QED
  BY <1>1, <1>2, <1>3, <1>6, <1>7, <1>8

---------------------------------------------------------------------------
(* What a step does to the rows, for the jobs and the processes *)

\* From K to L and from D to E: no invoice that was finished becomes unfinished, unless a
\* user touches it.
Prelaz(K, D, L, E) ==
  /\ D \subseteq E
  /\ \A q \in Racun \ E : (Ima(K, q) => Ima(L, q)) /\ (Zavrsen(K, q) => Zavrsen(L, q))
\* No row begins to wait.
BezNovih(K, D, L, E) == \A e \in Ceka(L, E) : \E x \in Ceka(K, D) : IstiRed(e, x)
\* No job is forgotten.
IstiPoslovi(O, P) == \A d \in Dan : O[d] # "NEMA" => P[d] # "NEMA"

LEMMA PrelazIsti ==
  ASSUME NEW K, NEW D PROVE Prelaz(K, D, K, D) /\ BezNovih(K, D, K, D)
BY DEF Prelaz, BezNovih, IstiRed

\* A process that does nothing knows what it knew.
LEMMA RadnikOstaje ==
  ASSUME NEW z \in Radnik0, NEW b \in BOOLEAN, NEW c \in BOOLEAN, NEW w, NEW K, NEW L, NEW D, NEW E,
         NEW O, NEW P, RadnikOK(z, b, w, K, D, O), c => b, Prelaz(K, D, L, E), IstiPoslovi(O, P),
         c => BezNovih(K, D, L, E)
  PROVE  RadnikOK(z, c, w, L, E, P)
<1>1. z.vazi => z.vrsta = w
  BY DEF RadnikOK
<1>2. z.pc \in UPoslu => z.posao \in Dan /\ P[z.posao] # "NEMA"
  BY DEF RadnikOK, IstiPoslovi
<1>3. Uvozi(z, L, E)
  <2>1. z.preuzeto \subseteq Racun
    BY DEF Radnik0
  <2> QED
    BY <2>1 DEF RadnikOK, Uvozi, Prelaz
<1>4. Tekuci(z)
  BY DEF RadnikOK
<1>5. Lista(z, c, L, E)
  BY DEF RadnikOK, Lista, BezNovih, ImaPar, IstiRed
<1>6. Ishodi(z, L, E)
  <2>1. z.preuzeto \subseteq Racun
    BY DEF Radnik0
  <2> QED
    BY <2>1 DEF RadnikOK, Ishodi, Prelaz
<1> QED
  BY <1>1, <1>2, <1>3, <1>4, <1>5, <1>6 DEF RadnikOK

---------------------------------------------------------------------------
(* The ledger and the number of rows *)

\* The community module's sum is the one of Zbirovi.
LEMMA KnjizenoJeZbir ==
  ASSUME NEW r
  PROVE  Knjizeno(r) = ZbirNad([v \in Vrsta |-> nalog[v].stavke[r]], Vrsta)
<1> DEFINE f == [v \in Vrsta |-> nalog[v].stavke[r]]
<1> DEFINE P(h) == h = [s \in SUBSET Vrsta |-> IF s = {} THEN 0
                          ELSE nalog[CHOOSE x \in s : TRUE].stavke[r]
                                 + h[s \ {CHOOSE x \in s : TRUE}]]
<1>1. \A h : P(h) <=> JeZbir(h, f, Vrsta)
  <2>1. TAKE h
  <2>2. \A s \in SUBSET Vrsta :
          s # {} => f[Izabran(s)] = nalog[CHOOSE x \in s : TRUE].stavke[r]
    BY DEF Izabran
  <2> HIDE DEF f
  <2> QED
    BY <2>2 DEF JeZbir, Izabran
<1>2. \E h : P(h)
  <2> HIDE DEF P, f
  <2> QED
    BY <1>1, KonacnoVrsta, PostojiZbir
<1>3. P(CHOOSE h : P(h))
  BY <1>2
<1>4. Knjizeno(r) = (CHOOSE h : P(h))[Vrsta]
  BY DEF Knjizeno, MapThenSumSet, MapThenFoldSet
<1> HIDE DEF P, f
<1>5. Knjizeno(r) = ZbirNad(f, Vrsta)
  BY <1>1, <1>3, <1>4, KonacnoVrsta, ZbirJe
<1> QED
  BY <1>5 DEF f

\* Of at most one row there are as many posted ones as the row is.
LEMMA JedanIliNijedan ==
  ASSUME NEW A, \A e, x \in A : e = x
  PROVE  Cardinality(A) \in {0, 1} /\ (Cardinality(A) = 1 <=> A # {})
<1>1. CASE A = {}
  BY <1>1, FS_EmptySet
<1>2. CASE A # {}
  <2>1. PICK a : a \in A
    BY <1>2
  <2>2. A = {a}
    BY <2>1
  <2>3. Cardinality({a}) = 1
    BY FS_Singleton
  <2> QED
    BY <1>2, <2>2, <2>3
<1> QED
  BY <1>1, <1>2

\* The invariant of the runs that is about sums follows from the rows.
LEMMA SlijediJednom ==
  ASSUME JedanRed(kif, istorija.sporni), UKnjigama(kif, nalog, istorija.sporni),
         kif \subseteq Red
  PROVE  JednomAkoNijeSporno
<1>1. SUFFICES ASSUME NEW r \in Racun \ istorija.sporni
               PROVE  /\ Cardinality(Redovi(r)) <= 1
                      /\ Knjizeno(r) = Cardinality({e \in Redovi(r) : e.knjizen})
  BY DEF JednomAkoNijeSporno
<1>2. \A e, x \in Redovi(r) : e = x
  BY <1>1 DEF Redovi, JedanRed
<1>3. Cardinality(Redovi(r)) <= 1
  BY <1>2, JedanIliNijedan
<1>4. PICK A : A = {e \in Redovi(r) : e.knjizen}
  OBVIOUS
<1>5. \A e, x \in A : e = x
  BY <1>2, <1>4
<1>6. PICK f : f = [v \in Vrsta |-> nalog[v].stavke[r]]
  OBVIOUS
<1>7. Knjizeno(r) = ZbirNad(f, Vrsta)
  BY <1>6, KnjizenoJeZbir
<1>8. \A v \in Vrsta : f[v] = IF Proknjizen(kif, v, r) THEN 1 ELSE 0
  BY <1>1, <1>6 DEF UKnjigama
<1>9. CASE A = {}
  <2>1. \A v \in Vrsta : f[v] = 0
    BY <1>4, <1>8, <1>9 DEF Redovi, Proknjizen
  <2> QED
    BY <1>3, <1>4, <1>7, <1>9, <2>1, ZbirNula, KonacnoVrsta, FS_EmptySet
<1>10. CASE A # {}
  <2>1. PICK e : e \in A
    BY <1>10
  <2>2. PICK v : v = e.vrsta
    OBVIOUS
  <2>3. e \in kif /\ e.racun = r /\ e.knjizen /\ v \in Vrsta
    BY <1>4, <2>1, <2>2 DEF Redovi, Red
  <2>4. f[v] = 1
    BY <1>8, <2>2, <2>3 DEF Proknjizen
  <2>5. \A u \in Vrsta \ {v} : f[u] = 0
    BY <1>2, <1>8, <2>2, <2>3 DEF Redovi, Proknjizen
  <2>6. ZbirNad(f, Vrsta) = f[v] + ZbirNad(f, Vrsta \ {v})
    <3>1. \A u \in Vrsta : f[u] \in Int
      BY <2>4, <2>5
    <3> QED
      BY <2>3, <3>1, KonacnoVrsta, ZbirBezElementa
  <2>7. IsFiniteSet(Vrsta \ {v})
    BY KonacnoVrsta, FS_Subset
  <2>8. ZbirNad(f, Vrsta \ {v}) = 0
    BY <2>5, <2>7, ZbirNula
  <2>9. Cardinality(A) = 1
    BY <1>5, <1>10, JedanIliNijedan
  <2> QED
    BY <1>3, <1>4, <1>7, <2>4, <2>6, <2>8, <2>9
<1> QED
  BY <1>9, <1>10

---------------------------------------------------------------------------
(* What the writes do to the rows *)

RedoviOK == kif \subseteq Red /\ IsFiniteSet(kif) /\ Kljucevi(kif)

\* The import: it adds a row to an invoice that has none, or marks the row that was typed.
LEMMA UpisanoRedovi ==
  ASSUME RedoviOK, NEW r \in Racun, NEW i \in {"AUTO", "MAPR"}, NEW v \in Vrsta
  PROVE  /\ Upisano(r, i, v) \subseteq Red /\ IsFiniteSet(Upisano(r, i, v))
         /\ Kljucevi(Upisano(r, i, v))
         /\ \A S : JedanRed(kif, S) => JedanRed(Upisano(r, i, v), S)
         /\ \A w, q : Proknjizen(Upisano(r, i, v), w, q) <=> Proknjizen(kif, w, q)
         /\ Ima(Upisano(r, i, v), r)
         /\ \A D : Prelaz(kif, D, Upisano(r, i, v), D)
         /\ \A x \in Upisano(r, i, v) : (\E e \in kif : IstiRed(x, e) /\ x.knjizen = e.knjizen)
                                        \/ (x = NoviRed(r, i, v) /\ Redovi(r) = {})
<1>1. PICK U : U = Upisano(r, i, v)
  OBVIOUS
<1>2. CASE SaIkofom(r) # {}
  <2>1. U = kif
    BY <1>1, <1>2 DEF Upisano
  <2>2. Ima(kif, r)
    BY <1>2 DEF SaIkofom, Redovi, Ima
  <2>3. \A x \in kif : IstiRed(x, x)
    BY DEF IstiRed
  <2> QED
    BY <1>1, <2>1, <2>2, <2>3, PrelazIsti DEF RedoviOK
<1>3. CASE SaIkofom(r) = {} /\ Stari(r) # {}
  <2>1. PICK A : A = Stari(r)
    OBVIOUS
  <2>2. PICK f : f = [e \in A |-> [e EXCEPT !.ikof = TRUE]]
    OBVIOUS
  <2>3. A \subseteq kif
    BY <2>1 DEF Stari, Redovi
  <2>4. \A e \in A : f[e] \in Red /\ IstiRed(f[e], e) /\ f[e].knjizen = e.knjizen
    BY <2>2, <2>3 DEF RedoviOK, Red, IstiRed
  <2>5. Zamjena(kif, A, f)
    BY <2>2, <2>3, <2>4 DEF Zamjena
  <2>6. U = Zamijenjeni(kif, A, f)
    BY <1>1, <1>3, <2>1, <2>2 DEF Upisano, Zamijenjeni
  <2>7. /\ U \subseteq Red /\ IsFiniteSet(U) /\ Kljucevi(U)
        /\ \A S : JedanRed(kif, S) => JedanRed(U, S)
        /\ \A q : Ima(U, q) <=> Ima(kif, q)
    BY <2>5, <2>6, ZamjenaKljucevi DEF RedoviOK
  <2>8. \A x \in U : \E e \in kif : IstiRed(x, e) /\ x.knjizen = e.knjizen
    <3>1. ASSUME NEW x \in U PROVE \E e \in kif : IstiRed(x, e) /\ x.knjizen = e.knjizen
      <4>1. (x \in kif /\ x \notin A) \/ \E e \in A : x = f[e]
        BY <2>5, <2>6, ZamjenaIzvor
      <4>2. CASE x \in kif
        BY <4>2 DEF IstiRed
      <4>3. CASE \E e \in A : x = f[e]
        BY <2>3, <2>4, <4>3
      <4> QED
        BY <4>1, <4>2, <4>3
    <3> QED
      BY <3>1
  <2>9. \A e \in kif : \E x \in U : IstiRed(x, e) /\ x.knjizen = e.knjizen
    <3>1. ASSUME NEW e \in kif PROVE \E x \in U : IstiRed(x, e) /\ x.knjizen = e.knjizen
      <4>1. CASE e \in A
        <5>1. f[e] \in U
          BY <2>6, <4>1 DEF Zamijenjeni
        <5> QED
          BY <2>4, <4>1, <5>1
      <4>2. CASE e \notin A
        BY <2>6, <4>2 DEF Zamijenjeni, IstiRed
      <4> QED
        BY <4>1, <4>2
    <3> QED
      BY <3>1
  <2>10. \A w, q : Proknjizen(U, w, q) <=> Proknjizen(kif, w, q)
    BY <2>8, <2>9 DEF Proknjizen, IstiRed
  <2>11. Ima(U, r)
    BY <1>3, <2>7 DEF Stari, Redovi, Ima
  <2>12. ASSUME NEW D PROVE Prelaz(kif, D, U, D)
    BY <2>7, <2>8 DEF Prelaz, Zavrsen, IstiRed
  <2> QED
    BY <1>1, <2>7, <2>8, <2>10, <2>11, <2>12
<1>4. CASE SaIkofom(r) = {} /\ Stari(r) = {}
  <2>1. PICK n : n = NoviRed(r, i, v)
    OBVIOUS
  <2>2. n \in Red /\ n.racun = r /\ n.izvor = i /\ n.vrsta = v /\ n.knjizen = FALSE
    BY <2>1 DEF NoviRed, Red, Izvor
  <2>3. U = kif \cup {n}
    BY <1>1, <1>4, <2>1 DEF Upisano
  <2>4. Redovi(r) = {}
    BY <1>4 DEF SaIkofom, Stari
  <2>5. \A e \in kif : e.racun # r
    BY <2>4 DEF Redovi
  <2>6. U \subseteq Red /\ IsFiniteSet(U)
    BY <2>2, <2>3, FS_AddElement DEF RedoviOK
  <2>7. Kljucevi(U)
    BY <2>2, <2>3, <2>5 DEF RedoviOK, Kljucevi
  <2>8. ASSUME NEW S, JedanRed(kif, S) PROVE JedanRed(U, S)
    BY <2>2, <2>3, <2>5, <2>8 DEF JedanRed
  <2>9. \A w, q : Proknjizen(U, w, q) <=> Proknjizen(kif, w, q)
    BY <2>2, <2>3 DEF Proknjizen
  <2>10. Ima(U, r)
    BY <2>2, <2>3 DEF Ima
  <2>11. ASSUME NEW D PROVE Prelaz(kif, D, U, D)
    BY <2>2, <2>3, <2>5 DEF Prelaz, Zavrsen, Ima
  <2>12. \A x \in U : (\E e \in kif : IstiRed(x, e) /\ x.knjizen = e.knjizen) \/ x = n
    BY <2>3 DEF IstiRed
  <2> QED
    BY <1>1, <2>1, <2>4, <2>6, <2>7, <2>8, <2>9, <2>10, <2>11, <2>12
<1> QED
  BY <1>2, <1>3, <1>4

\* A change of knjizen: of the rows that are posted, or whose journal is deleted.
Promijenjeni(A, k) == {[e EXCEPT !.knjizen = k] : e \in A}

\* What U has of K after A's rows are given the flag k.
KaoPrije(K, A, k, U) ==
  /\ U \subseteq Red /\ IsFiniteSet(U) /\ Kljucevi(U)
  /\ \A S : JedanRed(K, S) => JedanRed(U, S)
  /\ \A q : Ima(U, q) <=> Ima(K, q)
  /\ \A x \in U : (x \in K /\ x \notin A) \/ \E e \in A : IstiRed(x, e) /\ x.knjizen = k
  /\ \A e \in A : \E x \in U : IstiRed(x, e) /\ x.knjizen = k

\* The rows after such a change are the rows before it.
LEMMA KnjizenjeRedova ==
  ASSUME NEW K, K \subseteq Red, IsFiniteSet(K), Kljucevi(K), NEW A, A \subseteq K, NEW k \in BOOLEAN
  PROVE  KaoPrije(K, A, k, (K \ A) \cup Promijenjeni(A, k))
<1>0. PICK U : U = (K \ A) \cup Promijenjeni(A, k)
  OBVIOUS
<1>1. PICK f : f = [e \in A |-> [e EXCEPT !.knjizen = k]]
  OBVIOUS
<1>2. \A e \in A : f[e] \in Red /\ IstiRed(f[e], e) /\ f[e].knjizen = k
  BY <1>1 DEF Red, IstiRed
<1>3. Zamjena(K, A, f)
  BY <1>1, <1>2 DEF Zamjena
<1>4. U = Zamijenjeni(K, A, f)
  BY <1>0, <1>1 DEF Promijenjeni, Zamijenjeni
<1>5. \A e \in A : f[e] \in U
  BY <1>4 DEF Zamijenjeni
<1>6. \A x \in U : (x \in K /\ x \notin A) \/ \E e \in A : x = f[e]
  BY <1>3, <1>4, ZamjenaIzvor
<1>7. /\ U \subseteq Red /\ IsFiniteSet(U) /\ Kljucevi(U)
      /\ \A S : JedanRed(K, S) => JedanRed(U, S)
      /\ \A q : Ima(U, q) <=> Ima(K, q)
  <2>1. K \subseteq Red /\ IsFiniteSet(K) /\ Kljucevi(K)
    OBVIOUS
  <2>2. PICK L : L = Zamijenjeni(K, A, f)
    OBVIOUS
  <2>3. /\ L \subseteq Red /\ IsFiniteSet(L) /\ Kljucevi(L)
        /\ \A S : JedanRed(K, S) => JedanRed(L, S)
        /\ \A q : Ima(L, q) <=> Ima(K, q)
    BY <1>3, <2>1, <2>2, ZamjenaKljucevi
  <2>4. L = U
    BY <1>4, <2>2
  <2> QED
    BY <2>3, <2>4
<1>8. KaoPrije(K, A, k, U)
  BY <1>2, <1>5, <1>6, <1>7 DEF KaoPrije
<1> QED
  BY <1>0, <1>8

---------------------------------------------------------------------------
(* What follows for the invariant when little changes *)

KnjigeOK == Kljucevi(kif) /\ JedanRed(kif, istorija.sporni) /\ UKnjigama(kif, nalog, istorija.sporni)
PosloviOK ==
  /\ Vrste(kif, istorija.dirao, podesavanje.vrsta)
  /\ Prate(kif, istorija.dirao, obrade) /\ Gotovi(kif, istorija.dirao, obrade)
RadniciOK ==
  \A p \in Proces :
    RadnikOK(radnik[p], brava = p, podesavanje.vrsta, kif, istorija.dirao, obrade)

LEMMA SepInvDijelovi ==
  SepInv <=> SepTipovi /\ KnjigeOK /\ PosloviOK /\ RadniciOK /\ KorisnikOK(korisnik, kif)
BY DEF SepInv, KnjigeOK, PosloviOK, RadniciOK

\* No typed row appears, so none that the user's request would duplicate.
BezRucnih(K, L) ==
  \A x \in L : x.izvor = "RUKA" => \E e \in K : e.racun = x.racun /\ e.izvor = "RUKA"
LEMMA KorisnikOstaje ==
  ASSUME NEW z, NEW K, NEW L, KorisnikOK(z, K), BezRucnih(K, L)
  PROVE  KorisnikOK(z, L)
BY DEF KorisnikOK, BezRucnih

LEMMA PosloviOstaju ==
  ASSUME NEW K, NEW L, NEW D, NEW E, NEW O, NEW P, NEW w, L \subseteq Red,
         Vrste(K, D, w), Prate(K, D, O), Gotovi(K, D, O),
         Prelaz(K, D, L, E), BezNovih(K, D, L, E), IstiPoslovi(O, P),
         \A d \in Dan : P[d] = "DONE" => O[d] = "DONE"
  PROVE  Vrste(L, E, w) /\ Prate(L, E, P) /\ Gotovi(L, E, P)
<1>1. Vrste(L, E, w)
  BY DEF Vrste, BezNovih, IstiRed
<1>2. Prate(L, E, P)
  <2>1. ASSUME NEW e \in Ceka(L, E) PROVE Posao(P, e.racun)
    <3>1. PICK x \in Ceka(K, D) : IstiRed(e, x)
      BY <2>1 DEF BezNovih
    <3>2. Posao(O, x.racun)
      BY <3>1 DEF Prate
    <3> QED
      BY <3>1, <3>2 DEF Posao, IstiRed, IstiPoslovi
  <2> QED
    BY <2>1 DEF Prate
<1>3. Gotovi(L, E, P)
  <2>1. ASSUME NEW d \in Dan, P[d] = "DONE", NEW r \in UDatoteci(d) \ E PROVE Zavrsen(L, r)
    <3>1. r \in UDatoteci(d) \ D /\ r \in Racun \ E
      BY <2>1 DEF Prelaz, UDatoteci
    <3>2. Zavrsen(K, r)
      BY <2>1, <3>1 DEF Gotovi
    <3> QED
      BY <3>1, <3>2 DEF Prelaz
  <2> QED
    BY <2>1 DEF Gotovi
<1> QED
  BY <1>1, <1>2, <1>3

LEMMA IstiPosloviIsti == ASSUME NEW O PROVE IstiPoslovi(O, O)
BY DEF IstiPoslovi

\* Processes that do nothing, and do not come into the lock, know what they knew.
LEMMA RadniciOstaju ==
  ASSUME SepTipovi, RadniciOK, NEW Q, Q \subseteq Proces, \A p \in Q : radnik'[p] = radnik[p],
         \A p \in Q : brava' = p => brava = p, podesavanje'.vrsta = podesavanje.vrsta,
         Prelaz(kif, istorija.dirao, kif', istorija'.dirao), IstiPoslovi(obrade, obrade'),
         \A p \in Q : brava' = p => BezNovih(kif, istorija.dirao, kif', istorija'.dirao)
  PROVE  \A p \in Q :
           RadnikOK(radnik'[p], brava' = p, podesavanje'.vrsta, kif', istorija'.dirao, obrade')
<1>1. SUFFICES ASSUME NEW p \in Q
               PROVE  RadnikOK(radnik'[p], brava' = p, podesavanje'.vrsta, kif', istorija'.dirao,
                               obrade')
  OBVIOUS
<1>2. PICK z : z = radnik[p]
  OBVIOUS
<1>3. PICK b : b = (brava = p)
  OBVIOUS
<1>4. PICK c : c = (brava' = p)
  OBVIOUS
<1>5. b \in BOOLEAN /\ c \in BOOLEAN
  BY <1>3, <1>4
<1>6. z \in Radnik0
  BY <1>2 DEF SepTipovi
<1>7. PICK w : w = podesavanje.vrsta
  OBVIOUS
<1>8. RadnikOK(z, b, w, kif, istorija.dirao, obrade)
  BY <1>2, <1>3, <1>7 DEF RadniciOK
<1>9. (c => b) /\ (c => BezNovih(kif, istorija.dirao, kif', istorija'.dirao))
  BY <1>3, <1>4
<1>10. RadnikOK(z, c, w, kif', istorija'.dirao, obrade')
  BY <1>5, <1>6, <1>8, <1>9, RadnikOstaje
<1> QED
  BY <1>1, <1>2, <1>4, <1>7, <1>10

\* A step of one process that changes only what it knows.
LEMMA SamoRadnik ==
  ASSUME SepInv, NEW p \in Proces, NEW z, Idi(p, z), z \in Radnik0,
         RadnikOK(z, brava = p, podesavanje.vrsta, kif, istorija.dirao, obrade),
         UNCHANGED <<tabele, brava, SveOstalo>>
  PROVE  SepInv'
<1>1. SepTipovi /\ KnjigeOK /\ PosloviOK /\ RadniciOK /\ KorisnikOK(korisnik, kif)
  BY SepInvDijelovi
<1>2. /\ dan' = dan /\ podesavanje' = podesavanje /\ obrade' = obrade /\ zatvoreno' = zatvoreno
      /\ kif' = kif /\ nalog' = nalog /\ brava' = brava /\ korisnik' = korisnik
      /\ istorija' = istorija /\ radnik' = [radnik EXCEPT ![p] = z]
  BY DEF tabele, SveOstalo, Idi
<1>3. radnik' \in [Proces -> Radnik0] /\ radnik'[p] = z
  BY <1>1, <1>2 DEF SepTipovi
<1>4. SepTipovi'
  BY <1>1, <1>2, <1>3 DEF SepTipovi
<1>5. KnjigeOK' /\ PosloviOK' /\ KorisnikOK(korisnik, kif)'
  BY <1>1, <1>2 DEF KnjigeOK, PosloviOK
<1>6. RadniciOK'
  BY <1>1, <1>2, <1>3 DEF RadniciOK, SepTipovi
<1> QED
  BY <1>4, <1>5, <1>6 DEF SepInv, KnjigeOK, PosloviOK, RadniciOK

\* A step that changes only the day, the flag of the closed period or the user's request.
LEMMA MirneTabele ==
  ASSUME SepInv, UNCHANGED <<podesavanje, obrade, kif, nalog, istorija, radnik, brava>>,
         dan' \in Nat, zatvoreno' \in BOOLEAN, korisnik' \in Zahtjev0, KorisnikOK(korisnik', kif)
  PROVE  SepInv'
<1>1. SepTipovi /\ KnjigeOK /\ PosloviOK /\ RadniciOK
  BY SepInvDijelovi
<1>2. /\ podesavanje' = podesavanje /\ obrade' = obrade /\ kif' = kif /\ nalog' = nalog
      /\ istorija' = istorija /\ radnik' = radnik /\ brava' = brava
  OBVIOUS
<1>3. SepTipovi'
  BY <1>1, <1>2 DEF SepTipovi
<1>4. KnjigeOK' /\ PosloviOK' /\ RadniciOK' /\ KorisnikOK(korisnik, kif)'
  BY <1>1, <1>2 DEF KnjigeOK, PosloviOK, RadniciOK
<1> QED
  BY <1>3, <1>4 DEF SepInv, KnjigeOK, PosloviOK, RadniciOK

---------------------------------------------------------------------------
(* The steps of a process that write nothing *)

Zna(z, p) == RadnikOK(z, brava = p, podesavanje.vrsta, kif, istorija.dirao, obrade)

LEMMA RadnikZna ==
  ASSUME SepInv, NEW p \in Proces
  PROVE  radnik[p] \in Radnik0 /\ Zna(radnik[p], p)
BY DEF SepInv, SepTipovi, Zna

LEMMA MiranZna ==
  ASSUME NEW b, NEW w, NEW K, NEW D, NEW O
  PROVE  Miran \in Radnik0 /\ RadnikOK(Miran, b, w, K, D, O)
<1>1. Miran \in Radnik0
  BY DEF Miran, Radnik0, Koraci
<1>2. /\ Miran.pc = "miruje" /\ Miran.vazi = FALSE /\ Miran.tekuci = {}
  BY DEF Miran
<1>3. RadnikOK(Miran, b, w, K, D, O)
  BY <1>2 DEF RadnikOK, UPoslu, Uvozi, Tekuci, Lista, Ishodi
<1> QED
  BY <1>1, <1>3

LEMMA SaGreskomZna ==
  ASSUME SepInv, NEW p \in Proces, radnik[p].pc \in UPoslu, radnik[p].pc # "upis"
  PROVE  SaGreskom(p) \in Radnik0 /\ Zna(SaGreskom(p), p)
<1>1. PICK z : z = radnik[p]
  OBVIOUS
<1>2. z \in Radnik0 /\ Zna(z, p)
  BY <1>1, RadnikZna
<1>3. PICK y : y = [z EXCEPT !.greska = TRUE, !.pc = "kraj"]
  OBVIOUS
<1>4. /\ y \in Radnik0 /\ y.pc = "kraj" /\ y.greska = TRUE /\ y.vazi = z.vazi /\ y.vrsta = z.vrsta
      /\ y.posao = z.posao /\ y.tekuci = z.tekuci
  BY <1>2, <1>3 DEF Radnik0, Koraci
<1>5. z.tekuci = {} /\ z.posao \in Dan /\ obrade[z.posao] # "NEMA" /\ (z.vazi => z.vrsta = podesavanje.vrsta)
  BY <1>1, <1>2 DEF Zna, RadnikOK, Tekuci
<1>6. Zna(y, p)
  BY <1>4, <1>5 DEF Zna, RadnikOK, Uvozi, Tekuci, Lista, Ishodi
<1> QED
  BY <1>1, <1>3, <1>4, <1>6 DEF SaGreskom

LEMMA OdustaniInv ==
  ASSUME SepInv, NEW p \in Proces, Odustani(p), UNCHANGED <<tabele, brava, SveOstalo>>
  PROVE  SepInv'
BY MiranZna, SamoRadnik DEF Odustani

LEMMA GreskaInv ==
  ASSUME SepInv, NEW p \in Proces, Idi(p, SaGreskom(p)), UNCHANGED <<tabele, brava, SveOstalo>>,
         radnik[p].pc \in UPoslu, radnik[p].pc # "upis"
  PROVE  SepInv'
<1>1. PICK y : y = SaGreskom(p)
  OBVIOUS
<1>2. y \in Radnik0 /\ Zna(y, p) /\ Idi(p, y)
  BY <1>1, SaGreskomZna
<1> QED
  BY <1>2, SamoRadnik DEF Zna

LEMMA PrekiniInv ==
  ASSUME SepInv, NEW p \in Proces, Prekini(p), UNCHANGED <<tabele, brava, SveOstalo>>,
         radnik[p].pc \in UPoslu, radnik[p].pc # "upis"
  PROVE  SepInv'
BY OdustaniInv, GreskaInv DEF Prekini

LEMMA GreskaPortalaInv ==
  ASSUME SepInv, NEW p \in Proces, GreskaPortala(p) PROVE SepInv'
BY GreskaInv DEF GreskaPortala, Kod, UPoslu

\* What the automation has yet to post is of the kind that a permitted process has read.
LEMMA CekajuOdVrste ==
  ASSUME SepInv, NEW p \in Proces, Smije(p)
  PROVE  Ceka(kif, istorija.dirao) \subseteq Cekaju(radnik[p].vrsta)
<1>1. radnik[p].vrsta = podesavanje.vrsta
  BY DEF SepInv, RadnikOK, Smije
<1> QED
  BY <1>1 DEF SepInv, Vrste, Ceka, Cekaju

LEMMA PreuzmiInv ==
  ASSUME SepInv, NEW p \in Proces, Preuzmi(p) PROVE SepInv'
<1>1. PICK z : z = radnik[p]
  OBVIOUS
<1>2. z \in Radnik0 /\ Zna(z, p) /\ z.pc = "preuzmi"
  BY <1>1, RadnikZna DEF Preuzmi, Kod
<1>3. z.posao \in Dan /\ obrade[z.posao] # "NEMA" /\ z.tekuci = {} /\ (z.vazi => z.vrsta = podesavanje.vrsta)
  BY <1>2 DEF Zna, RadnikOK, UPoslu, Tekuci
<1>4. PICK U : U = UDatoteci(z.posao)
  OBVIOUS
<1>5. PICK n : n = {r \in U : SaIkofom(r) = {}}
  OBVIOUS
<1>6. U \subseteq Racun /\ n \subseteq U
  BY <1>4, <1>5 DEF UDatoteci
<1>7. PICK g \in BOOLEAN : g = (/\ \E e \in kif : e.izvor = "AUTO" /\ e.knjizen /\ e.vrsta = z.vrsta
                                /\ nalog[z.vrsta].status # "POSTED")
  OBVIOUS
<1>8. UNCHANGED <<tabele, brava, SveOstalo>>
  BY DEF Preuzmi
<1>9. \A r \in U \ n : Ima(kif, r)
  BY <1>5 DEF SaIkofom, Redovi, Ima
<1>10. CASE Prekini(p)
  BY <1>1, <1>2, <1>8, <1>10, PrekiniInv DEF UPoslu
<1>11. CASE Idi(p, SaGreskom(p))
  BY <1>1, <1>2, <1>8, <1>11, GreskaInv DEF UPoslu
<1>12. CASE Idi(p, [z EXCEPT !.pc = "uvoz", !.preuzeto = U, !.novi = n])
  <2>1. PICK y : y = [z EXCEPT !.pc = "uvoz", !.preuzeto = U, !.novi = n]
    OBVIOUS
  <2>2. /\ y \in Radnik0 /\ y.pc = "uvoz" /\ y.preuzeto = U /\ y.novi = n /\ y.vazi = z.vazi
        /\ y.vrsta = z.vrsta /\ y.posao = z.posao /\ y.tekuci = z.tekuci /\ y.greska = z.greska
    BY <1>2, <1>6, <2>1 DEF Radnik0, Koraci
  <2>3. Uvozi(y, kif, istorija.dirao)
    BY <1>4, <1>6, <1>9, <2>2 DEF Uvozi
  <2>4. Tekuci(y) /\ Lista(y, brava = p, kif, istorija.dirao) /\ Ishodi(y, kif, istorija.dirao)
    BY <1>3, <2>2 DEF Tekuci, Lista, Ishodi
  <2>5. RadnikOK(y, brava = p, podesavanje.vrsta, kif, istorija.dirao, obrade)
    BY <1>3, <2>2, <2>3, <2>4 DEF RadnikOK
  <2> QED
    BY <1>8, <1>12, <2>1, <2>2, <2>5, SamoRadnik
<1>13. CASE /\ Smije(p) /\ n = {} /\ Cekaju(z.vrsta) = {}
            /\ Idi(p, [z EXCEPT !.pc = "kraj", !.preuzeto = U, !.greska = g])
  <2>1. PICK y : y = [z EXCEPT !.pc = "kraj", !.preuzeto = U, !.greska = g]
    OBVIOUS
  <2>2. /\ y \in Radnik0 /\ y.pc = "kraj" /\ y.preuzeto = U /\ y.vazi = z.vazi
        /\ y.vrsta = z.vrsta /\ y.posao = z.posao /\ y.tekuci = z.tekuci
    BY <1>2, <1>6, <2>1 DEF Radnik0, Koraci
  <2>3. Ceka(kif, istorija.dirao) = {}
    BY <1>1, <1>13, CekajuOdVrste
  <2>4. \A r \in U \ istorija.dirao : Zavrsen(kif, r)
    BY <1>9, <1>13, <2>3 DEF Ceka, Zavrsen
  <2>5. Ishodi(y, kif, istorija.dirao)
    BY <1>4, <2>2, <2>4 DEF Ishodi
  <2>6. Tekuci(y) /\ Lista(y, brava = p, kif, istorija.dirao) /\ Uvozi(y, kif, istorija.dirao)
    BY <1>3, <2>2 DEF Tekuci, Lista, Uvozi
  <2>7. RadnikOK(y, brava = p, podesavanje.vrsta, kif, istorija.dirao, obrade)
    BY <1>3, <2>2, <2>5, <2>6 DEF RadnikOK
  <2> QED
    BY <1>8, <1>13, <2>1, <2>2, <2>7, SamoRadnik
<1>14. ~ImaPosla(n, z.vrsta) => n = {} /\ Cekaju(z.vrsta) = {}
  BY DEF ImaPosla
<1>15. \/ Prekini(p) \/ Idi(p, SaGreskom(p))
       \/ Idi(p, [z EXCEPT !.pc = "uvoz", !.preuzeto = U, !.novi = n])
       \/ /\ Smije(p) /\ ~ImaPosla(n, z.vrsta)
          /\ Idi(p, [z EXCEPT !.pc = "kraj", !.preuzeto = U, !.greska = g])
  BY <1>1, <1>4, <1>5, <1>7 DEF Preuzmi
<1> QED
  BY <1>10, <1>11, <1>12, <1>13, <1>14, <1>15

\* The invoice that is next, taken off the list; it is known, or an error is noted.
LEMMA BezSljedecegInv ==
  ASSUME SepInv, NEW p \in Proces, radnik[p].pc = "uvoz", radnik[p].novi # {}, NEW g \in BOOLEAN,
         Idi(p, [BezSljedeceg(p) EXCEPT !.greska = g]), radnik[p].greska => g,
         g \/ SaIkofom(Sljedeci(p)) # {}, UNCHANGED <<tabele, brava, SveOstalo>>
  PROVE  SepInv'
<1>1. PICK z : z = radnik[p]
  OBVIOUS
<1>2. z \in Radnik0 /\ Zna(z, p) /\ z.pc = "uvoz"
  BY <1>1, RadnikZna
<1>3. /\ z.posao \in Dan /\ obrade[z.posao] # "NEMA" /\ z.tekuci = {}
      /\ (z.vazi => z.vrsta = podesavanje.vrsta) /\ Uvozi(z, kif, istorija.dirao)
  BY <1>2 DEF Zna, RadnikOK, UPoslu, Tekuci
<1>4. PICK s : s = Sljedeci(p)
  OBVIOUS
<1>5. PICK n : n = z.novi \ {s}
  OBVIOUS
<1>6. PICK y : y = [z EXCEPT !.novi = n, !.greska = g]
  OBVIOUS
<1>7. y = [BezSljedeceg(p) EXCEPT !.greska = g]
  BY <1>1, <1>2, <1>4, <1>5, <1>6 DEF BezSljedeceg, Radnik0
<1>8. /\ y \in Radnik0 /\ y.pc = "uvoz" /\ y.preuzeto = z.preuzeto /\ y.novi = n /\ y.vazi = z.vazi
      /\ y.vrsta = z.vrsta /\ y.posao = z.posao /\ y.tekuci = z.tekuci /\ y.greska = g
  BY <1>2, <1>5, <1>6 DEF Radnik0, Koraci
<1>9. g \/ Ima(kif, s)
  BY <1>4 DEF SaIkofom, Redovi, Ima
<1>10. Uvozi(y, kif, istorija.dirao)
  BY <1>1, <1>2, <1>3, <1>5, <1>8, <1>9 DEF Uvozi
<1>11. Tekuci(y) /\ Lista(y, brava = p, kif, istorija.dirao) /\ Ishodi(y, kif, istorija.dirao)
  BY <1>3, <1>8 DEF Tekuci, Lista, Ishodi
<1>12. RadnikOK(y, brava = p, podesavanje.vrsta, kif, istorija.dirao, obrade)
  BY <1>3, <1>8, <1>10, <1>11 DEF RadnikOK
<1> QED
  BY <1>7, <1>8, <1>12, SamoRadnik

LEMMA MaprOdbijaInv ==
  ASSUME SepInv, NEW p \in Proces, MaprOdbija(p) PROVE SepInv'
BY BezSljedecegInv DEF MaprOdbija, Kod

LEMMA ProvjeriRacunInv ==
  ASSUME SepInv, NEW p \in Proces, ProvjeriRacun(p) PROVE SepInv'
<1>1. PICK z : z = radnik[p]
  OBVIOUS
<1>2. z \in Radnik0 /\ Zna(z, p) /\ z.pc = "uvoz" /\ z.novi # {}
  BY <1>1, RadnikZna DEF ProvjeriRacun, Kod
<1>3. UNCHANGED <<tabele, brava, SveOstalo>>
  BY DEF ProvjeriRacun
<1>4. PICK s : s = Sljedeci(p)
  OBVIOUS
<1>5. s \in z.novi
  BY <1>1, <1>2, <1>4 DEF Sljedeci
<1>6. CASE Prekini(p)
  BY <1>1, <1>2, <1>3, <1>6, PrekiniInv DEF UPoslu
<1>7. CASE Idi(p, SaGreskom(p))
  BY <1>1, <1>2, <1>3, <1>7, GreskaInv DEF UPoslu
<1>8. CASE SaIkofom(s) # {} /\ Idi(p, BezSljedeceg(p))
  <2>1. PICK g \in BOOLEAN : g = z.greska
    BY <1>2 DEF Radnik0
  <2>2. BezSljedeceg(p) = [BezSljedeceg(p) EXCEPT !.greska = g]
    BY <1>1, <1>2, <2>1 DEF BezSljedeceg, Radnik0
  <2>3. Idi(p, [BezSljedeceg(p) EXCEPT !.greska = g])
    BY <1>8, <2>2
  <2> QED
    BY <1>1, <1>2, <1>3, <1>4, <1>8, <2>1, <2>3, BezSljedecegInv
<1>9. CASE Idi(p, [BezSljedeceg(p) EXCEPT !.pc = "upis", !.tekuci = {s}])
  <2>1. PICK n : n = z.novi \ {s}
    OBVIOUS
  <2>2. PICK y : y = [z EXCEPT !.novi = n, !.pc = "upis", !.tekuci = {s}]
    OBVIOUS
  <2>3. y = [BezSljedeceg(p) EXCEPT !.pc = "upis", !.tekuci = {s}]
    BY <1>1, <1>2, <1>4, <2>1, <2>2 DEF BezSljedeceg, Radnik0
  <2>4. z.novi \subseteq Racun
    BY <1>2 DEF Radnik0
  <2>5. /\ y \in Radnik0 /\ y.pc = "upis" /\ y.preuzeto = z.preuzeto /\ y.novi = n /\ y.vazi = z.vazi
        /\ y.vrsta = z.vrsta /\ y.posao = z.posao /\ y.tekuci = {s} /\ y.greska = z.greska
    BY <1>2, <1>5, <2>1, <2>2, <2>4 DEF Radnik0, Koraci
  <2>6. /\ z.posao \in Dan /\ obrade[z.posao] # "NEMA" /\ z.tekuci = {}
        /\ (z.vazi => z.vrsta = podesavanje.vrsta) /\ Uvozi(z, kif, istorija.dirao)
    BY <1>2 DEF Zna, RadnikOK, UPoslu, Tekuci
  <2>7. Uvozi(y, kif, istorija.dirao)
    BY <1>2, <2>1, <2>5, <2>6 DEF Uvozi
  <2>8. s \in y.preuzeto
    BY <1>2, <1>5, <2>5, <2>6 DEF Uvozi
  <2>9. Tekuci(y) /\ Lista(y, brava = p, kif, istorija.dirao) /\ Ishodi(y, kif, istorija.dirao)
    BY <2>5, <2>8 DEF Tekuci, Lista, Ishodi
  <2>10. RadnikOK(y, brava = p, podesavanje.vrsta, kif, istorija.dirao, obrade)
    BY <2>5, <2>6, <2>7, <2>9 DEF RadnikOK
  <2> QED
    BY <1>3, <1>9, <2>3, <2>5, <2>10, SamoRadnik
<1>10. \/ Prekini(p) \/ Idi(p, SaGreskom(p))
       \/ SaIkofom(s) # {} /\ Idi(p, BezSljedeceg(p))
       \/ Idi(p, [BezSljedeceg(p) EXCEPT !.pc = "upis", !.tekuci = {s}])
  BY <1>4 DEF ProvjeriRacun
<1> QED
  BY <1>6, <1>7, <1>8, <1>9, <1>10

LEMMA PopisiInv ==
  ASSUME SepInv, NEW p \in Proces, Popisi(p) PROVE SepInv'
<1>1. PICK z : z = radnik[p]
  OBVIOUS
<1>2. z \in Radnik0 /\ Zna(z, p) /\ z.pc = "uvoz" /\ z.novi = {}
  BY <1>1, RadnikZna DEF Popisi, Kod
<1>3. UNCHANGED <<tabele, brava, SveOstalo>>
  BY DEF Popisi
<1>4. PICK L : L = Cekaju(z.vrsta)
  OBVIOUS
<1>5. PICK k : k = IF L = {} THEN "kraj" ELSE "knjizi"
  OBVIOUS
<1>6. CASE Prekini(p)
  BY <1>1, <1>2, <1>3, <1>6, PrekiniInv DEF UPoslu
<1>7. CASE Smije(p) /\ Idi(p, [z EXCEPT !.pc = k, !.lista = L])
  <2>1. PICK y : y = [z EXCEPT !.pc = k, !.lista = L]
    OBVIOUS
  <2>2. L \subseteq Red /\ \A x \in L : x.izvor = "AUTO"
    BY <1>4 DEF Cekaju, SepInv, SepTipovi
  <2>3. /\ y \in Radnik0 /\ y.pc = k /\ y.preuzeto = z.preuzeto /\ y.novi = z.novi /\ y.vazi = z.vazi
        /\ y.vrsta = z.vrsta /\ y.posao = z.posao /\ y.tekuci = z.tekuci /\ y.greska = z.greska
        /\ y.lista = L
    BY <1>2, <1>5, <2>1, <2>2 DEF Radnik0, Koraci
  <2>4. /\ z.posao \in Dan /\ obrade[z.posao] # "NEMA" /\ z.tekuci = {}
        /\ (z.vazi => z.vrsta = podesavanje.vrsta) /\ Uvozi(z, kif, istorija.dirao)
    BY <1>2 DEF Zna, RadnikOK, UPoslu, Tekuci
  <2>5. Ceka(kif, istorija.dirao) \subseteq L
    BY <1>1, <1>4, <1>7, CekajuOdVrste
  <2>6. Uvozi(y, kif, istorija.dirao) /\ Tekuci(y)
    BY <1>2, <1>5, <2>3, <2>4 DEF Uvozi, Tekuci
  <2>7. Lista(y, brava = p, kif, istorija.dirao)
    BY <1>2, <2>2, <2>3, <2>5 DEF Lista, ImaPar
  <2>8. ASSUME k = "kraj", ~z.greska, NEW r \in z.preuzeto \ istorija.dirao PROVE Zavrsen(kif, r)
    <3>1. L = {}
      BY <1>5, <2>8
    <3>2. Ima(kif, r)
      BY <1>2, <2>4, <2>8 DEF Uvozi
    <3> QED
      BY <2>5, <2>8, <3>1, <3>2 DEF Ceka, Zavrsen
  <2>9. Ishodi(y, kif, istorija.dirao)
    BY <1>2, <1>5, <2>3, <2>4, <2>8 DEF Ishodi, Uvozi
  <2>10. RadnikOK(y, brava = p, podesavanje.vrsta, kif, istorija.dirao, obrade)
    BY <2>3, <2>4, <2>6, <2>7, <2>9 DEF RadnikOK
  <2> QED
    BY <1>3, <1>7, <2>1, <2>3, <2>10, SamoRadnik
<1> QED
  BY <1>1, <1>4, <1>5, <1>6, <1>7 DEF Popisi

LEMMA ProvjeriInv ==
  ASSUME SepInv, NEW p \in Proces, Provjeri(p) PROVE SepInv'
<1>1. PICK z : z = radnik[p]
  OBVIOUS
<1>2. z \in Radnik0 /\ Zna(z, p) /\ z.pc = "kraj"
  BY <1>1, RadnikZna DEF Provjeri, Kod
<1>3. UNCHANGED <<tabele, brava, SveOstalo>>
  BY DEF Provjeri
<1>4. CASE Odustani(p)
  BY <1>3, <1>4, OdustaniInv
<1>5. CASE Idi(p, [z EXCEPT !.pc = "status"])
  <2>1. PICK y : y = [z EXCEPT !.pc = "status"]
    OBVIOUS
  <2>2. /\ y \in Radnik0 /\ y.pc = "status" /\ y.preuzeto = z.preuzeto /\ y.vazi = z.vazi
        /\ y.vrsta = z.vrsta /\ y.posao = z.posao /\ y.tekuci = z.tekuci /\ y.greska = z.greska
    BY <1>2, <2>1 DEF Radnik0, Koraci
  <2>3. RadnikOK(y, brava = p, podesavanje.vrsta, kif, istorija.dirao, obrade)
    BY <1>2, <2>2 DEF Zna, RadnikOK, UPoslu, Uvozi, Tekuci, Lista, Ishodi
  <2> QED
    BY <1>3, <1>5, <2>1, <2>2, <2>3, SamoRadnik
<1> QED
  BY <1>1, <1>4, <1>5 DEF Provjeri

---------------------------------------------------------------------------
(* Postings *)

KnjigeTip(K, N) ==
  K \subseteq Red /\ IsFiniteSet(K) /\ N \in [Vrsta -> [status : Statusi, stavke : [Racun -> Nat]]]
KnjigeU(K, N, S) == Kljucevi(K) /\ JedanRed(K, S) /\ UKnjigama(K, N, S)

LEMMA KnjigeSada ==
  ASSUME SepInv
  PROVE  /\ KnjigeTip(kif, nalog) /\ KnjigeU(kif, nalog, istorija.sporni) /\ RedoviOK
         /\ istorija.dirao \subseteq Racun /\ istorija.sporni \subseteq Racun
BY DEF SepInv, SepTipovi, KnjigeTip, KnjigeU, RedoviOK

\* The number of rows of an invoice that are posted.
LEMMA BrojRedova ==
  ASSUME SepInv, NEW A, A \subseteq kif, NEW r \in Racun
  PROVE  /\ Cardinality({e \in A : e.racun = r}) \in Nat
         /\ r \notin istorija.sporni =>
              Cardinality({e \in A : e.racun = r}) = IF \E e \in A : e.racun = r THEN 1 ELSE 0
<1>1. PICK B : B = {e \in A : e.racun = r}
  OBVIOUS
<1>2. IsFiniteSet(B)
  <2>1. B \subseteq kif
    BY <1>1
  <2> QED
    BY <2>1, KnjigeSada, FS_Subset DEF KnjigeTip
<1>3. Cardinality(B) \in Nat
  BY <1>2, FS_CardinalityType
<1>4. ASSUME r \notin istorija.sporni
      PROVE  Cardinality(B) = IF \E e \in A : e.racun = r THEN 1 ELSE 0
  <2>1. \A e, x \in B : e = x
    BY <1>1, <1>4, KnjigeSada DEF KnjigeU, JedanRed
  <2>2. Cardinality(B) \in {0, 1} /\ (Cardinality(B) = 1 <=> B # {})
    BY <2>1, JedanIliNijedan
  <2>3. B # {} <=> \E e \in A : e.racun = r
    BY <1>1
  <2> QED
    BY <2>2, <2>3
<1> QED
  BY <1>1, <1>3, <1>4

\* Rows of one kind that were not posted are.
LEMMA ProknjiziKnjige ==
  ASSUME SepInv, NEW v \in Vrsta, NEW A, A \subseteq kif, \A e \in A : e.vrsta = v /\ ~e.knjizen,
         NEW s \in Statusi, Proknjizi(v, A, s)
  PROVE  /\ KnjigeTip(kif', nalog') /\ KnjigeU(kif', nalog', istorija.sporni)
         /\ Prelaz(kif, istorija.dirao, kif', istorija.dirao)
         /\ Ceka(kif', istorija.dirao) \subseteq Ceka(kif, istorija.dirao) \ A
         /\ BezRucnih(kif, kif')
<1>1. PICK K, L, N, M, D, S : K = kif /\ L = kif' /\ N = nalog /\ M = nalog' /\ D = istorija.dirao
                              /\ S = istorija.sporni
  OBVIOUS
<1>2. /\ K \subseteq Red /\ RedoviOK /\ KnjigeU(K, N, S)
      /\ N \in [Vrsta -> [status : Statusi, stavke : [Racun -> Nat]]]
  BY <1>1, KnjigeSada DEF KnjigeTip
<1>3. L = (K \ A) \cup Promijenjeni(A, TRUE)
  BY <1>1 DEF Proknjizi, Promijenjeni
<1>4. /\ L \subseteq Red /\ IsFiniteSet(L) /\ Kljucevi(L)
      /\ \A T : JedanRed(K, T) => JedanRed(L, T)
      /\ \A q : Ima(L, q) <=> Ima(K, q)
      /\ \A x \in L : (x \in K /\ x \notin A) \/ \E e \in A : IstiRed(x, e) /\ x.knjizen = TRUE
      /\ \A e \in A : \E x \in L : IstiRed(x, e) /\ x.knjizen = TRUE
  <2>1. K \subseteq Red /\ IsFiniteSet(K) /\ Kljucevi(K)
    BY <1>1, <1>2 DEF RedoviOK
  <2>2. KaoPrije(K, A, TRUE, (K \ A) \cup Promijenjeni(A, TRUE))
    BY <1>1, <2>1, KnjizenjeRedova
  <2> QED
    BY <1>3, <2>2 DEF KaoPrije
<1>5. PICK c : c = [r \in Racun |-> Cardinality({e \in A : e.racun = r})]
  OBVIOUS
<1>6. \A r \in Racun : /\ c[r] \in Nat
                       /\ r \notin S => c[r] = IF \E e \in A : e.racun = r THEN 1 ELSE 0
  BY <1>1, <1>5, BrojRedova
<1>7. M = [N EXCEPT ![v].status = s, ![v].stavke = [r \in Racun |-> @[r] + c[r]]]
  BY <1>1, <1>5 DEF Proknjizi
<1>8. M \in [Vrsta -> [status : Statusi, stavke : [Racun -> Nat]]]
  <2>1. [r \in Racun |-> N[v].stavke[r] + c[r]] \in [Racun -> Nat]
    BY <1>2, <1>6
  <2> QED
    BY <1>2, <1>7, <2>1
<1>9. /\ \A r \in Racun : M[v].stavke[r] = N[v].stavke[r] + c[r]
      /\ \A u \in Vrsta \ {v} : M[u] = N[u]
  BY <1>2, <1>7
<1>10. UKnjigama(L, M, S)
  <2>1. ASSUME NEW r \in Racun \ S, NEW u \in Vrsta
        PROVE  M[u].stavke[r] = IF Proknjizen(L, u, r) THEN 1 ELSE 0
    <3>1. N[u].stavke[r] = IF Proknjizen(K, u, r) THEN 1 ELSE 0
      BY <1>2, <2>1 DEF KnjigeU, UKnjigama
    <3>2. Proknjizen(K, u, r) => Proknjizen(L, u, r)
      <4>1. \A e \in K : e.knjizen => e \notin A
        OBVIOUS
      <4> QED
        BY <1>3, <4>1 DEF Proknjizen
    <3>3. CASE u # v
      <4>1. Proknjizen(L, u, r) => Proknjizen(K, u, r)
        BY <1>4, <3>3 DEF Proknjizen, IstiRed
      <4> QED
        BY <1>9, <2>1, <3>1, <3>2, <3>3, <4>1
    <3>4. CASE u = v /\ ~\E e \in A : e.racun = r
      <4>1. Proknjizen(L, u, r) => Proknjizen(K, u, r)
        BY <1>4, <3>4 DEF Proknjizen, IstiRed
      <4>2. c[r] = 0 /\ M[u].stavke[r] = N[u].stavke[r] + 0
        BY <1>6, <1>9, <2>1, <3>4
      <4> QED
        BY <3>1, <3>2, <4>1, <4>2
    <3>5. CASE u = v /\ \E e \in A : e.racun = r
      <4>1. PICK e \in A : e.racun = r
        BY <3>5
      <4>2. \A x \in K : x.racun = r => x = e
        BY <1>1, <1>2, <2>1, <4>1 DEF KnjigeU, JedanRed
      <4>3. ~Proknjizen(K, u, r)
        BY <4>1, <4>2 DEF Proknjizen
      <4>4. Proknjizen(L, u, r)
        BY <1>4, <3>5, <4>1 DEF Proknjizen, IstiRed
      <4>5. c[r] = 1
        BY <1>6, <2>1, <3>5
      <4>6. N[u].stavke[r] = 0
        BY <3>1, <4>3
      <4>7. M[u].stavke[r] = 0 + 1
        BY <1>9, <2>1, <3>5, <4>5, <4>6
      <4> QED
        BY <4>4, <4>7
    <3> QED
      BY <3>3, <3>4, <3>5
  <2> QED
    BY <2>1 DEF UKnjigama
<1>11. KnjigeTip(L, M) /\ KnjigeU(L, M, S)
  BY <1>2, <1>4, <1>8, <1>10 DEF KnjigeTip, KnjigeU
<1>12. Prelaz(K, D, L, D)
  BY <1>4 DEF Prelaz, Zavrsen
<1>13. Ceka(L, D) \subseteq Ceka(K, D) \ A
  BY <1>4 DEF Ceka
<1>14. BezRucnih(K, L)
  BY <1>1, <1>4 DEF BezRucnih, IstiRed
<1> QED
  BY <1>1, <1>11, <1>12, <1>13, <1>14

---------------------------------------------------------------------------
(* The steps of a process that write *)

\* What a step of one process has to keep, with or without a change of the book.
LEMMA PisiRadnik ==
  ASSUME SepInv, NEW p \in Proces, NEW z \in Radnik0, Idi(p, z),
         UNCHANGED <<podesavanje, zatvoreno, SveOstalo>>,
         brava' \in Proces \cup {Niko}, \A q \in Proces \ {p} : brava' = q => brava = q,
         obrade' \in [Dan -> Obrade0], IstiPoslovi(obrade, obrade'),
         KnjigeTip(kif', nalog'), KnjigeU(kif', nalog', istorija.sporni),
         Prelaz(kif, istorija.dirao, kif', istorija.dirao), BezRucnih(kif, kif'),
         \A q \in Proces \ {p} : brava' = q => BezNovih(kif, istorija.dirao, kif', istorija.dirao),
         Vrste(kif', istorija.dirao, podesavanje.vrsta), Prate(kif', istorija.dirao, obrade'),
         Gotovi(kif', istorija.dirao, obrade'),
         RadnikOK(z, brava' = p, podesavanje.vrsta, kif', istorija.dirao, obrade')
  PROVE  SepInv'
<1>1. SepTipovi /\ KnjigeOK /\ PosloviOK /\ RadniciOK /\ KorisnikOK(korisnik, kif)
  BY SepInvDijelovi
<1>2. /\ dan' = dan /\ podesavanje' = podesavanje /\ zatvoreno' = zatvoreno
      /\ korisnik' = korisnik /\ istorija' = istorija /\ radnik' = [radnik EXCEPT ![p] = z]
  BY DEF SveOstalo, Idi
<1>3. radnik' \in [Proces -> Radnik0] /\ radnik'[p] = z
      /\ \A q \in Proces \ {p} : radnik'[q] = radnik[q]
  BY <1>1, <1>2 DEF SepTipovi
<1>4. SepTipovi'
  BY <1>1, <1>2, <1>3 DEF SepTipovi, KnjigeTip
<1>5. KnjigeOK'
  BY <1>2 DEF KnjigeOK, KnjigeU
<1>6. PosloviOK'
  BY <1>2 DEF PosloviOK
<1>7. KorisnikOK(korisnik, kif)'
  BY <1>1, <1>2, KorisnikOstaje
<1>8. \A q \in Proces \ {p} :
        RadnikOK(radnik'[q], brava' = q, podesavanje'.vrsta, kif', istorija'.dirao, obrade')
  <2>1. PICK Q : Q = Proces \ {p}
    OBVIOUS
  <2>2. Prelaz(kif, istorija.dirao, kif', istorija'.dirao)
    BY <1>2
  <2>3. /\ Q \subseteq Proces /\ \A q \in Q : radnik'[q] = radnik[q]
        /\ \A q \in Q : brava' = q => brava = q
        /\ \A q \in Q : brava' = q => BezNovih(kif, istorija.dirao, kif', istorija'.dirao)
    BY <1>2, <1>3, <2>1
  <2>4. podesavanje'.vrsta = podesavanje.vrsta
    BY <1>2
  <2> QED
    BY <1>1, <2>1, <2>2, <2>3, <2>4, RadniciOstaju
<1>9. RadnikOK(radnik'[p], brava' = p, podesavanje'.vrsta, kif', istorija'.dirao, obrade')
  BY <1>2, <1>3
<1>10. RadniciOK'
  BY <1>8, <1>9 DEF RadniciOK
<1> QED
  BY <1>4, <1>5, <1>6, <1>7, <1>10 DEF SepInv, KnjigeOK, PosloviOK, RadniciOK

\* The same when the book is as it was, and no job is done.
LEMMA PisiPosao ==
  ASSUME SepInv, NEW p \in Proces, NEW z \in Radnik0, Idi(p, z),
         UNCHANGED <<podesavanje, zatvoreno, kif, nalog, SveOstalo>>,
         brava' \in Proces \cup {Niko}, \A q \in Proces \ {p} : brava' = q => brava = q,
         obrade' \in [Dan -> Obrade0], IstiPoslovi(obrade, obrade'),
         \A d \in Dan : obrade'[d] = "DONE" =>
           obrade[d] = "DONE" \/ \A r \in UDatoteci(d) \ istorija.dirao : Zavrsen(kif, r),
         RadnikOK(z, brava' = p, podesavanje.vrsta, kif, istorija.dirao, obrade')
  PROVE  SepInv'
<1>1. KnjigeTip(kif, nalog) /\ KnjigeU(kif, nalog, istorija.sporni)
  BY KnjigeSada
<1>2. kif' = kif /\ nalog' = nalog
  OBVIOUS
<1>3. Prelaz(kif, istorija.dirao, kif, istorija.dirao)
      /\ BezNovih(kif, istorija.dirao, kif, istorija.dirao)
  BY PrelazIsti
<1>4. BezRucnih(kif, kif)
  BY DEF BezRucnih
<1>5. Vrste(kif, istorija.dirao, podesavanje.vrsta) /\ Gotovi(kif, istorija.dirao, obrade)
      /\ Prate(kif, istorija.dirao, obrade)
  BY DEF SepInv
<1>6. Gotovi(kif, istorija.dirao, obrade')
  BY <1>5 DEF Gotovi
<1>7. Prate(kif, istorija.dirao, obrade')
  BY <1>5 DEF Prate, Posao, IstiPoslovi
<1>8. UNCHANGED <<podesavanje, zatvoreno, SveOstalo>>
  OBVIOUS
<1> QED
  BY <1>1, <1>2, <1>3, <1>4, <1>5, <1>6, <1>7, <1>8, PisiRadnik

LEMMA UzmiInv ==
  ASSUME SepInv, NEW p \in Proces, Uzmi(p) PROVE SepInv'
<1>1. PICK X : X = {x \in Dan : /\ x = dan \/ (PrviUMjesecu(x) /\ x < dan)
                                /\ obrade[x] = "NEMA"
                                /\ podesavanje.od < x}
  OBVIOUS
<1>2. PICK J : J = Nezavrseni(dan) \cup X
  OBVIOUS
<1>3. PICK z : z = [Miran EXCEPT !.pc = "red", !.vazi = TRUE, !.vrsta = podesavanje.vrsta,
                                 !.poslovi = J]
  OBVIOUS
<1>4. /\ brava' = p /\ Idi(p, z) /\ UNCHANGED <<podesavanje, zatvoreno, kif, nalog, SveOstalo>>
      /\ obrade' = [x \in Dan |-> IF x \in X THEN "PENDING" ELSE obrade[x]]
  BY <1>1, <1>2, <1>3 DEF Uzmi
<1>5. J \subseteq Dan
  BY <1>1, <1>2 DEF Nezavrseni
<1>6. podesavanje.vrsta \in Vrsta /\ obrade \in [Dan -> Obrade0]
  BY DEF SepInv, SepTipovi
<1>7. /\ z \in Radnik0 /\ z.pc = "red" /\ z.vrsta = podesavanje.vrsta /\ z.tekuci = {}
  BY <1>3, <1>5, <1>6, MiranZna DEF Radnik0, Koraci, Miran
<1>8. RadnikOK(z, brava' = p, podesavanje.vrsta, kif, istorija.dirao, obrade')
  BY <1>7 DEF RadnikOK, UPoslu, Uvozi, Tekuci, Lista, Ishodi
<1>9. obrade' \in [Dan -> Obrade0] /\ IstiPoslovi(obrade, obrade')
      /\ \A d \in Dan : obrade'[d] = "DONE" => obrade[d] = "DONE"
  BY <1>4, <1>6 DEF Obrade0, IstiPoslovi
<1>10. brava' \in Proces \cup {Niko} /\ \A q \in Proces \ {p} : brava' = q => brava = q
  BY <1>4
<1> QED
  BY <1>4, <1>7, <1>8, <1>9, <1>10, PisiPosao

\* A set of days has a first one.
LEMMA PrviDan ==
  ASSUME NEW J, J \subseteq Nat, J # {}
  PROVE  \E x \in J : \A y \in J : x <= y
<1>1. PICK m \in J : TRUE
  OBVIOUS
<1>2. PICK S : S = 0..m
  OBVIOUS
<1>3. IsFiniteSet(S)
  BY <1>1, <1>2, FS_Interval
<1>4. PICK T : T = {t \in SUBSET S : \E x \in J : t = 0..x}
  OBVIOUS
<1>5. T \in SUBSET SUBSET S /\ S \in T
  BY <1>1, <1>2, <1>4
<1>6. PICK t \in T : \A u \in T : u \subseteq t => u = t
  BY <1>3, <1>5, NajmanjiPodskup
<1>7. PICK x \in J : t = 0..x
  BY <1>4, <1>6
<1>8. ASSUME NEW y \in J, ~(x <= y) PROVE FALSE
  <2>1. y < x /\ 0..y \subseteq t
    BY <1>7, <1>8
  <2>2. 0..y \in T
    BY <1>4, <1>6, <2>1
  <2>3. x \in 0..x /\ x \notin 0..y
    BY <1>7, <2>1
  <2> QED
    BY <1>6, <1>7, <2>1, <2>2, <2>3
<1> QED
  BY <1>7, <1>8

LEMMA PocniPosaoInv ==
  ASSUME SepInv, NEW p \in Proces, PocniPosao(p) PROVE SepInv'
<1>1. PICK z : z = radnik[p]
  OBVIOUS
<1>2. z \in Radnik0 /\ Zna(z, p) /\ z.pc = "red" /\ z.poslovi # {} /\ z.poslovi \subseteq Dan
  BY <1>1, RadnikZna DEF PocniPosao, Kod, Radnik0
<1>3. z.tekuci = {} /\ (z.vazi => z.vrsta = podesavanje.vrsta)
  BY <1>2 DEF Zna, RadnikOK, Tekuci
<1>4. PICK d : d = CHOOSE x \in z.poslovi : \A y \in z.poslovi : x <= y
  OBVIOUS
<1>5. d \in z.poslovi
  <2>1. \E x \in z.poslovi : \A y \in z.poslovi : x <= y
    BY <1>2, PrviDan, SepPretpostavke
  <2> QED
    BY <1>4, <2>1
<1>6. PICK J : J = z.poslovi \ {d}
  OBVIOUS
<1>7. UNCHANGED <<podesavanje, zatvoreno, kif, nalog, brava, SveOstalo>>
  BY DEF PocniPosao
<1>8. obrade \in [Dan -> Obrade0] /\ brava \in Proces \cup {Niko}
  BY DEF SepInv, SepTipovi
<1>9. CASE /\ obrade' = [obrade EXCEPT ![d] = "RUNNING"]
           /\ Idi(p, [z EXCEPT !.pc = "preuzmi", !.posao = d, !.poslovi = J, !.greska = FALSE])
  <2>1. PICK y : y = [z EXCEPT !.pc = "preuzmi", !.posao = d, !.poslovi = J, !.greska = FALSE]
    OBVIOUS
  <2>2. d \in Dan /\ d \in Nat /\ J \subseteq Dan
    BY <1>2, <1>5, <1>6, SepPretpostavke
  <2>3. /\ y \in Radnik0 /\ y.pc = "preuzmi" /\ y.posao = d /\ y.vazi = z.vazi /\ y.vrsta = z.vrsta
        /\ y.tekuci = z.tekuci
    BY <1>2, <2>1, <2>2 DEF Radnik0, Koraci
  <2>4. /\ obrade' \in [Dan -> Obrade0] /\ IstiPoslovi(obrade, obrade') /\ obrade'[d] # "NEMA"
        /\ \A x \in Dan : obrade'[x] = "DONE" => obrade[x] = "DONE"
    BY <1>8, <1>9, <2>2 DEF Obrade0, IstiPoslovi
  <2>5. RadnikOK(y, brava' = p, podesavanje.vrsta, kif, istorija.dirao, obrade')
    BY <1>3, <2>2, <2>3, <2>4 DEF RadnikOK, UPoslu, Uvozi, Tekuci, Lista, Ishodi
  <2>6. brava' \in Proces \cup {Niko} /\ \A q \in Proces \ {p} : brava' = q => brava = q
    BY <1>7, <1>8
  <2>7. UNCHANGED <<podesavanje, zatvoreno, kif, nalog, SveOstalo>>
    BY <1>7
  <2> QED
    BY <1>9, <2>1, <2>3, <2>4, <2>5, <2>6, <2>7, PisiPosao
<1>10. CASE Idi(p, [z EXCEPT !.poslovi = J]) /\ UNCHANGED obrade
  <2>1. PICK y : y = [z EXCEPT !.poslovi = J]
    OBVIOUS
  <2>2. J \subseteq Dan
    BY <1>2, <1>6
  <2>3. /\ y \in Radnik0 /\ y.pc = "red" /\ y.vazi = z.vazi /\ y.vrsta = z.vrsta
        /\ y.tekuci = z.tekuci
    BY <1>2, <2>1, <2>2 DEF Radnik0
  <2>4. RadnikOK(y, brava = p, podesavanje.vrsta, kif, istorija.dirao, obrade)
    BY <1>3, <2>3 DEF RadnikOK, UPoslu, Uvozi, Tekuci, Lista, Ishodi
  <2>5. UNCHANGED <<tabele, brava, SveOstalo>>
    BY <1>7, <1>10 DEF tabele
  <2> QED
    BY <1>10, <2>1, <2>3, <2>4, <2>5, SamoRadnik
<1>11. CASE Odustani(p) /\ UNCHANGED obrade
  <2>1. UNCHANGED <<tabele, brava, SveOstalo>>
    BY <1>7, <1>11 DEF tabele
  <2> QED
    BY <1>11, <2>1, OdustaniInv
<1>12. \/ /\ obrade' = [obrade EXCEPT ![d] = "RUNNING"]
          /\ Idi(p, [z EXCEPT !.pc = "preuzmi", !.posao = d, !.poslovi = J, !.greska = FALSE])
       \/ Idi(p, [z EXCEPT !.poslovi = J]) /\ UNCHANGED obrade
       \/ Odustani(p) /\ UNCHANGED obrade
  BY <1>1, <1>4, <1>6 DEF PocniPosao
<1> QED
  BY <1>9, <1>10, <1>11, <1>12

LEMMA ZavrsiRedInv ==
  ASSUME SepInv, NEW p \in Proces, ZavrsiRed(p) PROVE SepInv'
<1>1. /\ UNCHANGED <<podesavanje, zatvoreno, kif, nalog, SveOstalo>> /\ obrade' = obrade
      /\ Idi(p, Miran) /\ brava' = IF Ziv(p) THEN Niko ELSE brava
  BY DEF ZavrsiRed, tabele, Odustani
<1>2. obrade \in [Dan -> Obrade0] /\ brava \in Proces \cup {Niko}
  BY DEF SepInv, SepTipovi
<1>3. obrade' \in [Dan -> Obrade0] /\ IstiPoslovi(obrade, obrade')
      /\ \A d \in Dan : obrade'[d] = "DONE" => obrade[d] = "DONE"
  BY <1>1, <1>2 DEF IstiPoslovi
<1>4. brava' \in Proces \cup {Niko} /\ \A q \in Proces \ {p} : brava' = q => brava = q
  BY <1>1, <1>2, SepPretpostavke
<1>5. Miran \in Radnik0 /\ RadnikOK(Miran, brava' = p, podesavanje.vrsta, kif, istorija.dirao, obrade')
  BY MiranZna
<1> QED
  BY <1>1, <1>3, <1>4, <1>5, PisiPosao

LEMMA UpisiStatusInv ==
  ASSUME SepInv, NEW p \in Proces, UpisiStatus(p) PROVE SepInv'
<1>1. PICK z : z = radnik[p]
  OBVIOUS
<1>2. z \in Radnik0 /\ Zna(z, p) /\ z.pc = "status"
  BY <1>1, RadnikZna DEF UpisiStatus, Kod
<1>3. PICK y : y = [z EXCEPT !.pc = "red", !.posao = 0, !.preuzeto = {}, !.novi = {}, !.lista = {}]
  OBVIOUS
<1>4. PICK s : s = IF z.greska THEN "REVIEW" ELSE "DONE"
  OBVIOUS
<1>5. /\ UNCHANGED <<podesavanje, zatvoreno, kif, nalog, brava, SveOstalo>>
      /\ obrade' = [obrade EXCEPT ![z.posao] = s] /\ Idi(p, y)
  BY <1>1, <1>3, <1>4 DEF UpisiStatus, Ishod
<1>6. obrade \in [Dan -> Obrade0] /\ brava \in Proces \cup {Niko}
  BY DEF SepInv, SepTipovi
<1>7. /\ y \in Radnik0 /\ y.pc = "red" /\ y.vazi = z.vazi /\ y.vrsta = z.vrsta /\ y.tekuci = z.tekuci
  BY <1>2, <1>3 DEF Radnik0, Koraci
<1>8. z.posao \in Dan /\ z.tekuci = {} /\ (z.vazi => z.vrsta = podesavanje.vrsta)
      /\ Ishodi(z, kif, istorija.dirao)
  BY <1>2 DEF Zna, RadnikOK, UPoslu, Tekuci
<1>9. obrade' \in [Dan -> Obrade0] /\ IstiPoslovi(obrade, obrade')
  BY <1>4, <1>5, <1>6, <1>8 DEF Obrade0, IstiPoslovi
<1>10. ASSUME NEW d \in Dan, obrade'[d] = "DONE", obrade[d] # "DONE", NEW r \in UDatoteci(d) \ istorija.dirao
       PROVE  Zavrsen(kif, r)
  <2>1. d = z.posao /\ ~z.greska
    BY <1>4, <1>5, <1>6, <1>8, <1>10
  <2> QED
    BY <1>2, <1>8, <1>10, <2>1 DEF Ishodi
<1>11. RadnikOK(y, brava' = p, podesavanje.vrsta, kif, istorija.dirao, obrade')
  BY <1>7, <1>8 DEF RadnikOK, UPoslu, Uvozi, Tekuci, Lista, Ishodi
<1>12. brava' \in Proces \cup {Niko} /\ \A q \in Proces \ {p} : brava' = q => brava = q
  BY <1>5, <1>6
<1>13. UNCHANGED <<podesavanje, zatvoreno, kif, nalog, SveOstalo>>
  BY <1>5
<1> QED
  BY <1>5, <1>7, <1>9, <1>10, <1>11, <1>12, <1>13, PisiPosao

LEMMA UpisiRacunInv ==
  ASSUME SepInv, NEW p \in Proces, NEW r \in Racun, UpisiRacun(p, r) PROVE SepInv'
<1>1. PICK z : z = radnik[p]
  OBVIOUS
<1>2. z \in Radnik0 /\ Zna(z, p) /\ z.pc = "upis" /\ z.tekuci = {r}
  BY <1>1, RadnikZna DEF UpisiRacun, Kod
<1>3. /\ z.posao \in Dan /\ obrade[z.posao] # "NEMA" /\ r \in z.preuzeto
      /\ (z.vazi => z.vrsta = podesavanje.vrsta) /\ Uvozi(z, kif, istorija.dirao)
  BY <1>2 DEF Zna, RadnikOK, UPoslu, Tekuci
<1>4. UNCHANGED <<podesavanje, obrade, zatvoreno, nalog, brava, SveOstalo>>
  BY DEF UpisiRacun
<1>5. z.preuzeto = UDatoteci(z.posao) /\ z.novi \subseteq z.preuzeto
  BY <1>2, <1>3 DEF Uvozi
<1>6. CASE Odustani(p) /\ UNCHANGED kif
  <2>1. UNCHANGED <<tabele, brava, SveOstalo>>
    BY <1>4, <1>6 DEF tabele
  <2> QED
    BY <1>6, <2>1, OdustaniInv
<1>7. CASE Idi(p, [z EXCEPT !.pc = "uvoz", !.tekuci = {}, !.greska = TRUE]) /\ UNCHANGED kif
  <2>1. PICK y : y = [z EXCEPT !.pc = "uvoz", !.tekuci = {}, !.greska = TRUE]
    OBVIOUS
  <2>2. /\ y \in Radnik0 /\ y.pc = "uvoz" /\ y.preuzeto = z.preuzeto /\ y.novi = z.novi
        /\ y.vazi = z.vazi /\ y.vrsta = z.vrsta /\ y.posao = z.posao /\ y.tekuci = {} /\ y.greska = TRUE
    BY <1>2, <2>1 DEF Radnik0, Koraci
  <2>3. RadnikOK(y, brava = p, podesavanje.vrsta, kif, istorija.dirao, obrade)
    BY <1>3, <1>5, <2>2 DEF RadnikOK, Uvozi, Tekuci, Lista, Ishodi
  <2>4. UNCHANGED <<tabele, brava, SveOstalo>>
    BY <1>4, <1>7 DEF tabele
  <2> QED
    BY <1>7, <2>1, <2>2, <2>3, <2>4, SamoRadnik
<1>8. CASE /\ Smije(p) /\ kif' = Upisano(r, "AUTO", z.vrsta)
           /\ Idi(p, [z EXCEPT !.pc = "uvoz", !.tekuci = {}])
  <2>1. PICK y : y = [z EXCEPT !.pc = "uvoz", !.tekuci = {}]
    OBVIOUS
  <2>2. /\ y \in Radnik0 /\ y.pc = "uvoz" /\ y.preuzeto = z.preuzeto /\ y.novi = z.novi
        /\ y.vazi = z.vazi /\ y.vrsta = z.vrsta /\ y.posao = z.posao /\ y.tekuci = {} /\ y.greska = z.greska
    BY <1>2, <2>1 DEF Radnik0, Koraci
  <2>3. PICK L, D, w : L = kif' /\ D = istorija.dirao /\ w = podesavanje.vrsta
    OBVIOUS
  <2>4. z.vrsta = w /\ w \in Vrsta
    BY <1>1, <1>3, <1>8, <2>3 DEF Smije, SepInv, SepTipovi
  <2>5. /\ L \subseteq Red /\ IsFiniteSet(L) /\ Kljucevi(L)
        /\ \A S : JedanRed(kif, S) => JedanRed(L, S)
        /\ \A u, q : Proknjizen(L, u, q) <=> Proknjizen(kif, u, q)
        /\ Ima(L, r)
        /\ Prelaz(kif, D, L, D)
        /\ \A x \in L : (\E e \in kif : IstiRed(x, e) /\ x.knjizen = e.knjizen)
                        \/ (x = NoviRed(r, "AUTO", w) /\ Redovi(r) = {})
    BY <1>8, <2>3, <2>4, KnjigeSada, UpisanoRedovi
  <2>6. \A x \in Ceka(L, D) : (\E e \in Ceka(kif, D) : IstiRed(x, e)) \/ (x.racun = r /\ x.vrsta = w)
    BY <2>5 DEF Ceka, IstiRed, NoviRed
  <2>7. Vrste(kif, D, w) /\ Prate(kif, D, obrade) /\ Gotovi(kif, D, obrade)
    BY <2>3 DEF SepInv
  <2>8. Vrste(L, D, w)
    BY <2>6, <2>7 DEF Vrste, IstiRed
  <2>9. Prate(L, D, obrade)
    <3>1. Posao(obrade, r)
      BY <1>3, <1>5 DEF Posao, UDatoteci
    <3> QED
      BY <2>6, <2>7, <3>1 DEF Prate, IstiRed
  <2>10. Gotovi(L, D, obrade)
    BY <2>5, <2>7 DEF Gotovi, Prelaz, UDatoteci
  <2>11. BezRucnih(kif, L)
    BY <2>5 DEF BezRucnih, IstiRed, NoviRed
  <2>12. Uvozi(y, L, D)
    <3>1. z.greska \/ \A q \in z.preuzeto \ D : q \in z.novi \cup z.tekuci \/ Ima(kif, q)
      BY <1>2, <1>3, <2>3 DEF Uvozi
    <3>2. \A q \in z.preuzeto \ D : Ima(kif, q) => Ima(L, q)
      BY <1>5, <2>5 DEF Prelaz, UDatoteci
    <3>3. z.greska \/ \A q \in z.preuzeto \ D : q \in z.novi \/ Ima(L, q)
      BY <1>2, <2>5, <3>1, <3>2
    <3> QED
      BY <1>5, <2>2, <3>3 DEF Uvozi
  <2>13. RadnikOK(y, brava' = p, w, L, D, obrade)
    BY <1>3, <2>2, <2>3, <2>4, <2>12 DEF RadnikOK, Tekuci, Lista, Ishodi
  <2>14. KnjigeTip(kif', nalog') /\ KnjigeU(kif', nalog', istorija.sporni)
    BY <1>4, <2>3, <2>5, KnjigeSada DEF KnjigeTip, KnjigeU, UKnjigama
  <2>15. obrade' = obrade /\ obrade \in [Dan -> Obrade0] /\ brava' = brava /\ brava = p
    BY <1>4, <1>8 DEF SepInv, SepTipovi, Smije, Ziv
  <2>16. UNCHANGED <<podesavanje, zatvoreno, SveOstalo>>
    BY <1>4
  <2>17. IstiPoslovi(obrade, obrade')
    BY <2>15, IstiPosloviIsti
  <2>18. Idi(p, y)
    BY <1>8, <2>1
  <2>19. brava' \in Proces \cup {Niko} /\ obrade' \in [Dan -> Obrade0]
         /\ (\A q \in Proces \ {p} : brava' = q => brava = q)
         /\ \A q \in Proces \ {p} : brava' = q => BezNovih(kif, istorija.dirao, kif', istorija.dirao)
    BY <2>15
  <2> QED
    BY <2>2, <2>3, <2>5, <2>8, <2>9, <2>10, <2>11, <2>13, <2>14, <2>15, <2>16, <2>17, <2>18, <2>19,
       PisiRadnik
<1>9. \/ Odustani(p) /\ UNCHANGED kif
      \/ Idi(p, [z EXCEPT !.pc = "uvoz", !.tekuci = {}, !.greska = TRUE]) /\ UNCHANGED kif
      \/ /\ Smije(p) /\ kif' = Upisano(r, "AUTO", z.vrsta)
         /\ Idi(p, [z EXCEPT !.pc = "uvoz", !.tekuci = {}])
  <2>1. [[z EXCEPT !.pc = "uvoz", !.tekuci = {}] EXCEPT !.greska = TRUE]
          = [z EXCEPT !.pc = "uvoz", !.tekuci = {}, !.greska = TRUE]
    BY <1>2 DEF Radnik0
  <2> QED
    BY <1>1, <2>1 DEF UpisiRacun, SmijeUTransakciji
<1> QED
  BY <1>6, <1>7, <1>8, <1>9

LEMMA KnjiziAutomatskiInv ==
  ASSUME SepInv, NEW p \in Proces, KnjiziAutomatski(p) PROVE SepInv'
<1>1. PICK z : z = radnik[p]
  OBVIOUS
<1>2. z \in Radnik0 /\ Zna(z, p) /\ z.pc = "knjizi"
  BY <1>1, RadnikZna DEF KnjiziAutomatski, Kod
<1>3. UNCHANGED <<podesavanje, obrade, zatvoreno, brava, SveOstalo>>
  BY DEF KnjiziAutomatski
<1>4. CASE Prekini(p) /\ UNCHANGED <<kif, nalog>>
  <2>1. UNCHANGED <<tabele, brava, SveOstalo>>
    BY <1>3, <1>4 DEF tabele
  <2> QED
    BY <1>1, <1>2, <1>4, <2>1, PrekiniInv DEF UPoslu
<1>5. CASE Idi(p, SaGreskom(p)) /\ UNCHANGED <<kif, nalog>>
  <2>1. UNCHANGED <<tabele, brava, SveOstalo>>
    BY <1>3, <1>5 DEF tabele
  <2> QED
    BY <1>1, <1>2, <1>5, <2>1, GreskaInv DEF UPoslu
<1>6. PICK v : v = z.vrsta
  OBVIOUS
<1>7. PICK A : A = ZaKnjizenje(v, z.lista)
  OBVIOUS
<1>8. CASE Smije(p) /\ Proknjizi(v, A, "POSTED") /\ Idi(p, [z EXCEPT !.pc = "kraj"])
  <2>1. PICK y : y = [z EXCEPT !.pc = "kraj"]
    OBVIOUS
  <2>2. /\ y \in Radnik0 /\ y.pc = "kraj" /\ y.preuzeto = z.preuzeto
        /\ y.vazi = z.vazi /\ y.vrsta = z.vrsta /\ y.posao = z.posao /\ y.tekuci = z.tekuci
        /\ y.greska = z.greska
    BY <1>2, <2>1 DEF Radnik0, Koraci
  <2>3. PICK L, D, w : L = kif' /\ D = istorija.dirao /\ w = podesavanje.vrsta
    OBVIOUS
  <2>4. /\ z.posao \in Dan /\ obrade[z.posao] # "NEMA" /\ z.tekuci = {}
        /\ Uvozi(z, kif, D) /\ Lista(z, brava = p, kif, D) /\ z.vazi /\ z.vrsta = w /\ brava = p
    BY <1>1, <1>2, <1>8, <2>3 DEF Zna, RadnikOK, UPoslu, Tekuci, Smije, Ziv
  <2>5. v = w /\ v \in Vrsta
    BY <1>6, <2>3, <2>4 DEF SepInv, SepTipovi
  <2>6. A \subseteq kif /\ \A e \in A : e.vrsta = v /\ ~e.knjizen
    BY <1>7 DEF ZaKnjizenje
  <2>7. "POSTED" \in Statusi
    BY DEF Statusi
  <2>8. /\ KnjigeTip(L, nalog') /\ KnjigeU(L, nalog', istorija.sporni)
        /\ Prelaz(kif, D, L, D) /\ Ceka(L, D) \subseteq Ceka(kif, D) \ A /\ BezRucnih(kif, L)
    BY <1>8, <2>3, <2>5, <2>6, <2>7, ProknjiziKnjige
  <2>9. Vrste(kif, D, w) /\ Prate(kif, D, obrade) /\ Gotovi(kif, D, obrade)
    BY <2>3 DEF SepInv
  <2>10. Ceka(kif, D) \subseteq A
    <3>1. ASSUME NEW e \in Ceka(kif, D) PROVE e \in A
      <4>1. ImaPar(z.lista, e)
        BY <1>2, <2>4, <3>1 DEF Lista
      <4>2. e \in kif /\ ~e.knjizen /\ e.vrsta = v
        BY <2>5, <2>9, <3>1 DEF Ceka, Vrste
      <4> QED
        BY <1>7, <4>1, <4>2 DEF ZaKnjizenje, ImaPar
    <3> QED
      BY <3>1
  <2>11. Ceka(L, D) = {}
    BY <2>8, <2>10
  <2>12. Vrste(L, D, w) /\ Prate(L, D, obrade)
    BY <2>11 DEF Vrste, Prate
  <2>13. Gotovi(L, D, obrade)
    BY <2>8, <2>9 DEF Gotovi, Prelaz, UDatoteci
  <2>14. ASSUME ~z.greska, NEW r \in z.preuzeto \ D PROVE Zavrsen(L, r)
    <3>1. z.preuzeto = UDatoteci(z.posao) /\ z.novi = {} /\ r \in Racun
      BY <1>2, <2>4, <2>14 DEF Uvozi, Lista, UDatoteci
    <3>2. Ima(kif, r)
      BY <1>2, <2>4, <2>14, <3>1 DEF Uvozi
    <3>3. Ima(L, r)
      BY <2>8, <2>14, <3>1, <3>2 DEF Prelaz
    <3> QED
      BY <2>11, <2>14, <3>3 DEF Ceka, Zavrsen
  <2>15. Ishodi(y, L, D)
    BY <1>2, <2>2, <2>4, <2>14 DEF Ishodi, Uvozi
  <2>16. RadnikOK(y, brava' = p, w, L, D, obrade)
    BY <2>2, <2>4, <2>15 DEF RadnikOK, Uvozi, Tekuci, Lista
  <2>17. obrade' = obrade /\ obrade \in [Dan -> Obrade0] /\ brava' = brava
    BY <1>3 DEF SepInv, SepTipovi
  <2>18. UNCHANGED <<podesavanje, zatvoreno, SveOstalo>> /\ Idi(p, y)
    BY <1>3, <1>8, <2>1
  <2>19. IstiPoslovi(obrade, obrade')
    BY <2>17, IstiPosloviIsti
  <2>20. brava' \in Proces \cup {Niko} /\ obrade' \in [Dan -> Obrade0]
         /\ (\A q \in Proces \ {p} : brava' = q => brava = q)
         /\ \A q \in Proces \ {p} : brava' = q => BezNovih(kif, istorija.dirao, kif', istorija.dirao)
    BY <2>4, <2>17
  <2> QED
    BY <2>2, <2>3, <2>8, <2>12, <2>13, <2>16, <2>17, <2>18, <2>19, <2>20, PisiRadnik
<1>9. \/ Prekini(p) /\ UNCHANGED <<kif, nalog>>
      \/ Idi(p, SaGreskom(p)) /\ UNCHANGED <<kif, nalog>>
      \/ Smije(p) /\ Proknjizi(v, A, "POSTED") /\ Idi(p, [z EXCEPT !.pc = "kraj"])
  BY <1>1, <1>6, <1>7 DEF KnjiziAutomatski
<1> QED
  BY <1>4, <1>5, <1>8, <1>9

LEMMA RadiInv ==
  ASSUME SepInv, NEW p \in Proces, Radi(p) PROVE SepInv'
BY UzmiInv, PocniPosaoInv, ZavrsiRedInv, GreskaPortalaInv, PreuzmiInv, MaprOdbijaInv,
   ProvjeriRacunInv, UpisiRacunInv, PopisiInv, KnjiziAutomatskiInv, ProvjeriInv, UpisiStatusInv
   DEF Radi

LEMMA KvarInv ==
  ASSUME SepInv, NEW p \in Proces, Kvar(p) PROVE SepInv'
<1>1. SepTipovi /\ KnjigeOK /\ PosloviOK /\ RadniciOK /\ KorisnikOK(korisnik, kif)
  BY SepInvDijelovi
<1>2. /\ dan' = dan /\ podesavanje' = podesavanje /\ obrade' = obrade /\ zatvoreno' = zatvoreno
      /\ kif' = kif /\ nalog' = nalog /\ korisnik' = korisnik /\ istorija' = istorija
      /\ brava' = (IF brava = p THEN Niko ELSE brava)
      /\ (radnik' = radnik \/ radnik' = [radnik EXCEPT ![p] = Miran])
  BY DEF Kvar, tabele
<1>3. brava' \in Proces \cup {Niko} /\ \A q \in Proces : brava' = q => brava = q
  BY <1>1, <1>2, SepPretpostavke DEF SepTipovi
<1>4. radnik' \in [Proces -> Radnik0]
      /\ \A q \in Proces : radnik'[q] = radnik[q] \/ radnik'[q] = Miran
  BY <1>1, <1>2, MiranZna DEF SepTipovi
<1>5. SepTipovi'
  BY <1>1, <1>2, <1>3, <1>4 DEF SepTipovi
<1>6. KnjigeOK' /\ PosloviOK' /\ KorisnikOK(korisnik, kif)'
  BY <1>1, <1>2 DEF KnjigeOK, PosloviOK
<1>7. PICK Q : Q = {q \in Proces : radnik'[q] = radnik[q]}
  OBVIOUS
<1>8. \A q \in Q :
        RadnikOK(radnik'[q], brava' = q, podesavanje'.vrsta, kif', istorija'.dirao, obrade')
  <2>1. Prelaz(kif, istorija.dirao, kif', istorija'.dirao)
        /\ BezNovih(kif, istorija.dirao, kif', istorija'.dirao)
    BY <1>2, PrelazIsti
  <2>2. IstiPoslovi(obrade, obrade') /\ podesavanje'.vrsta = podesavanje.vrsta
    BY <1>2, IstiPosloviIsti
  <2>3. Q \subseteq Proces /\ (\A q \in Q : radnik'[q] = radnik[q])
        /\ \A q \in Q : brava' = q => brava = q
    BY <1>3, <1>7
  <2> QED
    BY <1>1, <2>1, <2>2, <2>3, RadniciOstaju
<1>9. \A q \in Proces \ Q :
        RadnikOK(radnik'[q], brava' = q, podesavanje'.vrsta, kif', istorija'.dirao, obrade')
  BY <1>4, <1>7, MiranZna
<1>10. RadniciOK'
  BY <1>8, <1>9 DEF RadniciOK
<1> QED
  BY <1>5, <1>6, <1>10 DEF SepInv, KnjigeOK, PosloviOK, RadniciOK

LEMMA NoviDanInv ==
  ASSUME SepInv, NoviDan PROVE SepInv'
<1>1. /\ UNCHANGED <<podesavanje, obrade, kif, nalog, istorija, radnik, brava>>
      /\ zatvoreno' = zatvoreno /\ korisnik' = korisnik /\ dan' \in Dan
  BY DEF NoviDan, tabele
<1>2. dan' \in Nat /\ zatvoreno' \in BOOLEAN /\ korisnik' \in Zahtjev0 /\ KorisnikOK(korisnik', kif)
  BY <1>1, SepPretpostavke DEF SepInv, SepTipovi
<1> QED
  BY <1>1, <1>2, MirneTabele

---------------------------------------------------------------------------
(* The user *)

\* What a change of the book has to keep.
LEMMA PisiKnjigu ==
  ASSUME SepInv, UNCHANGED <<dan, podesavanje, obrade, zatvoreno, brava, radnik>>,
         korisnik' \in Zahtjev0, KorisnikOK(korisnik', kif'),
         istorija' \in [dirao : SUBSET Racun, sporni : SUBSET Racun],
         KnjigeTip(kif', nalog'), KnjigeU(kif', nalog', istorija'.sporni),
         Prelaz(kif, istorija.dirao, kif', istorija'.dirao),
         BezNovih(kif, istorija.dirao, kif', istorija'.dirao)
  PROVE  SepInv'
<1>1. SepTipovi /\ KnjigeOK /\ PosloviOK /\ RadniciOK
  BY SepInvDijelovi
<1>2. /\ dan' = dan /\ podesavanje' = podesavanje /\ obrade' = obrade /\ zatvoreno' = zatvoreno
      /\ brava' = brava /\ radnik' = radnik
  OBVIOUS
<1>3. SepTipovi'
  BY <1>1, <1>2 DEF SepTipovi, KnjigeTip
<1>4. KnjigeOK'
  BY DEF KnjigeOK, KnjigeU
<1>5. IstiPoslovi(obrade, obrade')
  BY <1>2, IstiPosloviIsti
<1>6. PosloviOK'
  <2>1. PICK w, O : w = podesavanje.vrsta /\ O = obrade
    OBVIOUS
  <2>2. /\ Vrste(kif, istorija.dirao, w) /\ Prate(kif, istorija.dirao, O)
        /\ Gotovi(kif, istorija.dirao, O)
    BY <1>1, <2>1 DEF PosloviOK
  <2>3. kif' \subseteq Red /\ IstiPoslovi(O, O) /\ \A d \in Dan : O[d] = "DONE" => O[d] = "DONE"
    BY IstiPosloviIsti DEF KnjigeTip
  <2>4. Vrste(kif', istorija'.dirao, w) /\ Prate(kif', istorija'.dirao, O)
        /\ Gotovi(kif', istorija'.dirao, O)
    BY <2>2, <2>3, PosloviOstaju
  <2> QED
    BY <1>2, <2>1, <2>4 DEF PosloviOK
<1>7. RadniciOK'
  <2>1. PICK Q : Q = Proces
    OBVIOUS
  <2>2. /\ Q \subseteq Proces /\ (\A p \in Q : radnik'[p] = radnik[p])
        /\ (\A p \in Q : brava' = p => brava = p) /\ podesavanje'.vrsta = podesavanje.vrsta
        /\ \A p \in Q : brava' = p => BezNovih(kif, istorija.dirao, kif', istorija'.dirao)
    BY <1>2, <2>1
  <2> QED
    BY <1>1, <1>5, <2>1, <2>2, RadniciOstaju DEF RadniciOK
<1> QED
  BY <1>3, <1>4, <1>6, <1>7 DEF SepInv, KnjigeOK, PosloviOK, RadniciOK

LEMMA SlobodanZna == ASSUME NEW K PROVE Slobodan \in Zahtjev0 /\ KorisnikOK(Slobodan, K)
BY DEF Slobodan, Zahtjev0, KorisnikOK

LEMMA KorisnikZna ==
  ASSUME SepInv
  PROVE  /\ korisnik \in Zahtjev0 /\ KorisnikOK(korisnik, kif)
         /\ istorija \in [dirao : SUBSET Racun, sporni : SUBSET Racun]
BY DEF SepInv, SepTipovi

\* The requests that only check.
LEMMA ProvjerenoInv ==
  ASSUME SepInv, NEW op \in {"unesi", "obrisi", "delete"}, NEW A, A \subseteq Red, NEW v \in Vrsta,
         Provjereno(op, A, v), KorisnikOK([op |-> op, red |-> A, vrsta |-> v], kif)
  PROVE  SepInv'
<1>1. PICK z : z = [op |-> op, red |-> A, vrsta |-> v]
  OBVIOUS
<1>2. z \in Zahtjev0
  BY <1>1 DEF Zahtjev0
<1>3. korisnik' = z /\ UNCHANGED <<podesavanje, obrade, kif, nalog, istorija, radnik, brava>>
      /\ dan' = dan /\ zatvoreno' = zatvoreno
  BY <1>1 DEF Provjereno, tabele
<1>4. dan' \in Nat /\ zatvoreno' \in BOOLEAN /\ korisnik' \in Zahtjev0 /\ KorisnikOK(korisnik', kif)
  BY <1>1, <1>2, <1>3 DEF SepInv, SepTipovi
<1> QED
  BY <1>3, <1>4, MirneTabele

LEMMA ProvjereInv ==
  ASSUME SepInv,
         \/ \E r \in Racun, v \in Vrsta : UnesiKif(r, v)
         \/ \E e \in kif : ObrisiKif(e)
         \/ \E v \in Vrsta : DeleteJournal(v)
  PROVE  SepInv'
<1>1. ASSUME NEW r \in Racun, NEW v \in Vrsta, UnesiKif(r, v) PROVE SepInv'
  <2>1. PICK e : e = [NoviRed(r, "RUKA", v) EXCEPT !.ikof = FALSE]
    OBVIOUS
  <2>2. e \in Red /\ e.izvor = "RUKA" /\ e.knjizen = FALSE /\ e.racun = r
    BY <2>1 DEF NoviRed, Red, Izvor
  <2>3. Redovi(r) = {} /\ Provjereno("unesi", {e}, v)
    BY <1>1, <2>1 DEF UnesiKif
  <2>4. \A x \in kif : x.racun # r
    BY <2>3 DEF Redovi
  <2>5. KorisnikOK([op |-> "unesi", red |-> {e}, vrsta |-> v], kif)
    BY <2>2, <2>4 DEF KorisnikOK
  <2>6. {e} \subseteq Red
    BY <2>2
  <2> QED
    BY <2>3, <2>5, <2>6, ProvjerenoInv
<1>2. ASSUME NEW e \in kif, ObrisiKif(e) PROVE SepInv'
  <2>1. e \in Red /\ {e} \subseteq Red /\ e.vrsta \in Vrsta
    BY DEF SepInv, SepTipovi, Red
  <2>2. KorisnikOK([op |-> "obrisi", red |-> {e}, vrsta |-> e.vrsta], kif)
    BY DEF KorisnikOK
  <2>3. Provjereno("obrisi", {e}, e.vrsta)
    BY <1>2 DEF ObrisiKif
  <2> QED
    BY <2>1, <2>2, <2>3, ProvjerenoInv
<1>3. ASSUME NEW v \in Vrsta, DeleteJournal(v) PROVE SepInv'
  <2>1. KorisnikOK([op |-> "delete", red |-> {}, vrsta |-> v], kif)
    BY DEF KorisnikOK
  <2>2. Provjereno("delete", {}, v)
    BY <1>3 DEF DeleteJournal
  <2> QED
    BY <2>1, <2>2, ProvjerenoInv
<1> QED
  BY <1>1, <1>2, <1>3

LEMMA OdbijInv == ASSUME SepInv, OdbijKorisnika PROVE SepInv'
<1>1. korisnik' = Slobodan /\ UNCHANGED <<podesavanje, obrade, kif, nalog, istorija, radnik, brava>>
      /\ dan' = dan /\ zatvoreno' = zatvoreno
  BY DEF OdbijKorisnika, tabele
<1>2. dan' \in Nat /\ zatvoreno' \in BOOLEAN /\ korisnik' \in Zahtjev0 /\ KorisnikOK(korisnik', kif)
  BY <1>1, SlobodanZna DEF SepInv, SepTipovi
<1> QED
  BY <1>1, <1>2, MirneTabele

LEMMA ZatvoriInv == ASSUME SepInv, ZatvoriOtvori PROVE SepInv'
<1>1. UNCHANGED <<podesavanje, obrade, kif, nalog, istorija, radnik, brava>>
      /\ dan' = dan /\ zatvoreno' = ~zatvoreno /\ korisnik' = korisnik
  BY DEF ZatvoriOtvori
<1>2. dan' \in Nat /\ zatvoreno' \in BOOLEAN /\ korisnik' \in Zahtjev0 /\ KorisnikOK(korisnik', kif)
  BY <1>1 DEF SepInv, SepTipovi
<1> QED
  BY <1>1, <1>2, MirneTabele

LEMMA UpisiKifInv == ASSUME SepInv, UpisiKif PROVE SepInv'
<1>1. PICK A : A = korisnik.red
  OBVIOUS
<1>2. PICK B : B = {e.racun : e \in {x \in A : Redovi(x.racun) # {}}}
  OBVIOUS
<1>3. PICK L, E, T : L = kif' /\ E = istorija'.dirao /\ T = istorija'.sporni
  OBVIOUS
<1>4. PICK D, S : D = istorija.dirao /\ S = istorija.sporni
  OBVIOUS
<1>5. /\ UNCHANGED <<dan, podesavanje, obrade, zatvoreno, brava, radnik>> /\ korisnik' = Slobodan
      /\ L = kif \cup A /\ nalog' = nalog /\ korisnik.op = "unesi"
      /\ istorija' = [istorija EXCEPT !.sporni = @ \cup B]
  BY <1>1, <1>2, <1>3 DEF UpisiKif, Upisuje
<1>6. /\ A \subseteq Red
      /\ \A e \in A : /\ e.izvor = "RUKA" /\ ~e.knjizen /\ A = {e}
                      /\ \A x \in kif : x.racun = e.racun => x.izvor # "RUKA"
  BY <1>1, <1>5, KorisnikZna DEF Zahtjev0, KorisnikOK
<1>7. B \subseteq Racun
  BY <1>2, <1>6 DEF Red
<1>8. /\ istorija' \in [dirao : SUBSET Racun, sporni : SUBSET Racun] /\ E = D /\ T = S \cup B
  BY <1>3, <1>4, <1>5, <1>7, KorisnikZna
<1>9. kif \subseteq Red /\ IsFiniteSet(kif) /\ KnjigeU(kif, nalog, S) /\ KnjigeTip(kif, nalog)
  BY <1>4, KnjigeSada DEF KnjigeTip
<1>10. L \subseteq Red /\ IsFiniteSet(L)
  <2>1. CASE A = {}
    BY <1>5, <1>9, <2>1
  <2>2. CASE A # {}
    <3>1. PICK e : e \in A /\ A = {e}
      BY <1>6, <2>2
    <3> QED
      BY <1>5, <1>6, <1>9, <3>1, FS_AddElement
  <2> QED
    BY <2>1, <2>2
<1>11. Kljucevi(L)
  BY <1>5, <1>6, <1>9 DEF KnjigeU, Kljucevi
<1>12. \A e \in A, x \in kif : e.racun = x.racun => e.racun \in B
  BY <1>2 DEF Redovi
<1>13. JedanRed(L, T)
  BY <1>5, <1>6, <1>8, <1>9, <1>12 DEF KnjigeU, JedanRed
<1>14. UKnjigama(L, nalog', T)
  <2>1. \A v, r : Proknjizen(L, v, r) <=> Proknjizen(kif, v, r)
    BY <1>5, <1>6 DEF Proknjizen
  <2> QED
    BY <1>5, <1>8, <1>9, <2>1 DEF KnjigeU, UKnjigama
<1>15. Prelaz(kif, D, L, E)
  BY <1>5, <1>6, <1>8 DEF Prelaz, Ima, Zavrsen
<1>16. BezNovih(kif, D, L, E)
  BY <1>5, <1>6, <1>8 DEF BezNovih, Ceka, IstiRed
<1>17. korisnik' \in Zahtjev0 /\ KorisnikOK(korisnik', kif')
  BY <1>5, SlobodanZna
<1>18. KnjigeTip(kif', nalog') /\ KnjigeU(kif', nalog', istorija'.sporni)
  BY <1>3, <1>5, <1>9, <1>10, <1>11, <1>13, <1>14 DEF KnjigeTip, KnjigeU
<1> QED
  BY <1>3, <1>4, <1>5, <1>8, <1>15, <1>16, <1>17, <1>18, PisiKnjigu

LEMMA ObrisiKifInv == ASSUME SepInv, ObrisiKifUpis PROVE SepInv'
<1>1. PICK A : A = {e \in kif : \E x \in korisnik.red : e.racun = x.racun /\ e.izvor = x.izvor}
  OBVIOUS
<1>2. PICK B, C : B = {e.racun : e \in A} /\ C = {e.racun : e \in {x \in A : x.knjizen}}
  OBVIOUS
<1>3. PICK L, E, T : L = kif' /\ E = istorija'.dirao /\ T = istorija'.sporni
  OBVIOUS
<1>4. PICK D, S : D = istorija.dirao /\ S = istorija.sporni
  OBVIOUS
<1>5. /\ UNCHANGED <<dan, podesavanje, obrade, zatvoreno, brava, radnik>> /\ korisnik' = Slobodan
      /\ L = kif \ A /\ nalog' = nalog /\ E = D \cup B /\ T = S \cup C
      /\ istorija' = [dirao |-> D \cup B, sporni |-> S \cup C]
  BY <1>1, <1>2, <1>3, <1>4 DEF ObrisiKifUpis, Upisuje
<1>6. kif \subseteq Red /\ IsFiniteSet(kif) /\ KnjigeU(kif, nalog, S) /\ KnjigeTip(kif, nalog)
      /\ D \subseteq Racun /\ S \subseteq Racun
  BY <1>4, KnjigeSada DEF KnjigeTip
<1>7. A \subseteq kif
  BY <1>1
<1>8. B \subseteq Racun /\ C \subseteq Racun
  BY <1>2, <1>6, <1>7 DEF Red
<1>9. istorija' \in [dirao : SUBSET Racun, sporni : SUBSET Racun]
  BY <1>5, <1>6, <1>8
<1>10. L \subseteq Red /\ IsFiniteSet(L)
  BY <1>5, <1>6, FS_Subset
<1>11. Kljucevi(L) /\ JedanRed(L, T)
  BY <1>5, <1>6 DEF KnjigeU, Kljucevi, JedanRed
<1>12. \A e \in A : e.racun \in B /\ (e.knjizen => e.racun \in C)
  BY <1>2
<1>13. UKnjigama(L, nalog', T)
  <2>1. \A v \in Vrsta, r \in Racun \ T : Proknjizen(L, v, r) <=> Proknjizen(kif, v, r)
    BY <1>5, <1>12 DEF Proknjizen
  <2> QED
    BY <1>5, <1>6, <2>1 DEF KnjigeU, UKnjigama
<1>14. Prelaz(kif, D, L, E)
  BY <1>5, <1>12 DEF Prelaz, Ima, Zavrsen
<1>15. BezNovih(kif, D, L, E)
  BY <1>5 DEF BezNovih, Ceka, IstiRed
<1>16. korisnik' \in Zahtjev0 /\ KorisnikOK(korisnik', kif')
  BY <1>5, SlobodanZna
<1>17. KnjigeTip(kif', nalog') /\ KnjigeU(kif', nalog', istorija'.sporni)
  BY <1>3, <1>5, <1>6, <1>10, <1>11, <1>13 DEF KnjigeTip, KnjigeU
<1> QED
  BY <1>3, <1>4, <1>5, <1>9, <1>14, <1>15, <1>16, <1>17, PisiKnjigu

LEMMA DeleteJournalInv == ASSUME SepInv, DeleteJournalUpis PROVE SepInv'
<1>1. PICK w : w = korisnik.vrsta
  OBVIOUS
<1>2. PICK A : A = {e \in kif : e.vrsta = w /\ e.knjizen}
  OBVIOUS
<1>3. PICK B : B = {e.racun : e \in A}
  OBVIOUS
<1>4. PICK L, M, E : L = kif' /\ M = nalog' /\ E = istorija'.dirao
  OBVIOUS
<1>5. PICK D, S : D = istorija.dirao /\ S = istorija.sporni
  OBVIOUS
<1>6. /\ UNCHANGED <<dan, podesavanje, obrade, zatvoreno, brava, radnik>> /\ korisnik' = Slobodan
      /\ L = (kif \ A) \cup {[e EXCEPT !.knjizen = FALSE] : e \in A} /\ korisnik.op = "delete"
      /\ M = [nalog EXCEPT ![w] = PrazanNalog]
      /\ istorija' = [istorija EXCEPT !.dirao = @ \cup B]
  BY <1>1, <1>2, <1>3, <1>4 DEF DeleteJournalUpis, Upisuje
<1>7. w \in Vrsta
  BY <1>1, <1>6, KorisnikZna DEF KorisnikOK
<1>8. kif \subseteq Red /\ RedoviOK /\ KnjigeU(kif, nalog, S)
      /\ nalog \in [Vrsta -> [status : Statusi, stavke : [Racun -> Nat]]]
  BY <1>5, KnjigeSada DEF KnjigeTip
<1>9. A \subseteq kif
  BY <1>2
<1>10. B \subseteq Racun
  BY <1>3, <1>8, <1>9 DEF Red
<1>11. istorija' \in [dirao : SUBSET Racun, sporni : SUBSET Racun] /\ E = D \cup B
       /\ istorija'.sporni = S
  BY <1>4, <1>5, <1>6, <1>10, KorisnikZna
<1>12. /\ L \subseteq Red /\ IsFiniteSet(L) /\ Kljucevi(L)
       /\ \A U : JedanRed(kif, U) => JedanRed(L, U)
       /\ \A q : Ima(L, q) <=> Ima(kif, q)
       /\ \A x \in L : (x \in kif /\ x \notin A) \/ \E e \in A : IstiRed(x, e) /\ x.knjizen = FALSE
  <2>1. L = (kif \ A) \cup Promijenjeni(A, FALSE)
    BY <1>6 DEF Promijenjeni
  <2>2. IsFiniteSet(kif) /\ Kljucevi(kif)
    BY <1>8 DEF RedoviOK
  <2>3. KaoPrije(kif, A, FALSE, (kif \ A) \cup Promijenjeni(A, FALSE))
    BY <1>8, <1>9, <2>2, KnjizenjeRedova
  <2> QED
    BY <2>1, <2>3 DEF KaoPrije
<1>13. PrazanNalog \in [status : Statusi, stavke : [Racun -> Nat]]
       /\ \A r \in Racun : PrazanNalog.stavke[r] = 0
  BY DEF PrazanNalog, Statusi
<1>14. M \in [Vrsta -> [status : Statusi, stavke : [Racun -> Nat]]]
       /\ M[w] = PrazanNalog /\ \A u \in Vrsta \ {w} : M[u] = nalog[u]
  BY <1>6, <1>7, <1>8, <1>13
<1>15. UKnjigama(L, M, S)
  <2>1. ASSUME NEW r \in Racun \ S, NEW u \in Vrsta
        PROVE  M[u].stavke[r] = IF Proknjizen(L, u, r) THEN 1 ELSE 0
    <3>1. nalog[u].stavke[r] = IF Proknjizen(kif, u, r) THEN 1 ELSE 0
      BY <1>8, <2>1 DEF KnjigeU, UKnjigama
    <3>2. CASE u # w
      <4>1. Proknjizen(L, u, r) <=> Proknjizen(kif, u, r)
        BY <1>2, <1>6, <1>12, <3>2 DEF Proknjizen, IstiRed
      <4> QED
        BY <1>14, <3>1, <3>2, <4>1
    <3>3. CASE u = w
      <4>1. ~Proknjizen(L, u, r)
        BY <1>2, <1>12, <3>3 DEF Proknjizen
      <4> QED
        BY <1>13, <1>14, <2>1, <3>3, <4>1
    <3> QED
      BY <3>2, <3>3
  <2> QED
    BY <2>1 DEF UKnjigama
<1>16. \A e \in A : e.racun \in B
  BY <1>3
<1>17. Prelaz(kif, D, L, E)
  BY <1>11, <1>12, <1>16 DEF Prelaz, Zavrsen, IstiRed
<1>18. BezNovih(kif, D, L, E)
  BY <1>11, <1>12, <1>16 DEF BezNovih, Ceka, IstiRed
<1>19. korisnik' \in Zahtjev0 /\ KorisnikOK(korisnik', kif')
  BY <1>6, SlobodanZna
<1>20. KnjigeTip(kif', nalog') /\ KnjigeU(kif', nalog', istorija'.sporni)
  BY <1>4, <1>8, <1>11, <1>12, <1>14, <1>15 DEF KnjigeTip, KnjigeU
<1> QED
  BY <1>4, <1>5, <1>6, <1>11, <1>17, <1>18, <1>19, <1>20, PisiKnjigu

LEMMA UveziRucnoInv ==
  ASSUME SepInv, NEW r \in Racun, NEW v \in Vrsta, UveziRucno(r, v) PROVE SepInv'
<1>1. PICK L, D, S : L = kif' /\ D = istorija.dirao /\ S = istorija.sporni
  OBVIOUS
<1>2. /\ UNCHANGED <<dan, podesavanje, obrade, zatvoreno, brava, radnik>> /\ korisnik' = korisnik
      /\ L = Upisano(r, "MAPR", v) /\ nalog' = nalog /\ istorija' = istorija
  BY <1>1 DEF UveziRucno, Odjednom
<1>3. /\ L \subseteq Red /\ IsFiniteSet(L) /\ Kljucevi(L)
      /\ \A U : JedanRed(kif, U) => JedanRed(L, U)
      /\ \A u, q : Proknjizen(L, u, q) <=> Proknjizen(kif, u, q)
      /\ Prelaz(kif, D, L, D)
      /\ \A x \in L : (\E e \in kif : IstiRed(x, e) /\ x.knjizen = e.knjizen)
                      \/ x = NoviRed(r, "MAPR", v)
  BY <1>2, KnjigeSada, UpisanoRedovi
<1>4. KnjigeTip(kif, nalog) /\ KnjigeU(kif, nalog, S)
  BY <1>1, KnjigeSada
<1>5. KnjigeTip(kif', nalog') /\ KnjigeU(kif', nalog', istorija'.sporni)
  BY <1>1, <1>2, <1>3, <1>4 DEF KnjigeTip, KnjigeU, UKnjigama
<1>6. BezNovih(kif, D, L, D)
  BY <1>3 DEF BezNovih, Ceka, IstiRed, NoviRed
<1>7. BezRucnih(kif, L)
  BY <1>3 DEF BezRucnih, IstiRed, NoviRed
<1>8. korisnik' \in Zahtjev0 /\ KorisnikOK(korisnik', kif')
      /\ istorija' \in [dirao : SUBSET Racun, sporni : SUBSET Racun]
  BY <1>1, <1>2, <1>7, KorisnikZna, KorisnikOstaje
<1> QED
  BY <1>1, <1>2, <1>3, <1>5, <1>6, <1>8, PisiKnjigu

LEMMA KnjiziRucnoInv ==
  ASSUME SepInv, NEW v \in Vrsta, KnjiziRucno(v) PROVE SepInv'
<1>1. PICK A : A = {e \in kif : e.vrsta = v /\ ~e.knjizen}
  OBVIOUS
<1>2. PICK s : s = IF nalog[v].status = "NEMA" THEN "DRAFT" ELSE nalog[v].status
  OBVIOUS
<1>3. s \in Statusi
  BY <1>2 DEF SepInv, SepTipovi, Statusi
<1>4. /\ UNCHANGED <<dan, podesavanje, obrade, zatvoreno, brava, radnik>> /\ korisnik' = korisnik
      /\ Proknjizi(v, A, s) /\ istorija' = istorija
  BY <1>1, <1>2 DEF KnjiziRucno, Odjednom
<1>5. A \subseteq kif /\ \A e \in A : e.vrsta = v /\ ~e.knjizen
  BY <1>1
<1>6. /\ KnjigeTip(kif', nalog') /\ KnjigeU(kif', nalog', istorija.sporni)
      /\ Prelaz(kif, istorija.dirao, kif', istorija.dirao)
      /\ Ceka(kif', istorija.dirao) \subseteq Ceka(kif, istorija.dirao) \ A
      /\ BezRucnih(kif, kif')
  BY <1>3, <1>4, <1>5, ProknjiziKnjige
<1>7. BezNovih(kif, istorija.dirao, kif', istorija.dirao)
  BY <1>6 DEF BezNovih, IstiRed
<1>8. korisnik' \in Zahtjev0 /\ KorisnikOK(korisnik', kif')
      /\ istorija' \in [dirao : SUBSET Racun, sporni : SUBSET Racun]
  BY <1>4, <1>6, KorisnikZna, KorisnikOstaje
<1> QED
  BY <1>4, <1>6, <1>7, <1>8, PisiKnjigu

LEMMA StatusNalogaInv ==
  ASSUME SepInv, NEW v \in Vrsta, NEW s \in Statusi, NEW op, NEW iz, StatusNaloga(v, op, iz, s)
  PROVE  SepInv'
<1>1. /\ UNCHANGED <<dan, podesavanje, obrade, zatvoreno, brava, radnik>> /\ korisnik' = korisnik
      /\ kif' = kif /\ istorija' = istorija /\ nalog' = [nalog EXCEPT ![v].status = s]
  BY DEF StatusNaloga, Odjednom
<1>2. KnjigeTip(kif, nalog) /\ KnjigeU(kif, nalog, istorija.sporni)
  BY KnjigeSada
<1>3. nalog' \in [Vrsta -> [status : Statusi, stavke : [Racun -> Nat]]]
      /\ \A u \in Vrsta : nalog'[u].stavke = nalog[u].stavke
  BY <1>1, <1>2 DEF KnjigeTip
<1>4. KnjigeTip(kif', nalog') /\ KnjigeU(kif', nalog', istorija'.sporni)
  BY <1>1, <1>2, <1>3 DEF KnjigeTip, KnjigeU, UKnjigama
<1>5. Prelaz(kif, istorija.dirao, kif', istorija'.dirao)
      /\ BezNovih(kif, istorija.dirao, kif', istorija'.dirao)
  BY <1>1, PrelazIsti
<1>6. korisnik' \in Zahtjev0 /\ KorisnikOK(korisnik', kif')
      /\ istorija' \in [dirao : SUBSET Racun, sporni : SUBSET Racun]
  BY <1>1, KorisnikZna
<1> QED
  BY <1>1, <1>4, <1>5, <1>6, PisiKnjigu

LEMMA SaveSepAutomationInv ==
  ASSUME SepInv, NEW a \in BOOLEAN, NEW v \in Vrsta, SaveSepAutomation(a, v) PROVE SepInv'
<1>1. SepTipovi /\ KnjigeOK /\ PosloviOK /\ RadniciOK /\ KorisnikOK(korisnik, kif)
  BY SepInvDijelovi
<1>2. PICK u : u = IF a THEN v ELSE podesavanje.vrsta
  OBVIOUS
<1>3. /\ dan' = dan /\ obrade' = obrade /\ zatvoreno' = zatvoreno /\ kif' = kif /\ nalog' = nalog
      /\ brava' = brava /\ korisnik' = korisnik /\ istorija' = istorija
      /\ podesavanje' = [aktivna |-> a, od |-> dan, vrsta |-> u]
      /\ radnik' = [p \in Proces |-> [radnik[p] EXCEPT !.vazi = FALSE]]
      /\ (a => PodesiSme(v))
  BY <1>2 DEF SaveSepAutomation, Odjednom
<1>4. u \in Vrsta /\ dan \in Nat
  BY <1>1, <1>2 DEF SepTipovi
<1>5. podesavanje' \in [aktivna : BOOLEAN, od : Nat, vrsta : Vrsta] /\ podesavanje'.vrsta = u
  BY <1>3, <1>4
<1>6. radnik' \in [Proces -> Radnik0]
  <2>1. ASSUME NEW p \in Proces PROVE [radnik[p] EXCEPT !.vazi = FALSE] \in Radnik0
    <3>1. PICK z \in Radnik0 : z = radnik[p]
      BY <1>1 DEF SepTipovi
    <3>2. [z EXCEPT !.vazi = FALSE] \in Radnik0
      BY DEF Radnik0
    <3> QED
      BY <3>1, <3>2
  <2> QED
    BY <1>3, <2>1
<1>7. SepTipovi'
  BY <1>1, <1>3, <1>5, <1>6 DEF SepTipovi
<1>8. KnjigeOK' /\ KorisnikOK(korisnik, kif)'
  BY <1>1, <1>3 DEF KnjigeOK
<1>9. PosloviOK'
  <2>1. Vrste(kif, istorija.dirao, u)
    <3>1. Vrste(kif, istorija.dirao, podesavanje.vrsta)
      BY <1>1 DEF PosloviOK
    <3>2. CASE u = podesavanje.vrsta
      BY <3>1, <3>2
    <3>3. CASE u # podesavanje.vrsta
      <4>1. {e \in kif : e.izvor = "AUTO" /\ ~e.knjizen} = {}
        BY <1>2, <1>3, <3>3 DEF PodesiSme
      <4> QED
        BY <4>1 DEF Vrste, Ceka
    <3> QED
      BY <3>2, <3>3
  <2>2. Prate(kif, istorija.dirao, obrade) /\ Gotovi(kif, istorija.dirao, obrade)
    BY <1>1 DEF PosloviOK
  <2> QED
    BY <1>3, <1>5, <2>1, <2>2 DEF PosloviOK
<1>10. RadniciOK'
  <2>1. ASSUME NEW p \in Proces
        PROVE  RadnikOK(radnik'[p], brava' = p, podesavanje'.vrsta, kif', istorija'.dirao, obrade')
    <3>1. PICK z : z = radnik[p]
      OBVIOUS
    <3>2. z \in Radnik0 /\ RadnikOK(z, brava = p, podesavanje.vrsta, kif, istorija.dirao, obrade)
      BY <1>1, <3>1 DEF SepTipovi, RadniciOK
    <3>3. PICK y : y = [z EXCEPT !.vazi = FALSE]
      OBVIOUS
    <3>4. /\ y.vazi = FALSE /\ y.pc = z.pc /\ y.posao = z.posao /\ y.preuzeto = z.preuzeto
          /\ y.novi = z.novi /\ y.tekuci = z.tekuci /\ y.lista = z.lista /\ y.greska = z.greska
      BY <3>2, <3>3 DEF Radnik0
    <3>5. RadnikOK(y, brava = p, u, kif, istorija.dirao, obrade)
      BY <3>2, <3>4 DEF RadnikOK, Uvozi, Tekuci, Lista, Ishodi
    <3>6. radnik'[p] = y
      BY <1>3, <3>1, <3>3
    <3> QED
      BY <1>3, <1>5, <3>5, <3>6
  <2> QED
    BY <2>1 DEF RadniciOK
<1> QED
  BY <1>7, <1>8, <1>9, <1>10 DEF SepInv, KnjigeOK, PosloviOK, RadniciOK

LEMMA RetrySepAutomationInv ==
  ASSUME SepInv, NEW d \in Dan, RetrySepAutomation(d) PROVE SepInv'
<1>1. SepTipovi /\ KnjigeOK /\ PosloviOK /\ RadniciOK /\ KorisnikOK(korisnik, kif)
  BY SepInvDijelovi
<1>2. /\ dan' = dan /\ podesavanje' = podesavanje /\ zatvoreno' = zatvoreno /\ kif' = kif
      /\ nalog' = nalog /\ brava' = brava /\ korisnik' = korisnik /\ istorija' = istorija
      /\ radnik' = radnik /\ obrade' = [obrade EXCEPT ![d] = "PENDING"]
  BY DEF RetrySepAutomation, Odjednom
<1>3. obrade' \in [Dan -> Obrade0] /\ IstiPoslovi(obrade, obrade')
      /\ \A x \in Dan : obrade'[x] = "DONE" => obrade[x] = "DONE"
  BY <1>1, <1>2 DEF SepTipovi, Obrade0, IstiPoslovi
<1>4. SepTipovi'
  BY <1>1, <1>2, <1>3 DEF SepTipovi
<1>5. KnjigeOK' /\ KorisnikOK(korisnik, kif)'
  BY <1>1, <1>2 DEF KnjigeOK
<1>6. Prelaz(kif, istorija.dirao, kif', istorija'.dirao)
      /\ BezNovih(kif, istorija.dirao, kif', istorija'.dirao)
  BY <1>2, PrelazIsti
<1>7. PosloviOK'
  <2>1. Vrste(kif, istorija.dirao, podesavanje.vrsta) /\ Gotovi(kif, istorija.dirao, obrade)
        /\ Prate(kif, istorija.dirao, obrade)
    BY <1>1 DEF PosloviOK
  <2>2. Gotovi(kif, istorija.dirao, obrade')
    BY <1>3, <2>1 DEF Gotovi
  <2>3. Prate(kif, istorija.dirao, obrade')
    BY <1>3, <2>1 DEF Prate, Posao, IstiPoslovi
  <2> QED
    BY <1>2, <2>1, <2>2, <2>3 DEF PosloviOK
<1>8. RadniciOK'
  <2>1. PICK Q : Q = Proces
    OBVIOUS
  <2>2. /\ Q \subseteq Proces /\ (\A p \in Q : radnik'[p] = radnik[p])
        /\ (\A p \in Q : brava' = p => brava = p) /\ podesavanje'.vrsta = podesavanje.vrsta
        /\ \A p \in Q : brava' = p => BezNovih(kif, istorija.dirao, kif', istorija'.dirao)
    BY <1>2, <1>6, <2>1
  <2> QED
    BY <1>1, <1>3, <1>6, <2>1, <2>2, RadniciOstaju DEF RadniciOK
<1> QED
  BY <1>4, <1>5, <1>7, <1>8 DEF SepInv, KnjigeOK, PosloviOK, RadniciOK

LEMMA KorisnikInv == ASSUME SepInv, Korisnik PROVE SepInv'
<1>1. ASSUME NEW v \in Vrsta, PostJournal(v) PROVE SepInv'
  BY <1>1, StatusNalogaInv DEF PostJournal, Statusi
<1>2. ASSUME NEW v \in Vrsta, ReopenJournal(v) PROVE SepInv'
  BY <1>2, StatusNalogaInv DEF ReopenJournal, Statusi
<1> QED
  BY <1>1, <1>2, ProvjereInv, UveziRucnoInv, UpisiKifInv, ObrisiKifInv, DeleteJournalInv,
     OdbijInv, ZatvoriInv, KnjiziRucnoInv, SaveSepAutomationInv, RetrySepAutomationInv DEF Korisnik

---------------------------------------------------------------------------
(* The invariant holds of every behaviour *)

LEMMA PocetakInv == ASSUME Init PROVE SepInv
<1>1. SepTipovi
  <2>1. nalog \in [Vrsta -> [status : Statusi, stavke : [Racun -> Nat]]]
    BY DEF Init, PrazanNalog, Statusi
  <2>2. radnik \in [Proces -> Radnik0]
    BY MiranZna DEF Init
  <2>3. korisnik \in Zahtjev0
    BY SlobodanZna DEF Init
  <2>4. IsFiniteSet(kif) /\ kif \subseteq Red
    BY FS_EmptySet DEF Init
  <2>5. podesavanje \in [aktivna : BOOLEAN, od : Nat, vrsta : Vrsta]
    <3>1. PICK v \in Vrsta : podesavanje = [aktivna |-> TRUE, od |-> 1, vrsta |-> v]
      BY DEF Init
    <3> QED
      BY <3>1
  <2> QED
    BY <2>1, <2>2, <2>3, <2>4, <2>5 DEF Init, SepTipovi, Obrade0
<1>2. kif = {} /\ obrade = [d \in Dan |-> "NEMA"] /\ nalog = [v \in Vrsta |-> PrazanNalog]
      /\ radnik = [p \in Proces |-> Miran] /\ korisnik = Slobodan
  BY DEF Init
<1>3. Kljucevi(kif) /\ JedanRed(kif, istorija.sporni) /\ Vrste(kif, istorija.dirao, podesavanje.vrsta)
      /\ Prate(kif, istorija.dirao, obrade)
  BY <1>2 DEF Kljucevi, JedanRed, Vrste, Prate, Ceka
<1>4. UKnjigama(kif, nalog, istorija.sporni)
  BY <1>2 DEF UKnjigama, Proknjizen, PrazanNalog
<1>5. Gotovi(kif, istorija.dirao, obrade)
  BY <1>2 DEF Gotovi
<1>6. \A p \in Proces : RadnikOK(radnik[p], brava = p, podesavanje.vrsta, kif, istorija.dirao, obrade)
  BY <1>2, MiranZna
<1>7. KorisnikOK(korisnik, kif)
  BY <1>2, SlobodanZna
<1> QED
  BY <1>1, <1>3, <1>4, <1>5, <1>6, <1>7 DEF SepInv

LEMMA KorakInv == ASSUME SepInv, [Next]_vars PROVE SepInv'
<1>1. CASE Next
  BY <1>1, NoviDanInv, RadiInv, KvarInv, KorisnikInv DEF Next
<1>2. CASE UNCHANGED vars
  BY <1>2, MirneTabele DEF vars, SepInv, SepTipovi
<1> QED
  BY <1>1, <1>2

LEMMA UvijekInv == Spec => []SepInv
<1>1. Init => SepInv
  BY PocetakInv
<1>2. SepInv /\ [Next]_vars => SepInv'
  BY KorakInv
<1> QED
  BY <1>1, <1>2, PTL DEF Spec

---------------------------------------------------------------------------
(* The theorems *)

\* The tables, the processes and the user's request hold what they are meant to hold.
THEOREM SepUvijekTipovi == Spec => []SepTipovi
<1>1. SepInv => SepTipovi
  BY DEF SepInv
<1> QED
  BY <1>1, UvijekInv, PTL

\* However processes, crashes, imports by hand and deletions of journals mix, an invoice
\* has one row in the KIF and is in the ledger exactly when that row is posted.
THEOREM UvijekJednomAkoNijeSporno == Spec => []JednomAkoNijeSporno
<1>1. SepInv => JednomAkoNijeSporno
  BY SlijediJednom DEF SepInv, SepTipovi
<1> QED
  BY <1>1, UvijekInv, PTL

\* A row that a crash left imported and not posted always has a job that is not done.
THEOREM NezavrsenoSeUvijekPrati == Spec => []NezavrsenoSePrati
<1>1. ASSUME SepInv PROVE NezavrsenoSePrati
  <2>1. SUFFICES ASSUME NEW e \in kif, e.izvor = "AUTO", ~e.knjizen, e.racun \notin istorija.dirao
                 PROVE  \E d \in Dan : Izdat[e.racun] \in Period(d)
                                       /\ obrade[d] \in {"PENDING", "RUNNING", "REVIEW"}
    BY DEF NezavrsenoSePrati
  <2>2. e \in Red /\ e.racun \in Racun /\ e \in Ceka(kif, istorija.dirao)
    BY <1>1, <2>1 DEF SepInv, SepTipovi, Ceka, Red
  <2>3. Prate(kif, istorija.dirao, obrade) /\ Gotovi(kif, istorija.dirao, obrade)
        /\ obrade \in [Dan -> Obrade0]
    BY <1>1 DEF SepInv, SepTipovi
  <2>4. PICK d \in Dan : Izdat[e.racun] \in Period(d) /\ obrade[d] # "NEMA"
    BY <2>2, <2>3 DEF Prate, Posao
  <2>5. obrade[d] # "DONE"
    <3>1. e.racun \in UDatoteci(d) \ istorija.dirao
      BY <2>1, <2>2, <2>4 DEF UDatoteci
    <3>2. ~Zavrsen(kif, e.racun)
      BY <2>1 DEF Zavrsen
    <3> QED
      BY <2>3, <3>1, <3>2 DEF Gotovi
  <2>6. obrade[d] \in Obrade0
    BY <2>3
  <2> QED
    BY <2>4, <2>5, <2>6 DEF Obrade0
<1> QED
  BY <1>1, UvijekInv, PTL

\* A change of the settings never leaves an unposted row of the automation behind.
THEOREM VrstaSeUvijekPoklapa == Spec => []VrstaSePoklapa
<1>1. SepInv => VrstaSePoklapa
  BY DEF SepInv, Vrste, Ceka, VrstaSePoklapa
<1> QED
  BY <1>1, UvijekInv, PTL

\* Only UpisiStatus takes a process from the status to the queue.
LEMMA DrugiStatus ==
  ASSUME SepInv, Next, NEW p \in Proces, Kod(p, "status"), radnik'[p].pc = "red"
  PROVE  UpisiStatus(p)
<1>1. radnik \in [Proces -> Radnik0] /\ radnik[p].pc = "status"
  BY DEF SepInv, SepTipovi, Kod
<1>2. radnik'[p] # radnik[p] /\ radnik'[p] # Miran
  BY <1>1 DEF Miran
<1>3. ASSUME NEW q \in Proces, Kvar(q) PROVE FALSE
  BY <1>1, <1>2, <1>3 DEF Kvar
<1>4. ASSUME NEW q \in Proces, NEW z, Idi(q, z), q # p PROVE FALSE
  BY <1>1, <1>2, <1>4 DEF Idi
<1>5. ASSUME NEW q \in Proces, Radi(q) PROVE q = p
  <2>1. \E z : Idi(q, z)
    BY <1>5 DEF Radi, Uzmi, PocniPosao, ZavrsiRed, GreskaPortala, Preuzmi, MaprOdbija, ProvjeriRacun,
                UpisiRacun, Popisi, KnjiziAutomatski, Provjeri, UpisiStatus, Prekini, Odustani
  <2> QED
    BY <1>4, <2>1
<1>6. ASSUME Radi(p) PROVE UpisiStatus(p)
  <2>1. ASSUME Odustani(p) PROVE FALSE
    BY <1>1, <1>2, <2>1 DEF Odustani, Idi
  <2>2. ~Kod(p, "miruje") /\ ~Kod(p, "red") /\ ~Kod(p, "preuzmi") /\ ~Kod(p, "uvoz")
        /\ ~Kod(p, "upis") /\ ~Kod(p, "knjizi") /\ ~Kod(p, "kraj")
    BY <1>1 DEF Kod
  <2> QED
    BY <1>6, <2>2 DEF Radi, Uzmi, PocniPosao, ZavrsiRed, GreskaPortala, Preuzmi, MaprOdbija,
                      ProvjeriRacun, UpisiRacun, Popisi, KnjiziAutomatski, Provjeri
<1>7. ASSUME NoviDan PROVE FALSE
  BY <1>2, <1>7 DEF NoviDan
<1>8. ASSUME Korisnik PROVE FALSE
  <2>1. radnik' = radnik \/ \E a \in BOOLEAN, v \in Vrsta : SaveSepAutomation(a, v)
    BY <1>8 DEF Korisnik, UnesiKif, UveziRucno, ObrisiKif, UpisiKif, ObrisiKifUpis, DeleteJournalUpis,
                OdbijKorisnika, ZatvoriOtvori, KnjiziRucno, PostJournal, ReopenJournal, DeleteJournal,
                StatusNaloga, Provjereno, Upisuje, RetrySepAutomation
  <2>2. ASSUME NEW a \in BOOLEAN, NEW v \in Vrsta, SaveSepAutomation(a, v) PROVE FALSE
    <3>1. radnik' = [q \in Proces |-> [radnik[q] EXCEPT !.vazi = FALSE]]
      BY <2>2 DEF SaveSepAutomation
    <3>2. radnik'[p].pc = "status"
      BY <1>1, <3>1 DEF Radnik0
    <3> QED
      BY <3>2
  <2> QED
    BY <1>2, <2>1, <2>2
<1> QED
  BY <1>3, <1>5, <1>6, <1>7, <1>8 DEF Next

\* A job becomes DONE only when all it downloaded is in the KIF and posted.
THEOREM GotovJeUvijekUvezen == Spec => GotovJeUvezen
<1>1. ASSUME SepInv, Next, NEW p \in Proces, Kod(p, "status"), radnik'[p].pc = "red",
             obrade'[radnik[p].posao] = "DONE", NEW r \in radnik[p].preuzeto \ istorija.dirao
      PROVE  \E e \in Redovi(r) : e.izvor = "AUTO" => e.knjizen
  <2>1. UpisiStatus(p)
    BY <1>1, DrugiStatus
  <2>2. PICK z : z = radnik[p]
    OBVIOUS
  <2>3. z \in Radnik0 /\ Zna(z, p) /\ z.pc = "status" /\ obrade \in [Dan -> Obrade0]
    BY <1>1, <2>2, RadnikZna DEF Kod, SepInv, SepTipovi
  <2>4. z.posao \in Dan /\ Ishodi(z, kif, istorija.dirao)
    BY <2>3 DEF Zna, RadnikOK, UPoslu
  <2>5. ~z.greska
    BY <1>1, <2>1, <2>2, <2>3, <2>4 DEF UpisiStatus, Ishod
  <2>6. Zavrsen(kif, r)
    BY <1>1, <2>2, <2>3, <2>4, <2>5 DEF Ishodi
  <2> QED
    BY <2>6 DEF Zavrsen, Ima, Redovi
<1>2. SepInv /\ [Next]_vars =>
        [\A p \in Proces :
           Kod(p, "status") /\ radnik'[p].pc = "red" /\ obrade'[radnik[p].posao] = "DONE" =>
             \A r \in radnik[p].preuzeto \ istorija.dirao :
               \E e \in Redovi(r) : e.izvor = "AUTO" => e.knjizen]_vars
  BY <1>1
<1> QED
  BY <1>2, UvijekInv, PTL DEF Spec, GotovJeUvezen

\* What a process posts are rows of the automation, and it completes nobody's draft.
LEMMA SvojeKnjizi ==
  ASSUME SepInv, NEW p \in Proces, Radi(p)
  PROVE  /\ \A e \in kif : (e.izvor # "AUTO" /\ ~e.knjizen) =>
              \A x \in kif' : (x.racun = e.racun /\ x.izvor = e.izvor) => ~x.knjizen
         /\ \A v \in Vrsta : nalog[v].status = "DRAFT" => nalog'[v] = nalog[v]
<1>1. RedoviOK
  BY KnjigeSada
<1>2. CASE kif' = kif /\ nalog' = nalog
  BY <1>1, <1>2 DEF RedoviOK, Kljucevi
<1>3. ASSUME NEW r \in Racun, NEW v \in Vrsta, kif' = Upisano(r, "AUTO", v)
      PROVE  \A e \in kif : (e.izvor # "AUTO" /\ ~e.knjizen) =>
               \A x \in kif' : (x.racun = e.racun /\ x.izvor = e.izvor) => ~x.knjizen
  <2>1. \A x \in kif' : (\E y \in kif : IstiRed(x, y) /\ x.knjizen = y.knjizen)
                        \/ (x = NoviRed(r, "AUTO", v) /\ Redovi(r) = {})
    BY <1>1, <1>3, UpisanoRedovi
  <2> QED
    BY <1>1, <2>1 DEF RedoviOK, Kljucevi, IstiRed, NoviRed
<1>4. ASSUME NEW r \in Racun, UpisiRacun(p, r), kif' # kif
      PROVE  nalog' = nalog /\ \E v \in Vrsta : kif' = Upisano(r, "AUTO", v)
  <2>1. Smije(p) /\ kif' = Upisano(r, "AUTO", radnik[p].vrsta) /\ nalog' = nalog
    BY <1>4 DEF UpisiRacun, SmijeUTransakciji
  <2>2. radnik[p].vrsta = podesavanje.vrsta /\ podesavanje.vrsta \in Vrsta
    BY <2>1, RadnikZna DEF Smije, Zna, RadnikOK, SepInv, SepTipovi
  <2> QED
    BY <2>1, <2>2
<1>5. ASSUME KnjiziAutomatski(p), ~(kif' = kif /\ nalog' = nalog)
      PROVE  /\ \A e \in kif : (e.izvor # "AUTO" /\ ~e.knjizen) =>
                  \A x \in kif' : (x.racun = e.racun /\ x.izvor = e.izvor) => ~x.knjizen
             /\ \A v \in Vrsta : nalog[v].status = "DRAFT" => nalog'[v] = nalog[v]
  <2>1. PICK z, v : z = radnik[p] /\ v = z.vrsta
    OBVIOUS
  <2>2. PICK A : A = ZaKnjizenje(v, z.lista)
    OBVIOUS
  <2>3. Proknjizi(v, A, "POSTED") /\ MozeUNalog(v) /\ z.pc = "knjizi" /\ Zna(z, p)
    BY <1>5, <2>1, <2>2, RadnikZna DEF KnjiziAutomatski, Kod
  <2>4. \A x \in z.lista : x.izvor = "AUTO"
    BY <2>3 DEF Zna, RadnikOK, Lista
  <2>5. \A e \in A : e.izvor = "AUTO" /\ e \in kif
    BY <2>2, <2>4 DEF ZaKnjizenje
  <2>6. kif' = (kif \ A) \cup Promijenjeni(A, TRUE)
    BY <2>3 DEF Proknjizi, Promijenjeni
  <2>7. KaoPrije(kif, A, TRUE, (kif \ A) \cup Promijenjeni(A, TRUE))
    BY <1>1, <2>5, KnjizenjeRedova DEF RedoviOK
  <2>8. \A x \in kif' : x \in kif \/ x.izvor = "AUTO"
    BY <2>5, <2>6, <2>7 DEF KaoPrije, IstiRed
  <2>9. \A e \in kif : (e.izvor # "AUTO" /\ ~e.knjizen) =>
                  \A x \in kif' : (x.racun = e.racun /\ x.izvor = e.izvor) => ~x.knjizen
    BY <1>1, <2>8 DEF RedoviOK, Kljucevi
  <2>10. nalog \in [Vrsta -> [status : Statusi, stavke : [Racun -> Nat]]]
    BY KnjigeSada DEF KnjigeTip
  <2>11. \A u \in Vrsta : nalog[u].status = "DRAFT" => nalog'[u] = nalog[u]
    BY <2>3, <2>10 DEF Proknjizi, MozeUNalog
  <2> QED
    BY <2>9, <2>11
<1>6. \/ kif' = kif /\ nalog' = nalog
      \/ \E r \in Racun : UpisiRacun(p, r) /\ kif' # kif
      \/ KnjiziAutomatski(p)
  BY DEF Radi, Uzmi, PocniPosao, ZavrsiRed, GreskaPortala, Preuzmi, MaprOdbija, ProvjeriRacun,
         UpisiRacun, Popisi, Provjeri, UpisiStatus, tabele
<1> QED
  BY <1>2, <1>3, <1>4, <1>5, <1>6

\* The automation posts no row but its own and completes no draft that a user left.
THEOREM UvijekSamoSvojeKnjizi == Spec => SamoSvojeKnjizi
<1>1. SepInv /\ [Next]_vars =>
        [\A p \in Proces : Radi(p) =>
           /\ \A e \in kif : (e.izvor # "AUTO" /\ ~e.knjizen) =>
                \A x \in kif' : (x.racun = e.racun /\ x.izvor = e.izvor) => ~x.knjizen
           /\ \A v \in Vrsta : nalog[v].status = "DRAFT" => nalog'[v] = nalog[v]]_vars
  BY SvojeKnjizi
<1> QED
  BY <1>1, UvijekInv, PTL DEF Spec, SamoSvojeKnjizi

=============================================================================
