---------------------------- MODULE BankaProofs ----------------------------
(***************************************************************************)
(* Proofs about Banka, for any statements, messages, requests, amounts and *)
(* failures: its types, that statement and journal agree, that an          *)
(* invoice's payment status is what its settlements say, that a completed  *)
(* message has left all its statements in the database, that the           *)
(* automation posts nothing a user has taken over, and that a closed year  *)
(* rests.                                                                  *)
(***************************************************************************)
EXTENDS Banka, Zbirovi

---------------------------------------------------------------------------
(* Types *)

Koraci == {"miran", "forma", "brisanje", "knjizi", "prilog", "zapis", "auto_poruke", "auto_knjizi"}
Radnik0 == [pc : Koraci, auto : BOOLEAN, izvod : Izvod \cup {0}, staro : BOOLEAN, placeno : Nat,
            poruka : Poruka \cup {0}, prilozi : SUBSET Izvod, poruke : SUBSET Poruka,
            spremni : SUBSET Izvod]
Stanja == {"NEMA", "READY", "NEEDS_REVIEW", "POSTED"}
Izvod0 == [status : Stanja, rezim : {"AUTO", "MANUAL"}, nalog : BOOLEAN]
Nalog0 == {"NEMA", "DRAFT", "POSTED"}
Placanja == {"UNPAID", "PARTIALLY_PAID", "PAID", "OVERPAID"}
Zapis0 == {"NEMA", "GRESKA", "UVEZEN", "OBRISAN"}

\* A message and its attachments have a record each; the message's own is pending or not.
ZapisiUredni(R) ==
  \A p \in Poruka : /\ R[p] \in [Prilozi[p] \cup {0} -> Zapis0]
                    /\ R[p][0] \in {"NEMA", "GRESKA"}

BankaTipovi ==
  /\ izvod \in [Izvod -> Izvod0] /\ nalog \in [Izvod -> Nalog0]
  /\ veza \in [Izvod -> Nat] /\ ostalo \in Nat /\ placanje \in Placanja
  /\ zakljucena \in BOOLEAN
  /\ radnik \in [Radnik -> Radnik0]
  /\ red = [p \in Poruka |-> red[p]] /\ ZapisiUredni(red)
  /\ zakup \in Radnik \cup {0} /\ obradjen \in BOOLEAN /\ prekidi \in Nat

---------------------------------------------------------------------------
(* The inductive invariant *)

\* Statement and journal, for any tables.
NaloziOK(I, N, V) ==
  \A i \in Izvod :
    /\ I[i].nalog => N[i] = IF I[i].status = "POSTED" THEN "POSTED" ELSE "DRAFT"
    /\ I[i].status = "POSTED" => I[i].nalog
    /\ V[i] > 0 => N[i] = "POSTED"

\* What is settled by statements that name the invoice's partner, and by all.
Vidljivo(V, o) == ZbirNad(V, SaPartnerom) + o
Sve(V, o) == ZbirNad(V, Izvod) + o
SamoNazvani(V) == \A i \in Izvod \ SaPartnerom : V[i] = 0
PlacanjeOK(V, o, s) ==
  UKnjizi => Vidljivo(V, o) <= Dug /\ (SamoNazvani(V) => s = Status(Sve(V, o)))

\* Every attachment of a message is recorded; whatever is recorded as imported is there,
\* and a message that does not count as failed has all recorded or none.
Zabiljezena(R, p) == \A k \in Prilozi[p] : R[p][k] # "NEMA"
Netaknuta(R, p) == \A k \in Prilozi[p] : R[p][k] = "NEMA"
PorukeOK(R, I) ==
  \A p \in Poruka :
    /\ \A k \in Prilozi[p] : R[p][k] = "UVEZEN" => I[k].status # "NEMA"
    /\ R[p][0] = "NEMA" => Zabiljezena(R, p) \/ Netaknuta(R, p)

\* What a process that imports a message knows: it is recorded as failed, or complete by
\* the work of another; what is not left to do is recorded.
Prilaze(z, R) ==
  z.pc \in {"prilog", "zapis"} =>
    /\ z.poruka \in Poruka /\ z.prilozi \subseteq Prilozi[z.poruka]
    /\ R[z.poruka][0] = "GRESKA" \/ Zabiljezena(R, z.poruka)
    /\ \A k \in Prilozi[z.poruka] \ z.prilozi : R[z.poruka][k] # "NEMA"
\* The statement it is about to record is there.
Uvezeno(z, I) ==
  z.pc = "zapis" =>
    z.prilozi # {} /\ (z.izvod # 0 => z.izvod = Min(z.prilozi) /\ I[z.izvod].status # "NEMA")
\* What a posting has read, unless one of its rows was written since.
Snimak(z, V, o, zatvorena) ==
  z.pc = "knjizi" /\ ~z.staro =>
    /\ ~zatvorena
    /\ UKnjizi /\ z.izvod \in SaPartnerom =>
         Vidljivo(V, o) <= z.placeno /\ z.placeno <= Sve(V, o)
AutoKoraci == {"auto_poruke", "prilog", "zapis", "auto_knjizi", "knjizi"}
RadnikOK(z, I, V, o, zatvorena, R) ==
  /\ z.auto => z.pc \in AutoKoraci
  /\ Prilaze(z, R) /\ Uvezeno(z, I) /\ Snimak(z, V, o, zatvorena)

BankaInv ==
  /\ BankaTipovi
  /\ NaloziOK(izvod, nalog, veza) /\ PlacanjeOK(veza, ostalo, placanje) /\ PorukeOK(red, izvod)
  /\ \A w \in Radnik : RadnikOK(radnik[w], izvod, veza, ostalo, zakljucena, red)

---------------------------------------------------------------------------
(* Sums of settlements *)

LEMMA KonacnoIzvoda == IsFiniteSet(Izvod) /\ IsFiniteSet(SaPartnerom) /\ SaPartnerom \subseteq Izvod
BY IzvodiPretpostavke, FS_Subset

\* The community module's sum is the one of Zbirovi.
LEMMA ZatvorenoJe ==
  ASSUME NEW V \in [Izvod -> Nat], NEW o \in Nat
  PROVE  Zatvoreno(V, o) = Sve(V, o)
<1> DEFINE P(h) == h = [s \in SUBSET Izvod |-> IF s = {} THEN 0
                          ELSE V[CHOOSE x \in s : TRUE] + h[s \ {CHOOSE x \in s : TRUE}]]
<1>1. \A h : P(h) <=> JeZbir(h, V, Izvod)
  BY DEF JeZbir, Izabran
<1>2. \E h : P(h)
  <2> HIDE DEF P
  <2> QED
    BY <1>1, KonacnoIzvoda, PostojiZbir
<1>3. P(CHOOSE h : P(h))
  BY <1>2
<1>4. DOMAIN V = Izvod
  OBVIOUS
<1>5. SumFunction(V) = (CHOOSE h : P(h))[Izvod]
  BY <1>4 DEF SumFunction, SumFunctionOnSet, FoldFunctionOnSet, MapThenFoldSet
<1> HIDE DEF P
<1>6. SumFunction(V) = ZbirNad(V, Izvod)
  BY <1>1, <1>3, <1>5, KonacnoIzvoda, ZbirJe
<1> QED
  BY <1>6 DEF Zatvoreno, Sve

\* Both sums are natural, and what names the partner is part of all.
LEMMA ZbiroviPrirodni ==
  ASSUME NEW V \in [Izvod -> Nat], NEW o \in Nat
  PROVE  Sve(V, o) \in Nat /\ Vidljivo(V, o) \in Nat /\ Vidljivo(V, o) <= Sve(V, o)
<1>1. ZbirNad(V, Izvod) \in Nat
  BY KonacnoIzvoda, ZbirCio
<1>2. ZbirNad(V, SaPartnerom) \in Nat
  <2>1. \A x \in SaPartnerom : V[x] \in Nat
    BY KonacnoIzvoda
  <2> QED
    BY <2>1, KonacnoIzvoda, ZbirCio
<1>3. ZbirNad(V, SaPartnerom) <= ZbirNad(V, Izvod)
  BY KonacnoIzvoda, ZbirDijela
<1> QED
  BY <1>1, <1>2, <1>3 DEF Sve, Vidljivo

\* Where only statements that name the partner settle, the sums are the same.
LEMMA SveJeVidljivo ==
  ASSUME NEW V \in [Izvod -> Nat], NEW o \in Nat, SamoNazvani(V)
  PROVE  Sve(V, o) = Vidljivo(V, o)
<1> DEFINE B == Izvod \ SaPartnerom
<1>1. IsFiniteSet(B) /\ SaPartnerom \cup B = Izvod
  BY KonacnoIzvoda, FS_Subset
<1>2. ZbirNad(V, B) = 0
  BY <1>1, ZbirNula DEF SamoNazvani
<1>3. ZbirNad(V, SaPartnerom \cup B) <= ZbirNad(V, SaPartnerom) + ZbirNad(V, B)
  <2>1. \A x \in SaPartnerom \cup B : V[x] \in Nat
    BY <1>1
  <2> QED
    BY <1>1, <2>1, KonacnoIzvoda, ZbirUnije
<1> HIDE DEF B
<1>4. ZbirNad(V, Izvod) <= ZbirNad(V, SaPartnerom)
  <2>1. ZbirNad(V, SaPartnerom) \in Int
    BY KonacnoIzvoda, ZbirCio
  <2> QED
    BY <1>1, <1>2, <1>3, <2>1
<1>5. ZbirNad(V, Izvod) \in Nat /\ ZbirNad(V, SaPartnerom) \in Nat
  <2>1. \A x \in SaPartnerom : V[x] \in Nat
    BY KonacnoIzvoda
  <2> QED
    BY <2>1, KonacnoIzvoda, ZbirCio
<1>6. ZbirNad(V, SaPartnerom) <= ZbirNad(V, Izvod)
  BY KonacnoIzvoda, ZbirDijela
<1>7. ZbirNad(V, SaPartnerom) = ZbirNad(V, Izvod)
  BY <1>4, <1>5, <1>6
<1> QED
  BY <1>7 DEF Sve, Vidljivo

\* One statement's edge changes.
LEMMA JednaVeza ==
  ASSUME NEW V \in [Izvod -> Nat], NEW W \in [Izvod -> Nat], NEW o \in Nat, NEW i \in Izvod,
         \A j \in Izvod \ {i} : W[j] = V[j]
  PROVE  /\ Sve(W, o) = Sve(V, o) - V[i] + W[i]
         /\ Vidljivo(W, o) = IF i \in SaPartnerom THEN Vidljivo(V, o) - V[i] + W[i]
                             ELSE Vidljivo(V, o)
<1>1. \A S \in SUBSET Izvod : IsFiniteSet(S)
  BY KonacnoIzvoda, FS_Subset
<1>2. \A S \in SUBSET Izvod : ZbirNad(V, S) \in Int /\ ZbirNad(W, S) \in Int
  <2>1. TAKE S \in SUBSET Izvod
  <2>2. \A x \in S : V[x] \in Nat /\ W[x] \in Nat
    OBVIOUS
  <2> QED
    BY <1>1, <2>2, ZbirCio
<1>3. \A S \in SUBSET Izvod : i \notin S => ZbirNad(W, S) = ZbirNad(V, S)
  BY <1>1, ZbirJednakih
<1>4. \A S \in SUBSET Izvod : i \in S => ZbirNad(W, S) = ZbirNad(V, S) - V[i] + W[i]
  <2>1. TAKE S \in SUBSET Izvod
  <2>2. HAVE i \in S
  <2>3. \A x \in S : V[x] \in Int /\ W[x] \in Int
    OBVIOUS
  <2>4. PICK T \in SUBSET Izvod : T = S \ {i}
    OBVIOUS
  <2>5. ZbirNad(V, S) = V[i] + ZbirNad(V, T) /\ ZbirNad(W, S) = W[i] + ZbirNad(W, T)
    BY <1>1, <2>2, <2>3, <2>4, ZbirBezElementa
  <2>6. ZbirNad(W, T) = ZbirNad(V, T)
    BY <1>3, <2>4
  <2> QED
    BY <1>2, <2>2, <2>3, <2>5, <2>6
<1>5. Izvod \in SUBSET Izvod /\ SaPartnerom \in SUBSET Izvod
  BY KonacnoIzvoda
<1>6. V[i] \in Int /\ W[i] \in Int /\ o \in Int
  OBVIOUS
<1> QED
  BY <1>2, <1>3, <1>4, <1>5, <1>6 DEF Sve, Vidljivo

\* No edges are left.
LEMMA BezVeza ==
  ASSUME NEW V \in [Izvod -> Nat], \A i \in Izvod : V[i] = 0
  PROVE  Sve(V, 0) = 0 /\ Vidljivo(V, 0) = 0
<1>1. ZbirNad(V, Izvod) = 0
  BY KonacnoIzvoda, ZbirNula
<1>2. ZbirNad(V, SaPartnerom) = 0
  <2>1. \A x \in SaPartnerom : V[x] = 0
    BY KonacnoIzvoda
  <2> QED
    BY <2>1, KonacnoIzvoda, ZbirNula
<1> QED
  BY <1>1, <1>2 DEF Sve, Vidljivo

\* What a posting settles fits what is open.
LEMMA NovaVezaStane ==
  ASSUME NEW i \in Izvod, NEW q \in Nat
  PROVE  /\ NovaVeza(i, q) \in Nat
         /\ q <= Dug => q + NovaVeza(i, q) <= Dug
         /\ ~(q <= Dug) => NovaVeza(i, q) = 0
<1>1. Uplata[i] \in Nat /\ Dug \in Nat
  BY IzvodiPretpostavke
<1>2. PICK a : a = Dug - q
  OBVIOUS
<1>3. a \in Int
  BY <1>1, <1>2
<1>4. Otvoreno(q) = IF a >= 0 THEN a ELSE 0
  <2>1. \E x \in {0, a} : \A y \in {0, a} : x >= y
    BY <1>3
  <2> QED
    BY <1>2, <1>3, <2>1 DEF Otvoreno, Max
<1>5. PICK b \in Nat : b = Otvoreno(q)
  BY <1>3, <1>4
<1>6. PICK u \in Nat : u = Uplata[i]
  BY <1>1
<1>7. Min({u, b}) = IF u <= b THEN u ELSE b
  <2>1. \E x \in {u, b} : \A y \in {u, b} : x =< y
    BY <1>5, <1>6
  <2> QED
    BY <1>5, <1>6, <2>1 DEF Min
<1>8. NovaVeza(i, q) \in {0, Min({u, b})}
  BY <1>5, <1>6 DEF NovaVeza
<1> QED
  BY <1>1, <1>2, <1>3, <1>4, <1>5, <1>7, <1>8

\* A set of statements that is not empty has a first one.
LEMMA PrviPripada ==
  ASSUME NEW S \in SUBSET Izvod, S # {}
  PROVE  Min(S) \in S
<1> DEFINE T == {w \in SUBSET S : w # {} /\ ~\E x \in w : \A y \in w : x =< y}
<1>1. SUFFICES ASSUME T # {} PROVE FALSE
  <2>1. S \notin T
    BY <1>1
  <2>2. \E x \in S : \A y \in S : x =< y
    BY <2>1
  <2> QED
    BY <2>2 DEF Min
<1>2. S \subseteq Nat
  BY IzvodiPretpostavke
<1>3. IsFiniteSet(S)
  BY IzvodiPretpostavke, FS_Subset
<1>4. PICK m \in T : \A t \in T : t \subseteq m => t = m
  <2>1. T \in SUBSET SUBSET S
    OBVIOUS
  <2> HIDE DEF T
  <2> QED
    BY <1>1, <1>3, <2>1, NajmanjiPodskup
<1>5. PICK c : c \in m
  BY <1>4
<1>6. PICK u : u = m \ {c}
  OBVIOUS
<1>7. CASE u = {}
  BY <1>2, <1>4, <1>5, <1>6, <1>7
<1>8. CASE u # {}
  <2>1. PICK x \in u : \A y \in u : x =< y
    <3>1. u \in SUBSET S /\ u \subseteq m /\ u # m
      BY <1>4, <1>5, <1>6
    <3>2. u \notin T
      BY <1>4, <3>1
    <3> QED
      BY <1>8, <3>1, <3>2
  <2>2. x \in Nat /\ c \in Nat /\ u \subseteq Nat
    BY <1>2, <1>4, <1>5, <1>6, <2>1
  <2>3. \E z \in m : \A y \in m : z =< y
    <3>1. CASE x =< c
      BY <1>6, <2>1, <2>2, <3>1
    <3>2. CASE c =< x
      BY <1>5, <1>6, <2>1, <2>2, <3>2
    <3> QED
      BY <2>2, <3>1, <3>2
  <2> QED
    BY <1>4, <2>3
<1> QED
  BY <1>7, <1>8

---------------------------------------------------------------------------
(* Requests that do not act *)

\* The request goes on where it was; its statement may have been deleted, and a row that it
\* locks written.
IstiPosao(z, y) ==
  /\ y.pc = z.pc /\ y.auto = z.auto /\ y.poruka = z.poruka /\ y.prilozi = z.prilozi
  /\ y.placeno = z.placeno /\ y.izvod \in {z.izvod, 0} /\ (z.staro => y.staro)

\* What it relies on is still so.
JosVazi(y, I, J, V, o, c, W, u, d) ==
  /\ y.pc = "zapis" /\ y.izvod # 0 /\ I[y.izvod].status # "NEMA" => J[y.izvod].status # "NEMA"
  /\ y.pc = "knjizi" /\ ~y.staro =>
       /\ d => c
       /\ UKnjizi /\ y.izvod \in SaPartnerom =>
            Vidljivo(W, u) = Vidljivo(V, o) /\ Sve(V, o) <= Sve(W, u)

\* Records of messages only become more complete.
Napreduju(R, Q) ==
  \A p \in Poruka :
    /\ \A k \in Prilozi[p] : R[p][k] # "NEMA" => Q[p][k] # "NEMA"
    /\ R[p][0] = "GRESKA" => Q[p][0] = "GRESKA" \/ Zabiljezena(Q, p)

LEMMA RadnikOstaje ==
  ASSUME NEW z \in Radnik0, NEW y \in Radnik0, NEW I, NEW J, NEW V \in [Izvod -> Nat], NEW o \in Nat,
         NEW W \in [Izvod -> Nat], NEW u \in Nat, NEW c, NEW d, NEW R, NEW Q,
         RadnikOK(z, I, V, o, c, R), IstiPosao(z, y), JosVazi(y, I, J, V, o, c, W, u, d), Napreduju(R, Q)
  PROVE  RadnikOK(y, J, W, u, d, Q)
<1>1. y.auto => y.pc \in AutoKoraci
  BY DEF RadnikOK, IstiPosao
<1>2. Prilaze(y, Q)
  <2>1. SUFFICES ASSUME y.pc \in {"prilog", "zapis"} PROVE Prilaze(y, Q)
    BY DEF Prilaze
  <2>2. PICK p : p = z.poruka
    OBVIOUS
  <2>3. /\ p \in Poruka /\ z.prilozi \subseteq Prilozi[p]
        /\ R[p][0] = "GRESKA" \/ Zabiljezena(R, p)
        /\ \A k \in Prilozi[p] \ z.prilozi : R[p][k] # "NEMA"
    BY <2>1, <2>2 DEF RadnikOK, Prilaze, IstiPosao
  <2>4. y.poruka = p /\ y.prilozi = z.prilozi
    BY <2>2 DEF IstiPosao
  <2>5. Q[p][0] = "GRESKA" \/ Zabiljezena(Q, p)
    BY <2>3 DEF Napreduju, Zabiljezena
  <2>6. \A k \in Prilozi[p] \ z.prilozi : Q[p][k] # "NEMA"
    BY <2>3 DEF Napreduju
  <2> QED
    BY <2>3, <2>4, <2>5, <2>6 DEF Prilaze
<1>3. Uvezeno(y, J)
  BY DEF RadnikOK, Uvezeno, IstiPosao, JosVazi
<1>4. Snimak(y, W, u, d)
  <2>1. SUFFICES ASSUME y.pc = "knjizi", ~y.staro PROVE Snimak(y, W, u, d)
    BY DEF Snimak
  <2>2. z.pc = "knjizi" /\ ~z.staro
    BY <2>1 DEF IstiPosao
  <2>3. ~c /\ ~d
    BY <2>1, <2>2 DEF RadnikOK, Snimak, JosVazi
  <2>4. ASSUME UKnjizi, y.izvod \in SaPartnerom
        PROVE  Vidljivo(W, u) <= y.placeno /\ y.placeno <= Sve(W, u)
    <3>1. y.izvod = z.izvod
      BY <2>4, IzvodiPretpostavke DEF IstiPosao
    <3>2. Vidljivo(V, o) <= z.placeno /\ z.placeno <= Sve(V, o)
      BY <2>2, <2>4, <3>1 DEF RadnikOK, Snimak
    <3>3. Vidljivo(W, u) = Vidljivo(V, o) /\ Sve(V, o) <= Sve(W, u)
      BY <2>1, <2>4 DEF JosVazi
    <3>4. z.placeno \in Nat /\ y.placeno = z.placeno
      BY DEF Radnik0, IstiPosao
    <3>5. Sve(V, o) \in Nat /\ Sve(W, u) \in Nat
      BY ZbiroviPrirodni
    <3> QED
      BY <3>2, <3>3, <3>4, <3>5
  <2> QED
    BY <2>3, <2>4 DEF Snimak
<1> QED
  BY <1>1, <1>2, <1>3, <1>4 DEF RadnikOK

\* A request one of whose rows is written is marked, the others stay as they are.
LEMMA Oznaceni ==
  ASSUME radnik \in [Radnik -> Radnik0], NEW v \in Radnik, NEW A
  PROVE  /\ Zastari(A)[v] \in Radnik0 /\ IstiPosao(radnik[v], Zastari(A)[v])
         /\ Zastari(A)[v].pc = "knjizi" /\ ~Zastari(A)[v].staro =>
              /\ ~(RedGodine \subseteq A)
              /\ UKnjizi /\ Zastari(A)[v].izvod \in SaPartnerom => ~(RedRacuna \subseteq A)
<1>1. PICK z \in Radnik0 : z = radnik[v]
  OBVIOUS
<1>2. PICK y : y = Zastari(A)[v]
  OBVIOUS
<1>3. y = IF Dira(v) \cap A = {} THEN z ELSE [z EXCEPT !.staro = TRUE]
  BY <1>1, <1>2 DEF Zastari
<1>4. y \in Radnik0 /\ IstiPosao(z, y)
  BY <1>1, <1>3 DEF Radnik0, IstiPosao
<1>5. ASSUME y.pc = "knjizi", ~y.staro
      PROVE  ~(RedGodine \subseteq A) /\ (UKnjizi /\ y.izvod \in SaPartnerom => ~(RedRacuna \subseteq A))
  <2>1. y = z /\ Dira(v) \cap A = {}
    BY <1>1, <1>3, <1>5 DEF Radnik0
  <2>2. Kod(v, "knjizi") /\ ~Kod(v, "forma")
    BY <1>1, <1>5, <2>1 DEF Kod
  <2>3. Dira(v) = Red(z.izvod) \cup RedGodine \cup (IF z.izvod \in SaPartnerom THEN RedRacuna ELSE {})
    BY <1>1, <2>2 DEF Dira
  <2>4. RedGodine \subseteq Dira(v) /\ <<"godina", 0>> \in RedGodine
    BY <2>3 DEF RedGodine
  <2>5. UKnjizi /\ y.izvod \in SaPartnerom => RedRacuna \subseteq Dira(v) /\ <<"racun", 0>> \in RedRacuna
    BY <2>1, <2>3 DEF RedRacuna
  <2> QED
    BY <2>1, <2>4, <2>5
<1> QED
  BY <1>1, <1>2, <1>4, <1>5

---------------------------------------------------------------------------
(* Steps *)

TabeleOK ==
  /\ NaloziOK(izvod, nalog, veza) /\ PlacanjeOK(veza, ostalo, placanje) /\ PorukeOK(red, izvod)

\* A step that keeps the tables, and what each request knows, keeps the invariant.
LEMMA KorakInv ==
  ASSUME BankaInv, BankaTipovi', TabeleOK', Napreduju(red, red'), NEW Q \in SUBSET Radnik,
         \A v \in Radnik \ Q : RadnikOK(radnik'[v], izvod', veza', ostalo', zakljucena', red'),
         \A v \in Q : /\ IstiPosao(radnik[v], radnik'[v])
                      /\ JosVazi(radnik'[v], izvod, izvod', veza, ostalo, zakljucena,
                                 veza', ostalo', zakljucena')
  PROVE  BankaInv'
<1>1. \A v \in Q : RadnikOK(radnik'[v], izvod', veza', ostalo', zakljucena', red')
  <2>1. TAKE v \in Q
  <2>2. radnik[v] \in Radnik0 /\ radnik'[v] \in Radnik0
    BY DEF BankaInv, BankaTipovi
  <2>3. veza \in [Izvod -> Nat] /\ veza' \in [Izvod -> Nat] /\ ostalo \in Nat /\ ostalo' \in Nat
    BY DEF BankaInv, BankaTipovi
  <2>4. RadnikOK(radnik[v], izvod, veza, ostalo, zakljucena, red)
    BY DEF BankaInv
  <2> QED
    BY <2>2, <2>3, <2>4, RadnikOstaje
<1>2. \A v \in Radnik : RadnikOK(radnik'[v], izvod', veza', ostalo', zakljucena', red')
  BY <1>1
<1> QED
  BY <1>2 DEF BankaInv, TabeleOK

LEMMA NapredujuIsti == ASSUME NEW R PROVE Napreduju(R, R)
BY DEF Napreduju

\* Tables as they were are enough for anybody.
LEMMA VaziIsto ==
  ASSUME NEW y, veza \in [Izvod -> Nat], ostalo \in Nat
  PROVE  JosVazi(y, izvod, izvod, veza, ostalo, zakljucena, veza, ostalo, zakljucena)
<1>1. Sve(veza, ostalo) <= Sve(veza, ostalo)
  BY ZbiroviPrirodni
<1> QED
  BY <1>1 DEF JosVazi

\* A step of a request that writes records of messages only.
LEMMA SamoZapisi ==
  ASSUME BankaInv, NEW w \in Radnik, NEW z \in Radnik0, radnik' = [radnik EXCEPT ![w] = z],
         UNCHANGED izvodi, red' = [p \in Poruka |-> red'[p]], ZapisiUredni(red'), PorukeOK(red', izvod),
         zakup' \in Radnik \cup {0}, obradjen' \in BOOLEAN, prekidi' \in Nat,
         Napreduju(red, red'), RadnikOK(z, izvod, veza, ostalo, zakljucena, red')
  PROVE  BankaInv'
<1>1. /\ izvod' = izvod /\ nalog' = nalog /\ veza' = veza /\ ostalo' = ostalo
      /\ placanje' = placanje /\ zakljucena' = zakljucena
  BY DEF izvodi
<1>2. BankaTipovi'
  BY <1>1 DEF BankaInv, BankaTipovi
<1>3. TabeleOK'
  BY <1>1 DEF BankaInv, TabeleOK
<1>4. PICK Q \in SUBSET Radnik : Q = Radnik \ {w}
  OBVIOUS
<1>5. radnik \in [Radnik -> Radnik0]
  BY DEF BankaInv, BankaTipovi
<1>6. \A v \in Radnik \ Q : radnik'[v] = z
  BY <1>4, <1>5
<1>7. \A v \in Radnik \ Q : RadnikOK(radnik'[v], izvod', veza', ostalo', zakljucena', red')
  BY <1>1, <1>6
<1>8. \A v \in Q : radnik'[v] = radnik[v]
  BY <1>4, <1>5
<1>9. \A v \in Q : IstiPosao(radnik[v], radnik'[v])
  BY <1>8 DEF IstiPosao
<1>10. veza \in [Izvod -> Nat] /\ ostalo \in Nat
  BY DEF BankaInv, BankaTipovi
<1>11. \A v \in Q : JosVazi(radnik'[v], izvod, izvod', veza, ostalo, zakljucena,
                            veza', ostalo', zakljucena')
  BY <1>1, <1>10, VaziIsto
<1> QED
  BY <1>2, <1>3, <1>4, <1>7, <1>9, <1>11, KorakInv

\* A step of one request that leaves the tables alone.
LEMMA SamoRadnik ==
  ASSUME BankaInv, NEW w \in Radnik, NEW z \in Radnik0, radnik' = [radnik EXCEPT ![w] = z],
         UNCHANGED izvodi, UNCHANGED red,
         zakup' \in Radnik \cup {0}, obradjen' \in BOOLEAN, prekidi' \in Nat,
         RadnikOK(z, izvod, veza, ostalo, zakljucena, red)
  PROVE  BankaInv'
<1>1. red' = [p \in Poruka |-> red'[p]] /\ ZapisiUredni(red') /\ PorukeOK(red', izvod)
  BY DEF BankaInv, BankaTipovi
<1>2. Napreduju(red, red')
  BY NapredujuIsti
<1> QED
  BY <1>1, <1>2, SamoZapisi

\* A write of statements, journals, edges or the year that keeps what the tables promise,
\* deletes nothing, and covers in A the year and the invoice if it writes them.
Upisano(A) ==
  /\ izvod' \in [Izvod -> Izvod0] /\ nalog' \in [Izvod -> Nalog0] /\ veza' \in [Izvod -> Nat]
  /\ ostalo' \in Nat /\ placanje' \in Placanja /\ zakljucena' \in BOOLEAN
  /\ NaloziOK(izvod', nalog', veza') /\ PlacanjeOK(veza', ostalo', placanje')
  /\ \A i \in Izvod : izvod[i].status # "NEMA" => izvod'[i].status # "NEMA"
  /\ RedGodine \subseteq A \/ (zakljucena' => zakljucena)
  /\ RedRacuna \subseteq A \/ (/\ Vidljivo(veza', ostalo') = Vidljivo(veza, ostalo)
                               /\ Sve(veza, ostalo) <= Sve(veza', ostalo'))
PostaIsta == red' = red /\ zakup' \in Radnik \cup {0} /\ obradjen' \in BOOLEAN /\ prekidi' \in Nat

\* A write that marks the requests whose rows A it covers.
LEMMA Pisanje ==
  ASSUME BankaInv, NEW A, NEW Q \in SUBSET Radnik, Upisano(A), PostaIsta,
         radnik' \in [Radnik -> Radnik0],
         \A v \in Q : radnik'[v] = Zastari(A)[v],
         \A v \in Radnik \ Q : RadnikOK(radnik'[v], izvod', veza', ostalo', zakljucena', red')
  PROVE  BankaInv'
<1>1. BankaTipovi'
  BY DEF BankaInv, BankaTipovi, Upisano, PostaIsta
<1>2. TabeleOK'
  <2>1. PorukeOK(red', izvod')
    BY BankaPretpostavke DEF BankaInv, PorukeOK, Upisano, PostaIsta
  <2> QED
    BY <2>1 DEF TabeleOK, Upisano
<1>3. Napreduju(red, red')
  BY NapredujuIsti DEF PostaIsta
<1>4. \A v \in Q : /\ IstiPosao(radnik[v], radnik'[v])
                   /\ JosVazi(radnik'[v], izvod, izvod', veza, ostalo, zakljucena,
                              veza', ostalo', zakljucena')
  <2>1. TAKE v \in Q
  <2>2. PICK y : y = radnik'[v]
    OBVIOUS
  <2>3. radnik \in [Radnik -> Radnik0] /\ v \in Radnik
    BY DEF BankaInv, BankaTipovi
  <2>4. /\ y \in Radnik0 /\ IstiPosao(radnik[v], y)
        /\ y.pc = "knjizi" /\ ~y.staro =>
             /\ ~(RedGodine \subseteq A)
             /\ UKnjizi /\ y.izvod \in SaPartnerom => ~(RedRacuna \subseteq A)
    BY <2>2, <2>3, Oznaceni
  <2>5. y.izvod \in Izvod \cup {0}
    BY <2>4 DEF Radnik0
  <2>6. JosVazi(y, izvod, izvod', veza, ostalo, zakljucena, veza', ostalo', zakljucena')
    BY <2>4, <2>5 DEF JosVazi, Upisano
  <2> QED
    BY <2>2, <2>4, <2>6
<1> QED
  BY <1>1, <1>2, <1>3, <1>4, KorakInv

\* ... by a request, which goes on as z.
LEMMA PisanjeRadnika ==
  ASSUME BankaInv, NEW A, NEW w \in Radnik, NEW z \in Radnik0, Upisano(A), PostaIsta,
         radnik' = [Zastari(A) EXCEPT ![w] = z],
         RadnikOK(z, izvod', veza', ostalo', zakljucena', red')
  PROVE  BankaInv'
<1>1. radnik \in [Radnik -> Radnik0]
  BY DEF BankaInv, BankaTipovi
<1>2. Zastari(A) \in [Radnik -> Radnik0]
  <2>1. \A v \in Radnik : Zastari(A)[v] \in Radnik0
    BY <1>1, Oznaceni
  <2>2. Zastari(A) = [v \in Radnik |-> Zastari(A)[v]]
    BY DEF Zastari
  <2> QED
    BY <2>1, <2>2
<1>3. PICK Q \in SUBSET Radnik : Q = Radnik \ {w}
  OBVIOUS
<1>4. radnik' \in [Radnik -> Radnik0] /\ radnik'[w] = z /\ \A v \in Q : radnik'[v] = Zastari(A)[v]
  BY <1>2, <1>3
<1>5. \A v \in Radnik \ Q : RadnikOK(radnik'[v], izvod', veza', ostalo', zakljucena', red')
  BY <1>3, <1>4
<1> QED
  BY <1>4, <1>5, Pisanje

\* ... by others, who are not followed here.
LEMMA PisanjeDrugih ==
  ASSUME BankaInv, NEW A, Upisano(A), PostaIsta, radnik' = Zastari(A)
  PROVE  BankaInv'
<1>1. radnik \in [Radnik -> Radnik0]
  BY DEF BankaInv, BankaTipovi
<1>2. Zastari(A) \in [Radnik -> Radnik0]
  <2>1. \A v \in Radnik : Zastari(A)[v] \in Radnik0
    BY <1>1, Oznaceni
  <2>2. Zastari(A) = [v \in Radnik |-> Zastari(A)[v]]
    BY DEF Zastari
  <2> QED
    BY <2>1, <2>2
<1> QED
  BY <1>2, Pisanje

LEMMA BezPisanja ==
  ASSUME BankaInv
  PROVE  Zastari({}) = radnik
<1>1. radnik \in [Radnik -> Radnik0]
  BY DEF BankaInv, BankaTipovi
<1>2. \A v \in Radnik : Zastari({})[v] = radnik[v]
  BY DEF Zastari
<1>3. Zastari({}) = [v \in Radnik |-> Zastari({})[v]]
  BY DEF Zastari
<1> QED
  BY <1>1, <1>2, <1>3

---------------------------------------------------------------------------
(* What a request knows at a step *)

LEMMA MirnaFaza ==
  ASSUME NEW z, z.pc \notin {"prilog", "zapis", "knjizi"}, z.auto => z.pc \in AutoKoraci,
         NEW I, NEW V, NEW o, NEW c, NEW R
  PROVE  RadnikOK(z, I, V, o, c, R)
BY DEF RadnikOK, Prilaze, Uvezeno, Snimak

LEMMA MiranOK ==
  ASSUME NEW I, NEW V, NEW o, NEW c, NEW R
  PROVE  Miran \in Radnik0 /\ RadnikOK(Miran, I, V, o, c, R)
<1>1. Miran \in Radnik0
  BY DEF Miran, Radnik0, Koraci
<1>2. Miran.pc = "miran" /\ ~Miran.auto
  BY DEF Miran
<1> QED
  BY <1>1, <1>2, MirnaFaza

LEMMA NakonOK ==
  ASSUME BankaInv, NEW w \in Radnik, NEW I, NEW V, NEW o, NEW c, NEW R
  PROVE  Nakon(w) \in Radnik0 /\ RadnikOK(Nakon(w), I, V, o, c, R)
<1>1. PICK z \in Radnik0 : z = radnik[w]
  BY DEF BankaInv, BankaTipovi
<1>2. PICK y : y = [z EXCEPT !.pc = "auto_knjizi", !.izvod = 0, !.staro = FALSE]
  OBVIOUS
<1>3. y \in Radnik0 /\ y.pc = "auto_knjizi"
  BY <1>1, <1>2 DEF Radnik0, Koraci
<1>4. RadnikOK(y, I, V, o, c, R)
  BY <1>3, MirnaFaza DEF AutoKoraci
<1>5. Nakon(w) \in {y, Miran}
  BY <1>1, <1>2 DEF Nakon
<1> QED
  BY <1>3, <1>4, <1>5, MiranOK

\* A posting that begins has read the present.
LEMMA PocetakKnjizenja ==
  ASSUME BankaInv, ~zakljucena, NEW x \in Radnik0, NEW i \in Izvod, NEW z,
         z = [x EXCEPT !.pc = "knjizi", !.izvod = i, !.placeno = Zatvoreno(veza, ostalo)]
  PROVE  z \in Radnik0 /\ RadnikOK(z, izvod, veza, ostalo, zakljucena, red)
<1>1. veza \in [Izvod -> Nat] /\ ostalo \in Nat
  BY DEF BankaInv, BankaTipovi
<1>2. PICK q \in Nat : q = Zatvoreno(veza, ostalo) /\ q = Sve(veza, ostalo)
  BY <1>1, ZatvorenoJe, ZbiroviPrirodni
<1>3. z \in Radnik0 /\ z.pc = "knjizi" /\ z.placeno = q
  BY <1>2 DEF Radnik0, Koraci
<1>4. Vidljivo(veza, ostalo) <= q /\ q <= Sve(veza, ostalo)
  BY <1>1, <1>2, ZbiroviPrirodni
<1>5. Prilaze(z, red) /\ Uvezeno(z, izvod) /\ Snimak(z, veza, ostalo, zakljucena)
  BY <1>3, <1>4 DEF Prilaze, Uvezeno, Snimak
<1> QED
  BY <1>3, <1>5 DEF RadnikOK, AutoKoraci

\* A request in a form, or about to delete, is a user's.
LEMMA KorisnikuFormi ==
  ASSUME BankaInv, NEW w \in Radnik, radnik[w].pc \notin AutoKoraci
  PROVE  ~radnik[w].auto
BY DEF BankaInv, RadnikOK

---------------------------------------------------------------------------
(* Steps that change requests only *)

LEMMA OtvoriInv ==
  ASSUME BankaInv, NEW w \in Radnik, NEW i \in Izvod, Otvori(w, i), UNCHANGED <<posta, prekidi>>
  PROVE  BankaInv'
<1>1. PICK z : z = [Miran EXCEPT !.pc = "forma", !.izvod = i]
  OBVIOUS
<1>2. z \in Radnik0 /\ z.pc = "forma" /\ ~z.auto
  BY <1>1 DEF Miran, Radnik0, Koraci
<1>3. RadnikOK(z, izvod, veza, ostalo, zakljucena, red)
  BY <1>2, MirnaFaza
<1>4. radnik' = [radnik EXCEPT ![w] = z] /\ UNCHANGED izvodi
  BY <1>1 DEF Otvori
<1>5. UNCHANGED red /\ zakup' \in Radnik \cup {0} /\ obradjen' \in BOOLEAN /\ prekidi' \in Nat
  BY DEF posta, BankaInv, BankaTipovi
<1> QED
  BY <1>2, <1>3, <1>4, <1>5, SamoRadnik

LEMMA ZatraziBrisanjeInv ==
  ASSUME BankaInv, NEW w \in Radnik, ZatraziBrisanje(w), UNCHANGED <<posta, prekidi>>
  PROVE  BankaInv'
<1>1. PICK x \in Radnik0 : x = radnik[w]
  BY DEF BankaInv, BankaTipovi
<1>2. PICK z : z = [x EXCEPT !.pc = "brisanje"]
  OBVIOUS
<1>3. x.pc = "forma" /\ radnik' = [radnik EXCEPT ![w] = z] /\ UNCHANGED izvodi
  BY <1>1, <1>2 DEF ZatraziBrisanje, Kod
<1>4. ~x.auto
  BY <1>1, <1>3, KorisnikuFormi DEF AutoKoraci
<1>5. z \in Radnik0 /\ z.pc = "brisanje" /\ ~z.auto
  BY <1>2, <1>4 DEF Radnik0, Koraci
<1>6. RadnikOK(z, izvod, veza, ostalo, zakljucena, red)
  BY <1>5, MirnaFaza
<1>7. UNCHANGED red /\ zakup' \in Radnik \cup {0} /\ obradjen' \in BOOLEAN /\ prekidi' \in Nat
  BY DEF posta, BankaInv, BankaTipovi
<1> QED
  BY <1>3, <1>5, <1>6, <1>7, SamoRadnik

\* A request that ends without having written.
LEMMA OdustajanjeInv ==
  ASSUME BankaInv, NEW w \in Radnik, Odustani(w) \/ NeProknjizi(w), UNCHANGED <<posta, prekidi>>
  PROVE  BankaInv'
<1>1. PICK z : z \in {Miran, Nakon(w)} /\ radnik' = [radnik EXCEPT ![w] = z]
  BY DEF Odustani, NeProknjizi
<1>2. z \in Radnik0 /\ RadnikOK(z, izvod, veza, ostalo, zakljucena, red)
  BY <1>1, MiranOK, NakonOK
<1>3. UNCHANGED izvodi
  BY DEF Odustani, NeProknjizi
<1>4. UNCHANGED red /\ zakup' \in Radnik \cup {0} /\ obradjen' \in BOOLEAN /\ prekidi' \in Nat
  BY DEF posta, BankaInv, BankaTipovi
<1> QED
  BY <1>1, <1>2, <1>3, <1>4, SamoRadnik

LEMMA ZatraziKnjizenjeInv ==
  ASSUME BankaInv, NEW w \in Radnik, NEW i \in Izvod, ZatraziKnjizenje(w, i),
         UNCHANGED <<posta, prekidi>>
  PROVE  BankaInv'
<1>1. PICK z : z = [Miran EXCEPT !.pc = "knjizi", !.izvod = i, !.placeno = Zatvoreno(veza, ostalo)]
  OBVIOUS
<1>2. radnik' = [radnik EXCEPT ![w] = z] /\ UNCHANGED izvodi /\ ~zakljucena
  BY <1>1 DEF ZatraziKnjizenje, PocniKnjizenje
<1>3. z \in Radnik0 /\ RadnikOK(z, izvod, veza, ostalo, zakljucena, red)
  BY <1>1, <1>2, MiranOK, PocetakKnjizenja
<1>4. UNCHANGED red /\ zakup' \in Radnik \cup {0} /\ obradjen' \in BOOLEAN /\ prekidi' \in Nat
  BY DEF posta, BankaInv, BankaTipovi
<1> QED
  BY <1>2, <1>3, <1>4, SamoRadnik

LEMMA OdbijPrilogInv ==
  ASSUME BankaInv, NEW w \in Radnik, OdbijPrilog(w)
  PROVE  BankaInv'
<1>1. PICK x \in Radnik0 : x = radnik[w]
  BY DEF BankaInv, BankaTipovi
<1>2. PICK z : z = [x EXCEPT !.pc = "zapis", !.izvod = 0]
  OBVIOUS
<1>3. /\ x.pc = "prilog" /\ x.prilozi # {} /\ radnik' = [radnik EXCEPT ![w] = z]
      /\ UNCHANGED izvodi /\ UNCHANGED posta
  BY <1>1, <1>2 DEF OdbijPrilog, Kod
<1>4. z \in Radnik0 /\ z.pc = "zapis" /\ z.poruka = x.poruka /\ z.prilozi = x.prilozi
      /\ z.izvod = 0 /\ z.auto = x.auto
  BY <1>2 DEF Radnik0, Koraci
<1>5. RadnikOK(x, izvod, veza, ostalo, zakljucena, red)
  BY <1>1 DEF BankaInv
<1>6. Prilaze(z, red)
  BY <1>3, <1>4, <1>5 DEF RadnikOK, Prilaze
<1>7. Uvezeno(z, izvod) /\ Snimak(z, veza, ostalo, zakljucena)
  BY <1>3, <1>4 DEF Uvezeno, Snimak
<1>8. RadnikOK(z, izvod, veza, ostalo, zakljucena, red)
  BY <1>4, <1>6, <1>7 DEF RadnikOK, AutoKoraci
<1>9. prekidi' \in Nat
  BY DEF OdbijPrilog, Prekid, BankaInv, BankaTipovi
<1>10. UNCHANGED red /\ zakup' \in Radnik \cup {0} /\ obradjen' \in BOOLEAN
  BY <1>3 DEF posta, BankaInv, BankaTipovi
<1> QED
  BY <1>3, <1>4, <1>8, <1>9, <1>10, SamoRadnik

LEMMA OtkucajInv ==
  ASSUME BankaInv, NEW w \in Radnik, Otkucaj(w)
  PROVE  BankaInv'
<1>1. CASE zakljucena
  <2>1. radnik' = [radnik EXCEPT ![w] = radnik[w]]
    BY <1>1 DEF Otkucaj, BankaInv, BankaTipovi
  <2>2. radnik[w] \in Radnik0 /\ RadnikOK(radnik[w], izvod, veza, ostalo, zakljucena, red)
    BY DEF BankaInv, BankaTipovi
  <2>3. UNCHANGED izvodi /\ UNCHANGED red
    BY <1>1 DEF Otkucaj
  <2>4. zakup' \in Radnik \cup {0} /\ obradjen' \in BOOLEAN /\ prekidi' \in Nat
    BY <1>1 DEF Otkucaj, BankaInv, BankaTipovi
  <2> QED
    BY <2>1, <2>2, <2>3, <2>4, SamoRadnik
<1>2. CASE ~zakljucena
  <2>1. PICK z : z = [Miran EXCEPT !.pc = "auto_poruke", !.auto = TRUE,
                                   !.poruke = {p \in Poruka : ~Zavrsena(p)}]
    OBVIOUS
  <2>2. z \in Radnik0 /\ z.pc = "auto_poruke"
    BY <2>1 DEF Miran, Radnik0, Koraci
  <2>3. RadnikOK(z, izvod, veza, ostalo, zakljucena, red)
    BY <2>2, MirnaFaza DEF AutoKoraci
  <2>4. radnik' = [radnik EXCEPT ![w] = z]
    BY <1>2, <2>1 DEF Otkucaj
  <2>5. UNCHANGED izvodi /\ UNCHANGED red
    BY <1>2 DEF Otkucaj
  <2>6. zakup' \in Radnik \cup {0} /\ obradjen' \in BOOLEAN /\ prekidi' \in Nat
    BY <1>2 DEF Otkucaj, BankaInv, BankaTipovi
  <2> QED
    BY <2>2, <2>3, <2>4, <2>5, <2>6, SamoRadnik
<1> QED
  BY <1>1, <1>2

LEMMA AutoSpremniInv ==
  ASSUME BankaInv, NEW w \in Radnik, AutoSpremni(w)
  PROVE  BankaInv'
<1>1. PICK x \in Radnik0 : x = radnik[w]
  BY DEF BankaInv, BankaTipovi
<1>2. PICK z : z = [x EXCEPT !.pc = "auto_knjizi", !.spremni = Spremni]
  OBVIOUS
<1>3. Spremni \subseteq Izvod
  BY DEF Spremni
<1>4. z \in Radnik0 /\ z.pc = "auto_knjizi"
  BY <1>2, <1>3 DEF Radnik0, Koraci
<1>5. RadnikOK(z, izvod, veza, ostalo, zakljucena, red)
  BY <1>4, MirnaFaza DEF AutoKoraci
<1>6. radnik' = [radnik EXCEPT ![w] = z] /\ UNCHANGED izvodi /\ UNCHANGED posta /\ UNCHANGED prekidi
  BY <1>1, <1>2 DEF AutoSpremni
<1>7. UNCHANGED red /\ zakup' \in Radnik \cup {0} /\ obradjen' \in BOOLEAN /\ prekidi' \in Nat
  BY <1>6 DEF posta, BankaInv, BankaTipovi
<1> QED
  BY <1>4, <1>5, <1>6, <1>7, SamoRadnik

LEMMA AutoKnjiziInv ==
  ASSUME BankaInv, NEW w \in Radnik, AutoKnjizi(w)
  PROVE  BankaInv'
<1>1. PICK x \in Radnik0 : x = radnik[w]
  BY DEF BankaInv, BankaTipovi
<1>2. PICK i : i = Min(x.spremni)
  OBVIOUS
<1>3. x.spremni \in SUBSET Izvod /\ x.spremni # {} /\ x.pc = "auto_knjizi"
  BY <1>1 DEF AutoKnjizi, Kod, Radnik0
<1>4. i \in Izvod
  BY <1>2, <1>3, PrviPripada
<1>5. PICK y : y = [x EXCEPT !.spremni = @ \ {i}]
  OBVIOUS
<1>6. y \in Radnik0 /\ y.pc = "auto_knjizi"
  BY <1>3, <1>5 DEF Radnik0
<1>7. UNCHANGED izvodi /\ UNCHANGED posta /\ UNCHANGED prekidi
  BY DEF AutoKnjizi
<1>8. UNCHANGED red /\ zakup' \in Radnik \cup {0} /\ obradjen' \in BOOLEAN /\ prekidi' \in Nat
  BY <1>7 DEF posta, BankaInv, BankaTipovi
<1>9. CASE zakljucena
  <2>1. radnik' = [radnik EXCEPT ![w] = y]
    BY <1>1, <1>2, <1>5, <1>9 DEF AutoKnjizi
  <2>2. RadnikOK(y, izvod, veza, ostalo, zakljucena, red)
    BY <1>6, MirnaFaza DEF AutoKoraci
  <2> QED
    BY <1>6, <1>7, <1>8, <2>1, <2>2, SamoRadnik
<1>10. CASE ~zakljucena
  <2>1. PICK z : z = [y EXCEPT !.pc = "knjizi", !.izvod = i, !.placeno = Zatvoreno(veza, ostalo)]
    OBVIOUS
  <2>2. radnik' = [radnik EXCEPT ![w] = z]
    BY <1>1, <1>2, <1>5, <1>10, <2>1 DEF AutoKnjizi, PocniKnjizenje
  <2>3. z \in Radnik0 /\ RadnikOK(z, izvod, veza, ostalo, zakljucena, red)
    BY <1>4, <1>6, <1>10, <2>1, PocetakKnjizenja
  <2> QED
    BY <1>7, <1>8, <2>2, <2>3, SamoRadnik
<1> QED
  BY <1>9, <1>10

\* The day is reported, or the process stops.
LEMMA KrajAutomatikeInv ==
  ASSUME BankaInv, NEW w \in Radnik, Izvjestaj(w) \/ Stani(w)
  PROVE  BankaInv'
<1>1. radnik' = [radnik EXCEPT ![w] = Miran] /\ UNCHANGED izvodi /\ UNCHANGED red
  BY DEF Izvjestaj, Stani
<1>2. zakup' \in Radnik \cup {0} /\ obradjen' \in BOOLEAN
  BY DEF Izvjestaj, Stani, BankaInv, BankaTipovi
<1>3. prekidi' \in Nat
  BY DEF Izvjestaj, Stani, Prekid, BankaInv, BankaTipovi
<1> QED
  BY <1>1, <1>2, <1>3, MiranOK, SamoRadnik

---------------------------------------------------------------------------
(* Steps that record messages *)

\* A message is begun: it counts as failed until all of it is recorded.
LEMMA PocniPorukuInv ==
  ASSUME BankaInv, NEW w \in Radnik, NEW p \in Poruka, NEW x \in Radnik0, PocniPoruku(w, p, x),
         zakup' \in Radnik \cup {0}, obradjen' \in BOOLEAN, prekidi' \in Nat
  PROVE  BankaInv'
<1>1. PICK z : z = [x EXCEPT !.pc = "prilog", !.poruka = p, !.prilozi = Prilozi[p]]
  OBVIOUS
<1>2. radnik' = [radnik EXCEPT ![w] = z] /\ UNCHANGED izvodi /\ red' = [red EXCEPT ![p][0] = "GRESKA"]
  BY <1>1 DEF PocniPoruku, Uzmi
<1>3. /\ red = [q \in Poruka |-> red[q]]
      /\ \A q \in Poruka : /\ red[q] \in [Prilozi[q] \cup {0} -> Zapis0]
                           /\ red[q][0] \in {"NEMA", "GRESKA"}
  BY DEF BankaInv, BankaTipovi, ZapisiUredni
<1>4. \A q \in Poruka : Prilozi[q] \subseteq Izvod /\ 0 \notin Prilozi[q]
  BY BankaPretpostavke, IzvodiPretpostavke
<1>5. PICK R : R = red'
  OBVIOUS
<1>6. /\ R = [q \in Poruka |-> R[q]]
      /\ \A q \in Poruka : R[q] = IF q = p THEN [red[p] EXCEPT ![0] = "GRESKA"] ELSE red[q]
  BY <1>2, <1>3, <1>5
<1>7. \A q \in Poruka : \A k \in Prilozi[q] : R[q][k] = red[q][k]
  BY <1>3, <1>4, <1>6
<1>8. \A q \in Poruka : R[q][0] = IF q = p THEN "GRESKA" ELSE red[q][0]
  BY <1>3, <1>6
<1>9. ZapisiUredni(R)
  <2>1. SUFFICES ASSUME NEW q \in Poruka
                 PROVE  R[q] \in [Prilozi[q] \cup {0} -> Zapis0] /\ R[q][0] \in {"NEMA", "GRESKA"}
    BY DEF ZapisiUredni
  <2>2. CASE q = p
    BY <1>3, <1>6, <1>8, <2>2 DEF Zapis0
  <2>3. CASE q # p
    BY <1>3, <1>6, <2>3
  <2> QED
    BY <2>2, <2>3
<1>10. PorukeOK(R, izvod)
  BY <1>7, <1>8 DEF BankaInv, PorukeOK, Zabiljezena, Netaknuta
<1>11. Napreduju(red, R)
  BY <1>7, <1>8 DEF Napreduju
<1>12. z \in Radnik0 /\ z.pc = "prilog" /\ z.poruka = p /\ z.prilozi = Prilozi[p]
  BY <1>1, <1>4 DEF Radnik0, Koraci
<1>13. Prilaze(z, R)
  BY <1>8, <1>12 DEF Prilaze
<1>14. RadnikOK(z, izvod, veza, ostalo, zakljucena, R)
  BY <1>12, <1>13 DEF RadnikOK, Uvezeno, Snimak, AutoKoraci
<1> QED
  BY <1>2, <1>5, <1>6, <1>9, <1>10, <1>11, <1>12, <1>14, SamoZapisi

LEMMA UveziPorukuInv ==
  ASSUME BankaInv, NEW w \in Radnik, NEW p \in Poruka, UveziPoruku(w, p)
  PROVE  BankaInv'
<1>1. PocniPoruku(w, p, Miran) /\ Miran \in Radnik0
  BY MiranOK DEF UveziPoruku
<1>2. zakup' \in Radnik \cup {0} /\ obradjen' \in BOOLEAN /\ prekidi' \in Nat
  BY DEF UveziPoruku, BankaInv, BankaTipovi
<1> QED
  BY <1>1, <1>2, PocniPorukuInv

LEMMA AutoPorukaInv ==
  ASSUME BankaInv, NEW w \in Radnik, NEW p \in Poruka, AutoPoruka(w, p)
  PROVE  BankaInv'
<1>1. PICK x \in Radnik0 : x = radnik[w]
  BY DEF BankaInv, BankaTipovi
<1>2. PICK y : y = [x EXCEPT !.poruke = @ \ {p}]
  OBVIOUS
<1>3. x.pc = "auto_poruke"
  BY <1>1 DEF AutoPoruka, Kod
<1>4. y \in Radnik0 /\ y.pc = "auto_poruke"
  BY <1>2, <1>3 DEF Radnik0
<1>5. zakup' \in Radnik \cup {0} /\ obradjen' \in BOOLEAN /\ prekidi' \in Nat
  BY DEF AutoPoruka, BankaInv, BankaTipovi
<1>6. CASE Zavrsena(p)
  <2>1. radnik' = [radnik EXCEPT ![w] = y] /\ UNCHANGED izvodi /\ UNCHANGED red
    BY <1>1, <1>2, <1>6 DEF AutoPoruka
  <2>2. RadnikOK(y, izvod, veza, ostalo, zakljucena, red)
    BY <1>4, MirnaFaza DEF AutoKoraci
  <2> QED
    BY <1>4, <1>5, <2>1, <2>2, SamoRadnik
<1>7. CASE ~Zavrsena(p)
  <2>1. PocniPoruku(w, p, y)
    BY <1>1, <1>2, <1>7 DEF AutoPoruka
  <2> QED
    BY <1>4, <1>5, <2>1, PocniPorukuInv
<1> QED
  BY <1>6, <1>7

\* An attachment is recorded.
LEMMA ZapisiInv ==
  ASSUME BankaInv, NEW w \in Radnik, Zapisi(w)
  PROVE  BankaInv'
<1>1. PICK x \in Radnik0 : x = radnik[w]
  BY DEF BankaInv, BankaTipovi
<1>2. PICK p : p = x.poruka
  OBVIOUS
<1>3. PICK i : i = Min(x.prilozi)
  OBVIOUS
<1>4. PICK s : s = IF x.izvod # 0 THEN "UVEZEN" ELSE "GRESKA"
  OBVIOUS
<1>5. PICK z : z = [x EXCEPT !.pc = "prilog", !.izvod = 0, !.prilozi = @ \ {i}]
  OBVIOUS
<1>6. /\ x.pc = "zapis" /\ UNCHANGED izvodi /\ zakup' = zakup /\ obradjen' = obradjen
      /\ prekidi' = prekidi
  BY <1>1 DEF Zapisi, Kod
<1>7. red' = [red EXCEPT ![p][i] = s] /\ radnik' = [radnik EXCEPT ![w] = z]
  BY <1>1, <1>2, <1>3, <1>4, <1>5 DEF Zapisi, Prvi
<1>8. Prilaze(x, red) /\ Uvezeno(x, izvod) /\ (x.auto => x.pc \in AutoKoraci)
  BY <1>1 DEF BankaInv, RadnikOK
<1>9. /\ p \in Poruka /\ x.prilozi \subseteq Prilozi[p]
      /\ red[p][0] = "GRESKA" \/ Zabiljezena(red, p)
      /\ \A k \in Prilozi[p] \ x.prilozi : red[p][k] # "NEMA"
  BY <1>2, <1>6, <1>8 DEF Prilaze
<1>10. x.prilozi # {} /\ (x.izvod # 0 => x.izvod = i /\ izvod[x.izvod].status # "NEMA")
  BY <1>3, <1>6, <1>8 DEF Uvezeno
<1>11. \A q \in Poruka : Prilozi[q] \subseteq Izvod /\ 0 \notin Prilozi[q]
  BY BankaPretpostavke, IzvodiPretpostavke
<1>12. i \in x.prilozi /\ i \in Prilozi[p] /\ i # 0
  <2>1. x.prilozi \in SUBSET Izvod
    BY DEF Radnik0
  <2> QED
    BY <1>3, <1>9, <1>10, <1>11, <2>1, PrviPripada
<1>13. /\ red = [q \in Poruka |-> red[q]]
       /\ \A q \in Poruka : /\ red[q] \in [Prilozi[q] \cup {0} -> Zapis0]
                            /\ red[q][0] \in {"NEMA", "GRESKA"}
  BY DEF BankaInv, BankaTipovi, ZapisiUredni
<1>14. PICK R : R = red'
  OBVIOUS
<1>15. /\ R = [q \in Poruka |-> R[q]]
       /\ \A q \in Poruka : R[q] = IF q = p THEN [red[p] EXCEPT ![i] = s] ELSE red[q]
  BY <1>7, <1>9, <1>13, <1>14
<1>16. \A q \in Poruka : \A k \in Prilozi[q] \cup {0} :
         R[q][k] = IF q = p /\ k = i THEN s ELSE red[q][k]
  BY <1>12, <1>13, <1>15
<1>17. s \in {"UVEZEN", "GRESKA"} /\ (s = "UVEZEN" => izvod[i].status # "NEMA")
  BY <1>4, <1>10
<1>18. ZapisiUredni(R)
  <2>1. SUFFICES ASSUME NEW q \in Poruka
                 PROVE  R[q] \in [Prilozi[q] \cup {0} -> Zapis0] /\ R[q][0] \in {"NEMA", "GRESKA"}
    BY DEF ZapisiUredni
  <2>2. R[q][0] = red[q][0]
    BY <1>12, <1>16
  <2>3. s \in Zapis0
    BY <1>17 DEF Zapis0
  <2>4. R[q] \in [Prilozi[q] \cup {0} -> Zapis0]
    <3>1. CASE q = p
      <4>1. PICK f \in [Prilozi[p] \cup {0} -> Zapis0] : f = red[p]
        BY <1>9, <1>13
      <4>2. R[p] = [f EXCEPT ![i] = s]
        BY <1>9, <1>15, <4>1
      <4> QED
        BY <2>3, <3>1, <4>1, <4>2
    <3>2. CASE q # p
      BY <1>13, <1>15, <3>2
    <3> QED
      BY <3>1, <3>2
  <2> QED
    BY <1>13, <2>2, <2>4
<1>19. \A q \in Poruka : \A k \in Prilozi[q] : red[q][k] # "NEMA" => R[q][k] # "NEMA"
  BY <1>16, <1>17
<1>20. \A q \in Poruka : R[q][0] = red[q][0]
  BY <1>12, <1>16
<1>21. \A q \in Poruka : Zabiljezena(red, q) => Zabiljezena(R, q)
  BY <1>19 DEF Zabiljezena
<1>22. PorukeOK(R, izvod)
  <2>1. SUFFICES ASSUME NEW q \in Poruka
                 PROVE  /\ \A k \in Prilozi[q] : R[q][k] = "UVEZEN" => izvod[k].status # "NEMA"
                        /\ R[q][0] = "NEMA" => Zabiljezena(R, q) \/ Netaknuta(R, q)
    BY DEF PorukeOK
  <2>2. PorukeOK(red, izvod)
    BY DEF BankaInv
  <2>3. \A k \in Prilozi[q] : R[q][k] = "UVEZEN" => izvod[k].status # "NEMA"
    BY <1>16, <1>17, <2>2 DEF PorukeOK
  <2>4. CASE q = p
    BY <1>9, <1>20, <1>21, <2>3, <2>4
  <2>5. CASE q # p
    BY <1>16, <2>2, <2>3, <2>5 DEF PorukeOK, Zabiljezena, Netaknuta
  <2> QED
    BY <2>4, <2>5
<1>23. Napreduju(red, R)
  BY <1>19, <1>20 DEF Napreduju
<1>24. /\ z \in Radnik0 /\ z.pc = "prilog" /\ z.poruka = p /\ z.prilozi = x.prilozi \ {i}
       /\ z.auto = x.auto
  BY <1>2, <1>5 DEF Radnik0, Koraci
<1>25. Prilaze(z, R)
  <2>1. R[p][0] = "GRESKA" \/ Zabiljezena(R, p)
    BY <1>9, <1>20, <1>21
  <2>2. \A k \in Prilozi[p] \ z.prilozi : R[p][k] # "NEMA"
    BY <1>9, <1>12, <1>16, <1>17, <1>24
  <2> QED
    BY <1>9, <1>24, <2>1, <2>2 DEF Prilaze
<1>26. RadnikOK(z, izvod, veza, ostalo, zakljucena, R)
  BY <1>24, <1>25 DEF RadnikOK, Uvezeno, Snimak, AutoKoraci
<1>27. zakup' \in Radnik \cup {0} /\ obradjen' \in BOOLEAN /\ prekidi' \in Nat
  BY <1>6 DEF BankaInv, BankaTipovi
<1> QED
  BY <1>6, <1>7, <1>14, <1>15, <1>18, <1>22, <1>23, <1>24, <1>26, <1>27, SamoZapisi

\* All attachments of a message are recorded, by this request.
LEMMA ZavrsiPorukuInv ==
  ASSUME BankaInv, NEW w \in Radnik, ZavrsiPoruku(w)
  PROVE  BankaInv'
<1>1. PICK x \in Radnik0 : x = radnik[w]
  BY DEF BankaInv, BankaTipovi
<1>2. PICK p : p = x.poruka
  OBVIOUS
<1>3. PICK z : z = Nastavi(w)
  OBVIOUS
<1>4. /\ x.pc = "prilog" /\ x.prilozi = {} /\ UNCHANGED izvodi
      /\ zakup' = zakup /\ obradjen' = obradjen /\ prekidi' = prekidi
      /\ red' = [red EXCEPT ![p][0] = "NEMA"] /\ radnik' = [radnik EXCEPT ![w] = z]
  BY <1>1, <1>2, <1>3 DEF ZavrsiPoruku, Kod
<1>5. Prilaze(x, red)
  BY <1>1 DEF BankaInv, RadnikOK
<1>6. p \in Poruka /\ Zabiljezena(red, p)
  BY <1>2, <1>4, <1>5 DEF Prilaze, Zabiljezena
<1>7. 0 \notin Prilozi[p] /\ \A q \in Poruka : 0 \notin Prilozi[q]
  BY <1>6, BankaPretpostavke, IzvodiPretpostavke
<1>8. /\ red = [q \in Poruka |-> red[q]]
      /\ \A q \in Poruka : /\ red[q] \in [Prilozi[q] \cup {0} -> Zapis0]
                           /\ red[q][0] \in {"NEMA", "GRESKA"}
  BY DEF BankaInv, BankaTipovi, ZapisiUredni
<1>9. PICK R : R = red'
  OBVIOUS
<1>10. /\ R = [q \in Poruka |-> R[q]]
       /\ \A q \in Poruka : R[q] = IF q = p THEN [red[p] EXCEPT ![0] = "NEMA"] ELSE red[q]
  BY <1>4, <1>6, <1>8, <1>9
<1>11. \A q \in Poruka : \A k \in Prilozi[q] : R[q][k] = red[q][k]
  <2>1. TAKE q \in Poruka
  <2>2. CASE q = p
    <3>1. PICK f \in [Prilozi[p] \cup {0} -> Zapis0] : f = red[p]
      BY <1>6, <1>8
    <3>2. R[p] = [f EXCEPT ![0] = "NEMA"]
      BY <1>6, <1>10, <3>1
    <3> QED
      BY <1>7, <2>2, <3>1, <3>2
  <2>3. CASE q # p
    BY <1>10, <2>3
  <2> QED
    BY <2>2, <2>3
<1>12. \A q \in Poruka : R[q][0] = IF q = p THEN "NEMA" ELSE red[q][0]
  BY <1>8, <1>10
<1>13. ZapisiUredni(R)
  <2>1. SUFFICES ASSUME NEW q \in Poruka
                 PROVE  R[q] \in [Prilozi[q] \cup {0} -> Zapis0] /\ R[q][0] \in {"NEMA", "GRESKA"}
    BY DEF ZapisiUredni
  <2>2. CASE q = p
    <3>1. PICK f \in [Prilozi[p] \cup {0} -> Zapis0] : f = red[p]
      BY <1>6, <1>8
    <3>2. R[p] = [f EXCEPT ![0] = "NEMA"] /\ "NEMA" \in Zapis0
      BY <1>6, <1>10, <3>1 DEF Zapis0
    <3> QED
      BY <1>12, <2>2, <3>1, <3>2
  <2>3. CASE q # p
    BY <1>8, <1>10, <2>3
  <2> QED
    BY <2>2, <2>3
<1>14. \A q \in Poruka : (Zabiljezena(red, q) => Zabiljezena(R, q)) /\ (Netaknuta(red, q) => Netaknuta(R, q))
  BY <1>11 DEF Zabiljezena, Netaknuta
<1>15. PorukeOK(R, izvod)
  <2>1. SUFFICES ASSUME NEW q \in Poruka
                 PROVE  /\ \A k \in Prilozi[q] : R[q][k] = "UVEZEN" => izvod[k].status # "NEMA"
                        /\ R[q][0] = "NEMA" => Zabiljezena(R, q) \/ Netaknuta(R, q)
    BY DEF PorukeOK
  <2>2. PorukeOK(red, izvod)
    BY DEF BankaInv
  <2>3. CASE q = p
    BY <1>6, <1>11, <1>14, <2>2, <2>3 DEF PorukeOK
  <2>4. CASE q # p
    BY <1>11, <1>12, <1>14, <2>2, <2>4 DEF PorukeOK
  <2> QED
    BY <2>3, <2>4
<1>16. Napreduju(red, R)
  BY <1>6, <1>11, <1>12, <1>14 DEF Napreduju
<1>17. z \in Radnik0 /\ RadnikOK(z, izvod, veza, ostalo, zakljucena, R)
  <2>1. PICK y : y = [x EXCEPT !.pc = "auto_poruke", !.poruka = 0, !.izvod = 0, !.prilozi = {}]
    OBVIOUS
  <2>2. y \in Radnik0 /\ y.pc = "auto_poruke"
    BY <2>1 DEF Radnik0, Koraci
  <2>3. RadnikOK(y, izvod, veza, ostalo, zakljucena, R)
    BY <2>2, MirnaFaza DEF AutoKoraci
  <2>4. z \in {y, Miran}
    BY <1>1, <1>3, <2>1 DEF Nastavi
  <2> QED
    BY <2>2, <2>3, <2>4, MiranOK
<1>18. zakup' \in Radnik \cup {0} /\ obradjen' \in BOOLEAN /\ prekidi' \in Nat
  BY <1>4 DEF BankaInv, BankaTipovi
<1> QED
  BY <1>4, <1>9, <1>10, <1>13, <1>15, <1>16, <1>17, <1>18, SamoZapisi

---------------------------------------------------------------------------
(* Steps that write statements and journals *)

LEMMA SamoIzvodi ==
  ASSUME BankaInv, NEW A, izvod' \in [Izvod -> Izvod0], nalog' \in [Izvod -> Nalog0],
         NaloziOK(izvod', nalog', veza), UNCHANGED <<veza, ostalo, placanje, zakljucena>>,
         \A i \in Izvod : izvod[i].status # "NEMA" => izvod'[i].status # "NEMA"
  PROVE  Upisano(A)
<1>1. veza \in [Izvod -> Nat] /\ ostalo \in Nat /\ placanje \in Placanja /\ zakljucena \in BOOLEAN
  BY DEF BankaInv, BankaTipovi
<1>2. PlacanjeOK(veza', ostalo', placanje')
  BY DEF BankaInv
<1>3. Sve(veza, ostalo) <= Sve(veza, ostalo)
  BY <1>1, ZbiroviPrirodni
<1> QED
  BY <1>1, <1>2, <1>3 DEF Upisano

\* The import of a statement.
LEMMA UveziPise ==
  ASSUME BankaInv, NEW i \in Izvod, Uvezi(i)
  PROVE  Upisano({}) /\ izvod'[i].status # "NEMA"
<1>1. izvod \in [Izvod -> Izvod0] /\ nalog \in [Izvod -> Nalog0]
  BY DEF BankaInv, BankaTipovi
<1>2. NaloziOK(izvod, nalog, veza)
  BY DEF BankaInv
<1>3. nalog' = nalog /\ UNCHANGED <<veza, ostalo, placanje, zakljucena>>
  BY DEF Uvezi
<1>4. CASE Postoji(i)
  <2>1. izvod' = izvod
    BY <1>4 DEF Uvezi
  <2> QED
    BY <1>1, <1>2, <1>3, <1>4, <2>1, SamoIzvodi DEF Postoji
<1>5. CASE ~Postoji(i)
  <2>1. PICK s \in {"READY", "NEEDS_REVIEW"} :
          izvod' = [izvod EXCEPT ![i] = [NemaIzvoda EXCEPT !.status = s]]
    BY <1>5 DEF Uvezi
  <2>2. PICK x : x = [NemaIzvoda EXCEPT !.status = s]
    OBVIOUS
  <2>3. x \in Izvod0 /\ x.status = s /\ ~x.nalog
    BY <2>1, <2>2 DEF NemaIzvoda, Izvod0, Stanja
  <2>4. izvod' = [izvod EXCEPT ![i] = x]
    BY <2>1, <2>2
  <2>5. izvod' \in [Izvod -> Izvod0] /\ izvod'[i] = x /\ \A j \in Izvod \ {i} : izvod'[j] = izvod[j]
    BY <1>1, <2>3, <2>4
  <2>6. NaloziOK(izvod', nalog', veza)
    BY <1>2, <1>3, <2>1, <2>3, <2>5 DEF NaloziOK
  <2>7. \A j \in Izvod : izvod[j].status # "NEMA" => izvod'[j].status # "NEMA"
    BY <2>1, <2>3, <2>5
  <2> QED
    BY <1>1, <1>3, <2>1, <2>3, <2>5, <2>6, <2>7, SamoIzvodi
<1> QED
  BY <1>4, <1>5

LEMMA UveziFajlInv ==
  ASSUME BankaInv, NEW i \in Izvod, UveziFajl(i), UNCHANGED <<posta, prekidi>>
  PROVE  BankaInv'
<1>1. Upisano({})
  BY UveziPise DEF UveziFajl
<1>2. PostaIsta
  BY DEF posta, PostaIsta, BankaInv, BankaTipovi
<1>3. radnik' = Zastari({})
  BY BezPisanja DEF UveziFajl
<1> QED
  BY <1>1, <1>2, <1>3, PisanjeDrugih

LEMMA UveziPrilogInv ==
  ASSUME BankaInv, NEW w \in Radnik, UveziPrilog(w)
  PROVE  BankaInv'
<1>1. PICK x \in Radnik0 : x = radnik[w]
  BY DEF BankaInv, BankaTipovi
<1>2. PICK i : i = Min(x.prilozi)
  OBVIOUS
<1>3. PICK z : z = [x EXCEPT !.pc = "zapis", !.izvod = i]
  OBVIOUS
<1>4. /\ x.pc = "prilog" /\ x.prilozi # {} /\ Uvezi(i) /\ radnik' = [radnik EXCEPT ![w] = z]
      /\ UNCHANGED <<posta, prekidi>>
  BY <1>1, <1>2, <1>3 DEF UveziPrilog, Kod, Prvi
<1>5. i \in Izvod
  BY <1>2, <1>4, PrviPripada DEF Radnik0
<1>6. Upisano({}) /\ izvod'[i].status # "NEMA"
  BY <1>4, <1>5, UveziPise
<1>7. PostaIsta
  BY <1>4 DEF posta, PostaIsta, BankaInv, BankaTipovi
<1>8. radnik' = [Zastari({}) EXCEPT ![w] = z]
  BY <1>4, BezPisanja
<1>9. /\ z \in Radnik0 /\ z.pc = "zapis" /\ z.poruka = x.poruka /\ z.prilozi = x.prilozi
      /\ z.izvod = i /\ z.auto = x.auto
  BY <1>3, <1>5 DEF Radnik0, Koraci
<1>10. Prilaze(z, red')
  <2>1. Prilaze(x, red) /\ red' = red
    BY <1>1, <1>7 DEF BankaInv, RadnikOK, PostaIsta
  <2> QED
    BY <1>4, <1>9, <2>1 DEF Prilaze
<1>11. Uvezeno(z, izvod')
  BY <1>2, <1>4, <1>6, <1>9 DEF Uvezeno
<1>12. RadnikOK(z, izvod', veza', ostalo', zakljucena', red')
  BY <1>9, <1>10, <1>11 DEF RadnikOK, Snimak, AutoKoraci
<1> QED
  BY <1>6, <1>7, <1>8, <1>9, <1>12, PisanjeRadnika

\* A form is saved, by the rules or as a journal.
LEMMA SacuvajInv ==
  ASSUME BankaInv, NEW w \in Radnik, SacuvajStavke(w) \/ SacuvajRucno(w), UNCHANGED <<posta, prekidi>>
  PROVE  BankaInv'
<1>1. PICK x \in Radnik0 : x = radnik[w]
  BY DEF BankaInv, BankaTipovi
<1>2. PICK i : i = x.izvod
  OBVIOUS
<1>3. Zakljucan(w)
  BY DEF SacuvajStavke, SacuvajRucno
<1>4. i \in Izvod /\ izvod[i].status # "POSTED"
  BY <1>1, <1>2, <1>3 DEF Zakljucan, Radnik0
<1>5. /\ izvod \in [Izvod -> Izvod0] /\ nalog \in [Izvod -> Nalog0] /\ veza \in [Izvod -> Nat]
      /\ NaloziOK(izvod, nalog, veza)
  BY DEF BankaInv, BankaTipovi
<1>6. PICK rezim \in {"AUTO", "MANUAL"} :
        /\ Sacuvaj(w, rezim)
        /\ nalog' = IF rezim = "AUTO" THEN nalog ELSE [nalog EXCEPT ![i] = "DRAFT"]
        /\ rezim = "MANUAL" => izvod[i].nalog \/ nalog[i] = "NEMA"
  <2>1. CASE SacuvajStavke(w)
    BY <2>1 DEF SacuvajStavke
  <2>2. CASE SacuvajRucno(w)
    BY <1>1, <1>2, <2>2 DEF SacuvajRucno
  <2> QED
    BY <2>1, <2>2
<1>7. PICK s \in {"READY", "NEEDS_REVIEW"} :
        izvod' = [izvod EXCEPT ![i].status = s, ![i].rezim = rezim,
                               ![i].nalog = @ \/ rezim = "MANUAL"]
  BY <1>1, <1>2, <1>6 DEF Sacuvaj
<1>8. PICK y \in Izvod0 : y = izvod[i]
  BY <1>4, <1>5
<1>9. PICK u : u = [y EXCEPT !.status = s, !.rezim = rezim, !.nalog = @ \/ rezim = "MANUAL"]
  OBVIOUS
<1>10. u \in Izvod0 /\ u.status = s /\ u.nalog = (y.nalog \/ rezim = "MANUAL")
  BY <1>6, <1>7, <1>8, <1>9 DEF Izvod0, Stanja
<1>11. izvod' = [izvod EXCEPT ![i] = u]
  BY <1>4, <1>5, <1>7, <1>8, <1>9
<1>12. izvod' \in [Izvod -> Izvod0] /\ izvod'[i] = u /\ \A j \in Izvod \ {i} : izvod'[j] = izvod[j]
  BY <1>4, <1>5, <1>10, <1>11
<1>13. /\ nalog' \in [Izvod -> Nalog0] /\ \A j \in Izvod \ {i} : nalog'[j] = nalog[j]
       /\ nalog'[i] = IF rezim = "AUTO" THEN nalog[i] ELSE "DRAFT"
  BY <1>4, <1>5, <1>6 DEF Nalog0
<1>14. NaloziOK(izvod', nalog', veza)
  <2>1. \A j \in Izvod \ {i} :
          /\ izvod'[j].nalog => nalog'[j] = IF izvod'[j].status = "POSTED" THEN "POSTED" ELSE "DRAFT"
          /\ izvod'[j].status = "POSTED" => izvod'[j].nalog
          /\ veza[j] > 0 => nalog'[j] = "POSTED"
    BY <1>5, <1>12, <1>13 DEF NaloziOK
  <2>2. izvod'[i].status # "POSTED"
    BY <1>7, <1>10, <1>12
  <2>3. y.nalog => nalog[i] = "DRAFT"
    BY <1>4, <1>5, <1>8 DEF NaloziOK
  <2>4. izvod'[i].nalog => nalog'[i] = "DRAFT"
    BY <1>6, <1>10, <1>12, <1>13, <2>3
  <2>5. veza[i] > 0 => nalog'[i] = "POSTED"
    BY <1>4, <1>5, <1>6, <1>8, <1>13, <2>3 DEF NaloziOK
  <2> QED
    BY <2>1, <2>2, <2>4, <2>5 DEF NaloziOK
<1>15. \A j \in Izvod : izvod[j].status # "NEMA" => izvod'[j].status # "NEMA"
  BY <1>7, <1>10, <1>12
<1>16. UNCHANGED <<veza, ostalo, placanje, zakljucena>>
  BY <1>6 DEF Sacuvaj
<1>17. Upisano(Red(i))
  BY <1>12, <1>13, <1>14, <1>15, <1>16, SamoIzvodi
<1>18. PostaIsta
  BY DEF posta, PostaIsta, BankaInv, BankaTipovi
<1>19. radnik' = [Zastari(Red(i)) EXCEPT ![w] = Miran]
  BY <1>1, <1>2, <1>6 DEF Sacuvaj
<1> QED
  BY <1>17, <1>18, <1>19, MiranOK, PisanjeRadnika

---------------------------------------------------------------------------
(* Steps that settle the invoice *)

LEMMA StatusTip == ASSUME NEW p PROVE Status(p) \in Placanja
BY DEF Status, Placanja

\* A posting by what it has read, of a statement that settles nothing yet.
LEMMA KnjiziPise ==
  ASSUME BankaInv, NEW w \in Radnik, NEW i \in Izvod, NEW q \in Nat, NEW z, Knjizi(w, i, q, z),
         veza[i] = 0,
         UKnjizi /\ i \in SaPartnerom => Vidljivo(veza, ostalo) <= q /\ q <= Sve(veza, ostalo)
  PROVE  Upisano(Red(i) \cup (IF i \in SaPartnerom THEN RedRacuna ELSE {}))
<1>1. /\ izvod \in [Izvod -> Izvod0] /\ nalog \in [Izvod -> Nalog0] /\ veza \in [Izvod -> Nat]
      /\ ostalo \in Nat /\ placanje \in Placanja /\ zakljucena \in BOOLEAN
      /\ NaloziOK(izvod, nalog, veza) /\ PlacanjeOK(veza, ostalo, placanje)
  BY DEF BankaInv, BankaTipovi
<1>2. PICK v \in Nat : /\ v = NovaVeza(i, q)
                       /\ q <= Dug => q + v <= Dug
                       /\ ~(q <= Dug) => v = 0
  BY NovaVezaStane
<1>3. /\ izvod' = [izvod EXCEPT ![i].status = "POSTED", ![i].nalog = TRUE]
      /\ nalog' = [nalog EXCEPT ![i] = "POSTED"] /\ veza' = [veza EXCEPT ![i] = v]
      /\ placanje' = IF UKnjizi /\ i \in SaPartnerom THEN Status(q + v) ELSE placanje
      /\ ostalo' = ostalo /\ zakljucena' = zakljucena
  BY <1>2 DEF Knjizi
<1>4. PICK y \in Izvod0 : y = izvod[i]
  BY <1>1
<1>5. PICK u : u = [y EXCEPT !.status = "POSTED", !.nalog = TRUE]
  OBVIOUS
<1>6. u \in Izvod0 /\ u.status = "POSTED" /\ u.nalog
  BY <1>5 DEF Izvod0, Stanja
<1>7. izvod' = [izvod EXCEPT ![i] = u]
  BY <1>1, <1>3, <1>4, <1>5
<1>8. izvod' \in [Izvod -> Izvod0] /\ izvod'[i] = u /\ \A j \in Izvod \ {i} : izvod'[j] = izvod[j]
  BY <1>1, <1>6, <1>7
<1>9. /\ nalog' \in [Izvod -> Nalog0] /\ nalog'[i] = "POSTED"
      /\ \A j \in Izvod \ {i} : nalog'[j] = nalog[j]
  BY <1>1, <1>3 DEF Nalog0
<1>10. veza' \in [Izvod -> Nat] /\ veza'[i] = v /\ \A j \in Izvod \ {i} : veza'[j] = veza[j]
  BY <1>1, <1>3
<1>11. NaloziOK(izvod', nalog', veza')
  BY <1>1, <1>6, <1>8, <1>9, <1>10 DEF NaloziOK
<1>12. \A j \in Izvod : izvod[j].status # "NEMA" => izvod'[j].status # "NEMA"
  BY <1>6, <1>8
<1>13. /\ Sve(veza', ostalo) = Sve(veza, ostalo) + v
       /\ Vidljivo(veza', ostalo) = IF i \in SaPartnerom THEN Vidljivo(veza, ostalo) + v
                                    ELSE Vidljivo(veza, ostalo)
  <2>1. Sve(veza, ostalo) \in Nat /\ Vidljivo(veza, ostalo) \in Nat
    BY <1>1, ZbiroviPrirodni
  <2>2. /\ Sve(veza', ostalo) = Sve(veza, ostalo) - veza[i] + veza'[i]
        /\ Vidljivo(veza', ostalo) = IF i \in SaPartnerom
                                       THEN Vidljivo(veza, ostalo) - veza[i] + veza'[i]
                                     ELSE Vidljivo(veza, ostalo)
    BY <1>1, <1>10, JednaVeza
  <2> QED
    BY <1>10, <2>1, <2>2
<1>14. Sve(veza, ostalo) \in Nat /\ Vidljivo(veza, ostalo) \in Nat /\ Dug \in Nat
  BY <1>1, ZbiroviPrirodni, IzvodiPretpostavke
<1>15. PlacanjeOK(veza', ostalo', placanje')
  <2>1. SUFFICES ASSUME UKnjizi
                 PROVE  /\ Vidljivo(veza', ostalo) <= Dug
                        /\ SamoNazvani(veza') => placanje' = Status(Sve(veza', ostalo))
    BY <1>3 DEF PlacanjeOK
  <2>2. /\ Vidljivo(veza, ostalo) <= Dug
        /\ SamoNazvani(veza) => placanje = Status(Sve(veza, ostalo))
    BY <1>1, <2>1 DEF PlacanjeOK
  <2>3. Vidljivo(veza', ostalo) <= Dug
    BY <1>2, <1>13, <1>14, <2>1, <2>2
  <2>4. ASSUME SamoNazvani(veza') PROVE placanje' = Status(Sve(veza', ostalo))
    <3>1. SamoNazvani(veza)
      BY <1>10, <2>4 DEF SamoNazvani
    <3>2. CASE i \in SaPartnerom
      <4>1. Sve(veza, ostalo) = Vidljivo(veza, ostalo)
        BY <1>1, <3>1, SveJeVidljivo
      <4>2. q = Sve(veza, ostalo)
        BY <1>14, <2>1, <3>2, <4>1
      <4> QED
        BY <1>3, <1>13, <2>1, <3>2, <4>2
    <3>3. CASE i \notin SaPartnerom
      <4>1. v = 0
        BY <1>10, <2>4, <3>3 DEF SamoNazvani
      <4>2. Sve(veza', ostalo) = Sve(veza, ostalo)
        BY <1>13, <1>14, <4>1
      <4> QED
        BY <1>3, <2>2, <3>1, <3>3, <4>2
    <3> QED
      BY <3>2, <3>3
  <2> QED
    BY <2>3, <2>4
<1>16. placanje' \in Placanja
  BY <1>1, <1>3, StatusTip
<1>17. i \in SaPartnerom \/ (/\ Vidljivo(veza', ostalo') = Vidljivo(veza, ostalo)
                             /\ Sve(veza, ostalo) <= Sve(veza', ostalo'))
  BY <1>3, <1>13, <1>14
<1> QED
  BY <1>1, <1>3, <1>8, <1>9, <1>10, <1>11, <1>12, <1>15, <1>16, <1>17 DEF Upisano

LEMMA ProknjiziInv ==
  ASSUME BankaInv, NEW w \in Radnik, Proknjizi(w), UNCHANGED <<posta, prekidi>>
  PROVE  BankaInv'
<1>1. PICK x \in Radnik0 : x = radnik[w]
  BY DEF BankaInv, BankaTipovi
<1>2. PICK i : i = x.izvod
  OBVIOUS
<1>3. /\ x.pc = "knjizi" /\ ~x.staro /\ i \in Izvod
      /\ Knjizi(w, i, x.placeno, Nakon(w))
      /\ izvod[i].status = "READY" /\ (~izvod[i].nalog => nalog[i] = "NEMA")
  BY <1>1, <1>2 DEF Proknjizi, SmijeKnjiziti, Kod, Radnik0
<1>4. NaloziOK(izvod, nalog, veza) /\ veza \in [Izvod -> Nat]
  BY DEF BankaInv, BankaTipovi
<1>5. nalog[i] # "POSTED"
  BY <1>3, <1>4 DEF NaloziOK
<1>6. veza[i] = 0
  BY <1>3, <1>4, <1>5 DEF NaloziOK
<1>7. UKnjizi /\ i \in SaPartnerom => Vidljivo(veza, ostalo) <= x.placeno /\ x.placeno <= Sve(veza, ostalo)
  BY <1>1, <1>2, <1>3 DEF BankaInv, RadnikOK, Snimak
<1>8. x.placeno \in Nat
  BY DEF Radnik0
<1>9. PICK A : A = Red(i) \cup (IF i \in SaPartnerom THEN RedRacuna ELSE {})
  OBVIOUS
<1>10. Upisano(A)
  BY <1>3, <1>6, <1>7, <1>8, <1>9, KnjiziPise
<1>11. PostaIsta
  BY DEF posta, PostaIsta, BankaInv, BankaTipovi
<1>12. radnik' = [Zastari(A) EXCEPT ![w] = Nakon(w)]
  BY <1>3, <1>9 DEF Knjizi
<1>13. Nakon(w) \in Radnik0 /\ RadnikOK(Nakon(w), izvod', veza', ostalo', zakljucena', red')
  BY NakonOK
<1> QED
  BY <1>10, <1>11, <1>12, <1>13, PisanjeRadnika

LEMMA ProknjiziRucnoInv ==
  ASSUME BankaInv, NEW w \in Radnik, ProknjiziRucno(w), UNCHANGED <<posta, prekidi>>
  PROVE  BankaInv'
<1>1. PICK x \in Radnik0 : x = radnik[w]
  BY DEF BankaInv, BankaTipovi
<1>2. PICK i : i = x.izvod
  OBVIOUS
<1>3. /\ i \in Izvod /\ nalog[i] = "DRAFT"
      /\ Knjizi(w, i, Zatvoreno(veza, ostalo), Miran)
  BY <1>1, <1>2 DEF ProknjiziRucno, Zakljucan, Radnik0
<1>4. NaloziOK(izvod, nalog, veza) /\ veza \in [Izvod -> Nat] /\ ostalo \in Nat
  BY DEF BankaInv, BankaTipovi
<1>5. veza[i] = 0
  BY <1>3, <1>4 DEF NaloziOK
<1>6. PICK q \in Nat : q = Zatvoreno(veza, ostalo) /\ q = Sve(veza, ostalo)
  BY <1>4, ZatvorenoJe, ZbiroviPrirodni
<1>7. Vidljivo(veza, ostalo) <= q /\ q <= Sve(veza, ostalo)
  BY <1>4, <1>6, ZbiroviPrirodni
<1>8. PICK A : A = Red(i) \cup (IF i \in SaPartnerom THEN RedRacuna ELSE {})
  OBVIOUS
<1>9. Upisano(A)
  BY <1>3, <1>5, <1>6, <1>7, <1>8, KnjiziPise
<1>10. PostaIsta
  BY DEF posta, PostaIsta, BankaInv, BankaTipovi
<1>11. radnik' = [Zastari(A) EXCEPT ![w] = Miran]
  BY <1>3, <1>8 DEF Knjizi
<1> QED
  BY <1>9, <1>10, <1>11, MiranOK, PisanjeRadnika


---------------------------------------------------------------------------
(* Steps of others *)

\* A statement is reopened.
LEMMA RasknjiziInv ==
  ASSUME BankaInv, NEW i \in Izvod, Rasknjizi(i), UNCHANGED <<posta, prekidi>>
  PROVE  BankaInv'
<1>1. /\ izvod \in [Izvod -> Izvod0] /\ nalog \in [Izvod -> Nalog0] /\ veza \in [Izvod -> Nat]
      /\ ostalo \in Nat /\ placanje \in Placanja /\ zakljucena \in BOOLEAN
      /\ NaloziOK(izvod, nalog, veza) /\ PlacanjeOK(veza, ostalo, placanje)
  BY DEF BankaInv, BankaTipovi
<1>2. PICK y \in Izvod0 : y = izvod[i]
  BY <1>1
<1>3. PICK u : u = [y EXCEPT !.status = "NEEDS_REVIEW"]
  OBVIOUS
<1>4. u \in Izvod0 /\ u.status = "NEEDS_REVIEW" /\ u.nalog = y.nalog
  BY <1>3 DEF Izvod0, Stanja
<1>5. izvod' = [izvod EXCEPT ![i] = u]
  BY <1>1, <1>2, <1>3 DEF Rasknjizi
<1>6. izvod' \in [Izvod -> Izvod0] /\ izvod'[i] = u /\ \A j \in Izvod \ {i} : izvod'[j] = izvod[j]
  BY <1>1, <1>4, <1>5
<1>7. /\ nalog' \in [Izvod -> Nalog0] /\ nalog'[i] = "DRAFT"
      /\ \A j \in Izvod \ {i} : nalog'[j] = nalog[j]
  BY <1>1 DEF Rasknjizi, Nalog0
<1>8. veza' \in [Izvod -> Nat] /\ veza'[i] = 0 /\ \A j \in Izvod \ {i} : veza'[j] = veza[j]
  BY <1>1 DEF Rasknjizi
<1>9. NaloziOK(izvod', nalog', veza')
  BY <1>1, <1>4, <1>6, <1>7, <1>8 DEF NaloziOK
<1>10. \A j \in Izvod : izvod[j].status # "NEMA" => izvod'[j].status # "NEMA"
  BY <1>4, <1>6
<1>11. PICK A : A = Red(i) \cup (IF veza[i] > 0 THEN RedRacuna ELSE {})
  OBVIOUS
<1>12. radnik' = Zastari(A) /\ ostalo' = ostalo /\ zakljucena' = zakljucena
  BY <1>11 DEF Rasknjizi
<1>13. PostaIsta
  BY DEF posta, PostaIsta, BankaInv, BankaTipovi
<1>14. CASE veza[i] > 0
  <2>1. /\ Sve(veza', ostalo) = Sve(veza, ostalo) - veza[i] + veza'[i]
        /\ Vidljivo(veza', ostalo) = IF i \in SaPartnerom
                                       THEN Vidljivo(veza, ostalo) - veza[i] + veza'[i]
                                     ELSE Vidljivo(veza, ostalo)
    BY <1>1, <1>8, JednaVeza
  <2>2. Sve(veza, ostalo) \in Nat /\ Vidljivo(veza, ostalo) \in Nat /\ Dug \in Nat /\ veza[i] \in Nat
    BY <1>1, ZbiroviPrirodni, IzvodiPretpostavke
  <2>3. Vidljivo(veza', ostalo) <= Vidljivo(veza, ostalo)
    BY <1>8, <2>1, <2>2
  <2>4. placanje' = IF UKnjizi THEN Status(Sve(veza', ostalo)) ELSE placanje
    <3>1. Osvjezi(veza', ostalo)
      BY <1>14 DEF Rasknjizi
    <3>2. Zatvoreno(veza', ostalo) = Sve(veza', ostalo)
      BY <1>1, <1>8, ZatvorenoJe
    <3> QED
      BY <3>1, <3>2 DEF Osvjezi
  <2>5. PlacanjeOK(veza', ostalo', placanje')
    <3>1. UKnjizi => Vidljivo(veza', ostalo) <= Dug
      <4>1. SUFFICES ASSUME UKnjizi PROVE Vidljivo(veza', ostalo) <= Dug
        OBVIOUS
      <4>2. Vidljivo(veza, ostalo) <= Dug
        BY <1>1, <4>1 DEF PlacanjeOK
      <4>3. Vidljivo(veza', ostalo) \in Nat
        BY <1>1, <1>8, ZbiroviPrirodni
      <4> QED
        BY <2>2, <2>3, <4>2, <4>3
    <3> QED
      BY <1>12, <2>4, <3>1 DEF PlacanjeOK
  <2>6. placanje' \in Placanja
    BY <1>1, <2>4, StatusTip
  <2>7. Upisano(A)
    BY <1>1, <1>6, <1>7, <1>8, <1>9, <1>10, <1>11, <1>12, <1>14, <2>5, <2>6 DEF Upisano
  <2> QED
    BY <1>12, <1>13, <2>7, PisanjeDrugih
<1>15. CASE ~(veza[i] > 0)
  <2>1. veza[i] = 0
    BY <1>1, <1>15
  <2>2. veza' = veza
    BY <1>1, <2>1 DEF Rasknjizi
  <2>3. placanje' = placanje
    BY <1>15 DEF Rasknjizi
  <2>4. Upisano(A)
    BY <1>6, <1>7, <1>9, <1>10, <1>12, <2>2, <2>3, SamoIzvodi
  <2> QED
    BY <1>12, <1>13, <2>4, PisanjeDrugih
<1> QED
  BY <1>14, <1>15

\* The invoice is settled with another payment, or loses all of its edges.
LEMMA ZatvoriOstalimInv ==
  ASSUME BankaInv, ZatvoriOstalim, UNCHANGED <<posta, prekidi>>
  PROVE  BankaInv'
<1>1. /\ izvod \in [Izvod -> Izvod0] /\ nalog \in [Izvod -> Nalog0] /\ veza \in [Izvod -> Nat]
      /\ ostalo \in Nat /\ placanje \in Placanja /\ zakljucena \in BOOLEAN
      /\ NaloziOK(izvod, nalog, veza)
  BY DEF BankaInv, BankaTipovi
<1>2. /\ izvod' = izvod /\ nalog' = nalog /\ veza' = veza /\ zakljucena' = zakljucena
      /\ ostalo' = ostalo + 1 /\ radnik' = Zastari(RedRacuna) /\ Osvjezi(veza, ostalo')
      /\ Zatvoreno(veza, ostalo) < Dug
  BY DEF ZatvoriOstalim
<1>3. ostalo' \in Nat
  BY <1>1, <1>2
<1>4. Zatvoreno(veza, ostalo) = Sve(veza, ostalo) /\ Zatvoreno(veza, ostalo') = Sve(veza, ostalo')
  BY <1>1, <1>3, ZatvorenoJe
<1>5. /\ Sve(veza, ostalo) \in Nat /\ Vidljivo(veza, ostalo') \in Nat
      /\ Vidljivo(veza, ostalo') <= Sve(veza, ostalo') /\ Dug \in Nat
  BY <1>1, <1>3, ZbiroviPrirodni, IzvodiPretpostavke
<1>6. Sve(veza, ostalo') = Sve(veza, ostalo) + 1
  <2>1. ZbirNad(veza, Izvod) \in Int
    BY <1>1, KonacnoIzvoda, ZbirCio
  <2> QED
    BY <1>1, <1>2, <2>1 DEF Sve
<1>7. Vidljivo(veza, ostalo') <= Dug
  BY <1>2, <1>4, <1>5, <1>6
<1>8. placanje' = IF UKnjizi THEN Status(Sve(veza, ostalo')) ELSE placanje
  BY <1>2, <1>4 DEF Osvjezi
<1>9. PlacanjeOK(veza', ostalo', placanje') /\ placanje' \in Placanja
  BY <1>1, <1>2, <1>7, <1>8, StatusTip DEF PlacanjeOK
<1>10. Upisano(RedRacuna)
  BY <1>1, <1>2, <1>3, <1>9 DEF Upisano
<1>11. PostaIsta
  BY DEF posta, PostaIsta, BankaInv, BankaTipovi
<1> QED
  BY <1>2, <1>10, <1>11, PisanjeDrugih

LEMMA PonistiVezeInv ==
  ASSUME BankaInv, PonistiVeze, UNCHANGED <<posta, prekidi>>
  PROVE  BankaInv'
<1>1. /\ izvod \in [Izvod -> Izvod0] /\ nalog \in [Izvod -> Nalog0]
      /\ placanje \in Placanja /\ zakljucena \in BOOLEAN /\ NaloziOK(izvod, nalog, veza)
  BY DEF BankaInv, BankaTipovi
<1>2. /\ izvod' = izvod /\ nalog' = nalog /\ zakljucena' = zakljucena /\ ostalo' = 0
      /\ veza' = [i \in Izvod |-> 0] /\ radnik' = Zastari(RedRacuna) /\ Osvjezi(veza', 0)
  BY DEF PonistiVeze
<1>3. veza' \in [Izvod -> Nat] /\ \A i \in Izvod : veza'[i] = 0
  BY <1>2
<1>4. Sve(veza', 0) = 0 /\ Vidljivo(veza', 0) = 0 /\ Zatvoreno(veza', 0) = Sve(veza', 0)
  BY <1>3, BezVeza, ZatvorenoJe
<1>5. PlacanjeOK(veza', ostalo', placanje') /\ placanje' \in Placanja
  BY <1>1, <1>2, <1>4, IzvodiPretpostavke, StatusTip DEF PlacanjeOK, Osvjezi
<1>6. NaloziOK(izvod', nalog', veza')
  BY <1>1, <1>2, <1>3 DEF NaloziOK
<1>7. Upisano(RedRacuna)
  BY <1>1, <1>2, <1>3, <1>5, <1>6 DEF Upisano
<1>8. PostaIsta
  BY DEF posta, PostaIsta, BankaInv, BankaTipovi
<1> QED
  BY <1>2, <1>7, <1>8, PisanjeDrugih

\* The year is closed or opened.
LEMMA PromijeniGodinuInv ==
  ASSUME BankaInv, PromijeniGodinu, Prekid, UNCHANGED posta
  PROVE  BankaInv'
<1>1. /\ izvod \in [Izvod -> Izvod0] /\ nalog \in [Izvod -> Nalog0] /\ veza \in [Izvod -> Nat]
      /\ ostalo \in Nat /\ placanje \in Placanja
      /\ NaloziOK(izvod, nalog, veza) /\ PlacanjeOK(veza, ostalo, placanje)
  BY DEF BankaInv, BankaTipovi
<1>2. /\ izvod' = izvod /\ nalog' = nalog /\ veza' = veza /\ ostalo' = ostalo
      /\ placanje' = placanje /\ zakljucena' \in BOOLEAN /\ radnik' = Zastari(RedGodine)
  BY DEF PromijeniGodinu
<1>3. Sve(veza, ostalo) <= Sve(veza, ostalo)
  BY <1>1, ZbiroviPrirodni
<1>4. Upisano(RedGodine)
  BY <1>1, <1>2, <1>3 DEF Upisano
<1>5. PostaIsta
  BY DEF Prekid, posta, PostaIsta, BankaInv, BankaTipovi
<1> QED
  BY <1>2, <1>4, <1>5, PisanjeDrugih

\* The lease is lost.
LEMMA IstekniZakupInv ==
  ASSUME BankaInv, IstekniZakup
  PROVE  BankaInv'
<1>1. /\ izvod \in [Izvod -> Izvod0] /\ nalog \in [Izvod -> Nalog0] /\ NaloziOK(izvod, nalog, veza)
  BY DEF BankaInv, BankaTipovi
<1>2. /\ izvod' = izvod /\ nalog' = nalog /\ UNCHANGED <<veza, ostalo, placanje, zakljucena>>
      /\ radnik' = radnik
  BY DEF IstekniZakup, izvodi
<1>3. Upisano({})
  BY <1>1, <1>2, SamoIzvodi
<1>4. PostaIsta
  BY DEF IstekniZakup, Prekid, PostaIsta, BankaInv, BankaTipovi
<1>5. radnik' = Zastari({})
  BY <1>2, BezPisanja
<1> QED
  BY <1>3, <1>4, <1>5, PisanjeDrugih

\* A statement is deleted: the records of messages lose it, and so do the requests.
LEMMA ObrisiInv ==
  ASSUME BankaInv, NEW w \in Radnik, Obrisi(w)
  PROVE  BankaInv'
<1>1. PICK i : i = radnik[w].izvod
  OBVIOUS
<1>2. radnik \in [Radnik -> Radnik0] /\ i \in Izvod \cup {0}
  BY <1>1 DEF BankaInv, BankaTipovi, Radnik0
<1>3. /\ izvod \in [Izvod -> Izvod0] /\ nalog \in [Izvod -> Nalog0] /\ veza \in [Izvod -> Nat]
      /\ ostalo \in Nat /\ placanje \in Placanja /\ zakljucena \in BOOLEAN
      /\ NaloziOK(izvod, nalog, veza) /\ PlacanjeOK(veza, ostalo, placanje)
      /\ PorukeOK(red, izvod) /\ zakup \in Radnik \cup {0} /\ obradjen \in BOOLEAN /\ prekidi \in Nat
  BY DEF BankaInv, BankaTipovi
<1>4. /\ red = [p \in Poruka |-> red[p]]
      /\ \A p \in Poruka : /\ red[p] \in [Prilozi[p] \cup {0} -> Zapis0]
                           /\ red[p][0] \in {"NEMA", "GRESKA"}
  BY DEF BankaInv, BankaTipovi, ZapisiUredni
<1>5. 0 \notin Izvod /\ \A p \in Poruka : Prilozi[p] \subseteq Izvod
  BY BankaPretpostavke, IzvodiPretpostavke
<1>6. /\ IF i = 0 THEN izvod' = izvod /\ red' = red
         ELSE /\ izvod' = [izvod EXCEPT ![i] = NemaIzvoda]
              /\ red' = [p \in Poruka |-> [k \in DOMAIN red[p] |->
                   IF k = i /\ red[p][k] = "UVEZEN" THEN "OBRISAN" ELSE red[p][k]]]
      /\ radnik' = [v \in Radnik |->
           IF v = w THEN Miran
           ELSE [radnik[v] EXCEPT !.izvod = IF @ = i THEN 0 ELSE @, !.spremni = @ \ {i}]]
      /\ nalog' = nalog /\ veza' = veza /\ ostalo' = ostalo /\ placanje' = placanje
      /\ zakljucena' = zakljucena /\ zakup' = zakup /\ obradjen' = obradjen /\ prekidi' = prekidi
  BY <1>1 DEF Obrisi
<1>7. NemaIzvoda \in Izvod0 /\ NemaIzvoda.status = "NEMA" /\ ~NemaIzvoda.nalog
  BY DEF NemaIzvoda, Izvod0, Stanja
<1>8. /\ izvod' \in [Izvod -> Izvod0]
      /\ \A j \in Izvod : izvod'[j] = IF j = i THEN NemaIzvoda ELSE izvod[j]
  <2>1. CASE i = 0
    BY <1>3, <1>5, <1>6, <2>1
  <2>2. CASE i # 0
    BY <1>2, <1>3, <1>6, <1>7, <2>2
  <2> QED
    BY <2>1, <2>2
<1>9. PICK R : R = red'
  OBVIOUS
<1>10. /\ R = [p \in Poruka |-> R[p]]
       /\ \A p \in Poruka : /\ R[p] \in [Prilozi[p] \cup {0} -> Zapis0]
                            /\ R[p][0] = red[p][0]
                            /\ \A k \in Prilozi[p] :
                                 R[p][k] = IF k = i /\ red[p][k] = "UVEZEN" THEN "OBRISAN"
                                           ELSE red[p][k]
  <2>1. CASE i = 0
    BY <1>4, <1>5, <1>6, <1>9, <2>1
  <2>2. CASE i # 0
    <3>1. R = [p \in Poruka |-> [k \in DOMAIN red[p] |->
                 IF k = i /\ red[p][k] = "UVEZEN" THEN "OBRISAN" ELSE red[p][k]]]
      BY <1>6, <1>9, <2>2
    <3>2. \A p \in Poruka : R[p] = [k \in Prilozi[p] \cup {0} |->
                 IF k = i /\ red[p][k] = "UVEZEN" THEN "OBRISAN" ELSE red[p][k]]
      BY <1>4, <3>1
    <3>3. SUFFICES ASSUME NEW p \in Poruka
                   PROVE  /\ R[p] \in [Prilozi[p] \cup {0} -> Zapis0]
                          /\ R[p][0] = red[p][0]
                          /\ \A k \in Prilozi[p] :
                               R[p][k] = IF k = i /\ red[p][k] = "UVEZEN" THEN "OBRISAN"
                                         ELSE red[p][k]
      BY <3>1
    <3>4. PICK f \in [Prilozi[p] \cup {0} -> Zapis0] : f = red[p]
      BY <1>4
    <3>5. R[p] = [k \in Prilozi[p] \cup {0} |->
                    IF k = i /\ f[k] = "UVEZEN" THEN "OBRISAN" ELSE f[k]]
      BY <3>2, <3>4
    <3>6. \A k \in Prilozi[p] \cup {0} :
            (IF k = i /\ f[k] = "UVEZEN" THEN "OBRISAN" ELSE f[k]) \in Zapis0
      BY DEF Zapis0
    <3> QED
      BY <2>2, <3>4, <3>5, <3>6
  <2> QED
    BY <2>1, <2>2
<1>11. ZapisiUredni(R)
  BY <1>4, <1>10 DEF ZapisiUredni
<1>12. \A p \in Poruka : \A k \in Prilozi[p] :
         /\ red[p][k] # "NEMA" <=> R[p][k] # "NEMA"
         /\ R[p][k] = "UVEZEN" => red[p][k] = "UVEZEN" /\ k # i
  BY <1>10
<1>13. \A p \in Poruka : /\ Zabiljezena(red, p) => Zabiljezena(R, p)
                         /\ Netaknuta(red, p) => Netaknuta(R, p)
  BY <1>12 DEF Zabiljezena, Netaknuta
<1>14. PorukeOK(R, izvod')
  <2>1. SUFFICES ASSUME NEW p \in Poruka
                 PROVE  /\ \A k \in Prilozi[p] : R[p][k] = "UVEZEN" => izvod'[k].status # "NEMA"
                        /\ R[p][0] = "NEMA" => Zabiljezena(R, p) \/ Netaknuta(R, p)
    BY DEF PorukeOK
  <2>2. \A k \in Prilozi[p] : R[p][k] = "UVEZEN" => izvod'[k].status # "NEMA"
    BY <1>3, <1>5, <1>8, <1>12 DEF PorukeOK
  <2>3. R[p][0] = "NEMA" => Zabiljezena(R, p) \/ Netaknuta(R, p)
    BY <1>3, <1>10, <1>13 DEF PorukeOK
  <2> QED
    BY <2>2, <2>3
<1>15. NaloziOK(izvod', nalog', veza')
  BY <1>3, <1>6, <1>7, <1>8 DEF NaloziOK
<1>16. TabeleOK'
  BY <1>3, <1>6, <1>9, <1>14, <1>15 DEF TabeleOK
<1>17. \A v \in Radnik \ {w} :
         /\ radnik'[v] \in Radnik0 /\ IstiPosao(radnik[v], radnik'[v])
         /\ radnik'[v].izvod # 0 => radnik'[v].izvod \in Izvod \ {i}
  <2>1. TAKE v \in Radnik \ {w}
  <2>2. PICK x \in Radnik0 : x = radnik[v]
    BY <1>2
  <2>3. PICK y : y = [x EXCEPT !.izvod = IF @ = i THEN 0 ELSE @, !.spremni = @ \ {i}]
    OBVIOUS
  <2>4. radnik'[v] = y
    BY <1>6, <2>2, <2>3
  <2>5. y \in Radnik0 /\ IstiPosao(x, y) /\ y.izvod = IF x.izvod = i THEN 0 ELSE x.izvod
    BY <2>3 DEF Radnik0, IstiPosao
  <2>6. x.izvod \in Izvod \cup {0}
    BY DEF Radnik0
  <2> QED
    BY <2>2, <2>4, <2>5, <2>6
<1>18. radnik'[w] = Miran /\ radnik' = [v \in Radnik |-> radnik'[v]]
  BY <1>6
<1>19. BankaTipovi'
  <2>1. radnik' \in [Radnik -> Radnik0]
    BY <1>17, <1>18, MiranOK
  <2> QED
    BY <1>3, <1>6, <1>8, <1>9, <1>10, <1>11, <2>1 DEF BankaTipovi
<1>20. Napreduju(red, red')
  BY <1>9, <1>10, <1>12 DEF Napreduju
<1>21. PICK Q \in SUBSET Radnik : Q = Radnik \ {w}
  OBVIOUS
<1>22. \A v \in Radnik \ Q : RadnikOK(radnik'[v], izvod', veza', ostalo', zakljucena', red')
  BY <1>18, <1>21, MiranOK
<1>23. \A v \in Q : /\ IstiPosao(radnik[v], radnik'[v])
                    /\ JosVazi(radnik'[v], izvod, izvod', veza, ostalo, zakljucena,
                               veza', ostalo', zakljucena')
  <2>1. TAKE v \in Q
  <2>2. JosVazi(radnik'[v], izvod, izvod, veza, ostalo, zakljucena, veza, ostalo, zakljucena)
    BY <1>3, VaziIsto
  <2>3. radnik'[v].izvod # 0 => izvod'[radnik'[v].izvod] = izvod[radnik'[v].izvod]
    BY <1>8, <1>17, <1>21
  <2> QED
    BY <1>6, <1>17, <1>21, <2>2, <2>3 DEF JosVazi
<1> QED
  BY <1>16, <1>19, <1>20, <1>21, <1>22, <1>23, KorakInv

---------------------------------------------------------------------------
(* The invariant is inductive *)

LEMMA InitInv ==
  ASSUME Init PROVE BankaInv
<1>1. /\ izvod = [i \in Izvod |-> NemaIzvoda] /\ nalog = [i \in Izvod |-> "NEMA"]
      /\ veza = [i \in Izvod |-> 0] /\ ostalo = 0 /\ placanje = "UNPAID" /\ zakljucena = FALSE
      /\ radnik = [w \in Radnik |-> Miran]
      /\ red = [p \in Poruka |-> [k \in Prilozi[p] \cup {0} |-> "NEMA"]]
      /\ zakup = 0 /\ obradjen = FALSE /\ prekidi = 0
  BY DEF Init, IzvodiInit
<1>2. NemaIzvoda \in Izvod0 /\ NemaIzvoda.status = "NEMA" /\ ~NemaIzvoda.nalog
  BY DEF NemaIzvoda, Izvod0, Stanja
<1>3. Miran \in Radnik0 /\ \A w \in Radnik : RadnikOK(radnik[w], izvod, veza, ostalo, zakljucena, red)
  BY <1>1, MiranOK
<1>4. ZapisiUredni(red) /\ red = [p \in Poruka |-> red[p]]
  BY <1>1 DEF ZapisiUredni, Zapis0
<1>5. veza \in [Izvod -> Nat] /\ \A i \in Izvod : veza[i] = 0
  BY <1>1
<1>6. BankaTipovi
  BY <1>1, <1>2, <1>3, <1>4, <1>5 DEF BankaTipovi, Nalog0, Placanja
<1>7. NaloziOK(izvod, nalog, veza)
  BY <1>1, <1>2, <1>5 DEF NaloziOK
<1>8. PlacanjeOK(veza, ostalo, placanje)
  <2>1. Sve(veza, ostalo) = 0 /\ Vidljivo(veza, ostalo) = 0
    BY <1>1, <1>5, BezVeza
  <2>2. Status(0) = "UNPAID"
    BY DEF Status
  <2> QED
    BY <1>1, <2>1, <2>2, IzvodiPretpostavke DEF PlacanjeOK
<1>9. PorukeOK(red, izvod)
  BY <1>1 DEF PorukeOK, Netaknuta
<1> QED
  BY <1>3, <1>6, <1>7, <1>8, <1>9 DEF BankaInv

LEMMA RadInv ==
  ASSUME BankaInv, Rad
  PROVE  BankaInv'
<1>1. UNCHANGED <<posta, prekidi>>
  BY DEF Rad
<1>2. ASSUME NEW w \in Radnik, NEW i \in Izvod, Otvori(w, i) \/ ZatraziKnjizenje(w, i)
      PROVE  BankaInv'
  BY <1>1, <1>2, OtvoriInv, ZatraziKnjizenjeInv
<1>3. ASSUME NEW w \in Radnik, SacuvajStavke(w) \/ SacuvajRucno(w) PROVE BankaInv'
  BY <1>1, <1>3, SacuvajInv
<1>4. ASSUME NEW w \in Radnik, Odustani(w) \/ NeProknjizi(w) PROVE BankaInv'
  BY <1>1, <1>4, OdustajanjeInv
<1>5. ASSUME NEW w \in Radnik, ZatraziBrisanje(w) PROVE BankaInv'
  BY <1>1, <1>5, ZatraziBrisanjeInv
<1>6. ASSUME NEW w \in Radnik, ProknjiziRucno(w) PROVE BankaInv'
  BY <1>1, <1>6, ProknjiziRucnoInv
<1>7. ASSUME NEW w \in Radnik, Proknjizi(w) PROVE BankaInv'
  BY <1>1, <1>7, ProknjiziInv
<1>8. ASSUME NEW i \in Izvod, UveziFajl(i) PROVE BankaInv'
  BY <1>1, <1>8, UveziFajlInv
<1>9. ASSUME NEW i \in Izvod, Rasknjizi(i) PROVE BankaInv'
  BY <1>1, <1>9, RasknjiziInv
<1>10. CASE ZatvoriOstalim
  BY <1>1, <1>10, ZatvoriOstalimInv
<1>11. CASE PonistiVeze
  BY <1>1, <1>11, PonistiVezeInv
<1> QED
  BY <1>2, <1>3, <1>4, <1>5, <1>6, <1>7, <1>8, <1>9, <1>10, <1>11 DEF Rad

LEMMA PostaInv ==
  ASSUME BankaInv, Posta
  PROVE  BankaInv'
<1>1. ASSUME NEW w \in Radnik, UveziPrilog(w) PROVE BankaInv'
  BY <1>1, UveziPrilogInv
<1>2. ASSUME NEW w \in Radnik, OdbijPrilog(w) PROVE BankaInv'
  BY <1>2, OdbijPrilogInv
<1>3. ASSUME NEW w \in Radnik, Zapisi(w) PROVE BankaInv'
  BY <1>3, ZapisiInv
<1>4. ASSUME NEW w \in Radnik, ZavrsiPoruku(w) PROVE BankaInv'
  BY <1>4, ZavrsiPorukuInv
<1>5. ASSUME NEW w \in Radnik, Obrisi(w) PROVE BankaInv'
  BY <1>5, ObrisiInv
<1>6. ASSUME NEW w \in Radnik, Otkucaj(w) PROVE BankaInv'
  BY <1>6, OtkucajInv
<1>7. ASSUME NEW w \in Radnik, AutoSpremni(w) PROVE BankaInv'
  BY <1>7, AutoSpremniInv
<1>8. ASSUME NEW w \in Radnik, AutoKnjizi(w) PROVE BankaInv'
  BY <1>8, AutoKnjiziInv
<1>9. ASSUME NEW w \in Radnik, Izvjestaj(w) \/ Stani(w) PROVE BankaInv'
  BY <1>9, KrajAutomatikeInv
<1>10. ASSUME NEW w \in Radnik, NEW p \in Poruka, UveziPoruku(w, p) PROVE BankaInv'
  BY <1>10, UveziPorukuInv
<1>11. ASSUME NEW w \in Radnik, NEW p \in Poruka, AutoPoruka(w, p) PROVE BankaInv'
  BY <1>11, AutoPorukaInv
<1>12. CASE IstekniZakup
  BY <1>12, IstekniZakupInv
<1>13. CASE PromijeniGodinu /\ Prekid /\ UNCHANGED posta
  BY <1>13, PromijeniGodinuInv
<1> QED
  BY <1>1, <1>2, <1>3, <1>4, <1>5, <1>6, <1>7, <1>8, <1>9, <1>10, <1>11, <1>12, <1>13 DEF Posta

LEMMA KorakOdrzava ==
  ASSUME BankaInv, [Next]_vars
  PROVE  BankaInv'
<1>1. CASE Rad
  BY <1>1, RadInv
<1>2. CASE Posta
  BY <1>2, PostaInv
<1>3. CASE UNCHANGED vars
  <2>1. /\ izvod' = izvod /\ nalog' = nalog /\ veza' = veza /\ ostalo' = ostalo
        /\ placanje' = placanje /\ zakljucena' = zakljucena /\ radnik' = radnik
        /\ red' = red /\ zakup' = zakup /\ obradjen' = obradjen /\ prekidi' = prekidi
    BY <1>3 DEF vars, izvodi, posta
  <2>2. BankaTipovi'
    BY <2>1 DEF BankaInv, BankaTipovi
  <2> QED
    BY <2>1, <2>2 DEF BankaInv
<1> QED
  BY <1>1, <1>2, <1>3 DEF Next

LEMMA UvijekInv == Spec => []BankaInv
<1>1. Init => BankaInv
  BY InitInv
<1>2. BankaInv /\ [Next]_vars => BankaInv'
  BY KorakOdrzava
<1> QED
  BY <1>1, <1>2, PTL DEF Spec

\* Statements, journals, edges, records of messages and requests keep their types.
THEOREM UvijekTipovi == Spec => []BankaTipovi
<1>1. BankaInv => BankaTipovi
  BY DEF BankaInv
<1> QED
  BY <1>1, UvijekInv, PTL

---------------------------------------------------------------------------
(* What follows from it *)

\* Statement and journal agree, whoever posts, reopens, edits or deletes meanwhile.
THEOREM UvijekPratiIzvod == Spec => []NalogPratiIzvod
<1>1. BankaInv => NalogPratiIzvod
  BY DEF BankaInv, NaloziOK, NalogPratiIzvod
<1> QED
  BY <1>1, UvijekInv, PTL

\* An invoice that only statements naming its partner settle is paid as its edges say, and
\* never beyond its amount.
THEOREM UvijekTacnoPlacanje == Spec => []StatusPlacanja
<1>1. BankaInv => StatusPlacanja
  <2>1. SUFFICES ASSUME BankaInv, UKnjizi, SamoNazvani(veza)
                 PROVE  /\ placanje = Status(Zatvoreno(veza, ostalo))
                        /\ Zatvoreno(veza, ostalo) <= Dug
    BY DEF StatusPlacanja, SamoNazvani
  <2>2. veza \in [Izvod -> Nat] /\ ostalo \in Nat
    BY <2>1 DEF BankaInv, BankaTipovi
  <2>3. Vidljivo(veza, ostalo) <= Dug /\ placanje = Status(Sve(veza, ostalo))
    BY <2>1 DEF BankaInv, PlacanjeOK
  <2>4. Zatvoreno(veza, ostalo) = Sve(veza, ostalo) /\ Sve(veza, ostalo) = Vidljivo(veza, ostalo)
    BY <2>1, <2>2, ZatvorenoJe, SveJeVidljivo
  <2> QED
    BY <2>3, <2>4
<1> QED
  BY <1>1, UvijekInv, PTL

\* A message that counts as completed has left all of its statements in the database.
THEOREM UvijekUvezenaObradjena == Spec => []ObradjenaJeUvezena
<1>1. BankaInv => ObradjenaJeUvezena
  <2>1. SUFFICES ASSUME BankaInv, NEW p \in Poruka, Zavrsena(p), NEW i \in Prilozi[p]
                 PROVE  izvod[i].status # "NEMA"
    BY DEF ObradjenaJeUvezena, Postoji
  <2>2. red[p] \in [Prilozi[p] \cup {0} -> Zapis0] /\ red[p][0] \in {"NEMA", "GRESKA"}
    BY <2>1 DEF BankaInv, BankaTipovi, ZapisiUredni
  <2>3. PICK k \in Prilozi[p] \cup {0} : red[p][k] = "UVEZEN"
    BY <2>1, <2>2 DEF Zavrsena
  <2>4. k \in Prilozi[p]
    BY <2>2, <2>3
  <2>5. \A j \in Prilozi[p] \cup {0} : red[p][j] \in {"NEMA", "UVEZEN"}
    BY <2>1, <2>2 DEF Zavrsena
  <2>6. red[p][0] = "NEMA"
    BY <2>2, <2>5
  <2>7. PorukeOK(red, izvod)
    BY <2>1 DEF BankaInv
  <2>8. Zabiljezena(red, p)
    BY <2>3, <2>4, <2>6, <2>7 DEF PorukeOK, Netaknuta
  <2>9. red[p][i] = "UVEZEN"
    BY <2>1, <2>5, <2>8 DEF Zabiljezena
  <2> QED
    BY <2>1, <2>7, <2>9 DEF PorukeOK
<1> QED
  BY <1>1, UvijekInv, PTL

---------------------------------------------------------------------------
(* What a step may do to a statement *)

\* It stays; or it is deleted; or, in an open year, it changes without being posted, or is
\* posted by a request that had it, a user's if it has a journal.
Mirno(i) == nalog'[i] = nalog[i] /\ izvod'[i] \in {izvod[i], NemaIzvoda}
Uredjeno(i) == ~zakljucena /\ izvod'[i].status # "POSTED"
Knjizeno(i) ==
  /\ ~zakljucena
  /\ izvod[i].nalog => \E w \in Radnik : radnik[w].izvod = i /\ ~radnik[w].auto /\ radnik'[w] = Miran
SmijeIzvod == \A i \in Izvod : Mirno(i) \/ Uredjeno(i) \/ Knjizeno(i)

LEMMA OstaloMirno ==
  ASSUME izvod' = izvod, nalog' = nalog PROVE SmijeIzvod
BY DEF SmijeIzvod, Mirno

\* The import, and a form that is saved.
LEMMA UvozSmije ==
  ASSUME BankaInv, NEW i \in Izvod, Uvezi(i)
  PROVE  SmijeIzvod
<1>1. izvod \in [Izvod -> Izvod0]
  BY DEF BankaInv, BankaTipovi
<1>2. CASE Postoji(i)
  BY <1>2, OstaloMirno DEF Uvezi
<1>3. CASE ~Postoji(i)
  <2>1. PICK s \in {"READY", "NEEDS_REVIEW"} :
          izvod' = [izvod EXCEPT ![i] = [NemaIzvoda EXCEPT !.status = s]]
    BY <1>3 DEF Uvezi
  <2>2. PICK x : x = [NemaIzvoda EXCEPT !.status = s]
    OBVIOUS
  <2>3. x.status # "POSTED"
    BY <2>1, <2>2 DEF NemaIzvoda
  <2>4. izvod'[i] = x /\ \A j \in Izvod \ {i} : izvod'[j] = izvod[j]
    BY <1>1, <2>1, <2>2
  <2>5. nalog' = nalog /\ ~zakljucena
    BY DEF Uvezi
  <2> QED
    BY <2>3, <2>4, <2>5 DEF SmijeIzvod, Mirno, Uredjeno
<1> QED
  BY <1>2, <1>3

LEMMA SacuvanoSmije ==
  ASSUME BankaInv, NEW w \in Radnik, SacuvajStavke(w) \/ SacuvajRucno(w)
  PROVE  SmijeIzvod
<1>1. PICK i : i = radnik[w].izvod
  OBVIOUS
<1>2. Zakljucan(w)
  BY DEF SacuvajStavke, SacuvajRucno
<1>3. i \in Izvod /\ ~zakljucena
  BY <1>1, <1>2 DEF Zakljucan, BankaInv, BankaTipovi, Radnik0
<1>4. izvod \in [Izvod -> Izvod0] /\ nalog \in [Izvod -> Nalog0]
  BY DEF BankaInv, BankaTipovi
<1>5. PICK rezim \in {"AUTO", "MANUAL"} : Sacuvaj(w, rezim)
  BY DEF SacuvajStavke, SacuvajRucno
<1>6. PICK s \in {"READY", "NEEDS_REVIEW"} :
        izvod' = [izvod EXCEPT ![i].status = s, ![i].rezim = rezim,
                               ![i].nalog = @ \/ rezim = "MANUAL"]
  BY <1>1, <1>5 DEF Sacuvaj
<1>7. PICK y \in Izvod0 : y = izvod[i]
  BY <1>3, <1>4
<1>8. PICK u : u = [y EXCEPT !.status = s, !.rezim = rezim, !.nalog = @ \/ rezim = "MANUAL"]
  OBVIOUS
<1>9. u.status = s
  BY <1>8 DEF Izvod0
<1>10. izvod' = [izvod EXCEPT ![i] = u]
  BY <1>3, <1>4, <1>6, <1>7, <1>8
<1>11. izvod'[i].status # "POSTED" /\ \A j \in Izvod \ {i} : izvod'[j] = izvod[j]
  BY <1>3, <1>4, <1>6, <1>9, <1>10
<1>12. \A j \in Izvod \ {i} : nalog'[j] = nalog[j]
  BY <1>1, <1>4 DEF SacuvajStavke, SacuvajRucno
<1> QED
  BY <1>3, <1>11, <1>12 DEF SmijeIzvod, Mirno, Uredjeno

\* A posting, by rules or by hand, and a statement reopened.
LEMMA KnjizenoSmije ==
  ASSUME BankaInv, NEW w \in Radnik, Proknjizi(w) \/ ProknjiziRucno(w)
  PROVE  SmijeIzvod
<1>1. PICK x \in Radnik0 : x = radnik[w]
  BY DEF BankaInv, BankaTipovi
<1>2. PICK i : i = x.izvod
  OBVIOUS
<1>3. i \in Izvod /\ \E q, z : Knjizi(w, i, q, z)
  BY <1>1, <1>2 DEF Proknjizi, ProknjiziRucno, SmijeKnjiziti, Zakljucan, Radnik0
<1>4. izvod \in [Izvod -> Izvod0] /\ nalog \in [Izvod -> Nalog0]
  BY DEF BankaInv, BankaTipovi
<1>5. \A j \in Izvod \ {i} : izvod'[j] = izvod[j] /\ nalog'[j] = nalog[j]
  BY <1>3, <1>4 DEF Knjizi
<1>6. Knjizeno(i)
  <2>1. CASE Proknjizi(w)
    <3>1. x.pc = "knjizi" /\ ~x.staro /\ (izvod[i].nalog => ~x.auto)
      BY <1>1, <1>2, <2>1 DEF Proknjizi, SmijeKnjiziti, Kod
    <3>2. ~zakljucena
      BY <1>1, <3>1 DEF BankaInv, RadnikOK, Snimak
    <3>3. radnik' = [Zastari(Red(i) \cup (IF i \in SaPartnerom THEN RedRacuna ELSE {}))
                       EXCEPT ![w] = Nakon(w)]
      BY <1>1, <1>2, <2>1 DEF Proknjizi, Knjizi
    <3>4. radnik'[w] = Nakon(w)
      BY <3>3 DEF Zastari
    <3>5. ~x.auto => Nakon(w) = Miran
      BY <1>1 DEF Nakon
    <3> QED
      BY <1>1, <1>2, <3>1, <3>2, <3>4, <3>5 DEF Knjizeno
  <2>2. CASE ProknjiziRucno(w)
    <3>1. x.pc = "forma" /\ ~zakljucena
      BY <1>1, <2>2 DEF ProknjiziRucno, Zakljucan, Kod
    <3>2. ~x.auto
      BY <1>1, <3>1, KorisnikuFormi DEF AutoKoraci
    <3>3. radnik' = [Zastari(Red(i) \cup (IF i \in SaPartnerom THEN RedRacuna ELSE {}))
                       EXCEPT ![w] = Miran]
      BY <1>1, <1>2, <2>2 DEF ProknjiziRucno, Knjizi
    <3>4. radnik'[w] = Miran
      BY <3>3 DEF Zastari
    <3> QED
      BY <1>1, <1>2, <3>1, <3>2, <3>4 DEF Knjizeno
  <2> QED
    BY <2>1, <2>2
<1> QED
  BY <1>3, <1>5, <1>6 DEF SmijeIzvod, Mirno

LEMMA RasknjizenoSmije ==
  ASSUME BankaInv, NEW i \in Izvod, Rasknjizi(i)
  PROVE  SmijeIzvod
<1>1. izvod \in [Izvod -> Izvod0] /\ nalog \in [Izvod -> Nalog0]
  BY DEF BankaInv, BankaTipovi
<1>2. PICK y \in Izvod0 : y = izvod[i]
  BY <1>1
<1>3. PICK u : u = [y EXCEPT !.status = "NEEDS_REVIEW"]
  OBVIOUS
<1>4. izvod' = [izvod EXCEPT ![i] = u] /\ u.status = "NEEDS_REVIEW"
  BY <1>1, <1>2, <1>3 DEF Rasknjizi, Izvod0
<1>5. izvod'[i].status # "POSTED" /\ \A j \in Izvod \ {i} : izvod'[j] = izvod[j]
  BY <1>1, <1>4
<1>6. ~zakljucena /\ \A j \in Izvod \ {i} : nalog'[j] = nalog[j]
  BY <1>1 DEF Rasknjizi
<1> QED
  BY <1>5, <1>6 DEF SmijeIzvod, Mirno, Uredjeno

LEMMA BrisanjeSmije ==
  ASSUME BankaInv, NEW w \in Radnik, Obrisi(w)
  PROVE  SmijeIzvod
<1>1. izvod \in [Izvod -> Izvod0]
  BY DEF BankaInv, BankaTipovi
<1>2. nalog' = nalog
  BY DEF Obrisi
<1>3. izvod' \in {izvod, [izvod EXCEPT ![radnik[w].izvod] = NemaIzvoda]}
  BY DEF Obrisi
<1> QED
  BY <1>1, <1>2, <1>3 DEF SmijeIzvod, Mirno

LEMMA KorakSmije ==
  ASSUME BankaInv, Next
  PROVE  SmijeIzvod
<1>1. ASSUME NEW i \in Izvod, UveziFajl(i) PROVE SmijeIzvod
  BY <1>1, UvozSmije DEF UveziFajl
<1>2. ASSUME NEW w \in Radnik, UveziPrilog(w) PROVE SmijeIzvod
  <2>1. PICK x \in Radnik0 : x = radnik[w]
    BY DEF BankaInv, BankaTipovi
  <2>2. x.prilozi \in SUBSET Izvod /\ x.prilozi # {} /\ Uvezi(Min(x.prilozi))
    BY <1>2, <2>1 DEF UveziPrilog, Prvi, Radnik0
  <2>3. Min(x.prilozi) \in Izvod
    BY <2>2, PrviPripada
  <2> QED
    BY <2>2, <2>3, UvozSmije
<1>3. ASSUME NEW i \in Izvod, Rasknjizi(i) PROVE SmijeIzvod
  BY <1>3, RasknjizenoSmije
<1>4. ASSUME NEW w \in Radnik, SacuvajStavke(w) \/ SacuvajRucno(w) PROVE SmijeIzvod
  BY <1>4, SacuvanoSmije
<1>5. ASSUME NEW w \in Radnik, Proknjizi(w) \/ ProknjiziRucno(w) PROVE SmijeIzvod
  BY <1>5, KnjizenoSmije
<1>6. ASSUME NEW w \in Radnik, Obrisi(w) PROVE SmijeIzvod
  BY <1>6, BrisanjeSmije
<1>7. ASSUME Rad
      PROVE  \/ izvod' = izvod /\ nalog' = nalog
             \/ \E i \in Izvod : UveziFajl(i) \/ Rasknjizi(i)
             \/ \E w \in Radnik : SacuvajStavke(w) \/ SacuvajRucno(w)
             \/ \E w \in Radnik : Proknjizi(w) \/ ProknjiziRucno(w)
  BY <1>7 DEF Rad, Otvori, ZatraziKnjizenje, Odustani, ZatraziBrisanje, NeProknjizi,
              ZatvoriOstalim, PonistiVeze, izvodi
<1>8. ASSUME Posta
      PROVE  \/ izvod' = izvod /\ nalog' = nalog
             \/ \E w \in Radnik : UveziPrilog(w) \/ Obrisi(w)
  BY <1>8 DEF Posta, OdbijPrilog, Zapisi, ZavrsiPoruku, Otkucaj, AutoSpremni, AutoKnjizi,
              Izvjestaj, Stani, UveziPoruku, AutoPoruka, PocniPoruku, IstekniZakup,
              PromijeniGodinu, izvodi
<1>9. CASE Rad
  BY <1>1, <1>3, <1>4, <1>5, <1>7, <1>9, OstaloMirno
<1>10. CASE Posta
  BY <1>2, <1>6, <1>8, <1>10, OstaloMirno
<1> QED
  BY <1>9, <1>10 DEF Next

\* A statement that has a journal is posted only by the user who asked for it.
THEOREM UvijekNeVraca == Spec => NeVracaRasknjizen
<1>1. BankaInv /\ [Next]_vars =>
        [\A i \in Izvod :
           izvod'[i].status = "POSTED" /\ izvod[i].status # "POSTED" /\ izvod[i].nalog
             => \E w \in Radnik : radnik[w].izvod = i /\ ~radnik[w].auto /\ radnik'[w] = Miran]_vars
  <2>1. SUFFICES ASSUME BankaInv, Next, NEW i \in Izvod,
                        izvod'[i].status = "POSTED", izvod[i].status # "POSTED", izvod[i].nalog
                 PROVE  \E w \in Radnik : /\ radnik[w].izvod = i /\ ~radnik[w].auto
                                          /\ radnik'[w] = Miran
    OBVIOUS
  <2>2. Mirno(i) \/ Uredjeno(i) \/ Knjizeno(i)
    BY <2>1, KorakSmije DEF SmijeIzvod
  <2>3. NemaIzvoda.status # "POSTED"
    BY DEF NemaIzvoda
  <2>4. ~Mirno(i) /\ ~Uredjeno(i)
    BY <2>1, <2>3 DEF Mirno, Uredjeno
  <2> QED
    BY <2>1, <2>2, <2>4 DEF Knjizeno
<1> QED
  BY <1>1, UvijekInv, PTL DEF Spec, NeVracaRasknjizen

\* In a closed year statements and their journals rest, but for what was to be deleted.
THEOREM UvijekMirujuZakljuceni == Spec => ZakljuceniIzvodiMiruju
<1>1. BankaInv /\ [Next]_vars =>
        [zakljucena => \A i \in Izvod : /\ izvod'[i] \in {izvod[i], NemaIzvoda}
                                        /\ nalog'[i] = nalog[i]]_vars
  <2>1. SUFFICES ASSUME BankaInv, Next, zakljucena, NEW i \in Izvod
                 PROVE  izvod'[i] \in {izvod[i], NemaIzvoda} /\ nalog'[i] = nalog[i]
    OBVIOUS
  <2>2. Mirno(i) \/ Uredjeno(i) \/ Knjizeno(i)
    BY <2>1, KorakSmije DEF SmijeIzvod
  <2> QED
    BY <2>1, <2>2 DEF Mirno, Uredjeno, Knjizeno
<1> QED
  BY <1>1, UvijekInv, PTL DEF Spec, ZakljuceniIzvodiMiruju
=============================================================================
