----------------------------- MODULE PdvProofs -----------------------------
(* Proofs about Pdv, for any months, entries, journals and requests: its types, that a
   month is locked in agreement with the ledger, that its archive covers what it holds,
   that a book has one journal and a return the one it names, and that a closed year
   rests. *)
EXTENDS Pdv, Zbirovi

---------------------------------------------------------------------------
(* Types *)

Stavke == [racun : Racun \cup {Nema}, pdv : Nat]
Racun0 == [mjesec : Mjesec \cup {Nema}, pdv : Nat, nalog : Nalog \cup {Nema}]
Nalozi0 == [status : {"NEMA", "DRAFT", "POSTED"}, vrsta : {"KUF", "PDV_RETURN"},
            mjesec : Mjesec \cup {Nema}, stavke : SUBSET Stavke]
IzvoriM == SUBSET (Racun \X Racun0)
Prijave0 == [status : {"NEMA", "DRAFT", "POSTED", "LOCKED"}, nalog : Nalog \cup {Nema},
             iznos : Nat, otisak : Seq(IzvoriM)]
Operacije == {"", "draft", "final", "refresh", "save", "post", "lock", "reopen"}
Zahtjevi0 == [pc : Koraci, op : Operacije, mjesec : Mjesec \cup {Nema}, racun : Racun \cup {Nema},
              nalog : Nalog \cup {Nema}, iznos : Nat,
              izvori : SUBSET (Stavke \cup Racun \cup (Racun \X Racun0)),
              zastario : BOOLEAN, ceka : Seq(Red)]

\* What the tables and the requests hold.
PdvTipovi ==
  /\ zakljucena \in BOOLEAN
  /\ periodi \in [Mjesec -> {"OPEN", "LOCKED", "REOPENED"}]
  /\ racuni \in [Racun -> Racun0]
  /\ nalozi \in [Nalog -> Nalozi0]
  /\ prijave \in [Mjesec -> Prijave0]
  /\ arhiva \in [Mjesec -> IzvoriM]
  /\ brave \in [Red -> Zahtjev \cup {Niko}]
  /\ zahtjevi \in [Zahtjev -> Zahtjevi0]

---------------------------------------------------------------------------
(* The sums, as functions of the tables they read *)

ZbirU(R, m) == MapThenSumSet(LAMBDA e : R[e].pdv, {e \in Racun : R[e].mjesec = m})
IznosU(N, n) == MapThenSumSet(LAMBDA s : s.pdv, N[n].stavke)
ProknjizenU(N, n) == n # Nema /\ N[n].status = "POSTED"
PrometU(N, m) ==
  MapThenSumSet(LAMBDA n : IznosU(N, n),
                {n \in Nalog : ProknjizenU(N, n) /\ N[n].mjesec = m /\ N[n].vrsta # "PDV_RETURN"})
IzvoriU(R, m) == {<<e, R[e]>> : e \in {x \in Racun : R[x].mjesec = m}}

\* What ZakljucavaUsaglaseno says of a month.
Usaglasen(R, N, P, m) ==
  /\ \A e \in Racun : R[e].mjesec = m => ProknjizenU(N, R[e].nalog)
  /\ PrometU(N, m) = ZbirU(R, m) /\ P[m].iznos = ZbirU(R, m)
  /\ IF P[m].nalog = Nema THEN ZbirU(R, m) = 0
     ELSE ProknjizenU(N, P[m].nalog) /\ IznosU(N, P[m].nalog) = ZbirU(R, m)

---------------------------------------------------------------------------
(* The inductive invariant *)

PostojiU(N, n) == N[n].status # "NEMA"

\* An entry's journal, while it exists, is of the entry's book and month.
VezeRacuna(R, N) ==
  \A e \in Racun :
    R[e].nalog # Nema /\ PostojiU(N, R[e].nalog) =>
      N[R[e].nalog].vrsta = "KUF" /\ N[R[e].nalog].mjesec = R[e].mjesec

\* A journal is of a month, a book has one, and a return's journal is the one
\* that its return names, crediting something.
NaloziMjeseca(N) ==
  /\ \A n \in Nalog : PostojiU(N, n) => N[n].mjesec \in Mjesec
  /\ \A n, k \in Nalog : PostojiU(N, n) /\ PostojiU(N, k) /\ N[n].vrsta = "KUF" /\ N[k].vrsta = "KUF"
                         /\ N[n].mjesec = N[k].mjesec => n = k
VezePrijava(N, P) ==
  /\ \A n \in Nalog : PostojiU(N, n) /\ N[n].vrsta = "PDV_RETURN" =>
       /\ P[N[n].mjesec].nalog = n
       /\ \E s \in N[n].stavke : s.pdv # 0 /\ N[n].stavke = {s}
  /\ \A m \in Mjesec : P[m].nalog # Nema =>
       PostojiU(N, P[m].nalog) /\ N[P[m].nalog].vrsta = "PDV_RETURN" /\ N[P[m].nalog].mjesec = m
Obuhvata(R, A, T) == \A m \in Mjesec : T[m] = "LOCKED" => IzvoriU(R, m) \subseteq A[m]

Drzi(r) == brave[RedGodine] = r

\* What a request that is at step pc knows, and the rows it has yet to lock.
BriseRacun(r) ==
  LET z == zahtjevi[r] IN
  /\ z.racun \in Racun
  /\ \/ z.ceka = <<RedGodine>>
     \/ /\ z.nalog # Nema
        /\ \/ z.ceka = <<RedGodine, RedNaloga(z.nalog)>>
           \/ z.ceka = <<RedNaloga(z.nalog)>> /\ Drzi(r)
  /\ ~z.zastario => /\ ~zakljucena
                    /\ z.nalog # Nema => PostojiU(nalozi, z.nalog) /\ nalozi[z.nalog].vrsta = "KUF"
KnjiziKnjigu(r) ==
  LET z == zahtjevi[r] IN
  /\ Drzi(r) /\ ~zakljucena /\ z.mjesec \in Mjesec /\ periodi[z.mjesec] # "LOCKED"
  /\ z.ceka = <<>> \/ (z.nalog # Nema /\ z.ceka = <<RedNaloga(z.nalog)>>)
  /\ z.izvori \subseteq Stavke
  /\ \A s \in z.izvori : s.racun \in Racun /\ racuni[s.racun].mjesec = z.mjesec
  /\ z.nalog = Nema =>
       ~\E n \in Nalog : PostojiU(nalozi, n) /\ nalozi[n].vrsta = "KUF" /\ nalozi[n].mjesec = z.mjesec
BriseNalog(r) ==
  LET z == zahtjevi[r] IN
  /\ z.nalog \in Nalog
  /\ \/ z.ceka = <<RedGodine, RedNaloga(z.nalog)>>
     \/ z.ceka = <<RedNaloga(z.nalog)>> /\ Drzi(r)
MijenjaPdv(r) ==
  LET z == zahtjevi[r] IN
  /\ Drzi(r) /\ ~zakljucena /\ z.mjesec \in Mjesec
  /\ z.ceka = <<>> \/ (z.nalog # Nema /\ z.ceka = <<RedNaloga(z.nalog)>>)
  /\ z.izvori = IzvoriU(racuni, z.mjesec)
  /\ z.nalog = prijave[z.mjesec].nalog
  /\ z.op \in {"refresh", "post"} => z.nalog = Nema
  /\ z.op = "post" => z.iznos # 0
  /\ z.op = "lock" => /\ periodi[z.mjesec] # "LOCKED"
                      /\ Usaglasen(racuni, nalozi, prijave, z.mjesec)
ZahtjevOK(r) ==
  LET z == zahtjevi[r] IN
  /\ z.pc \in {"miruje", "deleteJournal"} => z.ceka = <<>>
  /\ z.pc \in {"deleteJournal", "reopenJournal"} => z.nalog \in Nalog
  /\ z.pc = "updateEntry" => z.ceka = <<RedGodine>> /\ z.racun \in Racun
  /\ z.pc = "deleteEntry" => BriseRacun(r)
  /\ z.pc = "postBookWrite" => KnjiziKnjigu(r)
  /\ z.pc = "reopenJournal" => z.ceka \in {<<RedNaloga(z.nalog), RedGodine>>, <<RedGodine>>}
  /\ z.pc = "deleteJournalWrite" => BriseNalog(r)
  /\ z.pc = "pdvWrite" => MijenjaPdv(r)

TabeleOK ==
  /\ VezeRacuna(racuni, nalozi)
  /\ NaloziMjeseca(nalozi)
  /\ VezePrijava(nalozi, prijave)
  /\ Obuhvata(racuni, arhiva, periodi)

PdvInv == TabeleOK /\ \A r \in Zahtjev : ZahtjevOK(r)

---------------------------------------------------------------------------
(* The sums *)

\* What the controls read is what the tables hold.
LEMMA ZbiroviTabela ==
  ASSUME NEW m, NEW n
  PROVE  /\ ZbirPdv(m) = ZbirU(racuni, m) /\ Izvori(m) = IzvoriU(racuni, m)
         /\ Promet(m) = PrometU(nalozi, m) /\ Iznos(n) = IznosU(nalozi, n)
<1>1. ZbirPdv(m) = ZbirU(racuni, m)
  BY DEF ZbirPdv, ZbirU, Racuni
<1>2. Izvori(m) = IzvoriU(racuni, m)
  BY DEF Izvori, IzvoriU, Racuni
<1>3. Iznos(n) = IznosU(nalozi, n)
  BY DEF Iznos, IznosU
<1>4. Promet(m) = PrometU(nalozi, m)
  BY DEF Promet, PrometU, PrometNaloga, Proknjizen, ProknjizenU, Iznos, IznosU
<1> QED
  BY <1>1, <1>2, <1>3, <1>4

\* The community module's sum is the one of Zbirovi.
LEMMA ZbirUJeZbir ==
  ASSUME NEW R, NEW m
  PROVE  ZbirU(R, m) = ZbirNad([e \in Racun |-> R[e].pdv], {e \in Racun : R[e].mjesec = m})
<1> DEFINE f == [e \in Racun |-> R[e].pdv]
<1>1. PICK S : S = {e \in Racun : R[e].mjesec = m} /\ S \subseteq Racun
  OBVIOUS
<1>2. IsFiniteSet(S)
  BY <1>1, KonacnoRacuna, FS_Subset
<1> DEFINE P(h) == h = [s \in SUBSET S |-> IF s = {} THEN 0
                          ELSE R[CHOOSE x \in s : TRUE].pdv + h[s \ {CHOOSE x \in s : TRUE}]]
<1>3. \A h : P(h) <=> JeZbir(h, f, S)
  <2>1. TAKE h
  <2>2. \A s \in SUBSET S : s # {} => f[Izabran(s)] = R[CHOOSE x \in s : TRUE].pdv
    BY <1>1 DEF Izabran
  <2> HIDE DEF f
  <2> QED
    BY <2>2 DEF JeZbir, Izabran
<1>4. \E h : P(h)
  <2> HIDE DEF P, f
  <2> QED
    BY <1>2, <1>3, PostojiZbir
<1>5. P(CHOOSE h : P(h))
  BY <1>4
<1>6. ZbirU(R, m) = (CHOOSE h : P(h))[S]
  BY <1>1 DEF ZbirU, MapThenSumSet, MapThenFoldSet
<1> HIDE DEF P, f
<1>7. ZbirU(R, m) = ZbirNad(f, S)
  BY <1>2, <1>3, <1>5, <1>6, ZbirJe
<1> QED
  BY <1>1, <1>7 DEF f

\* The entries' VAT is a natural number.
LEMMA ZbirPrirodan ==
  ASSUME racuni \in [Racun -> Racun0], NEW m
  PROVE  ZbirPdv(m) \in Nat
<1>1. PICK S : S = {e \in Racun : racuni[e].mjesec = m} /\ S \subseteq Racun
  OBVIOUS
<1>2. IsFiniteSet(S)
  BY <1>1, KonacnoRacuna, FS_Subset
<1>3. PICK f : f = [e \in Racun |-> racuni[e].pdv]
  OBVIOUS
<1>4. \A e \in S : f[e] \in Nat
  BY <1>1, <1>3 DEF Racun0
<1>5. ZbirNad(f, S) \in Nat
  BY <1>2, <1>4, ZbirCio
<1>6. ZbirU(racuni, m) = ZbirNad(f, S)
  BY <1>1, <1>3, ZbirUJeZbir, Zenon
<1> QED
  BY <1>5, <1>6, ZbiroviTabela

\* A journal of one line amounts to that line.
LEMMA IznosJedneStavke ==
  ASSUME NEW N, NEW n, NEW s, N[n].stavke = {s}, s.pdv \in Int
  PROVE  IznosU(N, n) = s.pdv
<1> DEFINE f == [x \in {s} |-> x.pdv]
           P(h) == h = [t \in SUBSET {s} |-> IF t = {} THEN 0
                          ELSE (CHOOSE x \in t : TRUE).pdv + h[t \ {CHOOSE x \in t : TRUE}]]
<1>1. IsFiniteSet({s})
  BY FS_Singleton
<1>2. \A h : P(h) <=> JeZbir(h, f, {s})
  <2>1. TAKE h
  <2>2. \A t \in SUBSET {s} : t # {} => f[Izabran(t)] = (CHOOSE x \in t : TRUE).pdv
    BY DEF Izabran
  <2> HIDE DEF f
  <2> QED
    BY <2>2 DEF JeZbir, Izabran
<1>3. \E h : P(h)
  <2> HIDE DEF P, f
  <2> QED
    BY <1>1, <1>2, PostojiZbir
<1>4. P(CHOOSE h : P(h))
  BY <1>3
<1>5. IznosU(N, n) = (CHOOSE h : P(h))[{s}]
  BY DEF IznosU, MapThenSumSet, MapThenFoldSet
<1>6. f[s] = s.pdv
  OBVIOUS
<1> HIDE DEF P, f
<1>7. IznosU(N, n) = ZbirNad(f, {s})
  BY <1>1, <1>2, <1>4, <1>5, ZbirJe
<1> QED
  BY <1>6, <1>7, ZbirJednog

---------------------------------------------------------------------------
(* Types, action by action *)

\* The rows that requests lock are told apart.
LEMMA RedoviRazliciti ==
  /\ RedGodine \in Red
  /\ \A n \in Nalog : RedNaloga(n) \in Red /\ RedNaloga(n) # RedGodine
BY DEF Red, RedGodine, RedNaloga

\* What a request waits for is a sequence of rows.
LEMMA CekanjeTip ==
  /\ <<>> \in Seq(Red) /\ <<RedGodine>> \in Seq(Red)
  /\ \A n \in Nalog : /\ <<RedNaloga(n)>> \in Seq(Red)
                      /\ <<RedGodine, RedNaloga(n)>> \in Seq(Red)
                      /\ <<RedNaloga(n), RedGodine>> \in Seq(Red)
BY RedoviRazliciti

LEMMA MirovanjeTip == Mirovanje \in Zahtjevi0
BY CekanjeTip DEF Mirovanje, Zahtjevi0, Koraci, Operacije

\* What the tables hold of a month is what a request or a hash may hold of it.
LEMMA IzvoriTip ==
  ASSUME racuni \in [Racun -> Racun0], NEW m
  PROVE  IzvoriU(racuni, m) \in IzvoriM /\ Izvori(m) \in IzvoriM
<1>1. IzvoriU(racuni, m) \in IzvoriM
  BY DEF IzvoriU, IzvoriM
<1> QED
  BY <1>1, ZbiroviTabela

\* A request ends.
LEMMA ZavrsiTipovi ==
  ASSUME PdvTipovi, NEW r \in Zahtjev, Zavrsi(r)
  PROVE  brave' \in [Red -> Zahtjev \cup {Niko}] /\ zahtjevi' \in [Zahtjev -> Zahtjevi0]
<1>1. brave' \in [Red -> Zahtjev \cup {Niko}]
  BY DEF PdvTipovi, Zavrsi
<1>2. \A q \in Zahtjev : Pregazen(q) \in BOOLEAN
  BY DEF Pregazen
<1>3. ASSUME NEW q \in Zahtjev
      PROVE  [zahtjevi[q] EXCEPT !.zastario = @ \/ Pregazen(q)] \in Zahtjevi0
  <2>1. PICK z : z = zahtjevi[q]
    OBVIOUS
  <2>2. z \in Zahtjevi0
    BY <2>1 DEF PdvTipovi
  <2>3. PICK b \in BOOLEAN : b = (z.zastario \/ Pregazen(q))
    BY <1>2, <2>2 DEF Zahtjevi0
  <2>4. [zahtjevi[q] EXCEPT !.zastario = @ \/ Pregazen(q)] = [z EXCEPT !.zastario = b]
    BY <2>1, <2>3
  <2> QED
    BY <2>2, <2>4 DEF Zahtjevi0
<1>4. zahtjevi' \in [Zahtjev -> Zahtjevi0]
  BY <1>3, MirovanjeTip DEF Zavrsi
<1> QED
  BY <1>1, <1>4

\* A request goes on, or takes the year's row.
LEMMA DaljeTipovi ==
  ASSUME PdvTipovi, NEW r \in Zahtjev, NEW z \in Zahtjevi0, Nastavi(r, z) \/ Pocni(r, z)
  PROVE  PdvTipovi' /\ UNCHANGED tabele
<1>1. UNCHANGED tabele
  BY DEF Nastavi, Pocni
<1>2. brave' \in [Red -> Zahtjev \cup {Niko}] /\ zahtjevi' \in [Zahtjev -> Zahtjevi0]
  BY RedoviRazliciti DEF Nastavi, Pocni, PdvTipovi
<1> QED
  BY <1>1, <1>2 DEF PdvTipovi, tabele

\* Requests that begin.
LEMMA TipoviPocetka ==
  ASSUME PdvTipovi, NEW r \in Zahtjev,
         \/ \E e \in Racun, x \in Ispravke : UpdateKufEntry(r, e, x)
         \/ \E e \in Racun : DeleteKufEntry(r, e)
         \/ \E m \in Mjesec, k \in {"draft", "final"} : PostBook(r, m, k)
         \/ \E n \in Nalog : ReopenJournal(r, n) \/ DeleteJournal(r, n)
         \/ \E m \in Mjesec, op \in {"refresh", "post", "lock", "reopen"} : MutatePdv(r, m, op, 0)
         \/ \E m \in Mjesec, x \in Ispravke : MutatePdv(r, m, "save", x)
  PROVE  PdvTipovi' /\ UNCHANGED tabele
<1>1. CASE \E e \in Racun, x \in Ispravke : UpdateKufEntry(r, e, x)
  <2>1. PICK e \in Racun, x \in Ispravke : UpdateKufEntry(r, e, x)
    BY <1>1
  <2>2. [Mirovanje EXCEPT !.pc = "updateEntry", !.racun = e, !.iznos = x, !.ceka = <<RedGodine>>]
          \in Zahtjevi0
    BY MirovanjeTip, CekanjeTip, PdvPretpostavke DEF Zahtjevi0, Koraci, Operacije
  <2> QED
    BY <2>1, <2>2, DaljeTipovi DEF UpdateKufEntry
<1>2. CASE \E e \in Racun : DeleteKufEntry(r, e)
  <2>1. PICK e \in Racun : DeleteKufEntry(r, e)
    BY <1>2
  <2>2. PICK n : n = racuni[e].nalog
    OBVIOUS
  <2>3. n \in Nalog \cup {Nema}
    BY <2>2 DEF PdvTipovi, Racun0
  <2>4. PICK c : c = IF n = Nema THEN <<RedGodine>> ELSE <<RedGodine, RedNaloga(n)>>
    OBVIOUS
  <2>5. c \in Seq(Red)
    BY <2>3, <2>4, CekanjeTip
  <2>6. [Mirovanje EXCEPT !.pc = "deleteEntry", !.racun = e, !.nalog = n, !.ceka = c] \in Zahtjevi0
    BY <2>3, <2>5, MirovanjeTip DEF Zahtjevi0, Koraci, Operacije
  <2>7. Nastavi(r, [Mirovanje EXCEPT !.pc = "deleteEntry", !.racun = e, !.nalog = n, !.ceka = c])
    BY <2>1, <2>2, <2>4 DEF DeleteKufEntry
  <2> QED
    BY <2>6, <2>7, DaljeTipovi
<1>3. CASE \E m \in Mjesec, k \in {"draft", "final"} : PostBook(r, m, k)
  <2>1. PICK m \in Mjesec, k \in {"draft", "final"} : PostBook(r, m, k)
    BY <1>3
  <2>2. PICK S \in SUBSET Neproknjizeni(m) \ {{}},
             n \in (IF PostojeciNalozi(m) = {} THEN {Nema} ELSE PostojeciNalozi(m)) :
          Pocni(r, [Mirovanje EXCEPT !.pc = "postBookWrite", !.mjesec = m, !.op = k,
                      !.nalog = n, !.izvori = {Stavka(e, racuni[e].pdv) : e \in S},
                      !.ceka = IF n = Nema THEN <<>> ELSE <<RedNaloga(n)>>])
    BY <2>1 DEF PostBook
  <2>3. n \in Nalog \cup {Nema}
    BY <2>2 DEF PostojeciNalozi, Racuni, PdvTipovi, Racun0
  <2>4. PICK c : c = IF n = Nema THEN <<>> ELSE <<RedNaloga(n)>>
    OBVIOUS
  <2>5. c \in Seq(Red)
    BY <2>3, <2>4, CekanjeTip
  <2>6. PICK I : I = {Stavka(e, racuni[e].pdv) : e \in S}
    OBVIOUS
  <2>7. I \subseteq Stavke
    BY <2>2, <2>6 DEF Stavka, Stavke, Neproknjizeni, Racuni, PdvTipovi, Racun0
  <2>8. [Mirovanje EXCEPT !.pc = "postBookWrite", !.mjesec = m, !.op = k, !.nalog = n,
                          !.izvori = I, !.ceka = c] \in Zahtjevi0
    BY <2>3, <2>5, <2>7, MirovanjeTip DEF Zahtjevi0, Koraci, Operacije
  <2> QED
    BY <2>2, <2>4, <2>6, <2>8, DaljeTipovi
<1>4. CASE \E n \in Nalog : ReopenJournal(r, n) \/ DeleteJournal(r, n)
  <2>1. PICK n \in Nalog : ReopenJournal(r, n) \/ DeleteJournal(r, n)
    BY <1>4
  <2>2. /\ [Mirovanje EXCEPT !.pc = "reopenJournal", !.nalog = n,
                   !.ceka = <<RedNaloga(n), RedGodine>>] \in Zahtjevi0
        /\ [Mirovanje EXCEPT !.pc = "deleteJournal", !.nalog = n] \in Zahtjevi0
    BY MirovanjeTip, CekanjeTip DEF Zahtjevi0, Koraci, Operacije
  <2> QED
    BY <2>1, <2>2, DaljeTipovi DEF ReopenJournal, DeleteJournal
<1>5. ASSUME NEW m \in Mjesec, NEW op \in {"refresh", "post", "lock", "reopen", "save"},
             NEW x \in Nat, MutatePdv(r, m, op, x)
      PROVE  PdvTipovi' /\ UNCHANGED tabele
  <2>1. PICK n : n = AktivanNalog(m)
    OBVIOUS
  <2>2. n \in Nalog \cup {Nema}
    BY <2>1 DEF AktivanNalog, PdvTipovi, Prijave0
  <2>3. PICK c : c = IF op = "reopen" /\ n # Nema THEN <<RedNaloga(n)>> ELSE <<>>
    OBVIOUS
  <2>4. c \in Seq(Red)
    BY <2>2, <2>3, CekanjeTip
  <2>5. PICK i : i = IF op = "save" THEN x ELSE ZbirPdv(m)
    OBVIOUS
  <2>6. i \in Nat
    BY <2>5, ZbirPrirodan DEF PdvTipovi
  <2>7. PICK I : I = Izvori(m)
    OBVIOUS
  <2>8. I \subseteq Racun \X Racun0
    BY <2>7, IzvoriTip DEF PdvTipovi, IzvoriM
  <2>9. [Mirovanje EXCEPT !.pc = "pdvWrite", !.mjesec = m, !.op = op, !.nalog = n,
                          !.izvori = I, !.iznos = i, !.ceka = c] \in Zahtjevi0
    BY <2>2, <2>4, <2>6, <2>8, MirovanjeTip DEF Zahtjevi0, Koraci, Operacije
  <2>10. Pocni(r, [Mirovanje EXCEPT !.pc = "pdvWrite", !.mjesec = m, !.op = op, !.nalog = n,
                          !.izvori = I, !.iznos = i, !.ceka = c])
    BY <1>5, <2>1, <2>3, <2>5, <2>7 DEF MutatePdv
  <2> QED
    BY <2>9, <2>10, DaljeTipovi
<1> QED
  BY <1>1, <1>2, <1>3, <1>4, <1>5, PdvPretpostavke

\* A request gives up, or takes one of its rows.
LEMMA OdustaniTipovi ==
  ASSUME PdvTipovi, NEW r \in Zahtjev, Odustani(r)
  PROVE  PdvTipovi'
<1>1. brave' \in [Red -> Zahtjev \cup {Niko}] /\ zahtjevi' \in [Zahtjev -> Zahtjevi0]
  BY ZavrsiTipovi DEF Odustani
<1>2. UNCHANGED tabele
  BY DEF Odustani
<1> QED
  BY <1>1, <1>2 DEF PdvTipovi, tabele

LEMMA ZakljucajTipovi ==
  ASSUME PdvTipovi, NEW r \in Zahtjev, Zakljucaj(r)
  PROVE  PdvTipovi' /\ UNCHANGED tabele
<1>1. PICK z : z = zahtjevi[r]
  OBVIOUS
<1>2. z \in Zahtjevi0 /\ Len(z.ceka) > 1
  BY <1>1 DEF PdvTipovi, Zakljucaj
<1>3. PICK c : c = z.ceka
  OBVIOUS
<1>4. c \in Seq(Red) /\ Len(c) > 1
  BY <1>2, <1>3 DEF Zahtjevi0
<1>5. Head(c) \in Red /\ Tail(c) \in Seq(Red)
  BY <1>4
<1>6. zahtjevi' = [zahtjevi EXCEPT ![r] = [z EXCEPT !.ceka = Tail(c)]]
  BY <1>1, <1>3 DEF Zakljucaj, PdvTipovi
<1>7. [z EXCEPT !.ceka = Tail(c)] \in Zahtjevi0
  BY <1>2, <1>5 DEF Zahtjevi0
<1>8. zahtjevi' \in [Zahtjev -> Zahtjevi0]
  BY <1>6, <1>7 DEF PdvTipovi
<1>9. brave' = [brave EXCEPT ![Head(c)] = r] /\ UNCHANGED tabele
  BY <1>1, <1>3 DEF Zakljucaj
<1>10. brave' \in [Red -> Zahtjev \cup {Niko}]
  BY <1>5, <1>9 DEF PdvTipovi
<1> QED
  BY <1>8, <1>9, <1>10 DEF PdvTipovi, tabele

\* The entries: createKufEntry, updateKufEntry, deleteKufEntry.
LEMMA TipoviRacuna ==
  ASSUME PdvTipovi, NEW r \in Zahtjev, ZahtjevOK(r),
         \/ \E m \in Mjesec, x \in Iznosi : CreateKufEntry(r, m, x)
         \/ UpdateKufEntryWrite(r) \/ DeleteKufEntryWrite(r)
  PROVE  PdvTipovi'
<1>1. CASE \E m \in Mjesec, x \in Iznosi : CreateKufEntry(r, m, x)
  <2>1. PICK m \in Mjesec, x \in Iznosi : CreateKufEntry(r, m, x)
    BY <1>1
  <2>2. PICK e \in SvjeziRacuni :
          racuni' = [racuni EXCEPT ![e] = [mjesec |-> m, pdv |-> x, nalog |-> Nema]]
    BY <2>1 DEF CreateKufEntry
  <2>3. [mjesec |-> m, pdv |-> x, nalog |-> Nema] \in Racun0
    BY PdvPretpostavke DEF Racun0
  <2>4. racuni' \in [Racun -> Racun0]
    BY <2>2, <2>3 DEF PdvTipovi, SvjeziRacuni
  <2> QED
    BY <2>1, <2>4 DEF PdvTipovi, CreateKufEntry
<1>2. CASE UpdateKufEntryWrite(r) /\ ~Odustani(r)
  <2>1. PICK z : z = zahtjevi[r]
    OBVIOUS
  <2>2. z.racun \in Racun /\ z.iznos \in Nat
    BY <1>2, <2>1 DEF ZahtjevOK, UpdateKufEntryWrite, Spreman, PdvTipovi, Zahtjevi0
  <2>3. racuni' = [racuni EXCEPT ![z.racun].pdv = z.iznos] /\ Zavrsi(r)
        /\ UNCHANGED <<zakljucena, periodi, nalozi, prijave, arhiva>>
    BY <1>2, <2>1 DEF UpdateKufEntryWrite
  <2>4. racuni' \in [Racun -> Racun0]
    BY <2>2, <2>3 DEF PdvTipovi, Racun0
  <2> QED
    BY <2>3, <2>4, ZavrsiTipovi DEF PdvTipovi
<1>3. CASE DeleteKufEntryWrite(r) /\ ~Odustani(r)
  <2>1. PICK z : z = zahtjevi[r]
    OBVIOUS
  <2>2. z.racun \in Racun /\ z.nalog \in Nalog \cup {Nema}
    BY <1>3, <2>1 DEF ZahtjevOK, DeleteKufEntryWrite, Spreman, BriseRacun, PdvTipovi, Zahtjevi0
  <2>3. /\ racuni' = [racuni EXCEPT ![z.racun] = PrazanRacun]
        /\ nalozi' = IF z.nalog = Nema THEN nalozi
                     ELSE [nalozi EXCEPT ![z.nalog] = BezStavki(z.nalog, z.racun)]
        /\ Zavrsi(r) /\ UNCHANGED <<zakljucena, periodi, prijave, arhiva>>
    BY <1>3, <2>1 DEF DeleteKufEntryWrite
  <2>4. racuni' \in [Racun -> Racun0]
    BY <2>2, <2>3 DEF PdvTipovi, Racun0, PrazanRacun
  <2>5. ASSUME NEW n \in Nalog PROVE BezStavki(n, z.racun) \in Nalozi0
    BY DEF BezStavki, PdvTipovi, Nalozi0, PrazanNalog
  <2>6. nalozi' \in [Nalog -> Nalozi0]
    BY <2>2, <2>3, <2>5 DEF PdvTipovi
  <2> QED
    BY <2>3, <2>4, <2>6, ZavrsiTipovi DEF PdvTipovi
<1> QED
  BY <1>1, <1>2, <1>3, OdustaniTipovi

\* The journals: postInvoiceBook, and the actions of all journals.
LEMMA TipoviNaloga ==
  ASSUME PdvTipovi, NEW r \in Zahtjev, ZahtjevOK(r),
         \/ PostBookWrite(r) \/ \E n \in Nalog : PostJournal(r, n)
         \/ ReopenJournalWrite(r) \/ DeleteJournalEntries(r) \/ DeleteJournalWrite(r)
  PROVE  PdvTipovi'
<1>1. CASE PostBookWrite(r) /\ ~Odustani(r)
  <2>1. PICK z : z = zahtjevi[r]
    OBVIOUS
  <2>2. z.mjesec \in Mjesec /\ z.izvori \subseteq Stavke
    BY <1>1, <2>1 DEF ZahtjevOK, PostBookWrite, Spreman, KnjiziKnjigu
  <2>3. PICK n : /\ n \in IF z.nalog = Nema THEN SvjeziNalozi
                          ELSE {k \in {z.nalog} : SmijeUNalog(k, z.mjesec, z.op)}
                 /\ nalozi' = [nalozi EXCEPT ![n] = SaStavkama(n, z)]
                 /\ racuni' = [e \in Racun |->
                                 IF \E s \in z.izvori : s.racun = e
                                 THEN [racuni[e] EXCEPT !.nalog = n] ELSE racuni[e]]
                 /\ UNCHANGED <<zakljucena, periodi, prijave, arhiva>>
                 /\ Zavrsi(r)
    BY <1>1, <2>1 DEF PostBookWrite
  <2>4. n \in Nalog
    BY <2>1, <2>3 DEF SvjeziNalozi, PdvTipovi, Zahtjevi0
  <2>5. SaStavkama(n, z) \in Nalozi0
    BY <2>2, <2>4 DEF SaStavkama, Nalozi0, PdvTipovi
  <2>6. nalozi' \in [Nalog -> Nalozi0]
    BY <2>3, <2>4, <2>5 DEF PdvTipovi
  <2>7. racuni' \in [Racun -> Racun0]
    BY <2>3, <2>4 DEF PdvTipovi, Racun0
  <2> QED
    BY <2>3, <2>6, <2>7, ZavrsiTipovi DEF PdvTipovi
<1>2. ASSUME NEW n \in Nalog, PostJournal(r, n) PROVE PdvTipovi'
  <2>1. nalozi' \in [Nalog -> Nalozi0]
    BY <1>2 DEF PostJournal, PdvTipovi, Nalozi0
  <2> QED
    BY <1>2, <2>1, ZavrsiTipovi DEF PdvTipovi, PostJournal
<1>3. CASE ReopenJournalWrite(r) /\ ~Odustani(r)
  <2>1. PICK n : n = zahtjevi[r].nalog
    OBVIOUS
  <2>2. n \in Nalog
    BY <1>3, <2>1 DEF ZahtjevOK, ReopenJournalWrite, Spreman
  <2>3. /\ nalozi' = [nalozi EXCEPT ![n].status = "DRAFT"] /\ Zavrsi(r)
        /\ UNCHANGED <<zakljucena, periodi, racuni, prijave, arhiva>>
    BY <1>3, <2>1 DEF ReopenJournalWrite
  <2>4. nalozi' \in [Nalog -> Nalozi0]
    BY <2>2, <2>3 DEF PdvTipovi, Nalozi0
  <2> QED
    BY <2>3, <2>4, ZavrsiTipovi DEF PdvTipovi
<1>4. CASE DeleteJournalEntries(r)
  <2>1. PICK z : z = zahtjevi[r]
    OBVIOUS
  <2>2. z.nalog \in Nalog /\ z \in Zahtjevi0
    BY <1>4, <2>1 DEF ZahtjevOK, DeleteJournalEntries, Spreman, PdvTipovi
  <2>3. PICK I : I = RacuniNaloga(z.nalog)
    OBVIOUS
  <2>4. [z EXCEPT !.pc = "deleteJournalWrite", !.izvori = I,
                  !.ceka = <<RedGodine, RedNaloga(z.nalog)>>] \in Zahtjevi0
    BY <2>2, <2>3, CekanjeTip DEF Zahtjevi0, Koraci, RacuniNaloga
  <2> QED
    BY <1>4, <2>1, <2>3, <2>4, DaljeTipovi DEF DeleteJournalEntries
<1>5. CASE DeleteJournalWrite(r) /\ ~Odustani(r)
  <2>1. PICK z : z = zahtjevi[r]
    OBVIOUS
  <2>2. PICK n : n = z.nalog
    OBVIOUS
  <2>3. n \in Nalog
    BY <1>5, <2>1, <2>2 DEF ZahtjevOK, DeleteJournalWrite, Spreman, BriseNalog
  <2>4. /\ racuni' = [e \in Racun |->
                        IF e \in z.izvori \cap RacuniNaloga(n)
                        THEN [racuni[e] EXCEPT !.nalog = Nema] ELSE racuni[e]]
        /\ prijave' = [m \in Mjesec |->
                         IF prijave[m].nalog = n
                         THEN [prijave[m] EXCEPT !.status = "DRAFT", !.nalog = Nema]
                         ELSE prijave[m]]
        /\ nalozi' = [nalozi EXCEPT ![n] = PrazanNalog]
        /\ UNCHANGED <<zakljucena, periodi, arhiva>> /\ Zavrsi(r)
    BY <1>5, <2>1, <2>2 DEF DeleteJournalWrite
  <2>5. racuni' \in [Racun -> Racun0]
    BY <2>4 DEF PdvTipovi, Racun0
  <2>6. prijave' \in [Mjesec -> Prijave0]
    BY <2>4 DEF PdvTipovi, Prijave0
  <2>7. nalozi' \in [Nalog -> Nalozi0]
    BY <2>3, <2>4 DEF PdvTipovi, Nalozi0, PrazanNalog
  <2> QED
    BY <2>4, <2>5, <2>6, <2>7, ZavrsiTipovi DEF PdvTipovi
<1> QED
  BY <1>1, <1>2, <1>3, <1>4, <1>5, OdustaniTipovi

\* The returns and periods: mutatePdv.
LEMMA TipoviPdv ==
  ASSUME PdvTipovi, NEW r \in Zahtjev, ZahtjevOK(r),
         PdvRefresh(r) \/ PdvSave(r) \/ PdvPost(r) \/ PdvLock(r) \/ PdvReopen(r)
  PROVE  PdvTipovi'
<1>1. PICK z : z = zahtjevi[r]
  OBVIOUS
<1>2. PICK m : m = z.mjesec
  OBVIOUS
<1>3. /\ z \in Zahtjevi0 /\ m \in Mjesec /\ z.izvori \in IzvoriM
      /\ z.iznos \in Nat /\ z.nalog \in Nalog \cup {Nema}
  <2>1. MijenjaPdv(r) /\ z \in Zahtjevi0
    BY <1>1 DEF ZahtjevOK, PdvRefresh, PdvSave, PdvPost, PdvLock, PdvReopen, Spreman, PdvTipovi
  <2>2. m \in Mjesec /\ z.izvori = IzvoriU(racuni, m)
    BY <1>1, <1>2, <2>1 DEF MijenjaPdv
  <2> QED
    BY <2>1, <2>2, IzvoriTip DEF PdvTipovi, Zahtjevi0
<1>4. <<z.izvori>> \in Seq(IzvoriM) /\ <<>> \in Seq(IzvoriM)
  BY <1>3
<1>5. CASE PdvRefresh(r)
  <2>1. prijave' = [prijave EXCEPT ![m] = [status |-> "DRAFT", nalog |-> Nema,
                                           iznos |-> z.iznos, otisak |-> <<z.izvori>>]]
        /\ UNCHANGED <<zakljucena, periodi, racuni, nalozi, arhiva>> /\ Zavrsi(r)
    BY <1>1, <1>2, <1>5 DEF PdvRefresh
  <2>2. prijave' \in [Mjesec -> Prijave0]
    BY <1>3, <1>4, <2>1 DEF PdvTipovi, Prijave0
  <2> QED
    BY <2>1, <2>2, ZavrsiTipovi DEF PdvTipovi
<1>6. CASE PdvSave(r)
  <2>1. prijave' = [prijave EXCEPT ![m].iznos = z.iznos]
        /\ UNCHANGED <<zakljucena, periodi, racuni, nalozi, arhiva>> /\ Zavrsi(r)
    BY <1>1, <1>2, <1>6 DEF PdvSave
  <2>2. prijave' \in [Mjesec -> Prijave0]
    BY <1>3, <2>1 DEF PdvTipovi, Prijave0
  <2> QED
    BY <2>1, <2>2, ZavrsiTipovi DEF PdvTipovi
<1>7. CASE PdvPost(r) /\ ~Odustani(r)
  <2>1. PICK n \in SvjeziNalozi :
          /\ nalozi' = [nalozi EXCEPT ![n] =
                          [status |-> "POSTED", vrsta |-> "PDV_RETURN", mjesec |-> m,
                           stavke |-> {Stavka(Nema, z.iznos)}]]
          /\ prijave' = [prijave EXCEPT ![m].status = "POSTED", ![m].nalog = n]
          /\ UNCHANGED <<zakljucena, periodi, racuni, arhiva>>
          /\ Zavrsi(r)
    BY <1>1, <1>2, <1>7 DEF PdvPost
  <2>2. n \in Nalog
    BY DEF SvjeziNalozi
  <2>3. nalozi' \in [Nalog -> Nalozi0]
    <3>1. PICK S : S = {Stavka(Nema, z.iznos)}
      OBVIOUS
    <3>2. S \in SUBSET Stavke
      BY <1>3, <3>1 DEF Stavka, Stavke
    <3>3. [status |-> "POSTED", vrsta |-> "PDV_RETURN", mjesec |-> m, stavke |-> S] \in Nalozi0
      BY <1>3, <3>2 DEF Nalozi0
    <3> QED
      BY <2>1, <3>1, <3>3 DEF PdvTipovi
  <2>4. prijave' \in [Mjesec -> Prijave0]
    BY <1>3, <2>1, <2>2 DEF PdvTipovi, Prijave0
  <2> QED
    BY <2>1, <2>3, <2>4, ZavrsiTipovi DEF PdvTipovi
<1>8. CASE PdvLock(r)
  <2>1. /\ arhiva' = [arhiva EXCEPT ![m] = z.izvori]
        /\ prijave' = [prijave EXCEPT ![m].status = "LOCKED"]
        /\ periodi' = [periodi EXCEPT ![m] = "LOCKED"]
        /\ UNCHANGED <<zakljucena, racuni, nalozi>> /\ Zavrsi(r)
    BY <1>1, <1>2, <1>8 DEF PdvLock
  <2>2. /\ arhiva' \in [Mjesec -> IzvoriM] /\ prijave' \in [Mjesec -> Prijave0]
        /\ periodi' \in [Mjesec -> {"OPEN", "LOCKED", "REOPENED"}]
    BY <1>3, <2>1 DEF PdvTipovi, Prijave0
  <2> QED
    BY <2>1, <2>2, ZavrsiTipovi DEF PdvTipovi
<1>9. CASE PdvReopen(r)
  <2>1. /\ arhiva' = [arhiva EXCEPT ![m] = {}]
        /\ periodi' = [periodi EXCEPT ![m] = "REOPENED"]
        /\ nalozi' = IF z.nalog = Nema THEN nalozi ELSE [nalozi EXCEPT ![z.nalog] = PrazanNalog]
        /\ prijave' = [prijave EXCEPT ![m] =
                         [@ EXCEPT !.status = "DRAFT", !.nalog = Nema, !.otisak = <<>>]]
        /\ UNCHANGED <<zakljucena, racuni>> /\ Zavrsi(r)
    BY <1>1, <1>2, <1>9 DEF PdvReopen
  <2>2. /\ arhiva' \in [Mjesec -> IzvoriM]
        /\ periodi' \in [Mjesec -> {"OPEN", "LOCKED", "REOPENED"}]
    BY <2>1 DEF PdvTipovi, IzvoriM
  <2>3. prijave' \in [Mjesec -> Prijave0]
    BY <1>3, <1>4, <2>1 DEF PdvTipovi, Prijave0
  <2>4. nalozi' \in [Nalog -> Nalozi0]
    BY <1>3, <2>1 DEF PdvTipovi, Nalozi0, PrazanNalog
  <2> QED
    BY <2>1, <2>2, <2>3, <2>4, ZavrsiTipovi DEF PdvTipovi
<1> QED
  BY <1>5, <1>6, <1>7, <1>8, <1>9, OdustaniTipovi

\* The year opens or closes.
LEMMA TipoviGodine == ASSUME PdvTipovi, ToggleYear PROVE PdvTipovi'
<1>1. ASSUME NEW q \in Zahtjev
      PROVE  [zahtjevi[q] EXCEPT !.zastario = @ \/ zahtjevi[q].pc = "deleteEntry"] \in Zahtjevi0
  <2>1. PICK z : z = zahtjevi[q]
    OBVIOUS
  <2>2. z \in Zahtjevi0
    BY <2>1 DEF PdvTipovi
  <2>3. PICK b \in BOOLEAN : b = (z.zastario \/ z.pc = "deleteEntry")
    BY <2>2 DEF Zahtjevi0
  <2>4. [zahtjevi[q] EXCEPT !.zastario = @ \/ zahtjevi[q].pc = "deleteEntry"]
          = [z EXCEPT !.zastario = b]
    BY <2>1, <2>3
  <2> QED
    BY <2>2, <2>4 DEF Zahtjevi0
<1>2. zahtjevi' \in [Zahtjev -> Zahtjevi0]
  BY <1>1 DEF ToggleYear
<1> QED
  BY <1>2 DEF PdvTipovi, ToggleYear

\* No step breaks the types of a state that keeps the invariant.
LEMMA TipoviKorak ==
  ASSUME PdvTipovi, \A r \in Zahtjev : ZahtjevOK(r), [Next]_vars
  PROVE  PdvTipovi'
<1>1. ASSUME NEW r \in Zahtjev, NoviZahtjev(r) PROVE PdvTipovi'
  BY <1>1, TipoviPocetka, TipoviRacuna, TipoviNaloga DEF NoviZahtjev
<1>2. ASSUME NEW r \in Zahtjev, Nastavak(r) PROVE PdvTipovi'
  BY <1>2, TipoviRacuna, TipoviNaloga, TipoviPdv, ZakljucajTipovi, OdustaniTipovi
     DEF Nastavak, Prekini
<1>3. CASE UNCHANGED vars
  BY <1>3 DEF vars, PdvTipovi
<1> QED
  BY <1>1, <1>2, <1>3, TipoviGodine DEF Next

---------------------------------------------------------------------------
(* What a step of one request leaves to the others *)

\* A request keeps what it knows; only its snapshot may have grown old.
IstiZahtjev(q) ==
  LET z == zahtjevi[q]
      y == zahtjevi'[q]
  IN /\ y.pc = z.pc /\ y.op = z.op /\ y.mjesec = z.mjesec /\ y.racun = z.racun
     /\ y.nalog = z.nalog /\ y.iznos = z.iznos /\ y.izvori = z.izvori /\ y.ceka = z.ceka
     /\ ~y.zastario => ~z.zastario

\* While the tables stay, so does what a request relies on.
LEMMA OkvirTabela ==
  ASSUME NEW q \in Zahtjev, ZahtjevOK(q), IstiZahtjev(q), UNCHANGED tabele, Drzi(q) => Drzi(q)'
  PROVE  ZahtjevOK(q)'
<1>1. PICK z : z = zahtjevi[q]
  OBVIOUS
<1>2. PICK y : y = zahtjevi'[q]
  OBVIOUS
<1>3. /\ y.pc = z.pc /\ y.op = z.op /\ y.mjesec = z.mjesec /\ y.racun = z.racun
      /\ y.nalog = z.nalog /\ y.iznos = z.iznos /\ y.izvori = z.izvori /\ y.ceka = z.ceka
      /\ ~y.zastario => ~z.zastario
  BY <1>1, <1>2 DEF IstiZahtjev
<1>4. /\ zakljucena' = zakljucena /\ periodi' = periodi /\ racuni' = racuni
      /\ nalozi' = nalozi /\ prijave' = prijave
  BY DEF tabele
<1>5. BriseRacun(q) => BriseRacun(q)'
  BY <1>1, <1>2, <1>3, <1>4 DEF BriseRacun
<1>6. KnjiziKnjigu(q) => KnjiziKnjigu(q)'
  BY <1>1, <1>2, <1>3, <1>4 DEF KnjiziKnjigu
<1>7. BriseNalog(q) => BriseNalog(q)'
  BY <1>1, <1>2, <1>3 DEF BriseNalog
<1>8. MijenjaPdv(q) => MijenjaPdv(q)'
  BY <1>1, <1>2, <1>3, <1>4 DEF MijenjaPdv
<1> QED
  BY <1>1, <1>2, <1>3, <1>5, <1>6, <1>7, <1>8 DEF ZahtjevOK

\* A request that does not hold the year's row relies on little: a deletion on its
\* snapshot, which a write in the year makes old.
LEMMA OkvirUpisa ==
  ASSUME NEW q \in Zahtjev, ZahtjevOK(q), IstiZahtjev(q), ~Drzi(q),
         zahtjevi[q].pc = "deleteEntry" /\ ~zahtjevi'[q].zastario =>
           /\ zakljucena' = zakljucena
           /\ zahtjevi[q].nalog # Nema => nalozi'[zahtjevi[q].nalog] = nalozi[zahtjevi[q].nalog]
  PROVE  ZahtjevOK(q)'
<1>1. PICK z : z = zahtjevi[q]
  OBVIOUS
<1>2. PICK y : y = zahtjevi'[q]
  OBVIOUS
<1>3. /\ y.pc = z.pc /\ y.op = z.op /\ y.mjesec = z.mjesec /\ y.racun = z.racun
      /\ y.nalog = z.nalog /\ y.iznos = z.iznos /\ y.izvori = z.izvori /\ y.ceka = z.ceka
      /\ ~y.zastario => ~z.zastario
  BY <1>1, <1>2 DEF IstiZahtjev
<1>4. z.pc = "deleteEntry" /\ BriseRacun(q) => BriseRacun(q)'
  <2>1. HAVE z.pc = "deleteEntry" /\ BriseRacun(q)
  <2>2. y.racun \in Racun
    BY <1>1, <1>3, <2>1 DEF BriseRacun
  <2>3. \/ y.ceka = <<RedGodine>>
        \/ y.nalog # Nema /\ y.ceka = <<RedGodine, RedNaloga(y.nalog)>>
    BY <1>1, <1>3, <2>1 DEF BriseRacun
  <2>4. ASSUME ~y.zastario
        PROVE  /\ ~zakljucena'
               /\ y.nalog # Nema => PostojiU(nalozi', y.nalog) /\ nalozi'[y.nalog].vrsta = "KUF"
    <3>1. ~zakljucena /\ zakljucena' = zakljucena
      BY <1>1, <1>2, <1>3, <2>1, <2>4 DEF BriseRacun
    <3>2. ASSUME y.nalog # Nema
          PROVE  PostojiU(nalozi', y.nalog) /\ nalozi'[y.nalog].vrsta = "KUF"
      <4>1. PostojiU(nalozi, z.nalog) /\ nalozi[z.nalog].vrsta = "KUF"
        BY <1>1, <1>3, <2>1, <2>4, <3>2 DEF BriseRacun
      <4>2. nalozi'[z.nalog] = nalozi[z.nalog]
        BY <1>1, <1>2, <1>3, <2>1, <2>4, <3>2
      <4> QED
        BY <1>3, <4>1, <4>2 DEF PostojiU
    <3> QED
      BY <3>1, <3>2
  <2> QED
    BY <1>2, <2>2, <2>3, <2>4 DEF BriseRacun
<1>5. ~KnjiziKnjigu(q) /\ ~MijenjaPdv(q)
  BY DEF KnjiziKnjigu, MijenjaPdv
<1>6. BriseNalog(q) => BriseNalog(q)'
  BY <1>1, <1>2, <1>3 DEF BriseNalog
<1> QED
  BY <1>1, <1>2, <1>3, <1>4, <1>5, <1>6 DEF ZahtjevOK

\* The request that ends is at rest; the others keep what they know, and a deletion
\* whose rows changed has a snapshot that grew old.
LEMMA ZavrsiOstali ==
  ASSUME PdvTipovi, NEW r \in Zahtjev, Zavrsi(r)
  PROVE  /\ ZahtjevOK(r)'
         /\ \A q \in Zahtjev \ {r} :
              /\ IstiZahtjev(q) /\ (Drzi(q) => Drzi(q)')
              /\ zahtjevi[q].pc = "deleteEntry" /\ ~zahtjevi'[q].zastario =>
                   (zahtjevi[q].nalog # Nema =>
                      nalozi'[zahtjevi[q].nalog] = nalozi[zahtjevi[q].nalog])
<1>1. ZahtjevOK(r)'
  <2>1. zahtjevi'[r].pc = "miruje" /\ zahtjevi'[r].ceka = <<>>
    BY DEF Zavrsi, Mirovanje
  <2> QED
    BY <2>1 DEF ZahtjevOK
<1>2. ASSUME NEW q \in Zahtjev \ {r}
      PROVE  /\ IstiZahtjev(q) /\ (Drzi(q) => Drzi(q)')
             /\ zahtjevi[q].pc = "deleteEntry" /\ ~zahtjevi'[q].zastario =>
                  (zahtjevi[q].nalog # Nema =>
                     nalozi'[zahtjevi[q].nalog] = nalozi[zahtjevi[q].nalog])
  <2>1. PICK z : z = zahtjevi[q] /\ z \in Zahtjevi0
    BY DEF PdvTipovi
  <2>2. PICK b : b = (z.zastario \/ Pregazen(q))
    OBVIOUS
  <2>3. zahtjevi'[q] = [z EXCEPT !.zastario = b]
    BY <2>1, <2>2 DEF Zavrsi
  <2>4. PICK y : y = zahtjevi'[q]
    OBVIOUS
  <2>5. y = [z EXCEPT !.zastario = b] /\ y.zastario = b
    BY <2>1, <2>3, <2>4 DEF Zahtjevi0
  <2>6. /\ y.pc = z.pc /\ y.op = z.op /\ y.mjesec = z.mjesec /\ y.racun = z.racun
        /\ y.nalog = z.nalog /\ y.iznos = z.iznos /\ y.izvori = z.izvori /\ y.ceka = z.ceka
    BY <2>1, <2>5 DEF Zahtjevi0
  <2>7. ~y.zastario => ~z.zastario /\ ~Pregazen(q)
    BY <2>2, <2>5
  <2>8. IstiZahtjev(q)
    BY <2>1, <2>4, <2>6, <2>7 DEF IstiZahtjev
  <2>9. Drzi(q) => Drzi(q)'
    BY RedoviRazliciti DEF Drzi, Zavrsi
  <2>10. z.pc = "deleteEntry" /\ ~Pregazen(q) => (z.nalog # Nema => nalozi'[z.nalog] = nalozi[z.nalog])
    BY <2>1 DEF Pregazen
  <2> QED
    BY <2>1, <2>4, <2>7, <2>8, <2>9, <2>10
<1> QED
  BY <1>1, <1>2

\* A request that writes in the year leaves the others well.
LEMMA UpisOstalima ==
  ASSUME PdvTipovi, \A q \in Zahtjev : ZahtjevOK(q), NEW r \in Zahtjev, Zavrsi(r),
         Slobodno(r, RedGodine), zakljucena' = zakljucena
  PROVE  \A q \in Zahtjev : ZahtjevOK(q)'
<1>1. ASSUME NEW q \in Zahtjev, q # r PROVE ZahtjevOK(q)'
  <2>1. ~Drzi(q)
    BY <1>1, PdvPretpostavke DEF Slobodno, Drzi
  <2> QED
    BY <1>1, <2>1, ZavrsiOstali, OkvirUpisa
<1> QED
  BY <1>1, ZavrsiOstali

\* A request that gives up leaves them well whoever holds the year's row.
LEMMA OdustaniOstalima ==
  ASSUME PdvTipovi, \A q \in Zahtjev : ZahtjevOK(q), NEW r \in Zahtjev, Odustani(r)
  PROVE  \A q \in Zahtjev : ZahtjevOK(q)'
<1>1. Zavrsi(r) /\ UNCHANGED tabele
  BY DEF Odustani
<1>2. ASSUME NEW q \in Zahtjev, q # r PROVE ZahtjevOK(q)'
  BY <1>1, <1>2, ZavrsiOstali, OkvirTabela
<1> QED
  BY <1>1, <1>2, ZavrsiOstali

\* A request that goes on, takes a row or begins leaves them well.
LEMMA DaljeOstalima ==
  ASSUME PdvTipovi, \A q \in Zahtjev : ZahtjevOK(q), NEW r \in Zahtjev, NEW z,
         zahtjevi' = [zahtjevi EXCEPT ![r] = z], UNCHANGED tabele,
         brave'[RedGodine] \in {brave[RedGodine], r}, Slobodno(r, RedGodine) \/ brave'[RedGodine] = brave[RedGodine]
  PROVE  \A q \in Zahtjev \ {r} : ZahtjevOK(q)'
<1>1. ASSUME NEW q \in Zahtjev, q # r PROVE ZahtjevOK(q)'
  <2>1. zahtjevi'[q] = zahtjevi[q]
    BY <1>1 DEF PdvTipovi
  <2>2. IstiZahtjev(q)
    BY <2>1 DEF IstiZahtjev
  <2>3. Drzi(q) => Drzi(q)'
    BY <1>1, PdvPretpostavke DEF Drzi, Slobodno
  <2> QED
    BY <2>2, <2>3, OkvirTabela
<1> QED
  BY <1>1

---------------------------------------------------------------------------
(* What a request relies on, step by step *)

\* A request that is ready to write may have the year's row.
LEMMA PisacImaGodinu ==
  ASSUME PdvTipovi, NEW r \in Zahtjev, ZahtjevOK(r),
         NEW pc \in {"updateEntry", "deleteEntry", "postBookWrite", "reopenJournal",
                     "deleteJournalWrite", "pdvWrite"},
         Spreman(r, pc)
  PROVE  Slobodno(r, RedGodine)
<1>1. PICK c : c = zahtjevi[r].ceka
  OBVIOUS
<1>2. zahtjevi[r].pc = pc /\ (c = <<>> \/ (Len(c) = 1 /\ Slobodno(r, Head(c))))
  BY <1>1 DEF Spreman
<1>3. Drzi(r) => Slobodno(r, RedGodine)
  BY DEF Drzi, Slobodno
<1>4. c = <<RedGodine>> => Slobodno(r, RedGodine)
  <2>1. HAVE c = <<RedGodine>>
  <2>2. c # <<>> /\ Head(c) = RedGodine
    BY <2>1
  <2> QED
    BY <1>2, <2>2
<1>5. ASSUME NEW n, c = <<RedGodine, RedNaloga(n)>> \/ c = <<RedNaloga(n), RedGodine>>
      PROVE  FALSE
  <2>1. Len(c) = 2 /\ c # <<>>
    BY <1>5
  <2> QED
    BY <1>2, <2>1
<1>6. CASE pc = "updateEntry"
  BY <1>1, <1>2, <1>4, <1>6 DEF ZahtjevOK
<1>7. CASE pc = "deleteEntry"
  BY <1>1, <1>2, <1>3, <1>4, <1>5, <1>7 DEF ZahtjevOK, BriseRacun
<1>8. CASE pc = "postBookWrite"
  BY <1>1, <1>2, <1>3, <1>8 DEF ZahtjevOK, KnjiziKnjigu
<1>9. CASE pc = "reopenJournal"
  BY <1>1, <1>2, <1>4, <1>5, <1>9 DEF ZahtjevOK
<1>10. CASE pc = "deleteJournalWrite"
  BY <1>1, <1>2, <1>3, <1>5, <1>10 DEF ZahtjevOK, BriseNalog
<1>11. CASE pc = "pdvWrite"
  BY <1>1, <1>2, <1>3, <1>11 DEF ZahtjevOK, MijenjaPdv
<1> QED
  BY <1>6, <1>7, <1>8, <1>9, <1>10, <1>11

\* A request at rest, or before its first row, goes on without taking one.
LEMMA NastaviBezReda ==
  ASSUME PdvTipovi, \A q \in Zahtjev : ZahtjevOK(q), NEW r \in Zahtjev, NEW z,
         Nastavi(r, z), zahtjevi[r].pc \in {"miruje", "deleteJournal"}
  PROVE  /\ zahtjevi'[r] = z /\ brave' = brave /\ UNCHANGED tabele
         /\ \A q \in Zahtjev \ {r} : ZahtjevOK(q)'
<1>1. zahtjevi[r].ceka = <<>>
  BY DEF ZahtjevOK
<1>2. \A x \in Red : zahtjevi[r].ceka # <<x>>
  BY <1>1
<1>3. brave' = brave
  BY <1>2 DEF Nastavi, PdvTipovi
<1>4. /\ zahtjevi' = [zahtjevi EXCEPT ![r] = z] /\ UNCHANGED tabele
      /\ zahtjevi'[r] = z
  BY DEF Nastavi, PdvTipovi
<1> QED
  BY <1>3, <1>4, DaljeOstalima

\* A request begins with the year's row.
LEMMA PocniSaGodinom ==
  ASSUME PdvTipovi, \A q \in Zahtjev : ZahtjevOK(q), NEW r \in Zahtjev, NEW z,
         Prvi(r), Pocni(r, z)
  PROVE  /\ zahtjevi'[r] = z /\ brave'[RedGodine] = r /\ UNCHANGED tabele
         /\ \A q \in Zahtjev \ {r} : ZahtjevOK(q)'
<1>1. brave'[RedGodine] = r /\ Slobodno(r, RedGodine)
  BY RedoviRazliciti DEF Pocni, PdvTipovi, Prvi, Slobodno
<1>2. /\ zahtjevi' = [zahtjevi EXCEPT ![r] = z] /\ UNCHANGED tabele
      /\ zahtjevi'[r] = z
  BY DEF Pocni, PdvTipovi
<1> QED
  BY <1>1, <1>2, DaljeOstalima

\* Requests on entries and journals begin.
LEMMA PoceciDrze ==
  ASSUME PdvTipovi, \A q \in Zahtjev : ZahtjevOK(q), NEW r \in Zahtjev,
         \/ \E e \in Racun, x \in Ispravke : UpdateKufEntry(r, e, x)
         \/ \E e \in Racun : DeleteKufEntry(r, e)
         \/ \E n \in Nalog : ReopenJournal(r, n) \/ DeleteJournal(r, n)
         \/ DeleteJournalEntries(r)
  PROVE  (\A q \in Zahtjev : ZahtjevOK(q)') /\ UNCHANGED tabele
<1>1. CASE \E e \in Racun, x \in Ispravke : UpdateKufEntry(r, e, x)
  <2>1. PICK e \in Racun, x \in Ispravke : UpdateKufEntry(r, e, x)
    BY <1>1
  <2>2. PICK z : z = [Mirovanje EXCEPT !.pc = "updateEntry", !.racun = e, !.iznos = x,
                                       !.ceka = <<RedGodine>>]
    OBVIOUS
  <2>3. z.pc = "updateEntry" /\ z.racun = e /\ z.ceka = <<RedGodine>>
    BY <2>2 DEF Mirovanje
  <2>4. Nastavi(r, z) /\ zahtjevi[r].pc = "miruje"
    BY <2>1, <2>2 DEF UpdateKufEntry, Miruje
  <2>5. /\ zahtjevi'[r] = z /\ UNCHANGED tabele
        /\ \A q \in Zahtjev \ {r} : ZahtjevOK(q)'
    BY <2>4, NastaviBezReda
  <2>6. ZahtjevOK(r)'
    BY <2>3, <2>5 DEF ZahtjevOK
  <2> QED
    BY <2>5, <2>6
<1>2. CASE \E e \in Racun : DeleteKufEntry(r, e)
  <2>1. PICK e \in Racun : DeleteKufEntry(r, e)
    BY <1>2
  <2>2. PICK n : n = racuni[e].nalog
    OBVIOUS
  <2>3. PICK c : c = IF n = Nema THEN <<RedGodine>> ELSE <<RedGodine, RedNaloga(n)>>
    OBVIOUS
  <2>4. PICK z : z = [Mirovanje EXCEPT !.pc = "deleteEntry", !.racun = e, !.nalog = n, !.ceka = c]
    OBVIOUS
  <2>5. z.pc = "deleteEntry" /\ z.racun = e /\ z.nalog = n /\ z.ceka = c
    BY <2>4 DEF Mirovanje
  <2>6. /\ Nastavi(r, z) /\ zahtjevi[r].pc = "miruje" /\ ~zakljucena
        /\ n # Nema => Postoji(n) /\ nalozi[n].vrsta = "KUF"
    BY <2>1, <2>2, <2>3, <2>4 DEF DeleteKufEntry, Miruje, PdvOtvoren
  <2>7. /\ zahtjevi'[r] = z /\ UNCHANGED tabele
        /\ \A q \in Zahtjev \ {r} : ZahtjevOK(q)'
    BY <2>6, NastaviBezReda
  <2>8. zakljucena' = zakljucena /\ nalozi' = nalozi
    BY <2>7 DEF tabele
  <2>9. ~zakljucena' /\ (n # Nema => PostojiU(nalozi', n) /\ nalozi'[n].vrsta = "KUF")
    BY <2>6, <2>8 DEF Postoji, PostojiU
  <2>10. BriseRacun(r)'
    BY <2>3, <2>5, <2>7, <2>9 DEF BriseRacun
  <2>11. ZahtjevOK(r)'
    BY <2>5, <2>7, <2>10 DEF ZahtjevOK
  <2> QED
    BY <2>7, <2>11
<1>3. CASE \E n \in Nalog : ReopenJournal(r, n)
  <2>1. PICK n \in Nalog : ReopenJournal(r, n)
    BY <1>3
  <2>2. PICK z : z = [Mirovanje EXCEPT !.pc = "reopenJournal", !.nalog = n,
                                       !.ceka = <<RedNaloga(n), RedGodine>>]
    OBVIOUS
  <2>3. z.pc = "reopenJournal" /\ z.nalog = n /\ z.ceka = <<RedNaloga(n), RedGodine>>
    BY <2>2 DEF Mirovanje
  <2>4. Nastavi(r, z) /\ zahtjevi[r].pc = "miruje"
    BY <2>1, <2>2 DEF ReopenJournal, Miruje
  <2>5. /\ zahtjevi'[r] = z /\ UNCHANGED tabele
        /\ \A q \in Zahtjev \ {r} : ZahtjevOK(q)'
    BY <2>4, NastaviBezReda
  <2>6. ZahtjevOK(r)'
    BY <2>3, <2>5 DEF ZahtjevOK
  <2> QED
    BY <2>5, <2>6
<1>4. CASE \E n \in Nalog : DeleteJournal(r, n)
  <2>1. PICK n \in Nalog : DeleteJournal(r, n)
    BY <1>4
  <2>2. PICK z : z = [Mirovanje EXCEPT !.pc = "deleteJournal", !.nalog = n]
    OBVIOUS
  <2>3. z.pc = "deleteJournal" /\ z.nalog = n /\ z.ceka = <<>>
    BY <2>2 DEF Mirovanje
  <2>4. Nastavi(r, z) /\ zahtjevi[r].pc = "miruje"
    BY <2>1, <2>2 DEF DeleteJournal, Miruje
  <2>5. /\ zahtjevi'[r] = z /\ UNCHANGED tabele
        /\ \A q \in Zahtjev \ {r} : ZahtjevOK(q)'
    BY <2>4, NastaviBezReda
  <2>6. ZahtjevOK(r)'
    BY <2>3, <2>5 DEF ZahtjevOK
  <2> QED
    BY <2>5, <2>6
<1>5. CASE DeleteJournalEntries(r)
  <2>1. PICK y : y = zahtjevi[r] /\ y \in Zahtjevi0
    BY DEF PdvTipovi
  <2>2. PICK I : I = RacuniNaloga(y.nalog)
    OBVIOUS
  <2>3. PICK z : z = [y EXCEPT !.pc = "deleteJournalWrite", !.izvori = I,
                               !.ceka = <<RedGodine, RedNaloga(y.nalog)>>]
    OBVIOUS
  <2>4. /\ z.pc = "deleteJournalWrite" /\ z.nalog = y.nalog
        /\ z.ceka = <<RedGodine, RedNaloga(y.nalog)>>
    BY <2>1, <2>3 DEF Zahtjevi0
  <2>5. Nastavi(r, z) /\ y.pc = "deleteJournal" /\ y.nalog \in Nalog
    BY <1>5, <2>1, <2>2, <2>3 DEF DeleteJournalEntries, Spreman, ZahtjevOK
  <2>6. /\ zahtjevi'[r] = z /\ UNCHANGED tabele
        /\ \A q \in Zahtjev \ {r} : ZahtjevOK(q)'
    BY <2>1, <2>5, NastaviBezReda
  <2>7. BriseNalog(r)'
    BY <2>4, <2>5, <2>6 DEF BriseNalog
  <2>8. ZahtjevOK(r)'
    BY <2>4, <2>6, <2>7 DEF ZahtjevOK
  <2> QED
    BY <2>6, <2>8
<1> QED
  BY <1>1, <1>2, <1>3, <1>4, <1>5

\* A posting of a book begins: its entries are of the book, and without a journal to
\* post them into there is none.
LEMMA PostBookDrzi ==
  ASSUME PdvTipovi, \A q \in Zahtjev : ZahtjevOK(q), NEW r \in Zahtjev,
         NEW m \in Mjesec, NEW k \in {"draft", "final"}, PostBook(r, m, k)
  PROVE  (\A q \in Zahtjev : ZahtjevOK(q)') /\ UNCHANGED tabele
<1>1. PICK S \in SUBSET Neproknjizeni(m) \ {{}},
           n \in (IF PostojeciNalozi(m) = {} THEN {Nema} ELSE PostojeciNalozi(m)) :
        Pocni(r, [Mirovanje EXCEPT !.pc = "postBookWrite", !.mjesec = m, !.op = k,
                    !.nalog = n, !.izvori = {Stavka(e, racuni[e].pdv) : e \in S},
                    !.ceka = IF n = Nema THEN <<>> ELSE <<RedNaloga(n)>>])
  BY DEF PostBook
<1>2. PICK I : I = {Stavka(e, racuni[e].pdv) : e \in S}
  OBVIOUS
<1>3. PICK c : c = IF n = Nema THEN <<>> ELSE <<RedNaloga(n)>>
  OBVIOUS
<1>4. PICK z : z = [Mirovanje EXCEPT !.pc = "postBookWrite", !.mjesec = m, !.op = k,
                                     !.nalog = n, !.izvori = I, !.ceka = c]
  OBVIOUS
<1>5. z.pc = "postBookWrite" /\ z.mjesec = m /\ z.nalog = n /\ z.izvori = I /\ z.ceka = c
  BY <1>4 DEF Mirovanje
<1>6. Prvi(r) /\ Pocni(r, z) /\ ~zakljucena /\ periodi[m] # "LOCKED"
  BY <1>1, <1>2, <1>3, <1>4 DEF PostBook, PdvOtvoren
<1>7. /\ zahtjevi'[r] = z /\ brave'[RedGodine] = r /\ UNCHANGED tabele
      /\ \A q \in Zahtjev \ {r} : ZahtjevOK(q)'
  BY <1>6, PocniSaGodinom
<1>8. /\ zakljucena' = zakljucena /\ periodi' = periodi /\ racuni' = racuni
      /\ nalozi' = nalozi
  BY <1>7 DEF tabele
<1>9. I \subseteq Stavke /\ \A s \in I : s.racun \in Racun /\ racuni[s.racun].mjesec = m
  BY <1>1, <1>2 DEF Stavka, Stavke, Neproknjizeni, Racuni, PdvTipovi, Racun0
<1>10. n = Nema => ~\E x \in Nalog : /\ PostojiU(nalozi, x) /\ nalozi[x].vrsta = "KUF"
                                     /\ nalozi[x].mjesec = m
  <2>1. HAVE n = Nema
  <2>2. PostojeciNalozi(m) = {}
    <3>1. SUFFICES ASSUME n \in PostojeciNalozi(m) PROVE FALSE
      BY <1>1
    <3>2. CASE Racuni(m) \ Neproknjizeni(m) # {}
      BY <2>1, <3>1, <3>2 DEF PostojeciNalozi, Neproknjizeni
    <3>3. CASE Racuni(m) \ Neproknjizeni(m) = {}
      BY <2>1, <3>1, <3>3, PdvPretpostavke DEF PostojeciNalozi
    <3> QED
      BY <3>2, <3>3
  <2>3. {x \in Nalog : Postoji(x) /\ nalozi[x].vrsta = "KUF" /\ nalozi[x].mjesec = m} = {}
    BY <2>2 DEF PostojeciNalozi
  <2> QED
    BY <2>3, PdvPretpostavke DEF Postoji, PostojiU
<1>11. KnjiziKnjigu(r)'
  BY <1>3, <1>5, <1>6, <1>7, <1>8, <1>9, <1>10 DEF KnjiziKnjigu, Drzi
<1>12. ZahtjevOK(r)'
  BY <1>5, <1>7, <1>11 DEF ZahtjevOK
<1> QED
  BY <1>7, <1>12

\* The return's journal, if it has one, exists.
LEMMA AktivanJe ==
  ASSUME PdvTipovi, VezePrijava(nalozi, prijave), NEW m \in Mjesec
  PROVE  AktivanNalog(m) = prijave[m].nalog
<1>1. prijave[m].nalog # Nema => Postoji(prijave[m].nalog)
  BY DEF VezePrijava, Postoji, PostojiU
<1> QED
  BY <1>1 DEF AktivanNalog

\* Locking's controls: the month agrees with the ledger.  A return whose journal
\* amounts to nothing has none, so the journal of an agreeing return is posted.
LEMMA KontroleUsaglase ==
  ASSUME PdvTipovi, VezePrijava(nalozi, prijave), NEW m \in Mjesec, Smije("lock", m)
  PROVE  periodi[m] # "LOCKED" /\ Usaglasen(racuni, nalozi, prijave, m)
<1>1. PICK n : n = prijave[m].nalog
  OBVIOUS
<1>2. AktivanNalog(m) = n
  BY <1>1, AktivanJe
<1>3. /\ periodi[m] # "LOCKED" /\ Kontrole(m)
      /\ ZbirPdv(m) # 0 => Proknjizen(n)
      /\ n # Nema => Iznos(n) = ZbirPdv(m)
  BY <1>2 DEF Smije
<1>4. PICK b : b = ZbirU(racuni, m)
  OBVIOUS
<1>5. ZbirPdv(m) = b
  BY <1>4, ZbiroviTabela
<1>6. /\ \A e \in Racun : racuni[e].mjesec = m => ProknjizenU(nalozi, racuni[e].nalog)
      /\ prijave[m].iznos = b /\ PrometU(nalozi, m) = b
  <2>1. \A e \in Racuni(m) : Proknjizen(racuni[e].nalog)
    BY <1>3 DEF Kontrole
  <2>2. prijave[m].iznos = b /\ Promet(m) = b
    BY <1>3, <1>5 DEF Kontrole
  <2>3. Promet(m) = PrometU(nalozi, m)
    BY ZbiroviTabela
  <2> QED
    BY <2>1, <2>2, <2>3 DEF Racuni, Proknjizen, ProknjizenU
<1>7. CASE n = Nema
  <2>1. b = 0
    BY <1>3, <1>5, <1>7 DEF Proknjizen
  <2> QED
    BY <1>1, <1>3, <1>4, <1>6, <1>7, <2>1 DEF Usaglasen
<1>8. CASE n # Nema
  <2>1. IznosU(nalozi, n) = b
    BY <1>3, <1>5, <1>8, ZbiroviTabela
  <2>2. n \in Nalog /\ PostojiU(nalozi, n) /\ nalozi[n].vrsta = "PDV_RETURN"
    BY <1>1, <1>8 DEF VezePrijava, PdvTipovi, Prijave0
  <2>3. PICK s \in nalozi[n].stavke : s.pdv # 0 /\ nalozi[n].stavke = {s}
    BY <2>2 DEF VezePrijava
  <2>4. s.pdv \in Int
    BY <2>2, <2>3 DEF PdvTipovi, Nalozi0, Stavke
  <2>5. b # 0
    BY <2>1, <2>3, <2>4, IznosJedneStavke
  <2>6. ProknjizenU(nalozi, n)
    BY <1>3, <1>5, <2>5 DEF Proknjizen, ProknjizenU
  <2> QED
    BY <1>1, <1>3, <1>4, <1>6, <1>8, <2>1, <2>6 DEF Usaglasen
<1> QED
  BY <1>7, <1>8

\* mutatePdv begins: what it read and checked holds while it holds the year's row.
LEMMA MutatePdvDrzi ==
  ASSUME PdvTipovi, VezePrijava(nalozi, prijave), \A q \in Zahtjev : ZahtjevOK(q),
         NEW r \in Zahtjev, NEW m \in Mjesec,
         NEW op \in {"refresh", "post", "lock", "reopen", "save"}, NEW x, MutatePdv(r, m, op, x)
  PROVE  (\A q \in Zahtjev : ZahtjevOK(q)') /\ UNCHANGED tabele
<1>1. PICK n : n = prijave[m].nalog
  OBVIOUS
<1>2. AktivanNalog(m) = n
  BY <1>1, AktivanJe
<1>3. PICK c : c = IF op = "reopen" /\ n # Nema THEN <<RedNaloga(n)>> ELSE <<>>
  OBVIOUS
<1>4. PICK i : i = IF op = "save" THEN x ELSE ZbirPdv(m)
  OBVIOUS
<1>5. PICK I : I = IzvoriU(racuni, m)
  OBVIOUS
<1>6. PICK z : z = [Mirovanje EXCEPT !.pc = "pdvWrite", !.mjesec = m, !.op = op, !.nalog = n,
                                     !.izvori = I, !.iznos = i, !.ceka = c]
  OBVIOUS
<1>7. /\ z.pc = "pdvWrite" /\ z.mjesec = m /\ z.op = op /\ z.nalog = n
      /\ z.izvori = I /\ z.iznos = i /\ z.ceka = c
  BY <1>6 DEF Mirovanje
<1>8. Prvi(r) /\ ~zakljucena /\ Smije(op, m)
  BY DEF MutatePdv
<1>9. Pocni(r, z)
  <2>1. Izvori(m) = I
    BY <1>5, ZbiroviTabela
  <2> QED
    BY <1>2, <1>3, <1>4, <1>6, <2>1 DEF MutatePdv
<1>10. /\ zahtjevi'[r] = z /\ brave'[RedGodine] = r /\ UNCHANGED tabele
       /\ \A q \in Zahtjev \ {r} : ZahtjevOK(q)'
  BY <1>8, <1>9, PocniSaGodinom
<1>11. /\ zakljucena' = zakljucena /\ periodi' = periodi /\ racuni' = racuni
       /\ nalozi' = nalozi /\ prijave' = prijave
  BY <1>10 DEF tabele
<1>12. op \in {"refresh", "post"} => n = Nema
  BY <1>2, <1>8 DEF Smije
<1>13. op = "post" => i # 0
  BY <1>4, <1>8 DEF Smije
<1>14. op = "lock" => periodi[m] # "LOCKED" /\ Usaglasen(racuni, nalozi, prijave, m)
  BY <1>8, KontroleUsaglase
<1>15. MijenjaPdv(r)'
  BY <1>1, <1>3, <1>5, <1>7, <1>8, <1>10, <1>11, <1>12, <1>13, <1>14 DEF MijenjaPdv, Drzi
<1>16. ZahtjevOK(r)'
  BY <1>7, <1>10, <1>15 DEF ZahtjevOK
<1> QED
  BY <1>10, <1>16

\* A request that takes one of its rows, not the last, is left with the last.
LEMMA ZakljucajDrzi ==
  ASSUME PdvTipovi, \A q \in Zahtjev : ZahtjevOK(q), NEW r \in Zahtjev, Zakljucaj(r)
  PROVE  (\A q \in Zahtjev : ZahtjevOK(q)') /\ UNCHANGED tabele
<1>1. PICK y : y = zahtjevi[r] /\ y \in Zahtjevi0
  BY DEF PdvTipovi
<1>2. PICK c : c = y.ceka
  OBVIOUS
<1>3. c \in Seq(Red) /\ Len(c) > 1 /\ Slobodno(r, Head(c)) /\ Head(c) \in Red
  BY <1>1, <1>2 DEF Zakljucaj, Zahtjevi0
<1>4. PICK z : z = [y EXCEPT !.ceka = Tail(c)]
  OBVIOUS
<1>5. /\ z.pc = y.pc /\ z.op = y.op /\ z.mjesec = y.mjesec /\ z.racun = y.racun
      /\ z.nalog = y.nalog /\ z.iznos = y.iznos /\ z.izvori = y.izvori
      /\ z.zastario = y.zastario /\ z.ceka = Tail(c)
  BY <1>1, <1>4 DEF Zahtjevi0
<1>6. zahtjevi' = [zahtjevi EXCEPT ![r] = z] /\ UNCHANGED tabele
      /\ brave' = [brave EXCEPT ![Head(c)] = r]
  BY <1>1, <1>2, <1>4 DEF Zakljucaj, PdvTipovi
<1>7. zahtjevi'[r] = z /\ brave'[Head(c)] = r
  BY <1>3, <1>6 DEF PdvTipovi
<1>8. /\ brave'[RedGodine] \in {brave[RedGodine], r}
      /\ Slobodno(r, RedGodine) \/ brave'[RedGodine] = brave[RedGodine]
  <2>1. CASE Head(c) = RedGodine
    BY <1>3, <1>7, <2>1
  <2>2. CASE Head(c) # RedGodine
    BY <1>6, <2>2, RedoviRazliciti DEF PdvTipovi
  <2> QED
    BY <2>1, <2>2
<1>9. \A q \in Zahtjev \ {r} : ZahtjevOK(q)'
  BY <1>6, <1>8, DaljeOstalima
<1>10. \A x : c # <<>> /\ c # <<x>>
  <2>1. SUFFICES ASSUME NEW x, c = <<>> \/ c = <<x>> PROVE FALSE
    OBVIOUS
  <2>2. Len(c) = 0 \/ Len(c) = 1
    BY <2>1
  <2>3. PICK l : l = Len(c)
    OBVIOUS
  <2>4. l > 1 /\ (l = 0 \/ l = 1)
    BY <1>3, <2>2, <2>3
  <2> QED
    BY <2>4
<1>11. \A a, b : c = <<a, b>> => Head(c) = a /\ Tail(c) = <<b>>
  OBVIOUS
<1>12. ZahtjevOK(r)
  OBVIOUS
<1>13. y.pc \in {"deleteEntry", "reopenJournal", "deleteJournalWrite"}
  BY <1>1, <1>2, <1>10, <1>12 DEF ZahtjevOK, KnjiziKnjigu, MijenjaPdv, PdvTipovi, Zahtjevi0, Koraci
<1>14. zakljucena' = zakljucena /\ nalozi' = nalozi
  BY <1>6 DEF tabele
<1>15. CASE y.pc = "deleteEntry"
  <2>1. BriseRacun(r)
    BY <1>1, <1>12, <1>15 DEF ZahtjevOK
  <2>2. y.nalog # Nema /\ c = <<RedGodine, RedNaloga(y.nalog)>>
    BY <1>1, <1>2, <1>10, <2>1 DEF BriseRacun
  <2>3. Head(c) = RedGodine /\ Tail(c) = <<RedNaloga(y.nalog)>>
    BY <1>11, <2>2
  <2>4. BriseRacun(r)'
    BY <1>1, <1>5, <1>7, <1>14, <2>1, <2>2, <2>3 DEF BriseRacun, Drzi
  <2>5. ZahtjevOK(r)'
    BY <1>5, <1>7, <1>15, <2>4 DEF ZahtjevOK
  <2> QED
    BY <1>6, <1>9, <2>5
<1>16. CASE y.pc = "reopenJournal"
  <2>1. y.nalog \in Nalog /\ c = <<RedNaloga(y.nalog), RedGodine>>
    BY <1>1, <1>2, <1>10, <1>12, <1>16 DEF ZahtjevOK
  <2>2. Tail(c) = <<RedGodine>>
    BY <1>11, <2>1
  <2>3. ZahtjevOK(r)'
    BY <1>5, <1>7, <1>16, <2>1, <2>2 DEF ZahtjevOK
  <2> QED
    BY <1>6, <1>9, <2>3
<1>17. CASE y.pc = "deleteJournalWrite"
  <2>1. BriseNalog(r)
    BY <1>1, <1>12, <1>17 DEF ZahtjevOK
  <2>2. y.nalog \in Nalog /\ c = <<RedGodine, RedNaloga(y.nalog)>>
    BY <1>1, <1>2, <1>10, <2>1 DEF BriseNalog
  <2>3. Head(c) = RedGodine /\ Tail(c) = <<RedNaloga(y.nalog)>>
    BY <1>11, <2>2
  <2>4. BriseNalog(r)'
    BY <1>5, <1>7, <2>2, <2>3 DEF BriseNalog, Drzi
  <2>5. ZahtjevOK(r)'
    BY <1>5, <1>7, <1>17, <2>4 DEF ZahtjevOK
  <2> QED
    BY <1>6, <1>9, <2>5
<1> QED
  BY <1>13, <1>15, <1>16, <1>17

---------------------------------------------------------------------------
(* What the tables promise one another, write by write *)

\* Entries and journals that lose links, lines or themselves, and keep the rest.
LEMMA VezeOstaju ==
  ASSUME NEW R, NEW S, NEW N, NEW M, VezeRacuna(R, N),
         \A e \in Racun : S[e].nalog # Nema => S[e].nalog = R[e].nalog /\ S[e].mjesec = R[e].mjesec,
         \A e \in Racun : S[e].nalog # Nema /\ PostojiU(M, S[e].nalog) =>
           /\ PostojiU(N, S[e].nalog)
           /\ M[S[e].nalog].vrsta = N[S[e].nalog].vrsta
           /\ M[S[e].nalog].mjesec = N[S[e].nalog].mjesec
  PROVE  VezeRacuna(S, M)
BY DEF VezeRacuna

LEMMA NaloziOstaju ==
  ASSUME NEW N, NEW M, NaloziMjeseca(N),
         \A n \in Nalog : PostojiU(M, n) =>
           PostojiU(N, n) /\ M[n].vrsta = N[n].vrsta /\ M[n].mjesec = N[n].mjesec
  PROVE  NaloziMjeseca(M)
BY DEF NaloziMjeseca

\* Journals of returns that stay as they are stay with their returns.
LEMMA PrijaveOstaju ==
  ASSUME NEW N, NEW M, NEW P, NEW Q, VezePrijava(N, P),
         \A m \in Mjesec : P[m].nalog \in Nalog \cup {Nema} /\ Q[m].nalog = P[m].nalog,
         \A n \in Nalog : PostojiU(M, n) /\ M[n].vrsta = "PDV_RETURN" =>
           PostojiU(N, n) /\ N[n].vrsta = "PDV_RETURN",
         \A n \in Nalog : PostojiU(N, n) /\ N[n].vrsta = "PDV_RETURN" =>
           /\ PostojiU(M, n) /\ M[n].vrsta = "PDV_RETURN" /\ N[n].mjesec \in Mjesec
           /\ M[n].mjesec = N[n].mjesec /\ M[n].stavke = N[n].stavke
  PROVE  VezePrijava(M, Q)
<1>1. ASSUME NEW n \in Nalog, PostojiU(M, n), M[n].vrsta = "PDV_RETURN"
      PROVE  /\ Q[M[n].mjesec].nalog = n
             /\ \E s \in M[n].stavke : s.pdv # 0 /\ M[n].stavke = {s}
  <2>1. PostojiU(N, n) /\ N[n].vrsta = "PDV_RETURN"
    BY <1>1
  <2>2. M[n].mjesec = N[n].mjesec /\ M[n].stavke = N[n].stavke /\ N[n].mjesec \in Mjesec
    BY <2>1
  <2>3. P[N[n].mjesec].nalog = n /\ \E s \in N[n].stavke : s.pdv # 0 /\ N[n].stavke = {s}
    BY <2>1 DEF VezePrijava
  <2> QED
    BY <2>2, <2>3
<1>2. ASSUME NEW m \in Mjesec, Q[m].nalog # Nema
      PROVE  PostojiU(M, Q[m].nalog) /\ M[Q[m].nalog].vrsta = "PDV_RETURN"
             /\ M[Q[m].nalog].mjesec = m
  <2>1. PICK n : n = P[m].nalog /\ n = Q[m].nalog
    OBVIOUS
  <2>2. n \in Nalog
    BY <1>2, <2>1
  <2>3. PostojiU(N, n) /\ N[n].vrsta = "PDV_RETURN" /\ N[n].mjesec = m
    BY <1>2, <2>1 DEF VezePrijava
  <2> QED
    BY <2>1, <2>2, <2>3
<1> QED
  BY <1>1, <1>2 DEF VezePrijava

\* The entries that a locked month has after a step it had before, as they are, or its
\* archive has them.
LEMMA ObuhvataOstaje ==
  ASSUME NEW R, NEW S, NEW A, NEW B, NEW T, NEW U, Obuhvata(R, A, T),
         \A m \in Mjesec, e \in Racun : U[m] = "LOCKED" /\ S[e].mjesec = m =>
           \/ T[m] = "LOCKED" /\ S[e] = R[e] /\ B[m] = A[m]
           \/ <<e, S[e]>> \in B[m]
  PROVE  Obuhvata(S, B, U)
<1>1. ASSUME NEW m \in Mjesec, U[m] = "LOCKED", NEW e \in Racun, S[e].mjesec = m
      PROVE  <<e, S[e]>> \in B[m]
  <2>1. CASE T[m] = "LOCKED" /\ S[e] = R[e] /\ B[m] = A[m]
    <3>1. <<e, R[e]>> \in IzvoriU(R, m)
      BY <1>1, <2>1 DEF IzvoriU
    <3>2. IzvoriU(R, m) \subseteq A[m]
      BY <2>1 DEF Obuhvata
    <3> QED
      BY <2>1, <3>1, <3>2
  <2> QED
    BY <1>1, <2>1
<1> QED
  BY <1>1 DEF Obuhvata, IzvoriU

\* createKufEntry, updateKufEntry and deleteKufEntry write an entry of an open month,
\* or take one away.
LEMMA UpisRacuna ==
  ASSUME PdvTipovi, TabeleOK, NEW r \in Zahtjev, ZahtjevOK(r),
         \/ \E m \in Mjesec, x \in Iznosi : CreateKufEntry(r, m, x)
         \/ UpdateKufEntryWrite(r) /\ ~Odustani(r)
         \/ DeleteKufEntryWrite(r) /\ ~Odustani(r)
  PROVE  TabeleOK' /\ ~zakljucena
<1>1. CASE \E m \in Mjesec, x \in Iznosi : CreateKufEntry(r, m, x)
  <2>1. PICK m \in Mjesec, x \in Iznosi : CreateKufEntry(r, m, x)
    BY <1>1
  <2>2. PICK e \in SvjeziRacuni :
          racuni' = [racuni EXCEPT ![e] = [mjesec |-> m, pdv |-> x, nalog |-> Nema]]
    BY <2>1 DEF CreateKufEntry
  <2>3. ~zakljucena /\ periodi[m] # "LOCKED"
        /\ UNCHANGED <<periodi, nalozi, prijave, arhiva>>
    BY <2>1 DEF CreateKufEntry, PdvOtvoren
  <2>4. \A y \in Racun : racuni'[y] = racuni[y]
                         \/ (racuni'[y].nalog = Nema /\ racuni'[y].mjesec = m)
    BY <2>2 DEF PdvTipovi
  <2>5. VezeRacuna(racuni', nalozi')
    <3>1. \A y \in Racun : racuni'[y].nalog # Nema =>
            racuni'[y].nalog = racuni[y].nalog /\ racuni'[y].mjesec = racuni[y].mjesec
      BY <2>4
    <3>2. nalozi' = nalozi /\ VezeRacuna(racuni, nalozi)
      BY <2>3 DEF TabeleOK
    <3> QED
      BY <3>1, <3>2 DEF VezeRacuna
  <2>6. Obuhvata(racuni', arhiva', periodi')
    <3>1. \A k \in Mjesec, y \in Racun : periodi'[k] = "LOCKED" /\ racuni'[y].mjesec = k =>
            periodi[k] = "LOCKED" /\ racuni'[y] = racuni[y] /\ arhiva'[k] = arhiva[k]
      BY <2>3, <2>4
    <3> QED
      BY <3>1, ObuhvataOstaje DEF TabeleOK
  <2> QED
    BY <2>3, <2>5, <2>6 DEF TabeleOK
<1>2. CASE UpdateKufEntryWrite(r) /\ ~Odustani(r)
  <2>1. PICK z : z = zahtjevi[r]
    OBVIOUS
  <2>2. PICK m : m = racuni[z.racun].mjesec
    OBVIOUS
  <2>3. z.racun \in Racun
    BY <1>2, <2>1 DEF ZahtjevOK, UpdateKufEntryWrite, Spreman
  <2>4. /\ m # Nema /\ PdvOtvoren(m) /\ racuni' = [racuni EXCEPT ![z.racun].pdv = z.iznos]
        /\ UNCHANGED <<periodi, nalozi, prijave, arhiva>>
    BY <1>2, <2>1, <2>2 DEF UpdateKufEntryWrite
  <2>5. \A y \in Racun : racuni'[y].nalog = racuni[y].nalog /\ racuni'[y].mjesec = racuni[y].mjesec
                         /\ (y # z.racun => racuni'[y] = racuni[y])
    BY <2>3, <2>4 DEF PdvTipovi, Racun0
  <2>6. VezeRacuna(racuni', nalozi')
    <3>1. nalozi' = nalozi /\ VezeRacuna(racuni, nalozi)
      BY <2>4 DEF TabeleOK
    <3> QED
      BY <2>5, <3>1 DEF VezeRacuna
  <2>7. Obuhvata(racuni', arhiva', periodi')
    <3>1. \A k \in Mjesec, y \in Racun : periodi'[k] = "LOCKED" /\ racuni'[y].mjesec = k =>
            periodi[k] = "LOCKED" /\ racuni'[y] = racuni[y] /\ arhiva'[k] = arhiva[k]
      BY <2>2, <2>4, <2>5 DEF PdvOtvoren
    <3> QED
      BY <3>1, ObuhvataOstaje DEF TabeleOK
  <2> QED
    BY <2>4, <2>6, <2>7 DEF TabeleOK, PdvOtvoren
<1>3. CASE DeleteKufEntryWrite(r) /\ ~Odustani(r)
  <2>1. PICK z : z = zahtjevi[r]
    OBVIOUS
  <2>2. BriseRacun(r) /\ z \in Zahtjevi0
    BY <1>3, <2>1 DEF ZahtjevOK, DeleteKufEntryWrite, Spreman, PdvTipovi
  <2>3. /\ ~z.zastario /\ racuni' = [racuni EXCEPT ![z.racun] = PrazanRacun]
        /\ nalozi' = IF z.nalog = Nema THEN nalozi
                     ELSE [nalozi EXCEPT ![z.nalog] = BezStavki(z.nalog, z.racun)]
        /\ UNCHANGED <<periodi, prijave, arhiva>>
    BY <1>3, <2>1 DEF DeleteKufEntryWrite
  <2>4. /\ z.racun \in Racun /\ ~zakljucena
        /\ z.nalog # Nema => z.nalog \in Nalog /\ nalozi[z.nalog].vrsta = "KUF"
    BY <2>1, <2>2, <2>3 DEF BriseRacun, Zahtjevi0
  <2>5. \A y \in Racun : racuni'[y] = racuni[y]
                         \/ (racuni'[y].nalog = Nema /\ racuni'[y].mjesec = Nema)
    BY <2>3, <2>4 DEF PdvTipovi, PrazanRacun
  <2>6. \A n \in Nalog : /\ nalozi[n].vrsta = "PDV_RETURN" => nalozi'[n] = nalozi[n]
                         /\ PostojiU(nalozi', n) =>
                              /\ PostojiU(nalozi, n) /\ nalozi'[n].vrsta = nalozi[n].vrsta
                              /\ nalozi'[n].mjesec = nalozi[n].mjesec
    <3>1. TAKE n \in Nalog
    <3>2. nalozi'[n] = nalozi[n] \/ (nalozi[n].vrsta = "KUF" /\ nalozi'[n] = BezStavki(n, z.racun))
      BY <2>3, <2>4 DEF PdvTipovi
    <3>3. \/ BezStavki(n, z.racun).status = "NEMA"
          \/ /\ BezStavki(n, z.racun).status = nalozi[n].status
             /\ BezStavki(n, z.racun).vrsta = nalozi[n].vrsta
             /\ BezStavki(n, z.racun).mjesec = nalozi[n].mjesec
      BY DEF BezStavki, PrazanNalog, PdvTipovi, Nalozi0
    <3> QED
      BY <3>2, <3>3 DEF PostojiU
  <2>7. VezeRacuna(racuni', nalozi')
    <3>1. \A e \in Racun : racuni[e].nalog \in Nalog \cup {Nema}
      BY DEF PdvTipovi, Racun0
    <3> QED
      BY <2>5, <2>6, <3>1, VezeOstaju DEF TabeleOK
  <2>8. NaloziMjeseca(nalozi')
    BY <2>6, NaloziOstaju DEF TabeleOK
  <2>9. VezePrijava(nalozi', prijave')
    <3>1. \A m \in Mjesec : prijave[m].nalog \in Nalog \cup {Nema}
      BY DEF PdvTipovi, Prijave0
    <3>2. \A n \in Nalog : PostojiU(nalozi, n) => nalozi[n].mjesec \in Mjesec
      BY DEF TabeleOK, NaloziMjeseca
    <3>3. \A n \in Nalog : PostojiU(nalozi', n) /\ nalozi'[n].vrsta = "PDV_RETURN" =>
            PostojiU(nalozi, n) /\ nalozi[n].vrsta = "PDV_RETURN"
      BY <2>6
    <3>4. \A n \in Nalog : PostojiU(nalozi, n) /\ nalozi[n].vrsta = "PDV_RETURN" =>
            PostojiU(nalozi', n) /\ nalozi'[n] = nalozi[n]
      BY <2>6 DEF PostojiU
    <3>5. prijave' = prijave /\ VezePrijava(nalozi, prijave)
      BY <2>3 DEF TabeleOK
    <3> QED
      BY <3>1, <3>2, <3>3, <3>4, <3>5, PrijaveOstaju
  <2>10. Obuhvata(racuni', arhiva', periodi')
    <3>1. \A k \in Mjesec, y \in Racun : periodi'[k] = "LOCKED" /\ racuni'[y].mjesec = k =>
            periodi[k] = "LOCKED" /\ racuni'[y] = racuni[y] /\ arhiva'[k] = arhiva[k]
      BY <2>3, <2>5, PdvPretpostavke
    <3> QED
      BY <3>1, ObuhvataOstaje DEF TabeleOK
  <2> QED
    BY <2>4, <2>7, <2>8, <2>9, <2>10 DEF TabeleOK
<1> QED
  BY <1>1, <1>2, <1>3

\* postInvoiceBook gives the book's entries the book's one journal.
LEMMA UpisKnjige ==
  ASSUME PdvTipovi, TabeleOK, NEW r \in Zahtjev, ZahtjevOK(r),
         PostBookWrite(r), ~Odustani(r)
  PROVE  TabeleOK' /\ ~zakljucena
<1>1. PICK z : z = zahtjevi[r]
  OBVIOUS
<1>2. PICK m : m = z.mjesec
  OBVIOUS
<1>3. KnjiziKnjigu(r) /\ z \in Zahtjevi0
  BY <1>1 DEF ZahtjevOK, PostBookWrite, Spreman, PdvTipovi
<1>4. /\ ~zakljucena /\ m \in Mjesec /\ periodi[m] # "LOCKED"
      /\ \A s \in z.izvori : s.racun \in Racun /\ racuni[s.racun].mjesec = m
      /\ z.nalog = Nema => ~\E n \in Nalog : /\ PostojiU(nalozi, n) /\ nalozi[n].vrsta = "KUF"
                                             /\ nalozi[n].mjesec = m
  BY <1>1, <1>2, <1>3 DEF KnjiziKnjigu
<1>5. PICK n : /\ n \in IF z.nalog = Nema THEN SvjeziNalozi
                        ELSE {k \in {z.nalog} : SmijeUNalog(k, z.mjesec, z.op)}
               /\ nalozi' = [nalozi EXCEPT ![n] = SaStavkama(n, z)]
               /\ racuni' = [e \in Racun |->
                               IF \E s \in z.izvori : s.racun = e
                               THEN [racuni[e] EXCEPT !.nalog = n] ELSE racuni[e]]
               /\ UNCHANGED <<zakljucena, periodi, prijave, arhiva>>
  BY <1>1 DEF PostBookWrite
<1>6. n \in Nalog
  BY <1>3, <1>5 DEF SvjeziNalozi, Zahtjevi0
<1>7. /\ periodi' = periodi /\ prijave' = prijave /\ arhiva' = arhiva
      /\ \A k \in Nalog : k # n => nalozi'[k] = nalozi[k]
      /\ \A e \in Racun : \/ racuni'[e] = racuni[e]
                          \/ /\ racuni'[e].nalog = n /\ racuni'[e].mjesec = racuni[e].mjesec
                             /\ racuni[e].mjesec = m
  BY <1>4, <1>5, <1>6 DEF PdvTipovi, Racun0
<1>8. /\ PostojiU(nalozi', n) /\ nalozi'[n].vrsta = "KUF" /\ nalozi'[n].mjesec = m
      /\ \/ /\ ~PostojiU(nalozi, n) /\ \A e \in Racun : racuni[e].nalog # n
            /\ ~\E k \in Nalog : /\ PostojiU(nalozi, k) /\ nalozi[k].vrsta = "KUF"
                                 /\ nalozi[k].mjesec = m
         \/ PostojiU(nalozi, n) /\ nalozi[n].vrsta = "KUF" /\ nalozi[n].mjesec = m
  <2>1. nalozi'[n] = SaStavkama(n, z)
    BY <1>5, <1>6 DEF PdvTipovi
  <2>2. CASE z.nalog = Nema
    <3>1. SaStavkama(n, z) = [status |-> IF z.op = "final" THEN "POSTED" ELSE "DRAFT",
                              vrsta |-> "KUF", mjesec |-> m, stavke |-> z.izvori]
      BY <1>2, <2>2 DEF SaStavkama
    <3>2. PostojiU(nalozi', n) /\ nalozi'[n].vrsta = "KUF" /\ nalozi'[n].mjesec = m
      BY <2>1, <3>1 DEF PostojiU
    <3>3. ~Postoji(n) /\ RacuniNaloga(n) = {}
      BY <1>5, <2>2 DEF SvjeziNalozi
    <3>4. ~PostojiU(nalozi, n) /\ \A e \in Racun : racuni[e].nalog # n
      BY <1>6, <3>3, PdvPretpostavke DEF Postoji, PostojiU, RacuniNaloga
    <3> QED
      BY <1>4, <2>2, <3>2, <3>4
  <2>3. CASE z.nalog # Nema
    <3>1. SmijeUNalog(n, m, z.op)
      BY <1>2, <1>5, <2>3
    <3>2. SaStavkama(n, z) = [nalozi[n] EXCEPT !.stavke = @ \cup z.izvori]
      BY <2>3 DEF SaStavkama
    <3>3. PostojiU(nalozi, n) /\ nalozi[n].vrsta = "KUF" /\ nalozi[n].mjesec = m
      BY <3>1 DEF SmijeUNalog, PostojiU
    <3>4. nalozi[n] \in Nalozi0
      BY <1>6 DEF PdvTipovi
    <3> QED
      BY <2>1, <3>2, <3>3, <3>4 DEF PostojiU, Nalozi0
  <2> QED
    BY <2>2, <2>3
<1>9. VezeRacuna(racuni', nalozi')
  <2>1. ASSUME NEW e \in Racun, racuni'[e].nalog # Nema, PostojiU(nalozi', racuni'[e].nalog)
        PROVE  nalozi'[racuni'[e].nalog].vrsta = "KUF"
               /\ nalozi'[racuni'[e].nalog].mjesec = racuni'[e].mjesec
    <3>1. CASE racuni'[e] = racuni[e]
      <4>1. PICK k : k = racuni[e].nalog
        OBVIOUS
      <4>2. k \in Nalog
        BY <2>1, <3>1, <4>1 DEF PdvTipovi, Racun0
      <4>3. PostojiU(nalozi, k) => nalozi[k].vrsta = "KUF" /\ nalozi[k].mjesec = racuni[e].mjesec
        BY <2>1, <3>1, <4>1 DEF TabeleOK, VezeRacuna
      <4>4. CASE k = n
        BY <1>8, <3>1, <4>1, <4>3, <4>4
      <4>5. CASE k # n
        BY <1>7, <2>1, <3>1, <4>1, <4>2, <4>3, <4>5 DEF PostojiU
      <4> QED
        BY <4>4, <4>5
    <3>2. CASE racuni'[e] # racuni[e]
      BY <1>7, <1>8, <3>2
    <3> QED
      BY <3>1, <3>2
  <2> QED
    BY <2>1 DEF VezeRacuna
<1>10. NaloziMjeseca(nalozi')
  <2>1. ASSUME NEW k \in Nalog, PostojiU(nalozi', k) PROVE nalozi'[k].mjesec \in Mjesec
    BY <1>4, <1>7, <1>8, <2>1 DEF TabeleOK, NaloziMjeseca, PostojiU
  <2>2. ASSUME NEW k \in Nalog, NEW j \in Nalog, PostojiU(nalozi', k), PostojiU(nalozi', j),
               nalozi'[k].vrsta = "KUF", nalozi'[j].vrsta = "KUF",
               nalozi'[k].mjesec = nalozi'[j].mjesec
        PROVE  k = j
    <3>1. ASSUME NEW x \in Nalog, x # n, PostojiU(nalozi', x)
          PROVE  PostojiU(nalozi, x) /\ nalozi[x] = nalozi'[x]
      BY <1>7, <3>1 DEF PostojiU
    <3>2. CASE PostojiU(nalozi, n) /\ nalozi[n].vrsta = "KUF" /\ nalozi[n].mjesec = m
      BY <1>6, <1>8, <2>2, <3>1, <3>2 DEF TabeleOK, NaloziMjeseca
    <3>3. CASE ~\E x \in Nalog : /\ PostojiU(nalozi, x) /\ nalozi[x].vrsta = "KUF"
                                 /\ nalozi[x].mjesec = m
      BY <1>8, <2>2, <3>1, <3>3 DEF TabeleOK, NaloziMjeseca
    <3> QED
      BY <1>8, <3>2, <3>3
  <2> QED
    BY <2>1, <2>2 DEF NaloziMjeseca
<1>11. VezePrijava(nalozi', prijave')
  <2>1. \A k \in Nalog : PostojiU(nalozi, k) => nalozi[k].mjesec \in Mjesec
    BY DEF TabeleOK, NaloziMjeseca
  <2>2. \A k \in Nalog : PostojiU(nalozi', k) /\ nalozi'[k].vrsta = "PDV_RETURN" =>
          PostojiU(nalozi, k) /\ nalozi[k].vrsta = "PDV_RETURN"
    BY <1>7, <1>8 DEF PostojiU
  <2>3. \A k \in Nalog : PostojiU(nalozi, k) /\ nalozi[k].vrsta = "PDV_RETURN" =>
          PostojiU(nalozi', k) /\ nalozi'[k] = nalozi[k]
    BY <1>7, <1>8 DEF PostojiU
  <2>4. \A k \in Mjesec : prijave[k].nalog \in Nalog \cup {Nema}
    BY DEF PdvTipovi, Prijave0
  <2>5. VezePrijava(nalozi, prijave)
    BY DEF TabeleOK
  <2> QED
    BY <1>7, <2>1, <2>2, <2>3, <2>4, <2>5, PrijaveOstaju
<1>12. Obuhvata(racuni', arhiva', periodi')
  <2>1. \A k \in Mjesec, y \in Racun : periodi'[k] = "LOCKED" /\ racuni'[y].mjesec = k =>
          periodi[k] = "LOCKED" /\ racuni'[y] = racuni[y] /\ arhiva'[k] = arhiva[k]
    BY <1>4, <1>7
  <2> QED
    BY <2>1, ObuhvataOstaje DEF TabeleOK
<1> QED
  BY <1>4, <1>9, <1>10, <1>11, <1>12 DEF TabeleOK

\* A journal that is posted or reopened stays what it is.
LEMMA UpisStatusa ==
  ASSUME PdvTipovi, TabeleOK, NEW r \in Zahtjev, ZahtjevOK(r),
         (\E n \in Nalog : PostJournal(r, n)) \/ (ReopenJournalWrite(r) /\ ~Odustani(r))
  PROVE  TabeleOK' /\ ~zakljucena
<1>1. PICK n \in Nalog, s \in {"POSTED", "DRAFT"} :
        /\ PostojiU(nalozi, n) /\ ~zakljucena /\ nalozi' = [nalozi EXCEPT ![n].status = s]
        /\ UNCHANGED <<zakljucena, periodi, racuni, prijave, arhiva>>
  <2>1. ASSUME NEW n \in Nalog, PostJournal(r, n)
        PROVE  /\ PostojiU(nalozi, n) /\ ~zakljucena
               /\ nalozi' = [nalozi EXCEPT ![n].status = "POSTED"]
               /\ UNCHANGED <<zakljucena, periodi, racuni, prijave, arhiva>>
    BY <2>1 DEF PostJournal, PostojiU, PdvOtvoren
  <2>2. CASE ReopenJournalWrite(r) /\ ~Odustani(r)
    <3>1. PICK n : n = zahtjevi[r].nalog
      OBVIOUS
    <3>2. n \in Nalog
      BY <2>2, <3>1 DEF ZahtjevOK, ReopenJournalWrite, Spreman
    <3>3. /\ Postoji(n) /\ ~zakljucena
          /\ nalozi' = [nalozi EXCEPT ![n].status = "DRAFT"]
          /\ UNCHANGED <<zakljucena, periodi, racuni, prijave, arhiva>>
      BY <2>2, <3>1 DEF ReopenJournalWrite, PdvOtvoren
    <3> QED
      BY <3>2, <3>3 DEF Postoji, PostojiU
  <2> QED
    BY <2>1, <2>2
<1>2. \A k \in Nalog : /\ PostojiU(nalozi', k) <=> PostojiU(nalozi, k)
                       /\ nalozi'[k].vrsta = nalozi[k].vrsta
                       /\ nalozi'[k].mjesec = nalozi[k].mjesec
                       /\ nalozi'[k].stavke = nalozi[k].stavke
  BY <1>1 DEF PostojiU, PdvTipovi, Nalozi0
<1>3. racuni' = racuni /\ prijave' = prijave /\ periodi' = periodi /\ arhiva' = arhiva
  BY <1>1
<1>4. VezeRacuna(racuni', nalozi')
  <2>1. \A e \in Racun : racuni[e].nalog \in Nalog \cup {Nema}
    BY DEF PdvTipovi, Racun0
  <2> QED
    BY <1>2, <1>3, <2>1 DEF TabeleOK, VezeRacuna
<1>5. NaloziMjeseca(nalozi')
  BY <1>2, NaloziOstaju DEF TabeleOK
<1>6. VezePrijava(nalozi', prijave')
  <2>1. \A k \in Nalog : PostojiU(nalozi, k) => nalozi[k].mjesec \in Mjesec
    BY DEF TabeleOK, NaloziMjeseca
  <2>2. \A k \in Mjesec : prijave[k].nalog \in Nalog \cup {Nema}
    BY DEF PdvTipovi, Prijave0
  <2>3. VezePrijava(nalozi, prijave)
    BY DEF TabeleOK
  <2> QED
    BY <1>2, <1>3, <2>1, <2>2, <2>3, PrijaveOstaju
<1>7. Obuhvata(racuni', arhiva', periodi')
  BY <1>3 DEF TabeleOK
<1> QED
  BY <1>1, <1>4, <1>5, <1>6, <1>7 DEF TabeleOK

\* A deleted journal leaves no return that names it, and no entry of a locked month.
LEMMA UpisBrisanja ==
  ASSUME PdvTipovi, TabeleOK, NEW r \in Zahtjev, ZahtjevOK(r),
         DeleteJournalWrite(r), ~Odustani(r)
  PROVE  TabeleOK' /\ ~zakljucena
<1>1. PICK z : z = zahtjevi[r]
  OBVIOUS
<1>2. PICK n : n = z.nalog
  OBVIOUS
<1>3. n \in Nalog
  BY <1>1, <1>2 DEF ZahtjevOK, DeleteJournalWrite, Spreman, BriseNalog
<1>4. /\ Postoji(n) /\ PdvOtvoren(nalozi[n].mjesec)
      /\ racuni' = [e \in Racun |->
                      IF e \in z.izvori \cap RacuniNaloga(n)
                      THEN [racuni[e] EXCEPT !.nalog = Nema] ELSE racuni[e]]
      /\ prijave' = [m \in Mjesec |->
                       IF prijave[m].nalog = n
                       THEN [prijave[m] EXCEPT !.status = "DRAFT", !.nalog = Nema]
                       ELSE prijave[m]]
      /\ nalozi' = [nalozi EXCEPT ![n] = PrazanNalog]
      /\ UNCHANGED <<zakljucena, periodi, arhiva>>
  BY <1>1, <1>2 DEF DeleteJournalWrite
<1>5. /\ PostojiU(nalozi, n) /\ ~zakljucena /\ periodi[nalozi[n].mjesec] # "LOCKED"
      /\ ~PostojiU(nalozi', n) /\ \A k \in Nalog : k # n => nalozi'[k] = nalozi[k]
      /\ periodi' = periodi /\ arhiva' = arhiva
  BY <1>3, <1>4 DEF Postoji, PostojiU, PdvOtvoren, PrazanNalog, PdvTipovi
<1>6. \A e \in Racun : \/ racuni'[e] = racuni[e]
                       \/ /\ racuni[e].nalog = n /\ racuni'[e].nalog = Nema
                          /\ racuni'[e].mjesec = racuni[e].mjesec
  BY <1>4 DEF PdvTipovi, Racun0, RacuniNaloga
<1>7. \A m \in Mjesec : /\ prijave[m].nalog = n => prijave'[m].nalog = Nema
                        /\ prijave[m].nalog # n => prijave'[m].nalog = prijave[m].nalog
                        /\ prijave[m].nalog \in Nalog \cup {Nema}
  BY <1>4 DEF PdvTipovi, Prijave0
<1>8. \A k \in Nalog : PostojiU(nalozi', k) => k # n /\ PostojiU(nalozi, k) /\ nalozi'[k] = nalozi[k]
  BY <1>5 DEF PostojiU
<1>9. VezeRacuna(racuni', nalozi')
  <2>1. \A e \in Racun : racuni[e].nalog \in Nalog \cup {Nema}
    BY DEF PdvTipovi, Racun0
  <2> QED
    BY <1>6, <1>8, <2>1 DEF TabeleOK, VezeRacuna
<1>10. NaloziMjeseca(nalozi')
  BY <1>8, NaloziOstaju DEF TabeleOK
<1>11. VezePrijava(nalozi', prijave')
  <2>1. ASSUME NEW k \in Nalog, PostojiU(nalozi', k), nalozi'[k].vrsta = "PDV_RETURN"
        PROVE  /\ prijave'[nalozi'[k].mjesec].nalog = k
               /\ \E s \in nalozi'[k].stavke : s.pdv # 0 /\ nalozi'[k].stavke = {s}
    <3>1. k # n /\ PostojiU(nalozi, k) /\ nalozi'[k] = nalozi[k] /\ nalozi[k].mjesec \in Mjesec
      BY <1>8, <2>1 DEF TabeleOK, NaloziMjeseca
    <3>2. /\ prijave[nalozi[k].mjesec].nalog = k
          /\ \E s \in nalozi[k].stavke : s.pdv # 0 /\ nalozi[k].stavke = {s}
      BY <2>1, <3>1 DEF TabeleOK, VezePrijava
    <3> QED
      BY <1>7, <3>1, <3>2
  <2>2. ASSUME NEW m \in Mjesec, prijave'[m].nalog # Nema
        PROVE  /\ PostojiU(nalozi', prijave'[m].nalog)
               /\ nalozi'[prijave'[m].nalog].vrsta = "PDV_RETURN"
               /\ nalozi'[prijave'[m].nalog].mjesec = m
    <3>1. PICK k : k = prijave[m].nalog /\ k = prijave'[m].nalog /\ k # n /\ k \in Nalog
      BY <1>7, <2>2
    <3>2. PostojiU(nalozi, k) /\ nalozi[k].vrsta = "PDV_RETURN" /\ nalozi[k].mjesec = m
      BY <2>2, <3>1 DEF TabeleOK, VezePrijava
    <3> QED
      BY <1>5, <3>1, <3>2 DEF PostojiU
  <2> QED
    BY <2>1, <2>2 DEF VezePrijava
<1>12. Obuhvata(racuni', arhiva', periodi')
  <2>1. \A e \in Racun : racuni[e].nalog = n => racuni[e].mjesec = nalozi[n].mjesec
    BY <1>3, <1>5, PdvPretpostavke DEF TabeleOK, VezeRacuna
  <2>2. \A k \in Mjesec, y \in Racun : periodi'[k] = "LOCKED" /\ racuni'[y].mjesec = k =>
          periodi[k] = "LOCKED" /\ racuni'[y] = racuni[y] /\ arhiva'[k] = arhiva[k]
    BY <1>5, <1>6, <2>1
  <2> QED
    BY <2>2, ObuhvataOstaje DEF TabeleOK
<1> QED
  BY <1>5, <1>9, <1>10, <1>11, <1>12 DEF TabeleOK

\* mutatePdv: the return keeps its journal unless the step gives it one or takes it.
LEMMA UpisPrijave ==
  ASSUME PdvTipovi, TabeleOK, NEW r \in Zahtjev, ZahtjevOK(r),
         PdvRefresh(r) \/ PdvSave(r) \/ PdvLock(r)
  PROVE  TabeleOK' /\ ~zakljucena
<1>1. PICK z : z = zahtjevi[r]
  OBVIOUS
<1>2. PICK m : m = z.mjesec
  OBVIOUS
<1>3. MijenjaPdv(r)
  BY DEF ZahtjevOK, PdvRefresh, PdvSave, PdvLock, Spreman
<1>4. /\ ~zakljucena /\ m \in Mjesec /\ z.izvori = IzvoriU(racuni, m)
      /\ z.op = "refresh" => prijave[m].nalog = Nema
  BY <1>1, <1>2, <1>3 DEF MijenjaPdv
<1>5. racuni' = racuni /\ nalozi' = nalozi
  BY DEF PdvRefresh, PdvSave, PdvLock
<1>6. \A k \in Mjesec : prijave'[k].nalog = prijave[k].nalog
  <2>1. CASE PdvRefresh(r)
    <3>1. z.op = "refresh" /\ prijave' = [prijave EXCEPT ![m] =
            [status |-> "DRAFT", nalog |-> Nema, iznos |-> z.iznos, otisak |-> <<z.izvori>>]]
      BY <1>1, <1>2, <2>1 DEF PdvRefresh
    <3> QED
      BY <1>4, <3>1 DEF PdvTipovi
  <2>2. CASE PdvSave(r)
    <3>1. prijave' = [prijave EXCEPT ![m].iznos = z.iznos]
      BY <1>1, <1>2, <2>2 DEF PdvSave
    <3> QED
      BY <1>4, <3>1 DEF PdvTipovi, Prijave0
  <2>3. CASE PdvLock(r)
    <3>1. prijave' = [prijave EXCEPT ![m].status = "LOCKED"]
      BY <1>1, <1>2, <2>3 DEF PdvLock
    <3> QED
      BY <1>4, <3>1 DEF PdvTipovi, Prijave0
  <2> QED
    BY <2>1, <2>2, <2>3
<1>7. VezePrijava(nalozi', prijave')
  <2>1. \A k \in Nalog : PostojiU(nalozi, k) => nalozi[k].mjesec \in Mjesec
    BY DEF TabeleOK, NaloziMjeseca
  <2>2. \A k \in Mjesec : prijave[k].nalog \in Nalog \cup {Nema}
    BY DEF PdvTipovi, Prijave0
  <2>3. VezePrijava(nalozi, prijave)
    BY DEF TabeleOK
  <2> QED
    BY <1>5, <1>6, <2>1, <2>2, <2>3, PrijaveOstaju
<1>8. Obuhvata(racuni', arhiva', periodi')
  <2>1. CASE PdvLock(r)
    <3>1. /\ arhiva' = [arhiva EXCEPT ![m] = z.izvori]
          /\ periodi' = [periodi EXCEPT ![m] = "LOCKED"]
      BY <1>1, <1>2, <2>1 DEF PdvLock
    <3>2. \A e \in Racun : racuni[e].mjesec = m => <<e, racuni[e]>> \in arhiva'[m]
      BY <1>4, <3>1 DEF PdvTipovi, IzvoriU
    <3>3. \A k \in Mjesec : k # m => periodi'[k] = periodi[k] /\ arhiva'[k] = arhiva[k]
      BY <3>1 DEF PdvTipovi
    <3>4. \A k \in Mjesec, y \in Racun : periodi'[k] = "LOCKED" /\ racuni'[y].mjesec = k =>
            \/ periodi[k] = "LOCKED" /\ racuni'[y] = racuni[y] /\ arhiva'[k] = arhiva[k]
            \/ <<y, racuni'[y]>> \in arhiva'[k]
      BY <1>5, <3>2, <3>3
    <3> QED
      BY <3>4, ObuhvataOstaje DEF TabeleOK
  <2>2. CASE PdvRefresh(r) \/ PdvSave(r)
    <3>1. arhiva' = arhiva /\ periodi' = periodi
      BY <2>2 DEF PdvRefresh, PdvSave
    <3> QED
      BY <1>5, <3>1 DEF TabeleOK
  <2> QED
    BY <2>1, <2>2
<1> QED
  BY <1>4, <1>5, <1>7, <1>8 DEF TabeleOK

\* Posting gives the return a fresh journal of its month.
LEMMA UpisNalogaPrijave ==
  ASSUME PdvTipovi, TabeleOK, NEW r \in Zahtjev, ZahtjevOK(r), PdvPost(r), ~Odustani(r)
  PROVE  TabeleOK' /\ ~zakljucena
<1>1. PICK z : z = zahtjevi[r]
  OBVIOUS
<1>2. PICK m : m = z.mjesec
  OBVIOUS
<1>3. MijenjaPdv(r) /\ z.op = "post"
  BY <1>1 DEF ZahtjevOK, PdvPost, Spreman
<1>4. ~zakljucena /\ m \in Mjesec /\ prijave[m].nalog = Nema /\ z.iznos # 0
  BY <1>1, <1>2, <1>3 DEF MijenjaPdv
<1>5. PICK n \in SvjeziNalozi :
        /\ nalozi' = [nalozi EXCEPT ![n] =
                        [status |-> "POSTED", vrsta |-> "PDV_RETURN", mjesec |-> m,
                         stavke |-> {Stavka(Nema, z.iznos)}]]
        /\ prijave' = [prijave EXCEPT ![m].status = "POSTED", ![m].nalog = n]
        /\ UNCHANGED <<zakljucena, periodi, racuni, arhiva>>
  BY <1>1, <1>2 DEF PdvPost
<1>6. /\ n \in Nalog /\ n # Nema /\ ~PostojiU(nalozi, n)
      /\ \A e \in Racun : racuni[e].nalog # n
  BY PdvPretpostavke DEF SvjeziNalozi, Postoji, PostojiU, RacuniNaloga
<1>7. /\ racuni' = racuni /\ periodi' = periodi /\ arhiva' = arhiva
      /\ \A k \in Nalog : k # n => nalozi'[k] = nalozi[k]
      /\ PostojiU(nalozi', n) /\ nalozi'[n].vrsta = "PDV_RETURN" /\ nalozi'[n].mjesec = m
      /\ \E s \in nalozi'[n].stavke : s.pdv # 0 /\ nalozi'[n].stavke = {s}
  <2>1. nalozi'[n] = [status |-> "POSTED", vrsta |-> "PDV_RETURN", mjesec |-> m,
                      stavke |-> {Stavka(Nema, z.iznos)}]
    BY <1>5, <1>6 DEF PdvTipovi
  <2>2. Stavka(Nema, z.iznos).pdv # 0
    BY <1>4 DEF Stavka
  <2>3. PICK s : s = Stavka(Nema, z.iznos)
    OBVIOUS
  <2>4. nalozi'[n].stavke = {s} /\ s.pdv # 0
    BY <2>1, <2>2, <2>3
  <2>5. \A k \in Nalog : k # n => nalozi'[k] = nalozi[k]
    BY <1>5 DEF PdvTipovi
  <2> QED
    BY <1>5, <2>1, <2>4, <2>5 DEF PostojiU
<1>8. /\ prijave'[m].nalog = n
      /\ \A k \in Mjesec : k # m => prijave'[k].nalog = prijave[k].nalog
      /\ \A k \in Mjesec : prijave[k].nalog \in Nalog \cup {Nema}
  BY <1>4, <1>5 DEF PdvTipovi, Prijave0
<1>9. VezeRacuna(racuni', nalozi')
  <2>1. \A e \in Racun : racuni[e].nalog \in Nalog \cup {Nema}
    BY DEF PdvTipovi, Racun0
  <2> QED
    BY <1>6, <1>7, <2>1 DEF TabeleOK, VezeRacuna, PostojiU
<1>10. NaloziMjeseca(nalozi')
  BY <1>4, <1>6, <1>7 DEF TabeleOK, NaloziMjeseca, PostojiU
<1>11. VezePrijava(nalozi', prijave')
  <2>1. ASSUME NEW k \in Nalog, PostojiU(nalozi', k), nalozi'[k].vrsta = "PDV_RETURN"
        PROVE  /\ prijave'[nalozi'[k].mjesec].nalog = k
               /\ \E s \in nalozi'[k].stavke : s.pdv # 0 /\ nalozi'[k].stavke = {s}
    <3>1. CASE k = n
      BY <1>7, <1>8, <3>1
    <3>2. CASE k # n
      <4>1. PostojiU(nalozi, k) /\ nalozi'[k] = nalozi[k] /\ nalozi[k].mjesec \in Mjesec
        BY <1>7, <2>1, <3>2 DEF PostojiU, TabeleOK, NaloziMjeseca
      <4>2. /\ prijave[nalozi[k].mjesec].nalog = k
            /\ \E s \in nalozi[k].stavke : s.pdv # 0 /\ nalozi[k].stavke = {s}
        BY <2>1, <4>1 DEF TabeleOK, VezePrijava
      <4>3. nalozi[k].mjesec # m
        BY <1>4, <4>2, PdvPretpostavke
      <4> QED
        BY <1>8, <4>1, <4>2, <4>3
    <3> QED
      BY <3>1, <3>2
  <2>2. ASSUME NEW k \in Mjesec, prijave'[k].nalog # Nema
        PROVE  /\ PostojiU(nalozi', prijave'[k].nalog)
               /\ nalozi'[prijave'[k].nalog].vrsta = "PDV_RETURN"
               /\ nalozi'[prijave'[k].nalog].mjesec = k
    <3>1. CASE k = m
      BY <1>7, <1>8, <3>1
    <3>2. CASE k # m
      <4>1. PICK j : j = prijave[k].nalog /\ j = prijave'[k].nalog /\ j \in Nalog
        BY <1>8, <2>2, <3>2
      <4>2. PostojiU(nalozi, j) /\ nalozi[j].vrsta = "PDV_RETURN" /\ nalozi[j].mjesec = k
        BY <2>2, <4>1 DEF TabeleOK, VezePrijava
      <4>3. j # n
        BY <1>6, <4>2
      <4> QED
        BY <1>7, <4>1, <4>2, <4>3 DEF PostojiU
    <3> QED
      BY <3>1, <3>2
  <2> QED
    BY <2>1, <2>2 DEF VezePrijava
<1>12. Obuhvata(racuni', arhiva', periodi')
  BY <1>7 DEF TabeleOK
<1> QED
  BY <1>4, <1>9, <1>10, <1>11, <1>12 DEF TabeleOK

\* Reopening takes the return's journal and unlocks the month.
LEMMA UpisOtvaranja ==
  ASSUME PdvTipovi, TabeleOK, NEW r \in Zahtjev, ZahtjevOK(r), PdvReopen(r)
  PROVE  TabeleOK' /\ ~zakljucena
<1>1. PICK z : z = zahtjevi[r]
  OBVIOUS
<1>2. PICK m : m = z.mjesec
  OBVIOUS
<1>3. PICK n : n = z.nalog
  OBVIOUS
<1>4. MijenjaPdv(r) /\ z \in Zahtjevi0
  BY <1>1 DEF ZahtjevOK, PdvReopen, Spreman, PdvTipovi
<1>5. ~zakljucena /\ m \in Mjesec /\ n = prijave[m].nalog /\ n \in Nalog \cup {Nema}
  BY <1>1, <1>2, <1>3, <1>4 DEF MijenjaPdv, Zahtjevi0
<1>6. /\ arhiva' = [arhiva EXCEPT ![m] = {}]
      /\ periodi' = [periodi EXCEPT ![m] = "REOPENED"]
      /\ nalozi' = IF n = Nema THEN nalozi ELSE [nalozi EXCEPT ![n] = PrazanNalog]
      /\ prijave' = [prijave EXCEPT ![m] =
                       [@ EXCEPT !.status = "DRAFT", !.nalog = Nema, !.otisak = <<>>]]
      /\ racuni' = racuni
  BY <1>1, <1>2, <1>3 DEF PdvReopen
<1>7. \A k \in Nalog : /\ k # n => nalozi'[k] = nalozi[k]
                       /\ PostojiU(nalozi', k) => k # n /\ PostojiU(nalozi, k) /\ nalozi'[k] = nalozi[k]
  BY <1>5, <1>6, PdvPretpostavke DEF PdvTipovi, PrazanNalog, PostojiU
<1>8. /\ prijave'[m].nalog = Nema
      /\ \A k \in Mjesec : k # m => prijave'[k].nalog = prijave[k].nalog
      /\ \A k \in Mjesec : prijave[k].nalog \in Nalog \cup {Nema}
  BY <1>5, <1>6 DEF PdvTipovi, Prijave0
<1>9. VezeRacuna(racuni', nalozi')
  <2>1. \A e \in Racun : racuni[e].nalog \in Nalog \cup {Nema}
    BY DEF PdvTipovi, Racun0
  <2> QED
    BY <1>6, <1>7, <2>1 DEF TabeleOK, VezeRacuna
<1>10. NaloziMjeseca(nalozi')
  BY <1>7, NaloziOstaju DEF TabeleOK
<1>11. VezePrijava(nalozi', prijave')
  <2>1. ASSUME NEW k \in Nalog, PostojiU(nalozi', k), nalozi'[k].vrsta = "PDV_RETURN"
        PROVE  /\ prijave'[nalozi'[k].mjesec].nalog = k
               /\ \E s \in nalozi'[k].stavke : s.pdv # 0 /\ nalozi'[k].stavke = {s}
    <3>1. k # n /\ PostojiU(nalozi, k) /\ nalozi'[k] = nalozi[k] /\ nalozi[k].mjesec \in Mjesec
      BY <1>7, <2>1 DEF TabeleOK, NaloziMjeseca
    <3>2. /\ prijave[nalozi[k].mjesec].nalog = k
          /\ \E s \in nalozi[k].stavke : s.pdv # 0 /\ nalozi[k].stavke = {s}
      BY <2>1, <3>1 DEF TabeleOK, VezePrijava
    <3>3. nalozi[k].mjesec # m
      BY <1>5, <3>1, <3>2
    <3> QED
      BY <1>8, <3>1, <3>2, <3>3
  <2>2. ASSUME NEW k \in Mjesec, prijave'[k].nalog # Nema
        PROVE  /\ PostojiU(nalozi', prijave'[k].nalog)
               /\ nalozi'[prijave'[k].nalog].vrsta = "PDV_RETURN"
               /\ nalozi'[prijave'[k].nalog].mjesec = k
    <3>1. k # m
      BY <1>8, <2>2
    <3>2. PICK j : j = prijave[k].nalog /\ j = prijave'[k].nalog /\ j \in Nalog
      BY <1>8, <2>2, <3>1
    <3>3. PostojiU(nalozi, j) /\ nalozi[j].vrsta = "PDV_RETURN" /\ nalozi[j].mjesec = k
      BY <2>2, <3>2 DEF TabeleOK, VezePrijava
    <3>4. j # n
      <4>1. SUFFICES ASSUME j = n PROVE FALSE
        OBVIOUS
      <4>2. nalozi[j].mjesec = m
        BY <1>5, <2>2, <3>2, <4>1 DEF TabeleOK, VezePrijava
      <4> QED
        BY <3>1, <3>3, <4>2
    <3> QED
      BY <1>7, <3>2, <3>3, <3>4 DEF PostojiU
  <2> QED
    BY <2>1, <2>2 DEF VezePrijava
<1>12. Obuhvata(racuni', arhiva', periodi')
  <2>1. \A k \in Mjesec, y \in Racun : periodi'[k] = "LOCKED" /\ racuni'[y].mjesec = k =>
          periodi[k] = "LOCKED" /\ racuni'[y] = racuni[y] /\ arhiva'[k] = arhiva[k]
    BY <1>5, <1>6 DEF PdvTipovi
  <2> QED
    BY <2>1, ObuhvataOstaje DEF TabeleOK
<1> QED
  BY <1>5, <1>9, <1>10, <1>11, <1>12 DEF TabeleOK

---------------------------------------------------------------------------
(* A step, the invariant and what follows from it *)

\* A request that writes and ends.
LEMMA Pisac ==
  ASSUME PdvTipovi, TabeleOK, \A q \in Zahtjev : ZahtjevOK(q), NEW r \in Zahtjev, ~Odustani(r),
         \/ UpdateKufEntryWrite(r) \/ DeleteKufEntryWrite(r) \/ PostBookWrite(r)
         \/ (\E n \in Nalog : PostJournal(r, n)) \/ ReopenJournalWrite(r) \/ DeleteJournalWrite(r)
         \/ PdvRefresh(r) \/ PdvSave(r) \/ PdvPost(r) \/ PdvLock(r) \/ PdvReopen(r)
  PROVE  TabeleOK' /\ (\A q \in Zahtjev : ZahtjevOK(q)') /\ ~zakljucena
<1>1. TabeleOK' /\ ~zakljucena
  BY UpisRacuna, UpisKnjige, UpisStatusa, UpisBrisanja, UpisPrijave, UpisNalogaPrijave,
     UpisOtvaranja
<1>2. Zavrsi(r) /\ zakljucena' = zakljucena
  <2>1. CASE \/ UpdateKufEntryWrite(r) \/ DeleteKufEntryWrite(r) \/ PostBookWrite(r)
             \/ (\E n \in Nalog : PostJournal(r, n)) \/ ReopenJournalWrite(r)
             \/ DeleteJournalWrite(r)
    BY <2>1 DEF UpdateKufEntryWrite, DeleteKufEntryWrite, PostBookWrite, PostJournal,
                ReopenJournalWrite, DeleteJournalWrite
  <2>2. CASE PdvRefresh(r) \/ PdvSave(r) \/ PdvPost(r) \/ PdvLock(r) \/ PdvReopen(r)
    BY <2>2 DEF PdvRefresh, PdvSave, PdvPost, PdvLock, PdvReopen
  <2> QED
    BY <2>1, <2>2
<1>3. Slobodno(r, RedGodine)
  <2>1. CASE \E n \in Nalog : PostJournal(r, n)
    BY <2>1 DEF PostJournal, Prvi, Slobodno
  <2>2. CASE \E pc \in {"updateEntry", "deleteEntry", "postBookWrite", "reopenJournal",
                        "deleteJournalWrite", "pdvWrite"} : Spreman(r, pc)
    BY <2>2, PisacImaGodinu
  <2> QED
    BY <2>1, <2>2 DEF UpdateKufEntryWrite, DeleteKufEntryWrite, PostBookWrite,
         ReopenJournalWrite, DeleteJournalWrite, PdvRefresh, PdvSave, PdvPost, PdvLock, PdvReopen
<1> QED
  BY <1>1, <1>2, <1>3, UpisOstalima

\* A new entry is written while nobody holds the year's row.
LEMMA NoviRacun ==
  ASSUME PdvTipovi, TabeleOK, \A q \in Zahtjev : ZahtjevOK(q), NEW r \in Zahtjev,
         NEW m \in Mjesec, NEW x \in Iznosi, CreateKufEntry(r, m, x)
  PROVE  TabeleOK' /\ (\A q \in Zahtjev : ZahtjevOK(q)') /\ ~zakljucena
<1>1. TabeleOK' /\ ~zakljucena
  BY UpisRacuna
<1>2. /\ brave[RedGodine] = Niko /\ zahtjevi' = zahtjevi /\ zakljucena' = zakljucena
      /\ nalozi' = nalozi
  BY DEF CreateKufEntry, Prvi
<1>3. ASSUME NEW q \in Zahtjev PROVE ZahtjevOK(q)'
  <2>1. ~Drzi(q) /\ IstiZahtjev(q)
    BY <1>2, PdvPretpostavke DEF Drzi, IstiZahtjev
  <2> QED
    BY <1>2, <2>1, OkvirUpisa
<1> QED
  BY <1>1, <1>3

\* What a request's step does to the tables: nothing, or it writes in an open year.
LEMMA KorakZahtjeva ==
  ASSUME PdvTipovi, PdvInv, NEW r \in Zahtjev, NoviZahtjev(r) \/ Nastavak(r)
  PROVE  /\ \A q \in Zahtjev : ZahtjevOK(q)'
         /\ UNCHANGED tabele \/ (TabeleOK' /\ ~zakljucena)
<1>1. TabeleOK /\ VezePrijava(nalozi, prijave) /\ \A q \in Zahtjev : ZahtjevOK(q)
  BY DEF PdvInv, TabeleOK
<1>2. CASE Odustani(r)
  <2>1. UNCHANGED tabele
    BY <1>2 DEF Odustani
  <2> QED
    BY <1>1, <1>2, <2>1, OdustaniOstalima
<1>3. CASE ~Odustani(r) /\ NoviZahtjev(r)
  <2>1. CASE \E m \in Mjesec, x \in Iznosi : CreateKufEntry(r, m, x)
    BY <1>1, <2>1, NoviRacun
  <2>2. CASE \/ \E e \in Racun, x \in Ispravke : UpdateKufEntry(r, e, x)
             \/ \E e \in Racun : DeleteKufEntry(r, e)
             \/ \E n \in Nalog : ReopenJournal(r, n) \/ DeleteJournal(r, n)
    BY <1>1, <2>2, PoceciDrze
  <2>3. CASE \E m \in Mjesec, k \in {"draft", "final"} : PostBook(r, m, k)
    BY <1>1, <2>3, PostBookDrzi
  <2>4. CASE \E n \in Nalog : PostJournal(r, n)
    BY <1>1, <1>3, <2>4, Pisac
  <2>5. ASSUME NEW m \in Mjesec, NEW x, NEW op \in {"refresh", "post", "lock", "reopen", "save"},
               MutatePdv(r, m, op, x)
        PROVE  (\A q \in Zahtjev : ZahtjevOK(q)') /\ UNCHANGED tabele
    BY <1>1, <2>5, MutatePdvDrzi
  <2> QED
    BY <1>3, <2>1, <2>2, <2>3, <2>4, <2>5 DEF NoviZahtjev
<1>4. CASE ~Odustani(r) /\ Nastavak(r)
  <2>1. CASE DeleteJournalEntries(r)
    BY <1>1, <2>1, PoceciDrze
  <2>2. CASE Zakljucaj(r)
    BY <1>1, <2>2, ZakljucajDrzi
  <2>3. CASE \/ UpdateKufEntryWrite(r) \/ DeleteKufEntryWrite(r) \/ PostBookWrite(r)
             \/ ReopenJournalWrite(r) \/ DeleteJournalWrite(r)
             \/ PdvRefresh(r) \/ PdvSave(r) \/ PdvPost(r) \/ PdvLock(r) \/ PdvReopen(r)
    BY <1>1, <1>4, <2>3, Pisac
  <2> QED
    BY <1>4, <2>1, <2>2, <2>3 DEF Nastavak, Prekini
<1> QED
  BY <1>2, <1>3, <1>4

\* The year opens or closes while nobody holds its row, and deletions grow old.
LEMMA KorakGodine ==
  ASSUME PdvTipovi, PdvInv, ToggleYear
  PROVE  PdvInv'
<1>1. /\ UNCHANGED <<periodi, racuni, nalozi, prijave, arhiva>> /\ brave[RedGodine] = Niko
      /\ zahtjevi' = [q \in Zahtjev |->
                        [zahtjevi[q] EXCEPT !.zastario = @ \/ zahtjevi[q].pc = "deleteEntry"]]
  BY DEF ToggleYear
<1>2. TabeleOK'
  BY <1>1 DEF PdvInv, TabeleOK
<1>3. ASSUME NEW q \in Zahtjev PROVE ZahtjevOK(q)'
  <2>1. PICK z : z = zahtjevi[q] /\ z \in Zahtjevi0
    BY DEF PdvTipovi
  <2>2. PICK b : b = (z.zastario \/ z.pc = "deleteEntry")
    OBVIOUS
  <2>3. PICK y : y = zahtjevi'[q] /\ y = [z EXCEPT !.zastario = b]
    BY <1>1, <2>1, <2>2
  <2>4. /\ y.pc = z.pc /\ y.op = z.op /\ y.mjesec = z.mjesec /\ y.racun = z.racun
        /\ y.nalog = z.nalog /\ y.iznos = z.iznos /\ y.izvori = z.izvori /\ y.ceka = z.ceka
        /\ y.zastario = b
    BY <2>1, <2>3 DEF Zahtjevi0
  <2>5. IstiZahtjev(q) /\ (z.pc = "deleteEntry" => y.zastario)
    BY <2>1, <2>2, <2>3, <2>4 DEF IstiZahtjev
  <2>6. ~Drzi(q)
    BY <1>1, PdvPretpostavke DEF Drzi
  <2> QED
    BY <2>1, <2>3, <2>5, <2>6, OkvirUpisa DEF PdvInv
<1> QED
  BY <1>2, <1>3 DEF PdvInv

\* What holds of the tables holds while they stay.
LEMMA IsteTabele == ASSUME TabeleOK, UNCHANGED tabele PROVE TabeleOK'
BY DEF TabeleOK, tabele

LEMMA PdvKorak ==
  ASSUME PdvTipovi, PdvInv, [Next]_vars
  PROVE  PdvTipovi' /\ PdvInv'
<1>1. PdvTipovi'
  BY TipoviKorak DEF PdvInv
<1>2. ASSUME NEW r \in Zahtjev, NoviZahtjev(r) \/ Nastavak(r) PROVE PdvInv'
  BY <1>2, KorakZahtjeva, IsteTabele DEF PdvInv
<1>3. CASE UNCHANGED vars
  <2>1. UNCHANGED tabele /\ brave' = brave /\ zahtjevi' = zahtjevi
    BY <1>3 DEF vars, tabele
  <2>2. ASSUME NEW q \in Zahtjev PROVE ZahtjevOK(q)'
    <3>1. IstiZahtjev(q) /\ (Drzi(q) => Drzi(q)')
      BY <2>1 DEF IstiZahtjev, Drzi
    <3> QED
      BY <2>1, <3>1, OkvirTabela DEF PdvInv
  <2> QED
    BY <1>1, <2>1, <2>2, IsteTabele DEF PdvInv
<1>4. PdvInv'
  <2>1. CASE \E r \in Zahtjev : NoviZahtjev(r) \/ Nastavak(r)
    BY <1>2, <2>1
  <2>2. CASE ToggleYear
    BY <2>2, KorakGodine
  <2> QED
    BY <1>3, <2>1, <2>2 DEF Next
<1> QED
  BY <1>1, <1>4

LEMMA PdvPocetak == Init => PdvTipovi /\ PdvInv
<1> SUFFICES ASSUME Init PROVE PdvTipovi /\ PdvInv
  OBVIOUS
<1>1. PdvTipovi
  <2>1. racuni \in [Racun -> Racun0] /\ nalozi \in [Nalog -> Nalozi0]
    BY DEF Init, PrazanRacun, PrazanNalog, Racun0, Nalozi0
  <2>2. <<>> \in Seq(IzvoriM)
    OBVIOUS
  <2>3. prijave \in [Mjesec -> Prijave0] /\ arhiva \in [Mjesec -> IzvoriM]
    BY <2>2 DEF Init, PraznaPrijava, Prijave0, IzvoriM
  <2> QED
    BY <2>1, <2>3, MirovanjeTip DEF Init, PdvTipovi
<1>2. \A n \in Nalog : ~PostojiU(nalozi, n)
  BY DEF Init, PrazanNalog, PostojiU
<1>3. TabeleOK
  <2>1. \A e \in Racun : racuni[e].nalog = Nema
    BY DEF Init, PrazanRacun
  <2>2. \A m \in Mjesec : prijave[m].nalog = Nema /\ periodi[m] # "LOCKED"
    BY DEF Init, PraznaPrijava
  <2> QED
    BY <1>2, <2>1, <2>2 DEF TabeleOK, VezeRacuna, NaloziMjeseca, VezePrijava, Obuhvata
<1>4. ASSUME NEW r \in Zahtjev PROVE ZahtjevOK(r)
  <2>1. zahtjevi[r].pc = "miruje" /\ zahtjevi[r].ceka = <<>>
    BY DEF Init, Mirovanje
  <2> QED
    BY <2>1 DEF ZahtjevOK
<1> QED
  BY <1>1, <1>3, <1>4 DEF PdvInv

LEMMA PdvUvijek == Spec => [](PdvTipovi /\ PdvInv)
<1>1. Init => PdvTipovi /\ PdvInv
  BY PdvPocetak
<1>2. PdvTipovi /\ PdvInv /\ [Next]_vars => (PdvTipovi /\ PdvInv)'
  BY PdvKorak
<1> QED
  BY <1>1, <1>2, PTL DEF Spec

---------------------------------------------------------------------------
(* Theorems *)

\* Tables, row locks and requests hold what they are declared to hold.
THEOREM PdvUvijekTipovi == Spec => []PdvTipovi
BY PdvUvijek, PTL

\* Every entry of a locked month is, as it is now, in the version its lock archived:
\* every write of an entry passes the trigger of its month or its request holds the
\* year's row since it did.
THEOREM ArhivaUvijekObuhvata == Spec => []ArhivaObuhvata
<1>1. PdvTipovi /\ PdvInv => ArhivaObuhvata
  <2> SUFFICES ASSUME PdvInv, NEW m \in Mjesec, Zakljucan(m) PROVE Izvori(m) \subseteq arhiva[m]
    BY DEF ArhivaObuhvata
  <2>1. IzvoriU(racuni, m) \subseteq arhiva[m]
    BY DEF PdvInv, TabeleOK, Obuhvata, Zakljucan
  <2> QED
    BY <2>1, ZbiroviTabela
<1> QED
  BY <1>1, PdvUvijek, PTL

\* A book has at most one journal, and the journal of a return is the one it names.
THEOREM UvijekJedanNalog == Spec => []JedanNalog
<1>1. PdvTipovi /\ PdvInv => JedanNalog
  <2> SUFFICES ASSUME PdvInv, NEW m \in Mjesec
               PROVE  /\ Cardinality({n \in Nalog : /\ Postoji(n) /\ nalozi[n].vrsta = "KUF"
                                                    /\ nalozi[n].mjesec = m}) <= 1
                      /\ {n \in Nalog : /\ Postoji(n) /\ nalozi[n].vrsta = "PDV_RETURN"
                                        /\ nalozi[n].mjesec = m} \subseteq {prijave[m].nalog}
    BY DEF JedanNalog
  <2>1. PICK K : K = {n \in Nalog : /\ Postoji(n) /\ nalozi[n].vrsta = "KUF"
                                    /\ nalozi[n].mjesec = m}
    OBVIOUS
  <2>2. \A n, k \in K : n = k
    BY <2>1 DEF PdvInv, TabeleOK, NaloziMjeseca, Postoji, PostojiU
  <2>3. K = {} \/ \E x : K = {x}
    BY <2>2
  <2>4. Cardinality(K) <= 1
    <3>1. CASE K = {}
      <4>1. Cardinality(K) = 0
        BY <3>1, FS_EmptySet
      <4> QED
        BY <4>1
    <3>2. CASE \E x : K = {x}
      <4>1. PICK x : K = {x}
        BY <3>2
      <4>2. Cardinality(K) = 1
        BY <4>1, FS_Singleton
      <4> QED
        BY <4>2
    <3> QED
      BY <2>3, <3>1, <3>2
  <2>5. \A n \in Nalog : Postoji(n) /\ nalozi[n].vrsta = "PDV_RETURN" /\ nalozi[n].mjesec = m =>
          prijave[m].nalog = n
    BY DEF PdvInv, TabeleOK, VezePrijava, Postoji, PostojiU
  <2> QED
    BY <2>1, <2>4, <2>5
<1> QED
  BY <1>1, PdvUvijek, PTL

\* A month is locked only by PdvLock, which relies on what MutatePdv checked.
LEMMA SamoPdvLock ==
  ASSUME PdvTipovi, PdvInv, [Next]_vars, NEW m \in Mjesec, ~Zakljucan(m), Zakljucan(m)'
  PROVE  Usaglasen(racuni, nalozi, prijave, m)
<1>1. periodi' # periodi
  BY DEF Zakljucan
<1>2. PICK r \in Zahtjev : PdvLock(r) \/ PdvReopen(r)
  <2>1. ASSUME NEW r \in Zahtjev, NoviZahtjev(r) PROVE FALSE
    BY <1>1, <2>1 DEF NoviZahtjev, CreateKufEntry, UpdateKufEntry, DeleteKufEntry, PostBook,
         PostJournal, ReopenJournal, DeleteJournal, MutatePdv, Nastavi, Pocni, tabele
  <2>2. ASSUME NEW r \in Zahtjev, Nastavak(r), ~PdvLock(r), ~PdvReopen(r) PROVE FALSE
    BY <1>1, <2>2 DEF Nastavak, UpdateKufEntryWrite, DeleteKufEntryWrite, PostBookWrite,
         ReopenJournalWrite, DeleteJournalEntries, DeleteJournalWrite, PdvRefresh, PdvSave,
         PdvPost, Zakljucaj, Prekini, Odustani, Nastavi, tabele
  <2> QED
    BY <1>1, <2>1, <2>2 DEF Next, ToggleYear, vars
<1>3. PICK z : z = zahtjevi[r]
  OBVIOUS
<1>4. MijenjaPdv(r)
  BY <1>2 DEF PdvInv, ZahtjevOK, PdvLock, PdvReopen, Spreman
<1>5. z.mjesec \in Mjesec /\ (z.op = "lock" => Usaglasen(racuni, nalozi, prijave, z.mjesec))
  BY <1>3, <1>4 DEF MijenjaPdv
<1>6. PdvLock(r) /\ z.mjesec = m
  <2>1. CASE PdvReopen(r)
    <3>1. periodi' = [periodi EXCEPT ![z.mjesec] = "REOPENED"]
      BY <1>3, <2>1 DEF PdvReopen
    <3> QED
      BY <3>1 DEF PdvTipovi, Zakljucan
  <2>2. CASE PdvLock(r)
    <3>1. periodi' = [periodi EXCEPT ![z.mjesec] = "LOCKED"]
      BY <1>3, <2>2 DEF PdvLock
    <3> QED
      BY <2>2, <3>1 DEF PdvTipovi, Zakljucan
  <2> QED
    BY <1>2, <2>1, <2>2
<1> QED
  BY <1>3, <1>5, <1>6 DEF PdvLock

\* A month that is being locked agrees with the ledger: its entries are in posted
\* journals, the VAT accounts turn over the entries' VAT and so does the return.
THEOREM ZakljucavaSeUsaglaseno == Spec => ZakljucavaUsaglaseno
<1>1. PdvTipovi /\ PdvInv /\ [Next]_vars =>
        [\A m \in Mjesec : ~Zakljucan(m) /\ Zakljucan(m)' =>
          /\ \A e \in Racuni(m) : Proknjizen(racuni[e].nalog)
          /\ Promet(m) = ZbirPdv(m) /\ prijave[m].iznos = ZbirPdv(m)
          /\ IF prijave[m].nalog = Nema THEN ZbirPdv(m) = 0
             ELSE Proknjizen(prijave[m].nalog) /\ Iznos(prijave[m].nalog) = ZbirPdv(m)]_vars
  <2> SUFFICES ASSUME PdvTipovi, PdvInv, [Next]_vars, NEW m \in Mjesec,
                      ~Zakljucan(m), Zakljucan(m)'
               PROVE  /\ \A e \in Racuni(m) : Proknjizen(racuni[e].nalog)
                      /\ Promet(m) = ZbirPdv(m) /\ prijave[m].iznos = ZbirPdv(m)
                      /\ IF prijave[m].nalog = Nema THEN ZbirPdv(m) = 0
                         ELSE /\ Proknjizen(prijave[m].nalog)
                              /\ Iznos(prijave[m].nalog) = ZbirPdv(m)
    OBVIOUS
  <2>1. Usaglasen(racuni, nalozi, prijave, m)
    BY SamoPdvLock
  <2>2. PICK n : n = prijave[m].nalog
    OBVIOUS
  <2>3. /\ \A e \in Racun : racuni[e].mjesec = m => ProknjizenU(nalozi, racuni[e].nalog)
        /\ PrometU(nalozi, m) = ZbirU(racuni, m) /\ prijave[m].iznos = ZbirU(racuni, m)
        /\ IF n = Nema THEN ZbirU(racuni, m) = 0
           ELSE ProknjizenU(nalozi, n) /\ IznosU(nalozi, n) = ZbirU(racuni, m)
    BY <2>1, <2>2 DEF Usaglasen
  <2>4. /\ ZbirPdv(m) = ZbirU(racuni, m) /\ Promet(m) = PrometU(nalozi, m)
        /\ Iznos(n) = IznosU(nalozi, n)
    BY ZbiroviTabela
  <2>5. \A e \in Racuni(m) : Proknjizen(racuni[e].nalog)
    BY <2>3 DEF Racuni, Proknjizen, ProknjizenU
  <2>6. Promet(m) = ZbirPdv(m) /\ prijave[m].iznos = ZbirPdv(m)
    BY <2>3, <2>4
  <2>7. IF n = Nema THEN ZbirPdv(m) = 0 ELSE Proknjizen(n) /\ Iznos(n) = ZbirPdv(m)
    BY <2>3, <2>4 DEF Proknjizen, ProknjizenU
  <2> QED
    BY <2>2, <2>5, <2>6, <2>7
<1> QED
  BY <1>1, PdvUvijek, PTL DEF Spec, ZakljucavaUsaglaseno

\* In a closed year no VAT row changes: a request that writes has checked the year
\* since it holds its row, or writes on a snapshot that is not old.
THEOREM ZakljucenaUvijekMiruje == Spec => ZakljucenaGodinaMiruje
<1>1. PdvTipovi /\ PdvInv /\ [Next]_vars =>
        [zakljucena => UNCHANGED <<periodi, racuni, nalozi, prijave, arhiva>>]_vars
  <2> SUFFICES ASSUME PdvTipovi, PdvInv, [Next]_vars, zakljucena
               PROVE  UNCHANGED <<periodi, racuni, nalozi, prijave, arhiva>>
    OBVIOUS
  <2>1. ASSUME NEW r \in Zahtjev, NoviZahtjev(r) \/ Nastavak(r)
        PROVE  UNCHANGED <<periodi, racuni, nalozi, prijave, arhiva>>
    BY <2>1, KorakZahtjeva DEF tabele
  <2> QED
    BY <2>1 DEF Next, ToggleYear, vars
<1> QED
  BY <1>1, PdvUvijek, PTL DEF Spec, ZakljucenaGodinaMiruje

=============================================================================
