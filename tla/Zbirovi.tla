------------------------------ MODULE Zbirovi ------------------------------
(***************************************************************************)
(* Sums over finite sets as MapThenFoldSet computes them, one chosen       *)
(* element after another: that the recursive function exists, that the     *)
(* order does not matter, and how sums over parts and unions compare.      *)
(* Each fact is shown on a least subset that would violate it.             *)
(***************************************************************************)
EXTENDS Integers, FiniteSets, FiniteSetTheorems, WellFoundedInduction, TLAPS

\* A non-empty collection of subsets of a finite set has a least one.
LEMMA NajmanjiPodskup ==
  ASSUME NEW S, IsFiniteSet(S), NEW T \in SUBSET SUBSET S, T # {}
  PROVE  \E m \in T : \A t \in T : t \subseteq m => t = m
<1>1. T \subseteq FiniteSubsetsOf(S)
  BY FS_Subset DEF FiniteSubsetsOf
<1>2. IsWellFoundedOn(StrictSubsetOrdering(S), FiniteSubsetsOf(S))
  BY FS_StrictSubsetOrderingWellFounded
<1>3. PICK m \in T : \A t \in T : ~(<<t, m>> \in StrictSubsetOrdering(S))
  BY <1>1, <1>2, WFMin
<1> QED
  BY <1>3 DEF StrictSubsetOrdering

Izabran(s) == CHOOSE x \in s : TRUE

\* g sums f over every subset of S, taking the chosen element first.
JeZbir(g, f, S) ==
  g = [s \in SUBSET S |-> IF s = {} THEN 0 ELSE f[Izabran(s)] + g[s \ {Izabran(s)}]]

ZbirNad(f, S) == (CHOOSE g : JeZbir(g, f, S))[S]

\* The element that a sum takes first is one of its set.
LEMMA IzabranJeElement == ASSUME NEW s, s # {} PROVE Izabran(s) \in s
BY DEF Izabran

\* The recursion that JeZbir states, at one subset.
LEMMA ZbirPodskupa ==
  ASSUME NEW f, NEW S, NEW g, JeZbir(g, f, S), NEW t \in SUBSET S
  PROVE  g[t] = IF t = {} THEN 0 ELSE f[Izabran(t)] + g[t \ {Izabran(t)}]
<1> DEFINE k == [s \in SUBSET S |-> IF s = {} THEN 0 ELSE f[Izabran(s)] + g[s \ {Izabran(s)}]]
<1>1. g = k
  BY DEF JeZbir
<1>2. k[t] = IF t = {} THEN 0 ELSE f[Izabran(t)] + g[t \ {Izabran(t)}]
  OBVIOUS
<1> HIDE DEF k
<1> QED
  BY <1>1, <1>2

\* Two such functions agree wherever both are defined.
LEMMA ZbirJedinstven ==
  ASSUME NEW f, NEW A, NEW B, IsFiniteSet(A), NEW g, NEW h, JeZbir(g, f, A), JeZbir(h, f, B)
  PROVE  \A w \in SUBSET (A \cap B) : g[w] = h[w]
<1> DEFINE T == {w \in SUBSET (A \cap B) : g[w] # h[w]}
<1>1. SUFFICES ASSUME T # {} PROVE FALSE
  OBVIOUS
<1>2. PICK w \in T : \A t \in T : t \subseteq w => t = w
  <2>1. T \in SUBSET SUBSET (A \cap B) /\ IsFiniteSet(A \cap B)
    BY FS_Subset
  <2> HIDE DEF T
  <2> QED
    BY <1>1, <2>1, NajmanjiPodskup
<1>3. \A t \in SUBSET (A \cap B) :
        /\ g[t] = IF t = {} THEN 0 ELSE f[Izabran(t)] + g[t \ {Izabran(t)}]
        /\ h[t] = IF t = {} THEN 0 ELSE f[Izabran(t)] + h[t \ {Izabran(t)}]
  BY ZbirPodskupa
<1>4. w # {}
  BY <1>2, <1>3
<1>5. g[w \ {Izabran(w)}] = h[w \ {Izabran(w)}]
  BY <1>2, <1>4, IzabranJeElement
<1> QED
  BY <1>2, <1>3, <1>4, <1>5

\* The sum does not depend on the function that CHOOSE picks.
LEMMA ZbirJe ==
  ASSUME NEW f, NEW S, IsFiniteSet(S), NEW g, JeZbir(g, f, S)
  PROVE  ZbirNad(f, S) = g[S]
<1>1. JeZbir(CHOOSE h : JeZbir(h, f, S), f, S)
  OBVIOUS
<1> QED
  BY <1>1, ZbirJedinstven DEF ZbirNad

\* The function that recursion over the subsets defines exists.
LEMMA PostojiZbir ==
  ASSUME NEW f, NEW S, IsFiniteSet(S)
  PROVE  \E g : JeZbir(g, f, S)
<1> DEFINE T == {w \in SUBSET S : ~\E g : JeZbir(g, f, w)}
<1>1. SUFFICES ASSUME T # {} PROVE FALSE
  OBVIOUS
<1>2. PICK m \in T : \A t \in T : t \subseteq m => t = m
  <2>1. T \in SUBSET SUBSET S
    OBVIOUS
  <2> HIDE DEF T
  <2> QED
    BY <1>1, <2>1, NajmanjiPodskup
<1>3. ASSUME NEW t \in SUBSET m, t # m PROVE \E g : JeZbir(g, f, t) /\ ZbirNad(f, t) = g[t]
  <2>1. t \notin T /\ t \in SUBSET S /\ IsFiniteSet(t)
    BY <1>2, <1>3, FS_Subset
  <2> QED
    BY <2>1, ZbirJe
<1>4. ASSUME NEW t \in SUBSET m, t # m
      PROVE  ZbirNad(f, t) = IF t = {} THEN 0 ELSE f[Izabran(t)] + ZbirNad(f, t \ {Izabran(t)})
  <2>1. PICK g : JeZbir(g, f, t) /\ ZbirNad(f, t) = g[t]
    BY <1>3, <1>4
  <2>2. ZbirNad(f, t) = IF t = {} THEN 0 ELSE f[Izabran(t)] + g[t \ {Izabran(t)}]
    BY <2>1, ZbirPodskupa
  <2>3. ASSUME t # {} PROVE g[t \ {Izabran(t)}] = ZbirNad(f, t \ {Izabran(t)})
    <3>1. PICK u : u = t \ {Izabran(t)}
      OBVIOUS
    <3>2. u \in SUBSET m /\ u # m /\ u \subseteq t
      BY <1>4, <2>3, <3>1, IzabranJeElement
    <3>3. PICK h : JeZbir(h, f, u) /\ ZbirNad(f, u) = h[u]
      BY <1>3, <3>2
    <3>4. IsFiniteSet(t) /\ u \in SUBSET (t \cap u)
      BY <1>2, <1>4, <3>2, FS_Subset
    <3> QED
      BY <2>1, <3>1, <3>3, <3>4, ZbirJedinstven
  <2> QED
    BY <2>2, <2>3
<1> DEFINE h == [t \in SUBSET m |-> IF t = {} THEN 0
                                   ELSE f[Izabran(t)] + ZbirNad(f, t \ {Izabran(t)})]
<1>5. ASSUME NEW t \in SUBSET m, t # {} PROVE h[t \ {Izabran(t)}] = ZbirNad(f, t \ {Izabran(t)})
  <2>1. PICK u : u = t \ {Izabran(t)}
    OBVIOUS
  <2>2. u \in SUBSET m /\ u # m
    BY <1>5, <2>1, IzabranJeElement
  <2> QED
    BY <1>4, <2>1, <2>2
<1>6. h = [t \in SUBSET m |-> IF t = {} THEN 0 ELSE f[Izabran(t)] + h[t \ {Izabran(t)}]]
  BY <1>5
<1>7. JeZbir(h, f, m)
  BY <1>6 DEF JeZbir
<1> QED
  BY <1>2, <1>7

\* What a sum is.
LEMMA ZbirPoElementu ==
  ASSUME NEW f, NEW S, IsFiniteSet(S)
  PROVE  ZbirNad(f, S) = IF S = {} THEN 0 ELSE f[Izabran(S)] + ZbirNad(f, S \ {Izabran(S)})
<1>1. PICK g : JeZbir(g, f, S)
  BY PostojiZbir
<1>2. ZbirNad(f, S) = g[S]
  BY <1>1, ZbirJe
<1>3. g[S] = IF S = {} THEN 0 ELSE f[Izabran(S)] + g[S \ {Izabran(S)}]
  BY <1>1, ZbirPodskupa
<1>4. PICK u : u = S \ {Izabran(S)} /\ u \subseteq S /\ IsFiniteSet(u)
  BY FS_Subset
<1>5. PICK h : JeZbir(h, f, u) /\ ZbirNad(f, u) = h[u]
  BY <1>4, PostojiZbir, ZbirJe
<1>6. g[u] = h[u]
  BY <1>1, <1>4, <1>5, ZbirJedinstven
<1> QED
  BY <1>2, <1>3, <1>4, <1>5, <1>6

\* The empty sum.
LEMMA ZbirPraznog == ASSUME NEW f PROVE ZbirNad(f, {}) = 0
BY ZbirPoElementu, FS_EmptySet

\* Sums of integers are integers, of naturals naturals.
LEMMA ZbirCio ==
  ASSUME NEW f, NEW S, IsFiniteSet(S), NEW D \in {Int, Nat}, \A x \in S : f[x] \in D
  PROVE  ZbirNad(f, S) \in D
<1> DEFINE T == {w \in SUBSET S : ZbirNad(f, w) \notin D}
<1>1. SUFFICES ASSUME T # {} PROVE FALSE
  OBVIOUS
<1>2. PICK m \in T : \A t \in T : t \subseteq m => t = m
  <2>1. T \in SUBSET SUBSET S
    OBVIOUS
  <2> HIDE DEF T
  <2> QED
    BY <1>1, <2>1, NajmanjiPodskup
<1>3. PICK u, c : u = m \ {c} /\ c = Izabran(m)
  OBVIOUS
<1>4. ZbirNad(f, m) = IF m = {} THEN 0 ELSE f[c] + ZbirNad(f, u)
  BY <1>2, <1>3, FS_Subset, ZbirPoElementu
<1>5. m # {} => c \in m /\ u \subseteq m /\ u # m
  BY <1>3, IzabranJeElement
<1>6. m # {} => f[c] \in D /\ ZbirNad(f, u) \in D
  BY <1>2, <1>5
<1>7. ZbirNad(f, m) \in D
  BY <1>4, <1>6
<1> QED
  BY <1>2, <1>7

\* Any element may be taken first.
LEMMA ZbirBezElementa ==
  ASSUME NEW f, NEW S, IsFiniteSet(S), \A x \in S : f[x] \in Int, NEW y \in S
  PROVE  ZbirNad(f, S) = f[y] + ZbirNad(f, S \ {y})
<1> DEFINE T == {w \in SUBSET S : \E x \in w : ZbirNad(f, w) # f[x] + ZbirNad(f, w \ {x})}
<1>1. SUFFICES ASSUME T # {} PROVE FALSE
  OBVIOUS
<1>2. PICK m \in T : \A t \in T : t \subseteq m => t = m
  <2>1. T \in SUBSET SUBSET S
    OBVIOUS
  <2> HIDE DEF T
  <2> QED
    BY <1>1, <2>1, NajmanjiPodskup
<1>3. PICK x \in m : ZbirNad(f, m) # f[x] + ZbirNad(f, m \ {x})
  BY <1>2
<1>4. PICK c : c = Izabran(m)
  OBVIOUS
<1>5. c \in m /\ ZbirNad(f, m) = f[c] + ZbirNad(f, m \ {c})
  BY <1>2, <1>3, <1>4, FS_Subset, ZbirPoElementu, IzabranJeElement
<1>6. x # c
  BY <1>3, <1>5
<1>7. PICK bezC, bezX, bez : /\ bezC = m \ {c} /\ bezX = m \ {x} /\ bez = m \ {c, x}
                             /\ bez = bezC \ {x} /\ bez = bezX \ {c}
  <2>1. m \ {c, x} = (m \ {c}) \ {x} /\ m \ {c, x} = (m \ {x}) \ {c}
    OBVIOUS
  <2> QED
    BY <2>1
<1>8. ZbirNad(f, bezC) = f[x] + ZbirNad(f, bez)
  <2>1. bezC \notin T /\ bezC \in SUBSET S /\ x \in bezC
    BY <1>2, <1>3, <1>5, <1>6, <1>7
  <2> QED
    BY <1>7, <2>1
<1>9. ZbirNad(f, bezX) = f[c] + ZbirNad(f, bez)
  <2>1. bezX \notin T /\ bezX \in SUBSET S /\ c \in bezX
    BY <1>2, <1>3, <1>5, <1>6, <1>7
  <2> QED
    BY <1>7, <2>1
<1>10. f[x] \in Int /\ f[c] \in Int
  BY <1>2, <1>5
<1>11. ZbirNad(f, bez) \in Int
  BY <1>2, <1>7, FS_Subset, ZbirCio
<1>12. ZbirNad(f, m) = f[x] + ZbirNad(f, bezX)
  BY <1>5, <1>7, <1>8, <1>9, <1>10, <1>11
<1> QED
  BY <1>3, <1>7, <1>12

\* Functions that agree on S have the same sum over it.
LEMMA ZbirJednakih ==
  ASSUME NEW f, NEW g, NEW S, IsFiniteSet(S), \A x \in S : f[x] = g[x]
  PROVE  ZbirNad(f, S) = ZbirNad(g, S)
<1> DEFINE T == {w \in SUBSET S : ZbirNad(f, w) # ZbirNad(g, w)}
<1>1. SUFFICES ASSUME T # {} PROVE FALSE
  OBVIOUS
<1>2. PICK m \in T : \A t \in T : t \subseteq m => t = m
  <2>1. T \in SUBSET SUBSET S
    OBVIOUS
  <2> HIDE DEF T
  <2> QED
    BY <1>1, <2>1, NajmanjiPodskup
<1>3. PICK u, c : u = m \ {c} /\ c = Izabran(m)
  OBVIOUS
<1>4. /\ ZbirNad(f, m) = IF m = {} THEN 0 ELSE f[c] + ZbirNad(f, u)
      /\ ZbirNad(g, m) = IF m = {} THEN 0 ELSE g[c] + ZbirNad(g, u)
  BY <1>2, <1>3, FS_Subset, ZbirPoElementu
<1>5. m # {} => c \in m /\ u \subseteq m /\ u # m
  BY <1>3, IzabranJeElement
<1>6. m # {} => f[c] = g[c] /\ ZbirNad(f, u) = ZbirNad(g, u)
  BY <1>2, <1>5
<1> QED
  BY <1>2, <1>4, <1>6

\* The sum over one element.
LEMMA ZbirJednog ==
  ASSUME NEW f, NEW x, f[x] \in Int
  PROVE  ZbirNad(f, {x}) = f[x]
<1>1. {x} \ {x} = {}
  OBVIOUS
<1>2. ZbirNad(f, {x}) = f[x] + ZbirNad(f, {x} \ {x})
  BY ZbirBezElementa, FS_Singleton
<1> QED
  BY <1>1, <1>2, ZbirPraznog

\* The sum of naturals over a union is no larger than the two sums together.
LEMMA ZbirUnije ==
  ASSUME NEW f, NEW A, NEW B, IsFiniteSet(A), IsFiniteSet(B), \A x \in A \cup B : f[x] \in Nat
  PROVE  ZbirNad(f, A \cup B) <= ZbirNad(f, A) + ZbirNad(f, B)
<1> DEFINE T == {w \in SUBSET A : ~(ZbirNad(f, w \cup B) <= ZbirNad(f, w) + ZbirNad(f, B))}
<1>1. SUFFICES ASSUME T # {} PROVE FALSE
  OBVIOUS
<1>2. PICK m \in T : \A t \in T : t \subseteq m => t = m
  <2>1. T \in SUBSET SUBSET A
    OBVIOUS
  <2> HIDE DEF T
  <2> QED
    BY <1>1, <2>1, NajmanjiPodskup
<1>3. /\ ZbirNad(f, B) \in Nat /\ IsFiniteSet(m) /\ IsFiniteSet(m \cup B)
      /\ \A w \in SUBSET A : ZbirNad(f, w) \in Nat /\ ZbirNad(f, w \cup B) \in Nat
  BY <1>2, FS_Subset, FS_Union, ZbirCio
<1>4. m # {}
  <2>1. SUFFICES ASSUME m = {} PROVE FALSE
    OBVIOUS
  <2>2. m \cup B = B
    BY <2>1
  <2>3. ZbirNad(f, m \cup B) = ZbirNad(f, B)
    BY <2>2, Zenon
  <2>4. ZbirNad(f, m) = 0
    BY <2>1, ZbirPraznog
  <2> QED
    BY <1>2, <1>3, <2>3, <2>4
<1>5. PICK c \in m : TRUE
  BY <1>4
<1>6. PICK u : u = m \ {c}
  OBVIOUS
<1>7. u \in SUBSET A /\ ZbirNad(f, u \cup B) <= ZbirNad(f, u) + ZbirNad(f, B)
  BY <1>2, <1>6
<1>8. ZbirNad(f, m) = f[c] + ZbirNad(f, u) /\ f[c] \in Nat
  BY <1>2, <1>3, <1>6, ZbirBezElementa
<1>9. ZbirNad(f, m \cup B) <= f[c] + ZbirNad(f, u \cup B)
  <2>1. CASE c \in B
    <3>1. m \cup B = u \cup B
      BY <1>6, <2>1
    <3>2. ZbirNad(f, u \cup B) \in Nat
      BY <1>3, <1>7
    <3>3. ZbirNad(f, m \cup B) = ZbirNad(f, u \cup B)
      BY <3>1, Zenon
    <3> QED
      BY <1>8, <3>2, <3>3
  <2>2. CASE c \notin B
    <3>1. c \in m \cup B /\ (m \cup B) \ {c} = u \cup B
      BY <1>6, <2>2
    <3>2. \A x \in m \cup B : f[x] \in Int
      BY <1>2
    <3>3. ZbirNad(f, m \cup B) = f[c] + ZbirNad(f, u \cup B)
      BY <1>3, <3>1, <3>2, ZbirBezElementa
    <3> QED
      BY <1>3, <1>7, <1>8, <3>3
  <2> QED
    BY <2>1, <2>2
<1> QED
  BY <1>2, <1>3, <1>7, <1>8, <1>9

\* The sum of naturals over a part of a set is no larger than over the set.
LEMMA ZbirDijela ==
  ASSUME NEW f, NEW A, NEW B, IsFiniteSet(B), A \subseteq B, \A x \in B : f[x] \in Nat
  PROVE  ZbirNad(f, A) <= ZbirNad(f, B)
<1> DEFINE T == {w \in SUBSET B : A \subseteq w /\ ~(ZbirNad(f, A) <= ZbirNad(f, w))}
<1>1. SUFFICES ASSUME T # {} PROVE FALSE
  OBVIOUS
<1>2. PICK m \in T : \A t \in T : t \subseteq m => t = m
  <2>1. T \in SUBSET SUBSET B
    OBVIOUS
  <2> HIDE DEF T
  <2> QED
    BY <1>1, <2>1, NajmanjiPodskup
<1>3. \A w \in SUBSET B : IsFiniteSet(w) /\ ZbirNad(f, w) \in Nat
  BY FS_Subset, ZbirCio
<1>4. m # A
  BY <1>2, <1>3
<1>5. PICK c \in m : c \notin A
  BY <1>2, <1>4
<1>6. PICK u : u = m \ {c}
  OBVIOUS
<1>7. u \in SUBSET B /\ ZbirNad(f, A) <= ZbirNad(f, u)
  BY <1>2, <1>5, <1>6
<1>8. ZbirNad(f, m) = f[c] + ZbirNad(f, u) /\ f[c] \in Nat
  BY <1>2, <1>3, <1>5, <1>6, ZbirBezElementa
<1> QED
  BY <1>2, <1>3, <1>7, <1>8

\* A sum of zeros.
LEMMA ZbirNula ==
  ASSUME NEW f, NEW S, IsFiniteSet(S), \A x \in S : f[x] = 0
  PROVE  ZbirNad(f, S) = 0
<1> DEFINE T == {w \in SUBSET S : ZbirNad(f, w) # 0}
<1>1. SUFFICES ASSUME T # {} PROVE FALSE
  OBVIOUS
<1>2. PICK m \in T : \A t \in T : t \subseteq m => t = m
  <2>1. T \in SUBSET SUBSET S
    OBVIOUS
  <2> HIDE DEF T
  <2> QED
    BY <1>1, <2>1, NajmanjiPodskup
<1>3. IsFiniteSet(m) /\ m # {}
  BY <1>2, FS_Subset, ZbirPraznog
<1>4. PICK c : c = Izabran(m)
  OBVIOUS
<1>5. PICK u : u = m \ {c}
  OBVIOUS
<1>6. ZbirNad(f, m) = f[c] + ZbirNad(f, u)
  BY <1>3, <1>4, <1>5, ZbirPoElementu
<1>7. c \in m /\ u \in SUBSET S /\ u \subseteq m /\ u # m
  BY <1>2, <1>3, <1>4, <1>5, IzabranJeElement
<1>8. ZbirNad(f, u) = 0 /\ f[c] = 0
  BY <1>2, <1>7
<1> QED
  BY <1>2, <1>6, <1>8
=============================================================================
