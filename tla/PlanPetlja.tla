----------------------------- MODULE PlanPetlja -----------------------------
(***************************************************************************)
(* The nested loops of oldestSettlementPlan, one pair of items at a time:  *)
(* the remaining amounts of the copied items change under the loops, and   *)
(* the sides are filtered by sign from those amounts, the debits once and  *)
(* the credits anew for every debit.  A filtered array keeps the order of  *)
(* `sorted`, which is total and compares what the loops never change, so a *)
(* for..of over it visits the oldest item not yet visited.  What the loops *)
(* return is compared with Plan's definition, which the ledger's model     *)
(* uses.                                                                   *)
(***************************************************************************)
EXTENDS Plan

CONSTANTS
  Stavke,       \* ids of items
  Kartice,      \* (account, partner) pairs
  Datumi,       \* dates
  NajviseIznos  \* the largest absolute amount

ASSUME PlanPetljaPretpostavke ==
  /\ Stavke \subseteq Nat /\ IsFiniteSet(Stavke)
  /\ Datumi \subseteq Nat /\ NajviseIznos \in Nat

VARIABLES
  ulaz,         \* the items the caller passed
  preostalo,    \* remainingCents of the copies the loops change
  duguje,       \* the debits still to be visited, the current one included
  potrazuje,    \* the credits still to be visited for the current debit
  rezultat      \* the pairs pushed so far

petlja == <<ulaz, preostalo, duguje, potrazuje, rezultat>>

StavkaUlaza(i, k, d, x) == [id |-> i, kartica |-> k, datum |-> d, preostalo |-> x]
Najstarija(S) == CHOOSE i \in S : \A j \in S \ {i} : Starija(i, j)

\* Mutant: credits of every partner are offered to a debit.
PotrazivaSvih(d) == {j \in ulaz : preostalo[j.id] < 0}
Potraziva(d) == {j \in ulaz : preostalo[j.id] < 0 /\ j.kartica = d.kartica}

PetljaInit ==
  /\ \E f \in [Stavke -> Kartice \X Datumi \X (-NajviseIznos .. NajviseIznos)] :
       ulaz = {StavkaUlaza(i, f[i][1], f[i][2], f[i][3]) : i \in Stavke}
  /\ preostalo = [i \in Stavke |-> (CHOOSE x \in ulaz : x.id = i).preostalo]
  /\ duguje = {i \in ulaz : i.preostalo > 0}
  /\ potrazuje = IF duguje = {} THEN {} ELSE Potraziva(Najstarija(duguje))
  /\ rezultat = {}

\* The inner loop's body.
Par ==
  /\ duguje # {} /\ potrazuje # {}
  /\ LET d == Najstarija(duguje)
         c == Najstarija(potrazuje)
         cents == Min({preostalo[d.id], -preostalo[c.id]})
     IN /\ IF cents <= 0
           THEN UNCHANGED <<preostalo, rezultat>>
           ELSE /\ rezultat' = rezultat \cup {[d |-> d.id, p |-> c.id, iznos |-> cents]}
                /\ preostalo' = [preostalo EXCEPT ![d.id] = @ - cents, ![c.id] = @ + cents]
        /\ potrazuje' = potrazuje \ {c}
  /\ UNCHANGED <<ulaz, duguje>>

\* The outer loop goes on to the next debit, whose credits are filtered now.
SljedeciDug ==
  /\ duguje # {} /\ potrazuje = {}
  /\ duguje' = duguje \ {Najstarija(duguje)}
  /\ potrazuje' = IF duguje' = {} THEN {} ELSE Potraziva(Najstarija(duguje'))
  /\ UNCHANGED <<ulaz, preostalo, rezultat>>

PetljaNext == Par \/ SljedeciDug
PetljaSpec == PetljaInit /\ [][PetljaNext]_petlja

---------------------------------------------------------------------------
(* Properties *)

Gotovo == duguje = {}

\* What the loops of oldestSettlementPlan return is the plan in which every
\* card's debits and credits, laid end to end oldest first, overlap.
VracaPlanPoStarosti == Gotovo => rezultat = PlanPoStarosti(ulaz)

=============================================================================
