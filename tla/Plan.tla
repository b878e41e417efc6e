------------------------------- MODULE Plan -------------------------------
(***************************************************************************)
(* The two settlement proposals of lib/settlement-plan.ts as functions of  *)
(* the open items.  An item has an id, a card (account and partner), a     *)
(* date and a signed remaining amount: a debit is positive.                *)
(***************************************************************************)
EXTENDS Integers, FiniteSets, FiniteSetsExt

Apsolutno(x) == IF x < 0 THEN -x ELSE x
ZbirIznosa(V) == MapThenSumSet(LAMBDA v : v.iznos, V)

\* exactSettlementPlan: pairs that match each other and nothing else.
PlanTacno(items) ==
  LET cand == {i \in items : i.preostalo # 0}
      Parnjaci(i) == {j \in cand : i.kartica = j.kartica /\ i.preostalo = -j.preostalo}
  IN UNION {{[d |-> i.id, p |-> j.id, iznos |-> i.preostalo] :
               j \in {j \in Parnjaci(i) : /\ Cardinality(Parnjaci(i)) = 1
                                          /\ Cardinality(Parnjaci(j)) = 1}} :
            i \in {i \in cand : i.preostalo > 0}}

\* The order both sides are sorted in: by date, then by id.
Starija(i, j) == i.datum < j.datum \/ (i.datum = j.datum /\ i.id < j.id)

\* oldestSettlementPlan: both sides of a card laid end to end, oldest first; a
\* pair settles the length by which its two intervals overlap.
PlanPoStarosti(items) ==
  LET Prije(i) == MapThenSumSet(LAMBDA j : Apsolutno(j.preostalo),
                    {j \in items : /\ j.kartica = i.kartica
                                   /\ (j.preostalo > 0) = (i.preostalo > 0)
                                   /\ Starija(j, i)})
      Kraj(i) == Prije(i) + Apsolutno(i.preostalo)
      Preklop(i, j) == Min({Kraj(i), Kraj(j)}) - Max({Prije(i), Prije(j)})
      parovi == {ij \in {i \in items : i.preostalo > 0} \X {j \in items : j.preostalo < 0} :
                   ij[1].kartica = ij[2].kartica /\ Preklop(ij[1], ij[2]) > 0}
  IN {[d |-> ij[1].id, p |-> ij[2].id, iznos |-> Preklop(ij[1], ij[2])] : ij \in parovi}
=============================================================================
