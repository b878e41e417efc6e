-------------------------- MODULE OtvoreneStavke --------------------------
(***************************************************************************)
(* What the ledger promises about open items, whatever its requests do in  *)
(* between: lines appear, change and go only while no settlement or carry  *)
(* names them; a settlement only ties what is open, and ties it correctly; *)
(* a settlement once made stays until it is cancelled.                     *)
(***************************************************************************)
EXTENDS Integers, Plan

VARIABLES
  knjiga,       \* the lines of posted journals, with their journal's date
  zatvoreno,    \* the settlements in force
  preneseno     \* the lines carried into a later year

vars == <<knjiga, zatvoreno, preneseno>>

Init == zatvoreno = {} /\ preneseno = {}

\* The settlements of V that line s takes part in.
Od(s, V) == {v \in V : s \in {v.d, v.p}}
Imenovana(s) == Od(s, zatvoreno) # {} \/ s \in preneseno

\* v ties two lines of one card, neither dated later than v.
Vezuje(v) ==
  /\ {v.d, v.p} \subseteq DOMAIN knjiga
  /\ knjiga[v.d].kartica = knjiga[v.p].kartica
  /\ knjiga[v.d].datum <= v.datum /\ knjiga[v.p].datum <= v.datum

\* New settlements are made together, out of what they leave of each line.
Zatvori ==
  /\ \E nove \in SUBSET zatvoreno' :
       /\ zatvoreno' = zatvoreno \cup nove
       /\ \A v \in nove :
            /\ Vezuje(v)
            /\ \A s \in {v.d, v.p} :
                 ZbirIznosa(Od(s, zatvoreno)) + ZbirIznosa(Od(s, nove))
                   <= Apsolutno(knjiga[s].iznos)
  /\ UNCHANGED <<knjiga, preneseno>>

Ponisti == zatvoreno' \subseteq zatvoreno /\ UNCHANGED <<knjiga, preneseno>>

\* Posted lines are carried.
Prenesi ==
  /\ preneseno \subseteq preneseno'
  /\ preneseno' \ preneseno \subseteq DOMAIN knjiga
  /\ UNCHANGED <<knjiga, zatvoreno>>

\* Journals are posted, reopened, changed and deleted around the named lines;
\* what a deleted journal carried is no longer carried.
Knjizi ==
  /\ \A s \in DOMAIN knjiga : Imenovana(s) =>
       s \in DOMAIN knjiga' /\ knjiga'[s] = knjiga[s]
  /\ preneseno' \subseteq preneseno
  /\ UNCHANGED zatvoreno

Next == Zatvori \/ Ponisti \/ Prenesi \/ Knjizi
Spec == Init /\ [][Next]_vars
=============================================================================
