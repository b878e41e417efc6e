------------------------------- MODULE MCSep -------------------------------
(* Two processes, invoices of the first and of the last day of a month, three days.  A
   user calls one operation, whichever it is, or a pair of which the second needs the
   first. *)
EXTENDS Sep, TLC

CONSTANTS p1, p2, r1, r2, v1, v2

MCProces == {p1, p2}
MCVrsta == {v1, v2}
MCIzdat == [r \in Racun |-> IF r = r1 THEN 1 ELSE 2]
MCTokovi ==
  {<<>>} \cup {<<op>> : op \in {"unesi", "obrisi", "uvezi", "knjizi", "reopen", "zatvori", "podesi",
                              "ponovi"}}
  \cup {<<"reopen", "delete">>, <<"reopen", "post">>, <<"reopen", "delete", "zatvori">>}
\* The kinds are alike, so one of them is set at the start.
InitPrve == Init /\ podesavanje.vrsta = v1
SpecPrve == InitPrve /\ [][Next]_vars /\ Pravicnost
=============================================================================
