--------------------------- MODULE MCDashboardCache ---------------------------
(* Model-checking instance of DashboardCache.  The changes are made to what  *)
(* the readers ask for, and it does not matter which writer makes which; a   *)
(* reader asks for both endpoints of the dashboard only beside a change that *)
(* nobody is told of, which is what the layers hide longest.                 *)
EXTENDS DashboardCache

Kinds == <<"plain", "transaction", "catalogue", "unobserved">>

InOrder(plans) ==
    LET first == CHOOSE w \in Writers : TRUE
        Rank(w) == CHOOSE i \in DOMAIN Kinds : Kinds[i] = plans[w].kind
    IN \A w \in Writers : Rank(first) <= Rank(w)

MCInit ==
    \E asked \in {{"initial"}, {"statistics"}, {"initial", "statistics"}, {"branches"}},
       plans \in [Writers -> Plans] :
        /\ \A w \in Writers :
               plans[w].table = IF "branches" \in asked THEN "branches" ELSE "assets"
        /\ InOrder(plans)
        /\ asked = {"initial", "statistics"} => \E w \in Writers : plans[w].kind = "unobserved"
        /\ InitWith([r \in Readers |-> asked], plans)

MCSpec == MCInit /\ [][Next]_vars /\ Fairness

===============================================================================
