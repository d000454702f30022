----------------------------- MODULE Dashboards -----------------------------
(***************************************************************************)
(* The life of the boards: generate.py lays them out and writes them; then *)
(* check_queries.py asks their queries or a user opens them in Grafana.    *)
(* The check and the users only read, so one execution has either.         *)
(***************************************************************************)
EXTENDS BoardLayout, QueryCheck, BoardNavigation

vars == <<layoutVars, checkVars, facts, page>>

Init == LayoutInit /\ CheckInit /\ NavigationInit

Generate == LayoutNext /\ UNCHANGED <<checkVars, facts, page>>

Check ==
  /\ Generated /\ ~Shown
  /\ CheckNext
  /\ UNCHANGED <<layoutVars, page>>

Browse ==
  /\ Generated /\ exit = "idle"
  /\ NavigationNext
  /\ UNCHANGED <<layoutVars, checkVars>>

Next == Generate \/ Check \/ Browse

Spec == Init /\ [][Next]_vars

\* The state has its type: the cursor of the layout is in the grid, the check
\* is between two queries of a board and pass that exist, and the board shown
\* has a selection for exactly its variables.  And the boards are consistent.
BoardsTypeOK == BoardsConsistent /\ LayoutTypeOK /\ CheckTypeOK /\ NavigationTypeOK
=============================================================================
