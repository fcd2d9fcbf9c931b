------------------------------ MODULE ReadSide ------------------------------
(***************************************************************************)
(* The two ways to read what was anchored, side by side on one ledger and  *)
(* one salt store: the history route and the salt hand-off.                *)
(***************************************************************************)
EXTENDS HistoryRoute, SaltHandoff

vars == <<logVars, historyVars, handoffVars>>

Init == LogInit /\ HistoryInit /\ HandoffInit

Next ==
    \/ LogNext /\ UNCHANGED <<historyVars, handoffVars>>
    \/ HistoryNext /\ UNCHANGED handoffVars
    \/ HandoffNext /\ UNCHANGED historyVars

Spec == Init /\ [][Next]_vars
=============================================================================
