----------------------------- MODULE Deadlines -----------------------------
(***************************************************************************)
(* How old a vulnerability or a credential may grow, for the labs that     *)
(* sweep an account and for the same labs when an event brings the rows.   *)
(***************************************************************************)
EXTENDS Naturals

CONSTANT MaxSecretAge   \* MAX_SECRET_AGE_DAYS, MAX_KEY_AGE_DAYS

ASSUME AgeAssumption == MaxSecretAge \in Nat

\* Lab 02. A label nobody knows is taken for a medium one.
NLevel == [CRITICAL |-> "N1", HIGH |-> "N2", MEDIUM |-> "N3", LOW |-> "N4", INFORMATIONAL |-> "N5"]
SlaDays == [N1 |-> 1, N2 |-> 7, N3 |-> 30, N4 |-> 90, N5 |-> 180]
Classify(label) == IF label \in DOMAIN NLevel THEN NLevel[label] ELSE "N3"
=============================================================================
