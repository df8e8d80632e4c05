--------------------------- MODULE CrosswalkPromise ---------------------------
(***************************************************************************)
(* What a refresh of one lab's crosswalk promises: the generated file is   *)
(* replaced as a whole or not at all, success is reported only of a file   *)
(* that was replaced, and every run ends.                                  *)
(***************************************************************************)
CONSTANTS Mapping, Old, Torn

VARIABLES
    wanted,    \* the mapping the service holds for the lab's controls
    file,      \* scf-mapping.generated.json
    exit       \* "running", "killed", or what the process exits with

vars == <<wanted, file, exit>>

Init == wanted \in Mapping /\ file = Old /\ exit = "running"

Replace == exit = "running" /\ file = Old /\ file' = wanted /\ UNCHANGED <<wanted, exit>>

Succeed == exit = "running" /\ file = wanted /\ exit' \in {"ok", "unmapped"} /\ UNCHANGED <<wanted, file>>

\* A write that fails may leave half a file, never one that passes for whole.
GiveUp ==
    /\ exit = "running" /\ file = Old
    /\ file' \in {Old, Torn} /\ exit' = "error"
    /\ UNCHANGED wanted

\* A kill in the middle of the write leaves half a file too.
Die == exit = "running" /\ file' \in {file, Torn} /\ exit' = "killed" /\ UNCHANGED wanted

Next == Replace \/ Succeed \/ GiveUp \/ Die

Spec == Init /\ [][Next]_vars
FairSpec == Spec /\ WF_vars(Next)
=============================================================================
