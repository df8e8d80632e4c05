--------------------------- MODULE DeletionPromise ---------------------------
(***************************************************************************)
(* What the deletion workflow of lab 11 promises whoever opens executions  *)
(* of a case, with no worker, no retries and no store in sight: each one   *)
(* is closed once, and as complete only if it has been attested, that is,  *)
(* if PASS evidence was persisted for it.  Evidence may come late: a run   *)
(* whose answer was lost can attest an execution that was closed already.  *)
(***************************************************************************)
CONSTANT Exec

VARIABLES outcome,  \* [Exec -> "open", "complete" or "failed"]
          attested  \* the executions with PASS evidence

vars == <<outcome, attested>>

Init ==
    /\ outcome = [e \in Exec |-> "open"]
    /\ attested = {}

Attest(e) ==
    /\ attested' = attested \union {e}
    /\ UNCHANGED outcome

Complete(e) ==
    /\ outcome[e] = "open" /\ e \in attested
    /\ outcome' = [outcome EXCEPT ![e] = "complete"]
    /\ UNCHANGED attested

Fail(e) ==
    /\ outcome[e] = "open"
    /\ outcome' = [outcome EXCEPT ![e] = "failed"]
    /\ UNCHANGED attested

Close(e) == Complete(e) \/ Fail(e)

Next == \E e \in Exec : Attest(e) \/ Close(e)

Spec == Init /\ [][Next]_vars
FairSpec == Spec /\ \A e \in Exec : WF_vars(Close(e))
=============================================================================
