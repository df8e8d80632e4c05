------------------------ MODULE MC_PrivilegedSuspend ------------------------
(***************************************************************************)
(* One run and its retries against the whole account: a user with two keys *)
(* and a role that the lab may suspend, a user outside its path, root.     *)
(***************************************************************************)
EXTENDS PrivilegedSuspend

CONSTANTS admin, clerk, ops, root, k1, k2, r1

KeyOwner == [k \in {k1, k2} |-> admin]
Say(form, who, flag) == [form |-> form, who |-> who, flag |-> flag]

\* Suspicions about everyone, hinted or not, and the other kinds of events.
AllAsks == {Say("suspicious", p, b) : p \in {admin, clerk, ops, root}, b \in BOOLEAN}
           \union {Say("review", clerk, b) : b \in BOOLEAN}
           \union {Say("lifecycle", clerk, FALSE), Say("finding", admin, FALSE),
                   Say("other", clerk, FALSE)}

\* What the stack's GuardDuty rule sends about a privileged user.
RuleAsks == {Say("finding", admin, FALSE)}
=============================================================================
