--------------------------- MODULE MC_DeletionCase ---------------------------
(***************************************************************************)
(* Instances of DeletionCase for TLC: one tenant with an S3 prefix, a      *)
(* DynamoDB partition, a vault entry, an RDS entry, a public bucket and an *)
(* entry of another tenant; one vault.                                     *)
(***************************************************************************)
EXTENDS DeletionCase

CONSTANTS e1, e2, c1, v1

MCStore == {"objects", "rows", "points", "sql", "public", "other"}
MCService == [objects |-> "s3", rows |-> "dynamodb", points |-> "backup",
              sql |-> "rds", public |-> "s3", other |-> "s3"]
MCFederal == MCStore \ {"public"}
MCForeign == {"other"}
MCVault == {v1}
MCVaultOf == [s \in MCStore |-> IF s \in {"objects", "public"} THEN v1 ELSE NoVault]
MCNamedVault == [s \in MCStore |-> v1]
MCDemo == {"objects", "rows", "points"}
MCCaseName == {c1}

MCItem == {"o", "r", "p", "x"}
MCHome == [o |-> "objects", r |-> "rows", p |-> v1, x |-> "other"]

\* One object and one recovery point.
FewItem == {"o", "p"}
FewHome == [i \in FewItem |-> MCHome[i]]

Live(cat, backups, case) ==
    [kind |-> "live", catalog |-> cat, backups |-> backups, case |-> case, simHits |-> FALSE]
Simulated(cat, simHits) ==
    [kind |-> "simulation", catalog |-> cat, backups |-> TRUE, case |-> c1, simHits |-> simHits]
Invalid == [Live({}, TRUE, c1) EXCEPT !.kind = "invalid"]

\* Every shape of catalog the handler tells apart.
AllRequests ==
    { Live(cat, b, c1) : b \in BOOLEAN,
        cat \in {{"objects", "points"}, {"objects", "rows", "other"}, {"rows"}, {"points"},
                 {"objects", "sql"}, {"public"}, {"other"}, {}} }
    \union {Simulated({}, TRUE), Simulated({}, FALSE), Simulated({"rows"}, FALSE), Invalid}
AllPolicies == [enable: BOOLEAN, require: BOOLEAN, table: {TRUE}]

\* Two executions, of one case or of cases named by the clock, contend for the
\* worker.  They only scan: one object decides each attempt's verdict, by
\* whether the tenant wrote it before the scan of that attempt.
OneItem == {"o"}
OneHome == [i \in OneItem |-> MCHome[i]]
PromiseRequests == {Live({"objects"}, FALSE, c) : c \in {c1, NoCase}}

PromisePolicies == {[enable |-> FALSE, require |-> FALSE, table |-> TRUE]}
DryPolicies == {[enable |-> FALSE, require |-> FALSE, table |-> TRUE]}
BackedUp == {Live({"objects"}, TRUE, c1)}
ForeignOnly == {Live({"other"}, FALSE, c1)}
=============================================================================
