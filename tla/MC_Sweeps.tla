----------------------------- MODULE MC_Sweeps -----------------------------
(***************************************************************************)
(* An instance of Sweeps: each lab over two resources of a kind at most.   *)
(***************************************************************************)
EXTENDS Sweeps, FiniteSetsExt

McItem ==
    [kind: {"user", "access_key", "rule", "finding", "bucket", "group"}, n: {1, 2}]
    \union [kind: Kinds, n: {1}]

HomeKind == [k \in Kinds |->
    CASE k = "access_key" -> "iam_user"
      [] k = "finding"    -> "detector"
      [] k = "trail"      -> "bucket"
      [] k = "group"      -> "vpc"
      [] OTHER            -> k]
McHome == [i \in McItem |-> [kind |-> HomeKind[i.kind], n |-> 1]]
McEvidenceBucket == [kind |-> "bucket", n |-> 2]

Rule(world, protocol, from, to) == [world |-> world, protocol |-> protocol, from |-> from, to |-> to]
McRules == {{}, {Rule(TRUE, "tcp", 23, 3388)}, {Rule(TRUE, "tcp", 3389, NoPort)}, {Rule(FALSE, "-1", 0, 0)}}

McFacts ==
    [k \in Kinds |->
       CASE k = "user"          -> [factors: {{}, {"sms"}, {"sms", "webauthn"}}]
         [] k = "vulnerability" -> [label: {"CRITICAL", "HIGH", "UNTRIAGED"}, age: {1, 2, 8}, dated: BOOLEAN]
         [] k = "iam_user"      -> [named: {TRUE}]
         [] k = "access_key"    -> [age: {89, 90}]
         [] k = "credential"    -> [age: {89, 90}, rotates: BOOLEAN]
         [] k = "recorder"      -> [recording: BOOLEAN]
         [] k = "rule"          -> [compliance: {"COMPLIANT", "NON_COMPLIANT", "INSUFFICIENT_DATA"}]
         [] k = "detector"      -> [enabled: BOOLEAN]
         [] k = "finding"       -> [archived: BOOLEAN]
         [] k = "key"           -> [governed: BOOLEAN, rotates: BOOLEAN, public: BOOLEAN]
         [] k = "secret"        -> [rotates: BOOLEAN, age: {90, 91}, dated: BOOLEAN]
         [] k = "trail"         -> [logging: BOOLEAN, validated: {TRUE}, encrypted: {TRUE},
                                    multiregion: BOOLEAN]
         [] k = "bucket"        -> [blocked: {TRUE}, encrypted: BOOLEAN, versioned: {TRUE}, locked: BOOLEAN]
         [] k = "vpc"           -> [flow: BOOLEAN]
         [] k = "group"         -> [rules: McRules]
         [] k = "runbook"       -> [active: BOOLEAN]
         [] k = "topic"         -> [confirmed: {0, 1}]
         [] k = "scanner"       -> [enabled: {{"ec2"}, {"ec2", "ecr"}}, reported: SUBSET {"lambda"}]
         [] k = "repository"    -> [scans: BOOLEAN, immutable: BOOLEAN, kms: {FALSE}]]
McWhole == [whole |-> TRUE]
McGone == [gone |-> TRUE]

\* Every account whose resources the walk reads are there or not, and like
\* anything they may be; it does not matter what else there is.
Accounts ==
    FoldSet(LAMBDA i, As : {[a EXCEPT ![i] = f] : a \in As, f \in Facts[i.kind] \union {Gone}},
            {[i \in Item |-> Gone]}, Swept)

McInit == walk \in Walks /\ account \in Accounts /\ Begin
McSpec == McInit /\ [][Next]_vars /\ WF_vars(Sweep)
=============================================================================
