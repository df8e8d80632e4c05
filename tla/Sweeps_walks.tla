---------------------------- MODULE Sweeps_walks ----------------------------
(***************************************************************************)
(* The walks of labs 01-10 as facts for the proofs about their sweeps:     *)
(* each phase field by field, what holds of every phase of a walk, and     *)
(* what the evaluators may hold against each kind of resource.             *)
(***************************************************************************)
EXTENDS Sweeps, TLAPS

-----------------------------------------------------------------------------
(* The phases and the walks, as facts.                                     *)

AllFlaws ==
    {"mfa", "breached", "stale", "rotation", "drift", "disabled", "active", "policy", "logging",
     "validation", "kms", "coverage", "public_access", "encryption", "versioning", "lock",
     "flow_log", "ingress", "runbook", "subscribers", "ec2", "ecr", "lambda", "scan_on_push",
     "tags", "warning"}

\* A sequence of reads that together see the flaws in seen.
Reads(s, count, seen) ==
    /\ Len(s) = count /\ count \in 1..4 /\ DOMAIN s = 1..count
    /\ \A n \in 1..count : s[n] \subseteq seen
    /\ \A r \in seen : \E n \in 1..count : r \in s[n]

LEMMA OneRead ==
    ASSUME NEW A, NEW s, s = <<A>>
    PROVE  Reads(s, 1, A)
<1>1. Len(s) = 1 /\ DOMAIN s = 1..1 /\ s[1] = A
  OBVIOUS
<1> QED
  BY <1>1 DEF Reads

LEMMA TwoReads ==
    ASSUME NEW A, NEW B, NEW s, s = <<A, B>>
    PROVE  Reads(s, 2, A \union B)
<1>1. Len(s) = 2 /\ DOMAIN s = 1..2 /\ s[1] = A /\ s[2] = B
  OBVIOUS
<1> QED
  BY <1>1 DEF Reads

LEMMA FourReads ==
    ASSUME NEW A, NEW B, NEW C, NEW D, NEW s, s = <<A, B, C, D>>
    PROVE  Reads(s, 4, A \union B \union C \union D)
<1>1. Len(s) = 4 /\ DOMAIN s = 1..4 /\ s[1] = A /\ s[2] = B /\ s[3] = C /\ s[4] = D
  OBVIOUS
<1> QED
  BY <1>1 DEF Reads

\* Phase p, field by field.
Row(p, name, kind, over, by, members, count, seen, keeps, gone, none) ==
    /\ p.name = name /\ p.kind = kind /\ p.over = over /\ p.by = by /\ p.members = members
    /\ Reads(p.reads, count, seen) /\ seen \subseteq AllFlaws
    /\ p.keeps = keeps /\ p.gone = gone /\ p.none = none

LEMMA FetchUsersRow ==
    Row(FetchUsers, "users", "user", "user", "page", FALSE, 1,
             {}, "all", "skipped", "go_on")
<1>1. FetchUsers.reads = <<{}>>
  BY DEF FetchUsers, List, Each
<1>2. Reads(FetchUsers.reads, 1, {})
  BY <1>1, OneRead
<1> QED
  BY <1>2 DEF Row, FetchUsers, List, Each, AllFlaws, Resources

LEMMA FetchFactorsRow ==
    Row(FetchFactors, "factors", "user", "users", "one", FALSE, 1,
             {"mfa"}, "all", "ERROR", "go_on")
<1>1. FetchFactors.reads = <<{"mfa"}>>
  BY DEF FetchFactors, List, Each
<1>2. Reads(FetchFactors.reads, 1, {"mfa"})
  BY <1>1, OneRead
<1> QED
  BY <1>2 DEF Row, FetchFactors, List, Each, AllFlaws, Resources

LEMMA FetchOpenFindingsRow ==
    Row(FetchOpenFindings, "vulnerabilities", "vulnerability", "vulnerability", "page", FALSE, 1,
             {"breached"}, "all", "skipped", "go_on")
<1>1. FetchOpenFindings.reads = <<{"breached"}>>
  BY DEF FetchOpenFindings, List, Each
<1>2. Reads(FetchOpenFindings.reads, 1, {"breached"})
  BY <1>1, OneRead
<1> QED
  BY <1>2 DEF Row, FetchOpenFindings, List, Each, AllFlaws, Resources

LEMMA DiscoverAccessKeysRow ==
    Row(DiscoverAccessKeys, "keys", "access_key", "iam_user", "one", TRUE, 1,
             {"stale"}, "all", "skipped", "go_on")
<1>1. DiscoverAccessKeys.reads = <<{"stale"}>>
  BY DEF DiscoverAccessKeys, List, Each
<1>2. Reads(DiscoverAccessKeys.reads, 1, {"stale"})
  BY <1>1, OneRead
<1> QED
  BY <1>2 DEF Row, DiscoverAccessKeys, List, Each, AllFlaws, Resources

LEMMA DiscoverSecretsRow ==
    Row(DiscoverSecrets, "secrets", "credential", "credential", "page", FALSE, 1,
             {"stale", "rotation"}, "all", "skipped", "go_on")
<1>1. DiscoverSecrets.reads = <<{"stale", "rotation"}>>
  BY DEF DiscoverSecrets, List, Each
<1>2. Reads(DiscoverSecrets.reads, 1, {"stale", "rotation"})
  BY <1>1, OneRead
<1> QED
  BY <1>2 DEF Row, DiscoverSecrets, List, Each, AllFlaws, Resources

LEMMA CheckRecordersRow ==
    Row(CheckRecorders, "recorders", "recorder", "recorder", "all", FALSE, 1,
             {}, "recording", "skipped", "CONFIG_ERROR")
<1>1. CheckRecorders.reads = <<{}>>
  BY DEF CheckRecorders, List, Each
<1>2. Reads(CheckRecorders.reads, 1, {})
  BY <1>1, OneRead
<1> QED
  BY <1>2 DEF Row, CheckRecorders, List, Each, AllFlaws, Resources

LEMMA FetchConfigRulesRow ==
    Row(FetchConfigRules, "rules", "rule", "rule", "page", FALSE, 1,
             {}, "all", "skipped", "CONFIG_ERROR")
<1>1. FetchConfigRules.reads = <<{}>>
  BY DEF FetchConfigRules, List, Each
<1>2. Reads(FetchConfigRules.reads, 1, {})
  BY <1>1, OneRead
<1> QED
  BY <1>2 DEF Row, FetchConfigRules, List, Each, AllFlaws, Resources

LEMMA FetchRuleComplianceRow ==
    Row(FetchRuleCompliance, "compliance", "rule", "rule", "page", FALSE, 1,
             {"drift"}, "compliant", "skipped", "go_on")
<1>1. FetchRuleCompliance.reads = <<{"drift"}>>
  BY DEF FetchRuleCompliance, List, Each
<1>2. Reads(FetchRuleCompliance.reads, 1, {"drift"})
  BY <1>1, OneRead
<1> QED
  BY <1>2 DEF Row, FetchRuleCompliance, List, Each, AllFlaws, Resources

LEMMA ListDetectorIdsRow ==
    Row(ListDetectorIds, "detectors", "detector", "detector", "page", FALSE, 1,
             {}, "all", "skipped", "CONFIG_ERROR")
<1>1. ListDetectorIds.reads = <<{}>>
  BY DEF ListDetectorIds, List, Each
<1>2. Reads(ListDetectorIds.reads, 1, {})
  BY <1>1, OneRead
<1> QED
  BY <1>2 DEF Row, ListDetectorIds, List, Each, AllFlaws, Resources

LEMMA DetectorPostureRow ==
    Row(DetectorPosture, "posture", "detector", "detectors", "one", FALSE, 1,
             {"disabled"}, "enabled", "ERROR", "go_on")
<1>1. DetectorPosture.reads = <<{"disabled"}>>
  BY DEF DetectorPosture, List, Each
<1>2. Reads(DetectorPosture.reads, 1, {"disabled"})
  BY <1>1, OneRead
<1> QED
  BY <1>2 DEF Row, DetectorPosture, List, Each, AllFlaws, Resources

LEMMA FetchHighSeverityFindingsRow ==
    Row(FetchHighSeverityFindings, "findings", "finding", "posture", "one", TRUE, 1,
             {"active"}, "unarchived", "ERROR", "go_on")
<1>1. FetchHighSeverityFindings.reads = <<{"active"}>>
  BY DEF FetchHighSeverityFindings, List, Each
<1>2. Reads(FetchHighSeverityFindings.reads, 1, {"active"})
  BY <1>1, OneRead
<1> QED
  BY <1>2 DEF Row, FetchHighSeverityFindings, List, Each, AllFlaws, Resources

LEMMA ListCustomerKeysRow ==
    Row(ListCustomerKeys, "keys", "key", "key", "page", FALSE, 1,
             {}, "governed", "skipped", "go_on")
<1>1. ListCustomerKeys.reads = <<{}>>
  BY DEF ListCustomerKeys, List, Each
<1>2. Reads(ListCustomerKeys.reads, 1, {})
  BY <1>1, OneRead
<1> QED
  BY <1>2 DEF Row, ListCustomerKeys, List, Each, AllFlaws, Resources

LEMMA EvaluateKeysRow ==
    Row(EvaluateKeys, "key_results", "key", "keys", "one", FALSE, 2,
             {"rotation", "policy"}, "all", "ERROR", "go_on")
<1>1. EvaluateKeys.reads = <<{"rotation"}, {"policy"}>>
  BY DEF EvaluateKeys, List, Each
<1>2. Reads(EvaluateKeys.reads, 2, {"rotation"} \union {"policy"})
  BY <1>1, TwoReads
<1>3. Reads(EvaluateKeys.reads, 2, {"rotation", "policy"})
  BY <1>2 DEF Reads
<1> QED
  BY <1>3 DEF Row, EvaluateKeys, List, Each, AllFlaws, Resources

LEMMA ListSecretsRow ==
    Row(ListSecrets, "secrets", "secret", "secret", "page", FALSE, 1,
             {"rotation", "stale"}, "all", "skipped", "go_on")
<1>1. ListSecrets.reads = <<{"rotation", "stale"}>>
  BY DEF ListSecrets, List, Each
<1>2. Reads(ListSecrets.reads, 1, {"rotation", "stale"})
  BY <1>1, OneRead
<1> QED
  BY <1>2 DEF Row, ListSecrets, List, Each, AllFlaws, Resources

LEMMA DescribeTrailsRow ==
    Row(DescribeTrails, "trails", "trail", "trail", "all", FALSE, 1,
             {"validation", "kms", "coverage"}, "all", "skipped", "go_on")
<1>1. DescribeTrails.reads = <<{"validation", "kms", "coverage"}>>
  BY DEF DescribeTrails, List, Each
<1>2. Reads(DescribeTrails.reads, 1, {"validation", "kms", "coverage"})
  BY <1>1, OneRead
<1> QED
  BY <1>2 DEF Row, DescribeTrails, List, Each, AllFlaws, Resources

LEMMA TrailStatusRow ==
    Row(TrailStatus, "status", "trail", "trails", "one", FALSE, 1,
             {"logging"}, "all", "ERROR", "go_on")
<1>1. TrailStatus.reads = <<{"logging"}>>
  BY DEF TrailStatus, List, Each
<1>2. Reads(TrailStatus.reads, 1, {"logging"})
  BY <1>1, OneRead
<1> QED
  BY <1>2 DEF Row, TrailStatus, List, Each, AllFlaws, Resources

LEMMA BucketPostureRow ==
    Row(BucketPosture, "buckets", "bucket", "trail_buckets", "one", FALSE, 4,
             {"public_access", "encryption", "versioning", "lock"}, "all", "ERROR", "go_on")
<1>1. BucketPosture.reads = <<{"public_access"}, {"encryption"}, {"versioning"}, {"lock"}>>
  BY DEF BucketPosture, List, Each
<1>2. Reads(BucketPosture.reads, 4,
      {"public_access"} \union {"encryption"} \union {"versioning"} \union {"lock"})
  BY <1>1, FourReads
<1>3. Reads(BucketPosture.reads, 4, {"public_access", "encryption", "versioning", "lock"})
  BY <1>2 DEF Reads
<1> QED
  BY <1>3 DEF Row, BucketPosture, List, Each, AllFlaws, Resources

LEMMA ListVpcsRow ==
    Row(ListVpcs, "vpcs", "vpc", "vpc", "page", FALSE, 1,
             {}, "all", "skipped", "conclude")
<1>1. ListVpcs.reads = <<{}>>
  BY DEF ListVpcs, List, Each
<1>2. Reads(ListVpcs.reads, 1, {})
  BY <1>1, OneRead
<1> QED
  BY <1>2 DEF Row, ListVpcs, List, Each, AllFlaws, Resources

LEMMA FlowLogsByResourceRow ==
    Row(FlowLogsByResource, "flow_logs", "vpc", "vpcs", "page", FALSE, 1,
             {"flow_log"}, "all", "doubtful", "go_on")
<1>1. FlowLogsByResource.reads = <<{"flow_log"}>>
  BY DEF FlowLogsByResource, List, Each
<1>2. Reads(FlowLogsByResource.reads, 1, {"flow_log"})
  BY <1>1, OneRead
<1> QED
  BY <1>2 DEF Row, FlowLogsByResource, List, Each, AllFlaws, Resources

LEMMA ListSecurityGroupsRow ==
    Row(ListSecurityGroups, "groups", "group", "group", "page", FALSE, 1,
             {"ingress"}, "all", "skipped", "go_on")
<1>1. ListSecurityGroups.reads = <<{"ingress"}>>
  BY DEF ListSecurityGroups, List, Each
<1>2. Reads(ListSecurityGroups.reads, 1, {"ingress"})
  BY <1>1, OneRead
<1> QED
  BY <1>2 DEF Row, ListSecurityGroups, List, Each, AllFlaws, Resources

LEMMA CheckRunbooksRow ==
    Row(CheckRunbooks, "runbooks", "runbook", "runbook", "one", FALSE, 1,
             {"runbook"}, "all", "skipped", "go_on")
<1>1. CheckRunbooks.reads = <<{"runbook"}>>
  BY DEF CheckRunbooks, List, Each
<1>2. Reads(CheckRunbooks.reads, 1, {"runbook"})
  BY <1>1, OneRead
<1> QED
  BY <1>2 DEF Row, CheckRunbooks, List, Each, AllFlaws, Resources

LEMMA CheckEscalationTopicRow ==
    Row(CheckEscalationTopic, "escalation", "topic", "topic", "one", FALSE, 1,
             {"subscribers"}, "all", "ERROR", "go_on")
<1>1. CheckEscalationTopic.reads = <<{"subscribers"}>>
  BY DEF CheckEscalationTopic, List, Each
<1>2. Reads(CheckEscalationTopic.reads, 1, {"subscribers"})
  BY <1>1, OneRead
<1> QED
  BY <1>2 DEF Row, CheckEscalationTopic, List, Each, AllFlaws, Resources

LEMMA FetchInspectorAccountsRow ==
    Row(FetchInspectorAccounts, "accounts", "scanner", "scanner", "all", FALSE, 1,
             Resources, "all", "skipped", "CONFIG_ERROR")
<1>1. FetchInspectorAccounts.reads = <<Resources>>
  BY DEF FetchInspectorAccounts, List, Each
<1>2. Reads(FetchInspectorAccounts.reads, 1, Resources)
  BY <1>1, OneRead
<1> QED
  BY <1>2 DEF Row, FetchInspectorAccounts, List, Each, AllFlaws, Resources

LEMMA ListRepositoriesRow ==
    Row(ListRepositories, "repositories", "repository", "repository", "page", FALSE, 1,
             {"scan_on_push", "tags", "warning"}, "all", "skipped", "go_on")
<1>1. ListRepositories.reads = <<{"scan_on_push", "tags", "warning"}>>
  BY DEF ListRepositories, List, Each
<1>2. Reads(ListRepositories.reads, 1, {"scan_on_push", "tags", "warning"})
  BY <1>1, OneRead
<1> QED
  BY <1>2 DEF Row, ListRepositories, List, Each, AllFlaws, Resources
LEMMA Phases01 ==
    /\ DOMAIN Walk01 = 1..2 /\ Len(Walk01) = 2
    /\ Walk01[1] = FetchUsers /\ Walk01[2] = FetchFactors
BY DEF Walk01

LEMMA Phases02 ==
    /\ DOMAIN Walk02 = 1..1 /\ Len(Walk02) = 1
    /\ Walk02[1] = FetchOpenFindings
BY DEF Walk02

LEMMA Phases03 ==
    /\ DOMAIN Walk03 = 1..2 /\ Len(Walk03) = 2
    /\ Walk03[1] = DiscoverAccessKeys /\ Walk03[2] = DiscoverSecrets
BY DEF Walk03

LEMMA Phases04 ==
    /\ DOMAIN Walk04 = 1..3 /\ Len(Walk04) = 3
    /\ Walk04[1] = CheckRecorders /\ Walk04[2] = FetchConfigRules
       /\ Walk04[3] = FetchRuleCompliance
BY DEF Walk04

LEMMA Phases05 ==
    /\ DOMAIN Walk05 = 1..3 /\ Len(Walk05) = 3
    /\ Walk05[1] = ListDetectorIds /\ Walk05[2] = DetectorPosture
       /\ Walk05[3] = FetchHighSeverityFindings
BY DEF Walk05

LEMMA Phases06 ==
    /\ DOMAIN Walk06 = 1..3 /\ Len(Walk06) = 3
    /\ Walk06[1] = ListCustomerKeys /\ Walk06[2] = EvaluateKeys /\ Walk06[3] = ListSecrets
BY DEF Walk06

LEMMA Phases07 ==
    /\ DOMAIN Walk07 = 1..3 /\ Len(Walk07) = 3
    /\ Walk07[1] = DescribeTrails /\ Walk07[2] = TrailStatus /\ Walk07[3] = BucketPosture
BY DEF Walk07

LEMMA Phases08 ==
    /\ DOMAIN Walk08 = 1..3 /\ Len(Walk08) = 3
    /\ Walk08[1] = ListVpcs /\ Walk08[2] = FlowLogsByResource /\ Walk08[3] = ListSecurityGroups
BY DEF Walk08

LEMMA Phases09 ==
    /\ DOMAIN Walk09 = 1..2 /\ Len(Walk09) = 2
    /\ Walk09[1] = CheckRunbooks /\ Walk09[2] = CheckEscalationTopic
BY DEF Walk09

LEMMA Phases10 ==
    /\ DOMAIN Walk10 = 1..2 /\ Len(Walk10) = 2
    /\ Walk10[1] = FetchInspectorAccounts /\ Walk10[2] = ListRepositories
BY DEF Walk10


\* Lists of everything there is of a kind, that drop nothing with a flaw.
Lists(p) == p.over = p.kind /\ p.keeps \in {"all", "governed"} /\ p.kind # "runbook"

\* What holds of every phase.
PhaseShape(p) ==
    /\ p.kind \in Kinds /\ p.name \notin Kinds \union {"trail_buckets", "coverage"}
    /\ p.by \in {"page", "one", "all"} /\ p.members \in BOOLEAN
    /\ Len(p.reads) \in 1..4 /\ DOMAIN p.reads = 1..Len(p.reads)
    /\ \A n \in DOMAIN p.reads : p.reads[n] \subseteq AllFlaws
    /\ Len(p.reads) # 1 => p.by = "one" /\ ~p.members
    /\ p.over \in Kinds => \/ p.over = p.kind /\ ~p.members
                           \/ p.over = "iam_user" /\ p.kind = "access_key" /\ p.members
    /\ p.over = p.kind => Len(p.reads) = 1 /\ ~p.members
    /\ p.over = "trail_buckets" <=> p.kind = "bucket"
    /\ p.members => p.by = "one" /\ p.kind \in {"access_key", "finding"}
    /\ Needed(p) => p.over = p.kind
    /\ p.keeps = "governed" => p.kind = "key"

\* The phases of every walk have that shape.
LEMMA PhaseShapes ==
    ASSUME NEW w \in AllWalks, NEW k \in DOMAIN w
    PROVE  PhaseShape(w[k])
<1>1. PhaseShape(FetchUsers)
  BY FetchUsersRow DEF Row, Reads, PhaseShape, Needed, Kinds
<1>2. PhaseShape(FetchFactors)
  BY FetchFactorsRow DEF Row, Reads, PhaseShape, Needed, Kinds
<1>3. PhaseShape(FetchOpenFindings)
  BY FetchOpenFindingsRow DEF Row, Reads, PhaseShape, Needed, Kinds
<1>4. PhaseShape(DiscoverAccessKeys)
  BY DiscoverAccessKeysRow DEF Row, Reads, PhaseShape, Needed, Kinds
<1>5. PhaseShape(DiscoverSecrets)
  BY DiscoverSecretsRow DEF Row, Reads, PhaseShape, Needed, Kinds
<1>6. PhaseShape(CheckRecorders)
  BY CheckRecordersRow DEF Row, Reads, PhaseShape, Needed, Kinds
<1>7. PhaseShape(FetchConfigRules)
  BY FetchConfigRulesRow DEF Row, Reads, PhaseShape, Needed, Kinds
<1>8. PhaseShape(FetchRuleCompliance)
  BY FetchRuleComplianceRow DEF Row, Reads, PhaseShape, Needed, Kinds
<1>9. PhaseShape(ListDetectorIds)
  BY ListDetectorIdsRow DEF Row, Reads, PhaseShape, Needed, Kinds
<1>10. PhaseShape(DetectorPosture)
  BY DetectorPostureRow DEF Row, Reads, PhaseShape, Needed, Kinds
<1>11. PhaseShape(FetchHighSeverityFindings)
  BY FetchHighSeverityFindingsRow DEF Row, Reads, PhaseShape, Needed, Kinds
<1>12. PhaseShape(ListCustomerKeys)
  BY ListCustomerKeysRow DEF Row, Reads, PhaseShape, Needed, Kinds
<1>13. PhaseShape(EvaluateKeys)
  BY EvaluateKeysRow DEF Row, Reads, PhaseShape, Needed, Kinds
<1>14. PhaseShape(ListSecrets)
  BY ListSecretsRow DEF Row, Reads, PhaseShape, Needed, Kinds
<1>15. PhaseShape(DescribeTrails)
  BY DescribeTrailsRow DEF Row, Reads, PhaseShape, Needed, Kinds
<1>16. PhaseShape(TrailStatus)
  BY TrailStatusRow DEF Row, Reads, PhaseShape, Needed, Kinds
<1>17. PhaseShape(BucketPosture)
  BY BucketPostureRow DEF Row, Reads, PhaseShape, Needed, Kinds
<1>18. PhaseShape(ListVpcs)
  BY ListVpcsRow DEF Row, Reads, PhaseShape, Needed, Kinds
<1>19. PhaseShape(FlowLogsByResource)
  BY FlowLogsByResourceRow DEF Row, Reads, PhaseShape, Needed, Kinds
<1>20. PhaseShape(ListSecurityGroups)
  BY ListSecurityGroupsRow DEF Row, Reads, PhaseShape, Needed, Kinds
<1>21. PhaseShape(CheckRunbooks)
  BY CheckRunbooksRow DEF Row, Reads, PhaseShape, Needed, Kinds
<1>22. PhaseShape(CheckEscalationTopic)
  BY CheckEscalationTopicRow DEF Row, Reads, PhaseShape, Needed, Kinds
<1>23. PhaseShape(FetchInspectorAccounts)
  BY FetchInspectorAccountsRow DEF Row, Reads, PhaseShape, Needed, Kinds
<1>24. PhaseShape(ListRepositories)
  BY ListRepositoriesRow DEF Row, Reads, PhaseShape, Needed, Kinds
<1>25. CASE w = Walk01
  BY <1>25, Phases01, <1>1, <1>2
<1>26. CASE w = Walk02
  BY <1>26, Phases02, <1>3
<1>27. CASE w = Walk03
  BY <1>27, Phases03, <1>4, <1>5
<1>28. CASE w = Walk04
  BY <1>28, Phases04, <1>6, <1>7, <1>8
<1>29. CASE w = Walk05
  BY <1>29, Phases05, <1>9, <1>10, <1>11
<1>30. CASE w = Walk06
  BY <1>30, Phases06, <1>12, <1>13, <1>14
<1>31. CASE w = Walk07
  BY <1>31, Phases07, <1>15, <1>16, <1>17
<1>32. CASE w = Walk08
  BY <1>32, Phases08, <1>18, <1>19, <1>20
<1>33. CASE w = Walk09
  BY <1>33, Phases09, <1>21, <1>22
<1>34. CASE w = Walk10
  BY <1>34, Phases10, <1>23, <1>24
<1> QED
  BY <1>25, <1>26, <1>27, <1>28, <1>29, <1>30, <1>31, <1>32, <1>33, <1>34 DEF AllWalks

\* A phase goes over a kind, the buckets of trails, or what the phase before kept.
Chained(w, k) ==
    w[k].over \notin Kinds \union {"trail_buckets"} =>
        \/ /\ k = 2 /\ w[2].over = w[1].name /\ w[2].kind = w[1].kind /\ ~w[2].members
           /\ Lists(w[1])
        \/ /\ k = 3 /\ w = Walk05 /\ w[3].over = w[2].name /\ w[3].members
           /\ w[3].kind = "finding"

\* Only lab 07 looks for a trail that covers all regions.
Coverage(w, k) ==
    \A n \in DOMAIN w[k].reads : "coverage" \in w[k].reads[n] => w = Walk07 /\ k = 1

\* Which walks do what is peculiar.
Peculiar(w, k) ==
    /\ w[k].over = "trail_buckets" => w = Walk07 /\ k = 3
    /\ w[k].none = "conclude" => w = Walk08 /\ k = 1
    /\ w[k].keeps = "compliant" => w = Walk04 /\ k = 3
    /\ w[k].by = "all" => k = 1
    /\ w[k].gone = "doubtful" => w = Walk08 /\ k = 2
    /\ w[k].kind = "vpc" => w = Walk08
    /\ w[k].kind = "group" => w = Walk08 /\ k = 3
    /\ w[k].kind = "finding" => w = Walk05 /\ k = 3
    /\ w[k].kind = "key" => w = Walk06
    /\ w[k].kind = "access_key" => w[k].over = "iam_user"

\* Where the phases of every walk stand.
LEMMA WalkShapes ==
    ASSUME NEW w \in AllWalks, NEW k \in DOMAIN w
    PROVE  Chained(w, k) /\ Coverage(w, k) /\ Peculiar(w, k)
<1>1. Chained(Walk01, 1) /\ Coverage(Walk01, 1) /\ Peculiar(Walk01, 1)
  BY Phases01, FetchUsersRow
     DEF Row, Reads, Chained, Coverage, Peculiar, Lists, Kinds, Resources
<1>2. Chained(Walk01, 2) /\ Coverage(Walk01, 2) /\ Peculiar(Walk01, 2)
  BY Phases01, FetchUsersRow, FetchFactorsRow
     DEF Row, Reads, Chained, Coverage, Peculiar, Lists, Kinds, Resources
<1>3. CASE w = Walk01
  BY <1>3, Phases01, <1>1, <1>2
<1>4. Chained(Walk02, 1) /\ Coverage(Walk02, 1) /\ Peculiar(Walk02, 1)
  BY Phases02, FetchOpenFindingsRow
     DEF Row, Reads, Chained, Coverage, Peculiar, Lists, Kinds, Resources
<1>5. CASE w = Walk02
  BY <1>5, Phases02, <1>4
<1>6. Chained(Walk03, 1) /\ Coverage(Walk03, 1) /\ Peculiar(Walk03, 1)
  BY Phases03, DiscoverAccessKeysRow
     DEF Row, Reads, Chained, Coverage, Peculiar, Lists, Kinds, Resources
<1>7. Chained(Walk03, 2) /\ Coverage(Walk03, 2) /\ Peculiar(Walk03, 2)
  BY Phases03, DiscoverAccessKeysRow, DiscoverSecretsRow
     DEF Row, Reads, Chained, Coverage, Peculiar, Lists, Kinds, Resources
<1>8. CASE w = Walk03
  BY <1>8, Phases03, <1>6, <1>7
<1>9. Chained(Walk04, 1) /\ Coverage(Walk04, 1) /\ Peculiar(Walk04, 1)
  BY Phases04, CheckRecordersRow
     DEF Row, Reads, Chained, Coverage, Peculiar, Lists, Kinds, Resources
<1>10. Chained(Walk04, 2) /\ Coverage(Walk04, 2) /\ Peculiar(Walk04, 2)
  BY Phases04, CheckRecordersRow, FetchConfigRulesRow
     DEF Row, Reads, Chained, Coverage, Peculiar, Lists, Kinds, Resources
<1>11. Chained(Walk04, 3) /\ Coverage(Walk04, 3) /\ Peculiar(Walk04, 3)
  BY Phases04, CheckRecordersRow, FetchConfigRulesRow, FetchRuleComplianceRow
     DEF Row, Reads, Chained, Coverage, Peculiar, Lists, Kinds, Resources
<1>12. CASE w = Walk04
  BY <1>12, Phases04, <1>9, <1>10, <1>11
<1>13. Chained(Walk05, 1) /\ Coverage(Walk05, 1) /\ Peculiar(Walk05, 1)
  BY Phases05, ListDetectorIdsRow
     DEF Row, Reads, Chained, Coverage, Peculiar, Lists, Kinds, Resources
<1>14. Chained(Walk05, 2) /\ Coverage(Walk05, 2) /\ Peculiar(Walk05, 2)
  BY Phases05, ListDetectorIdsRow, DetectorPostureRow
     DEF Row, Reads, Chained, Coverage, Peculiar, Lists, Kinds, Resources
<1>15. Chained(Walk05, 3) /\ Coverage(Walk05, 3) /\ Peculiar(Walk05, 3)
  BY Phases05, ListDetectorIdsRow, DetectorPostureRow, FetchHighSeverityFindingsRow
     DEF Row, Reads, Chained, Coverage, Peculiar, Lists, Kinds, Resources
<1>16. CASE w = Walk05
  BY <1>16, Phases05, <1>13, <1>14, <1>15
<1>17. Chained(Walk06, 1) /\ Coverage(Walk06, 1) /\ Peculiar(Walk06, 1)
  BY Phases06, ListCustomerKeysRow
     DEF Row, Reads, Chained, Coverage, Peculiar, Lists, Kinds, Resources
<1>18. Chained(Walk06, 2) /\ Coverage(Walk06, 2) /\ Peculiar(Walk06, 2)
  BY Phases06, ListCustomerKeysRow, EvaluateKeysRow
     DEF Row, Reads, Chained, Coverage, Peculiar, Lists, Kinds, Resources
<1>19. Chained(Walk06, 3) /\ Coverage(Walk06, 3) /\ Peculiar(Walk06, 3)
  BY Phases06, ListCustomerKeysRow, EvaluateKeysRow, ListSecretsRow
     DEF Row, Reads, Chained, Coverage, Peculiar, Lists, Kinds, Resources
<1>20. CASE w = Walk06
  BY <1>20, Phases06, <1>17, <1>18, <1>19
<1>21. Chained(Walk07, 1) /\ Coverage(Walk07, 1) /\ Peculiar(Walk07, 1)
  BY Phases07, DescribeTrailsRow
     DEF Row, Reads, Chained, Coverage, Peculiar, Lists, Kinds, Resources
<1>22. Chained(Walk07, 2) /\ Coverage(Walk07, 2) /\ Peculiar(Walk07, 2)
  BY Phases07, DescribeTrailsRow, TrailStatusRow
     DEF Row, Reads, Chained, Coverage, Peculiar, Lists, Kinds, Resources
<1>23. Chained(Walk07, 3) /\ Coverage(Walk07, 3) /\ Peculiar(Walk07, 3)
  BY Phases07, DescribeTrailsRow, TrailStatusRow, BucketPostureRow
     DEF Row, Reads, Chained, Coverage, Peculiar, Lists, Kinds, Resources
<1>24. CASE w = Walk07
  BY <1>24, Phases07, <1>21, <1>22, <1>23
<1>25. Chained(Walk08, 1) /\ Coverage(Walk08, 1) /\ Peculiar(Walk08, 1)
  BY Phases08, ListVpcsRow
     DEF Row, Reads, Chained, Coverage, Peculiar, Lists, Kinds, Resources
<1>26. Chained(Walk08, 2) /\ Coverage(Walk08, 2) /\ Peculiar(Walk08, 2)
  BY Phases08, ListVpcsRow, FlowLogsByResourceRow
     DEF Row, Reads, Chained, Coverage, Peculiar, Lists, Kinds, Resources
<1>27. Chained(Walk08, 3) /\ Coverage(Walk08, 3) /\ Peculiar(Walk08, 3)
  BY Phases08, ListVpcsRow, FlowLogsByResourceRow, ListSecurityGroupsRow
     DEF Row, Reads, Chained, Coverage, Peculiar, Lists, Kinds, Resources
<1>28. CASE w = Walk08
  BY <1>28, Phases08, <1>25, <1>26, <1>27
<1>29. Chained(Walk09, 1) /\ Coverage(Walk09, 1) /\ Peculiar(Walk09, 1)
  BY Phases09, CheckRunbooksRow
     DEF Row, Reads, Chained, Coverage, Peculiar, Lists, Kinds, Resources
<1>30. Chained(Walk09, 2) /\ Coverage(Walk09, 2) /\ Peculiar(Walk09, 2)
  BY Phases09, CheckRunbooksRow, CheckEscalationTopicRow
     DEF Row, Reads, Chained, Coverage, Peculiar, Lists, Kinds, Resources
<1>31. CASE w = Walk09
  BY <1>31, Phases09, <1>29, <1>30
<1>32. Chained(Walk10, 1) /\ Coverage(Walk10, 1) /\ Peculiar(Walk10, 1)
  BY Phases10, FetchInspectorAccountsRow
     DEF Row, Reads, Chained, Coverage, Peculiar, Lists, Kinds, Resources
<1>33. Chained(Walk10, 2) /\ Coverage(Walk10, 2) /\ Peculiar(Walk10, 2)
  BY Phases10, FetchInspectorAccountsRow, ListRepositoriesRow
     DEF Row, Reads, Chained, Coverage, Peculiar, Lists, Kinds, Resources
<1>34. CASE w = Walk10
  BY <1>34, Phases10, <1>32, <1>33
<1> QED
  BY <1>3, <1>5, <1>8, <1>12, <1>16, <1>20, <1>24, <1>28, <1>31, <1>34 DEF AllWalks


\* Each phase has a name of its own.
LEMMA NamesDiffer ==
    ASSUME NEW w \in AllWalks, NEW j \in DOMAIN w, NEW k \in DOMAIN w, w[j].name = w[k].name
    PROVE  j = k
<1>1. CASE w = Walk01
  <2>1. Walk01[1].name = "users" /\ Walk01[2].name = "factors"
    BY Phases01, FetchUsersRow, FetchFactorsRow DEF Row
  <2>2. j \in 1..2 /\ k \in 1..2 /\ Walk01[j].name = Walk01[k].name
    BY <1>1, Phases01
  <2> QED
    BY <2>1, <2>2
<1>2. CASE w = Walk02
  <2>1. Walk02[1].name = "vulnerabilities"
    BY Phases02, FetchOpenFindingsRow DEF Row
  <2>2. j \in 1..1 /\ k \in 1..1 /\ Walk02[j].name = Walk02[k].name
    BY <1>2, Phases02
  <2> QED
    BY <2>1, <2>2
<1>3. CASE w = Walk03
  <2>1. Walk03[1].name = "keys" /\ Walk03[2].name = "secrets"
    BY Phases03, DiscoverAccessKeysRow, DiscoverSecretsRow DEF Row
  <2>2. j \in 1..2 /\ k \in 1..2 /\ Walk03[j].name = Walk03[k].name
    BY <1>3, Phases03
  <2> QED
    BY <2>1, <2>2
<1>4. CASE w = Walk04
  <2>1. Walk04[1].name = "recorders" /\ Walk04[2].name = "rules" /\ Walk04[3].name = "compliance"
    BY Phases04, CheckRecordersRow, FetchConfigRulesRow, FetchRuleComplianceRow DEF Row
  <2>2. j \in 1..3 /\ k \in 1..3 /\ Walk04[j].name = Walk04[k].name
    BY <1>4, Phases04
  <2> QED
    BY <2>1, <2>2
<1>5. CASE w = Walk05
  <2>1. Walk05[1].name = "detectors" /\ Walk05[2].name = "posture" /\ Walk05[3].name = "findings"
    BY Phases05, ListDetectorIdsRow, DetectorPostureRow, FetchHighSeverityFindingsRow DEF Row
  <2>2. j \in 1..3 /\ k \in 1..3 /\ Walk05[j].name = Walk05[k].name
    BY <1>5, Phases05
  <2> QED
    BY <2>1, <2>2
<1>6. CASE w = Walk06
  <2>1. Walk06[1].name = "keys" /\ Walk06[2].name = "key_results" /\ Walk06[3].name = "secrets"
    BY Phases06, ListCustomerKeysRow, EvaluateKeysRow, ListSecretsRow DEF Row
  <2>2. j \in 1..3 /\ k \in 1..3 /\ Walk06[j].name = Walk06[k].name
    BY <1>6, Phases06
  <2> QED
    BY <2>1, <2>2
<1>7. CASE w = Walk07
  <2>1. Walk07[1].name = "trails" /\ Walk07[2].name = "status" /\ Walk07[3].name = "buckets"
    BY Phases07, DescribeTrailsRow, TrailStatusRow, BucketPostureRow DEF Row
  <2>2. j \in 1..3 /\ k \in 1..3 /\ Walk07[j].name = Walk07[k].name
    BY <1>7, Phases07
  <2> QED
    BY <2>1, <2>2
<1>8. CASE w = Walk08
  <2>1. Walk08[1].name = "vpcs" /\ Walk08[2].name = "flow_logs" /\ Walk08[3].name = "groups"
    BY Phases08, ListVpcsRow, FlowLogsByResourceRow, ListSecurityGroupsRow DEF Row
  <2>2. j \in 1..3 /\ k \in 1..3 /\ Walk08[j].name = Walk08[k].name
    BY <1>8, Phases08
  <2> QED
    BY <2>1, <2>2
<1>9. CASE w = Walk09
  <2>1. Walk09[1].name = "runbooks" /\ Walk09[2].name = "escalation"
    BY Phases09, CheckRunbooksRow, CheckEscalationTopicRow DEF Row
  <2>2. j \in 1..2 /\ k \in 1..2 /\ Walk09[j].name = Walk09[k].name
    BY <1>9, Phases09
  <2> QED
    BY <2>1, <2>2
<1>10. CASE w = Walk10
  <2>1. Walk10[1].name = "accounts" /\ Walk10[2].name = "repositories"
    BY Phases10, FetchInspectorAccountsRow, ListRepositoriesRow DEF Row
  <2>2. j \in 1..2 /\ k \in 1..2 /\ Walk10[j].name = Walk10[k].name
    BY <1>10, Phases10
  <2> QED
    BY <2>1, <2>2
<1> QED
  BY <1>1, <1>2, <1>3, <1>4, <1>5, <1>6, <1>7, <1>8, <1>9, <1>10 DEF AllWalks

\* Each walk begins with another kind of resources.
LEMMA WalksDiffer ==
    /\ Walk01[1].kind = "user"
    /\ Walk02[1].kind = "vulnerability"
    /\ Walk03[1].kind = "access_key"
    /\ Walk04[1].kind = "recorder"
    /\ Walk05[1].kind = "detector"
    /\ Walk06[1].kind = "key"
    /\ Walk07[1].kind = "trail"
    /\ Walk08[1].kind = "vpc"
    /\ Walk09[1].kind = "runbook"
    /\ Walk10[1].kind = "scanner"
<1>1. Walk01[1].kind = "user"
  BY Phases01, FetchUsersRow DEF Row
<1>2. Walk02[1].kind = "vulnerability"
  BY Phases02, FetchOpenFindingsRow DEF Row
<1>3. Walk03[1].kind = "access_key"
  BY Phases03, DiscoverAccessKeysRow DEF Row
<1>4. Walk04[1].kind = "recorder"
  BY Phases04, CheckRecordersRow DEF Row
<1>5. Walk05[1].kind = "detector"
  BY Phases05, ListDetectorIdsRow DEF Row
<1>6. Walk06[1].kind = "key"
  BY Phases06, ListCustomerKeysRow DEF Row
<1>7. Walk07[1].kind = "trail"
  BY Phases07, DescribeTrailsRow DEF Row
<1>8. Walk08[1].kind = "vpc"
  BY Phases08, ListVpcsRow DEF Row
<1>9. Walk09[1].kind = "runbook"
  BY Phases09, CheckRunbooksRow DEF Row
<1>10. Walk10[1].kind = "scanner"
  BY Phases10, FetchInspectorAccountsRow DEF Row
<1> QED
  BY <1>1, <1>2, <1>3, <1>4, <1>5, <1>6, <1>7, <1>8, <1>9, <1>10

-----------------------------------------------------------------------------
(* What the evaluators may hold against a resource.                        *)

\* Nothing is held against what is not there, but for a runbook.
LEMMA JudgedLive ==
    ASSUME NEW i \in Item, NEW known, NEW r \in Judged(i, known), i.kind # "runbook"
    PROVE  Live(i)
BY DEF Judged, If

\* The flaws that a resource of each kind may have.
LEMMA JudgedKinds ==
    ASSUME NEW i \in Item, NEW known
    PROVE
    /\ i.kind = "user" => Judged(i, known) \subseteq {"mfa"}
    /\ i.kind = "vulnerability" => Judged(i, known) \subseteq {"breached"}
    /\ i.kind = "iam_user" => Judged(i, known) \subseteq {}
    /\ i.kind = "access_key" => Judged(i, known) \subseteq {"stale"}
    /\ i.kind = "credential" => Judged(i, known) \subseteq {"stale", "rotation"}
    /\ i.kind = "recorder" => Judged(i, known) \subseteq {}
    /\ i.kind = "rule" => Judged(i, known) \subseteq {"drift"}
    /\ i.kind = "detector" => Judged(i, known) \subseteq {"disabled"}
    /\ i.kind = "finding" => Judged(i, known) \subseteq {"active"}
    /\ i.kind = "key" => Judged(i, known) \subseteq {"rotation", "policy"}
    /\ i.kind = "secret" => Judged(i, known) \subseteq {"rotation", "stale"}
    /\ i.kind = "trail" => Judged(i, known) \subseteq {"logging", "validation", "kms"}
    /\ i.kind = "bucket"
       => Judged(i, known) \subseteq {"public_access", "encryption", "versioning", "lock"}
    /\ i.kind = "vpc" => Judged(i, known) \subseteq {"flow_log"}
    /\ i.kind = "group" => Judged(i, known) \subseteq {"ingress"}
    /\ i.kind = "runbook" => Judged(i, known) \subseteq {"runbook"}
    /\ i.kind = "topic" => Judged(i, known) \subseteq {"subscribers"}
    /\ i.kind = "scanner" => Judged(i, known) \subseteq Resources
    /\ i.kind = "repository" => Judged(i, known) \subseteq {"scan_on_push", "tags", "warning"}
<1>1. ASSUME i.kind = "user" PROVE Judged(i, known) \subseteq {"mfa"}
  BY <1>1 DEF Judged, If, UserFlaws
<1>2. ASSUME i.kind = "vulnerability" PROVE Judged(i, known) \subseteq {"breached"}
  BY <1>2 DEF Judged, If, VulnerabilityFlaws
<1>3. ASSUME i.kind = "iam_user" PROVE Judged(i, known) \subseteq {}
  BY <1>3 DEF Judged, If
<1>4. ASSUME i.kind = "access_key" PROVE Judged(i, known) \subseteq {"stale"}
  BY <1>4 DEF Judged, If, CredentialFlaws
<1>5. ASSUME i.kind = "credential" PROVE Judged(i, known) \subseteq {"stale", "rotation"}
  BY <1>5 DEF Judged, If, CredentialFlaws
<1>6. ASSUME i.kind = "recorder" PROVE Judged(i, known) \subseteq {}
  BY <1>6 DEF Judged, If
<1>7. ASSUME i.kind = "rule" PROVE Judged(i, known) \subseteq {"drift"}
  BY <1>7 DEF Judged, If
<1>8. ASSUME i.kind = "detector" PROVE Judged(i, known) \subseteq {"disabled"}
  BY <1>8 DEF Judged, If
<1>9. ASSUME i.kind = "finding" PROVE Judged(i, known) \subseteq {"active"}
  BY <1>9 DEF Judged, If
<1>10. ASSUME i.kind = "key" PROVE Judged(i, known) \subseteq {"rotation", "policy"}
  BY <1>10 DEF Judged, If, KeyFlaws
<1>11. ASSUME i.kind = "secret" PROVE Judged(i, known) \subseteq {"rotation", "stale"}
  BY <1>11 DEF Judged, If, SecretFlaws
<1>12. ASSUME i.kind = "trail" PROVE Judged(i, known) \subseteq {"logging", "validation", "kms"}
  BY <1>12 DEF Judged, If, TrailFlaws
<1>13. ASSUME i.kind = "bucket"
       PROVE  Judged(i, known) \subseteq {"public_access", "encryption", "versioning", "lock"}
  BY <1>13 DEF Judged, If, BucketFlaws
<1>14. ASSUME i.kind = "vpc" PROVE Judged(i, known) \subseteq {"flow_log"}
  BY <1>14 DEF Judged, If
<1>15. ASSUME i.kind = "group" PROVE Judged(i, known) \subseteq {"ingress"}
  BY <1>15 DEF Judged, If, GroupFlaws
<1>16. ASSUME i.kind = "runbook" PROVE Judged(i, known) \subseteq {"runbook"}
  BY <1>16 DEF Judged, If
<1>17. ASSUME i.kind = "topic" PROVE Judged(i, known) \subseteq {"subscribers"}
  BY <1>17 DEF Judged, If
<1>18. ASSUME i.kind = "scanner" PROVE Judged(i, known) \subseteq Resources
  BY <1>18 DEF Judged, If, ScannerFlaws
<1>19. ASSUME i.kind = "repository"
       PROVE  Judged(i, known) \subseteq {"scan_on_push", "tags", "warning"}
  BY <1>19 DEF Judged, If, RepositoryFlaws, RepositoryWarnings
<1> QED
  BY <1>1, <1>2, <1>3, <1>4, <1>5, <1>6, <1>7, <1>8, <1>9, <1>10,
     <1>11, <1>12, <1>13, <1>14, <1>15, <1>16, <1>17, <1>18, <1>19

\* A key counts where it is known to be governed.
LEMMA JudgedKeys ==
    ASSUME NEW i \in Item, i.kind = "key", NEW known, NEW known2, NEW r \in Judged(i, known)
    PROVE  i \in known /\ (i \in known2 => r \in Judged(i, known2))
BY DEF Judged, If

\* A bucket counts where a trail is known to write to it, or evidence is kept there.
LEMMA JudgedBuckets ==
    ASSUME NEW i \in Item, i.kind = "bucket", NEW known, NEW known2, NEW r \in Judged(i, known)
    PROVE  /\ i \in TrailBuckets(known) \/ (i = EvidenceBucket /\ r # "lock")
           /\ i \in TrailBuckets(known2) \/ (i = EvidenceBucket /\ r # "lock")
              => r \in Judged(i, known2)
<1>1. Live(i)
  BY JudgedLive
<1>2. \A K : Judged(i, K) = IF i \in TrailBuckets(K) \union {EvidenceBucket}
                            THEN BucketFlaws(account[i], i \in TrailBuckets(K)) ELSE {}
  BY <1>1 DEF Judged
<1>3. i \in TrailBuckets(known) \union {EvidenceBucket}
      /\ r \in BucketFlaws(account[i], i \in TrailBuckets(known))
  BY <1>2
<1>4. r = "lock" => i \in TrailBuckets(known)
  BY <1>3 DEF BucketFlaws, If
<1>5. i \in TrailBuckets(known2) \/ r # "lock"
      => r \in BucketFlaws(account[i], i \in TrailBuckets(known2))
  BY <1>3 DEF BucketFlaws, If
<1> QED
  BY <1>2, <1>3, <1>4, <1>5

\* Other resources count whatever is known.
LEMMA JudgedOthers ==
    ASSUME NEW i \in Item, i.kind \notin {"key", "bucket"}, NEW known, NEW known2
    PROVE  Judged(i, known) = Judged(i, known2)
BY DEF Judged

\* Phase p sees flaw r in one of its reads.
Sight(p, r) == \E n \in DOMAIN p.reads : r \in p.reads[n]

\* Whatever is held against a resource that a walk goes over, a phase of it looks for.
LEMMA FlawsSought ==
    ASSUME NEW w \in AllWalks, NEW j \in DOMAIN w, NEW i \in Item,
           i.kind \in {w[j].kind, w[j].over}, NEW known, NEW r \in Judged(i, known), r # "warning"
    PROVE  \E k \in DOMAIN w : w[k].kind = i.kind /\ Sight(w[k], r)
<1>0. i.kind \in Kinds
  BY ItemAssumption
<1>1. CASE w = Walk01
  <2>1. i.kind \in {"user"}
    BY <1>0, <1>1, Phases01, FetchUsersRow, FetchFactorsRow DEF Row, Kinds
  <2>2. CASE i.kind = "user"
    <3>1. w[2].kind = "user" /\ \A x \in {"mfa"} : Sight(w[2], x)
      BY <1>1, Phases01, FetchFactorsRow DEF Row, Reads, Sight
    <3> QED
      BY <1>1, <2>2, <3>1, Phases01, JudgedKinds
  <2> QED
    BY <2>1, <2>2
<1>2. CASE w = Walk02
  <2>1. i.kind \in {"vulnerability"}
    BY <1>0, <1>2, Phases02, FetchOpenFindingsRow DEF Row, Kinds
  <2>2. CASE i.kind = "vulnerability"
    <3>1. w[1].kind = "vulnerability" /\ \A x \in {"breached"} : Sight(w[1], x)
      BY <1>2, Phases02, FetchOpenFindingsRow DEF Row, Reads, Sight
    <3> QED
      BY <1>2, <2>2, <3>1, Phases02, JudgedKinds
  <2> QED
    BY <2>1, <2>2
<1>3. CASE w = Walk03
  <2>1. i.kind \in {"access_key", "iam_user", "credential"}
    BY <1>0, <1>3, Phases03, DiscoverAccessKeysRow, DiscoverSecretsRow DEF Row, Kinds
  <2>2. CASE i.kind = "access_key"
    <3>1. w[1].kind = "access_key" /\ \A x \in {"stale"} : Sight(w[1], x)
      BY <1>3, Phases03, DiscoverAccessKeysRow DEF Row, Reads, Sight
    <3> QED
      BY <1>3, <2>2, <3>1, Phases03, JudgedKinds
  <2>3. i.kind # "iam_user"
    BY JudgedKinds
  <2>4. CASE i.kind = "credential"
    <3>1. w[2].kind = "credential" /\ \A x \in {"stale", "rotation"} : Sight(w[2], x)
      BY <1>3, Phases03, DiscoverSecretsRow DEF Row, Reads, Sight
    <3> QED
      BY <1>3, <2>4, <3>1, Phases03, JudgedKinds
  <2> QED
    BY <2>1, <2>2, <2>3, <2>4
<1>4. CASE w = Walk04
  <2>1. i.kind \in {"recorder", "rule"}
    BY <1>0, <1>4, Phases04, CheckRecordersRow, FetchConfigRulesRow, FetchRuleComplianceRow
       DEF Row, Kinds
  <2>2. i.kind # "recorder"
    BY JudgedKinds
  <2>3. CASE i.kind = "rule"
    <3>1. w[3].kind = "rule" /\ \A x \in {"drift"} : Sight(w[3], x)
      BY <1>4, Phases04, FetchRuleComplianceRow DEF Row, Reads, Sight
    <3> QED
      BY <1>4, <2>3, <3>1, Phases04, JudgedKinds
  <2> QED
    BY <2>1, <2>2, <2>3
<1>5. CASE w = Walk05
  <2>1. i.kind \in {"detector", "finding"}
    BY <1>0, <1>5, Phases05, ListDetectorIdsRow, DetectorPostureRow,
       FetchHighSeverityFindingsRow DEF Row, Kinds
  <2>2. CASE i.kind = "detector"
    <3>1. w[2].kind = "detector" /\ \A x \in {"disabled"} : Sight(w[2], x)
      BY <1>5, Phases05, DetectorPostureRow DEF Row, Reads, Sight
    <3> QED
      BY <1>5, <2>2, <3>1, Phases05, JudgedKinds
  <2>3. CASE i.kind = "finding"
    <3>1. w[3].kind = "finding" /\ \A x \in {"active"} : Sight(w[3], x)
      BY <1>5, Phases05, FetchHighSeverityFindingsRow DEF Row, Reads, Sight
    <3> QED
      BY <1>5, <2>3, <3>1, Phases05, JudgedKinds
  <2> QED
    BY <2>1, <2>2, <2>3
<1>6. CASE w = Walk06
  <2>1. i.kind \in {"key", "secret"}
    BY <1>0, <1>6, Phases06, ListCustomerKeysRow, EvaluateKeysRow, ListSecretsRow DEF Row, Kinds
  <2>2. CASE i.kind = "key"
    <3>1. w[2].kind = "key" /\ \A x \in {"rotation", "policy"} : Sight(w[2], x)
      BY <1>6, Phases06, EvaluateKeysRow DEF Row, Reads, Sight
    <3> QED
      BY <1>6, <2>2, <3>1, Phases06, JudgedKinds
  <2>3. CASE i.kind = "secret"
    <3>1. w[3].kind = "secret" /\ \A x \in {"rotation", "stale"} : Sight(w[3], x)
      BY <1>6, Phases06, ListSecretsRow DEF Row, Reads, Sight
    <3> QED
      BY <1>6, <2>3, <3>1, Phases06, JudgedKinds
  <2> QED
    BY <2>1, <2>2, <2>3
<1>7. CASE w = Walk07
  <2>1. i.kind \in {"trail", "bucket"}
    BY <1>0, <1>7, Phases07, DescribeTrailsRow, TrailStatusRow, BucketPostureRow DEF Row, Kinds
  <2>2. CASE i.kind = "trail"
    <3>1. w[1].kind = "trail" /\ \A x \in {"validation", "kms", "coverage"} : Sight(w[1], x)
      BY <1>7, Phases07, DescribeTrailsRow DEF Row, Reads, Sight
    <3>2. w[2].kind = "trail" /\ \A x \in {"logging"} : Sight(w[2], x)
      BY <1>7, Phases07, TrailStatusRow DEF Row, Reads, Sight
    <3> QED
      BY <1>7, <2>2, <3>1, <3>2, Phases07, JudgedKinds
  <2>3. CASE i.kind = "bucket"
    <3>1. w[3].kind = "bucket"
          /\ \A x \in {"public_access", "encryption", "versioning", "lock"} : Sight(w[3], x)
      BY <1>7, Phases07, BucketPostureRow DEF Row, Reads, Sight
    <3> QED
      BY <1>7, <2>3, <3>1, Phases07, JudgedKinds
  <2> QED
    BY <2>1, <2>2, <2>3
<1>8. CASE w = Walk08
  <2>1. i.kind \in {"vpc", "group"}
    BY <1>0, <1>8, Phases08, ListVpcsRow, FlowLogsByResourceRow, ListSecurityGroupsRow DEF Row,
       Kinds
  <2>2. CASE i.kind = "vpc"
    <3>1. w[2].kind = "vpc" /\ \A x \in {"flow_log"} : Sight(w[2], x)
      BY <1>8, Phases08, FlowLogsByResourceRow DEF Row, Reads, Sight
    <3> QED
      BY <1>8, <2>2, <3>1, Phases08, JudgedKinds
  <2>3. CASE i.kind = "group"
    <3>1. w[3].kind = "group" /\ \A x \in {"ingress"} : Sight(w[3], x)
      BY <1>8, Phases08, ListSecurityGroupsRow DEF Row, Reads, Sight
    <3> QED
      BY <1>8, <2>3, <3>1, Phases08, JudgedKinds
  <2> QED
    BY <2>1, <2>2, <2>3
<1>9. CASE w = Walk09
  <2>1. i.kind \in {"runbook", "topic"}
    BY <1>0, <1>9, Phases09, CheckRunbooksRow, CheckEscalationTopicRow DEF Row, Kinds
  <2>2. CASE i.kind = "runbook"
    <3>1. w[1].kind = "runbook" /\ \A x \in {"runbook"} : Sight(w[1], x)
      BY <1>9, Phases09, CheckRunbooksRow DEF Row, Reads, Sight
    <3> QED
      BY <1>9, <2>2, <3>1, Phases09, JudgedKinds
  <2>3. CASE i.kind = "topic"
    <3>1. w[2].kind = "topic" /\ \A x \in {"subscribers"} : Sight(w[2], x)
      BY <1>9, Phases09, CheckEscalationTopicRow DEF Row, Reads, Sight
    <3> QED
      BY <1>9, <2>3, <3>1, Phases09, JudgedKinds
  <2> QED
    BY <2>1, <2>2, <2>3
<1>10. CASE w = Walk10
  <2>1. i.kind \in {"scanner", "repository"}
    BY <1>0, <1>10, Phases10, FetchInspectorAccountsRow, ListRepositoriesRow DEF Row, Kinds
  <2>2. CASE i.kind = "scanner"
    <3>1. w[1].kind = "scanner" /\ \A x \in Resources : Sight(w[1], x)
      BY <1>10, Phases10, FetchInspectorAccountsRow DEF Row, Reads, Sight
    <3> QED
      BY <1>10, <2>2, <3>1, Phases10, JudgedKinds
  <2>3. CASE i.kind = "repository"
    <3>1. w[2].kind = "repository"
          /\ \A x \in {"scan_on_push", "tags", "warning"} : Sight(w[2], x)
      BY <1>10, Phases10, ListRepositoriesRow DEF Row, Reads, Sight
    <3> QED
      BY <1>10, <2>3, <3>1, Phases10, JudgedKinds
  <2> QED
    BY <2>1, <2>2, <2>3
<1> QED
  BY <1>1, <1>2, <1>3, <1>4, <1>5, <1>6, <1>7, <1>8, <1>9, <1>10 DEF AllWalks
=============================================================================
