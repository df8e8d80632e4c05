------------------------------ MODULE MC_Feeds ------------------------------
(***************************************************************************)
(* An instance of Feeds: two or three rows of each kind that differ in     *)
(* what the lab looks at, and heads and environments that go with them.    *)
(***************************************************************************)
EXTENDS Feeds

McMalformed == [malformed |-> TRUE]
McAbsent == [absent |-> TRUE]
McNothing == [nothing |-> TRUE]

Asset(criticality, locked, tested, duration, success) ==
    [criticality |-> criticality, rto |-> 60, rpo |-> 15, frequency |-> 15, locked |-> locked,
     cmk |-> "true", tested |-> tested, duration |-> duration, success |-> success]
Thing(account, status, type, tags, federal) ==
    [account |-> account, status |-> status, type |-> type, threePart |-> type # "database",
     tags |-> tags, federal |-> federal]
Role(form, account, name) == [form |-> form, account |-> account, name |-> name]
Deploy == [account |-> "a1", name |-> "deploy"]
Event(name, principal, ticket, claimed) ==
    [name |-> name, principal |-> principal, ticket |-> ticket, claimed |-> claimed]
Entry(list, type, actions, attributes) ==
    [list |-> list, type |-> type, actions |-> actions, attributes |-> attributes]
Store(critical, replication, pitr) ==
    [critical |-> critical, replication |-> replication, pitr |-> pitr, backup |-> "true"]

McRows ==
    [l \in {"02", "03", "12", "13", "14", "15", "16", "17"} |->
       CASE l = "02" -> [label: {"CRITICAL", "UNTRIAGED"}, observed: {{}, {89}, {90}}]
         [] l = "03" -> [created: {0, 1}, rotates: {"quoted false", "unclear"}] \union {Malformed}
         [] l = "12" ->
              {Asset("mission_critical", "true", {0}, {60}, "true"),
               Asset("mission_critical", "true", {1}, {}, "unclear"),
               Asset("high", "unclear", {0}, {60}, "true"),
               Asset("medium", "true", {0}, {61}, "unclear"),
               Asset("medium", "true", {}, {}, "unclear"), Malformed}
         [] l = "13" ->
              {Thing("a1", "in_boundary", "bucket", {"owner"}, TRUE),
               Thing("a1", "in_boundary", "bucket", {}, TRUE),
               Thing("a1", "", "database", {}, FALSE),
               Thing("a2", "inherited", "key", {"owner"}, TRUE),
               Thing("a2", "elsewhere", "bucket", {"owner"}, FALSE), Malformed}
         [] l = "14" -> [privileged: {"true", "unclear"}, days: {{}, {1}, {2}}] \union {Malformed}
         [] l = "15" ->
              {Event("StopLogging", Role("assumed-role", "a1", "deploy"), t, c) :
                    t \in {{}, {"CHG-1"}}, c \in {"true", "unclear"}}
              \union {Event("StopLogging", Role("user", "a1", "deploy"), {"CHG-1"}, c) : c \in {"true", "unclear"}}
              \union {Event("StopLogging", Role("role", "a2", "deploy"), {"CHG-1"}, "unclear"),
                      Event("RunInstances", Role("user", "a1", "alice"), {}, "unclear"), Malformed}
         [] l = "16" ->
              {Entry("resource_drift", "aws_autoscaling_group", {"update"}, {"desired_capacity"}),
               Entry("resource_drift", "aws_instance", {"update"}, {"ami", "ingress"}),
               Entry("resource_drift", "aws_instance", {"update"}, {"tags"}),
               Entry("resource_drift", "aws_instance", {"delete"}, {"tags"}),
               Entry("resource_changes", "aws_db_instance", {"no-op"}, {}),
               Entry("resource_changes", "aws_db_instance", {"update", "no-op"}, {}), Malformed}
         [] l = "17" ->
              {Store("true", "true", "false"), Store("true", "quoted false", "false"),
               Store("true", "false", "false"), Store("false", "false", "true"), Malformed}]

McMaxRows == [l \in DOMAIN McRows |-> IF l \in {"13", "15", "17"} THEN 1 ELSE 2]

MAS(accounts, services) == [accounts |-> accounts, services |-> services]
Pipeline(gates, validated) ==
    [gates |-> gates, deployed |-> TRUE, validated |-> validated, immutableCommit |-> TRUE]
S3(locking) ==
    [type |-> "s3", flags |-> [f \in BackendFlags |-> IF f = "locking" THEN locking ELSE "true"]]
Descriptor(backend, recovery, failover, rto) ==
    [backend |-> backend, primary |-> {"east"}, recovery |-> recovery, failover |-> failover,
     rto |-> rto, rpo |-> {15}]

McHeads ==
    [l \in DOMAIN McRows |->
       CASE l = "13" ->
              [boundary: {Malformed, Absent, MAS({"a1", "a2"}, {}), MAS({"a1"}, {}),
                          MAS({"a1", "a2"}, {"bucket", "key"}), MAS({"a1"}, {"key"})}]
         [] l = "15" ->
              [events: {"list"},
               pipeline: {Malformed, Absent, Pipeline(RequiredGates, TRUE), Pipeline({"unit"}, TRUE),
                          Pipeline({}, TRUE), Pipeline(RequiredGates, FALSE)}]
              \union [events: {"absent", "no list"}, pipeline: {Absent}]
         [] l = "17" ->
              {Descriptor(S3("true"), {"west"}, "true", {60}),
               Descriptor(S3("quoted false"), {"west"}, "false", {60}),
               Descriptor(S3("false"), {"west"}, "true", {60}),
               Descriptor(S3("true"), {"east"}, "false", {0}),
               Descriptor(S3("true"), {"west"}, "false", {0}),
               Descriptor(S3("true"), {"west"}, "true", {}),
               Descriptor(Absent, {}, "true", {60}), Malformed}
         [] OTHER -> {McNothing}]

McEnvironments ==
    [l \in DOMAIN McRows |->
       CASE l = "12" -> [requireVaultLock: BOOLEAN, requireCmk: {TRUE}]
         [] l = "13" ->
              [accounts: {{}, {"a1"}}, accountsValid: {TRUE}, requiredTags: {{"owner", "boundary_status"}}]
              \union [accounts: {{"a1"}}, accountsValid: {FALSE}, requiredTags: {{"owner"}}]
         [] l = "14" -> [maxStandingDays: {1}]
         [] l = "15" -> [rolesValid: BOOLEAN, pipelineRoles: {{Deploy}}]
         [] l = "16" ->
              [failSeverity: {"high"}, remediation: {"report"}, bucket: {TRUE},
               ignore: {{}, {[type |-> "*", attribute |-> "ami"]}}]
              \union [failSeverity: {"medium"}, remediation: {"dry_run", "apply"}, bucket: {TRUE},
                      ignore: {{[type |-> "aws_autoscaling_group", attribute |-> "*"]}}]
         [] l = "17" ->
              [failSeverity: {"high"}, bucket: {FALSE}, rtoTarget: {{}, {30}}, rpoTarget: {{15}},
               targetsValid: {TRUE}]
              \union [failSeverity: {"critical", "medium"}, bucket: {TRUE}, rtoTarget: {{90}}, rpoTarget: {{15}},
                      targetsValid: {TRUE}]
              \union [failSeverity: {"high"}, bucket: {TRUE}, rtoTarget: {{}}, rpoTarget: {{}},
                      targetsValid: {FALSE}]
         [] OTHER -> [configured: {TRUE}]]
=============================================================================
