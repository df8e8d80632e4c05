----------------------------- MODULE Terraform -----------------------------
(***************************************************************************)
(* What labs 16 and 17 hold against what CI derives from Terraform: a plan *)
(* of a refresh, whose rows are its drift entries, and a DR descriptor,    *)
(* whose rows are the data stores.  Both judge what is at or above the     *)
(* severity FAIL_SEVERITY, and give a case per control.  A head is         *)
(* Malformed if the document is none, or misses what it must have.         *)
(***************************************************************************)
EXTENDS Registers

SeverityOrder == [low |-> 0, medium |-> 1, high |-> 2, critical |-> 3]
AtLeast(severity, threshold) == SeverityOrder[severity] >= SeverityOrder[threshold]

-----------------------------------------------------------------------------
(* Lab 16. An entry has a list, a type, actions and changed attributes.    *)

\* Patterns of types and attributes, as far as they tell entries apart.
CriticalTypes == {"aws_security_group", "aws_security_group_rule", "aws_iam_policy",
                  "aws_iam_role_policy", "aws_s3_bucket_policy", "aws_kms_key"}
HighTypes == {"aws_iam_role", "aws_iam_user", "aws_db_instance", "aws_lambda_function"}
CriticalAttributes == {"assume_role_policy", "egress", "ingress", "policy"}
HighAttributes == {"instance_type", "publicly_accessible"}
LowAttributes == {"description", "tags", "tags_all"}

\* The other attributes are told apart by where they sort.
Alphabet == [ami |-> 1, assume_role_policy |-> 2, description |-> 3, desired_capacity |-> 4,
             egress |-> 5, ingress |-> 6, instance_type |-> 7, policy |-> 8,
             publicly_accessible |-> 9, tags |-> 10, tags_all |-> 11]
NoAttribute == "none"

DriftActions(e) == e.actions \ {"no-op"}

ClassifySeverity(e, a) ==
    IF e.type \in CriticalTypes \/ a \in CriticalAttributes THEN "critical"
    ELSE IF "delete" \in DriftActions(e) THEN "high"
    ELSE IF e.type \in HighTypes \/ a \in HighAttributes THEN "high"
    ELSE IF a \in LowAttributes THEN "low"
    ELSE "medium"

\* A pattern names a type and an attribute, "*" any of them or none at all.
IsIgnored(e, a, env) == \E p \in env.ignore : p.type \in {"*", e.type} /\ p.attribute \in {"*", a}

\* resource_changes counts where resource_drift is absent or empty; a malformed
\* entry is one of the list that counts.
Drifted(s) == {e \in s.rows : e # Malformed /\ e.list = "resource_drift"}
ExtractDrift(s) ==
    IF Drifted(s) # {} THEN Drifted(s)
    ELSE {e \in s.rows : e # Malformed /\ DriftActions(e) # {}}

Attributes(e) == IF e.attributes = {} THEN {NoAttribute} ELSE e.attributes
\* The attributes are sorted; the first one speaks for the entry.
Primary(e) ==
    IF e.attributes = {} THEN NoAttribute
    ELSE CHOOSE a \in e.attributes : \A b \in e.attributes : Alphabet[a] <= Alphabet[b]
Expected(e, env) ==
    \/ IsIgnored(e, Primary(e), env)
    \/ e.attributes # {} /\ \A a \in e.attributes : IsIgnored(e, a, env)

\* The severity of an entry is the worst of its attributes'.
Grave(e, env) == \E a \in Attributes(e) : AtLeast(ClassifySeverity(e, a), env.failSeverity)
ActionableDrift(s, env) == {e \in ExtractDrift(s) : ~Expected(e, env) /\ Grave(e, env)}

Configured16(env) ==
    env.failSeverity \in DOMAIN SeverityOrder /\ env.remediation \in {"report", "dry_run"}

Verdict16(s, env) ==
    IF ~Configured16(env) THEN "CONFIG_ERROR"
    ELSE IF ~WellFormed(s) \/ s.head = Malformed THEN "ERROR"
    ELSE Judge(ActionableDrift(s, env) # {})

\* One drift unsettles all the controls of the lab.
Controls16 == {"CFG-01", "CFG-02", "CPL-01", "MON-01", "CHG-02"}
Unsatisfied16(s, env) == IF Verdict16(s, env) = "PASS" THEN {} ELSE Controls16

-----------------------------------------------------------------------------
(* Lab 17. The head has the backend, the regions, failover_routing and the *)
(* declared objectives; a row is a data store.                             *)

Finding(code, severity, control) == [code |-> code, severity |-> severity, control |-> control]

LocalBackend == [type |-> "local"]
Backend(d) == IF d.backend = Absent THEN LocalBackend ELSE d.backend
BackendFlags == {"locking", "versioning", "kms_encrypted", "cross_region_replication"}
EvaluateBackend(b) ==
    IF b.type = "local" THEN {Finding("state-backend-local", "critical", "CFG-01")}
    ELSE {Finding(flag, "high", "CFG-01") : flag \in {f \in BackendFlags : ~Truthy(b.flags[f])}}

IsDurable(store) ==
    Truthy(store.replication) \/ (Truthy(store.pitr) /\ Truthy(store.backup))
CriticalStores(s) == {store \in s.rows : store # Malformed /\ Truthy(store.critical)}

\* An RTO of zero is as good as none.
LongerThanAnHour(rto) == rto \subseteq {0} \/ \E m \in rto : m > 60

EvaluateArchitecture(s) ==
    LET d == s.head
    IN  {f \in {Finding("recovery-region", "high", "BCD-12")} : d.recovery \subseteq d.primary}
        \union {f \in {Finding("no-critical-stores-identified", "medium", "BCD-02")} :
                    CriticalStores(s) = {}}
        \union {f \in {Finding("store-not-cross-region-durable", "critical", "BCD-11")} :
                    \E store \in CriticalStores(s) : ~IsDurable(store)}
        \union {f \in {Finding("no-failover-routing",
                               IF LongerThanAnHour(d.rto) THEN "medium" ELSE "high", "BCD-12")} :
                    ~Truthy(d.failover)}

\* A target of zero is no target.
EvaluateObjective(name, declared, target, control) ==
    IF target = {} THEN {}
    ELSE IF declared = {} THEN {Finding(name, "medium", "BCD-01")}
    ELSE {f \in {Finding(name, "high", control)} : \E m \in declared, t \in target : m > t}
EvaluateObjectives(d, env) ==
    EvaluateObjective("rto", d.rto, env.rtoTarget, "BCD-12")
    \union EvaluateObjective("rpo", d.rpo, env.rpoTarget, "BCD-11")

Findings17(s, env) ==
    EvaluateBackend(Backend(s.head)) \union EvaluateArchitecture(s)
    \union EvaluateObjectives(s.head, env)
Actionable17(s, env) == {f \in Findings17(s, env) : AtLeast(f.severity, env.failSeverity)}

Configured17(env) == env.failSeverity \in DOMAIN SeverityOrder /\ env.targetsValid

Verdict17(s, env) ==
    IF ~Configured17(env) THEN "CONFIG_ERROR"
    ELSE IF ~WellFormed(s) \/ s.head = Malformed THEN "ERROR"
    ELSE Judge(Actionable17(s, env) # {})

Controls17 == {"BCD-01", "BCD-02", "BCD-11", "BCD-12", "CFG-01"}
\* Mutant: whatever was found unsettles its control, actionable or not.
Unsatisfied17All(s, env) == {c \in Controls17 : \E f \in Findings17(s, env) : f.control = c}
Unsatisfied17(s, env) == {c \in Controls17 : \E f \in Actionable17(s, env) : f.control = c}
=============================================================================
