----------------------------- MODULE Registers -----------------------------
(***************************************************************************)
(* What labs 02, 03 and 12-17 hold against data that somebody else hands   *)
(* them: findings, credentials, recovery objectives, an inventory, a       *)
(* roster, change events, a Terraform plan, a DR descriptor.               *)
(*                                                                         *)
(* A submission s has a set of rows and a head, what it says apart from    *)
(* them; the rows of the wrong shape are Malformed.  env is the            *)
(* environment of the function.  Dates are days, optional values are sets  *)
(* of at most one element, and the booleans of a row are raw: "true",      *)
(* "false", the string "false", or something that is neither.              *)
(***************************************************************************)
EXTENDS Deadlines, Integers

CONSTANTS Malformed, Absent

Raw == {"true", "false", "quoted false", "unclear"}
\* coerce_bool(raw) is True, is False.
Attested(raw) == raw = "true"
Denied(raw) == raw \in {"false", "quoted false"}
\* bool(raw): any other string than the empty one is true.
Truthy(raw) == raw # "false"

Judge(flawed) == IF flawed THEN "FAIL" ELSE "PASS"
WellFormed(s) == Malformed \notin s.rows

-----------------------------------------------------------------------------
\* Lab 02: findings in the event. Without a date, first observed now.
Breached(f, now) == \E d \in f.observed : now > d + SlaDays[Classify(f.label)]
Verdict02(s, now) ==
    IF s.rows = {} THEN "SWEEP"
    ELSE IF ~WellFormed(s) THEN "ERROR"
    ELSE Judge(\E f \in s.rows : Breached(f, now))

\* Lab 03: credentials in the event.
Stale(c, now) == now >= c.created + MaxSecretAge \/ Denied(c.rotates)
Verdict03(s, now) ==
    IF s.rows = {} THEN "SWEEP"
    ELSE IF ~WellFormed(s) THEN "ERROR"
    ELSE Judge(\E c \in s.rows : Stale(c, now))

\* Lab 14: the standing privileges of a roster. No age counts as none.
Standing(row, env) == Attested(row.privileged) /\ \E d \in row.days : d > env.maxStandingDays
ReviewStandingPrivilege(s, env) ==
    IF ~WellFormed(s) THEN "ERROR" ELSE Judge(\E row \in s.rows : Standing(row, env))

-----------------------------------------------------------------------------
(* Lab 12: recovery objectives and the last restore test of each asset.    *)
MaxTestAge == 90
RecoveryObjective ==
    [criticality: STRING, rto: Int, rpo: Int, frequency: Int, locked: Raw, cmk: Raw,
     tested: SUBSET Int, duration: SUBSET Int, success: Raw]

\* A duration that is no number exceeds nothing.
Undrilled(o, now) ==
    \/ o.tested = {}
    \/ Denied(o.success)
    \/ ~Attested(o.success) /\ o.criticality = "mission_critical"
    \/ \E d \in o.duration : d > o.rto
    \/ o.criticality = "mission_critical" /\ \E d \in o.tested : now > d + MaxTestAge

EvaluateAsset(o, env, now) ==
    Judge(\/ o.frequency > o.rpo
          \/ env.requireCmk /\ ~Attested(o.cmk)
          \/ env.requireVaultLock /\ ~Attested(o.locked)
          \/ Undrilled(o, now))

Covered(s) == {o \in s.rows : o.criticality \in {"mission_critical", "high"}}
Aligned(s, env, now) == \A o \in Covered(s) : EvaluateAsset(o, env, now) = "PASS"

Verdict12(s, env, now) ==
    IF s.rows = {} THEN "CONFIG_ERROR"
    ELSE IF ~WellFormed(s) THEN "ERROR"
    ELSE Judge((\E o \in s.rows : EvaluateAsset(o, env, now) = "FAIL") \/ ~Aligned(s, env, now))

-----------------------------------------------------------------------------
(* Lab 13: an inventory against the boundary in the event, or else in the  *)
(* environment; never both.  The boundary of the environment lists no      *)
(* services.  A tag is there if it has a value.                            *)

Boundary(s, env) ==
    IF s.head.boundary # Absent THEN s.head.boundary
    ELSE [accounts |-> env.accounts, services |-> {}]

Classification(i, b) ==
    IF i.account \notin b.accounts THEN "out_of_boundary"
    ELSE IF i.status = "inherited" \/ i.type = "AWS::Inherited" THEN "inherited"
    ELSE IF i.status \in {"", "in_boundary"} THEN "in_boundary"
    ELSE "unknown"
HasTag(i, tag) == IF tag = "boundary_status" THEN i.status # "" ELSE tag \in i.tags

\* Only three-part types are looked up in the catalog, and only in one that
\* lists any.
Issue(i, b, env) ==
    \/ Classification(i, b) \in {"out_of_boundary", "unknown"}
    \/ i.federal /\ \E tag \in env.requiredTags : ~HasTag(i, tag)
    \/ /\ i.federal /\ Classification(i, b) = "in_boundary"
       /\ i.threePart /\ b.services # {} /\ i.type \notin b.services

Verdict13(s, env) ==
    IF s.head.boundary = Malformed THEN "ERROR"
    ELSE IF s.head.boundary = Absent /\ (env.accounts = {} \/ ~env.accountsValid) THEN "CONFIG_ERROR"
    ELSE IF s.rows = {} THEN "CONFIG_ERROR"
    ELSE IF ~WellFormed(s) THEN "ERROR"
    ELSE Judge(\E i \in s.rows : Issue(i, Boundary(s, env), env))

-----------------------------------------------------------------------------
(* Lab 15: change events and the run of a pipeline.                        *)
ForbiddenEventNames ==
    {"PutBucketPolicy", "DeleteBucketPolicy", "AuthorizeSecurityGroupIngress",
     "RevokeSecurityGroupIngress", "ModifyDBInstance", "PutUserPolicy", "AttachUserPolicy",
     "CreateAccessKey", "PutRolePolicy", "StopLogging", "DeleteTrail",
     "UpdateFunctionCode20150331v2"}
ChangeEvent ==
    [name: STRING, principal: [form: STRING, account: STRING, name: STRING],
     ticket: SUBSET STRING, claimed: Raw]

\* A role and a session of it are the role; nobody else is a pipeline.
NormalizePrincipal(p) ==
    IF p.form \in {"role", "assumed-role"} THEN {[account |-> p.account, name |-> p.name]} ELSE {}

ViaPipeline(c, env) == \E role \in NormalizePrincipal(c.principal) : role \in env.pipelineRoles
\* Mutant: an event that says it came from a pipeline is believed.
EvaluateClaim(c, env) ==
    Judge(/\ c.name \in ForbiddenEventNames
          /\ \/ ~ViaPipeline(c, env) /\ ~Attested(c.claimed)
             \/ c.ticket = {})
EvaluateChangeEvent(c, env) ==
    Judge(/\ c.name \in ForbiddenEventNames
          /\ (~ViaPipeline(c, env) \/ c.ticket = {}))

RequiredGates == {"iac_scan", "policy_as_code", "unit"}
\* Mutant: where no gate is reported, none is missing.
EvaluatePipelineReported(p) ==
    Judge(\/ p.gates # {} /\ ~(RequiredGates \subseteq p.gates)
          \/ p.deployed /\ ~p.validated
          \/ ~p.immutableCommit)
EvaluatePipeline(p) ==
    Judge(\/ ~(RequiredGates \subseteq p.gates)
          \/ p.deployed /\ ~p.validated
          \/ ~p.immutableCommit)

\* Either part may be left out; an empty list of events is a list.
ChangeEvents(s) == IF s.head.events = "list" THEN s.rows ELSE {}
Verdict15(s, env) ==
    IF ~env.rolesValid THEN "CONFIG_ERROR"
    ELSE IF s.head.events = "absent" /\ s.head.pipeline = Absent THEN "ERROR"
    ELSE IF s.head.events = "no list" \/ Malformed \in ChangeEvents(s) \/ s.head.pipeline = Malformed
    THEN "ERROR"
    ELSE Judge(\/ \E c \in ChangeEvents(s) : EvaluateChangeEvent(c, env) = "FAIL"
               \/ s.head.pipeline # Absent /\ EvaluatePipeline(s.head.pipeline) = "FAIL")
=============================================================================
