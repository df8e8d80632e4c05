------------------------------- MODULE Estate -------------------------------
(***************************************************************************)
(* The account that labs 01-10 sweep, and what they hold against it: the   *)
(* kinds of resources they read, the facts they read of each, and the      *)
(* evaluators that turn facts into flaws (the violations, failures and     *)
(* stale or breached rows of their evidence).                              *)
(*                                                                         *)
(* The account is not the labs': its users and other tools create, change  *)
(* and delete resources at any time, a sweep in progress or not.           *)
(***************************************************************************)
EXTENDS Deadlines

CONSTANTS
    Item,            \* the resources there may be: [kind, n]
    Home,            \* the resource another one belongs to or writes to
    Facts,           \* [Kinds -> sets of facts]: what a resource may be like
    Gone,            \* the facts of a resource that is not there
    EvidenceBucket,  \* lab 07's own bucket
    MaxChanges       \* bound: changes of the account during a sweep

Kinds == {"user", "vulnerability", "iam_user", "access_key", "credential", "recorder",
          "rule", "detector", "finding", "key", "secret", "trail", "bucket", "vpc",
          "group", "runbook", "topic", "scanner", "repository"}

ASSUME ItemAssumption ==
    /\ Item \subseteq [kind: Kinds, n: Nat]
    /\ Home \in [Item -> Item]
    /\ EvidenceBucket \in Item
ASSUME HomeAssumption ==
    EvidenceBucket.kind = "bucket" /\ \A i \in Item :
        /\ i.kind = "access_key" => Home[i].kind = "iam_user"
        /\ i.kind = "finding" => Home[i].kind = "detector"
        /\ i.kind = "group" => Home[i].kind = "vpc"
        /\ i.kind = "trail" => Home[i].kind = "bucket"
\* What there may be, not what there is: the account may still be without one.
ASSUME TrailAssumption == \E i \in Item : i.kind = "trail"
ASSUME FactsAssumption == \A k \in Kinds : Gone \notin Facts[k]
ASSUME ChangesAssumption == MaxChanges \in Nat

-----------------------------------------------------------------------------
(* The evaluators: what each lab holds against the facts f of a resource.  *)

If(flawed, flaw) == IF flawed THEN {flaw} ELSE {}

\* Lab 01. A user's active factors; none of them may be a phishable one only.
Resistant == {"webauthn", "u2f", "signed_nonce"}
UserFlaws(f) == If(f.factors = {} \/ f.factors \intersect Resistant = {}, "mfa")

\* Lab 02. A finding without a date was first observed now: it has all its days left.
VulnerabilityFlaws(f) == If(f.dated /\ f.age > SlaDays[Classify(f.label)], "breached")

\* Lab 03. The age of a key, or of the last rotation, change or creation.
CredentialFlaws(f, rotated) ==
    If(f.age >= MaxSecretAge, "stale") \union If(~rotated, "rotation")

\* Lab 06. A secret without a date of its own is held against its owner.
SecretFlaws(f) == If(~f.rotates, "rotation") \union If(~f.dated \/ f.age > MaxSecretAge, "stale")
KeyFlaws(f) == If(~f.rotates, "rotation") \union If(f.public, "policy")

\* Lab 07. Object Lock is required of the buckets trails write to.
TrailFlaws(f) ==
    If(~f.logging, "logging") \union If(~f.validated, "validation") \union If(~f.encrypted, "kms")
BucketFlaws(f, required) ==
    If(~f.blocked, "public_access") \union If(~f.encrypted, "encryption")
    \union If(~f.versioned, "versioning") \union If(required /\ ~f.locked, "lock")

\* Lab 08. NoPort: the rule names no port.
NoPort == 65536
SensitivePorts == {22, 3389}
ExposedPorts(rule) ==
    IF rule.protocol = "-1" \/ rule.from = NoPort
    THEN SensitivePorts
    ELSE LET to == IF rule.to = NoPort THEN rule.from ELSE rule.to
         IN  {p \in SensitivePorts : rule.from <= p /\ p <= to}
GroupFlaws(f) == If(\E rule \in f.rules : rule.world /\ ExposedPorts(rule) # {}, "ingress")

\* Lab 10. Lambda scanning counts where the account's status reports it.
Resources == {"ec2", "ecr", "lambda"}
ScannerFlaws(f) ==
    {r \in Resources : r \notin f.enabled /\ (r = "lambda" => r \in f.reported)}
RepositoryFlaws(f) == If(~f.scans, "scan_on_push") \union If(~f.immutable, "tags")
RepositoryWarnings(f) == If(~f.kms, "warning")

-----------------------------------------------------------------------------
VARIABLES
    account,   \* [Item -> facts or Gone]
    changes    \* how often it changed during this sweep

Live(i) == account[i] # Gone
OfKind == [k \in Kinds |-> {i \in Item : i.kind = k}]

LiveTrails == {t \in OfKind["trail"] : Live(t)}
GovernedKeys == {k \in OfKind["key"] : Live(k) /\ account[k].governed}

\* Buckets are swept because of a trail, or because the evidence is there.
TrailBuckets(known) == {Home[t] : t \in known \intersect OfKind["trail"]}

(***************************************************************************)
(* What the labs note of resource i, given the trails and the keys that    *)
(* they know to be in scope.  A runbook that is not there is a flaw.       *)
(***************************************************************************)
Judged(i, known) ==
    LET f == account[i]
        k == i.kind
    IN  IF ~Live(i) THEN If(k = "runbook", "runbook")
        ELSE CASE k = "user"          -> UserFlaws(f)
               [] k = "vulnerability" -> VulnerabilityFlaws(f)
               [] k = "access_key"    -> CredentialFlaws(f, TRUE)
               [] k = "credential"    -> CredentialFlaws(f, f.rotates)
               [] k = "secret"        -> SecretFlaws(f)
               [] k = "rule"          -> If(f.compliance = "NON_COMPLIANT", "drift")
               [] k = "detector"      -> If(~f.enabled, "disabled")
               [] k = "finding"       -> If(~f.archived, "active")
               [] k = "key"           -> IF i \in known THEN KeyFlaws(f) ELSE {}
               [] k = "trail"         -> TrailFlaws(f)
               [] k = "bucket"        ->
                    IF i \in TrailBuckets(known) \union {EvidenceBucket}
                    THEN BucketFlaws(f, i \in TrailBuckets(known)) ELSE {}
               [] k = "vpc"           -> If(~f.flow, "flow_log")
               [] k = "group"         -> GroupFlaws(f)
               [] k = "runbook"       -> If(~f.active, "runbook")
               [] k = "topic"         -> If(f.confirmed = 0, "subscribers")
               [] k = "scanner"       -> ScannerFlaws(f)
               [] k = "repository"    -> RepositoryFlaws(f) \union RepositoryWarnings(f)
               [] OTHER               -> {}

\* Users are deleted after their keys, detectors take their findings along,
\* a VPC is not deleted before its groups.
Rooted == \A k \in {"access_key", "finding", "group"} : \A i \in OfKind[k] : Live(i) => Live(Home[i])

\* Somebody creates, changes or deletes a resource.
Change(i, f) ==
    /\ changes < MaxChanges
    /\ f # account[i]
    /\ account' = [account EXCEPT ![i] = f]
    /\ Rooted'
    /\ changes' = changes + 1
=============================================================================
