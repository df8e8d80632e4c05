------------------------------- MODULE Sweeps -------------------------------
(***************************************************************************)
(* Labs 01-10 between their configuration and their evidence: the walk     *)
(* over an account that goes on changing.  A walk is a sequence of phases, *)
(* one per function or loop of the handler that calls an API: it goes over *)
(* the resources of a kind, or over what an earlier phase kept, some at a  *)
(* time, and notes the flaws it can see there.  Which lab sweeps is chosen *)
(* in Init.  The pipeline around the sweep is ScheduledLab.                *)
(***************************************************************************)
EXTENDS Estate, Sequences, FiniteSets

CONSTANTS
    Walks,        \* the labs a behaviour may be of
    MaxPages,     \* lab 01's cap on pages
    Budget,       \* seconds the function has
    Reserve,      \* of these, kept for what follows the sweep
    MinTimeout,   \* no request is started with less time than this
    Whole         \* stands for the account in flaws that are no resource's

ASSUME WholeAssumption == Whole \notin Item
ASSUME BudgetAssumption == {MaxPages, Budget, Reserve, MinTimeout} \subseteq Nat /\ MinTimeout > 0

(***************************************************************************)
(* over: what it goes over, a kind of resources or an earlier phase's      *)
(* results.  by: what one call covers, a page of a list, the whole list,   *)
(* or one resource.  members: it reads what belongs to these instead.      *)
(* reads: the flaws that each of its calls can see, in order.  keeps: what *)
(* it keeps for later phases.  gone: what comes of a resource that is not  *)
(* there any more.  none: what comes of a phase that keeps nothing.        *)
(***************************************************************************)
List(name, kind, flaws) ==
    [name |-> name, kind |-> kind, over |-> kind, by |-> "page", members |-> FALSE,
     reads |-> <<flaws>>, keeps |-> "all", gone |-> "skipped", none |-> "go_on"]
Each(name, kind, over, reads) ==
    [List(name, kind, {}) EXCEPT !.over = over, !.by = "one", !.reads = reads, !.gone = "ERROR"]

Kept(phase, f) ==
    CASE phase.keeps = "all"        -> TRUE
      [] phase.keeps = "recording"  -> f.recording
      [] phase.keeps = "compliant"  -> f.compliance = "COMPLIANT"
      [] phase.keeps = "enabled"    -> f.enabled
      [] phase.keeps = "governed"   -> f.governed
      [] phase.keeps = "unarchived" -> ~f.archived

\* Lab 01: the pages of active users, then the factors of each.
FetchUsers == List("users", "user", {})
FetchFactors == Each("factors", "user", "users", <<{"mfa"}>>)

\* Lab 02.
FetchOpenFindings == List("vulnerabilities", "vulnerability", {"breached"})

\* Lab 03: each user's keys are listed when the user is.
DiscoverAccessKeys ==
    [List("keys", "access_key", {"stale"}) EXCEPT
        !.over = "iam_user", !.by = "one", !.members = TRUE]
DiscoverSecrets == List("secrets", "credential", {"stale", "rotation"})

\* Lab 04: is anything recorded, are there rules, what do they say.
CheckRecorders ==
    [List("recorders", "recorder", {}) EXCEPT
        !.by = "all", !.keeps = "recording", !.none = "CONFIG_ERROR"]
FetchConfigRules == [List("rules", "rule", {}) EXCEPT !.none = "CONFIG_ERROR"]
FetchRuleCompliance == [List("compliance", "rule", {"drift"}) EXCEPT !.keeps = "compliant"]

\* Lab 05.
ListDetectorIds == [List("detectors", "detector", {}) EXCEPT !.none = "CONFIG_ERROR"]
DetectorPosture ==
    [Each("posture", "detector", "detectors", <<{"disabled"}>>) EXCEPT !.keeps = "enabled"]
FetchHighSeverityFindings ==
    [Each("findings", "finding", "posture", <<{"active"}>>) EXCEPT
        !.members = TRUE, !.keeps = "unarchived"]

\* Lab 06: a key is described when its id is listed.
ListCustomerKeys == [List("keys", "key", {}) EXCEPT !.keeps = "governed"]
EvaluateKeys == Each("key_results", "key", "keys", <<{"rotation"}, {"policy"}>>)
ListSecrets == List("secrets", "secret", {"rotation", "stale"})

\* Lab 07: the trails in one call, the status of each, then each bucket.
DescribeTrails == [List("trails", "trail", {"validation", "kms", "coverage"}) EXCEPT !.by = "all"]
TrailStatus == Each("status", "trail", "trails", <<{"logging"}>>)
BucketPosture ==
    Each("buckets", "bucket", "trail_buckets",
         <<{"public_access"}, {"encryption"}, {"versioning"}, {"lock"}>>)

\* Lab 08: the flow log of a VPC deleted meanwhile may be gone or not.
ListVpcs == [List("vpcs", "vpc", {}) EXCEPT !.none = "conclude"]
FlowLogsByResource ==
    [List("flow_logs", "vpc", {"flow_log"}) EXCEPT !.over = "vpcs", !.gone = "doubtful"]
ListSecurityGroups == List("groups", "group", {"ingress"})

\* Lab 09.
CheckRunbooks == [List("runbooks", "runbook", {"runbook"}) EXCEPT !.by = "one"]
CheckEscalationTopic == Each("escalation", "topic", "topic", <<{"subscribers"}>>)

\* Lab 10.
FetchInspectorAccounts ==
    [List("accounts", "scanner", Resources) EXCEPT !.by = "all", !.none = "CONFIG_ERROR"]
ListRepositories == List("repositories", "repository", {"scan_on_push", "tags", "warning"})

Walk01 == <<FetchUsers, FetchFactors>>
Walk02 == <<FetchOpenFindings>>
Walk03 == <<DiscoverAccessKeys, DiscoverSecrets>>
Walk04 == <<CheckRecorders, FetchConfigRules, FetchRuleCompliance>>
Walk05 == <<ListDetectorIds, DetectorPosture, FetchHighSeverityFindings>>
Walk06 == <<ListCustomerKeys, EvaluateKeys, ListSecrets>>
Walk07 == <<DescribeTrails, TrailStatus, BucketPosture>>
Walk08 == <<ListVpcs, FlowLogsByResource, ListSecurityGroups>>
Walk09 == <<CheckRunbooks, CheckEscalationTopic>>
Walk10 == <<FetchInspectorAccounts, ListRepositories>>
AllWalks == {Walk01, Walk02, Walk03, Walk04, Walk05, Walk06, Walk07, Walk08, Walk09, Walk10}

ASSUME WalksAssumption == Walks \subseteq AllWalks

-----------------------------------------------------------------------------
VARIABLES
    walk,       \* the walk of the lab that sweeps
    at,         \* the phase it is in
    todo,       \* what the phase has not gone over yet
    cursor,     \* the resource it is at, and how many of its reads are done
    kept,       \* what each phase kept
    found,      \* the flaws on record: <<resource or Whole, flaw>>
    pages,      \* lab 01: pages asked for
    remaining,  \* lab 01: seconds left
    verdict,    \* the answer of the sweep, "none" before
    still       \* history: the flaws that have been there all along

vars == <<account, changes, walk, at, todo, cursor, kept, found, pages, remaining, verdict, still>>
estate == <<account, changes, still>>
position == <<at, todo, cursor>>
results == <<kept, found>>
limits == <<pages, remaining>>

Verdicts == {"PASS", "FAIL", "NOT_APPLICABLE", "ERROR", "CONFIG_ERROR"}
Idle == [item |-> Whole, reads |-> 0]
Phases == {walk[k] : k \in DOMAIN walk}
SweptBy == [w \in Walks |-> {i \in Item : \E k \in DOMAIN w : i.kind \in {w[k].kind, w[k].over}}]
Swept == SweptBy[walk]

\* What the account as a whole may be blamed for: nothing there of what a
\* phase must find, no trail that covers all regions.
Needed(p) == p.none = "CONFIG_ERROR" \/ p.keeps = "compliant"
Lacks(p) == \A i \in OfKind[p.kind] : Live(i) => ~Kept(p, account[i])
Uncovered == \A t \in LiveTrails : ~account[t].multiregion

\* Everything the lab has to hold against the account as it is now.
ItemFlaws ==
    UNION {{<<i, r>> : r \in Judged(i, LiveTrails \union GovernedKeys) \ {"warning"}} : i \in Swept}
LackFlaws == {<<Whole, p.name>> : p \in {q \in Phases : Needed(q) /\ Lacks(q)}}
CoverFlaws == IF walk = Walk07 /\ Uncovered THEN {<<Whole, "coverage">>} ELSE {}
Flaws == ItemFlaws \union LackFlaws \union CoverFlaws

\* A sweep begins, of the account as it is.
Begin ==
    /\ Rooted
    /\ changes = 0
    /\ at = 1
    /\ todo = OfKind[walk[1].over]
    /\ cursor = Idle
    /\ kept = [n \in {p.name : p \in Phases} |-> {}]
    /\ found = {}
    /\ pages = 0
    /\ remaining = Budget
    /\ verdict = "none"
    /\ still = Flaws

Init ==
    /\ walk \in Walks
    /\ account \in [Item -> (UNION {Facts[k] : k \in Kinds}) \union {Gone}]
    /\ \A i \in Item : account[i] \in Facts[i.kind] \union {Gone}
    /\ Begin

\* The account changes under the sweep.
Disturb ==
    /\ verdict = "none"
    /\ \E i \in Swept : \E f \in Facts[i.kind] \union {Gone} : Change(i, f)
    /\ UNCHANGED <<walk, position, results, limits, verdict>>
    /\ still' = still \intersect Flaws'

-----------------------------------------------------------------------------
(* The sweep.                                                              *)

Sweeping == verdict = "none" /\ at \in DOMAIN walk
Phase == walk[at]
\* Lab 01 watches its time and counts its pages; others leave it to boto3.
Timed == walk = Walk01
Paging == Phase.by = "page"
Late == Timed /\ remaining < Reserve + MinTimeout
\* Mutant: compared after the request instead of before it.
TooManyPagesLate == Timed /\ Paging /\ pages > MaxPages
TooManyPages == Timed /\ Paging /\ pages = MaxPages

\* What a call may cover.  The identity provider may send an empty page, and
\* a link to a next one, whenever it likes.
Portions ==
    IF cursor.reads > 0 THEN {{cursor.item}}
    ELSE CASE Phase.by = "one"  -> {{i} : i \in todo}
           [] Phase.by = "all"  -> {todo} \ {{}}
           [] Phase.by = "page" -> IF Timed THEN SUBSET todo ELSE (SUBSET todo) \ {{}}

Targets(S) == IF Phase.members THEN {i \in OfKind[Phase.kind] : Home[i] \in S} ELSE S
Vanished(S) == {i \in S : ~Live(i)}
\* The trails and keys an earlier phase found in scope.
Known == IF walk = Walk07 THEN kept["trails"] ELSE IF walk = Walk06 THEN kept["keys"] ELSE {}

\* The flaws in sight of the read that is due.
Watched == Phase.reads[cursor.reads + 1]
InSight(S) ==
    (UNION {{<<i, r>> : r \in Judged(i, Known) \intersect Watched} : i \in Targets(S)})
    \union (IF "coverage" \in Watched /\ Uncovered THEN {<<Whole, "coverage">>} ELSE {})
Doubtful(S) == IF Phase.gone = "doubtful" THEN Vanished(S) \X Watched ELSE {}

\* Mutant: the page counter starts again when it has counted to the cap.
SpendTimeWraps ==
    IF Timed
    THEN remaining' \in 0..remaining /\ pages' = (pages + (IF Paging THEN 1 ELSE 0)) % MaxPages
    ELSE UNCHANGED limits
SpendTime ==
    IF Timed
    THEN remaining' \in 0..remaining /\ pages' = pages + (IF Paging THEN 1 ELSE 0)
    ELSE UNCHANGED limits

Read(S) ==
    /\ ~Late /\ ~TooManyPages
    /\ Phase.gone = "ERROR" => Vanished(S) = {}
    /\ \E doubts \in SUBSET Doubtful(S) : found' = found \union InSight(S) \union doubts
    /\ kept' = [kept EXCEPT ![Phase.name] =
                   @ \union {i \in Targets(S) : Live(i) /\ Kept(Phase, account[i])}]
    /\ IF cursor.reads + 1 < Len(Phase.reads)
       THEN /\ \E i \in S : cursor' = [item |-> i, reads |-> cursor.reads + 1]
            /\ UNCHANGED todo
       ELSE todo' = todo \ S /\ cursor' = Idle
    /\ SpendTime
    /\ UNCHANGED <<estate, walk, at, verdict>>

Answer(v) == verdict' = v /\ UNCHANGED <<estate, walk, position, results, limits>>

\* Mutant: a population that is too large or too slow is judged as far as read.
GiveUpPartial ==
    /\ Sweeping
    /\ Portions # {} /\ (TooManyPages \/ Late)
    /\ Answer(IF found = {} THEN "PASS" ELSE "FAIL")

\* Out of pages or time with more to ask for, or the resource is gone.
GiveUp ==
    /\ Sweeping
    /\ \/ Portions # {} /\ (TooManyPages \/ Late)
       \/ Phase.gone = "ERROR" /\ \E S \in Portions : Vanished(S) # {}
    /\ Answer("ERROR")

\* Any call may be refused or fail.
Fail == Sweeping /\ Answer("ERROR")

TodoOf(p) ==
    IF p.over = "trail_buckets" THEN TrailBuckets(kept["trails"]) \union {EvidenceBucket}
    ELSE IF p.over \in Kinds THEN OfKind[p.over] ELSE kept[p.over]

Proceed ==
    /\ Sweeping /\ todo = {}
    /\ LET empty == kept[Phase.name] = {}
       IN  IF empty /\ Phase.none = "CONFIG_ERROR" THEN Answer("CONFIG_ERROR")
           ELSE /\ at' = IF empty /\ Phase.none = "conclude" THEN Len(walk) + 1 ELSE at + 1
                /\ todo' = IF at' \in DOMAIN walk THEN TodoOf(walk[at']) ELSE {}
                /\ UNCHANGED <<estate, walk, cursor, results, limits, verdict>>

\* The verdict of each lab's evaluate or build_evidence: what it fails on, and
\* what else it takes into account.
FailOn(flaws) == IF \E x \in found : x[2] \in flaws THEN "FAIL" ELSE "PASS"

Evaluate01 == FailOn({"mfa"})
BuildEvidence02 == FailOn({"breached"})
BuildEvidence03 == FailOn({"stale", "rotation"})
BuildEvidence04 == IF kept["compliance"] = {} THEN "FAIL" ELSE FailOn({"drift"})
BuildEvidence05 == FailOn({"disabled", "active"})
\* Mutant: there is nothing to govern where there is no key.
NoKeys06 == IF kept["keys"] = {} THEN "NOT_APPLICABLE" ELSE FailOn({"rotation", "policy", "stale"})
BuildEvidence06 ==
    IF kept["keys"] = {} /\ kept["secrets"] = {} THEN "NOT_APPLICABLE"
    ELSE FailOn({"rotation", "policy", "stale"})
BuildEvidence07 ==
    FailOn({"logging", "validation", "kms", "coverage"}
           \union {"public_access", "encryption", "versioning", "lock"})
BuildEvidence08 == IF kept["vpcs"] = {} THEN "NOT_APPLICABLE" ELSE FailOn({"flow_log", "ingress"})
BuildEvidence09 == FailOn({"runbook", "subscribers"})
BuildEvidence10 == FailOn(Resources \union {"scan_on_push", "tags"})

Judgement ==
    CASE walk = Walk01 -> Evaluate01
      [] walk = Walk02 -> BuildEvidence02
      [] walk = Walk03 -> BuildEvidence03
      [] walk = Walk04 -> BuildEvidence04
      [] walk = Walk05 -> BuildEvidence05
      [] walk = Walk06 -> BuildEvidence06
      [] walk = Walk07 -> BuildEvidence07
      [] walk = Walk08 -> BuildEvidence08
      [] walk = Walk09 -> BuildEvidence09
      [] walk = Walk10 -> BuildEvidence10

Conclude == verdict = "none" /\ at = Len(walk) + 1 /\ Answer(Judgement)

Sweep == (Sweeping /\ \E S \in Portions : Read(S)) \/ GiveUp \/ Proceed \/ Conclude
Next == Disturb \/ Sweep \/ Fail
Spec == Init /\ [][Next]_vars

\* The worker that sweeps runs; the account need not change.
FairSpec == Spec /\ WF_vars(Sweep)

-----------------------------------------------------------------------------
(* Properties.                                                             *)

\* What the walk looks for: all that there is to hold against the account.
Sought == UNION {UNION {p.reads[n] : n \in DOMAIN p.reads} : p \in Phases}

\* The types: flaws on record are of resources or of the account, and are among
\* those that some phase of the walk looks for.
TypeOK ==
    /\ walk \in Walks
    /\ \A i \in Item : account[i] \in Facts[i.kind] \union {Gone}
    /\ changes \in 0..MaxChanges
    /\ at \in 1..Len(walk) + 1
    /\ todo \subseteq Item
    /\ cursor \in [item: Item \union {Whole}, reads: 0..3]
    /\ \A n \in DOMAIN kept : kept[n] \subseteq Item
    /\ found \subseteq (Item \union {Whole}) \X Sought
    /\ pages \in 0..MaxPages
    /\ remaining \in 0..Budget
    /\ verdict \in Verdicts \union {"none"}
    /\ still \subseteq (Item \union {Whole}) \X (Sought \union {p.name : p \in Phases})

\* A flaw that is there from the first call of the sweep to its answer does not
\* get past it, whatever else comes, goes or changes meanwhile, in whatever
\* portions lists arrive, and wherever a loop starts from an earlier listing:
\* PASS and NOT_APPLICABLE are only given to an account without such a flaw.
LastingFlawFails == verdict \in {"PASS", "NOT_APPLICABLE"} => still = {}

\* Over an account that does not change the sweep is exact: it answers FAIL if
\* there is a flaw at all, and not if there is none.
QuietSweepIsExact ==
    changes = 0 /\ verdict \in {"PASS", "FAIL", "NOT_APPLICABLE"} =>
        (verdict = "FAIL" <=> Flaws # {})

\* Every sweep comes to an answer, also against an identity provider that
\* always names a next page (MAX_PAGES: "cannot_spin_the_function_forever").
SweepEnds == <>(verdict # "none")
=============================================================================
