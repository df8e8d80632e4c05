---------------------------- MODULE DeletionCase ----------------------------
(***************************************************************************)
(* Lab 11: a federal data-deletion case, from the Step Functions execution *)
(* that opens it to the evidence, case row, finding and alert it leaves.   *)
(* One worker function (reserved concurrency 1) serves every execution; it *)
(* purges the cataloged stores, expires tenant-tagged recovery points,     *)
(* rescans the stores and only then writes its verdict.  The tenant keeps  *)
(* writing while the worker runs, deletes may be partial, recovery points  *)
(* disappear asynchronously, any call may raise, the sandbox may die and   *)
(* the orchestrator may lose the answer of a run that goes on.             *)
(*                                                                         *)
(* An Item is one object version, table row or recovery point of the       *)
(* tenant: it is written once, never rewritten under the same identity.    *)
(* A Store is a catalog entry; the catalog is visited in any order.        *)
(***************************************************************************)
EXTENDS Naturals, FiniteSets

CONSTANTS
    Store,      \* catalog entries
    Vault,      \* backup vaults
    NoVault,    \* "no backup_vault given"
    Service,    \* [Store -> Services]: the service of an entry
    Federal,    \* the entries with contains_federal_data
    Foreign,    \* the entries tagged with another tenant
    VaultOf,    \* [Store -> Vault or NoVault]: backup_vault of an entry
    NamedVault, \* [Store -> Vault]: the vault a "backup" entry names
    DemoStore,  \* the demo footprint of simulation mode
    Item, Home, \* tenant data, and the store or vault each item lives in
    CaseName, NoCase,
    Exec,       \* Step Functions executions
    MaxTries,   \* invocations of one execution: the first and its retries
    Requests,   \* the inputs an execution may be started with
    Policies    \* the deployments: ENABLE_PURGE, REQUIRE_BACKUP_PURGE, CASE_TABLE

LiveServices == {"s3", "dynamodb"}
ManualServices == {"rds", "opensearch"}
Services == LiveServices \union ManualServices \union {"backup"}

Run == Exec \X (1..MaxTries)
CaseId == CaseName \union Run

Request == [kind: {"live", "simulation", "invalid"}, catalog: SUBSET Store,
            backups: BOOLEAN, case: CaseName \union {NoCase}, simHits: BOOLEAN]
Policy == [enable: BOOLEAN, require: BOOLEAN, table: BOOLEAN]

ASSUME ServiceAssumption == Service \in [Store -> Services]
ASSUME VaultAssumption ==
    /\ NoVault \notin Vault
    /\ VaultOf \in [Store -> Vault \union {NoVault}]
    /\ NamedVault \in [Store -> Vault]
ASSUME HomeAssumption ==
    /\ Home \in [Item -> Store \union Vault]
    /\ Store \intersect Vault = {}
ASSUME StoreAssumption ==
    /\ Federal \subseteq Store
    /\ Foreign \subseteq Store
    /\ DemoStore \subseteq Store
ASSUME ExecAssumption == Exec # {} /\ MaxTries \in Nat \ {0}
ASSUME InputAssumption ==
    /\ Requests \subseteq Request
    /\ Policies \subseteq Policy

VARIABLES
    born, present,      \* items ever written, items still there
    expiring,           \* recovery points whose deletion was accepted
    policy, request,    \* the deployment and the executions' inputs: fixed
    sfn, tries,         \* state and invocation count of each execution
    pc, run,            \* the worker: where it is, whom it serves
    todo, batch,        \* stores or vaults left to visit, items listed
    purgeFailed, hits,  \* a FAILED action was recorded, a residual was found
    reply,              \* the verdict the worker will answer with
    began,              \* history: the items that existed when the run began
    proved,             \* history: what began was for each run that passed
    evidence, row,      \* evidence bucket by run id, case table by case id
    findings, alerts    \* cases with an ASFF finding, runs that alerted

tenantVars == <<born, present, expiring>>
inputVars  == <<policy, request>>
sfnVars    == <<sfn, tries>>
localVars  == <<run, began>>
workVars   == <<todo, batch, purgeFailed, hits>>
outVars    == <<evidence, proved, row, findings, alerts>>
vars == <<tenantVars, inputVars, sfnVars, localVars, pc, workVars, reply, outVars>>

Verdict == {"PASS", "FAIL"}
Reply == Verdict \union {"none", "ERROR", "CONFIG_ERROR"}

-----------------------------------------------------------------------------
(* What the worker computes from its event q and its environment p.        *)

\* Entries of another tenant are filtered out; the demo footprint replaces a
\* catalog that was not supplied, in simulation mode only.
Catalog(q) ==
    IF q.catalog = {} /\ q.kind = "simulation" THEN DemoStore ELSE q.catalog \ Foreign

NoCatalog(q) == q.catalog = {} /\ q.kind # "simulation"

\* Mutant: a simulated event may purge.
EnabledInSimulation(p, q) == p.enable

Enabled(p, q) == p.enable /\ q.kind # "simulation"

LiveStores(q) == {s \in Catalog(q) : Service[s] \in LiveServices}

\* A case without requested_at is stamped with the clock of the attempt.
CaseNamed(r, q) == IF q.case = NoCase THEN r ELSE q.case
CaseOf(r) == CaseNamed(r, request[r[1]])

\* Mutant: the case may opt out of the policy floor.
BackupsDueOnRequest(p, q) == q.backups

BackupsDue(p, q) == q.backups \/ p.require

MappedVaults(q) == {VaultOf[s] : s \in Catalog(q)} \ {NoVault}

ScanTargets(q) == Catalog(q) \intersect Federal

\* Where the residual scan of an entry looks for tenant data.
ScanPlace(s) ==
    IF Service[s] # "backup" THEN s
    ELSE IF VaultOf[s] # NoVault THEN VaultOf[s] ELSE NamedVault[s]

Unverifiable(s) == Service[s] \in ManualServices

ItemsAt(l) == {i \in present : Home[i] = l}

-----------------------------------------------------------------------------
(* The tenant's applications and AWS.                                      *)

\* A tenant application writes a new item.
TenantWrite(i) ==
    /\ i \notin born
    /\ born' = born \union {i}
    /\ present' = present \union {i}
    /\ UNCHANGED <<expiring, inputVars, sfnVars, localVars, pc, workVars, reply, outVars>>

\* AWS Backup removes a recovery point some time after accepting its deletion.
Reap(i) ==
    /\ i \in expiring
    /\ expiring' = expiring \ {i}
    /\ present' = present \ {i}
    /\ UNCHANGED <<born, inputVars, sfnVars, localVars, pc, workVars, reply, outVars>>

-----------------------------------------------------------------------------
(* The state machine DeletionStateMachine of the template.                 *)

\* Mutant: one evidence key per execution instead of one per invocation.
RunIdOfExecution(e) == <<e, 1>>
\* Mutant: attempts are numbered from zero.
RunIdFromZero(e) == <<e, tries[e]>>

\* new_run_id: the request id of the invocation.
RunId(e) == <<e, tries[e] + 1>>

\* The task is invoked (first attempt or retry) and the worker is free: the
\* handler validates the case and resolves the catalog before any side effect.
Invoke(e) ==
    /\ sfn[e] = "waiting" /\ tries[e] < MaxTries /\ pc = "idle"
    /\ sfn' = [sfn EXCEPT ![e] = "running"]
    /\ tries' = [tries EXCEPT ![e] = @ + 1]
    /\ run' = RunId(e)
    /\ began' = born
    /\ batch' = {} /\ purgeFailed' = FALSE /\ hits' = FALSE
    /\ \/ /\ request[e].kind = "invalid"
          /\ pc' = "respond" /\ reply' = "ERROR" /\ todo' = {}
       \/ /\ request[e].kind # "invalid" /\ NoCatalog(request[e])
          /\ pc' = "respond" /\ reply' = "CONFIG_ERROR" /\ todo' = {}
       \/ /\ request[e].kind # "invalid" /\ ~NoCatalog(request[e])
          /\ pc' = "purge" /\ reply' = "none" /\ todo' = LiveStores(request[e])
    /\ UNCHANGED <<tenantVars, inputVars, outVars>>

\* Mutant: the last attempt is not recognised as the last.
RetryForever(e, k) == IF k <= MaxTries THEN "waiting" ELSE "notify_failure"

\* What the Retry and Catch clauses do with a retryable error.
RetryOrGiveUp(e, k) == IF k < MaxTries THEN "waiting" ELSE "notify_failure"

\* Reserved concurrency is used up: Lambda.TooManyRequestsException.
Throttle(e) ==
    /\ sfn[e] = "waiting" /\ tries[e] < MaxTries /\ pc # "idle"
    /\ tries' = [tries EXCEPT ![e] = @ + 1]
    /\ sfn' = [sfn EXCEPT ![e] = RetryOrGiveUp(e, tries[e] + 1)]
    /\ UNCHANGED <<tenantVars, inputVars, localVars, pc, workVars, reply, outVars>>

\* Lambda.ServiceException: the answer is lost, the run itself goes on.
LoseAnswer(e) ==
    /\ sfn[e] = "running"
    /\ sfn' = [sfn EXCEPT ![e] = RetryOrGiveUp(e, tries[e])]
    /\ UNCHANGED <<tenantVars, inputVars, tries, localVars, pc, workVars, reply, outVars>>

\* NotifyComplete or NotifyFailure publishes and the execution ends; a
\* publish that fails is not caught and fails the execution.
Notify(e) ==
    /\ \/ /\ sfn[e] = "notify_complete"
          /\ \E end \in {"succeeded", "failed"} : sfn' = [sfn EXCEPT ![e] = end]
       \/ /\ sfn[e] = "notify_failure"
          /\ sfn' = [sfn EXCEPT ![e] = "failed"]
    /\ UNCHANGED <<tenantVars, inputVars, tries, localVars, pc, workVars, reply, outVars>>

-----------------------------------------------------------------------------
(* The worker: handler(), one action per call it makes.                    *)

\* Dry run, or an entry not marked federal: the action is recorded only.
PurgeSkip(s) ==
    /\ pc = "purge" /\ s \in todo
    /\ s \notin Federal \/ ~Enabled(policy, request[run[1]])
    /\ todo' = todo \ {s}
    /\ UNCHANGED <<tenantVars, inputVars, sfnVars, localVars, pc, batch,
                   purgeFailed, hits, reply, outVars>>

\* list_object_versions / query: the items there are now.
PurgeList(s) ==
    /\ pc = "purge" /\ s \in todo /\ s \in Federal /\ Enabled(policy, request[run[1]])
    /\ todo' = todo \ {s}
    /\ batch' = ItemsAt(s)
    /\ pc' = "delete"
    /\ UNCHANGED <<tenantVars, inputVars, sfnVars, localVars, purgeFailed, hits, reply, outVars>>

\* delete_objects / batch_write_item: Errors and UnprocessedItems of the
\* answer are not looked at, so any part of the batch may survive an "OK".
PurgeDelete ==
    /\ pc = "delete"
    /\ \E gone \in SUBSET batch : present' = present \ gone
    /\ batch' = {}
    /\ pc' = "purge"
    /\ UNCHANGED <<born, expiring, inputVars, sfnVars, localVars, todo,
                   purgeFailed, hits, reply, outVars>>

\* Mutant: a catalog that maps no vault is not a failed action.
BeginBackupsUnchecked ==
    LET q == request[run[1]] IN
    /\ pc = "purge" /\ todo = {}
    /\ IF BackupsDue(policy, q) THEN pc' = "vaults" /\ todo' = MappedVaults(q)
                        ELSE pc' = "begin_scan" /\ UNCHANGED todo
    /\ UNCHANGED <<tenantVars, inputVars, sfnVars, localVars, batch, purgeFailed,
                   hits, reply, outVars>>

\* purge_backups: skipped only if neither case nor policy asks for it; no
\* mapped vault is a FAILED action.
BeginBackups ==
    LET q == request[run[1]] IN
    /\ pc = "purge" /\ todo = {}
    /\ \/ /\ ~BackupsDue(policy, q)
          /\ pc' = "begin_scan" /\ UNCHANGED <<todo, purgeFailed>>
       \/ /\ BackupsDue(policy, q) /\ MappedVaults(q) = {}
          /\ pc' = "begin_scan" /\ purgeFailed' = TRUE /\ UNCHANGED todo
       \/ /\ BackupsDue(policy, q) /\ MappedVaults(q) # {}
          /\ pc' = "vaults" /\ todo' = MappedVaults(q) /\ UNCHANGED purgeFailed
    /\ UNCHANGED <<tenantVars, inputVars, sfnVars, localVars, batch, hits, reply, outVars>>

\* _tenant_recovery_points of one vault; a dry run only counts them.
VaultList(v) ==
    /\ pc = "vaults" /\ v \in todo
    /\ todo' = todo \ {v}
    /\ IF Enabled(policy, request[run[1]]) THEN batch' = ItemsAt(v) /\ pc' = "expire"
                          ELSE UNCHANGED <<batch, pc>>
    /\ UNCHANGED <<tenantVars, inputVars, sfnVars, localVars, purgeFailed, hits, reply, outVars>>

\* delete_recovery_point, one call per recovery point; it raises for a point
\* that has disappeared since it was listed.
ExpirePoint(i) ==
    /\ pc = "expire" /\ i \in batch
    /\ batch' = batch \ {i}
    /\ \/ /\ i \in present
          /\ expiring' = expiring \union {i}
          /\ UNCHANGED <<pc, reply>>
       \/ /\ i \notin present
          /\ pc' = "respond" /\ reply' = "ERROR"
          /\ UNCHANGED expiring
    /\ UNCHANGED <<born, present, inputVars, sfnVars, localVars, todo,
                   purgeFailed, hits, outVars>>

VaultDone ==
    /\ pc = "expire" /\ batch = {}
    /\ pc' = "vaults"
    /\ UNCHANGED <<tenantVars, inputVars, sfnVars, localVars, workVars, reply, outVars>>

BackupsDone ==
    /\ pc = "vaults" /\ todo = {}
    /\ pc' = "begin_scan"
    /\ UNCHANGED <<tenantVars, inputVars, sfnVars, localVars, workVars, reply, outVars>>

\* A simulation takes the hits of its event instead of scanning.
BeginScan ==
    LET q == request[run[1]] IN
    /\ pc = "begin_scan"
    /\ IF q.kind = "simulation"
       THEN /\ hits' = q.simHits
            /\ pc' = "write" /\ UNCHANGED todo
       ELSE /\ todo' = ScanTargets(q)
            /\ pc' = "scan" /\ UNCHANGED hits
    /\ UNCHANGED <<tenantVars, inputVars, sfnVars, localVars, batch, purgeFailed, reply, outVars>>

\* Mutant: the hits of the last store replace those found before.
ScanStoreLast(s) ==
    /\ pc = "scan" /\ s \in todo
    /\ todo' = todo \ {s}
    /\ hits' = (Unverifiable(s) \/ ItemsAt(ScanPlace(s)) # {})
    /\ UNCHANGED <<tenantVars, inputVars, sfnVars, localVars, pc, batch,
                   purgeFailed, reply, outVars>>

\* residual_scan of one entry: what is there, or a store nobody can verify.
ScanStore(s) ==
    /\ pc = "scan" /\ s \in todo
    /\ todo' = todo \ {s}
    /\ hits' = (hits \/ Unverifiable(s) \/ ItemsAt(ScanPlace(s)) # {})
    /\ UNCHANGED <<tenantVars, inputVars, sfnVars, localVars, pc, batch,
                   purgeFailed, reply, outVars>>

ScanDone ==
    /\ pc = "scan" /\ todo = {}
    /\ pc' = "write"
    /\ UNCHANGED <<tenantVars, inputVars, sfnVars, localVars, workVars, reply, outVars>>

CaseVerdict == IF hits \/ purgeFailed THEN "FAIL" ELSE "PASS"

\* Mutant: an error of put_object is logged and the case goes on.
WriteEvidenceBestEffort ==
    /\ pc = "write"
    /\ reply' = CaseVerdict
    /\ \/ UNCHANGED evidence
       \/ evidence' = [evidence EXCEPT ![run] = CaseVerdict]
    /\ pc' = "record"
    /\ UNCHANGED <<tenantVars, inputVars, sfnVars, localVars, workVars, proved,
                   row, findings, alerts>>

\* build_evidence and EvidenceWriter.write: the object of this run id.
WriteEvidence ==
    /\ pc = "write"
    /\ reply' = CaseVerdict
    /\ evidence' = [evidence EXCEPT ![run] = CaseVerdict]
    /\ proved' = IF CaseVerdict = "PASS" THEN [proved EXCEPT ![run] = began] ELSE proved
    /\ pc' = "record"
    /\ UNCHANGED <<tenantVars, inputVars, sfnVars, localVars, workVars, row, findings, alerts>>

\* record_case: put_item replaces the row, if a case table is configured.
RecordCase ==
    /\ pc = "record"
    /\ row' = IF policy.table THEN [row EXCEPT ![CaseOf(run)] = reply] ELSE row
    /\ pc' = IF reply = "PASS" THEN "respond" ELSE "emit"
    /\ UNCHANGED <<tenantVars, inputVars, sfnVars, localVars, workVars, reply,
                   proved, evidence, findings, alerts>>

\* BatchImportFindings may reject the finding of a call it accepts: emit does
\* not read FailedCount, and the handler does not read what emit returns.
EmitFinding ==
    /\ pc = "emit"
    /\ findings' \in {findings, findings \union {CaseOf(run)}}
    /\ pc' = "alert"
    /\ UNCHANGED <<tenantVars, inputVars, sfnVars, localVars, workVars, reply,
                   proved, evidence, row, alerts>>

PublishAlert ==
    /\ pc = "alert"
    /\ alerts' = alerts \union {run}
    /\ pc' = "respond"
    /\ UNCHANGED <<tenantVars, inputVars, sfnVars, localVars, workVars, reply,
                   proved, evidence, row, findings>>

\* The invocation is over and its local variables are gone.
FrameGone ==
    /\ pc' = "idle" /\ reply' = "none" /\ began' = {} /\ UNCHANGED run
    /\ todo' = {} /\ batch' = {} /\ purgeFailed' = FALSE /\ hits' = FALSE

\* Mutant: a late answer is delivered to an execution that has moved on.
RespondLate ==
    LET e == run[1] IN
    /\ pc = "respond"
    /\ FrameGone
    /\ sfn' = [sfn EXCEPT ![e] = IF reply = "PASS" THEN "notify_complete"
                                                   ELSE "notify_failure"]
    /\ UNCHANGED <<tenantVars, inputVars, tries, outVars>>

\* respond(): EvaluateOutcome branches on compliance_status, if the
\* orchestrator is still waiting for this answer.
Respond ==
    LET e == run[1] IN
    /\ pc = "respond"
    /\ FrameGone
    /\ sfn' = IF sfn[e] # "running" THEN sfn
              ELSE [sfn EXCEPT ![e] = IF reply = "PASS" THEN "notify_complete"
                                                        ELSE "notify_failure"]
    /\ UNCHANGED <<tenantVars, inputVars, tries, outVars>>

\* Mutant: an error after the evidence was written is swallowed.
FaultSwallowed ==
    /\ pc \notin {"idle", "respond", "begin_scan"}
    /\ reply' = IF reply = "none" THEN "ERROR" ELSE reply
    /\ pc' = "respond"
    /\ UNCHANGED <<tenantVars, inputVars, sfnVars, localVars, workVars, outVars>>

\* A client call raises: the handler answers ERROR and does nothing more.  The
\* call may have taken effect all the same.  For put_item and publish that is
\* said here; for the other calls it is the call's own action, then Fault.
Fault ==
    /\ pc \notin {"idle", "respond", "begin_scan"}
    /\ reply' = "ERROR"
    /\ pc' = "respond"
    /\ \/ UNCHANGED <<row, alerts>>
       \/ /\ pc = "record" /\ policy.table
          /\ row' = [row EXCEPT ![CaseOf(run)] = reply] /\ UNCHANGED alerts
       \/ /\ pc = "alert"
          /\ alerts' = alerts \union {run} /\ UNCHANGED row
    /\ UNCHANGED <<tenantVars, inputVars, sfnVars, localVars, workVars,
                   evidence, proved, findings>>

\* The sandbox dies (function timeout, memory): not a retried error name.
Kill ==
    LET e == run[1] IN
    /\ pc # "idle"
    /\ FrameGone
    /\ sfn' = IF sfn[e] # "running" THEN sfn
              ELSE [sfn EXCEPT ![e] = "notify_failure"]
    /\ UNCHANGED <<tenantVars, inputVars, tries, outVars>>

-----------------------------------------------------------------------------
Init ==
    /\ born \in SUBSET Item /\ present = born /\ expiring = {}
    /\ policy \in Policies
    /\ request \in [Exec -> Requests]
    /\ sfn = [e \in Exec |-> "waiting"] /\ tries = [e \in Exec |-> 0]
    /\ pc = "idle" /\ run = CHOOSE r \in Run : TRUE
    /\ todo = {} /\ batch = {} /\ purgeFailed = FALSE /\ hits = FALSE
    /\ reply = "none"
    /\ began = {} /\ proved = [r \in Run |-> {}]
    /\ evidence = [r \in Run |-> "none"] /\ row = [c \in CaseId |-> "none"]
    /\ findings = {} /\ alerts = {}

WorkerStep ==
    \/ \E s \in todo : PurgeSkip(s) \/ PurgeList(s) \/ VaultList(s) \/ ScanStore(s)
    \/ \E i \in batch : ExpirePoint(i)
    \/ PurgeDelete \/ BeginBackups \/ VaultDone \/ BackupsDone
    \/ BeginScan \/ ScanDone \/ WriteEvidence \/ RecordCase
    \/ EmitFinding \/ PublishAlert \/ Respond

Orchestrate(e) == Invoke(e) \/ Throttle(e) \/ Notify(e)

Next ==
    \/ WorkerStep \/ Fault \/ Kill
    \/ \E e \in Exec : Orchestrate(e) \/ LoseAnswer(e)
    \/ \E i \in Item : TenantWrite(i) \/ Reap(i)

Spec == Init /\ [][Next]_vars

\* A running sandbox executes, and Step Functions drives its executions;
\* nothing is assumed of tenants, faults or AWS Backup.
Fairness == WF_vars(WorkerStep) /\ \A e \in Exec : WF_vars(Orchestrate(e))
FairSpec == Spec /\ Fairness
-----------------------------------------------------------------------------
(* Properties.                                                             *)

ExecStates == {"waiting", "running", "notify_complete", "notify_failure",
               "succeeded", "failed"}
WorkerStates == {"idle", "purge", "delete", "vaults", "expire", "begin_scan",
                 "scan", "write", "record", "emit", "alert", "respond"}

\* Every variable holds a value of its kind; a case past its evidence has a verdict.
TypeOK ==
    /\ born \subseteq Item /\ present \subseteq born /\ expiring \subseteq born
    /\ policy \in Policies
    /\ request \in [Exec -> Requests]
    /\ sfn \in [Exec -> ExecStates]
    /\ tries \in [Exec -> 0..MaxTries]
    /\ pc \in WorkerStates
    /\ run \in Run
    /\ todo \subseteq Store \union Vault
    /\ batch \subseteq born
    /\ purgeFailed \in BOOLEAN /\ hits \in BOOLEAN
    /\ reply \in Reply
    /\ pc \in {"record", "emit", "alert"} => reply \in Verdict
    /\ began \subseteq born
    /\ proved \in [Run -> SUBSET Item]
    /\ evidence \in [Run -> Verdict \union {"none"}]
    /\ row \in [CaseId -> Verdict \union {"none"}]
    /\ findings \subseteq CaseId
    /\ alerts \subseteq Run

LivePass(r) == evidence[r] = "PASS" /\ request[r[1]].kind = "live"

\* The scope of a case, as its policy and its catalog state it.
FederalEntries(q) == {s \in Catalog(q) : s \in Federal}
ScannedPlaces(q) == {ScanPlace(s) : s \in FederalEntries(q)}
CatalogVaults(q) == {v \in Vault : \E s \in Catalog(q) : VaultOf[s] = v}
BackupsInScope(p, q) == q.backups \/ p.require

\* Whatever deletes were refused, delayed or raced by the tenant, PASS
\* evidence of a live run proves that nothing that existed when the run began
\* survives in any place the run had to scan: later residue is newer data.
PassMeansGone ==
    \A r \in Run : LivePass(r) =>
        \A i \in proved[r] : Home[i] \in ScannedPlaces(request[r[1]]) => i \notin present

\* With purging enabled and backups in scope, PASS evidence proves that every
\* recovery point that existed when the run began, in any vault mapped by the
\* catalog, is gone or has its deletion accepted, scanned vault or not.
PassExpiredBackups ==
    \A r \in Run : LivePass(r) /\ policy.enable /\ BackupsInScope(policy, request[r[1]]) =>
        \A i \in proved[r] :
            Home[i] \in CatalogVaults(request[r[1]]) /\ i \in present => i \in expiring

\* PASS cannot hide what the lab is unable to attest: no federal rds or
\* opensearch entry in a live catalog, and (simulations included) a mapped
\* vault whenever the case or the policy floor puts backups in scope.
PassIsAttestable ==
    \A r \in Run : evidence[r] = "PASS" =>
        /\ LivePass(r) => \A s \in FederalEntries(request[r[1]]) : ~Unverifiable(s)
        /\ BackupsInScope(policy, request[r[1]]) => CatalogVaults(request[r[1]]) # {}

\* An execution reaches NotifyComplete or Succeeded only on the PASS evidence
\* of its own last attempt, written and recorded before the answer: never on
\* an earlier attempt's, on another execution's or on a run that died.
SuccessIsProved ==
    \A e \in Exec : sfn[e] \in {"notify_complete", "succeeded"} =>
        LET r == <<e, tries[e]>> IN
        /\ r \in Run /\ evidence[r] = "PASS"
        /\ policy.table => row[CaseOf(r)] # "none"

\* The case row never says more than the evidence bucket: whatever verdict it
\* holds was first persisted as evidence of a run of that very case.
RowIsBacked ==
    \A c \in CaseId : row[c] # "none" =>
        \E r \in Run : CaseOf(r) = c /\ evidence[r] = row[c]

\* Escalation and evidence agree over all attempts, late ones and those that
\* ended in ERROR or died included: whoever is alerted of a run finds its FAIL
\* in the evidence bucket, a finding of a case rests on the persisted FAIL of a
\* run of that case, and no FAIL is answered that was not alerted.  (A FAIL
\* need not have its finding: Security Hub may have rejected it.)
EscalationIsBacked ==
    /\ \A r \in alerts : evidence[r] = "FAIL"
    /\ \A c \in findings : \E r \in Run : CaseOf(r) = c /\ evidence[r] = "FAIL"
    /\ pc = "respond" /\ reply = "FAIL" => run \in alerts

\* Items a step deletes, or has accepted for deletion, on the worker's behalf.
Condemned == (present \ (present' \union expiring)) \union (expiring' \ expiring)

\* Destruction is opted into: a step condemns data only under ENABLE_PURGE,
\* for a live event, in a federal live entry of the tenant's own catalog or,
\* when backups are in scope, in a vault that catalog maps.
DestructionIsAuthorised ==
    [][\A i \in Condemned :
        LET q == request[run[1]] IN
        /\ policy.enable /\ q.kind = "live" /\ Home[i] \notin Foreign
        /\ \/ Home[i] \in FederalEntries(q)
           \/ BackupsInScope(policy, q) /\ Home[i] \in CatalogVaults(q)]_vars

\* Evidence is written once: no retry or other execution rewrites the object
\* of a run id.
EvidenceIsFinal ==
    [][\A r \in Run : evidence[r] # "none" => evidence'[r] = evidence[r]]_vars

\* What an observer of the executions is promised (module DeletionPromise),
\* and its outcome seen from the worker's and the orchestrator's state.
Outcome == [e \in Exec |-> CASE sfn[e] = "succeeded" -> "complete"
                             [] sfn[e] = "failed" -> "failed"
                             [] OTHER -> "open"]
Attested == {e \in Exec : \E k \in 1..MaxTries : evidence[<<e, k>>] = "PASS"}
Promise == INSTANCE DeletionPromise WITH outcome <- Outcome, attested <- Attested

\* Every execution is closed exactly once and, whatever is thrown at its
\* attempts (throttled, lost, killed), is closed within its retry budget; it
\* is closed as complete only after PASS evidence of one of its own attempts
\* was persisted.
KeepsPromise == Promise!FairSpec

-----------------------------------------------------------------------------
(* Statements of the source that its code does not keep (see README).      *)

\* handler.py:18-19 and :9-10: PASS requires a real scan of every cataloged
\* store, and an empty catalog outside simulation is CONFIG_ERROR.
PassNeedsCatalog == \A r \in Run : LivePass(r) => Catalog(request[r[1]]) # {}

\* handler.py:24-25: dry-run purge states never count as completed deletion;
\* if data is still present the scan reports it.
PassLeavesNoBackups ==
    \A r \in Run : LivePass(r) /\ BackupsInScope(policy, request[r[1]]) =>
        \A i \in proved[r] :
            Home[i] \in CatalogVaults(request[r[1]]) /\ i \in present => i \in expiring
=============================================================================
