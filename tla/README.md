# TLA+ models of the AWS compliance and security labs

This directory is the verification project of `kfcain/aws-compliance-security-labs`:
seventeen AWS labs, each one a Python Lambda function that collects facts about an
account, gives a verdict and leaves evidence of it, and the tools that keep the labs
together.  Paths below are relative to the repository's root; `LC` is
`shared/lambda-common/lab_common.py`, and `lab 11` stands for the directory
`labs/11-…`, its `src/handler.py` and its `infrastructure/template.yaml`.

Contents

1. Inventory: the system's parts, their state, what is hard about them
2. Which module models what
3. Runs, bounds, fairness
4. Theorems
5. Where the code and its documents disagree
6. What is abstracted, and what is not modelled
7. Plan

## 1. Inventory

### The parts and how they interact

Everything an account sees of a lab passes through one function with
`ReservedConcurrentExecutions: 1`:

    EventBridge schedule ─┐                                   ┌─> S3 evidence bucket (versioned)
    EventBridge rule ─────┼─> Lambda queue ─> handler() ──────┼─> Security Hub (ASFF finding)
    operator / pipeline ──┘        │   (one at a time)        ├─> SNS topic (alert)
    Step Functions (lab 11) ───────┘                          └─> answer {compliance_status, …}
                 │ refused, expired, killed
                 └─> dead-letter queues of the rule and of the function

A handler reads its environment, takes its data from the event or collects it from
AWS or an external API, evaluates it, writes an evidence object, opens a finding,
publishes an alert and answers.  `LC`, vendored into every lab, is the library all
handlers use for these steps.  Labs do not call each other; they share
nothing but the account.

| part | state it keeps | operations | what is hard |
|---|---|---|---|
| Labs 01–10, 12–17: the pipeline of a run | evidence objects by run id, findings, alerts; configuration in the environment; nothing in memory | `handler()`: configuration, loading, evaluation, finding, evidence, alert, answer | errors are caught and answered, so nothing retries them; a killed run is retried with the *same* run id and overwrites its object; the configuration is noticed only where it is needed; the order of finding, evidence and alert differs between labs |
| Labs 01–10: the walk over an account | none between runs; during one, the lists fetched and the rows noted | `fetch_*`, `list_*`, `discover_*`, `check_*`, `build_evidence` | the account changes between two calls; lists arrive in pages; a loop goes over an earlier listing; lab 01 has a page cap and a time budget; boundary values of ages, deadlines and ports |
| Labs 02, 03, 12–17: the judging of a submission | none: what came in an event is gone with the invocation; the plan and the descriptor stay in their buckets | `load_*`, `evaluate_*`, `classify_*`, `extract_drift`, `build_evidence` | raw booleans and optional dates; what absent data means; the first attribute of a drift speaks for all; a verdict given once is out of date the next day |
| Lab 11: federal data deletion | tenant data in S3, DynamoDB and backup vaults; case table; evidence; Step Functions executions | `resolve_catalog`, `purge_*`, `purge_backups`, `residual_scan`, `build_evidence`, `record_case`, the state machine's Retry/Catch/Choice | destructive; tenants write while it runs; deletes are partial; recovery points expire asynchronously; retries race the attempt whose answer was lost |
| Lab 14: privileged suspend and lifecycle | the account's access keys and policies; the lab's arming switches | `apply_lifecycle`, `execute_suspension`, `dry_run_suspension`, `review_privileged` | several IAM calls without a transaction while others change the same principal; retries after a kill |
| `LC`: handler contract | none | `RuntimeContext.from_lambda`, environment readers, `EvidenceWriter`, `AsffEmitter`, `publish_alert`, `respond` | who raises what, when; partial acceptance of a batch |
| Templates | schedules, rules, retry policies, dead-letter queues, IAM gates | deployment | delivery: refused, delayed, tried again, dead-lettered |
| `shared/scf-mapper` | the generated crosswalk file | `scfFetch`, `mapWithConcurrency`, `mapLab`, the command line | four promises share an index and an array across awaits; retries; failure of one while others run |
| `scripts/*.mjs` | generated documents | generators, `--check` drift gates | sequential, pure |
| `governance/` of labs 16 and 17 | the plan and the descriptor uploaded by CI | shell and rego | sequential |
| `docs/`, the learning page | none | static | – |

### What makes each part correct

* **Every lab.** What it answers, what it persisted, what it announced and what it
  opened in Security Hub agree, whatever call failed and whatever run died in
  between; PASS is never given without evidence; an unconfigured lab does not pass and
  leaves nothing; an event is answered or dead-lettered in the end.
* **Walks.** PASS is not given to an account with a flaw that was there all along, however the
  lists were cut into pages and whatever else changed meanwhile; over an account at rest the
  verdict is exact; a walk ends, also against an identity provider that never stops paging.
* **Judging.** A submission that is worse, or the same one later, is not judged better; what a
  change says of itself does not decide about it; the verdict and the assurance case agree;
  an answer does not outlive the data it was given on.
* **Lab 11.** PASS proves that the tenant's data which existed when the run began is
  gone from every place the case has to scan; nothing outside an opted-in purge of that
  tenant's federal stores is destroyed; an execution succeeds only on PASS evidence of its
  last attempt, and always ends.
* **Lab 14.** No principal is "suspended in name only": PASS on a privileged suspicion
  means denied and without active keys; nobody is suspended without a warrant.
* **The mapper.** The file is replaced by the complete mapping or not at all, success is
  reported only of a complete file, the API is not hammered, every run ends.

The hazards, each at its line, with the properties that watch it, are listed under
`hazards` in `PROJECT.json`.

## 2. Which module models what

| module | role |
|---|---|
| `DeletionCase` | lab 11: worker, state machine, tenants, AWS Backup |
| `DeletionPromise` | abstract specification of lab 11: executions are closed, as complete only if attested |
| `MC_DeletionCase` | instances of it for TLC |
| `DeletionCase_proofs`, `DeletionScan_proofs` | proofs about it: order and records; data |
| `ScheduledLab` | the pipeline of labs 01–10 and 12–17, from EventBridge to the answer |
| `MC_ScheduledLab`, `ScheduledLab_proofs` | instances, proofs |
| `Sweeps` | labs 01–10 between configuration and evidence: the walk over an account that changes |
| `Estate` | that account, and what each lab holds against a resource |
| `MC_Sweeps` | instance of `Sweeps` |
| `Sweeps_walks`, `Sweeps_proofs` | its walks as facts, field by field; proofs about it |
| `Feeds` | labs 02, 03 and 12–17 judging what a producer hands them, day by day |
| `Registers`, `Terraform` | their evaluators: registers of rows (02, 03, 12–15), plan and descriptor (16, 17) |
| `Deadlines` | ages and deadlines of labs 02 and 03, for both |
| `MC_Feeds`, `Feeds_proofs` | instance of `Feeds`, proofs |
| `PrivilegedSuspend` | lab 14's suspension among the account's own changes |
| `MC_PrivilegedSuspend`, `PrivilegedSuspend_proofs` | instances, proofs |
| `ScfMapper` | the crosswalk mapper: pool, retries, write, exit |
| `CrosswalkPromise` | its abstract specification |
| `ScfMapper_proofs` | proofs about it |

`DeletionCase` implements `DeletionPromise`, and `ScfMapper` implements
`CrosswalkPromise`: in both the abstract specification is instantiated `WITH` a
refinement mapping, checked by TLC with its fairness and proved without it.
`PrivilegedSuspend` looks inside one lab of `ScheduledLab`: where it needs the
pipeline (evidence, alert, answer) it keeps the pipeline's order and drops its
configuration gaps.  `Sweeps` and `Feeds` are the step `Evaluate` of `ScheduledLab` in
full: they start when the configuration is read and end with the verdict.  Definitions named after a bug and commented `Mutant:` are
not part of any specification.  Each is a plausible bug in the definition that follows
it, kept because putting it in that definition's place breaks a property.

### `DeletionCase` (lab 11)

| state | code |
|---|---|
| `born`, `present`, `expiring` | the tenant's objects, rows and recovery points: ever written, still there, deletion accepted |
| `policy`, `request` | `ENABLE_PURGE`, `REQUIRE_BACKUP_PURGE`, `CASE_TABLE`; the executions' inputs |
| `sfn`, `tries` | the state of each execution of `DeletionStateMachine` and its `Retry` count |
| `pc`, `run`, `todo`, `batch`, `purgeFailed`, `hits`, `reply` | where `handler()` is and its local variables |
| `evidence`, `row`, `findings`, `alerts` | evidence bucket by run id, case table by case id, Security Hub, SNS |
| `began`, `proved` | history: what existed when a run began, and what a PASS therefore vouches for |

One action per call that changes state: `PurgeList`/`PurgeDelete` (a list, and a delete
whose per-item errors nobody reads), `VaultList`/`ExpirePoint`, `ScanStore`,
`WriteEvidence`, `RecordCase`, `EmitFinding` (Security Hub may reject the finding of a call it
accepts), `PublishAlert`, `Respond`; `Fault` is the `except` clause of the handler at any client
call, which may have taken effect all the same, `Kill` the end of the sandbox.  The
state machine is `Invoke`, `Throttle`, `LoseAnswer` and `Notify`: an answer may be lost
while its run goes on, which is why the retry may race it.  A retry throttled by the
reserved concurrency uses up the budget.  `TenantWrite` and `Reap` are the outside.

### `ScheduledLab` (labs 01–10, 12–17)

The sixteen handlers differ in which verdicts they compute, whether and when they open
a finding, on which verdicts they alert, which gaps of the configuration they notice
before evaluating, and what they make of an event that carries no data.  These are
the fields of a `Profile`; `Lab01` … `Lab17` state them, each mapped to its
handler, and `lab` is chosen in `Init`.

| action | code |
|---|---|
| `Fire`, `Accept`, `Refuse`, `Expire` | EventBridge's delivery (`MaximumRetryAttempts: 4`), Lambda's queue, the dead-letter queues |
| `Start`, `Kill` | the one worker; timeout or crash, and Lambda's two retries under the same request id |
| `Configure` | an operator fills a gap; the sandbox keeps the environment it started with |
| `CheckConfig` | `RuntimeContext.from_lambda` and what else the handler reads first |
| `LoadRefused`, `Evaluate` | no data and no source: CONFIG_ERROR or ERROR; otherwise any verdict of the lab |
| `EmitFinding`, `WriteEvidence`, `PublishAlert`, `Respond` | `AsffEmitter.emit`, `EvidenceWriter.write`, `publish_alert`, `respond`, in the lab's order |
| `Fault` | the handler's `except`: ERROR, possibly after the call took effect |

`evidence[e]` is the sequence of versions of one object: the run id is the request id,
so a retried run writes the same key in a versioned bucket.

### `Sweeps` and `Estate` (labs 01–10)

A walk is a sequence of phases, one for each function or loop of the handler that calls an
API.  What tells the ten labs apart is data: `Walk01` … `Walk10`, each phase mapped to its
function.  A phase goes over a kind of resources, or over what an earlier phase kept
(`over`), one page, one resource or the whole list at a time (`by`); it sees certain flaws in
each of its calls (`reads`), keeps some of what it saw (`keeps`), and has its way
with a resource that is gone by then (`gone`) and with a list that is empty (`none`).

| state | code |
|---|---|
| `account`, `changes` | the resources and their facts, as AWS or Okta would answer now |
| `walk`, `at`, `todo`, `cursor` | which lab, where in its handler, what its loop has left, the resource whose second or later call is due (bucket posture, key policy) |
| `kept`, `found` | the lists passed on to later loops; violations, stale and breached rows, failures |
| `pages`, `remaining` | lab 01's `pages`, `get_remaining_time_in_millis()` |
| `verdict` | what the `build_evidence` or `evaluate` of the lab says; ERROR is its `except` |
| `still` | history: the flaws that were there in every state so far |

`Read` is one call and its evaluation, `Proceed` the end of a loop (CONFIG_ERROR without a
recorder, a rule, a detector or an Inspector account; lab 08 concludes without VPCs), `GiveUp` the page
cap, the time reserve, or a resource that vanished after it was listed, `Fail` an API
error, `Conclude` the verdict.  `Disturb` is everybody else: any resource the lab looks at
is created, changed or deleted between any two calls.  `Estate.Judged` holds the
evaluators, with their boundaries: a deadline is missed the day after, a secret is stale
when it is *older* than the limit in lab 06 and when it is *as old* in lab 03, a port range
without an upper end is one port.

### `Feeds`, `Registers` and `Terraform` (labs 02, 03, 12–17)

| state | code |
|---|---|
| `stored` | the object in the plan or descriptor bucket (labs 16 and 17), which stays there |
| `now` | the day; labs 02, 03 and 12 compare dates with it |
| `env`, `answer` | the environment, the last verdict and assurance case |
| `judged` | history: the data the last answer is about |

A submission is a set of findings, credentials, recovery objectives, an inventory, a roster, change
events and a pipeline run, a Terraform plan or a DR descriptor.  `RunEvent` is the invocation of an
event that carries one, and the only one that ever sees it; `Upload` is CI at the bucket; `RunSchedule`
is the scheduled invocation, whose event (`{"source": "scheduled-sweep"}`) carries nothing: it judges the
object in the bucket, or says with `Unfed` that there is nothing to judge.  `Verdict02` … `Verdict17` are the evaluators.  `Raw` has the four
sorts of a JSON boolean the labs tell apart: `coerce_bool` takes the string `"false"` for
false and labs 12, 14 and 15 use it; lab 17's `bool()` takes it for true.  A row of the
wrong shape is `Malformed` and makes the answer ERROR.  `Worse` orders submissions: it says, lab by lab, when a
row or a head has nothing going for it that another has not.

### `PrivilegedSuspend` (lab 14)

State: the switches `auto` and `granted`, `key` and `denied` (the account), and for each
run its event, stage, attempt, the setting it started with (`armed`), the keys it listed,
its verdict, alert and answer; `reopened` is the history of what others activated or
released since the run looked.  `ListKeys`, `DeactivateKey` and `AttachDenyAll` are the IAM calls of
`execute_suspension`, `SuspendFails` is its `except`.  `Decide` is every path without an IAM call:
lifecycle, review, dry run, unresolvable principal.  `ActivateKey`, `DeleteKey`,
`Release` and `Redeploy` belong to the account and its operators.

### `ScfMapper`

`next`, `slot`, `attempt`, `results` and `at` are the closure of `mapWithConcurrency`:
`Claim` reads and moves `next` in one step, because no `await` separates the two
statements; `Fetched`, `Refused`, `FetchFails` and `Retry` are the outcomes of a turn of
`scfFetch`.  `main` and `exit` follow `cli.js`: `CheckSpec`, `AllDone`, `WriteFile` or
`WriteFails`, `Report` (`--strict` exits 2 after the file was written), `Abort` (the first
rejection of `Promise.all` exits 1 with other fetches under way), `Kill`.

## 3. Runs, bounds, fairness

Run one with `tlc -workers 2 -config <cfg> <module>`.  The sizes are distinct states.

| run | module, cfg | instance | shows |
|---|---|---|---|
| `deletion_inputs` | `MC_DeletionCase`, `_inputs` | every shape of catalog and every policy, one execution, one try, 4 items (650k) | `TypeOK`, `PassMeansGone`, `PassExpiredBackups`, `PassIsAttestable`, `DestructionIsAuthorised` |
| `deletion_promise` | `MC_DeletionCase`, `_promise` | two executions, of one case or of cases named by the clock, two tries each, one object (666k) | `SuccessIsProved`, `RowIsBacked`, `EscalationIsBacked`, `EvidenceIsFinal`; with fairness `KeepsPromise` |
| `labs` | `MC_ScheduledLab`, `_labs` | all sixteen labs, every set of gaps, events that contend for the worker, the template's deliveries and runs (1.10M) | `TypeOK`, `AnswerIsEvidenced`, `AlertIsEvidenced`, `FindingIsEvidenced`, `AnswerIsAnnounced`, `UnconfiguredLeavesNothing`; with fairness `EverySweepEnds` |
| `sweeps` | `MC_Sweeps`, `_sweeps` | all ten walks, over every account of at most two resources of a kind, two changes during the walk (265k) | `TypeOK`, `LastingFlawFails`, `QuietSweepIsExact`; with fairness `SweepEnds` |
| `feeds` | `MC_Feeds`, `_feeds` | eight labs, submissions of up to two rows, two of them in events or in the bucket, two days (26k) | `TypeOK`, `WorseNeverHelps`, `ClaimsNeverDecide`, `AssuranceMatchesVerdict`; with fairness `AnswerCatchesUp` |
| `suspend` | `MC_PrivilegedSuspend`, `_suspend` | one invocation and its two retries, every kind of event about two users, a role and root, two keys (584k) | `TypeOK`, `PassIsContained`, `FailIsAlerted`, `SuspensionIsWarranted` |
| `refresh` | `ScfMapper`, `_refresh` | three controls, two promises, two retries, every crosswalk of two frameworks (1.04M) | `TypeOK`, `KeepsPromise`, `ApiIsSpared`, `StrictMeansMapped` |
| `deletion_empty_catalog`, `deletion_dry_run`, `rejected`, `guardduty`, `drift_ignored` | | small | section 5 |

### Why the bounds are enough

* `deletion_inputs` asks what one run proves about data, so one execution is enough: the
  only other actors are tenants and AWS Backup, present for every item at every
  moment.  Four items cover an object, a row, a recovery point and another tenant's
  object; the catalogs are one of each shape the handler tells apart, `rds` entries, public
  entries, foreign entries and the empty list among them.
* `deletion_promise` asks about attempts, so it has two executions that contend for the
  worker, each with a retry: the least that has a late answer of one attempt meet the next
  attempt, and one execution throttled by the other.  What is deleted does not matter (`deletion_inputs`), so the attempts only scan: one
  object, written by the tenant at any time or never, makes attempts differ in their verdicts.
  The template allows four tries.  With two, a retry, a last attempt and a
  throttled last attempt all occur.
* `labs` uses the template's own numbers.  A run of one event does not read what another
  event left (each has its own key), so one event alone suffices for safety, with any lab, any
  gaps and all five deliveries.  The only thing events share is the worker: two events of the lab with the
  longest pipeline contend for it, each with one delivery left so that an
  event can be refused for good while the other is served.
* `sweeps`: a walk is per resource, so what goes wrong needs one resource with a lasting
  flaw and a second one to be confused with it: two users, access keys, rules, findings,
  buckets and groups, one of the others.  Every account is an initial state, resources absent or
  with facts on either side of each boundary.  Two changes cover a resource that is deleted and
  created again, and two resources that change in opposite directions.  `MaxPages` 2 and four
  seconds let lab 01 run out of pages, of time, and of neither; the real numbers are
  50 pages and minutes, and nothing in the model counts otherwise.
* `feeds`: the verdicts are disjunctions over rows, so one row decides; two rows are taken where rows
  speak for each other (a malformed row, lab 16's two lists).  Today and tomorrow are chosen so that
  a deadline, an age and a restore test expire between them.  Two hand-overs are what the action
  properties compare, with any scheduled runs before, between and after them.
* `suspend` has one invocation: with two TLC does not finish.  The retries of
  a killed run already meet changes made by an earlier run of the same code, and the theorems of
  section 4 hold for any number of invocations.  Two keys are the least with one deactivated
  and one not.
* `refresh`: with more controls than promises a promise goes on to a second control, and
  with two promises one can fail while the other fetches.  The default pool has four, the theorems any number.

Counters that the code bounds are bounded by it (`MaxTries`, `MaxOffers`, `Retries`,
`MaxPages`, `Budget`).  The outside is bounded by `MaxChanges` in `Estate`, `MaxHandOvers` in
`Feeds` and `Horizon`, the last day.  `CHECK_DEADLOCK FALSE` is in every cfg because each of these systems may stop:
an execution that is closed, an event that is answered, a process that has exited.

### Fairness

* `DeletionCase`: weak fairness of the worker's next step and of each execution's
  `Orchestrate` (invoke, throttle, notify).  A Lambda sandbox that is not killed runs, and Step
  Functions drives its executions; `Fault`, `Kill`, `LoseAnswer`, tenants and AWS
  Backup are not fair, they may happen or not.
* `ScheduledLab`: weak fairness of `Accept`, `Start` and the worker's next step, per event.
  EventBridge keeps trying until it is accepted or has used up its deliveries, and Lambda
  takes an event from its queue when the one worker is free.  Weak fairness of `Start`
  is enough because each event runs `MaxTries` times at most.
* `ScfMapper`: weak fairness of each promise and of the process.  Every fetch settles
  because of `AbortSignal.timeout`, and timers fire.
* `Sweeps`: weak fairness of the walk.  boto3's and urllib's calls time out, so each call
  returns or raises; `Disturb` and `Fail` may happen or not.  The identity provider that sends empty pages and
  next links for ever is among the behaviours, since fairness is of the walk as a whole and not of a page that helps.
* `Feeds`: weak fairness of `RunSchedule` alone: each template has a rule that fires for ever, and
  a bucket that answers is part of the deployment.  Nobody need hand over anything, so `Upload`
  and `RunEvent` are not fair, nor is `Tick`.
* `PrivilegedSuspend` has no liveness property: nothing in the code promises that a
  suspension succeeds.

## 4. Theorems

`tlapm <module>` checks every proof.  All theorems hold for every value of the constants under the
named `ASSUME`s of the component's module, which say only that the constants are what their
comments say (services of stores, owners of keys, positive bounds, marks that are no data).

| module | theorems |
|---|---|
| `DeletionCase_proofs` | `TypeCorrect`, `SuccessProved`, `RowBacked`, `EscalationBacked`, `EvidenceFinal`, `ImplementsPromise` |
| `DeletionScan_proofs` | `PassGone`, `PassExpired`, `PassAttestable`, `DestructionAuthorised` |
| `ScheduledLab_proofs` | `TypeCorrect`, `Evidenced`, `AlertEvidenced`, `FindingEvidenced`, `Announced`, `NothingUnconfigured` |
| `Feeds_proofs` | `TypeCorrect`, `WorseDoesNotHelp`, `ClaimsDecideNothing`, `AssuranceMatches` |
| `PrivilegedSuspend_proofs` | `TypeCorrect`, `PassContained`, `FailAlerted`, `Warranted` |
| `ScfMapper_proofs` | `TypeCorrect`, `ApiSpared`, `StrictMapped`, `ImplementsPromise` |
| `Sweeps_proofs`, on the lemmas of `Sweeps_walks` | `TypeCorrect`, `LastingFlawsFail`, `QuietSweepsAreExact` |

All safety and action properties of the passing runs are proved.  The inductive invariants, and why the properties alone are not enough:

* **`OrderInv`** (lab 11, orders and records) adds `FrameInv`, `EvidenceInv` and
  `RecordInv` to the properties.  `SuccessIsProved` depends on the answer being
  that of the attempt the execution waits for, so one needs: a running execution is the one
  the worker serves, with its newest attempt (`FrameInv`); evidence exists only of attempts that were
  started, not before the write of the current one, and equals the reply after it
  (`EvidenceInv`); before its answer a run has its row, and a FAIL its alert, but neither finding
  nor alert comes before the evidence (`RecordInv`).
* **`CaseInv`** (lab 11, data) adds `ScopeInv` (what `todo` and `batch` may hold at each stage, which
  is what authorises a deletion), `BackupInv` (vaults already visited have their old recovery points gone
  or expiring) and `ScanInv` (stores already scanned without a hit hold no old data, and
  cannot get any back, since an item is written once).  `PassInv` then follows at the write.
* **`LabInv`** (pipeline) adds, for each event, what its stage implies: after the
  write the object's last version is the verdict, a FAIL that is past its finding
  has one, only an answered event has an answer (`StageInv`, `AnswerInv`), and a run's environment
  has at least the deployment's gaps, which keeps it before the stages that need them (`ConfigInv`).
* **`SafeInv`** (lab 14): during a suspension every active key of the principal is listed or was
  activated since (`SuspendInv`); a PASS that is not answered yet is contained already
  (`VerdictInv`); a FAIL past its alert was published (`AlertInv`).
* **`PoolInv`** (mapper): an index is held by one promise (`ClaimInv`); what was claimed is
  stored or still held (`StoreInv`); requests count the attempts of the holder
  (`RequestInv`); the file is written once, from a complete mapping (`FileInv`).

* **`SweepInv`** (walks) says of each item flaw in `still` that some flaw is on record (`Blamed`: FAIL
  is certain then) or that this one is awaited (`FlawInv`): a phase that sees it is still to come, and
  nothing that leads there was lost (`Ahead`), or it is the current one and has not made the call that
  sees it (`Due`).  For this the lists must keep what lasting flaws hang on, the user of a key, the detector of a
  finding, the VPC of a group (`ListInv`); a phase of several calls stays at a resource of its own list
  (`CursorInv`), and what is kept or still to do is of the kind looked for (`PlaceInv`).
  What the account as a whole lacks has its own part (`AccountInv`): a required list that is lasting
  empty was kept empty, a phase that must find something did if it is past, and missing trail
  coverage is on record after the first phase.  `QuietInv` is what holds on top while nothing changes:
  what is kept is there, what is on record is a flaw, and no compliant rule was passed over.
  The proof rests on `Rooted`: AWS keeps no key without its user, no finding without its detector,
  no group without its VPC.  `HomeAssumption` gives these their kinds, and `TrailAssumption` says that
  a trail *may* exist: `describe_trails` is called whatever there is, and a phase over a kind that
  `Item` does not have would never be.  The facts about the 24 phases are in `Sweeps_walks`.

`Feeds` needs only `AnswerInv`, that the last answer is the one about `judged` on some day up to now: the
hard part is in the evaluators, which are proved about directly.  `WorseDoesNotHelp` rests on one lemma per lab (`Worse02` … `Worse17`):
whatever makes the better submission FAIL has a counterpart in the worse one, a row
(`Rowwise`), an objective, a drift or a finding that is held against it as well, on the same day or
a later one; `RowsAssumption` gives their numbers and dates their types.
`ClaimsDecideNothing` needs that an event is evaluated alike whatever it claims
(`ClaimsOfEvents`, `ClaimsOfSubmissions`), and `AssuranceMatches` that every finding names a control
of the assurance case (`FindingControls`).

`ImplementsPromise` is in both cases the safety part of the refinement: the initial states
map to initial states and every step to a step or a stutter.

Only model-checked: the liveness half of both `KeepsPromise`s, `EverySweepEnds`, `SweepEnds` and
`AnswerCatchesUp`, since fairness and ENABLED are out of reach of the prover's backends.

## 5. Where the code and its documents disagree

Each of these is a run in which TLC finds the documented statement violated.

| run | statement | what the code does |
|---|---|---|
| `deletion_empty_catalog` | lab 11 `handler.py:9-10`, `:18-19`: an empty catalog outside simulation is CONFIG_ERROR, PASS needs a real scan | the emptiness test precedes the tenant filter (`:164`): a catalog with only another tenant's entries passes unscanned if backups are out of scope |
| `deletion_dry_run` | lab 11 `handler.py:24-25`: dry-run states never count as completed deletion | vaults named by `backup_vault` are purged but not rescanned unless a `backup` entry names them (`:339`): a dry run passes over recovery points |
| `rejected` | playbook `:139`, FAIL: "Finding + SNS." | `emit` ignores `FailedCount` (`LC:332`) and the handlers, lab 11's included (`:497`), the count; the run shows lab 05, and `EscalationIsBacked` promises no finding for lab 11's FAIL either |
| `guardduty` | lab 14 `template.yaml:558`: invoke the worker on GuardDuty findings (suspend path) | `_resolve_mode` (`handler.py:470`) knows none of that event's keys: answered ERROR |
| `drift_ignored` | lab 16 `SPEC.md:26-27`: drift that matches an ignore pattern is expected, any other at or above FAIL_SEVERITY fails | an entry is dropped when the alphabetically first of its changed attributes is ignored (`handler.py:228`): with `*.ami` ignored, an instance whose `ami` and `ingress` drifted passes |

Seen while modelling, and left without a run of their own.

* All labs: ERROR and CONFIG_ERROR answers are announced by no lab (playbook `:130` names the
  topic for every non-PASS), nor is lab 06's NOT_APPLICABLE.  The topic is looked for when there is something to announce
  (`LC:350`), so a lab without one passes until its first FAIL (`SECURITY.md:24`: a partially
  configured lab never passes).  A finding opened by a FAIL is not resolved by a later PASS
  (lab 04 `:231`).
* Labs 02, 03, 12, 13, 14 and 15 open no finding on FAIL (playbook `:139`; lab 02 `SPEC.md:25`).
  The scheduled input `{"source": "scheduled-sweep"}` carries nothing that labs 12, 13, 14
  and 15 could evaluate: CONFIG_ERROR or ERROR (lab 12 `README.md:73`).
* Lab 01 `:59-61`: the timeout given to `urlopen` bounds a socket operation, not the request.
* Lab 02: the rule (`template.yaml:522-527`) matches the findings of every product; one without a
  date is taken as observed now and never breaches.
* Lab 11: without `requested_at` the case id has the attempt's clock in it (`:144`), so each
  retry of an execution has a case of its own (`:128-129`: retries converge on one case).
* Lab 12: a duration that is no number exceeds nothing.
* Lab 13: an inherited item of an account in the boundary passes, federal data or not.
* Lab 15: an empty list of change events passes.
* Lab 16 `:195-200`: one entry of `resource_drift` hides all of `resource_changes`.  An entry
  with only tags changed is low, one with no attribute listed is medium.
* Lab 17 `:120-161` takes the string `"false"` for true (`LC:203-205` says how it should be
  read); an RTO of zero counts as a long one (`:268`).
* Labs 16 and 17 judge the object they find, however old it is.

## 6. What is abstracted, and what is not modelled

* **Data.** Items, principals, keys and controls are values; tenants' tags, name patterns
  (`Detected`) and rosters (one flag) are what the handlers get out of them.  A list
  of a store is one step: pages are not split, a failure between pages is a partial delete followed by
  `Fault`.  Catalog entries are visited in any order.  `HomeAssumption` puts each item of lab 11 in one
  store or vault: entries whose S3 prefixes overlap (`acme`, `acme-2`; lab 11 `:207`) are outside the
  model.  Lab 14 drops the account of a foreign ARN before it acts on the name; the model has one account.
* **Verdicts in the pipeline.** `ScheduledLab.Evaluate` takes any verdict the lab can
  compute: what follows the verdict does not depend on how it came about.
* **Walks.** Items of a list come in any order and in any pages.  A page of `GetFindings` for a
  page of `ListFindings` ids (lab 05), and `DescribeKey` for a listed id (lab 06), are one
  step with the list.  Waiting between calls is lab 01's `remaining` only; what happens in that
  time is `Disturb`.  Where things are (`Home`: the VPC of a group, the user of a key) does not change.  A second sweep does not meet the first one: nothing is kept.
* **Submissions.** The simulation fixtures of labs 02, 03 and 12–17 are submissions like any
  other.  `DRIFT_IGNORE` globs are pairs of a type and an attribute, either of them `*`.  The
  provenance of a plan (commit, hashes) is copied to the evidence and decides nothing.
* **Evidence keys.** An object is identified by its run id.  The key also holds the
  date, so that a run retried after midnight leaves two objects.
* **Delivery.** A duplicate delivery by EventBridge is another event.  Gaps of the configuration
  close but do not open.  Lambda's concurrency limit is the only throttling.
* **`ServiceException` without a run** in lab 11 is `Invoke`, `LoseAnswer`, `Kill`.
* **Deleted access keys** do not come back.  A simulated suspicion counts as a real one in lab 14, as in the code:
  armed, it suspends.
* **The SCF API** does not change during a run; `map-all-labs.mjs` runs labs one
  after another, stops at the first that fails and does not pass `--strict`, so a refresh of one lab
  is the unit.  `resolveKsi`, the overlay's aliases and `reverseLookup` only read.
* **Not modelled**: generators and drift gates (pure functions of files, run by hand and by
  CI), `governance/` (sequential scripts outside AWS), the learning page, and the static
  hardening in the templates, which `tests/test_templates.py` covers.

## 7. Plan

The order was: the part that destroys data, the pipeline that every other lab runs, the part
that changes IAM, the mapper's pool, then the walks and the judging of submissions.  These
are done, checked, and proved as far as section 4 says.  What is left, in order:

1. **Composition**: `ScheduledLab`'s `Evaluate` bound to one of the walks, to state over days
   that an alert stands for a flaw that is or was there, and that findings and alerts of
   consecutive runs agree.
2. **Lab 11 across executions**: a late attempt of one execution against the row another one
   of the same case wrote.
