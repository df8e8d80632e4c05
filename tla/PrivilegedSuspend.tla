-------------------------- MODULE PrivilegedSuspend --------------------------
(***************************************************************************)
(* Lab 14: the worker that suspends a privileged IAM principal after a     *)
(* suspicious finding, while the account goes on living: users create and  *)
(* delete their access keys, the SOC releases who was suspended, operators *)
(* arm and disarm the lab, and a run that dies is tried again.             *)
(*                                                                         *)
(* A suspension is several IAM calls and no transaction: list the keys,    *)
(* deactivate each one listed as active, attach the deny-all policy.  What *)
(* comes after it, evidence, alert and answer, is ScheduledLab's pipeline; *)
(* here it matters only that it can fail after IAM has been changed.       *)
(***************************************************************************)
EXTENDS Naturals

CONSTANTS
    User, Role,   \* IAM users, and roles (named directly or by a session)
    Opaque,       \* principals whose ARN names neither: root, federated
    Key, Owner,   \* access keys, and [Key -> User]
    Detected,     \* the principals is_privileged finds by name
    LabPath,      \* those under /lab/, which the function may change
    Run, Asks,    \* invocations, and what they may ask for
    MaxTries      \* Lambda's runs of one invocation

Principal == User \union Role \union Opaque

\* flag: the event's "privileged" hint; for a roster, that a row of it has
\* stood privileged for too long.  "finding": GuardDuty's event, as the rule
\* sends it, without a suspicious payload.  "other": the scheduled input, or
\* anything else the handler rejects.  A simulation is a suspicion like any
\* other: armed, it suspends.
Ask == [form: {"lifecycle", "suspicious", "review", "finding", "other"},
        who: Principal, flag: BOOLEAN]

ASSUME PrincipalAssumption ==
    /\ User \intersect Role = {}
    /\ Opaque \intersect (User \union Role) = {}
    /\ Owner \in [Key -> User]
    /\ Detected \subseteq Principal
    /\ LabPath \subseteq User \union Role
ASSUME AskAssumption == Asks \subseteq Ask /\ MaxTries \in Nat \ {0}

VARIABLES
    auto,      \* AUTO_SUSPEND as deployed, "unreadable" if any setting is
    granted,   \* EnableSuspendActions: the function may call IAM
    key,       \* [Key -> KeyStates]
    denied,    \* principals with the deny-all policy attached
    ask,       \* [Run -> Asks]
    at,        \* [Run -> Stages]
    tries,     \* [Run -> Nat]
    armed,     \* [Run -> Settings]: AUTO_SUSPEND when its try started
    listed,    \* [Run -> SUBSET Key]: listed active, not deactivated yet
    verdict,   \* [Run -> {"PASS", "FAIL"}]
    alerts,    \* SUBSET Run: FAIL published
    answer,    \* [Run -> Answers]
    reopened   \* history, [Run -> SUBSET (Key \union Principal)]: keys made
               \* active and principals released since the run looked at IAM

vars == <<auto, granted, key, denied, ask, at, tries, armed, listed, verdict,
          alerts, answer, reopened>>
deployment == <<auto, granted, ask>>
iam == <<key, denied, reopened>>
outcome == <<alerts, answer>>

Unmarked == {"finding", "other"}
Settings == {"on", "off", "unreadable"}
KeyStates == {"unborn", "Active", "Inactive", "deleted"}
Running == {"config", "list", "suspend", "write", "alert", "respond"}
Stages == {"queued", "answered", "dead"} \union Running
Answers == {"none", "PASS", "FAIL", "CONFIG_ERROR", "ERROR", "BAD_EVENT"}

Init ==
    /\ auto \in Settings
    /\ granted \in BOOLEAN
    /\ key \in [Key -> {"unborn", "Active", "Inactive"}]
    /\ denied = {}
    /\ ask \in [Run -> Asks]
    /\ at = [r \in Run |-> "queued"]
    /\ tries = [r \in Run |-> 0]
    /\ armed = [r \in Run |-> "off"]
    /\ listed = [r \in Run |-> {}]
    /\ verdict = [r \in Run |-> "PASS"]
    /\ alerts = {}
    /\ answer = [r \in Run |-> "none"]
    /\ reopened = [r \in Run |-> {}]

Keys(p) == {k \in Key : Owner[k] = p}

-----------------------------------------------------------------------------
(* The account.                                                            *)

Reopen(x) == reopened' = [r \in Run |-> reopened[r] \union {x}]

\* The user or an administrator creates a key, activates one, deletes one.
ActivateKey(k) ==
    /\ key[k] \in {"unborn", "Inactive"}
    /\ key' = [key EXCEPT ![k] = "Active"]
    /\ Reopen(k)
    /\ UNCHANGED <<deployment, denied, at, tries, armed, listed, verdict, outcome>>

DeleteKey(k) ==
    /\ key[k] \in {"Active", "Inactive"}
    /\ key' = [key EXCEPT ![k] = "deleted"]
    /\ UNCHANGED <<deployment, denied, reopened, at, tries, armed, listed, verdict, outcome>>

\* Break glass: the SOC detaches the policy.
Release(p) ==
    /\ p \in denied
    /\ denied' = denied \ {p}
    /\ Reopen(p)
    /\ UNCHANGED <<deployment, key, at, tries, armed, listed, verdict, outcome>>

\* AutoSuspend and EnableSuspendActions are parameters of the stack.
Redeploy ==
    /\ auto' \in Settings /\ granted' \in BOOLEAN
    /\ UNCHANGED <<ask, iam, at, tries, armed, listed, verdict, outcome>>

-----------------------------------------------------------------------------
(* The worker.                                                             *)

\* One at a time; the environment is the deployment's when it starts.
Start(r) ==
    /\ at[r] = "queued"
    /\ \A q \in Run : at[q] \notin Running
    /\ at' = [at EXCEPT ![r] = "config"]
    /\ tries' = [tries EXCEPT ![r] = @ + 1]
    /\ armed' = [armed EXCEPT ![r] = auto]
    /\ UNCHANGED <<deployment, iam, listed, verdict, outcome>>

Kill(r) ==
    /\ at[r] \in Running
    /\ at' = [at EXCEPT ![r] = IF tries[r] < MaxTries THEN "queued" ELSE "dead"]
    /\ UNCHANGED <<deployment, iam, tries, armed, listed, verdict, outcome>>

\* Mutant: a hint of the event overrules detection.
PrivilegedByHint(a) == a.form = "suspicious" /\ a.flag

\* Detection decides; the event's hint may only escalate.
Privileged(a) == a.form = "suspicious" /\ (a.who \in Detected \/ a.flag)

\* Mutant: a dry run is what happens without AUTO_SUSPEND set to anything.
SuspendsUnlessUnreadable(r) == Privileged(ask[r]) /\ armed[r] # "unreadable"
Suspends(r) == Privileged(ask[r]) /\ armed[r] = "on"

Reject(r, why) ==
    /\ at' = [at EXCEPT ![r] = "answered"]
    /\ answer' = [answer EXCEPT ![r] = why]

Refuse(r) ==
    /\ at[r] = "config"
    /\ \/ armed[r] = "unreadable" /\ Reject(r, "CONFIG_ERROR")
       \/ armed[r] # "unreadable" /\ ask[r].form \in Unmarked /\ Reject(r, "BAD_EVENT")
    /\ UNCHANGED <<deployment, iam, tries, armed, listed, verdict, alerts>>

\* Mutant: the status of the rehearsed action is taken for the run's.
VerdictOfAction(a) == IF Privileged(a) THEN "DRY_RUN" ELSE "PASS"

\* Whatever needs no IAM call: lifecycle steps and tickets are recorded, a
\* suspension is rehearsed, or its principal cannot be resolved.
Verdict(a) ==
    IF Privileged(a) \/ (a.form = "review" /\ a.flag) THEN "FAIL" ELSE "PASS"

Decide(r) ==
    /\ at[r] = "config"
    /\ armed[r] # "unreadable" /\ ask[r].form \notin Unmarked
    /\ ~Suspends(r) \/ ask[r].who \in Opaque
    /\ verdict' = [verdict EXCEPT ![r] = Verdict(ask[r])]
    /\ at' = [at EXCEPT ![r] = "write"]
    /\ UNCHANGED <<deployment, iam, tries, armed, listed, outcome>>

\* A role has no keys to list.
BeginSuspend(r) ==
    /\ at[r] = "config"
    /\ Suspends(r) /\ ask[r].who \notin Opaque
    /\ at' = [at EXCEPT ![r] = IF ask[r].who \in User THEN "list" ELSE "suspend"]
    /\ listed' = [listed EXCEPT ![r] = {}]
    /\ reopened' = [reopened EXCEPT ![r] = {}]
    /\ UNCHANGED <<deployment, key, denied, tries, armed, verdict, outcome>>

Allowed(r) == granted /\ ask[r].who \in LabPath

ListKeys(r) ==
    /\ at[r] = "list"
    /\ Allowed(r)
    /\ listed' = [listed EXCEPT ![r] = {k \in Keys(ask[r].who) : key[k] = "Active"}]
    /\ reopened' = [reopened EXCEPT ![r] = {}]
    /\ at' = [at EXCEPT ![r] = "suspend"]
    /\ UNCHANGED <<deployment, key, denied, tries, armed, verdict, outcome>>

\* A key deleted in the meantime makes the call fail.
DeactivateKey(r) ==
    /\ at[r] = "suspend"
    /\ Allowed(r)
    /\ \E k \in listed[r] :
         /\ key[k] # "deleted"
         /\ key' = [key EXCEPT ![k] = "Inactive"]
         /\ listed' = [listed EXCEPT ![r] = @ \ {k}]
    /\ UNCHANGED <<deployment, denied, reopened, at, tries, armed, verdict, outcome>>

AttachDenyAll(r) ==
    /\ at[r] = "suspend"
    /\ Allowed(r)
    /\ listed[r] = {}
    /\ denied' = denied \union {ask[r].who}
    /\ verdict' = [verdict EXCEPT ![r] = "PASS"]
    /\ at' = [at EXCEPT ![r] = "write"]
    /\ UNCHANGED <<deployment, key, reopened, tries, armed, listed, outcome>>

\* An IAM call raises, perhaps after taking effect: the rest is given up.
SuspendFails(r) ==
    /\ at[r] \in {"list", "suspend"}
    /\ verdict' = [verdict EXCEPT ![r] = "FAIL"]
    /\ at' = [at EXCEPT ![r] = "write"]
    /\ \/ UNCHANGED <<key, denied>>
       \/ /\ at[r] = "suspend" /\ Allowed(r)
          /\ \/ /\ \E k \in listed[r] :
                     key[k] # "deleted" /\ key' = [key EXCEPT ![k] = "Inactive"]
                /\ UNCHANGED denied
             \/ /\ listed[r] = {}
                /\ denied' = denied \union {ask[r].who}
                /\ UNCHANGED key
    /\ UNCHANGED <<deployment, reopened, tries, armed, listed, outcome>>

\* Mutant: only what was armed is announced.
WriteRehearsalQuietly(r) ==
    /\ at[r] = "write"
    /\ at' = [at EXCEPT ![r] = IF Suspends(r) /\ verdict[r] = "FAIL" THEN "alert" ELSE "respond"]
    /\ UNCHANGED <<deployment, iam, tries, armed, listed, verdict, outcome>>

WriteEvidence(r) ==
    /\ at[r] = "write"
    /\ at' = [at EXCEPT ![r] = IF verdict[r] = "PASS" THEN "respond" ELSE "alert"]
    /\ UNCHANGED <<deployment, iam, tries, armed, listed, verdict, outcome>>

PublishAlert(r) ==
    /\ at[r] = "alert"
    /\ alerts' = alerts \union {r}
    /\ at' = [at EXCEPT ![r] = "respond"]
    /\ UNCHANGED <<deployment, iam, tries, armed, listed, verdict, answer>>

Respond(r) ==
    /\ at[r] = "respond"
    /\ at' = [at EXCEPT ![r] = "answered"]
    /\ answer' = [answer EXCEPT ![r] = verdict[r]]
    /\ UNCHANGED <<deployment, iam, tries, armed, listed, verdict, alerts>>

\* The bucket or the topic is missing, or their call raises.
Fault(r) ==
    /\ at[r] \in {"write", "alert"}
    /\ \E why \in {"CONFIG_ERROR", "ERROR"} : Reject(r, why)
    /\ alerts' \in {alerts, IF at[r] = "alert" THEN alerts \union {r} ELSE alerts}
    /\ UNCHANGED <<deployment, iam, tries, armed, listed, verdict>>

Worker(r) ==
    \/ Refuse(r) \/ Decide(r) \/ BeginSuspend(r) \/ ListKeys(r) \/ DeactivateKey(r)
    \/ AttachDenyAll(r) \/ SuspendFails(r) \/ WriteEvidence(r) \/ PublishAlert(r)
    \/ Respond(r) \/ Fault(r)

Account ==
    \/ \E k \in Key : ActivateKey(k) \/ DeleteKey(k)
    \/ \E p \in Principal : Release(p)
    \/ Redeploy

Next == Account \/ \E r \in Run : Start(r) \/ Kill(r) \/ Worker(r)

Spec == Init /\ [][Next]_vars

-----------------------------------------------------------------------------
(* Properties.                                                             *)

TypeOK ==
    /\ auto \in Settings /\ granted \in BOOLEAN
    /\ key \in [Key -> KeyStates]
    /\ denied \in SUBSET (User \union Role)
    /\ ask \in [Run -> Asks]
    /\ at \in [Run -> Stages]
    /\ tries \in [Run -> Nat]
    /\ armed \in [Run -> Settings]
    /\ listed \in [Run -> SUBSET Key]
    /\ verdict \in [Run -> {"PASS", "FAIL"}]
    /\ alerts \in SUBSET Run
    /\ answer \in [Run -> Answers]
    /\ reopened \in [Run -> SUBSET (Key \union Principal)]

Suspected(r) ==
    ask[r].form = "suspicious" /\ (ask[r].who \in Detected \/ ask[r].flag)

Contained(r) ==
    /\ ask[r].who \in denied \union reopened[r]
    /\ \A k \in Keys(ask[r].who) : key[k] = "Active" => k \in reopened[r]

\* "Never a suspended-in-name-only PASS": when the worker answers PASS to a
\* suspicion about a privileged principal, hinted or detected, that principal
\* is denied and none of its keys is active, but for what the account's own
\* people reopened after the worker looked; whatever earlier tries, other
\* runs, deleted keys and redeployments did in between.
PassIsContained ==
    \A r \in Run : answer[r] = "PASS" /\ Suspected(r) => Contained(r)

\* A FAIL, which is all a rehearsed or half-done suspension gets, is never
\* answered before it was published.
FailIsAlerted ==
    \A r \in Run : answer[r] = "FAIL" => r \in alerts

\* Nobody is suspended but the subject of a privileged suspicion, by a run
\* that started with AUTO_SUSPEND on, within /lab/ and while IAM grants it:
\* disarming the lab stops all runs but the one that is going on.
SuspensionIsWarranted ==
    [][\A p \in Principal :
         (p \in denied' \ denied \/ \E k \in Keys(p) : key[k] = "Active" /\ key'[k] = "Inactive")
         => \E r \in Run : /\ ask[r].who = p /\ Suspected(r)
                           /\ at[r] = "suspend" /\ armed[r] = "on" /\ Allowed(r)]_vars

\* labs/14-privileged-suspend-lifecycle/infrastructure/template.yaml:558,
\* "Invoke the worker on high-severity GuardDuty findings (suspend path)": the
\* event the rule sends is one the worker can evaluate.
FindingsAreUnderstood ==
    \A r \in Run : ask[r].form = "finding" => answer[r] # "BAD_EVENT"
=============================================================================
