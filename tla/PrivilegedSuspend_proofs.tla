----------------------- MODULE PrivilegedSuspend_proofs -----------------------
(***************************************************************************)
(* What a PASS of lab 14 is worth, for any number of principals, keys,     *)
(* invocations and retries.                                                *)
(***************************************************************************)
EXTENDS PrivilegedSuspend, TLAPS

\* While a run suspends: it has reason to, and every key that is active is
\* still on its list or was activated behind its back.
SuspendOf(r) ==
    /\ at[r] = "list" => Suspected(r) /\ armed[r] = "on" /\ ask[r].who \in User
    /\ at[r] = "suspend" =>
         /\ Suspected(r) /\ armed[r] = "on" /\ ask[r].who \in User \union Role
         /\ listed[r] \subseteq Keys(ask[r].who)
         /\ \A k \in Keys(ask[r].who) : key[k] = "Active" => k \in listed[r] \union reopened[r]

\* A PASS verdict is kept to the answer, and only with the containment it is
\* about; an invocation that is answered runs no more.
VerdictOf(r) ==
    /\ at[r] # "answered" => answer[r] = "none"
    /\ at[r] \in {"write", "respond"} /\ verdict[r] = "PASS" /\ Suspected(r) => Contained(r)
    /\ answer[r] = "PASS" /\ Suspected(r) => Contained(r)

\* Only a FAIL is announced, and it is before it is answered.
AlertOf(r) ==
    /\ at[r] = "alert" => verdict[r] = "FAIL"
    /\ at[r] = "respond" /\ verdict[r] = "FAIL" => r \in alerts
    /\ answer[r] = "FAIL" => r \in alerts

SuspendInv == \A r \in Run : SuspendOf(r)
VerdictInv == \A r \in Run : VerdictOf(r)
AlertInv == \A r \in Run : AlertOf(r)

SafeInv == TypeOK /\ SuspendInv /\ VerdictInv /\ AlertInv

-----------------------------------------------------------------------------
(* Roles have no keys; what a run may touch is known by its stage.         *)

LEMMA AskTypes ==
    ASSUME TypeOK, NEW r \in Run
    PROVE  /\ ask[r] \in Ask /\ ask[r].who \in Principal
           /\ Keys(ask[r].who) \subseteq Key
           /\ Privileged(ask[r]) <=> Suspected(r)
BY AskAssumption DEF TypeOK, Ask, Keys, Privileged, Suspected

LEMMA RolesHaveNoKeys ==
    ASSUME NEW p \in Role
    PROVE  Keys(p) = {}
BY PrincipalAssumption DEF Keys

LEMMA InitSafe == Init => SafeInv
<1> SUFFICES ASSUME Init PROVE SafeInv
  OBVIOUS
<1>1. TypeOK
  BY DEF Init, TypeOK, Settings, KeyStates, Stages, Running, Answers
<1>2. SuspendInv /\ VerdictInv /\ AlertInv
  BY DEF Init, SuspendInv, VerdictInv, AlertInv, SuspendOf, VerdictOf, AlertOf
<1> QED
  BY <1>1, <1>2 DEF SafeInv

-----------------------------------------------------------------------------
(* Type correctness.                                                       *)

LEMMA AccountTypes == TypeOK /\ Account => TypeOK'
<1> SUFFICES ASSUME TypeOK, Account PROVE TypeOK'
  OBVIOUS
<1> USE DEF TypeOK, KeyStates, deployment, iam, outcome
<1>1. ASSUME NEW k \in Key, ActivateKey(k) PROVE TypeOK'
  BY <1>1 DEF ActivateKey, Reopen
<1>2. ASSUME NEW k \in Key, DeleteKey(k) PROVE TypeOK'
  BY <1>2 DEF DeleteKey
<1>3. ASSUME NEW p \in Principal, Release(p) PROVE TypeOK'
  BY <1>3 DEF Release, Reopen
<1>4. ASSUME Redeploy PROVE TypeOK'
  BY <1>4 DEF Redeploy
<1> QED
  BY <1>1, <1>2, <1>3, <1>4 DEF Account

LEMMA RunTypes ==
    ASSUME SafeInv, NEW r \in Run, Start(r) \/ Kill(r) \/ Worker(r)
    PROVE  TypeOK'
<1> USE DEF SafeInv, TypeOK, Stages, Running, deployment, iam, outcome
<1>1. CASE Start(r)
  BY <1>1 DEF Start
<1>2. CASE Kill(r)
  BY <1>2 DEF Kill
<1>3. CASE Refuse(r)
  BY <1>3 DEF Refuse, Reject, Answers
<1>4. CASE Decide(r)
  BY <1>4 DEF Decide, Verdict
<1>5. CASE BeginSuspend(r)
  BY <1>5 DEF BeginSuspend
<1>6. CASE ListKeys(r)
  BY <1>6 DEF ListKeys, Keys
<1>7. CASE DeactivateKey(r)
  BY <1>7 DEF DeactivateKey, KeyStates
<1>8. CASE AttachDenyAll(r)
  BY <1>8 DEF AttachDenyAll, SuspendInv, SuspendOf
<1>9. CASE SuspendFails(r)
  <2>1. denied' \in SUBSET (User \union Role)
    BY <1>9 DEF SuspendFails, SuspendInv, SuspendOf
  <2>2. key' \in [Key -> KeyStates]
    BY <1>9 DEF SuspendFails, KeyStates
  <2> QED
    BY <1>9, <2>1, <2>2 DEF SuspendFails
<1>10. CASE WriteEvidence(r)
  BY <1>10 DEF WriteEvidence
<1>11. CASE PublishAlert(r)
  BY <1>11 DEF PublishAlert
<1>12. CASE Respond(r)
  BY <1>12 DEF Respond, Answers
<1>13. CASE Fault(r)
  BY <1>13 DEF Fault, Reject, Answers
<1> QED
  BY <1>1, <1>2, <1>3, <1>4, <1>5, <1>6, <1>7, <1>8, <1>9, <1>10, <1>11, <1>12, <1>13 DEF Worker

-----------------------------------------------------------------------------
(* The account: only who reopens something weakens what a run achieved, and *)
(* every reopening is on record for every run.                              *)

LEMMA AccountSafe == SafeInv /\ Account => SafeInv'
<1> SUFFICES ASSUME SafeInv, Account PROVE SafeInv'
  OBVIOUS
<1>t. TypeOK /\ TypeOK'
  BY AccountTypes DEF SafeInv
<1>s. /\ at' = at /\ armed' = armed /\ listed' = listed /\ verdict' = verdict
      /\ ask' = ask /\ alerts' = alerts /\ answer' = answer
  BY DEF Account, ActivateKey, DeleteKey, Release, Redeploy, deployment, iam, outcome
\* What stays closed does.
<1>k. ASSUME NEW r \in Run, NEW k \in Key, key'[k] = "Active", k \notin reopened'[r]
      PROVE  key[k] = "Active" /\ k \notin reopened[r]
  <2>1. ASSUME NEW j \in Key, ActivateKey(j) PROVE key[k] = "Active" /\ k \notin reopened[r]
    BY <1>k, <1>t, <2>1 DEF ActivateKey, Reopen, TypeOK
  <2>2. ASSUME NEW j \in Key, DeleteKey(j) PROVE key[k] = "Active" /\ k \notin reopened[r]
    BY <1>k, <1>t, <2>2 DEF DeleteKey, TypeOK
  <2>3. ASSUME NEW p \in Principal, Release(p) PROVE key[k] = "Active" /\ k \notin reopened[r]
    BY <1>k, <1>t, <2>3 DEF Release, Reopen, TypeOK
  <2>4. ASSUME Redeploy PROVE key[k] = "Active" /\ k \notin reopened[r]
    BY <1>k, <2>4 DEF Redeploy, iam
  <2> QED
    BY <2>1, <2>2, <2>3, <2>4 DEF Account
<1>d. ASSUME NEW r \in Run, NEW p \in denied \union reopened[r]
      PROVE  p \in denied' \union reopened'[r]
  <2>1. ASSUME NEW j \in Key, ActivateKey(j) PROVE p \in denied' \union reopened'[r]
    BY <1>d, <1>t, <2>1 DEF ActivateKey, Reopen, TypeOK
  <2>2. ASSUME NEW j \in Key, DeleteKey(j) PROVE p \in denied' \union reopened'[r]
    BY <1>d, <2>2 DEF DeleteKey
  <2>3. ASSUME NEW q \in Principal, Release(q) PROVE p \in denied' \union reopened'[r]
    BY <1>d, <1>t, <2>3 DEF Release, Reopen, TypeOK
  <2>4. ASSUME Redeploy PROVE p \in denied' \union reopened'[r]
    BY <1>d, <2>4 DEF Redeploy, iam
  <2> QED
    BY <2>1, <2>2, <2>3, <2>4 DEF Account
<1>c. ASSUME NEW r \in Run, Contained(r) PROVE Contained(r)'
  <2>1. ask[r].who \in denied' \union reopened'[r]
    BY <1>c, <1>d DEF Contained
  <2> QED
    BY <1>c, <1>s, <1>k, <2>1 DEF Contained, Keys
<1>1. ASSUME NEW r \in Run PROVE SuspendOf(r)'
  <2>1. Keys(ask[r].who) \subseteq Key /\ SuspendOf(r)
    BY DEF Keys, SafeInv, SuspendInv
  <2> QED
    BY <1>s, <1>k, <2>1 DEF SuspendOf, Suspected, Keys
<1>2. ASSUME NEW r \in Run PROVE VerdictOf(r)'
  BY <1>s, <1>c DEF SafeInv, VerdictInv, VerdictOf, Suspected
<1>3. ASSUME NEW r \in Run PROVE AlertOf(r)'
  BY <1>s DEF SafeInv, AlertInv, AlertOf
<1> QED
  BY <1>t, <1>1, <1>2, <1>3 DEF SafeInv, SuspendInv, VerdictInv, AlertInv

-----------------------------------------------------------------------------
(* A worker only ever closes: what one run does weakens no other run.      *)

LEMMA RunFrame ==
    ASSUME SafeInv, NEW r \in Run, Start(r) \/ Kill(r) \/ Worker(r)
    PROVE  /\ ask' = ask
           /\ \A k \in Key : key'[k] = "Active" => key[k] = "Active"
           /\ denied \subseteq denied'
           /\ alerts \subseteq alerts'
           /\ \A q \in Run \ {r} :
                /\ at'[q] = at[q] /\ armed'[q] = armed[q] /\ listed'[q] = listed[q]
                /\ verdict'[q] = verdict[q] /\ answer'[q] = answer[q]
                /\ reopened'[q] = reopened[q]
<1> USE DEF SafeInv, TypeOK, deployment, iam, outcome
<1>1. CASE Start(r)
  BY <1>1 DEF Start
<1>2. CASE Kill(r)
  BY <1>2 DEF Kill
<1>3. CASE Refuse(r)
  BY <1>3 DEF Refuse, Reject
<1>4. CASE Decide(r)
  BY <1>4 DEF Decide
<1>5. CASE BeginSuspend(r)
  BY <1>5 DEF BeginSuspend
<1>6. CASE ListKeys(r)
  BY <1>6 DEF ListKeys
<1>7. CASE DeactivateKey(r)
  BY <1>7 DEF DeactivateKey
<1>8. CASE AttachDenyAll(r)
  BY <1>8 DEF AttachDenyAll
<1>9. CASE SuspendFails(r)
  <2>1. denied \subseteq denied' /\ \A k \in Key : key'[k] = "Active" => key[k] = "Active"
    BY <1>9 DEF SuspendFails
  <2> QED
    BY <1>9, <2>1 DEF SuspendFails
<1>10. CASE WriteEvidence(r)
  BY <1>10 DEF WriteEvidence
<1>11. CASE PublishAlert(r)
  BY <1>11 DEF PublishAlert
<1>12. CASE Respond(r)
  BY <1>12 DEF Respond
<1>13. CASE Fault(r)
  BY <1>13 DEF Fault, Reject
<1> QED
  BY <1>1, <1>2, <1>3, <1>4, <1>5, <1>6, <1>7, <1>8, <1>9, <1>10, <1>11, <1>12, <1>13 DEF Worker

LEMMA OthersSafe ==
    ASSUME SafeInv, NEW r \in Run, Start(r) \/ Kill(r) \/ Worker(r),
           NEW q \in Run, q # r
    PROVE  SuspendOf(q)' /\ VerdictOf(q)' /\ AlertOf(q)'
<1>1. /\ ask' = ask /\ denied \subseteq denied' /\ alerts \subseteq alerts'
      /\ at'[q] = at[q] /\ armed'[q] = armed[q] /\ listed'[q] = listed[q]
      /\ verdict'[q] = verdict[q] /\ answer'[q] = answer[q] /\ reopened'[q] = reopened[q]
  BY RunFrame
<1>2. \A k \in Keys(ask[q].who) : key'[k] = "Active" => key[k] = "Active"
  BY RunFrame DEF Keys
<1>3. SuspendOf(q) /\ VerdictOf(q) /\ AlertOf(q)
  BY DEF SafeInv, SuspendInv, VerdictInv, AlertInv
<1>4. SuspendOf(q)'
  BY <1>1, <1>2, <1>3 DEF SuspendOf, Suspected, Keys
<1>5. Contained(q) => Contained(q)'
  BY <1>1, <1>2 DEF Contained, Keys
<1>6. VerdictOf(q)'
  BY <1>1, <1>3, <1>5 DEF VerdictOf, Suspected
<1>7. AlertOf(q)'
  BY <1>1, <1>3 DEF AlertOf
<1> QED
  BY <1>4, <1>6, <1>7

-----------------------------------------------------------------------------
(* The run itself, one action at a time.                                   *)

LEMMA SelfSafe ==
    ASSUME SafeInv, NEW r \in Run, Start(r) \/ Kill(r) \/ Worker(r)
    PROVE  SuspendOf(r)' /\ VerdictOf(r)' /\ AlertOf(r)'
<1> DEFINE Mine == SuspendOf(r)' /\ VerdictOf(r)' /\ AlertOf(r)'
<1>m. SuspendOf(r) /\ VerdictOf(r) /\ AlertOf(r)
  BY DEF SafeInv, SuspendInv, VerdictInv, AlertInv
<1>p. Privileged(ask[r]) <=> Suspected(r)
  BY AskTypes DEF SafeInv
<1>y. ask[r].who \in Principal /\ Keys(ask[r].who) \subseteq Key
  BY AskTypes DEF SafeInv
<1> USE <1>m DEF SafeInv, TypeOK, SuspendOf, VerdictOf, AlertOf, Running,
        deployment, iam, outcome
<1>1. CASE Start(r)
  BY <1>1 DEF Start, Suspected, Contained
<1>2. CASE Kill(r)
  BY <1>2 DEF Kill, Suspected, Contained
<1>3. CASE Refuse(r)
  BY <1>3 DEF Refuse, Reject
<1>4. CASE Decide(r)
  <2>1. verdict'[r] = "PASS" => ~Suspected(r)
    BY <1>4, <1>p DEF Decide, Verdict
  <2> QED
    BY <1>4, <2>1 DEF Decide, Suspected
<1>5. CASE BeginSuspend(r)
  <2>1. Suspected(r) /\ armed[r] = "on" /\ ask[r].who \in User \union Role
    BY <1>5, <1>p, <1>y DEF BeginSuspend, Suspends, Principal
  <2>2. ask[r].who \notin User => Keys(ask[r].who) = {}
    BY <2>1, RolesHaveNoKeys
  <2>3. at'[r] \in {"list", "suspend"} /\ (at'[r] = "list" <=> ask[r].who \in User)
    BY <1>5 DEF BeginSuspend
  <2>4. ask' = ask /\ armed' = armed /\ answer' = answer /\ alerts' = alerts
        /\ at[r] = "config" /\ listed'[r] = {}
    BY <1>5 DEF BeginSuspend
  <2>5. SuspendOf(r)'
    BY <2>1, <2>2, <2>3, <2>4 DEF Suspected, Keys
  <2> QED
    BY <2>3, <2>4, <2>5
<1>6. CASE ListKeys(r)
  <2>1. ask' = ask /\ armed' = armed /\ answer' = answer /\ alerts' = alerts /\ key' = key
        /\ at[r] = "list" /\ at'[r] = "suspend"
        /\ listed'[r] = {k \in Keys(ask[r].who) : key[k] = "Active"}
    BY <1>6 DEF ListKeys
  <2>2. SuspendOf(r)'
    BY <2>1 DEF Suspected, Keys
  <2> QED
    BY <2>1, <2>2
<1>7. CASE DeactivateKey(r)
  <2>1. PICK k \in listed[r] : /\ key' = [key EXCEPT ![k] = "Inactive"]
                               /\ listed' = [listed EXCEPT ![r] = @ \ {k}]
    BY <1>7 DEF DeactivateKey
  <2>2. ask' = ask /\ armed' = armed /\ answer' = answer /\ alerts' = alerts
        /\ at' = at /\ reopened' = reopened /\ at[r] = "suspend"
    BY <1>7 DEF DeactivateKey
  <2>3. \A j \in Keys(ask[r].who) : key'[j] = "Active" => j # k /\ key[j] = "Active"
    BY <2>1, <1>y
  <2>4. Keys(ask[r].who)' = Keys(ask[r].who)
    BY <2>2 DEF Keys
  <2>5. /\ listed'[r] \subseteq Keys(ask[r].who)
        /\ \A j \in Keys(ask[r].who) : key'[j] = "Active" => j \in listed'[r] \union reopened[r]
    BY <2>1, <2>2, <2>3
  <2>6. SuspendOf(r)'
    BY <2>2, <2>4, <2>5 DEF Suspected
  <2> QED
    BY <2>2, <2>6
<1>8. CASE AttachDenyAll(r)
  <2>1. ask' = ask /\ answer' = answer /\ alerts' = alerts /\ key' = key
        /\ reopened' = reopened /\ at[r] = "suspend" /\ at'[r] = "write"
        /\ ask[r].who \in denied' /\ listed[r] = {}
    BY <1>8 DEF AttachDenyAll
  <2>2. Contained(r)'
    BY <2>1 DEF Contained, Keys
  <2> QED
    BY <2>1, <2>2
<1>9. CASE SuspendFails(r)
  BY <1>9 DEF SuspendFails
<1>10. CASE WriteEvidence(r)
  BY <1>10 DEF WriteEvidence, Suspected, Contained
<1>11. CASE PublishAlert(r)
  BY <1>11 DEF PublishAlert, Suspected, Contained
<1>12. CASE Respond(r)
  BY <1>12 DEF Respond, Suspected, Contained
<1>13. CASE Fault(r)
  BY <1>13 DEF Fault, Reject
<1> QED
  BY <1>1, <1>2, <1>3, <1>4, <1>5, <1>6, <1>7, <1>8, <1>9, <1>10, <1>11, <1>12, <1>13 DEF Worker

LEMMA StepSafe == SafeInv /\ [Next]_vars => SafeInv'
<1> SUFFICES ASSUME SafeInv, [Next]_vars PROVE SafeInv'
  OBVIOUS
<1>1. CASE Account
  BY <1>1, AccountSafe
<1>2. ASSUME NEW r \in Run, Start(r) \/ Kill(r) \/ Worker(r) PROVE SafeInv'
  <2>1. ASSUME NEW q \in Run PROVE SuspendOf(q)' /\ VerdictOf(q)' /\ AlertOf(q)'
    BY <1>2, OthersSafe, SelfSafe
  <2> QED
    BY <1>2, <2>1, RunTypes DEF SafeInv, SuspendInv, VerdictInv, AlertInv
<1>3. CASE UNCHANGED vars
  BY <1>3 DEF vars, SafeInv, TypeOK, SuspendInv, VerdictInv, AlertInv, SuspendOf,
     VerdictOf, AlertOf, Suspected, Contained, Keys
<1> QED
  BY <1>1, <1>2, <1>3 DEF Next

LEMMA Safe == Spec => []SafeInv
<1> QED
  BY InitSafe, StepSafe, PTL DEF Spec

-----------------------------------------------------------------------------
(* The theorems.                                                           *)

\* Every reachable state of lab 14 and the account it watches is well typed.
THEOREM TypeCorrect == Spec => []TypeOK
<1>1. SafeInv => TypeOK
  BY DEF SafeInv
<1> QED
  BY <1>1, Safe, PTL

\* A PASS on a privileged suspicion means a denied principal without active
\* keys, up to what others reopened since the worker looked.
THEOREM PassContained == Spec => []PassIsContained
<1>1. SafeInv => PassIsContained
  BY DEF SafeInv, VerdictInv, VerdictOf, PassIsContained
<1> QED
  BY <1>1, Safe, PTL

\* No FAIL of lab 14 is answered before it was published.
THEOREM FailAlerted == Spec => []FailIsAlerted
<1>1. SafeInv => FailIsAlerted
  BY DEF SafeInv, AlertInv, AlertOf, FailIsAlerted
<1> QED
  BY <1>1, Safe, PTL

LEMMA StepWarranted ==
    ASSUME SafeInv, [Next]_vars, NEW p \in Principal,
           \/ p \in denied' \ denied
           \/ \E k \in Keys(p) : key[k] = "Active" /\ key'[k] = "Inactive"
    PROVE  \E r \in Run : /\ ask[r].who = p /\ Suspected(r)
                          /\ at[r] = "suspend" /\ armed[r] = "on" /\ Allowed(r)
<1> DEFINE Warrant(r) == /\ ask[r].who = p /\ Suspected(r)
                         /\ at[r] = "suspend" /\ armed[r] = "on" /\ Allowed(r)
<1>1. Keys(p) \subseteq Key /\ TypeOK
  BY DEF Keys, SafeInv
<1>2. ~Account
  BY <1>1 DEF Account, ActivateKey, DeleteKey, Release, Redeploy, iam, TypeOK
<1>3. ~UNCHANGED vars
  BY <1>1 DEF vars
<1>4. PICK r \in Run : Start(r) \/ Kill(r) \/ Worker(r)
  BY <1>2, <1>3 DEF Next
<1>5. DeactivateKey(r) \/ AttachDenyAll(r) \/ (SuspendFails(r) /\ ~UNCHANGED <<key, denied>>)
  BY <1>1, <1>4 DEF Start, Kill, Worker, Refuse, Decide, BeginSuspend, ListKeys,
     WriteEvidence, PublishAlert, Respond, Fault, iam
<1>6. at[r] = "suspend" /\ Allowed(r)
  BY <1>5 DEF DeactivateKey, AttachDenyAll, SuspendFails
<1>7. Suspected(r) /\ armed[r] = "on"
  BY <1>6 DEF SafeInv, SuspendInv, SuspendOf
<1>8. \/ denied' = denied \union {ask[r].who} /\ key' = key
      \/ denied' = denied /\ \E k \in listed[r] : key' = [key EXCEPT ![k] = "Inactive"]
  BY <1>5 DEF DeactivateKey, AttachDenyAll, SuspendFails
<1>9. \A k \in listed[r] : k \in Key /\ Owner[k] = ask[r].who
  BY <1>6 DEF SafeInv, SuspendInv, SuspendOf, Keys
<1>10. ask[r].who = p
  BY <1>1, <1>8, <1>9 DEF Keys, TypeOK
<1> QED
  BY <1>6, <1>7, <1>10

\* IAM is changed only for the subject of a privileged suspicion, by a run
\* that started armed, within /lab/, while the policy grants it.
THEOREM Warranted == Spec => SuspensionIsWarranted
<1>1. SafeInv /\ [Next]_vars =>
        [\A p \in Principal :
           (p \in denied' \ denied \/ \E k \in Keys(p) : key[k] = "Active" /\ key'[k] = "Inactive")
           => \E r \in Run : /\ ask[r].who = p /\ Suspected(r)
                             /\ at[r] = "suspend" /\ armed[r] = "on" /\ Allowed(r)]_vars
  BY StepWarranted
<1> QED
  BY <1>1, Safe, PTL DEF Spec, SuspensionIsWarranted
=============================================================================
