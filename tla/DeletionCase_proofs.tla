------------------------ MODULE DeletionCase_proofs ------------------------
(***************************************************************************)
(* The safety of a deletion case for any number of executions, retries,    *)
(* stores, vaults and items.                                               *)
(***************************************************************************)
EXTENDS DeletionCase, TLAPS

LEMMA RunDomain ==
    ASSUME NEW e \in Exec, NEW k \in 1..MaxTries
    PROVE  /\ <<e, k>> \in Run /\ <<e, k>>[1] = e /\ <<e, k>>[2] = k
           /\ <<e, k>> \in CaseId
BY DEF Run, CaseId

LEMMA RunParts ==
    ASSUME NEW r \in Run
    PROVE  /\ r[1] \in Exec /\ r[2] \in 1..MaxTries /\ r[2] \in Nat /\ r \in CaseId
           /\ r = <<r[1], r[2]>>
<1>1. PICK e \in Exec, k \in 1..MaxTries : r = <<e, k>>
  BY DEF Run
<1> QED
  BY <1>1, ExecAssumption DEF Run, CaseId

LEMMA ScopeTypes ==
    ASSUME TypeOK, NEW e \in Exec
    PROVE  /\ request[e] \in Request /\ policy \in Policy
           /\ Catalog(request[e]) \subseteq Store
           /\ LiveStores(request[e]) \subseteq Store
           /\ ScanTargets(request[e]) \subseteq Store
           /\ MappedVaults(request[e]) \subseteq Vault
<1>1. request[e] \in Request /\ policy \in Policy
  BY InputAssumption DEF TypeOK
<1>2. Catalog(request[e]) \subseteq Store
  BY <1>1, StoreAssumption DEF Catalog, Request
<1>3. MappedVaults(request[e]) \subseteq Vault
  BY <1>2, VaultAssumption DEF MappedVaults
<1> QED
  BY <1>1, <1>2, <1>3 DEF LiveStores, ScanTargets

LEMMA CaseType ==
    ASSUME TypeOK, NEW r \in Run
    PROVE  CaseOf(r) \in CaseId
<1>1. r[1] \in Exec
  BY RunParts
<1>2. request[r[1]] \in Request
  BY <1>1, ScopeTypes
<1> QED
  BY <1>2 DEF CaseOf, CaseNamed, Request, CaseId

-----------------------------------------------------------------------------
(* Type correctness.                                                       *)

LEMMA TypeInit == Init => TypeOK
<1> SUFFICES ASSUME Init PROVE TypeOK
  OBVIOUS
<1>1. Run # {}
  <2>1. PICK e \in Exec : TRUE
    BY ExecAssumption
  <2>2. 1 \in 1..MaxTries
    BY ExecAssumption
  <2> QED
    BY <2>1, <2>2, RunDomain
<1>2. run \in Run
  BY <1>1 DEF Init
<1>3. /\ born \subseteq Item /\ present \subseteq born /\ expiring \subseteq born
      /\ began \subseteq born /\ batch \subseteq born /\ todo \subseteq Store \union Vault
  BY DEF Init
<1>4. policy \in Policies /\ request \in [Exec -> Requests]
  BY DEF Init
<1>5. sfn \in [Exec -> ExecStates] /\ tries \in [Exec -> 0..MaxTries]
  BY ExecAssumption DEF Init, ExecStates
<1>6. /\ pc \in WorkerStates /\ reply \in Reply
      /\ purgeFailed \in BOOLEAN /\ hits \in BOOLEAN
      /\ pc \notin {"record", "emit", "alert"}
  BY DEF Init, WorkerStates, Reply
<1>7. /\ proved \in [Run -> SUBSET Item] /\ evidence \in [Run -> Verdict \union {"none"}]
      /\ row \in [CaseId -> Verdict \union {"none"}]
      /\ findings \subseteq CaseId /\ alerts \subseteq Run
  BY DEF Init
<1> QED
  BY <1>2, <1>3, <1>4, <1>5, <1>6, <1>7 DEF TypeOK

LEMMA TypeStep == TypeOK /\ [Next]_vars => TypeOK'
<1> SUFFICES ASSUME TypeOK, [Next]_vars PROVE TypeOK'
  OBVIOUS
<1> USE ExecAssumption DEF TypeOK, ExecStates, WorkerStates, Reply, Verdict,
        tenantVars, inputVars, sfnVars, localVars, workVars, outVars
<1>1. ASSUME NEW s \in todo, PurgeSkip(s) PROVE TypeOK'
  BY <1>1 DEF PurgeSkip
<1>2. ASSUME NEW s \in todo, PurgeList(s) PROVE TypeOK'
  BY <1>2 DEF PurgeList, ItemsAt
<1>3. CASE PurgeDelete
  BY <1>3 DEF PurgeDelete
<1>4. CASE BeginBackups
  <2>1. MappedVaults(request[run[1]]) \subseteq Vault
    BY RunParts, ScopeTypes
  <2> QED
    BY <1>4, <2>1 DEF BeginBackups
<1>5. ASSUME NEW s \in todo, VaultList(s) PROVE TypeOK'
  BY <1>5 DEF VaultList, ItemsAt
<1>6. ASSUME NEW i \in batch, ExpirePoint(i) PROVE TypeOK'
  BY <1>6 DEF ExpirePoint
<1>7. CASE VaultDone
  BY <1>7 DEF VaultDone
<1>8. CASE BackupsDone
  BY <1>8 DEF BackupsDone
<1>9. CASE BeginScan
  <2>1. run[1] \in Exec
    BY RunParts
  <2>2. ScanTargets(request[run[1]]) \subseteq Store /\ request[run[1]].simHits \in BOOLEAN
    BY <2>1, ScopeTypes DEF Request
  <2> QED
    BY <1>9, <2>2 DEF BeginScan
<1>10. ASSUME NEW s \in todo, ScanStore(s) PROVE TypeOK'
  BY <1>10 DEF ScanStore
<1>11. CASE ScanDone
  BY <1>11 DEF ScanDone
<1>12. CASE WriteEvidence
  BY <1>12 DEF WriteEvidence, CaseVerdict
<1>13. CASE RecordCase
  <2>1. CaseOf(run) \in CaseId
    BY CaseType
  <2> QED
    BY <1>13, <2>1 DEF RecordCase
<1>14. CASE EmitFinding
  <2>1. CaseOf(run) \in CaseId
    BY CaseType
  <2> QED
    BY <1>14, <2>1 DEF EmitFinding
<1>15. CASE PublishAlert
  BY <1>15 DEF PublishAlert
<1>16. CASE Respond
  BY <1>16 DEF Respond, FrameGone
<1>17. CASE Fault
  <2>1. CaseOf(run) \in CaseId
    BY CaseType
  <2> QED
    BY <1>17, <2>1 DEF Fault
<1>18. CASE Kill
  BY <1>18 DEF Kill, FrameGone
<1>19. ASSUME NEW e \in Exec, Invoke(e) PROVE TypeOK'
  <2>1. tries[e] + 1 \in 1..MaxTries
    BY <1>19 DEF Invoke
  <2>2. RunId(e) \in Run
    BY <2>1, RunDomain DEF RunId
  <2>3. LiveStores(request[e]) \subseteq Store
    BY ScopeTypes
  <2>4. sfn' \in [Exec -> ExecStates] /\ tries' \in [Exec -> 0..MaxTries]
    BY <1>19, <2>1 DEF Invoke
  <2>5. /\ pc' \in {"purge", "respond"} /\ reply' \in {"none", "ERROR", "CONFIG_ERROR"}
        /\ todo' \subseteq Store /\ batch' = {} /\ began' = born
        /\ purgeFailed' = FALSE /\ hits' = FALSE /\ run' \in Run
    BY <1>19, <2>2, <2>3 DEF Invoke
  <2>6. UNCHANGED <<tenantVars, inputVars, outVars>>
    BY <1>19 DEF Invoke
  <2> QED
    BY <2>4, <2>5, <2>6
<1>20. ASSUME NEW e \in Exec, Throttle(e) PROVE TypeOK'
  BY <1>20 DEF Throttle, RetryOrGiveUp
<1>21. ASSUME NEW e \in Exec, LoseAnswer(e) PROVE TypeOK'
  BY <1>21 DEF LoseAnswer, RetryOrGiveUp
<1>22. ASSUME NEW e \in Exec, Notify(e) PROVE TypeOK'
  BY <1>22 DEF Notify
<1>23. ASSUME NEW i \in Item, TenantWrite(i) PROVE TypeOK'
  BY <1>23 DEF TenantWrite
<1>24. ASSUME NEW i \in Item, Reap(i) PROVE TypeOK'
  BY <1>24 DEF Reap
<1>25. CASE UNCHANGED vars
  BY <1>25 DEF vars
<1>26. QED
  BY <1>1, <1>2, <1>3, <1>4, <1>5, <1>6, <1>7, <1>8, <1>9, <1>10, <1>11, <1>12, <1>13, <1>14, <1>15, <1>16, <1>17, <1>18, <1>19, <1>20, <1>21, <1>22, <1>23, <1>24, <1>25 DEF Next, WorkerStep, Orchestrate

\* Every reachable state is well typed, whatever the sizes of the instance.
THEOREM TypeCorrect == Spec => []TypeOK
<1> QED
  BY TypeInit, TypeStep, PTL DEF Spec

-----------------------------------------------------------------------------
(* Frame: the worker serves one invocation, and an execution that waits    *)
(* for an answer waits for the one of its latest attempt.                  *)

FrameInv ==
    /\ \A e \in Exec : sfn[e] = "running" => pc # "idle" /\ run = <<e, tries[e]>>
    /\ pc # "idle" => run[2] <= tries[run[1]]
    /\ pc \notin {"idle", "respond"} => request[run[1]].kind # "invalid"

LEMMA FrameStep == TypeOK /\ FrameInv /\ [Next]_vars => FrameInv'
<1> SUFFICES ASSUME TypeOK, FrameInv, [Next]_vars PROVE FrameInv'
  OBVIOUS
<1> DEFINE Same == UNCHANGED <<request, sfn, tries, run>>
<1>0. ASSUME Same, pc # "idle", pc' # "idle", pc' # "respond" => pc # "respond" PROVE FrameInv'
  BY <1>0 DEF FrameInv
<1> USE DEF tenantVars, inputVars, sfnVars, localVars, workVars, outVars
<1>1. ASSUME NEW s \in todo, PurgeSkip(s) PROVE FrameInv'
  BY <1>0, <1>1 DEF PurgeSkip
<1>2. ASSUME NEW s \in todo, PurgeList(s) PROVE FrameInv'
  BY <1>0, <1>2 DEF PurgeList
<1>3. CASE PurgeDelete
  BY <1>0, <1>3 DEF PurgeDelete
<1>4. CASE BeginBackups
  BY <1>0, <1>4 DEF BeginBackups
<1>5. ASSUME NEW s \in todo, VaultList(s) PROVE FrameInv'
  BY <1>0, <1>5 DEF VaultList
<1>6. ASSUME NEW i \in batch, ExpirePoint(i) PROVE FrameInv'
  BY <1>0, <1>6 DEF ExpirePoint
<1>7. CASE VaultDone
  BY <1>0, <1>7 DEF VaultDone
<1>8. CASE BackupsDone
  BY <1>0, <1>8 DEF BackupsDone
<1>9. CASE BeginScan
  BY <1>0, <1>9 DEF BeginScan
<1>10. ASSUME NEW s \in todo, ScanStore(s) PROVE FrameInv'
  BY <1>0, <1>10 DEF ScanStore
<1>11. CASE ScanDone
  BY <1>0, <1>11 DEF ScanDone
<1>12. CASE WriteEvidence
  BY <1>0, <1>12 DEF WriteEvidence
<1>13. CASE RecordCase
  BY <1>0, <1>13 DEF RecordCase
<1>14. CASE EmitFinding
  BY <1>0, <1>14 DEF EmitFinding
<1>15. CASE PublishAlert
  BY <1>0, <1>15 DEF PublishAlert
<1>16. CASE Respond
  <2>1. run[1] \in Exec
    BY RunParts DEF TypeOK
  <2>2. sfn'[run[1]] # "running" /\ pc' = "idle" /\ \A e \in Exec : e # run[1] => sfn'[e] = sfn[e]
    BY <1>16, <2>1 DEF Respond, FrameGone, TypeOK
  <2>3. \A e \in Exec : sfn[e] = "running" => e = run[1]
    BY DEF FrameInv
  <2> QED
    BY <2>2, <2>3 DEF FrameInv
<1>17. CASE Fault
  BY <1>0, <1>17 DEF Fault
<1>18. CASE Kill
  <2>1. run[1] \in Exec
    BY RunParts DEF TypeOK
  <2>2. sfn'[run[1]] # "running" /\ pc' = "idle" /\ \A e \in Exec : e # run[1] => sfn'[e] = sfn[e]
    BY <1>18, <2>1 DEF Kill, FrameGone, TypeOK
  <2>3. \A e \in Exec : sfn[e] = "running" => e = run[1]
    BY DEF FrameInv
  <2> QED
    BY <2>2, <2>3 DEF FrameInv
<1>19. ASSUME NEW e \in Exec, Invoke(e) PROVE FrameInv'
  <2>1. /\ run' = <<e, tries'[e]>> /\ sfn'[e] = "running" /\ pc' # "idle"
        /\ run'[1] = e /\ run'[2] = tries'[e] /\ tries'[e] \in Nat
    BY <1>19, ExecAssumption DEF Invoke, RunId, TypeOK
  <2>2. ASSUME NEW x \in Exec, x # e PROVE sfn'[x] # "running"
    BY <1>19, <2>2 DEF Invoke, FrameInv, TypeOK
  <2>3. pc' \notin {"idle", "respond"} => request'[e].kind # "invalid"
    BY <1>19 DEF Invoke
  <2> QED
    BY <2>1, <2>2, <2>3 DEF FrameInv
<1>20. ASSUME NEW e \in Exec, Throttle(e) PROVE FrameInv'
  <2>1. /\ sfn'[e] # "running" /\ tries'[e] = tries[e] + 1 /\ pc' = pc /\ run' = run
        /\ \A x \in Exec : x # e => sfn'[x] = sfn[x] /\ tries'[x] = tries[x]
        /\ request' = request /\ tries \in [Exec -> Nat]
    BY <1>20, ExecAssumption DEF Throttle, RetryOrGiveUp, TypeOK
  <2>2. run[1] \in Exec /\ run[2] \in Nat
    BY RunParts DEF TypeOK
  <2>3. tries[run[1]] \in Nat /\ tries'[run[1]] \in {tries[run[1]], tries[run[1]] + 1}
    BY <2>1, <2>2
  <2>4. pc # "idle" => run[2] <= tries'[run[1]]
    BY <2>2, <2>3 DEF FrameInv
  <2> QED
    BY <2>1, <2>4 DEF FrameInv
<1>21. ASSUME NEW e \in Exec, LoseAnswer(e) PROVE FrameInv'
  <2>1. /\ sfn'[e] # "running" /\ \A x \in Exec : x # e => sfn'[x] = sfn[x]
        /\ UNCHANGED <<request, tries, run, pc>>
    BY <1>21 DEF LoseAnswer, RetryOrGiveUp, TypeOK
  <2> QED
    BY <2>1 DEF FrameInv
<1>22. ASSUME NEW e \in Exec, Notify(e) PROVE FrameInv'
  <2>1. /\ sfn'[e] # "running" /\ \A x \in Exec : x # e => sfn'[x] = sfn[x]
        /\ UNCHANGED <<request, tries, run, pc>>
    BY <1>22 DEF Notify, RetryOrGiveUp, TypeOK
  <2> QED
    BY <2>1 DEF FrameInv
<1>23. ASSUME NEW i \in Item, TenantWrite(i) PROVE FrameInv'
  BY <1>23 DEF TenantWrite, FrameInv
<1>24. ASSUME NEW i \in Item, Reap(i) PROVE FrameInv'
  BY <1>24 DEF Reap, FrameInv
<1>25. CASE UNCHANGED vars
  BY <1>25 DEF vars, FrameInv
<1>26. QED
  BY <1>1, <1>2, <1>3, <1>4, <1>5, <1>6, <1>7, <1>8, <1>9, <1>10, <1>11, <1>12, <1>13, <1>14, <1>15, <1>16, <1>17, <1>18, <1>19, <1>20, <1>21, <1>22, <1>23, <1>24, <1>25 DEF Next, WorkerStep, Orchestrate

-----------------------------------------------------------------------------
(* Order: evidence before the row, the row before the finding, the finding *)
(* before the alert, the alert before the answer.                          *)

Unproved == {"purge", "delete", "vaults", "expire", "begin_scan", "scan", "write"}
Proved == {"record", "emit", "alert", "respond"}

EvidenceInv ==
    /\ \A r \in Run : evidence[r] # "none" => r[2] <= tries[r[1]]
    /\ pc \in Unproved => evidence[run] = "none"
    /\ pc \in Proved /\ reply \in Verdict => evidence[run] = reply
    /\ pc \in {"emit", "alert"} => reply = "FAIL"

LEMMA EvidenceStep == TypeOK /\ FrameInv /\ EvidenceInv /\ [Next]_vars => EvidenceInv'
<1> SUFFICES ASSUME TypeOK, FrameInv, EvidenceInv, [Next]_vars PROVE EvidenceInv'
  OBVIOUS
<1> USE DEF tenantVars, inputVars, sfnVars, localVars, workVars, outVars, Unproved, Proved
<1>0. ASSUME UNCHANGED <<evidence, run, tries, reply>>,
             pc' \in Unproved => pc \in Unproved, pc' \in Proved => pc \in Proved,
             pc' \in {"emit", "alert"} => pc \in {"emit", "alert"}
      PROVE  EvidenceInv'
  BY <1>0 DEF EvidenceInv
<1>1. ASSUME NEW s \in todo, PurgeSkip(s) PROVE EvidenceInv'
  BY <1>0, <1>1 DEF PurgeSkip
<1>2. ASSUME NEW s \in todo, PurgeList(s) PROVE EvidenceInv'
  BY <1>0, <1>2 DEF PurgeList
<1>3. CASE PurgeDelete
  BY <1>0, <1>3 DEF PurgeDelete
<1>4. CASE BeginBackups
  BY <1>0, <1>4 DEF BeginBackups
<1>5. ASSUME NEW s \in todo, VaultList(s) PROVE EvidenceInv'
  BY <1>0, <1>5 DEF VaultList
<1>6. ASSUME NEW i \in batch, ExpirePoint(i) PROVE EvidenceInv'
  BY <1>6 DEF ExpirePoint, EvidenceInv, Verdict
<1>7. CASE VaultDone
  BY <1>0, <1>7 DEF VaultDone
<1>8. CASE BackupsDone
  BY <1>0, <1>8 DEF BackupsDone
<1>9. CASE BeginScan
  BY <1>0, <1>9 DEF BeginScan
<1>10. ASSUME NEW s \in todo, ScanStore(s) PROVE EvidenceInv'
  BY <1>0, <1>10 DEF ScanStore
<1>11. CASE ScanDone
  BY <1>0, <1>11 DEF ScanDone
<1>12. CASE WriteEvidence
  <2>1. /\ evidence' = [evidence EXCEPT ![run] = CaseVerdict] /\ reply' = CaseVerdict
        /\ pc' = "record" /\ UNCHANGED <<run, tries>>
    BY <1>12 DEF WriteEvidence
  <2>2. evidence'[run] = CaseVerdict /\ \A r \in Run : r # run => evidence'[r] = evidence[r]
    BY <2>1 DEF TypeOK
  <2>3. run[2] <= tries[run[1]]
    BY <1>12 DEF WriteEvidence, FrameInv
  <2> QED
    BY <2>1, <2>2, <2>3 DEF EvidenceInv
<1>13. CASE RecordCase
  BY <1>13 DEF RecordCase, EvidenceInv, Verdict, TypeOK
<1>14. CASE EmitFinding
  BY <1>0, <1>14 DEF EmitFinding
<1>15. CASE PublishAlert
  BY <1>0, <1>15 DEF PublishAlert
<1>16. CASE Respond
  BY <1>16 DEF Respond, FrameGone, EvidenceInv
<1>17. CASE Fault
  BY <1>17 DEF Fault, EvidenceInv, Verdict
<1>18. CASE Kill
  BY <1>18 DEF Kill, FrameGone, EvidenceInv
<1>19. ASSUME NEW e \in Exec, Invoke(e) PROVE EvidenceInv'
  <2>1. /\ run' = <<e, tries[e] + 1>> /\ evidence' = evidence
        /\ reply' \notin Verdict /\ pc' \in {"purge", "respond"}
    BY <1>19 DEF Invoke, RunId, Verdict
  <2>2. tries[e] \in Nat /\ tries[e] + 1 \in 1..MaxTries
    BY <1>19, ExecAssumption DEF Invoke, TypeOK
  <2>3. run' \in Run /\ run'[1] = e /\ run'[2] = tries[e] + 1
    BY <2>1, <2>2, RunDomain
  <2>4. evidence[run'] = "none"
    <3>1. evidence[run'] # "none" => run'[2] <= tries[run'[1]]
      BY <2>3 DEF EvidenceInv
    <3> QED
      BY <2>2, <2>3, <3>1
  <2>5. ASSUME NEW r \in Run, evidence'[r] # "none" PROVE r[2] <= tries'[r[1]]
    <3>1. r[1] \in Exec /\ r[2] \in Nat /\ r[2] <= tries[r[1]]
      BY <2>1, <2>5, RunParts DEF EvidenceInv
    <3>2. tries'[r[1]] \in {tries[r[1]], tries[r[1]] + 1} /\ tries[r[1]] \in Nat
      BY <1>19, <3>1, ExecAssumption DEF Invoke, TypeOK
    <3> QED
      BY <3>1, <3>2
  <2> QED
    BY <2>1, <2>4, <2>5 DEF EvidenceInv
<1>20. ASSUME NEW e \in Exec, Throttle(e) PROVE EvidenceInv'
  <2>1. UNCHANGED <<evidence, run, reply, pc>>
    BY <1>20 DEF Throttle
  <2>2. ASSUME NEW r \in Run, evidence'[r] # "none" PROVE r[2] <= tries'[r[1]]
    <3>1. r[1] \in Exec /\ r[2] \in Nat /\ r[2] <= tries[r[1]]
      BY <2>1, <2>2, RunParts DEF EvidenceInv
    <3>2. tries'[r[1]] \in {tries[r[1]], tries[r[1]] + 1} /\ tries[r[1]] \in Nat
      BY <1>20, <3>1, ExecAssumption DEF Throttle, TypeOK
    <3> QED
      BY <3>1, <3>2
  <2> QED
    BY <2>1, <2>2 DEF EvidenceInv
<1>21. ASSUME NEW e \in Exec, LoseAnswer(e) PROVE EvidenceInv'
  BY <1>0, <1>21 DEF LoseAnswer
<1>22. ASSUME NEW e \in Exec, Notify(e) PROVE EvidenceInv'
  BY <1>0, <1>22 DEF Notify
<1>23. ASSUME NEW i \in Item, TenantWrite(i) PROVE EvidenceInv'
  BY <1>0, <1>23 DEF TenantWrite
<1>24. ASSUME NEW i \in Item, Reap(i) PROVE EvidenceInv'
  BY <1>0, <1>24 DEF Reap
<1>25. CASE UNCHANGED vars
  BY <1>0, <1>25 DEF vars
<1>26. QED
  BY <1>1, <1>2, <1>3, <1>4, <1>5, <1>6, <1>7, <1>8, <1>9, <1>10, <1>11, <1>12, <1>13, <1>14, <1>15, <1>16, <1>17, <1>18, <1>19, <1>20, <1>21, <1>22, <1>23, <1>24, <1>25 DEF Next, WorkerStep, Orchestrate

RecordInv ==
    /\ pc \in {"emit", "alert", "respond"} /\ reply \in Verdict /\ policy.table
           => row[CaseOf(run)] # "none"
    /\ EscalationIsBacked

LEMMA RecordStep == TypeOK /\ EvidenceInv /\ RecordInv /\ [Next]_vars => RecordInv'
<1> SUFFICES ASSUME TypeOK, EvidenceInv, RecordInv, [Next]_vars PROVE RecordInv'
  OBVIOUS
<1> USE DEF tenantVars, inputVars, sfnVars, localVars, workVars, outVars
<1> USE DEF RecordInv
<1>a. (UNCHANGED request) => \A r : CaseOf(r)' = CaseOf(r)
  BY DEF CaseOf, CaseNamed
<1>b. (UNCHANGED <<request, run>>) => CaseOf(run)' = CaseOf(run)
  BY DEF CaseOf, CaseNamed
<1>c. ASSUME UNCHANGED <<request, findings, alerts>>,
             \A r \in Run : evidence[r] = "FAIL" => evidence'[r] = "FAIL",
             ~(pc' = "respond" /\ reply' = "FAIL")
      PROVE  EscalationIsBacked'
  BY <1>a, <1>c DEF EscalationIsBacked, TypeOK
<1>0. ASSUME UNCHANGED <<request, run, policy, row, findings, alerts, evidence, reply>>,
             pc' \in {"emit", "alert", "respond"} => pc' = pc
      PROVE  RecordInv'
  BY <1>0, <1>a, <1>b DEF EscalationIsBacked
<1>1. ASSUME NEW s \in todo, PurgeSkip(s) PROVE RecordInv'
  BY <1>0, <1>1 DEF PurgeSkip
<1>2. ASSUME NEW s \in todo, PurgeList(s) PROVE RecordInv'
  BY <1>0, <1>2 DEF PurgeList
<1>3. CASE PurgeDelete
  BY <1>0, <1>3 DEF PurgeDelete
<1>4. CASE BeginBackups
  BY <1>0, <1>4 DEF BeginBackups
<1>5. ASSUME NEW s \in todo, VaultList(s) PROVE RecordInv'
  BY <1>0, <1>5 DEF VaultList
<1>6. ASSUME NEW i \in batch, ExpirePoint(i) PROVE RecordInv'
  BY <1>0, <1>6, <1>c DEF ExpirePoint, Verdict
<1>7. CASE VaultDone
  BY <1>0, <1>7 DEF VaultDone
<1>8. CASE BackupsDone
  BY <1>0, <1>8 DEF BackupsDone
<1>9. CASE BeginScan
  BY <1>0, <1>9 DEF BeginScan
<1>10. ASSUME NEW s \in todo, ScanStore(s) PROVE RecordInv'
  BY <1>0, <1>10 DEF ScanStore
<1>11. CASE ScanDone
  BY <1>0, <1>11 DEF ScanDone
<1>12. CASE WriteEvidence
  <2>1. run \in Run /\ evidence[run] = "none" /\ \A r \in Run : r # run => evidence'[r] = evidence[r]
    BY <1>12 DEF WriteEvidence, EvidenceInv, Unproved, TypeOK
  <2>2. EscalationIsBacked'
    BY <1>12, <1>c, <2>1 DEF WriteEvidence
  <2> QED
    BY <1>12, <2>2 DEF WriteEvidence
<1>13. CASE RecordCase
  <2>1. CaseOf(run) \in CaseId /\ CaseOf(run)' = CaseOf(run)
    BY <1>13, <1>b, CaseType DEF RecordCase, TypeOK
  <2>2. reply \in Verdict /\ reply # "none"
    BY <1>13 DEF RecordCase, TypeOK, Verdict
  <2>3. policy.table => row'[CaseOf(run)] = reply
    BY <1>13, <2>1 DEF RecordCase, TypeOK
  <2>4. /\ UNCHANGED <<policy, reply, run>> /\ pc' \in {"respond", "emit"}
        /\ pc' = "respond" => reply = "PASS"
    BY <1>13 DEF RecordCase
  <2>5. EscalationIsBacked'
    BY <1>13, <1>c, <2>4 DEF RecordCase
  <2> QED
    BY <2>1, <2>2, <2>3, <2>4, <2>5
<1>14. CASE EmitFinding
  <2>1. run \in Run /\ evidence[run] = "FAIL"
    BY <1>14 DEF EmitFinding, EvidenceInv, Proved, Verdict, TypeOK
  <2>2. /\ UNCHANGED <<request, run, evidence, alerts, policy, row, reply>> /\ pc' = "alert"
        /\ findings' \subseteq findings \union {CaseOf(run)}
    BY <1>14 DEF EmitFinding
  <2>3. EscalationIsBacked'
    BY <1>a, <2>1, <2>2 DEF EscalationIsBacked
  <2> QED
    BY <1>14, <1>b, <2>2, <2>3 DEF EmitFinding
<1>15. CASE PublishAlert
  <2>1. evidence[run] = "FAIL"
    BY <1>15 DEF PublishAlert, EvidenceInv, Proved, Verdict
  <2>2. UNCHANGED <<request, run, evidence, findings, policy, row, reply>> /\ alerts' = alerts \union {run}
    BY <1>15 DEF PublishAlert
  <2>3. EscalationIsBacked'
    BY <1>a, <2>1, <2>2 DEF EscalationIsBacked
  <2> QED
    BY <1>15, <1>b, <2>2, <2>3 DEF PublishAlert
<1>16. CASE Respond
  BY <1>16, <1>c DEF Respond, FrameGone
<1>17. CASE Fault
  <2>1. pc = "alert" => evidence[run] = "FAIL"
    BY DEF EvidenceInv, Proved, Verdict
  <2>2. /\ UNCHANGED <<request, evidence, findings>> /\ pc' = "respond" /\ reply' = "ERROR"
        /\ alerts' = alerts \/ (pc = "alert" /\ alerts' = alerts \union {run})
    BY <1>17 DEF Fault
  <2>3. EscalationIsBacked'
    BY <1>a, <2>1, <2>2 DEF EscalationIsBacked
  <2> QED
    BY <2>2, <2>3 DEF Verdict
<1>18. CASE Kill
  BY <1>18, <1>c DEF Kill, FrameGone
<1>19. ASSUME NEW e \in Exec, Invoke(e) PROVE RecordInv'
  BY <1>19, <1>c DEF Invoke, Verdict
<1>20. ASSUME NEW e \in Exec, Throttle(e) PROVE RecordInv'
  BY <1>0, <1>20 DEF Throttle
<1>21. ASSUME NEW e \in Exec, LoseAnswer(e) PROVE RecordInv'
  BY <1>0, <1>21 DEF LoseAnswer
<1>22. ASSUME NEW e \in Exec, Notify(e) PROVE RecordInv'
  BY <1>0, <1>22 DEF Notify
<1>23. ASSUME NEW i \in Item, TenantWrite(i) PROVE RecordInv'
  BY <1>0, <1>23 DEF TenantWrite
<1>24. ASSUME NEW i \in Item, Reap(i) PROVE RecordInv'
  BY <1>0, <1>24 DEF Reap
<1>25. CASE UNCHANGED vars
  BY <1>0, <1>25 DEF vars
<1>26. QED
  BY <1>1, <1>2, <1>3, <1>4, <1>5, <1>6, <1>7, <1>8, <1>9, <1>10, <1>11, <1>12, <1>13, <1>14, <1>15, <1>16, <1>17, <1>18, <1>19, <1>20, <1>21, <1>22, <1>23, <1>24, <1>25 DEF Next, WorkerStep, Orchestrate

LEMMA SuccessStep ==
    TypeOK /\ FrameInv /\ EvidenceInv /\ RecordInv /\ SuccessIsProved /\ [Next]_vars
        => SuccessIsProved'
<1> SUFFICES ASSUME TypeOK, FrameInv, EvidenceInv, RecordInv, SuccessIsProved, [Next]_vars
             PROVE  SuccessIsProved'
  OBVIOUS
<1> DEFINE Won(e) == sfn[e] \in {"notify_complete", "succeeded"}
<1>a. (UNCHANGED request) => \A r : CaseOf(r)' = CaseOf(r)
  BY DEF CaseOf, CaseNamed
<1>b. ASSUME UNCHANGED <<request, policy, tries>>,
             \A e \in Exec : Won(e)' => Won(e),
             \A r \in Run : evidence[r] = "PASS" => evidence'[r] = "PASS",
             \A c \in CaseId : row[c] # "none" => row'[c] # "none"
      PROVE  SuccessIsProved'
  <2>1. \A e \in Exec : <<e, tries[e]>> \in Run => CaseOf(<<e, tries[e]>>) \in CaseId
    BY CaseType
  <2> QED
    BY <1>a, <1>b, <2>1 DEF SuccessIsProved
<1>0. ASSUME UNCHANGED <<request, policy, tries, sfn, evidence, row>> PROVE SuccessIsProved'
  BY <1>0, <1>a DEF SuccessIsProved
<1> USE DEF tenantVars, inputVars, sfnVars, localVars, workVars, outVars
<1>1. ASSUME NEW s \in todo, PurgeSkip(s) PROVE SuccessIsProved'
  BY <1>0, <1>1 DEF PurgeSkip
<1>2. ASSUME NEW s \in todo, PurgeList(s) PROVE SuccessIsProved'
  BY <1>0, <1>2 DEF PurgeList
<1>3. CASE PurgeDelete
  BY <1>0, <1>3 DEF PurgeDelete
<1>4. CASE BeginBackups
  BY <1>0, <1>4 DEF BeginBackups
<1>5. ASSUME NEW s \in todo, VaultList(s) PROVE SuccessIsProved'
  BY <1>0, <1>5 DEF VaultList
<1>6. ASSUME NEW i \in batch, ExpirePoint(i) PROVE SuccessIsProved'
  BY <1>0, <1>6 DEF ExpirePoint
<1>7. CASE VaultDone
  BY <1>0, <1>7 DEF VaultDone
<1>8. CASE BackupsDone
  BY <1>0, <1>8 DEF BackupsDone
<1>9. CASE BeginScan
  BY <1>0, <1>9 DEF BeginScan
<1>10. ASSUME NEW s \in todo, ScanStore(s) PROVE SuccessIsProved'
  BY <1>0, <1>10 DEF ScanStore
<1>11. CASE ScanDone
  BY <1>0, <1>11 DEF ScanDone
<1>12. CASE WriteEvidence
  <2>1. run \in Run /\ evidence[run] = "none" /\ \A r \in Run : r # run => evidence'[r] = evidence[r]
    BY <1>12 DEF WriteEvidence, EvidenceInv, Unproved, TypeOK
  <2>2. \A r \in Run : evidence[r] = "PASS" => evidence'[r] = "PASS"
    BY <2>1
  <2> QED
    BY <1>b, <1>12, <2>2 DEF WriteEvidence
<1>13. CASE RecordCase
  <2>1. reply # "none"
    BY <1>13 DEF RecordCase, TypeOK, Verdict
  <2>2. \A c \in CaseId : row[c] # "none" => row'[c] # "none"
    BY <1>13, <2>1 DEF RecordCase, TypeOK
  <2> QED
    BY <1>b, <1>13, <2>2 DEF RecordCase
<1>14. CASE EmitFinding
  BY <1>0, <1>14 DEF EmitFinding
<1>15. CASE PublishAlert
  BY <1>0, <1>15 DEF PublishAlert
<1>16. CASE Respond
  <2>1. run[1] \in Exec /\ run = <<run[1], run[2]>> /\ run \in Run
    BY RunParts DEF TypeOK
  <2>2. UNCHANGED <<request, policy, tries, evidence, row>>
    BY <1>16 DEF Respond
  <2>3. ASSUME NEW e \in Exec, Won(e)', ~Won(e)
        PROVE  e = run[1] /\ sfn[e] = "running" /\ reply = "PASS" /\ pc = "respond"
    BY <1>16, <2>1, <2>3 DEF Respond, TypeOK
  <2>4. ASSUME NEW e \in Exec, Won(e)', ~Won(e)
        PROVE  /\ <<e, tries[e]>> = run /\ evidence[run] = "PASS"
               /\ policy.table => row[CaseOf(run)] # "none"
    <3>1. sfn[e] = "running" /\ reply = "PASS" /\ pc = "respond"
      BY <2>3, <2>4
    <3>2. <<e, tries[e]>> = run
      BY <3>1 DEF FrameInv
    <3>3. evidence[run] = "PASS"
      BY <3>1 DEF EvidenceInv, Proved, Verdict
    <3>4. policy.table => row[CaseOf(run)] # "none"
      BY <3>1 DEF RecordInv, Verdict
    <3> QED
      BY <3>2, <3>3, <3>4
  <2> QED
    BY <1>a, <2>1, <2>2, <2>4 DEF SuccessIsProved
<1>17. CASE Fault
  <2>1. \A c \in CaseId : row[c] # "none" => row'[c] # "none"
    BY <1>17 DEF Fault, TypeOK, Verdict
  <2> QED
    BY <1>b, <1>17, <2>1 DEF Fault
<1>18. CASE Kill
  <2>1. \A e \in Exec : Won(e)' => Won(e)
    BY <1>18, RunParts DEF Kill, TypeOK
  <2> QED
    BY <1>b, <1>18, <2>1 DEF Kill
<1>19. ASSUME NEW e \in Exec, Invoke(e) PROVE SuccessIsProved'
  <2>1. \A x \in Exec : Won(x)' => x # e /\ Won(x) /\ tries'[x] = tries[x]
    BY <1>19 DEF Invoke, TypeOK
  <2>2. UNCHANGED <<request, policy, evidence, row>>
    BY <1>19 DEF Invoke
  <2> QED
    BY <1>a, <2>1, <2>2 DEF SuccessIsProved
<1>20. ASSUME NEW e \in Exec, Throttle(e) PROVE SuccessIsProved'
  <2>1. \A x \in Exec : Won(x)' => x # e /\ Won(x) /\ tries'[x] = tries[x]
    BY <1>20 DEF Throttle, RetryOrGiveUp, TypeOK
  <2>2. UNCHANGED <<request, policy, evidence, row>>
    BY <1>20 DEF Throttle
  <2> QED
    BY <1>a, <2>1, <2>2 DEF SuccessIsProved
<1>21. ASSUME NEW e \in Exec, LoseAnswer(e) PROVE SuccessIsProved'
  <2>1. \A x \in Exec : Won(x)' => Won(x)
    BY <1>21 DEF LoseAnswer, RetryOrGiveUp, TypeOK
  <2> QED
    BY <1>b, <1>21, <2>1 DEF LoseAnswer
<1>22. ASSUME NEW e \in Exec, Notify(e) PROVE SuccessIsProved'
  <2>1. \A x \in Exec : Won(x)' => Won(x)
    BY <1>22 DEF Notify, TypeOK
  <2> QED
    BY <1>b, <1>22, <2>1 DEF Notify
<1>23. ASSUME NEW i \in Item, TenantWrite(i) PROVE SuccessIsProved'
  BY <1>0, <1>23 DEF TenantWrite
<1>24. ASSUME NEW i \in Item, Reap(i) PROVE SuccessIsProved'
  BY <1>0, <1>24 DEF Reap
<1>25. CASE UNCHANGED vars
  BY <1>0, <1>25 DEF vars
<1>26. QED
  BY <1>1, <1>2, <1>3, <1>4, <1>5, <1>6, <1>7, <1>8, <1>9, <1>10, <1>11, <1>12, <1>13, <1>14, <1>15, <1>16, <1>17, <1>18, <1>19, <1>20, <1>21, <1>22, <1>23, <1>24, <1>25 DEF Next, WorkerStep, Orchestrate

LEMMA RowStep ==
    TypeOK /\ EvidenceInv /\ RowIsBacked /\ [Next]_vars => RowIsBacked'
<1> SUFFICES ASSUME TypeOK, EvidenceInv, RowIsBacked, [Next]_vars PROVE RowIsBacked'
  OBVIOUS
<1>a. (UNCHANGED request) => \A r : CaseOf(r)' = CaseOf(r)
  BY DEF CaseOf, CaseNamed
<1>0. ASSUME UNCHANGED <<request, evidence, row>> PROVE RowIsBacked'
  BY <1>0, <1>a DEF RowIsBacked
<1> USE DEF tenantVars, inputVars, sfnVars, localVars, workVars, outVars
<1>1. ASSUME NEW s \in todo, PurgeSkip(s) PROVE RowIsBacked'
  BY <1>0, <1>1 DEF PurgeSkip
<1>2. ASSUME NEW s \in todo, PurgeList(s) PROVE RowIsBacked'
  BY <1>0, <1>2 DEF PurgeList
<1>3. CASE PurgeDelete
  BY <1>0, <1>3 DEF PurgeDelete
<1>4. CASE BeginBackups
  BY <1>0, <1>4 DEF BeginBackups
<1>5. ASSUME NEW s \in todo, VaultList(s) PROVE RowIsBacked'
  BY <1>0, <1>5 DEF VaultList
<1>6. ASSUME NEW i \in batch, ExpirePoint(i) PROVE RowIsBacked'
  BY <1>0, <1>6 DEF ExpirePoint
<1>7. CASE VaultDone
  BY <1>0, <1>7 DEF VaultDone
<1>8. CASE BackupsDone
  BY <1>0, <1>8 DEF BackupsDone
<1>9. CASE BeginScan
  BY <1>0, <1>9 DEF BeginScan
<1>10. ASSUME NEW s \in todo, ScanStore(s) PROVE RowIsBacked'
  BY <1>0, <1>10 DEF ScanStore
<1>11. CASE ScanDone
  BY <1>0, <1>11 DEF ScanDone
<1>12. CASE WriteEvidence
  <2>1. evidence[run] = "none" /\ \A r \in Run : r # run => evidence'[r] = evidence[r]
    BY <1>12 DEF WriteEvidence, EvidenceInv, Unproved, TypeOK
  <2>2. UNCHANGED <<request, row>>
    BY <1>12 DEF WriteEvidence
  <2> QED
    BY <1>a, <2>1, <2>2 DEF RowIsBacked
<1>13. CASE RecordCase
  <2>1. run \in Run /\ evidence[run] = reply
    BY <1>13 DEF RecordCase, EvidenceInv, Proved, TypeOK
  <2>2. UNCHANGED <<request, evidence>>
    BY <1>13 DEF RecordCase
  <2>3. \A c \in CaseId : row'[c] = row[c] \/ (c = CaseOf(run) /\ row'[c] = reply)
    BY <1>13 DEF RecordCase, TypeOK
  <2> QED
    BY <1>a, <2>1, <2>2, <2>3 DEF RowIsBacked
<1>14. CASE EmitFinding
  BY <1>0, <1>14 DEF EmitFinding
<1>15. CASE PublishAlert
  BY <1>0, <1>15 DEF PublishAlert
<1>16. CASE Respond
  BY <1>0, <1>16 DEF Respond
<1>17. CASE Fault
  <2>1. pc = "record" => run \in Run /\ evidence[run] = reply
    BY DEF EvidenceInv, Proved, TypeOK
  <2>2. UNCHANGED <<request, evidence>>
    BY <1>17 DEF Fault
  <2>3. \A c \in CaseId : row'[c] = row[c] \/ (pc = "record" /\ c = CaseOf(run) /\ row'[c] = reply)
    BY <1>17 DEF Fault, TypeOK
  <2> QED
    BY <1>a, <2>1, <2>2, <2>3 DEF RowIsBacked
<1>18. CASE Kill
  BY <1>0, <1>18 DEF Kill
<1>19. ASSUME NEW e \in Exec, Invoke(e) PROVE RowIsBacked'
  BY <1>0, <1>19 DEF Invoke
<1>20. ASSUME NEW e \in Exec, Throttle(e) PROVE RowIsBacked'
  BY <1>0, <1>20 DEF Throttle
<1>21. ASSUME NEW e \in Exec, LoseAnswer(e) PROVE RowIsBacked'
  BY <1>0, <1>21 DEF LoseAnswer
<1>22. ASSUME NEW e \in Exec, Notify(e) PROVE RowIsBacked'
  BY <1>0, <1>22 DEF Notify
<1>23. ASSUME NEW i \in Item, TenantWrite(i) PROVE RowIsBacked'
  BY <1>0, <1>23 DEF TenantWrite
<1>24. ASSUME NEW i \in Item, Reap(i) PROVE RowIsBacked'
  BY <1>0, <1>24 DEF Reap
<1>25. CASE UNCHANGED vars
  BY <1>0, <1>25 DEF vars
<1>26. QED
  BY <1>1, <1>2, <1>3, <1>4, <1>5, <1>6, <1>7, <1>8, <1>9, <1>10, <1>11, <1>12, <1>13, <1>14, <1>15, <1>16, <1>17, <1>18, <1>19, <1>20, <1>21, <1>22, <1>23, <1>24, <1>25 DEF Next, WorkerStep, Orchestrate

-----------------------------------------------------------------------------
(* The theorems about order.                                               *)

OrderInv ==
    /\ TypeOK /\ FrameInv /\ EvidenceInv /\ RecordInv
    /\ SuccessIsProved /\ RowIsBacked

LEMMA OrderInit == Init => OrderInv
<1> SUFFICES ASSUME Init PROVE OrderInv
  OBVIOUS
<1>1. TypeOK
  BY TypeInit
<1>2. FrameInv
  BY DEF Init, FrameInv
<1>3. EvidenceInv
  BY DEF Init, EvidenceInv, Unproved, Proved
<1>4. RecordInv
  BY DEF Init, RecordInv, EscalationIsBacked
<1>5. SuccessIsProved /\ RowIsBacked
  BY DEF Init, SuccessIsProved, RowIsBacked
<1> QED
  BY <1>1, <1>2, <1>3, <1>4, <1>5 DEF OrderInv

LEMMA OrderStep == OrderInv /\ [Next]_vars => OrderInv'
BY TypeStep, FrameStep, EvidenceStep, RecordStep, SuccessStep, RowStep DEF OrderInv

LEMMA OrderAlways == Spec => []OrderInv
BY OrderInit, OrderStep, PTL DEF Spec

\* However attempts of any number of executions are throttled, lost, killed or
\* failed, an execution succeeds only on the PASS evidence of its last attempt.
THEOREM SuccessProved == Spec => []SuccessIsProved
<1>1. OrderInv => SuccessIsProved
  BY DEF OrderInv
<1> QED
  BY <1>1, OrderAlways, PTL

\* The case table never holds a verdict that no evidence object backs.
THEOREM RowBacked == Spec => []RowIsBacked
<1>1. OrderInv => RowIsBacked
  BY DEF OrderInv
<1> QED
  BY <1>1, OrderAlways, PTL

\* Alerts and findings rest on a persisted FAIL, and a FAIL that is answered was
\* alerted, whatever raises, dies or is tried again in any execution.
THEOREM EscalationBacked == Spec => []EscalationIsBacked
<1>1. OrderInv => EscalationIsBacked
  BY DEF OrderInv, RecordInv
<1> QED
  BY <1>1, OrderAlways, PTL

\* No step of any execution changes an evidence object once it is written.
THEOREM EvidenceFinal == Spec => EvidenceIsFinal
<1> DEFINE Final == \A r \in Run : evidence[r] # "none" => evidence'[r] = evidence[r]
<1>1. ASSUME OrderInv, [Next]_vars PROVE Final
  <2>1. CASE WriteEvidence
    BY <1>1, <2>1 DEF WriteEvidence, OrderInv, EvidenceInv, Unproved, TypeOK
  <2>2. CASE ~WriteEvidence
    <3>1. UNCHANGED evidence
      BY <1>1, <2>2 DEF Next, WorkerStep, Orchestrate, vars, outVars, PurgeSkip, PurgeList,
         VaultList, ScanStore, ExpirePoint, PurgeDelete, BeginBackups, VaultDone, BackupsDone,
         BeginScan, ScanDone, RecordCase, EmitFinding, PublishAlert, Respond, Fault, Kill,
         Invoke, Throttle, Notify, LoseAnswer, TenantWrite, Reap
    <3> QED
      BY <3>1
  <2> QED
    BY <2>1, <2>2
<1>2. OrderInv /\ [Next]_vars => [Final]_vars
  BY <1>1
<1> QED
  BY <1>2, OrderAlways, PTL DEF Spec, EvidenceIsFinal

-----------------------------------------------------------------------------
(* Refinement of DeletionPromise.                                          *)

PromiseStep == [Promise!Next]_(Promise!vars)

LEMMA StepKeepsPromise == OrderInv /\ [Next]_vars => PromiseStep
<1> SUFFICES ASSUME OrderInv, [Next]_vars PROVE PromiseStep
  OBVIOUS
<1> USE DEF tenantVars, inputVars, sfnVars, localVars, workVars, outVars, PromiseStep
<1>0. ASSUME UNCHANGED <<sfn, evidence>> PROVE PromiseStep
  BY <1>0 DEF Promise!vars, Outcome, Attested
<1>m. ASSUME NEW e \in Exec, sfn \in [Exec -> ExecStates], UNCHANGED evidence,
             \/ UNCHANGED sfn
             \/ /\ sfn[e] \in {"waiting", "running"}
                /\ \E x \in {"waiting", "running", "notify_complete", "notify_failure"} :
                       sfn' = [sfn EXCEPT ![e] = x]
      PROVE  PromiseStep
  <2>1. \A y \in Exec : Outcome'[y] = Outcome[y]
    BY <1>m DEF Outcome
  <2>2. Outcome' = Outcome
    BY <2>1 DEF Outcome
  <2> QED
    BY <1>m, <2>2 DEF Promise!vars, Attested
<1>1. ASSUME NEW s \in todo, PurgeSkip(s) PROVE PromiseStep
  BY <1>0, <1>1 DEF PurgeSkip
<1>2. ASSUME NEW s \in todo, PurgeList(s) PROVE PromiseStep
  BY <1>0, <1>2 DEF PurgeList
<1>3. CASE PurgeDelete
  BY <1>0, <1>3 DEF PurgeDelete
<1>4. CASE BeginBackups
  BY <1>0, <1>4 DEF BeginBackups
<1>5. ASSUME NEW s \in todo, VaultList(s) PROVE PromiseStep
  BY <1>0, <1>5 DEF VaultList
<1>6. ASSUME NEW i \in batch, ExpirePoint(i) PROVE PromiseStep
  BY <1>0, <1>6 DEF ExpirePoint
<1>7. CASE VaultDone
  BY <1>0, <1>7 DEF VaultDone
<1>8. CASE BackupsDone
  BY <1>0, <1>8 DEF BackupsDone
<1>9. CASE BeginScan
  BY <1>0, <1>9 DEF BeginScan
<1>10. ASSUME NEW s \in todo, ScanStore(s) PROVE PromiseStep
  BY <1>0, <1>10 DEF ScanStore
<1>11. CASE ScanDone
  BY <1>0, <1>11 DEF ScanDone
<1>12. CASE WriteEvidence
  <2>1. run \in Run /\ run[1] \in Exec /\ run[2] \in 1..MaxTries /\ run = <<run[1], run[2]>>
    BY RunParts DEF OrderInv, TypeOK
  <2>2. /\ UNCHANGED sfn /\ evidence[run] = "none" /\ evidence'[run] = CaseVerdict
        /\ \A r \in Run : r # run => evidence'[r] = evidence[r]
    BY <1>12, <2>1 DEF WriteEvidence, OrderInv, EvidenceInv, Unproved, TypeOK
  <2>3. Outcome' = Outcome
    BY <2>2 DEF Outcome
  <2>4. \A e \in Exec : \A k \in 1..MaxTries :
           evidence'[<<e, k>>] = "PASS" <=>
               \/ evidence[<<e, k>>] = "PASS"
               \/ <<e, k>> = run /\ CaseVerdict = "PASS"
    BY <2>2, RunDomain
  <2>5. Attested' = IF CaseVerdict = "PASS" THEN Attested \union {run[1]} ELSE Attested
    <3>1. CASE CaseVerdict = "PASS"
      <4>0. evidence'[<<run[1], run[2]>>] = "PASS"
        BY <2>1, <2>2, <3>1
      <4>a. ASSUME NEW e \in Exec, e \in Attested PROVE e \in Attested'
        BY <2>4, <4>a DEF Attested
      <4>b. run[1] \in Attested'
        BY <2>1, <4>0 DEF Attested
      <4>c. ASSUME NEW e \in Exec, e \in Attested', e # run[1] PROVE e \in Attested
        <5>1. PICK k \in 1..MaxTries : evidence'[<<e, k>>] = "PASS"
          BY <4>c DEF Attested
        <5>2. <<e, k>> # run
          BY <4>c, RunDomain
        <5>3. evidence[<<e, k>>] = "PASS"
          BY <2>4, <5>1, <5>2
        <5> QED
          BY <5>3 DEF Attested
      <4>1. \A e \in Exec : e \in Attested' <=> (e \in Attested \/ e = run[1])
        BY <4>a, <4>b, <4>c
      <4>2. Attested \subseteq Exec /\ Attested' \subseteq Exec
        BY DEF Attested
      <4> QED
        BY <2>1, <3>1, <4>1, <4>2
    <3>2. CASE CaseVerdict # "PASS"
      <4>1. \A e \in Exec : e \in Attested' <=> e \in Attested
        BY <2>4, <3>2 DEF Attested
      <4>2. Attested \subseteq Exec /\ Attested' \subseteq Exec
        BY DEF Attested
      <4> QED
        BY <3>2, <4>1, <4>2
    <3> QED
      BY <3>1, <3>2
  <2> QED
    BY <2>1, <2>3, <2>5 DEF Promise!Next, Promise!Attest, Promise!vars
<1>13. CASE RecordCase
  BY <1>0, <1>13 DEF RecordCase
<1>14. CASE EmitFinding
  BY <1>0, <1>14 DEF EmitFinding
<1>15. CASE PublishAlert
  BY <1>0, <1>15 DEF PublishAlert
<1>16. CASE Respond
  <2>1. run[1] \in Exec
    BY RunParts DEF OrderInv, TypeOK
  <2>2. /\ sfn \in [Exec -> ExecStates] /\ UNCHANGED evidence
        /\ \/ UNCHANGED sfn
           \/ /\ sfn[run[1]] = "running"
              /\ \E x \in {"notify_complete", "notify_failure"} : sfn' = [sfn EXCEPT ![run[1]] = x]
    BY <1>16 DEF Respond, OrderInv, TypeOK
  <2> QED
    BY <1>m, <2>1, <2>2
<1>17. CASE Fault
  BY <1>0, <1>17 DEF Fault
<1>18. CASE Kill
  <2>1. run[1] \in Exec
    BY RunParts DEF OrderInv, TypeOK
  <2>2. /\ sfn \in [Exec -> ExecStates] /\ UNCHANGED evidence
        /\ \/ UNCHANGED sfn
           \/ /\ sfn[run[1]] = "running"
              /\ \E x \in {"notify_complete", "notify_failure"} : sfn' = [sfn EXCEPT ![run[1]] = x]
    BY <1>18 DEF Kill, OrderInv, TypeOK
  <2> QED
    BY <1>m, <2>1, <2>2
<1>19. ASSUME NEW e \in Exec, Invoke(e) PROVE PromiseStep
  <2>1. /\ sfn \in [Exec -> ExecStates] /\ UNCHANGED evidence /\ sfn[e] \in {"waiting", "running"}
        /\ \E x \in {"waiting", "running", "notify_failure"} : sfn' = [sfn EXCEPT ![e] = x]
    BY <1>19 DEF Invoke, RetryOrGiveUp, OrderInv, TypeOK
  <2> QED
    BY <1>m, <2>1
<1>20. ASSUME NEW e \in Exec, Throttle(e) PROVE PromiseStep
  <2>1. /\ sfn \in [Exec -> ExecStates] /\ UNCHANGED evidence /\ sfn[e] \in {"waiting", "running"}
        /\ \E x \in {"waiting", "running", "notify_failure"} : sfn' = [sfn EXCEPT ![e] = x]
    BY <1>20 DEF Throttle, RetryOrGiveUp, OrderInv, TypeOK
  <2> QED
    BY <1>m, <2>1
<1>21. ASSUME NEW e \in Exec, LoseAnswer(e) PROVE PromiseStep
  <2>1. /\ sfn \in [Exec -> ExecStates] /\ UNCHANGED evidence /\ sfn[e] \in {"waiting", "running"}
        /\ \E x \in {"waiting", "running", "notify_failure"} : sfn' = [sfn EXCEPT ![e] = x]
    BY <1>21 DEF LoseAnswer, RetryOrGiveUp, OrderInv, TypeOK
  <2> QED
    BY <1>m, <2>1
<1>22. ASSUME NEW e \in Exec, Notify(e) PROVE PromiseStep
  <2>1. /\ sfn \in [Exec -> ExecStates] /\ UNCHANGED evidence
        /\ sfn[e] \in {"notify_complete", "notify_failure"}
        /\ \E x \in {"succeeded", "failed"} :
               sfn' = [sfn EXCEPT ![e] = x] /\ (x = "succeeded" => sfn[e] = "notify_complete")
    BY <1>22 DEF Notify, OrderInv, TypeOK
  <2>2. PICK x \in {"succeeded", "failed"} :
           sfn' = [sfn EXCEPT ![e] = x] /\ (x = "succeeded" => sfn[e] = "notify_complete")
    BY <2>1
  <2>3. Outcome[e] = "open" /\ Attested' = Attested
    BY <2>1 DEF Outcome, Attested
  <2>4. Outcome' = [Outcome EXCEPT ![e] = IF x = "succeeded" THEN "complete" ELSE "failed"]
    BY <2>1, <2>2 DEF Outcome
  <2>5. x = "succeeded" => e \in Attested
    <3>1. SUFFICES ASSUME x = "succeeded" PROVE e \in Attested
      OBVIOUS
    <3>2. <<e, tries[e]>> \in Run /\ evidence[<<e, tries[e]>>] = "PASS"
      BY <2>2, <3>1 DEF OrderInv, SuccessIsProved
    <3>3. tries[e] \in 1..MaxTries
      BY <3>2, RunParts
    <3> QED
      BY <3>2, <3>3 DEF Attested
  <2> QED
    BY <2>2, <2>3, <2>4, <2>5 DEF Promise!Next, Promise!Close, Promise!Complete, Promise!Fail
<1>23. ASSUME NEW i \in Item, TenantWrite(i) PROVE PromiseStep
  BY <1>0, <1>23 DEF TenantWrite
<1>24. ASSUME NEW i \in Item, Reap(i) PROVE PromiseStep
  BY <1>0, <1>24 DEF Reap
<1>25. CASE UNCHANGED vars
  BY <1>0, <1>25 DEF vars
<1>26. QED
  BY <1>1, <1>2, <1>3, <1>4, <1>5, <1>6, <1>7, <1>8, <1>9, <1>10, <1>11, <1>12, <1>13, <1>14, <1>15, <1>16, <1>17, <1>18, <1>19, <1>20, <1>21, <1>22, <1>23, <1>24, <1>25 DEF Next, WorkerStep, Orchestrate, PromiseStep

\* The detailed workflow implements the promise: every execution is closed at
\* most once, and as complete only when it is attested by persisted evidence.
THEOREM ImplementsPromise == Spec => Promise!Spec
<1>1. Init => Promise!Init
  BY DEF Init, Promise!Init, Outcome, Attested, Run
<1>2. OrderInv /\ [Next]_vars => [Promise!Next]_(Promise!vars)
  BY StepKeepsPromise DEF PromiseStep
<1> QED
  BY <1>1, <1>2, OrderAlways, PTL DEF Spec, Promise!Spec

=============================================================================
