------------------------- MODULE DeletionScan_proofs -------------------------
(***************************************************************************)
(* What the verdict of a deletion case proves about the tenant's data, and *)
(* what the purge may touch, for any catalog, vaults, items and tenants.   *)
(***************************************************************************)
EXTENDS DeletionCase_proofs

\* The event the worker is serving.
Served == request[run[1]]

\* The lists the worker walks stay within the catalog it resolved.
ScopeInv ==
    /\ pc \in {"purge", "delete"} => todo \subseteq LiveStores(Served)
    /\ pc = "delete" => /\ Enabled(policy, Served)
                        /\ \A i \in batch : Home[i] \in LiveStores(Served) /\ Home[i] \in Federal
    /\ pc \in {"vaults", "expire"} => /\ BackupsDue(policy, Served)
                                      /\ MappedVaults(Served) # {}
                                      /\ todo \subseteq MappedVaults(Served)
    /\ pc = "expire" => /\ Enabled(policy, Served)
                        /\ \A i \in batch : Home[i] \in MappedVaults(Served)
    /\ pc = "scan" => todo \subseteq ScanTargets(Served) /\ Served.kind # "simulation"

\* Old data of a place: gone, or with its deletion accepted.
Emptied(l) == \A i \in began : Home[i] = l => i \notin present
Expired(l) == \A i \in began : Home[i] = l /\ i \in present => i \in expiring
Verified(s) == ~Unverifiable(s) /\ Emptied(ScanPlace(s))

\* A vault or store that was visited holds no old data that was not dealt
\* with, however the tenant wrote meanwhile.
BackupInv ==
    /\ pc = "vaults" /\ Enabled(policy, Served) =>
           \A v \in MappedVaults(Served) \ todo : Expired(v)
    /\ pc = "expire" =>
           \A v \in MappedVaults(Served) \ todo : \A i \in began :
               Home[i] = v /\ i \in present => i \in expiring \/ i \in batch
    /\ pc \in {"begin_scan", "scan", "write"} /\ BackupsDue(policy, Served) /\ ~purgeFailed =>
           /\ MappedVaults(Served) # {}
           /\ Enabled(policy, Served) => \A v \in MappedVaults(Served) : Expired(v)

ScanInv ==
    /\ pc = "scan" /\ ~hits => \A s \in ScanTargets(Served) \ todo : Verified(s)
    /\ pc = "write" /\ ~hits /\ Served.kind # "simulation" =>
           \A s \in ScanTargets(Served) : Verified(s)

PassInv ==
    /\ \A r \in Run : proved[r] \subseteq born
    /\ PassMeansGone /\ PassExpiredBackups /\ PassIsAttestable
-----------------------------------------------------------------------------
LEMMA ScopeStep == TypeOK /\ ScopeInv /\ [Next]_vars => ScopeInv'
<1> SUFFICES ASSUME TypeOK, ScopeInv, [Next]_vars PROVE ScopeInv'
  OBVIOUS
<1> USE DEF tenantVars, inputVars, sfnVars, localVars, workVars, outVars, Served
<1>0. ASSUME UNCHANGED <<request, run, policy, todo, batch, pc>> PROVE ScopeInv'
  BY <1>0 DEF ScopeInv
<1>b. ASSUME pc' \notin {"purge", "delete", "vaults", "expire", "scan"} PROVE ScopeInv'
  BY <1>b DEF ScopeInv
<1>1. ASSUME NEW s \in todo, PurgeSkip(s) PROVE ScopeInv'
  BY <1>1 DEF PurgeSkip, ScopeInv
<1>2. ASSUME NEW s \in todo, PurgeList(s) PROVE ScopeInv'
  BY <1>2 DEF PurgeList, ScopeInv, ItemsAt
<1>3. CASE PurgeDelete
  <2>1. todo \subseteq LiveStores(Served)
    BY <1>3 DEF PurgeDelete, ScopeInv
  <2> QED
    BY <1>3, <2>1 DEF PurgeDelete, ScopeInv
<1>4. CASE BeginBackups
  BY <1>4 DEF BeginBackups, ScopeInv
<1>5. ASSUME NEW s \in todo, VaultList(s) PROVE ScopeInv'
  BY <1>5 DEF VaultList, ScopeInv, ItemsAt
<1>6. ASSUME NEW i \in batch, ExpirePoint(i) PROVE ScopeInv'
  BY <1>6 DEF ExpirePoint, ScopeInv
<1>7. CASE VaultDone
  BY <1>7 DEF VaultDone, ScopeInv
<1>8. CASE BackupsDone
  BY <1>b, <1>8 DEF BackupsDone
<1>9. CASE BeginScan
  BY <1>9 DEF BeginScan, ScopeInv
<1>10. ASSUME NEW s \in todo, ScanStore(s) PROVE ScopeInv'
  BY <1>10 DEF ScanStore, ScopeInv
<1>11. CASE ScanDone
  BY <1>b, <1>11 DEF ScanDone
<1>12. CASE WriteEvidence
  BY <1>b, <1>12 DEF WriteEvidence
<1>13. CASE RecordCase
  BY <1>b, <1>13 DEF RecordCase
<1>14. CASE EmitFinding
  BY <1>b, <1>14 DEF EmitFinding
<1>15. CASE PublishAlert
  BY <1>b, <1>15 DEF PublishAlert
<1>16. CASE Respond
  BY <1>b, <1>16 DEF Respond, FrameGone
<1>17. CASE Fault
  BY <1>b, <1>17 DEF Fault
<1>18. CASE Kill
  BY <1>b, <1>18 DEF Kill, FrameGone
<1>19. ASSUME NEW e \in Exec, Invoke(e) PROVE ScopeInv'
  <2>1. tries[e] + 1 \in 1..MaxTries
    BY <1>19, ExecAssumption DEF Invoke, TypeOK
  <2>2. run'[1] = e
    BY <1>19, <2>1, RunDomain DEF Invoke, RunId
  <2>3. UNCHANGED request /\ pc' \in {"purge", "respond"} /\ (pc' = "purge" => todo' = LiveStores(request[e]))
    BY <1>19 DEF Invoke
  <2> QED
    BY <2>2, <2>3 DEF ScopeInv
<1>20. ASSUME NEW e \in Exec, Throttle(e) PROVE ScopeInv'
  BY <1>0, <1>20 DEF Throttle
<1>21. ASSUME NEW e \in Exec, LoseAnswer(e) PROVE ScopeInv'
  BY <1>0, <1>21 DEF LoseAnswer
<1>22. ASSUME NEW e \in Exec, Notify(e) PROVE ScopeInv'
  BY <1>0, <1>22 DEF Notify
<1>23. ASSUME NEW i \in Item, TenantWrite(i) PROVE ScopeInv'
  BY <1>0, <1>23 DEF TenantWrite
<1>24. ASSUME NEW i \in Item, Reap(i) PROVE ScopeInv'
  BY <1>0, <1>24 DEF Reap
<1>25. CASE UNCHANGED vars
  BY <1>0, <1>25 DEF vars
<1>26. QED
  BY <1>1, <1>2, <1>3, <1>4, <1>5, <1>6, <1>7, <1>8, <1>9, <1>10, <1>11, <1>12, <1>13, <1>14, <1>15, <1>16, <1>17, <1>18, <1>19, <1>20, <1>21, <1>22, <1>23, <1>24, <1>25 DEF Next, WorkerStep, Orchestrate

LEMMA BackupStep ==
    TypeOK /\ ScopeInv /\ BackupInv /\ [Next]_vars => BackupInv'
<1> SUFFICES ASSUME TypeOK, ScopeInv, BackupInv, [Next]_vars PROVE BackupInv'
  OBVIOUS
<1> USE DEF tenantVars, inputVars, sfnVars, localVars, workVars, outVars, Served
<1>k. ASSUME pc' \notin {"vaults", "expire", "begin_scan", "scan", "write"} PROVE BackupInv'
  BY <1>k DEF BackupInv
<1>p. ASSUME UNCHANGED <<began, run, request, policy>>,
             \A i \in began : i \in present' => i \in present,
             \A i \in present' : i \in expiring => i \in expiring'
      PROVE  \A v : Expired(v) => Expired(v)'
  BY <1>p DEF Expired
<1>0. ASSUME UNCHANGED <<began, run, request, policy, pc, todo, batch, purgeFailed>>,
             \A i \in began : i \in present' => i \in present,
             \A i \in present' : i \in expiring => i \in expiring'
      PROVE  BackupInv'
  BY <1>0, <1>p DEF BackupInv
<1>1. ASSUME NEW s \in todo, PurgeSkip(s) PROVE BackupInv'
  BY <1>k, <1>1 DEF PurgeSkip
<1>2. ASSUME NEW s \in todo, PurgeList(s) PROVE BackupInv'
  BY <1>k, <1>2 DEF PurgeList
<1>3. CASE PurgeDelete
  BY <1>k, <1>3 DEF PurgeDelete
<1>4. CASE BeginBackups
  <2>1. UNCHANGED <<began, run, request, policy, present, expiring>>
    BY <1>4 DEF BeginBackups
  <2>2. pc' \in {"begin_scan", "vaults"}
    BY <1>4 DEF BeginBackups
  <2>3. pc' = "vaults" => todo' = MappedVaults(Served)
    BY <1>4 DEF BeginBackups
  <2>4. pc' = "begin_scan" /\ BackupsDue(policy, Served) => purgeFailed'
    BY <1>4 DEF BeginBackups
  <2> QED
    BY <2>1, <2>2, <2>3, <2>4 DEF BackupInv
<1>5. ASSUME NEW s \in todo, VaultList(s) PROVE BackupInv'
  <2>1. UNCHANGED <<began, run, request, policy, present, expiring, purgeFailed>>
    BY <1>5 DEF VaultList
  <2>2. pc = "vaults" /\ s \in MappedVaults(Served) /\ todo' = todo \ {s}
    BY <1>5 DEF VaultList, ScopeInv
  <2>3. CASE Enabled(policy, Served)
    <3>1. pc' = "expire" /\ batch' = {i \in present : Home[i] = s}
      BY <1>5, <2>3 DEF VaultList, ItemsAt
    <3>2. \A v \in MappedVaults(Served) \ todo : Expired(v)
      BY <2>2, <2>3 DEF BackupInv
    <3> QED
      BY <2>1, <2>2, <3>1, <3>2 DEF BackupInv, Expired
  <2>4. CASE ~Enabled(policy, Served)
    BY <1>5, <2>1, <2>4 DEF VaultList, BackupInv
  <2> QED
    BY <2>3, <2>4
<1>6. ASSUME NEW i \in batch, ExpirePoint(i) PROVE BackupInv'
  <2>1. UNCHANGED <<began, run, request, policy, present, todo, purgeFailed>>
    BY <1>6 DEF ExpirePoint
  <2>2. pc = "expire" /\ batch' = batch \ {i}
    BY <1>6 DEF ExpirePoint
  <2>3. CASE i \in present
    <3>1. expiring' = expiring \union {i} /\ pc' = "expire"
      BY <1>6, <2>2, <2>3 DEF ExpirePoint
    <3> QED
      BY <2>1, <2>2, <3>1 DEF BackupInv
  <2>4. CASE i \notin present
    BY <1>6, <1>k, <2>4 DEF ExpirePoint
  <2> QED
    BY <2>3, <2>4
<1>7. CASE VaultDone
  BY <1>7 DEF VaultDone, BackupInv, Expired
<1>8. CASE BackupsDone
  <2>1. /\ UNCHANGED <<began, run, request, policy, present, expiring>>
        /\ pc = "vaults" /\ todo = {} /\ pc' = "begin_scan"
    BY <1>8 DEF BackupsDone
  <2>2. MappedVaults(Served) # {}
    BY <2>1 DEF ScopeInv
  <2>3. Enabled(policy, Served) => \A v \in MappedVaults(Served) : Expired(v)
    BY <2>1 DEF BackupInv
  <2> QED
    BY <1>p, <2>1, <2>2, <2>3 DEF BackupInv
<1>9. CASE BeginScan
  <2>1. /\ UNCHANGED <<began, run, request, policy, present, expiring, purgeFailed>>
        /\ pc = "begin_scan" /\ pc' \in {"scan", "write"}
    BY <1>9 DEF BeginScan
  <2> QED
    BY <1>p, <2>1 DEF BackupInv
<1>10. ASSUME NEW s \in todo, ScanStore(s) PROVE BackupInv'
  <2>1. /\ UNCHANGED <<began, run, request, policy, present, expiring, purgeFailed, pc>>
        /\ pc = "scan"
    BY <1>10 DEF ScanStore
  <2> QED
    BY <1>p, <2>1 DEF BackupInv
<1>11. CASE ScanDone
  <2>1. /\ UNCHANGED <<began, run, request, policy, present, expiring, purgeFailed>>
        /\ pc = "scan" /\ pc' = "write"
    BY <1>11 DEF ScanDone
  <2> QED
    BY <1>p, <2>1 DEF BackupInv
<1>12. CASE WriteEvidence
  BY <1>k, <1>12 DEF WriteEvidence
<1>13. CASE RecordCase
  BY <1>k, <1>13 DEF RecordCase
<1>14. CASE EmitFinding
  BY <1>k, <1>14 DEF EmitFinding
<1>15. CASE PublishAlert
  BY <1>k, <1>15 DEF PublishAlert
<1>16. CASE Respond
  BY <1>k, <1>16 DEF Respond, FrameGone
<1>17. CASE Fault
  BY <1>k, <1>17 DEF Fault
<1>18. CASE Kill
  BY <1>k, <1>18 DEF Kill, FrameGone
<1>19. ASSUME NEW e \in Exec, Invoke(e) PROVE BackupInv'
  BY <1>k, <1>19 DEF Invoke
<1>20. ASSUME NEW e \in Exec, Throttle(e) PROVE BackupInv'
  BY <1>0, <1>20 DEF Throttle
<1>21. ASSUME NEW e \in Exec, LoseAnswer(e) PROVE BackupInv'
  BY <1>0, <1>21 DEF LoseAnswer
<1>22. ASSUME NEW e \in Exec, Notify(e) PROVE BackupInv'
  BY <1>0, <1>22 DEF Notify
<1>23. ASSUME NEW i \in Item, TenantWrite(i) PROVE BackupInv'
  BY <1>0, <1>23 DEF TenantWrite, TypeOK
<1>24. ASSUME NEW i \in Item, Reap(i) PROVE BackupInv'
  BY <1>0, <1>24 DEF Reap
<1>25. CASE UNCHANGED vars
  BY <1>0, <1>25 DEF vars
<1>26. QED
  BY <1>1, <1>2, <1>3, <1>4, <1>5, <1>6, <1>7, <1>8, <1>9, <1>10, <1>11, <1>12, <1>13, <1>14, <1>15, <1>16, <1>17, <1>18, <1>19, <1>20, <1>21, <1>22, <1>23, <1>24, <1>25 DEF Next, WorkerStep, Orchestrate

LEMMA ScanStep ==
    TypeOK /\ ScopeInv /\ ScanInv /\ [Next]_vars => ScanInv'
<1> SUFFICES ASSUME TypeOK, ScopeInv, ScanInv, [Next]_vars PROVE ScanInv'
  OBVIOUS
<1> USE DEF tenantVars, inputVars, sfnVars, localVars, workVars, outVars, Served
<1>k. ASSUME pc' \notin {"scan", "write"} PROVE ScanInv'
  BY <1>k DEF ScanInv
<1>p. ASSUME UNCHANGED <<began, run, request>>, \A i \in began : i \in present' => i \in present
      PROVE  \A s : Verified(s) => Verified(s)'
  BY <1>p DEF Verified, Emptied
<1>0. ASSUME UNCHANGED <<began, run, request, pc, todo, hits>>,
             \A i \in began : i \in present' => i \in present
      PROVE  ScanInv'
  BY <1>0, <1>p DEF ScanInv
<1>1. ASSUME NEW s \in todo, PurgeSkip(s) PROVE ScanInv'
  BY <1>k, <1>1 DEF PurgeSkip
<1>2. ASSUME NEW s \in todo, PurgeList(s) PROVE ScanInv'
  BY <1>k, <1>2 DEF PurgeList
<1>3. CASE PurgeDelete
  BY <1>k, <1>3 DEF PurgeDelete
<1>4. CASE BeginBackups
  BY <1>k, <1>4 DEF BeginBackups
<1>5. ASSUME NEW s \in todo, VaultList(s) PROVE ScanInv'
  BY <1>k, <1>5 DEF VaultList
<1>6. ASSUME NEW i \in batch, ExpirePoint(i) PROVE ScanInv'
  BY <1>k, <1>6 DEF ExpirePoint
<1>7. CASE VaultDone
  BY <1>k, <1>7 DEF VaultDone
<1>8. CASE BackupsDone
  BY <1>k, <1>8 DEF BackupsDone
<1>9. CASE BeginScan
  BY <1>9 DEF BeginScan, ScanInv
<1>10. ASSUME NEW s \in todo, ScanStore(s) PROVE ScanInv'
  <2>1. /\ UNCHANGED <<began, run, request, present, pc>>
        /\ pc = "scan" /\ todo' = todo \ {s}
        /\ hits' = (hits \/ Unverifiable(s) \/ ItemsAt(ScanPlace(s)) # {})
    BY <1>10 DEF ScanStore
  <2>2. ~hits' => ~hits /\ Verified(s)
    <3>1. ~hits' => ~Unverifiable(s) /\ ItemsAt(ScanPlace(s)) = {}
      BY <2>1
    <3>2. ~hits' => Emptied(ScanPlace(s))
      BY <3>1 DEF ItemsAt, Emptied, TypeOK
    <3> QED
      BY <2>1, <3>1, <3>2 DEF Verified
  <2>3. ~hits' => \A x \in ScanTargets(Served) \ todo' : Verified(x)
    BY <2>1, <2>2 DEF ScanInv
  <2> QED
    BY <1>p, <2>1, <2>3 DEF ScanInv
<1>11. CASE ScanDone
  <2>1. /\ UNCHANGED <<began, run, request, present, hits>>
        /\ pc = "scan" /\ todo = {} /\ pc' = "write"
    BY <1>11 DEF ScanDone
  <2> QED
    BY <1>p, <2>1 DEF ScanInv
<1>12. CASE WriteEvidence
  BY <1>k, <1>12 DEF WriteEvidence
<1>13. CASE RecordCase
  BY <1>k, <1>13 DEF RecordCase
<1>14. CASE EmitFinding
  BY <1>k, <1>14 DEF EmitFinding
<1>15. CASE PublishAlert
  BY <1>k, <1>15 DEF PublishAlert
<1>16. CASE Respond
  BY <1>k, <1>16 DEF Respond, FrameGone
<1>17. CASE Fault
  BY <1>k, <1>17 DEF Fault
<1>18. CASE Kill
  BY <1>k, <1>18 DEF Kill, FrameGone
<1>19. ASSUME NEW e \in Exec, Invoke(e) PROVE ScanInv'
  BY <1>k, <1>19 DEF Invoke
<1>20. ASSUME NEW e \in Exec, Throttle(e) PROVE ScanInv'
  BY <1>0, <1>20 DEF Throttle
<1>21. ASSUME NEW e \in Exec, LoseAnswer(e) PROVE ScanInv'
  BY <1>0, <1>21 DEF LoseAnswer
<1>22. ASSUME NEW e \in Exec, Notify(e) PROVE ScanInv'
  BY <1>0, <1>22 DEF Notify
<1>23. ASSUME NEW i \in Item, TenantWrite(i) PROVE ScanInv'
  BY <1>0, <1>23 DEF TenantWrite, TypeOK
<1>24. ASSUME NEW i \in Item, Reap(i) PROVE ScanInv'
  BY <1>0, <1>24 DEF Reap
<1>25. CASE UNCHANGED vars
  BY <1>0, <1>25 DEF vars
<1>26. QED
  BY <1>1, <1>2, <1>3, <1>4, <1>5, <1>6, <1>7, <1>8, <1>9, <1>10, <1>11, <1>12, <1>13, <1>14, <1>15, <1>16, <1>17, <1>18, <1>19, <1>20, <1>21, <1>22, <1>23, <1>24, <1>25 DEF Next, WorkerStep, Orchestrate

-----------------------------------------------------------------------------
(* The verdict.                                                            *)

LEMMA ScopeEqualities ==
    ASSUME TypeOK, NEW e \in Exec
    PROVE  /\ FederalEntries(request[e]) = ScanTargets(request[e])
           /\ CatalogVaults(request[e]) = MappedVaults(request[e])
           /\ BackupsInScope(policy, request[e]) = BackupsDue(policy, request[e])
<1>1. FederalEntries(request[e]) = ScanTargets(request[e])
  BY DEF FederalEntries, ScanTargets
<1>2. Catalog(request[e]) \subseteq Store
  BY ScopeTypes
<1>3. CatalogVaults(request[e]) = MappedVaults(request[e])
  BY <1>2, VaultAssumption DEF CatalogVaults, MappedVaults
<1> QED
  BY <1>1, <1>3 DEF BackupsInScope, BackupsDue

\* A run about to write PASS has proved every clause of what PASS means.
LEMMA VerdictIsProved ==
    ASSUME TypeOK, FrameInv, ScopeInv, BackupInv, ScanInv, pc = "write", CaseVerdict = "PASS"
    PROVE  /\ Served.kind = "live" =>
                /\ \A s \in FederalEntries(Served) : ~Unverifiable(s)
                /\ \A i \in began : Home[i] \in ScannedPlaces(Served) => i \notin present
           /\ BackupsInScope(policy, Served) => CatalogVaults(Served) # {}
           /\ Served.kind = "live" /\ policy.enable /\ BackupsInScope(policy, Served) =>
                \A i \in began : Home[i] \in CatalogVaults(Served) /\ i \in present => i \in expiring
<1>1. ~hits /\ ~purgeFailed
  BY DEF CaseVerdict
<1>2. /\ FederalEntries(Served) = ScanTargets(Served)
      /\ CatalogVaults(Served) = MappedVaults(Served)
      /\ BackupsInScope(policy, Served) = BackupsDue(policy, Served)
  BY ScopeEqualities, RunParts DEF TypeOK, Served
<1>3. Served.kind = "live" => \A s \in ScanTargets(Served) : Verified(s)
  BY <1>1 DEF ScanInv
<1>4. BackupsDue(policy, Served) => MappedVaults(Served) # {}
  BY <1>1 DEF BackupInv
<1>5. BackupsDue(policy, Served) /\ Enabled(policy, Served) => \A v \in MappedVaults(Served) : Expired(v)
  BY <1>1 DEF BackupInv
<1>6. Served.kind = "live" /\ policy.enable => Enabled(policy, Served)
  BY DEF Enabled
<1>7. Served.kind = "live" => \A i \in began : Home[i] \in ScannedPlaces(Served) => i \notin present
  BY <1>2, <1>3 DEF ScannedPlaces, Verified, Emptied
<1>8. Served.kind = "live" => \A s \in FederalEntries(Served) : ~Unverifiable(s)
  BY <1>2, <1>3 DEF Verified
<1>9. BackupsDue(policy, Served) /\ Enabled(policy, Served) =>
         \A i \in began : Home[i] \in MappedVaults(Served) /\ i \in present => i \in expiring
  BY <1>5 DEF Expired
<1> QED
  BY <1>2, <1>4, <1>6, <1>7, <1>8, <1>9

LEMMA PassStep ==
    TypeOK /\ FrameInv /\ EvidenceInv /\ ScopeInv /\ BackupInv /\ ScanInv /\ PassInv /\ [Next]_vars
        => PassInv'
<1> SUFFICES ASSUME TypeOK, FrameInv, EvidenceInv, ScopeInv, BackupInv, ScanInv, PassInv, [Next]_vars
             PROVE  PassInv'
  OBVIOUS
<1> USE DEF tenantVars, inputVars, sfnVars, localVars, workVars, outVars
<1>p. ASSUME UNCHANGED <<request, policy, evidence, proved>>, born \subseteq born',
             \A i \in born : i \in present' => i \in present,
             \A i \in present' : i \in expiring => i \in expiring'
      PROVE  PassInv'
  <2>1. \A r \in Run : LivePass(r)' = LivePass(r)
    BY <1>p DEF LivePass
  <2>2. \A r \in Run : proved[r] \subseteq born
    BY DEF PassInv
  <2>3. PassMeansGone'
    BY <1>p, <2>1, <2>2 DEF PassInv, PassMeansGone
  <2>4. PassExpiredBackups'
    BY <1>p, <2>1, <2>2 DEF PassInv, PassExpiredBackups
  <2>5. PassIsAttestable'
    BY <1>p, <2>1 DEF PassInv, PassIsAttestable
  <2> QED
    BY <1>p, <2>2, <2>3, <2>4, <2>5 DEF PassInv
<1>0. ASSUME UNCHANGED <<born, present, expiring, request, policy, evidence, proved>> PROVE PassInv'
  BY <1>0, <1>p
<1>1. ASSUME NEW s \in todo, PurgeSkip(s) PROVE PassInv'
  BY <1>0, <1>1 DEF PurgeSkip
<1>2. ASSUME NEW s \in todo, PurgeList(s) PROVE PassInv'
  BY <1>0, <1>2 DEF PurgeList
<1>3. CASE PurgeDelete
  BY <1>p, <1>3 DEF PurgeDelete
<1>4. CASE BeginBackups
  BY <1>0, <1>4 DEF BeginBackups
<1>5. ASSUME NEW s \in todo, VaultList(s) PROVE PassInv'
  BY <1>0, <1>5 DEF VaultList
<1>6. ASSUME NEW i \in batch, ExpirePoint(i) PROVE PassInv'
  BY <1>p, <1>6 DEF ExpirePoint
<1>7. CASE VaultDone
  BY <1>0, <1>7 DEF VaultDone
<1>8. CASE BackupsDone
  BY <1>0, <1>8 DEF BackupsDone
<1>9. CASE BeginScan
  BY <1>0, <1>9 DEF BeginScan
<1>10. ASSUME NEW s \in todo, ScanStore(s) PROVE PassInv'
  BY <1>0, <1>10 DEF ScanStore
<1>11. CASE ScanDone
  BY <1>0, <1>11 DEF ScanDone
<1>12. CASE WriteEvidence
  <2>1. /\ UNCHANGED <<born, present, expiring, request, policy, run>>
        /\ pc = "write" /\ evidence' = [evidence EXCEPT ![run] = CaseVerdict]
        /\ proved' = IF CaseVerdict = "PASS" THEN [proved EXCEPT ![run] = began] ELSE proved
    BY <1>12 DEF WriteEvidence
  <2>2. run \in Run /\ run[1] \in Exec /\ Served = request[run[1]] /\ evidence[run] = "none"
    BY <2>1, RunParts DEF TypeOK, Served, EvidenceInv, Unproved
  <2>3. /\ evidence'[run] = CaseVerdict
        /\ CaseVerdict = "PASS" => proved'[run] = began
        /\ \A r \in Run : r # run => evidence'[r] = evidence[r] /\ proved'[r] = proved[r]
        /\ \A r \in Run : proved'[r] \subseteq born
    BY <2>1, <2>2 DEF TypeOK, PassInv
  <2>4. \A r \in Run : r # run => LivePass(r)' = LivePass(r)
    BY <2>1, <2>3 DEF LivePass
  <2>5. LivePass(run)' => CaseVerdict = "PASS" /\ Served.kind = "live"
    BY <2>1, <2>2, <2>3 DEF LivePass
  <2>6. PassMeansGone'
    <3>1. ASSUME NEW r \in Run, LivePass(r)', r # run
          PROVE  \A i \in proved'[r] : Home[i] \in ScannedPlaces(request[r[1]]) => i \notin present
      BY <2>3, <2>4, <3>1 DEF PassInv, PassMeansGone
    <3>2. LivePass(run)' =>
             \A i \in proved'[run] : Home[i] \in ScannedPlaces(request[run[1]]) => i \notin present
      BY <2>1, <2>2, <2>3, <2>5, VerdictIsProved
    <3> QED
      BY <2>1, <3>1, <3>2 DEF PassMeansGone
  <2>7. PassExpiredBackups'
    <3>1. ASSUME NEW r \in Run, LivePass(r)', r # run,
                 policy.enable, BackupsInScope(policy, request[r[1]])
          PROVE  \A i \in proved'[r] :
                    Home[i] \in CatalogVaults(request[r[1]]) /\ i \in present => i \in expiring
      BY <2>3, <2>4, <3>1 DEF PassInv, PassExpiredBackups
    <3>2. LivePass(run)' /\ policy.enable /\ BackupsInScope(policy, request[run[1]]) =>
             \A i \in proved'[run] :
                Home[i] \in CatalogVaults(request[run[1]]) /\ i \in present => i \in expiring
      BY <2>1, <2>2, <2>3, <2>5, VerdictIsProved
    <3> QED
      BY <2>1, <3>1, <3>2 DEF PassExpiredBackups
  <2>8. PassIsAttestable'
    <3>1. ASSUME NEW r \in Run, evidence'[r] = "PASS", r # run
          PROVE  /\ LivePass(r)' => \A s \in FederalEntries(request[r[1]]) : ~Unverifiable(s)
                 /\ BackupsInScope(policy, request[r[1]]) => CatalogVaults(request[r[1]]) # {}
      BY <2>3, <2>4, <3>1 DEF PassInv, PassIsAttestable
    <3>2. evidence'[run] = "PASS" =>
             /\ LivePass(run)' => \A s \in FederalEntries(request[run[1]]) : ~Unverifiable(s)
             /\ BackupsInScope(policy, request[run[1]]) => CatalogVaults(request[run[1]]) # {}
      BY <2>1, <2>2, <2>3, <2>5, VerdictIsProved
    <3> QED
      BY <2>1, <3>1, <3>2 DEF PassIsAttestable
  <2> QED
    BY <2>1, <2>3, <2>6, <2>7, <2>8 DEF PassInv
<1>13. CASE RecordCase
  BY <1>0, <1>13 DEF RecordCase
<1>14. CASE EmitFinding
  BY <1>0, <1>14 DEF EmitFinding
<1>15. CASE PublishAlert
  BY <1>0, <1>15 DEF PublishAlert
<1>16. CASE Respond
  BY <1>0, <1>16 DEF Respond
<1>17. CASE Fault
  BY <1>0, <1>17 DEF Fault
<1>18. CASE Kill
  BY <1>0, <1>18 DEF Kill
<1>19. ASSUME NEW e \in Exec, Invoke(e) PROVE PassInv'
  BY <1>0, <1>19 DEF Invoke
<1>20. ASSUME NEW e \in Exec, Throttle(e) PROVE PassInv'
  BY <1>0, <1>20 DEF Throttle
<1>21. ASSUME NEW e \in Exec, LoseAnswer(e) PROVE PassInv'
  BY <1>0, <1>21 DEF LoseAnswer
<1>22. ASSUME NEW e \in Exec, Notify(e) PROVE PassInv'
  BY <1>0, <1>22 DEF Notify
<1>23. ASSUME NEW i \in Item, TenantWrite(i) PROVE PassInv'
  BY <1>p, <1>23 DEF TenantWrite
<1>24. ASSUME NEW i \in Item, Reap(i) PROVE PassInv'
  BY <1>p, <1>24 DEF Reap
<1>25. CASE UNCHANGED vars
  BY <1>0, <1>25 DEF vars
<1>26. QED
  BY <1>1, <1>2, <1>3, <1>4, <1>5, <1>6, <1>7, <1>8, <1>9, <1>10, <1>11, <1>12, <1>13, <1>14, <1>15, <1>16, <1>17, <1>18, <1>19, <1>20, <1>21, <1>22, <1>23, <1>24, <1>25 DEF Next, WorkerStep, Orchestrate

-----------------------------------------------------------------------------
(* The theorems about deletion.                                            *)

CaseInv == OrderInv /\ ScopeInv /\ BackupInv /\ ScanInv /\ PassInv

LEMMA CaseInit == Init => CaseInv
<1> SUFFICES ASSUME Init PROVE CaseInv
  OBVIOUS
<1>1. ScopeInv /\ BackupInv /\ ScanInv
  BY DEF Init, ScopeInv, BackupInv, ScanInv
<1>2. PassInv
  BY DEF Init, PassInv, PassMeansGone, PassExpiredBackups, PassIsAttestable, LivePass
<1> QED
  BY <1>1, <1>2, OrderInit DEF CaseInv

LEMMA CaseStep == CaseInv /\ [Next]_vars => CaseInv'
<1> SUFFICES ASSUME CaseInv, [Next]_vars PROVE CaseInv'
  OBVIOUS
<1>1. TypeOK /\ FrameInv /\ EvidenceInv
  BY DEF CaseInv, OrderInv
<1>2. OrderInv'
  BY OrderStep DEF CaseInv
<1>3. ScopeInv' /\ BackupInv' /\ ScanInv' /\ PassInv'
  BY <1>1, ScopeStep, BackupStep, ScanStep, PassStep DEF CaseInv
<1> QED
  BY <1>2, <1>3 DEF CaseInv

LEMMA CaseAlways == Spec => []CaseInv
BY CaseInit, CaseStep, PTL DEF Spec

\* PASS evidence of a live run, whatever deletes were partial, delayed or raced
\* by the tenant, means that the data it started from is gone where it looked.
THEOREM PassGone == Spec => []PassMeansGone
<1>1. CaseInv => PassMeansGone
  BY DEF CaseInv, PassInv
<1> QED
  BY <1>1, CaseAlways, PTL

\* With purging enabled and backups in scope it also means that the recovery
\* points it started from are gone or on their way out of every mapped vault.
THEOREM PassExpired == Spec => []PassExpiredBackups
<1>1. CaseInv => PassExpiredBackups
  BY DEF CaseInv, PassInv
<1> QED
  BY <1>1, CaseAlways, PTL

\* PASS is never given to a catalog that the lab is unable to attest.
THEOREM PassAttestable == Spec => []PassIsAttestable
<1>1. CaseInv => PassIsAttestable
  BY DEF CaseInv, PassInv
<1> QED
  BY <1>1, CaseAlways, PTL

\* Nothing is ever condemned outside an opted-in purge of the tenant's own
\* federal stores and mapped vaults.
THEOREM DestructionAuthorised == Spec => DestructionIsAuthorised
<1> DEFINE Allowed(i) ==
        /\ policy.enable /\ Served.kind = "live" /\ Home[i] \notin Foreign
        /\ \/ Home[i] \in FederalEntries(Served)
           \/ BackupsInScope(policy, Served) /\ Home[i] \in CatalogVaults(Served)
           Authorised == \A i \in Condemned : Allowed(i)
<1> USE DEF tenantVars, inputVars, sfnVars, localVars, workVars, outVars
<1>1. ASSUME CaseInv, pc \in {"delete", "expire"}
      PROVE  \A i \in batch : Allowed(i)
  <2>1. TypeOK /\ FrameInv /\ ScopeInv
    BY <1>1 DEF CaseInv, OrderInv
  <2>2. run[1] \in Exec
    BY <2>1, RunParts DEF TypeOK
  <2>3. Served.kind \in {"live", "simulation", "invalid"}
    BY <2>1, <2>2, ScopeTypes DEF Request, Served
  <2>4. Served.kind = "live" /\ policy.enable
    BY <1>1, <2>1, <2>3 DEF ScopeInv, FrameInv, Enabled, Served
  <2>5. /\ FederalEntries(Served) = ScanTargets(Served)
        /\ CatalogVaults(Served) = MappedVaults(Served)
        /\ BackupsInScope(policy, Served) = BackupsDue(policy, Served)
    BY <2>1, <2>2, ScopeEqualities DEF Served
  <2>6. CASE pc = "delete"
    <3>1. \A i \in batch : Home[i] \in LiveStores(Served) /\ Home[i] \in Federal
      BY <2>1, <2>6 DEF ScopeInv
    <3>2. LiveStores(Served) \subseteq Catalog(Served) /\ Catalog(Served) \intersect Foreign = {}
      BY <2>4 DEF LiveStores, Catalog
    <3> QED
      BY <2>4, <2>5, <3>1, <3>2 DEF ScanTargets
  <2>7. CASE pc = "expire"
    <3>1. /\ \A i \in batch : Home[i] \in MappedVaults(Served)
          /\ BackupsDue(policy, Served)
      BY <2>1, <2>7 DEF ScopeInv
    <3>2. MappedVaults(Served) \subseteq Vault
      BY <2>1, <2>2, ScopeTypes DEF Served
    <3>3. Vault \intersect Foreign = {}
      BY HomeAssumption, StoreAssumption
    <3> QED
      BY <2>4, <2>5, <3>1, <3>2, <3>3
  <2> QED
    BY <1>1, <2>6, <2>7
<1>2. ASSUME CaseInv, [Next]_vars PROVE Authorised
  <2>1. CASE PurgeDelete
    <3>1. Condemned \subseteq batch /\ pc = "delete"
      BY <2>1 DEF PurgeDelete, Condemned
    <3> QED
      BY <1>1, <1>2, <3>1
  <2>2. ASSUME NEW i \in batch, ExpirePoint(i) PROVE Authorised
    <3>1. Condemned \subseteq batch /\ pc = "expire"
      BY <2>2 DEF ExpirePoint, Condemned
    <3> QED
      BY <1>1, <1>2, <3>1
  <2>3. ASSUME NEW i \in Item, Reap(i) PROVE Authorised
    BY <2>3 DEF Reap, Condemned
  <2>4. ASSUME NEW i \in Item, TenantWrite(i) PROVE Authorised
    BY <2>4 DEF TenantWrite, Condemned
  <2>5. ASSUME ~PurgeDelete, \A i \in batch : ~ExpirePoint(i),
               \A i \in Item : ~Reap(i) /\ ~TenantWrite(i)
        PROVE  Authorised
    <3>1. UNCHANGED <<present, expiring>>
      BY <1>2, <2>5 DEF Next, WorkerStep, Orchestrate, vars, PurgeSkip, PurgeList,
         VaultList, ScanStore, BeginBackups, VaultDone, BackupsDone, BeginScan, ScanDone,
         WriteEvidence, RecordCase, EmitFinding, PublishAlert, Respond, Fault, Kill,
         Invoke, Throttle, Notify, LoseAnswer
    <3>2. Condemned = {}
      BY <3>1 DEF Condemned
    <3> QED
      BY <3>2
  <2> QED
    BY <2>1, <2>2, <2>3, <2>4, <2>5
<1>3. CaseInv /\ [Next]_vars => [Authorised]_vars
  BY <1>2
<1> QED
  BY <1>3, CaseAlways, PTL DEF Spec, DestructionIsAuthorised, Served

=============================================================================
