--------------------------- MODULE ScfMapper_proofs ---------------------------
(***************************************************************************)
(* What a refresh does for every number of controls, pool size, number of  *)
(* retries and crosswalk.  The argument: an index is claimed once, because *)
(* reading and moving the shared index is one step; so a promise that      *)
(* holds an index is the only one to ask for it and to store into it, and  *)
(* when all promises ended without failing no index below next is left.    *)
(***************************************************************************)
EXTENDS ScfMapper, TLAPS

Busy(w) == at[w] \in {"fetch", "pause"}
Holds(w) == Busy(w) \/ at[w] = "failed"

\* An index is held by one promise at most.
ClaimInv ==
    /\ \A w \in Worker : Holds(w) => slot[w] < next
    /\ \A v, w \in Worker : v # w /\ Holds(v) /\ Holds(w) => slot[v] # slot[w]

\* What was claimed is stored, or its promise has not stored it yet.
StoreInv ==
    /\ \A i \in Item : i < next =>
         results[i] = crosswalk[i] \/ \E w \in Worker : Holds(w) /\ slot[w] = i
    /\ \A w \in Worker : at[w] = "done" => next = N + 1

\* Requests are counted by the attempts of the promise that holds the index.
RequestInv ==
    /\ \A i \in Item : i >= next => requests[i] = 0
    /\ \A w \in Worker : Busy(w) => requests[slot[w]] = attempt[w] + 1
    /\ \A w \in Worker : at[w] = "pause" => attempt[w] < Retries
    /\ ApiIsSpared

\* The file is written once, from a complete mapping.
FileInv ==
    /\ main \in {"spec", "pool", "write"} => file = Old
    /\ main \in {"write", "report"} => results = crosswalk
    /\ main = "report" => file = crosswalk
    /\ main = "over" <=> exit # "running"

PoolInv == TypeOK /\ ClaimInv /\ StoreInv /\ RequestInv /\ FileInv /\ StrictMeansMapped

USE SizeAssumption

-----------------------------------------------------------------------------

LEMMA WorkerType == Worker \subseteq Nat /\ Worker # {}
<1>1. CASE Limit < N BY <1>1 DEF Worker
<1>2. CASE ~(Limit < N) BY <1>2 DEF Worker
<1>3. QED BY <1>1, <1>2

LEMMA InitPool == Init => PoolInv
<1> SUFFICES ASSUME Init PROVE PoolInv
    OBVIOUS
<1> USE DEF Init
<1>1. TypeOK BY DEF TypeOK, Item, WorkerStates, Mapping
<1>2. ClaimInv BY DEF ClaimInv, Holds, Busy
<1>3. StoreInv BY DEF StoreInv, Item
<1>4. RequestInv BY DEF RequestInv, Busy, ApiIsSpared
<1>5. FileInv /\ StrictMeansMapped BY DEF FileInv, StrictMeansMapped
<1>6. QED BY <1>1, <1>2, <1>3, <1>4, <1>5 DEF PoolInv

LEMMA ClaimPool == ASSUME PoolInv, NEW w \in Worker, Claim(w) PROVE PoolInv'
<1> USE DEF PoolInv, Claim, input, Alive
<1>0. next \in Item /\ next < N + 1
    BY DEF TypeOK, Item
<1>1. TypeOK' BY <1>0 DEF TypeOK, Item, WorkerStates
<1>2. \A v \in Worker : v # w => slot'[v] = slot[v] /\ at'[v] = at[v] /\ attempt'[v] = attempt[v]
    BY DEF TypeOK
<1>3. slot'[w] = next /\ at'[w] = "fetch" /\ attempt'[w] = 0 /\ next' = next + 1
    BY DEF TypeOK
<1>4. ClaimInv'
  <2>1. \A v \in Worker : Holds(v)' => slot'[v] < next'
      BY <1>0, <1>2, <1>3 DEF ClaimInv, Holds, Busy, TypeOK, Item
  <2>2. ASSUME NEW u \in Worker, NEW v \in Worker, u # v, Holds(u)', Holds(v)'
        PROVE slot'[u] # slot'[v]
      BY <2>2, <1>0, <1>2, <1>3 DEF ClaimInv, Holds, Busy, TypeOK, Item
  <2>3. QED BY <2>1, <2>2 DEF ClaimInv
<1>5. StoreInv'
  <2>1. ASSUME NEW i \in Item, i < next'
        PROVE results'[i] = crosswalk'[i] \/ \E v \in Worker : Holds(v)' /\ slot'[v] = i
    <3>1. CASE i = next BY <3>1, <1>3 DEF Holds, Busy
    <3>2. CASE i < next
      <4>1. CASE results[i] = crosswalk[i] BY <4>1
      <4>2. CASE \E v \in Worker : Holds(v) /\ slot[v] = i
          BY <4>2, <1>2 DEF Holds, Busy
      <4>3. QED BY <4>1, <4>2, <3>2 DEF StoreInv
    <3>3. QED BY <2>1, <3>1, <3>2, <1>0, <1>3 DEF Item
  <2>2. \A v \in Worker : at'[v] # "done"
      BY <1>0, <1>2, <1>3 DEF StoreInv
  <2>3. QED BY <2>1, <2>2 DEF StoreInv
<1>6. RequestInv'
  <2>1. /\ requests'[next] = 1
        /\ \A i \in Item : i # next => requests'[i] = requests[i]
      BY <1>0 DEF TypeOK, RequestInv
  <2>2. \A i \in Item : i >= next' => requests'[i] = 0
      BY <2>1, <1>0, <1>3 DEF RequestInv, Item
  <2>3. ASSUME NEW v \in Worker, Busy(v)' PROVE requests'[slot'[v]] = attempt'[v] + 1
    <3>1. CASE v = w BY <3>1, <2>1, <1>3
    <3>2. CASE v # w
      <4>1. Busy(v) /\ slot[v] < next /\ slot[v] \in Item
          BY <2>3, <3>2, <1>2 DEF Busy, Holds, ClaimInv, TypeOK
      <4>2. requests'[slot[v]] = requests[slot[v]]
          BY <4>1, <2>1, <1>0 DEF Item
      <4>3. QED BY <4>1, <4>2, <3>2, <1>2 DEF RequestInv
    <3>3. QED BY <3>1, <3>2
  <2>4. \A v \in Worker : at'[v] = "pause" => attempt'[v] < Retries
      BY <1>2, <1>3 DEF RequestInv
  <2>5. \A i \in Item : requests'[i] <= Retries + 1
      BY <2>1 DEF RequestInv, ApiIsSpared, Item
  <2>6. QED BY <2>2, <2>3, <2>4, <2>5 DEF RequestInv, ApiIsSpared
<1>7. FileInv' /\ StrictMeansMapped' BY DEF FileInv, StrictMeansMapped
<1>8. QED BY <1>1, <1>4, <1>5, <1>6, <1>7

\* A promise that ends, fails or waits keeps the index it holds.
LEMMA KeepsPool ==
    ASSUME PoolInv, NEW w \in Worker, Finish(w) \/ Refused(w) \/ FetchFails(w)
    PROVE  PoolInv'
<1> USE DEF PoolInv, Finish, Refused, FetchFails, input, Alive
<1>1. TypeOK' BY DEF TypeOK, WorkerStates
<1>2. \A v \in Worker : v # w => at'[v] = at[v]
    BY DEF TypeOK
<1>3. /\ UNCHANGED <<crosswalk, slot, next, attempt, results, requests>>
      /\ \/ at[w] = "loop" /\ at'[w] = "done" /\ next > N
         \/ at[w] = "fetch" /\ at'[w] = "failed"
         \/ at[w] = "fetch" /\ at'[w] = "pause" /\ attempt[w] < Retries
    BY DEF TypeOK
<1>4. \A v \in Worker : (Holds(v)' <=> Holds(v)) /\ (Busy(v)' => Busy(v))
    BY <1>2, <1>3 DEF Holds, Busy
<1>5. ClaimInv' BY <1>3, <1>4 DEF ClaimInv
<1>6. next > N => next = N + 1 BY DEF TypeOK
<1>7. StoreInv' BY <1>2, <1>3, <1>4, <1>6 DEF StoreInv
<1>8. RequestInv' BY <1>2, <1>3, <1>4 DEF RequestInv, ApiIsSpared
<1>9. FileInv' /\ StrictMeansMapped' BY DEF FileInv, StrictMeansMapped
<1>10. QED BY <1>1, <1>5, <1>7, <1>8, <1>9

LEMMA FetchedPool == ASSUME PoolInv, NEW w \in Worker, Fetched(w) PROVE PoolInv'
<1> USE DEF PoolInv, Fetched, input, Alive
<1>0. slot[w] \in Item /\ crosswalk[slot[w]] \in SUBSET Framework
    BY DEF TypeOK, Mapping
<1>1. TypeOK'
  <2>1. /\ results' = [i \in Item |-> results'[i]]
        /\ \A i \in Item : results'[i] = Hole \/ results'[i] \in SUBSET Framework
      BY <1>0 DEF TypeOK
  <2>2. QED BY <2>1 DEF TypeOK, WorkerStates
<1>2. \A v \in Worker : v # w => at'[v] = at[v]
    BY DEF TypeOK
<1>3. /\ UNCHANGED <<crosswalk, slot, next, attempt, requests>>
      /\ at[w] = "fetch" /\ at'[w] = "loop"
    BY DEF TypeOK
<1>4. \A v \in Worker : (Holds(v)' <=> Holds(v) /\ v # w) /\ (Busy(v)' => Busy(v))
    BY <1>2, <1>3 DEF Holds, Busy
<1>5. ClaimInv' BY <1>3, <1>4 DEF ClaimInv
<1>6. /\ results'[slot[w]] = crosswalk[slot[w]]
      /\ \A i \in Item : i # slot[w] => results'[i] = results[i]
    BY <1>0 DEF TypeOK
<1>7. StoreInv' BY <1>2, <1>3, <1>4, <1>6 DEF StoreInv
<1>8. RequestInv' BY <1>2, <1>3, <1>4 DEF RequestInv, ApiIsSpared
<1>9. FileInv' /\ StrictMeansMapped' BY DEF FileInv, StrictMeansMapped
<1>10. QED BY <1>1, <1>5, <1>7, <1>8, <1>9

LEMMA RetryPool == ASSUME PoolInv, NEW w \in Worker, Retry(w) PROVE PoolInv'
<1> USE DEF PoolInv, Retry, input, Alive
<1>0. slot[w] \in Item /\ attempt[w] \in 0..Retries /\ attempt[w] < Retries
    BY DEF TypeOK, RequestInv
<1>1. TypeOK' BY <1>0 DEF TypeOK, WorkerStates
<1>2. \A v \in Worker : v # w => at'[v] = at[v] /\ attempt'[v] = attempt[v]
    BY DEF TypeOK
<1>3. /\ UNCHANGED <<crosswalk, slot, next, results>>
      /\ at[w] = "pause" /\ at'[w] = "fetch" /\ attempt'[w] = attempt[w] + 1
    BY DEF TypeOK
<1>4. \A v \in Worker : (Holds(v)' <=> Holds(v)) /\ (Busy(v)' <=> Busy(v))
    BY <1>2, <1>3 DEF Holds, Busy
<1>5. ClaimInv' BY <1>3, <1>4 DEF ClaimInv
<1>6. StoreInv' BY <1>2, <1>3, <1>4 DEF StoreInv
<1>7. /\ requests[slot[w]] = attempt[w] + 1
      /\ requests'[slot[w]] = requests[slot[w]] + 1
      /\ \A i \in Item : i # slot[w] => requests'[i] = requests[i]
    BY <1>0, <1>3 DEF TypeOK, RequestInv, Busy
<1>8. RequestInv'
  <2>1. \A i \in Item : i >= next' => requests'[i] = 0
      BY <1>0, <1>3, <1>7 DEF RequestInv, ClaimInv, Holds, Busy, Item, TypeOK
  <2>2. ASSUME NEW v \in Worker, Busy(v)' PROVE requests'[slot'[v]] = attempt'[v] + 1
    <3>1. CASE v = w BY <3>1, <1>0, <1>3, <1>7
    <3>2. CASE v # w
      <4>1. slot[v] # slot[w] /\ slot[v] \in Item
          BY <2>2, <3>2, <1>3, <1>4 DEF ClaimInv, Holds, Busy, TypeOK
      <4>2. QED BY <4>1, <2>2, <3>2, <1>2, <1>3, <1>4, <1>7 DEF RequestInv
    <3>3. QED BY <3>1, <3>2
  <2>3. \A v \in Worker : at'[v] = "pause" => attempt'[v] < Retries
      BY <1>2, <1>3 DEF RequestInv
  <2>4. \A i \in Item : requests'[i] <= Retries + 1
      BY <1>0, <1>7 DEF RequestInv, ApiIsSpared
  <2>5. QED BY <2>1, <2>2, <2>3, <2>4 DEF RequestInv, ApiIsSpared
<1>9. FileInv' /\ StrictMeansMapped' BY DEF FileInv, StrictMeansMapped
<1>10. QED BY <1>1, <1>5, <1>6, <1>8, <1>9

\* When every promise is done nothing below next is held, and next is N + 1.
LEMMA AllMapped == ASSUME PoolInv, AllDone PROVE results = crosswalk
<1>1. PICK w \in Worker : TRUE
    BY WorkerType
<1>2. next = N + 1 /\ \A v \in Worker : ~Holds(v)
    BY <1>1 DEF PoolInv, StoreInv, AllDone, Holds, Busy
<1>3. \A i \in Item : results[i] = crosswalk[i]
    BY <1>2 DEF PoolInv, StoreInv, Item
<1>4. QED BY <1>3 DEF PoolInv, TypeOK, Mapping

LEMMA MainPool == ASSUME PoolInv, Main \/ Kill PROVE PoolInv'
<1> USE DEF PoolInv
<1>0. UNCHANGED <<input, pool>>
    BY DEF Main, CheckSpec, AllDone, Abort, WriteFile, WriteFails, Report, Kill
<1>1. ClaimInv' /\ StoreInv' /\ RequestInv'
    BY <1>0 DEF input, pool, ClaimInv, StoreInv, RequestInv, ApiIsSpared, Holds, Busy
<1>2. TypeOK' <=> /\ file' = Old \/ file' = Torn \/ \E m \in Mapping : file' = m
                  /\ main' \in {"spec", "pool", "write", "report", "over"}
                  /\ exit' \in {"running", "killed", "ok", "unmapped", "error"}
    BY <1>0 DEF TypeOK, input, pool
<1>3. CASE CheckSpec
    BY <1>1, <1>2, <1>3 DEF CheckSpec, End, TypeOK, FileInv, StrictMeansMapped
<1>4. CASE AllDone
    BY <1>0, <1>1, <1>2, <1>4, AllMapped
       DEF AllDone, Alive, TypeOK, FileInv, StrictMeansMapped, input, pool
<1>5. CASE Abort
    BY <1>1, <1>2, <1>5 DEF Abort, Alive, End, TypeOK, FileInv, StrictMeansMapped
<1>6. CASE WriteFile
  <2>1. results \in Mapping
      BY <1>6 DEF WriteFile, FileInv, TypeOK
  <2>2. QED BY <2>1, <1>0, <1>1, <1>2, <1>6
               DEF WriteFile, TypeOK, FileInv, StrictMeansMapped, input, pool
<1>7. CASE WriteFails
    BY <1>1, <1>2, <1>7 DEF WriteFails, End, TypeOK, FileInv, StrictMeansMapped
<1>8. CASE Report
  <2>1. strict /\ exit' = "ok" => \A f \in Framework : \E i \in Item : f \in file'[i]
      BY <1>8 DEF Report, End, Missing, FileInv
  <2>2. QED BY <2>1, <1>0, <1>1, <1>2, <1>8
               DEF Report, End, TypeOK, FileInv, StrictMeansMapped, input, pool
<1>9. CASE Kill
    BY <1>1, <1>2, <1>9 DEF Kill, End, TypeOK, FileInv, StrictMeansMapped
<1>10. QED BY <1>3, <1>4, <1>5, <1>6, <1>7, <1>8, <1>9 DEF Main

LEMMA StepPool == PoolInv /\ [Next]_vars => PoolInv'
<1> SUFFICES ASSUME PoolInv, [Next]_vars PROVE PoolInv'
    OBVIOUS
<1>1. CASE Main \/ Kill BY <1>1, MainPool
<1>2. ASSUME NEW w \in Worker, Pool(w) PROVE PoolInv'
    BY <1>2, ClaimPool, KeepsPool, FetchedPool, RetryPool DEF Pool, Settle
<1>3. CASE UNCHANGED vars
    BY <1>3 DEF vars, PoolInv, TypeOK, ClaimInv, StoreInv, RequestInv, ApiIsSpared,
                FileInv, StrictMeansMapped, Holds, Busy
<1>4. QED BY <1>1, <1>2, <1>3 DEF Next

LEMMA PoolInvariant == Spec => []PoolInv
BY InitPool, StepPool, PTL DEF Spec

-----------------------------------------------------------------------------

\* Every reachable state of scfFetch, mapWithConcurrency and main is well typed.
THEOREM TypeCorrect == Spec => []TypeOK
<1>1. PoolInv => TypeOK BY DEF PoolInv
<1>2. QED BY <1>1, PoolInvariant, PTL

\* No control is fetched more than FETCH_RETRIES + 1 times, whatever the pool.
THEOREM ApiSpared == Spec => []ApiIsSpared
<1>1. PoolInv => ApiIsSpared BY DEF PoolInv, RequestInv
<1>2. QED BY <1>1, PoolInvariant, PTL

\* A run with --strict exits 0 only with a file that hits every framework.
THEOREM StrictMapped == Spec => []StrictMeansMapped
<1>1. PoolInv => StrictMeansMapped BY DEF PoolInv
<1>2. QED BY <1>1, PoolInvariant, PTL

\* The mapper implements CrosswalkPromise but for its fairness: the file that is
\* written is the whole mapping, whichever order the fetches settle in.
THEOREM ImplementsPromise == Spec => Promise!Spec
<1>1. Init => Promise!Init
    BY DEF Init, Promise!Init
<1>2. ASSUME PoolInv, [Next]_vars PROVE [Promise!Next]_(Promise!vars)
  <2> USE DEF Promise!vars, Promise!Next
  <2>1. ASSUME NEW w \in Worker, Pool(w) PROVE UNCHANGED <<crosswalk, file, exit>>
      BY <2>1 DEF Pool, Settle, Claim, Finish, Fetched, Refused, FetchFails, Retry, input
  <2>2. CASE CheckSpec
      BY <2>2, <1>2 DEF CheckSpec, End, PoolInv, FileInv, Promise!GiveUp, input, pool
  <2>3. CASE AllDone BY <2>3 DEF AllDone, input, pool
  <2>4. CASE Abort
      BY <2>4, <1>2 DEF Abort, Alive, End, PoolInv, FileInv, Promise!GiveUp, input, pool
  <2>5. CASE WriteFile
      BY <2>5, <1>2 DEF WriteFile, PoolInv, FileInv, Promise!Replace, input, pool
  <2>6. CASE WriteFails
      BY <2>6, <1>2 DEF WriteFails, End, PoolInv, FileInv, Promise!GiveUp, input, pool
  <2>7. CASE Report
      BY <2>7, <1>2 DEF Report, End, PoolInv, FileInv, Promise!Succeed, input, pool
  <2>8. CASE Kill
      BY <2>8, <1>2 DEF Kill, End, PoolInv, FileInv, Promise!Die, input, pool
  <2>9. CASE UNCHANGED vars BY <2>9 DEF vars
  <2>10. QED BY <1>2, <2>1, <2>2, <2>3, <2>4, <2>5, <2>6, <2>7, <2>8, <2>9 DEF Next, Main
<1>3. QED BY <1>1, <1>2, PoolInvariant, PTL DEF Spec, Promise!Spec
=============================================================================
