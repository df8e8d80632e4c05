------------------------------ MODULE ScfMapper ------------------------------
(***************************************************************************)
(* The crosswalk mapper of shared/scf-mapper: one process that maps the    *)
(* controls of one lab.  A pool of at most Limit promises shares one index *)
(* into the list of controls; each fetches its control from the SCF API,   *)
(* tries again after a transient error, and goes on to the next.  The      *)
(* file is written when all are done; the first promise to fail ends the   *)
(* process while the others are still fetching.                            *)
(***************************************************************************)
EXTENDS Integers, FiniteSets

CONSTANTS
    N,           \* controls of the lab
    Limit,       \* CONCURRENCY
    Retries,     \* FETCH_RETRIES
    Framework,   \* the frameworks the lab asks for
    Hole,        \* an entry of results nothing was stored in
    Old, Torn    \* the file before the run, and cut short by a kill

Item == 1..N
Worker == 1..(IF Limit < N THEN Limit ELSE N)
Mapping == [Item -> SUBSET Framework]

ASSUME SizeAssumption == N \in Nat \ {0} /\ Limit \in Nat \ {0} /\ Retries \in Nat
ASSUME MarkAssumption ==
    /\ \A hits \in SUBSET Framework : hits # Hole
    /\ \A m \in Mapping : m # Old /\ m # Torn
    /\ Old # Torn

VARIABLES
    crosswalk,   \* Mapping: what the API holds for the controls
    valid,       \* the lab's spec passes validateLabSpec
    strict,      \* --strict
    next,        \* the shared index
    at,          \* [Worker -> WorkerStates]
    slot,        \* [Worker -> Item]: the index a worker took
    attempt,     \* [Worker -> 0..Retries]
    results,     \* [Item -> Hole or the frameworks it hits]
    file,        \* the generated mapping
    main,        \* the process: "spec", "pool", "write", "report", "over"
    exit,        \* "running" or how it ended
    requests     \* history, [Item -> Nat]: fetches of each control

vars == <<crosswalk, valid, strict, next, at, slot, attempt, results, file, main, exit, requests>>
input == <<crosswalk, valid, strict>>
pool == <<next, at, slot, attempt, results, requests>>

WorkerStates == {"loop", "fetch", "pause", "done", "failed"}

Init ==
    /\ crosswalk \in Mapping
    /\ valid \in BOOLEAN /\ strict \in BOOLEAN
    /\ next = 1
    /\ at = [w \in Worker |-> "loop"]
    /\ slot = [w \in Worker |-> 1]
    /\ attempt = [w \in Worker |-> 0]
    /\ results = [i \in Item |-> Hole]
    /\ file = Old
    /\ main = "spec"
    /\ exit = "running"
    /\ requests = [i \in Item |-> 0]

End(how) == main' = "over" /\ exit' = how

-----------------------------------------------------------------------------
(* The pool.                                                               *)

Alive == main = "pool"

\* One turn of the event loop: the index is read and moved together.
Claim(w) ==
    /\ Alive /\ at[w] = "loop" /\ next <= N
    /\ slot' = [slot EXCEPT ![w] = next]
    /\ next' = next + 1
    /\ attempt' = [attempt EXCEPT ![w] = 0]
    /\ at' = [at EXCEPT ![w] = "fetch"]
    /\ requests' = [requests EXCEPT ![next] = @ + 1]
    /\ UNCHANGED <<input, results, file, main, exit>>

Finish(w) ==
    /\ Alive /\ at[w] = "loop" /\ next > N
    /\ at' = [at EXCEPT ![w] = "done"]
    /\ UNCHANGED <<input, next, slot, attempt, results, file, main, exit, requests>>

Fetched(w) ==
    /\ Alive /\ at[w] = "fetch"
    /\ results' = [results EXCEPT ![slot[w]] = crosswalk[slot[w]]]
    /\ at' = [at EXCEPT ![w] = "loop"]
    /\ UNCHANGED <<input, next, slot, attempt, file, main, exit, requests>>

\* A 4xx or an oversized body is not tried again.
Refused(w) ==
    /\ Alive /\ at[w] = "fetch"
    /\ at' = [at EXCEPT ![w] = "failed"]
    /\ UNCHANGED <<input, next, slot, attempt, results, file, main, exit, requests>>

\* Mutant: the last attempt is tried again as well.
RetryOnceMore(w) ==
    /\ Alive /\ at[w] = "fetch"
    /\ at' = [at EXCEPT ![w] = IF attempt[w] <= Retries THEN "pause" ELSE "failed"]
    /\ UNCHANGED <<input, next, slot, attempt, results, file, main, exit, requests>>

\* A 5xx, a timeout or a body that is not JSON.
FetchFails(w) ==
    /\ Alive /\ at[w] = "fetch"
    /\ at' = [at EXCEPT ![w] = IF attempt[w] < Retries THEN "pause" ELSE "failed"]
    /\ UNCHANGED <<input, next, slot, attempt, results, file, main, exit, requests>>

\* Mutant: the attempts are counted per pool, not per control.
RetryUncounted(w) ==
    /\ Alive /\ at[w] = "pause"
    /\ at' = [at EXCEPT ![w] = "fetch"]
    /\ requests' = [requests EXCEPT ![slot[w]] = @ + 1]
    /\ UNCHANGED <<input, next, slot, attempt, results, file, main, exit>>

Retry(w) ==
    /\ Alive /\ at[w] = "pause"
    /\ attempt' = [attempt EXCEPT ![w] = @ + 1]
    /\ at' = [at EXCEPT ![w] = "fetch"]
    /\ requests' = [requests EXCEPT ![slot[w]] = @ + 1]
    /\ UNCHANGED <<input, next, slot, results, file, main, exit>>

-----------------------------------------------------------------------------
(* The process around it.                                                  *)

CheckSpec ==
    /\ main = "spec"
    /\ IF valid THEN main' = "pool" /\ UNCHANGED exit ELSE End("error")
    /\ UNCHANGED <<input, pool, file>>

\* Mutant: Promise.allSettled.
AllSettled ==
    /\ Alive
    /\ \A w \in Worker : at[w] \in {"done", "failed"}
    /\ main' = "write"
    /\ UNCHANGED <<input, pool, file, exit>>

AllDone ==
    /\ Alive
    /\ \A w \in Worker : at[w] = "done"
    /\ main' = "write"
    /\ UNCHANGED <<input, pool, file, exit>>

\* Promise.all rejects with the first failure; its handler exits.
Abort ==
    /\ Alive
    /\ \E w \in Worker : at[w] = "failed"
    /\ End("error")
    /\ UNCHANGED <<input, pool, file>>

WriteFile ==
    /\ main = "write"
    /\ file' = results
    /\ main' = "report"
    /\ UNCHANGED <<input, pool, exit>>

\* A full disk may leave half a file.
WriteFails ==
    /\ main = "write"
    /\ file' \in {file, Torn}
    /\ End("error")
    /\ UNCHANGED <<input, pool>>

\* Mutant: any hit at all will do.
AllOrNothing ==
    IF \E i \in Item : results[i] # {} THEN {} ELSE Framework

\* frameworks_requested_without_hits
Missing == {f \in Framework : \A i \in Item : f \notin results[i]}

\* The file stays even if --strict makes the run fail.
Report ==
    /\ main = "report"
    /\ End(IF strict /\ Missing # {} THEN "unmapped" ELSE "ok")
    /\ UNCHANGED <<input, pool, file>>

\* The job is cancelled; the file is truncated before it is written.
Kill ==
    /\ main # "over"
    /\ End("killed")
    /\ file' \in {file, IF main = "write" THEN Torn ELSE file}
    /\ UNCHANGED <<input, pool>>

Settle(w) == Fetched(w) \/ Refused(w) \/ FetchFails(w)
Pool(w) == Claim(w) \/ Finish(w) \/ Settle(w) \/ Retry(w)
Main == CheckSpec \/ AllDone \/ Abort \/ WriteFile \/ WriteFails \/ Report

Next == Main \/ Kill \/ \E w \in Worker : Pool(w)

Spec == Init /\ [][Next]_vars

\* Every fetch settles, by its timeout if by nothing else; timers fire.
FairSpec == Spec /\ WF_vars(Main) /\ \A w \in Worker : WF_vars(Pool(w))

-----------------------------------------------------------------------------
(* Properties.                                                             *)

TypeOK ==
    /\ crosswalk \in Mapping
    /\ valid \in BOOLEAN /\ strict \in BOOLEAN
    /\ next \in 1..(N + 1)
    /\ at \in [Worker -> WorkerStates]
    /\ slot \in [Worker -> Item]
    /\ attempt \in [Worker -> 0..Retries]
    /\ results = [i \in Item |-> results[i]]
    /\ \A i \in Item : results[i] = Hole \/ results[i] \in SUBSET Framework
    /\ file = Old \/ file = Torn \/ \E m \in Mapping : file = m
    /\ main \in {"spec", "pool", "write", "report", "over"}
    /\ exit \in {"running", "killed", "ok", "unmapped", "error"}
    /\ requests \in [Item -> Nat]

\* The mapper keeps CrosswalkPromise: no order of answers, errors and retries
\* among the promises of the pool leaves a control out of a written file or
\* puts one's crosswalk in another's place, and every run ends.
Promise == INSTANCE CrosswalkPromise WITH wanted <- crosswalk
KeepsPromise == Promise!FairSpec

\* The API is asked for one control at most once and twice again, whichever
\* promises share the list: none is claimed by two.
ApiIsSpared == \A i \in Item : requests[i] <= Retries + 1

\* --strict succeeds only when every framework asked for is hit by a control
\* in the file it wrote.
StrictMeansMapped ==
    exit = "ok" /\ strict => \A f \in Framework : \E i \in Item : f \in file[i]
=============================================================================
