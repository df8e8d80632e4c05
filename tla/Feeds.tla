------------------------------- MODULE Feeds -------------------------------
(***************************************************************************)
(* Labs 02, 03 and 12-17 judging what others hand them.  What comes in an  *)
(* event is judged once, by the invocation of that event, and is gone      *)
(* with it.  Only the plan and descriptor buckets of labs 16 and 17 keep   *)
(* an object, which every scheduled run judges again; the scheduled event  *)
(* itself carries nothing.                                                 *)
(***************************************************************************)
EXTENDS Terraform, FiniteSets

CONSTANTS
    Labs,         \* the labs a behaviour may be of
    Rows, Heads,  \* [Labs -> what submissions are made of]
    Environments, \* [Labs -> what the function may be configured with]
    Nothing,      \* no submission
    Today, Horizon,   \* the first and the last day
    MaxRows,      \* bound: [Labs -> rows of a register]
    MaxHandOvers  \* bound: events with data, and uploads

ASSUME LabsAssumption == Labs \subseteq {"02", "03", "12", "13", "14", "15", "16", "17"}
ASSUME DaysAssumption == Today \in Nat /\ Horizon \in Nat /\ Today <= Horizon
ASSUME BoundsAssumption == MaxHandOvers \in Nat /\ \A l \in Labs : MaxRows[l] \in Nat

Submissions ==
    [l \in Labs |->
        {s \in [rows: SUBSET Rows[l], head: Heads[l]] : Cardinality(s.rows) <= MaxRows[l]}]
ASSUME NothingAssumption == \A l \in Labs : Nothing \notin Submissions[l]

\* The rows whose dates and numbers are compared, and change events.
ASSUME RowsAssumption ==
    /\ "02" \in Labs => Rows["02"] \ {Malformed} \subseteq [label: STRING, observed: SUBSET Int]
    /\ "03" \in Labs => Rows["03"] \ {Malformed} \subseteq [created: Int, rotates: Raw]
    /\ "12" \in Labs => Rows["12"] \ {Malformed} \subseteq RecoveryObjective
    /\ "14" \in Labs => /\ Rows["14"] \ {Malformed} \subseteq [privileged: Raw, days: SUBSET Int]
                        /\ \A e \in Environments["14"] : e.maxStandingDays \in Int
    /\ "15" \in Labs => Rows["15"] \ {Malformed} \subseteq ChangeEvent

VARIABLES
    lab, env,   \* the lab deployed and its environment
    stored,     \* the object in its bucket
    now,        \* the day
    judged,     \* history: what the last answer is about
    answer,     \* the last answer of the lab
    handovers   \* so far

vars == <<lab, env, stored, now, judged, answer, handovers>>

Verdicts == {"PASS", "FAIL", "ERROR", "CONFIG_ERROR", "SWEEP"}
NoAnswer == [verdict |-> "none", unsatisfied |-> {}]

\* Mutant: no data, nothing to judge.
UnfedNotApplicable == "NOT_APPLICABLE"
\* An event without data, and no object in the bucket or no bucket to look in.
\* Labs 02 and 03 then sweep the account.
Unfed ==
    CASE lab \in {"02", "03"} -> "SWEEP"
      [] lab \in {"12", "13"} -> "CONFIG_ERROR"
      [] lab = "14"           -> "ERROR"
      [] lab = "15"           -> IF env.rolesValid THEN "ERROR" ELSE "CONFIG_ERROR"
      [] lab = "16"           -> IF Configured16(env) /\ env.bucket THEN "ERROR" ELSE "CONFIG_ERROR"
      [] lab = "17"           -> IF Configured17(env) /\ env.bucket THEN "ERROR" ELSE "CONFIG_ERROR"

VerdictOn(s, day) ==
    CASE s = Nothing -> Unfed
      [] s # Nothing /\ lab = "02" -> Verdict02(s, day)
      [] s # Nothing /\ lab = "03" -> Verdict03(s, day)
      [] s # Nothing /\ lab = "12" -> Verdict12(s, env, day)
      [] s # Nothing /\ lab = "13" -> Verdict13(s, env)
      [] s # Nothing /\ lab = "14" -> ReviewStandingPrivilege(s, env)
      [] s # Nothing /\ lab = "15" -> Verdict15(s, env)
      [] s # Nothing /\ lab = "16" -> Verdict16(s, env)
      [] s # Nothing /\ lab = "17" -> Verdict17(s, env)

\* The assurance case of labs 16 and 17: the controls OTHER-THAN-SATISFIED.
AssuranceCase(s, day) ==
    IF VerdictOn(s, day) \notin {"PASS", "FAIL"} THEN {}
    ELSE IF lab = "16" THEN Unsatisfied16(s, env)
    ELSE IF lab = "17" THEN Unsatisfied17(s, env)
    ELSE {}

AnswerOn(s, day) == [verdict |-> VerdictOn(s, day), unsatisfied |-> AssuranceCase(s, day)]

HasBucket == lab \in {"16", "17"} /\ env.bucket

Init ==
    /\ lab \in Labs
    /\ env \in Environments[lab]
    /\ stored = Nothing /\ judged = Nothing
    /\ now = Today
    /\ answer = NoAnswer
    /\ handovers = 0

Tick ==
    /\ now < Horizon
    /\ now' = now + 1
    /\ UNCHANGED <<lab, env, stored, judged, answer, handovers>>

\* CI replaces the object in the plan or descriptor bucket.
Upload(s) ==
    /\ HasBucket /\ handovers < MaxHandOvers
    /\ stored' = s
    /\ handovers' = handovers + 1
    /\ UNCHANGED <<lab, env, now, judged, answer>>

Respond(s) == answer' = AnswerOn(s, now) /\ judged' = s

\* The data is in the event, and goes before what is in the bucket.
RunEvent(s) ==
    /\ handovers < MaxHandOvers
    /\ Respond(s)
    /\ handovers' = handovers + 1
    /\ UNCHANGED <<lab, env, stored, now>>

\* Mutant: an object that was judged once is not loaded again.
RunScheduleCached ==
    /\ IF answer.verdict \in {"PASS", "FAIL"} THEN UNCHANGED <<judged, answer>> ELSE Respond(stored)
    /\ UNCHANGED <<lab, env, stored, now, handovers>>
\* The scheduled event names no data: what is in the bucket, if anything.
RunSchedule ==
    /\ Respond(stored)
    /\ UNCHANGED <<lab, env, stored, now, handovers>>

Next == Tick \/ RunSchedule \/ \E s \in Submissions[lab] : Upload(s) \/ RunEvent(s)

\* The schedule goes on asking for runs; nobody need hand over anything.
Fairness == WF_vars(RunSchedule)
Spec == Init /\ [][Next]_vars /\ Fairness

-----------------------------------------------------------------------------
(* What is no better: no row or head has got anything going for it that    *)
(* the one it replaces had not.  Rows may have been added.                 *)

WorseRaw(q, r) == r = "true" \/ q = r \/ (r # "false" /\ q = "false")

WorseRow(q, r) ==
    CASE lab = "02" -> q.label = r.label /\ \A c \in r.observed : \E d \in q.observed : d <= c
      [] lab = "03" -> q.created <= r.created /\ WorseRaw(q.rotates, r.rotates)
      [] lab = "12" ->
            /\ q.criticality \in {r.criticality, "mission_critical"}
            /\ q.rto <= r.rto /\ q.rpo <= r.rpo /\ q.frequency >= r.frequency
            /\ WorseRaw(q.locked, r.locked) /\ WorseRaw(q.cmk, r.cmk)
            /\ \A d \in q.tested : r.tested # {} /\ \A c \in r.tested : d <= c
            /\ q.success = r.success \/ Attested(r.success) \/ Denied(q.success)
            /\ \A c \in r.duration : \E d \in q.duration : d >= c
      [] lab = "13" ->
            /\ q.account = r.account /\ q.status = r.status
            /\ q.type = r.type /\ q.threePart = r.threePart
            /\ q.tags \subseteq r.tags
            /\ r.federal => q.federal
      [] lab = "14" ->
            /\ Attested(r.privileged) => Attested(q.privileged)
            /\ \A c \in r.days : \E d \in q.days : d >= c
      [] lab = "15" -> q.name = r.name /\ q.principal = r.principal /\ q.ticket \subseteq r.ticket
      [] lab = "16" ->
            /\ q.list = r.list /\ q.type = r.type /\ q.attributes = r.attributes
            /\ r.actions \subseteq q.actions
      [] lab = "17" ->
            /\ q.critical = r.critical /\ WorseRaw(q.replication, r.replication)
            /\ WorseRaw(q.pitr, r.pitr) /\ WorseRaw(q.backup, r.backup)

WorsePipeline(p, q) ==
    /\ {p, q} \intersect {Absent, Malformed} = {}
    /\ p.gates \subseteq q.gates
    /\ q.deployed => p.deployed
    /\ p.validated => q.validated
    /\ p.immutableCommit => q.immutableCommit

WorseBackend(b, c) ==
    \/ b.type = "local"
    \/ c.type # "local" /\ \A f \in BackendFlags : WorseRaw(b.flags[f], c.flags[f])

WorseHead(g, h) ==
    \/ g = h
    \/ /\ lab = "13" /\ {g.boundary, h.boundary} \intersect {Absent, Malformed} = {}
       /\ g.boundary.accounts \subseteq h.boundary.accounts
       /\ \/ h.boundary.services \in {{}, g.boundary.services}
          \/ g.boundary.services # {} /\ g.boundary.services \subseteq h.boundary.services
    \/ /\ lab = "15" /\ g.events = h.events
       /\ h.pipeline = Absent \/ WorsePipeline(g.pipeline, h.pipeline)
    \/ /\ lab = "17" /\ {g, h} \intersect {Malformed} = {}
       /\ WorseBackend(Backend(g), Backend(h))
       /\ g.primary = h.primary /\ g.recovery \in {{}, g.primary, h.recovery}
       /\ WorseRaw(g.failover, h.failover)
       /\ g.rto = h.rto /\ g.rpo = h.rpo

\* An entry of resource_drift makes the lab look away from resource_changes,
\* and a critical store is what lab 17 asks for.
SamePlace(t, s) ==
    CASE lab = "16" -> Drifted(t) # {} => Drifted(s) # {}
      [] lab = "17" -> CriticalStores(t) # {} => CriticalStores(s) # {}
      [] OTHER      -> TRUE

Worse(t, s) ==
    /\ Nothing \notin {t, s}
    /\ WorseHead(t.head, s.head)
    /\ SamePlace(t, s)
    /\ Malformed \in s.rows => Malformed \in t.rows
    /\ \A r \in s.rows \ {Malformed} : \E q \in t.rows \ {Malformed} : WorseRow(q, r)

-----------------------------------------------------------------------------
(* Properties.                                                             *)

TypeOK ==
    /\ lab \in Labs
    /\ env \in Environments[lab]
    /\ stored \in Submissions[lab] \union {Nothing} /\ judged \in Submissions[lab] \union {Nothing}
    /\ now \in Today..Horizon
    /\ answer \in [verdict: Verdicts, unsatisfied: SUBSET (Controls16 \union Controls17)]
                    \union {NoAnswer}
    /\ handovers \in 0..MaxHandOvers

\* Time heals nothing, and neither does data that is the same or worse than what
\* the answer before was about, in an event or in the bucket: what FAILed cannot
\* come to PASS by waiting, by adding rows, by leaving out a test, a gate, a tag
\* or a ticket, by narrowing the boundary or by giving up a protection.
WorseNeverHelps ==
    [][Worse(judged', judged) /\ answer.verdict = "FAIL" => answer'.verdict # "PASS"]_vars

\* What a change event claims of itself is recorded and decides nothing: lab 15
\* answers the same about submissions that differ in the claims only.
Unclaimed(s) == [s EXCEPT !.rows = {[c EXCEPT !.claimed = "unclear"] : c \in s.rows}]
SameButClaims(t, s) ==
    /\ lab = "15" /\ Nothing \notin {t, s}
    /\ WellFormed(t) /\ WellFormed(s)
    /\ Unclaimed(t) = Unclaimed(s)
ClaimsNeverDecide == [][SameButClaims(judged', judged) => answer'.verdict = answer.verdict]_vars

\* The assurance case says what the verdict says: labs 16 and 17 FAIL if and
\* only if some control comes out OTHER-THAN-SATISFIED.
AssuranceMatchesVerdict ==
    lab \in {"16", "17"} => (answer.verdict = "FAIL" <=> answer.unsatisfied # {})

\* Once the hand-overs end, the lab's last word is its schedule's, about what the
\* bucket holds at last and on the last day.  No verdict on an event outlives the
\* next scheduled run, no object judged before stays, and a lab with nothing to
\* judge passes or fails nothing: it errs, or (labs 02 and 03) sweeps.
AnswerCatchesUp ==
    <>[](/\ answer = AnswerOn(stored, now)
         /\ stored = Nothing => answer.verdict \notin {"PASS", "FAIL"})

\* As the specification of lab 16 has it (src/labs/16-terraform-drift-detection/
\* SPEC.md:27): a drift at or above FAIL_SEVERITY that is not expected FAILs.
UnexpectedDriftFails ==
    lab = "16" /\ judged # Nothing /\ answer.verdict = "PASS" =>
        \A e \in ExtractDrift(judged), a \in DOMAIN Alphabet :
            a \in e.attributes /\ ~IsIgnored(e, a, env) =>
                ~AtLeast(ClassifySeverity(e, a), env.failSeverity)
=============================================================================
