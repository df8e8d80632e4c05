---------------------------- MODULE Feeds_proofs ----------------------------
(***************************************************************************)
(* What labs 02, 03 and 12-17 make of a submission, for registers of any   *)
(* size, any environment and any number of days.                           *)
(***************************************************************************)
EXTENDS Feeds, TLAPS

-----------------------------------------------------------------------------
(* Types.                                                                  *)

LEMMA UnfedTypes == lab \in Labs => Unfed \in Verdicts
BY LabsAssumption DEF Unfed, Verdicts

LEMMA VerdictTypes ==
    ASSUME lab \in Labs, NEW s, NEW day
    PROVE  VerdictOn(s, day) \in Verdicts
<1>1. Verdict02(s, day) \in Verdicts /\ Verdict03(s, day) \in Verdicts
  BY DEF Verdict02, Verdict03, Judge, Verdicts
<1>2. Verdict12(s, env, day) \in Verdicts /\ Verdict13(s, env) \in Verdicts
  BY DEF Verdict12, Verdict13, Judge, Verdicts
<1>3. ReviewStandingPrivilege(s, env) \in Verdicts /\ Verdict15(s, env) \in Verdicts
  BY DEF ReviewStandingPrivilege, Verdict15, Judge, Verdicts
<1>4. Verdict16(s, env) \in Verdicts /\ Verdict17(s, env) \in Verdicts
  BY DEF Verdict16, Verdict17, Judge, Verdicts
<1> QED
  BY <1>1, <1>2, <1>3, <1>4, UnfedTypes, LabsAssumption DEF VerdictOn

LEMMA AnswerTypes ==
    ASSUME lab \in Labs, NEW s, NEW day
    PROVE  AnswerOn(s, day) \in [verdict: Verdicts, unsatisfied: SUBSET (Controls16 \union Controls17)]
<1>1. AssuranceCase(s, day) \in SUBSET (Controls16 \union Controls17)
  BY DEF AssuranceCase, Unsatisfied16, Unsatisfied17
<1> QED
  BY <1>1, VerdictTypes DEF AnswerOn

LEMMA InitTypes == Init => TypeOK
BY DaysAssumption, BoundsAssumption DEF Init, TypeOK

LEMMA NextTypes == TypeOK /\ [Next]_vars => TypeOK'
<1> SUFFICES ASSUME TypeOK, [Next]_vars PROVE TypeOK'
  OBVIOUS
<1>1. CASE Tick
  BY <1>1, DaysAssumption DEF Tick, TypeOK
<1>2. ASSUME NEW s \in Submissions[lab], Upload(s) PROVE TypeOK'
  BY <1>2, BoundsAssumption DEF Upload, TypeOK
<1>3. ASSUME NEW s \in Submissions[lab], RunEvent(s) PROVE TypeOK'
  <2>1. answer' \in [verdict: Verdicts, unsatisfied: SUBSET (Controls16 \union Controls17)]
    BY <1>3, AnswerTypes DEF RunEvent, Respond, TypeOK
  <2> QED
    BY <1>3, <2>1, BoundsAssumption DEF RunEvent, Respond, TypeOK
<1>4. CASE RunSchedule
  <2>1. answer' \in [verdict: Verdicts, unsatisfied: SUBSET (Controls16 \union Controls17)]
    BY <1>4, AnswerTypes DEF RunSchedule, Respond, TypeOK
  <2> QED
    BY <1>4, <2>1 DEF RunSchedule, Respond, TypeOK
<1>5. CASE UNCHANGED vars
  BY <1>5 DEF vars, TypeOK
<1> QED
  BY <1>1, <1>2, <1>3, <1>4, <1>5 DEF Next

\* The variables of Feeds keep their types, whatever the labs are handed.
THEOREM TypeCorrect == Spec => []TypeOK
<1> QED
  BY InitTypes, NextTypes, PTL DEF Spec

-----------------------------------------------------------------------------
(* The answer is about what was judged, on the day it was judged.          *)

AnswerInv == judged # Nothing => \E day \in Today..now : answer = AnswerOn(judged, day)

LEMMA StepAnswers ==
    ASSUME TypeOK, [Next]_vars
    PROVE  /\ lab' = lab /\ env' = env /\ now \in Today..now'
           /\ \/ judged' = judged /\ answer' = answer
              \/ answer' = AnswerOn(judged', now) /\ now' = now
<1>1. now \in Int /\ Today <= now /\ Today \in Int
  BY DaysAssumption DEF TypeOK
<1>2. CASE Tick
  BY <1>1, <1>2 DEF Tick
<1>3. ASSUME NEW s \in Submissions[lab], Upload(s)
      PROVE  lab' = lab /\ env' = env /\ now' = now /\ judged' = judged /\ answer' = answer
  BY <1>3 DEF Upload
<1>4. ASSUME NEW s \in Submissions[lab], RunEvent(s)
      PROVE  lab' = lab /\ env' = env /\ now' = now /\ answer' = AnswerOn(judged', now)
  BY <1>4 DEF RunEvent, Respond
<1>5. CASE RunSchedule
  BY <1>1, <1>5 DEF RunSchedule, Respond
<1>6. CASE UNCHANGED vars
  BY <1>1, <1>6 DEF vars
<1> QED
  BY <1>1, <1>2, <1>3, <1>4, <1>5, <1>6 DEF Next

LEMMA InitAnswer == Init => AnswerInv
BY DEF Init, AnswerInv

LEMMA SameAnswer ==
    ASSUME lab' = lab, env' = env, NEW CONSTANT day
    PROVE  AnswerOn(judged, day)' = AnswerOn(judged', day)
<1>1. Unfed' = Unfed
  BY DEF Unfed
<1>2. VerdictOn(judged, day)' = VerdictOn(judged', day)
  BY <1>1 DEF VerdictOn
<1>3. AssuranceCase(judged, day)' = AssuranceCase(judged', day)
  BY <1>2 DEF AssuranceCase
<1> QED
  BY <1>2, <1>3 DEF AnswerOn

LEMMA NextAnswer == TypeOK /\ AnswerInv /\ [Next]_vars => AnswerInv'
<1> SUFFICES ASSUME TypeOK, AnswerInv, [Next]_vars, judged' # Nothing
             PROVE  \E day \in Today..now' : AnswerOn(judged, day)' = answer'
  BY DEF AnswerInv
<1>1. /\ lab' = lab /\ env' = env /\ now \in Today..now'
      /\ \/ judged' = judged /\ answer' = answer
         \/ answer' = AnswerOn(judged', now)
  BY StepAnswers
<1>2. \A day : AnswerOn(judged, day)' = AnswerOn(judged', day)
  BY <1>1, SameAnswer
<1>3. \E day \in Today..now' : answer' = AnswerOn(judged', day)
  <2>1. CASE answer' = AnswerOn(judged', now)
    BY <1>1, <2>1
  <2>2. CASE judged' = judged /\ answer' = answer
    <3>1. PICK day \in Today..now : answer = AnswerOn(judged, day)
      BY <2>2 DEF AnswerInv
    <3>2. day \in Today..now'
      BY <1>1, DaysAssumption, NextTypes DEF TypeOK
    <3> QED
      BY <2>2, <3>1, <3>2
  <2> QED
    BY <1>1, <2>1, <2>2
<1> QED
  BY <1>2, <1>3

-----------------------------------------------------------------------------
(* The verdict and the assurance case.                                     *)

LEMMA FindingControls ==
    ASSUME NEW s, NEW e, NEW f \in Findings17(s, e)
    PROVE  f.control \in Controls17
<1>1. CASE f \in EvaluateBackend(Backend(s.head))
  BY <1>1 DEF EvaluateBackend, Finding, Controls17
<1>2. CASE f \in EvaluateArchitecture(s)
  BY <1>2 DEF EvaluateArchitecture, Finding, Controls17
<1>3. CASE f \in EvaluateObjectives(s.head, e)
  BY <1>3 DEF EvaluateObjectives, EvaluateObjective, Finding, Controls17
<1> QED
  BY <1>1, <1>2, <1>3 DEF Findings17

LEMMA AnswerMatches ==
    ASSUME NEW s, NEW day, lab \in {"16", "17"}
    PROVE  AnswerOn(s, day).verdict = "FAIL" <=> AnswerOn(s, day).unsatisfied # {}
<1>1. VerdictOn(s, day) = "FAIL" => s # Nothing
  BY DEF VerdictOn, Unfed
<1>2. CASE lab = "16"
  <2>1. s # Nothing => VerdictOn(s, day) = Verdict16(s, env)
    BY <1>2 DEF VerdictOn
  <2>2. Unsatisfied16(s, env) = IF Verdict16(s, env) = "PASS" THEN {} ELSE Controls16
    BY DEF Unsatisfied16
  <2>3. Controls16 # {}
    BY DEF Controls16
  <2>4. s = Nothing => VerdictOn(s, day) \notin {"PASS", "FAIL"}
    BY <1>2 DEF VerdictOn, Unfed
  <2> QED
    BY <1>2, <2>1, <2>2, <2>3, <2>4 DEF AnswerOn, AssuranceCase
<1>3. CASE lab = "17"
  <2>1. s # Nothing => VerdictOn(s, day) = Verdict17(s, env)
    BY <1>3 DEF VerdictOn
  <2>2. Verdict17(s, env) = "FAIL" => Unsatisfied17(s, env) # {}
    <3> SUFFICES ASSUME Verdict17(s, env) = "FAIL" PROVE Unsatisfied17(s, env) # {}
      OBVIOUS
    <3>1. PICK f : f \in Actionable17(s, env)
      BY DEF Verdict17, Judge
    <3>2. f.control \in Controls17
      BY <3>1, FindingControls DEF Actionable17
    <3> QED
      BY <3>1, <3>2 DEF Unsatisfied17
  <2>3. Verdict17(s, env) = "PASS" => Unsatisfied17(s, env) = {}
    BY DEF Verdict17, Judge, Unsatisfied17
  <2>4. s = Nothing => VerdictOn(s, day) \notin {"PASS", "FAIL"}
    BY <1>3 DEF VerdictOn, Unfed
  <2> QED
    BY <1>3, <2>1, <2>2, <2>3, <2>4 DEF AnswerOn, AssuranceCase
<1> QED
  BY <1>2, <1>3

\* Labs 16 and 17 FAIL if and only if a control of the assurance case is
\* OTHER-THAN-SATISFIED, for every plan, descriptor and environment.
THEOREM AssuranceMatches == Spec => []AssuranceMatchesVerdict
<1>1. Init => AssuranceMatchesVerdict
  BY DEF Init, AssuranceMatchesVerdict, NoAnswer
<1>2. TypeOK /\ AssuranceMatchesVerdict /\ [Next]_vars => AssuranceMatchesVerdict'
  <2> SUFFICES ASSUME TypeOK, AssuranceMatchesVerdict, [Next]_vars, lab' \in {"16", "17"}
               PROVE  (answer.verdict = "FAIL" <=> answer.unsatisfied # {})'
    BY DEF AssuranceMatchesVerdict
  <2>1. lab \in {"16", "17"} /\ (answer' = answer \/ answer' = AnswerOn(judged', now))
    BY StepAnswers
  <2>2. CASE answer' = AnswerOn(judged', now)
    BY <2>1, <2>2, AnswerMatches
  <2> QED
    BY <2>1, <2>2 DEF AssuranceMatchesVerdict
<1> QED
  BY <1>1, <1>2, InitTypes, NextTypes, PTL DEF Spec

-----------------------------------------------------------------------------
(* What an event claims of itself.                                         *)

LEMMA ClaimsOfEvents ==
    ASSUME NEW c \in ChangeEvent, NEW d \in ChangeEvent, NEW e,
           [c EXCEPT !.claimed = "unclear"] = [d EXCEPT !.claimed = "unclear"]
    PROVE  EvaluateChangeEvent(c, e) = EvaluateChangeEvent(d, e)
<1>1. c.name = d.name /\ c.principal = d.principal /\ c.ticket = d.ticket
  BY DEF ChangeEvent
<1> QED
  BY <1>1 DEF EvaluateChangeEvent, ViaPipeline

LEMMA ClaimsOfSubmissions ==
    ASSUME "15" \in Labs, NEW s \in Submissions["15"], NEW t \in Submissions["15"], NEW e,
           WellFormed(s), WellFormed(t), Unclaimed(t) = Unclaimed(s)
    PROVE  Verdict15(t, e) = Verdict15(s, e)
<1>1. s \in [rows: SUBSET Rows["15"], head: Heads["15"]] /\ t \in [rows: SUBSET Rows["15"], head: Heads["15"]]
  BY DEF Submissions
<1> DEFINE blank(u) == {[c EXCEPT !.claimed = "unclear"] : c \in u.rows}
<1>2. s.rows \subseteq ChangeEvent /\ t.rows \subseteq ChangeEvent
  <2>1. Rows["15"] \ {Malformed} \subseteq ChangeEvent
    BY RowsAssumption
  <2> QED
    BY <1>1, <2>1 DEF WellFormed
<1>3. t.head = s.head /\ blank(t) = blank(s)
  <2>1. Unclaimed(t).head = t.head /\ Unclaimed(s).head = s.head
    BY <1>1 DEF Unclaimed
  <2>2. Unclaimed(t).rows = blank(t) /\ Unclaimed(s).rows = blank(s)
    BY <1>1 DEF Unclaimed
  <2> QED
    BY <2>1, <2>2
<1>4. ASSUME NEW u \in {s, t}, NEW v \in {s, t}, \E c \in u.rows : EvaluateChangeEvent(c, e) = "FAIL"
      PROVE  \E c \in v.rows : EvaluateChangeEvent(c, e) = "FAIL"
  <2>1. PICK c \in u.rows : EvaluateChangeEvent(c, e) = "FAIL"
    BY <1>4
  <2>2. [c EXCEPT !.claimed = "unclear"] \in blank(v)
    <3>1. [c EXCEPT !.claimed = "unclear"] \in blank(u)
      OBVIOUS
    <3> HIDE DEF blank
    <3> QED
      BY <1>3, <3>1
  <2>3. PICK d \in v.rows : [c EXCEPT !.claimed = "unclear"] = [d EXCEPT !.claimed = "unclear"]
    BY <2>2
  <2> HIDE DEF blank
  <2>4. EvaluateChangeEvent(c, e) = EvaluateChangeEvent(d, e)
    <3>1. c \in ChangeEvent /\ d \in ChangeEvent
      BY <1>2
    <3> QED
      BY <2>3, <3>1, ClaimsOfEvents
  <2> QED
    BY <2>1, <2>4
<1>5. (\E c \in t.rows : EvaluateChangeEvent(c, e) = "FAIL")
        <=> (\E c \in s.rows : EvaluateChangeEvent(c, e) = "FAIL")
  BY <1>4
<1> HIDE DEF blank
<1> QED
  BY <1>3, <1>5 DEF Verdict15, ChangeEvents, WellFormed

\* What a change event claims of its own origin decides nothing in lab 15,
\* whatever the other rows, the pipeline and the environment are.
THEOREM ClaimsDecideNothing == Spec => ClaimsNeverDecide
<1>1. TypeOK /\ AnswerInv /\ [Next]_vars =>
        (SameButClaims(judged', judged) => answer'.verdict = answer.verdict)
  <2> SUFFICES ASSUME TypeOK, AnswerInv, [Next]_vars, SameButClaims(judged', judged)
               PROVE  answer'.verdict = answer.verdict
    OBVIOUS
  <2>1. lab = "15" /\ judged # Nothing /\ judged' # Nothing
    BY DEF SameButClaims
  <2>2. judged \in Submissions["15"] /\ judged' \in Submissions["15"] /\ "15" \in Labs
    BY <2>1, NextTypes, StepAnswers DEF TypeOK
  <2>3. Verdict15(judged', env) = Verdict15(judged, env)
    BY <2>2, ClaimsOfSubmissions DEF SameButClaims
  <2>4. PICK day : answer = AnswerOn(judged, day)
    BY <2>1 DEF AnswerInv
  <2>5. answer.verdict = Verdict15(judged, env)
    BY <2>1, <2>4 DEF AnswerOn, VerdictOn
  <2>6. CASE answer' = AnswerOn(judged', now)
    <3>1. answer'.verdict = Verdict15(judged', env)
      BY <2>1, <2>6 DEF AnswerOn, VerdictOn
    <3> QED
      BY <2>3, <2>5, <3>1
  <2> QED
    BY <2>6, StepAnswers
<1> QED
  BY <1>1, InitTypes, NextTypes, InitAnswer, NextAnswer, PTL DEF Spec, ClaimsNeverDecide

-----------------------------------------------------------------------------
(* Worse submissions: what makes a row fail makes a worse one fail, on the *)
(* same day or later.                                                      *)

LEMMA WorseRaws ==
    ASSUME NEW q, NEW r, WorseRaw(q, r)
    PROVE  /\ Attested(q) => Attested(r)
           /\ Denied(r) => Denied(q)
           /\ Truthy(q) => Truthy(r)
BY DEF WorseRaw, Attested, Denied, Truthy

LEMMA Rowwise ==
    ASSUME lab \in Labs, NEW s \in Submissions[lab], NEW t \in Submissions[lab], Worse(t, s)
    PROVE  /\ s.rows \subseteq Rows[lab] /\ t.rows \subseteq Rows[lab]
           /\ WellFormed(t) => WellFormed(s)
           /\ WellFormed(s) => \A r \in s.rows : \E q \in t.rows \ {Malformed} : WorseRow(q, r)
           /\ WorseHead(t.head, s.head) /\ SamePlace(t, s)
BY DEF Submissions, Worse, WellFormed

LEMMA Worse02 ==
    ASSUME lab = "02", "02" \in Labs, NEW s \in Submissions[lab], NEW t \in Submissions[lab],
           Worse(t, s), NEW n \in Nat, NEW m \in Nat, n <= m, Verdict02(s, n) = "FAIL"
    PROVE  Verdict02(t, m) # "PASS"
<1>1. WellFormed(s) /\ \E r \in s.rows : Breached(r, n)
  BY DEF Verdict02, Judge
<1>2. PICK r \in s.rows : Breached(r, n)
  BY <1>1
<1>3. PICK q \in t.rows \ {Malformed} : WorseRow(q, r)
  BY <1>1, Rowwise
<1>4. q \in [label: STRING, observed: SUBSET Int] /\ r \in [label: STRING, observed: SUBSET Int]
  <2>1. q \in Rows["02"] \ {Malformed} /\ r \in Rows["02"] \ {Malformed}
    BY <1>1, Rowwise DEF WellFormed
  <2> QED
    BY <2>1, RowsAssumption
<1>5. SlaDays[Classify(r.label)] \in Nat
  BY DEF SlaDays, Classify, NLevel
<1>6. q.label = r.label /\ \A c \in r.observed : \E d \in q.observed : d <= c
  BY <1>3 DEF WorseRow
<1>7. Breached(q, m)
  <2>1. PICK c \in r.observed : n > c + SlaDays[Classify(r.label)]
    BY <1>2 DEF Breached
  <2>2. PICK d \in q.observed : d <= c
    BY <1>6
  <2>3. c \in Int /\ d \in Int
    BY <1>4
  <2>4. m > d + SlaDays[Classify(q.label)]
    BY <1>5, <1>6, <2>1, <2>2, <2>3
  <2> QED
    BY <2>4 DEF Breached
<1> QED
  BY <1>7 DEF Verdict02, Judge

LEMMA Worse03 ==
    ASSUME lab = "03", "03" \in Labs, NEW s \in Submissions[lab], NEW t \in Submissions[lab],
           Worse(t, s), NEW n \in Nat, NEW m \in Nat, n <= m, Verdict03(s, n) = "FAIL"
    PROVE  Verdict03(t, m) # "PASS"
<1>1. WellFormed(s) /\ \E r \in s.rows : Stale(r, n)
  BY DEF Verdict03, Judge
<1>2. PICK r \in s.rows : Stale(r, n)
  BY <1>1
<1>3. PICK q \in t.rows \ {Malformed} : WorseRow(q, r)
  BY <1>1, Rowwise
<1>4. q.created \in Int /\ r.created \in Int
  <2>1. q \in Rows["03"] \ {Malformed} /\ r \in Rows["03"] \ {Malformed}
    BY <1>1, Rowwise DEF WellFormed
  <2> QED
    BY <2>1, RowsAssumption
<1>5. q.created <= r.created /\ WorseRaw(q.rotates, r.rotates)
  BY <1>3 DEF WorseRow
<1>6. Denied(r.rotates) => Denied(q.rotates)
  BY <1>5, WorseRaws
<1>7. Stale(q, m)
  BY <1>2, <1>4, <1>5, <1>6, AgeAssumption DEF Stale
<1> QED
  BY <1>7 DEF Verdict03, Judge

LEMMA Worse14 ==
    ASSUME lab = "14", "14" \in Labs, NEW s \in Submissions[lab], NEW t \in Submissions[lab],
           Worse(t, s), NEW e \in Environments[lab], ReviewStandingPrivilege(s, e) = "FAIL"
    PROVE  ReviewStandingPrivilege(t, e) # "PASS"
<1>1. WellFormed(s) /\ \E r \in s.rows : Standing(r, e)
  BY DEF ReviewStandingPrivilege, Judge
<1>2. PICK r \in s.rows : Standing(r, e)
  BY <1>1
<1>3. PICK q \in t.rows \ {Malformed} : WorseRow(q, r)
  BY <1>1, Rowwise
<1>4. q.days \subseteq Int /\ r.days \subseteq Int /\ e.maxStandingDays \in Int
  <2>1. q \in Rows["14"] \ {Malformed} /\ r \in Rows["14"] \ {Malformed}
    BY <1>1, Rowwise DEF WellFormed
  <2> QED
    BY <2>1, RowsAssumption
<1>5. /\ Attested(r.privileged) => Attested(q.privileged)
      /\ \A c \in r.days : \E d \in q.days : d >= c
  BY <1>3 DEF WorseRow
<1>6. PICK c \in r.days : c > e.maxStandingDays
  BY <1>2 DEF Standing
<1>7. PICK d \in q.days : d >= c
  BY <1>5
<1>8. d > e.maxStandingDays
  BY <1>4, <1>6, <1>7
<1>9. Standing(q, e)
  BY <1>2, <1>5, <1>8 DEF Standing
<1> QED
  BY <1>9 DEF ReviewStandingPrivilege, Judge

LEMMA WorseObjectives ==
    ASSUME lab = "12", NEW q \in RecoveryObjective, NEW r \in RecoveryObjective, WorseRow(q, r), NEW e,
           NEW n \in Nat, NEW m \in Nat, n <= m, EvaluateAsset(r, e, n) = "FAIL"
    PROVE  EvaluateAsset(q, e, m) = "FAIL"
<1>1. /\ q.criticality \in {r.criticality, "mission_critical"}
      /\ q.rto <= r.rto /\ q.rpo <= r.rpo /\ q.frequency >= r.frequency
      /\ WorseRaw(q.locked, r.locked) /\ WorseRaw(q.cmk, r.cmk)
      /\ \A d \in q.tested : r.tested # {} /\ \A c \in r.tested : d <= c
      /\ q.success = r.success \/ Attested(r.success) \/ Denied(q.success)
      /\ \A c \in r.duration : \E d \in q.duration : d >= c
  BY DEF WorseRow
<1>2. /\ q.rto \in Int /\ q.rpo \in Int /\ q.frequency \in Int
      /\ q.tested \subseteq Int /\ q.duration \subseteq Int
      /\ r.rto \in Int /\ r.rpo \in Int /\ r.frequency \in Int
      /\ r.tested \subseteq Int /\ r.duration \subseteq Int
  BY DEF RecoveryObjective
<1>3. CASE r.frequency > r.rpo
  <2>1. q.frequency > q.rpo
    BY <1>1, <1>2, <1>3
  <2> QED
    BY <2>1 DEF EvaluateAsset, Judge
<1>4. CASE (e.requireCmk /\ ~Attested(r.cmk)) \/ (e.requireVaultLock /\ ~Attested(r.locked))
  BY <1>1, <1>4, WorseRaws DEF EvaluateAsset, Judge
<1>5. CASE Undrilled(r, n)
  <2> SUFFICES Undrilled(q, m)
    BY DEF EvaluateAsset, Judge
  <2>1. CASE r.tested = {}
    BY <1>1, <2>1 DEF Undrilled
  <2>2. CASE Denied(r.success)
    BY <1>1, <2>2 DEF Undrilled, Attested, Denied
  <2>3. CASE ~Attested(r.success) /\ r.criticality = "mission_critical"
    BY <1>1, <2>3 DEF Undrilled, Attested, Denied
  <2>4. CASE \E c \in r.duration : c > r.rto
    <3>1. PICK c \in r.duration : c > r.rto
      BY <2>4
    <3>2. PICK d \in q.duration : d >= c
      BY <1>1
    <3>3. d > q.rto
      BY <1>1, <1>2, <3>1, <3>2
    <3> QED
      BY <3>3 DEF Undrilled
  <2>5. CASE r.criticality = "mission_critical" /\ \E c \in r.tested : n > c + MaxTestAge
    <3>1. PICK c \in r.tested : n > c + MaxTestAge
      BY <2>5
    <3>2. CASE q.tested = {}
      BY <3>2 DEF Undrilled
    <3>3. CASE q.tested # {}
      <4>1. PICK d \in q.tested : d <= c
        BY <1>1, <3>3
      <4>2. m > d + MaxTestAge
        BY <1>2, <3>1, <4>1 DEF MaxTestAge
      <4> QED
        BY <1>1, <2>5, <4>2 DEF Undrilled
    <3> QED
      BY <3>2, <3>3
  <2> QED
    BY <1>5, <2>1, <2>2, <2>3, <2>4, <2>5 DEF Undrilled
<1> QED
  BY <1>3, <1>4, <1>5 DEF EvaluateAsset, Judge

LEMMA Worse12 ==
    ASSUME lab = "12", "12" \in Labs, NEW s \in Submissions[lab], NEW t \in Submissions[lab],
           Worse(t, s), NEW e, NEW n \in Nat, NEW m \in Nat, n <= m, Verdict12(s, e, n) = "FAIL"
    PROVE  Verdict12(t, e, m) # "PASS"
<1>1. WellFormed(s) /\ \E r \in s.rows : EvaluateAsset(r, e, n) = "FAIL"
  <2>1. \A r \in s.rows : EvaluateAsset(r, e, n) \in {"PASS", "FAIL"}
    BY DEF EvaluateAsset, Judge
  <2> QED
    BY <2>1 DEF Verdict12, Judge, Aligned, Covered
<1>2. PICK r \in s.rows : EvaluateAsset(r, e, n) = "FAIL"
  BY <1>1
<1>3. PICK q \in t.rows \ {Malformed} : WorseRow(q, r)
  BY <1>1, Rowwise
<1>4. q \in RecoveryObjective /\ r \in RecoveryObjective
  <2>1. q \in Rows["12"] \ {Malformed} /\ r \in Rows["12"] \ {Malformed}
    BY <1>1, Rowwise DEF WellFormed
  <2> QED
    BY <2>1, RowsAssumption
<1>5. EvaluateAsset(q, e, m) = "FAIL"
  BY <1>2, <1>3, <1>4, WorseObjectives
<1> QED
  BY <1>5 DEF Verdict12, Judge

LEMMA Worse13 ==
    ASSUME lab = "13", "13" \in Labs, NEW s \in Submissions[lab], NEW t \in Submissions[lab],
           Worse(t, s), NEW e, Verdict13(s, e) = "FAIL"
    PROVE  Verdict13(t, e) # "PASS"
<1> DEFINE b == Boundary(s, e)
           c == Boundary(t, e)
<1>1. WellFormed(s) /\ \E r \in s.rows : Issue(r, b, e)
  BY DEF Verdict13, Judge
<1>2. PICK r \in s.rows : Issue(r, b, e)
  BY <1>1
<1>3. PICK q \in t.rows \ {Malformed} : WorseRow(q, r)
  BY <1>1, Rowwise
<1>4. /\ q.account = r.account /\ q.status = r.status
      /\ q.type = r.type /\ q.threePart = r.threePart
      /\ q.tags \subseteq r.tags
      /\ r.federal => q.federal
  BY <1>3 DEF WorseRow
<1>5. /\ c.accounts \subseteq b.accounts
      /\ b.services \in {{}, c.services} \/ (c.services # {} /\ c.services \subseteq b.services)
  BY Rowwise DEF WorseHead, Boundary
<1> SUFFICES Issue(q, c, e)
  BY DEF Verdict13, Judge
<1> HIDE DEF b, c
<1>6. CASE Classification(r, b) \in {"out_of_boundary", "unknown"}
  <2>1. Classification(q, c) \in {"out_of_boundary", "unknown"}
    BY <1>4, <1>5, <1>6 DEF Classification
  <2> QED
    BY <2>1 DEF Issue
<1>7. CASE r.federal /\ \E tag \in e.requiredTags : ~HasTag(r, tag)
  <2>1. \A tag : ~HasTag(r, tag) => ~HasTag(q, tag)
    BY <1>4 DEF HasTag
  <2> QED
    BY <1>4, <1>7, <2>1 DEF Issue
<1>8. CASE /\ r.federal /\ Classification(r, b) = "in_boundary"
           /\ r.threePart /\ b.services # {} /\ r.type \notin b.services
  <2>1. Classification(q, c) \in {"out_of_boundary", "in_boundary"}
    BY <1>4, <1>5, <1>8 DEF Classification
  <2>2. c.services # {} /\ q.type \notin c.services
    BY <1>4, <1>5, <1>8
  <2> QED
    BY <1>4, <1>8, <2>1, <2>2 DEF Issue
<1> QED
  BY <1>2, <1>6, <1>7, <1>8 DEF Issue

LEMMA Worse15 ==
    ASSUME lab = "15", "15" \in Labs, NEW s \in Submissions[lab], NEW t \in Submissions[lab],
           Worse(t, s), NEW e, Verdict15(s, e) = "FAIL"
    PROVE  Verdict15(t, e) # "PASS"
<1>1. /\ s.head.events # "no list" /\ Malformed \notin ChangeEvents(s) /\ s.head.pipeline # Malformed
      /\ \/ \E r \in ChangeEvents(s) : EvaluateChangeEvent(r, e) = "FAIL"
         \/ s.head.pipeline # Absent /\ EvaluatePipeline(s.head.pipeline) = "FAIL"
  BY DEF Verdict15, Judge
<1>2. \/ t.head = s.head
      \/ /\ t.head.events = s.head.events
         /\ s.head.pipeline = Absent \/ WorsePipeline(t.head.pipeline, s.head.pipeline)
  BY Rowwise DEF WorseHead
<1>3. ASSUME NEW r \in ChangeEvents(s), EvaluateChangeEvent(r, e) = "FAIL"
      PROVE  \E q \in ChangeEvents(t) : EvaluateChangeEvent(q, e) = "FAIL"
  <2>1. s.head.events = "list" /\ t.head.events = "list" /\ r \in s.rows
    BY <1>2, <1>3 DEF ChangeEvents
  <2>2. WellFormed(s)
    BY <1>1, <2>1 DEF ChangeEvents, WellFormed
  <2>3. PICK q \in t.rows \ {Malformed} : WorseRow(q, r)
    BY <2>1, <2>2, Rowwise
  <2>4. q.name = r.name /\ q.principal = r.principal /\ q.ticket \subseteq r.ticket
    BY <2>3 DEF WorseRow
  <2>5. EvaluateChangeEvent(q, e) = "FAIL"
    BY <1>3, <2>4 DEF EvaluateChangeEvent, ViaPipeline, Judge
  <2> QED
    BY <2>1, <2>5 DEF ChangeEvents
<1>4. CASE s.head.pipeline # Absent /\ EvaluatePipeline(s.head.pipeline) = "FAIL"
  <2>1. t.head.pipeline # Absent /\ EvaluatePipeline(t.head.pipeline) = "FAIL"
    BY <1>2, <1>4 DEF WorsePipeline, EvaluatePipeline, Judge
  <2> QED
    BY <2>1 DEF Verdict15, Judge
<1>5. CASE \E r \in ChangeEvents(s) : EvaluateChangeEvent(r, e) = "FAIL"
  BY <1>3, <1>5 DEF Verdict15, Judge
<1> QED
  BY <1>1, <1>4, <1>5

LEMMA WorseDrift ==
    ASSUME lab = "16", NEW q, NEW r, WorseRow(q, r), NEW e, Configured16(e), Grave(r, e)
    PROVE  Grave(q, e)
<1>1. q.type = r.type /\ q.attributes = r.attributes /\ r.actions \subseteq q.actions
  BY DEF WorseRow
<1>2. PICK a \in Attributes(r) : AtLeast(ClassifySeverity(r, a), e.failSeverity)
  BY DEF Grave
<1>3. e.failSeverity \in {"low", "medium", "high", "critical"}
  BY DEF Configured16, SeverityOrder
<1>4. \/ ClassifySeverity(q, a) = ClassifySeverity(r, a)
      \/ ClassifySeverity(q, a) = "high" /\ ClassifySeverity(r, a) # "critical"
  BY <1>1 DEF ClassifySeverity, DriftActions
<1>5. ClassifySeverity(r, a) \in {"low", "medium", "high", "critical"}
  BY DEF ClassifySeverity
<1>6. AtLeast(ClassifySeverity(q, a), e.failSeverity)
  BY <1>2, <1>3, <1>4, <1>5 DEF AtLeast, SeverityOrder
<1> QED
  BY <1>1, <1>2, <1>6 DEF Grave, Attributes

LEMMA Worse16 ==
    ASSUME lab = "16", "16" \in Labs, NEW s \in Submissions[lab], NEW t \in Submissions[lab],
           Worse(t, s), NEW e, Verdict16(s, e) = "FAIL"
    PROVE  Verdict16(t, e) # "PASS"
<1>1. Configured16(e) /\ WellFormed(s) /\ ActionableDrift(s, e) # {}
  BY DEF Verdict16, Judge
<1>2. PICK r \in ExtractDrift(s) : ~Expected(r, e) /\ Grave(r, e)
  BY <1>1 DEF ActionableDrift
<1>3. r \in s.rows
  BY <1>2 DEF ExtractDrift, Drifted
<1>4. PICK q \in t.rows \ {Malformed} : WorseRow(q, r)
  BY <1>1, <1>3, Rowwise
<1>5. /\ q.list = r.list /\ q.type = r.type /\ q.attributes = r.attributes
      /\ r.actions \subseteq q.actions
  BY <1>4 DEF WorseRow
<1>6. q \in ExtractDrift(t)
  <2>1. CASE Drifted(s) # {}
    <3>1. q \in Drifted(t)
      BY <1>2, <1>4, <1>5, <2>1 DEF ExtractDrift, Drifted
    <3> QED
      BY <3>1 DEF ExtractDrift
  <2>2. CASE Drifted(s) = {}
    <3>1. Drifted(t) = {}
      BY <2>2, Rowwise DEF SamePlace
    <3>2. DriftActions(r) # {}
      BY <1>2, <2>2 DEF ExtractDrift
    <3>3. DriftActions(q) # {}
      BY <1>5, <3>2 DEF DriftActions
    <3> QED
      BY <1>4, <3>1, <3>3 DEF ExtractDrift
  <2> QED
    BY <2>1, <2>2
<1>7. ~Expected(q, e)
  BY <1>2, <1>5 DEF Expected, IsIgnored, Primary
<1>8. Grave(q, e)
  BY <1>1, <1>2, <1>4, WorseDrift
<1> QED
  BY <1>6, <1>7, <1>8 DEF Verdict16, ActionableDrift, Judge

LEMMA WorseBackends ==
    ASSUME NEW b, NEW c, WorseBackend(b, c), NEW f \in EvaluateBackend(c)
    PROVE  \E g \in EvaluateBackend(b) : g.severity \in {f.severity, "critical"}
<1>1. CASE b.type = "local"
  <2>1. Finding("state-backend-local", "critical", "CFG-01") \in EvaluateBackend(b)
    BY <1>1 DEF EvaluateBackend
  <2>2. Finding("state-backend-local", "critical", "CFG-01").severity = "critical"
    BY DEF Finding
  <2> QED
    BY <2>1, <2>2
<1>2. CASE b.type # "local"
  <2>1. c.type # "local" /\ \A flag \in BackendFlags : WorseRaw(b.flags[flag], c.flags[flag])
    BY <1>2 DEF WorseBackend
  <2>2. PICK flag \in BackendFlags : ~Truthy(c.flags[flag]) /\ f = Finding(flag, "high", "CFG-01")
    BY <2>1 DEF EvaluateBackend
  <2>3. ~Truthy(b.flags[flag])
    BY <2>1, <2>2, WorseRaws
  <2>4. f \in EvaluateBackend(b)
    BY <1>2, <2>2, <2>3 DEF EvaluateBackend
  <2> QED
    BY <2>4
<1> QED
  BY <1>1, <1>2

LEMMA WorseArchitecture ==
    ASSUME lab = "17", "17" \in Labs, NEW s \in Submissions[lab], NEW t \in Submissions[lab],
           Worse(t, s), WellFormed(s), s.head # Malformed, t.head # Malformed,
           NEW f \in EvaluateArchitecture(s)
    PROVE  f \in EvaluateArchitecture(t)
<1>1. \/ t.head = s.head
      \/ /\ t.head.primary = s.head.primary
         /\ t.head.recovery \in {{}, t.head.primary, s.head.recovery}
         /\ WorseRaw(t.head.failover, s.head.failover)
         /\ t.head.rto = s.head.rto
  BY Rowwise DEF WorseHead
<1>2. CASE f = Finding("recovery-region", "high", "BCD-12") /\ s.head.recovery \subseteq s.head.primary
  <2>1. t.head.recovery \subseteq t.head.primary
    BY <1>1, <1>2
  <2> QED
    BY <1>2, <2>1 DEF EvaluateArchitecture
<1>3. CASE /\ f = Finding("no-critical-stores-identified", "medium", "BCD-02")
           /\ CriticalStores(s) = {}
  <2>1. CriticalStores(t) = {}
    BY <1>3, Rowwise DEF SamePlace
  <2> QED
    BY <1>3, <2>1 DEF EvaluateArchitecture
<1>4. CASE /\ f = Finding("store-not-cross-region-durable", "critical", "BCD-11")
           /\ \E r \in CriticalStores(s) : ~IsDurable(r)
  <2>1. PICK r \in CriticalStores(s) : ~IsDurable(r)
    BY <1>4
  <2>2. PICK q \in t.rows \ {Malformed} : WorseRow(q, r)
    BY <2>1, Rowwise DEF CriticalStores
  <2>3. /\ q.critical = r.critical /\ WorseRaw(q.replication, r.replication)
        /\ WorseRaw(q.pitr, r.pitr) /\ WorseRaw(q.backup, r.backup)
    BY <2>2 DEF WorseRow
  <2>4. q \in CriticalStores(t)
    BY <2>1, <2>2, <2>3 DEF CriticalStores
  <2>5. ~IsDurable(q)
    BY <2>1, <2>3, WorseRaws DEF IsDurable
  <2> QED
    BY <1>4, <2>4, <2>5 DEF EvaluateArchitecture
<1>5. CASE /\ f = Finding("no-failover-routing",
                          IF LongerThanAnHour(s.head.rto) THEN "medium" ELSE "high", "BCD-12")
           /\ ~Truthy(s.head.failover)
  <2>1. ~Truthy(t.head.failover) /\ t.head.rto = s.head.rto
    BY <1>1, <1>5, WorseRaws
  <2> QED
    BY <1>5, <2>1 DEF EvaluateArchitecture
<1> QED
  BY <1>2, <1>3, <1>4, <1>5 DEF EvaluateArchitecture

LEMMA Worse17 ==
    ASSUME lab = "17", "17" \in Labs, NEW s \in Submissions[lab], NEW t \in Submissions[lab],
           Worse(t, s), NEW e, Verdict17(s, e) = "FAIL"
    PROVE  Verdict17(t, e) # "PASS"
<1> SUFFICES ASSUME t.head # Malformed PROVE Actionable17(t, e) # {}
  BY DEF Verdict17, Judge
<1>1. /\ Configured17(e) /\ WellFormed(s) /\ s.head # Malformed
      /\ \E f \in Findings17(s, e) : AtLeast(f.severity, e.failSeverity)
  BY DEF Verdict17, Judge, Actionable17
<1>2. PICK f \in Findings17(s, e) : AtLeast(f.severity, e.failSeverity)
  BY <1>1
<1>3. CASE f \in EvaluateBackend(Backend(s.head))
  <2>1. PICK g \in EvaluateBackend(Backend(t.head)) : g.severity \in {f.severity, "critical"}
    <3>1. t.head = s.head \/ WorseBackend(Backend(t.head), Backend(s.head))
      BY Rowwise DEF WorseHead
    <3> QED
      BY <1>3, <3>1, WorseBackends
  <2>2. e.failSeverity \in {"low", "medium", "high", "critical"}
    BY <1>1 DEF Configured17, SeverityOrder
  <2>3. AtLeast("critical", e.failSeverity)
    BY <2>2 DEF AtLeast, SeverityOrder
  <2>4. AtLeast(g.severity, e.failSeverity)
    BY <1>2, <2>1, <2>3
  <2> QED
    BY <2>1, <2>4 DEF Actionable17, Findings17
<1>4. CASE f \in EvaluateArchitecture(s)
  <2>1. f \in EvaluateArchitecture(t)
    BY <1>1, <1>4, WorseArchitecture
  <2> QED
    BY <1>2, <2>1 DEF Actionable17, Findings17
<1>5. CASE f \in EvaluateObjectives(s.head, e)
  <2>1. t.head.rto = s.head.rto /\ t.head.rpo = s.head.rpo
    BY Rowwise DEF WorseHead
  <2>2. f \in EvaluateObjectives(t.head, e)
    BY <1>5, <2>1 DEF EvaluateObjectives
  <2> QED
    BY <1>2, <2>2 DEF Actionable17, Findings17
<1> QED
  BY <1>2, <1>3, <1>4, <1>5 DEF Findings17

-----------------------------------------------------------------------------
LEMMA WorseVerdicts ==
    ASSUME lab \in Labs, env \in Environments[lab],
           NEW s \in Submissions[lab], NEW t \in Submissions[lab], Worse(t, s),
           NEW n \in Nat, NEW m \in Nat, n <= m, VerdictOn(s, n) = "FAIL"
    PROVE  VerdictOn(t, m) # "PASS"
<1>1. s # Nothing /\ t # Nothing
  BY DEF Worse
<1>2. CASE lab = "02"
  BY <1>1, <1>2, Worse02 DEF VerdictOn
<1>3. CASE lab = "03"
  BY <1>1, <1>3, Worse03 DEF VerdictOn
<1>4. CASE lab = "12"
  BY <1>1, <1>4, Worse12 DEF VerdictOn
<1>5. CASE lab = "13"
  BY <1>1, <1>5, Worse13 DEF VerdictOn
<1>6. CASE lab = "14"
  BY <1>1, <1>6, Worse14 DEF VerdictOn
<1>7. CASE lab = "15"
  BY <1>1, <1>7, Worse15 DEF VerdictOn
<1>8. CASE lab = "16"
  BY <1>1, <1>8, Worse16 DEF VerdictOn
<1>9. CASE lab = "17"
  BY <1>1, <1>9, Worse17 DEF VerdictOn
<1> QED
  BY <1>2, <1>3, <1>4, <1>5, <1>6, <1>7, <1>8, <1>9, LabsAssumption

\* In each of the eight labs a FAIL is not followed by a PASS about data that is
\* the same or worse, in an event or in the bucket, on the same day or later: for
\* registers of any size, any environment and any number of days.
THEOREM WorseDoesNotHelp == Spec => WorseNeverHelps
<1>1. TypeOK /\ AnswerInv /\ [Next]_vars =>
        (Worse(judged', judged) /\ answer.verdict = "FAIL" => answer'.verdict # "PASS")
  <2> SUFFICES ASSUME TypeOK, AnswerInv, [Next]_vars,
                      Worse(judged', judged), answer.verdict = "FAIL"
               PROVE  answer'.verdict # "PASS"
    OBVIOUS
  <2>1. judged # Nothing /\ judged' # Nothing
    BY DEF Worse
  <2>2. /\ lab \in Labs /\ env \in Environments[lab]
        /\ judged \in Submissions[lab] /\ judged' \in Submissions[lab]
    BY <2>1, NextTypes, StepAnswers DEF TypeOK
  <2>3. PICK day \in Today..now : answer = AnswerOn(judged, day)
    BY <2>1 DEF AnswerInv
  <2>4. day \in Nat /\ now \in Nat /\ day <= now
    BY DaysAssumption DEF TypeOK
  <2>5. VerdictOn(judged, day) = "FAIL"
    BY <2>3 DEF AnswerOn
  <2>6. CASE answer' = AnswerOn(judged', now)
    <3>1. VerdictOn(judged', now) # "PASS"
      BY <2>2, <2>4, <2>5, WorseVerdicts
    <3> QED
      BY <2>6, <3>1 DEF AnswerOn
  <2> QED
    BY <2>6, StepAnswers
<1> QED
  BY <1>1, InitTypes, NextTypes, InitAnswer, NextAnswer, PTL DEF Spec, WorseNeverHelps
=============================================================================
