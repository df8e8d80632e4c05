---------------------------- MODULE ScheduledLab ----------------------------
(***************************************************************************)
(* Labs 01-10 and 12-17: the pipeline every scheduled worker runs, from    *)
(* the EventBridge event that asks for a run to the answer, the evidence   *)
(* object, the Security Hub finding and the alert it leaves.  The lab is   *)
(* chosen in Init: the handlers differ in which verdicts they compute,     *)
(* whether they open a finding and when, on which verdicts they alert, and *)
(* which gaps of their configuration they notice before they evaluate.     *)
(*                                                                         *)
(* An event is refused or accepted by Lambda, waits for the one worker the *)
(* function may have, and runs; a worker that dies is tried again with the *)
(* same request id, hence the same run_id and evidence key.  The verdict   *)
(* itself is any that the lab can compute: the evaluators are not here.    *)
(***************************************************************************)
EXTENDS Naturals, Sequences

CONSTANTS
    Event,       \* what EventBridge or an operator asks of the function
    Labs,        \* the labs a behaviour may be of
    Misses,      \* what the deployment may lack when it starts
    Payloads,    \* the kinds of events
    MaxOffers,   \* deliveries EventBridge tries before its dead-letter queue
    MaxTries     \* runs of one accepted event before the function's queue

\* What may be missing from a deployment: a known partition and readable
\* environment values, the live source a lab sweeps, the evidence bucket,
\* the alert topic.
Gaps == {"runtime", "source", "bucket", "topic"}
Verdicts == {"PASS", "FAIL", "NOT_APPLICABLE", "ERROR"}
Statuses == Verdicts \union {"CONFIG_ERROR"}
Kinds == {"sweep", "feed", "simulation"}

NonPass == Verdicts \ {"PASS"}

(***************************************************************************)
(* finds: when a FAIL becomes a finding, before or after the evidence.     *)
(* alerts: the verdicts announced.  computes: the verdicts evaluated.      *)
(* early: the gaps a live run notices before it evaluates.  feed: an event *)
(* may carry the data to evaluate.  live: what becomes of an event that    *)
(* does not: swept from AWS, or from a source that must be configured, or  *)
(* answered with an error.                                                 *)
(***************************************************************************)
Profile == [finds: {"never", "before", "after"}, alerts: SUBSET NonPass,
            computes: SUBSET Verdicts, early: SUBSET Gaps, feed: BOOLEAN,
            live: {"swept", "configured", "CONFIG_ERROR", "ERROR"}]

Quiet == [finds |-> "never", alerts |-> NonPass, computes |-> {"PASS", "FAIL"},
          early |-> {"runtime"}, feed |-> TRUE, live |-> "swept"]
Finding == [Quiet EXCEPT !.finds = "after", !.feed = FALSE]

Lab01 == [Finding EXCEPT !.finds = "before", !.live = "configured"]
Lab02 == Quiet
Lab03 == [Quiet EXCEPT !.computes = {"PASS", "FAIL", "ERROR"}]
Lab04 == [Finding EXCEPT !.live = "configured"]
Lab05 == [Finding EXCEPT !.live = "configured"]
Lab06 == [Finding EXCEPT !.alerts = {"FAIL"}, !.computes = {"PASS", "FAIL", "NOT_APPLICABLE"}]
Lab07 == [Finding EXCEPT !.alerts = {"FAIL"}, !.early = {"runtime", "bucket"}]
Lab08 == [Finding EXCEPT !.computes = {"PASS", "FAIL", "NOT_APPLICABLE"}]
Lab09 == [Finding EXCEPT !.early = {"runtime", "topic"}, !.live = "configured"]
Lab10 == [Finding EXCEPT !.live = "configured"]
Lab12 == [Quiet EXCEPT !.computes = {"PASS", "FAIL", "ERROR"}, !.live = "CONFIG_ERROR"]
Lab13 == [Quiet EXCEPT !.live = "CONFIG_ERROR"]
Lab14 == [Quiet EXCEPT !.live = "ERROR"]
Lab15 == [Quiet EXCEPT !.live = "ERROR"]
Lab16 == [Finding EXCEPT !.alerts = {"FAIL"}, !.feed = TRUE, !.live = "configured"]
Lab17 == [Finding EXCEPT !.alerts = {"FAIL"}, !.feed = TRUE, !.live = "configured"]

\* Every handler asks for its RuntimeContext first.
ASSUME LabsAssumption == Labs \subseteq Profile /\ \A l \in Labs : "runtime" \in l.early
ASSUME InputAssumption == Misses \subseteq Gaps /\ Payloads \subseteq Kinds
ASSUME BoundAssumption == MaxOffers \in Nat \ {0} /\ MaxTries \in Nat \ {0}

VARIABLES
    lab,       \* the lab deployed
    gaps,      \* what its deployment still misses
    kind,      \* [Event -> Kinds]: the payload of each event
    at,        \* [Event -> Stages]: how far the event is
    offers,    \* [Event -> Nat]: deliveries refused
    tries,     \* [Event -> Nat]: runs started
    env,       \* [Event -> SUBSET Gaps]: the environment its run started in
    verdict,   \* [Event -> Verdicts]: evaluated, not yet answered
    evidence,  \* [Event -> Seq(Verdicts)]: the versions of its object
    findings,  \* SUBSET Event: runs with a finding in the hub
    alerts,    \* SUBSET (Event \X NonPass): what was published
    answer     \* [Event -> Answers]

vars == <<lab, gaps, kind, at, offers, tries, env, verdict, evidence, findings, alerts, answer>>
deployment == <<lab, kind>>
traces == <<evidence, findings, alerts>>

Running == {"config", "load", "finding", "write", "alert", "respond"}
Stages == {"due", "offered", "queued", "answered", "dead"} \union Running

\* "cited": the answer carries the evidence_uri of the object it rests on.
NoAnswer == [status |-> "none", cited |-> FALSE]
Answers == [status: Statuses \union {"none"}, cited: BOOLEAN]

Init ==
    /\ lab \in Labs
    /\ gaps \in SUBSET Misses
    /\ kind \in [Event -> Payloads]
    /\ at = [e \in Event |-> "due"]
    /\ offers = [e \in Event |-> 0]
    /\ tries = [e \in Event |-> 0]
    /\ env = [e \in Event |-> {}]
    /\ verdict = [e \in Event |-> "PASS"]
    /\ evidence = [e \in Event |-> <<>>]
    /\ findings = {}
    /\ alerts = {}
    /\ answer = [e \in Event |-> NoAnswer]

Move(e, from, to) == at[e] = from /\ at' = [at EXCEPT ![e] = to]

-----------------------------------------------------------------------------
(* Delivery: EventBridge, Lambda's queue, the reserved concurrency of one. *)

Fire(e) ==
    /\ Move(e, "due", "offered")
    /\ UNCHANGED <<deployment, gaps, offers, tries, env, verdict, traces, answer>>

Accept(e) ==
    /\ Move(e, "offered", "queued")
    /\ UNCHANGED <<deployment, gaps, offers, tries, env, verdict, traces, answer>>

Refuse(e) ==
    /\ at[e] = "offered"
    /\ offers' = [offers EXCEPT ![e] = @ + 1]
    /\ at' = [at EXCEPT ![e] = IF offers'[e] = MaxOffers THEN "dead" ELSE @]
    /\ UNCHANGED <<deployment, gaps, tries, env, verdict, traces, answer>>

\* Throttled for longer than Lambda keeps an event.
Expire(e) ==
    /\ Move(e, "queued", "dead")
    /\ UNCHANGED <<deployment, gaps, offers, tries, env, verdict, traces, answer>>

\* The sandbox reads its environment when it starts.
Start(e) ==
    /\ \A f \in Event : at[f] \notin Running
    /\ Move(e, "queued", "config")
    /\ tries' = [tries EXCEPT ![e] = @ + 1]
    /\ env' = [env EXCEPT ![e] = gaps]
    /\ UNCHANGED <<deployment, gaps, offers, verdict, traces, answer>>

\* Mutant: a function without a dead-letter queue forgets the event.
KillForgets(e) ==
    /\ at[e] \in Running
    /\ at' = [at EXCEPT ![e] = IF tries[e] < MaxTries THEN "queued" ELSE "due"]
    /\ UNCHANGED <<deployment, gaps, offers, tries, env, verdict, traces, answer>>

\* Timeout or crash: Lambda runs the event again, or gives it up.
Kill(e) ==
    /\ at[e] \in Running
    /\ at' = [at EXCEPT ![e] = IF tries[e] < MaxTries THEN "queued" ELSE "dead"]
    /\ UNCHANGED <<deployment, gaps, offers, tries, env, verdict, traces, answer>>

\* An operator completes the configuration; a run keeps the one it has.
Configure(g) ==
    /\ g \in gaps
    /\ gaps' = gaps \ {g}
    /\ UNCHANGED <<deployment, at, offers, tries, env, verdict, traces, answer>>

-----------------------------------------------------------------------------
(* The worker.  Every error is caught and answered, so it is not retried.  *)

Answer(e, status, cited) ==
    /\ at' = [at EXCEPT ![e] = "answered"]
    /\ answer' = [answer EXCEPT ![e] = [status |-> status, cited |-> cited]]

\* Mutant: an unknown partition is not an error.
PartitionGuessed(e) ==
    env[e] \intersect (IF kind[e] = "simulation" THEN {} ELSE lab.early \ {"runtime"})

\* The gaps this run notices before it evaluates anything.
Noticed(e) == env[e] \intersect (IF kind[e] = "simulation" THEN {"runtime"} ELSE lab.early)

CheckConfig(e) ==
    /\ at[e] = "config"
    /\ IF Noticed(e) # {}
       THEN Answer(e, "CONFIG_ERROR", FALSE)
       ELSE at' = [at EXCEPT ![e] = "load"] /\ UNCHANGED answer
    /\ UNCHANGED <<deployment, gaps, offers, tries, env, verdict, traces>>

\* The event brings no data: the lab must find its own.
Live(e) == kind[e] = "sweep" \/ (kind[e] = "feed" /\ ~lab.feed)

\* Mutant: whatever the lab does without data is taken for a status.
LoadRefusedRaw(e) ==
    /\ at[e] = "load"
    /\ Live(e) /\ lab.live # "swept"
    /\ Answer(e, lab.live, FALSE)
    /\ UNCHANGED <<deployment, gaps, offers, tries, env, verdict, traces>>

LoadRefused(e) ==
    /\ at[e] = "load"
    /\ Live(e)
    /\ \/ lab.live = "configured" /\ "source" \in env[e] /\ Answer(e, "CONFIG_ERROR", FALSE)
       \/ lab.live \in {"CONFIG_ERROR", "ERROR"} /\ Answer(e, lab.live, FALSE)
    /\ UNCHANGED <<deployment, gaps, offers, tries, env, verdict, traces>>

Sourced(e) ==
    ~Live(e) \/ lab.live = "swept" \/ (lab.live = "configured" /\ "source" \notin env[e])

\* What comes after the finding is dealt with, and after the object is written.
Escalation(v) == IF v \in lab.alerts THEN "alert" ELSE "respond"
\* Mutants: escalate, then persist; open the finding, then persist.
AlertFirst(v) == IF v \in lab.alerts THEN "alert" ELSE "write"
FindingFirst(v) == IF lab.finds # "never" /\ v = "FAIL" THEN "finding" ELSE "write"
AfterLoad(v) == IF lab.finds = "before" /\ v = "FAIL" THEN "finding" ELSE "write"
AfterWrite(v) == IF lab.finds = "after" /\ v = "FAIL" THEN "finding" ELSE Escalation(v)
\* Mutant: the finding stands for the alert.
FindingOnly(v) == IF lab.finds = "before" THEN "write" ELSE "respond"
AfterFinding(v) == IF lab.finds = "before" THEN "write" ELSE Escalation(v)

Evaluate(e) ==
    /\ at[e] = "load"
    /\ Sourced(e)
    /\ \E v \in lab.computes :
         /\ verdict' = [verdict EXCEPT ![e] = v]
         /\ at' = [at EXCEPT ![e] = AfterLoad(v)]
    /\ UNCHANGED <<deployment, gaps, offers, tries, env, traces, answer>>

\* Security Hub may reject a finding of an accepted batch: nobody looks.
EmitFinding(e) ==
    /\ Move(e, "finding", AfterFinding(verdict[e]))
    /\ findings' \in {findings, findings \union {e}}
    /\ UNCHANGED <<deployment, gaps, offers, tries, env, verdict, evidence, alerts, answer>>

\* Mutant: a run tried again keeps the object it finds.
WriteOnce(e) ==
    /\ at[e] = "write"
    /\ "bucket" \notin env[e]
    /\ evidence' = [evidence EXCEPT ![e] = IF @ = <<>> THEN <<verdict[e]>> ELSE @]
    /\ at' = [at EXCEPT ![e] = AfterWrite(verdict[e])]
    /\ UNCHANGED <<deployment, gaps, offers, tries, env, verdict, findings, alerts, answer>>

WriteEvidence(e) ==
    /\ at[e] = "write"
    /\ IF "bucket" \in env[e]
       THEN Answer(e, "CONFIG_ERROR", FALSE) /\ UNCHANGED evidence
       ELSE /\ evidence' = [evidence EXCEPT ![e] = Append(@, verdict[e])]
            /\ at' = [at EXCEPT ![e] = AfterWrite(verdict[e])]
            /\ UNCHANGED answer
    /\ UNCHANGED <<deployment, gaps, offers, tries, env, verdict, findings, alerts>>

PublishAlert(e) ==
    /\ at[e] = "alert"
    /\ IF "topic" \in env[e]
       THEN Answer(e, "CONFIG_ERROR", FALSE) /\ UNCHANGED alerts
       ELSE /\ alerts' = alerts \union {<<e, verdict[e]>>}
            /\ at' = [at EXCEPT ![e] = "respond"]
            /\ UNCHANGED answer
    /\ UNCHANGED <<deployment, gaps, offers, tries, env, verdict, evidence, findings>>

Respond(e) ==
    /\ at[e] = "respond"
    /\ Answer(e, verdict[e], TRUE)
    /\ UNCHANGED <<deployment, gaps, offers, tries, env, verdict, traces>>

(***************************************************************************)
(* A call raises: the handler answers ERROR.  The call may have taken      *)
(* effect all the same (put_object and publish time out after the fact).   *)
(***************************************************************************)
Fault(e) ==
    /\ \/ at[e] \in {"load", "finding"}
       \/ at[e] = "write" /\ "bucket" \notin env[e]
       \/ at[e] = "alert" /\ "topic" \notin env[e]
    /\ Answer(e, "ERROR", FALSE)
    /\ \/ UNCHANGED traces
       \/ /\ at[e] = "write"
          /\ evidence' = [evidence EXCEPT ![e] = Append(@, verdict[e])]
          /\ UNCHANGED <<findings, alerts>>
       \/ /\ at[e] = "finding"
          /\ findings' = findings \union {e}
          /\ UNCHANGED <<evidence, alerts>>
       \/ /\ at[e] = "alert"
          /\ alerts' = alerts \union {<<e, verdict[e]>>}
          /\ UNCHANGED <<evidence, findings>>
    /\ UNCHANGED <<deployment, gaps, offers, tries, env, verdict>>

Worker(e) ==
    \/ CheckConfig(e) \/ LoadRefused(e) \/ Evaluate(e) \/ EmitFinding(e)
    \/ WriteEvidence(e) \/ PublishAlert(e) \/ Respond(e)

Next ==
    \/ \E e \in Event :
         \/ Fire(e) \/ Accept(e) \/ Refuse(e) \/ Expire(e)
         \/ Start(e) \/ Kill(e) \/ Worker(e) \/ Fault(e)
    \/ \E g \in Gaps : Configure(g)

Spec == Init /\ [][Next]_vars

\* AWS delivers what it accepted and schedules the worker; the worker runs.
Fairness == \A e \in Event : WF_vars(Accept(e)) /\ WF_vars(Start(e)) /\ WF_vars(Worker(e))
FairSpec == Spec /\ Fairness

-----------------------------------------------------------------------------
(* Properties.                                                             *)

TypeOK ==
    /\ lab \in Labs
    /\ gaps \in SUBSET Gaps
    /\ kind \in [Event -> Kinds]
    /\ at \in [Event -> Stages]
    /\ offers \in [Event -> Nat]
    /\ tries \in [Event -> Nat]
    /\ env \in [Event -> SUBSET Gaps]
    /\ verdict \in [Event -> Verdicts]
    /\ evidence \in [Event -> Seq(Verdicts)]
    /\ findings \in SUBSET Event
    /\ alerts \in SUBSET (Event \X Verdicts)
    /\ answer \in [Event -> Answers]

Versions(e) == {evidence[e][i] : i \in 1..Len(evidence[e])}
Computed(e) == answer[e].status # "none" /\ answer[e].cited

\* An answer that cites evidence, PASS above all, is the verdict of the last
\* version of the object it cites, however many runs of the event died after
\* writing another: handlers write, then answer with the same status.
AnswerIsEvidenced ==
    \A e \in Event :
      /\ Computed(e) => /\ evidence[e] # <<>>
                        /\ evidence[e][Len(evidence[e])] = answer[e].status
      /\ answer[e].status = "PASS" => answer[e].cited

\* Every alert, also one of a run that died or faulted afterwards, announces
\* a non-PASS verdict that some version of the run's object records: handlers
\* publish only what they have persisted.
AlertIsEvidenced ==
    \A e \in Event, v \in Verdicts :
      <<e, v>> \in alerts => v # "PASS" /\ v \in Versions(e)

\* Every finding in the hub rests on a persisted FAIL.  Lab 01 imports its
\* findings before it writes, and is outside this property.
FindingIsEvidenced ==
    lab.finds = "after" => \A e \in findings : "FAIL" \in Versions(e)

\* No handler answers with a verdict it owes an alert for before that verdict
\* was published, whatever earlier runs of the event did.
AnswerIsAnnounced ==
    \A e \in Event :
      Computed(e) /\ answer[e].status \in lab.alerts => <<e, answer[e].status>> \in alerts

\* As long as the deployment lacks its bucket, and for a run that started when
\* it did also after an operator has set it, no evidence, alert, verdict or (but
\* for lab 01) finding is left; without a runtime the answer is CONFIG_ERROR and
\* nothing else.  A configuration completed under way makes no half of a run.
UnconfiguredLeavesNothing ==
    \A e \in Event :
      /\ "bucket" \in gaps \union env[e] =>
           /\ evidence[e] = <<>> /\ ~answer[e].cited
           /\ e \in findings => lab.finds = "before"
           /\ \A v \in NonPass : <<e, v>> \notin alerts
      /\ "runtime" \in gaps \union env[e] =>
           e \notin findings /\ answer[e].status \in {"none", "CONFIG_ERROR"}

\* Every event asked for is answered or lands in a dead-letter queue: no
\* refusal, death or queue of other events keeps it waiting forever.
EverySweepEnds ==
    \A e \in Event : at[e] = "offered" ~> at[e] \in {"answered", "dead"}

(***************************************************************************)
(* What the documents say and the code does not do.                        *)
(***************************************************************************)

\* docs/walkthroughs/00-operator-playbook.md:139, FAIL: "Finding + SNS."
FailHasFinding ==
    \A e \in Event : answer[e].status = "FAIL" => e \in findings
=============================================================================
