------------------------- MODULE ScheduledLab_proofs -------------------------
(***************************************************************************)
(* What a scheduled lab leaves behind is consistent, for every set of      *)
(* events and labs and every bound on deliveries and runs.  The invariant  *)
(* says, of a run at each stage of the pipeline, what it has persisted.    *)
(***************************************************************************)
EXTENDS ScheduledLab, TLAPS

\* The object's last version is the verdict the run is carrying.
Persisted(e) == evidence[e] # <<>> /\ evidence[e][Len(evidence[e])] = verdict[e]

\* Past the write the verdict is persisted; at the finding it is a FAIL; at the
\* alert it is owed one; at the answer it was published if it was owed.
StageOf(e) ==
    /\ at[e] \in {"alert", "respond"} => Persisted(e)
    /\ at[e] = "finding" => verdict[e] = "FAIL" /\ (lab.finds = "after" => Persisted(e))
    /\ at[e] = "finding" => lab.finds # "never"
    /\ at[e] = "alert" => verdict[e] \in lab.alerts
    /\ at[e] = "respond" /\ verdict[e] \in lab.alerts => <<e, verdict[e]>> \in alerts
StageInv == \A e \in Event : StageOf(e)

\* Only an answered event has an answer.
AnswerOf(e) == at[e] # "answered" => answer[e] = NoAnswer
AnswerInv == \A e \in Event : AnswerOf(e)

\* A run's environment lacks what the deployment lacks, and a run that lacks
\* its runtime or its bucket stays before the stages that need them.
ConfigOf(e) ==
    /\ at[e] \in Running => gaps \subseteq env[e]
    /\ "runtime" \in env[e] /\ at[e] \in Running => at[e] = "config"
    /\ "bucket" \in env[e] =>
         at[e] \notin {"alert", "respond"} /\ (at[e] = "finding" => lab.finds = "before")
ConfigInv == \A e \in Event : ConfigOf(e)

LabInv == TypeOK /\ StageInv /\ AnswerInv /\ ConfigInv
\* The deployed lab is one of the profiles and notices an unknown partition.
LEMMA LabFacts == TypeOK => lab \in Profile /\ "runtime" \in lab.early
BY LabsAssumption DEF TypeOK

\* Types: the initial state is well typed.
LEMMA InitType == Init => TypeOK
BY InputAssumption DEF Init, TypeOK, Stages, Verdicts, Answers, NoAnswer

\* An answer with a status is well typed.
LEMMA AnswerType ==
    ASSUME TypeOK, NEW e \in Event, NEW s \in Statuses, NEW c \in BOOLEAN, Answer(e, s, c)
    PROVE  at' \in [Event -> Stages] /\ answer' \in [Event -> Answers]
<1>1. [status |-> s, cited |-> c] \in Answers
  BY DEF Answers
<1> QED BY <1>1 DEF TypeOK, Answer, Stages

\* One more alert, one more version: still alerts and versions.
LEMMA TraceType ==
    ASSUME TypeOK, NEW e \in Event
    PROVE  /\ alerts \union {<<e, verdict[e]>>} \in SUBSET (Event \X Verdicts)
           /\ [evidence EXCEPT ![e] = Append(@, verdict[e])] \in [Event -> Seq(Verdicts)]
BY DEF TypeOK

\* Types: every step keeps them.
LEMMA NextType == TypeOK /\ [Next]_vars => TypeOK'
<1> SUFFICES ASSUME TypeOK, [Next]_vars PROVE TypeOK'
  OBVIOUS
<1> USE LabFacts
<1>1. ASSUME NEW e \in Event, Fire(e) PROVE TypeOK'
  BY <1>1 DEF Fire, Move, deployment, traces, TypeOK, Profile, Running, Stages, Verdicts,
       NonPass, Statuses, Answers, Gaps
<1>2. ASSUME NEW e \in Event, Accept(e) PROVE TypeOK'
  BY <1>2 DEF Accept, Move, deployment, traces, TypeOK, Profile, Running, Stages, Verdicts,
       NonPass, Statuses, Answers, Gaps
<1>3. ASSUME NEW e \in Event, Refuse(e) PROVE TypeOK'
  BY <1>3 DEF Refuse, deployment, traces, TypeOK, Profile, Running, Stages, Verdicts,
       NonPass, Statuses, Answers, Gaps
<1>4. ASSUME NEW e \in Event, Expire(e) PROVE TypeOK'
  BY <1>4 DEF Expire, Move, deployment, traces, TypeOK, Profile, Running, Stages, Verdicts,
       NonPass, Statuses, Answers, Gaps
<1>5. ASSUME NEW e \in Event, Start(e) PROVE TypeOK'
  BY <1>5 DEF Start, Move, deployment, traces, TypeOK, Profile, Running, Stages, Verdicts,
       NonPass, Statuses, Answers, Gaps
<1>6. ASSUME NEW e \in Event, Kill(e) PROVE TypeOK'
  BY <1>6 DEF Kill, deployment, traces, TypeOK, Profile, Running, Stages, Verdicts, NonPass,
       Statuses, Answers, Gaps
<1>7. ASSUME NEW e \in Event, CheckConfig(e) PROVE TypeOK'
  <2>1. CASE Noticed(e) # {}
    <3>1. Answer(e, "CONFIG_ERROR", FALSE)
      BY <1>7, <2>1 DEF CheckConfig
    <3>2. at' \in [Event -> Stages] /\ answer' \in [Event -> Answers]
      BY <3>1, AnswerType DEF Statuses
    <3>3. UNCHANGED <<deployment, gaps, offers, tries, env, verdict, traces>>
      BY <1>7, <2>1 DEF CheckConfig, traces
    <3> QED BY <3>2, <3>3 DEF TypeOK, deployment, traces
  <2>2. CASE ~(Noticed(e) # {})
    BY <2>2, <1>7 DEF CheckConfig, TypeOK, Stages, Running, deployment, traces
  <2> QED BY <2>1, <2>2
<1>8. ASSUME NEW e \in Event, LoadRefused(e) PROVE TypeOK'
  <2>1. Answer(e, "CONFIG_ERROR", FALSE) \/ Answer(e, "ERROR", FALSE)
    BY <1>8 DEF LoadRefused
  <2>2. at' \in [Event -> Stages] /\ answer' \in [Event -> Answers]
    BY <2>1, AnswerType DEF Statuses, Verdicts
  <2> QED BY <1>8, <2>2 DEF TypeOK, Verdicts, deployment, traces, LoadRefused
<1>9. ASSUME NEW e \in Event, Evaluate(e) PROVE TypeOK'
  BY <1>9 DEF Evaluate, AfterLoad, deployment, traces, TypeOK, Profile, Running, Stages,
       Verdicts, NonPass, Statuses, Answers, Gaps
<1>10. ASSUME NEW e \in Event, EmitFinding(e) PROVE TypeOK'
  BY <1>10 DEF EmitFinding, Move, AfterFinding, Escalation, deployment, traces, TypeOK,
       Profile, Running, Stages, Verdicts, NonPass, Statuses, Answers, Gaps
<1>11. ASSUME NEW e \in Event, WriteEvidence(e) PROVE TypeOK'
  <2>1. CASE "bucket" \in env[e]
    <3>1. Answer(e, "CONFIG_ERROR", FALSE)
      BY <1>11, <2>1 DEF WriteEvidence
    <3>2. at' \in [Event -> Stages] /\ answer' \in [Event -> Answers]
      BY <3>1, AnswerType DEF Statuses
    <3>3. UNCHANGED <<deployment, gaps, offers, tries, env, verdict, traces>>
      BY <1>11, <2>1 DEF WriteEvidence, traces
    <3> QED BY <3>2, <3>3 DEF TypeOK, deployment, traces
  <2>2. CASE ~("bucket" \in env[e])
    <3>1. AfterWrite(verdict[e]) \in Stages
      BY DEF AfterWrite, Escalation, Stages, Running
    <3>2. at' \in [Event -> Stages]
      BY <1>11, <2>2, <3>1 DEF WriteEvidence, TypeOK
    <3>3. evidence' \in [Event -> Seq(Verdicts)]
      BY <1>11, <2>2, TraceType DEF WriteEvidence
    <3>4. UNCHANGED <<deployment, gaps, offers, tries, env, verdict, findings, alerts, answer>>
      BY <1>11, <2>2 DEF WriteEvidence
    <3> QED BY <3>2, <3>3, <3>4 DEF TypeOK, deployment
  <2> QED BY <2>1, <2>2
<1>12. ASSUME NEW e \in Event, PublishAlert(e) PROVE TypeOK'
  <2>1. CASE "topic" \in env[e]
    <3>1. Answer(e, "CONFIG_ERROR", FALSE)
      BY <1>12, <2>1 DEF PublishAlert
    <3>2. at' \in [Event -> Stages] /\ answer' \in [Event -> Answers]
      BY <3>1, AnswerType DEF Statuses
    <3>3. UNCHANGED <<deployment, gaps, offers, tries, env, verdict, traces>>
      BY <1>12, <2>1 DEF PublishAlert, traces
    <3> QED BY <3>2, <3>3 DEF TypeOK, deployment, traces
  <2>2. CASE ~("topic" \in env[e])
    <3>1. at' \in [Event -> Stages]
      BY <1>12, <2>2 DEF PublishAlert, TypeOK, Stages, Running
    <3>2. alerts' \in SUBSET (Event \X Verdicts)
      BY <1>12, <2>2, TraceType DEF PublishAlert
    <3>3. UNCHANGED <<deployment, gaps, offers, tries, env, verdict, evidence, findings, answer>>
      BY <1>12, <2>2 DEF PublishAlert
    <3> QED BY <3>1, <3>2, <3>3 DEF TypeOK, deployment
  <2> QED BY <2>1, <2>2
<1>13. ASSUME NEW e \in Event, Respond(e) PROVE TypeOK'
  <2>1. verdict[e] \in Statuses
    BY DEF TypeOK, Statuses
  <2>2. at' \in [Event -> Stages] /\ answer' \in [Event -> Answers]
    BY <1>13, <2>1, AnswerType DEF Respond
  <2> QED BY <1>13, <2>2 DEF TypeOK, Verdicts, deployment, traces, Respond
<1>14. ASSUME NEW e \in Event, Fault(e) PROVE TypeOK'
  <2>1. Answer(e, "ERROR", FALSE)
    BY <1>14 DEF Fault
  <2>2. at' \in [Event -> Stages] /\ answer' \in [Event -> Answers]
    BY <2>1, AnswerType DEF Statuses, Verdicts
  <2>3. evidence' \in [Event -> Seq(Verdicts)] /\ findings' \in SUBSET Event
       /\ alerts' \in SUBSET (Event \X Verdicts)
    <3>1. evidence' = evidence \/ evidence' = [evidence EXCEPT ![e] = Append(@, verdict[e])]
      BY <1>14 DEF Fault, traces
    <3>2. findings' = findings \/ findings' = findings \union {e}
      BY <1>14 DEF Fault, traces
    <3>3. alerts' = alerts \/ alerts' = alerts \union {<<e, verdict[e]>>}
      BY <1>14 DEF Fault, traces
    <3>4. evidence \in [Event -> Seq(Verdicts)]
      BY DEF TypeOK
    <3>5. findings' \in SUBSET Event
      BY <3>2 DEF TypeOK
    <3>6. alerts' \in SUBSET (Event \X Verdicts)
      BY <3>3, TraceType DEF TypeOK
    <3>7. evidence' \in [Event -> Seq(Verdicts)]
      BY <3>1, <3>4, TraceType
    <3> QED BY <3>5, <3>6, <3>7
  <2>4. UNCHANGED <<deployment, gaps, offers, tries, env, verdict>>
    BY <1>14 DEF Fault
  <2> QED BY <2>2, <2>3, <2>4 DEF TypeOK, deployment
<1>15. ASSUME NEW g \in Gaps, Configure(g) PROVE TypeOK'
  BY <1>15 DEF Configure, deployment, traces, TypeOK, Profile, Running, Stages, Verdicts,
       NonPass, Statuses, Answers, Gaps
<1>16. CASE UNCHANGED vars
  BY <1>16 DEF vars, deployment, traces, TypeOK, Profile, Running, Stages, Verdicts,
       NonPass, Statuses, Answers, Gaps
<1> QED BY <1>1, <1>2, <1>3, <1>4, <1>5, <1>6, <1>7, <1>8, <1>9, <1>10, <1>11, <1>12, <1>13,
     <1>14, <1>15, <1>16 DEF Next, Worker

\* After an append the new element is the last.
LEMMA LastAppended ==
    ASSUME NEW s \in Seq(Verdicts), NEW v \in Verdicts
    PROVE  Append(s, v) # <<>> /\ Append(s, v)[Len(Append(s, v))] = v
OBVIOUS

\* Stages: every step leaves the run with what its next stage assumes.
LEMMA NextStage == LabInv /\ [Next]_vars => StageInv'
<1> SUFFICES ASSUME LabInv, [Next]_vars, NEW f \in Event PROVE StageOf(f)'
  BY DEF StageInv
<1> USE LabFacts
<1>1. ASSUME NEW e \in Event, Fire(e) PROVE StageOf(f)'
  BY <1>1 DEF Fire, Move, deployment, traces, TypeOK, Profile, Running, Stages, Verdicts,
       NonPass, Statuses, Answers, Gaps, LabInv, StageInv, StageOf, Persisted
<1>2. ASSUME NEW e \in Event, Accept(e) PROVE StageOf(f)'
  BY <1>2 DEF Accept, Move, deployment, traces, TypeOK, Profile, Running, Stages, Verdicts,
       NonPass, Statuses, Answers, Gaps, LabInv, StageInv, StageOf, Persisted
<1>3. ASSUME NEW e \in Event, Refuse(e) PROVE StageOf(f)'
  BY <1>3 DEF Refuse, deployment, traces, TypeOK, Profile, Running, Stages, Verdicts,
       NonPass, Statuses, Answers, Gaps, LabInv, StageInv, StageOf, Persisted
<1>4. ASSUME NEW e \in Event, Expire(e) PROVE StageOf(f)'
  BY <1>4 DEF Expire, Move, deployment, traces, TypeOK, Profile, Running, Stages, Verdicts,
       NonPass, Statuses, Answers, Gaps, LabInv, StageInv, StageOf, Persisted
<1>5. ASSUME NEW e \in Event, Start(e) PROVE StageOf(f)'
  BY <1>5 DEF Start, Move, deployment, traces, TypeOK, Profile, Running, Stages, Verdicts,
       NonPass, Statuses, Answers, Gaps, LabInv, StageInv, StageOf, Persisted
<1>6. ASSUME NEW e \in Event, Kill(e) PROVE StageOf(f)'
  BY <1>6 DEF Kill, deployment, traces, TypeOK, Profile, Running, Stages, Verdicts, NonPass,
       Statuses, Answers, Gaps, LabInv, StageInv, StageOf, Persisted
<1>7. ASSUME NEW e \in Event, CheckConfig(e) PROVE StageOf(f)'
  BY <1>7 DEF CheckConfig, Answer, deployment, traces, TypeOK, Profile, Running, Stages,
       Verdicts, NonPass, Statuses, Answers, Gaps, LabInv, StageInv, StageOf, Persisted
<1>8. ASSUME NEW e \in Event, LoadRefused(e) PROVE StageOf(f)'
  BY <1>8 DEF LoadRefused, Answer, deployment, traces, TypeOK, Profile, Running, Stages,
       Verdicts, NonPass, Statuses, Answers, Gaps, LabInv, StageInv, StageOf, Persisted
<1>9. ASSUME NEW e \in Event, Evaluate(e) PROVE StageOf(f)'
  BY <1>9 DEF Evaluate, AfterLoad, deployment, traces, TypeOK, Profile, Running, Stages,
       Verdicts, NonPass, Statuses, Answers, Gaps, LabInv, StageInv, StageOf, Persisted
<1>10. ASSUME NEW e \in Event, EmitFinding(e) PROVE StageOf(f)'
  BY <1>10 DEF EmitFinding, Move, AfterFinding, Escalation, deployment, traces, TypeOK,
       Profile, Running, Stages, Verdicts, NonPass, Statuses, Answers, Gaps, LabInv,
       StageInv, StageOf, Persisted
<1>11. ASSUME NEW e \in Event, WriteEvidence(e) PROVE StageOf(f)'
  BY <1>11, LastAppended DEF WriteEvidence, Answer, AfterWrite, Escalation, deployment,
       traces, TypeOK, Profile, Running, Stages, Verdicts, NonPass, Statuses, Answers, Gaps,
       LabInv, StageInv, StageOf, Persisted
<1>12. ASSUME NEW e \in Event, PublishAlert(e) PROVE StageOf(f)'
  BY <1>12 DEF PublishAlert, Answer, deployment, traces, TypeOK, Profile, Running, Stages,
       Verdicts, NonPass, Statuses, Answers, Gaps, LabInv, StageInv, StageOf, Persisted
<1>13. ASSUME NEW e \in Event, Respond(e) PROVE StageOf(f)'
  BY <1>13 DEF Respond, Answer, deployment, traces, TypeOK, Profile, Running, Stages,
       Verdicts, NonPass, Statuses, Answers, Gaps, LabInv, StageInv, StageOf, Persisted
<1>14. ASSUME NEW e \in Event, Fault(e) PROVE StageOf(f)'
  BY <1>14 DEF Fault, Answer, deployment, traces, TypeOK, Profile, Running, Stages,
       Verdicts, NonPass, Statuses, Answers, Gaps, LabInv, StageInv, StageOf, Persisted
<1>15. ASSUME NEW g \in Gaps, Configure(g) PROVE StageOf(f)'
  BY <1>15 DEF Configure, deployment, traces, TypeOK, Profile, Running, Stages, Verdicts,
       NonPass, Statuses, Answers, Gaps, LabInv, StageInv, StageOf, Persisted
<1>16. CASE UNCHANGED vars
  BY <1>16 DEF vars, deployment, traces, TypeOK, Profile, Running, Stages, Verdicts,
       NonPass, Statuses, Answers, Gaps, LabInv, StageInv, StageOf, Persisted
<1> QED BY <1>1, <1>2, <1>3, <1>4, <1>5, <1>6, <1>7, <1>8, <1>9, <1>10, <1>11, <1>12, <1>13,
     <1>14, <1>15, <1>16 DEF Next, Worker

\* Answers: only the step that answers an event gives it an answer.
LEMMA NextAnswer == LabInv /\ [Next]_vars => AnswerInv'
<1> SUFFICES ASSUME LabInv, [Next]_vars, NEW f \in Event PROVE AnswerOf(f)'
  BY DEF AnswerInv
<1>1. ASSUME NEW e \in Event, Fire(e) PROVE AnswerOf(f)'
  BY <1>1 DEF Fire, Move, deployment, traces, TypeOK, LabInv, AnswerInv, AnswerOf, Running,
       Stages, Noticed
<1>2. ASSUME NEW e \in Event, Accept(e) PROVE AnswerOf(f)'
  BY <1>2 DEF Accept, Move, deployment, traces, TypeOK, LabInv, AnswerInv, AnswerOf,
       Running, Stages, Noticed
<1>3. ASSUME NEW e \in Event, Refuse(e) PROVE AnswerOf(f)'
  BY <1>3 DEF Refuse, deployment, traces, TypeOK, LabInv, AnswerInv, AnswerOf, Running,
       Stages, Noticed
<1>4. ASSUME NEW e \in Event, Expire(e) PROVE AnswerOf(f)'
  BY <1>4 DEF Expire, Move, deployment, traces, TypeOK, LabInv, AnswerInv, AnswerOf,
       Running, Stages, Noticed
<1>5. ASSUME NEW e \in Event, Start(e) PROVE AnswerOf(f)'
  BY <1>5 DEF Start, Move, deployment, traces, TypeOK, LabInv, AnswerInv, AnswerOf, Running,
       Stages, Noticed
<1>6. ASSUME NEW e \in Event, Kill(e) PROVE AnswerOf(f)'
  BY <1>6 DEF Kill, deployment, traces, TypeOK, LabInv, AnswerInv, AnswerOf, Running,
       Stages, Noticed
<1>7. ASSUME NEW e \in Event, CheckConfig(e) PROVE AnswerOf(f)'
  BY <1>7 DEF CheckConfig, Answer, deployment, traces, TypeOK, LabInv, AnswerInv, AnswerOf,
       Running, Stages, Noticed
<1>8. ASSUME NEW e \in Event, LoadRefused(e) PROVE AnswerOf(f)'
  BY <1>8 DEF LoadRefused, Answer, deployment, traces, TypeOK, LabInv, AnswerInv, AnswerOf,
       Running, Stages, Noticed
<1>9. ASSUME NEW e \in Event, Evaluate(e) PROVE AnswerOf(f)'
  BY <1>9 DEF Evaluate, AfterLoad, deployment, traces, TypeOK, LabInv, AnswerInv, AnswerOf,
       Running, Stages, Noticed
<1>10. ASSUME NEW e \in Event, EmitFinding(e) PROVE AnswerOf(f)'
  BY <1>10 DEF EmitFinding, Move, AfterFinding, Escalation, deployment, traces, TypeOK,
       LabInv, AnswerInv, AnswerOf, Running, Stages, Noticed
<1>11. ASSUME NEW e \in Event, WriteEvidence(e) PROVE AnswerOf(f)'
  BY <1>11 DEF WriteEvidence, Answer, AfterWrite, Escalation, deployment, traces, TypeOK,
       LabInv, AnswerInv, AnswerOf, Running, Stages, Noticed
<1>12. ASSUME NEW e \in Event, PublishAlert(e) PROVE AnswerOf(f)'
  BY <1>12 DEF PublishAlert, Answer, deployment, traces, TypeOK, LabInv, AnswerInv,
       AnswerOf, Running, Stages, Noticed
<1>13. ASSUME NEW e \in Event, Respond(e) PROVE AnswerOf(f)'
  BY <1>13 DEF Respond, Answer, deployment, traces, TypeOK, LabInv, AnswerInv, AnswerOf,
       Running, Stages, Noticed
<1>14. ASSUME NEW e \in Event, Fault(e) PROVE AnswerOf(f)'
  BY <1>14 DEF Fault, Answer, deployment, traces, TypeOK, LabInv, AnswerInv, AnswerOf,
       Running, Stages, Noticed
<1>15. ASSUME NEW g \in Gaps, Configure(g) PROVE AnswerOf(f)'
  BY <1>15 DEF Configure, deployment, traces, TypeOK, LabInv, AnswerInv, AnswerOf, Running,
       Stages, Noticed
<1>16. CASE UNCHANGED vars
  BY <1>16 DEF vars, deployment, traces, TypeOK, LabInv, AnswerInv, AnswerOf, Running,
       Stages, Noticed
<1> QED BY <1>1, <1>2, <1>3, <1>4, <1>5, <1>6, <1>7, <1>8, <1>9, <1>10, <1>11, <1>12, <1>13,
     <1>14, <1>15, <1>16 DEF Next, Worker

\* A run without its runtime notices.
LEMMA RuntimeNoticed ==
    ASSUME TypeOK, NEW e \in Event, "runtime" \in env[e]
    PROVE  Noticed(e) # {}
BY LabFacts DEF Noticed

\* Configuration: a run goes on only with what its stage needs.
LEMMA NextConfig == LabInv /\ [Next]_vars => ConfigInv'
<1> SUFFICES ASSUME LabInv, [Next]_vars, NEW f \in Event PROVE ConfigOf(f)'
  BY DEF ConfigInv
<1> USE LabFacts
<1>1. ASSUME NEW e \in Event, Fire(e) PROVE ConfigOf(f)'
  BY <1>1 DEF Fire, Move, deployment, traces, TypeOK, Profile, Running, Stages, Verdicts,
       NonPass, Statuses, Answers, Gaps, LabInv, ConfigInv, ConfigOf, StageInv, StageOf
<1>2. ASSUME NEW e \in Event, Accept(e) PROVE ConfigOf(f)'
  BY <1>2 DEF Accept, Move, deployment, traces, TypeOK, Profile, Running, Stages, Verdicts,
       NonPass, Statuses, Answers, Gaps, LabInv, ConfigInv, ConfigOf, StageInv, StageOf
<1>3. ASSUME NEW e \in Event, Refuse(e) PROVE ConfigOf(f)'
  BY <1>3 DEF Refuse, deployment, traces, TypeOK, Profile, Running, Stages, Verdicts,
       NonPass, Statuses, Answers, Gaps, LabInv, ConfigInv, ConfigOf, StageInv, StageOf
<1>4. ASSUME NEW e \in Event, Expire(e) PROVE ConfigOf(f)'
  BY <1>4 DEF Expire, Move, deployment, traces, TypeOK, Profile, Running, Stages, Verdicts,
       NonPass, Statuses, Answers, Gaps, LabInv, ConfigInv, ConfigOf, StageInv, StageOf
<1>5. ASSUME NEW e \in Event, Start(e) PROVE ConfigOf(f)'
  BY <1>5 DEF Start, Move, deployment, traces, TypeOK, Profile, Running, Stages, Verdicts,
       NonPass, Statuses, Answers, Gaps, LabInv, ConfigInv, ConfigOf, StageInv, StageOf
<1>6. ASSUME NEW e \in Event, Kill(e) PROVE ConfigOf(f)'
  BY <1>6 DEF Kill, deployment, traces, TypeOK, Profile, Running, Stages, Verdicts, NonPass,
       Statuses, Answers, Gaps, LabInv, ConfigInv, ConfigOf, StageInv, StageOf
<1>7. ASSUME NEW e \in Event, CheckConfig(e) PROVE ConfigOf(f)'
  <2>1. at[e] = "config" /\ UNCHANGED <<lab, gaps, env>> /\ ConfigOf(f)
    BY <1>7 DEF CheckConfig, deployment, LabInv, ConfigInv
  <2>2. CASE Noticed(e) # {}
    <3>1. at' = [at EXCEPT ![e] = "answered"]
      BY <1>7, <2>2 DEF CheckConfig, Answer
    <3> QED BY <2>1, <3>1 DEF ConfigOf, LabInv, TypeOK, Running
  <2>3. CASE Noticed(e) = {}
    <3>1. at' = [at EXCEPT ![e] = "load"] /\ "runtime" \notin env[e]
      BY <1>7, <2>3, RuntimeNoticed DEF CheckConfig, LabInv
    <3> QED BY <2>1, <3>1 DEF ConfigOf, LabInv, TypeOK, Running
  <2> QED BY <2>2, <2>3
<1>8. ASSUME NEW e \in Event, LoadRefused(e) PROVE ConfigOf(f)'
  BY <1>8 DEF LoadRefused, Answer, deployment, traces, TypeOK, Profile, Running, Stages,
       Verdicts, NonPass, Statuses, Answers, Gaps, LabInv, ConfigInv, ConfigOf, StageInv,
       StageOf
<1>9. ASSUME NEW e \in Event, Evaluate(e) PROVE ConfigOf(f)'
  BY <1>9 DEF Evaluate, AfterLoad, deployment, traces, TypeOK, Profile, Running, Stages,
       Verdicts, NonPass, Statuses, Answers, Gaps, LabInv, ConfigInv, ConfigOf, StageInv,
       StageOf
<1>10. ASSUME NEW e \in Event, EmitFinding(e) PROVE ConfigOf(f)'
  BY <1>10 DEF EmitFinding, Move, AfterFinding, Escalation, deployment, traces, TypeOK,
       Profile, Running, Stages, Verdicts, NonPass, Statuses, Answers, Gaps, LabInv,
       ConfigInv, ConfigOf, StageInv, StageOf
<1>11. ASSUME NEW e \in Event, WriteEvidence(e) PROVE ConfigOf(f)'
  BY <1>11 DEF WriteEvidence, Answer, AfterWrite, Escalation, deployment, traces, TypeOK,
       Profile, Running, Stages, Verdicts, NonPass, Statuses, Answers, Gaps, LabInv,
       ConfigInv, ConfigOf, StageInv, StageOf
<1>12. ASSUME NEW e \in Event, PublishAlert(e) PROVE ConfigOf(f)'
  BY <1>12 DEF PublishAlert, Answer, deployment, traces, TypeOK, Profile, Running, Stages,
       Verdicts, NonPass, Statuses, Answers, Gaps, LabInv, ConfigInv, ConfigOf, StageInv,
       StageOf
<1>13. ASSUME NEW e \in Event, Respond(e) PROVE ConfigOf(f)'
  BY <1>13 DEF Respond, Answer, deployment, traces, TypeOK, Profile, Running, Stages,
       Verdicts, NonPass, Statuses, Answers, Gaps, LabInv, ConfigInv, ConfigOf, StageInv,
       StageOf
<1>14. ASSUME NEW e \in Event, Fault(e) PROVE ConfigOf(f)'
  BY <1>14 DEF Fault, Answer, deployment, traces, TypeOK, Profile, Running, Stages,
       Verdicts, NonPass, Statuses, Answers, Gaps, LabInv, ConfigInv, ConfigOf, StageInv,
       StageOf
<1>15. ASSUME NEW g \in Gaps, Configure(g) PROVE ConfigOf(f)'
  BY <1>15 DEF Configure, deployment, traces, TypeOK, Profile, Running, Stages, Verdicts,
       NonPass, Statuses, Answers, Gaps, LabInv, ConfigInv, ConfigOf, StageInv, StageOf
<1>16. CASE UNCHANGED vars
  BY <1>16 DEF vars, deployment, traces, TypeOK, Profile, Running, Stages, Verdicts,
       NonPass, Statuses, Answers, Gaps, LabInv, ConfigInv, ConfigOf, StageInv, StageOf
<1> QED BY <1>1, <1>2, <1>3, <1>4, <1>5, <1>6, <1>7, <1>8, <1>9, <1>10, <1>11, <1>12, <1>13,
     <1>14, <1>15, <1>16 DEF Next, Worker

\* The invariant holds in every reachable state.
LEMMA Invariance == Spec => []LabInv
<1>1. Init => LabInv
  BY InitType DEF Init, LabInv, StageInv, StageOf, AnswerInv, AnswerOf, ConfigInv, ConfigOf,
       Running
<1>2. LabInv /\ [Next]_vars => LabInv'
  BY NextType, NextStage, NextAnswer, NextConfig DEF LabInv
<1> QED BY <1>1, <1>2, PTL DEF Spec

\* Type correctness, for every set of events and labs and every bound.
THEOREM TypeCorrect == Spec => []TypeOK
BY Invariance, PTL DEF LabInv

(***************************************************************************)
(* What a step may do to the answer, the object, the alerts and findings.  *)
(***************************************************************************)
AnswerStep(f) ==
    \/ answer'[f] = answer[f]
    \/ /\ at[f] \in Running /\ ~answer'[f].cited
       /\ answer'[f].status = "CONFIG_ERROR" \/ (answer'[f].status = "ERROR" /\ at[f] # "config")
    \/ /\ at[f] = "respond" /\ answer'[f].cited
       /\ answer'[f].status = verdict[f] /\ evidence'[f] = evidence[f]
EvidenceStep(f) ==
    \/ evidence'[f] = evidence[f]
    \/ at[f] = "write" /\ "bucket" \notin env[f] /\ evidence'[f] = Append(evidence[f], verdict[f])
AlertStep(f, v) ==
    (<<f, v>> \in alerts') => (<<f, v>> \in alerts \/ (at[f] = "alert" /\ v = verdict[f]))
FindingStep(f) ==
    (f \in findings') => (f \in findings \/ (f \in Event /\ at[f] = "finding"))

\* The lab stays deployed, its gaps only close, what was published stays so.
LEMMA NextFixed == [Next]_vars => lab' = lab /\ gaps' \subseteq gaps /\ alerts \subseteq alerts'
BY DEF Next, Worker, vars, deployment, traces, Fire, Accept, Refuse, Expire, Start, Kill,
     Configure,
       CheckConfig, LoadRefused, Evaluate, EmitFinding, WriteEvidence, PublishAlert, Respond, Fault

\* An event gets an error for an answer, or the verdict of its run.
LEMMA NextAnswers == TypeOK /\ [Next]_vars => \A f \in Event : AnswerStep(f)
<1> SUFFICES ASSUME TypeOK, [Next]_vars, NEW f \in Event PROVE AnswerStep(f)
  OBVIOUS
<1> answer \in [Event -> Answers]
  BY DEF TypeOK
<1>1. ASSUME NEW e \in Event, Fire(e) PROVE AnswerStep(f)
  BY <1>1 DEF Fire, Move, deployment, traces, AnswerStep, Running
<1>2. ASSUME NEW e \in Event, Accept(e) PROVE AnswerStep(f)
  BY <1>2 DEF Accept, Move, deployment, traces, AnswerStep, Running
<1>3. ASSUME NEW e \in Event, Refuse(e) PROVE AnswerStep(f)
  BY <1>3 DEF Refuse, deployment, traces, AnswerStep, Running
<1>4. ASSUME NEW e \in Event, Expire(e) PROVE AnswerStep(f)
  BY <1>4 DEF Expire, Move, deployment, traces, AnswerStep, Running
<1>5. ASSUME NEW e \in Event, Start(e) PROVE AnswerStep(f)
  BY <1>5 DEF Start, Move, deployment, traces, AnswerStep, Running
<1>6. ASSUME NEW e \in Event, Kill(e) PROVE AnswerStep(f)
  BY <1>6 DEF Kill, deployment, traces, AnswerStep, Running
<1>7. ASSUME NEW e \in Event, CheckConfig(e) PROVE AnswerStep(f)
  BY <1>7 DEF CheckConfig, Answer, deployment, traces, AnswerStep, Running
<1>8. ASSUME NEW e \in Event, LoadRefused(e) PROVE AnswerStep(f)
  BY <1>8 DEF LoadRefused, Answer, deployment, traces, AnswerStep, Running
<1>9. ASSUME NEW e \in Event, Evaluate(e) PROVE AnswerStep(f)
  BY <1>9 DEF Evaluate, AfterLoad, deployment, traces, AnswerStep, Running
<1>10. ASSUME NEW e \in Event, EmitFinding(e) PROVE AnswerStep(f)
  BY <1>10 DEF EmitFinding, Move, AfterFinding, Escalation, deployment, traces, AnswerStep,
       Running
<1>11. ASSUME NEW e \in Event, WriteEvidence(e) PROVE AnswerStep(f)
  BY <1>11 DEF WriteEvidence, Answer, AfterWrite, Escalation, deployment, traces,
       AnswerStep, Running
<1>12. ASSUME NEW e \in Event, PublishAlert(e) PROVE AnswerStep(f)
  BY <1>12 DEF PublishAlert, Answer, deployment, traces, AnswerStep, Running
<1>13. ASSUME NEW e \in Event, Respond(e) PROVE AnswerStep(f)
  BY <1>13 DEF Respond, Answer, deployment, traces, AnswerStep, Running
<1>14. ASSUME NEW e \in Event, Fault(e) PROVE AnswerStep(f)
  BY <1>14 DEF Fault, Answer, deployment, traces, AnswerStep, Running
<1>15. ASSUME NEW g \in Gaps, Configure(g) PROVE AnswerStep(f)
  BY <1>15 DEF Configure, deployment, traces, AnswerStep, Running
<1>16. CASE UNCHANGED vars
  BY <1>16 DEF vars, deployment, traces, AnswerStep, Running
<1> QED BY <1>1, <1>2, <1>3, <1>4, <1>5, <1>6, <1>7, <1>8, <1>9, <1>10, <1>11, <1>12, <1>13,
     <1>14, <1>15, <1>16 DEF Next, Worker

\* A step leaves an object as it is or writes one more version.
LEMMA NextEvidence == TypeOK /\ [Next]_vars => \A f \in Event : EvidenceStep(f)
<1> SUFFICES ASSUME TypeOK, [Next]_vars, NEW f \in Event PROVE EvidenceStep(f)
  OBVIOUS
<1> evidence \in [Event -> Seq(Verdicts)]
  BY DEF TypeOK
<1>1. ASSUME NEW e \in Event, Fire(e) PROVE EvidenceStep(f)
  BY <1>1 DEF Fire, Move, deployment, traces, EvidenceStep
<1>2. ASSUME NEW e \in Event, Accept(e) PROVE EvidenceStep(f)
  BY <1>2 DEF Accept, Move, deployment, traces, EvidenceStep
<1>3. ASSUME NEW e \in Event, Refuse(e) PROVE EvidenceStep(f)
  BY <1>3 DEF Refuse, deployment, traces, EvidenceStep
<1>4. ASSUME NEW e \in Event, Expire(e) PROVE EvidenceStep(f)
  BY <1>4 DEF Expire, Move, deployment, traces, EvidenceStep
<1>5. ASSUME NEW e \in Event, Start(e) PROVE EvidenceStep(f)
  BY <1>5 DEF Start, Move, deployment, traces, EvidenceStep
<1>6. ASSUME NEW e \in Event, Kill(e) PROVE EvidenceStep(f)
  BY <1>6 DEF Kill, deployment, traces, EvidenceStep
<1>7. ASSUME NEW e \in Event, CheckConfig(e) PROVE EvidenceStep(f)
  BY <1>7 DEF CheckConfig, Answer, deployment, traces, EvidenceStep
<1>8. ASSUME NEW e \in Event, LoadRefused(e) PROVE EvidenceStep(f)
  BY <1>8 DEF LoadRefused, Answer, deployment, traces, EvidenceStep
<1>9. ASSUME NEW e \in Event, Evaluate(e) PROVE EvidenceStep(f)
  BY <1>9 DEF Evaluate, AfterLoad, deployment, traces, EvidenceStep
<1>10. ASSUME NEW e \in Event, EmitFinding(e) PROVE EvidenceStep(f)
  BY <1>10 DEF EmitFinding, Move, AfterFinding, Escalation, deployment, traces, EvidenceStep
<1>11. ASSUME NEW e \in Event, WriteEvidence(e) PROVE EvidenceStep(f)
  BY <1>11 DEF WriteEvidence, Answer, AfterWrite, Escalation, deployment, traces, EvidenceStep
<1>12. ASSUME NEW e \in Event, PublishAlert(e) PROVE EvidenceStep(f)
  BY <1>12 DEF PublishAlert, Answer, deployment, traces, EvidenceStep
<1>13. ASSUME NEW e \in Event, Respond(e) PROVE EvidenceStep(f)
  BY <1>13 DEF Respond, Answer, deployment, traces, EvidenceStep
<1>14. ASSUME NEW e \in Event, Fault(e) PROVE EvidenceStep(f)
  BY <1>14 DEF Fault, Answer, deployment, traces, EvidenceStep
<1>15. ASSUME NEW g \in Gaps, Configure(g) PROVE EvidenceStep(f)
  BY <1>15 DEF Configure, deployment, traces, EvidenceStep
<1>16. CASE UNCHANGED vars
  BY <1>16 DEF vars, deployment, traces, EvidenceStep
<1> QED BY <1>1, <1>2, <1>3, <1>4, <1>5, <1>6, <1>7, <1>8, <1>9, <1>10, <1>11, <1>12, <1>13,
     <1>14, <1>15, <1>16 DEF Next, Worker

\* Only a run at its alert publishes, and what it publishes is its verdict.
LEMMA NextAlerts == [Next]_vars => \A f, v : AlertStep(f, v)
<1> SUFFICES ASSUME [Next]_vars, NEW f, NEW v PROVE AlertStep(f, v)
  OBVIOUS
<1>1. ASSUME NEW e \in Event, Fire(e) PROVE AlertStep(f, v)
  BY <1>1 DEF Fire, Move, deployment, traces, AlertStep
<1>2. ASSUME NEW e \in Event, Accept(e) PROVE AlertStep(f, v)
  BY <1>2 DEF Accept, Move, deployment, traces, AlertStep
<1>3. ASSUME NEW e \in Event, Refuse(e) PROVE AlertStep(f, v)
  BY <1>3 DEF Refuse, deployment, traces, AlertStep
<1>4. ASSUME NEW e \in Event, Expire(e) PROVE AlertStep(f, v)
  BY <1>4 DEF Expire, Move, deployment, traces, AlertStep
<1>5. ASSUME NEW e \in Event, Start(e) PROVE AlertStep(f, v)
  BY <1>5 DEF Start, Move, deployment, traces, AlertStep
<1>6. ASSUME NEW e \in Event, Kill(e) PROVE AlertStep(f, v)
  BY <1>6 DEF Kill, deployment, traces, AlertStep
<1>7. ASSUME NEW e \in Event, CheckConfig(e) PROVE AlertStep(f, v)
  BY <1>7 DEF CheckConfig, Answer, deployment, traces, AlertStep
<1>8. ASSUME NEW e \in Event, LoadRefused(e) PROVE AlertStep(f, v)
  BY <1>8 DEF LoadRefused, Answer, deployment, traces, AlertStep
<1>9. ASSUME NEW e \in Event, Evaluate(e) PROVE AlertStep(f, v)
  BY <1>9 DEF Evaluate, AfterLoad, deployment, traces, AlertStep
<1>10. ASSUME NEW e \in Event, EmitFinding(e) PROVE AlertStep(f, v)
  BY <1>10 DEF EmitFinding, Move, AfterFinding, Escalation, deployment, traces, AlertStep
<1>11. ASSUME NEW e \in Event, WriteEvidence(e) PROVE AlertStep(f, v)
  BY <1>11 DEF WriteEvidence, Answer, AfterWrite, Escalation, deployment, traces, AlertStep
<1>12. ASSUME NEW e \in Event, PublishAlert(e) PROVE AlertStep(f, v)
  BY <1>12 DEF PublishAlert, Answer, deployment, traces, AlertStep
<1>13. ASSUME NEW e \in Event, Respond(e) PROVE AlertStep(f, v)
  BY <1>13 DEF Respond, Answer, deployment, traces, AlertStep
<1>14. ASSUME NEW e \in Event, Fault(e) PROVE AlertStep(f, v)
  BY <1>14 DEF Fault, Answer, deployment, traces, AlertStep
<1>15. ASSUME NEW g \in Gaps, Configure(g) PROVE AlertStep(f, v)
  BY <1>15 DEF Configure, deployment, traces, AlertStep
<1>16. CASE UNCHANGED vars
  BY <1>16 DEF vars, deployment, traces, AlertStep
<1> QED BY <1>1, <1>2, <1>3, <1>4, <1>5, <1>6, <1>7, <1>8, <1>9, <1>10, <1>11, <1>12, <1>13,
     <1>14, <1>15, <1>16 DEF Next, Worker

\* Only a run at its finding imports one.
LEMMA NextFindings == [Next]_vars => \A f : FindingStep(f)
<1> SUFFICES ASSUME [Next]_vars, NEW f PROVE FindingStep(f)
  OBVIOUS
<1>1. ASSUME NEW e \in Event, Fire(e) PROVE FindingStep(f)
  BY <1>1 DEF Fire, Move, deployment, traces, FindingStep
<1>2. ASSUME NEW e \in Event, Accept(e) PROVE FindingStep(f)
  BY <1>2 DEF Accept, Move, deployment, traces, FindingStep
<1>3. ASSUME NEW e \in Event, Refuse(e) PROVE FindingStep(f)
  BY <1>3 DEF Refuse, deployment, traces, FindingStep
<1>4. ASSUME NEW e \in Event, Expire(e) PROVE FindingStep(f)
  BY <1>4 DEF Expire, Move, deployment, traces, FindingStep
<1>5. ASSUME NEW e \in Event, Start(e) PROVE FindingStep(f)
  BY <1>5 DEF Start, Move, deployment, traces, FindingStep
<1>6. ASSUME NEW e \in Event, Kill(e) PROVE FindingStep(f)
  BY <1>6 DEF Kill, deployment, traces, FindingStep
<1>7. ASSUME NEW e \in Event, CheckConfig(e) PROVE FindingStep(f)
  BY <1>7 DEF CheckConfig, Answer, deployment, traces, FindingStep
<1>8. ASSUME NEW e \in Event, LoadRefused(e) PROVE FindingStep(f)
  BY <1>8 DEF LoadRefused, Answer, deployment, traces, FindingStep
<1>9. ASSUME NEW e \in Event, Evaluate(e) PROVE FindingStep(f)
  BY <1>9 DEF Evaluate, AfterLoad, deployment, traces, FindingStep
<1>10. ASSUME NEW e \in Event, EmitFinding(e) PROVE FindingStep(f)
  BY <1>10 DEF EmitFinding, Move, AfterFinding, Escalation, deployment, traces, FindingStep
<1>11. ASSUME NEW e \in Event, WriteEvidence(e) PROVE FindingStep(f)
  BY <1>11 DEF WriteEvidence, Answer, AfterWrite, Escalation, deployment, traces, FindingStep
<1>12. ASSUME NEW e \in Event, PublishAlert(e) PROVE FindingStep(f)
  BY <1>12 DEF PublishAlert, Answer, deployment, traces, FindingStep
<1>13. ASSUME NEW e \in Event, Respond(e) PROVE FindingStep(f)
  BY <1>13 DEF Respond, Answer, deployment, traces, FindingStep
<1>14. ASSUME NEW e \in Event, Fault(e) PROVE FindingStep(f)
  BY <1>14 DEF Fault, Answer, deployment, traces, FindingStep
<1>15. ASSUME NEW g \in Gaps, Configure(g) PROVE FindingStep(f)
  BY <1>15 DEF Configure, deployment, traces, FindingStep
<1>16. CASE UNCHANGED vars
  BY <1>16 DEF vars, deployment, traces, FindingStep
<1> QED BY <1>1, <1>2, <1>3, <1>4, <1>5, <1>6, <1>7, <1>8, <1>9, <1>10, <1>11, <1>12, <1>13,
     <1>14, <1>15, <1>16 DEF Next, Worker

\* An answer is cited with the version its run wrote last, and stays so.
LEMMA NextEvidenced == LabInv /\ AnswerIsEvidenced /\ [Next]_vars => AnswerIsEvidenced'
<1> DEFINE Good(f) == /\ Computed(f) => evidence[f] # <<>> /\ evidence[f][Len(evidence[f])] = answer[f].status
                      /\ answer[f].status = "PASS" => answer[f].cited
<1> SUFFICES ASSUME LabInv, AnswerIsEvidenced, [Next]_vars, NEW f \in Event PROVE Good(f)'
  BY DEF AnswerIsEvidenced
<1>1. AnswerStep(f) /\ EvidenceStep(f) /\ Good(f) /\ AnswerOf(f) /\ StageOf(f)
  BY NextAnswers, NextEvidence DEF LabInv, AnswerIsEvidenced, AnswerInv, StageInv
<1>2. CASE answer'[f] = answer[f]
  <2>1. Computed(f) => at[f] = "answered"
    BY <1>1 DEF AnswerOf, Computed, NoAnswer
  <2>2. Computed(f) => evidence'[f] = evidence[f]
    BY <1>1, <2>1 DEF EvidenceStep
  <2> QED BY <1>1, <1>2, <2>2 DEF Computed
<1>3. CASE ~answer'[f].cited /\ answer'[f].status \in {"CONFIG_ERROR", "ERROR"}
  BY <1>3 DEF Computed
<1>4. CASE at[f] = "respond" /\ answer'[f].cited /\ answer'[f].status = verdict[f] /\ evidence'[f] = evidence[f]
  BY <1>1, <1>4 DEF StageOf, Persisted, Computed
<1> QED BY <1>1, <1>2, <1>3, <1>4 DEF AnswerStep

\* An answer owed an alert is given after it was published.
LEMMA NextAnnounced == LabInv /\ AnswerIsAnnounced /\ [Next]_vars => AnswerIsAnnounced'
<1> SUFFICES ASSUME LabInv, AnswerIsAnnounced, [Next]_vars, NEW f \in Event,
                    Computed(f)', answer'[f].status \in lab.alerts
             PROVE  <<f, answer'[f].status>> \in alerts
  BY NextFixed DEF AnswerIsAnnounced
<1>1. AnswerStep(f) /\ StageOf(f)
  BY NextAnswers DEF LabInv, StageInv
<1>2. CASE answer'[f] = answer[f]
  BY <1>2 DEF AnswerIsAnnounced, Computed
<1>3. CASE at[f] = "respond" /\ answer'[f].status = verdict[f]
  BY <1>1, <1>3 DEF StageOf
<1> QED BY <1>1, <1>2, <1>3 DEF AnswerStep, Computed

\* No step opens a gap, for the deployment or for a run.
LEMMA NextGaps ==
    ASSUME TypeOK, [Next]_vars, NEW f \in Event
    PROVE  gaps' \union env'[f] \subseteq gaps \union env[f]
<1>1. ASSUME NEW e \in Event, Start(e) PROVE gaps' = gaps /\ env'[f] \in {env[f], gaps}
  BY <1>1 DEF Start, TypeOK
<1>2. ASSUME NEW g \in Gaps, Configure(g) PROVE gaps' \subseteq gaps /\ env' = env
  BY <1>2 DEF Configure
<1>3. ASSUME NEW e \in Event,
             Fire(e) \/ Accept(e) \/ Refuse(e) \/ Expire(e) \/ Kill(e) \/ Worker(e) \/ Fault(e)
      PROVE  gaps' = gaps /\ env' = env
  BY <1>3 DEF Fire, Accept, Refuse, Expire, Kill, Worker, Fault, CheckConfig, LoadRefused, Evaluate,
     EmitFinding, WriteEvidence, PublishAlert, Respond
<1>4. CASE UNCHANGED vars
  BY <1>4 DEF vars
<1> QED
  BY <1>1, <1>2, <1>3, <1>4 DEF Next

\* A run that lacks its bucket or its runtime, or is to start without, leaves nothing.
LEMMA NextUnconfigured ==
    LabInv /\ UnconfiguredLeavesNothing /\ [Next]_vars => UnconfiguredLeavesNothing'
<1> SUFFICES ASSUME LabInv, UnconfiguredLeavesNothing, [Next]_vars PROVE UnconfiguredLeavesNothing'
  OBVIOUS
<1> USE NextFixed
<1>1. ASSUME NEW f \in Event, "bucket" \in gaps' \union env'[f]
      PROVE  /\ evidence'[f] = <<>> /\ ~answer'[f].cited
             /\ f \in findings' => lab.finds = "before"
             /\ \A v \in NonPass : <<f, v>> \notin alerts'
  <2>0. "bucket" \in gaps \union env[f]
    BY <1>1, NextGaps DEF LabInv
  <2>1. /\ evidence[f] = <<>> /\ ~answer[f].cited
        /\ f \in findings => lab.finds = "before"
        /\ \A v \in NonPass : <<f, v>> \notin alerts
    BY <2>0 DEF UnconfiguredLeavesNothing
  <2>2. ConfigOf(f) /\ (at[f] \in Running => "bucket" \in env[f])
    BY <2>0 DEF LabInv, ConfigInv, ConfigOf
  <2>3. evidence'[f] = <<>>
    BY <2>1, <2>2, NextEvidence DEF LabInv, EvidenceStep, Running
  <2>4. ~answer'[f].cited
    BY <2>1, <2>2, NextAnswers DEF LabInv, AnswerStep, ConfigOf, Running
  <2>5. f \in findings' => lab.finds = "before"
    BY <2>1, <2>2, NextFindings DEF FindingStep, ConfigOf, Running
  <2>6. \A v \in NonPass : <<f, v>> \notin alerts'
    BY <2>1, <2>2, NextAlerts DEF AlertStep, ConfigOf, Running
  <2> QED BY <2>3, <2>4, <2>5, <2>6
<1>2. ASSUME NEW f \in Event, "runtime" \in gaps' \union env'[f]
      PROVE  f \notin findings' /\ answer'[f].status \in {"none", "CONFIG_ERROR"}
  <2>0. "runtime" \in gaps \union env[f]
    BY <1>2, NextGaps DEF LabInv
  <2>1. f \notin findings /\ answer[f].status \in {"none", "CONFIG_ERROR"}
    BY <2>0 DEF UnconfiguredLeavesNothing
  <2>2. at[f] \in Running => at[f] = "config" /\ "runtime" \in env[f]
    BY <2>0 DEF LabInv, ConfigInv, ConfigOf
  <2>3. f \notin findings'
    BY <2>1, <2>2, NextFindings DEF FindingStep, Running
  <2>4. answer'[f].status \in {"none", "CONFIG_ERROR"}
    BY <2>1, <2>2, NextAnswers DEF LabInv, AnswerStep, Running
  <2> QED BY <2>3, <2>4
<1> QED BY <1>1, <1>2 DEF UnconfiguredLeavesNothing

\* A version once written stays among the versions.
LEMMA VersionsGrow ==
    ASSUME NEW s \in Seq(Verdicts), NEW v \in Verdicts
    PROVE  {s[i] : i \in 1..Len(s)} \subseteq {Append(s, v)[i] : i \in 1..Len(Append(s, v))}
<1> SUFFICES ASSUME NEW i \in 1..Len(s)
             PROVE  i \in 1..Len(Append(s, v)) /\ Append(s, v)[i] = s[i]
  OBVIOUS
<1> QED OBVIOUS

\* No step takes a version away.
LEMMA NextVersions == TypeOK /\ [Next]_vars => \A f \in Event : Versions(f) \subseteq Versions(f)'
<1> SUFFICES ASSUME TypeOK, [Next]_vars, NEW f \in Event PROVE Versions(f) \subseteq Versions(f)'
  OBVIOUS
<1>1. evidence[f] \in Seq(Verdicts) /\ verdict[f] \in Verdicts
  BY DEF TypeOK
<1>2. CASE evidence'[f] = evidence[f]
  BY <1>2 DEF Versions
<1>3. CASE evidence'[f] = Append(evidence[f], verdict[f])
  BY <1>1, <1>3, VersionsGrow DEF Versions
<1> QED BY <1>2, <1>3, NextEvidence DEF EvidenceStep

\* The last version is one of the versions.
LEMMA PersistedVersion ==
    ASSUME TypeOK, NEW e \in Event, Persisted(e)
    PROVE  verdict[e] \in Versions(e)
<1>1. evidence[e] \in Seq(Verdicts) /\ evidence[e] # <<>>
  BY DEF TypeOK, Persisted
<1>2. Len(evidence[e]) \in 1..Len(evidence[e])
  BY <1>1
<1> QED BY <1>2 DEF Versions, Persisted

\* What a run publishes it has persisted before.
LEMMA NextAlertEvidenced == LabInv /\ AlertIsEvidenced /\ [Next]_vars => AlertIsEvidenced'
<1> SUFFICES ASSUME LabInv, AlertIsEvidenced, [Next]_vars, NEW f \in Event, NEW v \in Verdicts,
                    <<f, v>> \in alerts'
             PROVE  v # "PASS" /\ v \in Versions(f)'
  BY DEF AlertIsEvidenced
<1>1. Versions(f) \subseteq Versions(f)'
  BY NextVersions DEF LabInv
<1>2. CASE <<f, v>> \in alerts
  BY <1>1, <1>2 DEF AlertIsEvidenced
<1>3. CASE at[f] = "alert" /\ v = verdict[f]
  <2>1. Persisted(f) /\ v \in lab.alerts
    BY <1>3 DEF LabInv, StageInv, StageOf
  <2>2. v # "PASS"
    BY <2>1, LabFacts DEF LabInv, Profile, NonPass
  <2> QED BY <1>1, <1>3, <2>1, <2>2, PersistedVersion DEF LabInv
<1> QED BY <1>2, <1>3, NextAlerts DEF AlertStep

\* What becomes a finding was persisted as a FAIL before.
LEMMA NextFindingEvidenced == LabInv /\ FindingIsEvidenced /\ [Next]_vars => FindingIsEvidenced'
<1> SUFFICES ASSUME LabInv, FindingIsEvidenced, [Next]_vars, lab'.finds = "after", NEW f, f \in findings'
             PROVE  "FAIL" \in Versions(f)'
  BY DEF FindingIsEvidenced
<1>1. lab' = lab
  BY NextFixed
<1>2. f \in Event /\ Versions(f) \subseteq Versions(f)'
  BY NextVersions, NextType DEF LabInv, TypeOK
<1>3. CASE f \in findings
  BY <1>1, <1>2, <1>3 DEF FindingIsEvidenced
<1>4. CASE at[f] = "finding"
  <2>1. Persisted(f) /\ verdict[f] = "FAIL"
    BY <1>1, <1>2, <1>4 DEF LabInv, StageInv, StageOf
  <2> QED BY <1>2, <2>1, PersistedVersion DEF LabInv
<1> QED BY <1>3, <1>4, NextFindings DEF FindingStep

\* Nothing is answered at first.
LEMMA InitAnswer == Init => \A e \in Event : answer[e].status = "none" /\ ~answer[e].cited
<1> SUFFICES ASSUME Init, NEW e \in Event PROVE answer[e].status = "none" /\ ~answer[e].cited
  OBVIOUS
<1>1. answer[e] = NoAnswer
  BY DEF Init
<1>2. NoAnswer.status = "none" /\ ~NoAnswer.cited
  BY DEF NoAnswer
<1> QED BY <1>1, <1>2

\* For all events, labs and bounds: every answer that cites evidence is its last version's verdict.
THEOREM Evidenced == Spec => []AnswerIsEvidenced
<1>1. Init => AnswerIsEvidenced
  BY InitAnswer DEF AnswerIsEvidenced, Computed
<1> QED BY <1>1, Invariance, NextEvidenced, PTL DEF Spec

\* For all events, labs and bounds: every alert announces a persisted verdict that is not PASS.
THEOREM AlertEvidenced == Spec => []AlertIsEvidenced
<1>1. Init => AlertIsEvidenced
  BY InitAnswer DEF AlertIsEvidenced, Init
<1> QED BY <1>1, Invariance, NextAlertEvidenced, PTL DEF Spec

\* For all events, labs and bounds: every finding of a lab that writes first rests on a persisted FAIL.
THEOREM FindingEvidenced == Spec => []FindingIsEvidenced
<1>1. Init => FindingIsEvidenced
  BY InitAnswer DEF FindingIsEvidenced, Init
<1> QED BY <1>1, Invariance, NextFindingEvidenced, PTL DEF Spec

\* For all events, labs and bounds: every answer owed an alert was announced.
THEOREM Announced == Spec => []AnswerIsAnnounced
<1>1. Init => AnswerIsAnnounced
  BY InitAnswer DEF AnswerIsAnnounced, Computed
<1> QED BY <1>1, Invariance, NextAnnounced, PTL DEF Spec

\* For all events, labs and bounds: a deployment without its bucket or runtime leaves nothing,
\* nor does a run that started when they were missing.
THEOREM NothingUnconfigured == Spec => []UnconfiguredLeavesNothing
<1>1. Init => UnconfiguredLeavesNothing
  BY InitAnswer DEF UnconfiguredLeavesNothing, Init
<1> QED BY <1>1, Invariance, NextUnconfigured, PTL DEF Spec
=============================================================================
