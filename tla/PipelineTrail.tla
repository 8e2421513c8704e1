---------------------------- MODULE PipelineTrail ----------------------------
(***************************************************************************)
(* The pipeline implements the abstract trail of evidence: every step of a *)
(* worker, a reporter, the collector, the operator or time either leaves   *)
(* the trail of every run where it is or takes one run one step along it.  *)
(*                                                                         *)
(* The argument.  The stage of a run is read off its durable state, so     *)
(* the mapping needs that the durable state is never ahead of itself: an   *)
(* announced reply has a result record, and a report artifact has a        *)
(* complete analysis below it (TrailInv).  The rest comes from EvidenceInv *)
(* and from ReplyInv.                                                      *)
(***************************************************************************)
EXTENDS PipelineEvidence

\* In a module of this size the provers need more than their default time.
USE SMTT(30), ZenonT(30)

TrailInv ==
    \A r \in Runs : /\ Len(attempts[r]) # 0 => records[r] # NoOwner
                    /\ \A f \in ReportFile : files[r][f] # NoOwner => Analysed(r)

Sealed(r) == \A f \in ReportFile : files[r][f] # NoOwner

-----------------------------------------------------------------------------
(***************************************************************************)
(* Steps of the trail, in terms of the mapping                             *)
(***************************************************************************)
LEMMA TrailStutters ==
    ASSUME \A r \in Runs : StageOf(r)' = StageOf(r) /\ OutcomeOf(r)' = OutcomeOf(r),
           UNCHANGED mail
    PROVE  UNCHANGED Trail!trail
BY DEF Trail!trail

LEMMA TrailAdvances ==
    ASSUME NEW r \in Runs, StageOf(r) \in 1 .. 4, StageOf(r)' = StageOf(r) + 1,
           \A s \in Runs \ {r} : StageOf(s)' = StageOf(s),
           \A s \in Runs : OutcomeOf(s)' = OutcomeOf(s),
           UNCHANGED mail
    PROVE  Trail!Advance(r)
<1>1. PICK S : S = [s \in Runs |-> StageOf(s)]
  BY Zenon
<1>2. PICK T : T = [s \in Runs |-> StageOf(s)']
  BY Zenon
<1>3. T = [S EXCEPT ![r] = S[r] + 1] /\ S[r] < 5
  <2>1. DOMAIN S = Runs /\ DOMAIN T = Runs /\ S[r] = StageOf(r)
    BY <1>1, <1>2
  <2>2. \A s \in Runs : T[s] = IF s = r THEN S[r] + 1 ELSE S[s]
    BY <1>1, <1>2
  <2> QED
    BY <1>1, <1>2, <2>1, <2>2
<1>4. [s \in Runs |-> OutcomeOf(s)'] = [s \in Runs |-> OutcomeOf(s)]
  OBVIOUS
<1> QED
  BY <1>1, <1>2, <1>3, <1>4 DEF Trail!Advance

LEMMA TrailMails ==
    ASSUME NEW r \in Runs, StageOf(r) = 5, OutcomeOf(r) = "started", mail[r] = 0,
           mail' = [mail EXCEPT ![r] = 1],
           \A s \in Runs : StageOf(s)' = StageOf(s) /\ OutcomeOf(s)' = OutcomeOf(s)
    PROVE  Trail!Mail(r)
BY DEF Trail!Mail, Trail!Stage

LEMMA TrailCloses ==
    ASSUME NEW r \in Runs, StageOf(r) = 5, OutcomeOf(r) = "started",
           NEW o \in {"accepted", "failed", "unknown"}, o = "accepted" => mail[r] = 1,
           OutcomeOf(r)' = o,
           \A s \in Runs \ {r} : OutcomeOf(s)' = OutcomeOf(s),
           \A s \in Runs : StageOf(s)' = StageOf(s),
           UNCHANGED mail
    PROVE  Trail!Close(r)
<1>1. PICK S : S = [s \in Runs |-> OutcomeOf(s)]
  BY Zenon
<1>2. PICK T : T = [s \in Runs |-> OutcomeOf(s)']
  BY Zenon
<1>3. T = [S EXCEPT ![r] = o] /\ S[r] = "started"
  BY <1>1, <1>2
<1>4. [s \in Runs |-> StageOf(s)'] = [s \in Runs |-> StageOf(s)]
  OBVIOUS
<1>5. Trail!Stage[[s \in Runs |-> StageOf(s)][r]] = "announced"
  BY DEF Trail!Stage
<1>6. \E x \in {"accepted", "failed", "unknown"} :
        /\ x = "accepted" => mail[r] = 1
        /\ T = [S EXCEPT ![r] = x]
  BY <1>3, Zenon
<1> QED
  BY <1>1, <1>2, <1>3, <1>4, <1>5, <1>6, Zenon DEF Trail!Close

-----------------------------------------------------------------------------
(***************************************************************************)
(* The durable state is never ahead of itself                              *)
(***************************************************************************)
LEMMA InitTrailInv == Init => TrailInv
<1> SUFFICES ASSUME Init PROVE TrailInv
  OBVIOUS
<1>1. \A r \in Runs : Len(attempts[r]) = 0
  BY Zenon DEF Init
<1>2. \A r \in Runs, f \in ReportFile : files[r][f] = NoOwner
  BY DEF Init, File
<1> QED
  BY <1>1, <1>2, Zenon DEF TrailInv

LEMMA PublisherHasAnalysis ==
    ASSUME TypeOK, AnalysisInv, NEW p \in Procs, proc[p].pc \in ReportFile
    PROVE  Analysed(Job(p)) /\ Job(p) \in Runs
<1>1. proc[p].pc \in ReporterPc \ {"idle", "failed"} /\ proc[p].pc \notin WorkerPc
  BY DEF ReporterPc, WorkerPc, ReportFile, AnalysisFile
<1>2. p \notin Workers /\ ~At(p, "idle")
  BY <1>1, TypeParts DEF ProcOK, PcOf, At
<1> QED
  BY <1>1, <1>2, ReporterAt DEF AnalysisInv, MayReport, At

LEMMA StepTrailInv ==
    ASSUME TypeOK, EvidenceInv, TrailInv, [Next]_vars
    PROVE  TrailInv'
<1>1. ASSUME NEW r \in Runs, Len(attempts'[r]) # 0
      PROVE  records'[r] # NoOwner
  <2>1. CASE attempts'[r] = attempts[r]
    BY <1>1, <2>1, RecordsStay DEF TrailInv
  <2>2. ASSUME NEW p \in Procs, proc[p].pc \in Recorded, Job(p) = r
        PROVE  records'[r] # NoOwner
    BY <2>2, ProcsAreOwners, RecordsStay DEF EvidenceInv, BundleInv
  <2> QED
    BY <2>1, <2>2, AttemptStep
<1>2. ASSUME NEW r \in Runs, NEW f \in ReportFile, files'[r][f] # NoOwner
      PROVE  Analysed(r)'
  <2>1. Analysed(r)
    <3>1. CASE files[r][f] # NoOwner
      BY <3>1 DEF TrailInv
    <3>2. ASSUME NEW p \in Procs, Publish(p), files[r][f] = NoOwner
          PROVE  Analysed(r)
      <4>1. f \in File /\ Job(p) = r /\ proc[p].pc = f
        BY <1>2, <3>2, PublishFile DEF File
      <4> QED
        BY <4>1, PublisherHasAnalysis DEF EvidenceInv
    <3> QED
      BY <1>2, <3>1, <3>2, StepShape
      DEF Quiet, VerifyBundle, InsertRecord, BeginReportAttempt, Submit, FinishReportAttempt
  <2> QED
    BY <2>1, AnalysedStays
<1> QED
  BY <1>1, <1>2 DEF TrailInv

-----------------------------------------------------------------------------
(***************************************************************************)
(* Every step of the pipeline is a step of the trail                       *)
(***************************************************************************)
LEMMA StageIs ==
    ASSUME TypeOK, NEW r \in Runs
    PROVE  /\ StageOf(r) = IF Len(attempts[r]) # 0 THEN 5
                           ELSE IF records[r] # NoOwner THEN 4
                           ELSE IF Sealed(r) THEN 3
                           ELSE IF Analysed(r) THEN 2 ELSE 1
           /\ OutcomeOf(r) = IF Len(attempts[r]) = 0 THEN "started" ELSE attempts[r][1]
<1>1. attempts[r] \in Seq(Outcome)
  BY TypeParts DEF StoreOK
<1>2. attempts[r] = <<>> <=> Len(attempts[r]) = 0
  BY <1>1, EmptySeq
<1> QED
  BY <1>2 DEF StageOf, OutcomeOf, Sealed, Analysed

LEMMA StageIsPrime ==
    ASSUME TypeOK', NEW r \in Runs
    PROVE  /\ StageOf(r)' = IF Len(attempts'[r]) # 0 THEN 5
                            ELSE IF records'[r] # NoOwner THEN 4
                            ELSE IF Sealed(r)' THEN 3
                            ELSE IF Analysed(r)' THEN 2 ELSE 1
           /\ OutcomeOf(r)' = IF Len(attempts'[r]) = 0 THEN "started" ELSE attempts'[r][1]
<1>1. attempts'[r] \in Seq(Outcome)
  BY DEF TypeOK, Outcome
<1>2. attempts'[r] = <<>> <=> Len(attempts'[r]) = 0
  BY <1>1, EmptySeq
<1> QED
  BY <1>2 DEF StageOf, OutcomeOf, Sealed, Analysed

LEMMA SameEvidence ==
    ASSUME NEW r, UNCHANGED <<files[r], records[r], attempts[r]>>
    PROVE  StageOf(r)' = StageOf(r) /\ OutcomeOf(r)' = OutcomeOf(r)
BY DEF StageOf, OutcomeOf

TrailStep == (\E r \in Runs : Trail!Advance(r) \/ Trail!Mail(r) \/ Trail!Close(r))
               \/ UNCHANGED Trail!trail

LEMMA PublishTrail ==
    ASSUME TypeOK, TypeOK', EvidenceInv, TrailInv, [Next]_vars, NEW p \in Procs, Publish(p)
    PROVE  TrailStep
<1>1. PICK r \in Runs, f \in File : r = Job(p) /\ f = proc[p].pc
  BY PublishFile
<1>2. UNCHANGED <<records, attempts, mail>>
  BY DEF Publish
<1>3. CASE UNCHANGED files
  BY <1>2, <1>3, SameEvidence, TrailStutters DEF TrailStep
<1>4. CASE /\ files[r][f] = NoOwner
           /\ \A s \in Runs, g \in File : s # r \/ g # f => files'[s][g] = files[s][g]
  <2>0. ReportFile \subseteq File /\ AnalysisFile \subseteq File /\ "report.json" \in ReportFile
    BY DEF File, ReportFile
  <2>1. \A s \in Runs \ {r} : StageOf(s)' = StageOf(s) /\ OutcomeOf(s)' = OutcomeOf(s)
    BY <1>2, <1>4, <2>0 DEF StageOf, OutcomeOf
  <2>2. OutcomeOf(r)' = OutcomeOf(r)
    BY <1>2 DEF OutcomeOf
  <2>3. CASE f \in AnalysisFile
    <3>1. ~Analysed(r)
      BY <1>4, <2>3 DEF Analysed
    <3>2. files[r]["report.json"] = NoOwner
      BY <2>0, <3>1 DEF TrailInv
    <3>3. records[r] = NoOwner /\ Len(attempts[r]) = 0
      BY <2>0, <3>2, ProcsAreOwners DEF EvidenceInv, BundleInv, RecordBindsOneBundle, TrailInv
    <3>4. ~Sealed(r) /\ ~Sealed(r)'
      BY <1>4, <2>0, <2>3, <3>2 DEF Sealed, AnalysisFile
    <3> QED
      BY <1>2, <3>1, <3>3, <3>4, <2>1, <2>2, StageIs, StageIsPrime, TrailStutters, TrailAdvances
      DEF TrailStep
  <2>4. CASE f \in ReportFile
    <3>1. Analysed(r) /\ Analysed(r)'
      BY <1>1, <2>4, PublisherHasAnalysis, AnalysedStays DEF EvidenceInv
    <3>2. ~Sealed(r)
      BY <1>4, <2>4 DEF Sealed
    <3>3. records[r] = NoOwner
      BY <1>4, <2>4 DEF EvidenceInv, BundleInv, RecordBindsOneBundle
    <3>4. Len(attempts[r]) = 0
      BY <3>3 DEF TrailInv
    <3> QED
      BY <1>2, <3>1, <3>2, <3>3, <3>4, <2>1, <2>2, StageIs, StageIsPrime, TrailStutters,
         TrailAdvances
      DEF TrailStep
  <2> QED
    BY <2>3, <2>4 DEF File
<1> QED
  BY <1>1, <1>3, <1>4, PublishFile

LEMMA RecordTrail ==
    ASSUME TypeOK, TypeOK', ReplyInv, EvidenceInv, NEW p \in Procs, InsertRecord(p)
    PROVE  TrailStep
<1>1. proc[p].pc \in Past /\ proc[p].pc \in BeforeAttempt /\ Behind(proc[p].pc) = ReportFile
  BY DEF InsertRecord, At, Past, BeforeAttempt, Behind
<1>2. PICK r \in Runs : r = Job(p)
  BY <1>1, PastIsReporter
<1>3. UNCHANGED <<files, attempts, mail>>
  BY DEF InsertRecord
<1>4. CASE UNCHANGED records
  BY <1>3, <1>4, SameEvidence, TrailStutters DEF TrailStep
<1>5. CASE /\ records[r] \in {NoOwner, files[r]["manifest.json"]}
           /\ records' = [records EXCEPT ![r] = files[r]["manifest.json"]]
  <2>1. \A f \in ReportFile : files[r][f] = p /\ p # NoOwner
    BY <1>1, <1>2, ProcsAreOwners DEF EvidenceInv, BundleInv
  <2>2. Sealed(r) /\ Sealed(r)' /\ files[r]["manifest.json"] = p /\ p # NoOwner
    BY <1>3, <2>1 DEF Sealed, ReportFile
  <2>3. records'[r] = p /\ \A s \in Runs \ {r} : records'[s] = records[s]
    BY <1>5, <2>2, TypeParts DEF StoreOK
  <2>4. Len(attempts[r]) = 0
    BY <1>1, <1>2 DEF ReplyInv, AttemptsFollowReporter, ProcReply
  <2>5. \A s \in Runs \ {r} : StageOf(s)' = StageOf(s) /\ OutcomeOf(s)' = OutcomeOf(s)
    BY <1>3, <2>3, SameEvidence
  <2>6. OutcomeOf(r)' = OutcomeOf(r)
    BY <1>3 DEF OutcomeOf
  <2>7. StageOf(r)' = 4 /\ StageOf(r) \in {3, 4}
    BY <1>3, <2>2, <2>3, <2>4, StageIs, StageIsPrime
  <2> QED
    BY <1>3, <2>5, <2>6, <2>7, TrailStutters, TrailAdvances DEF TrailStep
<1> QED
  BY <1>2, <1>4, <1>5 DEF InsertRecord

LEMMA BeginTrail ==
    ASSUME TypeOK, TypeOK', ReplyInv, EvidenceInv, NEW p \in Procs, BeginReportAttempt(p)
    PROVE  TrailStep
<1>0. StoreOK
  BY TypeParts
<1>1. proc[p].pc \in Past /\ proc[p].pc \in BeforeAttempt /\ proc[p].pc \in Recorded
  BY DEF BeginReportAttempt, At, Past, BeforeAttempt, Recorded
<1>2. PICK r \in Runs : r = Job(p)
  BY <1>1, PastIsReporter
<1>3. UNCHANGED <<files, records, mail>>
  BY DEF BeginReportAttempt
<1>4. CASE UNCHANGED attempts
  BY <1>3, <1>4, SameEvidence, TrailStutters DEF TrailStep
<1>5. CASE attempts' = [attempts EXCEPT ![r] = Append(@, "started")]
  <2>1. Len(attempts[r]) = 0
    BY <1>1, <1>2 DEF ReplyInv, AttemptsFollowReporter, ProcReply
  <2>2. attempts[r] \in Seq(Outcome) /\ "started" \in Outcome
    BY <1>0 DEF StoreOK, Outcome
  <2>3. /\ Len(Append(attempts[r], "started")) = 1
        /\ Append(attempts[r], "started")[1] = "started"
    BY <2>1, <2>2, OutcomeSeq
  <2>4. /\ Len(attempts'[r]) = 1
        /\ attempts'[r][1] = "started"
        /\ \A s \in Runs \ {r} : attempts'[s] = attempts[s]
    BY <1>0, <1>5, <2>3 DEF StoreOK
  <2>5. records[r] # NoOwner
    BY <1>1, <1>2, ProcsAreOwners DEF EvidenceInv, BundleInv
  <2>6. \A s \in Runs \ {r} : StageOf(s)' = StageOf(s) /\ OutcomeOf(s)' = OutcomeOf(s)
    BY <1>3, <2>4, SameEvidence
  <2>7. StageOf(r) = 4 /\ StageOf(r)' = 5 /\ OutcomeOf(r)' = OutcomeOf(r)
    BY <2>1, <2>4, <2>5, StageIs, StageIsPrime
  <2> QED
    BY <1>3, <2>6, <2>7, TrailAdvances DEF TrailStep
<1> QED
  BY <1>2, <1>4, <1>5 DEF BeginReportAttempt

LEMMA SubmitTrail ==
    ASSUME TypeOK, ReplyInv, NEW p \in Procs, Submit(p)
    PROVE  TrailStep
<1>0. StoreOK
  BY TypeParts
<1>1. proc[p].pc \in Past /\ proc[p].pc \in InAttempt /\ At(p, "submit")
  BY DEF Submit, At, Past, InAttempt
<1>2. PICK r \in Runs : r = Job(p)
  BY <1>1, PastIsReporter
<1>3. UNCHANGED <<files, records, attempts>>
  BY DEF Submit
<1>4. Len(attempts[r]) = 1 /\ attempts[r][1] = "started" /\ mail[r] = 0
  BY <1>1, <1>2 DEF ReplyInv, AttemptsFollowReporter, ProcReply
<1>5. StageOf(r) = 5 /\ OutcomeOf(r) = "started"
  BY <1>4, StageIs
<1>6. \A s \in Runs : StageOf(s)' = StageOf(s) /\ OutcomeOf(s)' = OutcomeOf(s)
  BY <1>3, SameEvidence
<1>a. \A o \in SubmitOutcome : o.took \in {0, 1}
  BY DEF SubmitOutcome
<1>7. PICK n \in {0, 1} : mail' = [mail EXCEPT ![r] = @ + n]
  BY <1>2, <1>a, Zenon DEF Submit
<1>8. mail' = mail \/ mail' = [mail EXCEPT ![r] = 1]
  <2>1. mail \in [Runs -> Nat] /\ mail[r] + n = n
    BY <1>0, <1>4 DEF StoreOK
  <2> QED
    BY <1>4, <1>7, <2>1, Zenon
<1> QED
  BY <1>4, <1>5, <1>6, <1>8, TrailMails, TrailStutters DEF TrailStep

LEMMA FinishTrail ==
    ASSUME TypeOK, TypeOK', ReplyInv, NEW p \in Procs, FinishReportAttempt(p)
    PROVE  TrailStep
<1>0. StoreOK
  BY TypeParts
<1>1. /\ proc[p].pc \in Past
      /\ proc[p].pc \in InAttempt
      /\ proc[p].pc \in {"accepted", "refused", "uncertain"}
  BY DEF FinishReportAttempt, Past, InAttempt
<1>2. PICK r \in Runs : r = Job(p)
  BY <1>1, PastIsReporter
<1>3. UNCHANGED <<files, records, mail>>
  BY DEF FinishReportAttempt
<1>4. /\ Len(attempts[r]) = 1
      /\ attempts[r][1] = "started"
      /\ proc[p].attempt = 1
      /\ proc[p].pc = "accepted" => mail[r] = 1
  BY <1>1, <1>2 DEF ReplyInv, AttemptsFollowReporter, ProcReply, At
<1>5. StageOf(r) = 5 /\ OutcomeOf(r) = "started"
  BY <1>4, StageIs
<1>6. PICK o \in {"accepted", "failed", "unknown"} :
        /\ o = AttemptOutcome[proc[p].pc]
        /\ o = "accepted" => mail[r] = 1
  BY <1>1, <1>4, SMTT(30) DEF AttemptOutcome
<1>7. CASE UNCHANGED attempts
  BY <1>3, <1>7, SameEvidence, TrailStutters DEF TrailStep
<1>8. CASE attempts' = [attempts EXCEPT ![r][1] = o]
  <2>1. attempts[r] \in Seq(Outcome) /\ o \in Outcome
    BY <1>0 DEF StoreOK, Outcome
  <2>2. Len([attempts[r] EXCEPT ![1] = o]) = 1 /\ [attempts[r] EXCEPT ![1] = o][1] = o
    BY <1>4, <2>1, OutcomeExcept
  <2>3. attempts' = [attempts EXCEPT ![r] = [attempts[r] EXCEPT ![1] = o]]
    BY <1>8
  <2>4. /\ Len(attempts'[r]) = 1
        /\ attempts'[r][1] = o
        /\ \A s \in Runs \ {r} : attempts'[s] = attempts[s]
    BY <1>0, <2>2, <2>3 DEF StoreOK
  <2>5. \A s \in Runs \ {r} : StageOf(s)' = StageOf(s) /\ OutcomeOf(s)' = OutcomeOf(s)
    BY <1>3, <2>4, SameEvidence
  <2>6. StageOf(r)' = 5 /\ OutcomeOf(r)' = o
    BY <2>4, StageIsPrime
  <2>7. \A s \in Runs : StageOf(s)' = StageOf(s)
    BY <1>5, <2>5, <2>6
  <2> QED
    BY <1>3, <1>5, <1>6, <2>5, <2>6, <2>7, TrailCloses DEF TrailStep
<1> QED
  BY <1>2, <1>4, <1>6, <1>7, <1>8 DEF FinishReportAttempt

LEMMA StepTrail ==
    ASSUME TypeOK, TypeOK', ReplyInv, EvidenceInv, TrailInv, [Next]_vars
    PROVE  [Trail!TrailNext]_(Trail!trail)
<1>1. CASE UNCHANGED <<files, records, attempts, mail>>
  BY <1>1, SameEvidence, TrailStutters
<1>2. CASE TrailStep
  BY <1>2 DEF TrailStep, Trail!TrailNext
<1> QED
  BY <1>1, <1>2, StepShape, PublishTrail, RecordTrail, BeginTrail, SubmitTrail, FinishTrail, ZenonT(30)
  DEF Quiet, VerifyBundle

LEMMA InitTrail == Init => Trail!TrailInit
<1> SUFFICES ASSUME Init PROVE Trail!TrailInit
  OBVIOUS
<1>1. \A r \in Runs : StageOf(r) = 1 /\ OutcomeOf(r) = "started"
  BY Zenon DEF Init, StageOf, OutcomeOf, File, ReportFile, AnalysisFile
<1> QED
  BY <1>1 DEF Init, Trail!TrailInit

\* The evidence of every run grows in the one order the trail allows, its
\* reply is mailed once and after all of it, and an attempt is closed as
\* accepted only if it was mailed: the pipeline implements EvidenceTrail.
THEOREM PipelineImplementsTrail == Spec => ImplementsTrail
<1>1. TypeOK /\ TypeOK' /\ ReplyInv /\ EvidenceInv /\ TrailInv /\ [Next]_vars
        => [Trail!TrailNext]_(Trail!trail) /\ TrailInv'
  BY StepTrail, StepTrailInv
<1> QED
  BY <1>1, InitType, StepType, InitReply, StepReply, InitEvidence, StepEvidence, InitTrailInv,
     InitTrail, PTL
  DEF Spec, ImplementsTrail, Trail!TrailSpec

-----------------------------------------------------------------------------
(***************************************************************************)
(* The analytics stream agrees with the tables                             *)
(***************************************************************************)
\* A process with a job was announced by the event of its claim, and the
\* source id of an event of an attempt names the outcome.
EventsInv ==
    /\ EventsFollowState
    /\ \A p \in Procs : ~At(p, "idle") =>
         \E e \in events : e.type = "run_started" /\ e.run = Job(p)
    /\ \A e \in events : e.attempt > 0 =>
         e.suffix = e.outcome /\ e.type = "report_delivery_state"

\* The event an action inserts, if any.
EventOf(type, id, n, text) ==
    \/ type \in {"run_started", "run_lifecycle"} /\ n = 0 /\ UNCHANGED attempts
    \/ /\ type = "run_completed" /\ n = 0 /\ UNCHANGED attempts
       /\ \E p \in Procs : At(p, "finish") /\ Job(p) = id
    \/ type = "report_delivery_state" /\ n = 0 /\ UNCHANGED attempts
    \/ /\ type = "report_delivery_state"
       /\ n \in DOMAIN attempts'[id]
       /\ attempts'[id][n] = text
       /\ \A r \in Runs : \A k \in DOMAIN attempts'[r] :
            r # id \/ k # n => k \in DOMAIN attempts[r] /\ attempts'[r][k] = attempts[r][k]

EventStep ==
    \/ UNCHANGED <<events, attempts>>
    \/ \E type, n, sf, text : \E id \in Runs :
         /\ EventTx(type, id, n, sf, text)
         /\ n \in Nat
         /\ n > 0 => sf = text
         /\ EventOf(type, id, n, text)

LEMMA QueueEvent ==
    ASSUME NEW type \in {"run_started", "run_lifecycle", "report_delivery_state"},
           NEW id \in Runs, NEW sf, NEW text, EventTx(type, id, 0, sf, text), UNCHANGED attempts
    PROVE  EventStep
<1>1. EventOf(type, id, 0, text)
  BY DEF EventOf
<1>2. PICK n : n = 0 /\ n \in Nat /\ ~(n > 0)
  OBVIOUS
<1> QED
  BY <1>1, <1>2 DEF EventStep

LEMMA LoopEvents ==
    ASSUME TypeOK, NEW p \in Procs,
           (\E r \in Runs : ClaimJob(p, r)) \/ RetryJob(p) \/ FinishAnalysis(p)
             \/ FinishReport(p) \/ Quarantine(p)
    PROVE  EventStep
<1>0. ProcOK
  BY TypeParts
<1>1. CASE \E r \in Runs : ClaimJob(p, r)
  BY <1>1, QueueEvent, Zenon DEF ClaimJob, Claim
<1>2. CASE ~At(p, "idle")
  <2>r. PICK r \in Runs : r = Job(p)
    BY <1>0, <1>2, JobIsRun
  <2>1. CASE RetryJob(p)
    BY <2>1, <2>r, QueueEvent, Zenon DEF RetryJob, Retry
  <2>2. CASE FinishAnalysis(p)
    <3>1. /\ EventTx("run_completed", r, 0, "", "report_pending")
          /\ At(p, "finish")
          /\ UNCHANGED attempts
      BY <2>2, <2>r, Zenon DEF FinishAnalysis, Transition
    <3>2. EventOf("run_completed", r, 0, "report_pending")
      BY <2>r, <3>1, Zenon DEF EventOf
    <3>3. PICK n : n = 0 /\ n \in Nat /\ ~(n > 0)
      OBVIOUS
    <3> QED
      BY <3>1, <3>2, <3>3, Zenon DEF EventStep
  <2>3. CASE FinishReport(p)
    BY <2>3, <2>r, QueueEvent, Zenon DEF FinishReport, Transition
  <2>4. CASE Quarantine(p)
    BY <2>4, <2>r, QueueEvent DEF Quarantine, QuarantineReply
  <2>5. CASE \E s \in Runs : ClaimJob(p, s)
    BY <1>1, <2>5
  <2> QED
    BY <2>1, <2>2, <2>3, <2>4, <2>5
<1> QED
  BY <1>1, <1>2 DEF RetryJob, FinishAnalysis, FinishReport, Quarantine, At

LEMMA BeginEvents ==
    ASSUME TypeOK, NEW p \in Procs, BeginReportAttempt(p)
    PROVE  EventStep
<1>0. StoreOK
  BY TypeParts
<1>1. PICK r \in Runs : r = Job(p)
  BY PastIsReporter DEF BeginReportAttempt, At, Past, BeforeAttempt
<1>2. PICK n : n = Len(attempts[r]) + 1
  OBVIOUS
<1>3. CASE UNCHANGED <<events, attempts>>
  BY <1>3 DEF EventStep
<1>4. CASE /\ attempts' = [attempts EXCEPT ![r] = Append(@, "started")]
           /\ EventTx("report_delivery_state", r, n, "started", "started")
  <2>1. attempts[r] \in Seq(Outcome) /\ "started" \in Outcome
    BY <1>0 DEF StoreOK, Outcome
  <2>2. PICK t : t = Append(attempts[r], "started")
    BY Zenon
  <2>3. /\ t \in Seq(Outcome)
        /\ Len(t) = n
        /\ t[n] = "started"
        /\ \A i \in 1 .. Len(attempts[r]) : t[i] = attempts[r][i]
    BY <1>2, <2>1, <2>2, OutcomeSeq
  <2>4. /\ n \in Nat /\ n > 0
        /\ DOMAIN t = 1 .. n
        /\ DOMAIN attempts[r] = 1 .. (n - 1)
        /\ Len(attempts[r]) = n - 1
    BY <1>2, <2>1, <2>3, LenProperties
  <2>5. attempts'[r] = t /\ \A s \in Runs \ {r} : attempts'[s] = attempts[s]
    BY <1>0, <1>4, <2>2 DEF StoreOK
  <2>6. /\ n \in DOMAIN attempts'[r]
        /\ attempts'[r][n] = "started"
        /\ \A s \in Runs : \A k \in DOMAIN attempts'[s] :
             s # r \/ k # n => k \in DOMAIN attempts[s] /\ attempts'[s][k] = attempts[s][k]
    <3>1. \A k \in 1 .. n : k # n => k \in 1 .. (n - 1)
      BY <2>4
    <3>2. \A k \in DOMAIN t : k # n => k \in DOMAIN attempts[r] /\ t[k] = attempts[r][k]
      BY <2>3, <2>4, <3>1
    <3>3. n \in DOMAIN t /\ t[n] = "started"
      BY <2>3, <2>4
    <3>4. ASSUME NEW s \in Runs, NEW k \in DOMAIN attempts'[s], s # r \/ k # n
          PROVE  k \in DOMAIN attempts[s] /\ attempts'[s][k] = attempts[s][k]
      BY <2>5, <3>2, <3>4
    <3> QED
      BY <2>5, <3>3, <3>4
  <2>7. EventOf("report_delivery_state", r, n, "started")
    BY <2>6 DEF EventOf
  <2> QED
    BY <1>4, <2>4, <2>7 DEF EventStep
<1> QED
  BY <1>1, <1>2, <1>3, <1>4 DEF BeginReportAttempt

LEMMA FinishEvents ==
    ASSUME TypeOK, ReplyInv, NEW p \in Procs, FinishReportAttempt(p)
    PROVE  EventStep
<1>0. StoreOK
  BY TypeParts
<1>1. proc[p].pc \in InAttempt /\ proc[p].pc \in Past
  BY DEF FinishReportAttempt, Past, InAttempt
<1>2. PICK r \in Runs : r = Job(p)
  BY <1>1, PastIsReporter
<1>3. proc[p].attempt = 1 /\ Len(attempts[r]) = 1
  BY <1>1, <1>2 DEF ReplyInv, AttemptsFollowReporter, ProcReply
<1>4. PICK o : o = AttemptOutcome[proc[p].pc]
  OBVIOUS
<1>5. CASE UNCHANGED <<events, attempts>>
  BY <1>5 DEF EventStep
<1>6. CASE /\ attempts' = [attempts EXCEPT ![r][1] = o]
           /\ EventTx("report_delivery_state", r, 1, o, o)
  <2>1. attempts[r] \in Seq(Outcome)
    BY <1>0 DEF StoreOK
  <2>2. DOMAIN attempts[r] = {1}
    BY <1>3, <2>1, LenProperties
  <2>3. PICK t : t = [attempts[r] EXCEPT ![1] = o]
    BY Zenon
  <2>4. DOMAIN t = {1} /\ t[1] = o
    BY <2>2, <2>3
  <2>5. attempts'[r] = t /\ \A s \in Runs \ {r} : attempts'[s] = attempts[s]
    BY <1>0, <1>6, <2>3 DEF StoreOK
  <2>6. ASSUME NEW s \in Runs, NEW k \in DOMAIN attempts'[s], s # r \/ k # 1
        PROVE  k \in DOMAIN attempts[s] /\ attempts'[s][k] = attempts[s][k]
    BY <2>4, <2>5, <2>6
  <2>7. EventOf("report_delivery_state", r, 1, o)
    BY <2>4, <2>5, <2>6 DEF EventOf
  <2>8. PICK n : n = 1 /\ n \in Nat
    OBVIOUS
  <2> QED
    BY <1>6, <2>7, <2>8 DEF EventStep
<1> QED
  BY <1>2, <1>3, <1>4, <1>5, <1>6 DEF FinishReportAttempt

LEMMA EveryEvent ==
    ASSUME TypeOK, ReplyInv, [Next]_vars
    PROVE  EventStep
<1>1. CASE UNCHANGED <<events, attempts>>
  BY <1>1 DEF EventStep
<1>2. ASSUME NEW p \in Procs, Step(p) \/ Crash(p) PROVE EventStep
  <2>1. CASE Recover(p) \/ Publish(p) \/ LeaseLost(p) \/ Crash(p) \/ Analyze(p)
    BY <1>1, <2>1 DEF Recover, RecoverExpired, Publish, LeaseLost, Crash, Analyze
  <2>2. CASE ReadAnalysis(p) \/ VerifyBundle(p) \/ InsertRecord(p) \/ Submit(p)
    BY <1>1, <2>2, Zenon DEF ReadAnalysis, VerifyBundle, InsertRecord, Submit
  <2> QED
    BY <1>2, <2>1, <2>2, LoopEvents, BeginEvents, FinishEvents DEF Step, Loop, Work, Report
<1>3. ASSUME NEW r \in Runs, Environment(r) PROVE EventStep
  BY <1>1, <1>3, Zenon
  DEF Environment, Enqueue, Replay, Redeliver, LeaseExpires, BecomesDue
<1> QED
  BY <1>1, <1>2, <1>3 DEF Next, vars

LEMMA StepEvents ==
    ASSUME TypeOK, ReplyInv, EvidenceInv, EventsInv, [Next]_vars
    PROVE  EventsInv'
<1>a. events \subseteq Event
  BY TypeParts
<1>b. \A e \in events : e.run \in Runs
  BY <1>a DEF Event
<1>1. events \subseteq events'
  BY EveryEvent, EventAdds DEF EventStep
<1>2. ASSUME NEW q \in Procs, proc'[q].pc # "idle"
      PROVE  \E e \in events' : e.type = "run_started" /\ e.run = proc'[q].run
  <2>1. Moves(q)
    BY AllMove
  <2>2. CASE Claimed(q)
    BY <2>2 DEF Claimed
  <2>3. CASE proc[q].pc # "idle" /\ proc'[q].run = proc[q].run
    BY <1>1, <2>3 DEF EventsInv, At, Job
  <2> QED
    BY <1>2, <2>1, <2>2, <2>3 DEF Moves
<1>3. ASSUME NEW e \in events
      PROVE  /\ e.type = "run_completed" =>
                  /\ \E s \in events' : s.type = "run_started" /\ s.run = e.run
                  /\ files'[e.run]["verdict.json"] # NoOwner
             /\ e.attempt > 0 =>
                  /\ e.suffix = e.outcome /\ e.type = "report_delivery_state"
                  /\ e.attempt \in DOMAIN attempts'[e.run]
                  /\ e.outcome \in {"started", attempts'[e.run][e.attempt]}
  <2>1. "verdict.json" \in File
    BY DEF File, AnalysisFile
  <2>2. PICK r \in Runs : r = e.run
    BY <1>b
  <2>3. e.type = "run_completed" =>
          /\ \E s \in events' : s.type = "run_started" /\ s.run = r
          /\ files'[r]["verdict.json"] # NoOwner
    <3>1. e.type = "run_completed" =>
            /\ \E s \in events : s.type = "run_started" /\ s.run = r
            /\ files[r]["verdict.json"] # NoOwner
      BY <2>2 DEF EventsInv, EventsFollowState
    <3> QED
      BY <1>1, <2>1, <3>1, FilesStay
  <2>4. e.attempt > 0 =>
          /\ e.suffix = e.outcome /\ e.type = "report_delivery_state"
          /\ e.attempt \in DOMAIN attempts[r]
          /\ e.outcome \in {"started", attempts[r][e.attempt]}
    BY <2>2 DEF EventsInv, EventsFollowState
  <2>5. \A n \in DOMAIN attempts[r] :
          /\ n \in DOMAIN attempts'[r]
          /\ attempts[r][n] # "started" => attempts'[r][n] = attempts[r][n]
    BY AttemptStep
  <2> QED
    BY <2>2, <2>3, <2>4, <2>5, Zenon
<1>4. CASE UNCHANGED <<events, attempts>>
  <2>1. \A r \in Runs : \A n \in DOMAIN attempts'[r] :
          \E e \in events' : e.run = r /\ e.attempt = n /\ e.outcome = attempts'[r][n]
    BY <1>4 DEF EventsInv, EventsFollowState
  <2>2. \A e \in events' : e \in events
    BY <1>4
  <2>3. EventsFollowState'
    BY <1>3, <2>1, <2>2 DEF EventsFollowState
  <2>4. \A e \in events' : e.attempt > 0 =>
          e.suffix = e.outcome /\ e.type = "report_delivery_state"
    BY <1>3, <2>2
  <2> QED
    BY <1>2, <2>3, <2>4 DEF EventsInv, At, Job
<1>5. ASSUME NEW type, NEW n \in Nat, NEW sf, NEW text, NEW id \in Runs,
             EventTx(type, id, n, sf, text), n > 0 => sf = text, EventOf(type, id, n, text)
      PROVE  EventsInv'
  <2>1. /\ \E e \in events' : e.type = type /\ e.run = id /\ e.attempt = n /\ e.suffix = sf
        /\ \A e \in events' \ events : /\ e.type = type
                                       /\ e.run = id
                                       /\ e.attempt = n
                                       /\ e.suffix = sf
                                       /\ e.outcome = text
    BY <1>5, EventAdds
  <2>2. ASSUME NEW e \in events' \ events
        PROVE  /\ e.type = "run_completed" =>
                    /\ \E s \in events' : s.type = "run_started" /\ s.run = e.run
                    /\ files'[e.run]["verdict.json"] # NoOwner
               /\ e.attempt > 0 =>
                    /\ e.suffix = e.outcome /\ e.type = "report_delivery_state"
                    /\ e.attempt \in DOMAIN attempts'[e.run]
                    /\ e.outcome \in {"started", attempts'[e.run][e.attempt]}
    <3>1. /\ e.type = type
          /\ e.run = id
          /\ e.attempt = n
          /\ e.suffix = sf
          /\ e.outcome = text
      BY <2>1
    <3>2. ASSUME type = "run_completed"
          PROVE  /\ \E s \in events' : s.type = "run_started" /\ s.run = id
                 /\ files'[id]["verdict.json"] # NoOwner
      <4>1. PICK p \in Procs : At(p, "finish") /\ Job(p) = id
        BY <1>5, <3>2 DEF EventOf
      <4>2. Analysed(id)'
        BY <4>1, AnalysedStays DEF EvidenceInv, AnalysisInv, MayReport, At
      <4>3. \E s \in events : s.type = "run_started" /\ s.run = id
        BY <4>1 DEF EventsInv, At
      <4> QED
        BY <1>1, <4>2, <4>3 DEF Analysed, AnalysisFile
    <3>3. ASSUME n > 0
          PROVE  /\ type = "report_delivery_state"
                 /\ n \in DOMAIN attempts'[id]
                 /\ attempts'[id][n] = text
      <4>1. ~(n = 0)
        BY <3>3
      <4>2. EventOf(type, id, n, text)
        BY <1>5
      <4> QED
        BY <4>1, <4>2, Zenon DEF EventOf
    <3> QED
      BY <1>5, <3>1, <3>2, <3>3
  <2>3. ASSUME NEW r \in Runs, NEW k \in DOMAIN attempts'[r]
        PROVE  \E e \in events' : /\ e.run = r
                                  /\ e.attempt = k
                                  /\ e.outcome = attempts'[r][k]
    <3>1. CASE k \in DOMAIN attempts[r] /\ attempts'[r][k] = attempts[r][k]
      <4>1. PICK e \in events : e.run = r /\ e.attempt = k /\ e.outcome = attempts[r][k]
        BY <3>1, ZenonT(30) DEF EventsInv, EventsFollowState
      <4>2. e \in events' /\ e.outcome = attempts'[r][k]
        BY <1>1, <3>1, <4>1, Zenon
      <4> QED
        BY <4>1, <4>2, Zenon
    <3>2. CASE r = id /\ k = n /\ n > 0 /\ attempts'[id][n] = text
      <4>1. PICK e \in events' : e.type = type /\ e.run = id /\ e.attempt = n /\ e.suffix = sf
        BY <2>1
      <4>2. e.suffix = e.outcome
        BY <1>3, <2>2, <3>2, <4>1
      <4> QED
        BY <1>5, <3>2, <4>1, <4>2, Zenon
    <3>3. attempts'[r] \in Seq(Outcome) /\ k > 0
      <4>1. attempts'[r] \in Seq(Outcome)
        BY StepType, Zenon DEF TypeOK, Outcome
      <4> QED
        BY <4>1, LenProperties
    <3> QED
      BY <1>5, <2>3, <3>1, <3>2, <3>3, Zenon DEF EventOf
  <2>4. EventsFollowState'
    BY <1>3, <2>2, <2>3, Zenon DEF EventsFollowState
  <2>5. \A e \in events' : e.attempt > 0 =>
          e.suffix = e.outcome /\ e.type = "report_delivery_state"
    BY <1>3, <2>2, Zenon
  <2> QED
    BY <1>2, <2>4, <2>5 DEF EventsInv, At, Job
<1> QED
  BY <1>4, <1>5, EveryEvent DEF EventStep

LEMMA InitEvents == Init => EventsInv
<1> SUFFICES ASSUME Init PROVE EventsInv
  OBVIOUS
<1>1. events = {} /\ \A r \in Runs : attempts[r] = <<>>
  BY DEF Init, QueueInit
<1>2. \A p \in Procs : At(p, "idle")
  BY DEF Init, Idle, At
<1> QED
  BY <1>1, <1>2 DEF EventsInv, EventsFollowState

\* The analytics stream and the tables agree at every commit, for every number
\* of processes: no completed run without its start and its verdict, and the
\* events of a reply attempt are those of its row.
THEOREM EventsAgree == Spec => []EventsFollowState
<1>1. EventsInv => EventsFollowState
  BY DEF EventsInv
<1>2. TypeOK /\ ReplyInv /\ EvidenceInv /\ EventsInv /\ [Next]_vars => EventsInv'
  BY StepEvents
<1> QED
  BY <1>1, <1>2, InitType, StepType, InitReply, StepReply, InitEvidence, StepEvidence,
     InitEvents, PTL
  DEF Spec
=============================================================================
