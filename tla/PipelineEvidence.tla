-------------------------- MODULE PipelineEvidence --------------------------
(***************************************************************************)
(* The evidence of a run, for any number of runs, deliveries, workers,     *)
(* reporters, attempts and stops: a result record binds one bundle, the    *)
(* report phase has its analysis, a closed run is truthful, and nothing    *)
(* published is rewritten.                                                 *)
(*                                                                         *)
(* The argument.  The lease keeps nobody apart: Retry moves a row without  *)
(* looking at its owner, and a process whose lease ran out works on.  What *)
(* holds is tied to the counters instead.  A worker at "finish" and every  *)
(* reporter with a job have the analysis of the run on disk                *)
(* (AnalysisInv); a reporter past report.json wrote by itself each         *)
(* artifact its counter has left behind (BundleInv); and on a run that is  *)
(* closed no reporter is past report.json any more (ClosedInv), so nobody  *)
(* is left who could change what the closing transaction relied on.        *)
(***************************************************************************)
EXTENDS PipelineProofs

\* In a module of this size the provers need more than their default time.
USE SMTT(30), ZenonT(30)

Reporting == {"report_pending", "report_leased", "report_dead",
              "complete", "reply_suppressed"}

Closed == {"complete", "reply_suppressed"}

Analysed(r) == \A f \in AnalysisFile : files[r][f] # NoOwner

\* The counters of a reporter whose run has a result record.
Recorded == {"destination", "reply_suppressed", "submit", "accepted", "refused",
             "uncertain", "complete", "unknown"}

\* What lets a process move the row of its run into the report phase.
MayReport(p) == proc[p].pc = "finish" \/ (p \notin Workers /\ proc[p].pc # "idle")

-----------------------------------------------------------------------------
(***************************************************************************)
(* Where the state of a row comes from                                     *)
(***************************************************************************)
Origin(r) ==
    \/ runs'[r].state = runs[r].state
    \/ runs'[r].state \notin Reporting
    \/ runs'[r].state \notin Closed /\ runs[r].state \in Reporting
    \/ runs'[r].state \notin Closed /\ \E p \in Procs : Job(p) = r /\ MayReport(p)
    \/ \E p \in Procs : FinishReport(p) /\ Job(p) = r /\ runs'[r].state = proc[p].pc

LEMMA StateEdit ==
    ASSUME RowsOK, NEW id \in Runs, NEW new \in Row, runs' = [runs EXCEPT ![id] = new]
    PROVE  /\ runs'[id].state = new.state
           /\ \A r \in Runs \ {id} : runs'[r].state = runs[r].state
BY DEF RowsOK

LEMMA UnleasedState ==
    ASSUME RowsOK, NEW id \in Runs, NEW st \in RunState,
           runs' = [runs EXCEPT ![id] = Unleased(@, st)]
    PROVE  /\ runs'[id].state = st
           /\ \A r \in Runs \ {id} : runs'[r].state = runs[r].state
<1>1. PICK new : new = Unleased(runs[id], st)
  OBVIOUS
<1>2. new \in Row /\ new.state = st
  BY <1>1, UnleasedFields DEF RowsOK
<1>3. runs' = [runs EXCEPT ![id] = new]
  BY <1>1
<1> QED
  BY <1>2, <1>3, StateEdit, Zenon

LEMMA ClaimState ==
    ASSUME RowsOK, NEW id \in Runs, NEW ow \in Owners, NEW ph \in Phase, Claim(ow, ph, id)
    PROVE  /\ runs[id].state = Waiting[ph]
           /\ runs'[id].state = Leased[ph]
           /\ \A r \in Runs \ {id} : runs'[r].state = runs[r].state
<1>1. runs[id] \in Row /\ runs \in [Runs -> Row]
  BY DEF RowsOK
<1>2. /\ runs[id].state = Waiting[ph]
      /\ runs' = [runs EXCEPT ![id].state = Leased[ph], ![id].owner = ow, ![id].expired = FALSE]
  BY Zenon DEF Claim
<1> QED
  BY <1>1, <1>2 DEF Row

LEMMA RecoverState ==
    ASSUME RowsOK, RecoverExpired, NEW r \in Runs
    PROVE  \/ runs'[r].state = runs[r].state
           \/ runs'[r].state = "queued"
           \/ runs'[r].state = "report_pending" /\ runs[r].state = "report_leased"
<1>1. runs[r] \in Row /\ {"queued", "report_pending"} \subseteq RunState
  BY DEF RowsOK, RunState
<1>2. CASE ~Expired(r)
  BY <1>2 DEF RecoverExpired
<1>3. CASE Expired(r)
  <2>1. runs[r].owner # NoOwner
    BY <1>3 DEF Expired
  <2>2. runs[r].state \in {"analysis_leased", "report_leased"}
    BY <1>1, <2>1, LeasedStates DEF RowsOK, LeaseOK, Row
  <2>3. CASE runs[r].state = "analysis_leased"
    <3>1. runs'[r] = Unleased(runs[r], "queued")
      BY <1>3, <2>3 DEF RecoverExpired
    <3> QED
      BY <1>1, <3>1, UnleasedFields
  <2>4. CASE runs[r].state = "report_leased"
    <3>1. runs'[r] = Unleased(runs[r], "report_pending")
      BY <1>3, <2>4 DEF RecoverExpired
    <3> QED
      BY <1>1, <2>4, <3>1, UnleasedFields
  <2> QED
    BY <2>2, <2>3, <2>4
<1> QED
  BY <1>2, <1>3

LEMMA EnvironmentState ==
    ASSUME RowsOK, NEW id \in Runs, Environment(id), NEW r \in Runs
    PROVE  \/ runs'[r].state = runs[r].state
           \/ runs'[r].state = "queued"
           \/ runs'[r].state = "report_pending" /\ runs[r].state = "report_dead"
<1>0. runs \in [Runs -> Row] /\ runs[id] \in Row
  BY DEF RowsOK
<1>1. CASE (\E d \in Deliveries : Enqueue(id, d)) \/ (\E old \in Runs : Replay(id, old))
  <2>1. PICK d : runs' = [runs EXCEPT ![id] = [Absent EXCEPT !.state = "queued", !.delivery = d]]
    BY <1>1, Zenon DEF Enqueue, Replay
  <2> QED
    BY <1>0, <2>1, AbsentType DEF Row
<1>2. CASE \E risk \in BOOLEAN : Redeliver(id, risk)
  <2>1. /\ runs[id].state = "report_dead"
        /\ runs' = [runs EXCEPT ![id] = [Unleased(runs[id], "report_pending") EXCEPT !.due = TRUE]]
    BY <1>2 DEF Redeliver
  <2>2. PICK row : row = Unleased(runs[id], "report_pending")
    OBVIOUS
  <2>3. row \in Row /\ row.state = "report_pending"
    BY <1>0, <2>2, UnleasedFields DEF RunState
  <2>4. runs' = [runs EXCEPT ![id] = [row EXCEPT !.due = TRUE]]
    BY <2>1, <2>2
  <2> QED
    BY <1>0, <2>1, <2>3, <2>4 DEF Row
<1>3. CASE LeaseExpires(id) \/ BecomesDue(id)
  <2>1. CASE runs' = [runs EXCEPT ![id].expired = TRUE]
    <3>1. [runs[id] EXCEPT !.expired = TRUE].state = runs[id].state
      BY <1>0 DEF Row
    <3> QED
      BY <1>0, <2>1, <3>1
  <2>2. CASE runs' = [runs EXCEPT ![id].due = TRUE]
    <3>1. [runs[id] EXCEPT !.due = TRUE].state = runs[id].state
      BY <1>0 DEF Row
    <3> QED
      BY <1>0, <2>2, <3>1
  <2> QED
    BY <1>3, <2>1, <2>2 DEF LeaseExpires, BecomesDue
<1> QED
  BY <1>1, <1>2, <1>3 DEF Environment

LEMMA StateOrigin ==
    ASSUME TypeOK, [Next]_vars, NEW r \in Runs
    PROVE  Origin(r)
<1>0. RowsOK /\ ProcOK
  BY TypeParts
<1>1. ASSUME NEW p \in Procs, NEW id \in Runs, ClaimJob(p, id)
      PROVE  Origin(r)
  <2>1. Claim(p, PhaseOf(p), id)
    BY <1>1 DEF ClaimJob
  <2>2. PICK ph \in Phase : ph = PhaseOf(p) /\ p \in Owners
    BY PhaseOfType
  <2>3. /\ runs[id].state = Waiting[ph]
        /\ runs'[id].state = Leased[ph]
        /\ \A s \in Runs \ {id} : runs'[s].state = runs[s].state
    BY <1>0, <2>1, <2>2, ClaimState
  <2> QED
    BY <2>3 DEF Origin, Phase, Waiting, Leased, Reporting, Closed
<1>2. ASSUME NEW p \in Procs, Recover(p) PROVE Origin(r)
  BY <1>0, <1>2, RecoverState DEF Recover, Origin, Reporting, Closed
<1>3. ASSUME NEW p \in Procs, RetryJob(p) PROVE Origin(r)
  <2>1. PICK ph \in Phase, id \in Runs : ph = PhaseOf(p) /\ id = Job(p) /\ Retry(id, ph)
    BY <1>0, <1>3, PhaseOfType, JobIsRun DEF RetryJob, At
  <2>2. /\ runs'[id].state \in {Waiting[ph], Dead[ph]}
        /\ \A s \in Runs \ {id} : runs'[s] = runs[s]
    BY <1>0, <2>1, RetryType DEF RowsOK
  <2>3. ph = "analysis" => runs'[id].state \notin Reporting
    BY <2>2 DEF Waiting, Dead, Reporting
  <2>4. ph = "report" => runs'[id].state \notin Closed /\ MayReport(p)
    BY <1>3, <2>1, <2>2 DEF Waiting, Dead, Closed, MayReport, PhaseOf, RetryJob, At
  <2> QED
    BY <2>1, <2>2, <2>3, <2>4 DEF Origin, Phase
<1>4. ASSUME NEW p \in Procs, FinishAnalysis(p) PROVE Origin(r)
  <2>1. PICK id \in Runs : id = Job(p)
    BY <1>0, <1>4, JobIsRun DEF FinishAnalysis, At
  <2>2. runs' = [runs EXCEPT ![id] = Unleased(@, "report_pending")]
    BY <1>4, <2>1, Zenon DEF FinishAnalysis, Transition
  <2>3. /\ runs'[id].state = "report_pending"
        /\ \A s \in Runs \ {id} : runs'[s].state = runs[s].state
    BY <1>0, <2>2, UnleasedState, Zenon DEF RunState
  <2> QED
    BY <1>4, <2>1, <2>3 DEF Origin, Closed, MayReport, FinishAnalysis, At
<1>5. ASSUME NEW p \in Procs, FinishReport(p) PROVE Origin(r)
  <2>1. PICK st \in RunState : st = proc[p].pc /\ st \in Closed
    BY <1>5 DEF FinishReport, RunState, Closed
  <2>2. PICK id \in Runs : id = Job(p)
    BY <1>0, <1>5, JobIsRun DEF FinishReport, At
  <2>3. runs' = [runs EXCEPT ![id] = Unleased(@, st)]
    BY <1>5, <2>1, <2>2, Zenon DEF FinishReport, Transition
  <2>4. /\ runs'[id].state = st
        /\ \A s \in Runs \ {id} : runs'[s].state = runs[s].state
    BY <1>0, <2>3, UnleasedState, Zenon
  <2> QED
    BY <1>5, <2>1, <2>2, <2>4 DEF Origin
<1>6. ASSUME NEW p \in Procs, Quarantine(p) PROVE Origin(r)
  <2>1. PICK id \in Runs : id = Job(p)
    BY <1>0, <1>6, JobIsRun DEF Quarantine, At
  <2>2. runs[id].state = "report_leased"
    BY <1>6, <2>1 DEF Quarantine, QuarantineReply, Owns, Leased
  <2>3. PICK row : row = Unleased(runs[id], "report_dead")
    OBVIOUS
  <2>4. row \in Row /\ row.state = "report_dead"
    BY <1>0, <2>3, UnleasedFields DEF RowsOK, RunState
  <2>5. runs' = [runs EXCEPT ![id] = [row EXCEPT !.lastError = "smtp_outcome_unknown"]]
    BY <1>6, <2>1, <2>3 DEF Quarantine, QuarantineReply
  <2>6. /\ runs'[id].state = "report_dead"
        /\ \A s \in Runs \ {id} : runs'[s].state = runs[s].state
    BY <1>0, <2>4, <2>5 DEF RowsOK, Row
  <2> QED
    BY <2>2, <2>6 DEF Origin, Reporting, Closed
<1>7. ASSUME NEW id \in Runs, Environment(id) PROVE Origin(r)
  BY <1>0, <1>7, EnvironmentState DEF Origin, Reporting, Closed
<1>8. CASE runs' = runs
  BY <1>8 DEF Origin
<1> QED
  <2>1. ASSUME NEW p \in Procs, Step(p) \/ Crash(p) PROVE Origin(r)
    <3>1. CASE Publish(p) \/ LeaseLost(p) \/ Crash(p) \/ Analyze(p)
      BY <1>8, <3>1 DEF Publish, LeaseLost, Crash, Analyze
    <3>2. CASE \/ ReadAnalysis(p) \/ VerifyBundle(p) \/ InsertRecord(p)
               \/ BeginReportAttempt(p) \/ Submit(p) \/ FinishReportAttempt(p)
      BY <1>8, <3>2 DEF ReadAnalysis, VerifyBundle, InsertRecord, BeginReportAttempt, Submit,
                        FinishReportAttempt
    <3> QED
      BY <1>1, <1>2, <1>3, <1>4, <1>5, <1>6, <2>1, <3>1, <3>2 DEF Step, Loop, Work, Report
  <2> QED
    BY <1>7, <1>8, <2>1 DEF Next, vars

-----------------------------------------------------------------------------
(***************************************************************************)
(* What was published, recorded or closed stays                            *)
(***************************************************************************)
LEMMA PublishFile ==
    ASSUME TypeOK, NEW p \in Procs, Publish(p)
    PROVE  /\ proc[p].pc \in File
           /\ Job(p) \in Runs
           /\ \/ UNCHANGED files
              \/ /\ files[Job(p)][proc[p].pc] = NoOwner
                 /\ files'[Job(p)][proc[p].pc] = p
                 /\ \A r \in Runs, f \in File :
                      r # Job(p) \/ f # proc[p].pc => files'[r][f] = files[r][f]
<1>0. ProcOK /\ StoreOK
  BY TypeParts
<1>1. proc[p].pc \in File /\ ~At(p, "idle")
  BY DEF Publish, File, AnalysisFile, ReportFile, At
<1>2. PICK r \in Runs, f \in File : r = Job(p) /\ f = proc[p].pc
  BY <1>0, <1>1, JobIsRun
<1>3. UNCHANGED files \/ (files[r][f] = NoOwner /\ files' = [files EXCEPT ![r][f] = p])
  BY <1>2 DEF Publish
<1>4. files' = [files EXCEPT ![r][f] = p] =>
        /\ files'[r][f] = p
        /\ \A s \in Runs, g \in File : s # r \/ g # f => files'[s][g] = files[s][g]
  BY <1>0, FilesExcept DEF StoreOK
<1>5. \/ UNCHANGED files
      \/ /\ files[r][f] = NoOwner
         /\ files'[r][f] = p
         /\ \A s \in Runs, g \in File : s # r \/ g # f => files'[s][g] = files[s][g]
  BY <1>3, <1>4
<1> QED
  BY <1>1, <1>2, <1>5, Zenon

LEMMA FilesStay ==
    ASSUME TypeOK, [Next]_vars, NEW r \in Runs, NEW f \in File, files[r][f] # NoOwner
    PROVE  files'[r][f] = files[r][f]
<1>1. CASE UNCHANGED files
  BY <1>1
<1>2. CASE \E p \in Procs : Publish(p)
  BY <1>2, PublishFile
<1> QED
  BY <1>1, <1>2, StepShape
  DEF Quiet, VerifyBundle, InsertRecord, BeginReportAttempt, Submit, FinishReportAttempt

LEMMA RecordStep ==
    ASSUME TypeOK, [Next]_vars, NEW r \in Runs
    PROVE  \/ records'[r] = records[r]
           \/ \E p \in Procs : /\ At(p, "record")
                               /\ Job(p) = r
                               /\ records[r] \in {NoOwner, files[r]["manifest.json"]}
                               /\ records'[r] = files[r]["manifest.json"]
                               /\ UNCHANGED files
<1>0. StoreOK
  BY TypeParts
<1>1. CASE UNCHANGED records
  BY <1>1
<1>2. ASSUME NEW p \in Procs, InsertRecord(p), records' # records
      PROVE  \/ records'[r] = records[r]
             \/ /\ At(p, "record")
                /\ Job(p) = r
                /\ records[r] \in {NoOwner, files[r]["manifest.json"]}
                /\ records'[r] = files[r]["manifest.json"]
                /\ UNCHANGED files
  BY <1>0, <1>2 DEF InsertRecord, StoreOK
<1> QED
  BY <1>1, <1>2, StepShape
  DEF Quiet, Publish, VerifyBundle, BeginReportAttempt, Submit, FinishReportAttempt

LEMMA RecordsStay ==
    ASSUME TypeOK, [Next]_vars, NEW r \in Runs, records[r] # NoOwner
    PROVE  records'[r] = records[r]
BY RecordStep

LEMMA AttemptStep ==
    ASSUME TypeOK, [Next]_vars, NEW r \in Runs
    PROVE  /\ \/ attempts'[r] = attempts[r] /\ mail'[r] = mail[r]
              \/ \E p \in Procs : proc[p].pc \in Past \cap Recorded /\ Job(p) = r
           /\ \A n \in DOMAIN attempts[r] :
                /\ n \in DOMAIN attempts'[r]
                /\ attempts[r][n] # "started" => attempts'[r][n] = attempts[r][n]
<1> DEFINE Goal == /\ \/ attempts'[r] = attempts[r] /\ mail'[r] = mail[r]
                      \/ \E p \in Procs : proc[p].pc \in Past \cap Recorded /\ Job(p) = r
                   /\ \A n \in DOMAIN attempts[r] :
                        /\ n \in DOMAIN attempts'[r]
                        /\ attempts[r][n] # "started" => attempts'[r][n] = attempts[r][n]
<1>0. StoreOK
  BY TypeParts
<1>1. CASE attempts' = attempts /\ mail' = mail
  BY <1>1
<1>2. ASSUME NEW p \in Procs, BeginReportAttempt(p) PROVE Goal
  <2>1. PICK id \in Runs : id = Job(p) /\ proc[p].pc \in Past \cap Recorded
    BY <1>2, PastIsReporter DEF BeginReportAttempt, At, Past, BeforeAttempt, Recorded
  <2>2. mail' = mail
    BY <1>2 DEF BeginReportAttempt
  <2>3. CASE attempts' = attempts
    BY <1>1, <2>2, <2>3
  <2>4. CASE attempts' = [attempts EXCEPT ![id] = Append(@, "started")]
    <3>1. attempts[id] \in Seq(Outcome) /\ "started" \in Outcome
      BY <1>0 DEF StoreOK, Outcome
    <3>2. /\ \A n \in 1 .. Len(attempts[id]) : Append(attempts[id], "started")[n] = attempts[id][n]
          /\ Append(attempts[id], "started") \in Seq(Outcome)
          /\ Len(Append(attempts[id], "started")) = Len(attempts[id]) + 1
      BY <3>1, OutcomeSeq
    <3>3. /\ Len(attempts[id]) \in Nat
          /\ DOMAIN attempts[id] = 1 .. Len(attempts[id])
          /\ DOMAIN Append(attempts[id], "started") = 1 .. Len(attempts[id]) + 1
      BY <3>1, <3>2, LenProperties
    <3>4. /\ attempts'[id] = Append(attempts[id], "started")
          /\ \A s \in Runs \ {id} : attempts'[s] = attempts[s]
      BY <1>0, <2>4 DEF StoreOK
    <3>5. \A n \in DOMAIN attempts[id] :
            n \in DOMAIN attempts'[id] /\ attempts'[id][n] = attempts[id][n]
      BY <3>2, <3>3, <3>4
    <3> QED
      BY <2>1, <2>2, <3>4, <3>5
  <2> QED
    BY <1>2, <2>1, <2>3, <2>4 DEF BeginReportAttempt
<1>3. ASSUME NEW p \in Procs, Submit(p) PROVE Goal
  <2>1. PICK id \in Runs : id = Job(p) /\ proc[p].pc \in Past \cap Recorded
    BY <1>3, PastIsReporter DEF Submit, At, Past, InAttempt, Recorded
  <2>2. attempts' = attempts /\ \A s \in Runs \ {id} : mail'[s] = mail[s]
    BY <1>0, <1>3, <2>1 DEF Submit, StoreOK
  <2> QED
    BY <2>1, <2>2
<1>4. ASSUME NEW p \in Procs, FinishReportAttempt(p) PROVE Goal
  <2>1. PICK id \in Runs : id = Job(p) /\ proc[p].pc \in Past \cap Recorded
    BY <1>4, PastIsReporter DEF FinishReportAttempt, Past, InAttempt, Recorded
  <2>2. mail' = mail
    BY <1>4 DEF FinishReportAttempt
  <2>3. CASE attempts' = attempts
    BY <1>1, <2>2, <2>3
  <2>4. CASE \E k, o : /\ attempts[id][k] = "started"
                       /\ attempts' = [attempts EXCEPT ![id][k] = o]
    <3>1. PICK k, o : /\ attempts[id][k] = "started"
                      /\ attempts' = [attempts EXCEPT ![id][k] = o]
      BY <2>4, Zenon
    <3>2. /\ attempts'[id] = [attempts[id] EXCEPT ![k] = o]
          /\ \A s \in Runs \ {id} : attempts'[s] = attempts[s]
      BY <1>0, <3>1 DEF StoreOK
    <3>3. \A n \in DOMAIN attempts[id] :
            n \in DOMAIN attempts'[id] /\ (n # k => attempts'[id][n] = attempts[id][n])
      BY <3>2
    <3> QED
      BY <2>1, <2>2, <3>1, <3>2, <3>3
  <2> QED
    BY <1>4, <2>1, <2>3, <2>4 DEF FinishReportAttempt
<1> QED
  BY <1>1, <1>2, <1>3, <1>4, StepShape
  DEF Quiet, Publish, VerifyBundle, InsertRecord

\* Artifacts, result records and closed attempts are written once, by whatever
\* process and however late it resumes after its lease ran out.
THEOREM EvidenceStays == Spec => EvidenceIsImmutable
<1>1. TypeOK /\ [Next]_vars =>
        [\A r \in Runs :
           /\ \A f \in File : files[r][f] # NoOwner => files'[r][f] = files[r][f]
           /\ records[r] # NoOwner => records'[r] = records[r]
           /\ \A n \in DOMAIN attempts[r] :
                attempts[r][n] # "started" => attempts'[r][n] = attempts[r][n]]_vars
  BY FilesStay, RecordsStay, AttemptStep
<1> QED
  BY <1>1, InitType, StepType, PTL DEF Spec, EvidenceIsImmutable

-----------------------------------------------------------------------------
(***************************************************************************)
(* How a process gets to its counter                                       *)
(***************************************************************************)
Claimed(q) ==
    /\ proc'[q].pc = IF q \in Workers THEN "analyze" ELSE "read"
    /\ proc'[q].run \in Runs
    /\ q \notin Workers => runs[proc'[q].run].state = "report_pending"
    /\ \E e \in events' : e.type = "run_started" /\ e.run = proc'[q].run

Published(q) ==
    /\ proc[q].pc \in File
    /\ proc'[q].pc = After[proc[q].pc]
    /\ files[Job(q)][proc[q].pc] = NoOwner
    /\ files'[Job(q)][proc[q].pc] = q

Moves(q) ==
    \/ proc'[q] = proc[q]
    \/ proc'[q].pc = "idle"
    \/ Claimed(q)
    \/ /\ proc[q].pc # "idle"
       /\ proc'[q].run = proc[q].run
       /\ \/ proc'[q].pc \in {"evidence.json", "report.json", "failed"}
          \/ Published(q)
          \/ proc[q].pc = "verify" /\ proc'[q].pc = "record"
          \/ /\ proc[q].pc = "record"
             /\ proc'[q].pc = "destination"
             /\ records'[Job(q)] = files[Job(q)]["manifest.json"]
          \/ proc[q].pc \in Recorded /\ proc'[q].pc \in Recorded

\* The conflict clause: the event with this key is in the table afterwards,
\* and no other event came.
LEMMA EventAdds ==
    ASSUME NEW ty, NEW id, NEW n, NEW sf, NEW o, EventTx(ty, id, n, sf, o)
    PROVE  /\ events \subseteq events'
           /\ \E e \in events' : e.type = ty /\ e.run = id /\ e.attempt = n /\ e.suffix = sf
           /\ \A e \in events' \ events : /\ e.type = ty
                                          /\ e.run = id
                                          /\ e.attempt = n
                                          /\ e.suffix = sf
                                          /\ e.outcome = o
<1>1. PICK new : new = [type |-> ty, run |-> id, attempt |-> n, suffix |-> sf, outcome |-> o]
  BY Zenon
<1>2. /\ new.type = ty
      /\ new.run = id
      /\ new.attempt = n
      /\ new.suffix = sf
      /\ new.outcome = o
  BY <1>1
<1>3. \/ /\ events' = events
         /\ \E e \in events : e.type = ty /\ e.run = id /\ e.attempt = n /\ e.suffix = sf
      \/ events' = events \cup {new}
  BY <1>1 DEF EventTx
<1> QED
  BY <1>2, <1>3

LEMMA GotoMoves ==
    ASSUME TypeOK, NEW p \in Procs, ~At(p, "idle"), NEW pc, Goto(p, pc)
    PROVE  Others(p) /\ proc'[p].pc = pc /\ proc'[p].run = proc[p].run
<1>1. ProcOK
  BY TypeParts
<1>2. proc' = [proc EXCEPT ![p] = [proc[p] EXCEPT !.pc = pc]]
  BY <1>1 DEF Goto, ProcOK
<1>3. proc[p] \in ProcState /\ proc \in [Procs -> ProcState]
  BY <1>1 DEF ProcOK
<1>4. [proc[p] EXCEPT !.pc = pc].pc = pc /\ [proc[p] EXCEPT !.pc = pc].run = proc[p].run
  BY <1>3 DEF ProcState
<1> QED
  BY <1>2, <1>3, <1>4 DEF Others

LEMMA LoopMoves ==
    ASSUME TypeOK, NEW p \in Procs,
           (\E r \in Runs : ClaimJob(p, r)) \/ Recover(p) \/ RetryJob(p) \/ LeaseLost(p)
             \/ Crash(p) \/ FinishAnalysis(p) \/ FinishReport(p) \/ Quarantine(p),
           NEW q \in Procs
    PROVE  Moves(q)
<1>0. ProcOK /\ RowsOK
  BY TypeParts
<1>1. ASSUME NEW r \in Runs, ClaimJob(p, r) PROVE Moves(q)
  <2>1. PICK pc \in PcOf(p) \ {"idle"} :
          /\ pc = IF p \in Workers THEN "analyze" ELSE "read"
          /\ proc' = [proc EXCEPT ![p] = [pc |-> pc, run |-> r, attempt |-> 0]]
    BY <1>1, Zenon DEF ClaimJob, PcOf, WorkerPc, ReporterPc
  <2>2. Others(p) /\ proc'[p].pc = pc /\ proc'[p].run = r
    BY <1>0, <2>1, AssignKeeps, Zenon
  <2>3. p \notin Workers => runs[r].state = "report_pending"
    BY <1>1, Zenon DEF ClaimJob, Claim, PhaseOf, Waiting
  <2>4. PICK ty, n, sf, ph : ty = "run_started" /\ EventTx(ty, r, n, sf, ph)
    BY <1>1, Zenon DEF ClaimJob, Claim
  <2>5. \E e \in events' : e.type = ty /\ e.run = r
    BY <2>4, EventAdds
  <2> QED
    BY <2>1, <2>2, <2>3, <2>4, <2>5 DEF Moves, Claimed, Others
<1>2. CASE Recover(p)
  BY <1>2 DEF Recover, Moves
<1>3. CASE Drop(p)
  <2>1. Others(p) /\ proc'[p] = Idle
    BY <1>0, <1>3, DropKeeps
  <2>2. proc'[q] = proc[q] \/ proc'[q].pc = "idle"
    BY <2>1 DEF Others, Idle
  <2> QED
    BY <2>2 DEF Moves
<1> QED
  BY <1>1, <1>2, <1>3
  DEF RetryJob, LeaseLost, Crash, FinishAnalysis, FinishReport, Quarantine

LEMMA JobMoves ==
    ASSUME TypeOK, NEW p \in Procs,
           Publish(p) \/ Analyze(p) \/ ReadAnalysis(p) \/ VerifyBundle(p) \/ InsertRecord(p)
             \/ BeginReportAttempt(p) \/ Submit(p) \/ FinishReportAttempt(p),
           NEW q \in Procs
    PROVE  Moves(q)
<1>0. ProcOK /\ StoreOK
  BY TypeParts
<1>a. ~At(p, "idle")
  BY DEF Publish, Analyze, ReadAnalysis, VerifyBundle, InsertRecord, BeginReportAttempt, Submit,
         FinishReportAttempt, File, AnalysisFile, ReportFile, At
<1>r. PICK r \in Runs : r = Job(p)
  BY <1>0, <1>a, JobIsRun
<1>b. ASSUME NEW pc, Goto(p, pc),
             \/ pc \in {"evidence.json", "report.json", "failed"}
             \/ At(p, "verify") /\ pc = "record"
             \/ proc[p].pc \in Recorded /\ pc \in Recorded
      PROVE  Moves(q)
  BY <1>a, <1>b, GotoMoves DEF Moves, Others, At
<1>1. CASE Publish(p)
  <2>1. PICK f \in File : f = proc[p].pc
    BY <1>1, PublishFile
  <2>2. CASE Goto(p, "failed")
    BY <1>b, <2>2
  <2>3. CASE /\ files[r][f] = NoOwner
             /\ files' = [files EXCEPT ![r][f] = p]
             /\ Goto(p, After[f])
    <3>1. files'[r][f] = p
      BY <1>0, <2>3, FilesExcept DEF StoreOK
    <3>2. Others(p) /\ proc'[p].pc = After[f] /\ proc'[p].run = proc[p].run
      BY <1>a, <2>3, GotoMoves
    <3> QED
      BY <1>a, <1>r, <2>1, <2>3, <3>1, <3>2 DEF Moves, Published, Others, At
  <2> QED
    BY <1>1, <1>r, <2>1, <2>2, <2>3 DEF Publish
<1>2. CASE Analyze(p) \/ ReadAnalysis(p) \/ VerifyBundle(p)
  BY <1>2, <1>b DEF Analyze, ReadAnalysis, VerifyBundle
<1>3. CASE InsertRecord(p)
  <2>1. CASE Goto(p, "failed")
    BY <1>b, <2>1
  <2>2. CASE /\ records' = [records EXCEPT ![r] = files[r]["manifest.json"]]
             /\ Goto(p, "destination")
    <3>1. records'[r] = files[r]["manifest.json"]
      BY <1>0, <2>2 DEF StoreOK
    <3>2. Others(p) /\ proc'[p].pc = "destination" /\ proc'[p].run = proc[p].run
      BY <1>a, <2>2, GotoMoves, Zenon
    <3> QED
      BY <1>3, <1>a, <1>r, <3>1, <3>2, Zenon DEF Moves, Others, At, InsertRecord
  <2> QED
    BY <1>3, <1>r, <2>1, <2>2, Zenon DEF InsertRecord
<1>4. CASE BeginReportAttempt(p)
  <2>1. proc[p].pc \in Recorded /\ "reply_suppressed" \in Recorded /\ "submit" \in Recorded
    BY <1>4 DEF BeginReportAttempt, At, Recorded
  <2>2. CASE \E n : proc' = [proc EXCEPT ![p] = [pc |-> "submit", run |-> r, attempt |-> n]]
    <3>1. Others(p) /\ proc'[p].pc = "submit" /\ proc'[p].run = proc[p].run
      BY <1>0, <1>r, <2>2 DEF ProcOK, Others, Job
    <3> QED
      BY <1>a, <2>1, <3>1, Zenon DEF Moves, Others, At
  <2> QED
    BY <1>4, <1>r, <1>b, <2>1, <2>2, Zenon DEF BeginReportAttempt
<1>5. CASE Submit(p)
  <2>1. PICK pc \in {"accepted", "refused", "uncertain"} : Goto(p, pc)
    BY <1>5 DEF Submit, SubmitOutcome
  <2> QED
    BY <1>5, <1>b, <2>1, Zenon DEF Submit, At, Recorded
<1>6. CASE FinishReportAttempt(p)
  <2>1. Goto(p, "complete") \/ Goto(p, "failed") \/ Goto(p, "unknown")
    BY <1>6, SMTT(30) DEF FinishReportAttempt, AttemptOutcome
  <2>2. proc[p].pc \in Recorded /\ "complete" \in Recorded /\ "unknown" \in Recorded
    BY <1>6 DEF FinishReportAttempt, Recorded
  <2> QED
    BY <1>b, <2>1, <2>2
<1> QED
  BY <1>1, <1>2, <1>3, <1>4, <1>5, <1>6

LEMMA AllMove ==
    ASSUME TypeOK, [Next]_vars, NEW q \in Procs
    PROVE  Moves(q)
<1>1. CASE proc' = proc
  BY <1>1 DEF Moves
<1>2. ASSUME NEW p \in Procs, Step(p) \/ Crash(p) PROVE Moves(q)
  BY <1>2, LoopMoves, JobMoves DEF Step, Loop, Work, Report
<1> QED
  BY <1>1, <1>2 DEF Next, Environment, vars

-----------------------------------------------------------------------------
(***************************************************************************)
(* The inductive invariant                                                 *)
(***************************************************************************)
AnalysisInv ==
    /\ ReportPhaseHasAnalysis
    /\ \A p \in Procs :
         /\ proc[p].pc = "verdict.json" => files[Job(p)]["evidence.json"] # NoOwner
         /\ MayReport(p) => Analysed(Job(p))

\* The artifacts that the counter of a reporter past report.json has left
\* behind.
Behind(pc) ==
    CASE pc = "report.txt"    -> {"report.json"}
      [] pc = "report.html"   -> {"report.json", "report.txt"}
      [] pc = "manifest.json" -> {"report.json", "report.txt", "report.html"}
      [] pc = "manifest.sig"  -> ReportFile \ {"manifest.sig"}
      [] OTHER                -> ReportFile

BundleInv ==
    /\ \A p \in Procs : proc[p].pc \in Past =>
         \A f \in Behind(proc[p].pc) : files[Job(p)][f] = p
    /\ \A p \in Procs : proc[p].pc \in Recorded => records[Job(p)] = p
    /\ RecordBindsOneBundle

ClosedInv ==
    /\ ClosedRunsAreTruthful
    /\ \A r \in Runs : runs[r].state \in Closed =>
         \A p \in Procs : proc[p].pc \in Past => Job(p) # r

EvidenceInv == AnalysisInv /\ BundleInv /\ ClosedInv

LEMMA AnalysedStays ==
    ASSUME TypeOK, [Next]_vars, NEW r \in Runs, Analysed(r)
    PROVE  Analysed(r)'
BY FilesStay DEF Analysed, File

LEMMA StepAnalysis ==
    ASSUME TypeOK, [Next]_vars, AnalysisInv
    PROVE  AnalysisInv'
<1>0. ProcOK
  BY TypeParts
<1>1. ASSUME NEW r \in Runs, runs'[r].state \in Reporting
      PROVE  Analysed(r)'
  <2>1. Origin(r)
    BY StateOrigin
  <2>2. runs[r].state \in Reporting \/ \E p \in Procs : Job(p) = r /\ MayReport(p)
    <3>1. ASSUME NEW p \in Procs, FinishReport(p) PROVE MayReport(p)
      BY <1>0, <3>1 DEF MayReport, FinishReport, ProcOK, PcOf, WorkerPc, AnalysisFile
    <3> QED
      BY <1>1, <2>1, <3>1 DEF Origin
  <2>3. Analysed(r)
    BY <2>2 DEF AnalysisInv, ReportPhaseHasAnalysis, Reporting, Analysed
  <2> QED
    BY <2>3, AnalysedStays
<1>2. ASSUME NEW q \in Procs, proc[q].pc # "idle", proc'[q].run = proc[q].run,
             proc'[q].pc = "verdict.json" \/ MayReport(q)'
      PROVE  /\ proc'[q].pc = "verdict.json" => files'[Job(q)]["evidence.json"] # NoOwner
             /\ MayReport(q)' => Analysed(Job(q))'
  <2>r. PICK r \in Runs : r = Job(q)
    BY <1>0, <1>2, JobIsRun DEF At
  <2>m. Moves(q)
    BY AllMove
  <2>a. "evidence.json" \in File /\ "verdict.json" \in File /\ q # NoOwner
    BY ProcsAreOwners DEF File, AnalysisFile
  <2>1. CASE q \notin Workers
    <3>1. Analysed(r) /\ proc'[q].pc # "verdict.json"
      <4>1. ProcOK'
        BY StepType, TypeParts, Zenon DEF TypeOK, ProcOK, PcOf, At, Job
      <4> QED
        BY <1>2, <2>1, <2>r, <4>1
        DEF AnalysisInv, MayReport, ProcOK, PcOf, ReporterPc, ReportFile
    <3>2. Analysed(r)'
      BY <3>1, AnalysedStays
    <3> QED
      BY <1>2, <2>r, <3>1, <3>2 DEF Job, Analysed
  <2>2. CASE q \in Workers
    <3>1. proc'[q].pc \in {"verdict.json", "finish"}
      BY <1>2, <2>2 DEF MayReport
    <3>2. proc'[q] = proc[q] \/ Published(q)
      BY <2>m, <3>1 DEF Moves, Claimed, Recorded
    <3>3. CASE proc'[q] = proc[q]
      <4>1. /\ proc[q].pc = "verdict.json" => files[r]["evidence.json"] # NoOwner
            /\ proc[q].pc = "finish" => Analysed(r)
        BY <2>r DEF AnalysisInv, MayReport
      <4>2. /\ proc[q].pc = "verdict.json" => files'[r]["evidence.json"] # NoOwner
            /\ proc[q].pc = "finish" => Analysed(r)'
        BY <2>a, <4>1, FilesStay, AnalysedStays
      <4> QED
        BY <2>2, <2>r, <3>3, <4>2 DEF MayReport, Job, Analysed
    <3>4. CASE Published(q) /\ proc[q].pc = "evidence.json"
      <4>1. proc'[q].pc = "verdict.json" /\ files'[r]["evidence.json"] # NoOwner
        BY <2>a, <2>r, <3>4 DEF Published, After, File, AnalysisFile
      <4> QED
        BY <2>2, <2>r, <4>1 DEF MayReport, Job
    <3>5. CASE Published(q) /\ proc[q].pc = "verdict.json"
      <4>1. proc'[q].pc = "finish" /\ files'[r]["verdict.json"] # NoOwner
        BY <2>a, <2>r, <3>5 DEF Published, After, File, AnalysisFile
      <4>2. files'[r]["evidence.json"] # NoOwner
        BY <2>a, <2>r, <3>5, FilesStay DEF AnalysisInv
      <4> QED
        BY <1>2, <2>r, <4>1, <4>2 DEF Analysed, AnalysisFile, Job
    <3> QED
      BY <1>0, <2>2, <3>2, <3>3, <3>4, <3>5, Zenon
      DEF Published, ProcOK, PcOf, WorkerPc, File, AnalysisFile, ReportFile
  <2> QED
    BY <2>1, <2>2
<1>3. ASSUME NEW q \in Procs
      PROVE  /\ proc'[q].pc = "verdict.json" => files'[Job(q)']["evidence.json"] # NoOwner
             /\ MayReport(q)' => Analysed(Job(q))'
  <2>1. Moves(q)
    BY AllMove
  <2>2. CASE proc'[q].pc = "idle"
    BY <2>2 DEF MayReport
  <2>3. CASE Claimed(q)
    <3>1. CASE q \in Workers
      BY <2>3, <3>1 DEF Claimed, MayReport
    <3>2. CASE q \notin Workers
      <4>1. PICK r \in Runs : r = proc'[q].run /\ runs[r].state = "report_pending"
        BY <2>3, <3>2 DEF Claimed
      <4>2. Analysed(r)'
        BY <4>1, AnalysedStays DEF AnalysisInv, ReportPhaseHasAnalysis, Analysed
      <4> QED
        BY <2>3, <3>2, <4>1, <4>2 DEF Claimed, Job, Analysed
    <3> QED
      BY <3>1, <3>2
  <2>4. CASE proc[q].pc # "idle" /\ proc'[q].run = proc[q].run
    BY <1>2, <2>4 DEF Job
  <2> QED
    BY <2>1, <2>2, <2>3, <2>4, Zenon DEF Moves
<1> QED
  BY <1>1, <1>3 DEF AnalysisInv, ReportPhaseHasAnalysis, Reporting, Analysed

LEMMA StepBundle ==
    ASSUME TypeOK, [Next]_vars, AnalysisInv, BundleInv
    PROVE  BundleInv'
<1>1. ASSUME NEW q \in Procs, proc'[q].pc \in Past
      PROVE  /\ \A f \in Behind(proc'[q].pc) : files'[Job(q)'][f] = q
             /\ proc'[q].pc \in Recorded => records'[Job(q)'] = q
  <2>1. Moves(q)
    BY AllMove
  <2>2. CASE proc'[q] = proc[q]
    <3>1. PICK r \in Runs : r = Job(q)
      BY <1>1, <2>2, PastIsReporter
    <3>2. /\ \A f \in Behind(proc[q].pc) : files[r][f] = q
          /\ proc[q].pc \in Recorded => records[r] = q
      BY <1>1, <2>2, <3>1 DEF BundleInv
    <3>3. Behind(proc[q].pc) \subseteq File /\ q # NoOwner
      BY ProcsAreOwners DEF Behind, File, ReportFile
    <3>4. /\ \A f \in Behind(proc[q].pc) : files'[r][f] = q
          /\ proc[q].pc \in Recorded => records'[r] = q
      BY <3>2, <3>3, FilesStay, RecordsStay
    <3> QED
      BY <2>2, <3>1, <3>4 DEF Job
  <2>3. CASE Published(q) /\ proc'[q].run = proc[q].run /\ proc[q].pc # "idle"
    <3>1. PICK f \in ReportFile : f = proc[q].pc
      BY <1>1, <2>3 DEF Published, After, File, AnalysisFile, Past, BeforeAttempt, InAttempt
    <3>2. PICK r \in Runs : r = Job(q)
      BY <2>3, TypeParts, JobIsRun DEF At
    <3>3. After[f] \notin Recorded /\ proc'[q].pc = After[f] /\ files'[r][f] = q
      BY <2>3, <3>1, <3>2, Zenon DEF Published, After, File, ReportFile, Recorded
    <3>4. CASE f = "report.json"
      <4>1. Behind(After[f]) = {f}
        BY <3>4 DEF After, Behind, File, ReportFile
      <4> QED
        BY <2>3, <3>2, <3>3, <4>1 DEF Job
    <3>5. CASE f # "report.json"
      <4>1. f \in Past
        BY <3>5 DEF Past, BeforeAttempt, ReportFile
      <4>2. Behind(After[f]) \subseteq Behind(f) \cup {f}
        BY <3>5, Zenon DEF After, Behind, File, ReportFile
      <4>3. Behind(f) \subseteq File /\ q # NoOwner
        BY ProcsAreOwners DEF Behind, File, ReportFile
      <4>4. \A g \in Behind(f) : files[r][g] = q
        BY <3>1, <3>2, <4>1 DEF BundleInv
      <4>5. \A g \in Behind(f) : files'[r][g] = q
        BY <4>3, <4>4, FilesStay
      <4> QED
        BY <2>3, <3>2, <3>3, <4>2, <4>5 DEF Job
    <3> QED
      BY <3>4, <3>5
  <2>4. CASE /\ proc[q].pc \in {"verify", "record"} \cup Recorded
             /\ proc'[q].pc \in {"record"} \cup Recorded
             /\ proc'[q].run = proc[q].run
             /\ \/ proc'[q].pc = "record"
                \/ proc[q].pc \in Recorded
                \/ records'[Job(q)] = files[Job(q)]["manifest.json"]
    <3>1. proc[q].pc \in Past /\ Behind(proc[q].pc) = ReportFile /\ Behind(proc'[q].pc) = ReportFile
      BY <2>4 DEF Past, BeforeAttempt, InAttempt, Recorded, Behind
    <3>2. PICK r \in Runs : r = Job(q)
      BY <3>1, PastIsReporter
    <3>3. \A f \in ReportFile : files[r][f] = q
      BY <3>1, <3>2 DEF BundleInv
    <3>4. \A f \in ReportFile : f \in File /\ q # NoOwner
      BY ProcsAreOwners DEF File
    <3>5. \A f \in ReportFile : files'[r][f] = q
      BY <3>3, <3>4, FilesStay
    <3>6. CASE proc[q].pc \in Recorded
      <4>1. records[r] = q
        BY <3>2, <3>6 DEF BundleInv
      <4>2. records'[r] = q
        BY <3>4, <4>1, RecordsStay DEF ReportFile
      <4> QED
        BY <2>4, <3>1, <3>2, <3>5, <4>2 DEF Job
    <3>7. CASE proc[q].pc \notin Recorded
      BY <2>4, <3>1, <3>2, <3>3, <3>5, <3>7, Zenon DEF Job, Recorded, ReportFile
    <3> QED
      BY <3>6, <3>7
  <2>5. CASE \/ proc'[q].pc \in {"idle", "evidence.json", "report.json", "failed"}
             \/ Claimed(q)
    BY <1>1, <2>5 DEF Claimed, Past, BeforeAttempt, InAttempt
  <2> QED
    BY <2>1, <2>2, <2>3, <2>4, <2>5, Zenon DEF Moves, Recorded
<1>2. RecordBindsOneBundle'
  <2> SUFFICES ASSUME NEW r \in Runs, records'[r] # NoOwner
               PROVE  /\ \A f \in ReportFile : files'[r][f] = records'[r]
                      /\ Analysed(r)'
    BY DEF RecordBindsOneBundle, Analysed
  <2>1. CASE records'[r] = records[r]
    <3>1. (\A f \in ReportFile : files[r][f] = records[r]) /\ Analysed(r)
      BY <2>1 DEF BundleInv, RecordBindsOneBundle, Analysed
    <3>2. \A f \in ReportFile : f \in File
      BY DEF File
    <3> QED
      BY <2>1, <3>1, <3>2, FilesStay, AnalysedStays
  <2>2. ASSUME NEW p \in Procs, At(p, "record"), Job(p) = r,
               records'[r] = files[r]["manifest.json"], UNCHANGED files
        PROVE  (\A f \in ReportFile : files'[r][f] = records'[r]) /\ Analysed(r)'
    <3>1. proc[p].pc \in Past /\ Behind(proc[p].pc) = ReportFile
      BY <2>2 DEF At, Past, BeforeAttempt, Behind
    <3>2. \A f \in ReportFile : files[r][f] = p
      BY <2>2, <3>1 DEF BundleInv
    <3>3. p \notin Workers /\ proc[p].pc # "idle"
      BY <2>2, <3>1, TypeParts DEF ProcOK, PcOf, WorkerPc, AnalysisFile, At
    <3>4. Analysed(r)
      BY <2>2, <3>3 DEF AnalysisInv, MayReport
    <3> QED
      BY <2>2, <3>2, <3>4, AnalysedStays DEF ReportFile
  <2> QED
    BY <2>1, <2>2, RecordStep, Zenon
<1>3. Recorded \subseteq Past
  BY DEF Recorded, Past, BeforeAttempt, InAttempt
<1> QED
  BY <1>1, <1>2, <1>3 DEF BundleInv

LEMMA StepClosed ==
    ASSUME TypeOK, [Next]_vars, ReplyInv, BundleInv, ClosedInv
    PROVE  ClosedInv'
<1> DEFINE Truthful(r) ==
             /\ runs[r].state = "complete" =>
                  /\ mail[r] = 1
                  /\ Len(attempts[r]) = 1 /\ attempts[r][1] = "accepted"
                  /\ records[r] # NoOwner
             /\ runs[r].state = "reply_suppressed" =>
                  Len(attempts[r]) = 0 /\ records[r] # NoOwner
           Deserted(r) == \A p \in Procs : proc[p].pc \in Past => Job(p) # r
<1>1. ASSUME NEW r \in Runs, runs'[r].state \in Closed, runs'[r].state = runs[r].state
      PROVE  Truthful(r)' /\ Deserted(r)'
  <2>1. Truthful(r) /\ Deserted(r)
    BY <1>1 DEF ClosedInv, ClosedRunsAreTruthful
  <2>2. records[r] # NoOwner
    BY <1>1, <2>1 DEF Closed
  <2>3. UNCHANGED <<attempts[r], mail[r], records[r]>>
    BY <2>1, <2>2, AttemptStep, RecordsStay
  <2>4. Truthful(r)'
    BY <1>1, <2>1, <2>3
  <2>5. ASSUME NEW q \in Procs, proc'[q].pc \in Past, proc'[q].run = r
        PROVE  FALSE
    <3>1. Moves(q)
      BY AllMove
    <3>2. \/ proc'[q] = proc[q]
          \/ proc[q].pc \in Past /\ proc[q].run = r
          \/ proc[q].run = r /\ Published(q)
      BY <2>5, <3>1, Zenon DEF Moves, Claimed, Past, BeforeAttempt, InAttempt, Recorded
    <3>3. proc[q].run = r /\ Published(q) /\ proc[q].pc \notin Past
      BY <2>1, <2>5, <3>2 DEF Job
    <3>4. proc[q].pc = "report.json"
      BY <2>5, <3>3
      DEF Published, After, File, AnalysisFile, ReportFile, Past, BeforeAttempt, InAttempt
    <3>5. files[r]["report.json"] = NoOwner
      BY <3>3, <3>4 DEF Published, Job
    <3> QED
      BY <2>2, <3>5 DEF BundleInv, RecordBindsOneBundle, ReportFile
  <2> QED
    BY <2>4, <2>5 DEF Job
<1>2. ASSUME NEW r \in Runs, NEW p \in Procs, FinishReport(p), Job(p) = r,
             runs'[r].state = proc[p].pc
      PROVE  Truthful(r)' /\ Deserted(r)'
  <2>1. /\ proc[p].pc \in {"complete", "reply_suppressed"}
        /\ Drop(p)
        /\ UNCHANGED <<files, records, attempts, mail>>
    BY <1>2 DEF FinishReport
  <2>2. /\ proc[p].pc \in Past
        /\ proc[p].pc \in Recorded
        /\ proc[p].pc = "reply_suppressed" => proc[p].pc \in BeforeAttempt
    BY <2>1 DEF Past, BeforeAttempt, Recorded
  <2>3. ProcReply(p) /\ RunReply(r) /\ records[r] = p /\ p # NoOwner
    BY <1>2, <2>2, ProcsAreOwners DEF ReplyInv, AttemptsFollowReporter, BundleInv
  <2>4. Truthful(r)'
    BY <1>2, <2>1, <2>2, <2>3, Zenon DEF ProcReply, RunReply, At
  <2>5. Sole(p)
    BY <2>2, PastIsSole DEF ReplyInv
  <2>6. Others(p) /\ proc'[p] = Idle
    BY <2>1, DropKeeps, TypeParts
  <2>7. "idle" \notin Past
    BY DEF Past, BeforeAttempt, InAttempt
  <2>8. ASSUME NEW q \in Procs, proc'[q].pc \in Past
        PROVE  proc'[q].run # r
    <3>1. q # p
      BY <2>6, <2>7, <2>8 DEF Idle
    <3>2. proc'[q] = proc[q]
      BY <2>6, <3>1 DEF Others
    <3> QED
      BY <1>2, <2>5, <2>8, <3>1, <3>2 DEF Sole, Job
  <2> QED
    BY <2>4, <2>8 DEF Job
<1>3. ASSUME NEW r \in Runs, runs'[r].state \in Closed
      PROVE  Truthful(r)' /\ Deserted(r)'
  <2>1. Origin(r)
    BY StateOrigin
  <2> QED
    BY <1>1, <1>2, <1>3, <2>1, Zenon DEF Origin, Closed, Reporting
<1> QED
  BY <1>3 DEF ClosedInv, ClosedRunsAreTruthful, Closed

LEMMA InitEvidence == Init => EvidenceInv
<1> SUFFICES ASSUME Init PROVE EvidenceInv
  OBVIOUS
<1>1. \A p \in Procs : proc[p].pc = "idle"
  BY DEF Init, Idle
<1>2. \A r \in Runs : runs[r].state = "absent" /\ records[r] = NoOwner
  BY Zenon DEF Init, QueueInit, Absent
<1>3. "idle" \notin Past \cup Recorded /\ "absent" \notin Reporting \cup Closed
  BY DEF Past, BeforeAttempt, InAttempt, Recorded, Reporting, Closed
<1> QED
  BY <1>1, <1>2, <1>3, Zenon
  DEF EvidenceInv, AnalysisInv, BundleInv, ClosedInv, MayReport, ReportPhaseHasAnalysis,
      Reporting, RecordBindsOneBundle, ClosedRunsAreTruthful

LEMMA StepEvidence == TypeOK /\ ReplyInv /\ EvidenceInv /\ [Next]_vars => EvidenceInv'
BY StepAnalysis, StepBundle, StepClosed DEF EvidenceInv

LEMMA EvidenceInvariance == Spec => []EvidenceInv
BY InitType, StepType, InitReply, StepReply, InitEvidence, StepEvidence, PTL DEF Spec

\* A result record binds one complete bundle of one reporter over a complete
\* analysis, for every number of overlapping workers and reporters and every
\* pattern of expired leases, unguarded retries, stops, replays and
\* redeliveries (main.go reportRun).
THEOREM BundlesAreWhole == Spec => []RecordBindsOneBundle
<1>1. EvidenceInv => RecordBindsOneBundle
  BY DEF EvidenceInv, BundleInv
<1> QED
  BY <1>1, EvidenceInvariance, PTL

\* A row is in the report phase only with its analysis on disk, although Retry
\* does not ask who owns the lease (queue.go Retry, main.go worker).
THEOREM ReportsFollowAnalysis == Spec => []ReportPhaseHasAnalysis
<1>1. EvidenceInv => ReportPhaseHasAnalysis
  BY DEF EvidenceInv, AnalysisInv
<1> QED
  BY <1>1, EvidenceInvariance, PTL

\* A row that says "complete" or "reply_suppressed" says the truth about the
\* reply, its attempt and its record, whoever closed it and however late
\* (main.go reportRun, queue.go transition).
THEOREM ClosedAreTruthful == Spec => []ClosedRunsAreTruthful
<1>1. EvidenceInv => ClosedRunsAreTruthful
  BY DEF EvidenceInv, ClosedInv
<1> QED
  BY <1>1, EvidenceInvariance, PTL
=============================================================================
