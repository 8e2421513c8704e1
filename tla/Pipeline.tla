------------------------------ MODULE Pipeline ------------------------------
(***************************************************************************)
(* Analysis workers and reporters (cmd/mailproof/main.go: worker,          *)
(* analyzeRun, reporter, reportRun) sharing the run queue, the artifact    *)
(* directory and the internal Postfix.                                     *)
(*                                                                         *)
(* A process claims a run, works on it in steps that interleave with those *)
(* of every other process, and reports the outcome to the queue.  Nothing  *)
(* renews its lease, so another process may claim the run while it works.  *)
(* A process may stop at any point; its supervisor starts it again.  The   *)
(* new process draws a new owner id in the code and keeps its name here:   *)
(* it has forgotten its job, and only a process that remembers a job acts  *)
(* on that job's lease.                                                    *)
(***************************************************************************)
EXTENDS RunQueue, Sequences

CONSTANTS
    Workers,        \* processes running "mailproof worker"
    Reporters,      \* processes running "mailproof reporter"
    Addressed,      \* deliveries whose row carries a reply address
    NoRun,          \* an idle process's job
    MaxCrashes      \* bound: how often processes stop in the middle of a job

ASSUME PipelineAssumption ==
    /\ Workers \subseteq Owners
    /\ Reporters \subseteq Owners
    /\ Workers \cap Reporters = {}
    /\ Addressed \subseteq Deliveries
    /\ NoRun \notin Runs
    /\ MaxCrashes \in Nat

VARIABLES
    proc,       \* per process: its program counter, its run, its reply attempt
    files,      \* per run and artifact: the process that published it
    records,    \* table result_records: whose manifest the record of a run binds
    attempts,   \* table report_delivery_attempts: the outcomes per run
    mail,       \* per run: the messages Postfix accepted
    crashes     \* how many jobs were cut short by a stop

vars == <<runs, events, proc, files, records, attempts, mail, crashes>>

-----------------------------------------------------------------------------
Procs == Workers \cup Reporters

AnalysisFile == {"evidence.json", "verdict.json"}

ReportFile == {"report.json", "report.txt", "report.html",
               "manifest.json", "manifest.sig"}

File == AnalysisFile \cup ReportFile

\* Mutant: the run is finished without its verdict.
AfterWithoutVerdict == [f \in File |->
            CASE f = "evidence.json" -> "finish"
              [] f = "verdict.json"  -> "finish"
              [] f = "report.json"   -> "report.txt"
              [] f = "report.txt"    -> "report.html"
              [] f = "report.html"   -> "manifest.json"
              [] f = "manifest.json" -> "manifest.sig"
              [] f = "manifest.sig"  -> "verify"]

\* The step that follows the publication of an artifact.  A process that is
\* about to publish an artifact has the artifact's name as its counter.
After == [f \in File |->
            CASE f = "evidence.json" -> "verdict.json"
              [] f = "verdict.json"  -> "finish"
              [] f = "report.json"   -> "report.txt"
              [] f = "report.txt"    -> "report.html"
              [] f = "report.html"   -> "manifest.json"
              [] f = "manifest.json" -> "manifest.sig"
              [] f = "manifest.sig"  -> "verify"]

WorkerPc == {"idle", "analyze", "finish", "failed"} \cup AnalysisFile

ReporterPc == {"idle", "read", "verify", "record", "destination", "submit",
               "accepted", "refused", "uncertain", "complete",
               "reply_suppressed", "unknown", "failed"} \cup ReportFile

Idle == [pc |-> "idle", run |-> NoRun, attempt |-> 0]

Job(p) == proc[p].run

At(p, pc) == proc[p].pc = pc

Goto(p, pc) == proc' = [proc EXCEPT ![p].pc = pc]

Drop(p) == proc' = [proc EXCEPT ![p] = Idle]

Init ==
    /\ QueueInit
    /\ proc = [p \in Procs |-> Idle]
    /\ files = [r \in Runs |-> [f \in File |-> NoOwner]]
    /\ records = [r \in Runs |-> NoOwner]
    /\ attempts = [r \in Runs |-> <<>>]
    /\ mail = [r \in Runs |-> 0]
    /\ crashes = 0

-----------------------------------------------------------------------------
(***************************************************************************)
(* Both loops                                                              *)
(***************************************************************************)
PhaseOf(p) == IF p \in Workers THEN "analysis" ELSE "report"

ClaimJob(p, r) ==
    /\ At(p, "idle")
    /\ Claim(p, PhaseOf(p), r)
    /\ proc' = [proc EXCEPT ![p] = [pc |-> IF p \in Workers THEN "analyze" ELSE "read",
                                    run |-> r, attempt |-> 0]]
    /\ UNCHANGED <<files, records, attempts, mail, crashes>>

Recover(p) ==
    /\ At(p, "idle")
    /\ RecoverExpired
    /\ UNCHANGED <<proc, files, records, attempts, mail, crashes>>

\* Mutant: publication with rename(2), which replaces what is there.
PublishOverwriting(p) ==
    /\ proc[p].pc \in File
    /\ LET f == proc[p].pc
       IN /\ files' = [files EXCEPT ![Job(p)][f] = p]
          /\ Goto(p, After[f]) \/ Goto(p, "failed")
    /\ UNCHANGED <<runs, events, records, attempts, mail, crashes>>

\* Write-once publication through a temporary file and link(2): an artifact
\* that exists is refused.  An analysis artifact stays in place even when the
\* fsync of its directory then fails and the caller sees an error.
Publish(p) ==
    /\ proc[p].pc \in File
    /\ LET f == proc[p].pc
       IN \/ /\ files[Job(p)][f] = NoOwner
             /\ files' = [files EXCEPT ![Job(p)][f] = p]
             /\ Goto(p, After[f]) \/ (f \in AnalysisFile /\ Goto(p, "failed"))
          \/ Goto(p, "failed") /\ UNCHANGED files
    /\ UNCHANGED <<runs, events, records, attempts, mail, crashes>>

\* An error of the job: Retry, with three attempts and a delay.
RetryJob(p) ==
    /\ At(p, "failed")
    /\ Retry(Job(p), PhaseOf(p))
    /\ Drop(p)
    /\ UNCHANGED <<files, records, attempts, mail, crashes>>

\* The process exits because the queue says that it does not own the lease.
LeaseLost(p) ==
    /\ \/ proc[p].pc = "finish" /\ ~Owns(Job(p), p, "analysis")
       \/ /\ proc[p].pc \in {"complete", "reply_suppressed", "unknown"}
          /\ ~Owns(Job(p), p, "report")
    /\ Drop(p)
    /\ UNCHANGED <<runs, events, files, records, attempts, mail, crashes>>

\* A stop of the process or of the host, a cancelled context, or a database
\* error in one of the closing transactions: all end the process.
Crash(p) ==
    /\ ~At(p, "idle")
    /\ crashes < MaxCrashes
    /\ crashes' = crashes + 1
    /\ Drop(p)
    /\ UNCHANGED <<runs, events, files, records, attempts, mail>>

-----------------------------------------------------------------------------
(***************************************************************************)
(* The worker                                                              *)
(***************************************************************************)
\* analyzeRun up to PublishAnalysis: the sealed message is read and scanned;
\* an unavailable scanner becomes evidence, any other error fails the job.
Analyze(p) ==
    /\ At(p, "analyze")
    /\ Goto(p, "evidence.json") \/ Goto(p, "failed")
    /\ UNCHANGED <<runs, events, files, records, attempts, mail, crashes>>

FinishAnalysis(p) ==
    /\ At(p, "finish")
    /\ Transition(Job(p), p, "analysis", "report_pending")
    /\ Drop(p)
    /\ UNCHANGED <<files, records, attempts, mail, crashes>>

-----------------------------------------------------------------------------
(***************************************************************************)
(* The reporter, in the order of reportRun                                 *)
(***************************************************************************)
ReadAnalysis(p) ==
    /\ At(p, "read")
    /\ \/ /\ \A f \in AnalysisFile : files[Job(p)][f] # NoOwner
          /\ Goto(p, "report.json")
       \/ Goto(p, "failed")
    /\ UNCHANGED <<runs, events, files, records, attempts, mail, crashes>>

\* The signature fits the manifest when one process wrote both (a manifest
\* holds its time of issue); the reports are the same whoever renders them.
BundleValid(r) ==
    /\ \A f \in ReportFile : files[r][f] # NoOwner
    /\ files[r]["manifest.sig"] = files[r]["manifest.json"]

\* Mutant: the reply goes out before the result is recorded.
VerifyWithoutRecord(p) ==
    /\ At(p, "verify")
    /\ \/ BundleValid(Job(p)) /\ Goto(p, "destination")
       \/ Goto(p, "failed")
    /\ UNCHANGED <<runs, events, files, records, attempts, mail, crashes>>

VerifyBundle(p) ==
    /\ At(p, "verify")
    /\ \/ BundleValid(Job(p)) /\ Goto(p, "record")
       \/ Goto(p, "failed")
    /\ UNCHANGED <<runs, events, files, records, attempts, mail, crashes>>

\* A record that exists is accepted again only if it binds the same manifest.
InsertRecord(p) ==
    /\ At(p, "record")
    /\ LET manifest == files[Job(p)]["manifest.json"]
       IN \/ /\ records[Job(p)] \in {NoOwner, manifest}
             /\ records' = [records EXCEPT ![Job(p)] = manifest]
             /\ Goto(p, "destination")
          \/ Goto(p, "failed") /\ UNCHANGED records
    /\ UNCHANGED <<runs, events, files, attempts, mail, crashes>>

\* ReportDestinationForRun, then BeginReportAttempt before any connection.
BeginReportAttempt(p) ==
    /\ At(p, "destination")
    /\ LET r == Job(p)
           n == Len(attempts[r]) + 1
       IN \/ /\ runs[r].delivery \notin Addressed
             /\ Goto(p, "reply_suppressed")
             /\ UNCHANGED <<attempts, events>>
          \/ /\ runs[r].delivery \in Addressed
             /\ attempts' = [attempts EXCEPT ![r] = Append(@, "started")]
             /\ EventTx("report_delivery_state", r, n, "started", "started")
             /\ proc' = [proc EXCEPT ![p] = [pc |-> "submit", run |-> r, attempt |-> n]]
          \/ Goto(p, "failed") /\ UNCHANGED <<attempts, events>>
    /\ UNCHANGED <<runs, files, records, mail, crashes>>

\* What Submit answers, and whether Postfix took the message.  An error of
\* QUIT after an accepted DATA is answered as a plain failure; an error of the
\* DATA terminator is unknown, whichever way Postfix decided.
SubmitOutcome == {[took |-> 1, pc |-> "accepted"], [took |-> 1, pc |-> "refused"],
                  [took |-> 0, pc |-> "refused"],
                  [took |-> 1, pc |-> "uncertain"], [took |-> 0, pc |-> "uncertain"]}

Submit(p) ==
    /\ At(p, "submit")
    /\ \E o \in SubmitOutcome :
         /\ mail' = [mail EXCEPT ![Job(p)] = @ + o.took]
         /\ Goto(p, o.pc)
    /\ UNCHANGED <<runs, events, files, records, attempts, crashes>>

\* FinishReportAttempt closes a started attempt.  An error of its transaction
\* turns an accepted submission into a failed job.
AttemptOutcome == [accepted |-> "accepted", refused |-> "failed", uncertain |-> "unknown"]

\* Mutant: an error of the transaction is ignored.
FinishAttemptUnchecked(p) ==
    /\ proc[p].pc \in {"accepted", "refused", "uncertain"}
    /\ LET r == Job(p)
           n == proc[p].attempt
           outcome == AttemptOutcome[proc[p].pc]
       IN /\ \/ /\ attempts' = [attempts EXCEPT ![r][n] = outcome]
                /\ EventTx("report_delivery_state", r, n, outcome, outcome)
             \/ UNCHANGED <<attempts, events>>
          /\ Goto(p, CASE outcome = "accepted" -> "complete"
                       [] outcome = "failed"   -> "failed"
                       [] outcome = "unknown"  -> "unknown")
    /\ UNCHANGED <<runs, files, records, mail, crashes>>

FinishReportAttempt(p) ==
    /\ proc[p].pc \in {"accepted", "refused", "uncertain"}
    /\ LET r == Job(p)
           n == proc[p].attempt
           outcome == AttemptOutcome[proc[p].pc]
       IN \/ /\ attempts[r][n] = "started"
             /\ attempts' = [attempts EXCEPT ![r][n] = outcome]
             /\ EventTx("report_delivery_state", r, n, outcome, outcome)
             /\ Goto(p, CASE outcome = "accepted" -> "complete"
                          [] outcome = "failed"   -> "failed"
                          [] outcome = "unknown"  -> "unknown")
          \/ /\ Goto(p, IF outcome = "unknown" THEN "unknown" ELSE "failed")
             /\ UNCHANGED <<attempts, events>>
    /\ UNCHANGED <<runs, files, records, mail, crashes>>

FinishReport(p) ==
    /\ proc[p].pc \in {"complete", "reply_suppressed"}
    /\ Transition(Job(p), p, "report", proc[p].pc)
    /\ Drop(p)
    /\ UNCHANGED <<files, records, attempts, mail, crashes>>

Quarantine(p) ==
    /\ At(p, "unknown")
    /\ QuarantineReply(Job(p), p)
    /\ Drop(p)
    /\ UNCHANGED <<files, records, attempts, mail, crashes>>

-----------------------------------------------------------------------------
(***************************************************************************)
(* The collector, the operator and the passing of time act on the queue    *)
(***************************************************************************)
Environment(r) ==
    /\ \/ \E d \in Deliveries : Enqueue(r, d)
       \/ \E old \in Runs : Replay(r, old)
       \/ \E risk \in BOOLEAN : Redeliver(r, risk)
       \/ LeaseExpires(r)
       \/ BecomesDue(r)
    /\ UNCHANGED <<proc, files, records, attempts, mail, crashes>>

Loop(p) ==
    \/ \E r \in Runs : ClaimJob(p, r)
    \/ Recover(p)
    \/ Publish(p)
    \/ RetryJob(p)
    \/ LeaseLost(p)

Work(p) ==
    \/ Analyze(p)
    \/ FinishAnalysis(p)

Report(p) ==
    \/ ReadAnalysis(p)
    \/ VerifyBundle(p)
    \/ InsertRecord(p)
    \/ BeginReportAttempt(p)
    \/ Submit(p)
    \/ FinishReportAttempt(p)
    \/ FinishReport(p)
    \/ Quarantine(p)

Step(p) == Loop(p) \/ Work(p) \/ Report(p)

Next ==
    \/ \E p \in Procs : Step(p) \/ Crash(p)
    \/ \E r \in Runs : Environment(r)

Spec == Init /\ [][Next]_vars

(***************************************************************************)
(* Every process is scheduled, and time passes: a lease that is not given  *)
(* back runs out and a delay ends.  Nothing makes the operator act, mail   *)
(* arrive or a process stop.                                               *)
(***************************************************************************)
TimePasses(r) == Environment(r) /\ (LeaseExpires(r) \/ BecomesDue(r))

Fairness ==
    /\ \A p \in Procs : WF_vars(Step(p))
    /\ \A r \in Runs : WF_vars(TimePasses(r))

FairSpec == Spec /\ Fairness
-----------------------------------------------------------------------------
(***************************************************************************)
(* Properties                                                              *)
(***************************************************************************)
ProcState == [pc      : WorkerPc \cup ReporterPc,
              run     : Runs \cup {NoRun},
              attempt : Nat]

\* Every table, the artifact directory and the processes hold values of their
\* types; a process has a job exactly when it is not idle, and a row has a
\* lease owner exactly when its state is a leased one.
TypeOK ==
    /\ runs \in [Runs -> Row]
    /\ events \subseteq Event
    /\ proc \in [Procs -> ProcState]
    /\ \A p \in Procs :
         /\ proc[p].pc \in (IF p \in Workers THEN WorkerPc ELSE ReporterPc)
         /\ At(p, "idle") <=> Job(p) = NoRun
    /\ \A r \in Runs :
         (runs[r].owner # NoOwner) <=> (\E ph \in Phase : runs[r].state = Leased[ph])
    /\ files \in [Runs -> [File -> Procs \cup {NoOwner}]]
    /\ records \in [Runs -> Procs \cup {NoOwner}]
    /\ attempts \in [Runs -> Seq({"started", "accepted", "failed", "unknown"})]
    /\ mail \in [Runs -> Nat]
    /\ crashes \in 0 .. MaxCrashes

\* A run is answered at most once.  Leases that run out, retries of a run that
\* another process holds, stops, quarantine and redelivery never bring a
\* second submission: reportRun gets to BeginReportAttempt and Submit only
\* behind the write-once publication of report.json.
AtMostOneReply ==
    \A r \in Runs : Len(attempts[r]) <= 1 /\ mail[r] <= Len(attempts[r])

\* The state "complete" is never claimed for a run whose reply was not
\* accepted by Postfix, recorded as accepted and backed by a result record;
\* "reply_suppressed" is never claimed for a run that mailed something.
ClosedRunsAreTruthful ==
    \A r \in Runs :
      /\ runs[r].state = "complete" =>
           /\ mail[r] = 1
           /\ Len(attempts[r]) = 1 /\ attempts[r][1] = "accepted"
           /\ records[r] # NoOwner
      /\ runs[r].state = "reply_suppressed" =>
           Len(attempts[r]) = 0 /\ records[r] # NoOwner

\* A result record binds a complete bundle, all of it written by the reporter
\* that recorded it, over a complete analysis: reporters that overlap on a run
\* after a lease ran out never mix their artifacts in one bundle.
RecordBindsOneBundle ==
    \A r \in Runs : records[r] # NoOwner =>
      /\ \A f \in ReportFile : files[r][f] = records[r]
      /\ \A f \in AnalysisFile : files[r][f] # NoOwner

\* A run waits for, or went through, its report only when its analysis is
\* complete on disk, although the unguarded Retry moves rows between states.
ReportPhaseHasAnalysis ==
    \A r \in Runs :
      runs[r].state \in {"report_pending", "report_leased", "report_dead",
                         "complete", "reply_suppressed"} =>
        \A f \in AnalysisFile : files[r][f] # NoOwner

\* The analytics stream and the tables agree at every commit: a completed run
\* was started, and the events of a reply attempt are those of its row.
EventsFollowState ==
    /\ \A e \in events : e.type = "run_completed" =>
         /\ \E s \in events : s.type = "run_started" /\ s.run = e.run
         /\ files[e.run]["verdict.json"] # NoOwner
    /\ \A e \in events : e.attempt > 0 =>
         /\ e.attempt \in DOMAIN attempts[e.run]
         /\ e.outcome \in {"started", attempts[e.run][e.attempt]}
    /\ \A r \in Runs : \A n \in DOMAIN attempts[r] :
         \E e \in events : /\ e.run = r
                           /\ e.attempt = n
                           /\ e.outcome = attempts[r][n]

\* What was published, recorded or closed is never rewritten, by whatever
\* process and however late it resumes.
EvidenceIsImmutable ==
    [][\A r \in Runs :
         /\ \A f \in File : files[r][f] # NoOwner => files'[r][f] = files[r][f]
         /\ records[r] # NoOwner => records'[r] = records[r]
         /\ \A n \in DOMAIN attempts[r] :
              attempts[r][n] # "started" => attempts'[r][n] = attempts[r][n]]_vars

\* Liveness: a run that entered the queue comes to rest, whatever its
\* processes suffer, as long as they do not stop for ever.
Resting == {"complete", "reply_suppressed", "analysis_dead", "report_dead"}

RunsComeToRest ==
    \A r \in Runs : (runs[r].state # "absent") ~> (runs[r].state \in Resting)

\* The evidence of every run implements the abstract trail.
StageOf(r) ==
    IF attempts[r] # <<>> THEN 5
    ELSE IF records[r] # NoOwner THEN 4
    ELSE IF \A f \in ReportFile : files[r][f] # NoOwner THEN 3
    ELSE IF \A f \in AnalysisFile : files[r][f] # NoOwner THEN 2
    ELSE 1

OutcomeOf(r) == IF attempts[r] = <<>> THEN "started" ELSE attempts[r][1]

Trail == INSTANCE EvidenceTrail WITH
    stage   <- [r \in Runs |-> StageOf(r)],
    replies <- mail,
    outcome <- [r \in Runs |-> OutcomeOf(r)]

ImplementsTrail == Trail!TrailSpec

(***************************************************************************)
(* What the repository says of this part and the code does not do          *)
(***************************************************************************)
\* The comment on QuarantineReply: "deliberately terminal".  Only the
\* operator's redelivery would then take a quarantined run out of report_dead.
Quarantined(r) ==
    runs[r].state = "report_dead" /\ runs[r].lastError = "smtp_outcome_unknown"

QuarantineIsTerminal ==
    [][\A r \in Runs : Quarantined(r) /\ ~Quarantined(r)' =>
         \E risk \in BOOLEAN : Redeliver(r, risk)]_vars
=============================================================================
