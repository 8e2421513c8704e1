--------------------------- MODULE PipelineProofs ---------------------------
(***************************************************************************)
(* Type correctness of Pipeline, with what each operation keeps of the     *)
(* tables and of the processes, and that a run is answered at most once,   *)
(* for any number of runs, deliveries, workers, reporters, attempts and    *)
(* stops.                                                                  *)
(*                                                                         *)
(* The argument.  AtMostOneReply is not inductive: a reporter whose lease  *)
(* ran out is still at work, and Retry may hand its run to anybody.  What  *)
(* keeps reporters apart is report.json.  Its publication is write-once,   *)
(* and a reporter is past it (Past) only if it published the file itself   *)
(* (PastOwnsReport); so at most one reporter per run is ever past it, that *)
(* reporter goes there once, and the attempts of the run are where this    *)
(* reporter's counter says they are (AttemptsFollowReporter).              *)
(***************************************************************************)
EXTENDS Pipeline, SequenceTheorems, TLAPS

\* In a module of this size the provers need more than their default time.
USE SMTT(30), ZenonT(30)

Outcome == {"started", "accepted", "failed", "unknown"}

-----------------------------------------------------------------------------
(***************************************************************************)
(* Types                                                                   *)
(***************************************************************************)
LEMMA UnleasedType ==
    ASSUME NEW row \in Row, NEW st \in RunState
    PROVE  Unleased(row, st) \in Row
BY Zenon DEF Unleased, Row

LEMMA AbsentType == Absent \in Row
BY QueueAssumption DEF Absent, Row, RunState, Phase

LEMMA EventType ==
    ASSUME NEW ty \in {"run_started", "run_completed", "run_lifecycle",
                       "report_delivery_state"},
           NEW id \in Runs, NEW n \in Nat, NEW sf \in EventText, NEW o \in EventText,
           events \subseteq Event, EventTx(ty, id, n, sf, o)
    PROVE  events' \subseteq Event
BY DEF EventTx, Event

LEMMA UnleasedFields ==
    ASSUME NEW row \in Row, NEW st \in RunState
    PROVE  /\ Unleased(row, st).state = st
           /\ Unleased(row, st).owner = NoOwner
           /\ Unleased(row, st).delivery = row.delivery
           /\ Unleased(row, st).lastError = row.lastError
           /\ Unleased(row, st) \in Row
BY Zenon DEF Unleased, Row

LEMMA FailedFields ==
    ASSUME NEW row \in Row, NEW counts \in [Phase -> 0 .. MaxAttempts]
    PROVE  /\ Failed(row, counts) \in Row
           /\ Failed(row, counts).state = row.state
           /\ Failed(row, counts).owner = row.owner
           /\ Failed(row, counts).delivery = row.delivery
BY Zenon DEF Failed, Row

LEMMA CountedType ==
    ASSUME NEW counts \in [Phase -> 0 .. MaxAttempts], NEW ph \in Phase
    PROVE  Counted(counts, ph) \in [Phase -> 0 .. MaxAttempts]
BY QueueAssumption DEF Counted, Exhausted

LEMMA RetryType ==
    ASSUME NEW id \in Runs, NEW ph \in Phase, runs \in [Runs -> Row], Retry(id, ph)
    PROVE  /\ runs' \in [Runs -> Row]
           /\ runs'[id].owner = NoOwner
           /\ runs'[id].state \in {Waiting[ph], Dead[ph]}
           /\ runs'[id].delivery = runs[id].delivery
           /\ \A r \in Runs \ {id} : runs'[r] = runs[r]
<1> DEFINE counts == runs[id].attempts
           st == IF Exhausted(counts[ph]) THEN Dead[ph] ELSE Waiting[ph]
           row == Unleased(runs[id], st)
           new == Failed(row, Counted(counts, ph))
<1>1. runs' = [runs EXCEPT ![id] = new]
  BY DEF Retry
<1>2. st \in RunState /\ st \in {Waiting[ph], Dead[ph]}
  BY DEF RunState, Phase, Waiting, Dead
<1>3. runs[id] \in Row /\ counts \in [Phase -> 0 .. MaxAttempts]
  BY DEF Row
<1>4. /\ row \in Row
      /\ row.state = st
      /\ row.owner = NoOwner
      /\ row.delivery = runs[id].delivery
  BY <1>2, <1>3, UnleasedFields
<1>5. /\ new \in Row
      /\ new.state = row.state
      /\ new.owner = row.owner
      /\ new.delivery = row.delivery
  BY <1>3, <1>4, CountedType, FailedFields
<1> HIDE DEF new, row, st
<1> QED
  BY <1>1, <1>2, <1>4, <1>5

-----------------------------------------------------------------------------
(***************************************************************************)
(* What every operation of the queue keeps: the types of the rows, the     *)
(* link between lease owner and state, the existence of a row and its      *)
(* delivery.                                                               *)
(***************************************************************************)
LeaseOK ==
    \A r \in Runs :
      (runs[r].owner # NoOwner) <=> (\E ph \in Phase : runs[r].state = Leased[ph])

RowsKept ==
    /\ runs' \in [Runs -> Row]
    /\ LeaseOK'
    /\ \A r \in Runs : runs[r].state # "absent" =>
         runs'[r].state # "absent" /\ runs'[r].delivery = runs[r].delivery

RowsOK == runs \in [Runs -> Row] /\ LeaseOK

LEMMA OneRow ==
    ASSUME RowsOK, NEW id \in Runs, NEW new \in Row, runs' = [runs EXCEPT ![id] = new],
           (new.owner # NoOwner) <=> (\E ph \in Phase : new.state = Leased[ph]),
           runs[id].state # "absent" =>
             new.state # "absent" /\ new.delivery = runs[id].delivery
    PROVE  RowsKept
BY DEF RowsOK, RowsKept, LeaseOK

LEMMA LeasedStates ==
    \A st \in RunState : (\E ph \in Phase : st = Leased[ph])
                           <=> st \in {"analysis_leased", "report_leased"}
BY DEF Phase, Leased, RunState

LEMMA UnleasedKeeps ==
    ASSUME RowsOK, NEW id \in Runs, NEW st \in RunState,
           st \notin {"absent", "analysis_leased", "report_leased"},
           runs' = [runs EXCEPT ![id] = Unleased(@, st)]
    PROVE  RowsKept
<1> DEFINE new == Unleased(runs[id], st)
<1>1. runs[id] \in Row
  BY DEF RowsOK
<1>2. new \in Row /\ new.state = st /\ new.owner = NoOwner /\ new.delivery = runs[id].delivery
  BY <1>1, UnleasedFields
<1>3. ~ \E ph \in Phase : new.state = Leased[ph]
  BY <1>2, LeasedStates
<1>4. runs' = [runs EXCEPT ![id] = new]
  OBVIOUS
<1> HIDE DEF new
<1> QED
  BY <1>2, <1>3, <1>4, OneRow, Zenon

LEMMA RetryKeeps ==
    ASSUME RowsOK, NEW id \in Runs, NEW ph \in Phase, Retry(id, ph)
    PROVE  RowsKept
<1> DEFINE new == runs'[id]
<1>1. /\ runs' \in [Runs -> Row]
      /\ new.owner = NoOwner
      /\ new.state \in {Waiting[ph], Dead[ph]}
      /\ new.delivery = runs[id].delivery
      /\ \A r \in Runs \ {id} : runs'[r] = runs[r]
  BY RetryType DEF RowsOK
<1>2. /\ new.state # "absent"
      /\ new.state \in RunState \ {"analysis_leased", "report_leased"}
  BY <1>1 DEF Phase, Waiting, Dead, RunState
<1>3. ~ \E q \in Phase : new.state = Leased[q]
  BY <1>2, LeasedStates
<1>4. runs' = [runs EXCEPT ![id] = new]
  BY <1>1 DEF RowsOK
<1>5. new \in Row
  BY <1>1
<1> HIDE DEF new
<1> QED
  BY <1>1, <1>2, <1>3, <1>4, <1>5, OneRow, Zenon

LEMMA ClaimKeeps ==
    ASSUME RowsOK, NEW id \in Runs, NEW ow \in Owners, NEW ph \in Phase, Claim(ow, ph, id)
    PROVE  RowsKept /\ runs[id].state = Waiting[ph]
<1> DEFINE new == [runs[id] EXCEPT !.state = Leased[ph], !.owner = ow, !.expired = FALSE]
<1>1. runs[id] \in Row /\ Leased[ph] \in RunState
  BY DEF RowsOK, Phase, Leased, RunState
<1>2. new \in Row /\ new.state = Leased[ph] /\ new.owner = ow /\ new.delivery = runs[id].delivery
  BY <1>1, Zenon DEF Row
<1>3. runs' = [runs EXCEPT ![id] = new]
  BY Zenon DEF Claim, RowsOK
<1>4. Leased[ph] # "absent" /\ ow # NoOwner
  BY QueueAssumption DEF Phase, Leased
<1> HIDE DEF new
<1>5. RowsKept
  BY <1>2, <1>3, <1>4, OneRow, Zenon
<1> QED
  BY <1>5, Zenon DEF Claim

LEMMA RecoverKeeps ==
    ASSUME RowsOK, RecoverExpired
    PROVE  RowsKept
<1> DEFINE back(r) == IF runs[r].state = "analysis_leased" THEN "queued" ELSE "report_pending"
           new(r) == Unleased(runs[r], back(r))
<1>1. \A r \in Runs : runs[r] \in Row /\ back(r) \in RunState
  BY DEF RowsOK, RunState
<1>2. \A r \in Runs : /\ new(r) \in Row
                      /\ new(r).state = back(r)
                      /\ new(r).owner = NoOwner
                      /\ new(r).delivery = runs[r].delivery
  BY <1>1, UnleasedFields, Zenon
<1>3. \A r \in Runs : back(r) # "absent" /\ ~ \E ph \in Phase : back(r) = Leased[ph]
  BY <1>1, LeasedStates, Zenon
<1>4. runs' = [r \in Runs |-> IF ~Expired(r) THEN runs[r] ELSE new(r)]
  BY DEF RecoverExpired
<1> HIDE DEF new, back
<1> QED
  BY <1>1, <1>2, <1>3, <1>4 DEF RowsOK, RowsKept, LeaseOK

LEMMA InsertKeeps ==
    ASSUME RowsOK, NEW id \in Runs,
           (\E d \in Deliveries : Enqueue(id, d)) \/ (\E old \in Runs : Replay(id, old))
    PROVE  RowsKept
<1> DEFINE new(d) == [Absent EXCEPT !.state = "queued", !.delivery = d]
<1>1. "queued" \in RunState /\ ~ \E ph \in Phase : "queued" = Leased[ph]
  BY DEF RunState, Phase, Leased
<1>2. \A d \in Deliveries \cup {NoDelivery} :
        new(d) \in Row /\ new(d).state = "queued" /\ new(d).owner = Absent.owner
  BY <1>1, AbsentType, Zenon DEF Row
<1>3. Absent.owner = NoOwner
  BY DEF Absent
<1>4. \A r \in Runs : runs[r].delivery \in Deliveries \cup {NoDelivery}
  BY DEF RowsOK, Row
<1>5. runs[id].state = "absent"
  BY Zenon DEF Enqueue, Replay
<1>6. \E d \in Deliveries \cup {NoDelivery} : runs' = [runs EXCEPT ![id] = new(d)]
  BY <1>4, Zenon DEF Enqueue, Replay
<1> HIDE DEF new
<1>7. PICK d \in Deliveries \cup {NoDelivery} : runs' = [runs EXCEPT ![id] = new(d)]
  BY <1>6, Zenon
<1> QED
  BY <1>1, <1>2, <1>3, <1>5, <1>7, OneRow, Zenon

LEMMA QuarantineKeeps ==
    ASSUME RowsOK, NEW id \in Runs, NEW ow \in Owners, QuarantineReply(id, ow)
    PROVE  RowsKept
<1> DEFINE row == Unleased(runs[id], "report_dead")
           new == [row EXCEPT !.lastError = "smtp_outcome_unknown"]
<1>1. runs[id] \in Row /\ "report_dead" \in RunState /\ ~ \E ph \in Phase : "report_dead" = Leased[ph]
  BY DEF RowsOK, RunState, Phase, Leased
<1>2. /\ row \in Row
      /\ row.state = "report_dead"
      /\ row.owner = NoOwner
      /\ row.delivery = runs[id].delivery
  BY <1>1, UnleasedFields
<1> HIDE DEF row
<1>3. new \in Row /\ new.state = row.state /\ new.owner = row.owner /\ new.delivery = row.delivery
  BY <1>2 DEF Row
<1>4. runs' = [runs EXCEPT ![id] = new]
  BY DEF QuarantineReply, row
<1> HIDE DEF new
<1> QED
  BY <1>1, <1>2, <1>3, <1>4, OneRow, Zenon

LEMMA RedeliverKeeps ==
    ASSUME RowsOK, NEW id \in Runs, NEW risk, Redeliver(id, risk)
    PROVE  RowsKept
<1> DEFINE row == Unleased(runs[id], "report_pending")
           new == [row EXCEPT !.due = TRUE]
<1>1. /\ runs[id] \in Row
      /\ "report_pending" \in RunState
      /\ ~ \E ph \in Phase : "report_pending" = Leased[ph]
  BY DEF RowsOK, RunState, Phase, Leased
<1>2. /\ row \in Row
      /\ row.state = "report_pending"
      /\ row.owner = NoOwner
      /\ row.delivery = runs[id].delivery
  BY <1>1, UnleasedFields
<1> HIDE DEF row
<1>3. new \in Row /\ new.state = row.state /\ new.owner = row.owner /\ new.delivery = row.delivery
  BY <1>2, Zenon DEF Row
<1>4. runs' = [runs EXCEPT ![id] = new]
  BY DEF Redeliver, row
<1> HIDE DEF new
<1> QED
  BY <1>1, <1>2, <1>3, <1>4, OneRow, Zenon

LEMMA TimeKeeps ==
    ASSUME RowsOK, NEW id \in Runs, LeaseExpires(id) \/ BecomesDue(id)
    PROVE  RowsKept
<1>1. runs[id] \in Row
  BY DEF RowsOK
<1>2. CASE LeaseExpires(id)
  <2> DEFINE new == [runs[id] EXCEPT !.expired = TRUE]
  <2>1. /\ new \in Row
        /\ new.state = runs[id].state
        /\ new.owner = runs[id].owner
        /\ new.delivery = runs[id].delivery
    BY <1>1, Zenon DEF Row
  <2>2. runs' = [runs EXCEPT ![id] = new]
    BY <1>2 DEF LeaseExpires, RowsOK
  <2> HIDE DEF new
  <2>3. (new.owner # NoOwner) <=> (\E ph \in Phase : new.state = Leased[ph])
    BY <2>1 DEF RowsOK, LeaseOK
  <2> QED
    BY <2>1, <2>2, <2>3, OneRow, Zenon
<1>3. CASE BecomesDue(id)
  <2> DEFINE new == [runs[id] EXCEPT !.due = TRUE]
  <2>1. /\ new \in Row
        /\ new.state = runs[id].state
        /\ new.owner = runs[id].owner
        /\ new.delivery = runs[id].delivery
    BY <1>1, Zenon DEF Row
  <2>2. runs' = [runs EXCEPT ![id] = new]
    BY <1>3 DEF BecomesDue, RowsOK
  <2> HIDE DEF new
  <2>3. (new.owner # NoOwner) <=> (\E ph \in Phase : new.state = Leased[ph])
    BY <2>1 DEF RowsOK, LeaseOK
  <2> QED
    BY <2>1, <2>2, <2>3, OneRow, Zenon
<1> QED
  BY <1>2, <1>3

-----------------------------------------------------------------------------
(***************************************************************************)
(* The processes                                                           *)
(***************************************************************************)
PcOf(p) == IF p \in Workers THEN WorkerPc ELSE ReporterPc

ProcOK ==
    /\ proc \in [Procs -> ProcState]
    /\ \A p \in Procs : proc[p].pc \in PcOf(p) /\ (At(p, "idle") <=> Job(p) = NoRun)

StoreOK ==
    /\ files \in [Runs -> [File -> Procs \cup {NoOwner}]]
    /\ records \in [Runs -> Procs \cup {NoOwner}]
    /\ attempts \in [Runs -> Seq(Outcome)]
    /\ mail \in [Runs -> Nat]
    /\ crashes \in 0 .. MaxCrashes

LEMMA TypeParts == TypeOK <=> RowsOK /\ events \subseteq Event /\ ProcOK /\ StoreOK
BY DEF TypeOK, RowsOK, LeaseOK, ProcOK, PcOf, StoreOK, Outcome

LEMMA TypePartsPrime ==
    TypeOK' <=> RowsOK' /\ events' \subseteq Event /\ ProcOK' /\ StoreOK'
BY DEF TypeOK, RowsOK, LeaseOK, ProcOK, PcOf, StoreOK, Outcome

\* The states of the other processes, and of the process that moves.
Others(p) == \A q \in Procs \ {p} : proc'[q] = proc[q]

LEMMA JobIsRun ==
    ASSUME ProcOK, NEW p \in Procs, ~At(p, "idle")
    PROVE  Job(p) \in Runs
BY DEF ProcOK, ProcState, Job

LEMMA GotoKeeps ==
    ASSUME ProcOK, NEW p \in Procs, ~At(p, "idle"),
           NEW pc \in PcOf(p) \ {"idle"}, Goto(p, pc)
    PROVE  /\ ProcOK'
           /\ Others(p)
           /\ proc'[p].pc = pc
           /\ proc'[p].run = proc[p].run
           /\ proc'[p].attempt = proc[p].attempt
<1> DEFINE new == [proc[p] EXCEPT !.pc = pc]
<1>1. proc[p] \in ProcState /\ pc \in WorkerPc \cup ReporterPc
  BY DEF ProcOK, PcOf
<1>2. /\ new \in ProcState
      /\ new.pc = pc
      /\ new.run = proc[p].run
      /\ new.attempt = proc[p].attempt
  BY <1>1 DEF ProcState
<1>3. proc' = [proc EXCEPT ![p] = new]
  BY DEF Goto, ProcOK
<1>4. proc[p].run # NoRun
  BY DEF ProcOK, Job
<1> HIDE DEF new
<1> QED
  BY <1>2, <1>3, <1>4 DEF ProcOK, At, Job, Others

LEMMA DropKeeps ==
    ASSUME ProcOK, NEW p \in Procs, Drop(p)
    PROVE  ProcOK' /\ Others(p) /\ proc'[p] = Idle
<1>1. Idle \in ProcState /\ Idle.pc = "idle" /\ Idle.run = NoRun
  BY DEF Idle, ProcState, WorkerPc
<1>2. "idle" \in PcOf(p)
  BY DEF PcOf, WorkerPc, ReporterPc
<1>3. proc' = [proc EXCEPT ![p] = Idle]
  BY DEF Drop
<1> HIDE DEF Idle
<1> QED
  BY <1>1, <1>2, <1>3 DEF ProcOK, At, Job, Others, PcOf

LEMMA AssignKeeps ==
    ASSUME ProcOK, NEW p \in Procs, NEW pc \in PcOf(p) \ {"idle"}, NEW r \in Runs, NEW n \in Nat,
           proc' = [proc EXCEPT ![p] = [pc |-> pc, run |-> r, attempt |-> n]]
    PROVE  /\ ProcOK'
           /\ Others(p)
           /\ proc'[p].pc = pc
           /\ proc'[p].run = r
           /\ proc'[p].attempt = n
<1> DEFINE new == [pc |-> pc, run |-> r, attempt |-> n]
<1>1. new \in ProcState /\ new.pc = pc /\ new.run = r /\ new.attempt = n
  BY DEF ProcState, PcOf
<1>2. r # NoRun
  BY PipelineAssumption
<1> HIDE DEF new
<1>3. proc' = [proc EXCEPT ![p] = new]
  BY DEF new
<1> QED
  BY <1>1, <1>2, <1>3 DEF ProcOK, At, Job, Others, PcOf

LEMMA PhaseOfType ==
    ASSUME NEW p \in Procs
    PROVE  PhaseOf(p) \in Phase /\ p \in Owners /\ Waiting[PhaseOf(p)] \in EventText
BY PipelineAssumption, Zenon DEF PhaseOf, Phase, Procs, Waiting, EventText, RunState

LEMMA RowsKeptOK == RowsKept => RowsOK'
BY DEF RowsKept, RowsOK

LEMMA OutcomeSeq ==
    ASSUME NEW s \in Seq(Outcome), NEW o \in Outcome
    PROVE  /\ Append(s, o) \in Seq(Outcome)
           /\ Len(Append(s, o)) = Len(s) + 1
           /\ Append(s, o)[Len(s) + 1] = o
           /\ \A i \in 1 .. Len(s) : Append(s, o)[i] = s[i]
BY AppendProperties

LEMMA OutcomeExcept ==
    ASSUME NEW s \in Seq(Outcome), NEW o \in Outcome, NEW n
    PROVE  /\ [s EXCEPT ![n] = o] \in Seq(Outcome)
           /\ Len([s EXCEPT ![n] = o]) = Len(s)
           /\ n \in 1 .. Len(s) => [s EXCEPT ![n] = o][n] = o
<1> DEFINE t == [s EXCEPT ![n] = o]
<1>1. Len(s) \in Nat /\ DOMAIN s = 1 .. Len(s) /\ s \in [1 .. Len(s) -> Outcome]
  BY LenProperties
<1>2. t \in [1 .. Len(s) -> Outcome] /\ (n \in 1 .. Len(s) => t[n] = o)
  BY <1>1, Zenon
<1> HIDE DEF t
<1>3. t \in Seq(Outcome) /\ Len(t) = Len(s)
  BY <1>1, <1>2, SeqDef, LenProperties
<1> QED
  BY <1>2, <1>3 DEF t

LEMMA FilesExcept ==
    ASSUME NEW r \in Runs, NEW f \in File, NEW p \in Procs,
           files \in [Runs -> [File -> Procs \cup {NoOwner}]],
           files' = [files EXCEPT ![r][f] = p]
    PROVE  /\ files' \in [Runs -> [File -> Procs \cup {NoOwner}]]
           /\ files'[r][f] = p
           /\ \A s \in Runs, g \in File :
                s # r \/ g # f => files'[s][g] = files[s][g]
OBVIOUS

LEMMA AfterType ==
    ASSUME NEW p \in Procs, NEW f \in File, f \in PcOf(p)
    PROVE  After[f] \in PcOf(p) \ {"idle"}
BY DEF After, PcOf, WorkerPc, ReporterPc, File, AnalysisFile, ReportFile

LEMMA LoopType ==
    ASSUME TypeOK, NEW p \in Procs, Loop(p)
    PROVE  TypeOK'
<1>0. RowsOK /\ events \subseteq Event /\ ProcOK /\ StoreOK
  BY TypeParts
<1>a. "failed" \in PcOf(p) \ {"idle"}
  BY DEF PcOf, WorkerPc, ReporterPc
<1>1. ASSUME NEW r \in Runs, ClaimJob(p, r)
      PROVE  TypeOK'
  <2> DEFINE pc == IF p \in Workers THEN "analyze" ELSE "read"
  <2>1. Claim(p, PhaseOf(p), r)
    BY <1>1 DEF ClaimJob
  <2>2. RowsKept
    BY <2>1, <1>0, PhaseOfType, ClaimKeeps
  <2>3. EventTx("run_started", r, 0, "", PhaseOf(p))
    BY <2>1, Zenon DEF Claim
  <2>a. PhaseOf(p) \in EventText /\ "" \in EventText
    BY DEF PhaseOf, EventText, Phase
  <2>4. events' \subseteq Event
    BY <2>3, <2>a, <1>0, EventType, Zenon
  <2>5. pc \in PcOf(p) \ {"idle"}
    BY DEF PcOf, WorkerPc, ReporterPc
  <2>6. proc' = [proc EXCEPT ![p] = [pc |-> pc, run |-> r, attempt |-> 0]]
    BY <1>1 DEF ClaimJob
  <2> HIDE DEF pc
  <2>7. ProcOK'
    BY <2>5, <2>6, <1>0, AssignKeeps, Zenon
  <2>8. StoreOK'
    BY <1>1, <1>0 DEF ClaimJob, StoreOK
  <2> QED
    BY <2>2, <2>4, <2>7, <2>8, RowsKeptOK, TypePartsPrime
<1>2. CASE Recover(p)
  <2>1. RowsKept
    BY <1>2, <1>0, RecoverKeeps DEF Recover
  <2>2. events' \subseteq Event /\ ProcOK' /\ StoreOK'
    BY <1>2, <1>0 DEF Recover, RecoverExpired, ProcOK, StoreOK, At, Job
  <2> QED
    BY <2>1, <2>2, RowsKeptOK, TypePartsPrime
<1>3. CASE Publish(p)
  <2> DEFINE f == proc[p].pc
  <2>1. f \in File /\ f \in PcOf(p) /\ ~At(p, "idle")
    BY <1>3, <1>0 DEF Publish, ProcOK, File, AnalysisFile, ReportFile, At
  <2>2. Job(p) \in Runs
    BY <2>1, <1>0, JobIsRun
  <2>3. Goto(p, After[f]) \/ Goto(p, "failed")
    BY <1>3 DEF Publish
  <2>4. ProcOK'
    BY <2>1, <2>3, <1>0, <1>a, AfterType, GotoKeeps
  <2>5. files' \in [Runs -> [File -> Procs \cup {NoOwner}]]
    <3>1. CASE files' = [files EXCEPT ![Job(p)][f] = p]
      BY <3>1, <1>0, <2>1, <2>2, FilesExcept DEF StoreOK
    <3>2. CASE files' = files
      BY <3>2, <1>0 DEF StoreOK
    <3> QED
      BY <3>1, <3>2, <1>3 DEF Publish
  <2>6. StoreOK' /\ RowsOK' /\ events' \subseteq Event
    BY <1>3, <1>0, <2>5 DEF Publish, StoreOK, RowsOK, LeaseOK
  <2> QED
    BY <2>4, <2>6, TypePartsPrime
<1>4. CASE RetryJob(p)
  <2>1. ~At(p, "idle")
    BY <1>4 DEF RetryJob, At
  <2>2. Job(p) \in Runs
    BY <2>1, <1>0, JobIsRun
  <2>3. RowsKept
    BY <1>4, <1>0, <2>2, PhaseOfType, RetryKeeps DEF RetryJob
  <2>4. EventTx("run_lifecycle", Job(p), 0, Waiting[PhaseOf(p)], Waiting[PhaseOf(p)])
    BY <1>4 DEF RetryJob, Retry
  <2>5. events' \subseteq Event
    BY <2>2, <2>4, <1>0, PhaseOfType, EventType
  <2>6. ProcOK'
    BY <1>4, <1>0, DropKeeps DEF RetryJob
  <2>7. StoreOK'
    BY <1>4, <1>0 DEF RetryJob, StoreOK
  <2> QED
    BY <2>3, <2>5, <2>6, <2>7, RowsKeptOK, TypePartsPrime
<1>5. CASE LeaseLost(p)
  <2>1. ProcOK'
    BY <1>5, <1>0, DropKeeps DEF LeaseLost
  <2>2. StoreOK' /\ RowsOK' /\ events' \subseteq Event
    BY <1>5, <1>0 DEF LeaseLost, StoreOK, RowsOK, LeaseOK
  <2> QED
    BY <2>1, <2>2, TypePartsPrime
<1> QED
  BY <1>1, <1>2, <1>3, <1>4, <1>5 DEF Loop

LEMMA GotoType ==
    ASSUME TypeOK, NEW p \in Procs, ~At(p, "idle"),
           NEW pc \in PcOf(p) \ {"idle"}, Goto(p, pc),
           UNCHANGED <<runs, events, files, records, attempts, mail, crashes>>
    PROVE  TypeOK'
<1>1. RowsOK /\ events \subseteq Event /\ ProcOK /\ StoreOK
  BY TypeParts
<1>2. ProcOK'
  BY <1>1, GotoKeeps
<1>3. StoreOK' /\ RowsOK' /\ events' \subseteq Event
  BY <1>1 DEF StoreOK, RowsOK, LeaseOK
<1> QED
  BY <1>2, <1>3, TypePartsPrime

\* A finish of a phase: the row leaves its lease, the process its job.
LEMMA FinishType ==
    ASSUME TypeOK, NEW p \in Procs, ~At(p, "idle"), NEW ph \in Phase,
           NEW st \in {"report_pending", "complete", "reply_suppressed"},
           Transition(Job(p), p, ph, st), Drop(p),
           UNCHANGED <<files, records, attempts, mail, crashes>>
    PROVE  TypeOK' /\ RowsKept
<1>1. RowsOK /\ events \subseteq Event /\ ProcOK /\ StoreOK
  BY TypeParts
<1>2. Job(p) \in Runs
  BY <1>1, JobIsRun
<1>3. st \in RunState /\ st \in EventText /\ "" \in EventText
  BY Zenon DEF RunState, EventText
<1>4. runs' = [runs EXCEPT ![Job(p)] = Unleased(@, st)]
  BY Zenon DEF Transition
<1>5. RowsKept
  BY <1>1, <1>2, <1>3, <1>4, UnleasedKeeps, Zenon
<1>6. \/ EventTx("run_completed", Job(p), 0, "", st)
      \/ EventTx("report_delivery_state", Job(p), 0, "", st)
  BY Zenon DEF Transition
<1>7. events' \subseteq Event
  BY <1>1, <1>2, <1>3, <1>6, EventType, Zenon
<1>8. ProcOK'
  BY <1>1, DropKeeps
<1>9. StoreOK'
  BY <1>1 DEF StoreOK
<1> QED
  BY <1>5, <1>7, <1>8, <1>9, RowsKeptOK, TypePartsPrime

LEMMA WorkType ==
    ASSUME TypeOK, NEW p \in Procs, Work(p)
    PROVE  TypeOK'
<1>1. CASE Analyze(p)
  <2>1. ProcOK
    BY TypeParts
  <2>2. ~At(p, "idle") /\ {"evidence.json", "failed"} \subseteq PcOf(p) \ {"idle"}
    BY <1>1, <2>1 DEF Analyze, At, ProcOK, PcOf, WorkerPc, ReporterPc, AnalysisFile, ReportFile
  <2> QED
    BY <1>1, <2>2, GotoType DEF Analyze
<1>2. CASE FinishAnalysis(p)
  <2>1. ~At(p, "idle") /\ "analysis" \in Phase
    BY <1>2 DEF FinishAnalysis, At, Phase
  <2> QED
    BY <1>2, <2>1, FinishType DEF FinishAnalysis
<1> QED
  BY <1>1, <1>2 DEF Work

\* A process at a counter of reportRun is a reporter, so it may go to any of
\* the reporter's counters.
LEMMA ReporterAt ==
    ASSUME TypeOK, NEW p \in Procs,
           proc[p].pc \in ReporterPc \ {"idle", "failed"}
    PROVE  /\ ~At(p, "idle")
           /\ PcOf(p) = ReporterPc
           /\ Job(p) \in Runs
<1>1. ProcOK
  BY TypeParts
<1>2. ~At(p, "idle") /\ PcOf(p) = ReporterPc
  BY <1>1 DEF At, ProcOK, PcOf, WorkerPc, ReporterPc, AnalysisFile, ReportFile
<1> QED
  BY <1>1, <1>2, JobIsRun

LEMMA ReportType ==
    ASSUME TypeOK, NEW p \in Procs, Report(p)
    PROVE  TypeOK'
<1>0. RowsOK /\ events \subseteq Event /\ ProcOK /\ StoreOK
  BY TypeParts
<1>a. proc[p].pc \in ReporterPc \ {"idle", "failed"}
  BY DEF Report, ReadAnalysis, VerifyBundle, InsertRecord, BeginReportAttempt, Submit,
         FinishReportAttempt, FinishReport, Quarantine, At, ReporterPc
<1>b. ~At(p, "idle") /\ PcOf(p) = ReporterPc /\ Job(p) \in Runs
  BY <1>a, ReporterAt
<1>c. {"failed", "report.json", "record", "destination", "reply_suppressed", "submit",
       "accepted", "refused", "uncertain", "complete", "unknown"} \subseteq PcOf(p) \ {"idle"}
  BY <1>b DEF ReporterPc, ReportFile
<1>1. CASE ReadAnalysis(p)
  BY <1>1, <1>b, <1>c, GotoType DEF ReadAnalysis
<1>2. CASE VerifyBundle(p)
  BY <1>2, <1>b, <1>c, GotoType DEF VerifyBundle
<1>3. CASE InsertRecord(p)
  <2>1. Goto(p, "destination") \/ Goto(p, "failed")
    BY <1>3 DEF InsertRecord
  <2>2. ProcOK'
    BY <2>1, <1>0, <1>b, <1>c, GotoKeeps
  <2>3. files[Job(p)]["manifest.json"] \in Procs \cup {NoOwner}
    BY <1>0, <1>b DEF StoreOK, File, ReportFile
  <2>4. StoreOK' /\ RowsOK' /\ events' \subseteq Event
    BY <1>3, <1>0, <1>b, <2>3, Zenon DEF InsertRecord, StoreOK, RowsOK, LeaseOK
  <2> QED
    BY <2>2, <2>4, TypePartsPrime
<1>4. CASE BeginReportAttempt(p)
  <2> DEFINE n == Len(attempts[Job(p)]) + 1
  <2>1. attempts[Job(p)] \in Seq(Outcome) /\ n \in Nat
    BY <1>0, <1>b, LenProperties DEF StoreOK
  <2>2. CASE /\ Goto(p, "reply_suppressed") \/ Goto(p, "failed")
             /\ UNCHANGED <<attempts, events>>
    <3>1. ProcOK'
      BY <2>2, <1>0, <1>b, <1>c, GotoKeeps
    <3> QED
      BY <3>1, <2>2, <1>4, <1>0, TypePartsPrime DEF BeginReportAttempt, StoreOK, RowsOK, LeaseOK
  <2>3. CASE /\ attempts' = [attempts EXCEPT ![Job(p)] = Append(@, "started")]
             /\ EventTx("report_delivery_state", Job(p), n, "started", "started")
             /\ proc' = [proc EXCEPT ![p] = [pc |-> "submit", run |-> Job(p), attempt |-> n]]
    <3>2. ProcOK'
      BY <2>3, <2>1, <1>0, <1>b, <1>c, AssignKeeps, Zenon
    <3>3. events' \subseteq Event
      <4>1. "started" \in EventText
        BY DEF EventText
      <4> QED
        BY <4>1, <2>3, <2>1, <1>0, <1>b, EventType
    <3>4. Append(attempts[Job(p)], "started") \in Seq(Outcome)
      BY <2>1, OutcomeSeq DEF Outcome
    <3>5. StoreOK' /\ RowsOK'
      BY <2>3, <3>4, <1>4, <1>0, <1>b, Zenon DEF BeginReportAttempt, StoreOK, RowsOK, LeaseOK
    <3> QED
      BY <3>2, <3>3, <3>5, TypePartsPrime
  <2> QED
    BY <2>2, <2>3, <1>4 DEF BeginReportAttempt
<1>5. CASE Submit(p)
  <2>1. PICK o \in SubmitOutcome : /\ mail' = [mail EXCEPT ![Job(p)] = @ + o.took]
                                   /\ Goto(p, o.pc)
    BY <1>5, Zenon DEF Submit
  <2>2. o.took \in {0, 1} /\ o.pc \in {"accepted", "refused", "uncertain"}
    BY DEF SubmitOutcome
  <2>3. ProcOK'
    BY <2>1, <2>2, <1>0, <1>b, <1>c, GotoKeeps
  <2>4. mail' \in [Runs -> Nat]
    BY <2>1, <2>2, <1>0, <1>b DEF StoreOK
  <2>5. StoreOK' /\ RowsOK' /\ events' \subseteq Event
    BY <2>4, <1>5, <1>0 DEF Submit, StoreOK, RowsOK, LeaseOK
  <2> QED
    BY <2>3, <2>5, TypePartsPrime
<1>6. CASE FinishReportAttempt(p)
  <2> DEFINE n == proc[p].attempt
             outcome == AttemptOutcome[proc[p].pc]
  <2>1. n \in Nat /\ outcome \in Outcome /\ outcome \in EventText
    <3>1. n \in Nat
      BY <1>0 DEF ProcOK, ProcState
    <3>2. outcome \in {"accepted", "failed", "unknown"}
      <4>1. proc[p].pc \in {"accepted", "refused", "uncertain"}
        BY <1>6 DEF FinishReportAttempt
      <4> QED
        BY <4>1 DEF AttemptOutcome
    <3> QED
      BY <3>1, <3>2, Zenon DEF Outcome, EventText
  <2>2. Goto(p, "complete") \/ Goto(p, "failed") \/ Goto(p, "unknown")
    BY <1>6, SMTT(30) DEF FinishReportAttempt, AttemptOutcome
  <2>3. ProcOK'
    BY <2>2, <1>0, <1>b, <1>c, GotoKeeps
  <2>4. \/ /\ attempts' = [attempts EXCEPT ![Job(p)][n] = outcome]
           /\ EventTx("report_delivery_state", Job(p), n, outcome, outcome)
        \/ attempts' = attempts /\ events' = events
    BY <1>6 DEF FinishReportAttempt
  <2> HIDE DEF n, outcome
  <2>5. attempts[Job(p)] \in Seq(Outcome)
    BY <1>0, <1>b DEF StoreOK
  <2>6. [attempts[Job(p)] EXCEPT ![n] = outcome] \in Seq(Outcome)
    BY <2>1, <2>5, OutcomeExcept
  <2>7. attempts' \in [Runs -> Seq(Outcome)] /\ events' \subseteq Event
    BY <2>1, <2>4, <2>6, <1>0, <1>b, EventType, Zenon DEF StoreOK
  <2>8. StoreOK' /\ RowsOK'
    BY <2>7, <1>6, <1>0 DEF FinishReportAttempt, StoreOK, RowsOK, LeaseOK
  <2> QED
    BY <2>3, <2>7, <2>8, TypePartsPrime
<1>7. CASE FinishReport(p)
  <2>1. "report" \in Phase
    BY DEF Phase
  <2> QED
    BY <2>1, <1>7, <1>b, FinishType DEF FinishReport
<1>8. CASE Quarantine(p)
  <2>1. RowsKept
    BY <1>8, <1>0, <1>b, PhaseOfType, QuarantineKeeps DEF Quarantine
  <2>2. "quarantine" \in EventText /\ "unknown" \in EventText
    BY DEF EventText
  <2>3. events' \subseteq Event
    BY <2>2, <1>8, <1>0, <1>b, EventType DEF Quarantine, QuarantineReply
  <2>4. ProcOK' /\ StoreOK'
    BY <1>8, <1>0, DropKeeps DEF Quarantine, StoreOK
  <2> QED
    BY <2>1, <2>3, <2>4, RowsKeptOK, TypePartsPrime
<1> QED
  BY <1>1, <1>2, <1>3, <1>4, <1>5, <1>6, <1>7, <1>8 DEF Report

LEMMA CrashType ==
    ASSUME TypeOK, NEW p \in Procs, Crash(p)
    PROVE  TypeOK'
<1>0. RowsOK /\ events \subseteq Event /\ ProcOK /\ StoreOK
  BY TypeParts
<1>1. ProcOK'
  BY <1>0, DropKeeps DEF Crash
<1>2. crashes' \in 0 .. MaxCrashes
  BY <1>0, PipelineAssumption DEF Crash, StoreOK
<1>3. StoreOK' /\ RowsOK' /\ events' \subseteq Event
  BY <1>0, <1>2 DEF Crash, StoreOK, RowsOK, LeaseOK
<1> QED
  BY <1>1, <1>3, TypePartsPrime

LEMMA EnvironmentType ==
    ASSUME TypeOK, NEW r \in Runs, Environment(r)
    PROVE  TypeOK' /\ RowsKept
<1>0. RowsOK /\ events \subseteq Event /\ ProcOK /\ StoreOK
  BY TypeParts
<1>1. RowsKept
  <2>1. CASE (\E d \in Deliveries : Enqueue(r, d)) \/ (\E old \in Runs : Replay(r, old))
    BY <2>1, <1>0, InsertKeeps
  <2>2. CASE \E risk \in BOOLEAN : Redeliver(r, risk)
    BY <2>2, <1>0, RedeliverKeeps
  <2>3. CASE LeaseExpires(r) \/ BecomesDue(r)
    BY <2>3, <1>0, TimeKeeps
  <2> QED
    BY <2>1, <2>2, <2>3 DEF Environment
<1>2. events' = events
  BY Zenon DEF Environment, Enqueue, Replay, Redeliver, LeaseExpires, BecomesDue
<1>3. ProcOK' /\ StoreOK'
  BY <1>0 DEF Environment, ProcOK, StoreOK, At, Job
<1> QED
  BY <1>0, <1>1, <1>2, <1>3, RowsKeptOK, TypePartsPrime

LEMMA InitType == Init => TypeOK
<1> SUFFICES ASSUME Init PROVE TypeOK
  OBVIOUS
<1>1. RowsOK
  <2>1. Absent.owner = NoOwner /\ ~ \E ph \in Phase : Absent.state = Leased[ph]
    <3>1. Absent.owner = NoOwner /\ Absent.state = "absent"
      BY DEF Absent
    <3>2. "absent" \in RunState
      BY DEF RunState
    <3> QED
      BY <3>1, <3>2, LeasedStates
  <2>2. runs = [r \in Runs |-> Absent]
    BY DEF Init, QueueInit
  <2>3. runs \in [Runs -> Row]
    BY <2>2, AbsentType
  <2>4. \A r \in Runs : runs[r] = Absent
    BY <2>2, Zenon
  <2>5. LeaseOK
    BY <2>1, <2>4, Zenon DEF LeaseOK
  <2> QED
    BY <2>3, <2>5 DEF RowsOK
<1>2. ProcOK
  <2>1. Idle \in ProcState /\ Idle.pc = "idle" /\ Idle.run = NoRun
    BY DEF Idle, ProcState, WorkerPc
  <2>2. \A p \in Procs : "idle" \in PcOf(p)
    BY DEF PcOf, WorkerPc, ReporterPc
  <2> QED
    BY <2>1, <2>2 DEF Init, ProcOK, At, Job
<1>3. StoreOK
  BY PipelineAssumption DEF Init, StoreOK
<1> QED
  BY <1>1, <1>2, <1>3, TypeParts DEF Init, QueueInit

LEMMA StepType == TypeOK /\ [Next]_vars => TypeOK'
<1> SUFFICES ASSUME TypeOK, [Next]_vars PROVE TypeOK'
  OBVIOUS
<1>1. ASSUME NEW p \in Procs, Step(p) \/ Crash(p)
      PROVE  TypeOK'
  BY <1>1, LoopType, WorkType, ReportType, CrashType DEF Step
<1>2. ASSUME NEW r \in Runs, Environment(r)
      PROVE  TypeOK'
  BY <1>2, EnvironmentType
<1>3. CASE UNCHANGED vars
  <2>1. RowsOK /\ events \subseteq Event /\ ProcOK /\ StoreOK
    BY TypeParts
  <2> QED
    BY <1>3, <2>1, TypePartsPrime
    DEF vars, RowsOK, LeaseOK, ProcOK, StoreOK, At, Job
<1> QED
  BY <1>1, <1>2, <1>3 DEF Next

\* Type correctness of the tables, the artifact directory and the processes,
\* whatever the interleaving of workers, reporters, stops and operator.
THEOREM TypeCorrect == Spec => []TypeOK
<1> QED
  BY InitType, StepType, PTL DEF Spec

-----------------------------------------------------------------------------
(***************************************************************************)
(* At most one reply                                                       *)
(***************************************************************************)
\* The counters of a reporter that has published report.json.
BeforeAttempt == {"report.txt", "report.html", "manifest.json", "manifest.sig",
                  "verify", "record", "destination", "reply_suppressed"}

InAttempt == {"submit", "accepted", "refused", "uncertain"}

Past == BeforeAttempt \cup InAttempt \cup {"complete", "unknown"}

PastOwnsReport ==
    \A p \in Procs : proc[p].pc \in Past => files[Job(p)]["report.json"] = p

RunReply(r) ==
    /\ Len(attempts[r]) <= 1
    /\ mail[r] <= Len(attempts[r])
    /\ files[r]["report.json"] = NoOwner => Len(attempts[r]) = 0
    /\ Len(attempts[r]) = 1 /\ attempts[r][1] = "accepted" => mail[r] = 1

ProcReply(p) ==
    /\ proc[p].pc \in BeforeAttempt => Len(attempts[Job(p)]) = 0
    /\ proc[p].pc \in InAttempt => /\ proc[p].attempt = 1
                                   /\ Len(attempts[Job(p)]) = 1
                                   /\ attempts[Job(p)][1] = "started"
    /\ At(p, "submit") => mail[Job(p)] = 0
    /\ At(p, "accepted") => mail[Job(p)] = 1
    /\ At(p, "complete") => /\ Len(attempts[Job(p)]) = 1
                            /\ attempts[Job(p)][1] = "accepted"

AttemptsFollowReporter ==
    /\ \A r \in Runs : RunReply(r)
    /\ \A p \in Procs : ProcReply(p)

ReplyInv == PastOwnsReport /\ AttemptsFollowReporter

-----------------------------------------------------------------------------
(***************************************************************************)
(* The shape of a step.  Most steps touch neither the artifacts nor the    *)
(* records, attempts and mail, and take no process past report.json.       *)
(***************************************************************************)
Quiet ==
    /\ UNCHANGED <<files, records, attempts, mail>>
    /\ \A q \in Procs : proc'[q] = proc[q] \/ proc'[q].pc \notin Past

LEMMA StepShape ==
    ASSUME TypeOK, [Next]_vars
    PROVE  \/ Quiet
           \/ \E p \in Procs : \/ Publish(p)
                               \/ VerifyBundle(p)
                               \/ InsertRecord(p)
                               \/ BeginReportAttempt(p)
                               \/ Submit(p)
                               \/ FinishReportAttempt(p)
<1>0. ProcOK
  BY TypeParts
<1>a. {"idle", "analyze", "read", "failed", "evidence.json", "report.json"} \cap Past = {}
  BY DEF Past, BeforeAttempt, InAttempt
<1>b. ASSUME NEW p \in Procs, Drop(p), UNCHANGED <<files, records, attempts, mail>>
      PROVE  Quiet
  <2>1. Others(p) /\ proc'[p] = Idle
    BY <1>0, <1>b, DropKeeps
  <2> QED
    BY <1>a, <1>b, <2>1 DEF Quiet, Others, Idle
<1>c. ASSUME NEW p \in Procs, NEW pc, pc \notin Past, Goto(p, pc),
             UNCHANGED <<files, records, attempts, mail>>
      PROVE  Quiet
  BY <1>0, <1>c DEF Quiet, Goto, ProcOK, ProcState
<1>1. ASSUME NEW p \in Procs, NEW r \in Runs, ClaimJob(p, r)
      PROVE  Quiet
  BY <1>1, <1>0, <1>a DEF ClaimJob, Quiet, ProcOK
<1>2. ASSUME NEW p \in Procs, Recover(p) PROVE Quiet
  BY <1>2 DEF Recover, Quiet
<1>3. ASSUME NEW p \in Procs,
             RetryJob(p) \/ LeaseLost(p) \/ Crash(p) \/ FinishAnalysis(p)
               \/ FinishReport(p) \/ Quarantine(p)
      PROVE  Quiet
  BY <1>3, <1>b DEF RetryJob, LeaseLost, Crash, FinishAnalysis, FinishReport, Quarantine
<1>4. ASSUME NEW p \in Procs, Analyze(p) \/ ReadAnalysis(p) PROVE Quiet
  BY <1>4, <1>a, <1>c DEF Analyze, ReadAnalysis
<1>5. ASSUME NEW r \in Runs, Environment(r) PROVE Quiet
  BY <1>5 DEF Environment, Quiet
<1>6. CASE UNCHANGED vars
  BY <1>6 DEF vars, Quiet
<1> QED
  BY <1>1, <1>2, <1>3, <1>4, <1>5, <1>6 DEF Next, Step, Loop, Work, Report

-----------------------------------------------------------------------------
(***************************************************************************)
(* The reply                                                               *)
(***************************************************************************)
\* No other reporter is past report.json on the run of p.
Sole(p) == \A q \in Procs \ {p} : proc[q].pc \in Past => Job(q) # Job(p)

LEMMA PastIsSole ==
    ASSUME PastOwnsReport, NEW p \in Procs, proc[p].pc \in Past
    PROVE  Sole(p)
BY DEF PastOwnsReport, Sole

LEMMA PastIsReporter ==
    ASSUME TypeOK, NEW p \in Procs, proc[p].pc \in Past
    PROVE  /\ ~At(p, "idle")
           /\ PcOf(p) = ReporterPc
           /\ Job(p) \in Runs
<1>1. proc[p].pc \in ReporterPc \ {"idle", "failed"}
  BY DEF Past, BeforeAttempt, InAttempt, ReporterPc, ReportFile
<1> QED
  BY <1>1, ReporterAt

LEMMA QuietReply ==
    ASSUME ReplyInv, Quiet
    PROVE  ReplyInv'
<1>1. PastOwnsReport'
  BY DEF ReplyInv, PastOwnsReport, Quiet, Job
<1>2. {"submit", "accepted", "complete"} \cup BeforeAttempt \cup InAttempt \subseteq Past
  BY DEF Past, InAttempt
<1>3. AttemptsFollowReporter'
  BY <1>2, SMTT(30) DEF ReplyInv, AttemptsFollowReporter, RunReply, ProcReply, Quiet, Job, At
<1> QED
  BY <1>1, <1>3 DEF ReplyInv

LEMMA ProcsAreOwners == \A q \in Procs : q \in Owners /\ q # NoOwner
BY PipelineAssumption, QueueAssumption DEF Procs

\* Steps before the attempt: nothing is begun, submitted or closed.
LEMMA BeforeAttemptReply ==
    ASSUME ReplyInv, NEW p \in Procs, Others(p), UNCHANGED <<attempts, mail>>,
           proc'[p].run = proc[p].run,
           proc'[p].pc \in Past =>
             proc'[p].pc \in BeforeAttempt /\ Len(attempts[Job(p)]) = 0,
           \A r \in Runs : files'[r]["report.json"] = NoOwner =>
                             files[r]["report.json"] = NoOwner
    PROVE  AttemptsFollowReporter'
<1>1. {"submit", "accepted", "complete"} \cup InAttempt \subseteq Past \ BeforeAttempt
  BY DEF Past, InAttempt, BeforeAttempt
<1>2. \A r \in Runs : /\ Len(attempts[r]) <= 1
                      /\ mail[r] <= Len(attempts[r])
                      /\ files'[r]["report.json"] = NoOwner => Len(attempts[r]) = 0
                      /\ Len(attempts[r]) = 1 /\ attempts[r][1] = "accepted" => mail[r] = 1
  BY DEF ReplyInv, AttemptsFollowReporter, RunReply
<1>3. ASSUME NEW q \in Procs, q # p
      PROVE  proc'[q] = proc[q]
  BY <1>3 DEF Others
<1>4. BeforeAttempt \subseteq Past
  BY DEF Past
<1> QED
  <2>1. \A r \in Runs : RunReply(r)'
    BY <1>2 DEF RunReply
  <2>2. ProcReply(p)'
    BY <1>1, <1>4 DEF ProcReply, At, Job
  <2>3. ASSUME NEW q \in Procs, q # p
        PROVE  ProcReply(q)'
    <3>1. ProcReply(q)
      BY DEF ReplyInv, AttemptsFollowReporter
    <3> QED
      BY <1>3, <2>3, <3>1 DEF ProcReply, At, Job
  <2> QED
    BY <2>1, <2>2, <2>3 DEF AttemptsFollowReporter

\* A step inside the attempt changes the attempts and the mail of one run, and
\* no other reporter depends on them.
LEMMA OwnAttemptReply ==
    ASSUME TypeOK, ReplyInv, NEW p \in Procs, proc[p].pc \in Past, Others(p),
           NEW r \in Runs, r = Job(p), proc'[p].run = r, UNCHANGED files,
           \A s \in Runs \ {r} : attempts'[s] = attempts[s] /\ mail'[s] = mail[s],
           RunReply(r)', ProcReply(p)'
    PROVE  ReplyInv'
<1>1. PastOwnsReport'
  BY DEF ReplyInv, PastOwnsReport, Others, Job
<1>3. ASSUME NEW s \in Runs
      PROVE  RunReply(s)'
  <2>1. CASE s = r
    BY <2>1
  <2>2. CASE s # r
    BY <2>2 DEF ReplyInv, AttemptsFollowReporter, RunReply
  <2> QED
    BY <2>1, <2>2
<1>4. ASSUME NEW q \in Procs
      PROVE  ProcReply(q)'
  <2>1. CASE q = p
    BY <2>1
  <2>2. CASE q # p /\ proc[q].pc \notin Past
    <3>1. proc'[q].pc \notin Past
      BY <2>2 DEF Others
    <3>2. /\ proc'[q].pc \notin BeforeAttempt \cup InAttempt
          /\ proc'[q].pc \notin {"submit", "accepted", "complete"}
      BY <3>1 DEF Past, InAttempt
    <3> QED
      BY <3>2 DEF ProcReply, At
  <2>3. CASE q # p /\ proc[q].pc \in Past
    <3>1. Job(q) # Job(p)
      BY <2>3, PastIsSole DEF ReplyInv, Sole
    <3>2. Job(q) \in Runs \ {Job(p)} /\ proc'[q] = proc[q]
      BY <2>3, <3>1, PastIsReporter DEF Others
    <3>3. ProcReply(q)
      BY DEF ReplyInv, AttemptsFollowReporter
    <3>4. PICK s \in Runs : s = Job(q) /\ attempts'[s] = attempts[s] /\ mail'[s] = mail[s]
      BY <3>2
    <3> QED
      BY <3>2, <3>3, <3>4, Zenon DEF ProcReply, At, Job
  <2> QED
    BY <2>1, <2>2, <2>3
<1> QED
  BY <1>1, <1>3, <1>4 DEF ReplyInv, AttemptsFollowReporter

LEMMA PublishReply ==
    ASSUME TypeOK, ReplyInv, NEW p \in Procs, Publish(p)
    PROVE  ReplyInv'
<1> DEFINE f == proc[p].pc
           r == Job(p)
<1>0. ProcOK /\ StoreOK
  BY TypeParts
<1>1. f \in File /\ f \in PcOf(p) /\ ~At(p, "idle")
  BY <1>0 DEF Publish, ProcOK, File, AnalysisFile, ReportFile, At
<1>2. r \in Runs
  BY <1>0, <1>1, JobIsRun
<1>3. UNCHANGED <<records, attempts, mail>>
  BY DEF Publish
<1>a. p # NoOwner
  BY PhaseOfType, QueueAssumption
<1>b. "failed" \in PcOf(p) \ {"idle"} /\ "failed" \notin Past
  BY DEF PcOf, WorkerPc, ReporterPc, Past, BeforeAttempt, InAttempt
<1>4. CASE Goto(p, "failed") /\ UNCHANGED files
  <2>1. Others(p) /\ proc'[p].pc = "failed"
    BY <1>0, <1>1, <1>4, <1>b, GotoKeeps
  <2>2. Quiet
    BY <1>3, <1>4, <1>b, <2>1 DEF Quiet, Others
  <2> QED
    BY <2>2, QuietReply
<1>5. CASE /\ files[r][f] = NoOwner
           /\ files' = [files EXCEPT ![r][f] = p]
           /\ Goto(p, After[f]) \/ Goto(p, "failed")
  <2>1. /\ Others(p)
        /\ proc'[p].pc \in {After[f], "failed"}
        /\ proc'[p].run = r
    <3>1. PICK pc \in {After[f], "failed"} : Goto(p, pc)
      BY <1>5
    <3>2. pc \in PcOf(p) \ {"idle"}
      BY <1>1, <1>b, <3>1, AfterType
    <3> QED
      BY <1>0, <1>1, <3>1, <3>2, GotoKeeps DEF Job
  <2>2. /\ files'[r][f] = p
        /\ \A s \in Runs, g \in File : s # r \/ g # f => files'[s][g] = files[s][g]
    <3>1. files \in [Runs -> [File -> Procs \cup {NoOwner}]] /\ f \in File
      BY <1>0, <1>1 DEF StoreOK
    <3> HIDE DEF f, r
    <3> QED
      BY <1>2, <1>5, <3>1, FilesExcept
  <2>3. "report.json" \in File
    BY DEF File, ReportFile
  <2>4. CASE f = "report.json"
    <3>1. After[f] \in BeforeAttempt
      BY <2>4 DEF After, BeforeAttempt, File, ReportFile
    <3>2. \A q \in Procs : proc[q].pc \in Past => Job(q) # r
      BY ProcsAreOwners, <1>5, <2>4 DEF ReplyInv, PastOwnsReport
    <3>3. Len(attempts[r]) = 0
      BY <1>2, <1>5, <2>4 DEF ReplyInv, AttemptsFollowReporter, RunReply
    <3>4. \A q \in Procs \ {p} : proc[q].pc \in Past => Job(q) \in Runs
      BY PastIsReporter
    <3>5. PastOwnsReport'
      <4>1. files'[r]["report.json"] = p
        BY <2>2, <2>4
      <4>2. ASSUME NEW q \in Procs, q # p, proc[q].pc \in Past
            PROVE  files'[Job(q)]["report.json"] = q
        BY <2>2, <2>3, <3>2, <3>4, <4>2 DEF ReplyInv, PastOwnsReport
      <4> QED
        BY <2>1, <4>1, <4>2 DEF PastOwnsReport, Others, Job
    <3>6. \A s \in Runs : files'[s]["report.json"] = NoOwner => files[s]["report.json"] = NoOwner
      BY <1>a, <2>2, <2>3, <2>4
    <3> QED
      BY <1>3, <1>b, <2>1, <3>1, <3>3, <3>5, <3>6, BeforeAttemptReply DEF ReplyInv, Job
  <2>5. CASE f \in AnalysisFile
    <3>1. After[f] \notin Past
      BY <2>5 DEF After, File, AnalysisFile, Past, BeforeAttempt, InAttempt
    <3>2. \A s \in Runs : files'[s]["report.json"] = files[s]["report.json"]
      BY <2>2, <2>3, <2>5 DEF AnalysisFile
    <3>3. \A q \in Procs : proc[q].pc \in Past => Job(q) \in Runs
      BY PastIsReporter
    <3>4. PastOwnsReport'
      BY <1>b, <2>1, <3>1, <3>2, <3>3 DEF ReplyInv, PastOwnsReport, Others, Job
    <3> QED
      BY <1>3, <1>b, <2>1, <3>1, <3>2, <3>4, BeforeAttemptReply DEF ReplyInv, Job
  <2>6. CASE f \in ReportFile \ {"report.json"}
    <3>1. f \in BeforeAttempt /\ After[f] \in BeforeAttempt
      BY <2>6 DEF After, BeforeAttempt, File, ReportFile
    <3>2. \A s \in Runs : files'[s]["report.json"] = files[s]["report.json"]
      BY <2>2, <2>3, <2>6
    <3>3. \A q \in Procs : proc[q].pc \in Past => Job(q) \in Runs
      BY PastIsReporter
    <3>4. f \in Past /\ Len(attempts[r]) = 0
      BY <3>1 DEF ReplyInv, AttemptsFollowReporter, ProcReply, Past
    <3>5. PastOwnsReport'
      BY <1>b, <2>1, <3>2, <3>3, <3>4, SMTT(30)
      DEF ReplyInv, PastOwnsReport, Others, Job
    <3> QED
      BY <1>3, <1>b, <2>1, <3>1, <3>2, <3>4, <3>5, BeforeAttemptReply DEF ReplyInv, Job
  <2> QED
    BY <1>1, <2>4, <2>5, <2>6 DEF File
<1> QED
  BY <1>4, <1>5 DEF Publish

LEMMA VerifyRecordReply ==
    ASSUME TypeOK, ReplyInv, NEW p \in Procs, VerifyBundle(p) \/ InsertRecord(p)
    PROVE  ReplyInv'
<1>0. ProcOK
  BY TypeParts
<1>1. proc[p].pc \in BeforeAttempt
  BY DEF VerifyBundle, InsertRecord, At, BeforeAttempt
<1>2. proc[p].pc \in Past /\ Len(attempts[Job(p)]) = 0
  BY <1>1 DEF ReplyInv, AttemptsFollowReporter, ProcReply, Past
<1>3. ~At(p, "idle") /\ PcOf(p) = ReporterPc
  BY <1>2, PastIsReporter
<1>4. {"record", "destination", "failed"} \subseteq PcOf(p) \ {"idle"}
  BY <1>3 DEF ReporterPc
<1>5. Goto(p, "record") \/ Goto(p, "destination") \/ Goto(p, "failed")
  BY DEF VerifyBundle, InsertRecord
<1>6. /\ Others(p)
      /\ proc'[p].pc \in {"record", "destination", "failed"}
      /\ proc'[p].run = proc[p].run
  BY <1>0, <1>3, <1>4, <1>5, GotoKeeps
<1>7. UNCHANGED <<files, attempts, mail>>
  BY DEF VerifyBundle, InsertRecord
<1>8. {"record", "destination"} \subseteq BeforeAttempt /\ "failed" \notin Past
  BY DEF Past, BeforeAttempt, InAttempt
<1>9. PastOwnsReport'
  BY <1>2, <1>6, <1>7 DEF ReplyInv, PastOwnsReport, Others, Job
<1> QED
  BY <1>2, <1>6, <1>7, <1>8, <1>9, BeforeAttemptReply DEF ReplyInv

LEMMA BeginReply ==
    ASSUME TypeOK, ReplyInv, NEW p \in Procs, BeginReportAttempt(p)
    PROVE  ReplyInv'
<1>0. ProcOK /\ StoreOK
  BY TypeParts
<1>1. proc[p].pc \in BeforeAttempt /\ proc[p].pc \in Past
  BY DEF BeginReportAttempt, At, BeforeAttempt, Past
<1>3. ~At(p, "idle") /\ PcOf(p) = ReporterPc /\ Job(p) \in Runs
  BY <1>1, PastIsReporter
<1>r. PICK r \in Runs : r = Job(p)
  BY <1>3
<1> DEFINE n == Len(attempts[r]) + 1
<1>2. Len(attempts[r]) = 0
  BY <1>1, <1>r DEF ReplyInv, AttemptsFollowReporter, ProcReply
<1>4. UNCHANGED <<files, mail>>
  BY DEF BeginReportAttempt
<1>5. {"reply_suppressed", "failed", "submit"} \subseteq PcOf(p) \ {"idle"}
  BY <1>3 DEF ReporterPc
<1>6. CASE /\ Goto(p, "reply_suppressed") \/ Goto(p, "failed")
           /\ UNCHANGED <<attempts, events>>
  <2>1. /\ Others(p)
        /\ proc'[p].pc \in {"reply_suppressed", "failed"}
        /\ proc'[p].run = proc[p].run
    BY <1>0, <1>3, <1>5, <1>6, GotoKeeps
  <2>2. "reply_suppressed" \in BeforeAttempt /\ "failed" \notin Past
    BY DEF Past, BeforeAttempt, InAttempt
  <2>3. PastOwnsReport'
    BY <1>1, <1>4, <2>1 DEF ReplyInv, PastOwnsReport, Others, Job
  <2> QED
    BY <1>2, <1>4, <1>6, <1>r, <2>1, <2>2, <2>3, BeforeAttemptReply DEF ReplyInv
<1>7. CASE /\ attempts' = [attempts EXCEPT ![r] = Append(@, "started")]
           /\ proc' = [proc EXCEPT ![p] = [pc |-> "submit", run |-> r, attempt |-> n]]
  <2>1. n = 1 /\ n \in Nat
    BY <1>2
  <2>2. /\ Others(p)
        /\ proc'[p].pc = "submit"
        /\ proc'[p].run = r
        /\ proc'[p].attempt = 1
    <3>1. proc' = [proc EXCEPT ![p] = [pc |-> "submit", run |-> r, attempt |-> n]]
      BY <1>7
    <3>2. "submit" \in PcOf(p) \ {"idle"}
      BY <1>5
    <3> HIDE DEF n
    <3>3. n \in Nat
      BY <2>1
    <3>4. Others(p) /\ proc'[p].pc = "submit" /\ proc'[p].run = r /\ proc'[p].attempt = n
      BY <1>0, <3>1, <3>2, <3>3, AssignKeeps, Zenon
    <3> QED
      BY <2>1, <3>4
  <2>3. attempts[r] \in Seq(Outcome) /\ "started" \in Outcome
    BY <1>0, <1>3 DEF StoreOK, Outcome
  <2>4. /\ Len(Append(attempts[r], "started")) = 1
        /\ Append(attempts[r], "started")[1] = "started"
    BY <1>2, <2>3, OutcomeSeq
  <2>5. /\ Len(attempts'[r]) = 1
        /\ attempts'[r][1] = "started"
        /\ \A s \in Runs \ {r} : attempts'[s] = attempts[s]
    BY <1>0, <1>3, <1>7, <2>4 DEF StoreOK
  <2>6. mail[r] = 0 /\ files[r]["report.json"] # NoOwner
    BY <1>0, <1>1, <1>2, <1>r, ProcsAreOwners
    DEF ReplyInv, AttemptsFollowReporter, RunReply, PastOwnsReport, StoreOK
  <2>7. RunReply(r)'
    BY <1>4, <2>2, <2>5, <2>6, SMTT(30) DEF RunReply
  <2>8. ProcReply(p)'
    BY <1>4, <2>2, <2>5, <2>6 DEF ProcReply, BeforeAttempt, At, Job
  <2> QED
    BY <1>1, <1>4, <2>2, <2>5, <2>7, <2>8, <1>r, OwnAttemptReply
<1> QED
  BY <1>6, <1>7, <1>r DEF BeginReportAttempt

LEMMA SubmitReply ==
    ASSUME TypeOK, ReplyInv, NEW p \in Procs, Submit(p)
    PROVE  ReplyInv'
<1>0. ProcOK /\ StoreOK
  BY TypeParts
<1>1. proc[p].pc \in InAttempt /\ proc[p].pc \in Past /\ At(p, "submit")
  BY DEF Submit, At, InAttempt, Past
<1>2. ~At(p, "idle") /\ PcOf(p) = ReporterPc /\ Job(p) \in Runs
  BY <1>1, PastIsReporter
<1>r. PICK r \in Runs : r = Job(p)
  BY <1>2
<1>3. /\ proc[p].attempt = 1
      /\ Len(attempts[r]) = 1
      /\ attempts[r][1] = "started"
      /\ mail[r] = 0
      /\ files[r]["report.json"] # NoOwner
  BY <1>1, <1>r, ProcsAreOwners
  DEF ReplyInv, AttemptsFollowReporter, ProcReply, PastOwnsReport
<1>4. PICK o \in SubmitOutcome : /\ mail' = [mail EXCEPT ![r] = @ + o.took]
                                 /\ Goto(p, o.pc)
  BY <1>r, Zenon DEF Submit
<1>5. /\ o.took \in {0, 1}
      /\ o.pc \in {"accepted", "refused", "uncertain"}
      /\ o.pc = "accepted" => o.took = 1
  BY DEF SubmitOutcome
<1>6. o.pc \in PcOf(p) \ {"idle"}
  BY <1>2, <1>5 DEF ReporterPc
<1>7. /\ Others(p)
      /\ proc'[p].pc = o.pc
      /\ proc'[p].run = r
      /\ proc'[p].attempt = 1
  BY <1>0, <1>2, <1>3, <1>4, <1>6, <1>r, GotoKeeps DEF Job
<1>8. mail'[r] = o.took /\ \A s \in Runs \ {r} : mail'[s] = mail[s]
  <2>1. mail \in [Runs -> Nat] /\ o.took \in Nat
    BY <1>0, <1>5 DEF StoreOK
  <2>2. mail'[r] = mail[r] + o.took
    BY <1>4, <2>1
  <2>3. \A s \in Runs \ {r} : mail'[s] = mail[s]
    BY <1>4, <2>1
  <2> QED
    BY <1>3, <2>1, <2>2, <2>3
<1>9. UNCHANGED <<files, attempts>>
  BY DEF Submit
<1>10. RunReply(r)'
  <2>1. Len(attempts'[r]) = 1 /\ attempts'[r][1] = "started" /\ mail'[r] <= 1
    BY <1>3, <1>5, <1>8, <1>9
  <2>2. files'[r]["report.json"] # NoOwner
    BY <1>3, <1>9
  <2> QED
    BY <2>1, <2>2, SMTT(30) DEF RunReply
<1>11. ProcReply(p)'
  BY <1>3, <1>5, <1>7, <1>8, <1>9, Zenon DEF ProcReply, BeforeAttempt, At, Job
<1> QED
  BY <1>1, <1>7, <1>8, <1>9, <1>10, <1>11, <1>r, OwnAttemptReply, Zenon

LEMMA FinishAttemptReply ==
    ASSUME TypeOK, ReplyInv, NEW p \in Procs, FinishReportAttempt(p)
    PROVE  ReplyInv'
<1> DEFINE outcome == AttemptOutcome[proc[p].pc]
<1>0. ProcOK /\ StoreOK
  BY TypeParts
<1>1. /\ proc[p].pc \in {"accepted", "refused", "uncertain"}
      /\ proc[p].pc \in InAttempt
      /\ proc[p].pc \in Past
  BY DEF FinishReportAttempt, InAttempt, Past
<1>2. ~At(p, "idle") /\ PcOf(p) = ReporterPc /\ Job(p) \in Runs
  BY <1>1, PastIsReporter
<1>r. PICK r \in Runs : r = Job(p)
  BY <1>2
<1>3. /\ proc[p].attempt = 1
      /\ Len(attempts[r]) = 1
      /\ attempts[r][1] = "started"
      /\ mail[r] <= 1
      /\ proc[p].pc = "accepted" => mail[r] = 1
      /\ files[r]["report.json"] # NoOwner
  <2>1. ProcReply(p) /\ RunReply(r) /\ files[r]["report.json"] = p
    BY <1>1, <1>r DEF ReplyInv, AttemptsFollowReporter, PastOwnsReport
  <2>2. /\ proc[p].attempt = 1
        /\ Len(attempts[r]) = 1
        /\ attempts[r][1] = "started"
        /\ proc[p].pc = "accepted" => mail[r] = 1
    BY <1>1, <1>r, <2>1 DEF ProcReply, At
  <2>3. mail[r] <= 1
    BY <2>1, <2>2 DEF RunReply
  <2> QED
    BY <2>1, <2>2, <2>3, ProcsAreOwners
<1>4. UNCHANGED <<files, mail>>
  BY DEF FinishReportAttempt
<1>5. /\ outcome \in Outcome
      /\ outcome \in {"accepted", "failed", "unknown"}
      /\ outcome = "accepted" => proc[p].pc = "accepted"
  BY <1>1, SMTT(30) DEF AttemptOutcome, Outcome
<1>6. {"complete", "failed", "unknown"} \subseteq PcOf(p) \ {"idle"}
  BY <1>2 DEF ReporterPc
<1>7. CASE /\ attempts' = [attempts EXCEPT ![r][1] = outcome]
           /\ \/ outcome = "accepted" /\ Goto(p, "complete")
              \/ Goto(p, "failed")
              \/ Goto(p, "unknown")
  <2>1. /\ Others(p)
        /\ proc'[p].pc \in {"complete", "failed", "unknown"}
        /\ proc'[p].pc = "complete" => outcome = "accepted"
        /\ proc'[p].run = r
    BY <1>0, <1>2, <1>6, <1>7, <1>r, GotoKeeps DEF Job
  <2>2. attempts[r] \in Seq(Outcome)
    BY <1>0, <1>2 DEF StoreOK
  <2> HIDE DEF outcome
  <2>3. /\ Len([attempts[r] EXCEPT ![1] = outcome]) = 1
        /\ [attempts[r] EXCEPT ![1] = outcome][1] = outcome
    BY <1>3, <1>5, <2>2, OutcomeExcept
  <2>4. attempts' = [attempts EXCEPT ![r] = [attempts[r] EXCEPT ![1] = outcome]]
    BY <1>7
  <2>5. /\ Len(attempts'[r]) = 1
        /\ attempts'[r][1] = outcome
        /\ \A s \in Runs \ {r} : attempts'[s] = attempts[s]
    BY <1>0, <1>2, <2>3, <2>4 DEF StoreOK
  <2>6. RunReply(r)'
    <3>1. /\ mail'[r] <= 1
          /\ outcome = "accepted" => mail'[r] = 1
          /\ files'[r]["report.json"] # NoOwner
      BY <1>3, <1>4, <1>5
    <3>2. mail'[r] <= Len(attempts'[r])
      BY <2>5, <3>1
    <3> QED
      BY <2>5, <3>1, <3>2 DEF RunReply
  <2>7. ProcReply(p)'
    BY <1>3, <1>4, <2>1, <2>5 DEF ProcReply, BeforeAttempt, InAttempt, At, Job
  <2> QED
    BY <1>1, <1>4, <2>1, <2>5, <2>6, <2>7, <1>r, OwnAttemptReply
<1>8. CASE /\ attempts' = attempts
           /\ Goto(p, "failed") \/ Goto(p, "unknown")
  <2>1. /\ Others(p)
        /\ proc'[p].pc \in {"failed", "unknown"}
        /\ proc'[p].run = r
    BY <1>0, <1>2, <1>6, <1>8, <1>r, GotoKeeps DEF Job
  <2>2. RunReply(r)'
    <3>1. Len(attempts'[r]) = 1 /\ attempts'[r][1] = "started" /\ mail'[r] <= 1
      BY <1>3, <1>4, <1>8
    <3> QED
      BY <1>3, <1>4, <3>1, SMTT(30) DEF RunReply
  <2>3. ProcReply(p)'
    BY <1>3, <1>4, <1>8, <2>1 DEF ProcReply, BeforeAttempt, InAttempt, At, Job
  <2> QED
    BY <1>1, <1>4, <1>8, <2>1, <2>2, <2>3, <1>r, OwnAttemptReply
<1>9. \/ /\ attempts' = [attempts EXCEPT ![r][1] = outcome]
         /\ \/ outcome = "accepted" /\ Goto(p, "complete")
            \/ Goto(p, "failed")
            \/ Goto(p, "unknown")
      \/ attempts' = attempts /\ (Goto(p, "failed") \/ Goto(p, "unknown"))
  BY <1>3, <1>5, <1>r DEF FinishReportAttempt
<1> QED
  BY <1>7, <1>8, <1>9

LEMMA InitReply == Init => ReplyInv
<1> SUFFICES ASSUME Init PROVE ReplyInv
  OBVIOUS
<1>1. \A p \in Procs : proc[p].pc = "idle"
  BY DEF Init, Idle
<1>2. "idle" \notin Past /\ BeforeAttempt \subseteq Past /\ InAttempt \subseteq Past
  BY DEF Past, BeforeAttempt, InAttempt
<1>3. \A r \in Runs : Len(attempts[r]) = 0 /\ mail[r] = 0
  BY Zenon DEF Init
<1> QED
  BY <1>1, <1>2, <1>3, SMTT(30)
  DEF ReplyInv, PastOwnsReport, AttemptsFollowReporter, RunReply, ProcReply, At

LEMMA StepReply == TypeOK /\ ReplyInv /\ [Next]_vars => ReplyInv'
BY StepShape, QuietReply, PublishReply, VerifyRecordReply, BeginReply, SubmitReply,
   FinishAttemptReply

\* A run is answered at most once, for every number of runs, workers and
\* reporters, every limit of attempts and every pattern of expired leases,
\* unguarded retries, stops and redeliveries.
THEOREM AnsweredAtMostOnce == Spec => []AtMostOneReply
<1>1. ReplyInv => AtMostOneReply
  BY Zenon DEF ReplyInv, AttemptsFollowReporter, RunReply, AtMostOneReply
<1> QED
  BY <1>1, InitType, StepType, InitReply, StepReply, PTL DEF Spec
=============================================================================
