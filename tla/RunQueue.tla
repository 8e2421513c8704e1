------------------------------ MODULE RunQueue ------------------------------
(***************************************************************************)
(* The durable run queue of internal/queue/queue.go: the table "runs" and  *)
(* the analytics events its transactions insert.  Every operation of the   *)
(* package is one SQLite write transaction, so each is one atomic action.  *)
(*                                                                         *)
(* Time is kept as the two comparisons the SQL makes with it: a row is     *)
(* "due" once not_before <= now, and "expired" once lease_until < now.     *)
(* LeaseExpires and BecomesDue are the passing of that time.  The order    *)
(* created_at gives to waiting rows is left open: it has a granularity of  *)
(* one second, and no property here depends on who is served first.        *)
(***************************************************************************)
EXTENDS Naturals

CONSTANTS
    Runs,           \* run ids: random, one per enqueued or replayed analysis
    Deliveries,     \* delivery ids
    Owners,         \* lease owners: the worker and reporter processes
    NoOwner,        \* lease_owner IS NULL
    NoDelivery,     \* the delivery of a row that does not exist
    MaxAttempts     \* the attempts limit that the callers pass to Retry

ASSUME QueueAssumption ==
    /\ MaxAttempts \in Nat \ {0}
    /\ NoOwner \notin Owners
    /\ NoDelivery \notin Deliveries

VARIABLES
    runs,           \* the table runs, by run id
    events          \* the rows of analytics_events these transactions insert

-----------------------------------------------------------------------------
Phase == {"analysis", "report"}

Waiting == [analysis |-> "queued", report |-> "report_pending"]

Leased == [analysis |-> "analysis_leased", report |-> "report_leased"]

Dead == [analysis |-> "analysis_dead", report |-> "report_dead"]

RunState == {"absent", "queued", "analysis_leased", "report_pending",
             "report_leased", "complete", "reply_suppressed",
             "analysis_dead", "report_dead"}

\* A row.  attempts holds analysis_attempts and report_attempts; a counter
\* stays at MaxAttempts once there, since the code only asks whether
\* attempts + 1 has reached it.
Row == [state     : RunState,
        delivery  : Deliveries \cup {NoDelivery},
        attempts  : [Phase -> 0 .. MaxAttempts],
        due       : BOOLEAN,
        owner     : Owners \cup {NoOwner},
        expired   : BOOLEAN,
        lastError : {"none", "error", "smtp_outcome_unknown"}]

Absent == [state |-> "absent", delivery |-> NoDelivery,
           attempts |-> [p \in Phase |-> 0], due |-> TRUE,
           owner |-> NoOwner, expired |-> FALSE, lastError |-> "none"]

\* An analytics event: producer and source id together are the pair of run,
\* number of the reply attempt (0 where the source id has none) and suffix.
EventText == RunState \cup Phase \cup
             {"", "started", "accepted", "failed", "unknown", "quarantine"}

Event == [type : {"run_started", "run_completed", "run_lifecycle",
                  "report_delivery_state"},
          run : Runs, attempt : Nat, suffix : EventText, outcome : EventText]

QueueInit ==
    /\ runs = [r \in Runs |-> Absent]
    /\ events = {}

-----------------------------------------------------------------------------
(***************************************************************************)
(* Analytics events: INSERT ... ON CONFLICT(producer, source_id,           *)
(* event_type) DO NOTHING, inside the transaction of the state change.     *)
(***************************************************************************)
\* Mutant: the conflict target leaves out the rest of the source id.
EventPerRun(type, id, attempt, suffix, outcome) ==
    events' = IF \E e \in events : e.type = type /\ e.run = id
              THEN events
              ELSE events \cup {[type |-> type, run |-> id, attempt |-> attempt,
                                 suffix |-> suffix, outcome |-> outcome]}

EventTx(type, id, attempt, suffix, outcome) ==
    events' = IF \E e \in events : /\ e.type = type
                                   /\ e.run = id
                                   /\ e.attempt = attempt
                                   /\ e.suffix = suffix
              THEN events
              ELSE events \cup {[type |-> type, run |-> id, attempt |-> attempt,
                                 suffix |-> suffix, outcome |-> outcome]}

\* Mutant: the lease columns keep their values.
StillLeased(row, state) == [row EXCEPT !.state = state]

\* A row moves to another state and its lease is cleared.
Unleased(row, state) ==
    [row EXCEPT !.state = state, !.owner = NoOwner, !.expired = FALSE]

-----------------------------------------------------------------------------
(***************************************************************************)
(* Operations                                                              *)
(***************************************************************************)
\* The runs row of an admitted delivery (the rest of the collector's
\* transaction is the subject of the module Collector).
Enqueue(id, d) ==
    /\ runs[id].state = "absent"
    /\ \A r \in Runs : runs[r].delivery # d
    /\ runs' = [runs EXCEPT ![id] = [Absent EXCEPT !.state = "queued",
                                                   !.delivery = d]]
    /\ UNCHANGED events

\* A replay inserts a second row for the delivery of an existing run.
Replay(id, old) ==
    /\ runs[old].state # "absent"
    /\ runs[id].state = "absent"
    /\ runs' = [runs EXCEPT ![id] = [Absent EXCEPT !.state = "queued",
                                                   !.delivery = runs[old].delivery]]
    /\ UNCHANGED events

Expired(id) == runs[id].owner # NoOwner /\ runs[id].expired

\* Claim, first transaction: if any lease has expired, every row with an
\* expired lease goes back to the queue of its phase and Claim starts over.
RecoverExpired ==
    /\ \E r \in Runs : Expired(r)
    /\ runs' = [r \in Runs |->
                  IF ~Expired(r) THEN runs[r]
                  ELSE Unleased(runs[r], IF runs[r].state = "analysis_leased"
                                         THEN "queued" ELSE "report_pending")]
    /\ UNCHANGED events

\* Claim, second transaction: lease one due row of the phase.
Claim(owner, phase, id) ==
    /\ \A r \in Runs : ~Expired(r)
    /\ runs[id].state = Waiting[phase]
    /\ runs[id].due
    /\ runs' = [runs EXCEPT ![id].state = Leased[phase],
                            ![id].owner = owner,
                            ![id].expired = FALSE]
    /\ EventTx("run_started", id, 0, "", phase)

Owns(id, owner, phase) ==
    runs[id].state = Leased[phase] /\ runs[id].owner = owner

\* Every finish of a phase is guarded by the state and by the lease owner.
Transition(id, owner, phase, to) ==
    /\ Owns(id, owner, phase)
    /\ runs' = [runs EXCEPT ![id] = Unleased(@, to)]
    /\ IF phase = "analysis"
       THEN EventTx("run_completed", id, 0, "", to)
       ELSE EventTx("report_delivery_state", id, 0, "", to)

\* Mutant: attempts are not counted.
RetryUncounted(id, phase) ==
    /\ runs' = [runs EXCEPT ![id] = [Unleased(@, Waiting[phase])
                                       EXCEPT !.due = FALSE, !.lastError = "error"]]
    /\ EventTx("run_lifecycle", id, 0, Waiting[phase], Waiting[phase])

\* One more failed attempt; the limit is reached when it makes MaxAttempts.
Exhausted(n) == n + 1 >= MaxAttempts

Counted(counts, phase) ==
    [counts EXCEPT ![phase] = IF Exhausted(@) THEN MaxAttempts ELSE @ + 1]

Failed(row, counts) ==
    [row EXCEPT !.attempts = counts, !.due = FALSE, !.lastError = "error"]

\* Retry finds the row by its run id alone: neither its state nor its lease
\* owner is compared.  The event names the waiting state even when the row
\* goes to the dead one.
Retry(id, phase) ==
    /\ LET counts == runs[id].attempts
           next == IF Exhausted(counts[phase]) THEN Dead[phase] ELSE Waiting[phase]
       IN runs' = [runs EXCEPT ![id] = Failed(Unleased(@, next), Counted(counts, phase))]
    /\ EventTx("run_lifecycle", id, 0, Waiting[phase], Waiting[phase])

QuarantineReply(id, owner) ==
    /\ Owns(id, owner, "report")
    /\ runs' = [runs EXCEPT ![id] = [Unleased(@, "report_dead")
                                       EXCEPT !.lastError = "smtp_outcome_unknown"]]
    /\ EventTx("report_delivery_state", id, 0, "quarantine", "unknown")

\* The operator's command: it refuses a run whose last error is the unknown
\* SMTP outcome unless the duplicate risk is accepted on the command line.
\* last_error keeps its value.  (The command reads and updates in two
\* statements; since the risk may be accepted on any run, one step shows every
\* outcome of the two.)
Redeliver(id, acceptDuplicateRisk) ==
    /\ runs[id].state = "report_dead"
    /\ runs[id].lastError = "smtp_outcome_unknown" => acceptDuplicateRisk
    /\ runs' = [runs EXCEPT ![id] = [Unleased(@, "report_pending")
                                       EXCEPT !.due = TRUE]]
    /\ UNCHANGED events

-----------------------------------------------------------------------------
\* Time passes.
LeaseExpires(id) ==
    /\ runs[id].owner # NoOwner
    /\ ~runs[id].expired
    /\ runs' = [runs EXCEPT ![id].expired = TRUE]
    /\ UNCHANGED events

BecomesDue(id) ==
    /\ ~runs[id].due
    /\ runs' = [runs EXCEPT ![id].due = TRUE]
    /\ UNCHANGED events
=============================================================================
