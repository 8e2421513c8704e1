------------------------------ MODULE Collector ------------------------------
(***************************************************************************)
(* The collector (cmd/mailproof/main.go: collect, collectOnce): it sweeps  *)
(* the Maildir, seals every new message, consumes the admission stamp the  *)
(* message carries and records either a run or a rejection.                *)
(*                                                                         *)
(* A collector holds the row of collector_lease, which it renews at the    *)
(* start of a sweep and not during it.  A sweep that takes longer than the *)
(* lease overlaps the sweep of another collector.  A collector that meets  *)
(* an error releases the lease and exits; one that is killed leaves its    *)
(* lease to run out, as its successor draws another owner id.  Delivery,   *)
(* run and decision ids are random and never repeat, so each row is known  *)
(* here by the message it is about.                                        *)
(***************************************************************************)
EXTENDS Naturals, Sequences

CONSTANTS
    Collectors,     \* collector processes
    Mails,          \* Maildir entries (source keys)
    Decisions,      \* admissions that issued a stamp
    Stamp,          \* per entry: the decision whose stamp it carries, if any
    NoStamp,        \* no stamp, several, one that does not authenticate, or one
                    \* that was issued for another queue id
    NoMail,
    Nobody,         \* the lease row does not exist
    Gone,           \* lease owner: a process that was killed
    MaxFaults       \* bound: errors, kills and database failures

ASSUME CollectorAssumption ==
    /\ Stamp \in [Mails -> Decisions \cup {NoStamp}]
    /\ NoStamp \notin Decisions
    /\ NoMail \notin Mails
    /\ Nobody # Gone
    /\ Nobody \notin Collectors
    /\ Gone \notin Collectors
    /\ MaxFaults \in Nat

VARIABLES
    maildir,        \* entries delivered so far; the collector removes none
    lease,          \* collector_lease: its owner, and whether until < now
    col,            \* per collector: counter, entries left, entry, reason
    sealed,         \* entries whose bytes are in the artifact store
    contexts,       \* entries with an ingress.json under some delivery id
    stamps,         \* submission_decisions: consumed_at (by whom), expiry
    inactive,       \* decisions whose submitter is not active
    deliveries,     \* table deliveries by its unique source_key
    addressed,      \* deliveries with a reply address
    queued,         \* per entry: its rows in table runs
    rejected,       \* per entry: the reasons of its post-DATA rejections
    notices,        \* entries with a notify_verified_forwarder work item
    faults

tables == <<deliveries, addressed, queued, rejected, notices>>

vars == <<maildir, lease, col, sealed, contexts, stamps, inactive, tables, faults>>

-----------------------------------------------------------------------------
\* The one From address of the message is missing, or is not the sender that
\* was admitted.
WrapperRefused == {"wrapper_sender_invalid"}

\* No single subject can be selected, or its sender's domain is blocked or is
\* not on the allowlist.
SubjectRefused == {"selected_subject_ambiguous", "selected_subject_sender_denied"}

Reason == {"admission_stamp_invalid"} \cup WrapperRefused \cup SubjectRefused

\* The rejections that collectOnce follows with a notification.
Notified == {"wrapper_sender_invalid", "selected_subject_sender_denied"}

Pc == {"stopped", "ready", "sweep", "seal", "context", "stamp", "destination",
       "examine", "enqueue", "reject", "notify"}

Working == Pc \ {"stopped", "ready"}

Stopped == [pc |-> "stopped", todo |-> {}, mail |-> NoMail, reason |-> "none"]

At(c, pc) == col[c].pc = pc

Mail(c) == col[c].mail

Goto(c, pc) == col' = [col EXCEPT ![c].pc = pc]

\* On to the next entry of the sweep.
Continue(c) ==
    col' = [col EXCEPT ![c] = [pc |-> "sweep", todo |-> col[c].todo \ {Mail(c)},
                               mail |-> NoMail, reason |-> "none"]]

\* The process returns: the deferred ReleaseCollectorLease deletes the lease
\* row if it is still its own.
Exit(c) ==
    /\ col' = [col EXCEPT ![c] = Stopped]
    /\ lease' = IF lease.owner = c THEN [owner |-> Nobody, expired |-> FALSE] ELSE lease

Init ==
    /\ maildir = {}
    /\ lease = [owner |-> Nobody, expired |-> FALSE]
    /\ col = [c \in Collectors |-> Stopped]
    /\ sealed = {}
    /\ contexts = {}
    /\ stamps = [d \in Decisions |-> [by |-> NoMail, expired |-> FALSE]]
    /\ inactive = {}
    /\ deliveries = {}
    /\ addressed = {}
    /\ queued = [m \in Mails |-> 0]
    /\ rejected = [m \in Mails |-> <<>>]
    /\ notices = {}
    /\ faults = 0

-----------------------------------------------------------------------------
(***************************************************************************)
(* The loop: collect                                                       *)
(***************************************************************************)
\* Mutant: a lease is only taken over from nobody or from oneself.
NeverExpired(c) == lease.owner \in {Nobody, c}

\* The upsert of AcquireCollectorLease changes a row that is not there, that
\* has run out or that is the caller's own.
Available(c) == lease.owner \in {Nobody, c} \/ lease.expired

Start(c) ==
    /\ At(c, "stopped")
    /\ Available(c)
    /\ lease' = [owner |-> c, expired |-> FALSE]
    /\ Goto(c, "ready")
    /\ UNCHANGED <<maildir, sealed, contexts, stamps, inactive, tables, faults>>

\* The lease is acquired again before each sweep, and the directory is read
\* once.  A lease that was lost ends the process.
BeginSweep(c) ==
    /\ At(c, "ready")
    /\ IF Available(c)
       THEN /\ lease' = [owner |-> c, expired |-> FALSE]
            /\ col' = [col EXCEPT ![c] = [pc |-> "sweep", todo |-> maildir,
                                          mail |-> NoMail, reason |-> "none"]]
       ELSE Exit(c)
    /\ UNCHANGED <<maildir, sealed, contexts, stamps, inactive, tables, faults>>

\* An entry that has a row in deliveries is passed over.
TakeEntry(c) ==
    /\ At(c, "sweep")
    /\ \E m \in col[c].todo :
         col' = [col EXCEPT ![c] =
                   IF m \in deliveries
                   THEN [pc |-> "sweep", todo |-> col[c].todo \ {m},
                         mail |-> NoMail, reason |-> "none"]
                   ELSE [pc |-> "seal", todo |-> col[c].todo,
                         mail |-> m, reason |-> "none"]]
    /\ UNCHANGED <<maildir, lease, sealed, contexts, stamps, inactive, tables, faults>>

\* --watch waits for the next sweep; --once, and --max-jobs when it is
\* reached, return.
EndSweep(c) ==
    /\ At(c, "sweep")
    /\ col[c].todo = {}
    /\ \/ Goto(c, "ready") /\ UNCHANGED lease
       \/ Exit(c)
    /\ UNCHANGED <<maildir, sealed, contexts, stamps, inactive, tables, faults>>

-----------------------------------------------------------------------------
(***************************************************************************)
(* One entry: collectOnce, in the order of its calls                       *)
(***************************************************************************)
\* Mutant: the ingress context is not published.
SealOnly(c) ==
    /\ At(c, "seal")
    /\ sealed' = sealed \cup {Mail(c)}
    /\ Goto(c, "stamp")
    /\ UNCHANGED <<maildir, lease, contexts, stamps, inactive, tables, faults>>

\* Seal: content-addressed, an artifact that is there is kept.
Seal(c) ==
    /\ At(c, "seal")
    /\ sealed' = sealed \cup {Mail(c)}
    /\ Goto(c, "context")
    /\ UNCHANGED <<maildir, lease, contexts, stamps, inactive, tables, faults>>

PublishIngress(c) ==
    /\ At(c, "context")
    /\ contexts' = contexts \cup {Mail(c)}
    /\ Goto(c, "stamp")
    /\ UNCHANGED <<maildir, lease, sealed, stamps, inactive, tables, faults>>

Reject(c, reason) ==
    col' = [col EXCEPT ![c] = [pc |-> "reject", todo |-> col[c].todo,
                               mail |-> Mail(c), reason |-> reason]]

\* Mutant: the update does not ask for consumed_at IS NULL.
ConsumeAgain(c) ==
    /\ At(c, "stamp")
    /\ LET d == Stamp[Mail(c)]
       IN IF d \in Decisions /\ ~stamps[d].expired
          THEN /\ stamps' = [stamps EXCEPT ![d].by = Mail(c)]
               /\ Goto(c, "destination")
          ELSE Reject(c, "admission_stamp_invalid") /\ UNCHANGED stamps
    /\ UNCHANGED <<maildir, lease, sealed, contexts, inactive, tables, faults>>

\* One UPDATE, committed on its own, consumes a stamp that is neither consumed
\* nor expired.
ConsumeStamp(c) ==
    /\ At(c, "stamp")
    /\ LET d == Stamp[Mail(c)]
       IN IF d \in Decisions /\ stamps[d].by = NoMail /\ ~stamps[d].expired
          THEN /\ stamps' = [stamps EXCEPT ![d].by = Mail(c)]
               /\ Goto(c, "destination")
          ELSE Reject(c, "admission_stamp_invalid") /\ UNCHANGED stamps
    /\ UNCHANGED <<maildir, lease, sealed, contexts, inactive, tables, faults>>

\* Any error of that UPDATE is answered like a stamp that does not hold.
StampError(c) ==
    /\ At(c, "stamp")
    /\ faults < MaxFaults
    /\ faults' = faults + 1
    /\ Reject(c, "admission_stamp_invalid")
    /\ UNCHANGED <<maildir, lease, sealed, contexts, stamps, inactive, tables>>

\* The submitter must still be active; otherwise the process exits.
SnapshotDestination(c) ==
    /\ At(c, "destination")
    /\ IF Stamp[Mail(c)] \in inactive
       THEN Exit(c)
       ELSE Goto(c, "examine") /\ UNCHANGED lease
    /\ UNCHANGED <<maildir, sealed, contexts, stamps, inactive, tables, faults>>

\* The wrapper's sender, the selected subject and its sender's domain are
\* examined.  What they say depends on the message and on the policy snapshot,
\* and is asked at most once for a stamp.
Examine(c) ==
    /\ At(c, "examine")
    /\ \/ Goto(c, "enqueue")
       \/ \E reason \in WrapperRefused \cup SubjectRefused : Reject(c, reason)
    /\ UNCHANGED <<maildir, lease, sealed, contexts, stamps, inactive, tables, faults>>

\* Mutant: foreign keys are not enforced.
RecordLoosely(m) ==
    deliveries' = deliveries \cup {m}

\* The insert into deliveries leaves a source_key that is there alone; the row
\* that then refers to the new delivery id fails its foreign key, and the
\* transaction with it.
Record(m) ==
    /\ m \notin deliveries
    /\ deliveries' = deliveries \cup {m}

EnqueueAdmitted(c) ==
    /\ At(c, "enqueue")
    /\ Record(Mail(c))
    /\ addressed' = addressed \cup {Mail(c)}
    /\ queued' = [queued EXCEPT ![Mail(c)] = @ + 1]
    /\ Continue(c)
    /\ UNCHANGED <<maildir, lease, sealed, contexts, stamps, inactive, rejected, notices, faults>>

\* Mutant: every rejection takes the path of an admitted one.
RecordRejectedAddressed(c) ==
    /\ At(c, "reject")
    /\ Record(Mail(c))
    /\ rejected' = [rejected EXCEPT ![Mail(c)] = Append(@, col[c].reason)]
    /\ addressed' = addressed \cup {Mail(c)}
    /\ IF col[c].reason \in Notified THEN Goto(c, "notify") ELSE Continue(c)
    /\ UNCHANGED <<maildir, lease, sealed, contexts, stamps, inactive, queued, notices, faults>>

\* A rejection whose stamp held keeps the destination snapshot.
RecordRejected(c) ==
    /\ At(c, "reject")
    /\ Record(Mail(c))
    /\ rejected' = [rejected EXCEPT ![Mail(c)] = Append(@, col[c].reason)]
    /\ addressed' = IF col[c].reason = "admission_stamp_invalid"
                    THEN addressed ELSE addressed \cup {Mail(c)}
    /\ IF col[c].reason \in Notified THEN Goto(c, "notify") ELSE Continue(c)
    /\ UNCHANGED <<maildir, lease, sealed, contexts, stamps, inactive, queued, notices, faults>>

\* A transaction of its own.
EnqueueNotification(c) ==
    /\ At(c, "notify")
    /\ notices' = notices \cup {Mail(c)}
    /\ Continue(c)
    /\ UNCHANGED <<maildir, lease, sealed, contexts, stamps, inactive,
                   deliveries, addressed, queued, rejected, faults>>

\* Another collector recorded the entry first.
Refused(c) ==
    /\ col[c].pc \in {"enqueue", "reject"}
    /\ Mail(c) \in deliveries
    /\ Exit(c)
    /\ UNCHANGED <<maildir, sealed, contexts, stamps, inactive, tables, faults>>

-----------------------------------------------------------------------------
(***************************************************************************)
(* Failures and the environment                                            *)
(***************************************************************************)
\* An I/O or database error, or a signal, in the middle of a sweep.
Fail(c) ==
    /\ col[c].pc \in Working
    /\ faults < MaxFaults
    /\ faults' = faults + 1
    /\ Exit(c)
    /\ UNCHANGED <<maildir, sealed, contexts, stamps, inactive, tables>>

Kill(c) ==
    /\ ~At(c, "stopped")
    /\ faults < MaxFaults
    /\ faults' = faults + 1
    /\ col' = [col EXCEPT ![c] = Stopped]
    /\ lease' = IF lease.owner = c THEN [owner |-> Gone, expired |-> lease.expired] ELSE lease
    /\ UNCHANGED <<maildir, sealed, contexts, stamps, inactive, tables>>

\* Dovecot finishes the delivery of a message.
Deliver(m) ==
    /\ m \notin maildir
    /\ maildir' = maildir \cup {m}
    /\ UNCHANGED <<lease, col, sealed, contexts, stamps, inactive, tables, faults>>

LeaseExpires ==
    /\ lease.owner # Nobody
    /\ ~lease.expired
    /\ lease' = [owner |-> lease.owner, expired |-> TRUE]
    /\ UNCHANGED <<maildir, col, sealed, contexts, stamps, inactive, tables, faults>>

StampExpires(d) ==
    /\ ~stamps[d].expired
    /\ stamps' = [stamps EXCEPT ![d].expired = TRUE]
    /\ UNCHANGED <<maildir, lease, col, sealed, contexts, inactive, tables, faults>>

\* The submitter is revoked or, through the control API, reactivated.
SubmitterChanges(d) ==
    /\ inactive' = IF d \in inactive THEN inactive \ {d} ELSE inactive \cup {d}
    /\ UNCHANGED <<maildir, lease, col, sealed, contexts, stamps, tables, faults>>

Collect(c) ==
    \/ Start(c)
    \/ BeginSweep(c)
    \/ TakeEntry(c)
    \/ EndSweep(c)
    \/ Seal(c)
    \/ PublishIngress(c)
    \/ ConsumeStamp(c)
    \/ SnapshotDestination(c)
    \/ Examine(c)
    \/ EnqueueAdmitted(c)
    \/ RecordRejected(c)
    \/ EnqueueNotification(c)
    \/ Refused(c)

Break(c) == StampError(c) \/ Fail(c) \/ Kill(c)

World ==
    \/ \E m \in Mails : Deliver(m)
    \/ LeaseExpires
    \/ \E d \in Decisions : StampExpires(d) \/ SubmitterChanges(d)

Next ==
    \/ \E c \in Collectors : Collect(c) \/ Break(c)
    \/ World

Spec == Init /\ [][Next]_vars

(***************************************************************************)
(* The supervisor starts a collector again and schedules it, and a lease   *)
(* that nobody renews runs out.                                            *)
(***************************************************************************)
FairSpec ==
    /\ Spec
    /\ \A c \in Collectors : WF_vars(Collect(c))
    /\ WF_vars(LeaseExpires)

-----------------------------------------------------------------------------
(***************************************************************************)
(* Properties                                                              *)
(***************************************************************************)
\* Every table and every collector hold values of their types, and a collector
\* has an entry in hand exactly between TakeEntry and the end of that entry.
TypeOK ==
    /\ maildir \subseteq Mails
    /\ lease \in [owner : Collectors \cup {Nobody, Gone}, expired : BOOLEAN]
    /\ col \in [Collectors -> [pc : Pc, todo : SUBSET Mails, mail : Mails \cup {NoMail},
                               reason : Reason \cup {"none"}]]
    /\ \A c \in Collectors : (Mail(c) = NoMail) <=> (col[c].pc \in {"stopped", "ready", "sweep"})
    /\ sealed \subseteq maildir
    /\ contexts \subseteq sealed
    /\ stamps \in [Decisions -> [by : Mails \cup {NoMail}, expired : BOOLEAN]]
    /\ inactive \subseteq Decisions
    /\ deliveries \subseteq contexts
    /\ addressed \subseteq deliveries
    /\ queued \in [Mails -> Nat]
    /\ rejected \in [Mails -> Seq(Reason)]
    /\ notices \subseteq deliveries
    /\ faults \in 0 .. MaxFaults

\* An entry is recorded once: it never has two runs, two rejections, or a run
\* and a rejection, although sweeps overlap when a lease runs out and only the
\* unique source_key and the foreign keys stand between them.
OneOutcomePerEntry ==
    \A m \in Mails :
      queued[m] + Len(rejected[m]) = IF m \in deliveries THEN 1 ELSE 0

\* A stamp admits one message: of all entries that carry it (Postfix and
\* Dovecot may deliver a message twice) at most one gets a run, and it is the
\* one the stamp was consumed for.
StampAdmitsOneEntry ==
    \A m \in Mails : queued[m] > 0 =>
      /\ Stamp[m] \in Decisions
      /\ stamps[Stamp[m]].by = m

\* Nobody is written to on account of an unverified message: a delivery has a
\* reply address, and a rejection a notification, only if the entry's own stamp
\* was consumed for it, and only admitted entries get notifications.
OnlyVerifiedForwardersAreAddressed ==
    \A m \in addressed \cup notices :
      /\ Stamp[m] \in Decisions
      /\ stamps[Stamp[m]].by = m
      /\ rejected[m] # <<"admission_stamp_invalid">>

\* What the collector does to an entry is what Intake allows.
OutcomeOf(m) ==
    IF queued[m] = 0 /\ rejected[m] = <<>> THEN "none"
    ELSE IF rejected[m] = <<>> THEN "run"
    ELSE IF queued[m] = 0 THEN "rejected"
    ELSE "both"

Entry == INSTANCE Intake WITH
    outcome <- [m \in Mails |-> OutcomeOf(m)],
    spent   <- [d \in Decisions |-> stamps[d].by]

ImplementsIntake == Entry!IntakeSpec

\* Liveness: every message in the Maildir is recorded in the end, whatever
\* errors and kills interrupt the sweeps, as long as they cease.
EveryEntryIsRecorded ==
    \A m \in Mails : (m \in maildir) ~> (m \in deliveries)
=============================================================================
