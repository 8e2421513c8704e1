----------------------------- MODULE Analytics -----------------------------
(***************************************************************************)
(* The analytics projection (internal/analytics and the commands           *)
(* analytics-projector and analytics of cmd/mailproof).  Transactions of   *)
(* the other components append rows to analytics_events; a projector       *)
(* counts them, in the order of their ids, into buckets of a minute, an    *)
(* hour and a day; an operator rebuilds the buckets of a window from the   *)
(* events, and lets old events and old buckets go.                         *)
(*                                                                         *)
(* A bucket's event_count is a sum over events.  The model keeps the       *)
(* summands: rollups[l][s] is how often event s is counted in its bucket   *)
(* of level l, and deleting a bucket sets it to 0 for the events that fall *)
(* into it.  The other columns of a bucket's key (metric, outcome,         *)
(* dimensions) are the same for all events here: no statement of the code  *)
(* chooses buckets by them.                                                *)
(***************************************************************************)
EXTENDS Integers, FiniteSets

CONSTANTS
    Sources,        \* the inserts into analytics_events that add a row
    Projectors,     \* the analytics-projector processes
    MaxTime,        \* times are 0 .. MaxTime
    MaxNow,         \* bound on the clock
    MaxSkew,        \* how far occurred_at may be from the time of the insert
    Truncate,       \* per level and time: the start of the time's bucket
    Keep,           \* per level: how long retention keeps a bucket
    MaxBatch,       \* --batch-size
    MaxCommands,    \* bound on rebuilds and retentions
    MaxFaults       \* bound on failures and kills of projectors

Levels == {"minute", "hour", "day"}

Time == 0 .. MaxTime

\* Buckets are ordered as their times are, and a day starts with a bucket of
\* every level.
ASSUME AnalyticsAssumption ==
    /\ {MaxTime, MaxNow, MaxSkew, MaxBatch, MaxCommands, MaxFaults} \subseteq Nat
    /\ IsFiniteSet(Sources)
    /\ MaxBatch >= 1
    /\ 1 <= MaxNow /\ MaxNow <= MaxTime
    /\ Truncate \in [Levels -> [Time -> Time]]
    /\ Keep \in [Levels -> Nat]
    /\ \A l \in Levels, t \in Time :
         /\ Truncate[l][t] <= t
         /\ Truncate[l][Truncate["day"][t]] = Truncate["day"][t]
         /\ \A u \in Time : t <= u => Truncate[l][t] <= Truncate[l][u]

VARIABLES
    now,            \* the clock
    at,             \* per event: occurred_at, 0 before its insert
    id,             \* per event: event_id, 0 when the table has no row of it
    cursor,         \* analytics_cursor
    rollups,        \* metric_rollups
    lease,          \* analytics_projector_lease
    projector,      \* the projectors
    retention,      \* a retain command between its checks and its transaction
    commands,       \* rebuilds and retentions so far
    faults,         \* failures and kills so far
    drift           \* history: what an event's counts are off by, and why

vars == <<now, at, id, cursor, rollups, lease, projector, retention, commands, faults, drift>>

table == <<at, id, drift>>

-----------------------------------------------------------------------------
Rows == {s \in Sources : id[s] # 0}

Newest == CHOOSE n \in {0} \cup {id[s] : s \in Sources} : \A s \in Sources : id[s] <= n

At(pc) == [pc |-> pc, batch |-> {}]

NoLease == [owner |-> "nobody", expired |-> FALSE]

NoRetention == [pc |-> "idle", cursor |-> 0, now |-> 0]

Init ==
    /\ now = 1
    /\ at = [s \in Sources |-> 0]
    /\ id = [s \in Sources |-> 0]
    /\ cursor = 0
    /\ rollups = [l \in Levels |-> [s \in Sources |-> 0]]
    /\ lease = NoLease
    /\ projector = [p \in Projectors |-> At("stopped")]
    /\ retention = NoRetention
    /\ commands = 0
    /\ faults = 0
    /\ drift = [s \in Sources |-> 0]

\* Mutant: what a transaction has read is not protected until it writes.
StaleNever(ps) == ps

\* A commit makes every transaction stale that has read and not yet written:
\* SQLite will refuse its first write.
Stale(ps) ==
    [p \in Projectors |-> IF ps[p].pc = "write" THEN At("stale") ELSE ps[p]]

-----------------------------------------------------------------------------
\* InsertTx, in the transaction of a lifecycle step: the row gets the id after
\* the largest in the table (the column is not AUTOINCREMENT).  An insert whose
\* key has a row adds none and is not shown.  The time is the caller's: a retry
\* is dated when it is due, a decision when it was made.
InsertTx(s, t) ==
    /\ at[s] = 0
    /\ at' = [at EXCEPT ![s] = t]
    /\ id' = [id EXCEPT ![s] = Newest + 1]
    /\ drift' = [drift EXCEPT ![s] = IF Newest < cursor THEN -1 ELSE 0]
    /\ projector' = Stale(projector)
    /\ UNCHANGED <<now, cursor, rollups, lease, retention, commands, faults>>

\* Mutant: the lease of a process that was killed stays.
AcquirableFree(p) == lease.owner \in {"nobody", p}

\* acquireAnalyticsLease succeeds: there is no lease, it has expired, or it is
\* the process's own.
Acquirable(p) == lease.owner \in {"nobody", p} \/ lease.expired

\* analyticsProjector acquires the lease when it starts and on every turn of
\* its loop; at the start the second follows the first at once.
Acquire(p) ==
    /\ projector[p].pc \in {"stopped", "loop"}
    /\ Acquirable(p)
    /\ lease' = [owner |-> p, expired |-> FALSE]
    /\ projector' = Stale([projector EXCEPT ![p] = At("read")])
    /\ UNCHANGED <<now, table, cursor, rollups, retention, commands, faults>>

\* Mutant: the batch is the newest events, not the oldest.
BatchNewest ==
    LET above == {s \in Sources : id[s] > cursor}
    IN {s \in above : Cardinality({u \in above : id[u] > id[s]}) < MaxBatch}

\* The first MaxBatch events above the cursor.
Batch ==
    LET above == {s \in Sources : id[s] > cursor}
    IN {s \in above : Cardinality({u \in above : id[u] < id[s]}) < MaxBatch}

\* ProjectOnce: the transaction's reads.  With nothing to count it ends here.
Read(p) ==
    /\ projector[p].pc = "read"
    /\ projector' = [projector EXCEPT ![p] = IF Batch = {} THEN At("loop")
                                             ELSE [pc |-> "write", batch |-> Batch]]
    /\ UNCHANGED <<now, table, cursor, rollups, lease, retention, commands, faults>>

\* One more in the buckets of a set of events, at every level.
CountIn(table_, events) ==
    [l \in Levels |-> [s \in Sources |-> table_[l][s] + IF s \in events THEN 1 ELSE 0]]

LastOf(events) == CHOOSE n \in {id[s] : s \in events} : \A s \in events : id[s] <= n

\* Mutant: the cursor moves to the newest event, not to the last of the batch.
WriteToNewest(p) ==
    /\ projector[p].pc = "write"
    /\ rollups' = CountIn(rollups, projector[p].batch)
    /\ cursor' = Newest
    /\ projector' = Stale([projector EXCEPT ![p] = At("loop")])
    /\ UNCHANGED <<now, table, lease, retention, commands, faults>>

\* ProjectOnce: the transaction's writes and its commit.
Write(p) ==
    /\ projector[p].pc = "write"
    /\ rollups' = CountIn(rollups, projector[p].batch)
    /\ cursor' = LastOf(projector[p].batch)
    /\ projector' = Stale([projector EXCEPT ![p] = At("loop")])
    /\ UNCHANGED <<now, table, lease, retention, commands, faults>>

\* The process returns with an error, since another has taken the lease or its
\* transaction is stale, and gives up the lease if it still has it.
Exit(p) ==
    /\ \/ projector[p].pc = "loop" /\ ~Acquirable(p)
       \/ projector[p].pc = "stale"
    /\ lease' = IF lease.owner = p THEN NoLease ELSE lease
    /\ projector' = Stale([projector EXCEPT ![p] = At("stopped")])
    /\ UNCHANGED <<now, table, cursor, rollups, retention, commands, faults>>

\* The process is stopped or the database fails: the lease is given up.  Or it
\* is killed: then the lease stays until it expires, in the name of a process
\* that no longer is.
Fail(p) ==
    /\ projector[p].pc # "stopped"
    /\ faults < MaxFaults
    /\ faults' = faults + 1
    /\ lease' \in IF lease.owner = p THEN {NoLease, [owner |-> "dead", expired |-> lease.expired]}
                 ELSE {lease}
    /\ projector' = Stale([projector EXCEPT ![p] = At("stopped")])
    /\ UNCHANGED <<now, table, cursor, rollups, retention, commands>>

LeaseExpires ==
    /\ lease.owner # "nobody"
    /\ ~lease.expired
    /\ lease' = [owner |-> lease.owner, expired |-> TRUE]
    /\ UNCHANGED <<now, table, cursor, rollups, projector, retention, commands, faults>>

Tick ==
    /\ now < MaxNow
    /\ now' = now + 1
    /\ UNCHANGED <<table, cursor, rollups, lease, projector, retention, commands, faults>>

-----------------------------------------------------------------------------
\* Mutant: the bounds need only be hours.
WindowsOfHours ==
    {w \in Time \X Time : w[1] < w[2] /\ \A i \in 1 .. 2 : Truncate["hour"][w[i]] = w[i]}

\* The bounds that the command accepts: whole days, in order.  The window of a
\* rebuild of everything is one of these.
Windows ==
    {w \in Time \X Time : w[1] < w[2] /\ \A i \in 1 .. 2 : Truncate["day"][w[i]] = w[i]}

\* The bucket of an event is deleted with those of the window.
Replaced(l, s, w) ==
    Truncate[l][w[1]] <= Truncate[l][at[s]] /\ Truncate[l][at[s]] < Truncate[l][w[2]]

Recounted(w) == {s \in Rows : w[1] <= at[s] /\ at[s] < w[2]}

\* RebuildWindow: one transaction, which begins with a write.
RebuildWindow(w) ==
    /\ commands < MaxCommands
    /\ commands' = commands + 1
    /\ rollups' = CountIn([l \in Levels |-> [s \in Sources |->
                             IF Replaced(l, s, w) THEN 0 ELSE rollups[l][s]]],
                          Recounted(w))
    /\ drift' = [s \in Sources |-> IF s \notin Recounted(w) THEN drift[s]
                                   ELSE IF id[s] > cursor THEN 1 ELSE 0]
    /\ projector' = Stale(projector)
    /\ UNCHANGED <<now, at, id, cursor, lease, retention, faults>>

\* analytics retain: its checks outside of the transaction.  An operator has
\* recorded a backup.
RetainCheck ==
    /\ retention.pc = "idle"
    /\ commands < MaxCommands
    /\ Newest <= cursor
    /\ commands' = commands + 1
    /\ retention' = [pc |-> "delete", cursor |-> cursor, now |-> now]
    /\ UNCHANGED <<now, table, cursor, rollups, lease, projector, faults>>

\* A bucket of an event is older than retention keeps its level, at time t.
Expired(l, s, t) == Truncate[l][at[s]] + Keep[l] < t

\* An expired bucket of a level has its row of the coarser level.
Complete(fine, coarse) ==
    \A s \in Sources :
        (rollups[fine][s] > 0 /\ Expired(fine, s, retention.now)) =>
            \E u \in Sources : /\ rollups[coarse][u] > 0
                               /\ Truncate[coarse][at[u]] = Truncate[coarse][at[s]]

\* The events that retention deletes: they are as old as an expired minute.
Purged ==
    {s \in Rows : at[s] + Keep["minute"] < retention.now /\ id[s] <= retention.cursor}

\* Mutant: hours are kept no longer than minutes.
RetainNoHours ==
    /\ retention.pc = "delete"
    /\ rollups' = [l \in Levels |-> [s \in Sources |->
                     IF Truncate[l][at[s]] + Keep[IF l = "day" THEN l ELSE "minute"] < retention.now
                     THEN 0 ELSE rollups[l][s]]]
    /\ id' = [s \in Sources |-> IF s \in Purged THEN 0 ELSE id[s]]
    /\ projector' = Stale(projector)
    /\ retention' = NoRetention
    /\ UNCHANGED <<now, at, cursor, lease, commands, faults, drift>>

\* analytics retain: the transaction.
Retain ==
    /\ retention.pc = "delete"
    /\ Complete("minute", "hour")
    /\ Complete("hour", "day")
    /\ rollups' = [l \in Levels |-> [s \in Sources |->
                     IF Expired(l, s, retention.now) THEN 0 ELSE rollups[l][s]]]
    /\ id' = [s \in Sources |-> IF s \in Purged THEN 0 ELSE id[s]]
    /\ projector' = Stale(projector)
    /\ retention' = NoRetention
    /\ UNCHANGED <<now, at, cursor, lease, commands, faults, drift>>

\* The command fails: buckets are missing, or any error of the database.
RetainFails ==
    /\ retention.pc = "delete"
    /\ retention' = NoRetention
    /\ UNCHANGED <<now, table, cursor, rollups, lease, projector, commands, faults>>

-----------------------------------------------------------------------------
Producers ==
    \E s \in Sources, t \in Time \ {0} :
        now - MaxSkew <= t /\ t <= now + MaxSkew /\ InsertTx(s, t)

Project(p) == Acquire(p) \/ Read(p) \/ Write(p) \/ Exit(p)

Operator ==
    \/ \E w \in Windows : RebuildWindow(w)
    \/ RetainCheck
    \/ Retain
    \/ RetainFails

Next ==
    \/ Producers
    \/ \E p \in Projectors : Project(p) \/ Fail(p)
    \/ LeaseExpires
    \/ Tick
    \/ Operator

Spec == Init /\ [][Next]_vars

\* Some projector is restarted whenever it stops, and leases expire.  A turn's
\* transaction takes far less than the poll interval, so that they are not all
\* overtaken by another commit every time.
Fairness ==
    /\ WF_vars(\E p \in Projectors : Project(p))
    /\ SF_vars(\E p \in Projectors : Write(p))
    /\ WF_vars(LeaseExpires)

FairSpec == Spec /\ Fairness

-----------------------------------------------------------------------------
(***************************************************************************)
(* Properties                                                              *)
(***************************************************************************)
\* The state has its types, the rows have ids of their own, and a batch that
\* can be committed is what a reader would find now (projector.go ProjectOnce).
TypeOK ==
    /\ now \in 1 .. MaxNow
    /\ at \in [Sources -> Time]
    /\ id \in [Sources -> Nat]
    /\ cursor \in Nat
    /\ rollups \in [Levels -> [Sources -> Nat]]
    /\ lease.owner \in Projectors \cup {"nobody", "dead"}
    /\ lease.expired \in BOOLEAN
    /\ \A p \in Projectors :
         /\ projector[p].pc \in {"stopped", "loop", "read", "write", "stale"}
         /\ projector[p].pc = "write" => projector[p].batch = Batch
    /\ retention.pc \in {"idle", "delete"}
    /\ \A s \in Sources, u \in Rows : id[s] = id[u] => s = u
    /\ \A s \in Rows : at[s] # 0

\* As long as an event's row exists and its bucket is not expired, every level
\* counts it alike: once when the projector has passed it and not at all
\* before, however projectors overlap, die and restart.  There are two causes
\* of drift and no third: a rebuild that counts an event ahead of the
\* projector, and an event that got an id at or below the cursor because
\* retention had deleted the newest rows (projector.go ProjectOnce,
\* RebuildWindow).
ExactCounts ==
    \A s \in Rows, l \in Levels :
        ~Expired(l, s, now) =>
            rollups[l][s] = drift[s] + IF id[s] <= cursor THEN 1 ELSE 0

Tally == INSTANCE EventTally WITH
    Finest  <- "minute",
    entered <- {s \in Sources : at[s] # 0},
    count   <- rollups

\* However many projectors overlap, lose their lease, fail or are killed, the
\* tables change as if one reader passed over the events and counted each one
\* it passes, and as if rebuilds and retentions ran alone (projector.go
\* ProjectOnce, RebuildWindow; main.go analyticsProjector, analyticsCommand).
ImplementsTally == Tally!TallySpec

\* A count is taken away only when its bucket has expired or when the event's
\* row is gone: neither a rebuild nor a retention loses what it could still
\* count (projector.go RebuildWindow, main.go analyticsCommand).
CountsOutliveCommands ==
    [][\A s \in Sources, l \in Levels :
         rollups[l][s] > 0 /\ rollups'[l][s] = 0 => Expired(l, s, now) \/ s \notin Rows]_vars

\* Retention deletes no event that the projector has yet to count, although it
\* compares the cursor with the events before its transaction: what it deletes
\* is in every bucket that is kept, unless the projector had been made to pass
\* it over (main.go analyticsCommand).
PurgedEventsAreCounted ==
    [][\A s \in Rows :
         id'[s] = 0 => /\ id[s] <= cursor
                       /\ \A l \in Levels : \/ Expired(l, s, now)
                                            \/ rollups'[l][s] > 0
                                            \/ drift[s] < 0]_vars

\* An event above the cursor is counted, as long as the projectors are
\* restarted (main.go analyticsProjector).
EventsAreProjected ==
    \A s \in Sources : id[s] > cursor ~> rollups["day"][s] > 0

\* What docs/dashboard-metrics-v1.md says of the counts of the funnel, "each
\* stage is a count of distinct durable entity IDs": no event is counted twice.
CountedOnce ==
    \A s \in Sources, l \in Levels : rollups[l][s] <= 1
=============================================================================
