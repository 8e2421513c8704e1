-------------------------- MODULE AnalyticsProofs --------------------------
(***************************************************************************)
(* Proofs about Analytics, for every number of events, projectors and      *)
(* times and every calendar.  The inductive invariant adds to ExactCounts  *)
(* what the transactions rest on: ids are unique and bounded, an event     *)
(* that was never inserted is nowhere counted, a batch that can be         *)
(* committed is the batch of the current table, and a retention under way  *)
(* saw a clock and a cursor that are not ahead of the current ones.  Hence *)
(* every commit is a step of one reader's tally (EventTally).              *)
(***************************************************************************)
EXTENDS Analytics, FiniteSetTheorems, WellFoundedInduction, TLAPS

\* In a module of this size the provers need more than their default time.
USE SMTT(30), ZenonT(30)

\* A bounded set of naturals has a largest element (Newest, LastOf).
LEMMA LargestExists ==
    ASSUME NEW T \in SUBSET Nat, T # {}, NEW n \in Nat, \A m \in T : m <= n
    PROVE  \E m \in T : \A k \in T : k <= m
<1> DEFINE U == {n - m : m \in T}
<1>1. U \in SUBSET Nat
    BY SMT
<1>2. U # {}
    BY Zenon
<1>3. \A W \in SUBSET Nat : W # {} => \E x \in W : \A y \in W : ~(y < x)
    <2>1. \A x, y \in Nat : y < x => <<y, x>> \in OpToRel(<, Nat)
        BY Zenon DEF OpToRel
    <2> SUFFICES ASSUME NEW W \in SUBSET Nat, W # {}
                 PROVE  \E x \in W : \A y \in W : ~(y < x)
        OBVIOUS
    <2>2. \E x \in W : \A y \in W : ~(<<y, x>> \in OpToRel(<, Nat))
        BY NatLessThanWellFounded, WFMin, Zenon
    <2> QED
        BY <2>1, <2>2, Zenon
<1>4. PICK x \in U : \A y \in U : ~(y < x)
    BY <1>1, <1>2, <1>3, Zenon
<1>5. PICK m \in T : x = n - m
    OBVIOUS
<1>6. ASSUME NEW k \in T PROVE k <= m
    <2>1. n - k \in U
        OBVIOUS
    <2>2. ~(n - k < n - m)
        BY <1>4, <1>5, <2>1, Zenon
    <2> QED
        BY <2>2
<1> QED
    BY <1>6

-----------------------------------------------------------------------------
\* The clock and the columns have their types.
Columns ==
    /\ now \in 1 .. MaxNow
    /\ at \in [Sources -> Time]
    /\ id \in [Sources -> Nat]
    /\ cursor \in Nat
    /\ rollups \in [Levels -> [Sources -> Nat]]
    /\ drift \in [Sources -> {-1, 0, 1}]

\* The processes have their types.
Processes ==
    /\ lease \in [owner : Projectors \cup {"nobody", "dead"}, expired : BOOLEAN]
    /\ projector \in [Projectors -> [pc : {"stopped", "loop", "read", "write", "stale"},
                                     batch : SUBSET Sources]]
    /\ retention \in [pc : {"idle", "delete"}, cursor : Nat, now : Nat]

\* The ids are bounded, and those of rows are unique; what was not inserted has
\* no row and no count.
Ids ==
    /\ \E n \in Nat : \A s \in Sources : id[s] <= n
    /\ \A s, u \in Sources : id[u] # 0 /\ id[s] = id[u] => s = u
    /\ \A s \in Sources : at[s] = 0 => id[s] = 0 /\ \A l \in Levels : rollups[l][s] = 0

\* A batch that can be committed is what a reader would find now.
Batches ==
    \A p \in Projectors :
        projector[p].pc = "write" => projector[p].batch = Batch /\ Batch # {}

\* A retention saw a clock and a cursor that were not ahead.
Retentions ==
    retention.pc = "delete" => retention.now <= now /\ retention.cursor <= cursor

IInv == Columns /\ Processes /\ Ids /\ Batches /\ Retentions /\ ExactCounts

\* The largest id in the table bounds all of them (queue.go, analytics_events).
LEMMA NewestBounds ==
    ASSUME id \in [Sources -> Nat], \E n \in Nat : \A s \in Sources : id[s] <= n
    PROVE  Newest \in Nat /\ \A s \in Sources : id[s] <= Newest
<1> DEFINE T == {0} \cup {id[s] : s \in Sources}
<1>1. PICK n \in Nat : \A s \in Sources : id[s] <= n
    OBVIOUS
<1>2. T \in SUBSET Nat /\ T # {} /\ \A m \in T : m <= n
    BY <1>1
<1>3. \E m \in T : \A k \in T : k <= m
    BY <1>2, LargestExists, Zenon
<1>4. \E m \in T : \A s \in Sources : id[s] <= m
    BY <1>3
<1>5. Newest \in T /\ \A s \in Sources : id[s] <= Newest
    BY <1>4, Zenon DEF Newest
<1> QED
    BY <1>2, <1>5

\* The batch holds the lowest ids above the cursor, so the last of it separates
\* what is counted from what is not (projector.go ProjectOnce).
LEMMA BatchIsNext ==
    ASSUME id \in [Sources -> Nat], cursor \in Nat, Batch # {},
           \E n \in Nat : \A s \in Sources : id[s] <= n
    PROVE  /\ LastOf(Batch) \in Nat /\ LastOf(Batch) > cursor
           /\ LastOf(Batch) \in {id[s] : s \in Sources}
           /\ \A s \in Sources : id[s] <= LastOf(Batch) <=> id[s] <= cursor \/ s \in Batch
<1> DEFINE above == {s \in Sources : id[s] > cursor}
           below(s) == {u \in above : id[u] < id[s]}
           T == {id[s] : s \in Batch}
<1>1. \A s : s \in Batch <=> s \in Sources /\ id[s] > cursor /\ Cardinality(below(s)) < MaxBatch
    BY DEF Batch
<1>2. PICK n \in Nat : \A s \in Sources : id[s] <= n
    OBVIOUS
<1> HIDE DEF below
<1>3. T \in SUBSET Nat /\ T # {} /\ \A m \in T : m <= n
    BY <1>1, <1>2
<1>4. \E m \in T : \A k \in T : k <= m
    BY <1>2, <1>3, LargestExists, Zenon
<1>5. \E m \in T : \A s \in Batch : id[s] <= m
    BY <1>4
<1>6. LastOf(Batch) \in T /\ \A s \in Batch : id[s] <= LastOf(Batch)
    BY <1>5, Zenon DEF LastOf
<1>7. PICK last \in Batch : id[last] = LastOf(Batch)
    BY <1>6
<1>8. ASSUME NEW s \in Sources, id[s] > cursor, id[s] <= id[last] PROVE s \in Batch
    <2>1. IsFiniteSet(below(last))
        <3>1. below(last) \in SUBSET Sources
            BY DEF below
        <3> QED
            BY <3>1, FS_Subset, AnalyticsAssumption
    <2>2. below(s) \in SUBSET below(last)
        <3>1. last \in Sources /\ id[last] \in Nat /\ id[s] \in Nat
            BY <1>1
        <3>2. \A u \in above : id[u] < id[s] => id[u] < id[last]
            BY <1>8, <3>1
        <3> QED
            BY <3>2, Zenon DEF below
    <2>3. /\ Cardinality(below(s)) <= Cardinality(below(last))
          /\ Cardinality(below(s)) \in Nat
          /\ Cardinality(below(last)) \in Nat
        BY <2>1, <2>2, FS_Subset, FS_CardinalityType
    <2>4. Cardinality(below(last)) < MaxBatch
        BY <1>1
    <2> QED
        BY <1>1, <1>8, <2>3, <2>4, AnalyticsAssumption
<1>9. LastOf(Batch) \in Nat /\ LastOf(Batch) > cursor /\ LastOf(Batch) \in {id[s] : s \in Sources}
    BY <1>1, <1>7
<1> QED
    BY <1>1, <1>6, <1>7, <1>8, <1>9

\* A window of days takes at every level the buckets of exactly the events it
\* counts again (main.go analyticsCommand, projector.go RebuildWindow).
LEMMA WindowsAlign ==
    ASSUME NEW w \in Windows, NEW l \in Levels, NEW s \in Sources, at[s] \in Time
    PROVE  Replaced(l, s, w) <=> w[1] <= at[s] /\ at[s] < w[2]
<1>1. w[1] \in Time /\ w[2] \in Time /\ Truncate["day"][w[1]] = w[1] /\ Truncate["day"][w[2]] = w[2]
    BY DEF Windows
<1>2. Truncate[l][w[1]] = w[1] /\ Truncate[l][w[2]] = w[2]
    BY <1>1, AnalyticsAssumption
<1>3. /\ Truncate[l][at[s]] <= at[s]
      /\ w[1] <= at[s] => Truncate[l][w[1]] <= Truncate[l][at[s]]
      /\ w[2] <= at[s] => Truncate[l][w[2]] <= Truncate[l][at[s]]
    BY <1>1, AnalyticsAssumption
<1>4. Truncate[l][at[s]] \in Time
    BY AnalyticsAssumption
<1> QED
    BY <1>1, <1>2, <1>3, <1>4 DEF Replaced, Time

\* What has expired stays expired (main.go analyticsCommand).
LEMMA ExpiredStays ==
    ASSUME NEW l \in Levels, NEW s \in Sources, at[s] \in Time,
           NEW t \in Nat, NEW u \in Nat, t <= u, Expired(l, s, t)
    PROVE  Expired(l, s, u)
<1>1. Truncate[l][at[s]] \in Nat /\ Keep[l] \in Nat
    BY AnalyticsAssumption DEF Time
<1> QED
    BY <1>1 DEF Expired

\* After a commit no transaction that had read can be committed.
LEMMA StaleTypes ==
    ASSUME NEW ps \in [Projectors -> [pc : {"stopped", "loop", "read", "write", "stale"},
                                      batch : SUBSET Sources]]
    PROVE  /\ Stale(ps) \in [Projectors -> [pc : {"stopped", "loop", "read", "write", "stale"},
                                             batch : SUBSET Sources]]
           /\ \A p \in Projectors : Stale(ps)[p].pc # "write"
BY DEF Stale, At

\* One more in the buckets of some events, at every level.
LEMMA CountInTypes ==
    ASSUME NEW f \in [Levels -> [Sources -> Nat]], NEW E
    PROVE  /\ CountIn(f, E) \in [Levels -> [Sources -> Nat]]
           /\ \A l \in Levels, s \in Sources :
                CountIn(f, E)[l][s] = IF s \in E THEN f[l][s] + 1 ELSE f[l][s]
BY DEF CountIn

-----------------------------------------------------------------------------
\* The clock is within its bound.
LEMMA ClockTypes ==
    ASSUME Columns
    PROVE  MaxNow \in Nat /\ now \in Nat /\ 1 <= now /\ now <= MaxNow /\ now \in now .. MaxNow
<1>1. MaxNow \in Nat
    BY AnalyticsAssumption
<1> QED
    BY <1>1 DEF Columns

\* The values of one event.
LEMMA EventTypes ==
    ASSUME Columns, NEW s \in Sources
    PROVE  /\ at[s] \in Time /\ id[s] \in Nat /\ cursor \in Nat /\ drift[s] \in Int
           /\ \A l \in Levels : rollups[l][s] \in Nat
BY DEF Columns

\* The same counts, before and after a step that adds to them.
LEMMA CountArithmetic ==
    ASSUME NEW d \in Int, NEW old, NEW new, NEW before \in BOOLEAN, NEW added \in BOOLEAN,
           old = d + IF before THEN 1 ELSE 0,
           new = IF added THEN old + 1 ELSE old,
           ~(before /\ added)
    PROVE  new = d + IF before \/ added THEN 1 ELSE 0
OBVIOUS

\* Initially nothing is inserted and nothing counted.
LEMMA InitIInv == Init => IInv
<1> SUFFICES ASSUME Init PROVE IInv
    OBVIOUS
<1> USE DEF Init
<1>1. Columns
    BY AnalyticsAssumption DEF Columns, Time
<1>2. Processes
    BY DEF Processes, NoLease, NoRetention, At
<1>3. Ids
    <2>1. \A s \in Sources : id[s] <= 0
        OBVIOUS
    <2> QED
        BY <2>1 DEF Ids
<1>4. Batches
    BY DEF Batches, At
<1>5. Retentions
    BY DEF Retentions, NoRetention
<1>6. ExactCounts
    BY DEF ExactCounts, Rows
<1> QED
    BY <1>1, <1>2, <1>3, <1>4, <1>5, <1>6 DEF IInv

\* A step that leaves the table, the cursor and the counts alone keeps what is
\* said of them, also when the clock moves on.
LEMMA TableStays ==
    ASSUME IInv, UNCHANGED <<table, cursor, rollups>>, now' \in now .. MaxNow
    PROVE  Columns' /\ Ids' /\ ExactCounts' /\ Batch' = Batch
<1> USE DEF IInv, table
<1>1. Columns'
    <2>1. now' \in 1 .. MaxNow
        BY ClockTypes
    <2> QED
        BY <2>1 DEF Columns
<1>2. Ids'
    BY DEF Ids
<1>3. Batch' = Batch
    BY DEF Batch
<1>4. ASSUME NEW s \in Rows', NEW l \in Levels, ~Expired(l, s, now)'
      PROVE  rollups'[l][s] = drift'[s] + IF id'[s] <= cursor' THEN 1 ELSE 0
    <2>1. s \in Rows /\ s \in Sources /\ at[s] \in Time
        BY DEF Rows, Columns
    <2>2. ~Expired(l, s, now')
        BY <1>4 DEF Expired
    <2>3. now \in Nat /\ now' \in Nat /\ now <= now'
        BY ClockTypes
    <2>4. ~Expired(l, s, now)
        BY <2>1, <2>2, <2>3, ExpiredStays
    <2>5. rollups[l][s] = drift[s] + IF id[s] <= cursor THEN 1 ELSE 0
        BY <2>1, <2>4 DEF ExactCounts
    <2> QED
        BY <2>5
<1>5. ExactCounts'
    BY <1>4 DEF ExactCounts
<1> QED
    BY <1>1, <1>2, <1>3, <1>5

\* Each step of the producers, of the projectors and of the clock keeps the
\* invariant.
LEMMA ProjectionIInv ==
    ASSUME IInv, \/ Producers
                 \/ \E p \in Projectors : Project(p) \/ Fail(p)
                 \/ LeaseExpires
                 \/ Tick
    PROVE  IInv'
<1> USE DEF IInv
<1>0. MaxNow \in Nat /\ now \in Nat /\ 1 <= now /\ now <= MaxNow /\ now \in now .. MaxNow
    BY ClockTypes
<1>1. ASSUME NEW s \in Sources, NEW t \in Time \ {0}, InsertTx(s, t) PROVE IInv'
    <2> USE <1>1 DEF InsertTx
    <2>1. Newest \in Nat /\ \A u \in Sources : id[u] <= Newest
        BY NewestBounds DEF Columns, Ids
    <2>2. /\ at' \in [Sources -> Time]
          /\ at'[s] = t
          /\ \A u \in Sources \ {s} : at'[u] = at[u]
        BY DEF Columns
    <2>3. /\ id' \in [Sources -> Nat]
          /\ id'[s] = Newest + 1
          /\ \A u \in Sources \ {s} : id'[u] = id[u]
        BY <2>1 DEF Columns
    <2>4. /\ drift' \in [Sources -> {-1, 0, 1}]
          /\ drift'[s] = IF Newest < cursor THEN -1 ELSE 0
          /\ \A u \in Sources \ {s} : drift'[u] = drift[u]
        BY DEF Columns
    <2>5. Columns'
        BY <2>2, <2>3, <2>4 DEF Columns
    <2>6. Processes'
        BY StaleTypes DEF Processes
    <2>7. Ids'
        <3>1. \A u \in Sources : id'[u] <= Newest + 1
            BY <2>1, <2>3 DEF Columns
        <3>2. ASSUME NEW v \in Sources, NEW u \in Sources, id'[u] # 0, id'[v] = id'[u] PROVE v = u
            BY <2>1, <2>3, <3>2 DEF Columns, Ids
        <3>3. ASSUME NEW u \in Sources, at'[u] = 0
              PROVE  id'[u] = 0 /\ \A l \in Levels : rollups'[l][u] = 0
            BY <2>2, <2>3, <3>3 DEF Ids
        <3>4. \E n \in Nat : \A u \in Sources : id'[u] <= n
            BY <2>1, <3>1
        <3> QED
            BY <3>2, <3>3, <3>4 DEF Ids
    <2>8. Batches'
        BY StaleTypes DEF Processes, Batches
    <2>9. Retentions'
        BY DEF Retentions
    <2>10. ASSUME NEW u \in Rows', NEW l \in Levels, ~Expired(l, u, now)'
           PROVE  rollups'[l][u] = drift'[u] + IF id'[u] <= cursor' THEN 1 ELSE 0
        <3>1. u \in Sources
            BY DEF Rows
        <3>2. CASE u = s
            <4>1. rollups[l][s] = 0
                BY DEF Ids
            <4>2. (id'[s] <= cursor) <=> (Newest < cursor)
                BY <2>1, <2>3 DEF Columns
            <4> QED
                BY <2>4, <3>2, <4>1, <4>2
        <3>3. CASE u # s
            <4>1. u \in Rows /\ id'[u] = id[u] /\ drift'[u] = drift[u] /\ at'[u] = at[u]
                BY <2>2, <2>3, <2>4, <3>1, <3>3 DEF Rows
            <4>2. ~Expired(l, u, now)
                BY <2>10, <4>1 DEF Expired
            <4> QED
                BY <4>1, <4>2 DEF ExactCounts
        <3> QED
            BY <3>2, <3>3
    <2>11. ExactCounts'
        BY <2>10 DEF ExactCounts
    <2> QED
        BY <2>5, <2>6, <2>7, <2>8, <2>9, <2>11
<1>2. ASSUME NEW p \in Projectors, Acquire(p) \/ Exit(p) \/ Fail(p) PROVE IInv'
    <2>1. Columns' /\ Ids' /\ ExactCounts'
        BY <1>0, <1>2, TableStays DEF Acquire, Exit, Fail
    <2>2. PICK pc \in {"stopped", "read"} : projector' = Stale([projector EXCEPT ![p] = At(pc)])
        BY <1>2 DEF Acquire, Exit, Fail
    <2>3. [projector EXCEPT ![p] = At(pc)]
             \in [Projectors -> [pc : {"stopped", "loop", "read", "write", "stale"},
                                batch : SUBSET Sources]]
        BY DEF Processes, At
    <2>4. lease' \in [owner : Projectors \cup {"nobody", "dead"}, expired : BOOLEAN]
        <3>1. lease \in [owner : Projectors \cup {"nobody", "dead"}, expired : BOOLEAN]
            BY DEF Processes
        <3>2. lease' \in {lease, NoLease, [owner |-> p, expired |-> FALSE],
                         [owner |-> "dead", expired |-> lease.expired]}
            BY <1>2, Zenon DEF Acquire, Exit, Fail
        <3>3. lease.expired \in BOOLEAN
            BY <3>1, Zenon
        <3>4. \A o \in Projectors \cup {"nobody", "dead"}, e \in BOOLEAN :
                [owner |-> o, expired |-> e]
                  \in [owner : Projectors \cup {"nobody", "dead"}, expired : BOOLEAN]
            BY SMT
        <3>5. [owner |-> p, expired |-> FALSE]
                \in [owner : Projectors \cup {"nobody", "dead"}, expired : BOOLEAN]
            BY <3>4
        <3>6. NoLease \in [owner : Projectors \cup {"nobody", "dead"}, expired : BOOLEAN]
            BY <3>4 DEF NoLease
        <3>7. [owner |-> "dead", expired |-> lease.expired]
                \in [owner : Projectors \cup {"nobody", "dead"}, expired : BOOLEAN]
            BY <3>3, <3>4, Zenon
        <3> QED
            BY <3>1, <3>2, <3>5, <3>6, <3>7, Zenon
    <2>5. Processes'
        BY <1>2, <2>2, <2>3, <2>4, StaleTypes, Zenon DEF Processes, Acquire, Exit, Fail
    <2>6. Batches'
        BY <2>2, <2>3, StaleTypes, Zenon DEF Batches
    <2>7. Retentions'
        BY <1>2 DEF Retentions, Acquire, Exit, Fail
    <2> QED
        BY <2>1, <2>5, <2>6, <2>7
<1>3. ASSUME NEW p \in Projectors, Read(p) PROVE IInv'
    <2>1. Columns' /\ Ids' /\ ExactCounts' /\ Batch' = Batch
        BY <1>0, <1>3, TableStays DEF Read
    <2>2. Batch \in SUBSET Sources
        BY DEF Batch
    <2>3. /\ projector' \in [Projectors -> [pc : {"stopped", "loop", "read", "write", "stale"},
                                            batch : SUBSET Sources]]
          /\ projector'[p].pc = "write" => projector'[p].batch = Batch /\ Batch # {}
          /\ \A q \in Projectors \ {p} : projector'[q] = projector[q]
        BY <1>3, <2>2 DEF Read, Processes, At
    <2>4. Processes'
        BY <1>3, <2>3 DEF Processes, Read
    <2>5. Batches'
        BY <2>1, <2>3 DEF Batches
    <2>6. Retentions'
        BY <1>3 DEF Retentions, Read
    <2> QED
        BY <2>1, <2>4, <2>5, <2>6
<1>4. ASSUME NEW p \in Projectors, Write(p) PROVE IInv'
    <2>0. /\ UNCHANGED <<now, at, id, drift, lease, retention>>
          /\ projector[p].pc = "write"
          /\ rollups' = CountIn(rollups, projector[p].batch)
          /\ cursor' = LastOf(projector[p].batch)
          /\ projector' = Stale([projector EXCEPT ![p] = At("loop")])
        BY <1>4 DEF Write, table
    <2>1. projector[p].batch = Batch /\ Batch # {}
        BY <2>0 DEF Batches
    <2>2. /\ cursor' \in Nat
          /\ \A s \in Sources : id[s] <= cursor' <=> id[s] <= cursor \/ s \in Batch
        BY <2>0, <2>1, BatchIsNext DEF Columns, Ids
    <2>3. /\ rollups' \in [Levels -> [Sources -> Nat]]
          /\ \A l \in Levels, s \in Sources :
               rollups'[l][s] = IF s \in Batch THEN rollups[l][s] + 1 ELSE rollups[l][s]
        <3>1. rollups' = CountIn(rollups, Batch) /\ rollups \in [Levels -> [Sources -> Nat]]
            BY <2>0, <2>1 DEF Columns
        <3> QED
            BY <3>1, CountInTypes
    <2>4. \A s \in Batch : s \in Sources /\ id[s] > cursor
        BY DEF Batch
    <2>5. Columns'
        BY <2>0, <2>2, <2>3 DEF Columns
    <2>6. [projector EXCEPT ![p] = At("loop")]
             \in [Projectors -> [pc : {"stopped", "loop", "read", "write", "stale"},
                                batch : SUBSET Sources]]
        BY DEF Processes, At
    <2>7. Processes' /\ Batches'
        BY <2>0, <2>6, StaleTypes, Zenon DEF Processes, Batches
    <2>8. Ids'
        <3>1. \A s \in Sources : at[s] = 0 => s \notin Batch
            BY <2>4 DEF Ids, Columns
        <3>2. \A s \in Sources, l \in Levels : at[s] = 0 => rollups'[l][s] = 0
            BY <2>3, <3>1 DEF Ids
        <3> QED
            BY <2>0, <3>2 DEF Ids
    <2>9. Retentions'
        <3>1. PICK s \in Sources : s \in Batch /\ id[s] > cursor /\ id[s] <= cursor'
            BY <2>1, <2>2, <2>4
        <3>2. cursor \in Nat /\ id[s] \in Nat
            BY EventTypes
        <3>3. cursor < cursor'
            BY <2>2, <3>1, <3>2
        <3> QED
            BY <2>0, <2>2, <3>2, <3>3 DEF Retentions, Processes
    <2>10. ASSUME NEW s \in Rows', NEW l \in Levels, ~Expired(l, s, now)'
           PROVE  rollups'[l][s] = drift'[s] + IF id'[s] <= cursor' THEN 1 ELSE 0
        <3>1. s \in Rows /\ s \in Sources /\ ~Expired(l, s, now)
            BY <2>0, <2>10 DEF Rows, Expired
        <3>2. rollups[l][s] = drift[s] + IF id[s] <= cursor THEN 1 ELSE 0
            BY <3>1 DEF ExactCounts
        <3>3. drift[s] \in Int /\ id[s] \in Nat /\ cursor \in Nat
            BY <3>1, EventTypes
        <3>4. ~(id[s] <= cursor /\ s \in Batch)
            BY <2>4, <3>3
        <3>5. rollups'[l][s] = drift[s] + IF id[s] <= cursor \/ s \in Batch THEN 1 ELSE 0
            BY <2>3, <3>1, <3>2, <3>3, <3>4, CountArithmetic
        <3> QED
            BY <2>0, <2>2, <3>1, <3>5
    <2>11. ExactCounts'
        BY <2>10 DEF ExactCounts
    <2> QED
        BY <2>5, <2>7, <2>8, <2>9, <2>11
<1>5. CASE LeaseExpires
    <2>1. Columns' /\ Ids' /\ ExactCounts' /\ Batch' = Batch
        BY <1>0, <1>5, TableStays DEF LeaseExpires
    <2> QED
        BY <1>5, <2>1 DEF LeaseExpires, Processes, Batches, Retentions
<1>6. CASE Tick
    <2>1. now' \in now .. MaxNow /\ now' = now + 1
        BY <1>0, <1>6 DEF Tick
    <2>2. Columns' /\ Ids' /\ ExactCounts' /\ Batch' = Batch
        BY <1>6, <2>1, TableStays DEF Tick
    <2>3. Processes' /\ Batches'
        BY <1>6, <2>2 DEF Tick, Processes, Batches
    <2>4. Retentions'
        BY <1>0, <1>6 DEF Tick, Processes, Retentions
    <2> QED
        BY <2>2, <2>3, <2>4
<1> QED
    BY <1>1, <1>2, <1>3, <1>4, <1>5, <1>6 DEF Producers, Project

\* Each step of the operator keeps the invariant.
LEMMA OperatorIInv ==
    ASSUME IInv, Operator
    PROVE  IInv'
<1> USE DEF IInv
<1>0. MaxNow \in Nat /\ now \in Nat /\ 1 <= now /\ now <= MaxNow /\ now \in now .. MaxNow
    BY ClockTypes
<1>1. ASSUME NEW w \in Windows, RebuildWindow(w) PROVE IInv'
    <2>0. UNCHANGED <<now, at, id, cursor, lease, retention>> /\ projector' = Stale(projector)
        BY <1>1 DEF RebuildWindow
    <2>1. PICK base : base = [l \in Levels |-> [s \in Sources |->
                                IF Replaced(l, s, w) THEN 0 ELSE rollups[l][s]]]
        BY Zenon
    <2>2. /\ base \in [Levels -> [Sources -> Nat]]
          /\ \A l \in Levels, s \in Sources :
               base[l][s] = IF Replaced(l, s, w) THEN 0 ELSE rollups[l][s]
        BY <2>1 DEF Columns
    <2>3. /\ rollups' \in [Levels -> [Sources -> Nat]]
          /\ \A l \in Levels, s \in Sources :
               rollups'[l][s] = IF s \in Recounted(w) THEN base[l][s] + 1 ELSE base[l][s]
        <3>1. rollups' = CountIn(base, Recounted(w))
            BY <1>1, <2>1 DEF RebuildWindow
        <3>2. /\ CountIn(base, Recounted(w)) \in [Levels -> [Sources -> Nat]]
              /\ \A l \in Levels, s \in Sources :
                   CountIn(base, Recounted(w))[l][s]
                     = IF s \in Recounted(w) THEN base[l][s] + 1 ELSE base[l][s]
            BY <2>2 DEF CountIn
        <3> QED
            BY <3>1, <3>2, ZenonT(30)
    <2>4. \A s \in Rows : s \in Recounted(w) <=> w[1] <= at[s] /\ at[s] < w[2]
        BY DEF Recounted
    <2>5. /\ drift' \in [Sources -> {-1, 0, 1}]
          /\ \A s \in Sources : drift'[s] = IF s \notin Recounted(w) THEN drift[s]
                                              ELSE IF id[s] > cursor THEN 1 ELSE 0
        BY <1>1 DEF RebuildWindow, Columns
    <2>6. Columns'
        BY <2>0, <2>3, <2>5 DEF Columns
    <2>7. Processes' /\ Batches'
        BY <2>0, StaleTypes DEF Processes, Batches
    <2>8. Ids'
        <3>1. \A s \in Sources : at[s] = 0 => s \notin Recounted(w)
            BY DEF Ids, Recounted, Rows
        <3>2. \A s \in Sources, l \in Levels : at[s] = 0 => base[l][s] = 0
            BY <2>2 DEF Ids
        <3>3. \A s \in Sources, l \in Levels : at[s] = 0 => rollups'[l][s] = 0
            BY <2>3, <3>1, <3>2
        <3> QED
            BY <2>0, <3>3 DEF Ids
    <2>9. Retentions'
        BY <2>0 DEF Retentions
    <2>10. ASSUME NEW s \in Rows', NEW l \in Levels, ~Expired(l, s, now)'
           PROVE  rollups'[l][s] = drift'[s] + IF id'[s] <= cursor' THEN 1 ELSE 0
        <3>1. s \in Rows /\ s \in Sources /\ ~Expired(l, s, now)
            BY <2>0, <2>10 DEF Rows, Expired
        <3>2. drift[s] \in Int /\ id[s] \in Nat /\ cursor \in Nat /\ at[s] \in Time
            BY <3>1, EventTypes
        <3>3. Replaced(l, s, w) <=> s \in Recounted(w)
            BY <2>4, <3>1, <3>2, WindowsAlign
        <3>4. CASE s \in Recounted(w)
            <4>1. base[l][s] = 0
                BY <2>2, <3>1, <3>3, <3>4
            <4>2. rollups'[l][s] = 1
                BY <2>3, <3>1, <3>4, <4>1
            <4>3. drift'[s] = IF id[s] > cursor THEN 1 ELSE 0
                BY <2>5, <3>1, <3>4
            <4> QED
                BY <2>0, <3>2, <4>2, <4>3
        <3>5. CASE s \notin Recounted(w)
            <4>1. base[l][s] = rollups[l][s]
                BY <2>2, <3>1, <3>3, <3>5
            <4>2. rollups'[l][s] = rollups[l][s]
                BY <2>3, <3>1, <3>5, <4>1
            <4>3. drift'[s] = drift[s]
                BY <2>5, <3>1, <3>5
            <4>4. rollups[l][s] = drift[s] + IF id[s] <= cursor THEN 1 ELSE 0
                BY <3>1 DEF ExactCounts
            <4> QED
                BY <2>0, <4>2, <4>3, <4>4
        <3> QED
            BY <3>4, <3>5
    <2>11. ExactCounts'
        BY <2>10 DEF ExactCounts
    <2> QED
        BY <2>6, <2>7, <2>8, <2>9, <2>11
<1>2. CASE RetainCheck
    <2>1. Columns' /\ Ids' /\ ExactCounts' /\ Batch' = Batch
        BY <1>0, <1>2, TableStays DEF RetainCheck
    <2> QED
        <3>1. Processes'
            <4>1. cursor \in Nat
                BY DEF Columns
            <4> QED
                BY <1>0, <1>2, <4>1 DEF RetainCheck, Processes
        <3>2. Batches'
            BY <1>2, <2>1 DEF RetainCheck, Batches
        <3>3. Retentions'
            <4>1. cursor \in Nat
                BY DEF Columns
            <4> QED
                BY <1>0, <1>2, <4>1 DEF RetainCheck, Retentions
        <3> QED
            BY <2>1, <3>1, <3>2, <3>3
<1>3. CASE RetainFails
    <2>1. Columns' /\ Ids' /\ ExactCounts' /\ Batch' = Batch
        BY <1>0, <1>3, TableStays DEF RetainFails
    <2> QED
        BY <1>3, <2>1 DEF RetainFails, Processes, Batches, Retentions, NoRetention
<1>4. CASE Retain
    <2> USE <1>4 DEF Retain
    <2>1. /\ rollups' \in [Levels -> [Sources -> Nat]]
          /\ \A l \in Levels, s \in Sources :
               rollups'[l][s] = IF Expired(l, s, retention.now) THEN 0 ELSE rollups[l][s]
        BY DEF Columns
    <2>2. /\ id' \in [Sources -> Nat]
          /\ \A s \in Sources : id'[s] = IF s \in Purged THEN 0 ELSE id[s]
        BY DEF Columns
    <2>3. Columns'
        BY <2>1, <2>2 DEF Columns
    <2>4. Processes' /\ Batches' /\ Retentions'
        BY StaleTypes DEF Processes, Batches, Retentions, NoRetention
    <2>5. Ids'
        <3>1. PICK n \in Nat : \A s \in Sources : id[s] <= n
            BY DEF Ids
        <3>2. ASSUME NEW s \in Sources PROVE id'[s] <= n
            <4>1. id'[s] = 0 \/ id'[s] = id[s]
                BY <2>2
            <4> QED
                BY <3>1, <4>1
        <3>3. \A s, u \in Sources : id'[u] # 0 /\ id'[s] = id'[u] => s = u
            BY <2>2 DEF Ids
        <3>4. \A s \in Sources : at[s] = 0 => id'[s] = 0 /\ \A l \in Levels : rollups'[l][s] = 0
            BY <2>1, <2>2 DEF Ids
        <3> QED
            BY <3>2, <3>3, <3>4, Zenon DEF Ids
    <2>6. ASSUME NEW s \in Rows', NEW l \in Levels, ~Expired(l, s, now)'
          PROVE  rollups'[l][s] = drift'[s] + IF id'[s] <= cursor' THEN 1 ELSE 0
        <3>1. s \in Rows /\ s \in Sources /\ ~Expired(l, s, now) /\ at[s] \in Time /\ id'[s] = id[s]
            BY <2>2, <2>6 DEF Rows, Expired, Columns
        <3>2. retention.now \in Nat /\ retention.now <= now
            BY DEF Processes, Retentions
        <3>3. ~Expired(l, s, retention.now)
            BY <1>0, <3>1, <3>2, ExpiredStays, Zenon
        <3> QED
            BY <2>1, <3>1, <3>3 DEF ExactCounts
    <2>7. ExactCounts'
        BY <2>6 DEF ExactCounts
    <2> QED
        BY <2>3, <2>4, <2>5, <2>7
<1> QED
    BY <1>1, <1>2, <1>3, <1>4 DEF Operator

-----------------------------------------------------------------------------
\* Every step keeps the invariant.
LEMMA NextIInv == IInv /\ [Next]_vars => IInv'
<1> SUFFICES ASSUME IInv, [Next]_vars PROVE IInv'
    OBVIOUS
<1>1. CASE UNCHANGED vars
    <2>1. now \in now .. MaxNow
        BY ClockTypes DEF IInv
    <2>2. Columns' /\ Ids' /\ ExactCounts' /\ Batch' = Batch
        BY <1>1, <2>1, TableStays DEF vars, table
    <2> QED
        BY <1>1, <2>2 DEF vars, IInv, Processes, Batches, Retentions
<1>2. CASE Operator
    BY <1>2, OperatorIInv
<1>3. CASE \/ Producers
           \/ \E p \in Projectors : Project(p) \/ Fail(p)
           \/ LeaseExpires
           \/ Tick
    BY <1>3, ProjectionIInv
<1> QED
    BY <1>1, <1>2, <1>3 DEF Next

LEMMA Invariance == Spec => []IInv
BY InitIInv, NextIInv, PTL DEF Spec

\* The tables and the projectors have their types, ids are unique, and a batch
\* about to be written is the one the cursor asks for (projector.go
\* ProjectOnce).
THEOREM AnalyticsTypeCorrect == Spec => []TypeOK
<1>1. IInv => TypeOK
    <2> SUFFICES ASSUME IInv PROVE TypeOK
        OBVIOUS
    <2> USE DEF IInv
    <2>1. \A p \in Projectors :
            /\ projector[p].pc \in {"stopped", "loop", "read", "write", "stale"}
            /\ projector[p].pc = "write" => projector[p].batch = Batch
        BY DEF Processes, Batches
    <2>2. \A s \in Sources, u \in Rows : id[s] = id[u] => s = u
        BY DEF Ids, Rows
    <2>3. \A s \in Rows : at[s] # 0
        BY DEF Ids, Rows
    <2> QED
        BY <2>1, <2>2, <2>3 DEF TypeOK, Columns, Processes
<1> QED
    BY <1>1, Invariance, PTL

\* The counts of the projection are exact up to the two causes of drift, for
\* any number of events, projectors and times (projector.go ProjectOnce,
\* RebuildWindow; main.go analyticsCommand).
THEOREM ProjectionIsExact == Spec => []ExactCounts
<1>1. IInv => ExactCounts
    BY DEF IInv
<1> QED
    BY <1>1, Invariance, PTL

\* Commands take a count away only from an expired bucket or of an event whose
\* row is gone (projector.go RebuildWindow, main.go analyticsCommand).
THEOREM CountsOutlive == Spec => CountsOutliveCommands
<1>1. ASSUME IInv, [Next]_vars, NEW s \in Sources, NEW l \in Levels,
             rollups[l][s] > 0, rollups'[l][s] = 0
      PROVE  Expired(l, s, now) \/ s \notin Rows
    <2> SUFFICES ASSUME s \in Rows PROVE Expired(l, s, now)
        OBVIOUS
    <2> USE DEF IInv
    <2>1. rollups[l][s] \in Nat /\ at[s] \in Time /\ now \in Nat
        BY <1>1, ClockTypes, EventTypes
    <2>2. CASE rollups' = rollups
        BY <1>1, <2>1, <2>2
    <2>3. ASSUME NEW p \in Projectors, Write(p) PROVE FALSE
        <3>1. rollups'[l][s] \in {rollups[l][s], rollups[l][s] + 1}
            <4>1. PICK E : E = projector[p].batch
                OBVIOUS
            <4>2. rollups' = CountIn(rollups, E) /\ rollups \in [Levels -> [Sources -> Nat]]
                BY <1>1, <2>3, <4>1 DEF Write, Columns
            <4>3. rollups'[l][s] = IF s \in E THEN rollups[l][s] + 1 ELSE rollups[l][s]
                BY <4>2, CountInTypes
            <4> QED
                BY <4>3, Zenon
        <3> QED
            BY <1>1, <2>1, <3>1
    <2>4. ASSUME NEW w \in Windows, RebuildWindow(w) PROVE FALSE
        <3>1. PICK base : base = [k \in Levels |-> [u \in Sources |->
                                    IF Replaced(k, u, w) THEN 0 ELSE rollups[k][u]]]
            BY Zenon
        <3>2. /\ base \in [Levels -> [Sources -> Nat]]
              /\ base[l][s] = IF Replaced(l, s, w) THEN 0 ELSE rollups[l][s]
            BY <1>1, <3>1 DEF Columns
        <3>3. rollups' = CountIn(base, Recounted(w))
            BY <2>4, <3>1, Zenon DEF RebuildWindow
        <3>4. rollups'[l][s] = IF s \in Recounted(w) THEN base[l][s] + 1 ELSE base[l][s]
            <4>1. PICK E : E = Recounted(w)
                OBVIOUS
            <4>2. rollups' = CountIn(base, E) /\ base \in [Levels -> [Sources -> Nat]]
                BY <3>2, <3>3, <4>1, Zenon
            <4>3. rollups'[l][s] = IF s \in E THEN base[l][s] + 1 ELSE base[l][s]
                BY <4>2, CountInTypes
            <4> QED
                BY <4>1, <4>3, Zenon
        <3>5. Replaced(l, s, w) <=> s \in Recounted(w)
            BY <2>1, WindowsAlign DEF Recounted
        <3>6. rollups'[l][s] = rollups[l][s] \/ rollups'[l][s] = 0 + 1
            BY <3>2, <3>4, <3>5, Zenon
        <3> QED
            BY <1>1, <2>1, <3>6
    <2>5. CASE Retain
        <3>1. Expired(l, s, retention.now)
            BY <1>1, <2>5 DEF Retain, Columns
        <3>2. retention.now \in Nat /\ retention.now <= now
            BY <1>1, <2>5 DEF Retain, Processes, Retentions
        <3> QED
            BY <2>1, <3>1, <3>2, ExpiredStays
    <2> QED
        BY <1>1, <2>2, <2>3, <2>4, <2>5, Zenon
        DEF Next, vars, Producers, InsertTx, Project, Acquire, Read, Exit, Fail, LeaseExpires, Tick,
            Operator, RetainCheck, RetainFails
<1>2. IInv /\ [Next]_vars =>
        [\A s \in Sources, l \in Levels :
           rollups[l][s] > 0 /\ rollups'[l][s] = 0 => Expired(l, s, now) \/ s \notin Rows]_vars
    BY <1>1, Zenon
<1> QED
    BY <1>2, InitIInv, NextIInv, PTL DEF Spec, CountsOutliveCommands

\* Retention deletes only events that are counted, for any number of events,
\* projectors and times (main.go analyticsCommand).
THEOREM PurgedAreCounted == Spec => PurgedEventsAreCounted
<1>1. ASSUME IInv, [Next]_vars, NEW s \in Rows, id'[s] = 0
      PROVE  /\ id[s] <= cursor
             /\ \A l \in Levels : Expired(l, s, now) \/ rollups'[l][s] > 0 \/ drift[s] < 0
    <2> USE <1>1 DEF IInv
    <2>1. s \in Sources /\ id[s] # 0 /\ id[s] \in Nat /\ at[s] \in Time /\ now \in Nat
        <3>1. s \in Sources /\ id[s] # 0
            BY DEF Rows
        <3> QED
            BY <3>1, ClockTypes, EventTypes
    <2>2. CASE id' = id
        BY <2>1, <2>2
    <2>3. ASSUME NEW u \in Sources, NEW t, InsertTx(u, t) PROVE FALSE
        <3>1. Newest \in Nat
            BY NewestBounds DEF Columns, Ids
        <3> QED
            BY <2>1, <2>3, <3>1 DEF InsertTx, Columns
    <2>4. CASE Retain
        <3>1. s \in Purged
            BY <2>1, <2>4 DEF Retain
        <3>2. /\ retention.now \in Nat /\ retention.now <= now
              /\ retention.cursor \in Nat /\ retention.cursor <= cursor
            BY <2>4 DEF Retain, Processes, Retentions
        <3>3. id[s] <= cursor
            BY <2>1, <3>1, <3>2 DEF Purged, Columns
        <3>4. ASSUME NEW l \in Levels, ~Expired(l, s, now), ~(drift[s] < 0) PROVE rollups'[l][s] > 0
            <4>1. ~Expired(l, s, retention.now)
                BY <2>1, <3>2, <3>4, ExpiredStays
            <4>2. rollups'[l][s] = rollups[l][s]
                BY <2>1, <2>4, <4>1 DEF Retain
            <4>3. rollups[l][s] = drift[s] + 1
                BY <3>3, <3>4 DEF ExactCounts
            <4>4. drift[s] \in Int
                BY <2>1 DEF Columns
            <4> QED
                BY <3>4, <4>2, <4>3, <4>4
        <3> QED
            BY <3>3, <3>4
    <2> QED
        BY <2>2, <2>3, <2>4, Zenon
        DEF Next, vars, table, Producers, Project, Acquire, Read, Write, Exit, Fail, LeaseExpires,
            Tick, Operator, RebuildWindow, RetainCheck, RetainFails
<1>2. IInv /\ [Next]_vars =>
        [\A s \in Rows :
           id'[s] = 0 => /\ id[s] <= cursor
                         /\ \A l \in Levels : \/ Expired(l, s, now)
                                              \/ rollups'[l][s] > 0
                                              \/ drift[s] < 0]_vars
    BY <1>1, Zenon
<1> QED
    BY <1>2, InitIInv, NextIInv, PTL DEF Spec, PurgedEventsAreCounted

-----------------------------------------------------------------------------
\* An insert is the entry of one event into the tally (projector.go InsertTx).
LEMMA InsertEnters ==
    ASSUME IInv, NEW s \in Sources, NEW t \in Time \ {0}, InsertTx(s, t)
    PROVE  Tally!Enter(s)
<1> USE DEF IInv, InsertTx
<1>1. Newest \in Nat /\ \A u \in Sources : id[u] <= Newest
    BY NewestBounds DEF Columns, Ids
<1>2. id'[s] = Newest + 1 /\ id' = [id EXCEPT ![s] = id'[s]]
    BY DEF Columns
<1>3. \A u \in Sources : id[u] < id'[s]
    BY <1>1, <1>2 DEF Columns
<1>4. s \notin {u \in Sources : at[u] # 0}
    OBVIOUS
<1>5. {u \in Sources : at'[u] # 0} = {u \in Sources : at[u] # 0} \cup {s}
    <2>1. at'[s] # 0 /\ \A u \in Sources \ {s} : at'[u] = at[u]
        BY DEF Columns, Time
    <2> QED
        BY <2>1
<1>6. UNCHANGED <<cursor, rollups>>
    OBVIOUS
<1> QED
    BY <1>2, <1>3, <1>4, <1>5, <1>6, Zenon DEF Tally!Enter

\* The writes of a turn pass over the batch and over nothing else, whoever had
\* read it (projector.go ProjectOnce).
LEMMA WriteAdvances ==
    ASSUME IInv, NEW p \in Projectors, Write(p)
    PROVE  Tally!Advance
<1> USE DEF IInv
<1>1. /\ UNCHANGED <<at, id>>
      /\ projector[p].pc = "write"
      /\ rollups' = CountIn(rollups, projector[p].batch)
      /\ cursor' = LastOf(projector[p].batch)
    BY DEF Write, table
<1>2. projector[p].batch = Batch /\ Batch # {}
    BY <1>1 DEF Batches
<1>3. /\ cursor' > cursor
      /\ cursor' \in {id[s] : s \in Sources}
      /\ \A s \in Sources : id[s] <= cursor' <=> id[s] <= cursor \/ s \in Batch
    BY <1>1, <1>2, BatchIsNext DEF Columns, Ids
<1>4. \A s \in Sources : s \in Batch <=> cursor < id[s] /\ id[s] <= cursor'
    <2>1. \A s \in Batch : id[s] > cursor
        BY DEF Batch
    <2> QED
        BY <1>3, <2>1 DEF Columns
<1>5. rollups' = [l \in Levels |-> [s \in Sources |->
                    rollups[l][s] + IF cursor < id[s] /\ id[s] <= cursor' THEN 1 ELSE 0]]
    BY <1>1, <1>2, <1>4, Zenon DEF CountIn
<1>6. {s \in Sources : at'[s] # 0} = {s \in Sources : at[s] # 0}
    BY <1>1
<1> QED
    BY <1>1, <1>3, <1>5, <1>6, Zenon DEF Tally!Advance

\* A rebuild counts the same events again at every level: a window of days cuts
\* no bucket (projector.go RebuildWindow).
LEMMA RebuildRecounts ==
    ASSUME IInv, NEW w \in Windows, RebuildWindow(w)
    PROVE  \E events \in SUBSET Sources : Tally!Recount(events)
<1> USE DEF IInv
<1> DEFINE window == {s \in Sources : w[1] <= at[s] /\ at[s] < w[2]}
           base == [l \in Levels |-> [s \in Sources |->
                      IF Replaced(l, s, w) THEN 0 ELSE rollups[l][s]]]
<1>1. UNCHANGED <<at, id, cursor>> /\ rollups' = CountIn(base, Recounted(w))
    BY Zenon DEF RebuildWindow
<1>2. ASSUME NEW l \in Levels, NEW s \in Sources
      PROVE  base[l][s] + (IF s \in Recounted(w) THEN 1 ELSE 0)
               = IF s \notin window THEN rollups[l][s] ELSE IF id[s] = 0 THEN 0 ELSE 1
    <2>1. rollups[l][s] \in Nat /\ at[s] \in Time
        BY EventTypes
    <2>2. Replaced(l, s, w) <=> s \in window
        BY <2>1, WindowsAlign
    <2>3. s \in Recounted(w) <=> s \in window /\ id[s] # 0
        BY DEF Recounted, Rows
    <2>4. base[l][s] = IF s \in window THEN 0 ELSE rollups[l][s]
        BY <2>2
    <2> HIDE DEF window, base
    <2> QED
        BY <2>1, <2>3, <2>4
<1>3. rollups' = [l \in Levels |-> [s \in Sources |->
                    base[l][s] + IF s \in Recounted(w) THEN 1 ELSE 0]]
    BY <1>1, Zenon DEF CountIn
<1>4. rollups' = [l \in Levels |-> [s \in Sources |->
                    IF s \notin window THEN rollups[l][s] ELSE IF id[s] = 0 THEN 0 ELSE 1]]
    <2> HIDE DEF window, base
    <2> QED
        BY <1>2, <1>3, Zenon
<1>5. window \in SUBSET Sources
    OBVIOUS
<1>6. {s \in Sources : at'[s] # 0} = {s \in Sources : at[s] # 0}
    BY <1>1
<1>7. Tally!Recount(window)
    <2> HIDE DEF window
    <2> QED
        BY <1>1, <1>4, <1>6, Zenon DEF Tally!Recount
<1> QED
    BY <1>5, <1>7, ZenonT(30)

\* A retention lets go of events that the cursor has passed, each with its
\* minute, and of whole counts (main.go analyticsCommand).
LEMMA RetainReleases ==
    ASSUME IInv, Retain
    PROVE  \E events \in SUBSET Sources : Tally!Release(events)
<1> USE DEF IInv
<1>1. /\ UNCHANGED <<at, cursor>>
      /\ id' = [s \in Sources |-> IF s \in Purged THEN 0 ELSE id[s]]
      /\ \A l \in Levels, s \in Sources :
           rollups'[l][s] = IF Expired(l, s, retention.now) THEN 0 ELSE rollups[l][s]
    BY DEF Retain
<1>2. /\ retention.now \in Nat
      /\ retention.cursor \in Nat /\ retention.cursor <= cursor
    BY DEF Retain, Processes, Retentions
<1>3. Purged \in SUBSET Sources
    BY DEF Purged, Rows
<1>4. ASSUME NEW s \in Purged PROVE id[s] <= cursor /\ rollups'["minute"][s] = 0
    <2>1. s \in Sources /\ at[s] + Keep["minute"] < retention.now /\ id[s] <= retention.cursor
        BY DEF Purged, Rows
    <2>2. at[s] \in Time /\ id[s] \in Nat /\ cursor \in Nat
        BY <2>1, EventTypes
    <2>3. "minute" \in Levels
        BY DEF Levels
    <2>4. /\ Truncate["minute"][at[s]] \in Nat /\ at[s] \in Nat /\ Keep["minute"] \in Nat
          /\ Truncate["minute"][at[s]] <= at[s]
        BY <2>2, <2>3, AnalyticsAssumption DEF Time
    <2>5. Expired("minute", s, retention.now)
        BY <1>2, <2>1, <2>4 DEF Expired
    <2> QED
        BY <1>1, <1>2, <2>1, <2>2, <2>3, <2>5
<1>5. \A l \in Levels, s \in Sources : rollups'[l][s] \in {0, rollups[l][s]}
    BY <1>1
<1>6. {s \in Sources : at'[s] # 0} = {s \in Sources : at[s] # 0}
    BY <1>1
<1>7. Tally!Release(Purged)
    BY <1>1, <1>4, <1>5, <1>6, Zenon DEF Tally!Release
<1> QED
    BY <1>3, <1>7, Zenon

\* Every step of the projection is a step of the tally or changes none of what
\* the tally shows.
LEMMA StepTally == IInv /\ [Next]_vars => [Tally!TallyNext]_Tally!tally
<1> SUFFICES ASSUME IInv, [Next]_vars PROVE Tally!TallyNext \/ UNCHANGED Tally!tally
    BY Zenon
<1>1. CASE UNCHANGED <<at, id, cursor, rollups>>
    <2>1. {s \in Sources : at'[s] # 0} = {s \in Sources : at[s] # 0}
        BY <1>1
    <2> QED
        BY <1>1, <2>1, Zenon DEF Tally!tally
<1>2. ASSUME NEW s \in Sources, NEW t \in Time \ {0}, InsertTx(s, t) PROVE Tally!TallyNext
    BY <1>2, InsertEnters, Zenon DEF Tally!TallyNext
<1>3. ASSUME NEW p \in Projectors, Write(p) PROVE Tally!TallyNext
    BY <1>3, WriteAdvances, Zenon DEF Tally!TallyNext
<1>4. ASSUME NEW w \in Windows, RebuildWindow(w) PROVE Tally!TallyNext
    BY <1>4, RebuildRecounts, Zenon DEF Tally!TallyNext
<1>5. CASE Retain
    BY <1>5, RetainReleases, Zenon DEF Tally!TallyNext
<1> QED
    BY <1>1, <1>2, <1>3, <1>4, <1>5, Zenon
    DEF Next, vars, table, Producers, Project, Acquire, Read, Exit, Fail, LeaseExpires, Tick,
        Operator, RetainCheck, RetainFails

\* For any number of events and projectors and any calendar, the projection
\* implements the tally of one reader: who holds the lease, who lost it and who
\* was killed between its reads and its writes shows in no count (projector.go
\* ProjectOnce, RebuildWindow; main.go analyticsProjector, analyticsCommand).
THEOREM AnalyticsImplementsTally == Spec => ImplementsTally
<1>1. Init => Tally!TallyInit
    <2> SUFFICES ASSUME Init PROVE Tally!TallyInit
        OBVIOUS
    <2>1. {s \in Sources : at[s] # 0} = {}
        BY DEF Init
    <2> QED
        BY <2>1, Zenon DEF Init, Tally!TallyInit
<1> QED
    BY <1>1, InitIInv, NextIInv, StepTally, PTL DEF Spec, ImplementsTally, Tally!TallySpec
=============================================================================
