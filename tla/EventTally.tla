----------------------------- MODULE EventTally -----------------------------
(***************************************************************************)
(* What the analytics projection promises: a tally of events that one      *)
(* reader keeps.  An event enters once.  The reader passes over the events *)
(* in the order of their ids and counts exactly those it passes, once at   *)
(* every level.  A recount treats all levels alike.  Retention lets go of  *)
(* counts level by level, and of no event that the reader has yet to pass. *)
(***************************************************************************)
EXTENDS Naturals

CONSTANTS
    Sources,        \* the events
    Levels,         \* the sizes of buckets
    Finest          \* the smallest of them

VARIABLES
    entered,        \* the events that ever entered
    id,             \* per event: its id, 0 if it has no row
    cursor,         \* how far the reader has come
    count           \* per level: how often an event is counted

tally == <<entered, id, cursor, count>>

TallyInit ==
    /\ entered = {}
    /\ id = [s \in Sources |-> 0]
    /\ cursor = 0
    /\ count = [l \in Levels |-> [s \in Sources |-> 0]]

Enter(s) ==
    /\ s \notin entered
    /\ entered' = entered \cup {s}
    /\ id' = [id EXCEPT ![s] = id'[s]]
    /\ \A u \in Sources : id[u] < id'[s]
    /\ UNCHANGED <<cursor, count>>

Advance ==
    /\ cursor' \in {id[s] : s \in Sources}
    /\ cursor' > cursor
    /\ count' = [l \in Levels |-> [s \in Sources |->
                   count[l][s] + IF cursor < id[s] /\ id[s] <= cursor' THEN 1 ELSE 0]]
    /\ UNCHANGED <<entered, id>>

Recount(window) ==
    /\ count' = [l \in Levels |-> [s \in Sources |->
                   IF s \notin window THEN count[l][s] ELSE IF id[s] = 0 THEN 0 ELSE 1]]
    /\ UNCHANGED <<entered, id, cursor>>

Release(gone) ==
    /\ \A s \in gone : id[s] <= cursor /\ count'[Finest][s] = 0
    /\ id' = [s \in Sources |-> IF s \in gone THEN 0 ELSE id[s]]
    /\ \A l \in Levels, s \in Sources : count'[l][s] \in {0, count[l][s]}
    /\ UNCHANGED <<entered, cursor>>

TallyNext ==
    \/ \E s \in Sources : Enter(s)
    \/ Advance
    \/ \E events \in SUBSET Sources : Recount(events) \/ Release(events)

TallySpec == TallyInit /\ [][TallyNext]_tally
=============================================================================
