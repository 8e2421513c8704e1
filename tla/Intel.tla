------------------------------- MODULE Intel -------------------------------
(***************************************************************************)
(* Campaign intelligence (internal/intel and the commands intel-projector  *)
(* and intel of cmd/mailproof).  A projector leases items of an outbox,    *)
(* verifies the signed evidence of each run, stores its grouping keys and  *)
(* closes the item; after a batch it groups all projected runs into        *)
(* campaigns, the connected components of runs that share keys.            *)
(*                                                                         *)
(* Items enter the outbox with an eligible result record (results.go).     *)
(* The evidence of a run is signed and never changes, so its strong keys   *)
(* are a constant.  The owner that a lease records is compared nowhere and *)
(* is left out, as is not_before, which is never set.                      *)
(***************************************************************************)
EXTENDS Integers, FiniteSets, FiniteSetsExt

CONSTANTS
    Runs,           \* runs with an eligible result record
    Keys,           \* grouping keys, in the order of their digests
    KeysOf,         \* per run: the strong keys of its evidence
    Projectors,     \* the intel-projector processes
    Operator,       \* the process of an operator's command
    NoCampaign,     \* the empty superseded_by
    MaxBatch,       \* --batch-size
    MaxEvents       \* bound on operator commands, failed steps and kills

ASSUME IntelAssumption ==
    /\ IsFiniteSet(Runs)
    /\ Keys \subseteq Nat
    /\ Keys \cap Runs = {}
    /\ NoCampaign \notin Keys \cup Runs
    /\ Operator \notin Projectors
    /\ KeysOf \in [Runs -> SUBSET Keys]
    /\ MaxBatch \in Nat \ {0}
    /\ MaxEvents \in Nat

VARIABLES
    outbox,         \* intel_projection_outbox: the state of an item
    projected,      \* intel_projected_runs; run_grouping_edges has their keys
    status,         \* campaign_projections: is a campaign active
    supersededBy,   \* campaign_projections
    members,        \* campaign_members
    proc,           \* the processes
    events          \* operator commands, failed steps and kills so far

campaigns == <<status, supersededBy, members>>

vars == <<outbox, projected, campaigns, proc, events>>

-----------------------------------------------------------------------------
\* A campaign is known by the key, or the run, that its id is derived from.
Campaigns == Keys \cup Runs

Idle == [pc |-> "idle", items |-> {}, item |-> NoCampaign, result |-> "none",
         runs |-> {}, groups |-> {}]

Init ==
    /\ outbox = [r \in Runs |-> "none"]
    /\ projected = {}
    /\ status = [c \in Campaigns |-> "none"]
    /\ supersededBy = [c \in Campaigns |-> NoCampaign]
    /\ members = [c \in Campaigns |-> {}]
    /\ proc = [p \in Projectors \cup {Operator} |-> Idle]
    /\ events = 0

\* InsertRecord of an eligible run adds an item.
Enqueue(r) ==
    /\ outbox[r] = "none"
    /\ outbox' = [outbox EXCEPT ![r] = "pending"]
    /\ UNCHANGED <<projected, campaigns, proc, events>>

\* Mutant: a lease that has run out is not taken over.
LeasableOpen == {r \in Runs : outbox[r] \in {"pending", "retryable"}}

Leasable == {r \in Runs : outbox[r] \in {"pending", "retryable", "expired"}}

\* ProjectOnce leases the oldest items, at most a batch.  Which they are is
\* left open.
Lease(p) ==
    /\ proc[p].pc = "idle"
    /\ \E items \in SUBSET Leasable :
         /\ items # {}
         /\ Cardinality(items) = Min({MaxBatch, Cardinality(Leasable)})
         /\ outbox' = [r \in Runs |-> IF r \in items THEN "leased" ELSE outbox[r]]
         /\ proc' = [proc EXCEPT ![p] = [Idle EXCEPT !.pc = "work", !.items = items]]
    /\ UNCHANGED <<projected, campaigns, events>>

\* lease_until < now.
LeaseExpires(r) ==
    /\ outbox[r] = "leased"
    /\ outbox' = [outbox EXCEPT ![r] = "expired"]
    /\ UNCHANGED <<projected, campaigns, proc, events>>

Ends(p, r, result) ==
    proc' = [proc EXCEPT ![p].pc = "finish", ![p].item = r, ![p].result = result]

\* Mutant: the item is closed before its rows are stored.
PersistLater(p) ==
    /\ proc[p].pc = "work"
    /\ \E r \in proc[p].items : Ends(p, r, "complete")
    /\ UNCHANGED <<outbox, projected, campaigns, events>>

\* The evidence of an item is verified and persist commits.  Rows that exist
\* are ignored.
Persist(p) ==
    /\ proc[p].pc = "work"
    /\ \E r \in proc[p].items : Ends(p, r, "complete") /\ projected' = projected \cup {r}
    /\ UNCHANGED <<outbox, campaigns, events>>

\* The evidence cannot be read or verified, or persist fails.
PersistFails(p) ==
    /\ proc[p].pc = "work"
    /\ events < MaxEvents
    /\ events' = events + 1
    /\ \E r \in proc[p].items, result \in {"terminal", "retryable"} : Ends(p, r, result)
    /\ UNCHANGED <<outbox, projected, campaigns>>

\* finish: the item is closed or given back, whoever has leased it meanwhile.
\* After the last item of a batch the campaigns are rebuilt.
Finish(p) ==
    /\ proc[p].pc = "finish"
    /\ outbox' = [outbox EXCEPT ![proc[p].item] = proc[p].result]
    /\ LET rest == proc[p].items \ {proc[p].item}
       IN proc' = [proc EXCEPT ![p] = [Idle EXCEPT !.pc = IF rest = {} THEN "runs" ELSE "work",
                                                   !.items = rest]]
    /\ UNCHANGED <<projected, campaigns, events>>

-----------------------------------------------------------------------------
\* The runs that share a key with one of a set, and the set itself.
Near(runs, set) == set \cup {s \in runs : \E r \in set : KeysOf[r] \cap KeysOf[s] # {}}

\* The breadth-first walk from a run over the keys to the runs it reaches.
Walk(runs, start) ==
    LET reached[n \in Nat] == IF n = 0 THEN {start} ELSE Near(runs, reached[n - 1])
    IN reached

\* Mutant: the queue takes in no runs that are found on the way.
ComponentNear(runs, start) == Walk(runs, start)[1]

Component(runs, start) == Walk(runs, start)[Cardinality(runs)]

Components(runs) == {Component(runs, r) : r \in runs}

\* RebuildComponents reads the projected runs and, in a query of its own, the
\* edges: runs with keys that were projected in between are included.  It
\* groups what it has read.
ReadRuns(p) ==
    /\ proc[p].pc = "runs"
    /\ proc' = [proc EXCEPT ![p].pc = "edges", ![p].runs = projected]
    /\ UNCHANGED <<outbox, projected, campaigns, events>>

ReadEdges(p) ==
    /\ proc[p].pc = "edges"
    /\ LET runs == proc[p].runs \cup {r \in projected : KeysOf[r] # {}}
       IN proc' = [proc EXCEPT ![p] = [Idle EXCEPT !.pc = "write", !.groups = Components(runs)]]
    /\ UNCHANGED <<outbox, projected, campaigns, events>>

\* Mutant: components are known by a rule and not by one of their keys.
CampaignOfRule(component) ==
    LET keys == UNION {KeysOf[r] : r \in component}
    IN IF keys = {} THEN CHOOSE r \in component : TRUE ELSE Min(Keys)

\* The least key; a run without keys is a component of its own.
CampaignOf(component) ==
    LET keys == UNION {KeysOf[r] : r \in component}
    IN IF keys = {} THEN CHOOSE r \in component : TRUE ELSE Min(keys)

\* The active campaigns that have a member of c.
Heirs(groups, c) == {CampaignOf(g) : g \in {h \in groups : h \cap members[c] # {}}}

\* Mutant: a campaign that is active again stays superseded.
UpsertOnly(active, c) == supersededBy[c]

\* The upsert of an active campaign: superseded_by=''.
Upsert(active, c) == IF c \in active THEN NoCampaign ELSE supersededBy[c]

\* Mutant: the campaigns of the last rebuild stay active.
StandingKept(active, c) == IF c \in active THEN "active" ELSE status[c]

\* active=0 for all campaigns, and active=1 by the upsert.
Standing(active, c) ==
    IF c \in active THEN "active" ELSE IF status[c] = "none" THEN "none" ELSE "inactive"

\* RebuildComponents: the transaction, which begins with a write.  Campaigns
\* that are no longer active, and were not superseded, get an heir; which of
\* several, depends on the order of a Go map.
Rebuild(p) ==
    LET groups == proc[p].groups
        active == {CampaignOf(g) : g \in groups}
        dropped == {c \in Campaigns \ active :
                      supersededBy[c] = NoCampaign /\ Heirs(groups, c) # {}}
    IN /\ proc[p].pc = "write"
       /\ status' = [c \in Campaigns |-> Standing(active, c)]
       /\ members' = [c \in Campaigns |->
                        members[c] \cup UNION {g \in groups : CampaignOf(g) = c}]
       /\ \E heir \in [dropped -> active] :
            /\ \A c \in dropped : heir[c] \in Heirs(groups, c)
            /\ supersededBy' = [c \in Campaigns |-> IF c \in dropped THEN heir[c]
                                                    ELSE Upsert(active, c)]
       /\ proc' = [proc EXCEPT ![p] = Idle]
       /\ UNCHANGED <<outbox, projected, events>>

\* Any other error of a process, or its kill; it starts again.
Stop(p) ==
    /\ proc[p] # Idle
    /\ events < MaxEvents
    /\ events' = events + 1
    /\ proc' = [proc EXCEPT ![p] = Idle]
    /\ UNCHANGED <<outbox, projected, campaigns>>

\* intel rebuild.
StartRebuild ==
    /\ proc[Operator].pc = "idle"
    /\ events < MaxEvents
    /\ events' = events + 1
    /\ proc' = [proc EXCEPT ![Operator].pc = "runs"]
    /\ UNCHANGED <<outbox, projected, campaigns>>

\* intel activate, of this policy version or of another one.
Activate(this) ==
    /\ events < MaxEvents
    /\ events' = events + 1
    /\ status' = [c \in Campaigns |-> IF status[c] = "none" THEN "none"
                                      ELSE IF this THEN "active" ELSE "inactive"]
    /\ UNCHANGED <<outbox, projected, supersededBy, members, proc>>

-----------------------------------------------------------------------------
RebuildComponents(p) == ReadRuns(p) \/ ReadEdges(p) \/ Rebuild(p)

ProjectOnce(p) == Lease(p) \/ Persist(p) \/ Finish(p) \/ RebuildComponents(p)

Next ==
    \/ \E r \in Runs : Enqueue(r) \/ LeaseExpires(r)
    \/ \E p \in Projectors : ProjectOnce(p) \/ PersistFails(p)
    \/ RebuildComponents(Operator)
    \/ \E p \in Projectors \cup {Operator} : Stop(p)
    \/ StartRebuild
    \/ \E this \in BOOLEAN : Activate(this)

Spec == Init /\ [][Next]_vars

\* Some projector polls, and is restarted when it stops, and time passes.
FairSpec ==
    /\ Spec
    /\ WF_vars(\E p \in Projectors : ProjectOnce(p))
    /\ WF_vars(\E r \in Runs : LeaseExpires(r))

-----------------------------------------------------------------------------
(***************************************************************************)
(* Properties                                                              *)
(***************************************************************************)
\* The state has its types; an item that is closed as complete has its rows,
\* and a campaign has members exactly when it was ever a component
\* (projector.go persist, RebuildComponents).
TypeOK ==
    /\ outbox \in [Runs -> {"none", "pending", "leased", "expired", "retryable",
                            "complete", "terminal"}]
    /\ projected \subseteq Runs
    /\ status \in [Campaigns -> {"none", "active", "inactive"}]
    /\ supersededBy \in [Campaigns -> Campaigns \cup {NoCampaign}]
    /\ members \in [Campaigns -> SUBSET projected]
    /\ \A r \in Runs : outbox[r] = "complete" => r \in projected
    /\ \A c \in Campaigns : status[c] = "none" <=> members[c] = {}

\* Runs that share no key, even through others, are never in one campaign nor
\* in campaigns of which one supersedes the other, however old the edges are
\* that a rebuild worked on.  A set of runs that shares no key with the other
\* runs has all members or none (projector.go RebuildComponents: "Weak values
\* are absent from that graph, so they cannot accidentally cluster runs").
MembersShareKeys ==
    \A closed \in SUBSET projected :
        (\A r \in closed, s \in projected \ closed : KeysOf[r] \cap KeysOf[s] = {}) =>
            \A c \in Campaigns :
                LET together == members[c] \cup IF supersededBy[c] = NoCampaign THEN {}
                                                ELSE members[supersededBy[c]]
                IN together \subseteq closed \/ together \cap closed = {}

\* A rebuild gives every run to one component and every component a campaign of
\* its own: no upsert overwrites the hit count of another one (projector.go
\* RebuildComponents).
GroupsAreDistinct ==
    \A p \in Projectors \cup {Operator} : \A g, h \in proc[p].groups :
        g # h => g \cap h = {} /\ CampaignOf(g) # CampaignOf(h)

\* Following superseded_by comes to an end, also when an old rebuild commits
\* after a newer one and brings a superseded campaign back (projector.go
\* RebuildComponents).
SupersessionEnds ==
    \A S \in SUBSET {c \in Campaigns : supersededBy[c] # NoCampaign} :
        (\A c \in S : supersededBy[c] \in S) => S = {}

\* A rebuild that commits what it would read now repairs whatever late rebuilds,
\* stops and activations have left behind: the active campaigns are the
\* components of the projected runs, each with exactly its runs as members (so
\* that hit_count is their number), and every other campaign leads on to an
\* heir (projector.go RebuildComponents).
RebuildsRepair ==
    [][\A p \in Projectors \cup {Operator} :
         Rebuild(p) /\ proc[p].groups = Components(projected) =>
           /\ \A c \in Campaigns :
                status'[c] = "active" <=> \E g \in proc[p].groups : CampaignOf(g) = c
           /\ \A g \in proc[p].groups : members'[CampaignOf(g)] = g
           /\ \A c \in Campaigns :
                status'[c] = "inactive" => supersededBy'[c] # NoCampaign]_vars

\* Every item of the outbox is closed for good, although leases run out under
\* working projectors and finish compares no owner (projector.go ProjectOnce).
ItemsAreClosed ==
    <>[](\A r \in Runs : outbox[r] \in {"none", "complete", "terminal"})
=============================================================================
