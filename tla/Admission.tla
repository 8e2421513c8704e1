----------------------------- MODULE Admission -----------------------------
(***************************************************************************)
(* The admission policy service (internal/admission): Postfix asks, for    *)
(* each recipient, whether a submission is admitted.  A handler decides on *)
(* the snapshot of the policy that a poller refreshes, asks DNS for SPF,   *)
(* and then counts and stores in one transaction.                          *)
(*                                                                         *)
(* That transaction begins with a read.  If anything is committed between  *)
(* its counting and its insert, SQLite refuses the insert                  *)
(* (SQLITE_BUSY_SNAPSHOT) and the request is deferred.                     *)
(*                                                                         *)
(* A request that is malformed, one beyond MaxConnections, and an invalid  *)
(* limit (none is below 1) change no state.                                *)
(***************************************************************************)
EXTENDS Policy

CONSTANTS
    Handlers,       \* connections served at a time
    Windows,        \* the rolling windows: minute, hour, day
    Length,         \* per window: its length
    MaxTime,        \* bound on the clock
    MaxAdmissions,  \* bound on admissions
    MaxRejections   \* bound on rejections by a policy rule

ASSUME AdmissionAssumption ==
    /\ Limits \subseteq [Windows -> Nat \ {0}]
    /\ Length \in [Windows -> Nat \ {0}]
    /\ {MaxTime, MaxAdmissions, MaxRejections} \subseteq Nat

VARIABLES
    now,            \* the clock
    snapshot,       \* what SnapshotStore holds
    handler,        \* the handlers
    admissions,     \* table admission_events, in the order of insertion
    rejections      \* the rejections by a policy rule in submission_decisions

service == <<now, snapshot, handler, admissions, rejections>>

vars == <<policy, service>>

-----------------------------------------------------------------------------
Idle == [pc |-> "idle", peer |-> NoAddress, submitter |-> NoSubmitter, version |-> 0,
         limit |-> DefaultLimit, at |-> 0, full |-> FALSE, stale |-> FALSE]

\* One read transaction: the version, the enabled rules and the capabilities
\* in force with their submitters.
LoadPolicySnapshot ==
    [version    |-> Version,
     enabled    |-> {r \in Rules : rules[r] = "enabled"},
     cap        |-> cap,
     submitters |-> submitters]

Init ==
    /\ PolicyInit
    /\ now = 0
    /\ snapshot = LoadPolicySnapshot
    /\ handler = [h \in Handlers |-> Idle]
    /\ admissions = <<>>
    /\ rejections = {}

\* A commit makes every transaction stale that has read and not yet written.
Stale(hs) ==
    [h \in Handlers |-> [hs[h] EXCEPT !.stale = @ \/ hs[h].pc = "store"]]

Finish(h) == handler' = Stale([handler EXCEPT ![h] = Idle])

-----------------------------------------------------------------------------
\* Mutant: the version is not read in the transaction that reads the rules.
RefreshTorn ==
    /\ snapshot # LoadPolicySnapshot
    /\ \/ snapshot' = LoadPolicySnapshot
       \/ snapshot' = [snapshot EXCEPT !.version = Version]
    /\ UNCHANGED <<policy, now, handler, admissions, rejections>>

\* A tick of Poll.
Refresh ==
    /\ snapshot # LoadPolicySnapshot
    /\ snapshot' = LoadPolicySnapshot
    /\ UNCHANGED <<policy, now, handler, admissions, rejections>>

\* reject: the decision is stored.  Of its row only the rule that is named, if
\* any, is kept here: nothing else of it is read again.
Reject(h, named) ==
    /\ Cardinality(rejections \cup named) <= MaxRejections
    /\ rejections' = rejections \cup named
    /\ Finish(h)
    /\ UNCHANGED <<policy, now, snapshot, admissions>>

\* The blocks of the snapshot that apply to a peer now.
Blocking(peer) ==
    {r \in snapshot.enabled \ expired : Shape[r].type = "peer_block_put" /\ Shape[r].value = peer}

\* Admit, up to the question to DNS.  A peer is blocked, the capability is not
\* that of an active submitter, the sender is not that submitter, or SPF is
\* asked.
Request(h, peer, envelope, capability) ==
    /\ handler[h].pc = "idle"
    /\ Len(admissions) < MaxAdmissions
    /\ LET found == {s \in Submitters : /\ snapshot.cap[s] = capability
                                        /\ snapshot.submitters[s].status = "active"}
       IN \/ \E r \in Blocking(peer) :
               Reject(h, {[peer |-> peer, version |-> snapshot.version, rule |-> r]})
          \/ /\ Blocking(peer) = {}
             /\ found = {}
             /\ Reject(h, {})
          \/ /\ Blocking(peer) = {}
             /\ \E s \in found :
                  \/ /\ snapshot.submitters[s].address # envelope
                     /\ Reject(h, {})
                  \/ /\ snapshot.submitters[s].address = envelope
                     /\ handler' = [handler EXCEPT ![h] =
                                      [Idle EXCEPT !.pc = "spf", !.peer = peer,
                                                   !.submitter = s,
                                                   !.version = snapshot.version,
                                                   !.limit = snapshot.submitters[s].limit]]
                     /\ UNCHANGED <<policy, now, snapshot, admissions, rejections>>

\* Mutant: the expiry of the stamp is stored as the time of the decision.
CheckSPFAhead(h) ==
    /\ handler[h].pc = "spf"
    /\ handler' = [handler EXCEPT ![h].pc = "count", ![h].at = now + 1]
    /\ UNCHANGED <<policy, now, snapshot, admissions, rejections>>

\* The answer to the SPF question (no answer: Defer).
CheckSPF(h) ==
    /\ handler[h].pc = "spf"
    /\ \/ Reject(h, {})
       \/ /\ handler' = [handler EXCEPT ![h].pc = "count", ![h].at = now]
          /\ UNCHANGED <<policy, now, snapshot, admissions, rejections>>

\* Mutant: rows of later times than the decision's are not counted.
CountedUpTo(s, t, w) ==
    Cardinality({i \in 1 .. Len(admissions) : /\ admissions[i].submitter = s
                                              /\ admissions[i].at + Length[w] > t
                                              /\ admissions[i].at <= t})

\* The admissions of a submitter counted against a window that ends at t.
\* There is no upper end: rows of later times are counted too.
Counted(s, t, w) ==
    Cardinality({i \in 1 .. Len(admissions) :
                   admissions[i].submitter = s /\ admissions[i].at + Length[w] > t})

\* admit: the transaction's reads.
Count(h) ==
    /\ handler[h].pc = "count"
    /\ handler' = [handler EXCEPT ![h].pc = "store",
                                  ![h].stale = FALSE,
                                  ![h].full = \E w \in Windows :
                                    Counted(handler[h].submitter, handler[h].at, w)
                                      >= handler[h].limit[w]]
    /\ UNCHANGED <<policy, now, snapshot, admissions, rejections>>

Admitted(h) ==
    [submitter |-> handler[h].submitter, peer |-> handler[h].peer,
     version |-> handler[h].version, at |-> handler[h].at]

\* Mutant: what was counted is not protected until the insert.
StoreStale(h) ==
    /\ handler[h].pc = "store"
    /\ ~handler[h].full
    /\ admissions' = Append(admissions, Admitted(h))
    /\ Finish(h)
    /\ UNCHANGED <<policy, now, snapshot, rejections>>

\* admit: the transaction's inserts and its commit.
Store(h) ==
    /\ handler[h].pc = "store"
    /\ ~handler[h].stale
    /\ \/ /\ handler[h].full
          /\ Reject(h, {})
       \/ /\ ~handler[h].full
          /\ admissions' = Append(admissions, Admitted(h))
          /\ Finish(h)
          /\ UNCHANGED <<policy, now, snapshot, rejections>>

\* DNS or database trouble at any point, a stale transaction included.
Defer(h) ==
    /\ handler[h].pc # "idle"
    /\ handler' = [handler EXCEPT ![h] = Idle]
    /\ UNCHANGED <<policy, now, snapshot, admissions, rejections>>

Tick ==
    /\ now < MaxTime
    /\ now' = now + 1
    /\ UNCHANGED <<policy, snapshot, handler, admissions, rejections>>

\* The policy changes under the service.
PolicyCommits ==
    /\ Enrollment \/ Control
    /\ handler' = Stale(handler)
    /\ UNCHANGED <<now, snapshot, admissions, rejections>>

PolicyExpires ==
    /\ Expiry
    /\ UNCHANGED service

Serve ==
    \/ \E h \in Handlers, peer \in Values, envelope \in Addresses, c \in Caps :
         Request(h, peer, envelope, c)
    \/ \E h \in Handlers : CheckSPF(h) \/ Count(h) \/ Store(h) \/ Defer(h)

Next == Refresh \/ Serve \/ Tick \/ PolicyCommits \/ PolicyExpires

Spec == Init /\ [][Next]_vars

-----------------------------------------------------------------------------
(***************************************************************************)
(* Properties                                                              *)
(***************************************************************************)
\* The service's state has its types, and neither the snapshot nor a handler
\* is ahead of the policy in force (admission.go SnapshotStore).
TypeOK ==
    /\ PolicyTypeOK
    /\ now \in 0 .. MaxTime
    /\ snapshot.version \in 0 .. Version
    /\ snapshot.enabled \subseteq Rules
    /\ \A h \in Handlers :
         /\ handler[h].pc \in {"idle", "spf", "count", "store"}
         /\ handler[h].version <= snapshot.version
         /\ handler[h].at <= now
         /\ handler[h].limit \in Limits
    /\ \A i \in 1 .. Len(admissions) : admissions[i].at <= now

\* The quota of a submitter in a version.
LimitIn(table, s, v) ==
    IF v = 0 THEN DefaultLimit ELSE table[v].policy.submitters[s].limit

LimitOf(s, v) == LimitIn(versions, s, v)

\* In no rolling window has a submitter more admissions than the quota allows,
\* whatever requests run at once and whenever they read the clock.  The quota
\* is the largest that the admissions of the window were decided under
\* (admission.go admit).
QuotaHolds ==
    \A i \in 1 .. Len(admissions), w \in Windows :
        LET a == admissions[i]
            members == {j \in 1 .. Len(admissions) :
                          /\ admissions[j].submitter = a.submitter
                          /\ admissions[j].at <= a.at
                          /\ admissions[j].at + Length[w] > a.at}
        IN \E j \in members :
             Cardinality(members) <= LimitOf(a.submitter, admissions[j].version)[w]

Ledger == INSTANCE QuotaLedger WITH
    Quota     <- LimitIn,
    clock     <- now,
    latest    <- Version,
    published <- versions,
    ledger    <- admissions

\* Handlers that count and insert at the same time, on old snapshots and with
\* the clock read long before, admit as one clerk would who counts and enters
\* in one step: every admission had room, among all that were stored before
\* it, under the quota of the version that it names (admission.go admit).
ImplementsLedger == Ledger!LedgerSpec

\* A decision follows the version it names: nothing is admitted from a peer
\* that this version blocks, unless the block has expired since, and the rule
\* that a rejection names is one of the version's (admission.go Admit, from a
\* snapshot that was read in one transaction).
DecisionsFollowTheirVersion ==
    LET enabled(v) == IF v = 0 THEN {} ELSE versions[v].enabled
        blocks(r, peer) == Shape[r].type = "peer_block_put" /\ Shape[r].value = peer
    IN /\ \A i \in 1 .. Len(admissions) :
            \A r \in enabled(admissions[i].version) \ expired : ~blocks(r, admissions[i].peer)
       /\ \A d \in rejections :
            d.rule \in enabled(d.version) /\ blocks(d.rule, d.peer)
=============================================================================
