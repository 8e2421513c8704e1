--------------------------- MODULE AdmissionProofs ---------------------------
(***************************************************************************)
(* Concurrent admissions, for any number of handlers, submitters, windows, *)
(* limits and policy versions: no rolling window holds more admissions     *)
(* than the quota allows, and a decision follows the version it names.     *)
(*                                                                         *)
(* The argument.  A handler carries what the version it names says of its  *)
(* submitter and its peer, although the policy moves on (Follows), because *)
(* a version never changes once committed.  What it counted is still below *)
(* the limit when it inserts, as any commit in between makes the insert    *)
(* fail (Counting).  The transaction counts every admission later than the *)
(* window's start, later ones than its own time included, so the insert    *)
(* also leaves room in the windows that end after it.  The insert alone is *)
(* then the step of a clerk who counts and enters at once (QuotaLedger).   *)
(***************************************************************************)
EXTENDS Admission, PolicyProofs

\* In a module of this size the provers need more than their default time.
USE SMTT(30), ZenonT(30)

HandlerState ==
    [pc : {"idle", "spf", "count", "store"}, peer : Values \cup {NoAddress},
     submitter : Submitters \cup {NoSubmitter}, version : Nat, limit : Limits,
     at : Nat, full : BOOLEAN, stale : BOOLEAN]

AdmissionRow == [submitter : Submitters, peer : Values, version : Nat, at : Nat]

Rejection == [peer : Values, version : Nat, rule : Rules]

Blocks(r, peer) == Shape[r].type = "peer_block_put" /\ Shape[r].value = peer

EnabledIn(v) == IF v = 0 THEN {} ELSE versions[v].enabled

\* What version v said of a submitter and of a peer.
Follows(st) ==
    /\ st.submitter \in Submitters
    /\ st.peer \in Values
    /\ st.limit = LimitOf(st.submitter, st.version)
    /\ \A r \in EnabledIn(st.version) \ expired : ~Blocks(r, st.peer)

Counting(st) ==
    \A w \in Windows : Counted(st.submitter, st.at, w) < st.limit[w]

HandlerOK(st) ==
    /\ st \in HandlerState
    /\ st.version <= snapshot.version
    /\ st.at <= now
    /\ st.pc # "idle" => Follows(st)
    /\ st.pc = "store" /\ ~st.stale /\ ~st.full => Counting(st)

Handling ==
    /\ handler = [h \in Handlers |-> handler[h]]
    /\ \A h \in Handlers : HandlerOK(handler[h])

SnapshotOK ==
    /\ snapshot.version \in 0 .. Version
    /\ snapshot.enabled = EnabledIn(snapshot.version)
    /\ \A s \in Submitters : /\ snapshot.submitters[s].limit = LimitOf(s, snapshot.version)
                             /\ snapshot.submitters[s].limit \in Limits

\* What is stored.
Stored ==
    /\ now \in 0 .. MaxTime
    /\ admissions \in Seq(AdmissionRow)
    /\ \A i \in 1 .. Len(admissions) : /\ admissions[i].at <= now
                                       /\ admissions[i].version \in 0 .. Version
    /\ \A d \in rejections : d \in Rejection /\ d.version \in 0 .. Version

AInv == PInv /\ Handling /\ SnapshotOK /\ Stored /\ QuotaHolds /\ DecisionsFollowTheirVersion

-----------------------------------------------------------------------------
(***************************************************************************)
(* The windows                                                             *)
(***************************************************************************)
\* The admissions of the window that ends with admission i.
Window(adm, i, w) ==
    {j \in 1 .. Len(adm) : /\ adm[j].submitter = adm[i].submitter
                           /\ adm[j].at <= adm[i].at
                           /\ adm[j].at + Length[w] > adm[i].at}

\* After an insert that the count allowed, a window is as before or has room
\* for the admission inserted.
LEMMA WindowGrows ==
    ASSUME NEW adm \in Seq(AdmissionRow), NEW a \in AdmissionRow, NEW new, NEW n \in Nat,
           n = Len(adm), new = Append(adm, a), NEW w \in Windows, NEW k \in Nat,
           Cardinality({i \in 1 .. n : adm[i].submitter = a.submitter
                                         /\ adm[i].at + Length[w] > a.at}) < k,
           NEW i \in 1 .. n + 1
    PROVE  \/ i \in 1 .. n /\ Window(new, i, w) = Window(adm, i, w)
           \/ /\ n + 1 \in Window(new, i, w)
              /\ Cardinality(Window(new, i, w)) <= k
<1>1. /\ new \in Seq(AdmissionRow)
      /\ Len(new) = n + 1
      /\ new[n + 1] = a
      /\ \A j \in 1 .. n : new[j] = adm[j]
  OBVIOUS
<1>2. ASSUME NEW j \in 1 .. n PROVE adm[j].at \in Nat
  <2>1. adm[j] \in AdmissionRow
    OBVIOUS
  <2> QED
    BY <2>1 DEF AdmissionRow
<1>3. Length[w] \in Nat /\ Length[w] > 0 /\ a.at \in Nat
  BY AdmissionAssumption DEF AdmissionRow
<1>4. CASE n + 1 \notin Window(new, i, w)
  <2>1. i # n + 1
    BY <1>1, <1>3, <1>4 DEF Window
  <2>2. i \in 1 .. n
    BY <2>1
  <2>3. ASSUME NEW j
        PROVE  j \in Window(new, i, w) <=> j \in Window(adm, i, w)
    <3>1. j \in 1 .. n + 1 <=> j \in 1 .. n \/ j = n + 1
      OBVIOUS
    <3> QED
      BY <1>1, <1>4, <2>2, <3>1 DEF Window
  <2>4. Window(new, i, w) = Window(adm, i, w)
    BY <2>3, Zenon
  <2> QED
    BY <2>2, <2>4
<1>5. CASE n + 1 \in Window(new, i, w)
  <2>1. PICK C : C = {j \in 1 .. n : adm[j].submitter = a.submitter
                                       /\ adm[j].at + Length[w] > a.at}
    BY Zenon
  <2>2. IsFiniteSet(C) /\ Cardinality(C) \in Nat /\ Cardinality(C) < k /\ n + 1 \notin C
    <3>1. IsFiniteSet(1 .. n)
      BY FS_Interval
    <3>2. C \subseteq 1 .. n
      BY <2>1
    <3>3. IsFiniteSet(C)
      BY <3>1, <3>2, FS_Subset, Zenon
    <3>4. Cardinality(C) < k
      BY <2>1, Zenon
    <3>5. n + 1 \notin C
      BY <3>2
    <3> QED
      BY <3>3, <3>4, <3>5, FS_CardinalityType
  <2>3. IsFiniteSet(C \cup {n + 1}) /\ Cardinality(C \cup {n + 1}) = Cardinality(C) + 1
    BY <2>2, FS_AddElement
  <2>4. Window(new, i, w) \subseteq C \cup {n + 1}
    <3>1. /\ new[i] \in AdmissionRow
          /\ a.submitter = new[i].submitter
          /\ a.at <= new[i].at
      BY <1>1, <1>5 DEF Window
    <3>2. new[i].at \in Nat
      BY <3>1 DEF AdmissionRow
    <3>3. ASSUME NEW j \in Window(new, i, w), j # n + 1
          PROVE  j \in C
      <4>1. j \in 1 .. n
        BY <1>1, <3>3 DEF Window
      <4>2. /\ adm[j].submitter = new[i].submitter
            /\ adm[j].at + Length[w] > new[i].at
        BY <1>1, <3>3, <4>1 DEF Window
      <4>3. adm[j].at + Length[w] > a.at
        <5>1. PICK x \in Nat, y \in Nat, l \in Nat, z \in Nat :
                x = adm[j].at /\ y = new[i].at /\ l = Length[w] /\ z = a.at
          BY <1>2, <1>3, <3>2, <4>1, Zenon
        <5>2. x + l > y /\ z <= y
          BY <3>1, <4>2, <5>1
        <5>3. x + l > z
          BY <5>1, <5>2
        <5> QED
          BY <5>1, <5>3
      <4> QED
        BY <2>1, <3>1, <4>1, <4>2, <4>3
    <3> QED
      BY <3>3
  <2>5. Cardinality(Window(new, i, w)) <= Cardinality(C \cup {n + 1})
        /\ Cardinality(Window(new, i, w)) \in Nat
    BY <2>3, <2>4, FS_Subset, FS_CardinalityType
  <2> QED
    BY <1>5, <2>2, <2>3, <2>5
<1> QED
  BY <1>4, <1>5

LEMMA CountedType ==
    ASSUME Stored, NEW s, NEW t, NEW w
    PROVE  Counted(s, t, w) \in Nat
<1>1. PICK n \in Nat : n = Len(admissions)
  BY DEF Stored
<1>2. PICK C : C = {i \in 1 .. n : admissions[i].submitter = s /\ admissions[i].at + Length[w] > t}
  BY Zenon
<1>3. IsFiniteSet(1 .. n) /\ C \subseteq 1 .. n
  BY <1>1, <1>2, FS_Interval
<1> QED
  BY <1>1, <1>2, <1>3, FS_Subset, FS_CardinalityType DEF Counted

-----------------------------------------------------------------------------
(***************************************************************************)
(* Committed versions stay                                                 *)
(***************************************************************************)
Kept ==
    /\ Version \in Nat
    /\ Version' \in Nat
    /\ Version <= Version'
    /\ \A v \in 1 .. Version : versions'[v] = versions[v]
    /\ expired \subseteq expired'

LEMMA PolicyKept ==
    ASSUME PInv, [PolicyNext]_policy
    PROVE  PInv' /\ Kept
<1>0. PInv'
  BY StepPInv
<1>1. versions \in Seq(VersionRow) /\ versions' \in Seq(VersionRow)
  BY <1>0 DEF PInv, Tables
<1>2. Version \in Nat /\ Version' \in Nat
  BY <1>1 DEF Version
<1>3. expired \subseteq expired'
  BY DEF PolicyNext, Enrollment, Control, Expiry, Challenge, Activate, Revoke, Rotate, Preview,
         Confirm, BootstrapImport, ChallengeExpires, TokenExpires, RuleExpires, policy
<1>4. UNCHANGED versions \/ \E row : versions' = Append(versions, row)
  BY Zenon DEF PolicyNext, Enrollment, Control, Expiry, Challenge, Activate, Revoke, Rotate, Preview,
         Confirm, BootstrapImport, ChallengeExpires, TokenExpires, RuleExpires, policy, Committed
<1>5. CASE UNCHANGED versions
  BY <1>0, <1>2, <1>3, <1>5 DEF Kept, Version
<1>6. ASSUME NEW row, versions' = Append(versions, row)
      PROVE  Version <= Version' /\ \A v \in 1 .. Version : versions'[v] = versions[v]
  BY <1>1, <1>6 DEF Version
<1> QED
  BY <1>0, <1>2, <1>3, <1>4, <1>5, <1>6 DEF Kept

LEMMA Quiet ==
    ASSUME PInv, UNCHANGED policy
    PROVE  PInv' /\ Kept /\ Version' = Version
BY PolicyKept DEF policy, Version

LEMMA PastStays ==
    ASSUME Kept, NEW v \in 0 .. Version
    PROVE  /\ EnabledIn(v)' = EnabledIn(v)
           /\ \A s \in Submitters : LimitOf(s, v)' = LimitOf(s, v)
<1>1. v = 0 \/ versions'[v] = versions[v]
  BY DEF Kept
<1> QED
  BY <1>1 DEF EnabledIn, LimitOf, LimitIn

LEMMA EnabledType ==
    ASSUME PInv, NEW v \in 0 .. Version
    PROVE  EnabledIn(v) \subseteq Rules
<1>1. versions \in Seq(VersionRow)
  BY DEF PInv, Tables
<1>2. ASSUME v # 0 PROVE versions[v].enabled \subseteq Rules
  <2>1. versions[v] \in VersionRow
    BY <1>1, <1>2 DEF Version
  <2> QED
    BY <2>1 DEF VersionRow
<1> QED
  BY <1>2 DEF EnabledIn

\* What is in force is what the last version put in force.
LEMMA Present ==
    ASSUME PInv
    PROVE  /\ Enabled = EnabledIn(Version)
           /\ \A s \in Submitters : /\ submitters[s].limit = LimitOf(s, Version)
                                     /\ submitters[s].limit \in Limits
           /\ Version \in Nat
<1>0. Tables /\ Chained /\ Version \in Nat
  BY DEF PInv, Tables, Version
<1>1. Enabled = EnabledIn(Version)
  BY <1>0 DEF Chained, EnabledIn
<1>2. ASSUME NEW s \in Submitters
      PROVE  submitters[s].limit = LimitOf(s, Version)
  <2>1. CASE Version = 0
    BY <1>0, <2>1 DEF Chained, LimitOf, LimitIn
  <2>2. CASE Version > 0
    <3>1. PICK p : p = versions[Version].policy
      OBVIOUS
    <3>2. Versioned(p) = VersionedOf(submitters, rules)
      BY <1>0, <2>2, <3>1 DEF Chained
    <3>3. Versioned(p).limits = VersionedOf(submitters, rules).limits
      BY <3>2
    <3>4. [x \in Submitters |-> p.submitters[x].limit]
            = [x \in Submitters |-> submitters[x].limit]
      BY <3>3 DEF Versioned, VersionedOf
    <3>5. p.submitters[s].limit = submitters[s].limit
      BY <3>4
    <3> QED
      BY <1>0, <2>2, <3>1, <3>5 DEF LimitOf, LimitIn
  <2> QED
    BY <1>0, <2>1, <2>2
<1>3. \A s \in Submitters : submitters[s].limit \in Limits
  BY <1>0 DEF Tables, Submitter
<1> QED
  BY <1>0, <1>1, <1>2, <1>3

-----------------------------------------------------------------------------
(***************************************************************************)
(* Handlers                                                                *)
(***************************************************************************)
\* What a handler may rely on while others work.
Onward ==
    /\ Kept
    /\ snapshot.version \in 0 .. Version
    /\ snapshot'.version \in Nat
    /\ snapshot.version <= snapshot'.version
    /\ now \in Nat
    /\ now' \in Nat
    /\ now <= now'

LEMMA HandlerStays ==
    ASSUME Onward, NEW st, HandlerOK(st), UNCHANGED admissions \/ st.pc # "store" \/ st.stale
    PROVE  HandlerOK(st)'
<1>0. /\ Kept
      /\ snapshot.version \in 0 .. Version
      /\ snapshot'.version \in Nat
      /\ snapshot.version <= snapshot'.version
      /\ now \in Nat
      /\ now' \in Nat
      /\ now <= now'
  BY DEF Onward
<1>1. st \in HandlerState /\ st.version \in Nat /\ st.at \in Nat
  BY DEF HandlerOK, HandlerState
<1>2. st.version \in 0 .. Version
  BY <1>0, <1>1 DEF HandlerOK, Kept
<1>3. st.version <= snapshot'.version /\ st.at <= now'
  BY <1>0, <1>1 DEF HandlerOK
<1>4. Follows(st) => Follows(st)'
  <2>1. PICK v \in 0 .. Version : v = st.version
    BY <1>2
  <2>2. /\ EnabledIn(v)' = EnabledIn(v)
        /\ \A s \in Submitters : LimitOf(s, v)' = LimitOf(s, v)
    BY <1>0, <2>1, PastStays
  <2> QED
    BY <1>0, <2>1, <2>2 DEF Follows, Kept
<1>5. ASSUME st.pc = "store", ~st.stale, ~st.full
      PROVE  Counting(st)'
  <2>1. Counting(st) /\ UNCHANGED admissions
    BY <1>5 DEF HandlerOK
  <2> QED
    BY <2>1 DEF Counting, Counted
<1> QED
  BY <1>1, <1>3, <1>4, <1>5 DEF HandlerOK

LEMMA IdleOK ==
    ASSUME snapshot.version \in Nat, now \in Nat
    PROVE  HandlerOK(Idle)
<1>1. PICK l \in Limits, z \in Nat, b \in BOOLEAN : l = DefaultLimit /\ z = 0 /\ b = FALSE
  BY PolicyAssumption, Zenon
<1>2. Idle = [pc |-> "idle", peer |-> NoAddress, submitter |-> NoSubmitter, version |-> z,
              limit |-> l, at |-> z, full |-> b, stale |-> b]
  BY <1>1, Zenon DEF Idle
<1>3. /\ Idle \in HandlerState
      /\ Idle.pc = "idle"
      /\ Idle.version = 0
      /\ Idle.at = 0
  BY <1>1, <1>2 DEF HandlerState
<1> QED
  BY <1>3 DEF HandlerOK

LEMMA SameHandlers ==
    ASSUME Handling, Onward, UNCHANGED <<handler, admissions>>
    PROVE  Handling'
<1>1. ASSUME NEW o \in Handlers PROVE HandlerOK(handler[o])'
  <2>1. PICK st : st = handler[o] /\ st = handler'[o] /\ HandlerOK(st)
    BY DEF Handling
  <2>2. HandlerOK(st)'
    BY <2>1, HandlerStays
  <2> QED
    BY <2>1, <2>2 DEF HandlerOK, Follows, Counting
<1> QED
  BY <1>1 DEF Handling

LEMMA OneHandler ==
    ASSUME Handling, Onward, UNCHANGED admissions, NEW h \in Handlers, NEW st,
           handler' = [handler EXCEPT ![h] = st], HandlerOK(st)'
    PROVE  Handling'
<1>0. /\ handler' = [o \in Handlers |-> handler'[o]]
      /\ handler'[h] = st
      /\ \A o \in Handlers \ {h} : handler'[o] = handler[o]
  BY DEF Handling
<1>1. ASSUME NEW o \in Handlers PROVE HandlerOK(handler[o])'
  <2>1. CASE o = h
    BY <1>0, <2>1 DEF HandlerOK, Follows, Counting
  <2>2. CASE o # h
    <3>1. PICK old : old = handler[o] /\ old = handler'[o] /\ HandlerOK(old)
      BY <1>0, <2>2 DEF Handling
    <3>2. HandlerOK(old)'
      BY <3>1, HandlerStays
    <3> QED
      BY <3>1, <3>2 DEF HandlerOK, Follows, Counting
  <2> QED
    BY <2>1, <2>2
<1> QED
  BY <1>0, <1>1 DEF Handling

\* A commit: whatever it inserts, no handler counts on what it read before.
LEMMA StaleHandlers ==
    ASSUME Onward, NEW hs, \A o \in Handlers : HandlerOK(hs[o]), handler' = Stale(hs)
    PROVE  Handling'
<1>0. /\ handler' = [o \in Handlers |-> handler'[o]]
      /\ \A o \in Handlers :
           handler'[o] = [hs[o] EXCEPT !.stale = hs[o].stale \/ hs[o].pc = "store"]
  BY DEF Stale
<1>1. ASSUME NEW o \in Handlers PROVE HandlerOK(handler[o])'
  <2>1. PICK old \in HandlerState : old = hs[o] /\ HandlerOK(old)
    BY DEF HandlerOK
  <2>2. PICK b \in BOOLEAN : b = (old.stale \/ old.pc = "store")
    BY Zenon
  <2>3. PICK st : st = [old EXCEPT !.stale = b]
    BY Zenon
  <2>4. st = handler'[o]
    BY <1>0, <2>1, <2>2, <2>3
  <2>5. /\ st \in HandlerState
        /\ st.pc = old.pc
        /\ st.peer = old.peer
        /\ st.submitter = old.submitter
        /\ st.version = old.version
        /\ st.limit = old.limit
        /\ st.at = old.at
        /\ st.full = old.full
        /\ st.stale = b
    BY <2>2, <2>3, Zenon DEF HandlerState
  <2>6. st.pc = "store" => st.stale
    BY <2>2, <2>5, ZenonT(30)
  <2>7. HandlerOK(st)
    BY <2>1, <2>5, <2>6 DEF HandlerOK, Follows
  <2>8. HandlerOK(st)'
    BY <2>6, <2>7, HandlerStays
  <2> QED
    BY <2>4, <2>8 DEF HandlerOK, Follows, Counting
<1> QED
  BY <1>0, <1>1 DEF Handling

LEMMA FinishHandlers ==
    ASSUME Handling, Onward, NEW h \in Handlers, Finish(h)
    PROVE  Handling'
<1>1. PICK hs : hs = [handler EXCEPT ![h] = Idle]
  BY Zenon
<1>2. HandlerOK(Idle)
  BY IdleOK DEF Onward, Kept
<1>3. ASSUME NEW o \in Handlers PROVE HandlerOK(hs[o])
  <2>1. hs[o] = IF o = h THEN Idle ELSE handler[o]
    BY <1>1 DEF Handling
  <2> QED
    BY <1>2, <2>1 DEF Handling
<1>4. handler' = Stale(hs)
  BY <1>1 DEF Finish
<1> QED
  BY <1>3, <1>4, StaleHandlers

-----------------------------------------------------------------------------
(***************************************************************************)
(* What is stored                                                          *)
(***************************************************************************)
\* A rejection that names a rule of its version.
NamesRule(d) ==
    /\ d \in Rejection
    /\ d.version \in 0 .. Version
    /\ d.rule \in EnabledIn(d.version)
    /\ Blocks(d.rule, d.peer)

LEMMA RowTypes ==
    ASSUME Stored, NEW i \in 1 .. Len(admissions)
    PROVE  /\ admissions[i] \in AdmissionRow
           /\ admissions[i].submitter \in Submitters
           /\ admissions[i].version \in 0 .. Version
           /\ admissions[i].at \in Nat
<1>1. admissions[i] \in AdmissionRow
  BY DEF Stored
<1> QED
  BY <1>1 DEF Stored, AdmissionRow

LEMMA StoredStays ==
    ASSUME AInv, Onward, UNCHANGED admissions, now' \in 0 .. MaxTime,
           \A d \in rejections' : d \in rejections \/ NamesRule(d)
    PROVE  Stored' /\ QuotaHolds' /\ DecisionsFollowTheirVersion'
<1>0. Stored /\ QuotaHolds /\ DecisionsFollowTheirVersion /\ Kept
      /\ now \in Nat /\ now' \in Nat /\ now <= now'
  BY DEF AInv, Onward
<1>v. \A v \in 0 .. Version : v \in 0 .. Version'
  BY <1>0 DEF Kept
<1>1. Stored'
  <2>1. ASSUME NEW i \in 1 .. Len(admissions)
        PROVE  admissions[i].at <= now' /\ admissions[i].version \in 0 .. Version'
    <3>1. admissions[i].at \in Nat /\ admissions[i].version \in 0 .. Version
      BY <1>0, RowTypes
    <3>2. admissions[i].at <= now
      BY <1>0 DEF Stored
    <3>3. admissions[i].at <= now'
      BY <1>0, <3>1, <3>2
    <3> QED
      BY <1>v, <3>1, <3>3
  <2>2. ASSUME NEW d \in rejections'
        PROVE  d \in Rejection /\ d.version \in 0 .. Version'
    BY <1>0, <1>v, <2>2 DEF Stored, NamesRule
  <2> QED
    BY <1>0, <2>1, <2>2 DEF Stored
<1>2. QuotaHolds'
  <2>1. ASSUME NEW i \in 1 .. Len(admissions), NEW j \in 1 .. Len(admissions)
        PROVE  LimitOf(admissions[i].submitter, admissions[j].version)'
                 = LimitOf(admissions[i].submitter, admissions[j].version)
    <3>1. PICK s \in Submitters, v \in 0 .. Version :
            s = admissions[i].submitter /\ v = admissions[j].version
      BY <1>0, RowTypes
    <3>2. LimitOf(s, v)' = LimitOf(s, v)
      BY <1>0, <3>1, PastStays
    <3> QED
      BY <3>1, <3>2, Zenon DEF LimitOf, LimitIn
  <2> QED
    BY <1>0, <2>1 DEF QuotaHolds
<1>3. DecisionsFollowTheirVersion'
  <2>1. ASSUME NEW i \in 1 .. Len(admissions), NEW r \in EnabledIn(admissions[i].version)' \ expired'
        PROVE  ~Blocks(r, admissions[i].peer)
    <3>1. PICK v \in 0 .. Version : v = admissions[i].version
      BY <1>0, RowTypes
    <3>2. EnabledIn(v)' = EnabledIn(v)
      BY <1>0, <3>1, PastStays
    <3>3. r \in EnabledIn(admissions[i].version) \ expired
      BY <1>0, <2>1, <3>1, <3>2 DEF Kept, EnabledIn
    <3> QED
      BY <1>0, <3>3 DEF DecisionsFollowTheirVersion, EnabledIn, Blocks
  <2>2. ASSUME NEW d \in rejections'
        PROVE  d.rule \in EnabledIn(d.version)' /\ Blocks(d.rule, d.peer)
    <3>1. /\ d.version \in 0 .. Version
          /\ d.rule \in EnabledIn(d.version)
          /\ Blocks(d.rule, d.peer)
      BY <1>0, <2>2 DEF Stored, NamesRule, DecisionsFollowTheirVersion, EnabledIn, Blocks
    <3> QED
      BY <1>0, <3>1, PastStays
  <2> QED
    BY <2>1, <2>2 DEF DecisionsFollowTheirVersion, EnabledIn, Blocks
<1> QED
  BY <1>1, <1>2, <1>3

LEMMA SnapshotStays ==
    ASSUME SnapshotOK, Kept, UNCHANGED snapshot
    PROVE  SnapshotOK'
<1>1. PICK v \in 0 .. Version : v = snapshot.version /\ v = snapshot'.version
  BY DEF SnapshotOK
<1>2. /\ EnabledIn(v)' = EnabledIn(v)
      /\ \A s \in Submitters : LimitOf(s, v)' = LimitOf(s, v)
  BY <1>1, PastStays
<1>3. v \in 0 .. Version'
  BY <1>1 DEF Kept
<1>4. snapshot'.enabled = EnabledIn(snapshot.version)'
  BY <1>1, <1>2 DEF SnapshotOK, EnabledIn
<1>5. \A s \in Submitters : snapshot'.submitters[s].limit = LimitOf(s, snapshot.version)'
  BY <1>1, <1>2 DEF SnapshotOK, LimitOf, LimitIn
<1> QED
  BY <1>1, <1>3, <1>4, <1>5 DEF SnapshotOK, EnabledIn, LimitOf, LimitIn

\* Steps that leave the policy, the clock and the snapshot alone.
LEMMA ServiceFrame ==
    ASSUME AInv, UNCHANGED <<policy, now, snapshot>>
    PROVE  PInv' /\ Onward /\ SnapshotOK' /\ now' \in 0 .. MaxTime
<1>0. PInv /\ SnapshotOK /\ Stored /\ MaxTime \in Nat
  BY AdmissionAssumption DEF AInv
<1>1. PInv' /\ Kept
  BY <1>0, Quiet
<1>2. SnapshotOK'
  BY <1>0, <1>1, SnapshotStays
<1>3. snapshot.version \in 0 .. Version /\ Version \in Nat /\ now \in 0 .. MaxTime
  BY <1>0, <1>1 DEF SnapshotOK, Stored, Kept
<1>4. Onward
  BY <1>0, <1>1, <1>3 DEF Onward
<1> QED
  BY <1>1, <1>2, <1>3, <1>4

LEMMA RejectStep ==
    ASSUME AInv, NEW h \in Handlers, NEW named, Reject(h, named),
           \A d \in named : NamesRule(d)
    PROVE  AInv'
<1>1. /\ rejections' = rejections \cup named
      /\ Finish(h)
      /\ UNCHANGED <<policy, now, snapshot, admissions>>
  BY DEF Reject
<1>2. PInv' /\ Onward /\ SnapshotOK' /\ now' \in 0 .. MaxTime
  BY <1>1, ServiceFrame
<1>3. Handling'
  BY <1>1, <1>2, FinishHandlers DEF AInv
<1>4. Stored' /\ QuotaHolds' /\ DecisionsFollowTheirVersion'
  BY <1>1, <1>2, StoredStays
<1> QED
  BY <1>2, <1>3, <1>4 DEF AInv

\* A handler moves on and nothing is stored.
LEMMA MoveStep ==
    ASSUME AInv, NEW h \in Handlers, NEW st,
           UNCHANGED <<policy, now, snapshot, admissions, rejections>>,
           handler' = [handler EXCEPT ![h] = st], HandlerOK(st)
    PROVE  AInv'
<1>1. PInv' /\ Onward /\ SnapshotOK' /\ now' \in 0 .. MaxTime
  BY ServiceFrame
<1>2. HandlerOK(st)'
  BY <1>1, HandlerStays
<1>3. Handling'
  BY <1>1, <1>2, OneHandler, Zenon DEF AInv
<1>4. Stored' /\ QuotaHolds' /\ DecisionsFollowTheirVersion'
  BY <1>1, StoredStays
<1> QED
  BY <1>1, <1>3, <1>4 DEF AInv

-----------------------------------------------------------------------------
(***************************************************************************)
(* The steps of a handler                                                  *)
(***************************************************************************)
LEMMA PlainReject ==
    ASSUME AInv, NEW h \in Handlers, Reject(h, {})
    PROVE  AInv'
<1>1. PICK named : named = {}
  OBVIOUS
<1>2. Reject(h, named) /\ \A x \in named : NamesRule(x)
  BY <1>1
<1> QED
  BY <1>2, RejectStep

LEMMA RequestStep ==
    ASSUME AInv, NEW h \in Handlers, NEW peer \in Values, NEW envelope \in Addresses,
           NEW c \in Caps, Request(h, peer, envelope, c)
    PROVE  AInv'
<1>0. SnapshotOK /\ Stored /\ PInv /\ Version \in Nat /\ now \in Nat
  BY Present DEF AInv, Stored
<1>1. ASSUME NEW r \in Blocking(peer),
             Reject(h, {[peer |-> peer, version |-> snapshot.version, rule |-> r]})
      PROVE  AInv'
  <2>1. PICK v \in 0 .. Version : v = snapshot.version
    BY <1>0 DEF SnapshotOK
  <2>2. r \in EnabledIn(v) /\ Blocks(r, peer) /\ r \in Rules
    <3>1. r \in snapshot.enabled /\ Blocks(r, peer)
      BY <1>1 DEF Blocking, Blocks
    <3>2. EnabledIn(v) \subseteq Rules
      BY <1>0, <2>1, EnabledType
    <3> QED
      BY <1>0, <2>1, <3>1, <3>2 DEF SnapshotOK
  <2>3. PICK d : d = [peer |-> peer, version |-> v, rule |-> r]
    BY Zenon
  <2>4. d.peer = peer /\ d.version = v /\ d.rule = r /\ d \in Rejection
    BY <1>0, <2>1, <2>2, <2>3 DEF Rejection
  <2>5. NamesRule(d)
    BY <2>1, <2>2, <2>4 DEF NamesRule
  <2>6. PICK named : named = {d}
    BY Zenon
  <2>7. Reject(h, named) /\ \A x \in named : NamesRule(x)
    BY <1>1, <2>1, <2>3, <2>5, <2>6
  <2> QED
    BY <2>7, RejectStep
<1>2. ASSUME Reject(h, {}) PROVE AInv'
  BY <1>2, PlainReject
<1>3. ASSUME NEW s \in Submitters, Blocking(peer) = {},
             handler' = [handler EXCEPT ![h] =
                           [Idle EXCEPT !.pc = "spf", !.peer = peer, !.submitter = s,
                                        !.version = snapshot.version,
                                        !.limit = snapshot.submitters[s].limit]],
             UNCHANGED <<policy, now, snapshot, admissions, rejections>>
      PROVE  AInv'
  <2>1. PICK v \in 0 .. Version, l \in Limits :
          v = snapshot.version /\ l = snapshot.submitters[s].limit /\ l = LimitOf(s, v)
    BY <1>0 DEF SnapshotOK
  <2>2. PICK st : st = [Idle EXCEPT !.pc = "spf", !.peer = peer, !.submitter = s,
                                    !.version = v, !.limit = l]
    OBVIOUS
  <2>3. PICK z \in Nat, b \in BOOLEAN : z = 0 /\ b = FALSE
    BY Zenon
  <2>4. st = [pc |-> "spf", peer |-> peer, submitter |-> s, version |-> v, limit |-> l,
              at |-> z, full |-> b, stale |-> b]
    BY <2>2, <2>3, Zenon DEF Idle
  <2>5. /\ st.pc = "spf"
        /\ st.peer = peer
        /\ st.submitter = s
        /\ st.version = v
        /\ st.limit = l
        /\ st.at = z
    BY <2>4
  <2>6. st \in HandlerState
    BY <1>0, <2>1, <2>3, <2>4 DEF HandlerState
  <2>7. \A r \in EnabledIn(v) \ expired : ~Blocks(r, peer)
    BY <1>0, <1>3, <2>1 DEF SnapshotOK, Blocking, Blocks
  <2>8. Follows(st)
    BY <2>1, <2>5, <2>7 DEF Follows
  <2>9. st.version <= snapshot.version /\ st.at <= now
    BY <1>0, <2>1, <2>3, <2>5
  <2>10. HandlerOK(st)
    BY <2>5, <2>6, <2>8, <2>9 DEF HandlerOK
  <2>11. handler' = [handler EXCEPT ![h] = st]
    BY <1>3, <2>1, <2>2
  <2> QED
    BY <1>3, <2>10, <2>11, MoveStep, ZenonT(30)
<1> QED
  BY <1>1, <1>2, <1>3, ZenonT(30) DEF Request

LEMMA CheckSPFStep ==
    ASSUME AInv, NEW h \in Handlers, CheckSPF(h)
    PROVE  AInv'
<1>1. CASE Reject(h, {})
  BY <1>1, PlainReject
<1>2. CASE /\ handler' = [handler EXCEPT ![h].pc = "count", ![h].at = now]
           /\ UNCHANGED <<policy, now, snapshot, admissions, rejections>>
  <2>1. PICK old \in HandlerState : old = handler[h] /\ HandlerOK(old) /\ old.pc = "spf"
    BY DEF CheckSPF, AInv, Handling, HandlerOK
  <2>2. PICK t \in Nat : t = now
    BY DEF AInv, Stored
  <2>3. PICK st : st = [old EXCEPT !.pc = "count", !.at = t]
    OBVIOUS
  <2>4. /\ st \in HandlerState
        /\ st.pc = "count"
        /\ st.peer = old.peer
        /\ st.submitter = old.submitter
        /\ st.version = old.version
        /\ st.limit = old.limit
        /\ st.at = t
    BY <2>1, <2>2, <2>3, ZenonT(30) DEF HandlerState
  <2>5. HandlerOK(st)
    BY <2>1, <2>2, <2>4 DEF HandlerOK, Follows
  <2>6. handler' = [handler EXCEPT ![h] = st]
    <3>1. h \in DOMAIN handler
      BY DEF AInv, Handling
    <3> QED
      BY <1>2, <2>1, <2>2, <2>3, <3>1, Zenon
  <2> QED
    BY <1>2, <2>5, <2>6, MoveStep, Zenon
<1> QED
  BY <1>1, <1>2 DEF CheckSPF

\* What was counted leaves room in every window, or the request is refused.
LEMMA CountStep ==
    ASSUME AInv, NEW h \in Handlers, Count(h)
    PROVE  AInv'
<1>1. PICK old \in HandlerState : old = handler[h] /\ HandlerOK(old) /\ old.pc = "count"
  BY DEF Count, AInv, Handling, HandlerOK
<1>2. PICK f \in BOOLEAN, b \in BOOLEAN :
        /\ f = \E w \in Windows : Counted(old.submitter, old.at, w) >= old.limit[w]
        /\ b = FALSE
  BY Zenon
<1>3. PICK st : st = [old EXCEPT !.pc = "store", !.stale = b, !.full = f]
  OBVIOUS
<1>4. /\ st \in HandlerState
      /\ st.pc = "store"
      /\ st.peer = old.peer
      /\ st.submitter = old.submitter
      /\ st.version = old.version
      /\ st.limit = old.limit
      /\ st.at = old.at
      /\ st.full = f
  BY <1>1, <1>2, <1>3, ZenonT(30) DEF HandlerState
<1>5. ASSUME ~f PROVE Counting(st)
  <2>1. ASSUME NEW w \in Windows
        PROVE  Counted(old.submitter, old.at, w) < old.limit[w]
    <3>1. Counted(old.submitter, old.at, w) \in Nat
      BY CountedType DEF AInv
    <3>2. old.limit[w] \in Nat
      BY <1>1, AdmissionAssumption DEF HandlerState
    <3>3. ~(Counted(old.submitter, old.at, w) >= old.limit[w])
      BY <1>2, <1>5
    <3> QED
      BY <3>1, <3>2, <3>3
  <2> QED
    BY <1>4, <2>1 DEF Counting
<1>6. Follows(st)
  BY <1>1, <1>4 DEF HandlerOK, Follows
<1>7. HandlerOK(st)
  BY <1>1, <1>4, <1>5, <1>6 DEF HandlerOK
<1>8. handler' = [handler EXCEPT ![h] = st]
  <2>1. h \in DOMAIN handler
    BY DEF AInv, Handling
  <2>2. handler' = [handler EXCEPT ![h].pc = "store", ![h].stale = b, ![h].full = f]
    BY <1>1, <1>2, Zenon DEF Count
  <2> QED
    BY <1>1, <1>3, <2>1, <2>2, Zenon
<1> QED
  BY <1>7, <1>8, MoveStep DEF Count

LEMMA DeferStep ==
    ASSUME AInv, NEW h \in Handlers, Defer(h)
    PROVE  AInv'
<1>1. PICK st : st = Idle
  OBVIOUS
<1>2. snapshot.version \in Nat /\ now \in Nat
  BY Present DEF AInv, SnapshotOK, Stored
<1>3. HandlerOK(st)
  BY <1>1, <1>2, IdleOK
<1> QED
  BY <1>1, <1>3, MoveStep, Zenon DEF Defer

\* The insert: the one step that adds an admission.
LEMMA AdmitStep ==
    ASSUME AInv, NEW h \in Handlers, handler[h].pc = "store", ~handler[h].stale, ~handler[h].full,
           admissions' = Append(admissions, Admitted(h)), Finish(h),
           UNCHANGED <<policy, now, snapshot, rejections>>
    PROVE  AInv'
<1>0. /\ Stored /\ QuotaHolds /\ DecisionsFollowTheirVersion
      /\ admissions \in Seq(AdmissionRow)
  BY DEF AInv, Stored
<1>1. PICK st \in HandlerState : st = handler[h] /\ HandlerOK(st) /\ Follows(st) /\ Counting(st)
  <2>1. HandlerOK(handler[h])
    BY Zenon DEF AInv, Handling
  <2>2. handler[h] \in HandlerState /\ Follows(handler[h]) /\ Counting(handler[h])
    BY <2>1 DEF HandlerOK
  <2> QED
    BY <2>1, <2>2, Zenon
<1>2. PICK v \in Nat, t \in Nat, s \in Submitters, peer \in Values, l \in Limits :
        /\ v = st.version
        /\ t = st.at
        /\ s = st.submitter
        /\ peer = st.peer
        /\ l = st.limit
        /\ l = LimitOf(s, v)
  BY <1>1 DEF Follows, HandlerState
<1>3. PICK a \in AdmissionRow :
        a = Admitted(h) /\ a.submitter = s /\ a.peer = peer /\ a.version = v /\ a.at = t
  <2>1. PICK a : a = [submitter |-> s, peer |-> peer, version |-> v, at |-> t]
    BY Zenon
  <2> QED
    BY <1>1, <1>2, <2>1 DEF Admitted, AdmissionRow
<1>4. PICK n \in Nat, new \in {admissions'} : n = Len(admissions) /\ new = Append(admissions, a) /\ new = admissions'
  BY <1>0, <1>3
<1>5. /\ new \in Seq(AdmissionRow)
      /\ Len(new) = n + 1
      /\ new[n + 1] = a
      /\ \A j \in 1 .. n : new[j] = admissions[j]
  BY <1>0, <1>3, <1>4
<1>n. \A i \in 1 .. n + 1 : i \in 1 .. n \/ i = n + 1
  BY <1>4
<1>6. PInv' /\ Onward /\ SnapshotOK' /\ now' \in 0 .. MaxTime
  BY ServiceFrame
<1>7. Handling'
  BY <1>6, FinishHandlers DEF AInv
<1>8. /\ versions' = versions
      /\ expired' = expired
      /\ Version' = Version
      /\ now' = now
      /\ rejections' = rejections
  BY DEF policy, Version
<1>9. v \in 0 .. Version /\ t <= now
  <2>1. v <= snapshot.version /\ t <= now
    BY <1>1, <1>2 DEF HandlerOK
  <2>2. snapshot.version \in 0 .. Version /\ Version \in Nat
    BY <1>6 DEF Onward, Kept
  <2> QED
    BY <1>2, <2>1, <2>2
<1>10. Stored'
  <2>1. ASSUME NEW i \in 1 .. n + 1
        PROVE  new[i].at <= now /\ new[i].version \in 0 .. Version
    <3>1. CASE i = n + 1
      BY <1>3, <1>5, <1>9, <3>1
    <3>2. CASE i \in 1 .. n
      BY <1>0, <1>4, <1>5, <3>2 DEF Stored
    <3> QED
      BY <1>n, <3>1, <3>2
  <2>2. \A d \in rejections : d \in Rejection /\ d.version \in 0 .. Version
    BY <1>0 DEF Stored
  <2> QED
    BY <1>4, <1>5, <1>6, <1>8, <2>1, <2>2 DEF Stored
<1>11. QuotaHolds'
  <2>1. ASSUME NEW i \in 1 .. n + 1, NEW w \in Windows
        PROVE  \E j \in Window(new, i, w) :
                 Cardinality(Window(new, i, w)) <= LimitOf(new[i].submitter, new[j].version)[w]
    <3>1. PICK k \in Nat : k = l[w]
      BY <1>2, AdmissionAssumption
    <3>2. Cardinality({j \in 1 .. n : admissions[j].submitter = a.submitter
                                        /\ admissions[j].at + Length[w] > a.at}) < k
      BY <1>1, <1>2, <1>3, <1>4, <3>1, Zenon DEF Counting, Counted
    <3>3. \/ i \in 1 .. n /\ Window(new, i, w) = Window(admissions, i, w)
          \/ /\ n + 1 \in Window(new, i, w)
             /\ Cardinality(Window(new, i, w)) <= k
      BY <1>0, <1>4, <3>2, WindowGrows, ZenonT(30)
    <3>4. CASE i \in 1 .. n /\ Window(new, i, w) = Window(admissions, i, w)
      <4>1. PICK j \in Window(admissions, i, w) :
              Cardinality(Window(admissions, i, w))
                <= LimitOf(admissions[i].submitter, admissions[j].version)[w]
        BY <1>0, <1>4, <3>4, ZenonT(30) DEF QuotaHolds, Window
      <4>2. j \in 1 .. n
        BY <1>4, <4>1 DEF Window
      <4>3. new[i] = admissions[i] /\ new[j] = admissions[j]
        BY <1>5, <3>4, <4>2
      <4> QED
        BY <3>4, <4>1, <4>3
    <3>5. CASE /\ n + 1 \in Window(new, i, w)
               /\ Cardinality(Window(new, i, w)) <= k
      <4>1. new[i].submitter = s /\ new[n + 1].version = v
        BY <1>3, <1>5, <3>5 DEF Window
      <4>2. LimitOf(new[i].submitter, new[n + 1].version)[w] = k
        BY <1>2, <3>1, <4>1
      <4> QED
        BY <3>5, <4>2
    <3> QED
      BY <3>3, <3>4, <3>5
  <2>2. ASSUME NEW i \in 1 .. Len(admissions'), NEW w \in Windows
        PROVE  \E j \in Window(admissions', i, w) :
                 Cardinality(Window(admissions', i, w))
                   <= LimitOf(admissions[i].submitter, admissions[j].version)'[w]
    <3>1. PICK j \in Window(new, i, w) :
            Cardinality(Window(new, i, w)) <= LimitOf(new[i].submitter, new[j].version)[w]
      BY <1>4, <1>5, <2>1, <2>2, ZenonT(30)
    <3>2. LimitOf(new[i].submitter, new[j].version)
            = LimitOf(admissions[i].submitter, admissions[j].version)'
      BY <1>4, <1>8 DEF LimitOf, LimitIn
    <3> QED
      BY <1>4, <3>1, <3>2, Zenon
  <2> QED
    BY <2>2, ZenonT(30) DEF QuotaHolds, Window
<1>12. DecisionsFollowTheirVersion'
  <2>1. ASSUME NEW i \in 1 .. n + 1, NEW r \in EnabledIn(new[i].version) \ expired
        PROVE  ~Blocks(r, new[i].peer)
    <3>1. CASE i = n + 1
      BY <1>1, <1>2, <1>3, <1>5, <2>1, <3>1, Zenon DEF Follows
    <3>2. CASE i \in 1 .. n
      BY <1>0, <1>4, <1>5, <2>1, <3>2, ZenonT(30) DEF DecisionsFollowTheirVersion, EnabledIn, Blocks
    <3> QED
      BY <1>n, <3>1, <3>2, Zenon
  <2>2. UNCHANGED <<versions, expired, rejections>>
    BY <1>8, Zenon
  <2>3. ASSUME NEW i \in 1 .. Len(admissions'),
               NEW r \in EnabledIn(admissions'[i].version) \ expired
        PROVE  ~Blocks(r, admissions'[i].peer)
    BY <1>4, <1>5, <2>1, <2>3, Zenon
  <2>4. \A d \in rejections : d.rule \in EnabledIn(d.version) /\ Blocks(d.rule, d.peer)
    BY <1>0, Zenon DEF DecisionsFollowTheirVersion, EnabledIn, Blocks
  <2> QED
    BY <2>2, <2>3, <2>4, ZenonT(30) DEF DecisionsFollowTheirVersion, EnabledIn, Blocks
<1> QED
  BY <1>6, <1>7, <1>10, <1>11, <1>12 DEF AInv

LEMMA StoreStep ==
    ASSUME AInv, NEW h \in Handlers, Store(h)
    PROVE  AInv'
<1>1. CASE Reject(h, {})
  BY <1>1, PlainReject
<1>2. CASE ~Reject(h, {})
  BY <1>2, AdmitStep, Zenon DEF Store
<1> QED
  BY <1>1, <1>2

-----------------------------------------------------------------------------
(***************************************************************************)
(* The steps around the handlers                                           *)
(***************************************************************************)
\* The policy moves on and the clock does not go back.
LEMMA Around ==
    ASSUME AInv, PInv', Kept, now' \in 0 .. MaxTime, now <= now', Handling', SnapshotOK',
           snapshot.version <= snapshot'.version, UNCHANGED <<admissions, rejections>>
    PROVE  AInv'
<1>1. now \in Nat /\ now' \in Nat
  BY AdmissionAssumption DEF AInv, Stored
<1>a. snapshot.version \in 0 .. Version /\ snapshot'.version \in 0 .. Version'
  BY Zenon DEF AInv, SnapshotOK
<1>b. snapshot'.version \in Nat
  BY <1>a DEF Kept
<1>2. Onward
  BY <1>1, <1>a, <1>b DEF Onward
<1>3. Stored' /\ QuotaHolds' /\ DecisionsFollowTheirVersion'
  BY <1>2, StoredStays
<1> QED
  BY <1>3 DEF AInv

LEMMA Loaded ==
    ASSUME PInv, NEW snap, snap = LoadPolicySnapshot
    PROVE  /\ snap.version = Version
           /\ snap.enabled = EnabledIn(Version)
           /\ \A s \in Submitters : /\ snap.submitters[s].limit = LimitOf(s, Version)
                                    /\ snap.submitters[s].limit \in Limits
<1>1. /\ snap.version = Version
      /\ snap.enabled = Enabled
      /\ snap.submitters = submitters
  BY DEF LoadPolicySnapshot, Enabled
<1> QED
  BY <1>1, Present

LEMMA RefreshStep ==
    ASSUME AInv, Refresh
    PROVE  AInv'
<1>0. /\ snapshot' = LoadPolicySnapshot
      /\ UNCHANGED <<policy, now, handler, admissions, rejections>>
      /\ PInv /\ SnapshotOK /\ Stored /\ Handling
  BY DEF Refresh, AInv
<1>1. PInv' /\ Kept /\ Version' = Version
  BY <1>0, Quiet
<1>2. PICK snap : snap = LoadPolicySnapshot /\ snap = snapshot'
  BY <1>0
<1>3. /\ snap.version = Version
      /\ snap.enabled = EnabledIn(Version)
      /\ \A s \in Submitters : /\ snap.submitters[s].limit = LimitOf(s, Version)
                               /\ snap.submitters[s].limit \in Limits
  BY <1>0, <1>2, Loaded
<1>4. PICK v \in 0 .. Version : v = Version
  BY <1>1 DEF Kept
<1>5. /\ EnabledIn(v)' = EnabledIn(v)
      /\ \A s \in Submitters : LimitOf(s, v)' = LimitOf(s, v)
  BY <1>1, <1>4, PastStays
<1>6. snapshot'.version = v /\ v \in 0 .. Version'
  BY <1>1, <1>2, <1>3, <1>4
<1>7. SnapshotOK'
  <2>1. snapshot'.enabled = EnabledIn(snapshot.version)'
    BY <1>2, <1>3, <1>4, <1>5, <1>6 DEF EnabledIn
  <2>2. ASSUME NEW s \in Submitters
        PROVE  /\ snapshot'.submitters[s].limit = LimitOf(s, snapshot.version)'
               /\ snapshot'.submitters[s].limit \in Limits
    BY <1>2, <1>3, <1>4, <1>5, <1>6, Zenon DEF LimitOf, LimitIn
  <2> QED
    BY <1>6, <2>1, <2>2 DEF SnapshotOK
<1>8. now \in Nat /\ now' = now /\ now' \in 0 .. MaxTime /\ now <= now'
  BY <1>0 DEF Stored
<1>9. snapshot.version \in 0 .. Version /\ snapshot.version <= snapshot'.version
  BY <1>0, <1>1, <1>4, <1>6 DEF SnapshotOK, Kept
<1>10. Onward
  BY <1>1, <1>4, <1>6, <1>8, <1>9 DEF Onward, Kept
<1>11. Handling'
  BY <1>0, <1>10, SameHandlers
<1> QED
  BY <1>0, <1>1, <1>7, <1>8, <1>9, <1>11, Around

LEMMA TickStep ==
    ASSUME AInv, Tick
    PROVE  AInv'
<1>0. /\ UNCHANGED <<policy, snapshot, handler, admissions, rejections>>
      /\ PInv /\ SnapshotOK /\ Stored /\ Handling
  BY DEF Tick, AInv
<1>1. PInv' /\ Kept
  BY <1>0, Quiet
<1>2. SnapshotOK'
  BY <1>0, <1>1, SnapshotStays
<1>3. now \in Nat /\ now' \in 0 .. MaxTime /\ now <= now' /\ now' \in Nat
  <2>1. now \in 0 .. MaxTime /\ MaxTime \in Nat /\ now < MaxTime /\ now' = now + 1
    BY <1>0, AdmissionAssumption DEF Stored, Tick
  <2> QED
    BY <2>1
<1>4. snapshot.version \in 0 .. Version /\ snapshot.version <= snapshot'.version
  BY <1>0, <1>1 DEF SnapshotOK, Kept
<1>5. Onward
  BY <1>0, <1>1, <1>3, <1>4 DEF Onward, Kept
<1>6. Handling'
  BY <1>0, <1>5, SameHandlers
<1> QED
  BY <1>0, <1>1, <1>2, <1>3, <1>4, <1>6, Around

LEMMA PolicyStep ==
    ASSUME AInv, PolicyCommits \/ PolicyExpires \/ UNCHANGED vars
    PROVE  AInv'
<1>0. /\ UNCHANGED <<now, snapshot, admissions, rejections>>
      /\ [PolicyNext]_policy
      /\ handler' = Stale(handler) \/ UNCHANGED handler
      /\ PInv /\ SnapshotOK /\ Stored /\ Handling
  BY DEF PolicyCommits, PolicyExpires, PolicyNext, vars, service, AInv
<1>1. PInv' /\ Kept
  BY <1>0, PolicyKept
<1>2. SnapshotOK'
  BY <1>0, <1>1, SnapshotStays
<1>3. now \in Nat /\ now' = now /\ now' \in 0 .. MaxTime /\ now <= now'
  BY <1>0 DEF Stored
<1>4. snapshot.version \in 0 .. Version /\ snapshot.version <= snapshot'.version
  BY <1>0, <1>1 DEF SnapshotOK, Kept
<1>5. Onward
  BY <1>0, <1>1, <1>3, <1>4 DEF Onward, Kept
<1>6. Handling'
  <2>1. CASE UNCHANGED handler
    BY <1>0, <1>5, <2>1, SameHandlers
  <2>2. CASE handler' = Stale(handler)
    <3>1. PICK hs : hs = handler
      OBVIOUS
    <3>2. \A o \in Handlers : HandlerOK(hs[o])
      BY <1>0, <3>1 DEF Handling
    <3> QED
      BY <1>5, <2>2, <3>1, <3>2, StaleHandlers
  <2> QED
    BY <1>0, <2>1, <2>2
<1> QED
  BY <1>0, <1>1, <1>2, <1>3, <1>4, <1>6, Around

-----------------------------------------------------------------------------
(***************************************************************************)
(* The theorems                                                            *)
(***************************************************************************)
LEMMA InitAInv == Init => AInv
<1> SUFFICES ASSUME Init PROVE AInv
  OBVIOUS
<1>1. PInv
  BY InitPInv DEF Init
<1>2. Version \in Nat
  BY <1>1, Present
<1>3. PICK snap : snap = LoadPolicySnapshot /\ snap = snapshot
  BY DEF Init
<1>4. SnapshotOK
  BY <1>1, <1>2, <1>3, Loaded DEF SnapshotOK
<1>5. now = 0 /\ admissions = <<>> /\ rejections = {} /\ MaxTime \in Nat
  BY AdmissionAssumption DEF Init
<1>6. HandlerOK(Idle)
  BY <1>2, <1>4, <1>5, IdleOK DEF SnapshotOK
<1>7. Handling
  BY <1>6 DEF Init, Handling
<1>8. Stored /\ QuotaHolds /\ DecisionsFollowTheirVersion
  BY <1>5 DEF Stored, QuotaHolds, DecisionsFollowTheirVersion
<1> QED
  BY <1>1, <1>4, <1>7, <1>8 DEF AInv

LEMMA StepAInv == AInv /\ [Next]_vars => AInv'
<1> SUFFICES ASSUME AInv, [Next]_vars PROVE AInv'
  OBVIOUS
<1>1. CASE Serve
  BY <1>1, RequestStep, CheckSPFStep, CountStep, StoreStep, DeferStep DEF Serve
<1>2. CASE Refresh \/ Tick
  BY <1>2, RefreshStep, TickStep
<1>3. CASE PolicyCommits \/ PolicyExpires \/ UNCHANGED vars
  BY <1>3, PolicyStep
<1> QED
  BY <1>1, <1>2, <1>3 DEF Next

LEMMA AdmissionInvariance == Spec => []AInv
BY InitAInv, StepAInv, PTL DEF Spec

\* The service's state has its types, and neither the snapshot nor a handler
\* is ahead of the policy in force, whatever the policy does meanwhile.
THEOREM AdmissionTypeCorrect == Spec => []TypeOK
<1>1. AInv => TypeOK
  <2> SUFFICES ASSUME AInv PROVE TypeOK
    OBVIOUS
  <2>1. PolicyTypeOK
    BY PolicyTyped DEF AInv
  <2>2. snapshot.version \in 0 .. Version /\ snapshot.enabled \subseteq Rules
    BY EnabledType DEF AInv, SnapshotOK
  <2>3. ASSUME NEW h \in Handlers
        PROVE  /\ handler[h].pc \in {"idle", "spf", "count", "store"}
               /\ handler[h].version <= snapshot.version
               /\ handler[h].at <= now
               /\ handler[h].limit \in Limits
    BY DEF AInv, Handling, HandlerOK, HandlerState
  <2>4. /\ now \in 0 .. MaxTime
        /\ \A i \in 1 .. Len(admissions) : admissions[i].at <= now
    BY DEF AInv, Stored
  <2> QED
    BY <2>1, <2>2, <2>3, <2>4 DEF TypeOK
<1> QED
  BY <1>1, AdmissionInvariance, PTL

\* For any number of handlers, submitters and windows, any quotas and any
\* interleaving of requests with changes of the policy: no rolling window of a
\* submitter holds more admissions than a quota they were decided under.
THEOREM QuotasHold == Spec => []QuotaHolds
<1>1. AInv => QuotaHolds
  BY DEF AInv
<1> QED
  BY <1>1, AdmissionInvariance, PTL

\* A decision follows the version it names: what it admits that version did
\* not block, and the rule that a rejection names was one of that version's.
THEOREM DecisionsFollow == Spec => []DecisionsFollowTheirVersion
<1>1. AInv => DecisionsFollowTheirVersion
  BY DEF AInv
<1> QED
  BY <1>1, AdmissionInvariance, PTL

-----------------------------------------------------------------------------
(***************************************************************************)
(* The service implements the ledger of one clerk                          *)
(***************************************************************************)
\* The ledger counts as the service does.
LEMMA SameSize == ASSUME NEW S PROVE Ledger!Cardinality(S) = Cardinality(S)
  BY DEF Ledger!Cardinality, Cardinality

\* The insert is the clerk's entry: what was counted still stands.
LEMMA AdmitEnters ==
    ASSUME AInv, NEW h \in Handlers, handler[h].pc = "store", ~handler[h].stale, ~handler[h].full,
           admissions' = Append(admissions, Admitted(h)),
           UNCHANGED <<policy, now, snapshot, rejections>>
    PROVE  Ledger!Enter
<1>1. PICK st \in HandlerState : st = handler[h] /\ HandlerOK(st) /\ Follows(st) /\ Counting(st)
  <2>1. HandlerOK(handler[h])
    BY Zenon DEF AInv, Handling
  <2>2. handler[h] \in HandlerState /\ Follows(handler[h]) /\ Counting(handler[h])
    BY <2>1 DEF HandlerOK
  <2> QED
    BY <2>1, <2>2, Zenon
<1>2. PICK v \in Nat, t \in Nat, s \in Submitters, peer \in Values, l \in Limits :
        /\ v = st.version
        /\ t = st.at
        /\ s = st.submitter
        /\ peer = st.peer
        /\ l = st.limit
        /\ l = LimitOf(s, v)
  BY <1>1 DEF Follows, HandlerState
<1>3. PICK a \in AdmissionRow :
        a = Admitted(h) /\ a.submitter = s /\ a.peer = peer /\ a.version = v /\ a.at = t
  <2>1. PICK a : a = [submitter |-> s, peer |-> peer, version |-> v, at |-> t]
    BY Zenon
  <2> QED
    <3>1. /\ a \in AdmissionRow
          /\ a.submitter = s /\ a.peer = peer /\ a.version = v /\ a.at = t
      BY <2>1 DEF AdmissionRow
    <3>2. a = Admitted(h)
      BY <1>1, <1>2, <2>1, Zenon DEF Admitted
    <3> QED
      BY <3>1, <3>2, ZenonT(30)
<1>4. /\ Len(admissions') = Len(admissions) + 1
      /\ admissions'[Len(admissions')] = a
      /\ admissions' = Append(admissions, a)
  <2>1. admissions' = Append(admissions, a)
    BY <1>3, Zenon
  <2>2. admissions \in Seq(AdmissionRow)
    BY Zenon DEF AInv, Stored
  <2>3. Len(admissions') = Len(admissions) + 1 /\ admissions'[Len(admissions) + 1] = a
    BY <2>1, <2>2
  <2> QED
    BY <2>1, <2>3, Zenon
<1>5. v \in 0 .. Version /\ t <= now
  <2>1. v <= snapshot.version /\ t <= now
    BY <1>1, <1>2, Zenon DEF HandlerOK
  <2>2. snapshot.version \in 0 .. Version
    BY Zenon DEF AInv, SnapshotOK
  <2>3. Version \in Nat
    BY Present, Zenon DEF AInv
  <2>4. \A n \in Nat, m \in 0 .. Version : n <= m => n \in 0 .. Version
    BY <2>3
  <2> QED
    BY <2>1, <2>2, <2>4, Zenon
<1>6. Ledger!Room(a, LimitIn(versions, a.submitter, a.version))
  <2>1. LimitIn(versions, a.submitter, a.version) = l
    BY <1>2, <1>3, Zenon DEF LimitOf
  <2>2. ASSUME NEW w \in Windows
        PROVE  Cardinality({i \in 1 .. Len(admissions) :
                              /\ admissions[i].submitter = a.submitter
                              /\ admissions[i].at + Length[w] > a.at}) < l[w]
    BY <1>1, <1>2, <1>3, ZenonT(30) DEF Counting, Counted
  <2>3. Ledger!Room(a, l)
    BY <2>2, SameSize DEF Ledger!Room
  <2> QED
    BY <2>1, <2>3
<1>7. UNCHANGED <<now, Version, versions>>
  BY DEF policy, Version
<1> QED
  BY <1>3, <1>4, <1>5, <1>6, <1>7, Zenon DEF Ledger!Enter

\* A version that commits is published; older ones stay as they are.
LEMMA PolicyPublishes ==
    ASSUME PInv, [PolicyNext]_policy, UNCHANGED <<now, admissions>>
    PROVE  Ledger!Publish \/ UNCHANGED Ledger!books
<1>1. PInv' /\ Kept
  BY PolicyKept
<1>2. ASSUME NEW v \in 0 .. Version, NEW s \in Submitters
      PROVE  LimitIn(versions', s, v) = LimitIn(versions, s, v)
  <2>1. v = 0 \/ versions'[v] = versions[v]
    BY <1>1 DEF Kept
  <2> QED
    BY <2>1 DEF LimitIn
<1>3. Audit!AuditNext \/ UNCHANGED Audit!audited
  BY <1>1, StepAudit
<1>4. CASE UNCHANGED versions
  BY <1>4 DEF Ledger!books, Version
<1>5. CASE Len(versions') = Len(versions) + 1
  BY <1>2, <1>5 DEF Ledger!Publish, Version
<1> QED
  BY <1>3, <1>4, <1>5, Zenon DEF Audit!AuditNext, Audit!Import, Audit!Change, Audit!Grows, Audit!audited

LEMMA StepLedger == AInv /\ [Next]_vars => [Ledger!LedgerNext]_(Ledger!books)
<1> SUFFICES ASSUME AInv, [Next]_vars
             PROVE  Ledger!LedgerNext \/ UNCHANGED Ledger!books
  OBVIOUS
<1>1. ASSUME UNCHANGED <<policy, now, admissions>> PROVE UNCHANGED Ledger!books
  BY <1>1 DEF policy, Version, Ledger!books
<1>2. ASSUME NEW h \in Handlers, NEW named, Reject(h, named)
      PROVE  UNCHANGED <<policy, now, admissions>>
  BY <1>2 DEF Reject
<1>3. ASSUME NEW h \in Handlers, NEW peer \in Values, NEW envelope \in Addresses, NEW c \in Caps,
             Request(h, peer, envelope, c)
      PROVE  UNCHANGED <<policy, now, admissions>>
  BY <1>2, <1>3, Zenon DEF Request
<1>4. ASSUME NEW h \in Handlers, CheckSPF(h) \/ Count(h) \/ Defer(h)
      PROVE  UNCHANGED <<policy, now, admissions>>
  BY <1>2, <1>4 DEF CheckSPF, Count, Defer
<1>5. ASSUME NEW h \in Handlers, Store(h)
      PROVE  Ledger!Enter \/ UNCHANGED <<policy, now, admissions>>
  BY <1>2, <1>5, AdmitEnters, ZenonT(30) DEF Store
<1>6. CASE Serve
  BY <1>1, <1>3, <1>4, <1>5, <1>6 DEF Serve, Ledger!LedgerNext
<1>7. CASE Refresh
  BY <1>1, <1>7 DEF Refresh
<1>8. CASE Tick
  <2>1. now' = now + 1 /\ UNCHANGED <<versions, Version, admissions>>
    BY <1>8 DEF Tick, policy, Version
  <2> QED
    BY <2>1 DEF Ledger!Pass, Ledger!LedgerNext
<1>9. CASE PolicyCommits \/ PolicyExpires \/ UNCHANGED vars
  <2>1. PInv /\ [PolicyNext]_policy /\ UNCHANGED <<now, admissions>>
    BY <1>9 DEF PolicyCommits, PolicyExpires, PolicyNext, vars, service, AInv
  <2> QED
    BY <2>1, PolicyPublishes DEF Ledger!LedgerNext
<1> QED
  BY <1>6, <1>7, <1>8, <1>9 DEF Next

\* For any number of handlers, submitters, windows and versions, the service
\* admits as one clerk would who counts and enters in one step, under the
\* quota of the version that the admission names (admission.go admit).
THEOREM AdmissionImplementsLedger == Spec => ImplementsLedger
<1>1. Init => Ledger!LedgerInit
  BY DEF Init, PolicyInit, Version, Ledger!LedgerInit
<1>2. AInv /\ [Next]_vars => [Ledger!LedgerNext]_(Ledger!books)
  BY StepLedger
<1> QED
  BY <1>1, <1>2, AdmissionInvariance, PTL DEF Spec, ImplementsLedger, Ledger!LedgerSpec
=============================================================================
